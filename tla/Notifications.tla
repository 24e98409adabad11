--------------------------- MODULE Notifications ---------------------------
(***************************************************************************)
(* Announcements and the copies their recipients read,                     *)
(* app/modules/notifications.  The audience of an announcement is resolved *)
(* into notification_recipients rows when it is written, in the same       *)
(* transaction; every edit that changes the audience takes the row of the  *)
(* announcement first, so two of them do not mix.  Reading one's copy      *)
(* writes the copy from the loaded row and moves the counters of the       *)
(* announcement in SQL.  Of the time only what the code asks is kept: has  *)
(* the publication moment come, has the expiry passed.                     *)
(***************************************************************************)
EXTENDS Calls

CONSTANTS
    Notes,      \* notifications rows, existing or to be written
    Readers,    \* accounts that are not deleted
    Teams,      \* roles, and
    TeamOf      \* who holds each: role -> set of readers

ASSUME TeamOfAssumption == IsFiniteSet(Readers) /\ TeamOf \in [Teams -> SUBSET Readers]

VARIABLES
    notes,
    copies,     \* notification_recipients: note and reader -> row
    activeReaders

noteVars == <<notes, copies, activeReaders>>

Deliveries == {"global", "role", "user"}
Expiries == {"never", "ahead", "past"}

NoteRow == [delivery : Deliveries, targets : SUBSET (Readers \cup Teams), active : BOOLEAN,
            published : BOOLEAN, expires : Expiries, recipients : 0..Cardinality(Readers),
            reads : Nat, views : Nat, gone : BOOLEAN]

\* A copy is a row of its own: one made after a call began is another row
\* than any that call can have loaded.
CopyRow == [id : Nat, read : BOOLEAN, count : Nat, views : Nat, archived : BOOLEAN]

\* NULL is no row.
ASSUME NoteNoneAssumption == None \notin NoteRow \cup CopyRow

NoteTypeOK == /\ notes \in [Notes -> NoteRow \cup {None}]
              /\ copies \in [Notes \X Readers -> CopyRow \cup {None}]
              /\ activeReaders \subseteq Readers

\* is_visible: no word of being deleted.
Visible(note) == note.active /\ note.published /\ note.expires # "past"

Copied(n) == {u \in Readers : copies[<<n, u>>] # None}
ReadBy(n) == {u \in Copied(n) : copies[<<n, u>>].read}

(***************************************************************************)
(* Audiences.                                                              *)
(***************************************************************************)
\* NotificationRecipientService.resolve: accounts that are active now.
Audience(delivery, targets) ==
    {u \in activeReaders : \/ delivery = "global"
                           \/ delivery = "user" /\ u \in targets
                           \/ delivery = "role" /\ \E t \in targets \cap Teams : u \in TeamOf[t]}

\* _validate_targets: they exist as what the delivery names.
TargetsExist(delivery, targets) ==
    /\ delivery = "role" => targets \subseteq Teams
    /\ delivery = "user" => targets \subseteq Readers

\* Mutant: a new copy has no count of its page's openings.
FreshCopyUnviewed == [id |-> made, read |-> FALSE, count |-> 0, archived |-> FALSE]

FreshCopy == [id |-> made, read |-> FALSE, count |-> 0, views |-> 0, archived |-> FALSE]

\* The row with its audience counted, its copies, and nothing read.
Delivered(n, row) ==
    LET to == Audience(row.delivery, row.targets)
    IN  /\ notes' = [notes EXCEPT ![n] =
                        Also(row, [recipients |-> Cardinality(to), reads |-> 0, views |-> 0])]
        /\ copies' = [x \in Notes \X Readers |->
                        IF x[1] # n THEN copies[x] ELSE IF x[2] \in to THEN FreshCopy ELSE None]

(***************************************************************************)
(* Writing announcements.                                                  *)
(***************************************************************************)
NewNote(r, n, delivery, targets, active, published, expires) ==
    /\ notes[n] = None
    /\ Unclaimed(n)
    /\ Begin(r, [op |-> "note", id |-> n, rebuild |-> TRUE,
                 set |-> [delivery |-> delivery, targets |-> targets, active |-> active,
                          published |-> published, expires |-> expires, recipients |-> 0,
                          reads |-> 0, views |-> 0, gone |-> FALSE]])

\* NotificationCreate: targets match the delivery.
CreateNote(r, n, delivery, targets, active, published, expires) ==
    /\ (targets = {}) <=> (delivery = "global")
    /\ TargetsExist(delivery, targets)
    /\ NewNote(r, n, delivery, targets, active, published, expires)

\* NotificationManager.send: an event of the platform, published at once, to
\* whom its caller names; a delivery to nobody is refused.
Send(r, n, delivery, targets) ==
    /\ delivery # "global" => targets # {}
    /\ \E expires \in {"never", "ahead"} : NewNote(r, n, delivery, targets, TRUE, TRUE, expires)

\* Mutant: a published announcement is sent to somebody else.
FrozenButAudience(note, new) == note.published => "published" \notin DOMAIN new

\* _reject_content_edits and the guard of the rebuild.
Frozen(note, new) ==
    note.published => DOMAIN new \cap {"published", "delivery", "targets"} = {}

\* NotificationUpdate: a new audience, publication, or withdrawal.
NoteUpdates == [delivery : Deliveries, targets : (SUBSET Readers) \cup (SUBSET Teams)]
               \cup [targets : (SUBSET Readers) \cup (SUBSET Teams)] \cup [delivery : Deliveries]
               \cup [published : BOOLEAN] \cup [active : BOOLEAN] \cup [expires : Expiries]

UpdateNote(r, n, new) ==
    LET row == Written(notes[n], new)
        rebuild == DOMAIN new \cap {"delivery", "targets"} # {}
    IN  /\ Live(notes[n])
        /\ Frozen(notes[n], new)
        /\ rebuild => row # notes[n] /\ TargetsExist(row.delivery, row.targets)
        /\ Begin(r, [op |-> "note", id |-> n, rebuild |-> rebuild,
                     set |-> Changed(notes[n], new)])

DeleteNote(r, n) == /\ Live(notes[n])
                    /\ Begin(r, [op |-> "note", id |-> n, rebuild |-> FALSE,
                                 set |-> [gone |-> TRUE]])

RestoreNote(r, n) == /\ notes[n] # None
                     /\ Begin(r, [op |-> "note", id |-> n, rebuild |-> FALSE,
                                  set |-> Changed(notes[n], [gone |-> FALSE])])

WriteNote(r) ==
    /\ Doing(r, "note")
    /\ LET n == call[r].id
           row == Written(notes[n], call[r].set)
       IN  IF call[r].rebuild THEN Delivered(n, row)
           ELSE notes' = [notes EXCEPT ![n] = row] /\ UNCHANGED copies
    /\ UNCHANGED activeReaders
    /\ End(r)

(***************************************************************************)
(* Reading them.                                                           *)
(***************************************************************************)
\* Mutant: every reading counts as a reader.
ReadOfEvery(copy) == Also(copy, [read |-> TRUE, count |-> copy.count + 1])

\* mark_read, and record_detail_view for an opened page.
ReadOf(copy) == Also(Changed(copy, [read |-> TRUE]), [count |-> copy.count + 1])

Opened(copy, page) ==
    IF page THEN Also(ReadOf(copy), [views |-> copy.views + 1]) ELSE ReadOf(copy)

\* open and mark_read of UserNotificationService.
OpenCopy(r, n, u, page) ==
    /\ copies[<<n, u>>] # None
    /\ Visible(notes[n])
    /\ Begin(r, [op |-> "copy", id |-> n, reader |-> u, row |-> copies[<<n, u>>].id,
                 set |-> Opened(copies[<<n, u>>], page)])

ArchiveCopy(r, n, u, away) ==
    /\ copies[<<n, u>>] # None
    /\ Visible(notes[n])
    /\ Begin(r, [op |-> "copy", id |-> n, reader |-> u, row |-> copies[<<n, u>>].id,
                 set |-> Changed(copies[<<n, u>>], [archived |-> away])])

\* The ORM's UPDATE finds the row it loaded or the request dies; the
\* announcement's counters are increments.
WriteCopy(r) ==
    /\ Doing(r, "copy")
    /\ LET c == call[r]
           by(f) == IF f \in DOMAIN c.set THEN 1 ELSE 0
       IN  /\ copies[<<c.id, c.reader>>] # None
           /\ copies[<<c.id, c.reader>>].id = c.row
           /\ copies' = [copies EXCEPT ![<<c.id, c.reader>>] = Written(@, c.set)]
           /\ notes' = [notes EXCEPT ![c.id].reads = @ + by("read"),
                                     ![c.id].views = @ + by("views")]
    /\ UNCHANGED activeReaders
    /\ End(r)

\* mark_all_read: what is on display, not deleted and unread,
Unread(u) == {n \in Notes : /\ copies[<<n, u>>] # None /\ ~copies[<<n, u>>].read
                            /\ Live(notes[n]) /\ Visible(notes[n])}

MarkAllRead(r, u) ==
    /\ Unread(u) # {}
    /\ Begin(r, [op |-> "sweep", id |-> None, reader |-> u,
                 rows |-> [n \in Unread(u) |-> copies[<<n, u>>].id]])

\* is marked by one UPDATE of the rows that are still there, and counted
\* whether it was or not.
WriteSweep(r) ==
    /\ Doing(r, "sweep")
    /\ LET c == call[r]
           there(n) == copies[<<n, c.reader>>] # None /\ copies[<<n, c.reader>>].id = c.rows[n]
       IN  /\ copies' = [x \in Notes \X Readers |->
                           IF x[2] = c.reader /\ x[1] \in DOMAIN c.rows /\ there(x[1])
                           THEN Also(copies[x], [read |-> TRUE, count |-> copies[x].count + 1])
                           ELSE copies[x]]
           /\ notes' = [n \in Notes |-> IF n \in DOMAIN c.rows
                                        THEN [notes[n] EXCEPT !.reads = @ + 1] ELSE notes[n]]
    /\ UNCHANGED activeReaders
    /\ End(r)

(***************************************************************************)
(* The specification.                                                      *)
(***************************************************************************)
PublicationComes(n) == /\ notes[n] # None
                       /\ ~notes[n].published
                       /\ notes' = [notes EXCEPT ![n].published = TRUE]
                       /\ UNCHANGED <<copies, activeReaders>>

ExpiryComes(n) == /\ notes[n] # None
                  /\ notes[n].expires = "ahead"
                  /\ notes' = [notes EXCEPT ![n].expires = "past"]
                  /\ UNCHANGED <<copies, activeReaders>>

\* Accounts are suspended and reinstated.
StatusChanges(u) == /\ activeReaders' = IF u \in activeReaders THEN activeReaders \ {u}
                                        ELSE activeReaders \cup {u}
                    /\ UNCHANGED <<notes, copies>>

NoteInit == /\ notes = [n \in Notes |-> None]
            /\ copies = [x \in Notes \X Readers |-> None]
            /\ activeReaders = Readers

DeskCalls(r) == \E n \in Notes :
    \/ \E delivery \in Deliveries, targets \in (SUBSET Readers) \cup (SUBSET Teams),
          active \in BOOLEAN, published \in BOOLEAN, expires \in {"never", "ahead"} :
            CreateNote(r, n, delivery, targets, active, published, expires)
    \/ \E delivery \in Deliveries, targets \in (SUBSET Readers) \cup (SUBSET Teams) :
            Send(r, n, delivery, targets)
    \/ \E new \in NoteUpdates : UpdateNote(r, n, new)
    \/ DeleteNote(r, n) \/ RestoreNote(r, n)

ReaderCalls(r) == \E u \in Readers :
    \/ \E n \in Notes, yes \in BOOLEAN : OpenCopy(r, n, u, yes) \/ ArchiveCopy(r, n, u, yes)
    \/ MarkAllRead(r, u)

NoteNext ==
    \/ \E r \in Requests : \/ (DeskCalls(r) \/ ReaderCalls(r)) /\ UNCHANGED noteVars
                           \/ WriteNote(r) \/ WriteCopy(r) \/ WriteSweep(r)
                           \/ Die(r) /\ UNCHANGED noteVars
    \/ /\ \E n \in Notes : PublicationComes(n) \/ ExpiryComes(n)
       /\ UNCHANGED callVars
    \/ \E u \in Readers : StatusChanges(u) /\ UNCHANGED callVars

NoteSpec == CallsInit /\ NoteInit /\ [][NoteNext]_<<callVars, noteVars>>

(***************************************************************************)
(* Properties.                                                             *)
(***************************************************************************)
Known(n) == notes[n] # None

\* The openings the copies of n count: the k-th of each reader.
Openings(n) == UNION {{<<u, k>> : k \in 1..copies[<<n, u>>].views} : u \in Copied(n)}

\* However sends, edits and readings overlap, total_recipients is the number
\* of copies and no reader is missing from total_reads; while calls do not
\* overlap total_reads counts each reader once ("a re-read must not push
\* past 100") and total_detail_views every opening.
EngagementAddsUp ==
    \A n \in Notes : Known(n) =>
        /\ notes[n].recipients = Cardinality(Copied(n))
        /\ notes[n].reads >= Cardinality(ReadBy(n))
        /\ Alone => /\ notes[n].reads = Cardinality(ReadBy(n))
                    /\ notes[n].views = Cardinality(Openings(n))

\* While calls do not overlap, what a reader has read is not taken away or
\* made unread, and its announcement is not sent to anybody else: an audience
\* is rebuilt only while nobody can have read anything.
ReadingIsKept ==
    [][Alone => \A n \in Notes, u \in Readers : u \in ReadBy(n) =>
          /\ u \in ReadBy(n)'
          /\ copies'[<<n, u>>].count >= copies[<<n, u>>].count
          /\ Copied(n)' = Copied(n)
      ]_<<callVars, noteVars>>
=============================================================================
