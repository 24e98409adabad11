----------------------------- MODULE Inquiries -----------------------------
(***************************************************************************)
(* The contact form and the desk's inbox, app/modules/inquiries.  Anybody  *)
(* submits; the limit on submissions is counted in the table, from the     *)
(* address a request came from, and a form sent twice within the duplicate *)
(* window is taken for one.  The messages about an inquiry go out after it *)
(* is committed.  Of a form only its sender and whether two are the same   *)
(* matter; no call looks at a status, so two stand for them all.           *)
(***************************************************************************)
EXTENDS Calls, Integers

CONSTANTS
    Inquiries,          \* contact_inquiries rows, existing or to be made
    Senders,            \* e-mail addresses
    Forms,              \* what else a form says
    Origins,            \* network addresses
    Desk,               \* who reads the inbox
    MaxSubmissions,     \* the settings of the rate limit: so many
    RateWindow,         \* in so long
    RepeatWindow,       \* DUPLICATE_WINDOW
    MaxClock            \* bound on the time that passes

ASSUME WindowAssumption == /\ MaxSubmissions \in Nat /\ RateWindow \in Nat
                           /\ RepeatWindow \in Nat /\ MaxClock \in Nat

VARIABLES
    inquiries,
    told,       \* inquiries the desk was told of
    clock

inquiryVars == <<inquiries, told, clock>>

InquiryRow == [sender : Senders, form : Forms, origin : Origins \cup {None},
               created : Nat, status : {"new", "closed"}, notes : BOOLEAN,
               read : BOOLEAN, readAt : Nat \cup {None}, reader : Desk \cup {None},
               gone : BOOLEAN]

\* NULL is no row and no address.
ASSUME InquiryNoneAssumption == None \notin InquiryRow \cup Origins

InquiryTypeOK == /\ inquiries \in [Inquiries -> InquiryRow \cup {None}]
                 /\ told \subseteq Inquiries
                 /\ clock \in 0..MaxClock

(***************************************************************************)
(* The public form.                                                        *)
(***************************************************************************)
\* Mutant: deleting a flood opens the door again.
SinceLive(origin, t) ==
    {x \in Inquiries : /\ Live(inquiries[x])
                       /\ inquiries[x].origin = origin /\ inquiries[x].created >= t}

\* count_from_address_since: deleted rows count.
Since(origin, t) ==
    {x \in Inquiries : /\ inquiries[x] # None
                       /\ inquiries[x].origin = origin /\ inquiries[x].created >= t}

\* _enforce_rate_limit: a limit of zero, or an unknown origin, is no limit.
WithinLimit(origin) ==
    origin # None /\ MaxSubmissions > 0 =>
        Cardinality(Since(origin, clock - RateWindow)) < MaxSubmissions

\* recent_duplicate: the latest live inquiry of the sender in the window.
RecentFrom(sender) ==
    {x \in Inquiries : /\ Live(inquiries[x])
                       /\ inquiries[x].sender = sender
                       /\ inquiries[x].created >= clock - RepeatWindow}
Latest(sender) == {x \in RecentFrom(sender) :
                      \A y \in RecentFrom(sender) : inquiries[y].created <= inquiries[x].created}

\* The row carries the moment its transaction began.
Submit(r, x, sender, form, origin) ==
    /\ inquiries[x] = None
    /\ Unclaimed(x)
    /\ WithinLimit(origin)
    /\ RecentFrom(sender) # {} => \E y \in Latest(sender) : inquiries[y].form # form
    /\ Begin(r, [op |-> "inquiry", id |-> x,
                 set |-> [sender |-> sender, form |-> form, origin |-> origin,
                          created |-> clock, status |-> "new", notes |-> FALSE, read |-> FALSE,
                          readAt |-> None, reader |-> None, gone |-> FALSE]])

\* A repeat writes nothing; its messages are sent again.
SubmitAgain(r, sender, form, origin) ==
    /\ WithinLimit(origin)
    /\ \E y \in Latest(sender) : /\ inquiries[y].form = form
                                 /\ Begin(r, [op |-> "tell", id |-> y])

\* deliver_inquiry_messages, after the response.
Tell(r) == /\ Doing(r, "tell")
           /\ told' = told \cup {call[r].id}
           /\ UNCHANGED <<inquiries, clock>>
           /\ End(r)

(***************************************************************************)
(* The inbox.                                                              *)
(***************************************************************************)
EditInquiry(r, x, new) ==
    /\ Live(inquiries[x])
    /\ Begin(r, [op |-> "inquiry", id |-> x, set |-> Changed(inquiries[x], new)])

\* get_and_mark_read: only a first view is written down.
OpenInquiry(r, x, who) ==
    EditInquiry(r, x, IF inquiries[x] # None /\ inquiries[x].read THEN <<>>
                      ELSE [read |-> TRUE, readAt |-> clock, reader |-> who])

\* change_status: the note is left alone unless one was sent.
ChangeStatus(r, x, new) == EditInquiry(r, x, new)
InquiryMoves == [status : {"new", "closed"}]
                  \cup [status : {"new", "closed"}, notes : BOOLEAN]

UpdateInquiry(r, x, new) == EditInquiry(r, x, new)
InquiryUpdates == [sender : Senders] \cup [form : Forms]

MarkUnread(r, x) == EditInquiry(r, x, [read |-> FALSE])

DeleteInquiry(r, x) == EditInquiry(r, x, [gone |-> TRUE])

RestoreInquiry(r, x) ==
    /\ inquiries[x] # None
    /\ Begin(r, [op |-> "inquiry", id |-> x, set |-> Changed(inquiries[x], [gone |-> FALSE])])

WriteInquiry(r) ==
    /\ Doing(r, "inquiry")
    /\ LET c == call[r]
       IN  /\ inquiries' = [inquiries EXCEPT ![c.id] = Written(@, c.set)]
           /\ IF inquiries[c.id] = None
              THEN /\ call' = [call EXCEPT ![r] = [op |-> "tell", id |-> c.id]]
                   /\ UNCHANGED <<load, made>>
              ELSE End(r)
    /\ UNCHANGED <<told, clock>>

(***************************************************************************)
(* The specification.                                                      *)
(***************************************************************************)
InquiryInit == /\ inquiries = [x \in Inquiries |-> None]
               /\ told = {}
               /\ clock = 0

PublicForm(r) == \E sender \in Senders, form \in Forms, origin \in Origins \cup {None} :
    \/ \E x \in Inquiries : Submit(r, x, sender, form, origin)
    \/ SubmitAgain(r, sender, form, origin)

Inbox(r) == \E x \in Inquiries :
    \/ \E who \in Desk : OpenInquiry(r, x, who)
    \/ \E new \in InquiryMoves : ChangeStatus(r, x, new)
    \/ \E new \in InquiryUpdates : UpdateInquiry(r, x, new)
    \/ MarkUnread(r, x) \/ DeleteInquiry(r, x) \/ RestoreInquiry(r, x)

InquiryLoad(r) == PublicForm(r) \/ Inbox(r)

TimePasses == /\ clock < MaxClock
              /\ clock' = clock + 1
              /\ UNCHANGED <<callVars, inquiries, told>>

InquiryNext == \/ \E r \in Requests : \/ InquiryLoad(r) /\ UNCHANGED inquiryVars
                                      \/ WriteInquiry(r) \/ Tell(r)
                                      \/ Die(r) /\ UNCHANGED inquiryVars
               \/ TimePasses

InquirySpec == CallsInit /\ InquiryInit /\ [][InquiryNext]_<<callVars, inquiryVars>>

(***************************************************************************)
(* Properties.                                                             *)
(***************************************************************************)
\* While calls do not overlap, no stretch of the rate window holds more
\* inquiries from one origin than the limit, whatever the desk deletes,
\* restores or corrects meanwhile; and however they overlap, nobody is told of
\* an inquiry that is not in the table.
SubmissionsPaced ==
    /\ Alone /\ MaxSubmissions > 0 =>
          \A origin \in Origins, t \in 0..MaxClock :
              Cardinality({x \in Inquiries : /\ inquiries[x] # None
                                            /\ inquiries[x].origin = origin
                                            /\ inquiries[x].created \in t..(t + RateWindow)})
                  <= MaxSubmissions
    /\ \A x \in told : inquiries[x] # None
=============================================================================
