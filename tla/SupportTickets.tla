--------------------------- MODULE SupportTickets ---------------------------
(***************************************************************************)
(* The support desk, app/modules/support: raising, answering, assigning,   *)
(* escalating, closing, reopening, merging, rating and deleting tickets,   *)
(* and their attachments.                                                  *)
(*                                                                         *)
(* A handler loads the ticket it works on, decides in Python, and writes   *)
(* by id the columns it changed.  Nothing locks the row between the two,   *)
(* so a handler is at least two steps: one that loads and decides, one     *)
(* that writes and commits.  From its first UPDATE of the ticket to its    *)
(* commit nobody sees what a handler wrote and no other handler writes     *)
(* the row, so these are one step; a handler PostgreSQL cancels in a       *)
(* deadlock of two merges is one that crashed.                             *)
(*                                                                         *)
(* Priority, category, subject and description decide nothing here and are *)
(* left out.  All tickets are of one student: no other can reach them.     *)
(*                                                                         *)
(* A definition under "Mutant:" is no part of the specification: it is the *)
(* next definition with a bug in it, which a property must notice.         *)
(***************************************************************************)
EXTENDS Integers, FiniteSets, Sequences

CONSTANTS
    Tickets,          \* support_tickets rows, existing or to be created
    Agents,           \* trainers: staff who reach only what they are assigned
    Files,            \* attachments, existing or to be uploaded
    Ratings,          \* what a feedback can say
    Requests,         \* request handlers that can be in flight at once
    None,             \* NULL, and no request
    Absent,           \* a row that does not exist yet
    Ops,              \* the operations this instance lets clients call
    Crashes,          \* whether a handler may die before it commits
    MaxClock,         \* bound on the clock
    MaxCalls,         \* bound on the calls clients make
    MaxAttachments,   \* support_ticket_max_attachments
    ReopenDays        \* support_ticket_reopen_days, in ticks

Statuses == {"open", "in_progress", "waiting_for_student",
             "waiting_for_trainer", "escalated", "resolved", "closed", "reopened"}
Terminal == {"resolved", "closed"}
Working == {"in_progress", "waiting_for_student", "waiting_for_trainer",
            "escalated"}

\* STATUS_TRANSITIONS and can_transition.
CanTransition(from, to) ==
    CASE from = "closed"   -> to \in {"closed", "reopened"}
      [] from = "resolved" -> to \in {"resolved", "closed", "reopened"}
      [] OTHER             -> to \in Working \cup Terminal \cup {from}

Stamp == Nat \cup {None}
Row == [no : Nat \ {0}, status : Statuses, resolved : Stamp, closed : Stamp,
        first : Stamp, escalated : BOOLEAN, assignee : Agents \cup {None},
        merged : Tickets \cup {None}, deleted : BOOLEAN,
        replies : Nat, files : Int, rating : Ratings \cup {None}]
Columns == {"no", "status", "resolved", "closed", "first", "escalated",
            "assignee", "merged", "deleted", "replies", "files", "rating"}

AllOps == {"create", "raise", "reply", "note", "assign", "status", "escalate",
           "close", "reopen", "merge", "feedback", "upload", "unfile",
           "delete", "restore"}
Pcs == {"idle", "insert", "assign", "messages", "files", "write"}

ASSUME BoundsAssumption ==
    /\ {MaxClock, MaxCalls, MaxAttachments} \subseteq Nat /\ ReopenDays \in Int
ASSUME ValuesAssumption ==
    /\ None \notin Nat \cup Agents \cup Tickets \cup Ratings \cup Requests \cup Statuses
    /\ Absent \notin Row \cup Tickets \cup {None}
    /\ {"student", "admin"} \cap Agents = {}
ASSUME FilesAssumption == IsFiniteSet(Files)
ASSUME OpsAssumption == Ops \subseteq AllOps /\ Crashes \in BOOLEAN

VARIABLES
    now,        \* utc_now()
    ticket,     \* support_tickets
    message,    \* support_ticket_messages: the ticket each is on, and whether it
                \* is a reply or else an internal note or system line
    file,       \* support_ticket_attachments: its ticket, None once deleted
    trail,      \* the latest support_ticket_status_history row of each ticket
    handover,   \* assigned_to of its latest support_ticket_assignments row
    survey,     \* rating of its support_ticket_feedback row
    numbering,  \* holder of the advisory lock on this year's numbers
    req,        \* what each request handler is doing
    calls       \* how many calls clients have made

vars == <<now, ticket, message, file, trail, handover, survey, numbering, req, calls>>

Message == [on : Tickets, reply : BOOLEAN]

Request == [op : AllOps \cup {"none"}, pc : Pcs, tkt : Tickets \cup {None},
            into : Tickets \cup {None}, file : Files \cup {None},
            row : Row \cup {Absent}, want : Row \cup {Absent},
            cols : SUBSET Columns, no : Nat, since : Nat,
            moved : SUBSET Nat, taken : SUBSET Files]

Idle == [op |-> "none", pc |-> "idle", tkt |-> None, into |-> None,
         file |-> None, row |-> Absent, want |-> Absent, cols |-> {}, no |-> 0,
         since |-> 0, moved |-> {}, taken |-> {}]

-----------------------------------------------------------------------------
(* Policy, and what the code asks of a row.                                *)

Staff == Agents \cup {"admin"}
Actors == Staff \cup {"student"}

Born(t) == ticket[t] # Absent
Found(t) == Born(t) /\ ~ticket[t].deleted
CanView(who, row) == who \in {"student", "admin"} \/ row.assignee = who

\* A handler with the ticket in hand: SupportTicketService.get.
Sees(who, t) == Found(t) /\ CanView(who, ticket[t])

\* Mutant: a window of zero days is read as no window.
ZeroIsNoWindow(row) ==
    LET reference == IF row.closed # None THEN row.closed ELSE row.resolved IN
    ReopenDays > 0 /\ reference # None => now <= reference + ReopenDays

WithinReopenWindow(row) ==
    LET reference == IF row.closed # None THEN row.closed ELSE row.resolved IN
    ReopenDays >= 0 /\ reference # None => now <= reference + ReopenDays

\* Mutant: the ball goes to the other side whatever the ticket's status.
BallToOtherSide(status, byStaff) ==
    IF byStaff THEN "waiting_for_student" ELSE "in_progress"

\* _status_after_reply; the status it had where the code answers None.
StatusAfterReply(status, byStaff) ==
    CASE status = "escalated" -> status
      [] status = "resolved"  -> IF byStaff THEN status ELSE "reopened"
      [] OTHER -> IF byStaff THEN "waiting_for_student" ELSE "in_progress"

OnTicket(t) == {i \in DOMAIN message : message[i].on = t}
FilesOf(t) == {f \in Files : file[f] = t}

-----------------------------------------------------------------------------
(* Loading and writing a ticket.                                           *)

At(r, pc) == req[r].pc = pc

\* What a handler leaves of the row it writes by id: the columns it changed
\* from their loaded values, and those it stamped with the time.
Changed(row, want) == {c \in Columns : want[c] # row[c]}

Load(r, op, pc, t, want, stamped) ==
    /\ op \in Ops
    /\ At(r, "idle")
    /\ req' = [req EXCEPT ![r] =
                 [Idle EXCEPT !.op = op, !.pc = pc, !.tkt = t, !.row = ticket[t],
                              !.want = want, !.cols = Changed(ticket[t], want) \cup stamped,
                              !.since = IF op = "reopen" THEN now ELSE 0]]
    /\ UNCHANGED <<now, ticket, message, file, trail, handover, survey, numbering>>

Written(q, row) == [c \in Columns |-> IF c \in q.cols THEN q.want[c] ELSE row[c]]

\* _record_status_move and timeline.assignment are called for these.
MovesStatus(q) == q.want.status # q.row.status
HandsOver(q) == q.want.assignee # q.row.assignee

\* The messages it leaves: a reply, or a note or the line on a new assignee,
\* and the line on a status move.
Line(t) == [on |-> t, reply |-> FALSE]
Posts(q) ==
    (CASE q.op = "reply" -> <<[on |-> q.tkt, reply |-> TRUE]>>
       [] q.op \in {"note", "assign", "raise"} -> <<Line(q.tkt)>>
       [] OTHER -> <<>>)
    \o (IF MovesStatus(q) THEN <<Line(q.tkt)>> ELSE <<>>)

Finish(r) == req' = [req EXCEPT ![r] = Idle]

-----------------------------------------------------------------------------
(* Raising a ticket: SupportTicketService.create, create_for_student.      *)

\* Mutant: the maximum is read without the advisory lock.
NumberUnlocked(r, op) ==
    /\ op \in Ops /\ At(r, "idle")
    /\ \E n \in 1 .. Cardinality(Tickets) + 1 :
         /\ \A t \in Tickets : Born(t) => ticket[t].no < n
         /\ n = 1 \/ \E t \in Tickets : Born(t) /\ ticket[t].no = n - 1
         /\ req' = [req EXCEPT ![r] = [Idle EXCEPT !.op = op, !.pc = "insert", !.no = n]]
    /\ UNCHANGED <<now, ticket, message, file, trail, handover, survey, numbering>>

\* next_ticket_no: the advisory lock, then one more than the highest number,
\* deleted tickets included.
Number(r, op) ==
    /\ op \in Ops /\ At(r, "idle")
    /\ numbering = None
    /\ numbering' = r
    /\ \E n \in 1 .. Cardinality(Tickets) + 1 :
         /\ \A t \in Tickets : Born(t) => ticket[t].no < n
         /\ n = 1 \/ \E t \in Tickets : Born(t) /\ ticket[t].no = n - 1
         /\ req' = [req EXCEPT ![r] = [Idle EXCEPT !.op = op, !.pc = "insert", !.no = n]]
    /\ UNCHANGED <<now, ticket, message, file, trail, handover, survey>>

Raised(n) == [no |-> n, status |-> "open", resolved |-> None, closed |-> None,
              first |-> None, escalated |-> FALSE, assignee |-> None,
              merged |-> None, deleted |-> FALSE, replies |-> 0, files |-> 0,
              rating |-> None]

Insert(r) ==
    /\ At(r, "insert")
    /\ \E t \in Tickets :
         /\ ~Born(t)
         /\ ticket' = [ticket EXCEPT ![t] = Raised(req[r].no)]
         /\ trail' = [trail EXCEPT ![t] = [old |-> None, new |-> "open"]]
         /\ req' = [req EXCEPT ![r] = IF @.op = "create" THEN Idle ELSE
                       [@ EXCEPT !.pc = "assign", !.tkt = t, !.row = Raised(req[r].no)]]
    /\ numbering' = None
    /\ UNCHANGED <<now, message, file, handover, survey>>

\* create_for_student goes on in transactions of their own.  The SELECT of
\* change_priority and assign does not refresh the ticket the session already
\* holds; the UPDATE of change_priority does.
Reprioritise(r) ==
    /\ At(r, "assign") /\ Found(req[r].tkt)
    /\ req' = [req EXCEPT ![r].row = ticket[req[r].tkt]]
    /\ UNCHANGED <<now, ticket, message, file, trail, handover, survey, numbering>>

Assigned(row, who) ==
    [row EXCEPT !.assignee = who,
                !.status = IF who # None /\ @ = "open" THEN "in_progress" ELSE @]

AssignRaised(r) ==
    LET row == req[r].row IN
    /\ At(r, "assign") /\ Found(req[r].tkt)
    /\ \E a \in Agents \ {row.assignee} :
         req' = [req EXCEPT ![r].pc = "write", ![r].want = Assigned(row, a),
                            ![r].cols = Changed(row, Assigned(row, a))]
    /\ UNCHANGED <<now, ticket, message, file, trail, handover, survey, numbering>>

\* The ticket was deleted meanwhile, or is assigned to that agent already.
AssignNothing(r) ==
    /\ At(r, "assign")
    /\ ~Found(req[r].tkt) \/ req[r].row.assignee # None
    /\ Finish(r)
    /\ UNCHANGED <<now, ticket, message, file, trail, handover, survey, numbering>>

-----------------------------------------------------------------------------
(* Handlers that load one ticket, decide, and write it.                    *)

Reply(r, who, t) ==
    LET row == ticket[t]
        byStaff == who # "student"
    IN  /\ Sees(who, t) /\ row.status # "closed"
        /\ Load(r, "reply", "write", t,
                [row EXCEPT !.status = StatusAfterReply(@, byStaff),
                            !.first = IF byStaff /\ @ = None THEN now ELSE @], {})

\* An internal note leaves the ticket's row alone, closed or not.
Note(r, t) ==
    /\ Sees("admin", t)
    /\ Load(r, "note", "write", t, ticket[t], {})

Assign(r, t, who) ==
    /\ Sees("admin", t) /\ ticket[t].assignee # who
    /\ Load(r, "assign", "write", t, Assigned(ticket[t], who), {})

\* Mutant: moving to "escalated" does not set the flag.
MovedForgetsFlag(row, to) ==
    [row EXCEPT !.status = to, !.resolved = IF to = "resolved" THEN now ELSE @]

Moved(row, to) ==
    [row EXCEPT !.status = to,
                !.resolved = IF to = "resolved" THEN now ELSE @,
                !.escalated = @ \/ to = "escalated"]

ChangeStatus(r, who, t, to) ==
    LET from == ticket[t].status IN
    /\ who \in Staff /\ Sees(who, t)
    /\ to \notin {"closed", "reopened", from} /\ CanTransition(from, to)
    /\ Load(r, "status", "write", t, Moved(ticket[t], to),
            IF to = "resolved" THEN {"resolved"} ELSE {})

Escalate(r, who, t, to) ==
    LET row == ticket[t] IN
    /\ who \in Staff /\ Sees(who, t)
    /\ row.status \notin Terminal /\ ~row.escalated
    /\ Load(r, "escalate", "write", t,
            [row EXCEPT !.escalated = TRUE, !.status = "escalated",
                        !.assignee = IF to = None THEN @ ELSE to], {})

\* Mutant: closing does not stamp resolved_at.
CloseUnresolved(row) == [row EXCEPT !.status = "closed", !.closed = now]

Closed(row) ==
    [row EXCEPT !.status = "closed", !.closed = now,
                !.resolved = IF @ = None THEN now ELSE @]

Close(r, who, t) ==
    /\ Sees(who, t) /\ ticket[t].status # "closed"
    /\ Load(r, "close", "write", t, Closed(ticket[t]), {"closed"})

Reopen(r, who, t) ==
    LET row == ticket[t] IN
    /\ Sees(who, t) /\ row.status \in Terminal /\ WithinReopenWindow(row)
    /\ Load(r, "reopen", "write", t,
            [row EXCEPT !.status = "reopened", !.closed = None, !.resolved = None], {})

Feedback(r, t, rating) ==
    /\ Sees("student", t) /\ ticket[t].status \in Terminal /\ survey[t] = None
    /\ Load(r, "feedback", "write", t, [ticket[t] EXCEPT !.rating = rating], {})

Delete(r, t) ==
    /\ Found(t)
    /\ Load(r, "delete", "write", t, [ticket[t] EXCEPT !.deleted = TRUE], {"deleted"})

Restore(r, t) ==
    /\ Born(t)
    /\ Load(r, "restore", "write", t, [ticket[t] EXCEPT !.deleted = FALSE], {})

Upload(r, who, t) ==
    /\ Sees(who, t) /\ ticket[t].status # "closed"
    /\ Cardinality(FilesOf(t)) < MaxAttachments
    /\ Load(r, "upload", "write", t, ticket[t], {})

\* Removing an attachment; its row is the one loaded here.
Unfile(r, f) ==
    /\ "unfile" \in Ops /\ At(r, "idle")
    /\ file[f] \in Tickets /\ Found(file[f])
    /\ req' = [req EXCEPT ![r] =
                 [Idle EXCEPT !.op = "unfile", !.pc = "write", !.tkt = file[f],
                              !.file = f, !.row = ticket[file[f]],
                              !.want = ticket[file[f]]]]
    /\ UNCHANGED <<now, ticket, message, file, trail, handover, survey, numbering>>

-----------------------------------------------------------------------------
(* Writing and committing.                                                 *)

\* Mutant: total_replies is read with the ticket and written back.
CountsInPython(q, row) ==
    IF q.op = "reply" THEN [Written(q, row) EXCEPT !.replies = q.row.replies + 1]
    ELSE Written(q, row)

\* bump_counters adds to the counters in SQL.
Counted(q, row) ==
    LET kept == Written(q, row) IN
    CASE q.op = "reply"  -> [kept EXCEPT !.replies = @ + 1]
      [] q.op = "upload" -> [kept EXCEPT !.files = @ + 1]
      [] q.op = "unfile" -> [kept EXCEPT !.files = @ - 1]
      [] OTHER -> kept

\* Mutant: the status history is written only by change_status and close.
RecordsSome(q) ==
    /\ trail' = IF MovesStatus(q) /\ q.op \in {"status", "close"}
                  THEN [trail EXCEPT ![q.tkt] = [old |-> q.row.status, new |-> q.want.status]]
                  ELSE trail
    /\ handover' = IF HandsOver(q) THEN [handover EXCEPT ![q.tkt] = q.want.assignee]
                    ELSE handover

\* The history rows, told from the loaded values.
Records(q) ==
    /\ trail' = IF MovesStatus(q)
                  THEN [trail EXCEPT ![q.tkt] = [old |-> q.row.status, new |-> q.want.status]]
                  ELSE trail
    /\ handover' = IF HandsOver(q) THEN [handover EXCEPT ![q.tkt] = q.want.assignee]
                    ELSE handover

Write(r) ==
    LET q == req[r] IN
    /\ At(r, "write") /\ q.op \notin {"merge", "feedback", "upload", "unfile"}
    /\ ticket' = [ticket EXCEPT ![q.tkt] = Counted(q, @)]
    /\ message' = message \o Posts(q)
    /\ Records(q)
    /\ Finish(r)
    /\ UNCHANGED <<now, file, survey, numbering>>

\* The feedback row's unique index is checked again by the INSERT.
WriteFeedback(r) ==
    LET q == req[r] IN
    /\ At(r, "write") /\ q.op = "feedback" /\ survey[q.tkt] = None
    /\ survey' = [survey EXCEPT ![q.tkt] = q.want.rating]
    /\ ticket' = [ticket EXCEPT ![q.tkt] = Counted(q, @)]
    /\ Finish(r)
    /\ UNCHANGED <<now, message, file, trail, handover, numbering>>

\* Mutant: removing an attachment leaves the counter.
WriteFileUncounted(r) ==
    LET q == req[r] IN
    /\ At(r, "write")
    /\ \/ q.op = "upload" /\ \E f \in Files : /\ file[f] = Absent
                                             /\ file' = [file EXCEPT ![f] = q.tkt]
                                             /\ ticket' = [ticket EXCEPT ![q.tkt] = Counted(q, @)]
       \/ q.op = "unfile" /\ file' = [file EXCEPT ![q.file] = None] /\ UNCHANGED ticket
    /\ Finish(r)
    /\ UNCHANGED <<now, message, trail, handover, survey, numbering>>

WriteFile(r) ==
    LET q == req[r] IN
    /\ At(r, "write")
    /\ \/ q.op = "upload" /\ \E f \in Files : /\ file[f] = Absent
                                             /\ file' = [file EXCEPT ![f] = q.tkt]
       \/ q.op = "unfile" /\ file' = [file EXCEPT ![q.file] = None]
    /\ ticket' = [ticket EXCEPT ![q.tkt] = Counted(q, @)]
    /\ Finish(r)
    /\ UNCHANGED <<now, message, trail, handover, survey, numbering>>

-----------------------------------------------------------------------------
(* Merging a duplicate `s` into `t`: SupportTicketService.merge.           *)

\* Mutant: a target that was merged itself is accepted.
MergeableSource(s, t) == s # t /\ ticket[s].merged = None

Mergeable(s, t) == s # t /\ ticket[s].merged = None /\ ticket[t].merged = None

Merge(r, s, t) ==
    /\ "merge" \in Ops /\ At(r, "idle")
    /\ Found(s) /\ Found(t) /\ Mergeable(s, t)
    /\ req' = [req EXCEPT ![r] = [Idle EXCEPT !.op = "merge", !.pc = "messages",
                                   !.tkt = s, !.into = t, !.row = ticket[s]]]
    /\ UNCHANGED <<now, ticket, message, file, trail, handover, survey, numbering>>

\* reassign_to_ticket reads the messages, then moves them by id.
MergeMessages(r) ==
    /\ At(r, "messages")
    /\ req' = [req EXCEPT ![r].pc = "files", ![r].moved = OnTicket(req[r].tkt)]
    /\ UNCHANGED <<now, ticket, message, file, trail, handover, survey, numbering>>

MergedInto(row, t) ==
    [row EXCEPT !.merged = t, !.status = "closed",
                !.closed = IF @ = None THEN now ELSE @,
                !.resolved = IF @ = None THEN now ELSE @]

\* Moving them waits for another merge that has moved one of them already.
MergeFiles(r) ==
    LET want == MergedInto(req[r].row, req[r].into) IN
    /\ At(r, "files")
    /\ \A o \in Requests \ {r} : At(o, "write") => req[o].moved \cap req[r].moved = {}
    /\ req' = [req EXCEPT ![r].pc = "write", ![r].taken = FilesOf(req[r].tkt),
                          ![r].want = want, ![r].cols = Changed(req[r].row, want)]
    /\ UNCHANGED <<now, ticket, message, file, trail, handover, survey, numbering>>

\* The history row is written after the UPDATE, whose refresh has already
\* replaced the status it takes for the old one.
WriteMerge(r) ==
    LET q == req[r]
        source == Written(q, ticket[q.tkt])
    IN  /\ At(r, "write") /\ q.op = "merge"
        /\ ticket' = [t \in Tickets |->
                LET row == IF t = q.tkt THEN source ELSE ticket[t] IN
                IF t # q.into THEN row
                ELSE [row EXCEPT !.replies = @ + Cardinality(q.moved),
                                 !.files = @ + Cardinality(q.taken)]]
        /\ message' = [i \in DOMAIN message |->
                IF i \in q.moved THEN [message[i] EXCEPT !.on = q.into] ELSE message[i]]
        /\ file' = [f \in Files |->
                IF f \in q.taken /\ file[f] # None THEN q.into ELSE file[f]]
        /\ trail' = [trail EXCEPT ![q.tkt] = [old |-> source.status, new |-> "closed"]]
        /\ Finish(r)
        /\ UNCHANGED <<now, handover, survey, numbering>>

-----------------------------------------------------------------------------
(* A handler that fails or dies, the clock.                                *)

\* The IntegrityError of a second feedback.  Bound: an upload for which no row
\* of Files is left.
Refused(r) ==
    LET q == req[r] IN
    /\ At(r, "write")
    /\ \/ q.op = "feedback" /\ survey[q.tkt] # None
       \/ q.op = "upload" /\ \A f \in Files : file[f] # Absent
    /\ Finish(r)
    /\ UNCHANGED <<now, ticket, message, file, trail, handover, survey, numbering>>

Crash(r) ==
    /\ Crashes /\ ~At(r, "idle")
    /\ Finish(r)
    /\ numbering' = IF numbering = r THEN None ELSE numbering
    /\ UNCHANGED <<now, ticket, message, file, trail, handover, survey>>

Tick ==
    /\ now < MaxClock
    /\ now' = now + 1
    /\ UNCHANGED <<ticket, message, file, trail, handover, survey, numbering, req>>

-----------------------------------------------------------------------------
Init ==
    /\ now = 0
    /\ ticket = [t \in Tickets |-> Absent]
    /\ message = <<>>
    /\ file = [f \in Files |-> Absent]
    /\ trail = [t \in Tickets |-> [old |-> None, new |-> None]]
    /\ handover = [t \in Tickets |-> None]
    /\ survey = [t \in Tickets |-> None]
    /\ numbering = None
    /\ req = [r \in Requests |-> Idle]
    /\ calls = 0

\* A client calls an endpoint.
Arrive(r) ==
    \/ \E op \in {"create", "raise"} : Number(r, op)
    \/ \E t \in Tickets, who \in Actors :
         Reply(r, who, t) \/ Close(r, who, t) \/ Reopen(r, who, t) \/ Upload(r, who, t)
    \/ \E t \in Tickets : Note(r, t) \/ Delete(r, t) \/ Restore(r, t)
    \/ \E t \in Tickets, to \in Agents \cup {None} : Assign(r, t, to)
    \/ \E t \in Tickets, who \in Staff, to \in Statuses : ChangeStatus(r, who, t, to)
    \/ \E t \in Tickets, who \in Staff, to \in Agents \cup {None} : Escalate(r, who, t, to)
    \/ \E t \in Tickets, rating \in Ratings : Feedback(r, t, rating)
    \/ \E f \in Files : Unfile(r, f)
    \/ \E s, t \in Tickets : Merge(r, s, t)

\* The handler of a request in flight goes on.
Handle(r) ==
    \/ Insert(r) \/ Reprioritise(r) \/ AssignRaised(r) \/ AssignNothing(r)
    \/ Write(r) \/ WriteFeedback(r) \/ WriteFile(r) \/ Refused(r)
    \/ MergeMessages(r) \/ MergeFiles(r) \/ WriteMerge(r)

\* Bound: clients make MaxCalls calls.
Call(r) == calls < MaxCalls /\ Arrive(r) /\ calls' = calls + 1

Next ==
    \/ \E r \in Requests : Call(r)
    \/ (\E r \in Requests : Handle(r) \/ Crash(r)) /\ UNCHANGED calls
    \/ Tick /\ UNCHANGED calls

Spec == Init /\ [][Next]_vars
=============================================================================
