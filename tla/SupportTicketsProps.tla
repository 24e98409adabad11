------------------------ MODULE SupportTicketsProps ------------------------
(***************************************************************************)
(* What the support desk of SupportTickets promises: first under every     *)
(* interleaving of requests, then only while requests do not overlap.      *)
(***************************************************************************)
EXTENDS SupportTickets

\* Every variable holds a value of its type.
TypeOK ==
    /\ now \in Nat
    /\ ticket \in [Tickets -> Row \cup {Absent}]
    /\ message \in Seq(Message)
    /\ file \in [Files -> Tickets \cup {None, Absent}]
    /\ trail \in [Tickets -> [old : Statuses \cup {None}, new : Statuses \cup {None}]]
    /\ handover \in [Tickets -> Agents \cup {None}]
    /\ survey \in [Tickets -> Ratings \cup {None}]
    /\ numbering \in Requests \cup {None}
    /\ req \in [Requests -> Request]
    /\ calls \in Nat

-----------------------------------------------------------------------------
(* Under every interleaving.                                               *)

\* Two tickets never share a number, and no creation is refused because the
\* number it reserved has been taken: the advisory lock outlives the insert.
NumberIsFree ==
    /\ \A s, t \in Tickets : s # t /\ Born(s) /\ Born(t) => ticket[s].no # ticket[t].no
    /\ \A r \in Requests : At(r, "insert") =>
         \A t \in Tickets : Born(t) => ticket[t].no # req[r].no

RepliesOn(t) == {i \in OnTicket(t) : message[i].reply}

\* No reply on a ticket goes uncounted, whichever replies land together and
\* whichever merges move them.
NoReplyUncounted ==
    \A t \in Tickets : Born(t) =>
        ticket[t].replies >= Cardinality(RepliesOn(t))

\* The rating a queue shows is the one of the feedback row, even when two
\* feedbacks arrive together.
RatingMirrorsFeedback == \A t \in Tickets : Born(t) => ticket[t].rating = survey[t]

\* A ticket that stands as escalated carries the escalation flag, whichever
\* route and whichever overlapping handlers brought it there.
EscalatedIsFlagged ==
    \A t \in Tickets : Born(t) /\ ticket[t].status = "escalated" => ticket[t].escalated

\* The history tables end where the ticket stands: the latest status history
\* row of a ticket that was not merged, and the latest handover of any.
HistoryIsCurrent ==
    \A t \in Tickets : Born(t) =>
        /\ ticket[t].merged = None => trail[t].new = ticket[t].status
        /\ handover[t] = ticket[t].assignee

-----------------------------------------------------------------------------
(* The inductive invariant behind the properties above.                    *)

\* What a handler about to write has in hand: which columns it writes, and
\* that a ticket it makes escalated is flagged by it or was when loaded.
WriteOK(q) ==
    /\ q.want \in Row
    /\ "no" \notin q.cols
    /\ "status" \in q.cols <=> MovesStatus(q)
    /\ "assignee" \in q.cols <=> HandsOver(q)
    /\ "escalated" \in q.cols => q.want.escalated
    /\ MovesStatus(q) /\ q.want.status = "escalated" =>
          "escalated" \in q.cols \/ ticket[q.tkt].escalated
    /\ "rating" \in q.cols <=> q.op = "feedback"
    /\ "merged" \in q.cols <=> q.op = "merge"
    /\ q.op = "merge" => q.want.merged # None /\ ~HandsOver(q)
    /\ q.op \in {"feedback", "upload", "unfile"} => ~MovesStatus(q) /\ ~HandsOver(q)
    /\ q.op = "feedback" => q.want.rating \in Ratings
    /\ q.op = "unfile" => q.file \in Files

InFlight(r) ==
    LET q == req[r] IN
    /\ q.pc = "insert" => /\ numbering = r /\ q.no # 0
                          /\ q.op \in {"create", "raise"}
    /\ q.pc \in {"assign", "messages", "files", "write"} =>
          q.tkt \in Tickets /\ Born(q.tkt) /\ q.row \in Row
    /\ q.pc = "assign" => q.op = "raise"
    /\ q.pc \in {"messages", "files"} => q.op = "merge"
    /\ q.op = "merge" => /\ q.into \in Tickets /\ Born(q.into)
                         /\ q.row.merged = None
                         /\ IsFiniteSet(q.moved)
    /\ q.pc = "write" => WriteOK(q)

UnbornIsBlank ==
    \A t \in Tickets : ~Born(t) => survey[t] = None /\ handover[t] = None

\* The invariant the proofs use: what each handler knows and will write, and
\* what no column it writes may break.
DeskInv ==
    /\ TypeOK
    /\ \A r \in Requests : InFlight(r)
    /\ UnbornIsBlank
    /\ NumberIsFree
    /\ RatingMirrorsFeedback
    /\ EscalatedIsFlagged
    /\ HistoryIsCurrent

-----------------------------------------------------------------------------
(* One request at a time.                                                  *)

\* constants.py: a ticket only makes the moves STATUS_TRANSITIONS lists,
\* replies, assignments, escalations and merges included.
FollowsTransitions ==
    [][\A t \in Tickets : Born(t) =>
          CanTransition(ticket[t].status, ticket'[t].status)]_vars

\* The handlers keep to the lifecycle of TicketLifecycle: every commit is one
\* whole decision about one ticket, taken on it as it stands, or changes
\* nothing its course depends on; and nothing but a restore happens to a
\* deleted ticket.
Card(row) == [status |-> row.status, escalated |-> row.escalated, assignee |-> row.assignee,
              merged |-> row.merged, rating |-> row.rating, deleted |-> row.deleted]
Unraised == [status |-> "unraised", escalated |-> FALSE, assignee |-> None,
             merged |-> None, rating |-> None, deleted |-> FALSE]
Cards == [t \in Tickets |-> IF Born(t) THEN Card(ticket[t]) ELSE Unraised]
Lifecycle == INSTANCE TicketLifecycle WITH card <- Cards
KeepsLifecycle == Lifecycle!Spec

\* constants.py: only a reopen leaves "closed", and only one that came inside
\* the window.
ClosedLeftOnlyByReopen ==
    [][\A t \in Tickets : Born(t) /\ ticket[t].status = "closed"
                          /\ ticket'[t].status # "closed" =>
          \E r \in Requests :
              /\ req[r].op = "reopen" /\ req[r].tkt = t
              /\ ReopenDays >= 0 => req[r].since <= ticket[t].closed + ReopenDays]_vars

\* The dates agree with the status: closed_at is set exactly while a ticket is
\* closed, and a finished ticket has a resolution date not after its closing.
DatesMatchStatus ==
    \A t \in Tickets : Born(t) =>
        LET row == ticket[t] IN
        /\ row.closed # None <=> row.status = "closed"
        /\ row.status \in Terminal => row.resolved # None
        /\ row.closed # None => row.resolved <= row.closed

\* Merges form no cycle: following merged_into_id always ends at a ticket
\* that carries the conversation.
MergesEnd ==
    \E rank \in [Tickets -> 1 .. Cardinality(Tickets)] :
        \A t \in Tickets : Born(t) /\ ticket[t].merged # None =>
            rank[t] < rank[ticket[t].merged]

\* attachment_count is the number of live attachments of every ticket that
\* was not merged away.
FilesCounted ==
    \A t \in Tickets : Born(t) /\ ticket[t].merged = None =>
        ticket[t].files = Cardinality(FilesOf(t))

\* timeline.py and the model of the ticket: total_replies is the number of
\* replies of every ticket that was not merged away.  A merge breaks it.
TotalRepliesCountsReplies ==
    \A t \in Tickets : Born(t) /\ ticket[t].merged = None =>
        ticket[t].replies = Cardinality(RepliesOn(t))
=============================================================================
