------------------------ MODULE SupportCountsProofs ------------------------
(***************************************************************************)
(* More proofs about SupportTickets: that no reply goes uncounted, however *)
(* many requests overlap; then what the desk promises only while requests  *)
(* do not overlap, for any number of tickets, files and agents.            *)
(***************************************************************************)
EXTENDS SupportTicketsProofs, SequenceTheorems, FunctionTheorems

-----------------------------------------------------------------------------
(* What a call that loads a ticket will make of it.                        *)

\* The dates agree with the status, and none is in the future.
InOrder(row) ==
    /\ row.closed # None <=> row.status = "closed"
    /\ row.status \in Terminal => row.resolved # None
    /\ row.closed # None => row.resolved <= row.closed
    /\ row.resolved # None => row.resolved <= now

\* The counters and the merge target stay, the status makes a move the table
\* of transitions lists, the dates follow, and "closed" is left by a reopen
\* inside the window.
Sound(op, row, want) ==
    /\ want.replies = row.replies /\ want.files = row.files /\ want.merged = row.merged
    /\ CanTransition(row.status, want.status)
    /\ InOrder(row) => InOrder(want)
    /\ InOrder(row) /\ row.status = "closed" /\ want.status # "closed" =>
          op = "reopen" /\ (ReopenDays >= 0 => now <= row.closed + ReopenDays)

Loads(r) ==
    \E op \in AllOps \ {"merge", "unfile"}, t \in Tickets, want \in Row,
       stamped \in SUBSET {"resolved", "closed", "deleted"} :
        /\ Born(t) /\ ticket[t] \in Row
        /\ Load(r, op, "write", t, want, stamped)
        /\ Sound(op, ticket[t], want)

\* The row in hand of a call that sees its ticket.
LEMMA SeenRow ==
    ASSUME TypeOK, NEW t \in Tickets, Born(t)
    PROVE  /\ ticket[t] \in Row /\ now \in Nat /\ now \in Stamp /\ now # None
           /\ ticket[t].status \in Statuses /\ ReopenDays \in Int
           /\ ticket[t].closed \in Nat \cup {None} /\ ticket[t].resolved \in Nat \cup {None}
<1>1. ticket[t] \in Row /\ now \in Nat BY DEF TypeOK, Born
<1>2. QED BY <1>1, ValuesAssumption, BoundsAssumption DEF Row, Stamp

\* A status stays or makes a move.
LEMMA StaysPut == ASSUME NEW s \in Statuses PROVE CanTransition(s, s)
  BY DEF CanTransition, Statuses, Terminal, Working

\* A change that leaves status and dates alone is sound.
LEMMA SameStatusSound ==
    ASSUME NEW op, NEW row \in Row, NEW want \in Row,
           want.replies = row.replies, want.files = row.files, want.merged = row.merged,
           want.status = row.status, want.closed = row.closed, want.resolved = row.resolved
    PROVE  Sound(op, row, want)
<1>1. CanTransition(row.status, want.status) BY StaysPut DEF Row
<1>2. QED BY <1>1 DEF Sound, InOrder

\* A reply.
LEMMA ReplyLoads ==
    ASSUME TypeOK, NEW r \in Requests, NEW t \in Tickets, NEW who, Reply(r, who, t)
    PROVE  Loads(r)
<1> DEFINE row == ticket[t]
           status == StatusAfterReply(row.status, who # "student")
           first == IF who # "student" /\ row.first = None THEN now ELSE row.first
           want == [row EXCEPT !.status = status, !.first = first]
<1>1. Born(t) /\ row.status # "closed" /\ Load(r, "reply", "write", t, want, {})
  BY DEF Reply, Sees, Found
<1>2. row \in Row /\ now \in Stamp /\ row.status \in Statuses BY <1>1, SeenRow
<1>3. /\ status \in Statuses /\ first \in Stamp
      /\ CanTransition(row.status, status)
      /\ status # "closed" /\ (status \in Terminal => status = row.status)
  BY <1>1, <1>2 DEF StatusAfterReply, Statuses, CanTransition, Terminal, Working, Row
<1> HIDE DEF status, first
<1>4. /\ want \in Row /\ want.replies = row.replies /\ want.files = row.files
      /\ want.merged = row.merged /\ want.status = status
      /\ want.closed = row.closed /\ want.resolved = row.resolved
  BY <1>2, <1>3 DEF Row
<1> HIDE DEF want
<1>5. Sound("reply", row, want) BY <1>1, <1>3, <1>4 DEF Sound, InOrder
<1>6. QED BY <1>1, <1>2, <1>4, <1>5 DEF Loads, AllOps

\* A note, an upload and a deletion leave status and dates alone; so does a
\* restore and a feedback.
LEMMA QuietLoads ==
    ASSUME TypeOK, NEW r \in Requests, NEW t \in Tickets, NEW who,
           \/ Note(r, t) \/ Upload(r, who, t) \/ Delete(r, t) \/ Restore(r, t)
           \/ \E rating \in Ratings : Feedback(r, t, rating)
    PROVE  Loads(r)
<1> DEFINE row == ticket[t]
           Same(want) == /\ want \in Row /\ want.replies = row.replies
                         /\ want.files = row.files /\ want.merged = row.merged
                         /\ want.status = row.status
                         /\ want.closed = row.closed /\ want.resolved = row.resolved
<1>1. Born(t) BY DEF Note, Upload, Delete, Restore, Feedback, Sees, Found
<1>2. row \in Row BY <1>1, SeenRow
<1>3. /\ Same(row) /\ \A rating \in Ratings : Same([row EXCEPT !.rating = rating])
      /\ Same([row EXCEPT !.deleted = TRUE]) /\ Same([row EXCEPT !.deleted = FALSE])
  BY <1>2 DEF Row
<1>4. ASSUME NEW op \in AllOps \ {"merge", "unfile"}, NEW want,
             NEW stamped \in SUBSET {"resolved", "closed", "deleted"}, Same(want),
             Load(r, op, "write", t, want, stamped)
      PROVE  Loads(r)
  <2>1. Sound(op, row, want) BY <1>2, <1>4, SameStatusSound
  <2>2. QED BY <1>1, <1>2, <1>4, <2>1 DEF Loads
<1> HIDE DEF Same, row
<1>5. CASE Note(r, t) BY <1>3, <1>4, <1>5 DEF Note, AllOps, row
<1>6. CASE Upload(r, who, t) BY <1>3, <1>4, <1>6 DEF Upload, AllOps, row
<1>7. CASE Delete(r, t) BY <1>3, <1>4, <1>7 DEF Delete, AllOps, row
<1>8. CASE Restore(r, t) BY <1>3, <1>4, <1>8 DEF Restore, AllOps, row
<1>9. CASE \E rating \in Ratings : Feedback(r, t, rating) BY <1>3, <1>4, <1>9 DEF Feedback, AllOps, row
<1>10. QED BY <1>5, <1>6, <1>7, <1>8, <1>9

\* What assigning makes of a row.
LEMMA AssignedSound ==
    ASSUME NEW op, NEW row \in Row, NEW who \in Agents \cup {None}
    PROVE  Assigned(row, who) \in Row /\ Sound(op, row, Assigned(row, who))
<1> DEFINE status == IF who # None /\ row.status = "open" THEN "in_progress" ELSE row.status
           want == [row EXCEPT !.assignee = who, !.status = status]
<1>1. want = Assigned(row, who) BY DEF Assigned, Row
<1>2. /\ row.status \in Statuses /\ status \in Statuses
      /\ CanTransition(row.status, status)
      /\ (status \in Terminal \/ row.status \in Terminal => status = row.status)
  BY StaysPut DEF Row, Statuses, CanTransition, Terminal, Working
<1> HIDE DEF status
<1>3. /\ want \in Row /\ want.replies = row.replies /\ want.files = row.files
      /\ want.merged = row.merged /\ want.status = status
      /\ want.closed = row.closed /\ want.resolved = row.resolved
  BY <1>2 DEF Row
<1> HIDE DEF want
<1>4. Sound(op, row, want) BY <1>2, <1>3 DEF Sound, InOrder, Terminal
<1>5. QED BY <1>1, <1>3, <1>4

\* An assignment.
LEMMA AssignLoads ==
    ASSUME TypeOK, NEW r \in Requests, NEW t \in Tickets, NEW to \in Agents \cup {None},
           Assign(r, t, to)
    PROVE  Loads(r)
<1>1. Born(t) /\ Load(r, "assign", "write", t, Assigned(ticket[t], to), {})
  BY DEF Assign, Sees, Found
<1>2. ticket[t] \in Row BY <1>1, SeenRow
<1>3. Assigned(ticket[t], to) \in Row /\ Sound("assign", ticket[t], Assigned(ticket[t], to))
  BY <1>2, AssignedSound
<1>4. QED BY <1>1, <1>2, <1>3 DEF Loads, AllOps

\* A status change: never to "closed" or "reopened".
LEMMA ChangeStatusLoads ==
    ASSUME TypeOK, NEW r \in Requests, NEW t \in Tickets, NEW who, NEW to \in Statuses,
           ChangeStatus(r, who, t, to)
    PROVE  Loads(r)
<1> DEFINE row == ticket[t]
           resolved == IF to = "resolved" THEN now ELSE row.resolved
           flag == row.escalated \/ to = "escalated"
           want == [row EXCEPT !.status = to, !.resolved = resolved, !.escalated = flag]
           stamped == IF to = "resolved" THEN {"resolved"} ELSE {}
<1>1. /\ Born(t) /\ to \notin {"closed", "reopened", row.status}
      /\ CanTransition(row.status, to)
      /\ Load(r, "status", "write", t, Moved(row, to), stamped)
      /\ stamped \in SUBSET {"resolved", "closed", "deleted"}
  BY DEF ChangeStatus, Sees, Found
<1>2. /\ row \in Row /\ now \in Nat /\ now # None /\ row.status \in Statuses
      /\ resolved \in Stamp /\ flag \in BOOLEAN
  BY <1>1, SeenRow DEF Row, Stamp
<1>3. row.status \notin Terminal
  BY <1>1 DEF CanTransition, Terminal
<1>4. Moved(row, to) = want BY DEF Moved
<1> HIDE DEF flag, stamped
<1>5. (to \in Terminal => resolved = now) /\ (resolved = now \/ resolved = row.resolved)
  BY <1>1 DEF Terminal
<1> HIDE DEF resolved
<1>6. /\ want \in Row /\ want.replies = row.replies /\ want.files = row.files
      /\ want.merged = row.merged /\ want.status = to
      /\ want.closed = row.closed /\ want.resolved = resolved
  BY <1>2 DEF Row
<1> HIDE DEF want
<1>7. Sound("status", row, want)
  BY <1>1, <1>2, <1>3, <1>5, <1>6 DEF Sound, InOrder, Terminal
<1>8. QED BY <1>1, <1>2, <1>4, <1>6, <1>7 DEF Loads, AllOps

\* An escalation of an unfinished ticket.
LEMMA EscalateLoads ==
    ASSUME TypeOK, NEW r \in Requests, NEW t \in Tickets, NEW who,
           NEW to \in Agents \cup {None}, Escalate(r, who, t, to)
    PROVE  Loads(r)
<1> DEFINE row == ticket[t]
           agent == IF to = None THEN row.assignee ELSE to
           want == [row EXCEPT !.escalated = TRUE, !.status = "escalated", !.assignee = agent]
<1>1. Born(t) /\ row.status \notin Terminal /\ Load(r, "escalate", "write", t, want, {})
  BY DEF Escalate, Sees, Found
<1>2. row \in Row /\ row.status \in Statuses /\ agent \in Agents \cup {None}
  BY <1>1, SeenRow DEF Row
<1>3. CanTransition(row.status, "escalated")
  BY <1>1, <1>2 DEF CanTransition, Terminal, Working
<1> HIDE DEF agent
<1>4. /\ want \in Row /\ want.replies = row.replies /\ want.files = row.files
      /\ want.merged = row.merged /\ want.status = "escalated"
      /\ want.closed = row.closed /\ want.resolved = row.resolved
  BY <1>2 DEF Row, Statuses
<1> HIDE DEF want
<1>5. Sound("escalate", row, want) BY <1>1, <1>3, <1>4 DEF Sound, InOrder, Terminal
<1>6. QED BY <1>1, <1>2, <1>4, <1>5 DEF Loads, AllOps

\* A close: of an unfinished ticket, it stamps the resolution date too.
LEMMA CloseLoads ==
    ASSUME TypeOK, NEW r \in Requests, NEW t \in Tickets, NEW who, Close(r, who, t)
    PROVE  Loads(r)
<1> DEFINE row == ticket[t]
           resolved == IF row.resolved = None THEN now ELSE row.resolved
           want == [row EXCEPT !.status = "closed", !.closed = now, !.resolved = resolved]
<1>1. /\ Born(t) /\ row.status # "closed"
      /\ Load(r, "close", "write", t, Closed(row), {"closed"})
  BY DEF Close, Sees, Found
<1>2. /\ row \in Row /\ now \in Nat /\ now # None /\ now \in Stamp
      /\ row.status \in Statuses /\ resolved \in Stamp
  BY <1>1, SeenRow DEF Row
<1>3. Closed(row) = want BY DEF Closed
<1>4. CanTransition(row.status, "closed") BY <1>2 DEF CanTransition, Terminal, Statuses
<1>5. resolved # None /\ (resolved = now \/ resolved = row.resolved) BY <1>2
<1> HIDE DEF resolved
<1>6. /\ want \in Row /\ want.replies = row.replies /\ want.files = row.files
      /\ want.merged = row.merged /\ want.status = "closed"
      /\ want.closed = now /\ want.resolved = resolved
  BY <1>2 DEF Row, Statuses
<1> HIDE DEF want
<1>7. Sound("close", row, want) BY <1>1, <1>2, <1>4, <1>5, <1>6 DEF Sound, InOrder
<1>8. QED BY <1>1, <1>2, <1>3, <1>6, <1>7 DEF Loads, AllOps

\* A reopen inside the window.
LEMMA ReopenLoads ==
    ASSUME TypeOK, NEW r \in Requests, NEW t \in Tickets, NEW who, Reopen(r, who, t)
    PROVE  Loads(r)
<1> DEFINE row == ticket[t]
           want == [row EXCEPT !.status = "reopened", !.closed = None, !.resolved = None]
<1>1. /\ Born(t) /\ row.status \in Terminal /\ WithinReopenWindow(row)
      /\ Load(r, "reopen", "write", t, want, {})
  BY DEF Reopen, Sees, Found
<1>2. row \in Row /\ row.status \in Statuses BY <1>1, SeenRow
<1>3. CanTransition(row.status, "reopened") BY <1>1 DEF CanTransition, Terminal
<1>4. /\ want \in Row /\ want.replies = row.replies /\ want.files = row.files
      /\ want.merged = row.merged /\ want.status = "reopened"
      /\ want.closed = None /\ want.resolved = None
  BY <1>2 DEF Row, Statuses, Stamp
<1> HIDE DEF want
<1>5. row.closed # None /\ ReopenDays >= 0 => now <= row.closed + ReopenDays
  BY <1>1 DEF WithinReopenWindow
<1>6. Sound("reopen", row, want) BY <1>1, <1>3, <1>4, <1>5 DEF Sound, InOrder, Terminal
<1>7. QED BY <1>1, <1>2, <1>4, <1>6 DEF Loads, AllOps

\* Every call reserves a number, starts a merge or the removal of a file, or
\* loads a ticket.
LEMMA ArriveKinds ==
    ASSUME TypeOK, NEW r \in Requests, Arrive(r)
    PROVE  \/ \E op \in {"create", "raise"} : Number(r, op)
           \/ Loads(r)
           \/ \E f \in Files : Unfile(r, f)
           \/ \E s, t \in Tickets : Merge(r, s, t)
<1>1. ASSUME NEW t \in Tickets, NEW who \in Actors,
             Reply(r, who, t) \/ Close(r, who, t) \/ Reopen(r, who, t) \/ Upload(r, who, t)
      PROVE  Loads(r)
  BY <1>1, ReplyLoads, CloseLoads, ReopenLoads, QuietLoads
<1>2. ASSUME NEW t \in Tickets,
             \/ Note(r, t) \/ Delete(r, t) \/ Restore(r, t)
             \/ \E rating \in Ratings : Feedback(r, t, rating)
      PROVE  Loads(r)
  BY <1>2, QuietLoads
<1>3. ASSUME NEW t \in Tickets, NEW to \in Agents \cup {None}, Assign(r, t, to)
      PROVE  Loads(r)
  BY <1>3, AssignLoads
<1>4. ASSUME NEW t \in Tickets, NEW who \in Staff, NEW to \in Statuses,
             ChangeStatus(r, who, t, to)
      PROVE  Loads(r)
  BY <1>4, ChangeStatusLoads
<1>5. ASSUME NEW t \in Tickets, NEW who \in Staff, NEW to \in Agents \cup {None},
             Escalate(r, who, t, to)
      PROVE  Loads(r)
  BY <1>5, EscalateLoads
<1>6. QED BY <1>1, <1>2, <1>3, <1>4, <1>5 DEF Arrive

-----------------------------------------------------------------------------
(* No reply goes uncounted.                                                *)

\* Every message is on a ticket that exists, no ticket has more replies than
\* its counter says, and no handler writes the counter back from its copy.
CountsInv ==
    /\ \A i \in DOMAIN message : Born(message[i].on)
    /\ NoReplyUncounted
    /\ \A r \in Requests : At(r, "write") => "replies" \notin req[r].cols

\* What a message is.
LEMMA Messages ==
    ASSUME TypeOK
    PROVE  /\ message \in Seq(Message) /\ Len(message) \in Nat
           /\ DOMAIN message = 1 .. Len(message)
           /\ \A i \in 1 .. Len(message) : message[i] \in Message /\ message[i].on \in Tickets
<1>1. message \in Seq(Message) BY DEF TypeOK
<1>2. \A m \in Message : m.on \in Tickets BY DEF Message
<1> HIDE DEF Message
<1>3. QED BY <1>1, <1>2

\* The replies on a ticket are finitely many.
LEMMA RepliesFinite ==
    ASSUME TypeOK, NEW t \in Tickets
    PROVE  IsFiniteSet(RepliesOn(t)) /\ Cardinality(RepliesOn(t)) \in Nat
<1>1. Len(message) \in Nat /\ DOMAIN message = 1 .. Len(message) BY DEF TypeOK
<1>2. RepliesOn(t) \in SUBSET (1 .. Len(message)) BY <1>1 DEF RepliesOn, OnTicket
<1>3. IsFiniteSet(1 .. Len(message)) BY <1>1, FS_Interval
<1>4. IsFiniteSet(RepliesOn(t)) BY <1>2, <1>3, FS_Subset
<1>5. QED BY <1>4, FS_CardinalityType

\* A step of request r that leaves the tickets and the messages alone.
LEMMA SameCounts ==
    ASSUME DeskInv, CountsInv, NEW r \in Requests, NEW q,
           req' = [req EXCEPT ![r] = q], UNCHANGED <<ticket, message>>,
           q.pc = "write" => "replies" \notin q.cols
    PROVE  CountsInv'
<1>1. \A o \in Requests : req'[o] = q \/ req'[o] = req[o]
  BY DEF DeskInv, TypeOK
<1>2. \A o \in Requests : At(o, "write")' => "replies" \notin req'[o].cols
  BY <1>1 DEF CountsInv, At
<1>3. NoReplyUncounted'
  BY DEF CountsInv, NoReplyUncounted, RepliesOn, OnTicket, Born
<1>4. QED BY <1>2, <1>3 DEF CountsInv, Born

\* A call that loads a ticket will not touch the counter.
LEMMA LoadCounts ==
    ASSUME DeskInv, CountsInv, NEW r \in Requests, Loads(r)
    PROVE  CountsInv'
<1>1. PICK op \in AllOps, t \in Tickets, want \in Row,
           stamped \in SUBSET {"resolved", "closed", "deleted"} :
        Load(r, op, "write", t, want, stamped) /\ want.replies = ticket[t].replies
  BY DEF Loads, Sound
<1> DEFINE cols == Changed(ticket[t], want) \cup stamped
           q == [Idle EXCEPT !.op = op, !.pc = "write", !.tkt = t, !.row = ticket[t],
                             !.want = want, !.cols = cols,
                             !.since = IF op = "reopen" THEN now ELSE 0]
<1>2. "replies" \notin cols BY <1>1 DEF Changed
<1>3. req' = [req EXCEPT ![r] = q] /\ UNCHANGED <<ticket, message>> BY <1>1 DEF Load
<1>4. q.cols = cols BY DEF Idle
<1> HIDE DEF q, cols
<1>5. QED BY <1>2, <1>3, <1>4, SameCounts

\* Nor does any other call.
LEMMA ArriveCounts ==
    ASSUME DeskInv, CountsInv, NEW r \in Requests, Arrive(r)
    PROVE  CountsInv'
<1>1. ASSUME NEW op, Number(r, op) PROVE CountsInv'
  <2>1. PICK n : /\ req' = [req EXCEPT ![r] = [Idle EXCEPT !.op = op, !.pc = "insert", !.no = n]]
                 /\ UNCHANGED <<ticket, message>>
    BY <1>1 DEF Number
  <2> DEFINE q == [Idle EXCEPT !.op = op, !.pc = "insert", !.no = n]
  <2>2. q.pc = "insert" BY DEF Idle
  <2>3. req' = [req EXCEPT ![r] = q] BY <2>1
  <2> HIDE DEF q
  <2>4. QED BY <2>1, <2>2, <2>3, SameCounts
<1>2. ASSUME NEW f \in Files, Unfile(r, f) PROVE CountsInv'
  <2> DEFINE q == [Idle EXCEPT !.op = "unfile", !.pc = "write", !.tkt = file[f], !.file = f,
                               !.row = ticket[file[f]], !.want = ticket[file[f]]]
  <2>1. req' = [req EXCEPT ![r] = q] /\ UNCHANGED <<ticket, message>> BY <1>2 DEF Unfile
  <2>2. q.cols = {} BY DEF Idle
  <2> HIDE DEF q
  <2>3. QED BY <2>1, <2>2, SameCounts
<1>3. ASSUME NEW s \in Tickets, NEW t \in Tickets, Merge(r, s, t) PROVE CountsInv'
  <2> DEFINE q == [Idle EXCEPT !.op = "merge", !.pc = "messages", !.tkt = s, !.into = t,
                               !.row = ticket[s]]
  <2>1. req' = [req EXCEPT ![r] = q] /\ UNCHANGED <<ticket, message>> BY <1>3 DEF Merge
  <2>2. q.pc = "messages" BY DEF Idle
  <2> HIDE DEF q
  <2>3. QED BY <2>1, <2>2, SameCounts
<1>4. QED BY <1>1, <1>2, <1>3, LoadCounts, ArriveKinds DEF DeskInv

\* The steps of a handler that write neither tickets nor messages.
LEMMA MoveCounts ==
    ASSUME DeskInv, CountsInv, NEW r \in Requests,
           \/ Reprioritise(r) \/ AssignRaised(r) \/ AssignNothing(r) \/ Refused(r)
           \/ MergeMessages(r) \/ MergeFiles(r) \/ Crash(r)
    PROVE  CountsInv'
<1>1. PICK q : req' = [req EXCEPT ![r] = q] /\ UNCHANGED <<ticket, message>>
  BY DEF Reprioritise, AssignRaised, AssignNothing, Refused, MergeMessages, MergeFiles,
         Crash, Finish
<1>2. q = req'[r] /\ req[r] \in Request /\ req \in [Requests -> Request]
  BY <1>1 DEF DeskInv, TypeOK
<1>3. q.pc = "write" => "replies" \notin q.cols
  <2>1. CASE Reprioritise(r) BY <1>2, <2>1 DEF Reprioritise, At, Request
  <2>2. CASE AssignRaised(r)
    <3>1. PICK a \in Agents :
            req' = [req EXCEPT ![r].pc = "write", ![r].want = Assigned(req[r].row, a),
                               ![r].cols = Changed(req[r].row, Assigned(req[r].row, a))]
      BY <2>2 DEF AssignRaised
    <3>2. q.cols = Changed(req[r].row, Assigned(req[r].row, a)) BY <1>2, <3>1 DEF Request
    <3>3. req[r].row \in Row BY <2>2, InHand DEF AssignRaised, At
    <3>4. Assigned(req[r].row, a).replies = req[r].row.replies
      BY <3>3, AssignedSound DEF Sound
    <3>5. QED BY <3>2, <3>4 DEF Changed
  <2>3. CASE AssignNothing(r) \/ Refused(r) \/ Crash(r)
    BY <1>2, <2>3 DEF AssignNothing, Refused, Crash, Finish, Idle
  <2>4. CASE MergeMessages(r) BY <1>2, <2>4 DEF MergeMessages, Request
  <2>5. CASE MergeFiles(r)
    <3> DEFINE want == MergedInto(req[r].row, req[r].into)
    <3>1. req' = [req EXCEPT ![r].pc = "write", ![r].taken = FilesOf(req[r].tkt),
                             ![r].want = want, ![r].cols = Changed(req[r].row, want)]
      BY <2>5 DEF MergeFiles
    <3>2. req[r].row \in Row BY <2>5, InHand DEF MergeFiles, At
    <3>3. want.replies = req[r].row.replies BY <3>2 DEF MergedInto, Row
    <3> HIDE DEF want
    <3>4. q.cols = Changed(req[r].row, want) BY <1>2, <3>1 DEF Request
    <3>5. QED BY <3>3, <3>4 DEF Changed
  <2>6. QED BY <2>1, <2>2, <2>3, <2>4, <2>5
<1>4. QED BY <1>1, <1>3, SameCounts

\* What a write that spares the counters makes of them.
LEMMA CountedCounters ==
    ASSUME NEW q, NEW row \in Row, q.want \in Row
    PROVE  /\ "replies" \notin q.cols =>
                Counted(q, row).replies = IF q.op = "reply" THEN row.replies + 1
                                          ELSE row.replies
           /\ "files" \notin q.cols =>
                Counted(q, row).files = CASE q.op = "upload" -> row.files + 1
                                          [] q.op = "unfile" -> row.files - 1
                                          [] OTHER -> row.files
<1> DEFINE kept == Written(q, row)
<1>1. /\ kept \in Row
      /\ "replies" \notin q.cols => kept.replies = row.replies
      /\ "files" \notin q.cols => kept.files = row.files
  BY DEF Written, Row, Columns
<1> HIDE DEF kept
<1>2. Counted(q, row) = CASE q.op = "reply"  -> [kept EXCEPT !.replies = @ + 1]
                          [] q.op = "upload" -> [kept EXCEPT !.files = @ + 1]
                          [] q.op = "unfile" -> [kept EXCEPT !.files = @ - 1]
                          [] OTHER -> kept
  BY DEF Counted, kept
<1>3. QED BY <1>1, <1>2 DEF Row

\* One message, or none.
LEMMA OneOrNone ==
    ASSUME NEW M, NEW m \in M
    PROVE  /\ <<m>> \in Seq(M) /\ Len(<<m>>) = 1 /\ <<m>>[1] = m
           /\ <<>> \in Seq(M) /\ Len(<<>>) = 0
  OBVIOUS

\* The message a reply leaves comes first, and all it leaves is on its ticket.
LEMMA PostsOnTicket ==
    ASSUME NEW q
    PROVE  /\ Posts(q) \in Seq([on : {q.tkt}, reply : BOOLEAN])
           /\ \A i \in 1 .. Len(Posts(q)) : Posts(q)[i].reply => i = 1 /\ q.op = "reply"
<1> DEFINE line == Line(q.tkt)
           reply == [on |-> q.tkt, reply |-> TRUE]
           first == CASE q.op = "reply" -> <<reply>>
                      [] q.op \in {"note", "assign", "raise"} -> <<line>>
                      [] OTHER -> <<>>
           second == IF MovesStatus(q) THEN <<line>> ELSE <<>>
           M == [on : {q.tkt}, reply : BOOLEAN]
<1>1. line \in M /\ line.reply = FALSE /\ reply \in M
  BY DEF Line
<1>2. Posts(q) = first \o second BY DEF Posts
<1> HIDE DEF line, reply, M
<1>3. /\ first \in Seq(M) /\ Len(first) \in {0, 1}
      /\ Len(first) = 1 /\ first[1].reply => q.op = "reply"
  <2>1. CASE q.op = "reply" BY <1>1, <2>1, OneOrNone
  <2>2. CASE q.op \in {"note", "assign", "raise"} BY <1>1, <2>2, OneOrNone
  <2>3. CASE q.op \notin {"reply", "note", "assign", "raise"} BY <1>1, <2>3, OneOrNone
  <2>4. QED BY <2>1, <2>2, <2>3
<1>4. /\ second \in Seq(M) /\ Len(second) \in {0, 1}
      /\ Len(second) = 1 => second[1].reply = FALSE
  <2>1. CASE MovesStatus(q)
    <3>1. second = <<line>> BY <2>1
    <3>2. QED BY <1>1, <3>1, OneOrNone
  <2>2. CASE ~MovesStatus(q)
    <3>1. second = <<>> BY <2>2
    <3>2. QED BY <1>1, <3>1, OneOrNone
  <2>3. QED BY <2>1, <2>2
<1> HIDE DEF first, second
<1>5. /\ first \o second \in Seq(M) /\ Len(first \o second) = Len(first) + Len(second)
      /\ \A i \in 1 .. Len(first) + Len(second) :
           (first \o second)[i] = IF i <= Len(first) THEN first[i] ELSE second[i - Len(first)]
  BY <1>3, <1>4, ConcatProperties
<1>6. ASSUME NEW i \in 1 .. Len(first) + Len(second), (first \o second)[i].reply
      PROVE  i = 1 /\ q.op = "reply"
  <2>1. CASE i <= Len(first)
    <3>1. Len(first) = 1 /\ i = 1 BY <1>3, <1>4, <1>6, <2>1
    <3>2. (first \o second)[i] = first[1] BY <1>5, <1>6, <3>1
    <3>3. QED BY <1>3, <1>6, <3>1, <3>2
  <2>2. CASE i > Len(first)
    <3>1. Len(second) = 1 /\ i - Len(first) = 1 BY <1>3, <1>4, <1>6, <2>2
    <3>2. (first \o second)[i] = second[1] BY <1>3, <1>5, <1>6, <2>2, <3>1
    <3>3. QED BY <1>4, <1>6, <3>1, <3>2
  <2>3. QED BY <1>3, <2>1, <2>2
<1>7. QED BY <1>2, <1>5, <1>6 DEF M

\* One element more.
LEMMA OneMore ==
    ASSUME NEW S, IsFiniteSet(S), NEW x
    PROVE  /\ IsFiniteSet(S \cup {x}) /\ Cardinality(S \cup {x}) \in Nat
           /\ Cardinality(S \cup {x}) <= Cardinality(S) + 1
<1>1. Cardinality(S) \in Nat BY FS_CardinalityType
<1>2. /\ IsFiniteSet(S \cup {x})
      /\ Cardinality(S \cup {x}) = IF x \in S THEN Cardinality(S) ELSE Cardinality(S) + 1
  BY FS_AddElement
<1>3. QED BY <1>1, <1>2

\* An element of a sequence.
LEMMA SeqElement == ASSUME NEW M, NEW s \in Seq(M), NEW i \in 1 .. Len(s) PROVE s[i] \in M
  OBVIOUS

\* A sequence over a set is one over a larger set.
LEMMA WiderSeq ==
    ASSUME NEW A, NEW B, A \subseteq B, NEW s \in Seq(A)
    PROVE  s \in Seq(B)
<1>1. Len(s) \in Nat /\ \A i \in 1 .. Len(s) : s[i] \in B OBVIOUS
<1>2. s = [i \in 1 .. Len(s) |-> s[i]] OBVIOUS
<1>3. [i \in 1 .. Len(s) |-> s[i]] \in Seq(B) BY <1>1
<1>4. QED BY <1>2, <1>3

\* What writing by id makes of a row whose handler writes no counter back.
LEMMA TicketCounted ==
    ASSUME DeskInv, CountsInv, NEW r \in Requests, At(r, "write"), req[r].op # "merge",
           ticket' = [ticket EXCEPT ![req[r].tkt] = Counted(req[r], @)], Finish(r)
    PROVE  /\ req[r].tkt \in Tickets /\ Born(req[r].tkt)
           /\ \A x \in Tickets :
                /\ Born(x)' <=> Born(x)
                /\ Born(x) => ticket'[x].replies =
                     IF x = req[r].tkt /\ req[r].op = "reply" THEN ticket[x].replies + 1
                                                              ELSE ticket[x].replies
           /\ \A o \in Requests : At(o, "write")' => req'[o] = req[o]
<1> DEFINE q == req[r]
           t == q.tkt
           new == Counted(q, ticket[t])
<1>1. TypeOK /\ q \in Request /\ WriteOK(q) /\ t \in Tickets /\ Born(t) /\ ticket[t] \in Row
  BY NewRow DEF DeskInv
<1>2. /\ new \in Row
      /\ new.replies = IF q.op = "reply" THEN ticket[t].replies + 1 ELSE ticket[t].replies
  <2>1. new \in Row BY NewRow
  <2>2. "replies" \notin q.cols /\ q.want \in Row BY <1>1 DEF CountsInv, WriteOK
  <2>3. QED BY <1>1, <2>1, <2>2, CountedCounters
<1> HIDE DEF new
<1>3. ticket' = [ticket EXCEPT ![t] = new] BY DEF new
<1>4. ticket'[t] = new /\ \A x \in Tickets \ {t} : ticket'[x] = ticket[x]
  BY <1>1, <1>3 DEF TypeOK
<1>5. new # Absent BY <1>2, ValuesAssumption
<1>6. \A o \in Requests : At(o, "write")' => req'[o] = req[o]
  BY <1>1 DEF TypeOK, Finish, At, Idle
<1>7. QED BY <1>1, <1>2, <1>4, <1>5, <1>6 DEF Born

\* A new ticket has no messages.
LEMMA InsertCounts ==
    ASSUME DeskInv, CountsInv, NEW r \in Requests, Insert(r)
    PROVE  CountsInv'
<1>1. PICK t \in Tickets :
        /\ ~Born(t)
        /\ ticket' = [ticket EXCEPT ![t] = Raised(req[r].no)]
        /\ req' = [req EXCEPT ![r] = IF @.op = "create" THEN Idle ELSE
                     [@ EXCEPT !.pc = "assign", !.tkt = t, !.row = Raised(req[r].no)]]
  BY DEF Insert
<1>2. message' = message BY DEF Insert
<1>3. /\ TypeOK /\ req[r] \in Request /\ InFlight(r) /\ At(r, "insert")
      /\ \A i \in DOMAIN message : message[i].on \in Tickets
  <2>1. TypeOK /\ InFlight(r) /\ At(r, "insert") BY DEF DeskInv, Insert
  <2>2. req[r] \in Request BY <2>1 DEF TypeOK
  <2>3. QED BY <2>1, <2>2, Messages
<1>4. Raised(req[r].no) \in Row /\ Raised(req[r].no).replies = 0
  BY <1>3, ValuesAssumption DEF InFlight, Raised, Row, Statuses, Stamp, Request, At
<1>5. /\ ticket'[t].replies = 0 /\ Born(t)'
      /\ \A x \in Tickets \ {t} : ticket'[x] = ticket[x]
  BY <1>1, <1>3, <1>4, ValuesAssumption DEF TypeOK, Born
<1>6. \A o \in Requests : At(o, "write")' => "replies" \notin req'[o].cols
  <2>1. req'[r].pc # "write" BY <1>1, <1>3 DEF TypeOK, Idle, Request
  <2>2. \A o \in Requests \ {r} : req'[o] = req[o] BY <1>1, <1>3 DEF TypeOK
  <2>3. QED BY <2>1, <2>2 DEF CountsInv, At
<1>7. \A i \in DOMAIN message' : Born(message[i].on)'
  BY <1>2, <1>3, <1>5 DEF CountsInv, Born
<1>8. ASSUME NEW x \in Tickets PROVE RepliesOn(x)' = RepliesOn(x)
  BY <1>2 DEF RepliesOn, OnTicket
<1>9. RepliesOn(t) = {} BY <1>1 DEF CountsInv, RepliesOn, OnTicket
<1>10. NoReplyUncounted'
  <2>1. SUFFICES ASSUME NEW x \in Tickets, Born(x)'
                 PROVE  ticket'[x].replies >= Cardinality(RepliesOn(x)')
    BY DEF NoReplyUncounted
  <2>2. CASE x = t
    <3>1. Cardinality(RepliesOn(x)') = 0 BY <1>8, <1>9, <2>2, FS_EmptySet
    <3>2. QED BY <1>5, <2>2, <3>1
  <2>3. CASE x # t BY <1>5, <1>8, <2>1, <2>3 DEF CountsInv, NoReplyUncounted, Born
  <2>4. QED BY <2>2, <2>3
<1>11. QED BY <1>6, <1>7, <1>10 DEF CountsInv

\* A write of a ticket that posts no reply.
LEMMA SilentWriteCounts ==
    ASSUME DeskInv, CountsInv, NEW r \in Requests, WriteFeedback(r) \/ WriteFile(r)
    PROVE  CountsInv'
<1>1. /\ At(r, "write") /\ req[r].op # "merge" /\ req[r].op # "reply"
      /\ ticket' = [ticket EXCEPT ![req[r].tkt] = Counted(req[r], @)] /\ Finish(r)
      /\ message' = message
  BY DEF WriteFeedback, WriteFile
<1>2. /\ \A x \in Tickets : /\ Born(x)' <=> Born(x)
                            /\ Born(x) => ticket'[x].replies = ticket[x].replies
      /\ \A o \in Requests : At(o, "write")' => req'[o] = req[o]
  <2>1. /\ \A x \in Tickets :
             /\ Born(x)' <=> Born(x)
             /\ Born(x) => ticket'[x].replies =
                  IF x = req[r].tkt /\ req[r].op = "reply" THEN ticket[x].replies + 1
                                                           ELSE ticket[x].replies
        /\ \A o \in Requests : At(o, "write")' => req'[o] = req[o]
    BY <1>1, TicketCounted
  <2>2. QED BY <1>1, <2>1
<1>3. \A i \in DOMAIN message : message[i].on \in Tickets BY Messages DEF DeskInv
<1>4. \A i \in DOMAIN message' : Born(message[i].on)'
  BY <1>1, <1>2, <1>3 DEF CountsInv
<1>5. NoReplyUncounted'
  BY <1>1, <1>2 DEF CountsInv, NoReplyUncounted, RepliesOn, OnTicket
<1>6. QED BY <1>2, <1>4, <1>5 DEF CountsInv, At

\* A reply adds its message and counts it in one transaction.
LEMMA WriteCounts ==
    ASSUME DeskInv, CountsInv, NEW r \in Requests, Write(r)
    PROVE  CountsInv'
<1> DEFINE q == req[r]
           t == q.tkt
           posts == Posts(q)
           n == Len(message)
<1>1. /\ At(r, "write") /\ q.op # "merge"
      /\ ticket' = [ticket EXCEPT ![t] = Counted(q, @)] /\ Finish(r)
      /\ message' = message \o posts
  BY DEF Write
<1>2. /\ t \in Tickets /\ Born(t)
      /\ \A x \in Tickets :
           /\ Born(x)' <=> Born(x)
           /\ Born(x) => ticket'[x].replies =
                IF x = t /\ q.op = "reply" THEN ticket[x].replies + 1 ELSE ticket[x].replies
      /\ \A o \in Requests : At(o, "write")' => req'[o] = req[o]
  BY <1>1, TicketCounted
<1>3. /\ posts \in Seq([on : {t}, reply : BOOLEAN])
      /\ \A i \in 1 .. Len(posts) : posts[i].reply => i = 1 /\ q.op = "reply"
  BY PostsOnTicket
<1>4. /\ TypeOK /\ message \in Seq(Message) /\ n \in Nat /\ DOMAIN message = 1 .. n
      /\ \A i \in 1 .. n : message[i].on \in Tickets
  BY Messages DEF DeskInv
<1>5. posts \in Seq(Message)
  <2>1. [on : {t}, reply : BOOLEAN] \subseteq Message BY <1>2 DEF Message
  <2> HIDE DEF posts
  <2>2. QED BY <1>3, <2>1, WiderSeq
<1> HIDE DEF q, t, posts
<1>6. /\ message' \in Seq(Message) /\ Len(message') = n + Len(posts) /\ Len(posts) \in Nat
      /\ \A i \in 1 .. n + Len(posts) :
           message'[i] = IF i <= n THEN message[i] ELSE posts[i - n]
  BY <1>1, <1>4, <1>5, ConcatProperties
<1>7. DOMAIN message' = 1 .. n + Len(posts) BY <1>6
<1>8. ASSUME NEW i \in 1 .. n + Len(posts), i > n
      PROVE  /\ message'[i].on = t
             /\ message'[i].reply => i = n + 1 /\ q.op = "reply"
  <2>1. i - n \in 1 .. Len(posts) /\ message'[i] = posts[i - n]
    <3>1. n \in Nat /\ Len(posts) \in Nat BY <1>4, <1>6
    <3>2. i - n \in 1 .. Len(posts) /\ ~(i <= n) BY <1>8, <3>1
    <3>3. message'[i] = IF i <= n THEN message[i] ELSE posts[i - n] BY <1>6, <1>8
    <3>4. QED BY <3>2, <3>3
  <2>2. posts[i - n] \in [on : {t}, reply : BOOLEAN] BY <1>3, <2>1, SeqElement
  <2>3. posts[i - n].reply => i - n = 1 /\ q.op = "reply" BY <1>3, <2>1
  <2>4. QED BY <1>4, <2>1, <2>2, <2>3
<1>9. \A i \in DOMAIN message' : Born(message[i].on)'
  <2>1. SUFFICES ASSUME NEW i \in 1 .. n + Len(posts) PROVE Born(message[i].on)'
    BY <1>7
  <2>2. CASE i <= n
    <3>1. i \in DOMAIN message /\ message'[i] = message[i] BY <1>4, <1>6, <2>2
    <3>2. message[i].on \in Tickets BY <1>4, <3>1 DEF Message
    <3>3. QED BY <1>2, <3>1, <3>2 DEF CountsInv
  <2>3. CASE i > n BY <1>2, <1>8, <2>3
  <2>4. QED BY <1>4, <2>2, <2>3
<1>10. ASSUME NEW x \in Tickets
       PROVE  RepliesOn(x)' \subseteq
                RepliesOn(x) \cup (IF x = t /\ q.op = "reply" THEN {n + 1} ELSE {})
  <2>1. SUFFICES ASSUME NEW i \in RepliesOn(x)'
                 PROVE  i \in RepliesOn(x) \/ (x = t /\ q.op = "reply" /\ i = n + 1)
    OBVIOUS
  <2>2. i \in 1 .. n + Len(posts) /\ message'[i].on = x /\ message'[i].reply
    BY <1>7, <2>1 DEF RepliesOn, OnTicket
  <2>3. CASE i <= n
    <3>1. i \in DOMAIN message /\ message'[i] = message[i] BY <1>4, <1>6, <2>2, <2>3
    <3>2. QED BY <2>2, <3>1 DEF RepliesOn, OnTicket
  <2>4. CASE i > n BY <1>8, <2>2, <2>4
  <2>5. QED BY <1>4, <2>2, <2>3, <2>4
<1>11. NoReplyUncounted'
  <2>1. SUFFICES ASSUME NEW x \in Tickets, Born(x)'
                 PROVE  ticket'[x].replies >= Cardinality(RepliesOn(x)')
    BY DEF NoReplyUncounted
  <2>2. IsFiniteSet(RepliesOn(x)) /\ Cardinality(RepliesOn(x)) \in Nat BY <1>4, RepliesFinite
  <2>3. Born(x) /\ ticket[x].replies \in Nat /\ ticket[x].replies >= Cardinality(RepliesOn(x))
    BY <1>2, <1>4, <2>1 DEF CountsInv, NoReplyUncounted, TypeOK, Born, Row
  <2>4. CASE x = t /\ q.op = "reply"
    <3>1. RepliesOn(x)' \subseteq RepliesOn(x) \cup {n + 1} BY <1>10, <2>4
    <3>2. /\ IsFiniteSet(RepliesOn(x) \cup {n + 1})
          /\ Cardinality(RepliesOn(x) \cup {n + 1}) <= Cardinality(RepliesOn(x)) + 1
          /\ Cardinality(RepliesOn(x) \cup {n + 1}) \in Nat
      BY <2>2, OneMore
    <3>3. /\ Cardinality(RepliesOn(x)') <= Cardinality(RepliesOn(x) \cup {n + 1})
          /\ Cardinality(RepliesOn(x)') \in Nat
      BY <3>1, <3>2, FS_Subset, FS_CardinalityType
    <3>4. QED BY <1>2, <2>2, <2>3, <2>4, <3>2, <3>3
  <2>5. CASE ~(x = t /\ q.op = "reply")
    <3>1. RepliesOn(x)' \subseteq RepliesOn(x) BY <1>10, <2>5
    <3>2. /\ Cardinality(RepliesOn(x)') <= Cardinality(RepliesOn(x))
          /\ Cardinality(RepliesOn(x)') \in Nat
      BY <2>2, <3>1, FS_Subset, FS_CardinalityType
    <3>3. QED BY <1>2, <2>2, <2>3, <2>5, <3>2
  <2>6. QED BY <2>4, <2>5
<1>12. \A o \in Requests : At(o, "write")' => "replies" \notin req'[o].cols
  BY <1>2 DEF CountsInv, At
<1>13. QED BY <1>9, <1>11, <1>12 DEF CountsInv

\* The rows a merge leaves.
LEMMA MergeRows ==
    ASSUME DeskInv, NEW r \in Requests, WriteMerge(r)
    PROVE  LET q == req[r]
               source == Written(q, ticket[q.tkt])
               base(x) == IF x = q.tkt THEN source ELSE ticket[x]
           IN  /\ q \in Request /\ q.tkt \in Tickets /\ Born(q.tkt) /\ WriteOK(q)
               /\ q.into \in Tickets /\ Born(q.into) /\ source \in Row
               /\ Cardinality(q.moved) \in Nat /\ Cardinality(q.taken) \in Nat
               /\ IsFiniteSet(q.moved) /\ q.taken \in SUBSET Files
               /\ \A x \in Tickets : Born(x)' <=> Born(x)
               /\ \A x \in Tickets : Born(x) =>
                    /\ base(x) \in Row
                    /\ ticket'[x] =
                         IF x = q.into
                           THEN [base(x) EXCEPT !.replies = @ + Cardinality(q.moved),
                                                !.files = @ + Cardinality(q.taken)]
                           ELSE base(x)
               /\ \A o \in Requests : At(o, "write")' => req'[o] = req[o]
<1> DEFINE q == req[r]
           source == Written(q, ticket[q.tkt])
           base(x) == IF x = q.tkt THEN source ELSE ticket[x]
<1>1. /\ At(r, "write") /\ q.op = "merge" /\ TypeOK /\ InFlight(r) /\ Finish(r)
      /\ ticket' = [t \in Tickets |->
            LET row == IF t = q.tkt THEN source ELSE ticket[t] IN
            IF t # q.into THEN row
            ELSE [row EXCEPT !.replies = @ + Cardinality(q.moved),
                             !.files = @ + Cardinality(q.taken)]]
  BY DEF WriteMerge, DeskInv
<1>2. /\ q \in Request /\ WriteOK(q) /\ q.tkt \in Tickets /\ Born(q.tkt)
      /\ q.into \in Tickets /\ Born(q.into) /\ IsFiniteSet(q.moved)
      /\ Counted(q, ticket[q.tkt]) \in Row
  BY <1>1, NewRow DEF InFlight
<1>3. source \in Row
  <2>1. Counted(q, ticket[q.tkt]) = source BY <1>1 DEF Counted
  <2>2. QED BY <1>2, <2>1
<1>4. q.taken \in SUBSET Files BY <1>2 DEF Request
<1>5. Cardinality(q.moved) \in Nat /\ Cardinality(q.taken) \in Nat
  BY <1>2, <1>4, FilesAssumption, FS_Subset, FS_CardinalityType
<1>6. \A x \in Tickets : Born(x)' <=> Born(x) BY MergeWritten
<1>7. \A x \in Tickets : Born(x) => base(x) \in Row BY <1>1, <1>3, FoundRow
<1>8. \A o \in Requests : At(o, "write")' => req'[o] = req[o]
  BY <1>1 DEF TypeOK, Finish, At, Idle
<1> HIDE DEF q, source
<1>9. \A x \in Tickets : ticket'[x] =
        IF x = q.into THEN [base(x) EXCEPT !.replies = @ + Cardinality(q.moved),
                                           !.files = @ + Cardinality(q.taken)]
        ELSE base(x)
  BY <1>1
<1> HIDE DEF base
<1>10. QED
  BY <1>2, <1>3, <1>4, <1>5, <1>6, <1>7, <1>8, <1>9 DEF q, source, base

\* Two finite sets together are no larger than the sum of their sizes.
LEMMA TogetherFinite ==
    ASSUME NEW S, IsFiniteSet(S), NEW T, IsFiniteSet(T), NEW U, U \subseteq S \cup T
    PROVE  IsFiniteSet(U) /\ Cardinality(U) \in Nat /\ Cardinality(U) <= Cardinality(S) + Cardinality(T)
<1>1. Cardinality(S) \in Nat /\ Cardinality(T) \in Nat BY FS_CardinalityType
<1>2. IsFiniteSet(S \cap T) /\ Cardinality(S \cap T) \in Nat
  BY FS_Intersection, FS_CardinalityType
<1>3. /\ IsFiniteSet(S \cup T)
      /\ Cardinality(S \cup T) = Cardinality(S) + Cardinality(T) - Cardinality(S \cap T)
  BY FS_Union
<1>4. IsFiniteSet(U) /\ Cardinality(U) <= Cardinality(S \cup T) BY <1>3, FS_Subset
<1>5. Cardinality(U) \in Nat /\ Cardinality(S \cup T) \in Nat BY <1>3, <1>4, FS_CardinalityType
<1>6. QED BY <1>1, <1>2, <1>3, <1>4, <1>5

\* A merge brings along the replies it moves, and counts at least those.
LEMMA WriteMergeCounts ==
    ASSUME DeskInv, CountsInv, NEW r \in Requests, WriteMerge(r)
    PROVE  CountsInv'
<1> DEFINE q == req[r]
           s == q.tkt
           t == q.into
           source == Written(q, ticket[s])
           base(x) == IF x = s THEN source ELSE ticket[x]
           n == Cardinality(q.moved)
           m == Cardinality(q.taken)
<1>1. /\ t \in Tickets /\ Born(t) /\ WriteOK(q) /\ n \in Nat /\ m \in Nat
      /\ IsFiniteSet(q.moved) /\ s \in Tickets /\ source \in Row
      /\ \A x \in Tickets : Born(x)' <=> Born(x)
      /\ \A x \in Tickets : Born(x) =>
           /\ base(x) \in Row
           /\ ticket'[x] = IF x = t THEN [base(x) EXCEPT !.replies = @ + n, !.files = @ + m]
                           ELSE base(x)
      /\ \A o \in Requests : At(o, "write")' => req'[o] = req[o]
  BY MergeRows
<1>2. /\ message' = [i \in DOMAIN message |->
            IF i \in q.moved THEN [message[i] EXCEPT !.on = t] ELSE message[i]]
      /\ At(r, "write")
  BY DEF WriteMerge
<1>3. /\ DOMAIN message = 1 .. Len(message)
      /\ \A i \in DOMAIN message : message[i] \in Message /\ message[i].on \in Tickets
  BY Messages DEF DeskInv
<1>4. source.replies = ticket[s].replies
  <2>1. "replies" \notin q.cols BY <1>2 DEF CountsInv
  <2>2. QED BY <2>1 DEF Written, Columns
<1> HIDE DEF source, n, m, t
<1>5. \A x \in Tickets : Born(x) => base(x).replies = ticket[x].replies BY <1>4
<1> HIDE DEF base
<1>6. ASSUME NEW x \in Tickets, Born(x)
      PROVE  ticket'[x].replies = IF x = t THEN ticket[x].replies + n ELSE ticket[x].replies
  <2>1. base(x) \in Row /\ base(x).replies = ticket[x].replies BY <1>1, <1>5, <1>6
  <2>2. CASE x = t
    <3>1. ticket'[x] = [base(x) EXCEPT !.replies = @ + n, !.files = @ + m] BY <1>1, <1>6, <2>2
    <3>2. QED BY <2>1, <2>2, <3>1 DEF Row
  <2>3. CASE x # t BY <1>1, <1>6, <2>1, <2>3
  <2>4. QED BY <2>2, <2>3
<1>7. /\ DOMAIN message' = DOMAIN message
      /\ \A i \in DOMAIN message :
           /\ message'[i].on = IF i \in q.moved THEN t ELSE message[i].on
           /\ message'[i].reply = message[i].reply
  BY <1>2, <1>3 DEF Message
<1> HIDE DEF q, s
<1>8. \A i \in DOMAIN message' : Born(message[i].on)'
  <2>1. \A i \in DOMAIN message : message'[i].on \in Tickets /\ Born(message'[i].on)
    BY <1>1, <1>3, <1>7 DEF CountsInv
  <2>2. QED BY <1>1, <1>7, <2>1 DEF Born
<1>9. \A x \in Tickets :
        RepliesOn(x)' \subseteq RepliesOn(x) \cup (IF x = t THEN q.moved ELSE {})
  BY <1>7 DEF RepliesOn, OnTicket
<1>10. NoReplyUncounted'
  <2>1. SUFFICES ASSUME NEW x \in Tickets, Born(x)'
                 PROVE  ticket'[x].replies >= Cardinality(RepliesOn(x)')
    BY DEF NoReplyUncounted
  <2>2. IsFiniteSet(RepliesOn(x)) /\ Cardinality(RepliesOn(x)) \in Nat
    BY RepliesFinite DEF DeskInv
  <2>3. /\ Born(x) /\ ticket[x] \in Row /\ ticket[x].replies \in Nat
        /\ ticket[x].replies >= Cardinality(RepliesOn(x))
    BY <1>1, <2>1, FoundRow DEF CountsInv, NoReplyUncounted, DeskInv, Row
  <2>4. CASE x = t
    <3>1. RepliesOn(x)' \subseteq RepliesOn(x) \cup q.moved BY <1>9, <2>4
    <3>2. /\ Cardinality(RepliesOn(x)') \in Nat
          /\ Cardinality(RepliesOn(x)') <= Cardinality(RepliesOn(x)) + n
      BY <1>1, <2>2, <3>1, TogetherFinite DEF n
    <3>3. ticket'[x].replies = ticket[x].replies + n BY <1>6, <2>3, <2>4
    <3>4. n \in Nat BY <1>1
    <3>5. QED BY <2>2, <2>3, <3>2, <3>3, <3>4
  <2>5. CASE x # t
    <3>1. RepliesOn(x)' \subseteq RepliesOn(x) BY <1>9, <2>5
    <3>2. /\ Cardinality(RepliesOn(x)') <= Cardinality(RepliesOn(x))
          /\ Cardinality(RepliesOn(x)') \in Nat
      BY <2>2, <3>1, FS_Subset, FS_CardinalityType
    <3>3. ticket'[x].replies = ticket[x].replies BY <1>6, <2>3, <2>5
    <3>4. QED BY <2>2, <2>3, <3>2, <3>3
  <2>6. QED BY <2>4, <2>5
<1>11. \A o \in Requests : At(o, "write")' => "replies" \notin req'[o].cols
  BY <1>1 DEF CountsInv, At
<1>12. QED BY <1>8, <1>10, <1>11 DEF CountsInv

\* Every step keeps the counts.
LEMMA NextCounts == ASSUME DeskInv, CountsInv, [Next]_vars PROVE CountsInv'
<1>1. ASSUME UNCHANGED <<ticket, message, req>> PROVE CountsInv'
  <2>1. NoReplyUncounted' BY <1>1 DEF CountsInv, NoReplyUncounted, RepliesOn, OnTicket, Born
  <2>2. QED BY <1>1, <2>1 DEF CountsInv, Born, At
<1>2. CASE UNCHANGED vars BY <1>1, <1>2 DEF vars
<1>3. CASE Tick BY <1>1, <1>3 DEF Tick
<1>4. ASSUME NEW r \in Requests, Call(r) PROVE CountsInv'
  BY <1>4, ArriveCounts DEF Call
<1>5. ASSUME NEW r \in Requests, Handle(r) \/ Crash(r) PROVE CountsInv'
  BY <1>5, InsertCounts, MoveCounts, WriteCounts, SilentWriteCounts, WriteMergeCounts DEF Handle
<1>6. QED BY <1>2, <1>3, <1>4, <1>5 DEF Next

\* No reply goes uncounted, however many replies, assignments and merges write
\* the same ticket at once: the counter is only ever added to.
THEOREM RepliesCounted == Spec => []NoReplyUncounted
<1>1. Init => CountsInv
  <2> SUFFICES ASSUME Init PROVE CountsInv OBVIOUS
  <2>1. /\ \A t \in Tickets : ~Born(t)
        /\ DOMAIN message = {} /\ \A r \in Requests : req[r].pc = "idle"
    BY DEF Init, Born, Idle
  <2>2. QED BY <2>1 DEF CountsInv, NoReplyUncounted, At
<1>2. DeskInv /\ CountsInv /\ [Next]_vars => CountsInv' BY NextCounts
<1>3. CountsInv => NoReplyUncounted BY DEF CountsInv
<1>4. QED BY <1>1, <1>2, <1>3, DeskInvariant, PTL DEF Spec

-----------------------------------------------------------------------------
(* One request at a time.                                                  *)

\* No two handlers are in flight together: there is room for one.
OneHandler == \A q, r \in Requests : q = r

\* What the one handler loaded still stands, it will write all it changed and
\* no counter, and what it makes of the ticket is in order.
HandsOK(q) ==
    /\ q.pc \notin {"idle", "insert"} => q.row = ticket[q.tkt]
    /\ q.op = "merge" => q.into # q.tkt /\ ticket[q.into].merged = None
    /\ q.pc = "write" =>
        /\ Changed(q.row, q.want) \subseteq q.cols
        /\ {"replies", "files"} \cap q.cols = {}
        /\ CanTransition(q.row.status, q.want.status)
        /\ InOrder(q.want)
        /\ q.row.status = "closed" /\ q.want.status # "closed" =>
              q.op = "reopen" /\ (ReopenDays >= 0 => q.since <= q.row.closed + ReopenDays)
        /\ q.want.merged = IF q.op = "merge" THEN q.into ELSE q.row.merged
        /\ q.op = "unfile" => file[q.file] = q.tkt
        /\ q.op = "merge" => q.taken = FilesOf(q.tkt)

\* Every ticket that exists has its dates in order, and only such tickets have
\* attachments, as many as the counter says.
DatesInv == \A t \in Tickets : Born(t) => InOrder(ticket[t])
FilesInv == FilesCounted /\ \A f \in Files : file[f] \in Tickets => Born(file[f])

\* A ranking of `S` from 1 to `N` without ties.
Ranking(rank, S, N) ==
    /\ rank \in [S -> 1 .. N]
    /\ \A x, y \in S : rank[x] = rank[y] => x = y

\* One of all tickets, which every merge climbs.
Climbs(rank) ==
    /\ Ranking(rank, Tickets, Cardinality(Tickets))
    /\ \A t \in Tickets : Born(t) /\ ticket[t].merged # None =>
          rank[t] < rank[ticket[t].merged]
RankInv == \E rank \in [Tickets -> 1 .. Cardinality(Tickets)] : Climbs(rank)

HandsInv == \A r \in Requests : HandsOK(req[r])
AloneInv == HandsInv /\ DatesInv /\ FilesInv /\ RankInv

\* A handler that is over holds nothing.
LEMMA IdleHands == HandsOK(Idle)
  BY DEF HandsOK, Idle

\* A step of the one handler that writes no ticket.
LEMMA KeepHands ==
    ASSUME DeskInv, AloneInv, OneHandler, NEW r \in Requests, NEW q,
           req' = [req EXCEPT ![r] = q], UNCHANGED <<now, ticket, file>>, HandsOK(q)
    PROVE  AloneInv'
<1>1. req'[r] = q BY DEF DeskInv, TypeOK
<1>2. HandsOK(req[r])' BY <1>1 DEF HandsOK, FilesOf, InOrder
<1>3. HandsInv' BY <1>2 DEF HandsInv, OneHandler
<1>4. DatesInv' BY DEF AloneInv, DatesInv, InOrder, Born
<1>5. FilesInv' BY DEF AloneInv, FilesInv, FilesCounted, FilesOf, Born
<1>6. RankInv' BY DEF AloneInv, RankInv, Climbs, Born
<1>7. QED BY <1>3, <1>4, <1>5, <1>6 DEF AloneInv

\* A call that loads a ticket and will make something sound of it.
LEMMA LoadHands ==
    ASSUME DeskInv, AloneInv, OneHandler, NEW r \in Requests, Loads(r)
    PROVE  AloneInv'
<1>1. PICK op \in AllOps \ {"merge", "unfile"}, t \in Tickets, want \in Row,
           stamped \in SUBSET {"resolved", "closed", "deleted"} :
        /\ Born(t) /\ ticket[t] \in Row
        /\ Load(r, op, "write", t, want, stamped)
        /\ Sound(op, ticket[t], want)
  BY DEF Loads
<1> DEFINE row == ticket[t]
           cols == Changed(row, want) \cup stamped
           since == IF op = "reopen" THEN now ELSE 0
           q == [Idle EXCEPT !.op = op, !.pc = "write", !.tkt = t, !.row = row,
                             !.want = want, !.cols = cols, !.since = since]
<1>2. req' = [req EXCEPT ![r] = q] /\ UNCHANGED <<now, ticket, file>> BY <1>1 DEF Load
<1>3. InOrder(row) BY <1>1 DEF AloneInv, DatesInv
<1>4. /\ CanTransition(row.status, want.status) /\ InOrder(want)
      /\ want.merged = row.merged /\ want.replies = row.replies /\ want.files = row.files
      /\ row.status = "closed" /\ want.status # "closed" =>
            op = "reopen" /\ (ReopenDays >= 0 => now <= row.closed + ReopenDays)
  BY <1>1, <1>3 DEF Sound
<1>5. Changed(row, want) \subseteq cols /\ {"replies", "files"} \cap cols = {}
  BY <1>1, <1>4 DEF Changed
<1>6. /\ q.op = op /\ q.pc = "write" /\ q.tkt = t /\ q.row = row /\ q.want = want
      /\ q.cols = cols /\ q.since = since
  BY DEF Idle
<1> HIDE DEF q, cols
<1>7. HandsOK(q) BY <1>1, <1>4, <1>5, <1>6 DEF HandsOK
<1>8. QED BY <1>2, <1>7, KeepHands

\* Any other call.
LEMMA ArriveHands ==
    ASSUME DeskInv, AloneInv, OneHandler, NEW r \in Requests, Arrive(r)
    PROVE  AloneInv'
<1>1. ASSUME NEW op \in {"create", "raise"}, Number(r, op) PROVE AloneInv'
  <2>1. PICK n : /\ req' = [req EXCEPT ![r] = [Idle EXCEPT !.op = op, !.pc = "insert", !.no = n]]
                 /\ UNCHANGED <<now, ticket, file>>
    BY <1>1 DEF Number
  <2> DEFINE q == [Idle EXCEPT !.op = op, !.pc = "insert", !.no = n]
  <2>2. HandsOK(q) BY DEF Idle, HandsOK
  <2> HIDE DEF q
  <2>3. req' = [req EXCEPT ![r] = q] BY <2>1 DEF q
  <2>4. QED BY <2>1, <2>2, <2>3, KeepHands
<1>2. ASSUME NEW f \in Files, Unfile(r, f) PROVE AloneInv'
  <2> DEFINE t == file[f]
             row == ticket[t]
             q == [Idle EXCEPT !.op = "unfile", !.pc = "write", !.tkt = t, !.file = f,
                               !.row = row, !.want = row]
  <2>1. /\ req' = [req EXCEPT ![r] = q] /\ UNCHANGED <<now, ticket, file>>
        /\ t \in Tickets /\ Born(t)
    BY <1>2 DEF Unfile, Found
  <2>2. row \in Row /\ InOrder(row) BY <2>1, SeenRow DEF DeskInv, AloneInv, DatesInv
  <2>3. CanTransition(row.status, row.status) BY <2>2, StaysPut DEF Row
  <2>4. Changed(row, row) = {} BY DEF Changed
  <2>5. /\ q.op = "unfile" /\ q.pc = "write" /\ q.tkt = t /\ q.file = f /\ q.row = row
        /\ q.want = row /\ q.cols = {}
    BY DEF Idle
  <2> HIDE DEF q
  <2>6. HandsOK(q) BY <2>2, <2>3, <2>4, <2>5 DEF HandsOK
  <2>7. QED BY <2>1, <2>6, KeepHands
<1>3. ASSUME NEW s \in Tickets, NEW t \in Tickets, Merge(r, s, t) PROVE AloneInv'
  <2> DEFINE q == [Idle EXCEPT !.op = "merge", !.pc = "messages", !.tkt = s, !.into = t,
                               !.row = ticket[s]]
  <2>1. /\ req' = [req EXCEPT ![r] = q] /\ UNCHANGED <<now, ticket, file>>
        /\ s # t /\ ticket[t].merged = None
    BY <1>3 DEF Merge, Mergeable
  <2>2. HandsOK(q) BY <2>1 DEF HandsOK, Idle
  <2> HIDE DEF q
  <2>3. QED BY <2>1, <2>2, KeepHands
<1>4. QED BY <1>1, <1>2, <1>3, LoadHands, ArriveKinds DEF DeskInv

\* Handing over what was raised, once the row has been read again or not.
LEMMA RaiseHands ==
    ASSUME DeskInv, AloneInv, OneHandler, NEW r \in Requests, Reprioritise(r) \/ AssignRaised(r)
    PROVE  AloneInv'
<1>1. req[r].pc = "assign" BY DEF Reprioritise, AssignRaised, At
<1>2. /\ req[r] \in Request /\ req[r].row \in Row /\ req[r].tkt \in Tickets
      /\ Born(req[r].tkt)
  BY <1>1, InHand
<1>3. HandsOK(req[r]) /\ req[r].op = "raise" BY <1>1 DEF AloneInv, HandsInv, DeskInv, InFlight
<1>4. req[r].row = ticket[req[r].tkt] BY <1>1, <1>3 DEF HandsOK
<1>5. CASE Reprioritise(r)
  <2> DEFINE q == [req[r] EXCEPT !.row = ticket[req[r].tkt]]
  <2>1. req' = [req EXCEPT ![r] = q] /\ UNCHANGED <<now, ticket, file>>
    BY <1>5 DEF Reprioritise
  <2>2. q = req[r] BY <1>2, <1>4 DEF Request
  <2>3. QED BY <1>3, <2>1, <2>2, KeepHands
<1>6. CASE AssignRaised(r)
  <2> DEFINE row == req[r].row
  <2>1. PICK a \in Agents :
          /\ req' = [req EXCEPT ![r].pc = "write", ![r].want = Assigned(row, a),
                                ![r].cols = Changed(row, Assigned(row, a))]
          /\ UNCHANGED <<now, ticket, file>>
    BY <1>6 DEF AssignRaised
  <2> DEFINE want == Assigned(row, a)
             cols == Changed(row, want)
             q == [req[r] EXCEPT !.pc = "write", !.want = want, !.cols = cols]
  <2>2. req' = [req EXCEPT ![r] = q] BY <2>1
  <2>3. want \in Row /\ Sound("raise", row, want) BY <1>2, AssignedSound
  <2>4. InOrder(row) BY <1>2, <1>4 DEF AloneInv, DatesInv
  <2>5. /\ CanTransition(row.status, want.status) /\ InOrder(want)
        /\ want.merged = row.merged /\ want.replies = row.replies /\ want.files = row.files
        /\ ~(row.status = "closed" /\ want.status # "closed")
    BY <2>3, <2>4 DEF Sound
  <2>6. {"replies", "files"} \cap cols = {} BY <2>5 DEF Changed
  <2>7. /\ q.op = "raise" /\ q.pc = "write" /\ q.tkt = req[r].tkt /\ q.row = row
        /\ q.want = want /\ q.cols = cols
    BY <1>2, <1>3 DEF Request
  <2> HIDE DEF q, want
  <2>8. HandsOK(q) BY <1>4, <2>5, <2>6, <2>7 DEF HandsOK
  <2>9. QED BY <2>1, <2>2, <2>8, KeepHands
<1>7. QED BY <1>5, <1>6

\* What merging makes of the dates of the duplicate.
LEMMA MergedSound ==
    ASSUME NEW row \in Row, NEW t \in Tickets, now \in Nat, InOrder(row)
    PROVE  /\ MergedInto(row, t) \in Row /\ InOrder(MergedInto(row, t))
           /\ MergedInto(row, t).status = "closed" /\ MergedInto(row, t).merged = t
           /\ MergedInto(row, t).replies = row.replies /\ MergedInto(row, t).files = row.files
           /\ CanTransition(row.status, "closed")
<1> DEFINE closed == IF row.closed = None THEN now ELSE row.closed
           resolved == IF row.resolved = None THEN now ELSE row.resolved
           want == [row EXCEPT !.merged = t, !.status = "closed", !.closed = closed,
                               !.resolved = resolved]
<1>1. want = MergedInto(row, t) BY DEF MergedInto
<1>2. /\ row.closed \in Nat \cup {None} /\ row.resolved \in Nat \cup {None}
      /\ row.status \in Statuses /\ now # None
  BY ValuesAssumption DEF Row, Stamp
<1>3. /\ closed \in Nat /\ resolved \in Nat /\ resolved <= closed /\ resolved <= now
      /\ closed # None /\ resolved # None
  <2>1. closed \in Nat /\ resolved \in Nat BY <1>2
  <2>2. closed # None /\ resolved # None BY <2>1, ValuesAssumption
  <2>3. CASE row.closed # None
    <3>1. row.resolved # None BY <2>3 DEF InOrder, Terminal
    <3>2. QED BY <2>1, <2>2, <2>3, <3>1 DEF InOrder
  <2>4. CASE row.closed = None
    <3>1. closed = now BY <2>4
    <3>2. resolved <= now BY <1>2 DEF InOrder
    <3>3. QED BY <2>1, <2>2, <3>1, <3>2
  <2>5. QED BY <2>3, <2>4
<1>4. CanTransition(row.status, "closed") BY <1>2 DEF CanTransition, Terminal, Statuses
<1> HIDE DEF closed, resolved
<1>5. /\ want \in Row /\ want.status = "closed" /\ want.merged = t
      /\ want.replies = row.replies /\ want.files = row.files
      /\ want.closed = closed /\ want.resolved = resolved
  BY <1>3 DEF Row, Statuses, Stamp
<1> HIDE DEF want
<1>6. InOrder(want) BY <1>3, <1>5 DEF InOrder
<1>7. QED BY <1>1, <1>4, <1>5, <1>6

\* A merge that reads on, or a handler that ends without a trace.
LEMMA MoveHands ==
    ASSUME DeskInv, AloneInv, OneHandler, NEW r \in Requests,
           \/ AssignNothing(r) \/ Refused(r) \/ Crash(r)
           \/ MergeMessages(r) \/ MergeFiles(r)
    PROVE  AloneInv'
<1>1. CASE AssignNothing(r) \/ Refused(r) \/ Crash(r)
  <2>1. req' = [req EXCEPT ![r] = Idle] /\ UNCHANGED <<now, ticket, file>>
    BY <1>1 DEF AssignNothing, Refused, Crash, Finish
  <2>2. QED BY <2>1, IdleHands, KeepHands
<1>2. CASE MergeMessages(r)
  <2> DEFINE q == [req[r] EXCEPT !.pc = "files", !.moved = OnTicket(req[r].tkt)]
  <2>1. /\ req' = [req EXCEPT ![r] = q] /\ UNCHANGED <<now, ticket, file>>
        /\ req[r].pc = "messages"
    BY <1>2 DEF MergeMessages, At
  <2>2. req[r] \in Request /\ HandsOK(req[r]) BY DEF DeskInv, TypeOK, AloneInv, HandsInv
  <2>3. /\ q.pc = "files" /\ q.op = req[r].op /\ q.tkt = req[r].tkt
        /\ q.into = req[r].into /\ q.row = req[r].row
    BY <2>2 DEF Request
  <2> HIDE DEF q
  <2>4. HandsOK(q) BY <2>1, <2>2, <2>3 DEF HandsOK
  <2>5. QED BY <2>1, <2>4, KeepHands
<1>3. CASE MergeFiles(r)
  <2> DEFINE row == req[r].row
             t == req[r].into
             want == MergedInto(row, t)
             cols == Changed(row, want)
             taken == FilesOf(req[r].tkt)
             q == [req[r] EXCEPT !.pc = "write", !.taken = taken, !.want = want,
                                 !.cols = cols]
  <2>1. /\ req' = [req EXCEPT ![r] = q] /\ UNCHANGED <<now, ticket, file>>
        /\ req[r].pc = "files"
    BY <1>3 DEF MergeFiles, At
  <2>2. /\ req[r] \in Request /\ HandsOK(req[r]) /\ InFlight(r) /\ now \in Nat
        /\ row \in Row /\ Born(req[r].tkt) /\ req[r].tkt \in Tickets
    BY <2>1, InHand DEF DeskInv, TypeOK, AloneInv, HandsInv
  <2>3. req[r].op = "merge" /\ t \in Tickets /\ row = ticket[req[r].tkt]
    BY <2>1, <2>2 DEF InFlight, HandsOK
  <2>4. InOrder(row) BY <2>2, <2>3 DEF AloneInv, DatesInv
  <2>5. /\ want \in Row /\ InOrder(want) /\ want.status = "closed" /\ want.merged = t
        /\ want.replies = row.replies /\ want.files = row.files
        /\ CanTransition(row.status, want.status)
    BY <2>2, <2>3, <2>4, MergedSound
  <2>6. {"replies", "files"} \cap cols = {} BY <2>5 DEF Changed
  <2>7. /\ q.op = "merge" /\ q.pc = "write" /\ q.tkt = req[r].tkt /\ q.into = t
        /\ q.row = row /\ q.want = want /\ q.cols = cols /\ q.taken = taken
    BY <2>2, <2>3 DEF Request
  <2> HIDE DEF q, want
  <2>8. HandsOK(q) BY <2>2, <2>3, <2>5, <2>6, <2>7 DEF HandsOK
  <2>9. QED BY <2>1, <2>8, KeepHands
<1>4. QED BY <1>1, <1>2, <1>3

\* Writing all it changed, a handler that loaded the row as it is leaves the
\* row it wanted.
LEMMA WrittenWhole ==
    ASSUME NEW q, q.row \in Row, q.want \in Row, Changed(q.row, q.want) \subseteq q.cols
    PROVE  Written(q, q.row) = q.want
<1>1. ASSUME NEW c \in Columns
      PROVE  (IF c \in q.cols THEN q.want[c] ELSE q.row[c]) = q.want[c]
  BY DEF Changed
<1>2. Written(q, q.row) = [c \in Columns |-> q.want[c]] BY <1>1 DEF Written
<1>3. [c \in Columns |-> q.want[c]] = q.want BY DEF Columns, Row
<1>4. QED BY <1>2, <1>3

\* The ticket the one handler leaves behind, unless it merges.
LEMMA WrittenAlone ==
    ASSUME DeskInv, AloneInv, OneHandler, NEW r \in Requests, At(r, "write"),
           req[r].op # "merge", Finish(r),
           ticket' = [ticket EXCEPT ![req[r].tkt] = Counted(req[r], @)]
    PROVE  LET q == req[r]
               t == q.tkt
           IN  /\ q \in Request /\ WriteOK(q) /\ HandsOK(q)
               /\ t \in Tickets /\ Born(t) /\ ticket[t] \in Row /\ q.row = ticket[t]
               /\ ticket'[t].status = q.want.status /\ ticket'[t].closed = q.want.closed
               /\ ticket'[t].resolved = q.want.resolved
               /\ ticket'[t].merged = ticket[t].merged
               /\ ticket'[t].files = CASE q.op = "upload" -> ticket[t].files + 1
                                       [] q.op = "unfile" -> ticket[t].files - 1
                                       [] OTHER -> ticket[t].files
               /\ \A x \in Tickets : Born(x)' <=> Born(x)
               /\ \A x \in Tickets \ {t} : ticket'[x] = ticket[x]
               /\ HandsInv'
<1> DEFINE q == req[r]
           t == q.tkt
           row == ticket[t]
           new == Counted(q, row)
<1>1. /\ q \in Request /\ WriteOK(q) /\ HandsOK(q) /\ t \in Tickets /\ Born(t)
      /\ row \in Row /\ q.want \in Row /\ q.row = row /\ new \in Row /\ new # Absent
      /\ q.pc = "write" /\ q.op # "merge"
  BY NewRow DEF HandsOK, AloneInv, HandsInv, At
<1>2. /\ Changed(row, q.want) \subseteq q.cols /\ "files" \notin q.cols
      /\ q.want.merged = row.merged
  BY <1>1 DEF HandsOK
<1>3. ticket' = [ticket EXCEPT ![t] = new] /\ ticket \in [Tickets -> Row \cup {Absent}]
  BY DEF DeskInv, TypeOK
<1>4. Written(q, row) = q.want BY <1>1, <1>2, WrittenWhole
<1>5. new.files = CASE q.op = "upload" -> row.files + 1
                    [] q.op = "unfile" -> row.files - 1
                    [] OTHER -> row.files
  BY <1>1, <1>2, CountedCounters
<1>6. new \in {q.want, [q.want EXCEPT !.replies = @ + 1],
               [q.want EXCEPT !.files = @ + 1], [q.want EXCEPT !.files = @ - 1]}
  BY <1>4 DEF Counted
<1> HIDE DEF new
<1>7. /\ new.status = q.want.status /\ new.closed = q.want.closed
      /\ new.resolved = q.want.resolved /\ new.merged = q.want.merged
  BY <1>1, <1>6 DEF Row
<1>8. ticket'[t] = new /\ \A x \in Tickets \ {t} : ticket'[x] = ticket[x]
  BY <1>1, <1>3
<1>9. \A x \in Tickets : Born(x)' <=> Born(x) BY <1>1, <1>8 DEF Born
<1>10. HandsInv'
  <2>1. req'[r] = Idle BY DEF DeskInv, TypeOK, Finish
  <2>2. HandsOK(req[r])' BY <2>1 DEF HandsOK, Idle
  <2>3. QED BY <2>2 DEF HandsInv, OneHandler
<1> HIDE DEF q
<1>11. QED BY <1>1, <1>2, <1>5, <1>7, <1>8, <1>9, <1>10 DEF q

\* A ranking serves as long as no ticket is merged.
LEMMA SameRank ==
    ASSUME AloneInv, \A x \in Tickets : Born(x)' =>
             (Born(x) /\ ticket'[x].merged = ticket[x].merged) \/ ticket'[x].merged = None
    PROVE  RankInv'
  BY DEF AloneInv, RankInv, Climbs

\* A write that touches no attachment.
LEMMA WriteAlone ==
    ASSUME DeskInv, AloneInv, OneHandler, NEW r \in Requests, Write(r) \/ WriteFeedback(r)
    PROVE  AloneInv'
<1> DEFINE q == req[r]
           t == q.tkt
<1>1. /\ At(r, "write") /\ q.op \notin {"merge", "upload", "unfile"} /\ Finish(r)
      /\ ticket' = [ticket EXCEPT ![t] = Counted(q, @)]
      /\ UNCHANGED <<now, file>>
  BY DEF Write, WriteFeedback
<1>2. /\ HandsOK(q) /\ t \in Tickets /\ Born(t) /\ q.pc = "write"
      /\ ticket'[t].status = q.want.status /\ ticket'[t].closed = q.want.closed
      /\ ticket'[t].resolved = q.want.resolved
      /\ ticket'[t].merged = ticket[t].merged /\ ticket'[t].files = ticket[t].files
      /\ \A x \in Tickets : Born(x)' <=> Born(x)
      /\ \A x \in Tickets \ {t} : ticket'[x] = ticket[x]
      /\ HandsInv'
  BY <1>1, WrittenAlone DEF At
<1> HIDE DEF q, t
<1>3. DatesInv'
  <2>1. InOrder(q.want) BY <1>2 DEF HandsOK
  <2>2. SUFFICES ASSUME NEW x \in Tickets, Born(x)' PROVE InOrder(ticket[x])'
    BY DEF DatesInv
  <2>3. CASE x = t BY <1>1, <1>2, <2>1, <2>3 DEF InOrder
  <2>4. CASE x # t BY <1>1, <1>2, <2>2, <2>4 DEF AloneInv, DatesInv, InOrder
  <2>5. QED BY <2>3, <2>4
<1>4. FilesInv'
  <2>1. \A x \in Tickets : Born(x) =>
          ticket'[x].merged = ticket[x].merged /\ ticket'[x].files = ticket[x].files
    BY <1>2
  <2>2. \A x \in Tickets : FilesOf(x)' = FilesOf(x) BY <1>1 DEF FilesOf
  <2>3. FilesCounted' BY <1>2, <2>1, <2>2 DEF AloneInv, FilesInv, FilesCounted
  <2>4. QED BY <1>1, <1>2, <2>3 DEF AloneInv, FilesInv
<1>5. RankInv' BY <1>2, SameRank
<1>6. QED BY <1>2, <1>3, <1>4, <1>5 DEF AloneInv

\* The attachments of a ticket are finitely many.
LEMMA FilesFinite ==
    ASSUME NEW t PROVE IsFiniteSet(FilesOf(t)) /\ Cardinality(FilesOf(t)) \in Nat
<1>1. FilesOf(t) \subseteq Files BY DEF FilesOf
<1>2. QED BY <1>1, FilesAssumption, FS_Subset, FS_CardinalityType

\* An attachment comes or goes, and its ticket counts it.
LEMMA WriteFileAlone ==
    ASSUME DeskInv, AloneInv, OneHandler, NEW r \in Requests, WriteFile(r)
    PROVE  AloneInv'
<1> DEFINE q == req[r]
           t == q.tkt
<1>1. /\ At(r, "write") /\ q.op \in {"upload", "unfile"} /\ Finish(r)
      /\ ticket' = [ticket EXCEPT ![t] = Counted(q, @)]
      /\ now' = now /\ file \in [Files -> Tickets \cup {None, Absent}]
      /\ \/ q.op = "upload" /\ \E f \in Files : file[f] = Absent /\ file' = [file EXCEPT ![f] = t]
         \/ q.op = "unfile" /\ file' = [file EXCEPT ![q.file] = None]
  BY DEF WriteFile, DeskInv, TypeOK
<1>2. /\ HandsOK(q) /\ WriteOK(q) /\ t \in Tickets /\ Born(t) /\ q.pc = "write"
      /\ ticket[t] \in Row
      /\ ticket'[t].status = q.want.status /\ ticket'[t].closed = q.want.closed
      /\ ticket'[t].resolved = q.want.resolved
      /\ ticket'[t].merged = ticket[t].merged
      /\ q.op = "upload" => ticket'[t].files = ticket[t].files + 1
      /\ q.op = "unfile" => ticket'[t].files = ticket[t].files - 1
      /\ \A x \in Tickets : Born(x)' <=> Born(x)
      /\ \A x \in Tickets \ {t} : ticket'[x] = ticket[x]
      /\ HandsInv'
  BY <1>1, WrittenAlone DEF At
<1> HIDE DEF q, t
<1>3. DatesInv'
  <2>1. InOrder(q.want) BY <1>2 DEF HandsOK
  <2>2. SUFFICES ASSUME NEW x \in Tickets, Born(x)' PROVE InOrder(ticket[x])'
    BY DEF DatesInv
  <2>3. CASE x = t BY <1>1, <1>2, <2>1, <2>3 DEF InOrder
  <2>4. CASE x # t BY <1>1, <1>2, <2>2, <2>4 DEF AloneInv, DatesInv, InOrder
  <2>5. QED BY <2>3, <2>4
<1>4. t \notin {None, Absent} BY <1>2, ValuesAssumption
<1>5. \E f \in Files :
        /\ \A g \in Files \ {f} : file'[g] = file[g]
        /\ \/ q.op = "upload" /\ file[f] = Absent /\ file'[f] = t
           \/ q.op = "unfile" /\ file[f] = t /\ file'[f] = None
  <2>1. CASE q.op = "upload" BY <1>1, <2>1
  <2>2. CASE q.op = "unfile"
    <3>1. q.file \in Files /\ file[q.file] = t BY <1>2, <2>2 DEF HandsOK, WriteOK, t
    <3>2. QED BY <1>1, <2>2, <3>1
  <2>3. QED BY <1>1, <2>1, <2>2
<1>6. PICK f \in Files :
        /\ \A g \in Files \ {f} : file'[g] = file[g]
        /\ \/ q.op = "upload" /\ file[f] = Absent /\ file'[f] = t
           \/ q.op = "unfile" /\ file[f] = t /\ file'[f] = None
  BY <1>5
<1>7. \A x \in Tickets \ {t} : FilesOf(x)' = FilesOf(x)
  BY <1>4, <1>6, ValuesAssumption DEF FilesOf
<1>8. FilesCounted'
  <2>1. SUFFICES ASSUME NEW x \in Tickets, Born(x)', ticket'[x].merged = None
                 PROVE  ticket'[x].files = Cardinality(FilesOf(x)')
    BY DEF FilesCounted
  <2>2. CASE x = t
    <3>1. ticket[x].files = Cardinality(FilesOf(x)) /\ ticket[x].files \in Int
      BY <1>2, <2>1, <2>2 DEF AloneInv, FilesInv, FilesCounted, Row
    <3>2. IsFiniteSet(FilesOf(x)) BY FilesFinite
    <3>3. CASE q.op = "upload"
      <4>1. FilesOf(x)' = FilesOf(x) \cup {f} /\ f \notin FilesOf(x)
        BY <1>4, <1>6, <2>2, <3>3 DEF FilesOf
      <4>2. Cardinality(FilesOf(x)') = Cardinality(FilesOf(x)) + 1
        BY <3>2, <4>1, FS_AddElement
      <4>3. QED BY <1>2, <2>2, <3>1, <3>3, <4>2
    <3>4. CASE q.op = "unfile"
      <4>1. FilesOf(x)' = FilesOf(x) \ {f} /\ f \in FilesOf(x)
        BY <1>4, <1>6, <2>2, <3>4 DEF FilesOf
      <4>2. Cardinality(FilesOf(x)') = Cardinality(FilesOf(x)) - 1
        BY <3>2, <4>1, FS_RemoveElement
      <4>3. QED BY <1>2, <2>2, <3>1, <3>4, <4>2
    <3>5. QED BY <1>1, <3>3, <3>4
  <2>3. CASE x # t BY <1>2, <1>7, <2>1, <2>3 DEF AloneInv, FilesInv, FilesCounted
  <2>4. QED BY <2>2, <2>3
<1>9. \A g \in Files : file'[g] \in Tickets => Born(file[g])'
  <2>1. \A g \in Files : file'[g] \in Tickets => Born(file'[g])
    BY <1>2, <1>6, ValuesAssumption DEF AloneInv, FilesInv
  <2>2. QED BY <1>2, <2>1 DEF Born
<1>10. FilesInv' BY <1>8, <1>9 DEF FilesInv
<1>11. RankInv' BY <1>2, SameRank
<1>12. QED BY <1>2, <1>3, <1>10, <1>11 DEF AloneInv

\* A new ticket is in order, has no attachments and is merged into nothing.
LEMMA InsertAlone ==
    ASSUME DeskInv, AloneInv, OneHandler, NEW r \in Requests, Insert(r)
    PROVE  AloneInv'
<1>1. PICK t \in Tickets :
        /\ ~Born(t)
        /\ ticket' = [ticket EXCEPT ![t] = Raised(req[r].no)]
        /\ req' = [req EXCEPT ![r] = IF @.op = "create" THEN Idle ELSE
                     [@ EXCEPT !.pc = "assign", !.tkt = t, !.row = Raised(req[r].no)]]
  BY DEF Insert
<1>2. UNCHANGED <<now, file>> BY DEF Insert
<1>3. /\ TypeOK /\ req[r] \in Request /\ InFlight(r) /\ At(r, "insert")
  BY DEF DeskInv, TypeOK, Insert
<1>4. /\ Raised(req[r].no) \in Row /\ Raised(req[r].no).files = 0
      /\ Raised(req[r].no).merged = None /\ Raised(req[r].no).status = "open"
      /\ Raised(req[r].no).closed = None /\ Raised(req[r].no).resolved = None
  BY <1>3, ValuesAssumption DEF InFlight, Raised, Row, Statuses, Stamp, Request, At
<1>5. /\ ticket'[t] = Raised(req[r].no) /\ Born(t)'
      /\ \A x \in Tickets \ {t} : ticket'[x] = ticket[x]
  BY <1>1, <1>3, <1>4, ValuesAssumption DEF TypeOK, Born
<1>6. HandsInv'
  <2>1. \/ req'[r] = Idle
        \/ req'[r] = [req[r] EXCEPT !.pc = "assign", !.tkt = t, !.row = Raised(req[r].no)]
    BY <1>1, <1>3 DEF TypeOK
  <2>2. req[r].op \in {"create", "raise"} BY <1>3 DEF InFlight, At
  <2>3. CASE req'[r] = Idle
    <3>1. HandsOK(req[r])' BY <2>3 DEF HandsOK, Idle
    <3>2. QED BY <3>1 DEF HandsInv, OneHandler
  <2>4. CASE req'[r] = [req[r] EXCEPT !.pc = "assign", !.tkt = t, !.row = Raised(req[r].no)]
    <3>1. /\ req'[r].pc = "assign" /\ req'[r].tkt = t /\ req'[r].row = Raised(req[r].no)
          /\ req'[r].op = req[r].op
      BY <1>3, <2>4 DEF Request
    <3>2. HandsOK(req[r])' BY <1>5, <2>2, <3>1 DEF HandsOK
    <3>3. QED BY <3>2 DEF HandsInv, OneHandler
  <2>5. QED BY <2>1, <2>3, <2>4
<1>7. DatesInv'
  <2>1. SUFFICES ASSUME NEW x \in Tickets, Born(x)' PROVE InOrder(ticket[x])'
    BY DEF DatesInv
  <2>2. CASE x = t BY <1>4, <1>5, <2>2 DEF InOrder, Terminal
  <2>3. CASE x # t BY <1>2, <1>5, <2>1, <2>3 DEF AloneInv, DatesInv, InOrder, Born
  <2>4. QED BY <2>2, <2>3
<1>8. FilesInv'
  <2>1. \A x \in Tickets : FilesOf(x)' = FilesOf(x) BY <1>2 DEF FilesOf
  <2>2. Cardinality(FilesOf(t)) = 0
    <3>1. FilesOf(t) = {} BY <1>1 DEF AloneInv, FilesInv, FilesOf
    <3>2. QED BY <3>1, FS_EmptySet
  <2>3. FilesCounted' BY <1>4, <1>5, <2>1, <2>2 DEF AloneInv, FilesInv, FilesCounted, Born
  <2>4. QED BY <1>1, <1>2, <1>5, <2>3 DEF AloneInv, FilesInv, Born
<1>9. RankInv'
  <2>1. \A x \in Tickets : Born(x)' =>
           (Born(x) /\ ticket'[x].merged = ticket[x].merged) \/ ticket'[x].merged = None
    BY <1>4, <1>5 DEF Born
  <2>2. QED BY <2>1, SameRank
<1>10. QED BY <1>6, <1>7, <1>8, <1>9 DEF AloneInv

\* `up` ranks `t` above all others, and those as `rank` does.
Tops(up, rank, S, t) ==
    /\ \A x \in S \ {t}, y \in S \ {t} : rank[x] < rank[y] => up[x] < up[y]
    /\ \A x \in S \ {t} : up[x] < up[t]

\* Taking one to the top of a ranking, and those above it one down.
LEMMA ToTheTop ==
    ASSUME NEW S, NEW N \in Nat, NEW rank, Ranking(rank, S, N), NEW t \in S
    PROVE  \E up \in [S -> 1 .. N] : Ranking(up, S, N) /\ Tops(up, rank, S, t)
<1> USE DEF Ranking
<1> DEFINE up == [x \in S |-> IF x = t THEN N
                              ELSE IF rank[x] > rank[t] THEN rank[x] - 1 ELSE rank[x]]
<1>1. N \in 1 .. N /\ rank[t] \in 1 .. N OBVIOUS
<1>2. ASSUME NEW x \in S, x # t
      PROVE  /\ up[x] \in 1 .. N /\ up[x] < N
             /\ up[x] = IF rank[x] > rank[t] THEN rank[x] - 1 ELSE rank[x]
             /\ rank[x] \in 1 .. N /\ rank[x] # rank[t]
  BY <1>1, <1>2
<1>3. up[t] = N OBVIOUS
<1>4. up \in [S -> 1 .. N] BY <1>1, <1>2, <1>3
<1> HIDE DEF up
<1>5. ASSUME NEW x \in S, NEW y \in S, up[x] = up[y] PROVE x = y
  <2>1. CASE x # t /\ y # t
    <3>1. rank[x] = rank[y] BY <1>1, <1>2, <1>5, <2>1
    <3>2. QED BY <3>1
  <2>2. CASE x = t \/ y = t BY <1>2, <1>3, <1>5, <2>2
  <2>3. QED BY <2>1, <2>2
<1>6. ASSUME NEW x \in S \ {t}, NEW y \in S \ {t}, rank[x] < rank[y] PROVE up[x] < up[y]
  BY <1>1, <1>2, <1>6
<1>7. \A x \in S \ {t} : up[x] < up[t] BY <1>2, <1>3
<1>8. QED BY <1>4, <1>5, <1>6, <1>7 DEF Tops

\* A merge: the target goes to the top of the ranking, takes the attachments of
\* the duplicate and counts them.
LEMMA WriteMergeAlone ==
    ASSUME DeskInv, AloneInv, OneHandler, IsFiniteSet(Tickets),
           NEW r \in Requests, WriteMerge(r)
    PROVE  AloneInv'
<1> DEFINE q == req[r]
           s == q.tkt
           t == q.into
           n == Cardinality(q.moved)
           m == Cardinality(q.taken)
           source == Written(q, ticket[s])
           base(x) == IF x = s THEN source ELSE ticket[x]
<1>1. /\ q \in Request /\ s \in Tickets /\ Born(s) /\ WriteOK(q)
      /\ t \in Tickets /\ Born(t) /\ n \in Nat /\ m \in Nat
      /\ \A x \in Tickets : Born(x)' <=> Born(x)
      /\ \A x \in Tickets : Born(x) =>
           /\ base(x) \in Row
           /\ ticket'[x] = IF x = t THEN [base(x) EXCEPT !.replies = @ + n, !.files = @ + m]
                           ELSE base(x)
  BY MergeRows
<1>2. /\ q.pc = "write" /\ q.op = "merge" /\ now' = now /\ Finish(r)
      /\ file' = [f \in Files |->
            IF f \in q.taken /\ file[f] # None THEN t ELSE file[f]]
  BY DEF WriteMerge, At
<1>3. /\ HandsOK(q) /\ InFlight(r) /\ q.want \in Row
  BY <1>1 DEF AloneInv, HandsInv, DeskInv, WriteOK
<1>4. /\ s # t /\ ticket[t].merged = None /\ ticket[s].merged = None
      /\ q.row = ticket[s] /\ q.row \in Row /\ ticket[t] \in Row
      /\ Changed(q.row, q.want) \subseteq q.cols /\ InOrder(q.want)
      /\ q.want.merged = t /\ q.taken = FilesOf(s)
  <2>1. q.row = ticket[s] /\ ticket[s] \in Row /\ ticket[t] \in Row
    BY <1>1, <1>2, <1>3, FoundRow DEF HandsOK, DeskInv
  <2>2. q.row.merged = None BY <1>2, <1>3 DEF InFlight
  <2>3. QED BY <1>2, <1>3, <2>1, <2>2 DEF HandsOK
<1>5. source = q.want BY <1>3, <1>4, WrittenWhole
<1>6. req'[r] = Idle BY <1>2 DEF Finish, DeskInv, TypeOK
<1> HIDE DEF q, s, t, n, source
<1>7. ticket'[s] = q.want BY <1>1, <1>4, <1>5
<1>8. ticket'[t] = [ticket[t] EXCEPT !.replies = @ + n, !.files = @ + m] BY <1>1, <1>4
<1>9. \A x \in Tickets \ {s, t} : Born(x) => ticket'[x] = ticket[x] BY <1>1
<1>10. /\ ticket'[t].closed = ticket[t].closed /\ ticket'[t].status = ticket[t].status
       /\ ticket'[t].resolved = ticket[t].resolved /\ ticket'[t].merged = None
       /\ ticket'[t].files = ticket[t].files + m
  BY <1>4, <1>8 DEF Row
<1>11. HandsInv'
  <2>1. HandsOK(req[r])' BY <1>6 DEF HandsOK, Idle
  <2>2. QED BY <2>1 DEF HandsInv, OneHandler
<1>12. DatesInv'
  <2>1. SUFFICES ASSUME NEW x \in Tickets, Born(x)' PROVE InOrder(ticket[x])'
    BY DEF DatesInv
  <2>2. Born(x) /\ InOrder(ticket[x]) BY <1>1, <2>1 DEF AloneInv, DatesInv
  <2>3. CASE x = s BY <1>2, <1>4, <1>7, <2>3 DEF InOrder
  <2>4. CASE x = t BY <1>2, <1>10, <2>2, <2>4 DEF InOrder
  <2>5. CASE x \notin {s, t} BY <1>2, <1>9, <2>2, <2>5 DEF InOrder
  <2>6. QED BY <2>3, <2>4, <2>5
<1>13. FilesInv'
  <2>1. \A f \in Files : file'[f] = IF file[f] = s THEN t ELSE file[f]
    <3>1. s # None BY <1>1, ValuesAssumption
    <3>2. QED BY <1>2, <1>4, <3>1 DEF FilesOf
  <2>2. \A f \in Files : file'[f] \in Tickets => Born(file[f])'
    <3>1. \A f \in Files : file'[f] \in Tickets => Born(file'[f])
      BY <1>1, <2>1 DEF AloneInv, FilesInv
    <3>2. QED BY <1>1, <3>1 DEF Born
  <2>3. FilesCounted'
    <3>1. SUFFICES ASSUME NEW x \in Tickets, Born(x)', ticket'[x].merged = None
                   PROVE  ticket'[x].files = Cardinality(FilesOf(x)')
      BY DEF FilesCounted
    <3>2. x # s
      <4>1. t # None BY <1>1, ValuesAssumption
      <4>2. QED BY <1>4, <1>7, <3>1, <4>1
    <3>3. CASE x = t
      <4>1. ticket[x].files = Cardinality(FilesOf(x))
        BY <1>1, <1>4, <3>3 DEF AloneInv, FilesInv, FilesCounted
      <4>2. FilesOf(x)' = FilesOf(x) \cup FilesOf(s) BY <1>4, <2>1, <3>3 DEF FilesOf
      <4>3. FilesOf(x) \cap FilesOf(s) = {} BY <1>4, <3>3 DEF FilesOf
      <4>4. /\ IsFiniteSet(FilesOf(x)) /\ Cardinality(FilesOf(x)) \in Nat
            /\ IsFiniteSet(FilesOf(s)) /\ Cardinality(FilesOf(s)) \in Nat
        BY FilesFinite
      <4>5. Cardinality(FilesOf(x) \cup FilesOf(s)) =
              Cardinality(FilesOf(x)) + Cardinality(FilesOf(s))
        <5>1. Cardinality(FilesOf(x) \cup FilesOf(s)) =
                Cardinality(FilesOf(x)) + Cardinality(FilesOf(s))
                  - Cardinality(FilesOf(x) \cap FilesOf(s))
          BY <4>4, FS_Union
        <5>2. Cardinality(FilesOf(x) \cap FilesOf(s)) = 0 BY <4>3, FS_EmptySet
        <5>3. QED BY <4>4, <5>1, <5>2
      <4>6. m = Cardinality(FilesOf(s)) BY <1>4
      <4>7. QED BY <1>10, <3>3, <4>1, <4>2, <4>5, <4>6
    <3>4. CASE x # t
      <4>1. FilesOf(x)' = FilesOf(x) BY <2>1, <3>2, <3>4 DEF FilesOf
      <4>2. QED BY <1>1, <1>9, <3>1, <3>2, <3>4, <4>1 DEF AloneInv, FilesInv, FilesCounted
    <3>5. QED BY <3>3, <3>4
  <2>4. QED BY <2>2, <2>3 DEF FilesInv
<1>14. RankInv'
  <2> DEFINE N == Cardinality(Tickets)
  <2>1. N \in Nat BY FS_CardinalityType
  <2>2. PICK rank \in [Tickets -> 1 .. N] : Climbs(rank) BY DEF AloneInv, RankInv
  <2>3. /\ Ranking(rank, Tickets, N)
        /\ \A x \in Tickets : Born(x) /\ ticket[x].merged # None =>
             rank[x] < rank[ticket[x].merged]
    BY <2>2 DEF Climbs
  <2> HIDE DEF N
  <2>4. PICK up \in [Tickets -> 1 .. N] : Ranking(up, Tickets, N) /\ Tops(up, rank, Tickets, t)
    <3>1. t \in Tickets BY <1>1
    <3>2. QED BY <2>1, <2>3, <3>1, ToTheTop
  <2>5. ASSUME NEW x \in Tickets, Born(x)', ticket'[x].merged # None
        PROVE  up[x] < up[ticket'[x].merged]
    <3>1. CASE x = s BY <1>1, <1>4, <1>7, <2>4, <3>1 DEF Tops
    <3>2. CASE x = t BY <1>10, <2>5, <3>2
    <3>3. CASE x \notin {s, t}
      <4>1. Born(x) /\ ticket'[x] = ticket[x] /\ ticket[x].merged \in Tickets
        BY <1>1, <1>9, <2>5, <3>3, FoundRow DEF DeskInv, Row
      <4>2. rank[x] < rank[ticket[x].merged] BY <2>3, <2>5, <4>1
      <4>3. CASE ticket[x].merged = t BY <2>4, <3>3, <4>1, <4>3 DEF Tops
      <4>4. CASE ticket[x].merged # t BY <2>4, <3>3, <4>1, <4>2, <4>4 DEF Tops
      <4>5. QED BY <4>3, <4>4
    <3>4. QED BY <3>1, <3>2, <3>3
  <2>6. Climbs(up)' BY <2>4, <2>5 DEF Climbs, N
  <2>7. QED BY <2>4, <2>6 DEF RankInv, N
<1>15. QED BY <1>11, <1>12, <1>13, <1>14 DEF AloneInv

\* The clock only moves the present away from the dates.
LEMMA TickAlone == ASSUME DeskInv, AloneInv, Tick PROVE AloneInv'
<1>1. now \in Nat /\ now' = now + 1 /\ UNCHANGED <<ticket, file, req>> /\ TypeOK
  BY DEF Tick, DeskInv, TypeOK
<1>2. ASSUME NEW row \in Row, InOrder(row) PROVE InOrder(row)'
  BY <1>1, <1>2 DEF InOrder, Row, Stamp
<1>3. DatesInv'
  <2>1. SUFFICES ASSUME NEW x \in Tickets, Born(x)' PROVE InOrder(ticket[x])'
    BY DEF DatesInv
  <2>2. ticket[x] \in Row /\ InOrder(ticket[x])
    BY <1>1, <2>1, FoundRow DEF AloneInv, DatesInv, Born
  <2>3. QED BY <1>1, <1>2, <2>2 DEF InOrder
<1>4. HandsInv'
  <2>1. SUFFICES ASSUME NEW r \in Requests PROVE HandsOK(req[r])'
    BY DEF HandsInv
  <2>2. HandsOK(req[r]) /\ (req[r].pc = "write" => req[r].want \in Row)
    BY DEF AloneInv, HandsInv, DeskInv, InFlight, WriteOK
  <2>3. req[r].pc = "write" => InOrder(req[r].want)'
    <3>1. SUFFICES ASSUME req[r].pc = "write" PROVE InOrder(req[r].want)' OBVIOUS
    <3>2. req[r].want \in Row /\ InOrder(req[r].want) BY <2>2, <3>1 DEF HandsOK
    <3>3. QED BY <1>1, <1>2, <3>2 DEF InOrder
  <2>4. QED BY <1>1, <2>2, <2>3 DEF HandsOK, FilesOf
<1>5. FilesInv' /\ RankInv'
  BY <1>1 DEF AloneInv, FilesInv, FilesCounted, FilesOf, RankInv, Climbs, Born
<1>6. QED BY <1>3, <1>4, <1>5 DEF AloneInv

\* Every step of the one handler keeps the invariant.
LEMMA NextAlone ==
    ASSUME DeskInv, AloneInv, OneHandler, IsFiniteSet(Tickets), [Next]_vars
    PROVE  AloneInv'
<1>1. CASE UNCHANGED vars
  BY <1>1 DEF vars, AloneInv, HandsInv, HandsOK, DatesInv, InOrder, FilesInv, FilesCounted,
              FilesOf, RankInv, Climbs, Born
<1>2. CASE Tick BY <1>2, TickAlone
<1>3. ASSUME NEW r \in Requests, Call(r) PROVE AloneInv'
  BY <1>3, ArriveHands DEF Call
<1>4. ASSUME NEW r \in Requests, Handle(r) \/ Crash(r) PROVE AloneInv'
  BY <1>4, InsertAlone, RaiseHands, MoveHands, WriteAlone, WriteFileAlone, WriteMergeAlone
     DEF Handle
<1>5. QED BY <1>1, <1>2, <1>3, <1>4 DEF Next

\* With no tickets any ranking will do.
LEMMA InitAlone == ASSUME Init, IsFiniteSet(Tickets) PROVE AloneInv
<1>1. /\ \A t \in Tickets : ~Born(t)
      /\ \A f \in Files : file[f] = Absent /\ Absent \notin Tickets
  BY ValuesAssumption DEF Init, Born
<1>2. HandsInv BY DEF Init, HandsInv, HandsOK, Idle
<1>3. DatesInv /\ FilesInv BY <1>1 DEF DatesInv, FilesInv, FilesCounted
<1>4. RankInv
  <2> DEFINE N == Cardinality(Tickets)
  <2>1. ExistsBijection(1 .. N, Tickets) BY FS_CardinalityType
  <2>2. ExistsBijection(Tickets, 1 .. N) BY <2>1, Fun_ExistsBijSymmetric
  <2>3. PICK rank : rank \in Bijection(Tickets, 1 .. N)
    BY <2>2 DEF ExistsBijection
  <2>4. /\ rank \in [Tickets -> 1 .. N]
        /\ \A x, y \in Tickets : rank[x] = rank[y] => x = y
    BY <2>3, Fun_BijectionProperties
  <2>5. Climbs(rank) BY <1>1, <2>4 DEF Climbs, Ranking
  <2>6. QED BY <2>4, <2>5 DEF RankInv
<1>5. QED BY <1>2, <1>3, <1>4 DEF AloneInv

\* What one handler knows, what the dates say, how many attachments a ticket
\* counts and where merges lead, together.
LEMMA AloneInvariant ==
    ASSUME OneHandler, IsFiniteSet(Tickets)
    PROVE  Spec => [](DeskInv /\ AloneInv)
<1>1. Init => AloneInv BY InitAlone
<1>2. DeskInv /\ AloneInv /\ [Next]_vars => AloneInv' BY NextAlone
<1>3. QED BY <1>1, <1>2, DeskInvariant, PTL DEF Spec

\* While requests do not overlap, closed_at is set exactly while a ticket is
\* closed, and a finished one was resolved no later than it was closed.
THEOREM DatesAgree ==
    ASSUME OneHandler, IsFiniteSet(Tickets) PROVE Spec => []DatesMatchStatus
<1>1. AloneInv => DatesMatchStatus BY DEF AloneInv, DatesInv, InOrder, DatesMatchStatus
<1>2. QED BY <1>1, AloneInvariant, PTL

\* While requests do not overlap, a ticket that was not merged away counts the
\* attachments it has, those merges moved to it included.
THEOREM AttachmentsCounted ==
    ASSUME OneHandler, IsFiniteSet(Tickets) PROVE Spec => []FilesCounted
<1>1. AloneInv => FilesCounted BY DEF AloneInv, FilesInv
<1>2. QED BY <1>1, AloneInvariant, PTL

\* While requests do not overlap, merges form no cycle, however many tickets
\* there are and in whatever order they are merged.
THEOREM MergesAcyclic ==
    ASSUME OneHandler, IsFiniteSet(Tickets) PROVE Spec => []MergesEnd
<1>1. AloneInv => MergesEnd
  BY DEF AloneInv, RankInv, Climbs, Ranking, MergesEnd
<1>2. QED BY <1>1, AloneInvariant, PTL

\* What a step may do to the status of a ticket.
MoveAllowed(t) ==
    /\ CanTransition(ticket[t].status, ticket'[t].status)
    /\ ticket[t].status = "closed" /\ ticket'[t].status # "closed" =>
         \E r \in Requests :
            /\ req[r].op = "reopen" /\ req[r].tkt = t
            /\ ReopenDays >= 0 => req[r].since <= ticket[t].closed + ReopenDays

\* A step that leaves its status alone is allowed.
LEMMA Unmoved ==
    ASSUME TypeOK, NEW t \in Tickets, Born(t), ticket'[t].status = ticket[t].status
    PROVE  MoveAllowed(t)
<1>1. ticket[t].status \in Statuses BY SeenRow
<1>2. QED BY <1>1, StaysPut DEF MoveAllowed

\* Every step of the one handler makes only allowed moves.
LEMMA NextMoves ==
    ASSUME DeskInv, AloneInv, OneHandler, [Next]_vars, NEW t \in Tickets, Born(t)
    PROVE  MoveAllowed(t)
<1>1. CASE UNCHANGED ticket BY <1>1, Unmoved DEF DeskInv
<1>2. ASSUME NEW r \in Requests, Insert(r) PROVE MoveAllowed(t)
  <2>1. PICK s \in Tickets : ~Born(s) /\ ticket' = [ticket EXCEPT ![s] = Raised(req[r].no)]
    BY <1>2 DEF Insert
  <2>2. ticket'[t] = ticket[t] BY <2>1 DEF DeskInv, TypeOK
  <2>3. QED BY <2>2, Unmoved DEF DeskInv
<1>3. ASSUME NEW r \in Requests, Write(r) \/ WriteFeedback(r) \/ WriteFile(r)
      PROVE  MoveAllowed(t)
  <2> DEFINE q == req[r]
  <2>1. /\ At(r, "write") /\ q.op # "merge" /\ Finish(r)
        /\ ticket' = [ticket EXCEPT ![q.tkt] = Counted(q, @)]
    BY <1>3 DEF Write, WriteFeedback, WriteFile
  <2>2. /\ HandsOK(q) /\ q.row = ticket[q.tkt] /\ q.pc = "write"
        /\ ticket'[q.tkt].status = q.want.status
        /\ \A x \in Tickets \ {q.tkt} : ticket'[x] = ticket[x]
    BY <2>1, WrittenAlone DEF At
  <2>3. CASE t = q.tkt
    <3>1. /\ CanTransition(ticket[t].status, ticket'[t].status)
          /\ ticket[t].status = "closed" /\ ticket'[t].status # "closed" =>
                q.op = "reopen" /\ (ReopenDays >= 0 => q.since <= ticket[t].closed + ReopenDays)
      BY <2>2, <2>3 DEF HandsOK
    <3>2. QED BY <2>3, <3>1 DEF MoveAllowed
  <2>4. CASE t # q.tkt BY <2>2, <2>4, Unmoved DEF DeskInv
  <2>5. QED BY <2>3, <2>4
<1>4. ASSUME NEW r \in Requests, WriteMerge(r) PROVE MoveAllowed(t)
  <2> DEFINE q == req[r]
  <2>1. /\ q.pc = "write" /\ q.op = "merge" BY <1>4 DEF WriteMerge, At
  <2>2. /\ Born(q.tkt) /\ q.tkt \in Tickets
        /\ ticket'[t].status = IF t = q.tkt /\ MovesStatus(q) THEN q.want.status
                                                              ELSE ticket[t].status
    BY <1>4, MergeWritten
  <2>3. /\ HandsOK(q) BY DEF AloneInv, HandsInv
  <2>4. CASE t = q.tkt /\ MovesStatus(q)
    <3>1. /\ CanTransition(ticket[t].status, ticket'[t].status)
          /\ ticket[t].status = "closed" /\ ticket'[t].status # "closed" => q.op = "reopen"
      BY <2>1, <2>2, <2>3, <2>4 DEF HandsOK
    <3>2. QED BY <2>1, <3>1 DEF MoveAllowed
  <2>5. CASE ~(t = q.tkt /\ MovesStatus(q)) BY <2>2, <2>5, Unmoved DEF DeskInv
  <2>6. QED BY <2>4, <2>5
<1>5. ASSUME NEW r \in Requests, Arrive(r) PROVE UNCHANGED ticket
  BY <1>5, ArriveKinds DEF DeskInv, Number, Loads, Load, Unfile, Merge
<1>6. ASSUME NEW r \in Requests, Handle(r) \/ Crash(r) PROVE MoveAllowed(t)
  BY <1>1, <1>2, <1>3, <1>4, <1>6
     DEF Handle, Reprioritise, AssignRaised, AssignNothing, Refused, MergeMessages,
         MergeFiles, Crash
<1>7. CASE UNCHANGED vars \/ Tick BY <1>1, <1>7 DEF vars, Tick
<1>8. QED BY <1>1, <1>5, <1>6, <1>7 DEF Next, Call

\* While requests do not overlap, a ticket only makes the moves the table of
\* transitions lists, whichever endpoint moves it.
THEOREM TransitionsFollowed ==
    ASSUME OneHandler, IsFiniteSet(Tickets) PROVE Spec => FollowsTransitions
<1>1. DeskInv /\ AloneInv /\ [Next]_vars =>
        [\A t \in Tickets : Born(t) =>
           CanTransition(ticket[t].status, ticket'[t].status)]_vars
  BY NextMoves DEF MoveAllowed
<1>2. QED BY <1>1, AloneInvariant, PTL DEF Spec, FollowsTransitions

\* While requests do not overlap, only a reopen leaves "closed", and only one
\* that came inside the window.
THEOREM ClosedUntilReopened ==
    ASSUME OneHandler, IsFiniteSet(Tickets) PROVE Spec => ClosedLeftOnlyByReopen
<1>1. DeskInv /\ AloneInv /\ [Next]_vars =>
        [\A t \in Tickets : Born(t) /\ ticket[t].status = "closed"
                            /\ ticket'[t].status # "closed" =>
            \E r \in Requests :
                /\ req[r].op = "reopen" /\ req[r].tkt = t
                /\ ReopenDays >= 0 => req[r].since <= ticket[t].closed + ReopenDays]_vars
  BY NextMoves DEF MoveAllowed
<1>2. QED BY <1>1, AloneInvariant, PTL DEF Spec, ClosedLeftOnlyByReopen

-----------------------------------------------------------------------------
(* The lifecycle.                                                          *)

\* What one decision of the lifecycle makes of a card at hand.
Decided(c, d) ==
    \/ \E to \in Lifecycle!Transitions[c.status] :
         d = [c EXCEPT !.status = to, !.escalated = @ \/ to = "escalated"]
    \/ \E who \in Agents \cup {None} :
         /\ who # c.assignee
         /\ d = [c EXCEPT !.assignee = who,
                          !.status = IF who # None /\ @ = "open" THEN "in_progress" ELSE @]
    \/ /\ "escalated" \in Lifecycle!Transitions[c.status] /\ ~c.escalated
       /\ \E who \in Agents \cup {None} :
            d = [c EXCEPT !.status = "escalated", !.escalated = TRUE, !.assignee = who]
    \/ /\ c.status \in Terminal /\ c.rating = None
       /\ \E rating \in Ratings : d = [c EXCEPT !.rating = rating]
    \/ d = [c EXCEPT !.deleted = TRUE]

\* What a handler that loads one ticket makes of its card.
Turn(c, d) ==
    \/ d = c
    \/ ~c.deleted /\ Decided(c, d)
    \/ c.deleted /\ d = [c EXCEPT !.deleted = FALSE]

\* A call that loads a ticket and will take one decision on it.
LoadsTurn(r) ==
    \E op \in AllOps \ {"merge", "unfile"}, t \in Tickets, want \in Row,
       stamped \in SUBSET {"resolved", "closed", "deleted"} :
        /\ Born(t) /\ ticket[t] \in Row
        /\ Load(r, op, "write", t, want, stamped)
        /\ Turn(Card(ticket[t]), Card(want))

\* The table of transitions, and what the code asks of it.
LEMMA TableOfTransitions ==
    /\ DOMAIN Lifecycle!Transitions = Statuses
    /\ \A from, to \in Statuses : CanTransition(from, to) /\ to # from =>
          to \in Lifecycle!Transitions[from]
    /\ \A from, to \in Statuses : to \in Lifecycle!Transitions[from] => to # from
<1>1. DOMAIN Lifecycle!Transitions = Statuses BY DEF Lifecycle!Transitions, Statuses
<1>2. ASSUME NEW from \in Statuses, NEW to \in Statuses
      PROVE  /\ CanTransition(from, to) /\ to # from => to \in Lifecycle!Transitions[from]
             /\ to \in Lifecycle!Transitions[from] => to # from
  <2>1. CASE from \in {"open", "in_progress", "waiting_for_student"}
    BY <2>1 DEF Lifecycle!Transitions, CanTransition, Statuses, Working, Terminal
  <2>2. CASE from \in {"waiting_for_trainer", "escalated", "reopened"}
    BY <2>2 DEF Lifecycle!Transitions, CanTransition, Statuses, Working, Terminal
  <2>3. CASE from \in {"resolved", "closed"}
    BY <2>3 DEF Lifecycle!Transitions, CanTransition, Statuses, Working, Terminal
  <2>4. QED BY <2>1, <2>2, <2>3 DEF Statuses
<1>3. QED BY <1>1, <1>2

\* The card of a row.
LEMMA Carded ==
    ASSUME NEW row \in Row
    PROVE  /\ Card(row).status = row.status /\ Card(row).escalated = row.escalated
           /\ Card(row).assignee = row.assignee /\ Card(row).merged = row.merged
           /\ Card(row).rating = row.rating /\ Card(row).deleted = row.deleted
           /\ row.status \in Statuses /\ row.escalated \in BOOLEAN /\ row.deleted \in BOOLEAN
           /\ row.assignee \in Agents \cup {None} /\ row.merged \in Tickets \cup {None}
           /\ row.rating \in Ratings \cup {None}
  BY DEF Card, Row

\* The card of a row that was marked as deleted, or unmarked.
LEMMA CardMarked ==
    ASSUME NEW row, NEW want, NEW mark, want.deleted = mark, want.status = row.status,
           want.escalated = row.escalated, want.assignee = row.assignee,
           want.merged = row.merged, want.rating = row.rating
    PROVE  Card(want) = [Card(row) EXCEPT !.deleted = mark]
  BY DEF Card

CardColumns == {"status", "escalated", "assignee", "merged", "rating", "deleted"}

\* A card is what its columns are.
LEMMA CardIs ==
    ASSUME NEW row, NEW c, DOMAIN c = CardColumns, c = [f \in DOMAIN c |-> c[f]],
           c.status = row.status, c.escalated = row.escalated, c.assignee = row.assignee,
           c.merged = row.merged, c.rating = row.rating, c.deleted = row.deleted
    PROVE  Card(row) = c
<1>1. c = [status |-> row.status, escalated |-> row.escalated, assignee |-> row.assignee,
           merged |-> row.merged, rating |-> row.rating, deleted |-> row.deleted]
  BY DEF CardColumns
<1>2. QED BY <1>1 DEF Card

\* A card with some of its columns replaced, as the decisions do.
MovedCard(c, to, flag) == [c EXCEPT !.status = to, !.escalated = flag]
HandedCard(c, who, to) == [c EXCEPT !.assignee = who, !.status = to]
EscalatedCard(c, flag, who) ==
    [c EXCEPT !.status = "escalated", !.escalated = flag, !.assignee = who]
MergedCard(c, into) == [c EXCEPT !.merged = into, !.status = "closed"]

\* The card of a row with another status, and the flag it comes with.
LEMMA CardMoved ==
    ASSUME NEW row, NEW want, NEW to, NEW flag,
           want.status = to, want.escalated = flag, want.assignee = row.assignee,
           want.merged = row.merged, want.rating = row.rating, want.deleted = row.deleted
    PROVE  Card(want) = MovedCard(Card(row), to, flag)
<1> PICK c : c = Card(row) OBVIOUS
<1>1. /\ DOMAIN c = CardColumns
      /\ c.status = row.status /\ c.escalated = row.escalated /\ c.assignee = row.assignee
      /\ c.merged = row.merged /\ c.rating = row.rating /\ c.deleted = row.deleted
  BY DEF Card, CardColumns
<1> DEFINE d == [c EXCEPT !.status = to, !.escalated = flag]
<1>2. /\ DOMAIN d = DOMAIN c
      /\ d.status = to /\ d.escalated = flag /\ d.assignee = c.assignee
      /\ d.merged = c.merged /\ d.rating = c.rating /\ d.deleted = c.deleted
  BY <1>1 DEF CardColumns
<1>3. d = [f \in DOMAIN d |-> d[f]] OBVIOUS
<1> HIDE DEF d
<1>4. Card(want) = d BY <1>1, <1>2, <1>3, CardIs
<1>5. QED BY <1>4 DEF d, MovedCard

\* The card of a row with another assignee, and the status it comes with.
LEMMA CardHanded ==
    ASSUME NEW row, NEW want, NEW who, NEW to,
           want.status = to, want.escalated = row.escalated, want.assignee = who,
           want.merged = row.merged, want.rating = row.rating, want.deleted = row.deleted
    PROVE  Card(want) = HandedCard(Card(row), who, to)
<1> PICK c : c = Card(row) OBVIOUS
<1>1. /\ DOMAIN c = CardColumns
      /\ c.status = row.status /\ c.escalated = row.escalated /\ c.assignee = row.assignee
      /\ c.merged = row.merged /\ c.rating = row.rating /\ c.deleted = row.deleted
  BY DEF Card, CardColumns
<1> DEFINE d == [c EXCEPT !.assignee = who, !.status = to]
<1>2. /\ DOMAIN d = DOMAIN c
      /\ d.status = to /\ d.escalated = c.escalated /\ d.assignee = who
      /\ d.merged = c.merged /\ d.rating = c.rating /\ d.deleted = c.deleted
  BY <1>1 DEF CardColumns
<1>3. d = [f \in DOMAIN d |-> d[f]] OBVIOUS
<1> HIDE DEF d
<1>4. Card(want) = d BY <1>1, <1>2, <1>3, CardIs
<1>5. QED BY <1>4 DEF d, HandedCard

\* The card of a row that was escalated.
LEMMA CardEscalated ==
    ASSUME NEW row, NEW want, NEW flag, NEW who,
           want.status = "escalated", want.escalated = flag, want.assignee = who,
           want.merged = row.merged, want.rating = row.rating, want.deleted = row.deleted
    PROVE  Card(want) = EscalatedCard(Card(row), flag, who)
<1> PICK c : c = Card(row) OBVIOUS
<1>1. /\ DOMAIN c = CardColumns
      /\ c.status = row.status /\ c.escalated = row.escalated /\ c.assignee = row.assignee
      /\ c.merged = row.merged /\ c.rating = row.rating /\ c.deleted = row.deleted
  BY DEF Card, CardColumns
<1> DEFINE d == [c EXCEPT !.status = "escalated", !.escalated = flag, !.assignee = who]
<1>2. /\ DOMAIN d = DOMAIN c
      /\ d.status = "escalated" /\ d.escalated = flag /\ d.assignee = who
      /\ d.merged = c.merged /\ d.rating = c.rating /\ d.deleted = c.deleted
  BY <1>1 DEF CardColumns
<1>3. d = [f \in DOMAIN d |-> d[f]] OBVIOUS
<1> HIDE DEF d
<1>4. Card(want) = d BY <1>1, <1>2, <1>3, CardIs
<1>5. QED BY <1>4 DEF d, EscalatedCard

\* The card of a row that was merged.
LEMMA CardMerged ==
    ASSUME NEW row, NEW want, NEW into,
           want.status = "closed", want.escalated = row.escalated, want.assignee = row.assignee,
           want.merged = into, want.rating = row.rating, want.deleted = row.deleted
    PROVE  Card(want) = MergedCard(Card(row), into)
<1> PICK c : c = Card(row) OBVIOUS
<1>1. /\ DOMAIN c = CardColumns
      /\ c.status = row.status /\ c.escalated = row.escalated /\ c.assignee = row.assignee
      /\ c.merged = row.merged /\ c.rating = row.rating /\ c.deleted = row.deleted
  BY DEF Card, CardColumns
<1> DEFINE d == [c EXCEPT !.merged = into, !.status = "closed"]
<1>2. /\ DOMAIN d = DOMAIN c
      /\ d.status = "closed" /\ d.escalated = c.escalated /\ d.assignee = c.assignee
      /\ d.merged = into /\ d.rating = c.rating /\ d.deleted = c.deleted
  BY <1>1 DEF CardColumns
<1>3. d = [f \in DOMAIN d |-> d[f]] OBVIOUS
<1> HIDE DEF d
<1>4. Card(want) = d BY <1>1, <1>2, <1>3, CardIs
<1>5. QED BY <1>4 DEF d, MergedCard

\* A status that moves, with the flag of an escalation.
LEMMA StatusTurns ==
    ASSUME NEW row \in Row, NEW want, ~row.deleted, NEW to \in Statuses,
           CanTransition(row.status, to),
           want.status = to, want.escalated = (row.escalated \/ (to = "escalated" /\ to # row.status)),
           want.assignee = row.assignee, want.merged = row.merged,
           want.rating = row.rating, want.deleted = row.deleted
    PROVE  Turn(Card(row), Card(want))
<1> DEFINE c == Card(row)
<1>1. CASE to = row.status
  <2>1. want.escalated = row.escalated BY <1>1, Carded
  <2>2. Card(want) = c BY <1>1, <2>1 DEF Card
  <2>3. QED BY <2>2 DEF Turn
<1>2. CASE to # row.status
  <2>1. to \in Lifecycle!Transitions[c.status] BY <1>2, Carded, TableOfTransitions
  <2>2. want.escalated = (row.escalated \/ to = "escalated") BY <1>2
  <2>3. Card(want) = [c EXCEPT !.status = to, !.escalated = @ \/ to = "escalated"]
    <3>1. ASSUME NEW flag, want.escalated = flag
          PROVE  Card(want) = MovedCard(c, to, flag)
      <4>1. /\ want.status = to /\ want.assignee = row.assignee /\ want.merged = row.merged
            /\ want.rating = row.rating /\ want.deleted = row.deleted
        OBVIOUS
      <4>2. QED BY <3>1, <4>1, CardMoved
    <3>2. Card(want) = MovedCard(c, to, want.escalated) BY <3>1
    <3>3. want.escalated = (c.escalated \/ to = "escalated") BY <2>2, Carded
    <3>4. QED BY <3>2, <3>3 DEF MovedCard
  <2>4. Decided(c, Card(want)) BY <2>1, <2>3 DEF Decided
  <2>5. ~c.deleted BY Carded
  <2>6. QED BY <2>4, <2>5 DEF Turn
<1>3. QED BY <1>1, <1>2

\* A reply.
LEMMA ReplyTurns ==
    ASSUME TypeOK, NEW r \in Requests, NEW t \in Tickets, NEW who, Reply(r, who, t)
    PROVE  LoadsTurn(r)
<1> DEFINE row == ticket[t]
           status == StatusAfterReply(row.status, who # "student")
           first == IF who # "student" /\ row.first = None THEN now ELSE row.first
           want == [row EXCEPT !.status = status, !.first = first]
<1>1. /\ Born(t) /\ ~row.deleted /\ row.status # "closed"
      /\ Load(r, "reply", "write", t, want, {})
  BY DEF Reply, Sees, Found
<1>2. row \in Row /\ now \in Stamp /\ row.status \in Statuses BY <1>1, SeenRow
<1>3. /\ status \in Statuses /\ first \in Stamp /\ CanTransition(row.status, status)
      /\ ~(status = "escalated" /\ status # row.status)
  BY <1>1, <1>2 DEF StatusAfterReply, Statuses, CanTransition, Terminal, Working, Row
<1> HIDE DEF status, first
<1>4. /\ want \in Row /\ want.status = status /\ want.escalated = row.escalated
      /\ want.assignee = row.assignee /\ want.merged = row.merged
      /\ want.rating = row.rating /\ want.deleted = row.deleted
  BY <1>2, <1>3 DEF Row
<1>5. want.escalated = (row.escalated \/ (status = "escalated" /\ status # row.status))
  BY <1>2, <1>3, <1>4, Carded
<1> HIDE DEF want
<1>6. Turn(Card(row), Card(want)) BY <1>1, <1>2, <1>3, <1>4, <1>5, StatusTurns
<1>7. QED BY <1>1, <1>2, <1>4, <1>6 DEF LoadsTurn, AllOps

\* A note and an upload leave the card alone; a deletion and a restore mark
\* it; a feedback rates a finished ticket that was not rated.
LEMMA QuietTurns ==
    ASSUME DeskInv, NEW r \in Requests, NEW t \in Tickets, NEW who,
           \/ Note(r, t) \/ Upload(r, who, t) \/ Delete(r, t) \/ Restore(r, t)
           \/ \E rating \in Ratings : Feedback(r, t, rating)
    PROVE  LoadsTurn(r)
<1> DEFINE row == ticket[t]
           c == Card(row)
<1>1. Born(t) BY DEF Note, Upload, Delete, Restore, Feedback, Sees, Found
<1>2. row \in Row BY <1>1, SeenRow DEF DeskInv
<1>3. ASSUME NEW op \in AllOps \ {"merge", "unfile"}, NEW want \in Row,
             NEW stamped \in SUBSET {"resolved", "closed", "deleted"}, Turn(c, Card(want)),
             Load(r, op, "write", t, want, stamped)
      PROVE  LoadsTurn(r)
  BY <1>1, <1>2, <1>3 DEF LoadsTurn
<1>4. CASE Note(r, t) \/ Upload(r, who, t)
  <2>1. Turn(c, c) BY DEF Turn
  <2>2. QED BY <1>2, <1>3, <1>4, <2>1 DEF Note, Upload, AllOps
<1>5. CASE Delete(r, t)
  <2> DEFINE want == [row EXCEPT !.deleted = TRUE]
  <2>1. want \in Row /\ Card(want) = [c EXCEPT !.deleted = TRUE]
    <3>1. /\ want \in Row /\ want.deleted = TRUE /\ want.status = row.status
          /\ want.escalated = row.escalated /\ want.assignee = row.assignee
          /\ want.merged = row.merged /\ want.rating = row.rating
      BY <1>2 DEF Row
    <3> HIDE DEF want
    <3>2. QED BY <3>1, CardMarked
  <2>2. ~c.deleted BY <1>2, <1>5, Carded DEF Delete, Found
  <2>3. Turn(c, Card(want)) BY <2>1, <2>2 DEF Turn, Decided
  <2>4. QED BY <1>3, <1>5, <2>1, <2>3 DEF Delete, AllOps
<1>6. CASE Restore(r, t)
  <2> DEFINE want == [row EXCEPT !.deleted = FALSE]
  <2>1. want \in Row /\ Card(want) = [c EXCEPT !.deleted = FALSE]
    <3>1. /\ want \in Row /\ want.deleted = FALSE /\ want.status = row.status
          /\ want.escalated = row.escalated /\ want.assignee = row.assignee
          /\ want.merged = row.merged /\ want.rating = row.rating
      BY <1>2 DEF Row
    <3> HIDE DEF want
    <3>2. QED BY <3>1, CardMarked
  <2>2. CASE row.deleted
    <3>1. c.deleted BY <1>2, <2>2, Carded
    <3>2. Turn(c, Card(want)) BY <2>1, <3>1 DEF Turn
    <3>3. QED BY <1>3, <1>6, <2>1, <3>2 DEF Restore, AllOps
  <2>3. CASE ~row.deleted
    <3>1. row.deleted = FALSE BY <1>2, <2>3, Carded
    <3>2. Card(want) = c BY <2>1, <3>1 DEF Card
    <3>3. Turn(c, Card(want)) BY <3>2 DEF Turn
    <3>4. QED BY <1>3, <1>6, <2>1, <3>3 DEF Restore, AllOps
  <2>4. QED BY <2>2, <2>3
<1>7. ASSUME NEW rating \in Ratings, Feedback(r, t, rating) PROVE LoadsTurn(r)
  <2> DEFINE want == [row EXCEPT !.rating = rating]
  <2>1. want \in Row /\ Card(want) = [c EXCEPT !.rating = rating] BY <1>2 DEF Row, Card
  <2>2. /\ ~row.deleted /\ row.status \in Terminal /\ survey[t] = None
        /\ Load(r, "feedback", "write", t, want, {})
    BY <1>7 DEF Feedback, Sees, Found
  <2>3. row.rating = None BY <1>1, <2>2 DEF DeskInv, RatingMirrorsFeedback
  <2>4. ~c.deleted /\ c.status \in Terminal /\ c.rating = None BY <1>2, <2>2, <2>3, Carded
  <2>5. Turn(c, Card(want)) BY <2>1, <2>4 DEF Turn, Decided
  <2>6. QED BY <1>3, <2>1, <2>2, <2>5 DEF AllOps
<1>8. QED BY <1>4, <1>5, <1>6, <1>7

\* An assignment of a ticket that is not deleted.
LEMMA AssignedTurn ==
    ASSUME NEW row \in Row, ~row.deleted, NEW who \in Agents \cup {None}, who # row.assignee
    PROVE  Turn(Card(row), Card(Assigned(row, who)))
<1> DEFINE c == Card(row)
           want == Assigned(row, who)
           status == IF who # None /\ row.status = "open" THEN "in_progress" ELSE row.status
<1>1. /\ want.status = status /\ want.escalated = row.escalated /\ want.assignee = who
      /\ want.merged = row.merged /\ want.rating = row.rating /\ want.deleted = row.deleted
  BY DEF Assigned, Row
<1>2. ~c.deleted /\ c.assignee = row.assignee /\ c.status = row.status BY Carded
<1> HIDE DEF want, status
<1>3. Card(want) = HandedCard(c, who, status) BY <1>1, CardHanded
<1>4. HandedCard(c, who, status)
        = [c EXCEPT !.assignee = who,
                    !.status = IF who # None /\ @ = "open" THEN "in_progress" ELSE @]
  BY <1>2 DEF status, HandedCard
<1>5. Decided(c, Card(want)) BY <1>2, <1>3, <1>4 DEF Decided
<1>6. QED BY <1>2, <1>5 DEF Turn, want

\* An assignment.
LEMMA AssignTurns ==
    ASSUME TypeOK, NEW r \in Requests, NEW t \in Tickets, NEW to \in Agents \cup {None},
           Assign(r, t, to)
    PROVE  LoadsTurn(r)
<1> DEFINE row == ticket[t]
<1>1. /\ Born(t) /\ ~row.deleted /\ to # row.assignee
      /\ Load(r, "assign", "write", t, Assigned(row, to), {})
  BY DEF Assign, Sees, Found
<1>2. row \in Row BY <1>1, SeenRow
<1>3. Assigned(row, to) \in Row BY <1>2, AssignedSound
<1>4. Turn(Card(row), Card(Assigned(row, to))) BY <1>1, <1>2, AssignedTurn
<1>5. QED BY <1>1, <1>2, <1>3, <1>4 DEF LoadsTurn, AllOps

\* A status change.
LEMMA ChangeStatusTurns ==
    ASSUME TypeOK, NEW r \in Requests, NEW t \in Tickets, NEW who, NEW to \in Statuses,
           ChangeStatus(r, who, t, to)
    PROVE  LoadsTurn(r)
<1> DEFINE row == ticket[t]
           resolved == IF to = "resolved" THEN now ELSE row.resolved
           flag == row.escalated \/ to = "escalated"
           want == Moved(row, to)
           stamped == IF to = "resolved" THEN {"resolved"} ELSE {}
<1>1. /\ Born(t) /\ ~row.deleted /\ to # row.status /\ CanTransition(row.status, to)
      /\ Load(r, "status", "write", t, want, stamped)
      /\ stamped \in SUBSET {"resolved", "closed", "deleted"}
  BY DEF ChangeStatus, Sees, Found
<1>2. row \in Row /\ resolved \in Stamp /\ flag \in BOOLEAN
  BY <1>1, SeenRow DEF Row, Stamp
<1>3. want = [row EXCEPT !.status = to, !.resolved = resolved, !.escalated = flag]
  BY DEF Moved
<1> HIDE DEF flag, resolved, stamped, want
<1>4. /\ want \in Row /\ want.status = to /\ want.escalated = flag
      /\ want.assignee = row.assignee /\ want.merged = row.merged
      /\ want.rating = row.rating /\ want.deleted = row.deleted
  BY <1>2, <1>3 DEF Row
<1>5. want.escalated = (row.escalated \/ (to = "escalated" /\ to # row.status))
  BY <1>1, <1>4 DEF flag
<1>6. Turn(Card(row), Card(want)) BY <1>1, <1>2, <1>4, <1>5, StatusTurns
<1>7. QED BY <1>1, <1>2, <1>4, <1>6 DEF LoadsTurn, AllOps

\* An escalation: of a ticket that does not stand as escalated, since it has no flag.
LEMMA EscalateTurns ==
    ASSUME DeskInv, NEW r \in Requests, NEW t \in Tickets, NEW who,
           NEW to \in Agents \cup {None}, Escalate(r, who, t, to)
    PROVE  LoadsTurn(r)
<1> DEFINE row == ticket[t]
           c == Card(row)
           agent == IF to = None THEN row.assignee ELSE to
           want == [row EXCEPT !.escalated = TRUE, !.status = "escalated", !.assignee = agent]
<1>1. /\ Born(t) /\ ~row.deleted /\ row.status \notin Terminal /\ ~row.escalated
      /\ Load(r, "escalate", "write", t, want, {})
  BY DEF Escalate, Sees, Found
<1>2. row \in Row /\ row.status \in Statuses /\ agent \in Agents \cup {None}
  BY <1>1, SeenRow DEF Row, DeskInv
<1>3. row.status # "escalated" BY <1>1 DEF DeskInv, EscalatedIsFlagged
<1>4. CanTransition(row.status, "escalated") /\ "escalated" \in Statuses
  BY <1>1, <1>2 DEF CanTransition, Terminal, Working, Statuses
<1>5. "escalated" \in Lifecycle!Transitions[c.status] /\ ~c.escalated /\ ~c.deleted
  BY <1>1, <1>2, <1>3, <1>4, TableOfTransitions, Carded
<1> HIDE DEF agent
<1>6. /\ want \in Row /\ want.status = "escalated" /\ want.escalated = TRUE
      /\ want.assignee = agent /\ want.merged = row.merged
      /\ want.rating = row.rating /\ want.deleted = row.deleted
  BY <1>2, <1>4 DEF Row
<1> HIDE DEF want
<1>7. Card(want) = [c EXCEPT !.status = "escalated", !.escalated = TRUE, !.assignee = agent]
  <2>1. ASSUME NEW flag, want.escalated = flag
        PROVE  Card(want) = EscalatedCard(c, flag, agent)
    <3>1. /\ want.status = "escalated" /\ want.assignee = agent /\ want.merged = row.merged
          /\ want.rating = row.rating /\ want.deleted = row.deleted
      BY <1>6
    <3>2. QED BY <2>1, <3>1, CardEscalated
  <2>2. Card(want) = EscalatedCard(c, want.escalated, agent) BY <2>1
  <2>3. QED BY <1>6, <2>2 DEF EscalatedCard
<1>8. Turn(c, Card(want)) BY <1>2, <1>5, <1>7 DEF Turn, Decided
<1>9. QED BY <1>1, <1>2, <1>6, <1>8 DEF LoadsTurn, AllOps, want

\* A close or a reopen.
LEMMA CloseTurns ==
    ASSUME TypeOK, NEW r \in Requests, NEW t \in Tickets, NEW who, Close(r, who, t)
    PROVE  LoadsTurn(r)
<1> DEFINE row == ticket[t]
           resolved == IF row.resolved = None THEN now ELSE row.resolved
           want == Closed(row)
<1>1. Born(t) /\ ~row.deleted /\ Load(r, "close", "write", t, want, {"closed"})
  BY DEF Close, Sees, Found
<1>2. row \in Row /\ now \in Stamp /\ row.status \in Statuses /\ resolved \in Stamp
  BY <1>1, SeenRow DEF Row
<1>3. want = [row EXCEPT !.status = "closed", !.closed = now, !.resolved = resolved]
  BY DEF Closed
<1>4. CanTransition(row.status, "closed") /\ "closed" \in Statuses
  BY <1>2 DEF CanTransition, Terminal, Statuses
<1> HIDE DEF want, resolved
<1>5. /\ want \in Row /\ want.status = "closed" /\ want.escalated = row.escalated
      /\ want.assignee = row.assignee /\ want.merged = row.merged
      /\ want.rating = row.rating /\ want.deleted = row.deleted
  BY <1>2, <1>3, <1>4 DEF Row
<1>6. want.escalated = (row.escalated \/ ("closed" = "escalated" /\ "closed" # row.status))
  BY <1>2, <1>5, Carded
<1>7. Turn(Card(row), Card(want)) BY <1>1, <1>2, <1>4, <1>5, <1>6, StatusTurns
<1>8. QED BY <1>1, <1>2, <1>5, <1>7 DEF LoadsTurn, AllOps

\* A reopen.
LEMMA ReopenTurns ==
    ASSUME TypeOK, NEW r \in Requests, NEW t \in Tickets, NEW who, Reopen(r, who, t)
    PROVE  LoadsTurn(r)
<1> DEFINE row == ticket[t]
           want == [row EXCEPT !.status = "reopened", !.closed = None, !.resolved = None]
<1>1. /\ Born(t) /\ ~row.deleted /\ row.status \in Terminal
      /\ Load(r, "reopen", "write", t, want, {})
  BY DEF Reopen, Sees, Found
<1>2. row \in Row BY <1>1, SeenRow
<1>3. CanTransition(row.status, "reopened") /\ "reopened" \in Statuses
  BY <1>1 DEF CanTransition, Terminal, Statuses
<1>4. /\ want \in Row /\ want.status = "reopened" /\ want.escalated = row.escalated
      /\ want.assignee = row.assignee /\ want.merged = row.merged
      /\ want.rating = row.rating /\ want.deleted = row.deleted
  BY <1>2, <1>3 DEF Row, Stamp
<1> HIDE DEF want
<1>5. want.escalated = (row.escalated \/ ("reopened" = "escalated" /\ "reopened" # row.status))
  BY <1>2, <1>4, Carded
<1>6. Turn(Card(row), Card(want)) BY <1>1, <1>2, <1>3, <1>4, <1>5, StatusTurns
<1>7. QED BY <1>1, <1>2, <1>4, <1>6 DEF LoadsTurn, AllOps, want

\* What the one handler will make of the card of the ticket it loaded: one
\* decision, or a merge into a ticket that is still there.
TurnOK(q) ==
    /\ q.pc = "write" /\ q.op # "merge" => Turn(Card(q.row), Card(q.want))
    /\ q.op = "merge" => ~q.row.deleted /\ ~ticket[q.into].deleted
    /\ q.op = "merge" /\ q.pc = "write" => Card(q.want) = MergedCard(Card(q.row), q.into)

TurnsInv == \A r \in Requests : TurnOK(req[r])

\* A step of the one handler that leaves the tickets alone.
LEMMA KeepTurns ==
    ASSUME DeskInv, OneHandler, NEW r \in Requests, NEW q,
           req' = [req EXCEPT ![r] = q], UNCHANGED ticket, TurnOK(q)
    PROVE  TurnsInv'
<1>1. req'[r] = q BY DEF DeskInv, TypeOK
<1>2. TurnOK(req[r])' BY <1>1 DEF TurnOK
<1>3. QED BY <1>2 DEF TurnsInv, OneHandler

\* A handler that is over decides nothing more.
LEMMA EndTurns ==
    ASSUME DeskInv, OneHandler, NEW r \in Requests, Finish(r)
    PROVE  TurnsInv'
<1>1. req'[r] = Idle BY DEF DeskInv, TypeOK, Finish
<1>2. TurnOK(req[r])' BY <1>1 DEF TurnOK, Idle
<1>3. QED BY <1>2 DEF TurnsInv, OneHandler

\* A call that loads a ticket and will take one decision on it.
LEMMA LoadKeepsTurns ==
    ASSUME DeskInv, OneHandler, NEW r \in Requests, LoadsTurn(r)
    PROVE  TurnsInv'
<1>1. PICK op \in AllOps \ {"merge", "unfile"}, t \in Tickets, want \in Row,
           stamped \in SUBSET {"resolved", "closed", "deleted"} :
        /\ Born(t) /\ ticket[t] \in Row
        /\ Load(r, op, "write", t, want, stamped)
        /\ Turn(Card(ticket[t]), Card(want))
  BY DEF LoadsTurn
<1> DEFINE row == ticket[t]
           cols == Changed(row, want) \cup stamped
           since == IF op = "reopen" THEN now ELSE 0
           q == [Idle EXCEPT !.op = op, !.pc = "write", !.tkt = t, !.row = row,
                             !.want = want, !.cols = cols, !.since = since]
<1>2. req' = [req EXCEPT ![r] = q] /\ UNCHANGED ticket BY <1>1 DEF Load
<1>3. q.op = op /\ q.pc = "write" /\ q.row = row /\ q.want = want BY DEF Idle
<1> HIDE DEF q
<1>4. TurnOK(q) BY <1>1, <1>3 DEF TurnOK
<1>5. QED BY <1>2, <1>4, KeepTurns

\* Every call: it reserves a number, starts a merge or the removal of a file,
\* or will take one decision on the ticket it loads.
LEMMA ArriveKeepsTurns ==
    ASSUME DeskInv, OneHandler, NEW r \in Requests, Arrive(r)
    PROVE  TurnsInv'
<1>1. TypeOK BY DEF DeskInv
<1>2. ASSUME NEW t \in Tickets, NEW who \in Actors,
             Reply(r, who, t) \/ Close(r, who, t) \/ Reopen(r, who, t) \/ Upload(r, who, t)
      PROVE  LoadsTurn(r)
  BY <1>1, <1>2, ReplyTurns, CloseTurns, ReopenTurns, QuietTurns
<1>3. ASSUME NEW t \in Tickets,
             \/ Note(r, t) \/ Delete(r, t) \/ Restore(r, t)
             \/ \E rating \in Ratings : Feedback(r, t, rating)
      PROVE  LoadsTurn(r)
  BY <1>3, QuietTurns
<1>4. ASSUME NEW t \in Tickets, NEW to \in Agents \cup {None}, Assign(r, t, to)
      PROVE  LoadsTurn(r)
  BY <1>1, <1>4, AssignTurns
<1>5. ASSUME NEW t \in Tickets, NEW who \in Staff, NEW to \in Statuses,
             ChangeStatus(r, who, t, to)
      PROVE  LoadsTurn(r)
  BY <1>1, <1>5, ChangeStatusTurns
<1>6. ASSUME NEW t \in Tickets, NEW who \in Staff, NEW to \in Agents \cup {None},
             Escalate(r, who, t, to)
      PROVE  LoadsTurn(r)
  BY <1>6, EscalateTurns
<1>7. ASSUME NEW op \in {"create", "raise"}, Number(r, op) PROVE TurnsInv'
  <2>1. PICK n : /\ req' = [req EXCEPT ![r] = [Idle EXCEPT !.op = op, !.pc = "insert", !.no = n]]
                 /\ UNCHANGED ticket
    BY <1>7 DEF Number
  <2> DEFINE q == [Idle EXCEPT !.op = op, !.pc = "insert", !.no = n]
  <2>2. TurnOK(q) BY DEF Idle, TurnOK
  <2> HIDE DEF q
  <2>3. req' = [req EXCEPT ![r] = q] BY <2>1 DEF q
  <2>4. QED BY <2>1, <2>2, <2>3, KeepTurns
<1>8. ASSUME NEW f \in Files, Unfile(r, f) PROVE TurnsInv'
  <2> DEFINE row == ticket[file[f]]
             q == [Idle EXCEPT !.op = "unfile", !.pc = "write", !.tkt = file[f], !.file = f,
                               !.row = row, !.want = row]
  <2>1. req' = [req EXCEPT ![r] = q] /\ UNCHANGED ticket BY <1>8 DEF Unfile
  <2>2. q.op = "unfile" /\ q.row = row /\ q.want = row BY DEF Idle
  <2> HIDE DEF q
  <2>3. TurnOK(q) BY <2>2 DEF TurnOK, Turn
  <2>4. QED BY <2>1, <2>3, KeepTurns
<1>9. ASSUME NEW s \in Tickets, NEW t \in Tickets, Merge(r, s, t) PROVE TurnsInv'
  <2> DEFINE q == [Idle EXCEPT !.op = "merge", !.pc = "messages", !.tkt = s, !.into = t,
                               !.row = ticket[s]]
  <2>1. /\ req' = [req EXCEPT ![r] = q] /\ UNCHANGED ticket
        /\ ~ticket[s].deleted /\ ~ticket[t].deleted
    BY <1>9 DEF Merge, Found
  <2>2. q.op = "merge" /\ q.pc = "messages" /\ q.row = ticket[s] /\ q.into = t BY DEF Idle
  <2> HIDE DEF q
  <2>3. TurnOK(q) BY <2>1, <2>2 DEF TurnOK
  <2>4. QED BY <2>1, <2>3, KeepTurns
<1>10. QED BY <1>2, <1>3, <1>4, <1>5, <1>6, <1>7, <1>8, <1>9, LoadKeepsTurns DEF Arrive

\* Handing over what was raised, once the row has been read again or not.
LEMMA RaiseKeepsTurns ==
    ASSUME DeskInv, AloneInv, TurnsInv, OneHandler, NEW r \in Requests,
           Reprioritise(r) \/ AssignRaised(r)
    PROVE  TurnsInv'
<1>1. req[r].pc = "assign" BY DEF Reprioritise, AssignRaised, At
<1>2. /\ req[r] \in Request /\ req[r].row \in Row /\ req[r].tkt \in Tickets
      /\ Born(req[r].tkt)
  BY <1>1, InHand
<1>3. HandsOK(req[r]) /\ req[r].op = "raise" BY <1>1 DEF AloneInv, HandsInv, DeskInv, InFlight
<1>4. req[r].row = ticket[req[r].tkt] BY <1>1, <1>3 DEF HandsOK
<1>5. CASE Reprioritise(r)
  <2> DEFINE q == [req[r] EXCEPT !.row = ticket[req[r].tkt]]
  <2>1. req' = [req EXCEPT ![r] = q] /\ UNCHANGED ticket BY <1>5 DEF Reprioritise
  <2>2. q = req[r] BY <1>2, <1>4 DEF Request
  <2>3. TurnOK(q) BY <2>2 DEF TurnsInv
  <2>4. QED BY <2>1, <2>3, KeepTurns
<1>6. CASE AssignRaised(r)
  <2> DEFINE row == req[r].row
  <2>1. PICK a \in Agents \ {row.assignee} :
          /\ req' = [req EXCEPT ![r].pc = "write", ![r].want = Assigned(row, a),
                                ![r].cols = Changed(row, Assigned(row, a))]
          /\ UNCHANGED ticket
    BY <1>6 DEF AssignRaised
  <2>2. ~row.deleted BY <1>4, <1>6 DEF AssignRaised, Found
  <2> DEFINE want == Assigned(row, a)
             cols == Changed(row, want)
             q == [req[r] EXCEPT !.pc = "write", !.want = want, !.cols = cols]
  <2>3. req' = [req EXCEPT ![r] = q] BY <2>1
  <2>4. Turn(Card(row), Card(want)) BY <1>2, <2>1, <2>2, AssignedTurn
  <2>5. q.op = "raise" /\ q.row = row /\ q.want = want BY <1>2, <1>3 DEF Request
  <2> HIDE DEF q, want
  <2>6. TurnOK(q) BY <2>4, <2>5 DEF TurnOK
  <2>7. QED BY <2>1, <2>3, <2>6, KeepTurns
<1>7. QED BY <1>5, <1>6

\* A merge that reads on.
LEMMA MergeKeepsTurns ==
    ASSUME DeskInv, TurnsInv, OneHandler, NEW r \in Requests,
           MergeMessages(r) \/ MergeFiles(r)
    PROVE  TurnsInv'
<1>1. req[r] \in Request /\ TurnOK(req[r]) BY DEF DeskInv, TypeOK, TurnsInv
<1>2. CASE MergeMessages(r)
  <2> DEFINE q == [req[r] EXCEPT !.pc = "files", !.moved = OnTicket(req[r].tkt)]
  <2>1. req' = [req EXCEPT ![r] = q] /\ UNCHANGED ticket BY <1>2 DEF MergeMessages
  <2>2. q.pc = "files" /\ q.op = req[r].op /\ q.into = req[r].into /\ q.row = req[r].row
    BY <1>1 DEF Request
  <2> HIDE DEF q
  <2>3. TurnOK(q) BY <1>1, <2>2 DEF TurnOK
  <2>4. QED BY <2>1, <2>3, KeepTurns
<1>3. CASE MergeFiles(r)
  <2> DEFINE row == req[r].row
             t == req[r].into
             want == MergedInto(row, t)
             cols == Changed(row, want)
             taken == FilesOf(req[r].tkt)
             q == [req[r] EXCEPT !.pc = "write", !.taken = taken, !.want = want,
                                 !.cols = cols]
  <2>1. req' = [req EXCEPT ![r] = q] /\ UNCHANGED ticket /\ req[r].pc = "files"
    BY <1>3 DEF MergeFiles, At
  <2>2. /\ row \in Row /\ req[r].op = "merge" /\ now \in Stamp /\ t \in Tickets
    BY <2>1, InHand DEF DeskInv, TypeOK, InFlight, Stamp
  <2>3. /\ want.merged = t /\ want.status = "closed" /\ want.assignee = row.assignee
        /\ want.escalated = row.escalated /\ want.rating = row.rating
    BY <2>2, MergedRow
  <2>4. want.deleted = row.deleted BY <2>2 DEF MergedInto, Row
  <2>5. /\ q.op = "merge" /\ q.pc = "write" /\ q.into = t /\ q.row = row /\ q.want = want
    BY <1>1, <2>2 DEF Request
  <2> HIDE DEF q, want
  <2>6. Card(want) = MergedCard(Card(row), t) BY <2>3, <2>4, CardMerged
  <2>7. TurnOK(q) BY <1>1, <2>2, <2>5, <2>6 DEF TurnOK
  <2>8. QED BY <2>1, <2>7, KeepTurns
<1>4. QED BY <1>2, <1>3

\* A ticket that was raised is not decided on before it is loaded.
LEMMA InsertKeepsTurns ==
    ASSUME DeskInv, OneHandler, NEW r \in Requests, Insert(r)
    PROVE  TurnsInv'
<1>1. req[r] \in Request /\ req[r].op \in {"create", "raise"}
  BY DEF Insert, At, DeskInv, TypeOK, InFlight
<1>2. PICK t \in Tickets :
        req' = [req EXCEPT ![r] = IF @.op = "create" THEN Idle ELSE
                  [@ EXCEPT !.pc = "assign", !.tkt = t, !.row = Raised(req[r].no)]]
  BY DEF Insert
<1>3. CASE req[r].op = "create"
  <2>1. Finish(r) BY <1>2, <1>3 DEF Finish
  <2>2. QED BY <2>1, EndTurns
<1>4. CASE req[r].op # "create"
  <2>1. req'[r].op = "raise" /\ req'[r].pc = "assign"
    <3>1. req'[r] = [req[r] EXCEPT !.pc = "assign", !.tkt = t, !.row = Raised(req[r].no)]
      BY <1>2, <1>4 DEF DeskInv, TypeOK
    <3>2. QED BY <1>1, <1>4, <3>1 DEF Request
  <2>2. TurnOK(req[r])' BY <2>1 DEF TurnOK
  <2>3. QED BY <2>2 DEF TurnsInv, OneHandler
<1>5. QED BY <1>3, <1>4

\* Every step of the one handler keeps what it will decide.
LEMMA NextTurns ==
    ASSUME DeskInv, AloneInv, TurnsInv, OneHandler, [Next]_vars
    PROVE  TurnsInv'
<1>1. CASE UNCHANGED vars \/ Tick BY <1>1 DEF vars, Tick, TurnsInv, TurnOK
<1>2. ASSUME NEW r \in Requests, Call(r) PROVE TurnsInv'
  BY <1>2, ArriveKeepsTurns DEF Call
<1>3. ASSUME NEW r \in Requests, Handle(r) \/ Crash(r) PROVE TurnsInv'
  <2>1. CASE \/ AssignNothing(r) \/ Write(r) \/ WriteFeedback(r) \/ WriteFile(r)
             \/ Refused(r) \/ WriteMerge(r) \/ Crash(r)
    BY <2>1, EndTurns
       DEF AssignNothing, Write, WriteFeedback, WriteFile, Refused, WriteMerge, Crash
  <2>2. QED BY <1>3, <2>1, InsertKeepsTurns, RaiseKeepsTurns, MergeKeepsTurns DEF Handle
<1>4. QED BY <1>1, <1>2, <1>3 DEF Next

\* What the one handler will decide, together with what it knows.
LEMMA TurnsInvariant ==
    ASSUME OneHandler, IsFiniteSet(Tickets)
    PROVE  Spec => [](DeskInv /\ AloneInv /\ TurnsInv)
<1>1. Init => TurnsInv BY DEF Init, Idle, TurnsInv, TurnOK
<1>2. DeskInv /\ AloneInv /\ TurnsInv /\ [Next]_vars => TurnsInv' BY NextTurns
<1>3. QED BY <1>1, <1>2, AloneInvariant, PTL DEF Spec

\* The cards after a step.
LEMMA CardsNext ==
    Cards' = [t \in Tickets |-> IF ticket'[t] # Absent THEN Card(ticket'[t]) ELSE Unraised]
  BY DEF Cards, Card, Born, Unraised

\* The card of a ticket that exists, of one that does not, and nothing else.
LEMMA CardsNow ==
    /\ DOMAIN Cards = Tickets /\ Cards = [t \in Tickets |-> Cards[t]]
    /\ \A t \in Tickets : Cards[t] = IF Born(t) THEN Card(ticket[t]) ELSE Unraised
  BY DEF Cards

\* A decision on a card that is at hand is a step of the lifecycle, unless it
\* leaves the card as it is.
LEMMA TurnSteps ==
    ASSUME NEW t \in Tickets, Cards[t].status \in Statuses, NEW d, Turn(Cards[t], d),
           Cards' = [Cards EXCEPT ![t] = d]
    PROVE  [Lifecycle!Next]_Cards
<1> DEFINE c == Cards[t]
<1>1. CASE d = c
  <2>1. [Cards EXCEPT ![t] = c] = Cards BY CardsNow
  <2>2. QED BY <1>1, <2>1
<1>2. CASE d # c
  <2>1. Cards'[t] # Cards[t] BY <1>2, CardsNow
  <2>2. c.status # "unraised" BY DEF Statuses
  <2>3. CASE ~c.deleted /\ Decided(c, d)
    <3>1. Lifecycle!AtHand(t) BY <2>2, <2>3 DEF Lifecycle!AtHand
    <3>2. Lifecycle!Becomes(t, d) BY DEF Lifecycle!Becomes
    <3>3. ASSUME NEW to \in Lifecycle!Transitions[c.status],
                 d = [c EXCEPT !.status = to, !.escalated = @ \/ to = "escalated"]
          PROVE  Lifecycle!Step(t)
      <4>1. Lifecycle!Move(t, to)
        BY <3>1, <3>2, <3>3 DEF Lifecycle!Move, Lifecycle!MayBecome
      <4>2. to \in DOMAIN Lifecycle!Transitions
        BY <3>3, TableOfTransitions DEF Lifecycle!Transitions, Statuses
      <4>3. QED BY <4>1, <4>2 DEF Lifecycle!Step
    <3>4. ASSUME NEW who \in Agents \cup {None}, who # c.assignee,
                 d = [c EXCEPT !.assignee = who,
                               !.status = IF who # None /\ @ = "open" THEN "in_progress" ELSE @]
          PROVE  Lifecycle!Step(t)
      <4>1. Lifecycle!Hand(t, who) BY <3>1, <3>2, <3>4 DEF Lifecycle!Hand
      <4>2. QED BY <4>1 DEF Lifecycle!Step
    <3>5. ASSUME "escalated" \in Lifecycle!Transitions[c.status], ~c.escalated,
                 NEW who \in Agents \cup {None},
                 d = [c EXCEPT !.status = "escalated", !.escalated = TRUE, !.assignee = who]
          PROVE  Lifecycle!Step(t)
      <4>1. Lifecycle!Escalate(t, who)
        BY <3>1, <3>2, <3>5 DEF Lifecycle!Escalate, Lifecycle!MayBecome
      <4>2. QED BY <4>1 DEF Lifecycle!Step
    <3>6. ASSUME c.status \in Terminal, c.rating = None, NEW rating \in Ratings,
                 d = [c EXCEPT !.rating = rating]
          PROVE  Lifecycle!Step(t)
      <4>1. Lifecycle!Rate(t, rating)
        BY <3>1, <3>2, <3>6 DEF Lifecycle!Rate, Terminal
      <4>2. QED BY <4>1 DEF Lifecycle!Step
    <3>7. ASSUME d = [c EXCEPT !.deleted = TRUE] PROVE Lifecycle!Step(t)
      BY <3>1, <3>2, <3>7 DEF Lifecycle!Delete, Lifecycle!Step
    <3>8. Lifecycle!Step(t) BY <2>3, <3>3, <3>4, <3>5, <3>6, <3>7 DEF Decided
    <3>9. QED BY <2>1, <3>8 DEF Lifecycle!Next
  <2>4. CASE c.deleted /\ d = [c EXCEPT !.deleted = FALSE]
    <3>1. Lifecycle!Restore(t) BY <2>4 DEF Lifecycle!Restore, Lifecycle!Becomes
    <3>2. QED BY <2>1, <3>1 DEF Lifecycle!Next, Lifecycle!Step
  <2>5. QED BY <1>2, <2>3, <2>4 DEF Turn
<1>3. QED BY <1>1, <1>2

\* The counters, the number and the dates are no part of the card.
LEMMA SameCard ==
    ASSUME NEW row, NEW want, row.status = want.status, row.escalated = want.escalated,
           row.assignee = want.assignee, row.merged = want.merged,
           row.rating = want.rating, row.deleted = want.deleted
    PROVE  Card(row) = Card(want)
  BY DEF Card

\* A handler that writes its ticket takes the decision it made.
LEMMA WriteSteps ==
    ASSUME DeskInv, AloneInv, TurnsInv, OneHandler, NEW r \in Requests,
           Write(r) \/ WriteFeedback(r) \/ WriteFile(r)
    PROVE  [Lifecycle!Next]_Cards
<1> DEFINE q == req[r]
           t == q.tkt
           new == Counted(q, ticket[t])
<1>1. /\ At(r, "write") /\ q.op # "merge" /\ Finish(r) /\ ticket' = [ticket EXCEPT ![t] = new]
  BY DEF Write, WriteFeedback, WriteFile
<1>2. /\ q.pc = "write" /\ HandsOK(q) /\ t \in Tickets /\ Born(t) /\ ticket[t] \in Row
      /\ q.row = ticket[t]
      /\ \A x \in Tickets : Born(x)' <=> Born(x)
      /\ \A x \in Tickets \ {t} : ticket'[x] = ticket[x]
  BY <1>1, WrittenAlone DEF At
<1>3. q.want \in Row /\ new \in Row /\ new # Absent BY <1>1, NewRow
<1>4. Changed(q.row, q.want) \subseteq q.cols BY <1>2 DEF HandsOK
<1>5. Written(q, ticket[t]) = q.want BY <1>2, <1>3, <1>4, WrittenWhole
<1>6. Card(new) = Card(q.want)
  <2>1. new \in {q.want, [q.want EXCEPT !.replies = q.want.replies + 1],
                 [q.want EXCEPT !.files = q.want.files + 1],
                 [q.want EXCEPT !.files = q.want.files - 1]}
    BY <1>5 DEF Counted
  <2> HIDE DEF new, q
  <2>2. /\ new.status = q.want.status /\ new.escalated = q.want.escalated
        /\ new.assignee = q.want.assignee /\ new.merged = q.want.merged
        /\ new.rating = q.want.rating /\ new.deleted = q.want.deleted
    BY <1>3, <2>1 DEF Row
  <2>3. QED BY <2>2, SameCard
<1>7. ticket'[t] = new BY <1>1, <1>2 DEF DeskInv, TypeOK
<1>8. Turn(Card(ticket[t]), Card(q.want)) BY <1>1, <1>2 DEF TurnsInv, TurnOK
<1> HIDE DEF new, q, t
<1>9. Cards' = [Cards EXCEPT ![t] = Card(q.want)]
  <2>1. ASSUME NEW x \in Tickets
        PROVE  (IF ticket'[x] # Absent THEN Card(ticket'[x]) ELSE Unraised)
                 = [Cards EXCEPT ![t] = Card(q.want)][x]
    BY <1>2, <1>3, <1>6, <1>7, CardsNow DEF Born
  <2>2. QED BY <2>1, CardsNext, CardsNow
<1>10. Cards[t] = Card(ticket[t]) /\ Cards[t].status \in Statuses
  BY <1>2, CardsNow, Carded
<1>11. QED BY <1>2, <1>8, <1>9, <1>10, TurnSteps

\* A ticket that is inserted is raised.
LEMMA InsertSteps ==
    ASSUME DeskInv, NEW r \in Requests, Insert(r)
    PROVE  Lifecycle!Next
<1>1. PICK t \in Tickets : ~Born(t) /\ ticket' = [ticket EXCEPT ![t] = Raised(req[r].no)]
  BY DEF Insert
<1> DEFINE row == Raised(req[r].no)
<1>2. /\ ticket'[t] = row /\ \A x \in Tickets \ {t} : ticket'[x] = ticket[x]
  BY <1>1 DEF DeskInv, TypeOK
<1>3. row # Absent
  <2>1. req[r].no \in Nat \ {0} BY DEF Insert, At, DeskInv, TypeOK, InFlight, Request
  <2>2. row \in Row BY <2>1 DEF Raised, Row, Statuses, Stamp
  <2>3. QED BY <2>2, ValuesAssumption
<1>4. Card(row) = [Unraised EXCEPT !.status = "open"]
  <2> PICK c : c = Unraised OBVIOUS
  <2>1. /\ DOMAIN c = CardColumns /\ c.escalated = FALSE /\ c.assignee = None
        /\ c.merged = None /\ c.rating = None /\ c.deleted = FALSE
    BY DEF Unraised, CardColumns
  <2> DEFINE d == [c EXCEPT !.status = "open"]
  <2>2. /\ DOMAIN d = DOMAIN c /\ d.status = "open" /\ d.escalated = c.escalated
        /\ d.assignee = c.assignee /\ d.merged = c.merged
        /\ d.rating = c.rating /\ d.deleted = c.deleted
    BY <2>1 DEF CardColumns
  <2>3. d = [f \in DOMAIN d |-> d[f]] OBVIOUS
  <2> HIDE DEF d
  <2>4. /\ row.status = "open" /\ row.assignee = None /\ row.merged = None
        /\ row.rating = None
    BY DEF Raised
  <2>5. row.escalated = d.escalated /\ row.deleted = d.deleted
    BY <2>1, <2>2 DEF Raised
  <2> HIDE DEF row
  <2>6. Card(row) = d BY <2>1, <2>2, <2>3, <2>4, <2>5, CardIs
  <2>7. QED BY <2>6 DEF d
<1> HIDE DEF row
<1>5. Cards' = [Cards EXCEPT ![t] = [Unraised EXCEPT !.status = "open"]]
  <2>1. ASSUME NEW x \in Tickets
        PROVE  (IF ticket'[x] # Absent THEN Card(ticket'[x]) ELSE Unraised)
                 = [Cards EXCEPT ![t] = Card(row)][x]
    BY <1>2, <1>3, CardsNow DEF Born
  <2>2. QED BY <1>4, <2>1, CardsNext, CardsNow
<1>6. Cards[t] = Unraised /\ Cards[t].status = "unraised"
  BY <1>1, CardsNow DEF Unraised
<1>7. Lifecycle!Blank = Unraised BY DEF Lifecycle!Blank, Unraised
<1>8. Lifecycle!Raise(t) BY <1>5, <1>6, <1>7 DEF Lifecycle!Raise, Lifecycle!Becomes
<1>9. Cards'[t].status = "open" BY <1>5, CardsNow DEF Unraised
<1>10. Cards'[t] # Cards[t] BY <1>6, <1>9
<1>11. QED BY <1>8, <1>10 DEF Lifecycle!Next, Lifecycle!Step

\* A merge closes the duplicate it loaded, into a ticket that is still there
\* and was not merged itself.
LEMMA MergeSteps ==
    ASSUME DeskInv, AloneInv, TurnsInv, OneHandler, NEW r \in Requests, WriteMerge(r)
    PROVE  Lifecycle!Next
<1> DEFINE q == req[r]
           s == q.tkt
           t == q.into
           n == Cardinality(q.moved)
           m == Cardinality(q.taken)
<1>1. /\ At(r, "write") /\ q.pc = "write" /\ q.op = "merge" /\ HandsOK(q) /\ TurnOK(q)
      /\ InFlight(r)
  BY DEF WriteMerge, At, AloneInv, HandsInv, TurnsInv, DeskInv
<1>2. /\ t \in Tickets /\ Born(t) /\ q.row.merged = None /\ s # t /\ q.row = ticket[s]
      /\ ticket[t].merged = None /\ ~ticket[s].deleted /\ ~ticket[t].deleted
      /\ Changed(q.row, q.want) \subseteq q.cols
      /\ Card(q.want) = MergedCard(Card(q.row), t)
  BY <1>1 DEF InFlight, HandsOK, TurnOK
<1>3. /\ s \in Tickets /\ Born(s) /\ q.want \in Row /\ ticket[s] \in Row
      /\ \A x \in Tickets : Born(x)' <=> Born(x)
  BY <1>1, NewRow, MergeWritten
<1>4. ticket[t] \in Row BY <1>2, SeenRow DEF DeskInv
<1>5. Written(q, ticket[s]) = q.want BY <1>2, <1>3, WrittenWhole
<1>6. /\ ticket'[s] = q.want
      /\ ticket'[t] = [ticket[t] EXCEPT !.replies = ticket[t].replies + n,
                                        !.files = ticket[t].files + m]
      /\ \A x \in Tickets \ {s, t} : ticket'[x] = ticket[x]
  <2>1. ticket' = [x \in Tickets |->
                LET row == IF x = s THEN Written(q, ticket[s]) ELSE ticket[x] IN
                IF x # t THEN row
                ELSE [row EXCEPT !.replies = @ + n, !.files = @ + m]]
    BY DEF WriteMerge
  <2> HIDE DEF q, s, t, n, m
  <2>2. QED BY <1>2, <1>3, <1>5, <2>1
<1>7. Card(ticket'[t]) = Card(ticket[t])
  <2> DEFINE old == ticket[t]
             new == ticket'[t]
  <2> HIDE DEF q, t, n, m
  <2>1. old \in Row /\ new = [old EXCEPT !.replies = old.replies + n, !.files = old.files + m]
    BY <1>4, <1>6
  <2> HIDE DEF old, new
  <2>2. /\ new.status = old.status /\ new.escalated = old.escalated
        /\ new.assignee = old.assignee /\ new.merged = old.merged
        /\ new.rating = old.rating /\ new.deleted = old.deleted
    BY <2>1 DEF Row
  <2>3. Card(new) = Card(old) BY <2>2, SameCard
  <2>4. QED BY <2>3 DEF new, old
<1> HIDE DEF q, s, t, n, m
<1>8. Cards' = [Cards EXCEPT ![s] = Card(q.want)]
  <2>1. ASSUME NEW x \in Tickets
        PROVE  (IF ticket'[x] # Absent THEN Card(ticket'[x]) ELSE Unraised)
                 = [Cards EXCEPT ![s] = Card(q.want)][x]
    <3>1. CASE x = s BY <1>3, <1>6, <3>1, CardsNow DEF Born
    <3>2. CASE x = t BY <1>2, <1>3, <1>7, <3>2, CardsNow DEF Born
    <3>3. CASE x \notin {s, t} BY <1>3, <1>6, <3>3, CardsNow DEF Born
    <3>4. QED BY <3>1, <3>2, <3>3
  <2>2. QED BY <2>1, CardsNext, CardsNow
<1>9. /\ Cards[s] = Card(ticket[s]) /\ Cards[t] = Card(ticket[t])
      /\ Cards[s].status \in Statuses /\ Cards[t].status \in Statuses
      /\ ~Cards[s].deleted /\ ~Cards[t].deleted
      /\ Cards[s].merged = None /\ Cards[t].merged = None
  BY <1>2, <1>3, <1>4, CardsNow, Carded
<1>10. Lifecycle!Merge(s, t)
  <2>1. Lifecycle!AtHand(s) /\ Lifecycle!AtHand(t) BY <1>9 DEF Lifecycle!AtHand, Statuses
  <2>2. Card(q.want) = [Cards[s] EXCEPT !.merged = t, !.status = "closed"]
    BY <1>2, <1>9 DEF MergedCard
  <2>3. QED BY <1>2, <1>8, <1>9, <2>1, <2>2 DEF Lifecycle!Merge, Lifecycle!Becomes
<1>11. Cards'[s] # Cards[s]
  <2>1. q.want.merged = t BY <1>1 DEF HandsOK, q, t
  <2>2. Cards'[s].merged = t BY <1>3, <1>8, <2>1, CardsNow, Carded
  <2>3. t # None BY <1>2, ValuesAssumption
  <2>4. QED BY <1>9, <2>2, <2>3
<1>12. QED BY <1>2, <1>3, <1>10, <1>11 DEF Lifecycle!Next, Lifecycle!Step

\* Every step of the one handler is a step of the lifecycle, or none.
LEMMA LifecycleSteps ==
    ASSUME DeskInv, AloneInv, TurnsInv, OneHandler, [Next]_vars
    PROVE  [Lifecycle!Next]_Cards
<1>1. CASE UNCHANGED ticket
  <2>1. Cards' = Cards BY <1>1, CardsNext DEF Cards, Born
  <2>2. QED BY <2>1
<1>2. ASSUME NEW r \in Requests, Arrive(r) PROVE UNCHANGED ticket
  BY <1>2, ArriveKinds DEF DeskInv, Number, Loads, Load, Unfile, Merge
<1>3. ASSUME NEW r \in Requests, Handle(r) \/ Crash(r) PROVE [Lifecycle!Next]_Cards
  <2>1. CASE \/ Reprioritise(r) \/ AssignRaised(r) \/ AssignNothing(r) \/ Refused(r)
             \/ MergeMessages(r) \/ MergeFiles(r) \/ Crash(r)
    BY <1>1, <2>1
       DEF Reprioritise, AssignRaised, AssignNothing, Refused, MergeMessages, MergeFiles, Crash
  <2>2. QED BY <1>3, <2>1, InsertSteps, WriteSteps, MergeSteps DEF Handle
<1>4. CASE UNCHANGED vars \/ Tick BY <1>1, <1>4 DEF vars, Tick
<1>5. QED BY <1>1, <1>2, <1>3, <1>4 DEF Next, Call

\* While requests do not overlap the desk implements the lifecycle: every
\* commit is one whole decision about one ticket, taken on it as it stands.
THEOREM LifecycleKept ==
    ASSUME OneHandler, IsFiniteSet(Tickets) PROVE Spec => KeepsLifecycle
<1>1. Init => Lifecycle!Init
  <2> SUFFICES ASSUME Init PROVE Lifecycle!Init OBVIOUS
  <2>1. Lifecycle!Blank = Unraised BY DEF Lifecycle!Blank, Unraised
  <2>2. Cards = [t \in Tickets |-> Unraised] BY DEF Init, Cards, Born
  <2>3. QED BY <2>1, <2>2 DEF Lifecycle!Init
<1>2. DeskInv /\ AloneInv /\ TurnsInv /\ [Next]_vars => [Lifecycle!Next]_Cards
  BY LifecycleSteps
<1>3. QED BY <1>1, <1>2, TurnsInvariant, PTL DEF Spec, KeepsLifecycle, Lifecycle!Spec
=============================================================================
