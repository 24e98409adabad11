------------------------ MODULE SupportTicketsProofs ------------------------
(***************************************************************************)
(* Proofs about SupportTickets: what holds of the support desk however     *)
(* many requests overlap.                                                  *)
(***************************************************************************)
EXTENDS SupportTicketsProps, FiniteSetTheorems, TLAPS

-----------------------------------------------------------------------------
(* Rows.                                                                   *)

\* What a handler's load keeps of the row it will write.
Fits(op, row, want) ==
    /\ want \in Row
    /\ want.no = row.no /\ want.merged = row.merged
    /\ want.escalated # row.escalated => want.escalated
    /\ want.status # row.status /\ want.status = "escalated" => want.escalated
    /\ op # "feedback" => want.rating = row.rating
    /\ op = "feedback" => want.rating # row.rating /\ want.rating \in Ratings
    /\ op \in {"feedback", "upload", "unfile"} =>
          want.status = row.status /\ want.assignee = row.assignee

\* The columns a handler writes are those that changed and some dates.
LEMMA ChangedColumns ==
    ASSUME NEW row \in Row, NEW want \in Row,
           NEW stamped \in SUBSET {"resolved", "closed", "deleted"}
    PROVE  LET cols == Changed(row, want) \cup stamped IN
           /\ cols \in SUBSET Columns
           /\ "no" \in cols <=> want.no # row.no
           /\ "status" \in cols <=> want.status # row.status
           /\ "assignee" \in cols <=> want.assignee # row.assignee
           /\ "escalated" \in cols <=> want.escalated # row.escalated
           /\ "rating" \in cols <=> want.rating # row.rating
           /\ "merged" \in cols <=> want.merged # row.merged
  BY DEF Changed, Columns, Row

\* A write takes the columns it names from the handler and keeps the others.
LEMMA WrittenRow ==
    ASSUME NEW q, NEW row \in Row, q.want \in Row
    PROVE  /\ Counted(q, row) \in Row
           /\ Counted(q, row).no = (IF "no" \in q.cols THEN q.want.no ELSE row.no)
           /\ Counted(q, row).status = (IF "status" \in q.cols THEN q.want.status ELSE row.status)
           /\ Counted(q, row).assignee = (IF "assignee" \in q.cols THEN q.want.assignee ELSE row.assignee)
           /\ Counted(q, row).escalated = (IF "escalated" \in q.cols THEN q.want.escalated ELSE row.escalated)
           /\ Counted(q, row).rating = (IF "rating" \in q.cols THEN q.want.rating ELSE row.rating)
           /\ Counted(q, row).merged = (IF "merged" \in q.cols THEN q.want.merged ELSE row.merged)
<1> DEFINE kept == Written(q, row)
<1>1. /\ kept \in Row
      /\ kept.no = (IF "no" \in q.cols THEN q.want.no ELSE row.no)
      /\ kept.status = (IF "status" \in q.cols THEN q.want.status ELSE row.status)
      /\ kept.assignee = (IF "assignee" \in q.cols THEN q.want.assignee ELSE row.assignee)
      /\ kept.escalated = (IF "escalated" \in q.cols THEN q.want.escalated ELSE row.escalated)
      /\ kept.rating = (IF "rating" \in q.cols THEN q.want.rating ELSE row.rating)
      /\ kept.merged = (IF "merged" \in q.cols THEN q.want.merged ELSE row.merged)
  BY DEF Written, Row, Columns
<1> HIDE DEF kept
<1>2. Counted(q, row) \in {kept, [kept EXCEPT !.replies = @ + 1],
                           [kept EXCEPT !.files = @ + 1], [kept EXCEPT !.files = @ - 1]}
  BY DEF Counted, kept
<1>3. QED BY <1>1, <1>2 DEF Row

-----------------------------------------------------------------------------
(* Steps that leave the tickets and their histories alone.                 *)

SameDesk == UNCHANGED <<ticket, trail, handover, survey>>

\* Only request `r` moves, and takes the advisory lock from nobody.
Alone(r) ==
    /\ \A o \in Requests \ {r} : req'[o] = req[o]
    /\ \A o \in Requests \ {r} : numbering = o => numbering' = o

\* Such a step keeps the invariant if the request it moves keeps its part.
LEMMA SameDeskKeeps ==
    ASSUME DeskInv, SameDesk, TypeOK', NEW r \in Requests, Alone(r), InFlight(r)',
           At(r, "insert")' => \A t \in Tickets : Born(t) => ticket[t].no # req'[r].no
    PROVE  DeskInv'
<1>1. \A o \in Requests : InFlight(o)'
  <2> SUFFICES ASSUME NEW o \in Requests \ {r} PROVE InFlight(o)'
    OBVIOUS
  <2>1. InFlight(o) /\ req'[o] = req[o] /\ (numbering = o => numbering' = o)
    BY DEF DeskInv, Alone
  <2>2. QED
    BY <2>1 DEF InFlight, SameDesk, WriteOK, Born, MovesStatus, HandsOver
<1>2. NumberIsFree'
  BY DEF DeskInv, NumberIsFree, SameDesk, Alone, Born, At
<1>3. UnbornIsBlank' /\ RatingMirrorsFeedback' /\ EscalatedIsFlagged' /\ HistoryIsCurrent'
  BY DEF DeskInv, UnbornIsBlank, RatingMirrorsFeedback, EscalatedIsFlagged,
         HistoryIsCurrent, SameDesk, Born
<1>4. QED BY <1>1, <1>2, <1>3 DEF DeskInv

\* A handler that loads a ticket and will write a row that fits it.
LEMMA LoadKeeps ==
    ASSUME DeskInv, NEW r \in Requests, NEW t \in Tickets, Born(t),
           NEW op \in AllOps \ {"merge", "unfile"}, NEW want \in Row,
           NEW stamped \in SUBSET {"resolved", "closed", "deleted"},
           Fits(op, ticket[t], want), Load(r, op, "write", t, want, stamped),
           calls' \in Nat
    PROVE  DeskInv'
<1> DEFINE cols == Changed(ticket[t], want) \cup stamped
           q == [Idle EXCEPT !.op = op, !.pc = "write", !.tkt = t, !.row = ticket[t],
                             !.want = want, !.cols = cols,
                             !.since = IF op = "reopen" THEN now ELSE 0]
<1>1. TypeOK /\ ticket[t] \in Row
  BY DEF DeskInv, TypeOK, Born
<1>2. /\ SameDesk /\ UNCHANGED <<now, message, file, numbering>>
      /\ req' = [req EXCEPT ![r] = q]
  BY DEF Load, SameDesk
<1>3. /\ cols \in SUBSET Columns
      /\ "no" \notin cols
      /\ "status" \in cols <=> want.status # ticket[t].status
      /\ "assignee" \in cols <=> want.assignee # ticket[t].assignee
      /\ "escalated" \in cols <=> want.escalated # ticket[t].escalated
      /\ "rating" \in cols <=> want.rating # ticket[t].rating
      /\ "merged" \notin cols
  BY <1>1, ChangedColumns DEF Fits
<1> HIDE DEF cols
<1>4. /\ q \in Request
      /\ q.op = op /\ q.pc = "write" /\ q.tkt = t /\ q.row = ticket[t]
      /\ q.want = want /\ q.cols = cols
  BY <1>1, <1>3 DEF Request, Idle, TypeOK, Pcs
<1> HIDE DEF q
<1>5. req'[r] = q /\ Alone(r)
  BY <1>1, <1>2 DEF TypeOK, Alone
<1>6. TypeOK'
  BY <1>1, <1>2, <1>4 DEF TypeOK, SameDesk
<1>7. InFlight(r)'
  <2>1. WriteOK(req[r])'
    BY <1>1, <1>2, <1>3, <1>4, <1>5 DEF WriteOK, Fits, MovesStatus, HandsOver, SameDesk, Row
  <2>2. QED
    BY <1>1, <1>2, <1>4, <1>5, <2>1 DEF InFlight, SameDesk, Born
<1>8. QED
  BY <1>2, <1>4, <1>5, <1>6, <1>7, SameDeskKeeps DEF At

-----------------------------------------------------------------------------
(* The calls that load a ticket.                                           *)

\* A ticket that exists is a row, and the clock a time.
LEMMA FoundRow ==
    ASSUME TypeOK, NEW t \in Tickets, Born(t)
    PROVE  ticket[t] \in Row /\ now \in Stamp
  BY DEF TypeOK, Born, Stamp

\* A reply leaves the number, the flag and the rating, and never escalates.
LEMMA ReplyKeeps ==
    ASSUME DeskInv, NEW r \in Requests, NEW t \in Tickets, NEW who,
           Reply(r, who, t), calls' \in Nat
    PROVE  DeskInv'
<1> DEFINE want == [ticket[t] EXCEPT
                !.status = StatusAfterReply(@, who # "student"),
                !.first = IF who # "student" /\ @ = None THEN now ELSE @]
<1>1. Born(t) /\ Load(r, "reply", "write", t, want, {})
  BY DEF Reply, Sees, Found, Stamp, StatusAfterReply, Statuses
<1>2. ticket[t] \in Row /\ now \in Stamp
  BY <1>1, FoundRow DEF DeskInv
<1>3. want \in Row /\ Fits("reply", ticket[t], want)
  BY <1>1, <1>2 DEF Row, Fits, Reply, Sees, Found, Stamp, StatusAfterReply, Statuses
<1> HIDE DEF want
<1>4. QED BY <1>1, <1>3, LoadKeeps DEF AllOps

\* A note changes no column.
LEMMA NoteKeeps ==
    ASSUME DeskInv, NEW r \in Requests, NEW t \in Tickets,
           Note(r, t), calls' \in Nat
    PROVE  DeskInv'
<1> DEFINE want == ticket[t]
<1>1. Born(t) /\ Load(r, "note", "write", t, want, {})
  BY DEF Note, Sees, Found
<1>2. ticket[t] \in Row /\ now \in Stamp
  BY <1>1, FoundRow DEF DeskInv
<1>3. want \in Row /\ Fits("note", ticket[t], want)
  BY <1>1, <1>2 DEF Row, Fits, Note, Sees, Found
<1> HIDE DEF want
<1>4. QED BY <1>1, <1>3, LoadKeeps DEF AllOps

\* An assignment hands over the ticket and may start work on it.
LEMMA AssignKeeps ==
    ASSUME DeskInv, NEW r \in Requests, NEW t \in Tickets, NEW who \in Agents \cup {None},
           Assign(r, t, who), calls' \in Nat
    PROVE  DeskInv'
<1> DEFINE want == Assigned(ticket[t], who)
<1>1. Born(t) /\ Load(r, "assign", "write", t, want, {})
  BY DEF Assign, Assigned, Sees, Found, Statuses
<1>2. ticket[t] \in Row /\ now \in Stamp
  BY <1>1, FoundRow DEF DeskInv
<1>3. want \in Row /\ Fits("assign", ticket[t], want)
  BY <1>1, <1>2 DEF Row, Fits, Assign, Assigned, Sees, Found, Statuses
<1> HIDE DEF want
<1>4. QED BY <1>1, <1>3, LoadKeeps DEF AllOps

\* A status change to escalated sets the flag.
LEMMA ChangeStatusKeeps ==
    ASSUME DeskInv, NEW r \in Requests, NEW t \in Tickets, NEW who, NEW to \in Statuses,
           ChangeStatus(r, who, t, to), calls' \in Nat
    PROVE  DeskInv'
<1> DEFINE want == Moved(ticket[t], to)
<1>1. Born(t) /\ Load(r, "status", "write", t, want, IF to = "resolved" THEN {"resolved"} ELSE {})
  BY DEF ChangeStatus, Moved, Sees, Found, Stamp
<1>2. ticket[t] \in Row /\ now \in Stamp
  BY <1>1, FoundRow DEF DeskInv
<1>3. want \in Row /\ Fits("status", ticket[t], want)
  BY <1>1, <1>2 DEF Row, Fits, ChangeStatus, Moved, Sees, Found, Stamp
<1> HIDE DEF want
<1>4. QED BY <1>1, <1>3, LoadKeeps DEF AllOps

\* An escalation sets the flag with the status.
LEMMA EscalateKeeps ==
    ASSUME DeskInv, NEW r \in Requests, NEW t \in Tickets, NEW who, NEW to \in Agents \cup {None},
           Escalate(r, who, t, to), calls' \in Nat
    PROVE  DeskInv'
<1> DEFINE want == [ticket[t] EXCEPT !.escalated = TRUE, !.status = "escalated",
                                   !.assignee = IF to = None THEN @ ELSE to]
<1>1. Born(t) /\ Load(r, "escalate", "write", t, want, {})
  BY DEF Escalate, Sees, Found, Statuses
<1>2. ticket[t] \in Row /\ now \in Stamp
  BY <1>1, FoundRow DEF DeskInv
<1>3. want \in Row /\ Fits("escalate", ticket[t], want)
  BY <1>1, <1>2 DEF Row, Fits, Escalate, Sees, Found, Statuses
<1> HIDE DEF want
<1>4. QED BY <1>1, <1>3, LoadKeeps DEF AllOps

\* A close sets the status and dates.
LEMMA CloseKeeps ==
    ASSUME DeskInv, NEW r \in Requests, NEW t \in Tickets, NEW who,
           Close(r, who, t), calls' \in Nat
    PROVE  DeskInv'
<1> DEFINE want == Closed(ticket[t])
<1>1. Born(t) /\ Load(r, "close", "write", t, want, {"closed"})
  BY DEF Close, Closed, Sees, Found, Statuses, Stamp
<1>2. ticket[t] \in Row /\ now \in Stamp
  BY <1>1, FoundRow DEF DeskInv
<1>3. want \in Row /\ Fits("close", ticket[t], want)
  BY <1>1, <1>2 DEF Row, Fits, Close, Closed, Sees, Found, Statuses, Stamp
<1> HIDE DEF want
<1>4. QED BY <1>1, <1>3, LoadKeeps DEF AllOps

\* A reopen sets the status and clears the dates.
LEMMA ReopenKeeps ==
    ASSUME DeskInv, NEW r \in Requests, NEW t \in Tickets, NEW who,
           Reopen(r, who, t), calls' \in Nat
    PROVE  DeskInv'
<1> DEFINE want == [ticket[t] EXCEPT !.status = "reopened", !.closed = None,
                                   !.resolved = None]
<1>1. Born(t) /\ Load(r, "reopen", "write", t, want, {})
  BY DEF Reopen, Sees, Found, Statuses, Stamp
<1>2. ticket[t] \in Row /\ now \in Stamp
  BY <1>1, FoundRow DEF DeskInv
<1>3. want \in Row /\ Fits("reopen", ticket[t], want)
  BY <1>1, <1>2 DEF Row, Fits, Reopen, Sees, Found, Statuses, Stamp
<1> HIDE DEF want
<1>4. QED BY <1>1, <1>3, LoadKeeps DEF AllOps

\* A feedback changes the rating alone: the ticket had none.
LEMMA FeedbackKeeps ==
    ASSUME DeskInv, NEW r \in Requests, NEW t \in Tickets, NEW rating \in Ratings,
           Feedback(r, t, rating), calls' \in Nat
    PROVE  DeskInv'
<1> DEFINE want == [ticket[t] EXCEPT !.rating = rating]
<1>1. Born(t) /\ Load(r, "feedback", "write", t, want, {})
  BY DEF DeskInv, RatingMirrorsFeedback, Feedback, Sees, Found
<1>2. ticket[t] \in Row /\ now \in Stamp
  BY <1>1, FoundRow DEF DeskInv
<1>3. want \in Row /\ Fits("feedback", ticket[t], want)
  BY <1>1, <1>2, ValuesAssumption DEF Row, Fits, DeskInv, RatingMirrorsFeedback, Feedback, Sees, Found
<1> HIDE DEF want
<1>4. QED BY <1>1, <1>3, LoadKeeps DEF AllOps

\* A deletion marks the row.
LEMMA DeleteKeeps ==
    ASSUME DeskInv, NEW r \in Requests, NEW t \in Tickets,
           Delete(r, t), calls' \in Nat
    PROVE  DeskInv'
<1> DEFINE want == [ticket[t] EXCEPT !.deleted = TRUE]
<1>1. Born(t) /\ Load(r, "delete", "write", t, want, {"deleted"})
  BY DEF Delete, Found
<1>2. ticket[t] \in Row /\ now \in Stamp
  BY <1>1, FoundRow DEF DeskInv
<1>3. want \in Row /\ Fits("delete", ticket[t], want)
  BY <1>1, <1>2 DEF Row, Fits, Delete, Found
<1> HIDE DEF want
<1>4. QED BY <1>1, <1>3, LoadKeeps DEF AllOps

\* A restore unmarks it.
LEMMA RestoreKeeps ==
    ASSUME DeskInv, NEW r \in Requests, NEW t \in Tickets,
           Restore(r, t), calls' \in Nat
    PROVE  DeskInv'
<1> DEFINE want == [ticket[t] EXCEPT !.deleted = FALSE]
<1>1. Born(t) /\ Load(r, "restore", "write", t, want, {})
  BY DEF Restore
<1>2. ticket[t] \in Row /\ now \in Stamp
  BY <1>1, FoundRow DEF DeskInv
<1>3. want \in Row /\ Fits("restore", ticket[t], want)
  BY <1>1, <1>2 DEF Row, Fits, Restore
<1> HIDE DEF want
<1>4. QED BY <1>1, <1>3, LoadKeeps DEF AllOps

\* An upload changes no column it writes by id.
LEMMA UploadKeeps ==
    ASSUME DeskInv, NEW r \in Requests, NEW t \in Tickets, NEW who,
           Upload(r, who, t), calls' \in Nat
    PROVE  DeskInv'
<1> DEFINE want == ticket[t]
<1>1. Born(t) /\ Load(r, "upload", "write", t, want, {})
  BY DEF Upload, Sees, Found
<1>2. ticket[t] \in Row /\ now \in Stamp
  BY <1>1, FoundRow DEF DeskInv
<1>3. want \in Row /\ Fits("upload", ticket[t], want)
  BY <1>1, <1>2 DEF Row, Fits, Upload, Sees, Found
<1> HIDE DEF want
<1>4. QED BY <1>1, <1>3, LoadKeeps DEF AllOps

-----------------------------------------------------------------------------
(* The other steps that write no ticket.                                   *)

\* A request in flight whose ticket exists has its row.
LEMMA InHand ==
    ASSUME DeskInv, NEW r \in Requests, req[r].pc \notin {"idle", "insert"}
    PROVE  /\ req[r] \in Request /\ req[r].tkt \in Tickets /\ Born(req[r].tkt)
           /\ req[r].row \in Row /\ ticket[req[r].tkt] \in Row /\ now \in Stamp
<1>1. req[r] \in Request /\ InFlight(r) BY DEF DeskInv, TypeOK
<1>2. req[r].pc \in {"assign", "messages", "files", "write"}
  BY <1>1 DEF Request, Pcs
<1>3. QED BY <1>1, <1>2, FoundRow DEF InFlight, DeskInv

\* A step after which request `r` is what `q` says and the tickets are as before.
LEMMA StepKeeps ==
    ASSUME DeskInv, NEW r \in Requests, NEW q \in Request, q.pc # "insert",
           SameDesk, UNCHANGED <<message, file>>, now' \in Nat, calls' \in Nat,
           req' = [req EXCEPT ![r] = q],
           numbering' = numbering \/ (numbering = r /\ numbering' = None),
           InFlight(r)'
    PROVE  DeskInv'
<1>1. TypeOK BY DEF DeskInv
<1>2. req'[r] = q /\ Alone(r) BY <1>1, ValuesAssumption DEF TypeOK, Alone
<1>3. TypeOK' BY <1>1 DEF TypeOK, SameDesk
<1>4. QED BY <1>2, <1>3, SameDeskKeeps DEF At

\* A request that is over.
LEMMA IdleKeeps ==
    ASSUME DeskInv, NEW r \in Requests, Finish(r), SameDesk,
           UNCHANGED <<now, message, file>>, calls' \in Nat,
           numbering' = numbering \/ (numbering = r /\ numbering' = None)
    PROVE  DeskInv'
<1>1. Idle \in Request /\ Idle.pc = "idle" /\ Idle.op = "none"
  BY DEF Idle, Request, Pcs
<1>2. now \in Nat /\ req \in [Requests -> Request] BY DEF DeskInv, TypeOK
<1>3. req'[r] = Idle /\ req' = [req EXCEPT ![r] = Idle] BY <1>2 DEF Finish
<1>4. InFlight(r)' BY <1>1, <1>3 DEF InFlight
<1>5. QED BY <1>1, <1>2, <1>3, <1>4, StepKeeps

\* An assignment with nothing to do ends its request.
LEMMA AssignNothingKeeps ==
    ASSUME DeskInv, NEW r \in Requests, AssignNothing(r), calls' \in Nat
    PROVE  DeskInv'
  BY IdleKeeps DEF AssignNothing, SameDesk

\* So does a refusal.
LEMMA RefusedKeeps ==
    ASSUME DeskInv, NEW r \in Requests, Refused(r), calls' \in Nat
    PROVE  DeskInv'
  BY IdleKeeps DEF Refused, SameDesk

\* A crash ends its request and gives the lock back.
LEMMA CrashKeeps ==
    ASSUME DeskInv, NEW r \in Requests, Crash(r), calls' \in Nat
    PROVE  DeskInv'
  BY IdleKeeps DEF Crash, SameDesk

\* No part of the invariant looks at the clock.
LEMMA TickKeeps == ASSUME DeskInv, Tick, calls' \in Nat PROVE DeskInv'
<1>1. /\ SameDesk /\ UNCHANGED <<message, file, numbering, req>>
      /\ now' = now + 1 /\ TypeOK
  BY DEF Tick, SameDesk, DeskInv
<1>2. TypeOK' BY <1>1 DEF TypeOK, SameDesk
<1>3. \A r \in Requests : InFlight(r)'
  <2> SUFFICES ASSUME NEW r \in Requests PROVE InFlight(r)' OBVIOUS
  <2>1. InFlight(r) BY DEF DeskInv
  <2>2. QED BY <1>1, <2>1 DEF InFlight, SameDesk, WriteOK, Born, MovesStatus, HandsOver
<1>4. UnbornIsBlank' /\ NumberIsFree' /\ RatingMirrorsFeedback' /\ EscalatedIsFlagged'
      /\ HistoryIsCurrent'
  BY <1>1 DEF DeskInv, UnbornIsBlank, NumberIsFree, RatingMirrorsFeedback,
              EscalatedIsFlagged, HistoryIsCurrent, SameDesk, Born, At
<1>5. QED BY <1>2, <1>3, <1>4 DEF DeskInv

\* Reserving a number: it is above every number in use.
LEMMA NumberKeeps ==
    ASSUME DeskInv, NEW r \in Requests, NEW op \in {"create", "raise"},
           Number(r, op), calls' \in Nat
    PROVE  DeskInv'
<1>1. PICK n \in 1 .. Cardinality(Tickets) + 1 :
        /\ \A t \in Tickets : Born(t) => ticket[t].no < n
        /\ req' = [req EXCEPT ![r] = [Idle EXCEPT !.op = op, !.pc = "insert", !.no = n]]
  BY DEF Number
<1> DEFINE q == [Idle EXCEPT !.op = op, !.pc = "insert", !.no = n]
<1>2. TypeOK /\ SameDesk /\ UNCHANGED <<now, message, file>> /\ numbering = None
      /\ numbering' = r
  BY DEF Number, SameDesk, DeskInv
<1>3. n \in Nat \ {0} BY <1>1
<1>4. q \in Request /\ q.pc = "insert" /\ q.op = op /\ q.no = n
  BY <1>3 DEF Request, Idle, Pcs, AllOps
<1> HIDE DEF q
<1>5. req' = [req EXCEPT ![r] = q] BY <1>1 DEF q
<1>6. req'[r] = q /\ Alone(r)
  BY <1>2, <1>5, ValuesAssumption DEF TypeOK, Alone
<1>7. TypeOK' BY <1>2, <1>4, <1>5 DEF TypeOK, SameDesk
<1>8. InFlight(r)' BY <1>2, <1>3, <1>4, <1>6 DEF InFlight
<1>9. \A t \in Tickets : Born(t) => ticket[t].no # req'[r].no
  <2> SUFFICES ASSUME NEW t \in Tickets, Born(t) PROVE ticket[t].no # n
    BY <1>4, <1>6
  <2>1. ticket[t].no < n BY <1>1
  <2>2. ticket[t].no \in Nat BY <1>2, FoundRow DEF Row
  <2>3. QED BY <1>3, <2>1, <2>2
<1>10. QED BY <1>2, <1>6, <1>7, <1>8, <1>9, SameDeskKeeps

\* Refreshing the row in hand from the ticket.
LEMMA ReprioritiseKeeps ==
    ASSUME DeskInv, NEW r \in Requests, Reprioritise(r), calls' \in Nat
    PROVE  DeskInv'
<1> DEFINE t == req[r].tkt
           q == [req[r] EXCEPT !.row = ticket[t]]
<1>1. /\ req[r].pc = "assign" /\ SameDesk /\ UNCHANGED <<now, message, file, numbering>>
      /\ req' = [req EXCEPT ![r].row = ticket[t]]
  BY DEF Reprioritise, SameDesk, At
<1>2. req[r] \in Request /\ t \in Tickets /\ Born(t) /\ ticket[t] \in Row
  BY <1>1, InHand
<1>3. req' = [req EXCEPT ![r] = q] /\ req \in [Requests -> Request] /\ now \in Nat
  BY <1>1 DEF DeskInv, TypeOK
<1>4. q \in Request /\ q.pc = "assign" /\ q.tkt = t /\ q.row = ticket[t]
      /\ q.op = req[r].op
  BY <1>1, <1>2 DEF Request
<1>5. InFlight(r) BY DEF DeskInv
<1> HIDE DEF q
<1>6. req'[r] = q BY <1>3
<1>7. q.op = "raise" BY <1>1, <1>4, <1>5 DEF InFlight
<1>8. InFlight(r)'
  BY <1>1, <1>2, <1>4, <1>6, <1>7 DEF InFlight, SameDesk, Born
<1>9. QED BY <1>1, <1>3, <1>4, <1>8, StepKeeps

\* Deciding the assignment of a ticket raised for a student.
LEMMA AssignRaisedKeeps ==
    ASSUME DeskInv, NEW r \in Requests, AssignRaised(r), calls' \in Nat
    PROVE  DeskInv'
<1> DEFINE row == req[r].row
<1>1. PICK a \in Agents :
        req' = [req EXCEPT ![r].pc = "write", ![r].want = Assigned(row, a),
                           ![r].cols = Changed(row, Assigned(row, a))]
  BY DEF AssignRaised
<1> DEFINE want == Assigned(row, a)
           q == [req[r] EXCEPT !.pc = "write", !.want = want, !.cols = Changed(row, want)]
<1>2. /\ req[r].pc = "assign" /\ SameDesk /\ UNCHANGED <<now, message, file, numbering>>
      /\ req \in [Requests -> Request] /\ now \in Nat
  BY DEF AssignRaised, SameDesk, At, DeskInv, TypeOK
<1>3. req[r] \in Request /\ req[r].tkt \in Tickets /\ Born(req[r].tkt) /\ row \in Row
  BY <1>2, InHand
<1>4. want \in Row /\ Fits("raise", row, want)
  BY <1>3 DEF Row, Fits, Assigned, Statuses
<1>5. InFlight(r) /\ req[r].op = "raise" BY <1>2 DEF DeskInv, InFlight
<1> HIDE DEF want
<1>6. LET cols == Changed(row, want) IN
      /\ cols \in SUBSET Columns
      /\ "no" \notin cols
      /\ "status" \in cols <=> want.status # row.status
      /\ "assignee" \in cols <=> want.assignee # row.assignee
      /\ "escalated" \in cols <=> want.escalated # row.escalated
      /\ "rating" \notin cols
      /\ "merged" \notin cols
  BY <1>3, <1>4 DEF Fits, Changed, Columns, Row
<1>7. /\ q \in Request /\ q.op = "raise" /\ q.pc = "write" /\ q.tkt = req[r].tkt
      /\ q.row = row /\ q.want = want /\ q.cols = Changed(row, want)
  BY <1>3, <1>4, <1>5, <1>6 DEF Request, Pcs
<1>8. req' = [req EXCEPT ![r] = q] BY <1>1, <1>2 DEF want
<1> HIDE DEF q
<1>9. req'[r] = q BY <1>2, <1>8
<1>10. want.status # row.status => want.status = "in_progress"
  BY <1>3 DEF want, Assigned, Row
<1>11. WriteOK(req[r])'
  BY <1>4, <1>6, <1>7, <1>9, <1>10 DEF WriteOK, Fits, MovesStatus, HandsOver, Row
<1>12. InFlight(r)'
  BY <1>2, <1>3, <1>7, <1>9, <1>11 DEF InFlight, SameDesk, Born
<1>13. QED BY <1>2, <1>7, <1>8, <1>12, StepKeeps

\* Removing an attachment changes no column by id.
LEMMA UnfileKeeps ==
    ASSUME DeskInv, NEW r \in Requests, NEW f \in Files, Unfile(r, f), calls' \in Nat
    PROVE  DeskInv'
<1> DEFINE t == file[f]
           q == [Idle EXCEPT !.op = "unfile", !.pc = "write", !.tkt = t, !.file = f,
                             !.row = ticket[t], !.want = ticket[t]]
<1>1. /\ t \in Tickets /\ Born(t) /\ SameDesk
      /\ UNCHANGED <<now, message, file, numbering>> /\ req' = [req EXCEPT ![r] = q]
      /\ req \in [Requests -> Request] /\ now \in Nat
  BY DEF Unfile, SameDesk, Found, DeskInv, TypeOK
<1>2. ticket[t] \in Row BY <1>1, FoundRow DEF DeskInv
<1>3. /\ q \in Request /\ q.op = "unfile" /\ q.pc = "write" /\ q.tkt = t /\ q.file = f
      /\ q.row = ticket[t] /\ q.want = ticket[t] /\ q.cols = {}
  BY <1>1, <1>2 DEF Request, Idle, Pcs, AllOps
<1> HIDE DEF q
<1>4. req'[r] = q BY <1>1
<1>5. WriteOK(req[r])'
  BY <1>2, <1>3, <1>4 DEF WriteOK, MovesStatus, HandsOver
<1>6. InFlight(r)' BY <1>1, <1>2, <1>3, <1>4, <1>5 DEF InFlight, SameDesk, Born
<1>7. QED BY <1>1, <1>3, <1>6, StepKeeps

\* A merge starts from a duplicate that was not merged.
LEMMA MergeKeeps ==
    ASSUME DeskInv, NEW r \in Requests, NEW s \in Tickets, NEW t \in Tickets,
           Merge(r, s, t), calls' \in Nat
    PROVE  DeskInv'
<1> DEFINE q == [Idle EXCEPT !.op = "merge", !.pc = "messages", !.tkt = s, !.into = t,
                             !.row = ticket[s]]
<1>1. /\ Born(s) /\ Born(t) /\ ticket[s].merged = None /\ SameDesk
      /\ UNCHANGED <<now, message, file, numbering>> /\ req' = [req EXCEPT ![r] = q]
      /\ req \in [Requests -> Request] /\ now \in Nat
  BY DEF Merge, Mergeable, SameDesk, Found, DeskInv, TypeOK
<1>2. ticket[s] \in Row BY <1>1, FoundRow DEF DeskInv
<1>3. /\ q \in Request /\ q.op = "merge" /\ q.pc = "messages" /\ q.tkt = s
      /\ q.into = t /\ q.row = ticket[s] /\ IsFiniteSet(q.moved)
  BY <1>1, <1>2, FS_EmptySet DEF Request, Idle, Pcs, AllOps
<1> HIDE DEF q
<1>4. req'[r] = q BY <1>1
<1>5. InFlight(r)' BY <1>1, <1>2, <1>3, <1>4 DEF InFlight, SameDesk, Born
<1>6. QED BY <1>1, <1>3, <1>5, StepKeeps

\* The messages a merge reads are finitely many.
LEMMA MergeMessagesKeeps ==
    ASSUME DeskInv, NEW r \in Requests, MergeMessages(r), calls' \in Nat
    PROVE  DeskInv'
<1> DEFINE q == [req[r] EXCEPT !.pc = "files", !.moved = OnTicket(req[r].tkt)]
<1>1. /\ req[r].pc = "messages" /\ SameDesk /\ UNCHANGED <<now, message, file, numbering>>
      /\ req' = [req EXCEPT ![r].pc = "files", ![r].moved = OnTicket(req[r].tkt)]
      /\ req \in [Requests -> Request] /\ now \in Nat /\ message \in Seq(Message)
  BY DEF MergeMessages, SameDesk, At, DeskInv, TypeOK
<1>2. /\ req[r] \in Request /\ InFlight(r) /\ req[r].row \in Row
      /\ req[r].tkt \in Tickets /\ Born(req[r].tkt)
  BY <1>1, InHand DEF DeskInv
<1>3. OnTicket(req[r].tkt) \in SUBSET Nat /\ IsFiniteSet(OnTicket(req[r].tkt))
  <2>1. Len(message) \in Nat /\ DOMAIN message = 1 .. Len(message) BY <1>1
  <2>2. OnTicket(req[r].tkt) \in SUBSET (1 .. Len(message)) BY <2>1 DEF OnTicket
  <2>3. IsFiniteSet(1 .. Len(message)) BY <2>1, FS_Interval
  <2>4. IsFiniteSet(OnTicket(req[r].tkt)) BY <2>2, <2>3, FS_Subset
  <2>5. QED BY <2>1, <2>2, <2>4
<1>4. /\ q \in Request /\ q.pc = "files" /\ q.op = req[r].op /\ q.tkt = req[r].tkt
      /\ q.into = req[r].into /\ q.row = req[r].row
      /\ q.moved = OnTicket(req[r].tkt)
  BY <1>2, <1>3 DEF Request, Pcs
<1>5. req' = [req EXCEPT ![r] = q] BY <1>1
<1> HIDE DEF q
<1>6. req'[r] = q BY <1>1, <1>5
<1>7. InFlight(r)' BY <1>1, <1>2, <1>3, <1>4, <1>6 DEF InFlight, SameDesk, Born
<1>8. QED BY <1>1, <1>4, <1>5, <1>7, StepKeeps

\* What a merge writes of the duplicate's row.
LEMMA MergedRow ==
    ASSUME NEW row \in Row, NEW t \in Tickets, now \in Stamp
    PROVE  LET want == MergedInto(row, t) IN
           /\ want \in Row /\ want.merged = t /\ want.status = "closed"
           /\ want.no = row.no /\ want.assignee = row.assignee
           /\ want.escalated = row.escalated /\ want.rating = row.rating
<1> DEFINE closed == IF row.closed = None THEN now ELSE row.closed
           resolved == IF row.resolved = None THEN now ELSE row.resolved
           want == [row EXCEPT !.merged = t, !.status = "closed",
                               !.closed = closed, !.resolved = resolved]
<1>1. closed \in Stamp /\ resolved \in Stamp BY DEF Row
<1>2. MergedInto(row, t) = want BY DEF MergedInto, Row
<1> HIDE DEF closed, resolved
<1>3. /\ want \in Row /\ want.merged = t /\ want.status = "closed"
      /\ want.no = row.no /\ want.assignee = row.assignee
      /\ want.escalated = row.escalated /\ want.rating = row.rating
  BY <1>1 DEF Row, Statuses
<1>4. QED BY <1>2, <1>3

\* What a merge will write of the duplicate closes it and names its target.
LEMMA MergeFilesKeeps ==
    ASSUME DeskInv, NEW r \in Requests, MergeFiles(r), calls' \in Nat
    PROVE  DeskInv'
<1> DEFINE row == req[r].row
           want == MergedInto(row, req[r].into)
           cols == Changed(row, want)
           q == [req[r] EXCEPT !.pc = "write", !.taken = FilesOf(req[r].tkt),
                               !.want = want, !.cols = cols]
<1>1. /\ req[r].pc = "files" /\ SameDesk /\ UNCHANGED <<now, message, file, numbering>>
      /\ req' = [req EXCEPT ![r] = q]
      /\ req \in [Requests -> Request] /\ now \in Nat
  BY DEF MergeFiles, SameDesk, At, DeskInv, TypeOK
<1>2. /\ req[r] \in Request /\ InFlight(r) /\ row \in Row /\ now \in Stamp
      /\ req[r].tkt \in Tickets /\ Born(req[r].tkt)
  BY <1>1, InHand DEF DeskInv
<1>3. /\ req[r].op = "merge" /\ req[r].into \in Tickets /\ Born(req[r].into)
      /\ row.merged = None /\ IsFiniteSet(req[r].moved)
  BY <1>1, <1>2 DEF InFlight
<1>4. /\ want \in Row /\ want.merged # None /\ want.status = "closed"
      /\ want.no = row.no /\ want.assignee = row.assignee
      /\ want.escalated = row.escalated /\ want.rating = row.rating
  BY <1>2, <1>3, MergedRow, ValuesAssumption
<1> HIDE DEF want
<1>5. /\ cols \in SUBSET Columns
      /\ "no" \notin cols
      /\ "status" \in cols <=> want.status # row.status
      /\ "assignee" \notin cols
      /\ "escalated" \notin cols
      /\ "rating" \notin cols
      /\ "merged" \in cols
  BY <1>2, <1>3, <1>4 DEF Changed, Columns
<1> HIDE DEF cols
<1>6. /\ q \in Request /\ q.pc = "write" /\ q.op = "merge" /\ q.tkt = req[r].tkt
      /\ q.into = req[r].into /\ q.row = row /\ q.want = want /\ q.cols = cols
      /\ q.moved = req[r].moved
  BY <1>2, <1>3, <1>4, <1>5 DEF Request, Pcs, FilesOf
<1> HIDE DEF q
<1>7. req'[r] = q BY <1>1
<1>8. WriteOK(req[r])'
  BY <1>4, <1>5, <1>6, <1>7 DEF WriteOK, MovesStatus, HandsOver
<1>9. InFlight(r)'
  BY <1>1, <1>2, <1>3, <1>6, <1>7, <1>8 DEF InFlight, SameDesk, Born
<1>10. QED BY <1>1, <1>6, <1>9, StepKeeps

-----------------------------------------------------------------------------
(* Steps that write tickets.                                               *)

\* No ticket loses its row, its number or its escalation flag.
Grows ==
    \A t \in Tickets : Born(t) =>
        /\ Born(t)' /\ ticket'[t].no = ticket[t].no
        /\ ticket[t].escalated => ticket'[t].escalated

\* The row a handler writes, told by what the handler is doing.
LEMMA NewRow ==
    ASSUME DeskInv, NEW r \in Requests, At(r, "write")
    PROVE  LET q == req[r]
               old == ticket[q.tkt]
               new == Counted(q, old)
           IN  /\ q \in Request /\ WriteOK(q) /\ q.tkt \in Tickets /\ Born(q.tkt)
               /\ q.row \in Row /\ q.want \in Row /\ old \in Row
               /\ new \in Row /\ new # Absent /\ new.no = old.no
               /\ new.status = (IF MovesStatus(q) THEN q.want.status ELSE old.status)
               /\ new.assignee = (IF HandsOver(q) THEN q.want.assignee ELSE old.assignee)
               /\ new.escalated = (IF "escalated" \in q.cols THEN TRUE ELSE old.escalated)
               /\ new.rating = (IF q.op = "feedback" THEN q.want.rating ELSE old.rating)
               /\ new.merged = (IF q.op = "merge" THEN q.want.merged ELSE old.merged)
<1> DEFINE q == req[r]
           old == ticket[q.tkt]
           new == Counted(q, old)
<1>1. q \in Request /\ q.row \in Row /\ WriteOK(q) /\ q.tkt \in Tickets /\ Born(q.tkt)
      /\ q.want \in Row /\ old \in Row
  BY InHand DEF DeskInv, At, InFlight, WriteOK
<1>2. /\ new \in Row
      /\ new.no = (IF "no" \in q.cols THEN q.want.no ELSE old.no)
      /\ new.status = (IF "status" \in q.cols THEN q.want.status ELSE old.status)
      /\ new.assignee = (IF "assignee" \in q.cols THEN q.want.assignee ELSE old.assignee)
      /\ new.escalated = (IF "escalated" \in q.cols THEN q.want.escalated ELSE old.escalated)
      /\ new.rating = (IF "rating" \in q.cols THEN q.want.rating ELSE old.rating)
      /\ new.merged = (IF "merged" \in q.cols THEN q.want.merged ELSE old.merged)
  BY <1>1, WrittenRow
<1>3. new # Absent BY <1>2, ValuesAssumption
<1> HIDE DEF new, old
<1>4. q.want.escalated \in BOOLEAN BY <1>1 DEF Row
<1>5. QED BY <1>1, <1>2, <1>3, <1>4 DEF WriteOK, new, old

\* What the other requests know survives such a step.
LEMMA OthersKeep ==
    ASSUME DeskInv, Grows, NEW r \in Requests, Alone(r), InFlight(r)'
    PROVE  \A o \in Requests : InFlight(o)'
<1> SUFFICES ASSUME NEW o \in Requests \ {r} PROVE InFlight(o)'
  OBVIOUS
<1>1. InFlight(o) /\ req'[o] = req[o] /\ (numbering = o => numbering' = o)
  BY DEF DeskInv, Alone
<1>2. req[o].op = "merge" => req[o].into \in Tickets /\ Born(req[o].into)'
  BY <1>1 DEF InFlight, Grows
<1>3. req[o].pc \in {"assign", "messages", "files", "write"} =>
        req[o].tkt \in Tickets /\ Born(req[o].tkt) /\ Born(req[o].tkt)'
  BY <1>1 DEF InFlight, Grows
<1>4. req[o].pc = "write" => WriteOK(req[o])'
  BY <1>1, <1>3 DEF InFlight, Grows, WriteOK, MovesStatus, HandsOver
<1>5. QED BY <1>1, <1>2, <1>3, <1>4 DEF InFlight

\* A handler that writes the ticket it loaded, and is done: the number stays,
\* a ticket it makes escalated is flagged, and the row is one.
LEMMA TicketWritten ==
    ASSUME DeskInv, NEW r \in Requests, At(r, "write"), req[r].op # "merge",
           ticket' = [ticket EXCEPT ![req[r].tkt] = Counted(req[r], @)],
           Finish(r), UNCHANGED <<now, numbering>>, calls' \in Nat,
           message' \in Seq(Message), file' \in [Files -> Tickets \cup {None, Absent}],
           trail' \in [Tickets -> [old : Statuses \cup {None}, new : Statuses \cup {None}]],
           handover' \in [Tickets -> Agents \cup {None}],
           survey' \in [Tickets -> Ratings \cup {None}],
           UnbornIsBlank', RatingMirrorsFeedback', HistoryIsCurrent'
    PROVE  DeskInv'
<1> DEFINE q == req[r]
           t == q.tkt
           new == Counted(q, ticket[t])
<1>1. TypeOK /\ q \in Request /\ WriteOK(q) /\ t \in Tickets /\ Born(t) /\ ticket[t] \in Row
  BY NewRow DEF DeskInv
<1>2. /\ new \in Row /\ new.no = ticket[t].no
      /\ new.status = (IF MovesStatus(q) THEN q.want.status ELSE ticket[t].status)
      /\ new.escalated = (IF "escalated" \in q.cols THEN TRUE ELSE ticket[t].escalated)
  BY NewRow
<1> HIDE DEF new
<1>3. ticket' = [ticket EXCEPT ![t] = new] BY DEF new
<1>4. ticket'[t] = new /\ \A s \in Tickets \ {t} : ticket'[s] = ticket[s]
  BY <1>1, <1>3 DEF TypeOK
<1>5. new # Absent BY <1>2, ValuesAssumption
<1>6. Grows BY <1>1, <1>2, <1>4, <1>5 DEF Grows, Born
<1>7. \A s \in Tickets : Born(s)' <=> Born(s) BY <1>1, <1>4, <1>5 DEF Born
<1>8. Idle \in Request /\ Idle.pc = "idle" /\ Idle.op = "none"
  BY DEF Idle, Request, Pcs
<1>9. req'[r] = Idle /\ Alone(r) BY <1>1 DEF TypeOK, Finish, Alone
<1>10. TypeOK' BY <1>1, <1>2, <1>3, <1>8 DEF TypeOK, Finish
<1>11. \A o \in Requests : InFlight(o)'
  <2>1. InFlight(r)' BY <1>8, <1>9 DEF InFlight
  <2>2. QED BY <1>6, <1>9, <2>1, OthersKeep
<1>12. NumberIsFree'
  BY <1>4, <1>6, <1>7, <1>8, <1>9 DEF DeskInv, NumberIsFree, Grows, At, Alone
<1>13. EscalatedIsFlagged'
  <2>1. new.status = "escalated" => new.escalated
    <3>1. CASE MovesStatus(q) BY <1>1, <1>2, <3>1 DEF WriteOK
    <3>2. CASE ~MovesStatus(q) BY <1>1, <1>2, <3>2 DEF DeskInv, EscalatedIsFlagged
    <3>3. QED BY <3>1, <3>2
  <2>2. QED BY <1>4, <1>7, <2>1 DEF DeskInv, EscalatedIsFlagged
<1>14. QED BY <1>10, <1>11, <1>12, <1>13 DEF DeskInv

\* The messages a handler leaves are messages.
LEMMA PostsTyped ==
    ASSUME NEW q, q.tkt \in Tickets, message \in Seq(Message)
    PROVE  message \o Posts(q) \in Seq(Message)
<1>1. /\ Line(q.tkt) \in Message
      /\ [on |-> q.tkt, reply |-> TRUE] \in Message
  BY DEF Line, Message
<1>2. Posts(q) \in Seq(Message)
  <2> DEFINE first == CASE q.op = "reply" -> <<[on |-> q.tkt, reply |-> TRUE]>>
                        [] q.op \in {"note", "assign", "raise"} -> <<Line(q.tkt)>>
                        [] OTHER -> <<>>
             second == IF MovesStatus(q) THEN <<Line(q.tkt)>> ELSE <<>>
  <2>1. first \in Seq(Message)
    <3>1. CASE q.op = "reply" BY <1>1, <3>1
    <3>2. CASE q.op \in {"note", "assign", "raise"} BY <1>1, <3>2
    <3>3. CASE q.op \notin {"reply", "note", "assign", "raise"} BY <3>3
    <3>4. QED BY <3>1, <3>2, <3>3
  <2>2. second \in Seq(Message) BY <1>1
  <2>3. Posts(q) = first \o second BY DEF Posts
  <2> HIDE DEF first, second
  <2>4. QED BY <2>1, <2>2, <2>3
<1>3. QED BY <1>2

\* A write that moves the status, or hands over, records the same move.
LEMMA WriteKeeps ==
    ASSUME DeskInv, NEW r \in Requests, Write(r), calls' \in Nat
    PROVE  DeskInv'
<1> DEFINE q == req[r]
           t == q.tkt
           new == Counted(q, ticket[t])
<1>1. /\ At(r, "write") /\ q.op \notin {"merge", "feedback", "upload", "unfile"}
      /\ ticket' = [ticket EXCEPT ![t] = Counted(q, @)]
      /\ message' = message \o Posts(q) /\ Records(q) /\ Finish(r)
      /\ UNCHANGED <<now, file, survey, numbering>> /\ TypeOK
  BY DEF Write, DeskInv
<1>2. /\ t \in Tickets /\ Born(t) /\ q.row \in Row /\ q.want \in Row /\ new # Absent
      /\ new.status = (IF MovesStatus(q) THEN q.want.status ELSE ticket[t].status)
      /\ new.assignee = (IF HandsOver(q) THEN q.want.assignee ELSE ticket[t].assignee)
      /\ new.rating = ticket[t].rating /\ new.merged = ticket[t].merged
  BY <1>1, NewRow
<1> HIDE DEF new
<1>3. ticket'[t] = new /\ \A s \in Tickets \ {t} : ticket'[s] = ticket[s]
  BY <1>1, <1>2 DEF TypeOK, new
<1>4. message' \in Seq(Message) BY <1>1, <1>2, PostsTyped DEF TypeOK
<1>5. /\ q.row.status \in Statuses /\ q.want.status \in Statuses
      /\ q.want.assignee \in Agents \cup {None}
  BY <1>2 DEF Row
<1>6. /\ trail' \in [Tickets -> [old : Statuses \cup {None}, new : Statuses \cup {None}]]
      /\ handover' \in [Tickets -> Agents \cup {None}]
  BY <1>1, <1>2, <1>5 DEF TypeOK, Records
<1>7. \A s \in Tickets : Born(s)' <=> Born(s) BY <1>2, <1>3 DEF Born
<1>8. \A s \in Tickets :
        /\ trail'[s] = (IF s = t /\ MovesStatus(q)
                          THEN [old |-> q.row.status, new |-> q.want.status] ELSE trail[s])
        /\ handover'[s] = (IF s = t /\ HandsOver(q) THEN q.want.assignee ELSE handover[s])
  BY <1>1, <1>2 DEF Records, TypeOK
<1>9. UnbornIsBlank' BY <1>1, <1>2, <1>7, <1>8 DEF DeskInv, UnbornIsBlank
<1>10. RatingMirrorsFeedback'
  BY <1>1, <1>2, <1>3, <1>7 DEF DeskInv, RatingMirrorsFeedback
<1>11. HistoryIsCurrent'
  BY <1>2, <1>3, <1>7, <1>8 DEF DeskInv, HistoryIsCurrent
<1>12. file' \in [Files -> Tickets \cup {None, Absent}] /\ survey' \in [Tickets -> Ratings \cup {None}]
  BY <1>1 DEF TypeOK
<1>13. QED
  BY <1>1, <1>4, <1>6, <1>9, <1>10, <1>11, <1>12, TicketWritten

\* Of two feedbacks the second finds the row of the first and writes nothing.
LEMMA WriteFeedbackKeeps ==
    ASSUME DeskInv, NEW r \in Requests, WriteFeedback(r), calls' \in Nat
    PROVE  DeskInv'
<1> DEFINE q == req[r]
           t == q.tkt
           new == Counted(q, ticket[t])
<1>1. /\ At(r, "write") /\ q.op = "feedback" /\ Finish(r)
      /\ survey' = [survey EXCEPT ![t] = q.want.rating]
      /\ ticket' = [ticket EXCEPT ![t] = Counted(q, @)]
      /\ UNCHANGED <<now, message, file, trail, handover, numbering>> /\ TypeOK
  BY DEF WriteFeedback, DeskInv
<1>2. /\ t \in Tickets /\ Born(t) /\ WriteOK(q) /\ new # Absent
      /\ new.status = (IF MovesStatus(q) THEN q.want.status ELSE ticket[t].status)
      /\ new.assignee = (IF HandsOver(q) THEN q.want.assignee ELSE ticket[t].assignee)
      /\ new.rating = q.want.rating /\ new.merged = ticket[t].merged
  BY <1>1, NewRow
<1>3. /\ q.want.rating \in Ratings /\ new.status = ticket[t].status
      /\ new.assignee = ticket[t].assignee
  BY <1>1, <1>2 DEF WriteOK
<1> HIDE DEF new
<1>4. ticket'[t] = new /\ \A s \in Tickets \ {t} : ticket'[s] = ticket[s]
  BY <1>1, <1>2 DEF TypeOK, new
<1>5. \A s \in Tickets : Born(s)' <=> Born(s) BY <1>2, <1>4 DEF Born
<1>6. /\ survey' \in [Tickets -> Ratings \cup {None}] /\ survey'[t] = q.want.rating
      /\ \A s \in Tickets \ {t} : survey'[s] = survey[s]
  BY <1>1, <1>2, <1>3 DEF TypeOK
<1>7. UnbornIsBlank' BY <1>1, <1>2, <1>5, <1>6 DEF DeskInv, UnbornIsBlank
<1>8. RatingMirrorsFeedback'
  BY <1>2, <1>4, <1>5, <1>6 DEF DeskInv, RatingMirrorsFeedback
<1>9. HistoryIsCurrent'
  BY <1>1, <1>2, <1>3, <1>4, <1>5 DEF DeskInv, HistoryIsCurrent
<1>10. /\ message' \in Seq(Message) /\ file' \in [Files -> Tickets \cup {None, Absent}]
       /\ trail' \in [Tickets -> [old : Statuses \cup {None}, new : Statuses \cup {None}]]
       /\ handover' \in [Tickets -> Agents \cup {None}]
  BY <1>1 DEF TypeOK
<1>11. QED BY <1>1, <1>6, <1>7, <1>8, <1>9, <1>10, TicketWritten

\* Uploading or removing an attachment leaves status and assignee alone.
LEMMA WriteFileKeeps ==
    ASSUME DeskInv, NEW r \in Requests, WriteFile(r), calls' \in Nat
    PROVE  DeskInv'
<1> DEFINE q == req[r]
           t == q.tkt
           new == Counted(q, ticket[t])
<1>1. /\ At(r, "write") /\ q.op \in {"upload", "unfile"} /\ Finish(r)
      /\ ticket' = [ticket EXCEPT ![t] = Counted(q, @)]
      /\ UNCHANGED <<now, message, trail, handover, survey, numbering>> /\ TypeOK
  BY DEF WriteFile, DeskInv
<1>2. /\ t \in Tickets /\ Born(t) /\ WriteOK(q) /\ new # Absent
      /\ new.status = (IF MovesStatus(q) THEN q.want.status ELSE ticket[t].status)
      /\ new.assignee = (IF HandsOver(q) THEN q.want.assignee ELSE ticket[t].assignee)
      /\ new.rating = ticket[t].rating /\ new.merged = ticket[t].merged
  BY <1>1, NewRow
<1>3. /\ new.status = ticket[t].status /\ new.assignee = ticket[t].assignee
      /\ q.op = "unfile" => q.file \in Files
  BY <1>1, <1>2 DEF WriteOK
<1> HIDE DEF new
<1>4. ticket'[t] = new /\ \A s \in Tickets \ {t} : ticket'[s] = ticket[s]
  BY <1>1, <1>2 DEF TypeOK, new
<1>5. \A s \in Tickets : Born(s)' <=> Born(s) BY <1>2, <1>4 DEF Born
<1>6. file' \in [Files -> Tickets \cup {None, Absent}]
  BY <1>1, <1>2, <1>3 DEF WriteFile, TypeOK
<1>7. UnbornIsBlank' /\ RatingMirrorsFeedback' /\ HistoryIsCurrent'
  BY <1>1, <1>2, <1>3, <1>4, <1>5
     DEF DeskInv, UnbornIsBlank, RatingMirrorsFeedback, HistoryIsCurrent
<1>8. /\ message' \in Seq(Message) /\ survey' \in [Tickets -> Ratings \cup {None}]
      /\ trail' \in [Tickets -> [old : Statuses \cup {None}, new : Statuses \cup {None}]]
      /\ handover' \in [Tickets -> Agents \cup {None}]
  BY <1>1 DEF TypeOK
<1>9. QED BY <1>1, <1>6, <1>7, <1>8, TicketWritten

\* Messages moved to another ticket are still messages.
LEMMA MovedTyped ==
    ASSUME message \in Seq(Message), NEW moved, NEW t \in Tickets
    PROVE  [i \in DOMAIN message |->
              IF i \in moved THEN [message[i] EXCEPT !.on = t] ELSE message[i]]
           \in Seq(Message)
<1> DEFINE f(i) == IF i \in moved THEN [message[i] EXCEPT !.on = t] ELSE message[i]
<1>1. Len(message) \in Nat /\ DOMAIN message = 1 .. Len(message) OBVIOUS
<1>2. ASSUME NEW i \in 1 .. Len(message) PROVE f(i) \in Message
  <2>1. message[i] \in Message OBVIOUS
  <2>2. QED BY <2>1 DEF Message
<1> HIDE DEF f
<1>3. [i \in 1 .. Len(message) |-> f(i)] \in Seq(Message) BY <1>1, <1>2
<1>4. QED BY <1>1, <1>3 DEF f

\* The two tickets a merge writes, should they be one or two.
LEMMA MergeWritten ==
    ASSUME DeskInv, NEW r \in Requests, WriteMerge(r)
    PROVE  LET q == req[r] IN
           /\ ticket' \in [Tickets -> Row \cup {Absent}]
           /\ q.tkt \in Tickets /\ Born(q.tkt) /\ WriteOK(q)
           /\ \A x \in Tickets : Born(x)' <=> Born(x)
           /\ \A x \in Tickets : Born(x) =>
                /\ ticket'[x].no = ticket[x].no
                /\ ticket'[x].rating = ticket[x].rating
                /\ ticket'[x].assignee = ticket[x].assignee
                /\ ticket'[x].escalated =
                     (IF x = q.tkt /\ "escalated" \in q.cols THEN TRUE ELSE ticket[x].escalated)
                /\ ticket'[x].status =
                     (IF x = q.tkt /\ MovesStatus(q) THEN q.want.status ELSE ticket[x].status)
                /\ ticket'[x].merged =
                     (IF x = q.tkt THEN q.want.merged ELSE ticket[x].merged)
<1> DEFINE q == req[r]
           s == q.tkt
           t == q.into
           source == Written(q, ticket[s])
           base == [x \in Tickets |-> IF x = s THEN source ELSE ticket[x]]
           n == Cardinality(q.moved)
           m == Cardinality(q.taken)
           into == [base[t] EXCEPT !.replies = @ + n, !.files = @ + m]
<1>1. /\ At(r, "write") /\ q.op = "merge" /\ TypeOK /\ InFlight(r)
      /\ ticket' = [x \in Tickets |->
            LET row == IF x = s THEN source ELSE ticket[x] IN
            IF x # t THEN row ELSE [row EXCEPT !.replies = @ + n, !.files = @ + m]]
  BY DEF WriteMerge, DeskInv
<1>2. /\ q \in Request /\ WriteOK(q) /\ s \in Tickets /\ Born(s)
      /\ t \in Tickets /\ Born(t) /\ ticket[t] \in Row /\ IsFiniteSet(q.moved)
  BY <1>1, NewRow, FoundRow DEF InFlight
<1>3. Counted(q, ticket[s]) = source BY <1>1 DEF Counted
<1>4. /\ source \in Row /\ source # Absent /\ source.no = ticket[s].no
      /\ source.status = (IF MovesStatus(q) THEN q.want.status ELSE ticket[s].status)
      /\ source.assignee = ticket[s].assignee
      /\ source.escalated = (IF "escalated" \in q.cols THEN TRUE ELSE ticket[s].escalated)
      /\ source.rating = ticket[s].rating /\ source.merged = q.want.merged
  BY <1>1, <1>2, <1>3, NewRow DEF WriteOK
<1>5. n \in Nat BY <1>2, FS_CardinalityType
<1>6. m \in Nat
  <2>1. q.taken \in SUBSET Files BY <1>2 DEF Request
  <2>2. QED BY <2>1, FilesAssumption, FS_Subset, FS_CardinalityType
<1> HIDE DEF source, n, m
<1>7. /\ base \in [Tickets -> Row \cup {Absent}] /\ base[s] = source
      /\ \A x \in Tickets \ {s} : base[x] = ticket[x]
      /\ base[t] \in Row
  BY <1>1, <1>2, <1>4 DEF TypeOK
<1>8. ticket' = [x \in Tickets |-> IF x # t THEN base[x] ELSE into]
  BY <1>1
<1> HIDE DEF base
<1>9. /\ into \in Row /\ into.no = base[t].no /\ into.rating = base[t].rating
      /\ into.assignee = base[t].assignee /\ into.escalated = base[t].escalated
      /\ into.status = base[t].status /\ into.merged = base[t].merged
  <2> DEFINE row == base[t]
             replies == row.replies + n
             files == row.files + m
  <2>1. replies \in Nat /\ files \in Int BY <1>5, <1>6, <1>7 DEF Row
  <2>2. into = [row EXCEPT !.replies = replies, !.files = files] OBVIOUS
  <2>3. row \in Row BY <1>7
  <2> HIDE DEF into, row, replies, files
  <2>4. into = [[row EXCEPT !.replies = replies] EXCEPT !.files = files] BY <2>2
  <2>5. [row EXCEPT !.replies = replies] \in Row BY <2>1, <2>3 DEF Row
  <2>6. into \in Row BY <2>1, <2>4, <2>5 DEF Row
  <2>7. /\ into.no = row.no /\ into.rating = row.rating
        /\ into.assignee = row.assignee /\ into.escalated = row.escalated
        /\ into.status = row.status /\ into.merged = row.merged
    BY <2>2, <2>3 DEF Row
  <2>8. QED BY <2>6, <2>7 DEF row
<1>10. into # Absent BY <1>9, ValuesAssumption
<1> HIDE DEF into
<1>11. /\ ticket' \in [Tickets -> Row \cup {Absent}] /\ ticket'[t] = into
       /\ \A x \in Tickets \ {t} : ticket'[x] = base[x]
  BY <1>2, <1>7, <1>8, <1>9
<1>12. \A x \in Tickets : Born(x)' <=> Born(x)
  BY <1>2, <1>4, <1>7, <1>10, <1>11 DEF Born
<1>13. ASSUME NEW x \in Tickets, Born(x)
       PROVE  /\ ticket'[x].no = base[x].no /\ ticket'[x].rating = base[x].rating
              /\ ticket'[x].assignee = base[x].assignee
              /\ ticket'[x].escalated = base[x].escalated
              /\ ticket'[x].status = base[x].status /\ ticket'[x].merged = base[x].merged
  BY <1>9, <1>11
<1>14. ASSUME NEW x \in Tickets, Born(x)
       PROVE  /\ ticket'[x].no = ticket[x].no /\ ticket'[x].rating = ticket[x].rating
              /\ ticket'[x].assignee = ticket[x].assignee
              /\ ticket'[x].escalated =
                   (IF x = s /\ "escalated" \in q.cols THEN TRUE ELSE ticket[x].escalated)
              /\ ticket'[x].status =
                   (IF x = s /\ MovesStatus(q) THEN q.want.status ELSE ticket[x].status)
              /\ ticket'[x].merged = (IF x = s THEN q.want.merged ELSE ticket[x].merged)
  <2>1. CASE x = s
    <3>1. base[x] = source BY <1>7, <2>1
    <3>2. /\ ticket'[x].no = source.no /\ ticket'[x].rating = source.rating
          /\ ticket'[x].assignee = source.assignee /\ ticket'[x].status = source.status
          /\ ticket'[x].escalated = source.escalated /\ ticket'[x].merged = source.merged
      BY <1>13, <1>14, <3>1
    <3>3. QED BY <1>4, <2>1, <3>2
  <2>2. CASE x # s BY <1>7, <1>13, <1>14, <2>2
  <2>3. QED BY <2>1, <2>2
<1> HIDE DEF q, s, t
<1>15. QED
  BY <1>2, <1>11, <1>12, <1>14 DEF q, s

\* A merge closes the duplicate for good and moves what it read of it.
LEMMA WriteMergeKeeps ==
    ASSUME DeskInv, NEW r \in Requests, WriteMerge(r), calls' \in Nat
    PROVE  DeskInv'
<1> DEFINE q == req[r]
           s == q.tkt
           source == Written(q, ticket[s])
<1>1. /\ At(r, "write") /\ q.op = "merge" /\ Finish(r) /\ TypeOK
      /\ message' = [i \in DOMAIN message |->
            IF i \in q.moved THEN [message[i] EXCEPT !.on = q.into] ELSE message[i]]
      /\ file' = [f \in Files |->
            IF f \in q.taken /\ file[f] # None THEN q.into ELSE file[f]]
      /\ trail' = [trail EXCEPT ![s] = [old |-> source.status, new |-> "closed"]]
      /\ UNCHANGED <<now, handover, survey, numbering>>
  BY DEF WriteMerge, DeskInv
<1>2. /\ ticket' \in [Tickets -> Row \cup {Absent}] /\ s \in Tickets /\ Born(s) /\ WriteOK(q)
      /\ \A x \in Tickets : Born(x)' <=> Born(x)
      /\ \A x \in Tickets : Born(x) =>
           /\ ticket'[x].no = ticket[x].no /\ ticket'[x].rating = ticket[x].rating
           /\ ticket'[x].assignee = ticket[x].assignee
           /\ ticket'[x].escalated =
                (IF x = s /\ "escalated" \in q.cols THEN TRUE ELSE ticket[x].escalated)
           /\ ticket'[x].status =
                (IF x = s /\ MovesStatus(q) THEN q.want.status ELSE ticket[x].status)
           /\ ticket'[x].merged = (IF x = s THEN q.want.merged ELSE ticket[x].merged)
  BY MergeWritten
<1>3. q.into \in Tickets /\ q.want.merged # None
  BY <1>1, <1>2 DEF DeskInv, InFlight, WriteOK
<1>4. source.status \in Statuses
  <2>1. Counted(q, ticket[s]) = source BY <1>1 DEF Counted
  <2>2. source \in Row BY <1>1, <2>1, NewRow
  <2>3. QED BY <2>2 DEF Row
<1> HIDE DEF source
<1>5. /\ trail' \in [Tickets -> [old : Statuses \cup {None}, new : Statuses \cup {None}]]
      /\ \A x \in Tickets \ {s} : trail'[x] = trail[x]
  BY <1>1, <1>2, <1>4 DEF TypeOK, Statuses
<1>6. message' \in Seq(Message) BY <1>1, <1>3, MovedTyped DEF TypeOK
<1>7. file' \in [Files -> Tickets \cup {None, Absent}] BY <1>1, <1>3 DEF TypeOK
<1>8. Idle \in Request /\ Idle.pc = "idle" /\ Idle.op = "none"
  BY DEF Idle, Request, Pcs
<1>9. req'[r] = Idle /\ Alone(r) BY <1>1 DEF TypeOK, Finish, Alone
<1>10. TypeOK'
  BY <1>1, <1>2, <1>5, <1>6, <1>7, <1>8 DEF TypeOK, Finish
<1>11. \A o \in Requests : InFlight(o)'
  <2>1. InFlight(r)' BY <1>8, <1>9 DEF InFlight
  <2>2. Grows BY <1>2 DEF Grows
  <2>3. QED BY <1>9, <2>1, <2>2, OthersKeep
<1>12. NumberIsFree'
  <2> DEFINE Stays(x) == Born(x) /\ ticket'[x].no = ticket[x].no
  <2>4. \A x \in Tickets : Born(x)' => Stays(x) BY <1>2
  <2>5. NumberIsFree BY DEF DeskInv
  <2>1. \A x, y \in Tickets : x # y /\ Born(x)' /\ Born(y)' => ticket'[x].no # ticket'[y].no
    BY <2>4, <2>5 DEF NumberIsFree
  <2>2. ASSUME NEW o \in Requests, At(o, "insert")', NEW x \in Tickets, Born(x)'
        PROVE  ticket'[x].no # req'[o].no
    <3>1. o # r /\ req'[o] = req[o] BY <1>8, <1>9, <2>2 DEF At, Alone
    <3>2. QED BY <2>2, <2>4, <2>5, <3>1 DEF NumberIsFree, At
  <2>3. QED BY <2>1, <2>2 DEF NumberIsFree
<1>13. EscalatedIsFlagged'
  <2> SUFFICES ASSUME NEW x \in Tickets, Born(x), ticket'[x].status = "escalated"
               PROVE  ticket'[x].escalated
    BY <1>2 DEF EscalatedIsFlagged
  <2>1. CASE x = s /\ MovesStatus(q) BY <1>2, <2>1 DEF WriteOK
  <2>2. CASE ~(x = s /\ MovesStatus(q)) BY <1>2, <2>2 DEF DeskInv, EscalatedIsFlagged
  <2>3. QED BY <2>1, <2>2
<1>14. UnbornIsBlank' /\ RatingMirrorsFeedback' /\ HistoryIsCurrent'
  <2>1. UnbornIsBlank' BY <1>1, <1>2 DEF DeskInv, UnbornIsBlank
  <2>2. RatingMirrorsFeedback' BY <1>1, <1>2 DEF DeskInv, RatingMirrorsFeedback
  <2>3. ASSUME NEW x \in Tickets, Born(x)'
        PROVE  /\ (ticket'[x].merged = None => trail'[x].new = ticket'[x].status)
               /\ handover'[x] = ticket'[x].assignee
    <3>1. Born(x) /\ handover' = handover BY <1>1, <1>2, <2>3
    <3>2. /\ ticket[x].merged = None => trail[x].new = ticket[x].status
          /\ handover[x] = ticket[x].assignee
      BY <3>1 DEF DeskInv, HistoryIsCurrent
    <3>3. CASE x = s BY <1>2, <1>3, <3>1, <3>2, <3>3
    <3>4. CASE x # s BY <1>2, <1>5, <3>1, <3>2, <3>4
    <3>5. QED BY <3>3, <3>4
  <2>4. HistoryIsCurrent' BY <2>3 DEF HistoryIsCurrent
  <2>5. QED BY <2>1, <2>2, <2>4
<1>15. QED BY <1>10, <1>11, <1>12, <1>13, <1>14 DEF DeskInv

\* A ticket is inserted with the number its request reserved: the lock is held,
\* so no other request has reserved one.
LEMMA InsertKeeps ==
    ASSUME DeskInv, NEW r \in Requests, Insert(r), calls' \in Nat
    PROVE  DeskInv'
<1> DEFINE n == req[r].no
           new == Raised(n)
<1>1. PICK t \in Tickets :
        /\ ~Born(t)
        /\ ticket' = [ticket EXCEPT ![t] = new]
        /\ trail' = [trail EXCEPT ![t] = [old |-> None, new |-> "open"]]
        /\ req' = [req EXCEPT ![r] = IF @.op = "create" THEN Idle ELSE
                      [@ EXCEPT !.pc = "assign", !.tkt = t, !.row = new]]
  BY DEF Insert
<1> DEFINE q == IF req[r].op = "create" THEN Idle
                ELSE [req[r] EXCEPT !.pc = "assign", !.tkt = t, !.row = new]
<1>2. /\ At(r, "insert") /\ TypeOK /\ InFlight(r) /\ numbering' = None
      /\ UNCHANGED <<now, message, file, handover, survey>>
  BY DEF Insert, DeskInv
<1>3. /\ numbering = r /\ n \in Nat \ {0} /\ req[r].op \in {"create", "raise"}
      /\ req[r] \in Request
  BY <1>2 DEF InFlight, At, TypeOK, Request
<1>4. /\ new \in Row /\ new.no = n /\ new.status = "open" /\ new.rating = None
      /\ new.assignee = None /\ new.merged = None
  BY <1>3 DEF Raised, Row, Statuses, Stamp
<1>5. new # Absent BY <1>4, ValuesAssumption
<1> HIDE DEF new
<1>6. Idle \in Request /\ Idle.pc = "idle" /\ Idle.op = "none"
  BY DEF Idle, Request, Pcs
<1>7. /\ q \in Request /\ q.op # "merge"
      /\ q.pc = "idle" \/ (q.pc = "assign" /\ q.op = "raise" /\ q.tkt = t /\ q.row = new)
  <2>1. CASE req[r].op = "create" BY <1>6, <2>1
  <2>2. CASE req[r].op = "raise" BY <1>3, <1>4, <2>2 DEF Request, Pcs
  <2>3. QED BY <1>3, <2>1, <2>2
<1>8. req' = [req EXCEPT ![r] = q] BY <1>1
<1> HIDE DEF q
<1>9. req'[r] = q /\ Alone(r)
  BY <1>2, <1>3, <1>8 DEF TypeOK, Alone
<1>10. /\ ticket'[t] = new /\ trail'[t].new = "open"
       /\ \A s \in Tickets \ {t} : ticket'[s] = ticket[s] /\ trail'[s] = trail[s]
  BY <1>1, <1>2 DEF TypeOK
<1>11. TypeOK'
  <2>1. trail' \in [Tickets -> [old : Statuses \cup {None}, new : Statuses \cup {None}]]
    BY <1>1, <1>2 DEF TypeOK, Statuses
  <2>2. ticket' \in [Tickets -> Row \cup {Absent}] BY <1>1, <1>2, <1>4 DEF TypeOK
  <2>3. req' \in [Requests -> Request] BY <1>2, <1>7, <1>8 DEF TypeOK
  <2>4. QED BY <1>2, <2>1, <2>2, <2>3 DEF TypeOK
<1>12. Born(t)' /\ \A s \in Tickets \ {t} : Born(s)' <=> Born(s)
  BY <1>5, <1>10 DEF Born
<1>13. \A o \in Requests : InFlight(o)'
  <2>1. InFlight(r)' BY <1>4, <1>7, <1>9, <1>12 DEF InFlight
  <2>2. Grows BY <1>1, <1>10, <1>12 DEF Grows
  <2>3. QED BY <1>9, <2>1, <2>2, OthersKeep
<1>14. NumberIsFree'
  <2>1. \A s \in Tickets : Born(s) => ticket[s].no # n
    BY <1>2 DEF DeskInv, NumberIsFree
  <2>2. \A s, x \in Tickets : s # x /\ Born(s)' /\ Born(x)' => ticket'[s].no # ticket'[x].no
    BY <1>4, <1>10, <1>12, <2>1 DEF DeskInv, NumberIsFree
  <2>3. \A o \in Requests : ~At(o, "insert")'
    <3> SUFFICES ASSUME NEW o \in Requests, At(o, "insert")' PROVE FALSE OBVIOUS
    <3>1. o # r BY <1>7, <1>9 DEF At
    <3>2. req[o].pc = "insert" BY <1>9, <3>1 DEF At, Alone
    <3>3. numbering = o BY <3>2 DEF DeskInv, InFlight
    <3>4. QED BY <1>3, <3>1, <3>3
  <2>4. QED BY <2>2, <2>3 DEF NumberIsFree
<1>15. UnbornIsBlank' BY <1>2, <1>12 DEF DeskInv, UnbornIsBlank
<1>16. RatingMirrorsFeedback'
  BY <1>1, <1>2, <1>4, <1>10, <1>12 DEF DeskInv, UnbornIsBlank, RatingMirrorsFeedback
<1>17. EscalatedIsFlagged'
  BY <1>4, <1>10, <1>12 DEF DeskInv, EscalatedIsFlagged
<1>18. HistoryIsCurrent'
  BY <1>1, <1>2, <1>4, <1>10, <1>12 DEF DeskInv, UnbornIsBlank, HistoryIsCurrent
<1>19. QED BY <1>11, <1>13, <1>14, <1>15, <1>16, <1>17, <1>18 DEF DeskInv

-----------------------------------------------------------------------------
(* The invariant.                                                          *)

\* The empty desk.
LEMMA InitInv == ASSUME Init PROVE DeskInv
<1>1. /\ Idle \in Request /\ Idle.pc = "idle" /\ Idle.op = "none"
      /\ \A t \in Tickets : ~Born(t)
      /\ \A r \in Requests : req[r] = Idle
  BY DEF Idle, Request, Pcs, Init, Born
<1>2. TypeOK BY <1>1 DEF Init, TypeOK
<1>3. \A r \in Requests : InFlight(r) BY <1>1 DEF InFlight
<1>4. UnbornIsBlank BY DEF Init, UnbornIsBlank
<1>5. NumberIsFree /\ RatingMirrorsFeedback /\ EscalatedIsFlagged /\ HistoryIsCurrent
  BY <1>1 DEF NumberIsFree, RatingMirrorsFeedback, EscalatedIsFlagged, HistoryIsCurrent, At
<1>6. QED BY <1>2, <1>3, <1>4, <1>5 DEF DeskInv

\* Every call keeps the invariant.
LEMMA ArriveKeeps ==
    ASSUME DeskInv, NEW r \in Requests, Arrive(r), calls' \in Nat
    PROVE  DeskInv'
<1>1. CASE \E op \in {"create", "raise"} : Number(r, op) BY <1>1, NumberKeeps
<1>2. CASE \E t \in Tickets, who \in Actors : Reply(r, who, t) BY <1>2, ReplyKeeps
<1>3. CASE \E t \in Tickets, who \in Actors : Close(r, who, t) BY <1>3, CloseKeeps
<1>4. CASE \E t \in Tickets, who \in Actors : Reopen(r, who, t) BY <1>4, ReopenKeeps
<1>5. CASE \E t \in Tickets, who \in Actors : Upload(r, who, t) BY <1>5, UploadKeeps
<1>6. CASE \E t \in Tickets : Note(r, t) BY <1>6, NoteKeeps
<1>7. CASE \E t \in Tickets : Delete(r, t) BY <1>7, DeleteKeeps
<1>8. CASE \E t \in Tickets : Restore(r, t) BY <1>8, RestoreKeeps
<1>9. CASE \E t \in Tickets, to \in Agents \cup {None} : Assign(r, t, to)
  BY <1>9, AssignKeeps
<1>10. CASE \E t \in Tickets, who \in Staff, to \in Statuses : ChangeStatus(r, who, t, to)
  BY <1>10, ChangeStatusKeeps
<1>11. CASE \E t \in Tickets, who \in Staff, to \in Agents \cup {None} :
              Escalate(r, who, t, to)
  BY <1>11, EscalateKeeps
<1>12. CASE \E t \in Tickets, rating \in Ratings : Feedback(r, t, rating)
  BY <1>12, FeedbackKeeps
<1>13. CASE \E f \in Files : Unfile(r, f) BY <1>13, UnfileKeeps
<1>14. CASE \E s, t \in Tickets : Merge(r, s, t) BY <1>14, MergeKeeps
<1>15. QED
  BY <1>1, <1>2, <1>3, <1>4, <1>5, <1>6, <1>7, <1>8, <1>9, <1>10, <1>11, <1>12,
     <1>13, <1>14 DEF Arrive

\* Every later step of a handler keeps it.
LEMMA HandleKeeps ==
    ASSUME DeskInv, NEW r \in Requests, Handle(r), calls' \in Nat
    PROVE  DeskInv'
  BY InsertKeeps, ReprioritiseKeeps, AssignRaisedKeeps, AssignNothingKeeps,
     WriteKeeps, WriteFeedbackKeeps, WriteFileKeeps, RefusedKeeps,
     MergeMessagesKeeps, MergeFilesKeeps, WriteMergeKeeps DEF Handle

\* What no step writes keeps the invariant.
LEMMA StutterKeeps == ASSUME DeskInv, UNCHANGED vars PROVE DeskInv'
<1>1. /\ UNCHANGED <<now, ticket, message, file, trail, handover, survey, numbering, req, calls>>
      /\ TypeOK
  BY DEF vars, DeskInv
<1>2. TypeOK' BY <1>1 DEF TypeOK
<1>3. \A r \in Requests : InFlight(r)'
  <2> SUFFICES ASSUME NEW r \in Requests PROVE InFlight(r)' OBVIOUS
  <2>1. InFlight(r) BY DEF DeskInv
  <2>2. QED BY <1>1, <2>1 DEF InFlight, WriteOK, Born, MovesStatus, HandsOver
<1>4. UnbornIsBlank' /\ NumberIsFree' /\ RatingMirrorsFeedback' /\ EscalatedIsFlagged'
      /\ HistoryIsCurrent'
  BY <1>1 DEF DeskInv, UnbornIsBlank, NumberIsFree, RatingMirrorsFeedback,
              EscalatedIsFlagged, HistoryIsCurrent, Born, At
<1>5. QED BY <1>2, <1>3, <1>4 DEF DeskInv

\* Every step keeps it.
LEMMA NextKeeps == ASSUME DeskInv, [Next]_vars PROVE DeskInv'
<1>1. calls \in Nat BY DEF DeskInv, TypeOK
<1>2. CASE \E r \in Requests : Call(r)
  <2>1. calls' \in Nat BY <1>1, <1>2 DEF Call
  <2>2. QED BY <1>2, <2>1, ArriveKeeps DEF Call
<1>3. CASE (\E r \in Requests : Handle(r) \/ Crash(r)) /\ UNCHANGED calls
  BY <1>1, <1>3, HandleKeeps, CrashKeeps
<1>4. CASE Tick /\ UNCHANGED calls BY <1>1, <1>4, TickKeeps
<1>5. CASE UNCHANGED vars BY <1>5, StutterKeeps
<1>6. QED BY <1>2, <1>3, <1>4, <1>5 DEF Next

\* Whatever overlaps, each handler in flight knows what it holds, and no
\* column it writes breaks what the desk promises.
THEOREM DeskInvariant == Spec => []DeskInv
<1>1. Init => DeskInv BY InitInv
<1>2. DeskInv /\ [Next]_vars => DeskInv' BY NextKeeps
<1>3. QED BY <1>1, <1>2, PTL DEF Spec

\* Every variable keeps its type.
THEOREM Typed == Spec => []TypeOK
<1>1. DeskInv => TypeOK BY DEF DeskInv
<1>2. QED BY <1>1, DeskInvariant, PTL

\* No two tickets ever get the same number.
THEOREM NumbersDistinct == Spec => []NumberIsFree
<1>1. DeskInv => NumberIsFree BY DEF DeskInv
<1>2. QED BY <1>1, DeskInvariant, PTL

\* The rating shown is the one given, however many feedbacks arrive together.
THEOREM RatingsAgree == Spec => []RatingMirrorsFeedback
<1>1. DeskInv => RatingMirrorsFeedback BY DEF DeskInv
<1>2. QED BY <1>1, DeskInvariant, PTL

\* A ticket stands as escalated only with its flag set, even when the handler
\* that escalated it and another that moved it wrote in either order.
THEOREM EscalationsFlagged == Spec => []EscalatedIsFlagged
<1>1. DeskInv => EscalatedIsFlagged BY DEF DeskInv
<1>2. QED BY <1>1, DeskInvariant, PTL

\* The status and assignment histories end where the ticket stands, although
\* each row is told from what its handler loaded.
THEOREM HistoriesCurrent == Spec => []HistoryIsCurrent
<1>1. DeskInv => HistoryIsCurrent BY DEF DeskInv
<1>2. QED BY <1>1, DeskInvariant, PTL
=============================================================================
