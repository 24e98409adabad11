-------------------------- MODULE AuthAloneProofs --------------------------
(***************************************************************************)
(* What AuthSessions promises while requests do not overlap, proved for an *)
(* instance with at most one handler and any number of accounts, tokens,   *)
(* links and passwords.  Crashes may still cut a request short anywhere.   *)
(* Each invariant here strengthens one property, over HandlerInv.          *)
(***************************************************************************)
EXTENDS AuthHandlersProofs, FiniteSetTheorems

USE DEF At, Exists, IsLive, Live

\* Requests come one at a time.
Alone == \A q, r \in Requests : q = r

-----------------------------------------------------------------------------
(* With one handler, the newest rows are the rows its commit publishes.    *)

\* Nobody but r holds a row.
LEMMA AloneHolds ==
    ASSUME Alone, HandlerInv, NEW r \in Requests
    PROVE  /\ \A u \in Users : userLock[u] \in {None, r}
           /\ \A t \in Tokens : sessLock[t] \in {None, r}
           /\ \A l \in Links : linkLock[l] \in {None, r}
           /\ \A u \in Users : userLock[u] # r => userW[u] = user[u]
           /\ \A t \in Tokens : sessLock[t] # r => sessW[t] = sess[t]
           /\ \A l \in Links : linkLock[l] # r => linkW[l] = link[l]
  <1>1. /\ \A u \in Users : userLock[u] \in {None, r}
        /\ \A t \in Tokens : sessLock[t] \in {None, r}
        /\ \A l \in Links : linkLock[l] \in {None, r}
    BY HandlerTypes DEF Alone, UsersTyped, SessionsTyped, LinksTyped
  <1>2. QED
    BY <1>1, NoneAssumption
    DEF HandlerInv, HeldOK, UserLocksOK, SessLocksOK, LinkLocksOK

\* A commit makes the newest rows the committed ones.
LEMMA AlonePublish ==
    ASSUME Alone, HandlerInv, NEW r \in Requests, Publish(r)
    PROVE  /\ \A u \in Users : user'[u] = userW[u] /\ userW'[u] = userW[u]
           /\ \A t \in Tokens : sess'[t] = sessW[t] /\ sessW'[t] = sessW[t]
           /\ \A l \in Links : link'[l] = linkW[l] /\ linkW'[l] = linkW[l]
  BY AloneHolds DEF Publish

\* A rollback makes the committed rows the newest ones.
LEMMA AloneDiscard ==
    ASSUME Alone, HandlerInv, NEW r \in Requests, Discard(r)
    PROVE  /\ \A u \in Users : userW'[u] = user[u] /\ user'[u] = user[u]
           /\ \A t \in Tokens : sessW'[t] = sess[t] /\ sess'[t] = sess[t]
           /\ \A l \in Links : linkW'[l] = link[l] /\ link'[l] = link[l]
  BY AloneHolds DEF Discard

\* The one request after a step that moves r on.
LEMMA AloneRecord ==
    ASSUME Alone, HandlerInv, NEW r \in Requests, NEW q, req' = [req EXCEPT ![r] = q]
    PROVE  \A s \in Requests : s = r /\ req'[s] = q
  BY HandlerTypes DEF Alone, ReqTyped

-----------------------------------------------------------------------------
(* A refresh token works exactly once.                                     *)

\* No two sessions, committed or about to be, renew the same one; and the
\* session a refresh is about to end is still live and its own account's.
RotateInv ==
    /\ \A s, t \in Tokens : s # t /\ sessW[s] # Absent /\ sessW[t] # Absent =>
          origin[s].parent = None \/ origin[s].parent # origin[t].parent
    /\ \A r \in Requests : req[r].pc = "rotate" =>
          IsLive(sess[req[r].tok]) /\ sess[req[r].tok].user = req[r].user

\* What has been renewed, by a session committed or not, is not live.
LEMMA RenewedIsEnded ==
    ASSUME HandlerInv, NEW t \in Tokens, sessW[t] # Absent, origin[t].parent # None
    PROVE  ~IsLive(sessW[origin[t].parent])
  <1>1. ParentOK(t) /\ origin[t].parent \in Tokens
    BY HandlerTypes DEF HandlerInv, SessionInv, ParentsOK, OriginTyped
  <1>2. QED
    BY <1>1 DEF ParentOK, HandlerInv, SessionInv, SessRowsOK

\* A step that writes no session and starts no refresh.
LEMMA RotateQuiet ==
    ASSUME RotateInv, UNCHANGED <<sessVars, origin>>,
           \A r \in Requests : req'[r].pc = "rotate" => req'[r] = req[r]
    PROVE  RotateInv'
  BY DEF RotateInv, sessVars

\* A step that opens at most session t, and ends others.
LEMMA RotateFlush ==
    ASSUME Alone, HandlerInv, RotateInv, NEW r \in Requests, NEW q, q.pc # "rotate",
           req' = [req EXCEPT ![r] = q],
           NEW T \in SUBSET Tokens, NEW N \in SUBSET Tokens, NEW why, NEW row,
           WriteSessions(r, T, why, N, row), \A t \in T : sessW[t] # Absent,
           \A t \in Tokens \ N : origin'[t] = origin[t],
           \A t \in N : /\ N = {t}
                        /\ origin'[t].parent # None =>
                             \A s \in Tokens \ {t} : sessW[s] # Absent =>
                                 origin[s].parent # origin'[t].parent
    PROVE  RotateInv'
  <1>1. \A s \in Requests : req'[s].pc # "rotate"
    BY AloneRecord
  <1>2. \A t \in Tokens \ N : sessW'[t] # Absent => sessW[t] # Absent
    BY DEF WriteSessions
  <1>3. ASSUME NEW s \in Tokens, NEW t \in Tokens, s # t,
               sessW'[s] # Absent, sessW'[t] # Absent
        PROVE  origin'[s].parent = None \/ origin'[s].parent # origin'[t].parent
    <2>1. CASE s \notin N /\ t \notin N
      BY <1>2, <1>3, <2>1 DEF RotateInv
    <2>2. CASE s \in N \/ t \in N
      BY <1>2, <1>3, <2>2
    <2>3. QED
      BY <2>1, <2>2
  <1>4. QED
    BY <1>1, <1>3 DEF RotateInv

\* A commit.
LEMMA RotatePublish ==
    ASSUME Alone, HandlerInv, RotateInv, NEW r \in Requests, NEW q, q.pc # "rotate",
           req' = [req EXCEPT ![r] = q], Publish(r), UNCHANGED origin
    PROVE  RotateInv'
  <1>1. \A s \in Requests : req'[s].pc # "rotate"
    BY AloneRecord
  <1>2. sessW' = sessW
    BY DEF Publish
  <1>3. QED
    BY <1>1, <1>2 DEF RotateInv

\* A rollback: what is left was there before.
LEMMA RotateRollback ==
    ASSUME Alone, HandlerInv, RotateInv, NEW r \in Requests, Rollback(r)
    PROVE  RotateInv'
  <1>1. \A t \in Tokens : sessW'[t] # Absent => sessW[t] # Absent /\ origin'[t] = origin[t]
    BY AloneDiscard DEF Rollback, HandlerInv, SessionInv, SessRowsOK
  <1>2. \A s \in Requests : req'[s] = Idle
    BY AloneRecord DEF Rollback
  <1>3. QED
    BY <1>1, <1>2 DEF RotateInv, Idle

\* Every step.
LEMMA RotateStep ==
    ASSUME Alone, HandlerInv, RotateInv, [Next]_vars
    PROVE  RotateInv'
  <1>0. ReqTyped /\ OriginTyped
    BY HandlerTypes
  <1>1. ASSUME NEW r \in Requests, NEW op, NEW pc, NEW u, NEW t, NEW l, NEW p,
               Begin(r, op, pc, u, t, l, p),
               pc = "rotate" => IsLive(sess[t]) /\ sess[t].user = u
        PROVE  RotateInv'
    <2> DEFINE q == [Idle EXCEPT !.op = op, !.pc = pc, !.user = u, !.tok = t,
                                 !.link = l, !.pwd = p, !.at = now]
    <2>1. q.pc = pc /\ q.tok = t /\ q.user = u
      BY DEF Idle
    <2>2. req' = [req EXCEPT ![r] = q] /\ UNCHANGED <<sessVars, origin>>
      BY <1>1 DEF Begin, history
    <2> HIDE DEF q
    <2>3. QED
      BY <1>1, <2>1, <2>2, AloneRecord DEF RotateInv, sessVars
  <1>2. ASSUME NEW r \in Requests, Arrive(r) PROVE RotateInv'
    BY <1>1, <1>2 DEF Arrive, LoginVerify, RefreshLoad, RefreshReuse, LogoutLoad,
       LogoutAllStart, RequestLoad, ResetLoad, ChangeLoad
  <1>3. ASSUME NEW r \in Requests, LoginTouch(r) \/ ChangeIssue(r) PROVE RotateInv'
    <2> DEFINE q == [req[r] EXCEPT !.pc = "commit", !.mint = now]
               T == {}
    <2>1. PICK t \in Tokens : \E via :
             /\ Fresh(t) /\ WriteSessions(r, T, Live, {t}, NewRow(req[r].user, now))
             /\ Opened(t, via, None, req[r].pwd)
      BY <1>3 DEF LoginTouch, ChangeIssue
    <2>2. req' = [req EXCEPT ![r] = q] /\ q.pc = "commit"
      BY <1>0, <1>3 DEF LoginTouch, ChangeIssue, ReqTyped, Request
    <2>3. /\ origin'[t].parent = None
          /\ \A s \in Tokens \ {t} : origin'[s] = origin[s]
      BY <1>0, <2>1 DEF Opened, OriginTyped
    <2>4. T \in SUBSET Tokens /\ {t} \in SUBSET Tokens /\ \A s \in T : FALSE
      OBVIOUS
    <2> HIDE DEF q, T
    <2>5. QED
      BY <2>1, <2>2, <2>3, <2>4, RotateFlush
  <1>4. ASSUME NEW r \in Requests, RefreshRotate(r) PROVE RotateInv'
    <2>1. PICK t \in Tokens, iat \in req[r].at .. now :
             /\ Fresh(t)
             /\ WriteSessions(r, {req[r].tok}, "rotated", {t}, NewRow(req[r].user, iat))
             /\ Opened(t, "refresh", req[r].tok, origin[req[r].tok].knew)
             /\ req' = [req EXCEPT ![r].pc = "commit", ![r].mint = iat]
      BY <1>4 DEF RefreshRotate
    <2> DEFINE q == [req[r] EXCEPT !.pc = "commit", !.mint = iat]
               T == {req[r].tok}
               N == {t}
    <2>2. req' = [req EXCEPT ![r] = q] /\ q.pc = "commit" /\ req[r].pc = "rotate"
      <3>1. req[r] \in Request /\ req[r].pc = "rotate"
        BY <1>0, <1>4 DEF RefreshRotate, ReqTyped
      <3>2. QED
        BY <2>1, <3>1 DEF Request
    <2>3. req[r].tok \in Tokens /\ IsLive(sess[req[r].tok])
      BY <2>2, OwnRequest DEF RotateInv, HandlerInv, RequestOK
    <2>4. IsLive(sessW[req[r].tok])
      BY <2>2, <2>3, HoldsNone, AloneHolds DEF HasSessions
    <2>5. /\ origin'[t].parent = req[r].tok
          /\ \A s \in Tokens \ {t} : origin'[s] = origin[s]
      BY <1>0, <2>1, <2>3 DEF Opened, OriginTyped
    <2>6. \A s \in Tokens \ {t} : sessW[s] # Absent => origin[s].parent # req[r].tok
      BY <2>3, <2>4, RenewedIsEnded, NoneAssumption
    <2>7. /\ T \in SUBSET Tokens /\ N \in SUBSET Tokens
          /\ WriteSessions(r, T, "rotated", N, NewRow(req[r].user, iat))
          /\ \A s \in T : sessW[s] # Absent
          /\ \A s \in Tokens \ N : origin'[s] = origin[s]
          /\ \A s \in N : /\ N = {s}
                          /\ origin'[s].parent # None =>
                               \A x \in Tokens \ {s} : sessW[x] # Absent =>
                                   origin[x].parent # origin'[s].parent
      BY <2>1, <2>3, <2>4, <2>5, <2>6
    <2> HIDE DEF q, T, N
    <2>8. QED
      BY <2>2, <2>7, RotateFlush
  <1>5. ASSUME NEW r \in Requests, LogoutMark(r) PROVE RotateInv'
    <2> DEFINE q == [req[r] EXCEPT !.pc = "commit"]
               N == {}
    <2>1. /\ req' = [req EXCEPT ![r] = q] /\ q.pc = "commit" /\ origin' = origin
          /\ WriteSessions(r, {req[r].tok}, "logout", N, Absent) /\ req[r].pc = "mark"
      BY <1>0, <1>5 DEF LogoutMark, Goto, ReqTyped, Request, history
    <2>2. req[r].tok \in Tokens /\ sessW[req[r].tok] # Absent
      BY <2>1, OwnRequest DEF HandlerInv, RequestOK, SessionInv, SessRowsOK
    <2>3. {req[r].tok} \in SUBSET Tokens /\ N \in SUBSET Tokens /\ \A s \in N : FALSE
      BY <2>2
    <2> HIDE DEF q, N
    <2>4. QED
      BY <2>1, <2>2, <2>3, RotateFlush
  <1>6. ASSUME NEW r \in Requests, RevokeAll(r) PROVE RotateInv'
    <2> DEFINE pc == AfterRevoke(req[r].op)
               tick == IF req[r].op = "change" THEN now ELSE req[r].at
               q == [req[r] EXCEPT !.pc = pc, !.at = tick]
               T == {t \in req[r].scan : IsLive(sessW[t])}
               N == {}
    <2>1. /\ req' = [req EXCEPT ![r] = q] /\ q.pc = pc /\ origin' = origin
          /\ WriteSessions(r, T, RevokeReason(req[r].op), N, Absent)
      BY <1>0, <1>6 DEF RevokeAll, ReqTyped, Request, history
    <2>2. pc # "rotate"
      BY DEF AfterRevoke
    <2>3. /\ T \in SUBSET Tokens /\ \A t \in T : sessW[t] # Absent
          /\ N \in SUBSET Tokens /\ \A s \in N : FALSE
      BY <1>0 DEF ReqTyped, Request
    <2> HIDE DEF q, T, N, pc
    <2>4. QED
      BY <2>1, <2>2, <2>3, RotateFlush
  <1>7. ASSUME NEW r \in Requests,
               \/ RevokeScan(r) \/ RetireScan(r) \/ RequestInsert(r) \/ RequestSend(r)
               \/ ResetRenew(r) \/ ResetSpend(r) \/ SetHash(r) \/ ChangeStamp(r)
        PROVE  RotateInv'
    <2>1. UNCHANGED <<sessVars, origin>>
      BY <1>7 DEF RevokeScan, RetireScan, RequestInsert, RequestSend, ResetRenew,
         ResetSpend, SetHash, ChangeStamp, history
    <2>2. req'[r].pc # "rotate"
      BY <1>0, <1>7 DEF RevokeScan, RetireScan, RequestInsert, RequestSend, ResetRenew,
         ResetSpend, SetHash, ChangeStamp, Goto, Idle, ReqTyped, Request
    <2>3. \A s \in Requests : s = r
      BY DEF Alone
    <2>4. QED
      BY <2>1, <2>2, <2>3, RotateQuiet
  <1>8. ASSUME NEW r \in Requests, ChangeCommit(r) \/ Commit(r) PROVE RotateInv'
    <2>1. PICK q : req' = [req EXCEPT ![r] = q] /\ q.pc # "rotate"
      <3>1. PICK q : req' = [req EXCEPT ![r] = q]
        BY <1>8 DEF ChangeCommit, Commit, Goto
      <3>2. req'[r].pc # "rotate"
        BY <1>0, <1>8 DEF ChangeCommit, Commit, Goto, Idle, ReqTyped, Request
      <3>3. QED
        BY <1>0, <3>1, <3>2 DEF ReqTyped
    <2>2. Publish(r) /\ UNCHANGED origin
      BY <1>8 DEF ChangeCommit, Commit, history
    <2>3. QED
      BY <2>1, <2>2, RotatePublish
  <1>9. ASSUME NEW r \in Requests, DeadlockVictim(r) \/ Crash(r) PROVE RotateInv'
    BY <1>9, RotateRollback DEF DeadlockVictim, Crash
  <1>10. ASSUME NEW u \in Users, NEW s \in Statuses, SetStatus(u, s) PROVE RotateInv'
    BY <1>10, RotateQuiet DEF SetStatus, history
  <1>11. CASE Tick \/ UNCHANGED vars
    BY <1>11, RotateQuiet DEF Tick, vars, history
  <1>12. QED
    BY <1>2, <1>3, <1>4, <1>5, <1>6, <1>7, <1>8, <1>9, <1>10, <1>11 DEF Next, Handle

\* While requests do not overlap, no session has two successors.
THEOREM TokenRotatesOnce == ASSUME Alone PROVE Spec => []RotatesOnce
  <1>1. Init => RotateInv
    BY DEF Init, Idle, RotateInv
  <1>2. HandlerInv /\ RotateInv /\ [Next]_vars => RotateInv'
    BY RotateStep
  <1>3. HandlerInv /\ RotateInv => RotatesOnce
    BY DEF RotatesOnce, RotateInv, HandlerInv, SessionInv, SessRowsOK
  <1>4. QED
    BY <1>1, <1>2, <1>3, Handlers, PTL DEF Spec

-----------------------------------------------------------------------------
(* The limits on reset links.                                              *)

\* The links of the account of l in the table f that are no older than l, and
\* among them those of l's window.
Later(f, l) == {k \in Links \ {l} : /\ f[k] # Absent
                                    /\ f[k].user = f[l].user
                                    /\ f[k].created >= f[l].created}
SameWindow(f, l) == {k \in Later(f, l) : f[k].created <= f[l].created + Window}

\* ThrottleHolds of a table: the committed links, or their newest versions.
Throttled(f) ==
    \A l \in Links : f[l] # Absent =>
        /\ \A k \in Later(f, l) : f[k].created >= f[l].created + Cooldown
        /\ Cardinality(SameWindow(f, l)) < MaxPerWindow

\* WithinLimits of the table f, account u and tick `at`.
InLimits(f, u, at) ==
    /\ \A l \in Links : f[l] # Absent /\ f[l].user = u => at >= f[l].created + Cooldown
    /\ Cardinality({l \in Links : f[l] # Absent /\ f[l].user = u
                                  /\ f[l].created + Window >= at}) < MaxPerWindow

LinkTable == [Links -> LinkRow \cup {Absent}]

\* Two tables with the same links of the same accounts and ages.
SameAges(f, g) ==
    \A l \in Links : /\ f[l] = Absent <=> g[l] = Absent
                     /\ f[l] # Absent => g[l].user = f[l].user /\ g[l].created = f[l].created

\* Using a link up or retiring it does not change what the limits count.
LEMMA AgesThrottled ==
    ASSUME NEW f, NEW g, SameAges(f, g), Throttled(f)
    PROVE  Throttled(g)
  <1> SUFFICES ASSUME NEW l \in Links, g[l] # Absent
               PROVE  /\ \A k \in Later(g, l) : g[k].created >= g[l].created + Cooldown
                      /\ Cardinality(SameWindow(g, l)) < MaxPerWindow
    BY DEF Throttled
  <1>1. f[l] # Absent /\ g[l].user = f[l].user /\ g[l].created = f[l].created
    BY DEF SameAges
  <1>2. Later(g, l) = Later(f, l)
    BY <1>1 DEF SameAges, Later
  <1>3. \A k \in Later(f, l) : k \in Links /\ f[k] # Absent /\ g[k].created = f[k].created
    BY DEF SameAges, Later
  <1>4. SameWindow(g, l) = SameWindow(f, l)
    BY <1>1, <1>2, <1>3 DEF SameWindow
  <1>5. QED
    BY <1>1, <1>2, <1>3, <1>4 DEF Throttled

\* A link created within the limits keeps every window within them.
LEMMA AddThrottled ==
    ASSUME IsFiniteSet(Links), NEW f \in LinkTable, NEW g \in LinkTable,
           NEW n \in Links, f[n] = Absent, g[n] # Absent,
           \A l \in Links \ {n} :
               /\ f[l] = Absent <=> g[l] = Absent
               /\ f[l] # Absent => g[l].user = f[l].user /\ g[l].created = f[l].created,
           InLimits(f, g[n].user, g[n].created), Throttled(f)
    PROVE  Throttled(g)
  <1> DEFINE u == g[n].user
             at == g[n].created
             R == {l \in Links : f[l] # Absent /\ f[l].user = u /\ f[l].created + Window >= at}
  <1>1. at \in Nat /\ u \in Users /\ Window \in Nat /\ Cooldown \in Nat /\ MaxPerWindow \in Nat
    BY ClockAssumption DEF LinkTable, LinkRow
  <1>2. \A l \in Links : f[l] # Absent => l # n /\ f[l].created \in Nat
    BY DEF LinkTable, LinkRow
  <1>3. IsFiniteSet(R) /\ Cardinality(R) \in Nat /\ Cardinality(R) < MaxPerWindow
    BY FS_Subset, FS_CardinalityType DEF InLimits
  <1> SUFFICES ASSUME NEW l \in Links, g[l] # Absent
               PROVE  /\ \A k \in Later(g, l) : g[k].created >= g[l].created + Cooldown
                      /\ Cardinality(SameWindow(g, l)) < MaxPerWindow
    BY DEF Throttled
  <1>4. CASE l = n
    <2>1. SameWindow(g, l) \subseteq R
      BY <1>1, <1>2, <1>4 DEF SameWindow, Later
    <2>2. Cardinality(SameWindow(g, l)) <= Cardinality(R) /\ Cardinality(SameWindow(g, l)) \in Nat
      BY <1>3, <2>1, FS_Subset, FS_CardinalityType
    <2>3. ASSUME NEW k \in Later(g, l) PROVE g[k].created >= g[l].created + Cooldown
      <3>1. k \in Links \ {n} /\ g[k] # Absent /\ g[k].user = u /\ g[k].created >= at
        BY <1>4, <2>3 DEF Later
      <3>2. f[k] # Absent /\ f[k].user = u /\ g[k].created = f[k].created
        BY <3>1
      <3>3. at >= f[k].created + Cooldown
        BY <3>1, <3>2 DEF InLimits
      <3>4. QED
        BY <1>1, <1>2, <1>4, <3>1, <3>2, <3>3
    <2> HIDE DEF R
    <2>4. QED
      BY <1>1, <1>3, <2>2, <2>3
  <1>5. CASE l # n /\ u # g[l].user
    <2>1. f[l] # Absent /\ g[l].user = f[l].user /\ g[l].created = f[l].created
      BY <1>5
    <2>2. Later(g, l) = Later(f, l)
      BY <1>5, <2>1 DEF Later
    <2>3. \A k \in Later(f, l) : k \in Links /\ g[k].created = f[k].created
      BY DEF Later
    <2>4. SameWindow(g, l) = SameWindow(f, l)
      BY <2>1, <2>2, <2>3 DEF SameWindow
    <2>5. QED
      BY <2>1, <2>2, <2>3, <2>4 DEF Throttled
  <1>6. CASE l # n /\ u = g[l].user
    <2>1. /\ f[l] # Absent /\ g[l].user = f[l].user /\ g[l].created = f[l].created
          /\ at >= f[l].created + Cooldown
      BY <1>6 DEF InLimits
    <2>2. Later(g, l) \subseteq Later(f, l) \cup {n}
      BY <1>6, <2>1 DEF Later
    <2>3. \A k \in Later(f, l) : k \in Links /\ f[k] # Absent /\ g[k].created = f[k].created
      BY DEF Later
    <2>4. ASSUME NEW k \in Later(g, l) PROVE g[k].created >= g[l].created + Cooldown
      BY <2>1, <2>2, <2>3, <2>4 DEF Throttled
    <2>5. CASE n \notin SameWindow(g, l)
      <3>1. SameWindow(g, l) \subseteq SameWindow(f, l)
        BY <2>1, <2>2, <2>3, <2>5 DEF SameWindow
      <3>2. IsFiniteSet(SameWindow(f, l))
        BY FS_Subset DEF SameWindow, Later
      <3>3. Cardinality(SameWindow(f, l)) < MaxPerWindow
        BY <2>1 DEF Throttled
      <3>4. QED
        BY <1>1, <2>4, <3>1, <3>2, <3>3, FS_Subset, FS_CardinalityType
    <2>6. CASE n \in SameWindow(g, l)
      <3>1. at <= f[l].created + Window
        BY <2>1, <2>6 DEF SameWindow
      <3> DEFINE W == SameWindow(g, l) \ {n}
      <3>2. W \cup {l} \subseteq R
        <4>1. l \in R
          BY <1>1, <1>2, <1>6, <2>1, <3>1
        <4>2. ASSUME NEW k \in W PROVE k \in R
          <5>1. k \in Later(f, l) /\ k \in Links /\ f[k] # Absent
            BY <2>2, <2>3 DEF SameWindow
          <5>2. f[k].user = u /\ f[k].created >= f[l].created
            BY <1>6, <2>1, <5>1 DEF Later
          <5>3. f[k].created \in Nat /\ f[l].created \in Nat
            BY <1>2, <2>1, <5>1
          <5>4. f[k].created + Window >= at
            BY <1>1, <3>1, <5>2, <5>3
          <5>5. QED
            BY <5>1, <5>2, <5>4
        <4>3. QED
          BY <4>1, <4>2
      <3>3. l \notin W /\ n \notin W /\ SameWindow(g, l) = W \cup {n}
        BY <2>6 DEF SameWindow, Later
      <3> HIDE DEF R, W
      <3>4. IsFiniteSet(W) /\ Cardinality(W \cup {l}) <= Cardinality(R)
        <4>1. IsFiniteSet(W \cup {l}) /\ Cardinality(W \cup {l}) <= Cardinality(R)
          BY <1>3, <3>2, FS_Subset
        <4>2. IsFiniteSet(W)
          BY <4>1, FS_Subset
        <4>3. QED
          BY <4>1, <4>2
      <3>5. /\ Cardinality(W \cup {l}) = Cardinality(W) + 1
            /\ Cardinality(W \cup {n}) = Cardinality(W) + 1
        BY <3>3, <3>4, FS_AddElement
      <3>6. Cardinality(SameWindow(g, l)) = Cardinality(W \cup {l})
        BY <3>3, <3>5
      <3>7. Cardinality(W \cup {l}) \in Nat
        BY <3>4, <3>5, FS_CardinalityType
      <3>8. QED
        BY <1>1, <1>3, <2>4, <3>4, <3>6, <3>7
    <2>7. QED
      BY <2>5, <2>6
  <1>7. QED
    BY <1>4, <1>5, <1>6

-----------------------------------------------------------------------------
(* A reset link works once, a new one retires the old, and the limits hold. *)

Used(row) == row # Absent /\ row.used

\* A link has been spent only if its committed row says so, and that row's
\* newest version too; a reset in flight has an unused one, and used it up in
\* the version it is about to commit.
SpendsInv ==
    /\ \A l \in Links : /\ spends[l] <= 1
                        /\ ~Used(link[l]) => spends[l] = 0
                        /\ Used(link[l]) => Used(linkW[l])
    /\ \A r \in Requests : req[r].op = "reset" =>
          /\ ~Used(link[req[r].link])
          /\ req[r].pc = "commit" => Used(linkW[req[r].link])

\* OneUsableLink of a table, whatever the clock says.
OneOutstanding(f) ==
    \A k, l \in Links : k # l /\ Outstanding(f[k]) /\ Outstanding(f[l]) =>
        f[k].user # f[l].user

\* A request for a link retires every outstanding one of its account.
RetireInv ==
    /\ OneOutstanding(link) /\ OneOutstanding(linkW)
    /\ \A r \in Requests : req[r].pc = "insert" =>
          \A l \in Links : Outstanding(link[l]) /\ link[l].user = req[r].user =>
              l \in req[r].retire

\* And it is still within the limits it was let in by.
ThrottleInv ==
    /\ Throttled(link) /\ Throttled(linkW)
    /\ \A r \in Requests : req[r].pc \in {"retire", "insert"} =>
          InLimits(link, req[r].user, req[r].at)

LinksInv == SpendsInv /\ RetireInv /\ ThrottleInv

\* A step that writes no link, after which a reset is not about to commit.
LEMMA LinksQuiet ==
    ASSUME Alone, HandlerInv, LinksInv, NEW r \in Requests, NEW q,
           req' = [req EXCEPT ![r] = q], UNCHANGED <<linkVars, spends>>,
           q.op = "reset" => q.pc # "commit" /\ ~Used(link[q.link]),
           q.pc # "insert", q.pc = "retire" => InLimits(link, q.user, q.at)
    PROVE  LinksInv'
  <1>1. \A s \in Requests : s = r /\ req'[s] = q
    BY AloneRecord
  <1>2. link' = link /\ linkW' = linkW /\ spends' = spends
    BY DEF linkVars
  <1>3. SpendsInv'
    BY <1>1, <1>2 DEF LinksInv, SpendsInv, Used
  <1>4. RetireInv'
    BY <1>1, <1>2 DEF LinksInv, RetireInv, OneOutstanding, Outstanding
  <1>5. ThrottleInv'
    BY <1>1, <1>2 DEF LinksInv, ThrottleInv, Throttled, Later, SameWindow, InLimits
  <1>6. QED
    BY <1>3, <1>4, <1>5 DEF LinksInv

\* A step after which both tables are what the newest rows, or the committed
\* rows, were; no reset or request for a link goes on.
LEMMA LinksSettle ==
    ASSUME HandlerInv, LinksInv, NEW f \in {link, linkW},
           \A l \in Links : link'[l] = f[l] /\ linkW'[l] = f[l],
           \A s \in Requests : /\ req'[s].op # "reset"
                               /\ req'[s].pc \notin {"retire", "insert"},
           \A l \in Links : \/ spends'[l] = spends[l]
                            \/ spends'[l] = 1 /\ Used(f[l])
    PROVE  LinksInv'
  <1>1. SpendsInv'
    BY DEF LinksInv, SpendsInv, Used
  <1>2. OneOutstanding(f) /\ Throttled(f)
    BY DEF LinksInv, RetireInv, ThrottleInv
  <1>3. RetireInv'
    BY <1>2 DEF RetireInv, OneOutstanding, Outstanding
  <1>4. SameAges(f, link') /\ SameAges(f, linkW')
    BY <1>2 DEF SameAges
  <1>5. ThrottleInv'
    BY <1>2, <1>4, AgesThrottled DEF ThrottleInv
  <1>6. QED
    BY <1>1, <1>3, <1>5 DEF LinksInv

\* forgot-password: the limits are checked where the request begins.
LEMMA RequestLoadLinks ==
    ASSUME Alone, HandlerInv, LinksInv, NEW r \in Requests, NEW u \in Users,
           RequestLoad(r, u)
    PROVE  LinksInv'
  <1> DEFINE q == [Idle EXCEPT !.op = "request", !.pc = "retire", !.user = u,
                               !.tok = None, !.link = None, !.pwd = None, !.at = now]
  <1>1. /\ req' = [req EXCEPT ![r] = q] /\ UNCHANGED <<linkVars, spends>>
        /\ WithinLimits(u)
    BY DEF RequestLoad, Begin, history
  <1>2. q.op = "request" /\ q.pc = "retire" /\ q.user = u /\ q.at = now
    BY DEF Idle
  <1>3. InLimits(link, u, now)
    <2>1. {l \in LinksOf(u) : link[l].created + Window >= now}
          = {l \in Links : link[l] # Absent /\ link[l].user = u
                           /\ link[l].created + Window >= now}
      BY DEF LinksOf
    <2>2. QED
      BY <1>1, <2>1 DEF WithinLimits, Cooled, Recent, LinksOf, InLimits
  <1> HIDE DEF q
  <1>4. QED
    BY <1>1, <1>2, <1>3, LinksQuiet

\* forgot-password: the links to retire are chosen.
LEMMA RetireScanLinks ==
    ASSUME Alone, HandlerInv, LinksInv, NEW r \in Requests, RetireScan(r)
    PROVE  LinksInv'
  <1> DEFINE S == {l \in Links : Outstanding(link[l]) /\ link[l].user = req[r].user}
             q == [req[r] EXCEPT !.pc = "insert", !.retire = S]
  <1>1. /\ req' = [req EXCEPT ![r] = q] /\ UNCHANGED <<linkVars, spends>>
        /\ req[r] \in Request /\ RequestOK(req[r]) /\ req[r].pc = "retire"
    BY OwnRequest DEF RetireScan, history, HandlerInv
  <1>2. /\ q.op = "request" /\ q.pc = "insert" /\ q.user = req[r].user
        /\ q.at = req[r].at /\ q.retire = S
    BY <1>1 DEF Request, RequestOK
  <1>3. \A s \in Requests : s = r /\ req'[s] = q
    BY <1>1, AloneRecord
  <1> HIDE DEF q
  <1>4. SpendsInv'
    BY <1>1, <1>2, <1>3 DEF LinksInv, SpendsInv, Used, linkVars
  <1>5. RetireInv'
    BY <1>1, <1>2, <1>3 DEF LinksInv, RetireInv, OneOutstanding, Outstanding, linkVars
  <1>6. ThrottleInv'
    <2>1. link' = link /\ linkW' = linkW
      BY <1>1 DEF linkVars
    <2>2. Throttled(link) /\ Throttled(linkW) /\ InLimits(link, req[r].user, req[r].at)
      BY <1>1 DEF LinksInv, ThrottleInv
    <2>3. Throttled(link') /\ Throttled(linkW')
      BY <2>1, <2>2
    <2>4. \A s \in Requests : InLimits(link', req'[s].user, req'[s].at)
      BY <1>2, <1>3, <2>1, <2>2
    <2> HIDE DEF S
    <2>5. QED
      BY <2>3, <2>4 DEF ThrottleInv
  <1>7. QED
    BY <1>4, <1>5, <1>6 DEF LinksInv

\* forgot-password: the new link is the only outstanding one, and in limits.
LEMMA RequestInsertLinks ==
    ASSUME Alone, IsFiniteSet(Links), HandlerInv, LinksInv, NEW r \in Requests,
           RequestInsert(r)
    PROVE  LinksInv'
  <1>1. PICK n \in Links : /\ RetireAndInsert(r, n)
                           /\ req' = [req EXCEPT ![r].pc = "commit", ![r].link = n]
    BY DEF RequestInsert
  <1> DEFINE q == [req[r] EXCEPT !.pc = "commit", !.link = n]
             retired == {l \in req[r].retire : Outstanding(linkW[l])}
  <1>2. /\ LinksTyped /\ req[r] \in Request /\ RequestOK(req[r]) /\ req[r].pc = "insert"
        /\ now \in Nat
    BY HandlerTypes, OwnRequest DEF RequestInsert, HandlerInv
  <1>3. /\ \A s \in Requests : s = r /\ req'[s] = q
        /\ q.op = "request" /\ q.pc = "commit"
    <2>1. req' = [req EXCEPT ![r] = q]
      BY <1>1
    <2>2. q.op = "request" /\ q.pc = "commit"
      BY <1>2 DEF Request, RequestOK
    <2> HIDE DEF q
    <2>3. QED
      BY <2>1, <2>2, AloneRecord
  <1>4. /\ linkW' = [l \in Links |->
                        CASE l = n -> NewLink(r)
                          [] l \in retired -> [linkW[l] EXCEPT !.retired = TRUE]
                          [] OTHER -> linkW[l]]
        /\ link' = link /\ link[n] = Absent /\ linkLock[n] = None
    BY <1>1 DEF RetireAndInsert
  <1>5. \A l \in Links : linkW[l] = link[l]
    BY <1>2, HoldsNone, AloneHolds
  <1>6. n \notin retired /\ retired \subseteq Links
    BY <1>2, <1>4, <1>5 DEF Outstanding, Request
  <1>7. /\ NewLink(r) \in LinkRow /\ NewLink(r).user = req[r].user
        /\ NewLink(r).created = req[r].at /\ ~NewLink(r).used /\ NewLink(r) # Absent
    <2>1. NewLink(r) \in LinkRow
      BY <1>2, ClockAssumption DEF NewLink, LinkRow, Request, RequestOK
    <2>2. QED
      BY <2>1, NoneAssumption DEF NewLink
  <1>8. \A l \in retired : /\ linkW[l] \in LinkRow
                           /\ [linkW[l] EXCEPT !.retired = TRUE] \in LinkRow
    BY <1>2, <1>6 DEF Outstanding, LinksTyped, LinkRow
  <1>9. \A l \in Links :
          /\ l = n => linkW'[l] = NewLink(r)
          /\ l \in retired => /\ linkW'[l] # Absent /\ linkW'[l].retired
                              /\ linkW'[l].user = link[l].user
                              /\ linkW'[l].created = link[l].created
                              /\ linkW'[l].used = link[l].used
          /\ l # n /\ l \notin retired => linkW'[l] = link[l]
          /\ l \in retired => link[l] # Absent
    <2>1. \A l \in retired : [linkW[l] EXCEPT !.retired = TRUE] # Absent
      BY <1>8, NoneAssumption
    <2> HIDE DEF retired
    <2>2. QED
      BY <1>4, <1>5, <1>6, <1>8, <2>1, NoneAssumption DEF LinkRow
  <1>10. SpendsInv'
    <2> HIDE DEF q, retired
    <2>1. \A l \in Links : Used(link[l]) => Used(linkW'[l])
      BY <1>4, <1>9 DEF Used
    <2>2. QED
      BY <1>3, <1>4, <2>1 DEF LinksInv, SpendsInv, Used, RequestInsert, history
  <1>11. RetireInv'
    <2>1. \A l \in Links : Outstanding(linkW'[l]) =>
            l = n \/ (linkW'[l] = link[l] /\ link[l].user # req[r].user)
      <3>1. \A l \in Links : Outstanding(link[l]) /\ link[l].user = req[r].user => l \in retired
        BY <1>2, <1>5 DEF LinksInv, RetireInv
      <3> HIDE DEF retired
      <3>2. QED
        BY <1>9, <3>1 DEF Outstanding
    <2> HIDE DEF q, retired
    <2>2. OneOutstanding(linkW')
      BY <1>7, <1>9, <2>1 DEF LinksInv, RetireInv, OneOutstanding
    <2>3. QED
      BY <1>3, <1>4, <2>2 DEF LinksInv, RetireInv, OneOutstanding, Outstanding
  <1>12. ThrottleInv'
    <2> HIDE DEF q, retired
    <2>1. link \in LinkTable /\ linkW' \in LinkTable
      <3>1. LinksTyped'
        <4>1. SessionInv'
          BY RequestInsertInv DEF HandlerInv
        <4>2. TypeOK'
          BY <4>1 DEF SessionInv
        <4>3. QED
          BY <4>2, TypePartsNext
      <3>2. QED
        BY <1>2, <3>1 DEF LinksTyped, LinkTable
    <2>2. InLimits(link, linkW'[n].user, linkW'[n].created) /\ Throttled(link)
      BY <1>2, <1>7, <1>9 DEF LinksInv, ThrottleInv
    <2>3. linkW'[n] # Absent
      BY <1>7, <1>9
    <2>4. \A l \in Links \ {n} :
            /\ link[l] = Absent <=> linkW'[l] = Absent
            /\ link[l] # Absent => linkW'[l].user = link[l].user
                                   /\ linkW'[l].created = link[l].created
      BY <1>9
    <2>5. Throttled(linkW')
      BY <1>4, <2>1, <2>2, <2>3, <2>4, AddThrottled
    <2>6. QED
      BY <1>3, <1>4, <2>2, <2>5 DEF ThrottleInv, Throttled, Later, SameWindow
  <1>13. QED
    BY <1>10, <1>11, <1>12 DEF LinksInv

\* reset-password: the link is used up in the version about to be committed.
LEMMA ResetSpendLinks ==
    ASSUME Alone, HandlerInv, LinksInv, NEW r \in Requests, ResetSpend(r)
    PROVE  LinksInv'
  <1> DEFINE n == req[r].link
             q == [req[r] EXCEPT !.pc = "commit"]
  <1>1. /\ LinksTyped /\ req[r] \in Request /\ RequestOK(req[r]) /\ req[r].pc = "spend"
        /\ LinkRowsOK
    BY HandlerTypes, OwnRequest DEF ResetSpend, HandlerInv, SessionInv
  <1>2. /\ req[r].op = "reset" /\ n \in Links /\ link[n] # Absent /\ linkW[n] # Absent
    BY <1>1 DEF RequestOK, LinkRowsOK
  <1>3. /\ q.op = "reset" /\ q.pc = "commit" /\ q.link = n
    BY <1>1, <1>2 DEF Request
  <1>4. \A s \in Requests : s = r /\ req'[s] = q
    <2>1. req' = [req EXCEPT ![r] = q]
      BY DEF ResetSpend, Goto
    <2> HIDE DEF q
    <2>2. QED
      BY <2>1, AloneRecord
  <1>5. /\ link' = link /\ spends' = spends
        /\ linkW' = [linkW EXCEPT ![n] = [linkW[n] EXCEPT !.used = TRUE]]
    BY DEF ResetSpend, history
  <1>6. /\ linkW[n] \in LinkRow /\ [linkW[n] EXCEPT !.used = TRUE] \in LinkRow
        /\ [linkW[n] EXCEPT !.used = TRUE] # Absent
    <2>1. linkW[n] \in LinkRow
      BY <1>1, <1>2 DEF LinksTyped
    <2>2. [linkW[n] EXCEPT !.used = TRUE] \in LinkRow
      BY <2>1 DEF LinkRow
    <2>3. QED
      BY <2>1, <2>2, NoneAssumption
  <1>7. /\ \A l \in Links \ {n} : linkW'[l] = linkW[l]
        /\ linkW'[n] # Absent /\ linkW'[n].used
        /\ linkW'[n].user = linkW[n].user /\ linkW'[n].created = linkW[n].created
    BY <1>1, <1>2, <1>5, <1>6 DEF LinksTyped, LinkRow
  <1> HIDE DEF q, n
  <1>8. SpendsInv'
    <2>1. \A l \in Links : Used(linkW[l]) => Used(linkW'[l])
      BY <1>7 DEF Used
    <2>2. ~Used(link[n])
      BY <1>2 DEF LinksInv, SpendsInv, n
    <2>3. Used(linkW'[n])
      BY <1>7 DEF Used
    <2>4. \A l \in Links : /\ spends'[l] <= 1
                           /\ ~Used(link'[l]) => spends'[l] = 0
                           /\ Used(link'[l]) => Used(linkW'[l])
      BY <1>5, <2>1 DEF LinksInv, SpendsInv
    <2>5. \A s \in Requests : ~Used(link'[req'[s].link]) /\ Used(linkW'[req'[s].link])
      BY <1>3, <1>4, <1>5, <2>2, <2>3
    <2>6. QED
      BY <2>4, <2>5 DEF SpendsInv, Used
  <1>9. RetireInv'
    <2>1. OneOutstanding(link')
      BY <1>5 DEF LinksInv, RetireInv
    <2>2. OneOutstanding(linkW')
      BY <1>7 DEF LinksInv, RetireInv, OneOutstanding, Outstanding
    <2>3. QED
      BY <1>3, <1>4, <2>1, <2>2 DEF RetireInv, OneOutstanding, Outstanding
  <1>10. ThrottleInv'
    <2>1. SameAges(linkW, linkW')
      BY <1>2, <1>7 DEF SameAges
    <2>2. Throttled(linkW') /\ Throttled(link')
      BY <1>5, <2>1, AgesThrottled DEF LinksInv, ThrottleInv
    <2>3. QED
      BY <1>3, <1>4, <2>2 DEF ThrottleInv
  <1>11. QED
    BY <1>8, <1>9, <1>10 DEF LinksInv

\* The one commit: its rows become the committed ones, and a reset is counted.
LEMMA CommitLinks ==
    ASSUME Alone, HandlerInv, LinksInv, NEW r \in Requests, Commit(r) \/ ChangeCommit(r)
    PROVE  LinksInv'
  <1>1. /\ req[r] \in Request /\ RequestOK(req[r]) /\ PathOK(req[r])
        /\ OthersTyped
    BY HandlerTypes, OwnRequest DEF HandlerInv, HeldOK, HandlersOK
  <1>2. \A l \in Links : link'[l] = linkW[l] /\ linkW'[l] = linkW[l]
    BY AlonePublish DEF Commit, ChangeCommit
  <1>3. \A s \in Requests : /\ req'[s].op # "reset"
                            /\ req'[s].pc \notin {"retire", "insert"}
    <2>1. req'[r].op # "reset" /\ req'[r].pc \notin {"retire", "insert"}
      <3>1. CASE Commit(r)
        BY <1>1, <3>1, HandlerTypes DEF Commit, Idle, ReqTyped, Request
      <3>2. CASE ChangeCommit(r)
        BY <1>1, <3>2, HandlerTypes DEF ChangeCommit, Goto, PathOK, ReqTyped, Request
      <3>3. QED
        BY <3>1, <3>2
    <2>2. QED
      BY <2>1 DEF Alone
  <1>4. \A l \in Links : \/ spends'[l] = spends[l]
                         \/ spends'[l] = 1 /\ Used(linkW[l])
    <2>1. CASE Commit(r) /\ req[r].op = "reset"
      <3>1. /\ req[r].link \in Links /\ req[r].pc = "commit"
            /\ spends' = [spends EXCEPT ![req[r].link] = @ + 1]
        BY <1>1, <2>1 DEF Commit, RequestOK
      <3>2. Used(linkW[req[r].link]) /\ spends[req[r].link] = 0
        BY <2>1, <3>1 DEF LinksInv, SpendsInv
      <3>3. QED
        BY <1>1, <3>1, <3>2 DEF OthersTyped
    <2>2. CASE ~(Commit(r) /\ req[r].op = "reset")
      BY <2>2 DEF Commit, ChangeCommit, history
    <2>3. QED
      BY <2>1, <2>2
  <1>5. QED
    BY <1>2, <1>3, <1>4, LinksSettle

\* Every step.
LEMMA LinksStep ==
    ASSUME Alone, IsFiniteSet(Links), HandlerInv, LinksInv, [Next]_vars
    PROVE  LinksInv'
  <1>0. ReqTyped /\ \A r \in Requests : PathOK(req[r]) /\ RequestOK(req[r])
    BY HandlerTypes DEF HandlerInv, HeldOK, HandlersOK, SessionInv, RequestsOK
  <1>1. ASSUME NEW r \in Requests, NEW op, NEW pc, NEW u, NEW t, NEW l, NEW p,
               Begin(r, op, pc, u, t, l, p), pc \notin {"insert", "retire", "commit"},
               op = "reset" => ~Used(link[l])
        PROVE  LinksInv'
    <2> DEFINE q == [Idle EXCEPT !.op = op, !.pc = pc, !.user = u, !.tok = t,
                                 !.link = l, !.pwd = p, !.at = now]
    <2>1. q.op = op /\ q.pc = pc /\ q.link = l
      BY DEF Idle
    <2>2. req' = [req EXCEPT ![r] = q] /\ UNCHANGED <<linkVars, spends>>
      BY <1>1 DEF Begin, history
    <2> HIDE DEF q
    <2>3. QED
      BY <1>1, <2>1, <2>2, LinksQuiet
  <1>2. ASSUME NEW r \in Requests, Arrive(r) PROVE LinksInv'
    <2>1. ASSUME NEW l \in Links, NEW p \in Passwords, ResetLoad(r, l, p) PROVE LinksInv'
      <3>1. ~Used(link[l])
        BY <2>1 DEF ResetLoad, Usable, Outstanding, Used
      <3>2. QED
        BY <1>1, <2>1, <3>1 DEF ResetLoad
    <2>2. QED
      BY <1>1, <1>2, <2>1, RequestLoadLinks DEF Arrive, LoginVerify, RefreshLoad,
         RefreshReuse, LogoutLoad, LogoutAllStart, ChangeLoad
  <1>3. ASSUME NEW r \in Requests,
               \/ LoginTouch(r) \/ RefreshRotate(r) \/ LogoutMark(r) \/ RevokeScan(r)
               \/ RevokeAll(r) \/ ResetRenew(r) \/ SetHash(r) \/ ChangeStamp(r)
               \/ ChangeIssue(r) \/ RequestSend(r)
        PROVE  LinksInv'
    <2>1. PICK q : req' = [req EXCEPT ![r] = q]
      BY <1>3 DEF LoginTouch, RefreshRotate, LogoutMark, RevokeScan, RevokeAll,
         ResetRenew, SetHash, ChangeStamp, ChangeIssue, RequestSend, Goto
    <2>2. req'[r] = q
      BY <1>0, <2>1 DEF ReqTyped
    <2>3. UNCHANGED <<linkVars, spends>>
      BY <1>3 DEF LoginTouch, RefreshRotate, LogoutMark, RevokeScan, RevokeAll,
         ResetRenew, SetHash, ChangeStamp, ChangeIssue, RequestSend, history
    <2>4. /\ q.pc \notin {"retire", "insert"}
          /\ q.op = "reset" => req[r].op = "reset" /\ q.link = req[r].link /\ q.pc # "commit"
      <3>1. req[r] \in Request /\ PathOK(req[r]) /\ RequestOK(req[r])
        BY <1>0 DEF ReqTyped
      <3>2. CASE LoginTouch(r) \/ RefreshRotate(r) \/ LogoutMark(r) \/ ChangeIssue(r)
        <4>1. req[r].pc \in {"touch", "rotate", "mark", "issue"}
          BY <3>2 DEF LoginTouch, RefreshRotate, LogoutMark, ChangeIssue
        <4>2. req[r].op # "reset"
          BY <3>1, <4>1 DEF PathOK
        <4>3. q.op = req[r].op /\ q.pc = "commit"
          <5>1. CASE RefreshRotate(r)
            BY <1>0, <2>2, <3>1, <5>1 DEF RefreshRotate, ReqTyped, Request
          <5>2. CASE LoginTouch(r) \/ LogoutMark(r) \/ ChangeIssue(r)
            BY <1>0, <2>2, <3>1, <5>2 DEF LoginTouch, LogoutMark, ChangeIssue, Goto,
               ReqTyped, Request
          <5>3. QED
            BY <3>2, <5>1, <5>2
        <4>4. QED
          BY <4>2, <4>3
      <3>3. CASE RevokeScan(r) \/ RevokeAll(r)
        BY <1>0, <2>2, <3>1, <3>3
        DEF RevokeScan, RevokeAll, AfterRevoke, ReqTyped, Request, PathOK
      <3>4. CASE ResetRenew(r) \/ SetHash(r) \/ ChangeStamp(r) \/ RequestSend(r)
        BY <1>0, <2>2, <3>1, <3>4
        DEF ResetRenew, SetHash, ChangeStamp, RequestSend, Goto, Idle, ReqTyped, Request, PathOK
      <3>5. QED
        BY <1>3, <3>2, <3>3, <3>4
    <2>5. q.op = "reset" => ~Used(link[q.link])
      BY <2>4 DEF LinksInv, SpendsInv
    <2>6. QED
      BY <2>1, <2>3, <2>4, <2>5, LinksQuiet
  <1>4. ASSUME NEW r \in Requests, DeadlockVictim(r) \/ Crash(r) PROVE LinksInv'
    <2>1. Rollback(r)
      BY <1>4 DEF DeadlockVictim, Crash
    <2>2. \A s \in Requests : s = r /\ req'[s] = Idle
      BY <2>1, AloneRecord DEF Rollback
    <2>3. \A l \in Links : link'[l] = link[l] /\ linkW'[l] = link[l] /\ spends' = spends
      BY <2>1, AloneDiscard DEF Rollback
    <2>4. \A s \in Requests : /\ req'[s].op # "reset"
                              /\ req'[s].pc \notin {"retire", "insert"}
      BY <2>2 DEF Idle
    <2>5. QED
      BY <2>3, <2>4, LinksSettle
  <1>5. ASSUME UNCHANGED <<linkVars, spends, req>> PROVE LinksInv'
    <2>1. link' = link /\ linkW' = linkW
      BY <1>5 DEF linkVars
    <2>2. SpendsInv'
      BY <1>5, <2>1 DEF LinksInv, SpendsInv, Used
    <2>3. RetireInv'
      BY <1>5, <2>1 DEF LinksInv, RetireInv, OneOutstanding, Outstanding
    <2>4. ThrottleInv'
      BY <1>5, <2>1 DEF LinksInv, ThrottleInv, Throttled, Later, SameWindow, InLimits
    <2>5. QED
      BY <2>2, <2>3, <2>4 DEF LinksInv
  <1>6. ASSUME NEW u \in Users, NEW s \in Statuses, SetStatus(u, s) PROVE LinksInv'
    BY <1>5, <1>6 DEF SetStatus, history
  <1>7. CASE Tick \/ UNCHANGED vars
    BY <1>5, <1>7 DEF Tick, vars, history
  <1>8. QED
    BY <1>2, <1>3, <1>4, <1>6, <1>7, RetireScanLinks, RequestInsertLinks, ResetSpendLinks,
       CommitLinks DEF Next, Handle

\* LinksInv from the start: there are no links.
LEMMA LinksInit == Init => LinksInv
  <1> SUFFICES ASSUME Init PROVE LinksInv
    OBVIOUS
  <1>1. \A l \in Links : link[l] = Absent /\ linkW[l] = Absent /\ spends[l] = 0
    BY DEF Init
  <1>2. \A r \in Requests : req[r].op = "none" /\ req[r].pc = "idle"
    BY DEF Init, Idle
  <1>3. QED
    BY <1>1, <1>2 DEF LinksInv, SpendsInv, RetireInv, ThrottleInv, OneOutstanding,
       Outstanding, Throttled, Used

\* LinksInv throughout.
LEMMA LinksAlone == ASSUME Alone, IsFiniteSet(Links) PROVE Spec => []LinksInv
  <1>1. HandlerInv /\ LinksInv /\ [Next]_vars => LinksInv'
    BY LinksStep
  <1>2. QED
    BY <1>1, LinksInit, Handlers, PTL DEF Spec

\* A reset link resets a password at most once.
THEOREM LinkOnce == ASSUME Alone, IsFiniteSet(Links) PROVE Spec => []LinkWorksOnce
  <1>1. LinksInv => LinkWorksOnce
    BY DEF LinksInv, SpendsInv, LinkWorksOnce
  <1>2. QED
    BY <1>1, LinksAlone, PTL

\* Whoever asks for a new link retires the old one.
THEOREM NewLinkRetiresOld == ASSUME Alone, IsFiniteSet(Links) PROVE Spec => []OneUsableLink
  <1>1. LinksInv => OneUsableLink
    BY DEF LinksInv, RetireInv, OneOutstanding, OneUsableLink, Usable
  <1>2. QED
    BY <1>1, LinksAlone, PTL

\* No window holds more links of an account than the limit, and two of them are
\* a cooldown apart.
THEOREM LinksWithinLimits == ASSUME Alone, IsFiniteSet(Links) PROVE Spec => []ThrottleHolds
  <1>1. LinksInv => ThrottleHolds
    BY DEF LinksInv, ThrottleInv, Throttled, Later, SameWindow, ThrottleHolds
  <1>2. QED
    BY <1>1, LinksAlone, PTL

-----------------------------------------------------------------------------
(* A session descends from a sign-in that knew the password.               *)

\* The instance has no call that writes a password and leaves sessions be:
\* neither the administrator's, nor a change that may stop at its first commit.
OnlyResets == Ops \cap {"change", "set_password"} = {}

\* What a handler has seen to: a sign-in has checked the present password;
\* only a reset is about to change one; its revoke_all_for_user has seen every
\* usable session of the account, and then ended it.
RequestKnows(q) ==
    /\ q.op \notin {"change", "set_password"}
    /\ q.op = "login" => q.pwd = user[q.user].hash
    /\ \A u \in Users : q.op # "reset" \/ q.user # u => userW[u].hash = user[u].hash
    /\ q.op = "reset" /\ q.pc = "revoke" =>
          \A t \in Tokens : IsLive(sess[t]) /\ sess[t].user = q.user => t \in q.scan
    /\ q.op = "reset" /\ q.pc \in {"spend", "commit"} =>
          \A t \in Tokens : IsLive(sessW[t]) => sessW[t].user # q.user

KnowInv ==
    /\ \A t \in Tokens :
          /\ IsLive(sess[t]) => origin[t].knew = user[sess[t].user].hash
          /\ IsLive(sessW[t]) => origin[t].knew = user[sessW[t].user].hash
    /\ \A r \in Requests : RequestKnows(req[r])

\* No password is being changed by a call that is not a reset.
LEMMA KnowPath ==
    ASSUME HandlerInv, KnowInv, NEW r \in Requests
    PROVE  req[r].pc \notin {"hash", "hashed", "stamp", "stamped", "issue"}
  <1>1. req[r] \in Request /\ PathOK(req[r]) /\ RequestKnows(req[r])
    BY HandlerTypes DEF KnowInv, HandlerInv, HeldOK, HandlersOK, ReqTyped
  <1>2. req[r].op \in AllOps \cup {"none"}
    BY <1>1 DEF Request
  <1>3. RequestOK(req[r])
    BY OwnRequest DEF HandlerInv
  <1>4. QED
    BY <1>1, <1>2, <1>3 DEF PathOK, RequestOK, RequestKnows, AllOps

\* A step that writes no session and no password.
LEMMA KnowQuiet ==
    ASSUME Alone, HandlerInv, KnowInv, NEW r \in Requests, NEW q,
           req' = [req EXCEPT ![r] = q], RequestKnows(q),
           UNCHANGED <<userVars, sessVars, origin>>
    PROVE  KnowInv'
  <1>1. \A s \in Requests : s = r /\ req'[s] = q
    BY AloneRecord
  <1>2. user' = user /\ userW' = userW /\ sess' = sess /\ sessW' = sessW /\ origin' = origin
    BY DEF userVars, sessVars
  <1>3. \A s \in Requests : RequestKnows(req[s])'
    BY <1>1, <1>2 DEF RequestKnows
  <1>4. QED
    BY <1>2, <1>3 DEF KnowInv

\* A step that opens at most session t, for who knows the password.
LEMMA KnowFlush ==
    ASSUME Alone, HandlerInv, KnowInv, NEW r \in Requests, NEW q,
           req' = [req EXCEPT ![r] = q],
           q.op = req[r].op, q.user = req[r].user, q.pwd = req[r].pwd,
           UNCHANGED <<user, sess>>,
           \A u \in Users : userW'[u].hash = userW[u].hash,
           NEW N \in SUBSET Tokens,
           \A t \in Tokens \ N : /\ origin'[t] = origin[t]
                                 /\ IsLive(sessW'[t]) => sessW'[t] = sessW[t],
           \A t \in N : /\ ~IsLive(sess[t])
                        /\ origin'[t].knew = user[sessW'[t].user].hash
                        /\ req[r].op # "reset",
           q.op = "reset" => /\ q.pc # "revoke"
                             /\ q.pc \in {"spend", "commit"} =>
                                  \A t \in Tokens : IsLive(sessW'[t]) => sessW'[t].user # q.user
    PROVE  KnowInv'
  <1>1. \A s \in Requests : s = r /\ req'[s] = q
    BY AloneRecord
  <1>2. RequestKnows(req[r])
    BY DEF KnowInv
  <1>3. \A t \in Tokens :
          /\ IsLive(sess'[t]) => origin'[t].knew = user'[sess'[t].user].hash
          /\ IsLive(sessW'[t]) => origin'[t].knew = user'[sessW'[t].user].hash
    BY DEF KnowInv
  <1>4. RequestKnows(q)'
    BY <1>2 DEF RequestKnows
  <1>5. QED
    BY <1>1, <1>3, <1>4 DEF KnowInv, RequestKnows

\* A new request that is no password change.
LEMMA KnowBegin ==
    ASSUME Alone, OnlyResets, HandlerInv, KnowInv, NEW r \in Requests, NEW op, NEW pc,
           NEW u, NEW t, NEW l, NEW p, Begin(r, op, pc, u, t, l, p),
           op = "login" => p = user[u].hash,
           pc \notin {"revoke", "spend", "commit"}
    PROVE  KnowInv'
  <1> DEFINE q == [Idle EXCEPT !.op = op, !.pc = pc, !.user = u, !.tok = t,
                               !.link = l, !.pwd = p, !.at = now]
  <1>1. q.op = op /\ q.pc = pc /\ q.user = u /\ q.pwd = p
    BY DEF Idle
  <1>2. req' = [req EXCEPT ![r] = q] /\ UNCHANGED <<userVars, sessVars, origin>>
    BY DEF Begin, history
  <1>3. op \notin {"change", "set_password"}
    BY DEF Begin, OnlyResets
  <1> HIDE DEF q
  <1>4. req[r].op # "reset"
    BY DEF Begin, HandlerInv, HeldOK, HandlersOK, PathOK
  <1>5. RequestKnows(q)
    BY <1>1, <1>3, <1>4 DEF KnowInv, RequestKnows
  <1>6. QED
    BY <1>2, <1>5, KnowQuiet

\* login: the new session is of who gave the present password.
LEMMA LoginTouchKnows ==
    ASSUME Alone, HandlerInv, KnowInv, NEW r \in Requests, LoginTouch(r)
    PROVE  KnowInv'
  <1> DEFINE q == [req[r] EXCEPT !.pc = "commit", !.mint = now]
  <1>1. PICK t \in Tokens :
          /\ Fresh(t)
          /\ WriteSessions(r, {}, Live, {t}, NewRow(req[r].user, now))
          /\ Opened(t, "login", None, req[r].pwd)
    BY DEF LoginTouch
  <1>2. /\ req[r] \in Request /\ PathOK(req[r]) /\ RequestOK(req[r]) /\ RequestKnows(req[r])
        /\ UsersTyped /\ OriginTyped /\ req[r].pc = "touch"
    BY HandlerTypes, OwnRequest DEF KnowInv, HandlerInv, HeldOK, HandlersOK, LoginTouch
  <1>3. req[r].op = "login" /\ req[r].user \in Users /\ req[r].pwd = user[req[r].user].hash
    <2>1. req[r].op = "login"
      BY <1>2 DEF PathOK, RequestOK, Request, AllOps
    <2>2. QED
      BY <1>2, <2>1 DEF RequestOK, RequestKnows
  <1>4. /\ req' = [req EXCEPT ![r] = q] /\ UNCHANGED <<user, sess>>
        /\ q.op = req[r].op /\ q.user = req[r].user /\ q.pwd = req[r].pwd
    BY <1>1, <1>2 DEF LoginTouch, WriteUser, WriteSessions, Request
  <1>5. \A u \in Users : userW'[u].hash = userW[u].hash
    BY <1>2 DEF LoginTouch, WriteUser, UsersTyped
  <1>6. \A s \in Tokens \ {t} : origin'[s] = origin[s] /\ sessW'[s] = sessW[s]
    BY <1>1, <1>2 DEF Opened, OriginTyped, WriteSessions
  <1>7. /\ ~IsLive(sess[t]) /\ origin'[t].knew = req[r].pwd
        /\ sessW'[t].user = req[r].user
    BY <1>1, <1>2 DEF Fresh, Opened, OriginTyped, WriteSessions, NewRow
  <1> DEFINE N == {t}
  <1>8. /\ N \in SUBSET Tokens /\ q.op # "reset"
        /\ \A s \in Tokens \ N : /\ origin'[s] = origin[s]
                                 /\ IsLive(sessW'[s]) => sessW'[s] = sessW[s]
        /\ \A s \in N : /\ ~IsLive(sess[s])
                        /\ origin'[s].knew = user[sessW'[s].user].hash
                        /\ req[r].op # "reset"
    BY <1>3, <1>4, <1>6, <1>7
  <1> HIDE DEF q, N
  <1>9. QED
    BY <1>4, <1>5, <1>8, KnowFlush

\* refresh: the new session inherits what the renewed one's opener knew.
LEMMA RefreshRotateKnows ==
    ASSUME Alone, HandlerInv, RotateInv, KnowInv, NEW r \in Requests, RefreshRotate(r)
    PROVE  KnowInv'
  <1>1. PICK t \in Tokens, iat \in req[r].at .. now :
          /\ Fresh(t)
          /\ WriteSessions(r, {req[r].tok}, "rotated", {t}, NewRow(req[r].user, iat))
          /\ Opened(t, "refresh", req[r].tok, origin[req[r].tok].knew)
          /\ req' = [req EXCEPT ![r].pc = "commit", ![r].mint = iat]
    BY DEF RefreshRotate
  <1> DEFINE q == [req[r] EXCEPT !.pc = "commit", !.mint = iat]
             p == req[r].tok
             S == {p}
             N == {t}
  <1>2. /\ req[r] \in Request /\ PathOK(req[r]) /\ RequestOK(req[r]) /\ RequestKnows(req[r])
        /\ SessionsTyped /\ OriginTyped /\ req[r].pc = "rotate"
    BY HandlerTypes, OwnRequest DEF KnowInv, HandlerInv, HeldOK, HandlersOK, RefreshRotate
  <1>3. /\ req[r].op # "reset" /\ p \in Tokens /\ IsLive(sess[p])
        /\ sess[p].user = req[r].user
    BY <1>2 DEF PathOK, RequestOK, RotateInv
  <1>4. origin[p].knew = user[req[r].user].hash
    BY <1>3 DEF KnowInv
  <1>5. /\ req' = [req EXCEPT ![r] = q] /\ UNCHANGED <<user, userW, sess>>
        /\ q.op = req[r].op /\ q.user = req[r].user /\ q.pwd = req[r].pwd
    <2>1. req' = [req EXCEPT ![r] = q]
      BY <1>1
    <2>2. UNCHANGED <<user, userW, sess>>
      BY <1>1 DEF RefreshRotate, WriteSessions, userVars
    <2>3. q.op = req[r].op /\ q.user = req[r].user /\ q.pwd = req[r].pwd
      BY <1>2 DEF Request
    <2>4. QED
      BY <2>1, <2>2, <2>3
  <1>6. t # p /\ ~IsLive(sess[t])
    BY <1>1, <1>3 DEF Fresh
  <1>7. /\ origin'[t].knew = user[req[r].user].hash
        /\ \A s \in Tokens \ N : origin'[s] = origin[s]
    BY <1>1, <1>2, <1>4 DEF Opened, OriginTyped
  <1>8. /\ sessW'[t].user = req[r].user
        /\ \A s \in Tokens \ N : IsLive(sessW'[s]) => sessW'[s] = sessW[s]
    <2>0. t \notin S
      BY <1>6
    <2>1. WriteSessions(r, S, "rotated", N, NewRow(req[r].user, iat))
      BY <1>1
    <2>2. t \in N /\ S \subseteq Tokens
      BY <1>3
    <2>3. \A s \in S : sessW[s] \in SessionRow
      <3>1. sessW[p] # Absent
        BY <1>3 DEF HandlerInv, SessionInv, SessRowsOK
      <3>2. QED
        BY <1>2, <1>3, <3>1 DEF SessionsTyped
    <2> HIDE DEF S, N
    <2>4. sessW'[t] = NewRow(req[r].user, iat)
      BY <2>1, <2>2, <2>0 DEF WriteSessions
    <2>5. \A s \in Tokens \ N : s \notin S => sessW'[s] = sessW[s]
      BY <2>1 DEF WriteSessions
    <2>6. \A s \in Tokens \ N : s \in S => ~IsLive(sessW'[s])
      BY <2>1, <2>3 DEF WriteSessions, SessionRow, Live
    <2>7. QED
      BY <2>4, <2>5, <2>6 DEF NewRow
  <1>9. /\ N \in SUBSET Tokens /\ q.op # "reset"
        /\ \A s \in N : /\ ~IsLive(sess[s])
                        /\ origin'[s].knew = user[sessW'[s].user].hash
                        /\ req[r].op # "reset"
    BY <1>3, <1>5, <1>6, <1>7, <1>8
  <1>10. \A u \in Users : userW'[u].hash = userW[u].hash
    BY <1>5
  <1> HIDE DEF q, N, p
  <1>11. QED
    BY <1>5, <1>7, <1>8, <1>9, <1>10, KnowFlush

\* logout, and the UPDATE of revoke_all_for_user: sessions end, none opens.
LEMMA EndKnows ==
    ASSUME Alone, HandlerInv, KnowInv, NEW r \in Requests, LogoutMark(r) \/ RevokeAll(r)
    PROVE  KnowInv'
  <1>1. PICK T \in SUBSET Tokens, why \in Reasons :
          /\ WriteSessions(r, T, why, {}, Absent) /\ \A t \in T : sessW[t] \in SessionRow
          /\ RevokeAll(r) => T = {t \in req[r].scan : IsLive(sessW[t])}
    <2>1. req[r] \in Request /\ RequestOK(req[r]) /\ SessionsTyped
      BY HandlerTypes, OwnRequest DEF HandlerInv
    <2>2. CASE LogoutMark(r)
      <3>1. req[r].tok \in Tokens /\ sessW[req[r].tok] \in SessionRow
        BY <2>1, <2>2 DEF LogoutMark, RequestOK, HandlerInv, SessionInv, SessRowsOK, SessionsTyped
      <3>2. WriteSessions(r, {req[r].tok}, "logout", {}, Absent) /\ "logout" \in Reasons
        BY <2>2 DEF LogoutMark, Reasons
      <3>3. ~RevokeAll(r)
        BY <2>2 DEF LogoutMark, RevokeAll
      <3>4. {req[r].tok} \in SUBSET Tokens /\ \A t \in {req[r].tok} : sessW[t] \in SessionRow
        BY <3>1
      <3>5. QED
        BY <3>2, <3>3, <3>4
    <2>3. CASE RevokeAll(r)
      <3> DEFINE T == {t \in req[r].scan : IsLive(sessW[t])}
      <3>1. T \in SUBSET Tokens /\ \A t \in T : sessW[t] \in SessionRow
        BY <2>1 DEF Request, SessionsTyped
      <3>2. WriteSessions(r, T, RevokeReason(req[r].op), {}, Absent)
        BY <2>3 DEF RevokeAll
      <3>3. RevokeReason(req[r].op) \in Reasons
        BY DEF RevokeReason, Reasons
      <3>4. QED
        BY <3>1, <3>2, <3>3
    <2>4. QED
      BY <2>2, <2>3
  <1>2. /\ req[r] \in Request /\ PathOK(req[r]) /\ RequestKnows(req[r]) /\ ReqTyped
    BY HandlerTypes DEF KnowInv, HandlerInv, HeldOK, HandlersOK, ReqTyped
  <1>3. PICK q : req' = [req EXCEPT ![r] = q]
    BY DEF LogoutMark, RevokeAll, Goto
  <1>4. q = req'[r]
    BY <1>2, <1>3 DEF ReqTyped
  <1>5. /\ q.op = req[r].op /\ q.user = req[r].user /\ q.pwd = req[r].pwd
        /\ q.op = "reset" => req[r].pc = "revoke" /\ q.pc # "revoke" /\ RevokeAll(r)
    BY <1>2, <1>4 DEF LogoutMark, RevokeAll, Goto, AfterRevoke, ReqTyped, Request, PathOK
  <1>6. /\ UNCHANGED <<user, userW, sess, origin>>
    BY DEF LogoutMark, RevokeAll, WriteSessions, userVars, history
  <1>7. \A t \in Tokens : /\ t \in T => ~IsLive(sessW'[t])
                          /\ t \notin T => sessW'[t] = sessW[t]
    BY <1>1 DEF WriteSessions, SessionRow, Reasons, Live
  <1>8. ASSUME q.op = "reset", NEW t \in Tokens, IsLive(sessW'[t])
        PROVE  sessW'[t].user # q.user
    <2>1. t \notin T /\ sessW'[t] = sessW[t]
      BY <1>7, <1>8
    <2>2. sessW[t] = sess[t]
      BY <1>5, <1>8, HoldsNone, AloneHolds DEF HasSessions
    <2>3. t \notin req[r].scan
      BY <1>1, <1>5, <1>8, <2>1
    <2>4. QED
      BY <1>2, <1>5, <1>8, <2>1, <2>2, <2>3 DEF RequestKnows
  <1> DEFINE N == {}
  <1>9. N \in SUBSET Tokens /\ \A t \in N : FALSE
    OBVIOUS
  <1>10. \A t \in Tokens \ N : IsLive(sessW'[t]) => sessW'[t] = sessW[t]
    BY <1>7
  <1> HIDE DEF N
  <1>11. QED
    BY <1>3, <1>5, <1>6, <1>8, <1>9, <1>10, KnowFlush

\* reset-password: the new hash is in the version about to be committed.
LEMMA ResetRenewKnows ==
    ASSUME Alone, HandlerInv, KnowInv, NEW r \in Requests, ResetRenew(r)
    PROVE  KnowInv'
  <1> DEFINE q == [req[r] EXCEPT !.pc = "scan"]
  <1>1. req[r] \in Request /\ PathOK(req[r]) /\ RequestOK(req[r]) /\ RequestKnows(req[r])
        /\ req[r].pc = "renew" /\ UsersTyped
    BY HandlerTypes, OwnRequest DEF KnowInv, HandlerInv, HeldOK, HandlersOK, ResetRenew
  <1>2. /\ req' = [req EXCEPT ![r] = q] /\ q.op = "reset" /\ q.pc = "scan"
        /\ q.user = req[r].user
    BY <1>1 DEF ResetRenew, Goto, Request, PathOK, RequestOK, AllOps
  <1>3. \A s \in Requests : s = r /\ req'[s] = q
    <2> HIDE DEF q
    <2>1. QED
      BY <1>2, AloneRecord
  <1>4. /\ user' = user /\ sess' = sess /\ sessW' = sessW /\ origin' = origin
        /\ \A u \in Users : u # req[r].user => userW'[u] = userW[u]
    BY <1>1 DEF ResetRenew, WriteUser, UsersTyped, sessVars, history
  <1> HIDE DEF q
  <1>5. \A s \in Requests : RequestKnows(req[s])'
    BY <1>1, <1>2, <1>3, <1>4 DEF RequestKnows
  <1>6. QED
    BY <1>4, <1>5 DEF KnowInv

\* The one commit: a reset's leaves no usable session on its account, any
\* other commit no new password.
LEMMA CommitKnows ==
    ASSUME Alone, HandlerInv, KnowInv, NEW r \in Requests, Commit(r) \/ ChangeCommit(r)
    PROVE  KnowInv'
  <1>1. /\ req[r] \in Request /\ RequestKnows(req[r]) /\ ReqTyped /\ SessionsTyped
        /\ Commit(r) /\ req[r].pc = "commit"
    BY HandlerTypes, KnowPath DEF KnowInv, ReqTyped, ChangeCommit, Commit
  <1>2. /\ \A u \in Users : user'[u] = userW[u] /\ userW'[u] = userW[u]
        /\ \A t \in Tokens : sess'[t] = sessW[t] /\ sessW'[t] = sessW[t]
        /\ origin' = origin
    BY <1>1, AlonePublish DEF Commit
  <1>3. ASSUME NEW t \in Tokens, IsLive(sessW[t])
        PROVE  origin[t].knew = userW[sessW[t].user].hash
    <2>1. origin[t].knew = user[sessW[t].user].hash /\ sessW[t].user \in Users
      BY <1>1, <1>3 DEF KnowInv, SessionsTyped, SessionRow
    <2>2. req[r].op # "reset" \/ req[r].user # sessW[t].user
      BY <1>1, <1>3 DEF RequestKnows
    <2>3. QED
      BY <1>1, <2>1, <2>2 DEF RequestKnows
  <1>4. \A s \in Requests : s = r
    BY DEF Alone
  <1>5. /\ req'[r].op \notin {"change", "set_password", "login", "reset"}
    <2>1. CASE req[r].op = "request"
      BY <1>1, <2>1 DEF Commit, ReqTyped, Request
    <2>2. CASE req[r].op # "request"
      <3>1. req'[r] = Idle
        BY <1>1, <2>2 DEF Commit, ReqTyped
      <3>2. QED
        BY <3>1 DEF Idle
    <2>3. QED
      BY <2>1, <2>2
  <1>6. RequestKnows(req[r])'
    BY <1>2, <1>5 DEF RequestKnows
  <1>7. \A t \in Tokens : IsLive(sessW[t]) => sessW[t].user \in Users
    BY <1>1 DEF SessionsTyped, SessionRow
  <1>8. QED
    BY <1>2, <1>3, <1>4, <1>6, <1>7 DEF KnowInv

\* A rollback: what is left was there before.
LEMMA RollbackKnows ==
    ASSUME Alone, HandlerInv, KnowInv, NEW r \in Requests, Rollback(r)
    PROVE  KnowInv'
  <1>1. /\ \A u \in Users : user'[u] = user[u] /\ userW'[u] = user[u]
        /\ \A t \in Tokens : sess'[t] = sess[t] /\ sessW'[t] = sess[t]
        /\ SessionsTyped /\ OriginTyped
    BY AloneDiscard, HandlerTypes DEF Rollback
  <1>2. \A t \in Tokens : IsLive(sess[t]) => /\ origin'[t] = origin[t]
                                             /\ sess[t].user \in Users
    BY <1>1 DEF Rollback, SessionsTyped, SessionRow
  <1>3. \A s \in Requests : s = r /\ req'[s] = Idle
    BY AloneRecord DEF Rollback
  <1>4. \A s \in Requests : RequestKnows(req[s])'
    BY <1>1, <1>3 DEF RequestKnows, Idle
  <1>5. QED
    BY <1>1, <1>2, <1>4 DEF KnowInv

\* The administrator's status route writes no password, and the clock no row.
LEMMA OutsideKnows ==
    ASSUME Alone, HandlerInv, KnowInv, UNCHANGED <<sessVars, req, origin>>,
           \A u \in Users : user'[u].hash = user[u].hash /\ userW'[u].hash = userW[u].hash
    PROVE  KnowInv'
  <1>1. sess' = sess /\ sessW' = sessW /\ req' = req /\ origin' = origin
    BY DEF sessVars
  <1>2. SessionsTyped /\ ReqTyped /\ \A r \in Requests : PathOK(req[r]) /\ RequestOK(req[r])
    BY HandlerTypes DEF HandlerInv, HeldOK, HandlersOK, SessionInv, RequestsOK
  <1>3. \A r \in Requests : req[r].op = "login" => req[r].user \in Users
    BY <1>2 DEF PathOK, RequestOK
  <1>4. \A r \in Requests : RequestKnows(req[r])'
    BY <1>1, <1>3 DEF KnowInv, RequestKnows
  <1>5. \A t \in Tokens : /\ IsLive(sess[t]) => sess[t].user \in Users
                          /\ IsLive(sessW[t]) => sessW[t].user \in Users
    BY <1>2 DEF SessionsTyped, SessionRow
  <1>6. QED
    BY <1>1, <1>4, <1>5 DEF KnowInv

\* The remaining steps of handlers write no session and no password.
LEMMA MoveKnows ==
    ASSUME Alone, HandlerInv, KnowInv, NEW r \in Requests,
           \/ RevokeScan(r) \/ RetireScan(r) \/ RequestInsert(r) \/ RequestSend(r)
           \/ ResetSpend(r)
    PROVE  KnowInv'
  <1>1. /\ req[r] \in Request /\ PathOK(req[r]) /\ RequestOK(req[r]) /\ RequestKnows(req[r])
        /\ ReqTyped
    BY HandlerTypes, OwnRequest DEF KnowInv, HandlerInv, HeldOK, HandlersOK
  <1>2. PICK q : req' = [req EXCEPT ![r] = q]
    BY DEF RevokeScan, RetireScan, RequestInsert, RequestSend, ResetSpend, Goto
  <1>3. q = req'[r]
    BY <1>1, <1>2 DEF ReqTyped
  <1>4. UNCHANGED <<userVars, sessVars, origin>>
    BY DEF RevokeScan, RetireScan, RequestInsert, RequestSend, ResetSpend, history
  <1>5. CASE RevokeScan(r)
    <2> DEFINE S == {t \in Tokens : Revocable(r, t)}
    <2>1. q = [req[r] EXCEPT !.pc = "revoke", !.scan = S] /\ req[r].pc = "scan"
      BY <1>1, <1>3, <1>5 DEF RevokeScan, ReqTyped
    <2>2. /\ q.op = req[r].op /\ q.user = req[r].user /\ q.pwd = req[r].pwd
          /\ q.pc = "revoke" /\ q.scan = S
      BY <1>1, <2>1 DEF Request
    <2>3. \A t \in Tokens : Sees(r, t) = sess[t]
      BY <2>1, HoldsNone DEF HasSessions, Sees
    <2>4. \A t \in Tokens : IsLive(sess[t]) /\ sess[t].user = req[r].user => t \in S
      BY <2>3 DEF Revocable
    <2> HIDE DEF S
    <2>5. RequestKnows(q)
      BY <1>1, <2>2, <2>4 DEF RequestKnows
    <2>6. QED
      BY <1>2, <1>4, <2>5, KnowQuiet
  <1>6. CASE RetireScan(r) \/ RequestInsert(r) \/ RequestSend(r)
    <2>1. req[r].op = "request"
      BY <1>1, <1>6 DEF RequestOK, RetireScan, RequestInsert, RequestSend
    <2>2. q.op \in {"request", "none"}
      <3>1. CASE RetireScan(r)
        BY <1>1, <1>3, <2>1, <3>1 DEF RetireScan, ReqTyped, Request
      <3>2. CASE RequestInsert(r)
        BY <1>1, <1>3, <2>1, <3>2 DEF RequestInsert, ReqTyped, Request
      <3>3. CASE RequestSend(r)
        BY <1>1, <1>3, <3>3 DEF RequestSend, ReqTyped, Idle
      <3>4. QED
        BY <1>6, <3>1, <3>2, <3>3
    <2>3. RequestKnows(q)
      BY <1>1, <2>1, <2>2 DEF RequestKnows
    <2>4. QED
      BY <1>2, <1>4, <2>3, KnowQuiet
  <1>7. CASE ResetSpend(r)
    <2>1. /\ q.op = "reset" /\ q.user = req[r].user /\ q.pc = "commit"
          /\ req[r].op = "reset" /\ req[r].pc = "spend"
      BY <1>1, <1>3, <1>7 DEF ResetSpend, Goto, ReqTyped, Request, RequestOK
    <2>2. RequestKnows(q)
      BY <1>1, <2>1 DEF RequestKnows
    <2>3. QED
      BY <1>2, <1>4, <2>2, KnowQuiet
  <1>8. QED
    BY <1>5, <1>6, <1>7

\* Every step.
LEMMA KnowStep ==
    ASSUME Alone, OnlyResets, HandlerInv, RotateInv, KnowInv, [Next]_vars
    PROVE  KnowInv'
  <1>1. ASSUME NEW r \in Requests, Arrive(r) PROVE KnowInv'
    BY <1>1, KnowBegin DEF Arrive, LoginVerify, RefreshLoad, RefreshReuse, LogoutLoad,
       LogoutAllStart, RequestLoad, ResetLoad, ChangeLoad
  <1>2. ASSUME NEW r \in Requests, SetHash(r) \/ ChangeStamp(r) \/ ChangeIssue(r)
        PROVE  KnowInv'
    BY <1>2, KnowPath DEF SetHash, ChangeStamp, ChangeIssue
  <1>3. ASSUME NEW r \in Requests, Handle(r) PROVE KnowInv'
    BY <1>2, <1>3, LoginTouchKnows, RefreshRotateKnows, EndKnows, ResetRenewKnows,
       MoveKnows, CommitKnows DEF Handle
  <1>4. ASSUME NEW r \in Requests, DeadlockVictim(r) \/ Crash(r) PROVE KnowInv'
    BY <1>4, RollbackKnows DEF DeadlockVictim, Crash
  <1>5. ASSUME NEW u \in Users, NEW s \in Statuses, SetStatus(u, s) PROVE KnowInv'
    <2>1. UNCHANGED <<sessVars, req, origin>>
      BY <1>5 DEF SetStatus, history
    <2>2. \A v \in Users : user'[v].hash = user[v].hash /\ userW'[v].hash = userW[v].hash
      BY <1>5, HandlerTypes DEF SetStatus, UsersTyped, UserRow
    <2>3. QED
      BY <2>1, <2>2, OutsideKnows
  <1>6. CASE Tick \/ UNCHANGED vars
    BY <1>6, OutsideKnows DEF Tick, vars, userVars, history
  <1>7. QED
    BY <1>1, <1>3, <1>4, <1>5, <1>6 DEF Next

\* While requests do not overlap and no password is changed but by a reset, a
\* usable session is of someone who knew the account's present password.
THEOREM SessionsKnow == ASSUME Alone, OnlyResets PROVE Spec => []SessionsKnowPassword
  <1>1. Init => RotateInv /\ KnowInv
    BY DEF Init, Idle, RotateInv, KnowInv, RequestKnows
  <1>2. HandlerInv /\ RotateInv /\ KnowInv /\ [Next]_vars => RotateInv' /\ KnowInv'
    BY RotateStep, KnowStep
  <1>3. KnowInv => SessionsKnowPassword
    BY DEF KnowInv, SessionsKnowPassword
  <1>4. QED
    BY <1>1, <1>2, <1>3, Handlers, PTL DEF Spec
=============================================================================
