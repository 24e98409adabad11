------------------------- MODULE AuthHandlersProofs -------------------------
(***************************************************************************)
(* What the handlers of AuthSessions hold while they run, proved for any   *)
(* number of accounts, requests, tokens and links: HandlerInv is inductive *)
(* over SessionInv, and from it follow what each commit does to sessions,  *)
(* access tokens, links and blocked accounts, and the refinement of        *)
(* SessionLedger.                                                          *)
(***************************************************************************)
EXTENDS AuthSessionsProofs

USE DEF At, Exists, IsLive, Live

-----------------------------------------------------------------------------
(* What HandlerInv says of one request.                                    *)

\* The types HandlerInv carries, table by table.
LEMMA HandlerTypes ==
    ASSUME HandlerInv
    PROVE  /\ UsersTyped /\ SessionsTyped /\ LinksTyped
           /\ OriginTyped /\ OthersTyped /\ ReqTyped
  BY TypeParts DEF HandlerInv, SessionInv

\* A step of request r leaves the records of the others alone.
LEMMA OneRecord ==
    ASSUME ReqTyped, NEW r \in Requests, NEW q, req' = [req EXCEPT ![r] = q]
    PROVE  req'[r] = q /\ \A s \in Requests : s # r => req'[s] = req[s]
  BY DEF ReqTyped

\* An idle handler holds no row, nor does one before its first write.
LEMMA HoldsNone ==
    ASSUME HandlerInv, NEW r \in Requests
    PROVE  /\ ~HasUser(req[r]) => \A u \in Users : userLock[u] # r
           /\ ~HasSessions(req[r]) => \A t \in Tokens : sessLock[t] # r
           /\ req[r].pc # "commit" => \A l \in Links : linkLock[l] # r
           /\ req[r].pc = "idle" => ~HasUser(req[r])
           /\ req[r].pc # "commit" =>
                 \A t \in Tokens : sessLock[t] = r => Exists(t)
  <1>1. ReqTyped /\ SessionsTyped
    BY HandlerTypes
  <1>2. PathOK(req[r])
    BY DEF HandlerInv, HeldOK, HandlersOK
  <1>3. req[r].pc = "idle" => ~HasUser(req[r])
    BY <1>2 DEF PathOK, HasUser
  <1>4. /\ ~HasUser(req[r]) => \A u \in Users : userLock[u] # r
        /\ ~HasSessions(req[r]) => \A t \in Tokens : sessLock[t] # r
        /\ req[r].pc # "commit" => \A l \in Links : linkLock[l] # r
    BY NoneAssumption DEF HandlerInv, HeldOK, UserLocksOK, SessLocksOK, LinkLocksOK
  <1>5. ASSUME req[r].pc # "commit", NEW t \in Tokens, sessLock[t] = r
        PROVE  Exists(t)
    BY <1>5, NoneAssumption DEF HandlerInv, HeldOK, BirthsOK, BirthOK
  <1>6. QED
    BY <1>3, <1>4, <1>5

-----------------------------------------------------------------------------
(* HeldOK is inductive over SessionInv: steps that write no row.           *)

\* A step that moves request r on, without a write.
LEMMA MoveHeld ==
    ASSUME HandlerInv, NEW r \in Requests, NEW q, PathOK(q),
           req' = [req EXCEPT ![r] = q],
           UNCHANGED <<userVars, sessVars, linkVars, origin>>,
           ~HasSessions(req[r]), ~HasSessions(q),
           HasUser(req[r]) => HasUser(q) /\ q.user = req[r].user,
           ScanOK(r)', SawOK(r)', CutoffOK(r)', MailOK'
    PROVE  HeldOK'
  <1> USE DEF userVars, sessVars, linkVars
  <1>1. /\ UsersTyped /\ SessionsTyped /\ LinksTyped /\ ReqTyped
    BY HandlerTypes
  <1>2. req'[r] = q /\ \A s \in Requests : s # r => req'[s] = req[s]
    BY <1>1, OneRecord
  <1>3. req[r].pc # "commit" /\ q.pc # "commit"
    BY DEF HasSessions
  <1>4. UserLocksOK'
    BY <1>1, <1>2 DEF UsersTyped, HandlerInv, HeldOK, UserLocksOK
  <1>5. SessLocksOK' /\ LinkLocksOK'
    BY <1>1, <1>2, <1>3, HoldsNone
    DEF SessionsTyped, LinksTyped, HandlerInv, HeldOK, SessLocksOK, LinkLocksOK
  <1>6. EndsOK' /\ BlocksOK'
    BY DEF HandlerInv, HeldOK, EndsOK, BlocksOK
  <1>7. BirthsOK'
    BY <1>1, <1>2, HoldsNone DEF SessionsTyped, HandlerInv, HeldOK, BirthsOK, BirthOK
  <1>8. HandlersOK'
    <2>1. ASSUME NEW s \in Requests, s # r
          PROVE  /\ PathOK(req[s])' /\ ScanOK(s)' /\ SawOK(s)' /\ CutoffOK(s)'
                 /\ SignsIn(req[s])' => userLock'[req'[s].user] = s
      <3>1. /\ PathOK(req[s]) /\ ScanOK(s) /\ SawOK(s) /\ CutoffOK(s)
            /\ SignsIn(req[s]) => userLock[req[s].user] = s
        BY DEF HandlerInv, HeldOK, HandlersOK
      <3>2. req'[s] = req[s]
        BY <1>2, <2>1
      <3>3. QED
        BY <3>1, <3>2 DEF PathOK, ScanOK, Revoked, SawOK, CutoffOK, SignsIn
    <2>2. PathOK(req[r])' /\ ~SignsIn(req[r])'
      BY <1>2, <1>3 DEF PathOK, SignsIn
    <2>3. QED
      BY <2>1, <2>2 DEF HandlersOK
  <1>9. QED
    BY <1>4, <1>5, <1>6, <1>7, <1>8 DEF HeldOK

-----------------------------------------------------------------------------
(* Steps that write rows, table by table.                                  *)

\* A write to the users row of request r's account, beside which r holds no
\* row of a user yet.
LEMMA UserWriteHeld ==
    ASSUME HandlerInv, NEW r \in Requests, NEW q, PathOK(q),
           req' = [req EXCEPT ![r] = q], q.user = req[r].user,
           req[r].user \in Users, req[r].pc # "commit",
           ~HasUser(req[r]), HasUser(q), HasSessions(req[r]) => HasSessions(q),
           NEW row, WriteUser(r, req[r].user, row),
           userW[req[r].user].status = "blocked" => row.status = "blocked",
           UNCHANGED <<sessVars, linkVars, origin>>,
           ScanOK(r)', SawOK(r)', CutoffOK(r)', MailOK'
    PROVE  HeldOK'
  <1> USE DEF sessVars, linkVars
  <1>1. /\ UsersTyped /\ SessionsTyped /\ LinksTyped /\ ReqTyped
    BY HandlerTypes
  <1>2. req'[r] = q /\ \A s \in Requests : s # r => req'[s] = req[s]
    BY <1>1, OneRecord
  <1> DEFINE u == req[r].user
  <1>3. /\ userLock[u] = None /\ user' = user
        /\ userW' = [userW EXCEPT ![u] = row] /\ userLock' = [userLock EXCEPT ![u] = r]
    BY HoldsNone DEF WriteUser, UserFree
  <1>4. \A v \in Users : userLock[v] # r
    BY HoldsNone
  <1>5. UserLocksOK'
    <2> SUFFICES ASSUME NEW v \in Users
                 PROVE  IF userLock'[v] = None THEN userW'[v] = user'[v]
                        ELSE HasUser(req'[userLock'[v]]) /\ req'[userLock'[v]].user = v
      BY DEF UserLocksOK, HasUser
    <2>1. CASE v = u
      BY <1>1, <1>2, <1>3, <2>1, NoneAssumption DEF UsersTyped
    <2>2. CASE v # u
      <3>1. userLock'[v] = userLock[v] /\ userW'[v] = userW[v] /\ userLock[v] # r
        BY <1>1, <1>3, <1>4, <2>2 DEF UsersTyped
      <3>2. userLock[v] # None => req'[userLock[v]] = req[userLock[v]]
        BY <1>1, <1>2, <3>1 DEF UsersTyped
      <3>3. QED
        BY <1>3, <3>1, <3>2 DEF HandlerInv, HeldOK, UserLocksOK
    <2>3. QED
      BY <2>1, <2>2
  <1>6. SessLocksOK' /\ LinkLocksOK'
    BY <1>1, <1>2, HoldsNone
    DEF SessionsTyped, LinksTyped, HandlerInv, HeldOK, SessLocksOK, LinkLocksOK
  <1>7. EndsOK'
    BY DEF HandlerInv, HeldOK, EndsOK
  <1>8. BlocksOK'
    BY <1>1, <1>3 DEF HandlerInv, HeldOK, BlocksOK, UsersTyped
  <1>9. BirthsOK'
    BY <1>1, <1>2, HoldsNone DEF SessionsTyped, HandlerInv, HeldOK, BirthsOK, BirthOK
  <1>10. HandlersOK'
    <2>1. ASSUME NEW s \in Requests, s # r
          PROVE  /\ PathOK(req[s])' /\ ScanOK(s)' /\ SawOK(s)' /\ CutoffOK(s)'
                 /\ SignsIn(req[s])' => userLock'[req'[s].user] = s
      <3>1. /\ PathOK(req[s]) /\ ScanOK(s) /\ SawOK(s) /\ CutoffOK(s)
            /\ SignsIn(req[s]) => userLock[req[s].user] = s
        BY DEF HandlerInv, HeldOK, HandlersOK
      <3>2. req'[s] = req[s]
        BY <1>2, <2>1
      <3>3. userLock[req[s].user] = s =>
              userLock'[req[s].user] = s /\ userW'[req[s].user] = userW[req[s].user]
        BY <1>1, <1>3, <2>1, NoneAssumption DEF UsersTyped
      <3>4. QED
        BY <3>1, <3>2, <3>3 DEF PathOK, ScanOK, Revoked, SawOK, CutoffOK, SignsIn
    <2>2. PathOK(req[r])' /\ (SignsIn(req[r])' => userLock'[req'[r].user] = r)
      BY <1>1, <1>2, <1>3 DEF PathOK, UsersTyped
    <2>3. QED
      BY <2>1, <2>2 DEF HandlersOK
  <1>11. QED
    BY <1>5, <1>6, <1>7, <1>8, <1>9, <1>10 DEF HeldOK

\* The sessions in N that a request in state q opens, beside the ends of T, are
\* one, live and its own; nothing else is said of how a session was opened.
OpensOnly(q, T, N, row) ==
    /\ \A t \in N : /\ N = {t} /\ T \subseteq {origin'[t].parent}
                    /\ q.pc = "commit" /\ q.op \in {"login", "refresh", "change"}
                    /\ row.revoked = Live /\ row # Absent /\ row.user = q.user
                    /\ origin'[t].via = "login" => q.op = "login"
    /\ \A t \in Tokens \ N : origin'[t] = origin[t]

\* What the requests beside r know of the users rows they hold stays true.
UsersKept(r) ==
    \A s \in Requests \ {r} : CutoffOK(s)'
        /\ (SignsIn(req[s]) => userLock'[req[s].user] = s)

\* A flush by request r, which held no session: the committed sessions in T
\* end, and at most one opens, r's own.
LEMMA FlushHeld ==
    ASSUME HandlerInv, NEW r \in Requests, NEW q, PathOK(q),
           req' = [req EXCEPT ![r] = q], q.user = req[r].user, q.op = req[r].op,
           ~HasSessions(req[r]), HasSessions(q),
           NEW T \in SUBSET Tokens, \A t \in T : Exists(t),
           NEW N \in SUBSET Tokens, \A t \in N : Fresh(t),
           NEW why, T # {} => why \in Reasons, NEW row,
           WriteSessions(r, T, why, N, row),
           OpensOnly(q, T, N, row),
           UNCHANGED linkVars,
           UserLocksOK', BlocksOK', UsersKept(r),
           SignsIn(q) => userLock'[q.user] = r,
           ScanOK(r)', SawOK(r)', CutoffOK(r)', MailOK'
    PROVE  HeldOK'
  <1> USE DEF linkVars
  <1>1. /\ UsersTyped /\ SessionsTyped /\ LinksTyped /\ ReqTyped
    BY HandlerTypes
  <1>2. req'[r] = q /\ \A s \in Requests : s # r => req'[s] = req[s]
    BY <1>1, OneRecord
  <1>3. /\ sess' = sess
        /\ sessW' = [t \in Tokens |-> CASE t \in N -> row
                          [] t \in T -> [sessW[t] EXCEPT !.revoked = why]
                          [] OTHER -> sessW[t]]
        /\ sessLock' = [t \in Tokens |-> IF t \in T \cup N THEN r ELSE sessLock[t]]
        /\ \A t \in T : sessLock[t] = None
    BY HoldsNone DEF WriteSessions, SessFree
  <1>4. \A t \in Tokens : sessLock[t] # r
    BY HoldsNone
  <1>5. \A t \in T : sessW'[t].user = sessW[t].user /\ sessW'[t].revoked # "live"
    <2> SUFFICES ASSUME NEW t \in T
                 PROVE  sessW'[t].user = sessW[t].user /\ sessW'[t].revoked # "live"
      OBVIOUS
    <2>1. t \notin N /\ why # "live"
      BY DEF Fresh, Reasons
    <2>2. sessW[t] \in SessionRow
      BY <1>1 DEF SessionsTyped, HandlerInv, SessionInv, SessRowsOK
    <2>3. sessW'[t] = [sessW[t] EXCEPT !.revoked = why]
      BY <1>3, <2>1
    <2>4. QED
      BY <2>1, <2>2, <2>3 DEF SessionRow
  <1>6. SessLocksOK'
    <2> SUFFICES ASSUME NEW t \in Tokens
                 PROVE  IF sessLock'[t] = None THEN sessW'[t] = sess'[t]
                        ELSE HasSessions(req'[sessLock'[t]])
      BY DEF SessLocksOK, HasSessions
    <2>1. CASE t \in T \cup N
      BY <1>2, <1>3, <2>1, NoneAssumption
    <2>2. CASE t \notin T \cup N
      <3>1. sessLock'[t] = sessLock[t] /\ sessW'[t] = sessW[t] /\ sessLock[t] # r
        BY <1>3, <1>4, <2>2
      <3>2. sessLock[t] # None => req'[sessLock[t]] = req[sessLock[t]]
        BY <1>1, <1>2, <3>1 DEF SessionsTyped
      <3>3. QED
        BY <1>3, <3>1, <3>2 DEF HandlerInv, HeldOK, SessLocksOK
    <2>3. QED
      BY <2>1, <2>2
  <1>7. LinkLocksOK'
    BY <1>1, <1>2, HoldsNone DEF LinksTyped, HasSessions, HandlerInv, HeldOK, LinkLocksOK
  <1>8. EndsOK'
    BY <1>3, <1>5 DEF HandlerInv, HeldOK, EndsOK, Fresh
  <1>9. BirthsOK'
    <2> SUFFICES ASSUME NEW t \in Tokens, sessLock'[t] # None, ~Exists(t)
                 PROVE  BirthOK(t)'
      BY <1>3 DEF BirthsOK, BirthOK
    <2>1. CASE t \in N
      BY <1>2, <1>3, <1>4, <2>1 DEF BirthOK, OpensOnly
    <2>2. CASE t \notin N
      <3>1. t \notin T /\ sessLock'[t] = sessLock[t] /\ sessW'[t] = sessW[t]
        BY <1>3, <2>2
      <3>2. sessLock[t] \in Requests /\ sessLock[t] # r
        BY <1>1, <1>4, <3>1 DEF SessionsTyped
      <3>3. req'[sessLock[t]] = req[sessLock[t]]
        BY <1>2, <3>2
      <3>4. \A s \in Tokens : sessLock'[s] = sessLock[t] => sessLock[s] = sessLock[t]
        BY <1>3, <3>2
      <3>5. origin'[t] = origin[t] /\ BirthOK(t)
        BY <2>2 DEF OpensOnly, HandlerInv, HeldOK, BirthsOK
      <3>6. QED
        BY <3>1, <3>2, <3>3, <3>4, <3>5 DEF BirthOK
    <2>3. QED
      BY <2>1, <2>2
  <1>10. HandlersOK'
    <2>1. ASSUME NEW s \in Requests, s # r
          PROVE  /\ PathOK(req[s])' /\ ScanOK(s)' /\ SawOK(s)' /\ CutoffOK(s)'
                 /\ SignsIn(req[s])' => userLock'[req'[s].user] = s
      <3>1. PathOK(req[s]) /\ ScanOK(s) /\ SawOK(s)
        BY DEF HandlerInv, HeldOK, HandlersOK
      <3>2. req'[s] = req[s]
        BY <1>2, <2>1
      <3>3. \A t \in Tokens : sessLock[t] = s => sessLock'[t] = s
        BY <1>3, NoneAssumption DEF Fresh
      <3>4. req[s].scan \subseteq Tokens
        BY <1>1 DEF ReqTyped, Request
      <3>5. ScanOK(s)'
        BY <1>3, <3>1, <3>2, <3>3, <3>4 DEF ScanOK, Revoked
      <3>6. SawOK(s)'
        <4>1. \A t \in N : ~Exists(t)
          BY DEF Fresh
        <4>2. QED
          BY <1>3, <3>1, <3>2, <4>1 DEF OpensOnly, SawOK
      <3>7. QED
        BY <2>1, <3>1, <3>2, <3>5, <3>6 DEF PathOK, SignsIn, UsersKept
    <2>2. PathOK(req[r])' /\ (SignsIn(req[r])' => userLock'[req'[r].user] = r)
      BY <1>2 DEF PathOK, SignsIn
    <2>3. QED
      BY <2>1, <2>2 DEF HandlersOK
  <1>11. QED
    BY <1>6, <1>7, <1>8, <1>9, <1>10 DEF HeldOK

\* A write of reset-token rows by request r, on its way to its commit.
LEMMA LinkWriteHeld ==
    ASSUME HandlerInv, NEW r \in Requests, NEW q, PathOK(q),
           req' = [req EXCEPT ![r] = q], q.user = req[r].user, q.op = req[r].op,
           q.pc = "commit", ~SignsIn(q), req[r].pc # "commit",
           HasUser(req[r]) => HasUser(q),
           UNCHANGED <<userVars, sessVars, link, mail, origin>>,
           NEW W \in SUBSET Links, \A l \in W : LinkFree(r, l),
           linkLock' = [l \in Links |-> IF l \in W THEN r ELSE linkLock[l]],
           \A l \in Links \ W : linkW'[l] = linkW[l],
           ScanOK(r)', SawOK(r)', CutoffOK(r)',
           q.op = "request" => q.link \in W /\ linkW'[q.link] # Absent
    PROVE  HeldOK'
  <1> USE DEF userVars, sessVars
  <1>1. /\ UsersTyped /\ SessionsTyped /\ LinksTyped /\ OthersTyped /\ ReqTyped
    BY HandlerTypes
  <1>2. req'[r] = q /\ \A s \in Requests : s # r => req'[s] = req[s]
    BY <1>1, OneRecord
  <1>3. \A l \in Links : linkLock[l] # r
    BY HoldsNone
  <1>4. \A l \in W : linkLock[l] = None /\ linkLock'[l] = r
    BY <1>3 DEF LinkFree
  <1>5. UserLocksOK'
    BY <1>1, <1>2 DEF UsersTyped, HandlerInv, HeldOK, UserLocksOK
  <1>6. SessLocksOK'
    <2>1. HasSessions(q)
      BY DEF HasSessions
    <2>2. QED
      BY <1>1, <1>2, <2>1 DEF SessionsTyped, HandlerInv, HeldOK, SessLocksOK
  <1>7. LinkLocksOK'
    <2> SUFFICES ASSUME NEW l \in Links
                 PROVE  IF linkLock'[l] = None THEN linkW'[l] = link'[l]
                        ELSE req'[linkLock'[l]].pc = "commit"
      BY DEF LinkLocksOK
    <2>1. CASE l \in W
      BY <1>2, <1>4, <2>1, NoneAssumption
    <2>2. CASE l \notin W
      <3>1. linkLock'[l] = linkLock[l] /\ linkW'[l] = linkW[l] /\ linkLock[l] # r
        BY <1>3, <2>2
      <3>2. linkLock[l] # None => req'[linkLock[l]] = req[linkLock[l]]
        BY <1>1, <1>2, <3>1 DEF LinksTyped
      <3>3. QED
        BY <3>1, <3>2 DEF HandlerInv, HeldOK, LinkLocksOK
    <2>3. QED
      BY <2>1, <2>2
  <1>8. EndsOK' /\ BlocksOK'
    BY DEF HandlerInv, HeldOK, EndsOK, BlocksOK
  <1>9. BirthsOK'
    BY <1>1, <1>2, HoldsNone DEF SessionsTyped, HandlerInv, HeldOK, BirthsOK, BirthOK
  <1>10. HandlersOK'
    <2>1. ASSUME NEW s \in Requests, s # r
          PROVE  /\ PathOK(req[s])' /\ ScanOK(s)' /\ SawOK(s)' /\ CutoffOK(s)'
                 /\ SignsIn(req[s])' => userLock'[req'[s].user] = s
      <3>1. /\ PathOK(req[s]) /\ ScanOK(s) /\ SawOK(s) /\ CutoffOK(s)
            /\ SignsIn(req[s]) => userLock[req[s].user] = s
        BY DEF HandlerInv, HeldOK, HandlersOK
      <3>2. req'[s] = req[s]
        BY <1>2, <2>1
      <3>3. QED
        BY <3>1, <3>2 DEF PathOK, ScanOK, Revoked, SawOK, CutoffOK, SignsIn
    <2>2. PathOK(req[r])' /\ ~SignsIn(req[r])'
      BY <1>2 DEF PathOK, SignsIn
    <2>3. QED
      BY <2>1, <2>2 DEF HandlersOK
  <1>11. MailOK'
    <2>1. (\A l \in mail : link[l] # Absent)'
      BY DEF HandlerInv, HeldOK, MailOK
    <2>2. ASSUME NEW s \in Requests, s # r, RequestOK(req[s])
          PROVE  /\ req'[s].op = "request" /\ req'[s].pc = "commit" =>
                      linkLock'[req'[s].link] = s /\ linkW'[req'[s].link] # Absent
                 /\ req'[s].pc = "send" => link'[req'[s].link] # Absent
      <3>1. req'[s] = req[s]
        BY <1>2, <2>2
      <3>2. req[s].op = "request" /\ req[s].pc = "commit" =>
              req[s].link \in Links /\ linkLock[req[s].link] = s
              /\ linkW[req[s].link] # Absent
        BY <2>2 DEF HandlerInv, HeldOK, MailOK, RequestOK
      <3>3. ASSUME NEW l \in Links, linkLock[l] = s
            PROVE  linkLock'[l] = s /\ linkW'[l] = linkW[l]
        BY <1>4, <3>3, NoneAssumption
      <3>4. req[s].pc = "send" => link[req[s].link] # Absent
        BY DEF HandlerInv, HeldOK, MailOK
      <3>5. QED
        BY <3>1, <3>2, <3>3, <3>4
    <2>3. /\ q.op = "request" => linkLock'[q.link] = r /\ linkW'[q.link] # Absent
          /\ q.pc # "send"
      BY <1>4
    <2>4. \A s \in Requests : RequestOK(req[s])
      BY DEF HandlerInv, SessionInv, RequestsOK
    <2>5. QED
      BY <1>2, <2>1, <2>2, <2>3, <2>4 DEF MailOK
  <1>12. QED
    BY <1>5, <1>6, <1>7, <1>8, <1>9, <1>10, <1>11 DEF HeldOK

-----------------------------------------------------------------------------
(* Commits and rollbacks.                                                  *)

\* A session that request r makes live by its commit is new: what it wrote to
\* a committed one is its end.
LEMMA MadeLive ==
    ASSUME HandlerInv, NEW r \in Requests, Publish(r), NEW t \in Tokens,
           IsLive(sess[t])'
    PROVE  \/ IsLive(sess[t]) /\ sess'[t] = sess[t] /\ sessLock[t] # r
           \/ ~Exists(t) /\ sessLock[t] = r /\ sess'[t] = sessW[t]
  <1>1. sess'[t] = IF sessLock[t] = r THEN sessW[t] ELSE sess[t]
    BY DEF Publish
  <1>2. Exists(t) /\ sessLock[t] = r => ~IsLive(sessW[t])
    BY NoneAssumption DEF HandlerInv, HeldOK, EndsOK
  <1>3. QED
    BY <1>1, <1>2

\* While a reset holds the users row, no commit but its own makes a session of
\* a password sign-in live on its account.
LEMMA ResetExcludesLogin ==
    ASSUME HandlerInv, NEW r \in Requests, Publish(r), NEW t \in Tokens,
           IsLive(sess[t])', origin[t].via = "login",
           NEW s \in Requests, s # r, sess'[t].user = req[s].user,
           userLock[req[s].user] = s
    PROVE  IsLive(sess[t]) /\ sess'[t] = sess[t]
  <1> SUFFICES ASSUME ~Exists(t), sessLock[t] = r, sess'[t] = sessW[t]
               PROVE  FALSE
    BY MadeLive
  <1>1. BirthOK(t) /\ r # None
    BY NoneAssumption DEF HandlerInv, HeldOK, BirthsOK
  <1>2. req[r].op = "login" /\ req[r].pc = "commit" /\ sessW[t].user = req[r].user
    BY <1>1 DEF BirthOK
  <1>3. userLock[req[r].user] = r
    BY <1>2 DEF HandlerInv, HeldOK, HandlersOK, SignsIn
  <1>4. QED
    BY <1>2, <1>3

\* A commit by request r.
LEMMA PublishHeld ==
    ASSUME HandlerInv, NEW r \in Requests, NEW q, PathOK(q),
           req' = [req EXCEPT ![r] = q], Publish(r), Unlock(r), UNCHANGED origin,
           ~SignsIn(q), q.pc # "revoke", ~Revoked(q), q.pc # "commit",
           q.op = "reset" => q.pc = "renew", q.pc # "stamped",
           \A l \in mail' : link'[l] # Absent,
           q.pc = "send" => link'[q.link] # Absent
    PROVE  HeldOK'
  <1>1. /\ UsersTyped /\ SessionsTyped /\ LinksTyped /\ ReqTyped
    BY HandlerTypes
  <1>2. req'[r] = q /\ \A s \in Requests : s # r => req'[s] = req[s]
    BY <1>1, OneRecord
  <1>3. UserLocksOK'
    BY <1>1, <1>2, NoneAssumption
    DEF UsersTyped, Publish, Unlock, HandlerInv, HeldOK, UserLocksOK
  <1>4. SessLocksOK'
    BY <1>1, <1>2, NoneAssumption
    DEF SessionsTyped, Publish, Unlock, HandlerInv, HeldOK, SessLocksOK
  <1>5. LinkLocksOK'
    BY <1>1, <1>2, NoneAssumption
    DEF LinksTyped, Publish, Unlock, HandlerInv, HeldOK, LinkLocksOK
  <1>6. EndsOK'
    BY NoneAssumption DEF Publish, Unlock, HandlerInv, HeldOK, EndsOK
  <1>7. BlocksOK'
    BY <1>1 DEF Publish, HandlerInv, HeldOK, BlocksOK
  <1>8. BirthsOK'
    <2> SUFFICES ASSUME NEW t \in Tokens, sessLock'[t] # None, ~Exists(t)'
                 PROVE  BirthOK(t)'
      BY DEF BirthsOK, BirthOK
    <2>1. /\ sessLock'[t] = sessLock[t] /\ sessLock[t] # r /\ sessLock[t] \in Requests
          /\ \A s \in Tokens : sessLock'[s] = sessLock[t] => sessLock[s] = sessLock[t]
      BY <1>1 DEF Unlock, SessionsTyped
    <2>2. sess'[t] = sess[t] /\ sessW' = sessW /\ origin' = origin
      BY <2>1 DEF Publish
    <2>3. req'[sessLock[t]] = req[sessLock[t]] /\ BirthOK(t)
      BY <1>2, <2>1 DEF HandlerInv, HeldOK, BirthsOK
    <2>4. QED
      BY <2>1, <2>2, <2>3 DEF BirthOK
  <1>9. HandlersOK'
    <2>1. ASSUME NEW s \in Requests, s # r
          PROVE  /\ PathOK(req[s])' /\ ScanOK(s)' /\ SawOK(s)' /\ CutoffOK(s)'
                 /\ SignsIn(req[s])' => userLock'[req'[s].user] = s
      <3>1. /\ PathOK(req[s]) /\ ScanOK(s) /\ SawOK(s) /\ CutoffOK(s)
            /\ SignsIn(req[s]) => userLock[req[s].user] = s
            /\ RequestOK(req[s])
        BY DEF HandlerInv, HeldOK, HandlersOK, SessionInv, RequestsOK
      <3>2. req'[s] = req[s] /\ req[s].scan \subseteq Tokens /\ s # None
        BY <1>1, <1>2, <2>1, NoneAssumption DEF ReqTyped, Request
      <3>3. \A t \in Tokens : /\ Exists(t) => Exists(t)'
                              /\ sessLock[t] = s => sessLock'[t] = s
                              /\ Exists(t) /\ IsLive(sess[t])' => IsLive(sess[t])
        <4>1. \A t \in Tokens : Exists(t) => Exists(t)'
          BY DEF Publish, HandlerInv, SessionInv, SessRowsOK
        <4>2. \A t \in Tokens : Exists(t) /\ IsLive(sess[t])' => IsLive(sess[t])
          BY MadeLive
        <4>3. QED
          BY <2>1, <4>1, <4>2 DEF Unlock
      <3>4. ScanOK(s)'
        BY <3>1, <3>2, <3>3 DEF ScanOK, Revoked
      <3>5. req[s].user \in Users /\ userLock[req[s].user] = s =>
              userLock'[req[s].user] = s /\ userW' = userW
        BY <2>1 DEF Unlock, Publish
      <3>6. SawOK(s)'
        <4> SUFFICES ASSUME req[s].op = "reset",
                            req[s].pc \in {"revoke", "spend", "commit"},
                            NEW t \in Tokens, IsLive(sess[t])',
                            sess'[t].user = req[s].user, origin[t].via = "login"
                     PROVE  t \in req[s].scan
          BY <3>2 DEF SawOK
        <4>1. userLock[req[s].user] = s
          BY <3>1 DEF CutoffOK
        <4>2. IsLive(sess[t]) /\ sess'[t] = sess[t]
          BY <2>1, <4>1, ResetExcludesLogin
        <4>3. QED
          BY <3>1, <4>2 DEF SawOK
      <3>7. CutoffOK(s)' /\ (SignsIn(req[s])' => userLock'[req'[s].user] = s)
        <4>1. req[s].pc # "idle" => req[s].user \in Users
          BY <3>1 DEF RequestOK
        <4>2. \/ req[s].op = "reset" /\ req[s].pc # "renew"
              \/ req[s].pc = "stamped" \/ SignsIn(req[s])
              => req[s].user \in Users
          BY <3>1, <4>1 DEF PathOK, SignsIn
        <4>3. QED
          BY <3>1, <3>2, <3>5, <4>2 DEF CutoffOK, SignsIn
      <3>8. QED
        BY <3>1, <3>2, <3>4, <3>6, <3>7 DEF PathOK
    <2>2. /\ PathOK(req[r])' /\ ScanOK(r)' /\ SawOK(r)' /\ CutoffOK(r)'
          /\ ~SignsIn(req[r])'
      BY <1>2 DEF PathOK, ScanOK, SawOK, CutoffOK, SignsIn, Revoked
    <2>3. QED
      BY <2>1, <2>2 DEF HandlersOK
  <1>10. MailOK'
    <2>1. ASSUME NEW s \in Requests, s # r
          PROVE  /\ req'[s].op = "request" /\ req'[s].pc = "commit" =>
                      linkLock'[req'[s].link] = s /\ linkW'[req'[s].link] # Absent
                 /\ req'[s].pc = "send" => link'[req'[s].link] # Absent
      <3>1. req'[s] = req[s] /\ RequestOK(req[s])
        BY <1>2, <2>1 DEF HandlerInv, SessionInv, RequestsOK
      <3>2. req[s].pc \in {"commit", "send"} /\ req[s].op = "request" =>
              req[s].link \in Links
        BY <3>1 DEF RequestOK
      <3>3. req[s].pc = "send" => req[s].op = "request"
        BY <3>1 DEF RequestOK
      <3>4. \A l \in Links : /\ linkLock[l] = s => linkLock'[l] = s
                             /\ link[l] # Absent => link'[l] # Absent
        BY <2>1 DEF Publish, Unlock, HandlerInv, SessionInv, LinkRowsOK
      <3>5. /\ req[s].op = "request" /\ req[s].pc = "commit" =>
                 linkLock[req[s].link] = s /\ linkW[req[s].link] # Absent
            /\ req[s].pc = "send" => link[req[s].link] # Absent
        BY DEF HandlerInv, HeldOK, MailOK
      <3>6. QED
        BY <3>1, <3>2, <3>3, <3>4, <3>5 DEF Publish
    <2>2. QED
      BY <1>2, <2>1 DEF MailOK
  <1>11. QED
    BY <1>3, <1>4, <1>5, <1>6, <1>7, <1>8, <1>9, <1>10 DEF HeldOK

\* A rollback of request r.
LEMMA RollbackHeld ==
    ASSUME HandlerInv, NEW r \in Requests, Rollback(r)
    PROVE  HeldOK'
  <1>1. /\ UsersTyped /\ SessionsTyped /\ LinksTyped /\ ReqTyped
    BY HandlerTypes
  <1>2. req'[r] = Idle /\ \A s \in Requests : s # r => req'[s] = req[s]
    BY <1>1, OneRecord DEF Rollback
  <1>3. /\ Discard(r) /\ Unlock(r) /\ mail' = mail
        /\ \A t \in Tokens : Exists(t) \/ sessLock[t] # r => origin'[t] = origin[t]
    BY DEF Rollback
  <1>4. UserLocksOK'
    BY <1>1, <1>2, <1>3, NoneAssumption
    DEF UsersTyped, Discard, Unlock, HandlerInv, HeldOK, UserLocksOK
  <1>5. SessLocksOK'
    BY <1>1, <1>2, <1>3, NoneAssumption
    DEF SessionsTyped, Discard, Unlock, HandlerInv, HeldOK, SessLocksOK
  <1>6. LinkLocksOK'
    BY <1>1, <1>2, <1>3, NoneAssumption
    DEF LinksTyped, Discard, Unlock, HandlerInv, HeldOK, LinkLocksOK
  <1>7. EndsOK'
    BY <1>3, NoneAssumption DEF Discard, Unlock, HandlerInv, HeldOK, EndsOK
  <1>8. BlocksOK'
    BY <1>1, <1>3 DEF Discard, HandlerInv, HeldOK, BlocksOK
  <1>9. BirthsOK'
    <2> SUFFICES ASSUME NEW t \in Tokens, sessLock'[t] # None, ~Exists(t)'
                 PROVE  BirthOK(t)'
      BY DEF BirthsOK, BirthOK
    <2>1. /\ sessLock'[t] = sessLock[t] /\ sessLock[t] # r /\ sessLock[t] \in Requests
          /\ \A s \in Tokens : sessLock'[s] = sessLock[t] => sessLock[s] = sessLock[t]
      BY <1>1, <1>3 DEF Unlock, SessionsTyped
    <2>2. sess' = sess /\ sessW'[t] = sessW[t] /\ origin'[t] = origin[t]
      BY <1>3, <2>1 DEF Discard
    <2>3. req'[sessLock[t]] = req[sessLock[t]] /\ BirthOK(t)
      BY <1>2, <2>1 DEF HandlerInv, HeldOK, BirthsOK
    <2>4. QED
      BY <2>1, <2>2, <2>3 DEF BirthOK
  <1>10. HandlersOK'
    <2>1. ASSUME NEW s \in Requests, s # r
          PROVE  /\ PathOK(req[s])' /\ ScanOK(s)' /\ SawOK(s)' /\ CutoffOK(s)'
                 /\ SignsIn(req[s])' => userLock'[req'[s].user] = s
      <3>1. /\ PathOK(req[s]) /\ ScanOK(s) /\ SawOK(s) /\ CutoffOK(s)
            /\ SignsIn(req[s]) => userLock[req[s].user] = s
            /\ RequestOK(req[s])
        BY DEF HandlerInv, HeldOK, HandlersOK, SessionInv, RequestsOK
      <3>2. req'[s] = req[s] /\ req[s].scan \subseteq Tokens
        BY <1>1, <1>2, <2>1 DEF ReqTyped, Request
      <3>3. sess' = sess /\ \A t \in Tokens : sessLock[t] = s => sessLock'[t] = s
        BY <1>3, <2>1 DEF Discard, Unlock
      <3>4. ScanOK(s)'
        BY <3>1, <3>2, <3>3 DEF ScanOK, Revoked
      <3>5. SawOK(s)'
        BY <1>3, <3>1, <3>2, <3>3 DEF SawOK
      <3>6. req[s].user \in Users /\ userLock[req[s].user] = s =>
              userLock'[req[s].user] = s /\ userW'[req[s].user] = userW[req[s].user]
        BY <1>3, <2>1 DEF Unlock, Discard
      <3>7. CutoffOK(s)' /\ (SignsIn(req[s])' => userLock'[req'[s].user] = s)
        <4>1. req[s].pc # "idle" => req[s].user \in Users
          BY <3>1 DEF RequestOK
        <4>2. \/ req[s].op = "reset" /\ req[s].pc # "renew"
              \/ req[s].pc = "stamped" \/ SignsIn(req[s])
              => req[s].user \in Users
          BY <3>1, <4>1 DEF PathOK, SignsIn
        <4>3. QED
          BY <3>1, <3>2, <3>6, <4>2 DEF CutoffOK, SignsIn
      <3>8. QED
        BY <3>1, <3>2, <3>4, <3>5, <3>7 DEF PathOK
    <2>2. /\ PathOK(req[r])' /\ ScanOK(r)' /\ SawOK(r)' /\ CutoffOK(r)'
          /\ ~SignsIn(req[r])'
      BY <1>2 DEF Idle, PathOK, ScanOK, SawOK, CutoffOK, SignsIn, Revoked
    <2>3. QED
      BY <2>1, <2>2 DEF HandlersOK
  <1>11. MailOK'
    <2>1. ASSUME NEW s \in Requests, s # r
          PROVE  /\ req'[s].op = "request" /\ req'[s].pc = "commit" =>
                      linkLock'[req'[s].link] = s /\ linkW'[req'[s].link] # Absent
                 /\ req'[s].pc = "send" => link'[req'[s].link] # Absent
      <3>1. req'[s] = req[s] /\ RequestOK(req[s])
        BY <1>2, <2>1 DEF HandlerInv, SessionInv, RequestsOK
      <3>2. req[s].pc = "commit" /\ req[s].op = "request" => req[s].link \in Links
        BY <3>1 DEF RequestOK
      <3>3. link' = link /\ \A l \in Links :
              linkLock[l] = s => linkLock'[l] = s /\ linkW'[l] = linkW[l]
        BY <1>3, <2>1 DEF Discard, Unlock
      <3>4. /\ req[s].op = "request" /\ req[s].pc = "commit" =>
                 linkLock[req[s].link] = s /\ linkW[req[s].link] # Absent
            /\ req[s].pc = "send" => link[req[s].link] # Absent
        BY DEF HandlerInv, HeldOK, MailOK
      <3>5. QED
        BY <3>1, <3>2, <3>3, <3>4
    <2>2. \A l \in mail' : link'[l] # Absent
      BY <1>3 DEF Discard, HandlerInv, HeldOK, MailOK
    <2>3. QED
      BY <1>2, <2>1, <2>2 DEF MailOK, Idle
  <1>12. QED
    BY <1>4, <1>5, <1>6, <1>7, <1>8, <1>9, <1>10, <1>11 DEF HeldOK

-----------------------------------------------------------------------------
(* Steps of nobody's request.                                              *)

\* The administrator's status route writes a row nobody holds.
LEMMA SetStatusHeld ==
    ASSUME HandlerInv, NEW u \in Users, NEW x \in Statuses, SetStatus(u, x)
    PROVE  HeldOK'
  <1> USE DEF sessVars, linkVars, history
  <1>1. UsersTyped /\ ReqTyped
    BY HandlerTypes
  <1>2. /\ userLock' = userLock /\ userLock[u] = None
        /\ user' = [user EXCEPT ![u].status = x]
        /\ userW' = [userW EXCEPT ![u].status = x]
        /\ UNCHANGED <<sessVars, linkVars, req, access, mail, history>>
    BY DEF SetStatus
  <1>3. UserLocksOK' /\ BlocksOK'
    BY <1>1, <1>2 DEF UsersTyped, UserRow, HandlerInv, HeldOK, UserLocksOK, BlocksOK
  <1>4. SessLocksOK' /\ LinkLocksOK' /\ EndsOK' /\ BirthsOK' /\ MailOK'
    BY <1>2 DEF HandlerInv, HeldOK, SessLocksOK, LinkLocksOK, EndsOK, BirthsOK,
                BirthOK, MailOK
  <1>5. HandlersOK'
    <2> SUFFICES ASSUME NEW s \in Requests
                 PROVE  /\ PathOK(req[s])' /\ ScanOK(s)' /\ SawOK(s)' /\ CutoffOK(s)'
                        /\ SignsIn(req[s])' => userLock'[req'[s].user] = s
      BY DEF HandlersOK
    <2>1. /\ PathOK(req[s]) /\ ScanOK(s) /\ SawOK(s) /\ CutoffOK(s)
          /\ SignsIn(req[s]) => userLock[req[s].user] = s
      BY DEF HandlerInv, HeldOK, HandlersOK
    <2>2. userLock[req[s].user] = s => userW'[req[s].user] = userW[req[s].user]
      BY <1>1, <1>2, NoneAssumption DEF UsersTyped
    <2>3. CutoffOK(s)'
      BY <1>2, <2>1, <2>2 DEF CutoffOK
    <2>4. QED
      BY <1>2, <2>1, <2>3 DEF PathOK, ScanOK, Revoked, SawOK, SignsIn
  <1>6. QED
    BY <1>3, <1>4, <1>5 DEF HeldOK

\* The clock and stuttering steps.
LEMMA ClockHeld ==
    ASSUME HandlerInv,
           UNCHANGED <<userVars, sessVars, linkVars, req, mail, origin>>
    PROVE  HeldOK'
  <1> USE DEF userVars, sessVars, linkVars
  <1>1. UserLocksOK' /\ SessLocksOK' /\ LinkLocksOK' /\ EndsOK' /\ BirthsOK'
    BY DEF HandlerInv, HeldOK, UserLocksOK, SessLocksOK, LinkLocksOK, EndsOK,
           BirthsOK, BirthOK
  <1>2. HandlersOK' /\ MailOK' /\ BlocksOK'
    BY DEF HandlerInv, HeldOK, HandlersOK, PathOK, ScanOK, Revoked, SawOK,
           CutoffOK, SignsIn, MailOK, BlocksOK
  <1>3. QED
    BY <1>1, <1>2 DEF HeldOK

-----------------------------------------------------------------------------
(* Each action preserves HeldOK: arrivals and choosing rows.               *)

\* The first step of each operation.
Starts(op, pc) ==
    \/ op = "login" /\ pc = "touch"
    \/ op = "refresh" /\ pc = "rotate"
    \/ op = "logout" /\ pc = "mark"
    \/ op \in {"reuse", "logout_all"} /\ pc = "scan"
    \/ op = "request" /\ pc = "retire"
    \/ op = "reset" /\ pc = "renew"
    \/ op \in {"change", "set_password"} /\ pc = "hash"

\* A handler that has just begun holds nothing and has seen nothing.
LEMMA BeginHeld ==
    ASSUME HandlerInv, NEW r \in Requests, NEW op, NEW pc, Starts(op, pc),
           NEW u, NEW t, NEW l, NEW p, Begin(r, op, pc, u, t, l, p)
    PROVE  HeldOK'
  <1> DEFINE q == [Idle EXCEPT !.op = op, !.pc = pc, !.user = u, !.tok = t,
                               !.link = l, !.pwd = p, !.at = now]
  <1>1. ReqTyped
    BY HandlerTypes
  <1>2. q.op = op /\ q.pc = pc
    BY DEF Idle
  <1>3. req' = [req EXCEPT ![r] = q]
    BY DEF Begin
  <1> HIDE DEF q
  <1>4. req'[r] = q /\ \A s \in Requests : s # r => req'[s] = req[s]
    BY <1>1, <1>3, OneRecord
  <1>5. PathOK(q) /\ ~HasSessions(q) /\ ~HasSessions(req[r]) /\ ~HasUser(req[r])
    BY <1>2, HoldsNone DEF Starts, PathOK, HasSessions, Begin
  <1>6. ScanOK(r)' /\ SawOK(r)' /\ CutoffOK(r)'
    BY <1>2, <1>4 DEF Starts, ScanOK, Revoked, SawOK, CutoffOK
  <1>7. MailOK'
    BY <1>2, <1>4 DEF Starts, Begin, linkVars, HandlerInv, HeldOK, MailOK
  <1>8. UNCHANGED <<userVars, sessVars, linkVars, origin>>
    BY DEF Begin, history
  <1>9. QED
    BY <1>3, <1>5, <1>6, <1>7, <1>8, MoveHeld

\* Every endpoint begins so.
LEMMA ArriveHeld ==
    ASSUME HandlerInv, NEW r \in Requests, Arrive(r)
    PROVE  HeldOK'
  <1>1. ASSUME NEW u \in Users, NEW p \in Passwords, LoginVerify(r, u, p)
        PROVE  HeldOK'
    BY <1>1, BeginHeld DEF LoginVerify, Starts
  <1>2. ASSUME NEW t \in Tokens, RefreshLoad(r, t) \/ RefreshReuse(r, t) \/ LogoutLoad(r, t)
        PROVE  HeldOK'
    BY <1>2, BeginHeld DEF RefreshLoad, RefreshReuse, LogoutLoad, Starts
  <1>3. ASSUME NEW u \in Users, LogoutAllStart(r, u) \/ RequestLoad(r, u)
        PROVE  HeldOK'
    BY <1>3, BeginHeld DEF LogoutAllStart, RequestLoad, Starts
  <1>4. ASSUME NEW l \in Links, NEW p \in Passwords, ResetLoad(r, l, p)
        PROVE  HeldOK'
    BY <1>4, BeginHeld DEF ResetLoad, Starts
  <1>5. ASSUME NEW u \in Users, NEW cur \in Passwords, NEW p \in Passwords,
               ChangeLoad(r, u, cur, p)
        PROVE  HeldOK'
    BY <1>5, BeginHeld DEF ChangeLoad, Starts
  <1>6. QED
    BY <1>1, <1>2, <1>3, <1>4, <1>5 DEF Arrive

\* revoke_all_for_user's statement: a request that has written no session yet
\* sees the committed ones, and among them every live one of the account.
LEMMA RevokeScanHeld ==
    ASSUME HandlerInv, NEW r \in Requests, RevokeScan(r)
    PROVE  HeldOK'
  <1> DEFINE S == {t \in Tokens : Revocable(r, t)}
             q == [req[r] EXCEPT !.pc = "revoke", !.scan = S]
  <1>1. ReqTyped /\ req[r] \in Request /\ req[r].pc = "scan"
    BY HandlerTypes DEF ReqTyped, RevokeScan
  <1>2. /\ PathOK(req[r]) /\ CutoffOK(r)
        /\ q.op = req[r].op /\ q.user = req[r].user /\ q.pc = "revoke"
        /\ q.scan = S /\ q.at = req[r].at
    BY <1>1 DEF HandlerInv, HeldOK, HandlersOK, Request
  <1>3. /\ req' = [req EXCEPT ![r] = q]
        /\ UNCHANGED <<userVars, sessVars, linkVars, origin, mail>>
    BY DEF RevokeScan, history
  <1> HIDE DEF q
  <1>4. req'[r] = q /\ \A s \in Requests : s # r => req'[s] = req[s]
    BY <1>1, <1>3, OneRecord
  <1>5. ~HasSessions(req[r]) /\ ~HasSessions(q)
    BY <1>1, <1>2 DEF HasSessions
  <1>6. HasUser(req[r]) => HasUser(q)
    BY <1>1, <1>2 DEF HasUser
  <1>7. PathOK(q)
    BY <1>1, <1>2 DEF PathOK
  <1>8. \A t \in Tokens : t \in S <=> IsLive(sess[t]) /\ sess[t].user = req[r].user
    BY <1>5, HoldsNone DEF Revocable, Sees
  <1> HIDE DEF S
  <1>9. S \subseteq Tokens
    BY DEF S
  <1>10. ScanOK(r)' /\ SawOK(r)'
    BY <1>2, <1>3, <1>4, <1>8, <1>9 DEF ScanOK, Revoked, SawOK, sessVars
  <1>11. CutoffOK(r)'
    BY <1>1, <1>2, <1>3, <1>4 DEF CutoffOK, userVars
  <1>12. MailOK'
    BY <1>2, <1>3, <1>4 DEF linkVars, HandlerInv, HeldOK, MailOK
  <1>13. QED
    BY <1>2, <1>3, <1>5, <1>6, <1>7, <1>10, <1>11, <1>12, MoveHeld

\* invalidate_outstanding's choice of links.
LEMMA RetireScanHeld ==
    ASSUME HandlerInv, NEW r \in Requests, RetireScan(r)
    PROVE  HeldOK'
  <1> DEFINE S == {l \in Links : Outstanding(link[l]) /\ link[l].user = req[r].user}
             q == [req[r] EXCEPT !.pc = "insert", !.retire = S]
  <1>1. /\ ReqTyped /\ req[r] \in Request /\ req[r].pc = "retire"
        /\ req[r].op = "request"
    BY HandlerTypes, OwnRequest DEF ReqTyped, RetireScan, RequestOK, HandlerInv
  <1>2. q.op = "request" /\ q.pc = "insert"
    BY <1>1 DEF Request
  <1>3. /\ req' = [req EXCEPT ![r] = q]
        /\ UNCHANGED <<userVars, sessVars, linkVars, origin, mail>>
    BY DEF RetireScan, history
  <1> HIDE DEF q
  <1>4. req'[r] = q /\ \A s \in Requests : s # r => req'[s] = req[s]
    BY <1>1, <1>3, OneRecord
  <1>5. PathOK(q) /\ ~HasSessions(req[r]) /\ ~HasSessions(q) /\ ~HasUser(req[r])
    BY <1>1, <1>2 DEF PathOK, HasSessions, HasUser
  <1>6. ScanOK(r)' /\ SawOK(r)' /\ CutoffOK(r)'
    BY <1>2, <1>4 DEF ScanOK, Revoked, SawOK, CutoffOK
  <1>7. MailOK'
    BY <1>2, <1>3, <1>4 DEF linkVars, HandlerInv, HeldOK, MailOK
  <1>8. QED
    BY <1>3, <1>5, <1>6, <1>7, MoveHeld

\* The link goes out after its row is committed.
LEMMA RequestSendHeld ==
    ASSUME HandlerInv, NEW r \in Requests, RequestSend(r)
    PROVE  HeldOK'
  <1>1. /\ ReqTyped /\ req[r].pc = "send" /\ req[r].op = "request"
    BY HandlerTypes, OwnRequest DEF RequestSend, RequestOK, HandlerInv
  <1>2. /\ req' = [req EXCEPT ![r] = Idle] /\ mail' = mail \cup {req[r].link}
        /\ UNCHANGED <<userVars, sessVars, linkVars, origin>>
    BY DEF RequestSend, history
  <1>3. req'[r] = Idle /\ \A s \in Requests : s # r => req'[s] = req[s]
    BY <1>1, <1>2, OneRecord
  <1>4. /\ PathOK(Idle) /\ ~HasSessions(req[r]) /\ ~HasSessions(Idle)
        /\ ~HasUser(req[r])
    BY <1>1 DEF Idle, PathOK, HasSessions, HasUser
  <1>5. ScanOK(r)' /\ SawOK(r)' /\ CutoffOK(r)'
    BY <1>3 DEF Idle, ScanOK, Revoked, SawOK, CutoffOK
  <1>6. MailOK'
    BY <1>1, <1>2, <1>3 DEF Idle, linkVars, HandlerInv, HeldOK, MailOK
  <1>7. QED
    BY <1>2, <1>4, <1>5, <1>6, MoveHeld

-----------------------------------------------------------------------------
(* Then the writes of the users row.                                       *)

\* The seconds of a clock do not run backwards.
LEMMA SecondMonotonic ==
    ASSUME NEW x \in Nat, NEW y \in Nat, x <= y
    PROVE  Second(x) <= Second(y)
  BY ClockAssumption DEF Second

\* reset-password: the row with the new cutoff is now the reset's to commit.
LEMMA ResetRenewHeld ==
    ASSUME HandlerInv, NEW r \in Requests, ResetRenew(r)
    PROVE  HeldOK'
  <1> DEFINE u == req[r].user
             q == [req[r] EXCEPT !.pc = "scan"]
  <1>1. /\ ReqTyped /\ UsersTyped /\ req[r] \in Request /\ req[r].pc = "renew"
        /\ PathOK(req[r]) /\ u \in Users /\ now \in Nat /\ req[r].at \in Nat
    BY HandlerTypes, OwnRequest, InFlight
    DEF ReqTyped, Request, ResetRenew, HandlerInv, HeldOK, HandlersOK
  <1>2. req[r].op = "reset"
    BY <1>1, OwnRequest DEF PathOK, Request, AllOps, RequestOK, HandlerInv
  <1>3. PICK s \in req[r].at .. now :
          WriteUser(r, u, RenewedRow(userW[u], req[r].pwd, s))
    BY DEF ResetRenew
  <1> DEFINE row == RenewedRow(userW[u], req[r].pwd, s)
  <1>4. /\ row.validFrom >= Second(req[r].at)
        /\ userW[u].status = "blocked" => row.status = "blocked"
    <2>1. Second(req[r].at) <= Second(s) /\ Second(req[r].at) \in Nat /\ Second(s) \in Nat
      BY <1>1, SecondMonotonic, SecondIsNat
    <2>2. QED
      BY <2>1 DEF RenewedRow
  <1> HIDE DEF row
  <1>5. /\ req' = [req EXCEPT ![r] = q] /\ q.user = u /\ q.op = "reset"
        /\ q.pc = "scan" /\ q.at = req[r].at
        /\ UNCHANGED <<sessVars, linkVars, origin, mail>>
    BY <1>1, <1>2 DEF ResetRenew, Goto, Request, history
  <1> HIDE DEF q, u
  <1>6. req'[r] = q /\ \A x \in Requests : x # r => req'[x] = req[x]
    BY <1>1, <1>5, OneRecord
  <1>7. PathOK(q) /\ ~HasUser(req[r]) /\ HasUser(q) /\ ~HasSessions(req[r])
    BY <1>1, <1>2, <1>5 DEF PathOK, HasUser, HasSessions
  <1>8. ScanOK(r)' /\ SawOK(r)'
    BY <1>5, <1>6 DEF ScanOK, Revoked, SawOK
  <1>9. CutoffOK(r)'
    BY <1>1, <1>3, <1>4, <1>5, <1>6 DEF CutoffOK, WriteUser, UsersTyped, row
  <1>10. MailOK'
    BY <1>5, <1>6 DEF linkVars, HandlerInv, HeldOK, MailOK
  <1>11. WriteUser(r, req[r].user, row) /\ req[r].user \in Users /\ q.user = req[r].user
         /\ (userW[req[r].user].status = "blocked" => row.status = "blocked")
         /\ req[r].pc # "commit"
    BY <1>1, <1>3, <1>4, <1>5 DEF u, row
  <1>12. QED
    BY <1>5, <1>7, <1>8, <1>9, <1>10, <1>11, UserWriteHeld

\* set_password: the row with the new hash.
LEMMA SetHashHeld ==
    ASSUME HandlerInv, NEW r \in Requests, SetHash(r)
    PROVE  HeldOK'
  <1> DEFINE row == [userW[req[r].user] EXCEPT !.hash = req[r].pwd]
             pc == IF req[r].op = "change" THEN "hashed" ELSE "commit"
             q == [req[r] EXCEPT !.pc = pc]
  <1>1. /\ ReqTyped /\ UsersTyped /\ req[r] \in Request /\ req[r].pc = "hash"
        /\ PathOK(req[r]) /\ req[r].user \in Users
    BY HandlerTypes, OwnRequest, InFlight
    DEF ReqTyped, SetHash, HandlerInv, HeldOK, HandlersOK
  <1>2. req[r].op \in {"change", "set_password"}
    BY <1>1, OwnRequest DEF PathOK, Request, AllOps, RequestOK, HandlerInv
  <1>3. row.status = userW[req[r].user].status
    BY <1>1 DEF UsersTyped, UserRow
  <1>4. /\ req' = [req EXCEPT ![r] = q] /\ q.user = req[r].user /\ q.op = req[r].op
        /\ q.pc = pc /\ WriteUser(r, req[r].user, row)
        /\ UNCHANGED <<sessVars, linkVars, origin, mail>>
    BY <1>1 DEF SetHash, Goto, Request, history
  <1>5. \/ q.op = "change" /\ q.pc = "hashed"
        \/ q.op = "set_password" /\ q.pc = "commit"
    BY <1>2, <1>4
  <1> HIDE DEF q, row, pc
  <1>6. req'[r] = q /\ \A x \in Requests : x # r => req'[x] = req[x]
    BY <1>1, <1>4, OneRecord
  <1>7. PathOK(q) /\ ~HasUser(req[r]) /\ HasUser(q) /\ ~HasSessions(req[r])
    BY <1>1, <1>2, <1>4, <1>5 DEF PathOK, HasUser, HasSessions
  <1>8. ScanOK(r)' /\ SawOK(r)' /\ CutoffOK(r)'
    BY <1>5, <1>6 DEF ScanOK, Revoked, SawOK, CutoffOK
  <1>9. MailOK'
    BY <1>4, <1>5, <1>6 DEF linkVars, HandlerInv, HeldOK, MailOK
  <1>10. req[r].pc # "commit"
    BY <1>1
  <1>11. QED
    BY <1>1, <1>3, <1>4, <1>7, <1>8, <1>9, <1>10, UserWriteHeld

\* change-password: the row with the new cutoff, beside the revocations.
LEMMA ChangeStampHeld ==
    ASSUME HandlerInv, NEW r \in Requests, ChangeStamp(r)
    PROVE  HeldOK'
  <1> DEFINE u == req[r].user
             q == [req[r] EXCEPT !.pc = "stamped"]
  <1>1. /\ ReqTyped /\ UsersTyped /\ req[r] \in Request /\ req[r].pc = "stamp"
        /\ PathOK(req[r]) /\ ScanOK(r) /\ u \in Users /\ now \in Nat /\ req[r].at \in Nat
    BY HandlerTypes, OwnRequest, InFlight
    DEF ReqTyped, Request, ChangeStamp, HandlerInv, HeldOK, HandlersOK
  <1>2. req[r].op = "change"
    BY <1>1, OwnRequest DEF PathOK, Request, AllOps, RequestOK, HandlerInv
  <1>3. PICK s \in req[r].at .. now :
          WriteUser(r, u, [userW[u] EXCEPT !.validFrom = Second(s)])
    BY DEF ChangeStamp
  <1> DEFINE row == [userW[u] EXCEPT !.validFrom = Second(s)]
  <1>4. row.validFrom >= Second(req[r].at) /\ row.status = userW[u].status
    <2>1. Second(req[r].at) <= Second(s) /\ Second(req[r].at) \in Nat /\ Second(s) \in Nat
      BY <1>1, SecondMonotonic, SecondIsNat
    <2>2. QED
      BY <1>1, <2>1 DEF UsersTyped, UserRow
  <1>5. /\ req' = [req EXCEPT ![r] = q] /\ q.user = u /\ q.op = "change"
        /\ q.pc = "stamped" /\ q.at = req[r].at /\ q.scan = req[r].scan
        /\ UNCHANGED <<sessVars, linkVars, origin, mail>>
    BY <1>1, <1>2 DEF ChangeStamp, Goto, Request, history
  <1> HIDE DEF q, u, row
  <1>6. req'[r] = q /\ \A x \in Requests : x # r => req'[x] = req[x]
    BY <1>1, <1>5, OneRecord
  <1>7. PathOK(q) /\ ~HasUser(req[r]) /\ HasUser(q) /\ HasSessions(q)
    BY <1>1, <1>2, <1>5 DEF PathOK, HasUser, HasSessions
  <1>8. ScanOK(r)' /\ SawOK(r)'
    BY <1>1, <1>5, <1>6 DEF ScanOK, Revoked, SawOK, sessVars
  <1>9. CutoffOK(r)'
    BY <1>1, <1>3, <1>4, <1>5, <1>6 DEF CutoffOK, WriteUser, UsersTyped, row
  <1>10. MailOK'
    BY <1>5, <1>6 DEF linkVars, HandlerInv, HeldOK, MailOK
  <1>11. /\ WriteUser(r, req[r].user, row) /\ req[r].user \in Users
         /\ q.user = req[r].user /\ req[r].pc # "commit"
         /\ userW[req[r].user].status = "blocked" => row.status = "blocked"
    BY <1>1, <1>3, <1>4, <1>5 DEF u, row
  <1>12. QED
    BY <1>5, <1>7, <1>8, <1>9, <1>10, <1>11, UserWriteHeld

-----------------------------------------------------------------------------
(* Then the flushes of sessions.                                           *)

\* A flush that leaves the users rows alone disturbs no lock on them.
LEMMA UsersUntouched ==
    ASSUME HandlerInv, NEW r \in Requests, NEW q, req' = [req EXCEPT ![r] = q],
           HasUser(req[r]) => HasUser(q), q.user = req[r].user, UNCHANGED userVars
    PROVE  UserLocksOK' /\ BlocksOK' /\ UsersKept(r)
  <1> USE DEF userVars
  <1>1. UsersTyped /\ ReqTyped
    BY HandlerTypes
  <1>2. req'[r] = q /\ \A s \in Requests : s # r => req'[s] = req[s]
    BY <1>1, OneRecord
  <1>3. UserLocksOK' /\ BlocksOK'
    BY <1>1, <1>2 DEF UsersTyped, HandlerInv, HeldOK, UserLocksOK, BlocksOK
  <1>4. UsersKept(r)
    BY <1>2 DEF UsersKept, HandlerInv, HeldOK, HandlersOK, CutoffOK
  <1>5. QED
    BY <1>3, <1>4

\* A flush leaves the links, and what is known of them, alone.
LEMMA MailUntouched ==
    ASSUME HandlerInv, NEW r \in Requests, NEW q, req' = [req EXCEPT ![r] = q],
           q.op # "request", q.pc # "send", UNCHANGED <<linkVars, mail>>
    PROVE  MailOK'
  <1>1. ReqTyped
    BY HandlerTypes
  <1>2. req'[r] = q /\ \A s \in Requests : s # r => req'[s] = req[s]
    BY <1>1, OneRecord
  <1>3. QED
    BY <1>2 DEF linkVars, HandlerInv, HeldOK, MailOK

\* logout: the session presented, committed when it was loaded.
LEMMA LogoutMarkHeld ==
    ASSUME HandlerInv, NEW r \in Requests, LogoutMark(r)
    PROVE  HeldOK'
  <1> DEFINE q == [req[r] EXCEPT !.pc = "commit"]
             T == {req[r].tok}
             N == {}
  <1>1. /\ ReqTyped /\ req[r] \in Request /\ req[r].pc = "mark" /\ PathOK(req[r])
        /\ req[r].tok \in Tokens /\ Exists(req[r].tok)
    BY HandlerTypes, OwnRequest
    DEF ReqTyped, LogoutMark, HandlerInv, HeldOK, HandlersOK, RequestOK
  <1>2. req[r].op = "logout"
    BY <1>1, OwnRequest DEF PathOK, Request, AllOps, RequestOK, HandlerInv
  <1>3. /\ req' = [req EXCEPT ![r] = q] /\ q.user = req[r].user /\ q.op = req[r].op
        /\ q.pc = "commit"
        /\ WriteSessions(r, T, "logout", N, Absent)
        /\ UNCHANGED <<userVars, linkVars, origin, mail>>
    BY <1>1 DEF LogoutMark, Goto, Request, history
  <1>4. /\ T \in SUBSET Tokens /\ \A t \in T : Exists(t)
        /\ N \in SUBSET Tokens /\ \A t \in N : FALSE
    BY <1>1
  <1> HIDE DEF q, T, N
  <1>5. req'[r] = q
    BY <1>1, <1>3, OneRecord
  <1>6. /\ PathOK(q) /\ ~HasSessions(req[r]) /\ HasSessions(q) /\ ~SignsIn(q)
        /\ ~HasUser(req[r])
    BY <1>1, <1>2, <1>3 DEF PathOK, HasUser, HasSessions, SignsIn
  <1>7. ScanOK(r)' /\ SawOK(r)' /\ CutoffOK(r)'
    BY <1>2, <1>3, <1>5 DEF ScanOK, Revoked, SawOK, CutoffOK
  <1>8. MailOK' /\ UserLocksOK' /\ BlocksOK' /\ UsersKept(r)
    BY <1>2, <1>3, <1>6, UsersUntouched, MailUntouched
  <1>9. "logout" \in Reasons /\ OpensOnly(q, T, N, Absent)
    BY <1>3, <1>4 DEF Reasons, OpensOnly
  <1>10. QED
    BY <1>3, <1>4, <1>6, <1>7, <1>8, <1>9, FlushHeld

\* revoke_all_for_user: every session it saw that is still live is now held.
LEMMA RevokeAllHeld ==
    ASSUME HandlerInv, NEW r \in Requests, RevokeAll(r)
    PROVE  HeldOK'
  <1> DEFINE op == req[r].op
             pc == AfterRevoke(op)
             tick == IF op = "change" THEN now ELSE req[r].at
             q == [req[r] EXCEPT !.pc = pc, !.at = tick]
             T == {t \in req[r].scan : IsLive(sessW[t])}
             N == {}
             why == RevokeReason(op)
  <1>1. /\ ReqTyped /\ req[r] \in Request /\ req[r].pc = "revoke" /\ PathOK(req[r])
        /\ ScanOK(r) /\ SawOK(r) /\ CutoffOK(r) /\ req[r].scan \subseteq Tokens
    BY HandlerTypes, OwnRequest
    DEF ReqTyped, RevokeAll, HandlerInv, HeldOK, HandlersOK, Request
  <1>2. op \in {"logout_all", "reuse", "reset", "change"}
    BY <1>1, OwnRequest DEF PathOK, Request, AllOps, RequestOK, HandlerInv
  <1>3. /\ req' = [req EXCEPT ![r] = q] /\ q.user = req[r].user /\ q.op = req[r].op
        /\ q.pc = pc /\ q.scan = req[r].scan /\ q.at = tick
        /\ WriteSessions(r, T, why, N, Absent)
        /\ \A t \in req[r].scan : SessFree(r, t)
        /\ UNCHANGED <<userVars, linkVars, origin, mail>>
    BY <1>1 DEF RevokeAll, Request, history
  <1>4. /\ T \in SUBSET Tokens /\ \A t \in T : Exists(t)
        /\ N \in SUBSET Tokens /\ \A t \in N : FALSE
        /\ why \in Reasons
    BY <1>1 DEF ScanOK, RevokeReason, Reasons
  <1>5. /\ op \in {"logout_all", "reuse"} => pc = "commit"
        /\ op = "reset" => pc = "spend" /\ tick = req[r].at
        /\ op = "change" => pc = "stamp"
    BY DEF AfterRevoke
  <1>6. req'[r] = q
    <2>1. ReqTyped /\ req' = [req EXCEPT ![r] = q]
      BY <1>1, <1>3
    <2> HIDE DEF q
    <2>2. QED
      BY <2>1, OneRecord
  <1>7. \A t \in req[r].scan : IsLive(sess[t]) => t \in T
    <2>1. ~HasSessions(req[r])
      BY <1>1 DEF HasSessions
    <2>2. \A t \in req[r].scan : sessLock[t] = None
      BY <1>1, <1>3, <2>1, HoldsNone DEF SessFree
    <2>3. QED
      BY <1>1, <2>2 DEF HandlerInv, HeldOK, SessLocksOK
  <1>8. sess' = sess /\ \A t \in T : sessLock'[t] = r
    BY <1>3, <1>4 DEF WriteSessions
  <1> HIDE DEF q, T, N, pc, tick, why
  <1>9. /\ PathOK(q) /\ ~HasSessions(req[r]) /\ HasSessions(q) /\ ~SignsIn(q)
        /\ HasUser(req[r]) => HasUser(q)
    BY <1>1, <1>2, <1>3, <1>5 DEF PathOK, HasUser, HasSessions, SignsIn
  <1>10. ScanOK(r)'
    BY <1>1, <1>2, <1>3, <1>5, <1>6, <1>7, <1>8 DEF ScanOK, Revoked
  <1>11. SawOK(r)'
    BY <1>1, <1>3, <1>6, <1>8 DEF SawOK
  <1>12. CutoffOK(r)'
    BY <1>1, <1>2, <1>3, <1>5, <1>6 DEF CutoffOK, userVars
  <1>13. MailOK' /\ UserLocksOK' /\ BlocksOK' /\ UsersKept(r)
    <2>1. q.op # "request" /\ q.pc # "send"
      BY <1>2, <1>3, <1>5
    <2>2. QED
      BY <1>3, <1>9, <2>1, UsersUntouched, MailUntouched
  <1>14. OpensOnly(q, T, N, Absent)
    BY <1>3, <1>4 DEF OpensOnly
  <1>15. QED
    BY <1>3, <1>4, <1>9, <1>10, <1>11, <1>12, <1>13, <1>14, FlushHeld

\* refresh: the successor, and the session it renews.
LEMMA RefreshRotateHeld ==
    ASSUME HandlerInv, NEW r \in Requests, RefreshRotate(r)
    PROVE  HeldOK'
  <1>1. PICK t \in Tokens, iat \in req[r].at .. now :
           /\ Fresh(t)
           /\ WriteSessions(r, {req[r].tok}, "rotated", {t}, NewRow(req[r].user, iat))
           /\ Opened(t, "refresh", req[r].tok, origin[req[r].tok].knew)
           /\ req' = [req EXCEPT ![r].pc = "commit", ![r].mint = iat]
    BY DEF RefreshRotate
  <1> DEFINE q == [req[r] EXCEPT !.pc = "commit", !.mint = iat]
             T == {req[r].tok}
             N == {t}
             row == NewRow(req[r].user, iat)
  <1>2. /\ ReqTyped /\ OriginTyped /\ req[r] \in Request /\ req[r].pc = "rotate"
        /\ PathOK(req[r]) /\ req[r].tok \in Tokens /\ Exists(req[r].tok)
        /\ req[r].user \in Users /\ iat \in Nat
    BY HandlerTypes, OwnRequest, InFlight
    DEF ReqTyped, RefreshRotate, HandlerInv, HeldOK, HandlersOK, RequestOK, Request
  <1>3. req[r].op = "refresh"
    BY <1>2, OwnRequest DEF PathOK, Request, AllOps, RequestOK, HandlerInv
  <1>4. /\ req' = [req EXCEPT ![r] = q] /\ q.user = req[r].user /\ q.op = "refresh"
        /\ q.pc = "commit" /\ WriteSessions(r, T, "rotated", N, row)
        /\ UNCHANGED <<userVars, linkVars, mail>>
    BY <1>1, <1>2, <1>3 DEF RefreshRotate, Request
  <1>5. /\ T \in SUBSET Tokens /\ \A s \in T : Exists(s)
        /\ N \in SUBSET Tokens /\ \A s \in N : Fresh(s)
        /\ "rotated" \in Reasons
    BY <1>1, <1>2 DEF Reasons
  <1>6. /\ origin'[t].parent = req[r].tok /\ origin'[t].via = "refresh"
        /\ \A s \in Tokens \ N : origin'[s] = origin[s]
    BY <1>1, <1>2 DEF Opened, OriginTyped
  <1>7. row.revoked = Live /\ row # Absent /\ row.user = req[r].user
    <2>1. row \in SessionRow
      BY <1>2, ClockAssumption DEF NewRow, SessionRow
    <2>2. QED
      BY <2>1, NoneAssumption DEF NewRow
  <1>8. OpensOnly(q, T, N, row)
    BY <1>4, <1>6, <1>7 DEF OpensOnly
  <1> HIDE DEF q, T, N, row
  <1>9. req'[r] = q
    BY <1>2, <1>4, OneRecord
  <1>10. /\ PathOK(q) /\ ~HasSessions(req[r]) /\ HasSessions(q) /\ ~SignsIn(q)
         /\ ~HasUser(req[r])
    BY <1>2, <1>3, <1>4 DEF PathOK, HasUser, HasSessions, SignsIn
  <1>11. ScanOK(r)' /\ SawOK(r)' /\ CutoffOK(r)'
    BY <1>4, <1>9 DEF ScanOK, Revoked, SawOK, CutoffOK
  <1>12. MailOK' /\ UserLocksOK' /\ BlocksOK' /\ UsersKept(r)
    BY <1>4, <1>10, UsersUntouched, MailUntouched
  <1>13. QED
    BY <1>3, <1>4, <1>5, <1>6, <1>8, <1>10, <1>11, <1>12, FlushHeld

\* change-password: the session of the replacement pair.
LEMMA ChangeIssueHeld ==
    ASSUME HandlerInv, NEW r \in Requests, ChangeIssue(r)
    PROVE  HeldOK'
  <1>1. PICK t \in Tokens :
           /\ Fresh(t)
           /\ WriteSessions(r, {}, Live, {t}, NewRow(req[r].user, now))
           /\ Opened(t, "change", None, req[r].pwd)
    BY DEF ChangeIssue
  <1> DEFINE q == [req[r] EXCEPT !.pc = "commit", !.mint = now]
             T == {}
             N == {t}
             row == NewRow(req[r].user, now)
  <1>2. /\ ReqTyped /\ OriginTyped /\ req[r] \in Request /\ req[r].pc = "issue"
        /\ PathOK(req[r]) /\ req[r].user \in Users /\ now \in Nat
    BY HandlerTypes, OwnRequest, InFlight
    DEF ReqTyped, ChangeIssue, HandlerInv, HeldOK, HandlersOK
  <1>3. req[r].op = "change"
    BY <1>2, OwnRequest DEF PathOK, Request, AllOps, RequestOK, HandlerInv
  <1>4. /\ req' = [req EXCEPT ![r] = q] /\ q.user = req[r].user /\ q.op = "change"
        /\ q.pc = "commit" /\ WriteSessions(r, T, Live, N, row)
        /\ UNCHANGED <<userVars, linkVars, mail>>
    BY <1>1, <1>2, <1>3 DEF ChangeIssue, Request
  <1>5. /\ T \in SUBSET Tokens /\ T = {} /\ \A s \in T : Exists(s)
        /\ N \in SUBSET Tokens /\ \A s \in N : Fresh(s)
    BY <1>1
  <1>6. /\ origin'[t].via = "change"
        /\ \A s \in Tokens \ N : origin'[s] = origin[s]
    BY <1>1, <1>2 DEF Opened, OriginTyped
  <1>7. row.revoked = Live /\ row # Absent /\ row.user = req[r].user
    <2>1. row \in SessionRow
      BY <1>2, ClockAssumption DEF NewRow, SessionRow
    <2>2. QED
      BY <2>1, NoneAssumption DEF NewRow
  <1>8. OpensOnly(q, T, N, row)
    BY <1>4, <1>6, <1>7 DEF OpensOnly
  <1> HIDE DEF q, T, N, row
  <1>9. req'[r] = q
    BY <1>2, <1>4, OneRecord
  <1>10. /\ PathOK(q) /\ ~HasSessions(req[r]) /\ HasSessions(q) /\ ~SignsIn(q)
         /\ ~HasUser(req[r])
    BY <1>2, <1>3, <1>4 DEF PathOK, HasUser, HasSessions, SignsIn
  <1>11. ScanOK(r)' /\ SawOK(r)' /\ CutoffOK(r)'
    BY <1>4, <1>9 DEF ScanOK, Revoked, SawOK, CutoffOK
  <1>12. MailOK' /\ UserLocksOK' /\ BlocksOK' /\ UsersKept(r)
    BY <1>4, <1>10, UsersUntouched, MailUntouched
  <1>13. QED
    BY <1>3, <1>4, <1>5, <1>6, <1>8, <1>10, <1>11, <1>12, FlushHeld

\* login: the users row first, then the session.
LEMMA LoginTouchHeld ==
    ASSUME HandlerInv, NEW r \in Requests, LoginTouch(r)
    PROVE  HeldOK'
  <1>1. PICK t \in Tokens :
           /\ Fresh(t)
           /\ WriteSessions(r, {}, Live, {t}, NewRow(req[r].user, now))
           /\ Opened(t, "login", None, req[r].pwd)
    BY DEF LoginTouch
  <1> DEFINE q == [req[r] EXCEPT !.pc = "commit", !.mint = now]
             T == {}
             N == {t}
             row == NewRow(req[r].user, now)
             u == req[r].user
  <1>2. /\ ReqTyped /\ UsersTyped /\ OriginTyped /\ req[r] \in Request
        /\ req[r].pc = "touch"
        /\ PathOK(req[r]) /\ u \in Users /\ now \in Nat
    BY HandlerTypes, OwnRequest, InFlight
    DEF ReqTyped, LoginTouch, HandlerInv, HeldOK, HandlersOK
  <1>3. req[r].op = "login"
    BY <1>2, OwnRequest DEF PathOK, Request, AllOps, RequestOK, HandlerInv
  <1>4. /\ req' = [req EXCEPT ![r] = q] /\ q.user = u /\ q.op = "login"
        /\ q.pc = "commit" /\ WriteSessions(r, T, Live, N, row)
        /\ WriteUser(r, u, userW[u])
        /\ UNCHANGED <<linkVars, mail>>
    BY <1>1, <1>2, <1>3 DEF LoginTouch, Request
  <1>5. /\ T \in SUBSET Tokens /\ T = {} /\ \A s \in T : Exists(s)
        /\ N \in SUBSET Tokens /\ \A s \in N : Fresh(s)
    BY <1>1
  <1>6. \A s \in Tokens \ N : origin'[s] = origin[s]
    BY <1>1, <1>2 DEF Opened, OriginTyped
  <1>7. row.revoked = Live /\ row # Absent /\ row.user = u
    <2>1. row \in SessionRow
      BY <1>2, ClockAssumption DEF NewRow, SessionRow
    <2>2. QED
      BY <2>1, NoneAssumption DEF NewRow
  <1>8. OpensOnly(q, T, N, row)
    BY <1>4, <1>6, <1>7 DEF OpensOnly
  <1> HIDE DEF q, T, N, row, u
  <1>9. req'[r] = q /\ \A s \in Requests : s # r => req'[s] = req[s]
    BY <1>2, <1>4, OneRecord
  <1>10. /\ PathOK(q) /\ ~HasSessions(req[r]) /\ HasSessions(q)
         /\ ~HasUser(req[r]) /\ HasUser(q)
    BY <1>2, <1>3, <1>4 DEF PathOK, HasUser, HasSessions
  <1>11. ScanOK(r)' /\ SawOK(r)' /\ CutoffOK(r)'
    BY <1>4, <1>9 DEF ScanOK, Revoked, SawOK, CutoffOK
  <1>12. /\ user' = user /\ userW' = userW
         /\ userLock' = [userLock EXCEPT ![u] = r] /\ userLock[u] = None
         /\ \A v \in Users : userLock[v] # r
    <2>1. userW' = [userW EXCEPT ![u] = userW[u]]
      BY <1>4 DEF WriteUser
    <2>2. QED
      BY <1>2, <1>4, <1>10, <2>1, HoldsNone DEF WriteUser, UserFree, UsersTyped
  <1>13. UserLocksOK'
    BY <1>2, <1>4, <1>9, <1>10, <1>12, NoneAssumption
    DEF UsersTyped, HandlerInv, HeldOK, UserLocksOK
  <1>14. BlocksOK'
    BY <1>12 DEF HandlerInv, HeldOK, BlocksOK
  <1>15. UsersKept(r)
    BY <1>2, <1>9, <1>12, NoneAssumption
    DEF UsersKept, UsersTyped, HandlerInv, HeldOK, HandlersOK, CutoffOK
  <1>16. userLock'[q.user] = r
    BY <1>2, <1>4, <1>12 DEF UsersTyped
  <1>17. MailOK'
    BY <1>4, MailUntouched
  <1>18. q.user = req[r].user
    BY <1>4 DEF u
  <1>19. QED
    BY <1>3, <1>4, <1>5, <1>6, <1>8, <1>10, <1>11, <1>13, <1>14, <1>15, <1>16,
       <1>17, <1>18, FlushHeld

-----------------------------------------------------------------------------
(* Then the writes of links, and the commits.                              *)

\* forgot-password: the new link and those it retires.
LEMMA RequestInsertHeld ==
    ASSUME HandlerInv, NEW r \in Requests, RequestInsert(r)
    PROVE  HeldOK'
  <1>1. PICK n \in Links : /\ RetireAndInsert(r, n)
                           /\ req' = [req EXCEPT ![r].pc = "commit", ![r].link = n]
    BY DEF RequestInsert
  <1> DEFINE q == [req[r] EXCEPT !.pc = "commit", !.link = n]
             W == {l \in req[r].retire : Outstanding(linkW[l])} \cup {n}
  <1>2. /\ ReqTyped /\ req[r] \in Request /\ req[r].pc = "insert"
        /\ req[r].op = "request" /\ req[r].user \in Users /\ now \in Nat
    BY HandlerTypes, OwnRequest DEF ReqTyped, RequestInsert, HandlerInv, RequestOK
  <1>3. /\ req' = [req EXCEPT ![r] = q] /\ q.user = req[r].user /\ q.op = "request"
        /\ q.pc = "commit" /\ q.link = n
        /\ UNCHANGED <<userVars, sessVars, link, mail, origin>>
    <2>1. link' = link
      BY <1>1 DEF RetireAndInsert
    <2>2. q.user = req[r].user /\ q.op = "request" /\ q.pc = "commit" /\ q.link = n
      BY <1>2 DEF Request
    <2>3. QED
      BY <1>1, <2>1, <2>2 DEF RequestInsert, history
  <1>4. /\ W \in SUBSET Links /\ n \in W
        /\ \A l \in W : LinkFree(r, l)
        /\ linkLock' = [l \in Links |-> IF l \in W THEN r ELSE linkLock[l]]
    <2>1. req[r].retire \subseteq Links
      BY <1>2 DEF Request
    <2>2. linkLock' = [l \in Links |-> IF l \in W THEN r ELSE linkLock[l]]
      BY <1>1 DEF RetireAndInsert
    <2>3. \A l \in W : LinkFree(r, l)
      BY <1>1 DEF RetireAndInsert, LinkFree
    <2>4. QED
      BY <2>1, <2>2, <2>3
  <1>5. (\A l \in Links \ W : linkW'[l] = linkW[l]) /\ linkW'[n] = NewLink(r)
    <2> DEFINE retired == {l \in req[r].retire : Outstanding(linkW[l])}
    <2>1. linkW' = [l \in Links |->
                       CASE l = n -> NewLink(r)
                         [] l \in retired -> [linkW[l] EXCEPT !.retired = TRUE]
                         [] OTHER -> linkW[l]]
      BY <1>1 DEF RetireAndInsert
    <2>2. \A l : l \in W <=> l \in retired \/ l = n
      OBVIOUS
    <2>3. n \notin retired
      BY <1>1 DEF RetireAndInsert, Outstanding, HandlerInv, HeldOK, LinkLocksOK
    <2> HIDE DEF retired, W
    <2>4. QED
      BY <2>1, <2>2, <2>3
  <1>6. NewLink(r) # Absent
    <2>1. NewLink(r) \in LinkRow
      BY <1>2, ClockAssumption DEF NewLink, LinkRow, Request
    <2>2. QED
      BY <2>1, NoneAssumption
  <1> HIDE DEF q, W
  <1>7. req'[r] = q
    BY <1>2, <1>3, OneRecord
  <1>8. PathOK(q) /\ ~SignsIn(q) /\ ~HasUser(req[r])
    BY <1>2, <1>3 DEF PathOK, SignsIn, HasUser
  <1>9. ScanOK(r)' /\ SawOK(r)' /\ CutoffOK(r)'
    BY <1>3, <1>7 DEF ScanOK, Revoked, SawOK, CutoffOK
  <1>10. QED
    BY <1>2, <1>3, <1>4, <1>5, <1>6, <1>8, <1>9, LinkWriteHeld

\* reset-password: the link it came with.
LEMMA ResetSpendHeld ==
    ASSUME HandlerInv, NEW r \in Requests, ResetSpend(r)
    PROVE  HeldOK'
  <1> DEFINE q == [req[r] EXCEPT !.pc = "commit"]
             W == {req[r].link}
  <1>1. /\ ReqTyped /\ LinksTyped /\ req[r] \in Request /\ req[r].pc = "spend"
        /\ req[r].op = "reset" /\ req[r].link \in Links
        /\ ScanOK(r) /\ SawOK(r) /\ CutoffOK(r)
    BY HandlerTypes, OwnRequest
    DEF ReqTyped, ResetSpend, HandlerInv, HeldOK, HandlersOK, RequestOK
  <1>2. /\ req' = [req EXCEPT ![r] = q] /\ q.user = req[r].user /\ q.op = "reset"
        /\ q.pc = "commit" /\ q.scan = req[r].scan /\ q.at = req[r].at
        /\ UNCHANGED <<userVars, sessVars, link, mail, origin>>
    BY <1>1 DEF ResetSpend, Goto, Request, history
  <1>3. /\ W \in SUBSET Links /\ \A l \in W : LinkFree(r, l)
        /\ linkLock' = [l \in Links |-> IF l \in W THEN r ELSE linkLock[l]]
        /\ \A l \in Links \ W : linkW'[l] = linkW[l]
    BY <1>1 DEF ResetSpend, LinksTyped
  <1> HIDE DEF q, W
  <1>4. req'[r] = q
    BY <1>1, <1>2, OneRecord
  <1>5. PathOK(q) /\ ~SignsIn(q) /\ HasUser(q)
    BY <1>2 DEF PathOK, SignsIn, HasUser
  <1>6. ScanOK(r)' /\ SawOK(r)' /\ CutoffOK(r)'
    BY <1>1, <1>2, <1>4 DEF ScanOK, Revoked, SawOK, CutoffOK, userVars, sessVars
  <1>7. QED
    BY <1>1, <1>2, <1>3, <1>5, <1>6, LinkWriteHeld

\* change-password's first two commits leave nothing held.
LEMMA ChangeCommitHeld ==
    ASSUME HandlerInv, NEW r \in Requests, ChangeCommit(r)
    PROVE  HeldOK'
  <1>1. PICK pc \in {"scan", "issue"} :
          req[r].pc \in {"hashed", "stamped"} /\ Goto(r, pc)
    BY DEF ChangeCommit
  <1> DEFINE q == [req[r] EXCEPT !.pc = pc]
  <1>2. ReqTyped /\ req[r] \in Request /\ PathOK(req[r])
    BY HandlerTypes DEF ReqTyped, HandlerInv, HeldOK, HandlersOK
  <1>3. req[r].op = "change"
    BY <1>1, <1>2, OwnRequest DEF PathOK, Request, AllOps, RequestOK, HandlerInv
  <1>4. /\ req' = [req EXCEPT ![r] = q] /\ q.op = "change" /\ q.pc \in {"scan", "issue"}
        /\ Publish(r) /\ Unlock(r) /\ UNCHANGED <<origin, mail>>
    BY <1>1, <1>2, <1>3 DEF ChangeCommit, Goto, Request, history
  <1> HIDE DEF q
  <1>5. PathOK(q) /\ ~SignsIn(q) /\ ~Revoked(q)
    BY <1>4 DEF PathOK, SignsIn, Revoked
  <1>6. \A l \in mail' : link'[l] # Absent
    BY <1>4, HandlerTypes
    DEF Publish, HandlerInv, HeldOK, MailOK, SessionInv, LinkRowsOK, OthersTyped
  <1>7. QED
    BY <1>4, <1>5, <1>6, PublishHeld

\* Nor does the last commit of a request; a link it committed can be mailed.
LEMMA CommitHeld ==
    ASSUME HandlerInv, NEW r \in Requests, Commit(r)
    PROVE  HeldOK'
  <1> DEFINE q == IF req[r].op = "request" THEN [req[r] EXCEPT !.pc = "send"]
                                            ELSE Idle
  <1>1. ReqTyped /\ req[r] \in Request /\ RequestOK(req[r]) /\ req[r].pc = "commit"
    BY HandlerTypes, OwnRequest DEF ReqTyped, HandlerInv, Commit
  <1>2. /\ req' = [req EXCEPT ![r] = q] /\ Publish(r) /\ Unlock(r)
        /\ UNCHANGED <<origin, mail>>
    BY DEF Commit
  <1>3. /\ q.op \in {"request", "none"} /\ (q.op = "none" => q.pc = "idle")
        /\ q.op = "request" => q.pc = "send" /\ q.link = req[r].link
                               /\ req[r].op = "request"
    BY <1>1 DEF Idle, Request
  <1>4. q.op = "request" => link'[q.link] # Absent
    <2> HIDE DEF q
    <2> SUFFICES ASSUME q.op = "request" PROVE link'[q.link] # Absent
      OBVIOUS
    <2>1. q.link \in Links
      BY <1>1, <1>3 DEF RequestOK
    <2>2. linkLock[q.link] = r /\ linkW[q.link] # Absent
      BY <1>1, <1>3 DEF HandlerInv, HeldOK, MailOK
    <2>3. QED
      BY <1>2, <2>1, <2>2 DEF Publish
  <1>5. \A l \in mail' : link'[l] # Absent
    BY <1>2, HandlerTypes
    DEF Publish, HandlerInv, HeldOK, MailOK, SessionInv, LinkRowsOK, OthersTyped
  <1> HIDE DEF q
  <1>6. /\ PathOK(q) /\ ~SignsIn(q) /\ ~Revoked(q) /\ q.pc \notin {"revoke", "commit", "stamped"}
        /\ q.op # "reset" /\ (q.pc = "send" => q.op = "request")
    BY <1>3 DEF PathOK, SignsIn, Revoked
  <1>7. QED
    BY <1>2, <1>4, <1>5, <1>6, PublishHeld

-----------------------------------------------------------------------------
(* HandlerInv is an invariant.                                             *)

\* At the start nothing is held.
LEMMA InitHeld == Init => HandlerInv
  <1> SUFFICES ASSUME Init PROVE HeldOK
    BY InitInv DEF HandlerInv
  <1>1. UserLocksOK /\ SessLocksOK /\ LinkLocksOK /\ EndsOK /\ BirthsOK
    BY DEF Init, UserLocksOK, SessLocksOK, LinkLocksOK, EndsOK, BirthsOK, BirthOK
  <1>2. HandlersOK
    BY DEF Init, Idle, HandlersOK, PathOK, ScanOK, Revoked, SawOK, CutoffOK, SignsIn
  <1>3. MailOK /\ BlocksOK
    BY DEF Init, Idle, MailOK, BlocksOK
  <1>4. QED
    BY <1>1, <1>2, <1>3 DEF HeldOK

\* Every step keeps it.
LEMMA NextHeld == HandlerInv /\ [Next]_vars => HandlerInv'
  <1> SUFFICES ASSUME HandlerInv, [Next]_vars PROVE HeldOK'
    BY NextInv DEF HandlerInv
  <1>1. ASSUME NEW r \in Requests, Handle(r) PROVE HeldOK'
    BY <1>1, LoginTouchHeld, RefreshRotateHeld, LogoutMarkHeld, RevokeScanHeld,
       RevokeAllHeld, RetireScanHeld, RequestInsertHeld, RequestSendHeld,
       ResetRenewHeld, ResetSpendHeld, SetHashHeld, ChangeCommitHeld,
       ChangeStampHeld, ChangeIssueHeld, CommitHeld DEF Handle
  <1>2. ASSUME NEW r \in Requests, DeadlockVictim(r) \/ Crash(r) PROVE HeldOK'
    BY <1>2, RollbackHeld DEF DeadlockVictim, Crash
  <1>3. CASE Tick \/ UNCHANGED vars
    BY <1>3, ClockHeld DEF Tick, vars, history
  <1>4. QED
    BY <1>1, <1>2, <1>3, ArriveHeld, SetStatusHeld DEF Next

\* In every state of every instance, handlers hold the rows HandlerInv says.
THEOREM Handlers == Spec => []HandlerInv
  <1>1. QED
    BY InitHeld, NextHeld, PTL DEF Spec

-----------------------------------------------------------------------------
(* What follows for commits.                                               *)

\* A link is delivered only once its row is committed, and stays committed.
THEOREM MailedLinks == Spec => []MailedLinkIsStored
  <1>1. HandlerInv => MailedLinkIsStored
    BY DEF HandlerInv, HeldOK, MailOK, MailedLinkIsStored
  <1>2. QED
    BY <1>1, Handlers, PTL

\* A commit after revoke_all_for_user ends all that its statement saw.
LEMMA ScanEnds ==
    ASSUME HandlerInv, NEW r \in Requests, Publish(r), Revoked(req[r])
    PROVE  \A t \in req[r].scan : ~IsLive(sess[t])'
  <1> SUFFICES ASSUME NEW t \in req[r].scan, IsLive(sess[t])' PROVE FALSE
    OBVIOUS
  <1>1. t \in Tokens
    BY HandlerTypes DEF ReqTyped, Request
  <1>2. Exists(t) /\ (IsLive(sess[t]) => sessLock[t] = r)
    BY DEF HandlerInv, HeldOK, HandlersOK, ScanOK
  <1>3. QED
    BY <1>1, <1>2, MadeLive

\* Sign-out everywhere, and the answer to a replayed token, end every session
\* that was committed when the bulk UPDATE looked, whatever runs beside them.
THEOREM RevokeAllEnds == Spec => RevokeAllEndsWhatItSaw
  <1>1. HandlerInv /\ [Next]_vars =>
          [\A r \in Requests : Commits(r, "logout_all") \/ Commits(r, "reuse") =>
              \A t \in req[r].scan : ~IsLive(sess[t])']_vars
    BY ScanEnds DEF Commits, Revoked
  <1>2. QED
    BY <1>1, Handlers, PTL DEF Spec, RevokeAllEndsWhatItSaw

\* No session of a password sign-in survives the commit of a reset.
THEOREM ResetLeavesNoLogin == Spec => ResetLeavesNoLoginSession
  <1>1. HandlerInv /\ [Next]_vars =>
          [\A r \in Requests : Commits(r, "reset") =>
              \A t \in Tokens : IsLive(sess[t])' /\ sess'[t].user = req[r].user =>
                  origin[t].via # "login"]_vars
    <2> SUFFICES ASSUME HandlerInv, NEW r \in Requests, Commits(r, "reset"),
                        NEW t \in Tokens, IsLive(sess[t])',
                        sess'[t].user = req[r].user, origin[t].via = "login"
                 PROVE  FALSE
      OBVIOUS
    <2>1. Publish(r) /\ req[r].pc = "commit" /\ req[r].op = "reset"
      BY DEF Commits
    <2>2. CASE IsLive(sess[t]) /\ sess'[t] = sess[t] /\ sessLock[t] # r
      <3>1. t \in req[r].scan
        BY <2>1, <2>2 DEF HandlerInv, HeldOK, HandlersOK, SawOK
      <3>2. QED
        BY <2>1, <2>2, <3>1 DEF HandlerInv, HeldOK, HandlersOK, ScanOK, Revoked
    <2>3. CASE ~Exists(t) /\ sessLock[t] = r
      BY <2>1, <2>3, NoneAssumption DEF HandlerInv, HeldOK, BirthsOK, BirthOK
    <2>4. QED
      BY <2>1, <2>2, <2>3, MadeLive
  <1>2. QED
    BY <1>1, Handlers, PTL DEF Spec, ResetLeavesNoLoginSession

\* A commit of a users row with its cutoff refuses every older access token.
LEMMA CutoffHolds ==
    ASSUME HandlerInv, NEW r \in Requests, Publish(r), req[r].user \in Users,
           userLock[req[r].user] = r,
           userW[req[r].user].validFrom >= Second(req[r].at),
           NEW a \in access, a.user = req[r].user, Second(a.at) < Second(req[r].at)
    PROVE  ~Accepted(a)'
  <1>1. /\ UsersTyped /\ a.at \in Nat /\ req[r].at \in Nat
    BY HandlerTypes DEF OthersTyped, ReqTyped, Request
  <1>2. user'[a.user] = userW[a.user] /\ userW[a.user].validFrom \in Nat
    BY <1>1 DEF Publish, UsersTyped, UserRow
  <1>3. Second(a.at) \in Nat /\ Second(req[r].at) \in Nat
    BY <1>1, SecondIsNat
  <1>4. ~(Second(a.at) >= user'[a.user].validFrom)
    BY <1>2, <1>3
  <1>5. QED
    BY <1>4 DEF Accepted, Second

\* From a reset's commit on, access tokens older than the reset are refused.
THEOREM ResetCutsOff == Spec => ResetCutsOffAccess
  <1>1. HandlerInv /\ [Next]_vars =>
          [\A r \in Requests : Commits(r, "reset") =>
              \A a \in access : a.user = req[r].user
                  /\ Second(a.at) < Second(req[r].at) => ~Accepted(a)']_vars
    <2> SUFFICES ASSUME HandlerInv, NEW r \in Requests, Commits(r, "reset")
                 PROVE  \A a \in access : a.user = req[r].user
                            /\ Second(a.at) < Second(req[r].at) => ~Accepted(a)'
      OBVIOUS
    <2>1. Publish(r) /\ req[r].pc = "commit" /\ req[r].op = "reset"
      BY DEF Commits
    <2>2. req[r].user \in Users
      BY <2>1, OwnRequest DEF HandlerInv, RequestOK
    <2>3. CutoffOK(r)
      BY DEF HandlerInv, HeldOK, HandlersOK
    <2>4. QED
      BY <2>1, <2>2, <2>3, CutoffHolds DEF CutoffOK
  <1>2. QED
    BY <1>1, Handlers, PTL DEF Spec, ResetCutsOffAccess

\* The second commit of a password change refuses every older access token and
\* ends every session its UPDATE saw.
THEOREM ChangeCuts == Spec => ChangeCutsOff
  <1>1. HandlerInv /\ [Next]_vars =>
          [\A r \in Requests : At(r, "stamped") /\ Publish(r) =>
              /\ \A a \in access : a.user = req[r].user
                     /\ Second(a.at) < Second(req[r].at) => ~Accepted(a)'
              /\ \A t \in req[r].scan : ~IsLive(sess[t])']_vars
    <2> SUFFICES ASSUME HandlerInv, NEW r \in Requests, req[r].pc = "stamped", Publish(r)
                 PROVE  /\ \A a \in access : a.user = req[r].user
                               /\ Second(a.at) < Second(req[r].at) => ~Accepted(a)'
                        /\ \A t \in req[r].scan : ~IsLive(sess[t])'
      OBVIOUS
    <2>1. req[r].user \in Users
      BY OwnRequest DEF HandlerInv, RequestOK
    <2>2. CutoffOK(r)
      BY DEF HandlerInv, HeldOK, HandlersOK
    <2>3. \A t \in req[r].scan : ~IsLive(sess[t])'
      BY ScanEnds DEF Revoked
    <2>4. QED
      BY <2>1, <2>2, <2>3, CutoffHolds DEF CutoffOK
  <1>2. QED
    BY <1>1, Handlers, PTL DEF Spec, ChangeCutsOff

\* Only commits and administrators change the committed users rows.
LEMMA OnlyCommitsChangeUsers ==
    ASSUME HandlerInv, [Next]_vars, req' # req
    PROVE  user' = user \/ \E r \in Requests : Publish(r)
  <1>1. ASSUME NEW r \in Requests, Arrive(r) PROVE user' = user
    BY <1>1 DEF Arrive, LoginVerify, RefreshLoad, RefreshReuse, LogoutLoad,
       LogoutAllStart, RequestLoad, ResetLoad, ChangeLoad, Begin, userVars
  <1>2. ASSUME NEW r \in Requests, Handle(r) PROVE user' = user \/ Publish(r)
    BY <1>2 DEF Handle, LoginTouch, RefreshRotate, LogoutMark, RevokeScan,
       RevokeAll, RetireScan, RequestInsert, RequestSend, ResetRenew, ResetSpend,
       SetHash, ChangeCommit, ChangeStamp, ChangeIssue, Commit, WriteUser, userVars
  <1>3. ASSUME NEW r \in Requests, DeadlockVictim(r) \/ Crash(r)
        PROVE  user' = user
    BY <1>3 DEF DeadlockVictim, Crash, Rollback, Discard
  <1>4. ASSUME NEW u \in Users, NEW s \in Statuses, SetStatus(u, s)
        PROVE  FALSE
    BY <1>4 DEF SetStatus
  <1>5. CASE Tick \/ UNCHANGED vars
    BY <1>5 DEF Tick, vars
  <1>6. QED
    BY <1>1, <1>2, <1>3, <1>4, <1>5 DEF Next

\* No request lifts a suspension: a version of a blocked account's row that a
\* request may commit is blocked too.
THEOREM BlockStays == Spec => OnlyAdminsUnblock
  <1>1. HandlerInv /\ [Next]_vars =>
          [\A u \in Users : user[u].status = "blocked" /\ req' # req =>
              user'[u].status = "blocked"]_vars
    <2> SUFFICES ASSUME HandlerInv, [Next]_vars, req' # req,
                        NEW u \in Users, user[u].status = "blocked"
                 PROVE  user'[u].status = "blocked"
      OBVIOUS
    <2>1. ASSUME NEW r \in Requests, Publish(r) PROVE user'[u].status = "blocked"
      BY <2>1 DEF Publish, HandlerInv, HeldOK, BlocksOK
    <2>2. QED
      BY <2>1, OnlyCommitsChangeUsers
  <1>2. QED
    BY <1>1, Handlers, PTL DEF Spec, OnlyAdminsUnblock

-----------------------------------------------------------------------------
(* The handlers implement SessionLedger.                                   *)

\* Between commits the ledger does not change.
LEMMA LedgerStutters ==
    ASSUME sess' = sess, \A t \in Tokens : Exists(t) => origin'[t] = origin[t]
    PROVE  UNCHANGED Ledger!ledgerVars
  <1>1. LedgerState' = LedgerState
    BY DEF LedgerState
  <1>2. LedgerParent' = LedgerParent
    BY DEF LedgerParent
  <1>3. QED
    BY <1>1, <1>2 DEF Ledger!ledgerVars

\* A commit opens one session, renews one, or ends those it holds.
LEMMA LedgerCommits ==
    ASSUME HandlerInv, NEW r \in Requests, Publish(r), UNCHANGED origin
    PROVE  Ledger!Next
  <1>1. SessionsTyped /\ OriginTyped /\ r # None
    BY HandlerTypes, NoneAssumption
  <1>2. \A t \in Tokens : sess'[t] = IF sessLock[t] = r THEN sessW[t] ELSE sess[t]
    BY DEF Publish
  <1>3. \A t \in Tokens : Exists(t) /\ sessLock[t] = r => Exists(t)' /\ ~IsLive(sess[t])'
    BY <1>1, <1>2 DEF HandlerInv, HeldOK, EndsOK, SessionInv, SessRowsOK
  <1>4. CASE \A t \in Tokens : sessLock[t] = r => Exists(t)
    <2> DEFINE S == {t \in Tokens : sessLock[t] = r}
    <2>1. \A s \in S : LedgerState[s] # "unborn"
      BY <1>4 DEF LedgerState
    <2>2. LedgerState' = [s \in Tokens |-> IF s \in S THEN "ended" ELSE LedgerState[s]]
      BY <1>2, <1>3, <1>4 DEF LedgerState
    <2>3. LedgerParent' = LedgerParent
      BY <1>2, <1>3, <1>4 DEF LedgerParent
    <2>4. S \in SUBSET Tokens
      OBVIOUS
    <2> HIDE DEF S
    <2>5. Ledger!End(S)
      BY <2>1, <2>2, <2>3 DEF Ledger!End
    <2>6. QED
      BY <2>4, <2>5 DEF Ledger!Next
  <1>5. ASSUME NEW t \in Tokens, sessLock[t] = r, ~Exists(t)
        PROVE  Ledger!Next
    <2> DEFINE p == origin[t].parent
    <2>1. /\ IsLive(sessW[t])
          /\ \A s \in Tokens : sessLock[s] = r => s = t \/ s = p
      BY <1>1, <1>5 DEF HandlerInv, HeldOK, BirthsOK, BirthOK
    <2>2. sess'[t] = sessW[t] /\ Exists(t)' /\ IsLive(sess[t])'
      BY <1>2, <1>5, <2>1
    <2>3. ParentOK(t)
      BY DEF HandlerInv, SessionInv, ParentsOK
    <2>4. CASE p = None
      <3>1. \A s \in Tokens \ {t} : sess'[s] = sess[s]
        BY <1>1, <1>2, <2>1, <2>4, NoneAssumption
      <3>2. LedgerState[t] = "unborn" /\ LedgerState' = [LedgerState EXCEPT ![t] = "live"]
        BY <1>5, <2>2, <3>1 DEF LedgerState
      <3>3. LedgerParent' = LedgerParent
        BY <1>5, <2>2, <2>4, <3>1 DEF LedgerParent
      <3>4. Ledger!Open(t)
        BY <3>2, <3>3 DEF Ledger!Open
      <3>5. QED
        BY <3>4 DEF Ledger!Next
    <2>5. CASE p # None
      <3>1. p \in Tokens /\ Exists(p) /\ p # t /\ sessLock[p] = r
        BY <1>1, <1>5, <2>3, <2>5 DEF ParentOK, OriginTyped
      <3>2. Exists(p)' /\ ~IsLive(sess[p])'
        BY <1>3, <3>1
      <3>3. \A s \in Tokens \ {t, p} : sess'[s] = sess[s]
        BY <1>2, <2>1
      <3>4. LedgerState[t] = "unborn" /\ LedgerState[p] # "unborn"
        BY <1>5, <3>1 DEF LedgerState
      <3>5. LedgerState' = [LedgerState EXCEPT ![p] = "ended", ![t] = "live"]
        BY <2>2, <3>1, <3>2, <3>3 DEF LedgerState
      <3>6. LedgerParent' = [LedgerParent EXCEPT ![t] = p]
        BY <2>2, <3>1, <3>2, <3>3 DEF LedgerParent
      <3> HIDE DEF p
      <3>7. Ledger!Renew(p, t)
        BY <3>4, <3>5, <3>6 DEF Ledger!Renew
      <3>8. QED
        BY <3>1, <3>7 DEF Ledger!Next
    <2>6. QED
      BY <2>4, <2>5
  <1>6. QED
    BY <1>4, <1>5

\* Every step of the handlers is a step of the ledger or leaves it alone.
LEMMA LedgerSteps ==
    ASSUME HandlerInv, [Next]_vars
    PROVE  [Ledger!Next]_(Ledger!ledgerVars)
  <1> DEFINE Quiet == sess' = sess /\ \A t \in Tokens : Exists(t) => origin'[t] = origin[t]
             Committed == \E r \in Requests : Publish(r) /\ UNCHANGED origin
  <1>0. OriginTyped
    BY HandlerTypes
  <1>1. ASSUME NEW r \in Requests, Arrive(r) PROVE Quiet
    BY <1>1 DEF Arrive, LoginVerify, RefreshLoad, RefreshReuse, LogoutLoad,
       LogoutAllStart, RequestLoad, ResetLoad, ChangeLoad, Begin, sessVars, history
  <1>2. ASSUME NEW r \in Requests, Handle(r) PROVE Quiet \/ Committed
    <2>1. CASE LoginTouch(r) \/ ChangeIssue(r) \/ RefreshRotate(r)
      BY <1>0, <2>1 DEF LoginTouch, ChangeIssue, RefreshRotate, WriteSessions, Opened,
         Fresh, OriginTyped
    <2>2. CASE LogoutMark(r) \/ RevokeScan(r) \/ RevokeAll(r)
      BY <2>2 DEF LogoutMark, RevokeScan, RevokeAll, WriteSessions, sessVars, history
    <2>3. CASE \/ RetireScan(r) \/ RequestInsert(r) \/ RequestSend(r) \/ ResetRenew(r)
               \/ ResetSpend(r) \/ SetHash(r) \/ ChangeStamp(r)
      BY <2>3 DEF RetireScan, RequestInsert, RequestSend, ResetRenew, ResetSpend,
         SetHash, ChangeStamp, sessVars, history
    <2>4. CASE ChangeCommit(r) \/ Commit(r)
      BY <2>4 DEF ChangeCommit, Commit, history
    <2>5. QED
      BY <1>2, <2>1, <2>2, <2>3, <2>4 DEF Handle
  <1>3. ASSUME NEW r \in Requests, DeadlockVictim(r) \/ Crash(r) PROVE Quiet
    BY <1>3 DEF DeadlockVictim, Crash, Rollback, Discard
  <1>4. ASSUME NEW u \in Users, NEW s \in Statuses, SetStatus(u, s) PROVE Quiet
    BY <1>4 DEF SetStatus, sessVars, history
  <1>5. CASE Tick \/ UNCHANGED vars
    BY <1>5, LedgerStutters DEF Tick, vars, sessVars, history
  <1>6. Quiet => UNCHANGED Ledger!ledgerVars
    BY LedgerStutters
  <1>7. Committed => Ledger!Next
    BY LedgerCommits
  <1> HIDE DEF Quiet, Committed
  <1>8. QED
    BY <1>1, <1>2, <1>3, <1>4, <1>5, <1>6, <1>7 DEF Next

\* The refresh_tokens table behaves as the ledger says: sessions open, are
\* renewed and end by commits alone, and a renewal ends what it renews at once.
THEOREM ImplementsLedger == Spec => KeepsLedger
  <1>1. Init => Ledger!Init
    <2> SUFFICES ASSUME Init PROVE Ledger!Init
      OBVIOUS
    <2>1. LedgerState = [t \in Tokens |-> "unborn"]
      BY DEF Init, LedgerState
    <2>2. LedgerParent = [t \in Tokens |-> None]
      BY DEF Init, LedgerParent
    <2>3. QED
      BY <2>1, <2>2 DEF Ledger!Init
  <1>2. HandlerInv /\ [Next]_vars => [Ledger!Next]_(Ledger!ledgerVars)
    BY LedgerSteps
  <1>3. QED
    BY <1>1, <1>2, Handlers, PTL DEF Spec, KeepsLedger, Ledger!Spec
=============================================================================
