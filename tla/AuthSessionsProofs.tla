------------------------ MODULE AuthSessionsProofs ------------------------
(***************************************************************************)
(* Proofs about AuthSessions, for any number of accounts, requests, tokens *)
(* and links and any lifetimes: every variable keeps its type, a session   *)
(* that has ended stays ended, and a refresh ends the session it renews.   *)
(* All rest on SessionInv, which every step preserves.                     *)
(***************************************************************************)
EXTENDS AuthSessionsProps, TLAPS

USE DEF At, Exists, IsLive, Live

-----------------------------------------------------------------------------
(* What the transaction helpers do to the tables.                          *)

\* The second of a tick is a natural number.
LEMMA SecondIsNat == ASSUME NEW tick \in Nat PROVE Second(tick) \in Nat
  BY ClockAssumption DEF Second

UsersTyped ==
    /\ user \in [Users -> UserRow] /\ userW \in [Users -> UserRow]
    /\ userLock \in [Users -> Requests \cup {None}]
SessionsTyped ==
    /\ sess \in [Tokens -> SessionRow \cup {Absent}]
    /\ sessW \in [Tokens -> SessionRow \cup {Absent}]
    /\ sessLock \in [Tokens -> Requests \cup {None}]
LinksTyped ==
    /\ link \in [Links -> LinkRow \cup {Absent}]
    /\ linkW \in [Links -> LinkRow \cup {Absent}]
    /\ linkLock \in [Links -> Requests \cup {None}]
OriginTyped ==
    origin \in [Tokens -> [via : {"none", "login", "refresh", "change"},
                           parent : Tokens \cup {None},
                           knew : Passwords \cup {None}]]
OthersTyped ==
    /\ now \in Nat
    /\ access \in SUBSET [user : Users, at : Nat]
    /\ mail \in SUBSET Links
    /\ spends \in [Links -> Nat]
ReqTyped == req \in [Requests -> Request]

\* TypeOK, table by table.
LEMMA TypeParts ==
    TypeOK <=> /\ UsersTyped /\ SessionsTyped /\ LinksTyped
               /\ OriginTyped /\ OthersTyped /\ ReqTyped
  BY DEF TypeOK, UsersTyped, SessionsTyped, LinksTyped, OriginTyped,
         OthersTyped, ReqTyped

\* The same of the next state.
LEMMA TypePartsNext ==
    TypeOK' <=> /\ UsersTyped' /\ SessionsTyped' /\ LinksTyped'
                /\ OriginTyped' /\ OthersTyped' /\ ReqTyped'
  BY DEF TypeOK, UsersTyped, SessionsTyped, LinksTyped, OriginTyped,
         OthersTyped, ReqTyped

\* A write to the users row keeps the table typed.
LEMMA WriteUserTyped ==
    ASSUME UsersTyped, NEW r \in Requests, NEW u \in Users,
           NEW row \in UserRow, WriteUser(r, u, row)
    PROVE  UsersTyped'
  BY DEF UsersTyped, WriteUser

\* A flush of session rows: the rows in T were there, those in N are new.
LEMMA WriteSessionsOK ==
    ASSUME SessionsTyped, SessRowsOK, ParentsOK, OriginTyped,
           NEW r \in Requests, NEW T \in SUBSET Tokens, NEW N \in SUBSET Tokens,
           NEW why, NEW row, T # {} => why \in Reasons, N # {} => row \in SessionRow,
           \A t \in T : sessW[t] # Absent,
           \A t \in N : Fresh(t),
           WriteSessions(r, T, why, N, row)
    PROVE  /\ sess' = sess /\ SessionsTyped' /\ SessRowsOK'
           /\ \A t \in Tokens \ N : origin'[t] = origin[t] => ParentOK(t)'
  <1>1. /\ sess' = sess
        /\ sessW' = [t \in Tokens |-> CASE t \in N -> row
                          [] t \in T -> [sessW[t] EXCEPT !.revoked = why]
                          [] OTHER -> sessW[t]]
        /\ sessLock' = [t \in Tokens |-> IF t \in T \cup N THEN r ELSE sessLock[t]]
        /\ \A t \in T : sessLock[t] \in {None, r}
    BY DEF WriteSessions, SessFree
  <1>2. \A t \in T : why \in Reasons /\ why # "live"
    BY DEF Reasons
  <1>3. \A t \in T : [sessW[t] EXCEPT !.revoked = why] \in SessionRow
    BY <1>2 DEF SessionsTyped, SessionRow
  <1>4. \A t \in T : sessW'[t] # Absent /\ (t \notin N => sessW'[t].revoked # "live")
    BY <1>1, <1>2, <1>3, NoneAssumption DEF SessionRow, SessionsTyped
  <1>5. SessionsTyped'
    BY <1>1, <1>3 DEF SessionsTyped
  <1>6. SessRowsOK'
    BY <1>1, <1>4 DEF SessRowsOK, Fresh
  <1>7. ASSUME NEW t \in Tokens \ N, origin'[t] = origin[t]
        PROVE  ParentOK(t)'
    BY <1>1, <1>4, <1>7, NoneAssumption DEF ParentsOK, ParentOK, Fresh, OriginTyped
  <1>8. QED
    BY <1>1, <1>5, <1>6, <1>7

\* Nothing committed disappears.
Grows ==
    /\ \A t \in Tokens : Exists(t) => Exists(t)'
    /\ \A l \in Links : link[l] # Absent => link'[l] # Absent

\* A handler's record moves on and the others stay as they are.
LEMMA ReqStep ==
    ASSUME ReqTyped, RequestsOK, Grows, NEW r \in Requests, NEW q \in Request,
           req' = [req EXCEPT ![r] = q], RequestOK(q)'
    PROVE  ReqTyped' /\ RequestsOK'
  BY DEF ReqTyped, RequestsOK, RequestOK, Grows

\* Commit: every row keeps its type, and an ended session stays ended.
LEMMA PublishOK ==
    ASSUME SessionInv, NEW r \in Requests, Publish(r), Unlock(r),
           UNCHANGED origin
    PROVE  /\ UsersTyped' /\ SessionsTyped' /\ LinksTyped' /\ Grows
           /\ SessRowsOK' /\ LinkRowsOK' /\ ParentsOK'
  <1>1. UsersTyped /\ SessionsTyped /\ LinksTyped /\ OriginTyped
    BY TypeParts DEF SessionInv
  <1>2. UsersTyped' /\ SessionsTyped' /\ LinksTyped'
    BY <1>1 DEF UsersTyped, SessionsTyped, LinksTyped, Publish, Unlock
  <1>3. Grows /\ SessRowsOK' /\ LinkRowsOK'
    BY DEF Grows, SessRowsOK, LinkRowsOK, SessionInv, Publish
  <1>4. ParentsOK'
    <2> SUFFICES ASSUME NEW t \in Tokens, origin[t].parent # None,
                        NEW p, p = origin[t].parent
                 PROVE  /\ Exists(p)'
                        /\ Exists(t)' => ~IsLive(sess[p])'
                        /\ ~Exists(t)' => /\ sessLock'[t] # None
                                          /\ sessW'[t] # Absent
                                          /\ sessLock'[p] = sessLock'[t]
                                          /\ ~IsLive(sessW'[p])
      BY DEF ParentsOK, ParentOK
    <2>1. p \in Tokens /\ Exists(p)
      BY <1>1 DEF ParentsOK, ParentOK, SessionInv, OriginTyped
    <2>2. Exists(p)' /\ (~IsLive(sess[p]) => ~IsLive(sess[p])')
      BY <2>1 DEF SessRowsOK, SessionInv, Publish
    <2>3. CASE Exists(t)
      BY <2>1, <2>2, <2>3 DEF SessRowsOK, ParentsOK, ParentOK, SessionInv, Publish
    <2>4. CASE ~Exists(t) /\ sessLock[t] = r
      BY <2>1, <2>2, <2>4 DEF SessRowsOK, ParentsOK, ParentOK, SessionInv, Publish
    <2>5. CASE ~Exists(t) /\ sessLock[t] # r
      <3>1. /\ sessLock[t] # None /\ sessW[t] # Absent
            /\ sessLock[p] = sessLock[t] /\ ~IsLive(sessW[p])
        BY <2>5 DEF ParentsOK, ParentOK, SessionInv
      <3>2. sessLock'[t] = sessLock[t] /\ sessLock'[p] = sessLock[p]
        BY <2>1, <2>5, <3>1 DEF Unlock
      <3>3. sess'[t] = sess[t] /\ sessW' = sessW
        BY <2>5 DEF Publish
      <3>4. QED
        BY <2>2, <2>5, <3>1, <3>2, <3>3
    <2>6. QED
      BY <2>3, <2>4, <2>5
  <1>5. QED
    BY <1>2, <1>3, <1>4

\* Rollback: the same, and a session that was never committed is forgotten.
LEMMA DiscardOK ==
    ASSUME SessionInv, NEW r \in Requests, Discard(r), Unlock(r),
           origin' = [t \in Tokens |-> IF sessLock[t] = r /\ sess[t] = Absent
                                         THEN Unopened ELSE origin[t]]
    PROVE  /\ UsersTyped' /\ SessionsTyped' /\ LinksTyped' /\ OriginTyped' /\ Grows
           /\ SessRowsOK' /\ LinkRowsOK' /\ ParentsOK'
  <1>1. UsersTyped /\ SessionsTyped /\ LinksTyped /\ OriginTyped
    BY TypeParts DEF SessionInv
  <1>2. UsersTyped' /\ SessionsTyped' /\ LinksTyped'
    BY <1>1 DEF UsersTyped, SessionsTyped, LinksTyped, Discard, Unlock
  <1>3. OriginTyped'
    BY <1>1 DEF OriginTyped, Unopened
  <1>4. Grows /\ SessRowsOK' /\ LinkRowsOK'
    BY DEF Grows, SessRowsOK, LinkRowsOK, SessionInv, Discard
  <1>5. ParentsOK'
    BY <1>1, NoneAssumption DEF ParentsOK, ParentOK, SessRowsOK, SessionInv, Discard, Unlock,
       SessionsTyped, OriginTyped, Unopened
  <1>6. QED
    BY <1>2, <1>3, <1>4, <1>5

-----------------------------------------------------------------------------
(* SessionInv is inductive.                                                *)

\* The initial tables: no session, no link, every account without a cutoff.
LEMMA InitInv == Init => SessionInv
  <1> SUFFICES ASSUME Init PROVE SessionInv
    OBVIOUS
  <1>1. UsersTyped
    <2>1. ASSUME NEW h \in Passwords \cup {None}, NEW st \in {"active", "pending"}
          PROVE  [hash |-> h, validFrom |-> 0, status |-> st,
                  verified |-> st = "active"] \in UserRow
      BY DEF UserRow, Statuses
    <2>2. ASSUME NEW u \in Users PROVE user[u] \in UserRow
      <3>1. PICK h \in Passwords \cup {None}, st \in {"active", "pending"} :
               user[u] = [hash |-> h, validFrom |-> 0, status |-> st,
                          verified |-> st = "active"]
        BY DEF Init
      <3>2. QED
        BY <2>1, <3>1
    <2>3. QED
      BY <2>2 DEF Init, UsersTyped
  <1>2. SessionsTyped /\ LinksTyped
    BY DEF Init, SessionsTyped, LinksTyped
  <1>3. OriginTyped /\ OthersTyped
    BY DEF Init, OriginTyped, OthersTyped, Unopened
  <1>4. ReqTyped
    BY DEF Init, ReqTyped, Idle, Request, Pcs
  <1>5. RequestsOK
    BY DEF Init, RequestsOK, RequestOK, Idle
  <1>6. SessRowsOK /\ LinkRowsOK /\ ParentsOK
    BY DEF Init, SessRowsOK, LinkRowsOK, ParentsOK, ParentOK, Unopened
  <1>7. QED
    BY <1>1, <1>2, <1>3, <1>4, <1>5, <1>6, TypeParts DEF SessionInv

\* A step that only moves request r on.
LEMMA MoveInv ==
    ASSUME SessionInv, NEW r \in Requests, NEW q \in Request, RequestOK(q),
           req' = [req EXCEPT ![r] = q],
           UNCHANGED <<now, userVars, sessVars, linkVars, access, mail, history>>
    PROVE  SessionInv'
  <1> USE DEF userVars, sessVars, linkVars, history
  <1>1. /\ UsersTyped /\ SessionsTyped /\ LinksTyped
        /\ OriginTyped /\ OthersTyped /\ ReqTyped
    BY TypeParts DEF SessionInv
  <1>2. /\ UsersTyped' /\ SessionsTyped' /\ LinksTyped'
        /\ OriginTyped' /\ OthersTyped'
    BY <1>1 DEF UsersTyped, SessionsTyped, LinksTyped, OriginTyped, OthersTyped
  <1>3. Grows
    BY DEF Grows
  <1>4. RequestOK(q)'
    BY DEF RequestOK
  <1>5. ReqTyped' /\ RequestsOK'
    BY <1>1, <1>3, <1>4, ReqStep DEF SessionInv
  <1>6. SessRowsOK' /\ LinkRowsOK' /\ ParentsOK'
    BY DEF SessionInv, SessRowsOK, LinkRowsOK, ParentsOK, ParentOK
  <1>7. QED
    BY <1>2, <1>5, <1>6, TypePartsNext DEF SessionInv

\* A step of request r that also writes the users row.
LEMMA UserStepInv ==
    ASSUME SessionInv, NEW r \in Requests, NEW q \in Request, RequestOK(q),
           req' = [req EXCEPT ![r] = q], UsersTyped',
           UNCHANGED <<now, sessVars, linkVars, access, mail, history>>
    PROVE  SessionInv'
  <1> USE DEF sessVars, linkVars, history
  <1>1. SessionsTyped /\ LinksTyped /\ OriginTyped /\ OthersTyped /\ ReqTyped
    BY TypeParts DEF SessionInv
  <1>2. SessionsTyped' /\ LinksTyped' /\ OriginTyped' /\ OthersTyped'
    BY <1>1 DEF SessionsTyped, LinksTyped, OriginTyped, OthersTyped
  <1>3. Grows
    BY DEF Grows
  <1>4. RequestOK(q)'
    BY DEF RequestOK
  <1>5. ReqTyped' /\ RequestsOK'
    BY <1>1, <1>3, <1>4, ReqStep DEF SessionInv
  <1>6. SessRowsOK' /\ LinkRowsOK' /\ ParentsOK'
    BY DEF SessionInv, SessRowsOK, LinkRowsOK, ParentsOK, ParentOK
  <1>7. QED
    BY <1>2, <1>5, <1>6, TypePartsNext DEF SessionInv

\* A step of request r that writes reset-token rows.
LEMMA LinkStepInv ==
    ASSUME SessionInv, NEW r \in Requests, NEW q \in Request, RequestOK(q),
           req' = [req EXCEPT ![r] = q], LinksTyped', link' = link, LinkRowsOK',
           UNCHANGED <<now, userVars, sessVars, access, mail, history>>
    PROVE  SessionInv'
  <1> USE DEF sessVars, userVars, history
  <1>1. UsersTyped /\ SessionsTyped /\ OriginTyped /\ OthersTyped /\ ReqTyped
    BY TypeParts DEF SessionInv
  <1>2. UsersTyped' /\ SessionsTyped' /\ OriginTyped' /\ OthersTyped'
    BY <1>1 DEF SessionsTyped, UsersTyped, OriginTyped, OthersTyped
  <1>3. Grows
    BY DEF Grows
  <1>4. RequestOK(q)'
    BY DEF RequestOK
  <1>5. ReqTyped' /\ RequestsOK'
    BY <1>1, <1>3, <1>4, ReqStep DEF SessionInv
  <1>6. SessRowsOK' /\ ParentsOK'
    BY DEF SessionInv, SessRowsOK, ParentsOK, ParentOK
  <1>7. QED
    BY <1>2, <1>5, <1>6, TypePartsNext DEF SessionInv

\* A step of request r that ends the sessions in T.
LEMMA RevokeStepInv ==
    ASSUME SessionInv, NEW r \in Requests, NEW q \in Request, RequestOK(q),
           req' = [req EXCEPT ![r] = q],
           NEW T \in SUBSET Tokens, \A t \in T : sessW[t] # Absent,
           NEW why \in Reasons, WriteSessions(r, T, why, {}, Absent),
           UNCHANGED <<now, userVars, linkVars, access, mail, history>>
    PROVE  SessionInv'
  <1> USE DEF linkVars, userVars, history
  <1>1. /\ UsersTyped /\ SessionsTyped /\ LinksTyped
        /\ OriginTyped /\ OthersTyped /\ ReqTyped
    BY TypeParts DEF SessionInv
  <1>2. UsersTyped' /\ LinksTyped' /\ OriginTyped' /\ OthersTyped'
    BY <1>1 DEF UsersTyped, LinksTyped, OriginTyped, OthersTyped
  <1>3. sess' = sess /\ SessionsTyped' /\ SessRowsOK' /\ ParentsOK'
    <2>1. \A t \in {} : Fresh(t)
      OBVIOUS
    <2>2. /\ sess' = sess /\ SessionsTyped' /\ SessRowsOK'
          /\ \A t \in Tokens \ {} : origin'[t] = origin[t] => ParentOK(t)'
      BY <1>1, <2>1, WriteSessionsOK DEF SessionInv
    <2>3. QED
      BY <2>2 DEF ParentsOK
  <1>4. Grows
    BY <1>3 DEF Grows
  <1>5. RequestOK(q)'
    BY <1>3 DEF RequestOK
  <1>6. ReqTyped' /\ RequestsOK'
    BY <1>1, <1>4, <1>5, ReqStep DEF SessionInv
  <1>7. LinkRowsOK'
    BY DEF SessionInv, LinkRowsOK
  <1>8. QED
    BY <1>2, <1>3, <1>6, <1>7, TypePartsNext DEF SessionInv

\* A step of request r that opens session t, and ends its parent if it has one.
LEMMA OpenStepInv ==
    ASSUME SessionInv, NEW r \in Requests, NEW q \in Request, RequestOK(q),
           req' = [req EXCEPT ![r] = q], UsersTyped',
           NEW t \in Tokens, Fresh(t), NEW row \in SessionRow,
           NEW T \in SUBSET Tokens, \A s \in T : sessW[s] # Absent,
           NEW why, T # {} => why \in Reasons,
           WriteSessions(r, T, why, {t}, row),
           NEW via \in {"login", "refresh", "change"},
           NEW p \in Tokens \cup {None}, NEW k \in Passwords \cup {None},
           Opened(t, via, p, k),
           p # None => T = {p} /\ Exists(p),
           UNCHANGED <<now, linkVars, access, mail, spends>>
    PROVE  SessionInv'
  <1> USE DEF linkVars
  <1>1. /\ UsersTyped /\ SessionsTyped /\ LinksTyped
        /\ OriginTyped /\ OthersTyped /\ ReqTyped
    BY TypeParts DEF SessionInv
  <1>2. LinksTyped' /\ OthersTyped' /\ OriginTyped'
    BY <1>1 DEF LinksTyped, OthersTyped, OriginTyped, Opened
  <1>3. /\ sess' = sess /\ SessionsTyped' /\ SessRowsOK'
        /\ \A s \in Tokens \ {t} : origin'[s] = origin[s] => ParentOK(s)'
    <2>1. \A s \in {t} : Fresh(s)
      OBVIOUS
    <2>2. QED
      BY <1>1, <2>1, WriteSessionsOK DEF SessionInv
  <1>4. ParentsOK'
    <2>1. \A s \in Tokens \ {t} : ParentOK(s)'
      BY <1>1, <1>3 DEF Opened, OriginTyped
    <2>2. ParentOK(t)'
      <3>1. origin'[t].parent = p
        BY <1>1 DEF Opened, OriginTyped
      <3>2. CASE p = None
        BY <3>1, <3>2 DEF ParentOK
      <3>3. CASE p # None
        <4>1. p \in Tokens /\ p # t /\ T = {p} /\ Exists(p)
          BY <3>3 DEF Fresh
        <4>2. sessLock'[t] = r /\ sessLock'[p] = r /\ sessW'[t] = row
          BY <4>1 DEF WriteSessions
        <4>3. ~IsLive(sessW'[p])
          <5>1. sessW'[p] = [sessW[p] EXCEPT !.revoked = why] /\ sessW[p] \in SessionRow
            BY <1>1, <4>1 DEF WriteSessions, SessionsTyped
          <5>2. why # "live"
            BY <4>1 DEF Reasons
          <5>3. QED
            BY <5>1, <5>2 DEF SessionRow
        <4>4. ~Exists(t)' /\ Exists(p)' /\ row # Absent /\ r # None
          BY <1>3, <4>1, NoneAssumption DEF Fresh
        <4>5. QED
          BY <3>1, <4>2, <4>3, <4>4 DEF ParentOK
      <3>4. QED
        BY <3>2, <3>3
    <2>3. QED
      BY <2>1, <2>2 DEF ParentsOK
  <1>5. Grows
    BY <1>3 DEF Grows
  <1>6. RequestOK(q)'
    BY <1>3 DEF RequestOK
  <1>7. ReqTyped' /\ RequestsOK'
    BY <1>1, <1>5, <1>6, ReqStep DEF SessionInv
  <1>8. LinkRowsOK'
    BY DEF SessionInv, LinkRowsOK
  <1>9. QED
    BY <1>2, <1>3, <1>4, <1>7, <1>8, TypePartsNext DEF SessionInv

-----------------------------------------------------------------------------
(* Each action preserves SessionInv: first the clients' arrivals.          *)

\* A request that arrives only gets a record of its own.
LEMMA BeginInv ==
    ASSUME SessionInv, NEW r \in Requests, NEW op \in AllOps, NEW pc \in Pcs,
           pc \notin {"idle", "commit", "send", "spend"}, NEW u \in Users,
           NEW t \in Tokens \cup {None}, NEW l \in Links \cup {None},
           NEW p \in Passwords \cup {None},
           pc \in {"rotate", "mark"} => t \in Tokens /\ Exists(t),
           op = "request" <=> pc = "retire", pc # "insert",
           op = "reset" => l \in Links /\ link[l] # Absent,
           Begin(r, op, pc, u, t, l, p)
    PROVE  SessionInv'
  <1> DEFINE q == [Idle EXCEPT !.op = op, !.pc = pc, !.user = u, !.tok = t,
                               !.link = l, !.pwd = p, !.at = now]
  <1>1. now \in Nat
    BY TypeParts DEF SessionInv, OthersTyped
  <1>2. q \in Request
    BY <1>1 DEF Idle, Request
  <1>3. RequestOK(q)
    BY DEF RequestOK, Idle
  <1>4. req' = [req EXCEPT ![r] = q]
    BY DEF Begin
  <1>5. UNCHANGED <<now, userVars, sessVars, linkVars, access, mail, history>>
    BY DEF Begin
  <1> HIDE DEF q
  <1>6. QED
    BY <1>2, <1>3, <1>4, <1>5, MoveInv

\* Every endpoint starts that way, with rows its first read found committed.
LEMMA ArriveInv ==
    ASSUME SessionInv, NEW r \in Requests, Arrive(r)
    PROVE  SessionInv'
  <1>1. SessionsTyped /\ LinksTyped
    BY TypeParts DEF SessionInv
  <1>2. \A t \in Tokens : Exists(t) => sess[t].user \in Users
    BY <1>1 DEF SessionsTyped, SessionRow
  <1>3. \A l \in Links : link[l] # Absent => link[l].user \in Users
    BY <1>1 DEF LinksTyped, LinkRow
  <1> USE DEF AllOps, Pcs
  <1>4. ASSUME NEW u \in Users, NEW p \in Passwords, LoginVerify(r, u, p)
        PROVE  SessionInv'
    BY <1>4, BeginInv DEF LoginVerify
  <1>5. ASSUME NEW t \in Tokens, RefreshLoad(r, t) PROVE SessionInv'
    BY <1>2, <1>5, BeginInv DEF RefreshLoad
  <1>6. ASSUME NEW t \in Tokens, RefreshReuse(r, t) PROVE SessionInv'
    BY <1>2, <1>6, BeginInv DEF RefreshReuse
  <1>7. ASSUME NEW t \in Tokens, LogoutLoad(r, t) PROVE SessionInv'
    BY <1>2, <1>7, BeginInv DEF LogoutLoad
  <1>8. ASSUME NEW u \in Users, LogoutAllStart(r, u) PROVE SessionInv'
    BY <1>8, BeginInv DEF LogoutAllStart
  <1>9. ASSUME NEW u \in Users, RequestLoad(r, u) PROVE SessionInv'
    BY <1>9, BeginInv DEF RequestLoad
  <1>10. ASSUME NEW l \in Links, NEW p \in Passwords, ResetLoad(r, l, p)
         PROVE  SessionInv'
    <2>1. link[l] # Absent
      BY <1>10 DEF ResetLoad, Usable, Outstanding
    <2>2. QED
      BY <1>3, <1>10, <2>1, BeginInv DEF ResetLoad
  <1>11. ASSUME NEW u \in Users, NEW cur \in Passwords, NEW p \in Passwords,
                ChangeLoad(r, u, cur, p)
         PROVE  SessionInv'
    BY <1>11, BeginInv DEF ChangeLoad
  <1>12. QED
    BY <1>4, <1>5, <1>6, <1>7, <1>8, <1>9, <1>10, <1>11 DEF Arrive

-----------------------------------------------------------------------------
(* Then the steps of a handler.                                            *)

\* The typing a step needs of its own request.
LEMMA OwnRequest ==
    ASSUME SessionInv, NEW r \in Requests
    PROVE  req[r] \in Request /\ RequestOK(req[r]) /\ now \in Nat
  BY TypeParts DEF SessionInv, RequestsOK, ReqTyped, OthersTyped

\* A step may change what a handler remembers, but not whom or what it is for.
SameTarget(q, x) == q.op = x.op /\ q.user = x.user /\ q.tok = x.tok /\ q.link = x.link

\* A handler in flight serves a user, and only a request for a link is ever
\* about to retire, insert or send one.
LEMMA InFlight ==
    ASSUME SessionInv, NEW r \in Requests,
           req[r].pc \notin {"idle", "retire", "insert", "commit", "send"}
    PROVE  req[r].op # "request" /\ req[r].user \in Users
  BY OwnRequest DEF RequestOK

\* One that moves on with the same target still knows its rows.
LEMMA SameTargetOK ==
    ASSUME NEW x, NEW q, RequestOK(x), x.pc # "idle", SameTarget(q, x),
           x.op # "request",
           q.pc \notin {"rotate", "mark", "spend", "retire", "insert", "send"}
    PROVE  RequestOK(q)
  BY DEF RequestOK, SameTarget

\* login: the users row and a new session with no parent.
LEMMA LoginTouchInv ==
    ASSUME SessionInv, NEW r \in Requests, LoginTouch(r)
    PROVE  SessionInv'
  <1>1. PICK t \in Tokens :
           /\ Fresh(t)
           /\ WriteSessions(r, {}, Live, {t}, NewRow(req[r].user, now))
           /\ Opened(t, "login", None, req[r].pwd)
    BY DEF LoginTouch
  <1> DEFINE q == [req[r] EXCEPT !.pc = "commit", !.mint = now]
  <1>2. req[r].pc = "touch" /\ req[r].user \in Users /\ now \in Nat
    BY OwnRequest DEF LoginTouch, RequestOK
  <1>3. q \in Request /\ q.pc = "commit" /\ SameTarget(q, req[r])
    <2>1. req[r] \in Request /\ "commit" \in Pcs
      BY OwnRequest DEF Pcs
    <2>2. QED
      BY <1>2, <2>1 DEF Request, SameTarget
  <1>4. req' = [req EXCEPT ![r] = q]
    BY DEF LoginTouch
  <1>5. UsersTyped'
    <2>1. UsersTyped
      BY TypeParts DEF SessionInv
    <2>2. userW[req[r].user] \in UserRow
      BY <1>2, <2>1 DEF UsersTyped
    <2>3. QED
      BY <1>2, <2>1, <2>2, WriteUserTyped DEF LoginTouch
  <1>6. NewRow(req[r].user, now) \in SessionRow
    BY <1>2, ClockAssumption DEF NewRow, SessionRow
  <1>7. req[r].pwd \in Passwords \cup {None}
    BY OwnRequest DEF Request
  <1>8. UNCHANGED <<now, linkVars, access, mail, spends>>
    BY DEF LoginTouch
  <1> HIDE DEF q
  <1>9. RequestOK(q)
    BY <1>2, <1>3, OwnRequest, InFlight, SameTargetOK
  <1>10. QED
    BY <1>1, <1>3, <1>4, <1>5, <1>6, <1>7, <1>8, <1>9, OpenStepInv

\* change-password's third transaction: a new session with no parent.
LEMMA ChangeIssueInv ==
    ASSUME SessionInv, NEW r \in Requests, ChangeIssue(r)
    PROVE  SessionInv'
  <1>1. PICK t \in Tokens :
           /\ Fresh(t)
           /\ WriteSessions(r, {}, Live, {t}, NewRow(req[r].user, now))
           /\ Opened(t, "change", None, req[r].pwd)
    BY DEF ChangeIssue
  <1> DEFINE q == [req[r] EXCEPT !.pc = "commit", !.mint = now]
  <1>2. req[r].pc = "issue" /\ req[r].user \in Users /\ now \in Nat
    BY OwnRequest DEF ChangeIssue, RequestOK
  <1>3. q \in Request /\ q.pc = "commit" /\ SameTarget(q, req[r])
    <2>1. req[r] \in Request /\ "commit" \in Pcs
      BY OwnRequest DEF Pcs
    <2>2. QED
      BY <1>2, <2>1 DEF Request, SameTarget
  <1>4. req' = [req EXCEPT ![r] = q]
    BY DEF ChangeIssue
  <1>5. UsersTyped'
    BY TypeParts DEF ChangeIssue, SessionInv, UsersTyped, userVars
  <1>6. NewRow(req[r].user, now) \in SessionRow
    BY <1>2, ClockAssumption DEF NewRow, SessionRow
  <1>7. req[r].pwd \in Passwords \cup {None}
    BY OwnRequest DEF Request
  <1>8. UNCHANGED <<now, linkVars, access, mail, spends>>
    BY DEF ChangeIssue
  <1> HIDE DEF q
  <1>9. RequestOK(q)
    BY <1>2, <1>3, OwnRequest, InFlight, SameTargetOK
  <1>10. QED
    BY <1>1, <1>3, <1>4, <1>5, <1>6, <1>7, <1>8, <1>9, OpenStepInv

\* refresh: the session presented ends in the flush that opens its successor.
LEMMA RefreshRotateInv ==
    ASSUME SessionInv, NEW r \in Requests, RefreshRotate(r)
    PROVE  SessionInv'
  <1>1. PICK t \in Tokens, iat \in req[r].at .. now :
           /\ Fresh(t)
           /\ WriteSessions(r, {req[r].tok}, "rotated", {t}, NewRow(req[r].user, iat))
           /\ Opened(t, "refresh", req[r].tok, origin[req[r].tok].knew)
           /\ req' = [req EXCEPT ![r].pc = "commit", ![r].mint = iat]
    BY DEF RefreshRotate
  <1> DEFINE q == [req[r] EXCEPT !.pc = "commit", !.mint = iat]
             p == req[r].tok
             T == {p}
  <1>2. /\ req[r].pc = "rotate" /\ req[r].user \in Users
        /\ p \in Tokens /\ Exists(p) /\ iat \in Nat
    BY OwnRequest DEF RefreshRotate, RequestOK, Request
  <1>3. q \in Request /\ q.pc = "commit" /\ SameTarget(q, req[r])
    <2>1. req[r] \in Request /\ "commit" \in Pcs
      BY OwnRequest DEF Pcs
    <2>2. QED
      BY <1>2, <2>1 DEF Request, SameTarget
  <1>4. req' = [req EXCEPT ![r] = q]
    BY <1>1
  <1>5. UsersTyped'
    BY TypeParts DEF RefreshRotate, SessionInv, UsersTyped, userVars
  <1>6. NewRow(req[r].user, iat) \in SessionRow
    BY <1>2, ClockAssumption DEF NewRow, SessionRow
  <1>7. origin[p].knew \in Passwords \cup {None}
    BY <1>2, TypeParts DEF SessionInv, OriginTyped
  <1>8. UNCHANGED <<now, linkVars, access, mail, spends>>
    BY DEF RefreshRotate
  <1> HIDE DEF q
  <1>9. RequestOK(q)
    BY <1>2, <1>3, OwnRequest, InFlight, SameTargetOK
  <1>10. /\ T \in SUBSET Tokens /\ \A s \in T : sessW[s] # Absent
         /\ "rotated" \in Reasons
    BY <1>2 DEF SessionInv, SessRowsOK, Reasons
  <1>11. /\ WriteSessions(r, T, "rotated", {t}, NewRow(req[r].user, iat))
         /\ Opened(t, "refresh", p, origin[p].knew)
         /\ T = {p} /\ p \in Tokens \cup {None}
    BY <1>1, <1>2
  <1> HIDE DEF p, T
  <1>12. QED
    BY <1>1, <1>2, <1>3, <1>4, <1>5, <1>6, <1>7, <1>8, <1>9, <1>10, <1>11, OpenStepInv

\* logout: the one session presented ends.
LEMMA LogoutMarkInv ==
    ASSUME SessionInv, NEW r \in Requests, LogoutMark(r)
    PROVE  SessionInv'
  <1> DEFINE q == [req[r] EXCEPT !.pc = "commit"]
  <1>1. req[r].pc = "mark" /\ req[r].tok \in Tokens /\ Exists(req[r].tok)
    BY OwnRequest DEF LogoutMark, RequestOK
  <1>2. q \in Request /\ q.pc = "commit" /\ SameTarget(q, req[r])
    <2>1. req[r] \in Request /\ "commit" \in Pcs
      BY OwnRequest DEF Pcs
    <2>2. QED
      BY <2>1 DEF Request, SameTarget
  <1>3. sessW[req[r].tok] # Absent /\ "logout" \in Reasons
    BY <1>1 DEF SessionInv, SessRowsOK, Reasons
  <1>4. /\ WriteSessions(r, {req[r].tok}, "logout", {}, Absent)
        /\ req' = [req EXCEPT ![r] = q]
        /\ UNCHANGED <<now, userVars, linkVars, access, mail, history>>
    BY DEF LogoutMark, Goto
  <1> HIDE DEF q
  <1>5. RequestOK(q)
    BY <1>1, <1>2, OwnRequest, InFlight, SameTargetOK
  <1>6. QED
    BY <1>1, <1>2, <1>3, <1>4, <1>5, RevokeStepInv

\* revoke_all_for_user: choosing the rows writes nothing.
LEMMA RevokeScanInv ==
    ASSUME SessionInv, NEW r \in Requests, RevokeScan(r)
    PROVE  SessionInv'
  <1> DEFINE q == [req[r] EXCEPT !.pc = "revoke",
                                 !.scan = {t \in Tokens : Revocable(r, t)}]
  <1>1. req[r].pc = "scan"
    BY DEF RevokeScan
  <1>2. q \in Request /\ q.pc = "revoke" /\ SameTarget(q, req[r])
    <2>1. req[r] \in Request /\ "revoke" \in Pcs
      BY OwnRequest DEF Pcs
    <2>2. QED
      BY <2>1 DEF Request, SameTarget
  <1>3. req' = [req EXCEPT ![r] = q]
    BY DEF RevokeScan
  <1>4. UNCHANGED <<now, userVars, sessVars, linkVars, access, mail, history>>
    BY DEF RevokeScan
  <1> HIDE DEF q
  <1>5. RequestOK(q)
    BY <1>1, <1>2, OwnRequest, InFlight, SameTargetOK
  <1>6. QED
    BY <1>2, <1>3, <1>4, <1>5, MoveInv

\* revoke_all_for_user: the rows still live when locked end.
LEMMA RevokeAllInv ==
    ASSUME SessionInv, NEW r \in Requests, RevokeAll(r)
    PROVE  SessionInv'
  <1> DEFINE op == req[r].op
             pc == AfterRevoke(op)
             tick == IF op = "change" THEN now ELSE req[r].at
             q == [req[r] EXCEPT !.pc = pc, !.at = tick]
             T == {t \in req[r].scan : IsLive(sessW[t])}
             why == RevokeReason(op)
  <1>1. req[r].pc = "revoke"
    BY DEF RevokeAll
  <1>2. pc \in Pcs /\ tick \in Nat
    BY OwnRequest DEF AfterRevoke, Pcs, Request
  <1>3. req' = [req EXCEPT ![r] = q]
    BY DEF RevokeAll
  <1>4. T \in SUBSET Tokens /\ \A t \in T : sessW[t] # Absent
    BY OwnRequest DEF Request
  <1>5. why \in Reasons
    BY DEF RevokeReason, Reasons
  <1>6. /\ WriteSessions(r, T, why, {}, Absent)
        /\ UNCHANGED <<now, userVars, linkVars, access, mail, history>>
    BY DEF RevokeAll
  <1>7. q \in Request /\ q.pc = pc /\ SameTarget(q, req[r])
    <2> HIDE DEF pc, tick
    <2>1. req[r] \in Request
      BY OwnRequest
    <2>2. QED
      BY <1>2, <2>1 DEF Request, SameTarget
  <1>8. RequestOK(q)
    <2> HIDE DEF q
    <2>1. pc \in {"spend", "stamp", "commit"} /\ (pc = "spend" => op = "reset")
      BY DEF AfterRevoke
    <2>2. req[r].op # "request" /\ RequestOK(req[r])
      BY <1>1, OwnRequest, InFlight
    <2>3. QED
      BY <1>1, <1>7, <2>1, <2>2 DEF RequestOK, SameTarget
  <1> HIDE DEF q, T, why
  <1>9. QED
    BY <1>3, <1>4, <1>5, <1>6, <1>7, <1>8, RevokeStepInv

\* forgot-password: choosing the links to retire writes nothing.
LEMMA RetireScanInv ==
    ASSUME SessionInv, NEW r \in Requests, RetireScan(r)
    PROVE  SessionInv'
  <1> DEFINE S == {l \in Links : Outstanding(link[l]) /\ link[l].user = req[r].user}
             q == [req[r] EXCEPT !.pc = "insert", !.retire = S]
  <1>1. req[r] \in Request /\ RequestOK(req[r]) /\ req[r].pc = "retire"
    BY OwnRequest DEF RetireScan
  <1>2. q \in Request /\ q.pc = "insert" /\ SameTarget(q, req[r])
    <2>1. "insert" \in Pcs /\ S \subseteq Links
      BY DEF Pcs
    <2> HIDE DEF S
    <2>2. QED
      BY <1>1, <2>1 DEF Request, SameTarget
  <1>3. /\ req' = [req EXCEPT ![r] = q]
        /\ UNCHANGED <<now, userVars, sessVars, linkVars, access, mail, history>>
    BY DEF RetireScan
  <1> HIDE DEF q
  <1>4. RequestOK(q)
    BY <1>1, <1>2 DEF RequestOK, SameTarget
  <1>5. QED
    BY <1>2, <1>3, <1>4, MoveInv

\* forgot-password: older links are retired and the new one inserted.
LEMMA RequestInsertInv ==
    ASSUME SessionInv, NEW r \in Requests, RequestInsert(r)
    PROVE  SessionInv'
  <1>1. PICK n \in Links : /\ RetireAndInsert(r, n)
                           /\ req' = [req EXCEPT ![r].pc = "commit", ![r].link = n]
    BY DEF RequestInsert
  <1> DEFINE q == [req[r] EXCEPT !.pc = "commit", !.link = n]
  <1>2. req[r] \in Request /\ RequestOK(req[r]) /\ req[r].pc = "insert" /\ now \in Nat
    BY OwnRequest DEF RequestInsert
  <1>3. /\ q \in Request /\ q.pc = "commit" /\ q.link = n
        /\ q.op = req[r].op /\ q.user = req[r].user
    <2>1. "commit" \in Pcs
      BY DEF Pcs
    <2>2. QED
      BY <1>2, <2>1 DEF Request
  <1>4. req' = [req EXCEPT ![r] = q]
    BY <1>1
  <1> HIDE DEF q
  <1>5. RequestOK(q)
    BY <1>2, <1>3 DEF RequestOK
  <1>6. NewLink(r) \in LinkRow
    BY <1>2, ClockAssumption DEF NewLink, LinkRow, Request, RequestOK
  <1>7. LinksTyped
    BY TypeParts DEF SessionInv
  <1>8. /\ LinksTyped' /\ link' = link /\ LinkRowsOK'
    <2> DEFINE retired == {l \in req[r].retire : Outstanding(linkW[l])}
    <2>1. /\ linkW' = [l \in Links |->
                          CASE l = n -> NewLink(r)
                            [] l \in retired -> [linkW[l] EXCEPT !.retired = TRUE]
                            [] OTHER -> linkW[l]]
          /\ linkLock' = [l \in Links |-> IF l \in retired \cup {n} THEN r
                                                               ELSE linkLock[l]]
          /\ link' = link /\ link[n] = Absent
      BY <1>1 DEF RetireAndInsert
    <2>2. \A l \in retired : l \in Links /\ linkW[l] \in LinkRow
      BY <1>2, <1>7 DEF Outstanding, LinksTyped, Request
    <2>3. \A l \in retired : [linkW[l] EXCEPT !.retired = TRUE] \in LinkRow
      BY <2>2 DEF LinkRow
    <2> HIDE DEF retired
    <2>4. LinksTyped'
      BY <1>6, <1>7, <2>1, <2>3 DEF LinksTyped
    <2>5. LinkRowsOK'
      BY <1>6, <2>1, <2>3, NoneAssumption DEF LinkRowsOK, SessionInv
    <2>6. QED
      BY <2>1, <2>4, <2>5
  <1>9. UNCHANGED <<now, userVars, sessVars, access, mail, history>>
    BY DEF RequestInsert
  <1>10. QED
    BY <1>3, <1>4, <1>5, <1>8, <1>9, LinkStepInv

\* reset-password: the link, committed before the reset began, is used up.
LEMMA ResetSpendInv ==
    ASSUME SessionInv, NEW r \in Requests, ResetSpend(r)
    PROVE  SessionInv'
  <1> DEFINE q == [req[r] EXCEPT !.pc = "commit"]
             l == req[r].link
  <1>1. /\ req[r] \in Request /\ RequestOK(req[r]) /\ req[r].pc = "spend"
        /\ l \in Links /\ link[l] # Absent
    BY OwnRequest DEF ResetSpend, RequestOK
  <1>2. q \in Request /\ q.pc = "commit" /\ SameTarget(q, req[r])
    <2>1. "commit" \in Pcs
      BY DEF Pcs
    <2>2. QED
      BY <1>1, <2>1 DEF Request, SameTarget
  <1>3. req' = [req EXCEPT ![r] = q]
    BY DEF ResetSpend, Goto
  <1>4. UNCHANGED <<now, userVars, sessVars, link, access, mail, history>>
    BY DEF ResetSpend
  <1>5. linkW' = [linkW EXCEPT ![l].used = TRUE] /\ linkLock' = [linkLock EXCEPT ![l] = r]
    BY DEF ResetSpend
  <1> HIDE DEF q, l
  <1>6. RequestOK(q)
    <2>1. req[r].op = "reset"
      BY <1>1 DEF RequestOK
    <2>2. QED
      BY <1>1, <1>2, <2>1, SameTargetOK
  <1>7. LinksTyped' /\ LinkRowsOK'
    <2>1. LinksTyped /\ LinkRowsOK
      BY TypeParts DEF SessionInv
    <2>2. linkW[l] \in LinkRow
      BY <1>1, <2>1 DEF LinksTyped, LinkRowsOK
    <2>3. [linkW[l] EXCEPT !.used = TRUE] \in LinkRow
      BY <2>2 DEF LinkRow
    <2>4. QED
      BY <1>1, <1>4, <1>5, <2>1, <2>3, NoneAssumption DEF LinksTyped, LinkRowsOK
  <1>8. QED
    BY <1>2, <1>3, <1>4, <1>6, <1>7, LinkStepInv

\* A write to the users row of the request's own account, and a move.
LEMMA OwnUserInv ==
    ASSUME SessionInv, NEW r \in Requests, NEW pc \in Pcs, NEW row \in UserRow,
           req[r].pc \in {"hash", "renew", "stamp"},
           pc \in {"scan", "hashed", "stamped", "commit"},
           WriteUser(r, req[r].user, row), Goto(r, pc),
           UNCHANGED <<now, sessVars, linkVars, access, mail, history>>
    PROVE  SessionInv'
  <1> DEFINE q == [req[r] EXCEPT !.pc = pc]
  <1>1. /\ req[r] \in Request /\ RequestOK(req[r])
        /\ req[r].user \in Users /\ req[r].op # "request"
    BY OwnRequest, InFlight
  <1>2. q \in Request /\ q.pc = pc /\ SameTarget(q, req[r])
    BY <1>1 DEF Request, SameTarget
  <1>3. req' = [req EXCEPT ![r] = q]
    BY DEF Goto
  <1> HIDE DEF q
  <1>4. RequestOK(q)
    BY <1>1, <1>2, SameTargetOK
  <1>5. UsersTyped'
    BY <1>1, TypeParts, WriteUserTyped DEF SessionInv
  <1>6. QED
    BY <1>2, <1>3, <1>4, <1>5, UserStepInv

\* The password a handler was given, when it has one, and the row it changes.
LEMMA OwnUserRow ==
    ASSUME SessionInv, NEW r \in Requests, req[r].pc # "idle"
    PROVE  /\ req[r].user \in Users /\ req[r].pwd \in Passwords \cup {None}
           /\ req[r].at \in Nat /\ userW[req[r].user] \in UserRow
  <1>1. req[r].user \in Users
    BY OwnRequest DEF RequestOK
  <1>2. req[r].pwd \in Passwords \cup {None} /\ req[r].at \in Nat
    BY OwnRequest DEF Request
  <1>3. UsersTyped
    BY TypeParts DEF SessionInv
  <1>4. QED
    BY <1>1, <1>2, <1>3 DEF UsersTyped

\* reset-password: the new users row is a users row.
LEMMA ResetRenewInv ==
    ASSUME SessionInv, NEW r \in Requests, ResetRenew(r)
    PROVE  SessionInv'
  <1>1. req[r].pc = "renew" /\ "scan" \in Pcs
    BY DEF ResetRenew, Pcs
  <1>2. PICK s \in req[r].at .. now :
          WriteUser(r, req[r].user, RenewedRow(userW[req[r].user], req[r].pwd, s))
    BY DEF ResetRenew
  <1>3. s \in Nat /\ Second(s) \in Nat
    BY <1>1, OwnUserRow, OwnRequest, SecondIsNat
  <1>4. ASSUME NEW row \in UserRow, NEW pwd \in Passwords \cup {None}
        PROVE  RenewedRow(row, pwd, s) \in UserRow
    BY <1>3 DEF RenewedRow, UserRow, Statuses
  <1>5. RenewedRow(userW[req[r].user], req[r].pwd, s) \in UserRow
    BY <1>1, <1>4, OwnUserRow
  <1>6. /\ Goto(r, "scan")
        /\ UNCHANGED <<now, sessVars, linkVars, access, mail, history>>
    BY DEF ResetRenew
  <1>7. QED
    BY <1>1, <1>2, <1>5, <1>6, OwnUserInv

\* set_password: so is the one with the new hash.
LEMMA SetHashInv ==
    ASSUME SessionInv, NEW r \in Requests, SetHash(r)
    PROVE  SessionInv'
  <1> DEFINE row == [userW[req[r].user] EXCEPT !.hash = req[r].pwd]
             pc == IF req[r].op = "change" THEN "hashed" ELSE "commit"
  <1>1. req[r].pc = "hash" /\ pc \in Pcs /\ pc \in {"hashed", "commit"}
    BY DEF SetHash, Pcs
  <1>2. ASSUME NEW x \in UserRow, NEW pwd \in Passwords \cup {None}
        PROVE  [x EXCEPT !.hash = pwd] \in UserRow
    BY DEF UserRow
  <1>3. row \in UserRow
    BY <1>1, <1>2, OwnUserRow
  <1>4. /\ WriteUser(r, req[r].user, row) /\ Goto(r, pc)
        /\ UNCHANGED <<now, sessVars, linkVars, access, mail, history>>
    BY DEF SetHash
  <1> HIDE DEF row, pc
  <1>5. QED
    BY <1>1, <1>3, <1>4, OwnUserInv

\* change-password: and the one with the new cutoff.
LEMMA ChangeStampInv ==
    ASSUME SessionInv, NEW r \in Requests, ChangeStamp(r)
    PROVE  SessionInv'
  <1>1. req[r].pc = "stamp" /\ "stamped" \in Pcs
    BY DEF ChangeStamp, Pcs
  <1>2. PICK s \in req[r].at .. now :
          WriteUser(r, req[r].user, [userW[req[r].user] EXCEPT !.validFrom = Second(s)])
    BY DEF ChangeStamp
  <1>3. s \in Nat /\ Second(s) \in Nat
    BY <1>1, OwnUserRow, OwnRequest, SecondIsNat
  <1>4. ASSUME NEW x \in UserRow
        PROVE  [x EXCEPT !.validFrom = Second(s)] \in UserRow
    BY <1>3 DEF UserRow
  <1>5. [userW[req[r].user] EXCEPT !.validFrom = Second(s)] \in UserRow
    BY <1>1, <1>4, OwnUserRow
  <1>6. /\ Goto(r, "stamped")
        /\ UNCHANGED <<now, sessVars, linkVars, access, mail, history>>
    BY DEF ChangeStamp
  <1>7. QED
    BY <1>1, <1>2, <1>5, <1>6, OwnUserInv

-----------------------------------------------------------------------------
(* Then commits, rollbacks, and the steps of nobody's request.             *)

\* A commit of request r, whose record becomes q.
LEMMA PublishInv ==
    ASSUME SessionInv, NEW r \in Requests, NEW q \in Request, RequestOK(q),
           req' = [req EXCEPT ![r] = q], Publish(r), Unlock(r),
           OthersTyped', UNCHANGED origin
    PROVE  SessionInv'
  <1>1. OriginTyped /\ ReqTyped
    BY TypeParts DEF SessionInv
  <1>2. /\ UsersTyped' /\ SessionsTyped' /\ LinksTyped' /\ Grows
        /\ SessRowsOK' /\ LinkRowsOK' /\ ParentsOK'
    BY PublishOK
  <1>3. OriginTyped'
    BY <1>1 DEF OriginTyped
  <1>4. RequestOK(q)'
    BY <1>2 DEF RequestOK, Grows
  <1>5. ReqTyped' /\ RequestsOK'
    BY <1>1, <1>2, <1>4, ReqStep DEF SessionInv
  <1>6. QED
    BY <1>2, <1>3, <1>5, TypePartsNext DEF SessionInv

\* A handler that is done has nothing left to know.
LEMMA IdleOK == Idle \in Request /\ RequestOK(Idle)
  BY DEF Idle, Request, Pcs, RequestOK

\* change-password's first two commits.
LEMMA ChangeCommitInv ==
    ASSUME SessionInv, NEW r \in Requests, ChangeCommit(r)
    PROVE  SessionInv'
  <1>1. PICK pc \in {"scan", "issue"} :
          req[r].pc \in {"hashed", "stamped"} /\ Goto(r, pc)
    BY DEF ChangeCommit
  <1> DEFINE q == [req[r] EXCEPT !.pc = pc]
  <1>2. req[r] \in Request /\ RequestOK(req[r]) /\ req[r].op # "request"
    BY <1>1, OwnRequest, InFlight
  <1>3. q \in Request /\ q.pc = pc /\ SameTarget(q, req[r])
    BY <1>2 DEF Request, SameTarget, Pcs
  <1>4. req' = [req EXCEPT ![r] = q]
    BY <1>1 DEF Goto
  <1> HIDE DEF q
  <1>5. RequestOK(q)
    BY <1>1, <1>2, <1>3, SameTargetOK
  <1>6. Publish(r) /\ Unlock(r) /\ UNCHANGED <<now, access, mail, origin, spends>>
    BY DEF ChangeCommit, history
  <1>7. OthersTyped'
    BY <1>6, TypeParts DEF SessionInv, OthersTyped
  <1>8. QED
    BY <1>3, <1>4, <1>5, <1>6, <1>7, PublishInv

\* The last commit of a request and the answer it releases.
LEMMA CommitInv ==
    ASSUME SessionInv, NEW r \in Requests, Commit(r)
    PROVE  SessionInv'
  <1> DEFINE q == IF req[r].op = "request" THEN [req[r] EXCEPT !.pc = "send"]
                                            ELSE Idle
  <1>1. req[r] \in Request /\ RequestOK(req[r]) /\ req[r].pc = "commit"
    BY OwnRequest DEF Commit
  <1>2. q \in Request
    BY <1>1, IdleOK DEF Request, Pcs
  <1>3. RequestOK(q)
    <2>1. CASE req[r].op = "request"
      <3>1. /\ q.op = "request" /\ q.pc = "send" /\ q.user \in Users
            /\ q.link \in Links
        BY <1>1, <2>1 DEF Request, RequestOK
      <3> HIDE DEF q
      <3>2. QED
        BY <3>1 DEF RequestOK
    <2>2. CASE req[r].op # "request"
      BY <2>2, IdleOK
    <2>3. QED
      BY <2>1, <2>2
  <1>4. req' = [req EXCEPT ![r] = q]
    BY DEF Commit
  <1>5. Publish(r) /\ Unlock(r) /\ UNCHANGED origin
    BY DEF Commit
  <1>6. OthersTyped'
    <2>1. OthersTyped
      BY TypeParts DEF SessionInv
    <2>2. [user |-> req[r].user, at |-> req[r].mint] \in [user : Users, at : Nat]
      BY <1>1 DEF Request, RequestOK
    <2>3. access' \in SUBSET [user : Users, at : Nat]
      BY <2>1, <2>2 DEF Commit, OthersTyped
    <2>4. spends' \in [Links -> Nat]
      BY <1>1, <2>1 DEF Commit, OthersTyped, RequestOK
    <2>5. QED
      BY <2>1, <2>3, <2>4 DEF Commit, OthersTyped
  <1> HIDE DEF q
  <1>7. QED
    BY <1>2, <1>3, <1>4, <1>5, <1>6, PublishInv

\* A handler that dies or is the victim of a deadlock.
LEMMA RollbackInv ==
    ASSUME SessionInv, NEW r \in Requests, Rollback(r)
    PROVE  SessionInv'
  <1>1. ReqTyped /\ OthersTyped
    BY TypeParts DEF SessionInv
  <1>2. /\ UsersTyped' /\ SessionsTyped' /\ LinksTyped' /\ OriginTyped' /\ Grows
        /\ SessRowsOK' /\ LinkRowsOK' /\ ParentsOK'
    BY DiscardOK DEF Rollback
  <1>3. RequestOK(Idle)'
    BY DEF Idle, RequestOK
  <1>4. ReqTyped' /\ RequestsOK'
    BY <1>1, <1>2, <1>3, IdleOK, ReqStep DEF SessionInv, Rollback
  <1>5. OthersTyped'
    BY <1>1 DEF OthersTyped, Rollback
  <1>6. QED
    BY <1>2, <1>4, <1>5, TypePartsNext DEF SessionInv

\* forgot-password: the message goes out, the tables stay.
LEMMA RequestSendInv ==
    ASSUME SessionInv, NEW r \in Requests, RequestSend(r)
    PROVE  SessionInv'
  <1> USE DEF userVars, sessVars, linkVars, history
  <1>1. /\ UsersTyped /\ SessionsTyped /\ LinksTyped
        /\ OriginTyped /\ OthersTyped /\ ReqTyped
    BY TypeParts DEF SessionInv
  <1>2. /\ UsersTyped' /\ SessionsTyped' /\ LinksTyped' /\ OriginTyped'
    BY <1>1 DEF UsersTyped, SessionsTyped, LinksTyped, OriginTyped, RequestSend
  <1>3. req[r].link \in Links
    BY OwnRequest DEF RequestOK, RequestSend
  <1>4. OthersTyped'
    BY <1>1, <1>3 DEF OthersTyped, RequestSend
  <1>5. RequestOK(Idle)'
    BY DEF Idle, RequestOK
  <1>6. ReqTyped' /\ RequestsOK'
    BY <1>1, <1>5, IdleOK, ReqStep DEF SessionInv, Grows, RequestSend
  <1>7. SessRowsOK' /\ LinkRowsOK' /\ ParentsOK'
    BY DEF SessionInv, SessRowsOK, LinkRowsOK, ParentsOK, ParentOK, RequestSend
  <1>8. QED
    BY <1>2, <1>4, <1>6, <1>7, TypePartsNext DEF SessionInv

\* A step that touches no request, session or link.
LEMMA OutsideInv ==
    ASSUME SessionInv, UsersTyped', now' \in Nat,
           UNCHANGED <<sessVars, linkVars, req, access, mail, history>>
    PROVE  SessionInv'
  <1> USE DEF sessVars, linkVars, history
  <1>1. SessionsTyped /\ LinksTyped /\ OriginTyped /\ OthersTyped /\ ReqTyped
    BY TypeParts DEF SessionInv
  <1>2. SessionsTyped' /\ LinksTyped' /\ OriginTyped' /\ OthersTyped' /\ ReqTyped'
    BY <1>1 DEF SessionsTyped, LinksTyped, OriginTyped, OthersTyped, ReqTyped
  <1>3. RequestsOK' /\ SessRowsOK' /\ LinkRowsOK' /\ ParentsOK'
    BY DEF SessionInv, RequestsOK, RequestOK, SessRowsOK, LinkRowsOK,
           ParentsOK, ParentOK
  <1>4. QED
    BY <1>2, <1>3, TypePartsNext DEF SessionInv

\* The administrator's status route.
LEMMA SetStatusInv ==
    ASSUME SessionInv, NEW u \in Users, NEW s \in Statuses, SetStatus(u, s)
    PROVE  SessionInv'
  <1>1. UsersTyped /\ now \in Nat
    BY TypeParts DEF SessionInv, OthersTyped
  <1>2. UsersTyped'
    BY <1>1 DEF UsersTyped, SetStatus, UserRow
  <1>3. QED
    BY <1>1, <1>2, OutsideInv DEF SetStatus

\* The clock.
LEMMA TickInv ==
    ASSUME SessionInv, Tick
    PROVE  SessionInv'
  <1>1. UsersTyped /\ now \in Nat
    BY TypeParts DEF SessionInv, OthersTyped
  <1>2. UsersTyped' /\ now' \in Nat
    BY <1>1 DEF UsersTyped, Tick, userVars
  <1>3. QED
    BY <1>2, OutsideInv DEF Tick

\* Every step of the specification preserves the invariant.
LEMMA NextInv == SessionInv /\ [Next]_vars => SessionInv'
  <1> SUFFICES ASSUME SessionInv, [Next]_vars PROVE SessionInv'
    OBVIOUS
  <1>1. ASSUME NEW r \in Requests, Handle(r) PROVE SessionInv'
    BY <1>1, LoginTouchInv, RefreshRotateInv, LogoutMarkInv, RevokeScanInv,
       RevokeAllInv, RetireScanInv, RequestInsertInv, RequestSendInv,
       ResetRenewInv, ResetSpendInv, SetHashInv, ChangeCommitInv,
       ChangeStampInv, ChangeIssueInv, CommitInv DEF Handle
  <1>2. ASSUME NEW r \in Requests, DeadlockVictim(r) \/ Crash(r)
        PROVE  SessionInv'
    BY <1>2, RollbackInv DEF DeadlockVictim, Crash
  <1>3. CASE UNCHANGED vars
    <2>1. UsersTyped /\ now \in Nat
      BY TypeParts DEF SessionInv, OthersTyped
    <2>2. UsersTyped' /\ now' \in Nat
      BY <1>3, <2>1 DEF vars, UsersTyped, userVars
    <2>3. QED
      BY <1>3, <2>2, OutsideInv DEF vars
  <1>4. QED
    BY <1>1, <1>2, <1>3, ArriveInv, SetStatusInv, TickInv DEF Next

-----------------------------------------------------------------------------
(* The theorems.                                                           *)

\* SessionInv holds in every state of every instance.
THEOREM Invariant == Spec => []SessionInv
  <1>1. Init => SessionInv
    BY InitInv
  <1>2. SessionInv /\ [Next]_vars => SessionInv'
    BY NextInv
  <1>3. QED
    BY <1>1, <1>2, PTL DEF Spec

\* Every variable keeps its type: rows, locks, handlers, tokens and history.
THEOREM Typed == Spec => []TypeOK
  <1>1. SessionInv => TypeOK
    BY DEF SessionInv
  <1>2. QED
    BY <1>1, Invariant, PTL

\* A refresh that commits has ended the session it renewed, whatever runs
\* beside it.
THEOREM ParentsRetired == Spec => []RenewedParentIsRetired
  <1>1. SessionInv => RenewedParentIsRetired
    BY DEF SessionInv, ParentsOK, ParentOK, RenewedParentIsRetired
  <1>2. QED
    BY <1>1, Invariant, PTL

\* Only a commit changes the committed sessions.
LEMMA OnlyCommitsChangeSessions ==
    ASSUME SessionInv, [Next]_vars
    PROVE  sess' = sess \/ \E r \in Requests : Publish(r)
  <1>1. ASSUME NEW r \in Requests, Arrive(r) PROVE sess' = sess
    BY <1>1 DEF Arrive, LoginVerify, RefreshLoad, RefreshReuse, LogoutLoad,
       LogoutAllStart, RequestLoad, ResetLoad, ChangeLoad, Begin, sessVars
  <1>2. ASSUME NEW r \in Requests, Handle(r) PROVE sess' = sess \/ Publish(r)
    BY <1>2 DEF Handle, LoginTouch, RefreshRotate, LogoutMark, RevokeScan,
       RevokeAll, RetireScan, RequestInsert, RequestSend, ResetRenew, ResetSpend,
       SetHash, ChangeCommit, ChangeStamp, ChangeIssue, Commit, WriteSessions,
       sessVars
  <1>3. ASSUME NEW r \in Requests, DeadlockVictim(r) \/ Crash(r)
        PROVE  sess' = sess
    BY <1>3 DEF DeadlockVictim, Crash, Rollback, Discard
  <1>4. ASSUME NEW u \in Users, NEW s \in Statuses, SetStatus(u, s)
        PROVE  sess' = sess
    BY <1>4 DEF SetStatus, sessVars
  <1>5. CASE Tick \/ UNCHANGED vars
    BY <1>5 DEF Tick, vars, sessVars
  <1>6. QED
    BY <1>1, <1>2, <1>3, <1>4, <1>5 DEF Next

\* A session that has ended never becomes usable again.
THEOREM EndedIsFinal == Spec => RevocationIsFinal
  <1>1. SessionInv /\ [Next]_vars =>
          [\A t \in Tokens : Exists(t) /\ ~IsLive(sess[t]) =>
              Exists(t)' /\ ~IsLive(sess[t])']_vars
    <2> SUFFICES ASSUME SessionInv, [Next]_vars,
                        NEW t \in Tokens, Exists(t), ~IsLive(sess[t])
                 PROVE  Exists(t)' /\ ~IsLive(sess[t])'
      OBVIOUS
    <2>1. CASE sess' = sess
      BY <2>1
    <2>2. ASSUME NEW r \in Requests, Publish(r)
          PROVE  Exists(t)' /\ ~IsLive(sess[t])'
      BY <2>2 DEF Publish, SessionInv, SessRowsOK
    <2>3. QED
      BY <2>1, <2>2, OnlyCommitsChangeSessions
  <1>2. QED
    BY <1>1, Invariant, PTL DEF Spec, RevocationIsFinal
=============================================================================
