---------------------------- MODULE AuthSessions ----------------------------
(***************************************************************************)
(* Sign-in sessions of app/modules/auth: login, refresh, logout,           *)
(* logout-all, password reset links, change-password and the administrator *)
(* routes that write the same users row.                                   *)
(*                                                                         *)
(* Every HTTP request runs in its own database transaction (READ           *)
(* COMMITTED, the engine sets no isolation level).  A request is a chain   *)
(* of steps cut where another transaction can get in between: a read of    *)
(* committed rows, a write that must wait for the row locks it needs, a    *)
(* commit.  Each table has three variables: the committed rows, the newest *)
(* version of each row (its writer's, when it is locked), and the row's    *)
(* lock.  A row that is not locked has its committed version as newest.    *)
(*                                                                         *)
(* A definition under "Mutant:" is no part of the specification: it is the *)
(* next definition with a bug in it, which a property must notice.         *)
(***************************************************************************)
EXTENDS Naturals, FiniteSets

CONSTANTS
    Users,            \* accounts
    Requests,         \* request handlers that can be in flight at once
    Tokens,           \* refresh tokens, each the key of one refresh_tokens row
    Links,            \* reset tokens, each the key of one reset-token row
    Passwords,        \* password values
    None,             \* no user / token / link / password / lock owner
    Absent,           \* a row that does not exist
    Ops,              \* the operations this instance lets clients call
    Crashes,          \* whether a handler may die before it finishes
    MaxClock,         \* bound on the clock
    TicksPerSecond,   \* clock ticks in one second of a JWT's iat
    AccessTTL,        \* access_token_expire_minutes, in ticks
    RefreshTTL,       \* refresh_token_expire_days, in ticks
    ResetTTL,         \* PASSWORD_RESET_TTL, in ticks
    Cooldown,         \* PASSWORD_RESET_COOLDOWN, in ticks
    Window,           \* the hour of PASSWORD_RESET_MAX_PER_HOUR, in ticks
    MaxPerWindow      \* PASSWORD_RESET_MAX_PER_HOUR

Live == "live"
Reasons == {"logout", "logout_all", "rotated", "reuse_detected",
            "password_changed"}
Statuses == {"active", "pending", "blocked"}

UserRow == [hash : Passwords \cup {None}, validFrom : Nat,
            status : Statuses, verified : BOOLEAN]
SessionRow == [user : Users, expires : Nat, revoked : Reasons \cup {Live}]
LinkRow == [user : Users, created : Nat, expires : Nat,
            used : BOOLEAN, retired : BOOLEAN]

AllOps == {"login", "refresh", "reuse", "logout", "logout_all", "reset",
           "change", "set_password", "set_status", "request"}
Pcs == {"idle", "touch", "rotate", "mark", "scan", "revoke", "hash", "hashed",
        "renew", "stamp", "stamped", "spend", "retire", "insert", "issue",
        "commit", "send"}

Request == [op : AllOps \cup {"none"}, pc : Pcs, user : Users \cup {None},
            tok : Tokens \cup {None}, link : Links \cup {None},
            pwd : Passwords \cup {None}, at : Nat, mint : Nat,
            scan : SUBSET Tokens, retire : SUBSET Links]

ASSUME ClockAssumption ==
    /\ MaxClock \in Nat /\ TicksPerSecond \in Nat \ {0}
    /\ {AccessTTL, RefreshTTL, ResetTTL, Cooldown, Window, MaxPerWindow} \subseteq Nat
ASSUME NoneAssumption ==
    /\ None \notin Users \cup Requests \cup Tokens \cup Links \cup Passwords
    /\ Absent \notin SessionRow \cup LinkRow
ASSUME OpsAssumption == Ops \subseteq AllOps /\ Crashes \in BOOLEAN

VARIABLES
    now,                          \* utc_now(), in ticks
    user, userW, userLock,        \* users: committed, newest, lock owner
    sess, sessW, sessLock,        \* refresh_tokens
    link, linkW, linkLock,        \* password_reset_tokens
    req,                          \* what each request handler is doing
    access,                       \* access tokens handed to clients
    mail,                         \* reset links delivered to their owners
    origin,                       \* history: how each session was opened
    spends                        \* history: resets committed per link

userVars == <<user, userW, userLock>>
sessVars == <<sess, sessW, sessLock>>
linkVars == <<link, linkW, linkLock>>
history == <<origin, spends>>
vars == <<now, userVars, sessVars, linkVars, req, access, mail, history>>

-----------------------------------------------------------------------------
(* What the code asks of one row or one token.                             *)

CanSignIn(row) == row.status \in {"active", "pending"}
Exists(t) == sess[t] # Absent
IsLive(row) == row # Absent /\ row.revoked = Live
Second(tick) == tick \div TicksPerSecond

\* AuthService.authenticate: decode, load the user, both guards.
Accepted(a) ==
    /\ now < a.at + AccessTTL
    /\ CanSignIn(user[a.user])
    /\ Second(a.at) >= user[a.user].validFrom

\* PasswordResetService._resolve: the link is VALID.
Outstanding(row) == row # Absent /\ ~row.used /\ ~row.retired
Usable(row) == Outstanding(row) /\ now < row.expires

\* PasswordResetService._within_limits.
LinksOf(u) == {l \in Links : link[l] # Absent /\ link[l].user = u}
Recent(u) == Cardinality({l \in LinksOf(u) : link[l].created + Window >= now})
Cooled(u) == \A l \in LinksOf(u) : now >= link[l].created + Cooldown

\* Mutant: one link too many in the window.
WithinLimitsPlusOne(u) == Cooled(u) /\ Recent(u) <= MaxPerWindow

WithinLimits(u) == Cooled(u) /\ Recent(u) < MaxPerWindow

-----------------------------------------------------------------------------
(* Transactions.                                                           *)

UserFree(r, u) == userLock[u] \in {None, r}
SessFree(r, t) == sessLock[t] \in {None, r}
LinkFree(r, l) == linkLock[l] \in {None, r}

\* A SELECT sees committed rows and the transaction's own writes.
Sees(r, t) == IF sessLock[t] = r THEN sessW[t] ELSE sess[t]

WriteUser(r, u, row) ==
    /\ UserFree(r, u)
    /\ userW' = [userW EXCEPT ![u] = row]
    /\ userLock' = [userLock EXCEPT ![u] = r]
    /\ UNCHANGED user

\* UPDATE refresh_tokens SET revoked_at, revoked_reason on the rows in T, and
\* INSERT the rows in N: one flush.
WriteSessions(r, T, why, N, row) ==
    /\ \A t \in T : SessFree(r, t)
    /\ sessW' = [t \in Tokens |->
                    CASE t \in N -> row
                      [] t \in T -> [sessW[t] EXCEPT !.revoked = why]
                      [] OTHER   -> sessW[t]]
    /\ sessLock' = [t \in Tokens |-> IF t \in T \cup N THEN r ELSE sessLock[t]]
    /\ UNCHANGED sess

Publish(r) ==
    /\ user' = [u \in Users |-> IF userLock[u] = r THEN userW[u] ELSE user[u]]
    /\ sess' = [t \in Tokens |-> IF sessLock[t] = r THEN sessW[t] ELSE sess[t]]
    /\ link' = [l \in Links |-> IF linkLock[l] = r THEN linkW[l] ELSE link[l]]
    /\ UNCHANGED <<userW, sessW, linkW>>

Discard(r) ==
    /\ userW' = [u \in Users |-> IF userLock[u] = r THEN user[u] ELSE userW[u]]
    /\ sessW' = [t \in Tokens |-> IF sessLock[t] = r THEN sess[t] ELSE sessW[t]]
    /\ linkW' = [l \in Links |-> IF linkLock[l] = r THEN link[l] ELSE linkW[l]]
    /\ UNCHANGED <<user, sess, link>>

Unlock(r) ==
    /\ userLock' = [u \in Users |-> IF userLock[u] = r THEN None ELSE userLock[u]]
    /\ sessLock' = [t \in Tokens |-> IF sessLock[t] = r THEN None ELSE sessLock[t]]
    /\ linkLock' = [l \in Links |-> IF linkLock[l] = r THEN None ELSE linkLock[l]]

-----------------------------------------------------------------------------
(* Request bookkeeping.                                                    *)

Idle == [op |-> "none", pc |-> "idle", user |-> None, tok |-> None,
         link |-> None, pwd |-> None, at |-> 0, mint |-> 0,
         scan |-> {}, retire |-> {}]

At(r, pc) == req[r].pc = pc
Unopened == [via |-> "none", parent |-> None, knew |-> None]

Begin(r, op, pc, u, t, l, p) ==
    /\ op \in Ops \cup {"reuse"}
    /\ At(r, "idle")
    /\ req' = [req EXCEPT ![r] =
                  [Idle EXCEPT !.op = op, !.pc = pc, !.user = u, !.tok = t,
                               !.link = l, !.pwd = p, !.at = now]]
    /\ UNCHANGED <<now, userVars, sessVars, linkVars, access, mail, history>>

Goto(r, pc) == req' = [req EXCEPT ![r].pc = pc]

\* Mutant: a new token overwrites the row of an old one.
FreshOverwrites(t) == sessLock[t] = None

\* _issue_tokens: the next unused refresh token becomes a row; the pair is
\* minted at tick `iat`, before the flush that may wait for a lock.
Fresh(t) == sess[t] = Absent /\ sessLock[t] = None
NewRow(u, iat) == [user |-> u, expires |-> iat + RefreshTTL, revoked |-> Live]
Opened(t, via, parent, knew) ==
    origin' = [origin EXCEPT ![t] = [via |-> via, parent |-> parent, knew |-> knew]]

\* Bounds: a request that will open a session, or issue a link, starts only
\* while the instance has a refresh token, or a link, left for it.
WillOpen(q) ==
    \/ req[q].pc \in {"touch", "rotate"}
    \/ req[q].op = "change" /\ req[q].pc # "commit"
TokenLeft ==
    Cardinality({q \in Requests : WillOpen(q)}) < Cardinality({t \in Tokens : Fresh(t)})
LinkLeft ==
    Cardinality({q \in Requests : req[q].pc \in {"retire", "insert"}})
        < Cardinality({l \in Links : link[l] = Absent /\ linkLock[l] = None})

-----------------------------------------------------------------------------
(* POST /auth/login                                                        *)

LoginVerify(r, u, p) ==
    /\ TokenLeft
    /\ user[u].hash = p
    /\ CanSignIn(user[u])
    /\ Begin(r, "login", "touch", u, None, None, p)

\* Mutant: a sign-in that does not write the users row.
LoginSkipsTouch(r) ==
    /\ At(r, "touch")
    /\ \E t \in Tokens :
         /\ Fresh(t)
         /\ WriteSessions(r, {}, Live, {t}, NewRow(req[r].user, now))
         /\ Opened(t, "login", None, req[r].pwd)
    /\ req' = [req EXCEPT ![r].pc = "commit", ![r].mint = now]
    /\ UNCHANGED <<now, userVars, linkVars, access, mail, spends>>

\* users.update(last_login_at) takes the users row lock; then the session row.
LoginTouch(r) ==
    /\ At(r, "touch")
    /\ WriteUser(r, req[r].user, userW[req[r].user])
    /\ \E t \in Tokens :
         /\ Fresh(t)
         /\ WriteSessions(r, {}, Live, {t}, NewRow(req[r].user, now))
         /\ Opened(t, "login", None, req[r].pwd)
    /\ req' = [req EXCEPT ![r].pc = "commit", ![r].mint = now]
    /\ UNCHANGED <<now, linkVars, access, mail, spends>>

-----------------------------------------------------------------------------
(* POST /auth/refresh                                                      *)

RefreshLoad(r, t) ==
    /\ TokenLeft
    /\ Exists(t) /\ sess[t].revoked = Live /\ now < sess[t].expires
    /\ CanSignIn(user[sess[t].user])
    /\ Begin(r, "refresh", "rotate", sess[t].user, t, None, None)

\* A rotated token presented again: every session of the account ends.
RefreshReuse(r, t) ==
    /\ "refresh" \in Ops
    /\ Exists(t) /\ sess[t].revoked = "rotated" /\ now < sess[t].expires
    /\ Begin(r, "reuse", "scan", sess[t].user, t, None, None)

\* Mutant: the pair is issued and the old row left as it was.
RotateForgetsParent(r) ==
    /\ At(r, "rotate")
    /\ \E t \in Tokens :
         /\ Fresh(t)
         /\ WriteSessions(r, {}, Live, {t}, NewRow(req[r].user, now))
         /\ Opened(t, "refresh", req[r].tok, origin[req[r].tok].knew)
         /\ req' = [req EXCEPT ![r].pc = "commit", ![r].mint = now]
    /\ UNCHANGED <<now, userVars, linkVars, access, mail, spends>>

\* The row loaded as live is retired by an UPDATE keyed on its id alone.
RefreshRotate(r) ==
    /\ At(r, "rotate")
    /\ \E t \in Tokens, iat \in req[r].at .. now :
         /\ Fresh(t)
         /\ WriteSessions(r, {req[r].tok}, "rotated", {t}, NewRow(req[r].user, iat))
         /\ Opened(t, "refresh", req[r].tok, origin[req[r].tok].knew)
         /\ req' = [req EXCEPT ![r].pc = "commit", ![r].mint = iat]
    /\ UNCHANGED <<now, userVars, linkVars, access, mail, spends>>

-----------------------------------------------------------------------------
(* POST /auth/logout and /auth/logout-all                                  *)

SignedIn(u) == \E a \in access : a.user = u /\ Accepted(a)

LogoutLoad(r, t) ==
    /\ Exists(t) /\ sess[t].revoked = Live
    /\ SignedIn(sess[t].user)
    /\ Begin(r, "logout", "mark", sess[t].user, t, None, None)

LogoutMark(r) ==
    /\ At(r, "mark")
    /\ WriteSessions(r, {req[r].tok}, "logout", {}, Absent)
    /\ Goto(r, "commit")
    /\ UNCHANGED <<now, userVars, linkVars, access, mail, history>>

LogoutAllStart(r, u) ==
    /\ SignedIn(u)
    /\ Begin(r, "logout_all", "scan", u, None, None, None)

-----------------------------------------------------------------------------
(* RefreshTokenRepository.revoke_all_for_user, in two steps: the statement *)
(* fixes which committed rows match, then locks each, waiting for writers, *)
(* and skips those no longer live in their newest version.                 *)

RevokeReason(op) ==
    CASE op = "reuse"      -> "reuse_detected"
      [] op = "logout_all" -> "logout_all"
      [] OTHER             -> "password_changed"

AfterRevoke(op) ==
    CASE op = "reset"  -> "spend"
      [] op = "change" -> "stamp"
      [] OTHER         -> "commit"

\* Mutant: the WHERE clause asks for revoked rows.
RevocableReversed(r, t) ==
    Exists(t) /\ ~IsLive(Sees(r, t)) /\ sess[t].user = req[r].user

Revocable(r, t) == IsLive(Sees(r, t)) /\ Sees(r, t).user = req[r].user

RevokeScan(r) ==
    /\ At(r, "scan")
    /\ req' = [req EXCEPT ![r].pc = "revoke",
                          ![r].scan = {t \in Tokens : Revocable(r, t)}]
    /\ UNCHANGED <<now, userVars, sessVars, linkVars, access, mail, history>>

\* Mutant: rows another request holds are skipped, not waited for.
RevokeAllSkipsLocked(r) ==
    /\ At(r, "revoke")
    /\ WriteSessions(r, {t \in req[r].scan : SessFree(r, t) /\ IsLive(sessW[t])},
                     RevokeReason(req[r].op), {}, Absent)
    /\ Goto(r, AfterRevoke(req[r].op))
    /\ UNCHANGED <<now, userVars, linkVars, access, mail, history>>

RevokeAll(r) ==
    /\ At(r, "revoke")
    /\ \A t \in req[r].scan : SessFree(r, t)
    /\ WriteSessions(r, {t \in req[r].scan : IsLive(sessW[t])},
                     RevokeReason(req[r].op), {}, Absent)
    /\ req' = [req EXCEPT ![r].pc = AfterRevoke(req[r].op),
                          ![r].at = IF req[r].op = "change" THEN now ELSE @]
    /\ UNCHANGED <<now, userVars, linkVars, access, mail, history>>

-----------------------------------------------------------------------------
(* POST /auth/forgot-password                                              *)

RequestLoad(r, u) ==
    /\ LinkLeft
    /\ CanSignIn(user[u])
    /\ WithinLimits(u)
    /\ Begin(r, "request", "retire", u, None, None, None)

\* Mutant: older links are left alone.
RetireNothing(r) ==
    /\ At(r, "retire")
    /\ Goto(r, "insert")
    /\ UNCHANGED <<now, userVars, sessVars, linkVars, access, mail, history>>

\* invalidate_outstanding fixes the unused links it will retire ...
RetireScan(r) ==
    /\ At(r, "retire")
    /\ req' = [req EXCEPT ![r].pc = "insert",
                          ![r].retire = {l \in Links : Outstanding(link[l])
                                           /\ link[l].user = req[r].user}]
    /\ UNCHANGED <<now, userVars, sessVars, linkVars, access, mail, history>>

\* ... and retires them once it holds their locks; the new link follows.  Its
\* created_at is the transaction's start, its expiry counts from the clock.
NewLink(r) == [user |-> req[r].user, created |-> req[r].at,
               expires |-> now + ResetTTL, used |-> FALSE, retired |-> FALSE]

RetireAndInsert(r, n) ==
    LET retired == {l \in req[r].retire : Outstanding(linkW[l])} IN
    /\ \A l \in req[r].retire : LinkFree(r, l)
    /\ link[n] = Absent /\ linkLock[n] = None
    /\ linkW' = [l \in Links |->
                    CASE l = n -> NewLink(r)
                      [] l \in retired -> [linkW[l] EXCEPT !.retired = TRUE]
                      [] OTHER -> linkW[l]]
    /\ linkLock' = [l \in Links |-> IF l \in retired \cup {n} THEN r ELSE linkLock[l]]
    /\ UNCHANGED link

\* Mutant: the message goes out before the commit.
InsertThenSend(r) ==
    /\ At(r, "insert")
    /\ \E n \in Links : /\ RetireAndInsert(r, n)
                        /\ req' = [req EXCEPT ![r].pc = "send", ![r].link = n]
    /\ UNCHANGED <<now, userVars, sessVars, access, mail, history>>

RequestInsert(r) ==
    /\ At(r, "insert")
    /\ \E n \in Links : /\ RetireAndInsert(r, n)
                        /\ req' = [req EXCEPT ![r].pc = "commit", ![r].link = n]
    /\ UNCHANGED <<now, userVars, sessVars, access, mail, history>>

-----------------------------------------------------------------------------
(* POST /auth/reset-password                                               *)

ResetLoad(r, l, p) ==
    /\ l \in mail /\ Usable(link[l])
    /\ CanSignIn(user[link[l].user])
    /\ Begin(r, "reset", "renew", link[l].user, None, l, p)

\* Mutants: a reset that leaves the cutoff as it was, and one that makes every
\* account it touches active.
RenewedForgetsCutoff(row, pwd, s) ==
    [row EXCEPT !.hash = pwd, !.verified = TRUE,
                !.status = IF row.verified THEN @ ELSE "active"]
RenewedAlwaysActive(row, pwd, s) ==
    [hash |-> pwd, validFrom |-> Second(s), verified |-> TRUE, status |-> "active"]

\* The hash, the cutoff and _mark_contact_verified, which writes the same row.
RenewedRow(row, pwd, s) ==
    [hash |-> pwd, validFrom |-> Second(s), verified |-> TRUE,
     status |-> IF row.status = "pending" /\ ~row.verified THEN "active"
                ELSE row.status]

\* The new hash and the cutoff are computed before the UPDATE waits for the
\* users row.
ResetRenew(r) ==
    LET u == req[r].user IN
    /\ At(r, "renew")
    /\ \E s \in req[r].at .. now :
         WriteUser(r, u, RenewedRow(userW[u], req[r].pwd, s))
    /\ Goto(r, "scan")
    /\ UNCHANGED <<now, sessVars, linkVars, access, mail, history>>

\* Mutant: the link is not marked used.
SpendForgets(r) ==
    /\ At(r, "spend")
    /\ Goto(r, "commit")
    /\ UNCHANGED <<now, userVars, sessVars, linkVars, access, mail, history>>

\* stored.spend(), flushed with revoke_all_for_user.
ResetSpend(r) ==
    /\ At(r, "spend")
    /\ LinkFree(r, req[r].link)
    /\ linkW' = [linkW EXCEPT ![req[r].link].used = TRUE]
    /\ linkLock' = [linkLock EXCEPT ![req[r].link] = r]
    /\ Goto(r, "commit")
    /\ UNCHANGED <<now, userVars, sessVars, link, access, mail, history>>

-----------------------------------------------------------------------------
(* POST /auth/change-password (op "change") and UserService.set_password   *)
(* on its own (op "set_password"): the administrator's password route, and *)
(* change-password with sign_out_other_sessions false.                     *)

ChangeLoad(r, u, cur, p) ==
    /\ user[u].hash \in {None, cur}
    /\ \/ TokenLeft /\ SignedIn(u) /\ Begin(r, "change", "hash", u, None, None, p)
       \/ Begin(r, "set_password", "hash", u, None, None, p)

SetHash(r) ==
    /\ At(r, "hash")
    /\ WriteUser(r, req[r].user, [userW[req[r].user] EXCEPT !.hash = req[r].pwd])
    /\ Goto(r, IF req[r].op = "change" THEN "hashed" ELSE "commit")
    /\ UNCHANGED <<now, sessVars, linkVars, access, mail, history>>

\* change-password commits twice on the way - the hash, then the revocations
\* with the cutoff - and issues the replacement pair in a third transaction.
ChangeCommit(r) ==
    /\ \/ At(r, "hashed") /\ Goto(r, "scan")
       \/ At(r, "stamped") /\ Goto(r, "issue")
    /\ Publish(r) /\ Unlock(r)
    /\ UNCHANGED <<now, access, mail, history>>

\* Mutant: tokens_valid_from is not written.
ChangeForgetsStamp(r) ==
    /\ At(r, "stamp")
    /\ Goto(r, "stamped")
    /\ UNCHANGED <<now, userVars, sessVars, linkVars, access, mail, history>>

ChangeStamp(r) ==
    /\ At(r, "stamp")
    /\ \E s \in req[r].at .. now :
         WriteUser(r, req[r].user,
                   [userW[req[r].user] EXCEPT !.validFrom = Second(s)])
    /\ Goto(r, "stamped")
    /\ UNCHANGED <<now, sessVars, linkVars, access, mail, history>>

ChangeIssue(r) ==
    /\ At(r, "issue")
    /\ \E t \in Tokens :
         /\ Fresh(t)
         /\ WriteSessions(r, {}, Live, {t}, NewRow(req[r].user, now))
         /\ Opened(t, "change", None, req[r].pwd)
    /\ req' = [req EXCEPT ![r].pc = "commit", ![r].mint = now]
    /\ UNCHANGED <<now, userVars, linkVars, access, mail, spends>>

-----------------------------------------------------------------------------
(* The final commit and the response it releases; requests that fail; the  *)
(* clock; the administrator's status route.                                *)

Commit(r) ==
    /\ At(r, "commit")
    /\ Publish(r) /\ Unlock(r)
    /\ access' = IF req[r].op \in {"login", "refresh", "change"}
                   THEN access \cup {[user |-> req[r].user, at |-> req[r].mint]}
                   ELSE access
    /\ spends' = IF req[r].op = "reset"
                   THEN [spends EXCEPT ![req[r].link] = @ + 1] ELSE spends
    /\ req' = [req EXCEPT ![r] = IF @.op = "request" THEN [@ EXCEPT !.pc = "send"]
                                                      ELSE Idle]
    /\ UNCHANGED <<now, mail, origin>>

\* sender.send, after the link's row is committed.
RequestSend(r) ==
    /\ At(r, "send")
    /\ mail' = mail \cup {req[r].link}
    /\ req' = [req EXCEPT ![r] = Idle]
    /\ UNCHANGED <<now, userVars, sessVars, linkVars, access, history>>

\* get_db rolls the transaction back and the request is over.
Rollback(r) ==
    /\ Discard(r) /\ Unlock(r)
    /\ req' = [req EXCEPT ![r] = Idle]
    /\ origin' = [t \in Tokens |-> IF sessLock[t] = r /\ sess[t] = Absent
                                     THEN Unopened ELSE origin[t]]
    /\ UNCHANGED <<now, access, mail, spends>>

Waiting(r, q) ==
    LET rows == req[r] IN
    /\ r # q
    /\ \/ rows.pc \in {"touch", "hash", "renew", "stamp"} /\ userLock[rows.user] = q
       \/ rows.pc \in {"rotate", "mark"} /\ sessLock[rows.tok] = q
       \/ rows.pc = "revoke" /\ \E t \in rows.scan : sessLock[t] = q
       \/ rows.pc = "spend" /\ linkLock[rows.link] = q
       \/ rows.pc = "insert" /\ \E l \in rows.retire : linkLock[l] = q

\* Mutant: no deadlock detector.
NoVictim(r) == r = None /\ UNCHANGED vars

\* PostgreSQL cancels one of two transactions that wait for each other.
DeadlockVictim(r) ==
    /\ \E q \in Requests : Waiting(r, q) /\ Waiting(q, r)
    /\ Rollback(r)

Crash(r) ==
    /\ Crashes
    /\ ~At(r, "idle")
    /\ Rollback(r)

Tick ==
    /\ now < MaxClock
    /\ now' = now + 1
    /\ UNCHANGED <<userVars, sessVars, linkVars, req, access, mail, history>>

\* PATCH /users/{id}: one read and one UPDATE of the status column.
SetStatus(u, s) ==
    /\ "set_status" \in Ops
    /\ userLock[u] = None
    /\ user' = [user EXCEPT ![u].status = s]
    /\ userW' = [userW EXCEPT ![u].status = s]
    /\ UNCHANGED <<now, userLock, sessVars, linkVars, req, access, mail, history>>

-----------------------------------------------------------------------------
Init ==
    /\ now = 0
    /\ user \in [Users -> {[hash |-> h, validFrom |-> 0, status |-> s,
                            verified |-> s = "active"] :
                             h \in Passwords \cup {None},
                             s \in {"active", "pending"}}]
    /\ userW = user /\ userLock = [u \in Users |-> None]
    /\ sess = [t \in Tokens |-> Absent] /\ sessW = sess
    /\ sessLock = [t \in Tokens |-> None]
    /\ link = [l \in Links |-> Absent] /\ linkW = link
    /\ linkLock = [l \in Links |-> None]
    /\ req = [r \in Requests |-> Idle]
    /\ access = {} /\ mail = {}
    /\ origin = [t \in Tokens |-> Unopened]
    /\ spends = [l \in Links |-> 0]

\* A client calls an endpoint.
Arrive(r) ==
    \/ \E u \in Users, p \in Passwords : LoginVerify(r, u, p)
    \/ \E t \in Tokens : RefreshLoad(r, t)
    \/ \E t \in Tokens : RefreshReuse(r, t)
    \/ \E t \in Tokens : LogoutLoad(r, t)
    \/ \E u \in Users : LogoutAllStart(r, u)
    \/ \E u \in Users : RequestLoad(r, u)
    \/ \E l \in Links, p \in Passwords : ResetLoad(r, l, p)
    \/ \E u \in Users, cur, p \in Passwords : ChangeLoad(r, u, cur, p)

\* The handler of a request in flight goes on.
Handle(r) ==
    \/ LoginTouch(r) \/ RefreshRotate(r) \/ LogoutMark(r)
    \/ RevokeScan(r) \/ RevokeAll(r)
    \/ RetireScan(r) \/ RequestInsert(r) \/ RequestSend(r)
    \/ ResetRenew(r) \/ ResetSpend(r)
    \/ SetHash(r) \/ ChangeCommit(r) \/ ChangeStamp(r) \/ ChangeIssue(r)
    \/ Commit(r)

Next ==
    \/ \E r \in Requests : Arrive(r) \/ Handle(r) \/ DeadlockVictim(r) \/ Crash(r)
    \/ \E u \in Users, s \in Statuses : SetStatus(u, s)
    \/ Tick

Spec == Init /\ [][Next]_vars

\* The event loop and the database keep serving a handler that can go on, row
\* locks are granted in queue order (hence strong fairness), and the deadlock
\* detector runs.  Arrivals, crashes, the clock and administrators are free.
Fairness ==
    \A r \in Requests : SF_vars(Handle(r)) /\ WF_vars(DeadlockVictim(r))

FairSpec == Spec /\ Fairness
=============================================================================
