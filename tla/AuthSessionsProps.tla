------------------------- MODULE AuthSessionsProps -------------------------
(***************************************************************************)
(* What the session handlers of AuthSessions promise.  The first part      *)
(* holds under every interleaving of requests and crashes; the second only *)
(* when an account's requests come one at a time; the third states what    *)
(* the repository's documentation says and the code does not keep.         *)
(***************************************************************************)
EXTENDS AuthSessions

\* Every variable holds a value of its type.
TypeOK ==
    /\ now \in Nat
    /\ user \in [Users -> UserRow] /\ userW \in [Users -> UserRow]
    /\ userLock \in [Users -> Requests \cup {None}]
    /\ sess \in [Tokens -> SessionRow \cup {Absent}]
    /\ sessW \in [Tokens -> SessionRow \cup {Absent}]
    /\ sessLock \in [Tokens -> Requests \cup {None}]
    /\ link \in [Links -> LinkRow \cup {Absent}]
    /\ linkW \in [Links -> LinkRow \cup {Absent}]
    /\ linkLock \in [Links -> Requests \cup {None}]
    /\ req \in [Requests -> Request]
    /\ access \in SUBSET [user : Users, at : Nat]
    /\ mail \in SUBSET Links
    /\ origin \in [Tokens -> [via : {"none", "login", "refresh", "change"},
                              parent : Tokens \cup {None},
                              knew : Passwords \cup {None}]]
    /\ spends \in [Links -> Nat]

-----------------------------------------------------------------------------
(* The inductive invariant behind RevocationIsFinal, RenewedParentIsRetired *)
(* and the typing of rows.                                                  *)

\* A handler past its first read knows its account, and the rows it will
\* write by key are committed.
RequestOK(q) ==
    /\ q.pc # "idle" => q.user \in Users
    /\ q.pc \in {"rotate", "mark"} => q.tok \in Tokens /\ Exists(q.tok)
    /\ q.op = "reset" => q.link \in Links /\ link[q.link] # Absent
    /\ q.pc = "spend" => q.op = "reset"
    /\ q.pc \in {"retire", "insert", "send"} => q.op = "request"
    /\ q.op = "request" => /\ q.pc \in {"retire", "insert", "commit", "send"}
                           /\ q.pc \in {"commit", "send"} => q.link \in Links
RequestsOK == \A r \in Requests : RequestOK(req[r])

\* No transaction holds a version of a row that takes back what is committed.
SessRowsOK ==
    \A t \in Tokens : Exists(t) =>
        sessW[t] # Absent /\ (~IsLive(sess[t]) => ~IsLive(sessW[t]))
LinkRowsOK == \A l \in Links : link[l] # Absent => linkW[l] # Absent

\* A renewed session has ended if its successor is committed; if not, the
\* successor's transaction holds the row of both and will end it.
ParentOK(t) ==
    LET p == origin[t].parent IN
    p # None => /\ Exists(p)
                /\ Exists(t) => ~IsLive(sess[p])
                /\ ~Exists(t) => /\ sessLock[t] # None /\ sessW[t] # Absent
                                 /\ sessLock[p] = sessLock[t]
                                 /\ ~IsLive(sessW[p])
ParentsOK == \A t \in Tokens : ParentOK(t)

SessionInv == TypeOK /\ RequestsOK /\ SessRowsOK /\ LinkRowsOK /\ ParentsOK

-----------------------------------------------------------------------------
(* What a handler holds at each of its steps, and what it knows of the rows *)
(* it holds: the inductive invariant behind the properties about commits,  *)
(* mailed links and the refinement of SessionLedger.                       *)

\* Each operation takes its own path.
PathOK(q) ==
    /\ q.op = "none" => q.pc = "idle"
    /\ q.op = "login" => q.pc \in {"touch", "commit"}
    /\ q.op = "refresh" => q.pc \in {"rotate", "commit"}
    /\ q.op = "logout" => q.pc \in {"mark", "commit"}
    /\ q.op \in {"reuse", "logout_all"} => q.pc \in {"scan", "revoke", "commit"}
    /\ q.op = "reset" => q.pc \in {"renew", "scan", "revoke", "spend", "commit"}
    /\ q.op = "change" => q.pc \in {"hash", "hashed", "scan", "revoke", "stamp",
                                    "stamped", "issue", "commit"}
    /\ q.op = "set_password" => q.pc \in {"hash", "commit"}
    /\ q.op # "set_status"

\* The steps before which a handler may have written rows of each table.
HasUser(q) == \/ q.op = "reset" /\ q.pc # "renew"
              \/ q.pc \in {"hashed", "stamped"}
              \/ q.op \in {"login", "set_password"} /\ q.pc = "commit"
HasSessions(q) == q.pc \in {"stamp", "stamped", "spend", "commit"}

\* A row nobody holds is as it is committed; a row held is its holder's to write.
UserLocksOK ==
    \A u \in Users : LET r == userLock[u] IN
        IF r = None THEN userW[u] = user[u]
        ELSE HasUser(req[r]) /\ req[r].user = u
SessLocksOK ==
    \A t \in Tokens : LET r == sessLock[t] IN
        IF r = None THEN sessW[t] = sess[t] ELSE HasSessions(req[r])
LinkLocksOK ==
    \A l \in Links : LET r == linkLock[l] IN
        IF r = None THEN linkW[l] = link[l] ELSE req[r].pc = "commit"

\* What is written to a committed session is its end, and never its owner.
EndsOK == \A t \in Tokens : Exists(t) =>
             /\ sessW[t].user = sess[t].user
             /\ sessLock[t] # None => ~IsLive(sessW[t])

\* A session that is not committed is its request's only new one; beside it
\* the request holds at most the row it renews, and a sign-in the users row.
BirthOK(t) ==
    LET r == sessLock[t] IN
    r # None /\ ~Exists(t) =>
        /\ req[r].pc = "commit" /\ req[r].op \in {"login", "refresh", "change"}
        /\ IsLive(sessW[t])
        /\ sessW[t].user = req[r].user
        /\ \A s \in Tokens : sessLock[s] = r => s = t \/ s = origin[t].parent
        /\ origin[t].via = "login" => req[r].op = "login"
BirthsOK == \A t \in Tokens : BirthOK(t)

\* Who signs in holds the users row until the commit.
SignsIn(q) == q.op = "login" /\ q.pc = "commit"

\* From revoke_all_for_user on, what its statement saw has ended, or ends with
\* the request's commit.
Revoked(q) == \/ q.op \in {"logout_all", "reuse"} /\ q.pc = "commit"
              \/ q.op = "reset" /\ q.pc \in {"spend", "commit"}
              \/ q.pc \in {"stamp", "stamped"}
ScanOK(r) ==
    /\ req[r].pc = "revoke" => \A t \in req[r].scan : Exists(t)
    /\ Revoked(req[r]) => \A t \in req[r].scan :
          Exists(t) /\ (IsLive(sess[t]) => sessLock[t] = r)

\* A reset that has the users row has seen every sign-in there was.
SawOK(r) ==
    req[r].op = "reset" /\ req[r].pc \in {"revoke", "spend", "commit"} =>
        \A t \in Tokens : IsLive(sess[t]) /\ sess[t].user = req[r].user
                          /\ origin[t].via = "login" => t \in req[r].scan

\* A reset, and a password change about to commit its cutoff, hold the users
\* row with a cutoff no earlier than their start.
CutoffOK(r) ==
    \/ req[r].op = "reset" /\ req[r].pc # "renew"
    \/ req[r].pc = "stamped"
    => /\ userLock[req[r].user] = r
       /\ userW[req[r].user].validFrom >= Second(req[r].at)

HandlersOK == \A r \in Requests :
    /\ PathOK(req[r]) /\ ScanOK(r) /\ SawOK(r) /\ CutoffOK(r)
    /\ SignsIn(req[r]) => userLock[req[r].user] = r

\* A link is mailed after its row is committed.
MailOK ==
    /\ \A l \in mail : link[l] # Absent
    /\ \A r \in Requests :
          /\ req[r].op = "request" /\ req[r].pc = "commit" =>
                linkLock[req[r].link] = r /\ linkW[req[r].link] # Absent
          /\ req[r].pc = "send" => link[req[r].link] # Absent

\* No version of a blocked account lifts the block.
BlocksOK == \A u \in Users : user[u].status = "blocked" => userW[u].status = "blocked"

HeldOK == /\ UserLocksOK /\ SessLocksOK /\ LinkLocksOK
          /\ EndsOK /\ BirthsOK /\ HandlersOK /\ MailOK /\ BlocksOK

HandlerInv == SessionInv /\ HeldOK

\* The step that commits request r's operation `op`.
Commits(r, op) == At(r, "commit") /\ req[r].op = op /\ Publish(r)

-----------------------------------------------------------------------------
(* Under every interleaving.                                               *)

\* A session that has ended never becomes usable again, whatever mix of
\* refreshes, sign-outs, resets, crashes and late writers touches its row.
RevocationIsFinal ==
    [][\A t \in Tokens : Exists(t) /\ ~IsLive(sess[t]) =>
          Exists(t)' /\ ~IsLive(sess[t])']_vars

\* A refresh that survives to its commit has ended the session it renewed:
\* no crash or interleaving leaves parent and child usable together.
RenewedParentIsRetired ==
    \A t \in Tokens : Exists(t) /\ origin[t].parent # None =>
        ~IsLive(sess[origin[t].parent])

\* Sign-out everywhere, and the answer to a replayed token, leave none of the
\* sessions usable that were committed when the bulk UPDATE looked.
RevokeAllEndsWhatItSaw ==
    [][\A r \in Requests : Commits(r, "logout_all") \/ Commits(r, "reuse") =>
          \A t \in req[r].scan : ~IsLive(sess[t])']_vars

\* When a reset commits, no session opened by a password sign-in is left on
\* the account: both write the users row first, so a sign-in's session is
\* either seen by revoke_all_for_user or not inserted yet.
ResetLeavesNoLoginSession ==
    [][\A r \in Requests : Commits(r, "reset") =>
          \A t \in Tokens : IsLive(sess[t])' /\ sess'[t].user = req[r].user =>
              origin[t].via # "login"]_vars

\* From a reset's commit on, access tokens minted in an earlier second than
\* the reset began are refused, so no refresh or sign-in in flight carries one
\* past the cutoff.
ResetCutsOffAccess ==
    [][\A r \in Requests : Commits(r, "reset") =>
          \A a \in access : a.user = req[r].user /\ Second(a.at) < Second(req[r].at) =>
              ~Accepted(a)']_vars

\* A link is delivered only once its row is committed: nobody is mailed a
\* link that a rolled-back transaction took back.
MailedLinkIsStored == \A l \in mail : link[l] # Absent

\* No request lifts a suspension: an account an administrator blocks while a
\* reset is in flight is still blocked after the reset writes the status.
OnlyAdminsUnblock ==
    [][\A u \in Users : user[u].status = "blocked" /\ req' # req =>
          user'[u].status = "blocked"]_vars

\* A password change that reaches its second commit has cut off every access
\* token of an earlier second and ended every session its UPDATE saw.
ChangeCutsOff ==
    [][\A r \in Requests : At(r, "stamped") /\ Publish(r) =>
          /\ \A a \in access : a.user = req[r].user
                 /\ Second(a.at) < Second(req[r].at) => ~Accepted(a)'
          /\ \A t \in req[r].scan : ~IsLive(sess[t])']_vars

\* A request in flight ends: two that wait for each other's rows (a reset and
\* a password change take them in opposite orders) do not wait for ever.
RequestsFinish == \A r \in Requests : ~At(r, "idle") ~> At(r, "idle")

\* The handlers keep the promise of SessionLedger: every commit opens one
\* session, renews one, or ends some, and nothing else happens to them.
LedgerState == [t \in Tokens |-> IF ~Exists(t) THEN "unborn"
                                 ELSE IF IsLive(sess[t]) THEN "live" ELSE "ended"]
LedgerParent == [t \in Tokens |-> IF Exists(t) THEN origin[t].parent ELSE None]
Ledger == INSTANCE SessionLedger
    WITH Sessions <- Tokens, state <- LedgerState, parent <- LedgerParent
KeepsLedger == Ledger!Spec

-----------------------------------------------------------------------------
(* One request at a time.                                                  *)

\* README: a refresh token works exactly once.
RotatesOnce ==
    \A s, t \in Tokens : s # t /\ Exists(s) /\ Exists(t) =>
        origin[s].parent = None \/ origin[s].parent # origin[t].parent

\* README: a reset link works exactly once.
LinkWorksOnce == \A l \in Links : spends[l] <= 1

\* README: asking for a new link retires the old one.
OneUsableLink ==
    \A k, l \in Links : k # l /\ Usable(link[k]) /\ Usable(link[l]) =>
        link[k].user # link[l].user

\* At most MaxPerWindow links of an account in any window, and a cooldown
\* between two of them, whichever requests fail half way.
ThrottleHolds ==
    \A l \in Links : link[l] # Absent =>
        LET others == {k \in Links \ {l} : /\ link[k] # Absent
                                           /\ link[k].user = link[l].user
                                           /\ link[k].created >= link[l].created}
        IN  /\ \A k \in others : link[k].created >= link[l].created + Cooldown
            /\ Cardinality({k \in others : link[k].created <= link[l].created + Window})
                 < MaxPerWindow

\* Between requests, every usable session descends from a sign-in that knew
\* the account's present password: a reset leaves none of the old behind.
SessionsKnowPassword ==
    (\A r \in Requests : At(r, "idle")) =>
        \A t \in Tokens : IsLive(sess[t]) =>
            origin[t].knew = user[sess[t].user].hash

-----------------------------------------------------------------------------
(* What the documentation says and the code does not keep.                 *)

\* README: with a password change every older access token fails at once.
PasswordChangeCutsOffAccess ==
    [][\A u \in Users : user'[u].hash # user[u].hash =>
          \A a \in access : a.user = u /\ Second(a.at) < Second(now) =>
              ~Accepted(a)']_vars
=============================================================================
