-------------------------- MODULE SitePeopleProofs --------------------------
(***************************************************************************)
(* Proofs about the parts of Site that keep people: roles, permissions and *)
(* who holds them (Access), accounts and the identities they sign in with  *)
(* (Accounts), for any rows and any loads.  The first section is about     *)
(* calls, and serves every part of the site.                               *)
(***************************************************************************)
EXTENDS Site, TLAPS, FiniteSetTheorems

-----------------------------------------------------------------------------
(* Calls.                                                                  *)

\* Requests in flight are of the crowd.
CallsInv == /\ load \in Loads
            /\ made \in Nat
            /\ DOMAIN call = Requests
            /\ \A r \in Requests : call[r] # None => r \in load.crowd

\* The call of one request becomes c; only requests of the crowd begin one.
Moves(r, c) == /\ call' = [call EXCEPT ![r] = c]
               /\ c = None \/ call[r] # None \/ r \in load.crowd
               /\ made' \in Nat
               /\ load' = load

\* What a step of any part of the site does to the calls.
CallsStep == UNCHANGED callVars \/ \E r \in Requests : \E c : Moves(r, c)

\* A first call.
LEMMA BeginMoves == ASSUME CallsInv, NEW r \in Requests, NEW c, Begin(r, c) PROVE Moves(r, c)
  BY DEF CallsInv, Begin, Moves

\* The end of a call.
LEMMA EndMoves == ASSUME CallsInv, NEW r \in Requests, End(r) PROVE Moves(r, None)
  BY DEF CallsInv, End, Moves

\* No step lets a request in that is not of the crowd.
LEMMA CallsKept == ASSUME CallsInv, CallsStep PROVE CallsInv'
<1>1. CASE UNCHANGED callVars BY <1>1 DEF CallsInv, callVars
<1>2. CASE \E r \in Requests : \E c : Moves(r, c)
  <2> PICK r \in Requests : \E c : Moves(r, c) BY <1>2
  <2> PICK c : Moves(r, c) OBVIOUS
  <2> QED BY DEF CallsInv, Moves
<1>3. QED BY <1>1, <1>2 DEF CallsStep

\* The calls after a move.
LEMMA Moved ==
    ASSUME CallsInv, NEW r \in Requests, NEW c, Moves(r, c)
    PROVE  /\ call'[r] = c
           /\ \A q \in Requests \ {r} : call'[q] = call[q]
           /\ load' = load
  BY DEF CallsInv, Moves

\* Calls that do not overlap are one at a time.
LEMMA OneCall ==
    ASSUME CallsInv, Alone, NEW q \in Requests, NEW r \in Requests,
           call[q] # None, call[r] # None
    PROVE  q = r
<1>1. IsFiniteSet(load.crowd) BY LoadsAssumption DEF CallsInv
<1>2. PICK x : load.crowd = {x} BY <1>1, FS_Singleton DEF Alone
<1>3. QED BY <1>2 DEF CallsInv

\* While calls do not overlap, the call that begins is the only one.
LEMMA BeginsAlone ==
    ASSUME CallsInv, Alone, NEW r \in Requests, NEW c, Begin(r, c), NEW q \in Requests \ {r}
    PROVE  call[q] = None
<1>1. IsFiniteSet(load.crowd) BY LoadsAssumption DEF CallsInv
<1>2. PICK x : load.crowd = {x} BY <1>1, FS_Singleton DEF Alone
<1>3. QED BY <1>2 DEF CallsInv, Begin

-----------------------------------------------------------------------------
(* Roles, permissions and who holds what.                                  *)

\* A set of columns that leaves a role a role.
RolePart(set) == \A row \in RoleRow : Written(row, set) \in RoleRow

\* What a call on authority carries.
AccessCallOK(c) ==
    /\ c.op = "role" => /\ c.id \in RoleIds
                        /\ RolePart(c.set)
                        /\ roles[c.id] = None => c.set \in RoleRow
    /\ c.op = "perm" => c.add \subseteq Codes /\ c.drop \subseteq Codes
    /\ c.op = "grant" => c.id \in RoleIds /\ c.add \subseteq Codes
    /\ c.op = "assign" => c.id \in Members /\ c.add \subseteq RoleIds
    /\ c.op \in {"grant", "assign"} => c.drop \subseteq Codes \cup RoleIds
    /\ c.op = "assign" => c.held \subseteq RoleIds
    /\ c.op = "entry" => c.id \in Members /\ c.now \subseteq RoleIds
    /\ c.op = "seed" => c.bare \subseteq SystemRoles

\* Users hold roles, roles hold codes, and calls carry what they may.
AccessInv ==
    /\ AccessTypeOK
    /\ \A u \in Members : given[u] \subseteq RoleIds
    /\ \A r \in Requests : call[r] # None => AccessCallOK(call[r])

\* What a call knows of the rows while no other call can change them.
AccessKnows(c) ==
    /\ c.op = "perm" => \A ro \in RoleIds : given[ro] \cap c.drop = {}
    /\ c.op \in {"grant", "assign"} => c.held = given[c.id]
    /\ c.op = "entry" => /\ c.now = given[c.id]
                         /\ logged[c.id] # None /\ c.id \notin unlogged => logged[c.id] = c.held

\* A request has written what o holds, and not its entry.
Owing(o) == \E r \in Requests : Doing(r, "entry") /\ call[r].id = o

\* The entry follows, or names what is held.
LoggedInv ==
    Alone => /\ \A r \in Requests : call[r] # None => AccessKnows(call[r])
             /\ \A o \in Grantees :
                   logged[o] # None /\ o \notin unlogged /\ ~Owing(o) => logged[o] = given[o]

\* An invariant of calls that begin keeps that of those in flight.
Began(r) == \E c : /\ Begin(r, c) /\ AccessCallOK(c)
                   /\ AccessKnows(c)
                   /\ c.op # "entry"

\* The columns of a role that a call on roles writes.
LEMMA RoleParts ==
    ASSUME NEW row \in RoleRow, NEW yes \in BOOLEAN
    PROVE  /\ RolePart([gone |-> yes])
           /\ RolePart(Changed(row, [gone |-> FALSE]))
           /\ RolePart([system |-> yes, gone |-> FALSE])
<1> SUFFICES ASSUME NEW old \in RoleRow
             PROVE  /\ Written(old, [gone |-> yes]) \in RoleRow
                    /\ Written(old, Changed(row, [gone |-> FALSE])) \in RoleRow
                    /\ Written(old, [system |-> yes, gone |-> FALSE]) \in RoleRow
  BY DEF RolePart
<1>1. old # None BY AccessNoneAssumption
<1>2. Written(old, [gone |-> yes]) \in RoleRow BY <1>1 DEF Written, RoleRow
<1>3. Written(old, Changed(row, [gone |-> FALSE])) \in RoleRow BY <1>1 DEF Written, Changed, RoleRow
<1>4. Written(old, [system |-> yes, gone |-> FALSE]) \in RoleRow BY <1>1 DEF Written, RoleRow
<1>5. QED BY <1>2, <1>3, <1>4

\* Calls on roles.
LEMMA RolesBegin ==
    ASSUME AccessInv, NEW r \in Requests, RoleCalls(r) \/ \E ro \in RoleIds : SeedRoles(r, ro)
    PROVE  Began(r)
<1>1. SystemRoles \subseteq RoleIds /\ CustomRoles \subseteq RoleIds BY DEF RoleIds
<1>2. ASSUME NEW ro \in RoleIds, NEW yes \in BOOLEAN, roles[ro] = None,
             Begin(r, [op |-> "role", id |-> ro, set |-> [system |-> yes, gone |-> FALSE]])
      PROVE  Began(r)
  <2> DEFINE row == [system |-> yes, gone |-> FALSE]
             c == [op |-> "role", id |-> ro, set |-> row]
  <2>1. row \in RoleRow BY DEF RoleRow
  <2>2. RolePart(row) BY <2>1, RoleParts
  <2>3. AccessCallOK(c) BY <2>1, <2>2 DEF AccessCallOK
  <2>4. QED BY <1>2, <2>3 DEF Began, AccessKnows
<1>3. ASSUME NEW ro \in RoleIds, NEW set, RolePart(set), roles[ro] # None,
             Begin(r, [op |-> "role", id |-> ro, set |-> set])
      PROVE  Began(r)
  <2> DEFINE c == [op |-> "role", id |-> ro, set |-> set]
  <2>1. AccessCallOK(c) BY <1>3 DEF AccessCallOK
  <2>2. QED BY <1>3, <2>1 DEF Began, AccessKnows
<1>4. ASSUME NEW ro \in RoleIds, RoleCalls(r), roles[ro] # None PROVE roles[ro] \in RoleRow
  BY <1>4 DEF AccessInv, AccessTypeOK
<1>5. ASSUME NEW ro \in RoleIds, CreateRole(r, ro) PROVE Began(r)
  BY <1>5, <1>2 DEF CreateRole
<1>6. ASSUME NEW ro \in RoleIds, DeleteRole(r, ro) PROVE Began(r)
  <2>1. roles[ro] \in RoleRow BY <1>6 DEF DeleteRole, Live, AccessInv, AccessTypeOK
  <2>2. RolePart([gone |-> TRUE]) BY <2>1, RoleParts
  <2>3. QED BY <1>6, <2>2, <1>3 DEF DeleteRole, Live
<1>7. ASSUME NEW ro \in RoleIds, RestoreRole(r, ro) PROVE Began(r)
  <2>1. roles[ro] \in RoleRow BY <1>7 DEF RestoreRole, AccessInv, AccessTypeOK
  <2>2. RolePart(Changed(roles[ro], [gone |-> FALSE])) BY <2>1, RoleParts
  <2>3. QED BY <1>7, <2>2, <1>3 DEF RestoreRole
<1>8. ASSUME NEW ro \in RoleIds, SeedRoles(r, ro) PROVE Began(r)
  BY <1>8, <1>2 DEF SeedRoles
<1>9. QED BY <1>5, <1>6, <1>7, <1>8 DEF RoleCalls

\* Calls on permissions.
LEMMA PermissionsBegin ==
    ASSUME AccessInv, NEW r \in Requests, PermissionCalls(r) \/ SeedPermissions(r)
    PROVE  Began(r)
<1>1. ASSUME NEW code \in Codes, CreatePermission(r, code) PROVE Began(r)
  <2> DEFINE c == [op |-> "perm", id |-> code, add |-> {code}, drop |-> {}]
  <2>1. AccessCallOK(c) BY DEF AccessCallOK
  <2>2. AccessKnows(c) BY DEF AccessKnows
  <2>3. QED BY <1>1, <2>1, <2>2 DEF CreatePermission, Began
<1>2. ASSUME NEW code \in Codes, DeletePermission(r, code) PROVE Began(r)
  <2> DEFINE c == [op |-> "perm", id |-> code, add |-> {}, drop |-> {code}]
  <2>1. AccessCallOK(c) BY DEF AccessCallOK
  <2>2. AccessKnows(c) BY <1>2 DEF AccessKnows, DeletePermission, NobodyHolds, Holders
  <2>3. QED BY <1>2, <2>1, <2>2 DEF DeletePermission, Began
<1>3. ASSUME SeedPermissions(r) PROVE Began(r)
  <2> DEFINE c == [op |-> "perm", id |-> None, add |-> SystemCodes \ perms, drop |-> {}]
  <2>1. AccessCallOK(c) BY DEF AccessCallOK, Codes
  <2>2. AccessKnows(c) BY DEF AccessKnows
  <2>3. QED BY <1>3, <2>1, <2>2 DEF SeedPermissions, Began
<1>4. QED BY <1>1, <1>2, <1>3 DEF PermissionCalls

\* Calls on what a role or an account holds.
LEMMA GivesBegin ==
    ASSUME AccessInv, NEW r \in Requests, GrantCalls(r) \/ AssignmentCalls(r) \/ SeedGrants(r)
    PROVE  Began(r)
<1>1. ASSUME NEW kind, NEW o \in Grantees, NEW drop, NEW add, Give(r, kind, o, drop, add),
             drop \subseteq given[o],
             \/ kind = "grant" /\ o \in RoleIds /\ add \subseteq Codes
             \/ kind = "assign" /\ o \in Members /\ add \subseteq RoleIds
      PROVE  Began(r)
  <2> DEFINE c == [op |-> kind, id |-> o, drop |-> drop, add |-> add, held |-> given[o]]
  <2>1. AccessCallOK(c) BY <1>1 DEF AccessCallOK, AccessInv, AccessTypeOK
  <2>2. AccessKnows(c) BY <1>1 DEF AccessKnows
  <2>3. c.op # "entry" BY <1>1
  <2>4. QED BY <1>1, <2>1, <2>2, <2>3 DEF Give, Began
<1>2. ASSUME GrantCalls(r) PROVE Began(r)
  <2> PICK ro \in RoleIds, codes \in SUBSET Codes :
         \/ GrantPermissions(r, ro, codes) \/ RevokePermissions(r, ro, codes)
         \/ ReplacePermissions(r, ro, codes)
    BY <1>2 DEF GrantCalls
  <2> ro \in Grantees BY DEF Grantees
  <2>1. CASE GrantPermissions(r, ro, codes) BY <2>1, <1>1 DEF GrantPermissions
  <2>2. CASE RevokePermissions(r, ro, codes) BY <2>2, <1>1 DEF RevokePermissions
  <2>3. CASE ReplacePermissions(r, ro, codes) BY <2>3, <1>1 DEF ReplacePermissions
  <2>4. QED BY <2>1, <2>2, <2>3
<1>3. ASSUME AssignmentCalls(r) PROVE Began(r)
  <2> PICK u \in Members, ros \in SUBSET RoleIds :
         AssignRoles(r, u, ros) \/ RevokeRoles(r, u, ros) \/ ReplaceRoles(r, u, ros)
    BY <1>3 DEF AssignmentCalls
  <2> u \in Grantees BY DEF Grantees
  <2>1. CASE AssignRoles(r, u, ros) BY <2>1, <1>1 DEF AssignRoles
  <2>2. CASE RevokeRoles(r, u, ros) BY <2>2, <1>1 DEF RevokeRoles
  <2>3. CASE ReplaceRoles(r, u, ros) BY <2>3, <1>1 DEF ReplaceRoles
  <2>4. QED BY <2>1, <2>2, <2>3
<1>4. ASSUME SeedGrants(r) PROVE Began(r)
  <2> DEFINE c == [op |-> "seed", id |-> None,
                   bare |-> {ro \in SystemRoles : roles[ro] # None /\ given[ro] = {}}]
  <2>1. AccessCallOK(c) BY DEF AccessCallOK
  <2>2. AccessKnows(c) BY DEF AccessKnows
  <2>3. QED BY <1>4, <2>1, <2>2 DEF SeedGrants, Began
<1>5. QED BY <1>2, <1>3, <1>4

\* A call that begins writes nothing.
LEMMA BeganKeeps ==
    ASSUME CallsInv, AccessInv, LoggedInv, NEW r \in Requests, Began(r), UNCHANGED accessVars
    PROVE  CallsStep /\ AccessInv' /\ LoggedInv'
<1> PICK c : Begin(r, c) /\ AccessCallOK(c) /\ AccessKnows(c) /\ c.op # "entry" BY DEF Began
<1>1. Moves(r, c) BY BeginMoves
<1>2. call'[r] = c /\ (\A q \in Requests \ {r} : call'[q] = call[q]) /\ load' = load
  BY <1>1, Moved
<1>3. UNCHANGED <<roles, perms, given, logged, unlogged>> BY DEF accessVars
<1>4. AccessInv'
  <2>1. ASSUME NEW q \in Requests, call'[q] # None PROVE AccessCallOK(call[q])'
    <3>1. CASE q = r BY <3>1, <1>2, <1>3 DEF AccessCallOK
    <3>2. CASE q # r BY <3>2, <2>1, <1>2, <1>3 DEF AccessInv, AccessCallOK
    <3>3. QED BY <3>1, <3>2
  <2>2. QED BY <2>1, <1>3 DEF AccessInv, AccessTypeOK
<1>5. LoggedInv'
  <2> SUFFICES ASSUME Alone' PROVE
         /\ \A q \in Requests : call'[q] # None => AccessKnows(call[q])'
         /\ \A o \in Grantees :
               logged'[o] # None /\ o \notin unlogged' /\ ~Owing(o)' => logged'[o] = given'[o]
    BY DEF LoggedInv
  <2>1. Alone BY <1>2 DEF Alone
  <2>2. \A q \in Requests \ {r} : call[q] = None BY <2>1, BeginsAlone
  <2>3. ASSUME NEW q \in Requests, call'[q] # None PROVE AccessKnows(call[q])'
    <3>1. q = r BY <2>3, <2>2, <1>2
    <3>2. QED BY <3>1, <1>2, <1>3 DEF AccessKnows
  <2>4. call[r] = None BY DEF Begin
  <2>5. \A o : ~Owing(o) BY <2>2, <2>4 DEF Owing, Doing
  <2>6. QED BY <2>1, <2>3, <2>5, <1>3 DEF LoggedInv
<1>6. QED BY <1>1, <1>4, <1>5 DEF CallsStep

\* A call that ends leaves the calls of the others.
LEMMA EndedCalls ==
    ASSUME CallsInv, NEW r \in Requests, End(r)
    PROVE  /\ CallsStep
           /\ call'[r] = None
           /\ \A q \in Requests \ {r} : call'[q] = call[q]
           /\ load' = load /\ Alone' = Alone
<1>1. Moves(r, None) BY EndMoves
<1>2. QED BY <1>1, Moved DEF CallsStep, Alone

\* While calls do not overlap, the end of one leaves none.
LEMMA EndsAlone ==
    ASSUME CallsInv, Alone, NEW r \in Requests, call[r] # None, End(r)
    PROVE  \A q \in Requests : call'[q] = None
  BY EndedCalls, OneCall

\* A role is written.
LEMMA WriteRoleKeeps ==
    ASSUME CallsInv, AccessInv, LoggedInv, NEW r \in Requests, WriteRole(r)
    PROVE  CallsStep /\ AccessInv' /\ LoggedInv'
<1> DEFINE c == call[r]
           row == Written(roles[c.id], c.set)
<1>1. End(r) /\ UNCHANGED <<perms, given, logged, unlogged>> /\ Doing(r, "role")
      /\ roles' = [roles EXCEPT ![c.id] = row]
  BY DEF WriteRole
<1>2. CallsStep /\ call'[r] = None /\ (\A q \in Requests \ {r} : call'[q] = call[q])
      /\ Alone' = Alone
  BY <1>1, EndedCalls
<1>3. c.id \in RoleIds /\ row \in RoleRow
  <2>1. AccessCallOK(c) /\ c.op = "role" BY <1>1 DEF AccessInv, Doing
  <2>2. roles[c.id] \in RoleRow \cup {None} BY <2>1 DEF AccessInv, AccessTypeOK, AccessCallOK
  <2>3. QED BY <2>1, <2>2 DEF AccessCallOK, RolePart, Written
<1>4. AccessTypeOK' BY <1>1, <1>3 DEF AccessInv, AccessTypeOK
<1>5. ASSUME NEW q \in Requests, call'[q] # None PROVE AccessCallOK(call[q])'
  <2>1. q # r /\ call'[q] = call[q] /\ AccessCallOK(call[q]) BY <1>5, <1>2 DEF AccessInv
  <2>2. \A ro \in RoleIds : roles'[ro] = None => roles[ro] = None
    BY <1>1, <1>3, AccessNoneAssumption DEF AccessInv, AccessTypeOK
  <2>3. QED BY <2>1, <2>2 DEF AccessCallOK
<1>6. LoggedInv'
  <2> SUFFICES ASSUME Alone PROVE
         /\ \A q \in Requests : call'[q] # None => AccessKnows(call[q])'
         /\ \A o \in Grantees :
               logged'[o] # None /\ o \notin unlogged' /\ ~Owing(o)' => logged'[o] = given'[o]
    BY <1>2 DEF LoggedInv
  <2>1. \A q \in Requests : call'[q] = None BY <1>1, EndsAlone DEF Doing
  <2>2. \A o : ~Owing(o)
    BY <1>1, OneCall DEF Owing, Doing
  <2>3. QED BY <2>1, <2>2, <1>1 DEF LoggedInv
<1>7. QED BY <1>1, <1>2, <1>4, <1>5, <1>6 DEF AccessInv

\* A permission is created or deleted: while calls do not overlap, one nobody holds.
LEMMA WritePermissionKeeps ==
    ASSUME CallsInv, AccessInv, LoggedInv, NEW r \in Requests, WritePermission(r)
    PROVE  CallsStep /\ AccessInv' /\ LoggedInv'
<1> DEFINE c == call[r]
<1>1. End(r) /\ UNCHANGED <<roles, logged, unlogged>> /\ Doing(r, "perm")
      /\ perms' = (perms \cup c.add) \ c.drop
      /\ given' = [o \in Grantees |-> given[o] \ c.drop]
  BY DEF WritePermission
<1>2. CallsStep /\ call'[r] = None /\ (\A q \in Requests \ {r} : call'[q] = call[q])
      /\ Alone' = Alone
  BY <1>1, EndedCalls
<1>3. AccessCallOK(c) /\ c.op = "perm" BY <1>1 DEF AccessInv, Doing
<1>4. AccessTypeOK' BY <1>1, <1>3 DEF AccessInv, AccessTypeOK, AccessCallOK
<1>5. ASSUME NEW q \in Requests, call'[q] # None PROVE AccessCallOK(call[q])'
  BY <1>5, <1>1, <1>2 DEF AccessInv, AccessCallOK
<1>6. \A u \in Members : given'[u] \subseteq RoleIds
  BY <1>1 DEF AccessInv, AccessTypeOK, Grantees
<1>7. LoggedInv'
  <2> SUFFICES ASSUME Alone PROVE
         /\ \A q \in Requests : call'[q] # None => AccessKnows(call[q])'
         /\ \A o \in Grantees :
               logged'[o] # None /\ o \notin unlogged' /\ ~Owing(o)' => logged'[o] = given'[o]
    BY <1>2 DEF LoggedInv
  <2>1. \A q \in Requests : call'[q] = None BY <1>1, EndsAlone DEF Doing
  <2>2. \A o : ~Owing(o) BY <1>1, OneCall DEF Owing, Doing
  <2>3. AccessKnows(c) BY <1>1 DEF LoggedInv, Doing
  <2>4. ASSUME NEW o \in Grantees PROVE given'[o] = given[o]
    <3>1. given[o] \cap c.drop = {}
      <4>1. CASE o \in RoleIds BY <4>1, <2>3, <1>3 DEF AccessKnows
      <4>2. CASE o \in Members
        BY <4>2, <1>3, TablesAssumption DEF AccessInv, AccessCallOK
      <4>3. QED BY <4>1, <4>2 DEF Grantees
    <3>2. QED BY <3>1, <1>1
  <2>5. QED BY <2>1, <2>2, <2>4, <1>1 DEF LoggedInv
<1>8. QED BY <1>2, <1>4, <1>5, <1>6, <1>7 DEF AccessInv

\* A role is granted or refused codes, or an account's grants are replaced.
LEMMA WriteGrantKeeps ==
    ASSUME CallsInv, AccessInv, LoggedInv, NEW r \in Requests, WriteGrant(r)
    PROVE  CallsStep /\ AccessInv' /\ LoggedInv'
<1> DEFINE c == call[r]
           now == (given[c.id] \ c.drop) \cup c.add
           entry == IF Noteworthy(c, now) THEN now ELSE logged[c.id]
<1>1. End(r) /\ UNCHANGED <<roles, perms, unlogged>> /\ Doing(r, "grant")
      /\ given' = [given EXCEPT ![c.id] = now]
      /\ logged' = [logged EXCEPT ![c.id] = entry]
  BY DEF WriteGrant
<1>2. CallsStep /\ call'[r] = None /\ (\A q \in Requests \ {r} : call'[q] = call[q])
      /\ Alone' = Alone
  BY <1>1, EndedCalls
<1>3. AccessCallOK(c) /\ c.op = "grant" BY <1>1 DEF AccessInv, Doing
<1>4. c.id \in RoleIds /\ c.id \in Grantees /\ c.id \notin Members
      /\ now \subseteq Codes \cup RoleIds
  BY <1>3, TablesAssumption DEF AccessCallOK, AccessInv, AccessTypeOK, Grantees
<1>5. entry \in (SUBSET (Codes \cup RoleIds)) \cup {None}
  BY <1>4 DEF AccessInv, AccessTypeOK
<1>6. AccessTypeOK' /\ \A u \in Members : given'[u] \subseteq RoleIds
  BY <1>1, <1>4, <1>5 DEF AccessInv, AccessTypeOK, Grantees
<1>7. ASSUME NEW q \in Requests, call'[q] # None PROVE AccessCallOK(call[q])'
  BY <1>7, <1>1, <1>2 DEF AccessInv, AccessCallOK
<1>8. LoggedInv'
  <2> SUFFICES ASSUME Alone PROVE
         /\ \A q \in Requests : call'[q] # None => AccessKnows(call[q])'
         /\ \A o \in Grantees :
               logged'[o] # None /\ o \notin unlogged' /\ ~Owing(o)' => logged'[o] = given'[o]
    BY <1>2 DEF LoggedInv
  <2>1. \A q \in Requests : call'[q] = None BY <1>1, EndsAlone DEF Doing
  <2>2. \A o : ~Owing(o) BY <1>1, OneCall DEF Owing, Doing
  <2>3. c.held = given[c.id] BY <1>1, <1>3 DEF LoggedInv, Doing, AccessKnows
  <2>4. ASSUME NEW o \in Grantees, logged'[o] # None, o \notin unlogged' PROVE logged'[o] = given'[o]
    <3>1. CASE o = c.id
      <4>1. logged'[o] = entry /\ given'[o] = now
        BY <3>1, <1>1, <1>4 DEF AccessInv, AccessTypeOK
      <4>2. CASE now # c.held BY <4>1, <4>2 DEF Noteworthy
      <4>3. CASE now = c.held
        <5>1. logged'[o] = logged[o] BY <4>1, <4>3, <3>1 DEF Noteworthy
        <5>2. QED BY <5>1, <4>1, <4>3, <3>1, <2>2, <2>3, <2>4, <1>1 DEF LoggedInv
      <4>4. QED BY <4>2, <4>3
    <3>2. CASE o # c.id
      BY <3>2, <2>2, <2>4, <1>1, <1>4 DEF LoggedInv, AccessInv, AccessTypeOK
    <3>3. QED BY <3>1, <3>2
  <2>5. QED BY <2>1, <2>4
<1>9. QED BY <1>1, <1>2, <1>6, <1>7, <1>8 DEF AccessInv

\* The seeder gives bare roles their defaults, and its entry names none of them.
LEMMA WriteSeedKeeps ==
    ASSUME CallsInv, AccessInv, LoggedInv, NEW r \in Requests, WriteSeed(r)
    PROVE  CallsStep /\ AccessInv' /\ LoggedInv'
<1> DEFINE bare == call[r].bare
<1>1. End(r) /\ UNCHANGED <<roles, perms, unlogged>> /\ Doing(r, "seed")
      /\ given' = [o \in Grantees |-> IF o \in bare
                      THEN given[o] \cup (DefaultGrants[o] \cap perms) ELSE given[o]]
      /\ logged' = [o \in Grantees |-> IF o \in bare THEN None ELSE logged[o]]
  BY DEF WriteSeed
<1> HIDE DEF bare
<1>2. CallsStep /\ call'[r] = None /\ (\A q \in Requests \ {r} : call'[q] = call[q])
      /\ Alone' = Alone
  BY <1>1, EndedCalls
<1>3. bare \subseteq SystemRoles
  BY <1>1 DEF bare, AccessInv, AccessCallOK, Doing
<1>4. SystemRoles \subseteq RoleIds /\ \A ro \in SystemRoles : DefaultGrants[ro] \subseteq Codes
  BY DefaultGrantsAssumption DEF RoleIds, Codes
<1>5. ASSUME NEW u \in Members PROVE u \in Grantees /\ u \notin bare
  BY <1>3, <1>4, TablesAssumption DEF Grantees
<1>6. AccessTypeOK'
  <2>1. \A o \in Grantees : given'[o] \in SUBSET (Codes \cup RoleIds)
    BY <1>1, <1>3, <1>4 DEF AccessInv, AccessTypeOK
  <2>2. \A o \in Grantees : logged'[o] \in (SUBSET (Codes \cup RoleIds)) \cup {None}
    <3> DEFINE Entries == (SUBSET (Codes \cup RoleIds)) \cup {None}
    <3>1. logged \in [Grantees -> Entries] /\ None \in Entries
      BY DEF AccessInv, AccessTypeOK
    <3> HIDE DEF Entries
    <3>2. \A o \in Grantees : logged'[o] \in Entries BY <1>1, <3>1
    <3>3. QED BY <3>2 DEF Entries
  <2>3. QED BY <1>1, <2>1, <2>2 DEF AccessInv, AccessTypeOK
<1>7. \A u \in Members : given'[u] \subseteq RoleIds
  BY <1>1, <1>5 DEF AccessInv
<1>8. ASSUME NEW q \in Requests, call'[q] # None PROVE AccessCallOK(call[q])'
  BY <1>8, <1>1, <1>2 DEF AccessInv, AccessCallOK
<1>9. LoggedInv'
  <2> SUFFICES ASSUME Alone PROVE
         /\ \A q \in Requests : call'[q] # None => AccessKnows(call[q])'
         /\ \A o \in Grantees :
               logged'[o] # None /\ o \notin unlogged' /\ ~Owing(o)' => logged'[o] = given'[o]
    BY <1>2 DEF LoggedInv
  <2>1. \A q \in Requests : call'[q] = None BY <1>1, EndsAlone DEF Doing
  <2>2. \A o : ~Owing(o) BY <1>1, OneCall DEF Owing, Doing
  <2>3. QED BY <2>1, <2>2, <1>1 DEF LoggedInv
<1>10. QED BY <1>1, <1>2, <1>6, <1>7, <1>8, <1>9 DEF AccessInv

\* The roles of an account are committed; the entry is owed.
LEMMA WriteAssignmentKeeps ==
    ASSUME CallsInv, AccessInv, LoggedInv, NEW r \in Requests, WriteAssignment(r)
    PROVE  CallsStep /\ AccessInv' /\ LoggedInv'
<1> DEFINE c == call[r]
           now == (given[c.id] \ c.drop) \cup c.add
           entry == [op |-> "entry", id |-> c.id, held |-> c.held, add |-> c.add, now |-> now]
<1>1. Doing(r, "assign") /\ UNCHANGED <<load, made, roles, perms, logged, unlogged>>
      /\ given' = [given EXCEPT ![c.id] = now]
      /\ call' = [call EXCEPT ![r] = entry]
  BY DEF WriteAssignment
<1>2. AccessCallOK(c) /\ c.op = "assign" BY <1>1 DEF AccessInv, Doing
<1>3. c.id \in Members /\ c.id \in Grantees /\ now \subseteq RoleIds
      /\ c.held \subseteq RoleIds /\ c.add \subseteq RoleIds
  BY <1>2 DEF AccessCallOK, AccessInv, Grantees
<1>4. entry \in EntryCall /\ entry # None
  BY <1>3, AccessNoneAssumption DEF EntryCall
<1> HIDE DEF entry
<1>5. Moves(r, entry) BY <1>1 DEF Moves, Doing, CallsInv
<1>6. call'[r] = entry /\ (\A q \in Requests \ {r} : call'[q] = call[q]) /\ load' = load
  BY <1>5, Moved
<1>7. AccessTypeOK' /\ \A u \in Members : given'[u] \subseteq RoleIds
  BY <1>1, <1>3 DEF AccessInv, AccessTypeOK
<1>8. ASSUME NEW q \in Requests, call'[q] # None PROVE AccessCallOK(call[q])'
  <2>1. CASE q = r BY <2>1, <1>3, <1>6 DEF AccessCallOK, entry
  <2>2. CASE q # r BY <2>2, <1>8, <1>1, <1>6 DEF AccessInv, AccessCallOK
  <2>3. QED BY <2>1, <2>2
<1>9. LoggedInv'
  <2> SUFFICES ASSUME Alone PROVE
         /\ \A q \in Requests : call'[q] # None => AccessKnows(call[q])'
         /\ \A o \in Grantees :
               logged'[o] # None /\ o \notin unlogged' /\ ~Owing(o)' => logged'[o] = given'[o]
    BY <1>6 DEF LoggedInv, Alone
  <2>1. \A q \in Requests \ {r} : call'[q] = None
    BY <1>1, <1>6, OneCall DEF Doing
  <2>2. \A o : ~Owing(o) BY <1>1, OneCall DEF Owing, Doing
  <2>3. c.held = given[c.id] BY <1>1, <1>2 DEF LoggedInv, Doing, AccessKnows
  <2>4. given'[c.id] = now BY <1>1, <1>3 DEF AccessInv, AccessTypeOK
  <2>5. AccessKnows(call[r])'
    <3>1. logged[c.id] # None /\ c.id \notin unlogged => logged[c.id] = c.held
      BY <1>3, <2>2, <2>3 DEF LoggedInv
    <3>2. entry.op = "entry" /\ entry.id = c.id /\ entry.held = c.held /\ entry.now = now
      BY DEF entry
    <3>3. QED BY <1>1, <1>6, <2>4, <3>1, <3>2 DEF AccessKnows
  <2>6. ASSUME NEW o \in Grantees, logged'[o] # None, o \notin unlogged', ~Owing(o)'
        PROVE  logged'[o] = given'[o]
    <3>1. o # c.id BY <2>6, <1>4, <1>6 DEF Owing, Doing, entry
    <3>2. given'[o] = given[o] BY <3>1, <1>1, <1>3 DEF AccessInv, AccessTypeOK
    <3>3. QED BY <3>2, <2>2, <2>6, <1>1 DEF LoggedInv
  <2>7. QED BY <2>1, <2>5, <2>6
<1>10. QED BY <1>5, <1>7, <1>8, <1>9 DEF AccessInv, CallsStep

\* The entry about an account is written.
LEMMA WriteEntryKeeps ==
    ASSUME CallsInv, AccessInv, LoggedInv, NEW r \in Requests, WriteEntry(r)
    PROVE  CallsStep /\ AccessInv' /\ LoggedInv'
<1> DEFINE c == call[r]
           entry == IF Noteworthy(c, c.now) THEN c.now ELSE logged[c.id]
<1>1. End(r) /\ UNCHANGED <<roles, perms, given, unlogged>> /\ Doing(r, "entry")
      /\ logged' = [logged EXCEPT ![c.id] = entry]
  BY DEF WriteEntry
<1>2. CallsStep /\ call'[r] = None /\ (\A q \in Requests \ {r} : call'[q] = call[q])
      /\ Alone' = Alone
  BY <1>1, EndedCalls
<1>3. AccessCallOK(c) /\ c.op = "entry" BY <1>1 DEF AccessInv, Doing
<1>4. c.id \in Grantees /\ entry \in (SUBSET (Codes \cup RoleIds)) \cup {None}
  BY <1>3 DEF AccessCallOK, AccessInv, AccessTypeOK, Grantees
<1>5. AccessTypeOK' BY <1>1, <1>4 DEF AccessInv, AccessTypeOK
<1>6. ASSUME NEW q \in Requests, call'[q] # None PROVE AccessCallOK(call[q])'
  BY <1>6, <1>1, <1>2 DEF AccessInv, AccessCallOK
<1>7. LoggedInv'
  <2> SUFFICES ASSUME Alone PROVE
         /\ \A q \in Requests : call'[q] # None => AccessKnows(call[q])'
         /\ \A o \in Grantees :
               logged'[o] # None /\ o \notin unlogged' /\ ~Owing(o)' => logged'[o] = given'[o]
    BY <1>2 DEF LoggedInv
  <2>1. \A q \in Requests : call'[q] = None BY <1>1, EndsAlone DEF Doing
  <2>2. \A o : o # c.id => ~Owing(o) BY <1>1, OneCall DEF Owing, Doing
  <2>3. AccessKnows(c) BY <1>1 DEF LoggedInv, Doing
  <2>4. ASSUME NEW o \in Grantees, logged'[o] # None, o \notin unlogged' PROVE logged'[o] = given'[o]
    <3>1. CASE o = c.id
      <4>1. logged'[o] = entry /\ given'[o] = c.now
        BY <3>1, <1>1, <1>3, <1>4, <2>3 DEF AccessInv, AccessTypeOK, AccessKnows
      <4>2. CASE c.now # c.held BY <4>1, <4>2 DEF Noteworthy
      <4>3. CASE c.now = c.held
        <5>1. entry = logged[c.id] BY <4>3 DEF Noteworthy
        <5>2. QED BY <5>1, <4>1, <4>3, <3>1, <2>3, <2>4, <1>1, <1>3 DEF AccessKnows
      <4>4. QED BY <4>2, <4>3
    <3>2. CASE o # c.id
      BY <3>2, <2>2, <2>4, <1>1, <1>4 DEF LoggedInv, AccessInv, AccessTypeOK
    <3>3. QED BY <3>1, <3>2
  <2>5. QED BY <2>1, <2>4
<1>8. QED BY <1>1, <1>2, <1>5, <1>6, <1>7 DEF AccessInv

\* A request dies; the entry it owed is lost for good.
LEMMA LoseCallKeeps ==
    ASSUME CallsInv, AccessInv, LoggedInv, NEW r \in Requests, LoseCall(r)
    PROVE  CallsStep /\ AccessInv' /\ LoggedInv'
<1>1. End(r) /\ UNCHANGED <<roles, perms, given, logged>> /\ call[r] # None
      /\ unlogged' = IF Doing(r, "entry") THEN unlogged \cup {call[r].id} ELSE unlogged
  BY DEF LoseCall, Die
<1>2. CallsStep /\ call'[r] = None /\ (\A q \in Requests \ {r} : call'[q] = call[q])
      /\ Alone' = Alone
  BY <1>1, EndedCalls
<1>3. Doing(r, "entry") => call[r].id \in Grantees
  BY DEF Doing, AccessInv, AccessCallOK, Grantees
<1>4. AccessTypeOK' BY <1>1, <1>3 DEF AccessInv, AccessTypeOK
<1>5. ASSUME NEW q \in Requests, call'[q] # None PROVE AccessCallOK(call[q])'
  BY <1>5, <1>1, <1>2 DEF AccessInv, AccessCallOK
<1>6. LoggedInv'
  <2> SUFFICES ASSUME Alone PROVE
         /\ \A q \in Requests : call'[q] # None => AccessKnows(call[q])'
         /\ \A o \in Grantees :
               logged'[o] # None /\ o \notin unlogged' /\ ~Owing(o)' => logged'[o] = given'[o]
    BY <1>2 DEF LoggedInv
  <2>1. \A q \in Requests : call'[q] = None BY <1>1, EndsAlone
  <2>2. \A o : Owing(o) => o \in unlogged' BY <1>1, OneCall DEF Owing, Doing
  <2>3. \A o : o \in unlogged => o \in unlogged' BY <1>1
  <2>4. QED BY <2>1, <2>2, <2>3, <1>1 DEF LoggedInv
<1>7. QED BY <1>1, <1>2, <1>4, <1>5, <1>6 DEF AccessInv

\* Every step of the part.
LEMMA AccessStep ==
    ASSUME CallsInv, AccessInv, LoggedInv, AccessNext
    PROVE  CallsStep /\ AccessInv' /\ LoggedInv'
<1> PICK r \in Requests :
      \/ /\ \/ RoleCalls(r) \/ PermissionCalls(r) \/ GrantCalls(r)
            \/ AssignmentCalls(r) \/ Seeding(r)
         /\ UNCHANGED accessVars
      \/ WriteRole(r) \/ WritePermission(r) \/ WriteGrant(r) \/ WriteSeed(r)
      \/ WriteAssignment(r) \/ WriteEntry(r)
      \/ LoseCall(r)
  BY DEF AccessNext
<1>1. CASE /\ \/ RoleCalls(r) \/ PermissionCalls(r) \/ GrantCalls(r)
              \/ AssignmentCalls(r) \/ Seeding(r)
           /\ UNCHANGED accessVars
  <2>1. Began(r) BY <1>1, RolesBegin, PermissionsBegin, GivesBegin DEF Seeding
  <2>2. QED BY <1>1, <2>1, BeganKeeps
<1>2. CASE WriteRole(r) BY <1>2, WriteRoleKeeps
<1>3. CASE WritePermission(r) BY <1>3, WritePermissionKeeps
<1>4. CASE WriteGrant(r) BY <1>4, WriteGrantKeeps
<1>5. CASE WriteSeed(r) BY <1>5, WriteSeedKeeps
<1>6. CASE WriteAssignment(r) BY <1>6, WriteAssignmentKeeps
<1>7. CASE WriteEntry(r) BY <1>7, WriteEntryKeeps
<1>8. CASE LoseCall(r) BY <1>8, LoseCallKeeps
<1>9. QED BY <1>1, <1>2, <1>3, <1>4, <1>5, <1>6, <1>7, <1>8

-----------------------------------------------------------------------------
(* The parts side by side.                                                 *)

\* Calls of this part leave the load alone.
LEMMA TreeLoad == ASSUME TreeNext PROVE load' = load
<1>1. ASSUME NEW r, TypeCalls(r) PROVE load' = load
  BY <1>1 DEF TypeCalls, CreateType, DeleteType, RestoreType, Begin
<1>2. ASSUME NEW r, CategoryCalls(r) PROVE load' = load
  BY <1>2 DEF CategoryCalls, CreateCategory, UpdateCategory, MoveCategory, DeleteCategory,
     RestoreCategory, Begin
<1>3. ASSUME NEW r, WriteType(r) \/ WriteCategory(r) PROVE load' = load
  BY <1>3 DEF WriteType, WriteCategory, End
<1>4. QED BY <1>1, <1>2, <1>3 DEF TreeNext, Die, End

\* Calls of this part leave the load alone.
LEMMA MenuLoadStays == ASSUME MenuNext PROVE load' = load
<1>1. ASSUME NEW r, MenuLoad(r) PROVE load' = load
  BY <1>1 DEF MenuLoad, CreateItem, UpdateItem, MoveItem, DeleteItem, RestoreItem, Begin
<1>2. ASSUME NEW r, WriteItem(r) PROVE load' = load BY <1>2 DEF WriteItem, End
<1>3. QED BY <1>1, <1>2, TreeLoad DEF MenuNext, End

\* Calls of this part leave the load alone.
LEMMA ArticleLoadStays == ASSUME ArticleNext PROVE load' = load
<1>1. ASSUME NEW r, NEW a, NEW new, Edit(r, a, new) \/ Insert(r, a, new) PROVE load' = load
  BY <1>1 DEF Edit, Insert, Begin
<1>2. ASSUME NEW r, ArticleLoad(r) PROVE load' = load
  BY <1>1, <1>2 DEF ArticleLoad, PageCalls, BlogCalls, AutomationCalls, CourseCalls,
     ConsultancyCalls, Lifecycle, Publish, Unpublish, Archive, DeleteArticle, RestoreArticle,
     CreatePage, UpdatePage, CreateBlog, UpdateBlog, CreateAutomation, UpdateAutomation,
     CreateCourse, UpdateCourse, CreateConsultancy, UpdateConsultancy
<1>3. QED BY <1>2 DEF ArticleNext, WriteArticle, Die, End

\* Calls of this part leave the load alone.
LEMMA DataLoad == ASSUME DataNext PROVE load' = load
<1>1. ASSUME NEW r, FieldCalls(r) PROVE load' = load
  BY <1>1 DEF FieldCalls, CreateField, UpdateField, DeleteField, RestoreField, Begin
<1>2. ASSUME NEW r, NEW x, NEW c, NEW form, CreateRecord(r, x, c, form) \/ UpdateRecord(r, x, c, form)
      PROVE  load' = load
  BY <1>2 DEF CreateRecord, UpdateRecord, Begin
<1>3. ASSUME NEW r, RecordCalls(r) PROVE load' = load
  BY <1>2, <1>3 DEF RecordCalls, DeleteRecord, RestoreRecord, Begin
<1>4. ASSUME NEW r, WriteField(r) \/ WriteRecord(r) PROVE load' = load
  BY <1>4 DEF WriteField, WriteRecord, End
<1>5. QED BY <1>1, <1>3, <1>4 DEF DataNext, Die, End

\* Calls of this part leave the load alone.
LEMMA AcctLoad == ASSUME AcctNext PROVE load' = load
<1>1. ASSUME NEW r, NEW u, UserCalls(r, u) PROVE load' = load
  BY <1>1 DEF UserCalls, CreateUser, UpdateUser, SetPassword, DeleteUser, RestoreUser, VerifyEmail,
     Begin
<1>2. ASSUME NEW r, NEW u, IdentityCalls(r, u) \/ SocialCalls(r, u) PROVE load' = load
  BY <1>2 DEF IdentityCalls, SocialCalls, Link, Unlink, SocialLink, SocialCreate, Begin
<1>3. ASSUME NEW r, InsertIdentity(r) \/ DeleteIdentity(r) PROVE load' = load
  BY <1>3 DEF InsertIdentity, DeleteIdentity
<1>4. ASSUME NEW r, WriteUser(r) \/ WriteRegistration(r) PROVE load' = load
  BY <1>4 DEF WriteUser, WriteRegistration, End
<1>5. QED BY <1>1, <1>2, <1>3, <1>4 DEF AcctNext, Die, End

\* Calls of this part leave the load alone.
LEMMA ProfileLoad == ASSUME ProfileNext PROVE load' = load
<1>1. ASSUME NEW r, NEW o, PictureCalls(r, o) PROVE load' = load
  BY <1>1 DEF PictureCalls, SetAvatar, ClearAvatar, EditPicture, Begin
<1>2. ASSUME NEW r, NEW o, DetailCalls(r, o) PROVE load' = load
  BY <1>2 DEF DetailCalls, CreateDetails, UpdateDetails, DeleteDetails, Begin
<1>3. ASSUME NEW r, StoreUpload(r) \/ PointPicture(r) \/ Discard(r) PROVE load' = load
  BY <1>3 DEF StoreUpload, PointPicture, Discard, End
<1>4. ASSUME NEW r, WritePicture(r) \/ WriteDetails(r) PROVE load' = load
  BY <1>4 DEF WritePicture, WriteDetails, End
<1>5. QED BY <1>1, <1>2, <1>3, <1>4 DEF ProfileNext, Die, End

\* Calls of this part leave the load alone.
LEMMA SubLoad == ASSUME SubNext PROVE load' = load
<1>1. ASSUME NEW r, PublicCalls(r) PROVE load' = load
  BY <1>1 DEF PublicCalls, StartNew, Resume, Confirm, Unsubscribe, Begin
<1>2. ASSUME NEW r, ListCalls(r) PROVE load' = load
  BY <1>2 DEF ListCalls, CreateSubscription, UpdateSubscription, MarkSubscribed,
     MarkUnsubscribed, MarkBounced, DeleteSubscription, RestoreSubscription, Begin
<1>3. ASSUME NEW r, WriteAndSend(r) PROVE load' = load BY <1>3 DEF WriteAndSend
<1>4. ASSUME NEW r, Deliver(r) \/ WriteSubscription(r) \/ LoseMail(r) PROVE load' = load
  BY <1>4 DEF Deliver, WriteSubscription, LoseMail, Die, End
<1>5. QED BY <1>1, <1>2, <1>3, <1>4 DEF SubNext, Die, End, callVars

\* Calls of this part leave the load alone.
LEMMA NoteLoad == ASSUME NoteNext PROVE load' = load
<1>1. ASSUME NEW r, NEW n, NEW new, UpdateNote(r, n, new) PROVE load' = load
  BY <1>1 DEF UpdateNote, Begin
<1>2. ASSUME NEW r, DeskCalls(r) PROVE load' = load
  BY <1>1, <1>2 DEF DeskCalls, CreateNote, Send, NewNote, DeleteNote, RestoreNote, Begin
<1>3. ASSUME NEW r, ReaderCalls(r) PROVE load' = load
  BY <1>3 DEF ReaderCalls, OpenCopy, ArchiveCopy, MarkAllRead, Begin
<1>4. ASSUME NEW r, WriteNote(r) \/ WriteCopy(r) \/ WriteSweep(r) PROVE load' = load
  BY <1>4 DEF WriteNote, WriteCopy, WriteSweep, End
<1>5. QED BY <1>2, <1>3, <1>4 DEF NoteNext, Die, End, callVars

\* Calls of this part leave the load alone.
LEMMA InquiryLoadStays == ASSUME InquiryNext PROVE load' = load
<1>1. ASSUME NEW r, NEW x, NEW new, EditInquiry(r, x, new) \/ RestoreInquiry(r, x) PROVE load' = load
  BY <1>1 DEF EditInquiry, RestoreInquiry, Begin
<1>2. ASSUME NEW r, PublicForm(r) PROVE load' = load
  BY <1>2 DEF PublicForm, Submit, SubmitAgain, Begin
<1>3. ASSUME NEW r, Inbox(r) PROVE load' = load
  BY <1>1, <1>3 DEF Inbox, OpenInquiry, ChangeStatus, UpdateInquiry, MarkUnread, DeleteInquiry
<1>4. ASSUME NEW r, WriteInquiry(r) \/ Tell(r) PROVE load' = load
  BY <1>4 DEF WriteInquiry, Tell, End
<1>5. QED BY <1>2, <1>3, <1>4 DEF InquiryNext, InquiryLoad, TimePasses, Die, End, callVars

\* Calls of this part leave the load alone.
LEMMA ConfigLoad == ASSUME ConfigNext PROVE load' = load
<1>1. ASSUME NEW r, SettingCalls(r) \/ Seed(r) PROVE load' = load
  BY <1>1 DEF SettingCalls, Seed, SetSettings, CreateSetting, DeleteSetting, Begin
<1>2. ASSUME NEW r, StringCalls(r) PROVE load' = load
  BY <1>2 DEF StringCalls, CreateString, UpdateString, DeleteString, Begin
<1>3. ASSUME NEW r, WriteSettings(r) \/ WriteSetting(r) \/ WriteString(r) PROVE load' = load
  BY <1>3 DEF WriteSettings, WriteSetting, WriteString, End
<1>4. ASSUME NEW r, WriteSettingsSeed(r) \/ SyncLocale(r) PROVE load' = load
  BY <1>4 DEF WriteSettingsSeed, SyncLocale, End
<1>5. QED BY <1>1, <1>2, <1>3, <1>4 DEF ConfigNext, Die, End

\* Calls of this part leave the load alone.
LEMMA MigrationLoad == ASSUME MigrationNext PROVE load' = load
  BY DEF MigrationNext

\* Calls of this part leave the load alone.
LEMMA AccessLoad == ASSUME AccessNext PROVE load' = load
<1>1. ASSUME NEW r, RoleCalls(r) \/ PermissionCalls(r) PROVE load' = load
  BY <1>1 DEF RoleCalls, PermissionCalls, CreateRole, DeleteRole, RestoreRole, CreatePermission,
     DeletePermission, Begin
<1>2. ASSUME NEW r, GrantCalls(r) \/ AssignmentCalls(r) PROVE load' = load
  BY <1>2 DEF GrantCalls, AssignmentCalls, GrantPermissions, RevokePermissions, ReplacePermissions,
     AssignRoles, RevokeRoles, ReplaceRoles, Give, Begin
<1>3. ASSUME NEW r, Seeding(r) PROVE load' = load
  BY <1>3 DEF Seeding, SeedRoles, SeedPermissions, SeedGrants, Begin
<1>4. ASSUME NEW r, WriteRole(r) \/ WritePermission(r) \/ WriteGrant(r) \/ WriteSeed(r)
                    \/ WriteAssignment(r) \/ WriteEntry(r) \/ LoseCall(r)
      PROVE  load' = load
  BY <1>4 DEF WriteRole, WritePermission, WriteGrant, WriteSeed, WriteAssignment, WriteEntry,
     LoseCall, Die, End
<1>5. QED BY <1>1, <1>2, <1>3, <1>4 DEF AccessNext

\* The load of a behaviour never changes, so neither does the part it is put on.
LEMMA LoadStays == ASSUME [SiteNext]_siteVars PROVE load' = load
<1>1. ASSUME ContentNext PROVE load' = load
  BY <1>1, TreeLoad, MenuLoadStays, ArticleLoadStays, DataLoad DEF ContentNext
<1>2. ASSUME PeopleNext PROVE load' = load
  BY <1>2, AcctLoad, AccessLoad, ProfileLoad DEF PeopleNext
<1>3. ASSUME OfficeNext PROVE load' = load
  BY <1>3, SubLoad, NoteLoad, InquiryLoadStays, ConfigLoad, MigrationLoad DEF OfficeNext
<1>4. QED BY <1>1, <1>2, <1>3 DEF SiteNext, siteVars, callVars

-----------------------------------------------------------------------------
(* What the site knows of authority.                                       *)

\* Off their part, the tables of authority are empty and stay so.
AccessSite ==
    /\ On("access") => CallsInv /\ AccessInv /\ LoggedInv
    /\ ~On("access") => AccessTypeOK /\ logged = Nothing(Grantees)

\* The first state of the tables.
LEMMA AccessStarts == ASSUME CallsInit, AccessInit PROVE CallsInv /\ AccessInv /\ LoggedInv
<1>1. CallsInv /\ \A r \in Requests : call[r] = None BY DEF CallsInit, CallsInv
<1> PICK seeded \in BOOLEAN :
      /\ roles = [ro \in RoleIds |-> IF seeded /\ ro \in SystemRoles
                                     THEN [system |-> TRUE, gone |-> FALSE] ELSE None]
      /\ perms = IF seeded THEN SystemCodes ELSE {}
      /\ given = [o \in Grantees |-> IF seeded /\ o \in SystemRoles THEN DefaultGrants[o] ELSE {}]
      /\ logged = [o \in Grantees |-> IF o \in Members THEN {} ELSE None]
      /\ unlogged = {}
  BY DEF AccessInit
<1>2. \A o \in SystemRoles : o \notin Members /\ DefaultGrants[o] \subseteq Codes
  BY TablesAssumption, DefaultGrantsAssumption DEF RoleIds, Codes
<1>3. \A o \in Members : o \in Grantees /\ given[o] = {} BY <1>2 DEF Grantees
<1>4. AccessTypeOK
  <2>1. given \in [Grantees -> SUBSET (Codes \cup RoleIds)] BY <1>2
  <2>2. logged \in [Grantees -> (SUBSET (Codes \cup RoleIds)) \cup {None}] OBVIOUS
  <2>3. roles \in [RoleIds -> RoleRow \cup {None}] BY DEF RoleRow
  <2>4. perms \subseteq Codes BY DEF Codes
  <2>5. QED BY <2>1, <2>2, <2>3, <2>4 DEF AccessTypeOK
<1>5. LoggedInv
  <2>1. \A o \in Grantees : logged[o] # None => o \in Members OBVIOUS
  <2>2. \A o \in Members : logged[o] = {} BY DEF Grantees
  <2>3. QED BY <2>1, <2>2, <1>1, <1>3 DEF LoggedInv
<1>6. QED BY <1>1, <1>3, <1>4, <1>5 DEF AccessInv

\* Only calls on authority change its tables, and only they are made on its part.
LEMMA AccessPart ==
    ASSUME [SiteNext]_siteVars
    PROVE  /\ On("access") => AccessNext \/ UNCHANGED <<callVars, accessVars>>
           /\ ~On("access") => UNCHANGED accessVars
<1>1. CASE UNCHANGED siteVars BY <1>1 DEF siteVars, peopleVars
<1>2. CASE ContentNext /\ UNCHANGED <<peopleVars, officeVars>>
  BY <1>2 DEF ContentNext, peopleVars, On, Kinds
<1>3. CASE PeopleNext /\ UNCHANGED <<treeVars, contentVars, officeVars>>
  BY <1>3 DEF PeopleNext, On
<1>4. CASE OfficeNext /\ UNCHANGED <<treeVars, contentVars, peopleVars>>
  BY <1>4 DEF OfficeNext, peopleVars, On
<1>5. QED BY <1>1, <1>2, <1>3, <1>4 DEF SiteNext

\* Calls stay as they are when nothing changes.
LEMMA AccessStutters ==
    ASSUME CallsInv, AccessInv, LoggedInv, UNCHANGED <<callVars, accessVars>>
    PROVE  CallsInv' /\ AccessInv' /\ LoggedInv'
<1>1. UNCHANGED <<load, call, made, roles, perms, given, logged, unlogged>>
  BY DEF callVars, accessVars
<1>2. AccessInv'
  <2>1. \A r \in Requests : call'[r] # None => AccessCallOK(call[r])'
    BY <1>1 DEF AccessInv, AccessCallOK
  <2>2. QED BY <1>1, <2>1 DEF AccessInv, AccessTypeOK
<1>3. LoggedInv'
  <2>1. \A r \in Requests : AccessKnows(call[r]) => AccessKnows(call[r])'
    BY <1>1 DEF AccessKnows
  <2>2. \A o : Owing(o) => Owing(o)' BY <1>1 DEF Owing, Doing
  <2>3. Alone' => Alone BY <1>1 DEF Alone
  <2>4. QED BY <1>1, <2>1, <2>2, <2>3 DEF LoggedInv
<1>4. QED BY <1>1, <1>2, <1>3 DEF CallsInv

\* The invariant of the part is one of the site.
LEMMA AccessHolds == SiteSpec => []AccessSite
<1>1. SiteInit => AccessSite
  <2> SUFFICES ASSUME SiteInit PROVE AccessSite OBVIOUS
  <2>1. CASE On("access") BY <2>1, AccessStarts DEF AccessSite, SiteInit, PeopleInit
  <2>2. CASE ~On("access")
    <3>1. roles = Nothing(RoleIds) /\ perms = {} /\ unlogged = {}
          /\ given = [o \in Grantees |-> {}] /\ logged = Nothing(Grantees)
      BY <2>2 DEF SiteInit, PeopleInit
    <3>2. logged \in [Grantees -> (SUBSET (Codes \cup RoleIds)) \cup {None}]
      BY <3>1 DEF Nothing
    <3>3. roles \in [RoleIds -> RoleRow \cup {None}] BY <3>1 DEF Nothing
    <3>4. given \in [Grantees -> SUBSET (Codes \cup RoleIds)] BY <3>1
    <3>5. AccessTypeOK BY <3>1, <3>2, <3>3, <3>4 DEF AccessTypeOK
    <3>6. QED BY <2>2, <3>1, <3>5 DEF AccessSite
  <2>3. QED BY <2>1, <2>2
<1>2. AccessSite /\ [SiteNext]_siteVars => AccessSite'
  <2> SUFFICES ASSUME AccessSite, [SiteNext]_siteVars PROVE AccessSite' OBVIOUS
  <2>1. On("access")' <=> On("access") BY LoadStays DEF On
  <2>2. CASE On("access")
    <3>1. CallsInv' /\ AccessInv' /\ LoggedInv'
      BY <2>2, AccessPart, AccessStep, AccessStutters, CallsKept DEF AccessSite
    <3>2. QED BY <2>1, <2>2, <3>1 DEF AccessSite
  <2>3. CASE ~On("access")
    <3>1. UNCHANGED <<roles, perms, given, logged, unlogged>>
      BY <2>3, AccessPart DEF accessVars
    <3>2. QED BY <2>1, <2>3, <3>1 DEF AccessSite, AccessTypeOK
  <2>4. QED BY <2>2, <2>3
<1>3. QED BY <1>1, <1>2, PTL DEF SiteSpec

\* While calls do not overlap, the last entry about a role or an account names
\* what it holds now, whatever is seeded, granted, replaced or deleted, unless
\* the request that owed the entry died.
THEOREM AuthorityLogged == SiteSpec => []AuthorityIsLogged
<1>1. AccessSite => AuthorityIsLogged
  <2> SUFFICES ASSUME AccessSite, Alone, NEW o \in Grantees, Quiet(o), o \notin unlogged,
                      logged[o] # None
               PROVE  logged[o] = given[o]
    BY DEF AuthorityIsLogged
  <2>1. On("access") BY DEF AccessSite, Nothing
  <2>2. ~Owing(o) BY DEF Quiet, Owing, Doing
  <2>3. QED BY <2>1, <2>2 DEF AccessSite, LoggedInv
<1>2. QED BY <1>1, AccessHolds, PTL

-----------------------------------------------------------------------------
(* Accounts and their identities.                                          *)

\* A set of columns that leaves an account an account.
UserPart(set) == \A row \in UserRow : Written(row, set) \in UserRow

\* The columns of these providers hold these accounts.
Mirrors(row, socials) ==
    \A p \in Providers : {row[p]} \ {None} = {s \in socials : s.provider = p}

\* No two of these identities clash.
Apart(i, j) == i.social # j.social /\ (i.user = j.user => i.social.provider # j.social.provider)

\* The identity a request has inserted and not committed.
Pair(c) == [user |-> c.id, social |-> c.social]

\* The identities of u among these rows.
SocialsIn(rows, u) == {i.social : i \in {j \in rows : j.user = u}}

\* What a call on accounts carries.
AcctCallOK(c) ==
    /\ c.op \in {"user", "link", "linking", "unlink", "unlinking", "register"} => c.id \in Users
    /\ c.op \in {"user", "linking", "unlinking"} => UserPart(c.set)
    /\ c.op = "user" /\ users[c.id] = None => c.set \in UserRow
    /\ c.op \in {"link", "linking", "unlink", "unlinking"} => users[c.id] # None
    /\ c.op \in {"link", "linking", "register"} => c.social \in Socials
    /\ c.op = "linking" => \A i \in ids : Apart(i, Pair(c))
    /\ c.op = "register" => c.set \in UserRow

\* What PostgreSQL's indexes keep apart is apart, committed or not.
AcctInv ==
    /\ AcctTypeOK
    /\ \A r \in Requests : call[r] # None => AcctCallOK(call[r])
    /\ \A q, r \in Requests : q # r /\ Doing(q, "linking") /\ Doing(r, "linking") =>
          Apart(Pair(call[q]), Pair(call[r]))
    /\ \A u \in Users : users[u] # None => Accepted(users[u], u)
    /\ \A i, j \in ids : i # j => Apart(i, j)
    /\ \A i \in ids : users[i.user] # None

\* What a call knows of the rows while no other call can change them.
AcctKnows(c) ==
    /\ c.op = "user" /\ users[c.id] = None => c.set.google = None /\ c.set.facebook = None
    /\ c.op = "user" /\ users[c.id] # None =>
          /\ DOMAIN c.set \cap Providers = {}
          /\ "password" \in DOMAIN c.set => c.set.password
          /\ {"status", "verified"} \subseteq DOMAIN c.set => users[c.id].status = "pending"
    /\ c.op \in {"linking", "unlinking"} => DOMAIN c.set = Providers
    /\ c.op = "linking" => Mirrors(c.set, Linked(c.id) \cup {c.social})
    /\ c.op = "unlinking" => Mirrors(c.set, {s \in Linked(c.id) : s.provider # c.provider})
    /\ c.op \in {"unlink", "unlinking"} =>
          LeavesWayIn(c.id, c.provider) /\ \E s \in Linked(c.id) : s.provider = c.provider
    /\ c.op = "register" => users[c.id] = None /\ Mirrors(c.set, {c.social})

\* The copy in users is that of the identities.
MirrorInv ==
    Alone => /\ \A r \in Requests : call[r] # None => AcctKnows(call[r])
             /\ \A u \in Users : users[u] # None => Mirrors(users[u], Linked(u))

\* A call that begins on accounts.
AcctBegan(r) == \E c : /\ Begin(r, c) /\ AcctCallOK(c) /\ AcctKnows(c)
                       /\ c.op # "linking"

\* The copy made of accounts at different providers is theirs.
LEMMA MirrorOf ==
    ASSUME NEW u, NEW socials \in SUBSET Socials,
           \A s, t \in socials : s.provider = t.provider => s = t
    PROVE  Mirrors(Mirror(u, socials), socials)
<1> SUFFICES ASSUME NEW p \in Providers
             PROVE  {Mirror(u, socials)[p]} \ {None} = {s \in socials : s.provider = p}
  BY DEF Mirrors
<1>1. CASE \E s \in socials : s.provider = p
  <2> PICK s \in socials : s.provider = p BY <1>1
  <2>1. (CHOOSE t \in socials : t.provider = p) = s OBVIOUS
  <2>2. Mirror(u, socials)[p] = s BY <1>1, <2>1 DEF Mirror
  <2>3. s # None BY AcctNoneAssumption
  <2>4. QED BY <2>2, <2>3
<1>2. CASE ~\E s \in socials : s.provider = p
  <2>1. Mirror(u, socials)[p] = None BY <1>2 DEF Mirror
  <2>2. QED BY <2>1, <1>2
<1>3. QED BY <1>1, <1>2

\* It writes the columns of the providers and no others.
LEMMA MirrorPart ==
    ASSUME NEW u, NEW socials \in SUBSET Socials
    PROVE  /\ UserPart(Mirror(u, socials))
           /\ DOMAIN Mirror(u, socials) = Providers
<1>1. \A p \in Providers : Mirror(u, socials)[p] \in Socials \cup {None}
  <2> TAKE p \in Providers
  <2>1. CASE \E s \in socials : s.provider = p
    <3>1. (CHOOSE s \in socials : s.provider = p) \in socials BY <2>1
    <3>2. QED BY <2>1, <3>1 DEF Mirror
  <2>2. CASE ~\E s \in socials : s.provider = p BY <2>2 DEF Mirror
  <2>3. QED BY <2>1, <2>2
<1>2. DOMAIN Mirror(u, socials) = Providers BY DEF Mirror
<1> DEFINE set == Mirror(u, socials)
<1> HIDE DEF set
<1>3. ASSUME NEW row \in UserRow PROVE Written(row, set) \in UserRow
  <2>1. row # None BY AcctNoneAssumption
  <2>2. DOMAIN set = {"google", "facebook"} /\ set.google \in Socials \cup {None}
        /\ set.facebook \in Socials \cup {None}
    BY <1>1, <1>2 DEF set, Providers
  <2>3. QED BY <2>1, <2>2 DEF Written, UserRow
<1>4. QED BY <1>2, <1>3 DEF UserPart, set

\* The columns that calls on one account write.
LEMMA UserParts ==
    ASSUME NEW row \in UserRow
    PROVE  /\ \A new \in UserUpdates : UserPart(Changed(row, new))
           /\ UserPart([password |-> TRUE])
           /\ UserPart([gone |-> TRUE])
           /\ UserPart(Changed(row, [gone |-> FALSE]))
           /\ UserPart(Changed(row, Verified(row)))
<1> SUFFICES ASSUME NEW old \in UserRow
    PROVE  /\ \A new \in UserUpdates : Written(old, Changed(row, new)) \in UserRow
           /\ Written(old, [password |-> TRUE]) \in UserRow
           /\ Written(old, [gone |-> TRUE]) \in UserRow
           /\ Written(old, Changed(row, [gone |-> FALSE])) \in UserRow
           /\ Written(old, Changed(row, Verified(row))) \in UserRow
  BY DEF UserPart
<1>1. old # None BY AcctNoneAssumption
<1>2. ASSUME NEW new \in UserUpdates PROVE Written(old, Changed(row, new)) \in UserRow
  <2>1. CASE new \in [email : Emails \cup {None}]
    BY <2>1, <1>1 DEF Written, Changed, UserRow
  <2>2. CASE new \in [phone : Phones \cup {None}]
    BY <2>2, <1>1 DEF Written, Changed, UserRow
  <2>3. CASE new \in [status : UserStatuses]
    BY <2>3, <1>1 DEF Written, Changed, UserRow
  <2>4. QED BY <2>1, <2>2, <2>3 DEF UserUpdates
<1>3. Written(old, [password |-> TRUE]) \in UserRow BY <1>1 DEF Written, UserRow
<1>4. Written(old, [gone |-> TRUE]) \in UserRow BY <1>1 DEF Written, UserRow
<1>5. Written(old, Changed(row, [gone |-> FALSE])) \in UserRow BY <1>1 DEF Written, Changed, UserRow
<1>6. Written(old, Changed(row, Verified(row))) \in UserRow
  <2> DEFINE new == Verified(row)
  <2>0. row.status \in UserStatuses BY DEF UserRow
  <2>1. new \in [verified : {TRUE}, status : UserStatuses]
    <3>1. CASE row.status = "pending" BY <3>1 DEF Verified, UserStatuses
    <3>2. CASE row.status # "pending" BY <2>0, <3>2 DEF Verified
    <3>3. QED BY <3>1, <3>2
  <2> HIDE DEF new
  <2> DEFINE set == Changed(row, new)
  <2>2. /\ DOMAIN set \subseteq {"verified", "status"}
        /\ "verified" \in DOMAIN set => set.verified \in BOOLEAN
        /\ "status" \in DOMAIN set => set.status \in UserStatuses
    BY <2>1 DEF Changed
  <2> HIDE DEF set
  <2>3. Written(old, set) \in UserRow BY <2>2, <1>1 DEF Written, UserRow
  <2>4. QED BY <2>3 DEF set, new
<1>7. QED BY <1>2, <1>3, <1>4, <1>5, <1>6

\* A new account is a row without a provider's account.
LEMMA FreshRow ==
    ASSUME NEW email \in Emails \cup {None}, NEW phone \in Phones \cup {None},
           NEW pw \in BOOLEAN, NEW status \in UserStatuses, NEW verified \in BOOLEAN
    PROVE  /\ Fresh(email, phone, pw, status, verified) \in UserRow
           /\ Fresh(email, phone, pw, status, verified).google = None
           /\ Fresh(email, phone, pw, status, verified).facebook = None
  BY DEF Fresh, UserRow

\* Calls on one account.
LEMMA UserBegins ==
    ASSUME AcctInv, NEW r \in Requests, NEW u \in Users, UserCalls(r, u)
    PROVE  AcctBegan(r)
<1>1. users[u] # None => users[u] \in UserRow BY DEF AcctInv, AcctTypeOK
<1>2. ASSUME NEW set, users[u] # None, UserPart(set),
             Begin(r, [op |-> "user", id |-> u, set |-> set]),
             DOMAIN set \cap Providers = {},
             "password" \in DOMAIN set => set.password,
             {"status", "verified"} \subseteq DOMAIN set => users[u].status = "pending"
      PROVE  AcctBegan(r)
  <2> DEFINE c == [op |-> "user", id |-> u, set |-> set]
  <2>1. AcctCallOK(c) BY <1>2 DEF AcctCallOK
  <2>2. AcctKnows(c) BY <1>2 DEF AcctKnows
  <2>3. QED BY <1>2, <2>1, <2>2 DEF AcctBegan
<1>3. ASSUME NEW email \in Emails \cup {None}, NEW phone \in Phones \cup {None},
             NEW pw \in BOOLEAN, CreateUser(r, u, email, phone, pw)
      PROVE  AcctBegan(r)
  <2> DEFINE row == Fresh(email, phone, pw, "pending", FALSE)
             c == [op |-> "user", id |-> u, set |-> row]
  <2>1. row \in UserRow /\ row.google = None /\ row.facebook = None
    BY FreshRow DEF UserStatuses
  <2> HIDE DEF row
  <2>2. users[u] = None /\ Begin(r, c) BY <1>3 DEF CreateUser, row
  <2>3. UserPart(row)
    BY <2>1, AcctNoneAssumption DEF UserPart, Written, UserRow
  <2>4. AcctCallOK(c) BY <2>1, <2>3 DEF AcctCallOK
  <2>5. AcctKnows(c) BY <2>1, <2>2 DEF AcctKnows
  <2>6. QED BY <2>2, <2>4, <2>5 DEF AcctBegan
<1>4. ASSUME NEW new \in UserUpdates, UpdateUser(r, u, new) PROVE AcctBegan(r)
  <2>1. users[u] # None /\ Begin(r, [op |-> "user", id |-> u, set |-> Changed(users[u], new)])
    BY <1>4 DEF UpdateUser, Live
  <2>2. UserPart(Changed(users[u], new)) BY <1>1, <2>1, UserParts
  <2>3. DOMAIN Changed(users[u], new) \subseteq DOMAIN new BY DEF Changed
  <2>4. DOMAIN new \in {{"email"}, {"phone"}, {"status"}} BY DEF UserUpdates
  <2>5. QED BY <1>2, <2>1, <2>2, <2>3, <2>4 DEF Providers
<1>5. ASSUME SetPassword(r, u) PROVE AcctBegan(r)
  <2>1. UserPart([password |-> TRUE]) BY <1>1, <1>5, UserParts DEF SetPassword, Live
  <2>2. QED BY <1>2, <1>5, <2>1 DEF SetPassword, Live, Providers
<1>6. ASSUME DeleteUser(r, u) PROVE AcctBegan(r)
  <2>1. UserPart([gone |-> TRUE]) BY <1>1, <1>6, UserParts DEF DeleteUser, Live
  <2>2. QED BY <1>2, <1>6, <2>1 DEF DeleteUser, Live, Providers
<1>7. ASSUME RestoreUser(r, u) PROVE AcctBegan(r)
  <2> DEFINE set == Changed(users[u], [gone |-> FALSE])
  <2>1. UserPart(set) BY <1>1, <1>7, UserParts DEF RestoreUser
  <2>2. DOMAIN set \subseteq {"gone"} BY DEF Changed
  <2>3. users[u] # None /\ Begin(r, [op |-> "user", id |-> u, set |-> set])
    BY <1>7 DEF RestoreUser
  <2> HIDE DEF set
  <2>4. QED BY <1>2, <2>1, <2>2, <2>3 DEF Providers
<1>8. ASSUME VerifyEmail(r, u) PROVE AcctBegan(r)
  <2> DEFINE set == Changed(users[u], Verified(users[u]))
  <2>1. UserPart(set) BY <1>1, <1>8, UserParts DEF VerifyEmail, Live
  <2>2. DOMAIN set \subseteq {"verified", "status"} BY DEF Changed, Verified
  <2>3. "status" \in DOMAIN set => users[u].status = "pending" BY DEF Changed, Verified
  <2>4. users[u] # None /\ Begin(r, [op |-> "user", id |-> u, set |-> set])
    BY <1>8 DEF VerifyEmail, Live
  <2> HIDE DEF set
  <2>5. QED BY <1>2, <2>1, <2>2, <2>3, <2>4 DEF Providers
<1>9. QED BY <1>3, <1>4, <1>5, <1>6, <1>7, <1>8 DEF UserCalls

\* Calls on identities, and sign-ins by a provider.
LEMMA IdentityBegins ==
    ASSUME AcctInv, NEW r \in Requests, NEW u \in Users,
           IdentityCalls(r, u) \/ SocialCalls(r, u)
    PROVE  AcctBegan(r)
<1>1. ASSUME NEW v \in Users, NEW s \in Socials, users[v] # None,
             Begin(r, [op |-> "link", id |-> v, social |-> s])
      PROVE  AcctBegan(r)
  <2> DEFINE c == [op |-> "link", id |-> v, social |-> s]
  <2>1. AcctCallOK(c) BY <1>1 DEF AcctCallOK
  <2>2. AcctKnows(c) BY DEF AcctKnows
  <2>3. QED BY <1>1, <2>1, <2>2 DEF AcctBegan
<1>2. ASSUME NEW s \in Socials, Link(r, u, s) PROVE AcctBegan(r)
  BY <1>1, <1>2 DEF Link, Live
<1>3. ASSUME NEW p \in Providers, Unlink(r, u, p) PROVE AcctBegan(r)
  <2> DEFINE c == [op |-> "unlink", id |-> u, provider |-> p]
  <2>1. AcctCallOK(c) BY <1>3 DEF AcctCallOK, Unlink, Live
  <2>2. AcctKnows(c) BY <1>3 DEF AcctKnows, Unlink
  <2>3. QED BY <1>3, <2>1, <2>2 DEF AcctBegan, Unlink
<1>4. ASSUME NEW s \in Socials, NEW email, NEW verified, SocialLink(r, s, email, verified)
      PROVE  AcctBegan(r)
  BY <1>1, <1>4 DEF SocialLink, WithEmail, Live
<1>5. ASSUME NEW s \in Socials, NEW email \in Emails, NEW verified \in BOOLEAN,
             SocialCreate(r, u, s, email, verified)
      PROVE  AcctBegan(r)
  <2> DEFINE born == Fresh(email, None, FALSE, "active", verified)
             mirror == Mirror(u, {s})
             row == Written(born, mirror)
             c == [op |-> "register", id |-> u, social |-> s, set |-> row]
  <2>1. born \in UserRow BY FreshRow DEF UserStatuses
  <2>2. UserPart(mirror) /\ DOMAIN mirror = Providers /\ Mirrors(mirror, {s})
    <3> DEFINE one == {s}
    <3>1. one \in SUBSET Socials /\ \A t, v \in one : t.provider = v.provider => t = v OBVIOUS
    <3> HIDE DEF one
    <3>2. Mirrors(Mirror(u, one), one) BY <3>1, MirrorOf
    <3>3. UserPart(Mirror(u, one)) /\ DOMAIN Mirror(u, one) = Providers BY <3>1, MirrorPart
    <3>4. QED BY <3>2, <3>3 DEF one
  <2> HIDE DEF born, mirror
  <2>3. row \in UserRow BY <2>1, <2>2 DEF UserPart
  <2>4. \A p \in Providers : row[p] = mirror[p]
    <3>1. born # None BY <2>1, AcctNoneAssumption
    <3>2. Providers \subseteq DOMAIN born BY <2>1 DEF UserRow, Providers
    <3>3. QED BY <3>1, <3>2, <2>2 DEF Written
  <2> HIDE DEF row
  <2>5. users[u] = None /\ Begin(r, c) BY <1>5 DEF SocialCreate, row, born, mirror
  <2>6. AcctCallOK(c) BY <2>3 DEF AcctCallOK
  <2>7. AcctKnows(c) BY <2>2, <2>4, <2>5 DEF AcctKnows, Mirrors
  <2>8. QED BY <2>5, <2>6, <2>7 DEF AcctBegan
<1>6. QED BY <1>2, <1>3, <1>4, <1>5 DEF IdentityCalls, SocialCalls


\* A step that only moves one call on.
LEMMA CallMovesOn ==
    ASSUME CallsInv, AcctInv, MirrorInv, NEW r \in Requests, NEW c, Moves(r, c),
           UNCHANGED acctVars,
           c # None => AcctCallOK(c) /\ (Alone => AcctKnows(c)),
           c # None /\ c.op = "linking" =>
              \A q \in Requests \ {r} : Doing(q, "linking") =>
                  Apart(Pair(call[q]), Pair(c)) /\ Apart(Pair(c), Pair(call[q])),
           Alone => \A q \in Requests \ {r} : call[q] = None
    PROVE  CallsStep /\ AcctInv' /\ MirrorInv'
<1>1. call'[r] = c /\ (\A q \in Requests \ {r} : call'[q] = call[q]) /\ load' = load
  BY Moved
<1>2. UNCHANGED <<users, ids>> BY DEF acctVars
<1>3. ASSUME NEW q \in Requests, call'[q] # None PROVE AcctCallOK(call[q])'
  <2>1. AcctCallOK(call'[q])
    <3>1. CASE q = r BY <3>1, <1>1, <1>3
    <3>2. CASE q # r BY <3>2, <1>1, <1>3 DEF AcctInv
    <3>3. QED BY <3>1, <3>2
  <2>2. QED BY <2>1, <1>2 DEF AcctCallOK
<1>4. ASSUME NEW p \in Requests, NEW q \in Requests, p # q,
             Doing(p, "linking")', Doing(q, "linking")'
      PROVE  Apart(Pair(call[p]), Pair(call[q]))'
  <2>1. Apart(Pair(call'[p]), Pair(call'[q]))
    <3>1. CASE p = r /\ q # r BY <3>1, <1>1, <1>4 DEF Doing
    <3>2. CASE p # r /\ q = r BY <3>2, <1>1, <1>4 DEF Doing
    <3>3. CASE p # r /\ q # r BY <3>3, <1>1, <1>4 DEF Doing, AcctInv
    <3>4. QED BY <3>1, <3>2, <3>3, <1>4
  <2>2. QED BY <2>1 DEF Apart, Pair
<1>5. AcctInv'
  <2>1. AcctTypeOK' BY <1>2 DEF AcctInv, AcctTypeOK
  <2>2. \A u \in Users : users'[u] # None => Accepted(users[u], u)'
    BY <1>2 DEF AcctInv, Accepted, GuardIdentifiers, CopiesFree, Taken
  <2>3. (\A i, j \in ids' : i # j => Apart(i, j)) /\ \A i \in ids' : users'[i.user] # None
    BY <1>2 DEF AcctInv
  <2>4. QED BY <2>1, <2>2, <2>3, <1>3, <1>4 DEF AcctInv
<1>6. MirrorInv'
  <2> SUFFICES ASSUME Alone'
               PROVE  /\ \A q \in Requests : call'[q] # None => AcctKnows(call[q])'
                      /\ \A u \in Users : users'[u] # None => Mirrors(users[u], Linked(u))'
    BY DEF MirrorInv
  <2>1. Alone BY <1>1 DEF Alone
  <2>2. ASSUME NEW q \in Requests, call'[q] # None PROVE AcctKnows(call[q])'
    <3>1. q = r BY <2>2, <2>1, <1>1
    <3>2. AcctKnows(call'[q]) BY <3>1, <2>1, <2>2, <1>1
    <3>3. QED BY <3>2, <1>2 DEF AcctKnows, Mirrors, Linked, LeavesWayIn
  <2>3. \A u \in Users : users'[u] # None => Mirrors(users[u], Linked(u))'
    BY <2>1, <1>2 DEF MirrorInv, Mirrors, Linked
  <2>4. QED BY <2>2, <2>3
<1>7. QED BY <1>5, <1>6 DEF CallsStep

\* A call begins.
LEMMA AcctBeganKeeps ==
    ASSUME CallsInv, AcctInv, MirrorInv, NEW r \in Requests, AcctBegan(r), UNCHANGED acctVars
    PROVE  CallsStep /\ AcctInv' /\ MirrorInv'
<1> PICK c : Begin(r, c) /\ AcctCallOK(c) /\ AcctKnows(c) /\ c.op # "linking" BY DEF AcctBegan
<1>1. Moves(r, c) BY BeginMoves
<1>2. Alone => \A q \in Requests \ {r} : call[q] = None BY BeginsAlone
<1>3. QED BY <1>1, <1>2, CallMovesOn

\* A request dies.
LEMMA AcctDies ==
    ASSUME CallsInv, AcctInv, MirrorInv, NEW r \in Requests, Die(r), UNCHANGED acctVars
    PROVE  CallsStep /\ AcctInv' /\ MirrorInv'
<1>1. Moves(r, None) BY EndMoves DEF Die
<1>2. Alone => \A q \in Requests \ {r} : call[q] = None BY OneCall DEF Die
<1>3. QED BY <1>1, <1>2, CallMovesOn

\* The identities of an account are at different providers.
LEMMA OnePerProvider ==
    ASSUME AcctInv, NEW u
    PROVE  Linked(u) \in SUBSET Socials /\ \A s, t \in Linked(u) : s.provider = t.provider => s = t
<1>1. Linked(u) \in SUBSET Socials BY DEF Linked, AcctInv, AcctTypeOK, Identity
<1>2. ASSUME NEW s \in Linked(u), NEW t \in Linked(u), s.provider = t.provider PROVE s = t
  <2>1. PICK i \in ids : i.user = u /\ i.social = s BY DEF Linked
  <2>2. PICK j \in ids : j.user = u /\ j.social = t BY DEF Linked
  <2>3. i = j BY <2>1, <2>2, <1>2 DEF AcctInv, Apart
  <2>4. QED BY <2>1, <2>2, <2>3
<1>3. QED BY <1>1, <1>2

\* An identity is inserted.
LEMMA InsertIdentityKeeps ==
    ASSUME CallsInv, AcctInv, MirrorInv, NEW r \in Requests, InsertIdentity(r)
    PROVE  CallsStep /\ AcctInv' /\ MirrorInv'
<1> DEFINE u == call[r].id
           s == call[r].social
           socials == Linked(u) \cup {s}
           set == Mirror(u, socials)
           c == [op |-> "linking", id |-> u, social |-> s, set |-> set]
<1>1. /\ Doing(r, "link") /\ Insertable(u, s)
      /\ call' = [call EXCEPT ![r] = c] /\ UNCHANGED <<load, made, acctVars>>
  BY DEF InsertIdentity
<1>2. u \in Users /\ users[u] # None /\ s \in Socials /\ call[r] # None
  BY <1>1 DEF Doing, AcctInv, AcctCallOK
<1>3. \A i \in ids : Apart(i, Pair(c)) BY <1>1 DEF Insertable, Apart, Pair
<1>4. ASSUME NEW q \in Requests \ {r}, Doing(q, "linking")
      PROVE  Apart(Pair(call[q]), Pair(c)) /\ Apart(Pair(c), Pair(call[q]))
  <2>1. call[q] \in Uncommitted("linking") BY <1>4 DEF Uncommitted
  <2>2. Pair(call[q]).social # s
        /\ (Pair(call[q]).user = u => Pair(call[q]).social.provider # s.provider)
    BY <2>1, <1>1 DEF Insertable, Pair
  <2>3. QED BY <2>2 DEF Apart, Pair
<1>5. socials \in SUBSET Socials /\ \A v, t \in socials : v.provider = t.provider => v = t
  <2>1. Linked(u) \in SUBSET Socials /\ \A v, t \in Linked(u) : v.provider = t.provider => v = t
    BY OnePerProvider
  <2>2. \A t \in Linked(u) : t.provider # s.provider BY <1>3 DEF Linked, Apart, Pair
  <2>3. QED BY <2>1, <2>2, <1>2
<1> HIDE DEF socials
<1>6. UserPart(set) /\ DOMAIN set = Providers /\ Mirrors(set, socials)
  BY <1>5, MirrorOf, MirrorPart
<1> HIDE DEF set
<1>7. AcctCallOK(c) BY <1>2, <1>3, <1>6 DEF AcctCallOK
<1>8. AcctKnows(c) BY <1>6 DEF AcctKnows, socials
<1>9. Moves(r, c) BY <1>1, <1>2 DEF Moves, CallsInv
<1>10. Alone => \A q \in Requests \ {r} : call[q] = None BY <1>2, OneCall
<1>11. UNCHANGED acctVars BY <1>1
<1> HIDE DEF c
<1>12. QED BY <1>4, <1>7, <1>8, <1>9, <1>10, <1>11, CallMovesOn

\* An identity is deleted.
LEMMA DeleteIdentityKeeps ==
    ASSUME CallsInv, AcctInv, MirrorInv, NEW r \in Requests, DeleteIdentity(r)
    PROVE  CallsStep /\ AcctInv' /\ MirrorInv'
<1> DEFINE u == call[r].id
           p == call[r].provider
           rest == {s \in Linked(u) : s.provider # p}
           set == Mirror(u, rest)
           c == [op |-> "unlinking", id |-> u, provider |-> p, set |-> set]
<1>1. /\ Doing(r, "unlink")
      /\ call' = [call EXCEPT ![r] = c] /\ UNCHANGED <<load, made, acctVars>>
  BY DEF DeleteIdentity
<1>2. u \in Users /\ users[u] # None /\ call[r] # None /\ call[r].op = "unlink"
  BY <1>1 DEF Doing, AcctInv, AcctCallOK
<1>3. rest \in SUBSET Socials /\ \A v, t \in rest : v.provider = t.provider => v = t
  BY OnePerProvider
<1> HIDE DEF rest
<1>4. UserPart(set) /\ DOMAIN set = Providers /\ Mirrors(set, rest)
  BY <1>3, MirrorOf, MirrorPart
<1> HIDE DEF set
<1>5. AcctCallOK(c) BY <1>2, <1>4 DEF AcctCallOK
<1>6. Alone => AcctKnows(c)
  <2>1. Alone => LeavesWayIn(u, p) /\ \E s \in Linked(u) : s.provider = p
    BY <1>2 DEF MirrorInv, AcctKnows
  <2>2. QED BY <2>1, <1>4 DEF AcctKnows, rest
<1>7. Moves(r, c) BY <1>1, <1>2 DEF Moves, CallsInv
<1>8. Alone => \A q \in Requests \ {r} : call[q] = None BY <1>2, OneCall
<1>9. UNCHANGED acctVars BY <1>1
<1>10. c.op # "linking" OBVIOUS
<1> HIDE DEF c
<1>11. QED BY <1>5, <1>6, <1>7, <1>8, <1>9, <1>10, CallMovesOn

\* A row PostgreSQL accepts leaves the other rows acceptable.
LEMMA AcceptedKept ==
    ASSUME AcctInv, NEW u \in Users, NEW row \in UserRow, Accepted(row, u),
           users' = [users EXCEPT ![u] = row]
    PROVE  /\ \A v \in Users : users'[v] # None => Accepted(users[v], v)'
           /\ users' \in [Users -> UserRow \cup {None}]
           /\ \A v \in Users : users[v] # None => users'[v] # None
           /\ users'[u] = row
           /\ \A v \in Users \ {u} : users'[v] = users[v]
<1>1. users \in [Users -> UserRow \cup {None}] BY DEF AcctInv, AcctTypeOK
<1>2. row # None BY AcctNoneAssumption
<1>3. users'[u] = row /\ \A v \in Users \ {u} : users'[v] = users[v] BY <1>1
<1>4. ASSUME NEW v \in Users, users'[v] # None PROVE Accepted(users[v], v)'
  <2>1. ASSUME NEW col PROVE ~Taken(col, users[v][col], v)' <=> (users'[v][col] # None =>
              \A x \in Users \ {v} : users'[x] # None => users'[x][col] # users'[v][col])
    BY DEF Taken
  <2>2. CASE v = u
    <3>1. HasIdentifier(users'[v]) BY <2>2, <1>3 DEF Accepted
    <3>2. ASSUME NEW col, ~Taken(col, row[col], u) PROVE ~Taken(col, users[v][col], v)'
      BY <2>2, <3>2, <1>3 DEF Taken
    <3>3. QED BY <3>1, <3>2 DEF Accepted, GuardIdentifiers, CopiesFree, HasIdentifier
  <2>3. CASE v # u
    <3>1. users'[v] = users[v] /\ users[v] # None /\ Accepted(users[v], v)
      BY <2>3, <1>3, <1>4 DEF AcctInv
    <3>2. HasIdentifier(users'[v]) BY <3>1 DEF Accepted
    <3>3. ASSUME NEW col, ~Taken(col, row[col], u), ~Taken(col, users[v][col], v)
          PROVE  ~Taken(col, users[v][col], v)'
      <4> SUFFICES ASSUME users[v][col] # None, NEW x \in Users \ {v}, users'[x] # None
                   PROVE  users'[x][col] # users[v][col]
        BY <3>1 DEF Taken
      <4>1. CASE x = u
        <5>1. v \in Users \ {u} BY <2>3
        <5>2. ~(row[col] # None /\ users[v] # None /\ users[v][col] = row[col])
          BY <3>3, <5>1 DEF Taken
        <5>3. QED BY <4>1, <5>2, <3>1, <1>3
      <4>2. CASE x # u BY <4>2, <3>3, <1>3 DEF Taken
      <4>3. QED BY <4>1, <4>2
    <3>4. QED BY <3>1, <3>2, <3>3 DEF Accepted, GuardIdentifiers, CopiesFree, HasIdentifier
  <2>4. QED BY <2>2, <2>3
<1>5. QED BY <1>1, <1>2, <1>3, <1>4

\* A row of users is written and the request ends.
LEMMA RowWritten ==
    ASSUME CallsInv, AcctInv, MirrorInv, NEW r \in Requests, call[r] # None, End(r),
           NEW u \in Users, NEW row \in UserRow, Accepted(row, u),
           users' = [users EXCEPT ![u] = row],
           ids' \subseteq Identity,
           \A i, j \in ids' : i # j => Apart(i, j),
           \A i \in ids' : i \in ids \/ i.user = u,
           \A q \in Requests \ {r} : Doing(q, "linking") =>
              \A i \in ids' : Apart(i, Pair(call[q])),
           Alone => /\ Mirrors(row, SocialsIn(ids', u))
                    /\ \A i : i.user # u => (i \in ids' <=> i \in ids)
    PROVE  CallsStep /\ AcctInv' /\ MirrorInv'
<1>1. CallsStep /\ call'[r] = None /\ (\A q \in Requests \ {r} : call'[q] = call[q])
      /\ Alone' = Alone
  BY EndedCalls
<1>2. /\ \A v \in Users : users'[v] # None => Accepted(users[v], v)'
      /\ users' \in [Users -> UserRow \cup {None}]
      /\ \A v \in Users : users[v] # None => users'[v] # None
      /\ users'[u] = row
      /\ \A v \in Users \ {u} : users'[v] = users[v]
  BY AcceptedKept
<1>3. AcctTypeOK' BY <1>2 DEF AcctTypeOK
<1>4. ASSUME NEW q \in Requests, call'[q] # None PROVE AcctCallOK(call[q])'
  <2>1. q \in Requests \ {r} /\ call'[q] = call[q] /\ AcctCallOK(call[q])
    BY <1>4, <1>1 DEF AcctInv
  <2>2. call[q].op = "linking" => \A i \in ids' : Apart(i, Pair(call[q])) BY <2>1, <1>4 DEF Doing
  <2>3. QED BY <2>1, <2>2, <1>2 DEF AcctCallOK, Apart, Pair
<1>5. ASSUME NEW p \in Requests, NEW q \in Requests, p # q,
             Doing(p, "linking")', Doing(q, "linking")'
      PROVE  Apart(Pair(call[p]), Pair(call[q]))'
  <2>1. call'[p] = call[p] /\ call'[q] = call[q] BY <1>5, <1>1 DEF Doing
  <2>2. Apart(Pair(call[p]), Pair(call[q])) BY <2>1, <1>5 DEF Doing, AcctInv
  <2>3. QED BY <2>1, <2>2 DEF Apart, Pair
<1>6. row # None BY AcctNoneAssumption
<1>7. \A i \in ids' : users'[i.user] # None
  <2> TAKE i \in ids'
  <2>1. i.user \in Users BY DEF Identity
  <2>2. CASE i \in ids BY <2>1, <2>2, <1>2 DEF AcctInv
  <2>3. CASE i.user = u BY <2>3, <1>2, <1>6
  <2>4. QED BY <2>2, <2>3
<1>8. AcctInv' BY <1>2, <1>3, <1>4, <1>5, <1>7 DEF AcctInv, Apart
<1>9. MirrorInv'
  <2> SUFFICES ASSUME Alone
               PROVE  /\ \A q \in Requests : call'[q] # None => AcctKnows(call[q])'
                      /\ \A v \in Users : users'[v] # None => Mirrors(users[v], Linked(v))'
    BY <1>1 DEF MirrorInv
  <2>1. \A q \in Requests : call'[q] = None BY EndsAlone
  <2>2. ASSUME NEW v \in Users, users'[v] # None PROVE Mirrors(users[v], Linked(v))'
    <3>1. CASE v = u
      <4>1. Linked(v)' = SocialsIn(ids', u) BY <3>1 DEF Linked, SocialsIn
      <4>2. QED BY <3>1, <4>1, <1>2 DEF Mirrors
    <3>2. CASE v # u
      <4>1. Linked(v)' = Linked(v) BY <3>2 DEF Linked
      <4>2. Mirrors(users[v], Linked(v)) /\ users'[v] = users[v] BY <3>2, <2>2, <1>2 DEF MirrorInv
      <4>3. QED BY <4>1, <4>2 DEF Mirrors
    <3>3. QED BY <3>1, <3>2
  <2>3. QED BY <2>1, <2>2
<1>10. QED BY <1>1, <1>8, <1>9

\* The UPDATE of users, with what was done to the identities.
LEMMA WriteUserKeeps ==
    ASSUME CallsInv, AcctInv, MirrorInv, NEW r \in Requests, WriteUser(r)
    PROVE  CallsStep /\ AcctInv' /\ MirrorInv'
<1> DEFINE c == call[r]
           u == c.id
           row == Written(users[u], c.set)
<1>1. /\ Doing(r, "user") \/ Doing(r, "linking") \/ Doing(r, "unlinking")
      /\ Accepted(row, u) /\ users' = [users EXCEPT ![u] = row] /\ End(r)
      /\ ids' = CASE Doing(r, "linking") -> ids \cup {[user |-> u, social |-> c.social]}
                  [] Doing(r, "unlinking") ->
                       {i \in ids : ~(i.user = u /\ i.social.provider = c.provider)}
                  [] OTHER -> ids
  BY DEF WriteUser
<1>2. c # None /\ c.op \in {"user", "linking", "unlinking"} /\ AcctCallOK(c)
  BY <1>1 DEF Doing, AcctInv
<1>3. u \in Users BY <1>2 DEF AcctCallOK
<1>4. users[u] \in UserRow \cup {None} BY <1>3 DEF AcctInv, AcctTypeOK
<1>5. row \in UserRow
  <2>1. CASE users[u] = None
    <3>1. c.set \in UserRow BY <1>2, <2>1 DEF AcctCallOK
    <3>2. QED BY <2>1, <3>1 DEF Written
  <2>2. CASE users[u] # None
    <3>1. users[u] \in UserRow /\ UserPart(c.set) BY <1>2, <1>4, <2>2 DEF AcctCallOK
    <3>2. QED BY <3>1 DEF UserPart
  <2>3. QED BY <2>1, <2>2
<1>6. Alone => AcctKnows(c) BY <1>2 DEF MirrorInv
<1>7. Alone => (users[u] # None => Mirrors(users[u], Linked(u))) BY <1>3 DEF MirrorInv
<1>8. users[u] # None /\ DOMAIN c.set = Providers => \A p \in Providers : row[p] = c.set[p]
  <2> SUFFICES ASSUME users[u] # None, DOMAIN c.set = Providers
               PROVE  \A p \in Providers : row[p] = c.set[p]
    OBVIOUS
  <2>1. users[u] \in UserRow BY <1>4
  <2>2. Providers \subseteq DOMAIN users[u] BY <2>1 DEF UserRow, Providers
  <2>3. QED BY <2>2 DEF Written
<1>9. CASE c.op = "user"
  <2>1. ids' = ids BY <1>1, <1>9 DEF Doing
  <2>2. ids \subseteq Identity BY DEF AcctInv, AcctTypeOK
  <2>3. \A i, j \in ids' : i # j => Apart(i, j) BY <2>1 DEF AcctInv
  <2>4. \A q \in Requests \ {r} : Doing(q, "linking") => \A i \in ids' : Apart(i, Pair(call[q]))
    BY <2>1 DEF AcctInv, AcctCallOK, Doing
  <2>5. ASSUME Alone PROVE Mirrors(row, SocialsIn(ids', u))
    <3>1. SocialsIn(ids', u) = Linked(u) BY <2>1 DEF Linked, SocialsIn
    <3>2. CASE users[u] = None
      <4>1. row.google = None /\ row.facebook = None
        BY <3>2, <1>6, <1>9, <2>5 DEF AcctKnows, Written
      <4>2. Linked(u) = {} BY <3>2 DEF Linked, AcctInv
      <4>3. QED BY <4>1, <4>2, <3>1 DEF Mirrors, Providers
    <3>3. CASE users[u] # None
      <4>1. DOMAIN c.set \cap Providers = {} BY <3>3, <1>6, <1>9, <2>5 DEF AcctKnows
      <4>2. users[u] \in UserRow BY <1>4, <3>3
      <4>3. Providers \subseteq DOMAIN users[u] BY <4>2 DEF UserRow, Providers
      <4>4. \A p \in Providers : row[p] = users[u][p] BY <4>1, <4>3, <3>3 DEF Written
      <4>5. QED BY <4>4, <3>1, <3>3, <1>7, <2>5 DEF Mirrors
    <3>4. QED BY <3>2, <3>3
  <2> HIDE DEF row
  <2>6. QED BY <1>1, <1>2, <1>3, <1>5, <2>1, <2>2, <2>3, <2>4, <2>5, RowWritten
<1>10. CASE c.op = "linking"
  <2>1. ids' = ids \cup {Pair(c)} BY <1>1, <1>10, <1>2 DEF Doing, Pair
  <2>2. Pair(c).user = u /\ Pair(c) \in Identity /\ Pair(c).social = c.social
    BY <1>2, <1>10 DEF AcctCallOK, Pair, Identity
  <2>3. ids' \subseteq Identity BY <2>1, <2>2 DEF AcctInv, AcctTypeOK
  <2>4. \A i \in ids : Apart(i, Pair(c)) /\ Apart(Pair(c), i)
    BY <1>2, <1>10 DEF AcctCallOK, Apart
  <2>5. \A i, j \in ids' : i # j => Apart(i, j) BY <2>1, <2>4 DEF AcctInv
  <2>6. \A q \in Requests \ {r} : Doing(q, "linking") => \A i \in ids' : Apart(i, Pair(call[q]))
    BY <2>1, <1>2, <1>10 DEF AcctInv, AcctCallOK, Doing
  <2>7. ASSUME Alone PROVE Mirrors(row, SocialsIn(ids', u))
    <3>1. SocialsIn(ids', u) = Linked(u) \cup {c.social} BY <2>1, <2>2 DEF Linked, SocialsIn
    <3>2. DOMAIN c.set = Providers /\ Mirrors(c.set, Linked(u) \cup {c.social})
      BY <2>7, <1>6, <1>10 DEF AcctKnows
    <3>3. users[u] # None BY <1>2, <1>10 DEF AcctCallOK
    <3>4. QED BY <3>1, <3>2, <3>3, <1>8 DEF Mirrors
  <2>8. \A i : i.user # u => (i \in ids' <=> i \in ids) BY <2>1, <2>2
  <2>9. \A i \in ids' : i \in ids \/ i.user = u BY <2>1, <2>2
  <2> HIDE DEF row
  <2>10. QED BY <1>1, <1>2, <1>3, <1>5, <2>3, <2>5, <2>6, <2>7, <2>8, <2>9, RowWritten
<1>11. CASE c.op = "unlinking"
  <2>1. ids' = {i \in ids : ~(i.user = u /\ i.social.provider = c.provider)}
    BY <1>1, <1>11, <1>2 DEF Doing
  <2>2. ids' \subseteq ids BY <2>1
  <2>3. ids' \subseteq Identity BY <2>2 DEF AcctInv, AcctTypeOK
  <2>4. \A i, j \in ids' : i # j => Apart(i, j) BY <2>2 DEF AcctInv
  <2>5. \A q \in Requests \ {r} : Doing(q, "linking") => \A i \in ids' : Apart(i, Pair(call[q]))
    BY <2>2 DEF AcctInv, AcctCallOK, Doing
  <2>6. ASSUME Alone PROVE Mirrors(row, SocialsIn(ids', u))
    <3>1. SocialsIn(ids', u) = {s \in Linked(u) : s.provider # c.provider} BY <2>1 DEF Linked, SocialsIn
    <3>2. DOMAIN c.set = Providers
          /\ Mirrors(c.set, {s \in Linked(u) : s.provider # c.provider})
      BY <2>6, <1>6, <1>11 DEF AcctKnows
    <3>3. users[u] # None BY <1>2, <1>11 DEF AcctCallOK
    <3>4. QED BY <3>1, <3>2, <3>3, <1>8 DEF Mirrors
  <2>7. \A i : i.user # u => (i \in ids' <=> i \in ids) BY <2>1
  <2> HIDE DEF row
  <2>8. QED BY <1>1, <1>2, <1>3, <1>5, <2>2, <2>3, <2>4, <2>5, <2>6, <2>7, RowWritten
<1>12. QED BY <1>2, <1>9, <1>10, <1>11

\* An account is inserted with the identity it signs in with.
LEMMA WriteRegistrationKeeps ==
    ASSUME CallsInv, AcctInv, MirrorInv, NEW r \in Requests, WriteRegistration(r)
    PROVE  CallsStep /\ AcctInv' /\ MirrorInv'
<1> DEFINE c == call[r]
           u == c.id
           row == c.set
<1>1. /\ Doing(r, "register") /\ Accepted(row, u) /\ Insertable(u, c.social)
      /\ users' = [users EXCEPT ![u] = row] /\ ids' = ids \cup {Pair(c)} /\ End(r)
  BY DEF WriteRegistration, Pair
<1>2. c # None /\ c.op = "register" /\ AcctCallOK(c) BY <1>1 DEF Doing, AcctInv
<1>3. u \in Users /\ row \in UserRow /\ c.social \in Socials BY <1>2 DEF AcctCallOK
<1>4. Pair(c).user = u /\ Pair(c) \in Identity /\ Pair(c).social = c.social
  BY <1>3 DEF Pair, Identity
<1>5. \A i \in ids : Apart(i, Pair(c)) /\ Apart(Pair(c), i)
  BY <1>1 DEF Insertable, Apart, Pair
<1>6. ids' \subseteq Identity BY <1>1, <1>4 DEF AcctInv, AcctTypeOK
<1>7. \A i, j \in ids' : i # j => Apart(i, j) BY <1>1, <1>5 DEF AcctInv
<1>8. ASSUME NEW q \in Requests \ {r}, Doing(q, "linking"), NEW i \in ids'
      PROVE  Apart(i, Pair(call[q]))
  <2>1. CASE i \in ids BY <2>1, <1>8 DEF AcctInv, AcctCallOK, Doing
  <2>2. CASE i = Pair(c)
    <3>1. call[q] \in Uncommitted("linking") BY <1>8 DEF Uncommitted
    <3>2. Pair(call[q]).social # c.social
          /\ (Pair(call[q]).user = u => Pair(call[q]).social.provider # c.social.provider)
      BY <3>1, <1>1 DEF Insertable, Pair
    <3>3. QED BY <2>2, <3>2, <1>4 DEF Apart
  <2>3. QED BY <2>1, <2>2, <1>1
<1>9. ASSUME Alone PROVE Mirrors(row, SocialsIn(ids', u))
  <2>1. users[u] = None /\ Mirrors(row, {c.social})
    BY <1>2, <1>9 DEF MirrorInv, AcctKnows
  <2>2. \A i \in ids : i.user # u BY <2>1 DEF AcctInv
  <2>3. SocialsIn(ids', u) = {c.social} BY <2>2, <1>1, <1>4 DEF SocialsIn
  <2>4. QED BY <2>1, <2>3 DEF Mirrors
<1>10. \A i : i.user # u => (i \in ids' <=> i \in ids) BY <1>1, <1>4
<1>11. \A i \in ids' : i \in ids \/ i.user = u BY <1>1, <1>4
<1>12. QED BY <1>1, <1>2, <1>3, <1>6, <1>7, <1>8, <1>9, <1>10, <1>11, RowWritten

\* Every step of the part.
LEMMA AcctStep ==
    ASSUME CallsInv, AcctInv, MirrorInv, AcctNext
    PROVE  CallsStep /\ AcctInv' /\ MirrorInv'
<1> PICK r \in Requests :
      \/ /\ \E u \in Users : UserCalls(r, u) \/ IdentityCalls(r, u) \/ SocialCalls(r, u)
         /\ UNCHANGED acctVars
      \/ InsertIdentity(r) \/ DeleteIdentity(r)
      \/ WriteUser(r) \/ WriteRegistration(r)
      \/ Die(r) /\ UNCHANGED acctVars
  BY DEF AcctNext
<1>1. CASE /\ \E u \in Users : UserCalls(r, u) \/ IdentityCalls(r, u) \/ SocialCalls(r, u)
           /\ UNCHANGED acctVars
  <2>1. AcctBegan(r) BY <1>1, UserBegins, IdentityBegins
  <2>2. QED BY <1>1, <2>1, AcctBeganKeeps
<1>2. CASE InsertIdentity(r) BY <1>2, InsertIdentityKeeps
<1>3. CASE DeleteIdentity(r) BY <1>3, DeleteIdentityKeeps
<1>4. CASE WriteUser(r) BY <1>4, WriteUserKeeps
<1>5. CASE WriteRegistration(r) BY <1>5, WriteRegistrationKeeps
<1>6. CASE Die(r) /\ UNCHANGED acctVars BY <1>6, AcctDies
<1>7. QED BY <1>1, <1>2, <1>3, <1>4, <1>5, <1>6

\* Off their part, the tables of accounts are empty and stay so.
AcctSite == /\ On("accounts") => CallsInv /\ AcctInv /\ MirrorInv
            /\ ~On("accounts") => users = Nothing(Users) /\ ids = {}

\* The first state of the tables.
LEMMA AcctStarts == ASSUME CallsInit, AcctInit PROVE CallsInv /\ AcctInv /\ MirrorInv
<1>1. CallsInv /\ \A r \in Requests : call[r] = None BY DEF CallsInit, CallsInv
<1> PICK u \in Users, e \in Emails, pw \in BOOLEAN, st \in {"pending", "active"},
         linked \in SUBSET Socials :
      /\ \A s, t \in linked : s.provider = t.provider => s = t
      /\ users = [x \in Users |->
                    IF x = u THEN Written(Fresh(e, None, pw, st, FALSE), Mirror(u, linked))
                    ELSE None]
      /\ ids = {[user |-> u, social |-> s] : s \in linked}
  BY DEF AcctInit
<1> DEFINE born == Fresh(e, None, pw, st, FALSE)
           mirror == Mirror(u, linked)
           row == Written(born, mirror)
<1>2. born \in UserRow /\ born.email = e BY FreshRow DEF UserStatuses, Fresh
<1>3. UserPart(mirror) /\ DOMAIN mirror = Providers /\ Mirrors(mirror, linked)
  BY MirrorOf, MirrorPart
<1>4. users = [x \in Users |-> IF x = u THEN row ELSE None] OBVIOUS
<1> HIDE DEF born, mirror
<1>5. row \in UserRow BY <1>2, <1>3 DEF UserPart
<1>6. row.email = e /\ \A p \in Providers : row[p] = mirror[p]
  <2>1. born # None BY <1>2, AcctNoneAssumption
  <2>2. DOMAIN born = {"email", "phone", "password", "status", "verified", "google",
                       "facebook", "gone"}
    BY <1>2 DEF UserRow
  <2>3. QED BY <2>1, <2>2, <1>2, <1>3 DEF Written, Providers
<1> HIDE DEF row
<1>7. \A v \in Users : users[v] # None => v = u /\ users[v] = row BY <1>4
<1>8. e # None /\ row # None BY <1>5, AcctNoneAssumption
<1>9. Accepted(row, u)
  <2>1. \A col, v : ~Taken(col, v, u) BY <1>7 DEF Taken
  <2>2. QED BY <2>1, <1>6, <1>8 DEF Accepted, HasIdentifier, GuardIdentifiers, CopiesFree
<1>10. AcctTypeOK
  <2>1. users \in [Users -> UserRow \cup {None}] BY <1>4, <1>5
  <2>2. ids \subseteq Identity BY DEF Identity
  <2>3. QED BY <2>1, <2>2 DEF AcctTypeOK
<1>11. AcctInv
  <2>1. ASSUME NEW i \in ids, NEW j \in ids, i # j PROVE Apart(i, j)
    <3>1. PICK s \in linked : i = [user |-> u, social |-> s] OBVIOUS
    <3>2. PICK t \in linked : j = [user |-> u, social |-> t] OBVIOUS
    <3>3. s # t BY <2>1, <3>1, <3>2
    <3>4. i.social = s /\ j.social = t BY <3>1, <3>2
    <3>5. s.provider # t.provider BY <3>3
    <3>6. i.social # j.social /\ i.social.provider # j.social.provider BY <3>3, <3>4, <3>5
    <3>7. QED BY <3>6 DEF Apart
  <2>2. \A i \in ids : users[i.user] # None
    <3>1. users[u] # None BY <1>4, <1>8
    <3>2. \A i \in ids : i.user = u OBVIOUS
    <3>3. QED BY <3>1, <3>2
  <2>3. \A v \in Users : users[v] # None => Accepted(users[v], v) BY <1>7, <1>9
  <2>4. QED BY <2>1, <2>2, <2>3, <1>1, <1>10 DEF AcctInv, Doing
<1>12. MirrorInv
  <2>1. {j \in ids : j.user = u} = ids OBVIOUS
  <2>2. {i.social : i \in ids} = linked
    <3>1. \A s \in linked : [user |-> u, social |-> s] \in ids
                             /\ [user |-> u, social |-> s].social = s
      OBVIOUS
    <3>2. \A i \in ids : i.social \in linked OBVIOUS
    <3>3. QED BY <3>1, <3>2
  <2>3. Linked(u) = linked BY <2>1, <2>2 DEF Linked
  <2>4. Mirrors(row, linked) BY <1>3, <1>6 DEF Mirrors
  <2>5. \A v \in Users : users[v] # None => Mirrors(users[v], Linked(v))
    BY <2>3, <2>4, <1>7
  <2>6. QED BY <2>5, <1>1 DEF MirrorInv
<1>13. QED BY <1>1, <1>11, <1>12

\* Only calls on accounts change their tables, and only they are made on their part.
LEMMA AcctPart ==
    ASSUME [SiteNext]_siteVars
    PROVE  /\ On("accounts") => AcctNext \/ UNCHANGED <<callVars, acctVars>>
           /\ ~On("accounts") => UNCHANGED acctVars
<1>1. CASE UNCHANGED siteVars BY <1>1 DEF siteVars, peopleVars
<1>2. CASE ContentNext /\ UNCHANGED <<peopleVars, officeVars>>
  BY <1>2 DEF ContentNext, peopleVars, On, Kinds
<1>3. CASE PeopleNext /\ UNCHANGED <<treeVars, contentVars, officeVars>>
  BY <1>3 DEF PeopleNext, On
<1>4. CASE OfficeNext /\ UNCHANGED <<treeVars, contentVars, peopleVars>>
  BY <1>4 DEF OfficeNext, peopleVars, On
<1>5. QED BY <1>1, <1>2, <1>3, <1>4 DEF SiteNext

\* Accounts stay as they are when nothing changes.
LEMMA AcctStutters ==
    ASSUME CallsInv, AcctInv, MirrorInv, UNCHANGED <<callVars, acctVars>>
    PROVE  CallsInv' /\ AcctInv' /\ MirrorInv'
<1>1. UNCHANGED <<load, call, made, users, ids>> BY DEF callVars, acctVars
<1>2. CallsInv' BY <1>1 DEF CallsInv
<1>3. AcctInv'
  <2>1. \A r \in Requests : call'[r] # None => AcctCallOK(call[r])'
    BY <1>1 DEF AcctInv, AcctCallOK
  <2>2. \A q, r \in Requests : q # r /\ Doing(q, "linking")' /\ Doing(r, "linking")' =>
          Apart(Pair(call[q]), Pair(call[r]))'
    BY <1>1 DEF AcctInv, Doing, Apart, Pair
  <2>3. \A u \in Users : users'[u] # None => Accepted(users[u], u)'
    BY <1>1 DEF AcctInv, Accepted, GuardIdentifiers, CopiesFree, Taken
  <2>4. QED BY <1>1, <2>1, <2>2, <2>3 DEF AcctInv, AcctTypeOK
<1>4. MirrorInv'
  <2>1. \A r \in Requests : AcctKnows(call[r]) => AcctKnows(call[r])'
    BY <1>1 DEF AcctKnows, Mirrors, Linked, LeavesWayIn
  <2>2. \A u \in Users : Mirrors(users[u], Linked(u)) => Mirrors(users[u], Linked(u))'
    BY <1>1 DEF Mirrors, Linked
  <2>3. Alone' => Alone BY <1>1 DEF Alone
  <2>4. QED BY <1>1, <2>1, <2>2, <2>3 DEF MirrorInv
<1>5. QED BY <1>2, <1>3, <1>4

\* The invariant of the part is one of the site.
LEMMA AcctHolds == SiteSpec => []AcctSite
<1>1. SiteInit => AcctSite
  BY AcctStarts DEF AcctSite, SiteInit, PeopleInit
<1>2. AcctSite /\ [SiteNext]_siteVars => AcctSite'
  <2> SUFFICES ASSUME AcctSite, [SiteNext]_siteVars PROVE AcctSite' OBVIOUS
  <2>1. On("accounts")' <=> On("accounts") BY LoadStays DEF On
  <2>2. CASE On("accounts")
    <3>1. CallsInv' /\ AcctInv' /\ MirrorInv'
      BY <2>2, AcctPart, AcctStep, AcctStutters, CallsKept DEF AcctSite
    <3>2. QED BY <2>1, <2>2, <3>1 DEF AcctSite
  <2>3. CASE ~On("accounts")
    <3>1. UNCHANGED <<users, ids>> BY <2>3, AcctPart DEF acctVars
    <3>2. QED BY <2>1, <2>3, <3>1 DEF AcctSite
  <2>4. QED BY <2>2, <2>3
<1>3. QED BY <1>1, <1>2, PTL DEF SiteSpec

\* However links, unlinks, sign-ins and edits overlap, an address, a number and
\* a provider's account belong to one user; while they do not, the copy in
\* users is that of the identities.
THEOREM DistinctAccounts == SiteSpec => []AccountsDistinct
<1>1. AcctSite => AccountsDistinct
  <2> SUFFICES ASSUME AcctSite PROVE AccountsDistinct OBVIOUS
  <2>1. CASE On("accounts")
    <3>1. AcctInv /\ MirrorInv BY <2>1 DEF AcctSite
    <3>2. QED BY <3>1 DEF AccountsDistinct, AcctInv, Apart, MirrorInv, Mirrors
  <2>2. CASE ~On("accounts")
    <3>1. users = Nothing(Users) /\ ids = {} BY <2>2 DEF AcctSite
    <3>2. \A u \in Users : users[u] = None BY <3>1 DEF Nothing
    <3>3. QED BY <3>1, <3>2 DEF AccountsDistinct
  <2>3. QED BY <2>1, <2>2
<1>2. QED BY <1>1, AcctHolds, PTL

\* While calls do not overlap, a step on accounts takes nobody's last way to
\* sign in, and ends a block only by an edit of the status.
LEMMA OwnerStep ==
    ASSUME CallsInv, AcctInv, MirrorInv, AcctNext, Alone,
           NEW u \in Users, users[u] # None, users'[u] # None
    PROVE  /\ HasWayIn(u) => HasWayIn(u)'
           /\ Blocked(u) /\ ~Blocked(u)' =>
                 \E r \in Requests : call[r] # None /\ "status" \in DOMAIN call[r].set
                                     /\ "verified" \notin DOMAIN call[r].set
<1>1. CASE UNCHANGED acctVars BY <1>1 DEF acctVars, HasWayIn, Blocked, Linked
<1>2. users[u] \in UserRow BY DEF AcctInv, AcctTypeOK
<1>3. ASSUME NEW r \in Requests, WriteRegistration(r)
      PROVE  /\ HasWayIn(u) => HasWayIn(u)'
             /\ Blocked(u)' = Blocked(u)
  <2>1. users[call[r].id] = None
    BY <1>3 DEF WriteRegistration, Doing, MirrorInv, AcctKnows
  <2>2. users'[u] = users[u] BY <1>3, <2>1 DEF WriteRegistration
  <2>3. ids \subseteq ids' BY <1>3 DEF WriteRegistration
  <2>4. QED BY <2>2, <2>3 DEF HasWayIn, Blocked, Linked
<1>4. ASSUME NEW r \in Requests, WriteUser(r)
      PROVE  /\ HasWayIn(u) => HasWayIn(u)'
             /\ Blocked(u) /\ ~Blocked(u)' => /\ call[r] # None
                                              /\ "status" \in DOMAIN call[r].set
                                              /\ "verified" \notin DOMAIN call[r].set
  <2> DEFINE c == call[r]
             row == Written(users[c.id], c.set)
  <2>1. /\ Doing(r, "user") \/ Doing(r, "linking") \/ Doing(r, "unlinking")
        /\ users' = [users EXCEPT ![c.id] = row]
        /\ ids' = CASE Doing(r, "linking") -> ids \cup {[user |-> c.id, social |-> c.social]}
                    [] Doing(r, "unlinking") ->
                         {i \in ids : ~(i.user = c.id /\ i.social.provider = c.provider)}
                    [] OTHER -> ids
    BY <1>4 DEF WriteUser
  <2>2. c # None /\ c.op \in {"user", "linking", "unlinking"} BY <2>1 DEF Doing
  <2>3. AcctKnows(c) BY <2>2 DEF MirrorInv
  <2>4. CASE c.id # u
    <3>1. users'[u] = users[u] BY <2>1, <2>4
    <3>2. Linked(u)' = Linked(u)
      <4>1. \A i : i.user = u => (i \in ids' <=> i \in ids) BY <2>1, <2>2, <2>4 DEF Doing
      <4>2. QED BY <4>1 DEF Linked
    <3>3. QED BY <3>1, <3>2 DEF HasWayIn, Blocked
  <2>5. CASE c.id = u
    <3>1. users'[u] = row BY <2>1, <2>5 DEF AcctInv, AcctTypeOK
    <3>2. \A f \in DOMAIN users[u] :
             row[f] = IF f \in DOMAIN c.set THEN c.set[f] ELSE users[u][f]
      BY <2>5 DEF Written
    <3>3. {"password", "status"} \subseteq DOMAIN users[u] BY <1>2 DEF UserRow
    <3> HIDE DEF row
    <3>4. CASE c.op = "user"
      <4>1. ids' = ids BY <2>1, <3>4 DEF Doing
      <4>2. /\ "password" \in DOMAIN c.set => c.set.password
            /\ {"status", "verified"} \subseteq DOMAIN c.set => users[u].status = "pending"
        BY <2>3, <2>5, <3>4 DEF AcctKnows
      <4>3. users[u].password => row.password BY <4>2, <3>2, <3>3
      <4>4. HasWayIn(u) => HasWayIn(u)' BY <4>1, <4>3, <3>1 DEF HasWayIn, Linked
      <4>5. row.status # users[u].status => "status" \in DOMAIN c.set BY <3>2, <3>3
      <4>6. Blocked(u) => users[u].status # "pending" BY DEF Blocked
      <4>7. Blocked(u) /\ ~Blocked(u)' => row.status # users[u].status BY <3>1 DEF Blocked
      <4>8. QED BY <2>2, <4>2, <4>4, <4>5, <4>6, <4>7
    <3>5. CASE c.op \in {"linking", "unlinking"}
      <4>1. DOMAIN c.set = Providers BY <2>3, <3>5 DEF AcctKnows
      <4>2. row.password = users[u].password /\ row.status = users[u].status
        BY <4>1, <3>2, <3>3 DEF Providers
      <4>3. Blocked(u)' = Blocked(u) BY <4>2, <3>1 DEF Blocked
      <4>4. HasWayIn(u) => users[u].password \/ Linked(u)' # {}
        <5>1. CASE c.op = "linking"
          <6>1. ids \subseteq ids' BY <2>1, <2>2, <5>1 DEF Doing
          <6>2. QED BY <6>1 DEF HasWayIn, Linked
        <5>2. CASE c.op = "unlinking"
          <6>1. ids' = {i \in ids : ~(i.user = u /\ i.social.provider = c.provider)}
            BY <2>1, <2>2, <2>5, <5>2 DEF Doing
          <6>2. LeavesWayIn(u, c.provider) /\ \E s \in Linked(u) : s.provider = c.provider
            BY <2>3, <2>5, <5>2 DEF AcctKnows
          <6>3. PICK s \in Linked(u) : s.provider = c.provider BY <6>2
          <6>4. users[u].password \/ Linked(u) # {s}
            BY <6>2, FS_Singleton DEF LeavesWayIn
          <6>5. ASSUME Linked(u) # {s} PROVE Linked(u)' # {}
            <7>1. PICK t \in Linked(u) : t # s BY <6>3, <6>5
            <7>2. t.provider # c.provider BY <7>1, <6>3, OnePerProvider
            <7>3. PICK i \in ids : i.user = u /\ i.social = t BY <7>1 DEF Linked
            <7>4. i \in ids' BY <6>1, <7>2, <7>3
            <7>5. t \in Linked(u)' BY <7>3, <7>4 DEF Linked
            <7>6. QED BY <7>5
          <6>6. QED BY <6>4, <6>5
        <5>3. QED BY <5>1, <5>2, <3>5
      <4>5. HasWayIn(u) => HasWayIn(u)' BY <4>2, <4>4, <3>1 DEF HasWayIn
      <4>6. QED BY <4>3, <4>5
    <3>6. QED BY <2>2, <3>4, <3>5
  <2>6. QED BY <2>4, <2>5
<1>5. UNCHANGED acctVars \/ (\E r \in Requests : WriteUser(r))
      \/ (\E r \in Requests : WriteRegistration(r))
  BY DEF AcctNext, InsertIdentity, DeleteIdentity
<1>6. QED BY <1>1, <1>3, <1>4, <1>5

\* While calls do not overlap, no call takes a user's last way to sign in, and
\* only an edit of the status ends a block: verifying an address does not.
THEOREM OwnerKeepsAccount == SiteSpec => AccountStaysWithOwner
<1> DEFINE Kept == Alone => \A u \in Users : users[u] # None /\ users'[u] # None =>
          /\ HasWayIn(u) => HasWayIn(u)'
          /\ Blocked(u) /\ ~Blocked(u)' =>
                \E r \in Requests : call[r] # None /\ "status" \in DOMAIN call[r].set
                                    /\ "verified" \notin DOMAIN call[r].set
<1>1. AcctSite /\ [SiteNext]_siteVars => [Kept]_<<callVars, acctVars>>
  <2> SUFFICES ASSUME AcctSite, [SiteNext]_siteVars,
                      ~UNCHANGED <<callVars, acctVars>>, Alone,
                      NEW u \in Users, users[u] # None, users'[u] # None
      PROVE  /\ HasWayIn(u) => HasWayIn(u)'
             /\ Blocked(u) /\ ~Blocked(u)' =>
                   \E r \in Requests : call[r] # None /\ "status" \in DOMAIN call[r].set
                                       /\ "verified" \notin DOMAIN call[r].set
    OBVIOUS
  <2>1. On("accounts") BY DEF AcctSite, Nothing
  <2>2. AcctNext BY <2>1, AcctPart
  <2>3. QED BY <2>1, <2>2, OwnerStep DEF AcctSite
<1>2. QED BY <1>1, AcctHolds, PTL DEF SiteSpec, AccountStaysWithOwner
=============================================================================
