------------------------------- MODULE Access -------------------------------
(***************************************************************************)
(* Roles, permissions and who holds what: app/modules/roles and            *)
(* app/modules/permissions, the roles of an account in                     *)
(* app/modules/users/services/user.py, and the reference seeder.           *)
(*                                                                         *)
(* role_permissions and user_roles are both sets held by an owner, and a   *)
(* call on either is a DELETE of rows it sees and an INSERT of rows it     *)
(* names: ON CONFLICT DO NOTHING, so the order does not matter.  Rows      *)
(* another request has inserted and not committed are not deleted.  Names  *)
(* and descriptions are left out, and so is a role's level: no code but    *)
(* the role's own schema and service reads it.                             *)
(***************************************************************************)
EXTENDS Calls

CONSTANTS
    SystemRoles, CustomRoles,   \* SYSTEM_ROLES and the rest of the roles rows
    SystemCodes, CustomCodes,   \* SYSTEM_PERMISSIONS and other permissions rows
    DefaultGrants,              \* DEFAULT_ROLE_PERMISSIONS: system role -> codes
    Members                     \* users whose roles change

ASSUME DefaultGrantsAssumption == DefaultGrants \in [SystemRoles -> SUBSET SystemCodes]

VARIABLES
    roles, perms,   \* roles, and the codes of permissions
    given,          \* role -> codes granted, user -> roles assigned
    logged,         \* the set its last activity entry names, None if it names none
    unlogged        \* owners whose change was committed by a request that died

accessVars == <<roles, perms, given, logged, unlogged>>

RoleIds == SystemRoles \cup CustomRoles
Codes == SystemCodes \cup CustomCodes
Grantees == RoleIds \cup Members

\* A role, a user and a permission are rows of different tables.
ASSUME TablesAssumption == RoleIds \cap Members = {} /\ RoleIds \cap Codes = {}

RoleRow == [system : BOOLEAN, gone : BOOLEAN]

\* What a request that has written the roles of an account still knows.
EntryCall == [op : {"entry"}, id : Members, held : SUBSET RoleIds,
              add : SUBSET RoleIds, now : SUBSET RoleIds]

\* NULL is no row, and no request in flight is no call.
ASSUME AccessNoneAssumption == None \notin RoleRow \cup EntryCall

AccessTypeOK == /\ roles \in [RoleIds -> RoleRow \cup {None}]
                /\ perms \subseteq Codes
                /\ given \in [Grantees -> SUBSET (Codes \cup RoleIds)]
                /\ logged \in [Grantees -> (SUBSET (Codes \cup RoleIds)) \cup {None}]
                /\ unlogged \subseteq Grantees

(***************************************************************************)
(* Roles and permissions.                                                  *)
(***************************************************************************)
CreateRole(r, ro) ==
    /\ ro \in CustomRoles /\ roles[ro] = None
    /\ Unclaimed(ro)
    /\ Begin(r, [op |-> "role", id |-> ro, set |-> [system |-> FALSE, gone |-> FALSE]])

\* A system role stays: deleting it would lock administrators out.
DeleteRole(r, ro) == /\ Live(roles[ro])
                     /\ ~roles[ro].system
                     /\ Begin(r, [op |-> "role", id |-> ro, set |-> [gone |-> TRUE]])

RestoreRole(r, ro) == /\ roles[ro] # None
                      /\ Begin(r, [op |-> "role", id |-> ro,
                                   set |-> Changed(roles[ro], [gone |-> FALSE])])

SeedRoles(r, ro) ==
    /\ ro \in SystemRoles /\ roles[ro] = None
    /\ Unclaimed(ro)
    /\ Begin(r, [op |-> "role", id |-> ro, set |-> [system |-> TRUE, gone |-> FALSE]])

WriteRole(r) == /\ Doing(r, "role")
                /\ roles' = [roles EXCEPT ![call[r].id] = Written(@, call[r].set)]
                /\ UNCHANGED <<perms, given, logged, unlogged>>
                /\ End(r)

CreatePermission(r, code) == /\ code \in CustomCodes \ perms
                             /\ Unclaimed(code)
                             /\ Begin(r, [op |-> "perm", id |-> code, add |-> {code}, drop |-> {}])

SeedPermissions(r) == /\ ~(SystemCodes \subseteq perms)
                      /\ Begin(r, [op |-> "perm", id |-> None,
                                   add |-> SystemCodes \ perms, drop |-> {}])

Holders(code) == {ro \in RoleIds : code \in given[ro]}

NobodyHolds(code) == Holders(code) = {}

DeletePermission(r, code) == /\ code \in perms \ SystemCodes
                             /\ NobodyHolds(code)
                             /\ Begin(r, [op |-> "perm", id |-> code, add |-> {}, drop |-> {code}])

\* The unique codes, and the CASCADE of role_permissions.permission_id.
WritePermission(r) ==
    /\ Doing(r, "perm")
    /\ call[r].add \cap perms = {}
    /\ perms' = (perms \cup call[r].add) \ call[r].drop
    /\ given' = [o \in Grantees |-> given[o] \ call[r].drop]
    /\ UNCHANGED <<roles, logged, unlogged>>
    /\ End(r)

(***************************************************************************)
(* What an owner holds.                                                    *)
(***************************************************************************)
Give(r, kind, o, drop, add) ==
    Begin(r, [op |-> kind, id |-> o, drop |-> drop, add |-> add, held |-> given[o]])

\* _resolve: codes that exist.
GrantPermissions(r, ro, codes) ==
    Live(roles[ro]) /\ codes \subseteq perms /\ Give(r, "grant", ro, {}, codes)

RevokePermissions(r, ro, codes) ==
    /\ Live(roles[ro])
    /\ codes \subseteq perms
    /\ Give(r, "grant", ro, codes \cap given[ro], {})

ReplacePermissions(r, ro, codes) ==
    Live(roles[ro]) /\ codes \subseteq perms /\ Give(r, "grant", ro, given[ro], codes)

\* Mutant: the entry is compared with the codes asked for, not with the set.
NoteworthyByRequest(c, now) == c.add # {}

\* _record_grant_change, _record_role_change: a change is an entry.
Noteworthy(c, now) == now # c.held

\* The grant, its entry in the same transaction, and the foreign key.
WriteGrant(r) ==
    /\ Doing(r, "grant")
    /\ LET c == call[r]
           now == (given[c.id] \ c.drop) \cup c.add
       IN  /\ c.add \subseteq perms
           /\ given' = [given EXCEPT ![c.id] = now]
           /\ logged' = [logged EXCEPT ![c.id] = IF Noteworthy(c, now) THEN now ELSE @]
    /\ UNCHANGED <<roles, perms, unlogged>>
    /\ End(r)

\* seed_default_role_permissions: roles that hold nothing get their defaults,
\* and the entry counts the grants without naming them.
SeedGrants(r) ==
    /\ \E ro \in SystemRoles : roles[ro] # None /\ given[ro] = {}
    /\ Begin(r, [op |-> "seed", id |-> None,
                 bare |-> {ro \in SystemRoles : roles[ro] # None /\ given[ro] = {}}])

WriteSeed(r) ==
    /\ Doing(r, "seed")
    /\ given' = [o \in Grantees |-> IF o \in call[r].bare
                                  THEN given[o] \cup (DefaultGrants[o] \cap perms) ELSE given[o]]
    /\ logged' = [o \in Grantees |-> IF o \in call[r].bare THEN None ELSE logged[o]]
    /\ UNCHANGED <<roles, perms, unlogged>>
    /\ End(r)

\* _assign_validated_roles: roles that are live.
AssignRoles(r, u, ros) ==
    (\A ro \in ros : Live(roles[ro])) /\ Give(r, "assign", u, {}, ros)

RevokeRoles(r, u, ros) == Give(r, "assign", u, ros \cap given[u], {})

ReplaceRoles(r, u, ros) ==
    (\A ro \in ros : Live(roles[ro])) /\ Give(r, "assign", u, given[u], ros)

\* The roles are committed first and reloaded,
WriteAssignment(r) ==
    /\ Doing(r, "assign")
    /\ LET c == call[r]
           now == (given[c.id] \ c.drop) \cup c.add
       IN  /\ given' = [given EXCEPT ![c.id] = now]
           /\ call' = [call EXCEPT ![r] = [op |-> "entry", id |-> c.id, held |-> c.held,
                                           add |-> c.add, now |-> now]]
    /\ UNCHANGED <<load, made, roles, perms, logged, unlogged>>

\* and the entry is a second transaction.
WriteEntry(r) ==
    /\ Doing(r, "entry")
    /\ LET c == call[r]
       IN  logged' = [logged EXCEPT ![c.id] = IF Noteworthy(c, c.now) THEN c.now ELSE @]
    /\ UNCHANGED <<roles, perms, given, unlogged>>
    /\ End(r)

LoseCall(r) ==
    /\ Die(r)
    /\ unlogged' = IF Doing(r, "entry") THEN unlogged \cup {call[r].id} ELSE unlogged
    /\ UNCHANGED <<roles, perms, given, logged>>

(***************************************************************************)
(* The specification.                                                      *)
(***************************************************************************)
\* An empty database, or one the migrations seeded.
AccessInit ==
    \E seeded \in BOOLEAN :
        /\ roles = [ro \in RoleIds |-> IF seeded /\ ro \in SystemRoles
                                       THEN [system |-> TRUE, gone |-> FALSE] ELSE None]
        /\ perms = IF seeded THEN SystemCodes ELSE {}
        /\ given = [o \in Grantees |-> IF seeded /\ o \in SystemRoles THEN DefaultGrants[o] ELSE {}]
        /\ logged = [o \in Grantees |-> IF o \in Members THEN {} ELSE None]
        /\ unlogged = {}

RoleCalls(r) ==
    \E ro \in RoleIds : CreateRole(r, ro) \/ DeleteRole(r, ro) \/ RestoreRole(r, ro)

PermissionCalls(r) ==
    \E code \in Codes : CreatePermission(r, code) \/ DeletePermission(r, code)

GrantCalls(r) ==
    \E ro \in RoleIds, codes \in SUBSET Codes :
        \/ GrantPermissions(r, ro, codes) \/ RevokePermissions(r, ro, codes)
        \/ ReplacePermissions(r, ro, codes)

AssignmentCalls(r) ==
    \E u \in Members, ros \in SUBSET RoleIds :
        AssignRoles(r, u, ros) \/ RevokeRoles(r, u, ros) \/ ReplaceRoles(r, u, ros)

Seeding(r) == \/ \E ro \in RoleIds : SeedRoles(r, ro)
              \/ SeedPermissions(r) \/ SeedGrants(r)

AccessNext == \E r \in Requests :
    \/ /\ \/ RoleCalls(r) \/ PermissionCalls(r) \/ GrantCalls(r)
          \/ AssignmentCalls(r) \/ Seeding(r)
       /\ UNCHANGED accessVars
    \/ WriteRole(r) \/ WritePermission(r) \/ WriteGrant(r) \/ WriteSeed(r)
    \/ WriteAssignment(r) \/ WriteEntry(r)
    \/ LoseCall(r)

AccessSpec == CallsInit /\ AccessInit /\ [][AccessNext]_<<callVars, accessVars>>

(***************************************************************************)
(* Properties.                                                             *)
(***************************************************************************)
Quiet(o) == \A r \in Requests : call[r] # None => call[r].id \notin {o, None}

\* _record_role_change, _record_grant_change: while calls do not overlap, the
\* last entry about a role or an account names what it holds now, unless the
\* request that changed the roles of an account died before its entry.  No
\* other call takes what it holds: a permission is deleted when nobody does.
AuthorityIsLogged ==
    Alone => \A o \in Grantees :
        Quiet(o) /\ o \notin unlogged /\ logged[o] # None => logged[o] = given[o]
=============================================================================
