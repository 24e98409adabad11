------------------------------ MODULE Accounts ------------------------------
(***************************************************************************)
(* Accounts and the Google and Facebook accounts they sign in with,        *)
(* app/modules/users and the sign-in of app/modules/auth/services/oauth.py.*)
(*                                                                         *)
(* Linking writes user_identities, whose rows are unique per account of    *)
(* the provider and per user and provider, and then rebuilds the copy in   *)
(* users from a SELECT of the rows it can see: committed ones and its own. *)
(* A link or an unlink is three steps: load and check; INSERT or DELETE    *)
(* and that SELECT; UPDATE of users and commit.  An INSERT keeps the users *)
(* row from having a unique column changed by another request until it     *)
(* commits (the foreign key's KEY SHARE lock); two links that wait for     *)
(* each other so are a deadlock PostgreSQL ends by cancelling one.         *)
(*                                                                         *)
(* What signing in does with an account is the module AuthSessions; names, *)
(* languages and profile texts decide nothing and are left out.            *)
(***************************************************************************)
EXTENDS Calls

CONSTANTS
    Users,      \* users rows, existing or to be created
    Emails, Phones,
    Socials     \* accounts at a provider: [provider, id]

VARIABLES
    users, ids  \* users, and user_identities as [user, social]

acctVars == <<users, ids>>

Providers == {"google", "facebook"}     \* PROVIDER_ID_COLUMNS
UserStatuses == {"pending", "active", "suspended", "deactivated"}

UserRow == [email : Emails \cup {None}, phone : Phones \cup {None},
            password : BOOLEAN, status : UserStatuses, verified : BOOLEAN,
            google : Socials \cup {None}, facebook : Socials \cup {None},
            gone : BOOLEAN]
Identity == [user : Users, social : Socials]

\* NULL is no row, no address, no number and no account at a provider.
ASSUME AcctNoneAssumption == None \notin UserRow \cup Emails \cup Phones \cup Socials

AcctTypeOK == /\ users \in [Users -> UserRow \cup {None}]
              /\ ids \subseteq Identity

Linked(u) == {i.social : i \in {j \in ids : j.user = u}}
OwnerOf(s) == {i.user : i \in {j \in ids : j.social = s}}

\* email_exists, phone_exists: deleted rows count, as they do in the index.
Taken(col, v, self) == v # None /\ \E u \in Users \ {self} : users[u] # None /\ users[u][col] = v

GuardIdentifiers(row, self) == ~Taken("email", row.email, self) /\ ~Taken("phone", row.phone, self)

\* user_has_an_identifier, the CHECK of the table.
HasIdentifier(row) == row.email # None \/ row.phone # None

\* The copies are unique columns too.
CopiesFree(row, self) == /\ ~Taken("google", row.google, self)
                         /\ ~Taken("facebook", row.facebook, self)

\* What PostgreSQL accepts as the row of u.
Accepted(row, u) == HasIdentifier(row) /\ GuardIdentifiers(row, u) /\ CopiesFree(row, u)

\* Mutant: a rebuilt copy keeps what it no longer finds.
MirrorPatched(u, socials) ==
    [p \in {s.provider : s \in socials} |-> CHOOSE s \in socials : s.provider = p]

\* _sync_social_columns: the copy of these rows; social_provider and
\* is_social_login follow from it.
Mirror(u, socials) ==
    [p \in Providers |-> IF \E s \in socials : s.provider = p
                         THEN CHOOSE s \in socials : s.provider = p ELSE None]

(***************************************************************************)
(* Calls that write one users row.                                         *)
(***************************************************************************)
Fresh(email, phone, password, status, verified) ==
    [email |-> email, phone |-> phone, password |-> password, status |-> status,
     verified |-> verified, google |-> None, facebook |-> None, gone |-> FALSE]

CreateUser(r, u, email, phone, password) ==
    LET row == Fresh(email, phone, password, "pending", FALSE)
    IN  /\ users[u] = None
        /\ Unclaimed(u)
        /\ HasIdentifier(row)
        /\ GuardIdentifiers(row, u)
        /\ Begin(r, [op |-> "user", id |-> u, set |-> row])

\* UserUpdate by an administrator, and by the owner without the status.
UserUpdates == [email : Emails \cup {None}] \cup [phone : Phones \cup {None}]
               \cup [status : UserStatuses]

UpdateUser(r, u, new) ==
    /\ Live(users[u])
    /\ HasIdentifier(Written(users[u], new))
    /\ GuardIdentifiers(Written(users[u], new), u)
    /\ Begin(r, [op |-> "user", id |-> u, set |-> Changed(users[u], new)])

SetPassword(r, u) == /\ Live(users[u])
                     /\ Begin(r, [op |-> "user", id |-> u, set |-> [password |-> TRUE]])

DeleteUser(r, u) == /\ Live(users[u])
                    /\ Begin(r, [op |-> "user", id |-> u, set |-> [gone |-> TRUE]])

RestoreUser(r, u) == /\ users[u] # None
                     /\ Begin(r, [op |-> "user", id |-> u,
                                  set |-> Changed(users[u], [gone |-> FALSE])])

\* _mark_verified: a pending account becomes active.
Verified(row) == [verified |-> TRUE,
                  status |-> IF row.status = "pending" THEN "active" ELSE row.status]

VerifyEmail(r, u) == /\ Live(users[u])
                     /\ Begin(r, [op |-> "user", id |-> u,
                                  set |-> Changed(users[u], Verified(users[u]))])

(***************************************************************************)
(* Linking and unlinking.                                                  *)
(***************************************************************************)
\* link_social_account
Link(r, u, s) ==
    /\ Live(users[u])
    /\ OwnerOf(s) = {}
    /\ \A t \in Linked(u) : t.provider # s.provider
    /\ Begin(r, [op |-> "link", id |-> u, social |-> s])

\* Mutant: the last account is unlinked from a user without a password.
LeavesWayInAlways(u, p) == TRUE

\* An account without a password keeps its last identity.
LeavesWayIn(u, p) == users[u].password \/ Cardinality(Linked(u)) # 1

\* unlink_social_account
Unlink(r, u, p) ==
    /\ Live(users[u])
    /\ \E s \in Linked(u) : s.provider = p
    /\ LeavesWayIn(u, p)
    /\ Begin(r, [op |-> "unlink", id |-> u, provider |-> p])

\* Rows another request has inserted or deleted and not committed.
Uncommitted(op) == {call[q] : q \in {x \in Requests : Doing(x, op)}}

\* The unique indexes of user_identities, committed rows and others' INSERTs.
Insertable(u, s) ==
    LET rows == ids \cup {[user |-> c.id, social |-> c.social] : c \in Uncommitted("linking")}
    IN  \A i \in rows : i.social # s /\ (i.user = u => i.social.provider # s.provider)

InsertIdentity(r) ==
    /\ Doing(r, "link")
    /\ Insertable(call[r].id, call[r].social)
    /\ LET u == call[r].id
           s == call[r].social
       IN  call' = [call EXCEPT ![r] = [op |-> "linking", id |-> u, social |-> s,
                                        set |-> Mirror(u, Linked(u) \cup {s})]]
    /\ UNCHANGED <<load, made, acctVars>>

DeleteIdentity(r) ==
    /\ Doing(r, "unlink")
    /\ LET u == call[r].id
           p == call[r].provider
           rest == {s \in Linked(u) : s.provider # p}
       IN  /\ \A c \in Uncommitted("unlinking") : c.id = u => c.provider # p
           /\ call' = [call EXCEPT ![r] = [op |-> "unlinking", id |-> u, provider |-> p,
                                           set |-> Mirror(u, rest)]]
    /\ UNCHANGED <<load, made, acctVars>>

\* No other request holds the users row by the foreign key of its INSERT.
Unpinned(r, u) == \A q \in Requests \ {r} : Doing(q, "linking") => call[q].id # u

\* The UPDATE, if PostgreSQL accepts the row; a refused request dies.
WriteUser(r) ==
    /\ Doing(r, "user") \/ Doing(r, "linking") \/ Doing(r, "unlinking")
    /\ LET u == call[r].id
           row == Written(users[u], call[r].set)
       IN  /\ Unpinned(r, u)
           /\ Accepted(row, u)
           /\ users' = [users EXCEPT ![u] = row]
           /\ ids' = CASE Doing(r, "linking") -> ids \cup {[user |-> u, social |-> call[r].social]}
                       [] Doing(r, "unlinking") ->
                            {i \in ids : ~(i.user = u /\ i.social.provider = call[r].provider)}
                       [] OTHER -> ids
    /\ End(r)

(***************************************************************************)
(* resolve_social_login: an account the identity is linked to changes      *)
(* nothing; one that has the address the provider vouches for is linked to *)
(* it; else an account is created.                                         *)
(***************************************************************************)
WithEmail(email) == {u \in Users : Live(users[u]) /\ users[u].email = email}

SocialLink(r, s, email, verified) ==
    /\ OwnerOf(s) = {}
    /\ verified
    /\ \E u \in WithEmail(email) : Begin(r, [op |-> "link", id |-> u, social |-> s])

SocialCreate(r, u, s, email, verified) ==
    /\ OwnerOf(s) = {}
    /\ WithEmail(email) = {}
    /\ users[u] = None
    /\ Unclaimed(u)
    /\ Begin(r, [op |-> "register", id |-> u, social |-> s,
                 set |-> Written(Fresh(email, None, FALSE, "active", verified), Mirror(u, {s}))])

\* The account and its identity are inserted and committed together.
WriteRegistration(r) ==
    /\ Doing(r, "register")
    /\ LET u == call[r].id
       IN  /\ Accepted(call[r].set, u)
           /\ Insertable(u, call[r].social)
           /\ users' = [users EXCEPT ![u] = call[r].set]
           /\ ids' = ids \cup {[user |-> u, social |-> call[r].social]}
    /\ End(r)

(***************************************************************************)
(* The specification.                                                      *)
(***************************************************************************)
\* One account may exist, with any identities and the copy they give it.
AcctInit ==
    \E u \in Users, e \in Emails, pw \in BOOLEAN, st \in {"pending", "active"},
       linked \in SUBSET Socials :
        /\ \A s, t \in linked : s.provider = t.provider => s = t
        /\ users = [x \in Users |->
                      IF x = u THEN Written(Fresh(e, None, pw, st, FALSE), Mirror(u, linked))
                      ELSE None]
        /\ ids = {[user |-> u, social |-> s] : s \in linked}

UserCalls(r, u) ==
    \/ \E email \in Emails \cup {None}, phone \in Phones \cup {None}, pw \in BOOLEAN :
            CreateUser(r, u, email, phone, pw)
    \/ \E new \in UserUpdates : UpdateUser(r, u, new)
    \/ SetPassword(r, u) \/ DeleteUser(r, u) \/ RestoreUser(r, u) \/ VerifyEmail(r, u)

IdentityCalls(r, u) == \/ \E s \in Socials : Link(r, u, s)
                       \/ \E p \in Providers : Unlink(r, u, p)

SocialCalls(r, u) ==
    \E s \in Socials, email \in Emails, verified \in BOOLEAN :
        SocialLink(r, s, email, verified) \/ SocialCreate(r, u, s, email, verified)

AcctNext == \E r \in Requests :
    \/ /\ \E u \in Users : UserCalls(r, u) \/ IdentityCalls(r, u) \/ SocialCalls(r, u)
       /\ UNCHANGED acctVars
    \/ InsertIdentity(r) \/ DeleteIdentity(r)
    \/ WriteUser(r) \/ WriteRegistration(r)
    \/ Die(r) /\ UNCHANGED acctVars

AcctSpec == CallsInit /\ AcctInit /\ [][AcctNext]_<<callVars, acctVars>>

(***************************************************************************)
(* Properties.                                                             *)
(***************************************************************************)
\* However links, unlinks, sign-ins and edits of accounts overlap, an address,
\* a number and a provider's account belong to one user, deleted ones
\* included, each user has one account per provider and an identifier.  While
\* they do not, the copy in users is that of the identities, as
\* _sync_social_columns promises: "the two can then never disagree".
AccountsDistinct ==
    /\ \A u \in Users : users[u] # None => Accepted(users[u], u)
    /\ \A i, j \in ids : i # j => /\ i.social # j.social
                                  /\ i.user = j.user => i.social.provider # j.social.provider
    /\ \A i \in ids : users[i.user] # None
    /\ Alone => \A u \in Users : users[u] # None => \A p \in Providers :
          {users[u][p]} \ {None} = {s \in Linked(u) : s.provider = p}

HasWayIn(u) == users[u].password \/ Linked(u) # {}
Blocked(u) == users[u].status \in {"suspended", "deactivated"}

\* While calls do not overlap, no call takes a user's last way to sign in, and
\* only an edit of the status ends a block: verifying an address does not.
AccountStaysWithOwner ==
    [][Alone => \A u \in Users : users[u] # None /\ users'[u] # None =>
          /\ HasWayIn(u) => HasWayIn(u)'
          /\ Blocked(u) /\ ~Blocked(u)' =>
                \E r \in Requests : call[r] # None /\ "status" \in DOMAIN call[r].set
                                    /\ "verified" \notin DOMAIN call[r].set
      ]_<<callVars, acctVars>>
=============================================================================
