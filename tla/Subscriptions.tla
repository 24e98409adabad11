--------------------------- MODULE Subscriptions ---------------------------
(***************************************************************************)
(* The newsletter list, app/modules/subscriptions: signing up, confirming  *)
(* by the mailed link, leaving by the link of a footer, and the list's     *)
(* administration.  Of the time a row keeps only what the code asks: is    *)
(* the last confirmation mail recent, has the link expired.  The link of a *)
(* footer is derived from the row's id, so anybody mailed can use it at    *)
(* any time.  Names, sources and reasons decide nothing and are left out.  *)
(***************************************************************************)
EXTENDS Calls

CONSTANTS
    Subs,       \* subscriptions rows, existing or to be created
    Addresses,
    MaxLinks    \* bound on the confirmation links issued

VARIABLES
    subs,
    links       \* the confirmation links issued: whom each was mailed to, or None

subVars == <<subs, links>>

SubStatuses == {"pending", "subscribed", "unsubscribed", "bounced"}
Links == 1..MaxLinks

SubRow == [email : Addresses, status : SubStatuses, token : Links \cup {None},
           expired : BOOLEAN, sent : {"never", "recent", "before"},
           confirmed : BOOLEAN, left : BOOLEAN, gone : BOOLEAN]

\* NULL is neither a row nor a link.
ASSUME SubNoneAssumption == None \notin SubRow \cup Links

SubTypeOK == /\ subs \in [Subs -> SubRow \cup {None}]
             /\ links \in [Links -> Addresses \cup {None, "unsent", "lost"}]

NewLink == {l \in Links : links[l] = None /\ \A k \in 1..(l - 1) : links[k] # None}

Holding(email) == {s \in Subs : subs[s] # None /\ subs[s].email = email}

(***************************************************************************)
(* The public process.                                                     *)
(***************************************************************************)
Pending(token) == [status |-> "pending", token |-> token, expired |-> FALSE, sent |-> "recent"]

\* _start_new
StartNew(r, s, email) ==
    /\ Holding(email) = {}
    /\ subs[s] = None
    /\ Unclaimed(s)
    /\ \E l \in NewLink :
         Begin(r, [op |-> "mail", id |-> s, link |-> l,
                   set |-> Also([email |-> email, confirmed |-> FALSE, left |-> FALSE,
                                 gone |-> FALSE], Pending(l))])

\* Mutant: signing up again keeps the record of having left.
ResumedStillLeft(row, l) == Also(Changed(row, [status |-> "pending", gone |-> FALSE]), Pending(l))

\* _resume: pending again with a fresh link, and nothing left of the leaving.
Resumed(row, l) ==
    Also(Changed(row, [status |-> "pending", left |-> FALSE, gone |-> FALSE]),
         [token |-> l, expired |-> FALSE, sent |-> "recent"])

Resume(r, s) ==
    /\ subs[s] # None
    /\ ~(Live(subs[s]) /\ subs[s].status = "subscribed")
    /\ subs[s].sent # "recent"
    /\ \E l \in NewLink :
         Begin(r, [op |-> "mail", id |-> s, link |-> l, set |-> Resumed(subs[s], l)])

\* The row is committed before the link is sent; the address is unique.
WriteAndSend(r) ==
    /\ Doing(r, "mail")
    /\ LET c == call[r]
           row == Written(subs[c.id], c.set)
       IN  /\ links[c.link] = None
           /\ Holding(row.email) \subseteq {c.id}
           /\ subs' = [subs EXCEPT ![c.id] = row]
           /\ links' = [links EXCEPT ![c.link] = "unsent"]
           /\ call' = [call EXCEPT ![r] = [op |-> "deliver", id |-> c.id, link |-> c.link,
                                           to |-> row.email]]
    /\ UNCHANGED <<load, made>>

Deliver(r) == /\ Doing(r, "deliver")
              /\ links' = [links EXCEPT ![call[r].link] = call[r].to]
              /\ UNCHANGED subs
              /\ End(r)

Confirmed(row) == Also(Changed(row, [status |-> "subscribed", token |-> None]),
                       [confirmed |-> TRUE])

\* confirm: whoever has a mailed link follows it.
Confirm(r, l) ==
    /\ links[l] \in Addresses
    /\ \E s \in Subs : /\ Live(subs[s])
                       /\ subs[s].token = l
                       /\ ~subs[s].expired
                       /\ Begin(r, [op |-> "sub", id |-> s, by |-> "link",
                                    set |-> Confirmed(subs[s])])

\* _leave
Leave(row) == Also(Changed(row, [status |-> "unsubscribed", token |-> None]), [left |-> TRUE])

\* unsubscribe: deleted rows included, and twice is no error.
Unsubscribe(r, s) ==
    /\ subs[s] # None
    /\ subs[s].status # "unsubscribed"
    /\ Begin(r, [op |-> "sub", id |-> s, by |-> "reader", set |-> Leave(subs[s])])

(***************************************************************************)
(* Administration.                                                         *)
(***************************************************************************)
CreateSubscription(r, s, email) ==
    /\ Holding(email) = {}
    /\ subs[s] = None
    /\ Unclaimed(s)
    /\ Begin(r, [op |-> "sub", id |-> s, by |-> "admin",
                 set |-> [email |-> email, status |-> "subscribed", token |-> None,
                          expired |-> FALSE, sent |-> "never", confirmed |-> TRUE,
                          left |-> FALSE, gone |-> FALSE]])

UpdateSubscription(r, s, email) ==
    /\ Live(subs[s])
    /\ Holding(email) \subseteq {s}
    /\ Begin(r, [op |-> "sub", id |-> s, by |-> "admin",
                 set |-> Changed(subs[s], [email |-> email])])

MarkSubscribed(r, s) ==
    /\ Live(subs[s])
    /\ subs[s].status # "subscribed"
    /\ Begin(r, [op |-> "sub", id |-> s, by |-> "admin",
                 set |-> Changed(subs[s], [status |-> "subscribed", confirmed |-> TRUE,
                                           left |-> FALSE, token |-> None])])

MarkUnsubscribed(r, s) ==
    /\ Live(subs[s])
    /\ subs[s].status # "unsubscribed"
    /\ Begin(r, [op |-> "sub", id |-> s, by |-> "admin", set |-> Leave(subs[s])])

\* mark_bounced leaves a pending address its link.
MarkBounced(r, s) ==
    /\ Live(subs[s])
    /\ subs[s].status # "bounced"
    /\ Begin(r, [op |-> "sub", id |-> s, by |-> "admin", set |-> [status |-> "bounced"]])

DeleteSubscription(r, s) ==
    /\ Live(subs[s])
    /\ Begin(r, [op |-> "sub", id |-> s, by |-> "admin", set |-> [gone |-> TRUE]])

RestoreSubscription(r, s) ==
    /\ subs[s] # None
    /\ Begin(r, [op |-> "sub", id |-> s, by |-> "admin",
                 set |-> Changed(subs[s], [gone |-> FALSE])])

WriteSubscription(r) ==
    /\ Doing(r, "sub")
    /\ LET c == call[r]
           row == Written(subs[c.id], c.set)
       IN  /\ Holding(row.email) \subseteq {c.id}
           /\ subs' = [subs EXCEPT ![c.id] = row]
    /\ UNCHANGED links
    /\ End(r)

\* The cooldown passes; the link expires, days later.
CooldownPasses(s) == /\ subs[s] # None
                     /\ subs[s].sent = "recent"
                     /\ subs' = [subs EXCEPT ![s].sent = "before"]

LinkExpires(s) == /\ subs[s] # None
                  /\ subs[s].token # None /\ ~subs[s].expired
                  /\ subs[s].sent = "before"
                  /\ subs' = [subs EXCEPT ![s].expired = TRUE]

(***************************************************************************)
(* The specification.                                                      *)
(***************************************************************************)
SubInit == /\ subs = [s \in Subs |-> None]
           /\ links = [l \in Links |-> None]

PublicCalls(r) ==
    \/ \E s \in Subs : \/ \E email \in Addresses : StartNew(r, s, email)
                       \/ Resume(r, s) \/ Unsubscribe(r, s)
    \/ \E l \in Links : Confirm(r, l)

ListCalls(r) ==
    \E s \in Subs : \/ \E email \in Addresses : \/ CreateSubscription(r, s, email)
                                               \/ UpdateSubscription(r, s, email)
                    \/ MarkSubscribed(r, s) \/ MarkUnsubscribed(r, s) \/ MarkBounced(r, s)
                    \/ DeleteSubscription(r, s) \/ RestoreSubscription(r, s)

LoseMail(r) ==
    /\ Die(r)
    /\ links' = IF Doing(r, "deliver") THEN [links EXCEPT ![call[r].link] = "lost"] ELSE links
    /\ UNCHANGED subs

SubNext ==
    \/ \E r \in Requests : \/ (PublicCalls(r) \/ ListCalls(r)) /\ UNCHANGED subVars
                           \/ WriteAndSend(r) \/ Deliver(r) \/ WriteSubscription(r)
                           \/ LoseMail(r)
    \/ \E s \in Subs : (CooldownPasses(s) \/ LinkExpires(s)) /\ UNCHANGED <<callVars, links>>

SubSpec == CallsInit /\ SubInit /\ [][SubNext]_<<callVars, subVars>>

(***************************************************************************)
(* Properties.                                                             *)
(***************************************************************************)
ReadsTrue(row) ==
    /\ row.status = "subscribed" => row.confirmed /\ ~row.left /\ row.token = None
    /\ row.status = "pending" => row.token # None /\ ~row.left
    /\ row.status = "unsubscribed" => row.left /\ row.token = None

\* While calls do not overlap, a row never reads as both subscribed and left,
\* an outstanding link is always that of an address still to be confirmed, and
\* somebody who left is on the list again only by a new link or an
\* administrator's hand.
LeavingIsHonoured ==
    [][Alone => \A s \in Subs :
          /\ subs'[s] # None => ReadsTrue(subs'[s])
          /\ subs[s] # None /\ subs[s].status # "subscribed" /\ subs'[s].status = "subscribed" =>
                \E r \in Requests : /\ Doing(r, "sub") /\ call[r].id = s
                                    /\ call[r].by = "link" => subs[s].status # "unsubscribed"
      ]_<<callVars, subVars>>
=============================================================================
