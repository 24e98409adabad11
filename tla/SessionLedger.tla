--------------------------- MODULE SessionLedger ---------------------------
(***************************************************************************)
(* What the refresh_tokens table promises, with no transactions, locks or  *)
(* handlers: sessions open, are renewed into a successor, and end.  It     *)
(* does not say that a session is renewed only once: two concurrent        *)
(* refreshes may both renew it (see refresh_twice.cfg).                    *)
(***************************************************************************)
CONSTANTS Sessions, None

VARIABLES
    state,    \* "unborn", "live" or "ended"
    parent    \* the session each one renewed, None for a sign-in

ledgerVars == <<state, parent>>

Init ==
    /\ state = [s \in Sessions |-> "unborn"]
    /\ parent = [s \in Sessions |-> None]

\* A sign-in, or the replacement pair of a password change.
Open(s) ==
    /\ state[s] = "unborn"
    /\ state' = [state EXCEPT ![s] = "live"]
    /\ UNCHANGED parent

\* A refresh: the successor opens and the session presented ends, at once.
Renew(p, s) ==
    /\ state[p] # "unborn" /\ state[s] = "unborn"
    /\ state' = [state EXCEPT ![p] = "ended", ![s] = "live"]
    /\ parent' = [parent EXCEPT ![s] = p]

\* A sign-out, or a bulk revocation.
End(S) ==
    /\ \A s \in S : state[s] # "unborn"
    /\ state' = [s \in Sessions |-> IF s \in S THEN "ended" ELSE state[s]]
    /\ UNCHANGED parent

Next ==
    \/ \E s \in Sessions : Open(s)
    \/ \E p, s \in Sessions : Renew(p, s)
    \/ \E S \in SUBSET Sessions : End(S)

Spec == Init /\ [][Next]_ledgerVars
=============================================================================
