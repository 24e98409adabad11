------------------------------- MODULE Calls -------------------------------
(***************************************************************************)
(* The requests of the administration and content modules.                 *)
(*                                                                         *)
(* A handler runs in one database session.  It loads the rows it needs and *)
(* checks its guards, then writes by id the columns whose value it changed *)
(* and commits.  The sessions run in READ COMMITTED and lock nothing they  *)
(* read, so a handler is at least two steps: `Begin' loads, checks and     *)
(* keeps what it decided in `call'; a later step writes that down and ends *)
(* the request.  A request that a guard refuses changes nothing and is no  *)
(* step.  From its first UPDATE to its commit nobody sees what a handler   *)
(* wrote, and no other handler can write the row, so these are one step.   *)
(***************************************************************************)
EXTENDS Naturals, FiniteSets

CONSTANTS
    Requests,   \* request handlers that can be in flight at once
    None,       \* NULL, a row that does not exist, and no request
    Loads       \* what clients may ask of the site: [part, crowd, calls]

\* A load is put on one part of the site, by the requests of its crowd and
\* with so many calls: calls is a bound of the model.
ASSUME LoadsAssumption ==
    \A l \in Loads : l.crowd \in SUBSET Requests /\ IsFiniteSet(l.crowd) /\ l.calls \in Nat

VARIABLES
    load,       \* the load of this behaviour
    call,       \* what each request in flight has loaded and decided
    made        \* calls made so far

callVars == <<load, call, made>>

CallsInit == /\ load \in Loads
             /\ call = [r \in Requests |-> None]
             /\ made = 0

\* No two calls overlap.
Alone == Cardinality(load.crowd) = 1

Begin(r, c) == /\ r \in load.crowd
               /\ call[r] = None
               /\ made < load.calls
               /\ call' = [call EXCEPT ![r] = c]
               /\ made' = made + 1
               /\ UNCHANGED load

End(r) == /\ call' = [call EXCEPT ![r] = None]
          /\ UNCHANGED <<load, made>>

\* A request that dies before it commits leaves what it committed before.
Die(r) == call[r] # None /\ End(r)

Doing(r, op) == call[r] # None /\ call[r].op = op

\* No request in flight is about to insert the row id.
Unclaimed(id) == \A r \in Requests : call[r] # None => call[r].id # id

\* BaseRepository.update: the session's UPDATE names the columns of new
\* that differ from the loaded row.
Changed(row, new) == [f \in {g \in DOMAIN new : new[g] # row[g]} |-> new[f]]

\* Columns written whatever they were: a moment is never the one before.
Also(set, more) == [f \in DOMAIN set \cup DOMAIN more |->
                        IF f \in DOMAIN more THEN more[f] ELSE set[f]]

\* That UPDATE applied to the row as it is when it runs, or the INSERT.
Written(row, set) ==
    IF row = None THEN set
    ELSE [f \in DOMAIN row |-> IF f \in DOMAIN set THEN set[f] ELSE row[f]]

Live(row) == row # None /\ ~row.gone
=============================================================================
