-------------------------- MODULE TicketLifecycle --------------------------
(***************************************************************************)
(* What a support ticket goes through, with no handlers, dates or          *)
(* counters: each step is one whole decision, taken on the ticket as it    *)
(* stands.  A ticket whose handlers overlap may leave it (see              *)
(* close_and_reply.cfg); while they do not, the desk implements it.        *)
(***************************************************************************)
CONSTANTS Tickets, Agents, Ratings, None

VARIABLE card   \* of each ticket, raised or not, what its course depends on

\* STATUS_TRANSITIONS: a ticket is never dragged backwards into "open", and
\* only a reopening leaves "closed".
Transitions ==
    [open |-> {"in_progress", "waiting_for_student", "waiting_for_trainer", "escalated",
               "resolved", "closed"},
     in_progress |-> {"waiting_for_student", "waiting_for_trainer", "escalated",
                      "resolved", "closed"},
     waiting_for_student |-> {"in_progress", "waiting_for_trainer", "escalated",
                              "resolved", "closed"},
     waiting_for_trainer |-> {"in_progress", "waiting_for_student", "escalated",
                              "resolved", "closed"},
     escalated |-> {"in_progress", "waiting_for_student", "waiting_for_trainer",
                    "resolved", "closed"},
     resolved |-> {"closed", "reopened"},
     closed |-> {"reopened"},
     reopened |-> {"in_progress", "waiting_for_student", "waiting_for_trainer",
                   "escalated", "resolved", "closed"}]

Blank == [status |-> "unraised", escalated |-> FALSE, assignee |-> None,
          merged |-> None, rating |-> None, deleted |-> FALSE]

\* A ticket that is there and was not deleted: nothing else is worked on.
AtHand(t) == card[t].status # "unraised" /\ ~card[t].deleted

MayBecome(t, status) == AtHand(t) /\ status \in Transitions[card[t].status]

Becomes(t, new) == card' = [card EXCEPT ![t] = new]

Init == card = [t \in Tickets |-> Blank]

Raise(t) == /\ card[t].status = "unraised"
            /\ Becomes(t, [Blank EXCEPT !.status = "open"])

\* A reply, a change of status, a closing or a reopening.  The flag of an
\* escalation stays for good.
Move(t, to) ==
    /\ MayBecome(t, to)
    /\ Becomes(t, [card[t] EXCEPT !.status = to, !.escalated = @ \/ to = "escalated"])

\* Handing it to an agent, or taking it from one; the first one starts it.
Hand(t, who) ==
    /\ AtHand(t) /\ who # card[t].assignee
    /\ Becomes(t, [card[t] EXCEPT
                     !.assignee = who,
                     !.status = IF who # None /\ @ = "open" THEN "in_progress" ELSE @])

\* Once, by whoever has it, who may hand it on.
Escalate(t, who) ==
    /\ MayBecome(t, "escalated") /\ ~card[t].escalated
    /\ Becomes(t, [card[t] EXCEPT !.status = "escalated", !.escalated = TRUE,
                                  !.assignee = who])

\* Once, of a ticket that is finished.
Rate(t, rating) ==
    /\ AtHand(t) /\ card[t].status \in {"resolved", "closed"} /\ card[t].rating = None
    /\ Becomes(t, [card[t] EXCEPT !.rating = rating])

\* A duplicate ends in the ticket that takes over, which is no duplicate.
Merge(t, into) ==
    /\ t # into /\ AtHand(t) /\ AtHand(into)
    /\ card[t].merged = None /\ card[into].merged = None
    /\ Becomes(t, [card[t] EXCEPT !.merged = into, !.status = "closed"])

Delete(t) == AtHand(t) /\ Becomes(t, [card[t] EXCEPT !.deleted = TRUE])

Restore(t) == card[t].deleted /\ Becomes(t, [card[t] EXCEPT !.deleted = FALSE])

Step(t) ==
    \/ Raise(t) \/ Delete(t) \/ Restore(t)
    \/ \E to \in DOMAIN Transitions : Move(t, to)
    \/ \E who \in Agents \cup {None} : Hand(t, who) \/ Escalate(t, who)
    \/ \E rating \in Ratings : Rate(t, rating)
    \/ \E into \in Tickets : Merge(t, into)

\* The first conjunct only spares TLC the others on a step that changes nothing.
Next == \E t \in Tickets : card'[t] # card[t] /\ Step(t)

Spec == Init /\ [][Next]_card
=============================================================================
