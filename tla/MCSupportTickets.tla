-------------------------- MODULE MCSupportTickets --------------------------
(***************************************************************************)
(* SupportTickets instantiated for TLC.                                    *)
(***************************************************************************)
EXTENDS SupportTicketsProps, TLC

\* Tickets, trainers, attachments and request handlers are interchangeable.
Interchangeable ==
    Permutations(Tickets) \cup Permutations(Agents)
        \cup Permutations(Files) \cup Permutations(Requests)
=============================================================================
