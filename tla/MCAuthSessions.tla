-------------------------- MODULE MCAuthSessions --------------------------
(***************************************************************************)
(* AuthSessions instantiated for TLC.                                      *)
(***************************************************************************)
EXTENDS AuthSessionsProps, TLC

\* Tokens, links, passwords and request handlers are interchangeable.
Interchangeable ==
    Permutations(Requests) \cup Permutations(Tokens)
        \cup Permutations(Links) \cup Permutations(Passwords)
=============================================================================
