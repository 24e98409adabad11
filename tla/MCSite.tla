------------------------------- MODULE MCSite -------------------------------
EXTENDS Site, TLC

CONSTANTS r1, r2, x1, x2, x3, t1, t2, n1, n2, v1, v2, o1, o2

\* So many calls one after the other, and so many that may overlap.
InTurn(part, calls) == {[part |-> part, crowd |-> {r}, calls |-> calls] : r \in {r1, r2}}
Together(part, calls) == {[part |-> part, crowd |-> {r1, r2}, calls |-> calls]}

MCSocials == {[provider |-> "google", id |-> v1], [provider |-> "google", id |-> v2],
              [provider |-> "facebook", id |-> v1]}
MCDefaultGrants == [ro \in SystemRoles |-> SystemCodes]
MCTeamOf == [ro \in Teams |-> {o1}]
MCLocale == [l \in Languages |-> [k \in StringKeys |->
                IF l # DefaultLanguage /\ k = v2 THEN None ELSE v1]]
MCStops == {0, 5, 11, 13, 14, 26, 27, 29}

Interchangeable == Permutations({r1, r2}) \cup Permutations({x1, x2}) \cup Permutations({n1, n2})

MCLoads ==
    UNION {InTurn("categories", 3), Together("categories", 2),
           InTurn("menus", 2), Together("menus", 2),
           InTurn("pages", 4), Together("pages", 2),
           InTurn("blogs", 3), InTurn("automations", 3),
           InTurn("courses", 3), Together("courses", 2), InTurn("consultancies", 3),
           InTurn("data", 4), Together("data", 2),
           InTurn("accounts", 3), Together("accounts", 2),
           InTurn("access", 4), Together("access", 2),
           InTurn("profiles", 4), Together("profiles", 2),
           InTurn("subscriptions", 4), Together("subscriptions", 3),
           InTurn("notifications", 3), Together("notifications", 2),
           InTurn("inquiries", 3), Together("inquiries", 2),
           InTurn("configuration", 3), Together("configuration", 2),
           InTurn("migrations", 5)}
=============================================================================
