------------------------- MODULE MCAgentLifecycle -------------------------
(* Small sessions for TLC.                                                 *)
EXTENDS AgentLifecycle, TLC

CONSTANTS a1, a2, k1, k2

\* Callers are interchangeable.
Callers == Permutations({k1, k2})

\* V1: an agent and its child, keyed by thread id; a restart may resume both.
Nested ==
    [version |-> "V1", parent |-> (a1 :> Root @@ a2 :> a1),
     key |-> (a1 :> a1 @@ a2 :> a2), loads |-> (a1 :> 1 @@ a2 :> 1),
     capacity |-> 0, faults |-> 1]

\* V1: one agent (a2 is never spawned), with faults.
Alone ==
    [version |-> "V1", parent |-> (a1 :> Root @@ a2 :> a2),
     key |-> (a1 :> a1 @@ a2 :> a2), loads |-> (a1 :> 2 @@ a2 :> 0),
     capacity |-> 0, faults |-> 2]

\* V2: two agents of the root with paths of their own.
Siblings ==
    [version |-> "V2", parent |-> (a1 :> Root @@ a2 :> Root),
     key |-> (a1 :> a1 @@ a2 :> a2), loads |-> (a1 :> 2 @@ a2 :> 1),
     capacity |-> 1, faults |-> 1]

\* V2: two agents of the root that want the same path.
Namesakes ==
    [version |-> "V2", parent |-> (a1 :> Root @@ a2 :> Root),
     key |-> (a1 :> a1 @@ a2 :> a1), loads |-> (a1 :> 2 @@ a2 :> 2),
     capacity |-> 2, faults |-> 1]

\* V2: an agent of the root and its child.
Generations ==
    [version |-> "V2", parent |-> (a1 :> Root @@ a2 :> a1),
     key |-> (a1 :> a1 @@ a2 :> a2), loads |-> (a1 :> 2 @@ a2 :> 1),
     capacity |-> 2, faults |-> 1]

Sessions == {Nested, Alone, Siblings, Namesakes, Generations}

\* The siblings when nothing fails.
QuietV2 == {[Siblings EXCEPT !.faults = 0]}
=============================================================================
