---------------------------- MODULE MCOwnedJoin ----------------------------
(***************************************************************************)
(* Instances of OwnedJoin: a chain of three threads, and a root with two   *)
(* children.                                                               *)
(***************************************************************************)
EXTENDS OwnedJoin, TLC

CONSTANTS root, mid, leaf

Chain == root :> root @@ mid :> root @@ leaf :> mid
Users(S) == [t \in {root, mid, leaf} |-> IF t \in S THEN 1 ELSE 0]
NoUser == Users({})
UserOfM == Users({mid})
UserOfR == Users({root})
Fan == root :> root @@ mid :> root @@ leaf :> root
Siblings == Permutations({mid, leaf})
=============================================================================
