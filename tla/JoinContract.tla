---------------------------- MODULE JoinContract ----------------------------
(***************************************************************************)
(* What an owned join promises the turn that registers it.                 *)
(*                                                                         *)
(* A join is registered once, on a team of children.  Each member reports  *)
(* once.  When all have, and only then, the parent is told, which ends the *)
(* join, or opens one more round for the members whose report was only     *)
(* intermediate.  A join that ended, or that the parent gave up, stays so. *)
(* Observers, dispatchers, mail and turns are not part of the promise.     *)
(***************************************************************************)
CONSTANTS
    Owner,    \* threads that own joins
    Member,   \* threads that are joined
    Gen       \* generations of joins

VARIABLES
    phase,    \* phase[p][g]: "unused", "open", "told" or "dropped"
    team,     \* team[p][g]: the children joined
    waiting   \* waiting[p][g]: members that have not reported in this round

vars == <<phase, team, waiting>>

Init ==
    /\ phase = [p \in Owner |-> [g \in Gen |-> "unused"]]
    /\ team = [p \in Owner |-> [g \in Gen |-> {}]]
    /\ waiting = [p \in Owner |-> [g \in Gen |-> {}]]

\* The join g of parent p before and after the step.
Becomes(p, g, ph, w) ==
    phase'[p][g] = ph /\ waiting'[p][g] = w /\ team'[p][g] = team[p][g]

Register(p, g) ==
    /\ phase[p][g] = "unused"
    /\ phase'[p][g] = "open"
    /\ team'[p][g] \in SUBSET Member /\ team'[p][g] # {}
    /\ waiting'[p][g] = team'[p][g]

Report(p, g) ==
    /\ phase[p][g] = "open"
    /\ \E c \in waiting[p][g] : Becomes(p, g, "open", waiting[p][g] \ {c})

Tell(p, g) ==
    /\ phase[p][g] = "open" /\ waiting[p][g] = {}
    /\ Becomes(p, g, "told", {})

\* The parent is told an intermediate result.
NextRound(p, g) ==
    /\ phase[p][g] = "open" /\ waiting[p][g] = {}
    /\ \E again \in SUBSET team[p][g] : again # {} /\ Becomes(p, g, "open", again)

Drop(p, g) ==
    /\ phase[p][g] = "open"
    /\ Becomes(p, g, "dropped", {})

Stay(p, g) == Becomes(p, g, phase[p][g], waiting[p][g])

\* One store moves at a time; one delivery may tell it of several joins.
Step(p) ==
    \A g \in Gen :
        \/ Register(p, g) \/ Report(p, g) \/ Tell(p, g) \/ NextRound(p, g)
        \/ Drop(p, g) \/ Stay(p, g)

Next ==
    /\ phase' \in [Owner -> [Gen -> {"unused", "open", "told", "dropped"}]]
    /\ \E p \in Owner :
          /\ Step(p)
          /\ \A q \in Owner \ {p} : \A g \in Gen : Stay(q, g)

Spec == Init /\ [][Next]_vars
=============================================================================
