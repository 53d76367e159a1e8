------------------------ MODULE OwnedJoin_refinement ------------------------
(***************************************************************************)
(* OwnedJoin implements JoinContract, for any tree of threads and any      *)
(* bounds.                                                                 *)
(***************************************************************************)
EXTENDS OwnedJoin_proofs

USE DEF None

-----------------------------------------------------------------------------
(* What the refinement needs beyond IInv.                                  *)

\* An obligation that is ready, or whose intermediate aggregate is out, has a
\* result for every target.
Complete(o) ==
    o.st = "live" /\ (o.ready \/ o.retained_pred # None) => Targets(o) \subseteq Resolved(o)

CompleteInv == \A p \in Thread, g \in Gen : Complete(obl[p][g])

\* Generations above the counter were never registered.
FreshInv == \A p \in Thread, g \in Gen : g > nextGen[p] => obl[p][g].st = "unused"

RInv == IInv /\ CompleteInv /\ FreshInv

-----------------------------------------------------------------------------
(* Every operation on an obligation is a step of the contract.             *)

\* The steps of JoinContract on one join, as a relation between obligations.
Moves(o, o2) ==
    /\ Targets(o2) = Targets(o)
    /\ \/ Phase(o2) = Phase(o) /\ WaitingFor(o2) = WaitingFor(o)
       \/ /\ Phase(o) = "open" /\ Phase(o2) = "open"
          /\ \E c \in WaitingFor(o) : WaitingFor(o2) = WaitingFor(o) \ {c}
       \/ /\ Phase(o) = "open" /\ WaitingFor(o) = {}
          /\ Phase(o2) = "told" /\ WaitingFor(o2) = {}
       \/ /\ Phase(o) = "open" /\ WaitingFor(o) = {} /\ Phase(o2) = "open"
          /\ WaitingFor(o2) # {} /\ WaitingFor(o2) \subseteq Targets(o)
       \/ Phase(o) = "open" /\ Phase(o2) = "dropped" /\ WaitingFor(o2) = {}

Legal(o, o2) ==
    /\ Moves(o, o2)
    /\ Complete(o2)
    /\ o.st = "unused" => o2.st = "unused"
    /\ o.st = "live" /\ (o2.st = "consumed" \/ o2.parent_turn # o.parent_turn)
         => Targets(o) \subseteq Resolved(o)

\* An obligation that is not touched.
LEMMA SameLegal ==
    ASSUME NEW o, Complete(o)
    PROVE  Legal(o, o)
  BY DEF Legal, Moves, Complete

\* A generation is retired with the turn that owns it.
LEMMA RetiredLegal ==
    ASSUME NEW o \in Obligation, o.st = "live"
    PROVE  Legal(o, [o EXCEPT !.st = "retired"])
  BY DEF Legal, Moves, Complete, Phase, WaitingFor, Targets, Obligation

\* finish_join_dispatch tells nobody anything.
LEMMA DispatchedLegal ==
    ASSUME NEW o \in Obligation, Complete(o)
    PROVE  Legal(o, Dispatched(o))
  <1>1. /\ Dispatched(o).st = o.st /\ Dispatched(o).targets = o.targets
        /\ Dispatched(o).results = o.results /\ Dispatched(o).ready = o.ready
        /\ Dispatched(o).retained_pred = o.retained_pred
        /\ Dispatched(o).parent_turn = o.parent_turn
    BY DEF Dispatched, Obligation
  <1> QED  BY <1>1 DEF Legal, Moves, Complete, Phase, WaitingFor, Targets, Resolved

\* Neither does retire_join_target_successor_retention.
LEMMA UnretainedLegal ==
    ASSUME NEW o \in Obligation, NEW c \in Thread, Complete(o)
    PROVE  Legal(o, Unretained(o, c))
  <1>1. /\ Unretained(o, c).st = o.st /\ Unretained(o, c).targets = o.targets
        /\ Unretained(o, c).results = o.results /\ Unretained(o, c).ready = o.ready
        /\ Unretained(o, c).retained_pred = o.retained_pred
        /\ Unretained(o, c).parent_turn = o.parent_turn
    BY DEF Unretained, Obligation
  <1> QED  BY <1>1 DEF Legal, Moves, Complete, Phase, WaitingFor, Targets, Resolved

\* Rebinding a target to its successor turn keeps it a target.
LEMMA ReboundLegal ==
    ASSUME NEW o \in Obligation, NEW c \in Thread, NEW succ \in Turn,
           Complete(o), AwaitsSuccessor(o, c), o.targets[c] \in Turn
    PROVE  Legal(o, Rebound(o, c, succ))
  <1>1. /\ Rebound(o, c, succ).st = o.st
        /\ Rebound(o, c, succ).targets = [o.targets EXCEPT ![c] = succ]
        /\ Rebound(o, c, succ).results = o.results /\ Rebound(o, c, succ).ready = o.ready
        /\ Rebound(o, c, succ).retained_pred = o.retained_pred
        /\ Rebound(o, c, succ).parent_turn = o.parent_turn
    BY DEF Rebound, Unretained, Obligation
  <1>2. o.targets \in [Thread -> 0..MaxTurn] /\ succ # 0 /\ o.targets[c] # 0
    BY BoundAssumption DEF Obligation, Turn
  <1>3. Targets(Rebound(o, c, succ)) = Targets(o)
    BY <1>1, <1>2 DEF Targets
  <1>4. Resolved(Rebound(o, c, succ)) = Resolved(o)
    BY <1>1 DEF Resolved
  <1> QED  BY <1>1, <1>3, <1>4 DEF Legal, Moves, Complete, Phase, WaitingFor

\* A delivery consumes a complete join, or opens its next round.
LEMMA AcknowledgeLegal ==
    ASSUME NEW o \in Obligation, NEW pred \in Turn, NEW succ \in Turn,
           Complete(o), o.st = "live", o.ready \/ o.retained_pred = pred
    PROVE  Legal(o, Acknowledge(o, pred, succ))
  <1>0. pred # 0 /\ WaitingFor(o) = {} /\ Targets(o) \subseteq Resolved(o)
    BY BoundAssumption DEF Turn, Complete, WaitingFor
  <1>1. CASE o.retained_pred = pred
    <2> DEFINE q == Acknowledge(o, pred, succ)
    <2>1. /\ q.st = o.st /\ q.targets = o.targets /\ ~q.ready /\ q.retained_pred = 0
      BY <1>1 DEF Acknowledge, Released, Obligation
    <2> HIDE DEF q
    <2>2. Targets(q) = Targets(o) /\ Phase(q) = "open" /\ Phase(o) = "open"
      BY <2>1 DEF Targets, Phase
    <2>3. WaitingFor(q) \subseteq Targets(o)
      BY <2>2 DEF WaitingFor
    <2>4. Complete(q)
      BY <2>1 DEF Complete
    <2>5. Moves(o, q)
      BY <1>0, <2>2, <2>3 DEF Moves
    <2> QED  BY <1>0, <2>1, <2>4, <2>5 DEF Legal, q
  <1>2. CASE o.retained_pred # pred
    <2>1. Acknowledge(o, pred, succ) = [o EXCEPT !.st = "consumed"]
      BY <1>2 DEF Acknowledge
    <2> QED  BY <1>0, <2>1 DEF Legal, Moves, Complete, Phase, WaitingFor, Targets, Obligation
  <1> QED  BY <1>1, <1>2

\* A resolution reports at most the one target, and completes the join only
\* when every target has a result.
LEMMA ResolveLegal ==
    ASSUME NEW o \in Obligation, NEW c \in Thread, NEW status \in Status, NEW retain \in BOOLEAN,
           Complete(o), o.st = "live", o.targets[c] \in Turn, status # "none"
    PROVE  Legal(o, Resolve(o, c, status, retain))
  <1> DEFINE q == Resolve(o, c, status, retain)
             res == IF o.results[c] = "none" THEN [o.results EXCEPT ![c] = status] ELSE o.results
  <1>1. /\ q.st = o.st /\ q.targets = o.targets /\ q.results = res /\ q.parent_turn = o.parent_turn
        /\ q.ready \/ q.retained_pred # 0 =>
             o.ready \/ o.retained_pred # 0 \/ AllResolved(o, res)
    <2> DEFINE keep == IF retain THEN o.retained_targets \cup {c} ELSE o.retained_targets
               held == keep # {} /\ o.retained_pred # 0
               complete == AllResolved(o, res) /\ ~held
               owner == IF complete /\ ~o.trigger_sent /\ o.trigger_turn /\ keep # {}
                        THEN o.parent_turn ELSE o.retained_pred
    <2>1. q = [o EXCEPT !.results = res, !.retained_targets = keep,
                        !.ready = @ \/ complete, !.trigger_sent = @ \/ complete,
                        !.retained_pred = owner]
      BY DEF Resolve
    <2>2. owner # 0 => o.retained_pred # 0 \/ complete
      OBVIOUS
    <2>3. complete => AllResolved(o, res)
      OBVIOUS
    <2> HIDE DEF owner, complete, keep, res
    <2> QED  BY <2>1, <2>2, <2>3 DEF Obligation
  <1>2. o.results \in [Thread -> Status]
    BY DEF Obligation
  <1> HIDE DEF q
  <1>3. Targets(q) = Targets(o) /\ c \in Targets(o) /\ Phase(q) = "open" /\ Phase(o) = "open"
    BY <1>1, BoundAssumption DEF Targets, Phase, Turn
  <1>4. Resolved(q) = Resolved(o) \cup {c}
    BY <1>1, <1>2 DEF Resolved
  <1>5. WaitingFor(q) = WaitingFor(o) \ {c}
    BY <1>1, <1>3, <1>4 DEF WaitingFor
  <1>6. Moves(o, q)
    <2>1. CASE c \in WaitingFor(o)
      BY <1>3, <1>5, <2>1 DEF Moves
    <2>2. CASE c \notin WaitingFor(o)
      BY <1>3, <1>5, <2>2 DEF Moves
    <2> QED  BY <2>1, <2>2
  <1>7. Complete(q)
    <2>1. AllResolved(o, res) => Targets(o) \subseteq Resolved(q)
      BY <1>1 DEF AllResolved, Targets, Resolved
    <2>2. Resolved(o) \subseteq Resolved(q)
      BY <1>4
    <2> QED  BY <1>1, <1>3, <2>1, <2>2 DEF Complete
  <1> QED  BY <1>1, <1>6, <1>7 DEF Legal, q

-----------------------------------------------------------------------------
(* Every step of the system moves the joins of one store.                  *)

\* Each obligation of p's store makes a legal move; the other stores rest.
StoreStep(p) ==
    /\ \A g \in Gen : Legal(obl[p][g], obl'[p][g])
    /\ \A q \in Thread \ {p}, g \in Gen : obl'[q][g] = obl[q][g]
    /\ UNCHANGED nextGen

\* A new join is registered in p's store.
StoreNew(p) ==
    LET h == nextGen[p] + 1
    IN  /\ h \in Gen /\ obl[p][h].st = "unused"
        /\ obl'[p][h].st = "live" /\ ~obl'[p][h].ready /\ obl'[p][h].retained_pred = None
        /\ Targets(obl'[p][h]) # {} /\ Resolved(obl'[p][h]) = {}
        /\ \A q \in Thread, g \in Gen : ~(q = p /\ g = h) => obl'[q][g] = obl[q][g]
        /\ nextGen' = [nextGen EXCEPT ![p] = h]

\* A step that leaves the stores alone.
LEMMA NoStep ==
    ASSUME RInv, NEW p \in Thread, UNCHANGED <<obl, nextGen>>
    PROVE  StoreStep(p)
  BY SameLegal DEF RInv, CompleteInv, StoreStep

\* A step that changes one obligation.
LEMMA OneStep ==
    ASSUME RInv, NEW p \in Thread, NEW g \in Gen, NEW o,
           Legal(obl[p][g], o), obl' = [obl EXCEPT ![p][g] = o], UNCHANGED nextGen
    PROVE  StoreStep(p)
  <1>1. obl \in [Thread -> [Gen -> Obligation]] /\ CompleteInv
    BY DEF RInv, IInv, TypeOK
  <1>2. \A q \in Thread \ {p}, h \in Gen : obl'[q][h] = obl[q][h]
    BY <1>1
  <1>3. ASSUME NEW h \in Gen
        PROVE  Legal(obl[p][h], obl'[p][h])
    <2>1. CASE h = g
      <3>1. obl'[p][h] = o
        BY <1>1, <2>1
      <3> QED  BY <2>1, <3>1
    <2>2. CASE h # g
      <3>1. obl'[p][h] = obl[p][h] /\ Complete(obl[p][h])
        BY <1>1, <2>2 DEF CompleteInv
      <3> QED  BY <3>1, SameLegal
    <2> QED  BY <2>1, <2>2
  <1> QED  BY <1>2, <1>3 DEF StoreStep

\* A delivery acknowledges complete joins only.
LEMMA DrainStep ==
    ASSUME RInv, NEW p \in Thread, NEW succ \in 0..MaxTurn, DrainInto(p, succ), UNCHANGED nextGen
    PROVE  StoreStep(p)
  <1> DEFINE acked == {g \in Gen : AckMail(p, g) # {}}
             pred(g) == (CHOOSE x \in AckMail(p, g) : TRUE).pred
             to(g) == IF succ = 0 THEN pred(g) ELSE succ
             ack(g) == Acknowledge(obl[p][g], pred(g), to(g))
  <1>0. obl \in [Thread -> [Gen -> Obligation]] /\ CompleteInv
    BY DEF RInv, IInv, TypeOK
  <1>1. ASSUME NEW g \in acked
        PROVE  /\ pred(g) \in Turn /\ to(g) \in Turn
               /\ Acknowledgeable(p, g, pred(g))
    <2>1. (CHOOSE x \in AckMail(p, g) : TRUE) \in AckMail(p, g)
      BY DEF acked
    <2>2. pred(g) \in Turn /\ Acknowledgeable(p, g, pred(g))
      BY <2>1 DEF AckMail, Tagged, Mail
    <2> QED  BY <2>2, BoundAssumption DEF Turn
  <1>2. obl' = [obl EXCEPT ![p] = [g \in Gen |-> IF g \in acked THEN ack(g) ELSE obl[p][g]]]
    BY DEF DrainInto
  <1>3. ASSUME NEW g \in acked
        PROVE  Legal(obl[p][g], ack(g))
    <2>1. g \in Gen /\ obl[p][g] \in Obligation /\ Complete(obl[p][g])
      BY <1>0 DEF acked, CompleteInv
    <2> HIDE DEF pred, to, acked
    <2>2. obl[p][g].st = "live" /\ (obl[p][g].ready \/ obl[p][g].retained_pred = pred(g))
      BY <1>1 DEF Acknowledgeable
    <2> QED  BY <1>1, <2>1, <2>2, AcknowledgeLegal
  <1> HIDE DEF pred, to, acked, ack
  <1>4. \A q \in Thread \ {p}, g \in Gen : obl'[q][g] = obl[q][g]
    BY <1>0, <1>2
  <1>5. ASSUME NEW g \in Gen
        PROVE  Legal(obl[p][g], obl'[p][g])
    <2>1. obl'[p][g] = IF g \in acked THEN ack(g) ELSE obl[p][g]
      BY <1>0, <1>2
    <2>2. Complete(obl[p][g])
      BY <1>0 DEF CompleteInv
    <2> QED  BY <1>3, <2>1, <2>2, SameLegal
  <1> QED  BY <1>4, <1>5 DEF StoreStep

\* The terminal of a turn retires the joins it owns.
LEMMA RecordStep ==
    ASSUME RInv, NEW p \in Thread, NEW d \in dying[p], RecordTerminal(p, d)
    PROVE  StoreStep(p)
  <1> DEFINE retired == IF IsFinal(d.status) THEN RetiredGens(p, d) ELSE {}
  <1>0. obl \in [Thread -> [Gen -> Obligation]] /\ CompleteInv
    BY DEF RInv, IInv, TypeOK
  <1>1. /\ UNCHANGED nextGen
        /\ obl' = [obl EXCEPT ![p] = [g \in Gen |->
                     IF g \in retired THEN [obl[p][g] EXCEPT !.st = "retired"] ELSE obl[p][g]]]
    BY DEF RecordTerminal
  <1>2. \A g \in retired : obl[p][g].st = "live"
    BY DEF RetiredGens, SameKind, Live
  <1> HIDE DEF retired
  <1>3. \A q \in Thread \ {p}, g \in Gen : obl'[q][g] = obl[q][g]
    BY <1>0, <1>1
  <1>4. ASSUME NEW g \in Gen
        PROVE  Legal(obl[p][g], obl'[p][g])
    <2>1. obl'[p][g] = IF g \in retired THEN [obl[p][g] EXCEPT !.st = "retired"] ELSE obl[p][g]
      BY <1>0, <1>1
    <2>2. Complete(obl[p][g]) /\ obl[p][g] \in Obligation
      BY <1>0 DEF CompleteInv
    <2>3. CASE g \in retired
      BY <1>2, <2>1, <2>2, <2>3, RetiredLegal
    <2>4. CASE g \notin retired
      BY <2>1, <2>2, <2>4, SameLegal
    <2> QED  BY <2>3, <2>4
  <1> QED  BY <1>1, <1>3, <1>4 DEF StoreStep

\* A trigger that reaches the mailbox marks its generation dispatched.
LEMMA EnqueueStep ==
    ASSUME RInv, NEW p \in Thread, NEW pred \in Turn, Enqueue(p, pred), UNCHANGED nextGen
    PROVE  StoreStep(p)
  <1> DEFINE g == prov[p][pred]
  <1>0. TypeOK /\ CompleteInv
    BY DEF RInv, IInv
  <1>1. g \in 0..MaxGen
    BY <1>0 DEF TypeOK
  <1>2. obl' = IF g = 0 THEN obl ELSE [obl EXCEPT ![p][g] = Dispatched(obl[p][g])]
    BY DEF Enqueue
  <1> HIDE DEF g
  <1>3. CASE g = 0
    BY <1>2, <1>3, NoStep
  <1>4. CASE g # 0
    <2>1. g \in Gen
      BY <1>1, <1>4, BoundAssumption DEF Gen
    <2>2. obl[p][g] \in Obligation /\ Complete(obl[p][g])
      BY <1>0, <2>1 DEF TypeOK, CompleteInv
    <2>3. Legal(obl[p][g], Dispatched(obl[p][g]))
      BY <2>2, DispatchedLegal
    <2> QED  BY <1>2, <1>4, <2>1, <2>3, OneStep
  <1> QED  BY <1>3, <1>4

\* register_obligation takes the next generation, or shares an obligation.
LEMMA RegisterStep ==
    ASSUME RInv, NEW p \in Thread, NEW S \in SUBSET Child(p), NEW kind \in Kinds,
           Register(p, S, kind)
    PROVE  StoreStep(p) \/ StoreNew(p)
  <1> DEFINE bind == [c \in Thread |-> IF c \in S THEN cur[c] ELSE None]
             h == nextGen[p] + 1
             new == [NoObligation EXCEPT !.st = "live", !.parent_turn = cur[p],
                                         !.trigger_turn = kind, !.targets = bind]
  <1>0. TypeOK /\ FreshInv
    BY DEF RInv, IInv
  <1>1. CASE UNCHANGED <<obl, nextGen>>
    BY <1>1, NoStep
  <1>2. CASE /\ nextGen[p] < MaxGen
             /\ nextGen' = [nextGen EXCEPT ![p] = h]
             /\ obl' = [obl EXCEPT ![p][h] = new]
    <2>1. h \in Gen /\ h > nextGen[p]
      BY <1>0, <1>2, BoundAssumption DEF TypeOK, Gen
    <2>2. /\ new.st = "live" /\ ~new.ready /\ new.retained_pred = 0
          /\ new.targets = bind /\ new.results = [c \in Thread |-> "none"]
      BY DEF NoObligation
    <2>3. Resolved(new) = {}
      BY <2>2 DEF Resolved
    <2>4. Targets(new) # {}
      <3>1. PICK c \in S : TRUE
        BY DEF Register
      <3>2. c \in Thread /\ cur[c] # 0
        BY <1>0, <3>1, BoundAssumption DEF TypeOK, Turn, Child
      <3>3. c \in Targets(new)
        BY <2>2, <3>1, <3>2 DEF Targets
      <3> QED  BY <3>3
    <2> HIDE DEF new, h
    <2>5. /\ obl'[p][h] = new
          /\ \A q \in Thread, g \in Gen : ~(q = p /\ g = h) => obl'[q][g] = obl[q][g]
      BY <1>0, <1>2, <2>1 DEF TypeOK
    <2>6. obl[p][h].st = "unused"
      BY <1>0, <2>1 DEF FreshInv
    <2> QED  BY <1>2, <2>1, <2>2, <2>3, <2>4, <2>5, <2>6 DEF StoreNew, h
  <1> QED  BY <1>1, <1>2 DEF Register

\* A targetful wait consumes a ready join.
LEMMA WaitStep ==
    ASSUME RInv, NEW p \in Thread, NEW S \in SUBSET Child(p), TargetfulWait(p, S)
    PROVE  StoreStep(p)
  <1> DEFINE g == CHOOSE x \in Consumable(p, S) : TRUE
  <1>0. TypeOK /\ CompleteInv
    BY DEF RInv, IInv
  <1>1. /\ obl' = [obl EXCEPT ![p][g] = Acknowledge(obl[p][g], cur[p], cur[p])]
        /\ UNCHANGED nextGen
    BY DEF TargetfulWait
  <1>2. g \in Gen /\ obl[p][g].st = "live" /\ obl[p][g].ready
    <2>1. Cardinality(Consumable(p, S)) = 1 /\ Cardinality({}) = 0
      BY FS_EmptySet DEF TargetfulWait
    <2>2. g \in Consumable(p, S)
      BY <2>1
    <2> QED  BY <2>2 DEF Consumable, Live
  <1> HIDE DEF g
  <1>3. obl[p][g] \in Obligation /\ cur[p] \in Turn /\ Complete(obl[p][g])
    BY <1>0, <1>2 DEF TypeOK, CompleteInv
  <1>4. Legal(obl[p][g], Acknowledge(obl[p][g], cur[p], cur[p]))
    BY <1>2, <1>3, AcknowledgeLegal
  <1> QED  BY <1>1, <1>2, <1>4, OneStep

\* A step of a turn, of the tools it calls or of the submission loop.
LEMMA TurnMoves ==
    ASSUME RInv, NEW p \in Thread, TurnStep(p)
    PROVE  StoreStep(p) \/ StoreNew(p)
  <1>0. TypeOK
    BY DEF RInv, IInv
  <1>1. CASE UserStart(p) \/ Wake(p) \/ ActiveDelivery(p) \/ OrphanDelivery(p)
    <2>1. StartTurn(p) => cur[p] + 1 \in 0..MaxTurn
      BY <1>0, BoundAssumption DEF TypeOK, Turn, StartTurn
    <2>2. cur[p] \in 0..MaxTurn /\ 0 \in 0..MaxTurn
      BY <1>0, BoundAssumption DEF TypeOK, Turn
    <2>3. UNCHANGED nextGen /\ \E succ \in 0..MaxTurn : DrainInto(p, succ)
      BY <1>1, <2>1, <2>2 DEF UserStart, Wake, ActiveDelivery, OrphanDelivery, StartTurn
    <2> QED  BY <2>3, DrainStep
  <1>2. CASE \E s \in EndStatus : FinishTurn(p, s) \/ AbortTurn(p, s)
    <2>1. UNCHANGED <<obl, nextGen>>
      BY <1>2 DEF FinishTurn, AbortTurn, storeVars
    <2> QED  BY <2>1, NoStep
  <1>3. CASE ClearSlot(p) \/ Shutdown(p)
    <2>1. UNCHANGED <<obl, nextGen>>
      BY <1>3 DEF ClearSlot, Shutdown, storeVars
    <2> QED  BY <2>1, NoStep
  <1>4. CASE \E d \in dying[p] : RecordTerminal(p, d)
    BY <1>4, RecordStep
  <1>5. CASE \E S \in SUBSET Child(p), kind \in Kinds : Register(p, S, kind)
    BY <1>5, RegisterStep
  <1>6. CASE \E S \in SUBSET Child(p) : TargetfulWait(p, S)
    BY <1>6, WaitStep
  <1>7. CASE HandleOp(p)
    <2>1. op[p] \in Seq(Turn) /\ op[p] # <<>> /\ Enqueue(p, Head(op[p])) /\ UNCHANGED nextGen
      BY <1>0, <1>7 DEF HandleOp, TypeOK
    <2>2. Head(op[p]) \in Turn
      BY <2>1
    <2> QED  BY <2>1, <2>2, EnqueueStep
  <1> QED  BY <1>1, <1>2, <1>3, <1>4, <1>5, <1>6, <1>7 DEF TurnStep

\* A step of an observer changes at most the obligation it observes for.
LEMMA ObserverMoves ==
    ASSUME RInv, NEW c \in Thread, NEW g \in Gen, NEW n \in ObsId, ObserverStep(c, g, n)
    PROVE  StoreStep(Parent[c])
  <1> DEFINE p == Parent[c]
             o == obs[c][g][n]
             b == obl[p][g]
  <1>0. TypeOK /\ ObserverInv /\ CompleteInv
    BY DEF RInv, IInv
  <1>1. p \in Thread /\ b \in Obligation /\ Complete(b)
    BY <1>0, ThreadAssumption DEF TypeOK, CompleteInv
  <1>2. o \in Observer /\ ObserverExact(c, o)
    BY <1>0 DEF TypeOK, ObserverInv
  <1>3. CASE \/ SeeTerminal(c, g, n) \/ SnapshotContinuation(c, g, n) \/ AwaitDelivery(c, g, n)
             \/ CheckSuccessor(c, g, n) \/ SeeSuccessorTerminal(c, g, n)
             \/ FinishContinuation(c, g, n)
    <2>1. UNCHANGED <<obl, nextGen>>
      BY <1>3 DEF SeeTerminal, SnapshotContinuation, AwaitDelivery, CheckSuccessor,
                  SeeSuccessorTerminal, FinishContinuation, storeVars
    <2> QED  BY <1>1, <2>1, NoStep
  <1>4. CASE ResolveTarget(c, g, n)
    <2> DEFINE retain == o.pc = "retain"
    <2>1. UNCHANGED nextGen /\ o.pc \in {"retain", "resolve"}
      BY <1>4 DEF ResolveTarget
    <2>2. \/ /\ b.st = "live" /\ b.targets[c] = o.turn /\ IsFinal(o.status)
             /\ obl' = [obl EXCEPT ![p][g] = Resolve(b, c, o.status, retain)]
          \/ UNCHANGED obl
      BY <1>4 DEF ResolveTarget, Resolvable
    <2>3. o.turn \in Turn /\ o.status \in Status /\ retain \in BOOLEAN
      <3> HIDE DEF o
      <3> QED  BY <1>2, <2>1 DEF ObserverExact, Observer
    <2> HIDE DEF p, o, b, retain
    <2>4. CASE UNCHANGED obl
      BY <1>1, <2>1, <2>4, NoStep DEF p
    <2>5. CASE ~ UNCHANGED obl
      <3>1. b.st = "live" /\ b.targets[c] \in Turn /\ o.status # "none"
        BY <2>2, <2>3, <2>5 DEF IsFinal
      <3>2. Legal(b, Resolve(b, c, o.status, retain))
        BY <1>1, <2>3, <3>1, ResolveLegal
      <3> QED  BY <1>1, <2>1, <2>2, <2>5, <3>2, OneStep DEF b, p
    <2> QED  BY <2>4, <2>5
  <1>5. CASE MarkTrigger(c, g, n) \/ FinishDispatch(c, g, n)
    <2>1. UNCHANGED nextGen /\ (UNCHANGED obl \/ obl' = [obl EXCEPT ![p][g] = Dispatched(b)])
      BY <1>5 DEF MarkTrigger, FinishDispatch
    <2>2. Legal(b, Dispatched(b))
      BY <1>1, DispatchedLegal
    <2> QED  BY <1>1, <2>1, <2>2, NoStep, OneStep
  <1>6. CASE SendTrigger(c, g, n)
    <2>1. UNCHANGED nextGen /\ (UNCHANGED obl \/ Enqueue(p, o.owner)) /\ o.pc = "send"
      BY <1>6 DEF SendTrigger, At
    <2>2. o.owner \in Turn
      <3> HIDE DEF o
      <3> QED  BY <1>2, <2>1 DEF ObserverExact
    <2> QED  BY <1>1, <2>1, <2>2, NoStep, EnqueueStep
  <1>7. CASE RebindTarget(c, g, n)
    <2>1. /\ UNCHANGED nextGen /\ o.pc = "rebind"
          /\ \/ /\ AwaitsSuccessor(b, c) /\ b.targets[c] = o.turn
                /\ obl' = [obl EXCEPT ![p][g] = Rebound(b, c, o.succ)]
             \/ UNCHANGED obl
      BY <1>7 DEF RebindTarget, At
    <2>2. o.turn \in Turn /\ o.succ \in Turn
      <3> HIDE DEF o
      <3> QED  BY <1>2, <2>1 DEF ObserverExact
    <2> HIDE DEF p, o, b
    <2>3. CASE UNCHANGED obl
      BY <1>1, <2>1, <2>3, NoStep DEF p
    <2>4. CASE ~ UNCHANGED obl
      <3>1. Legal(b, Rebound(b, c, o.succ))
        BY <1>1, <2>1, <2>2, <2>4, ReboundLegal
      <3> QED  BY <1>1, <2>1, <2>4, <3>1, OneStep DEF b, p
    <2> QED  BY <2>3, <2>4
  <1>8. CASE RetireRetention(c, g, n)
    <2>1. UNCHANGED nextGen /\ (UNCHANGED obl \/ obl' = [obl EXCEPT ![p][g] = Unretained(b, c)])
      BY <1>8 DEF RetireRetention
    <2>2. Legal(b, Unretained(b, c))
      BY <1>1, UnretainedLegal
    <2> QED  BY <1>1, <2>1, <2>2, NoStep, OneStep
  <1> QED  BY <1>3, <1>4, <1>5, <1>6, <1>7, <1>8 DEF ObserverStep

\* Moves of the joins keep what the refinement rests on.
LEMMA StoreStepKeeps ==
    ASSUME RInv, NEW p \in Thread, StoreStep(p)
    PROVE  CompleteInv' /\ FreshInv'
  <1>0. CompleteInv /\ FreshInv
    BY DEF RInv
  <1>1. ASSUME NEW q \in Thread, NEW g \in Gen
        PROVE  Complete(obl'[q][g]) /\ (obl[q][g].st = "unused" => obl'[q][g].st = "unused")
    <2>1. CASE q = p
      BY <2>1 DEF StoreStep, Legal
    <2>2. CASE q # p
      BY <1>0, <2>2 DEF StoreStep, CompleteInv
    <2> QED  BY <2>1, <2>2
  <1>2. UNCHANGED nextGen
    BY DEF StoreStep
  <1> QED  BY <1>0, <1>1, <1>2 DEF CompleteInv, FreshInv, Complete, Targets, Resolved

\* So does a new join.
LEMMA StoreNewKeeps ==
    ASSUME RInv, NEW p \in Thread, StoreNew(p)
    PROVE  CompleteInv' /\ FreshInv'
  <1> DEFINE h == nextGen[p] + 1
  <1>0. CompleteInv /\ FreshInv /\ nextGen \in [Thread -> 0..MaxGen]
    BY DEF RInv, IInv, TypeOK
  <1>1. ASSUME NEW q \in Thread, NEW g \in Gen
        PROVE  Complete(obl'[q][g])
    <2>1. CASE q = p /\ g = h
      BY <2>1 DEF StoreNew, Complete
    <2>2. CASE ~(q = p /\ g = h)
      BY <1>0, <2>2 DEF StoreNew, CompleteInv
    <2> QED  BY <2>1, <2>2
  <1>2. ASSUME NEW q \in Thread, NEW g \in Gen, g > nextGen'[q]
        PROVE  obl'[q][g].st = "unused"
    <2>1. CASE q = p
      <3>1. nextGen'[p] = h /\ nextGen[p] \in 0..MaxGen
        BY <1>0 DEF StoreNew
      <3>2. g # h /\ g > nextGen[p]
        BY <1>2, <2>1, <3>1, BoundAssumption DEF Gen
      <3> QED  BY <1>0, <2>1, <3>2 DEF StoreNew, FreshInv
    <2>2. CASE q # p
      <3>1. nextGen'[q] = nextGen[q]
        BY <1>0, <2>2 DEF StoreNew
      <3> QED  BY <1>0, <1>2, <2>2, <3>1 DEF StoreNew, FreshInv
    <2> QED  BY <2>1, <2>2
  <1> QED  BY <1>1, <1>2 DEF CompleteInv, FreshInv, Complete, Targets, Resolved

\* Every step is a move of one store or a new join in it.
LEMMA OneStoreMoves ==
    ASSUME RInv, [Next]_vars
    PROVE  \E p \in Thread : StoreStep(p) \/ StoreNew(p)
  <1>1. CASE \E p \in Thread : TurnStep(p)
    BY <1>1, TurnMoves
  <1>2. CASE \E c \in Thread, g \in Gen, n \in ObsId : ObserverStep(c, g, n)
    BY <1>2, ObserverMoves, ThreadAssumption
  <1>3. CASE UNCHANGED vars
    <2>1. UNCHANGED <<obl, nextGen>> /\ Root \in Thread
      BY <1>3, ThreadAssumption DEF vars
    <2> QED  BY <2>1, NoStep
  <1> QED  BY <1>1, <1>2, <1>3 DEF Next

-----------------------------------------------------------------------------
(* The theorems.                                                           *)

\* A ready join is complete and generations are fresh, in every state.
THEOREM CompleteInvariant == Spec => []RInv
  <1>1. Init => RInv
    <2>1. Init => IInv
      BY InitInv
    <2>2. Init => CompleteInv /\ FreshInv
      BY DEF Init, CompleteInv, FreshInv, Complete, NoObligation
    <2> QED  BY <2>1, <2>2 DEF RInv
  <1>2. RInv /\ [Next]_vars => RInv'
    <2> SUFFICES ASSUME RInv, [Next]_vars PROVE RInv'
      OBVIOUS
    <2>1. IInv'
      BY TurnStepKeeps, ObserverStepKeeps, StutterKeeps DEF Next, RInv
    <2>2. CompleteInv' /\ FreshInv'
      BY OneStoreMoves, StoreStepKeeps, StoreNewKeeps
    <2> QED  BY <2>1, <2>2 DEF RInv
  <1> QED  BY <1>1, <1>2, PTL DEF Spec

\* What a move of one store is to the contract.
LEMMA StoreStepIsContract ==
    ASSUME RInv, NEW p \in Thread, StoreStep(p)
    PROVE  Contract!Step(p) /\ \A q \in Thread \ {p} : \A g \in Gen : Contract!Stay(q, g)
  <1>1. ASSUME NEW q \in Thread \ {p}, NEW g \in Gen
        PROVE  Contract!Stay(q, g)
    <2>1. obl'[q][g] = obl[q][g]
      BY DEF StoreStep
    <2> QED  BY <2>1 DEF Contract!Stay, Contract!Becomes, Phase, WaitingFor, Targets, Resolved
  <1>2. ASSUME NEW g \in Gen
        PROVE  \/ Contract!Register(p, g) \/ Contract!Report(p, g) \/ Contract!Tell(p, g)
               \/ Contract!NextRound(p, g) \/ Contract!Drop(p, g) \/ Contract!Stay(p, g)
    <2>1. Moves(obl[p][g], obl'[p][g])
      BY DEF StoreStep, Legal
    <2>2. WaitingFor(obl'[p][g]) \subseteq Targets(obl'[p][g])
      BY DEF WaitingFor
    <2> QED  BY <2>1, <2>2
             DEF Moves, Contract!Report, Contract!Tell, Contract!NextRound, Contract!Drop,
                 Contract!Stay, Contract!Becomes, Phase, WaitingFor, Targets, Resolved
  <1> QED  BY <1>1, <1>2 DEF Contract!Step

\* A new join is the contract's Register.
LEMMA StoreNewIsContract ==
    ASSUME RInv, NEW p \in Thread, StoreNew(p)
    PROVE  Contract!Step(p) /\ \A q \in Thread \ {p} : \A g \in Gen : Contract!Stay(q, g)
  <1> DEFINE h == nextGen[p] + 1
  <1>1. ASSUME NEW q \in Thread, NEW g \in Gen, ~(q = p /\ g = h)
        PROVE  Contract!Stay(q, g)
    <2>1. obl'[q][g] = obl[q][g]
      BY <1>1 DEF StoreNew
    <2> QED  BY <2>1 DEF Contract!Stay, Contract!Becomes, Phase, WaitingFor, Targets, Resolved
  <1>2. h \in Gen /\ Contract!Register(p, h)
    <2>1. /\ h \in Gen /\ obl[p][h].st = "unused" /\ obl'[p][h].st = "live"
          /\ Targets(obl'[p][h]) # {} /\ Resolved(obl'[p][h]) = {}
      BY DEF StoreNew
    <2> HIDE DEF h
    <2>2. Targets(obl'[p][h]) \in SUBSET Thread
      BY DEF Targets
    <2>3. WaitingFor(obl'[p][h]) = Targets(obl'[p][h])
      BY <2>1 DEF WaitingFor
    <2>4. Phase(obl[p][h]) = "unused" /\ Phase(obl'[p][h]) = "open"
      BY <2>1 DEF Phase
    <2> QED  BY <2>1, <2>2, <2>3, <2>4
             DEF Contract!Register, Phase, WaitingFor, Targets, Resolved
  <1> HIDE DEF h
  <1> QED  BY <1>1, <1>2 DEF Contract!Step

\* Every step of the system is a step of the contract.
LEMMA StepIsContract ==
    ASSUME RInv, [Next]_vars
    PROVE  Contract!Next
  <1>1. PICK p \in Thread : StoreStep(p) \/ StoreNew(p)
    BY OneStoreMoves
  <1>2. Contract!Step(p) /\ \A q \in Thread \ {p} : \A g \in Gen : Contract!Stay(q, g)
    BY <1>1, StoreStepIsContract, StoreNewIsContract
  <1>3. [q \in Thread |-> [g \in Gen |-> Phase(obl[q][g])]]'
          \in [Thread -> [Gen -> {"unused", "open", "told", "dropped"}]]
    BY DEF Phase
  <1> QED  BY <1>2, <1>3 DEF Contract!Next

\* For any tree of threads and any bounds, the stores, observers, dispatchers
\* and turns implement the contract of a join: each child reports once per
\* round, the parent is told only when all have reported and only once, an
\* intermediate result opens another round, and a finished or dropped join
\* never comes back (register_obligation, resolve_join_target_inner,
\* acknowledge_ready_join_delivery_locked, rebind_join_target_to_successor).
THEOREM ContractRefinement == Spec => ImplementsContract
  <1>1. Init => Contract!Init
    BY DEF Init, Contract!Init, NoObligation, Phase, WaitingFor, Targets
  <1>2. RInv /\ [Next]_vars => [Contract!Next]_(Contract!vars)
    BY StepIsContract
  <1> QED  BY <1>1, <1>2, CompleteInvariant, PTL DEF Spec, ImplementsContract, Contract!Spec

\* For any tree of threads and any bounds, a parent's turn is handed an
\* aggregate, final or intermediate, only when every child it joined has a
\* result (acknowledge_ready_join_delivery_locked,
\* consume_ready_join_obligation_for_targets_with_outcomes).
THEOREM OnlyCompleteHolds == Spec => OnlyCompleteIsDelivered
  <1>1. RInv /\ [Next]_vars =>
          [\A p \in Thread, g \in Gen :
             LET o == obl[p][g]
             IN  o.st = "live" /\ (obl'[p][g].st = "consumed" \/ obl'[p][g].parent_turn # o.parent_turn)
                 => Targets(o) \subseteq Resolved(o)]_vars
    <2> SUFFICES ASSUME RInv, [Next]_vars, NEW q \in Thread, NEW g \in Gen,
                        obl[q][g].st = "live",
                        obl'[q][g].st = "consumed" \/ obl'[q][g].parent_turn # obl[q][g].parent_turn
                 PROVE  Targets(obl[q][g]) \subseteq Resolved(obl[q][g])
      OBVIOUS
    <2>1. PICK p \in Thread : StoreStep(p) \/ StoreNew(p)
      BY OneStoreMoves
    <2>2. CASE StoreStep(p)
      <3>1. CASE q = p
        BY <2>2, <3>1 DEF StoreStep, Legal
      <3>2. CASE q # p
        BY <2>2, <3>2 DEF StoreStep
      <3> QED  BY <3>1, <3>2
    <2>3. CASE StoreNew(p)
      <3>1. ~(q = p /\ g = nextGen[p] + 1)
        BY <2>3 DEF StoreNew
      <3>2. obl'[q][g] = obl[q][g]
        BY <2>3, <3>1 DEF StoreNew
      <3> QED  BY <3>2
    <2> QED  BY <2>1, <2>2, <2>3
  <1> QED  BY <1>1, CompleteInvariant, PTL DEF Spec, OnlyCompleteIsDelivered

=============================================================================
