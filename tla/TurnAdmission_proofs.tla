------------------------ MODULE TurnAdmission_proofs ------------------------
(***************************************************************************)
(* Theorems about TurnAdmission, for any number of slots, mails, threads   *)
(* and inputs.                                                             *)
(***************************************************************************)
EXTENDS TurnAdmission, WellFoundedInduction, FiniteSetTheorems, TLAPS

-----------------------------------------------------------------------------
(* The inductive invariant.                                                *)

\* Where a process is the owner of the claim of the turn it works on.
OwnPC == {"commit", "install", "begin", "autocheck", "failed"}

WakePC == {"check", "claim", "commit", "install"}
TaskPC == WakePC \cup {"off", "run", "ended", "closing"}
WatchPC == WakePC \cup {"new", "slot", "capacity", "lease", "armed", "after", "done"}

\* Where the loop holds the reservation of the turn it starts, where it works
\* on a turn, and where it may hold the guard of an earlier one.
LoopResPC == {"install", "begin", "failed", "autoclaim", "autocheck", "start"}
LoopIdPC == OwnPC \cup {"waitclaim", "aborting"}
LoopPC == WakePC \cup LoopResPC \cup LoopIdPC \cup InputKind \cup {"idle"}

Rec == [pc : LoopPC \cup TaskPC \cup WatchPC, id : Slot \cup {NoSlot},
        res : BOOLEAN, outer : BOOLEAN]

\* What the loop, a task and a watcher hold at each of their steps.
LoopShape(r) ==
    /\ r.pc \in LoopPC
    /\ r.pc \in LoopResPC => r.res
    /\ r.res => r.pc \in LoopResPC \cup {"interrupt", "aborting"}
    /\ r.outer => r.pc \in WakePC \cup {"aborting"}
    /\ r.pc = "aborting" => r.outer
    /\ r.id # NoSlot <=> r.pc \in LoopIdPC

TaskShape(r) ==
    /\ r.pc \in TaskPC
    /\ r.res <=> r.pc = "install"
    /\ ~r.outer
    /\ r.id # NoSlot <=> r.pc \in {"commit", "install", "closing"}

WatchShape(r) ==
    /\ r.pc \in WatchPC
    /\ r.res <=> r.pc = "install"
    /\ ~r.outer
    /\ r.id # NoSlot <=> r.pc \in {"commit", "install"}

Shape(p, r) ==
    /\ p[1] = "loop" => LoopShape(r)
    /\ p[1] = "task" => TaskShape(r)
    /\ p[1] = "watch" => WatchShape(r)

ShapeInv == \A p \in Proc : Shape(p, at[p])

\* The types, with the records of the processes; the slot is empty in the
\* phase "none" only.
TurnOK ==
    /\ turn \in [id : Slot \cup {NoSlot}, phase : Phase]
    /\ turn.id = NoSlot <=> turn.phase = "none"

ClaimType == [Slot -> {"none", "Starting", "Running", "Cancelled"}]

RestOK ==
    /\ other \in Nat /\ taken \in 0..MaxOther
    /\ fresh \subseteq Dispatch /\ mail \subseteq Dispatch /\ ops \subseteq Dispatch
    /\ inputs \in 0..MaxInput

StateOK ==
    /\ TurnOK /\ RestOK
    /\ claim \in ClaimType
    /\ at \in [Proc -> Rec]
    /\ active \in Nat

Owns(p, i) == at[p].pc \in OwnPC /\ at[p].id = i

\* Claims have one owner, the task of a claimed turn does not exist yet, and a
\* claimed turn in the slot is in the phase its owner left it in.
Fits(t, r) ==
    t.id = r.id => /\ r.pc # "failed"
                   /\ t.phase = IF r.pc = "commit" THEN "wake" ELSE "start"

OwnerInv ==
    \A p \in Proc : at[p].pc \in OwnPC =>
        /\ \A q \in Proc : Owns(q, at[p].id) => q = p
        /\ at[Task(at[p].id)].pc = "off"
        /\ Fits(turn, at[p])

\* A claim somebody may wait for has its owner.
StartingInv == \A i \in Slot : claim[i] = "Starting" => \E p \in Proc : Owns(p, i)

IInv == StateOK /\ ShapeInv /\ OwnerInv /\ StartingInv /\ GuardsExact

\* Without interrupts and replacements nobody takes a task from the slot but
\* the task itself: it is there as long as it runs, and a turn that is closing
\* is closed by its own task.
QuietInv ==
    /\ at[Loop].pc \notin {"interrupt", "replace", "aborting", "start"}
    /\ \A i \in Slot : at[Task(i)].pc \in {"run", "ended"} => turn = [id |-> i, phase |-> "task"]
    /\ turn.phase = "closing" => /\ at[Task(turn.id)].pc = "closing"
                                 /\ at[Task(turn.id)].id = turn.id

\* Without refused batches, too, no claim is dropped while its turn is in the slot.
HeldInv == Taskless => claim[turn.id] = "Starting"
-----------------------------------------------------------------------------
(* Facts about the processes and the slots.                                *)

\* The kind of a process tells the loop, the tasks and the watchers apart, and
\* every turn has a task of its own.
LEMMA ProcKinds ==
    /\ Loop \in Proc /\ Loop[1] = "loop"
    /\ \A i \in Slot : Task(i) \in Proc /\ Task(i)[1] = "task"
    /\ \A d \in Dispatch : Watcher(d) \in Proc /\ Watcher(d)[1] = "watch"
    /\ \A p \in Proc : /\ p[1] \in {"loop", "task", "watch"}
                       /\ p[1] = "loop" <=> p = Loop
                       /\ p[1] = "task" <=> \E i \in Slot : p = Task(i)
    /\ \A i, j \in Slot : Task(i) = Task(j) => i = j
  BY DEF Proc, Loop, Task, Watcher

\* The three kinds of processes are finitely many.
LEMMA ProcFinite == IsFiniteSet(Proc)
<1> DEFINE T == {Task(i) : i \in Slot}
           W == {Watcher(d) : d \in Dispatch}
           ft == [i \in Slot |-> Task(i)]
           fw == [d \in Dispatch |-> Watcher(d)]
<1>1. IsFiniteSet(Slot)
  BY FS_Interval, AdmissionAssumption DEF Slot
<1>2. ft \in Surjection(Slot, T) /\ fw \in Surjection(Dispatch, W)
  BY DEF Surjection
<1>3. IsFiniteSet(T) /\ IsFiniteSet(W)
  <2> HIDE DEF T, W, ft, fw
  <2> QED BY <1>1, <1>2, FS_Surjection, AdmissionAssumption
<1>4. IsFiniteSet({Loop})
  BY FS_Singleton
<1>5. IsFiniteSet({Loop} \cup T)
  <2> HIDE DEF T
  <2> QED BY <1>3, <1>4, FS_Union
<1>6. IsFiniteSet(({Loop} \cup T) \cup W)
  <2> HIDE DEF T, W
  <2> QED BY <1>3, <1>5, FS_Union
<1> QED BY <1>6 DEF Proc

\* A set of naturals has a least element.
LEMMA LeastNatural == \A T \in SUBSET Nat : T # {} => \E m \in T : \A n \in T : m <= n
<1> DEFINE R == OpToRel(<, Nat)
<1> SUFFICES ASSUME NEW T \in SUBSET Nat, T # {}
             PROVE  \E m \in T : \A n \in T : m <= n
  OBVIOUS
<1>1. IsWellFoundedOn(R, Nat)
  BY NatLessThanWellFounded
<1>2. \A x, y \in Nat : <<y, x>> \in R <=> y < x
  BY DEF OpToRel
<1> HIDE DEF R
<1>3. PICK x \in T : \A y \in T : ~(<<y, x>> \in R)
  BY <1>1, WFMin
<1>4. x \in Nat /\ \A y \in T : y \in Nat /\ ~(y < x)
  BY <1>2, <1>3
<1>5. \A m, n \in Nat : ~(m < n) => n <= m
  OBVIOUS
<1> QED BY <1>4, <1>5

\* The ActiveTurn a claim creates is one nobody refers to.
LEMMA NewSlotIsFree == FreeSlot # {} => NewSlot \in FreeSlot
<1> SUFFICES ASSUME FreeSlot # {} PROVE NewSlot \in FreeSlot
  OBVIOUS
<1>1. FreeSlot \in SUBSET Nat
  BY AdmissionAssumption DEF FreeSlot, Slot
<1>2. \E i \in FreeSlot : \A j \in FreeSlot : i <= j
  <2> HIDE DEF FreeSlot
  <2> QED BY <1>1, LeastNatural
<1> QED BY <1>2 DEF NewSlot

\* Two sets that differ in one element at most differ in size accordingly.
LEMMA CountStep ==
    \A A, B \in SUBSET Proc : \A p \in Proc : A \ {p} = B \ {p} =>
        /\ Cardinality(A) \in Nat /\ Cardinality(B) \in Nat
        /\ Cardinality(B) + Held(p \in A) = Cardinality(A) + Held(p \in B)
<1> SUFFICES ASSUME NEW A \in SUBSET Proc, NEW B \in SUBSET Proc, NEW p \in Proc,
                    A \ {p} = B \ {p}
             PROVE  /\ Cardinality(A) \in Nat /\ Cardinality(B) \in Nat
                    /\ Cardinality(B) + Held(p \in A) = Cardinality(A) + Held(p \in B)
  OBVIOUS
<1> DEFINE C == A \ {p}
<1>1. IsFiniteSet(A) /\ IsFiniteSet(B)
  BY ProcFinite, FS_Subset
<1>2. Cardinality(A) \in Nat /\ Cardinality(B) \in Nat
  BY <1>1, FS_CardinalityType
<1>3. Cardinality(C) = IF p \in A THEN Cardinality(A) - 1 ELSE Cardinality(A)
  BY <1>1, FS_RemoveElement
<1>4. Cardinality(C) = IF p \in B THEN Cardinality(B) - 1 ELSE Cardinality(B)
  BY <1>1, FS_RemoveElement
<1> QED BY <1>2, <1>3, <1>4 DEF Held

-----------------------------------------------------------------------------
(* Moves of one process.                                                   *)

ResSet == {p \in Proc : at[p].res}
OuterSet == {p \in Proc : at[p].outer}
SlotHeld(t) == Held(t.phase \in {"wake", "task"})

\* The claims somebody still holds after process p moved to record r.
Answered(p, r, old, new) ==
    \A i \in Slot : new[i] = "Starting" =>
        (old[i] = "Starting" /\ ~Owns(p, i)) \/ (r.id = i /\ r.pc \in OwnPC)

\* How a move of process p to record r may change the slot.
TurnMove(p, r, t) ==
    /\ \/ t = turn \/ t = NoTurn \/ t.id \in FreeSlot
       \/ t.id = turn.id /\ (turn.phase \in {"task", "closing"} \/ Owns(p, turn.id))
    /\ r.pc \in OwnPC => Fits(t, r)

\* A process that moves changes the numbers of held guards by its own.
LEMMA CountMove ==
    ASSUME at \in [Proc -> Rec], NEW p \in Proc, NEW r \in Rec, at' = [at EXCEPT ![p] = r]
    PROVE  /\ Cardinality(ResSet) \in Nat /\ Cardinality(ResSet') \in Nat
           /\ Cardinality(OuterSet) \in Nat /\ Cardinality(OuterSet') \in Nat
           /\ Cardinality(ResSet') + Held(at[p].res) = Cardinality(ResSet) + Held(r.res)
           /\ Cardinality(OuterSet') + Held(at[p].outer) = Cardinality(OuterSet) + Held(r.outer)
<1>1. ResSet \in SUBSET Proc /\ ResSet' \in SUBSET Proc
  BY DEF ResSet
<1>2. OuterSet \in SUBSET Proc /\ OuterSet' \in SUBSET Proc
  BY DEF OuterSet
<1>3. ResSet \ {p} = ResSet' \ {p} /\ (p \in ResSet <=> at[p].res) /\ (p \in ResSet' <=> r.res)
  BY DEF ResSet, Rec
<1>4. OuterSet \ {p} = OuterSet' \ {p} /\ (p \in OuterSet <=> at[p].outer)
          /\ (p \in OuterSet' <=> r.outer)
  BY DEF OuterSet, Rec
<1>5. /\ Cardinality(ResSet) \in Nat /\ Cardinality(ResSet') \in Nat
      /\ Cardinality(ResSet') + Held(p \in ResSet) = Cardinality(ResSet) + Held(p \in ResSet')
  <2> HIDE DEF ResSet
  <2> QED BY <1>1, <1>3, CountStep
<1>6. /\ Cardinality(OuterSet) \in Nat /\ Cardinality(OuterSet') \in Nat
      /\ Cardinality(OuterSet') + Held(p \in OuterSet) = Cardinality(OuterSet) + Held(p \in OuterSet')
  <2> HIDE DEF OuterSet
  <2> QED BY <1>2, <1>4, CountStep
<1>7. Held(p \in ResSet) = Held(at[p].res) /\ Held(p \in ResSet') = Held(r.res)
  BY <1>3 DEF Held
<1>8. Held(p \in OuterSet) = Held(at[p].outer) /\ Held(p \in OuterSet') = Held(r.outer)
  BY <1>4 DEF Held
<1> QED BY <1>5, <1>6, <1>7, <1>8

\* GuardsExact in terms of the sets above.
LEMMA GuardsForm ==
    GuardsExact <=>
        /\ active <= MaxThreads
        /\ active = SlotHeld(turn) + other + Cardinality(ResSet) + Cardinality(OuterSet)
  BY DEF GuardsExact, SlotHeld, ResSet, OuterSet

\* The same after a step.
LEMMA GuardsFormNext ==
    GuardsExact' <=>
        /\ active' <= MaxThreads
        /\ active' = SlotHeld(turn') + other' + Cardinality(ResSet') + Cardinality(OuterSet')
  BY DEF GuardsExact, SlotHeld, ResSet, OuterSet

\* A process that moves keeps the count of guards exact when the limiter's
\* count, the slot and the other sessions account for what it took or dropped.
LEMMA GuardsMove ==
    ASSUME at \in [Proc -> Rec], NEW p \in Proc, NEW r \in Rec, at' = [at EXCEPT ![p] = r],
           active \in Nat, active' \in Nat, other \in Nat, other' \in Nat,
           active' <= MaxThreads, GuardsExact,
           active' + SlotHeld(turn) + other + Held(at[p].res) + Held(at[p].outer)
             = active + SlotHeld(turn') + other' + Held(r.res) + Held(r.outer)
    PROVE  GuardsExact'
<1>1. /\ Cardinality(ResSet) \in Nat /\ Cardinality(ResSet') \in Nat
      /\ Cardinality(OuterSet) \in Nat /\ Cardinality(OuterSet') \in Nat
      /\ Cardinality(ResSet') + Held(at[p].res) = Cardinality(ResSet) + Held(r.res)
      /\ Cardinality(OuterSet') + Held(at[p].outer) = Cardinality(OuterSet) + Held(r.outer)
  BY CountMove
<1>2. active = SlotHeld(turn) + other + Cardinality(ResSet) + Cardinality(OuterSet)
  BY GuardsForm
<1>3. /\ SlotHeld(turn) \in Nat /\ SlotHeld(turn') \in Nat
      /\ Held(at[p].res) \in Nat /\ Held(at[p].outer) \in Nat
      /\ Held(r.res) \in Nat /\ Held(r.outer) \in Nat
  BY DEF SlotHeld, Held
<1>4. active' = SlotHeld(turn') + other' + Cardinality(ResSet') + Cardinality(OuterSet')
  BY <1>1, <1>2, <1>3, SMTT(60)
<1> QED BY <1>4, GuardsFormNext

\* One process moves, and the slot, the claims and the counters change with
\* it: the invariant is kept when every one of them accounts for the move.
LEMMA MoveInv ==
    ASSUME IInv, NEW p \in Proc, NEW r \in Rec, at' = [at EXCEPT ![p] = r],
           Shape(p, r), at[p].pc # "off",
           TurnOK', RestOK', claim' \in ClaimType, active' \in Nat,
           active' <= MaxThreads,
           active' + SlotHeld(turn) + other + Held(at[p].res) + Held(at[p].outer)
             = active + SlotHeld(turn') + other' + Held(r.res) + Held(r.outer),
           r.pc \in OwnPC => Owns(p, r.id) \/ r.id \in FreeSlot,
           TurnMove(p, r, turn'), Answered(p, r, claim, claim')
    PROVE  IInv'
<1> USE DEF IInv
<1>1. at' \in [Proc -> Rec]
  BY DEF StateOK
<1>2. StateOK'
  BY <1>1 DEF StateOK
<1>3. ShapeInv'
  <2> HIDE DEF Shape
  <2> QED BY DEF ShapeInv, StateOK
<1>4. GuardsExact'
  BY GuardsMove DEF StateOK, RestOK
<1>5. StartingInv'
  <2> SUFFICES ASSUME NEW i \in Slot, claim'[i] = "Starting"
               PROVE  \E q \in Proc : Owns(q, i)'
    BY DEF StartingInv
  <2>1. CASE r.id = i /\ r.pc \in OwnPC
    <3>1. Owns(p, i)'
      BY <2>1 DEF Owns, StateOK
    <3> QED BY <3>1
  <2>2. CASE claim[i] = "Starting" /\ ~Owns(p, i)
    <3>1. PICK q \in Proc : Owns(q, i)
      BY <2>2 DEF StartingInv
    <3>2. Owns(q, i)'
      BY <2>2, <3>1 DEF Owns, StateOK
    <3> QED BY <3>2
  <2> QED BY <2>1, <2>2 DEF Answered
<1>6. OwnerInv'
  <2> SUFFICES ASSUME NEW q \in Proc, at'[q].pc \in OwnPC
               PROVE  /\ \A s \in Proc : Owns(s, at[q].id)' => s = q
                      /\ at'[Task(at'[q].id)].pc = "off"
                      /\ Fits(turn', at'[q])
    BY DEF OwnerInv
  <2>1. at'[q].id \in Slot
    BY <1>1, <1>3, ProcKinds DEF ShapeInv, Shape, LoopShape, TaskShape, WatchShape,
        OwnPC, LoopIdPC, Rec, LoopResPC, TaskPC, WatchPC, WakePC
  <2>2. ASSUME NEW s \in Proc, Owns(s, at[q].id)' PROVE s = q
    BY <2>2 DEF OwnerInv, Owns, StateOK, FreeSlot
  <2>3. at'[Task(at'[q].id)].pc = "off"
    <3> DEFINE k == Task(at'[q].id)
    <3>1. k \in Proc
      BY <2>1, ProcKinds
    <3>2. at[k].pc = "off"
      BY <2>1 DEF OwnerInv, Owns, StateOK, FreeSlot
    <3> HIDE DEF k
    <3>3. at'[k].pc = "off"
      BY <3>1, <3>2 DEF StateOK
    <3> QED BY <3>3 DEF k
  <2>4. Fits(turn', at'[q])
    <3>1. CASE q = p
      BY <3>1 DEF TurnMove, StateOK
    <3>2. CASE q # p
      <4>1. at'[q] = at[q] /\ Fits(turn, at[q]) /\ \A s \in Proc : Owns(s, at[q].id) => s = q
        BY <3>2 DEF StateOK, OwnerInv
      <4>2. CASE turn' = turn
        BY <4>1, <4>2
      <4>3. CASE turn' = NoTurn
        BY <2>1, <4>1, <4>3, AdmissionAssumption DEF Fits, NoTurn, NoSlot, Slot
      <4>4. CASE turn'.id \in FreeSlot
        BY <4>1, <4>4 DEF Fits, FreeSlot
      <4>5. CASE turn'.id = turn.id /\ turn.phase \in {"task", "closing"}
        BY <4>1, <4>5 DEF Fits
      <4>6. CASE turn'.id = turn.id /\ Owns(p, turn.id)
        BY <3>2, <4>1, <4>6 DEF Fits
      <4> QED BY <4>2, <4>3, <4>4, <4>5, <4>6 DEF TurnMove
    <3> QED BY <3>1, <3>2
  <2> QED BY <2>2, <2>3, <2>4
<1> QED BY <1>2, <1>3, <1>4, <1>5, <1>6

\* What a process holds is part of the limiter's count.
LEMMA GuardsCover ==
    ASSUME IInv, NEW p \in Proc
    PROVE  /\ active \in Nat /\ active <= MaxThreads
           /\ active >= SlotHeld(turn) + other + Held(at[p].res) + Held(at[p].outer)
<1>1. active \in Nat /\ other \in Nat /\ at \in [Proc -> Rec] /\ GuardsExact
  BY DEF IInv, StateOK, RestOK
<1>2. /\ ResSet \in SUBSET Proc /\ OuterSet \in SUBSET Proc
      /\ ResSet \ {p} \in SUBSET Proc /\ OuterSet \ {p} \in SUBSET Proc
      /\ (ResSet \ {p}) \ {p} = ResSet \ {p} /\ (OuterSet \ {p}) \ {p} = OuterSet \ {p}
      /\ p \notin ResSet \ {p} /\ p \notin OuterSet \ {p}
  BY DEF ResSet, OuterSet
<1>3. Held(p \in ResSet) = Held(at[p].res) /\ Held(p \in OuterSet) = Held(at[p].outer)
  BY DEF ResSet, OuterSet, Held
<1>4. /\ Cardinality(ResSet) \in Nat /\ Cardinality(ResSet \ {p}) \in Nat
      /\ Cardinality(ResSet) + Held(p \in ResSet \ {p})
           = Cardinality(ResSet \ {p}) + Held(p \in ResSet)
  <2> HIDE DEF ResSet
  <2> QED BY <1>2, CountStep
<1>5. /\ Cardinality(OuterSet) \in Nat /\ Cardinality(OuterSet \ {p}) \in Nat
      /\ Cardinality(OuterSet) + Held(p \in OuterSet \ {p})
           = Cardinality(OuterSet \ {p}) + Held(p \in OuterSet)
  <2> HIDE DEF OuterSet
  <2> QED BY <1>2, CountStep
<1>6. Held(p \in ResSet \ {p}) = 0 /\ Held(p \in OuterSet \ {p}) = 0
  BY <1>2 DEF Held
<1>7. Held(at[p].res) \in Nat /\ Held(at[p].outer) \in Nat /\ SlotHeld(turn) \in Nat
  BY DEF Held, SlotHeld
<1>8. Cardinality(ResSet) >= Held(at[p].res) /\ Cardinality(OuterSet) >= Held(at[p].outer)
  BY <1>3, <1>4, <1>5, <1>6, <1>7
<1>9. active <= MaxThreads /\ active = SlotHeld(turn) + other + Cardinality(ResSet) + Cardinality(OuterSet)
  BY <1>1, GuardsForm
<1> QED BY <1>1, <1>4, <1>5, <1>7, <1>8, <1>9

\* Every start returns with nothing in its hands.
LEMMA BackIsEmpty ==
    \A p \in Proc : /\ Back(p) \in Rec /\ Shape(p, Back(p))
                    /\ Back(p).pc \notin OwnPC
                    /\ ~Back(p).res /\ ~Back(p).outer
<1> SUFFICES ASSUME NEW p \in Proc
             PROVE  /\ Back(p) \in Rec /\ Shape(p, Back(p))
                    /\ Back(p).pc \notin OwnPC
                    /\ ~Back(p).res /\ ~Back(p).outer
  OBVIOUS
<1>1. Back(p) = Off(IF p[1] = "loop" THEN "idle" ELSE IF p[1] = "task" THEN "off" ELSE "after")
  BY ProcKinds DEF Back
<1> QED BY <1>1, ProcKinds DEF Off, Rec, Shape, LoopShape, TaskShape, WatchShape, LoopPC, TaskPC,
             WatchPC, WakePC, OwnPC, LoopResPC, LoopIdPC

\* A claim has an owner with a slot, and a dropped one is not "Starting".
LEMMA DropClaimFacts ==
    ASSUME claim \in ClaimType, NEW i \in Slot
    PROVE  /\ DropClaim(i) \in ClaimType
           /\ DropClaim(i)[i] # "Starting"
           /\ \A j \in Slot : DropClaim(i)[j] = "Starting" => claim[j] = "Starting"
  BY DEF DropClaim, ClaimType

\* Where a process is the owner of a claim it names a slot.
LEMMA OwnerHasSlot ==
    ASSUME IInv, NEW p \in Proc, at[p].pc \in OwnPC
    PROVE  at[p].id \in Slot
<1>1. at[p] \in Rec /\ Shape(p, at[p])
  BY DEF IInv, StateOK, ShapeInv
<1>2. at[p].id # NoSlot
  BY <1>1, ProcKinds DEF Shape, LoopShape, TaskShape, WatchShape, OwnPC, LoopIdPC, TaskPC, WatchPC, WakePC
<1> QED BY <1>1, <1>2 DEF Rec

\* A start that gives up drops its guards and its claim.
LEMMA GiveUpInv ==
    ASSUME IInv, NEW p \in Proc, at[p].pc # "off", GiveUp(p),
           UNCHANGED <<turn, other, taken, mail, ops, inputs>>
    PROVE  IInv'
<1> DEFINE r == Back(p)
<1>1. /\ r \in Rec /\ Shape(p, r) /\ r.pc \notin OwnPC /\ Held(r.res) = 0 /\ Held(r.outer) = 0
  BY BackIsEmpty DEF Held
<1>2. at' = [at EXCEPT ![p] = r]
  BY DEF GiveUp, Goto
<1>3. /\ Held(at[p].res) \in Nat /\ Held(at[p].outer) \in Nat /\ SlotHeld(turn) \in Nat
      /\ other \in Nat /\ active \in Nat /\ active <= MaxThreads /\ MaxThreads \in Nat
      /\ active >= SlotHeld(turn) + other + Held(at[p].res) + Held(at[p].outer)
  BY GuardsCover, AdmissionAssumption DEF Held, SlotHeld, IInv, StateOK, RestOK
<1>4. active' = active - (Held(at[p].res) + Held(at[p].outer)) /\ fresh' \in SUBSET Dispatch
  BY DEF GiveUp, Release, IInv, StateOK, RestOK
<1>5. TurnOK' /\ RestOK'
  BY <1>4 DEF IInv, StateOK, TurnOK, RestOK
<1>6. claim' \in ClaimType /\ Answered(p, r, claim, claim')
  <2>1. claim \in ClaimType
    BY DEF IInv, StateOK
  <2>2. CASE at[p].id \in Slot
    <3>1. claim' = DropClaim(at[p].id)
      BY <2>2 DEF GiveUp
    <3> HIDE DEF r
    <3> QED BY <2>1, <2>2, <3>1, DropClaimFacts DEF Answered, Owns
  <2>3. CASE at[p].id \notin Slot
    <3>1. claim' = claim
      BY <2>3 DEF GiveUp
    <3> HIDE DEF r
    <3> QED BY <2>1, <2>3, <3>1 DEF Answered, Owns
  <2> QED BY <2>2, <2>3
<1>7. active' \in Nat /\ active' <= MaxThreads
      /\ active' + SlotHeld(turn) + other + Held(at[p].res) + Held(at[p].outer)
           = active + SlotHeld(turn') + other' + Held(r.res) + Held(r.outer)
  <2> HIDE DEF r
  <2>1. SlotHeld(turn') = SlotHeld(turn) /\ other' = other
    OBVIOUS
  <2> QED BY <1>1, <1>3, <1>4, <2>1
<1>8. TurnMove(p, r, turn')
  <2> HIDE DEF r
  <2> QED BY <1>1 DEF TurnMove
<1> HIDE DEF r
<1> QED BY <1>1, <1>2, <1>5, <1>6, <1>7, <1>8, MoveInv

\* A process that claims the empty slot becomes the owner of a new turn.
LEMMA ClaimInv ==
    ASSUME IInv, NEW p \in Proc, NEW r \in Rec, NEW phase \in {"wake", "start"},
           at' = [at EXCEPT ![p] = r], Shape(p, r), at[p].pc \notin OwnPC \cup {"off"},
           ClaimSlot(NewSlot, phase), r.id = NewSlot, r.pc \in OwnPC \ {"failed"},
           phase = "wake" <=> r.pc = "commit",
           fresh' \in SUBSET Dispatch, active' \in Nat, active' <= MaxThreads,
           active' + SlotHeld(turn) + other + Held(at[p].res) + Held(at[p].outer)
             = active + SlotHeld([id |-> NewSlot, phase |-> phase]) + other + Held(r.res) + Held(r.outer),
           UNCHANGED <<other, taken, mail, ops, inputs>>
    PROVE  IInv'
<1>1. NewSlot \in FreeSlot /\ NewSlot \in Slot
  BY NewSlotIsFree DEF ClaimSlot, FreeSlot
<1> HIDE DEF FreeSlot
<1>2. turn' = [id |-> NewSlot, phase |-> phase]
  BY DEF ClaimSlot
<1>3. claim' = [claim EXCEPT ![NewSlot] = "Starting"]
  BY DEF ClaimSlot
<1>4. TurnOK' /\ RestOK'
  BY <1>1, <1>2, AdmissionAssumption DEF IInv, StateOK, TurnOK, RestOK, Phase, Slot, NoSlot
<1>5. claim' \in ClaimType /\ Answered(p, r, claim, claim')
  BY <1>1, <1>3 DEF IInv, StateOK, ClaimType, Answered, Owns
<1>6. TurnMove(p, r, turn')
  BY <1>1, <1>2 DEF TurnMove, Fits
<1>7. r.id \in FreeSlot
  BY <1>1
<1>8. active' + SlotHeld(turn) + other + Held(at[p].res) + Held(at[p].outer)
         = active + SlotHeld(turn') + other' + Held(r.res) + Held(r.outer)
  BY <1>2
<1> QED BY <1>4, <1>5, <1>6, <1>7, <1>8, MoveInv

\* A step that moves a process with what it holds keeps the invariant.
LEMMA PlainMove ==
    ASSUME IInv, NEW p \in Proc, NEW r \in Rec, at' = [at EXCEPT ![p] = r], Shape(p, r),
           at[p].pc # "off", r.res = at[p].res, r.outer = at[p].outer,
           at[p].pc \in OwnPC => r.pc \in OwnPC /\ r.id = at[p].id,
           r.pc \in OwnPC => at[p].pc \in OwnPC /\ r.id = at[p].id /\ Fits(turn, r),
           UNCHANGED <<turn, claim, active, other>>, RestOK'
    PROVE  IInv'
<1>1. TurnOK' /\ claim' \in ClaimType /\ active' \in Nat /\ active' <= MaxThreads
  BY GuardsForm DEF IInv, StateOK, TurnOK
<1>2. active' + SlotHeld(turn) + other + Held(at[p].res) + Held(at[p].outer)
        = active + SlotHeld(turn') + other' + Held(r.res) + Held(r.outer)
  OBVIOUS
<1>3. Answered(p, r, claim, claim')
  BY DEF Answered, Owns
<1>4. TurnMove(p, r, turn')
  BY DEF TurnMove
<1>5. r.pc \in OwnPC => Owns(p, r.id) \/ r.id \in FreeSlot
  BY DEF Owns
<1> QED BY <1>1, <1>2, <1>3, <1>4, <1>5, MoveInv

\* The record of every process, and what it says at each kind of step.
LEMMA ProcRec ==
    ASSUME IInv
    PROVE  /\ at \in [Proc -> Rec] /\ RestOK /\ TurnOK /\ claim \in ClaimType /\ active \in Nat
           /\ \A p \in Proc : at[p] \in Rec /\ Shape(p, at[p])
  BY DEF IInv, StateOK, ShapeInv

USE DEF NoSlot

-----------------------------------------------------------------------------
(* maybe_start_turn_for_pending_work and the starts keep the invariant.    *)

\* A wake that looks at the mailbox.
LEMMA WakeCheckInv ==
    ASSUME IInv, NEW p \in Proc, WakeCheck(p)
    PROVE  IInv'
<1>1. CASE GiveUp(p)
  BY <1>1, GiveUpInv DEF WakeCheck
<1>2. CASE at' = [at EXCEPT ![p] = [at[p] EXCEPT !.pc = "claim"]] /\ NoGuard /\ UNCHANGED claim
  <2> DEFINE r == [at[p] EXCEPT !.pc = "claim"]
  <2>1. at[p] \in Rec /\ Shape(p, at[p]) /\ at[p].pc = "check" /\ RestOK
    BY ProcRec DEF WakeCheck
  <2>2. r \in Rec /\ r.pc = "claim" /\ r.id = at[p].id /\ r.res = at[p].res /\ r.outer = at[p].outer
    BY <2>1 DEF Rec, WakePC, LoopPC
  <2>3. at' = [at EXCEPT ![p] = r]
    BY <1>2
  <2> HIDE DEF r
  <2>4. Shape(p, r)
    BY <2>1, <2>2, ProcKinds DEF Shape, LoopShape, TaskShape, WatchShape, WakePC, LoopPC, TaskPC, WatchPC,
        OwnPC, LoopResPC, LoopIdPC
  <2>5. RestOK' /\ UNCHANGED <<turn, claim, active, other>>
    BY <1>2, <2>1 DEF WakeCheck, NoGuard, RestOK
  <2> QED BY <2>1, <2>2, <2>3, <2>4, <2>5, PlainMove DEF OwnPC
<1> QED BY <1>1, <1>2 DEF WakeCheck, Goto

\* A wake that claims the slot, with a guard of its own in it.
LEMMA WakeClaimInv ==
    ASSUME IInv, NEW p \in Proc, WakeClaim(p)
    PROVE  IInv'
<1>1. CASE GiveUp(p) /\ UNCHANGED turn
  BY <1>1, GiveUpInv DEF WakeClaim
<1>2. CASE /\ ~Busy /\ Reserve
           /\ ClaimSlot(NewSlot, "wake")
           /\ at' = [at EXCEPT ![p] = [at[p] EXCEPT !.pc = "commit", !.id = NewSlot]]
  <2> DEFINE r == [at[p] EXCEPT !.pc = "commit", !.id = NewSlot]
  <2>1. at[p] \in Rec /\ Shape(p, at[p]) /\ at[p].pc = "claim" /\ RestOK
    BY ProcRec DEF WakeClaim
  <2>2. NewSlot \in Slot
    BY <1>2, NewSlotIsFree DEF ClaimSlot, FreeSlot
  <2>3. r \in Rec /\ r.pc = "commit" /\ r.id = NewSlot /\ r.res = at[p].res /\ r.outer = at[p].outer
    BY <2>1, <2>2 DEF Rec, WakePC, LoopPC
  <2>4. at' = [at EXCEPT ![p] = r]
    BY <1>2
  <2> HIDE DEF r
  <2>5. Shape(p, r)
    BY <2>1, <2>2, <2>3, ProcKinds, AdmissionAssumption DEF Shape, LoopShape, TaskShape, WatchShape,
        WakePC, LoopPC, TaskPC, WatchPC, OwnPC, LoopResPC, LoopIdPC, Slot
  <2>6. /\ fresh' \in SUBSET Dispatch /\ active' = active + 1 /\ active < MaxThreads
        /\ UNCHANGED <<other, taken, mail, ops, inputs>> /\ active \in Nat /\ MaxThreads \in Nat
        /\ other \in Nat
    BY <1>2, <2>1, ProcRec, AdmissionAssumption DEF WakeClaim, Reserve, HasCapacity, RestOK
  <2>7. SlotHeld(turn) = 0 /\ SlotHeld([id |-> NewSlot, phase |-> "wake"]) = 1
    BY <1>2 DEF SlotHeld, Held, Busy
  <2>8. Held(r.res) \in Nat /\ Held(r.outer) \in Nat
        /\ Held(at[p].res) = Held(r.res) /\ Held(at[p].outer) = Held(r.outer)
    BY <2>3 DEF Held
  <2>9. /\ active' \in Nat /\ active' <= MaxThreads
        /\ active' + SlotHeld(turn) + other + Held(at[p].res) + Held(at[p].outer)
             = active + SlotHeld([id |-> NewSlot, phase |-> "wake"]) + other + Held(r.res) + Held(r.outer)
    BY <2>6, <2>7, <2>8
  <2>10. ClaimSlot(NewSlot, "wake") /\ at[p].pc \notin OwnPC \cup {"off"} /\ r.pc \in OwnPC \ {"failed"}
    BY <1>2, <2>1, <2>3 DEF OwnPC
  <2> QED BY <2>3, <2>4, <2>5, <2>6, <2>9, <2>10, ClaimInv
<1> QED BY <1>1, <1>2 DEF WakeClaim, Goto

\* A wake whose turn is still in the slot takes the guard out of it.
LEMMA WakeCommitInv ==
    ASSUME IInv, NEW p \in Proc, WakeCommit(p)
    PROVE  IInv'
<1>1. CASE GiveUp(p) /\ UNCHANGED turn
  BY <1>1, GiveUpInv DEF WakeCommit
<1>2. CASE /\ turn = [id |-> at[p].id, phase |-> "wake"]
           /\ turn' = [turn EXCEPT !.phase = "start"]
           /\ at' = [at EXCEPT ![p] = [at[p] EXCEPT !.pc = "install", !.res = TRUE]]
           /\ NoGuard /\ UNCHANGED claim
  <2> DEFINE r == [at[p] EXCEPT !.pc = "install", !.res = TRUE]
  <2>1. at[p] \in Rec /\ Shape(p, at[p]) /\ at[p].pc = "commit" /\ RestOK /\ TurnOK /\ claim \in ClaimType
    BY ProcRec DEF WakeCommit
  <2>2. r \in Rec /\ r.pc = "install" /\ r.id = at[p].id /\ r.res = TRUE /\ r.outer = at[p].outer
    BY <2>1 DEF Rec, WakePC, LoopPC
  <2>3. at' = [at EXCEPT ![p] = r]
    BY <1>2
  <2> HIDE DEF r
  <2>4. Shape(p, r)
    BY <2>1, <2>2, ProcKinds DEF Shape, LoopShape, TaskShape, WatchShape, WakePC, LoopPC, TaskPC, WatchPC,
        OwnPC, LoopResPC, LoopIdPC
  <2>5. turn' = [id |-> at[p].id, phase |-> "start"] /\ turn.id = at[p].id /\ turn.phase = "wake"
    BY <1>2
  <2>6. TurnOK' /\ RestOK' /\ claim' = claim /\ active' = active /\ other' = other
    BY <1>2, <2>1, <2>5 DEF WakeCommit, NoGuard, RestOK, TurnOK, Phase
  <2>7. SlotHeld(turn) = 1 /\ SlotHeld(turn') = 0 /\ Held(at[p].res) = 0 /\ Held(r.res) = 1
    BY <2>1, <2>2, <2>5, ProcKinds DEF SlotHeld, Held, Shape, LoopShape, TaskShape, WatchShape, LoopResPC
  <2>8. Held(r.outer) = Held(at[p].outer) /\ Held(r.outer) \in Nat
    BY <2>2 DEF Held
  <2>9. active \in Nat /\ active <= MaxThreads /\ other \in Nat
    BY ProcRec, GuardsForm DEF IInv, RestOK
  <2>10. active' + SlotHeld(turn) + other + Held(at[p].res) + Held(at[p].outer)
           = active + SlotHeld(turn') + other' + Held(r.res) + Held(r.outer)
    BY <2>6, <2>7, <2>8, <2>9
  <2>11. Owns(p, r.id) /\ Owns(p, turn.id)
    BY <2>1, <2>2, <2>5 DEF Owns, OwnPC
  <2>12. TurnMove(p, r, turn')
    BY <2>2, <2>5, <2>11 DEF TurnMove, Fits
  <2>13. Answered(p, r, claim, claim')
    BY <2>2, <2>6, <2>11 DEF Answered, Owns, OwnPC
  <2> QED BY <2>1, <2>2, <2>3, <2>4, <2>6, <2>9, <2>10, <2>11, <2>12, <2>13, MoveInv
<1> QED BY <1>1, <1>2 DEF WakeCommit, Goto

-----------------------------------------------------------------------------
(* The steps that also start or end a task.                                *)

\* Two processes change the numbers of held guards by their own.
LEMMA CountMoveTwo ==
    ASSUME at \in [Proc -> Rec], NEW p \in Proc, NEW k \in Proc, p # k,
           NEW r \in Rec, NEW s \in Rec, at' = [at EXCEPT ![p] = r, ![k] = s]
    PROVE  /\ Cardinality(ResSet) \in Nat /\ Cardinality(ResSet') \in Nat
           /\ Cardinality(OuterSet) \in Nat /\ Cardinality(OuterSet') \in Nat
           /\ Cardinality(ResSet') + Held(at[p].res) + Held(at[k].res)
                = Cardinality(ResSet) + Held(r.res) + Held(s.res)
           /\ Cardinality(OuterSet') + Held(at[p].outer) + Held(at[k].outer)
                = Cardinality(OuterSet) + Held(r.outer) + Held(s.outer)
<1> DEFINE mid == [at EXCEPT ![p] = r]
           RM == {q \in Proc : mid[q].res}
           OM == {q \in Proc : mid[q].outer}
<1>1. /\ mid \in [Proc -> Rec] /\ mid[p] = r /\ mid[k] = at[k]
      /\ \A q \in Proc \ {p} : mid[q] = at[q]
      /\ at'[k] = s /\ \A q \in Proc \ {k} : at'[q] = mid[q]
  OBVIOUS
<1> HIDE DEF mid
<1>2. /\ ResSet \in SUBSET Proc /\ ResSet' \in SUBSET Proc /\ RM \in SUBSET Proc
      /\ ResSet \ {p} = RM \ {p} /\ RM \ {k} = ResSet' \ {k}
      /\ Held(p \in ResSet) = Held(at[p].res) /\ Held(p \in RM) = Held(r.res)
      /\ Held(k \in RM) = Held(at[k].res) /\ Held(k \in ResSet') = Held(s.res)
  BY <1>1 DEF ResSet, Held
<1>3. /\ OuterSet \in SUBSET Proc /\ OuterSet' \in SUBSET Proc /\ OM \in SUBSET Proc
      /\ OuterSet \ {p} = OM \ {p} /\ OM \ {k} = OuterSet' \ {k}
      /\ Held(p \in OuterSet) = Held(at[p].outer) /\ Held(p \in OM) = Held(r.outer)
      /\ Held(k \in OM) = Held(at[k].outer) /\ Held(k \in OuterSet') = Held(s.outer)
  BY <1>1 DEF OuterSet, Held
<1> HIDE DEF RM, OM, ResSet, OuterSet
<1>4. /\ Cardinality(ResSet) \in Nat /\ Cardinality(RM) \in Nat
      /\ Cardinality(RM) + Held(at[p].res) = Cardinality(ResSet) + Held(r.res)
  BY <1>2, CountStep
<1>5. /\ Cardinality(ResSet') \in Nat
      /\ Cardinality(ResSet') + Held(at[k].res) = Cardinality(RM) + Held(s.res)
  BY <1>2, CountStep
<1>6. /\ Cardinality(OuterSet) \in Nat /\ Cardinality(OM) \in Nat
      /\ Cardinality(OM) + Held(at[p].outer) = Cardinality(OuterSet) + Held(r.outer)
  BY <1>3, CountStep
<1>7. /\ Cardinality(OuterSet') \in Nat
      /\ Cardinality(OuterSet') + Held(at[k].outer) = Cardinality(OM) + Held(s.outer)
  BY <1>3, CountStep
<1>8. /\ Held(at[p].res) \in Nat /\ Held(at[k].res) \in Nat /\ Held(r.res) \in Nat /\ Held(s.res) \in Nat
      /\ Held(at[p].outer) \in Nat /\ Held(at[k].outer) \in Nat
      /\ Held(r.outer) \in Nat /\ Held(s.outer) \in Nat
  BY DEF Held
<1>9. Cardinality(ResSet') + Held(at[p].res) + Held(at[k].res)
        = Cardinality(ResSet) + Held(r.res) + Held(s.res)
  BY <1>4, <1>5, <1>8
<1>10. Cardinality(OuterSet') + Held(at[p].outer) + Held(at[k].outer)
         = Cardinality(OuterSet) + Held(r.outer) + Held(s.outer)
  BY <1>6, <1>7, <1>8
<1> QED BY <1>4, <1>5, <1>6, <1>7, <1>9, <1>10

\* The count of guards stays exact when two processes account for theirs.
LEMMA GuardsMoveTwo ==
    ASSUME at \in [Proc -> Rec], NEW p \in Proc, NEW k \in Proc, p # k,
           NEW r \in Rec, NEW s \in Rec, at' = [at EXCEPT ![p] = r, ![k] = s],
           active \in Nat, active' \in Nat, other \in Nat, other' = other,
           active' <= MaxThreads, GuardsExact,
           active' + SlotHeld(turn) + Held(at[p].res) + Held(at[p].outer)
                   + Held(at[k].res) + Held(at[k].outer)
             = active + SlotHeld(turn') + Held(r.res) + Held(r.outer) + Held(s.res) + Held(s.outer)
    PROVE  GuardsExact'
<1>1. /\ Cardinality(ResSet) \in Nat /\ Cardinality(ResSet') \in Nat
      /\ Cardinality(OuterSet) \in Nat /\ Cardinality(OuterSet') \in Nat
      /\ Cardinality(ResSet') + Held(at[p].res) + Held(at[k].res)
           = Cardinality(ResSet) + Held(r.res) + Held(s.res)
      /\ Cardinality(OuterSet') + Held(at[p].outer) + Held(at[k].outer)
           = Cardinality(OuterSet) + Held(r.outer) + Held(s.outer)
  BY CountMoveTwo
<1>2. active = SlotHeld(turn) + other + Cardinality(ResSet) + Cardinality(OuterSet)
  BY GuardsForm
<1>3. /\ SlotHeld(turn) \in Nat /\ SlotHeld(turn') \in Nat
      /\ Held(at[p].res) \in Nat /\ Held(at[p].outer) \in Nat
      /\ Held(at[k].res) \in Nat /\ Held(at[k].outer) \in Nat
      /\ Held(r.res) \in Nat /\ Held(r.outer) \in Nat
      /\ Held(s.res) \in Nat /\ Held(s.outer) \in Nat
  BY DEF SlotHeld, Held
<1>4. active' = SlotHeld(turn') + other' + Cardinality(ResSet') + Cardinality(OuterSet')
  BY <1>1, <1>2, <1>3, SMTT(60)
<1> QED BY <1>4, GuardsFormNext

\* A process moves and the task of a turn starts or ends with it.
LEMMA MoveTwoInv ==
    ASSUME IInv, NEW p \in Proc, NEW k \in Proc, p # k, NEW r \in Rec, NEW s \in Rec,
           at' = [at EXCEPT ![p] = r, ![k] = s],
           Shape(p, r), Shape(k, s), at[p].pc # "off", r.pc \notin OwnPC, s.pc \notin OwnPC,
           \/ s.pc = "off"
           \/ k = Task(at[p].id) /\ at[p].pc \in OwnPC,
           TurnOK', RestOK', claim' \in ClaimType, active' \in Nat, active' <= MaxThreads,
           other' = other,
           active' + SlotHeld(turn) + Held(at[p].res) + Held(at[p].outer)
                   + Held(at[k].res) + Held(at[k].outer)
             = active + SlotHeld(turn') + Held(r.res) + Held(r.outer) + Held(s.res) + Held(s.outer),
           turn' = turn \/ (turn'.id = turn.id /\ Owns(p, turn.id)),
           \A i \in Slot : claim'[i] = "Starting" =>
               claim[i] = "Starting" /\ ~Owns(p, i) /\ ~Owns(k, i)
    PROVE  IInv'
<1>1. at' \in [Proc -> Rec] /\ \A q \in Proc \ {p, k} : at'[q] = at[q]
  BY DEF IInv, StateOK
<1>2. at'[p] = r /\ at'[k] = s
  BY DEF IInv, StateOK
<1>3. StateOK'
  BY <1>1 DEF IInv, StateOK
<1>4. ShapeInv'
  <2> HIDE DEF Shape
  <2> QED BY <1>1, <1>2 DEF IInv, ShapeInv
<1>5. GuardsExact'
  BY GuardsMoveTwo DEF IInv, StateOK, RestOK
<1>6. StartingInv'
  <2> SUFFICES ASSUME NEW i \in Slot, claim'[i] = "Starting"
               PROVE  \E q \in Proc : Owns(q, i)'
    BY DEF StartingInv
  <2>1. PICK q \in Proc : Owns(q, i)
    BY DEF IInv, StartingInv
  <2>2. q # p /\ q # k
    BY <2>1
  <2>3. Owns(q, i)'
    BY <1>1, <2>1, <2>2 DEF Owns
  <2> QED BY <2>3
<1>7. OwnerInv'
  <2> SUFFICES ASSUME NEW q \in Proc, at'[q].pc \in OwnPC
               PROVE  /\ \A t \in Proc : Owns(t, at[q].id)' => t = q
                      /\ at'[Task(at'[q].id)].pc = "off"
                      /\ Fits(turn', at'[q])
    BY DEF OwnerInv
  <2>1. q # p /\ q # k /\ at'[q] = at[q] /\ at[q].pc \in OwnPC
    BY <1>1, <1>2
  <2>2. at[q].id \in Slot
    BY <2>1, OwnerHasSlot
  <2>3. /\ \A t \in Proc : Owns(t, at[q].id) => t = q
        /\ at[Task(at[q].id)].pc = "off" /\ Fits(turn, at[q])
    BY <2>1 DEF IInv, OwnerInv
  <2>4. ASSUME NEW t \in Proc, Owns(t, at[q].id)' PROVE t = q
    BY <1>1, <1>2, <2>1, <2>3, <2>4 DEF Owns
  <2>5. at'[Task(at'[q].id)].pc = "off"
    <3> DEFINE j == Task(at[q].id)
    <3>1. j \in Proc /\ j # p
      BY <2>2, <2>3, ProcKinds
    <3>2. CASE j # k
      BY <1>1, <2>1, <2>3, <3>1, <3>2
    <3>3. CASE j = k
      <4>1. CASE s.pc = "off"
        BY <1>2, <2>1, <3>3, <4>1
      <4>2. CASE k = Task(at[p].id) /\ at[p].pc \in OwnPC
        <5>1. at[p].id \in Slot
          BY <4>2, OwnerHasSlot
        <5>2. at[p].id = at[q].id
          BY <2>2, <3>3, <4>2, <5>1, ProcKinds
        <5>3. Owns(p, at[q].id)
          BY <4>2, <5>2 DEF Owns
        <5> QED BY <2>1, <2>3, <5>3
      <4> QED BY <4>1, <4>2
    <3> QED BY <3>2, <3>3
  <2>6. Fits(turn', at'[q])
    BY <2>1, <2>3 DEF Fits
  <2> QED BY <2>4, <2>5, <2>6
<1> QED BY <1>3, <1>4, <1>5, <1>6, <1>7 DEF IInv

\* A start that finds its claim in the slot installs its task; any other gives
\* up.
LEMMA InstallInv ==
    ASSUME IInv, NEW p \in Proc, Install(p)
    PROVE  IInv'
<1>1. CASE GiveUp(p) /\ UNCHANGED <<turn, mail>>
  BY <1>1, GiveUpInv DEF Install
<1>2. CASE /\ SameClaim(p)
           /\ turn' = [id |-> at[p].id, phase |-> "task"]
           /\ claim' = [claim EXCEPT ![at[p].id] = "Running"]
           /\ mail' = {}
           /\ at' = [at EXCEPT ![p] = Back(p), ![Task(at[p].id)] = Off("run")]
           /\ Release(Held(at[p].outer))
  <2> DEFINE r == Back(p)
             k == Task(at[p].id)
             s == Off("run")
  <2>1. at[p] \in Rec /\ Shape(p, at[p]) /\ at[p].pc = "install" /\ RestOK /\ TurnOK /\ claim \in ClaimType
        /\ active \in Nat
    BY ProcRec DEF Install
  <2>2. at[p].pc \in OwnPC /\ at[p].id \in Slot
    BY <2>1, OwnerHasSlot DEF OwnPC
  <2>3. k \in Proc /\ k[1] = "task" /\ at[k].pc = "off" /\ k # p
    BY <2>1, <2>2, ProcKinds DEF IInv, OwnerInv
  <2>4. at[k] \in Rec /\ Shape(k, at[k])
    BY <2>3, ProcRec
  <2> HIDE DEF k
  <2>5. ~at[k].res /\ ~at[k].outer
    BY <2>3, <2>4 DEF Shape, TaskShape
  <2>6. s \in Rec /\ Shape(k, s) /\ s.pc \notin OwnPC /\ ~s.res /\ ~s.outer
    BY <2>3 DEF Off, Rec, Shape, TaskShape, TaskPC, OwnPC
  <2> HIDE DEF s
  <2>7. r \in Rec /\ Shape(p, r) /\ r.pc \notin OwnPC /\ ~r.res /\ ~r.outer
    BY BackIsEmpty
  <2> HIDE DEF r
  <2>8. at[p].res
    BY <2>1, ProcKinds DEF Shape, LoopShape, TaskShape, WatchShape, LoopResPC
  <2>9. turn.id = at[p].id /\ turn.phase = "start" /\ turn'.id = at[p].id /\ turn'.phase = "task"
    BY <1>2 DEF SameClaim
  <2>10. TurnOK' /\ RestOK' /\ claim' \in ClaimType /\ other' = other
    <3>1. TurnOK'
      BY <1>2, <2>2, AdmissionAssumption DEF TurnOK, Phase, Slot
    <3>2. fresh' \in SUBSET Dispatch
      BY <1>2, <2>1 DEF Release, RestOK
    <3>3. RestOK' /\ other' = other
      BY <1>2, <2>1, <3>2 DEF Install, RestOK
    <3> QED BY <1>2, <2>1, <2>2, <3>1, <3>3 DEF ClaimType
  <2>11. /\ active' = active - Held(at[p].outer) /\ MaxThreads \in Nat
         /\ active <= MaxThreads /\ Held(at[p].outer) \in Nat /\ other \in Nat
         /\ active >= SlotHeld(turn) + other + Held(at[p].res) + Held(at[p].outer)
    BY <1>2, <2>1, GuardsCover, AdmissionAssumption DEF Release, Held, RestOK
  <2>12. /\ SlotHeld(turn) = 0 /\ SlotHeld(turn') = 1 /\ Held(at[p].res) = 1
         /\ Held(at[k].res) = 0 /\ Held(at[k].outer) = 0 /\ Held(s.res) = 0 /\ Held(s.outer) = 0
         /\ Held(r.res) = 0 /\ Held(r.outer) = 0
    BY <2>5, <2>6, <2>7, <2>8, <2>9 DEF SlotHeld, Held
  <2>13. /\ active' \in Nat /\ active' <= MaxThreads
         /\ active' + SlotHeld(turn) + Held(at[p].res) + Held(at[p].outer)
                   + Held(at[k].res) + Held(at[k].outer)
             = active + SlotHeld(turn') + Held(r.res) + Held(r.outer) + Held(s.res) + Held(s.outer)
    BY <2>1, <2>11, <2>12
  <2>14. turn'.id = turn.id /\ Owns(p, turn.id)
    BY <2>2, <2>9 DEF Owns
  <2>15. \A i \in Slot : claim'[i] = "Starting" =>
            claim[i] = "Starting" /\ ~Owns(p, i) /\ ~Owns(k, i)
    BY <1>2, <2>1, <2>2, <2>3 DEF ClaimType, Owns, OwnPC
  <2>16. at' = [at EXCEPT ![p] = r, ![k] = s] /\ k = Task(at[p].id)
    BY <1>2 DEF r, k, s
  <2> QED BY <2>1, <2>2, <2>3, <2>6, <2>7, <2>10, <2>13, <2>14, <2>15, <2>16, MoveTwoInv
<1> QED BY <1>1, <1>2 DEF Install

-----------------------------------------------------------------------------
(* The submission loop keeps the invariant.                                *)

\* The shapes of records, by kind.
LEMMA ShapeByKind ==
    /\ \A r : Shape(Loop, r) <=> LoopShape(r)
    /\ \A i \in Slot : \A r : Shape(Task(i), r) <=> TaskShape(r)
    /\ \A d \in Dispatch : \A r : Shape(Watcher(d), r) <=> WatchShape(r)
  BY ProcKinds DEF Shape

\* A record without a turn and without guards.
LEMMA OffRec ==
    \A pc \in LoopPC \cup TaskPC \cup WatchPC :
        /\ Off(pc) \in Rec
        /\ Off(pc).pc = pc /\ Off(pc).id = NoSlot /\ ~Off(pc).res /\ ~Off(pc).outer
        /\ Off(pc).res = FALSE /\ Off(pc).outer = FALSE
  BY DEF Off, Rec

\* What the loop's record says.
LEMMA LoopRec ==
    ASSUME IInv
    PROVE  /\ Loop \in Proc /\ at[Loop] \in Rec /\ LoopShape(at[Loop])
           /\ RestOK /\ TurnOK /\ claim \in ClaimType
           /\ active \in Nat /\ other \in Nat /\ MaxThreads \in Nat /\ active <= MaxThreads
           /\ active >= SlotHeld(turn) + other + Held(at[Loop].res) + Held(at[Loop].outer)
<1>1. Loop \in Proc
  BY ProcKinds
<1> QED BY <1>1, ProcRec, ShapeByKind, GuardsCover, AdmissionAssumption DEF RestOK

\* The loop takes an input.
LEMMA ReceiveInv ==
    ASSUME IInv, NEW kind \in InputKind, Receive(kind)
    PROVE  IInv'
<1> DEFINE r == Off(kind)
<1>1. /\ Loop \in Proc /\ at[Loop] \in Rec /\ LoopShape(at[Loop]) /\ RestOK
      /\ at[Loop].pc = "idle"
  BY LoopRec DEF Receive
<1>2. r \in Rec /\ r.pc = kind /\ r.id = NoSlot /\ r.res = FALSE /\ r.outer = FALSE
  BY OffRec DEF LoopPC
<1>3. at' = [at EXCEPT ![Loop] = r]
  BY DEF Receive, Goto
<1> HIDE DEF r
<1>4. Shape(Loop, r)
  BY <1>2, ShapeByKind DEF LoopShape, InputKind, LoopPC, LoopResPC, LoopIdPC, OwnPC, WakePC
<1>5. at[Loop].res = FALSE /\ at[Loop].outer = FALSE
  BY <1>1 DEF LoopShape, Rec, LoopResPC, WakePC
<1>6. RestOK' /\ UNCHANGED <<turn, claim, active, other>>
  BY <1>1, AdmissionAssumption DEF Receive, RestOK
<1>7. r.pc \notin OwnPC /\ at[Loop].pc \notin OwnPC \cup {"off"}
  BY <1>1, <1>2 DEF OwnPC, InputKind
<1> QED BY <1>1, <1>2, <1>3, <1>4, <1>5, <1>6, <1>7, PlainMove

\* The loop enqueues trigger mail.
LEMMA HandleOpInv ==
    ASSUME IInv, NEW d \in Dispatch, HandleOp(d)
    PROVE  IInv'
<1> DEFINE r == Off("check")
<1>1. /\ Loop \in Proc /\ at[Loop] \in Rec /\ LoopShape(at[Loop]) /\ RestOK
      /\ at[Loop].pc = "idle"
  BY LoopRec DEF HandleOp
<1>2. r \in Rec /\ r.pc = "check" /\ r.id = NoSlot /\ r.res = FALSE /\ r.outer = FALSE
  BY OffRec DEF LoopPC, WakePC
<1>3. at' = [at EXCEPT ![Loop] = r]
  BY DEF HandleOp, Goto
<1> HIDE DEF r
<1>4. Shape(Loop, r)
  BY <1>2, ShapeByKind DEF LoopShape, LoopPC, LoopResPC, LoopIdPC, OwnPC, WakePC
<1>5. at[Loop].res = FALSE /\ at[Loop].outer = FALSE
  BY <1>1 DEF LoopShape, Rec, LoopResPC, WakePC
<1>6. RestOK' /\ UNCHANGED <<turn, claim, active, other>>
  BY <1>1 DEF HandleOp, RestOK
<1>7. r.pc \notin OwnPC /\ at[Loop].pc \notin OwnPC \cup {"off"}
  BY <1>1, <1>2 DEF OwnPC
<1> QED BY <1>1, <1>2, <1>3, <1>4, <1>5, <1>6, <1>7, PlainMove

\* The loop asks for the slot for a user's input.
LEMMA UserClaimInv ==
    ASSUME IInv, UserClaim
    PROVE  IInv'
<1> DEFINE stale == turn.phase = "closing" \/ (Taskless /\ claim[turn.id] = "Cancelled")
           freed == Held(stale /\ turn.phase = "wake")
           idle == Off("idle")
           begin == [at[Loop] EXCEPT !.pc = "begin", !.id = NewSlot, !.res = TRUE]
           wait == [at[Loop] EXCEPT !.pc = "waitclaim", !.id = turn.id]
<1>1. /\ Loop \in Proc /\ at[Loop] \in Rec /\ LoopShape(at[Loop]) /\ RestOK /\ TurnOK
      /\ claim \in ClaimType /\ active \in Nat /\ other \in Nat /\ MaxThreads \in Nat
      /\ active <= MaxThreads
      /\ active >= SlotHeld(turn) + other + Held(at[Loop].res) + Held(at[Loop].outer)
  BY LoopRec
<1>2. at[Loop].pc = "user" /\ UNCHANGED <<other, taken, mail, ops, inputs>>
  BY DEF UserClaim
<1>3. at[Loop].res = FALSE /\ at[Loop].outer = FALSE /\ at[Loop].pc \notin OwnPC \cup {"off"}
  BY <1>1, <1>2 DEF LoopShape, Rec, LoopResPC, WakePC, OwnPC
<1>4. Held(at[Loop].res) = 0 /\ Held(at[Loop].outer) = 0
  BY <1>3 DEF Held
<1>5. idle \in Rec /\ idle.pc = "idle" /\ idle.id = NoSlot /\ idle.res = FALSE /\ idle.outer = FALSE
  BY OffRec DEF LoopPC
<1>6. Shape(Loop, idle) /\ idle.pc \notin OwnPC
  <2> HIDE DEF idle
  <2> QED BY <1>5, ShapeByKind DEF LoopShape, LoopPC, LoopResPC, LoopIdPC, OwnPC, WakePC
<1>7. freed \in {0, 1} /\ freed <= SlotHeld(turn)
  BY DEF Held, SlotHeld
<1>8. ASSUME ClaimSlot(NewSlot, "start")
      PROVE  /\ begin \in Rec /\ Shape(Loop, begin) /\ begin.pc = "begin" /\ begin.id = NewSlot
             /\ Held(begin.res) = 1 /\ Held(begin.outer) = 0
  <2>1. NewSlot \in Slot
    BY <1>8, NewSlotIsFree DEF ClaimSlot, FreeSlot
  <2>2. /\ begin \in Rec /\ begin.pc = "begin" /\ begin.id = NewSlot /\ begin.res = TRUE
        /\ begin.outer = FALSE
    BY <1>1, <1>3, <2>1 DEF Rec, LoopPC, LoopResPC
  <2> HIDE DEF begin
  <2>3. LoopShape(begin)
    BY <2>1, <2>2, AdmissionAssumption DEF LoopShape, LoopPC, LoopResPC, LoopIdPC, OwnPC, WakePC, Slot
  <2> QED BY <2>2, <2>3, ShapeByKind DEF Held
<1>9. SlotHeld([id |-> NewSlot, phase |-> "start"]) = 0
  BY DEF SlotHeld, Held
<1>10. fresh' \in SUBSET Dispatch
  BY <1>1 DEF UserClaim, NoGuard, Release, RestOK
<1>11. CASE at' = [at EXCEPT ![Loop] = idle] /\ NoGuard /\ UNCHANGED <<turn, claim>>
  <2> HIDE DEF idle
  <2>1. RestOK' /\ UNCHANGED <<turn, claim, active, other>>
    BY <1>1, <1>2, <1>11 DEF NoGuard, RestOK
  <2> QED BY <1>1, <1>3, <1>5, <1>6, <1>11, <2>1, PlainMove
<1>12. CASE /\ turn.phase = "none" \/ stale
            /\ active - freed < MaxThreads
            /\ active' = (active - freed) + 1
            /\ ClaimSlot(NewSlot, "start")
            /\ at' = [at EXCEPT ![Loop] = begin]
  <2>1. freed = SlotHeld(turn)
    BY <1>12 DEF Held, SlotHeld, Taskless
  <2> HIDE DEF freed, begin, stale
  <2>2. /\ active' \in Nat /\ active' <= MaxThreads
        /\ active' + SlotHeld(turn) + other + Held(at[Loop].res) + Held(at[Loop].outer)
             = active + SlotHeld([id |-> NewSlot, phase |-> "start"]) + other
                 + Held(begin.res) + Held(begin.outer)
    BY <1>1, <1>4, <1>7, <1>8, <1>9, <1>12, <2>1
  <2>3. begin.pc \in OwnPC \ {"failed"} /\ begin.pc # "commit"
    BY <1>8, <1>12 DEF OwnPC
  <2> QED BY <1>1, <1>2, <1>3, <1>8, <1>10, <1>12, <2>2, <2>3, ClaimInv
<1>13. CASE /\ turn.phase = "none" \/ stale
            /\ turn' = NoTurn /\ at' = [at EXCEPT ![Loop] = idle]
            /\ Release(freed) /\ UNCHANGED claim
  <2>1. freed = SlotHeld(turn)
    BY <1>13 DEF Held, SlotHeld, Taskless
  <2> HIDE DEF freed, idle, stale
  <2>2. SlotHeld(turn') = 0 /\ Held(idle.res) = 0 /\ Held(idle.outer) = 0
    BY <1>5, <1>13 DEF SlotHeld, Held, NoTurn
  <2>3. active' = active - freed
    BY <1>13 DEF Release
  <2>4. /\ active' \in Nat /\ active' <= MaxThreads
        /\ active' + SlotHeld(turn) + other + Held(at[Loop].res) + Held(at[Loop].outer)
             = active + SlotHeld(turn') + other' + Held(idle.res) + Held(idle.outer)
    BY <1>1, <1>2, <1>4, <1>7, <2>1, <2>2, <2>3
  <2>5. TurnOK' /\ RestOK' /\ claim' \in ClaimType
    BY <1>1, <1>2, <1>10, <1>13 DEF TurnOK, RestOK, NoTurn, Phase
  <2>6. TurnMove(Loop, idle, turn') /\ Answered(Loop, idle, claim, claim')
    BY <1>3, <1>6, <1>13 DEF TurnMove, Answered, Owns
  <2> QED BY <1>1, <1>3, <1>5, <1>6, <1>13, <2>4, <2>5, <2>6, MoveInv
<1>14. CASE /\ turn.phase = "wake" /\ ~stale
            /\ ClaimSlot(NewSlot, "start")
            /\ at' = [at EXCEPT ![Loop] = begin]
            /\ NoGuard
  <2>1. SlotHeld(turn) = 1 /\ active' = active
    BY <1>14 DEF Held, SlotHeld, NoGuard
  <2> HIDE DEF begin, stale
  <2>2. /\ active' \in Nat /\ active' <= MaxThreads
        /\ active' + SlotHeld(turn) + other + Held(at[Loop].res) + Held(at[Loop].outer)
             = active + SlotHeld([id |-> NewSlot, phase |-> "start"]) + other
                 + Held(begin.res) + Held(begin.outer)
    BY <1>1, <1>4, <1>8, <1>9, <1>14, <2>1
  <2>3. begin.pc \in OwnPC \ {"failed"} /\ begin.pc # "commit"
    BY <1>8, <1>14 DEF OwnPC
  <2> QED BY <1>1, <1>2, <1>3, <1>8, <1>10, <1>14, <2>2, <2>3, ClaimInv
<1>15. CASE /\ turn.phase = "start"
            /\ at' = [at EXCEPT ![Loop] = wait]
            /\ NoGuard /\ UNCHANGED <<turn, claim>>
  <2>1. turn.id \in Slot
    BY <1>1, <1>15 DEF TurnOK
  <2>2. /\ wait \in Rec /\ wait.pc = "waitclaim" /\ wait.id = turn.id
        /\ wait.res = FALSE /\ wait.outer = FALSE
    BY <1>1, <1>3, <2>1 DEF Rec, LoopPC, LoopIdPC
  <2> HIDE DEF wait
  <2>3. Shape(Loop, wait)
    BY <2>1, <2>2, ShapeByKind, AdmissionAssumption DEF LoopShape, LoopPC, LoopResPC, LoopIdPC, OwnPC,
        WakePC, Slot
  <2>4. RestOK' /\ UNCHANGED <<turn, claim, active, other>>
    BY <1>1, <1>2, <1>15 DEF NoGuard, RestOK
  <2> QED BY <1>1, <1>3, <1>15, <2>2, <2>3, <2>4, PlainMove DEF OwnPC
<1> QED BY <1>11, <1>12, <1>13, <1>14, <1>15 DEF UserClaim, Goto

\* The claim the loop waited for is answered.
LEMMA UserWaitInv ==
    ASSUME IInv, UserWait
    PROVE  IInv'
<1> DEFINE r == Off("user")
<1>1. /\ Loop \in Proc /\ at[Loop] \in Rec /\ LoopShape(at[Loop]) /\ RestOK
      /\ at[Loop].pc = "waitclaim"
  BY LoopRec DEF UserWait
<1>2. r \in Rec /\ r.pc = "user" /\ r.id = NoSlot /\ r.res = FALSE /\ r.outer = FALSE
  BY OffRec DEF LoopPC, InputKind
<1>3. at' = [at EXCEPT ![Loop] = r]
  BY DEF UserWait, Goto
<1> HIDE DEF r
<1>4. Shape(Loop, r)
  BY <1>2, ShapeByKind DEF LoopShape, InputKind, LoopPC, LoopResPC, LoopIdPC, OwnPC, WakePC
<1>5. at[Loop].res = FALSE /\ at[Loop].outer = FALSE
  BY <1>1 DEF LoopShape, Rec, LoopResPC, WakePC
<1>6. RestOK' /\ UNCHANGED <<turn, claim, active, other>>
  BY <1>1 DEF UserWait, RestOK
<1>7. r.pc \notin OwnPC /\ at[Loop].pc \notin OwnPC \cup {"off"}
  BY <1>1, <1>2 DEF OwnPC
<1> QED BY <1>1, <1>2, <1>3, <1>4, <1>5, <1>6, <1>7, PlainMove

\* The turn the loop failed to start leaves the slot, with no guard in it.
LEMMA ClearedFacts ==
    ASSUME IInv, at[Loop].pc \in {"begin", "autocheck"}, turn' = Cleared(at[Loop].id)
    PROVE  /\ turn' = turn \/ turn' = NoTurn
           /\ turn'.id # at[Loop].id
           /\ SlotHeld(turn') = SlotHeld(turn)
           /\ TurnOK'
<1>1. at[Loop].pc \in OwnPC /\ Loop \in Proc /\ TurnOK
  BY LoopRec DEF OwnPC
<1>2. at[Loop].id \in Slot
  BY <1>1, OwnerHasSlot
<1>3. Fits(turn, at[Loop])
  BY <1>1 DEF IInv, OwnerInv
<1>4. CASE turn.id = at[Loop].id
  <2>1. turn.phase = "start"
    BY <1>3, <1>4 DEF Fits
  <2>2. turn' = NoTurn
    BY <1>4, <2>1 DEF Cleared
  <2> QED BY <1>2, <2>1, <2>2, AdmissionAssumption DEF NoTurn, SlotHeld, Held, TurnOK, Phase, Slot
<1>5. CASE turn.id # at[Loop].id
  BY <1>1, <1>5 DEF Cleared, TurnOK
<1> QED BY <1>4, <1>5

\* The settings of the new turn are applied or refused.
LEMMA BeginInv ==
    ASSUME IInv, Begin
    PROVE  IInv'
<1>1. /\ Loop \in Proc /\ at[Loop] \in Rec /\ LoopShape(at[Loop]) /\ RestOK /\ TurnOK
      /\ claim \in ClaimType /\ active \in Nat /\ active <= MaxThreads /\ other \in Nat
      /\ at[Loop].pc = "begin" /\ UNCHANGED <<other, taken, mail, ops, inputs>>
  BY LoopRec DEF Begin
<1>2. at[Loop].pc \in OwnPC /\ Owns(Loop, at[Loop].id) /\ Fits(turn, at[Loop]) /\ at[Loop].pc # "off"
  BY <1>1 DEF OwnPC, Owns, IInv, OwnerInv
<1>3. CASE /\ at' = [at EXCEPT ![Loop] = [at[Loop] EXCEPT !.pc = "install"]]
           /\ NoGuard /\ UNCHANGED <<turn, claim>>
  <2> DEFINE r == [at[Loop] EXCEPT !.pc = "install"]
  <2>1. /\ r \in Rec /\ r.pc = "install" /\ r.id = at[Loop].id
        /\ r.res = at[Loop].res /\ r.outer = at[Loop].outer
    BY <1>1 DEF Rec, LoopPC, WakePC
  <2>2. at' = [at EXCEPT ![Loop] = r]
    BY <1>3
  <2> HIDE DEF r
  <2>3. Shape(Loop, r)
    BY <1>1, <2>1, ShapeByKind DEF LoopShape, LoopPC, LoopResPC, LoopIdPC, OwnPC, WakePC
  <2>4. RestOK' /\ UNCHANGED <<turn, claim, active, other>>
    BY <1>1, <1>3 DEF NoGuard, RestOK
  <2>5. r.pc \in OwnPC /\ Fits(turn, r)
    BY <1>1, <1>2, <2>1 DEF OwnPC, Fits
  <2> QED BY <1>1, <1>2, <2>1, <2>2, <2>3, <2>4, <2>5, PlainMove
<1>4. CASE /\ turn' = Cleared(at[Loop].id)
           /\ at' = [at EXCEPT ![Loop] = [at[Loop] EXCEPT !.pc = "failed"]]
           /\ NoGuard /\ UNCHANGED claim
  <2> DEFINE r == [at[Loop] EXCEPT !.pc = "failed"]
  <2>1. /\ r \in Rec /\ r.pc = "failed" /\ r.id = at[Loop].id
        /\ r.res = at[Loop].res /\ r.outer = at[Loop].outer
    BY <1>1 DEF Rec, LoopPC, LoopResPC
  <2>2. at' = [at EXCEPT ![Loop] = r]
    BY <1>4
  <2> HIDE DEF r
  <2>3. Shape(Loop, r)
    BY <1>1, <2>1, ShapeByKind DEF LoopShape, LoopPC, LoopResPC, LoopIdPC, OwnPC, WakePC
  <2>4. RestOK' /\ claim' = claim /\ active' = active /\ other' = other
    BY <1>1, <1>4 DEF NoGuard, RestOK
  <2>5. /\ turn' = turn \/ turn' = NoTurn
        /\ turn'.id # at[Loop].id /\ SlotHeld(turn') = SlotHeld(turn) /\ TurnOK'
    BY <1>1, <1>4, ClearedFacts
  <2>6. active' + SlotHeld(turn) + other + Held(at[Loop].res) + Held(at[Loop].outer)
          = active + SlotHeld(turn') + other' + Held(r.res) + Held(r.outer)
    BY <2>1, <2>4, <2>5
  <2>7. TurnMove(Loop, r, turn')
    BY <2>1, <2>5 DEF TurnMove, Fits
  <2>8. Answered(Loop, r, claim, claim') /\ Owns(Loop, r.id)
    BY <1>2, <2>1, <2>4 DEF Answered, Owns, OwnPC
  <2> QED BY <1>1, <1>2, <2>1, <2>2, <2>3, <2>4, <2>5, <2>6, <2>7, <2>8, MoveInv
<1> QED BY <1>3, <1>4 DEF Begin, Goto

\* A failed start drops its reservation.
LEMMA FailInv ==
    ASSUME IInv, Fail
    PROVE  IInv'
  BY LoopRec, GiveUpInv DEF Fail

\* The loop reserves a guard for itself.
LEMMA LoopReserveInv ==
    ASSUME IInv, NEW pc \in {"autoclaim", "interrupt"}, at[Loop].pc \in {"auto", "replace"}, Reserve,
           at' = [at EXCEPT ![Loop] = [at[Loop] EXCEPT !.pc = pc, !.res = TRUE]],
           UNCHANGED <<turn, claim, other, taken, mail, ops, inputs>>
    PROVE  IInv'
<1> DEFINE r == [at[Loop] EXCEPT !.pc = pc, !.res = TRUE]
<1>1. /\ Loop \in Proc /\ at[Loop] \in Rec /\ LoopShape(at[Loop]) /\ RestOK /\ TurnOK
      /\ claim \in ClaimType /\ active \in Nat /\ MaxThreads \in Nat /\ other \in Nat
  BY LoopRec
<1>2. at[Loop].res = FALSE /\ at[Loop].outer = FALSE /\ at[Loop].id = NoSlot
  BY <1>1 DEF LoopShape, Rec, LoopResPC, WakePC, LoopIdPC, OwnPC
<1>3. /\ r \in Rec /\ r.pc = pc /\ r.id = NoSlot /\ r.res = TRUE /\ r.outer = FALSE
  BY <1>1, <1>2 DEF Rec, LoopPC, LoopResPC, InputKind
<1>4. at' = [at EXCEPT ![Loop] = r]
  OBVIOUS
<1> HIDE DEF r
<1>5. Shape(Loop, r)
  BY <1>3, ShapeByKind DEF LoopShape, LoopPC, LoopResPC, LoopIdPC, OwnPC, WakePC, InputKind
<1>6. active' = active + 1 /\ active < MaxThreads /\ RestOK' /\ TurnOK'
  BY <1>1 DEF Reserve, HasCapacity, RestOK, TurnOK
<1>7. /\ Held(at[Loop].res) = 0 /\ Held(at[Loop].outer) = 0 /\ Held(r.res) = 1 /\ Held(r.outer) = 0
      /\ SlotHeld(turn) \in Nat /\ SlotHeld(turn') = SlotHeld(turn)
  BY <1>2, <1>3 DEF Held, SlotHeld
<1>8. /\ active' \in Nat /\ active' <= MaxThreads
      /\ active' + SlotHeld(turn) + other + Held(at[Loop].res) + Held(at[Loop].outer)
           = active + SlotHeld(turn') + other' + Held(r.res) + Held(r.outer)
  BY <1>1, <1>6, <1>7
<1>9. r.pc \notin OwnPC /\ at[Loop].pc \notin OwnPC \cup {"off"}
  BY <1>3 DEF OwnPC
<1>10. TurnMove(Loop, r, turn') /\ Answered(Loop, r, claim, claim') /\ claim' \in ClaimType
  BY <1>1, <1>9 DEF TurnMove, Answered, Owns
<1> QED BY <1>1, <1>3, <1>4, <1>5, <1>6, <1>8, <1>9, <1>10, MoveInv

\* start_if_idle reserves.
LEMMA AutoReserveInv ==
    ASSUME IInv, AutoReserve
    PROVE  IInv'
<1>1. Loop \in Proc
  BY LoopRec
<1>2. CASE GiveUp(Loop)
  BY <1>1, <1>2, GiveUpInv DEF AutoReserve
<1>3. CASE ~GiveUp(Loop)
  BY <1>3, LoopReserveInv DEF AutoReserve, Goto
<1> QED BY <1>2, <1>3

\* A replacement reserves.
LEMMA ReplaceReserveInv ==
    ASSUME IInv, ReplaceReserve
    PROVE  IInv'
<1>1. Loop \in Proc
  BY LoopRec
<1>2. CASE GiveUp(Loop)
  BY <1>1, <1>2, GiveUpInv DEF ReplaceReserve
<1>3. CASE ~GiveUp(Loop)
  BY <1>3, LoopReserveInv DEF ReplaceReserve, Goto
<1> QED BY <1>2, <1>3

\* The loop claims the empty slot with the reservation it holds.
LEMMA EmptyClaimInv ==
    ASSUME IInv, EmptyClaim
    PROVE  IInv'
<1> DEFINE pc == IF at[Loop].pc = "start" THEN "install" ELSE "autocheck"
           r == [at[Loop] EXCEPT !.id = NewSlot, !.pc = pc]
<1>1. /\ Loop \in Proc /\ at[Loop] \in Rec /\ LoopShape(at[Loop]) /\ RestOK
      /\ active \in Nat /\ active <= MaxThreads /\ other \in Nat
      /\ at[Loop].pc \in {"autoclaim", "start"} /\ UNCHANGED <<other, taken, mail, ops, inputs>>
  BY LoopRec DEF EmptyClaim
<1>2. CASE GiveUp(Loop) /\ UNCHANGED turn
  BY <1>1, <1>2, GiveUpInv
<1>3. CASE ~Busy /\ ClaimSlot(NewSlot, "start") /\ at' = [at EXCEPT ![Loop] = r] /\ NoGuard
  <2>1. NewSlot \in Slot
    BY <1>3, NewSlotIsFree DEF ClaimSlot, FreeSlot
  <2>2. pc \in {"install", "autocheck"}
    OBVIOUS
  <2> HIDE DEF pc
  <2>3. /\ r \in Rec /\ r.pc = pc /\ r.id = NewSlot /\ r.res = at[Loop].res /\ r.outer = at[Loop].outer
    BY <1>1, <2>1, <2>2 DEF Rec, LoopPC, LoopResPC
  <2> HIDE DEF r
  <2>4. Shape(Loop, r)
    BY <1>1, <2>1, <2>2, <2>3, ShapeByKind, AdmissionAssumption DEF LoopShape, LoopPC, LoopResPC, LoopIdPC,
        OwnPC, WakePC, Slot
  <2>5. active' = active /\ fresh' \in SUBSET Dispatch
    BY <1>1, <1>3 DEF NoGuard, RestOK
  <2>6. SlotHeld(turn) = 0 /\ SlotHeld([id |-> NewSlot, phase |-> "start"]) = 0
    BY <1>3 DEF SlotHeld, Held, Busy
  <2>7. active' + SlotHeld(turn) + other + Held(at[Loop].res) + Held(at[Loop].outer)
          = active + SlotHeld([id |-> NewSlot, phase |-> "start"]) + other + Held(r.res) + Held(r.outer)
    BY <2>3, <2>5, <2>6
  <2>8. at[Loop].pc \notin OwnPC \cup {"off"} /\ r.pc \in OwnPC \ {"failed"} /\ r.pc # "commit"
    BY <1>1, <2>2, <2>3 DEF OwnPC
  <2> QED BY <1>1, <1>3, <2>3, <2>4, <2>5, <2>7, <2>8, ClaimInv
<1> QED BY <1>2, <1>3 DEF EmptyClaim, Goto

\* Mail that arrived meanwhile takes precedence over an idle-only input.
LEMMA AutoCheckInv ==
    ASSUME IInv, AutoCheck
    PROVE  IInv'
<1>1. /\ Loop \in Proc /\ at[Loop] \in Rec /\ LoopShape(at[Loop]) /\ RestOK /\ TurnOK
      /\ claim \in ClaimType /\ active \in Nat /\ active <= MaxThreads /\ other \in Nat
      /\ at[Loop].pc = "autocheck" /\ UNCHANGED <<active, fresh, other, taken, mail, ops, inputs>>
  BY LoopRec DEF AutoCheck, NoGuard
<1>2. at[Loop].pc \in OwnPC /\ Owns(Loop, at[Loop].id) /\ Fits(turn, at[Loop]) /\ at[Loop].pc # "off"
  BY <1>1 DEF OwnPC, Owns, IInv, OwnerInv
<1>3. at[Loop].id \in Slot
  BY <1>1, <1>2, OwnerHasSlot
<1>4. CASE /\ at' = [at EXCEPT ![Loop] = [at[Loop] EXCEPT !.pc = "begin"]]
           /\ UNCHANGED <<turn, claim>>
  <2> DEFINE r == [at[Loop] EXCEPT !.pc = "begin"]
  <2>1. /\ r \in Rec /\ r.pc = "begin" /\ r.id = at[Loop].id
        /\ r.res = at[Loop].res /\ r.outer = at[Loop].outer
    BY <1>1 DEF Rec, LoopPC, LoopResPC
  <2>2. at' = [at EXCEPT ![Loop] = r]
    BY <1>4
  <2> HIDE DEF r
  <2>3. Shape(Loop, r)
    BY <1>1, <2>1, ShapeByKind DEF LoopShape, LoopPC, LoopResPC, LoopIdPC, OwnPC, WakePC
  <2>4. RestOK' /\ UNCHANGED <<turn, claim, active, other>>
    BY <1>1, <1>4 DEF RestOK
  <2>5. r.pc \in OwnPC /\ Fits(turn, r)
    BY <1>1, <1>2, <2>1 DEF OwnPC, Fits
  <2> QED BY <1>1, <1>2, <2>1, <2>2, <2>3, <2>4, <2>5, PlainMove
<1>5. CASE /\ turn' = Cleared(at[Loop].id)
           /\ claim' = DropClaim(at[Loop].id)
           /\ at' = [at EXCEPT ![Loop] = [Off("check") EXCEPT !.outer = TRUE]]
  <2> DEFINE r == [Off("check") EXCEPT !.outer = TRUE]
  <2>1. /\ r \in Rec /\ r.pc = "check" /\ r.id = NoSlot /\ r.res = FALSE /\ r.outer = TRUE
    BY DEF Off, Rec, LoopPC, WakePC
  <2>2. at' = [at EXCEPT ![Loop] = r]
    BY <1>5
  <2> HIDE DEF r
  <2>3. Shape(Loop, r) /\ r.pc \notin OwnPC
    BY <2>1, ShapeByKind DEF LoopShape, LoopPC, LoopResPC, LoopIdPC, OwnPC, WakePC
  <2>4. RestOK'
    BY <1>1 DEF RestOK
  <2>5. /\ turn' = turn \/ turn' = NoTurn
        /\ SlotHeld(turn') = SlotHeld(turn) /\ TurnOK'
    BY <1>1, <1>5, ClearedFacts
  <2>6. /\ Held(at[Loop].res) = 1 /\ Held(at[Loop].outer) = 0 /\ Held(r.res) = 0 /\ Held(r.outer) = 1
        /\ SlotHeld(turn) \in Nat
    BY <1>1, <2>1 DEF Held, LoopShape, LoopResPC, WakePC, SlotHeld
  <2>7. active' + SlotHeld(turn) + other + Held(at[Loop].res) + Held(at[Loop].outer)
          = active + SlotHeld(turn') + other' + Held(r.res) + Held(r.outer)
    BY <1>1, <2>5, <2>6
  <2>8. TurnMove(Loop, r, turn')
    BY <2>3, <2>5 DEF TurnMove
  <2>9. Answered(Loop, r, claim, claim') /\ claim' \in ClaimType
    BY <1>1, <1>2, <1>3, <1>5, DropClaimFacts DEF Answered, Owns
  <2> QED BY <1>1, <1>2, <2>1, <2>2, <2>3, <2>4, <2>5, <2>7, <2>8, <2>9, MoveInv
<1> QED BY <1>4, <1>5 DEF AutoCheck, Goto

\* An abort takes the turn out of the slot, and the guard of its task with it.
LEMMA AbortTakeInv ==
    ASSUME IInv, AbortTake
    PROVE  IInv'
<1> DEFINE r == IF turn.phase = "task"
                THEN [at[Loop] EXCEPT !.pc = "aborting", !.id = turn.id, !.outer = TRUE]
                ELSE IF at[Loop].res THEN [at[Loop] EXCEPT !.pc = "start"] ELSE Off("idle")
           n == Held(turn.phase = "wake")
<1>1. /\ Loop \in Proc /\ at[Loop] \in Rec /\ LoopShape(at[Loop]) /\ RestOK /\ TurnOK
      /\ claim \in ClaimType /\ active \in Nat /\ active <= MaxThreads /\ other \in Nat
      /\ MaxThreads \in Nat
      /\ active >= SlotHeld(turn) + other + Held(at[Loop].res) + Held(at[Loop].outer)
      /\ at[Loop].pc = "interrupt" /\ UNCHANGED <<claim, other, taken, mail, ops, inputs>>
  BY LoopRec DEF AbortTake
<1>2. at[Loop].outer = FALSE /\ at[Loop].id = NoSlot /\ at[Loop].res \in BOOLEAN
  BY <1>1 DEF LoopShape, Rec, WakePC, LoopIdPC, OwnPC
<1>3. at' = [at EXCEPT ![Loop] = r] /\ turn' = NoTurn /\ active' = active - n
  BY DEF AbortTake, Goto, Release
<1>4. /\ r \in Rec /\ LoopShape(r) /\ r.pc \notin OwnPC /\ r.res = at[Loop].res
      /\ (r.outer <=> turn.phase = "task")
  <2>1. CASE turn.phase = "task"
    <3>1. turn.id \in Slot /\ turn.id # NoSlot
      BY <1>1, <2>1 DEF TurnOK
    <3>2. /\ r \in Rec /\ r.pc = "aborting" /\ r.id = turn.id /\ r.outer = TRUE /\ r.res = at[Loop].res
      BY <1>1, <2>1, <3>1 DEF Rec, LoopPC, LoopIdPC
    <3> HIDE DEF r
    <3> QED BY <2>1, <3>1, <3>2 DEF LoopShape, LoopPC, LoopIdPC, LoopResPC, OwnPC, WakePC
  <2>2. CASE turn.phase # "task" /\ at[Loop].res
    <3>1. /\ r \in Rec /\ r.pc = "start" /\ r.id = NoSlot /\ r.outer = FALSE /\ r.res = at[Loop].res
      BY <1>1, <1>2, <2>2 DEF Rec, LoopPC, LoopResPC
    <3> HIDE DEF r
    <3> QED BY <2>2, <3>1 DEF LoopShape, LoopPC, LoopIdPC, LoopResPC, OwnPC, WakePC
  <2>3. CASE turn.phase # "task" /\ ~at[Loop].res
    <3>1. r = Off("idle")
      BY <2>3
    <3> HIDE DEF r
    <3>2. /\ r \in Rec /\ r.pc = "idle" /\ r.id = NoSlot /\ r.outer = FALSE /\ r.res = FALSE
      BY <3>1, OffRec DEF LoopPC
    <3> QED BY <1>2, <2>3, <3>2 DEF LoopShape, LoopPC, LoopIdPC, LoopResPC, OwnPC, WakePC
  <2> QED BY <2>1, <2>2, <2>3
<1> HIDE DEF r
<1>5. Shape(Loop, r)
  BY <1>4, ShapeByKind
<1>6. TurnOK' /\ fresh' \in SUBSET Dispatch
  BY <1>1, <1>3 DEF TurnOK, NoTurn, Phase, AbortTake, Release, RestOK
<1>7. RestOK'
  BY <1>1, <1>6 DEF RestOK
<1>8. /\ SlotHeld(turn) = n + Held(r.outer) /\ n \in Nat /\ Held(r.outer) \in Nat
      /\ SlotHeld(turn') = 0 /\ Held(at[Loop].outer) = 0 /\ Held(at[Loop].res) = Held(r.res)
      /\ Held(r.res) \in Nat
  <2>1. Held(r.outer) = Held(turn.phase = "task")
    BY <1>4 DEF Held
  <2>2. SlotHeld(turn) = n + Held(turn.phase = "task") /\ n \in Nat /\ Held(r.outer) \in Nat
    BY DEF SlotHeld, Held
  <2>3. SlotHeld(turn') = 0
    BY <1>3 DEF SlotHeld, Held, NoTurn
  <2> QED BY <1>2, <1>4, <2>1, <2>2, <2>3 DEF Held
<1> HIDE DEF n
<1>9. /\ active' \in Nat /\ active' <= MaxThreads
      /\ active' + SlotHeld(turn) + other + Held(at[Loop].res) + Held(at[Loop].outer)
           = active + SlotHeld(turn') + other' + Held(r.res) + Held(r.outer)
  BY <1>1, <1>3, <1>8
<1>10. TurnMove(Loop, r, turn') /\ Answered(Loop, r, claim, claim') /\ at[Loop].pc # "off"
  BY <1>1, <1>3, <1>4 DEF TurnMove, Answered, Owns, OwnPC
<1> QED BY <1>1, <1>3, <1>4, <1>5, <1>6, <1>7, <1>9, <1>10, MoveInv

\* Two processes' guards are part of the limiter's count.
LEMMA GuardsCoverTwo ==
    ASSUME IInv, NEW p \in Proc, NEW k \in Proc, at[p].outer, p # k
    PROVE  active >= 1 + Held(at[k].res)
<1>1. /\ active \in Nat /\ other \in Nat /\ at \in [Proc -> Rec]
      /\ active = SlotHeld(turn) + other + Cardinality(ResSet) + Cardinality(OuterSet)
  BY GuardsForm DEF IInv, StateOK, RestOK
<1>2. /\ ResSet \in SUBSET Proc /\ OuterSet \in SUBSET Proc
      /\ ResSet \ {k} \in SUBSET Proc /\ OuterSet \ {p} \in SUBSET Proc
      /\ (ResSet \ {k}) \ {k} = ResSet \ {k} /\ (OuterSet \ {p}) \ {p} = OuterSet \ {p}
      /\ Held(k \in ResSet \ {k}) = 0 /\ Held(p \in OuterSet \ {p}) = 0
      /\ Held(k \in ResSet) = Held(at[k].res) /\ Held(p \in OuterSet) = 1
  BY DEF ResSet, OuterSet, Held
<1> HIDE DEF ResSet, OuterSet
<1>3. /\ Cardinality(ResSet) \in Nat /\ Cardinality(ResSet \ {k}) \in Nat
      /\ Cardinality(ResSet) + Held(k \in ResSet \ {k}) = Cardinality(ResSet \ {k}) + Held(k \in ResSet)
  BY <1>2, CountStep
<1>4. /\ Cardinality(OuterSet) \in Nat /\ Cardinality(OuterSet \ {p}) \in Nat
      /\ Cardinality(OuterSet) + Held(p \in OuterSet \ {p})
           = Cardinality(OuterSet \ {p}) + Held(p \in OuterSet)
  BY <1>2, CountStep
<1>5. Held(at[k].res) \in Nat /\ SlotHeld(turn) \in Nat
  BY DEF Held, SlotHeld
<1>6. Cardinality(ResSet) >= Held(at[k].res) /\ Cardinality(OuterSet) >= 1
  BY <1>2, <1>3, <1>4, <1>5
<1> QED BY <1>1, <1>3, <1>4, <1>5, <1>6

\* An aborted task ends with everything it holds.
LEMMA AbortEndInv ==
    ASSUME IInv, AbortEnd
    PROVE  IInv'
<1> DEFINE k == Task(at[Loop].id)
           r == IF at[Loop].res THEN [Off("start") EXCEPT !.res = TRUE] ELSE Off("check")
           s == Off("off")
<1>1. /\ Loop \in Proc /\ at[Loop] \in Rec /\ LoopShape(at[Loop]) /\ RestOK /\ TurnOK
      /\ claim \in ClaimType /\ active \in Nat /\ active <= MaxThreads /\ other \in Nat
      /\ MaxThreads \in Nat
      /\ at[Loop].pc = "aborting" /\ UNCHANGED <<turn, other, taken, mail, ops, inputs>>
  BY LoopRec DEF AbortEnd
<1>2. at[Loop].id \in Slot /\ at[Loop].outer = TRUE /\ at[Loop].res \in BOOLEAN
  BY <1>1 DEF LoopShape, Rec, LoopIdPC
<1>3. k \in Proc /\ k[1] = "task" /\ k # Loop
  BY <1>2, ProcKinds
<1>4. at[k] \in Rec /\ TaskShape(at[k])
  BY <1>3, ProcRec DEF Shape
<1>5. /\ at' = [at EXCEPT ![Loop] = r, ![k] = s]
      /\ active' = active - (1 + Held(at[k].res)) /\ fresh' \in SUBSET Dispatch
      /\ claim' = IF at[k].pc \in {"commit", "install"} THEN DropClaim(at[k].id) ELSE claim
  BY <1>1 DEF AbortEnd, Release, RestOK
<1> HIDE DEF k
<1>6. s \in Rec /\ s.pc = "off" /\ s.id = NoSlot /\ s.res = FALSE /\ s.outer = FALSE
  BY OffRec DEF TaskPC
<1> HIDE DEF s
<1>7. Shape(k, s) /\ s.pc \notin OwnPC
  BY <1>3, <1>6 DEF Shape, TaskShape, TaskPC, OwnPC
<1>8. /\ r \in Rec /\ r.pc = (IF at[Loop].res THEN "start" ELSE "check")
      /\ r.id = NoSlot /\ r.res = at[Loop].res /\ r.outer = FALSE
  BY <1>2 DEF Off, Rec, LoopPC, LoopResPC, WakePC
<1> HIDE DEF r
<1>9. Shape(Loop, r) /\ r.pc \notin OwnPC
  BY <1>8, ShapeByKind DEF LoopShape, LoopPC, LoopIdPC, LoopResPC, OwnPC, WakePC
<1>10. TurnOK' /\ RestOK'
  BY <1>1, <1>5 DEF TurnOK, RestOK
<1>11. active >= 1 + Held(at[k].res)
  BY <1>1, <1>2, <1>3, GuardsCoverTwo
<1>12. /\ Held(at[Loop].outer) = 1 /\ Held(at[k].outer) = 0 /\ Held(r.res) = Held(at[Loop].res)
       /\ Held(r.outer) = 0 /\ Held(s.res) = 0 /\ Held(s.outer) = 0
       /\ Held(at[k].res) \in Nat /\ Held(at[Loop].res) \in Nat
       /\ SlotHeld(turn) \in Nat /\ SlotHeld(turn') = SlotHeld(turn)
  BY <1>1, <1>2, <1>4, <1>6, <1>8 DEF Held, TaskShape, SlotHeld
<1>13. /\ active' \in Nat /\ active' <= MaxThreads
       /\ active' + SlotHeld(turn) + Held(at[Loop].res) + Held(at[Loop].outer)
                 + Held(at[k].res) + Held(at[k].outer)
           = active + SlotHeld(turn') + Held(r.res) + Held(r.outer) + Held(s.res) + Held(s.outer)
  BY <1>1, <1>5, <1>11, <1>12
<1>14. /\ claim' \in ClaimType
       /\ \A i \in Slot : claim'[i] = "Starting" =>
             claim[i] = "Starting" /\ ~Owns(Loop, i) /\ ~Owns(k, i)
  <2>1. CASE at[k].pc \in {"commit", "install"}
    <3>1. at[k].id \in Slot /\ claim' = DropClaim(at[k].id)
      BY <1>4, <1>5, <2>1 DEF TaskShape, Rec
    <3>2. /\ claim' \in ClaimType /\ claim'[at[k].id] # "Starting"
          /\ \A j \in Slot : claim'[j] = "Starting" => claim[j] = "Starting"
      BY <1>1, <3>1, DropClaimFacts
    <3> QED BY <1>1, <3>2 DEF Owns, OwnPC
  <2>2. CASE at[k].pc \notin {"commit", "install"}
    <3>1. claim' = claim /\ at[k].pc \notin OwnPC
      BY <1>4, <1>5, <2>2 DEF TaskShape, TaskPC, WakePC, OwnPC
    <3> QED BY <1>1, <3>1 DEF Owns, OwnPC
  <2> QED BY <2>1, <2>2
<1> QED BY <1>1, <1>3, <1>5, <1>6, <1>7, <1>8, <1>9, <1>10, <1>13, <1>14, MoveTwoInv

-----------------------------------------------------------------------------
(* The tasks, the watchers and the other sessions keep the invariant.      *)

\* What a task's record says.
LEMMA TaskRec ==
    ASSUME IInv, NEW i \in Slot
    PROVE  /\ Task(i) \in Proc /\ at[Task(i)] \in Rec /\ TaskShape(at[Task(i)])
           /\ RestOK /\ TurnOK /\ claim \in ClaimType
           /\ active \in Nat /\ other \in Nat /\ MaxThreads \in Nat /\ active <= MaxThreads
           /\ active >= SlotHeld(turn) + other + Held(at[Task(i)].res) + Held(at[Task(i)].outer)
<1>1. Task(i) \in Proc
  BY ProcKinds
<1> QED BY <1>1, ProcRec, ShapeByKind, GuardsCover, AdmissionAssumption DEF RestOK

\* A move of a task that neither holds nor takes a guard or a claim.
LEMMA TaskMove ==
    ASSUME IInv, NEW i \in Slot, NEW r \in Rec, TaskShape(r), r.pc \notin {"install", "commit"},
           at[Task(i)].pc \in {"run", "ended", "closing"},
           at' = [at EXCEPT ![Task(i)] = r], TurnOK',
           \/ turn' = turn \/ turn' = NoTurn
           \/ turn'.id = turn.id /\ turn.phase \in {"task", "closing"},
           active' \in Nat, active' + SlotHeld(turn) = active + SlotHeld(turn'), active' <= MaxThreads,
           fresh' \in SUBSET Dispatch,
           UNCHANGED <<claim, other, taken, mail, ops, inputs>>
    PROVE  IInv'
<1> DEFINE k == Task(i)
<1>1. /\ k \in Proc /\ at[k] \in Rec /\ TaskShape(at[k]) /\ RestOK /\ claim \in ClaimType
      /\ active \in Nat /\ other \in Nat
  BY TaskRec
<1>2. Shape(k, r)
  BY ShapeByKind
<1> HIDE DEF k
<1>3. /\ at[k].pc \in {"run", "ended", "closing"} /\ at' = [at EXCEPT ![k] = r]
  BY DEF k
<1>4. RestOK'
  BY <1>1 DEF RestOK
<1>5. /\ Held(at[k].res) = 0 /\ Held(at[k].outer) = 0 /\ Held(r.res) = 0 /\ Held(r.outer) = 0
      /\ SlotHeld(turn) \in Nat /\ SlotHeld(turn') \in Nat
  BY <1>1, <1>3 DEF TaskShape, Held, SlotHeld
<1>6. active' + SlotHeld(turn) + other + Held(at[k].res) + Held(at[k].outer)
        = active + SlotHeld(turn') + other' + Held(r.res) + Held(r.outer)
  BY <1>1, <1>5
<1>7. r.pc \notin OwnPC /\ at[k].pc \notin OwnPC \cup {"off"}
  BY <1>3 DEF TaskShape, TaskPC, WakePC, OwnPC
<1>8. TurnMove(k, r, turn') /\ Answered(k, r, claim, claim')
  BY <1>7 DEF TurnMove, Answered, Owns
<1> QED BY <1>1, <1>2, <1>3, <1>4, <1>6, <1>7, <1>8, MoveInv

\* The work of a task is over.
LEMMA TaskEndsInv ==
    ASSUME IInv, NEW i \in Slot, TaskEnds(i)
    PROVE  IInv'
<1> DEFINE r == Off(IF Cancelled(i) THEN "off" ELSE "ended")
<1>1. r \in Rec /\ r.pc \in {"off", "ended"} /\ r.id = NoSlot /\ r.res = FALSE /\ r.outer = FALSE
  BY OffRec DEF TaskPC
<1>2. at' = [at EXCEPT ![Task(i)] = r] /\ at[Task(i)].pc = "run"
      /\ UNCHANGED <<turn, claim, active, other, taken, fresh, mail, ops, inputs>>
  BY DEF TaskEnds, Goto
<1> HIDE DEF r
<1>3. TaskShape(r)
  BY <1>1 DEF TaskShape, TaskPC
<1>4. TurnOK' /\ active' \in Nat /\ active' <= MaxThreads /\ fresh' \in SUBSET Dispatch
  BY <1>2, TaskRec DEF TurnOK, RestOK
<1>5. active' + SlotHeld(turn) = active + SlotHeld(turn')
  BY <1>2
<1>6. turn' = turn /\ UNCHANGED <<claim, other, taken, mail, ops, inputs>>
  BY <1>2
<1> QED BY <1>1, <1>2, <1>3, <1>4, <1>5, <1>6, TaskMove

\* The task of the active turn is taken out of the slot with its guard.
LEMMA FinishTakeInv ==
    ASSUME IInv, NEW i \in Slot, FinishTake(i)
    PROVE  IInv'
<1>1. /\ Task(i) \in Proc /\ RestOK /\ TurnOK /\ claim \in ClaimType
      /\ active \in Nat /\ other \in Nat /\ MaxThreads \in Nat /\ active <= MaxThreads
      /\ active >= SlotHeld(turn) + other + Held(at[Task(i)].res) + Held(at[Task(i)].outer)
      /\ at[Task(i)].pc = "ended" /\ UNCHANGED <<claim, other, taken, mail, ops, inputs>>
  BY TaskRec DEF FinishTake
<1>2. CASE /\ turn.phase = "task" /\ turn' = [turn EXCEPT !.phase = "closing"]
           /\ at' = [at EXCEPT ![Task(i)] = [Off("closing") EXCEPT !.id = turn.id]]
           /\ Release(1)
  <2> DEFINE r == [Off("closing") EXCEPT !.id = turn.id]
  <2>1. turn.id \in Slot /\ turn.id # NoSlot
    BY <1>1, <1>2 DEF TurnOK
  <2>2. r \in Rec /\ r.pc = "closing" /\ r.id = turn.id /\ r.res = FALSE /\ r.outer = FALSE
    BY <2>1 DEF Off, Rec, TaskPC
  <2>3. at' = [at EXCEPT ![Task(i)] = r]
    BY <1>2
  <2> HIDE DEF r
  <2>4. TaskShape(r)
    BY <2>1, <2>2 DEF TaskShape, TaskPC
  <2>5. turn'.id = turn.id /\ turn'.phase = "closing" /\ TurnOK'
    BY <1>1, <1>2 DEF TurnOK, Phase
  <2>6. active' = active - 1 /\ fresh' \in SUBSET Dispatch
    BY <1>1, <1>2 DEF Release, RestOK
  <2>7. /\ SlotHeld(turn) = 1 /\ SlotHeld(turn') = 0
        /\ Held(at[Task(i)].res) \in Nat /\ Held(at[Task(i)].outer) \in Nat
    BY <1>2, <2>5 DEF SlotHeld, Held
  <2>8. active' \in Nat /\ active' <= MaxThreads /\ active' + SlotHeld(turn) = active + SlotHeld(turn')
    BY <1>1, <2>6, <2>7
  <2> QED BY <1>1, <1>2, <2>2, <2>3, <2>4, <2>5, <2>6, <2>8, TaskMove
<1>3. CASE turn.phase # "task" /\ at' = [at EXCEPT ![Task(i)] = Off("off")] /\ NoGuard /\ UNCHANGED turn
  <2> DEFINE r == Off("off")
  <2>1. r \in Rec /\ r.pc = "off" /\ r.id = NoSlot /\ r.res = FALSE /\ r.outer = FALSE
    BY OffRec DEF TaskPC
  <2>2. at' = [at EXCEPT ![Task(i)] = r]
    BY <1>3
  <2> HIDE DEF r
  <2>3. TaskShape(r)
    BY <2>1 DEF TaskShape, TaskPC
  <2>4. active' = active /\ fresh' \in SUBSET Dispatch /\ TurnOK' /\ SlotHeld(turn') = SlotHeld(turn)
    BY <1>1, <1>3 DEF NoGuard, RestOK, TurnOK
  <2> QED BY <1>1, <1>3, <2>1, <2>2, <2>3, <2>4, TaskMove
<1> QED BY <1>2, <1>3 DEF FinishTake, Goto

\* The closed turn leaves the slot.
LEMMA FinishClearInv ==
    ASSUME IInv, NEW i \in Slot, FinishClear(i)
    PROVE  IInv'
<1> DEFINE r == Off(IF StillMine(i) THEN "check" ELSE "off")
<1>1. /\ Task(i) \in Proc /\ RestOK /\ TurnOK /\ claim \in ClaimType
      /\ active \in Nat /\ active <= MaxThreads
      /\ at[Task(i)].pc = "closing"
      /\ UNCHANGED <<claim, active, other, taken, fresh, mail, ops, inputs>>
  BY TaskRec DEF FinishClear
<1>2. r \in Rec /\ r.pc \in {"check", "off"} /\ r.id = NoSlot /\ r.res = FALSE /\ r.outer = FALSE
  BY OffRec DEF TaskPC, WakePC
<1>3. at' = [at EXCEPT ![Task(i)] = r]
  BY DEF FinishClear, Goto
<1> HIDE DEF r
<1>4. TaskShape(r)
  BY <1>2 DEF TaskShape, TaskPC, WakePC
<1>5. turn' = turn \/ (turn' = NoTurn /\ turn.phase = "closing")
  <2>1. turn' = ClearTurn(i)
    BY DEF FinishClear
  <2>2. CASE StillMine(i)
    <3>1. turn.phase = "closing"
      BY <2>2 DEF StillMine
    <3>2. turn' = NoTurn
      BY <2>1, <2>2 DEF ClearTurn
    <3> QED BY <3>1, <3>2
  <2>3. CASE ~StillMine(i)
    BY <2>1, <2>3 DEF ClearTurn
  <2> QED BY <2>2, <2>3
<1>6. SlotHeld(turn') = SlotHeld(turn) /\ TurnOK'
  BY <1>1, <1>5 DEF SlotHeld, Held, NoTurn, TurnOK, Phase
<1>7. fresh' \in SUBSET Dispatch /\ active' + SlotHeld(turn) = active + SlotHeld(turn')
  BY <1>1, <1>6 DEF RestOK
<1> QED BY <1>1, <1>2, <1>3, <1>4, <1>5, <1>6, <1>7, TaskMove

\* A watcher's own steps hold nothing.
LEMMA WatchStepInv ==
    ASSUME IInv, NEW d \in Dispatch, WatchStep(d)
    PROVE  IInv'
<1> DEFINE k == Watcher(d)
           Pcs == {"slot", "capacity", "lease", "armed", "after", "done", "check"}
<1>1. PICK pc \in Pcs : at' = [at EXCEPT ![k] = Off(pc)]
  BY DEF WatchStep, Subscribe, SendCheck, SendRefused, Retain, SeeRelease, Rearm, Goto
<1>2. at[k].pc \in WatchPC \ WakePC
  BY DEF WatchStep, Subscribe, SendCheck, SendRefused, Retain, SeeRelease, Rearm, WatchPC, WakePC
<1>3. k \in Proc /\ at[k] \in Rec /\ WatchShape(at[k]) /\ RestOK
  BY ProcKinds, ProcRec, ShapeByKind
<1>4. RestOK' /\ UNCHANGED <<turn, claim, active, other>>
  BY <1>3 DEF WatchStep, Subscribe, SendCheck, SendRefused, Retain, SeeRelease, Rearm, RestOK, Unseen
<1> DEFINE r == Off(pc)
<1>5. r \in Rec /\ r.pc = pc /\ r.id = NoSlot /\ r.res = FALSE /\ r.outer = FALSE
  BY OffRec DEF WatchPC, WakePC
<1>6. at' = [at EXCEPT ![k] = r]
  BY <1>1
<1> HIDE DEF r
<1>7. WatchShape(r)
  BY <1>5 DEF WatchShape, WatchPC, WakePC
<1>8. Shape(k, r)
  BY <1>7, ShapeByKind
<1> HIDE DEF k
<1>9. at[k].res = FALSE /\ at[k].outer = FALSE
  BY <1>2, <1>3 DEF WatchShape, Rec, WatchPC, WakePC
<1>10. r.pc \notin OwnPC /\ at[k].pc \notin OwnPC \cup {"off"}
  BY <1>2, <1>5 DEF OwnPC, WatchPC, WakePC
<1> QED BY <1>3, <1>4, <1>5, <1>6, <1>8, <1>9, <1>10, PlainMove

\* Nothing that a process holds changes.
LEMMA StillInv ==
    ASSUME IInv, UNCHANGED <<turn, claim, at>>, RestOK', active' \in Nat, active' <= MaxThreads,
           active' + other = active + other'
    PROVE  IInv'
<1> DEFINE r == at[Loop]
<1>1. /\ Loop \in Proc /\ r \in Rec /\ LoopShape(r) /\ TurnOK /\ claim \in ClaimType
      /\ active \in Nat /\ other \in Nat /\ at \in [Proc -> Rec] /\ other' \in Nat
  BY LoopRec, ProcRec DEF RestOK
<1>2. /\ Cardinality(ResSet') = Cardinality(ResSet) /\ Cardinality(OuterSet') = Cardinality(OuterSet)
      /\ SlotHeld(turn') = SlotHeld(turn)
  BY DEF ResSet, OuterSet
<1>3. Cardinality(ResSet) \in Nat /\ Cardinality(OuterSet) \in Nat /\ SlotHeld(turn) \in Nat
  <2>1. ResSet \in SUBSET Proc /\ OuterSet \in SUBSET Proc
    BY DEF ResSet, OuterSet
  <2>2. IsFiniteSet(ResSet) /\ IsFiniteSet(OuterSet)
    BY <2>1, ProcFinite, FS_Subset
  <2> QED BY <2>2, FS_CardinalityType DEF SlotHeld, Held
<1>4. active = SlotHeld(turn) + other + Cardinality(ResSet) + Cardinality(OuterSet)
  BY GuardsForm DEF IInv
<1>5. active' = SlotHeld(turn') + other' + Cardinality(ResSet') + Cardinality(OuterSet')
  BY <1>1, <1>2, <1>3, <1>4
<1>6. GuardsExact'
  BY <1>5, GuardsFormNext
<1>7. StateOK' /\ ShapeInv'
  BY <1>1 DEF IInv, StateOK, ShapeInv, TurnOK
<1>8. OwnerInv' /\ StartingInv'
  BY DEF IInv, OwnerInv, StartingInv, Owns
<1> QED BY <1>6, <1>7, <1>8 DEF IInv

\* A running turn takes the mail.
LEMMA DeliverInv ==
    ASSUME IInv, NEW i \in Slot, Deliver(i)
    PROVE  IInv'
<1>1. RestOK /\ active \in Nat /\ active <= MaxThreads /\ other \in Nat
  BY LoopRec
<1>2. RestOK' /\ active' = active /\ other' = other /\ UNCHANGED <<turn, claim, at>>
  BY <1>1 DEF Deliver, RestOK
<1> QED BY <1>1, <1>2, StillInv

\* Other sessions take and drop guards.
LEMMA OtherInv ==
    ASSUME IInv, OtherStart \/ OtherEnd
    PROVE  IInv'
<1>1. /\ RestOK /\ active \in Nat /\ active <= MaxThreads /\ other \in Nat /\ MaxThreads \in Nat
      /\ active >= SlotHeld(turn) + other + Held(at[Loop].res) + Held(at[Loop].outer)
  BY LoopRec
<1>2. SlotHeld(turn) \in Nat /\ Held(at[Loop].res) \in Nat /\ Held(at[Loop].outer) \in Nat
  BY DEF SlotHeld, Held
<1>3. CASE OtherStart
  <2>1. /\ active < MaxThreads /\ active' = active + 1 /\ other' = other + 1
        /\ UNCHANGED <<turn, claim, at>>
    BY <1>3 DEF OtherStart, Reserve, HasCapacity
  <2>2. RestOK'
    BY <1>1, <1>3, <2>1, AdmissionAssumption DEF OtherStart, Reserve, RestOK
  <2> QED BY <1>1, <2>1, <2>2, StillInv
<1>4. CASE OtherEnd
  <2>1. /\ other > 0 /\ active' = active - 1 /\ other' = other - 1
        /\ UNCHANGED <<turn, claim, at>>
    BY <1>4 DEF OtherEnd, Release
  <2>2. fresh' \in SUBSET Dispatch
    BY <1>1, <1>4 DEF OtherEnd, Release, RestOK
  <2>3. RestOK'
    BY <1>1, <1>4, <2>1, <2>2 DEF OtherEnd, RestOK
  <2>4. active' \in Nat /\ active' <= MaxThreads /\ active' + other = active + other'
    BY <1>1, <1>2, <2>1
  <2> QED BY <2>1, <2>3, <2>4, StillInv
<1> QED BY <1>3, <1>4

-----------------------------------------------------------------------------
(* The theorems that hold for every input.                                 *)

\* The initial state has no turn, no claim and no guard.
LEMMA InitInv == Init => IInv
<1> SUFFICES ASSUME Init PROVE IInv
  OBVIOUS
<1>1. \A p \in Proc : /\ at[p] = Off(IF p[1] = "loop" THEN "idle"
                                     ELSE IF p[1] = "task" THEN "off" ELSE "new")
                      /\ at[p].pc \in {"idle", "off", "new"} /\ at[p].id = NoSlot
                      /\ at[p].res = FALSE /\ at[p].outer = FALSE
  BY ProcKinds DEF Init, Off
<1>2. \A p \in Proc : at[p] \in Rec /\ Shape(p, at[p])
  <2> SUFFICES ASSUME NEW p \in Proc PROVE at[p] \in Rec /\ Shape(p, at[p])
    OBVIOUS
  <2>1. at[p] \in Rec
    <3>1. \A pc \in {"idle", "off", "new"} : Off(pc) \in Rec
      BY OffRec DEF LoopPC, TaskPC, WatchPC
    <3> QED BY <1>1, <3>1
  <2>2. at[p].pc = IF p[1] = "loop" THEN "idle" ELSE IF p[1] = "task" THEN "off" ELSE "new"
    <3>1. \A x : Off(x).pc = x
      BY DEF Off
    <3> QED BY <1>1, <3>1
  <2> QED BY <1>1, <2>1, <2>2, ProcKinds DEF Shape, LoopShape, TaskShape, WatchShape, LoopPC, TaskPC,
               WatchPC, WakePC, OwnPC, LoopResPC, LoopIdPC
<1>3. at \in [Proc -> Rec]
  BY <1>2 DEF Init
<1>4. TurnOK /\ RestOK /\ claim \in ClaimType /\ active \in Nat
  BY AdmissionAssumption DEF Init, TurnOK, RestOK, ClaimType, NoTurn, Phase
<1>5. StateOK /\ ShapeInv
  BY <1>2, <1>3, <1>4 DEF StateOK, ShapeInv
<1>6. OwnerInv
  BY <1>1 DEF OwnerInv, OwnPC
<1>7. StartingInv
  BY DEF Init, StartingInv
<1>8. GuardsExact
  <2>1. ResSet = {} /\ OuterSet = {}
    BY <1>1 DEF ResSet, OuterSet
  <2>2. Cardinality(ResSet) = 0 /\ Cardinality(OuterSet) = 0
    BY <2>1, FS_EmptySet
  <2>3. SlotHeld(turn) = 0 /\ other = 0 /\ active = 0 /\ active <= MaxThreads
    BY AdmissionAssumption DEF Init, NoTurn, SlotHeld, Held
  <2> QED BY <2>2, <2>3, GuardsForm
<1> QED BY <1>5, <1>6, <1>7, <1>8 DEF IInv

\* Every step keeps the invariant.
LEMMA NextInv == IInv /\ [Next]_vars => IInv'
<1> SUFFICES ASSUME IInv, [Next]_vars PROVE IInv'
  OBVIOUS
<1>1. ASSUME NEW p \in Proc, Start(p) PROVE IInv'
  BY <1>1, WakeCheckInv, WakeClaimInv, WakeCommitInv, InstallInv DEF Start
<1>2. ASSUME NEW kind \in InputKind, Receive(kind) PROVE IInv'
  BY <1>2, ReceiveInv
<1>3. ASSUME NEW d \in Dispatch, HandleOp(d) PROVE IInv'
  BY <1>3, HandleOpInv
<1>4. CASE LoopStep
  BY <1>4, UserClaimInv, UserWaitInv, BeginInv, FailInv, AutoReserveInv, EmptyClaimInv, AutoCheckInv,
      ReplaceReserveInv, AbortTakeInv, AbortEndInv DEF LoopStep
<1>5. ASSUME NEW i \in Slot, Deliver(i) \/ TaskStep(i) PROVE IInv'
  BY <1>5, DeliverInv, TaskEndsInv, FinishTakeInv, FinishClearInv DEF TaskStep
<1>6. ASSUME NEW d \in Dispatch, WatchStep(d) PROVE IInv'
  BY <1>6, WatchStepInv
<1>7. CASE OtherStart \/ OtherEnd
  BY <1>7, OtherInv
<1>8. CASE UNCHANGED vars
  <2>1. RestOK' /\ active' = active /\ other' = other /\ UNCHANGED <<turn, claim, at>>
    BY <1>8, LoopRec DEF vars, RestOK
  <2>2. active \in Nat /\ active <= MaxThreads /\ other \in Nat
    BY LoopRec
  <2> QED BY <2>1, <2>2, StillInv
<1> QED BY <1>1, <1>2, <1>3, <1>4, <1>5, <1>6, <1>7, <1>8 DEF Next

\* The invariant holds in every reachable state.
LEMMA Invariant == Spec => []IInv
  BY InitInv, NextInv, PTL DEF Spec

\* What the invariant says of the types.
LEMMA InvTypeOK == IInv => TypeOK
<1> SUFFICES ASSUME IInv PROVE TypeOK
  OBVIOUS
<1>1. /\ TurnOK /\ RestOK /\ claim \in ClaimType /\ at \in [Proc -> Rec]
      /\ active \in Nat /\ active <= MaxThreads /\ MaxThreads \in Nat
  BY ProcRec, LoopRec
<1>2. DOMAIN at = Proc
  BY <1>1
<1>3. \A p \in Proc : at[p].id \in Slot \cup {NoSlot} /\ at[p].res \in BOOLEAN /\ at[p].outer \in BOOLEAN
  BY <1>1 DEF Rec
<1>4. active \in 0..MaxThreads
  BY <1>1
<1> QED BY <1>1, <1>2, <1>3, <1>4 DEF TypeOK, TurnOK, RestOK, ClaimType

\* A claim that is starting has one owner.
LEMMA InvOwner == IInv => ClaimHasOwner
<1> SUFFICES ASSUME IInv, NEW i \in Slot, claim[i] = "Starting" PROVE Cardinality(Owner(i)) = 1
  BY DEF ClaimHasOwner
<1>1. PICK p \in Proc : Owns(p, i)
  BY DEF IInv, StartingInv
<1>2. Owner(i) = {p}
  BY <1>1 DEF IInv, OwnerInv, Owns, Owner, OwnPC
<1> QED BY <1>2, FS_Singleton

\* The slot, the claims, the processes and the limiter keep their types; in
\* particular the limiter's counter never goes below zero or above its limit.
THEOREM TypeCorrect == Spec => []TypeOK
  BY Invariant, InvTypeOK, PTL

\* No AgentExecutionGuard is leaked and none is dropped twice, whatever the
\* interleaving of starts, interrupts, replacements, refusals and releases.
THEOREM GuardsAreExact == Spec => []GuardsExact
<1>1. IInv => GuardsExact
  BY DEF IInv
<1> QED BY <1>1, Invariant, PTL

\* A TasklessTurnClaim that somebody waits for has exactly one owner, who will
\* install a task or drop the claim.
THEOREM ClaimsHaveOwners == Spec => []ClaimHasOwner
  BY Invariant, InvOwner, PTL

-----------------------------------------------------------------------------
(* What holds when no input aborts a task.                                 *)

NoAborts == Inputs \cap {"interrupt", "replace"} = {}

\* The moves of one process that keep the task in the slot, and the slot with
\* a closing turn its task's.
LEMMA QuietMove ==
    ASSUME IInv, QuietInv, NEW p \in Proc, NEW r, at' = [at EXCEPT ![p] = r],
           p = Loop => r.pc \notin {"interrupt", "replace", "aborting", "start"},
           \/ /\ turn' = turn
              /\ p # Loop /\ r.pc \in {"run", "ended"} => at[p].pc \in {"run", "ended"}
              /\ at[p].pc = "closing" => turn.phase # "closing" \/ turn.id # at[p].id
           \/ /\ turn.phase # "task" /\ turn'.phase \notin {"task", "closing"}
              /\ p # Loop => r.pc \notin {"run", "ended"}
    PROVE  QuietInv'
<1>1. at \in [Proc -> Rec] /\ TurnOK /\ Loop \in Proc
  BY ProcRec, LoopRec
<1>2. at'[Loop].pc \notin {"interrupt", "replace", "aborting", "start"}
  BY <1>1 DEF QuietInv
<1>3. ASSUME NEW i \in Slot, at'[Task(i)].pc \in {"run", "ended"}
      PROVE  turn' = [id |-> i, phase |-> "task"]
  <2>1. Task(i) \in Proc /\ Task(i) # Loop
    BY ProcKinds
  <2>2. CASE turn' = turn /\ (p # Loop /\ r.pc \in {"run", "ended"} => at[p].pc \in {"run", "ended"})
    <3>1. at[Task(i)].pc \in {"run", "ended"}
      BY <1>1, <1>3, <2>1, <2>2
    <3> QED BY <2>2, <3>1 DEF QuietInv
  <2>3. CASE turn.phase # "task" /\ (p # Loop => r.pc \notin {"run", "ended"})
    <3>1. at[Task(i)].pc \in {"run", "ended"}
      BY <1>1, <1>3, <2>1, <2>3
    <3>2. turn = [id |-> i, phase |-> "task"]
      BY <3>1 DEF QuietInv
    <3> QED BY <2>3, <3>2
  <2> QED BY <2>2, <2>3
<1>4. ASSUME turn'.phase = "closing"
      PROVE  at'[Task(turn'.id)].pc = "closing" /\ at'[Task(turn'.id)].id = turn'.id
  <2>1. turn' = turn /\ (at[p].pc = "closing" => turn.phase # "closing" \/ turn.id # at[p].id)
    BY <1>4
  <2>2. turn.id \in Slot
    BY <1>1, <1>4, <2>1 DEF TurnOK
  <2>3. Task(turn.id) \in Proc /\ at[Task(turn.id)].pc = "closing" /\ at[Task(turn.id)].id = turn.id
    BY <1>4, <2>1, <2>2, ProcKinds DEF QuietInv
  <2>4. p # Task(turn.id)
    BY <1>4, <2>1, <2>3
  <2> QED BY <1>1, <2>1, <2>3, <2>4
<1> QED BY <1>2, <1>3, <1>4 DEF QuietInv

\* A start that gives up.
LEMMA GiveUpQuiet ==
    ASSUME IInv, QuietInv, NEW p \in Proc, at[p].pc # "closing", GiveUp(p), turn' = turn
    PROVE  QuietInv'
<1> DEFINE r == Back(p)
<1>1. at' = [at EXCEPT ![p] = r]
  BY DEF GiveUp, Goto
<1>2. r.pc \in {"idle", "off", "after"}
  BY DEF Back, Off
<1> HIDE DEF r
<1> QED BY <1>1, <1>2, QuietMove

\* A claim of the slot.
LEMMA ClaimQuiet ==
    ASSUME IInv, QuietInv, NEW p \in Proc, NEW r, at' = [at EXCEPT ![p] = r],
           NEW phase \in {"wake", "start"}, ClaimSlot(NewSlot, phase),
           r.pc \in {"commit", "install", "begin", "autocheck"}, turn.phase # "task"
    PROVE  QuietInv'
<1>1. turn'.phase = phase
  BY DEF ClaimSlot
<1> QED BY <1>1, QuietMove

\* The starts keep the task in the slot.
LEMMA StartQuiet ==
    ASSUME IInv, QuietInv, NEW p \in Proc, Start(p)
    PROVE  QuietInv'
<1>1. at[p] \in Rec /\ at \in [Proc -> Rec] /\ TurnOK
  BY ProcRec
<1>2. at[p].pc \in WakePC
  BY DEF Start, WakeCheck, WakeClaim, WakeCommit, Install, WakePC
<1>3. at[p].pc # "closing"
  BY <1>2 DEF WakePC
<1>4. CASE GiveUp(p) /\ turn' = turn
  BY <1>3, <1>4, GiveUpQuiet
<1>5. CASE WakeCheck(p) /\ ~(GiveUp(p) /\ turn' = turn)
  <2> DEFINE r == [at[p] EXCEPT !.pc = "claim"]
  <2>1. at' = [at EXCEPT ![p] = r] /\ turn' = turn
    BY <1>5 DEF WakeCheck, Goto
  <2>2. r.pc = "claim"
    BY <1>1 DEF Rec
  <2> HIDE DEF r
  <2> QED BY <1>3, <2>1, <2>2, QuietMove
<1>6. CASE WakeClaim(p) /\ ~(GiveUp(p) /\ turn' = turn)
  <2> DEFINE r == [at[p] EXCEPT !.pc = "commit", !.id = NewSlot]
  <2>1. at' = [at EXCEPT ![p] = r] /\ ClaimSlot(NewSlot, "wake") /\ turn.phase # "task"
    BY <1>6 DEF WakeClaim, Goto, Busy
  <2>2. r.pc = "commit"
    BY <1>1 DEF Rec
  <2> HIDE DEF r
  <2>3. r.pc \in {"commit", "install", "begin", "autocheck"} /\ "wake" \in {"wake", "start"}
    BY <2>2
  <2> QED BY <2>1, <2>3, ClaimQuiet
<1>7. CASE WakeCommit(p) /\ ~(GiveUp(p) /\ turn' = turn)
  <2> DEFINE r == [at[p] EXCEPT !.pc = "install", !.res = TRUE]
  <2>1. at' = [at EXCEPT ![p] = r] /\ turn.phase = "wake" /\ turn' = [turn EXCEPT !.phase = "start"]
    BY <1>7 DEF WakeCommit, Goto
  <2>2. r.pc = "install" /\ turn'.phase = "start"
    BY <1>1, <2>1 DEF Rec, TurnOK
  <2> HIDE DEF r
  <2> QED BY <2>1, <2>2, QuietMove
<1>8. CASE Install(p) /\ ~(GiveUp(p) /\ turn' = turn)
  <2> DEFINE i == at[p].id
             r == Back(p)
  <2>1. /\ turn = [id |-> i, phase |-> "start"] /\ turn' = [id |-> i, phase |-> "task"]
        /\ at' = [at EXCEPT ![p] = r, ![Task(i)] = Off("run")] /\ at[p].pc = "install"
    BY <1>8 DEF Install, SameClaim
  <2>2. i \in Slot
    BY <2>1, OwnerHasSlot DEF OwnPC
  <2>3. Task(i) \in Proc /\ Task(i) # Loop /\ Loop \in Proc
    BY <2>2, ProcKinds
  <2>4. r.pc \in {"idle", "off", "after"}
    BY DEF Back, Off
  <2> HIDE DEF i, r
  <2>5. at'[Loop].pc \notin {"interrupt", "replace", "aborting", "start"}
    BY <1>1, <2>1, <2>3, <2>4 DEF QuietInv
  <2>6. ASSUME NEW j \in Slot, at'[Task(j)].pc \in {"run", "ended"}
        PROVE  turn' = [id |-> j, phase |-> "task"]
    <3>1. Task(j) \in Proc
      BY ProcKinds
    <3>2. CASE Task(j) = Task(i)
      BY <2>1, <2>2, <3>2, ProcKinds
    <3>3. CASE Task(j) # Task(i)
      <4>1. at[Task(j)].pc \in {"run", "ended"}
        BY <1>1, <2>1, <2>4, <2>6, <3>1, <3>3
      <4>2. turn.phase = "task"
        BY <4>1 DEF QuietInv
      <4> QED BY <2>1, <4>2
    <3> QED BY <3>2, <3>3
  <2>7. turn'.phase # "closing"
    BY <2>1
  <2> QED BY <2>5, <2>6, <2>7 DEF QuietInv
<1> QED BY <1>4, <1>5, <1>6, <1>7, <1>8 DEF Start

\* The loop, which aborts nothing, keeps the task in the slot.
LEMMA LoopQuiet ==
    ASSUME IInv, QuietInv, LoopStep
    PROVE  QuietInv'
<1>1. at[Loop] \in Rec /\ at \in [Proc -> Rec] /\ TurnOK /\ Loop \in Proc /\ LoopShape(at[Loop])
  BY ProcRec, LoopRec
<1>2. at[Loop].pc \notin {"closing", "interrupt", "replace", "aborting", "start"}
  BY <1>1 DEF QuietInv, LoopShape, LoopPC, WakePC, LoopResPC, LoopIdPC, OwnPC, InputKind
<1>3. CASE GiveUp(Loop) /\ turn' = turn
  BY <1>1, <1>2, <1>3, GiveUpQuiet
<1>4. CASE UserClaim
  <2> DEFINE begin == [at[Loop] EXCEPT !.pc = "begin", !.id = NewSlot, !.res = TRUE]
             wait == [at[Loop] EXCEPT !.pc = "waitclaim", !.id = turn.id]
  <2>1. begin.pc = "begin" /\ wait.pc = "waitclaim" /\ Off("idle").pc = "idle"
    BY <1>1 DEF Rec, Off
  <2>2. \/ at' = [at EXCEPT ![Loop] = Off("idle")] /\ turn' = turn
        \/ /\ at' = [at EXCEPT ![Loop] = begin] /\ ClaimSlot(NewSlot, "start") /\ turn.phase # "task"
        \/ /\ at' = [at EXCEPT ![Loop] = Off("idle")] /\ turn' = NoTurn /\ turn.phase # "task"
        \/ at' = [at EXCEPT ![Loop] = wait] /\ turn' = turn
    BY <1>4 DEF UserClaim, Goto, Taskless
  <2> HIDE DEF begin, wait
  <2>3. NoTurn.phase = "none"
    BY DEF NoTurn
  <2>4. CASE turn' = NoTurn /\ at' = [at EXCEPT ![Loop] = Off("idle")] /\ turn.phase # "task"
    BY <1>1, <2>1, <2>3, <2>4, QuietMove
  <2>5. CASE at' = [at EXCEPT ![Loop] = begin] /\ ClaimSlot(NewSlot, "start") /\ turn.phase # "task"
    BY <1>1, <2>1, <2>5, ClaimQuiet
  <2>6. CASE at' = [at EXCEPT ![Loop] = Off("idle")] /\ turn' = turn
    BY <1>1, <1>2, <2>1, <2>6, QuietMove
  <2>7. CASE at' = [at EXCEPT ![Loop] = wait] /\ turn' = turn
    BY <1>1, <1>2, <2>1, <2>7, QuietMove
  <2> QED BY <2>2, <2>4, <2>5, <2>6, <2>7
<1>5. CASE UserWait
  <2>1. at' = [at EXCEPT ![Loop] = Off("user")] /\ turn' = turn /\ Off("user").pc = "user"
    BY <1>5 DEF UserWait, Goto, Off
  <2> QED BY <1>1, <1>2, <2>1, QuietMove
<1>6. CASE Begin
  <2> DEFINE ins == [at[Loop] EXCEPT !.pc = "install"]
             fail == [at[Loop] EXCEPT !.pc = "failed"]
  <2>1. ins.pc = "install" /\ fail.pc = "failed"
    BY <1>1 DEF Rec
  <2>2. \/ at' = [at EXCEPT ![Loop] = ins] /\ turn' = turn
        \/ at' = [at EXCEPT ![Loop] = fail] /\ turn' = Cleared(at[Loop].id)
    BY <1>6 DEF Begin, Goto
  <2> HIDE DEF ins, fail
  <2>3. \/ turn' = turn
        \/ turn.phase # "task" /\ turn'.phase = "none"
    BY <2>2 DEF Cleared, NoTurn
  <2>4. CASE turn' = turn
    BY <1>1, <1>2, <2>1, <2>2, <2>4, QuietMove
  <2>5. CASE turn.phase # "task" /\ turn'.phase = "none"
    BY <1>1, <2>1, <2>2, <2>5, QuietMove
  <2> QED BY <2>3, <2>4, <2>5
<1>7. CASE AutoReserve /\ ~(GiveUp(Loop) /\ turn' = turn)
  <2> DEFINE r == [at[Loop] EXCEPT !.pc = "autoclaim", !.res = TRUE]
  <2>1. at' = [at EXCEPT ![Loop] = r] /\ turn' = turn
    BY <1>7 DEF AutoReserve, Goto
  <2>2. r.pc = "autoclaim"
    BY <1>1 DEF Rec
  <2> HIDE DEF r
  <2> QED BY <1>1, <1>2, <2>1, <2>2, QuietMove
<1>8. CASE EmptyClaim /\ ~(GiveUp(Loop) /\ turn' = turn)
  <2> DEFINE pc == IF at[Loop].pc = "start" THEN "install" ELSE "autocheck"
             r == [at[Loop] EXCEPT !.id = NewSlot, !.pc = pc]
  <2>1. at' = [at EXCEPT ![Loop] = r] /\ ClaimSlot(NewSlot, "start") /\ turn.phase # "task"
    BY <1>8 DEF EmptyClaim, Goto, Busy
  <2>2. r.pc \in {"install", "autocheck"}
    BY <1>1 DEF Rec
  <2> HIDE DEF r
  <2>3. r.pc \in {"commit", "install", "begin", "autocheck"} /\ "start" \in {"wake", "start"}
    BY <2>2
  <2> QED BY <1>1, <2>1, <2>3, ClaimQuiet
<1>9. CASE AutoCheck
  <2> DEFINE beg == [at[Loop] EXCEPT !.pc = "begin"]
             chk == [Off("check") EXCEPT !.outer = TRUE]
  <2>1. beg.pc = "begin" /\ chk.pc = "check"
    BY <1>1 DEF Rec, Off
  <2>2. \/ at' = [at EXCEPT ![Loop] = beg] /\ turn' = turn
        \/ at' = [at EXCEPT ![Loop] = chk] /\ turn' = Cleared(at[Loop].id)
    BY <1>9 DEF AutoCheck, Goto
  <2> HIDE DEF beg, chk
  <2>3. \/ turn' = turn
        \/ turn.phase # "task" /\ turn'.phase = "none"
    BY <2>2 DEF Cleared, NoTurn
  <2>4. CASE turn' = turn
    BY <1>1, <1>2, <2>1, <2>2, <2>4, QuietMove
  <2>5. CASE turn.phase # "task" /\ turn'.phase = "none"
    BY <1>1, <2>1, <2>2, <2>5, QuietMove
  <2> QED BY <2>3, <2>4, <2>5
<1> QED BY <1>2, <1>3, <1>4, <1>5, <1>6, <1>7, <1>8, <1>9
        DEF LoopStep, Fail, ReplaceReserve, AbortTake, AbortEnd

\* A task leaves the slot when it finishes, and closes its own turn only.
LEMMA TaskQuiet ==
    ASSUME IInv, QuietInv, NEW i \in Slot, TaskStep(i)
    PROVE  QuietInv'
<1>1. /\ Task(i) \in Proc /\ Task(i) # Loop /\ Loop \in Proc /\ at \in [Proc -> Rec] /\ TurnOK
  BY ProcRec, ProcKinds
<1>2. CASE TaskEnds(i)
  <2> DEFINE r == Off(IF Cancelled(i) THEN "off" ELSE "ended")
  <2>1. at' = [at EXCEPT ![Task(i)] = r] /\ turn' = turn /\ at[Task(i)].pc = "run"
    BY <1>2 DEF TaskEnds, Goto
  <2> QED BY <1>1, <2>1, QuietMove
<1>3. CASE FinishTake(i)
  <2>1. turn = [id |-> i, phase |-> "task"] /\ at[Task(i)].pc = "ended"
    BY <1>3 DEF FinishTake, QuietInv
  <2> DEFINE r == [Off("closing") EXCEPT !.id = turn.id]
  <2>2. /\ at' = [at EXCEPT ![Task(i)] = r] /\ turn' = [turn EXCEPT !.phase = "closing"]
    BY <1>3, <2>1 DEF FinishTake, Goto
  <2>3. turn' = [id |-> i, phase |-> "closing"] /\ r.pc = "closing" /\ r.id = i
    BY <2>1, <2>2 DEF Off
  <2> HIDE DEF r
  <2>4. at'[Loop] = at[Loop] /\ at'[Task(i)] = r
    BY <1>1, <2>2
  <2>5. ASSUME NEW j \in Slot, at'[Task(j)].pc \in {"run", "ended"} PROVE FALSE
    <3>1. Task(j) # Task(i) /\ Task(j) \in Proc
      BY <2>3, <2>4, <2>5, ProcKinds
    <3>2. at[Task(j)].pc \in {"run", "ended"}
      BY <1>1, <2>2, <2>5, <3>1
    <3>3. turn.id = j
      BY <3>2 DEF QuietInv
    <3> QED BY <2>1, <3>1, <3>3
  <2> QED BY <2>3, <2>4, <2>5 DEF QuietInv
<1>4. CASE FinishClear(i)
  <2> DEFINE r == Off(IF StillMine(i) THEN "check" ELSE "off")
  <2>1. /\ at' = [at EXCEPT ![Task(i)] = r] /\ turn' = ClearTurn(i) /\ at[Task(i)].pc = "closing"
    BY <1>4 DEF FinishClear, Goto
  <2>2. r.pc \in {"check", "off"}
    BY DEF Off
  <2> HIDE DEF r
  <2>3. CASE StillMine(i)
    <3>1. turn.phase = "closing"
      BY <2>3 DEF StillMine
    <3>2. turn'.phase = "none"
      BY <2>1, <2>3 DEF ClearTurn, NoTurn
    <3> QED BY <1>1, <2>1, <2>2, <3>1, <3>2, QuietMove
  <2>4. CASE ~StillMine(i)
    <3>1. turn' = turn
      BY <2>1, <2>4 DEF ClearTurn
    <3>2. turn.phase # "closing" \/ turn.id # at[Task(i)].id
      BY <1>1, <2>4 DEF StillMine, TurnOK
    <3> QED BY <1>1, <2>1, <2>2, <3>1, <3>2, QuietMove
  <2> QED BY <2>3, <2>4
<1> QED BY <1>2, <1>3, <1>4 DEF TaskStep

\* Every step keeps the task in the slot when no input aborts it.
LEMMA QuietNext ==
    ASSUME NoAborts, IInv, QuietInv, [Next]_vars
    PROVE  QuietInv'
<1>1. ASSUME NEW kind \in InputKind, Receive(kind) PROVE QuietInv'
  <2>1. /\ at' = [at EXCEPT ![Loop] = Off(kind)] /\ turn' = turn /\ at[Loop].pc = "idle"
        /\ kind \notin {"interrupt", "replace"}
    BY <1>1 DEF Receive, Goto, NoAborts
  <2>2. Off(kind).pc = kind
    BY DEF Off
  <2> QED BY <2>1, <2>2, QuietMove, LoopRec DEF InputKind
<1>2. ASSUME NEW d \in Dispatch, HandleOp(d) PROVE QuietInv'
  <2>1. /\ at' = [at EXCEPT ![Loop] = Off("check")] /\ turn' = turn /\ at[Loop].pc = "idle"
        /\ Off("check").pc = "check"
    BY <1>2 DEF HandleOp, Goto, Off
  <2> QED BY <2>1, QuietMove, LoopRec
<1>3. ASSUME NEW d \in Dispatch, WatchStep(d) PROVE QuietInv'
  <2> DEFINE k == Watcher(d)
  <2>1. PICK pc \in {"slot", "capacity", "lease", "armed", "after", "done", "check"} :
           at' = [at EXCEPT ![k] = Off(pc)]
    BY <1>3 DEF WatchStep, Subscribe, SendCheck, SendRefused, Retain, SeeRelease, Rearm, Goto
  <2>2. at[k].pc # "closing" /\ turn' = turn
    BY <1>3 DEF WatchStep, Subscribe, SendCheck, SendRefused, Retain, SeeRelease, Rearm
  <2>3. k \in Proc /\ k # Loop /\ Off(pc).pc = pc
    BY ProcKinds DEF Off
  <2> HIDE DEF k
  <2> QED BY <2>1, <2>2, <2>3, QuietMove
<1>4. ASSUME UNCHANGED <<turn, at>> PROVE QuietInv'
  BY <1>4 DEF QuietInv
<1>5. (\E i \in Slot : Deliver(i)) \/ OtherStart \/ OtherEnd \/ UNCHANGED vars => UNCHANGED <<turn, at>>
  BY DEF Deliver, OtherStart, OtherEnd, vars
<1> QED BY <1>1, <1>2, <1>3, <1>4, <1>5, StartQuiet, LoopQuiet, TaskQuiet DEF Next

\* The task of the slot is the only one that runs.
LEMMA QuietInvariant == NoAborts => (Spec => []QuietInv)
<1> SUFFICES ASSUME NoAborts PROVE Spec => []QuietInv
  OBVIOUS
<1>1. Init => QuietInv
  <2> SUFFICES ASSUME Init PROVE QuietInv
    OBVIOUS
  <2>1. at[Loop] = Off("idle") /\ \A i \in Slot : at[Task(i)] = Off("off")
    BY ProcKinds DEF Init
  <2>2. Off("idle").pc = "idle" /\ Off("off").pc = "off" /\ turn.phase = "none"
    BY DEF Off, Init, NoTurn
  <2> QED BY <2>1, <2>2 DEF QuietInv
<1>2. IInv /\ QuietInv /\ [Next]_vars => QuietInv'
  BY QuietNext
<1> QED BY <1>1, <1>2, Invariant, PTL DEF Spec

\* Where no input aborts a task, a session runs at most one task, and it is the
\* one in the slot, whatever wakes, leases, user and idle-only inputs compete
\* for the slot and whatever batches are refused.
THEOREM OneTask == NoAborts => (Spec => []SingleTask)
<1>1. QuietInv => SingleTask
  BY DEF QuietInv, SingleTask
<1> QED BY <1>1, QuietInvariant, PTL

\* A start that gives up on a turn that is not in the slot.
LEMMA GiveUpHeld ==
    ASSUME IInv, HeldInv, NEW p \in Proc, GiveUp(p), turn' = turn, Taskless => turn.id # at[p].id
    PROVE  HeldInv'
<1> SUFFICES ASSUME Taskless' PROVE claim'[turn'.id] = "Starting"
  BY DEF HeldInv
<1>1. Taskless /\ claim[turn.id] = "Starting" /\ turn.id # at[p].id
  BY DEF Taskless, HeldInv
<1>2. claim \in ClaimType
  BY ProcRec
<1>3. claim' = claim \/ claim' = DropClaim(at[p].id)
  BY DEF GiveUp
<1>4. DropClaim(at[p].id)[turn.id] = claim[turn.id]
  BY <1>1, <1>2 DEF DropClaim, ClaimType
<1> QED BY <1>1, <1>3, <1>4

\* A new turn in the slot comes with its claim.
LEMMA ClaimHeld ==
    ASSUME IInv, NEW phase, ClaimSlot(NewSlot, phase)
    PROVE  HeldInv'
<1>1. NewSlot \in Slot /\ claim \in ClaimType
  BY NewSlotIsFree, ProcRec DEF ClaimSlot, FreeSlot
<1>2. turn'.id = NewSlot /\ claim' = [claim EXCEPT ![NewSlot] = "Starting"]
  BY DEF ClaimSlot
<1> QED BY <1>1, <1>2 DEF HeldInv, ClaimType

\* Without refusals and aborts every step leaves the claim of the slot's turn
\* with its owner.
LEMMA HeldNext ==
    ASSUME ~MayRefuse, IInv, QuietInv, HeldInv, [Next]_vars
    PROVE  HeldInv'
<1>1. /\ at \in [Proc -> Rec] /\ TurnOK /\ claim \in ClaimType /\ Loop \in Proc
      /\ \A p \in Proc : at[p] \in Rec /\ Shape(p, at[p])
  BY ProcRec, LoopRec
<1>2. ASSUME UNCHANGED <<turn, claim>> PROVE HeldInv'
  BY <1>2 DEF HeldInv, Taskless
<1>3. ASSUME ~Taskless' PROVE HeldInv'
  BY <1>3 DEF HeldInv
<1>4. ASSUME NEW p \in Proc, at[p].pc \in WakePC \cup {"autoclaim", "auto", "replace"},
             at[p].pc \notin OwnPC, GiveUp(p), turn' = turn
      PROVE  HeldInv'
  <2>1. at[p].id = NoSlot
    BY <1>1, <1>4, ProcKinds DEF Shape, LoopShape, TaskShape, WatchShape, WakePC, OwnPC, LoopIdPC, Rec
  <2>2. Taskless => turn.id # NoSlot
    BY <1>1 DEF Taskless, TurnOK
  <2> QED BY <1>4, <2>1, <2>2, GiveUpHeld
<1>5. ASSUME NEW p \in Proc, Start(p) PROVE HeldInv'
  <2>1. CASE WakeCheck(p)
    <3>1. at[p].pc = "check" /\ turn' = turn /\ (GiveUp(p) \/ claim' = claim)
      BY <2>1 DEF WakeCheck
    <3> QED BY <1>2, <1>4, <3>1 DEF WakePC, OwnPC
  <2>2. CASE WakeClaim(p)
    <3>1. at[p].pc = "claim" /\ ((GiveUp(p) /\ turn' = turn) \/ ClaimSlot(NewSlot, "wake"))
      BY <2>2 DEF WakeClaim
    <3> QED BY <1>4, <3>1, ClaimHeld DEF WakePC, OwnPC
  <2>3. CASE WakeCommit(p)
    <3>1. at[p].pc = "commit" /\ at[p].pc \in OwnPC
      BY <2>3 DEF WakeCommit, OwnPC
    <3>2. Fits(turn, at[p])
      BY <3>1 DEF IInv, OwnerInv
    <3>3. CASE turn # [id |-> at[p].id, phase |-> "wake"] /\ GiveUp(p) /\ turn' = turn
      <4>1. turn.id # at[p].id
        BY <1>1, <3>1, <3>2, <3>3 DEF Fits, TurnOK
      <4> QED BY <3>3, <4>1, GiveUpHeld
    <3>4. CASE /\ turn = [id |-> at[p].id, phase |-> "wake"] /\ turn' = [turn EXCEPT !.phase = "start"]
               /\ claim' = claim
      <4>1. turn'.id = turn.id /\ claim[turn.id] = "Starting"
        BY <3>4 DEF HeldInv, Taskless
      <4> QED BY <3>4, <4>1 DEF HeldInv
    <3> QED BY <2>3, <3>3, <3>4 DEF WakeCommit
  <2>4. CASE Install(p)
    <3>1. at[p].pc = "install" /\ at[p].pc \in OwnPC
      BY <2>4 DEF Install, OwnPC
    <3>2. Fits(turn, at[p])
      BY <3>1 DEF IInv, OwnerInv
    <3>3. CASE ~SameClaim(p) /\ GiveUp(p) /\ turn' = turn
      <4>1. turn.id # at[p].id
        BY <1>1, <3>1, <3>2, <3>3 DEF Fits, TurnOK, SameClaim
      <4> QED BY <3>3, <4>1, GiveUpHeld
    <3>4. CASE turn' = [id |-> at[p].id, phase |-> "task"]
      BY <1>3, <3>4 DEF Taskless
    <3> QED BY <2>4, <3>3, <3>4 DEF Install
  <2> QED BY <1>5, <2>1, <2>2, <2>3, <2>4 DEF Start
<1>6. CASE UserClaim
  <2>1. \/ UNCHANGED <<turn, claim>>
        \/ ClaimSlot(NewSlot, "start")
        \/ turn' = NoTurn
    BY <1>6 DEF UserClaim
  <2>2. turn' = NoTurn => ~Taskless'
    BY DEF NoTurn, Taskless
  <2> QED BY <1>2, <1>3, <2>1, <2>2, ClaimHeld
<1>7. CASE Begin \/ AutoCheck
  <2>1. /\ at[Loop].pc \in {"begin", "autocheck"}
        /\ \/ UNCHANGED <<turn, claim>>
           \/ /\ turn' = Cleared(at[Loop].id)
              /\ claim' \in {claim, DropClaim(at[Loop].id)}
    BY <1>7 DEF Begin, AutoCheck
  <2>2. CASE UNCHANGED <<turn, claim>>
    BY <1>2, <2>2
  <2>3. CASE turn' = Cleared(at[Loop].id) /\ claim' \in {claim, DropClaim(at[Loop].id)}
    <3>1. (turn' = turn \/ turn' = NoTurn) /\ turn'.id # at[Loop].id
      BY <2>1, <2>3, ClearedFacts
    <3>2. CASE turn' = NoTurn
      BY <1>3, <3>2 DEF NoTurn, Taskless
    <3>3. CASE turn' = turn
      <4> SUFFICES ASSUME Taskless' PROVE claim'[turn'.id] = "Starting"
        BY DEF HeldInv
      <4>1. claim[turn.id] = "Starting"
        BY <3>3 DEF Taskless, HeldInv
      <4>2. DropClaim(at[Loop].id)[turn.id] = claim[turn.id]
        BY <1>1, <3>1, <3>3 DEF DropClaim, ClaimType
      <4> QED BY <2>3, <3>3, <4>1, <4>2
    <3> QED BY <3>1, <3>2, <3>3
  <2> QED BY <2>1, <2>2, <2>3
<1>8. CASE Fail
  <2>1. at[Loop].pc = "failed" /\ at[Loop].pc \in OwnPC /\ GiveUp(Loop) /\ turn' = turn
    BY <1>8 DEF Fail, OwnPC
  <2>2. turn.id # at[Loop].id
    BY <1>1, <2>1 DEF IInv, OwnerInv, Fits
  <2> QED BY <1>1, <2>1, <2>2, GiveUpHeld
<1>9. CASE AutoReserve
  <2>1. at[Loop].pc = "auto" /\ turn' = turn /\ (GiveUp(Loop) \/ claim' = claim)
    BY <1>9 DEF AutoReserve
  <2> QED BY <1>1, <1>2, <1>4, <2>1 DEF OwnPC
<1>10. CASE EmptyClaim
  <2>1. /\ at[Loop].pc = "autoclaim"
        /\ (GiveUp(Loop) /\ turn' = turn) \/ ClaimSlot(NewSlot, "start")
    BY <1>10 DEF EmptyClaim, QuietInv
  <2> QED BY <1>1, <1>4, <2>1, ClaimHeld DEF OwnPC
<1>11. CASE LoopStep
  <2>1. ~ReplaceReserve /\ ~AbortTake /\ ~AbortEnd
    BY DEF ReplaceReserve, AbortTake, AbortEnd, QuietInv
  <2>2. UserWait => UNCHANGED <<turn, claim>>
    BY DEF UserWait
  <2> QED BY <1>2, <1>6, <1>7, <1>8, <1>9, <1>10, <1>11, <2>1, <2>2 DEF LoopStep
<1>12. ASSUME NEW i \in Slot, FinishTake(i) \/ FinishClear(i) PROVE HeldInv'
  <2>1. claim' = claim /\ (turn' = turn \/ ~Taskless')
    <3>1. claim' = claim /\ (turn' = turn \/ turn' = [turn EXCEPT !.phase = "closing"] \/ turn' = NoTurn)
      BY <1>12 DEF FinishTake, FinishClear, ClearTurn
    <3>2. turn' = [turn EXCEPT !.phase = "closing"] => turn'.phase = "closing"
      BY <1>1 DEF TurnOK
    <3>3. NoTurn.phase = "none"
      BY DEF NoTurn
    <3> QED BY <3>1, <3>2, <3>3 DEF Taskless
  <2> QED BY <1>2, <1>3, <2>1
<1>13. \/ \E kind \in InputKind : Receive(kind)
       \/ \E d \in Dispatch : HandleOp(d) \/ WatchStep(d)
       \/ \E i \in Slot : Deliver(i) \/ TaskEnds(i)
       \/ OtherStart \/ OtherEnd \/ UNCHANGED vars
       => UNCHANGED <<turn, claim>>
  BY DEF Receive, HandleOp, WatchStep, Subscribe, SendCheck, SendRefused, Retain, SeeRelease, Rearm,
         Deliver, TaskEnds, OtherStart, OtherEnd, vars
<1> QED BY <1>2, <1>5, <1>11, <1>12, <1>13 DEF Next, TaskStep

\* Where no input aborts a task and no batch is refused, a turn without a task
\* is never left alone in the slot: its starter still holds the claim, or its
\* task is about to clear it.  Each hypothesis is needed: an interrupt, or a refused
\* batch, can leave a turn that blocks every later wake.
THEOREM TurnsAreOwned == NoAborts /\ ~MayRefuse => (Spec => []TasklessTurnIsOwned)
<1> SUFFICES ASSUME NoAborts, ~MayRefuse PROVE Spec => []TasklessTurnIsOwned
  OBVIOUS
<1>1. Init => HeldInv
  BY DEF Init, HeldInv, Taskless, NoTurn
<1>2. IInv /\ QuietInv /\ HeldInv /\ [Next]_vars => HeldInv'
  BY HeldNext
<1>3. IInv /\ QuietInv /\ HeldInv => TasklessTurnIsOwned
  <2> SUFFICES ASSUME IInv, QuietInv, HeldInv PROVE TasklessTurnIsOwned
    OBVIOUS
  <2>1. TurnOK
    BY ProcRec
  <2>2. turn.phase = "closing" => turn.id \in Slot
    BY <2>1 DEF TurnOK
  <2> QED BY <2>2 DEF TasklessTurnIsOwned, QuietInv, HeldInv
<1>4. Spec => []QuietInv
  BY QuietInvariant
<1> QED BY <1>1, <1>2, <1>3, <1>4, Invariant, PTL DEF Spec
=============================================================================
