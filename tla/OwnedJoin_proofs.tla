-------------------------- MODULE OwnedJoin_proofs --------------------------
(***************************************************************************)
(* Theorems about OwnedJoin, for any tree of threads and any bounds.       *)
(***************************************************************************)
EXTENDS OwnedJoin, FiniteSetTheorems, TLAPS

-----------------------------------------------------------------------------
(* The inductive invariant.                                                *)

\* A turn is recorded at most once: the running turn and the turns whose task
\* was taken have no terminal yet, later turns do not exist.
SlotInv ==
    \A t \in Thread :
        /\ slot[t] = "running" => /\ ended[t][cur[t]] = "none"
                                  /\ \A d \in dying[t] : d.turn # cur[t]
        /\ \A d \in dying[t] : d.turn <= cur[t] /\ ended[t][d.turn] = "none"
        /\ \A d, e \in dying[t] : d.turn = e.turn => d = e
        /\ \A k \in Turn : /\ k > cur[t] => ended[t][k] = "none"
                           /\ ended[t][k] # "Shutdown"

\* A lease holds the terminal of its successor turn.
LeaseInv ==
    \A t \in Thread : \A l \in lease[t] :
        l.terminal # "none" => ended[t][l.succ] = l.terminal

\* A live obligation has an owning turn.
OwnerInv == \A p \in Thread, g \in Gen : obl[p][g].st = "live" => obl[p][g].parent_turn \in Turn

\* Only a bound target has a result.
BoundInv ==
    \A p \in Thread, g \in Gen, c \in Thread :
        obl[p][g].results[c] # "none" => obl[p][g].targets[c] \in Turn

\* Status s is what turn k of thread c ended with, or c's shutdown.
Exact(c, k, s) ==
    /\ s \in {"Completed", "Errored"} => ended[c][k] = s
    /\ s = "Shutdown" => ~alive[c]

\* What an observer of c carries from step to step is exact for the turn it
\* observes, or for the successor it is about to bind.
ObserverExact(c, o) ==
    /\ o.pc \notin {"off", "done"} => o.turn \in Turn
    /\ o.pc \in {"mark", "send", "sent"} => o.owner \in Turn
    /\ o.pc \in {"live", "rebind"} => o.succ \in Turn /\ Exact(c, o.succ, o.status)
    /\ o.pc \in {"snap", "retain", "resolve", "mark", "send", "sent", "owner", "finish", "retire"}
         => Exact(c, o.turn, o.status)
    /\ o.pc = "retire" => ~alive[c]

ObserverInv == \A c \in Thread, g \in Gen, n \in ObsId : ObserverExact(c, obs[c][g][n])

IInv ==
    /\ TypeOK
    /\ SlotInv
    /\ LeaseInv
    /\ OwnerInv
    /\ BoundInv
    /\ ObserverInv
    /\ ExactTerminal

-----------------------------------------------------------------------------
(* Lemmas about the operators on obligations.                              *)

USE DEF None

\* An obligation o2 that keeps o's targets and holds no new result.
Lowers(o, o2) ==
    /\ o2 \in Obligation
    /\ o2.targets = o.targets
    /\ \A c \in Thread : o2.results[c] \in {o.results[c], "none"}
    /\ o.st = "live" /\ o.parent_turn \in Turn /\ o2.st = "live" => o2.parent_turn \in Turn
    /\ o2.st = "live" => o.st = "live"

\* No obligation is registered yet.
LEMMA NoObligationType == NoObligation \in Obligation
  BY BoundAssumption DEF NoObligation, Obligation, Status

\* acknowledge_ready_join_delivery_locked adds no result to an obligation.
LEMMA AcknowledgeLowers ==
    ASSUME NEW o \in Obligation, NEW pred, NEW succ \in Turn
    PROVE  Lowers(o, Acknowledge(o, pred, succ))
  <1>1. CASE o.retained_pred = pred
    <2> DEFINE res == [c \in Thread |-> IF c \in o.retained_targets THEN "none" ELSE o.results[c]]
    <2>0. res \in [Thread -> Status]
      BY DEF Obligation, Status
    <2>1. Released(o) \in Obligation
      <3>1. Released(o) = [o EXCEPT !.results = res, !.ready = FALSE, !.trigger_sent = FALSE,
                                    !.dispatch_complete = FALSE, !.retained_pred = 0]
        BY DEF Released
      <3>2. 0 \in 0..MaxTurn
        BY BoundAssumption
      <3> HIDE DEF res
      <3> QED  BY <2>0, <3>1, <3>2 DEF Obligation
    <2>2. Acknowledge(o, pred, succ) = [Released(o) EXCEPT !.parent_turn = succ]
      BY <1>1 DEF Acknowledge
    <2>3. Acknowledge(o, pred, succ) \in Obligation
      BY <2>1, <2>2, BoundAssumption DEF Obligation, Turn
    <2>4. /\ Acknowledge(o, pred, succ).targets = o.targets
          /\ Acknowledge(o, pred, succ).results =
               [c \in Thread |-> IF c \in o.retained_targets THEN "none" ELSE o.results[c]]
          /\ Acknowledge(o, pred, succ).st = o.st
          /\ Acknowledge(o, pred, succ).parent_turn = succ
      BY <2>2 DEF Released, Obligation
    <2> QED  BY <2>3, <2>4 DEF Lowers
  <1>2. CASE o.retained_pred # pred
    BY <1>2 DEF Acknowledge, Obligation, Lowers
  <1> QED  BY <1>1, <1>2

\* finish_join_dispatch touches neither targets nor results.
LEMMA DispatchedLowers ==
    ASSUME NEW o \in Obligation
    PROVE  Lowers(o, Dispatched(o))
  BY DEF Dispatched, Obligation, Lowers

\* The retirement of a generation touches neither targets nor results.
LEMMA RetiredLowers ==
    ASSUME NEW o \in Obligation
    PROVE  Lowers(o, [o EXCEPT !.st = "retired"])
  BY DEF Obligation, Lowers

\* retire_join_target_successor_retention touches neither targets nor results.
LEMMA UnretainedLowers ==
    ASSUME NEW o \in Obligation, NEW c \in Thread
    PROVE  Lowers(o, Unretained(o, c))
  BY DEF Unretained, Obligation, Lowers

\* An obligation that is not touched.
LEMMA SameLowers ==
    ASSUME NEW o \in Obligation
    PROVE  Lowers(o, o)
  BY DEF Obligation, Lowers

\* resolve_join_target_inner records status for target c and nothing else.
LEMMA ResolveType ==
    ASSUME NEW o \in Obligation, NEW c \in Thread, NEW status \in Status,
           NEW retain \in BOOLEAN
    PROVE  /\ Resolve(o, c, status, retain) \in Obligation
           /\ Resolve(o, c, status, retain).targets = o.targets
           /\ Resolve(o, c, status, retain).st = o.st
           /\ Resolve(o, c, status, retain).parent_turn = o.parent_turn
           /\ \A d \in Thread : Resolve(o, c, status, retain).results[d] \in
                 {o.results[d]} \cup (IF d = c THEN {status} ELSE {})
  <1> DEFINE keep == IF retain THEN o.retained_targets \cup {c} ELSE o.retained_targets
             res == IF o.results[c] = "none" THEN [o.results EXCEPT ![c] = status] ELSE o.results
             complete == AllResolved(o, res) /\ ~(keep # {} /\ o.retained_pred # None)
             rp == IF complete /\ ~o.trigger_sent /\ o.trigger_turn /\ keep # {}
                   THEN o.parent_turn ELSE o.retained_pred
             r == Resolve(o, c, status, retain)
  <1>1. /\ keep \in SUBSET Thread
        /\ res \in [Thread -> Status]
        /\ rp \in 0..MaxTurn
    BY DEF Obligation
  <1>2. complete \in BOOLEAN
    BY DEF AllResolved
  <1>3. r = [o EXCEPT !.results = res, !.retained_targets = keep,
                      !.ready = @ \/ complete, !.trigger_sent = @ \/ complete,
                      !.retained_pred = rp]
    BY DEF Resolve, Obligation
  <1>4. /\ (o.ready \/ complete) \in BOOLEAN
        /\ (o.trigger_sent \/ complete) \in BOOLEAN
    BY <1>2 DEF Obligation
  <1> HIDE DEF keep, res, complete, rp
  <1>5. r \in Obligation
    BY <1>1, <1>3, <1>4 DEF Obligation
  <1>6. r.targets = o.targets /\ r.st = o.st /\ r.parent_turn = o.parent_turn /\ r.results = res
    BY <1>3 DEF Obligation
  <1>7. \A d \in Thread : res[d] \in {o.results[d]} \cup (IF d = c THEN {status} ELSE {})
    BY DEF res, Obligation
  <1> QED  BY <1>5, <1>6, <1>7


-----------------------------------------------------------------------------
(* What one step leaves alone.                                             *)

\* A recorded terminal is never recorded again, a shutdown is final.
Persists ==
    \A t \in Thread : /\ alive'[t] => alive[t]
                      /\ \A k \in Turn : ended[t][k] # "none" => ended'[t][k] = ended[t][k]

Obligations == [Thread -> [Gen -> Obligation]]
Observers == [Thread -> [Gen -> [ObsId -> Observer]]]

\* A status that is exact for a turn stays exact.
LEMMA ExactPersists ==
    ASSUME Persists, NEW c \in Thread, NEW k \in Turn, NEW s, Exact(c, k, s)
    PROVE  Exact(c, k, s)'
  BY DEF Persists, Exact

\* What an observer carries stays exact while others take their steps.
LEMMA ObserverPersists ==
    ASSUME Persists, NEW c \in Thread, NEW o \in Observer, ObserverExact(c, o)
    PROVE  ObserverExact(c, o)'
  BY DEF Persists, ObserverExact, Exact, Observer

\* A step of one observer keeps the invariant when its new state is exact.
LEMMA GotoKeeps ==
    ASSUME TypeOK, ObserverInv, Persists,
           NEW c \in Thread, NEW g \in Gen, NEW n \in ObsId,
           NEW o \in Observer, ObserverExact(c, o)', Goto(c, g, n, o)
    PROVE  obs' \in Observers /\ ObserverInv'
  <1>1. obs \in Observers
    BY DEF TypeOK, Observers
  <1>2. obs' = [obs EXCEPT ![c][g][n] = o]
    BY DEF Goto
  <1>3. obs' \in Observers
    BY <1>1, <1>2 DEF Observers
  <1>4. ASSUME NEW d \in Thread, NEW h \in Gen, NEW m \in ObsId
        PROVE  ObserverExact(d, obs[d][h][m])'
    <2>1. CASE d = c /\ h = g /\ m = n
      <3>1. obs'[d][h][m] = o
        BY <1>1, <1>2, <2>1 DEF Observers
      <3> QED  BY <2>1, <3>1 DEF ObserverExact, Exact
    <2>2. CASE ~(d = c /\ h = g /\ m = n)
      <3>1. obs'[d][h][m] = obs[d][h][m] /\ obs[d][h][m] \in Observer
        BY <1>1, <1>2, <2>2 DEF Observers
      <3>2. ObserverExact(d, obs[d][h][m])
        BY DEF ObserverInv
      <3> QED  BY <3>1, <3>2 DEF Persists, ObserverExact, Exact, Observer
    <2> QED  BY <2>1, <2>2
  <1> QED  BY <1>3, <1>4 DEF ObserverInv

\* Observers that take no step.
LEMMA ObserversKeep ==
    ASSUME TypeOK, ObserverInv, Persists, UNCHANGED obs
    PROVE  ObserverInv'
  <1>1. ASSUME NEW d \in Thread, NEW h \in Gen, NEW m \in ObsId
        PROVE  ObserverExact(d, obs[d][h][m])'
    <2>1. obs'[d][h][m] = obs[d][h][m] /\ obs[d][h][m] \in Observer
      BY DEF TypeOK
    <2>2. ObserverExact(d, obs[d][h][m])
      BY DEF ObserverInv
    <2> QED  BY <2>1, <2>2 DEF Persists, ObserverExact, Exact, Observer
  <1> QED  BY <1>1 DEF ObserverInv

\* A finished observer carries nothing.
LEMMA ExitKeeps ==
    ASSUME TypeOK, ObserverInv, Persists,
           NEW c \in Thread, NEW g \in Gen, NEW n \in ObsId, Exit(c, g, n)
    PROVE  obs' \in Observers /\ ObserverInv'
  <1> DEFINE o == [NoObserver EXCEPT !.pc = "done"]
  <1>0. 0 \in 0..MaxTurn /\ 0 \in 0..MaxGen
    BY BoundAssumption
  <1>1. o \in Observer
    BY <1>0 DEF NoObserver, Observer, Status
  <1>2. ObserverExact(c, o)'
    BY DEF NoObserver, ObserverExact
  <1>3. Goto(c, g, n, o)
    BY DEF Exit
  <1> HIDE DEF o
  <1> QED  BY <1>1, <1>2, <1>3, GotoKeeps

\* A store in which no obligation gains a result keeps the invariants.
LEMMA LowersKeeps ==
    ASSUME TypeOK, OwnerInv, BoundInv, ExactTerminal, Persists,
           obl' \in Obligations,
           \A p \in Thread, g \in Gen : Lowers(obl[p][g], obl'[p][g])
    PROVE  OwnerInv' /\ BoundInv' /\ ExactTerminal'
  <1>1. OwnerInv'
    BY DEF OwnerInv, Lowers
  <1>2. BoundInv'
    BY DEF BoundInv, Lowers
  <1>3. ASSUME NEW p \in Thread, NEW g \in Gen, NEW c \in Thread
        PROVE  Exact(c, obl[p][g].targets[c], obl[p][g].results[c])'
    <2>1. obl'[p][g].results[c] = "none" \/ obl'[p][g].results[c] = obl[p][g].results[c]
      BY DEF Lowers
    <2>2. obl'[p][g].targets = obl[p][g].targets
      BY DEF Lowers
    <2>3. Exact(c, obl[p][g].targets[c], obl[p][g].results[c])
      BY DEF ExactTerminal, Exact
    <2>4. obl[p][g].results[c] # "none" => obl[p][g].targets[c] \in Turn
      BY DEF BoundInv
    <2> QED  BY <2>1, <2>2, <2>3, <2>4 DEF Persists, Exact
  <1>4. ExactTerminal'
    BY <1>3 DEF ExactTerminal, Exact
  <1> QED  BY <1>1, <1>2, <1>4

\* The store is not touched.
LEMMA StoreKeeps ==
    ASSUME TypeOK, OwnerInv, BoundInv, ExactTerminal, Persists, UNCHANGED obl
    PROVE  OwnerInv' /\ BoundInv' /\ ExactTerminal'
  <1>1. obl' \in Obligations
    BY DEF TypeOK, Obligations
  <1>2. ASSUME NEW p \in Thread, NEW g \in Gen
        PROVE  Lowers(obl[p][g], obl'[p][g])
    BY SameLowers DEF TypeOK
  <1> QED  BY <1>1, <1>2, LowersKeeps

\* One obligation is lowered.
LEMMA OneLowered ==
    ASSUME TypeOK, NEW p \in Thread, NEW g \in Gen, NEW o, Lowers(obl[p][g], o),
           obl' = [obl EXCEPT ![p][g] = o]
    PROVE  /\ obl' \in Obligations
           /\ \A q \in Thread, h \in Gen : Lowers(obl[q][h], obl'[q][h])
  <1>1. obl \in Obligations /\ o \in Obligation
    BY DEF TypeOK, Obligations, Lowers
  <1>2. obl' \in Obligations
    BY <1>1 DEF Obligations
  <1>3. ASSUME NEW q \in Thread, NEW h \in Gen
        PROVE  Lowers(obl[q][h], obl'[q][h])
    <2>1. CASE q = p /\ h = g
      <3>1. obl'[q][h] = o
        BY <1>1, <2>1 DEF Obligations
      <3> QED  BY <2>1, <3>1
    <2>2. CASE ~(q = p /\ h = g)
      <3>1. obl'[q][h] = obl[q][h] /\ obl[q][h] \in Obligation
        BY <1>1, <2>2 DEF Obligations
      <3> QED  BY <3>1, SameLowers
    <2> QED  BY <2>1, <2>2
  <1> QED  BY <1>2, <1>3

\* Steps that touch no turn.
LEMMA TurnsKeep ==
    ASSUME SlotInv, UNCHANGED turnVars
    PROVE  Persists /\ SlotInv'
  BY DEF SlotInv, turnVars, Persists

\* Leases may go, and new ones carry no terminal yet.
LEMMA LeasesKeep ==
    ASSUME TypeOK, LeaseInv, Persists,
           \A t \in Thread : \A l \in lease'[t] : l \in lease[t] \/ l.terminal = "none"
    PROVE  LeaseInv'
  BY DEF TypeOK, LeaseInv, Persists, Lease

-----------------------------------------------------------------------------
(* The initial states.                                                     *)

\* Every thread runs its first turn and nothing is registered.
LEMMA InitInv ==
    ASSUME Init
    PROVE  IInv
  <1>0. 0 \in 0..MaxTurn /\ 0 \in 0..MaxGen /\ 1 \in Turn
    BY BoundAssumption DEF Turn
  <1>1. NoObserver \in Observer
    BY <1>0 DEF NoObserver, Observer, Status
  <1>2. TypeOK
    BY <1>0, <1>1, NoObligationType DEF Init, TypeOK, NoMail, Status
  <1>3. SlotInv /\ LeaseInv
    BY <1>0 DEF Init, SlotInv, LeaseInv
  <1>4. \A p \in Thread, g \in Gen : obl[p][g] = NoObligation
    BY DEF Init
  <1>5. OwnerInv /\ BoundInv /\ ExactTerminal
    BY <1>4 DEF OwnerInv, BoundInv, ExactTerminal, NoObligation
  <1>6. ObserverInv
    <2>1. \A c \in Thread, g \in Gen, n \in ObsId : obs[c][g][n] = NoObserver
      BY DEF Init
    <2> QED  BY <2>1 DEF ObserverInv, ObserverExact, NoObserver
  <1> QED  BY <1>2, <1>3, <1>5, <1>6 DEF IInv

-----------------------------------------------------------------------------
(* Deliveries.                                                             *)

\* A delivery lowers the obligations it acknowledges and installs leases
\* without a terminal.
LEMMA DrainKeeps ==
    ASSUME IInv, Persists, NEW p \in Thread, NEW succ \in 0..MaxTurn, DrainInto(p, succ)
    PROVE  /\ obl' \in Obligations
           /\ lease' \in [Thread -> SUBSET Lease]
           /\ mail' \in [Thread -> [Mail -> Nat]]
           /\ OwnerInv' /\ BoundInv' /\ ExactTerminal' /\ LeaseInv'
  <1> DEFINE acked == {g \in Gen : AckMail(p, g) # {}}
             pred(g) == (CHOOSE x \in AckMail(p, g) : TRUE).pred
             to(g) == IF succ = 0 THEN pred(g) ELSE succ
             ack(g) == Acknowledge(obl[p][g], pred(g), to(g))
             new(g) == NewLease(obl[p][g], g, pred(g), to(g))
  <1>0. TypeOK
    BY DEF IInv
  <1>1. \A g \in acked : pred(g) \in Turn /\ to(g) \in Turn
    <2>1. \A g \in acked : (CHOOSE x \in AckMail(p, g) : TRUE) \in Mail
      BY DEF AckMail, Tagged
    <2>2. \A g \in acked : pred(g) \in Turn
      BY <2>1 DEF Mail
    <2> QED  BY <2>2, BoundAssumption DEF Turn
  <1>2. /\ obl' = [obl EXCEPT ![p] = [g \in Gen |-> IF g \in acked THEN ack(g) ELSE obl[p][g]]]
        /\ lease' = [lease EXCEPT ![p] = lease[p] \cup UNION {new(g) : g \in acked}]
        /\ mail' = [mail EXCEPT ![p] = NoMail]
    BY DEF DrainInto, Drained
  <1>3. ASSUME NEW g \in Gen, g \in acked
        PROVE  Lowers(obl[p][g], ack(g))
    <2>1. obl[p][g] \in Obligation
      BY <1>0 DEF TypeOK
    <2> HIDE DEF pred, to
    <2> QED  BY <1>1, <1>3, <2>1, AcknowledgeLowers
  <1>4. ASSUME NEW g \in Gen, g \in acked
        PROVE  new(g) \subseteq {l \in Lease : l.terminal = "none"}
    <2> HIDE DEF pred, to
    <2> QED  BY <1>1, <1>4 DEF NewLease, Lease, Status
  <1> HIDE DEF acked, ack, new, pred, to
  <1>5. /\ obl' \in Obligations
        /\ \A q \in Thread, g \in Gen : Lowers(obl[q][g], obl'[q][g])
    <2>1. \A g \in Gen : obl[p][g] \in Obligation
      BY <1>0 DEF TypeOK
    <2>2. \A g \in Gen : Lowers(obl[p][g], IF g \in acked THEN ack(g) ELSE obl[p][g])
      BY <1>3, <2>1, SameLowers
    <2>3. obl' \in Obligations
      BY <1>0, <1>2, <2>2 DEF Lowers, TypeOK, Obligations
    <2>4. ASSUME NEW q \in Thread, NEW g \in Gen
          PROVE  Lowers(obl[q][g], obl'[q][g])
      <3>1. CASE q = p
        <4>1. obl'[q][g] = IF g \in acked THEN ack(g) ELSE obl[p][g]
          BY <1>0, <1>2, <3>1 DEF TypeOK
        <4> QED  BY <4>1, <2>2, <3>1
      <3>2. CASE q # p
        <4>1. obl'[q][g] = obl[q][g] /\ obl[q][g] \in Obligation
          BY <1>0, <1>2, <3>2 DEF TypeOK
        <4> QED  BY <4>1, SameLowers
      <3> QED  BY <3>1, <3>2
    <2> QED  BY <2>3, <2>4
  <1>6. UNION {new(g) : g \in acked} \subseteq {l \in Lease : l.terminal = "none"}
    BY <1>4 DEF acked
  <1>7. lease' \in [Thread -> SUBSET Lease]
    BY <1>0, <1>2, <1>6 DEF TypeOK
  <1>8. LeaseInv'
    <2>1. \A t \in Thread : \A l \in lease'[t] : l \in lease[t] \/ l.terminal = "none"
      BY <1>0, <1>2, <1>6 DEF TypeOK
    <2> QED  BY <1>0, <2>1, LeasesKeep DEF IInv
  <1>9. mail' \in [Thread -> [Mail -> Nat]]
    BY <1>0, <1>2 DEF TypeOK, NoMail
  <1>10. OwnerInv' /\ BoundInv' /\ ExactTerminal'
    BY <1>5, LowersKeeps DEF IInv
  <1> QED  BY <1>5, <1>7, <1>8, <1>9, <1>10

\* A new turn is later than every recorded one.
LEMMA StartKeeps ==
    ASSUME IInv, NEW p \in Thread, StartTurn(p), users' \in [Thread -> Nat]
    PROVE  IInv'
  <1>0. TypeOK /\ SlotInv /\ ObserverInv
    BY DEF IInv
  <1> DEFINE succ == cur[p] + 1
  <1>1. succ \in Turn /\ succ \in 0..MaxTurn
    BY <1>0, BoundAssumption DEF TypeOK, Turn, StartTurn
  <1>2. /\ DrainInto(p, succ)
        /\ cur' = [cur EXCEPT ![p] = succ]
        /\ slot' = [slot EXCEPT ![p] = "running"]
        /\ UNCHANGED <<dying, ended, alive, nextGen, prov, op, obs>>
    BY DEF StartTurn
  <1>3. Persists
    BY <1>2 DEF Persists
  <1> HIDE DEF succ
  <1>4. /\ obl' \in Obligations /\ lease' \in [Thread -> SUBSET Lease]
        /\ mail' \in [Thread -> [Mail -> Nat]]
        /\ OwnerInv' /\ BoundInv' /\ ExactTerminal' /\ LeaseInv'
    BY <1>1, <1>2, <1>3, DrainKeeps
  <1>5. TypeOK'
    BY <1>0, <1>1, <1>2, <1>4 DEF TypeOK, Obligations
  <1>6. SlotInv'
    <2>1. cur[p] \in Nat /\ succ = cur[p] + 1
      BY <1>0 DEF TypeOK, Turn, succ
    <2>2. ASSUME NEW d \in dying[p]
          PROVE  d.turn \in Turn /\ d.turn <= cur[p]
      BY <1>0 DEF TypeOK, SlotInv
    <2>3. ASSUME NEW t \in Thread
          PROVE  /\ cur'[t] = (IF t = p THEN succ ELSE cur[t])
                 /\ slot'[t] = (IF t = p THEN "running" ELSE slot[t])
                 /\ dying'[t] = dying[t] /\ ended'[t] = ended[t]
      BY <1>0, <1>2 DEF TypeOK
    <2>4. ASSUME NEW k \in Turn
          PROVE  k > succ => k > cur[p]
      BY <2>1 DEF Turn
    <2>5. succ > cur[p] /\ \A d \in dying[p] : d.turn # succ /\ d.turn <= succ
      BY <2>1, <2>2 DEF Turn
    <2>6. /\ ended[p][succ] = "none"
          /\ \A k \in Turn : k > succ => ended[p][k] = "none"
      BY <1>0, <1>1, <2>4, <2>5 DEF SlotInv
    <2>7. ASSUME NEW t \in Thread
          PROVE  /\ slot'[t] = "running" => /\ ended'[t][cur'[t]] = "none"
                                            /\ \A d \in dying'[t] : d.turn # cur'[t]
                 /\ \A d \in dying'[t] : d.turn <= cur'[t] /\ ended'[t][d.turn] = "none"
                 /\ \A d, e \in dying'[t] : d.turn = e.turn => d = e
                 /\ \A k \in Turn : /\ k > cur'[t] => ended'[t][k] = "none"
                                    /\ ended'[t][k] # "Shutdown"
      <3>1. CASE t = p
        BY <1>0, <2>3, <2>5, <2>6, <3>1 DEF SlotInv
      <3>2. CASE t # p
        BY <1>0, <2>3, <3>2 DEF SlotInv
      <3> QED  BY <3>1, <3>2
    <2> QED  BY <2>7 DEF SlotInv
  <1>7. ObserverInv'
    BY <1>0, <1>2, <1>3, ObserversKeep
  <1> QED  BY <1>4, <1>5, <1>6, <1>7 DEF IInv

\* A delivery to the running turn, or on behalf of an aborted one.
LEMMA DeliveryKeeps ==
    ASSUME IInv, NEW p \in Thread, ActiveDelivery(p) \/ OrphanDelivery(p)
    PROVE  IInv'
  <1>0. TypeOK /\ SlotInv /\ ObserverInv
    BY DEF IInv
  <1>1. /\ \E succ \in 0..MaxTurn : DrainInto(p, succ)
        /\ UNCHANGED <<turnVars, nextGen, prov, op, obs>>
    <2>1. cur[p] \in 0..MaxTurn /\ 0 \in 0..MaxTurn
      BY <1>0, BoundAssumption DEF TypeOK, Turn
    <2> QED  BY <2>1 DEF ActiveDelivery, OrphanDelivery
  <1>2. Persists /\ SlotInv'
    BY <1>0, <1>1, TurnsKeep
  <1>3. /\ obl' \in Obligations /\ lease' \in [Thread -> SUBSET Lease]
        /\ mail' \in [Thread -> [Mail -> Nat]]
        /\ OwnerInv' /\ BoundInv' /\ ExactTerminal' /\ LeaseInv'
    BY <1>1, <1>2, DrainKeeps
  <1>4. TypeOK'
    BY <1>0, <1>1, <1>3 DEF TypeOK, Obligations, turnVars
  <1>5. ObserverInv'
    BY <1>0, <1>1, <1>2, ObserversKeep
  <1> QED  BY <1>2, <1>3, <1>4, <1>5 DEF IInv

-----------------------------------------------------------------------------
(* The end of a turn.                                                      *)

\* The task is taken, by on_task_finished or by an abort.
LEMMA TakeKeeps ==
    ASSUME IInv, NEW p \in Thread, NEW s \in EndStatus, FinishTurn(p, s) \/ AbortTurn(p, s)
    PROVE  IInv'
  <1>0. TypeOK /\ SlotInv /\ LeaseInv /\ ObserverInv
    BY DEF IInv
  <1> DEFINE d == [turn |-> cur[p], status |-> s]
  <1>1. /\ slot[p] = "running"
        /\ \E x \in {"idle", "closing"} : slot' = [slot EXCEPT ![p] = x]
        /\ dying' = [dying EXCEPT ![p] = dying[p] \cup {d}]
        /\ UNCHANGED <<cur, users, ended, alive, storeVars, mailVars, obs>>
    BY DEF FinishTurn, AbortTurn
  <1>2. Persists /\ UNCHANGED obl /\ UNCHANGED lease
    BY <1>1 DEF Persists, storeVars
  <1>3. d \in [turn : Turn, status : EndStatus] /\ d.turn = cur[p]
    BY <1>0 DEF TypeOK
  <1> HIDE DEF d
  <1>4. TypeOK'
    BY <1>0, <1>1, <1>3 DEF TypeOK, storeVars, mailVars
  <1>5. SlotInv'
    <2>1. cur[p] \in Nat
      BY <1>0 DEF TypeOK, Turn
    <2>2. ended[p][cur[p]] = "none" /\ \A e \in dying[p] : e.turn # cur[p]
      BY <1>0, <1>1 DEF SlotInv
    <2>3. ASSUME NEW t \in Thread
          PROVE  /\ slot'[t] = "running" => /\ ended'[t][cur'[t]] = "none"
                                            /\ \A e \in dying'[t] : e.turn # cur'[t]
                 /\ \A e \in dying'[t] : e.turn <= cur'[t] /\ ended'[t][e.turn] = "none"
                 /\ \A e, f \in dying'[t] : e.turn = f.turn => e = f
      <3>1. CASE t = p
        BY <1>0, <1>1, <1>3, <2>1, <2>2, <3>1 DEF TypeOK, SlotInv
      <3>2. CASE t # p
        BY <1>0, <1>1, <3>2 DEF TypeOK, SlotInv
      <3> QED  BY <3>1, <3>2
    <2> QED  BY <1>0, <1>1, <2>3 DEF SlotInv
  <1>6. LeaseInv'
    BY <1>0, <1>1, <1>2 DEF LeaseInv
  <1>7. OwnerInv' /\ BoundInv' /\ ExactTerminal'
    BY <1>2, StoreKeeps DEF IInv
  <1>8. ObserverInv'
    BY <1>0, <1>1, <1>2, ObserversKeep
  <1> QED  BY <1>4, <1>5, <1>6, <1>7, <1>8 DEF IInv

\* The slot is cleared, or the thread is shut down.
LEMMA CloseKeeps ==
    ASSUME IInv, NEW p \in Thread, ClearSlot(p) \/ Shutdown(p)
    PROVE  IInv'
  <1>0. TypeOK /\ SlotInv /\ LeaseInv /\ ObserverInv
    BY DEF IInv
  <1>1. /\ UNCHANGED <<cur, users, dying, ended, storeVars, mailVars, obs>>
        /\ slot' = slot \/ slot' = [slot EXCEPT ![p] = "idle"]
        /\ alive' = alive \/ alive' = [alive EXCEPT ![p] = FALSE]
    BY DEF ClearSlot, Shutdown
  <1>2. Persists /\ UNCHANGED obl /\ UNCHANGED lease
    BY <1>0, <1>1 DEF Persists, storeVars, TypeOK
  <1>3. TypeOK'
    BY <1>0, <1>1 DEF TypeOK, storeVars, mailVars
  <1>4. SlotInv'
    BY <1>0, <1>1 DEF TypeOK, SlotInv
  <1>5. LeaseInv'
    BY <1>0, <1>1, <1>2 DEF LeaseInv
  <1>6. OwnerInv' /\ BoundInv' /\ ExactTerminal'
    BY <1>2, StoreKeeps DEF IInv
  <1>7. ObserverInv'
    BY <1>0, <1>1, <1>2, ObserversKeep
  <1> QED  BY <1>3, <1>4, <1>5, <1>6, <1>7 DEF IInv

\* The terminal of a taken turn is recorded once, in the leases bound to that
\* turn as well.
LEMMA RecordKeeps ==
    ASSUME IInv, NEW p \in Thread, NEW d \in dying[p], RecordTerminal(p, d)
    PROVE  IInv'
  <1>0. TypeOK /\ SlotInv /\ LeaseInv /\ ObserverInv
    BY DEF IInv
  <1> DEFINE final == IsFinal(d.status)
             mark(l) == IF l.succ = d.turn /\ l.terminal = "none" /\ final
                        THEN [l EXCEPT !.terminal = d.status] ELSE l
             retired == IF final THEN RetiredGens(p, d) ELSE {}
  <1>1. /\ dying' = [dying EXCEPT ![p] = dying[p] \ {d}]
        /\ ended' = IF final THEN [ended EXCEPT ![p][d.turn] = d.status] ELSE ended
        /\ \A t \in Thread : t # p => lease'[t] = lease[t]
        /\ lease'[p] \subseteq {mark(l) : l \in lease[p]}
        /\ DOMAIN lease' = Thread /\ lease' = [t \in Thread |-> lease'[t]]
        /\ obl' = [obl EXCEPT ![p] = [g \in Gen |->
                     IF g \in retired THEN [obl[p][g] EXCEPT !.st = "retired"]
                     ELSE obl[p][g]]]
        /\ mail' = [mail EXCEPT ![p] = Without(p, retired)]
        /\ UNCHANGED <<slot, cur, users, alive, nextGen, prov, op, obs>>
    BY <1>0 DEF RecordTerminal, TypeOK
  <1>2. /\ d.turn \in Turn /\ d.status \in EndStatus
        /\ ended[p][d.turn] = "none" /\ d.turn <= cur[p]
        /\ final => d.status \in {"Completed", "Errored"}
    BY <1>0 DEF TypeOK, SlotInv, IsFinal, EndStatus
  <1>3. Persists
    BY <1>0, <1>1, <1>2 DEF Persists, TypeOK
  <1>4. ASSUME NEW l \in lease[p]
        PROVE  /\ mark(l) \in Lease
               /\ mark(l).terminal # "none" => ended'[p][mark(l).succ] = mark(l).terminal
    <2>1. l \in Lease /\ (l.terminal # "none" => ended[p][l.succ] = l.terminal)
      BY <1>0 DEF TypeOK, LeaseInv
    <2>2. CASE l.succ = d.turn /\ l.terminal = "none" /\ final
      <3>1. mark(l) = [l EXCEPT !.terminal = d.status]
        BY <2>2
      <3>2. mark(l) \in Lease /\ mark(l).succ = d.turn /\ mark(l).terminal = d.status
        BY <1>2, <2>1, <2>2, <3>1 DEF Lease, Status
      <3>3. ended'[p][d.turn] = d.status
        BY <1>0, <1>1, <1>2, <2>2 DEF TypeOK
      <3> QED  BY <3>2, <3>3
    <2>3. CASE ~(l.succ = d.turn /\ l.terminal = "none" /\ final)
      <3>1. mark(l) = l
        BY <2>3
      <3> HIDE DEF mark
      <3> QED  BY <1>3, <2>1, <3>1 DEF Persists, Lease
    <2> QED  BY <2>2, <2>3
  <1>5. ASSUME NEW q \in Thread, NEW g \in Gen
        PROVE  obl'[q][g] \in Obligation /\ Lowers(obl[q][g], obl'[q][g])
    <2>1. obl[q][g] \in Obligation
      BY <1>0 DEF TypeOK
    <2>2. obl'[q][g] = obl[q][g] \/ obl'[q][g] = [obl[q][g] EXCEPT !.st = "retired"]
      BY <1>0, <1>1 DEF TypeOK
    <2>3. Lowers(obl[q][g], obl'[q][g])
      BY <2>1, <2>2, SameLowers, RetiredLowers
    <2> QED  BY <2>3 DEF Lowers
  <1> HIDE DEF mark, retired
  <1>6. obl' \in Obligations
    <2>1. obl' = [q \in Thread |-> [g \in Gen |-> obl'[q][g]]]
      BY <1>0, <1>1, ZenonT(60) DEF TypeOK
    <2> QED  BY <1>5, <2>1 DEF Obligations
  <1>7. lease' \in [Thread -> SUBSET Lease]
    <2>1. {mark(l) : l \in lease[p]} \subseteq Lease
      BY <1>4
    <2>2. ASSUME NEW t \in Thread
          PROVE  lease'[t] \subseteq Lease
      <3>1. lease[t] \subseteq Lease
        BY <1>0 DEF TypeOK
      <3> QED  BY <1>1, <2>1, <3>1
    <2> QED  BY <1>1, <2>2
  <1>8. TypeOK'
    <2>1. ended' \in [Thread -> [Turn -> Status]]
      BY <1>0, <1>1, <1>2 DEF TypeOK, Status
    <2>2. mail' \in [Thread -> [Mail -> Nat]]
      <3>1. Without(p, retired) \in [Mail -> Nat]
        BY <1>0 DEF TypeOK, Without
      <3> QED  BY <1>0, <1>1, <3>1 DEF TypeOK
    <2>3. dying' \in [Thread -> SUBSET [turn : Turn, status : EndStatus]]
      BY <1>0, <1>1 DEF TypeOK
    <2> QED  BY <1>0, <1>1, <1>6, <1>7, <2>1, <2>2, <2>3 DEF TypeOK, Obligations
  <1>9. SlotInv'
    <2>1. cur[p] \in Nat /\ d.turn \in Nat
      BY <1>0, <1>2 DEF TypeOK, Turn
    <2>2. ASSUME NEW e \in dying[p], e # d
          PROVE  e.turn # d.turn
      BY <1>0, <2>2 DEF SlotInv
    <2>3. ASSUME NEW t \in Thread
          PROVE  /\ slot'[t] = "running" => /\ ended'[t][cur'[t]] = "none"
                                            /\ \A e \in dying'[t] : e.turn # cur'[t]
                 /\ \A e \in dying'[t] : e.turn <= cur'[t] /\ ended'[t][e.turn] = "none"
                 /\ \A e, f \in dying'[t] : e.turn = f.turn => e = f
                 /\ \A k \in Turn : /\ k > cur'[t] => ended'[t][k] = "none"
                                    /\ ended'[t][k] # "Shutdown"
      <3>1. CASE t # p
        BY <1>0, <1>1, <3>1 DEF TypeOK, SlotInv
      <3>2. CASE t = p
        <4>1. \A k \in Turn : k # d.turn => ended'[p][k] = ended[p][k]
          BY <1>0, <1>1 DEF TypeOK
        <4>2. ended'[p][d.turn] \in {"none", "Completed", "Errored"}
          BY <1>0, <1>1, <1>2 DEF TypeOK
        <4>3. /\ dying'[p] = dying[p] \ {d} /\ cur'[p] = cur[p] /\ cur[p] \in Turn
              /\ \A e \in dying[p] : e.turn \in Turn
              /\ slot'[p] = slot[p]
          BY <1>0, <1>1 DEF TypeOK
        <4>4. slot[p] = "running" => d.turn # cur[p]
          BY <1>0 DEF SlotInv
        <4>5. \A k \in Turn : k > cur[p] => k # d.turn
          BY <1>2, <2>1 DEF Turn
        <4> QED  BY <1>0, <2>2, <3>2, <4>1, <4>2, <4>3, <4>4, <4>5 DEF SlotInv
      <3> QED  BY <3>1, <3>2
    <2> QED  BY <2>3 DEF SlotInv
  <1>10. LeaseInv'
    <2>1. ASSUME NEW t \in Thread, NEW l \in lease'[t], l.terminal # "none"
          PROVE  ended'[t][l.succ] = l.terminal
      <3>1. CASE t = p
        BY <1>1, <1>4, <2>1, <3>1
      <3>2. CASE t # p
        <4>1. l \in lease[t] /\ l \in Lease
          BY <1>0, <1>1, <3>2 DEF TypeOK
        <4> QED  BY <1>0, <1>3, <2>1, <4>1 DEF LeaseInv, Persists, Lease
      <3> QED  BY <3>1, <3>2
    <2> QED  BY <2>1 DEF LeaseInv
  <1>11. OwnerInv' /\ BoundInv' /\ ExactTerminal'
    BY <1>3, <1>5, <1>6, LowersKeeps DEF IInv
  <1>12. ObserverInv'
    BY <1>0, <1>1, <1>3, ObserversKeep
  <1> QED  BY <1>8, <1>9, <1>10, <1>11, <1>12 DEF IInv

-----------------------------------------------------------------------------
(* Registration and the targetful wait.                                    *)

\* One obligation is replaced by one whose results are exact.
LEMMA OneReplaced ==
    ASSUME TypeOK, OwnerInv, BoundInv, ExactTerminal, Persists,
           NEW p \in Thread, NEW g \in Gen, NEW o \in Obligation,
           o.st = "live" => o.parent_turn \in Turn,
           \A c \in Thread : o.results[c] # "none" =>
               o.targets[c] \in Turn /\ Exact(c, o.targets[c], o.results[c]),
           obl' = [obl EXCEPT ![p][g] = o]
    PROVE  obl' \in Obligations /\ OwnerInv' /\ BoundInv' /\ ExactTerminal'
  <1>1. obl \in Obligations
    BY DEF TypeOK, Obligations
  <1>2. obl' \in Obligations
    BY <1>1 DEF Obligations
  <1>3. obl'[p][g] = o
    BY <1>1 DEF Obligations
  <1>4. \A q \in Thread, h \in Gen : ~(q = p /\ h = g) => obl'[q][h] = obl[q][h]
    BY <1>1 DEF Obligations
  <1>5. OwnerInv'
    BY <1>3, <1>4 DEF OwnerInv
  <1>6. BoundInv'
    BY <1>3, <1>4 DEF BoundInv
  <1>7. ExactTerminal'
    <2>1. ASSUME NEW q \in Thread, NEW h \in Gen, NEW c \in Thread
          PROVE  Exact(c, obl[q][h].targets[c], obl[q][h].results[c])'
      <3>1. CASE q = p /\ h = g
        BY <1>3, <3>1 DEF Exact, Persists
      <3>2. CASE ~(q = p /\ h = g)
        <4>1. obl'[q][h] = obl[q][h]
          BY <1>4, <3>2
        <4> QED  BY <4>1 DEF Exact, ExactTerminal, BoundInv, Persists
      <3> QED  BY <3>1, <3>2
    <2> QED  BY <2>1 DEF ExactTerminal, Exact
  <1> QED  BY <1>2, <1>5, <1>6, <1>7

\* A new observer is bound to a turn of its child and carries no status.
LEMMA SpawnKeeps ==
    ASSUME TypeOK, ObserverInv, Persists, UNCHANGED cur,
           NEW S, NEW g \in Gen, SpawnObservers(S, g)
    PROVE  obs' \in Observers /\ ObserverInv'
  <1> DEFINE new(c) == [NoObserver EXCEPT !.pc = "wait", !.turn = cur[c]]
             at(c) == CHOOSE n \in FreeObs(c, g) : TRUE
  <1>0. 0 \in 0..MaxTurn /\ 0 \in 0..MaxGen /\ Turn \subseteq 0..MaxTurn
    BY BoundAssumption DEF Turn
  <1>1. ASSUME NEW c \in Thread
        PROVE  new(c) \in Observer /\ \A o : o = new(c) => ObserverExact(c, o)'
    <2>1. cur[c] \in Turn
      BY DEF TypeOK
    <2>2. new(c) \in Observer /\ new(c).pc = "wait" /\ new(c).turn = cur[c]
      BY <1>0, <2>1 DEF NoObserver, Observer, Status
    <2> HIDE DEF new
    <2>3. ASSUME NEW o, o = new(c)
          PROVE  ObserverExact(c, o)'
      <3>1. o.pc = "wait" /\ o.turn \in Turn
        BY <2>1, <2>2, <2>3
      <3> QED  BY <3>1 DEF ObserverExact
    <2> QED  BY <2>2, <2>3
  <1>2. obs' = [c \in Thread |-> IF c \notin S THEN obs[c]
                                 ELSE [obs[c] EXCEPT ![g][at(c)] = new(c)]]
    BY DEF SpawnObservers
  <1> HIDE DEF new, at
  <1>3. obs' \in Observers
    BY <1>1, <1>2 DEF TypeOK, Observers
  <1>4. ASSUME NEW d \in Thread, NEW h \in Gen, NEW m \in ObsId
        PROVE  ObserverExact(d, obs[d][h][m])'
    <2>1. obs'[d][h][m] = obs[d][h][m] \/ obs'[d][h][m] = new(d)
      BY <1>2 DEF TypeOK
    <2>2. CASE obs'[d][h][m] = obs[d][h][m]
      <3>1. obs[d][h][m] \in Observer /\ ObserverExact(d, obs[d][h][m])
        BY DEF TypeOK, ObserverInv
      <3> QED  BY <2>2, <3>1 DEF Persists, ObserverExact, Exact, Observer
    <2>3. CASE obs'[d][h][m] = new(d)
      <3>1. PICK o : o = new(d) /\ o = obs'[d][h][m]
        BY <2>3
      <3>2. ObserverExact(d, o)'
        BY <1>1, <3>1
      <3> QED  BY <3>1, <3>2 DEF ObserverExact, Exact
    <2> QED  BY <2>1, <2>2, <2>3
  <1> QED  BY <1>3, <1>4 DEF ObserverInv

\* A registered obligation has no result.
LEMMA RegisterKeeps ==
    ASSUME IInv, NEW p \in Thread, NEW S \in SUBSET Child(p), NEW kind \in Kinds,
           Register(p, S, kind)
    PROVE  IInv'
  <1>0. TypeOK /\ SlotInv /\ LeaseInv /\ ObserverInv
    BY DEF IInv
  <1> DEFINE bind == [c \in Thread |-> IF c \in S THEN cur[c] ELSE None]
             same == IF kind THEN {} ELSE SameBindings(p, cur[p], bind)
             new == [NoObligation EXCEPT !.st = "live", !.parent_turn = cur[p],
                                         !.trigger_turn = kind, !.targets = bind]
  <1>1. UNCHANGED <<turnVars, lease, mailVars>>
    BY DEF Register
  <1>2. Persists /\ SlotInv' /\ UNCHANGED cur /\ UNCHANGED lease
    BY <1>0, <1>1, TurnsKeep DEF turnVars
  <1>3. LeaseInv'
    BY <1>0, <1>2, LeasesKeep
  <1>4. CASE same # {} /\ SpawnObservers(S, CHOOSE g \in same : TRUE) /\ UNCHANGED <<obl, nextGen>>
    <2>1. (CHOOSE g \in same : TRUE) \in Gen
      <3>1. same \subseteq Gen
        BY DEF SameBindings, Live
      <3> HIDE DEF same
      <3> QED  BY <1>4, <3>1
    <2> HIDE DEF same
    <2>2. obs' \in Observers /\ ObserverInv'
      BY <1>0, <1>2, <1>4, <2>1, SpawnKeeps
    <2>3. OwnerInv' /\ BoundInv' /\ ExactTerminal'
      BY <1>2, <1>4, StoreKeeps DEF IInv
    <2>4. TypeOK'
      BY <1>0, <1>1, <1>4, <2>2 DEF TypeOK, turnVars, mailVars, Observers
    <2> QED  BY <1>2, <1>3, <2>2, <2>3, <2>4 DEF IInv
  <1>5. CASE /\ nextGen[p] < MaxGen
             /\ nextGen' = [nextGen EXCEPT ![p] = nextGen[p] + 1]
             /\ obl' = [obl EXCEPT ![p][nextGen[p] + 1] = new]
             /\ SpawnObservers(S, nextGen[p] + 1)
    <2>1. nextGen[p] + 1 \in Gen /\ nextGen[p] + 1 \in 0..MaxGen
      BY <1>0, <1>5, BoundAssumption DEF TypeOK, Gen
    <2>2. /\ new \in Obligation /\ new.parent_turn \in Turn
          /\ \A c \in Thread : new.results[c] = "none"
      <3>1. bind \in [Thread -> 0..MaxTurn] /\ cur[p] \in Turn /\ cur[p] \in 0..MaxTurn
        BY <1>0, BoundAssumption DEF TypeOK, Turn
      <3>2. kind \in BOOLEAN
        BY BoundAssumption
      <3> HIDE DEF bind
      <3>3. new \in Obligation
        BY <3>1, <3>2, NoObligationType DEF Obligation
      <3>4. new.parent_turn = cur[p] /\ new.results = [c \in Thread |-> "none"]
        BY DEF NoObligation
      <3> QED  BY <3>1, <3>3, <3>4
    <2> HIDE DEF new
    <2>3. obl' \in Obligations /\ OwnerInv' /\ BoundInv' /\ ExactTerminal'
      BY <1>2, <1>5, <2>1, <2>2, OneReplaced DEF IInv
    <2>4. obs' \in Observers /\ ObserverInv'
      BY <1>0, <1>2, <1>5, <2>1, SpawnKeeps
    <2>5. TypeOK'
      BY <1>0, <1>1, <1>5, <2>1, <2>3, <2>4
         DEF TypeOK, turnVars, mailVars, Observers, Obligations
    <2> QED  BY <1>2, <1>3, <2>3, <2>4, <2>5 DEF IInv
  <1> QED  BY <1>4, <1>5 DEF Register

\* A targetful wait consumes an obligation.
LEMMA WaitKeeps ==
    ASSUME IInv, NEW p \in Thread, NEW S \in SUBSET Child(p), TargetfulWait(p, S)
    PROVE  IInv'
  <1>0. TypeOK /\ SlotInv /\ LeaseInv /\ ObserverInv
    BY DEF IInv
  <1> DEFINE g == CHOOSE x \in Consumable(p, S) : TRUE
  <1>1. /\ obl' = [obl EXCEPT ![p][g] = Acknowledge(obl[p][g], cur[p], cur[p])]
        /\ mail' = [mail EXCEPT ![p] = Without(p, {g})]
        /\ UNCHANGED <<turnVars, nextGen, lease, prov, op, obs>>
    BY DEF TargetfulWait
  <1>2. g \in Gen
    <2>1. Consumable(p, S) # {}
      <3>1. Cardinality(Consumable(p, S)) = 1
        BY DEF TargetfulWait
      <3>2. Cardinality({}) = 0
        BY FS_EmptySet
      <3> QED  BY <3>1, <3>2
    <2> QED  BY <2>1 DEF Consumable, Live
  <1> HIDE DEF g
  <1>3. Persists /\ SlotInv'
    BY <1>0, <1>1, TurnsKeep
  <1>4. /\ obl' \in Obligations
        /\ \A q \in Thread, h \in Gen : Lowers(obl[q][h], obl'[q][h])
    <2>1. obl[p][g] \in Obligation /\ cur[p] \in Turn
      BY <1>0, <1>2 DEF TypeOK
    <2>2. Lowers(obl[p][g], Acknowledge(obl[p][g], cur[p], cur[p]))
      BY <2>1, AcknowledgeLowers
    <2> QED  BY <1>0, <1>1, <1>2, <2>2, OneLowered
  <1>5. OwnerInv' /\ BoundInv' /\ ExactTerminal'
    BY <1>3, <1>4, LowersKeeps DEF IInv
  <1>6. TypeOK'
    <2>1. Without(p, {g}) \in [Mail -> Nat]
      BY <1>0 DEF TypeOK, Without
    <2> QED  BY <1>0, <1>1, <1>4, <2>1 DEF TypeOK, Obligations, turnVars
  <1>7. LeaseInv'
    BY <1>0, <1>1, <1>3, LeasesKeep
  <1>8. ObserverInv'
    BY <1>0, <1>1, <1>3, ObserversKeep
  <1> QED  BY <1>3, <1>5, <1>6, <1>7, <1>8 DEF IInv

-----------------------------------------------------------------------------
(* Trigger mail.                                                           *)

\* The mailbox takes a trigger and its generation counts as dispatched.
LEMMA EnqueueKeeps ==
    ASSUME TypeOK, NEW p \in Thread, NEW pred \in Turn, Enqueue(p, pred)
    PROVE  /\ prov' \in [Thread -> [Turn -> 0..MaxGen]]
           /\ mail' \in [Thread -> [Mail -> Nat]]
           /\ obl' \in Obligations
           /\ \A q \in Thread, h \in Gen : Lowers(obl[q][h], obl'[q][h])
  <1> DEFINE g == prov[p][pred]
             x == [gen |-> g, pred |-> pred]
  <1>1. g \in 0..MaxGen /\ 0 \in 0..MaxGen
    BY BoundAssumption DEF TypeOK
  <1>2. /\ prov' = [prov EXCEPT ![p][pred] = 0]
        /\ mail' = [mail EXCEPT ![p][x] = mail[p][x] + 1]
        /\ obl' = IF g = 0 THEN obl ELSE [obl EXCEPT ![p][g] = Dispatched(obl[p][g])]
    BY DEF Enqueue, TakeProvenance
  <1>3. x \in Mail
    BY <1>1 DEF Mail
  <1> HIDE DEF g, x
  <1>4. prov' \in [Thread -> [Turn -> 0..MaxGen]]
    BY <1>1, <1>2 DEF TypeOK
  <1>5. mail' \in [Thread -> [Mail -> Nat]]
    BY <1>2, <1>3 DEF TypeOK
  <1>6. /\ obl' \in Obligations
        /\ \A q \in Thread, h \in Gen : Lowers(obl[q][h], obl'[q][h])
    <2>1. CASE g = 0
      BY <1>2, <2>1, SameLowers DEF TypeOK, Obligations
    <2>2. CASE g # 0
      <3>1. g \in Gen
        BY <1>1, <2>2, BoundAssumption DEF Gen
      <3>2. Lowers(obl[p][g], Dispatched(obl[p][g]))
        BY <3>1, DispatchedLowers DEF TypeOK
      <3> QED  BY <1>2, <2>2, <3>1, <3>2, OneLowered
    <2> QED  BY <2>1, <2>2
  <1> QED  BY <1>4, <1>5, <1>6

\* The submission loop queues a trigger.
LEMMA HandleOpKeeps ==
    ASSUME IInv, NEW p \in Thread, HandleOp(p)
    PROVE  IInv'
  <1>0. TypeOK /\ SlotInv /\ LeaseInv /\ ObserverInv
    BY DEF IInv
  <1>1. /\ op[p] # <<>> /\ op' = [op EXCEPT ![p] = Tail(op[p])]
        /\ Enqueue(p, Head(op[p]))
        /\ UNCHANGED <<turnVars, nextGen, lease, obs>>
    BY DEF HandleOp
  <1>2. op[p] \in Seq(Turn)
    BY <1>0 DEF TypeOK
  <1>3. Head(op[p]) \in Turn /\ Tail(op[p]) \in Seq(Turn)
    BY <1>1, <1>2
  <1>4. Persists /\ SlotInv'
    BY <1>0, <1>1, TurnsKeep
  <1>5. /\ prov' \in [Thread -> [Turn -> 0..MaxGen]]
        /\ mail' \in [Thread -> [Mail -> Nat]]
        /\ obl' \in Obligations
        /\ \A q \in Thread, h \in Gen : Lowers(obl[q][h], obl'[q][h])
    BY <1>0, <1>1, <1>3, EnqueueKeeps
  <1>6. OwnerInv' /\ BoundInv' /\ ExactTerminal'
    BY <1>4, <1>5, LowersKeeps DEF IInv
  <1>7. TypeOK'
    BY <1>0, <1>1, <1>3, <1>5 DEF TypeOK, Obligations, turnVars
  <1>8. LeaseInv'
    BY <1>0, <1>1, <1>4, LeasesKeep
  <1>9. ObserverInv'
    BY <1>0, <1>1, <1>4, ObserversKeep
  <1> QED  BY <1>4, <1>6, <1>7, <1>8, <1>9 DEF IInv

-----------------------------------------------------------------------------
(* The observers.                                                          *)

\* A step of an observer to a state that is exact already.
LEMMA StepTo ==
    ASSUME TypeOK, ObserverInv, Persists,
           NEW c \in Thread, NEW g \in Gen, NEW n \in ObsId,
           NEW o \in Observer, ObserverExact(c, o), Goto(c, g, n, o)
    PROVE  obs' \in Observers /\ ObserverInv'
  <1>1. ObserverExact(c, o)'
    BY ObserverPersists
  <1> QED  BY <1>1, GotoKeeps

\* What join_continuation_for_predecessor returns comes from a lease.
LEMMA SnapshotType ==
    ASSUME TypeOK, LeaseInv, SlotInv, NEW c \in Thread, NEW k
    PROVE  /\ Snapshot(c, k).gen \in 0..MaxGen
           /\ Snapshot(c, k).kind = "bound" =>
                /\ Snapshot(c, k).succ \in Turn
                /\ Snapshot(c, k).terminal \in Status
                /\ Exact(c, Snapshot(c, k).succ, Snapshot(c, k).terminal)
  <1> DEFINE bound == LeaseFor(c, k)
             pending == SameKind(c, k, TRUE)
             l == CHOOSE x \in bound : TRUE
             many == Cardinality(bound) + Cardinality(pending) > 1
             s == Snapshot(c, k)
  <1>0. 0 \in 0..MaxGen /\ Gen \subseteq 0..MaxGen
    BY BoundAssumption DEF Gen
  <1>1. s = IF many THEN [kind |-> "ambiguous", gen |-> 0, succ |-> 0, terminal |-> "none"]
            ELSE IF bound # {}
            THEN [kind |-> "bound", gen |-> l.gen, succ |-> l.succ, terminal |-> l.terminal]
            ELSE IF pending # {}
            THEN [kind |-> "pending", gen |-> CHOOSE g \in pending : TRUE,
                  succ |-> 0, terminal |-> "none"]
            ELSE [kind |-> "none", gen |-> 0, succ |-> 0, terminal |-> "none"]
    BY DEF Snapshot
  <1>2. bound # {} => l \in lease[c] /\ l \in Lease
    BY DEF LeaseFor, TypeOK
  <1>3. pending # {} => (CHOOSE g \in pending : TRUE) \in Gen
    BY DEF SameKind, Live
  <1>4. bound # {} => Exact(c, l.succ, l.terminal)
    <2>1. bound # {} => (l.terminal # "none" => ended[c][l.succ] = l.terminal)
      BY <1>2 DEF LeaseInv
    <2>2. bound # {} => l.succ \in Turn
      BY <1>2 DEF Lease
    <2>3. \A x \in Turn : ended[c][x] # "Shutdown"
      BY DEF SlotInv
    <2> HIDE DEF bound, l
    <2> QED  BY <2>1, <2>2, <2>3 DEF Exact
  <1> HIDE DEF bound, pending, l, many, s
  <1>5. s.gen \in 0..MaxGen
    BY <1>0, <1>1, <1>2, <1>3 DEF Lease
  <1>6. s.kind = "bound" => bound # {} /\ s.succ = l.succ /\ s.terminal = l.terminal
    BY <1>1
  <1>7. s.kind = "bound" => s.succ \in Turn /\ s.terminal \in Status /\ Exact(c, s.succ, s.terminal)
    BY <1>2, <1>4, <1>6 DEF Lease
  <1> QED  BY <1>5, <1>7 DEF s

\* Steps that change nothing but the observer.
LEMMA ObserverOnly ==
    ASSUME IInv, UNCHANGED <<turnVars, storeVars, mailVars>>, obs' \in Observers, ObserverInv'
    PROVE  IInv'
  <1>0. TypeOK /\ SlotInv /\ LeaseInv
    BY DEF IInv
  <1>1. Persists /\ SlotInv' /\ UNCHANGED obl /\ UNCHANGED lease
    BY <1>0, TurnsKeep DEF storeVars
  <1>2. OwnerInv' /\ BoundInv' /\ ExactTerminal'
    BY <1>1, StoreKeeps DEF IInv
  <1>3. LeaseInv'
    BY <1>0, <1>1, LeasesKeep
  <1>4. TypeOK'
    BY <1>0 DEF TypeOK, turnVars, storeVars, mailVars, Observers
  <1> QED  BY <1>1, <1>2, <1>3, <1>4 DEF IInv

\* The observed turn's terminal, or the child's shutdown, is seen.
LEMMA SeeTerminalKeeps ==
    ASSUME IInv, NEW c \in Thread, NEW g \in Gen, NEW n \in ObsId, SeeTerminal(c, g, n)
    PROVE  IInv'
  <1>0. TypeOK /\ SlotInv /\ ObserverInv
    BY DEF IInv
  <1> DEFINE o == obs[c][g][n]
             see(s) == [o EXCEPT !.status = s, !.pc = After(s)]
  <1>1. o \in Observer /\ ObserverExact(c, o) /\ o.pc = "wait"
    BY <1>0 DEF TypeOK, ObserverInv, SeeTerminal, At
  <1>2. o.turn \in Turn
    BY <1>1 DEF ObserverExact
  <1>3. PICK s \in Status : Exact(c, o.turn, s) /\ Goto(c, g, n, see(s))
    <2>1. CASE Goto(c, g, n, see(ended[c][o.turn]))
      <3>1. ended[c][o.turn] \in Status /\ ended[c][o.turn] # "Shutdown"
        BY <1>0, <1>2 DEF TypeOK, SlotInv
      <3> QED  BY <2>1, <3>1 DEF Exact
    <2>2. CASE ~alive[c] /\ Goto(c, g, n, see("Shutdown"))
      BY <2>2 DEF Exact, Status
    <2> QED  BY <2>1, <2>2 DEF SeeTerminal, TerminalOf
  <1>4. After(s) \in {"snap", "resolve"}
    BY DEF After
  <1> HIDE DEF o
  <1>5. see(s) \in Observer /\ see(s).turn = o.turn /\ see(s).status = s /\ see(s).pc = After(s)
    BY <1>1, <1>4 DEF Observer
  <1> HIDE DEF see
  <1>6. ObserverExact(c, see(s))
    BY <1>2, <1>3, <1>4, <1>5 DEF ObserverExact
  <1>7. UNCHANGED <<turnVars, storeVars, mailVars>>
    BY DEF SeeTerminal
  <1>8. Persists
    BY <1>0, <1>7, TurnsKeep
  <1>9. obs' \in Observers /\ ObserverInv'
    BY <1>0, <1>3, <1>5, <1>6, <1>8, StepTo
  <1> QED  BY <1>7, <1>9, ObserverOnly

\* The continuation of the completed turn decides the next step.
LEMMA SnapshotKeeps ==
    ASSUME IInv, NEW c \in Thread, NEW g \in Gen, NEW n \in ObsId, SnapshotContinuation(c, g, n)
    PROVE  IInv'
  <1>0. TypeOK /\ SlotInv /\ LeaseInv /\ ObserverInv
    BY DEF IInv
  <1> DEFINE o == obs[c][g][n]
             s == Snapshot(c, o.turn)
  <1>1. o \in Observer /\ ObserverExact(c, o) /\ o.pc = "snap"
    BY <1>0 DEF TypeOK, ObserverInv, SnapshotContinuation, At
  <1>2. o.turn \in Turn /\ Exact(c, o.turn, o.status)
    BY <1>1 DEF ObserverExact
  <1>3. /\ s.gen \in 0..MaxGen
        /\ s.kind = "bound" => s.succ \in Turn /\ s.terminal \in Status /\ Exact(c, s.succ, s.terminal)
    BY <1>0, SnapshotType
  <1>4. UNCHANGED <<turnVars, storeVars, mailVars>>
    BY DEF SnapshotContinuation
  <1>5. Persists
    BY <1>0, <1>4, TurnsKeep
  <1>6. \/ Exit(c, g, n)
        \/ Goto(c, g, n, [o EXCEPT !.pc = "resolve"])
        \/ ~alive[c] /\ Goto(c, g, n, [o EXCEPT !.pc = "retire"])
        \/ Goto(c, g, n, [o EXCEPT !.pc = "retain", !.inner = s.gen])
        \/ s.kind = "bound" /\ Goto(c, g, n, [o EXCEPT !.pc = "live", !.succ = s.succ,
                                                       !.status = s.terminal])
    BY DEF SnapshotContinuation
  <1> HIDE DEF o, s
  <1>7. Turn \subseteq 0..MaxTurn
    BY BoundAssumption DEF Turn
  <1>8. CASE Exit(c, g, n)
    <2>1. obs' \in Observers /\ ObserverInv'
      BY <1>0, <1>5, <1>8, ExitKeeps
    <2> QED  BY <1>4, <2>1, ObserverOnly
  <1>9. ASSUME NEW q \in Observer, Goto(c, g, n, q), ObserverExact(c, q)
        PROVE  IInv'
    <2>1. obs' \in Observers /\ ObserverInv'
      BY <1>0, <1>5, <1>9, StepTo
    <2> QED  BY <1>4, <2>1, ObserverOnly
  <1>10. CASE Goto(c, g, n, [o EXCEPT !.pc = "resolve"])
    <2>1. [o EXCEPT !.pc = "resolve"] \in Observer
      BY <1>1 DEF Observer
    <2>2. ObserverExact(c, [o EXCEPT !.pc = "resolve"])
      BY <1>1, <1>2 DEF Observer, ObserverExact
    <2> QED  BY <1>9, <1>10, <2>1, <2>2
  <1>11. CASE ~alive[c] /\ Goto(c, g, n, [o EXCEPT !.pc = "retire"])
    <2>1. [o EXCEPT !.pc = "retire"] \in Observer
      BY <1>1 DEF Observer
    <2>2. ObserverExact(c, [o EXCEPT !.pc = "retire"])
      BY <1>1, <1>2, <1>11 DEF Observer, ObserverExact
    <2> QED  BY <1>9, <1>11, <2>1, <2>2
  <1>12. CASE Goto(c, g, n, [o EXCEPT !.pc = "retain", !.inner = s.gen])
    <2>1. [o EXCEPT !.pc = "retain", !.inner = s.gen] \in Observer
      BY <1>1, <1>3 DEF Observer
    <2>2. ObserverExact(c, [o EXCEPT !.pc = "retain", !.inner = s.gen])
      BY <1>1, <1>2 DEF Observer, ObserverExact
    <2> QED  BY <1>9, <1>12, <2>1, <2>2
  <1>13. CASE s.kind = "bound" /\ Goto(c, g, n, [o EXCEPT !.pc = "live", !.succ = s.succ,
                                                        !.status = s.terminal])
    <2> DEFINE q == [o EXCEPT !.pc = "live", !.succ = s.succ, !.status = s.terminal]
    <2>1. q \in Observer
      BY <1>1, <1>3, <1>7, <1>13 DEF Observer
    <2>2. ObserverExact(c, q)
      BY <1>1, <1>2, <1>3, <1>13 DEF Observer, ObserverExact
    <2> QED  BY <1>9, <1>13, <2>1, <2>2
  <1> QED  BY <1>6, <1>8, <1>10, <1>11, <1>12, <1>13

\* Waiting for the delivery, and the check that the successor still runs.
LEMMA AwaitKeeps ==
    ASSUME IInv, NEW c \in Thread, NEW g \in Gen, NEW n \in ObsId,
           AwaitDelivery(c, g, n) \/ CheckSuccessor(c, g, n)
    PROVE  IInv'
  <1>0. TypeOK /\ SlotInv /\ LeaseInv /\ ObserverInv
    BY DEF IInv
  <1> DEFINE o == obs[c][g][n]
  <1>1. o \in Observer /\ ObserverExact(c, o)
    BY <1>0 DEF TypeOK, ObserverInv
  <1>2. UNCHANGED <<turnVars, storeVars, mailVars>>
    BY DEF AwaitDelivery, CheckSuccessor
  <1>3. Persists
    BY <1>0, <1>2, TurnsKeep
  <1>4. \/ Exit(c, g, n)
        \/ o.pc = "owner" /\ Goto(c, g, n, [o EXCEPT !.pc = "snap", !.registered = TRUE])
        \/ o.pc = "live" /\ Goto(c, g, n, [o EXCEPT !.pc = "rebind"])
    BY DEF AwaitDelivery, CheckSuccessor, At
  <1> HIDE DEF o
  <1>5. obs' \in Observers /\ ObserverInv'
    <2>1. CASE Exit(c, g, n)
      BY <1>0, <1>3, <2>1, ExitKeeps
    <2>2. CASE o.pc = "owner" /\ Goto(c, g, n, [o EXCEPT !.pc = "snap", !.registered = TRUE])
      <3>1. [o EXCEPT !.pc = "snap", !.registered = TRUE] \in Observer
        BY <1>1 DEF Observer
      <3>2. ObserverExact(c, [o EXCEPT !.pc = "snap", !.registered = TRUE])
        BY <1>1, <2>2 DEF Observer, ObserverExact
      <3> QED  BY <1>0, <1>3, <2>2, <3>1, <3>2, StepTo
    <2>3. CASE o.pc = "live" /\ Goto(c, g, n, [o EXCEPT !.pc = "rebind"])
      <3>1. [o EXCEPT !.pc = "rebind"] \in Observer
        BY <1>1 DEF Observer
      <3>2. ObserverExact(c, [o EXCEPT !.pc = "rebind"])
        BY <1>1, <2>3 DEF Observer, ObserverExact
      <3> QED  BY <1>0, <1>3, <2>3, <3>1, <3>2, StepTo
    <2> QED  BY <1>4, <2>1, <2>2, <2>3
  <1> QED  BY <1>2, <1>5, ObserverOnly

\* The successor's terminal, or the child's shutdown, is seen.
LEMMA SeeSuccessorKeeps ==
    ASSUME IInv, NEW c \in Thread, NEW g \in Gen, NEW n \in ObsId,
           SeeSuccessorTerminal(c, g, n)
    PROVE  IInv'
  <1>0. TypeOK /\ SlotInv /\ LeaseInv /\ ObserverInv
    BY DEF IInv
  <1> DEFINE o == obs[c][g][n]
             s == Snapshot(c, o.pred)
             see(x) == [o EXCEPT !.status = x, !.pc = "finish"]
  <1>1. o \in Observer /\ ObserverExact(c, o) /\ o.pc = "succ"
    BY <1>0 DEF TypeOK, ObserverInv, SeeSuccessorTerminal, At
  <1>2. s.kind = "bound" => s.succ \in Turn /\ s.terminal \in Status /\ Exact(c, s.succ, s.terminal)
    BY <1>0, SnapshotType
  <1>3. UNCHANGED <<turnVars, storeVars, mailVars>>
    BY DEF SeeSuccessorTerminal
  <1>4. Persists
    BY <1>0, <1>3, TurnsKeep
  <1>5. \/ Exit(c, g, n)
        \/ s.kind = "bound" /\ s.succ = o.turn /\ Goto(c, g, n, see(s.terminal))
        \/ ~alive[c] /\ Goto(c, g, n, see("Shutdown"))
    BY DEF SeeSuccessorTerminal
  <1> HIDE DEF o, s
  <1>6. ASSUME NEW x \in Status, Exact(c, o.turn, x), Goto(c, g, n, see(x))
        PROVE  obs' \in Observers /\ ObserverInv'
    <2>1. see(x) \in Observer
      BY <1>1 DEF Observer
    <2>2. ObserverExact(c, see(x))
      BY <1>1, <1>6 DEF Observer, ObserverExact
    <2> HIDE DEF see
    <2> QED  BY <1>0, <1>4, <1>6, <2>1, <2>2, StepTo
  <1>7. "Shutdown" \in Status /\ (~alive[c] => Exact(c, o.turn, "Shutdown"))
    BY DEF Status, Exact
  <1> HIDE DEF see
  <1>8. obs' \in Observers /\ ObserverInv'
    BY <1>0, <1>2, <1>4, <1>5, <1>6, <1>7, ExitKeeps
  <1> QED  BY <1>3, <1>8, ObserverOnly

\* Steps of an observer that change the parent's store, too.
LEMMA ObserverAndStore ==
    ASSUME IInv, UNCHANGED <<turnVars, nextGen, lease>>,
           obs' \in Observers, ObserverInv',
           obl' \in Obligations, OwnerInv', BoundInv', ExactTerminal',
           prov' \in [Thread -> [Turn -> 0..MaxGen]],
           op' \in [Thread -> Seq(Turn)],
           mail' \in [Thread -> [Mail -> Nat]]
    PROVE  IInv'
  <1>0. TypeOK /\ SlotInv /\ LeaseInv
    BY DEF IInv
  <1>1. Persists /\ SlotInv'
    BY <1>0, TurnsKeep
  <1>2. LeaseInv'
    BY <1>0, <1>1, LeasesKeep
  <1>3. TypeOK'
    BY <1>0 DEF TypeOK, turnVars, Observers, Obligations
  <1> QED  BY <1>1, <1>2, <1>3 DEF IInv

\* A target is resolved with the exact terminal of the turn it is bound to.
LEMMA ResolveKeeps ==
    ASSUME IInv, NEW c \in Thread, NEW g \in Gen, NEW n \in ObsId, ResolveTarget(c, g, n)
    PROVE  IInv'
  <1>0. TypeOK /\ SlotInv /\ LeaseInv /\ OwnerInv /\ BoundInv /\ ObserverInv /\ ExactTerminal
    BY DEF IInv
  <1> DEFINE p == Parent[c]
             o == obs[c][g][n]
             b == obl[p][g]
             retain == o.pc = "retain"
             next == AfterResolve(Fires(b, c, o.status, retain), retain)
             q == [o EXCEPT !.pc = next, !.keep = retain, !.owner = b.parent_turn]
             r == Resolve(b, c, o.status, retain)
  <1>1. p \in Thread /\ b \in Obligation
    BY <1>0, ThreadAssumption DEF TypeOK
  <1>2. /\ o \in Observer /\ ObserverExact(c, o) /\ o.pc \in {"retain", "resolve"}
        /\ o.turn \in Turn /\ Exact(c, o.turn, o.status)
    <2>1. o \in Observer /\ ObserverExact(c, o) /\ o.pc \in {"retain", "resolve"}
      BY <1>0 DEF TypeOK, ObserverInv, ResolveTarget
    <2> HIDE DEF o
    <2> QED  BY <2>1 DEF ObserverExact
  <1>3. UNCHANGED <<turnVars, nextGen, lease, mailVars>>
    BY DEF ResolveTarget
  <1>4. Persists /\ SlotInv'
    BY <1>0, <1>3, TurnsKeep
  <1>5. \/ /\ b.st = "live" /\ b.targets[c] = o.turn
           /\ obl' = [obl EXCEPT ![p][g] = r]
           /\ IF next = "done" THEN Exit(c, g, n) ELSE Goto(c, g, n, q)
        \/ Exit(c, g, n) /\ UNCHANGED obl
    BY DEF ResolveTarget, Resolvable
  <1>6. next \in {"mark", "owner", "done"} /\ retain \in BOOLEAN
    BY DEF AfterResolve
  <1>7. /\ UNCHANGED <<turnVars, nextGen, lease>>
        /\ prov' \in [Thread -> [Turn -> 0..MaxGen]]
        /\ op' \in [Thread -> Seq(Turn)]
        /\ mail' \in [Thread -> [Mail -> Nat]]
    BY <1>0, <1>3 DEF mailVars, TypeOK
  <1>8. /\ r \in Obligation /\ r.targets = b.targets
        /\ r.st = b.st /\ r.parent_turn = b.parent_turn
        /\ \A d \in Thread : r.results[d] \in {b.results[d]} \cup (IF d = c THEN {o.status} ELSE {})
    <2>1. o.status \in Status
      BY <1>2 DEF Observer
    <2> HIDE DEF o, b, retain
    <2> QED  BY <1>1, <1>6, <2>1, ResolveType
  <1> HIDE DEF p, o, b, retain, next, r
  <1>9. CASE Exit(c, g, n) /\ UNCHANGED obl
    <2>1. obs' \in Observers /\ ObserverInv'
      BY <1>0, <1>4, <1>9, ExitKeeps
    <2>2. obl' \in Obligations /\ OwnerInv' /\ BoundInv' /\ ExactTerminal'
      BY <1>0, <1>4, <1>9, StoreKeeps DEF TypeOK, Obligations
    <2> QED  BY <1>7, <2>1, <2>2, ObserverAndStore
  <1>10. CASE /\ b.st = "live" /\ b.targets[c] = o.turn
              /\ obl' = [obl EXCEPT ![p][g] = r]
              /\ IF next = "done" THEN Exit(c, g, n) ELSE Goto(c, g, n, q)
    <2>1. b.parent_turn \in Turn
      BY <1>0, <1>1, <1>10 DEF OwnerInv, b
    <2>2. ASSUME NEW d \in Thread, r.results[d] # "none"
          PROVE  r.targets[d] \in Turn /\ Exact(d, r.targets[d], r.results[d])
      <3>1. CASE r.results[d] = b.results[d]
        <4>1. b.targets[d] \in Turn /\ Exact(d, b.targets[d], b.results[d])
          BY <1>0, <1>1, <2>2, <3>1 DEF BoundInv, ExactTerminal, Exact, b
        <4> QED  BY <1>8, <3>1, <4>1
      <3>2. CASE d = c /\ r.results[d] = o.status
        BY <1>2, <1>8, <1>10, <3>2
      <3> QED  BY <1>8, <3>1, <3>2
    <2>3. obl' \in Obligations /\ OwnerInv' /\ BoundInv' /\ ExactTerminal'
      BY <1>0, <1>1, <1>4, <1>8, <1>10, <2>1, <2>2, OneReplaced
    <2>4. obs' \in Observers /\ ObserverInv'
      <3>1. CASE next = "done"
        BY <1>0, <1>4, <1>10, <3>1, ExitKeeps
      <3>2. CASE next # "done"
        <4>1. q \in Observer
          BY <1>1, <1>2, <1>6, <3>2 DEF Observer, Obligation
        <4>2. ObserverExact(c, q)
          BY <1>2, <1>6, <2>1, <3>2 DEF Observer, ObserverExact
        <4> HIDE DEF q
        <4> QED  BY <1>0, <1>4, <1>10, <3>2, <4>1, <4>2, StepTo
      <3> QED  BY <3>1, <3>2
    <2> QED  BY <1>7, <2>3, <2>4, ObserverAndStore
  <1> QED  BY <1>5, <1>9, <1>10

\* The trigger is recorded, or a wait obligation is marked dispatched.
LEMMA MarkKeeps ==
    ASSUME IInv, NEW c \in Thread, NEW g \in Gen, NEW n \in ObsId, MarkTrigger(c, g, n)
    PROVE  IInv'
  <1>0. TypeOK /\ SlotInv /\ LeaseInv /\ OwnerInv /\ BoundInv /\ ObserverInv /\ ExactTerminal
    BY DEF IInv
  <1> DEFINE p == Parent[c]
             o == obs[c][g][n]
             q == [o EXCEPT !.pc = "send"]
  <1>1. p \in Thread /\ obl[p][g] \in Obligation
    BY <1>0, ThreadAssumption DEF TypeOK
  <1>2. o \in Observer /\ ObserverExact(c, o) /\ o.pc = "mark"
    BY <1>0 DEF TypeOK, ObserverInv, MarkTrigger, At
  <1>3. /\ UNCHANGED <<turnVars, nextGen, lease, op, mail>>
        /\ \/ prov' = [prov EXCEPT ![p][o.owner] = g] /\ Goto(c, g, n, q) /\ UNCHANGED obl
           \/ /\ obl' = [obl EXCEPT ![p][g] = Dispatched(obl[p][g])]
              /\ Exit(c, g, n) /\ UNCHANGED prov
    BY DEF MarkTrigger
  <1>4. Persists
    BY <1>0, <1>3, TurnsKeep
  <1>5. /\ prov' \in [Thread -> [Turn -> 0..MaxGen]]
        /\ op' \in [Thread -> Seq(Turn)]
        /\ mail' \in [Thread -> [Mail -> Nat]]
    <2>1. g \in 0..MaxGen
      BY BoundAssumption DEF Gen
    <2>2. op' \in [Thread -> Seq(Turn)] /\ mail' \in [Thread -> [Mail -> Nat]]
      BY <1>0, <1>3 DEF TypeOK
    <2>3. prov \in [Thread -> [Turn -> 0..MaxGen]]
      BY <1>0 DEF TypeOK
    <2> HIDE DEF o, p
    <2>4. prov' = prov \/ prov' = [prov EXCEPT ![p][o.owner] = g]
      BY <1>3
    <2>5. prov' \in [Thread -> [Turn -> 0..MaxGen]]
      BY <2>1, <2>3, <2>4
    <2> QED  BY <2>2, <2>5
  <1>6. obs' \in Observers /\ ObserverInv'
    <2> HIDE DEF o
    <2>1. q \in Observer
      BY <1>2 DEF Observer
    <2>2. ObserverExact(c, q)
      BY <1>2 DEF Observer, ObserverExact
    <2> HIDE DEF q
    <2> QED  BY <1>0, <1>3, <1>4, <2>1, <2>2, StepTo, ExitKeeps
  <1>7. obl' \in Obligations /\ OwnerInv' /\ BoundInv' /\ ExactTerminal'
    <2>1. CASE UNCHANGED obl
      BY <1>0, <1>4, <2>1, StoreKeeps DEF TypeOK, Obligations
    <2>2. CASE obl' = [obl EXCEPT ![p][g] = Dispatched(obl[p][g])]
      <3> HIDE DEF p
      <3>1. Lowers(obl[p][g], Dispatched(obl[p][g]))
        BY <1>1, DispatchedLowers
      <3>2. obl' \in Obligations /\ \A x \in Thread, h \in Gen : Lowers(obl[x][h], obl'[x][h])
        BY <1>0, <1>1, <2>2, <3>1, OneLowered
      <3> QED  BY <1>0, <1>4, <3>2, LowersKeeps
    <2> QED  BY <1>3, <2>1, <2>2
  <1> QED  BY <1>3, <1>5, <1>6, <1>7, ObserverAndStore

\* The trigger is submitted, queued at once, or dropped with the parent.
LEMMA SendKeeps ==
    ASSUME IInv, NEW c \in Thread, NEW g \in Gen, NEW n \in ObsId, SendTrigger(c, g, n)
    PROVE  IInv'
  <1>0. TypeOK /\ SlotInv /\ LeaseInv /\ OwnerInv /\ BoundInv /\ ObserverInv /\ ExactTerminal
    BY DEF IInv
  <1> DEFINE p == Parent[c]
             o == obs[c][g][n]
             q == [o EXCEPT !.pc = "sent"]
  <1>1. p \in Thread
    BY ThreadAssumption
  <1>2. o \in Observer /\ ObserverExact(c, o) /\ o.pc = "send"
    BY <1>0 DEF TypeOK, ObserverInv, SendTrigger, At
  <1>3. /\ UNCHANGED <<turnVars, nextGen, lease>>
        /\ Goto(c, g, n, q)
        /\ \/ op' = [op EXCEPT ![p] = Append(op[p], o.owner)] /\ UNCHANGED <<prov, mail, obl>>
           \/ Enqueue(p, o.owner) /\ UNCHANGED op
           \/ /\ prov' = [prov EXCEPT ![p][o.owner] = IF prov[p][o.owner] = g THEN 0
                                                      ELSE prov[p][o.owner]]
              /\ UNCHANGED <<op, mail, obl>>
    BY DEF SendTrigger
  <1> HIDE DEF o, p
  <1>4. Persists
    BY <1>0, <1>3, TurnsKeep
  <1>5. o.owner \in Turn
    BY <1>2 DEF ObserverExact
  <1>6. obs' \in Observers /\ ObserverInv'
    <2>1. q \in Observer
      BY <1>2 DEF Observer
    <2>2. ObserverExact(c, q)
      BY <1>2 DEF Observer, ObserverExact
    <2> HIDE DEF q
    <2> QED  BY <1>0, <1>3, <1>4, <2>1, <2>2, StepTo
  <1>7. /\ prov \in [Thread -> [Turn -> 0..MaxGen]]
        /\ op \in [Thread -> Seq(Turn)]
        /\ mail \in [Thread -> [Mail -> Nat]]
        /\ obl \in Obligations
    BY <1>0 DEF TypeOK, Obligations
  <1>8. CASE op' = [op EXCEPT ![p] = Append(op[p], o.owner)] /\ UNCHANGED <<prov, mail, obl>>
    <2>1. Append(op[p], o.owner) \in Seq(Turn)
      BY <1>1, <1>5, <1>7
    <2>2. op' \in [Thread -> Seq(Turn)]
      BY <1>7, <1>8, <2>1
    <2>3. OwnerInv' /\ BoundInv' /\ ExactTerminal'
      BY <1>0, <1>4, <1>8, StoreKeeps
    <2> QED  BY <1>3, <1>6, <1>7, <1>8, <2>2, <2>3, ObserverAndStore
  <1>9. CASE Enqueue(p, o.owner) /\ UNCHANGED op
    <2>1. /\ prov' \in [Thread -> [Turn -> 0..MaxGen]]
          /\ mail' \in [Thread -> [Mail -> Nat]]
          /\ obl' \in Obligations
          /\ \A x \in Thread, h \in Gen : Lowers(obl[x][h], obl'[x][h])
      BY <1>0, <1>1, <1>5, <1>9, EnqueueKeeps
    <2>2. OwnerInv' /\ BoundInv' /\ ExactTerminal'
      BY <1>0, <1>4, <2>1, LowersKeeps
    <2> QED  BY <1>3, <1>6, <1>7, <1>9, <2>1, <2>2, ObserverAndStore
  <1>10. CASE /\ prov' = [prov EXCEPT ![p][o.owner] = IF prov[p][o.owner] = g THEN 0
                                                      ELSE prov[p][o.owner]]
              /\ UNCHANGED <<op, mail, obl>>
    <2>1. 0 \in 0..MaxGen
      BY BoundAssumption
    <2>2. (IF prov[p][o.owner] = g THEN 0 ELSE prov[p][o.owner]) \in 0..MaxGen
      BY <1>1, <1>5, <1>7, <2>1
    <2>3. prov' \in [Thread -> [Turn -> 0..MaxGen]]
      BY <1>7, <1>10, <2>2
    <2>4. OwnerInv' /\ BoundInv' /\ ExactTerminal'
      BY <1>0, <1>4, <1>10, StoreKeeps
    <2> QED  BY <1>3, <1>6, <1>7, <1>10, <2>3, <2>4, ObserverAndStore
  <1> QED  BY <1>3, <1>8, <1>9, <1>10

\* The dispatch is complete.
LEMMA FinishDispatchKeeps ==
    ASSUME IInv, NEW c \in Thread, NEW g \in Gen, NEW n \in ObsId, FinishDispatch(c, g, n)
    PROVE  IInv'
  <1>0. TypeOK /\ SlotInv /\ LeaseInv /\ OwnerInv /\ BoundInv /\ ObserverInv /\ ExactTerminal
    BY DEF IInv
  <1> DEFINE p == Parent[c]
             o == obs[c][g][n]
             q == [o EXCEPT !.pc = "owner"]
  <1>1. p \in Thread /\ obl[p][g] \in Obligation
    BY <1>0, ThreadAssumption DEF TypeOK
  <1>2. o \in Observer /\ ObserverExact(c, o) /\ o.pc = "sent"
    BY <1>0 DEF TypeOK, ObserverInv, FinishDispatch, At
  <1>3. /\ UNCHANGED <<turnVars, nextGen, lease, mailVars>>
        /\ obl' = [obl EXCEPT ![p][g] = Dispatched(obl[p][g])]
        /\ Goto(c, g, n, q) \/ Exit(c, g, n)
    BY DEF FinishDispatch
  <1> HIDE DEF o, p
  <1>4. Persists
    BY <1>0, <1>3, TurnsKeep
  <1>5. obs' \in Observers /\ ObserverInv'
    <2>1. q \in Observer
      BY <1>2 DEF Observer
    <2>2. ObserverExact(c, q)
      BY <1>2 DEF Observer, ObserverExact
    <2> HIDE DEF q
    <2> QED  BY <1>0, <1>3, <1>4, <2>1, <2>2, StepTo, ExitKeeps
  <1>6. Lowers(obl[p][g], Dispatched(obl[p][g]))
    BY <1>1, DispatchedLowers
  <1>7. obl' \in Obligations /\ \A x \in Thread, h \in Gen : Lowers(obl[x][h], obl'[x][h])
    BY <1>0, <1>1, <1>3, <1>6, OneLowered
  <1>8. OwnerInv' /\ BoundInv' /\ ExactTerminal'
    BY <1>0, <1>4, <1>7, LowersKeeps
  <1>9. /\ UNCHANGED <<turnVars, nextGen, lease>>
        /\ prov' \in [Thread -> [Turn -> 0..MaxGen]]
        /\ op' \in [Thread -> Seq(Turn)]
        /\ mail' \in [Thread -> [Mail -> Nat]]
    BY <1>0, <1>3 DEF mailVars, TypeOK
  <1> QED  BY <1>5, <1>7, <1>8, <1>9, ObserverAndStore

\* A released target has no result, so its rebinding leaves none behind.
LEMMA RebindKeeps ==
    ASSUME IInv, NEW c \in Thread, NEW g \in Gen, NEW n \in ObsId, RebindTarget(c, g, n)
    PROVE  IInv'
  <1>0. TypeOK /\ SlotInv /\ LeaseInv /\ OwnerInv /\ BoundInv /\ ObserverInv /\ ExactTerminal
    BY DEF IInv
  <1> DEFINE p == Parent[c]
             o == obs[c][g][n]
             b == obl[p][g]
             r == Rebound(b, c, o.succ)
             pc == IF o.status = "none" THEN "succ" ELSE "finish"
             q == [o EXCEPT !.turn = o.succ, !.pred = o.turn, !.succ = 0,
                            !.fenced = ~alive[c], !.keep = FALSE, !.registered = FALSE,
                            !.pc = pc]
  <1>1. p \in Thread /\ b \in Obligation /\ alive[c] \in BOOLEAN
    BY <1>0, ThreadAssumption DEF TypeOK
  <1>2. o \in Observer /\ ObserverExact(c, o) /\ o.pc = "rebind"
    BY <1>0 DEF TypeOK, ObserverInv, RebindTarget, At
  <1>3. /\ UNCHANGED <<turnVars, nextGen, lease, mailVars>>
        /\ \/ /\ b.st = "live" /\ b.results[c] = "none"
              /\ obl' = [obl EXCEPT ![p][g] = r]
              /\ Goto(c, g, n, q)
           \/ Exit(c, g, n) /\ UNCHANGED obl
    BY DEF RebindTarget, AwaitsSuccessor
  <1>4. /\ b.st = "live" => b.parent_turn \in Turn
        /\ \A d \in Thread : b.results[d] # "none" =>
              b.targets[d] \in Turn /\ Exact(d, b.targets[d], b.results[d])
    BY <1>0, <1>1 DEF OwnerInv, BoundInv, ExactTerminal, Exact
  <1>5. /\ UNCHANGED <<turnVars, nextGen, lease>>
        /\ prov' \in [Thread -> [Turn -> 0..MaxGen]]
        /\ op' \in [Thread -> Seq(Turn)]
        /\ mail' \in [Thread -> [Mail -> Nat]]
    BY <1>0, <1>3 DEF mailVars, TypeOK
  <1>6. Persists
    BY <1>0, <1>3, TurnsKeep
  <1>7. CASE Exit(c, g, n) /\ UNCHANGED obl
    <2>1. obs' \in Observers /\ ObserverInv'
      BY <1>0, <1>6, <1>7, ExitKeeps
    <2>2. obl' \in Obligations /\ OwnerInv' /\ BoundInv' /\ ExactTerminal'
      BY <1>0, <1>6, <1>7, StoreKeeps DEF TypeOK, Obligations
    <2> QED  BY <1>5, <2>1, <2>2, ObserverAndStore
  <1>8. CASE /\ b.st = "live" /\ b.results[c] = "none"
             /\ obl' = [obl EXCEPT ![p][g] = r]
             /\ Goto(c, g, n, q)
    <2> HIDE DEF o, b, p
    <2>1. o.succ \in Turn /\ Exact(c, o.succ, o.status)
      BY <1>2 DEF ObserverExact
    <2>2. Turn \subseteq 0..MaxTurn /\ 0 \in 0..MaxTurn
      BY BoundAssumption DEF Turn
    <2>3. /\ r \in Obligation /\ r.st = b.st /\ r.parent_turn = b.parent_turn
          /\ r.results = b.results /\ r.targets = [b.targets EXCEPT ![c] = o.succ]
      <3>1. Unretained(b, c) \in Obligation
        BY <1>1 DEF Unretained, Obligation
      <3>2. /\ Unretained(b, c).st = b.st /\ Unretained(b, c).parent_turn = b.parent_turn
            /\ Unretained(b, c).results = b.results /\ Unretained(b, c).targets = b.targets
        BY <1>1 DEF Unretained, Obligation
      <3>3. PICK u \in Obligation : u = Unretained(b, c)
        BY <3>1
      <3>4. r = [u EXCEPT !.targets = [u.targets EXCEPT ![c] = o.succ]]
        BY <3>3 DEF Rebound
      <3>5. [u.targets EXCEPT ![c] = o.succ] \in [Thread -> 0..MaxTurn]
        BY <2>1, <2>2 DEF Obligation
      <3>6. PICK f \in [Thread -> 0..MaxTurn] : f = [u.targets EXCEPT ![c] = o.succ]
        BY <3>5
      <3>7. r = [u EXCEPT !.targets = f]
        BY <3>4, <3>6
      <3> HIDE DEF r
      <3>8. r \in Obligation /\ r.st = u.st /\ r.parent_turn = u.parent_turn
              /\ r.results = u.results /\ r.targets = f
        BY <3>7 DEF Obligation
      <3> QED  BY <3>2, <3>3, <3>6, <3>8
    <2> HIDE DEF r
    <2>4. ASSUME NEW d \in Thread, r.results[d] # "none"
          PROVE  r.targets[d] \in Turn /\ Exact(d, r.targets[d], r.results[d])
      <3>1. d # c
        BY <1>8, <2>3, <2>4
      <3>2. b.targets \in [Thread -> 0..MaxTurn]
        BY <1>1 DEF Obligation
      <3>3. r.targets[d] = b.targets[d] /\ r.results[d] = b.results[d]
        BY <2>3, <3>1, <3>2
      <3> QED  BY <1>4, <2>4, <3>3
    <2>5. obl' \in Obligations /\ OwnerInv' /\ BoundInv' /\ ExactTerminal'
      BY <1>0, <1>1, <1>4, <1>6, <1>8, <2>3, <2>4, OneReplaced
    <2>6. pc \in {"succ", "finish"} /\ (~alive[c]) \in BOOLEAN
      BY <1>1
    <2> HIDE DEF pc
    <2>7. q \in Observer /\ q.turn = o.succ /\ q.status = o.status /\ q.pc = pc
      BY <1>2, <2>1, <2>2, <2>6 DEF Observer
    <2> HIDE DEF q
    <2>8. ObserverExact(c, q)
      BY <2>1, <2>6, <2>7 DEF ObserverExact
    <2>9. obs' \in Observers /\ ObserverInv'
      BY <1>0, <1>6, <1>8, <2>7, <2>8, StepTo
    <2> QED  BY <1>5, <2>5, <2>9, ObserverAndStore
  <1> QED  BY <1>3, <1>7, <1>8

\* The lease goes, the chain of successors goes on.
LEMMA FinishContinuationKeeps ==
    ASSUME IInv, NEW c \in Thread, NEW g \in Gen, NEW n \in ObsId, FinishContinuation(c, g, n)
    PROVE  IInv'
  <1>0. TypeOK /\ SlotInv /\ LeaseInv /\ OwnerInv /\ BoundInv /\ ObserverInv /\ ExactTerminal
    BY DEF IInv
  <1> DEFINE o == obs[c][g][n]
             q == [o EXCEPT !.inner = 0, !.pred = 0, !.pc = After(o.status)]
             gone(l) == l.gen = o.inner /\ l.pred = o.pred /\ l.succ = o.turn
  <1>1. o \in Observer /\ ObserverExact(c, o) /\ o.pc = "finish"
    BY <1>0 DEF TypeOK, ObserverInv, FinishContinuation, At
  <1>2. /\ UNCHANGED <<turnVars, obl, nextGen, mailVars>>
        /\ lease' = [lease EXCEPT ![c] = {l \in lease[c] : ~gone(l)}]
        /\ Goto(c, g, n, q)
    BY DEF FinishContinuation
  <1> HIDE DEF o, gone
  <1>3. Persists /\ SlotInv'
    BY <1>0, <1>2, TurnsKeep
  <1>4. lease' \in [Thread -> SUBSET Lease] /\ \A t \in Thread : lease'[t] \subseteq lease[t]
    BY <1>0, <1>2 DEF TypeOK
  <1>5. LeaseInv'
    BY <1>0, <1>3, <1>4, LeasesKeep
  <1>6. obs' \in Observers /\ ObserverInv'
    <2>0. After(o.status) \in {"snap", "resolve"} /\ 0 \in 0..MaxTurn /\ 0 \in 0..MaxGen
      BY BoundAssumption DEF After
    <2>1. /\ q \in Observer /\ q.turn = o.turn /\ q.status = o.status
          /\ q.pc \in {"snap", "resolve"}
      BY <1>1, <2>0 DEF Observer
    <2>2. o.turn \in Turn /\ Exact(c, o.turn, o.status)
      BY <1>1 DEF ObserverExact
    <2> HIDE DEF q
    <2>3. ObserverExact(c, q)
      BY <2>1, <2>2 DEF ObserverExact
    <2> QED  BY <1>0, <1>2, <1>3, <2>1, <2>3, StepTo
  <1>7. OwnerInv' /\ BoundInv' /\ ExactTerminal'
    BY <1>0, <1>2, <1>3, StoreKeeps
  <1>8. TypeOK'
    BY <1>0, <1>2, <1>4, <1>6 DEF TypeOK, turnVars, mailVars, Observers
  <1> QED  BY <1>3, <1>5, <1>6, <1>7, <1>8 DEF IInv

\* The retention of a child that was shut down is retired.
LEMMA RetireKeeps ==
    ASSUME IInv, NEW c \in Thread, NEW g \in Gen, NEW n \in ObsId, RetireRetention(c, g, n)
    PROVE  IInv'
  <1>0. TypeOK /\ SlotInv /\ LeaseInv /\ OwnerInv /\ BoundInv /\ ObserverInv /\ ExactTerminal
    BY DEF IInv
  <1> DEFINE p == Parent[c]
             o == obs[c][g][n]
             q == [o EXCEPT !.status = "Shutdown", !.pc = "resolve"]
  <1>1. p \in Thread /\ obl[p][g] \in Obligation
    BY <1>0, ThreadAssumption DEF TypeOK
  <1>2. o \in Observer /\ ObserverExact(c, o) /\ o.pc = "retire"
    BY <1>0 DEF TypeOK, ObserverInv, RetireRetention, At
  <1>3. /\ UNCHANGED <<turnVars, nextGen, lease, mailVars>>
        /\ \/ obl' = [obl EXCEPT ![p][g] = Unretained(obl[p][g], c)] /\ Goto(c, g, n, q)
           \/ Exit(c, g, n) /\ UNCHANGED obl
    BY DEF RetireRetention
  <1> HIDE DEF o, p
  <1>4. Persists
    BY <1>0, <1>3, TurnsKeep
  <1>5. obs' \in Observers /\ ObserverInv'
    <2>1. /\ q \in Observer /\ q.turn = o.turn /\ q.status = "Shutdown" /\ q.pc = "resolve"
      BY <1>2 DEF Observer, Status
    <2>2. o.turn \in Turn /\ Exact(c, o.turn, "Shutdown")
      BY <1>2 DEF ObserverExact, Exact
    <2> HIDE DEF q
    <2>3. ObserverExact(c, q)
      BY <2>1, <2>2 DEF ObserverExact
    <2> QED  BY <1>0, <1>3, <1>4, <2>1, <2>3, StepTo, ExitKeeps
  <1>6. obl' \in Obligations /\ OwnerInv' /\ BoundInv' /\ ExactTerminal'
    <2>1. CASE UNCHANGED obl
      BY <1>0, <1>4, <2>1, StoreKeeps DEF TypeOK, Obligations
    <2>2. CASE obl' = [obl EXCEPT ![p][g] = Unretained(obl[p][g], c)]
      <3>1. Lowers(obl[p][g], Unretained(obl[p][g], c))
        BY <1>1, UnretainedLowers
      <3>2. obl' \in Obligations /\ \A x \in Thread, h \in Gen : Lowers(obl[x][h], obl'[x][h])
        BY <1>0, <1>1, <2>2, <3>1, OneLowered
      <3> QED  BY <1>0, <1>4, <3>2, LowersKeeps
    <2> QED  BY <1>3, <2>1, <2>2
  <1>7. /\ UNCHANGED <<turnVars, nextGen, lease>>
        /\ prov' \in [Thread -> [Turn -> 0..MaxGen]]
        /\ op' \in [Thread -> Seq(Turn)]
        /\ mail' \in [Thread -> [Mail -> Nat]]
    BY <1>0, <1>3 DEF mailVars, TypeOK
  <1> QED  BY <1>5, <1>6, <1>7, ObserverAndStore

-----------------------------------------------------------------------------
(* The theorems.                                                           *)

\* A step of a turn, of the tools it calls or of the submission loop.
LEMMA TurnStepKeeps ==
    ASSUME IInv, NEW p \in Thread, TurnStep(p)
    PROVE  IInv'
  <1>0. users \in [Thread -> Nat]
    BY DEF IInv, TypeOK
  <1>1. CASE UserStart(p) \/ Wake(p)
    <2>1. StartTurn(p) /\ users' \in [Thread -> Nat]
      BY <1>0, <1>1 DEF UserStart, Wake
    <2> QED  BY <2>1, StartKeeps
  <1>2. CASE ActiveDelivery(p) \/ OrphanDelivery(p)
    BY <1>2, DeliveryKeeps
  <1>3. CASE \E s \in EndStatus : FinishTurn(p, s) \/ AbortTurn(p, s)
    BY <1>3, TakeKeeps
  <1>4. CASE \E d \in dying[p] : RecordTerminal(p, d)
    BY <1>4, RecordKeeps
  <1>5. CASE ClearSlot(p) \/ Shutdown(p)
    BY <1>5, CloseKeeps
  <1>6. CASE \E S \in SUBSET Child(p), kind \in Kinds : Register(p, S, kind)
    BY <1>6, RegisterKeeps
  <1>7. CASE \E S \in SUBSET Child(p) : TargetfulWait(p, S)
    BY <1>7, WaitKeeps
  <1>8. CASE HandleOp(p)
    BY <1>8, HandleOpKeeps
  <1> QED  BY <1>1, <1>2, <1>3, <1>4, <1>5, <1>6, <1>7, <1>8 DEF TurnStep

\* A step of an observer task.
LEMMA ObserverStepKeeps ==
    ASSUME IInv, NEW c \in Thread, NEW g \in Gen, NEW n \in ObsId, ObserverStep(c, g, n)
    PROVE  IInv'
  BY SeeTerminalKeeps, SnapshotKeeps, ResolveKeeps, MarkKeeps, SendKeeps, FinishDispatchKeeps,
     AwaitKeeps, RebindKeeps, SeeSuccessorKeeps, FinishContinuationKeeps, RetireKeeps
  DEF ObserverStep

\* A step that changes no variable.
LEMMA StutterKeeps ==
    ASSUME IInv, UNCHANGED vars
    PROVE  IInv'
  <1>1. TypeOK /\ ObserverInv
    BY DEF IInv
  <1>2. UNCHANGED <<turnVars, storeVars, mailVars>> /\ UNCHANGED obs
    BY DEF vars, turnVars, storeVars, mailVars
  <1>3. obs' \in Observers /\ ObserverInv'
    <2>1. Persists
      BY <1>2, TurnsKeep DEF IInv
    <2> QED  BY <1>1, <1>2, <2>1, ObserversKeep DEF TypeOK, Observers
  <1> QED  BY <1>2, <1>3, ObserverOnly

\* IInv is an invariant of the specification.
THEOREM InductiveInvariant == Spec => []IInv
  <1>1. Init => IInv
    BY InitInv
  <1>2. IInv /\ [Next]_vars => IInv'
    BY TurnStepKeeps, ObserverStepKeeps, StutterKeeps DEF Next
  <1> QED  BY <1>1, <1>2, PTL DEF Spec

\* Every state of sessions, stores, mailboxes and observers has its type: a
\* status recorded for a target is final, a submitted trigger names a turn, a
\* lease leads from a turn to a turn.
THEOREM TypeCorrect == Spec => []TypeOK
  <1>1. IInv => TypeOK
    BY DEF IInv
  <1> QED  BY <1>1, InductiveInvariant, PTL

\* For any tree of threads and any bounds, the result a parent's store holds
\* for a child is the terminal recorded for exactly the turn the target is
\* bound to, or the child was shut down (resolve_join_target_inner,
\* rebind_join_target_to_successor, record_nested_join_turn_terminal).
THEOREM ExactTerminalHolds == Spec => []ExactTerminal
  <1>1. IInv => ExactTerminal
    BY DEF IInv
  <1> QED  BY <1>1, InductiveInvariant, PTL

=============================================================================
