------------------------- MODULE OwnedJoin_delivery -------------------------
(***************************************************************************)
(* Continuations and aggregates of OwnedJoin, for any tree of threads and  *)
(* any bounds: a final result is settled, and, as long as no turn owns two *)
(* live joins, a turn has one continuation and a join one aggregate.       *)
(***************************************************************************)
EXTENDS OwnedJoin_refinement

USE DEF None

-----------------------------------------------------------------------------
(* Who owns a join, and to whom a turn handed its work on.                 *)

\* The obligation is a join that has not been consumed or retired.
Open(o) == o.st = "live" /\ o.trigger_turn

\* The intermediate aggregate of a retained join is out for its owning turn.
Retention(o) == o.retained_pred \in {None, o.parent_turn}

RetentionInv == \A p \in Thread, g \in Gen : Retention(obl[p][g])

\* A join is owned by a turn that exists, a lease was handed on by a turn that
\* is over.
OrderInv ==
    \A p \in Thread :
        /\ \A g \in Gen : obl[p][g].st = "live" => obl[p][g].parent_turn <= cur[p]
        /\ \A l \in lease[p] : l.pred < cur[p]

CInv == RInv /\ RetentionInv /\ OrderInv

\* Turn k of thread c has no continuation.
Quiet(c, k) ==
    /\ \A l \in lease[c] : l.pred # k
    /\ \A g \in Gen : Open(obl[c][g]) => obl[c][g].parent_turn # k

\* A Completed that is not retained stands for a turn without continuation,
\* also while an observer carries it to the parent's store.
SettledInv ==
    /\ \A p \in Thread, g \in Gen, c \in Thread :
         obl[p][g].results[c] = "Completed" /\ c \notin obl[p][g].retained_targets
           => Quiet(c, obl[p][g].targets[c])
    /\ \A c \in Thread, g \in Gen, n \in ObsId :
         obs[c][g][n].pc = "resolve" /\ obs[c][g][n].status = "Completed"
           => Quiet(c, obs[c][g][n].turn)

\* A turn hands its work on once, and keeps no join when it has.
UniqueInv ==
    \A p \in Thread : \A l \in lease[p] :
        /\ \A m \in lease[p] : m.pred = l.pred => m = l
        /\ \A g \in Gen : Open(obl[p][g]) => obl[p][g].parent_turn # l.pred

-----------------------------------------------------------------------------
(* The way of an aggregate.                                                *)

NoMark(p, g) == \A c \in Child(p), n \in ObsId : obs[c][g][n].pc # "mark"
NoProv(p, g) == \A k \in Turn : prov[p][k] # g
NoMailOf(p, g) == \A k \in Turn : mail[p][[gen |-> g, pred |-> k]] = 0

\* No aggregate of the generation is on its way.
Nothing(p, g) == NoMark(p, g) /\ NoProv(p, g) /\ NoMailOf(p, g)

\* One observer is about to record the trigger.
Marking(p, g) ==
    /\ NoProv(p, g) /\ NoMailOf(p, g)
    /\ \E c \in Child(p), n \in ObsId :
         /\ obs[c][g][n].pc = "mark" /\ obs[c][g][n].owner = obl[p][g].parent_turn
         /\ \A d \in Child(p), m \in ObsId : obs[d][g][m].pc = "mark" => d = c /\ m = n

\* The trigger is recorded for the owning turn.
Recorded(p, g) ==
    /\ NoMark(p, g) /\ NoMailOf(p, g)
    /\ obl[p][g].parent_turn \in Turn
    /\ \A k \in Turn : prov[p][k] = g <=> k = obl[p][g].parent_turn

\* The aggregate is in the mailbox, for the owning turn.
Queued(p, g) ==
    /\ NoMark(p, g) /\ NoProv(p, g)
    /\ obl[p][g].parent_turn \in Turn
    /\ \A k \in Turn : mail[p][[gen |-> g, pred |-> k]] =
                         IF k = obl[p][g].parent_turn THEN 1 ELSE 0

One(p, g) == Marking(p, g) \/ Recorded(p, g) \/ Queued(p, g)

\* Turn k of p cannot get a join any more.
Over(p, k) == k < cur[p] \/ (k = cur[p] /\ slot[p] # "running")

\* What is on its way for one generation, by what became of it.
Flight(p, g) ==
    LET o == obl[p][g]
    IN  /\ o.st \in {"unused", "consumed"} => Nothing(p, g)
        /\ o.st = "live" /\ ~o.trigger_sent => Nothing(p, g)
        /\ o.st = "live" /\ o.trigger_sent => One(p, g) \/ (~alive[p] /\ Nothing(p, g))
        /\ o.st = "retired" =>
             /\ Over(p, o.parent_turn)
             /\ \A h \in Gen : obl[p][h].st = "live" => obl[p][h].parent_turn # o.parent_turn
             /\ \A c \in Child(p), n \in ObsId :
                  obs[c][g][n].pc = "mark" => obs[c][g][n].owner = o.parent_turn

FlightInv == \A p \in Thread, g \in Gen : Flight(p, g)

\* A registered obligation is a join (the wait tool is not in use) of some
\* turn, is ready exactly when its one completion was handed out, and is
\* retired only by a turn that failed.
Proper(o) ==
    /\ o.st # "unused" => o.trigger_turn /\ o.parent_turn \in Turn
    /\ o.ready = o.trigger_sent
    /\ o.st = "retired" => "Errored" \in Endings

ProperInv == \A p \in Thread, g \in Gen : Proper(obl[p][g])

\* Nobody observes the root; a turn ends in one of the ways it may.
EdgeInv ==
    /\ \A g \in Gen, n \in ObsId : obs[Root][g][n].pc = "off"
    /\ \A p \in Thread : \A d \in dying[p] : d.status \in Endings

AInv == CInv /\ FlightInv /\ ProperInv /\ EdgeInv

-----------------------------------------------------------------------------
(* What the operations on an obligation leave alone.                       *)

\* The join stays with its turn.
Stays(o, o2) ==
    /\ o2.st = o.st /\ o2.parent_turn = o.parent_turn /\ o2.trigger_turn = o.trigger_turn
    /\ Retention(o) => Retention(o2)

\* Its completion is not handed out either.
Rests(o, o2) == Stays(o, o2) /\ o2.ready = o.ready /\ o2.trigger_sent = o.trigger_sent

\* No result becomes final.
Settles(o, o2) ==
    \A c \in Thread :
        o2.results[c] = "Completed" /\ c \notin o2.retained_targets =>
            /\ o.results[c] = "Completed" /\ c \notin o.retained_targets
            /\ o2.targets[c] = o.targets[c]

\* An obligation that is not touched.
LEMMA SameRests ==
    ASSUME NEW o
    PROVE  Rests(o, o) /\ Settles(o, o)
  BY DEF Rests, Stays, Settles

\* finish_join_dispatch.
LEMMA DispatchedRests ==
    ASSUME NEW o \in Obligation
    PROVE  Rests(o, Dispatched(o)) /\ Settles(o, Dispatched(o))
  BY DEF Rests, Stays, Settles, Retention, Dispatched, Obligation

\* retire_join_target_successor_retention: the target has no result.
LEMMA UnretainedRests ==
    ASSUME NEW o \in Obligation, NEW c \in Thread, AwaitsSuccessor(o, c)
    PROVE  Rests(o, Unretained(o, c)) /\ Settles(o, Unretained(o, c))
  BY DEF Rests, Stays, Settles, Retention, Unretained, Obligation, AwaitsSuccessor

\* rebind_join_target_to_successor: the target has no result.
LEMMA ReboundRests ==
    ASSUME NEW o \in Obligation, NEW c \in Thread, NEW succ \in Turn, AwaitsSuccessor(o, c)
    PROVE  Rests(o, Rebound(o, c, succ)) /\ Settles(o, Rebound(o, c, succ))
  <1> DEFINE q == Rebound(o, c, succ)
  <1>1. /\ q.st = o.st /\ q.parent_turn = o.parent_turn /\ q.trigger_turn = o.trigger_turn
        /\ q.ready = o.ready /\ q.trigger_sent = o.trigger_sent
        /\ q.retained_pred = o.retained_pred /\ q.results = o.results
        /\ q.retained_targets = o.retained_targets \ {c}
        /\ q.targets = [o.targets EXCEPT ![c] = succ]
    BY DEF Rebound, Unretained, Obligation
  <1>2. o.results[c] = "none" /\ o.targets \in [Thread -> 0..MaxTurn]
    BY DEF AwaitsSuccessor, Obligation
  <1> HIDE DEF q
  <1>3. Rests(o, q) /\ Settles(o, q)
    BY <1>1, <1>2 DEF Rests, Stays, Settles, Retention
  <1> QED  BY <1>3 DEF q

\* A retirement leaves everything but the membership.
LEMMA RetiredRests ==
    ASSUME NEW o \in Obligation
    PROVE  LET q == [o EXCEPT !.st = "retired"]
           IN  /\ q.st = "retired" /\ q.parent_turn = o.parent_turn
               /\ q.trigger_turn = o.trigger_turn /\ Retention(o) => Retention(q)
               /\ q.ready = o.ready /\ q.trigger_sent = o.trigger_sent /\ Settles(o, q)
  BY DEF Settles, Retention, Obligation

\* q is o after target c was resolved: at most one result changes, and the
\* completion is handed out at most once.
Resolves(o, q, c, status, retain) ==
    /\ Stays(o, q) /\ q.targets = o.targets
    /\ o.ready = o.trigger_sent => q.ready = q.trigger_sent
    /\ q.trigger_sent = (o.trigger_sent \/ Fires(o, c, status, retain))
    /\ Fires(o, c, status, retain) => ~o.trigger_sent
    /\ \A d \in Thread \ {c} : q.results[d] = o.results[d]
    /\ q.results[c] = IF o.results[c] = "none" THEN status ELSE o.results[c]
    /\ q.retained_targets = IF retain THEN o.retained_targets \cup {c} ELSE o.retained_targets

\* resolve_join_target_inner.
LEMMA ResolveStays ==
    ASSUME NEW o \in Obligation, NEW c \in Thread, NEW status \in Status, NEW retain \in BOOLEAN
    PROVE  Resolves(o, Resolve(o, c, status, retain), c, status, retain)
  <1> DEFINE keep == IF retain THEN o.retained_targets \cup {c} ELSE o.retained_targets
             res == IF o.results[c] = "none" THEN [o.results EXCEPT ![c] = status] ELSE o.results
             complete == AllResolved(o, res) /\ ~(keep # {} /\ o.retained_pred # None)
             rp == IF complete /\ ~o.trigger_sent /\ o.trigger_turn /\ keep # {}
                   THEN o.parent_turn ELSE o.retained_pred
             q == Resolve(o, c, status, retain)
  <1>1. q = [o EXCEPT !.results = res, !.retained_targets = keep,
                      !.ready = @ \/ complete, !.trigger_sent = @ \/ complete,
                      !.retained_pred = rp]
    BY DEF Resolve
  <1>2. complete \in BOOLEAN /\ rp \in {o.parent_turn, o.retained_pred}
    OBVIOUS
  <1>3. /\ \A d \in Thread \ {c} : res[d] = o.results[d]
        /\ res[c] = IF o.results[c] = "none" THEN status ELSE o.results[c]
    BY DEF Obligation
  <1> HIDE DEF res, keep, complete, rp, q
  <1>4. /\ q.st = o.st /\ q.parent_turn = o.parent_turn /\ q.trigger_turn = o.trigger_turn
        /\ q.targets = o.targets /\ q.results = res /\ q.retained_targets = keep
        /\ q.retained_pred = rp
        /\ q.ready = (o.ready \/ complete) /\ q.trigger_sent = (o.trigger_sent \/ complete)
    BY <1>1 DEF Obligation
  <1>5. Stays(o, q)
    BY <1>2, <1>4 DEF Stays, Retention
  <1>6. Fires(o, c, status, retain) = (~o.trigger_sent /\ q.trigger_sent)
    BY DEF Fires, q
  <1>7. o.ready = o.trigger_sent => q.ready = q.trigger_sent
    BY <1>4
  <1>8. q.trigger_sent = (o.trigger_sent \/ Fires(o, c, status, retain))
    <2>1. o.trigger_sent \in BOOLEAN
      BY DEF Obligation
    <2> QED  BY <1>2, <1>4, <1>6, <2>1
  <1>9. q.retained_targets = IF retain THEN o.retained_targets \cup {c} ELSE o.retained_targets
    BY <1>4 DEF keep
  <1> QED  BY <1>3, <1>4, <1>5, <1>6, <1>7, <1>8, <1>9 DEF q, Resolves

\* acknowledge_ready_join_delivery_locked: the join is consumed, or opens
\* another round for the delivery turn.
LEMMA AcknowledgeMoves ==
    ASSUME NEW o \in Obligation, Retention(o), o.parent_turn \in Turn, NEW succ \in Turn
    PROVE  LET q == Acknowledge(o, o.parent_turn, succ)
           IN  /\ Retention(q) /\ q.trigger_turn = o.trigger_turn /\ Settles(o, q)
               /\ \/ /\ q.st = o.st /\ q.parent_turn = succ
                     /\ ~q.trigger_sent /\ ~q.ready
                  \/ /\ q.st = "consumed" /\ q.parent_turn = o.parent_turn
                     /\ q.trigger_sent = o.trigger_sent /\ q.ready = o.ready
  <1> DEFINE q == Acknowledge(o, o.parent_turn, succ)
             res == [c \in Thread |-> IF c \in o.retained_targets THEN "none" ELSE o.results[c]]
  <1>1. CASE o.retained_pred = o.parent_turn
    <2>1. q = [[o EXCEPT !.results = res, !.ready = FALSE, !.trigger_sent = FALSE,
                         !.dispatch_complete = FALSE, !.retained_pred = 0]
                 EXCEPT !.parent_turn = succ]
      BY <1>1 DEF Acknowledge, Released
    <2>2. \A c \in Thread : c \notin o.retained_targets /\ res[c] = "Completed"
                              => o.results[c] = "Completed"
      OBVIOUS
    <2>3. \A c \in Thread : c \in o.retained_targets => res[c] = "none"
      OBVIOUS
    <2> HIDE DEF res, q
    <2>4. /\ q.st = o.st /\ q.parent_turn = succ /\ q.trigger_turn = o.trigger_turn
          /\ q.targets = o.targets /\ q.results = res
          /\ q.retained_targets = o.retained_targets /\ q.retained_pred = 0
          /\ q.ready = FALSE /\ q.trigger_sent = FALSE
      BY <2>1 DEF Obligation
    <2>5. Settles(o, q)
      BY <2>2, <2>3, <2>4 DEF Settles
    <2> QED  BY <2>4, <2>5 DEF Retention, q
  <1>2. CASE o.retained_pred # o.parent_turn
    <2>1. q = [o EXCEPT !.st = "consumed"]
      BY <1>2 DEF Acknowledge
    <2> HIDE DEF q
    <2>2. /\ q.st = "consumed" /\ q.parent_turn = o.parent_turn
          /\ q.trigger_turn = o.trigger_turn /\ q.targets = o.targets
          /\ q.results = o.results /\ q.retained_targets = o.retained_targets
          /\ q.retained_pred = o.retained_pred
          /\ q.ready = o.ready /\ q.trigger_sent = o.trigger_sent
      BY <2>1 DEF Obligation
    <2> QED  BY <2>2 DEF Retention, Settles, q
  <1> QED  BY <1>1, <1>2
-----------------------------------------------------------------------------
(* Every step: who may come to own a join or to have handed work on.       *)

\* A join comes only to the running turn, a lease only from a turn that owned
\* a join and is not the current one.
CStep ==
    \A p \in Thread :
        /\ cur[p] <= cur'[p]
        /\ \A k \in Turn : ended[p][k] # "none" => ended'[p][k] = ended[p][k]
        /\ \A g \in Gen :
             /\ Retention(obl'[p][g])
             /\ obl'[p][g].st = "live" =>
                  \/ /\ obl[p][g].st = "live"
                     /\ obl'[p][g].parent_turn = obl[p][g].parent_turn
                     /\ obl'[p][g].trigger_turn = obl[p][g].trigger_turn
                  \/ obl'[p][g].parent_turn = cur'[p] /\ slot'[p] = "running"
        /\ \A l \in lease'[p] :
             \/ \E m \in lease[p] : m.pred = l.pred
             \/ \E g \in Gen : /\ Open(obl[p][g]) /\ obl[p][g].parent_turn = l.pred
                               /\ l.pred # cur'[p]

\* Such a step keeps the order of turns, joins and leases.
LEMMA CStepKeeps ==
    ASSUME CInv, IInv', CStep
    PROVE  RetentionInv' /\ OrderInv'
  <1>0. TypeOK /\ TypeOK' /\ OrderInv
    BY DEF CInv, RInv, IInv
  <1>1. RetentionInv'
    BY DEF CStep, RetentionInv, Retention
  <1>2. ASSUME NEW p \in Thread
        PROVE  cur[p] \in Nat /\ cur'[p] \in Nat /\ cur[p] <= cur'[p]
    BY <1>0 DEF TypeOK, Turn, CStep
  <1>3. ASSUME NEW p \in Thread, NEW g \in Gen, obl'[p][g].st = "live"
        PROVE  obl'[p][g].parent_turn <= cur'[p]
    <2>1. CASE obl'[p][g].parent_turn = cur'[p]
      BY <1>2, <2>1
    <2>2. CASE obl'[p][g].parent_turn # cur'[p]
      <3>1. obl[p][g].st = "live" /\ obl'[p][g].parent_turn = obl[p][g].parent_turn
        BY <1>3, <2>2 DEF CStep
      <3>2. obl[p][g].parent_turn \in Nat /\ obl[p][g].parent_turn <= cur[p]
        BY <1>0, <3>1 DEF TypeOK, Obligation, OrderInv
      <3> QED  BY <1>2, <3>1, <3>2
    <2> QED  BY <2>1, <2>2
  <1>4. ASSUME NEW p \in Thread, NEW l \in lease'[p]
        PROVE  l.pred < cur'[p]
    <2>0. l.pred \in Nat
      BY <1>0 DEF TypeOK, Lease, Turn
    <2>1. CASE \E m \in lease[p] : m.pred = l.pred
      <3>1. l.pred < cur[p]
        BY <1>0, <2>1 DEF OrderInv
      <3> QED  BY <1>2, <2>0, <3>1
    <2>2. CASE \E g \in Gen : /\ Open(obl[p][g]) /\ obl[p][g].parent_turn = l.pred
                              /\ l.pred # cur'[p]
      <3>1. l.pred <= cur[p] /\ l.pred # cur'[p]
        BY <1>0, <2>2 DEF OrderInv, Open
      <3> QED  BY <1>2, <2>0, <3>1
    <2> QED  BY <2>1, <2>2 DEF CStep
  <1> QED  BY <1>1, <1>3, <1>4 DEF OrderInv

\* A recorded turn without continuation never gets one.
LEMMA QuietPersists ==
    ASSUME CInv, IInv', CStep, NEW c \in Thread, NEW k \in Turn, ended[c][k] # "none", Quiet(c, k)
    PROVE  Quiet(c, k)'
  <1>1. ASSUME NEW l \in lease'[c]
        PROVE  l.pred # k
    BY DEF CStep, Quiet
  <1>2. ASSUME NEW g \in Gen, Open(obl'[c][g]), obl'[c][g].parent_turn = k
        PROVE  FALSE
    <2>1. CASE k = cur'[c] /\ slot'[c] = "running"
      <3>1. ended'[c][k] = "none"
        BY <2>1 DEF IInv, SlotInv
      <3> QED  BY <3>1 DEF CStep
    <2>2. CASE /\ obl[c][g].st = "live"
               /\ obl'[c][g].parent_turn = obl[c][g].parent_turn
               /\ obl'[c][g].trigger_turn = obl[c][g].trigger_turn
      BY <1>2, <2>2 DEF Open, Quiet
    <2> QED  BY <1>2, <2>1, <2>2 DEF CStep, Open
  <1> QED  BY <1>1, <1>2 DEF Quiet, Open

\* A step in which every join stays with its turn.
LEMMA StayStep ==
    ASSUME CInv, \A p \in Thread, g \in Gen : Stays(obl[p][g], obl'[p][g]),
           \A p \in Thread : lease'[p] \subseteq lease[p], UNCHANGED <<cur, ended>>
    PROVE  CStep
  <1>0. TypeOK /\ RetentionInv
    BY DEF CInv, RInv, IInv
  <1>1. \A p \in Thread : cur[p] \in Nat
    BY <1>0 DEF TypeOK, Turn
  <1>2. \A p \in Thread, g \in Gen :
          /\ Retention(obl'[p][g])
          /\ obl'[p][g].st = obl[p][g].st
          /\ obl'[p][g].parent_turn = obl[p][g].parent_turn
          /\ obl'[p][g].trigger_turn = obl[p][g].trigger_turn
    BY <1>0 DEF Stays, RetentionInv
  <1> QED  BY <1>1, <1>2 DEF CStep

\* A step that changes one obligation.
LEMMA OneRests ==
    ASSUME TypeOK, NEW p \in Thread, NEW g \in Gen, NEW o, obl' = [obl EXCEPT ![p][g] = o]
    PROVE  /\ obl'[p][g] = o
           /\ \A q \in Thread, h \in Gen : ~(q = p /\ h = g) => obl'[q][h] = obl[q][h]
           /\ Stays(obl[p][g], o) =>
                \A q \in Thread, h \in Gen : Stays(obl[q][h], obl'[q][h])
           /\ Rests(obl[p][g], o) =>
                \A q \in Thread, h \in Gen : Rests(obl[q][h], obl'[q][h])
           /\ Settles(obl[p][g], o) =>
                \A q \in Thread, h \in Gen : Settles(obl[q][h], obl'[q][h])
  <1>1. /\ obl'[p][g] = o
        /\ \A q \in Thread, h \in Gen : ~(q = p /\ h = g) => obl'[q][h] = obl[q][h]
    BY DEF TypeOK
  <1>2. \A q \in Thread, h \in Gen : (q = p /\ h = g) \/ obl'[q][h] = obl[q][h]
    BY <1>1
  <1>3. \A q \in Thread, h \in Gen :
          /\ Stays(obl[q][h], obl[q][h]) /\ Rests(obl[q][h], obl[q][h])
          /\ Settles(obl[q][h], obl[q][h])
    BY SameRests DEF Rests
  <1> QED  BY <1>1, <1>2, <1>3, Zenon
-----------------------------------------------------------------------------
(* The steps of a turn.                                                    *)

\* What a delivery of p's mailbox into turn succ does to p's store: each join
\* whose aggregate is in the batch is acknowledged for its owning turn.
LEMMA DrainFacts ==
    ASSUME CInv, NEW p \in Thread, NEW succ \in 0..MaxTurn, DrainInto(p, succ)
    PROVE  /\ \A q \in Thread : q # p =>
                obl'[q] = obl[q] /\ lease'[q] = lease[q] /\ mail'[q] = mail[q]
           /\ mail'[p] = NoMail
           /\ \A g \in Gen :
                IF AckMail(p, g) = {} THEN obl'[p][g] = obl[p][g]
                ELSE LET o == obl[p][g]
                         to == IF succ = 0 THEN o.parent_turn ELSE succ
                     IN  /\ o.st = "live" /\ o.parent_turn \in Turn
                         /\ \E x \in AckMail(p, g) : x.pred = o.parent_turn
                         /\ obl'[p][g] = Acknowledge(o, o.parent_turn, to)
           /\ \A l \in lease'[p] :
                \/ l \in lease[p]
                \/ \E g \in Gen :
                     /\ AckMail(p, g) # {} /\ obl[p][g].trigger_turn
                     /\ succ # 0 /\ obl[p][g].parent_turn # succ
                     /\ l = [gen |-> g, pred |-> obl[p][g].parent_turn, succ |-> succ,
                             terminal |-> "none"]
  <1> DEFINE acked == {g \in Gen : AckMail(p, g) # {}}
             pred(g) == (CHOOSE x \in AckMail(p, g) : TRUE).pred
             to(g) == IF succ = 0 THEN pred(g) ELSE succ
             ack(g) == Acknowledge(obl[p][g], pred(g), to(g))
             new(g) == NewLease(obl[p][g], g, pred(g), to(g))
  <1>0. TypeOK /\ RetentionInv /\ OwnerInv
    BY DEF CInv, RInv, IInv
  <1>1. /\ obl' = [obl EXCEPT ![p] = [g \in Gen |-> IF g \in acked THEN ack(g) ELSE obl[p][g]]]
        /\ lease' = [lease EXCEPT ![p] = lease[p] \cup UNION {new(g) : g \in acked}]
        /\ mail' = [mail EXCEPT ![p] = NoMail]
    BY DEF DrainInto, Drained
  <1>2. ASSUME NEW g \in acked
        PROVE  /\ obl[p][g].st = "live" /\ obl[p][g].parent_turn \in Turn
               /\ pred(g) = obl[p][g].parent_turn
               /\ \E x \in AckMail(p, g) : x.pred = obl[p][g].parent_turn
    <2> DEFINE x == CHOOSE y \in AckMail(p, g) : TRUE
    <2>1. x \in AckMail(p, g) /\ pred(g) = x.pred /\ g \in Gen
      BY DEF acked
    <2>2. x \in Tagged(p) /\ x.gen = g /\ Acknowledgeable(p, g, x.pred)
      BY <2>1 DEF AckMail
    <2>3. obl[p][g].st = "live" /\ obl[p][g].parent_turn \in Turn
      BY <1>0, <2>1, <2>2 DEF Acknowledgeable, OwnerInv
    <2>4. x.pred = obl[p][g].parent_turn
      BY <1>0, <2>1, <2>2 DEF Acknowledgeable, RetentionInv, Retention
    <2> QED  BY <2>1, <2>2, <2>3, <2>4
  <1>3. \A q \in Thread : q # p =>
          obl'[q] = obl[q] /\ lease'[q] = lease[q] /\ mail'[q] = mail[q]
    <2> HIDE DEF acked, ack, new
    <2> QED  BY <1>0, <1>1 DEF TypeOK
  <1>4. mail'[p] = NoMail
    BY <1>0, <1>1 DEF TypeOK
  <1>5. ASSUME NEW g \in Gen
        PROVE  IF AckMail(p, g) = {} THEN obl'[p][g] = obl[p][g]
               ELSE LET o == obl[p][g]
                        t == IF succ = 0 THEN o.parent_turn ELSE succ
                    IN  /\ o.st = "live" /\ o.parent_turn \in Turn
                        /\ \E x \in AckMail(p, g) : x.pred = o.parent_turn
                        /\ obl'[p][g] = Acknowledge(o, o.parent_turn, t)
    <2>1. obl'[p][g] = IF g \in acked THEN ack(g) ELSE obl[p][g]
      <3> HIDE DEF acked, ack
      <3> QED  BY <1>0, <1>1 DEF TypeOK
    <2>2. g \in acked <=> AckMail(p, g) # {}
      BY DEF acked
    <2>3. CASE g \in acked
      <3>1. pred(g) = obl[p][g].parent_turn
        BY <1>2, <2>3
      <3>2. ack(g) = Acknowledge(obl[p][g], obl[p][g].parent_turn,
                                 IF succ = 0 THEN obl[p][g].parent_turn ELSE succ)
        <4> HIDE DEF pred
        <4> QED  BY <3>1
      <3> HIDE DEF acked, ack, pred, to
      <3> QED  BY <1>2, <2>1, <2>2, <2>3, <3>2
    <2>4. CASE g \notin acked
      BY <2>1, <2>2, <2>4
    <2> QED  BY <2>3, <2>4
  <1>6. ASSUME NEW l \in lease'[p], l \notin lease[p]
        PROVE  \E g \in Gen :
                     /\ AckMail(p, g) # {} /\ obl[p][g].trigger_turn
                     /\ succ # 0 /\ obl[p][g].parent_turn # succ
                     /\ l = [gen |-> g, pred |-> obl[p][g].parent_turn, succ |-> succ,
                             terminal |-> "none"]
    <2>1. PICK g \in acked : l \in new(g)
      <3> HIDE DEF acked, new
      <3>1. l \in UNION {new(g) : g \in acked}
        BY <1>0, <1>1, <1>6 DEF TypeOK
      <3> QED  BY <3>1
    <2>2. pred(g) = obl[p][g].parent_turn /\ g \in Gen /\ AckMail(p, g) # {}
      BY <1>2 DEF acked
    <2> HIDE DEF pred
    <2>3. /\ obl[p][g].trigger_turn /\ pred(g) # to(g)
          /\ l = [gen |-> g, pred |-> pred(g), succ |-> to(g), terminal |-> "none"]
      BY <2>1 DEF NewLease
    <2> QED  BY <2>2, <2>3
  <1> QED  BY <1>3, <1>4, <1>5, <1>6, Zenon

\* A delivery to a new turn, to the running turn, or to nobody.
LEMMA DrainCStep ==
    ASSUME CInv, NEW p \in Thread, NEW succ \in 0..MaxTurn, DrainInto(p, succ), UNCHANGED ended,
           \A q \in Thread : cur[q] <= cur'[q],
           succ # 0 => cur'[p] = succ /\ slot'[p] = "running"
    PROVE  /\ CStep
           /\ \A q \in Thread, g \in Gen : Settles(obl[q][g], obl'[q][g])
  <1>0. TypeOK /\ RetentionInv
    BY DEF CInv, RInv, IInv
  <1>1. ASSUME NEW q \in Thread, NEW g \in Gen
        PROVE  /\ Retention(obl'[q][g]) /\ Settles(obl[q][g], obl'[q][g])
               /\ obl'[q][g].st = "live" =>
                  \/ /\ obl[q][g].st = "live"
                     /\ obl'[q][g].parent_turn = obl[q][g].parent_turn
                     /\ obl'[q][g].trigger_turn = obl[q][g].trigger_turn
                  \/ obl'[q][g].parent_turn = cur'[q] /\ slot'[q] = "running"
    <2>1. CASE obl'[q][g] = obl[q][g]
      BY <1>0, <2>1, SameRests DEF RetentionInv
    <2>2. CASE obl'[q][g] # obl[q][g]
      <3> DEFINE o == obl[p][g]
                 to == IF succ = 0 THEN o.parent_turn ELSE succ
      <3>1. q = p /\ o.st = "live" /\ o.parent_turn \in Turn
            /\ obl'[p][g] = Acknowledge(o, o.parent_turn, to)
        BY <2>2, DrainFacts
      <3>2. to \in Turn /\ o \in Obligation /\ Retention(o)
        BY <1>0, <3>1, BoundAssumption DEF Turn, TypeOK, RetentionInv
      <3> HIDE DEF o
      <3>3. CASE succ = 0
        <4>1. to = o.parent_turn
          BY <3>3
        <4> HIDE DEF to
        <4>2. Retention(obl'[p][g]) /\ Settles(o, obl'[p][g])
              /\ obl'[p][g].trigger_turn = o.trigger_turn
              /\ obl'[p][g].parent_turn = o.parent_turn
          BY <3>1, <3>2, <4>1, AcknowledgeMoves
        <4> QED  BY <3>1, <4>2 DEF o
      <3>4. CASE succ # 0
        <4>1. to = succ
          BY <3>4
        <4> HIDE DEF to
        <4>2. Retention(obl'[p][g]) /\ Settles(o, obl'[p][g])
              /\ (obl'[p][g].st = "live" => obl'[p][g].parent_turn = succ)
          BY <3>1, <3>2, <4>1, AcknowledgeMoves
        <4> QED  BY <3>1, <3>4, <4>2 DEF o
      <3> QED  BY <3>3, <3>4
    <2> QED  BY <2>1, <2>2
  <1>2. ASSUME NEW q \in Thread, NEW l \in lease'[q]
        PROVE  \/ \E m \in lease[q] : m.pred = l.pred
               \/ \E g \in Gen : /\ Open(obl[q][g]) /\ obl[q][g].parent_turn = l.pred
                                 /\ l.pred # cur'[q]
    <2>1. CASE l \in lease[q]
      BY <2>1
    <2>2. CASE l \notin lease[q]
      <3>1. q = p
        BY <2>2, DrainFacts
      <3>2. PICK g \in Gen : /\ AckMail(p, g) # {} /\ obl[p][g].trigger_turn
                             /\ succ # 0 /\ obl[p][g].parent_turn # succ
                             /\ l = [gen |-> g, pred |-> obl[p][g].parent_turn, succ |-> succ,
                                     terminal |-> "none"]
        BY <2>2, <3>1, DrainFacts
      <3>3. obl[p][g].st = "live"
        BY <3>2, DrainFacts
      <3> QED  BY <3>1, <3>2, <3>3 DEF Open
    <2> QED  BY <2>1, <2>2
  <1> QED  BY <1>1, <1>2 DEF CStep

\* A turn starts, or takes a delivery.
LEMMA DeliveryStep ==
    ASSUME CInv, NEW p \in Thread,
           UserStart(p) \/ Wake(p) \/ ActiveDelivery(p) \/ OrphanDelivery(p)
    PROVE  /\ CStep /\ UNCHANGED obs
           /\ \A q \in Thread, g \in Gen : Settles(obl[q][g], obl'[q][g])
  <1>0. TypeOK
    BY DEF CInv, RInv, IInv
  <1>1. \A q \in Thread : cur[q] \in Nat /\ cur[q] \in Turn
    BY <1>0 DEF TypeOK, Turn
  <1>2. CASE UserStart(p) \/ Wake(p)
    <2>1. StartTurn(p)
      BY <1>2 DEF UserStart, Wake
    <2>2. cur[p] + 1 \in 0..MaxTurn /\ \A q \in Thread : cur[q] <= cur'[q]
      BY <1>0, <1>1, <2>1, BoundAssumption DEF StartTurn, TypeOK
    <2>3. cur'[p] = cur[p] + 1 /\ slot'[p] = "running" /\ DrainInto(p, cur[p] + 1)
          /\ UNCHANGED <<ended, obs>>
      BY <1>0, <2>1 DEF StartTurn, TypeOK
    <2> QED  BY <2>2, <2>3, DrainCStep
  <1>3. CASE ActiveDelivery(p)
    <2>1. cur[p] \in 0..MaxTurn /\ \A q \in Thread : cur[q] <= cur[q]
      BY <1>1, BoundAssumption DEF Turn
    <2>2. DrainInto(p, cur[p]) /\ slot[p] = "running" /\ UNCHANGED <<cur, slot, ended, obs>>
      BY <1>3 DEF ActiveDelivery, turnVars
    <2> QED  BY <2>1, <2>2, DrainCStep
  <1>4. CASE OrphanDelivery(p)
    <2>1. 0 \in 0..MaxTurn /\ \A q \in Thread : cur[q] <= cur[q]
      BY <1>1, BoundAssumption DEF Turn
    <2>2. DrainInto(p, 0) /\ UNCHANGED <<cur, slot, ended, obs>>
      BY <1>4 DEF OrphanDelivery, turnVars
    <2> QED  BY <2>1, <2>2, DrainCStep
  <1> QED  BY <1>2, <1>3, <1>4
\* What recording the terminal of turn d does to p's store and mailbox.
LEMMA RecordFacts ==
    ASSUME TypeOK, NEW p \in Thread, NEW d \in dying[p], RecordTerminal(p, d)
    PROVE  LET retired == IF IsFinal(d.status) THEN RetiredGens(p, d) ELSE {}
           IN  /\ \A q \in Thread : q # p =>
                    /\ obl'[q] = obl[q] /\ lease'[q] = lease[q] /\ mail'[q] = mail[q]
                    /\ ended'[q] = ended[q]
               /\ \A g \in Gen : obl'[p][g] = IF g \in retired THEN [obl[p][g] EXCEPT !.st = "retired"]
                                              ELSE obl[p][g]
               /\ mail'[p] = Without(p, retired)
               /\ \A k \in Turn : k # d.turn => ended'[p][k] = ended[p][k]
               /\ d.turn \in Turn /\ d.status \in EndStatus
               /\ \A l \in lease'[p] : \E m \in lease[p] :
                    l = IF m.succ = d.turn /\ m.terminal = "none" /\ IsFinal(d.status)
                        THEN [m EXCEPT !.terminal = d.status] ELSE m
               /\ UNCHANGED <<slot, cur, users, alive, nextGen, prov, op, obs>>
  <1> DEFINE final == IsFinal(d.status)
             retired == IF final THEN RetiredGens(p, d) ELSE {}
             mark(l) == IF l.succ = d.turn /\ l.terminal = "none" /\ final
                        THEN [l EXCEPT !.terminal = d.status] ELSE l
             marked == {mark(l) : l \in lease[p]}
  <1>1. /\ ended' = IF final THEN [ended EXCEPT ![p][d.turn] = d.status] ELSE ended
        /\ lease' = [lease EXCEPT ![p] = IF p = Root THEN {l \in marked : l.succ # d.turn}
                                         ELSE marked]
        /\ obl' = [obl EXCEPT ![p] = [g \in Gen |->
                     IF g \in retired THEN [obl[p][g] EXCEPT !.st = "retired"]
                     ELSE obl[p][g]]]
        /\ mail' = [mail EXCEPT ![p] = Without(p, retired)]
        /\ UNCHANGED <<slot, cur, users, alive, nextGen, prov, op, obs>>
    BY DEF RecordTerminal
  <1>2. d.turn \in Turn /\ d.status \in EndStatus
    BY DEF TypeOK
  <1> HIDE DEF retired, final, mark
  <1>3. \A q \in Thread : q # p =>
          /\ obl'[q] = obl[q] /\ lease'[q] = lease[q] /\ mail'[q] = mail[q]
          /\ ended'[q] = ended[q]
    <2> HIDE DEF marked
    <2> QED  BY <1>1 DEF TypeOK
  <1>4. /\ \A g \in Gen : obl'[p][g] = IF g \in retired THEN [obl[p][g] EXCEPT !.st = "retired"]
                                       ELSE obl[p][g]
        /\ mail'[p] = Without(p, retired)
    BY <1>1 DEF TypeOK
  <1>5. \A k \in Turn : k # d.turn => ended'[p][k] = ended[p][k]
    BY <1>1, <1>2 DEF TypeOK
  <1>6. \A l \in lease'[p] : \E m \in lease[p] : l = mark(m)
    <2>1. lease'[p] \subseteq marked
      BY <1>1 DEF TypeOK
    <2> QED  BY <2>1
  <1> QED  BY <1>1, <1>2, <1>3, <1>4, <1>5, <1>6 DEF retired, final, mark

\* The terminal of a turn moves no join.
LEMMA RecordCStep ==
    ASSUME CInv, NEW p \in Thread, NEW d \in dying[p], RecordTerminal(p, d)
    PROVE  /\ CStep /\ UNCHANGED obs
           /\ \A q \in Thread, g \in Gen : Settles(obl[q][g], obl'[q][g])
  <1>0. TypeOK /\ RetentionInv /\ SlotInv
    BY DEF CInv, RInv, IInv
  <1>1. \A q \in Thread : cur[q] \in Nat /\ cur'[q] = cur[q]
    <2>1. UNCHANGED cur
      BY <1>0, RecordFacts
    <2> QED  BY <1>0, <2>1 DEF TypeOK, Turn
  <1>2. \A q \in Thread, k \in Turn : ended[q][k] # "none" => ended'[q][k] = ended[q][k]
    <2>1. ended[p][d.turn] = "none"
      BY <1>0 DEF SlotInv
    <2> QED  BY <1>0, <2>1, RecordFacts
  <1>3. ASSUME NEW q \in Thread, NEW g \in Gen
        PROVE  /\ Retention(obl'[q][g]) /\ Settles(obl[q][g], obl'[q][g])
               /\ obl'[q][g].st = "live" =>
                  /\ obl[q][g].st = "live"
                  /\ obl'[q][g].parent_turn = obl[q][g].parent_turn
                  /\ obl'[q][g].trigger_turn = obl[q][g].trigger_turn
    <2>1. CASE obl'[q][g] = obl[q][g]
      BY <1>0, <2>1, SameRests DEF RetentionInv
    <2>2. CASE obl'[q][g] # obl[q][g]
      <3>1. obl'[q][g] = [obl[q][g] EXCEPT !.st = "retired"]
        BY <1>0, <2>2, RecordFacts
      <3>2. obl[q][g] \in Obligation /\ Retention(obl[q][g])
        BY <1>0 DEF TypeOK, RetentionInv
      <3>3. obl'[q][g].st = "retired" /\ Retention(obl'[q][g]) /\ Settles(obl[q][g], obl'[q][g])
        BY <3>1, <3>2, RetiredRests
      <3> QED  BY <3>3
    <2> QED  BY <2>1, <2>2
  <1>4. ASSUME NEW q \in Thread, NEW l \in lease'[q]
        PROVE  \E m \in lease[q] : m.pred = l.pred
    <2>1. CASE q = p
      <3>1. PICK m \in lease[p] :
              l = IF m.succ = d.turn /\ m.terminal = "none" /\ IsFinal(d.status)
                  THEN [m EXCEPT !.terminal = d.status] ELSE m
        BY <1>0, <2>1, RecordFacts
      <3>2. m \in Lease
        BY <1>0 DEF TypeOK
      <3>3. l.pred = m.pred
        BY <3>1, <3>2 DEF Lease
      <3> QED  BY <2>1, <3>3
    <2>2. CASE q # p
      BY <1>0, <2>2, RecordFacts
    <2> QED  BY <2>1, <2>2
  <1>5. UNCHANGED obs
    BY <1>0, RecordFacts
  <1> QED  BY <1>1, <1>2, <1>3, <1>4, <1>5 DEF CStep

\* An observer that waits for the terminal of turn k.
NewObserver(k) == [NoObserver EXCEPT !.pc = "wait", !.turn = k]

\* A join of turn k on the running turns of S.
NewJoin(k, kind, S) ==
    [NoObligation EXCEPT !.st = "live", !.parent_turn = k, !.trigger_turn = kind,
                         !.targets = [c \in Thread |-> IF c \in S THEN cur[c] ELSE None]]

\* p's store stays as it is, or gets obligation o under an unused generation.
SharesOrAdds(p, o) ==
    \/ UNCHANGED obl
    \/ \E h \in Gen :
         /\ obl[p][h].st = "unused" /\ obl'[p][h] = o
         /\ \A q \in Thread, g \in Gen : ~(q = p /\ g = h) => obl'[q][g] = obl[q][g]

\* Some observers of S start to wait, the others rest.
Spawns(S) ==
    \A c \in Thread, g \in Gen, n \in ObsId :
        \/ obs'[c][g][n] = obs[c][g][n]
        \/ c \in S /\ obs[c][g][n].pc = "off" /\ obs'[c][g][n] = NewObserver(cur[c])

\* What a registration does: it shares an obligation of the same turn, or
\* takes the next generation for the running turn.
LEMMA RegisterFacts ==
    ASSUME RInv, NEW p \in Thread, NEW S \in SUBSET Child(p), NEW kind \in Kinds,
           Register(p, S, kind)
    PROVE  /\ UNCHANGED <<turnVars, lease, mailVars>> /\ slot[p] = "running"
           /\ SharesOrAdds(p, NewJoin(cur[p], kind, S)) /\ Spawns(S)
  <1> DEFINE h == nextGen[p] + 1
             bind == [c \in Thread |-> IF c \in S THEN cur[c] ELSE None]
             new == NewJoin(cur[p], kind, S)
  <1>0. TypeOK /\ FreshInv
    BY DEF RInv, IInv
  <1>1. UNCHANGED <<turnVars, lease, mailVars>> /\ slot[p] = "running"
    BY DEF Register
  <1>2. SharesOrAdds(p, new)
    <2>1. CASE UNCHANGED obl
      BY <2>1 DEF SharesOrAdds
    <2>2. CASE nextGen[p] < MaxGen /\ obl' = [obl EXCEPT ![p][h] = new]
      <3>1. h \in Gen /\ h > nextGen[p]
        BY <1>0, <2>2, BoundAssumption DEF TypeOK, Gen
      <3>2. obl[p][h].st = "unused"
        BY <1>0, <3>1 DEF FreshInv
      <3> HIDE DEF new, h
      <3>3. /\ obl'[p][h] = new
            /\ \A q \in Thread, g \in Gen : ~(q = p /\ g = h) => obl'[q][g] = obl[q][g]
        BY <1>0, <2>2, <3>1 DEF TypeOK
      <3> QED  BY <3>1, <3>2, <3>3 DEF SharesOrAdds
    <2> QED  BY <2>1, <2>2 DEF Register, NewJoin
  <1>3. PICK j \in Gen : SpawnObservers(S, j)
    <2>1. CASE \E g \in SameBindings(p, cur[p], bind) : SpawnObservers(S, g)
      BY <2>1 DEF SameBindings, Live
    <2>2. CASE nextGen[p] < MaxGen /\ SpawnObservers(S, h)
      <3>1. h \in Gen
        BY <1>0, <2>2, BoundAssumption DEF TypeOK, Gen
      <3> QED  BY <2>2, <3>1
    <2>3. CASE /\ (IF kind THEN {} ELSE SameBindings(p, cur[p], bind)) # {}
               /\ SpawnObservers(S, CHOOSE g \in (IF kind THEN {} ELSE SameBindings(p, cur[p], bind)) : TRUE)
      <3> DEFINE same == IF kind THEN {} ELSE SameBindings(p, cur[p], bind)
      <3>1. (CHOOSE g \in same : TRUE) \in same
        BY <2>3
      <3>2. same \subseteq SameBindings(p, cur[p], bind)
        OBVIOUS
      <3> HIDE DEF same, bind
      <3>3. SpawnObservers(S, CHOOSE g \in same : TRUE)
        BY <2>3 DEF same
      <3> QED  BY <2>1, <3>1, <3>2, <3>3
    <2> QED  BY <2>2, <2>3 DEF Register
  <1>4. ASSUME NEW c \in Thread, NEW g \in Gen, NEW n \in ObsId, obs'[c][g][n] # obs[c][g][n]
        PROVE  /\ c \in S /\ obs[c][g][n].pc = "off"
               /\ obs'[c][g][n] = NewObserver(cur[c])
    <2> DEFINE fresh(x) == NewObserver(cur[x])
               at(x) == CHOOSE m \in FreeObs(x, j) : TRUE
    <2>1. /\ \A x \in S : FreeObs(x, j) # {}
          /\ obs' = [x \in Thread |-> IF x \notin S THEN obs[x]
                                      ELSE [obs[x] EXCEPT ![j][at(x)] = fresh(x)]]
      BY <1>3 DEF SpawnObservers, NewObserver
    <2>2. \A x \in S : at(x) \in FreeObs(x, j)
      BY <2>1
    <2>3. \A x \in S : at(x) \in ObsId /\ obs[x][j][at(x)].pc = "off"
      BY <2>2 DEF FreeObs
    <2> HIDE DEF fresh, at
    <2>4. c \in S /\ g = j /\ n = at(c) /\ obs'[c][g][n] = fresh(c)
      BY <1>0, <1>4, <2>1, <2>3 DEF TypeOK
    <2> QED  BY <2>3, <2>4 DEF fresh
  <1>5. Spawns(S)
    <2> SUFFICES ASSUME NEW c \in Thread, NEW g \in Gen, NEW n \in ObsId,
                        obs'[c][g][n] # obs[c][g][n]
                 PROVE  c \in S /\ obs[c][g][n].pc = "off" /\ obs'[c][g][n] = NewObserver(cur[c])
      BY DEF Spawns
    <2> QED  BY <1>4
  <1> QED  BY <1>1, <1>2, <1>5

\* The obligation a registration adds.
LEMMA NewJoinFacts ==
    ASSUME NEW k, NEW kind, NEW S
    PROVE  LET q == NewJoin(k, kind, S)
           IN  /\ q.st = "live" /\ q.parent_turn = k /\ q.trigger_turn = kind
               /\ ~q.ready /\ ~q.trigger_sent /\ q.retained_pred = 0
               /\ \A c \in Thread : q.results[c] = "none"
  BY DEF NewJoin, NoObligation

\* A new join belongs to the running turn and has no result.
LEMMA RegisterCStep ==
    ASSUME CInv, NEW p \in Thread, NEW S \in SUBSET Child(p), NEW kind \in Kinds,
           Register(p, S, kind)
    PROVE  /\ CStep
           /\ \A q \in Thread, g \in Gen : Settles(obl[q][g], obl'[q][g])
  <1>0. TypeOK /\ RetentionInv /\ RInv
    BY DEF CInv, RInv, IInv
  <1>1. UNCHANGED <<slot, cur, ended, lease>> /\ slot[p] = "running"
    BY <1>0, RegisterFacts DEF turnVars
  <1>2. \A q \in Thread : cur[q] \in Nat
    BY <1>0 DEF TypeOK, Turn
  <1>3. ASSUME NEW q \in Thread, NEW g \in Gen
        PROVE  /\ Retention(obl'[q][g]) /\ Settles(obl[q][g], obl'[q][g])
               /\ obl'[q][g].st = "live" =>
                  \/ /\ obl[q][g].st = "live"
                     /\ obl'[q][g].parent_turn = obl[q][g].parent_turn
                     /\ obl'[q][g].trigger_turn = obl[q][g].trigger_turn
                  \/ obl'[q][g].parent_turn = cur'[q] /\ slot'[q] = "running"
    <2>1. CASE obl'[q][g] = obl[q][g]
      BY <1>0, <2>1, SameRests DEF RetentionInv
    <2>2. CASE obl'[q][g] # obl[q][g]
      <3> DEFINE new == NewJoin(cur[p], kind, S)
      <3>0. SharesOrAdds(p, new)
        BY <1>0, RegisterFacts
      <3>1. q = p /\ obl'[p][g] = new
        BY <2>2, <3>0 DEF SharesOrAdds
      <3>2. /\ new.parent_turn = cur[p] /\ new.retained_pred = 0
            /\ \A c \in Thread : new.results[c] = "none"
        BY NewJoinFacts
      <3> HIDE DEF new
      <3> QED  BY <1>1, <2>2, <3>1, <3>2 DEF Retention, Settles
    <2> QED  BY <2>1, <2>2
  <1> QED  BY <1>1, <1>2, <1>3 DEF CStep

\* A targetful wait consumes a join of the running turn, or opens its next
\* round for the same turn.
LEMMA WaitCStep ==
    ASSUME CInv, NEW p \in Thread, NEW S \in SUBSET Child(p), TargetfulWait(p, S)
    PROVE  /\ CStep /\ UNCHANGED obs
           /\ \A q \in Thread, g \in Gen : Settles(obl[q][g], obl'[q][g])
  <1> DEFINE g == CHOOSE x \in Consumable(p, S) : TRUE
             o == obl[p][g]
             r == Acknowledge(o, cur[p], cur[p])
  <1>0. TypeOK /\ RetentionInv
    BY DEF CInv, RInv, IInv
  <1>1. /\ obl' = [obl EXCEPT ![p][g] = r] /\ slot[p] = "running"
        /\ UNCHANGED <<slot, cur, ended, lease, obs>>
    BY DEF TargetfulWait, turnVars
  <1>2. g \in Gen /\ o.st = "live" /\ o.parent_turn = cur[p]
    <2>1. Cardinality(Consumable(p, S)) = 1 /\ Cardinality({}) = 0
      BY FS_EmptySet DEF TargetfulWait
    <2>2. g \in Consumable(p, S)
      BY <2>1
    <2> QED  BY <2>2 DEF Consumable, Live
  <1> HIDE DEF g
  <1>3. o \in Obligation /\ Retention(o) /\ cur[p] \in Turn
    BY <1>0, <1>2 DEF TypeOK, RetentionInv
  <1> HIDE DEF o
  <1>4. /\ Retention(r) /\ Settles(o, r) /\ r.parent_turn = o.parent_turn
    BY <1>2, <1>3, AcknowledgeMoves
  <1> HIDE DEF r
  <1>5. /\ obl'[p][g] = r
        /\ \A q \in Thread, h \in Gen : ~(q = p /\ h = g) => obl'[q][h] = obl[q][h]
    BY <1>0, <1>1, <1>2 DEF TypeOK
  <1>6. ASSUME NEW q \in Thread, NEW h \in Gen
        PROVE  /\ Retention(obl'[q][h]) /\ Settles(obl[q][h], obl'[q][h])
               /\ obl'[q][h].st = "live" =>
                  \/ /\ obl[q][h].st = "live"
                     /\ obl'[q][h].parent_turn = obl[q][h].parent_turn
                     /\ obl'[q][h].trigger_turn = obl[q][h].trigger_turn
                  \/ obl'[q][h].parent_turn = cur'[q] /\ slot'[q] = "running"
    <2>1. CASE q = p /\ h = g
      BY <1>1, <1>2, <1>4, <1>5, <2>1 DEF o
    <2>2. CASE ~(q = p /\ h = g)
      BY <1>0, <1>5, <2>2, SameRests DEF RetentionInv
    <2> QED  BY <2>1, <2>2
  <1>7. \A q \in Thread : cur[q] \in Nat
    BY <1>0 DEF TypeOK, Turn
  <1> QED  BY <1>1, <1>6, <1>7 DEF CStep

\* What enqueue_mailbox_communication does to p's store.
LEMMA EnqueueFacts ==
    ASSUME TypeOK, NEW p \in Thread, NEW pred \in Turn, Enqueue(p, pred)
    PROVE  /\ \A q \in Thread, h \in Gen :
                Rests(obl[q][h], obl'[q][h]) /\ Settles(obl[q][h], obl'[q][h])
           /\ \A q \in Thread : q # p => prov'[q] = prov[q] /\ mail'[q] = mail[q]
           /\ \A k \in Turn : prov'[p][k] = IF k = pred THEN 0 ELSE prov[p][k]
           /\ \A x \in Mail : mail'[p][x] =
                IF x = [gen |-> prov[p][pred], pred |-> pred] THEN mail[p][x] + 1 ELSE mail[p][x]
  <1> DEFINE g == prov[p][pred]
             y == [gen |-> g, pred |-> pred]
  <1>1. g \in 0..MaxGen /\ y \in Mail
    BY DEF TypeOK, Mail
  <1>2. /\ prov' = [prov EXCEPT ![p][pred] = 0]
        /\ mail' = [mail EXCEPT ![p][y] = mail[p][y] + 1]
        /\ obl' = IF g = 0 THEN obl ELSE [obl EXCEPT ![p][g] = Dispatched(obl[p][g])]
    BY DEF Enqueue, TakeProvenance
  <1> HIDE DEF g
  <1>3. \A q \in Thread, h \in Gen :
          Rests(obl[q][h], obl'[q][h]) /\ Settles(obl[q][h], obl'[q][h])
    <2>1. CASE g = 0
      BY <1>2, <2>1, SameRests
    <2>2. CASE g # 0
      <3>1. g \in Gen /\ obl[p][g] \in Obligation
        BY <1>1, <2>2, BoundAssumption DEF Gen, TypeOK
      <3>2. Rests(obl[p][g], Dispatched(obl[p][g])) /\ Settles(obl[p][g], Dispatched(obl[p][g]))
        BY <3>1, DispatchedRests
      <3>3. obl' = [obl EXCEPT ![p][g] = Dispatched(obl[p][g])]
        BY <1>2, <2>2
      <3> QED  BY <3>1, <3>2, <3>3, OneRests
    <2> QED  BY <2>1, <2>2
  <1> HIDE DEF y
  <1>4. \A q \in Thread : q # p => prov'[q] = prov[q] /\ mail'[q] = mail[q]
    BY <1>2 DEF TypeOK
  <1>5. \A k \in Turn : prov'[p][k] = IF k = pred THEN 0 ELSE prov[p][k]
    BY <1>2 DEF TypeOK
  <1>6. \A x \in Mail : mail'[p][x] = IF x = y THEN mail[p][x] + 1 ELSE mail[p][x]
    BY <1>1, <1>2 DEF TypeOK
  <1> QED  BY <1>3, <1>4, <1>5, <1>6 DEF g, y

\* A step of a turn, of the tools it calls or of the submission loop settles
\* no result, and gives no status to an observer.
LEMMA TurnCStep ==
    ASSUME CInv, NEW p \in Thread, TurnStep(p)
    PROVE  /\ CStep
           /\ \A q \in Thread, g \in Gen : Settles(obl[q][g], obl'[q][g])
           /\ \A c \in Thread, g \in Gen, n \in ObsId :
                obs'[c][g][n] = obs[c][g][n] \/ obs'[c][g][n].pc = "wait"
  <1>0. TypeOK
    BY DEF CInv, RInv, IInv
  <1>1. CASE UserStart(p) \/ Wake(p) \/ ActiveDelivery(p) \/ OrphanDelivery(p)
    BY <1>1, DeliveryStep
  <1>2. CASE \/ \E s \in EndStatus : FinishTurn(p, s) \/ AbortTurn(p, s)
             \/ ClearSlot(p) \/ Shutdown(p)
    <2>1. UNCHANGED <<cur, ended, obl, lease, obs>>
      BY <1>2 DEF FinishTurn, AbortTurn, ClearSlot, Shutdown, storeVars
    <2>2. \A q \in Thread, g \in Gen : Stays(obl[q][g], obl'[q][g]) /\ Settles(obl[q][g], obl'[q][g])
      BY <2>1, SameRests DEF Rests
    <2>3. CStep
      BY <2>1, <2>2, StayStep
    <2> QED  BY <2>1, <2>2, <2>3
  <1>3. CASE \E d \in dying[p] : RecordTerminal(p, d)
    BY <1>3, RecordCStep
  <1>4. CASE \E S \in SUBSET Child(p), kind \in Kinds : Register(p, S, kind)
    <2>1. PICK S \in SUBSET Child(p), kind \in Kinds : Register(p, S, kind)
      BY <1>4
    <2>2. \A c \in Thread, g \in Gen, n \in ObsId :
            obs'[c][g][n] = obs[c][g][n] \/ obs'[c][g][n] = NewObserver(cur[c])
      <3>1. RInv
        BY DEF CInv
      <3>2. Spawns(S)
        BY <2>1, <3>1, RegisterFacts
      <3> QED  BY <3>2 DEF Spawns
    <2>3. \A k : NewObserver(k).pc = "wait"
      BY DEF NewObserver, NoObserver
    <2>4. \A c \in Thread, g \in Gen, n \in ObsId :
            obs'[c][g][n] = obs[c][g][n] \/ obs'[c][g][n].pc = "wait"
      BY <2>2, <2>3
    <2> QED  BY <2>1, <2>4, RegisterCStep
  <1>5. CASE \E S \in SUBSET Child(p) : TargetfulWait(p, S)
    BY <1>5, WaitCStep
  <1>6. CASE HandleOp(p)
    <2>1. op[p] \in Seq(Turn) /\ op[p] # <<>> /\ Enqueue(p, Head(op[p]))
          /\ UNCHANGED <<cur, ended, lease, obs>>
      BY <1>0, <1>6 DEF HandleOp, TypeOK, turnVars
    <2>2. Head(op[p]) \in Turn
      BY <2>1
    <2>3. \A q \in Thread, g \in Gen : Rests(obl[q][g], obl'[q][g]) /\ Settles(obl[q][g], obl'[q][g])
      BY <1>0, <2>1, <2>2, EnqueueFacts
    <2>4. CStep
      BY <2>1, <2>3, StayStep DEF Rests
    <2> QED  BY <2>1, <2>3, <2>4
  <1> QED  BY <1>1, <1>2, <1>3, <1>4, <1>5, <1>6 DEF TurnStep
-----------------------------------------------------------------------------
(* The steps of an observer, and the settled results.                      *)

\* join_continuation_for_predecessor reports no continuation exactly when the
\* turn has none.
LEMMA SnapshotQuiet ==
    ASSUME NEW c \in Thread, NEW k
    PROVE  Snapshot(c, k).kind = "none" <=> Quiet(c, k)
  <1> DEFINE bound == LeaseFor(c, k)
             pending == SameKind(c, k, TRUE)
             many == Cardinality(bound) + Cardinality(pending) > 1
             l == CHOOSE x \in bound : TRUE
             s == Snapshot(c, k)
  <1>1. s = IF many THEN [kind |-> "ambiguous", gen |-> 0, succ |-> 0, terminal |-> "none"]
            ELSE IF bound # {}
            THEN [kind |-> "bound", gen |-> l.gen, succ |-> l.succ, terminal |-> l.terminal]
            ELSE IF pending # {}
            THEN [kind |-> "pending", gen |-> CHOOSE g \in pending : TRUE,
                  succ |-> 0, terminal |-> "none"]
            ELSE [kind |-> "none", gen |-> 0, succ |-> 0, terminal |-> "none"]
    BY DEF Snapshot
  <1>2. bound = {} <=> \A x \in lease[c] : x.pred # k
    BY DEF LeaseFor
  <1>3. pending = {} <=> \A g \in Gen : Open(obl[c][g]) => obl[c][g].parent_turn # k
    <2>1. pending = {g \in Gen : Open(obl[c][g]) /\ obl[c][g].parent_turn = k}
      BY DEF SameKind, Live, Open
    <2> HIDE DEF pending
    <2> QED  BY <2>1
  <1>4. bound = {} /\ pending = {} => ~many
    <2> HIDE DEF bound, pending
    <2>1. Cardinality({}) = 0
      BY FS_EmptySet
    <2>2. ~(0 + 0 > 1)
      OBVIOUS
    <2> QED  BY <2>1, <2>2
  <1>5. s.kind = "none" <=> (bound = {} /\ pending = {})
    <2> HIDE DEF bound, pending, many, l, s
    <2> QED  BY <1>1, <1>4
  <1> QED  BY <1>2, <1>3, <1>5 DEF Quiet

\* A result becomes final, or a final status is carried on, only for a turn
\* that is recorded and has no continuation.
SettleStep ==
    /\ \A p \in Thread, g \in Gen, c \in Thread :
         obl'[p][g].results[c] = "Completed" /\ c \notin obl'[p][g].retained_targets =>
           \/ /\ obl[p][g].results[c] = "Completed" /\ c \notin obl[p][g].retained_targets
              /\ obl'[p][g].targets[c] = obl[p][g].targets[c]
           \/ /\ obl'[p][g].targets[c] \in Turn
              /\ ended[c][obl'[p][g].targets[c]] # "none" /\ Quiet(c, obl'[p][g].targets[c])
    /\ \A c \in Thread, g \in Gen, n \in ObsId :
         obs'[c][g][n].pc = "resolve" /\ obs'[c][g][n].status = "Completed" =>
           \/ obs'[c][g][n] = obs[c][g][n]
           \/ /\ obs'[c][g][n].turn \in Turn
              /\ ended[c][obs'[c][g][n].turn] # "none" /\ Quiet(c, obs'[c][g][n].turn)

\* A step that settles no result, or one of a turn without continuation,
\* keeps the settled results.
LEMMA SettleStepKeeps ==
    ASSUME CInv, IInv', CStep, SettledInv, SettleStep
    PROVE  SettledInv'
  <1>0. BoundInv /\ ExactTerminal /\ ObserverInv
    BY DEF CInv, RInv, IInv
  <1>1. ASSUME NEW p \in Thread, NEW g \in Gen, NEW c \in Thread,
               obl'[p][g].results[c] = "Completed", c \notin obl'[p][g].retained_targets
        PROVE  Quiet(c, obl[p][g].targets[c])'
    <2> DEFINE k == obl'[p][g].targets[c]
    <2>1. CASE /\ obl[p][g].results[c] = "Completed" /\ c \notin obl[p][g].retained_targets
               /\ k = obl[p][g].targets[c]
      <3>1. k \in Turn /\ ended[c][k] # "none" /\ Quiet(c, k)
        BY <1>0, <2>1 DEF BoundInv, ExactTerminal, SettledInv
      <3> HIDE DEF k
      <3>2. PICK j \in Turn : j = k
        BY <3>1
      <3>3. Quiet(c, j)'
        BY <3>1, <3>2, QuietPersists
      <3> QED  BY <3>2, <3>3 DEF k, Quiet
    <2>2. CASE k \in Turn /\ ended[c][k] # "none" /\ Quiet(c, k)
      <3> HIDE DEF k
      <3>1. PICK j \in Turn : j = k
        BY <2>2
      <3>2. Quiet(c, j)'
        BY <2>2, <3>1, QuietPersists
      <3> QED  BY <3>1, <3>2 DEF k, Quiet
    <2> QED  BY <1>1, <2>1, <2>2 DEF SettleStep
  <1>2. ASSUME NEW c \in Thread, NEW g \in Gen, NEW n \in ObsId,
               obs'[c][g][n].pc = "resolve", obs'[c][g][n].status = "Completed"
        PROVE  Quiet(c, obs[c][g][n].turn)'
    <2> DEFINE k == obs'[c][g][n].turn
    <2>1. k \in Turn /\ ended[c][k] # "none" /\ Quiet(c, k)
      <3>1. CASE obs'[c][g][n] = obs[c][g][n]
        <4>1. ObserverExact(c, obs[c][g][n])
          BY <1>0 DEF ObserverInv
        <4> QED  BY <1>2, <3>1, <4>1 DEF ObserverExact, Exact, SettledInv
      <3>2. CASE obs'[c][g][n] # obs[c][g][n]
        BY <1>2, <3>2 DEF SettleStep
      <3> QED  BY <3>1, <3>2
    <2> HIDE DEF k
    <2>2. PICK j \in Turn : j = k
      BY <2>1
    <2>3. Quiet(c, j)'
      BY <2>1, <2>2, QuietPersists
    <2> QED  BY <2>2, <2>3 DEF k, Quiet
  <1> QED  BY <1>1, <1>2 DEF SettledInv, Quiet

\* One observer moves.
LEMMA GotoFacts ==
    ASSUME TypeOK, NEW c \in Thread, NEW g \in Gen, NEW n \in ObsId, NEW o, Goto(c, g, n, o)
    PROVE  /\ obs'[c][g][n] = o
           /\ \A d \in Thread, h \in Gen, m \in ObsId :
                ~(d = c /\ h = g /\ m = n) => obs'[d][h][m] = obs[d][h][m]
  BY DEF TypeOK, Goto
\* The observer of c either exits, or goes to another step than "resolve".
LEMMA GotoSettles ==
    ASSUME TypeOK, NEW c \in Thread, NEW g \in Gen, NEW n \in ObsId, NEW o, Goto(c, g, n, o),
           o.pc = "resolve" /\ o.status = "Completed" =>
             o.turn \in Turn /\ ended[c][o.turn] # "none" /\ Quiet(c, o.turn),
           \A q \in Thread, h \in Gen : Settles(obl[q][h], obl'[q][h])
    PROVE  SettleStep
  <1>1. /\ obs'[c][g][n] = o
        /\ \A d \in Thread, h \in Gen, m \in ObsId :
             ~(d = c /\ h = g /\ m = n) => obs'[d][h][m] = obs[d][h][m]
    BY GotoFacts
  <1>2. ASSUME NEW d \in Thread, NEW h \in Gen, NEW m \in ObsId,
               obs'[d][h][m].pc = "resolve", obs'[d][h][m].status = "Completed"
        PROVE  \/ obs'[d][h][m] = obs[d][h][m]
               \/ /\ obs'[d][h][m].turn \in Turn
                  /\ ended[d][obs'[d][h][m].turn] # "none" /\ Quiet(d, obs'[d][h][m].turn)
    <2>1. CASE d = c /\ h = g /\ m = n
      BY <1>1, <1>2, <2>1
    <2>2. CASE ~(d = c /\ h = g /\ m = n)
      BY <1>1, <2>2
    <2> QED  BY <2>1, <2>2
  <1> QED  BY <1>2 DEF SettleStep, Settles

\* An observer that exits carries nothing.
LEMMA ExitSettles ==
    ASSUME TypeOK, NEW c \in Thread, NEW g \in Gen, NEW n \in ObsId, Exit(c, g, n),
           \A q \in Thread, h \in Gen : Settles(obl[q][h], obl'[q][h])
    PROVE  SettleStep
  <1> DEFINE o == [NoObserver EXCEPT !.pc = "done"]
  <1>1. o.pc = "done" /\ Goto(c, g, n, o)
    BY DEF Exit, NoObserver
  <1> HIDE DEF o
  <1> QED  BY <1>1, GotoSettles

\* A step of an observer that leaves the stores alone.
LEMMA LookSettles ==
    ASSUME CInv, NEW c \in Thread, NEW g \in Gen, NEW n \in ObsId,
           \/ SeeTerminal(c, g, n) \/ SnapshotContinuation(c, g, n) \/ AwaitDelivery(c, g, n)
           \/ CheckSuccessor(c, g, n) \/ SeeSuccessorTerminal(c, g, n)
           \/ FinishContinuation(c, g, n)
    PROVE  /\ UNCHANGED <<cur, ended, obl>> /\ SettleStep
           /\ \A p \in Thread : lease'[p] \subseteq lease[p]
  <1> DEFINE o == obs[c][g][n]
  <1>0. TypeOK /\ ObserverInv
    BY DEF CInv, RInv, IInv
  <1>1. UNCHANGED <<cur, ended, obl>>
    <2>1. CASE SeeTerminal(c, g, n) \/ SnapshotContinuation(c, g, n)
      BY <2>1 DEF SeeTerminal, SnapshotContinuation, storeVars, turnVars
    <2>2. CASE AwaitDelivery(c, g, n) \/ CheckSuccessor(c, g, n)
      BY <2>2 DEF AwaitDelivery, CheckSuccessor, storeVars, turnVars
    <2>3. CASE SeeSuccessorTerminal(c, g, n) \/ FinishContinuation(c, g, n)
      BY <2>3 DEF SeeSuccessorTerminal, FinishContinuation, storeVars, turnVars
    <2> QED  BY <2>1, <2>2, <2>3
  <1>2. \A q \in Thread, h \in Gen : Settles(obl[q][h], obl'[q][h])
    BY <1>1, SameRests
  <1>3. o \in Observer /\ ObserverExact(c, o)
    BY <1>0 DEF TypeOK, ObserverInv
  <1>4. \A s : After(s) = "resolve" => s # "Completed"
    BY DEF After
  <1>5. ASSUME Exit(c, g, n)
        PROVE  SettleStep
    BY <1>0, <1>2, <1>5, ExitSettles
  <1>6. ASSUME NEW q, Goto(c, g, n, q), q.pc = "resolve" => q.status # "Completed"
        PROVE  SettleStep
    BY <1>0, <1>2, <1>6, GotoSettles
  <1>7. CASE SeeTerminal(c, g, n)
    <2>1. PICK s : Goto(c, g, n, [o EXCEPT !.status = s, !.pc = After(s)])
      BY <1>7 DEF SeeTerminal
    <2> DEFINE q == [o EXCEPT !.status = s, !.pc = After(s)]
    <2>2. q.status = s /\ q.pc = After(s)
      BY <1>3 DEF Observer
    <2>3. UNCHANGED lease
      BY <1>7 DEF SeeTerminal, storeVars
    <2> HIDE DEF q
    <2> QED  BY <1>1, <1>4, <1>6, <2>1, <2>2, <2>3 DEF q
  <1>8. CASE SnapshotContinuation(c, g, n)
    <2> DEFINE s == Snapshot(c, o.turn)
               a == [o EXCEPT !.pc = "resolve"]
               r == [o EXCEPT !.pc = "retire"]
               k == [o EXCEPT !.pc = "retain", !.inner = s.gen]
               v == [o EXCEPT !.pc = "live", !.succ = s.succ, !.status = s.terminal]
    <2>1. /\ UNCHANGED lease /\ o.pc = "snap"
          /\ \/ Exit(c, g, n)
             \/ s.kind = "none" /\ Goto(c, g, n, a)
             \/ Goto(c, g, n, r) \/ Goto(c, g, n, k) \/ Goto(c, g, n, v)
      BY <1>8 DEF SnapshotContinuation, At, storeVars
    <2>2. /\ a.turn = o.turn /\ a.status = o.status
          /\ r.pc = "retire" /\ k.pc = "retain" /\ v.pc = "live"
      BY <1>3 DEF Observer
    <2>3. s.kind = "none" => Quiet(c, o.turn)
      BY SnapshotQuiet
    <2> HIDE DEF s, o, a, r, k, v
    <2>4. o.turn \in Turn /\ (o.status = "Completed" => ended[c][o.turn] # "none")
      BY <1>3, <2>1 DEF ObserverExact, Exact
    <2>5. CASE s.kind = "none" /\ Goto(c, g, n, a)
      <3>1. a.status = "Completed" => a.turn \in Turn /\ ended[c][a.turn] # "none" /\ Quiet(c, a.turn)
        BY <2>2, <2>3, <2>4, <2>5
      <3>2. SettleStep
        BY <1>0, <1>2, <2>5, <3>1, GotoSettles
      <3> QED  BY <1>1, <2>1, <3>2
    <2>6. CASE Goto(c, g, n, r) \/ Goto(c, g, n, k) \/ Goto(c, g, n, v)
      <3>1. SettleStep
        BY <1>6, <2>2, <2>6
      <3> QED  BY <1>1, <2>1, <3>1
    <2> QED  BY <1>1, <1>5, <2>1, <2>5, <2>6
  <1>9. CASE AwaitDelivery(c, g, n)
    <2> DEFINE q == [o EXCEPT !.pc = "snap", !.registered = TRUE]
    <2>1. UNCHANGED lease /\ (Exit(c, g, n) \/ Goto(c, g, n, q))
      BY <1>9 DEF AwaitDelivery, storeVars
    <2>2. q.pc = "snap"
      BY <1>3 DEF Observer
    <2> HIDE DEF q
    <2> QED  BY <1>1, <1>5, <1>6, <2>1, <2>2
  <1>10. CASE CheckSuccessor(c, g, n)
    <2> DEFINE q == [o EXCEPT !.pc = "rebind"]
    <2>1. UNCHANGED lease /\ (Exit(c, g, n) \/ Goto(c, g, n, q))
      BY <1>10 DEF CheckSuccessor, storeVars
    <2>2. q.pc = "rebind"
      BY <1>3 DEF Observer
    <2> HIDE DEF q
    <2> QED  BY <1>1, <1>5, <1>6, <2>1, <2>2
  <1>11. CASE SeeSuccessorTerminal(c, g, n)
    <2>1. UNCHANGED lease /\ (Exit(c, g, n) \/ \E x : Goto(c, g, n, [o EXCEPT !.status = x, !.pc = "finish"]))
      BY <1>11 DEF SeeSuccessorTerminal, storeVars
    <2>2. \A x : [o EXCEPT !.status = x, !.pc = "finish"].pc = "finish"
      BY <1>3 DEF Observer
    <2>3. SettleStep
      <3>1. CASE Exit(c, g, n)
        BY <1>5, <3>1
      <3>2. CASE \E x : Goto(c, g, n, [o EXCEPT !.status = x, !.pc = "finish"])
        <4>1. PICK x : Goto(c, g, n, [o EXCEPT !.status = x, !.pc = "finish"])
          BY <3>2
        <4> DEFINE q == [o EXCEPT !.status = x, !.pc = "finish"]
        <4>2. q.pc = "finish" /\ Goto(c, g, n, q)
          BY <2>2, <4>1
        <4> HIDE DEF q
        <4> QED  BY <1>6, <4>2
      <3> QED  BY <2>1, <3>1, <3>2
    <2> QED  BY <1>1, <2>1, <2>3
  <1>12. CASE FinishContinuation(c, g, n)
    <2> DEFINE q == [o EXCEPT !.inner = 0, !.pred = 0, !.pc = After(o.status)]
    <2>1. Goto(c, g, n, q)
      BY <1>12 DEF FinishContinuation
    <2>2. q.pc = After(o.status) /\ q.status = o.status
      BY <1>3 DEF Observer
    <2>3. \A p \in Thread : lease'[p] \subseteq lease[p]
      BY <1>0, <1>12 DEF FinishContinuation, TypeOK
    <2> HIDE DEF q
    <2>4. SettleStep
      BY <1>4, <1>6, <2>1, <2>2
    <2> QED  BY <1>1, <2>3, <2>4
  <1> QED  BY <1>7, <1>8, <1>9, <1>10, <1>11, <1>12
\* A resolution without retention settles the result of a turn that the
\* observer found without continuation.
LEMMA ResolveSettles ==
    ASSUME CInv, SettledInv, NEW c \in Thread, NEW g \in Gen, NEW n \in ObsId,
           ResolveTarget(c, g, n)
    PROVE  SettleStep /\ \A q \in Thread, h \in Gen : Stays(obl[q][h], obl'[q][h])
  <1> DEFINE p == Parent[c]
             o == obs[c][g][n]
             b == obl[p][g]
             retain == o.pc = "retain"
             next == AfterResolve(Fires(b, c, o.status, retain), retain)
             q == [o EXCEPT !.pc = next, !.keep = retain, !.owner = b.parent_turn]
             r == Resolve(b, c, o.status, retain)
  <1>0. TypeOK /\ ObserverInv
    BY DEF CInv, RInv, IInv
  <1>1. p \in Thread /\ b \in Obligation /\ o \in Observer /\ ObserverExact(c, o)
    BY <1>0, ThreadAssumption DEF TypeOK, ObserverInv
  <1>2. /\ o.pc \in {"retain", "resolve"}
        /\ \/ /\ b.targets[c] = o.turn /\ obl' = [obl EXCEPT ![p][g] = r]
              /\ Exit(c, g, n) \/ Goto(c, g, n, q)
           \/ UNCHANGED obl /\ Exit(c, g, n)
    BY DEF ResolveTarget, Resolvable
  <1>3. q.pc # "resolve"
    BY <1>1 DEF AfterResolve, Observer
  <1>4. CASE UNCHANGED obl /\ Exit(c, g, n)
    <2>1. \A x \in Thread, h \in Gen : Stays(obl[x][h], obl'[x][h]) /\ Settles(obl[x][h], obl'[x][h])
      BY <1>4, SameRests DEF Rests
    <2> QED  BY <1>0, <1>4, <2>1, ExitSettles
  <1>5. CASE /\ b.targets[c] = o.turn /\ obl' = [obl EXCEPT ![p][g] = r]
             /\ Exit(c, g, n) \/ Goto(c, g, n, q)
    <2>0. o.status \in Status /\ retain \in BOOLEAN
      <3> HIDE DEF o
      <3> QED  BY <1>1 DEF Observer
    <2>1. retain = FALSE => o.pc = "resolve"
      BY <1>2
    <2> HIDE DEF p, o, b, q
    <2>2. /\ Stays(b, r) /\ r.targets = b.targets
          /\ \A d \in Thread \ {c} : r.results[d] = b.results[d]
          /\ r.results[c] = IF b.results[c] = "none" THEN o.status ELSE b.results[c]
          /\ r.retained_targets = IF retain THEN b.retained_targets \cup {c} ELSE b.retained_targets
      <3> HIDE DEF retain
      <3>1. Resolves(b, r, c, o.status, retain)
        BY <1>1, <2>0, ResolveStays
      <3> HIDE DEF r
      <3> QED  BY <3>1 DEF Resolves
    <2> HIDE DEF r, retain
    <2>3. /\ obl'[p][g] = r
          /\ \A x \in Thread, h \in Gen : ~(x = p /\ h = g) => obl'[x][h] = obl[x][h]
      BY <1>0, <1>1, <1>5 DEF TypeOK
    <2>4. \A x \in Thread, h \in Gen : Stays(obl[x][h], obl'[x][h])
      <3>1. \A x \in Thread, h \in Gen : Stays(obl[x][h], obl[x][h])
        BY SameRests DEF Rests
      <3> QED  BY <2>2, <2>3, <3>1 DEF b
    <2>5. o.turn \in Turn
      BY <1>1, <1>2 DEF ObserverExact
    <2>6. ~retain /\ o.status = "Completed" => ended[c][o.turn] # "none" /\ Quiet(c, o.turn)
      <3> SUFFICES ASSUME ~retain, o.status = "Completed"
                   PROVE  ended[c][o.turn] # "none" /\ Quiet(c, o.turn)
        OBVIOUS
      <3>1. o.pc = "resolve"
        BY <1>2 DEF retain
      <3>2. Quiet(c, o.turn)
        BY <3>1 DEF SettledInv, o
      <3>3. ended[c][o.turn] = "Completed"
        BY <1>1, <3>1 DEF ObserverExact, Exact
      <3> QED  BY <3>2, <3>3
    <2>7. ASSUME NEW x \in Thread, NEW h \in Gen, NEW d \in Thread,
                 obl'[x][h].results[d] = "Completed", d \notin obl'[x][h].retained_targets
          PROVE  \/ /\ obl[x][h].results[d] = "Completed" /\ d \notin obl[x][h].retained_targets
                    /\ obl'[x][h].targets[d] = obl[x][h].targets[d]
                 \/ /\ obl'[x][h].targets[d] \in Turn
                    /\ ended[d][obl'[x][h].targets[d]] # "none" /\ Quiet(d, obl'[x][h].targets[d])
      <3>1. CASE ~(x = p /\ h = g)
        BY <2>3, <2>7, <3>1
      <3>2. CASE x = p /\ h = g
        <4>1. r.results[d] = "Completed" /\ d \notin r.retained_targets
          BY <2>3, <2>7, <3>2
        <4>2. d \notin b.retained_targets
          BY <2>2, <4>1
        <4>3. CASE b.results[d] = "Completed"
          BY <2>2, <2>3, <3>2, <4>2, <4>3 DEF b
        <4>4. CASE b.results[d] # "Completed"
          <5>1. d = c /\ o.status = "Completed" /\ ~retain
            BY <2>2, <4>1, <4>4
          <5>2. obl'[x][h].targets[d] = o.turn
            BY <1>5, <2>2, <2>3, <3>2, <5>1
          <5> QED  BY <2>5, <2>6, <5>1, <5>2
        <4> QED  BY <4>3, <4>4
      <3> QED  BY <3>1, <3>2
    <2>8. ASSUME NEW d \in Thread, NEW h \in Gen, NEW m \in ObsId, obs'[d][h][m].pc = "resolve"
          PROVE  obs'[d][h][m] = obs[d][h][m]
      <3> DEFINE e == [NoObserver EXCEPT !.pc = "done"]
      <3>1. e.pc = "done" /\ (Goto(c, g, n, q) \/ Goto(c, g, n, e))
        BY <1>5 DEF Exit, NoObserver
      <3> HIDE DEF e
      <3> QED  BY <1>0, <1>3, <2>8, <3>1, GotoFacts
    <2>9. SettleStep
      BY <2>7, <2>8 DEF SettleStep
    <2> QED  BY <2>4, <2>9
  <1> QED  BY <1>2, <1>4, <1>5

\* Every step of an observer.
LEMMA ObserverSettles ==
    ASSUME CInv, SettledInv, NEW c \in Thread, NEW g \in Gen, NEW n \in ObsId,
           ObserverStep(c, g, n)
    PROVE  CStep /\ SettleStep
  <1> DEFINE p == Parent[c]
             o == obs[c][g][n]
             b == obl[p][g]
  <1>0. TypeOK /\ ObserverInv
    BY DEF CInv, RInv, IInv
  <1>1. p \in Thread /\ b \in Obligation /\ o \in Observer /\ ObserverExact(c, o)
    BY <1>0, ThreadAssumption DEF TypeOK, ObserverInv
  <1>2. ASSUME NEW q, Goto(c, g, n, q), q.pc = "resolve" => q.status # "Completed",
               \A x \in Thread, h \in Gen : Rests(obl[x][h], obl'[x][h]) /\ Settles(obl[x][h], obl'[x][h]),
               UNCHANGED <<cur, ended, lease>>
        PROVE  CStep /\ SettleStep
    <2>1. SettleStep
      BY <1>0, <1>2, GotoSettles
    <2>2. CStep
      BY <1>2, StayStep DEF Rests
    <2> QED  BY <2>1, <2>2
  <1>3. ASSUME Exit(c, g, n),
               \A x \in Thread, h \in Gen : Rests(obl[x][h], obl'[x][h]) /\ Settles(obl[x][h], obl'[x][h]),
               UNCHANGED <<cur, ended, lease>>
        PROVE  CStep /\ SettleStep
    <2> DEFINE q == [NoObserver EXCEPT !.pc = "done"]
    <2>1. q.pc = "done" /\ Goto(c, g, n, q)
      BY <1>3 DEF Exit, NoObserver
    <2> HIDE DEF q
    <2> QED  BY <1>2, <1>3, <2>1
  <1>4. ASSUME UNCHANGED obl
        PROVE  \A x \in Thread, h \in Gen : Rests(obl[x][h], obl'[x][h]) /\ Settles(obl[x][h], obl'[x][h])
    BY <1>4, SameRests
  <1>5. ASSUME NEW r, obl' = [obl EXCEPT ![p][g] = r], Rests(b, r), Settles(b, r)
        PROVE  \A x \in Thread, h \in Gen : Rests(obl[x][h], obl'[x][h]) /\ Settles(obl[x][h], obl'[x][h])
    BY <1>0, <1>1, <1>5, OneRests
  <1>6. CASE \/ SeeTerminal(c, g, n) \/ SnapshotContinuation(c, g, n) \/ AwaitDelivery(c, g, n)
             \/ CheckSuccessor(c, g, n) \/ SeeSuccessorTerminal(c, g, n)
             \/ FinishContinuation(c, g, n)
    <2>1. /\ UNCHANGED <<cur, ended, obl>> /\ SettleStep
          /\ \A t \in Thread : lease'[t] \subseteq lease[t]
      BY <1>6, LookSettles
    <2>2. CStep
      BY <1>4, <2>1, StayStep DEF Rests
    <2> QED  BY <2>1, <2>2
  <1>7. CASE ResolveTarget(c, g, n)
    <2>1. UNCHANGED <<cur, ended, lease>>
      BY <1>7 DEF ResolveTarget, turnVars
    <2> QED  BY <1>7, <2>1, ResolveSettles, StayStep
  <1>8. CASE MarkTrigger(c, g, n)
    <2> DEFINE q == [o EXCEPT !.pc = "send"]
    <2>1. /\ UNCHANGED <<cur, ended, lease>>
          /\ \/ UNCHANGED obl /\ Goto(c, g, n, q)
             \/ obl' = [obl EXCEPT ![p][g] = Dispatched(b)] /\ Exit(c, g, n)
      BY <1>8 DEF MarkTrigger, turnVars
    <2>2. q.pc = "send"
      BY <1>1 DEF Observer
    <2>3. Rests(b, Dispatched(b)) /\ Settles(b, Dispatched(b))
      BY <1>1, DispatchedRests
    <2> HIDE DEF q, b, p
    <2> QED  BY <1>2, <1>3, <1>4, <1>5, <2>1, <2>2, <2>3
  <1>9. CASE SendTrigger(c, g, n)
    <2> DEFINE q == [o EXCEPT !.pc = "sent"]
    <2>1. /\ UNCHANGED <<cur, ended, lease>> /\ Goto(c, g, n, q)
          /\ o.pc = "send" /\ (UNCHANGED obl \/ Enqueue(p, o.owner))
      BY <1>9 DEF SendTrigger, turnVars, At
    <2>2. q.pc = "sent"
      BY <1>1 DEF Observer
    <2>3. o.owner \in Turn
      <3> HIDE DEF o
      <3> QED  BY <1>1, <2>1 DEF ObserverExact
    <2> HIDE DEF q, b, p, o
    <2>4. \A x \in Thread, h \in Gen : Rests(obl[x][h], obl'[x][h]) /\ Settles(obl[x][h], obl'[x][h])
      BY <1>0, <1>1, <1>4, <2>1, <2>3, EnqueueFacts
    <2> QED  BY <1>2, <2>1, <2>2, <2>4
  <1>10. CASE FinishDispatch(c, g, n)
    <2> DEFINE q == [o EXCEPT !.pc = "owner"]
    <2>1. /\ UNCHANGED <<cur, ended, lease>> /\ (Goto(c, g, n, q) \/ Exit(c, g, n))
          /\ obl' = [obl EXCEPT ![p][g] = Dispatched(b)]
      BY <1>10 DEF FinishDispatch, turnVars
    <2>2. q.pc = "owner"
      BY <1>1 DEF Observer
    <2>3. Rests(b, Dispatched(b)) /\ Settles(b, Dispatched(b))
      BY <1>1, DispatchedRests
    <2> HIDE DEF q, b, p
    <2> QED  BY <1>2, <1>3, <1>5, <2>1, <2>2, <2>3
  <1>11. CASE RebindTarget(c, g, n)
    <2> DEFINE pc == IF o.status = "none" THEN "succ" ELSE "finish"
               q == [o EXCEPT !.turn = o.succ, !.pred = o.turn, !.succ = 0,
                              !.fenced = ~alive[c], !.keep = FALSE, !.registered = FALSE,
                              !.pc = pc]
    <2>1. /\ UNCHANGED <<cur, ended, lease>> /\ o.pc = "rebind"
          /\ \/ /\ AwaitsSuccessor(b, c) /\ obl' = [obl EXCEPT ![p][g] = Rebound(b, c, o.succ)]
                /\ Goto(c, g, n, q)
             \/ UNCHANGED obl /\ Exit(c, g, n)
      BY <1>11 DEF RebindTarget, turnVars, At
    <2>2. q.pc = pc
      BY <1>1 DEF Observer
    <2>3. pc # "resolve"
      OBVIOUS
    <2>4. o.succ \in Turn
      <3> HIDE DEF o
      <3> QED  BY <1>1, <2>1 DEF ObserverExact
    <2> HIDE DEF q, b, p, o, pc
    <2>5. AwaitsSuccessor(b, c) => Rests(b, Rebound(b, c, o.succ)) /\ Settles(b, Rebound(b, c, o.succ))
      BY <1>1, <2>4, ReboundRests
    <2> QED  BY <1>2, <1>3, <1>4, <1>5, <2>1, <2>2, <2>3, <2>5
  <1>12. CASE RetireRetention(c, g, n)
    <2> DEFINE q == [o EXCEPT !.status = "Shutdown", !.pc = "resolve"]
    <2>1. /\ UNCHANGED <<cur, ended, lease>>
          /\ \/ /\ AwaitsSuccessor(b, c) /\ obl' = [obl EXCEPT ![p][g] = Unretained(b, c)]
                /\ Goto(c, g, n, q)
             \/ UNCHANGED obl /\ Exit(c, g, n)
      BY <1>12 DEF RetireRetention, turnVars
    <2>2. q.status = "Shutdown"
      BY <1>1 DEF Observer
    <2> HIDE DEF q, b, p
    <2>3. AwaitsSuccessor(b, c) => Rests(b, Unretained(b, c)) /\ Settles(b, Unretained(b, c))
      BY <1>1, UnretainedRests
    <2> QED  BY <1>2, <1>3, <1>4, <1>5, <2>1, <2>2, <2>3
  <1> QED  BY <1>6, <1>7, <1>8, <1>9, <1>10, <1>11, <1>12 DEF ObserverStep
-----------------------------------------------------------------------------
(* A final result is settled.                                              *)

SInv == CInv /\ SettledInv

\* Every step keeps the order of turns and the settled results.
LEMMA SInvStep ==
    ASSUME SInv, RInv', [Next]_vars
    PROVE  CStep /\ SInv'
  <1>0. CInv /\ SettledInv /\ TypeOK
    BY DEF SInv, CInv, RInv, IInv
  <1>1. CStep /\ SettleStep
    <2>1. CASE \E p \in Thread : TurnStep(p)
      <3>1. PICK p \in Thread : TurnStep(p)
        BY <2>1
      <3>2. /\ CStep
            /\ \A q \in Thread, g \in Gen : Settles(obl[q][g], obl'[q][g])
            /\ \A c \in Thread, g \in Gen, n \in ObsId :
                 obs'[c][g][n] = obs[c][g][n] \/ obs'[c][g][n].pc = "wait"
        BY <1>0, <3>1, TurnCStep
      <3>3. SettleStep
        BY <3>2 DEF SettleStep, Settles
      <3> QED  BY <3>2, <3>3
    <2>2. CASE \E c \in Thread, g \in Gen, n \in ObsId : ObserverStep(c, g, n)
      BY <1>0, <2>2, ObserverSettles
    <2>3. CASE UNCHANGED vars
      <3>1. UNCHANGED <<cur, ended, obl, lease, obs>>
        BY <2>3 DEF vars
      <3>2. \A q \in Thread, g \in Gen : Stays(obl[q][g], obl'[q][g]) /\ Settles(obl[q][g], obl'[q][g])
        BY <3>1, SameRests DEF Rests
      <3>3. CStep
        BY <1>0, <3>1, <3>2, StayStep
      <3>4. SettleStep
        BY <3>1, <3>2 DEF SettleStep, Settles
      <3> QED  BY <3>3, <3>4
    <2> QED  BY <2>1, <2>2, <2>3 DEF Next
  <1>2. IInv'
    BY DEF RInv
  <1>3. RetentionInv' /\ OrderInv'
    BY <1>0, <1>1, <1>2, CStepKeeps
  <1>4. SettledInv'
    BY <1>0, <1>1, <1>2, SettleStepKeeps
  <1> QED  BY <1>1, <1>3, <1>4 DEF SInv, CInv

\* Joins, leases and settled results are in order in every state.
THEOREM ContinuationInvariant == Spec => []SInv
  <1>1. Init => RetentionInv /\ OrderInv /\ SettledInv
    <2> SUFFICES ASSUME Init PROVE RetentionInv /\ OrderInv /\ SettledInv
      OBVIOUS
    <2>1. /\ \A p \in Thread, g \in Gen : obl[p][g] = NoObligation
          /\ \A p \in Thread : lease[p] = {}
          /\ \A c \in Thread, g \in Gen, n \in ObsId : obs[c][g][n] = NoObserver
      BY DEF Init
    <2>2. /\ NoObligation.st = "unused" /\ NoObligation.retained_pred = 0
          /\ \A c \in Thread : NoObligation.results[c] = "none"
          /\ NoObserver.pc = "off"
      BY DEF NoObligation, NoObserver
    <2> QED  BY <2>1, <2>2 DEF RetentionInv, Retention, OrderInv, SettledInv
  <1>2. RInv /\ RInv' /\ RetentionInv /\ OrderInv /\ SettledInv /\ [Next]_vars
          => RetentionInv' /\ OrderInv' /\ SettledInv'
    BY SInvStep DEF SInv, CInv
  <1>3. Spec => []RInv
    BY CompleteInvariant
  <1>4. RInv /\ RetentionInv /\ OrderInv /\ SettledInv => SInv
    BY DEF SInv, CInv
  <1> QED  BY <1>1, <1>2, <1>3, <1>4, PTL DEF Spec

\* A final Completed in a parent's store stands for a child turn that has
\* neither a pending join nor a lease, and never gets one afterwards
\* (join_continuation_for_predecessor, resolve_join_target_inner).
THEOREM SettledResultHolds == Spec => []SettledResult
  <1>1. SInv => SettledResult
    BY SnapshotQuiet DEF SInv, SettledInv, SettledResult, Live
  <1> QED  BY <1>1, ContinuationInvariant, PTL
-----------------------------------------------------------------------------
(* One continuation per turn, as long as no turn owns two joins.           *)

\* What the fence of register_obligation is for.
LEMMA OneJoin ==
    ASSUME OneJoinPerTurn, NEW p \in Thread, NEW g \in Gen, NEW h \in Gen,
           Open(obl[p][g]), Open(obl[p][h]), obl[p][g].parent_turn \in Turn,
           obl[p][h].parent_turn = obl[p][g].parent_turn
    PROVE  g = h
  <1> DEFINE k == obl[p][g].parent_turn
             S == SameKind(p, k, TRUE)
  <1>1. g \in S /\ h \in S /\ S \subseteq Gen
    BY DEF SameKind, Live, Open
  <1>2. IsFiniteSet(S)
    <2>1. IsFiniteSet(Gen)
      BY BoundAssumption, FS_Interval DEF Gen
    <2> HIDE DEF S
    <2> QED  BY <1>1, <2>1, FS_Subset
  <1>3. Cardinality(S) <= 1 /\ Cardinality(S) \in Nat
    BY <1>2, FS_CardinalityType DEF OneJoinPerTurn
  <1> HIDE DEF S, k
  <1>4. SUFFICES ASSUME g # h PROVE FALSE
    OBVIOUS
  <1>5. Cardinality({g}) = 1 /\ IsFiniteSet({g})
    BY FS_Singleton
  <1>6. Cardinality({g} \cup {h}) = 2 /\ IsFiniteSet({g} \cup {h})
    <2>1. h \notin {g}
      BY <1>4
    <2>2. Cardinality({g} \cup {h}) = Cardinality({g}) + 1 /\ IsFiniteSet({g} \cup {h})
      BY <1>5, <2>1, FS_AddElement
    <2> QED  BY <1>5, <2>2
  <1>7. {g} \cup {h} \subseteq S
    BY <1>1
  <1>8. 2 <= Cardinality(S)
    <2>1. Cardinality({g} \cup {h}) <= Cardinality(S)
      BY <1>2, <1>7, FS_Subset
    <2> QED  BY <1>6, <2>1
  <1> QED  BY <1>3, <1>8

\* Each lease is the only one of its turn, and is an old one or comes from a
\* join that left that turn.
LStep ==
    \A p \in Thread :
        /\ \A l, m \in lease'[p] : l.pred = m.pred => l = m
        /\ \A l \in lease'[p] :
             \/ \E m \in lease[p] : m.pred = l.pred
             \/ \E g \in Gen : /\ Open(obl[p][g]) /\ obl[p][g].parent_turn = l.pred
                               /\ ~(Open(obl'[p][g]) /\ obl'[p][g].parent_turn = l.pred)

\* Such a step keeps the leases unique: a join that left its turn was the
\* only one.
LEMMA LStepKeeps ==
    ASSUME CInv, CInv', OneJoinPerTurn, UniqueInv, CStep, LStep
    PROVE  UniqueInv'
  <1>0. TypeOK' /\ OrderInv' /\ OwnerInv
    BY DEF CInv, RInv, IInv
  <1>1. ASSUME NEW p \in Thread, NEW l \in lease'[p], NEW g \in Gen, Open(obl'[p][g]),
               obl'[p][g].parent_turn = l.pred
        PROVE  FALSE
    <2>1. l.pred # cur'[p]
      <3>1. l.pred < cur'[p] /\ l.pred \in Nat /\ cur'[p] \in Nat
        BY <1>0 DEF OrderInv, TypeOK, Lease, Turn
      <3> QED  BY <3>1
    <2>2. Open(obl[p][g]) /\ obl[p][g].parent_turn = l.pred
      BY <1>1, <2>1 DEF CStep, Open
    <2>3. CASE \E m \in lease[p] : m.pred = l.pred
      BY <2>2, <2>3 DEF UniqueInv
    <2>4. CASE \E h \in Gen : /\ Open(obl[p][h]) /\ obl[p][h].parent_turn = l.pred
                              /\ ~(Open(obl'[p][h]) /\ obl'[p][h].parent_turn = l.pred)
      <3>1. PICK h \in Gen : /\ Open(obl[p][h]) /\ obl[p][h].parent_turn = l.pred
                             /\ ~(Open(obl'[p][h]) /\ obl'[p][h].parent_turn = l.pred)
        BY <2>4
      <3>2. obl[p][g].parent_turn \in Turn
        BY <1>0, <2>2 DEF OwnerInv, Open
      <3>3. g = h
        BY <2>2, <3>1, <3>2, OneJoin
      <3> QED  BY <1>1, <3>1, <3>3
    <2> QED  BY <2>3, <2>4 DEF LStep
  <1> QED  BY <1>1 DEF LStep, UniqueInv, Open

\* A step that installs no lease.
LEMMA FewerLeases ==
    ASSUME UniqueInv, \A p \in Thread : lease'[p] \subseteq lease[p]
    PROVE  LStep
  BY DEF UniqueInv, LStep

\* A delivery installs a lease only for a turn that has none.
LEMMA DrainLStep ==
    ASSUME CInv, OneJoinPerTurn, UniqueInv,
           NEW p \in Thread, NEW succ \in 0..MaxTurn, DrainInto(p, succ),
           succ # 0 => \A x \in Tagged(p) :
             Acknowledgeable(p, x.gen, x.pred) /\ obl[p][x.gen].trigger_turn
               => x.pred = succ \/ LeaseFor(p, x.pred) = {}
    PROVE  LStep
  <1>0. TypeOK /\ RetentionInv
    BY DEF CInv, RInv, IInv
  <1> DEFINE Comes(l, g) ==
        /\ AckMail(p, g) # {} /\ obl[p][g].trigger_turn /\ succ # 0
        /\ obl[p][g].parent_turn # succ
        /\ l = [gen |-> g, pred |-> obl[p][g].parent_turn, succ |-> succ, terminal |-> "none"]
  <1>1. \A l \in lease'[p] : l \in lease[p] \/ \E g \in Gen : Comes(l, g)
    BY DrainFacts
  <1>2. ASSUME NEW l, NEW g \in Gen, Comes(l, g)
        PROVE  /\ l.pred = obl[p][g].parent_turn /\ Open(obl[p][g])
               /\ obl[p][g].parent_turn \in Turn
               /\ LeaseFor(p, l.pred) = {}
               /\ ~(Open(obl'[p][g]) /\ obl'[p][g].parent_turn = l.pred)
    <2> DEFINE o == obl[p][g]
    <2>1. /\ o.st = "live" /\ o.parent_turn \in Turn /\ succ # 0
          /\ \E x \in AckMail(p, g) : x.pred = o.parent_turn
          /\ obl'[p][g] = Acknowledge(o, o.parent_turn, succ)
      BY <1>2, DrainFacts
    <2>2. l.pred = o.parent_turn /\ o.parent_turn # succ /\ o.trigger_turn
      BY <1>2
    <2>3. LeaseFor(p, l.pred) = {}
      <3>1. PICK x \in AckMail(p, g) : x.pred = o.parent_turn
        BY <2>1
      <3>2. x \in Tagged(p) /\ x.gen = g /\ Acknowledgeable(p, g, x.pred)
        BY DEF AckMail
      <3> QED  BY <2>1, <2>2, <3>1, <3>2
    <2>4. o \in Obligation /\ Retention(o) /\ succ \in Turn
      BY <1>0, <2>1, BoundAssumption DEF TypeOK, RetentionInv, Turn
    <2> HIDE DEF o
    <2>5. obl'[p][g].st = "consumed" \/ obl'[p][g].parent_turn = succ
      BY <2>1, <2>4, AcknowledgeMoves
    <2> QED  BY <2>1, <2>2, <2>3, <2>5 DEF Open, o
  <1>3. ASSUME NEW l, NEW m, NEW g \in Gen, NEW h \in Gen, Comes(l, g), Comes(m, h), l.pred = m.pred
        PROVE  l = m
    <2>1. g = h
      BY <1>2, <1>3, OneJoin
    <2> QED  BY <1>3, <2>1
  <1>4. ASSUME NEW l, NEW m \in lease[p], NEW g \in Gen, Comes(l, g), l.pred = m.pred
        PROVE  FALSE
    BY <1>2, <1>4 DEF LeaseFor
  <1> HIDE DEF Comes
  <1>5. \A l, m \in lease'[p] : l.pred = m.pred => l = m
    <2> SUFFICES ASSUME NEW l \in lease'[p], NEW m \in lease'[p], l.pred = m.pred
                 PROVE  l = m
      OBVIOUS
    <2>1. CASE l \in lease[p] /\ m \in lease[p]
      BY <2>1 DEF UniqueInv
    <2>2. CASE l \notin lease[p]
      BY <1>1, <1>3, <1>4, <2>2
    <2>3. CASE m \notin lease[p]
      BY <1>1, <1>3, <1>4, <2>3
    <2> QED  BY <2>1, <2>2, <2>3
  <1>6. \A l \in lease'[p] :
          \/ \E m \in lease[p] : m.pred = l.pred
          \/ \E g \in Gen : /\ Open(obl[p][g]) /\ obl[p][g].parent_turn = l.pred
                            /\ ~(Open(obl'[p][g]) /\ obl'[p][g].parent_turn = l.pred)
    BY <1>1, <1>2
  <1>7. \A q \in Thread : q # p => lease'[q] = lease[q]
    BY DrainFacts
  <1> QED  BY <1>5, <1>6, <1>7 DEF LStep, UniqueInv

\* The terminal of a turn is written into its leases.
LEMMA RecordLStep ==
    ASSUME CInv, UniqueInv, NEW p \in Thread, NEW d \in dying[p], RecordTerminal(p, d)
    PROVE  LStep
  <1>0. TypeOK
    BY DEF CInv, RInv, IInv
  <1> DEFINE mark(m) == IF m.succ = d.turn /\ m.terminal = "none" /\ IsFinal(d.status)
                        THEN [m EXCEPT !.terminal = d.status] ELSE m
  <1>1. \A l \in lease'[p] : \E m \in lease[p] : l = mark(m)
    BY <1>0, RecordFacts
  <1>2. ASSUME NEW m \in lease[p]
        PROVE  mark(m).pred = m.pred
    <2>1. m \in Lease
      BY <1>0 DEF TypeOK
    <2> QED  BY <2>1 DEF Lease
  <1> HIDE DEF mark
  <1>3. \A l, m \in lease'[p] : l.pred = m.pred => l = m
    BY <1>1, <1>2 DEF UniqueInv
  <1>4. \A q \in Thread : q # p => lease'[q] = lease[q]
    BY <1>0, RecordFacts
  <1> QED  BY <1>1, <1>2, <1>3, <1>4 DEF LStep, UniqueInv
\* Every step.
LEMMA LeaseStep ==
    ASSUME CInv, OneJoinPerTurn, UniqueInv, [Next]_vars
    PROVE  LStep
  <1>0. TypeOK
    BY DEF CInv, RInv, IInv
  <1>1. CASE UNCHANGED lease
    BY <1>1, FewerLeases
  <1>2. CASE \E p \in Thread : TurnStep(p)
    <2>1. PICK p \in Thread : TurnStep(p)
      BY <1>2
    <2>2. CASE UserStart(p) \/ Wake(p)
      <3>1. StartTurn(p)
        BY <2>2 DEF UserStart, Wake
      <3>2. cur[p] + 1 \in 0..MaxTurn
        BY <1>0, <3>1, BoundAssumption DEF StartTurn, TypeOK, Turn
      <3>3. /\ DrainInto(p, cur[p] + 1)
            /\ \A x \in Tagged(p) :
                 Acknowledgeable(p, x.gen, x.pred) /\ obl[p][x.gen].trigger_turn
                   => LeaseFor(p, x.pred) = {}
        BY <3>1 DEF StartTurn
      <3> QED  BY <3>2, <3>3, DrainLStep
    <2>3. CASE ActiveDelivery(p)
      <3>1. cur[p] \in 0..MaxTurn /\ cur[p] # 0
        BY <1>0, BoundAssumption DEF TypeOK, Turn
      <3>2. DrainInto(p, cur[p]) /\ Validated(p, cur[p])
        BY <2>3 DEF ActiveDelivery
      <3>3. \A x \in Tagged(p) :
              obl[p][x.gen].trigger_turn => x.pred = cur[p] \/ LeaseFor(p, x.pred) = {}
        BY <3>1, <3>2 DEF Validated
      <3> QED  BY <3>1, <3>2, <3>3, DrainLStep
    <2>4. CASE OrphanDelivery(p)
      <3>1. 0 \in 0..MaxTurn /\ DrainInto(p, 0)
        BY <2>4, BoundAssumption DEF OrphanDelivery
      <3> QED  BY <3>1, DrainLStep
    <2>5. CASE \E d \in dying[p] : RecordTerminal(p, d)
      BY <2>5, RecordLStep
    <2>6. CASE \/ \E s \in EndStatus : FinishTurn(p, s) \/ AbortTurn(p, s)
               \/ ClearSlot(p) \/ Shutdown(p) \/ HandleOp(p)
      <3>1. UNCHANGED lease
        BY <2>6 DEF FinishTurn, AbortTurn, ClearSlot, Shutdown, HandleOp, storeVars
      <3> QED  BY <1>1, <3>1
    <2>7. CASE \/ \E S \in SUBSET Child(p), kind \in Kinds : Register(p, S, kind)
               \/ \E S \in SUBSET Child(p) : TargetfulWait(p, S)
      <3>1. UNCHANGED lease
        BY <2>7 DEF Register, TargetfulWait
      <3> QED  BY <1>1, <3>1
    <2> QED  BY <2>1, <2>2, <2>3, <2>4, <2>5, <2>6, <2>7 DEF TurnStep
  <1>3. CASE \E c \in Thread, g \in Gen, n \in ObsId : ObserverStep(c, g, n)
    <2>1. PICK c \in Thread, g \in Gen, n \in ObsId : ObserverStep(c, g, n)
      BY <1>3
    <2>2. CASE \/ SeeTerminal(c, g, n) \/ SnapshotContinuation(c, g, n) \/ AwaitDelivery(c, g, n)
               \/ CheckSuccessor(c, g, n) \/ SeeSuccessorTerminal(c, g, n)
               \/ FinishContinuation(c, g, n)
      BY <2>2, LookSettles, FewerLeases
    <2>3. CASE ResolveTarget(c, g, n) \/ MarkTrigger(c, g, n)
      BY <1>1, <2>3 DEF ResolveTarget, MarkTrigger
    <2>4. CASE SendTrigger(c, g, n) \/ FinishDispatch(c, g, n)
      BY <1>1, <2>4 DEF SendTrigger, FinishDispatch
    <2>5. CASE RebindTarget(c, g, n) \/ RetireRetention(c, g, n)
      BY <1>1, <2>5 DEF RebindTarget, RetireRetention
    <2> QED  BY <2>1, <2>2, <2>3, <2>4, <2>5 DEF ObserverStep
  <1>4. CASE UNCHANGED vars
    BY <1>1, <1>4 DEF vars
  <1> QED  BY <1>2, <1>3, <1>4 DEF Next

\* Once a turn handed its work on, it has one lease and no join.
LEMMA UniqueHolds == Spec /\ []OneJoinPerTurn => []UniqueInv
  <1>1. Init => UniqueInv
    BY DEF Init, UniqueInv
  <1>2. SInv /\ SInv' /\ OneJoinPerTurn /\ UniqueInv /\ [Next]_vars => UniqueInv'
    <2> SUFFICES ASSUME SInv, SInv', OneJoinPerTurn, UniqueInv, [Next]_vars
                 PROVE  UniqueInv'
      OBVIOUS
    <2>1. CInv /\ CInv' /\ RInv'
      BY DEF SInv, CInv
    <2>2. CStep /\ LStep
      BY <2>1, SInvStep, LeaseStep
    <2> QED  BY <2>1, <2>2, LStepKeeps
  <1> QED  BY <1>1, <1>2, ContinuationInvariant, PTL DEF Spec

\* As long as no turn owns two live joins, a turn has one lease or one pending
\* join and never both: join_continuation_for_predecessor is never ambiguous,
\* and a retained child is never given up for that reason.
THEOREM UnambiguousContinuationHolds ==
    Spec /\ []OneJoinPerTurn => []UnambiguousContinuation
  <1>1. SInv /\ OneJoinPerTurn /\ UniqueInv => UnambiguousContinuation
    <2> SUFFICES ASSUME SInv, OneJoinPerTurn, UniqueInv, NEW c \in Thread, NEW k \in Turn
                 PROVE  Snapshot(c, k).kind # "ambiguous"
      BY DEF UnambiguousContinuation
    <2> DEFINE bound == LeaseFor(c, k)
               pending == SameKind(c, k, TRUE)
               many == Cardinality(bound) + Cardinality(pending) > 1
               l == CHOOSE x \in bound : TRUE
    <2>1. Snapshot(c, k) =
            IF many THEN [kind |-> "ambiguous", gen |-> 0, succ |-> 0, terminal |-> "none"]
            ELSE IF bound # {}
            THEN [kind |-> "bound", gen |-> l.gen, succ |-> l.succ, terminal |-> l.terminal]
            ELSE IF pending # {}
            THEN [kind |-> "pending", gen |-> CHOOSE g \in pending : TRUE,
                  succ |-> 0, terminal |-> "none"]
            ELSE [kind |-> "none", gen |-> 0, succ |-> 0, terminal |-> "none"]
      BY DEF Snapshot
    <2>2. Cardinality({}) = 0
      BY FS_EmptySet
    <2>3. Cardinality(pending) <= 1 /\ Cardinality(pending) \in Nat
      <3>1. IsFiniteSet(Gen) /\ pending \subseteq Gen
        BY BoundAssumption, FS_Interval DEF Gen, SameKind, Live
      <3>2. Cardinality(pending) \in Nat
        <4> HIDE DEF pending
        <4> QED  BY <3>1, FS_Subset, FS_CardinalityType
      <3> QED  BY <3>2 DEF OneJoinPerTurn
    <2>4. ~many
      <3>1. CASE bound = {}
        <4> HIDE DEF bound, pending
        <4> QED  BY <2>2, <2>3, <3>1
      <3>2. CASE bound # {}
        <4>1. PICK x \in bound : TRUE
          BY <3>2
        <4>2. x \in lease[c] /\ x.pred = k
          BY DEF LeaseFor
        <4>3. bound = {x}
          BY <4>2 DEF LeaseFor, UniqueInv
        <4>4. pending = {}
          BY <4>2 DEF SameKind, Live, UniqueInv, Open
        <4>5. Cardinality({x}) = 1
          BY FS_Singleton
        <4> HIDE DEF bound, pending
        <4> QED  BY <2>2, <4>3, <4>4, <4>5
      <3> QED  BY <3>1, <3>2
    <2> HIDE DEF bound, pending, many, l
    <2> QED  BY <2>1, <2>4
  <1> QED  BY <1>1, UniqueHolds, ContinuationInvariant, PTL
-----------------------------------------------------------------------------
(* One aggregate per join, as long as no turn owns two joins and the wait  *)
(* tool is not in use.                                                     *)

\* A turn that is over stays over.
OverStep ==
    \A p \in Thread :
        /\ cur[p] <= cur'[p]
        /\ cur'[p] = cur[p] /\ slot'[p] = "running" => slot[p] = "running"

\* Nothing happens to the aggregate of generation g of p.
SamePath(p, g) ==
    /\ obl'[p][g].st = obl[p][g].st
    /\ obl'[p][g].parent_turn = obl[p][g].parent_turn
    /\ obl'[p][g].trigger_sent = obl[p][g].trigger_sent
    /\ obl[p][g].st # "retired" =>
         \A k \in Turn : /\ prov'[p][k] = g <=> prov[p][k] = g
                         /\ mail'[p][[gen |-> g, pred |-> k]] = mail[p][[gen |-> g, pred |-> k]]
    /\ \A c \in Child(p), n \in ObsId :
         /\ obs'[c][g][n].pc = "mark" <=> obs[c][g][n].pc = "mark"
         /\ obs[c][g][n].pc = "mark" => obs'[c][g][n].owner = obs[c][g][n].owner
    /\ alive'[p] => alive[p]

\* No join comes to a turn that is over.
LEMMA OverPersists ==
    ASSUME CInv, CInv', CStep, OverStep, NEW p \in Thread, NEW k \in Turn, Over(p, k)
    PROVE  /\ Over(p, k)'
           /\ (\A h \in Gen : obl[p][h].st = "live" => obl[p][h].parent_turn # k)
                => \A h \in Gen : obl'[p][h].st = "live" => obl'[p][h].parent_turn # k
  <1>1. k \in Nat /\ cur[p] \in Nat /\ cur'[p] \in Nat /\ cur[p] <= cur'[p]
    BY DEF CInv, RInv, IInv, TypeOK, Turn, OverStep
  <1>2. k < cur'[p] \/ (k = cur'[p] /\ slot'[p] # "running")
    <2>1. CASE cur'[p] = cur[p]
      BY <1>1, <2>1 DEF Over, OverStep
    <2>2. CASE cur'[p] # cur[p]
      BY <1>1, <2>2 DEF Over
    <2> QED  BY <2>1, <2>2
  <1>3. ~(k = cur'[p] /\ slot'[p] = "running")
    BY <1>1, <1>2
  <1>4. ASSUME \A h \in Gen : obl[p][h].st = "live" => obl[p][h].parent_turn # k,
               NEW h \in Gen, obl'[p][h].st = "live"
        PROVE  obl'[p][h].parent_turn # k
    BY <1>3, <1>4 DEF CStep
  <1> QED  BY <1>2, <1>4 DEF Over

\* A retired generation stays harmless to the joins that are left.
LEMMA RetiredKept ==
    ASSUME CInv, CInv', CStep, OverStep, NEW p \in Thread, NEW g \in Gen, Flight(p, g),
           obl[p][g].st = "retired", obl'[p][g].st = "retired", obl[p][g].parent_turn \in Turn,
           obl'[p][g].parent_turn = obl[p][g].parent_turn,
           \A c \in Child(p), n \in ObsId : obs'[c][g][n].pc = "mark" =>
             obs[c][g][n].pc = "mark" /\ obs'[c][g][n].owner = obs[c][g][n].owner
    PROVE  Flight(p, g)'
  <1>1. PICK k \in Turn : k = obl[p][g].parent_turn
    OBVIOUS
  <1>2. /\ Over(p, k)
        /\ \A h \in Gen : obl[p][h].st = "live" => obl[p][h].parent_turn # k
        /\ \A c \in Child(p), n \in ObsId : obs[c][g][n].pc = "mark" => obs[c][g][n].owner = k
    BY <1>1 DEF Flight
  <1>3. Over(p, k)' /\ \A h \in Gen : obl'[p][h].st = "live" => obl'[p][h].parent_turn # k
    BY <1>2, OverPersists
  <1>4. obl'[p][g].st = "retired" /\ obl'[p][g].parent_turn = k
    BY <1>1
  <1>5. \A c \in Child(p), n \in ObsId : obs'[c][g][n].pc = "mark" => obs'[c][g][n].owner = k
    BY <1>2
  <1> QED  BY <1>3, <1>4, <1>5 DEF Flight, Over

\* An aggregate that is left alone stays where it is.
LEMMA FlightKept ==
    ASSUME CInv, CInv', CStep, OverStep, ProperInv, NEW p \in Thread, NEW g \in Gen,
           Flight(p, g), SamePath(p, g)
    PROVE  Flight(p, g)'
  <1>1. CASE obl[p][g].st = "retired"
    <2>1. obl[p][g].parent_turn \in Turn
      BY <1>1 DEF ProperInv, Proper
    <2> QED  BY <1>1, <2>1, RetiredKept DEF SamePath
  <1>2. CASE obl[p][g].st # "retired"
    <2>1. \A k \in Turn : /\ prov'[p][k] = g <=> prov[p][k] = g
                          /\ mail'[p][[gen |-> g, pred |-> k]] = mail[p][[gen |-> g, pred |-> k]]
      BY <1>2 DEF SamePath
    <2>2. \A c \in Child(p), n \in ObsId :
             /\ obs'[c][g][n].pc = "mark" <=> obs[c][g][n].pc = "mark"
             /\ obs[c][g][n].pc = "mark" => obs'[c][g][n].owner = obs[c][g][n].owner
      BY DEF SamePath
    <2>3. /\ obl'[p][g].st = obl[p][g].st
          /\ obl'[p][g].parent_turn = obl[p][g].parent_turn
          /\ obl'[p][g].trigger_sent = obl[p][g].trigger_sent
          /\ alive'[p] => alive[p]
      BY DEF SamePath
    <2>4. /\ NoMark(p, g) => NoMark(p, g)'
          /\ NoProv(p, g) => NoProv(p, g)'
          /\ NoMailOf(p, g) => NoMailOf(p, g)'
      BY <2>1, <2>2 DEF NoMark, NoProv, NoMailOf
    <2>5. Nothing(p, g) => Nothing(p, g)'
      BY <2>4 DEF Nothing
    <2>6. Marking(p, g) => Marking(p, g)'
      <3> SUFFICES ASSUME Marking(p, g) PROVE Marking(p, g)'
        OBVIOUS
      <3>1. PICK c \in Child(p), n \in ObsId :
              /\ obs[c][g][n].pc = "mark" /\ obs[c][g][n].owner = obl[p][g].parent_turn
              /\ \A d \in Child(p), m \in ObsId : obs[d][g][m].pc = "mark" => d = c /\ m = n
        BY DEF Marking
      <3>2. /\ obs'[c][g][n].pc = "mark" /\ obs'[c][g][n].owner = obl'[p][g].parent_turn
            /\ \A d \in Child(p), m \in ObsId : obs'[d][g][m].pc = "mark" => d = c /\ m = n
        BY <2>2, <2>3, <3>1
      <3>3. NoProv(p, g)' /\ NoMailOf(p, g)'
        BY <2>4 DEF Marking
      <3> QED  BY <3>2, <3>3 DEF Marking
    <2>7. Recorded(p, g) => Recorded(p, g)'
      BY <2>1, <2>3, <2>4 DEF Recorded
    <2>8. Queued(p, g) => Queued(p, g)'
      BY <2>1, <2>3, <2>4 DEF Queued
    <2>9. One(p, g) => One(p, g)'
      BY <2>6, <2>7, <2>8 DEF One
    <2> QED  BY <1>2, <2>3, <2>5, <2>9 DEF Flight
  <1> QED  BY <1>1, <1>2
\* A step in which no completion is handed out and no aggregate moves.
LEMMA CalmFlight ==
    ASSUME AInv, CInv', CStep, OverStep,
           \A p \in Thread, g \in Gen : Rests(obl[p][g], obl'[p][g]),
           UNCHANGED <<prov, mail>>, \A p \in Thread : alive'[p] => alive[p],
           \A c \in Thread, g \in Gen, n \in ObsId :
             \/ obs'[c][g][n] = obs[c][g][n]
             \/ obs'[c][g][n].pc # "mark" /\ obs[c][g][n].pc # "mark"
    PROVE  FlightInv' /\ ProperInv'
  <1>0. CInv /\ ProperInv /\ FlightInv
    BY DEF AInv
  <1>1. ASSUME NEW p \in Thread, NEW g \in Gen
        PROVE  Flight(p, g)'
    <2>1. Flight(p, g)
      BY <1>0 DEF FlightInv
    <2>2. SamePath(p, g)
      BY DEF SamePath, Rests, Stays, Child
    <2> QED  BY <1>0, <2>1, <2>2, FlightKept
  <1>2. ProperInv'
    BY <1>0 DEF ProperInv, Proper, Rests, Stays
  <1> QED  BY <1>1, <1>2 DEF FlightInv

\* The turn and mail steps that move no aggregate.
LEMMA TurnCalm ==
    ASSUME AInv, CInv', CStep, NEW p \in Thread,
           \/ \E s \in EndStatus : FinishTurn(p, s) \/ AbortTurn(p, s)
           \/ ClearSlot(p) \/ Shutdown(p)
    PROVE  FlightInv' /\ ProperInv' /\ EdgeInv'
  <1>0. TypeOK /\ EdgeInv
    BY DEF AInv, CInv, RInv, IInv
  <1>1. UNCHANGED <<cur, obl, prov, mail, obs>>
    BY DEF FinishTurn, AbortTurn, ClearSlot, Shutdown, storeVars, mailVars
  <1>2. \A q \in Thread : alive'[q] => alive[q]
    BY <1>0 DEF FinishTurn, AbortTurn, ClearSlot, Shutdown, TypeOK
  <1>3. \A q \in Thread : slot'[q] = "running" => slot[q] = "running"
    BY <1>0 DEF FinishTurn, AbortTurn, ClearSlot, Shutdown, TypeOK
  <1>4. OverStep
    BY <1>0, <1>1, <1>3 DEF OverStep, TypeOK, Turn
  <1>5. \A q \in Thread, g \in Gen : Rests(obl[q][g], obl'[q][g])
    BY <1>1, SameRests
  <1>6. FlightInv' /\ ProperInv'
    BY <1>1, <1>2, <1>4, <1>5, CalmFlight
  <1>7. \A q \in Thread : \A d \in dying'[q] : d \in dying[q] \/ d.status \in Endings
    <2>1. CASE ClearSlot(p) \/ Shutdown(p)
      BY <2>1 DEF ClearSlot, Shutdown
    <2>2. CASE \E s \in EndStatus : FinishTurn(p, s) \/ AbortTurn(p, s)
      <3>1. PICK s \in Endings :
              dying' = [dying EXCEPT ![p] = @ \cup {[turn |-> cur[p], status |-> s]}]
        BY <2>2 DEF FinishTurn, AbortTurn
      <3>2. dying'[p] = dying[p] \cup {[turn |-> cur[p], status |-> s]}
        BY <1>0, <3>1 DEF TypeOK
      <3>3. \A q \in Thread : q # p => dying'[q] = dying[q]
        BY <1>0, <3>1 DEF TypeOK
      <3> QED  BY <3>2, <3>3
    <2> QED  BY <2>1, <2>2
  <1> QED  BY <1>0, <1>1, <1>6, <1>7 DEF EdgeInv

\* A delivery takes each aggregate it finds together with its join.
LEMMA DrainFlight ==
    ASSUME AInv, CInv', CStep, OverStep, NEW p \in Thread, NEW succ \in 0..MaxTurn,
           DrainInto(p, succ), UNCHANGED <<prov, obs, alive>>
    PROVE  FlightInv' /\ ProperInv'
  <1>0. CInv /\ TypeOK /\ RetentionInv /\ ProperInv /\ FlightInv
    BY DEF AInv, CInv, RInv, IInv
  <1>1. NoMail \in [Mail -> {0}] /\ mail'[p] = NoMail
    BY <1>0, DrainFacts DEF NoMail
  <1>2. ASSUME NEW q \in Thread, q # p, NEW g \in Gen
        PROVE  Flight(q, g)' /\ Proper(obl'[q][g])
    <2>1. obl'[q] = obl[q] /\ mail'[q] = mail[q]
      BY <1>0, <1>2, DrainFacts
    <2>2. Flight(q, g) /\ Proper(obl[q][g])
      BY <1>0 DEF FlightInv, ProperInv
    <2>3. SamePath(q, g)
      BY <2>1 DEF SamePath
    <2> QED  BY <1>0, <2>1, <2>2, <2>3, FlightKept
  <1>3. ASSUME NEW g \in Gen
        PROVE  Flight(p, g)' /\ Proper(obl'[p][g])
    <2> DEFINE o == obl[p][g]
               to == IF succ = 0 THEN o.parent_turn ELSE succ
    <2>0. Flight(p, g) /\ Proper(o) /\ o \in Obligation /\ Retention(o)
      BY <1>0 DEF FlightInv, ProperInv, TypeOK, RetentionInv
    <2>1. \A k \in Turn : [gen |-> g, pred |-> k] \in Mail /\ g # 0
      BY BoundAssumption DEF Mail, Gen
    <2>2. NoMailOf(p, g)'
      BY <1>1, <2>1 DEF NoMailOf
    <2>3. CASE AckMail(p, g) = {}
      <3>1. obl'[p][g] = o
        BY <1>0, <2>3, DrainFacts
      <3>2. ~Queued(p, g) \/ o.st # "live" \/ ~o.trigger_sent
        <4> SUFFICES ASSUME Queued(p, g), o.st = "live", o.trigger_sent PROVE FALSE
          OBVIOUS
        <4> DEFINE x == [gen |-> g, pred |-> o.parent_turn]
        <4>1. o.parent_turn \in Turn /\ mail[p][x] = 1 /\ x \in Mail /\ g # 0
          BY <2>1 DEF Queued
        <4>2. x \in Tagged(p)
          BY <4>1 DEF Tagged
        <4>3. o.parent_turn # 0 /\ o.ready
          BY <2>0, <4>1, BoundAssumption DEF Proper, Turn
        <4>4. Acknowledgeable(p, g, o.parent_turn)
          BY <4>1, <4>3 DEF Acknowledgeable
        <4>5. x \in AckMail(p, g)
          BY <4>2, <4>4 DEF AckMail
        <4> QED  BY <2>3, <4>5
      <3>3. NoMailOf(p, g) \/ o.st = "retired"
        BY <2>0, <3>2 DEF Flight, Nothing, One, Marking, Recorded, Obligation
      <3>4. SamePath(p, g)
        BY <2>2, <3>1, <3>3 DEF SamePath, NoMailOf
      <3> QED  BY <1>0, <2>0, <3>1, <3>4, FlightKept
    <2>4. CASE AckMail(p, g) # {}
      <3>1. /\ o.st = "live" /\ o.parent_turn \in Turn
            /\ \E x \in AckMail(p, g) : x.pred = o.parent_turn
            /\ obl'[p][g] = Acknowledge(o, o.parent_turn, to)
        BY <1>0, <2>4, DrainFacts
      <3>2. ~NoMailOf(p, g)
        <4>1. PICK x \in AckMail(p, g) : x.pred = o.parent_turn
          BY <3>1
        <4>2. x \in Mail /\ x.gen = g /\ mail[p][x] > 0
          BY DEF AckMail, Tagged
        <4>3. x = [gen |-> g, pred |-> o.parent_turn]
          BY <4>1, <4>2 DEF Mail
        <4> QED  BY <3>1, <4>2, <4>3 DEF NoMailOf
      <3>3. NoMark(p, g) /\ NoProv(p, g)
        BY <2>0, <3>1, <3>2 DEF Flight, Nothing, One, Marking, Recorded, Queued, Obligation
      <3>4. Nothing(p, g)'
        BY <2>2, <3>3 DEF Nothing, NoMark, NoProv
      <3>5. to \in Turn
        BY <3>1, BoundAssumption DEF Turn
      <3> HIDE DEF o, to
      <3>6. LET q == obl'[p][g]
            IN  /\ q.trigger_turn = o.trigger_turn
                /\ \/ q.st = o.st /\ q.parent_turn = to /\ ~q.trigger_sent /\ ~q.ready
                   \/ /\ q.st = "consumed" /\ q.parent_turn = o.parent_turn
                      /\ q.trigger_sent = o.trigger_sent /\ q.ready = o.ready
        BY <2>0, <3>1, <3>5, AcknowledgeMoves
      <3>7. obl'[p][g] \in Obligation
        BY DEF CInv, RInv, IInv, TypeOK
      <3>8. Proper(obl'[p][g])
        BY <2>0, <3>1, <3>5, <3>6, <3>7 DEF Proper, Obligation
      <3>9. obl'[p][g].st = "consumed" \/ (obl'[p][g].st = "live" /\ ~obl'[p][g].trigger_sent)
        BY <3>1, <3>6
      <3> QED  BY <3>4, <3>8, <3>9 DEF Flight
    <2> QED  BY <2>3, <2>4
  <1> QED  BY <1>2, <1>3 DEF FlightInv, ProperInv, Proper

\* Nobody new is observed or dies.
LEMMA SameEdges ==
    ASSUME EdgeInv, UNCHANGED <<obs, dying>>
    PROVE  EdgeInv'
  BY DEF EdgeInv

\* A step in which no turn starts or ends.
LEMMA SameOver ==
    ASSUME TypeOK, UNCHANGED <<cur, slot>>
    PROVE  OverStep
  BY DEF OverStep, TypeOK, Turn

\* The four deliveries.
LEMMA DeliveryFlight ==
    ASSUME AInv, CInv', CStep, NEW p \in Thread,
           UserStart(p) \/ Wake(p) \/ ActiveDelivery(p) \/ OrphanDelivery(p)
    PROVE  FlightInv' /\ ProperInv' /\ EdgeInv'
  <1>0. TypeOK /\ EdgeInv
    BY DEF AInv, CInv, RInv, IInv
  <1>1. \A q \in Thread : cur[q] \in Nat
    BY <1>0 DEF TypeOK, Turn
  <1>2. CASE UserStart(p) \/ Wake(p)
    <2>1. StartTurn(p)
      BY <1>2 DEF UserStart, Wake
    <2>2. cur[p] + 1 \in 0..MaxTurn
      BY <1>0, <2>1, BoundAssumption DEF StartTurn, TypeOK, Turn
    <2>3. /\ DrainInto(p, cur[p] + 1) /\ cur' = [cur EXCEPT ![p] = cur[p] + 1]
          /\ slot' = [slot EXCEPT ![p] = "running"]
          /\ UNCHANGED <<dying, alive, prov, obs>>
      BY <2>1 DEF StartTurn
    <2>4. cur'[p] = cur[p] + 1 /\ \A q \in Thread : q # p => cur'[q] = cur[q] /\ slot'[q] = slot[q]
      BY <1>0, <2>3 DEF TypeOK
    <2>5. OverStep
      BY <1>1, <2>4 DEF OverStep
    <2> QED  BY <1>0, <2>2, <2>3, <2>5, DrainFlight, SameEdges
  <1>3. CASE ActiveDelivery(p)
    <2>1. cur[p] \in 0..MaxTurn
      BY <1>0, BoundAssumption DEF TypeOK, Turn
    <2>2. DrainInto(p, cur[p]) /\ UNCHANGED <<cur, slot, dying, alive, prov, obs>>
      BY <1>3 DEF ActiveDelivery, turnVars
    <2> QED  BY <1>0, <2>1, <2>2, SameOver, DrainFlight, SameEdges
  <1>4. CASE OrphanDelivery(p)
    <2>1. 0 \in 0..MaxTurn
      BY BoundAssumption
    <2>2. DrainInto(p, 0) /\ UNCHANGED <<cur, slot, dying, alive, prov, obs>>
      BY <1>4 DEF OrphanDelivery, turnVars
    <2> QED  BY <1>0, <2>1, <2>2, SameOver, DrainFlight, SameEdges
  <1> QED  BY <1>2, <1>3, <1>4

\* A turn that ended in an error retires its join with the queued aggregate;
\* what observers still carry of it can no longer be mistaken for another join.
LEMMA RecordFlight ==
    ASSUME AInv, CInv', CStep, NEW p \in Thread, NEW d \in dying[p], RecordTerminal(p, d)
    PROVE  FlightInv' /\ ProperInv' /\ EdgeInv'
  <1> DEFINE gone == IF IsFinal(d.status) THEN RetiredGens(p, d) ELSE {}
  <1>0. CInv /\ TypeOK /\ SlotInv /\ ProperInv /\ FlightInv /\ EdgeInv
    BY DEF AInv, CInv, RInv, IInv
  <1>1. /\ \A q \in Thread : q # p => obl'[q] = obl[q] /\ mail'[q] = mail[q]
        /\ \A g \in Gen : obl'[p][g] = IF g \in gone THEN [obl[p][g] EXCEPT !.st = "retired"]
                                       ELSE obl[p][g]
        /\ mail'[p] = Without(p, gone) /\ d.turn \in Turn
        /\ UNCHANGED <<slot, cur, alive, prov, obs>>
    BY <1>0, RecordFacts
  <1>2. OverStep
    BY <1>0, <1>1, SameOver
  <1>3. \A g \in Gen : g \in gone => /\ obl[p][g].st = "live" /\ obl[p][g].parent_turn = d.turn
                                     /\ gone = SameKind(p, d.turn, TRUE)
                                     /\ "Errored" \in Endings
    <2>1. d.status \in Endings /\ d.status \in EndStatus
      BY <1>0, BoundAssumption DEF EdgeInv
    <2>2. ASSUME NEW g \in gone
          PROVE  d.status = "Errored" /\ gone = SameKind(p, d.turn, TRUE)
      BY <2>1 DEF RetiredGens, IsFinal, EndStatus
    <2>3. \A g \in SameKind(p, d.turn, TRUE) : obl[p][g].st = "live" /\ obl[p][g].parent_turn = d.turn
      BY DEF SameKind, Live
    <2> HIDE DEF gone
    <2> QED  BY <2>1, <2>2, <2>3
  <1>4. Over(p, d.turn)
    <2>1. d.turn <= cur[p] /\ d.turn \in Nat /\ cur[p] \in Nat
          /\ (slot[p] = "running" => d.turn # cur[p])
      BY <1>0, <1>1 DEF SlotInv, TypeOK, Turn
    <2> QED  BY <2>1 DEF Over
  <1> HIDE DEF gone
  <1>5. ASSUME NEW q \in Thread, NEW g \in Gen, q # p \/ g \notin gone
        PROVE  Flight(q, g)' /\ Proper(obl'[q][g])
    <2>1. obl'[q][g] = obl[q][g]
      BY <1>1, <1>5
    <2>2. \A k \in Turn : mail'[q][[gen |-> g, pred |-> k]] = mail[q][[gen |-> g, pred |-> k]]
      <3>1. \A k \in Turn : [gen |-> g, pred |-> k] \in Mail
        BY BoundAssumption DEF Mail, Gen
      <3>2. CASE q = p
        BY <1>1, <1>5, <3>1, <3>2 DEF Without
      <3>3. CASE q # p
        BY <1>1, <3>3
      <3> QED  BY <3>2, <3>3
    <2>3. SamePath(q, g)
      BY <1>1, <2>1, <2>2 DEF SamePath
    <2>4. Flight(q, g) /\ Proper(obl[q][g])
      BY <1>0 DEF FlightInv, ProperInv
    <2> QED  BY <1>0, <1>2, <2>1, <2>3, <2>4, FlightKept
  <1>6. ASSUME NEW g \in Gen, g \in gone
        PROVE  Flight(p, g)' /\ Proper(obl'[p][g])
    <2> DEFINE o == obl[p][g]
               q == obl'[p][g]
    <2>1. o \in Obligation /\ o.st = "live" /\ o.parent_turn = d.turn /\ Proper(o) /\ Flight(p, g)
      BY <1>0, <1>3, <1>6 DEF TypeOK, ProperInv, FlightInv
    <2>2. q = [o EXCEPT !.st = "retired"]
      BY <1>1, <1>6
    <2> HIDE DEF q
    <2>3. /\ q.st = "retired" /\ q.parent_turn = d.turn /\ q.trigger_turn = o.trigger_turn
          /\ q.ready = o.ready /\ q.trigger_sent = o.trigger_sent
      BY <2>1, <2>2 DEF Obligation
    <2>4. Proper(q)
      BY <1>3, <1>6, <2>1, <2>3 DEF Proper
    <2>5. Over(p, d.turn)'
      BY <1>1, <1>4 DEF Over
    <2>6. \A h \in Gen : obl'[p][h].st = "live" => obl'[p][h].parent_turn # d.turn
      <3> SUFFICES ASSUME NEW h \in Gen, obl'[p][h].st = "live", obl'[p][h].parent_turn = d.turn
                   PROVE  FALSE
        OBVIOUS
      <3>1. obl[p][h] \in Obligation
        BY <1>0 DEF TypeOK
      <3>2. h \notin gone
        BY <1>1, <3>1 DEF Obligation
      <3>3. obl'[p][h] = obl[p][h]
        BY <1>1, <3>2
      <3>4. obl[p][h].trigger_turn
        BY <1>0, <3>3 DEF ProperInv, Proper
      <3>5. h \in SameKind(p, d.turn, TRUE)
        BY <3>1, <3>3, <3>4 DEF SameKind, Live, Obligation
      <3> QED  BY <1>3, <1>6, <3>2, <3>5
    <2>7. \A c \in Child(p), n \in ObsId : obs'[c][g][n].pc = "mark" => obs'[c][g][n].owner = d.turn
      BY <1>1, <2>1 DEF Flight, One, Nothing, NoMark, Marking, Recorded, Queued, Obligation
    <2> QED  BY <2>3, <2>4, <2>5, <2>6, <2>7 DEF Flight, q, Over
  <1>7. FlightInv' /\ ProperInv'
    BY <1>5, <1>6 DEF FlightInv, ProperInv, Proper
  <1>8. \A q \in Thread : dying'[q] \subseteq dying[q]
    BY <1>0 DEF RecordTerminal, TypeOK
  <1> QED  BY <1>0, <1>1, <1>7, <1>8 DEF EdgeInv

\* A registration takes an unused generation; the aggregates stay.
LEMMA RegisterFlight ==
    ASSUME FALSE \notin Kinds, AInv, CInv', CStep,
           NEW p \in Thread, NEW S \in SUBSET Child(p), NEW kind \in Kinds, Register(p, S, kind)
    PROVE  FlightInv' /\ ProperInv' /\ EdgeInv'
  <1> DEFINE new == NewJoin(cur[p], kind, S)
  <1>0. CInv /\ RInv /\ TypeOK /\ TypeOK' /\ ProperInv /\ FlightInv /\ EdgeInv
    BY DEF AInv, CInv, RInv, IInv
  <1>1. /\ UNCHANGED <<slot, cur, dying, alive, prov, mail>>
        /\ SharesOrAdds(p, new) /\ Spawns(S)
    BY <1>0, RegisterFacts DEF turnVars, mailVars
  <1>2. kind = TRUE
    BY BoundAssumption
  <1>3. /\ new.st = "live" /\ new.parent_turn = cur[p] /\ new.trigger_turn = kind
        /\ ~new.ready /\ ~new.trigger_sent
    BY NewJoinFacts
  <1> HIDE DEF new
  <1>4. OverStep
    BY <1>0, <1>1, SameOver
  <1>5. \A c \in Thread, g \in Gen, n \in ObsId :
          \/ obs'[c][g][n] = obs[c][g][n]
          \/ obs'[c][g][n].pc # "mark" /\ obs[c][g][n].pc # "mark"
    <2>1. \A k : NewObserver(k).pc = "wait"
      BY DEF NewObserver, NoObserver
    <2> QED  BY <1>1, <2>1 DEF Spawns
  <1>6. \A q \in Thread : Child(q) \subseteq Thread
    BY DEF Child
  <1>7. ASSUME NEW q \in Thread, NEW g \in Gen
        PROVE  Flight(q, g)' /\ Proper(obl'[q][g])
    <2>0. Flight(q, g) /\ Proper(obl[q][g])
      BY <1>0 DEF FlightInv, ProperInv
    <2>1. CASE obl'[q][g] = obl[q][g]
      <3>1. SamePath(q, g)
        BY <1>1, <1>5, <1>6, <2>1 DEF SamePath
      <3> QED  BY <1>0, <1>4, <2>0, <2>1, <3>1, FlightKept
    <2>2. CASE obl'[q][g] # obl[q][g]
      <3>1. q = p /\ obl[p][g].st = "unused" /\ obl'[p][g] = new
        BY <1>1, <2>2 DEF SharesOrAdds
      <3>2. Nothing(p, g)
        BY <2>0, <3>1 DEF Flight
      <3>3. Nothing(p, g)'
        BY <1>1, <1>5, <1>6, <3>2 DEF Nothing, NoMark, NoProv, NoMailOf
      <3>4. new.ready \in BOOLEAN /\ new.trigger_sent \in BOOLEAN /\ cur[p] \in Turn
        <4>1. obl'[p][g] \in Obligation /\ cur[p] \in Turn
          BY <1>0 DEF TypeOK
        <4> QED  BY <3>1, <4>1 DEF Obligation
      <3>5. Proper(new)
        BY <1>2, <1>3, <3>4 DEF Proper
      <3>6. Flight(p, g)'
        BY <1>3, <3>1, <3>3 DEF Flight
      <3> QED  BY <3>1, <3>5, <3>6
    <2> QED  BY <2>1, <2>2
  <1>8. \A g \in Gen, n \in ObsId : obs'[Root][g][n] = obs[Root][g][n]
    BY <1>1, ThreadAssumption DEF Spawns, Child
  <1> QED  BY <1>0, <1>1, <1>7, <1>8 DEF FlightInv, ProperInv, Proper, EdgeInv

\* The trigger of a turn takes the provenance that is left for it: the
\* aggregate moves from join_trigger_provenance to the mailbox.
LEMMA EnqueueFlight ==
    ASSUME AInv, CInv', CStep, OverStep, NEW p \in Thread, NEW pred \in Turn, Enqueue(p, pred),
           UNCHANGED alive,
           \A c \in Thread, g \in Gen, n \in ObsId :
             \/ obs'[c][g][n] = obs[c][g][n]
             \/ obs'[c][g][n].pc # "mark" /\ obs[c][g][n].pc # "mark"
    PROVE  FlightInv' /\ ProperInv'
  <1> DEFINE r == prov[p][pred]
  <1>0. CInv /\ TypeOK /\ ProperInv /\ FlightInv
    BY DEF AInv, CInv, RInv, IInv
  <1>1. /\ \A q \in Thread, h \in Gen : Rests(obl[q][h], obl'[q][h])
        /\ \A q \in Thread : q # p => prov'[q] = prov[q] /\ mail'[q] = mail[q]
        /\ \A k \in Turn : prov'[p][k] = IF k = pred THEN 0 ELSE prov[p][k]
        /\ \A x \in Mail : mail'[p][x] =
             IF x = [gen |-> r, pred |-> pred] THEN mail[p][x] + 1 ELSE mail[p][x]
    BY <1>0, EnqueueFacts
  <1>2. \A q \in Thread : Child(q) \subseteq Thread
    BY DEF Child
  <1>3. \A g \in Gen, k \in Turn : [gen |-> g, pred |-> k] \in Mail /\ g # 0
    BY BoundAssumption DEF Mail, Gen
  <1>4. ProperInv'
    BY <1>0, <1>1 DEF ProperInv, Proper, Rests, Stays
  <1>5. ASSUME NEW q \in Thread, NEW g \in Gen, q # p \/ g # r
        PROVE  Flight(q, g)'
    <2>1. Flight(q, g)
      BY <1>0 DEF FlightInv
    <2>2. \A k \in Turn : /\ prov'[q][k] = g <=> prov[q][k] = g
                          /\ mail'[q][[gen |-> g, pred |-> k]] = mail[q][[gen |-> g, pred |-> k]]
      <3>1. CASE q # p
        BY <1>1, <3>1
      <3>2. CASE q = p
        BY <1>1, <1>3, <1>5, <3>2
      <3> QED  BY <3>1, <3>2
    <2>3. SamePath(q, g)
      BY <1>1, <1>2, <2>2 DEF SamePath, Rests, Stays
    <2> QED  BY <1>0, <2>1, <2>3, FlightKept
  <1>6. ASSUME NEW g \in Gen, g = r
        PROVE  Flight(p, g)'
    <2> DEFINE o == obl[p][g]
               q == obl'[p][g]
    <2>0. Flight(p, g) /\ Proper(o) /\ o \in Obligation
      BY <1>0, <1>6 DEF FlightInv, ProperInv, TypeOK
    <2>1. ~NoProv(p, g)
      BY <1>6 DEF NoProv
    <2>2. q.st = o.st /\ q.parent_turn = o.parent_turn /\ q.trigger_sent = o.trigger_sent
      BY <1>1, <1>6 DEF Rests, Stays
    <2>3. o.st \in {"live", "retired"}
      BY <2>0, <2>1 DEF Flight, Nothing, Obligation
    <2>4. CASE o.st = "retired"
      <3>1. o.parent_turn \in Turn
        BY <2>0, <2>4 DEF Proper
      <3>2. \A c \in Child(p), n \in ObsId : obs'[c][g][n].pc = "mark" =>
              obs[c][g][n].pc = "mark" /\ obs'[c][g][n].owner = obs[c][g][n].owner
        BY <1>2, <1>6
      <3> QED  BY <1>0, <1>6, <2>0, <2>2, <2>4, <3>1, <3>2, RetiredKept
    <2>5. CASE o.st = "live"
      <3>1. o.trigger_sent /\ Recorded(p, g)
        BY <2>0, <2>1, <2>5 DEF Flight, Nothing, One, Marking, Queued
      <3>2. NoMark(p, g) /\ NoMailOf(p, g) /\ pred = o.parent_turn
        BY <1>6, <3>1 DEF Recorded
      <3>3. NoMark(p, g)'
        BY <1>2, <1>6, <3>2 DEF NoMark
      <3>4. NoProv(p, g)'
        <4>1. \A k \in Turn : prov[p][k] = g => k = pred
          BY <3>1, <3>2 DEF Recorded
        <4>2. g # 0
          BY <1>3
        <4> QED  BY <1>1, <4>1, <4>2 DEF NoProv
      <3>5. \A k \in Turn : mail'[p][[gen |-> g, pred |-> k]] = IF k = pred THEN 1 ELSE 0
        <4> SUFFICES ASSUME NEW k \in Turn
                     PROVE  mail'[p][[gen |-> g, pred |-> k]] = IF k = pred THEN 1 ELSE 0
          OBVIOUS
        <4>1. mail[p][[gen |-> g, pred |-> k]] = 0
          BY <3>2 DEF NoMailOf
        <4>2. [gen |-> g, pred |-> k] \in Mail
          BY <1>3, <1>6
        <4>3. [gen |-> g, pred |-> k] = [gen |-> g, pred |-> pred] <=> k = pred
          OBVIOUS
        <4> QED  BY <1>1, <1>6, <4>1, <4>2, <4>3
      <3>6. Queued(p, g)'
        <4>1. q.parent_turn = pred
          BY <2>2, <3>2
        <4> QED  BY <1>6, <3>3, <3>4, <3>5, <4>1 DEF Queued, q
      <3> QED  BY <2>2, <2>5, <3>1, <3>6 DEF Flight, One
    <2> QED  BY <2>3, <2>4, <2>5
  <1>7. FlightInv'
    BY <1>5, <1>6 DEF FlightInv
  <1> QED  BY <1>4, <1>7

\* Only the child of somebody has observers, and only its own.
LEMMA ObserverEdge ==
    ASSUME TypeOK, EdgeInv, NEW c \in Thread, NEW g \in Gen, NEW n \in ObsId, NEW q,
           Goto(c, g, n, q), obs[c][g][n].pc # "off", UNCHANGED dying
    PROVE  EdgeInv' /\ c \in Child(Parent[c]) /\ Parent[c] \in Thread
  <1>1. c # Root
    BY DEF EdgeInv
  <1>2. c \in Child(Parent[c]) /\ Parent[c] \in Thread
    BY <1>1, ThreadAssumption DEF Child
  <1>3. \A h \in Gen, m \in ObsId : obs'[Root][h][m] = obs[Root][h][m]
    BY <1>1, ThreadAssumption, GotoFacts
  <1> QED  BY <1>2, <1>3 DEF EdgeInv

\* A step of an observer that is not about to record a trigger, before or
\* after it.
LEMMA CalmObserver ==
    ASSUME AInv, CInv', CStep, NEW c \in Thread, NEW g \in Gen, NEW n \in ObsId, NEW q,
           Goto(c, g, n, q), q.pc # "mark", obs[c][g][n].pc \notin {"mark", "off"},
           UNCHANGED <<slot, cur, dying, alive, prov, mail>>,
           \A x \in Thread, h \in Gen : Rests(obl[x][h], obl'[x][h])
    PROVE  FlightInv' /\ ProperInv' /\ EdgeInv'
  <1>0. TypeOK /\ EdgeInv
    BY DEF AInv, CInv, RInv, IInv
  <1>1. \A d \in Thread, h \in Gen, m \in ObsId :
          \/ obs'[d][h][m] = obs[d][h][m]
          \/ obs'[d][h][m].pc # "mark" /\ obs[d][h][m].pc # "mark"
    BY <1>0, GotoFacts
  <1>2. EdgeInv'
    BY <1>0, ObserverEdge
  <1>3. OverStep
    BY <1>0, SameOver
  <1> QED  BY <1>1, <1>2, <1>3, CalmFlight

\* The steps in which an observer only looks.
LEMMA LookFlight ==
    ASSUME AInv, CInv', CStep, NEW c \in Thread, NEW g \in Gen, NEW n \in ObsId,
           \/ SeeTerminal(c, g, n) \/ SnapshotContinuation(c, g, n) \/ AwaitDelivery(c, g, n)
           \/ CheckSuccessor(c, g, n) \/ SeeSuccessorTerminal(c, g, n)
           \/ FinishContinuation(c, g, n)
    PROVE  FlightInv' /\ ProperInv' /\ EdgeInv'
  <1> DEFINE o == obs[c][g][n]
  <1>0. CInv /\ TypeOK
    BY DEF AInv, CInv, RInv, IInv
  <1>1. o \in Observer
    BY <1>0 DEF TypeOK
  <1>2. \A x \in Thread, h \in Gen : Rests(obl[x][h], obl'[x][h])
    <2>1. UNCHANGED obl
      BY <1>0, LookSettles
    <2> QED  BY <2>1, SameRests
  <1>3. UNCHANGED <<slot, cur, dying, alive, prov, mail>>
    <2>1. CASE SeeTerminal(c, g, n) \/ SnapshotContinuation(c, g, n)
      BY <2>1 DEF SeeTerminal, SnapshotContinuation, turnVars, mailVars
    <2>2. CASE AwaitDelivery(c, g, n) \/ CheckSuccessor(c, g, n)
      BY <2>2 DEF AwaitDelivery, CheckSuccessor, turnVars, mailVars
    <2>3. CASE SeeSuccessorTerminal(c, g, n) \/ FinishContinuation(c, g, n)
      BY <2>3 DEF SeeSuccessorTerminal, FinishContinuation, turnVars, mailVars
    <2> QED  BY <2>1, <2>2, <2>3
  <1>4. ASSUME NEW q, Goto(c, g, n, q), q.pc # "mark", o.pc \notin {"mark", "off"}
        PROVE  FlightInv' /\ ProperInv' /\ EdgeInv'
    BY <1>2, <1>3, <1>4, CalmObserver
  <1> DEFINE done == [NoObserver EXCEPT !.pc = "done"]
  <1>5. done.pc # "mark" /\ (Exit(c, g, n) => Goto(c, g, n, done))
    BY DEF NoObserver, Exit
  <1>6. \A s : After(s) # "mark"
    BY DEF After
  <1> HIDE DEF done
  <1>7. CASE SeeTerminal(c, g, n)
    <2>1. PICK s : o.pc = "wait" /\ Goto(c, g, n, [o EXCEPT !.status = s, !.pc = After(s)])
      BY <1>7 DEF SeeTerminal, At
    <2> DEFINE q == [o EXCEPT !.status = s, !.pc = After(s)]
    <2>2. q.pc = After(s)
      BY <1>1 DEF Observer
    <2> HIDE DEF q
    <2> QED  BY <1>4, <1>6, <2>1, <2>2 DEF q
  <1>8. CASE SnapshotContinuation(c, g, n)
    <2> DEFINE s == Snapshot(c, o.turn)
               a == [o EXCEPT !.pc = "resolve"]
               r == [o EXCEPT !.pc = "retire"]
               k == [o EXCEPT !.pc = "retain", !.inner = s.gen]
               v == [o EXCEPT !.pc = "live", !.succ = s.succ, !.status = s.terminal]
    <2>1. /\ o.pc = "snap"
          /\ \/ Exit(c, g, n) \/ Goto(c, g, n, a)
             \/ Goto(c, g, n, r) \/ Goto(c, g, n, k) \/ Goto(c, g, n, v)
      BY <1>8 DEF SnapshotContinuation, At
    <2>2. a.pc = "resolve" /\ r.pc = "retire" /\ k.pc = "retain" /\ v.pc = "live"
      BY <1>1 DEF Observer
    <2> HIDE DEF s, o, a, r, k, v
    <2> QED  BY <1>4, <1>5, <2>1, <2>2
  <1>9. CASE AwaitDelivery(c, g, n)
    <2> DEFINE q == [o EXCEPT !.pc = "snap", !.registered = TRUE]
    <2>1. o.pc = "owner" /\ (Exit(c, g, n) \/ Goto(c, g, n, q))
      BY <1>9 DEF AwaitDelivery, At
    <2>2. q.pc = "snap"
      BY <1>1 DEF Observer
    <2> HIDE DEF q
    <2> QED  BY <1>4, <1>5, <2>1, <2>2
  <1>10. CASE CheckSuccessor(c, g, n)
    <2> DEFINE q == [o EXCEPT !.pc = "rebind"]
    <2>1. o.pc = "live" /\ (Exit(c, g, n) \/ Goto(c, g, n, q))
      BY <1>10 DEF CheckSuccessor, At
    <2>2. q.pc = "rebind"
      BY <1>1 DEF Observer
    <2> HIDE DEF q
    <2> QED  BY <1>4, <1>5, <2>1, <2>2
  <1>11. CASE SeeSuccessorTerminal(c, g, n)
    <2>1. /\ o.pc = "succ"
          /\ Exit(c, g, n) \/ \E x : Goto(c, g, n, [o EXCEPT !.status = x, !.pc = "finish"])
      BY <1>11 DEF SeeSuccessorTerminal, At
    <2>2. ASSUME NEW x, Goto(c, g, n, [o EXCEPT !.status = x, !.pc = "finish"])
          PROVE  FlightInv' /\ ProperInv' /\ EdgeInv'
      <3> DEFINE q == [o EXCEPT !.status = x, !.pc = "finish"]
      <3>1. q.pc = "finish"
        BY <1>1 DEF Observer
      <3> HIDE DEF q
      <3> QED  BY <1>4, <2>1, <2>2, <3>1 DEF q
    <2> QED  BY <1>4, <1>5, <2>1, <2>2
  <1>12. CASE FinishContinuation(c, g, n)
    <2> DEFINE q == [o EXCEPT !.inner = 0, !.pred = 0, !.pc = After(o.status)]
    <2>1. o.pc = "finish" /\ Goto(c, g, n, q)
      BY <1>12 DEF FinishContinuation, At
    <2>2. q.pc = After(o.status)
      BY <1>1 DEF Observer
    <2> HIDE DEF q
    <2> QED  BY <1>4, <1>6, <2>1, <2>2
  <1> QED  BY <1>7, <1>8, <1>9, <1>10, <1>11, <1>12

\* The steps of an observer that rewrite an obligation but hand out no
\* completion: finish_join_dispatch, the rebinding and the retired retention.
LEMMA RewriteFlight ==
    ASSUME AInv, CInv', CStep, NEW c \in Thread, NEW g \in Gen, NEW n \in ObsId,
           FinishDispatch(c, g, n) \/ RebindTarget(c, g, n) \/ RetireRetention(c, g, n)
    PROVE  FlightInv' /\ ProperInv' /\ EdgeInv'
  <1> DEFINE p == Parent[c]
             o == obs[c][g][n]
             b == obl[p][g]
             done == [NoObserver EXCEPT !.pc = "done"]
  <1>0. CInv /\ TypeOK /\ ObserverInv
    BY DEF AInv, CInv, RInv, IInv
  <1>1. p \in Thread /\ b \in Obligation /\ o \in Observer /\ ObserverExact(c, o)
    BY <1>0, ThreadAssumption DEF TypeOK, ObserverInv
  <1>2. UNCHANGED <<slot, cur, dying, alive, prov, mail>>
    <2>1. CASE FinishDispatch(c, g, n)
      BY <2>1 DEF FinishDispatch, turnVars, mailVars
    <2>2. CASE RebindTarget(c, g, n) \/ RetireRetention(c, g, n)
      BY <2>2 DEF RebindTarget, RetireRetention, turnVars, mailVars
    <2> QED  BY <2>1, <2>2
  <1>3. done.pc # "mark" /\ (Exit(c, g, n) => Goto(c, g, n, done))
    BY DEF NoObserver, Exit
  <1> HIDE DEF done
  <1>4. ASSUME NEW q, Goto(c, g, n, q), q.pc # "mark", o.pc \notin {"mark", "off"},
               \/ UNCHANGED obl
               \/ \E r : obl' = [obl EXCEPT ![p][g] = r] /\ Rests(b, r)
        PROVE  FlightInv' /\ ProperInv' /\ EdgeInv'
    <2>1. \A x \in Thread, h \in Gen : Rests(obl[x][h], obl'[x][h])
      BY <1>0, <1>1, <1>4, SameRests, OneRests
    <2> QED  BY <1>2, <1>4, <2>1, CalmObserver
  <1>5. CASE FinishDispatch(c, g, n)
    <2> DEFINE q == [o EXCEPT !.pc = "owner"]
    <2>1. /\ o.pc = "sent" /\ (Goto(c, g, n, q) \/ Exit(c, g, n))
          /\ obl' = [obl EXCEPT ![p][g] = Dispatched(b)]
      BY <1>5 DEF FinishDispatch, At
    <2>2. q.pc = "owner"
      BY <1>1 DEF Observer
    <2>3. Rests(b, Dispatched(b))
      BY <1>1, DispatchedRests
    <2> HIDE DEF q, b, p
    <2> QED  BY <1>3, <1>4, <2>1, <2>2, <2>3
  <1>6. CASE RebindTarget(c, g, n)
    <2> DEFINE pc == IF o.status = "none" THEN "succ" ELSE "finish"
               q == [o EXCEPT !.turn = o.succ, !.pred = o.turn, !.succ = 0,
                              !.fenced = ~alive[c], !.keep = FALSE, !.registered = FALSE,
                              !.pc = pc]
    <2>1. /\ o.pc = "rebind"
          /\ \/ /\ AwaitsSuccessor(b, c) /\ obl' = [obl EXCEPT ![p][g] = Rebound(b, c, o.succ)]
                /\ Goto(c, g, n, q)
             \/ UNCHANGED obl /\ Exit(c, g, n)
      BY <1>6 DEF RebindTarget, At
    <2>2. q.pc = pc
      BY <1>1 DEF Observer
    <2>3. pc # "mark"
      OBVIOUS
    <2>4. o.succ \in Turn
      <3> HIDE DEF o
      <3> QED  BY <1>1, <2>1 DEF ObserverExact
    <2> HIDE DEF q, b, p, pc
    <2>5. AwaitsSuccessor(b, c) => Rests(b, Rebound(b, c, o.succ))
      BY <1>1, <2>4, ReboundRests
    <2> QED  BY <1>3, <1>4, <2>1, <2>2, <2>3, <2>5
  <1>7. CASE RetireRetention(c, g, n)
    <2> DEFINE q == [o EXCEPT !.status = "Shutdown", !.pc = "resolve"]
    <2>1. /\ o.pc = "retire"
          /\ \/ /\ AwaitsSuccessor(b, c) /\ obl' = [obl EXCEPT ![p][g] = Unretained(b, c)]
                /\ Goto(c, g, n, q)
             \/ UNCHANGED obl /\ Exit(c, g, n)
      BY <1>7 DEF RetireRetention, At
    <2>2. q.pc = "resolve"
      BY <1>1 DEF Observer
    <2> HIDE DEF q, b, p
    <2>3. AwaitsSuccessor(b, c) => Rests(b, Unretained(b, c))
      BY <1>1, UnretainedRests
    <2> QED  BY <1>3, <1>4, <2>1, <2>2, <2>3
  <1> QED  BY <1>5, <1>6, <1>7

\* The resolution that completes a join hands its completion to one observer.
LEMMA ResolveFlight ==
    ASSUME AInv, CInv', CStep, NEW c \in Thread, NEW g \in Gen, NEW n \in ObsId,
           ResolveTarget(c, g, n)
    PROVE  FlightInv' /\ ProperInv' /\ EdgeInv'
  <1>0. CInv /\ TypeOK /\ TypeOK' /\ FlightInv /\ ProperInv /\ EdgeInv
    BY DEF AInv, CInv, RInv, IInv
  <1>parent. PICK p \in Thread : p = Parent[c]
    BY ThreadAssumption
  <1> DEFINE o == obs[c][g][n]
             b == obl[p][g]
             retain == o.pc = "retain"
             fires == Fires(b, c, o.status, retain)
             next == AfterResolve(fires, retain)
             q == [o EXCEPT !.pc = next, !.keep = retain, !.owner = b.parent_turn]
             r == Resolve(b, c, o.status, retain)
             done == [NoObserver EXCEPT !.pc = "done"]
  <1>1. b \in Obligation /\ o \in Observer /\ Flight(p, g) /\ Proper(b)
    BY <1>0 DEF TypeOK, FlightInv, ProperInv
  <1>2. /\ o.pc \in {"retain", "resolve"}
        /\ UNCHANGED <<slot, cur, dying, alive, prov, mail>>
        /\ \/ /\ b.st = "live" /\ obl' = [obl EXCEPT ![p][g] = r]
              /\ IF next = "done" THEN Exit(c, g, n) ELSE Goto(c, g, n, q)
           \/ UNCHANGED obl /\ Exit(c, g, n)
    BY <1>parent DEF ResolveTarget, Resolvable, turnVars, mailVars
  <1>3. q.pc = next /\ q.owner = b.parent_turn
    BY <1>1 DEF Observer
  <1>4. next = IF fires THEN "mark" ELSE IF retain THEN "owner" ELSE "done"
    BY DEF AfterResolve
  <1>5. done.pc = "done" /\ (Exit(c, g, n) => Goto(c, g, n, done))
    BY DEF NoObserver, Exit
  <1>6. o.status \in Status /\ retain \in BOOLEAN
    <2> HIDE DEF o
    <2> QED  BY <1>1 DEF Observer
  <1>7. Resolves(b, r, c, o.status, retain)
    <2> HIDE DEF b, o, retain
    <2> QED  BY <1>1, <1>6, ResolveStays
  <1>8. /\ Stays(b, r) /\ (b.ready = b.trigger_sent => r.ready = r.trigger_sent)
        /\ r.trigger_sent = (b.trigger_sent \/ fires) /\ (fires => ~b.trigger_sent)
    BY <1>7 DEF Resolves
  <1> HIDE DEF o, b, retain, fires, next, q, r, done
  <1>9. CASE UNCHANGED obl /\ Exit(c, g, n)
    <2>1. \A x \in Thread, h \in Gen : Rests(obl[x][h], obl'[x][h])
      BY <1>9, SameRests
    <2>2. obs[c][g][n].pc \notin {"mark", "off"}
      BY <1>2 DEF o
    <2> QED  BY <1>2, <1>5, <1>9, <2>1, <2>2, CalmObserver
  <1>10. CASE /\ b.st = "live" /\ obl' = [obl EXCEPT ![p][g] = r] /\ ~fires
              /\ IF next = "done" THEN Exit(c, g, n) ELSE Goto(c, g, n, q)
    <2>1. Rests(b, r)
      <3>1. b.ready = b.trigger_sent /\ b.trigger_sent \in BOOLEAN
        BY <1>1 DEF Proper, Obligation
      <3> QED  BY <1>8, <1>10, <3>1 DEF Rests
    <2>2. \A x \in Thread, h \in Gen : Rests(obl[x][h], obl'[x][h])
      BY <1>0, <1>1, <1>10, <2>1, OneRests DEF b
    <2>3. obs[c][g][n].pc \notin {"mark", "off"}
      BY <1>2 DEF o
    <2>4. \E z : Goto(c, g, n, z) /\ z.pc # "mark"
      BY <1>3, <1>4, <1>5, <1>10
    <2> QED  BY <1>2, <2>2, <2>3, <2>4, CalmObserver
  <1>11. CASE b.st = "live" /\ obl' = [obl EXCEPT ![p][g] = r] /\ fires /\ Goto(c, g, n, q)
    <2>1. /\ obl'[p][g] = r
          /\ \A x \in Thread, h \in Gen : ~(x = p /\ h = g) => obl'[x][h] = obl[x][h]
      BY <1>0, <1>11 DEF TypeOK
    <2>2. /\ obs'[c][g][n] = q
          /\ \A d \in Thread, h \in Gen, m \in ObsId :
               ~(d = c /\ h = g /\ m = n) => obs'[d][h][m] = obs[d][h][m]
      BY <1>0, <1>11, GotoFacts
    <2>3. EdgeInv' /\ c \in Child(p)
      BY <1>0, <1>parent, <1>2, <1>11, ObserverEdge DEF o
    <2>4. OverStep
      BY <1>0, <1>2, SameOver
    <2>5. r.st = "live" /\ r.parent_turn = b.parent_turn /\ r.trigger_turn = b.trigger_turn
          /\ r.trigger_sent = TRUE /\ Proper(r)
      <3>1. /\ r.st = "live" /\ r.parent_turn = b.parent_turn /\ r.trigger_turn = b.trigger_turn
            /\ r.trigger_sent = TRUE
        BY <1>8, <1>11 DEF Stays
      <3> QED  BY <1>1, <1>8, <1>11, <3>1 DEF Proper
    <2>6. Nothing(p, g)
      BY <1>1, <1>8, <1>11 DEF Flight, b
    <2>7. ASSUME NEW x \in Thread, NEW h \in Gen, ~(x = p /\ h = g)
          PROVE  Flight(x, h)' /\ Proper(obl'[x][h])
      <3>1. Flight(x, h) /\ Proper(obl[x][h]) /\ obl'[x][h] = obl[x][h]
        BY <1>0, <2>1, <2>7 DEF FlightInv, ProperInv
      <3>2. \A d \in Child(x), m \in ObsId : obs'[d][h][m] = obs[d][h][m]
        BY <1>parent, <2>2, <2>7 DEF Child
      <3>3. SamePath(x, h)
        BY <1>2, <3>1, <3>2 DEF SamePath
      <3> QED  BY <1>0, <2>4, <3>1, <3>3, FlightKept
    <2>8. Flight(p, g)'
      <3>1. NoProv(p, g)' /\ NoMailOf(p, g)'
        BY <1>2, <2>6 DEF Nothing, NoProv, NoMailOf
      <3>2. obs'[c][g][n].pc = "mark" /\ obs'[c][g][n].owner = obl'[p][g].parent_turn
        BY <1>3, <1>4, <1>11, <2>1, <2>2, <2>5
      <3>3. \A d \in Child(p), m \in ObsId : obs'[d][g][m].pc = "mark" => d = c /\ m = n
        <4> SUFFICES ASSUME NEW d \in Child(p), NEW m \in ObsId, obs'[d][g][m].pc = "mark",
                            ~(d = c /\ m = n)
                     PROVE  FALSE
          OBVIOUS
        <4>1. d \in Thread
          BY DEF Child
        <4>2. obs'[d][g][m] = obs[d][g][m]
          BY <2>2, <4>1
        <4> QED  BY <2>6, <4>2 DEF Nothing, NoMark
      <3>4. Marking(p, g)'
        BY <2>3, <3>1, <3>2, <3>3 DEF Marking
      <3> QED  BY <2>1, <2>5, <3>4 DEF Flight, One
    <2>9. \A x \in Thread, h \in Gen : Flight(x, h)' /\ Proper(obl'[x][h])
      BY <2>1, <2>5, <2>7, <2>8
    <2> QED  BY <2>3, <2>9 DEF FlightInv, ProperInv, Proper
  <1> QED  BY <1>2, <1>4, <1>9, <1>10, <1>11

\* The observer records the trigger under the owning turn: no other join is
\* recorded there, because that turn owns no other join.
LEMMA MarkFlight ==
    ASSUME AInv, CInv', CStep, OneJoinPerTurn,
           NEW c \in Thread, NEW g \in Gen, NEW n \in ObsId, MarkTrigger(c, g, n)
    PROVE  FlightInv' /\ ProperInv' /\ EdgeInv'
  <1> DEFINE o == obs[c][g][n]
             q == [o EXCEPT !.pc = "send"]
             done == [NoObserver EXCEPT !.pc = "done"]
  <1>0. CInv /\ TypeOK /\ ObserverInv /\ FlightInv /\ ProperInv /\ EdgeInv
    BY DEF AInv, CInv, RInv, IInv
  <1>1. PICK p \in Thread : p = Parent[c]
    BY ThreadAssumption
  <1> DEFINE b == obl[p][g]
  <1>2. /\ b \in Obligation /\ o \in Observer /\ ObserverExact(c, o) /\ Flight(p, g) /\ Proper(b)
    BY <1>0 DEF TypeOK, ObserverInv, FlightInv, ProperInv
  <1>3. /\ o.pc = "mark" /\ UNCHANGED <<slot, cur, dying, alive, mail>>
        /\ \/ /\ b.trigger_turn /\ prov' = [prov EXCEPT ![p][o.owner] = g]
              /\ Goto(c, g, n, q) /\ UNCHANGED obl
           \/ ~b.trigger_turn /\ Goto(c, g, n, done)
    BY <1>1 DEF MarkTrigger, At, turnVars, Exit
  <1>4. q.pc = "send" /\ o.owner \in Turn
    <2>1. q.pc = "send"
      BY <1>2 DEF Observer
    <2> HIDE DEF o
    <2> QED  BY <1>2, <1>3, <2>1 DEF ObserverExact, q
  <1>5. EdgeInv' /\ c \in Child(p)
    <2> HIDE DEF q, done
    <2> QED  BY <1>0, <1>1, <1>3, ObserverEdge
  <1>6. ~NoMark(p, g)
    BY <1>3, <1>5 DEF NoMark
  <1>7. /\ b.st \in {"live", "retired"} /\ b.parent_turn \in Turn /\ b.trigger_turn
        /\ b.st = "live" => b.trigger_sent /\ Marking(p, g)
    <2>1. b.st \in {"live", "retired"} /\ (b.st = "live" => b.trigger_sent /\ Marking(p, g))
      BY <1>2, <1>6 DEF Flight, Nothing, One, Recorded, Queued, Obligation
    <2> QED  BY <1>2, <2>1 DEF Proper
  <1>8. o.owner = b.parent_turn
    <2>1. CASE b.st = "live"
      BY <1>3, <1>5, <1>7, <2>1 DEF Marking
    <2>2. CASE b.st = "retired"
      BY <1>2, <1>3, <1>5, <2>2 DEF Flight
    <2> QED  BY <1>7, <2>1, <2>2
  <1> DEFINE k == b.parent_turn
  <1>9. prov' = [prov EXCEPT ![p][k] = g] /\ Goto(c, g, n, q) /\ UNCHANGED obl
    BY <1>3, <1>7, <1>8
  <1>10. /\ prov'[p][k] = g /\ \A j \in Turn : j # k => prov'[p][j] = prov[p][j]
         /\ \A x \in Thread : x # p => prov'[x] = prov[x]
    <2>1. k \in Turn
      BY <1>7
    <2> HIDE DEF k
    <2> QED  BY <1>0, <1>9, <2>1 DEF TypeOK
  <1>11. /\ obs'[c][g][n].pc = "send"
         /\ \A d \in Thread, h \in Gen, m \in ObsId :
              ~(d = c /\ h = g /\ m = n) => obs'[d][h][m] = obs[d][h][m]
    <2> HIDE DEF q
    <2> QED  BY <1>0, <1>4, <1>9, GotoFacts
  <1>12. OverStep
    BY <1>0, <1>3, SameOver
  <1>13. \A x \in Thread : Child(x) \subseteq Thread
    BY DEF Child
  <1>14. ASSUME NEW h \in Gen, h # g, obl[p][h].st # "retired"
         PROVE  prov[p][k] # h
    <2> SUFFICES ASSUME prov[p][k] = h PROVE FALSE
      OBVIOUS
    <2>1. Flight(p, h) /\ obl[p][h] \in Obligation /\ Proper(obl[p][h])
      BY <1>0 DEF FlightInv, TypeOK, ProperInv
    <2>2. ~NoProv(p, h)
      BY <1>7 DEF NoProv
    <2>3. obl[p][h].st = "live" /\ Recorded(p, h)
      BY <1>14, <2>1, <2>2 DEF Flight, Nothing, One, Marking, Queued, Obligation
    <2>4. obl[p][h].parent_turn = k /\ obl[p][h].trigger_turn
      BY <1>7, <2>1, <2>3 DEF Recorded, Proper
    <2>5. CASE b.st = "live"
      BY <1>7, <1>14, <2>3, <2>4, <2>5, OneJoin DEF Open
    <2>6. CASE b.st = "retired"
      BY <1>2, <2>3, <2>4, <2>6 DEF Flight
    <2> QED  BY <1>7, <2>5, <2>6
  <1>15. ASSUME NEW x \in Thread, NEW h \in Gen, ~(x = p /\ h = g)
         PROVE  Flight(x, h)'
    <2>1. Flight(x, h)
      BY <1>0 DEF FlightInv
    <2>2. obl[x][h].st # "retired" => \A j \in Turn : prov'[x][j] = h <=> prov[x][j] = h
      <3>1. CASE x = p
        <4>1. h # g
          BY <1>15, <3>1
        <4> HIDE DEF k, b
        <4> QED  BY <1>10, <1>14, <3>1, <4>1
      <3>2. CASE x # p
        BY <1>10, <3>2
      <3> QED  BY <3>1, <3>2
    <2>3. \A d \in Child(x), m \in ObsId : obs'[d][h][m] = obs[d][h][m]
      BY <1>1, <1>11, <1>15 DEF Child
    <2>4. SamePath(x, h)
      BY <1>3, <1>9, <2>2, <2>3 DEF SamePath
    <2> QED  BY <1>0, <1>12, <2>1, <2>4, FlightKept
  <1>16. Flight(p, g)'
    <2>1. CASE b.st = "retired"
      <3>1. \A d \in Child(p), m \in ObsId : obs'[d][g][m].pc = "mark" =>
              obs[d][g][m].pc = "mark" /\ obs'[d][g][m].owner = obs[d][g][m].owner
        BY <1>11, <1>13
      <3> QED  BY <1>0, <1>2, <1>7, <1>9, <1>12, <2>1, <3>1, RetiredKept
    <2>2. CASE b.st = "live"
      <3>1. NoProv(p, g) /\ NoMailOf(p, g)
        BY <1>7, <2>2 DEF Marking
      <3>2. \A d \in Child(p), m \in ObsId : obs[d][g][m].pc = "mark" => d = c /\ m = n
        BY <1>3, <1>5, <1>7, <2>2 DEF Marking
      <3>3. NoMark(p, g)'
        BY <1>11, <1>13, <3>2 DEF NoMark
      <3>4. NoMailOf(p, g)'
        BY <1>3, <3>1 DEF NoMailOf
      <3>5. \A j \in Turn : prov'[p][j] = g <=> j = k
        <4> HIDE DEF k
        <4> QED  BY <1>10, <3>1 DEF NoProv
      <3>6. Recorded(p, g)'
        BY <1>7, <1>9, <3>3, <3>4, <3>5 DEF Recorded
      <3> QED  BY <1>7, <1>9, <2>2, <3>6 DEF Flight, One
    <2> QED  BY <1>7, <2>1, <2>2
  <1>17. FlightInv'
    BY <1>15, <1>16 DEF FlightInv
  <1>18. ProperInv'
    BY <1>0, <1>9 DEF ProperInv, Proper
  <1> QED  BY <1>5, <1>17, <1>18

\* The trigger goes to the submission loop or straight to the mailbox; where
\* the parent is gone its provenance is cleared.
LEMMA SendFlight ==
    ASSUME AInv, CInv', CStep, NEW c \in Thread, NEW g \in Gen, NEW n \in ObsId,
           SendTrigger(c, g, n)
    PROVE  FlightInv' /\ ProperInv' /\ EdgeInv'
  <1> DEFINE o == obs[c][g][n]
             q == [o EXCEPT !.pc = "sent"]
             k == o.owner
  <1>0. CInv /\ TypeOK /\ ObserverInv /\ FlightInv /\ ProperInv /\ EdgeInv
    BY DEF AInv, CInv, RInv, IInv
  <1>1. PICK p \in Thread : p = Parent[c]
    BY ThreadAssumption
  <1>2. o \in Observer /\ ObserverExact(c, o)
    BY <1>0 DEF TypeOK, ObserverInv
  <1>3. /\ o.pc = "send" /\ Goto(c, g, n, q) /\ UNCHANGED <<slot, cur, dying, alive>>
        /\ \/ UNCHANGED <<prov, mail, obl>>
           \/ Enqueue(p, k)
           \/ /\ ~alive[p] /\ UNCHANGED <<mail, obl>>
              /\ prov' = [prov EXCEPT ![p][k] = IF prov[p][k] = g THEN 0 ELSE prov[p][k]]
    BY <1>1 DEF SendTrigger, At, turnVars
  <1>4. q.pc = "sent"
    BY <1>2 DEF Observer
  <1>5. k \in Turn
    <2> HIDE DEF o
    <2> QED  BY <1>2, <1>3 DEF ObserverExact
  <1> HIDE DEF q, k
  <1>6. EdgeInv'
    BY <1>0, <1>3, ObserverEdge
  <1>7. OverStep
    BY <1>0, <1>3, SameOver
  <1>8. \A d \in Thread, h \in Gen, m \in ObsId :
          \/ obs'[d][h][m] = obs[d][h][m]
          \/ obs'[d][h][m].pc # "mark" /\ obs[d][h][m].pc # "mark"
    BY <1>0, <1>3, <1>4, GotoFacts
  <1>9. CASE UNCHANGED <<prov, mail, obl>>
    <2>1. \A x \in Thread, h \in Gen : Rests(obl[x][h], obl'[x][h])
      BY <1>9, SameRests
    <2> QED  BY <1>3, <1>4, <1>9, <2>1, CalmObserver
  <1>10. CASE Enqueue(p, k)
    BY <1>3, <1>5, <1>6, <1>7, <1>8, <1>10, EnqueueFlight
  <1>11. CASE /\ ~alive[p] /\ UNCHANGED <<mail, obl>>
              /\ prov' = [prov EXCEPT ![p][k] = IF prov[p][k] = g THEN 0 ELSE prov[p][k]]
    <2>1. /\ prov'[p][k] = IF prov[p][k] = g THEN 0 ELSE prov[p][k]
          /\ \A j \in Turn : j # k => prov'[p][j] = prov[p][j]
          /\ \A x \in Thread : x # p => prov'[x] = prov[x]
      BY <1>0, <1>5, <1>11 DEF TypeOK
    <2>2. \A h \in Gen : h # 0
      BY DEF Gen
    <2>3. \A x \in Thread : Child(x) \subseteq Thread
      BY DEF Child
    <2>4. ASSUME NEW x \in Thread, NEW h \in Gen, x # p \/ h # g \/ prov[p][k] # g
          PROVE  Flight(x, h)'
      <3>1. Flight(x, h)
        BY <1>0 DEF FlightInv
      <3>2. \A j \in Turn : prov'[x][j] = h <=> prov[x][j] = h
        <4>1. CASE x # p
          BY <2>1, <4>1
        <4>2. CASE x = p
          BY <2>1, <2>2, <2>4, <4>2
        <4> QED  BY <4>1, <4>2
      <3>3. SamePath(x, h)
        BY <1>3, <1>8, <1>11, <2>3, <3>2 DEF SamePath
      <3> QED  BY <1>0, <1>7, <3>1, <3>3, FlightKept
    <2>5. ASSUME prov[p][k] = g
          PROVE  Flight(p, g)'
      <3> DEFINE b == obl[p][g]
      <3>1. Flight(p, g) /\ Proper(b) /\ b \in Obligation /\ obl'[p][g] = b
        BY <1>0, <1>11 DEF FlightInv, ProperInv, TypeOK
      <3>2. ~NoProv(p, g)
        BY <1>5, <2>5 DEF NoProv
      <3>3. b.st \in {"live", "retired"}
        BY <3>1, <3>2 DEF Flight, Nothing, Obligation
      <3>4. CASE b.st = "retired"
        <4>1. b.parent_turn \in Turn
          BY <3>1, <3>4 DEF Proper
        <4>2. \A d \in Child(p), m \in ObsId : obs'[d][g][m].pc = "mark" =>
                obs[d][g][m].pc = "mark" /\ obs'[d][g][m].owner = obs[d][g][m].owner
          BY <1>8, <2>3
        <4> QED  BY <1>0, <1>7, <3>1, <3>4, <4>1, <4>2, RetiredKept
      <3>5. CASE b.st = "live"
        <4>1. b.trigger_sent /\ Recorded(p, g)
          BY <3>1, <3>2, <3>5 DEF Flight, Nothing, One, Marking, Queued
        <4>2. NoMark(p, g)' /\ NoMailOf(p, g)'
          BY <1>8, <1>11, <2>3, <4>1 DEF Recorded, NoMark, NoMailOf
        <4>3. NoProv(p, g)'
          <5>1. \A j \in Turn : prov[p][j] = g => j = k
            BY <1>5, <2>5, <4>1 DEF Recorded
          <5> QED  BY <1>5, <2>1, <2>2, <2>5, <5>1 DEF NoProv
        <4>4. Nothing(p, g)' /\ ~alive'[p]
          BY <1>3, <1>11, <4>2, <4>3 DEF Nothing
        <4> QED  BY <3>1, <3>5, <4>1, <4>4 DEF Flight
      <3> QED  BY <3>3, <3>4, <3>5
    <2>6. FlightInv'
      BY <2>4, <2>5 DEF FlightInv
    <2>7. ProperInv'
      BY <1>0, <1>11 DEF ProperInv, Proper
    <2> QED  BY <1>6, <2>6, <2>7
  <1> QED  BY <1>3, <1>9, <1>10, <1>11

\* The submission loop handles a trigger.
LEMMA HandleFlight ==
    ASSUME AInv, CInv', CStep, NEW p \in Thread, HandleOp(p)
    PROVE  FlightInv' /\ ProperInv' /\ EdgeInv'
  <1>0. TypeOK /\ EdgeInv
    BY DEF AInv, CInv, RInv, IInv
  <1>1. /\ op[p] # <<>> /\ Enqueue(p, Head(op[p])) /\ UNCHANGED <<slot, cur, dying, alive, obs>>
    BY DEF HandleOp, turnVars
  <1>2. Head(op[p]) \in Turn
    <2>1. op[p] \in Seq(Turn)
      BY <1>0 DEF TypeOK
    <2> QED  BY <1>1, <2>1
  <1> QED  BY <1>0, <1>1, <1>2, SameOver, SameEdges, EnqueueFlight

\* Every step keeps the aggregates in order.
LEMMA AInvStep ==
    ASSUME FALSE \notin Kinds, AInv, CInv', CStep, OneJoinPerTurn, [Next]_vars
    PROVE  AInv'
  <1>0. CInv /\ TypeOK /\ EdgeInv
    BY DEF AInv, CInv, RInv, IInv
  <1>1. FlightInv' /\ ProperInv' /\ EdgeInv'
    <2>1. CASE \E p \in Thread : TurnStep(p)
      <3>1. PICK p \in Thread : TurnStep(p)
        BY <2>1
      <3>2. CASE UserStart(p) \/ Wake(p) \/ ActiveDelivery(p) \/ OrphanDelivery(p)
        BY <3>2, DeliveryFlight
      <3>3. CASE \/ \E s \in EndStatus : FinishTurn(p, s) \/ AbortTurn(p, s)
                 \/ ClearSlot(p) \/ Shutdown(p)
        BY <3>3, TurnCalm
      <3>4. CASE \E d \in dying[p] : RecordTerminal(p, d)
        BY <3>4, RecordFlight
      <3>5. CASE \E S \in SUBSET Child(p), kind \in Kinds : Register(p, S, kind)
        BY <3>5, RegisterFlight
      <3>6. CASE HandleOp(p)
        BY <3>6, HandleFlight
      <3>7. \A S : ~TargetfulWait(p, S)
        BY DEF TargetfulWait
      <3> QED  BY <3>1, <3>2, <3>3, <3>4, <3>5, <3>6, <3>7 DEF TurnStep
    <2>2. CASE \E c \in Thread, g \in Gen, n \in ObsId : ObserverStep(c, g, n)
      <3>1. PICK c \in Thread, g \in Gen, n \in ObsId : ObserverStep(c, g, n)
        BY <2>2
      <3>2. CASE \/ SeeTerminal(c, g, n) \/ SnapshotContinuation(c, g, n)
                 \/ AwaitDelivery(c, g, n) \/ CheckSuccessor(c, g, n)
                 \/ SeeSuccessorTerminal(c, g, n) \/ FinishContinuation(c, g, n)
        BY <3>2, LookFlight
      <3>3. CASE FinishDispatch(c, g, n) \/ RebindTarget(c, g, n) \/ RetireRetention(c, g, n)
        BY <3>3, RewriteFlight
      <3>4. CASE ResolveTarget(c, g, n)
        BY <3>4, ResolveFlight
      <3>5. CASE MarkTrigger(c, g, n)
        BY <3>5, MarkFlight
      <3>6. CASE SendTrigger(c, g, n)
        BY <3>6, SendFlight
      <3> QED  BY <3>1, <3>2, <3>3, <3>4, <3>5, <3>6 DEF ObserverStep
    <2>3. CASE UNCHANGED vars
      <3>1. UNCHANGED <<slot, cur, dying, alive, obl, prov, mail, obs>>
        BY <2>3 DEF vars
      <3>2. \A x \in Thread, h \in Gen : Rests(obl[x][h], obl'[x][h])
        BY <3>1, SameRests
      <3> QED  BY <1>0, <3>1, <3>2, SameOver, SameEdges, CalmFlight
    <2> QED  BY <2>1, <2>2, <2>3 DEF Next
  <1> QED  BY <1>1 DEF AInv

\* InFlight counts what Nothing and One tell apart.
LEMMA FlightCount ==
    ASSUME NEW p \in Thread, NEW g \in Gen
    PROVE  /\ Nothing(p, g) => InFlight(p, g) = 0
           /\ One(p, g) => InFlight(p, g) = 1
  <1> DEFINE A == {x \in Child(p) \X ObsId : obs[x[1]][g][x[2]].pc = "mark"}
             B == {k \in Turn : prov[p][k] = g}
             M(k) == mail[p][[gen |-> g, pred |-> k]]
             C == UNION {{k} \X (1..M(k)) : k \in Turn}
  <1>1. InFlight(p, g) = Cardinality(A) + Cardinality(B) + Cardinality(C)
    BY DEF InFlight
  <1>2. /\ Cardinality({}) = 0
        /\ (\E x : A = {x}) => Cardinality(A) = 1
        /\ (\E x : B = {x}) => Cardinality(B) = 1
        /\ (\E x : C = {x}) => Cardinality(C) = 1
    <2>1. \A x : Cardinality({x}) = 1
      BY FS_Singleton
    <2> HIDE DEF A, B, C
    <2> QED  BY <2>1, FS_EmptySet
  <1>3. NoMark(p, g) => A = {}
    BY DEF NoMark
  <1>4. NoProv(p, g) => B = {}
    BY DEF NoProv
  <1>5. NoMailOf(p, g) => C = {}
    <2> SUFFICES ASSUME NoMailOf(p, g) PROVE C = {}
      OBVIOUS
    <2>1. \A k \in Turn : M(k) = 0
      BY DEF NoMailOf
    <2>2. 1..0 = {}
      OBVIOUS
    <2> HIDE DEF M
    <2> QED  BY <2>1, <2>2
  <1>6. Marking(p, g) => \E x : A = {x}
    <2> SUFFICES ASSUME Marking(p, g) PROVE \E x : A = {x}
      OBVIOUS
    <2>1. PICK c \in Child(p), n \in ObsId :
            /\ obs[c][g][n].pc = "mark"
            /\ \A d \in Child(p), m \in ObsId : obs[d][g][m].pc = "mark" => d = c /\ m = n
      BY DEF Marking
    <2>2. A = {<<c, n>>}
      BY <2>1
    <2> QED  BY <2>2
  <1>7. Recorded(p, g) => \E x : B = {x}
    <2> SUFFICES ASSUME Recorded(p, g) PROVE \E x : B = {x}
      OBVIOUS
    <2>1. B = {obl[p][g].parent_turn}
      BY DEF Recorded
    <2> QED  BY <2>1
  <1>8. Queued(p, g) => \E x : C = {x}
    <2> SUFFICES ASSUME Queued(p, g) PROVE \E x : C = {x}
      OBVIOUS
    <2>1. PICK j \in Turn : j = obl[p][g].parent_turn
      BY DEF Queued
    <2>2. \A k \in Turn : M(k) = IF k = j THEN 1 ELSE 0
      BY <2>1 DEF Queued
    <2>3. 1..0 = {} /\ 1..1 = {1}
      OBVIOUS
    <2> HIDE DEF M
    <2>4. C = {<<j, 1>>}
      <3>1. \A x \in C : x = <<j, 1>>
        BY <2>2, <2>3
      <3>2. <<j, 1>> \in C
        BY <2>2, <2>3
      <3> QED  BY <3>1, <3>2
    <2> QED  BY <2>4
  <1> HIDE DEF A, B, C
  <1>9. Nothing(p, g) => InFlight(p, g) = 0
    BY <1>1, <1>2, <1>3, <1>4, <1>5 DEF Nothing
  <1>10. Marking(p, g) => InFlight(p, g) = 1
    <2>1. Marking(p, g) => NoProv(p, g) /\ NoMailOf(p, g)
      BY DEF Marking
    <2>2. Marking(p, g) => Cardinality(A) = 1
      BY <1>2, <1>6
    <2> QED  BY <1>1, <1>2, <1>4, <1>5, <2>1, <2>2
  <1>11. Recorded(p, g) => InFlight(p, g) = 1
    <2>1. Recorded(p, g) => NoMark(p, g) /\ NoMailOf(p, g)
      BY DEF Recorded
    <2>2. Recorded(p, g) => Cardinality(B) = 1
      BY <1>2, <1>7
    <2> QED  BY <1>1, <1>2, <1>3, <1>5, <2>1, <2>2
  <1>12. Queued(p, g) => InFlight(p, g) = 1
    <2>1. Queued(p, g) => NoMark(p, g) /\ NoProv(p, g)
      BY DEF Queued
    <2>2. Queued(p, g) => Cardinality(C) = 1
      BY <1>2, <1>8
    <2> QED  BY <1>1, <1>2, <1>3, <1>4, <2>1, <2>2
  <1> QED  BY <1>9, <1>10, <1>11, <1>12 DEF One

\* The way of every aggregate is in order in every state.
LEMMA FlightHolds == FALSE \notin Kinds => (Spec /\ []OneJoinPerTurn => []AInv)
  <1> SUFFICES ASSUME FALSE \notin Kinds PROVE Spec /\ []OneJoinPerTurn => []AInv
    OBVIOUS
  <1>1. Init => FlightInv /\ ProperInv /\ EdgeInv
    <2> SUFFICES ASSUME Init PROVE FlightInv /\ ProperInv /\ EdgeInv
      OBVIOUS
    <2>1. /\ \A p \in Thread, g \in Gen : obl[p][g] = NoObligation
          /\ \A c \in Thread, g \in Gen, n \in ObsId : obs[c][g][n] = NoObserver
          /\ \A p \in Thread, k \in Turn : prov[p][k] = 0
          /\ \A p \in Thread : mail[p] = NoMail /\ dying[p] = {}
      BY DEF Init
    <2>2. /\ NoObligation.st = "unused" /\ NoObligation.ready = FALSE
          /\ NoObligation.trigger_sent = FALSE /\ NoObserver.pc = "off"
      BY DEF NoObligation, NoObserver
    <2>3. \A g \in Gen, k \in Turn : [gen |-> g, pred |-> k] \in Mail /\ g # 0
      BY BoundAssumption DEF Mail, Gen
    <2>4. \A p \in Thread, g \in Gen : Nothing(p, g)
      <3> SUFFICES ASSUME NEW p \in Thread, NEW g \in Gen PROVE Nothing(p, g)
        OBVIOUS
      <3>1. NoMark(p, g)
        BY <2>1, <2>2 DEF NoMark, Child
      <3>2. NoProv(p, g)
        BY <2>1, <2>3 DEF NoProv
      <3>3. NoMailOf(p, g)
        BY <2>1, <2>3 DEF NoMailOf, NoMail
      <3> QED  BY <3>1, <3>2, <3>3 DEF Nothing
    <2>5. FlightInv
      BY <2>1, <2>2, <2>4 DEF FlightInv, Flight
    <2>6. ProperInv
      BY <2>1, <2>2 DEF ProperInv, Proper
    <2>7. EdgeInv
      BY <2>1, <2>2, ThreadAssumption DEF EdgeInv
    <2> QED  BY <2>5, <2>6, <2>7
  <1>2. /\ SInv /\ SInv' /\ OneJoinPerTurn /\ FlightInv /\ ProperInv /\ EdgeInv /\ [Next]_vars
        => FlightInv' /\ ProperInv' /\ EdgeInv'
    <2> SUFFICES ASSUME SInv, SInv', OneJoinPerTurn, FlightInv, ProperInv, EdgeInv, [Next]_vars
                 PROVE  FlightInv' /\ ProperInv' /\ EdgeInv'
      OBVIOUS
    <2>1. CInv /\ CInv' /\ RInv' /\ AInv
      BY DEF SInv, CInv, AInv
    <2>2. CStep
      BY <2>1, SInvStep
    <2> QED  BY <2>1, <2>2, AInvStep DEF AInv
  <1>3. SInv /\ FlightInv /\ ProperInv /\ EdgeInv => AInv
    BY DEF SInv, AInv
  <1> QED  BY <1>1, <1>2, <1>3, ContinuationInvariant, PTL DEF Spec

\* As long as no turn owns two live joins, and where the targetful wait is not
\* in use, a completed join has exactly one aggregate until a turn of its
\* parent takes it: with the observer that resolved the last target, in
\* join_trigger_provenance, or in the mailbox, and never in two of them.
THEOREM AggregateConservedHolds ==
    FALSE \notin Kinds => (Spec /\ []OneJoinPerTurn => []AggregateConserved)
  <1>1. AInv => AggregateConserved
    <2> SUFFICES ASSUME AInv, NEW p \in Thread, NEW g \in Live(p), alive[p]
                 PROVE  InFlight(p, g) = IF obl[p][g].trigger_sent THEN 1 ELSE 0
      BY DEF AggregateConserved
    <2>1. g \in Gen /\ obl[p][g].st = "live"
      BY DEF Live
    <2>2. Flight(p, g)
      BY <2>1 DEF AInv, FlightInv
    <2>3. IF obl[p][g].trigger_sent THEN One(p, g) ELSE Nothing(p, g)
      BY <2>1, <2>2 DEF Flight
    <2> QED  BY <2>1, <2>3, FlightCount
  <1> QED  BY <1>1, FlightHolds, PTL

\* Where, besides, no turn fails, a join that is over has left nothing behind:
\* a turn of the parent is never resumed again by an aggregate it has taken.
\* (A failed turn retires its joins while their aggregates may still be on
\* their way: OwnedJoinStale shows it.)
THEOREM NoStaleAggregateHolds ==
    FALSE \notin Kinds /\ "Errored" \notin Endings =>
        (Spec /\ []OneJoinPerTurn => []NoStaleAggregate)
  <1> SUFFICES ASSUME FALSE \notin Kinds, "Errored" \notin Endings
               PROVE  Spec /\ []OneJoinPerTurn => []NoStaleAggregate
    OBVIOUS
  <1>1. AInv => NoStaleAggregate
    <2> SUFFICES ASSUME AInv, NEW p \in Thread, NEW g \in Gen,
                        obl[p][g].st \in {"consumed", "retired"}
                 PROVE  InFlight(p, g) = 0
      BY DEF NoStaleAggregate
    <2>1. Flight(p, g) /\ Proper(obl[p][g])
      BY DEF AInv, FlightInv, ProperInv
    <2>2. Nothing(p, g)
      BY <2>1 DEF Flight, Proper
    <2> QED  BY <2>2, FlightCount
  <1> QED  BY <1>1, FlightHolds, PTL
=============================================================================
