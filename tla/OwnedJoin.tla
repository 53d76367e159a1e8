----------------------------- MODULE OwnedJoin -----------------------------
(***************************************************************************)
(* Owned joins between agent threads.                                      *)
(*                                                                         *)
(* Every thread owns one InputQueue: a JoinObligationStore (obligations    *)
(* and continuation leases), a mailbox, and a map that tells which join    *)
(* generation a trigger mail of a turn stands for.  A turn of a parent     *)
(* registers an obligation on the running turns of direct children; one    *)
(* observer task per child waits for the terminal status of exactly that   *)
(* turn, resolves the target in the parent's store, and the resolution     *)
(* that completes the obligation dispatches one aggregate to the parent.   *)
(* The aggregate is acknowledged when a turn of the parent takes it.  A    *)
(* child whose completed turn itself owns a join is "retained": the        *)
(* aggregate reports the intermediate result, the obligation survives and  *)
(* is bound to the child's successor turn.                                 *)
(*                                                                         *)
(* Each action is one critical section of the code (one lock acquisition   *)
(* of the store or of the active turn), so all interleavings of turns,     *)
(* observers, dispatchers and the submission loop are explored.            *)
(***************************************************************************)
EXTENDS Naturals, Sequences, FiniteSets

CONSTANTS
    Thread,      \* agent threads
    Root,        \* the root thread: not capacity limited, never shut down
    Parent,      \* Parent[t]: the direct parent of t (Parent[Root] = Root)
    MaxTurn,     \* bound: turns a thread runs
    MaxGen,      \* bound: generations a thread's store hands out
    MaxObs,      \* bound: observer tasks per (generation, child)
    MaxUser,     \* bound: MaxUser[t] turns of t are started by a user
    Kinds,       \* values of trigger_turn in use: TRUE = join, FALSE = wait
    Endings,     \* ways a turn ends, a subset of EndStatus
    MayShutdown  \* threads that may be shut down

\* Terminal statuses of a turn; Interrupted is not final for is_final.
EndStatus == {"Completed", "Errored", "Interrupted"}

ASSUME ThreadAssumption ==
    /\ Root \in Thread
    /\ Parent \in [Thread -> Thread]
    /\ MayShutdown \subseteq Thread \ {Root}
ASSUME BoundAssumption ==
    /\ MaxTurn \in Nat \ {0}
    /\ MaxGen \in Nat \ {0}
    /\ MaxObs \in Nat \ {0}
    /\ MaxUser \in [Thread -> Nat]
    /\ Kinds \subseteq BOOLEAN
    /\ Endings \subseteq EndStatus

Turn == 1..MaxTurn
Gen == 1..MaxGen
ObsId == 1..MaxObs
None == 0                        \* no turn, no generation

\* A trigger mail: the generation it aggregates (None when its provenance is
\* Ordinary) and the parent turn it was dispatched for.
Mail == [gen : 0..MaxGen, pred : Turn]

\* Mutant: an interrupted turn counts as final.
AnyStatusIsFinal(s) == s # "none"

IsFinal(s) == s \in {"Completed", "Errored", "Shutdown"}

Child(p) == {c \in Thread \ {Root} : Parent[c] = p}

VARIABLES
    slot,     \* Session.active_turn: "idle" (None), "running" (task installed),
              \* "closing" (the task was taken by on_task_finished)
    cur,      \* sub_id of the thread's latest turn (None before the first)
    users,    \* turns a user started so far
    dying,    \* turns whose task was taken and whose terminal is not recorded
    ended,    \* ended[t][k]: recorded exact terminal of turn k, or "none"
    alive,    \* FALSE once the thread published AgentStatus::Shutdown
    obl,      \* obl[p][g]: obligation of generation g in p's store
    nextGen,  \* JoinObligationStore.next_generation
    lease,    \* JoinObligationStore.continuations
    prov,     \* join_trigger_provenance: parent turn -> generation
    op,       \* submitted Op::InterAgentCommunication, by parent turn (FIFO)
    mail,     \* mailbox_pending_mails: how many mails of each kind are queued
    obs       \* obs[c][g][n]: the n-th observer of child c for generation g

vars == <<slot, cur, users, dying, ended, alive, obl, nextGen, lease,
          prov, op, mail, obs>>
turnVars == <<slot, cur, users, dying, ended, alive>>
storeVars == <<obl, nextGen, lease>>
mailVars == <<prov, op, mail>>

-----------------------------------------------------------------------------
(* The obligation store.                                                   *)

\* An obligation: st tells whether it is in the Vec ("live") and, when it has
\* been removed, whether its token was consumed or its generation retired.
NoObligation ==
    [st |-> "unused", parent_turn |-> None, trigger_turn |-> FALSE,
     targets |-> [c \in Thread |-> None], results |-> [c \in Thread |-> "none"],
     ready |-> FALSE, trigger_sent |-> FALSE, dispatch_complete |-> FALSE,
     retained_targets |-> {}, retained_pred |-> None]

Targets(o) == {c \in Thread : o.targets[c] # None}
Resolved(o) == {c \in Thread : o.results[c] # "none"}

Live(p) == {g \in Gen : obl[p][g].st = "live"}

\* The obligation of generation g that a delivery for predecessor turn pred
\* acknowledges.
Acknowledgeable(p, g, pred) ==
    /\ g # None /\ pred # None
    /\ obl[p][g].st = "live"
    /\ \/ obl[p][g].parent_turn = pred /\ obl[p][g].ready
       \/ obl[p][g].retained_pred = pred

\* A retained generation after its intermediate aggregate was delivered.
Released(o) ==
    [o EXCEPT !.results = [c \in Thread |->
                  IF c \in o.retained_targets THEN "none" ELSE o.results[c]],
              !.ready = FALSE, !.trigger_sent = FALSE,
              !.dispatch_complete = FALSE, !.retained_pred = None]

\* Mutant: the delivery turn does not become the owner.
AcknowledgeKeepsOwner(o, pred, succ) ==
    IF o.retained_pred = pred THEN Released(o) ELSE [o EXCEPT !.st = "consumed"]

\* acknowledge_ready_join_delivery_locked on one obligation: a retained
\* generation transfers to the delivery turn, any other one is consumed.
Acknowledge(o, pred, succ) ==
    IF o.retained_pred = pred
    THEN [Released(o) EXCEPT !.parent_turn = succ]
    ELSE [o EXCEPT !.st = "consumed"]

\* The lease an acknowledgement installs, when the delivery turn differs from
\* the owning turn and hands over its turn state.
NewLease(o, g, pred, succ) ==
    IF o.trigger_turn /\ pred # succ
    THEN {[gen |-> g, pred |-> pred, succ |-> succ, terminal |-> "none"]} ELSE {}

LeaseFor(p, pred) == {l \in lease[p] : l.pred = pred}

HasMail(p) == \E x \in Mail : mail[p][x] > 0

\* mailbox_join_provenance: the tagged mail of a batch.
Tagged(p) == {x \in Mail : x.gen # None /\ mail[p][x] > 0}

\* The mail of a batch that acknowledges generation g.
AckMail(p, g) == {x \in Tagged(p) : x.gen = g /\ Acknowledgeable(p, g, x.pred)}

NoMail == [x \in Mail |-> 0]

\* Mutant: the batch is read and stays queued.
Previewed(p) == mail[p]

\* The mailbox after a delivery took the whole batch.
Drained(p) == NoMail

\* The mailbox without the aggregates of the generations G.
Without(p, G) == [x \in Mail |-> IF x.gen \in G THEN 0 ELSE mail[p][x]]

\* Drain p's mailbox into turn succ (pred = succ, no lease, when the delivery
\* has no active turn: succ = None).
DrainInto(p, succ) ==
    LET acked == {g \in Gen : AckMail(p, g) # {}}
        pred(g) == (CHOOSE x \in AckMail(p, g) : TRUE).pred
        to(g) == IF succ = None THEN pred(g) ELSE succ
    IN  /\ obl' = [obl EXCEPT ![p] = [g \in Gen |->
                     IF g \in acked THEN Acknowledge(obl[p][g], pred(g), to(g))
                     ELSE obl[p][g]]]
        /\ lease' = [lease EXCEPT ![p] = @ \cup UNION
                       {NewLease(obl[p][g], g, pred(g), to(g)) : g \in acked}]
        /\ mail' = [mail EXCEPT ![p] = Drained(p)]

\* validated_mailbox_join_provenance for the active turn succ.
Validated(p, succ) ==
    \A x \in Tagged(p) :
        LET to == IF succ = None THEN x.pred ELSE succ
        IN  /\ mail[p][x] = 1
            /\ \A y \in Tagged(p) : y.gen = x.gen => y = x
            /\ Acknowledgeable(p, x.gen, x.pred)
            /\ obl[p][x.gen].dispatch_complete
            /\ obl[p][x.gen].trigger_turn => (to = x.pred \/ LeaseFor(p, x.pred) = {})

\* register_obligation: a wait on the bindings of an existing obligation of
\* the same turn shares it; otherwise one obligation per turn and kind.
SameBindings(p, turn, bind) ==
    {g \in Live(p) : obl[p][g].parent_turn = turn /\ obl[p][g].targets = bind}

SameKind(p, turn, kind) ==
    {g \in Live(p) : obl[p][g].parent_turn = turn /\ obl[p][g].trigger_turn = kind}

\* join_continuation_for_predecessor(c, turn) on c's own store: ambiguous, no
\* continuation, a pending generation, or the lease bound to a successor.
Snapshot(c, turn) ==
    LET bound == LeaseFor(c, turn)
        pending == SameKind(c, turn, TRUE)
    IN  IF Cardinality(bound) + Cardinality(pending) > 1
        THEN [kind |-> "ambiguous", gen |-> None, succ |-> None, terminal |-> "none"]
        ELSE IF bound # {}
        THEN LET l == CHOOSE x \in bound : TRUE
             IN  [kind |-> "bound", gen |-> l.gen, succ |-> l.succ, terminal |-> l.terminal]
        ELSE IF pending # {}
        THEN [kind |-> "pending", gen |-> CHOOSE g \in pending : TRUE,
              succ |-> None, terminal |-> "none"]
        ELSE [kind |-> "none", gen |-> None, succ |-> None, terminal |-> "none"]

\* resolve_join_target_inner accepts a status for the bound turn only.
Resolvable(p, g, c, turn, status, retain) ==
    /\ IsFinal(status) /\ (retain => status = "Completed")
    /\ obl[p][g].st = "live"
    /\ obl[p][g].targets[c] = turn
    /\ retain => obl[p][g].trigger_turn

\* Mutant: one resolved target completes the obligation.
AnyResolved(o, res) == \E t \in Thread : res[t] # "none"

AllResolved(o, res) == \A t \in Thread : o.targets[t] # None => res[t] # "none"

\* Mutant: a resolved target leaves the obligation instead of getting a result.
ResolveRemoves(o, c, status, retain) ==
    [o EXCEPT !.targets[c] = None, !.ready = TRUE, !.trigger_sent = TRUE]

\* The obligation after target c is resolved with status.
Resolve(o, c, status, retain) ==
    LET keep == IF retain THEN o.retained_targets \cup {c} ELSE o.retained_targets
        res == IF o.results[c] = "none" THEN [o.results EXCEPT ![c] = status] ELSE o.results
        held == keep # {} /\ o.retained_pred # None
        complete == AllResolved(o, res) /\ ~held
        fire == complete /\ ~o.trigger_sent
    IN  [o EXCEPT !.results = res, !.retained_targets = keep,
                  !.ready = @ \/ complete, !.trigger_sent = @ \/ complete,
                  !.retained_pred = IF fire /\ o.trigger_turn /\ keep # {}
                                    THEN o.parent_turn ELSE @]

\* Mutant: every resolution of a complete obligation dispatches it.
FiresAgain(o, c, status, retain) == Resolve(o, c, status, retain).trigger_sent

\* Whether that resolution returns the one completion to dispatch.
Fires(o, c, status, retain) ==
    ~o.trigger_sent /\ Resolve(o, c, status, retain).trigger_sent

\* A retained target that an acknowledgement released to its successor.
AwaitsSuccessor(o, c) ==
    /\ o.st = "live" /\ ~o.ready /\ o.results[c] = "none"
    /\ o.retained_pred = None /\ c \in o.retained_targets

\* The target is no longer retained.
Unretained(o, c) == [o EXCEPT !.retained_targets = @ \ {c}]

\* The target is bound to its successor turn.
Rebound(o, c, succ) == [Unretained(o, c) EXCEPT !.targets[c] = succ]

-----------------------------------------------------------------------------
(* Turns.                                                                  *)

\* start_task_with_reservation_inner: commit_startup_mailbox_for_turn refuses
\* a batch whose owning turn already handed a generation on (what is left of
\* the slot then is TurnAdmission's subject); otherwise the new turn takes the
\* whole mailbox and its task is installed.
StartTurn(p) ==
    LET succ == cur[p] + 1
    IN  /\ alive[p] /\ cur[p] < MaxTurn
        /\ \A x \in Tagged(p) :
              Acknowledgeable(p, x.gen, x.pred) /\ obl[p][x.gen].trigger_turn
                => x.pred # succ /\ LeaseFor(p, x.pred) = {}
        /\ DrainInto(p, succ)
        /\ cur' = [cur EXCEPT ![p] = succ]
        /\ slot' = [slot EXCEPT ![p] = "running"]
        /\ UNCHANGED <<dying, ended, alive, nextGen, prov, op, obs>>

\* A user turn also replaces the taskless remains of a closing turn.
UserStart(p) ==
    /\ slot[p] \in {"idle", "closing"} /\ users[p] < MaxUser[p]
    /\ users' = [users EXCEPT ![p] = @ + 1]
    /\ StartTurn(p)

\* maybe_start_turn_for_pending_work on an idle thread with trigger mail.
Wake(p) ==
    /\ slot[p] = "idle" /\ HasMail(p)
    /\ UNCHANGED users
    /\ StartTurn(p)

\* get_pending_input by the running turn: the second, locked pass revalidates
\* everything the first one read, so one step stands for both.  The delivery
\* phase that defers mail to the next turn only decides when this happens.
ActiveDelivery(p) ==
    /\ slot[p] = "running" /\ HasMail(p)
    /\ Validated(p, cur[p])
    /\ DrainInto(p, cur[p])
    /\ UNCHANGED <<turnVars, nextGen, prov, op, obs>>

\* get_pending_input by a task whose active turn an abort has just taken: it
\* matches "no active turn" and drains on behalf of the owning turns.
OrphanDelivery(p) ==
    /\ slot[p] = "idle" /\ dying[p] # {} /\ HasMail(p)
    /\ Validated(p, None)
    /\ DrainInto(p, None)
    /\ UNCHANGED <<turnVars, nextGen, prov, op, obs>>

\* on_task_finished takes the task; the active turn stays until ClearSlot.
FinishTurn(p, status) ==
    /\ slot[p] = "running" /\ status \in Endings
    /\ slot' = [slot EXCEPT ![p] = "closing"]
    /\ dying' = [dying EXCEPT ![p] = @ \cup {[turn |-> cur[p], status |-> status]}]
    /\ UNCHANGED <<cur, users, ended, alive, storeVars, mailVars, obs>>

\* abort_all_tasks / abort_turn_if_active take the whole active turn
\* (Interrupted, or Errored when the turn is replaced).
AbortTurn(p, status) ==
    /\ slot[p] = "running" /\ status \in Endings \ {"Completed"}
    /\ slot' = [slot EXCEPT ![p] = "idle"]
    /\ dying' = [dying EXCEPT ![p] = @ \cup {[turn |-> cur[p], status |-> status]}]
    /\ UNCHANGED <<cur, users, ended, alive, storeVars, mailVars, obs>>

\* The generations a non-successful turn takes down with it.
RetiredGens(p, d) == IF d.status = "Completed" THEN {} ELSE SameKind(p, d.turn, TRUE)

\* record_nested_join_turn_terminal (a no-op unless the status is final) and,
\* on the root, finish_root_join_continuations.
RecordTerminal(p, d) ==
    LET final == IsFinal(d.status)
        marked == {IF l.succ = d.turn /\ l.terminal = "none" /\ final
                   THEN [l EXCEPT !.terminal = d.status] ELSE l : l \in lease[p]}
        retired == IF final THEN RetiredGens(p, d) ELSE {}
    IN  /\ d \in dying[p]
        /\ dying' = [dying EXCEPT ![p] = @ \ {d}]
        /\ ended' = IF final THEN [ended EXCEPT ![p][d.turn] = d.status] ELSE ended
        /\ lease' = [lease EXCEPT ![p] = IF p = Root THEN {l \in marked : l.succ # d.turn}
                                         ELSE marked]
        /\ obl' = [obl EXCEPT ![p] = [g \in Gen |->
                     IF g \in retired THEN [obl[p][g] EXCEPT !.st = "retired"]
                     ELSE obl[p][g]]]
        /\ mail' = [mail EXCEPT ![p] = Without(p, retired)]
        /\ UNCHANGED <<slot, cur, users, alive, nextGen, prov, op, obs>>

\* on_task_finished clears the active turn after the terminal is recorded.
ClearSlot(p) ==
    /\ slot[p] = "closing" /\ \A d \in dying[p] : d.turn # cur[p]
    /\ slot' = [slot EXCEPT ![p] = "idle"]
    /\ UNCHANGED <<cur, users, dying, ended, alive, storeVars, mailVars, obs>>

\* Session shutdown: the running task was aborted first.
Shutdown(p) ==
    /\ p \in MayShutdown /\ alive[p]
    /\ slot[p] = "idle" /\ dying[p] = {}
    /\ alive' = [alive EXCEPT ![p] = FALSE]
    /\ UNCHANGED <<slot, cur, users, dying, ended, storeVars, mailVars, obs>>

-----------------------------------------------------------------------------
(* Registration and the targetful wait.                                    *)

NoObserver == [pc |-> "off", turn |-> None, status |-> "none", inner |-> None,
               keep |-> FALSE, registered |-> FALSE, owner |-> None,
               pred |-> None, succ |-> None, fenced |-> FALSE]

FreeObs(c, g) == {n \in ObsId : obs[c][g][n].pc = "off"}

\* Observers for the targets S of generation g, bound to the running turns.
SpawnObservers(S, g) ==
    /\ \A c \in S : FreeObs(c, g) # {}
    /\ obs' = [c \in Thread |->
                IF c \notin S THEN obs[c]
                ELSE [obs[c] EXCEPT ![g][CHOOSE n \in FreeObs(c, g) : TRUE] =
                        [NoObserver EXCEPT !.pc = "wait", !.turn = cur[c]]]]

\* AgentControl::register_obligation: every target must be a direct child with
\* a running task, whose turn is bound.
Register(p, S, kind) ==
    LET bind == [c \in Thread |-> IF c \in S THEN cur[c] ELSE None]
        same == IF kind THEN {} ELSE SameBindings(p, cur[p], bind)
    IN  /\ slot[p] = "running"
        /\ S # {} /\ S \subseteq Child(p)
        /\ \A c \in S : slot[c] = "running"
        /\ \/ /\ same # {}
              /\ SpawnObservers(S, CHOOSE g \in same : TRUE)
              /\ UNCHANGED <<obl, nextGen>>
           \/ /\ same = {} /\ SameKind(p, cur[p], kind) = {}
              /\ nextGen[p] < MaxGen
              /\ nextGen' = [nextGen EXCEPT ![p] = @ + 1]
              /\ obl' = [obl EXCEPT ![p][nextGen[p] + 1] =
                            [NoObligation EXCEPT !.st = "live", !.parent_turn = cur[p],
                                                 !.trigger_turn = kind, !.targets = bind]]
              /\ SpawnObservers(S, nextGen[p] + 1)
        /\ UNCHANGED <<turnVars, lease, mailVars>>

\* current_target_bindings: the running turn of c, empty when no task runs.
CurrentTurn(c) == IF slot[c] = "running" THEN cur[c] ELSE None

\* consume_ready_join_obligation_for_targets_with_outcomes: the one ready and
\* dispatched obligation of this turn on exactly these targets.
Consumable(p, S) ==
    {g \in Live(p) :
        LET o == obl[p][g]
        IN  /\ o.parent_turn = cur[p] /\ o.ready /\ o.dispatch_complete
            /\ Targets(o) = S
            /\ \A c \in S : \/ o.targets[c] = CurrentTurn(c)
                            \/ CurrentTurn(c) = None /\ o.results[c] # "none"}

\* The wait tool consumes it for the running turn, with its pending mail.
TargetfulWait(p, S) ==
    /\ slot[p] = "running" /\ FALSE \in Kinds
    /\ Cardinality(Consumable(p, S)) = 1
    /\ LET g == CHOOSE x \in Consumable(p, S) : TRUE
       IN  /\ obl' = [obl EXCEPT ![p][g] = Acknowledge(@, cur[p], cur[p])]
           /\ mail' = [mail EXCEPT ![p] = Without(p, {g})]
    /\ UNCHANGED <<turnVars, nextGen, lease, prov, op, obs>>

-----------------------------------------------------------------------------
(* The join observer of child c for generation g of its parent's store, in *)
(* the order of spawn_join_observer.                                       *)

At(c, g, n, pc) == obs[c][g][n].pc = pc

Goto(c, g, n, o) == obs' = [obs EXCEPT ![c][g][n] = o]

Exit(c, g, n) == Goto(c, g, n, [NoObserver EXCEPT !.pc = "done"])

\* Mutant: no completed turn is inspected for a successor.
NeverSnapshot(status) == "resolve"

\* A terminal status is inspected for a successor only when it is Completed.
After(status) == IF status = "Completed" THEN "snap" ELSE "resolve"

\* Mutant: the child's latest terminal is taken for that of the bound turn.
LatestTerminal(c, turn) == ended[c][cur[c]]

\* exact_join_terminal_status, and the broadcast of the same value.
TerminalOf(c, turn) == ended[c][turn]

\* The exact terminal of the observed turn, or the child's shutdown.
SeeTerminal(c, g, n) ==
    LET o == obs[c][g][n]
        see(s) == Goto(c, g, n, [o EXCEPT !.status = s, !.pc = After(s)])
    IN  /\ At(c, g, n, "wait")
        /\ \/ TerminalOf(c, o.turn) # "none" /\ see(TerminalOf(c, o.turn))
           \/ ~alive[c] /\ see("Shutdown")
        /\ UNCHANGED <<turnVars, storeVars, mailVars>>

\* The child's own store tells whether the completed turn handed its work on
\* to a successor.  Once the retained result is delivered (registered) the
\* observer waits for a successor of exactly the generation it saw first.
SnapshotContinuation(c, g, n) ==
    LET o == obs[c][g][n]
        s == Snapshot(c, o.turn)
    IN  /\ At(c, g, n, "snap")
        /\ \/ /\ \/ s.kind = "ambiguous"
                 \/ s.kind = "none" /\ o.registered /\ alive[c]
                 \/ s.kind \in {"pending", "bound"} /\ o.registered /\ s.gen # o.inner
              /\ Exit(c, g, n)
           \/ /\ s.kind = "none" /\ ~o.registered
              /\ Goto(c, g, n, [o EXCEPT !.pc = "resolve"])
           \/ /\ o.registered /\ ~alive[c]
              /\ \/ s.kind = "none"
                 \/ s.kind = "pending" /\ s.gen = o.inner /\ ~o.fenced
              /\ Goto(c, g, n, [o EXCEPT !.pc = "retire"])
           \/ /\ s.kind \in {"pending", "bound"} /\ ~o.registered
              /\ Goto(c, g, n, [o EXCEPT !.pc = "retain", !.inner = s.gen])
           \/ /\ s.kind = "bound" /\ o.registered /\ s.gen = o.inner
              /\ Goto(c, g, n, [o EXCEPT !.pc = "live", !.succ = s.succ,
                                         !.status = s.terminal])
        /\ UNCHANGED <<turnVars, storeVars, mailVars>>

\* Mutant: the completion of a retaining resolution is not dispatched.
AfterResolveUndispatched(fires, retain) ==
    IF retain THEN "owner" ELSE IF fires THEN "mark" ELSE "done"

AfterResolve(fires, retain) ==
    IF fires THEN "mark" ELSE IF retain THEN "owner" ELSE "done"

\* resolve_join_target and resolve_join_target_retaining_successor: the
\* resolution that completes the obligation goes on to dispatch it.
ResolveTarget(c, g, n) ==
    LET p == Parent[c]
        o == obs[c][g][n]
        retain == o.pc = "retain"
        next == AfterResolve(Fires(obl[p][g], c, o.status, retain), retain)
    IN  /\ o.pc \in {"retain", "resolve"}
        /\ \/ /\ Resolvable(p, g, c, o.turn, o.status, retain)
              /\ obl' = [obl EXCEPT ![p][g] = Resolve(@, c, o.status, retain)]
              /\ IF next = "done" THEN Exit(c, g, n)
                 ELSE Goto(c, g, n, [o EXCEPT !.pc = next, !.keep = retain,
                                             !.owner = obl[p][g].parent_turn])
           \/ /\ ~Resolvable(p, g, c, o.turn, o.status, retain)
              /\ Exit(c, g, n) /\ UNCHANGED obl
        /\ UNCHANGED <<turnVars, nextGen, lease, mailVars>>

\* finish_join_dispatch.
Dispatched(o) == IF o.st = "live" /\ o.ready THEN [o EXCEPT !.dispatch_complete = TRUE] ELSE o

\* Mutant: the provenance of the turn is read and not removed.
ReadProvenance(p, pred) == UNCHANGED prov

TakeProvenance(p, pred) == prov' = [prov EXCEPT ![p][pred] = None]

\* enqueue_mailbox_communication of the trigger mail of turn pred: it takes
\* the provenance recorded for that turn, if there is one left.
Enqueue(p, pred) ==
    LET g == prov[p][pred]
    IN  /\ TakeProvenance(p, pred)
        /\ mail' = [mail EXCEPT ![p][[gen |-> g, pred |-> pred]] = @ + 1]
        /\ obl' = IF g = None THEN obl ELSE [obl EXCEPT ![p][g] = Dispatched(@)]

\* dispatch_join_completion: a wait obligation is only marked dispatched.
MarkTrigger(c, g, n) ==
    LET p == Parent[c]
        o == obs[c][g][n]
    IN  /\ At(c, g, n, "mark")
        /\ \/ /\ obl[p][g].trigger_turn
              /\ prov' = [prov EXCEPT ![p][o.owner] = g]
              /\ Goto(c, g, n, [o EXCEPT !.pc = "send"])
              /\ UNCHANGED obl
           \/ /\ ~obl[p][g].trigger_turn
              /\ obl' = [obl EXCEPT ![p][g] = Dispatched(@)]
              /\ Exit(c, g, n)
              /\ UNCHANGED prov
        /\ UNCHANGED <<turnVars, nextGen, lease, op, mail>>

\* The trigger is submitted to the parent's loop, or, when an idle parent
\* finds no execution capacity, queued at once under a capacity-ready lease.
SendTrigger(c, g, n) ==
    LET p == Parent[c]
        o == obs[c][g][n]
    IN  /\ At(c, g, n, "send")
        /\ \/ /\ alive[p]
              /\ op' = [op EXCEPT ![p] = Append(@, o.owner)]
              /\ UNCHANGED <<prov, mail, obl>>
           \/ /\ alive[p] /\ p # Root /\ slot[p] = "idle"
              /\ Enqueue(p, o.owner)
              /\ UNCHANGED op
           \/ /\ ~alive[p]
              /\ prov' = [prov EXCEPT ![p][o.owner] = IF @ = g THEN None ELSE @]
              /\ UNCHANGED <<op, mail, obl>>
        /\ Goto(c, g, n, [o EXCEPT !.pc = "sent"])
        /\ UNCHANGED <<turnVars, nextGen, lease>>

FinishDispatch(c, g, n) ==
    LET p == Parent[c]
        o == obs[c][g][n]
    IN  /\ At(c, g, n, "sent")
        /\ obl' = [obl EXCEPT ![p][g] = Dispatched(@)]
        /\ IF o.keep THEN Goto(c, g, n, [o EXCEPT !.pc = "owner"]) ELSE Exit(c, g, n)
        /\ UNCHANGED <<turnVars, nextGen, lease, mailVars>>

\* The observer of a retained target waits until the aggregate that reported
\* the intermediate result was acknowledged.
AwaitDelivery(c, g, n) ==
    LET p == Parent[c]
        o == obs[c][g][n]
        b == obl[p][g]
    IN  /\ At(c, g, n, "owner")
        /\ \/ b.st # "live" /\ Exit(c, g, n)
           \/ /\ b.st = "live"
              /\ \/ b.parent_turn # o.owner
                 \/ c \in b.retained_targets /\ b.results[c] = "none"
                    /\ b.retained_pred = None
              /\ Goto(c, g, n, [o EXCEPT !.pc = "snap", !.registered = TRUE])
        /\ UNCHANGED <<turnVars, storeVars, mailVars>>

\* A successor without a recorded terminal must still run.
CheckSuccessor(c, g, n) ==
    LET o == obs[c][g][n]
    IN  /\ At(c, g, n, "live")
        /\ IF o.status = "none" /\ ~(slot[c] = "running" /\ cur[c] = o.succ)
           THEN Exit(c, g, n)
           ELSE Goto(c, g, n, [o EXCEPT !.pc = "rebind"])
        /\ UNCHANGED <<turnVars, storeVars, mailVars>>

\* rebind_join_target_to_successor, then the fence on the status watch: a
\* shutdown published before the fence is not seen again.
RebindTarget(c, g, n) ==
    LET p == Parent[c]
        o == obs[c][g][n]
        ok == AwaitsSuccessor(obl[p][g], c) /\ obl[p][g].targets[c] = o.turn
    IN  /\ At(c, g, n, "rebind")
        /\ \/ /\ ok
              /\ obl' = [obl EXCEPT ![p][g] = Rebound(@, c, o.succ)]
              /\ Goto(c, g, n, [o EXCEPT !.turn = o.succ, !.pred = o.turn, !.succ = None,
                                 !.fenced = ~alive[c], !.keep = FALSE, !.registered = FALSE,
                                 !.pc = IF o.status = "none" THEN "succ" ELSE "finish"])
           \/ ~ok /\ Exit(c, g, n) /\ UNCHANGED obl
        /\ UNCHANGED <<turnVars, nextGen, lease, mailVars>>

\* The wait for the successor's terminal in its lease, or the shutdown.
SeeSuccessorTerminal(c, g, n) ==
    LET o == obs[c][g][n]
        s == Snapshot(c, o.pred)
        same == s.kind = "bound" /\ s.gen = o.inner /\ s.succ = o.turn
        see(x) == Goto(c, g, n, [o EXCEPT !.status = x, !.pc = "finish"])
    IN  /\ At(c, g, n, "succ")
        /\ \/ ~same /\ Exit(c, g, n)
           \/ same /\ s.terminal # "none" /\ see(s.terminal)
           \/ same /\ ~alive[c] /\ ~o.fenced /\ see("Shutdown")
        /\ UNCHANGED <<turnVars, storeVars, mailVars>>

\* finish_join_continuation removes the lease; the chain goes on.
FinishContinuation(c, g, n) ==
    LET o == obs[c][g][n]
    IN  /\ At(c, g, n, "finish")
        /\ lease' = [lease EXCEPT ![c] = {l \in @ :
                ~(l.gen = o.inner /\ l.pred = o.pred /\ l.succ = o.turn)}]
        /\ Goto(c, g, n, [o EXCEPT !.inner = None, !.pred = None, !.pc = After(o.status)])
        /\ UNCHANGED <<turnVars, obl, nextGen, mailVars>>

\* retire_join_target_successor_retention: the child was shut down before it
\* had a successor; the shutdown becomes its result.
RetireRetention(c, g, n) ==
    LET p == Parent[c]
        o == obs[c][g][n]
        ok == AwaitsSuccessor(obl[p][g], c) /\ obl[p][g].targets[c] = o.turn
    IN  /\ At(c, g, n, "retire")
        /\ \/ /\ ok
              /\ obl' = [obl EXCEPT ![p][g] = Unretained(@, c)]
              /\ Goto(c, g, n, [o EXCEPT !.status = "Shutdown", !.pc = "resolve"])
           \/ ~ok /\ Exit(c, g, n) /\ UNCHANGED obl
        /\ UNCHANGED <<turnVars, nextGen, lease, mailVars>>

\* The parent's submission loop handles a trigger: inter_agent_communication.
HandleOp(p) ==
    /\ alive[p] /\ op[p] # <<>>
    /\ op' = [op EXCEPT ![p] = Tail(@)]
    /\ Enqueue(p, Head(op[p]))
    /\ UNCHANGED <<turnVars, nextGen, lease, obs>>

-----------------------------------------------------------------------------
Init ==
    /\ slot = [t \in Thread |-> "running"]
    /\ cur = [t \in Thread |-> 1]
    /\ users = [t \in Thread |-> 0]
    /\ dying = [t \in Thread |-> {}]
    /\ ended = [t \in Thread |-> [k \in Turn |-> "none"]]
    /\ alive = [t \in Thread |-> TRUE]
    /\ obl = [p \in Thread |-> [g \in Gen |-> NoObligation]]
    /\ nextGen = [p \in Thread |-> 0]
    /\ lease = [p \in Thread |-> {}]
    /\ prov = [p \in Thread |-> [k \in Turn |-> None]]
    /\ op = [p \in Thread |-> <<>>]
    /\ mail = [p \in Thread |-> NoMail]
    /\ obs = [c \in Thread |-> [g \in Gen |-> [n \in ObsId |-> NoObserver]]]

TurnStep(p) ==
    \/ UserStart(p) \/ Wake(p)
    \/ ActiveDelivery(p) \/ OrphanDelivery(p)
    \/ \E s \in EndStatus : FinishTurn(p, s) \/ AbortTurn(p, s)
    \/ \E d \in dying[p] : RecordTerminal(p, d)
    \/ ClearSlot(p)
    \/ Shutdown(p)
    \/ \E S \in SUBSET Child(p), kind \in Kinds : Register(p, S, kind)
    \/ \E S \in SUBSET Child(p) : TargetfulWait(p, S)
    \/ HandleOp(p)

ObserverStep(c, g, n) ==
    \/ SeeTerminal(c, g, n) \/ SnapshotContinuation(c, g, n)
    \/ ResolveTarget(c, g, n)
    \/ MarkTrigger(c, g, n) \/ SendTrigger(c, g, n) \/ FinishDispatch(c, g, n)
    \/ AwaitDelivery(c, g, n)
    \/ CheckSuccessor(c, g, n) \/ RebindTarget(c, g, n)
    \/ SeeSuccessorTerminal(c, g, n) \/ FinishContinuation(c, g, n)
    \/ RetireRetention(c, g, n)

Next ==
    \/ \E p \in Thread : TurnStep(p)
    \/ \E c \in Thread, g \in Gen, n \in ObsId : ObserverStep(c, g, n)

Spec == Init /\ [][Next]_vars

\* Fairness: every spawned task and the submission loop keep running, a taken
\* turn gets its terminal recorded and its slot cleared.  Nothing is assumed
\* of users, of the length of a turn, or of the moment of a shutdown.
FairSpec ==
    /\ Spec
    /\ \A c \in Thread, g \in Gen, n \in ObsId : WF_vars(ObserverStep(c, g, n))
    /\ \A p \in Thread : /\ WF_vars(HandleOp(p))
                         /\ WF_vars(\E d \in dying[p] : RecordTerminal(p, d))
                         /\ WF_vars(ClearSlot(p))

-----------------------------------------------------------------------------
(* Properties.                                                             *)

Status == {"none", "Completed", "Errored", "Shutdown"}

Obligation ==
    [st : {"unused", "live", "consumed", "retired"},
     parent_turn : 0..MaxTurn, trigger_turn : BOOLEAN,
     targets : [Thread -> 0..MaxTurn], results : [Thread -> Status],
     ready : BOOLEAN, trigger_sent : BOOLEAN, dispatch_complete : BOOLEAN,
     retained_targets : SUBSET Thread, retained_pred : 0..MaxTurn]

Lease == [gen : Gen, pred : Turn, succ : Turn, terminal : Status]

Observer ==
    [pc : {"off", "wait", "snap", "retain", "resolve", "mark", "send", "sent", "owner",
           "live", "rebind", "succ", "finish", "retire", "done"},
     turn : 0..MaxTurn, status : Status, inner : 0..MaxGen, keep : BOOLEAN,
     registered : BOOLEAN, owner : 0..MaxTurn, pred : 0..MaxTurn,
     succ : 0..MaxTurn, fenced : BOOLEAN]

\* The types of the session, store, mailbox and observer state.
TypeOK ==
    /\ slot \in [Thread -> {"idle", "running", "closing"}]
    /\ cur \in [Thread -> Turn]
    /\ users \in [Thread -> Nat]
    /\ dying \in [Thread -> SUBSET [turn : Turn, status : EndStatus]]
    /\ ended \in [Thread -> [Turn -> Status]]
    /\ alive \in [Thread -> BOOLEAN]
    /\ obl \in [Thread -> [Gen -> Obligation]]
    /\ nextGen \in [Thread -> 0..MaxGen]
    /\ lease \in [Thread -> SUBSET Lease]
    /\ prov \in [Thread -> [Turn -> 0..MaxGen]]
    /\ op \in [Thread -> Seq(Turn)]
    /\ mail \in [Thread -> [Mail -> Nat]]
    /\ obs \in [Thread -> [Gen -> [ObsId -> Observer]]]

\* The result a parent's store holds for a child is the recorded terminal of
\* exactly the turn the target is bound to, or the child's shutdown: a result
\* never survives the rebinding of its target to a successor turn
\* (resolve_join_target_inner, rebind_join_target_to_successor).
ExactTerminal ==
    \A p \in Thread, g \in Gen, c \in Thread :
        LET r == obl[p][g].results[c]
        IN  /\ r \in {"Completed", "Errored"} => ended[c][obl[p][g].targets[c]] = r
            /\ r = "Shutdown" => ~alive[c]

\* Aggregates of generation g on their way: observers about to record the
\* trigger, triggers recorded but not enqueued, and mail.
InFlight(p, g) ==
    Cardinality({x \in Child(p) \X ObsId : obs[x[1]][g][x[2]].pc = "mark"})
      + Cardinality({k \in Turn : prov[p][k] = g})
      + Cardinality(UNION {{k} \X (1..mail[p][[gen |-> g, pred |-> k]]) : k \in Turn})

\* Between the resolution that completes a join and the turn that acknowledges
\* it, exactly one aggregate of the generation exists, whatever observers,
\* dispatchers and the submission loop do; before, there is none
\* (trigger_sent, join_trigger_provenance, mailbox_pending_mails).
AggregateConserved ==
    \A p \in Thread : \A g \in Live(p) :
        alive[p] /\ obl[p][g].trigger_turn =>
            InFlight(p, g) = IF obl[p][g].trigger_sent THEN 1 ELSE 0

\* A generation that was consumed or retired leaves nothing behind that would
\* resume the parent a second time.
NoStaleAggregate ==
    \A p \in Thread, g \in Gen :
        obl[p][g].st \in {"consumed", "retired"} => InFlight(p, g) = 0

\* A turn owns at most one live join (register_obligation's fence).
OneJoinPerTurn == \A p \in Thread, k \in Turn : Cardinality(SameKind(p, k, TRUE)) <= 1

\* A turn has at most one continuation: one lease or one pending generation.
UnambiguousContinuation == \A c \in Thread, k \in Turn : Snapshot(c, k).kind # "ambiguous"

\* A final, non-retained Completed means the child is done: no work of that
\* turn is left in a join the child itself owns.
SettledResult ==
    \A p \in Thread : \A g \in Live(p), c \in Thread :
        LET o == obl[p][g]
        IN  o.results[c] = "Completed" /\ c \notin o.retained_targets =>
                Snapshot(c, o.targets[c]).kind = "none"

\* A parent's turn is handed an aggregate only when every child it joined has
\* a result.
OnlyCompleteIsDelivered ==
    [][\A p \in Thread, g \in Gen :
         LET o == obl[p][g]
         IN  o.st = "live" /\ (obl'[p][g].st = "consumed" \/ obl'[p][g].parent_turn # o.parent_turn)
             => Targets(o) \subseteq Resolved(o)]_vars

\* A join all of whose bound turns ended with a final status reaches the
\* parent's mailbox, unless its generation is retired or the parent is gone
\* (observer, dispatcher and submission loop together).
JoinIsDelivered ==
    \A p \in Thread, g \in Gen :
        (/\ obl[p][g].st = "live" /\ obl[p][g].trigger_turn
         /\ \A c \in Targets(obl[p][g]) :
              /\ ended[c][obl[p][g].targets[c]] # "none"
              /\ c \notin obl[p][g].retained_targets)
        ~> (\/ obl[p][g].st # "live" \/ ~alive[p]
            \/ \E k \in Turn : mail[p][[gen |-> g, pred |-> k]] > 0)

\* A retained child whose successor turn ended is reported to the parent.
SuccessorIsReported ==
    \A c \in Thread \ {Root}, g \in Gen :
        LET o == obl[Parent[c]][g]
        IN  (/\ o.st = "live" /\ o.targets[c] # None /\ o.results[c] = "none"
             /\ \E l \in LeaseFor(c, o.targets[c]) : l.terminal # "none")
            ~> (o.st # "live" \/ o.results[c] # "none")

\* What a turn knows of a join it registered.
Phase(o) ==
    CASE o.st = "live" -> "open" [] o.st = "consumed" -> "told"
      [] o.st = "retired" -> "dropped" [] OTHER -> "unused"

\* The children a live obligation still waits for.
WaitingFor(o) == IF o.st = "live" THEN Targets(o) \ Resolved(o) ELSE {}

\* The stores in the terms of JoinContract.
Contract == INSTANCE JoinContract WITH
    Owner <- Thread, Member <- Thread,
    phase <- [p \in Thread |-> [g \in Gen |-> Phase(obl[p][g])]],
    team <- [p \in Thread |-> [g \in Gen |-> Targets(obl[p][g])]],
    waiting <- [p \in Thread |-> [g \in Gen |-> WaitingFor(obl[p][g])]]

\* Observers, dispatchers, the submission loop and the turns together keep
\* the promise of a join: every child reports once per round, the parent is
\* told only when all have and only once, a retained child opens another
\* round, and nothing brings a finished join back (register_obligation,
\* resolve_join_target_inner, acknowledge_ready_join_delivery_locked).
ImplementsContract == Contract!Spec
=============================================================================
