# Slopdex: a TLA+ model of agent joins, turn admission and the agent lifecycle

Slopdex is a fork of the Codex agent (`codex-rs/`, Rust). Its own additions are
in the core crate: trees of agent threads, *owned joins* that suspend a parent
until its children are done, the admission of turns under one execution limit,
and the lifecycle of spawned agents: durable spawn edges, a registry, runtimes
that are unloaded and reloaded. This directory models that core, checks it with
TLC, and proves its central safety properties with TLAPS. Paths below are relative to
`codex-rs/core/src/` unless they start with another directory.

## 1. Inventory

| Component | State | Operations | Interacts with |
|---|---|---|---|
| Owned-join store (`session/input_queue/owned_join*.rs`) | obligations (parent turn, child turn bindings, results, `ready`, `trigger_sent`, `dispatch_complete`, retained targets), continuation leases, next generation | register, resolve, retain, rebind, acknowledge, consume, retire, record terminal | mailbox (acknowledges on delivery), observers |
| Join observer and dispatch (`agent/control/join_observer.rs`, `agent/control/owned_join.rs`) | one spawned task per (generation, child) | wait for the exact terminal, look for a nested join, resolve, dispatch, wait for delivery, rebind to the successor | child's and parent's stores, the parent's submission queue |
| Mailbox (`session/input_queue.rs`, `mailbox_delivery.rs`) | pending mail with provenance; generation of a parent turn's trigger | enqueue, startup commit, delivery to the running turn | turn slot, join store |
| Turn slot and tasks (`tasks/mod.rs`, `state/turn.rs`) | `active_turn` (none, taskless, running, closing), the claim of a taskless turn, the reservation of a wake | wake, user claim, install, finish, abort, replace | limiter, mailbox, store |
| Turn input (`session/turn_input.rs`) | the reservation and claim of the start in progress | start or steer, start if idle | turn slot |
| Submission loop (`session/handlers.rs`) | the queue of operations | user input, interrupt, inter-agent communication, shutdown | all of the above |
| Execution limiter (`agent/control/execution.rs`) | count of guards, release generation | reserve, release | every capacity-limited session of a tree |
| Capacity-ready lease (`agent/control/capacity_ready.rs`) | watcher of one dispatch that found no capacity | retain, see a release, wake, re-arm | limiter, mailbox, turn slot |
| join/wait tools (`tools/handlers/multi_agents_v2/`) | none | register a join, wait for targets | store |
| Residency (`agent/control/residency.rs`) | resident threads in LRU order, pending slots | reserve, evict, touch, commit, forget | runtime map, session loops |
| Registry (`agent/registry.rs`) | count, paths and thread keys, nicknames | reserve, commit, drop, release | spawn, resume, cleanup |
| Spawn, resume, message (`agent/control/spawn.rs`, `agent/control.rs`, `thread_manager.rs`) | runtime thread map, incarnations | spawn, reload, resume a tree, send, clean up after a death | residency, registry, edges |
| Spawn edges and close (`thread_manager/spawn_edge_lifecycle.rs`, `agent/control/legacy.rs`, `codex-rs/state`) | durable edges: open or closed | persist, close, close stale, restore after a restart | runtime map, registry |
| Thread metadata (`codex-rs/thread-store`, `codex-rs/state/src/runtime/threads.rs`) | one row per thread | upsert after every append to the rollout, which also opens a spawn edge that is missing | spawn edges |
| Unload (`codex-rs/app-server/.../thread_lifecycle.rs`) | none | shut down an idle thread nobody subscribes to, with a time limit | runtime map |

Outside of the core logic, and not planned: model client and sampling loop,
compaction, tool runtime, contents of rollout files, the rest of the app server, TUI, exec server, sandbox,
network proxy, MCP, login. They are I/O, rendering or text processing; towards
the modelled parts they are "a turn runs, may take input, and ends".

What is hard here: every component is a set of critical sections around async
locks, and a task may be suspended, overtaken or aborted between any two. The
state read in one section is used in the next. The hazards, each with its line
and the properties aimed at it, are listed in `PROJECT.json`.

What makes each part correct:

* **store, observers, mailbox**: a result belongs to the exact child turn it is
  stored for; a completed join produces exactly one aggregate; a consumed or
  retired generation produces none; an intermediate result of a child that is
  itself waiting is not taken for its final one; a join whose children ended
  reaches the parent.
* **turn slot, limiter, lease**: guards are neither leaked nor dropped twice;
  nobody waits for a claim whose owner is gone; a slot without a task has an
  owner; at most one task runs; queued work is eventually started.
* **residency, registry, spawn edges**: slots, counts and paths are given back
  exactly once however an operation ends; a thread never has two running
  runtimes; a close hits only what was told to stop; registry and open edges
  agree through deaths and restarts; a loaded agent counts against the limit.

## 2. Modules

| Module | Contents |
|---|---|
| `OwnedJoin` | threads and their turns, obligation stores, mailboxes, observers, dispatch |
| `MCOwnedJoin` | a chain root–coordinator–leaf and a root with two children |
| `OwnedJoin_proofs` | type correctness and `ExactTerminal`, for any tree and any bounds |
| `JoinContract` | abstract: what an owned join promises the turn that registers it |
| `OwnedJoin_refinement` | `OwnedJoin` implements `JoinContract`, proved |
| `OwnedJoin_delivery` | settled results, continuations and aggregates, for any tree and any bounds |
| `TurnAdmission` | one capacity-limited session: slot, claims, guards, wakes, aborts, leases |
| `MCTurnAdmission` | its instances |
| `TurnAdmission_proofs` | types, guards, claims, tasks, for any inputs and bounds |
| `AgentLifecycle` | agents with their edges, registry entries, runtimes and residency; the operations on them; crashes |
| `MCAgentLifecycle` | five small sessions |
| `AgentLifecycle_proofs` | types, counters, incarnations, for any agents, callers and bounds |
| `AgentLifecycle_edges` | the durable edges and the registry agree |
| `AgentLifecycle_runtimes` | the edges, the runtimes and the queue of residents agree |

The specifications meet at the turn slot and at the dispatch. `OwnedJoin`
abstracts admission: a turn may start when the slot is free, and a dispatch
either submits an operation or, without capacity, puts the mail into the
mailbox directly. `TurnAdmission` abstracts joins: a dispatch is one trigger
mail. Each therefore over-approximates what it leaves to the other.
`AgentLifecycle` reduces a session to one state per runtime (never ran a turn,
busy with a turn, mail or join state, idle, told to stop, exited); the other two
assume that the threads they speak of stay loaded.

### OwnedJoin

An action is one critical section (an acquisition of the store's, the mailbox's
or the active turn's lock), or a few neighbouring ones where no other actor can
tell them from one; those are listed under the abstractions below.

| State | Code |
|---|---|
| `slot`, `cur`, `dying`, `ended` | `Session.active_turn`, the latest turn, turns whose task was taken and whose terminal is not recorded yet, `exact_join_terminals` |
| `obl`, `nextGen`, `lease` | `JoinObligationStore`; `st` also remembers how a removed obligation ended |
| `prov`, `op`, `mail` | `join_trigger_provenance`, submitted `Op::InterAgentCommunication`, `mailbox_pending_mails` |
| `obs` | the local variables and the program point of `spawn_join_observer` |

Actions: `UserStart`, `Wake`, `ActiveDelivery`, `OrphanDelivery`, `FinishTurn`,
`AbortTurn`, `RecordTerminal`, `ClearSlot`, `Shutdown`, `Register`,
`TargetfulWait`, `HandleOp` of a thread; `SeeTerminal`, `SnapshotContinuation`,
`ResolveTarget`, `MarkTrigger`, `SendTrigger`, `FinishDispatch`,
`AwaitDelivery`, `CheckSuccessor`, `RebindTarget`, `SeeSuccessorTerminal`,
`FinishContinuation`, `RetireRetention` of an observer.

Abstractions, and why they are sound:

* A mailbox is a bag: the code drains it whole and treats mails independently.
* The registration of a join, several sections in the code, is one step: an
  observer subscribes to terminals before it looks at the recorded ones, so a
  terminal between the sections is seen either way.
* `get_pending_input` looks twice; the second, locked pass repeats all checks of
  the first, so one step stands for both. The delivery phase that defers mail
  only decides when the step happens.
* `Enqueue` (in `HandleOp` and in a dispatch without capacity) takes the
  provenance, appends the mail and marks the dispatch complete in three sections
  (`mailbox_delivery.rs:26-28`, `39-47`, `48-50`). After the first the aggregate is
  with this call only; a delivery that looks between the last two finds the
  dispatch incomplete and leaves the mail where it is, as if it had come before.
* `RecordTerminal` joins the update of leases, obligations and mail with
  recording the exact terminal (`continuation.rs:188-202`) and, on the root, with
  `finish_root_join_continuations`: an observer of this turn is woken by the
  terminal, and then finds what the first section left.
* `RebindTarget` includes the status fence after it (`join_observer.rs:293`),
  which touches only the observer's own receiver; a shutdown between the two is
  ordered before the rebinding.
* `TargetfulWait` reads the turns its targets are in
  (`control/owned_join.rs:210-233`) and consumes in one step; a child turn that
  starts or ends between the two is ordered after the wait.
* `FinishTurn` does not require an empty mailbox: the task's own check is made
  before, without the lock.
* A thread has one incarnation; unloading and reloading are left to
  `AgentLifecycle`. Shutdown is permanent.
* `Interrupted` is not final: nothing is recorded for such a turn, as in
  `is_final`.

`JoinContract` says what a parent may rely on: a join has a team; each member
reports once per round; the parent is told when all have, and only then; telling
ends the join or opens a round for members whose report was intermediate; what
ended stays ended. `OwnedJoin!Contract` maps an obligation to it: a live one is
open, a consumed one told, a retired one dropped, the targets without a result
are waited for. Several joins of one thread may move in one step, because one
delivery acknowledges all aggregates it contains.

### TurnAdmission

`turn` is the slot with its phase (`wake`: the reservation is inside the slot;
`start`: the starter holds it; `task`; `closing`: the task was taken), `claim`
the `TasklessTurnClaim` of each slot value, `at` what each process does and
which guards it holds (`res` for the reservation it will install, `outer` for
one a caller further up the stack holds), `active` the limiter's count, `fresh`
the watch receivers with an unseen release. Processes are the submission loop,
the task of each turn, and the dispatcher/watcher of each trigger mail. Other
sessions under the same limiter are external: they take and release guards.

Abstractions: the submission loop handles one operation at a time, in any order;
`steer_input` and the claim that follows are one step, since between them only
the slot can change and the claim re-reads it; the two lock sections of
`start_task_with_reservation_inner` are one, since the first has no effect when
the second refuses; `AutoCheck` drops the claim of a refused start at once, where
the code drops its owner when the function returns (`turn_input.rs:474-478`), and
only the submission loop itself, which is here, ever waits for a claim; `AutoReserve`
joins the check for mail with the reservation, and mail that arrives between the
two is what `AutoCheck` looks for again. Identities of slots are recycled when nobody refers to
them. Left out: `abort_turn_if_active` from a concurrent guardian, durable
sleep, a parent that disappears while a lease is held, and callers of
`start_or_steer` outside of the submission loop
(`realtime_conversation.rs:1618` and `:1629`, which route realtime text into a
turn).

### AgentLifecycle

| State | Code |
|---|---|
| `edge` | `thread_spawn_edges`, the only durable state |
| `rt`, `latest`, `run` | `ThreadManagerState.threads`, `ThreadIncarnations.latest`, the session loop of each incarnation |
| `tree`, `count` | `ActiveAgents.agent_tree` (with `thread_paths`, its inverse), `AgentRegistry.total_count` |
| `residents`, `pending` | `V2ResidencyState` |
| `call` | the local variables, the guards and the program point of each operation in progress |
| `layout` | a session: its version, who spawns whom, the paths and capacity, and bounds on the loads of each agent and on faults |
| `cut` | history: agents at which a cancelled operation left something behind |
| `stray` | history: agents whose spawn ended before its commit with an edge in place |

Edges have two writers. `persist_thread_spawn_edge_for_source` opens the edge of
a spawn or a resume (`CheckRuntime`, `Persist`). Besides, every upsert of a
thread's metadata opens an edge that is missing
(`insert_thread_spawn_edge_if_absent`, `EdgeIfAbsent`), and every append to a
rollout ends in an upsert. An agent without an edge reaches it at three places:
`Construct`, where a spawn with a forked history (the default in V2) appends that
history while its session is built, before it is registered; `AppendTurn`, in its
first turn; and `Flush`, when `close_agent` materializes its rollout. Everywhere
else the edge exists already.

An operation begins (`Spawn`, `MessageV2`, `MessageV1`, `Resume`, `Close`,
`Unload`) and proceeds by one action per await or lock section, with the merges
listed below:

* making room: `ReserveSlot`, `NoRoom`, `PopLru`, `CheckCandidate`,
  `SubmitShutdown`, `RemoveUnloaded`, `LimitReached`, `UnloadTimeout`;
* a runtime: `Register`, `RegisterFails`, `Load`, `Construct`, `Finalize`,
  `FinalizeDuplicate`, `UseLoaded`, `CheckRuntime`, `CheckRuntimeFails`,
  `Persist`, `PersistFails`, `Undo`, `RolledBack`, `Commit`, `Descend`,
  `Resumed`. A persist first looks whether its runtime is still registered, and
  returns an error without any rollback if not; a failure of the write itself
  unregisters the runtime, then tells it to stop, then waits;
* sending: `Fetch`, `Submit`, `SubmitFails`, `CleanUp`, `CleanUpFails`,
  `Release`;
* closing: `Target`, `Flush`, `FlushFails`, `Shut`, `Halt`, `CommitClose`,
  `CommitCloseFails`, `NextDescendant`, `Closed`, `CloseStale`,
  `CloseStaleFails`. An error at a descendant, a failed flush or a runtime that
  died, leaves the remaining descendants alone (`AfterError`).

Session loops take `AppendTurn`, `TurnEnds` and `LoopExits`. Faults are `Cancel` (a tool call
is aborted at an await and drops its guards), `CancelInStore` (aborted while the
store writes: the write happens, nothing after it), `Detach` (the close of a
target runs in a task that outlives its caller), failing stores, timeouts, and
`Crash`, which keeps the edges, and in V2 restores the registry from them.

Abstractions: an agent's path is given by the layout; V2 agents are spawned by
the root or by a busy agent, V1 agents are keyed by thread id; the session that
`finalize_thread_spawn` discards as a duplicate is never registered, runs no
turn, and is not numbered; a resume reads the open children of an agent when the
agent is done, where the code reads them one await later; a failure to read a
stored thread ends an operation as any other failure at that point would and is
not listed apart. Merged: `Register` reserves the count and the path
(`spawn.rs:624-641`; the first does not fail in V2, the second does nothing in
V1); `CheckCandidate` gets the thread and asks whether it is idle, whose answer
may be stale at `SubmitShutdown` either way. An append to the rollout is modelled
only while a turn runs, not in the moment after `Op::Shutdown` was queued behind
it. The branch of an eviction whose `shutdown_and_wait` fails
(`residency.rs:140-146`) has no action, because no error reaches it: submitting
fails only with `InternalAgentDied`, which `shutdown_and_wait` swallows. Left out:
nicknames and roles, the environments a reload starts with, the owner-validated
form of a V2 reload (`validate_loaded_v2_child`, which only `thread_manager.rs:1153`
asks for), the metadata upserts of `list_threads` and `read_thread` when they
repair a row, turns that the app server starts on an agent's thread directly,
`interrupt_agent`, `shutdown_agent_tree` without a close, ephemeral threads.

## 3. Runs

| Run | Instance | Shows |
|---|---|---|
| `join_nested` | chain of 3, 2 turns per thread, 1 generation, user turns and shutdown of the coordinator, interrupts | `TypeOK`, `ExactTerminal`, `AggregateConserved`, `NoStaleAggregate`, `UnambiguousContinuation`, `SettledResult`, `ImplementsContract` |
| `join_fan` | root with two children, joins and waits, two observers per child, failures | `AggregateConserved`, `OnlyCompleteIsDelivered`, `ImplementsContract` |
| `join_live` | chain, user turn of the root, shutdown of the coordinator, fair | `JoinIsDelivered` |
| `join_stale` | chain with failing turns | **violated**: `NoStaleAggregate` |
| `join_two` | chain, 2 generations, user turn of the root | **violated**: `OneJoinPerTurn` |
| `join_successor` | chain, fair | **violated**: `SuccessorIsReported` |
| `admission_safe` | 1 mail, 2 guards, 3 inputs of every kind, refused batches | `TypeOK`, `GuardsExact`, `ClaimHasOwner`, `InputIsAnswered` |
| `admission_live` | 2 mails, 2 guards, another session takes 2, one input, no interrupt | `TasklessTurnIsOwned`, `SingleTask`, `LeasedMailIsDelivered` |
| `admission_lost` | 1 mail, 1 guard, one input, fair | **violated**: `TriggerIsServed` |
| `admission_two_tasks` | 1 mail, 2 guards, user input and interrupt | **violated**: `SingleTask` |
| `agent_lifecycle` | 2 agents, 2 operations at a time, up to 2 incarnations between crashes, five layouts; 1.3 million states | `TypeOK`, `PendingExact`, `CountCovers`, `SingleRuntime`, `KnownIsOpen`, `OpenIsKnown`, `NamesUnique`, `Tracked`, `ClosedIsStopped`, `CloseSparesReplacement` |
| `agent_capacity` | 2 agents of the root (V2), capacity 1, no faults | **violated**: `WithinCapacity` |

Bounds. Two turns are what a successor needs, three threads what a nested join
or a race of two observers needs, one generation suffices unless a turn is to
own two joins. Two guards with one other session are the smallest system in
which capacity is available when it is checked and gone when it is needed. Six
slots are more than the instances ever refer to at once (a process refers to at
most one). Turns, generations, observers, user starts, inputs and guards of
others are capped by the constants `Max...`; the systems stop at those bounds,
so deadlock is not checked.

The lifecycle runs need two agents for an eviction or a common path and two
operations for a race; an operation that is alone is sequential code. Two
incarnations of a thread are a runtime and its replacement; `loads` gives them
where a replacement matters and saves states where it does not (counting starts
again after a crash). The layouts are

* `Nested`: a V1 parent and child, one load each, one fault: a close of the tree
  in which one step fails or is cancelled, or a restart after which the tree is
  resumed;
* `Alone`: one V1 agent, two loads, two faults: closes, stale closes, cleanups
  and unloads that race a resume;
* `Siblings`: two V2 agents sharing a capacity of one, two loads of the first,
  one fault: evictions that race reloads;
* `Namesakes`: two V2 agents that want one path, two loads each, one fault: the
  spawns that leave an edge behind need no fault, so one is enough for such a
  spawn, a namesake and a crash;
* `Generations`: a V2 agent with a child, two loads of the parent, one fault: a
  restart must find the child through its parent.

A second load of a V1 child without a restart is left to the proofs.

`SYMMETRY` is used in `join_fan` (two interchangeable children) and in the
lifecycle runs (two interchangeable callers); none of them checks liveness.

Some lifecycle invariants have exceptions, each of them a window the code has:
`KnownIsOpen` between a durable close and the release of the registry entry,
`SingleRuntime` while a failed persist rolls a runtime back (it is unregistered
before it has stopped), `CloseSparesReplacement` in the moment before that
rollback tells its runtime to stop, `ClosedIsStopped` while a resume is about to
reopen the edge, `Tracked` from the registration of a runtime to its commit, when
it is covered by a pending slot. `cut` records the agents at which a cancellation
stopped an operation halfway, between registration and commit, during an eviction
or inside a store write; what the code leaves there is never repaired, so those
agents are excepted.

`OpenIsKnown` and `NamesUnique` use neither of these. Their one exception is by
path (`TornPaths`): the path of a spawn that ended between the construction of its
session and its commit while its edge was in place. The code really leaves this
behind: a forked spawn has an open edge as soon as its session is constructed, and
when it is then refused, fails or is cancelled, its reservation is dropped, the
path is free, and nothing takes the edge back. No fault is needed: an unload by the
app server that removes the idle new runtime before `CheckRuntime` is enough. The
next spawn with that path opens a second edge with the same path, and after a
restart only one of the two is restored. No comment, test or document of the
repository rules this out, so it is recorded here as an observation and not as a
violated claim; without the exception TLC finds both properties violated.
Excepting only the agents themselves would be wrong: with three agents of one
path, a restart may restore the stray one, and after its close the path goes to a
third agent while the second still has its open edge.

What the violations show (details and quotations in `PROJECT.json`, `findings`):

1. `join_stale`: a failing turn retires its join and purges queued mail, but an
   aggregate that is dispatched and not yet enqueued survives and starts a turn.
   `join_nested` shows that this needs a failing turn: with completed and
   interrupted turns the property holds.
2. `join_two`: a retained join is handed to a turn that already owns another
   join; the provenance map holds one entry per turn, so one aggregate is lost.
3. `join_successor`: an observer gives up on a successor turn whose task is
   taken but whose terminal status is not recorded yet.
4. `admission_lost`: a wake that fails for capacity is forgotten. With a
   capacity-ready lease (`admission_live`) the mail is delivered.
5. `admission_two_tasks`: a task aborted just after its cancellation check takes
   the next turn's task out of the slot.
6. `agent_capacity`: the cleanup after a dead runtime closes exactly that
   runtime's edge, but forgets the agent by its thread id afterwards; an agent
   reloaded in between runs on outside the limit.

The passing runs exclude, by their constants, the inputs that lead to these
behaviours: `join_nested` has no `Errored` turns and one generation,
`admission_live` no interrupts. `TasklessTurnIsOwned` is checked without refused
batches and interrupts, since a refused batch leaves its taskless turn in the
slot until a user start clears it.

### Fairness

`OwnedJoin!FairSpec`: weak fairness of every observer, of the submission loop,
of recording a terminal and of clearing the slot. All are Tokio tasks or
continuations of one, never blocked by anything but locks that are held for a
bounded time. Nothing is assumed of users, of turns ending, or of shutdowns.
`TurnAdmission!FairSpec`: additionally, turns end (a model request ends or
fails), of this session and of the others; without that no guard would ever be
released. Deliveries, inputs and other sessions' starts are not assumed.

### Mutants

Each property has a mutant: an operator next to the one it replaces, marked
"Mutant", that changes the code's behaviour as a plausible bug would (a guard
that is not dropped, a provenance entry read but not removed, a trigger fired
twice, a release generation read too late). TLC finds the property violated.

## 4. Proofs

`OwnedJoin_proofs` proves, for every set of threads, every parent function and
every bound (`ThreadAssumption`, `BoundAssumption`):

* `TypeCorrect`: `Spec => []TypeOK`;
* `ExactTerminalHolds`: `Spec => []ExactTerminal`: a result in a parent's store
  is what exactly the bound turn ended with;
* `InductiveInvariant`: `Spec => []IInv`, from which both follow.

`ExactTerminal` is not inductive. A resolution stores the status an observer
carries, so the status must be exact while it is carried (`ObserverInv`, also
for the successor an observer is about to bind); an observer takes it from the
recorded terminals or from a lease, so a lease must hold its successor's
terminal (`LeaseInv`); both must stay true when another turn ends, so a turn is
recorded once and only after its task was taken (`SlotInv`). `OwnerInv` and
`BoundInv` keep turn numbers in range. The step lemmas are arranged by what an
action may do: `Persists` (recorded terminals stay, the dead stay dead) lets
exact facts survive every action, `Lowers` collects the store operations that
add no result, and each action then has a lemma of its own.

`OwnedJoin_refinement` proves, from the same assumptions:

* `ContractRefinement`: `Spec => ImplementsContract`: initial states map to
  initial states of `JoinContract`, and every step to one of its steps or to a
  stutter;
* `OnlyCompleteHolds`: `Spec => OnlyCompleteIsDelivered`;
* `CompleteInvariant`: `Spec => []RInv`, which adds two facts to `IInv`: a join
  that is ready, or has been delivered to a predecessor, has all its results
  (`CompleteInv`), and generations beyond the counter are unused (`FreshInv`).
  The first is what makes a consumption a `Tell`, the second what makes a
  registration start from an unused join.

`OwnedJoin_delivery` proves the four invariants about what becomes of a join,
for every tree and every bound:

* `SettledResultHolds`: `Spec => []SettledResult`, without further hypotheses.
  A Completed is settled when the child's turn has neither a lease nor an open
  join (`Quiet`); that must hold already while an observer carries the status to
  the parent's store, and must not change afterwards (`SettledInv`). It does not,
  because a join comes only to the *running* turn and a lease only from a turn
  that owned a join (`CStep`, which every action satisfies), while a turn with a
  recorded terminal does not run (`SlotInv`): `QuietPersists`.
* `UnambiguousContinuationHolds`: `Spec /\ []OneJoinPerTurn =>
  []UnambiguousContinuation`. By `UniqueInv` a turn that handed its work on has
  one lease and no open join left; a delivery that installs the lease takes the
  only join of that turn with it (`DrainLStep`).
* `AggregateConservedHolds`: `FALSE \notin Kinds => (Spec /\ []OneJoinPerTurn =>
  []AggregateConserved)`. The invariant `FlightInv` says where the one aggregate
  of a completed join is: with exactly one observer at its mark (`Marking`),
  recorded under exactly the owning turn (`Recorded`), or once in the mailbox
  under that turn (`Queued`). The provenance map is keyed by turn, so the
  argument needs that nobody else records under the same turn: another live join
  of that turn is excluded by the hypothesis, and a retired one by the part of
  `Flight` that says that its turn is over and owns no live join (`Over`).
* `NoStaleAggregateHolds`: the same hypotheses and `"Errored" \notin Endings`.

The hypotheses are what the code needs. `OneJoinPerTurn` is what
`register_obligation` tries to ensure and `join_two` shows it can miss; `[]` of
it as a hypothesis leaves all behaviours in which it is not missed, among them
all of `join_nested` and `join_fan`. A targetful wait (`FALSE \in Kinds`) may
consume a join whose trigger is submitted and not yet handled: only queued mail
is purged, the recorded provenance stays, and tags a mail of a generation that
is over or in its next round. On a chain of threads TLC finds `AggregateConserved`
violated this way; in `join_fan` the wait is in use and no join is retained. An
error retires joins whose aggregate is on its way, which is `join_stale`.

`AgentLifecycle_proofs` proves, for every finite set of agents and callers,
every set of layouts and every bound (`NameAssumption`, `LayoutAssumption`,
`LifecycleBoundAssumption`, `FiniteAssumption`; the last only for what
is said of cardinalities):

* `SingleRuntimeHolds` and `CloseSparesHolds`. Neither property is inductive:
  they rest on `IncInvariant`. The registered runtime is the latest incarnation
  (`RuntimeInv`); an unregistered one that has not exited is about to be told to
  stop by a failed persist (`Undoing`), or was told to and is waited for by the
  rollback or left by a cancelled operation (`OrphanInv`); and what an operation remembers is still true when it acts
  (`CallInv`): an incarnation seen dead stays dead, and `close_agent` found its
  target missing only if no incarnation was registered since (`Remembers`). The
  steps are sorted by what they change: `QuietStep` for those that leave the
  runtimes alone, `ChangeStep` for those that stop or unregister one, and a
  lemma each for a new incarnation, a failed persist, the session loops and a
  crash.
* `PendingExactHolds` and `CountCoversHolds`: counting lemmas relate the sets of
  operations that hold a slot or a reservation before and after a step; that a
  reservation holds a path of its own (`PathInv`) makes a commit in V2 turn
  exactly one reservation into one known agent.
* `TypeCorrect`, from all of these.

`AgentLifecycle_edges` and `AgentLifecycle_runtimes` prove, from the same
assumptions, the four invariants that relate the durable edges to the volatile
state, and with them every invariant of `agent_lifecycle`:

* `KnownIsOpenHolds`: V2's operations form a small automaton (`V2Moves`), and the
  edge of the agent an operation works on follows it (`EdgeFits`): none until a
  spawn has constructed its session, not closed until it commits, open at its
  commit, closed before a release; a spawn has its agent for itself (`Alone`). A
  close is therefore always seen as a pending release or a cancellation.
  `AppendTurn` never acts in V2, since a runtime that had a turn has an edge
  (`NoAppend`, from `ParentInv`).
* `OpenIsKnownHolds` and `NamesUniqueHolds`, from `HeldInv` (an open descendant
  with an untorn path is known, or its spawn has constructed its session and has
  not committed, `LatePC`). Such a spawn either goes on towards its commit or ends
  with its path torn (`LateNext`). The case that needs an argument is a step that
  adds an edge, `Construct` or `Persist`: it must not make older agents reachable.
  `ParentInv` excludes that: the parent of an agent with an edge ran a turn and has
  had an edge before. After a crash the maximal restorable set holds every open
  descendant with an untorn path, because `HeldInv` and the registry make their
  paths different.
* `ClosedIsStoppedHolds` (V1), from `StopInv`: a closed agent that runs has an
  operation about to reopen the edge of *exactly that* runtime. Only `Finalize`
  starts a runtime (`RuntimeStep`), what is closed has no running runtime
  (`ClosesStopped`, by the incarnation checks), and a reopening operation reopens,
  unregisters its runtime, or is cancelled (`ReopenNext`).
* `TrackedHolds` (V2), from `TrackInv`, which names the incarnation an eviction
  is about to remove or a spawn is about to commit (`Arriving`), and `FreshInv`: a
  spawn that has not constructed its session has no runtime, so the edge the
  construction opens is not that of a loaded agent. The queue lemmas (`WithoutMembers`, `TouchMembers`,
  `TailMembers`, `RotateMembers`) say who leaves the queue of residents: the
  candidate of an eviction, and an agent whose edge is closed.

`TurnAdmission_proofs` proves, for every set of inputs, every number of slots,
mails and guards:

* `TypeCorrect`, `GuardsAreExact` and `ClaimsHaveOwners`, from the invariant
  `IInv`: what a process holds and refers to at each of its steps (`ShapeInv`),
  at most one process owns a slot value (`OwnerInv`), a claim is `Starting` only
  while its owner is on the way (`StartingInv`), and the count itself.
* `OneTask`: `SingleTask` where no input interrupts or replaces a turn
  (`NoAborts`), from `QuietInv`. `admission_two_tasks` shows that an interrupt
  breaks it.
* `TurnsAreOwned`: `TasklessTurnIsOwned` under `NoAborts` and without refused
  batches, from `HeldInv`. Both hypotheses are needed.

Only model-checked:

* `AggregateConserved` with targetful waits (`join_fan`), and what `SingleTask`,
  `TasklessTurnIsOwned`, `UnambiguousContinuation` and `NoStaleAggregate` say
  outside the hypotheses of their theorems;
* all liveness (`JoinIsDelivered`, `InputIsAnswered`, `LeasedMailIsDelivered`),
  which is out of the prover's reach.

Every other invariant and action property of a passing run is a theorem.

## 5. Plan

1. *Done*: `OwnedJoin`, `TurnAdmission`, `AgentLifecycle`, their runs; the
   abstract `JoinContract` and its refinement; the proofs of section 4.
2. Proofs: a condition on users and turns under which `OneJoinPerTurn` itself
   holds, to replace the hypothesis of the aggregate theorems.
3. The wait handler: timeouts, untargeted waits, waits on a child that retains a
   join; a liveness property for children that shut down.

Not modelled, and why: the model turn loop, compaction, tool execution, contents
of rollout files, the app server's protocol, the TUI, exec server, sandbox, proxy, MCP and
login are I/O, rendering and text processing, by far the largest part of the
repository's lines. Their effect on the state modelled here is nondeterministic:
a turn runs, takes input, is interrupted and ends; a store write fails. A model
of joins with unloading threads would be the product of `OwnedJoin` and
`AgentLifecycle`; it is out of TLC's reach at the bounds both need.
