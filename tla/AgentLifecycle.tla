-------------------------- MODULE AgentLifecycle --------------------------
(***************************************************************************)
(* The lifecycle of spawned agents: AgentControl, AgentRegistry,           *)
(* V2Residency and the thread manager's runtime map, with the durable      *)
(* spawn edges behind them.                                                *)
(*                                                                         *)
(* An agent is a thread id.  Its durable state is one spawn edge; its      *)
(* volatile state is a registry entry, possibly a loaded runtime (one      *)
(* "incarnation" of the thread, numbered by the thread manager) and, in a  *)
(* V2 session, a place in the queue of residents.  Tool calls spawn,       *)
(* message, resume and close agents; the app server unloads idle ones;     *)
(* reserving a residency slot evicts the least recently used idle one.     *)
(* Every await of these operations is a boundary between two actions, so   *)
(* calls interleave there, and a tool call may be cancelled there, which   *)
(* drops its guards.  A crash keeps only the spawn edges.                  *)
(***************************************************************************)
EXTENDS Naturals, Sequences, FiniteSets

CONSTANTS
    Agent,       \* ids of spawned agent threads
    Root,        \* the session's root thread: always loaded
    Caller,      \* operations that may be in progress at the same time
    Free,        \* a registry key with no entry
    Reserved,    \* a registry entry without an agent_id
    Layouts,     \* the sessions considered, see Layout
    MaxInc,      \* bound: incarnations of a thread recorded between crashes
    MaxThreads   \* agent_max_threads, the limit on total_count in V1

\* A session: its multi-agent version, who spawns whom, and the key of an
\* agent in agent_tree: its path in V2, "thread:<id>" in V1.  Keys are named
\* by an agent that has them.  capacity is that of the V2 residency; loads
\* bounds the incarnations of each agent between crashes, faults the
\* cancellations, failures of the store, timeouts and crashes the session
\* meets.
Layout ==
    [version : {"V1", "V2"}, parent : [Agent -> Agent \cup {Root}],
     key : [Agent -> Agent], loads : [Agent -> Nat], capacity : Nat, faults : Nat]

ASSUME NameAssumption ==
    /\ Root \notin Agent
    /\ Free \notin Agent /\ Reserved \notin Agent /\ Free # Reserved
ASSUME LayoutAssumption ==
    /\ Layouts \subseteq Layout
    /\ \A l \in Layouts :
          l.version = "V1" => \A a, b \in Agent : l.key[a] = l.key[b] => a = b
ASSUME LifecycleBoundAssumption ==
    MaxInc \in Nat /\ MaxThreads \in Nat
ASSUME FiniteAssumption ==
    IsFiniteSet(Agent) /\ IsFiniteSet(Caller)

Inc == 1..MaxInc
None == 0              \* no incarnation
Nobody == Root         \* no agent: the root is never a target

VARIABLES
    layout,     \* the session's layout
    edge,       \* thread_spawn_edges (durable): "none", "open" or "closed"
    rt,         \* ThreadManagerState.threads: the registered incarnation
    latest,     \* ThreadIncarnations.latest
    run,        \* run[a][i]: the session loop of incarnation i of a
    tree,       \* ActiveAgents.agent_tree (and thread_paths, its inverse)
    count,      \* AgentRegistry.total_count
    residents,  \* V2ResidencyState.residents, least recently used first
    pending,    \* V2ResidencyState.pending_slots
    call,       \* the operation each caller has in progress
    cut,        \* history: agents an operation was cancelled halfway through
    stray,      \* history: agents whose spawn ended early, their edge in place
    faults      \* faults so far

vars == <<layout, edge, rt, latest, run, tree, count, residents, pending,
          call, cut, stray, faults>>
runtimeVars == <<rt, latest, run>>
registryVars == <<tree, count>>
residencyVars == <<residents, pending>>
history == <<cut, stray>>

\* A session loop: "init" has run no turn (PendingInit), "busy" has a turn,
\* mail or join state, "done" is idle after a turn, "stop" has Op::Shutdown
\* queued, "dead" has exited.
RunState == {"none", "init", "busy", "done", "stop", "dead"}

PC == {"idle", "reserve", "scan", "check", "evict", "unload", "register",
       "load", "construct", "finalize", "persist", "store", "undo",
       "rollback", "commit", "fetch", "submit", "died", "release", "descend",
       "target", "flush", "shut", "halt", "close", "next", "stale", "drain"}

\* An operation: the agent it is working on, the runtime it captured
\* (expected_thread), the guards it holds (V2ResidencySlot,
\* SpawnReservation), its eviction candidate, and for a resume or a close
\* the agent it was called for, what is left of the tree, and what
\* close_agent read first.
Op ==
    [kind : {"none", "spawn", "message", "resume", "close", "unload"}, pc : PC,
     agent : Agent \cup {Nobody}, exp : 0..MaxInc, slot : BOOLEAN, spot : BOOLEAN,
     cand : Agent \cup {Nobody}, cexp : 0..MaxInc, left : Nat,
     target : Agent \cup {Nobody}, todo : SUBSET Agent,
     known : BOOLEAN, inc0 : 0..MaxInc, miss : BOOLEAN]

Idle ==
    [kind |-> "none", pc |-> "idle", agent |-> Nobody, exp |-> None,
     slot |-> FALSE, spot |-> FALSE, cand |-> Nobody, cexp |-> None, left |-> 0,
     target |-> Nobody, todo |-> {}, known |-> FALSE, inc0 |-> None, miss |-> FALSE]

Start(kind, a, pc) == [Idle EXCEPT !.kind = kind, !.agent = a, !.pc = pc]

V2 == layout.version = "V2"
Key(a) == layout.key[a]
Children(p) == {a \in Agent : layout.parent[a] = p}

\* agent_metadata_for_thread(a).is_some()
Known(a) == tree[Key(a)] = a

\* get_thread(a).is_ok()
Loaded(a) == rt[a] # None
Loop(a, i) == IF i = None THEN "none" ELSE run[a][i]

\* CodexThread::is_running of the registered runtime
Running(a) == Loop(a, rt[a]) \notin {"none", "dead"}

\* Something fails, within the bound.
Fault == faults < layout.faults /\ faults' = faults + 1

Init ==
    /\ layout \in Layouts
    /\ edge = [a \in Agent |-> "none"]
    /\ rt = [a \in Agent |-> None]
    /\ latest = [a \in Agent |-> 0]
    /\ run = [a \in Agent |-> [i \in Inc |-> "none"]]
    /\ tree = [a \in Agent |-> Free]
    /\ count = 0
    /\ residents = <<>>
    /\ pending = 0
    /\ call = [k \in Caller |-> Idle]
    /\ cut = {} /\ stray = {}
    /\ faults = 0

-----------------------------------------------------------------------------
(* Updates shared by the operations.                                       *)

\* retain(|id| *id != a): a resident is in the queue once.
Without(s, a) ==
    IF \E i \in DOMAIN s : s[i] = a
    THEN LET i == CHOOSE i \in DOMAIN s : s[i] = a
         IN [j \in 1..(Len(s) - 1) |-> s[IF j < i THEN j ELSE j + 1]]
    ELSE s

\* Mutant: a resident that is touched again is queued twice.
TouchTwice(s, a) == Append(s, a)

\* touch_resident
Touch(s, a) == Append(Without(s, a), a)

\* insert_thread_spawn_edge_if_absent: every write of a thread's metadata,
\* which follows each append to its rollout, opens an edge that is missing.
EdgeIfAbsent(a) == IF edge[a] = "none" THEN [edge EXCEPT ![a] = "open"] ELSE edge

\* Op::Shutdown reaches the loop of incarnation i, if it still runs.
Stopped(a, i) ==
    IF run[a][i] = "dead" THEN run ELSE [run EXCEPT ![a][i] = "stop"]

\* Mutant: nobody waits for the loop.
ExitedAssumed(a, i) == TRUE

\* session_loop_termination of incarnation i.
Exited(a, i) == run[a][i] = "dead"

\* What is left of an operation that failed while working on one agent: a
\* resume goes on with the other descendants, anything else returns.
Failed(c) ==
    IF c.todo = {} THEN Idle
    ELSE [Start("resume", Nobody, "descend") EXCEPT !.todo = c.todo]

\* Mutant: dropping the residency slot does not give the place back.
DropReservationOnly(c) ==
    /\ count' = IF c.spot THEN count - 1 ELSE count
    /\ tree' = IF c.spot /\ tree[Key(c.agent)] = Reserved
               THEN [tree EXCEPT ![Key(c.agent)] = Free] ELSE tree
    /\ UNCHANGED pending

\* Drop of V2ResidencySlot and of SpawnReservation.
DropGuards(c) ==
    /\ pending' = IF c.slot THEN pending - 1 ELSE pending
    /\ count' = IF c.spot THEN count - 1 ELSE count
    /\ tree' = IF c.spot /\ tree[Key(c.agent)] = Reserved
               THEN [tree EXCEPT ![Key(c.agent)] = Free] ELSE tree

\* Mutant: the count is not given back.
UnregisterUncounted(a) ==
    /\ tree' = IF Known(a) THEN [tree EXCEPT ![Key(a)] = Free] ELSE tree
    /\ UNCHANGED count

\* release_spawned_thread
Unregister(a) ==
    /\ tree' = IF Known(a) THEN [tree EXCEPT ![Key(a)] = Free] ELSE tree
    /\ count' = IF Known(a) THEN count - 1 ELSE count

\* The operation of caller k goes on as c.
Becomes(k, c) == call' = [call EXCEPT ![k] = c]

Goto(k, pc) == Becomes(k, [call[k] EXCEPT !.pc = pc])

\* The agent of a spawn that ends before its commit, if it has an edge.
Strays(c) ==
    IF /\ c.kind = "spawn" /\ edge[c.agent] # "none"
       /\ c.pc \in {"finalize", "persist", "store", "undo", "rollback"}
    THEN {c.agent} ELSE {}

\* An operation fails: it drops its guards and returns.
Fail(k) ==
    /\ DropGuards(call[k])
    /\ Becomes(k, Failed(call[k]))
    /\ stray' = stray \cup Strays(call[k])

-----------------------------------------------------------------------------
(* Operations begin.                                                       *)

\* spawn_agent by the root or by a turn of a running agent; a new thread id.
Spawn(k, a) ==
    /\ call[k] = Idle
    /\ latest[a] = 0 /\ edge[a] = "none"
    /\ \A j \in Caller : call[j].agent # a
    /\ layout.parent[a] \in {Root} \cup {p \in Agent : Loaded(p) /\ run[p][rt[p]] = "busy"}
    /\ Becomes(k, Start("spawn", a, IF V2 THEN "reserve" ELSE "register"))
    /\ UNCHANGED <<layout, edge, runtimeVars, registryVars, residencyVars, history, faults>>

\* send_message or followup_task (V2): the agent is known; a loaded runtime
\* is touched, any other one is reloaded first.
MessageV2(k, a) ==
    /\ V2 /\ call[k] = Idle /\ Known(a)
    /\ IF Loaded(a)
       THEN /\ residents' = Touch(residents, a)
            /\ Becomes(k, Start("message", a, "fetch"))
       ELSE /\ Becomes(k, Start("message", a, "reserve"))
            /\ UNCHANGED residents
    /\ UNCHANGED <<layout, edge, runtimeVars, registryVars, pending, history, faults>>

\* send_input (V1): the runtime is captured once.
MessageV1(k, a) ==
    /\ ~V2 /\ call[k] = Idle /\ Loaded(a)
    /\ Becomes(k, [Start("message", a, "submit") EXCEPT !.exp = rt[a]])
    /\ UNCHANGED <<layout, edge, runtimeVars, registryVars, residencyVars, history, faults>>

\* resume_agent (V1 tool): only an agent whose status is NotFound.
Resume(k, a) ==
    /\ ~V2 /\ call[k] = Idle /\ ~Loaded(a) /\ edge[a] # "none"
    /\ Becomes(k, Start("resume", a, "register"))
    /\ UNCHANGED <<layout, edge, runtimeVars, registryVars, residencyVars, history, faults>>

\* live_thread_spawn_descendants: reached through loaded runtimes only.
LiveDescendants(a) ==
    {b \in Agent : \A S \in SUBSET Agent :
        (\A d \in Agent : Loaded(d) /\ layout.parent[d] \in S \cup {a} => d \in S)
        => b \in S}

\* close_agent (V1 tool): what is known is read before anything is stopped.
Close(k, a) ==
    /\ ~V2 /\ call[k] = Idle
    /\ Known(a) \/ Loaded(a)
    /\ Becomes(k, [Start("close", a, "target") EXCEPT
                     !.target = a, !.known = Known(a), !.inc0 = latest[a],
                     !.todo = LiveDescendants(a)])
    /\ UNCHANGED <<layout, edge, runtimeVars, registryVars, residencyVars, history, faults>>

\* unload_thread_without_subscribers: an idle runtime.
Unload(k, a) ==
    /\ call[k] = Idle
    /\ Loaded(a) /\ run[a][rt[a]] \in {"init", "done"}
    /\ Becomes(k, [Start("unload", Nobody, "evict") EXCEPT !.cand = a, !.cexp = rt[a]])
    /\ UNCHANGED <<layout, edge, runtimeVars, registryVars, residencyVars, history, faults>>

-----------------------------------------------------------------------------
(* V2 residency: reserving a slot, evicting to make room.                  *)

\* The candidate pop_lru_candidate protects: the agent being reloaded.
Protected(c) == IF c.kind = "message" THEN c.agent ELSE Nobody

\* reserve_slot: try_reserve_pending_slot found room.
ReserveSlot(k) ==
    /\ call[k].pc = "reserve"
    /\ Len(residents) + pending < layout.capacity
    /\ pending' = pending + 1
    /\ Becomes(k, [call[k] EXCEPT !.slot = TRUE,
                     !.pc = IF call[k].kind = "spawn" THEN "register" ELSE "load"])
    /\ UNCHANGED <<layout, edge, runtimeVars, registryVars, residents, history, faults>>

\* It found none: try_unload_one_resident scans as many as there are now.
NoRoom(k) ==
    /\ call[k].pc = "reserve"
    /\ Len(residents) + pending >= layout.capacity
    /\ Becomes(k, [call[k] EXCEPT !.pc = "scan", !.left = Len(residents)])
    /\ UNCHANGED <<layout, edge, runtimeVars, registryVars, residencyVars, history, faults>>

\* pop_lru_candidate: the first resident that is not protected leaves the
\* queue; a protected one in front of it moves to the back.
PopLru(k) ==
    LET c == call[k]
        i == IF residents[1] = Protected(c) THEN 2 ELSE 1
    IN /\ c.pc = "scan" /\ c.left > 0
       /\ residents # <<>> /\ i <= Len(residents)
       /\ residents' = IF i = 1 THEN Tail(residents)
                       ELSE Append(Tail(Tail(residents)), residents[1])
       /\ Becomes(k, [c EXCEPT !.pc = "check", !.cand = residents[i], !.left = c.left - 1])
       /\ UNCHANGED <<layout, edge, runtimeVars, registryVars, pending, history, faults>>

\* No candidate is left: AgentLimitReached.
LimitReached(k) ==
    /\ call[k].pc = "scan"
    /\ \/ call[k].left = 0
       \/ \A i \in DOMAIN residents : residents[i] = Protected(call[k])
    /\ Fail(k)
    /\ UNCHANGED <<layout, edge, runtimeVars, residents, cut, faults>>

\* is_unloadable: idle after a turn, no mail and no join state.
Unloadable(a) == Loaded(a) /\ run[a][rt[a]] = "done"

\* Mutant: a candidate that is not idle does not go back to the queue.
RequeueNothing(a) == UNCHANGED residents

\* A loaded candidate that cannot be unloaded goes to the back of the queue;
\* one that is no longer loaded stays out of it.
Requeue(a) ==
    residents' = IF Loaded(a) /\ ~Unloadable(a) THEN Touch(residents, a) ELSE residents

\* get_thread and is_unloadable on the candidate.
CheckCandidate(k) ==
    LET c == call[k]
    IN /\ c.pc = "check"
       /\ Requeue(c.cand)
       /\ Becomes(k, IF Unloadable(c.cand)
                     THEN [c EXCEPT !.pc = "evict", !.cexp = rt[c.cand]]
                     ELSE [c EXCEPT !.pc = "scan", !.cand = Nobody])
       /\ UNCHANGED <<layout, edge, runtimeVars, registryVars, pending, history, faults>>

\* shutdown_and_wait, for an eviction or an unload by the app server.
SubmitShutdown(k) ==
    /\ call[k].pc = "evict"
    /\ run' = Stopped(call[k].cand, call[k].cexp)
    /\ Goto(k, "unload")
    /\ UNCHANGED <<layout, edge, rt, latest, registryVars, residencyVars, history, faults>>

\* The loop has exited: remove_runtime_if_matches.  An eviction tries to
\* reserve again, whether or not it removed the runtime.
RemoveUnloaded(k) ==
    LET c == call[k]
    IN /\ c.pc = "unload"
       /\ Exited(c.cand, c.cexp)
       /\ rt' = IF rt[c.cand] = c.cexp THEN [rt EXCEPT ![c.cand] = None] ELSE rt
       /\ Becomes(k, IF c.kind = "unload" THEN Idle
                     ELSE [c EXCEPT !.pc = "reserve", !.cand = Nobody, !.cexp = None,
                                    !.left = 0])
       /\ UNCHANGED <<layout, edge, latest, run, registryVars, residencyVars, history, faults>>

\* wait_for_thread_shutdown gives up after ten seconds: the thread stays
\* loaded.
UnloadTimeout(k) ==
    /\ Fault
    /\ call[k].pc = "unload" /\ call[k].kind = "unload"
    /\ Becomes(k, Idle)
    /\ UNCHANGED <<layout, edge, runtimeVars, registryVars, residencyVars, history>>

-----------------------------------------------------------------------------
(* Spawning, resuming and reloading a runtime.                             *)

\* Mutant: a path that is taken may be registered again.
MayRegisterAny(a) == V2 \/ count < MaxThreads

\* reserve_spawn_slot and reserve_agent_path.  V1 counts against the limit,
\* V2 only against the path.
MayRegister(a) == IF V2 THEN tree[Key(a)] = Free ELSE count < MaxThreads

Register(k) ==
    LET c == call[k]
    IN /\ c.pc = "register" /\ MayRegister(c.agent)
       /\ count' = count + 1
       /\ tree' = IF V2 THEN [tree EXCEPT ![Key(c.agent)] = Reserved] ELSE tree
       /\ Becomes(k, [c EXCEPT !.spot = TRUE,
                        !.pc = IF c.kind = "spawn" THEN "construct" ELSE "load"])
       /\ UNCHANGED <<layout, edge, runtimeVars, residencyVars, history, faults>>

RegisterFails(k) ==
    /\ call[k].pc = "register" /\ ~MayRegister(call[k].agent)
    /\ Fail(k)
    /\ UNCHANGED <<layout, edge, runtimeVars, residents, cut, faults>>

\* Where an operation goes once it has its runtime.
AfterLoad(c) == IF c.kind = "message" THEN "commit" ELSE "persist"

\* spawn_thread with a resumed history: a running runtime is used as it is, a
\* dead one leaves the map.
Load(k) ==
    LET c == call[k]
    IN /\ c.pc = "load"
       /\ IF Running(c.agent)
          THEN /\ Becomes(k, [c EXCEPT !.exp = rt[c.agent], !.pc = AfterLoad(c)])
               /\ UNCHANGED rt
          ELSE /\ rt' = [rt EXCEPT ![c.agent] = None]
               /\ Goto(k, "finalize")
       /\ UNCHANGED <<layout, edge, latest, run, registryVars, residencyVars, history, faults>>

\* Session::new of a spawned thread.  One that inherits history (forked)
\* appends it to its rollout, which opens the spawn edge; a new thread writes
\* nothing before its first turn, and an append that fails is only logged.
Construct(k) ==
    LET c == call[k]
    IN /\ c.pc = "construct"
       /\ \E forked \in BOOLEAN : edge' = IF forked THEN EdgeIfAbsent(c.agent) ELSE edge
       /\ Goto(k, "finalize")
       /\ UNCHANGED <<layout, runtimeVars, registryVars, residencyVars, history, faults>>

\* finalize_thread_spawn under the registration fence: a vacant entry gets
\* the new incarnation.
Finalize(k) ==
    LET c == call[k]
        a == c.agent
        i == latest[a] + 1
    IN /\ c.pc = "finalize" /\ ~Loaded(a) /\ i \in Inc /\ i <= layout.loads[a]
       /\ latest' = [latest EXCEPT ![a] = i]
       /\ rt' = [rt EXCEPT ![a] = i]
       /\ run' = [run EXCEPT ![a][i] = "init"]
       /\ Becomes(k, [c EXCEPT !.exp = i, !.pc = AfterLoad(c)])
       /\ UNCHANGED <<layout, edge, registryVars, residencyVars, history, faults>>

\* An occupied entry: the duplicate is shut down.  A resume fails; a reload
\* drops its slot and goes on with the runtime it finds.
FinalizeDuplicate(k) ==
    LET c == call[k]
    IN /\ c.pc = "finalize" /\ Loaded(c.agent)
       /\ IF c.kind = "message"
          THEN /\ Goto(k, "drain") /\ UNCHANGED <<registryVars, pending, stray>>
          ELSE Fail(k)
       /\ UNCHANGED <<layout, edge, runtimeVars, residents, cut, faults>>

\* ensure_v2_agent_loaded after a failed reload.
UseLoaded(k) ==
    LET c == call[k]
    IN /\ c.pc = "drain"
       /\ IF Loaded(c.agent)
          THEN /\ pending' = pending - 1
               /\ residents' = Touch(residents, c.agent)
               /\ Becomes(k, Start("message", c.agent, "fetch"))
               /\ UNCHANGED <<registryVars, stray>>
          ELSE Fail(k) /\ UNCHANGED residents
       /\ UNCHANGED <<layout, edge, runtimeVars, cut, faults>>

\* persist_thread_spawn_edge_for_source: the runtime is still registered.
CheckRuntime(k) ==
    LET c == call[k]
    IN /\ c.pc = "persist" /\ rt[c.agent] = c.exp
       /\ Goto(k, "store")
       /\ UNCHANGED <<layout, edge, runtimeVars, registryVars, residencyVars,
                      history, faults>>

\* It was unloaded, closed or replaced: an error, with nothing to roll back.
CheckRuntimeFails(k) ==
    LET c == call[k]
    IN /\ c.pc = "persist" /\ rt[c.agent] # c.exp
       /\ Fail(k)
       /\ UNCHANGED <<layout, edge, runtimeVars, residents, cut, faults>>

\* persist_open_spawn_edge_if_matches.
Persist(k) ==
    LET c == call[k]
    IN /\ c.pc = "store" /\ rt[c.agent] = c.exp /\ latest[c.agent] = c.exp
       /\ edge' = [edge EXCEPT ![c.agent] = "open"]
       /\ Goto(k, "commit")
       /\ UNCHANGED <<layout, runtimeVars, registryVars, residencyVars, history, faults>>

\* The runtime changed or the store fails: the edge stays as it is, open
\* where the construction opened it, and the runtime leaves the map.
PersistFails(k) ==
    LET c == call[k]
        a == c.agent
    IN /\ c.pc = "store"
       /\ IF rt[a] = c.exp /\ latest[a] = c.exp THEN Fault ELSE UNCHANGED faults
       /\ rt' = IF rt[a] = c.exp THEN [rt EXCEPT ![a] = None] ELSE rt
       /\ Goto(k, "undo")
       /\ UNCHANGED <<layout, edge, latest, run, registryVars, residencyVars, history>>

\* The runtime is told to stop; the guards are kept until its loop has exited.
Undo(k) ==
    LET c == call[k]
    IN /\ c.pc = "undo"
       /\ run' = Stopped(c.agent, c.exp)
       /\ Goto(k, "rollback")
       /\ UNCHANGED <<layout, edge, rt, latest, registryVars, residencyVars,
                      history, faults>>

RolledBack(k) ==
    LET c == call[k]
    IN /\ c.pc = "rollback" /\ Exited(c.agent, c.exp)
       /\ Fail(k)
       /\ UNCHANGED <<layout, edge, runtimeVars, residents, cut, faults>>

\* SpawnReservation::commit and V2ResidencySlot::commit.  A V1 spawn or a
\* message goes on to send its input; a resume to the open children.
Commit(k) ==
    LET c == call[k]
        open == {b \in Children(c.agent) : edge[b] = "open"}
    IN /\ c.pc = "commit"
       /\ tree' = IF c.spot THEN [tree EXCEPT ![Key(c.agent)] = c.agent] ELSE tree
       /\ pending' = IF c.slot THEN pending - 1 ELSE pending
       /\ residents' = IF c.slot THEN Touch(residents, c.agent) ELSE residents
       /\ Becomes(k, IF c.kind = "resume"
                     THEN [Start("resume", Nobody, "descend") EXCEPT
                             !.todo = c.todo \cup open]
                     ELSE Start(c.kind, c.agent, "fetch"))
       /\ UNCHANGED <<layout, edge, runtimeVars, count, history, faults>>

\* resume_agent_from_rollout on the next open descendant: one that is loaded
\* passes its own children on, any other one is resumed.
Descend(k, b) ==
    LET c == call[k]
        rest == c.todo \ {b}
    IN /\ c.pc = "descend" /\ b \in c.todo
       /\ Becomes(k, IF Loaded(b)
                     THEN [c EXCEPT !.todo = rest \cup {d \in Children(b) : edge[d] = "open"}]
                     ELSE [Start("resume", b, "register") EXCEPT !.todo = rest])
       /\ UNCHANGED <<layout, edge, runtimeVars, registryVars, residencyVars, history, faults>>

Resumed(k) ==
    /\ call[k].pc = "descend" /\ call[k].todo = {}
    /\ Becomes(k, Idle)
    /\ UNCHANGED <<layout, edge, runtimeVars, registryVars, residencyVars, history, faults>>

-----------------------------------------------------------------------------
(* Sending to a runtime, and the cleanup when it turns out to be dead.     *)

\* submit_inter_agent_communication (V2) and send_input (V1): the runtime in
\* the map is the expected one; V1 needs one.
Fetch(k) ==
    LET c == call[k]
    IN /\ c.pc = "fetch"
       /\ Becomes(k, IF V2 \/ Loaded(c.agent)
                     THEN [c EXCEPT !.exp = rt[c.agent], !.pc = "submit"] ELSE Idle)
       /\ UNCHANGED <<layout, edge, runtimeVars, registryVars, residencyVars, history, faults>>

\* The runtime the input goes to: V2 looks the thread up again (send_op).
Receiver(c) == IF V2 THEN rt[c.agent] ELSE c.exp

\* The input is queued.  Behind a queued Shutdown, V2's is lost and V1 waits
\* for an answer that the exit of the loop turns into InternalAgentDied.
Submit(k) ==
    LET c == call[k]
        i == Receiver(c)
        s == Loop(c.agent, i)
    IN /\ c.pc = "submit" /\ s \notin {"none", "dead"}
       /\ s = "stop" => V2
       /\ run' = IF s = "stop" THEN run ELSE [run EXCEPT ![c.agent][i] = "busy"]
       /\ Becomes(k, Idle)
       /\ UNCHANGED <<layout, edge, rt, latest, registryVars, residencyVars, history, faults>>

\* ThreadNotFound (V2), or InternalAgentDied: the latter with an expected
\* runtime goes on to the raw-death cleanup.
SubmitFails(k) ==
    LET c == call[k]
        i == Receiver(c)
    IN /\ c.pc = "submit"
       /\ Loop(c.agent, i) \in {"none", "dead"}
       /\ Becomes(k, IF i # None /\ c.exp # None THEN [c EXCEPT !.pc = "died"] ELSE Idle)
       /\ UNCHANGED <<layout, edge, runtimeVars, registryVars, residencyVars, history, faults>>

\* Mutant: the incarnation is not compared.
MayCloseAny(a, i) == edge[a] # "none"

\* close_spawn_edge_and_remove_if_matches goes ahead: i is the latest
\* incarnation and the store has an edge to close.
MayClose(a, i) == latest[a] = i /\ edge[a] # "none"

\* The close itself: the edge durably first, then exactly this runtime.
CloseEdge(a, i) ==
    /\ edge' = [edge EXCEPT ![a] = "closed"]
    /\ rt' = IF rt[a] = i THEN [rt EXCEPT ![a] = None] ELSE rt

\* handle_thread_request_result: the agent died.
CleanUp(k) ==
    LET c == call[k]
    IN /\ c.pc = "died" /\ MayClose(c.agent, c.exp)
       /\ CloseEdge(c.agent, c.exp)
       /\ Becomes(k, [c EXCEPT !.pc = "release", !.exp = None])
       /\ UNCHANGED <<layout, latest, run, registryVars, residencyVars, history, faults>>

\* A changed generation, a missing edge or a failing store: nothing happens.
CleanUpFails(k) ==
    /\ call[k].pc = "died"
    /\ IF MayClose(call[k].agent, call[k].exp) THEN Fault ELSE UNCHANGED faults
    /\ Becomes(k, Idle)
    /\ UNCHANGED <<layout, edge, runtimeVars, registryVars, residencyVars, history>>

\* forget_v2_residency and release_spawned_thread, by thread id.
Release(k) ==
    LET c == call[k]
        a == c.agent
    IN /\ c.pc = "release"
       /\ residents' = Without(residents, a)
       /\ Unregister(a)
       /\ Becomes(k, IF c.kind = "close" THEN [c EXCEPT !.pc = "next"] ELSE Idle)
       /\ UNCHANGED <<layout, edge, runtimeVars, pending, history, faults>>

-----------------------------------------------------------------------------
(* Closing an agent and its live descendants (V1).                         *)

\* shutdown_live_agent_with_removal_mode: the runtime it will remove.
Target(k) ==
    LET c == call[k]
    IN /\ c.pc = "target"
       /\ Becomes(k, [c EXCEPT !.exp = rt[c.agent],
                        !.pc = IF Loaded(c.agent) THEN "flush" ELSE "shut"])
       /\ UNCHANGED <<layout, edge, runtimeVars, registryVars, residencyVars, history, faults>>

\* Its rollout is materialized first, which opens an edge that is missing.
Flush(k) ==
    /\ call[k].pc = "flush"
    /\ edge' = EdgeIfAbsent(call[k].agent)
    /\ Goto(k, "shut")
    /\ UNCHANGED <<layout, runtimeVars, registryVars, residencyVars, history, faults>>

\* What an error in the shutdown of the current agent leaves to do: after the
\* target the descendants, after a descendant nothing.
AfterError(c) == IF c.agent = c.target THEN c.todo ELSE {}

\* flush_rollout fails, and the runtime is left alone.
FlushFails(k) ==
    LET c == call[k]
    IN /\ Fault
       /\ c.pc = "flush"
       /\ Becomes(k, [c EXCEPT !.pc = "next", !.exp = None, !.miss = FALSE,
                        !.todo = AfterError(c)])
       /\ UNCHANGED <<layout, edge, runtimeVars, registryVars, residencyVars, history>>

\* Op::Shutdown goes to the runtime found under the id now, unless the
\* expected one is already shut down.  miss: the target was not found.  A
\* runtime that died instead is an error.
Shut(k) ==
    LET c == call[k]
        a == c.agent
        skip == c.exp # None /\ run[a][c.exp] = "dead"
        died == ~skip /\ Loop(a, rt[a]) = "dead"
    IN /\ c.pc = "shut"
       /\ run' = IF skip \/ ~Loaded(a) THEN run ELSE Stopped(a, rt[a])
       /\ Becomes(k, [c EXCEPT !.pc = IF c.exp = None THEN "next" ELSE "halt",
                        !.miss = IF a = c.target THEN ~skip /\ ~Loaded(a)
                                 ELSE c.miss /\ ~died,
                        !.todo = IF died THEN AfterError(c) ELSE c.todo])
       /\ UNCHANGED <<layout, edge, rt, latest, registryVars, residencyVars, history, faults>>

\* wait_until_terminated; a descendant (PreserveSpawnEdge) only leaves the
\* map, and the registry if it was still there.
Halt(k) ==
    LET c == call[k]
        a == c.agent
        sub == a # c.target
        mine == rt[a] = c.exp
    IN /\ c.pc = "halt" /\ Exited(a, c.exp)
       /\ rt' = IF sub /\ mine THEN [rt EXCEPT ![a] = None] ELSE rt
       /\ Becomes(k, [c EXCEPT
                        !.pc = IF ~sub THEN "close" ELSE IF mine THEN "release" ELSE "next",
                        !.exp = IF sub THEN None ELSE @])
       /\ UNCHANGED <<layout, edge, latest, run, registryVars, residencyVars, history, faults>>

\* The target (CloseSpawnEdge): a task of its own closes the edge.
CommitClose(k) ==
    LET c == call[k]
    IN /\ c.pc = "close" /\ MayClose(c.agent, c.exp)
       /\ CloseEdge(c.agent, c.exp)
       /\ Becomes(k, [c EXCEPT !.pc = "release", !.exp = None])
       /\ UNCHANGED <<layout, latest, run, registryVars, residencyVars, history, faults>>

\* A changed generation, a missing edge or a failing store is an error.
CommitCloseFails(k) ==
    /\ call[k].pc = "close"
    /\ IF MayClose(call[k].agent, call[k].exp) THEN Fault ELSE UNCHANGED faults
    /\ Becomes(k, [call[k] EXCEPT !.pc = "next", !.exp = None, !.miss = FALSE])
    /\ UNCHANGED <<layout, edge, runtimeVars, registryVars, residencyVars, history>>

\* The next descendant of the snapshot.
NextDescendant(k, b) ==
    LET c == call[k]
    IN /\ c.pc = "next" /\ b \in c.todo
       /\ Becomes(k, [c EXCEPT !.agent = b, !.todo = c.todo \ {b}, !.pc = "target"])
       /\ UNCHANGED <<layout, edge, runtimeVars, registryVars, residencyVars, history, faults>>

\* All are done.  A known target that was not loaded still has its edge.
Closed(k) ==
    LET c == call[k]
    IN /\ c.pc = "next" /\ c.todo = {}
       /\ Becomes(k, IF c.miss /\ c.known
                     THEN [c EXCEPT !.pc = "stale", !.agent = c.target, !.exp = None]
                     ELSE Idle)
       /\ UNCHANGED <<layout, edge, runtimeVars, registryVars, residencyVars, history, faults>>

\* Mutant: the incarnation read at the start is not compared.
MayCloseStaleAny(c) == edge[c.agent] # "none"

\* close_stale_spawn_edge goes ahead: no incarnation since close_agent began.
MayCloseStale(c) == latest[c.agent] = c.inc0 /\ edge[c.agent] # "none"

CloseStale(k) ==
    LET c == call[k]
    IN /\ c.pc = "stale" /\ MayCloseStale(c)
       /\ edge' = [edge EXCEPT ![c.agent] = "closed"]
       /\ Becomes(k, [c EXCEPT !.pc = "release", !.miss = FALSE])
       /\ UNCHANGED <<layout, runtimeVars, registryVars, residencyVars, history, faults>>

CloseStaleFails(k) ==
    /\ call[k].pc = "stale"
    /\ IF MayCloseStale(call[k]) THEN Fault ELSE UNCHANGED faults
    /\ Becomes(k, Idle)
    /\ UNCHANGED <<layout, edge, runtimeVars, registryVars, residencyVars, history>>

-----------------------------------------------------------------------------
(* Session loops, cancellation, crash.                                     *)

\* A turn appends to the rollout, which opens an edge that is missing.
AppendTurn(a, i) ==
    /\ run[a][i] = "busy" /\ edge[a] = "none"
    /\ edge' = EdgeIfAbsent(a)
    /\ UNCHANGED <<layout, runtimeVars, registryVars, residencyVars, call, history, faults>>

\* The turn of a runtime ends, and nothing is left in its queue.
TurnEnds(a, i) ==
    /\ run[a][i] = "busy"
    /\ run' = [run EXCEPT ![a][i] = "done"]
    /\ UNCHANGED <<layout, edge, rt, latest, registryVars, residencyVars, call, history, faults>>

\* The loop handles Op::Shutdown and exits.
LoopExits(a, i) ==
    /\ run[a][i] = "stop"
    /\ run' = [run EXCEPT ![a][i] = "dead"]
    /\ UNCHANGED <<layout, edge, rt, latest, registryVars, residencyVars, call, history, faults>>

\* The agent a cancelled operation leaves half done: a runtime nobody
\* registered, or an eviction candidate that is no longer in the queue.
LeftBehind(c) ==
    CASE c.pc \in {"persist", "store", "rollback", "commit"} -> {c.agent}
      [] c.pc \in {"check", "evict", "unload"} -> {c.cand}
      [] OTHER -> {}

\* The turn a tool call belongs to is interrupted, so the call is aborted at
\* an await.  Between persist and commit there is none for a spawn, nor
\* before a release or an undo; the close of a target runs in a task of its
\* own.
Cancel(k) ==
    LET c == call[k]
    IN /\ Fault
       /\ c.kind \notin {"none", "unload"}
       /\ c.pc \notin {"close", "release", "undo"}
       /\ c.pc = "commit" => c.kind = "message"
       /\ DropGuards(c)
       /\ Becomes(k, Idle)
       /\ cut' = cut \cup LeftBehind(c)
       /\ stray' = stray \cup Strays(c)
       /\ UNCHANGED <<layout, edge, runtimeVars, residents>>

\* The close of a target outlives its caller.
Detach(k) ==
    LET c == call[k]
    IN /\ Fault
       /\ c.kind = "close" /\ c.agent = c.target /\ c.pc \in {"close", "release"}
       /\ c.todo # {} \/ c.miss
       /\ Becomes(k, [c EXCEPT !.todo = {}, !.miss = FALSE])
       /\ UNCHANGED <<layout, edge, runtimeVars, registryVars, residencyVars, history>>

\* Cancelled while the store writes: the edge changes and nothing else does.
CancelInStore(k) ==
    LET c == call[k]
    IN /\ Fault
       /\ \/ /\ c.pc = "store" /\ rt[c.agent] = c.exp /\ latest[c.agent] = c.exp
             /\ edge' = [edge EXCEPT ![c.agent] = "open"]
          \/ /\ c.pc = "died" /\ MayClose(c.agent, c.exp)
             /\ edge' = [edge EXCEPT ![c.agent] = "closed"]
          \/ /\ c.pc = "stale" /\ MayCloseStale(c)
             /\ edge' = [edge EXCEPT ![c.agent] = "closed"]
       /\ DropGuards(c)
       /\ Becomes(k, Idle)
       /\ cut' = cut \cup {c.agent}
       /\ stray' = IF c.pc = "store" /\ c.kind = "spawn" THEN stray \cup {c.agent} ELSE stray
       /\ UNCHANGED <<layout, runtimeVars, residents>>

\* list_thread_spawn_descendants(Open) of the root: reached through open edges.
OpenDescendants ==
    {b \in Agent : \A S \in SUBSET Agent :
        (\A d \in Agent : edge[d] = "open" /\ layout.parent[d] \in S \cup {Root} => d \in S)
        => b \in S}

\* Mutant: closed edges are restored as well.
RestorableClosed(S) ==
    /\ \A a \in S : edge[a] # "none"
    /\ \A a, b \in S : Key(a) = Key(b) => a = b

\* Mutant: only the children of the root are restored.
RestorableTop(S) ==
    /\ \A a \in S : edge[a] = "open" /\ layout.parent[a] = Root
    /\ \A a, b \in S : Key(a) = Key(b) => a = b

\* Agents that can be restored together: each has its own path.
Restorable(S) ==
    /\ S \subseteq OpenDescendants
    /\ \A a, b \in S : Key(a) = Key(b) => a = b

\* The process stops and the session is resumed.  V2 restores the registry
\* from the open edges before the root thread runs (restore_v2_agent_metadata;
\* a path that is taken fails that agent only); V1 starts empty.
Crash ==
    /\ Fault
    /\ rt' = [a \in Agent |-> None]
    /\ latest' = [a \in Agent |-> 0]
    /\ run' = [a \in Agent |-> [i \in Inc |-> "none"]]
    /\ residents' = <<>> /\ pending' = 0
    /\ call' = [k \in Caller |-> Idle]
    /\ cut' = {a \in cut : edge[a] # "none"}
    /\ IF V2
       THEN \E S \in SUBSET Agent :
              /\ Restorable(S)
              /\ \A T \in SUBSET Agent : S \subseteq T /\ Restorable(T) => T = S
              /\ tree' = [x \in Agent |->
                    IF \E a \in S : Key(a) = x
                    THEN CHOOSE a \in S : Key(a) = x ELSE Free]
              /\ count' = Cardinality(S)
       ELSE tree' = [x \in Agent |-> Free] /\ count' = 0
    /\ UNCHANGED <<layout, edge, stray>>

Begin(k) ==
    \E a \in Agent :
        \/ Spawn(k, a) \/ MessageV2(k, a) \/ MessageV1(k, a)
        \/ Resume(k, a) \/ Close(k, a) \/ Unload(k, a)

Step(k) ==
    \/ ReserveSlot(k) \/ NoRoom(k) \/ PopLru(k) \/ LimitReached(k)
    \/ CheckCandidate(k) \/ SubmitShutdown(k) \/ RemoveUnloaded(k)
    \/ Register(k) \/ RegisterFails(k) \/ Load(k) \/ Construct(k) \/ Finalize(k)
    \/ FinalizeDuplicate(k) \/ UseLoaded(k) \/ CheckRuntime(k)
    \/ CheckRuntimeFails(k) \/ Persist(k) \/ PersistFails(k) \/ Undo(k)
    \/ RolledBack(k) \/ Commit(k) \/ Resumed(k)
    \/ Fetch(k) \/ Submit(k) \/ SubmitFails(k) \/ CleanUp(k) \/ CleanUpFails(k)
    \/ Release(k) \/ Target(k) \/ Flush(k) \/ FlushFails(k) \/ Shut(k) \/ Halt(k)
    \/ CommitClose(k) \/ CommitCloseFails(k) \/ Closed(k) \/ CloseStale(k)
    \/ CloseStaleFails(k)
    \/ \E b \in Agent : Descend(k, b) \/ NextDescendant(k, b)

Next ==
    \/ \E k \in Caller :
          Begin(k) \/ Step(k) \/ UnloadTimeout(k) \/ Cancel(k) \/ Detach(k)
          \/ CancelInStore(k)
    \/ \E a \in Agent, i \in Inc :
          AppendTurn(a, i) \/ TurnEnds(a, i) \/ LoopExits(a, i)
    \/ Crash

Spec == Init /\ [][Next]_vars

-----------------------------------------------------------------------------
(* Properties.                                                             *)

\* Some operation is working on agent a, at one of the given steps.
At(a, pcs) == \E k \in Caller : call[k].agent = a /\ call[k].pc \in pcs

\* Every variable has its type; in particular no counter goes below zero, and
\* no agent is queued twice in V2ResidencyState.residents.
TypeOK ==
    /\ layout \in Layouts
    /\ edge \in [Agent -> {"none", "open", "closed"}]
    /\ rt \in [Agent -> 0..MaxInc] /\ latest \in [Agent -> 0..MaxInc]
    /\ run \in [Agent -> [Inc -> RunState]]
    /\ tree \in [Agent -> Agent \cup {Free, Reserved}]
    /\ count \in Nat /\ pending \in Nat
    /\ residents \in Seq(Agent)
    /\ \A i, j \in DOMAIN residents : residents[i] = residents[j] => i = j
    /\ call \in [Caller -> Op]
    /\ cut \subseteq Agent /\ stray \subseteq Agent
    /\ faults \in 0..layout.faults

\* pending_slots is the number of residency slots operations hold: whatever
\* way an operation ends, its place is given back exactly once
\* (V2ResidencySlot's commit and Drop).
PendingExact == pending = Cardinality({k \in Caller : call[k].slot})

\* total_count never falls behind the registered agents and the reservations
\* in progress, so the V1 limit cannot be passed; in V2 it is exact (V1 may
\* count an agent twice: a resume re-registers one that was only unloaded).
CountCovers ==
    LET n == Cardinality({a \in Agent : Known(a)})
             + Cardinality({k \in Caller : call[k].spot})
    IN count >= n /\ (V2 => count = n)

\* Two runtimes of one thread never run at the same time (both would write
\* its rollout): a runtime leaves the map only after its loop has exited.
\* The exception is the rollback of a failed persist, which unregisters the
\* runtime first and then waits for it.
SingleRuntime ==
    \A a \in Agent : \A i, j \in Inc :
        /\ i # j
        /\ run[a][i] \notin {"none", "dead"}
        /\ run[a][j] \notin {"none", "dead"}
        => At(a, {"undo", "rollback"}) \/ a \in cut

\* V2's registry knows an agent only while its spawn edge is open, through
\* deaths, cancellations, crashes and restores: what list_agents offers is
\* what a restart restores.  Between a durable close and the release of the
\* registry entry, and after a cancellation in that window, it lags behind.
KnownIsOpen ==
    V2 => \A a \in Agent : Known(a) /\ a \notin cut =>
              edge[a] = "open" \/ At(a, {"release"})

\* The paths of the spawns that ended early and left their edge open: one
\* cancelled, refused or failed between the construction of its session and
\* its commit.  Nothing takes the edge back, and the reservation of the path
\* is dropped.
TornPaths == {Key(a) : a \in stray}

\* V2: the registry knows every agent a restart would restore, or the spawn of
\* that agent is still under way: no death, close, eviction, cancellation of
\* any other operation or crash makes it forget an agent whose edge is open.
\* Excepted are the paths of the spawns that left an open edge behind when
\* they were cancelled, refused or failed (no fault is needed: the app server
\* unloads the new runtime before its edge is persisted); such a path is free
\* again, and the next agent competes for it.
OpenIsKnown ==
    V2 => \A a \in OpenDescendants : Key(a) \notin TornPaths =>
              \/ Known(a)
              \/ At(a, {"finalize", "persist", "store", "undo", "rollback", "commit"})

\* V2: the agents a restart would restore have different paths, so that it
\* restores all of them.  Excepted are the paths of the spawns that left an
\* open edge behind when they were cancelled, refused or failed: the next
\* spawn of that name opens a second edge with the same path.
NamesUnique ==
    V2 => \A a, b \in OpenDescendants :
              Key(a) = Key(b) /\ Key(a) \notin TornPaths => a = b

\* V2: an open agent with a runtime is in the queue of residents, or is the
\* candidate of an eviction, or its spawn or reload is about to commit it to
\* the queue and holds a slot for it: it counts against the capacity and can
\* be evicted.
Tracked ==
    V2 => \A a \in Agent : Loaded(a) /\ edge[a] = "open" /\ a \notin cut =>
              \/ \E i \in DOMAIN residents : residents[i] = a
              \/ \E k \in Caller : call[k].cand = a /\ call[k].pc \in {"check", "evict", "unload"}
              \/ At(a, {"persist", "store", "commit"})

\* V1: an agent whose edge is durably closed has no running runtime, unless a
\* resume is about to reopen the edge: close_agent stops what it closes.
ClosedIsStopped ==
    ~V2 => \A a \in Agent : edge[a] = "closed" /\ Running(a) /\ a \notin cut =>
               At(a, {"persist", "store"})

\* The runtime i of agent a is one a failed persist is about to stop.
Undoing(a, i) ==
    \E k \in Caller : call[k].agent = a /\ call[k].exp = i /\ call[k].pc = "undo"

\* A spawn edge is never closed under a runtime that was not told to stop:
\* neither the cleanup after a death, nor a close, nor a stale close that
\* raced a reload or a resume hits the replacement (the incarnation checks
\* of close_spawn_edge_and_remove_if_matches and close_stale_spawn_edge).
\* The one exception is a runtime a failed persist has unregistered and tells
\* to stop next.
CloseSparesReplacement ==
    [][\A a \in Agent : edge[a] = "open" /\ edge'[a] = "closed" =>
          \A i \in Inc : run[a][i] \in {"none", "dead", "stop"} \/ Undoing(a, i)]_vars

\* config_toml.rs: "Maximum number of spawned agent threads that can be open
\* concurrently per session."
WithinCapacity == V2 => Cardinality({a \in Agent : Running(a)}) <= layout.capacity
=============================================================================
