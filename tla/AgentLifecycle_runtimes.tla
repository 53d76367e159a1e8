---------------------- MODULE AgentLifecycle_runtimes ----------------------
(***************************************************************************)
(* Theorems about AgentLifecycle's runtimes: how the loaded runtimes, the  *)
(* durable edges and the queue of residents agree, for any session         *)
(* layouts, any number of agents and callers and any bounds.               *)
(***************************************************************************)
EXTENDS AgentLifecycle_edges

USE DEF None, history

-----------------------------------------------------------------------------
(* The inductive invariants.                                               *)

\* V1 messages go to a runtime that is there; ClosedIsStopped, with the
\* operation that is about to reopen the edge of exactly this runtime.
V1Shape(c) == c.kind = "message" => c.pc \in {"submit", "died", "release"}
Reopening(a) ==
    \E k \in Caller :
        call[k].pc \in {"persist", "store"} /\ call[k].agent = a /\ call[k].exp = rt[a]
StopInv ==
    ~V2 => /\ \A k \in Caller : V1Shape(call[k])
           /\ \A a \in Agent : edge[a] = "closed" /\ Running(a) /\ a \notin cut => Reopening(a)

\* Tracked, with the runtime an eviction is about to remove, or an operation is
\* about to queue.
Evicting(a) ==
    \E k \in Caller :
        /\ call[k].cand = a /\ call[k].kind # "unload"
        /\ \/ call[k].pc = "check"
           \/ call[k].pc \in {"evict", "unload"} /\ call[k].cexp = rt[a]
Queued(s, a) == \E i \in DOMAIN s : s[i] = a
Arriving(a) ==
    \E k \in Caller :
        /\ call[k].agent = a
        /\ \/ call[k].pc = "commit"
           \/ call[k].pc \in {"persist", "store"} /\ call[k].exp = rt[a]
TrackInv ==
    V2 => \A a \in Agent : Loaded(a) /\ edge[a] = "open" /\ a \notin cut =>
              Queued(residents, a) \/ Evicting(a) \/ Arriving(a)

\* A spawn that has not constructed its session has no runtime.
Early(c) == c.kind = "spawn" /\ c.pc \in BirthPC \ LatePC
FreshInv == V2 => \A k \in Caller : Early(call[k]) => ~Loaded(call[k].agent)

-----------------------------------------------------------------------------
(* Which steps start and stop runtimes.                                    *)

\* Op::Shutdown changes the state of a loop that has not exited, or nothing.
LEMMA StoppedLoop ==
    ASSUME NEW b, NEW n, run' = Stopped(b, n)
    PROVE  UNCHANGED run \/ (run' = [run EXCEPT ![b][n] = "stop"] /\ run[b][n] # "dead")
  BY DEF Stopped

\* A runtime enters the map by Finalize only, and no loop that has exited
\* starts again.
LEMMA RuntimeStep ==
    ASSUME IncInv, Next, ~Crash, NEW a \in Agent, Loaded(a)'
    PROVE  \/ rt'[a] = rt[a] /\ (Running(a)' => Running(a))
           \/ \E k \in Caller : Finalize(k) /\ a = call[k].agent
  <1>0. /\ rt \in [Agent -> 0..MaxInc] /\ latest \in [Agent -> 0..MaxInc] /\ MaxInc \in Nat
        /\ run \in [Agent -> [Inc -> RunState]]
    BY LifecycleBoundAssumption DEF IncInv, StateOK
  <1>1. ASSUME rt'[a] = rt[a], rt[a] \in Inc => (run[a][rt[a]] = "dead" => run'[a][rt[a]] = "dead")
        PROVE  Running(a)' => Running(a)
    <2> SUFFICES ASSUME Running(a)' PROVE Running(a)
      OBVIOUS
    <2>1. rt[a] # 0 /\ rt[a] \in 1..latest[a]
      <3>1. rt[a] # 0
        BY <1>1 DEF Loaded
      <3>2. rt[a] = latest[a] /\ latest[a] \in 0..MaxInc
        BY <1>0, <3>1 DEF IncInv, RuntimeInv
      <3> QED  BY <3>1, <3>2, <1>0
    <2>2. rt[a] \in Inc /\ ~(rt[a] > latest[a])
      BY <1>0, <2>1 DEF Inc
    <2>3. run[a][rt[a]] # "none"
      BY <2>2 DEF IncInv, RuntimeInv
    <2> QED  BY <1>1, <2>1, <2>2, <2>3 DEF Running, Loop
  <1>2. ASSUME UNCHANGED rt \/ \E b : rt' = [rt EXCEPT ![b] = 0],
               \/ UNCHANGED run
               \/ \E b, n, s : run' = [run EXCEPT ![b][n] = s] /\ (run[b][n] # "dead" \/ s = "dead")
        PROVE  rt'[a] = rt[a] /\ (Running(a)' => Running(a))
    <2>1. rt'[a] = rt[a]
      BY <1>0, <1>2 DEF Loaded
    <2>2. rt[a] \in Inc => (run[a][rt[a]] = "dead" => run'[a][rt[a]] = "dead")
      BY <1>0, <1>2
    <2> QED  BY <1>1, <2>1, <2>2
  <1>3. ASSUME NEW k \in Caller, Finalize(k), a # call[k].agent
        PROVE  rt'[a] = rt[a] /\ (Running(a)' => Running(a))
    <2>1. rt'[a] = rt[a] /\ run'[a] = run[a]
      BY <1>0, <1>3 DEF Finalize
    <2> QED  BY <1>1, <2>1
  <1>4. ASSUME NEW k \in Caller, Begin(k)
        PROVE  UNCHANGED <<rt, run>>
    BY <1>4 DEF Begin, Spawn, MessageV2, MessageV1, Resume, Close, Unload, runtimeVars
  <1>5. ASSUME NEW k \in Caller, Step(k), ~Finalize(k)
        PROVE  /\ UNCHANGED rt \/ \E b : rt' = [rt EXCEPT ![b] = 0]
               /\ \/ UNCHANGED run
                  \/ Submit(k)
                  \/ \E b, n : run' = Stopped(b, n)
    BY <1>5 DEF Step, ReserveSlot, NoRoom, PopLru, LimitReached, CheckCandidate, SubmitShutdown,
                RemoveUnloaded, Register, RegisterFails, Load, Construct, FinalizeDuplicate,
                UseLoaded, CheckRuntime, CheckRuntimeFails, Persist, PersistFails, Undo,
                RolledBack, Commit, Resumed, Flush, FlushFails, Fetch, Submit,
                SubmitFails, CleanUp, CleanUpFails, Release, Target, Shut, Halt, CommitClose,
                CommitCloseFails, Closed, CloseStale, CloseStaleFails, Descend, NextDescendant,
                CloseEdge, runtimeVars
  <1>6. ASSUME NEW k \in Caller, Submit(k)
        PROVE  \/ UNCHANGED run
               \/ \E b, n, s : run' = [run EXCEPT ![b][n] = s] /\ (run[b][n] # "dead" \/ s = "dead")
    BY <1>6 DEF Submit, Loop
  <1>7. ASSUME NEW k \in Caller, UnloadTimeout(k) \/ Cancel(k) \/ Detach(k) \/ CancelInStore(k)
        PROVE  UNCHANGED <<rt, run>>
    BY <1>7 DEF UnloadTimeout, Cancel, Detach, CancelInStore, runtimeVars
  <1>8. ASSUME NEW b \in Agent, NEW i \in Inc, TurnEnds(b, i) \/ LoopExits(b, i)
        PROVE  UNCHANGED rt /\ \E n, s : run' = [run EXCEPT ![b][n] = s] /\ (run[b][n] # "dead" \/ s = "dead")
    BY <1>8 DEF TurnEnds, LoopExits
  <1>10. ASSUME NEW b \in Agent, NEW i \in Inc, AppendTurn(b, i)
         PROVE  UNCHANGED <<rt, run>>
    BY <1>10 DEF AppendTurn, runtimeVars
  <1>9. ASSUME NEW k \in Caller, Step(k), ~Finalize(k)
        PROVE  rt'[a] = rt[a] /\ (Running(a)' => Running(a))
    BY <1>2, <1>5, <1>6, <1>9, StoppedLoop
  <1> QED  BY <1>2, <1>3, <1>4, <1>7, <1>8, <1>9, <1>10 DEF Next

-----------------------------------------------------------------------------
(* ClosedIsStopped.                                                        *)

\* An operation keeps its kind, ends, or goes on as the rest of a resume.
LEMMA KindStays ==
    ASSUME IncInv, NEW k \in Caller,
           Step(k) \/ UnloadTimeout(k) \/ Cancel(k) \/ Detach(k) \/ CancelInStore(k)
    PROVE  call'[k].kind \in {call[k].kind, "none", "resume"}
  <1> DEFINE c == call[k]
             N == call'[k].kind \in {c.kind, "none", "resume"}
  <1>1. c \in Op /\ Shape(c) /\ call \in [Caller -> Op]
    BY CallFacts DEF IncInv, StateOK
  <1>2. \A r : Becomes(k, r) => call'[k] = r
    BY <1>1 DEF Becomes
  <1>3. Idle.kind = "none" /\ Failed(c).kind \in {"none", "resume"}
    BY DEF Idle, Failed, Start
  <1>4. \A a, p, kind : Start(kind, a, p).kind = kind
    BY DEF Idle, Start
  <1>5. \A t : [Start("resume", Nobody, "descend") EXCEPT !.todo = t].kind = "resume"
    BY DEF Idle, Start
  <1>6. \A a, t : [Start("resume", a, "register") EXCEPT !.todo = t].kind = "resume"
    BY DEF Idle, Start
  <1>8. ASSUME ReserveSlot(k) \/ NoRoom(k) \/ PopLru(k) \/ CheckCandidate(k) \/ SubmitShutdown(k) \/ RemoveUnloaded(k) \/ Register(k) \/ Load(k) \/ Finalize(k)
        PROVE  N
    <2>1. CASE ReserveSlot(k)
      BY <1>1, <1>3, <2>1 DEF ReserveSlot, Becomes, Op
    <2>2. CASE NoRoom(k)
      BY <1>1, <1>3, <2>2 DEF NoRoom, Becomes, Op
    <2>3. CASE PopLru(k)
      BY <1>1, <1>3, <2>3 DEF PopLru, Becomes, Op
    <2>4. CASE CheckCandidate(k)
      BY <1>1, <1>3, <2>4 DEF CheckCandidate, Becomes, Op
    <2>5. CASE SubmitShutdown(k)
      BY <1>1, <1>3, <2>5 DEF SubmitShutdown, Goto, Becomes, Op
    <2>6. CASE RemoveUnloaded(k)
      BY <1>1, <1>3, <2>6 DEF RemoveUnloaded, Becomes, Op
    <2>7. CASE Register(k)
      BY <1>1, <1>3, <2>7 DEF Register, Becomes, Op
    <2>8. CASE Load(k)
      BY <1>1, <1>3, <2>8 DEF Load, Goto, Becomes, Op
    <2>9. CASE Finalize(k)
      BY <1>1, <1>3, <2>9 DEF Finalize, Becomes, Op
    <2> QED  BY <1>8, <2>1, <2>2, <2>3, <2>4, <2>5, <2>6, <2>7, <2>8, <2>9
  <1>9. ASSUME \/ LimitReached(k) \/ RegisterFails(k) \/ FinalizeDuplicate(k)
               \/ CheckRuntimeFails(k) \/ RolledBack(k)
        PROVE  N
    BY <1>1, <1>3, <1>9 DEF LimitReached, RegisterFails, FinalizeDuplicate, CheckRuntimeFails,
                            RolledBack, Fail, Goto, Becomes, Op
  <1>16. ASSUME Construct(k) \/ CheckRuntime(k) \/ Undo(k) \/ Flush(k)
         PROVE  N
    <2>1. \E p : Becomes(k, [c EXCEPT !.pc = p])
      BY <1>16 DEF Construct, CheckRuntime, Undo, Flush, Goto
    <2> QED  BY <1>1, <1>2, <2>1 DEF Op
  <1>17. ASSUME FlushFails(k)
         PROVE  N
    BY <1>1, <1>17 DEF FlushFails, Becomes, Op
  <1>10. ASSUME UseLoaded(k)
         PROVE  N
    <2>1. c.kind = "message"
      BY <1>1, <1>10 DEF UseLoaded, Shape
    <2> QED  BY <1>1, <1>3, <1>4, <1>10, <2>1 DEF UseLoaded, Fail, Becomes
  <1>11. ASSUME Persist(k) \/ PersistFails(k) \/ Fetch(k) \/ SubmitFails(k) \/ CleanUp(k) \/ Target(k) \/ Shut(k) \/ Halt(k) \/ CommitClose(k)
        PROVE  N
    <2>1. CASE Persist(k)
      BY <1>1, <1>3, <2>1 DEF Persist, Goto, Becomes, Op
    <2>2. CASE PersistFails(k)
      BY <1>1, <1>3, <2>2 DEF PersistFails, Goto, Becomes, Op
    <2>3. CASE Fetch(k)
      BY <1>1, <1>3, <2>3 DEF Fetch, Becomes, Op
    <2>4. CASE SubmitFails(k)
      BY <1>1, <1>3, <2>4 DEF SubmitFails, Becomes, Op
    <2>5. CASE CleanUp(k)
      BY <1>1, <1>3, <2>5 DEF CleanUp, Becomes, Op
    <2>6. CASE Target(k)
      BY <1>1, <1>3, <2>6 DEF Target, Becomes, Op
    <2>7. CASE Shut(k)
      BY <1>1, <1>3, <2>7 DEF Shut, Becomes, Op
    <2>8. CASE Halt(k)
      BY <1>1, <1>3, <2>8 DEF Halt, Becomes, Op
    <2>9. CASE CommitClose(k)
      BY <1>1, <1>3, <2>9 DEF CommitClose, Becomes, Op
    <2> QED  BY <1>11, <2>1, <2>2, <2>3, <2>4, <2>5, <2>6, <2>7, <2>8, <2>9
  <1>12. ASSUME Commit(k)
         PROVE  N
    BY <1>1, <1>4, <1>5, <1>12 DEF Commit, Becomes
  <1>13. ASSUME NEW b \in Agent, Descend(k, b)
         PROVE  N
    BY <1>1, <1>6, <1>13 DEF Descend, Becomes, Op
  <1>14. ASSUME CommitCloseFails(k) \/ Closed(k) \/ CloseStale(k) \/ CloseStaleFails(k) \/ Detach(k) \/ Release(k) \/ (\E b \in Agent : NextDescendant(k, b))
        PROVE  N
    <2>1. CASE CommitCloseFails(k)
      BY <1>1, <1>3, <2>1 DEF CommitCloseFails, Becomes, Op
    <2>2. CASE Closed(k)
      BY <1>1, <1>3, <2>2 DEF Closed, Becomes, Op
    <2>3. CASE CloseStale(k)
      BY <1>1, <1>3, <2>3 DEF CloseStale, Becomes, Op
    <2>4. CASE CloseStaleFails(k)
      BY <1>1, <1>3, <2>4 DEF CloseStaleFails, Becomes, Op
    <2>5. CASE Detach(k)
      BY <1>1, <1>3, <2>5 DEF Detach, Becomes, Op
    <2>6. CASE Release(k)
      BY <1>1, <1>3, <2>6 DEF Release, Becomes, Op
    <2>7. CASE \E b \in Agent : NextDescendant(k, b)
      BY <1>1, <2>7 DEF NextDescendant, Becomes, Op
    <2> QED  BY <2>7, <1>14, <2>1, <2>2, <2>3, <2>4, <2>5, <2>6
  <1>15. ASSUME \/ Resumed(k) \/ Submit(k) \/ CleanUpFails(k) \/ UnloadTimeout(k) \/ Cancel(k)
                \/ CancelInStore(k)
         PROVE  N
    BY <1>1, <1>3, <1>15 DEF Resumed, Submit, CleanUpFails, UnloadTimeout, Cancel, CancelInStore, Becomes
  <1> QED  BY <1>8, <1>9, <1>10, <1>11, <1>12, <1>13, <1>14, <1>15, <1>16, <1>17 DEF Step

\* A V1 message has its runtime from the start.
LEMMA V1ShapeStep ==
    ASSUME IncInv, ~V2, NEW k \in Caller, V1Shape(call[k]),
           Step(k) \/ UnloadTimeout(k) \/ Cancel(k) \/ Detach(k) \/ CancelInStore(k)
    PROVE  V1Shape(call'[k])
  <1> DEFINE c == call[k]
             q == call'[k]
  <1>1. c \in Op /\ call \in [Caller -> Op]
    BY CallFacts DEF IncInv, StateOK
  <1>2. \A r : Becomes(k, r) => q = r
    BY <1>1 DEF Becomes
  <1>3. q.kind \in {c.kind, "none", "resume"}
    BY KindStays
  <1> SUFFICES ASSUME q.kind = "message" PROVE q.pc \in {"submit", "died", "release"}
    BY DEF V1Shape
  <1>4. c.kind = "message" /\ c.pc \in {"submit", "died", "release"}
    BY <1>3 DEF V1Shape
  <1>5. Idle.kind = "none"
    BY DEF Idle
  <1>6. Submit(k) \/ SubmitFails(k) \/ CleanUp(k) \/ CleanUpFails(k) \/ Release(k)
        \/ UnloadTimeout(k) \/ Cancel(k) \/ Detach(k) \/ CancelInStore(k)
    BY <1>4 DEF Step, ReserveSlot, NoRoom, PopLru, LimitReached, CheckCandidate, SubmitShutdown,
                RemoveUnloaded, Register, RegisterFails, Load, Construct, Finalize, FinalizeDuplicate,
                UseLoaded, CheckRuntime, CheckRuntimeFails, Persist, PersistFails, Undo,
                RolledBack, Commit, Resumed, Flush, FlushFails, Fetch,
                Target, Shut, Halt, CommitClose,
                CommitCloseFails, Closed, CloseStale, CloseStaleFails, Descend, NextDescendant
  <1>7. SubmitFails(k) \/ CleanUp(k)
    BY <1>2, <1>4, <1>5, <1>6 DEF Submit, CleanUpFails, Release, UnloadTimeout, Cancel, Detach, CancelInStore
  <1>8. q = [c EXCEPT !.pc = "died"] \/ q = [c EXCEPT !.pc = "release", !.exp = 0]
    BY <1>2, <1>5, <1>7 DEF SubmitFails, CleanUp
  <1> QED  BY <1>1, <1>8 DEF Op

\* What closes an edge: the cleanup of a death, a close, a stale close, and a
\* cancellation while one of them writes.
LEMMA Closing ==
    ASSUME IncInv, Next, ~Crash, NEW a \in Agent, edge'[a] = "closed", edge[a] # "closed"
    PROVE  \E k \in Caller : /\ CleanUp(k) \/ CommitClose(k) \/ CloseStale(k) \/ CancelInStore(k)
                             /\ a = call[k].agent
  <1>0. edge \in [Agent -> {"none", "open", "closed"}]
    BY DEF IncInv, StateOK
  <1>1. ASSUME NEW k \in Caller, Begin(k)
        PROVE  UNCHANGED edge
    BY <1>1 DEF Begin, Spawn, MessageV2, MessageV1, Resume, Close, Unload
  <1>2. ASSUME NEW k \in Caller, Step(k)
        PROVE  \/ UNCHANGED edge
               \/ edge' = [edge EXCEPT ![call[k].agent] = "open"]
               \/ edge' = EdgeIfAbsent(call[k].agent)
               \/ /\ CleanUp(k) \/ CommitClose(k) \/ CloseStale(k)
                  /\ edge' = [edge EXCEPT ![call[k].agent] = "closed"]
    BY <1>2 DEF Step, ReserveSlot, NoRoom, PopLru, LimitReached, CheckCandidate, SubmitShutdown,
                RemoveUnloaded, Register, RegisterFails, Load, Construct, Finalize, FinalizeDuplicate,
                UseLoaded, CheckRuntime, CheckRuntimeFails, Persist, PersistFails, Undo,
                RolledBack, Commit, Resumed, Flush, FlushFails, Fetch, Submit,
                SubmitFails, CleanUp, CleanUpFails, Release, Target, Shut, Halt, CommitClose,
                CommitCloseFails, Closed, CloseStale, CloseStaleFails, Descend, NextDescendant,
                CloseEdge
  <1>3. ASSUME NEW k \in Caller, UnloadTimeout(k) \/ Cancel(k) \/ Detach(k)
        PROVE  UNCHANGED edge
    BY <1>3 DEF UnloadTimeout, Cancel, Detach
  <1>4. ASSUME NEW k \in Caller, CancelInStore(k)
        PROVE  a = call[k].agent
    BY <1>0, <1>4 DEF CancelInStore
  <1>5. ASSUME NEW b \in Agent, NEW i \in Inc,
               AppendTurn(b, i) \/ TurnEnds(b, i) \/ LoopExits(b, i)
        PROVE  UNCHANGED edge \/ edge' = EdgeIfAbsent(b)
    BY <1>5, LoopSteps DEF AppendTurn
  <1>6. \A b : edge' # EdgeIfAbsent(b)
    BY <1>0 DEF EdgeIfAbsent
  <1>7. ASSUME NEW k \in Caller, Step(k)
        PROVE  (CleanUp(k) \/ CommitClose(k) \/ CloseStale(k)) /\ a = call[k].agent
    BY <1>0, <1>2, <1>6, <1>7
  <1> QED  BY <1>1, <1>3, <1>4, <1>5, <1>6, <1>7 DEF Next

\* What they close has no running runtime.
LEMMA ClosesStopped ==
    ASSUME IncInv, NEW k \in Caller, CleanUp(k) \/ CommitClose(k) \/ CloseStale(k)
    PROVE  ~Running(call[k].agent)
  <1> DEFINE c == call[k]
             a == c.agent
  <1>1. /\ c \in Op /\ Shape(c) /\ Remembers(c, rt, latest, run)
        /\ \A b \in Agent : rt[b] \in {0, latest[b]}
    BY CallFacts
  <1>2. c.pc \in {"died", "close", "stale"}
    BY DEF CleanUp, CommitClose, CloseStale
  <1>3. a \in Agent /\ rt[a] \in {0, latest[a]}
    BY <1>1, <1>2 DEF Shape, AgentPC, PC
  <1>4. CASE CleanUp(k)
    <2>1. c.pc = "died" /\ c.exp = latest[a]
      BY <1>4 DEF CleanUp, MayClose
    <2>2. run[a][latest[a]] = "dead"
      BY <1>1, <2>1 DEF Remembers
    <2> QED  BY <1>3, <2>2 DEF Running, Loop
  <1>5. CASE CommitClose(k)
    <2>1. c.pc = "close" /\ c.exp = latest[a]
      BY <1>5 DEF CommitClose, MayClose
    <2>2. run[a][latest[a]] = "dead"
      BY <1>1, <2>1 DEF Remembers
    <2> QED  BY <1>3, <2>2 DEF Running, Loop
  <1>6. CASE CloseStale(k)
    <2>1. c.pc = "stale" /\ c.inc0 = latest[a]
      BY <1>6 DEF CloseStale, MayCloseStale
    <2>2. c.kind = "close" /\ a = c.target /\ c.miss
      BY <1>1, <2>1 DEF Shape, ClosePC
    <2>3. rt[a] = 0
      BY <1>1, <2>1, <2>2 DEF Remembers
    <2> QED  BY <2>3 DEF Running, Loop
  <1> QED  BY <1>4, <1>5, <1>6

\* A resume about to reopen the edge of its runtime does so, or goes on
\* to, or the runtime is unregistered, or the resume is cancelled.
LEMMA ReopenNext ==
    ASSUME IncInv, NEW k \in Caller, call[k].pc \in {"persist", "store"}, call[k].exp = rt[call[k].agent],
           \/ Begin(k) \/ Step(k) \/ UnloadTimeout(k) \/ Cancel(k) \/ Detach(k) \/ CancelInStore(k)
    PROVE  \A a \in Agent :
             a = call[k].agent =>
                 \/ edge'[a] = "open" \/ rt'[a] = 0 \/ a \in cut'
                 \/ /\ call'[k].pc \in {"persist", "store"} /\ call'[k].agent = a
                    /\ call'[k].exp = call[k].exp
  <1> DEFINE c == call[k]
  <1>1. /\ c \in Op /\ edge \in [Agent -> {"none", "open", "closed"}]
        /\ rt \in [Agent -> 0..MaxInc]
    BY CallFacts DEF IncInv, StateOK
  <1>2. ~Begin(k)
    BY IdleFits DEF Begin, Spawn, MessageV2, MessageV1, Resume, Close, Unload
  <1>4. CheckRuntime(k) \/ Persist(k) \/ PersistFails(k) \/ Cancel(k) \/ CancelInStore(k)
    BY <1>2 DEF CheckRuntimeFails, Step, ReserveSlot, NoRoom, PopLru, LimitReached, CheckCandidate, SubmitShutdown,
                RemoveUnloaded, Register, RegisterFails, Load, Construct, Finalize, FinalizeDuplicate,
                UseLoaded, Undo, RolledBack, Commit, Resumed, Flush, FlushFails, Fetch, Submit,
                SubmitFails, CleanUp, CleanUpFails, Release, Target, Shut, Halt, CommitClose,
                CommitCloseFails, Closed, CloseStale, CloseStaleFails, Descend, NextDescendant,
                UnloadTimeout, Detach
  <1>5. CASE Persist(k)
    BY <1>1, <1>5 DEF Persist
  <1>6. CASE PersistFails(k)
    BY <1>1, <1>6 DEF PersistFails
  <1>7. CASE Cancel(k)
    BY <1>7 DEF Cancel, LeftBehind
  <1>8. CASE CancelInStore(k)
    BY <1>8 DEF CancelInStore
  <1>9. CASE CheckRuntime(k)
    <2>1. call'[k] = [c EXCEPT !.pc = "store"]
      BY <1>9 DEF CheckRuntime, Goto, Becomes, IncInv, StateOK
    <2>2. call'[k].pc = "store" /\ call'[k].agent = c.agent /\ call'[k].exp = c.exp
      BY <1>1, <2>1 DEF Op
    <2> QED  BY <2>2
  <1> QED  BY <1>4, <1>5, <1>6, <1>7, <1>8, <1>9

\* After a crash nothing runs.
LEMMA CrashEmpty ==
    ASSUME Crash
    PROVE  /\ \A a \in Agent : ~Loaded(a)' /\ ~Running(a)'
           /\ \A k \in Caller : call'[k] = Idle
  <1>1. rt' = [a \in Agent |-> 0] /\ call' = [k \in Caller |-> Idle]
    BY DEF Crash
  <1> QED  BY <1>1 DEF Loaded, Running, Loop

\* A step of V1 leaves no closed agent running that nobody will reopen.
LEMMA StopStep ==
    ASSUME IncInv, StopInv, Next, ~Crash, ~V2, UNCHANGED layout
    PROVE  StopInv'
  <1>1. \A k \in Caller : V1Shape(call'[k])
    <2> SUFFICES ASSUME NEW j \in Caller PROVE V1Shape(call'[j])
      OBVIOUS
    <2>0. V1Shape(call[j]) /\ call \in [Caller -> Op]
      BY DEF StopInv, IncInv, StateOK
    <2>1. ASSUME NEW k \in Caller, k # j,
                 \/ Begin(k) \/ Step(k) \/ UnloadTimeout(k) \/ Cancel(k) \/ Detach(k) \/ CancelInStore(k)
          PROVE  V1Shape(call'[j])
      BY <2>0, <2>1, OthersStay
    <2>2. ASSUME Step(j) \/ UnloadTimeout(j) \/ Cancel(j) \/ Detach(j) \/ CancelInStore(j)
          PROVE  V1Shape(call'[j])
      BY <2>0, <2>2, V1ShapeStep
    <2>3. ASSUME Begin(j)
          PROVE  V1Shape(call'[j])
      <3>1. PICK a \in Agent : Spawn(j, a) \/ MessageV1(j, a) \/ Resume(j, a) \/ Close(j, a) \/ Unload(j, a)
        BY <2>3 DEF Begin, MessageV2
      <3>2. CASE MessageV1(j, a)
        BY <2>0, <3>2 DEF MessageV1, Becomes, Start, Idle, V1Shape
      <3>3. CASE Spawn(j, a)
        BY <2>0, <3>3 DEF Spawn, Becomes, Start, Idle, V1Shape
      <3>4. CASE Resume(j, a)
        BY <2>0, <3>4 DEF Resume, Becomes, Start, Idle, V1Shape
      <3>5. CASE Close(j, a)
        BY <2>0, <3>5 DEF Close, Becomes, Start, Idle, V1Shape
      <3>6. CASE Unload(j, a)
        BY <2>0, <3>6 DEF Unload, Becomes, Start, Idle, V1Shape
      <3> QED  BY <3>1, <3>2, <3>3, <3>4, <3>5, <3>6
    <2>4. ASSUME NEW b \in Agent, NEW i \in Inc,
                 AppendTurn(b, i) \/ TurnEnds(b, i) \/ LoopExits(b, i)
          PROVE  V1Shape(call'[j])
      BY <2>0, <2>4, LoopSteps DEF AppendTurn
    <2> QED  BY <2>1, <2>2, <2>3, <2>4 DEF Next
  <1>2. ASSUME NEW a \in Agent, edge'[a] = "closed", Running(a)', a \notin cut'
        PROVE  Reopening(a)'
    <2>1. CASE \E k \in Caller : Finalize(k) /\ a = call[k].agent
      <3>1. PICK k \in Caller : Finalize(k) /\ a = call[k].agent
        BY <2>1
      <3>2. call[k] \in Op /\ call \in [Caller -> Op] /\ rt \in [Agent -> 0..MaxInc]
        BY CallFacts DEF IncInv, StateOK
      <3>3. call[k].kind # "message"
        <4>1. V1Shape(call[k])
          BY DEF StopInv
        <4> QED  BY <3>1, <4>1 DEF V1Shape, Finalize
      <3> DEFINE q == [call[k] EXCEPT !.exp = latest[a] + 1, !.pc = "persist"]
      <3>4. call'[k] = q /\ rt'[a] = latest[a] + 1
        BY <3>1, <3>2, <3>3 DEF Finalize, AfterLoad, Becomes
      <3>5. q.pc = "persist" /\ q.agent = a /\ q.exp = latest[a] + 1
        BY <3>1, <3>2 DEF Op
      <3> QED  BY <3>4, <3>5 DEF Reopening
    <2>2. CASE ~ \E k \in Caller : Finalize(k) /\ a = call[k].agent
      <3>1. rt'[a] # 0 /\ Loaded(a)'
        BY <1>2 DEF Running, Loop, Loaded
      <3>2. rt'[a] = rt[a] /\ Running(a)
        BY <1>2, <2>2, <3>1, RuntimeStep
      <3>3. edge[a] = "closed"
        <4> SUFFICES ASSUME edge[a] # "closed" PROVE FALSE
          OBVIOUS
        <4>1. PICK k \in Caller : /\ CleanUp(k) \/ CommitClose(k) \/ CloseStale(k) \/ CancelInStore(k)
                                  /\ a = call[k].agent
          BY <1>2, Closing
        <4>2. ~CancelInStore(k)
          BY <1>2, <4>1 DEF CancelInStore
        <4> QED  BY <3>2, <4>1, <4>2, ClosesStopped
      <3>4. a \notin cut
        BY <1>2, CutStays
      <3>5. PICK j \in Caller :
              call[j].pc \in {"persist", "store"} /\ call[j].agent = a /\ call[j].exp = rt[a]
        BY <3>2, <3>3, <3>4 DEF StopInv, Reopening
      <3>6. /\ call'[j].pc \in {"persist", "store"} /\ call'[j].agent = a
            /\ call'[j].exp = call[j].exp
        <4>1. ASSUME NEW k \in Caller, k # j,
                     \/ Begin(k) \/ Step(k) \/ UnloadTimeout(k) \/ Cancel(k) \/ Detach(k) \/ CancelInStore(k)
              PROVE  call'[j] = call[j]
          BY <4>1, OthersStay
        <4>2. ASSUME \/ Begin(j) \/ Step(j) \/ UnloadTimeout(j) \/ Cancel(j) \/ Detach(j)
                     \/ CancelInStore(j)
              PROVE  /\ call'[j].pc \in {"persist", "store"} /\ call'[j].agent = a
                     /\ call'[j].exp = call[j].exp
          BY <1>2, <3>1, <3>5, <4>2, ReopenNext
        <4>3. ASSUME NEW b \in Agent, NEW i \in Inc,
                     AppendTurn(b, i) \/ TurnEnds(b, i) \/ LoopExits(b, i)
              PROVE  call'[j] = call[j]
          BY <4>3, LoopSteps DEF AppendTurn
        <4>4. call'[j] = call[j] \/ (/\ call'[j].pc \in {"persist", "store"} /\ call'[j].agent = a
                                     /\ call'[j].exp = call[j].exp)
          BY <4>1, <4>2, <4>3 DEF Next
        <4> QED  BY <3>5, <4>4
      <3> QED  BY <3>2, <3>5, <3>6 DEF Reopening
    <2> QED  BY <2>1, <2>2
  <1> QED  BY <1>1, <1>2 DEF StopInv

\* Every step keeps StopInv.
LEMMA StopKeeps ==
    ASSUME IncInv, StopInv, [Next]_vars
    PROVE  StopInv'
  <1>1. CASE UNCHANGED vars
    BY <1>1 DEF vars, StopInv, V2, Running, Loop, Reopening
  <1>2. CASE V2 /\ UNCHANGED layout
    BY <1>2 DEF StopInv, V2
  <1>3. CASE Crash
    <2>1. \A k \in Caller : V1Shape(call'[k])
      BY <1>3, CrashEmpty, IdleFits DEF V1Shape
    <2> QED  BY <1>3, <2>1, CrashEmpty DEF StopInv
  <1> QED  BY <1>1, <1>2, <1>3, StopStep, LayoutKeeps

\* StopInv holds in every state.
LEMMA StopInvariant == Spec => []StopInv
  <1>1. Init => StopInv
    <2> SUFFICES ASSUME Init PROVE StopInv
      OBVIOUS
    <2>1. (\A k \in Caller : call[k] = Idle) /\ \A a \in Agent : edge[a] = "none"
      BY DEF Init
    <2> QED  BY <2>1, IdleFits DEF StopInv, V1Shape
  <1>2. IInv /\ StopInv /\ [Next]_vars => StopInv'
    BY StopKeeps DEF IInv
  <1> QED  BY <1>1, <1>2, LifecycleInvariant, PTL DEF Spec

\* V1: an agent whose edge is durably closed has no running runtime, unless a
\* resume is about to reopen the edge: no close, stale close or cleanup that
\* raced a resume leaves a closed agent running (close_agent,
\* close_spawn_edge_and_remove_if_matches, close_stale_spawn_edge).
THEOREM ClosedIsStoppedHolds == Spec => []ClosedIsStopped
  <1>1. StopInv => ClosedIsStopped
    BY DEF StopInv, ClosedIsStopped, Reopening, At
  <1> QED  BY <1>1, StopInvariant, PTL

-----------------------------------------------------------------------------
(* Who is in the queue of residents.                                       *)

\* retain drops its agent only.
LEMMA WithoutMembers ==
    ASSUME NEW s, Queue(s), NEW a \in Agent, NEW b \in Agent, b # a, Queued(s, b)
    PROVE  Queued(Without(s, a), b)
  <1>0. s \in Seq(Agent) /\ Len(s) \in Nat /\ DOMAIN s = 1..Len(s)
    BY LenProperties DEF Queue
  <1>1. CASE ~ \E i \in DOMAIN s : s[i] = a
    BY <1>1 DEF Without
  <1>2. CASE \E i \in DOMAIN s : s[i] = a
    <2> DEFINE n == CHOOSE i \in DOMAIN s : s[i] = a
               t == [j \in 1..(Len(s) - 1) |-> s[IF j < n THEN j ELSE j + 1]]
    <2>1. n \in 1..Len(s) /\ s[n] = a
      BY <1>0, <1>2
    <2>2. Without(s, a) = t
      BY <1>2 DEF Without
    <2>3. PICK m \in 1..Len(s) : s[m] = b
      BY <1>0 DEF Queued
    <2> HIDE DEF n
    <2>4. m # n
      BY <2>1, <2>3
    <2>5. CASE m < n
      <3>1. m \in 1..(Len(s) - 1)
        BY <1>0, <2>1, <2>3, <2>5
      <3>2. t[m] = b
        BY <2>3, <2>5, <3>1
      <3> QED  BY <2>2, <3>1, <3>2 DEF Queued
    <2>6. CASE m > n
      <3>1. m - 1 \in 1..(Len(s) - 1) /\ ~(m - 1 < n) /\ (m - 1) + 1 = m
        BY <1>0, <2>1, <2>3, <2>6
      <3>2. t[m - 1] = b
        BY <2>3, <3>1
      <3> QED  BY <2>2, <3>1, <3>2 DEF Queued
    <2> QED  BY <1>0, <2>1, <2>3, <2>4, <2>5, <2>6
  <1> QED  BY <1>1, <1>2

\* touch_resident keeps everyone and adds its agent.
LEMMA TouchMembers ==
    ASSUME NEW s, Queue(s), NEW a \in Agent, NEW b \in Agent, b = a \/ Queued(s, b)
    PROVE  Queued(Touch(s, a), b)
  <1> DEFINE w == Without(s, a)
  <1>1. Queue(w) /\ (b # a => Queued(w, b))
    BY WithoutQueue, WithoutMembers
  <1>2. Touch(s, a) = Append(w, a)
    BY DEF Touch
  <1> HIDE DEF w
  <1>3. w \in Seq(Agent) /\ Len(w) \in Nat /\ DOMAIN w = 1..Len(w)
    BY <1>1, LenProperties DEF Queue
  <1>4. /\ DOMAIN Append(w, a) = 1..(Len(w) + 1)
        /\ \A i \in 1..Len(w) : Append(w, a)[i] = w[i]
        /\ Append(w, a)[Len(w) + 1] = a
    BY <1>3, AppendProperties, LenProperties
  <1>5. CASE b = a
    BY <1>2, <1>3, <1>4, <1>5 DEF Queued
  <1>6. CASE b # a
    <2>1. PICK i \in 1..Len(w) : w[i] = b
      BY <1>1, <1>3, <1>6 DEF Queued
    <2>2. i \in 1..(Len(w) + 1)
      BY <1>3, <2>1
    <2> QED  BY <1>2, <1>4, <2>1, <2>2 DEF Queued
  <1> QED  BY <1>5, <1>6

\* pop_front drops the first one only.
LEMMA TailMembers ==
    ASSUME NEW s, Queue(s), NEW b \in Agent, Queued(s, b)
    PROVE  b = s[1] \/ Queued(Tail(s), b)
  <1>1. s \in Seq(Agent) /\ Len(s) \in Nat /\ DOMAIN s = 1..Len(s)
    BY LenProperties DEF Queue
  <1>2. PICK m \in 1..Len(s) : s[m] = b
    BY <1>1 DEF Queued
  <1>3. s # <<>>
    BY <1>1, <1>2, EmptySeq
  <1>4. /\ Tail(s) \in Seq(Agent) /\ Len(Tail(s)) = Len(s) - 1
        /\ \A i \in 1..Len(Tail(s)) : Tail(s)[i] = s[i + 1]
    BY <1>1, <1>3, HeadTailProperties
  <1>5. DOMAIN Tail(s) = 1..(Len(s) - 1)
    BY <1>4, LenProperties
  <1>6. CASE m # 1
    <2>1. m - 1 \in 1..(Len(s) - 1) /\ (m - 1) + 1 = m
      BY <1>1, <1>2, <1>6
    <2>2. Tail(s)[m - 1] = b
      BY <1>2, <1>4, <2>1
    <2> QED  BY <1>5, <2>1, <2>2 DEF Queued
  <1> QED  BY <1>2, <1>6

\* A protected agent in front of the candidate stays, at the back.
LEMMA RotateMembers ==
    ASSUME NEW s, Queue(s), Len(s) >= 2, NEW b \in Agent, Queued(s, b)
    PROVE  b = s[2] \/ Queued(Append(Tail(Tail(s)), s[1]), b)
  <1> DEFINE t == Tail(s)
             w == Tail(t)
  <1>1. s \in Seq(Agent) /\ Len(s) \in Nat /\ s # <<>>
    <2>1. Len(<<>>) = 0
      BY EmptySeq
    <2> QED  BY <2>1, LenProperties DEF Queue
  <1>2. Queue(t) /\ s[1] \in Agent
    BY <1>1, TailQueue
  <1>3. t \in Seq(Agent) /\ Len(t) = Len(s) - 1 /\ \A i \in 1..Len(t) : t[i] = s[i + 1]
    BY <1>1, HeadTailProperties
  <1>4. b = s[1] \/ Queued(t, b)
    BY TailMembers
  <1> HIDE DEF t
  <1>5. t # <<>> /\ t[1] = s[2]
    <2>1. Len(<<>>) = 0
      BY EmptySeq
    <2>2. 1 \in 1..Len(t) /\ 1 + 1 = 2
      BY <1>1, <1>3
    <2>3. t[1] = s[1 + 1]
      BY <1>3, <2>2
    <2> QED  BY <1>1, <1>3, <2>1, <2>2, <2>3
  <1>6. Queue(w) /\ w \in Seq(Agent)
    BY <1>2, <1>5, TailQueue DEF Queue
  <1>7. b = s[1] \/ b = s[2] \/ Queued(w, b)
    BY <1>2, <1>4, <1>5, TailMembers
  <1> HIDE DEF w
  <1>8. Len(w) \in Nat /\ DOMAIN w = 1..Len(w)
    BY <1>6, LenProperties
  <1>9. /\ DOMAIN Append(w, s[1]) = 1..(Len(w) + 1)
        /\ \A i \in 1..Len(w) : Append(w, s[1])[i] = w[i]
        /\ Append(w, s[1])[Len(w) + 1] = s[1]
    BY <1>2, <1>6, AppendProperties, LenProperties
  <1>10. CASE b = s[1]
    <2>1. Len(w) + 1 \in 1..(Len(w) + 1)
      BY <1>8
    <2>2. Queued(Append(w, s[1]), b)
      BY <1>9, <1>10, <2>1 DEF Queued
    <2> QED  BY <2>2 DEF w, t
  <1>11. CASE Queued(w, b)
    <2>1. PICK i \in 1..Len(w) : w[i] = b
      BY <1>8, <1>11 DEF Queued
    <2>2. i \in 1..(Len(w) + 1)
      BY <1>8, <2>1
    <2>3. Queued(Append(w, s[1]), b)
      BY <1>9, <2>1, <2>2 DEF Queued
    <2> QED  BY <2>3 DEF w, t
  <1> QED  BY <1>7, <1>10, <1>11

-----------------------------------------------------------------------------
(* Tracked.                                                                *)

\* A resident leaves the queue as the candidate of an eviction, or because
\* its edge is closed.
LEMMA QueueStep ==
    ASSUME IncInv, ResidentsOK, OpsInv, V2, NEW k \in Caller, V2Step(k, call[k], call'[k]),
           NEW a \in Agent, Queued(residents, a)
    PROVE  \/ Queued(residents', a)
           \/ call'[k].pc = "check" /\ call'[k].cand = a /\ call'[k].kind # "unload"
           \/ edge[a] = "closed" /\ UNCHANGED edge
  <1> DEFINE c == call[k]
             q == call'[k]
             s == residents
  <1>0. /\ c \in Op /\ Shape(c) /\ V2Shape(c) /\ EdgeFits(c, edge)
        /\ Queue(s)
    BY CallFacts DEF OpsInv, ResidentsOK, Queue
  <1>1. CASE UNCHANGED residents
    BY <1>1
  <1>2. CASE \E b \in Agent : residents' = Touch(residents, b)
    BY <1>0, <1>2, TouchMembers
  <1>3. CASE PopLru(k)
    <2> DEFINE i == IF s[1] = Protected(c) THEN 2 ELSE 1
    <2>1. /\ c.pc = "scan" /\ s # <<>> /\ i <= Len(s)
          /\ residents' = IF i = 1 THEN Tail(s) ELSE Append(Tail(Tail(s)), s[1])
      BY <1>3 DEF PopLru
    <2>2. c.kind # "unload"
      BY <1>0, <2>1 DEF V2Shape
    <2>3. q.pc = "check" /\ q.kind = c.kind /\ q.cand = s[i]
      <3>1. q = [c EXCEPT !.pc = "check", !.cand = s[i], !.left = c.left - 1]
        BY <1>3 DEF PopLru, Becomes, IncInv, StateOK
      <3> HIDE DEF i
      <3> QED  BY <1>0, <3>1 DEF Op
    <2>4. Queued(residents', a) \/ a = s[i]
      <3>1. CASE i = 1
        BY <1>0, <2>1, <3>1, TailMembers
      <3>2. CASE i = 2
        <4>1. residents' = Append(Tail(Tail(s)), s[1])
          <5>1. i # 1
            BY <3>2
          <5> HIDE DEF i
          <5> QED  BY <2>1, <5>1
        <4>2. Len(s) >= 2
          <5> HIDE DEF i
          <5>1. i <= Len(s) /\ i = 2
            BY <2>1, <3>2
          <5>2. Len(s) \in Nat
            BY <1>0, LenProperties DEF Queue
          <5> QED  BY <5>1, <5>2
        <4> QED  BY <1>0, <3>2, <4>1, <4>2, RotateMembers
      <3> QED  BY <3>1, <3>2
    <2> QED  BY <2>2, <2>3, <2>4
  <1>4. CASE Release(k)
    <2>1. c.pc = "release" /\ residents' = Without(s, c.agent) /\ UNCHANGED edge
      BY <1>4 DEF Release
    <2>2. c.agent \in Agent /\ edge[c.agent] = "closed"
      BY <1>0, <2>1 DEF Shape, AgentPC, PC, EdgeFits
    <2> QED  BY <1>0, <2>1, <2>2, WithoutMembers
  <1>5. /\ c.pc \in {"drain", "commit"} => c.agent \in Agent
        /\ c.pc = "check" => c.cand \in Agent
    BY <1>0 DEF Shape, AgentPC, PC
  <1>6. CheckCandidate(k) \/ UseLoaded(k) \/ Commit(k) =>
            UNCHANGED residents \/ \E b \in Agent : residents' = Touch(residents, b)
    BY <1>5 DEF CheckCandidate, Requeue, UseLoaded, Commit
  <1>7. UNCHANGED residents \/ CheckCandidate(k) \/ UseLoaded(k) \/ Commit(k) \/ PopLru(k) \/ Release(k)
    BY DEF V2Step, Ends, RemoveUnloaded, LimitReached, RegisterFails, FinalizeDuplicate,
         CheckRuntimeFails, RolledBack, Submit, SubmitFails, CleanUpFails, UnloadTimeout, Cancel, CancelInStore,
         ReserveSlot, NoRoom, SubmitShutdown, Register, Load, Construct, Finalize, CheckRuntime,
         Persist, PersistFails, Undo, Fetch, CleanUp, residencyVars
  <1> QED  BY <1>1, <1>2, <1>3, <1>4, <1>6, <1>7

\* The candidate of an eviction goes back to the queue, is removed, stays the
\* candidate, or is left behind by a cancellation.
LEMMA EvictNext ==
    ASSUME IncInv, ResidentsOK, OpsInv, V2, NEW k \in Caller, V2Step(k, call[k], call'[k]),
           NEW a \in Agent, call[k].cand = a, call[k].kind # "unload", Loaded(a),
           \/ call[k].pc = "check"
           \/ call[k].pc \in {"evict", "unload"} /\ call[k].cexp = rt[a]
    PROVE  \/ Queued(residents', a)
           \/ /\ call'[k].cand = a /\ call'[k].kind # "unload"
              /\ call'[k].pc \in {"evict", "unload"} /\ call'[k].cexp = rt[a]
           \/ rt'[a] = 0
           \/ a \in cut'
  <1> DEFINE c == call[k]
             q == call'[k]
  <1>0. c \in Op /\ Shape(c) /\ V2Shape(c) /\ Queue(residents) /\ rt \in [Agent -> 0..MaxInc]
    BY CallFacts DEF OpsInv, ResidentsOK, Queue, IncInv, StateOK
  <1>1. \/ Cancel(k) \/ (RemoveUnloaded(k) /\ c.pc = "unload")
        \/ CheckCandidate(k) /\ Unloadable(c.cand) /\ Follows(c, q, "check", "evict")
              /\ q.cand = c.cand /\ q.cexp = rt[c.cand]
        \/ CheckCandidate(k) /\ ~Unloadable(c.cand)
        \/ SubmitShutdown(k) /\ Follows(c, q, "evict", "unload") /\ q.cand = c.cand /\ q.cexp = c.cexp
    BY DEF V2Step, Ends, LimitReached, RegisterFails, FinalizeDuplicate, UseLoaded, RemoveUnloaded,
         CheckRuntimeFails, RolledBack, Submit, SubmitFails, CleanUpFails, UnloadTimeout, CancelInStore,
         ReserveSlot, NoRoom, PopLru, Register, Load, Construct, Finalize, Commit, Release,
         CheckRuntime, Persist, PersistFails, Undo, Fetch, CleanUp
  <1>2. CASE Cancel(k)
    BY <1>2 DEF Cancel, LeftBehind
  <1>3. CASE RemoveUnloaded(k) /\ c.pc = "unload"
    BY <1>0, <1>3 DEF RemoveUnloaded
  <1>4. CASE CheckCandidate(k) /\ ~Unloadable(c.cand)
    <2>1. residents' = Touch(residents, a)
      BY <1>4 DEF CheckCandidate, Requeue
    <2> QED  BY <1>0, <2>1, TouchMembers
  <1>5. CASE Follows(c, q, "check", "evict") /\ q.cand = c.cand /\ q.cexp = rt[c.cand]
    BY <1>5 DEF Follows
  <1>6. CASE Follows(c, q, "evict", "unload") /\ q.cand = c.cand /\ q.cexp = c.cexp
    BY <1>6 DEF Follows
  <1> QED  BY <1>1, <1>2, <1>3, <1>4, <1>5, <1>6

\* An operation that brings a runtime queues it, goes on to, is cancelled, or
\* gives the runtime up.
LEMMA ArriveNext ==
    ASSUME IncInv, ResidentsOK, OpsInv, V2, NEW k \in Caller, V2Step(k, call[k], call'[k]),
           NEW a \in Agent, call[k].agent = a,
           \/ call[k].pc = "commit"
           \/ call[k].pc \in {"persist", "store"} /\ call[k].exp = rt[a]
    PROVE  \/ Queued(residents', a) \/ a \in cut' \/ rt'[a] = 0
           \/ call'[k].agent = a /\ call'[k].pc = "commit"
           \/ call'[k].agent = a /\ call'[k].pc = "store" /\ call'[k].exp = rt[a]
  <1> DEFINE c == call[k]
             q == call'[k]
  <1>0. /\ c \in Op /\ Shape(c) /\ V2Shape(c) /\ Queue(residents)
        /\ rt \in [Agent -> 0..MaxInc] /\ call \in [Caller -> Op]
    BY CallFacts DEF OpsInv, ResidentsOK, Queue, IncInv, StateOK
  <1>1. \/ Commit(k) \/ Cancel(k) \/ CancelInStore(k) \/ CheckRuntime(k) \/ Persist(k)
        \/ PersistFails(k)
    BY DEF V2Step, Ends, LimitReached, RegisterFails, FinalizeDuplicate, UseLoaded, RemoveUnloaded,
         CheckRuntimeFails, RolledBack, Submit, SubmitFails, CleanUpFails, UnloadTimeout,
         ReserveSlot, NoRoom, PopLru, Register, Load, Construct, Finalize, Release,
         Undo, Fetch, CleanUp, CheckCandidate, SubmitShutdown
  <1>2. CASE Commit(k)
    <2>1. c.pc = "commit"
      BY <1>2 DEF Commit
    <2>2. c.kind \in {"spawn", "message"}
      BY <1>0, <2>1 DEF V2Shape
    <2>3. c.slot
      BY <1>0, <2>1, <2>2 DEF V2Shape, Shape, SlotPC
    <2>4. residents' = Touch(residents, a)
      BY <1>2, <2>3 DEF Commit
    <2> QED  BY <1>0, <2>4, TouchMembers
  <1>3. CASE Cancel(k)
    BY <1>3 DEF Cancel, LeftBehind
  <1>4. CASE CancelInStore(k)
    BY <1>4 DEF CancelInStore
  <1>5. CASE CheckRuntime(k)
    <2>1. q = [c EXCEPT !.pc = "store"] /\ c.exp = rt[a]
      BY <1>0, <1>5 DEF CheckRuntime, Goto, Becomes
    <2> QED  BY <1>0, <2>1 DEF Op
  <1>6. CASE Persist(k)
    <2>1. q = [c EXCEPT !.pc = "commit"]
      BY <1>0, <1>6 DEF Persist, Goto, Becomes
    <2> QED  BY <1>0, <2>1 DEF Op
  <1>7. CASE PersistFails(k)
    <2>1. c.pc = "store" /\ c.exp = rt[a]
      BY <1>7 DEF PersistFails
    <2> QED  BY <1>0, <1>7, <2>1 DEF PersistFails
  <1> QED  BY <1>1, <1>2, <1>3, <1>4, <1>5, <1>6, <1>7

\* A step of an operation loses no resident.
LEMMA TrackStep ==
    ASSUME IncInv, ResidentsOK, OpsInv, FreshInv, TrackInv, V2, UNCHANGED layout, Next, ~Crash,
           NEW k \in Caller,
           Step(k) \/ UnloadTimeout(k) \/ Cancel(k) \/ Detach(k) \/ CancelInStore(k)
    PROVE  TrackInv'
  <1> DEFINE c == call[k]
             q == call'[k]
  <1>0. /\ V2Step(k, c, q) /\ \A j \in Caller \ {k} : call'[j] = call[j]
        /\ c \in Op /\ Shape(c) /\ V2Shape(c) /\ EdgeFits(c, edge)
        /\ edge \in [Agent -> {"none", "open", "closed"}]
    BY V2Moves, OthersStay, CallFacts DEF OpsInv
  <1> SUFFICES ASSUME NEW a \in Agent, Loaded(a)', edge'[a] = "open", a \notin cut'
               PROVE  Queued(residents', a) \/ Evicting(a)' \/ Arriving(a)'
    BY DEF TrackInv
  <1>1. a \notin cut
    BY CutStays
  <1>2. CASE \E j \in Caller : Finalize(j) /\ a = call[j].agent
    <2>1. PICK j \in Caller : Finalize(j) /\ a = call[j].agent
      BY <1>2
    <2>2. /\ call[j] \in Op /\ Shape(call[j]) /\ V2Shape(call[j]) /\ EdgeFits(call[j], edge)
          /\ call \in [Caller -> Op] /\ call[j].pc = "finalize" /\ UNCHANGED edge
      BY <2>1, CallFacts DEF OpsInv, Finalize, IncInv, StateOK
    <2> DEFINE r == [call[j] EXCEPT !.exp = latest[a] + 1, !.pc = AfterLoad(call[j])]
    <2>3. call'[j] = r /\ rt'[a] = latest[a] + 1
      BY <2>1, <2>2 DEF Finalize, Becomes, IncInv, StateOK
    <2>4. AfterLoad(call[j]) \in {"commit", "persist"}
      BY DEF AfterLoad
    <2>5. r.pc = AfterLoad(call[j]) /\ r.agent = a /\ r.exp = latest[a] + 1
      BY <2>1, <2>2 DEF Op
    <2> HIDE DEF r
    <2> QED  BY <2>3, <2>4, <2>5 DEF Arriving
  <1>3. CASE ~ \E j \in Caller : Finalize(j) /\ a = call[j].agent
    <2>1. rt'[a] = rt[a] /\ Loaded(a)
      BY <1>3, RuntimeStep DEF Loaded
    <2>2. CASE edge[a] # "open"
      <3>1. Persist(k) /\ a = c.agent
        <4>0. ~Construct(k) \/ a # c.agent
          <5>1. Construct(k) => Early(c)
            BY <1>0 DEF Construct, V2Shape, Shape, Early, BirthPC, LatePC
          <5> QED  BY <2>1, <5>1 DEF FreshInv
        <4>1. ~CancelInStore(k)
          <5>1. CancelInStore(k) => c.agent \in cut'
            BY DEF CancelInStore
          <5>2. CancelInStore(k) => a = c.agent
            BY <1>0, <2>2 DEF CancelInStore
          <5> QED  BY <5>1, <5>2
        <4> QED  BY <1>0, <2>2, <4>0, <4>1, V2Edges DEF EdgeIfAbsent
      <3>2. q.pc = "commit" /\ q.agent = c.agent
        <4>1. q = [c EXCEPT !.pc = "commit"]
          BY <3>1 DEF Persist, Goto, Becomes, IncInv, StateOK
        <4> QED  BY <1>0, <4>1 DEF Op
      <3> QED  BY <3>1, <3>2 DEF Arriving
    <2>3. CASE edge[a] = "open"
      <3>1. Queued(residents, a) \/ Evicting(a) \/ Arriving(a)
        BY <1>1, <2>1, <2>3 DEF TrackInv
      <3>2. CASE Queued(residents, a)
        <4>1. \/ Queued(residents', a)
              \/ q.pc = "check" /\ q.cand = a /\ q.kind # "unload"
          BY <1>0, <2>3, <3>2, QueueStep
        <4> QED  BY <4>1 DEF Evicting
      <3>3. CASE Evicting(a)
        <4>1. PICK j \in Caller :
                /\ call[j].cand = a /\ call[j].kind # "unload"
                /\ \/ call[j].pc = "check"
                   \/ call[j].pc \in {"evict", "unload"} /\ call[j].cexp = rt[a]
          BY <3>3 DEF Evicting
        <4>2. CASE j # k
          BY <1>0, <2>1, <4>1, <4>2 DEF Evicting
        <4>3. CASE j = k
          <5>1. \/ Queued(residents', a)
                \/ /\ q.cand = a /\ q.kind # "unload"
                   /\ q.pc \in {"evict", "unload"} /\ q.cexp = rt[a]
            BY <1>0, <2>1, <4>1, <4>3, EvictNext DEF Loaded
          <5> QED  BY <2>1, <5>1 DEF Evicting
        <4> QED  BY <4>2, <4>3
      <3>4. CASE Arriving(a)
        <4>1. PICK j \in Caller :
                /\ call[j].agent = a
                /\ \/ call[j].pc = "commit"
                   \/ call[j].pc \in {"persist", "store"} /\ call[j].exp = rt[a]
          BY <3>4 DEF Arriving
        <4>2. CASE j # k
          BY <1>0, <2>1, <4>1, <4>2 DEF Arriving
        <4>3. CASE j = k
          <5>1. \/ Queued(residents', a)
                \/ q.agent = a /\ q.pc = "commit"
                \/ q.agent = a /\ q.pc = "store" /\ q.exp = rt[a]
            BY <1>0, <2>1, <4>1, <4>3, ArriveNext DEF Loaded
          <5> QED  BY <2>1, <5>1 DEF Arriving
        <4> QED  BY <4>2, <4>3
      <3> QED  BY <3>1, <3>2, <3>3, <3>4
    <2> QED  BY <2>2, <2>3
  <1> QED  BY <1>2, <1>3

\* A new operation loses no resident.
LEMMA TrackBegin ==
    ASSUME IncInv, ResidentsOK, TrackInv, V2, NEW k \in Caller, Begin(k)
    PROVE  TrackInv'
  <1>1. /\ call[k] = Idle /\ UNCHANGED edge /\ \A j \in Caller \ {k} : call'[j] = call[j]
    BY V2Begins, OthersStay
  <1>2. UNCHANGED <<rt, cut>> /\ (UNCHANGED residents \/ \E b \in Agent : residents' = Touch(residents, b))
    BY DEF Begin, Spawn, MessageV2, MessageV1, Resume, Close, Unload, runtimeVars, residencyVars
  <1>3. \A a \in Agent : Queued(residents, a) => Queued(residents', a)
    BY <1>2, TouchMembers DEF ResidentsOK, Queue
  <1>4. \A a \in Agent : (Evicting(a) => Evicting(a)') /\ (Arriving(a) => Arriving(a)')
    <2>1. Idle.pc = "idle"
      BY IdleFits
    <2>2. \A j \in Caller : call[j].pc # "idle" => call'[j] = call[j]
      BY <1>1, <2>1
    <2> QED  BY <1>2, <2>2 DEF Evicting, Arriving
  <1> QED  BY <1>1, <1>2, <1>3, <1>4 DEF TrackInv, Loaded

\* Every step keeps TrackInv.
LEMMA TrackKeeps ==
    ASSUME IncInv, ResidentsOK, OpsInv, ParentInv, FreshInv, TrackInv, [Next]_vars
    PROVE  TrackInv'
  <1>1. CASE UNCHANGED <<layout, edge, rt, residents, call, cut>>
    BY <1>1 DEF TrackInv, V2, Loaded, Evicting, Arriving
  <1>2. CASE ~V2 /\ UNCHANGED layout
    BY <1>2 DEF TrackInv, V2
  <1>3. CASE Crash
    BY <1>3, CrashEmpty DEF TrackInv
  <1>4. CASE Next /\ ~Crash /\ V2
    <2>1. UNCHANGED layout
      BY <1>4, LayoutKeeps
    <2>2. ASSUME NEW a \in Agent, NEW i \in Inc, TurnEnds(a, i) \/ LoopExits(a, i)
          PROVE  TrackInv'
      BY <1>1, <2>2, LoopSteps
    <2> QED  BY <1>4, <2>1, <2>2, NoAppend, TrackStep, TrackBegin DEF Next
  <1> QED  BY <1>1, <1>2, <1>3, <1>4, LayoutKeeps DEF vars

\* A V2 spawn loads its agent only after the construction of its session.
LEMMA FreshKeeps ==
    ASSUME IncInv, OpsInv, ParentInv, FreshInv, [Next]_vars
    PROVE  FreshInv'
  <1>1. CASE UNCHANGED <<layout, rt, call>>
    BY <1>1 DEF FreshInv, V2, Loaded
  <1>2. CASE ~V2 /\ UNCHANGED layout
    BY <1>2 DEF FreshInv, V2
  <1>3. CASE Crash
    BY <1>3, CrashEmpty, IdleFits DEF FreshInv, Early
  <1>4. ASSUME V2, Next, ~Crash, NEW j \in Caller, Early(call[j])
        PROVE  rt'[call[j].agent] = None
    <2>1. ~Loaded(call[j].agent) /\ call[j].agent \in Agent /\ Alone(j)
      BY <1>4 DEF FreshInv, OpsInv, V2Shape, Early
    <2>2. ASSUME NEW k \in Caller, Finalize(k)
          PROVE  call[k].agent # call[j].agent
      BY <1>4, <2>1, <2>2 DEF Alone, Finalize, Early, LatePC
    <2> DEFINE a == call[j].agent
    <2> SUFFICES ASSUME rt'[a] # None PROVE FALSE
      OBVIOUS
    <2>3. ASSUME NEW b \in Agent, rt'[b] # None, \A k \in Caller : ~(Finalize(k) /\ b = call[k].agent)
          PROVE  rt'[b] = rt[b]
      BY <1>4, <2>3, RuntimeStep DEF Loaded
    <2> QED  BY <2>1, <2>2, <2>3 DEF Loaded
  <1>5. ASSUME V2, Next, ~Crash, NEW k \in Caller,
               Step(k) \/ UnloadTimeout(k) \/ Cancel(k) \/ Detach(k) \/ CancelInStore(k)
        PROVE  FreshInv'
    <2>1. V2Step(k, call[k], call'[k]) /\ \A j \in Caller \ {k} : call'[j] = call[j]
      BY <1>5, V2Moves, OthersStay
    <2>2. Early(call'[k]) => Early(call[k]) /\ call'[k].agent = call[k].agent
      <3> DEFINE c == call[k]
                 q == call'[k]
      <3>1. \/ q = Idle \/ Follows(c, q, "construct", "finalize") \/ Follows(c, q, "store", "commit")
            \/ Follows(c, q, "died", "release") \/ Moves(c, q)
        BY <2>1, V2Splits
      <3> HIDE DEF c, q
      <3>2. Early(q) => Early(c) /\ q.agent = c.agent
        BY <3>1, IdleFits DEF Moves, Follows, Sends, Early, BirthPC, LatePC
      <3> QED  BY <3>2 DEF c, q
    <2> QED  BY <1>4, <1>5, <2>1, <2>2 DEF FreshInv, Loaded
  <1>6. ASSUME V2, Next, ~Crash, NEW k \in Caller, Begin(k)
        PROVE  FreshInv'
    <2>1. /\ UNCHANGED rt /\ \A j \in Caller \ {k} : call'[j] = call[j]
      BY <1>6, V2Begins, OthersStay
    <2>2. Early(call'[k]) => ~Loaded(call'[k].agent)
      <3>0. PICK a \in Agent :
           \/ Spawn(k, a) /\ Becomes(k, Start("spawn", a, "reserve"))
           \/ MessageV2(k, a) /\ \E p \in {"fetch", "reserve"} : Becomes(k, Start("message", a, p))
           \/ Unload(k, a) /\ Becomes(k, [Start("unload", Nobody, "evict") EXCEPT
                                            !.cand = a, !.cexp = rt[a]])
        BY <1>6, V2Begins
      <3>1. call \in [Caller -> Op] /\ rt[a] \in {0, latest[a]}
        BY DEF IncInv, StateOK, RuntimeInv
      <3>2. CASE Spawn(k, a) /\ Becomes(k, Start("spawn", a, "reserve"))
        <4>1. call'[k].agent = a
          BY <3>1, <3>2 DEF Becomes, Start, Idle
        <4>2. rt[a] = 0
          BY <3>1, <3>2 DEF Spawn
        <4> QED  BY <4>1, <4>2 DEF Loaded
      <3>3. CASE \E p \in {"fetch", "reserve"} : Becomes(k, Start("message", a, p))
        BY <3>1, <3>3 DEF Becomes, Start, Idle, Early
      <3>4. CASE Becomes(k, [Start("unload", Nobody, "evict") EXCEPT !.cand = a, !.cexp = rt[a]])
        BY <3>1, <3>4 DEF Becomes, Start, Idle, Early
      <3> QED  BY <3>0, <3>2, <3>3, <3>4
    <2> QED  BY <1>6, <2>1, <2>2 DEF FreshInv, Loaded
  <1>7. ASSUME NEW a \in Agent, NEW i \in Inc, TurnEnds(a, i) \/ LoopExits(a, i)
        PROVE  UNCHANGED <<layout, rt, call>>
    BY <1>7, LoopSteps
  <1> QED  BY <1>1, <1>2, <1>3, <1>5, <1>6, <1>7, NoAppend, LayoutKeeps DEF Next, vars

\* V2: an open agent with a runtime is in the queue of residents, or is the
\* candidate of an eviction, or its spawn or reload is about to commit it to
\* the queue, unless an operation on it was cancelled, so it counts against the
\* capacity and can be evicted: no interleaving of reloads,
\* evictions that give up, deaths and failures loses it (reserve_slot,
\* try_unload_one_resident, touch_resident, V2ResidencySlot::commit).
THEOREM TrackedHolds == Spec => []Tracked
  <1>1. Init => FreshInv /\ TrackInv
    BY IdleFits DEF Init, FreshInv, TrackInv, Loaded, Early
  <1>2. EdgeInv /\ FreshInv /\ TrackInv /\ [Next]_vars => (FreshInv /\ TrackInv)'
    BY TrackKeeps, FreshKeeps DEF EdgeInv, IInv
  <1>3. TrackInv => Tracked
    BY DEF TrackInv, Tracked, Queued, Evicting, Arriving, At
  <1> QED  BY <1>1, <1>2, <1>3, EdgeInvariant, PTL DEF Spec
=============================================================================
