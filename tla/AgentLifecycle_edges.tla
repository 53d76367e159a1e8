----------------------- MODULE AgentLifecycle_edges -----------------------
(***************************************************************************)
(* Theorems about AgentLifecycle's spawn edges: how the durable edges, the *)
(* registry, the runtimes and the queue of residents agree, for any        *)
(* session layouts, any number of agents and callers and any bounds.       *)
(***************************************************************************)
EXTENDS AgentLifecycle_proofs

USE DEF None, history

-----------------------------------------------------------------------------
(* The inductive invariants.                                               *)

\* Where a spawn has constructed its session, where it has not registered its
\* agent yet, and where it goes on like a message.
LatePC == {"finalize", "persist", "store", "undo", "rollback", "commit"}
BirthPC == {"reserve", "scan", "check", "evict", "unload", "register", "construct"} \cup LatePC
SendPC == {"fetch", "submit", "died", "release"}

\* V2's operations: which there are, and which guards a spawn holds.
V2Shape(c) ==
    /\ c.kind \in {"none", "spawn", "message", "unload"} /\ c.todo = {}
    /\ c.kind = "none" => c.pc = "idle"
    /\ c.kind = "unload" => c.pc \in {"evict", "unload"}
    /\ c.kind = "spawn" => c.pc \in BirthPC \cup SendPC
    /\ c.kind \in {"spawn", "message"} => c.agent \in Agent /\ c.pc # "descend"
    /\ c.kind = "spawn" /\ c.pc \in SlotPC => c.slot
    /\ c.kind = "spawn" /\ c.pc \in SpotPC => c.spot

\* The edge of the agent a V2 operation works on: none until a spawn has
\* constructed its session, not closed until it registers the agent, closed
\* before a release.
EdgeFits(c, e) ==
    /\ c.kind = "spawn" /\ c.pc \in BirthPC \ LatePC => e[c.agent] = "none"
    /\ c.kind = "spawn" /\ c.pc \in LatePC => e[c.agent] # "closed"
    /\ c.kind = "spawn" /\ c.pc = "commit" => e[c.agent] = "open"
    /\ c.kind = "spawn" /\ c.pc \in SendPC => e[c.agent] # "none"
    /\ c.kind = "message" => e[c.agent] # "none"
    /\ c.pc = "release" => e[c.agent] = "closed"

\* A spawn has its agent for itself until it is registered.
Alone(k) ==
    call[k].kind = "spawn" /\ call[k].pc \in BirthPC =>
        \A j \in Caller \ {k} : call[j].agent # call[k].agent

OpsInv ==
    V2 => /\ \A k \in Caller : V2Shape(call[k]) /\ EdgeFits(call[k], edge) /\ Alone(k)
          /\ \A a \in Agent : Known(a) => edge[a] # "none"

\* The parent of an agent that has an edge, or is being spawned, has one: it
\* ran a turn.
ParentOK(a, e) == layout.parent[a] # Root => e[layout.parent[a]] # "none"
ParentInv ==
    V2 => /\ \A a \in Agent : \A i \in Inc : run[a][i] \in {"busy", "done"} => edge[a] # "none"
          /\ \A k \in Caller : call[k].kind = "spawn" => ParentOK(call[k].agent, edge)
          /\ \A a \in Agent : edge[a] # "none" => ParentOK(a, edge)

\* OpenIsKnown, with the spawn that is under way.
Committing(a) ==
    \E k \in Caller : call[k].kind = "spawn" /\ call[k].pc \in LatePC /\ call[k].agent = a
HeldInv ==
    V2 => \A a \in OpenDescendants : Key(a) \notin TornPaths => Known(a) \/ Committing(a)

-----------------------------------------------------------------------------
(* V2's operations, step by step.                                          *)

\* An operation goes on from s to p, with the guards it has.
Follows(c, q, s, p) ==
    /\ c.pc = s /\ q.pc = p /\ q.kind = c.kind /\ q.agent = c.agent /\ q.todo = c.todo
    /\ q.slot = c.slot /\ q.spot = c.spot

\* It has committed or given back its guards, and goes on to send its input.
Sends(c, q) ==
    /\ q.pc = "fetch" /\ q.kind = c.kind /\ q.agent = c.agent /\ q.todo = {}
    /\ q.slot = FALSE /\ q.spot = FALSE

\* Steps after which the caller of a V2 operation has none.
Ends(k) ==
    \/ (RemoveUnloaded(k) /\ call[k].kind = "unload") \/ LimitReached(k) \/ RegisterFails(k)
    \/ (FinalizeDuplicate(k) /\ call[k].kind # "message")
    \/ (UseLoaded(k) /\ ~Loaded(call[k].agent)) \/ CheckRuntimeFails(k) \/ RolledBack(k)
    \/ Submit(k)
    \/ (SubmitFails(k) /\ ~(Receiver(call[k]) # 0 /\ call[k].exp # 0))
    \/ CleanUpFails(k) \/ Release(k) \/ UnloadTimeout(k) \/ Cancel(k) \/ CancelInStore(k)

\* What a step makes of a V2 operation.
V2Step(k, c, q) ==
    \/ Ends(k) /\ q = Idle
    \/ ReserveSlot(k) /\ c.pc = "reserve" /\ q.pc = (IF c.kind = "spawn" THEN "register" ELSE "load")
       /\ q.kind = c.kind /\ q.agent = c.agent /\ q.todo = c.todo
       /\ q.slot = TRUE /\ q.spot = c.spot
    \/ NoRoom(k) /\ Follows(c, q, "reserve", "scan")
    \/ PopLru(k) /\ Follows(c, q, "scan", "check")
       /\ q.cand = residents[IF residents[1] = Protected(c) THEN 2 ELSE 1]
    \/ CheckCandidate(k) /\ Unloadable(c.cand) /\ Follows(c, q, "check", "evict")
       /\ q.cand = c.cand /\ q.cexp = rt[c.cand]
    \/ CheckCandidate(k) /\ ~Unloadable(c.cand) /\ Follows(c, q, "check", "scan")
    \/ SubmitShutdown(k) /\ Follows(c, q, "evict", "unload") /\ q.cand = c.cand /\ q.cexp = c.cexp
    \/ RemoveUnloaded(k) /\ c.kind # "unload" /\ Follows(c, q, "unload", "reserve")
    \/ Register(k) /\ c.pc = "register" /\ c.kind = "spawn" /\ q.pc = "construct"
       /\ q.kind = c.kind /\ q.agent = c.agent /\ q.todo = c.todo
       /\ q.slot = c.slot /\ q.spot = TRUE
    \/ Construct(k) /\ c.kind = "spawn" /\ Follows(c, q, "construct", "finalize")
    \/ Load(k) /\ c.kind = "message" /\ Running(c.agent) /\ Follows(c, q, "load", "commit")
    \/ Load(k) /\ c.kind = "message" /\ ~Running(c.agent) /\ Follows(c, q, "load", "finalize")
    \/ Finalize(k) /\ c.kind = "message" /\ Follows(c, q, "finalize", "commit")
    \/ Finalize(k) /\ c.kind = "spawn" /\ Follows(c, q, "finalize", "persist")
    \/ FinalizeDuplicate(k) /\ c.kind = "message" /\ Follows(c, q, "finalize", "drain")
    \/ UseLoaded(k) /\ Loaded(c.agent) /\ c.pc = "drain" /\ Sends(c, q)
    \/ CheckRuntime(k) /\ c.kind = "spawn" /\ Follows(c, q, "persist", "store")
    \/ Persist(k) /\ c.kind = "spawn" /\ Follows(c, q, "store", "commit")
    \/ PersistFails(k) /\ c.kind = "spawn" /\ Follows(c, q, "store", "undo")
    \/ Undo(k) /\ c.kind = "spawn" /\ Follows(c, q, "undo", "rollback")
    \/ Commit(k) /\ c.pc = "commit" /\ Sends(c, q)
    \/ Fetch(k) /\ Follows(c, q, "fetch", "submit")
    \/ SubmitFails(k) /\ Follows(c, q, "submit", "died")
    \/ CleanUp(k) /\ Follows(c, q, "died", "release")

\* Every step of a V2 operation is a move of its automaton.
LEMMA V2Moves ==
    ASSUME IncInv, OpsInv, V2, NEW k \in Caller,
           Step(k) \/ UnloadTimeout(k) \/ Cancel(k) \/ Detach(k) \/ CancelInStore(k)
    PROVE  V2Step(k, call[k], call'[k])
  <1> DEFINE c == call[k]
             q == call'[k]
  <1>1. c \in Op /\ Shape(c) /\ V2Shape(c) /\ call \in [Caller -> Op]
    BY CallFacts DEF OpsInv, IncInv, StateOK
  <1>2. \A r : Becomes(k, r) => q = r
    BY <1>1 DEF Becomes
  <1>3. Failed(c) = Idle
    BY <1>1 DEF V2Shape, Failed
  <1>4. /\ c.pc = "register" => c.kind = "spawn"
        /\ c.pc = "load" => c.kind = "message"
        /\ c.pc = "finalize" => c.kind \in {"spawn", "message"}
        /\ c.pc \in {"construct", "persist", "store", "undo", "rollback"} => c.kind = "spawn"
        /\ c.pc = "drain" => c.kind = "message"
        /\ c.pc = "commit" => c.kind \in {"spawn", "message"}
        /\ c.pc \notin ClosePC /\ c.pc # "descend" /\ c.kind \notin {"resume", "close"}
    BY <1>1 DEF V2Shape, Shape, SlotPC, SpotPC, BirthPC, LatePC, SendPC, ClosePC
  <1>5. ASSUME NoRoom(k)
        PROVE  V2Step(k, c, q)
    <2> DEFINE r == [c EXCEPT !.pc = "scan", !.left = Len(residents)]
    <2>1. Becomes(k, r)
      BY <1>4, <1>5 DEF NoRoom
    <2>2. q = r
      BY <1>2, <2>1
    <2>3. Follows(c, q, "reserve", "scan")
      BY <1>1, <1>5, <2>2 DEF Follows, Op, NoRoom
    <2>4. NoRoom(k)
      BY <1>5
    <2>5. c.pc = "store" => c.kind = "spawn"
      BY <1>4
    <2> HIDE DEF q, r
    <2> QED  BY <2>3, <2>4, <2>5 DEF V2Step
  <1>6. ASSUME PopLru(k)
        PROVE  V2Step(k, c, q)
    <2> DEFINE r == [c EXCEPT !.pc = "check", !.cand = residents[IF residents[1] = Protected(c) THEN 2 ELSE 1], !.left = c.left - 1]
    <2>1. Becomes(k, r)
      BY <1>4, <1>6 DEF PopLru
    <2>2. q = r
      BY <1>2, <2>1
    <2>3. Follows(c, q, "scan", "check") /\ q.cand = residents[IF residents[1] = Protected(c) THEN 2 ELSE 1]
      BY <1>1, <1>6, <2>2 DEF Follows, Op, PopLru
    <2>4. PopLru(k)
      BY <1>6
    <2>5. c.pc = "store" => c.kind = "spawn"
      BY <1>4
    <2> HIDE DEF q, r
    <2> QED  BY <2>3, <2>4, <2>5 DEF V2Step
  <1>7. ASSUME CheckCandidate(k) /\ Unloadable(c.cand)
        PROVE  V2Step(k, c, q)
    <2> DEFINE r == [c EXCEPT !.pc = "evict", !.cexp = rt[c.cand]]
    <2>1. Becomes(k, r)
      BY <1>4, <1>7 DEF CheckCandidate
    <2>2. q = r
      BY <1>2, <2>1
    <2>3. Follows(c, q, "check", "evict") /\ q.cand = c.cand /\ q.cexp = rt[c.cand]
      BY <1>1, <1>7, <2>2 DEF Follows, Op, CheckCandidate
    <2>4. CheckCandidate(k) /\ Unloadable(c.cand)
      BY <1>7
    <2>5. c.pc = "store" => c.kind = "spawn"
      BY <1>4
    <2> HIDE DEF q, r
    <2> QED  BY <2>3, <2>4, <2>5 DEF V2Step
  <1>8. ASSUME CheckCandidate(k) /\ ~Unloadable(c.cand)
        PROVE  V2Step(k, c, q)
    <2> DEFINE r == [c EXCEPT !.pc = "scan", !.cand = Nobody]
    <2>1. Becomes(k, r)
      BY <1>4, <1>8 DEF CheckCandidate
    <2>2. q = r
      BY <1>2, <2>1
    <2>3. Follows(c, q, "check", "scan")
      BY <1>1, <1>8, <2>2 DEF Follows, Op, CheckCandidate
    <2>4. CheckCandidate(k) /\ ~Unloadable(c.cand)
      BY <1>8
    <2>5. c.pc = "store" => c.kind = "spawn"
      BY <1>4
    <2> HIDE DEF q, r
    <2> QED  BY <2>3, <2>4, <2>5 DEF V2Step
  <1>9. ASSUME SubmitShutdown(k)
        PROVE  V2Step(k, c, q)
    <2> DEFINE r == [c EXCEPT !.pc = "unload"]
    <2>1. Becomes(k, r)
      BY <1>4, <1>9 DEF SubmitShutdown, Goto
    <2>2. q = r
      BY <1>2, <2>1
    <2>3. Follows(c, q, "evict", "unload") /\ q.cand = c.cand /\ q.cexp = c.cexp
      BY <1>1, <1>9, <2>2 DEF Follows, Op, SubmitShutdown
    <2>4. SubmitShutdown(k)
      BY <1>9
    <2>5. c.pc = "store" => c.kind = "spawn"
      BY <1>4
    <2> HIDE DEF q, r
    <2> QED  BY <2>3, <2>4, <2>5 DEF V2Step
  <1>10. ASSUME RemoveUnloaded(k) /\ c.kind # "unload"
        PROVE  V2Step(k, c, q)
    <2> DEFINE r == [c EXCEPT !.pc = "reserve", !.cand = Nobody, !.cexp = 0, !.left = 0]
    <2>1. Becomes(k, r)
      BY <1>4, <1>10 DEF RemoveUnloaded
    <2>2. q = r
      BY <1>2, <2>1
    <2>3. Follows(c, q, "unload", "reserve")
      BY <1>1, <1>10, <2>2 DEF Follows, Op, RemoveUnloaded
    <2>4. RemoveUnloaded(k) /\ c.kind # "unload"
      BY <1>10
    <2>5. c.pc = "store" => c.kind = "spawn"
      BY <1>4
    <2> HIDE DEF q, r
    <2> QED  BY <2>3, <2>4, <2>5 DEF V2Step
  <1>11. ASSUME Load(k) /\ c.kind = "message" /\ Running(c.agent)
        PROVE  V2Step(k, c, q)
    <2> DEFINE r == [c EXCEPT !.exp = rt[c.agent], !.pc = "commit"]
    <2>1. Becomes(k, r)
      BY <1>4, <1>11 DEF Load, AfterLoad
    <2>2. q = r
      BY <1>2, <2>1
    <2>3. Follows(c, q, "load", "commit")
      BY <1>1, <1>11, <2>2 DEF Follows, Op, Load
    <2>4. Load(k) /\ c.kind = "message" /\ Running(c.agent)
      BY <1>11
    <2>5. c.pc = "store" => c.kind = "spawn"
      BY <1>4
    <2> HIDE DEF q, r
    <2> QED  BY <2>3, <2>4, <2>5 DEF V2Step
  <1>12. ASSUME Load(k) /\ c.kind = "message" /\ ~Running(c.agent)
        PROVE  V2Step(k, c, q)
    <2> DEFINE r == [c EXCEPT !.pc = "finalize"]
    <2>1. Becomes(k, r)
      BY <1>4, <1>12 DEF Load, Goto
    <2>2. q = r
      BY <1>2, <2>1
    <2>3. Follows(c, q, "load", "finalize")
      BY <1>1, <1>12, <2>2 DEF Follows, Op, Load
    <2>4. Load(k) /\ c.kind = "message" /\ ~Running(c.agent)
      BY <1>12
    <2>5. c.pc = "store" => c.kind = "spawn"
      BY <1>4
    <2> HIDE DEF q, r
    <2> QED  BY <2>3, <2>4, <2>5 DEF V2Step
  <1>13. ASSUME Finalize(k) /\ c.kind = "message"
        PROVE  V2Step(k, c, q)
    <2> DEFINE r == [c EXCEPT !.exp = latest[c.agent] + 1, !.pc = "commit"]
    <2>1. Becomes(k, r)
      BY <1>4, <1>13 DEF Finalize, AfterLoad
    <2>2. q = r
      BY <1>2, <2>1
    <2>3. Follows(c, q, "finalize", "commit")
      BY <1>1, <1>13, <2>2 DEF Follows, Op, Finalize
    <2>4. Finalize(k) /\ c.kind = "message"
      BY <1>13
    <2>5. c.pc = "store" => c.kind = "spawn"
      BY <1>4
    <2> HIDE DEF q, r
    <2> QED  BY <2>3, <2>4, <2>5 DEF V2Step
  <1>14. ASSUME Finalize(k) /\ c.kind = "spawn"
        PROVE  V2Step(k, c, q)
    <2> DEFINE r == [c EXCEPT !.exp = latest[c.agent] + 1, !.pc = "persist"]
    <2>1. Becomes(k, r)
      BY <1>4, <1>14 DEF Finalize, AfterLoad
    <2>2. q = r
      BY <1>2, <2>1
    <2>3. Follows(c, q, "finalize", "persist")
      BY <1>1, <1>14, <2>2 DEF Follows, Op, Finalize
    <2>4. Finalize(k) /\ c.kind = "spawn"
      BY <1>14
    <2>5. c.pc = "store" => c.kind = "spawn"
      BY <1>4
    <2> HIDE DEF q, r
    <2> QED  BY <2>3, <2>4, <2>5 DEF V2Step
  <1>15. ASSUME FinalizeDuplicate(k) /\ c.kind = "message"
        PROVE  V2Step(k, c, q)
    <2> DEFINE r == [c EXCEPT !.pc = "drain"]
    <2>1. Becomes(k, r)
      BY <1>4, <1>15 DEF FinalizeDuplicate, Goto
    <2>2. q = r
      BY <1>2, <2>1
    <2>3. Follows(c, q, "finalize", "drain")
      BY <1>1, <1>15, <2>2 DEF Follows, Op, FinalizeDuplicate
    <2>4. FinalizeDuplicate(k) /\ c.kind = "message"
      BY <1>15
    <2>5. c.pc = "store" => c.kind = "spawn"
      BY <1>4
    <2> HIDE DEF q, r
    <2> QED  BY <2>3, <2>4, <2>5 DEF V2Step
  <1>16. ASSUME Persist(k)
        PROVE  V2Step(k, c, q)
    <2> DEFINE r == [c EXCEPT !.pc = "commit"]
    <2>1. Becomes(k, r)
      BY <1>4, <1>16 DEF Persist, Goto
    <2>2. q = r
      BY <1>2, <2>1
    <2>3. Follows(c, q, "store", "commit")
      BY <1>1, <1>16, <2>2 DEF Follows, Op, Persist
    <2>4. Persist(k)
      BY <1>16
    <2>5. c.pc = "store" => c.kind = "spawn"
      BY <1>4
    <2> HIDE DEF q, r
    <2> QED  BY <2>3, <2>4, <2>5 DEF V2Step, Persist
  <1>17. ASSUME PersistFails(k)
        PROVE  V2Step(k, c, q)
    <2> DEFINE r == [c EXCEPT !.pc = "undo"]
    <2>1. Becomes(k, r)
      BY <1>4, <1>17 DEF PersistFails, Goto
    <2>2. q = r
      BY <1>2, <2>1
    <2>3. Follows(c, q, "store", "undo")
      BY <1>1, <1>17, <2>2 DEF Follows, Op, PersistFails
    <2>4. PersistFails(k)
      BY <1>17
    <2>5. c.pc = "store" => c.kind = "spawn"
      BY <1>4
    <2> HIDE DEF q, r
    <2> QED  BY <2>3, <2>4, <2>5 DEF V2Step, PersistFails
  <1>18. ASSUME Fetch(k)
        PROVE  V2Step(k, c, q)
    <2> DEFINE r == [c EXCEPT !.exp = rt[c.agent], !.pc = "submit"]
    <2>1. Becomes(k, r)
      BY <1>4, <1>18 DEF Fetch
    <2>2. q = r
      BY <1>2, <2>1
    <2>3. Follows(c, q, "fetch", "submit")
      BY <1>1, <1>18, <2>2 DEF Follows, Op, Fetch
    <2>4. Fetch(k)
      BY <1>18
    <2>5. c.pc = "store" => c.kind = "spawn"
      BY <1>4
    <2> HIDE DEF q, r
    <2> QED  BY <2>3, <2>4, <2>5 DEF V2Step
  <1>19. ASSUME SubmitFails(k) /\ Receiver(c) # 0 /\ c.exp # 0
        PROVE  V2Step(k, c, q)
    <2> DEFINE r == [c EXCEPT !.pc = "died"]
    <2>1. Becomes(k, r)
      BY <1>4, <1>19 DEF SubmitFails
    <2>2. q = r
      BY <1>2, <2>1
    <2>3. Follows(c, q, "submit", "died")
      BY <1>1, <1>19, <2>2 DEF Follows, Op, SubmitFails
    <2>4. SubmitFails(k) /\ Receiver(c) # 0 /\ c.exp # 0
      BY <1>19
    <2>5. c.pc = "store" => c.kind = "spawn"
      BY <1>4
    <2> HIDE DEF q, r
    <2> QED  BY <2>3, <2>4, <2>5 DEF V2Step
  <1>20. ASSUME CleanUp(k)
        PROVE  V2Step(k, c, q)
    <2> DEFINE r == [c EXCEPT !.pc = "release", !.exp = 0]
    <2>1. Becomes(k, r)
      BY <1>4, <1>20 DEF CleanUp
    <2>2. q = r
      BY <1>2, <2>1
    <2>3. Follows(c, q, "died", "release")
      BY <1>1, <1>20, <2>2 DEF Follows, Op, CleanUp
    <2>4. CleanUp(k)
      BY <1>20
    <2>5. c.pc = "store" => c.kind = "spawn"
      BY <1>4
    <2> HIDE DEF q, r
    <2> QED  BY <2>3, <2>4, <2>5 DEF V2Step
  <1>21. ASSUME ReserveSlot(k)
        PROVE  V2Step(k, c, q)
    <2> DEFINE r == [c EXCEPT !.slot = TRUE, !.pc = IF c.kind = "spawn" THEN "register" ELSE "load"]
    <2>1. Becomes(k, r)
      BY <1>4, <1>21 DEF ReserveSlot
    <2>2. q = r
      BY <1>2, <2>1
    <2>3. /\ q.pc = (IF c.kind = "spawn" THEN "register" ELSE "load")
          /\ q.kind = c.kind /\ q.agent = c.agent /\ q.todo = c.todo
          /\ q.slot = TRUE /\ q.spot = c.spot
      BY <1>1, <2>1, <2>2 DEF Op
    <2> HIDE DEF q, r
    <2> QED  BY <1>21, <2>1, <2>3 DEF V2Step, ReserveSlot
  <1>22. ASSUME Register(k)
        PROVE  V2Step(k, c, q)
    <2> DEFINE r == [c EXCEPT !.spot = TRUE, !.pc = IF c.kind = "spawn" THEN "construct" ELSE "load"]
    <2>1. Becomes(k, r) /\ c.kind = "spawn"
      BY <1>4, <1>22 DEF Register
    <2>2. q = r
      BY <1>2, <2>1
    <2>3. /\ q.pc = "construct"
          /\ q.kind = c.kind /\ q.agent = c.agent /\ q.todo = c.todo
          /\ q.slot = c.slot /\ q.spot = TRUE
      BY <1>1, <2>1, <2>2 DEF Op
    <2> HIDE DEF q, r
    <2> QED  BY <1>22, <2>1, <2>3 DEF V2Step, Register
  <1>23. ASSUME Commit(k) \/ (UseLoaded(k) /\ Loaded(c.agent))
        PROVE  V2Step(k, c, q)
    <2>1. q = Start(c.kind, c.agent, "fetch") /\ c.pc \in {"commit", "drain"}
      BY <1>2, <1>4, <1>23 DEF Commit, UseLoaded
    <2>2. Sends(c, q)
      BY <2>1, IdleFields DEF Sends, Start, Idle, Op
    <2> HIDE DEF q
    <2> QED  BY <1>23, <2>2 DEF V2Step, Commit, UseLoaded
  <1>24. ASSUME Ends(k)
        PROVE  V2Step(k, c, q)
    <2>1. Becomes(k, Idle)
      BY <1>3, <1>4, <1>24 DEF Ends, RemoveUnloaded, LimitReached, RegisterFails, FinalizeDuplicate,
                   UseLoaded, CheckRuntimeFails, RolledBack, Submit, SubmitFails, CleanUpFails, Release,
                   UnloadTimeout, Cancel, CancelInStore, Fail
    <2> QED  BY <1>2, <1>24, <2>1 DEF V2Step
  <1>25. ASSUME \/ Resumed(k) \/ Target(k) \/ Flush(k) \/ FlushFails(k) \/ Shut(k) \/ Halt(k) \/ CommitClose(k)
               \/ CommitCloseFails(k) \/ Closed(k) \/ CloseStale(k) \/ CloseStaleFails(k)
               \/ Detach(k) \/ (\E b \in Agent : Descend(k, b) \/ NextDescendant(k, b))
        PROVE  FALSE
    BY <1>4, <1>25 DEF Resumed, Target, Flush, FlushFails, Shut, Halt, CommitClose, CommitCloseFails, Closed, CloseStale,
                 CloseStaleFails, Detach, Descend, NextDescendant, ClosePC
  <1>26. /\ Load(k) => c.kind = "message"
         /\ Finalize(k) => c.kind \in {"spawn", "message"}
    BY <1>4 DEF Load, Finalize
  <1>27. ASSUME Construct(k)
        PROVE  V2Step(k, c, q)
    <2> DEFINE r == [c EXCEPT !.pc = "finalize"]
    <2>1. Becomes(k, r) /\ c.pc = "construct"
      BY <1>27 DEF Construct, Goto
    <2>2. q = r
      BY <1>2, <2>1
    <2>3. Follows(c, q, "construct", "finalize")
      BY <1>1, <2>1, <2>2 DEF Follows, Op
    <2>4. c.kind = "spawn"
      BY <1>4, <2>1
    <2> HIDE DEF q, r
    <2> QED  BY <1>27, <2>3, <2>4 DEF V2Step
  <1>28. ASSUME CheckRuntime(k)
        PROVE  V2Step(k, c, q)
    <2> DEFINE r == [c EXCEPT !.pc = "store"]
    <2>1. Becomes(k, r) /\ c.pc = "persist"
      BY <1>28 DEF CheckRuntime, Goto
    <2>2. q = r
      BY <1>2, <2>1
    <2>3. Follows(c, q, "persist", "store")
      BY <1>1, <2>1, <2>2 DEF Follows, Op
    <2>4. c.kind = "spawn"
      BY <1>4, <2>1
    <2> HIDE DEF q, r
    <2> QED  BY <1>28, <2>3, <2>4 DEF V2Step
  <1>29. ASSUME Undo(k)
        PROVE  V2Step(k, c, q)
    <2> DEFINE r == [c EXCEPT !.pc = "rollback"]
    <2>1. Becomes(k, r) /\ c.pc = "undo"
      BY <1>29 DEF Undo, Goto
    <2>2. q = r
      BY <1>2, <2>1
    <2>3. Follows(c, q, "undo", "rollback")
      BY <1>1, <2>1, <2>2 DEF Follows, Op
    <2>4. c.kind = "spawn"
      BY <1>4, <2>1
    <2> HIDE DEF q, r
    <2> QED  BY <1>29, <2>3, <2>4 DEF V2Step
  <1> HIDE DEF c, q
  <1> QED  BY <1>5, <1>6, <1>7, <1>8, <1>9, <1>10, <1>11, <1>12, <1>13, <1>14, <1>15, <1>16, <1>17, <1>18, <1>19, <1>20, <1>21, <1>22, <1>23, <1>24, <1>25, <1>26,
           <1>27, <1>28, <1>29 DEF Step, Ends, c, q

\* Where the operation is when it ends.
LEMMA EndsAt ==
    ASSUME NEW k \in Caller, Ends(k)
    PROVE  /\ Release(k) => call[k].pc = "release"
           /\ (Cancel(k) => DropGuards(call[k])) /\ (CancelInStore(k) => DropGuards(call[k]))
           /\ \/ DropGuards(call[k]) \/ Release(k) \/ UNCHANGED tree
  BY DEF Ends, RemoveUnloaded, LimitReached, RegisterFails, FinalizeDuplicate, UseLoaded,
         CheckRuntimeFails, RolledBack, Submit, SubmitFails, CleanUpFails, Release, UnloadTimeout, Cancel,
         CancelInStore, Fail, registryVars

\* What a V2 step does to the spawn edges.
LEMMA V2Edges ==
    ASSUME NEW k \in Caller, V2Step(k, call[k], call'[k])
    PROVE  \/ UNCHANGED edge
           \/ Construct(k) /\ edge' = EdgeIfAbsent(call[k].agent)
           \/ Persist(k) /\ edge' = [edge EXCEPT ![call[k].agent] = "open"]
           \/ CleanUp(k) /\ edge' = [edge EXCEPT ![call[k].agent] = "closed"]
           \/ CancelInStore(k)
  <1>1. ASSUME Construct(k)
        PROVE  UNCHANGED edge \/ edge' = EdgeIfAbsent(call[k].agent)
    BY <1>1 DEF Construct
  <1>2. ASSUME Persist(k)
        PROVE  edge' = [edge EXCEPT ![call[k].agent] = "open"]
    BY <1>2 DEF Persist
  <1>3. ASSUME CleanUp(k)
        PROVE  edge' = [edge EXCEPT ![call[k].agent] = "closed"]
    BY <1>3 DEF CleanUp, CloseEdge
  <1>4. ASSUME \/ ReserveSlot(k) \/ NoRoom(k) \/ PopLru(k) \/ CheckCandidate(k)
               \/ SubmitShutdown(k) \/ RemoveUnloaded(k) \/ Register(k) \/ Load(k) \/ Finalize(k)
        PROVE  UNCHANGED edge
    BY <1>4 DEF ReserveSlot, NoRoom, PopLru, CheckCandidate, SubmitShutdown, RemoveUnloaded,
                Register, Load, Finalize
  <1>5. ASSUME \/ FinalizeDuplicate(k) \/ UseLoaded(k) \/ CheckRuntime(k) \/ PersistFails(k)
               \/ Undo(k) \/ Commit(k) \/ Fetch(k) \/ SubmitFails(k)
        PROVE  UNCHANGED edge
    BY <1>5 DEF FinalizeDuplicate, UseLoaded, CheckRuntime, PersistFails, Undo, Commit, Fetch,
                SubmitFails
  <1>6. ASSUME Ends(k)
        PROVE  UNCHANGED edge \/ CancelInStore(k)
    BY <1>6 DEF Ends, RemoveUnloaded, LimitReached, RegisterFails, FinalizeDuplicate, UseLoaded,
                CheckRuntimeFails, RolledBack, Submit, SubmitFails, CleanUpFails, Release,
                UnloadTimeout, Cancel
  <1> QED  BY <1>1, <1>2, <1>3, <1>4, <1>5, <1>6 DEF V2Step

\* What it does to the registry: a commit registers its agent, a release
\* forgets its agent, and nothing else changes who is known.
LEMMA V2Tree ==
    ASSUME IncInv, RegistryInv, V2, UNCHANGED layout, NEW k \in Caller,
           V2Step(k, call[k], call'[k])
    PROVE  /\ \A a \in Agent : Known(a)' => Known(a) \/ (Commit(k) /\ call[k].spot /\ a = call[k].agent)
           /\ \A a \in Agent : Known(a) => Known(a)' \/ (Release(k) /\ a = call[k].agent)
           /\ \A a \in Agent : Commit(k) /\ call[k].spot /\ a = call[k].agent => Known(a)'
           /\ \A a \in Agent : Release(k) /\ a = call[k].agent => ~Known(a)'
  <1> DEFINE c == call[k]
  <1>0. /\ layout \in Layouts /\ tree \in [Agent -> Agent \cup {Free, Reserved}] /\ PathInv
        /\ \A a \in Agent : Key(a)' = Key(a)
    BY DEF IncInv, StateOK, RegistryInv, PathInv, Key
  <1>1. /\ \A a \in Agent : Key(a) \in Agent /\ a # Free /\ a # Reserved
        /\ Free # Reserved
    BY <1>0, KeyFacts
  <1>2. c.spot => c.agent \in Agent /\ tree[Key(c.agent)] = Reserved
    BY <1>0, SpotFacts DEF PathInv
  <1>3. \A a \in Agent : (Known(a) <=> tree[Key(a)] = a) /\ (Known(a)' <=> tree'[Key(a)] = a)
    BY <1>0 DEF Known
  <1>4. CASE UNCHANGED tree /\ ~Release(k) /\ ~(Commit(k) /\ c.spot)
    BY <1>3, <1>4
  <1>5. CASE DropGuards(c) /\ ~Release(k) /\ ~Commit(k)
    <2>1. tree' = IF c.spot /\ tree[Key(c.agent)] = Reserved
                  THEN [tree EXCEPT ![Key(c.agent)] = Free] ELSE tree
      BY <1>5 DEF DropGuards
    <2>2. \A x \in Agent : tree'[x] = tree[x] \/ (tree[x] = Reserved /\ tree'[x] = Free)
      BY <1>0, <1>1, <1>2, <2>1
    <2>3. \A a \in Agent : Known(a)' <=> Known(a)
      BY <1>1, <1>3, <2>2
    <2> QED  BY <1>5, <2>3
  <1>6. CASE Register(k)
    <2>1. /\ c.pc = "register" /\ tree[Key(c.agent)] = Free
          /\ tree' = [tree EXCEPT ![Key(c.agent)] = Reserved]
      BY <1>6 DEF Register, MayRegister
    <2>2. \A x \in Agent : tree'[x] = tree[x] \/ (tree[x] = Free /\ tree'[x] = Reserved)
      BY <1>0, <2>1
    <2>3. \A a \in Agent : Known(a)' <=> Known(a)
      BY <1>1, <1>3, <2>2
    <2>4. ~Release(k) /\ ~Commit(k)
      BY <2>1 DEF Release, Commit
    <2> QED  BY <2>3, <2>4
  <1>7. CASE Release(k)
    <2>1. c.pc = "release" /\ tree' = IF Known(c.agent) THEN [tree EXCEPT ![Key(c.agent)] = Free] ELSE tree
      BY <1>7 DEF Release, Unregister
    <2>2. c.agent \in Agent
      BY <2>1, CallFacts DEF Shape, AgentPC, PC
    <2>3. \A a \in Agent : a = c.agent => ~Known(a)'
      BY <1>0, <1>1, <1>3, <2>1, <2>2
    <2>4. \A a \in Agent : (Known(a) /\ a # c.agent => Known(a)') /\ (Known(a)' => Known(a))
      BY <1>0, <1>1, <1>3, <2>1, <2>2
    <2>5. ~Commit(k)
      BY <2>1 DEF Commit
    <2> QED  BY <1>7, <2>3, <2>4, <2>5
  <1>8. CASE Commit(k) /\ c.spot
    <2>1. c.pc = "commit" /\ tree' = [tree EXCEPT ![Key(c.agent)] = c.agent]
      BY <1>8 DEF Commit
    <2>2. \A a \in Agent : a = c.agent => Known(a)'
      BY <1>0, <1>1, <1>2, <1>3, <1>8, <2>1
    <2>3. \A a \in Agent : (Known(a) => Known(a)') /\ (Known(a)' /\ a # c.agent => Known(a))
      BY <1>0, <1>1, <1>2, <1>3, <1>8, <2>1
    <2>4. ~Release(k)
      BY <2>1 DEF Release
    <2> QED  BY <1>8, <2>2, <2>3, <2>4
  <1>9. CASE UNCHANGED tree /\ Commit(k) /\ ~c.spot
    <2>1. ~Release(k)
      BY <1>9 DEF Release, Commit
    <2> QED  BY <1>3, <1>9, <2>1
  <1>10. CASE Ends(k)
    <2>1. Commit(k) => ~Release(k) /\ (c.pc = "commit")
      BY DEF Commit, Release
    <2>2. Commit(k) /\ Cancel(k) => ~c.spot
      BY CallFacts DEF Commit, Cancel, Shape
    <2>3. DropGuards(c) \/ Release(k) \/ UNCHANGED tree
      BY <1>10, EndsAt
    <2>4. CASE ~Commit(k)
      BY <1>4, <1>5, <1>7, <2>3, <2>4
    <2>5. CASE Commit(k) /\ ~c.spot
      <3>1. UNCHANGED tree
        BY <2>5 DEF Commit
      <3> QED  BY <1>9, <2>5, <3>1
    <2> QED  BY <1>8, <2>4, <2>5
  <1>11. CASE ~Ends(k)
    <2>1. \/ Register(k) \/ Commit(k)
          \/ UNCHANGED tree /\ ~Release(k)
      <3>1. Release(k) => Ends(k)
        BY DEF Ends
      <3> QED  BY <1>11, <3>1 DEF V2Step, ReserveSlot, NoRoom, PopLru, CheckCandidate, SubmitShutdown,
              RemoveUnloaded, Load, Construct, Finalize, FinalizeDuplicate, UseLoaded, CheckRuntime, Persist,
              PersistFails, Undo, Fetch, SubmitFails, CleanUp, registryVars, Goto
    <2>2. Commit(k) /\ ~c.spot => UNCHANGED tree
      BY DEF Commit
    <2> QED  BY <1>4, <1>6, <1>8, <1>9, <2>1, <2>2
  <1> QED  BY <1>10, <1>11
-----------------------------------------------------------------------------
(* OpsInv is inductive.                                                    *)

\* A spawn that has not registered its agent yet.
Birth(c) == c.kind = "spawn" /\ c.pc \in BirthPC

\* One operation goes on and may write the edge of its agent; the others
\* still fit the edges.
LEMMA OpsKeep ==
    ASSUME IncInv, OpsInv, V2, UNCHANGED layout, NEW k \in Caller, NEW q, Becomes(k, q),
           V2Shape(q), EdgeFits(q, edge'),
           \A j \in Caller \ {k} : Birth(q) \/ Birth(call[j]) => call[j].agent # q.agent,
           \A a \in Agent : \/ edge'[a] = edge[a]
                            \/ a = call[k].agent /\ (edge'[a] = "closed" \/ Birth(call[k])),
           \A a \in Agent : Known(a)' => edge'[a] # "none"
    PROVE  OpsInv'
  <1>0. call \in [Caller -> Op] /\ (V2' <=> V2)
    BY DEF IncInv, StateOK, V2
  <1>1. call'[k] = q /\ \A j \in Caller \ {k} : call'[j] = call[j]
    BY <1>0 DEF Becomes
  <1>2. \A j \in Caller : V2Shape(call[j]) /\ EdgeFits(call[j], edge) /\ Alone(j)
    BY DEF OpsInv
  <1>3. ASSUME NEW j \in Caller \ {k}
        PROVE  EdgeFits(call[j], edge')
    <2> DEFINE d == call[j]
               a == d.agent
    <2>0. V2Shape(d) /\ EdgeFits(d, edge) /\ (d.pc = "release" => a \in Agent)
      BY <1>2, CallFacts DEF Shape, AgentPC, PC
    <2>1. CASE a \notin Agent
      BY <2>0, <2>1 DEF V2Shape, EdgeFits
    <2>2. CASE a \in Agent /\ edge'[a] = edge[a]
      BY <2>0, <2>2 DEF EdgeFits
    <2>3. CASE a \in Agent /\ edge'[a] # edge[a]
      <3>1. a = call[k].agent /\ (edge'[a] = "closed" \/ Birth(call[k]))
        BY <2>3
      <3>2. ~Birth(call[k]) /\ ~Birth(d)
        BY <1>2, <3>1 DEF Alone, Birth
      <3>3. edge'[a] = "closed" /\ ~(d.kind = "spawn" /\ d.pc \in BirthPC) /\ LatePC \subseteq BirthPC
            /\ "commit" \in BirthPC
        BY <3>1, <3>2 DEF Birth, BirthPC, LatePC
      <3> QED  BY <3>3 DEF EdgeFits
    <2> QED  BY <2>1, <2>2, <2>3
  <1>4. ASSUME NEW j \in Caller
        PROVE  Alone(j)'
    <2> SUFFICES ASSUME Birth(call'[j]), NEW i \in Caller \ {j}
                 PROVE  call'[i].agent # call'[j].agent
      BY DEF Alone, Birth
    <2>1. CASE j = k
      BY <1>1, <2>1
    <2>2. CASE j # k /\ i = k
      BY <1>1, <2>2
    <2>3. CASE j # k /\ i # k
      BY <1>1, <1>2, <2>3 DEF Alone, Birth
    <2> QED  BY <2>1, <2>2, <2>3
  <1>5. \A j \in Caller : V2Shape(call'[j]) /\ EdgeFits(call'[j], edge')
    BY <1>1, <1>2, <1>3
  <1> QED  BY <1>0, <1>4, <1>5 DEF OpsInv

\* The idle operation fits everything.
LEMMA IdleFits ==
    /\ V2Shape(Idle) /\ Idle.agent = Nobody /\ Idle.cand = Nobody /\ Idle.kind = "none"
    /\ Idle.pc = "idle" /\ ~Birth(Idle)
    /\ \A e : EdgeFits(Idle, e)
  BY DEF Idle, V2Shape, EdgeFits, Birth, SlotPC, SpotPC

\* No step of an operation forgets that an agent has an edge.
LEMMA V2EdgesStay ==
    ASSUME IncInv, OpsInv, V2, NEW k \in Caller, V2Step(k, call[k], call'[k])
    PROVE  /\ edge' \in [Agent -> {"none", "open", "closed"}]
           /\ \A a \in Agent : edge[a] # "none" => edge'[a] # "none"
           /\ \A a \in Agent : \/ edge'[a] = edge[a]
                               \/ a = call[k].agent /\ (edge'[a] = "closed" \/ Birth(call[k]))
           /\ Persist(k) => \A a \in Agent : a = call[k].agent => edge'[a] = "open"
           /\ Construct(k) => \A a \in Agent : a = call[k].agent => edge'[a] # "closed"
           /\ CleanUp(k) => \A a \in Agent : a = call[k].agent => edge'[a] = "closed"
  <1> DEFINE c == call[k]
  <1>1. /\ c \in Op /\ Shape(c) /\ V2Shape(c) /\ EdgeFits(c, edge)
        /\ edge \in [Agent -> {"none", "open", "closed"}]
    BY CallFacts DEF OpsInv
  <1>2. /\ c.pc \in {"construct", "store"} => Birth(c)
        /\ c.pc = "construct" => edge[c.agent] = "none" /\ c.agent \in Agent
    BY <1>1 DEF V2Shape, Shape, BirthPC, LatePC, Birth, EdgeFits, ClosePC, SlotPC
  <1>3. c.pc # "stale"
    BY <1>1 DEF V2Shape, Shape, ClosePC
  <1>4. CASE UNCHANGED edge /\ ~Persist(k) /\ ~CleanUp(k)
    <2>1. Construct(k) => c.pc = "construct"
      BY DEF Construct
    <2> QED  BY <1>1, <1>2, <1>4, <2>1
  <1>8. CASE Construct(k) /\ edge' = EdgeIfAbsent(c.agent)
    <2>1. c.pc = "construct" /\ edge' = [edge EXCEPT ![c.agent] = "open"]
      BY <1>2, <1>8 DEF Construct, EdgeIfAbsent
    <2>2. ~CleanUp(k) /\ ~Persist(k)
      BY <2>1 DEF CleanUp, Persist
    <2> QED  BY <1>1, <1>2, <2>1, <2>2
  <1>5. CASE Persist(k)
    <2>1. c.pc = "store" /\ edge' = [edge EXCEPT ![c.agent] = "open"]
      BY <1>5 DEF Persist
    <2>2. ~CleanUp(k) /\ ~Construct(k)
      BY <2>1 DEF CleanUp, Construct
    <2> QED  BY <1>1, <1>2, <2>1, <2>2
  <1>6. CASE CleanUp(k)
    <2>1. c.pc = "died" /\ edge' = [edge EXCEPT ![c.agent] = "closed"]
      BY <1>6 DEF CleanUp, CloseEdge
    <2>2. ~Persist(k) /\ ~Construct(k)
      BY <2>1 DEF Persist, Construct
    <2> QED  BY <1>1, <2>1, <2>2
  <1>7. CASE CancelInStore(k)
    <2>1. \/ c.pc = "store" /\ edge' = [edge EXCEPT ![c.agent] = "open"]
          \/ c.pc = "died" /\ edge' = [edge EXCEPT ![c.agent] = "closed"]
      BY <1>3, <1>7 DEF CancelInStore
    <2>2. ~Construct(k)
      BY <2>1 DEF Construct
    <2> QED  BY <1>1, <1>2, <1>5, <1>6, <2>1, <2>2
  <1> QED  BY <1>4, <1>5, <1>6, <1>7, <1>8, V2Edges

\* The steps that leave the edges alone, and where they lead.
Moves(c, q) ==
    \/ c.pc = "reserve" /\ q.pc = (IF c.kind = "spawn" THEN "register" ELSE "load")
       /\ q.kind = c.kind /\ q.agent = c.agent /\ q.todo = c.todo
       /\ q.slot = TRUE /\ q.spot = c.spot
    \/ Follows(c, q, "reserve", "scan")
    \/ Follows(c, q, "scan", "check")
    \/ Follows(c, q, "check", "evict")
    \/ Follows(c, q, "check", "scan")
    \/ Follows(c, q, "evict", "unload")
    \/ c.kind # "unload" /\ Follows(c, q, "unload", "reserve")
    \/ c.pc = "register" /\ c.kind = "spawn" /\ q.pc = "construct"
       /\ q.kind = c.kind /\ q.agent = c.agent /\ q.todo = c.todo
       /\ q.slot = c.slot /\ q.spot = TRUE
    \/ c.kind = "message" /\ Follows(c, q, "load", "commit")
    \/ c.kind = "message" /\ Follows(c, q, "load", "finalize")
    \/ c.kind = "message" /\ Follows(c, q, "finalize", "commit")
    \/ c.kind = "spawn" /\ Follows(c, q, "finalize", "persist")
    \/ c.kind = "message" /\ Follows(c, q, "finalize", "drain")
    \/ c.pc = "drain" /\ Sends(c, q)
    \/ c.kind = "spawn" /\ Follows(c, q, "persist", "store")
    \/ c.kind = "spawn" /\ Follows(c, q, "store", "undo")
    \/ c.kind = "spawn" /\ Follows(c, q, "undo", "rollback")
    \/ c.pc = "commit" /\ Sends(c, q)
    \/ Follows(c, q, "fetch", "submit")
    \/ Follows(c, q, "submit", "died")

\* The moves, by what they do to an edge.
LEMMA V2Splits ==
    ASSUME NEW k \in Caller, NEW c, NEW q, V2Step(k, c, q)
    PROVE  \/ Ends(k) /\ q = Idle
           \/ Construct(k) /\ c.kind = "spawn" /\ Follows(c, q, "construct", "finalize")
           \/ Persist(k) /\ c.kind = "spawn" /\ Follows(c, q, "store", "commit")
           \/ CleanUp(k) /\ Follows(c, q, "died", "release")
           \/ UNCHANGED edge /\ Moves(c, q)
  <1>1. \/ Ends(k) /\ q = Idle
        \/ Construct(k) /\ c.kind = "spawn" /\ Follows(c, q, "construct", "finalize")
        \/ Persist(k) /\ c.kind = "spawn" /\ Follows(c, q, "store", "commit")
        \/ CleanUp(k) /\ Follows(c, q, "died", "release")
        \/ Moves(c, q) /\ (\/ ReserveSlot(k) \/ NoRoom(k) \/ PopLru(k) \/ CheckCandidate(k)
                            \/ SubmitShutdown(k) \/ RemoveUnloaded(k) \/ Register(k) \/ Load(k)
                            \/ Finalize(k) \/ FinalizeDuplicate(k) \/ UseLoaded(k)
                            \/ CheckRuntime(k) \/ PersistFails(k) \/ Undo(k) \/ Commit(k)
                            \/ Fetch(k) \/ SubmitFails(k))
    BY DEF V2Step, Moves
  <1>2. (\/ ReserveSlot(k) \/ NoRoom(k) \/ PopLru(k) \/ CheckCandidate(k)
         \/ SubmitShutdown(k) \/ RemoveUnloaded(k) \/ Register(k) \/ Load(k)
         \/ Finalize(k) \/ FinalizeDuplicate(k) \/ UseLoaded(k)
         \/ CheckRuntime(k) \/ PersistFails(k) \/ Undo(k) \/ Commit(k)
         \/ Fetch(k) \/ SubmitFails(k)) => UNCHANGED edge
    BY DEF ReserveSlot, NoRoom, PopLru, CheckCandidate, SubmitShutdown, RemoveUnloaded, Register,
           Load, Finalize, FinalizeDuplicate, UseLoaded, CheckRuntime, PersistFails, Undo, Commit,
           Fetch, SubmitFails
  <1> QED  BY <1>1, <1>2

\* A move that writes no edge keeps the operation in step with it.
LEMMA MovesFit ==
    ASSUME NEW c, NEW q, NEW e, Shape(c), V2Shape(c), EdgeFits(c, e), Moves(c, q)
    PROVE  /\ V2Shape(q) /\ EdgeFits(q, e)
           /\ Birth(q) => Birth(c)
           /\ q.agent = c.agent
  <1>1. /\ q.agent = c.agent /\ q.kind = c.kind
        /\ q.pc \in BirthPC /\ c.kind = "spawn" => c.pc \in BirthPC
    BY DEF Moves, Follows, Sends, BirthPC, LatePC, V2Shape, SendPC
  <1>2. V2Shape(q)
    BY DEF Moves, Follows, Sends, V2Shape, Shape, BirthPC, LatePC, SendPC, SlotPC, SpotPC
  <1>3. EdgeFits(q, e)
    BY DEF Moves, Follows, Sends, V2Shape, EdgeFits, BirthPC, LatePC, SendPC
  <1> QED  BY <1>1, <1>2, <1>3 DEF Birth

\* The operation that moved is in step with the edge of its agent.
LEMMA OpsMoves ==
    ASSUME IncInv, OpsInv, V2, NEW k \in Caller, V2Step(k, call[k], call'[k])
    PROVE  /\ V2Shape(call'[k]) /\ EdgeFits(call'[k], edge')
           /\ Birth(call'[k]) => Birth(call[k]) /\ call'[k].agent = call[k].agent
           /\ call'[k].agent \in {call[k].agent, Nobody}
  <1> DEFINE c == call[k]
             q == call'[k]
  <1> SUFFICES /\ V2Shape(q) /\ EdgeFits(q, edge')
               /\ Birth(q) => Birth(c) /\ q.agent = c.agent
               /\ q.agent \in {c.agent, Nobody}
    OBVIOUS
  <1>1. /\ Shape(c) /\ V2Shape(c) /\ EdgeFits(c, edge)
        /\ c.pc \in AgentPC => c.agent \in Agent
    BY CallFacts DEF OpsInv, Shape
  <1>2. /\ Persist(k) => \A a \in Agent : a = c.agent => edge'[a] = "open"
        /\ Construct(k) => \A a \in Agent : a = c.agent => edge'[a] # "closed"
        /\ CleanUp(k) => \A a \in Agent : a = c.agent => edge'[a] = "closed"
    BY V2EdgesStay
  <1>3. \/ Ends(k) /\ q = Idle
        \/ Construct(k) /\ c.kind = "spawn" /\ Follows(c, q, "construct", "finalize")
        \/ Persist(k) /\ c.kind = "spawn" /\ Follows(c, q, "store", "commit")
        \/ CleanUp(k) /\ Follows(c, q, "died", "release")
        \/ UNCHANGED edge /\ Moves(c, q)
    BY V2Splits
  <1> HIDE DEF c, q
  <1>4. CASE q = Idle
    BY <1>4, IdleFits
  <1>5. CASE Persist(k) /\ c.kind = "spawn" /\ Follows(c, q, "store", "commit")
    <2>1. c.agent \in Agent
      BY <1>1, <1>5 DEF V2Shape
    <2> QED  BY <1>1, <1>2, <1>5, <2>1
             DEF Follows, V2Shape, EdgeFits, Birth, BirthPC, LatePC, SendPC, SlotPC, SpotPC
  <1>8. CASE Construct(k) /\ c.kind = "spawn" /\ Follows(c, q, "construct", "finalize")
    <2>1. c.agent \in Agent
      BY <1>1, <1>8 DEF V2Shape
    <2> QED  BY <1>1, <1>2, <1>8, <2>1
             DEF Follows, V2Shape, EdgeFits, Birth, BirthPC, LatePC, SendPC, SlotPC, SpotPC
  <1>6. CASE CleanUp(k) /\ Follows(c, q, "died", "release")
    <2>1. c.agent \in Agent
      BY <1>1, <1>6 DEF Follows, AgentPC, PC
    <2>2. q.pc = "release" /\ edge'[q.agent] = "closed" /\ q.kind = c.kind /\ q.agent = c.agent
          /\ c.pc = "died"
      BY <1>2, <1>6, <2>1 DEF Follows
    <2>3. EdgeFits(q, edge')
      BY <2>2 DEF EdgeFits, BirthPC, LatePC
    <2>4. V2Shape(q)
      BY <1>1, <1>6 DEF Follows, V2Shape, BirthPC, LatePC, SendPC, SlotPC, SpotPC
    <2> QED  BY <2>2, <2>3, <2>4 DEF Birth, BirthPC, LatePC
  <1>7. CASE UNCHANGED edge /\ Moves(c, q)
    <2>1. V2Shape(q) /\ EdgeFits(q, edge) /\ (Birth(q) => Birth(c)) /\ q.agent = c.agent
      BY <1>1, <1>7, MovesFit
    <2>2. EdgeFits(q, edge')
      BY <1>7, <2>1
    <2> QED  BY <2>1, <2>2
  <1> QED  BY <1>3, <1>4, <1>5, <1>6, <1>7, <1>8

\* A step of a V2 operation keeps OpsInv.
LEMMA OpsStep ==
    ASSUME IncInv, RegistryInv, OpsInv, V2, UNCHANGED layout, NEW k \in Caller,
           Step(k) \/ UnloadTimeout(k) \/ Cancel(k) \/ Detach(k) \/ CancelInStore(k)
    PROVE  OpsInv'
  <1> DEFINE c == call[k]
             q == call'[k]
  <1>0. V2Step(k, c, q)
    BY V2Moves
  <1>1. /\ V2Shape(q) /\ EdgeFits(q, edge') /\ (Birth(q) => Birth(c) /\ q.agent = c.agent)
        /\ q.agent \in {c.agent, Nobody}
    BY <1>0, OpsMoves
  <1>2. Becomes(k, q)
    <2>1. PICK r : Becomes(k, r)
      BY DEF Step, ReserveSlot, NoRoom, PopLru, LimitReached, CheckCandidate, SubmitShutdown,
             RemoveUnloaded, Register, RegisterFails, Load, Construct, Finalize, FinalizeDuplicate,
             UseLoaded, CheckRuntime, CheckRuntimeFails, Persist, PersistFails, Undo, RolledBack,
             Commit, Resumed, Fetch, Submit, Flush, FlushFails,
             SubmitFails, CleanUp, CleanUpFails, Release, Target, Shut, Halt, CommitClose,
             CommitCloseFails, Closed, CloseStale, CloseStaleFails, Descend, NextDescendant,
             UnloadTimeout, Cancel, Detach, CancelInStore, Fail, Goto
    <2>2. call \in [Caller -> Op]
      BY DEF IncInv, StateOK
    <2> QED  BY <2>1, <2>2 DEF Becomes
  <1>3. ASSUME NEW j \in Caller \ {k}, Birth(q) \/ Birth(call[j])
        PROVE  call[j].agent # q.agent
    <2>1. Alone(j) /\ Alone(k) /\ (Birth(call[j]) => call[j].agent \in Agent)
      BY DEF OpsInv, V2Shape, Birth
    <2>2. CASE Birth(q)
      BY <1>1, <2>1, <2>2 DEF Alone, Birth
    <2>3. CASE Birth(call[j])
      BY <1>1, <2>1, <2>3, NameAssumption DEF Alone, Birth, Nobody
    <2> QED  BY <1>3, <2>2, <2>3
  <1>4. /\ \A a \in Agent : edge[a] # "none" => edge'[a] # "none"
        /\ \A a \in Agent : \/ edge'[a] = edge[a]
                            \/ a = c.agent /\ (edge'[a] = "closed" \/ Birth(c))
    BY <1>0, V2EdgesStay
  <1>5. ASSUME NEW a \in Agent, Known(a)'
        PROVE  edge'[a] # "none"
    <2>1. Known(a) \/ (Commit(k) /\ c.spot /\ a = c.agent)
      BY <1>0, <1>5, V2Tree
    <2>2. CASE Known(a)
      BY <1>4, <2>2 DEF OpsInv
    <2>3. CASE Commit(k) /\ c.spot /\ a = c.agent
      <3>1. c.pc = "commit" /\ Shape(c) /\ V2Shape(c) /\ EdgeFits(c, edge)
        BY <2>3, CallFacts DEF Commit, OpsInv
      <3>2. c.kind = "spawn"
        BY <2>3, <3>1 DEF Shape, V2Shape
      <3>3. edge[a] # "none"
        BY <2>3, <3>1, <3>2 DEF EdgeFits
      <3> QED  BY <1>4, <3>3
    <2> QED  BY <2>1, <2>2, <2>3
  <1> HIDE DEF q
  <1> QED  BY <1>1, <1>2, <1>3, <1>4, <1>5, OpsKeep

\* A V2 operation begins.
LEMMA V2Begins ==
    ASSUME IncInv, V2, NEW k \in Caller, Begin(k)
    PROVE  /\ call[k] = Idle /\ UNCHANGED <<edge, tree, rt, latest, run, cut, stray>>
           /\ \E a \in Agent :
                 \/ Spawn(k, a) /\ Becomes(k, Start("spawn", a, "reserve"))
                 \/ MessageV2(k, a) /\ \E p \in {"fetch", "reserve"} : Becomes(k, Start("message", a, p))
                 \/ Unload(k, a) /\ Becomes(k, [Start("unload", Nobody, "evict") EXCEPT
                                                  !.cand = a, !.cexp = rt[a]])
  BY DEF Begin, Spawn, MessageV2, MessageV1, Resume, Close, Unload, runtimeVars, registryVars

\* A new operation is in step, and shares no birth with another one.
LEMMA OpsBegin ==
    ASSUME IncInv, RegistryInv, OpsInv, V2, UNCHANGED layout, NEW k \in Caller, Begin(k)
    PROVE  OpsInv'
  <1>0. call[k] = Idle /\ UNCHANGED <<edge, tree>> /\ PathInv
    BY V2Begins DEF RegistryInv
  <1>1. \A j \in Caller : Alone(j) /\ V2Shape(call[j]) /\ EdgeFits(call[j], edge)
    BY DEF OpsInv
  <1>2. \A b \in Agent : Known(b)' => edge'[b] # "none"
    BY <1>0 DEF OpsInv, Known, Key
  <1>3. PICK a \in Agent :
           \/ Spawn(k, a) /\ Becomes(k, Start("spawn", a, "reserve"))
           \/ MessageV2(k, a) /\ \E p \in {"fetch", "reserve"} : Becomes(k, Start("message", a, p))
           \/ Unload(k, a) /\ Becomes(k, [Start("unload", Nobody, "evict") EXCEPT
                                            !.cand = a, !.cexp = rt[a]])
    BY V2Begins
  <1>4. CASE Spawn(k, a) /\ Becomes(k, Start("spawn", a, "reserve"))
    <2> DEFINE q == Start("spawn", a, "reserve")
    <2>1. /\ q.kind = "spawn" /\ q.agent = a /\ q.pc = "reserve" /\ q.slot = FALSE
          /\ q.spot = FALSE /\ q.todo = {}
      BY DEF Start, Idle
    <2>2. edge[a] = "none" /\ \A j \in Caller : call[j].agent # a
      BY <1>4 DEF Spawn
    <2>3. Becomes(k, q)
      BY <1>4
    <2> HIDE DEF q
    <2>4. V2Shape(q)
      BY <2>1 DEF V2Shape, BirthPC, LatePC, SlotPC, SpotPC
    <2>5. EdgeFits(q, edge')
      BY <1>0, <2>1, <2>2 DEF EdgeFits, LatePC, SendPC
    <2> QED  BY <1>0, <1>2, <2>1, <2>2, <2>3, <2>4, <2>5, OpsKeep
  <1>5. CASE MessageV2(k, a) /\ \E p \in {"fetch", "reserve"} : Becomes(k, Start("message", a, p))
    <2>0. PICK p \in {"fetch", "reserve"} : Becomes(k, Start("message", a, p))
      BY <1>5
    <2> DEFINE q == Start("message", a, p)
    <2>1. q.kind = "message" /\ q.agent = a /\ q.pc = p /\ q.slot = FALSE /\ q.spot = FALSE /\ q.todo = {}
      BY DEF Start, Idle
    <2>2. Known(a) /\ edge[a] # "none"
      BY <1>5 DEF MessageV2, OpsInv
    <2>3. Becomes(k, q)
      BY <2>0
    <2> HIDE DEF q
    <2>4. V2Shape(q)
      BY <2>1 DEF V2Shape
    <2>5. EdgeFits(q, edge')
      BY <1>0, <2>1, <2>2 DEF EdgeFits
    <2>6. ASSUME NEW j \in Caller \ {k}, Birth(q) \/ Birth(call[j])
          PROVE  call[j].agent # q.agent
      <3>1. Birth(call[j])
        BY <2>1, <2>6 DEF Birth
      <3> SUFFICES ASSUME call[j].agent = a PROVE FALSE
        BY <2>1
      <3>2. CASE call[j].pc \notin LatePC
        BY <1>1, <2>2, <3>1, <3>2 DEF EdgeFits, Birth
      <3>3. CASE call[j].pc \in LatePC
        <4>1. call[j].spot
          BY <1>1, <3>1, <3>3 DEF V2Shape, Birth, SlotPC, SpotPC, LatePC
        <4>2. tree[Key(a)] = Reserved
          BY <1>0, <4>1 DEF PathInv
        <4> QED  BY <2>2, <4>2, NameAssumption DEF Known
      <3> QED  BY <3>2, <3>3
    <2> QED  BY <1>0, <1>2, <2>3, <2>4, <2>5, <2>6, OpsKeep
  <1>6. CASE Unload(k, a) /\ Becomes(k, [Start("unload", Nobody, "evict") EXCEPT
                                            !.cand = a, !.cexp = rt[a]])
    <2> DEFINE q == [Start("unload", Nobody, "evict") EXCEPT !.cand = a, !.cexp = rt[a]]
    <2>1. q.kind = "unload" /\ q.agent = Nobody /\ q.pc = "evict" /\ q.slot = FALSE
          /\ q.spot = FALSE /\ q.todo = {}
      BY DEF Start, Idle
    <2>2. Becomes(k, q)
      BY <1>6
    <2> HIDE DEF q
    <2>3. V2Shape(q)
      BY <2>1 DEF V2Shape
    <2>4. EdgeFits(q, edge')
      BY <2>1 DEF EdgeFits
    <2>5. ASSUME NEW j \in Caller \ {k}, Birth(q) \/ Birth(call[j])
          PROVE  call[j].agent # q.agent
      BY <1>1, <2>1, <2>5, NameAssumption DEF Birth, V2Shape, Nobody
    <2> QED  BY <1>0, <1>2, <2>2, <2>3, <2>4, <2>5, OpsKeep
  <1> QED  BY <1>3, <1>4, <1>5, <1>6

-----------------------------------------------------------------------------
(* A restart.                                                              *)

\* What a restart restores is open.
LEMMA DescendantsOpen == \A a \in OpenDescendants : a \in Agent /\ edge[a] = "open"
  <1> DEFINE S == {d \in Agent : edge[d] = "open"}
  <1>1. \A d \in Agent : edge[d] = "open" /\ layout.parent[d] \in S \cup {Root} => d \in S
    OBVIOUS
  <1>2. S \in SUBSET Agent
    OBVIOUS
  <1>3. \A a \in OpenDescendants : a \in Agent /\ a \in S
    BY <1>1, <1>2 DEF OpenDescendants
  <1> QED  BY <1>3

\* After a crash the registry knows the agents that were restored.
LEMMA Restored ==
    ASSUME IncInv, V2, Crash
    PROVE  \E S \in SUBSET Agent :
              /\ Restorable(S)
              /\ \A T \in SUBSET Agent : S \subseteq T /\ Restorable(T) => T = S
              /\ \A a \in Agent : Known(a)' <=> a \in S
  <1>0. layout \in Layouts /\ UNCHANGED layout
    BY DEF IncInv, StateOK, Crash
  <1>1. \A a \in Agent : Key(a) \in Agent /\ Key(a)' = Key(a) /\ a # Free
    BY <1>0, KeyFacts DEF Key
  <1>2. PICK S \in SUBSET Agent :
          /\ Restorable(S)
          /\ \A T \in SUBSET Agent : S \subseteq T /\ Restorable(T) => T = S
          /\ tree' = [x \in Agent |-> IF \E a \in S : Key(a) = x
                                      THEN CHOOSE a \in S : Key(a) = x ELSE Free]
    BY DEF Crash
  <1>3. ASSUME NEW x \in Agent
        PROVE  \/ tree'[x] = Free /\ ~ \E a \in S : Key(a) = x
               \/ tree'[x] \in S /\ Key(tree'[x]) = x
    <2>1. CASE \E a \in S : Key(a) = x
      BY <1>2, <2>1
    <2>2. CASE ~ \E a \in S : Key(a) = x
      BY <1>2, <2>2
    <2> QED  BY <2>1, <2>2
  <1>4. \A a \in Agent : Known(a)' <=> a \in S
    <2> TAKE a \in Agent
    <2>1. Known(a)' <=> tree'[Key(a)] = a
      BY <1>1 DEF Known
    <2>2. a \in S => tree'[Key(a)] = a
      BY <1>1, <1>2, <1>3 DEF Restorable
    <2>3. tree'[Key(a)] = a => a \in S
      BY <1>1, <1>3
    <2> QED  BY <2>1, <2>2, <2>3
  <1> QED  BY <1>2, <1>4

\* After a crash no operation is in progress.
LEMMA CrashIdle ==
    ASSUME Crash
    PROVE  /\ \A k \in Caller : call'[k] = Idle
           /\ UNCHANGED <<layout, edge, stray>> /\ residents' = <<>>
           /\ \A a \in Agent : rt'[a] = 0 /\ \A i \in Inc : run'[a][i] = "none"
           /\ cut' = {a \in cut : edge[a] # "none"}
  BY DEF Crash

\* A crash leaves no operation behind.
LEMMA OpsCrash ==
    ASSUME IncInv, V2, Crash
    PROVE  OpsInv'
  <1>1. \A k \in Caller : V2Shape(call'[k]) /\ EdgeFits(call'[k], edge') /\ ~Birth(call'[k])
    BY CrashIdle, IdleFits
  <1>2. \A k \in Caller : Alone(k)'
    BY <1>1 DEF Alone, Birth
  <1>3. \A a \in Agent : Known(a)' => edge'[a] # "none"
    BY CrashIdle, Restored, DescendantsOpen DEF Restorable
  <1> QED  BY <1>1, <1>2, <1>3 DEF OpsInv

\* A session loop touches neither operations nor edges nor registry.
LEMMA LoopSteps ==
    ASSUME NEW a \in Agent, NEW i \in Inc, TurnEnds(a, i) \/ LoopExits(a, i)
    PROVE  UNCHANGED <<layout, edge, rt, latest, tree, count, residents, pending, call, cut, stray>>
  BY DEF TurnEnds, LoopExits, registryVars, residencyVars

\* In V2 an agent that runs a turn has its edge.
LEMMA NoAppend ==
    ASSUME ParentInv, V2, NEW a \in Agent, NEW i \in Inc, AppendTurn(a, i)
    PROVE  FALSE
  BY DEF ParentInv, AppendTurn

\* Every step keeps operations and edges in step.
LEMMA OpsKeeps ==
    ASSUME IncInv, RegistryInv, OpsInv, ParentInv, [Next]_vars
    PROVE  OpsInv'
  <1>1. CASE UNCHANGED <<layout, edge, tree, call>>
    BY <1>1 DEF OpsInv, V2, Alone, Known, Key
  <1>2. CASE ~V2 /\ UNCHANGED layout
    BY <1>2 DEF OpsInv, V2
  <1>3. CASE V2 /\ UNCHANGED layout /\ Next
    <2>1. ASSUME NEW a \in Agent, NEW i \in Inc, TurnEnds(a, i) \/ LoopExits(a, i)
          PROVE  OpsInv'
      BY <1>1, <2>1, LoopSteps
    <2> QED  BY <1>3, <2>1, NoAppend, OpsStep, OpsBegin, OpsCrash DEF Next
  <1> QED  BY <1>1, <1>2, <1>3, LayoutKeeps DEF vars
-----------------------------------------------------------------------------
(* KnownIsOpen.                                                            *)

\* Only a crash forgets what cancellations left behind; what a spawn left
\* behind stays.
LEMMA CutStays ==
    ASSUME Next, ~Crash
    PROVE  cut \subseteq cut' /\ stray \subseteq stray'
  <1>1. ASSUME NEW k \in Caller, Begin(k)
        PROVE  UNCHANGED <<cut, stray>>
    BY <1>1 DEF Begin, Spawn, MessageV2, MessageV1, Resume, Close, Unload
  <1>2. ASSUME NEW k \in Caller, Step(k)
        PROVE  UNCHANGED cut /\ stray \subseteq stray'
    BY <1>2 DEF Step, ReserveSlot, NoRoom, PopLru, LimitReached, CheckCandidate, SubmitShutdown,
                RemoveUnloaded, Register, RegisterFails, Load, Construct, Finalize,
                FinalizeDuplicate, UseLoaded, CheckRuntime, CheckRuntimeFails, Persist,
                PersistFails, Undo, RolledBack, Commit, Resumed, Fetch, Submit, SubmitFails,
                CleanUp, CleanUpFails, Release, Target, Flush, FlushFails, Shut, Halt,
                CommitClose, CommitCloseFails, Closed, CloseStale, CloseStaleFails, Descend,
                NextDescendant, Fail
  <1>3. ASSUME NEW k \in Caller, UnloadTimeout(k) \/ Cancel(k) \/ Detach(k) \/ CancelInStore(k)
        PROVE  cut \subseteq cut' /\ stray \subseteq stray'
    BY <1>3 DEF UnloadTimeout, Cancel, Detach, CancelInStore
  <1>4. ASSUME NEW a \in Agent, NEW i \in Inc,
               AppendTurn(a, i) \/ TurnEnds(a, i) \/ LoopExits(a, i)
        PROVE  UNCHANGED <<cut, stray>>
    BY <1>4, LoopSteps DEF AppendTurn
  <1> QED  BY <1>1, <1>2, <1>3, <1>4 DEF Next

\* The other operations stay as they are.
LEMMA OthersStay ==
    ASSUME IncInv, NEW k \in Caller,
           \/ Begin(k) \/ Step(k) \/ UnloadTimeout(k) \/ Cancel(k) \/ Detach(k) \/ CancelInStore(k)
    PROVE  \A j \in Caller \ {k} : call'[j] = call[j]
  <1>1. PICK r : Becomes(k, r)
    BY DEF Begin, Spawn, MessageV2, MessageV1, Resume, Close, Unload,
           Step, ReserveSlot, NoRoom, PopLru, LimitReached, CheckCandidate, SubmitShutdown,
           RemoveUnloaded, Register, RegisterFails, Load, Construct, Finalize, FinalizeDuplicate,
           UseLoaded, CheckRuntime, CheckRuntimeFails, Persist, PersistFails, Undo, RolledBack,
           Commit, Resumed, Fetch, Submit, Flush, FlushFails,
           SubmitFails, CleanUp, CleanUpFails, Release, Target, Shut, Halt, CommitClose,
           CommitCloseFails, Closed, CloseStale, CloseStaleFails, Descend, NextDescendant,
           UnloadTimeout, Cancel, Detach, CancelInStore, Fail, Goto
  <1>2. call \in [Caller -> Op]
    BY DEF IncInv, StateOK
  <1> QED  BY <1>1, <1>2 DEF Becomes

\* An operation at "release" does nothing but release.
LEMMA ReleaseNext ==
    ASSUME NEW k \in Caller, V2Step(k, call[k], call'[k]), call[k].pc = "release"
    PROVE  Release(k)
  <1>1. ~Moves(call[k], call'[k])
    BY DEF Moves, Follows
  <1>2. Ends(k)
    BY <1>1, V2Splits DEF Follows
  <1> QED  BY <1>2 DEF Ends, RemoveUnloaded, LimitReached, RegisterFails, FinalizeDuplicate, UseLoaded,
         CheckRuntimeFails, RolledBack, Submit, SubmitFails, CleanUpFails, UnloadTimeout, Cancel, CancelInStore

\* Every step keeps the edges of the known agents open.
LEMMA KnownStep ==
    ASSUME IncInv, RegistryInv, OpsInv, ParentInv, KnownIsOpen, [Next]_vars
    PROVE  KnownIsOpen'
  <1>1. CASE UNCHANGED <<layout, edge, tree, call>> /\ cut \subseteq cut'
    BY <1>1 DEF KnownIsOpen, V2, Known, Key, At
  <1>2. CASE ~V2 /\ UNCHANGED layout
    BY <1>2 DEF KnownIsOpen, V2
  <1>3. CASE V2 /\ UNCHANGED layout /\ Crash
    BY <1>3, CrashIdle, Restored, DescendantsOpen DEF KnownIsOpen, Restorable
  <1>4. ASSUME V2, UNCHANGED layout, NEW k \in Caller, Begin(k), cut \subseteq cut'
        PROVE  KnownIsOpen'
    <2>1. call[k] = Idle /\ UNCHANGED <<edge, tree>> /\ \A j \in Caller \ {k} : call'[j] = call[j]
      BY <1>4, V2Begins, OthersStay
    <2>2. \A a \in Agent : At(a, {"release"}) => At(a, {"release"})'
      BY <2>1, IdleFits DEF At
    <2>3. \A a \in Agent : Known(a)' <=> Known(a)
      BY <1>4, <2>1 DEF Known, Key
    <2> QED  BY <1>4, <2>1, <2>2, <2>3 DEF KnownIsOpen
  <1>5. ASSUME V2, UNCHANGED layout, NEW k \in Caller, cut \subseteq cut',
               Step(k) \/ UnloadTimeout(k) \/ Cancel(k) \/ Detach(k) \/ CancelInStore(k)
        PROVE  KnownIsOpen'
    <2> DEFINE c == call[k]
               q == call'[k]
    <2>0. V2Step(k, c, q) /\ \A j \in Caller \ {k} : call'[j] = call[j]
      BY <1>5, V2Moves, OthersStay
    <2> SUFFICES ASSUME NEW a \in Agent, Known(a)', a \notin cut', ~At(a, {"release"})'
                 PROVE  edge'[a] = "open"
      BY DEF KnownIsOpen
    <2>1. Known(a) \/ (Commit(k) /\ c.spot /\ a = c.agent)
      BY <1>5, <2>0, V2Tree
    <2>2. CASE Commit(k) /\ c.spot /\ a = c.agent
      <3>1. c.pc = "commit" /\ Shape(c) /\ V2Shape(c) /\ EdgeFits(c, edge) /\ UNCHANGED edge
        BY <1>5, <2>2, CallFacts DEF Commit, OpsInv
      <3>2. c.kind = "spawn"
        BY <1>5, <2>2, <3>1 DEF Shape, V2Shape
      <3> QED  BY <2>2, <3>1, <3>2 DEF EdgeFits
    <2>3. CASE Known(a)
      <3>1. ~At(a, {"release"})
        <4> SUFFICES ASSUME NEW j \in Caller, call[j].agent = a, call[j].pc = "release"
                     PROVE  FALSE
          BY DEF At
        <4>1. CASE j # k
          BY <2>0, <4>1 DEF At
        <4>2. CASE j = k
          BY <1>5, <2>0, <4>2, ReleaseNext, V2Tree
        <4> QED  BY <4>1, <4>2
      <3>2. edge[a] = "open"
        BY <1>5, <2>3, <3>1 DEF KnownIsOpen
      <3>3. CASE UNCHANGED edge
        BY <3>2, <3>3
      <3>4. CASE Persist(k) /\ edge' = [edge EXCEPT ![c.agent] = "open"]
        BY <3>2, <3>4, CallFacts
      <3>7. CASE edge' = EdgeIfAbsent(c.agent)
        BY <3>2, <3>7, CallFacts DEF EdgeIfAbsent
      <3>5. CASE CleanUp(k) /\ edge' = [edge EXCEPT ![c.agent] = "closed"]
        <4>1. q.pc = "release" /\ q.agent = c.agent
          <5>1. CleanUp(k) => q = [c EXCEPT !.pc = "release", !.exp = 0]
            BY CallFacts DEF CleanUp, Becomes, IncInv, StateOK
          <5> QED  BY <3>5, <5>1, CallFacts DEF Op
        <4>2. a # c.agent
          BY <4>1 DEF At
        <4> QED  BY <3>2, <3>5, <4>2, CallFacts
      <3>6. CASE CancelInStore(k)
        <4>1. a # c.agent
          BY <3>6 DEF CancelInStore
        <4>2. edge'[a] = edge[a]
          BY <1>5, <2>0, <4>1, V2EdgesStay
        <4> QED  BY <3>2, <4>2
      <3> QED  BY <2>0, <3>3, <3>4, <3>5, <3>6, <3>7, V2Edges
    <2> QED  BY <2>1, <2>2, <2>3
  <1>6. CASE Next /\ ~Crash /\ V2
    <2>1. UNCHANGED layout /\ cut \subseteq cut'
      BY <1>6, LayoutKeeps, CutStays
    <2>2. ASSUME NEW a \in Agent, NEW i \in Inc, TurnEnds(a, i) \/ LoopExits(a, i)
          PROVE  KnownIsOpen'
      BY <1>1, <2>1, <2>2, LoopSteps
    <2> QED  BY <1>4, <1>5, <1>6, <2>1, <2>2, NoAppend DEF Next
  <1>7. UNCHANGED vars => UNCHANGED <<layout, edge, tree, call>> /\ cut \subseteq cut'
    BY DEF vars
  <1> QED  BY <1>1, <1>2, <1>3, <1>6, <1>7, LayoutKeeps

\* At first nobody is known and nothing is under way.
LEMMA InitOps == Init => OpsInv /\ KnownIsOpen
  <1> SUFFICES ASSUME Init PROVE OpsInv /\ KnownIsOpen
    OBVIOUS
  <1>1. \A k \in Caller : call[k] = Idle
    BY DEF Init
  <1>2. \A a \in Agent : ~Known(a)
    <2>1. layout \in Layouts /\ tree = [x \in Agent |-> Free]
      BY DEF Init
    <2> QED  BY <2>1, KeyFacts DEF Known
  <1>3. \A k \in Caller : V2Shape(call[k]) /\ EdgeFits(call[k], edge) /\ Alone(k)
    BY <1>1, IdleFits DEF Alone, Birth
  <1> QED  BY <1>2, <1>3 DEF OpsInv, KnownIsOpen

-----------------------------------------------------------------------------
(* Every agent with an edge has a parent with one.                         *)

\* A step opens an edge only where there was none, for the spawn that made
\* the agent; it closes one only where there was one.
LEMMA NewEdges ==
    ASSUME IncInv, OpsInv, V2, NEW k \in Caller, V2Step(k, call[k], call'[k]), NEW a \in Agent,
           edge'[a] # edge[a]
    PROVE  /\ a = call[k].agent
           /\ \/ edge'[a] = "closed" /\ edge[a] # "none"
              \/ /\ edge'[a] = "open" /\ edge[a] = "none" /\ call[k].kind = "spawn"
                 /\ a \in stray' \/ Persist(k) \/ Construct(k)
  <1> DEFINE c == call[k]
  <1>1. /\ c \in Op /\ Shape(c) /\ V2Shape(c) /\ EdgeFits(c, edge)
        /\ edge \in [Agent -> {"none", "open", "closed"}]
    BY CallFacts DEF OpsInv
  <1>2. c.pc \in {"construct", "store"} => c.kind = "spawn"
    BY <1>1 DEF V2Shape, Shape, BirthPC, LatePC, ClosePC, SlotPC
  <1>3. c.pc # "stale"
    BY <1>1 DEF V2Shape, Shape, ClosePC
  <1>4. c.pc = "store" /\ c.agent \in Agent => edge[c.agent] \in {"none", "open"}
    BY <1>1, <1>2 DEF EdgeFits, LatePC
  <1>5. CASE Persist(k)
    <2>1. c.pc = "store" /\ edge' = [edge EXCEPT ![c.agent] = "open"]
      BY <1>5 DEF Persist
    <2> QED  BY <1>1, <1>2, <1>4, <1>5, <2>1
  <1>6. CASE CleanUp(k)
    <2>1. edge' = [edge EXCEPT ![c.agent] = "closed"] /\ edge[c.agent] # "none"
      BY <1>6 DEF CleanUp, CloseEdge, MayClose
    <2> QED  BY <1>1, <2>1
  <1>7. CASE CancelInStore(k)
    <2>1. /\ \/ /\ c.pc = "store" /\ edge' = [edge EXCEPT ![c.agent] = "open"]
                /\ c.kind = "spawn" => c.agent \in stray'
             \/ edge[c.agent] # "none" /\ edge' = [edge EXCEPT ![c.agent] = "closed"]
      BY <1>3, <1>7 DEF CancelInStore, MayClose
    <2> QED  BY <1>1, <1>2, <1>4, <2>1
  <1>8. CASE Construct(k)
    <2>1. c.pc = "construct" /\ (UNCHANGED edge \/ edge' = EdgeIfAbsent(c.agent))
      BY <1>8 DEF Construct
    <2> QED  BY <1>1, <1>2, <1>8, <2>1 DEF EdgeIfAbsent
  <1> QED  BY <1>5, <1>6, <1>7, <1>8, V2Edges

\* Which loops run a turn: only what was sent an input starts one.
LEMMA BusyStep ==
    ASSUME IncInv, OpsInv, V2, NEW k \in Caller, V2Step(k, call[k], call'[k]),
           NEW a \in Agent, NEW i \in Inc, run'[a][i] \in {"busy", "done"}
    PROVE  run[a][i] \in {"busy", "done"} \/ edge[a] # "none"
  <1> DEFINE c == call[k]
  <1>1. /\ c \in Op /\ Shape(c) /\ V2Shape(c) /\ EdgeFits(c, edge) /\ MaxInc \in Nat
        /\ run \in [Agent -> [Inc -> RunState]] /\ rt \in [Agent -> 0..MaxInc]
    BY CallFacts, LifecycleBoundAssumption DEF OpsInv, IncInv, StateOK
  <1>2. CASE UNCHANGED run
    BY <1>2
  <1>3. ASSUME NEW b, NEW n, run' = Stopped(b, n)
        PROVE  run[a][i] \in {"busy", "done"}
    BY <1>1, <1>3 DEF Stopped
  <1>4. CASE Finalize(k)
    <2>1. run' = [run EXCEPT ![c.agent][latest[c.agent] + 1] = "init"]
      BY <1>4 DEF Finalize
    <2> QED  BY <1>1, <2>1
  <1>5. CASE Submit(k)
    <2>1. c.pc = "submit" /\ (UNCHANGED run \/ run' = [run EXCEPT ![c.agent][Receiver(c)] = "busy"])
      BY <1>5 DEF Submit
    <2>2. edge[c.agent] # "none"
      BY <1>1, <2>1 DEF V2Shape, EdgeFits, BirthPC, LatePC, SendPC
    <2>3. CASE a = c.agent
      BY <2>2, <2>3
    <2>4. CASE a # c.agent
      BY <1>1, <2>1, <2>4
    <2> QED  BY <2>3, <2>4
  <1>6. UNCHANGED run \/ Finalize(k) \/ Submit(k) \/ \E b, n : run' = Stopped(b, n)
    BY DEF V2Step, Ends, RemoveUnloaded, LimitReached, RegisterFails, FinalizeDuplicate, UseLoaded,
         CheckRuntimeFails, RolledBack, SubmitFails, CleanUpFails, Release, UnloadTimeout, Cancel, CancelInStore,
         ReserveSlot, NoRoom, PopLru, CheckCandidate, SubmitShutdown, Register, Load, Construct,
         CheckRuntime, Persist, PersistFails, Undo, Commit, Fetch, CleanUp, runtimeVars
  <1> QED  BY <1>2, <1>3, <1>4, <1>5, <1>6

\* A step of an operation gives an edge only to a child of an agent that had one.
LEMMA ParentStep ==
    ASSUME IncInv, OpsInv, ParentInv, V2, UNCHANGED layout, NEW k \in Caller,
           Step(k) \/ UnloadTimeout(k) \/ Cancel(k) \/ Detach(k) \/ CancelInStore(k)
    PROVE  ParentInv'
  <1> DEFINE c == call[k]
             q == call'[k]
  <1>0. /\ V2Step(k, c, q) /\ \A j \in Caller \ {k} : call'[j] = call[j]
        /\ \A a \in Agent : edge[a] # "none" => edge'[a] # "none"
        /\ layout \in Layouts
    BY V2Moves, OthersStay, V2EdgesStay DEF IncInv, StateOK
  <1>1. \A a \in Agent : layout.parent[a] \in Agent \cup {Root}
    BY <1>0, LayoutAssumption DEF Layout
  <1>2. \A a \in Agent : ParentOK(a, edge) => ParentOK(a, edge')
    BY <1>0, <1>1 DEF ParentOK
  <1>3. q.kind = "spawn" => c.kind = "spawn" /\ q.agent = c.agent
    <2>1. \/ q = Idle \/ Follows(c, q, "construct", "finalize") \/ Follows(c, q, "store", "commit")
          \/ Follows(c, q, "died", "release") \/ Moves(c, q)
      BY <1>0, V2Splits
    <2> HIDE DEF c, q
    <2> QED  BY <2>1, IdleFits DEF Moves, Follows, Sends
  <1>4. \A j \in Caller : /\ call[j].kind = "spawn" => ParentOK(call[j].agent, edge)
                          /\ call[j].kind = "spawn" => call[j].agent \in Agent
    BY DEF ParentInv, OpsInv, V2Shape
  <1>5. \A j \in Caller : call'[j].kind = "spawn" => ParentOK(call'[j].agent, edge')
    BY <1>0, <1>2, <1>3, <1>4
  <1>6. \A a \in Agent : \A i \in Inc : run'[a][i] \in {"busy", "done"} => edge'[a] # "none"
    BY <1>0, BusyStep DEF ParentInv
  <1>7. \A a \in Agent : edge'[a] # "none" => ParentOK(a, edge')
    <2> SUFFICES ASSUME NEW a \in Agent, edge'[a] # "none" PROVE ParentOK(a, edge)
      BY <1>2
    <2>1. CASE edge[a] # "none"
      BY <2>1 DEF ParentInv
    <2>2. CASE edge[a] = "none"
      BY <1>0, <1>4, <2>2, NewEdges
    <2> QED  BY <2>1, <2>2
  <1> QED  BY <1>5, <1>6, <1>7 DEF ParentInv, ParentOK

\* Every step keeps the parents in order.
LEMMA ParentKeeps ==
    ASSUME IncInv, OpsInv, ParentInv, [Next]_vars
    PROVE  ParentInv'
  <1>1. CASE UNCHANGED <<layout, edge, run, call>>
    BY <1>1 DEF ParentInv, V2, ParentOK
  <1>2. CASE ~V2 /\ UNCHANGED layout
    BY <1>2 DEF ParentInv, V2
  <1>3. CASE V2 /\ Crash
    <2>1. \A k \in Caller : call'[k].kind # "spawn"
      BY <1>3, CrashIdle, IdleFits
    <2>2. \A a \in Agent : ParentOK(a, edge)' <=> ParentOK(a, edge)
      BY <1>3, CrashIdle DEF ParentOK
    <2> QED  BY <1>3, <2>1, <2>2, CrashIdle DEF ParentInv, ParentOK
  <1>4. ASSUME V2, UNCHANGED layout, NEW k \in Caller, Begin(k)
        PROVE  ParentInv'
    <2>1. UNCHANGED <<edge, run>> /\ \A j \in Caller \ {k} : call'[j] = call[j]
      BY <1>4, V2Begins, OthersStay
    <2>2. call'[k].kind = "spawn" => ParentOK(call'[k].agent, edge)
      <3>0. PICK a \in Agent :
           \/ Spawn(k, a) /\ Becomes(k, Start("spawn", a, "reserve"))
           \/ MessageV2(k, a) /\ \E p \in {"fetch", "reserve"} : Becomes(k, Start("message", a, p))
           \/ Unload(k, a) /\ Becomes(k, [Start("unload", Nobody, "evict") EXCEPT
                                            !.cand = a, !.cexp = rt[a]])
        BY <1>4, V2Begins
      <3>1. call \in [Caller -> Op] /\ MaxInc \in Nat /\ rt \in [Agent -> 0..MaxInc]
        BY LifecycleBoundAssumption DEF IncInv, StateOK
      <3>2. CASE Spawn(k, a) /\ Becomes(k, Start("spawn", a, "reserve"))
        <4>1. call'[k].agent = a
          BY <3>1, <3>2 DEF Becomes, Start, Idle
        <4>2. \A p \in Agent : Loaded(p) => rt[p] \in Inc
          BY <3>1 DEF Loaded, Inc
        <4>3. ParentOK(a, edge)
          BY <1>4, <3>2, <4>2 DEF Spawn, ParentInv, ParentOK
        <4> QED  BY <4>1, <4>3
      <3>3. CASE \E p \in {"fetch", "reserve"} : Becomes(k, Start("message", a, p))
        BY <3>1, <3>3 DEF Becomes, Start, Idle
      <3>4. CASE Becomes(k, [Start("unload", Nobody, "evict") EXCEPT !.cand = a, !.cexp = rt[a]])
        BY <3>1, <3>4 DEF Becomes, Start, Idle
      <3> QED  BY <3>0, <3>2, <3>3, <3>4
    <2> QED  BY <1>4, <2>1, <2>2 DEF ParentInv, ParentOK
  <1>5. ASSUME V2, UNCHANGED layout, NEW a \in Agent, NEW i \in Inc, TurnEnds(a, i) \/ LoopExits(a, i)
        PROVE  ParentInv'
    <2>1. UNCHANGED <<edge, call>>
      BY <1>5, LoopSteps
    <2>2. run \in [Agent -> [Inc -> RunState]]
      BY DEF IncInv, StateOK
    <2>3. \A b \in Agent : \A j \in Inc : run'[b][j] \in {"busy", "done"} => run[b][j] \in {"busy", "done"}
      BY <1>5, <2>2 DEF TurnEnds, LoopExits
    <2> QED  BY <1>5, <2>1, <2>3 DEF ParentInv, ParentOK
  <1> QED  BY <1>1, <1>2, <1>3, <1>4, <1>5, NoAppend, ParentStep, LayoutKeeps DEF Next, vars
-----------------------------------------------------------------------------
(* OpenIsKnown and NamesUnique.                                            *)

\* HeldInv gives every path one agent: it is registered under it, or a spawn
\* has it reserved.
LEMMA HeldUnique ==
    ASSUME IncInv, RegistryInv, OpsInv, HeldInv
    PROVE  NamesUnique
  <1> SUFFICES ASSUME V2, NEW a \in OpenDescendants, NEW b \in OpenDescendants, Key(a) = Key(b),
                      Key(a) \notin TornPaths
               PROVE  a = b
    BY DEF NamesUnique
  <1>1. a \in Agent /\ b \in Agent /\ a # Reserved /\ b # Reserved
    BY NameAssumption, DescendantsOpen
  <1>2. Known(a) \/ Committing(a)
    BY DEF HeldInv
  <1>3. Known(b) \/ Committing(b)
    BY DEF HeldInv
  <1>4. ASSUME NEW d \in Agent, Committing(d)
        PROVE  \E k \in Caller : call[k].spot /\ call[k].agent = d /\ tree[Key(d)] = Reserved
    <2>1. PICK k \in Caller : call[k].kind = "spawn" /\ call[k].pc \in LatePC /\ call[k].agent = d
      BY <1>4 DEF Committing
    <2>2. call[k].spot
      BY <2>1 DEF OpsInv, V2Shape, SlotPC, SpotPC, LatePC
    <2> QED  BY <2>1, <2>2 DEF RegistryInv, PathInv
  <1>5. CASE Known(a) /\ Known(b)
    BY <1>5 DEF Known
  <1>6. CASE Known(a) /\ Committing(b)
    BY <1>1, <1>4, <1>6 DEF Known
  <1>7. CASE Committing(a) /\ Known(b)
    BY <1>1, <1>4, <1>7 DEF Known
  <1>8. CASE Committing(a) /\ Committing(b)
    BY <1>1, <1>4, <1>8 DEF RegistryInv, PathInv
  <1> QED  BY <1>2, <1>3, <1>5, <1>6, <1>7, <1>8

\* A new open edge makes no other agent reachable: nobody is the child of an
\* agent without an edge.
LEMMA DescendantsStay ==
    ASSUME ParentInv, V2, UNCHANGED layout, layout \in Layouts,
           \A d \in Agent : edge'[d] = "open" => edge[d] \in {"open", "none"},
           NEW a \in OpenDescendants'
    PROVE  /\ a \in Agent /\ edge'[a] = "open"
           /\ edge[a] = "none" \/ a \in OpenDescendants
  <1> DEFINE N == {d \in Agent : edge'[d] = "open" /\ edge[d] = "none"}
             S == OpenDescendants \cup N
             R == {d \in Agent : edge'[d] = "open"}
  <1>0. \A d \in Agent : layout.parent[d] \in Agent \cup {Root}
    BY LayoutAssumption DEF Layout
  <1>1. \A b \in OpenDescendants : b \in Agent
    BY DEF OpenDescendants
  <1>2. ASSUME NEW d \in Agent, edge'[d] = "open", layout.parent[d] \in S \cup {Root}
        PROVE  d \in S
    <2>1. CASE edge[d] = "none"
      BY <1>2, <2>1
    <2>2. CASE edge[d] = "open"
      <3>1. layout.parent[d] \notin N
        BY <2>2, NameAssumption DEF ParentInv, ParentOK
      <3>2. layout.parent[d] \in OpenDescendants \cup {Root}
        BY <1>2, <3>1
      <3>3. ASSUME NEW T \in SUBSET Agent,
                   \A x \in Agent : edge[x] = "open" /\ layout.parent[x] \in T \cup {Root} => x \in T
            PROVE  d \in T
        <4>1. OpenDescendants \subseteq T
          BY <3>3 DEF OpenDescendants
        <4> QED  BY <2>2, <3>2, <3>3, <4>1
      <3>4. d \in OpenDescendants
        BY <3>3 DEF OpenDescendants
      <3> QED  BY <3>4
    <2> QED  BY <1>2, <2>1, <2>2
  <1>3. S \in SUBSET Agent
    BY <1>1
  <1>4. a \in Agent /\ \A T \in SUBSET Agent :
           (\A d \in Agent : edge'[d] = "open" /\ layout.parent[d] \in T \cup {Root} => d \in T) => a \in T
    BY DEF OpenDescendants
  <1>5. a \in S
    <2> HIDE DEF S
    <2> QED  BY <1>2, <1>3, <1>4
  <1>6. a \in R
    <2>1. R \in SUBSET Agent /\ \A d \in Agent : edge'[d] = "open" => d \in R
      OBVIOUS
    <2> HIDE DEF R
    <2> QED  BY <1>4, <2>1
  <1> QED  BY <1>4, <1>5, <1>6

\* A spawn whose edge is written commits, goes on, or leaves a stray edge.
LEMMA LateNext ==
    ASSUME NEW k \in Caller, V2Step(k, call[k], call'[k]), call[k].kind = "spawn",
           call[k].pc \in LatePC, edge[call[k].agent] # "none"
    PROVE  \/ Commit(k)
           \/ call[k].agent \in stray'
           \/ /\ call'[k].kind = "spawn" /\ call'[k].pc \in LatePC
              /\ call'[k].agent = call[k].agent
  <1> DEFINE c == call[k]
             q == call'[k]
  <1>1. CASE Ends(k)
    <2>1. c.pc \notin {"unload", "scan", "register", "drain", "submit", "died", "release"}
      BY DEF LatePC
    <2>2. \/ FinalizeDuplicate(k) \/ CheckRuntimeFails(k) \/ RolledBack(k) \/ Cancel(k)
          \/ CancelInStore(k)
      BY <1>1, <2>1 DEF Ends, RemoveUnloaded, LimitReached, RegisterFails, UseLoaded, Submit,
                        SubmitFails, CleanUpFails, Release, UnloadTimeout
    <2>3. CASE CancelInStore(k)
      BY <2>1, <2>3 DEF CancelInStore, LatePC
    <2>4. CASE ~CancelInStore(k)
      <3>1. c.pc \in {"finalize", "persist", "store", "undo", "rollback"}
        BY <2>2, <2>4 DEF FinalizeDuplicate, CheckRuntimeFails, RolledBack, Cancel, LatePC
      <3>2. stray' = stray \cup Strays(c)
        BY <2>2, <2>4 DEF FinalizeDuplicate, CheckRuntimeFails, RolledBack, Cancel, Fail
      <3> QED  BY <3>1, <3>2 DEF Strays
    <2> QED  BY <2>3, <2>4
  <1>2. CASE ~Ends(k)
    <2> HIDE DEF c, q
    <2>1. V2Step(k, c, q) /\ c.kind = "spawn" /\ c.pc \in LatePC
      BY DEF c, q
    <2>2. Commit(k) \/ (q.kind = "spawn" /\ q.pc \in LatePC /\ q.agent = c.agent)
      BY <1>2, <2>1 DEF V2Step, Follows, LatePC
    <2> QED  BY <2>2 DEF c, q
  <1> QED  BY <1>1, <1>2

\* A step of an operation keeps the open descendants known.
LEMMA HeldStep ==
    ASSUME IncInv, RegistryInv, OpsInv, ParentInv, HeldInv, V2, UNCHANGED layout,
           stray \subseteq stray',
           NEW k \in Caller,
           Step(k) \/ UnloadTimeout(k) \/ Cancel(k) \/ Detach(k) \/ CancelInStore(k)
    PROVE  HeldInv'
  <1> DEFINE c == call[k]
             q == call'[k]
  <1>0. /\ V2Step(k, c, q) /\ \A j \in Caller \ {k} : call'[j] = call[j]
        /\ \A a \in Agent : edge[a] # "none" => edge'[a] # "none"
        /\ layout \in Layouts /\ \A a : Key(a)' = Key(a)
        /\ edge \in [Agent -> {"none", "open", "closed"}] /\ stray \subseteq Agent
    BY V2Moves, OthersStay, V2EdgesStay, CallFacts DEF IncInv, StateOK, Key
  <1>1. \A d \in Agent : edge'[d] = "open" => edge[d] \in {"open", "none"}
    BY <1>0, NewEdges
  <1> SUFFICES ASSUME NEW a \in OpenDescendants', Key(a) \notin TornPaths'
               PROVE  Known(a)' \/ Committing(a)'
    BY <1>0 DEF HeldInv
  <1>2. /\ a \in Agent /\ edge'[a] = "open"
        /\ edge[a] = "none" \/ a \in OpenDescendants
    BY <1>0, <1>1, DescendantsStay
  <1>3. CASE edge[a] = "none"
    <2>1. a = c.agent /\ c.kind = "spawn" /\ (a \in stray' \/ Persist(k) \/ Construct(k))
      BY <1>0, <1>2, <1>3, NewEdges
    <2>2. a \notin stray'
      BY <1>0, <1>2 DEF TornPaths
    <2>3. q = [c EXCEPT !.pc = "commit"] \/ q = [c EXCEPT !.pc = "finalize"]
      BY <2>1, <2>2 DEF Persist, Construct, Goto, Becomes, IncInv, StateOK
    <2>4. q.kind = "spawn" /\ q.pc \in LatePC /\ q.agent = a
      BY <2>1, <2>3, CallFacts DEF Op, LatePC
    <2> QED  BY <2>4 DEF Committing
  <1>4. CASE a \in OpenDescendants
    <2>1. TornPaths \subseteq TornPaths'
      BY <1>0 DEF TornPaths, Key
    <2>2. Known(a) \/ Committing(a)
      BY <1>0, <1>4, <2>1 DEF HeldInv
    <2>3. edge[a] = "open"
      BY <1>4, DescendantsOpen
    <2>4. CASE Known(a)
      <3>1. ~(Release(k) /\ a = c.agent)
        BY <2>3 DEF Release, OpsInv, EdgeFits
      <3> QED  BY <1>0, <1>2, <2>4, <3>1, V2Tree
    <2>5. CASE Committing(a)
      <3>1. PICK j \in Caller : call[j].kind = "spawn" /\ call[j].pc \in LatePC /\ call[j].agent = a
        BY <2>5 DEF Committing
      <3>2. CASE j # k
        BY <1>0, <3>1, <3>2 DEF Committing
      <3>3. CASE j = k
        <4>1. c.spot /\ a = c.agent
          BY <3>1, <3>3 DEF OpsInv, V2Shape, SlotPC, SpotPC, LatePC
        <4>2. a \notin stray'
          BY <1>0, <1>2 DEF TornPaths
        <4>3. Commit(k) \/ (q.kind = "spawn" /\ q.pc \in LatePC /\ q.agent = a)
          BY <1>0, <2>3, <3>1, <3>3, <4>1, <4>2, LateNext
        <4>4. CASE Commit(k)
          BY <1>0, <1>2, <4>1, <4>4, V2Tree
        <4>5. CASE q.kind = "spawn" /\ q.pc \in LatePC /\ q.agent = a
          BY <4>5 DEF Committing
        <4> QED  BY <4>3, <4>4, <4>5
      <3> QED  BY <3>2, <3>3
    <2> QED  BY <2>2, <2>4, <2>5
  <1> QED  BY <1>2, <1>3, <1>4

\* A restart restores every agent it reaches whose path was not torn.
LEMMA HeldCrash ==
    ASSUME IncInv, RegistryInv, OpsInv, HeldInv, V2, Crash
    PROVE  HeldInv'
  <1>0. /\ UNCHANGED <<layout, edge, stray>>
        /\ OpenDescendants' = OpenDescendants /\ NamesUnique
    BY CrashIdle, HeldUnique DEF OpenDescendants
  <1>1. TornPaths' = TornPaths
    BY <1>0 DEF TornPaths, Key
  <1>2. PICK S \in SUBSET Agent :
              /\ Restorable(S)
              /\ \A T \in SUBSET Agent : S \subseteq T /\ Restorable(T) => T = S
              /\ \A a \in Agent : Known(a)' <=> a \in S
    BY Restored
  <1> SUFFICES ASSUME NEW a \in OpenDescendants, Key(a)' \notin TornPaths
               PROVE  Known(a)'
    BY <1>0, <1>1 DEF HeldInv
  <1>3. a \in Agent /\ Key(a)' = Key(a)
    BY <1>0, DescendantsOpen DEF Key
  <1>4. \A s \in S : Key(s) = Key(a) => s = a
    BY <1>0, <1>2, <1>3 DEF Restorable, NamesUnique
  <1>5. Restorable(S \cup {a})
    BY <1>2, <1>4 DEF Restorable
  <1>6. S \cup {a} \in SUBSET Agent
    BY <1>3
  <1>7. S \cup {a} = S
    BY <1>2, <1>5, <1>6
  <1> QED  BY <1>2, <1>3, <1>7

\* Every step, crash and restore included, keeps the open descendants known.
LEMMA HeldKeeps ==
    ASSUME IncInv, RegistryInv, OpsInv, ParentInv, HeldInv, [Next]_vars
    PROVE  HeldInv'
  <1>1. CASE UNCHANGED <<layout, edge, tree, call, stray>>
    BY <1>1 DEF HeldInv, V2, Known, Key, Committing, OpenDescendants, TornPaths
  <1>2. CASE ~V2 /\ UNCHANGED layout
    BY <1>2 DEF HeldInv, V2
  <1>3. ASSUME V2, UNCHANGED layout, NEW k \in Caller, Begin(k)
        PROVE  HeldInv'
    <2>1. /\ call[k] = Idle /\ UNCHANGED <<edge, tree, stray>>
          /\ \A j \in Caller \ {k} : call'[j] = call[j]
      BY <1>3, V2Begins, OthersStay
    <2>2. \A a \in Agent : (Committing(a) => Committing(a)') /\ (Known(a) => Known(a)')
      BY <1>3, <2>1, IdleFits DEF Committing, Known, Key
    <2>3. OpenDescendants' = OpenDescendants /\ TornPaths' = TornPaths /\ \A a : Key(a)' = Key(a)
      BY <1>3, <2>1 DEF OpenDescendants, TornPaths, Key
    <2>4. \A a \in OpenDescendants : a \in Agent
      BY DescendantsOpen
    <2> QED  BY <1>3, <2>2, <2>3, <2>4 DEF HeldInv
  <1>4. CASE Next /\ ~Crash /\ V2
    <2>1. UNCHANGED layout /\ stray \subseteq stray'
      BY <1>4, LayoutKeeps, CutStays
    <2>2. ASSUME NEW a \in Agent, NEW i \in Inc, TurnEnds(a, i) \/ LoopExits(a, i)
          PROVE  HeldInv'
      BY <1>1, <2>1, <2>2, LoopSteps
    <2> QED  BY <1>3, <1>4, <2>1, <2>2, NoAppend, HeldStep DEF Next
  <1>5. UNCHANGED vars => UNCHANGED <<layout, edge, tree, call, stray>>
    BY DEF vars
  <1> QED  BY <1>1, <1>2, <1>4, <1>5, LayoutKeeps, HeldCrash

\* At first there is no edge.
LEMMA InitHeld == Init => ParentInv /\ HeldInv
  <1> SUFFICES ASSUME Init PROVE ParentInv /\ HeldInv
    OBVIOUS
  <1>1. /\ \A k \in Caller : call[k].kind # "spawn"
        /\ \A a \in Agent : edge[a] = "none" /\ \A i \in Inc : run[a][i] = "none"
    BY IdleFits DEF Init
  <1>2. \A a \in OpenDescendants : FALSE
    BY <1>1, DescendantsOpen
  <1> QED  BY <1>1, <1>2 DEF ParentInv, HeldInv

\* The inductive invariant of the spawn edges in V2.
EdgeInv == IInv /\ OpsInv /\ ParentInv /\ HeldInv /\ KnownIsOpen

\* The edge invariant holds in every state.
LEMMA EdgeInvariant == Spec => []EdgeInv
  <1>1. Init => OpsInv /\ ParentInv /\ HeldInv /\ KnownIsOpen
    BY InitOps, InitHeld
  <1>2. IInv /\ OpsInv /\ ParentInv /\ HeldInv /\ KnownIsOpen /\ [Next]_vars
        => (OpsInv /\ ParentInv /\ HeldInv /\ KnownIsOpen)'
    BY OpsKeeps, ParentKeeps, HeldKeeps, KnownStep DEF IInv
  <1> QED  BY <1>1, <1>2, LifecycleInvariant, PTL DEF Spec, EdgeInv

\* V2's registry knows an agent only while its spawn edge is open, through
\* deaths, cancellations, crashes and restores (CleanUp closes the edge before
\* the release; restore_v2_agent_metadata reads open edges only).
THEOREM KnownIsOpenHolds == Spec => []KnownIsOpen
  <1>1. EdgeInv => KnownIsOpen
    BY DEF EdgeInv
  <1> QED  BY <1>1, EdgeInvariant, PTL

\* V2's registry knows every agent a restart would restore, or its spawn is
\* under way, between the construction of its session and its commit
\* (Session::new, SpawnReservation::commit); the edge is closed before the
\* release, so neither a death nor a crash loses an open agent.  Excepted are
\* exactly the paths of the spawns that ended in that stretch and left their
\* edge open (insert_thread_spawn_edge_if_absent, a cancelled persist).
THEOREM OpenIsKnownHolds == Spec => []OpenIsKnown
  <1>1. EdgeInv => OpenIsKnown
    BY DEF EdgeInv, HeldInv, OpenIsKnown, Committing, At, LatePC
  <1> QED  BY <1>1, EdgeInvariant, PTL

\* The agents a restart would restore have different paths (reserve_agent_path),
\* so restore_v2_agent_metadata restores all of them: on every path but those
\* of the spawns that ended early and left their edge open.
THEOREM NamesUniqueHolds == Spec => []NamesUnique
  <1>1. EdgeInv => NamesUnique
    BY HeldUnique DEF EdgeInv, IInv
  <1> QED  BY <1>1, EdgeInvariant, PTL
=============================================================================
