----------------------- MODULE AgentLifecycle_proofs -----------------------
(***************************************************************************)
(* Theorems about AgentLifecycle, for any session layouts, any number of   *)
(* agents and callers and any bounds.                                      *)
(***************************************************************************)
EXTENDS AgentLifecycle, FiniteSetTheorems, SequenceTheorems, TLAPS

USE DEF None, history

-----------------------------------------------------------------------------
(* The inductive invariant.                                                *)

\* Where an operation holds a V2ResidencySlot and a SpawnReservation.
SlotPC == {"register", "load", "construct", "finalize", "persist", "store", "undo",
           "rollback", "commit", "drain"}
SpotPC == SlotPC \ {"register", "drain"}

\* Where an operation works on one agent.
AgentPC == PC \ {"idle", "descend", "next", "scan", "check", "evict", "unload"}

\* Where an operation makes room for an agent, and where it is close_agent's.
RoomPC == {"scan", "check", "evict", "unload"}
ClosePC == {"target", "flush", "shut", "halt", "close", "next", "stale"}

\* What an operation holds at each of its steps.
Shape(c) ==
    /\ c.slot => c.pc \in SlotPC
    /\ c.spot => c.pc \in SpotPC /\ c.kind # "message"
    /\ c.kind = "message" /\ c.pc \in SlotPC =>
          c.slot /\ c.pc \in {"load", "finalize", "commit", "drain"}
    /\ c.pc = "construct" => c.kind = "spawn"
    /\ c.pc = "drain" => c.kind = "message"
    /\ c.pc \in AgentPC => c.agent \in Agent
    /\ c.pc \in RoomPC => c.kind = "unload" \/ c.agent \in Agent
    /\ c.pc \in {"check", "evict", "unload"} => c.cand \in Agent
    /\ c.pc \in ClosePC => c.kind = "close"
    /\ c.kind = "close" => c.target \in Agent /\ c.pc \in ClosePC \cup {"release"}
    /\ c.pc = "stale" => c.agent = c.target /\ c.miss

\* The incarnations an operation remembers exist; one whose death it saw is
\* dead; close_agent found its target missing only when it was.
Remembers(c, reg, last, loop) ==
    /\ c.pc \in {"persist", "store", "undo", "rollback", "died", "flush", "halt", "close"} =>
          c.exp \in 1..last[c.agent]
    /\ c.pc \in {"submit", "shut"} => c.exp \in 0..last[c.agent]
    /\ c.pc = "died" /\ c.exp = last[c.agent] => loop[c.agent][c.exp] = "dead"
    /\ c.pc = "close" => loop[c.agent][c.exp] = "dead"
    /\ c.pc \in {"evict", "unload"} => c.cexp \in 1..last[c.cand]
    /\ c.kind = "close" => /\ c.inc0 <= last[c.target]
                           /\ c.miss /\ c.inc0 = last[c.target] => reg[c.target] = None

CallInv == \A k \in Caller : Shape(call[k]) /\ Remembers(call[k], rt, latest, run)

\* The registered runtime of an agent is its latest one.
RuntimeInv ==
    \A a \in Agent :
        /\ rt[a] \in {None, latest[a]}
        /\ \A i \in Inc : i > latest[a] <=> run[a][i] = "none"

\* A runtime that is not registered and has not exited.
Orphan(a, i) == i # rt[a] /\ run[a][i] \notin {"none", "dead"}

\* An operation waits for the runtime i of agent a, which it rolled back.
RolledBackBy(a, i) ==
    \E k \in Caller : call[k].pc = "rollback" /\ call[k].agent = a /\ call[k].exp = i

\* An orphan is about to be told to stop by a failed persist, or was told to;
\* then that operation waits for it, unless it was cancelled.
OrphanInv ==
    \A a \in Agent : \A i \in Inc : Orphan(a, i) =>
        \/ Undoing(a, i)
        \/ run[a][i] = "stop" /\ (a \in cut \/ RolledBackBy(a, i))

\* The types of everything but the counters.
StateOK ==
    /\ layout \in Layouts
    /\ edge \in [Agent -> {"none", "open", "closed"}]
    /\ rt \in [Agent -> 0..MaxInc] /\ latest \in [Agent -> 0..MaxInc]
    /\ run \in [Agent -> [Inc -> RunState]]
    /\ call \in [Caller -> Op]
    /\ cut \subseteq Agent /\ stray \subseteq Agent
    /\ faults \in 0..layout.faults

ResidentsOK ==
    /\ residents \in Seq(Agent)
    /\ \A i, j \in DOMAIN residents : residents[i] = residents[j] => i = j

\* Every V2 spawn reservation holds a path of its own.
PathInv ==
    /\ tree \in [Agent -> Agent \cup {Free, Reserved}]
    /\ V2 => /\ \A k \in Caller : call[k].spot => tree[Key(call[k].agent)] = Reserved
             /\ \A j, k \in Caller : call[j].spot /\ call[k].spot
                                       /\ Key(call[j].agent) = Key(call[k].agent) => j = k

IncInv == StateOK /\ CallInv /\ RuntimeInv /\ OrphanInv

-----------------------------------------------------------------------------
(* Operations.                                                             *)

\* An operation in its place.
LEMMA BecomesSets ==
    ASSUME call \in [Caller -> Op], NEW k \in Caller, NEW c \in Op, Becomes(k, c)
    PROVE  /\ call' \in [Caller -> Op]
           /\ call'[k] = c
           /\ \A j \in Caller \ {k} : call'[j] = call[j]
  BY DEF Becomes

\* The fields of an operation that starts.
LEMMA IdleFields ==
    /\ Idle \in Op /\ Idle.kind = "none" /\ Idle.pc = "idle" /\ Idle.exp = 0
    /\ Idle.slot = FALSE /\ Idle.spot = FALSE /\ Idle.miss = FALSE
  BY LifecycleBoundAssumption DEF Idle, Op, PC, Nobody

\* Start sets three fields of the idle operation.
LEMMA StartFields ==
    \A kind \in {"none", "spawn", "message", "resume", "close", "unload"},
       a \in Agent \cup {Nobody}, pc \in PC :
        /\ Start(kind, a, pc) \in Op /\ Start(kind, a, pc).kind = kind
        /\ Start(kind, a, pc).agent = a /\ Start(kind, a, pc).pc = pc
        /\ Start(kind, a, pc).slot = FALSE /\ Start(kind, a, pc).spot = FALSE
        /\ Start(kind, a, pc).miss = FALSE
  <1> SUFFICES ASSUME NEW kind \in {"none", "spawn", "message", "resume", "close", "unload"},
                      NEW a \in Agent \cup {Nobody}, NEW pc \in PC
               PROVE  /\ Start(kind, a, pc) \in Op /\ Start(kind, a, pc).kind = kind
                      /\ Start(kind, a, pc).agent = a /\ Start(kind, a, pc).pc = pc
                      /\ Start(kind, a, pc).slot = FALSE /\ Start(kind, a, pc).spot = FALSE
                      /\ Start(kind, a, pc).miss = FALSE
    OBVIOUS
  <1> DEFINE s == Start(kind, a, pc)
  <1>1. s = [Idle EXCEPT !.kind = kind, !.agent = a, !.pc = pc]
    BY DEF Start
  <1>2. s \in Op
    BY <1>1, IdleFields, ZenonT(60) DEF Op
  <1>3. /\ s.kind = kind /\ s.agent = a /\ s.pc = pc
        /\ s.slot = FALSE /\ s.spot = FALSE /\ s.miss = FALSE
    BY <1>1, IdleFields DEF Op
  <1> QED  BY <1>2, <1>3

\* A caller that does nothing holds nothing.
LEMMA IdleOK ==
    /\ Idle \in Op /\ Shape(Idle)
    /\ Idle.slot = FALSE /\ Idle.spot = FALSE /\ Idle.pc = "idle"
    /\ \A reg, last, loop : Remembers(Idle, reg, last, loop)
  BY LifecycleBoundAssumption
  DEF Idle, Op, PC, Nobody, Shape, SlotPC, SpotPC, AgentPC, RoomPC, ClosePC, Remembers

\* Loops that exited stay so and incarnations only grow.
Grows ==
    /\ \A a \in Agent : latest[a] <= latest'[a]
    /\ \A a \in Agent, i \in Inc : run[a][i] = "dead" => run'[a][i] = "dead"
    /\ \A a \in Agent : latest'[a] = latest[a] /\ rt[a] = 0 => rt'[a] = 0

\* What an operation remembers stays true when runtimes only come and stop.
LEMMA RemembersGrows ==
    ASSUME StateOK, latest' \in [Agent -> 0..MaxInc], Grows, NEW c \in Op, Shape(c),
           Remembers(c, rt, latest, run)
    PROVE  Remembers(c, rt', latest', run')
  <1>0. MaxInc \in Nat /\ latest \in [Agent -> 0..MaxInc]
    BY LifecycleBoundAssumption DEF StateOK
  <1>1. c.pc \in AgentPC => c.agent \in Agent
    BY DEF Shape
  <1>2. c.pc \in {"persist", "store", "undo", "rollback", "died", "flush", "halt", "close",
                   "submit", "shut"} => c.pc \in AgentPC
    BY DEF AgentPC, PC
  <1>3. c.exp \in 0..MaxInc /\ c.cexp \in 0..MaxInc /\ c.inc0 \in 0..MaxInc
    BY DEF Op
  <1>4. ASSUME c.pc \in {"persist", "store", "undo", "rollback", "died", "flush", "halt", "close"}
        PROVE  c.exp \in 1..latest'[c.agent]
    <2>1. c.agent \in Agent /\ c.exp \in 1..latest[c.agent]
      BY <1>1, <1>2, <1>4 DEF Remembers
    <2> QED  BY <1>0, <2>1 DEF Grows
  <1>5. ASSUME c.pc \in {"submit", "shut"}
        PROVE  c.exp \in 0..latest'[c.agent]
    <2>1. c.agent \in Agent /\ c.exp \in 0..latest[c.agent]
      BY <1>1, <1>2, <1>5 DEF Remembers
    <2> QED  BY <1>0, <2>1 DEF Grows
  <1>6. ASSUME c.pc = "died", c.exp = latest'[c.agent]
        PROVE  run'[c.agent][c.exp] = "dead"
    <2>1. c.agent \in Agent /\ c.exp \in 1..latest[c.agent] /\ c.exp \in Inc
      BY <1>0, <1>1, <1>2, <1>6 DEF Remembers, Inc
    <2>2. c.exp = latest[c.agent]
      BY <1>0, <1>6, <2>1 DEF Grows
    <2> QED  BY <1>6, <2>1, <2>2 DEF Grows, Remembers
  <1>7. ASSUME c.pc = "close"
        PROVE  run'[c.agent][c.exp] = "dead"
    <2>1. c.agent \in Agent /\ c.exp \in Inc
      BY <1>0, <1>1, <1>2, <1>7 DEF Remembers, Inc
    <2> QED  BY <1>7, <2>1 DEF Grows, Remembers
  <1>8. ASSUME c.pc \in {"evict", "unload"}
        PROVE  c.cexp \in 1..latest'[c.cand]
    <2>1. c.cand \in Agent /\ c.cexp \in 1..latest[c.cand]
      BY <1>8 DEF Shape, Remembers
    <2> QED  BY <1>0, <2>1 DEF Grows
  <1>9. ASSUME c.kind = "close"
        PROVE  /\ c.inc0 <= latest'[c.target]
               /\ c.miss /\ c.inc0 = latest'[c.target] => rt'[c.target] = 0
    <2>1. c.target \in Agent /\ c.inc0 <= latest[c.target]
      BY <1>9 DEF Shape, Remembers
    <2>2. c.inc0 <= latest'[c.target]
      BY <1>0, <1>3, <2>1 DEF Grows
    <2>3. c.inc0 = latest'[c.target] => latest'[c.target] = latest[c.target]
      BY <1>0, <1>3, <2>1 DEF Grows
    <2> QED  BY <1>9, <2>1, <2>2, <2>3 DEF Grows, Remembers
  <1> QED  BY <1>4, <1>5, <1>6, <1>7, <1>8, <1>9 DEF Remembers

\* One operation goes on; the others remember what they remembered.
LEMMA CallsKeep ==
    ASSUME StateOK, CallInv, latest' \in [Agent -> 0..MaxInc], Grows,
           NEW k \in Caller, NEW c \in Op, Becomes(k, c),
           Shape(c), Remembers(c, rt', latest', run')
    PROVE  CallInv'
  <1>1. /\ call'[k] = c
        /\ \A j \in Caller \ {k} : call'[j] = call[j] /\ call[j] \in Op
    BY BecomesSets DEF StateOK
  <1>2. ASSUME NEW j \in Caller
        PROVE  Shape(call'[j]) /\ Remembers(call'[j], rt', latest', run')
    <2>1. CASE j = k
      BY <1>1, <2>1
    <2>2. CASE j # k
      <3>1. call'[j] = call[j] /\ call[j] \in Op
            /\ Shape(call[j]) /\ Remembers(call[j], rt, latest, run)
        BY <1>1, <2>2 DEF CallInv
      <3> QED  BY <3>1, RemembersGrows
    <2> QED  BY <2>1, <2>2
  <1> QED  BY <1>2 DEF CallInv

\* An operation that touches no runtime.
LEMMA QuietKeeps ==
    ASSUME IncInv, NEW k \in Caller, NEW c \in Op, Becomes(k, c),
           Shape(c), Remembers(c, rt, latest, run),
           UNCHANGED layout, UNCHANGED runtimeVars,
           edge' \in [Agent -> {"none", "open", "closed"}],
           cut \subseteq cut', cut' \subseteq Agent, stray' \subseteq Agent,
           faults' \in 0..layout.faults, call[k].pc # "undo",
           call[k].pc = "rollback" =>
              call[k].agent \in cut' \/ run[call[k].agent][call[k].exp] = "dead"
    PROVE  IncInv'
  <1>0. StateOK /\ CallInv /\ RuntimeInv /\ OrphanInv /\ UNCHANGED <<rt, latest, run>>
    BY DEF IncInv, runtimeVars
  <1>1. call' \in [Caller -> Op] /\ \A j \in Caller \ {k} : call'[j] = call[j]
    BY <1>0, BecomesSets DEF StateOK
  <1>2. StateOK'
    BY <1>0, <1>1 DEF StateOK
  <1>3. Grows
    <2>1. \A a \in Agent : latest[a] \in Nat
      BY <1>0, LifecycleBoundAssumption DEF StateOK
    <2> QED  BY <1>0, <2>1 DEF Grows
  <1>4. CallInv'
    BY <1>0, <1>2, <1>3, CallsKeep DEF StateOK
  <1>5. RuntimeInv'
    BY <1>0 DEF RuntimeInv
  <1>6. OrphanInv'
    <2> SUFFICES ASSUME NEW a \in Agent, NEW i \in Inc, Orphan(a, i)
                 PROVE  \/ Undoing(a, i)'
                        \/ run[a][i] = "stop" /\ (a \in cut' \/ RolledBackBy(a, i)')
      BY <1>0 DEF OrphanInv, Orphan
    <2>1. CASE Undoing(a, i)
      <3>1. PICK j \in Caller : call[j].agent = a /\ call[j].exp = i /\ call[j].pc = "undo"
        BY <2>1 DEF Undoing
      <3>2. call'[j] = call[j]
        BY <1>1, <3>1
      <3> QED  BY <3>1, <3>2 DEF Undoing
    <2>2. CASE run[a][i] = "stop" /\ a \in cut
      BY <2>2
    <2>3. CASE run[a][i] = "stop" /\ RolledBackBy(a, i)
      <3>1. PICK j \in Caller : call[j].pc = "rollback" /\ call[j].agent = a /\ call[j].exp = i
        BY <2>3 DEF RolledBackBy
      <3>2. CASE j = k
        BY <2>3, <3>1, <3>2
      <3>3. CASE j # k
        BY <1>1, <2>3, <3>1, <3>3 DEF RolledBackBy
      <3> QED  BY <3>2, <3>3
    <2> QED  BY <1>0, <2>1, <2>2, <2>3 DEF OrphanInv
  <1> QED  BY <1>2, <1>4, <1>5, <1>6 DEF IncInv

\* A resume between two agents.
LEMMA DescendFields ==
    LET s == Start("resume", Nobody, "descend")
    IN  s \in Op /\ s.kind = "resume" /\ s.pc = "descend" /\ s.slot = FALSE /\ s.spot = FALSE
  <1> DEFINE s == Start("resume", Nobody, "descend")
  <1>1. Nobody \in Agent \cup {Nobody} /\ "descend" \in PC
    BY DEF PC
  <1>2. s = [Idle EXCEPT !.kind = "resume", !.agent = Nobody, !.pc = "descend"]
    BY DEF Start
  <1>3. s \in Op
    BY <1>1, <1>2, IdleFields DEF Op
  <1>4. s.kind = "resume" /\ s.pc = "descend" /\ s.slot = FALSE /\ s.spot = FALSE
    BY <1>2, IdleFields DEF Op
  <1> QED  BY <1>3, <1>4

\* What is left of an operation that failed holds nothing.
LEMMA FailedOK ==
    ASSUME NEW c \in Op
    PROVE  /\ Failed(c) \in Op /\ Shape(Failed(c))
           /\ Failed(c).slot = FALSE /\ Failed(c).spot = FALSE
           /\ Failed(c).pc \in {"idle", "descend"}
           /\ \A reg, last, loop : Remembers(Failed(c), reg, last, loop)
  <1>1. CASE c.todo = {}
    BY <1>1, IdleOK DEF Failed
  <1>2. CASE c.todo # {}
    <2> DEFINE s == Start("resume", Nobody, "descend")
               f == [s EXCEPT !.todo = c.todo]
    <2>1. s \in Op /\ s.kind = "resume" /\ s.pc = "descend" /\ s.slot = FALSE /\ s.spot = FALSE
      BY DescendFields
    <2> HIDE DEF s
    <2>2. f \in Op /\ f.kind = "resume" /\ f.pc = "descend" /\ f.slot = FALSE /\ f.spot = FALSE
      BY <2>1 DEF Op
    <2>3. Failed(c) = f
      BY <1>2 DEF Failed, s
    <2> HIDE DEF f
    <2> QED  BY <2>2, <2>3 DEF Shape, SlotPC, SpotPC, AgentPC, RoomPC, ClosePC, PC, Remembers
  <1> QED  BY <1>1, <1>2

\* What IncInv says of the operation of caller k.
LEMMA CallFacts ==
    ASSUME IncInv, NEW k \in Caller
    PROVE  /\ call[k] \in Op /\ Shape(call[k]) /\ Remembers(call[k], rt, latest, run)
           /\ cut \subseteq Agent /\ stray \subseteq Agent /\ faults \in 0..layout.faults
           /\ edge \in [Agent -> {"none", "open", "closed"}]
           /\ \A a \in Agent : /\ rt[a] \in {0, latest[a]} /\ latest[a] \in 0..MaxInc
                               /\ rt[a] \in 0..latest[a]
                               /\ rt[a] # 0 => rt[a] \in 1..latest[a]
  <1>1. StateOK /\ CallInv /\ RuntimeInv /\ MaxInc \in Nat
    BY LifecycleBoundAssumption DEF IncInv
  <1>2. \A a \in Agent : rt[a] \in {0, latest[a]} /\ latest[a] \in 0..MaxInc
    BY <1>1 DEF StateOK, RuntimeInv
  <1>3. \A a \in Agent : rt[a] \in 0..latest[a] /\ (rt[a] # 0 => rt[a] \in 1..latest[a])
    BY <1>1, <1>2
  <1> QED  BY <1>1, <1>2, <1>3 DEF StateOK, CallInv

\* A fault is counted.
LEMMA FaultOK ==
    ASSUME IncInv, Fault
    PROVE  faults' \in 0..layout.faults
  <1>1. faults \in 0..layout.faults /\ layout.faults \in Nat
    BY LayoutAssumption DEF IncInv, StateOK, Layout
  <1> QED  BY <1>1 DEF Fault

-----------------------------------------------------------------------------
(* Operations begin.                                                       *)

\* A new operation remembers nothing yet.
LEMMA BeginKeeps ==
    ASSUME IncInv, NEW k \in Caller, Begin(k)
    PROVE  IncInv'
  <1>0. PICK a \in Agent : \/ Spawn(k, a) \/ MessageV2(k, a) \/ MessageV1(k, a)
                           \/ Resume(k, a) \/ Close(k, a) \/ Unload(k, a)
    BY DEF Begin
  <1>1. /\ call[k] \in Op /\ cut \subseteq Agent /\ stray \subseteq Agent
        /\ faults \in 0..layout.faults
        /\ edge \in [Agent -> {"none", "open", "closed"}]
        /\ rt[a] \in 0..latest[a] /\ latest[a] \in 0..MaxInc
        /\ rt[a] # 0 => rt[a] \in 1..latest[a]
    BY CallFacts
  <1>2. MaxInc \in Nat /\ rt[a] \in 0..MaxInc
    BY <1>1, LifecycleBoundAssumption
  <1>3. call[k] = Idle /\ UNCHANGED <<layout, edge, cut, stray, faults>> /\ UNCHANGED runtimeVars
    BY <1>0 DEF Spawn, MessageV2, MessageV1, Resume, Close, Unload
  <1>4. call[k].pc \notin {"undo", "rollback"}
    BY <1>3, IdleOK
  <1>5. \E c \in Op : Becomes(k, c) /\ Shape(c) /\ Remembers(c, rt, latest, run)
    <2>1. CASE Spawn(k, a) \/ MessageV2(k, a) \/ Resume(k, a)
      <3>1. PICK kind \in {"spawn", "message", "resume"}, pc \in {"reserve", "register", "fetch"} :
              /\ Becomes(k, Start(kind, a, pc))
              /\ kind = "message" => pc # "register"
        BY <2>1 DEF Spawn, MessageV2, Resume
      <3> DEFINE c == Start(kind, a, pc)
      <3>2. /\ c \in Op /\ c.kind = kind /\ c.agent = a /\ c.pc = pc
            /\ c.slot = FALSE /\ c.spot = FALSE
        BY StartFields DEF PC
      <3> HIDE DEF c
      <3>3. Shape(c) /\ Remembers(c, rt, latest, run)
        BY <3>1, <3>2 DEF Shape, SlotPC, SpotPC, AgentPC, RoomPC, ClosePC, PC, Remembers
      <3> QED  BY <3>1, <3>2, <3>3 DEF c
    <2>2. CASE MessageV1(k, a)
      <3> DEFINE s == Start("message", a, "submit")
                 c == [s EXCEPT !.exp = rt[a]]
      <3>1. /\ s \in Op /\ s.kind = "message" /\ s.agent = a /\ s.pc = "submit"
            /\ s.slot = FALSE /\ s.spot = FALSE
        BY StartFields DEF PC
      <3>2. Becomes(k, c)
        BY <2>2 DEF MessageV1
      <3> HIDE DEF s
      <3>3. /\ c \in Op /\ c.kind = "message" /\ c.agent = a /\ c.pc = "submit"
            /\ c.slot = FALSE /\ c.spot = FALSE /\ c.exp = rt[a]
        BY <1>2, <3>1 DEF Op
      <3> HIDE DEF c
      <3>4. Shape(c) /\ Remembers(c, rt, latest, run)
        BY <1>1, <3>3 DEF Shape, SlotPC, SpotPC, AgentPC, RoomPC, ClosePC, PC, Remembers
      <3> QED  BY <3>2, <3>3, <3>4
    <2>3. CASE Close(k, a)
      <3> DEFINE s == Start("close", a, "target")
                 c == [s EXCEPT !.target = a, !.known = Known(a), !.inc0 = latest[a],
                                !.todo = LiveDescendants(a)]
      <3>1. /\ s \in Op /\ s.kind = "close" /\ s.agent = a /\ s.pc = "target"
            /\ s.slot = FALSE /\ s.spot = FALSE /\ s.miss = FALSE
        BY StartFields DEF PC
      <3>2. Becomes(k, c)
        BY <2>3 DEF Close
      <3>3. Known(a) \in BOOLEAN /\ LiveDescendants(a) \in SUBSET Agent
        BY DEF Known, LiveDescendants
      <3> HIDE DEF s
      <3>4. /\ c \in Op /\ c.kind = "close" /\ c.agent = a /\ c.pc = "target" /\ c.target = a
            /\ c.slot = FALSE /\ c.spot = FALSE /\ c.miss = FALSE /\ c.inc0 = latest[a]
        BY <1>1, <3>1, <3>3, ZenonT(60) DEF Op
      <3> HIDE DEF c
      <3>5. Shape(c) /\ Remembers(c, rt, latest, run)
        BY <1>1, <1>2, <3>4 DEF Shape, SlotPC, SpotPC, AgentPC, RoomPC, ClosePC, PC, Remembers
      <3> QED  BY <3>2, <3>4, <3>5
    <2>4. CASE Unload(k, a)
      <3> DEFINE s == Start("unload", Nobody, "evict")
                 c == [s EXCEPT !.cand = a, !.cexp = rt[a]]
      <3>1. /\ s \in Op /\ s.kind = "unload" /\ s.pc = "evict"
            /\ s.slot = FALSE /\ s.spot = FALSE
        BY StartFields DEF PC
      <3>2. Becomes(k, c) /\ rt[a] # 0
        BY <2>4 DEF Unload, Loaded
      <3> HIDE DEF s
      <3>3. /\ c \in Op /\ c.kind = "unload" /\ c.pc = "evict" /\ c.cand = a
            /\ c.slot = FALSE /\ c.spot = FALSE /\ c.cexp = rt[a]
        BY <1>2, <3>1 DEF Op
      <3> HIDE DEF c
      <3>4. Shape(c) /\ Remembers(c, rt, latest, run)
        BY <1>1, <3>2, <3>3 DEF Shape, SlotPC, SpotPC, AgentPC, RoomPC, ClosePC, PC, Remembers
      <3> QED  BY <3>2, <3>3, <3>4
    <2> QED  BY <1>0, <2>1, <2>2, <2>3, <2>4
  <1> QED  BY <1>1, <1>3, <1>4, <1>5, QuietKeeps

-----------------------------------------------------------------------------
(* Steps of an operation that touch no runtime.                            *)

\* An operation that goes on quietly: what it becomes.
GoesOn(k) ==
    \E q \in Op : Becomes(k, q) /\ Shape(q) /\ Remembers(q, rt, latest, run)

\* Making room, registering and choosing a runtime.
LEMMA RoomGoesOn ==
    ASSUME IncInv, ResidentsOK, NEW k \in Caller,
           \/ ReserveSlot(k) \/ NoRoom(k) \/ PopLru(k) \/ CheckCandidate(k) \/ Register(k)
           \/ Construct(k) \/ CheckRuntime(k) \/ Persist(k)
           \/ (Load(k) /\ Running(call[k].agent))
    PROVE  GoesOn(k)
  <1> DEFINE c == call[k]
  <1>1. c \in Op /\ Shape(c) /\ Remembers(c, rt, latest, run)
    BY CallFacts
  <1>2. \A a \in Agent : /\ rt[a] \in 0..MaxInc
                         /\ rt[a] # 0 => rt[a] \in 1..latest[a]
    BY CallFacts DEF IncInv, StateOK
  <1>3. CASE ReserveSlot(k)
    <2> DEFINE q == [c EXCEPT !.slot = TRUE,
                        !.pc = IF c.kind = "spawn" THEN "register" ELSE "load"]
    <2>1. Becomes(k, q) /\ c.pc = "reserve"
      BY <1>3 DEF ReserveSlot
    <2> HIDE DEF c
    <2>2. /\ q \in Op
          /\ q.kind = c.kind /\ q.pc = (IF c.kind = "spawn" THEN "register" ELSE "load")
          /\ q.agent = c.agent /\ q.exp = c.exp /\ q.slot = TRUE /\ q.spot = c.spot
          /\ q.cand = c.cand /\ q.cexp = c.cexp /\ q.target = c.target /\ q.inc0 = c.inc0
          /\ q.miss = c.miss
      BY <1>1, <1>2, <2>1, ZenonT(60) DEF Op, PC
    <2> HIDE DEF q
    <2>3. Shape(q) /\ Remembers(q, rt, latest, run)
      BY <1>1, <1>2, <2>1, <2>2 DEF Shape, SlotPC, SpotPC, AgentPC, RoomPC, ClosePC, PC, Remembers
    <2> QED  BY <2>1, <2>2, <2>3 DEF GoesOn
  <1>4. CASE NoRoom(k)
    <2> DEFINE q == [c EXCEPT !.pc = "scan", !.left = Len(residents)]
    <2>1. Becomes(k, q) /\ c.pc = "reserve"
      BY <1>4 DEF NoRoom
    <2>0. Len(residents) \in Nat
      BY DEF ResidentsOK
    <2> HIDE DEF c
    <2>2. /\ q \in Op
          /\ q.kind = c.kind /\ q.pc = "scan" /\ q.agent = c.agent /\ q.exp = c.exp
          /\ q.slot = c.slot /\ q.spot = c.spot /\ q.cand = c.cand /\ q.cexp = c.cexp
          /\ q.target = c.target /\ q.inc0 = c.inc0 /\ q.miss = c.miss
      BY <1>1, <1>2, <2>1, <2>0, ZenonT(60) DEF Op, PC
    <2> HIDE DEF q
    <2>3. Shape(q) /\ Remembers(q, rt, latest, run)
      BY <1>1, <1>2, <2>1, <2>2 DEF Shape, SlotPC, SpotPC, AgentPC, RoomPC, ClosePC, PC, Remembers
    <2> QED  BY <2>1, <2>2, <2>3 DEF GoesOn
  <1>5. CASE PopLru(k)
    <2> DEFINE i == IF residents[1] = Protected(c) THEN 2 ELSE 1
               l == c.left - 1
               q == [c EXCEPT !.pc = "check", !.cand = residents[i], !.left = l]
    <2>1. Becomes(k, q) /\ c.pc = "scan" /\ c.left > 0 /\ i \in {1, 2} /\ i <= Len(residents)
      BY <1>5 DEF PopLru
    <2> HIDE DEF i
    <2>0. residents[i] \in Agent /\ l \in Nat
      <3>1. c.left \in Nat
        BY <1>1 DEF Op
      <3> QED  BY <2>1, <3>1 DEF ResidentsOK
    <2> HIDE DEF l
    <2> HIDE DEF c
    <2>2. /\ q \in Op
          /\ q.kind = c.kind /\ q.pc = "check" /\ q.agent = c.agent /\ q.exp = c.exp
          /\ q.slot = c.slot /\ q.spot = c.spot /\ q.cand = residents[i] /\ q.cexp = c.cexp
          /\ q.target = c.target /\ q.inc0 = c.inc0 /\ q.miss = c.miss
      BY <1>1, <1>2, <2>1, <2>0, ZenonT(60) DEF Op, PC
    <2> HIDE DEF q
    <2>3. Shape(q) /\ Remembers(q, rt, latest, run)
      BY <1>1, <1>2, <2>1, <2>2, <2>0 DEF Shape, SlotPC, SpotPC, AgentPC, RoomPC, ClosePC, PC, Remembers
    <2> QED  BY <2>1, <2>2, <2>3 DEF GoesOn
  <1>6. CASE CheckCandidate(k) /\ Unloadable(c.cand)
    <2> DEFINE q == [c EXCEPT !.pc = "evict", !.cexp = rt[c.cand]]
    <2>1. Becomes(k, q) /\ c.pc = "check" /\ rt[c.cand] # 0
      BY <1>6 DEF CheckCandidate, Unloadable, Loaded
    <2>0. c.cand \in Agent
      BY <1>1, <2>1 DEF Shape
    <2> HIDE DEF c
    <2>2. /\ q \in Op
          /\ q.kind = c.kind /\ q.pc = "evict" /\ q.agent = c.agent /\ q.exp = c.exp
          /\ q.slot = c.slot /\ q.spot = c.spot /\ q.cand = c.cand /\ q.cexp = rt[c.cand]
          /\ q.target = c.target /\ q.inc0 = c.inc0 /\ q.miss = c.miss
      BY <1>1, <1>2, <2>1, <2>0, ZenonT(60) DEF Op, PC
    <2> HIDE DEF q
    <2>3. Shape(q) /\ Remembers(q, rt, latest, run)
      BY <1>1, <1>2, <2>1, <2>2, <2>0 DEF Shape, SlotPC, SpotPC, AgentPC, RoomPC, ClosePC, PC, Remembers
    <2> QED  BY <2>1, <2>2, <2>3 DEF GoesOn
  <1>7. CASE CheckCandidate(k) /\ ~Unloadable(c.cand)
    <2> DEFINE q == [c EXCEPT !.pc = "scan", !.cand = Nobody]
    <2>1. Becomes(k, q) /\ c.pc = "check"
      BY <1>7 DEF CheckCandidate
    <2> HIDE DEF c
    <2>2. /\ q \in Op
          /\ q.kind = c.kind /\ q.pc = "scan" /\ q.agent = c.agent /\ q.exp = c.exp
          /\ q.slot = c.slot /\ q.spot = c.spot /\ q.cand = Nobody /\ q.cexp = c.cexp
          /\ q.target = c.target /\ q.inc0 = c.inc0 /\ q.miss = c.miss
      BY <1>1, <1>2, <2>1, ZenonT(60) DEF Op, PC
    <2> HIDE DEF q
    <2>3. Shape(q) /\ Remembers(q, rt, latest, run)
      BY <1>1, <1>2, <2>1, <2>2 DEF Shape, SlotPC, SpotPC, AgentPC, RoomPC, ClosePC, PC, Remembers
    <2> QED  BY <2>1, <2>2, <2>3 DEF GoesOn
  <1>8. CASE Register(k)
    <2> DEFINE q == [c EXCEPT !.spot = TRUE,
                        !.pc = IF c.kind = "spawn" THEN "construct" ELSE "load"]
    <2>1. Becomes(k, q) /\ c.pc = "register"
      BY <1>8 DEF Register
    <2> HIDE DEF c
    <2>2. /\ q \in Op
          /\ q.kind = c.kind /\ q.pc = (IF c.kind = "spawn" THEN "construct" ELSE "load")
          /\ q.agent = c.agent /\ q.exp = c.exp /\ q.slot = c.slot /\ q.spot = TRUE
          /\ q.cand = c.cand /\ q.cexp = c.cexp /\ q.target = c.target /\ q.inc0 = c.inc0
          /\ q.miss = c.miss
      BY <1>1, <1>2, <2>1, ZenonT(60) DEF Op, PC
    <2> HIDE DEF q
    <2>3. Shape(q) /\ Remembers(q, rt, latest, run)
      BY <1>1, <1>2, <2>1, <2>2 DEF Shape, SlotPC, SpotPC, AgentPC, RoomPC, ClosePC, PC, Remembers
    <2> QED  BY <2>1, <2>2, <2>3 DEF GoesOn
  <1>9. CASE Persist(k)
    <2> DEFINE q == [c EXCEPT !.pc = "commit"]
    <2>1. Becomes(k, q) /\ c.pc = "store"
      BY <1>9 DEF Persist, Goto
    <2> HIDE DEF c
    <2>2. /\ q \in Op
          /\ q.kind = c.kind /\ q.pc = "commit" /\ q.agent = c.agent /\ q.exp = c.exp
          /\ q.slot = c.slot /\ q.spot = c.spot /\ q.cand = c.cand /\ q.cexp = c.cexp
          /\ q.target = c.target /\ q.inc0 = c.inc0 /\ q.miss = c.miss
      BY <1>1, <1>2, <2>1, SMTT(30) DEF Op, PC
    <2> HIDE DEF q
    <2>3. Shape(q) /\ Remembers(q, rt, latest, run)
      BY <1>1, <1>2, <2>1, <2>2 DEF Shape, SlotPC, SpotPC, AgentPC, RoomPC, ClosePC, PC, Remembers
    <2> QED  BY <2>1, <2>2, <2>3 DEF GoesOn
  <1>10. CASE Load(k) /\ Running(c.agent)
    <2> DEFINE q == [c EXCEPT !.exp = rt[c.agent], !.pc = AfterLoad(c)]
    <2>1. Becomes(k, q) /\ c.pc = "load" /\ rt[c.agent] # 0
      BY <1>10 DEF Load, Running, Loop
    <2>0. /\ c.agent \in Agent
          /\ AfterLoad(c) = IF c.kind = "message" THEN "commit" ELSE "persist"
      BY <1>1, <2>1 DEF Shape, AgentPC, PC, AfterLoad
    <2> HIDE DEF c
    <2>2. /\ q \in Op
          /\ q.kind = c.kind /\ q.pc = AfterLoad(c) /\ q.agent = c.agent
          /\ q.exp = rt[c.agent] /\ q.slot = c.slot /\ q.spot = c.spot /\ q.cand = c.cand
          /\ q.cexp = c.cexp /\ q.target = c.target /\ q.inc0 = c.inc0 /\ q.miss = c.miss
      BY <1>1, <1>2, <2>1, <2>0, ZenonT(60) DEF Op, PC
    <2> HIDE DEF q
    <2>3. Shape(q) /\ Remembers(q, rt, latest, run)
      BY <1>1, <1>2, <2>1, <2>2, <2>0 DEF Shape, SlotPC, SpotPC, AgentPC, RoomPC, ClosePC, PC, Remembers
    <2> QED  BY <2>1, <2>2, <2>3 DEF GoesOn
  <1>11. CASE Construct(k)
    <2> DEFINE q == [c EXCEPT !.pc = "finalize"]
    <2>1. Becomes(k, q) /\ c.pc = "construct"
      BY <1>11 DEF Construct, Goto
    <2> HIDE DEF c
    <2>2. /\ q \in Op
          /\ q.kind = c.kind /\ q.pc = "finalize" /\ q.agent = c.agent /\ q.exp = c.exp
          /\ q.slot = c.slot /\ q.spot = c.spot /\ q.cand = c.cand /\ q.cexp = c.cexp
          /\ q.target = c.target /\ q.inc0 = c.inc0 /\ q.miss = c.miss
      BY <1>1, <1>2, <2>1, SMTT(30) DEF Op, PC
    <2> HIDE DEF q
    <2>3. Shape(q) /\ Remembers(q, rt, latest, run)
      BY <1>1, <1>2, <2>1, <2>2 DEF Shape, SlotPC, SpotPC, AgentPC, RoomPC, ClosePC, PC, Remembers
    <2> QED  BY <2>1, <2>2, <2>3 DEF GoesOn
  <1>12. CASE CheckRuntime(k)
    <2> DEFINE q == [c EXCEPT !.pc = "store"]
    <2>1. Becomes(k, q) /\ c.pc = "persist"
      BY <1>12 DEF CheckRuntime, Goto
    <2> HIDE DEF c
    <2>2. /\ q \in Op
          /\ q.kind = c.kind /\ q.pc = "store" /\ q.agent = c.agent /\ q.exp = c.exp
          /\ q.slot = c.slot /\ q.spot = c.spot /\ q.cand = c.cand /\ q.cexp = c.cexp
          /\ q.target = c.target /\ q.inc0 = c.inc0 /\ q.miss = c.miss
      BY <1>1, <1>2, <2>1, SMTT(30) DEF Op, PC
    <2> HIDE DEF q
    <2>3. Shape(q) /\ Remembers(q, rt, latest, run)
      BY <1>1, <1>2, <2>1, <2>2 DEF Shape, SlotPC, SpotPC, AgentPC, RoomPC, ClosePC, PC, Remembers
    <2> QED  BY <2>1, <2>2, <2>3 DEF GoesOn
  <1> HIDE DEF c
  <1> QED  BY <1>3, <1>4, <1>5, <1>6, <1>7, <1>8, <1>9, <1>10, <1>11, <1>12 DEF c

\* An operation that returns or gives up.
LEMMA FailGoesOn ==
    ASSUME IncInv, NEW k \in Caller, Becomes(k, Idle) \/ Becomes(k, Failed(call[k]))
    PROVE  GoesOn(k)
  <1>1. call[k] \in Op
    BY CallFacts
  <1> QED  BY <1>1, IdleOK, FailedOK DEF GoesOn

\* Between a runtime and the message to it.
LEMMA LoadGoesOn ==
    ASSUME IncInv, NEW k \in Caller,
           \/ FinalizeDuplicate(k) \/ UseLoaded(k) \/ Commit(k) \/ Fetch(k)
           \/ \E b \in Agent : Descend(k, b)
    PROVE  GoesOn(k)
  <1> DEFINE c == call[k]
  <1>1. c \in Op /\ Shape(c) /\ Remembers(c, rt, latest, run)
    BY CallFacts
  <1>2. \A a \in Agent : /\ rt[a] \in 0..MaxInc /\ rt[a] \in 0..latest[a]
                         /\ rt[a] # 0 => rt[a] \in 1..latest[a]
    BY CallFacts DEF IncInv, StateOK
  <1>3. CASE FinalizeDuplicate(k) /\ c.kind = "message"
    <2> DEFINE q == [c EXCEPT !.pc = "drain"]
    <2>1. Becomes(k, q) /\ c.pc = "finalize" /\ c.kind = "message"
      BY <1>3 DEF FinalizeDuplicate, Goto
    <2> HIDE DEF c
    <2>2. /\ q \in Op
          /\ q.kind = c.kind /\ q.pc = "drain" /\ q.agent = c.agent /\ q.exp = c.exp
          /\ q.slot = c.slot /\ q.spot = c.spot /\ q.cand = c.cand /\ q.cexp = c.cexp
          /\ q.target = c.target /\ q.inc0 = c.inc0 /\ q.miss = c.miss
      BY <1>1, <1>2, <2>1, SMTT(30) DEF Op, PC
    <2> HIDE DEF q
    <2>3. Shape(q) /\ Remembers(q, rt, latest, run)
      BY <1>1, <1>2, <2>1, <2>2 DEF Shape, SlotPC, SpotPC, AgentPC, RoomPC, ClosePC, PC, Remembers
    <2> QED  BY <2>1, <2>2, <2>3 DEF GoesOn
  <1>4. CASE FinalizeDuplicate(k) /\ c.kind # "message"
    BY <1>4, FailGoesOn DEF FinalizeDuplicate, Fail
  <1>5. CASE UseLoaded(k) /\ Loaded(c.agent)
    <2> DEFINE q == Start("message", c.agent, "fetch")
    <2>1. Becomes(k, q) /\ c.pc = "drain"
      BY <1>5 DEF UseLoaded
    <2>0. c.agent \in Agent
      BY <1>1, <2>1 DEF Shape, AgentPC, PC
    <2> HIDE DEF c
    <2>2. /\ q \in Op /\ q.kind = "message" /\ q.agent = c.agent /\ q.pc = "fetch"
          /\ q.slot = FALSE /\ q.spot = FALSE
      <3>1. "fetch" \in PC /\ c.agent \in Agent \cup {Nobody}  BY <2>0 DEF PC
      <3>2. "message" \in {"none", "spawn", "message", "resume", "close", "unload"}
        OBVIOUS
      <3> QED  BY <3>1, <3>2, StartFields
    <2> HIDE DEF q
    <2>3. Shape(q) /\ Remembers(q, rt, latest, run)
      BY <1>1, <2>0, <2>1, <2>2 DEF Shape, SlotPC, SpotPC, AgentPC, RoomPC, ClosePC, PC, Remembers
    <2> QED  BY <2>1, <2>2, <2>3 DEF GoesOn
  <1>6. CASE UseLoaded(k) /\ ~Loaded(c.agent)
    BY <1>6, FailGoesOn DEF UseLoaded, Fail
  <1>7. CASE Commit(k) /\ c.kind = "resume"
    <2> DEFINE s == Start("resume", Nobody, "descend")
               q == [s EXCEPT !.todo = c.todo \cup {b \in Children(c.agent) : edge[b] = "open"}]
    <2>1. Becomes(k, q) /\ c.pc = "commit"
      BY <1>7 DEF Commit
    <2>0. c.todo \cup {b \in Children(c.agent) : edge[b] = "open"} \in SUBSET Agent
      BY <1>1 DEF Op, Children
    <2> HIDE DEF c
    <2>2. /\ s \in Op /\ s.kind = "resume" /\ s.agent = Nobody /\ s.pc = "descend"
          /\ s.slot = FALSE /\ s.spot = FALSE
      <3>1. "descend" \in PC  BY DEF PC
      <3> QED  BY <3>1, StartFields
    <2> HIDE DEF s
    <2>3. /\ q \in Op /\ q.kind = "resume" /\ q.agent = Nobody /\ q.pc = "descend"
          /\ q.slot = FALSE /\ q.spot = FALSE
      BY <2>0, <2>2 DEF Op
    <2> HIDE DEF q
    <2>4. Shape(q) /\ Remembers(q, rt, latest, run)
      BY <2>0, <2>3 DEF Shape, SlotPC, SpotPC, AgentPC, RoomPC, ClosePC, PC, Remembers
    <2> QED  BY <2>1, <2>3, <2>4 DEF GoesOn
  <1>8. CASE Commit(k) /\ c.kind # "resume"
    <2> DEFINE q == Start(c.kind, c.agent, "fetch")
    <2>1. Becomes(k, q) /\ c.pc = "commit"
      BY <1>8 DEF Commit
    <2>0. c.agent \in Agent /\ c.kind # "close"
      BY <1>1, <2>1 DEF Shape, AgentPC, ClosePC, PC
    <2> HIDE DEF c
    <2>2. /\ q \in Op /\ q.kind = c.kind /\ q.agent = c.agent /\ q.pc = "fetch"
          /\ q.slot = FALSE /\ q.spot = FALSE
      <3>1. "fetch" \in PC  BY DEF PC
      <3>2. c.kind \in {"none", "spawn", "message", "resume", "close", "unload"}
        BY <1>1 DEF Op
      <3> QED  BY <2>0, <3>1, <3>2, StartFields
    <2> HIDE DEF q
    <2>3. Shape(q) /\ Remembers(q, rt, latest, run)
      BY <1>1, <2>0, <2>1, <2>2 DEF Shape, SlotPC, SpotPC, AgentPC, RoomPC, ClosePC, PC, Remembers
    <2> QED  BY <2>1, <2>2, <2>3 DEF GoesOn
  <1>9. CASE Fetch(k) /\ (V2 \/ Loaded(c.agent))
    <2> DEFINE q == [c EXCEPT !.exp = rt[c.agent], !.pc = "submit"]
    <2>1. Becomes(k, q) /\ c.pc = "fetch"
      BY <1>9 DEF Fetch
    <2>0. c.agent \in Agent
      BY <1>1, <2>1 DEF Shape, AgentPC, PC
    <2> HIDE DEF c
    <2>2. /\ q \in Op
          /\ q.kind = c.kind /\ q.pc = "submit" /\ q.agent = c.agent
          /\ q.exp = rt[c.agent] /\ q.slot = c.slot /\ q.spot = c.spot /\ q.cand = c.cand
          /\ q.cexp = c.cexp /\ q.target = c.target /\ q.inc0 = c.inc0 /\ q.miss = c.miss
      BY <1>1, <1>2, <2>1, <2>0, ZenonT(60) DEF Op, PC
    <2> HIDE DEF q
    <2>3. Shape(q) /\ Remembers(q, rt, latest, run)
      BY <1>1, <1>2, <2>1, <2>2, <2>0 DEF Shape, SlotPC, SpotPC, AgentPC, RoomPC, ClosePC, PC, Remembers
    <2> QED  BY <2>1, <2>2, <2>3 DEF GoesOn
  <1>10. CASE Fetch(k) /\ ~(V2 \/ Loaded(c.agent))
    BY <1>10, FailGoesOn DEF Fetch
  <1>11. CASE \E b \in Agent : Descend(k, b) /\ Loaded(b)
    <2>0. PICK b \in Agent : Descend(k, b) /\ Loaded(b)
      BY <1>11
    <2> DEFINE t == (c.todo \ {b}) \cup {d \in Children(b) : edge[d] = "open"}
               q == [c EXCEPT !.todo = t]
    <2>1. Becomes(k, q) /\ c.pc = "descend"
      BY <2>0 DEF Descend
    <2>2. t \in SUBSET Agent
      BY <1>1 DEF Op, Children
    <2> HIDE DEF t
    <2> HIDE DEF c
    <2>3. /\ q \in Op
          /\ q.kind = c.kind /\ q.pc = c.pc /\ q.agent = c.agent /\ q.exp = c.exp
          /\ q.slot = c.slot /\ q.spot = c.spot /\ q.cand = c.cand /\ q.cexp = c.cexp
          /\ q.target = c.target /\ q.inc0 = c.inc0 /\ q.miss = c.miss
      BY <1>1, <2>2 DEF Op
    <2> HIDE DEF q
    <2>4. Shape(q) /\ Remembers(q, rt, latest, run)
      BY <1>1, <2>1, <2>3 DEF Shape, SlotPC, SpotPC, AgentPC, RoomPC, ClosePC, PC, Remembers
    <2> QED  BY <2>1, <2>3, <2>4 DEF GoesOn
  <1>12. CASE \E b \in Agent : Descend(k, b) /\ ~Loaded(b)
    <2>0. PICK b \in Agent : Descend(k, b) /\ ~Loaded(b)
      BY <1>12
    <2> DEFINE s == Start("resume", b, "register")
               q == [s EXCEPT !.todo = c.todo \ {b}]
    <2>1. Becomes(k, q) /\ c.todo \in SUBSET Agent
      BY <1>1, <2>0 DEF Descend, Op
    <2> HIDE DEF c
    <2>2. /\ s \in Op /\ s.kind = "resume" /\ s.agent = b /\ s.pc = "register"
          /\ s.slot = FALSE /\ s.spot = FALSE
      BY StartFields DEF PC
    <2> HIDE DEF s
    <2>3. /\ q \in Op /\ q.kind = "resume" /\ q.agent = b /\ q.pc = "register"
          /\ q.slot = FALSE /\ q.spot = FALSE
      BY <2>1, <2>2 DEF Op
    <2> HIDE DEF q
    <2>4. Shape(q) /\ Remembers(q, rt, latest, run)
      BY <2>3 DEF Shape, SlotPC, SpotPC, AgentPC, RoomPC, ClosePC, PC, Remembers
    <2> QED  BY <2>1, <2>3, <2>4 DEF GoesOn
  <1> HIDE DEF c
  <1> QED  BY <1>3, <1>4, <1>5, <1>6, <1>7, <1>8, <1>9, <1>10, <1>11, <1>12 DEF c

\* A failed submission, and the steps of close_agent.
LEMMA CloseGoesOn ==
    ASSUME IncInv, NEW k \in Caller,
           \/ SubmitFails(k) \/ Release(k) \/ Target(k) \/ Flush(k) \/ FlushFails(k)
           \/ CommitCloseFails(k) \/ (\E b \in Agent : NextDescendant(k, b))
           \/ Closed(k) \/ CloseStale(k) \/ Detach(k)
    PROVE  GoesOn(k)
  <1> DEFINE c == call[k]
  <1>1. c \in Op /\ Shape(c) /\ Remembers(c, rt, latest, run)
    BY CallFacts
  <1>2. \A a \in Agent : /\ rt[a] \in 0..MaxInc /\ rt[a] \in 0..latest[a]
                         /\ rt[a] # 0 => rt[a] \in 1..latest[a]
    BY CallFacts DEF IncInv, StateOK
  <1>3. CASE SubmitFails(k) /\ Receiver(c) # 0 /\ c.exp # 0
    <2> DEFINE q == [c EXCEPT !.pc = "died"]
    <2>1. Becomes(k, q) /\ c.pc = "submit" /\ Loop(c.agent, Receiver(c)) \in {"none", "dead"}
      BY <1>3 DEF SubmitFails
    <2>0. c.agent \in Agent /\ c.exp \in 1..latest[c.agent] /\ latest[c.agent] \in 0..MaxInc
      <3>1. c.agent \in Agent
        BY <1>1, <2>1 DEF Shape, AgentPC, PC
      <3>2. latest[c.agent] \in 0..MaxInc /\ c.exp \in 0..latest[c.agent] /\ MaxInc \in Nat
        BY <1>1, <2>1, <3>1, CallFacts, LifecycleBoundAssumption DEF Remembers
      <3> QED  BY <1>3, <3>1, <3>2
    <2>4. c.exp = latest[c.agent] => run[c.agent][c.exp] = "dead"
      <3> SUFFICES ASSUME c.exp = latest[c.agent] PROVE run[c.agent][c.exp] = "dead"
        OBVIOUS
      <3>1. rt[c.agent] \in {0, latest[c.agent]}
        BY <2>0, CallFacts
      <3>2. Receiver(c) = c.exp
        BY <1>3, <3>1 DEF Receiver
      <3>3. run[c.agent][c.exp] \in {"none", "dead"}
        BY <1>3, <2>1, <3>2 DEF Loop
      <3>4. c.exp \in Inc /\ ~(c.exp > latest[c.agent])
        BY <2>0, LifecycleBoundAssumption DEF Inc
      <3> QED  BY <2>0, <3>3, <3>4 DEF IncInv, RuntimeInv
    <2> HIDE DEF c
    <2>2. /\ q \in Op
          /\ q.kind = c.kind /\ q.pc = "died" /\ q.agent = c.agent /\ q.exp = c.exp
          /\ q.slot = c.slot /\ q.spot = c.spot /\ q.cand = c.cand /\ q.cexp = c.cexp
          /\ q.target = c.target /\ q.inc0 = c.inc0 /\ q.miss = c.miss
      BY <1>1, SMTT(30) DEF Op, PC
    <2> HIDE DEF q
    <2>3. Shape(q) /\ Remembers(q, rt, latest, run)
      BY <1>1, <2>0, <2>1, <2>2, <2>4 DEF Shape, SlotPC, SpotPC, AgentPC, RoomPC, ClosePC, PC, Remembers
    <2> QED  BY <2>1, <2>2, <2>3 DEF GoesOn
  <1>4. CASE SubmitFails(k) /\ ~(Receiver(c) # 0 /\ c.exp # 0)
    BY <1>4, FailGoesOn DEF SubmitFails
  <1>5. CASE Release(k) /\ c.kind = "close"
    <2> DEFINE q == [c EXCEPT !.pc = "next"]
    <2>1. Becomes(k, q) /\ c.pc = "release" /\ c.kind = "close"
      BY <1>5 DEF Release
    <2> HIDE DEF c
    <2>2. /\ q \in Op
          /\ q.kind = c.kind /\ q.pc = "next" /\ q.agent = c.agent /\ q.exp = c.exp
          /\ q.slot = c.slot /\ q.spot = c.spot /\ q.cand = c.cand /\ q.cexp = c.cexp
          /\ q.target = c.target /\ q.inc0 = c.inc0 /\ q.miss = c.miss
      BY <1>1, <1>2, <2>1, SMTT(30) DEF Op, PC
    <2> HIDE DEF q
    <2>3. Shape(q) /\ Remembers(q, rt, latest, run)
      BY <1>1, <1>2, <2>1, <2>2 DEF Shape, SlotPC, SpotPC, AgentPC, RoomPC, ClosePC, PC, Remembers
    <2> QED  BY <2>1, <2>2, <2>3 DEF GoesOn
  <1>6. CASE Release(k) /\ c.kind # "close"
    BY <1>6, FailGoesOn DEF Release
  <1>7. CASE Target(k)
    <2> DEFINE p == IF rt[c.agent] # 0 THEN "flush" ELSE "shut"
               q == [c EXCEPT !.exp = rt[c.agent], !.pc = p]
    <2>1. Becomes(k, q) /\ c.pc = "target"
      BY <1>7 DEF Target, Loaded
    <2>0. c.agent \in Agent
      BY <1>1, <2>1 DEF Shape, AgentPC, PC
    <2> HIDE DEF c
    <2>2. /\ q \in Op
          /\ q.kind = c.kind /\ q.pc = p /\ q.agent = c.agent /\ q.exp = rt[c.agent]
          /\ q.slot = c.slot /\ q.spot = c.spot /\ q.cand = c.cand /\ q.cexp = c.cexp
          /\ q.target = c.target /\ q.inc0 = c.inc0 /\ q.miss = c.miss
      BY <1>1, <1>2, <2>1, <2>0, ZenonT(60) DEF Op, PC
    <2> HIDE DEF q
    <2>3. Shape(q) /\ Remembers(q, rt, latest, run)
      BY <1>1, <1>2, <2>1, <2>2, <2>0 DEF Shape, SlotPC, SpotPC, AgentPC, RoomPC, ClosePC, PC, Remembers
    <2> QED  BY <2>1, <2>2, <2>3 DEF GoesOn
  <1>8. CASE CommitCloseFails(k)
    <2> DEFINE q == [c EXCEPT !.pc = "next", !.exp = 0, !.miss = FALSE]
    <2>1. Becomes(k, q) /\ c.pc = "close"
      BY <1>8 DEF CommitCloseFails
    <2>0. 0 \in 0..MaxInc
      BY LifecycleBoundAssumption
    <2> HIDE DEF c
    <2>2. /\ q \in Op
          /\ q.kind = c.kind /\ q.pc = "next" /\ q.agent = c.agent /\ q.exp = 0
          /\ q.slot = c.slot /\ q.spot = c.spot /\ q.cand = c.cand /\ q.cexp = c.cexp
          /\ q.target = c.target /\ q.inc0 = c.inc0 /\ q.miss = FALSE
      BY <1>1, <1>2, <2>1, <2>0, ZenonT(60) DEF Op, PC
    <2> HIDE DEF q
    <2>3. Shape(q) /\ Remembers(q, rt, latest, run)
      BY <1>1, <1>2, <2>1, <2>2 DEF Shape, SlotPC, SpotPC, AgentPC, RoomPC, ClosePC, PC, Remembers
    <2> QED  BY <2>1, <2>2, <2>3 DEF GoesOn
  <1>9. CASE \E b \in Agent : NextDescendant(k, b)
    <2>0. PICK b \in Agent : NextDescendant(k, b)
      BY <1>9
    <2> DEFINE q == [c EXCEPT !.agent = b, !.todo = c.todo \ {b}, !.pc = "target"]
    <2>1. Becomes(k, q) /\ c.pc = "next"
      BY <2>0 DEF NextDescendant
    <2> HIDE DEF c
    <2>2. /\ q \in Op
          /\ q.kind = c.kind /\ q.pc = "target" /\ q.agent = b /\ q.exp = c.exp
          /\ q.slot = c.slot /\ q.spot = c.spot /\ q.cand = c.cand /\ q.cexp = c.cexp
          /\ q.target = c.target /\ q.inc0 = c.inc0 /\ q.miss = c.miss
      BY <1>1, ZenonT(60) DEF Op, PC
    <2> HIDE DEF q
    <2>3. Shape(q) /\ Remembers(q, rt, latest, run)
      BY <1>1, <2>1, <2>2 DEF Shape, SlotPC, SpotPC, AgentPC, RoomPC, ClosePC, PC, Remembers
    <2> QED  BY <2>1, <2>2, <2>3 DEF GoesOn
  <1>10. CASE Closed(k) /\ c.miss /\ c.known
    <2> DEFINE q == [c EXCEPT !.pc = "stale", !.agent = c.target, !.exp = 0]
    <2>1. Becomes(k, q) /\ c.pc = "next" /\ c.miss
      BY <1>10 DEF Closed
    <2>0. 0 \in 0..MaxInc /\ c.kind = "close" /\ c.target \in Agent
      BY <1>1, <2>1, LifecycleBoundAssumption DEF Shape, ClosePC
    <2> HIDE DEF c
    <2>2. /\ q \in Op
          /\ q.kind = c.kind /\ q.pc = "stale" /\ q.agent = c.target /\ q.exp = 0
          /\ q.slot = c.slot /\ q.spot = c.spot /\ q.cand = c.cand /\ q.cexp = c.cexp
          /\ q.target = c.target /\ q.inc0 = c.inc0 /\ q.miss = c.miss
      BY <1>1, <1>2, <2>1, <2>0, ZenonT(60) DEF Op, PC
    <2> HIDE DEF q
    <2>3. Shape(q) /\ Remembers(q, rt, latest, run)
      BY <1>1, <1>2, <2>1, <2>2, <2>0 DEF Shape, SlotPC, SpotPC, AgentPC, RoomPC, ClosePC, PC, Remembers
    <2> QED  BY <2>1, <2>2, <2>3 DEF GoesOn
  <1>11. CASE Closed(k) /\ ~(c.miss /\ c.known)
    BY <1>11, FailGoesOn DEF Closed
  <1>12. CASE CloseStale(k)
    <2> DEFINE q == [c EXCEPT !.pc = "release", !.miss = FALSE]
    <2>1. Becomes(k, q) /\ c.pc = "stale"
      BY <1>12 DEF CloseStale
    <2> HIDE DEF c
    <2>2. /\ q \in Op
          /\ q.kind = c.kind /\ q.pc = "release" /\ q.agent = c.agent /\ q.exp = c.exp
          /\ q.slot = c.slot /\ q.spot = c.spot /\ q.cand = c.cand /\ q.cexp = c.cexp
          /\ q.target = c.target /\ q.inc0 = c.inc0 /\ q.miss = FALSE
      BY <1>1, <1>2, <2>1, ZenonT(60) DEF Op, PC
    <2> HIDE DEF q
    <2>3. Shape(q) /\ Remembers(q, rt, latest, run)
      BY <1>1, <1>2, <2>1, <2>2 DEF Shape, SlotPC, SpotPC, AgentPC, RoomPC, ClosePC, PC, Remembers
    <2> QED  BY <2>1, <2>2, <2>3 DEF GoesOn
  <1>13. CASE Detach(k)
    <2> DEFINE q == [c EXCEPT !.todo = {}, !.miss = FALSE]
    <2>1. Becomes(k, q) /\ c.pc \in {"close", "release"}
      BY <1>13 DEF Detach
    <2> HIDE DEF c
    <2>2. /\ q \in Op
          /\ q.kind = c.kind /\ q.pc = c.pc /\ q.agent = c.agent /\ q.exp = c.exp
          /\ q.slot = c.slot /\ q.spot = c.spot /\ q.cand = c.cand /\ q.cexp = c.cexp
          /\ q.target = c.target /\ q.inc0 = c.inc0 /\ q.miss = FALSE
      BY <1>1, <1>2, <2>1, ZenonT(60) DEF Op, PC
    <2> HIDE DEF q
    <2>3. Shape(q) /\ Remembers(q, rt, latest, run)
      BY <1>1, <1>2, <2>1, <2>2 DEF Shape, SlotPC, SpotPC, AgentPC, RoomPC, ClosePC, PC, Remembers
    <2> QED  BY <2>1, <2>2, <2>3 DEF GoesOn
  <1>14. CASE Flush(k)
    <2> DEFINE q == [c EXCEPT !.pc = "shut"]
    <2>1. Becomes(k, q) /\ c.pc = "flush"
      BY <1>14 DEF Flush, Goto
    <2> HIDE DEF c
    <2>2. /\ q \in Op
          /\ q.kind = c.kind /\ q.pc = "shut" /\ q.agent = c.agent /\ q.exp = c.exp
          /\ q.slot = c.slot /\ q.spot = c.spot /\ q.cand = c.cand /\ q.cexp = c.cexp
          /\ q.target = c.target /\ q.inc0 = c.inc0 /\ q.miss = c.miss
      BY <1>1, <1>2, <2>1, SMTT(30) DEF Op, PC
    <2> HIDE DEF q
    <2>3. Shape(q) /\ Remembers(q, rt, latest, run)
      BY <1>1, <1>2, <2>1, <2>2 DEF Shape, SlotPC, SpotPC, AgentPC, RoomPC, ClosePC, PC, Remembers
    <2> QED  BY <2>1, <2>2, <2>3 DEF GoesOn
  <1>15. CASE FlushFails(k)
    <2> DEFINE t == AfterError(c)
               q == [c EXCEPT !.pc = "next", !.exp = 0, !.miss = FALSE, !.todo = t]
    <2>1. Becomes(k, q) /\ c.pc = "flush"
      BY <1>15 DEF FlushFails
    <2>0. 0 \in 0..MaxInc /\ t \in SUBSET Agent
      BY <1>1, LifecycleBoundAssumption DEF AfterError, Op
    <2> HIDE DEF t
    <2> HIDE DEF c
    <2>2. /\ q \in Op
          /\ q.kind = c.kind /\ q.pc = "next" /\ q.agent = c.agent /\ q.exp = 0
          /\ q.slot = c.slot /\ q.spot = c.spot /\ q.cand = c.cand /\ q.cexp = c.cexp
          /\ q.target = c.target /\ q.inc0 = c.inc0 /\ q.miss = FALSE
      BY <1>1, <1>2, <2>1, <2>0, ZenonT(60) DEF Op, PC
    <2> HIDE DEF q
    <2>3. Shape(q) /\ Remembers(q, rt, latest, run)
      BY <1>1, <1>2, <2>1, <2>2 DEF Shape, SlotPC, SpotPC, AgentPC, RoomPC, ClosePC, PC, Remembers
    <2> QED  BY <2>1, <2>2, <2>3 DEF GoesOn
  <1> HIDE DEF c
  <1> QED  BY <1>3, <1>4, <1>5, <1>6, <1>7, <1>8, <1>9, <1>10, <1>11, <1>12, <1>13, <1>14,
              <1>15 DEF c

\* The steps that touch no runtime.
Quiet(k) ==
    \/ ReserveSlot(k) \/ NoRoom(k) \/ PopLru(k) \/ CheckCandidate(k) \/ Register(k)
    \/ Construct(k) \/ CheckRuntime(k) \/ Persist(k)
    \/ (Load(k) /\ Running(call[k].agent))
    \/ FinalizeDuplicate(k) \/ UseLoaded(k) \/ Commit(k) \/ Fetch(k)
    \/ (\E b \in Agent : Descend(k, b))
    \/ SubmitFails(k) \/ Release(k) \/ Target(k) \/ Flush(k) \/ FlushFails(k)
    \/ CommitCloseFails(k)
    \/ (\E b \in Agent : NextDescendant(k, b)) \/ Closed(k) \/ CloseStale(k) \/ Detach(k)
    \/ LimitReached(k) \/ RegisterFails(k) \/ CheckRuntimeFails(k) \/ RolledBack(k)
    \/ Resumed(k) \/ CleanUpFails(k) \/ CloseStaleFails(k) \/ UnloadTimeout(k)
    \/ Cancel(k) \/ CancelInStore(k)

\* Steps that leave the runtimes alone.
LEMMA QuietStep ==
    ASSUME IncInv, ResidentsOK, NEW k \in Caller, Quiet(k)
    PROVE  IncInv'
  <1> DEFINE c == call[k]
  <1>0. /\ c \in Op /\ Shape(c) /\ cut \subseteq Agent /\ stray \subseteq Agent
        /\ faults \in 0..layout.faults
        /\ edge \in [Agent -> {"none", "open", "closed"}]
    BY CallFacts
  <1>1. GoesOn(k)
    <2>1. CASE \/ LimitReached(k) \/ RegisterFails(k) \/ CheckRuntimeFails(k) \/ RolledBack(k)
               \/ Resumed(k) \/ CleanUpFails(k) \/ CloseStaleFails(k) \/ UnloadTimeout(k)
               \/ Cancel(k) \/ CancelInStore(k)
      <3>1. Becomes(k, Idle) \/ Becomes(k, Failed(call[k]))
        BY <2>1 DEF LimitReached, RegisterFails, CheckRuntimeFails, RolledBack, Resumed,
                    CleanUpFails, CloseStaleFails, UnloadTimeout, Cancel, CancelInStore, Fail
      <3> QED  BY <3>1, FailGoesOn
    <2> QED  BY <2>1, RoomGoesOn, LoadGoesOn, CloseGoesOn DEF Quiet
  <1>2. UNCHANGED layout /\ UNCHANGED runtimeVars
    BY DEF Quiet, ReserveSlot, NoRoom, PopLru, CheckCandidate, Register, Construct, CheckRuntime, Persist, Load, runtimeVars,
           FinalizeDuplicate, UseLoaded, Commit, Fetch, Descend, SubmitFails, Release, Target, Flush,
           FlushFails, CommitCloseFails, NextDescendant, Closed, CloseStale, Detach, LimitReached,
           RegisterFails, CheckRuntimeFails, RolledBack, Resumed, CleanUpFails, CloseStaleFails,
           UnloadTimeout, Cancel, CancelInStore
  <1>3. edge' \in [Agent -> {"none", "open", "closed"}]
    <2>1. CASE Persist(k) \/ CloseStale(k) \/ CancelInStore(k)
      BY <1>0, <2>1 DEF Persist, CloseStale, CancelInStore
    <2>3. CASE Construct(k) \/ Flush(k)
      BY <1>0, <2>3 DEF Construct, Flush, EdgeIfAbsent
    <2>2. CASE UNCHANGED edge
      BY <1>0, <2>2
    <2> QED  BY <2>1, <2>2, <2>3
             DEF Quiet, ReserveSlot, NoRoom, PopLru, CheckCandidate, Register, CheckRuntime, Load,
                 FinalizeDuplicate, UseLoaded, Commit, Fetch, Descend, SubmitFails, Release,
                 Target, FlushFails, CommitCloseFails, NextDescendant, Closed, Detach, LimitReached,
                 RegisterFails, CheckRuntimeFails, RolledBack, Resumed, CleanUpFails,
                 CloseStaleFails, UnloadTimeout, Cancel
  <1>6. stray' \subseteq Agent
    <2>1. Strays(c) \subseteq Agent
      BY <1>0 DEF Strays, Shape, AgentPC, PC
    <2>2. CASE CancelInStore(k)
      <3>1. c.pc \in {"store", "died", "stale"} /\ stray' \subseteq stray \cup {c.agent}
        BY <2>2 DEF CancelInStore
      <3> QED  BY <1>0, <3>1 DEF Shape, AgentPC, PC
    <2>3. CASE ~CancelInStore(k)
      <3>1. UNCHANGED stray \/ stray' = stray \cup Strays(c)
        BY <2>3 DEF Quiet, ReserveSlot, NoRoom, PopLru, CheckCandidate, Register, Construct,
           CheckRuntime, Persist, Load, FinalizeDuplicate, UseLoaded, Commit, Fetch, Descend,
           SubmitFails, Release, Target, Flush, FlushFails, CommitCloseFails, NextDescendant,
           Closed, CloseStale, Detach, LimitReached, RegisterFails, CheckRuntimeFails,
           RolledBack, Resumed, CleanUpFails, CloseStaleFails, UnloadTimeout, Cancel, Fail
      <3> QED  BY <1>0, <2>1, <3>1
    <2> QED  BY <2>2, <2>3
  <1>7. c.pc # "undo"
    BY DEF Quiet, ReserveSlot, NoRoom, PopLru, CheckCandidate, Register, Construct,
           CheckRuntime, Persist, Load, FinalizeDuplicate, UseLoaded, Commit, Fetch, Descend,
           SubmitFails, Release, Target, Flush, FlushFails, CommitCloseFails, NextDescendant,
           Closed, CloseStale, Detach, LimitReached, RegisterFails, CheckRuntimeFails,
           RolledBack, Resumed, CleanUpFails, CloseStaleFails, UnloadTimeout, Cancel,
           CancelInStore
  <1>4. CASE Cancel(k) \/ CancelInStore(k)
    <2>1. LeftBehind(c) \subseteq Agent
      BY <1>0 DEF LeftBehind, Shape, AgentPC, PC
    <2>2. c.pc = "rollback" => c.agent \in LeftBehind(c)
      BY DEF LeftBehind
    <2>3. /\ cut \subseteq cut' /\ cut' \subseteq Agent
          /\ c.pc = "rollback" => c.agent \in cut'
      <3>1. CASE Cancel(k)
        BY <1>0, <2>1, <2>2, <3>1 DEF Cancel
      <3>2. CASE CancelInStore(k)
        <4>1. c.pc \in {"store", "died", "stale"} /\ cut' = cut \cup {c.agent}
          BY <3>2 DEF CancelInStore
        <4> QED  BY <1>0, <4>1 DEF Shape, AgentPC, PC
      <3> QED  BY <1>4, <3>1, <3>2
    <2>4. faults' \in 0..layout.faults
      BY <1>4, FaultOK DEF Cancel, CancelInStore
    <2> QED  BY <1>1, <1>2, <1>3, <1>6, <1>7, <2>3, <2>4, QuietKeeps DEF GoesOn
  <1>5. CASE ~(Cancel(k) \/ CancelInStore(k))
    <2>1. UNCHANGED cut
      BY <1>5 DEF Quiet, ReserveSlot, NoRoom, PopLru, CheckCandidate, Register, Construct, CheckRuntime, Persist, Load,
           FinalizeDuplicate, UseLoaded, Commit, Fetch, Descend, SubmitFails, Release, Target, Flush,
           FlushFails, CommitCloseFails, NextDescendant, Closed, CloseStale, Detach, LimitReached,
           RegisterFails, CheckRuntimeFails, RolledBack, Resumed, CleanUpFails, CloseStaleFails,
           UnloadTimeout
    <2>2. faults' \in 0..layout.faults
      <3>1. UNCHANGED faults \/ Fault
        BY <1>5 DEF Quiet, ReserveSlot, NoRoom, PopLru, CheckCandidate, Register, Construct, CheckRuntime, Persist, Load,
           FinalizeDuplicate, UseLoaded, Commit, Fetch, Descend, SubmitFails, Release, Target, Flush,
           FlushFails, CommitCloseFails, NextDescendant, Closed, CloseStale, Detach, LimitReached,
           RegisterFails, CheckRuntimeFails, RolledBack, Resumed, CleanUpFails, CloseStaleFails,
           UnloadTimeout
      <3> QED  BY <1>0, <3>1, FaultOK
    <2>3. c.pc = "rollback" => run[c.agent][c.exp] = "dead"
      BY <1>5 DEF Quiet, ReserveSlot, NoRoom, PopLru, CheckCandidate, Register, Construct, CheckRuntime, Persist, Load,
           FinalizeDuplicate, UseLoaded, Commit, Fetch, Descend, SubmitFails, Release, Target, Flush,
           FlushFails, CommitCloseFails, NextDescendant, Closed, CloseStale, Detach, LimitReached,
           RegisterFails, CheckRuntimeFails, RolledBack, Resumed, CleanUpFails, CloseStaleFails,
           UnloadTimeout, Exited
    <2> QED  BY <1>0, <1>1, <1>2, <1>3, <1>6, <1>7, <2>1, <2>2, <2>3, QuietKeeps DEF GoesOn
  <1> QED  BY <1>4, <1>5

-----------------------------------------------------------------------------
(* Steps that start, stop or remove a runtime.                             *)

\* The runtimes after the step are those IncInv allows.
RuntimesOK ==
    /\ rt' \in [Agent -> 0..MaxInc] /\ latest' \in [Agent -> 0..MaxInc]
    /\ run' \in [Agent -> [Inc -> RunState]]
    /\ Grows /\ RuntimeInv'

\* Every orphan was one before the step, and stays told to stop.
NoNewOrphan ==
    \A a \in Agent : \A i \in Inc : Orphan(a, i)' =>
        Orphan(a, i) /\ (run[a][i] = "stop" => run'[a][i] = "stop")

\* Steps that change runtimes, when the operation accounts for the orphan it
\* makes or tells to stop.
LEMMA RuntimeKeeps ==
    ASSUME IncInv, RuntimesOK, NEW k \in Caller, NEW c \in Op, Becomes(k, c),
           Shape(c), Remembers(c, rt', latest', run'),
           UNCHANGED layout, UNCHANGED <<cut, stray>>, call[k].pc # "rollback",
           edge' \in [Agent -> {"none", "open", "closed"}], faults' \in 0..layout.faults,
           \/ call[k].pc # "undo" /\ NoNewOrphan
           \/ /\ call[k].pc # "undo" /\ c.pc = "undo"
              /\ \A a \in Agent : \A i \in Inc : Orphan(a, i)' =>
                    \/ Orphan(a, i) /\ (run[a][i] = "stop" => run'[a][i] = "stop")
                    \/ c.agent = a /\ c.exp = i
           \/ /\ NoNewOrphan /\ c.pc = "rollback"
              /\ c.agent = call[k].agent /\ c.exp = call[k].exp
              /\ run'[c.agent][c.exp] \in {"stop", "dead"}
    PROVE  IncInv'
  <1>0. StateOK /\ CallInv /\ OrphanInv
    BY DEF IncInv
  <1>1. /\ call' \in [Caller -> Op] /\ call'[k] = c
        /\ \A j \in Caller \ {k} : call'[j] = call[j]
    BY <1>0, BecomesSets DEF StateOK
  <1>2. StateOK'
    BY <1>0, <1>1 DEF StateOK, RuntimesOK
  <1>3. CallInv'
    BY <1>0, CallsKeep DEF RuntimesOK
  <1>4. OrphanInv'
    <2> SUFFICES ASSUME NEW a \in Agent, NEW i \in Inc, Orphan(a, i)'
                 PROVE  \/ Undoing(a, i)'
                        \/ run'[a][i] = "stop" /\ (a \in cut \/ RolledBackBy(a, i)')
      BY DEF OrphanInv
    <2>1. CASE c.pc = "undo" /\ c.agent = a /\ c.exp = i
      BY <1>1, <2>1 DEF Undoing
    <2>2. CASE Orphan(a, i) /\ (run[a][i] = "stop" => run'[a][i] = "stop")
      <3>1. CASE Undoing(a, i)
        <4>1. PICK j \in Caller : call[j].agent = a /\ call[j].exp = i /\ call[j].pc = "undo"
          BY <3>1 DEF Undoing
        <4>2. CASE j # k
          <5>1. call'[j] = call[j]
            BY <1>1, <4>2
          <5> QED  BY <4>1, <5>1 DEF Undoing
        <4>3. CASE j = k
          <5>1. /\ c.pc = "rollback" /\ c.agent = a /\ c.exp = i
                /\ run'[a][i] \in {"stop", "dead"}
            BY <4>1, <4>3
          <5>2. run'[a][i] = "stop"
            BY <5>1 DEF Orphan
          <5> QED  BY <1>1, <5>1, <5>2 DEF RolledBackBy
        <4> QED  BY <4>2, <4>3
      <3>2. CASE run[a][i] = "stop" /\ a \in cut
        BY <2>2, <3>2
      <3>3. CASE run[a][i] = "stop" /\ RolledBackBy(a, i)
        <4>1. PICK j \in Caller : call[j].pc = "rollback" /\ call[j].agent = a /\ call[j].exp = i
          BY <3>3 DEF RolledBackBy
        <4>2. call'[j] = call[j]
          BY <1>1, <4>1
        <4> QED  BY <2>2, <3>3, <4>1, <4>2 DEF RolledBackBy
      <3> QED  BY <1>0, <2>2, <3>1, <3>2, <3>3 DEF OrphanInv
    <2> QED  BY <2>1, <2>2 DEF NoNewOrphan
  <1> QED  BY <1>2, <1>3, <1>4 DEF IncInv, RuntimesOK

\* A runtime that has exited leaves the map.
LEMMA DropFacts ==
    ASSUME IncInv, NEW a \in Agent, UNCHANGED <<latest, run>>,
           \/ UNCHANGED rt
           \/ rt' = [rt EXCEPT ![a] = 0] /\ (rt[a] # 0 => run[a][rt[a]] = "dead")
    PROVE  RuntimesOK /\ NoNewOrphan
  <1>0. StateOK /\ RuntimeInv /\ MaxInc \in Nat
    BY LifecycleBoundAssumption DEF IncInv
  <1>1. /\ rt \in [Agent -> 0..MaxInc] /\ latest \in [Agent -> 0..MaxInc]
        /\ run \in [Agent -> [Inc -> RunState]]
    BY <1>0 DEF StateOK
  <1>2. rt' \in [Agent -> 0..MaxInc]
    BY <1>0, <1>1
  <1>3. \A b \in Agent : rt'[b] = rt[b] \/ (rt'[b] = 0 /\ (rt[b] # 0 => run[b][rt[b]] = "dead"))
    BY <1>1
  <1>4. Grows
    <2>1. \A b \in Agent : latest[b] <= latest'[b]
      BY <1>0, <1>1
    <2>2. \A b \in Agent : rt[b] = 0 => rt'[b] = 0
      BY <1>3
    <2> QED  BY <2>1, <2>2 DEF Grows
  <1>5. RuntimeInv'
    BY <1>0, <1>3 DEF RuntimeInv
  <1>6. NoNewOrphan
    <2>1. \A i \in Inc : i # 0
      BY <1>0 DEF Inc
    <2> QED  BY <1>3, <2>1 DEF NoNewOrphan, Orphan
  <1> QED  BY <1>1, <1>2, <1>4, <1>5, <1>6 DEF RuntimesOK

\* A loop that has not exited changes its state; one told to stop can only exit.
LEMMA LoopFacts ==
    ASSUME IncInv, NEW a \in Agent, NEW n \in Inc, NEW s \in {"busy", "done", "stop", "dead"},
           UNCHANGED <<rt, latest>>,
           \/ UNCHANGED run
           \/ /\ run' = [run EXCEPT ![a][n] = s]
              /\ run[a][n] \notin {"none", "dead"}
              /\ run[a][n] = "stop" => s \in {"stop", "dead"}
    PROVE  RuntimesOK /\ NoNewOrphan
  <1>0. StateOK /\ RuntimeInv /\ MaxInc \in Nat
    BY LifecycleBoundAssumption DEF IncInv
  <1>1. /\ rt \in [Agent -> 0..MaxInc] /\ latest \in [Agent -> 0..MaxInc]
        /\ run \in [Agent -> [Inc -> RunState]]
    BY <1>0 DEF StateOK
  <1>2. run' \in [Agent -> [Inc -> RunState]]
    BY <1>1 DEF RunState
  <1>3. \A b \in Agent : \A i \in Inc :
          \/ run'[b][i] = run[b][i]
          \/ /\ run'[b][i] = s /\ run[b][i] \notin {"none", "dead"}
             /\ run[b][i] = "stop" => s \in {"stop", "dead"}
    BY <1>1
  <1>4. Grows
    <2>1. \A b \in Agent : latest[b] <= latest'[b]
      BY <1>0, <1>1
    <2>2. \A b \in Agent : \A i \in Inc : run[b][i] = "dead" => run'[b][i] = "dead"
      BY <1>3
    <2> QED  BY <2>1, <2>2 DEF Grows
  <1>5. RuntimeInv'
    <2>1. \A b \in Agent : \A i \in Inc : run'[b][i] = "none" <=> run[b][i] = "none"
      BY <1>3
    <2> QED  BY <1>0, <2>1 DEF RuntimeInv
  <1>6. NoNewOrphan
    BY <1>3 DEF NoNewOrphan, Orphan
  <1> QED  BY <1>1, <1>2, <1>4, <1>5, <1>6 DEF RuntimesOK

\* Op::Shutdown to an incarnation that was started.
LEMMA StoppedFacts ==
    ASSUME IncInv, NEW a \in Agent, NEW n \in 1..latest[a], UNCHANGED <<rt, latest>>,
           run' = Stopped(a, n)
    PROVE  RuntimesOK /\ NoNewOrphan /\ run'[a][n] \in {"stop", "dead"}
  <1>0. StateOK /\ RuntimeInv /\ MaxInc \in Nat
    BY LifecycleBoundAssumption DEF IncInv
  <1>1. n \in Inc /\ ~(n > latest[a]) /\ run \in [Agent -> [Inc -> RunState]]
    BY <1>0 DEF StateOK, Inc
  <1>2. run[a][n] # "none"
    BY <1>0, <1>1 DEF RuntimeInv
  <1>3. CASE run[a][n] = "dead"
    <2>1. UNCHANGED run
      BY <1>3 DEF Stopped
    <2> QED  BY <1>1, <1>3, <2>1, LoopFacts
  <1>4. CASE run[a][n] # "dead"
    <2>1. run' = [run EXCEPT ![a][n] = "stop"]
      BY <1>4 DEF Stopped
    <2>2. run'[a][n] = "stop"
      BY <1>1, <2>1
    <2> QED  BY <1>1, <1>2, <1>4, <2>1, <2>2, LoopFacts
  <1> QED  BY <1>3, <1>4

\* What those steps leave of the operation.
LEMMA ChangeGoesOn ==
    ASSUME IncInv, NEW k \in Caller,
           \/ SubmitShutdown(k) \/ RemoveUnloaded(k) \/ (Load(k) /\ ~Running(call[k].agent))
           \/ Submit(k) \/ CleanUp(k) \/ Shut(k) \/ Halt(k) \/ CommitClose(k)
    PROVE  GoesOn(k)
  <1> DEFINE c == call[k]
  <1>1. c \in Op /\ Shape(c) /\ Remembers(c, rt, latest, run)
    BY CallFacts
  <1>2. \A a \in Agent : /\ rt[a] \in 0..MaxInc /\ rt[a] \in 0..latest[a]
                         /\ rt[a] # 0 => rt[a] \in 1..latest[a]
    BY CallFacts DEF IncInv, StateOK
  <1>3. CASE SubmitShutdown(k)
    <2> DEFINE q == [c EXCEPT !.pc = "unload"]
    <2>1. Becomes(k, q) /\ c.pc = "evict"
      BY <1>3 DEF SubmitShutdown, Goto
    <2> HIDE DEF c
    <2>2. /\ q \in Op
          /\ q.kind = c.kind /\ q.pc = "unload" /\ q.agent = c.agent /\ q.exp = c.exp
          /\ q.slot = c.slot /\ q.spot = c.spot /\ q.cand = c.cand /\ q.cexp = c.cexp
          /\ q.target = c.target /\ q.inc0 = c.inc0 /\ q.miss = c.miss
      BY <1>1, <1>2, <2>1, SMTT(30) DEF Op, PC
    <2> HIDE DEF q
    <2>3. Shape(q) /\ Remembers(q, rt, latest, run)
      BY <1>1, <1>2, <2>1, <2>2 DEF Shape, SlotPC, SpotPC, AgentPC, RoomPC, ClosePC, PC, Remembers
    <2> QED  BY <2>1, <2>2, <2>3 DEF GoesOn
  <1>4. CASE RemoveUnloaded(k) /\ c.kind # "unload"
    <2> DEFINE q == [c EXCEPT !.pc = "reserve", !.cand = Nobody, !.cexp = 0, !.left = 0]
    <2>1. Becomes(k, q) /\ c.pc = "unload" /\ c.kind # "unload"
      BY <1>4 DEF RemoveUnloaded
    <2>0. 0 \in 0..MaxInc
      BY LifecycleBoundAssumption
    <2> HIDE DEF c
    <2>2. /\ q \in Op
          /\ q.kind = c.kind /\ q.pc = "reserve" /\ q.agent = c.agent /\ q.exp = c.exp
          /\ q.slot = c.slot /\ q.spot = c.spot /\ q.cand = Nobody /\ q.cexp = 0
          /\ q.target = c.target /\ q.inc0 = c.inc0 /\ q.miss = c.miss
      BY <1>1, <1>2, <2>1, <2>0, ZenonT(60) DEF Op, PC
    <2> HIDE DEF q
    <2>3. Shape(q) /\ Remembers(q, rt, latest, run)
      BY <1>1, <1>2, <2>1, <2>2 DEF Shape, SlotPC, SpotPC, AgentPC, RoomPC, ClosePC, PC, Remembers
    <2> QED  BY <2>1, <2>2, <2>3 DEF GoesOn
  <1>5. CASE RemoveUnloaded(k) /\ c.kind = "unload"
    BY <1>5, FailGoesOn DEF RemoveUnloaded
  <1>6. CASE Load(k) /\ ~Running(c.agent)
    <2> DEFINE q == [c EXCEPT !.pc = "finalize"]
    <2>1. Becomes(k, q) /\ c.pc = "load"
      BY <1>6 DEF Load, Goto
    <2> HIDE DEF c
    <2>2. /\ q \in Op
          /\ q.kind = c.kind /\ q.pc = "finalize" /\ q.agent = c.agent /\ q.exp = c.exp
          /\ q.slot = c.slot /\ q.spot = c.spot /\ q.cand = c.cand /\ q.cexp = c.cexp
          /\ q.target = c.target /\ q.inc0 = c.inc0 /\ q.miss = c.miss
      BY <1>1, <1>2, <2>1, SMTT(30) DEF Op, PC
    <2> HIDE DEF q
    <2>3. Shape(q) /\ Remembers(q, rt, latest, run)
      BY <1>1, <1>2, <2>1, <2>2 DEF Shape, SlotPC, SpotPC, AgentPC, RoomPC, ClosePC, PC, Remembers
    <2> QED  BY <2>1, <2>2, <2>3 DEF GoesOn
  <1>8. CASE Submit(k)
    BY <1>8, FailGoesOn DEF Submit
  <1>9. CASE CleanUp(k)
    <2> DEFINE q == [c EXCEPT !.pc = "release", !.exp = 0]
    <2>1. Becomes(k, q) /\ c.pc = "died"
      BY <1>9 DEF CleanUp
    <2>0. 0 \in 0..MaxInc
      BY LifecycleBoundAssumption
    <2> HIDE DEF c
    <2>2. /\ q \in Op
          /\ q.kind = c.kind /\ q.pc = "release" /\ q.agent = c.agent /\ q.exp = 0
          /\ q.slot = c.slot /\ q.spot = c.spot /\ q.cand = c.cand /\ q.cexp = c.cexp
          /\ q.target = c.target /\ q.inc0 = c.inc0 /\ q.miss = c.miss
      BY <1>1, <1>2, <2>1, <2>0, ZenonT(60) DEF Op, PC
    <2> HIDE DEF q
    <2>3. Shape(q) /\ Remembers(q, rt, latest, run)
      BY <1>1, <1>2, <2>1, <2>2 DEF Shape, SlotPC, SpotPC, AgentPC, RoomPC, ClosePC, PC, Remembers
    <2> QED  BY <2>1, <2>2, <2>3 DEF GoesOn
  <1>10. CASE CommitClose(k)
    <2> DEFINE q == [c EXCEPT !.pc = "release", !.exp = 0]
    <2>1. Becomes(k, q) /\ c.pc = "close"
      BY <1>10 DEF CommitClose
    <2>0. 0 \in 0..MaxInc
      BY LifecycleBoundAssumption
    <2> HIDE DEF c
    <2>2. /\ q \in Op
          /\ q.kind = c.kind /\ q.pc = "release" /\ q.agent = c.agent /\ q.exp = 0
          /\ q.slot = c.slot /\ q.spot = c.spot /\ q.cand = c.cand /\ q.cexp = c.cexp
          /\ q.target = c.target /\ q.inc0 = c.inc0 /\ q.miss = c.miss
      BY <1>1, <1>2, <2>1, <2>0, ZenonT(60) DEF Op, PC
    <2> HIDE DEF q
    <2>3. Shape(q) /\ Remembers(q, rt, latest, run)
      BY <1>1, <1>2, <2>1, <2>2 DEF Shape, SlotPC, SpotPC, AgentPC, RoomPC, ClosePC, PC, Remembers
    <2> QED  BY <2>1, <2>2, <2>3 DEF GoesOn
  <1>11. CASE Shut(k)
    <2> DEFINE skip == c.exp # 0 /\ run[c.agent][c.exp] = "dead"
               died == ~skip /\ Loop(c.agent, rt[c.agent]) = "dead"
               m == IF c.agent = c.target THEN ~skip /\ ~Loaded(c.agent) ELSE c.miss /\ ~died
               p == IF c.exp = 0 THEN "next" ELSE "halt"
               t == IF died THEN AfterError(c) ELSE c.todo
               q == [c EXCEPT !.pc = p, !.miss = m, !.todo = t]
    <2>1. Becomes(k, q) /\ c.pc = "shut"
      BY <1>11 DEF Shut
    <2>0. /\ m \in BOOLEAN /\ t \in SUBSET Agent /\ c.kind = "close" /\ c.target \in Agent /\ c.agent \in Agent
          /\ m => (c.agent = c.target /\ rt[c.target] = 0) \/ c.miss
          /\ c.exp \in 0..latest[c.agent] /\ latest[c.agent] \in 0..MaxInc
      <3>1. c.miss \in BOOLEAN /\ t \in SUBSET Agent
        BY <1>1 DEF Op, AfterError
      <3>2. c.kind = "close" /\ c.target \in Agent /\ c.agent \in Agent
        BY <1>1, <2>1 DEF Shape, ClosePC, AgentPC, PC
      <3>3. c.exp \in 0..latest[c.agent] /\ latest[c.agent] \in 0..MaxInc
        BY <1>1, <2>1, <3>2, CallFacts DEF Remembers
      <3> QED  BY <3>1, <3>2, <3>3 DEF Loaded
    <2>4. c.exp # 0 => c.exp \in 1..latest[c.agent]
      BY <2>0, LifecycleBoundAssumption
    <2> HIDE DEF m, t, skip, died
    <2> HIDE DEF c
    <2>2. /\ q \in Op
          /\ q.kind = c.kind /\ q.pc = p /\ q.agent = c.agent /\ q.exp = c.exp
          /\ q.slot = c.slot /\ q.spot = c.spot /\ q.cand = c.cand /\ q.cexp = c.cexp
          /\ q.target = c.target /\ q.inc0 = c.inc0 /\ q.miss = m
      BY <1>1, <2>0, ZenonT(60) DEF Op, PC
    <2> HIDE DEF q
    <2>3. Shape(q) /\ Remembers(q, rt, latest, run)
      BY <1>1, <2>0, <2>1, <2>2, <2>4 DEF Shape, SlotPC, SpotPC, AgentPC, RoomPC, ClosePC, PC, Remembers
    <2> QED  BY <2>1, <2>2, <2>3 DEF GoesOn
  <1>12. CASE Halt(k)
    <2> DEFINE p == IF c.agent = c.target THEN "close" ELSE IF rt[c.agent] = c.exp THEN "release" ELSE "next"
               x == IF c.agent = c.target THEN c.exp ELSE 0
               q == [c EXCEPT !.pc = p, !.exp = x]
    <2>1. Becomes(k, q) /\ c.pc = "halt" /\ run[c.agent][c.exp] = "dead"
      BY <1>12 DEF Halt, Exited
    <2>0. x \in 0..MaxInc /\ p \in {"close", "release", "next"} /\ (p = "close" => x = c.exp)
      BY <1>1, LifecycleBoundAssumption DEF Op
    <2> HIDE DEF x, p
    <2> HIDE DEF c
    <2>2. /\ q \in Op
          /\ q.kind = c.kind /\ q.pc = p /\ q.agent = c.agent /\ q.exp = x
          /\ q.slot = c.slot /\ q.spot = c.spot /\ q.cand = c.cand /\ q.cexp = c.cexp
          /\ q.target = c.target /\ q.inc0 = c.inc0 /\ q.miss = c.miss
      BY <1>1, <2>0, ZenonT(60) DEF Op, PC
    <2> HIDE DEF q
    <2>3. Shape(q) /\ Remembers(q, rt, latest, run)
      BY <1>1, <2>0, <2>1, <2>2 DEF Shape, SlotPC, SpotPC, AgentPC, RoomPC, ClosePC, PC, Remembers
    <2> QED  BY <2>1, <2>2, <2>3 DEF GoesOn
  <1> HIDE DEF c
  <1> QED  BY <1>3, <1>4, <1>5, <1>6, <1>8, <1>9, <1>10, <1>11, <1>12 DEF c

\* The steps that stop or remove a runtime.
LEMMA ChangeStep ==
    ASSUME IncInv, NEW k \in Caller,
           \/ SubmitShutdown(k) \/ RemoveUnloaded(k) \/ (Load(k) /\ ~Running(call[k].agent))
           \/ Submit(k) \/ CleanUp(k) \/ Shut(k) \/ Halt(k) \/ CommitClose(k)
    PROVE  IncInv'
  <1> DEFINE c == call[k]
  <1>1. /\ c \in Op /\ Shape(c) /\ Remembers(c, rt, latest, run) /\ faults \in 0..layout.faults
        /\ edge \in [Agent -> {"none", "open", "closed"}]
    BY CallFacts
  <1>2. /\ UNCHANGED layout /\ UNCHANGED <<cut, stray>> /\ UNCHANGED faults
        /\ c.pc \in {"evict", "unload", "load", "submit", "died", "shut", "halt", "close"}
    BY DEF SubmitShutdown, RemoveUnloaded, Load, Submit, CleanUp, Shut, Halt, CommitClose
  <1>3. edge' \in [Agent -> {"none", "open", "closed"}]
    BY <1>1 DEF SubmitShutdown, RemoveUnloaded, Load, Submit, CleanUp, Shut, Halt, CommitClose,
                CloseEdge
  <1>4. c.pc \notin {"evict", "unload"} => c.agent \in Agent
    BY <1>1, <1>2 DEF Shape, AgentPC, PC
  <1>5. c.pc \in {"evict", "unload"} => c.cand \in Agent /\ c.cexp \in 1..latest[c.cand]
    BY <1>1 DEF Shape, Remembers
  <1>6. RuntimesOK /\ NoNewOrphan
    <2>1. CASE SubmitShutdown(k)
      BY <1>5, <2>1, StoppedFacts DEF SubmitShutdown
    <2>2. CASE RemoveUnloaded(k)
      BY <1>5, <2>2, DropFacts DEF RemoveUnloaded, Exited
    <2>3. CASE Load(k) /\ ~Running(c.agent)
      <3>1. c.agent \in Agent
        BY <1>4, <2>3 DEF Load
      <3>2. rt[c.agent] # 0 => run[c.agent][rt[c.agent]] = "dead"
        <4>1. rt[c.agent] # 0 => rt[c.agent] \in 1..latest[c.agent] /\ latest[c.agent] \in 0..MaxInc
          BY <3>1, CallFacts
        <4>2. rt[c.agent] # 0 => rt[c.agent] \in Inc /\ ~(rt[c.agent] > latest[c.agent])
          BY <4>1, LifecycleBoundAssumption DEF Inc
        <4>3. rt[c.agent] # 0 => run[c.agent][rt[c.agent]] # "none"
          BY <3>1, <4>2 DEF IncInv, RuntimeInv
        <4> QED  BY <2>3, <4>3 DEF Running, Loop
      <3> QED  BY <2>3, <3>1, <3>2, DropFacts DEF Load
    <2>4. CASE Submit(k)
      <3> DEFINE i == Receiver(c)
      <3>1. /\ c.agent \in Agent /\ UNCHANGED <<rt, latest>>
            /\ i # 0 /\ run[c.agent][i] \notin {"none", "dead"}
            /\ UNCHANGED run \/ (run' = [run EXCEPT ![c.agent][i] = "busy"] /\ run[c.agent][i] # "stop")
        BY <1>4, <2>4 DEF Submit, Loop
      <3>2. i \in Inc
        <4>1. c.pc = "submit"
          BY <2>4 DEF Submit
        <4>2. c.exp \in 0..latest[c.agent] /\ latest[c.agent] \in 0..MaxInc
              /\ rt[c.agent] \in 0..latest[c.agent]
          BY <1>1, <3>1, <4>1, CallFacts DEF Remembers
        <4> QED  BY <3>1, <4>2, LifecycleBoundAssumption DEF Receiver, Inc
      <3> QED  BY <3>1, <3>2, LoopFacts
    <2>5. CASE Shut(k)
      <3>1. /\ c.agent \in Agent /\ UNCHANGED <<rt, latest>>
            /\ UNCHANGED run \/ (rt[c.agent] # 0 /\ run' = Stopped(c.agent, rt[c.agent]))
        BY <1>4, <2>5 DEF Shut, Loaded
      <3>2. CASE rt[c.agent] # 0 /\ run' = Stopped(c.agent, rt[c.agent])
        <4>1. rt[c.agent] \in 1..latest[c.agent]
          BY <3>1, <3>2, CallFacts
        <4> QED  BY <3>1, <3>2, <4>1, StoppedFacts
      <3>3. CASE UNCHANGED run
        BY <3>1, <3>3, DropFacts
      <3> QED  BY <3>1, <3>2, <3>3
    <2>6. CASE Halt(k)
      BY <1>4, <2>6, DropFacts DEF Halt, Exited
    <2>7. CASE CleanUp(k) \/ CommitClose(k)
      <3>1. /\ c.agent \in Agent /\ c.pc \in {"died", "close"} /\ c.exp = latest[c.agent]
            /\ rt' = (IF rt[c.agent] = c.exp THEN [rt EXCEPT ![c.agent] = 0] ELSE rt)
            /\ UNCHANGED <<latest, run>>
        BY <1>4, <2>7 DEF CleanUp, CommitClose, MayClose, CloseEdge
      <3>2. run[c.agent][c.exp] = "dead"
        BY <1>1, <3>1 DEF Remembers
      <3> QED  BY <3>1, <3>2, DropFacts
    <2> QED  BY <2>1, <2>2, <2>3, <2>4, <2>5, <2>6, <2>7
  <1>7. PICK q \in Op : Becomes(k, q) /\ Shape(q) /\ Remembers(q, rt, latest, run)
    BY ChangeGoesOn DEF GoesOn
  <1>8. Remembers(q, rt', latest', run')
    BY <1>6, <1>7, RemembersGrows DEF IncInv, RuntimesOK
  <1> QED  BY <1>1, <1>2, <1>3, <1>6, <1>7, <1>8, RuntimeKeeps

\* A failed persist unregisters its runtime before it has exited.
LEMMA PersistFailsKeeps ==
    ASSUME IncInv, NEW k \in Caller, PersistFails(k)
    PROVE  IncInv'
  <1> DEFINE c == call[k]
             a == c.agent
             n == c.exp
  <1>1. /\ c \in Op /\ Shape(c) /\ Remembers(c, rt, latest, run)
        /\ edge \in [Agent -> {"none", "open", "closed"}]
    BY CallFacts
  <1>2. /\ c.pc = "store"
        /\ rt' = IF rt[a] = n THEN [rt EXCEPT ![a] = 0] ELSE rt
        /\ Becomes(k, [c EXCEPT !.pc = "undo"]) /\ (Fault \/ UNCHANGED faults)
        /\ UNCHANGED <<layout, edge, latest, run, cut, stray>>
    BY DEF PersistFails, Goto
  <1>3. StateOK /\ RuntimeInv /\ MaxInc \in Nat
    BY LifecycleBoundAssumption DEF IncInv
  <1>4. /\ rt \in [Agent -> 0..MaxInc] /\ latest \in [Agent -> 0..MaxInc]
        /\ run \in [Agent -> [Inc -> RunState]]
    BY <1>3 DEF StateOK
  <1>5. a \in Agent
    BY <1>1, <1>2 DEF Shape, AgentPC, PC
  <1>7. rt' \in [Agent -> 0..MaxInc]
    BY <1>2, <1>3, <1>4, <1>5
  <1>9. \A b \in Agent : rt'[b] = IF b = a /\ rt[a] = n THEN 0 ELSE rt[b]
    BY <1>2, <1>4
  <1>10. Grows
    <2>1. \A b \in Agent : latest[b] <= latest'[b]
      BY <1>2, <1>3, <1>4
    <2> QED  BY <1>2, <1>9, <2>1 DEF Grows
  <1>11. RuntimeInv'
    BY <1>2, <1>3, <1>9 DEF RuntimeInv
  <1>12. \A b \in Agent : \A i \in Inc : Orphan(b, i)' =>
            \/ Orphan(b, i) /\ (run[b][i] = "stop" => run'[b][i] = "stop")
            \/ a = b /\ n = i
    BY <1>2, <1>9 DEF Orphan
  <1>13. PICK q \in Op : /\ Becomes(k, q) /\ Shape(q) /\ Remembers(q, rt, latest, run)
                         /\ q.pc = "undo" /\ q.agent = a /\ q.exp = n
    <2> DEFINE q == [c EXCEPT !.pc = "undo"]
    <2>1. Becomes(k, q)
      BY <1>2
    <2> HIDE DEF c
    <2>2. /\ q \in Op
          /\ q.kind = c.kind /\ q.pc = "undo" /\ q.agent = c.agent /\ q.exp = c.exp
          /\ q.slot = c.slot /\ q.spot = c.spot /\ q.cand = c.cand /\ q.cexp = c.cexp
          /\ q.target = c.target /\ q.inc0 = c.inc0 /\ q.miss = c.miss
      BY <1>1, SMTT(30) DEF Op, PC
    <2> HIDE DEF q
    <2>3. Shape(q) /\ Remembers(q, rt, latest, run)
      BY <1>1, <1>2, <2>2 DEF Shape, SlotPC, SpotPC, AgentPC, RoomPC, ClosePC, PC, Remembers
    <2> QED  BY <2>1, <2>2, <2>3
  <1>14. RuntimesOK
    BY <1>2, <1>4, <1>7, <1>10, <1>11 DEF RuntimesOK
  <1>15. Remembers(q, rt', latest', run')
    BY <1>3, <1>10, <1>13, <1>14, RemembersGrows DEF RuntimesOK
  <1>16. faults' \in 0..layout.faults
    <2>1. CASE Fault
      BY <2>1, FaultOK
    <2>2. CASE UNCHANGED faults
      BY <1>3, <2>2 DEF StateOK
    <2> QED  BY <1>2, <2>1, <2>2
  <1>17. c.pc # "rollback" /\ c.pc # "undo"
    BY <1>2
  <1> HIDE DEF c, a, n
  <1> QED  BY <1>1, <1>2, <1>12, <1>13, <1>14, <1>15, <1>16, <1>17, RuntimeKeeps DEF c

\* The runtime of a failed persist is told to stop.
LEMMA UndoKeeps ==
    ASSUME IncInv, NEW k \in Caller, Undo(k)
    PROVE  IncInv'
  <1> DEFINE c == call[k]
             a == c.agent
             n == c.exp
  <1>1. /\ c \in Op /\ Shape(c) /\ Remembers(c, rt, latest, run) /\ faults \in 0..layout.faults
        /\ edge \in [Agent -> {"none", "open", "closed"}]
    BY CallFacts
  <1>2. /\ c.pc = "undo" /\ run' = Stopped(a, n)
        /\ Becomes(k, [c EXCEPT !.pc = "rollback"])
        /\ UNCHANGED <<layout, edge, rt, latest, cut, stray, faults>>
    BY DEF Undo, Goto
  <1>3. a \in Agent /\ n \in 1..latest[a]
    BY <1>1, <1>2 DEF Shape, AgentPC, PC, Remembers
  <1>4. RuntimesOK /\ NoNewOrphan /\ run'[a][n] \in {"stop", "dead"}
    BY <1>2, <1>3, StoppedFacts
  <1>13. PICK q \in Op : /\ Becomes(k, q) /\ Shape(q) /\ Remembers(q, rt, latest, run)
                         /\ q.pc = "rollback" /\ q.agent = a /\ q.exp = n
    <2> DEFINE q == [c EXCEPT !.pc = "rollback"]
    <2>1. Becomes(k, q)
      BY <1>2
    <2> HIDE DEF c
    <2>2. /\ q \in Op
          /\ q.kind = c.kind /\ q.pc = "rollback" /\ q.agent = c.agent /\ q.exp = c.exp
          /\ q.slot = c.slot /\ q.spot = c.spot /\ q.cand = c.cand /\ q.cexp = c.cexp
          /\ q.target = c.target /\ q.inc0 = c.inc0 /\ q.miss = c.miss
      BY <1>1, SMTT(30) DEF Op, PC
    <2> HIDE DEF q
    <2>3. Shape(q) /\ Remembers(q, rt, latest, run)
      BY <1>1, <1>2, <2>2 DEF Shape, SlotPC, SpotPC, AgentPC, RoomPC, ClosePC, PC, Remembers
    <2> QED  BY <2>1, <2>2, <2>3
  <1>14. Remembers(q, rt', latest', run')
    BY <1>4, <1>13, RemembersGrows DEF IncInv, RuntimesOK
  <1>15. c.pc # "rollback"
    BY <1>2
  <1> HIDE DEF c, a, n
  <1> QED  BY <1>1, <1>2, <1>4, <1>13, <1>14, <1>15, RuntimeKeeps DEF c, a, n

\* A new incarnation.
LEMMA FinalizeKeeps ==
    ASSUME IncInv, NEW k \in Caller, Finalize(k)
    PROVE  IncInv'
  <1> DEFINE c == call[k]
             a == c.agent
             n == latest[a] + 1
             p == AfterLoad(c)
             q == [c EXCEPT !.exp = n, !.pc = p]
  <1>1. /\ c \in Op /\ Shape(c) /\ Remembers(c, rt, latest, run) /\ faults \in 0..layout.faults
        /\ edge \in [Agent -> {"none", "open", "closed"}]
    BY CallFacts
  <1>2. /\ c.pc = "finalize" /\ rt[a] = 0 /\ n \in Inc /\ Becomes(k, q)
        /\ latest' = [latest EXCEPT ![a] = n] /\ rt' = [rt EXCEPT ![a] = n]
        /\ run' = [run EXCEPT ![a][n] = "init"] /\ UNCHANGED <<layout, edge, cut, stray, faults>>
    BY DEF Finalize, Loaded
  <1>3. StateOK /\ RuntimeInv /\ MaxInc \in Nat
    BY LifecycleBoundAssumption DEF IncInv
  <1>4. /\ rt \in [Agent -> 0..MaxInc] /\ latest \in [Agent -> 0..MaxInc]
        /\ run \in [Agent -> [Inc -> RunState]]
    BY <1>3 DEF StateOK
  <1>5. a \in Agent /\ (c.kind = "message" => c.slot) /\ c.kind # "close"
    BY <1>1, <1>2 DEF Shape, AgentPC, SlotPC, ClosePC, PC
  <1>6. latest[a] \in Nat /\ n \in 1..MaxInc /\ n > latest[a] /\ n \in 1..n /\ n # 0
    BY <1>2, <1>3, <1>4, <1>5 DEF Inc
  <1>7. p = IF c.kind = "message" THEN "commit" ELSE "persist"
    BY DEF AfterLoad
  <1> HIDE DEF p
  <1> HIDE DEF n
  <1>8. /\ rt' \in [Agent -> 0..MaxInc] /\ latest' \in [Agent -> 0..MaxInc]
        /\ run' \in [Agent -> [Inc -> RunState]]
    BY <1>2, <1>3, <1>4, <1>5, <1>6 DEF RunState
  <1>9. \A b \in Agent : /\ rt'[b] = IF b = a THEN n ELSE rt[b]
                         /\ latest'[b] = IF b = a THEN n ELSE latest[b]
    BY <1>2, <1>4
  <1>10. \A b \in Agent : \A i \in Inc : run'[b][i] = IF b = a /\ i = n THEN "init" ELSE run[b][i]
    BY <1>2, <1>4
  <1>11. run[a][n] = "none"
    BY <1>2, <1>3, <1>5, <1>6 DEF RuntimeInv
  <1>12. \A b \in Agent : latest[b] \in Nat
    BY <1>3, <1>4
  <1>13. Grows
    <2>1. \A b \in Agent : latest[b] <= latest'[b]
      BY <1>6, <1>9, <1>12
    <2>2. \A b \in Agent : \A i \in Inc : run[b][i] = "dead" => run'[b][i] = "dead"
      BY <1>10, <1>11
    <2>3. \A b \in Agent : latest'[b] = latest[b] /\ rt[b] = 0 => rt'[b] = 0
      BY <1>6, <1>9, <1>12
    <2> QED  BY <2>1, <2>2, <2>3 DEF Grows
  <1>14. RuntimeInv'
    <2> SUFFICES ASSUME NEW b \in Agent
                 PROVE  /\ rt'[b] \in {0, latest'[b]}
                        /\ \A i \in Inc : i > latest'[b] <=> run'[b][i] = "none"
      BY DEF RuntimeInv
    <2>1. rt[b] \in {0, latest[b]}
      BY <1>3 DEF RuntimeInv
    <2>2. \A i \in Inc : i > latest[b] <=> run[b][i] = "none"
      BY <1>3 DEF RuntimeInv
    <2>4. CASE b # a
      BY <1>9, <1>10, <2>1, <2>2, <2>4
    <2>5. CASE b = a
      <3>1. rt'[b] = n /\ latest'[b] = n
        BY <1>9, <2>5
      <3>2. \A i \in Inc : i > n => run'[b][i] = "none"
        <4> TAKE i \in Inc
        <4>1. i > n => i > latest[b] /\ i # n
          BY <1>3, <1>6, <2>5 DEF Inc
        <4> QED  BY <1>10, <2>2, <4>1
      <3>3. \A i \in Inc : run'[b][i] = "none" => i > n
        <4> SUFFICES ASSUME NEW i \in Inc, run'[b][i] = "none"
                     PROVE  i > n
          OBVIOUS
        <4>1. i # n /\ run[b][i] = "none"
          BY <1>10, <2>5
        <4>2. i > latest[b]
          BY <2>2, <4>1
        <4>3. i \in Nat /\ n = latest[b] + 1
          BY <1>3, <2>5 DEF Inc, n
        <4> QED  BY <1>6, <2>5, <4>1, <4>2, <4>3
      <3> QED  BY <3>1, <3>2, <3>3
    <2> QED  BY <2>4, <2>5
  <1>15. NoNewOrphan
    <2> SUFFICES ASSUME NEW b \in Agent, NEW i \in Inc, i # rt'[b],
                        run'[b][i] \notin {"none", "dead"}
                 PROVE  i # rt[b] /\ run'[b][i] = run[b][i]
      BY DEF NoNewOrphan, Orphan
    <2>1. i # 0
      BY <1>3 DEF Inc
    <2> QED  BY <1>2, <1>9, <1>10, <2>1
  <1>16. RuntimesOK
    BY <1>8, <1>13, <1>14 DEF RuntimesOK
  <1>17. latest'[a] = n
    BY <1>5, <1>9
  <1>18. /\ q \in Op
         /\ q.kind = c.kind /\ q.pc = p /\ q.agent = c.agent /\ q.exp = n
         /\ q.slot = c.slot /\ q.spot = c.spot /\ q.cand = c.cand /\ q.cexp = c.cexp
         /\ q.target = c.target /\ q.inc0 = c.inc0 /\ q.miss = c.miss
    <2> HIDE DEF c
    <2>1. n \in 0..MaxInc /\ p \in PC
      BY <1>3, <1>6, <1>7 DEF PC
    <2> QED  BY <1>1, <2>1 DEF Op
  <1> HIDE DEF q
  <1>19. Shape(q)
    <2> HIDE DEF c
    <2> QED  BY <1>1, <1>2, <1>5, <1>7, <1>18 DEF Shape, SlotPC, SpotPC, AgentPC, RoomPC, ClosePC, PC, a
  <1>20. Remembers(q, rt', latest', run')
    <2> HIDE DEF c
    <2> QED  BY <1>5, <1>6, <1>7, <1>17, <1>18 DEF Remembers, a
  <1>21. c.pc # "rollback" /\ c.pc # "undo"
    BY <1>2
  <1> HIDE DEF c, a
  <1> QED  BY <1>1, <1>2, <1>15, <1>16, <1>18, <1>19, <1>20, <1>21, RuntimeKeeps DEF c

\* Session loops: a turn appends or ends, a loop exits.
LEMMA LoopKeeps ==
    ASSUME IncInv, NEW a \in Agent, NEW i \in Inc,
           AppendTurn(a, i) \/ TurnEnds(a, i) \/ LoopExits(a, i)
    PROVE  IncInv'
  <1>1. /\ UNCHANGED <<layout, rt, latest, call, cut, stray, faults>>
        /\ edge' \in [Agent -> {"none", "open", "closed"}]
    <2>1. edge \in [Agent -> {"none", "open", "closed"}]
      BY DEF IncInv, StateOK
    <2> QED  BY <2>1 DEF AppendTurn, TurnEnds, LoopExits, EdgeIfAbsent, runtimeVars
  <1>2. RuntimesOK /\ NoNewOrphan
    <2>1. CASE TurnEnds(a, i)
      <3>1. run[a][i] = "busy" /\ run' = [run EXCEPT ![a][i] = "done"]
        BY <2>1 DEF TurnEnds
      <3> QED  BY <1>1, <3>1, LoopFacts
    <2>2. CASE LoopExits(a, i)
      <3>1. run[a][i] = "stop" /\ run' = [run EXCEPT ![a][i] = "dead"]
        BY <2>2 DEF LoopExits
      <3> QED  BY <1>1, <3>1, LoopFacts
    <2>3. CASE AppendTurn(a, i)
      <3>1. UNCHANGED run
        BY <2>3 DEF AppendTurn, runtimeVars
      <3> QED  BY <1>1, <3>1, DropFacts
    <2> QED  BY <2>1, <2>2, <2>3
  <1>3. StateOK /\ CallInv /\ OrphanInv
    BY DEF IncInv
  <1>4. StateOK'
    BY <1>1, <1>2, <1>3 DEF StateOK, RuntimesOK
  <1>5. CallInv'
    <2> SUFFICES ASSUME NEW j \in Caller
                 PROVE  Shape(call[j]) /\ Remembers(call[j], rt', latest', run')
      BY <1>1 DEF CallInv
    <2>1. call[j] \in Op /\ Shape(call[j]) /\ Remembers(call[j], rt, latest, run)
      BY CallFacts
    <2> QED  BY <1>2, <1>3, <2>1, RemembersGrows DEF RuntimesOK
  <1>6. OrphanInv'
    <2>1. \A b \in Agent, n \in Inc : /\ Undoing(b, n) <=> Undoing(b, n)'
                                      /\ RolledBackBy(b, n) <=> RolledBackBy(b, n)'
      BY <1>1 DEF Undoing, RolledBackBy
    <2> QED  BY <1>1, <1>2, <1>3, <2>1 DEF OrphanInv, NoNewOrphan
  <1> QED  BY <1>2, <1>4, <1>5, <1>6 DEF IncInv, RuntimesOK

\* The state without any runtime or operation.
LEMMA Pristine ==
    ASSUME rt = [a \in Agent |-> 0], latest = [a \in Agent |-> 0],
           run = [a \in Agent |-> [i \in Inc |-> "none"]],
           call = [k \in Caller |-> Idle]
    PROVE  /\ CallInv /\ RuntimeInv /\ OrphanInv
           /\ rt \in [Agent -> 0..MaxInc] /\ latest \in [Agent -> 0..MaxInc]
           /\ run \in [Agent -> [Inc -> RunState]] /\ call \in [Caller -> Op]
  <1>0. MaxInc \in Nat
    BY LifecycleBoundAssumption
  <1>1. CallInv
    BY IdleOK DEF CallInv
  <1>2. RuntimeInv
    BY <1>0 DEF RuntimeInv, Inc
  <1>3. OrphanInv
    BY DEF OrphanInv, Orphan
  <1>4. rt \in [Agent -> 0..MaxInc] /\ latest \in [Agent -> 0..MaxInc]
    BY <1>0
  <1>5. run \in [Agent -> [Inc -> RunState]]
    BY DEF RunState
  <1>6. call \in [Caller -> Op]
    BY IdleOK
  <1> QED  BY <1>1, <1>2, <1>3, <1>4, <1>5, <1>6

\* At first there is no runtime and no operation.
LEMMA InitInc == Init => IncInv
  <1> SUFFICES ASSUME Init PROVE IncInv
    OBVIOUS
  <1>1. /\ CallInv /\ RuntimeInv /\ OrphanInv
        /\ rt \in [Agent -> 0..MaxInc] /\ latest \in [Agent -> 0..MaxInc]
        /\ run \in [Agent -> [Inc -> RunState]] /\ call \in [Caller -> Op]
    BY Pristine DEF Init
  <1>2. layout \in Layouts /\ layout.faults \in Nat
    BY LayoutAssumption DEF Init, Layout
  <1>3. /\ edge \in [Agent -> {"none", "open", "closed"}]
        /\ cut \subseteq Agent /\ stray \subseteq Agent /\ faults \in 0..layout.faults
    BY <1>2 DEF Init
  <1> QED  BY <1>1, <1>2, <1>3 DEF IncInv, StateOK

\* A crash keeps the edges only.
LEMMA CrashKeeps ==
    ASSUME IncInv, Crash
    PROVE  IncInv'
  <1>1. /\ rt' = [a \in Agent |-> 0] /\ latest' = [a \in Agent |-> 0]
        /\ run' = [a \in Agent |-> [i \in Inc |-> "none"]]
        /\ call' = [k \in Caller |-> Idle]
        /\ UNCHANGED <<layout, edge, stray>> /\ cut' \subseteq cut /\ Fault
    BY DEF Crash
  <1>2. (/\ CallInv /\ RuntimeInv /\ OrphanInv
         /\ rt \in [Agent -> 0..MaxInc] /\ latest \in [Agent -> 0..MaxInc]
         /\ run \in [Agent -> [Inc -> RunState]] /\ call \in [Caller -> Op])'
    <2>0. MaxInc \in Nat
      BY LifecycleBoundAssumption
    <2>1. CallInv'
      BY <1>1, IdleOK DEF CallInv
    <2>2. RuntimeInv'
      BY <1>1, <2>0 DEF RuntimeInv, Inc
    <2>3. OrphanInv'
      BY <1>1 DEF OrphanInv, Orphan
    <2>4. (/\ rt \in [Agent -> 0..MaxInc] /\ latest \in [Agent -> 0..MaxInc]
           /\ run \in [Agent -> [Inc -> RunState]] /\ call \in [Caller -> Op])'
      BY <1>1, <2>0, IdleOK DEF RunState
    <2> QED  BY <2>1, <2>2, <2>3, <2>4
  <1>3. faults' \in 0..layout.faults
    BY <1>1, FaultOK
  <1>4. StateOK'
    BY <1>1, <1>2, <1>3 DEF IncInv, StateOK
  <1> QED  BY <1>2, <1>4 DEF IncInv

-----------------------------------------------------------------------------
(* The queue of residents.                                                 *)

\* A queue of agents in which each is once.
Queue(s) ==
    /\ s \in Seq(Agent)
    /\ \A i, j \in DOMAIN s : s[i] = s[j] => i = j

\* retain keeps the queue a queue, without the agent.
LEMMA WithoutQueue ==
    ASSUME NEW s, Queue(s), NEW a \in Agent
    PROVE  Queue(Without(s, a)) /\ \A j \in DOMAIN Without(s, a) : Without(s, a)[j] # a
  <1>0. s \in Seq(Agent) /\ Len(s) \in Nat /\ DOMAIN s = 1..Len(s)
    BY LenProperties DEF Queue
  <1>1. CASE ~ \E i \in DOMAIN s : s[i] = a
    BY <1>1 DEF Without
  <1>2. CASE \E i \in DOMAIN s : s[i] = a
    <2> DEFINE n == CHOOSE i \in DOMAIN s : s[i] = a
               m == Len(s) - 1
               t == [j \in 1..m |-> s[IF j < n THEN j ELSE j + 1]]
    <2>1. n \in 1..Len(s) /\ s[n] = a
      BY <1>0, <1>2
    <2>2. Without(s, a) = t
      BY <1>2 DEF Without
    <2> HIDE DEF n
    <2>3. m \in Nat /\ m + 1 = Len(s)
      BY <1>0, <2>1
    <2> HIDE DEF m
    <2>4. \A j \in 1..m : /\ t[j] = s[IF j < n THEN j ELSE j + 1]
                          /\ (IF j < n THEN j ELSE j + 1) \in DOMAIN s
                          /\ (IF j < n THEN j ELSE j + 1) # n
      BY <1>0, <2>1, <2>3
    <2>5. \A j \in 1..m : t[j] \in Agent
      BY <1>0, <2>4, ElementOfSeq
    <2>6. t \in Seq(Agent) /\ DOMAIN t = 1..m
      <3>1. t \in [1..m -> Agent]
        BY <2>5
      <3> QED  BY <2>3, <3>1, SeqDef
    <2>7. \A j \in 1..m : t[j] # a
      BY <1>0, <2>1, <2>4 DEF Queue
    <2>8. \A i, j \in 1..m : t[i] = t[j] => i = j
      <3> SUFFICES ASSUME NEW i \in 1..m, NEW j \in 1..m, t[i] = t[j]
                   PROVE  i = j
        OBVIOUS
      <3>1. (IF i < n THEN i ELSE i + 1) = (IF j < n THEN j ELSE j + 1)
        BY <2>4 DEF Queue
      <3> HIDE DEF t
      <3> QED  BY <2>1, <2>3, <3>1
    <2> HIDE DEF t
    <2> QED  BY <2>2, <2>6, <2>7, <2>8 DEF Queue
  <1> QED  BY <1>1, <1>2

\* touch_v2_residency keeps the queue free of duplicates.
LEMMA TouchQueue ==
    ASSUME NEW s, Queue(s), NEW a \in Agent
    PROVE  Queue(Touch(s, a))
  <1> DEFINE w == Without(s, a)
  <1>1. Queue(w) /\ \A j \in DOMAIN w : w[j] # a
    BY WithoutQueue
  <1>2. Touch(s, a) = Append(w, a)
    BY DEF Touch
  <1> HIDE DEF w
  <1>3. w \in Seq(Agent) /\ Len(w) \in Nat /\ DOMAIN w = 1..Len(w)
    BY <1>1, LenProperties DEF Queue
  <1>4. /\ Append(w, a) \in Seq(Agent) /\ DOMAIN Append(w, a) = 1..(Len(w) + 1)
        /\ \A i \in 1..Len(w) : Append(w, a)[i] = w[i]
        /\ Append(w, a)[Len(w) + 1] = a
    BY <1>3, AppendProperties, LenProperties
  <1>5. ASSUME NEW i \in 1..(Len(w) + 1), NEW j \in 1..(Len(w) + 1), Append(w, a)[i] = Append(w, a)[j]
        PROVE  i = j
    <2>1. i \in 1..Len(w) \/ i = Len(w) + 1
      BY <1>3
    <2>2. j \in 1..Len(w) \/ j = Len(w) + 1
      BY <1>3
    <2> QED  BY <1>1, <1>3, <1>4, <1>5, <2>1, <2>2 DEF Queue
  <1> QED  BY <1>2, <1>4, <1>5 DEF Queue

\* The popped candidate is no longer in the queue.
LEMMA TailQueue ==
    ASSUME NEW s, Queue(s), s # <<>>
    PROVE  Queue(Tail(s)) /\ s[1] \in Agent /\ \A j \in DOMAIN Tail(s) : Tail(s)[j] # s[1]
  <1>1. s \in Seq(Agent) /\ Len(s) \in Nat \ {0} /\ DOMAIN s = 1..Len(s)
    BY LenProperties, EmptySeq DEF Queue
  <1>2. /\ Tail(s) \in Seq(Agent) /\ Len(Tail(s)) = Len(s) - 1
        /\ \A i \in 1..Len(Tail(s)) : Tail(s)[i] = s[i + 1]
    BY <1>1, HeadTailProperties
  <1>3. DOMAIN Tail(s) = 1..(Len(s) - 1)
    BY <1>2, LenProperties
  <1>4. \A i \in 1..(Len(s) - 1) : i + 1 \in 1..Len(s) /\ i + 1 # 1 /\ Tail(s)[i] = s[i + 1]
    BY <1>1, <1>2
  <1>5. 1 \in 1..Len(s) /\ s[1] \in Agent
    BY <1>1
  <1>6. \A i, j \in 1..(Len(s) - 1) : Tail(s)[i] = Tail(s)[j] => i = j
    <2> SUFFICES ASSUME NEW i \in 1..(Len(s) - 1), NEW j \in 1..(Len(s) - 1),
                        Tail(s)[i] = Tail(s)[j]
                 PROVE  i = j
      OBVIOUS
    <2>1. i + 1 = j + 1
      BY <1>1, <1>4 DEF Queue
    <2> QED  BY <1>1, <2>1
  <1>7. \A j \in 1..(Len(s) - 1) : Tail(s)[j] # s[1]
    BY <1>1, <1>4, <1>5 DEF Queue
  <1> QED  BY <1>2, <1>3, <1>5, <1>6, <1>7 DEF Queue

\* A protected agent in front of the candidate moves to the back.
LEMMA RotateQueue ==
    ASSUME NEW s, Queue(s), Len(s) >= 2
    PROVE  Queue(Append(Tail(Tail(s)), s[1]))
  <1> DEFINE w == Tail(Tail(s))
  <1>1. s \in Seq(Agent) /\ Len(s) \in Nat /\ s # <<>>
    <2>1. Len(<<>>) = 0
      BY EmptySeq
    <2> QED  BY <2>1, LenProperties DEF Queue
  <1>2. /\ Queue(Tail(s)) /\ s[1] \in Agent /\ \A j \in DOMAIN Tail(s) : Tail(s)[j] # s[1]
    BY <1>1, TailQueue
  <1>3. Tail(s) \in Seq(Agent) /\ Len(Tail(s)) = Len(s) - 1
    BY <1>1, HeadTailProperties
  <1>4. Tail(s) # <<>>
    <2>1. Len(<<>>) = 0
      BY EmptySeq
    <2> DEFINE t == Tail(s)
    <2>2. Len(t) = Len(s) - 1
      BY <1>3
    <2> HIDE DEF t
    <2>3. t # <<>>
      BY <1>1, <2>1, <2>2
    <2> QED  BY <2>3 DEF t
  <1>5. Queue(w)
    BY <1>2, <1>4, TailQueue
  <1>6. /\ w \in Seq(Agent) /\ Len(w) = Len(Tail(s)) - 1
        /\ \A i \in 1..Len(w) : w[i] = Tail(s)[i + 1]
    BY <1>3, <1>4, HeadTailProperties
  <1>7. Len(w) \in Nat /\ DOMAIN w = 1..Len(w) /\ DOMAIN Tail(s) = 1..Len(Tail(s))
    BY <1>3, <1>6, LenProperties
  <1>8. \A j \in DOMAIN w : w[j] # s[1]
    <2> SUFFICES ASSUME NEW j \in 1..Len(w) PROVE w[j] # s[1]
      BY <1>7
    <2>1. j + 1 \in 1..Len(Tail(s))
      BY <1>1, <1>3, <1>6, <1>7
    <2> QED  BY <1>2, <1>6, <1>7, <2>1
  <1>9. Without(w, s[1]) = w
    BY <1>8 DEF Without
  <1>10. Queue(Touch(w, s[1]))
    BY <1>2, <1>5, TouchQueue
  <1> QED  BY <1>9, <1>10 DEF Touch

\* Every step keeps the queue of residents free of duplicates.
LEMMA ResidentsKeep ==
    ASSUME IncInv, ResidentsOK, Next
    PROVE  ResidentsOK'
  <1>0. Queue(residents) /\ \A k \in Caller : Shape(call[k])
    BY CallFacts DEF ResidentsOK, Queue
  <1>1. CASE \E k \in Caller : \/ \E a \in Agent : MessageV2(k, a)
                               \/ CheckCandidate(k) \/ UseLoaded(k) \/ Commit(k)
    <2>1. residents' = residents \/ \E a \in Agent : residents' = Touch(residents, a)
      <3>1. PICK k \in Caller : \/ \E a \in Agent : MessageV2(k, a)
                                \/ CheckCandidate(k) \/ UseLoaded(k) \/ Commit(k)
        BY <1>1
      <3>2. /\ call[k].pc \in {"drain", "commit"} => call[k].agent \in Agent
            /\ call[k].pc = "check" => call[k].cand \in Agent
        BY <1>0 DEF Shape, AgentPC, PC
      <3> QED  BY <3>1, <3>2 DEF MessageV2, CheckCandidate, Requeue, UseLoaded, Commit
    <2> QED  BY <1>0, <2>1, TouchQueue DEF ResidentsOK, Queue
  <1>2. CASE \E k \in Caller : PopLru(k)
    <2>1. /\ residents # <<>>
          /\ \/ residents' = Tail(residents)
             \/ Len(residents) >= 2 /\ residents' = Append(Tail(Tail(residents)), residents[1])
      BY <1>2 DEF PopLru
    <2>2. CASE residents' = Tail(residents)
      BY <1>0, <2>1, <2>2, TailQueue DEF ResidentsOK, Queue
    <2>3. CASE Len(residents) >= 2 /\ residents' = Append(Tail(Tail(residents)), residents[1])
      BY <1>0, <2>3, RotateQueue DEF ResidentsOK, Queue
    <2> QED  BY <2>1, <2>2, <2>3
  <1>3. CASE \E k \in Caller : Release(k)
    <2>1. PICK k \in Caller : Release(k)
      BY <1>3
    <2>2. residents' = Without(residents, call[k].agent) /\ call[k].agent \in Agent
      BY <1>0, <2>1 DEF Release, Shape, AgentPC, PC
    <2> QED  BY <1>0, <2>2, WithoutQueue DEF ResidentsOK, Queue
  <1>4. CASE Crash
    <2>1. residents' = <<>>
      BY <1>4 DEF Crash
    <2> QED  BY <2>1 DEF ResidentsOK
  <1>5. CASE UNCHANGED residents
    BY <1>5 DEF ResidentsOK
  <1>6. ASSUME NEW k \in Caller, NEW a \in Agent,
               Spawn(k, a) \/ MessageV1(k, a) \/ Resume(k, a) \/ Close(k, a) \/ Unload(k, a)
        PROVE  UNCHANGED residents
    BY <1>6 DEF Spawn, MessageV1, Resume, Close, Unload, residencyVars
  <1>7. ASSUME NEW k \in Caller, Step(k),
               ~(CheckCandidate(k) \/ UseLoaded(k) \/ Commit(k) \/ PopLru(k) \/ Release(k))
        PROVE  UNCHANGED residents
    BY <1>7 DEF Step, ReserveSlot, NoRoom, LimitReached, SubmitShutdown, RemoveUnloaded,
                Register, RegisterFails, Load, Construct, Finalize, FinalizeDuplicate,
                CheckRuntime, CheckRuntimeFails, Persist, PersistFails, Undo, RolledBack,
                Resumed, Fetch, Submit, SubmitFails, CleanUp, CleanUpFails, Target, Flush,
                FlushFails, Shut, Halt, CommitClose, CommitCloseFails,
                Closed, CloseStale, CloseStaleFails, Descend, NextDescendant, residencyVars
  <1>8. ASSUME NEW k \in Caller, UnloadTimeout(k) \/ Cancel(k) \/ Detach(k) \/ CancelInStore(k)
        PROVE  UNCHANGED residents
    BY <1>8 DEF UnloadTimeout, Cancel, Detach, CancelInStore, residencyVars
  <1>9. ASSUME NEW a \in Agent, NEW i \in Inc,
               AppendTurn(a, i) \/ TurnEnds(a, i) \/ LoopExits(a, i)
        PROVE  UNCHANGED residents
    BY <1>9 DEF AppendTurn, TurnEnds, LoopExits, residencyVars
  <1> QED  BY <1>1, <1>2, <1>3, <1>4, <1>5, <1>6, <1>7, <1>8, <1>9 DEF Next, Begin

\* Every step keeps the incarnation invariant.
LEMMA IncStep ==
    ASSUME IncInv, ResidentsOK, [Next]_vars
    PROVE  IncInv' /\ ResidentsOK'
  <1>1. CASE UNCHANGED vars
    <2>1. UNCHANGED <<layout, edge, rt, latest, run, call, cut, stray, faults>> /\ UNCHANGED residents
      BY <1>1 DEF vars
    <2>2. StateOK' /\ CallInv' /\ RuntimeInv' /\ OrphanInv'
      BY <2>1 DEF IncInv, StateOK, CallInv, RuntimeInv, OrphanInv, Orphan, Undoing, RolledBackBy
    <2> QED  BY <2>1, <2>2 DEF IncInv, ResidentsOK
  <1>2. CASE Next
    <2>1. ASSUME NEW k \in Caller, Step(k)
          PROVE  IncInv'
      <3>1. \/ Quiet(k) \/ PersistFails(k) \/ Undo(k) \/ Finalize(k)
            \/ SubmitShutdown(k) \/ RemoveUnloaded(k) \/ (Load(k) /\ ~Running(call[k].agent))
            \/ Submit(k) \/ CleanUp(k) \/ Shut(k) \/ Halt(k) \/ CommitClose(k)
        BY <2>1 DEF Step, Quiet
      <3> QED  BY <3>1, QuietStep, PersistFailsKeeps, UndoKeeps, FinalizeKeeps, ChangeStep
    <2>2. ASSUME NEW k \in Caller, UnloadTimeout(k) \/ Cancel(k) \/ Detach(k) \/ CancelInStore(k)
          PROVE  IncInv'
      BY <2>2, QuietStep DEF Quiet
    <2>3. IncInv'
      BY <1>2, <2>1, <2>2, BeginKeeps, LoopKeeps, CrashKeeps DEF Next
    <2> QED  BY <1>2, <2>3, ResidentsKeep
  <1> QED  BY <1>1, <1>2

\* At first nobody is resident.
LEMMA InitResidents == Init => ResidentsOK
  BY DEF Init, ResidentsOK

\* The incarnation invariant: what RuntimeInv, OrphanInv and CallInv say of
\* runtimes and of the operations that remember them holds in every state.
THEOREM IncInvariant == Spec => [](IncInv /\ ResidentsOK)
  <1>1. Init => IncInv /\ ResidentsOK
    BY InitInc, InitResidents
  <1>2. IncInv /\ ResidentsOK /\ [Next]_vars => (IncInv /\ ResidentsOK)'
    BY IncStep
  <1> QED  BY <1>1, <1>2, PTL DEF Spec

\* At most one runtime of a thread runs, whatever interleaving of tool calls,
\* evictions, unloads, cancellations and failures of the store produced it
\* (finalize_thread_spawn, remove_runtime_if_matches and the shutdowns before
\* them): for every number of agents, callers, incarnations and faults.
THEOREM SingleRuntimeHolds == Spec => []SingleRuntime
  <1>1. IncInv => SingleRuntime
    <2> SUFFICES ASSUME IncInv, NEW a \in Agent, NEW i \in Inc, NEW j \in Inc, i # j,
                        run[a][i] \notin {"none", "dead"}, run[a][j] \notin {"none", "dead"}
                 PROVE  At(a, {"undo", "rollback"}) \/ a \in cut
      BY DEF SingleRuntime
    <2>1. PICK n \in Inc : n # rt[a] /\ run[a][n] \notin {"none", "dead"}
      <3>1. i # rt[a] \/ j # rt[a]
        OBVIOUS
      <3> QED  BY <3>1
    <2>2. Undoing(a, n) \/ a \in cut \/ RolledBackBy(a, n)
      BY <2>1 DEF IncInv, OrphanInv, Orphan
    <2> QED  BY <2>2 DEF Undoing, RolledBackBy, At
  <1> QED  BY <1>1, IncInvariant, PTL

\* No close hits a replacement (close_spawn_edge_and_remove_if_matches and
\* close_stale_spawn_edge compare the incarnation they saw): a spawn edge is
\* closed only when every runtime of its agent has exited or was told to.
THEOREM CloseSparesHolds == Spec => CloseSparesReplacement
  <1>1. ASSUME IncInv, [Next]_vars, NEW a \in Agent, edge[a] = "open", edge'[a] = "closed",
               NEW i \in Inc
        PROVE  run[a][i] \in {"none", "dead", "stop"} \/ Undoing(a, i)
    <2>0. StateOK /\ RuntimeInv /\ OrphanInv /\ edge \in [Agent -> {"none", "open", "closed"}]
      BY <1>1 DEF IncInv, StateOK
    <2>1. PICK k \in Caller :
            \/ CleanUp(k) \/ CommitClose(k) \/ CloseStale(k)
            \/ CancelInStore(k)
      <3>1. Next
        BY <1>1 DEF vars
      <3>2. CASE \E k \in Caller : Begin(k)
        BY <1>1, <3>2 DEF Begin, Spawn, MessageV2, MessageV1, Resume, Close, Unload
      <3>3. CASE \E k \in Caller : Step(k)
        <4>1. PICK k \in Caller : Step(k)
          BY <3>3
        <4>2. ~Persist(k) /\ ~Construct(k) /\ ~Flush(k)
          BY <1>1, <2>0 DEF Persist, Construct, Flush, EdgeIfAbsent
        <4>3. CASE UNCHANGED edge
          BY <1>1, <4>3
        <4> QED  BY <4>1, <4>2, <4>3
                 DEF Step, ReserveSlot, NoRoom, PopLru, LimitReached, CheckCandidate,
                     SubmitShutdown, RemoveUnloaded, Register, RegisterFails, Load, Finalize,
                     FinalizeDuplicate, UseLoaded, CheckRuntime, CheckRuntimeFails,
                     PersistFails, Undo, RolledBack, FlushFails,
                     Commit, Resumed, Fetch, Submit, SubmitFails, CleanUpFails, Release, Target,
                     Shut, Halt, CommitCloseFails, Closed, CloseStaleFails, Descend,
                     NextDescendant
      <3>4. CASE \E k \in Caller : UnloadTimeout(k) \/ Cancel(k) \/ Detach(k)
        BY <1>1, <3>4 DEF UnloadTimeout, Cancel, Detach
      <3>5. CASE \E b \in Agent, n \in Inc : AppendTurn(b, n) \/ TurnEnds(b, n) \/ LoopExits(b, n)
        BY <1>1, <2>0, <3>5 DEF AppendTurn, TurnEnds, LoopExits, EdgeIfAbsent
      <3>6. CASE Crash
        BY <1>1, <3>6 DEF Crash
      <3> QED  BY <3>1, <3>2, <3>3, <3>4, <3>5, <3>6 DEF Next
    <2> DEFINE c == call[k]
    <2>2. Shape(c) /\ Remembers(c, rt, latest, run)
      BY <1>1, CallFacts
    <2>3. /\ c.agent = a
          /\ \/ c.pc \in {"died", "close"} /\ latest[a] = c.exp
             \/ c.pc = "stale" /\ latest[a] = c.inc0
      <3>1. CASE CleanUp(k) \/ CommitClose(k)
        BY <1>1, <2>0, <3>1 DEF CleanUp, CommitClose, CloseEdge, MayClose
      <3>2. CASE CloseStale(k)
        BY <1>1, <2>0, <3>2 DEF CloseStale, MayCloseStale
      <3>3. CASE CancelInStore(k)
        <4>1. \/ edge' = [edge EXCEPT ![c.agent] = "open"]
              \/ /\ edge' = [edge EXCEPT ![c.agent] = "closed"]
                 /\ \/ c.pc = "died" /\ latest[c.agent] = c.exp
                    \/ c.pc = "stale" /\ latest[c.agent] = c.inc0
          BY <3>3 DEF CancelInStore, MayClose, MayCloseStale
        <4> QED  BY <1>1, <2>0, <4>1
      <3> QED  BY <2>1, <3>1, <3>2, <3>3
    <2>4. i = rt[a] => run[a][i] \in {"none", "dead", "stop"}
      <3>1. CASE c.pc \in {"died", "close"} /\ latest[a] = c.exp
        <4>1. run[a][latest[a]] = "dead"
          BY <2>2, <2>3, <3>1 DEF Remembers
        <4>2. i # 0 /\ rt[a] \in {0, latest[a]}
          BY <2>0, LifecycleBoundAssumption DEF RuntimeInv, Inc
        <4> QED  BY <4>1, <4>2
      <3>2. CASE c.pc = "stale" /\ latest[a] = c.inc0
        <4>1. c.kind = "close" /\ c.target = a /\ c.miss
          BY <2>2, <2>3, <3>2 DEF Shape, ClosePC
        <4>2. rt[a] = 0
          BY <2>2, <3>2, <4>1 DEF Remembers
        <4> QED  BY <4>2, LifecycleBoundAssumption DEF Inc
      <3> QED  BY <2>3, <3>1, <3>2
    <2> QED  BY <2>0, <2>4 DEF OrphanInv, Orphan
  <1>2. IncInv /\ [Next]_vars
        => [\A a \in Agent : edge[a] = "open" /\ edge'[a] = "closed" =>
               \A i \in Inc : run[a][i] \in {"none", "dead", "stop"} \/ Undoing(a, i)]_vars
    BY <1>1
  <1> QED  BY <1>2, IncInvariant, PTL DEF Spec, CloseSparesReplacement

-----------------------------------------------------------------------------
(* The guards: V2ResidencySlot and SpawnReservation.                       *)

\* An operation that keeps the guards it has.
Keeps(k, q) ==
    /\ Becomes(k, q)
    /\ q.slot <=> call[k].slot
    /\ q.spot <=> call[k].spot
    /\ q.spot => q.agent = call[k].agent

\* An operation that has no guards, before and after.
Bare(k, q) == Becomes(k, q) /\ ~call[k].slot /\ ~call[k].spot /\ ~q.slot /\ ~q.spot

\* Steps in which an operation keeps its slot and its reservation.
LEMMA KeepingSteps ==
    ASSUME IncInv, NEW k \in Caller,
           \/ NoRoom(k) \/ PopLru(k) \/ CheckCandidate(k) \/ SubmitShutdown(k)
           \/ (RemoveUnloaded(k) /\ call[k].kind # "unload") \/ Load(k) \/ Finalize(k)
           \/ (FinalizeDuplicate(k) /\ call[k].kind = "message") \/ Persist(k) \/ PersistFails(k)
           \/ Construct(k) \/ CheckRuntime(k) \/ Undo(k) \/ Flush(k) \/ FlushFails(k)
           \/ (Fetch(k) /\ (V2 \/ Loaded(call[k].agent)))
           \/ (SubmitFails(k) /\ Receiver(call[k]) # 0 /\ call[k].exp # 0)
           \/ CleanUp(k) \/ Target(k) \/ CommitClose(k) \/ CommitCloseFails(k)
           \/ CloseStale(k) \/ Detach(k) \/ Shut(k) \/ Halt(k)
    PROVE  \E q : Keeps(k, q)
  <1> DEFINE c == call[k]
  <1>1. c \in Op
    BY CallFacts
  <1>2. CASE NoRoom(k)
    <2> DEFINE q == [c EXCEPT !.pc = "scan", !.left = Len(residents)]
    <2>1. Becomes(k, q)
      BY <1>2 DEF NoRoom
    <2>2. q.slot = c.slot /\ q.spot = c.spot /\ q.agent = c.agent
      BY <1>1 DEF Op
    <2> HIDE DEF q
    <2> QED  BY <2>1, <2>2 DEF Keeps
  <1>3. CASE PopLru(k)
    <2> DEFINE q == [c EXCEPT !.pc = "check", !.cand = residents[IF residents[1] = Protected(c) THEN 2 ELSE 1], !.left = c.left - 1]
    <2>1. Becomes(k, q)
      BY <1>3 DEF PopLru
    <2>2. q.slot = c.slot /\ q.spot = c.spot /\ q.agent = c.agent
      BY <1>1 DEF Op
    <2> HIDE DEF q
    <2> QED  BY <2>1, <2>2 DEF Keeps
  <1>4. CASE CheckCandidate(k) /\ Unloadable(c.cand)
    <2> DEFINE q == [c EXCEPT !.pc = "evict", !.cexp = rt[c.cand]]
    <2>1. Becomes(k, q)
      BY <1>4 DEF CheckCandidate
    <2>2. q.slot = c.slot /\ q.spot = c.spot /\ q.agent = c.agent
      BY <1>1 DEF Op
    <2> HIDE DEF q
    <2> QED  BY <2>1, <2>2 DEF Keeps
  <1>5. CASE CheckCandidate(k) /\ ~Unloadable(c.cand)
    <2> DEFINE q == [c EXCEPT !.pc = "scan", !.cand = Nobody]
    <2>1. Becomes(k, q)
      BY <1>5 DEF CheckCandidate
    <2>2. q.slot = c.slot /\ q.spot = c.spot /\ q.agent = c.agent
      BY <1>1 DEF Op
    <2> HIDE DEF q
    <2> QED  BY <2>1, <2>2 DEF Keeps
  <1>6. CASE SubmitShutdown(k)
    <2> DEFINE q == [c EXCEPT !.pc = "unload"]
    <2>1. Becomes(k, q)
      BY <1>6 DEF SubmitShutdown, Goto
    <2>2. q.slot = c.slot /\ q.spot = c.spot /\ q.agent = c.agent
      BY <1>1 DEF Op
    <2> HIDE DEF q
    <2> QED  BY <2>1, <2>2 DEF Keeps
  <1>7. CASE RemoveUnloaded(k) /\ c.kind # "unload"
    <2> DEFINE q == [c EXCEPT !.pc = "reserve", !.cand = Nobody, !.cexp = 0, !.left = 0]
    <2>1. Becomes(k, q)
      BY <1>7 DEF RemoveUnloaded
    <2>2. q.slot = c.slot /\ q.spot = c.spot /\ q.agent = c.agent
      BY <1>1 DEF Op
    <2> HIDE DEF q
    <2> QED  BY <2>1, <2>2 DEF Keeps
  <1>8. CASE Load(k) /\ Running(c.agent)
    <2> DEFINE q == [c EXCEPT !.exp = rt[c.agent], !.pc = AfterLoad(c)]
    <2>1. Becomes(k, q)
      BY <1>8 DEF Load
    <2>2. q.slot = c.slot /\ q.spot = c.spot /\ q.agent = c.agent
      BY <1>1 DEF Op
    <2> HIDE DEF q
    <2> QED  BY <2>1, <2>2 DEF Keeps
  <1>9. CASE Load(k) /\ ~Running(c.agent)
    <2> DEFINE q == [c EXCEPT !.pc = "finalize"]
    <2>1. Becomes(k, q)
      BY <1>9 DEF Load, Goto
    <2>2. q.slot = c.slot /\ q.spot = c.spot /\ q.agent = c.agent
      BY <1>1 DEF Op
    <2> HIDE DEF q
    <2> QED  BY <2>1, <2>2 DEF Keeps
  <1>10. CASE Finalize(k)
    <2> DEFINE q == [c EXCEPT !.exp = latest[c.agent] + 1, !.pc = AfterLoad(c)]
    <2>1. Becomes(k, q)
      BY <1>10 DEF Finalize
    <2>2. q.slot = c.slot /\ q.spot = c.spot /\ q.agent = c.agent
      BY <1>1 DEF Op
    <2> HIDE DEF q
    <2> QED  BY <2>1, <2>2 DEF Keeps
  <1>11. CASE FinalizeDuplicate(k) /\ c.kind = "message"
    <2> DEFINE q == [c EXCEPT !.pc = "drain"]
    <2>1. Becomes(k, q)
      BY <1>11 DEF FinalizeDuplicate, Goto
    <2>2. q.slot = c.slot /\ q.spot = c.spot /\ q.agent = c.agent
      BY <1>1 DEF Op
    <2> HIDE DEF q
    <2> QED  BY <2>1, <2>2 DEF Keeps
  <1>12. CASE Persist(k)
    <2> DEFINE q == [c EXCEPT !.pc = "commit"]
    <2>1. Becomes(k, q)
      BY <1>12 DEF Persist, Goto
    <2>2. q.slot = c.slot /\ q.spot = c.spot /\ q.agent = c.agent
      BY <1>1 DEF Op
    <2> HIDE DEF q
    <2> QED  BY <2>1, <2>2 DEF Keeps
  <1>13. CASE PersistFails(k)
    <2> DEFINE q == [c EXCEPT !.pc = "undo"]
    <2>1. Becomes(k, q)
      BY <1>13 DEF PersistFails, Goto
    <2>2. q.slot = c.slot /\ q.spot = c.spot /\ q.agent = c.agent
      BY <1>1 DEF Op
    <2> HIDE DEF q
    <2> QED  BY <2>1, <2>2 DEF Keeps
  <1>14. CASE Fetch(k) /\ (V2 \/ Loaded(c.agent))
    <2> DEFINE q == [c EXCEPT !.exp = rt[c.agent], !.pc = "submit"]
    <2>1. Becomes(k, q)
      BY <1>14 DEF Fetch
    <2>2. q.slot = c.slot /\ q.spot = c.spot /\ q.agent = c.agent
      BY <1>1 DEF Op
    <2> HIDE DEF q
    <2> QED  BY <2>1, <2>2 DEF Keeps
  <1>15. CASE SubmitFails(k) /\ Receiver(c) # 0 /\ c.exp # 0
    <2> DEFINE q == [c EXCEPT !.pc = "died"]
    <2>1. Becomes(k, q)
      BY <1>15 DEF SubmitFails
    <2>2. q.slot = c.slot /\ q.spot = c.spot /\ q.agent = c.agent
      BY <1>1 DEF Op
    <2> HIDE DEF q
    <2> QED  BY <2>1, <2>2 DEF Keeps
  <1>16. CASE CleanUp(k)
    <2> DEFINE q == [c EXCEPT !.pc = "release", !.exp = 0]
    <2>1. Becomes(k, q)
      BY <1>16 DEF CleanUp
    <2>2. q.slot = c.slot /\ q.spot = c.spot /\ q.agent = c.agent
      BY <1>1 DEF Op
    <2> HIDE DEF q
    <2> QED  BY <2>1, <2>2 DEF Keeps
  <1>17. CASE Target(k)
    <2> DEFINE p == IF Loaded(c.agent) THEN "flush" ELSE "shut"
               q == [c EXCEPT !.exp = rt[c.agent], !.pc = p]
    <2>1. Becomes(k, q)
      BY <1>17 DEF Target
    <2> HIDE DEF p
    <2>2. q.slot = c.slot /\ q.spot = c.spot /\ q.agent = c.agent
      BY <1>1 DEF Op
    <2> HIDE DEF q
    <2> QED  BY <2>1, <2>2 DEF Keeps
  <1>18. CASE CommitClose(k)
    <2> DEFINE q == [c EXCEPT !.pc = "release", !.exp = 0]
    <2>1. Becomes(k, q)
      BY <1>18 DEF CommitClose
    <2>2. q.slot = c.slot /\ q.spot = c.spot /\ q.agent = c.agent
      BY <1>1 DEF Op
    <2> HIDE DEF q
    <2> QED  BY <2>1, <2>2 DEF Keeps
  <1>19. CASE CommitCloseFails(k)
    <2> DEFINE q == [c EXCEPT !.pc = "next", !.exp = 0, !.miss = FALSE]
    <2>1. Becomes(k, q)
      BY <1>19 DEF CommitCloseFails
    <2>2. q.slot = c.slot /\ q.spot = c.spot /\ q.agent = c.agent
      BY <1>1 DEF Op
    <2> HIDE DEF q
    <2> QED  BY <2>1, <2>2 DEF Keeps
  <1>20. CASE CloseStale(k)
    <2> DEFINE q == [c EXCEPT !.pc = "release", !.miss = FALSE]
    <2>1. Becomes(k, q)
      BY <1>20 DEF CloseStale
    <2>2. q.slot = c.slot /\ q.spot = c.spot /\ q.agent = c.agent
      BY <1>1 DEF Op
    <2> HIDE DEF q
    <2> QED  BY <2>1, <2>2 DEF Keeps
  <1>21. CASE Detach(k)
    <2> DEFINE q == [c EXCEPT !.todo = {}, !.miss = FALSE]
    <2>1. Becomes(k, q)
      BY <1>21 DEF Detach
    <2>2. q.slot = c.slot /\ q.spot = c.spot /\ q.agent = c.agent
      BY <1>1 DEF Op
    <2> HIDE DEF q
    <2> QED  BY <2>1, <2>2 DEF Keeps
  <1>22. CASE Shut(k)
    <2> DEFINE skip == c.exp # 0 /\ run[c.agent][c.exp] = "dead"
               died == ~skip /\ Loop(c.agent, rt[c.agent]) = "dead"
               m == IF c.agent = c.target THEN ~skip /\ ~Loaded(c.agent) ELSE c.miss /\ ~died
               p == IF c.exp = 0 THEN "next" ELSE "halt"
               t == IF died THEN AfterError(c) ELSE c.todo
               q == [c EXCEPT !.pc = p, !.miss = m, !.todo = t]
    <2>1. Becomes(k, q)
      BY <1>22 DEF Shut
    <2> HIDE DEF m, p, t
    <2>2. q.slot = c.slot /\ q.spot = c.spot /\ q.agent = c.agent
      BY <1>1 DEF Op
    <2> HIDE DEF q
    <2> QED  BY <2>1, <2>2 DEF Keeps
  <1>23. CASE Halt(k)
    <2> DEFINE p == IF c.agent = c.target THEN "close" ELSE IF rt[c.agent] = c.exp THEN "release" ELSE "next"
               x == IF c.agent = c.target THEN c.exp ELSE 0
               q == [c EXCEPT !.pc = p, !.exp = x]
    <2>1. Becomes(k, q)
      BY <1>23 DEF Halt
    <2> HIDE DEF x, p
    <2>2. q.slot = c.slot /\ q.spot = c.spot /\ q.agent = c.agent
      BY <1>1 DEF Op
    <2> HIDE DEF q
    <2> QED  BY <2>1, <2>2 DEF Keeps
  <1>24. CASE Construct(k)
    <2> DEFINE q == [c EXCEPT !.pc = "finalize"]
    <2>1. Becomes(k, q)
      BY <1>24 DEF Construct, Goto
    <2>2. q.slot = c.slot /\ q.spot = c.spot /\ q.agent = c.agent
      BY <1>1 DEF Op
    <2> HIDE DEF q
    <2> QED  BY <2>1, <2>2 DEF Keeps
  <1>25. CASE CheckRuntime(k)
    <2> DEFINE q == [c EXCEPT !.pc = "store"]
    <2>1. Becomes(k, q)
      BY <1>25 DEF CheckRuntime, Goto
    <2>2. q.slot = c.slot /\ q.spot = c.spot /\ q.agent = c.agent
      BY <1>1 DEF Op
    <2> HIDE DEF q
    <2> QED  BY <2>1, <2>2 DEF Keeps
  <1>26. CASE Undo(k)
    <2> DEFINE q == [c EXCEPT !.pc = "rollback"]
    <2>1. Becomes(k, q)
      BY <1>26 DEF Undo, Goto
    <2>2. q.slot = c.slot /\ q.spot = c.spot /\ q.agent = c.agent
      BY <1>1 DEF Op
    <2> HIDE DEF q
    <2> QED  BY <2>1, <2>2 DEF Keeps
  <1>27. CASE Flush(k)
    <2> DEFINE q == [c EXCEPT !.pc = "shut"]
    <2>1. Becomes(k, q)
      BY <1>27 DEF Flush, Goto
    <2>2. q.slot = c.slot /\ q.spot = c.spot /\ q.agent = c.agent
      BY <1>1 DEF Op
    <2> HIDE DEF q
    <2> QED  BY <2>1, <2>2 DEF Keeps
  <1>28. CASE FlushFails(k)
    <2> DEFINE q == [c EXCEPT !.pc = "next", !.exp = 0, !.miss = FALSE, !.todo = AfterError(c)]
    <2>1. Becomes(k, q)
      BY <1>28 DEF FlushFails
    <2>2. q.slot = c.slot /\ q.spot = c.spot /\ q.agent = c.agent
      BY <1>1 DEF Op
    <2> HIDE DEF q
    <2> QED  BY <2>1, <2>2 DEF Keeps
  <1> HIDE DEF c
  <1> QED  BY <1>2, <1>3, <1>4, <1>5, <1>6, <1>7, <1>8, <1>9, <1>10, <1>11, <1>12, <1>13, <1>14, <1>15, <1>16, <1>17, <1>18, <1>19, <1>20, <1>21, <1>22, <1>23, <1>24,
           <1>25, <1>26, <1>27, <1>28 DEF c

\* Operations that begin, return or turn to another agent have no guards.
LEMMA BareSteps ==
    ASSUME IncInv, NEW k \in Caller,
           \/ (RemoveUnloaded(k) /\ call[k].kind = "unload") \/ Resumed(k)
           \/ (Fetch(k) /\ ~(V2 \/ Loaded(call[k].agent))) \/ Submit(k)
           \/ (SubmitFails(k) /\ ~(Receiver(call[k]) # 0 /\ call[k].exp # 0))
           \/ CleanUpFails(k) \/ Release(k) \/ Closed(k) \/ CloseStaleFails(k) \/ UnloadTimeout(k)
           \/ (\E b \in Agent : Descend(k, b) \/ NextDescendant(k, b))
    PROVE  \E q : Bare(k, q)
  <1> DEFINE c == call[k]
  <1>1. c \in Op /\ Shape(c)
    BY CallFacts
  <1>2. c.pc \notin SlotPC
    BY DEF RemoveUnloaded, Resumed, Fetch, Submit, SubmitFails, CleanUpFails, Release, Closed,
           CloseStaleFails, UnloadTimeout, Descend, NextDescendant, SlotPC
  <1>3. ~c.slot /\ ~c.spot
    BY <1>1, <1>2 DEF Shape, SlotPC, SpotPC
  <1>4. CASE Becomes(k, Idle)
    BY <1>3, <1>4, IdleOK DEF Bare
  <1>5. CASE Release(k) /\ c.kind = "close"
    <2> DEFINE q == [c EXCEPT !.pc = "next"]
    <2>1. Becomes(k, q)
      BY <1>5 DEF Release
    <2>2. q.slot = c.slot /\ q.spot = c.spot
      BY <1>1 DEF Op
    <2> HIDE DEF q
    <2> QED  BY <1>3, <2>1, <2>2 DEF Bare
  <1>6. CASE Closed(k) /\ c.miss /\ c.known
    <2> DEFINE q == [c EXCEPT !.pc = "stale", !.agent = c.target, !.exp = 0]
    <2>1. Becomes(k, q)
      BY <1>6 DEF Closed
    <2>2. q.slot = c.slot /\ q.spot = c.spot
      BY <1>1 DEF Op
    <2> HIDE DEF q
    <2> QED  BY <1>3, <2>1, <2>2 DEF Bare
  <1>7. CASE \E b \in Agent : NextDescendant(k, b)
    <2>0. PICK b \in Agent : NextDescendant(k, b)
      BY <1>7
    <2> DEFINE q == [c EXCEPT !.agent = b, !.todo = c.todo \ {b}, !.pc = "target"]
    <2>1. Becomes(k, q)
      BY <2>0 DEF NextDescendant
    <2>2. q.slot = c.slot /\ q.spot = c.spot
      BY <1>1 DEF Op
    <2> HIDE DEF q
    <2> QED  BY <1>3, <2>1, <2>2 DEF Bare
  <1>8. CASE \E b \in Agent : Descend(k, b) /\ Loaded(b)
    <2>0. PICK b \in Agent : Descend(k, b) /\ Loaded(b)
      BY <1>8
    <2> DEFINE q == [c EXCEPT !.todo = (c.todo \ {b}) \cup {d \in Children(b) : edge[d] = "open"}]
    <2>1. Becomes(k, q)
      BY <2>0 DEF Descend
    <2>2. q.slot = c.slot /\ q.spot = c.spot
      BY <1>1 DEF Op
    <2> HIDE DEF q
    <2> QED  BY <1>3, <2>1, <2>2 DEF Bare
  <1>9. CASE \E b \in Agent : Descend(k, b) /\ ~Loaded(b)
    <2>0. PICK b \in Agent : Descend(k, b) /\ ~Loaded(b)
      BY <1>9
    <2> DEFINE s == Start("resume", b, "register")
               q == [s EXCEPT !.todo = c.todo \ {b}]
    <2>1. Becomes(k, q)
      BY <2>0 DEF Descend
    <2>2. s \in Op /\ s.slot = FALSE /\ s.spot = FALSE
      BY StartFields DEF PC
    <2> HIDE DEF s
    <2>3. q.slot = FALSE /\ q.spot = FALSE
      BY <2>2 DEF Op
    <2> HIDE DEF q
    <2> QED  BY <1>3, <2>1, <2>3 DEF Bare
  <1>10. \/ Becomes(k, Idle) \/ (Release(k) /\ c.kind = "close") \/ (Closed(k) /\ c.miss /\ c.known)
         \/ (\E b \in Agent : NextDescendant(k, b)) \/ (\E b \in Agent : Descend(k, b))
    BY DEF RemoveUnloaded, Resumed, Fetch, Submit, SubmitFails, CleanUpFails, Release, Closed,
           CloseStaleFails, UnloadTimeout
  <1> HIDE DEF c
  <1> QED  BY <1>4, <1>5, <1>6, <1>7, <1>8, <1>9, <1>10

\* A new operation holds neither slot nor reservation.
LEMMA BareBegin ==
    ASSUME IncInv, NEW k \in Caller, Begin(k)
    PROVE  \E q : Bare(k, q)
  <1>0. PICK a \in Agent : \/ Spawn(k, a) \/ MessageV2(k, a) \/ MessageV1(k, a)
                           \/ Resume(k, a) \/ Close(k, a) \/ Unload(k, a)
    BY DEF Begin
  <1>1. call[k] = Idle /\ ~Idle.slot /\ ~Idle.spot
    BY <1>0, IdleOK DEF Spawn, MessageV2, MessageV1, Resume, Close, Unload
  <1>2. CASE Spawn(k, a) \/ MessageV2(k, a) \/ Resume(k, a)
    <2>1. PICK kind \in {"spawn", "message", "resume"}, pc \in {"reserve", "register", "fetch"} :
            Becomes(k, Start(kind, a, pc))
      BY <1>2 DEF Spawn, MessageV2, Resume
    <2> DEFINE q == Start(kind, a, pc)
    <2>2. q.slot = FALSE /\ q.spot = FALSE
      BY StartFields DEF PC
    <2>3. Becomes(k, q)
      BY <2>1
    <2> HIDE DEF q
    <2> QED  BY <1>1, <2>2, <2>3 DEF Bare
  <1>3. CASE MessageV1(k, a)
    <2> DEFINE s == Start("message", a, "submit")
               q == [s EXCEPT !.exp = rt[a]]
    <2>1. Becomes(k, q)
      BY <1>3 DEF MessageV1
    <2>2. s \in Op /\ s.slot = FALSE /\ s.spot = FALSE
      BY StartFields DEF PC
    <2> HIDE DEF s
    <2>3. q.slot = FALSE /\ q.spot = FALSE
      BY <2>2 DEF Op
    <2> HIDE DEF q
    <2> QED  BY <1>1, <2>1, <2>3 DEF Bare
  <1>4. CASE Close(k, a)
    <2> DEFINE s == Start("close", a, "target")
               q == [s EXCEPT !.target = a, !.known = Known(a), !.inc0 = latest[a],
                              !.todo = LiveDescendants(a)]
    <2>1. Becomes(k, q)
      BY <1>4 DEF Close
    <2>2. s \in Op /\ s.slot = FALSE /\ s.spot = FALSE
      BY StartFields DEF PC
    <2> HIDE DEF s
    <2>3. q.slot = FALSE /\ q.spot = FALSE
      BY <2>2 DEF Op
    <2> HIDE DEF q
    <2> QED  BY <1>1, <2>1, <2>3 DEF Bare
  <1>5. CASE Unload(k, a)
    <2> DEFINE s == Start("unload", Nobody, "evict")
               q == [s EXCEPT !.cand = a, !.cexp = rt[a]]
    <2>1. Becomes(k, q)
      BY <1>5 DEF Unload
    <2>2. s \in Op /\ s.slot = FALSE /\ s.spot = FALSE
      BY StartFields DEF PC
    <2> HIDE DEF s
    <2>3. q.slot = FALSE /\ q.spot = FALSE
      BY <2>2 DEF Op
    <2> HIDE DEF q
    <2> QED  BY <1>1, <2>1, <2>3 DEF Bare
  <1> QED  BY <1>0, <1>2, <1>3, <1>4, <1>5

\* A step that drops the guards of its operation.
Drops(k, q) == Becomes(k, q) /\ DropGuards(call[k]) /\ ~q.slot /\ ~q.spot

\* Steps in which an operation drops what it holds.
LEMMA DroppingSteps ==
    ASSUME IncInv, NEW k \in Caller,
           \/ LimitReached(k) \/ RegisterFails(k) \/ CheckRuntimeFails(k) \/ RolledBack(k)
           \/ (FinalizeDuplicate(k) /\ call[k].kind # "message") \/ UseLoaded(k)
           \/ Cancel(k) \/ CancelInStore(k)
    PROVE  \E q : Drops(k, q)
  <1> DEFINE c == call[k]
  <1>1. c \in Op /\ Shape(c)
    BY CallFacts
  <1>2. CASE UseLoaded(k) /\ Loaded(c.agent)
    <2> DEFINE q == Start("message", c.agent, "fetch")
    <2>1. /\ Becomes(k, q) /\ c.pc = "drain" /\ pending' = pending - 1
          /\ UNCHANGED <<tree, count>>
      BY <1>2 DEF UseLoaded, registryVars
    <2>2. q.slot = FALSE /\ q.spot = FALSE
      BY IdleFields DEF Start, Op
    <2> HIDE DEF q
    <2>3. c.slot /\ ~c.spot
      BY <1>1, <2>1 DEF Shape, SlotPC, SpotPC
    <2>4. DropGuards(c)
      BY <2>1, <2>3 DEF DropGuards
    <2> QED  BY <2>1, <2>2, <2>4 DEF Drops
  <1>3. CASE ~(UseLoaded(k) /\ Loaded(c.agent))
    <2>1. DropGuards(c) /\ (Becomes(k, Idle) \/ Becomes(k, Failed(c)))
      BY <1>3 DEF LimitReached, RegisterFails, CheckRuntimeFails, RolledBack, FinalizeDuplicate,
                  UseLoaded, Cancel, CancelInStore, Fail
    <2> QED  BY <1>1, <2>1, IdleOK, FailedOK DEF Drops
  <1> QED  BY <1>2, <1>3

\* Steps that take a guard, and the step that commits them.
Reserves(k, q) ==
    /\ Becomes(k, q) /\ ~call[k].slot /\ q.slot /\ ~call[k].spot /\ ~q.spot
    /\ pending' = pending + 1 /\ UNCHANGED <<tree, count>>

Registers(k, q) ==
    /\ Becomes(k, q) /\ q.slot = call[k].slot /\ ~call[k].spot /\ q.spot
    /\ q.agent = call[k].agent /\ q.agent \in Agent /\ (V2 => tree[Key(q.agent)] = Free)
    /\ count' = count + 1 /\ UNCHANGED pending
    /\ tree' = IF V2 THEN [tree EXCEPT ![Key(q.agent)] = Reserved] ELSE tree

Commits(k, q) ==
    /\ Becomes(k, q) /\ ~q.slot /\ ~q.spot /\ call[k].agent \in Agent
    /\ tree' = IF call[k].spot THEN [tree EXCEPT ![Key(call[k].agent)] = call[k].agent] ELSE tree
    /\ pending' = IF call[k].slot THEN pending - 1 ELSE pending
    /\ UNCHANGED count

\* Steps that reserve a slot, register a name or commit.
LEMMA TakingSteps ==
    ASSUME IncInv, NEW k \in Caller, ReserveSlot(k) \/ Register(k) \/ Commit(k)
    PROVE  \E q : Reserves(k, q) \/ Registers(k, q) \/ Commits(k, q)
  <1> DEFINE c == call[k]
  <1>1. c \in Op /\ Shape(c)
    BY CallFacts
  <1>2. CASE ReserveSlot(k)
    <2> DEFINE q == [c EXCEPT !.slot = TRUE,
                        !.pc = IF c.kind = "spawn" THEN "register" ELSE "load"]
    <2>1. Becomes(k, q) /\ c.pc = "reserve" /\ pending' = pending + 1 /\ UNCHANGED <<tree, count>>
      BY <1>2 DEF ReserveSlot, registryVars
    <2>2. q.slot = TRUE /\ q.spot = c.spot
      BY <1>1 DEF Op
    <2> HIDE DEF q
    <2>3. ~c.slot /\ ~c.spot
      BY <1>1, <2>1 DEF Shape, SlotPC, SpotPC
    <2> QED  BY <2>1, <2>2, <2>3 DEF Reserves
  <1>3. CASE Register(k)
    <2> DEFINE q == [c EXCEPT !.spot = TRUE,
                        !.pc = IF c.kind = "spawn" THEN "construct" ELSE "load"]
    <2>1. /\ Becomes(k, q) /\ c.pc = "register" /\ MayRegister(c.agent)
          /\ count' = count + 1 /\ UNCHANGED pending
          /\ tree' = IF V2 THEN [tree EXCEPT ![Key(c.agent)] = Reserved] ELSE tree
      BY <1>3 DEF Register, residencyVars
    <2>2. q.slot = c.slot /\ q.spot = TRUE /\ q.agent = c.agent
      BY <1>1 DEF Op
    <2> HIDE DEF q
    <2>3. ~c.spot /\ c.agent \in Agent
      BY <1>1, <2>1 DEF Shape, SpotPC, AgentPC, PC
    <2> QED  BY <2>1, <2>2, <2>3 DEF Registers, MayRegister
  <1>4. CASE Commit(k)
    <2>1. PICK q : Becomes(k, q) /\ ~q.slot /\ ~q.spot
      <3>1. CASE c.kind = "resume"
        <4> DEFINE s == Start("resume", Nobody, "descend")
                   q == [s EXCEPT !.todo = c.todo \cup {b \in Children(c.agent) : edge[b] = "open"}]
        <4>1. Becomes(k, q)
          BY <1>4, <3>1 DEF Commit
        <4>2. s \in Op /\ s.slot = FALSE /\ s.spot = FALSE
          BY DescendFields
        <4> HIDE DEF s
        <4>3. q.slot = FALSE /\ q.spot = FALSE
          BY <4>2 DEF Op
        <4> HIDE DEF q
        <4> QED  BY <4>1, <4>3
      <3>2. CASE c.kind # "resume"
        <4> DEFINE q == Start(c.kind, c.agent, "fetch")
        <4>1. Becomes(k, q)
          BY <1>4, <3>2 DEF Commit
        <4>2. q.slot = FALSE /\ q.spot = FALSE
          BY IdleFields DEF Start, Op
        <4> HIDE DEF q
        <4> QED  BY <4>1, <4>2
      <3> QED  BY <3>1, <3>2
    <2>2. c.agent \in Agent
      BY <1>1, <1>4 DEF Commit, Shape, AgentPC, PC
    <2> QED  BY <1>4, <2>1, <2>2 DEF Commits, Commit
  <1> QED  BY <1>2, <1>3, <1>4

\* What a step does to the guards and to the registry.
GuardStep(k, q) ==
    \/ Keeps(k, q) /\ UNCHANGED <<tree, count, pending>>
    \/ Keeps(k, q) /\ (\E a \in Agent : Unregister(a)) /\ UNCHANGED pending
    \/ Drops(k, q) \/ Reserves(k, q) \/ Registers(k, q) \/ Commits(k, q)

\* Every step is one of these, a crash, or leaves the counters alone.
LEMMA GuardSteps ==
    ASSUME IncInv, Next
    PROVE  \/ Crash
           \/ UNCHANGED <<call, tree, count, pending>>
           \/ \E k \in Caller : \E q : GuardStep(k, q)
  <1>0. \A k, q : Bare(k, q) => Keeps(k, q)
    BY DEF Bare, Keeps
  <1>1. ASSUME NEW k \in Caller, Begin(k)
        PROVE  \E q : GuardStep(k, q)
    <2>1. UNCHANGED <<tree, count, pending>>
      BY <1>1 DEF Begin, Spawn, MessageV2, MessageV1, Resume, Close, Unload, registryVars,
                  residencyVars
    <2> QED  BY <1>0, <1>1, <2>1, BareBegin DEF GuardStep
  <1>2. ASSUME NEW k \in Caller,
               \/ NoRoom(k) \/ PopLru(k) \/ CheckCandidate(k) \/ SubmitShutdown(k)
               \/ RemoveUnloaded(k) \/ Load(k) \/ Finalize(k)
               \/ (FinalizeDuplicate(k) /\ call[k].kind = "message") \/ Persist(k)
               \/ PersistFails(k) \/ Fetch(k) \/ SubmitFails(k) \/ CleanUp(k) \/ Target(k)
               \/ CommitClose(k) \/ CommitCloseFails(k) \/ CloseStale(k) \/ Detach(k)
               \/ Construct(k) \/ CheckRuntime(k) \/ Undo(k) \/ Flush(k) \/ FlushFails(k)
               \/ Shut(k) \/ Halt(k) \/ Resumed(k) \/ Submit(k) \/ CleanUpFails(k)
               \/ Closed(k) \/ CloseStaleFails(k) \/ UnloadTimeout(k)
               \/ (\E b \in Agent : Descend(k, b) \/ NextDescendant(k, b))
        PROVE  \E q : GuardStep(k, q)
    <2>1. UNCHANGED <<tree, count, pending>>
      BY <1>2 DEF NoRoom, PopLru, CheckCandidate, SubmitShutdown, RemoveUnloaded, Load, Finalize,
                  FinalizeDuplicate, Persist, PersistFails, Fetch, SubmitFails, CleanUp, Target,
                  CommitClose, CommitCloseFails, CloseStale, Detach, Shut, Halt, Resumed, Submit,
                  CleanUpFails, Closed, CloseStaleFails, UnloadTimeout, Descend, NextDescendant,
                  Construct, CheckRuntime, Undo, Flush, FlushFails, registryVars, residencyVars
    <2>2. \E q : Keeps(k, q)
      BY <1>0, <1>2, KeepingSteps, BareSteps
    <2> QED  BY <2>1, <2>2 DEF GuardStep
  <1>3. ASSUME NEW k \in Caller, Release(k)
        PROVE  \E q : GuardStep(k, q)
    <2>1. UNCHANGED pending /\ Unregister(call[k].agent) /\ call[k].pc = "release"
      BY <1>3 DEF Release
    <2>2. call[k].agent \in Agent
      BY <2>1, CallFacts DEF Shape, AgentPC, PC
    <2>3. \E q : Keeps(k, q)
      BY <1>0, <1>3, BareSteps
    <2> QED  BY <2>1, <2>2, <2>3 DEF GuardStep
  <1>4. ASSUME NEW k \in Caller,
               \/ LimitReached(k) \/ RegisterFails(k) \/ CheckRuntimeFails(k) \/ RolledBack(k)
               \/ (FinalizeDuplicate(k) /\ call[k].kind # "message") \/ UseLoaded(k)
               \/ Cancel(k) \/ CancelInStore(k)
        PROVE  \E q : GuardStep(k, q)
    BY <1>4, DroppingSteps DEF GuardStep
  <1>5. ASSUME NEW k \in Caller, ReserveSlot(k) \/ Register(k) \/ Commit(k)
        PROVE  \E q : GuardStep(k, q)
    BY <1>5, TakingSteps DEF GuardStep
  <1>6. ASSUME NEW k \in Caller,
               Step(k) \/ UnloadTimeout(k) \/ Cancel(k) \/ Detach(k) \/ CancelInStore(k)
        PROVE  \E q : GuardStep(k, q)
    BY <1>2, <1>3, <1>4, <1>5, <1>6 DEF Step
  <1>7. ASSUME NEW a \in Agent, NEW i \in Inc,
               AppendTurn(a, i) \/ TurnEnds(a, i) \/ LoopExits(a, i)
        PROVE  UNCHANGED <<call, tree, count, pending>>
    BY <1>7 DEF AppendTurn, TurnEnds, LoopExits, registryVars, residencyVars
  <1> QED  BY <1>1, <1>6, <1>7 DEF Next

\* The session's layout never changes.
LEMMA LayoutKeeps ==
    ASSUME Next
    PROVE  UNCHANGED layout
  <1>1. ASSUME NEW k \in Caller, Begin(k) PROVE UNCHANGED layout
    BY <1>1 DEF Begin, Spawn, MessageV2, MessageV1, Resume, Close, Unload
  <1>2. ASSUME NEW k \in Caller, Step(k) PROVE UNCHANGED layout
    BY <1>2 DEF Step, ReserveSlot, NoRoom, PopLru, LimitReached, CheckCandidate, SubmitShutdown,
                RemoveUnloaded, Register, RegisterFails, Load, Finalize, FinalizeDuplicate,
                Construct, UseLoaded, CheckRuntime, CheckRuntimeFails, Persist, PersistFails, Undo,
                RolledBack, Commit, Resumed, Flush, FlushFails, Fetch, Submit, SubmitFails, CleanUp, CleanUpFails, Release, Target, Shut, Halt,
                CommitClose, CommitCloseFails, Closed, CloseStale, CloseStaleFails, Descend,
                NextDescendant
  <1>3. ASSUME NEW k \in Caller, UnloadTimeout(k) \/ Cancel(k) \/ Detach(k) \/ CancelInStore(k)
        PROVE  UNCHANGED layout
    BY <1>3 DEF UnloadTimeout, Cancel, Detach, CancelInStore
  <1>4. ASSUME NEW a \in Agent, NEW i \in Inc,
               AppendTurn(a, i) \/ TurnEnds(a, i) \/ LoopExits(a, i)
        PROVE  UNCHANGED layout
    BY <1>4 DEF AppendTurn, TurnEnds, LoopExits
  <1>5. Crash => UNCHANGED layout
    BY DEF Crash
  <1> QED  BY <1>1, <1>2, <1>3, <1>4, <1>5 DEF Next

-----------------------------------------------------------------------------
(* The counters.                                                           *)

Slots == {k \in Caller : call[k].slot}
Spots == {k \in Caller : call[k].spot}
Registered == {a \in Agent : Known(a)}

\* The sets of holders after one operation moved.
LEMMA GuardSets ==
    ASSUME call \in [Caller -> Op], NEW k \in Caller, NEW q, Becomes(k, q)
    PROVE  /\ Slots' = IF q.slot THEN Slots \cup {k} ELSE Slots \ {k}
           /\ Spots' = IF q.spot THEN Spots \cup {k} ELSE Spots \ {k}
  <1>1. call'[k] = q /\ \A j \in Caller \ {k} : call'[j] = call[j]
    BY DEF Becomes
  <1> QED  BY <1>1 DEF Slots, Spots

\* The counted sets are finite.
LEMMA GuardsFinite ==
    /\ IsFiniteSet(Slots) /\ IsFiniteSet(Spots) /\ IsFiniteSet(Registered)
    /\ Cardinality(Slots) \in Nat /\ Cardinality(Spots) \in Nat /\ Cardinality(Registered) \in Nat
  <1>1. Slots \in SUBSET Caller /\ Spots \in SUBSET Caller /\ Registered \in SUBSET Agent
    BY DEF Slots, Spots, Registered
  <1>2. IsFiniteSet(Slots) /\ IsFiniteSet(Spots) /\ IsFiniteSet(Registered)
    BY <1>1, FiniteAssumption, FS_Subset
  <1> QED  BY <1>2, FS_CardinalityType

\* pending_slots is exact: every step that ends an operation gives back the
\* place it holds, once.
LEMMA PendingStep ==
    ASSUME IncInv, PendingExact, Next
    PROVE  PendingExact'
  <1>0. call \in [Caller -> Op] /\ pending = Cardinality(Slots)
    BY DEF IncInv, StateOK, PendingExact, Slots
  <1>1. CASE Crash
    <2>1. pending' = 0 /\ Slots' = {}
      BY <1>1, IdleOK DEF Crash, Slots
    <2> QED  BY <2>1, FS_EmptySet DEF PendingExact, Slots
  <1>2. CASE UNCHANGED <<call, tree, count, pending>>
    BY <1>2 DEF PendingExact
  <1>3. CASE \E k \in Caller : \E q : GuardStep(k, q)
    <2>1. PICK k \in Caller : \E q : GuardStep(k, q)
      BY <1>3
    <2>2. PICK q : GuardStep(k, q)
      BY <2>1
    <2>3. Becomes(k, q)
      BY <2>2 DEF GuardStep, Keeps, Drops, Reserves, Registers, Commits
    <2>4. Slots' = IF q.slot THEN Slots \cup {k} ELSE Slots \ {k}
      BY <1>0, <2>3, GuardSets
    <2>5. k \in Slots <=> call[k].slot
      BY DEF Slots
    <2>6. /\ Cardinality(Slots) \in Nat
          /\ Cardinality(Slots \cup {k}) = IF k \in Slots THEN Cardinality(Slots) ELSE Cardinality(Slots) + 1
          /\ Cardinality(Slots \ {k}) = IF k \in Slots THEN Cardinality(Slots) - 1 ELSE Cardinality(Slots)
      BY GuardsFinite, FS_AddElement, FS_RemoveElement
    <2>7. pending' = Cardinality(Slots')
      <3>1. CASE Reserves(k, q)
        BY <1>0, <2>4, <2>5, <2>6, <3>1 DEF Reserves
      <3>2. CASE Drops(k, q)
        BY <1>0, <2>4, <2>5, <2>6, <3>2 DEF Drops, DropGuards
      <3>3. CASE Commits(k, q)
        BY <1>0, <2>4, <2>5, <2>6, <3>3 DEF Commits
      <3>4. CASE pending' = pending /\ (q.slot <=> call[k].slot)
        BY <1>0, <2>4, <2>5, <2>6, <3>4
      <3> QED  BY <2>2, <3>1, <3>2, <3>3, <3>4 DEF GuardStep, Keeps, Registers
    <2> QED  BY <2>7 DEF PendingExact, Slots
  <1> QED  BY <1>1, <1>2, <1>3, GuardSteps

\* The registry: who is known after its tree changed.
LEMMA KeyFacts ==
    ASSUME layout \in Layouts
    PROVE  /\ \A a \in Agent : Key(a) \in Agent
           /\ ~V2 => \A a, b \in Agent : Key(a) = Key(b) => a = b
           /\ \A a \in Agent : a # Free /\ a # Reserved
           /\ Free # Reserved
  BY LayoutAssumption, NameAssumption DEF Layout, Key, V2

\* Reserving or freeing a path registers nobody.
LEMMA RegisteredSame ==
    ASSUME layout \in Layouts, UNCHANGED layout, tree \in [Agent -> Agent \cup {Free, Reserved}],
           NEW x \in Agent, NEW v \in {Free, Reserved}, tree[x] \in {Free, Reserved},
           UNCHANGED tree \/ tree' = [tree EXCEPT ![x] = v]
    PROVE  Registered' = Registered /\ tree' \in [Agent -> Agent \cup {Free, Reserved}]
  <1>1. \A a \in Agent : Key(a) \in Agent /\ Key(a)' = Key(a) /\ a # Free /\ a # Reserved
    BY KeyFacts DEF Key
  <1>2. \A y \in Agent : tree'[y] = tree[y] \/ (y = x /\ tree'[y] = v)
    OBVIOUS
  <1>3. \A a \in Agent : Known(a)' <=> Known(a)
    BY <1>1, <1>2 DEF Known
  <1> QED  BY <1>3 DEF Registered

\* A release unregisters one agent.
LEMMA RegisteredLess ==
    ASSUME layout \in Layouts, UNCHANGED layout, tree \in [Agent -> Agent \cup {Free, Reserved}],
           NEW a \in Agent, Known(a), tree' = [tree EXCEPT ![Key(a)] = Free]
    PROVE  Registered' = Registered \ {a} /\ tree' \in [Agent -> Agent \cup {Free, Reserved}]
  <1>1. \A b \in Agent : Key(b) \in Agent /\ Key(b)' = Key(b) /\ b # Free
    BY KeyFacts DEF Key
  <1>2. \A b \in Agent : Known(b)' <=> Known(b) /\ b # a
    BY <1>1 DEF Known
  <1>3. tree' \in [Agent -> Agent \cup {Free, Reserved}]
    OBVIOUS
  <1> QED  BY <1>2, <1>3 DEF Registered

\* A commit registers one agent.
LEMMA RegisteredMore ==
    ASSUME layout \in Layouts, UNCHANGED layout, tree \in [Agent -> Agent \cup {Free, Reserved}],
           NEW a \in Agent, V2 => tree[Key(a)] = Reserved, tree' = [tree EXCEPT ![Key(a)] = a]
    PROVE  /\ Registered' = Registered \cup {a} /\ (V2 => a \notin Registered)
           /\ tree' \in [Agent -> Agent \cup {Free, Reserved}]
  <1>1. /\ \A b \in Agent : Key(b) \in Agent /\ Key(b)' = Key(b) /\ b # Reserved
        /\ ~V2 => \A b \in Agent : Key(b) = Key(a) => b = a
    BY KeyFacts DEF Key
  <1>2. \A b \in Agent : Known(b)' <=> Known(b) \/ b = a
    BY <1>1 DEF Known
  <1>3. V2 => ~Known(a)
    BY <1>1 DEF Known
  <1>4. tree' \in [Agent -> Agent \cup {Free, Reserved}]
    BY <1>1
  <1> QED  BY <1>2, <1>3, <1>4 DEF Registered

\* What the registry and its count guarantee.
RegistryInv == PathInv /\ CountCovers /\ count \in Nat

\* A reservation is held for an agent.
LEMMA SpotFacts ==
    ASSUME IncInv, NEW k \in Caller, call[k].spot
    PROVE  call[k].agent \in Agent
  BY CallFacts DEF Shape, SlotPC, SpotPC, AgentPC, PC

\* After a step in which every reservation that is left keeps its path.
LEMMA PathKeeps ==
    ASSUME IncInv, PathInv, UNCHANGED layout, NEW k \in Caller, NEW q, Becomes(k, q),
           tree' \in [Agent -> Agent \cup {Free, Reserved}],
           q.spot => call[k].spot /\ q.agent = call[k].agent,
           \A j \in Caller : call[j].spot /\ (j # k \/ q.spot) =>
               tree'[Key(call[j].agent)] = tree[Key(call[j].agent)]
    PROVE  PathInv'
  <1>0. call \in [Caller -> Op]
    BY DEF IncInv, StateOK
  <1>1. call'[k] = q /\ \A j \in Caller \ {k} : call'[j] = call[j]
    BY <1>0 DEF Becomes
  <1>2. \A j \in Caller : call'[j].spot => /\ call[j].spot /\ call'[j].agent = call[j].agent
                                           /\ j # k \/ q.spot
    BY <1>1
  <1>3. (V2' <=> V2) /\ \A a : Key(a)' = Key(a)
    BY DEF V2, Key
  <1>4. V2 => \A j \in Caller : call'[j].spot => tree'[Key(call[j].agent)] = Reserved
    BY <1>2 DEF PathInv
  <1>5. V2 => \A j, m \in Caller : call'[j].spot /\ call'[m].spot
                                     /\ Key(call[j].agent) = Key(call[m].agent) => j = m
    BY <1>2 DEF PathInv
  <1> QED  BY <1>2, <1>3, <1>4, <1>5 DEF PathInv, Key, V2

\* Every step keeps the registry's count and paths in order.
LEMMA RegistryStep ==
    ASSUME IncInv, RegistryInv, Next
    PROVE  RegistryInv'
  <1>0. /\ call \in [Caller -> Op] /\ layout \in Layouts /\ UNCHANGED layout
        /\ tree \in [Agent -> Agent \cup {Free, Reserved}] /\ count \in Nat /\ PathInv
    BY LayoutKeeps DEF IncInv, StateOK, RegistryInv, PathInv
  <1>1. /\ count >= Cardinality(Registered) + Cardinality(Spots)
        /\ V2 => count = Cardinality(Registered) + Cardinality(Spots)
        /\ Cardinality(Registered) \in Nat /\ Cardinality(Spots) \in Nat
        /\ IsFiniteSet(Registered) /\ IsFiniteSet(Spots)
    BY GuardsFinite DEF RegistryInv, CountCovers, Registered, Spots
  <1>2. V2' <=> V2
    BY <1>0 DEF V2
  <1>3. ASSUME /\ count' >= Cardinality(Registered') + Cardinality(Spots')
               /\ V2 => count' = Cardinality(Registered') + Cardinality(Spots')
        PROVE  CountCovers'
    BY <1>2, <1>3 DEF CountCovers, Registered, Spots
  <1>4. CASE UNCHANGED <<call, tree, count, pending>>
    <2>1. PathInv' /\ CountCovers'
      BY <1>0, <1>4 DEF RegistryInv, PathInv, CountCovers, Known, Key, V2
    <2> QED  BY <1>0, <1>4, <2>1 DEF RegistryInv
  <1>5. CASE \E k \in Caller : \E q : GuardStep(k, q)
    <2>1. PICK k \in Caller : \E q : GuardStep(k, q)
      BY <1>5
    <2>2. PICK q : GuardStep(k, q)
      BY <2>1
    <2> DEFINE c == call[k]
    <2>3. Becomes(k, q)
      BY <2>2 DEF GuardStep, Keeps, Drops, Reserves, Registers, Commits
    <2>4. Spots' = IF q.spot THEN Spots \cup {k} ELSE Spots \ {k}
      BY <1>0, <2>3, GuardSets
    <2>5. k \in Spots <=> c.spot
      BY DEF Spots
    <2>6. /\ Cardinality(Spots \cup {k}) = IF c.spot THEN Cardinality(Spots) ELSE Cardinality(Spots) + 1
          /\ Cardinality(Spots \ {k}) = IF c.spot THEN Cardinality(Spots) - 1 ELSE Cardinality(Spots)
      BY <1>1, <2>5, FS_AddElement, FS_RemoveElement
    <2>7. \A a \in Agent : Key(a) \in Agent /\ a # Free /\ a # Reserved
      BY <1>0, KeyFacts
    <2>8. c.spot => c.agent \in Agent /\ Key(c.agent) \in Agent /\ (V2 => tree[Key(c.agent)] = Reserved)
      BY <1>0, <2>7, SpotFacts DEF PathInv
    <2>9. Cardinality(Spots) - 1 \in Nat \/ ~c.spot
      <3>1. c.spot => Cardinality(Spots) # 0
        BY <1>1, <2>5, FS_EmptySet
      <3> QED  BY <1>1, <3>1
    <2>10. CASE /\ UNCHANGED <<tree, count>> /\ (q.spot <=> c.spot)
                /\ q.spot => q.agent = c.agent
      <3>1. Registered' = Registered
        BY <1>0, <2>10 DEF Registered, Known, Key
      <3>2. Cardinality(Spots') = Cardinality(Spots)
        BY <2>4, <2>6, <2>10
      <3>3. CountCovers'
        BY <1>1, <1>3, <2>10, <3>1, <3>2
      <3>4. PathInv'
        BY <1>0, <2>3, <2>10, PathKeeps
      <3> QED  BY <1>0, <2>10, <3>3, <3>4 DEF RegistryInv
    <2>11. CASE Keeps(k, q) /\ (\E a \in Agent : Unregister(a))
      <3>1. PICK a \in Agent : Unregister(a)
        BY <2>11
      <3>2. (q.spot <=> c.spot) /\ (q.spot => q.agent = c.agent)
        BY <2>11 DEF Keeps
      <3>3. CASE ~Known(a)
        BY <2>10, <3>1, <3>2, <3>3 DEF Unregister
      <3>4. CASE Known(a)
        <4>1. tree' = [tree EXCEPT ![Key(a)] = Free] /\ count' = count - 1
          BY <3>1, <3>4 DEF Unregister
        <4>2. Registered' = Registered \ {a} /\ tree' \in [Agent -> Agent \cup {Free, Reserved}]
          BY <1>0, <3>4, <4>1, RegisteredLess
        <4>3. a \in Registered
          BY <3>4 DEF Registered
        <4>4. Cardinality(Registered') = Cardinality(Registered) - 1 /\ Cardinality(Registered) # 0
          BY <1>1, <4>2, <4>3, FS_RemoveElement, FS_EmptySet
        <4>5. Cardinality(Spots') = Cardinality(Spots)
          BY <2>4, <2>6, <3>2
        <4>6. CountCovers' /\ count' \in Nat
          BY <1>0, <1>1, <1>3, <4>1, <4>4, <4>5
        <4>7. PathInv'
          <5>1. CASE V2
            <6>1. \A j \in Caller : call[j].spot =>
                     tree'[Key(call[j].agent)] = tree[Key(call[j].agent)]
              <7> SUFFICES ASSUME NEW j \in Caller, call[j].spot
                           PROVE  tree'[Key(call[j].agent)] = tree[Key(call[j].agent)]
                OBVIOUS
              <7>1. tree[Key(call[j].agent)] = Reserved /\ call[j].agent \in Agent
                BY <1>0, <5>1, SpotFacts DEF PathInv
              <7>2. Key(call[j].agent) # Key(a)
                BY <2>7, <3>4, <7>1 DEF Known
              <7> QED  BY <1>0, <2>7, <4>1, <7>1, <7>2
            <6> QED  BY <1>0, <2>3, <3>2, <4>2, <6>1, PathKeeps
          <5>2. CASE ~V2
            BY <1>2, <4>2, <5>2 DEF PathInv
          <5> QED  BY <5>1, <5>2
        <4> QED  BY <4>6, <4>7 DEF RegistryInv
      <3> QED  BY <3>3, <3>4
    <2>12. CASE Drops(k, q)
      <3>1. /\ ~q.spot /\ count' = IF c.spot THEN count - 1 ELSE count
            /\ tree' = IF c.spot /\ tree[Key(c.agent)] = Reserved
                       THEN [tree EXCEPT ![Key(c.agent)] = Free] ELSE tree
        BY <2>12 DEF Drops, DropGuards
      <3>2. CASE ~c.spot
        BY <2>10, <3>1, <3>2
      <3>3. CASE c.spot
        <4>1. Registered' = Registered /\ tree' \in [Agent -> Agent \cup {Free, Reserved}]
          <5>1. CASE tree[Key(c.agent)] = Reserved
            BY <1>0, <2>8, <3>1, <3>3, <5>1, RegisteredSame
          <5>2. CASE tree[Key(c.agent)] # Reserved
            BY <1>0, <3>1, <5>2 DEF Registered, Known, Key
          <5> QED  BY <5>1, <5>2
        <4>2. Cardinality(Spots') = Cardinality(Spots) - 1
          BY <2>4, <2>6, <3>1, <3>3
        <4>3. CountCovers' /\ count' \in Nat
          BY <1>0, <1>1, <1>3, <2>9, <3>1, <3>3, <4>1, <4>2
        <4>4. PathInv'
          <5>1. CASE V2
            <6>1. \A j \in Caller : call[j].spot /\ j # k =>
                     tree'[Key(call[j].agent)] = tree[Key(call[j].agent)]
              <7> SUFFICES ASSUME NEW j \in Caller, call[j].spot, j # k
                           PROVE  tree'[Key(call[j].agent)] = tree[Key(call[j].agent)]
                OBVIOUS
              <7>1. Key(call[j].agent) # Key(c.agent) /\ Key(call[j].agent) \in Agent
                BY <1>0, <2>7, <3>3, <5>1, SpotFacts DEF PathInv
              <7> QED  BY <1>0, <2>8, <3>1, <3>3, <7>1
            <6> QED  BY <1>0, <2>3, <3>1, <4>1, <6>1, PathKeeps
          <5>2. CASE ~V2
            BY <1>2, <4>1, <5>2 DEF PathInv
          <5> QED  BY <5>1, <5>2
        <4> QED  BY <4>3, <4>4 DEF RegistryInv
      <3> QED  BY <3>2, <3>3
    <2>13. CASE Reserves(k, q)
      BY <2>10, <2>13 DEF Reserves
    <2>14. CASE Registers(k, q)
      <3> DEFINE a == c.agent
      <3>1. /\ ~c.spot /\ q.spot /\ q.agent = a /\ a \in Agent /\ (V2 => tree[Key(a)] = Free)
            /\ count' = count + 1
            /\ tree' = IF V2 THEN [tree EXCEPT ![Key(a)] = Reserved] ELSE tree
        BY <2>14 DEF Registers
      <3>2. Registered' = Registered /\ tree' \in [Agent -> Agent \cup {Free, Reserved}]
        <4>1. CASE V2
          BY <1>0, <2>7, <3>1, <4>1, RegisteredSame
        <4>2. CASE ~V2
          BY <1>0, <3>1, <4>2 DEF Registered, Known, Key
        <4> QED  BY <4>1, <4>2
      <3>3. Cardinality(Spots') = Cardinality(Spots) + 1
        BY <2>4, <2>6, <3>1
      <3>4. CountCovers' /\ count' \in Nat
        BY <1>0, <1>1, <1>3, <3>1, <3>2, <3>3
      <3>5. PathInv'
        <4>1. CASE V2
          <5>1. call'[k] = q /\ \A j \in Caller \ {k} : call'[j] = call[j]
            BY <1>0, <2>3 DEF Becomes
          <5>2. \A j \in Caller \ {k} : call[j].spot =>
                   /\ Key(call[j].agent) # Key(a) /\ Key(call[j].agent) \in Agent
                   /\ tree'[Key(call[j].agent)] = Reserved
            <6> SUFFICES ASSUME NEW j \in Caller \ {k}, call[j].spot
                         PROVE  /\ Key(call[j].agent) # Key(a) /\ Key(call[j].agent) \in Agent
                                /\ tree'[Key(call[j].agent)] = Reserved
              OBVIOUS
            <6>1. tree[Key(call[j].agent)] = Reserved /\ Key(call[j].agent) \in Agent
              BY <1>0, <2>7, <4>1, SpotFacts DEF PathInv
            <6>2. Key(call[j].agent) # Key(a)
              BY <1>0, <3>1, <4>1, <6>1, KeyFacts
            <6> QED  BY <1>0, <3>1, <4>1, <6>1, <6>2
          <5>3. tree'[Key(a)] = Reserved
            BY <1>0, <2>7, <3>1, <4>1
          <5>4. \A b : Key(b)' = Key(b)
            BY <1>0 DEF Key
          <5>5. \A j \in Caller : call'[j].spot => tree'[Key(call'[j].agent)] = Reserved
            BY <3>1, <5>1, <5>2, <5>3
          <5>6. \A i, j \in Caller : call'[i].spot /\ call'[j].spot
                                       /\ Key(call'[i].agent) = Key(call'[j].agent) => i = j
            <6> SUFFICES ASSUME NEW i \in Caller, NEW j \in Caller, call'[i].spot, call'[j].spot,
                                Key(call'[i].agent) = Key(call'[j].agent), i # j
                         PROVE  FALSE
              OBVIOUS
            <6>1. CASE i = k \/ j = k
              BY <3>1, <5>1, <5>2, <6>1
            <6>2. CASE i # k /\ j # k
              BY <1>0, <4>1, <5>1, <6>2 DEF PathInv
            <6> QED  BY <6>1, <6>2
          <5> QED  BY <1>0, <3>2, <5>5, <5>6 DEF PathInv, Key
        <4>2. CASE ~V2
          BY <1>2, <3>2, <4>2 DEF PathInv
        <4> QED  BY <4>1, <4>2
      <3> QED  BY <3>4, <3>5 DEF RegistryInv
    <2>15. CASE Commits(k, q)
      <3> DEFINE a == c.agent
      <3>1. /\ ~q.spot /\ a \in Agent /\ UNCHANGED count
            /\ tree' = IF c.spot THEN [tree EXCEPT ![Key(a)] = a] ELSE tree
        BY <2>15 DEF Commits
      <3>2. CASE ~c.spot
        BY <2>10, <3>1, <3>2
      <3>3. CASE c.spot
        <4>1. /\ Registered' = Registered \cup {a} /\ (V2 => a \notin Registered)
              /\ tree' \in [Agent -> Agent \cup {Free, Reserved}]
          BY <1>0, <2>8, <3>1, <3>3, RegisteredMore
        <4>2. Cardinality(Spots') = Cardinality(Spots) - 1
          BY <2>4, <2>6, <3>1, <3>3
        <4>3. /\ Cardinality(Registered') = IF a \in Registered THEN Cardinality(Registered)
                                            ELSE Cardinality(Registered) + 1
          BY <1>1, <4>1, FS_AddElement
        <4>4. CountCovers'
          BY <1>0, <1>1, <1>3, <2>9, <3>1, <3>3, <4>1, <4>2, <4>3
        <4>5. PathInv'
          <5>1. CASE V2
            <6>1. \A j \in Caller : call[j].spot /\ j # k =>
                     tree'[Key(call[j].agent)] = tree[Key(call[j].agent)]
              <7> SUFFICES ASSUME NEW j \in Caller, call[j].spot, j # k
                           PROVE  tree'[Key(call[j].agent)] = tree[Key(call[j].agent)]
                OBVIOUS
              <7>1. Key(call[j].agent) # Key(a) /\ Key(call[j].agent) \in Agent
                BY <1>0, <2>7, <3>3, <5>1, SpotFacts DEF PathInv
              <7> QED  BY <1>0, <2>8, <3>1, <3>3, <7>1
            <6> QED  BY <1>0, <2>3, <3>1, <4>1, <6>1, PathKeeps
          <5>2. CASE ~V2
            BY <1>2, <4>1, <5>2 DEF PathInv
          <5> QED  BY <5>1, <5>2
        <4> QED  BY <1>0, <3>1, <4>4, <4>5 DEF RegistryInv
      <3> QED  BY <3>2, <3>3
    <2> QED  BY <2>2, <2>10, <2>11, <2>12, <2>13, <2>14, <2>15 DEF GuardStep, Keeps
  <1>6. CASE Crash
    <2>1. Spots' = {}
      BY <1>6, IdleOK DEF Crash, Spots
    <2>2. \A j \in Caller : ~call'[j].spot
      BY <1>6, IdleOK DEF Crash
    <2>3. \A a \in Agent : Key(a) \in Agent /\ Key(a)' = Key(a) /\ a # Free
      BY <1>0, KeyFacts DEF Key
    <2>4. CASE V2
      <3>1. PICK S \in SUBSET Agent :
              /\ Restorable(S) /\ count' = Cardinality(S)
              /\ tree' = [x \in Agent |-> IF \E a \in S : Key(a) = x
                                          THEN CHOOSE a \in S : Key(a) = x ELSE Free]
        BY <1>6, <2>4 DEF Crash
      <3>2. ASSUME NEW x \in Agent
            PROVE  \/ tree'[x] = Free /\ ~ \E a \in S : Key(a) = x
                   \/ tree'[x] \in S /\ Key(tree'[x]) = x
        <4>1. CASE \E a \in S : Key(a) = x
          BY <3>1, <4>1
        <4>2. CASE ~ \E a \in S : Key(a) = x
          BY <3>1, <4>2
        <4> QED  BY <4>1, <4>2
      <3>3. tree' \in [Agent -> Agent \cup {Free, Reserved}]
        BY <3>1, <3>2
      <3>4. \A a \in Agent : Known(a)' <=> a \in S
        <4> TAKE a \in Agent
        <4>1. Known(a)' <=> tree'[Key(a)] = a
          BY <2>3 DEF Known
        <4>2. a \in S => tree'[Key(a)] = a
          BY <2>3, <3>1, <3>2 DEF Restorable
        <4>3. tree'[Key(a)] = a => a \in S
          BY <2>3, <3>2
        <4> QED  BY <4>1, <4>2, <4>3
      <3>5. Registered' = S
        BY <3>4 DEF Registered
      <3>6. Cardinality(S) \in Nat
        BY FiniteAssumption, FS_Subset, FS_CardinalityType
      <3>7. CountCovers'
        BY <1>3, <2>1, <3>1, <3>5, <3>6, FS_EmptySet
      <3>8. PathInv'
        BY <2>2, <3>3 DEF PathInv
      <3> QED  BY <3>1, <3>6, <3>7, <3>8 DEF RegistryInv
    <2>5. CASE ~V2
      <3>1. tree' = [x \in Agent |-> Free] /\ count' = 0
        BY <1>6, <2>5 DEF Crash
      <3>2. Registered' = {}
        BY <2>3, <3>1 DEF Registered, Known
      <3>3. CountCovers'
        BY <1>3, <2>1, <2>5, <3>1, <3>2, FS_EmptySet
      <3>4. PathInv'
        BY <2>2, <3>1 DEF PathInv
      <3> QED  BY <3>1, <3>3, <3>4 DEF RegistryInv
    <2> QED  BY <2>4, <2>5
  <1> QED  BY <1>4, <1>5, <1>6, GuardSteps

\* At first all counters are zero.
LEMMA InitCounters == Init => PendingExact /\ RegistryInv
  <1> SUFFICES ASSUME Init PROVE PendingExact /\ RegistryInv
    OBVIOUS
  <1>1. Slots = {} /\ Spots = {} /\ \A k \in Caller : ~call[k].spot
    BY IdleOK DEF Init, Slots, Spots
  <1>2. Registered = {} /\ tree \in [Agent -> Agent \cup {Free, Reserved}]
    BY KeyFacts DEF Init, Registered, Known
  <1>3. PendingExact
    BY <1>1, FS_EmptySet DEF Init, PendingExact, Slots
  <1>4. CountCovers /\ count \in Nat
    <2>1. Cardinality(Registered) = 0 /\ Cardinality(Spots) = 0 /\ count = 0
      BY <1>1, <1>2, FS_EmptySet DEF Init
    <2>2. CountCovers <=> count >= Cardinality(Registered) + Cardinality(Spots)
                          /\ (V2 => count = Cardinality(Registered) + Cardinality(Spots))
      BY DEF CountCovers, Registered, Spots
    <2> QED  BY <2>1, <2>2
  <1>5. PathInv
    BY <1>1, <1>2 DEF PathInv
  <1> QED  BY <1>3, <1>4, <1>5 DEF RegistryInv

\* The inductive invariant of the lifecycle: runtimes, queue, guards and
\* registry together.
IInv == IncInv /\ ResidentsOK /\ PendingExact /\ RegistryInv

\* The inductive invariant holds in every state.
LEMMA LifecycleInvariant == Spec => []IInv
  <1>1. Init => IInv
    BY InitInc, InitResidents, InitCounters DEF IInv
  <1>2. IInv /\ [Next]_vars => IInv'
    <2> SUFFICES ASSUME IInv, [Next]_vars PROVE IInv'
      OBVIOUS
    <2>1. IncInv' /\ ResidentsOK'
      BY IncStep DEF IInv
    <2>2. CASE Next
      BY <2>1, <2>2, PendingStep, RegistryStep DEF IInv
    <2>3. CASE UNCHANGED vars
      <3>1. UNCHANGED <<layout, tree, count, pending, call>>
        BY <2>3 DEF vars
      <3>2. PendingExact' /\ RegistryInv'
        BY <3>1 DEF IInv, PendingExact, RegistryInv, PathInv, CountCovers, Known, Key, V2
      <3> QED  BY <2>1, <3>2 DEF IInv
    <2> QED  BY <2>2, <2>3
  <1> QED  BY <1>1, <1>2, PTL DEF Spec

\* Every variable keeps its type; no counter goes below zero and no agent is
\* twice in the queue of residents.
THEOREM TypeCorrect == Spec => []TypeOK
  <1>1. IInv => TypeOK
    <2> SUFFICES ASSUME IInv PROVE TypeOK
      OBVIOUS
    <2>1. pending \in Nat
      BY GuardsFinite DEF IInv, PendingExact, Slots
    <2> QED  BY <2>1 DEF IInv, IncInv, StateOK, ResidentsOK, RegistryInv, PathInv, TypeOK
  <1> QED  BY <1>1, LifecycleInvariant, PTL

\* pending_slots is the number of residency slots held, whatever way an
\* operation ends (V2ResidencySlot::commit and its Drop).
THEOREM PendingExactHolds == Spec => []PendingExact
  <1>1. IInv => PendingExact
    BY DEF IInv
  <1> QED  BY <1>1, LifecycleInvariant, PTL

\* total_count covers the registered agents and the reservations, and is
\* exact in V2 (SpawnReservation::commit, its Drop, release_spawned_thread
\* and restore_v2_agent_metadata after a crash).
THEOREM CountCoversHolds == Spec => []CountCovers
  <1>1. IInv => CountCovers
    BY DEF IInv, RegistryInv
  <1> QED  BY <1>1, LifecycleInvariant, PTL

=============================================================================
