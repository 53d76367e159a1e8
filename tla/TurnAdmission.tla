--------------------------- MODULE TurnAdmission ---------------------------
(***************************************************************************)
(* How one capacity-limited session starts and ends turns.                 *)
(*                                                                         *)
(* The session's active_turn is the only arbiter between the parties that  *)
(* start a turn: the submission loop (user input, idle-only input, the     *)
(* replacement of a task, trigger mail), the task of a turn that has just  *)
(* finished, and the watcher of a capacity-ready lease.  Each of them      *)
(* reserves an execution guard, claims the empty slot, and installs its    *)
(* task only if the slot is still the one it claimed.  Mail that finds no  *)
(* capacity waits for a release of a guard.                                *)
(*                                                                         *)
(* Every action is one acquisition of the active-turn lock, of the mailbox *)
(* lock, or one access of the atomic guard counter.                        *)
(***************************************************************************)
EXTENDS Naturals, FiniteSets

CONSTANTS
    MaxSlot,     \* bound: ActiveTurn values somebody refers to at a time
    Dispatch,    \* trigger mails, one aggregate each
    MaxThreads,  \* AgentExecutionLimiter.max_threads
    MaxOther,    \* bound: guards other sessions take, in total
    MaxInput,    \* bound: inputs the submission loop receives, in total
    Inputs,      \* kinds of inputs in use, a subset of InputKind
    MayRefuse    \* whether commit_startup_mailbox_for_turn may refuse a batch

InputKind == {"user", "auto", "interrupt", "replace"}

ASSUME AdmissionAssumption ==
    /\ MaxThreads \in Nat \ {0}
    /\ MaxOther \in Nat /\ MaxInput \in Nat
    /\ Inputs \subseteq InputKind
    /\ MayRefuse \in BOOLEAN
    /\ MaxSlot \in Nat /\ IsFiniteSet(Dispatch)

\* Identities of ActiveTurn values (their turn_state pointers), reused when
\* nobody refers to them any more.
Slot == 1..MaxSlot
NoSlot == 0

\* The tasks that may start a turn.
Loop == <<"loop", NoSlot>>
Task(i) == <<"task", i>>           \* the spawned task of turn i
Watcher(d) == <<"watch", d>>       \* dispatcher, then lease watcher, of mail d
Proc == {Loop} \cup {Task(i) : i \in Slot} \cup {Watcher(d) : d \in Dispatch}

VARIABLES
    turn,    \* Session.active_turn: which ActiveTurn, and in which phase
    claim,   \* status of the TasklessTurnClaim of each ActiveTurn
    at,      \* at[p]: program counter, ActiveTurn worked on, guards held
    active,  \* AgentExecutionLimiter.active
    other,   \* guards that other sessions hold
    taken,   \* guards that other sessions took so far
    fresh,   \* dispatches whose receiver has an unseen release generation
    mail,    \* trigger mail in mailbox_pending_mails
    ops,     \* trigger mail submitted as Op::InterAgentCommunication
    inputs   \* inputs received so far

vars == <<turn, claim, at, active, other, taken, fresh, mail, ops, inputs>>

\* Phases of an ActiveTurn: a wake that still stores its reservation, a start
\* whose starter holds it, a running task, a task already taken.
Phase == {"none", "wake", "start", "task", "closing"}
NoTurn == [id |-> NoSlot, phase |-> "none"]

Off(pc) == [pc |-> pc, id |-> NoSlot, res |-> FALSE, outer |-> FALSE]

-----------------------------------------------------------------------------
(* Guards.                                                                 *)

\* Mutant: the limit is off by one.
HasCapacityOffByOne == active <= MaxThreads

HasCapacity == active < MaxThreads

\* try_reserve.
Reserve == HasCapacity /\ active' = active + 1 /\ UNCHANGED fresh

\* Mutant: the release of several guards is counted once.
ReleaseOnce(n) ==
    /\ active' = IF n > 0 THEN active - 1 ELSE active
    /\ fresh' = IF n > 0 THEN Dispatch ELSE fresh

\* n guards are dropped: the count goes down and every receiver of the
\* release generation sees a change.
Release(n) ==
    /\ active' = active - n
    /\ fresh' = IF n > 0 THEN Dispatch ELSE fresh

NoGuard == UNCHANGED <<active, fresh>>

Held(b) == IF b THEN 1 ELSE 0

-----------------------------------------------------------------------------
(* Claims.                                                                 *)

\* An ActiveTurn nobody refers to any more.
FreeSlot ==
    {i \in Slot : /\ turn.id # i
                  /\ \A p \in Proc : at[p].id # i
                  /\ at[Task(i)].pc = "off"}

NewSlot == CHOOSE i \in FreeSlot : \A j \in FreeSlot : i <= j

\* The slot gets a new taskless ActiveTurn.
ClaimSlot(i, phase) ==
    /\ FreeSlot # {}
    /\ turn' = [id |-> i, phase |-> phase]
    /\ claim' = [claim EXCEPT ![i] = "Starting"]

\* Mutant: the owner of a claim goes away without a word.
DropClaimSilently(i) == claim

\* Drop of a TasklessTurnClaimOwner.
DropClaim(i) ==
    IF claim[i] = "Starting" THEN [claim EXCEPT ![i] = "Cancelled"] ELSE claim

Goto(p, r) == at' = [at EXCEPT ![p] = r]

\* Where maybe_start_turn_for_pending_work and the starts return to.
Back(p) ==
    IF p = Loop THEN Off("idle")
    ELSE IF p[1] = "task" THEN Off("off") ELSE Off("after")

\* The start ends here and drops everything it holds.
GiveUp(p) ==
    /\ Release(Held(at[p].res) + Held(at[p].outer))
    /\ claim' = IF at[p].id \in Slot THEN DropClaim(at[p].id) ELSE claim
    /\ Goto(p, Back(p))

Taskless == turn.phase \in {"wake", "start"}

-----------------------------------------------------------------------------
(* maybe_start_turn_for_pending_work, by any process.                      *)

\* No trigger mail: nothing to start.
WakeCheck(p) ==
    /\ at[p].pc = "check"
    /\ \/ mail = {} /\ GiveUp(p)
       \/ /\ mail # {}
          /\ Goto(p, [at[p] EXCEPT !.pc = "claim"])
          /\ NoGuard /\ UNCHANGED claim
    /\ UNCHANGED <<turn, other, taken, mail, ops, inputs>>

\* Mutant: only a turn that is starting or closing blocks a wake.
BusyWithoutTask == Taskless \/ turn.phase = "closing"

Busy == turn.phase # "none"

\* The slot is claimed with a reservation inside; a busy slot or a full
\* limiter ends the attempt without a trace.
WakeClaim(p) ==
    /\ at[p].pc = "claim"
    /\ \/ (Busy \/ ~HasCapacity) /\ GiveUp(p) /\ UNCHANGED turn
       \/ /\ ~Busy /\ Reserve
          /\ ClaimSlot(NewSlot, "wake")
          /\ Goto(p, [at[p] EXCEPT !.pc = "commit", !.id = NewSlot])
    /\ UNCHANGED <<other, taken, mail, ops, inputs>>

\* commit_pending_wake: the reservation moves to the waker, unless a user or
\* an abort took the slot in between.
WakeCommit(p) ==
    /\ at[p].pc = "commit"
    /\ \/ /\ turn = [id |-> at[p].id, phase |-> "wake"]
          /\ turn' = [turn EXCEPT !.phase = "start"]
          /\ Goto(p, [at[p] EXCEPT !.pc = "install", !.res = TRUE])
          /\ NoGuard /\ UNCHANGED claim
       \/ turn # [id |-> at[p].id, phase |-> "wake"] /\ GiveUp(p) /\ UNCHANGED turn
    /\ UNCHANGED <<other, taken, mail, ops, inputs>>

-----------------------------------------------------------------------------
(* start_task_with_reservation_inner, by any process.                      *)

SameClaim(p) == turn = [id |-> at[p].id, phase |-> "start"]

\* The task is installed with the whole mailbox in its input; the claim is
\* answered, and an outer reservation ends with the caller.  A refused batch
\* leaves the taskless turn in the slot.
Install(p) ==
    /\ at[p].pc = "install"
    /\ \/ /\ SameClaim(p)
          /\ turn' = [id |-> at[p].id, phase |-> "task"]
          /\ claim' = [claim EXCEPT ![at[p].id] = "Running"]
          /\ mail' = {}
          /\ at' = [at EXCEPT ![p] = Back(p),
                              ![Task(at[p].id)] = Off("run")]
          /\ Release(Held(at[p].outer))
       \/ ~SameClaim(p) /\ GiveUp(p) /\ UNCHANGED <<turn, mail>>
       \/ MayRefuse /\ mail # {} /\ SameClaim(p) /\ GiveUp(p) /\ UNCHANGED <<turn, mail>>
    /\ UNCHANGED <<other, taken, ops, inputs>>

-----------------------------------------------------------------------------
(* The submission loop.                                                    *)

\* The loop takes an input: a user's, an idle-only one (automatic or
\* recovery), an interrupt, or a task that replaces the current one.
Receive(kind) ==
    /\ at[Loop].pc = "idle" /\ kind \in Inputs /\ inputs < MaxInput
    /\ inputs' = inputs + 1
    /\ Goto(Loop, Off(kind))
    /\ UNCHANGED <<turn, claim, active, other, taken, fresh, mail, ops>>

\* inter_agent_communication: enqueue, then try to wake.
HandleOp(d) ==
    /\ at[Loop].pc = "idle" /\ d \in ops
    /\ ops' = ops \ {d} /\ mail' = mail \cup {d}
    /\ Goto(Loop, Off("check"))
    /\ UNCHANGED <<turn, claim, active, other, taken, fresh, inputs>>

\* start_or_steer: a running task is steered; an open wake gives up its
\* reservation; a start in progress is waited for; the remains of a closing or
\* cancelled turn are cleared even when no guard is left.
UserClaim ==
    LET stale == turn.phase = "closing" \/ (Taskless /\ claim[turn.id] = "Cancelled")
        freed == Held(stale /\ turn.phase = "wake")
    IN  /\ at[Loop].pc = "user"
        /\ \/ /\ turn.phase = "task"
              /\ Goto(Loop, Off("idle"))
              /\ NoGuard /\ UNCHANGED <<turn, claim>>
           \/ /\ (turn.phase = "none" \/ stale) /\ active - freed < MaxThreads
              /\ active' = (active - freed) + 1
              /\ fresh' = IF freed > 0 THEN Dispatch ELSE fresh
              /\ ClaimSlot(NewSlot, "start")
              /\ Goto(Loop, [at[Loop] EXCEPT !.pc = "begin", !.id = NewSlot, !.res = TRUE])
           \/ /\ (turn.phase = "none" \/ stale) /\ active - freed >= MaxThreads
              /\ turn' = NoTurn /\ Goto(Loop, Off("idle"))
              /\ Release(freed) /\ UNCHANGED claim
           \/ /\ turn.phase = "wake" /\ ~stale
              /\ ClaimSlot(NewSlot, "start")
              /\ Goto(Loop, [at[Loop] EXCEPT !.pc = "begin", !.id = NewSlot, !.res = TRUE])
              /\ NoGuard
           \/ /\ turn.phase = "start" /\ ~stale
              /\ Goto(Loop, [at[Loop] EXCEPT !.pc = "waitclaim", !.id = turn.id])
              /\ NoGuard /\ UNCHANGED <<turn, claim>>
        /\ UNCHANGED <<other, taken, mail, ops, inputs>>

\* TasklessTurnClaim::wait.
UserWait ==
    /\ at[Loop].pc = "waitclaim" /\ claim[at[Loop].id] # "Starting"
    /\ Goto(Loop, Off("user"))
    /\ UNCHANGED <<turn, claim, active, other, taken, fresh, mail, ops, inputs>>

\* The slot a failed start reserved is cleared (clear_reserved_idle_turn).
Cleared(i) == IF turn.id = i /\ turn.phase # "task" THEN NoTurn ELSE turn

\* Settings are applied to the new turn, or are refused.
Begin ==
    /\ at[Loop].pc = "begin"
    /\ \/ /\ Goto(Loop, [at[Loop] EXCEPT !.pc = "install"])
          /\ NoGuard /\ UNCHANGED <<turn, claim>>
       \/ /\ turn' = Cleared(at[Loop].id)
          /\ Goto(Loop, [at[Loop] EXCEPT !.pc = "failed"])
          /\ NoGuard /\ UNCHANGED claim
    /\ UNCHANGED <<other, taken, mail, ops, inputs>>

\* The reservation of a failed start is dropped when its handler returns; no
\* wake is tried.
Fail ==
    /\ at[Loop].pc = "failed" /\ GiveUp(Loop)
    /\ UNCHANGED <<turn, other, taken, mail, ops, inputs>>

\* start_if_idle reserves before it looks at the slot.
AutoReserve ==
    /\ at[Loop].pc = "auto"
    /\ \/ (mail # {} \/ ~HasCapacity) /\ GiveUp(Loop)
       \/ /\ mail = {} /\ Reserve
          /\ Goto(Loop, [at[Loop] EXCEPT !.pc = "autoclaim", !.res = TRUE])
          /\ UNCHANGED claim
    /\ UNCHANGED <<turn, other, taken, mail, ops, inputs>>

\* start_if_idle claims an empty slot; so does a replacement whose abort left
\* the slot empty (start_task_with_reservation_inner without a claim).
EmptyClaim ==
    /\ at[Loop].pc \in {"autoclaim", "start"}
    /\ \/ Busy /\ GiveUp(Loop) /\ UNCHANGED turn
       \/ /\ ~Busy
          /\ ClaimSlot(NewSlot, "start")
          /\ Goto(Loop, [at[Loop] EXCEPT !.id = NewSlot,
                  !.pc = IF at[Loop].pc = "start" THEN "install" ELSE "autocheck"])
          /\ NoGuard
    /\ UNCHANGED <<other, taken, mail, ops, inputs>>

\* Trigger mail that arrived meanwhile has precedence: the slot is cleared and
\* a wake is tried while the reservation is still held.
AutoCheck ==
    /\ at[Loop].pc = "autocheck"
    /\ \/ /\ mail = {}
          /\ Goto(Loop, [at[Loop] EXCEPT !.pc = "begin"])
          /\ UNCHANGED <<turn, claim>>
       \/ /\ mail # {}
          /\ turn' = Cleared(at[Loop].id)
          /\ claim' = DropClaim(at[Loop].id)
          /\ Goto(Loop, [Off("check") EXCEPT !.outer = TRUE])
    /\ NoGuard
    /\ UNCHANGED <<other, taken, mail, ops, inputs>>

\* spawn_task reserves for the new task before it aborts the old one.
ReplaceReserve ==
    /\ at[Loop].pc = "replace"
    /\ \/ ~HasCapacity /\ GiveUp(Loop)
       \/ /\ Reserve /\ UNCHANGED claim
          /\ Goto(Loop, [at[Loop] EXCEPT !.pc = "interrupt", !.res = TRUE])
    /\ UNCHANGED <<turn, other, taken, mail, ops, inputs>>

\* abort_all_tasks takes whatever is in the slot.  Without a task in it the
\* abort is over: an interrupt does not try to wake, a replacement goes on.
AbortTake ==
    /\ at[Loop].pc = "interrupt"
    /\ turn' = NoTurn
    /\ Goto(Loop, IF turn.phase = "task"
                  THEN [at[Loop] EXCEPT !.pc = "aborting", !.id = turn.id, !.outer = TRUE]
                  ELSE IF at[Loop].res THEN [at[Loop] EXCEPT !.pc = "start"] ELSE Off("idle"))
    /\ Release(Held(turn.phase = "wake"))
    /\ UNCHANGED <<claim, other, taken, mail, ops, inputs>>

\* handle_task_abort: the task ended in time or its handle is aborted, with
\* everything it holds; the guard of the task goes before the wake.
AbortEnd ==
    LET k == Task(at[Loop].id)
        then == IF at[Loop].res THEN [Off("start") EXCEPT !.res = TRUE] ELSE Off("check")
    IN  /\ at[Loop].pc = "aborting"
        /\ at' = [at EXCEPT ![Loop] = then, ![k] = Off("off")]
        /\ Release(1 + Held(at[k].res))
        /\ claim' = IF at[k].pc \in {"commit", "install"} THEN DropClaim(at[k].id) ELSE claim
        /\ UNCHANGED <<turn, other, taken, mail, ops, inputs>>

LoopStep ==
    \/ UserClaim \/ UserWait \/ Begin \/ Fail
    \/ AutoReserve \/ EmptyClaim \/ AutoCheck
    \/ ReplaceReserve \/ AbortTake \/ AbortEnd

-----------------------------------------------------------------------------
(* The task of a turn.                                                     *)

Cancelled(i) == at[Loop].pc = "aborting" /\ at[Loop].id = i

\* get_pending_input by the running turn.
Deliver(i) ==
    /\ at[Task(i)].pc = "run" /\ turn = [id |-> i, phase |-> "task"]
    /\ mail # {} /\ mail' = {}
    /\ UNCHANGED <<turn, claim, at, active, other, taken, fresh, ops, inputs>>

\* The task's work is over; a cancelled one does not finish the turn.
TaskEnds(i) ==
    /\ at[Task(i)].pc = "run"
    /\ Goto(Task(i), Off(IF Cancelled(i) THEN "off" ELSE "ended"))
    /\ UNCHANGED <<turn, claim, active, other, taken, fresh, mail, ops, inputs>>

\* The slot still holds the taskless turn whose task this task took.
StillMine(i) == turn = [id |-> at[Task(i)].id, phase |-> "closing"]

\* Mutant: the slot stays occupied when the turn is over.
ClearNothing(i) == turn

ClearTurn(i) == IF StillMine(i) THEN NoTurn ELSE turn

\* on_task_finished takes the task of the active turn, whichever it is, and
\* with it the guard.
FinishTake(i) ==
    /\ at[Task(i)].pc = "ended"
    /\ \/ /\ turn.phase = "task"
          /\ turn' = [turn EXCEPT !.phase = "closing"]
          /\ Goto(Task(i), [Off("closing") EXCEPT !.id = turn.id])
          /\ Release(1)
       \/ /\ turn.phase # "task"
          /\ Goto(Task(i), Off("off")) /\ NoGuard /\ UNCHANGED turn
    /\ UNCHANGED <<claim, other, taken, mail, ops, inputs>>

\* After the terminal events the slot is cleared, if it is still that turn's;
\* only then the next pending work is started.
FinishClear(i) ==
    /\ at[Task(i)].pc = "closing"
    /\ turn' = ClearTurn(i)
    /\ Goto(Task(i), Off(IF StillMine(i) THEN "check" ELSE "off"))
    /\ UNCHANGED <<claim, active, other, taken, fresh, mail, ops, inputs>>

-----------------------------------------------------------------------------
(* The dispatcher of an aggregate and its capacity-ready lease.            *)

\* The release generation is read before anything is sent.
Subscribe(d) ==
    /\ at[Watcher(d)].pc = "new"
    /\ Goto(Watcher(d), Off("slot"))
    /\ fresh' = fresh \ {d}
    /\ UNCHANGED <<turn, claim, active, other, taken, mail, ops, inputs>>

\* send_inter_agent_communication: an active turn needs no capacity, an idle
\* session needs some.
SendCheck(d) ==
    /\ \/ at[Watcher(d)].pc = "slot" /\ turn.phase # "none"
       \/ at[Watcher(d)].pc = "capacity" /\ HasCapacity
    /\ ops' = ops \cup {d}
    /\ Goto(Watcher(d), Off("done"))
    /\ UNCHANGED <<turn, claim, active, other, taken, fresh, mail, inputs>>

SendRefused(d) ==
    /\ \/ at[Watcher(d)].pc = "slot" /\ turn.phase = "none"
          /\ Goto(Watcher(d), Off("capacity"))
       \/ at[Watcher(d)].pc = "capacity" /\ ~HasCapacity
          /\ Goto(Watcher(d), Off("lease"))
    /\ UNCHANGED <<turn, claim, active, other, taken, fresh, mail, ops, inputs>>

\* Mutant: the generation is read when the lease is taken.
SeenFromNow(d) == fresh \ {d}

\* The releases the lease's watcher has still to see: all since Subscribe.
Unseen(d) == fresh

\* retain_capacity_ready_lease enqueues the mail and watches for a release.
Retain(d) ==
    /\ at[Watcher(d)].pc = "lease"
    /\ mail' = mail \cup {d}
    /\ fresh' = Unseen(d)
    /\ Goto(Watcher(d), Off("armed"))
    /\ UNCHANGED <<turn, claim, active, other, taken, ops, inputs>>

SeeRelease(d) ==
    /\ at[Watcher(d)].pc = "armed" /\ d \in fresh
    /\ fresh' = fresh \ {d}
    /\ Goto(Watcher(d), Off("check"))
    /\ UNCHANGED <<turn, claim, active, other, taken, mail, ops, inputs>>

\* Mail that is still queued re-arms the watcher, otherwise the lease goes.
Rearm(d) ==
    /\ at[Watcher(d)].pc = "after"
    /\ Goto(Watcher(d), Off(IF d \in mail THEN "armed" ELSE "done"))
    /\ UNCHANGED <<turn, claim, active, other, taken, fresh, mail, ops, inputs>>

-----------------------------------------------------------------------------
(* The other sessions under the same limiter (external to this one).       *)

OtherStart ==
    /\ taken < MaxOther /\ Reserve
    /\ taken' = taken + 1 /\ other' = other + 1
    /\ UNCHANGED <<turn, claim, at, mail, ops, inputs>>

OtherEnd ==
    /\ other > 0 /\ other' = other - 1 /\ Release(1)
    /\ UNCHANGED <<turn, claim, at, taken, mail, ops, inputs>>

-----------------------------------------------------------------------------
Init ==
    /\ turn = NoTurn
    /\ claim = [i \in Slot |-> "none"]
    /\ at = [p \in Proc |-> IF p = Loop THEN Off("idle")
                            ELSE IF p[1] = "task" THEN Off("off") ELSE Off("new")]
    /\ active = 0 /\ other = 0 /\ taken = 0
    /\ fresh = {} /\ mail = {} /\ ops = {} /\ inputs = 0

Start(p) == WakeCheck(p) \/ WakeClaim(p) \/ WakeCommit(p) \/ Install(p)
TaskStep(i) == TaskEnds(i) \/ FinishTake(i) \/ FinishClear(i)
WatchStep(d) ==
    \/ Subscribe(d) \/ SendCheck(d) \/ SendRefused(d)
    \/ Retain(d) \/ SeeRelease(d) \/ Rearm(d)

Next ==
    \/ \E p \in Proc : Start(p)
    \/ \E k \in InputKind : Receive(k)
    \/ \E d \in Dispatch : HandleOp(d)
    \/ LoopStep
    \/ \E i \in Slot : Deliver(i) \/ TaskStep(i)
    \/ \E d \in Dispatch : WatchStep(d)
    \/ OtherStart \/ OtherEnd

Spec == Init /\ [][Next]_vars

\* Fairness: the scheduler runs every spawned task, the loop drains its queue,
\* and turns end, of this session and of the others.  Nothing is assumed of
\* the inputs, of the start of other sessions, or of deliveries.
FairSpec ==
    /\ Spec
    /\ \A p \in Proc : WF_vars(Start(p))
    /\ WF_vars(LoopStep)
    /\ WF_vars(\E d \in Dispatch : HandleOp(d))
    /\ \A i \in Slot : WF_vars(TaskStep(i))
    /\ \A d \in Dispatch : WF_vars(WatchStep(d))
    /\ WF_vars(OtherEnd)

-----------------------------------------------------------------------------
(* Properties.                                                             *)

\* The types of the slot, the claims, the processes and the limiter.
TypeOK ==
    /\ turn \in [id : Slot \cup {NoSlot}, phase : Phase]
    /\ claim \in [Slot -> {"none", "Starting", "Running", "Cancelled"}]
    /\ DOMAIN at = Proc
    /\ \A p \in Proc : /\ at[p].id \in Slot \cup {NoSlot}
                       /\ at[p].res \in BOOLEAN /\ at[p].outer \in BOOLEAN
    /\ active \in 0..MaxThreads /\ other \in Nat /\ taken \in 0..MaxOther
    /\ fresh \subseteq Dispatch /\ mail \subseteq Dispatch /\ ops \subseteq Dispatch
    /\ inputs \in 0..MaxInput

\* The limiter's count is the number of guards somebody will still drop: the
\* slot's own, those of the starters and aborters, and the other sessions'.
\* A leaked guard would take a thread from the limit for good, one dropped
\* twice would admit too many (AgentExecutionGuard, AgentExecutionReservation).
GuardsExact ==
    /\ active <= MaxThreads
    /\ active = Held(turn.phase \in {"wake", "task"}) + other
                  + Cardinality({p \in Proc : at[p].res})
                  + Cardinality({p \in Proc : at[p].outer})

\* The process that will install a task in slot i, or drop the claim.
Owner(i) == {p \in Proc : at[p].id = i /\ at[p].pc \in {"commit", "install", "begin", "autocheck", "failed"}}

\* Nobody waits for a claim whose owner is gone: TasklessTurnClaim::wait
\* resolves, as start_or_steer's unreachable!() takes for granted.
ClaimHasOwner == \A i \in Slot : claim[i] = "Starting" => Cardinality(Owner(i)) = 1

\* A slot without a task always belongs to somebody who will fill or clear it:
\* otherwise every later wake finds a busy session and gives up.
TasklessTurnIsOwned ==
    /\ Taskless => claim[turn.id] = "Starting"
    /\ turn.phase = "closing" =>
         \E i \in Slot : at[Task(i)].pc = "closing" /\ at[Task(i)].id = turn.id

\* A session has at most one running task that is not being aborted, and that
\* task is the one in the slot.
SingleTask ==
    \A i \in Slot : at[Task(i)].pc = "run" /\ ~Cancelled(i)
                       => turn = [id |-> i, phase |-> "task"]

\* An input the loop has taken is answered: the loop never waits forever, so
\* every later operation of the session is handled, too.
InputIsAnswered == (at[Loop].pc # "idle") ~> (at[Loop].pc = "idle")

\* Mail queued under a capacity-ready lease reaches a turn: no release of a
\* guard is missed between the refusal and the lease, and a lost race re-arms.
LeasedMailIsDelivered ==
    \A d \in Dispatch : (d \in mail /\ at[Watcher(d)].pc = "armed") ~> (d \notin mail)

\* Trigger mail starts a turn or reaches one that runs.
TriggerIsServed == \A d \in Dispatch : (d \in mail) ~> (d \notin mail)
=============================================================================
