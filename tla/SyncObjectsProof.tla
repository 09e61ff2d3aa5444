--------------------------- MODULE SyncObjectsProof ----------------------------
(***************************************************************************)
(* Proofs about events, threads and the handles to them, for any number of *)
(* processes, events, handles and waiters: the syscalls on objects         *)
(* implement the scheduler, and nobody is left asleep beside a signal.     *)
(***************************************************************************)
EXTENDS SyncWaitsProof, SchedulerProof

--------------------------------------------------------------------------------
(* The syscalls on objects as steps of the scheduler.                      *)

\* Unblocking pids that are not asleep does nothing.
LEMMA UnblockSleepers ==
    ASSUME NEW st, NEW W, NEW S, \A p \in Pid : p \in W /\ st[p] = "Blocked" => p \in S
    PROVE  Unblock(st, W) = Unblock(st, W \cap S)
BY DEF Unblock

\* exit and exit_thread wake the waiters of all the objects of the dying process,
\* which the scheduler knows as a set of sleeping processes.
LEMMA TerminateRefines ==
    ASSUME IInv, ~Stray, NEW f \in Pid, User(f), f \in Exiting, NEW W, TerminateCurrent(W),
           exited' = exited \cup {f}, UNCHANGED <<procs, parent, nextPid, ctx, cpu, waitFor>>
    PROVE  Exit(f)
<1>1. state \in [Pid -> ProcState] /\ \A p \in Pid : p \in procs <=> state[p] # "Absent"
  BY DEF IInv, TypeInv
<1> DEFINE st == [state EXCEPT ![current] = "Terminated"]
<1>2. Unblock(st, W) = Unblock(st, W \cap Sleeping)
  <2>1. \A p \in Pid : st[p] = "Blocked" => p \in Sleeping
    BY <1>1 DEF Sleeping
  <2> HIDE DEF st
  <2> QED BY <2>1, UnblockSleepers
<1>3. TerminateCurrent(W \cap Sleeping)
  BY <1>2 DEF TerminateCurrent
<1>4. W \cap Sleeping \in SUBSET Sleeping
  OBVIOUS
<1> QED BY <1>3, <1>4 DEF Exit

\* Every syscall on an object is, for the process table, one of the scheduler's
\* steps, or leaves the table alone.
LEMMA SyncStepRefines ==
    ASSUME IInv, ~Stray, NEW f \in Pid, SyncStep(f)
    PROVE  Step(f) \/ UNCHANGED vars
<1>1. CASE Plain(f)
  BY <1>1 DEF Plain, Step
<1>2. ASSUME NEW e \in Events, WaitEvent(f, e) PROVE Block(f) \/ UNCHANGED vars
  BY <1>2 DEF WaitEvent, Free, Block
<1>3. ASSUME NEW t \in Pid, JoinThread(f, t) PROVE Block(f)
  BY <1>3 DEF JoinThread, Free, Block
<1>4. ASSUME NEW e \in Events, SignalEvent(f, e)
      PROVE  \E W \in SUBSET Sleeping : Wake(f, W)
  <2>1. PICK W : state' = Unblock(state, W)
    BY <1>4 DEF SignalEvent
  <2>2. Unblock(state, W) = Unblock(state, W \cap Sleeping)
    <3>1. \A p \in Pid : state[p] = "Blocked" => p \in Sleeping
      BY DEF Sleeping, IInv
    <3> QED BY <3>1, UnblockSleepers
  <2>3. Wake(f, W \cap Sleeping) /\ W \cap Sleeping \in SUBSET Sleeping
    BY <1>4, <2>1, <2>2 DEF SignalEvent, Wake, Free, User
  <2> QED BY <2>3
<1>5. CASE CreateThread(f)
  BY <1>5 DEF CreateThread, Free, Fork, Step
<1>6. CASE SyncExit(f)
  <2>1. PICK W : TerminateCurrent(W)
    BY <1>6 DEF SyncExit, Terminate
  <2> QED BY <1>6, <2>1, TerminateRefines DEF SyncExit, Free, Step
<1>7. CASE ExitThread(f)
  <2>1. PICK W : TerminateCurrent(W)
    BY <1>7 DEF ExitThread, Terminate
  <2> QED BY <1>7, <2>1, TerminateRefines DEF ExitThread, Free, Step
<1>8. CASE SyncFault(f)
  BY <1>8 DEF SyncFault, Step
<1>9. ASSUME \/ \E e \in Events : CreateEvent(f, e)
             \/ WaitEventDone(f) \/ JoinThreadDone(f)
             \/ \E o \in Objects : Duplicate(f, o)
             \/ \E o \in Objects, q \in Pid : Transfer(f, o, q)
             \/ \E o \in Objects : Revoke(f, o)
      PROVE  UNCHANGED vars
  BY Zenon, <1>9 DEF CreateEvent, WaitEventDone, JoinThreadDone, Duplicate, Transfer, Revoke
<1> QED
  BY <1>1, <1>2, <1>3, <1>4, <1>5, <1>6, <1>7, <1>8, <1>9 DEF SyncStep, Step

\* The same for a step of the whole specification.
LEMMA SyncNextRefines ==
    ASSUME IInv, ~Stray, [SyncNext]_allVars
    PROVE  [Next]_vars
<1>1. CASE UNCHANGED allVars
  BY <1>1 DEF allVars
<1>2. CASE SyncNext
  BY <1>2, SyncStepRefines DEF SyncNext, Next
<1> QED
  BY <1>1, <1>2

\* The scheduler's invariant also holds below the objects.
LEMMA SyncIInv ==
    ASSUME ~Stray
    PROVE  SyncSpec => []IInv
<1>1. SyncInit => IInv
  BY InitIInv DEF SyncInit
<1>2. IInv /\ [SyncNext]_allVars => IInv'
  BY SyncNextRefines, NextPreserves
<1> QED
  BY <1>1, <1>2, PTL DEF SyncSpec

\* The syscalls of event.rs, thread.rs and cap.rs implement the scheduler's
\* specification: what is proved of Scheduler holds of the kernel with them.
THEOREM ObjectsImplementScheduler ==
    ASSUME ~Stray
    PROVE  SyncSpec => ImplementsScheduler
<1>1. SyncInit => Init
  BY DEF SyncInit
<1>2. IInv /\ [SyncNext]_allVars => [Next]_vars
  BY SyncNextRefines
<1> QED
  BY <1>1, <1>2, SyncIInv, PTL DEF SyncSpec, Spec, ImplementsScheduler

--------------------------------------------------------------------------------
(* What a step does to the sleeping processes.                             *)

\* The part of the invariant that is about the processes: a flow inside a wait
\* is a living process and not idle, idle never sleeps and is in the list until
\* a process exits, an exited process is Terminated or gone, and from the first
\* exit to the trap that follows it the exited flow keeps the processor.
SBase ==
    /\ IInv
    /\ \A p \in Pid : inCall[p] # 0 => p < nextPid /\ p \notin exited /\ p # Idle
    /\ state[Idle] # "Blocked"
    /\ exited = {} => Idle \in procs
    /\ \A p \in exited : p < nextPid /\ (p \in procs => state[p] = "Terminated")
    /\ exited # {} /\ exited \subseteq procs => cpu \in exited

\* The inductive invariant.
SInv == SBase /\ WaitsSound

\* schedule_next puts nobody to sleep; with the idle process in the list it
\* wakes nobody either, and what it selects is Ready, Running or idle.
LEMMA ScheduleSleepers ==
    ASSUME NEW l \in SUBSET Pid, l # {}, NEW st \in [Pid -> ProcState], schedIdx \in Nat
    PROVE  LET r == ScheduleNext(l, st)
           IN  /\ \A p \in Pid : r.st[p] = "Blocked" => st[p] = "Blocked"
               /\ Idle \in l /\ st[Idle] # "Blocked" =>
                    /\ \A p \in Pid : st[p] = "Blocked" => r.st[p] = "Blocked"
                    /\ r.st[r.cur] # "Blocked"
<1> DEFINE i == Clamp(l, schedIdx)
           old == At(l, i)
           new == PickNext(l, st, i)
           st2 == IF old = new THEN st
                  ELSE [st EXCEPT ![old] = IF @ = "Running" THEN "Ready" ELSE @,
                                  ![new] = "Running"]
<1>1. i \in 0 .. Cardinality(l) - 1
  BY Zenon, ClampRange
<1>2. old \in l /\ new \in l /\ (Idle \in l => st[new] = "Ready" \/ new = Idle)
  BY <1>1, AtExists, PickCases
<1>3. ScheduleNext(l, st) = [old |-> old, new |-> new, idx |-> Idx(l, new),
                             cur |-> new, st |-> st2]
  BY DEF ScheduleNext
<1> HIDE DEF i, old, new
<1>4. \A p \in Pid : st2[p] = IF old = new THEN st[p]
                              ELSE IF p = new THEN "Running"
                              ELSE IF p = old /\ st[p] = "Running" THEN "Ready"
                              ELSE st[p]
  BY <1>2 DEF ProcState
<1> HIDE DEF st2
<1> QED
  BY <1>2, <1>3, <1>4

\* Typing facts of the scheduler's variables that the lemmas below share.
LEMMA Basics ==
    ASSUME SInv
    PROVE  /\ IInv /\ procs \in SUBSET Pid /\ state \in [Pid -> ProcState] /\ schedIdx \in Nat
           /\ Idle \in Pid /\ state[Idle] # "Blocked"
           /\ \A p \in Pid : p \in procs <=> state[p] # "Absent"
           /\ exited = {} => Idle \in procs /\ state[current] # "Blocked"
BY SchedulerAssumption DEF SInv, SBase, WaitsSound, WaitersFresh, IInv, TypeInv, Idle, Pid

\* What the lemmas about the waits assume of the process table.
LEMMA TableFacts ==
    ASSUME IInv
    PROVE  Table
BY DEF IInv, Table

\* Steps that do not touch the process table.
LEMMA StillEffect ==
    ASSUME SInv, UNCHANGED vars
    PROVE  Effect({}, {})
BY Basics DEF Effect, vars

\* A new process is Ready.
LEMMA AddEffect ==
    ASSUME SInv, NEW par, NEW ok, AddProcess(par, ok)
    PROVE  Effect({}, {})
<1>1. state' = state \/ (state' = [state EXCEPT ![nextPid] = "Ready"] /\ nextPid \in Pid)
  BY SchedulerAssumption DEF AddProcess, SInv, SBase, IInv, TypeInv, Pid
<1>2. nextPid \in Pid => state[nextPid] = "Absent"
  BY SchedulerAssumption DEF SInv, SBase, IInv, TypeInv, Pid
<1>3. UNCHANGED <<current, exited>>
  BY DEF AddProcess
<1>4. \A p \in Pid : state'[p] = "Blocked" <=> state[p] = "Blocked"
  BY <1>1, <1>2, Basics
<1>5. current \in Pid
  BY DEF SInv, SBase, IInv, TypeInv
<1> QED
  BY <1>3, <1>4, <1>5, Basics DEF Effect

\* yield_current changes who runs, not who sleeps.
LEMMA YieldEffect ==
    ASSUME SInv, ~Stray, NEW f \in Pid, Yield(f)
    PROVE  Effect({}, {})
<1>1. cpu = f /\ f \notin exited /\ Scheduled(ScheduleNext(procs, state)) /\ UNCHANGED exited
  BY DEF Yield, Executing
<1>2. procs # {}
  BY <1>1, Basics, ExecutingFacts
<1> QED
  BY <1>1, <1>2, Basics, ScheduleSleepers DEF Effect, Scheduled

\* block_current puts the caller to sleep and nobody else.
LEMMA BlockEffect ==
    ASSUME SInv, ~Stray, NEW f \in Pid, User(f), BlockCurrent, UNCHANGED exited
    PROVE  Effect({current}, {})
<1> DEFINE st == SetState(state, current, "Blocked")
<1>1. cpu = f /\ f \notin exited /\ f # Idle
  BY DEF User, Executing
<1>2. procs # {} /\ current = f /\ current \in procs
  BY <1>1, Basics, ExecutingFacts
<1>3. /\ st \in [Pid -> ProcState] /\ st[current] = "Blocked" /\ st[Idle] # "Blocked"
      /\ \A p \in Pid : p # current => st[p] = state[p]
  BY <1>1, <1>2, Basics DEF SetState, ProcState
<1>4. Scheduled(ScheduleNext(procs, st))
  BY DEF BlockCurrent
<1> HIDE DEF st
<1> QED
  BY <1>1, <1>2, <1>3, <1>4, Basics, ScheduleSleepers DEF Effect, Scheduled

\* terminate_process of the caller wakes W (and a parent).
LEMMA ExitEffect ==
    ASSUME SInv, ~Stray, NEW f \in Pid, User(f), NEW W, TerminateCurrent(W),
           exited' = exited \cup {f}
    PROVE  /\ Effect({}, W)
           /\ state'[f] = "Terminated"
<1> DEFINE st0 == [state EXCEPT ![current] = "Terminated"]
           st1 == Unblock(st0, W)
           st2 == Unblock(st1, {parent[current]})
<1>1. cpu = f /\ f \notin exited /\ f # Idle
  BY DEF User, Executing
<1>2. /\ procs # {} /\ current = f /\ current \in procs
      /\ At(procs, Clamp(procs, schedIdx)) = current
  BY <1>1, Basics, ExecutingFacts
<1>3. st0 \in [Pid -> ProcState] /\ st0[f] = "Terminated" /\ \A p \in Pid : p # f => st0[p] = state[p]
  BY <1>2, Basics DEF ProcState
<1>4. Scheduled(ScheduleNext(procs, st2))
  BY <1>1, <1>2 DEF TerminateCurrent
<1> HIDE DEF st0
<1>5. /\ st1 \in [Pid -> ProcState] /\ st1[f] = "Terminated"
      /\ \A p \in Pid : st1[p] = "Blocked" => st0[p] = "Blocked" /\ p \notin W
      /\ \A p \in Pid : st1[p] # st0[p] => st0[p] = "Blocked" /\ st1[p] = "Ready"
  BY <1>3 DEF Unblock, ProcState
<1> HIDE DEF st1
<1>6. /\ st2 \in [Pid -> ProcState] /\ st2[f] = "Terminated"
      /\ \A p \in Pid : st2[p] = "Blocked" => st1[p] = "Blocked"
      /\ \A p \in Pid : st2[p] # st1[p] => st1[p] = "Blocked" /\ st2[p] = "Ready"
  BY <1>5 DEF Unblock, ProcState
<1> HIDE DEF st2
<1>7. \A p \in Pid : state'[p] = "Blocked" => st2[p] = "Blocked"
  BY <1>2, <1>4, <1>6, Basics, ScheduleSleepers DEF Scheduled
<1>8. state'[f] = "Terminated"
  <2>1. \A p \in Pid : p \in procs <=> st2[p] # "Absent"
    BY <1>2, <1>3, <1>5, <1>6, Basics
  <2>2. \A p \in procs : st2[p] = "Running" => p = At(procs, Clamp(procs, schedIdx))
    BY <1>2, <1>3, <1>5, <1>6, Basics DEF IInv, OneRunning
  <2>3. st2[Idle] # "Terminated"
    BY SMTT(30), <1>1, <1>3, <1>5, <1>6, Basics DEF IInv
  <2> QED BY <1>2, <1>4, <1>6, <2>1, <2>2, <2>3, Basics, ScheduleNextFacts DEF Scheduled
<1> QED
  BY <1>3, <1>5, <1>6, <1>7, <1>8 DEF Effect

\* The recovery from an exception removes processes; nobody falls asleep.  While
\* no process has exited, it removes the current one only.
LEMMA FaultEffect ==
    ASSUME SInv, NEW f \in Pid, Fault(f)
    PROVE  /\ Effect({}, {})
           /\ procs' \in SUBSET procs
           /\ exited = {} => procs' = procs \ {f}
           /\ f \in exited => f \notin procs'
<1> DEFINE st   == SetState(state, current, "Terminated")
           left == {p \in procs : st[p] # "Terminated"}
           kept == [p \in Pid |-> IF p \in left THEN st[p] ELSE "Absent"]
           r    == ScheduleNext(left, kept)
<1>1. cpu = f /\ f \in Faulting /\ procs' = left /\ Scheduled(r) /\ UNCHANGED exited
  BY DEF Fault
<1>2. current \in procs
  BY <1>1, SchedulerAssumption DEF SInv, SBase, IInv, TypeInv, IndexTracksCurrent, Pid
<1>3. st = [state EXCEPT ![current] = "Terminated"]
  BY <1>2 DEF SetState
<1>4. /\ left \in SUBSET procs /\ current \notin left
      /\ \A p \in Pid : p \in left <=> p \in procs /\ p # current /\ state[p] # "Terminated"
  BY SMTT(30), <1>2, <1>3, Basics
<1>5. /\ kept \in [Pid -> ProcState]
      /\ \A p \in left : kept[p] = state[p]
      /\ \A p \in Pid : p \notin left => kept[p] = "Absent"
  BY <1>3, <1>4, Basics DEF ProcState
<1>6. exited = {} => left = procs \ {f} /\ current = f /\ Idle \in left
  <2> SUFFICES ASSUME exited = {} PROVE left = procs \ {f} /\ current = f /\ Idle \in left
    OBVIOUS
  <2>1. current = f /\ f # Idle
    BY <1>1, Basics, ExecutingFacts, SchedulerAssumption DEF Idle
  <2>2. \A p \in Pid : state[p] # "Terminated"
    BY Basics DEF IInv
  <2> QED BY <1>4, <2>1, <2>2, Basics
<1>7. f \in exited => f \notin left
  BY <1>4 DEF SInv, SBase
<1>8. ScheduleNext(left, kept).st = kept \/ left # {}
  BY Zenon DEF ScheduleNext
<1> HIDE DEF left, kept, st
<1>9. \A p \in Pid : state'[p] = "Blocked" => kept[p] = "Blocked"
  <2>1. CASE left = {}
    BY <1>1, <1>8, <2>1 DEF Scheduled
  <2>2. CASE left # {}
    BY <1>1, <1>4, <1>5, <2>2, Basics, ScheduleSleepers DEF Scheduled
  <2> QED BY <2>1, <2>2
<1>10. exited = {} => /\ \A p \in Pid : kept[p] = "Blocked" => state'[p] = "Blocked"
                      /\ state'[current'] # "Blocked"
  <2> SUFFICES ASSUME exited = {}
               PROVE  /\ \A p \in Pid : kept[p] = "Blocked" => state'[p] = "Blocked"
                      /\ state'[current'] # "Blocked"
    OBVIOUS
  <2>1. Idle \in left /\ kept[Idle] # "Blocked"
    BY <1>5, <1>6, Basics
  <2> QED BY <1>1, <1>4, <1>5, <2>1, Basics, ScheduleSleepers DEF Scheduled
<1>11. \A p \in Pid : state[p] = "Blocked" /\ exited = {} => kept[p] = "Blocked"
  BY <1>4, <1>5, <1>6, Basics
<1>12. \A p \in Pid : kept[p] = "Blocked" => state[p] = "Blocked"
  BY <1>5
<1> QED
  BY <1>1, <1>4, <1>6, <1>7, <1>9, <1>10, <1>11, <1>12 DEF Effect

--------------------------------------------------------------------------------
(* The invariant is inductive: the processes.                              *)

\* The flow that takes a step is on the processor, and runs under its own pid
\* unless the step is the trap of a flow that has exited.
LEMMA FlowFacts ==
    ASSUME SInv, ~Stray, NEW f \in Pid, SyncStep(f)
    PROVE  /\ cpu = f
           /\ SyncFault(f) \/ f \notin exited
           /\ f \notin exited => f = current /\ current \in procs
<1>1. cpu = f
  BY Zenon DEF SyncStep, Plain, Spawn, Fork, Yield, CreateEvent, WaitEvent, WaitEventDone, SignalEvent,
     CreateThread, JoinThread, JoinThreadDone, Duplicate, Transfer, Revoke, SyncExit, ExitThread,
     SyncFault, Fault, Free, User, Executing
<1>2. ASSUME f \in exited PROVE SyncFault(f)
  <2>1. ~Executing(f)
    BY <1>2 DEF Executing
  <2>2. inCall[f] = 0
    BY <1>2 DEF SInv, SBase
  <2>3. ~WaitEventDone(f) /\ ~JoinThreadDone(f)
    BY <2>2, SyncAssumption, SchedulerAssumption DEF WaitEventDone, JoinThreadDone, Pid
  <2> QED
    BY Zenon, <2>1, <2>3 DEF SyncStep, Plain, Spawn, Fork, Yield, CreateEvent, WaitEvent, SignalEvent,
       CreateThread, JoinThread, Duplicate, Transfer, Revoke, SyncExit, ExitThread, Free, User
<1> QED
  BY <1>1, <1>2, Basics, ExecutingFacts

\* No step brings back a process that has left the list or is Terminated.
LEMMA DeadStay ==
    ASSUME SInv, ~Stray, NEW f \in Pid, SyncStep(f)
    PROVE  /\ IInv'
           /\ \A p \in Pid : /\ p < nextPid /\ p \in procs' => p \in procs
                             /\ state[p] = "Terminated" => state'[p] \in {"Terminated", "Absent"}
           /\ nextPid' >= nextPid
<1>1. Step(f) \/ UNCHANGED vars
  BY Basics, SyncStepRefines
<1>2. IInv'
  BY <1>1, Basics, NextPreserves DEF Next
<1>3. StaysDead
  <2>1. CASE UNCHANGED vars
    BY <2>1 DEF vars, StaysDead
  <2>2. CASE Step(f)
    BY <1>2, <2>2, Basics, NextKeepsDead
  <2> QED BY <1>1, <2>1, <2>2
<1>4. nextPid' >= nextPid
  <2>1. nextPid \in Int
    BY DEF SInv, SBase, IInv, TypeInv
  <2>2. nextPid' = nextPid \/ nextPid' = nextPid + 1
    BY ZenonT(30) DEF SyncStep, Plain, Spawn, Fork, Yield, CreateEvent, WaitEvent, WaitEventDone, SignalEvent,
     CreateThread, JoinThread, JoinThreadDone, Duplicate, Transfer, Revoke, SyncExit, ExitThread,
     SyncFault, Fault, AddProcess, vars
  <2> QED BY <2>1, <2>2
<1>5. \A p \in Pid : p < nextPid /\ p \in procs' => p \in procs
  BY <1>2, <1>3, Basics DEF StaysDead, IInv
<1> QED
  BY <1>2, <1>3, <1>4, <1>5 DEF StaysDead

\* The part of the invariant about the processes, for a step that is described by
\* its effect on the sleepers, on the flows inside a wait and on the exited ones.
LEMMA BaseStep ==
    ASSUME SInv, ~Stray, NEW f \in Pid, SyncStep(f),
           NEW B, NEW W, Effect(B, W), Idle \notin B,
           \A p \in Pid : inCall'[p] # 0 => inCall[p] # 0 \/ (p = f /\ f # Idle /\ f \notin exited),
           \/ exited' = exited /\ procs \subseteq procs'
           \/ exited' = exited /\ SyncFault(f)
           \/ /\ exited' = exited \cup {f} /\ UNCHANGED <<procs, cpu>> /\ f \notin exited
              /\ state'[f] = "Terminated" /\ inCall'[f] = 0
    PROVE  SBase'
<1>0. /\ \A p \in Pid : p < nextPid => p < nextPid'
      /\ exited \subseteq Pid /\ Pid \subseteq Int /\ nextPid \in Int /\ nextPid' \in Int
  <2>1. IInv /\ IInv' /\ nextPid' >= nextPid
    BY Basics, DeadStay
  <2>2. nextPid \in Int /\ nextPid' \in Int /\ exited \subseteq Pid /\ Pid \subseteq Int
    BY <2>1, SchedulerAssumption DEF IInv, TypeInv, Pid
  <2> QED BY <2>1, <2>2
<1>1. cpu = f /\ (f \notin exited => f = current /\ current \in procs /\ f < nextPid)
  BY SMTT(30), FlowFacts, Basics DEF IInv
<1>2. IInv'
  BY DeadStay
<1>3. (\A p \in Pid : inCall[p] # 0 => p < nextPid /\ p \notin exited /\ p # Idle)'
  BY <1>0, <1>1 DEF SInv, SBase
<1>4. state'[Idle] # "Blocked"
  BY Basics DEF Effect
<1>5. exited' = {} => Idle \in procs'
  <2>1. exited = {} => Idle \in procs
    BY Basics
  <2>2. ASSUME SyncFault(f), exited = {} PROVE Idle \in procs'
    <3>1. Fault(f) /\ f \in Faulting /\ procs' = procs \ {f}
      BY Zenon, <2>2, FaultEffect DEF SyncFault, Fault
    <3> QED BY <2>1, <2>2, <3>1, SchedulerAssumption DEF Idle
  <2> QED BY SMTT(30), <2>1, <2>2
<1>6. \A p \in exited' : p < nextPid' /\ (p \in procs' => state'[p] = "Terminated")
  <2> SUFFICES ASSUME NEW p \in exited'
               PROVE  p < nextPid' /\ (p \in procs' => state'[p] = "Terminated")
    OBVIOUS
  <2>1. CASE p \in exited
    <3>1. p \in Pid /\ p < nextPid /\ p < nextPid' /\ (p \in procs => state[p] = "Terminated")
      BY <1>0, <2>1 DEF SInv, SBase
    <3>2. p \in procs' => p \in procs
      BY <3>1, DeadStay
    <3>3. p \in procs' => state'[p] \in {"Terminated", "Absent"} /\ state'[p] # "Absent"
      BY SMTT(30), <1>2, <3>1, <3>2, DeadStay DEF IInv
    <3> QED BY <3>1, <3>3
  <2>2. CASE p \notin exited
    <3>1. p = f /\ f \notin exited /\ state'[f] = "Terminated"
      BY <2>2
    <3> QED BY SMTT(30), <1>0, <1>1, <3>1
  <2> QED BY Zenon, <2>1, <2>2
<1>7. exited' # {} /\ exited' \subseteq procs' => cpu' \in exited'
  <2> SUFFICES ASSUME exited' # {}, exited' \subseteq procs' PROVE cpu' \in exited'
    OBVIOUS
  <2>1. CASE exited' = exited
    <3>1. \A p \in exited : p \in procs
      BY <1>0, <2>1, DeadStay DEF SInv, SBase
    <3>2. cpu \in exited
      BY <2>1, <3>1 DEF SInv, SBase
    <3>3. SyncFault(f) /\ f \in exited
      BY <1>1, <3>2, FlowFacts
    <3>4. f \notin procs'
      BY <3>3, FaultEffect DEF SyncFault
    <3> QED BY <2>1, <3>3, <3>4
  <2>2. CASE exited' # exited
    BY <1>1, <2>2
  <2> QED BY <2>1, <2>2
<1> QED
  BY <1>2, <1>3, <1>4, <1>5, <1>6, <1>7 DEF SBase

--------------------------------------------------------------------------------
(* The invariant is inductive: all steps.                                  *)

\* retain keeps the entries of the others.
LEMMA WithoutFacts ==
    ASSUME NEW s \in Seq(Pid), NEW p \in Pid
    PROVE  /\ Without(s, p) \in Seq(Pid)
           /\ Range(Without(s, p)) = Range(s) \ {p}
<1> DEFINE keep == {i \in DOMAIN s : s[i] # p}
           n == Cardinality(keep)
           w == [j \in 1 .. n |-> s[At(keep, j - 1)]]
<1>1. DOMAIN s = 1 .. Len(s) /\ Len(s) \in Nat /\ \A i \in DOMAIN s : s[i] \in Pid
  OBVIOUS
<1>2. keep \in SUBSET Nat /\ IsFiniteSet(keep) /\ n \in Nat
  <2>1. IsFiniteSet(1 .. Len(s)) /\ keep \in SUBSET (1 .. Len(s))
    BY <1>1, FS_Interval
  <2>2. IsFiniteSet(keep)
    BY <2>1, FS_Subset
  <2> QED BY <2>1, <2>2, FS_CardinalityType
<1>3. Without(s, p) = w
  BY DEF Without
<1> HIDE DEF keep
<1>4. \A j \in 1 .. n : At(keep, j - 1) \in keep
  <2> TAKE j \in 1 .. n
  <2>1. j - 1 \in 0 .. Cardinality(keep) - 1
    BY <1>2
  <2> QED BY <1>2, <2>1, RankExists
<1>5. \A j \in 1 .. n : w[j] \in Pid
  BY <1>1, <1>4 DEF keep
<1>6. w \in Seq(Pid)
  BY <1>2, <1>5
<1>7. \A i \in keep : \E j \in 1 .. n : At(keep, j - 1) = i
  <2> TAKE i \in keep
  <2>1. Idx(keep, i) \in 0 .. n - 1
    BY <1>2, RankRange
  <2>2. At(keep, Idx(keep, i)) = i
    BY <1>2, RankAt
  <2>3. Idx(keep, i) + 1 \in 1 .. n /\ (Idx(keep, i) + 1) - 1 = Idx(keep, i)
    BY <1>2, <2>1
  <2> QED BY <2>2, <2>3
<1>8. DOMAIN w = 1 .. n
  OBVIOUS
<1>9. Range(w) = {s[i] : i \in keep}
  BY <1>4, <1>7, <1>8 DEF Range
<1>10. {s[i] : i \in keep} = Range(s) \ {p}
  BY DEF keep, Range
<1> QED
  BY Zenon, <1>3, <1>6, <1>9, <1>10

\* Every syscall keeps the types of the objects' variables.
LEMMA TypesKept ==
    ASSUME SInv, NEW f \in Pid, SyncStep(f)
    PROVE  SyncTypeInv'
BY Basics, TableFacts, WithoutFacts, TypeStep DEF SInv

\* The initial state satisfies the invariant.
LEMMA InitSInv == SyncInit => SInv
<1> SUFFICES ASSUME SyncInit PROVE SInv
  OBVIOUS
<1>1. IInv
  BY InitIInv DEF SyncInit
<1>2. SBase
  BY <1>1, SchedulerAssumption DEF SBase, SyncInit, Init, Idle, Pid
<1>3. SyncTypeInv
  <2> DEFINE none == [o \in Objects |-> 0]
  <2>1. none \in [Objects -> 0 .. MaxHandles] /\ \A e \in Events : none[e] = 0
    BY SyncAssumption DEF Objects
  <2>2. hold = [p \in Pid |-> none]
    BY DEF SyncInit
  <2> HIDE DEF none
  <2>3. hold \in [Pid -> [Objects -> 0 .. MaxHandles]] /\ \A p \in Pid, e \in Events : hold[p][e] = 0
    BY <2>1, <2>2
  <2>4. <<>> \in Seq(Pid)
    OBVIOUS
  <2> QED BY Zenon, <2>3, <2>4 DEF SyncTypeInv, SyncInit
<1>4. SleeperQueued /\ ManualWakesAll /\ WaitersFresh /\ NoLostSignal
  BY SchedulerAssumption DEF SleeperQueued, ManualWakesAll, WaitersFresh, NoLostSignal, SyncInit, Init,
     Idle, Pid
<1> QED BY <1>2, <1>3, <1>4 DEF SInv, WaitsSound

\* A flow inside a wait is not removed by a step of another flow, up to the
\* first trap after an exit.
LEMMA WaiterStays ==
    ASSUME SInv, ~Stray, NEW f \in Pid, SyncStep(f), inCall[f] = 0,
           procs \subseteq procs' \/ SyncFault(f)
    PROVE  /\ \A p \in procs' : inCall[p] # 0 => p \in procs
           /\ exited \subseteq procs' =>
                exited \subseteq procs /\ \A p \in procs : inCall[p] # 0 => p \in procs'
<1>1. procs' \in SUBSET Pid /\ procs \in SUBSET Pid /\ exited \in SUBSET Pid
  BY DeadStay, Basics DEF IInv, TypeInv
<1>2. /\ \A p \in Pid : inCall[p] # 0 => p < nextPid
      /\ \A p \in exited : p < nextPid
      /\ exited # {} /\ exited \subseteq procs => cpu \in exited
  BY DEF SInv, SBase
<1>3. \A p \in Pid : p < nextPid /\ p \in procs' => p \in procs
  BY DeadStay
<1>4. exited \subseteq procs' => exited \subseteq procs
  BY <1>1, <1>2, <1>3
<1>5. ASSUME exited \subseteq procs', SyncFault(f), NEW p \in procs, inCall[p] # 0
      PROVE  p \in procs'
  <2>1. f \in exited => f \notin procs'
    BY <1>5, FaultEffect DEF SyncFault
  <2>2. exited = {}
    BY <1>2, <1>4, <1>5, <2>1, FlowFacts
  <2>3. procs' = procs \ {f}
    BY <1>5, <2>2, FaultEffect DEF SyncFault
  <2> QED BY <1>5, <2>3
<1> QED
  BY SMTT(30), <1>1, <1>2, <1>3, <1>4, <1>5

\* The steps that touch neither waiter lists nor waiting flows.
LEMMA QuietSteps ==
    ASSUME SInv, ~Stray, NEW f \in Pid, SyncStep(f),
           \/ Plain(f) \/ CreateThread(f) \/ SyncFault(f)
           \/ \E e \in Events : CreateEvent(f, e)
           \/ \E e \in Events : WaitEvent(f, e) /\ e \in signaled
           \/ \E o \in Objects : Duplicate(f, o)
           \/ \E o \in Objects, q \in Pid : Transfer(f, o, q)
           \/ \E o \in Objects : Revoke(f, o)
    PROVE  SInv'
<1>0. SyncTypeInv' /\ inCall[f] = 0
  BY Zenon, TypesKept DEF Plain, CreateThread, SyncFault, CreateEvent, WaitEvent, Duplicate, Transfer, Revoke, Free
<1>1. UNCHANGED <<waiters, inCall, exited>>
  BY ZenonT(30) DEF Plain, Spawn, Fork, Yield, CreateThread, AddProcess, SyncFault, Fault, CreateEvent, WaitEvent,
     Duplicate, Transfer, Revoke, syncVars, vars
<1>2. Effect({}, {})
  <2>1. ASSUME UNCHANGED vars PROVE Effect({}, {})
    BY <2>1, StillEffect
  <2>2. CASE SyncFault(f)
    BY Zenon, <2>2, FaultEffect DEF SyncFault
  <2>3. CASE Plain(f)
    BY <2>3, AddEffect, YieldEffect DEF Plain, Spawn, Fork
  <2>4. CASE CreateThread(f)
    BY <2>4, AddEffect DEF CreateThread
  <2> QED BY Zenon, <2>1, <2>2, <2>3, <2>4 DEF CreateEvent, WaitEvent, Duplicate, Transfer, Revoke
<1>3. procs \subseteq procs' \/ SyncFault(f)
  BY Zenon DEF Plain, Spawn, Fork, Yield, CreateThread, AddProcess, CreateEvent, WaitEvent, Duplicate,
     Transfer, Revoke, vars
<1>4. SBase'
  BY ZenonT(30), <1>1, <1>2, <1>3, BaseStep
<1>5. /\ signaled' \subseteq signaled /\ manual' \cap signaled' \subseteq manual
      /\ signaled' \ manual' \subseteq signaled \ manual
  <2>1. ASSUME NEW e \in Events, CreateEvent(f, e)
        PROVE  signaled' = signaled /\ e \notin signaled /\ manual \subseteq manual' /\ manual' \subseteq manual \cup {e}
    BY <2>1 DEF CreateEvent, SInv, WaitsSound, SyncTypeInv
  <2>2. CASE \E e \in Events : CreateEvent(f, e)
    BY <2>1, <2>2
  <2>3. CASE \E e \in Events : WaitEvent(f, e) /\ e \in signaled
    BY <2>3 DEF WaitEvent, Consume
  <2> QED
    BY Zenon, <2>2, <2>3 DEF Plain, CreateThread, SyncFault, Duplicate, Transfer, Revoke, syncVars
<1>6. \A p \in procs \cap procs' : inCall[p] # 0 => hold'[p][inCall[p]] > 0
  <2> SUFFICES ASSUME NEW p \in procs \cap procs', inCall[p] # 0 PROVE hold'[p][inCall[p]] > 0
    OBVIOUS
  <2>1. p \in Pid /\ inCall[p] \in Objects /\ hold[p][inCall[p]] > 0
    BY ZenonT(30), Basics, ObjectFacts DEF SInv, WaitsSound, SleeperQueued
  <2>2. hold \in [Pid -> [Objects -> 0 .. MaxHandles]] /\ hold[p][inCall[p]] \in Int
    BY <2>1, SyncAssumption DEF SInv, WaitsSound, SyncTypeInv
  <2>3. p # f
    BY <1>0
  <2>4. ASSUME f \notin exited PROVE p # current
    BY SMTT(30), <2>3, <2>4, FlowFacts
  <2>5. CASE \/ CreateThread(f) \/ \E e \in Events : CreateEvent(f, e)
             \/ \E o \in Objects : Duplicate(f, o) \/ Revoke(f, o)
    <3>1. f \notin exited
      BY Zenon, <2>5 DEF CreateThread, CreateEvent, Duplicate, Revoke, Free, User, Executing
    <3>2. hold'[p] = hold[p]
      BY Zenon, <2>1, <2>2, <2>4, <2>5, <3>1 DEF CreateThread, CreateEvent, Duplicate, Revoke
    <3> QED BY <2>1, <3>2
  <2>6. ASSUME NEW o \in Objects, NEW q \in Pid, Transfer(f, o, q)
        PROVE  hold'[p][inCall[p]] > 0
    <3>1. f \notin exited /\ q # current /\ hold' = [hold EXCEPT ![current][o] = @ - 1, ![q][o] = @ + 1]
      BY <2>6 DEF Transfer, Free, User, Executing
    <3>2. p # current
      BY SMTT(30), <2>4, <3>1
    <3>3. hold'[p] = IF p = q THEN [hold[p] EXCEPT ![o] = @ + 1] ELSE hold[p]
      BY Zenon, <2>1, <2>2, <3>1, <3>2
    <3>4. hold'[p][inCall[p]] = hold[p][inCall[p]] \/ hold'[p][inCall[p]] = hold[p][inCall[p]] + 1
      BY Zenon, <2>1, <2>2, <3>3
    <3> QED BY Zenon, <2>1, <2>2, <3>4, StillPositive, Zenon
  <2>7. CASE SyncFault(f)
    BY ZenonT(30), <2>1, <2>7 DEF SyncFault
  <2> QED BY ZenonT(30), <2>1, <2>5, <2>6, <2>7 DEF Plain, WaitEvent, syncVars
<1>7. Table /\ Table'
  BY <1>4 DEF SInv, SBase, IInv, Table
<1>8. WaitsSound'
  BY Zenon, <1>0, <1>1, <1>2, <1>3, <1>5, <1>6, <1>7, WaiterStays, QuietStep DEF SInv
<1> QED
  BY SMTT(30), <1>4, <1>8 DEF SInv

\* A step that changes nothing.
LEMMA StutterSInv ==
    ASSUME SInv, ~Stray, UNCHANGED allVars
    PROVE  SInv'
<1>1. UNCHANGED vars /\ UNCHANGED syncVars
  BY DEF allVars
<1>2. IInv'
  BY <1>1, Basics, NextPreserves
<1>3. SBase'
  BY <1>1, <1>2 DEF vars, syncVars, SInv, SBase
<1>4. SyncTypeInv'
  BY SMTT(30), <1>1 DEF syncVars, SInv, WaitsSound, SyncTypeInv
<1>5. SleeperQueued' /\ ManualWakesAll'
  BY <1>1 DEF vars, syncVars, SInv, WaitsSound, SleeperQueued, ManualWakesAll
<1>6. WaitersFresh'
  BY Zenon, <1>1 DEF vars, syncVars, SInv, WaitsSound, WaitersFresh, Sleeping
<1>7. NoLostSignal'
  BY SMTT(30), <1>1 DEF vars, syncVars, SInv, WaitsSound, NoLostSignal, Sleeping
<1> QED
  BY <1>3, <1>4, <1>5, <1>6, <1>7 DEF SInv, WaitsSound

\* From here on a step is taken by a flow that has not exited: it is the current
\* process, and nobody has exited unless the exited one is gone.
LEMMA LiveStep ==
    ASSUME SInv, ~Stray, NEW f \in Pid, SyncStep(f), f \notin exited
    PROVE  /\ WaitsSound /\ SyncTypeInv' /\ Table
           /\ f = current /\ f \in procs
           /\ exited \subseteq procs => exited = {}
<1>1. WaitsSound /\ Table /\ SyncTypeInv'
  BY Basics, TableFacts, TypesKept DEF SInv
<1>2. f = current /\ f \in procs /\ cpu = f
  BY FlowFacts
<1>3. exited \subseteq procs => exited = {}
  BY <1>2 DEF SInv, SBase
<1> QED
  BY <1>1, <1>2, <1>3

\* wait_event and join_thread up to block_current.
LEMMA SleepSInv ==
    ASSUME SInv, ~Stray, NEW f \in Pid, SyncStep(f),
           NEW o \in Objects, o \notin signaled, Free(f), Has(o), BlockCurrent,
           waiters' = [waiters EXCEPT ![o] = Append(@, current)],
           inCall' = [inCall EXCEPT ![f] = o],
           UNCHANGED <<procs, exited, hold, manual, signaled>>
    PROVE  SInv'
<1>1. f \notin exited /\ User(f) /\ f # Idle /\ inCall[f] = 0
  BY DEF Free, User, Executing
<1>2. /\ WaitsSound /\ SyncTypeInv' /\ Table /\ f = current /\ f \in procs
  BY SMTT(30), <1>1, LiveStep
<1>3. hold[f][o] > 0
  BY <1>2 DEF Has
<1>4. Effect({current}, {})
  BY Zenon, <1>1, BlockEffect
<1>5. SBase'
  <2>1. \A p \in Pid : inCall'[p] # 0 => inCall[p] # 0 \/ (p = f /\ f # Idle /\ f \notin exited)
    BY ZenonT(30), <1>1, <1>2 DEF WaitsSound, SyncTypeInv
  <2>2. Idle \notin {current}
    BY <1>1, <1>2
  <2>3. exited' = exited /\ procs \subseteq procs'
    OBVIOUS
  <2> QED BY Zenon, <1>4, <2>1, <2>2, <2>3, BaseStep
<1>6. Table'
  BY <1>5 DEF SBase, IInv, Table
<1>7. WaitsSound'
  BY Zenon, <1>1, <1>2, <1>3, <1>4, <1>6, SleepStep
<1> QED
  BY SMTT(30), <1>5, <1>7 DEF SInv

\* wait_event and join_thread after the wakeup.
LEMMA DoneSInv ==
    ASSUME SInv, ~Stray, NEW f \in Pid, SyncStep(f),
           NEW o \in Objects, inCall[f] = o, inCall' = [inCall EXCEPT ![f] = 0],
           signaled' \subseteq signaled, o \in signaled' => o \in manual,
           \/ UNCHANGED waiters
           \/ /\ waiters' = [waiters EXCEPT ![o] = Without(@, current)]
              /\ current \in Range(waiters[o]),
           UNCHANGED vars, UNCHANGED <<hold, manual>>
    PROVE  SInv'
<1>1. f \notin exited
  <2>1. inCall[f] # 0
    BY ObjectFacts DEF SInv
  <2> QED BY <2>1 DEF SInv, SBase
<1>2. WaitsSound /\ SyncTypeInv' /\ Table /\ f = current /\ f \in procs
  BY SMTT(30), <1>1, LiveStep
<1>3. SBase'
  <2>1. Effect({}, {})
    BY StillEffect
  <2>2. \A p \in Pid : inCall'[p] # 0 => inCall[p] # 0
    BY <1>2, ObjectFacts
  <2>3. UNCHANGED <<exited, procs>>
    BY DEF vars
  <2> QED BY <2>1, <2>2, <2>3, BaseStep
<1>4. Table'
  BY <1>3 DEF SBase, IInv, Table
<1>5. WaitsSound'
  <2>1. \A s \in Seq(Pid) : Range(Without(s, f)) = Range(s) \ {f}
    BY WithoutFacts
  <2> QED BY Zenon, <1>1, <1>2, <1>4, <2>1, DoneStep
<1> QED
  BY <1>3, <1>5 DEF SInv

\* signal_event.
LEMMA SignalSInv ==
    ASSUME SInv, ~Stray, NEW f \in Pid, SyncStep(f), NEW e \in Events, SignalEvent(f, e)
    PROVE  SInv'
<1>1. f \notin exited /\ UNCHANGED <<procs, exited, current, inCall>>
  BY Zenon DEF SignalEvent, Free, User, Executing
<1>2. /\ WaitsSound /\ SyncTypeInv' /\ Table /\ f = current /\ f \in procs
      /\ exited \subseteq procs => exited = {}
  BY <1>1, LiveStep
<1>3. PICK W : state' = Unblock(state, W)
  BY DEF SignalEvent
<1>4. Effect({}, W)
  BY SMTT(30), <1>1, <1>2, <1>3, WakeEffect
<1>5. SBase'
  BY <1>1, <1>4, BaseStep
<1>6. Table'
  BY <1>5 DEF SBase, IInv, Table
<1>7. WaitsSound'
  BY SMTT(30), <1>1, <1>2, <1>6, SignalStep
<1> QED
  BY <1>5, <1>7 DEF SInv

\* exit and exit_thread.
LEMMA DyingSInv ==
    ASSUME SInv, ~Stray, NEW f \in Pid, SyncStep(f),
           Free(f), NEW D \in SUBSET Objects, NEW W, TerminateCurrent(W),
           \A o \in D : Range(waiters[o]) \subseteq W,
           waiters' = [o \in Objects |-> IF o \in D THEN <<>> ELSE waiters[o]],
           hold' = [hold EXCEPT ![current] = [o \in Objects |-> 0]],
           exited' = exited \cup {f}, UNCHANGED <<procs, cpu, manual, signaled, inCall>>
    PROVE  SInv'
<1>1. User(f) /\ f \notin exited /\ inCall[f] = 0
  BY SMTT(30) DEF Free, User, Executing
<1>2. WaitsSound /\ SyncTypeInv' /\ Table /\ f = current /\ f \in procs
  BY SMTT(30), <1>1, LiveStep
<1>3. Effect({}, W) /\ state'[f] = "Terminated"
  BY <1>1, ExitEffect
<1>4. SBase'
  <2>1. inCall'[f] = 0 /\ UNCHANGED <<procs, cpu>>
    BY Zenon, <1>1
  <2> QED BY Zenon, <1>1, <1>3, <2>1, BaseStep
<1>5. Table'
  BY ZenonT(30), <1>4 DEF SBase, IInv, Table
<1>6. WaitsSound'
  BY Zenon, <1>1, <1>2, <1>3, <1>5, DyingStep
<1> QED
  BY SMTT(30), <1>4, <1>6 DEF SInv

\* exit wakes the waiters of the objects the process holds.
LEMMA ExitSInv ==
    ASSUME SInv, ~Stray, NEW f \in Pid, SyncStep(f), SyncExit(f)
    PROVE  SInv'
<1> DEFINE W == (UNION {Range(waiters[o]) : o \in Held}) \cup {}
<1>1. TerminateCurrent(W)
  BY Zenon DEF SyncExit, Terminate
<1>2. \A o \in Held : Range(waiters[o]) \subseteq W
  OBVIOUS
<1>3. Held \in SUBSET Objects
  BY DEF Held
<1> HIDE DEF W
<1> QED BY Zenon, <1>1, <1>2, <1>3, DyingSInv DEF SyncExit, Terminate

\* exit_thread also wakes who joins the thread, if anybody knows it.
LEMMA ExitThreadSInv ==
    ASSUME SInv, ~Stray, NEW f \in Pid, SyncStep(f), ExitThread(f)
    PROVE  SInv'
<1> DEFINE known == \E p \in procs : hold[p][current] > 0
           more == IF known THEN Range(waiters[current]) ELSE {}
           W == (UNION {Range(waiters[o]) : o \in Held}) \cup more
           D == {o \in Objects : o \in Held \/ (known /\ o = current)}
<1>1. TerminateCurrent(W)
  BY SMTT(30) DEF ExitThread, Terminate
<1>2. waiters' = [o \in Objects |-> IF o \in D THEN <<>> ELSE waiters[o]]
  BY DEF ExitThread
<1> HIDE DEF known
<1>3. \A o \in D : Range(waiters[o]) \subseteq W
  <2>1. known => more = Range(waiters[current])
    OBVIOUS
  <2> HIDE DEF more
  <2>2. \A o \in Held : Range(waiters[o]) \subseteq W
    OBVIOUS
  <2>3. more \subseteq W
    OBVIOUS
  <2>4. \A o \in D : o \in Held \/ (known /\ o = current)
    OBVIOUS
  <2> HIDE DEF W, D
  <2> QED BY <2>1, <2>2, <2>3, <2>4
<1>4. D \in SUBSET Objects
  OBVIOUS
<1> HIDE DEF W, D
<1> QED BY ZenonT(30), <1>1, <1>2, <1>3, <1>4, DyingSInv DEF ExitThread, Terminate

\* Every step preserves the invariant.
LEMMA NextSInv ==
    ASSUME SInv, ~Stray, [SyncNext]_allVars
    PROVE  SInv'
<1>1. CASE UNCHANGED allVars
  BY <1>1, StutterSInv
<1>2. ASSUME NEW f \in Pid, SyncStep(f)
      PROVE  SInv'
  <2>0. Events \subseteq Objects /\ Pid \subseteq Objects /\ signaled \subseteq Events /\ Events \cap Pid = {}
    BY ObjectFacts DEF SInv, Objects
  <2>1. ASSUME NEW e \in Events, WaitEvent(f, e)
        PROVE  SInv'
    <3>1. CASE e \in signaled
      BY SMTT(30), <1>2, <2>1, <3>1, QuietSteps
    <3>2. CASE e \notin signaled
      BY <1>2, <2>0, <2>1, <3>2, SleepSInv DEF WaitEvent
    <3> QED BY <3>1, <3>2
  <2>2. ASSUME NEW t \in Pid, JoinThread(f, t)
        PROVE  SInv'
    <3>1. t \in Objects /\ t \notin signaled
      BY <2>0
    <3> QED BY Zenon, <1>2, <2>2, <3>1, SleepSInv DEF JoinThread
  <2>3. CASE WaitEventDone(f)
    <3>1. inCall[f] \in Objects /\ inCall' = [inCall EXCEPT ![f] = 0] /\ UNCHANGED vars
          /\ UNCHANGED <<hold, manual>>
      BY <2>0, <2>3 DEF WaitEventDone
    <3>2. signaled' \subseteq signaled /\ (inCall[f] \in signaled' => inCall[f] \in manual)
      BY <2>3 DEF WaitEventDone, Consume
    <3>3. \/ UNCHANGED waiters
          \/ /\ waiters' = [waiters EXCEPT ![inCall[f]] = Without(@, current)]
             /\ current \in Range(waiters[inCall[f]])
      BY <2>3 DEF WaitEventDone
    <3> QED BY Zenon, <1>2, <3>1, <3>2, <3>3, DoneSInv
  <2>4. CASE JoinThreadDone(f)
    <3>1. /\ inCall[f] \in Pid /\ inCall' = [inCall EXCEPT ![f] = 0] /\ UNCHANGED vars
          /\ UNCHANGED <<hold, manual, signaled, waiters>>
      BY <2>4 DEF JoinThreadDone
    <3>2. inCall[f] \in Objects /\ inCall[f] \notin signaled
      BY <2>0, <3>1
    <3> QED BY Zenon, <1>2, <3>1, <3>2, DoneSInv
  <2> QED
    BY Zenon, <1>2, <2>1, <2>2, <2>3, <2>4, SignalSInv, ExitSInv, ExitThreadSInv, QuietSteps DEF SyncStep
<1> QED
  BY <1>1, <1>2 DEF SyncNext

\* In every reachable state of the kernel with any number of processes, threads
\* and events: whoever sleeps in wait_event or join_thread is in the list of its
\* object and keeps a handle to it, nobody sleeps on a signaled manual-reset
\* event, and up to the first trap after an exit nobody is left asleep beside the
\* signal of an auto-reset event with no one on the way to take it.
THEOREM WaitsAlwaysSound ==
    ASSUME ~Stray
    PROVE  SyncSpec => []WaitsSound
<1>1. SInv => WaitsSound
  BY DEF SInv
<1>2. SInv /\ [SyncNext]_allVars => SInv'
  BY NextSInv
<1> QED
  BY <1>1, <1>2, InitSInv, PTL DEF SyncSpec
================================================================================
