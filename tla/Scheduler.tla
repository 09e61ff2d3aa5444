------------------------------- MODULE Scheduler -------------------------------
(***************************************************************************)
(* The process table and the cooperative round-robin scheduler of the      *)
(* kernel: SchedulerContext, the process life cycle of process.rs, the     *)
(* process syscalls (spawn, fork, yield, wait, exit) of both ABIs and the  *)
(* recovery path of the user-mode exception handlers.                      *)
(*                                                                         *)
(* The kernel is single-core and cooperative (scheduler_context.rs:300):   *)
(* one flow of execution, `cpu', is on the processor, and it keeps the     *)
(* processor until it yields, blocks or faults.  A flow is named after the *)
(* pid it was created for.  The pid the kernel BELIEVES to be running is   *)
(* `current' (SchedulerContext::current_pid); that the two agree is        *)
(* something to check, not something to assume.                            *)
(*                                                                         *)
(* The process list is the set `procs'.  The code keeps a vector, but pids *)
(* are handed out in increasing order, additions go to the end and every   *)
(* removal (retain) keeps the order, so the vector always holds the pids   *)
(* of the set in increasing order and an index is a number of smaller      *)
(* pids (Idx, At).                                                         *)
(***************************************************************************)
EXTENDS Integers, FiniteSets

CONSTANTS
    MaxPid,         \* bound: pids 1..MaxPid are handed out
    MaxProcs,       \* MAX_PROCESSES, the capacity of the process list
    Exiting,        \* pids whose programs may call exit
    Faulting,       \* pids whose programs may fault in user mode
    Linux,          \* pids of programs that run under the Linux ABI
    Stray           \* whether programs also make calls that no library makes:
                    \* wait4 on a pid that is not a child, syscalls after exit

ASSUME SchedulerAssumption ==
    /\ MaxPid \in Nat \ {0}
    /\ MaxProcs \in Nat \ {0}
    /\ Exiting \subseteq 2 .. MaxPid
    /\ Faulting \subseteq 2 .. MaxPid
    /\ Linux \subseteq 2 .. MaxPid
    /\ Stray \in BOOLEAN

Pid == 1 .. MaxPid

\* The idle process, the first one init() creates.  Its flow is the kernel's
\* main loop (scheduler_loop and the kernel shell), which runs in ring 0.
Idle == 1

ProcState == {"Absent", "Ready", "Running", "Blocked", "Terminated"}

VARIABLES
    procs,      \* the pids in the process list
    state,      \* Process::state, "Absent" for a pid that is not in the list
    parent,     \* Process::parent_id, 0 for None
    nextPid,    \* SchedulerContext::next_pid
    schedIdx,   \* SchedulerContext::schedule_index, counted from 0
    current,    \* SchedulerContext::current_pid
    ctx,        \* Process::context: the flow whose registers are saved there
    cpu,        \* the flow on the processor, 0 once the kernel has halted
    waitFor,    \* the pid a flow is waiting for inside syscall_wait, or 0
    exited      \* flows whose exit call has terminated its process

tableVars == <<procs, state, parent, nextPid>>
vars == <<procs, state, parent, nextPid, schedIdx, current, ctx, cpu,
          waitFor, exited>>

TypeInv ==
    /\ procs \subseteq Pid
    /\ state \in [Pid -> ProcState]
    /\ parent \in [Pid -> Pid \cup {0}]
    /\ nextPid \in 2 .. MaxPid + 1
    /\ schedIdx \in Nat
    /\ current \in Pid
    /\ ctx \in [Pid -> Pid]
    /\ cpu \in Pid \cup {0}
    /\ waitFor \in [Pid -> Pid \cup {0}]
    /\ exited \subseteq Pid

\* process::init: the idle process is added as Running and made current.
Init ==
    /\ procs = {Idle}
    /\ state = [p \in Pid |-> IF p = Idle THEN "Running" ELSE "Absent"]
    /\ parent = [p \in Pid |-> 0]
    /\ nextPid = 2
    /\ schedIdx = 0
    /\ current = Idle
    /\ ctx = [p \in Pid |-> p]
    /\ cpu = Idle
    /\ waitFor = [p \in Pid |-> 0]
    /\ exited = {}

--------------------------------------------------------------------------------
(* The process list as a vector: ranks and positions.                      *)

Idx(l, p) == Cardinality({q \in l : q < p})
At(l, i) == CHOOSE p \in l : Idx(l, p) = i
Clamp(l, i) == IF i < Cardinality(l) THEN i ELSE Cardinality(l) - 1

\* How many steps after index i the round-robin scan looks at p: the slot
\* after i comes first and slot i itself comes last.
ScanDistance(l, i, p) ==
    IF Idx(l, p) > i THEN Idx(l, p) - i ELSE Idx(l, p) - i + Cardinality(l)

\* Mutant: always the lowest Ready pid.
PickLowest(l, st, i) ==
    LET ready == {p \in l : st[p] = "Ready"}
    IN  IF ready # {} THEN CHOOSE p \in ready : \A q \in ready : p <= q
        ELSE IF Idle \in l THEN Idle ELSE At(l, i)

\* The first Ready process of the scan, else idle, else the process the
\* scan started from.
PickNext(l, st, i) ==
    LET ready == {p \in l : st[p] = "Ready"}
    IN  IF ready # {}
        THEN CHOOSE p \in ready :
                 \A q \in ready : ScanDistance(l, i, p) <= ScanDistance(l, i, q)
        ELSE IF Idle \in l THEN Idle ELSE At(l, i)

\* Mutant: the selected process is not promoted to Running.
ScheduleNextNoPromotion(l, st) ==
    LET old == At(l, Clamp(l, schedIdx))
        new == PickNext(l, st, Clamp(l, schedIdx))
    IN  IF l = {}
        THEN [old |-> 0, new |-> 0, idx |-> schedIdx, cur |-> current, st |-> st]
        ELSE [old |-> old, new |-> new, idx |-> Idx(l, new), cur |-> new,
              st |-> [st EXCEPT ![old] = IF @ = "Running" THEN "Ready" ELSE @]]

\* SchedulerContext::schedule_next on the list l with states st: the pid it
\* takes for the outgoing one, the pid it chooses, and what it leaves in
\* schedule_index, current_pid and the states.  An empty list changes nothing.
ScheduleNext(l, st) ==
    LET old == At(l, Clamp(l, schedIdx))
        new == PickNext(l, st, Clamp(l, schedIdx))
    IN  IF l = {}
        THEN [old |-> 0, new |-> 0, idx |-> schedIdx, cur |-> current, st |-> st]
        ELSE [old |-> old, new |-> new, idx |-> Idx(l, new), cur |-> new,
              st  |-> IF old = new THEN st
                      ELSE [st EXCEPT
                               ![old] = IF @ = "Running" THEN "Ready" ELSE @,
                               ![new] = "Running"]]

Scheduled(r) ==
    /\ state' = r.st
    /\ schedIdx' = r.idx
    /\ current' = r.cur

\* Mutant: the outgoing registers are saved in the incoming context.
ContextSwitchSwapped(l, old, new) ==
    IF old = new \/ new \notin l
    THEN UNCHANGED <<ctx, cpu>>
    ELSE cpu' = ctx[new] /\ ctx' = [ctx EXCEPT ![new] = cpu]

\* SchedulerContext::context_switch from old (0 for None) to new: the flow on
\* the processor is saved in old's context, the one saved in new's resumes.
\* The flow saved under new is picked before the lock is dropped.
ContextSwitch(l, old, new) ==
    IF old = new \/ new \notin l
    THEN UNCHANGED <<ctx, cpu>>
    ELSE /\ cpu' = ctx[new]
         /\ ctx' = IF old \in l THEN [ctx EXCEPT ![old] = cpu] ELSE ctx

\* process::unblock_process for every pid of W.
Unblock(st, W) ==
    [p \in Pid |-> IF p \in W /\ st[p] = "Blocked" THEN "Ready" ELSE st[p]]

SetState(st, p, s) == IF p \in procs THEN [st EXCEPT ![p] = s] ELSE st

\* SchedulerContext::block_current: the outgoing context is the one at
\* schedule_index, which need not be the current process.
BlockCurrent ==
    LET r == ScheduleNext(procs, SetState(state, current, "Blocked"))
    IN  /\ Scheduled(r)
        /\ ContextSwitch(procs, r.old, r.new)

--------------------------------------------------------------------------------
(* What the flow on the processor may do.  A flow inside syscall_wait can   *)
(* only go on with that call, one whose exit has returned only spins.       *)

Executing(f) ==
    /\ cpu = f
    /\ waitFor[f] = 0
    /\ f \in exited => Stray /\ f \notin Linux
User(f) == f # Idle /\ Executing(f)
Sleeping == {p \in procs : state[p] = "Blocked"}

\* Mutant: the lowest pid that is not in use.
AddProcessReuse(par, ok) ==
    /\ nextPid <= MaxPid
    /\ nextPid' = nextPid + 1
    /\ LET pid == CHOOSE p \in Pid \ procs : \A q \in Pid \ procs : p <= q
       IN  IF ok /\ Cardinality(procs) < MaxProcs
           THEN /\ procs' = procs \cup {pid}
                /\ state' = [state EXCEPT ![pid] = "Ready"]
                /\ parent' = [parent EXCEPT ![pid] = par]
           ELSE UNCHANGED <<procs, state, parent>>
    /\ UNCHANGED <<schedIdx, current, ctx, cpu, waitFor, exited>>

\* SchedulerContext::add of a new Ready process, or the failure of one of the
\* allocations before it.  The pid is used up either way (a fork that fails
\* before it takes a pid changes nothing).
AddProcess(par, ok) ==
    /\ nextPid <= MaxPid
    /\ nextPid' = nextPid + 1
    /\ IF ok /\ Cardinality(procs) < MaxProcs
       THEN /\ procs' = procs \cup {nextPid}
            /\ state' = [state EXCEPT ![nextPid] = "Ready"]
            /\ parent' = [parent EXCEPT ![nextPid] = par]
       ELSE UNCHANGED <<procs, state, parent>>
    /\ UNCHANGED <<schedIdx, current, ctx, cpu, waitFor, exited>>

\* create_process, from the kernel shell or from syscall_spawn: no parent.
Spawn(f) == Executing(f) /\ \E ok \in BOOLEAN : AddProcess(0, ok)

\* syscall_fork and sys_clone.
Fork(f) == User(f) /\ \E ok \in BOOLEAN : AddProcess(current, ok)

\* Mutant: schedules without switching.
YieldNoSwitch(f) ==
    /\ Executing(f)
    /\ Scheduled(ScheduleNext(procs, state))
    /\ UNCHANGED <<procs, parent, nextPid, waitFor, exited, ctx, cpu>>

\* process::yield_current.
Yield(f) ==
    /\ Executing(f)
    /\ LET r == ScheduleNext(procs, state)
       IN  /\ Scheduled(r)
           /\ ContextSwitch(procs, current, r.cur)
    /\ UNCHANGED <<procs, parent, nextPid, waitFor, exited>>

\* A blocking syscall other than wait (wait_event, join_thread): the caller
\* has entered itself in some waiter list and calls block_current.
Block(f) ==
    /\ User(f)
    /\ BlockCurrent
    /\ UNCHANGED <<procs, parent, nextPid, waitFor, exited>>

\* A syscall that wakes the waiters W of some object (signal_event, channel_send).
Wake(f, W) ==
    /\ Executing(f)
    /\ state' = Unblock(state, W)
    /\ UNCHANGED <<procs, parent, nextPid, schedIdx, current, ctx, cpu,
                   waitFor, exited>>

\* syscall_wait(p) for p # 0 is entered ...
WaitCall(f, p) ==
    /\ User(f)
    /\ f \notin Linux
    /\ p < nextPid
    /\ waitFor' = [waitFor EXCEPT ![f] = p]
    /\ UNCHANGED <<procs, state, parent, nextPid, schedIdx, current, ctx, cpu,
                   exited>>

\* ... and runs one turn of its loop: it returns when p is gone or Terminated,
\* otherwise it blocks and looks again after the wakeup.
WaitTurn(f) ==
    /\ cpu = f
    /\ waitFor[f] # 0
    /\ IF state[waitFor[f]] \in {"Absent", "Terminated"}
       THEN /\ waitFor' = [waitFor EXCEPT ![f] = 0]
            /\ UNCHANGED <<state, schedIdx, current, ctx, cpu>>
       ELSE /\ BlockCurrent
            /\ UNCHANGED waitFor
    /\ UNCHANGED <<procs, parent, nextPid, exited>>

\* Mutant: the waiting parent is not unblocked.
TerminateCurrentSilent(W) ==
    LET dies == current \in procs /\ current # Idle
    IN  Scheduled(ScheduleNext(procs,
            IF dies THEN Unblock([state EXCEPT ![current] = "Terminated"], W) ELSE state))

\* process::terminate_process(current): W are the waiters that the resources
\* of the dying process release.  schedule_next runs, but no context switch:
\* the call returns to the flow that made it.
TerminateCurrent(W) ==
    LET dies == current \in procs /\ current # Idle
        st1  == IF dies THEN Unblock([state EXCEPT ![current] = "Terminated"], W)
                ELSE state
        st2  == IF current \in procs THEN Unblock(st1, {parent[current]}) ELSE st1
    IN  Scheduled(ScheduleNext(procs, st2))

\* syscall_exit.  What follows the call in a program is an endless loop (the
\* user-space wrappers) or a trap (code the compiler takes for unreachable), and
\* only in a stray program another syscall; sys_exit of the Linux ABI halts
\* inside the kernel.
Exit(f) ==
    /\ User(f)
    /\ f \in Exiting
    /\ \E W \in SUBSET Sleeping : TerminateCurrent(W)
    /\ exited' = exited \cup {f}
    /\ UNCHANGED <<procs, parent, nextPid, ctx, cpu, waitFor>>

\* A user-mode exception: terminate_and_recover marks the current process, the
\* recovery trampoline removes every Terminated process, schedules and leaves
\* the faulting flow for good.  Without a process to switch to it halts.
Fault(f) ==
    /\ cpu = f
    /\ f \in Faulting
    /\ waitFor[f] = 0
    /\ f \in exited => f \notin Linux
    /\ LET st   == SetState(state, current, "Terminated")
           left == {p \in procs : st[p] # "Terminated"}
           kept == [p \in Pid |-> IF p \in left THEN st[p] ELSE "Absent"]
           r    == ScheduleNext(left, kept)
       IN  /\ procs' = left
           /\ Scheduled(r)
           /\ cpu' = IF r.cur \in left THEN ctx[r.cur] ELSE 0
    /\ UNCHANGED <<parent, nextPid, ctx, waitFor, exited>>

Reap(p) ==
    /\ procs' = procs \ {p}
    /\ state' = SetState(state, p, "Absent")

\* sys_wait4(pid <= 0): reaps the first terminated child; with none it returns
\* at once (WNOHANG) or blocks and returns after the wakeup.
LinuxWaitAny(f) ==
    LET dead == {p \in procs : parent[p] = current /\ state[p] = "Terminated"}
    IN  /\ User(f)
        /\ f \in Linux
        /\ \/ /\ dead # {}
              /\ Reap(CHOOSE p \in dead : \A q \in dead : p <= q)
              /\ UNCHANGED <<schedIdx, current, ctx, cpu>>
           \/ /\ dead = {}
              /\ BlockCurrent
              /\ UNCHANGED procs
        /\ UNCHANGED <<parent, nextPid, waitFor, exited>>

\* sys_wait4(p) for p > 0 drops p from the list, whatever its state and
\* whoever its parent.
LinuxWait(f, p) ==
    /\ User(f)
    /\ f \in Linux
    /\ Stray \/ parent[p] = current
    /\ Reap(p)
    /\ UNCHANGED <<parent, nextPid, schedIdx, current, ctx, cpu, waitFor, exited>>

Step(f) ==
    \/ Spawn(f)
    \/ Fork(f)
    \/ Yield(f)
    \/ Block(f)
    \/ \E W \in SUBSET Sleeping : Wake(f, W)
    \/ \E p \in Pid : WaitCall(f, p)
    \/ WaitTurn(f)
    \/ Exit(f)
    \/ Fault(f)
    \/ LinuxWaitAny(f)
    \/ \E p \in Pid : LinuxWait(f, p)

Next == \E f \in Pid : Step(f)

Spec == Init /\ [][Next]_vars

--------------------------------------------------------------------------------

\* The vector index and the pid of the current process stay in step: whenever
\* schedule_next or block_current reads schedule_index, it finds the current
\* process there (the two are separate atomics, and the list can shrink).
IndexTracksCurrent == cpu # 0 => current \in procs /\ schedIdx = Idx(procs, current)

\* At most one process is in state Running, and it is the current one.
OneRunning == \A p \in procs : state[p] = "Running" => p = current

\* A context slot only ever holds the registers of its own process, so that a
\* context switch resumes the process it selected.
ContextOwn == \A p \in procs : ctx[p] = p

\* The flow on the processor runs under its own pid, unless its process has
\* exited (terminate_process schedules but does not switch).
CpuIsCurrent == cpu \in {0, current} \cup exited

\* The process table is consistent: types, index, the Running process, contexts
\* and the flow on the processor agree after every path that schedules.
SchedulerSound ==
    TypeInv /\ IndexTracksCurrent /\ OneRunning /\ ContextOwn /\ CpuIsCurrent

\* A parent is never left blocked in syscall_wait for a child that is already
\* Terminated or gone: terminate_process wakes it, and no wakeup is lost
\* between the parent's check of the child and its block_current.
NoLostWait ==
    \A p \in procs :
        (state[p] = "Blocked" /\ waitFor[p] # 0 /\ parent[waitFor[p]] = p)
            => state[waitFor[p]] \notin {"Terminated", "Absent"}

\* A pid is never used twice: one that has been handed out and is not in the
\* list (removed, or its creation failed) stays out, so a pid that a parent or a
\* waiter list still holds never names another process.
NoPidReuse ==
    [][\A p \in Pid : (state[p] = "Absent" /\ p < nextPid) => state'[p] = "Absent"]_vars

\* Round robin: every time the scheduler moves on, a Ready process that it
\* passes over has come closer to its turn.
RoundRobin ==
    [][current' # current =>
          \A p \in procs \cap procs' :
              (state[p] = "Ready" /\ state'[p] = "Ready") =>
                  ScanDistance(procs', schedIdx', p) < ScanDistance(procs, schedIdx, p)]_vars

\* The idle process is always in the list, and never Terminated.
IdleSurvives == Idle \in procs /\ state[Idle] # "Terminated"

\* The current process is in state Running ("Process is currently running",
\* process.rs), whatever schedule_next had to choose from.
CurrentIsRunning == state[current] = "Running"

\* Programs yield again and again (scheduler_loop and the shell do after every
\* command), and a flow in syscall_wait takes the next turn of its loop when it
\* is on the processor.
Fairness == SF_vars(\E f \in Pid : Yield(f)) /\ WF_vars(\E f \in Pid : WaitTurn(f))
FairSpec == Spec /\ Fairness

\* Every Ready process gets the processor, or is removed, unless the flow of an
\* exited process holds the processor: that flow spins and never yields.
ReadyRuns ==
    \A p \in Pid : (state[p] = "Ready") ~> (cpu = p \/ state[p] = "Absent" \/ cpu \in exited)

================================================================================
