------------------------------ MODULE SyncObjects ------------------------------
(***************************************************************************)
(* Events, threads and the handles to them, on top of the scheduler: the   *)
(* syscalls of event.rs, thread.rs and cap.rs, and the part of process     *)
(* termination that releases them (ProcessResources::cleanup).             *)
(*                                                                         *)
(* An object is an event, or a thread named by the pid of its process.     *)
(* Handle tables are per process (threads have their own) and are kept as  *)
(* numbers of handles; HandleTable models slots and generations.  Since    *)
(* scheduling is cooperative, a syscall is one step up to the point where  *)
(* it calls block_current, and a second one after it is resumed.           *)
(***************************************************************************)
EXTENDS Scheduler, Sequences, Functions

CONSTANTS
    Events,         \* the events that programs create
    Shared,         \* the objects whose handles are duplicated, moved and revoked
    MaxHandles,     \* bound: handles of one process to one object
    MaxWaiters      \* bound: entries of a waiter list (stale ones included)

Objects == Events \cup Pid

ASSUME SyncAssumption ==
    /\ Events \cap (Pid \cup {0}) = {}
    /\ Shared \subseteq Objects
    /\ MaxHandles \in Nat \ {0}
    /\ MaxWaiters \in Nat \ {0}

VARIABLES
    hold,       \* handle_table of each process: number of handles per object
    created,    \* events that exist
    manual,     \* EventInner::manual_reset
    signaled,   \* EventInner::signaled
    waiters,    \* EventInner::waiters and ThreadInner::waiters
    exitCode,   \* threads whose ThreadInner::exit_code is set
    inCall      \* the object whose wait a flow has blocked in, or 0

syncVars == <<hold, created, manual, signaled, waiters, exitCode, inCall>>
allVars == <<vars, syncVars>>

SyncTypeInv ==
    /\ hold \in [Pid -> [Objects -> 0 .. MaxHandles]]
    /\ created \subseteq Events
    /\ \A p \in Pid, e \in Events \ created : hold[p][e] = 0
    /\ manual \subseteq created
    /\ signaled \subseteq created
    /\ waiters \in [Objects -> Seq(Pid)]
    /\ exitCode \subseteq Pid
    /\ inCall \in [Pid -> Objects \cup {0}]

SyncInit ==
    /\ Init
    /\ hold = [p \in Pid |-> [o \in Objects |-> 0]]
    /\ created = {}
    /\ manual = {}
    /\ signaled = {}
    /\ waiters = [o \in Objects |-> <<>>]
    /\ exitCode = {}
    /\ inCall = [p \in Pid |-> 0]

--------------------------------------------------------------------------------

\* A flow between two syscalls.
Free(f) == User(f) /\ inCall[f] = 0

\* A valid handle of the current process to o (with_handle_mut, check_perm: a
\* handle has all permissions).
Has(o) == hold[current][o] > 0

CreateEvent(f, e) ==
    /\ Free(f)
    /\ e \in Events \ created
    /\ created' = created \cup {e}
    /\ \E flag \in BOOLEAN : manual' = IF flag THEN manual \cup {e} ELSE manual
    /\ hold' = [hold EXCEPT ![current][e] = 1]
    /\ UNCHANGED <<vars, signaled, waiters, exitCode, inCall>>

\* One wait returns success: an auto-reset event that is signaled is reset.
Consume(e) == signaled' = IF e \in manual THEN signaled ELSE signaled \ {e}

\* Mutant: the waiter is marked Blocked and keeps the processor.
WaitEventNoSwitch(f, e) ==
    /\ Free(f)
    /\ e \in Events
    /\ Has(e)
    /\ e \notin signaled
    /\ Len(waiters[e]) < MaxWaiters
    /\ waiters' = [waiters EXCEPT ![e] = Append(@, current)]
    /\ inCall' = [inCall EXCEPT ![f] = e]
    /\ state' = SetState(state, current, "Blocked")
    /\ UNCHANGED <<procs, parent, nextPid, schedIdx, current, ctx, cpu, waitFor,
                   exited, hold, created, manual, signaled, exitCode>>

\* syscall_wait_event: the fast path, or the enqueueing and block_current (with
\* a zero timeout it returns WouldBlock instead and changes nothing).
WaitEvent(f, e) ==
    /\ Free(f)
    /\ e \in Events
    /\ Has(e)
    /\ IF e \in signaled
       THEN /\ Consume(e)
            /\ UNCHANGED <<vars, waiters, inCall>>
       ELSE /\ Len(waiters[e]) < MaxWaiters
            /\ waiters' = [waiters EXCEPT ![e] = Append(@, current)]
            /\ inCall' = [inCall EXCEPT ![f] = e]
            /\ BlockCurrent
            /\ UNCHANGED <<procs, parent, nextPid, waitFor, exited, signaled>>
    /\ UNCHANGED <<hold, created, manual, exitCode>>

\* retain(|&q| q != p) on a waiter list: the other entries, in their order.
Without(s, p) ==
    LET keep == {i \in DOMAIN s : s[i] # p}
    IN  [j \in 1 .. Cardinality(keep) |-> s[At(keep, j - 1)]]

\* syscall_wait_event after the wakeup: it succeeds when the event is signaled
\* or the waiter has been taken off the list, otherwise it removes itself and
\* returns TimedOut.  The handle is still there (SleeperQueued).
WaitEventDone(f) ==
    LET e == inCall[f]
    IN  /\ cpu = f
        /\ e \in Events
        /\ inCall' = [inCall EXCEPT ![f] = 0]
        /\ \/ /\ e \in signaled \/ current \notin Range(waiters[e])
              /\ Consume(e)
              /\ UNCHANGED waiters
           \/ /\ e \notin signaled
              /\ current \in Range(waiters[e])
              /\ waiters' = [waiters EXCEPT ![e] = Without(@, current)]
              /\ UNCHANGED signaled
        /\ UNCHANGED <<vars, hold, created, manual, exitCode>>

\* Mutant: an auto-reset event is set and nobody is woken.
SignalEventQuiet(f, e) ==
    LET woken == IF e \in manual THEN Range(waiters[e]) ELSE {}
    IN  /\ Free(f)
        /\ e \in Events
        /\ Has(e)
        /\ signaled' = signaled \cup {e}
        /\ waiters' = [waiters EXCEPT ![e] = IF e \in manual THEN <<>> ELSE @]
        /\ state' = Unblock(state, woken)
        /\ UNCHANGED <<procs, parent, nextPid, schedIdx, current, ctx, cpu, waitFor,
                       exited, hold, created, manual, exitCode, inCall>>

\* syscall_signal_event: a manual-reset event wakes every waiter, an auto-reset
\* one the waiter that came last.
SignalEvent(f, e) ==
    LET n == Len(waiters[e])
        woken == IF e \in manual THEN Range(waiters[e])
                 ELSE IF n > 0 THEN {waiters[e][n]} ELSE {}
    IN  /\ Free(f)
        /\ e \in Events
        /\ Has(e)
        /\ signaled' = signaled \cup {e}
        /\ waiters' = [waiters EXCEPT ![e] = IF e \in manual THEN <<>>
                                             ELSE IF n > 0 THEN SubSeq(@, 1, n - 1) ELSE @]
        /\ state' = Unblock(state, woken)
        /\ UNCHANGED <<procs, parent, nextPid, schedIdx, current, ctx, cpu, waitFor,
                       exited, hold, created, manual, exitCode, inCall>>

--------------------------------------------------------------------------------

\* syscall_create_thread: a process of its own whose parent is the caller, and a
\* handle to it in the caller's table.
CreateThread(f) ==
    /\ Free(f)
    /\ \E ok \in BOOLEAN : AddProcess(current, ok)
    /\ hold' = IF procs' = procs THEN hold ELSE [hold EXCEPT ![current][nextPid] = 1]
    /\ UNCHANGED <<created, manual, signaled, waiters, exitCode, inCall>>

\* syscall_join_thread up to block_current ...
JoinThread(f, t) ==
    /\ Free(f)
    /\ t \in Pid
    /\ Has(t)
    /\ t \notin exitCode
    /\ Len(waiters[t]) < MaxWaiters
    /\ waiters' = [waiters EXCEPT ![t] = Append(@, current)]
    /\ inCall' = [inCall EXCEPT ![f] = t]
    /\ BlockCurrent
    /\ UNCHANGED <<procs, parent, nextPid, waitFor, exited, hold, created, manual,
                   signaled, exitCode>>

\* ... and after the wakeup, when it returns the exit code or NoSuchProcess.
JoinThreadDone(f) ==
    /\ cpu = f
    /\ inCall[f] \in Pid
    /\ inCall' = [inCall EXCEPT ![f] = 0]
    /\ UNCHANGED <<vars, hold, created, manual, signaled, waiters, exitCode>>

\* syscall_handle_duplicate, syscall_handle_transfer (of a handle to q) and
\* syscall_handle_revoke.
Duplicate(f, o) ==
    /\ Free(f)
    /\ o \in Shared
    /\ Has(o)
    /\ hold[current][o] < MaxHandles
    /\ hold' = [hold EXCEPT ![current][o] = @ + 1]
    /\ UNCHANGED <<vars, created, manual, signaled, waiters, exitCode, inCall>>

Transfer(f, o, q) ==
    /\ Free(f)
    /\ o \in Shared
    /\ Has(o)
    /\ q \in procs \ {current}
    /\ hold[q][o] < MaxHandles
    /\ hold' = [hold EXCEPT ![current][o] = @ - 1, ![q][o] = @ + 1]
    /\ UNCHANGED <<vars, created, manual, signaled, waiters, exitCode, inCall>>

Revoke(f, o) ==
    /\ Free(f)
    /\ o \in Shared
    /\ Has(o)
    /\ hold' = [hold EXCEPT ![current][o] = @ - 1]
    /\ UNCHANGED <<vars, created, manual, signaled, waiters, exitCode, inCall>>

--------------------------------------------------------------------------------

\* terminate_process with ProcessResources::cleanup: every object of the dying
\* process loses all its waiters, also those that other processes put there, and
\* all of them are unblocked; `more' are waiters the caller has collected.
Terminate(objs, more) ==
    /\ TerminateCurrent((UNION {Range(waiters[o]) : o \in objs}) \cup more)
    /\ hold' = [hold EXCEPT ![current] = [o \in Objects |-> 0]]

Held == {o \in Objects : hold[current][o] > 0}

SyncExit(f) ==
    /\ Free(f)
    /\ f \in Exiting
    /\ Terminate(Held, {})
    /\ waiters' = [o \in Objects |-> IF o \in Held THEN <<>> ELSE waiters[o]]
    /\ exited' = exited \cup {f}
    /\ UNCHANGED <<procs, parent, nextPid, ctx, cpu, waitFor>>
    /\ UNCHANGED <<created, manual, signaled, exitCode, inCall>>

\* syscall_exit_thread: the exit code goes into every handle table that has a
\* handle to this thread.
ExitThread(f) ==
    LET known == \E p \in procs : hold[p][current] > 0
    IN  /\ Free(f)
        /\ f \in Exiting
        /\ exitCode' = IF known THEN exitCode \cup {current} ELSE exitCode
        /\ Terminate(Held, IF known THEN Range(waiters[current]) ELSE {})
        /\ waiters' = [o \in Objects |->
                           IF o \in Held \/ (known /\ o = current) THEN <<>> ELSE waiters[o]]
        /\ exited' = exited \cup {f}
        /\ UNCHANGED <<procs, parent, nextPid, ctx, cpu, waitFor>>
        /\ UNCHANGED <<created, manual, signaled, inCall>>

\* A fault drops the removed processes with their tables; waiter lists that other
\* processes share keep their entries.
SyncFault(f) ==
    /\ inCall[f] = 0
    /\ Fault(f)
    /\ hold' = [p \in Pid |-> IF p \in procs' THEN hold[p] ELSE [o \in Objects |-> 0]]
    /\ UNCHANGED <<created, manual, signaled, waiters, exitCode, inCall>>

\* The operations of the scheduler that touch no object (syscall_wait is left to
\* Scheduler).
Plain(f) ==
    /\ inCall[f] = 0
    /\ \/ Spawn(f)
       \/ Fork(f)
       \/ Yield(f)
    /\ UNCHANGED syncVars

SyncStep(f) ==
    \/ Plain(f)
    \/ \E e \in Events : CreateEvent(f, e)
    \/ \E e \in Events : WaitEvent(f, e)
    \/ WaitEventDone(f)
    \/ \E e \in Events : SignalEvent(f, e)
    \/ CreateThread(f)
    \/ \E t \in Pid : JoinThread(f, t)
    \/ JoinThreadDone(f)
    \/ \E o \in Objects : Duplicate(f, o)
    \/ \E o \in Objects, q \in Pid : Transfer(f, o, q)
    \/ \E o \in Objects : Revoke(f, o)
    \/ SyncExit(f)
    \/ ExitThread(f)
    \/ SyncFault(f)

SyncNext == \E f \in Pid : SyncStep(f)

SyncSpec == SyncInit /\ [][SyncNext]_allVars

--------------------------------------------------------------------------------

\* A process that sleeps in wait_event or join_thread is in the waiter list of
\* the object it waits for, so that a signal or an exit can find it: no path
\* takes it off the list without making it Ready, whoever runs that path.  And
\* from its call to its return it keeps a handle to that object.
SleeperQueued ==
    \A p \in procs : inCall[p] # 0 =>
        /\ state[p] = "Blocked" => p \in Range(waiters[inCall[p]])
        /\ hold[p][inCall[p]] > 0

\* Nobody sleeps on a manual-reset event that is signaled.
ManualWakesAll ==
    \A e \in manual \cap signaled :
        ~ \E p \in procs : state[p] = "Blocked" /\ inCall[p] = e

\* While no process has exited, a waiter list holds processes that sleep on its
\* object, each of them once, and the process on the processor is not asleep.
\* (An exit wakes the parent wherever it sleeps, and leaves its entry behind.)
WaitersFresh ==
    exited = {} =>
        /\ state[current] # "Blocked"
        /\ \A o \in Objects : \A i \in DOMAIN waiters[o] :
               /\ waiters[o][i] \in Sleeping
               /\ inCall[waiters[o][i]] = o
               /\ \A j \in DOMAIN waiters[o] : waiters[o][i] = waiters[o][j] => i = j

\* While an auto-reset event is signaled and somebody sleeps on it, a process
\* that was woken for it has yet to run and take the signal: a signal is never
\* left lying beside a sleeper.  This is claimed up to the first trap of a flow
\* that has already exited: such a trap kills the process that exit selected,
\* and the stale entry of a waiter killed like this can swallow a later signal.
NoLostSignal ==
    exited \subseteq procs =>
        \A e \in signaled \ manual :
            (\E p \in Sleeping : inCall[p] = e)
                => \E q \in procs : /\ inCall[q] = e
                                    /\ state[q] # "Blocked"
                                    /\ q \notin Range(waiters[e])

\* Whoever sleeps on an object can be found by its signaler and is not left
\* beside a signal that is there for the taking.
WaitsSound ==
    SyncTypeInv /\ SleeperQueued /\ ManualWakesAll /\ WaitersFresh /\ NoLostSignal

\* With respect to the process table, the syscalls on objects do nothing that
\* the abstract Block, Wake, Fork and Exit steps of Scheduler do not allow.
ImplementsScheduler == Spec

================================================================================
