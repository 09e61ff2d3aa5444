---------------------------- MODULE SchedulerProof -----------------------------
(***************************************************************************)
(* Proofs about the scheduler, for every number of pids and every capacity *)
(* of the process list.                                                    *)
(***************************************************************************)
EXTENDS Scheduler, FiniteSetTheorems, WellFoundedInduction, TLAPS

--------------------------------------------------------------------------------
(* The process list as a vector.                                           *)

\* A set of naturals has a least element.
LEMMA MinExists ==
    ASSUME NEW S \in SUBSET Nat, S # {}
    PROVE  \E x \in S : \A y \in S : x <= y
<1>1. PICK x \in S : \A y \in S : ~ (<<y, x>> \in OpToRel(<, Nat))
  BY Zenon, NatLessThanWellFounded, WFMin
<1>2. \A y \in S : ~ (y < x)
  BY Zenon, <1>1 DEF OpToRel
<1> QED
  BY <1>2

\* A process list, a set of pids, is finite.
LEMMA PidFinite ==
    ASSUME NEW l \in SUBSET Pid
    PROVE  /\ l \in SUBSET Nat /\ IsFiniteSet(l)
           /\ Cardinality(l) \in Nat
<1>1. IsFiniteSet(Pid)
  BY FS_Interval, SchedulerAssumption DEF Pid
<1>2. Pid \subseteq Nat
  BY SchedulerAssumption DEF Pid
<1> QED
  BY <1>1, <1>2, FS_Subset, FS_CardinalityType

\* A part of a finite set of numbers is one too.
LEMMA PartFinite ==
    ASSUME NEW l \in SUBSET Nat, IsFiniteSet(l), NEW m \in SUBSET l
    PROVE  /\ IsFiniteSet(m) /\ Cardinality(m) \in Nat /\ Cardinality(l) \in Nat
           /\ Cardinality(m) <= Cardinality(l)
           /\ m # l => Cardinality(m) < Cardinality(l)
<1>1. IsFiniteSet(m) /\ Cardinality(m) \in Nat /\ Cardinality(l) \in Nat
  BY FS_Subset, FS_CardinalityType
<1>2. Cardinality(m) <= Cardinality(l) /\ (Cardinality(m) = Cardinality(l) => m = l)
  BY FS_Subset
<1> QED
  BY <1>1, <1>2

\* The rank of a number in a finite set is below the size of the set.
LEMMA RankRange ==
    ASSUME NEW l \in SUBSET Nat, IsFiniteSet(l), NEW p \in l
    PROVE  Idx(l, p) \in 0 .. Cardinality(l) - 1
<1> DEFINE below == {q \in l : q < p}
<1>1. below \in SUBSET l /\ below # l
  OBVIOUS
<1> QED
  BY <1>1, PartFinite DEF Idx

\* A larger number has a higher rank.
LEMMA RankOrder ==
    ASSUME NEW l \in SUBSET Nat, IsFiniteSet(l), NEW p \in l, NEW q \in l, p < q
    PROVE  Idx(l, p) < Idx(l, q)
<1> DEFINE bp == {r \in l : r < p}
           bq == {r \in l : r < q}
<1>1. bp \in SUBSET bq /\ bp # bq /\ bq \in SUBSET l
  <2>1. p \in bq /\ p \notin bp
    OBVIOUS
  <2>2. \A r \in l : r < p => r < q
    OBVIOUS
  <2> QED BY <2>1, <2>2
<1> HIDE DEF bp, bq
<1>2. IsFiniteSet(bq) /\ bq \in SUBSET Nat
  BY <1>1, PartFinite
<1>3. Cardinality(bp) < Cardinality(bq)
  BY <1>1, <1>2, PartFinite
<1> QED
  BY <1>3 DEF Idx, bp, bq

\* Different numbers have different ranks.
LEMMA RankEqual ==
    ASSUME NEW l \in SUBSET Nat, IsFiniteSet(l), NEW p \in l, NEW q \in l,
           Idx(l, p) = Idx(l, q)
    PROVE  p = q
<1>1. Idx(l, p) \in Int /\ Idx(l, q) \in Int
  BY RankRange
<1>2. ~ (p < q)
  BY <1>1, RankOrder
<1>3. ~ (q < p)
  BY <1>1, RankOrder
<1> QED
  BY <1>2, <1>3

\* Every rank below the size of a finite set is the rank of one of its members.
LEMMA RankExists ==
    ASSUME NEW l \in SUBSET Nat, IsFiniteSet(l), NEW i \in 0 .. Cardinality(l) - 1
    PROVE  At(l, i) \in l /\ Idx(l, At(l, i)) = i
<1>0. Cardinality(l) \in Nat
  BY FS_CardinalityType
<1>1. \E p \in l : Idx(l, p) = i
  <2> SUFFICES ASSUME \A p \in l : Idx(l, p) # i PROVE FALSE
    OBVIOUS
  <2> DEFINE R == 0 .. Cardinality(l) - 1
             f == [p \in l |-> Idx(l, p)]
  <2>1. IsFiniteSet(R) /\ Cardinality(R) = Cardinality(l)
    BY <1>0, FS_Interval
  <2>2. IsFiniteSet(R \ {i}) /\ Cardinality(R \ {i}) = Cardinality(l) - 1
    BY Zenon, <2>1, FS_RemoveElement
  <2>3. f \in [l -> R \ {i}]
    BY RankRange
  <2>4. Cardinality(R \ {i}) < Cardinality(l)
    BY <2>2, <1>0
  <2>5. PICK x, y \in l : x # y /\ f[x] = f[y]
    <3> HIDE DEF f, R
    <3> QED BY <1>0, <2>2, <2>3, <2>4, FS_PigeonHole
  <2> QED
    BY <2>5, RankEqual
<1> QED
  BY <1>1 DEF At

\* The member that has the rank of p is p.
LEMMA RankAt ==
    ASSUME NEW l \in SUBSET Nat, IsFiniteSet(l), NEW p \in l
    PROVE  At(l, Idx(l, p)) = p
<1>1. Idx(l, p) \in 0 .. Cardinality(l) - 1
  BY RankRange
<1>2. At(l, Idx(l, p)) \in l /\ Idx(l, At(l, Idx(l, p))) = Idx(l, p)
  BY <1>1, RankExists
<1> DEFINE q == At(l, Idx(l, p))
<1>3. q \in l /\ Idx(l, q) = Idx(l, p)
  BY <1>2
<1> HIDE DEF q
<1>4. q = p
  BY <1>3, RankEqual
<1> QED
  BY <1>4 DEF q

\* The position of a process in the list is below the list's length.
LEMMA IdxRange ==
    ASSUME NEW l \in SUBSET Pid, NEW p \in l
    PROVE  Idx(l, p) \in 0 .. Cardinality(l) - 1
<1>1. l \in SUBSET Nat /\ IsFiniteSet(l)
  BY PidFinite
<1> QED
  BY <1>1, RankRange

\* A process created later stands later in the list.
LEMMA IdxInjective ==
    ASSUME NEW l \in SUBSET Pid, NEW p \in l, NEW q \in l, p < q
    PROVE  Idx(l, p) < Idx(l, q)
<1>1. l \in SUBSET Nat /\ IsFiniteSet(l)
  BY PidFinite
<1> QED
  BY <1>1, RankOrder

\* Two processes of the list have different positions.
LEMMA IdxEqual ==
    ASSUME NEW l \in SUBSET Pid, NEW p \in l, NEW q \in l, Idx(l, p) = Idx(l, q)
    PROVE  p = q
<1>1. l \in SUBSET Nat /\ IsFiniteSet(l)
  BY PidFinite
<1> QED
  BY <1>1, RankEqual

\* Every position below the length holds a process.
LEMMA AtExists ==
    ASSUME NEW l \in SUBSET Pid, NEW i \in 0 .. Cardinality(l) - 1
    PROVE  At(l, i) \in l /\ Idx(l, At(l, i)) = i
<1>1. l \in SUBSET Nat /\ IsFiniteSet(l)
  BY PidFinite
<1> QED
  BY <1>1, RankExists

\* The process at a process's position is that process.
LEMMA AtIdx ==
    ASSUME NEW l \in SUBSET Pid, NEW p \in l
    PROVE  At(l, Idx(l, p)) = p
<1>1. l \in SUBSET Nat /\ IsFiniteSet(l)
  BY PidFinite
<1> QED
  BY <1>1, RankAt

\* The clamped round-robin index stays inside the list.
LEMMA ClampRange ==
    ASSUME NEW l \in SUBSET Pid, l # {}, NEW i \in Nat
    PROVE  /\ Clamp(l, i) \in 0 .. Cardinality(l) - 1
           /\ i < Cardinality(l) => Clamp(l, i) = i
<1>1. Cardinality(l) \in Nat /\ Cardinality(l) # 0
  BY PidFinite, FS_EmptySet
<1> QED
  BY <1>1 DEF Clamp

\* The three ways schedule_next finds its next process, each of which is in the
\* list: a Ready one, idle, or the one at schedule_index.
LEMMA PickCases ==
    ASSUME NEW l \in SUBSET Pid, l # {}, NEW st \in [Pid -> ProcState],
           NEW i \in 0 .. Cardinality(l) - 1
    PROVE  LET new == PickNext(l, st, i)
           IN  /\ new \in l
               /\ st[new] = "Ready" \/ new = Idle \/ new = At(l, i)
               /\ Idle \in l => st[new] = "Ready" \/ new = Idle
               /\ \A q \in l : st[q] = "Ready" =>
                      ScanDistance(l, i, new) <= ScanDistance(l, i, q)
<1> DEFINE ready == {p \in l : st[p] = "Ready"}
           dist(p) == ScanDistance(l, i, p)
<1>1. CASE ready # {}
  <2>1. \A p \in ready : dist(p) \in Nat
    BY IdxRange, PidFinite DEF ScanDistance
  <2>2. PICK d \in {dist(p) : p \in ready} : \A e \in {dist(p) : p \in ready} : d <= e
    <3>1. {dist(p) : p \in ready} \in SUBSET Nat /\ {dist(p) : p \in ready} # {}
      BY <1>1, <2>1
    <3> HIDE DEF dist, ready
    <3> QED BY Zenon, <3>1, MinExists
  <2>3. PICK p \in ready : d = dist(p)
    BY <2>2
  <2>4. \A q \in ready : dist(p) <= dist(q)
    BY <2>2, <2>3
  <2> QED
    BY <1>1, <2>4 DEF PickNext
<1>2. CASE ready = {}
  BY <1>2, AtExists DEF PickNext
<1> QED
  BY <1>1, <1>2

\* schedule_next on a non-empty list in which at most the process at
\* schedule_index is Running: the process it selects is in the list, the new
\* index is its position, it is the only Running one, and no process enters or
\* leaves the states Absent and Terminated, except that the selected process
\* becomes Running.
LEMMA ScheduleNextFacts ==
    ASSUME NEW l \in SUBSET Pid, l # {}, NEW st \in [Pid -> ProcState],
           schedIdx \in Nat,
           \A p \in Pid : p \in l <=> st[p] # "Absent",
           \A p \in l : st[p] = "Running" => p = At(l, Clamp(l, schedIdx))
    PROVE  LET r == ScheduleNext(l, st)
           IN  /\ r.old = At(l, Clamp(l, schedIdx)) /\ r.old \in l
               /\ r.new = r.cur /\ r.cur \in l
               /\ r.idx = Idx(l, r.cur)
               /\ r.st \in [Pid -> ProcState]
               /\ \A p \in Pid : p \in l <=> r.st[p] # "Absent"
               /\ \A p \in l : r.st[p] = "Running" => p = r.cur
               /\ \A p \in Pid : r.st[p] = "Terminated" => st[p] = "Terminated"
               /\ st[Idle] # "Terminated" =>
                      \A p \in Pid : st[p] = "Terminated" => r.st[p] = "Terminated"
<1> DEFINE i == Clamp(l, schedIdx)
           old == At(l, i)
           new == PickNext(l, st, i)
           st2 == IF old = new THEN st
                  ELSE [st EXCEPT ![old] = IF @ = "Running" THEN "Ready" ELSE @,
                                  ![new] = "Running"]
<1>1. i \in 0 .. Cardinality(l) - 1
  BY Zenon, ClampRange
<1>2. old \in l /\ new \in l
  BY <1>1, AtExists, PickCases
<1>3. ScheduleNext(l, st) = [old |-> old, new |-> new, idx |-> Idx(l, new),
                             cur |-> new, st |-> st2]
  BY DEF ScheduleNext
<1> HIDE DEF i, old, new
<1>4. /\ st2 \in [Pid -> ProcState]
      /\ \A p \in Pid : st2[p] = IF old = new THEN st[p]
                                 ELSE IF p = new THEN "Running"
                                 ELSE IF p = old /\ st[p] = "Running" THEN "Ready"
                                 ELSE st[p]
  BY <1>2 DEF ProcState
<1>5. \A p \in Pid : p \in l <=> st2[p] # "Absent"
  BY <1>2, <1>4
<1>6. \A p \in l : st2[p] = "Running" => p = new
  BY <1>4, <1>2 DEF i, old
<1>7. \A p \in Pid : st2[p] = "Terminated" => st[p] = "Terminated"
  BY <1>4
<1>8. ASSUME st[Idle] # "Terminated"
      PROVE  \A p \in Pid : st[p] = "Terminated" => st2[p] = "Terminated"
  <2>1. st[new] = "Ready" \/ new = Idle \/ new = old
    BY PickCases, <1>1 DEF i, old, new
  <2> QED BY <1>2, <1>4, <1>8, <2>1
<1> HIDE DEF st2
<1> QED
  BY <1>2, <1>3, <1>4, <1>5, <1>6, <1>7, <1>8 DEF i, old

--------------------------------------------------------------------------------
(* The inductive invariant.                                                *)

IInv ==
    /\ TypeInv
    /\ \A p \in Pid : p \in procs <=> state[p] # "Absent"
    /\ \A p \in procs : p < nextPid
    /\ \A p \in Pid : parent[p] < p
    /\ \A p \in Pid : ctx[p] = p
    /\ \A p \in exited : waitFor[p] = 0
    /\ \A p \in Pid : state[p] = "Terminated" => p \in exited
    /\ Idle \notin exited
    /\ IndexTracksCurrent
    /\ OneRunning
    /\ CpuIsCurrent

\* The inductive invariant holds when the scheduler is initialised.
LEMMA InitIInv == Init => IInv
<1> SUFFICES ASSUME Init PROVE IInv
  OBVIOUS
<1> USE SchedulerAssumption DEF Init, Pid, Idle
<1>1. TypeInv
  BY DEF TypeInv, ProcState
<1>2. Idx(procs, current) = 0
  <2>1. {q \in procs : q < current} = {}
    OBVIOUS
  <2> QED BY <2>1, FS_EmptySet DEF Idx
<1> QED
  BY <1>1, <1>2 DEF IInv, IndexTracksCurrent, OneRunning, CpuIsCurrent

\* The flow that executes a syscall runs under its own pid, and schedule_index
\* is the position of that pid.
LEMMA ExecutingFacts ==
    ASSUME IInv, NEW f \in Pid, cpu = f, f \notin exited
    PROVE  /\ f = current /\ current \in procs /\ procs # {}
           /\ schedIdx \in Nat /\ schedIdx = Idx(procs, current)
           /\ At(procs, Clamp(procs, schedIdx)) = current
<1>1. f = current /\ current \in procs /\ schedIdx \in Nat /\ schedIdx = Idx(procs, current)
  BY SchedulerAssumption DEF IInv, TypeInv, CpuIsCurrent, IndexTracksCurrent, Pid
<1>2. procs \in SUBSET Pid
  BY DEF IInv, TypeInv
<1>3. schedIdx \in 0 .. Cardinality(procs) - 1 /\ Cardinality(procs) \in Nat
  BY <1>1, <1>2, IdxRange, PidFinite
<1>4. Clamp(procs, schedIdx) = schedIdx
  BY <1>3 DEF Clamp
<1> QED
  BY <1>1, <1>2, <1>4, AtIdx

\* While the kernel has not halted, schedule_index names the current process.
LEMMA CurrentIsAtIndex ==
    ASSUME IInv, cpu # 0
    PROVE  current \in procs /\ At(procs, Clamp(procs, schedIdx)) = current
<1>1. /\ current \in procs /\ schedIdx \in Nat /\ schedIdx = Idx(procs, current)
      /\ procs \in SUBSET Pid
  BY DEF IInv, TypeInv, IndexTracksCurrent
<1>2. schedIdx \in 0 .. Cardinality(procs) - 1 /\ Cardinality(procs) \in Nat
  BY <1>1, IdxRange, PidFinite
<1>3. Clamp(procs, schedIdx) = schedIdx
  BY <1>2 DEF Clamp
<1> QED
  BY <1>1, <1>3, AtIdx

\* spawn, fork and clone preserve the invariant: the new pid is larger than every
\* pid in the list, so no index moves.
LEMMA AddPreserves ==
    ASSUME IInv, ~Stray, NEW f \in Pid, Executing(f), NEW par \in {0, current}, NEW ok \in BOOLEAN,
           AddProcess(par, ok)
    PROVE  IInv'
<1>0. Pid \subseteq Nat /\ nextPid \in Nat /\ MaxPid \in Nat /\ 0 \notin Pid
  BY SchedulerAssumption DEF IInv, TypeInv, Pid
<1>1. /\ current \in procs /\ current < nextPid /\ nextPid \in Pid
      /\ nextPid \notin procs /\ nextPid' = nextPid + 1
  <2>1. cpu = f /\ f \notin exited
    BY DEF Executing
  <2>2. current \in procs
    BY <2>1, ExecutingFacts
  <2>3. current < nextPid /\ nextPid \notin procs
    BY <1>0, <2>2 DEF IInv
  <2>4. nextPid \in Pid /\ nextPid' = nextPid + 1
    BY <1>0 DEF IInv, TypeInv, Pid, AddProcess
  <2> QED BY <2>2, <2>3, <2>4
<1>2. CASE ~(ok /\ Cardinality(procs) < MaxProcs)
  <2>1. UNCHANGED <<procs, state, parent, schedIdx, current, ctx, cpu, waitFor, exited>>
    BY <1>2 DEF AddProcess
  <2>2. TypeInv'
    BY <1>0, <1>1, <2>1 DEF IInv, TypeInv, Pid
  <2>3. (\A p \in procs : p < nextPid)'
    BY <1>0, <1>1, <2>1 DEF IInv, TypeInv
  <2> QED
    BY <2>1, <2>2, <2>3 DEF IInv, IndexTracksCurrent, OneRunning, CpuIsCurrent
<1>3. CASE ok /\ Cardinality(procs) < MaxProcs
  <2>0. /\ procs' = procs \cup {nextPid}
        /\ state' = [state EXCEPT ![nextPid] = "Ready"]
        /\ parent' = [parent EXCEPT ![nextPid] = par]
        /\ UNCHANGED <<schedIdx, current, ctx, cpu, waitFor, exited>>
    BY <1>3 DEF AddProcess
  <2>1. TypeInv'
    <3>1. procs' \subseteq Pid /\ nextPid' \in 2 .. MaxPid + 1
      BY <1>0, <1>1, <2>0 DEF IInv, TypeInv, Pid
    <3>2. state' \in [Pid -> ProcState] /\ parent' \in [Pid -> Pid \cup {0}]
      BY <1>1, <2>0 DEF IInv, TypeInv, ProcState
    <3> QED BY <3>1, <3>2, <2>0 DEF IInv, TypeInv
  <2>2. /\ (\A p \in Pid : p \in procs <=> state[p] # "Absent")'
        /\ (\A p \in Pid : state[p] = "Terminated" => p \in exited)'
    BY <1>1, <2>0 DEF IInv, TypeInv
  <2>3. (\A p \in procs : p < nextPid)'
    BY <1>0, <1>1, <2>0 DEF IInv, TypeInv
  <2>4. (\A p \in Pid : parent[p] < p)'
    BY <1>0, <1>1, <2>0 DEF IInv, TypeInv
  <2>5. IndexTracksCurrent'
    <3>0. ~(nextPid < current)
      BY <1>0, <1>1 DEF IInv, TypeInv
    <3>1. {q \in procs' : q < current} = {q \in procs : q < current}
      BY <2>0, <3>0
    <3> QED BY Zenon, <1>1, <2>0, <3>1 DEF IInv, IndexTracksCurrent, Idx
  <2>6. OneRunning'
    <3>1. \A p \in procs : state'[p] = state[p]
      BY <1>1, <2>0 DEF IInv, TypeInv
    <3>2. state'[nextPid] = "Ready"
      BY <1>1, <2>0 DEF IInv, TypeInv
    <3> QED BY <2>0, <3>1, <3>2 DEF IInv, OneRunning
  <2> QED
    BY <2>0, <2>1, <2>2, <2>3, <2>4, <2>5, <2>6 DEF IInv, CpuIsCurrent
<1> QED
  BY <1>2, <1>3

\* What every step that ends in schedule_next has to establish: the list it
\* scheduled on is the new process list, and the flow left on the processor is
\* the selected one (or none, or one that has exited).
LEMMA ScheduledPreserves ==
    ASSUME IInv, NEW l \in SUBSET procs, l # {}, NEW st \in [Pid -> ProcState],
           \A p \in Pid : p \in l <=> st[p] # "Absent",
           \A p \in l : st[p] = "Running" => p = At(l, Clamp(l, schedIdx)),
           procs' = l, Scheduled(ScheduleNext(l, st)),
           UNCHANGED <<parent, nextPid, ctx>>,
           cpu' \in Pid \cup {0}, cpu' \in {0, current'} \cup exited',
           waitFor' \in [Pid -> Pid \cup {0}], exited' \subseteq Pid,
           \A p \in exited' : waitFor'[p] = 0,
           \A p \in Pid : st[p] = "Terminated" => p \in exited',
           Idle \notin exited'
    PROVE  IInv'
<1> DEFINE r == ScheduleNext(l, st)
<1>0. schedIdx \in Nat /\ l \in SUBSET Pid
  BY DEF IInv, TypeInv
<1>1. /\ r.cur \in l
      /\ r.idx = Idx(l, r.cur)
      /\ r.st \in [Pid -> ProcState]
      /\ \A p \in Pid : p \in l <=> r.st[p] # "Absent"
      /\ \A p \in l : r.st[p] = "Running" => p = r.cur
      /\ \A p \in Pid : r.st[p] = "Terminated" => st[p] = "Terminated"
  BY <1>0, ScheduleNextFacts
<1>2. state' = r.st /\ schedIdx' = r.idx /\ current' = r.cur
  BY DEF Scheduled
<1> HIDE DEF r
<1>3. schedIdx' \in Nat
  <2>1. Idx(l, r.cur) \in 0 .. Cardinality(l) - 1 /\ Cardinality(l) \in Nat
    BY <1>0, <1>1, IdxRange, PidFinite, ZenonT(20)
  <2> QED BY <1>1, <1>2, <2>1
<1>4. TypeInv'
  BY Zenon, <1>0, <1>1, <1>2, <1>3 DEF IInv, TypeInv
<1>5. IndexTracksCurrent' /\ OneRunning' /\ CpuIsCurrent'
  BY <1>1, <1>2 DEF IndexTracksCurrent, OneRunning, CpuIsCurrent
<1>6. /\ (\A p \in Pid : p \in procs <=> state[p] # "Absent")'
      /\ (\A p \in Pid : state[p] = "Terminated" => p \in exited)'
  BY <1>1, <1>2
<1> QED
  BY <1>4, <1>5, <1>6 DEF IInv

\* A context switch out of the current process, executed by its own flow,
\* leaves every context with its own registers and resumes the selected flow.
LEMMA SwitchFacts ==
    ASSUME IInv, cpu = current, current \in procs, NEW new \in procs,
           ContextSwitch(procs, current, new)
    PROVE  ctx' = ctx /\ cpu' = new
<1>1. CASE new = current
  BY <1>1 DEF ContextSwitch
<1>2. CASE new # current
  <2>1. cpu' = ctx[new] /\ ctx' = [ctx EXCEPT ![current] = cpu]
    BY <1>2 DEF ContextSwitch
  <2>2. ctx \in [Pid -> Pid] /\ new \in Pid /\ current \in Pid /\ ctx[current] = current /\ ctx[new] = new
    BY DEF IInv, TypeInv
  <2> QED BY <2>1, <2>2
<1> QED
  BY <1>1, <1>2

\* yield.
LEMMA YieldPreserves ==
    ASSUME IInv, ~Stray, NEW f \in Pid, Yield(f)
    PROVE  IInv'
<1> DEFINE r == ScheduleNext(procs, state)
<1>1. /\ cpu = f /\ f \notin exited
      /\ Scheduled(r) /\ ContextSwitch(procs, current, r.cur)
      /\ UNCHANGED <<procs, parent, nextPid, waitFor, exited>>
  BY DEF Yield, Executing
<1>2. /\ f = current /\ current \in procs /\ procs # {} /\ schedIdx \in Nat
      /\ At(procs, Clamp(procs, schedIdx)) = current
  BY <1>1, ExecutingFacts
<1>3. /\ state \in [Pid -> ProcState] /\ procs \in SUBSET Pid
      /\ \A p \in Pid : p \in procs <=> state[p] # "Absent"
      /\ \A p \in procs : state[p] = "Running" => p = At(procs, Clamp(procs, schedIdx))
      /\ \A p \in Pid : state[p] = "Terminated" => p \in exited'
  BY <1>1, <1>2 DEF IInv, TypeInv, OneRunning
<1>4. r.cur \in procs
  BY <1>2, <1>3, ScheduleNextFacts
<1>5. ctx' = ctx /\ cpu' = r.cur /\ current' = r.cur
  <2> HIDE DEF r
  <2> QED BY <1>1, <1>2, <1>4, SwitchFacts DEF Scheduled
<1>6. /\ cpu' \in Pid \cup {0} /\ cpu' \in {0, current'} \cup exited'
      /\ waitFor' \in [Pid -> Pid \cup {0}] /\ exited' \subseteq Pid
      /\ \A p \in exited' : waitFor'[p] = 0
      /\ Idle \notin exited'
  <2> HIDE DEF r
  <2> QED BY <1>1, <1>3, <1>4, <1>5 DEF IInv, TypeInv
<1> QED
  BY <1>1, <1>2, <1>3, <1>5, <1>6, ScheduledPreserves

\* block_current, called by the flow of the current process.
LEMMA BlockPreserves ==
    ASSUME IInv, NEW f \in Pid, cpu = f, f \notin exited, BlockCurrent,
           UNCHANGED <<procs, parent, nextPid, waitFor, exited>>
    PROVE  IInv'
<1> DEFINE st == SetState(state, current, "Blocked")
           r == ScheduleNext(procs, st)
<1>1. Scheduled(r) /\ ContextSwitch(procs, r.old, r.new)
  BY DEF BlockCurrent
<1>2. /\ f = current /\ current \in procs /\ procs # {} /\ schedIdx \in Nat
      /\ At(procs, Clamp(procs, schedIdx)) = current
  BY ExecutingFacts
<1>3. /\ st \in [Pid -> ProcState] /\ procs \in SUBSET Pid
      /\ \A p \in Pid : p \in procs <=> st[p] # "Absent"
      /\ \A p \in procs : st[p] = "Running" => p = At(procs, Clamp(procs, schedIdx))
      /\ \A p \in Pid : st[p] = "Terminated" => p \in exited'
  BY <1>2 DEF IInv, TypeInv, OneRunning, SetState, ProcState
<1> HIDE DEF st
<1>4. r.cur \in procs /\ r.old = current /\ r.new = r.cur
  BY <1>2, <1>3, ScheduleNextFacts
<1>5. ctx' = ctx /\ cpu' = r.cur /\ current' = r.cur
  <2> HIDE DEF r
  <2> QED BY <1>1, <1>2, <1>4, SwitchFacts DEF Scheduled
<1>6. /\ cpu' \in Pid \cup {0} /\ cpu' \in {0, current'} \cup exited'
      /\ waitFor' \in [Pid -> Pid \cup {0}] /\ exited' \subseteq Pid
      /\ \A p \in exited' : waitFor'[p] = 0
      /\ Idle \notin exited'
  <2> HIDE DEF r
  <2> QED BY <1>3, <1>4, <1>5 DEF IInv, TypeInv
<1> QED
  BY <1>1, <1>2, <1>3, <1>5, <1>6, ScheduledPreserves

\* syscall_wait, its entry and each turn of its loop.
LEMMA WaitPreserves ==
    ASSUME IInv, ~Stray, NEW f \in Pid,
           (\E p \in Pid : WaitCall(f, p)) \/ WaitTurn(f)
    PROVE  IInv'
<1>1. CASE \E p \in Pid : WaitCall(f, p)
  <2>1. PICK p \in Pid : WaitCall(f, p)
    BY <1>1
  <2>2. /\ f \notin exited /\ waitFor' = [waitFor EXCEPT ![f] = p]
        /\ UNCHANGED <<procs, state, parent, nextPid, schedIdx, current, ctx, cpu, exited>>
    BY <2>1 DEF WaitCall, User, Executing
  <2>3. TypeInv' /\ (\A q \in exited : waitFor[q] = 0)'
    BY <2>2 DEF IInv, TypeInv
  <2> QED
    BY <2>2, <2>3 DEF IInv, IndexTracksCurrent, OneRunning, CpuIsCurrent
<1>2. CASE WaitTurn(f) /\ state[waitFor[f]] \in {"Absent", "Terminated"}
  <2>1. /\ waitFor' = [waitFor EXCEPT ![f] = 0]
        /\ UNCHANGED <<procs, state, parent, nextPid, schedIdx, current, ctx, cpu, exited>>
    BY <1>2 DEF WaitTurn
  <2>2. TypeInv' /\ (\A q \in exited : waitFor[q] = 0)'
    BY <2>1 DEF IInv, TypeInv
  <2> QED
    BY <2>1, <2>2 DEF IInv, IndexTracksCurrent, OneRunning, CpuIsCurrent
<1>3. CASE WaitTurn(f) /\ state[waitFor[f]] \notin {"Absent", "Terminated"}
  <2>1. /\ cpu = f /\ waitFor[f] # 0 /\ BlockCurrent
        /\ UNCHANGED <<procs, parent, nextPid, waitFor, exited>>
    BY <1>3 DEF WaitTurn
  <2>2. f \notin exited
    BY <2>1 DEF IInv
  <2> QED BY <2>1, <2>2, BlockPreserves
<1> QED
  BY <1>1, <1>2, <1>3

\* unblock_process from a signal or a send.
LEMMA WakePreserves ==
    ASSUME IInv, NEW f \in Pid, NEW W, Wake(f, W)
    PROVE  IInv'
<1>1. /\ state' = Unblock(state, W)
      /\ UNCHANGED <<procs, parent, nextPid, schedIdx, current, ctx, cpu, waitFor, exited>>
  BY DEF Wake
<1>2. /\ state' \in [Pid -> ProcState]
      /\ \A q \in Pid : /\ state'[q] = "Absent" <=> state[q] = "Absent"
                        /\ state'[q] = "Running" <=> state[q] = "Running"
                        /\ state'[q] = "Terminated" <=> state[q] = "Terminated"
  BY SMTT(30), <1>1 DEF IInv, TypeInv, Unblock, ProcState
<1> QED
  BY <1>1, <1>2 DEF IInv, TypeInv, IndexTracksCurrent, OneRunning, CpuIsCurrent

\* exit: the caller's flow stays on the processor, under the pid of another
\* process, and is recorded as exited.
LEMMA ExitPreserves ==
    ASSUME IInv, ~Stray, NEW f \in Pid, Exit(f)
    PROVE  IInv'
<1>1. /\ cpu = f /\ f \notin exited /\ waitFor[f] = 0 /\ f # Idle
      /\ exited' = exited \cup {f}
      /\ UNCHANGED <<procs, parent, nextPid, ctx, cpu, waitFor>>
  BY DEF Exit, User, Executing
<1>2. PICK W : TerminateCurrent(W)
  BY DEF Exit
<1> DEFINE st1 == IF current \in procs /\ current # Idle
                  THEN Unblock([state EXCEPT ![current] = "Terminated"], W) ELSE state
           st2 == IF current \in procs THEN Unblock(st1, {parent[current]}) ELSE st1
<1>3. Scheduled(ScheduleNext(procs, st2))
  BY <1>2 DEF TerminateCurrent
<1>4. /\ f = current /\ current \in procs /\ procs # {} /\ procs \in SUBSET Pid /\ schedIdx \in Nat
      /\ At(procs, Clamp(procs, schedIdx)) = current
  BY <1>1, ExecutingFacts DEF IInv, TypeInv
<1>5. /\ st1 \in [Pid -> ProcState]
      /\ \A p \in Pid : p \in procs <=> st1[p] # "Absent"
      /\ \A p \in procs : st1[p] = "Running" => p = current
      /\ \A p \in Pid : st1[p] = "Terminated" => p \in exited'
  BY <1>1, <1>4 DEF IInv, TypeInv, OneRunning, Unblock, ProcState
<1>6. /\ st2 \in [Pid -> ProcState]
      /\ \A p \in Pid : p \in procs <=> st2[p] # "Absent"
      /\ \A p \in procs : st2[p] = "Running" => p = current
      /\ \A p \in Pid : st2[p] = "Terminated" => p \in exited'
  <2> HIDE DEF st1
  <2> QED BY <1>4, <1>5 DEF Unblock, ProcState
<1> HIDE DEF st2
<1>7. /\ cpu' \in Pid \cup {0} /\ cpu' \in {0, current'} \cup exited'
      /\ waitFor' \in [Pid -> Pid \cup {0}] /\ exited' \subseteq Pid /\ Idle \notin exited'
      /\ \A p \in exited' : waitFor'[p] = 0
  BY <1>1 DEF IInv, TypeInv
<1> QED
  BY <1>1, <1>3, <1>4, <1>6, <1>7, ScheduledPreserves

\* The recovery from a user-mode exception.  No process of the compacted list
\* is Running or Terminated, so whichever schedule_next takes for the outgoing
\* one, it demotes nothing.
LEMMA FaultPreserves ==
    ASSUME IInv, NEW f \in Pid, Fault(f)
    PROVE  IInv'
<1> DEFINE st   == SetState(state, current, "Terminated")
           left == {p \in procs : st[p] # "Terminated"}
           kept == [p \in Pid |-> IF p \in left THEN st[p] ELSE "Absent"]
           r    == ScheduleNext(left, kept)
<1>1. /\ cpu = f /\ procs' = left /\ Scheduled(r)
      /\ cpu' = IF r.cur \in left THEN ctx[r.cur] ELSE 0
      /\ UNCHANGED <<parent, nextPid, ctx, waitFor, exited>>
  BY DEF Fault
<1>2. current \in procs /\ procs \in SUBSET Pid /\ schedIdx \in Nat
  BY <1>1, SchedulerAssumption DEF IInv, TypeInv, IndexTracksCurrent, Pid
<1>3. st = [state EXCEPT ![current] = "Terminated"]
  BY <1>2 DEF SetState
<1>4. /\ left \in SUBSET procs /\ current \notin left
      /\ \A p \in left : st[p] = state[p] /\ state[p] # "Running"
  BY <1>2, <1>3 DEF IInv, TypeInv, OneRunning
<1>5. /\ kept \in [Pid -> ProcState]
      /\ \A p \in Pid : p \in left <=> kept[p] # "Absent"
      /\ \A p \in left : kept[p] # "Running"
      /\ \A p \in Pid : kept[p] # "Terminated"
  <2>1. \A p \in left : st[p] \in ProcState /\ st[p] \notin {"Absent", "Running", "Terminated"}
    BY <1>2, <1>4 DEF IInv, TypeInv
  <2>2. left \in SUBSET Pid /\ "Absent" \in ProcState
    BY <1>2, <1>4 DEF ProcState
  <2> HIDE DEF st, left
  <2> QED BY <2>1, <2>2
<1>6. CASE left = {}
  <2>1. /\ state' = kept /\ schedIdx' = schedIdx /\ current' = current /\ cpu' = 0
    <3> HIDE DEF st, left, kept
    <3>1. r = [old |-> 0, new |-> 0, idx |-> schedIdx, cur |-> current, st |-> kept]
      BY <1>6, SMTT(20) DEF ScheduleNext
    <3> HIDE DEF r
    <3> QED BY <1>1, <1>4, <3>1 DEF Scheduled
  <2>2. TypeInv'
    BY <1>1, <1>5, <1>6, <2>1, SMTT(20) DEF IInv, TypeInv
  <2>3. (\A p \in Pid : p \in procs <=> state[p] # "Absent")'
    <3> HIDE DEF left, kept
    <3> QED BY Zenon, <1>1, <1>5, <2>1
  <2>4. (\A p \in procs : p < nextPid)' /\ OneRunning'
    BY <1>1, <1>6 DEF OneRunning
  <2>5. IndexTracksCurrent' /\ CpuIsCurrent'
    BY <2>1 DEF IndexTracksCurrent, CpuIsCurrent
  <2>6. (\A p \in Pid : state[p] = "Terminated" => p \in exited)'
    BY <1>5, <2>1
  <2> QED BY <1>1, <2>2, <2>3, <2>4, <2>5, <2>6 DEF IInv
<1>7. CASE left # {}
  <2> HIDE DEF st, left, kept
  <2>1. left \in SUBSET Pid
    BY SMTT(30), <1>2, <1>4
  <2>2. r.cur \in left
    BY <1>2, <1>5, <1>7, <2>1, ScheduleNextFacts
  <2>3. cpu' = r.cur /\ current' = r.cur /\ r.cur \in Pid
    <3> HIDE DEF r
    <3> QED BY <1>1, <2>1, <2>2 DEF IInv, Scheduled
  <2>4. /\ cpu' \in Pid \cup {0} /\ cpu' \in {0, current'} \cup exited'
        /\ waitFor' \in [Pid -> Pid \cup {0}] /\ exited' \subseteq Pid
        /\ \A p \in exited' : waitFor'[p] = 0
        /\ Idle \notin exited'
    <3> HIDE DEF r
    <3> QED BY <1>1, <2>3 DEF IInv, TypeInv
  <2> QED
    BY <1>1, <1>4, <1>5, <1>7, <2>4, ScheduledPreserves
<1> HIDE DEF left
<1> QED
  BY <1>6, <1>7, SMTT(20)

\* Removing a child moves no index: a child's pid is larger than its parent's.
LEMMA RemovePreserves ==
    ASSUME IInv, ~Stray, NEW f \in Pid, Executing(f), NEW p \in Pid, parent[p] = current,
           Reap(p),
           UNCHANGED <<parent, nextPid, schedIdx, current, ctx, cpu, waitFor, exited>>
    PROVE  IInv'
<1>1. current < p /\ p \in Nat /\ current \in Nat /\ current \in procs
  <2>1. cpu = f /\ f \notin exited
    BY DEF Executing
  <2>2. current \in procs
    BY <2>1, ExecutingFacts
  <2>3. Pid \subseteq Nat
    BY SchedulerAssumption DEF Pid
  <2>4. current \in Pid /\ parent[p] < p
    BY DEF IInv, TypeInv
  <2> QED BY <2>2, <2>3, <2>4
<1>2. /\ procs' = procs \ {p}
      /\ state' \in [Pid -> ProcState]
      /\ \A q \in Pid : state'[q] = IF q = p THEN "Absent" ELSE state[q]
  BY DEF Reap, SetState, IInv, TypeInv, ProcState
<1>3. IndexTracksCurrent'
  <2>1. ~(p < current) /\ p # current
    BY <1>1
  <2>2. {q \in procs' : q < current} = {q \in procs : q < current}
    BY <1>2, <2>1
  <2> QED BY SMTT(30), <1>1, <1>2, <2>1, <2>2 DEF IInv, IndexTracksCurrent, Idx
<1>4. TypeInv' /\ OneRunning' /\ CpuIsCurrent'
  BY <1>2 DEF IInv, TypeInv, OneRunning, CpuIsCurrent
<1>5. (\A q \in Pid : q \in procs <=> state[q] # "Absent")'
  BY <1>2 DEF IInv, TypeInv
<1>6. (\A q \in Pid : state[q] = "Terminated" => q \in exited)'
  BY <1>2 DEF IInv
<1> QED
  BY <1>2, <1>3, <1>4, <1>5, <1>6 DEF IInv

\* sys_wait4 on the caller's own children.
LEMMA LinuxWaitPreserves ==
    ASSUME IInv, ~Stray, NEW f \in Pid,
           LinuxWaitAny(f) \/ \E p \in Pid : LinuxWait(f, p)
    PROVE  IInv'
<1> DEFINE dead == {p \in procs : parent[p] = current /\ state[p] = "Terminated"}
<1>1. CASE \E p \in Pid : LinuxWait(f, p)
  BY <1>1, RemovePreserves DEF LinuxWait, User
<1>2. CASE LinuxWaitAny(f) /\ dead # {}
  <2> DEFINE p == CHOOSE p \in dead : \A q \in dead : p <= q
  <2>1. /\ Executing(f) /\ Reap(p)
        /\ UNCHANGED <<parent, nextPid, schedIdx, current, ctx, cpu, waitFor, exited>>
    BY <1>2 DEF LinuxWaitAny, User
  <2>2. dead \in SUBSET Nat /\ dead \in SUBSET Pid
    <3>1. Pid \in SUBSET Nat
      BY SchedulerAssumption DEF Pid
    <3>2. procs \in SUBSET Pid
      BY DEF IInv, TypeInv
    <3> QED BY Zenon, <3>1, <3>2
  <2>3. p \in dead
    <3>1. \E x \in dead : \A y \in dead : x <= y
      <4> HIDE DEF dead
      <4> QED BY <1>2, <2>2, MinExists
    <3> HIDE DEF dead
    <3> QED BY <3>1
  <2>4. p \in Pid /\ parent[p] = current
    <3> HIDE DEF p
    <3> QED BY <2>2, <2>3
  <2> HIDE DEF p
  <2> QED BY <2>1, <2>4, RemovePreserves
<1>3. CASE LinuxWaitAny(f) /\ dead = {}
  <2>1. /\ Executing(f) /\ BlockCurrent
        /\ UNCHANGED <<procs, parent, nextPid, waitFor, exited>>
    BY <1>3 DEF LinuxWaitAny, User
  <2> QED BY <2>1, BlockPreserves DEF Executing
<1> QED
  BY <1>1, <1>2, <1>3

\* Every step of every flow preserves the invariant.
LEMMA NextPreserves ==
    ASSUME IInv, ~Stray, [Next]_vars
    PROVE  IInv'
<1>1. CASE UNCHANGED vars
  BY <1>1 DEF vars, IInv, TypeInv, IndexTracksCurrent, OneRunning, CpuIsCurrent, Idx
<1>2. ASSUME NEW f \in Pid, Step(f)
      PROVE  IInv'
  <2>1. CASE Spawn(f)
    BY <2>1, AddPreserves DEF Spawn
  <2>2. CASE Fork(f)
    BY <2>2, AddPreserves DEF Fork, User
  <2>3. CASE Block(f)
    BY <2>3, BlockPreserves DEF Block, User, Executing
  <2> QED
    BY <1>2, <2>1, <2>2, <2>3, YieldPreserves, WakePreserves, WaitPreserves,
       ExitPreserves, FaultPreserves, LinuxWaitPreserves DEF Step
<1> QED
  BY <1>1, <1>2 DEF Next

--------------------------------------------------------------------------------
(* The theorems.  All assume that wait4 is only called on children.        *)

\* The strengthened invariant holds in every reachable state.
THEOREM InductiveInvariant ==
    ASSUME ~Stray
    PROVE  Spec => []IInv
<1>1. IInv /\ [Next]_vars => IInv'
  BY NextPreserves
<1> QED
  BY <1>1, InitIInv, PTL DEF Spec

\* The process table stays consistent through spawn, fork, yield, block, wait, exit,
\* exceptions and wait4, for any number of processes and any capacity of the list.
THEOREM SchedulerIsSound ==
    ASSUME ~Stray
    PROVE  Spec => []SchedulerSound
<1>1. IInv => SchedulerSound
  BY DEF IInv, SchedulerSound, ContextOwn, TypeInv
<1> QED
  BY <1>1, InductiveInvariant, PTL

\* What one step may not do: bring back a pid that has been handed out and is not
\* in the list, or a Terminated process.
StaysDead ==
    \A p \in Pid :
        /\ (state[p] = "Absent" /\ p < nextPid) => state'[p] = "Absent"
        /\ state[p] = "Terminated" => state'[p] \in {"Terminated", "Absent"}

\* A step that does not add to the list keeps every absent pid absent.
LEMMA AbsentStays ==
    ASSUME IInv, IInv', procs' \subseteq procs,
           \A p \in Pid : state[p] = "Terminated" => state'[p] \in {"Terminated", "Absent"}
    PROVE  StaysDead
BY SMTT(20) DEF IInv, StaysDead

\* A step that schedules on states st in which every Terminated process still is
\* Terminated or gone.
LEMMA ScheduledKeepsDead ==
    ASSUME IInv, IInv', NEW l \in SUBSET procs, l # {}, NEW st \in [Pid -> ProcState],
           \A p \in Pid : p \in l <=> st[p] # "Absent",
           \A p \in l : st[p] = "Running" => p = At(l, Clamp(l, schedIdx)),
           \A p \in Pid : state[p] = "Terminated" => st[p] \in {"Terminated", "Absent"},
           st[Idle] # "Terminated",
           procs' = l, Scheduled(ScheduleNext(l, st))
    PROVE  StaysDead
<1> DEFINE r == ScheduleNext(l, st)
<1>1. schedIdx \in Nat /\ l \in SUBSET Pid
  BY SMTT(20) DEF IInv, TypeInv
<1>2. /\ \A p \in Pid : p \in l <=> r.st[p] # "Absent"
      /\ \A p \in Pid : st[p] = "Terminated" => r.st[p] = "Terminated"
  BY Zenon, <1>1, ScheduleNextFacts
<1>3. state' = r.st
  BY DEF Scheduled
<1> HIDE DEF r
<1> QED
  BY <1>2, <1>3, AbsentStays

\* Every step keeps the dead dead.
LEMMA NextKeepsDead ==
    ASSUME IInv, IInv', ~Stray, NEW f \in Pid, Step(f)
    PROVE  StaysDead
<1>0. /\ state \in [Pid -> ProcState] /\ procs \in SUBSET Pid /\ Idle \in Pid
      /\ \A p \in Pid : p \in procs <=> state[p] # "Absent"
      /\ state[Idle] # "Terminated"
  BY SchedulerAssumption DEF IInv, TypeInv, Idle, Pid
<1>1. ASSUME NEW par, NEW ok, AddProcess(par, ok)
      PROVE  StaysDead
  <2>1. state' = state \/ state' = [state EXCEPT ![nextPid] = "Ready"]
    BY <1>1 DEF AddProcess
  <2>2. nextPid \in Nat /\ nextPid \in Pid /\ Pid \subseteq Nat /\ nextPid \notin procs
    BY <1>1, SchedulerAssumption DEF IInv, TypeInv, Pid, AddProcess
  <2>3. state[nextPid] = "Absent"
    BY <1>0, <2>2
  <2>4. \A p \in Pid : p < nextPid => p # nextPid
    BY <2>2
  <2> QED BY <1>0, <2>1, <2>2, <2>3, <2>4 DEF StaysDead
<1>2. CASE Yield(f)
  <2>1. /\ procs # {} /\ procs' = procs /\ Scheduled(ScheduleNext(procs, state))
        /\ \A p \in procs : state[p] = "Running" => p = At(procs, Clamp(procs, schedIdx))
    <3>1. /\ cpu = f /\ f \notin exited /\ procs' = procs
          /\ Scheduled(ScheduleNext(procs, state))
      BY <1>2 DEF Yield, Executing
    <3>2. procs # {} /\ At(procs, Clamp(procs, schedIdx)) = current
      BY <3>1, ExecutingFacts
    <3> QED BY <3>1, <3>2 DEF IInv, OneRunning
  <2> QED BY <1>0, <2>1, ScheduledKeepsDead
<1>3. ASSUME cpu = f, f \notin exited, BlockCurrent, procs' = procs
      PROVE  StaysDead
  <2> DEFINE st == SetState(state, current, "Blocked")
  <2>1. /\ f = current /\ current \in procs /\ procs # {}
        /\ At(procs, Clamp(procs, schedIdx)) = current
    BY <1>3, ExecutingFacts
  <2>2. state[current] # "Terminated"
    BY <1>3, <2>1 DEF IInv
  <2>3. /\ st \in [Pid -> ProcState]
        /\ \A p \in Pid : p \in procs <=> st[p] # "Absent"
        /\ \A p \in procs : st[p] = "Running" => p = At(procs, Clamp(procs, schedIdx))
        /\ \A p \in Pid : state[p] = "Terminated" => st[p] = "Terminated"
        /\ st[Idle] # "Terminated"
    BY <1>0, <2>1, <2>2 DEF SetState, IInv, OneRunning, ProcState
  <2>4. Scheduled(ScheduleNext(procs, st))
    BY <1>3 DEF BlockCurrent
  <2> HIDE DEF st
  <2> QED BY <1>3, <2>1, <2>3, <2>4, ScheduledKeepsDead
<1>4. CASE \E W \in SUBSET Sleeping : Wake(f, W)
  <2>1. procs' = procs /\ \E W \in SUBSET Sleeping : state' = Unblock(state, W)
    BY <1>4 DEF Wake
  <2>2. \A p \in Pid : state[p] = "Terminated" => state'[p] = "Terminated"
    BY <2>1 DEF Unblock
  <2> QED BY <2>1, <2>2, AbsentStays
<1>5. CASE UNCHANGED <<state, procs>>
  BY <1>5, AbsentStays
<1>6. CASE WaitTurn(f)
  <2>1. waitFor[f] # 0 /\ cpu = f /\ procs' = procs /\ (state' = state \/ BlockCurrent)
    BY <1>6 DEF WaitTurn
  <2>2. f \notin exited
    BY <2>1 DEF IInv
  <2> QED BY <1>3, <1>5, <2>1, <2>2
<1>7. CASE Exit(f)
  <2>1. PICK W : TerminateCurrent(W)
    BY <1>7, SMTT(20) DEF Exit
  <2> DEFINE st1 == IF current \in procs /\ current # Idle
                    THEN Unblock([state EXCEPT ![current] = "Terminated"], W) ELSE state
             st2 == IF current \in procs THEN Unblock(st1, {parent[current]}) ELSE st1
  <2>2. Scheduled(ScheduleNext(procs, st2)) /\ procs' = procs
    BY <1>7, <2>1 DEF TerminateCurrent, Exit
  <2>3. current \in procs /\ procs # {} /\ At(procs, Clamp(procs, schedIdx)) = current
    <3>1. cpu = f /\ f \notin exited
      BY <1>7, SMTT(20) DEF Exit, User, Executing
    <3> QED BY <3>1, ExecutingFacts
  <2>4. /\ st1 \in [Pid -> ProcState]
        /\ \A p \in Pid : p \in procs <=> st1[p] # "Absent"
        /\ \A p \in procs : st1[p] = "Running" => p = current
        /\ \A p \in Pid : state[p] = "Terminated" => st1[p] = "Terminated"
        /\ st1[Idle] # "Terminated"
    BY <1>0, <2>3, SMTT(20) DEF IInv, OneRunning, Unblock, ProcState
  <2>5. /\ st2 \in [Pid -> ProcState]
        /\ \A p \in Pid : p \in procs <=> st2[p] # "Absent"
        /\ \A p \in procs : st2[p] = "Running" => p = current
        /\ \A p \in Pid : state[p] = "Terminated" => st2[p] = "Terminated"
        /\ st2[Idle] # "Terminated"
    <3> HIDE DEF st1
    <3> QED BY <1>0, <2>3, <2>4 DEF Unblock, ProcState
  <2> HIDE DEF st2
  <2> QED BY <2>2, <2>3, <2>5, ScheduledKeepsDead
<1>8. CASE Fault(f)
  <2> DEFINE st   == SetState(state, current, "Terminated")
             left == {p \in procs : st[p] # "Terminated"}
  <2>1. procs' = left
    BY <1>8 DEF Fault
  <2>2. \A p \in Pid : state[p] = "Terminated" => p \notin left
    BY <1>0 DEF SetState
  <2>3. \A p \in Pid : p \notin procs' => state'[p] = "Absent"
    BY DEF IInv
  <2>4. left \subseteq procs
    OBVIOUS
  <2> HIDE DEF left
  <2> QED BY <2>1, <2>2, <2>3, <2>4, AbsentStays, SMTT(20)
<1>9. ASSUME NEW p, Reap(p)
      PROVE  StaysDead
  <2>1. /\ procs' \subseteq procs
        /\ \A q \in Pid : state'[q] \in {state[q], "Absent"}
    BY <1>0, <1>9 DEF Reap, SetState
  <2> QED BY <2>1, AbsentStays
<1>10. CASE Spawn(f) \/ Fork(f)
  BY <1>10, <1>1 DEF Spawn, Fork
<1>11. CASE Block(f)
  BY <1>11, <1>3 DEF Block, User, Executing
<1>12. CASE \E p \in Pid : WaitCall(f, p)
  BY <1>12, <1>5 DEF WaitCall
<1>13. CASE LinuxWaitAny(f)
  BY <1>13, <1>3, <1>9 DEF LinuxWaitAny, User, Executing
<1>14. CASE \E p \in Pid : LinuxWait(f, p)
  BY <1>14, <1>9 DEF LinuxWait
<1> QED
  BY <1>2, <1>4, <1>6, <1>7, <1>8, <1>10, <1>11, <1>12, <1>13, <1>14 DEF Step

\* A process never comes back: no step of any flow brings a removed or a
\* Terminated process back to life.
THEOREM NoResurrection ==
    ASSUME ~Stray
    PROVE  Spec => [][StaysDead]_vars
<1>1. IInv /\ IInv' /\ [Next]_vars => [StaysDead]_vars
  BY NextKeepsDead DEF Next
<1> QED
  BY <1>1, InductiveInvariant, PTL DEF Spec

\* Pids are never handed out twice.
THEOREM PidsNeverReused ==
    ASSUME ~Stray
    PROVE  Spec => NoPidReuse
<1>1. [StaysDead]_vars =>
          [\A p \in Pid : (state[p] = "Absent" /\ p < nextPid) => state'[p] = "Absent"]_vars
  BY DEF StaysDead
<1> QED
  BY <1>1, NoResurrection, PTL DEF NoPidReuse

--------------------------------------------------------------------------------
(***************************************************************************)
(* The scheduler with programs that do not fault: the promises that the    *)
(* recovery from a user-mode exception breaks.                             *)
(***************************************************************************)

\* The list keeps the idle process, which never waits; the current process is
\* Running, and no parent sleeps beside a child that is gone.
OrderlyInv ==
    /\ IInv
    /\ Idle \in procs
    /\ waitFor[Idle] = 0
    /\ CurrentIsRunning
    /\ NoLostWait

\* No flow that waits for its child by wf is Blocked in st with the child gone.
NoneMissed(st, wf) ==
    \A p \in procs :
        (st[p] = "Blocked" /\ wf[p] # 0 /\ parent[wf[p]] = p)
            => st[wf[p]] \notin {"Terminated", "Absent"}

\* schedule_next on a list with the idle process: it selects a Ready process or
\* idle, promotes it unless it is the outgoing one, and blocks nobody.
LEMMA ScheduleRuns ==
    ASSUME NEW l \in SUBSET Pid, Idle \in l, NEW st \in [Pid -> ProcState], schedIdx \in Nat
    PROVE  LET r == ScheduleNext(l, st)
               old == At(l, Clamp(l, schedIdx))
           IN  /\ r.cur \in l
               /\ st[r.cur] = "Ready" \/ r.cur = Idle
               /\ r.cur = old => r.st = st
               /\ r.cur # old => r.st[r.cur] = "Running"
               /\ \A p \in Pid : r.st[p] # st[p] => r.st[p] \in {"Ready", "Running"}
               /\ \A q \in l : st[q] = "Ready" =>
                      ScanDistance(l, Clamp(l, schedIdx), r.cur)
                          <= ScanDistance(l, Clamp(l, schedIdx), q)
<1> DEFINE i == Clamp(l, schedIdx)
           old == At(l, i)
           new == PickNext(l, st, i)
           st2 == IF old = new THEN st
                  ELSE [st EXCEPT ![old] = IF @ = "Running" THEN "Ready" ELSE @,
                                  ![new] = "Running"]
<1>0. l # {}
  OBVIOUS
<1>1. i \in 0 .. Cardinality(l) - 1
  BY Zenon, <1>0, ClampRange
<1>2. /\ old \in l /\ new \in l
      /\ st[new] = "Ready" \/ new = Idle
      /\ \A q \in l : st[q] = "Ready" => ScanDistance(l, i, new) <= ScanDistance(l, i, q)
  BY SMTT(30), <1>0, <1>1, AtExists, PickCases
<1>3. ScheduleNext(l, st) = [old |-> old, new |-> new, idx |-> Idx(l, new),
                             cur |-> new, st |-> st2]
  BY <1>0 DEF ScheduleNext
<1> HIDE DEF i, old, new
<1>4. /\ old # new => st2[new] = "Running"
      /\ \A p \in Pid : st2[p] # st[p] => st2[p] \in {"Ready", "Running"}
  BY <1>2 DEF ProcState
<1>5. old = new => st2 = st
  OBVIOUS
<1> HIDE DEF st2
<1> QED
  BY <1>2, <1>3, <1>4, <1>5 DEF i, old

\* Every step that calls schedule_next for the current process, once it has put
\* that process into state st[current]: Running, or Blocked or Terminated and
\* then not idle.
LEMMA OrderlyScheduled ==
    ASSUME OrderlyInv, IInv', cpu = current, NEW st \in [Pid -> ProcState],
           \A p \in Pid : p \in procs <=> st[p] # "Absent",
           \A p \in procs : st[p] = "Running" => p = current,
           st[current] = "Running" \/ (st[current] # "Ready" /\ current # Idle),
           NoneMissed(st, waitFor'), waitFor'[Idle] = 0,
           UNCHANGED <<procs, parent>>, Scheduled(ScheduleNext(procs, st))
    PROVE  OrderlyInv'
<1> DEFINE r == ScheduleNext(procs, st)
<1>1. /\ procs \in SUBSET Pid /\ Idle \in procs /\ schedIdx \in Nat
      /\ current \in procs /\ At(procs, Clamp(procs, schedIdx)) = current
  <2>1. procs \in SUBSET Pid /\ Idle \in procs /\ schedIdx \in Nat /\ IInv
    BY DEF OrderlyInv, IInv, TypeInv
  <2>2. cpu # 0
    BY SMTT(30), <2>1, SchedulerAssumption DEF IInv, TypeInv, Pid
  <2> QED BY <2>1, <2>2, CurrentIsAtIndex
<1>2. /\ r.cur \in procs
      /\ st[r.cur] = "Ready" \/ r.cur = Idle
      /\ r.cur = current => r.st = st
      /\ r.cur # current => r.st[r.cur] = "Running"
      /\ \A p \in Pid : r.st[p] # st[p] => r.st[p] \in {"Ready", "Running"}
  BY <1>1, ScheduleRuns
<1>3. state' = r.st /\ current' = r.cur
  BY DEF Scheduled
<1> HIDE DEF r
<1>4. CurrentIsRunning'
  BY <1>2, <1>3 DEF CurrentIsRunning
<1>5. NoLostWait'
  <2> SUFFICES ASSUME NEW p \in procs, state'[p] = "Blocked", waitFor'[p] # 0,
                      parent[waitFor'[p]] = p
               PROVE  state'[waitFor'[p]] \notin {"Terminated", "Absent"}
    BY DEF NoLostWait
  <2>1. p \in Pid /\ waitFor'[p] \in Pid
    BY <1>1 DEF IInv, TypeInv
  <2>2. st[p] = "Blocked"
    BY <1>2, <1>3, <2>1
  <2>3. st[waitFor'[p]] \notin {"Terminated", "Absent"}
    BY <2>2 DEF NoneMissed
  <2> QED BY <1>2, <1>3, <2>1, <2>3
<1> QED
  BY <1>1, <1>4, <1>5 DEF OrderlyInv

\* The flow that makes a syscall in an orderly state is the Running process.
LEMMA OrderlyFacts ==
    ASSUME OrderlyInv, NEW f \in Pid, cpu = f, f \notin exited
    PROVE  /\ f = current /\ current \in procs /\ procs \in SUBSET Pid
           /\ state \in [Pid -> ProcState] /\ state[current] = "Running"
           /\ \A p \in Pid : p \in procs <=> state[p] # "Absent"
           /\ \A p \in procs : state[p] = "Running" => p = current
           /\ Idle \in procs /\ waitFor[Idle] = 0 /\ NoneMissed(state, waitFor)
BY ExecutingFacts DEF OrderlyInv, IInv, TypeInv, OneRunning, CurrentIsRunning, NoLostWait, NoneMissed

\* block_current, called by a process that waits for nothing or for a process
\* that it has just found alive.
LEMMA OrderlyBlock ==
    ASSUME OrderlyInv, IInv', NEW f \in Pid, cpu = f, f \notin exited, f # Idle, BlockCurrent,
           UNCHANGED <<procs, parent, waitFor>>,
           waitFor[f] # 0 => state[waitFor[f]] \notin {"Terminated", "Absent"}
    PROVE  OrderlyInv'
<1> DEFINE st == SetState(state, current, "Blocked")
<1>1. /\ f = current /\ current \in procs /\ procs \in SUBSET Pid
      /\ state \in [Pid -> ProcState] /\ state[current] = "Running"
      /\ \A p \in Pid : p \in procs <=> state[p] # "Absent"
      /\ \A p \in procs : state[p] = "Running" => p = current
      /\ Idle \in procs /\ waitFor[Idle] = 0 /\ NoneMissed(state, waitFor)
  BY OrderlyFacts
<1>2. /\ st \in [Pid -> ProcState] /\ st[current] = "Blocked"
      /\ \A p \in Pid : p # current => st[p] = state[p]
  BY <1>1 DEF SetState, ProcState
<1>3. Scheduled(ScheduleNext(procs, st))
  BY DEF BlockCurrent
<1> HIDE DEF st
<1>4. NoneMissed(st, waitFor')
  <2> SUFFICES ASSUME NEW p \in procs, st[p] = "Blocked", waitFor[p] # 0,
                      parent[waitFor[p]] = p
               PROVE  st[waitFor[p]] \notin {"Terminated", "Absent"}
    BY DEF NoneMissed
  <2>1. state[waitFor[p]] \notin {"Terminated", "Absent"}
    BY <1>1, <1>2 DEF NoneMissed
  <2>2. waitFor[p] \in Pid
    BY SMTT(30), <1>1 DEF OrderlyInv, IInv, TypeInv
  <2> QED BY <1>2, <2>1, <2>2
<1> QED
  BY <1>1, <1>2, <1>3, <1>4, OrderlyScheduled

\* exit: the parent of the dying process is made Ready in the same step.
LEMMA OrderlyExit ==
    ASSUME OrderlyInv, IInv', ~Stray, NEW f \in Pid, Exit(f)
    PROVE  OrderlyInv'
<1>1. /\ cpu = f /\ f \notin exited /\ waitFor[f] = 0 /\ f # Idle
      /\ UNCHANGED <<procs, parent, waitFor>>
  BY DEF Exit, User, Executing
<1>2. PICK W : TerminateCurrent(W)
  BY DEF Exit
<1> DEFINE st1 == Unblock([state EXCEPT ![current] = "Terminated"], W)
           st2 == Unblock(st1, {parent[current]})
<1>3. /\ f = current /\ current \in procs /\ procs \in SUBSET Pid
      /\ state \in [Pid -> ProcState] /\ state[current] = "Running"
      /\ \A p \in Pid : p \in procs <=> state[p] # "Absent"
      /\ \A p \in procs : state[p] = "Running" => p = current
      /\ Idle \in procs /\ waitFor[Idle] = 0 /\ NoneMissed(state, waitFor)
  BY <1>1, OrderlyFacts
<1>4. Scheduled(ScheduleNext(procs, st2))
  BY <1>1, <1>2, <1>3 DEF TerminateCurrent
<1>5. /\ st1 \in [Pid -> ProcState] /\ st1[current] = "Terminated"
      /\ \A p \in Pid : p # current =>
             st1[p] = state[p] \/ (state[p] = "Blocked" /\ st1[p] = "Ready")
  BY <1>3 DEF Unblock, ProcState
<1> HIDE DEF st1
<1>6. /\ st2 \in [Pid -> ProcState] /\ st2[current] = "Terminated"
      /\ \A p \in Pid : p # current =>
             st2[p] = state[p] \/ (state[p] = "Blocked" /\ st2[p] = "Ready")
      /\ \A p \in Pid : p = parent[current] => st2[p] # "Blocked"
  BY <1>3, <1>5 DEF Unblock, ProcState
<1> HIDE DEF st2
<1>7. NoneMissed(st2, waitFor')
  <2> SUFFICES ASSUME NEW p \in procs, st2[p] = "Blocked", waitFor[p] # 0,
                      parent[waitFor[p]] = p
               PROVE  st2[waitFor[p]] \notin {"Terminated", "Absent"}
    BY <1>1 DEF NoneMissed
  <2>1. waitFor[p] \in Pid /\ p \in Pid
    BY <1>3 DEF OrderlyInv, IInv, TypeInv
  <2>2. p # parent[current] /\ waitFor[p] # current /\ state[p] = "Blocked"
    BY <1>6, <2>1
  <2>3. state[waitFor[p]] \notin {"Terminated", "Absent"}
    BY <1>3, <2>2 DEF NoneMissed
  <2> QED BY <1>6, <2>1, <2>2, <2>3
<1>8. /\ \A p \in Pid : p \in procs <=> st2[p] # "Absent"
      /\ \A p \in procs : st2[p] = "Running" => p = current
  BY <1>3, <1>6
<1> QED
  BY <1>1, <1>3, <1>4, <1>6, <1>7, <1>8, OrderlyScheduled

\* Every step of a program that does not fault keeps the order.
LEMMA OrderlyNext ==
    ASSUME OrderlyInv, ~Stray, Faulting = {}, [Next]_vars
    PROVE  OrderlyInv'
<1>0. IInv'
  BY NextPreserves DEF OrderlyInv
<1>1. CASE UNCHANGED vars
  BY SMTT(30), <1>0, <1>1 DEF vars, OrderlyInv, CurrentIsRunning, NoLostWait
<1>2. ASSUME NEW f \in Pid, Step(f)
      PROVE  OrderlyInv'
  <2>0. ASSUME cpu = f, f \notin exited
        PROVE  /\ f = current /\ current \in procs /\ procs \in SUBSET Pid
               /\ state \in [Pid -> ProcState] /\ state[current] = "Running"
               /\ \A p \in Pid : p \in procs <=> state[p] # "Absent"
               /\ \A p \in procs : state[p] = "Running" => p = current
               /\ Idle \in procs /\ waitFor[Idle] = 0 /\ NoneMissed(state, waitFor)
    BY <2>0, OrderlyFacts
  <2>1. CASE Spawn(f) \/ Fork(f)
    <3>1. PICK par, ok : Executing(f) /\ AddProcess(par, ok)
      BY <2>1 DEF Spawn, Fork, User
    <3>2. cpu = f /\ f \notin exited /\ UNCHANGED <<current, waitFor>>
      BY <3>1 DEF Executing, AddProcess
    <3>3. \/ UNCHANGED <<procs, state, parent>>
          \/ /\ procs' = procs \cup {nextPid}
             /\ state' = [state EXCEPT ![nextPid] = "Ready"]
             /\ parent' = [parent EXCEPT ![nextPid] = par]
      BY <3>1 DEF AddProcess
    <3>4. nextPid \in Pid /\ nextPid \notin procs
      BY <3>1, SchedulerAssumption DEF OrderlyInv, IInv, TypeInv, AddProcess, Pid
    <3>5. CurrentIsRunning'
      BY <2>0, <3>2, <3>3, <3>4 DEF CurrentIsRunning
    <3>6. NoLostWait'
      <4> SUFFICES ASSUME NEW p \in procs', state'[p] = "Blocked", waitFor[p] # 0,
                          parent'[waitFor[p]] = p
                   PROVE  state'[waitFor[p]] \notin {"Terminated", "Absent"}
        BY <3>2 DEF NoLostWait
      <4>1. CASE UNCHANGED <<procs, state, parent>>
        BY <4>1, <2>0, <3>2 DEF NoneMissed
      <4>2. CASE /\ procs' = procs \cup {nextPid}
                 /\ state' = [state EXCEPT ![nextPid] = "Ready"]
                 /\ parent' = [parent EXCEPT ![nextPid] = par]
        <5>1. p \in procs /\ state[p] = "Blocked" /\ waitFor[p] \in Pid
          BY <2>0, <3>2, <3>4, <4>2 DEF OrderlyInv, IInv, TypeInv
        <5>2. CASE waitFor[p] = nextPid
          BY <2>0, <3>2, <3>4, <4>2, <5>2
        <5>3. CASE waitFor[p] # nextPid
          BY <2>0, <3>2, <3>4, <4>2, <5>1, <5>3 DEF NoneMissed, OrderlyInv, IInv, TypeInv
        <5> QED BY <5>2, <5>3
      <4> QED BY <3>3, <4>1, <4>2
    <3> QED BY <1>0, <2>0, <3>2, <3>3, <3>5, <3>6 DEF OrderlyInv
  <2>2. CASE Yield(f)
    <3>1. /\ cpu = f /\ f \notin exited /\ UNCHANGED <<procs, parent, waitFor>>
          /\ Scheduled(ScheduleNext(procs, state))
      BY <2>2 DEF Yield, Executing
    <3> QED BY <1>0, <2>0, <3>1, OrderlyScheduled
  <2>3. CASE Block(f)
    BY <1>0, <2>3, OrderlyBlock DEF Block, User, Executing
  <2>4. CASE \E W \in SUBSET Sleeping : Wake(f, W)
    <3>1. PICK W : Wake(f, W)
      BY <2>4
    <3>2. /\ cpu = f /\ f \notin exited /\ UNCHANGED <<procs, parent, waitFor, current>>
          /\ state' = Unblock(state, W)
      BY <3>1 DEF Wake, Executing
    <3>3. \A p \in Pid : state'[p] = state[p] \/ (state[p] = "Blocked" /\ state'[p] = "Ready")
      BY <2>0, <3>2 DEF Unblock
    <3>4. CurrentIsRunning' /\ NoLostWait'
      BY <2>0, <3>2, <3>3 DEF CurrentIsRunning, NoLostWait, NoneMissed, OrderlyInv, IInv, TypeInv
    <3> QED BY <1>0, <3>2, <3>4 DEF OrderlyInv
  <2>5. CASE \E p \in Pid : WaitCall(f, p)
    <3>1. PICK p \in Pid : WaitCall(f, p)
      BY <2>5
    <3>2. /\ cpu = f /\ f \notin exited /\ f # Idle /\ waitFor' = [waitFor EXCEPT ![f] = p]
          /\ UNCHANGED <<procs, state, parent, current>>
      BY <3>1 DEF WaitCall, User, Executing
    <3>3. \A q \in Pid : q # f => waitFor'[q] = waitFor[q]
      BY <3>2 DEF OrderlyInv, IInv, TypeInv
    <3>4. NoLostWait'
      BY <2>0, <3>2, <3>3 DEF NoLostWait, NoneMissed
    <3> QED BY <1>0, <2>0, <3>2, <3>3, <3>4 DEF OrderlyInv, CurrentIsRunning
  <2>6. CASE WaitTurn(f) /\ state[waitFor[f]] \in {"Absent", "Terminated"}
    <3>1. /\ cpu = f /\ waitFor[f] # 0 /\ waitFor' = [waitFor EXCEPT ![f] = 0]
          /\ UNCHANGED <<procs, state, parent, current>>
      BY <2>6 DEF WaitTurn
    <3>2. /\ f \notin exited /\ waitFor'[f] = 0
          /\ \A q \in Pid : q # f => waitFor'[q] = waitFor[q]
      BY <3>1 DEF OrderlyInv, IInv, TypeInv
    <3>3. NoLostWait'
      BY <2>0, <3>1, <3>2 DEF NoLostWait, NoneMissed
    <3> QED BY <1>0, <2>0, <3>1, <3>2, <3>3 DEF OrderlyInv, CurrentIsRunning
  <2>7. CASE WaitTurn(f) /\ state[waitFor[f]] \notin {"Absent", "Terminated"}
    <3>1. /\ cpu = f /\ waitFor[f] # 0 /\ BlockCurrent /\ UNCHANGED <<procs, parent, waitFor>>
      BY <2>7 DEF WaitTurn
    <3>2. f \notin exited /\ f # Idle
      BY <3>1 DEF OrderlyInv, IInv
    <3> QED BY <1>0, <2>7, <3>1, <3>2, OrderlyBlock
  <2>8. CASE Exit(f)
    BY SMTT(30), <1>0, <2>8, OrderlyExit
  <2>9. ASSUME NEW p, Reap(p), Executing(f), p \in Pid => parent[p] = current,
               UNCHANGED <<parent, current, waitFor>>
        PROVE  OrderlyInv'
    <3>1. cpu = f /\ f \notin exited /\ waitFor[f] = 0
      BY <2>9 DEF Executing
    <3>2. /\ procs' = procs \ {p} /\ state' = SetState(state, p, "Absent")
      BY <2>9 DEF Reap
    <3>3. p # current /\ p # Idle
      BY <2>0, <2>9, <3>1, SchedulerAssumption DEF OrderlyInv, IInv, TypeInv, Idle, Pid
    <3>4. \A q \in Pid : q # p => state'[q] = state[q]
      BY <2>0, <3>1, <3>2 DEF SetState
    <3>5. NoLostWait'
      <4> SUFFICES ASSUME NEW q \in procs', state'[q] = "Blocked", waitFor[q] # 0,
                          parent[waitFor[q]] = q
                   PROVE  state'[waitFor[q]] \notin {"Terminated", "Absent"}
        BY <2>9 DEF NoLostWait
      <4>1. /\ q \in Pid /\ waitFor[q] \in Pid /\ q # p /\ q \in procs /\ state[q] = "Blocked"
        BY <2>0, <3>1, <3>2, <3>4 DEF OrderlyInv, IInv, TypeInv
      <4>2. waitFor[q] # p
        BY <2>0, <2>9, <3>1, <4>1
      <4> QED BY <2>0, <3>1, <3>4, <4>1, <4>2 DEF NoneMissed
    <3>6. CurrentIsRunning'
      BY SMTT(30), <2>0, <2>9, <3>1, <3>3, <3>4 DEF CurrentIsRunning, OrderlyInv, IInv, TypeInv
    <3> QED BY <1>0, <2>0, <2>9, <3>1, <3>2, <3>3, <3>5, <3>6 DEF OrderlyInv
  <2>10. CASE LinuxWaitAny(f)
    <3> DEFINE dead == {p \in procs : parent[p] = current /\ state[p] = "Terminated"}
               p == CHOOSE p \in dead : \A q \in dead : p <= q
    <3>1. CASE dead # {}
      <4>1. /\ Executing(f) /\ Reap(p) /\ UNCHANGED <<parent, current, waitFor>>
        BY <2>10, <3>1 DEF LinuxWaitAny, User
      <4>2. dead \in SUBSET Nat
        <5>1. procs \in SUBSET Pid /\ Pid \in SUBSET Nat
          BY SchedulerAssumption DEF OrderlyInv, IInv, TypeInv, Pid
        <5> QED BY Zenon, <5>1
      <4>3. p \in dead
        <5>1. \E x \in dead : \A y \in dead : x <= y
          <6> HIDE DEF dead
          <6> QED BY <3>1, <4>2, MinExists
        <5> HIDE DEF dead
        <5> QED BY <5>1
      <4>4. parent[p] = current
        <5> HIDE DEF p
        <5> QED BY <4>3
      <4> HIDE DEF p
      <4> QED BY <2>9, <4>1, <4>4
    <3>2. CASE dead = {}
      <4>1. /\ cpu = f /\ f \notin exited /\ waitFor[f] = 0 /\ f # Idle /\ BlockCurrent
            /\ UNCHANGED <<procs, parent, waitFor>>
        BY <2>10, <3>2 DEF LinuxWaitAny, User, Executing
      <4> QED BY SMTT(30), <1>0, <4>1, OrderlyBlock
    <3> QED BY <3>1, <3>2
  <2>11. CASE \E p \in Pid : LinuxWait(f, p)
    BY SMTT(30), <2>9, <2>11 DEF LinuxWait, User
  <2>12. ~Fault(f)
    BY DEF Fault
  <2> QED
    BY <1>2, <2>1, <2>2, <2>3, <2>4, <2>5, <2>6, <2>7, <2>8, <2>10, <2>11, <2>12 DEF Step
<1> QED
  BY <1>1, <1>2 DEF Next

\* The inductive invariant holds as long as no program faults.
THEOREM OrderlyInvariant ==
    ASSUME ~Stray, Faulting = {}
    PROVE  Spec => []OrderlyInv
<1>1. Init => OrderlyInv
  BY InitIInv, SchedulerAssumption
     DEF Init, OrderlyInv, CurrentIsRunning, NoLostWait, Idle, Pid
<1>2. OrderlyInv /\ [Next]_vars => OrderlyInv'
  BY OrderlyNext
<1> QED
  BY <1>1, <1>2, PTL DEF Spec

\* As long as no program faults, a parent in syscall_wait never sleeps through
\* the end of its child, whatever the order of forks, waits, wakeups, exits and
\* reaping.
THEOREM OrderlyWaits ==
    ASSUME ~Stray, Faulting = {}
    PROVE  Spec => []NoLostWait
<1>1. OrderlyInv => NoLostWait
  BY DEF OrderlyInv
<1> QED
  BY <1>1, OrderlyInvariant, PTL

\* As long as no program faults, schedule_next and the syscalls that give up the
\* CPU leave the process that current_pid names Running in the table.
THEOREM CurrentStaysRunning ==
    ASSUME ~Stray, Faulting = {}
    PROVE  Spec => []CurrentIsRunning
<1>1. OrderlyInv => CurrentIsRunning
  BY DEF OrderlyInv
<1> QED
  BY <1>1, OrderlyInvariant, PTL

\* Positions on a ring of n slots, seen from slot i: when a is reached no later
\* than b, then b is closer to a than it was to i.
LEMMA RingDistance ==
    ASSUME NEW n \in Nat, NEW i \in 0 .. n - 1, NEW a \in 0 .. n - 1, NEW b \in 0 .. n - 1,
           a # b,
           (IF a > i THEN a - i ELSE a - i + n) <= (IF b > i THEN b - i ELSE b - i + n)
    PROVE  (IF b > a THEN b - a ELSE b - a + n) < (IF b > i THEN b - i ELSE b - i + n)
OBVIOUS

\* What RoundRobin says of one step.
CloserTurn ==
    current' # current =>
        \A p \in procs \cap procs' :
            (state[p] = "Ready" /\ state'[p] = "Ready") =>
                ScanDistance(procs', schedIdx', p) < ScanDistance(procs, schedIdx, p)

\* schedule_next, called on states in which every Ready process still is Ready.
LEMMA ScheduledCloser ==
    ASSUME OrderlyInv, NEW f \in Pid, cpu = f, f \notin exited, NEW st \in [Pid -> ProcState],
           \A p \in procs : state[p] = "Ready" => st[p] = "Ready",
           procs' = procs, Scheduled(ScheduleNext(procs, st))
    PROVE  CloserTurn
<1> SUFFICES ASSUME current' # current, NEW p \in procs, state[p] = "Ready", state'[p] = "Ready"
             PROVE  ScanDistance(procs, schedIdx', p) < ScanDistance(procs, schedIdx, p)
  BY DEF CloserTurn
<1> DEFINE r == ScheduleNext(procs, st)
<1>1. /\ procs \in SUBSET Pid /\ Idle \in procs /\ procs # {} /\ schedIdx \in Nat
      /\ schedIdx = Idx(procs, current) /\ current \in procs
      /\ At(procs, Clamp(procs, schedIdx)) = current
  BY ExecutingFacts DEF OrderlyInv, IInv, TypeInv
<1>2. schedIdx \in 0 .. Cardinality(procs) - 1 /\ Cardinality(procs) \in Nat
  BY <1>1, IdxRange, PidFinite
<1>3. Clamp(procs, schedIdx) = schedIdx
  BY SMTT(30), <1>2 DEF Clamp
<1>4. /\ r.cur \in procs
      /\ r.cur # current => r.st[r.cur] = "Running"
      /\ ScanDistance(procs, schedIdx, r.cur) <= ScanDistance(procs, schedIdx, p)
  BY <1>1, <1>3, ScheduleRuns
<1>5. r.idx = Idx(procs, r.cur)
  <2>1. r.idx = Idx(procs, PickNext(procs, st, Clamp(procs, schedIdx)))
        /\ r.cur = PickNext(procs, st, Clamp(procs, schedIdx))
    BY <1>1 DEF ScheduleNext
  <2> QED BY SMTT(30), <2>1
<1>6. state' = r.st /\ schedIdx' = r.idx /\ current' = r.cur
  BY DEF Scheduled
<1> HIDE DEF r
<1>7. p # r.cur
  BY SMTT(30), <1>4, <1>6
<1> DEFINE a == Idx(procs, r.cur)
           b == Idx(procs, p)
           n == Cardinality(procs)
<1>8. a \in 0 .. n - 1 /\ b \in 0 .. n - 1
  BY <1>1, <1>4, IdxRange
<1>9. a # b
  BY <1>1, <1>4, <1>7, IdxEqual
<1>10. (IF a > schedIdx THEN a - schedIdx ELSE a - schedIdx + n)
          <= (IF b > schedIdx THEN b - schedIdx ELSE b - schedIdx + n)
  BY <1>4 DEF ScanDistance
<1> HIDE DEF a, b, n
<1>11. (IF b > a THEN b - a ELSE b - a + n)
          < (IF b > schedIdx THEN b - schedIdx ELSE b - schedIdx + n)
  <2>1. n \in Nat /\ schedIdx \in 0 .. n - 1
    BY <1>2 DEF n
  <2> QED BY SMTT(30), <1>8, <1>9, <1>10, <2>1, RingDistance
<1> QED
  BY <1>5, <1>6, <1>11 DEF ScanDistance, a, b, n

\* Every step of a program that does not fault is fair to those it passes over.
LEMMA NextCloser ==
    ASSUME OrderlyInv, ~Stray, Faulting = {}, NEW f \in Pid, Step(f)
    PROVE  CloserTurn
<1>1. ASSUME current' = current PROVE CloserTurn
  BY <1>1 DEF CloserTurn
<1>2. CASE Yield(f)
  <2>1. /\ cpu = f /\ f \notin exited /\ procs' = procs /\ Scheduled(ScheduleNext(procs, state))
    BY <1>2 DEF Yield, Executing
  <2>2. state \in [Pid -> ProcState]
    BY DEF OrderlyInv, IInv, TypeInv
  <2> QED BY <2>1, <2>2, ScheduledCloser
<1>3. ASSUME cpu = f, f \notin exited, BlockCurrent, procs' = procs
      PROVE  CloserTurn
  <2> DEFINE st == SetState(state, current, "Blocked")
  <2>1. /\ current \in procs /\ state[current] = "Running" /\ state \in [Pid -> ProcState]
        /\ procs \in SUBSET Pid
    BY <1>3, OrderlyFacts
  <2>2. st \in [Pid -> ProcState] /\ \A p \in procs : state[p] = "Ready" => st[p] = "Ready"
    BY <2>1 DEF SetState, ProcState
  <2>3. Scheduled(ScheduleNext(procs, st))
    BY <1>3 DEF BlockCurrent
  <2> HIDE DEF st
  <2> QED BY <1>3, <2>2, <2>3, ScheduledCloser
<1>4. CASE WaitTurn(f)
  <2>1. /\ cpu = f /\ waitFor[f] # 0 /\ procs' = procs /\ (current' = current \/ BlockCurrent)
    BY <1>4 DEF WaitTurn
  <2>2. f \notin exited
    BY <2>1 DEF OrderlyInv, IInv
  <2> QED BY <1>1, <1>3, <2>1, <2>2
<1>5. CASE Exit(f)
  <2>1. /\ cpu = f /\ f \notin exited /\ procs' = procs
    BY <1>5 DEF Exit, User, Executing
  <2>2. PICK W : TerminateCurrent(W)
    BY <1>5, SMTT(20) DEF Exit
  <2> DEFINE st1 == IF current \in procs /\ current # Idle
                    THEN Unblock([state EXCEPT ![current] = "Terminated"], W) ELSE state
             st2 == IF current \in procs THEN Unblock(st1, {parent[current]}) ELSE st1
  <2>3. Scheduled(ScheduleNext(procs, st2))
    BY <2>2 DEF TerminateCurrent
  <2>4. /\ current \in procs /\ state[current] = "Running" /\ state \in [Pid -> ProcState]
        /\ procs \in SUBSET Pid
    BY <2>1, OrderlyFacts
  <2>5. st1 \in [Pid -> ProcState] /\ \A p \in procs : state[p] = "Ready" => st1[p] = "Ready"
    BY <2>4 DEF Unblock, ProcState
  <2>6. st2 \in [Pid -> ProcState] /\ \A p \in procs : state[p] = "Ready" => st2[p] = "Ready"
    <3> HIDE DEF st1
    <3> QED BY <2>4, <2>5 DEF Unblock, ProcState
  <2> HIDE DEF st2
  <2> QED BY <2>1, <2>3, <2>6, ScheduledCloser
<1>6. CASE LinuxWaitAny(f)
  <2>1. /\ cpu = f /\ f \notin exited /\ (current' = current \/ (BlockCurrent /\ procs' = procs))
    BY <1>6 DEF LinuxWaitAny, User, Executing
  <2> QED BY <1>1, <1>3, <2>1
<1>7. CASE Block(f)
  BY <1>3, <1>7 DEF Block, User, Executing
<1>8. CASE Spawn(f) \/ Fork(f)
  BY <1>1, <1>8 DEF Spawn, Fork, AddProcess
<1>9. CASE (\E W \in SUBSET Sleeping : Wake(f, W)) \/ \E p \in Pid : WaitCall(f, p) \/ LinuxWait(f, p)
  BY SMTT(30), <1>1, <1>9 DEF Wake, WaitCall, LinuxWait
<1>10. ~Fault(f)
  BY DEF Fault
<1> QED
  BY <1>2, <1>4, <1>5, <1>6, <1>7, <1>8, <1>9, <1>10 DEF Step

\* The scan of schedule_next is fair as long as no program faults: with every
\* switch, each process that stays Ready comes strictly closer to its turn, so
\* that it is passed over at most as often as there are processes.
THEOREM ReadyComesCloser ==
    ASSUME ~Stray, Faulting = {}
    PROVE  Spec => RoundRobin
<1>1. OrderlyInv /\ [Next]_vars =>
         [current' # current =>
             \A p \in procs \cap procs' :
                 (state[p] = "Ready" /\ state'[p] = "Ready") =>
                     ScanDistance(procs', schedIdx', p) < ScanDistance(procs, schedIdx, p)]_vars
  BY NextCloser DEF Next, CloserTurn
<1> QED
  BY <1>1, OrderlyInvariant, PTL DEF Spec, RoundRobin

================================================================================
