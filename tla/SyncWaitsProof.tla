---------------------------- MODULE SyncWaitsProof -----------------------------
(***************************************************************************)
(* Lemmas about the waiter lists of events and threads: what each syscall  *)
(* of event.rs, thread.rs and cap.rs does to the sleepers, for any number  *)
(* of processes, events, handles and waiters.  Of the process table they   *)
(* use its types and the effect of a step on who sleeps, as assumptions    *)
(* that SyncObjectsProof discharges.                                       *)
(***************************************************************************)
EXTENDS SyncObjects, TLAPS

\* What the waits need to know of the process table.
Table ==
    /\ TypeInv
    /\ \A p \in Pid : p \in procs <=> state[p] # "Absent"

\* Nobody falls asleep but the processes of B, those of W are awake afterwards,
\* and as long as no process has exited nobody else wakes up and the process
\* that gets the processor is awake.
Effect(B, W) ==
    /\ \A p \in Pid : state'[p] = "Blocked" => (state[p] = "Blocked" /\ p \notin W) \/ p \in B
    /\ exited' = {} =>
         /\ \A p \in Pid : state[p] = "Blocked" /\ p \notin W => state'[p] = "Blocked"
         /\ \A p \in B : state'[p] = "Blocked"
         /\ state'[current'] # "Blocked"

\* A count that was positive and has not gone down is positive.
LEMMA StillPositive ==
    ASSUME NEW g \in Int, g > 0, NEW h, h = g \/ h = g + 1
    PROVE  h > 0
OBVIOUS

\* One count of one handle table changes.
LEMMA CountChange ==
    ASSUME NEW h \in [Pid -> [Objects -> 0 .. MaxHandles]], NEW p \in Pid, NEW o \in Objects,
           NEW v \in 0 .. MaxHandles, NEW g, g = [h EXCEPT ![p] = [h[p] EXCEPT ![o] = v]]
    PROVE  /\ g \in [Pid -> [Objects -> 0 .. MaxHandles]]
           /\ \A q \in Pid, x \in Objects : q # p \/ x # o => g[q][x] = h[q][x]
<1> DEFINE r == [h[p] EXCEPT ![o] = v]
<1>1. h[p] \in [Objects -> 0 .. MaxHandles]
  OBVIOUS
<1>2. r \in [Objects -> 0 .. MaxHandles] /\ \A x \in Objects : x # o => r[x] = h[p][x]
  BY <1>1
<1>3. g = [h EXCEPT ![p] = r]
  OBVIOUS
<1> HIDE DEF r
<1>4. g \in [Pid -> [Objects -> 0 .. MaxHandles]] /\ g[p] = r /\ \A q \in Pid : q # p => g[q] = h[q]
  BY <1>2, <1>3
<1> QED BY <1>2, <1>4

\* A handle moves from one table to another that has room for it.
LEMMA OneMoves ==
    ASSUME NEW m \in Nat, NEW a \in 0 .. m, NEW b \in 0 .. m, a > 0, b < m
    PROVE  a - 1 \in 0 .. m /\ b + 1 \in 0 .. m
OBVIOUS

\* An empty list has no entries.
LEMMA EmptyRange == Range(<<>>) = {}
BY DEF Range

\* The entries of a list are those of its positions, and an entry pushed at the
\* end is one of them.
LEMMA AppendFacts ==
    ASSUME NEW s \in Seq(Pid), NEW p \in Pid
    PROVE  /\ Append(s, p) \in Seq(Pid)
           /\ DOMAIN s = 1 .. Len(s) /\ Len(s) \in Nat
           /\ DOMAIN Append(s, p) = 1 .. Len(s) + 1
           /\ \A i \in DOMAIN s : Append(s, p)[i] = s[i]
           /\ Append(s, p)[Len(s) + 1] = p
           /\ Range(Append(s, p)) = Range(s) \cup {p}
<1>1. /\ Append(s, p) \in Seq(Pid) /\ Len(Append(s, p)) = Len(s) + 1
      /\ \A i \in 1 .. Len(s) : Append(s, p)[i] = s[i]
      /\ Append(s, p)[Len(s) + 1] = p
  OBVIOUS
<1>2. /\ DOMAIN s = 1 .. Len(s) /\ Len(s) \in Nat
      /\ DOMAIN Append(s, p) = 1 .. Len(Append(s, p))
  BY <1>1
<1>3. DOMAIN Append(s, p) = DOMAIN s \cup {Len(s) + 1}
  BY <1>1, <1>2
<1>4. Range(Append(s, p)) = Range(s) \cup {p}
  BY <1>1, <1>2, <1>3 DEF Range
<1> QED
  BY <1>1, <1>2, <1>4

\* pop takes the last entry.
LEMMA FrontFacts ==
    ASSUME NEW s \in Seq(Pid), Len(s) > 0
    PROVE  LET front == SubSeq(s, 1, Len(s) - 1) IN
           /\ front \in Seq(Pid)
           /\ DOMAIN s = 1 .. Len(s) /\ Len(s) \in Nat
           /\ DOMAIN front = 1 .. Len(s) - 1
           /\ \A i \in DOMAIN front : front[i] = s[i]
           /\ Range(s) = Range(front) \cup {s[Len(s)]}
<1> DEFINE front == SubSeq(s, 1, Len(s) - 1)
<1>1. DOMAIN s = 1 .. Len(s) /\ Len(s) \in Nat
  OBVIOUS
<1>2. /\ front \in Seq(Pid) /\ Len(front) = Len(s) - 1
      /\ \A i \in 1 .. Len(s) - 1 : front[i] = s[i]
  BY <1>1
<1> HIDE DEF front
<1>3. DOMAIN front = 1 .. Len(s) - 1
  BY <1>2
<1>4. DOMAIN s = DOMAIN front \cup {Len(s)}
  BY <1>1, <1>3
<1>5. Range(s) = Range(front) \cup {s[Len(s)]}
  BY <1>2, <1>3, <1>4 DEF Range
<1> QED
  BY <1>1, <1>2, <1>3, <1>5 DEF front

\* Typing facts of the objects that the lemmas below share.
LEMMA ObjectFacts ==
    ASSUME WaitsSound
    PROVE  /\ waiters \in [Objects -> Seq(Pid)] /\ inCall \in [Pid -> Objects \cup {0}]
           /\ signaled \subseteq Events /\ Events \subseteq Objects
           /\ 0 \notin Objects /\ Events \cap Pid = {}
           /\ \A o \in Objects : Range(waiters[o]) \subseteq Pid
<1>1. waiters \in [Objects -> Seq(Pid)] /\ inCall \in [Pid -> Objects \cup {0}] /\ signaled \subseteq Events
  BY DEF WaitsSound, SyncTypeInv
<1>2. Events \subseteq Objects /\ 0 \notin Objects /\ Events \cap Pid = {}
  BY SyncAssumption, SchedulerAssumption DEF Objects, Pid
<1>3. \A s \in Seq(Pid) : Range(s) \subseteq Pid
  BY DEF Range
<1> QED
  BY <1>1, <1>2, <1>3

\* While no process has exited, the running process is in no list.
LEMMA RunnerNotQueued ==
    ASSUME WaitsSound, exited = {}, NEW o \in Objects
    PROVE  current \notin Range(waiters[o])
BY DEF WaitsSound, WaitersFresh, Sleeping, Range

\* signal_event makes the processes it takes off the list Ready.
LEMMA WakeEffect ==
    ASSUME WaitsSound, Table, NEW W, state' = Unblock(state, W), UNCHANGED <<current, exited>>
    PROVE  Effect({}, W)
<1>1. current \in Pid
  BY DEF Table, TypeInv
<1> QED BY <1>1 DEF Effect, Unblock, WaitsSound, WaitersFresh

--------------------------------------------------------------------------------
(* The waits after each kind of step.                                      *)

\* The steps that leave the waiter lists and the waiting flows alone: they may
\* take back signals, and change handles of flows that wait for nothing.
LEMMA QuietStep ==
    ASSUME WaitsSound, Table, Table', SyncTypeInv', Effect({}, {}),
           UNCHANGED <<waiters, inCall, exited>>,
           signaled' \subseteq signaled, manual' \cap signaled' \subseteq manual,
           signaled' \ manual' \subseteq signaled \ manual,
           \A p \in procs \cap procs' : inCall[p] # 0 => hold'[p][inCall[p]] > 0,
           \A p \in procs' : inCall[p] # 0 => p \in procs,
           exited \subseteq procs' =>
             exited \subseteq procs /\ \A p \in procs : inCall[p] # 0 => p \in procs'
    PROVE  WaitsSound'
<1>1. \A p \in procs' : inCall[p] # 0 => p \in procs
  OBVIOUS
<1>2. procs' \in SUBSET Pid /\ \A p \in Pid : state'[p] = "Blocked" => p \in procs'
  BY DEF Table, TypeInv
<1>3. SleeperQueued'
  <2> SUFFICES ASSUME NEW p \in procs', inCall[p] # 0
               PROVE  /\ state'[p] = "Blocked" => p \in Range(waiters[inCall[p]])
                      /\ hold'[p][inCall[p]] > 0
    BY DEF SleeperQueued
  <2>1. p \in procs /\ p \in Pid
    BY <1>1, <1>2
  <2> QED BY <2>1 DEF Effect, WaitsSound, SleeperQueued
<1>4. ManualWakesAll'
  <2> SUFFICES ASSUME NEW e \in manual' \cap signaled', NEW p \in procs',
                      state'[p] = "Blocked", inCall[p] = e
               PROVE  FALSE
    BY DEF ManualWakesAll
  <2>1. e \in manual \cap signaled /\ e # 0
    BY SyncAssumption DEF WaitsSound, SyncTypeInv
  <2>2. p \in procs /\ state[p] = "Blocked"
    BY <1>1, <1>2, <2>1 DEF Effect
  <2> QED BY <2>1, <2>2 DEF WaitsSound, ManualWakesAll
<1>5. WaitersFresh'
  BY <1>2 DEF WaitsSound, WaitersFresh, Effect, Sleeping, SyncTypeInv
<1>6. NoLostSignal'
  <2> SUFFICES ASSUME exited \subseteq procs', NEW e \in signaled' \ manual',
                      NEW p \in procs', state'[p] = "Blocked", inCall[p] = e
               PROVE  \E q \in procs' : /\ inCall[q] = e
                                        /\ state'[q] # "Blocked"
                                        /\ q \notin Range(waiters[e])
    BY DEF NoLostSignal, Sleeping
  <2>1. e \in signaled \ manual /\ e # 0
    BY SyncAssumption DEF WaitsSound, SyncTypeInv
  <2>2. p \in procs /\ state[p] = "Blocked"
    BY <1>1, <1>2, <2>1 DEF Effect
  <2>3. exited \subseteq procs
    OBVIOUS
  <2>4. PICK q \in procs : /\ inCall[q] = e
                           /\ state[q] # "Blocked"
                           /\ q \notin Range(waiters[e])
    BY <2>1, <2>2, <2>3 DEF WaitsSound, NoLostSignal, Sleeping
  <2>5. q \in procs'
    BY <2>1, <2>4
  <2>6. q \in Pid
    BY <2>4 DEF Table, TypeInv
  <2> QED BY <2>4, <2>5, <2>6 DEF Effect
<1> QED
  BY <1>3, <1>4, <1>5, <1>6 DEF WaitsSound

\* wait_event and join_thread up to block_current: the caller is now in the list
\* of the object and asleep.
LEMMA SleepStep ==
    ASSUME WaitsSound, Table, Table', SyncTypeInv', NEW f \in Pid, f = current, f \in procs, f \notin exited,
           NEW o \in Objects, o \notin signaled, inCall[f] = 0, hold[f][o] > 0,
           waiters' = [waiters EXCEPT ![o] = Append(@, current)],
           inCall' = [inCall EXCEPT ![f] = o],
           Effect({current}, {}), UNCHANGED <<procs, exited, hold, manual, signaled>>
    PROVE  WaitsSound'
<1>1. f = current /\ current \in procs /\ procs \in SUBSET Pid /\ 0 \notin Objects
  BY ObjectFacts DEF Table, TypeInv
<1> DEFINE s == waiters[o]
<1>2. /\ s \in Seq(Pid) /\ waiters'[o] = Append(s, f)
      /\ \A x \in Objects : x # o => waiters'[x] = waiters[x]
      /\ inCall'[f] = o /\ \A p \in Pid : p # f => inCall'[p] = inCall[p]
  BY <1>1, ObjectFacts
<1>3. /\ DOMAIN s = 1 .. Len(s) /\ Len(s) \in Nat
      /\ DOMAIN Append(s, f) = 1 .. Len(s) + 1
      /\ \A i \in DOMAIN s : Append(s, f)[i] = s[i]
      /\ Append(s, f)[Len(s) + 1] = f
      /\ Range(Append(s, f)) = Range(s) \cup {f}
  BY <1>2, AppendFacts
<1>4. \A p \in Pid : p # f /\ state'[p] = "Blocked" => state[p] = "Blocked"
  BY <1>1 DEF Effect
<1>5. SleeperQueued'
  <2> SUFFICES ASSUME NEW p \in procs, inCall'[p] # 0
               PROVE  /\ state'[p] = "Blocked" => p \in Range(waiters'[inCall'[p]])
                      /\ hold[p][inCall'[p]] > 0
    BY DEF SleeperQueued
  <2>1. CASE p = f
    BY <1>2, <1>3, <2>1
  <2>2. CASE p # f
    <3>1. p \in Pid /\ inCall'[p] = inCall[p] /\ inCall[p] \in Objects
      BY <1>1, <1>2, <2>2, ObjectFacts
    <3>2. /\ state[p] = "Blocked" => p \in Range(waiters[inCall[p]])
          /\ hold[p][inCall[p]] > 0
      BY <3>1 DEF WaitsSound, SleeperQueued
    <3>3. Range(waiters[inCall[p]]) \subseteq Range(waiters'[inCall[p]])
      BY <1>2, <1>3, <3>1
    <3> QED BY <1>4, <2>2, <3>1, <3>2, <3>3
  <2> QED BY <2>1, <2>2
<1>6. ManualWakesAll'
  BY <1>1, <1>2, <1>4 DEF WaitsSound, ManualWakesAll
<1>7. WaitersFresh'
  <2> SUFFICES ASSUME exited = {}
               PROVE  /\ state'[current'] # "Blocked"
                      /\ \A x \in Objects : \A i \in DOMAIN waiters'[x] :
                           /\ waiters'[x][i] \in procs /\ state'[waiters'[x][i]] = "Blocked"
                           /\ inCall'[waiters'[x][i]] = x
                           /\ \A j \in DOMAIN waiters'[x] :
                                waiters'[x][i] = waiters'[x][j] => i = j
    BY DEF WaitersFresh, Sleeping
  <2>1. state'[current'] # "Blocked" /\ state'[f] = "Blocked"
    BY <1>1 DEF Effect
  <2>2. \A x \in Objects : \A i \in DOMAIN waiters[x] :
          /\ waiters[x][i] \in procs /\ waiters[x][i] # f
          /\ state'[waiters[x][i]] = "Blocked" /\ inCall'[waiters[x][i]] = x
          /\ \A j \in DOMAIN waiters[x] : waiters[x][i] = waiters[x][j] => i = j
    <3> TAKE x \in Objects
    <3> TAKE i \in DOMAIN waiters[x]
    <3>1. /\ waiters[x][i] \in procs /\ state[waiters[x][i]] = "Blocked"
          /\ inCall[waiters[x][i]] = x /\ state[current] # "Blocked"
          /\ \A j \in DOMAIN waiters[x] : waiters[x][i] = waiters[x][j] => i = j
      BY DEF WaitsSound, WaitersFresh, Sleeping
    <3> QED BY <1>1, <1>2, <3>1 DEF Effect
  <2>3. ASSUME NEW x \in Objects, x # o, NEW i \in DOMAIN waiters'[x]
        PROVE  /\ waiters'[x][i] \in procs /\ state'[waiters'[x][i]] = "Blocked"
               /\ inCall'[waiters'[x][i]] = x
               /\ \A j \in DOMAIN waiters'[x] : waiters'[x][i] = waiters'[x][j] => i = j
    <3>1. waiters'[x] = waiters[x]
      BY <1>2, <2>3
    <3>2. i \in DOMAIN waiters[x]
      BY <3>1
    <3>3. /\ waiters[x][i] \in procs /\ state'[waiters[x][i]] = "Blocked"
          /\ inCall'[waiters[x][i]] = x
          /\ \A j \in DOMAIN waiters[x] : waiters[x][i] = waiters[x][j] => i = j
      BY <2>2, <3>2
    <3> QED BY Zenon, <3>1, <3>3
  <2>4. ASSUME NEW i \in DOMAIN waiters'[o]
        PROVE  /\ waiters'[o][i] \in procs /\ state'[waiters'[o][i]] = "Blocked"
               /\ inCall'[waiters'[o][i]] = o
               /\ \A j \in DOMAIN waiters'[o] : waiters'[o][i] = waiters'[o][j] => i = j
    <3> DEFINE m == Len(s) + 1
    <3>1. DOMAIN waiters'[o] = DOMAIN s \cup {m} /\ m \notin DOMAIN s
      BY <1>2, <1>3
    <3>2. \A k \in DOMAIN s :
            /\ s[k] \in procs /\ s[k] # f /\ state'[s[k]] = "Blocked" /\ inCall'[s[k]] = o
            /\ \A j \in DOMAIN s : s[k] = s[j] => k = j
      BY <2>2, Zenon
    <3>3. waiters'[o][m] = f /\ \A k \in DOMAIN s : waiters'[o][k] = s[k]
      BY <1>2, <1>3
    <3>4. f \in procs /\ inCall'[f] = o
      BY <1>1, <1>2
    <3> HIDE DEF s, m
    <3>5. CASE i = m
      <4>1. waiters'[o][i] = f
        BY <3>3, <3>5
      <4>2. \A j \in DOMAIN waiters'[o] : waiters'[o][j] = f => j = m
        BY <3>1, <3>2, <3>3
      <4> QED BY <2>1, <3>4, <3>5, <4>1, <4>2
    <3>6. CASE i \in DOMAIN s
      <4>1. waiters'[o][i] = s[i] /\ s[i] # f
        BY <3>2, <3>3, <3>6
      <4>2. \A j \in DOMAIN waiters'[o] : waiters'[o][j] = s[i] => j = i
        BY <3>1, <3>2, <3>3, <3>6
      <4> QED BY <3>2, <3>6, <4>1, <4>2
    <3> QED BY <2>4, <3>1, <3>5, <3>6, Zenon
  <2> QED BY <2>1, <2>3, <2>4
<1>8. NoLostSignal'
  <2> SUFFICES ASSUME exited \subseteq procs, NEW e \in signaled \ manual,
                      NEW p \in procs, state'[p] = "Blocked", inCall'[p] = e
               PROVE  \E q \in procs : /\ inCall'[q] = e
                                       /\ state'[q] # "Blocked"
                                       /\ q \notin Range(waiters'[e])
    BY DEF NoLostSignal, Sleeping
  <2>1. e \in Objects /\ e # o /\ e # 0 /\ waiters'[e] = waiters[e]
    BY <1>2, ObjectFacts
  <2>2. p # f /\ state[p] = "Blocked" /\ inCall[p] = e
    BY <1>1, <1>2, <1>4, <2>1
  <2>3. PICK q \in procs : /\ inCall[q] = e
                           /\ state[q] # "Blocked"
                           /\ q \notin Range(waiters[e])
    BY <2>2 DEF WaitsSound, NoLostSignal, Sleeping
  <2>4. q # f /\ q \in Pid
    BY <1>1, <2>1, <2>3
  <2> QED BY <1>2, <1>4, <2>1, <2>3, <2>4
<1> QED
  BY <1>5, <1>6, <1>7, <1>8 DEF WaitsSound

\* wait_event and join_thread after the wakeup: the caller takes the signal, or
\* takes itself off the list.
LEMMA DoneStep ==
    ASSUME WaitsSound, Table, Table', SyncTypeInv', NEW f \in Pid, f = current, f \in procs, f \notin exited,
           UNCHANGED vars,
           \A s \in Seq(Pid) : Range(Without(s, f)) = Range(s) \ {f},
           NEW o \in Objects, inCall[f] = o, inCall' = [inCall EXCEPT ![f] = 0],
           signaled' \subseteq signaled, o \in signaled' => o \in manual,
           \/ UNCHANGED waiters
           \/ /\ waiters' = [waiters EXCEPT ![o] = Without(@, current)]
              /\ current \in Range(waiters[o]),
           UNCHANGED <<hold, manual>>
    PROVE  WaitsSound'
<1>0. /\ procs \in SUBSET Pid /\ 0 \notin Objects /\ f \notin exited
      /\ UNCHANGED <<procs, state, current, exited>>
  BY ObjectFacts DEF Table, TypeInv, vars
<1>1. f = current /\ current \in procs
  OBVIOUS
<1>2. inCall'[f] = 0 /\ \A p \in Pid : p # f => inCall'[p] = inCall[p]
  BY ObjectFacts
<1>3. \A x \in Objects : /\ Range(waiters'[x]) \subseteq Range(waiters[x])
                         /\ Range(waiters[x]) \ {f} \subseteq Range(waiters'[x])
  <2>1. CASE UNCHANGED waiters
    BY <2>1
  <2>2. CASE waiters' = [waiters EXCEPT ![o] = Without(@, current)]
    <3>1. \A x \in Objects : waiters'[x] = IF x = o THEN Without(waiters[x], f) ELSE waiters[x]
      BY <1>1, <2>2, ObjectFacts
    <3>2. \A x \in Objects : Range(Without(waiters[x], f)) = Range(waiters[x]) \ {f}
      BY ObjectFacts
    <3> QED BY <3>1, <3>2
  <2> QED BY <2>1, <2>2
<1>4. exited = {} => waiters' = waiters
  BY RunnerNotQueued
<1>5. SleeperQueued'
  <2> SUFFICES ASSUME NEW p \in procs, inCall'[p] # 0
               PROVE  /\ state[p] = "Blocked" => p \in Range(waiters'[inCall'[p]])
                      /\ hold[p][inCall'[p]] > 0
    BY <1>0 DEF SleeperQueued
  <2>1. p \in Pid /\ p # f /\ inCall'[p] = inCall[p] /\ inCall[p] \in Objects
    BY <1>0, <1>2, ObjectFacts
  <2> QED BY <1>3, <2>1 DEF WaitsSound, SleeperQueued
<1>6. ManualWakesAll'
  <2> SUFFICES ASSUME NEW e \in manual \cap signaled', NEW p \in procs,
                      state[p] = "Blocked", inCall'[p] = e
               PROVE  FALSE
    BY <1>0 DEF ManualWakesAll
  <2>1. e \in signaled /\ e # 0
    BY ObjectFacts
  <2>2. inCall[p] = e
    BY <1>0, <1>2, <2>1
  <2> QED BY <2>1, <2>2 DEF WaitsSound, ManualWakesAll
<1>7. WaitersFresh'
  <2> SUFFICES ASSUME exited = {}
               PROVE  /\ state[current] # "Blocked"
                      /\ \A x \in Objects : \A i \in DOMAIN waiters[x] :
                           /\ waiters[x][i] \in procs /\ state[waiters[x][i]] = "Blocked"
                           /\ inCall'[waiters[x][i]] = x
                           /\ \A j \in DOMAIN waiters[x] : waiters[x][i] = waiters[x][j] => i = j
    BY <1>0, <1>4 DEF WaitersFresh, Sleeping
  <2>1. state[current] # "Blocked"
    BY DEF WaitsSound, WaitersFresh
  <2> QED BY <1>0, <1>1, <1>2, <2>1 DEF WaitsSound, WaitersFresh, Sleeping
<1>8. NoLostSignal'
  <2> SUFFICES ASSUME exited \subseteq procs, NEW e \in signaled' \ manual,
                      NEW p \in procs, state[p] = "Blocked", inCall'[p] = e
               PROVE  \E q \in procs : /\ inCall'[q] = e
                                       /\ state[q] # "Blocked"
                                       /\ q \notin Range(waiters'[e])
    BY <1>0 DEF NoLostSignal, Sleeping
  <2>1. e \in Objects /\ e # 0 /\ e # o /\ e \in signaled
    BY ObjectFacts
  <2>2. inCall[p] = e
    BY <1>0, <1>2, <2>1
  <2>3. PICK q \in procs : /\ inCall[q] = e
                           /\ state[q] # "Blocked"
                           /\ q \notin Range(waiters[e])
    BY <2>1, <2>2 DEF WaitsSound, NoLostSignal, Sleeping
  <2>4. q # f /\ q \in Pid
    BY <1>0, <2>1, <2>3
  <2> QED BY <1>2, <1>3, <2>1, <2>3, <2>4
<1> QED
  BY <1>5, <1>6, <1>7, <1>8 DEF WaitsSound

\* Whom signal_event takes off the list: all of them, or the last one.
Woken(e) ==
    IF e \in manual THEN Range(waiters[e])
    ELSE IF Len(waiters[e]) > 0 THEN {waiters[e][Len(waiters[e])]} ELSE {}

\* signal_event, point by point.
LEMMA SignalFacts ==
    ASSUME WaitsSound, Table, NEW f \in Pid, NEW e \in Events, SignalEvent(f, e)
    PROVE  /\ signaled' = signaled \cup {e} /\ manual' = manual /\ inCall' = inCall
           /\ procs' = procs /\ current' = current /\ exited' = exited /\ hold' = hold
           /\ Effect({}, Woken(e))
           /\ \A x \in Objects : x # e => waiters'[x] = waiters[x]
           /\ e \in manual => waiters'[e] = <<>>
           /\ e \notin manual =>
                LET n == Len(waiters[e])
                IN  /\ n > 0 => /\ DOMAIN waiters'[e] = 1 .. n - 1
                                /\ \A i \in 1 .. n - 1 : waiters'[e][i] = waiters[e][i]
                    /\ ~(n > 0) => waiters'[e] = waiters[e]
           /\ Range(waiters[e]) \subseteq Range(waiters'[e]) \cup Woken(e)
           /\ Woken(e) \subseteq Range(waiters[e])
<1> DEFINE s == waiters[e]
           n == Len(s)
           front == SubSeq(s, 1, n - 1)
<1>1. /\ signaled' = signaled \cup {e} /\ manual' = manual /\ inCall' = inCall
      /\ procs' = procs /\ current' = current /\ exited' = exited /\ hold' = hold
      /\ waiters' = [waiters EXCEPT ![e] = IF e \in manual THEN <<>>
                                           ELSE IF n > 0 THEN front ELSE @]
      /\ state' = Unblock(state, Woken(e))
  BY DEF SignalEvent, Woken
<1>2. e \in Objects /\ s \in Seq(Pid) /\ n \in Nat /\ DOMAIN s = 1 .. n /\ waiters \in [Objects -> Seq(Pid)]
  BY ObjectFacts
<1>3. n > 0 => /\ DOMAIN front = 1 .. n - 1
               /\ \A i \in DOMAIN front : front[i] = s[i]
               /\ Range(s) = Range(front) \cup {s[n]}
  BY <1>2, FrontFacts
<1>4. Woken(e) = IF e \in manual THEN Range(s) ELSE IF n > 0 THEN {s[n]} ELSE {}
  BY DEF Woken
<1>5. Effect({}, Woken(e))
  BY <1>1, WakeEffect
<1>6. ~(n > 0) => Range(s) = {}
  BY <1>2 DEF Range
<1> HIDE DEF front
<1>7. /\ \A x \in Objects : x # e => waiters'[x] = waiters[x]
      /\ waiters'[e] = IF e \in manual THEN <<>> ELSE IF n > 0 THEN front ELSE s
  BY <1>1, <1>2
<1> HIDE DEF s, n
<1>8. /\ Range(s) \subseteq Range(waiters'[e]) \cup Woken(e) /\ Woken(e) \subseteq Range(s)
  BY <1>3, <1>4, <1>6, <1>7, EmptyRange
<1>9. e \notin manual => /\ n > 0 => /\ DOMAIN waiters'[e] = 1 .. n - 1
                                     /\ \A i \in 1 .. n - 1 : waiters'[e][i] = s[i]
                         /\ ~(n > 0) => waiters'[e] = s
  BY <1>3, <1>7
<1> QED
  BY <1>1, <1>5, <1>7, <1>8, <1>9 DEF s, n

\* signal_event: whoever it leaves asleep is still in its list.
LEMMA SignalQueued ==
    ASSUME WaitsSound, Table, NEW f \in Pid, NEW e \in Events, SignalEvent(f, e)
    PROVE  SleeperQueued' /\ ManualWakesAll'
<1>1. /\ signaled' = signaled \cup {e} /\ manual' = manual /\ inCall' = inCall /\ procs' = procs /\ hold' = hold
      /\ \A x \in Objects : x # e => waiters'[x] = waiters[x]
      /\ Range(waiters[e]) \subseteq Range(waiters'[e]) \cup Woken(e)
  BY SignalFacts
<1>2. \A p \in Pid : state'[p] = "Blocked" => state[p] = "Blocked" /\ p \notin Woken(e)
  BY SignalFacts DEF Effect
<1>3. procs \in SUBSET Pid
  BY DEF Table, TypeInv
<1>4. SleeperQueued'
  <2> SUFFICES ASSUME NEW p \in procs, inCall[p] # 0
               PROVE  /\ state'[p] = "Blocked" => p \in Range(waiters'[inCall[p]])
                      /\ hold[p][inCall[p]] > 0
    BY <1>1 DEF SleeperQueued
  <2>1. p \in Pid /\ inCall[p] \in Objects
    BY <1>3, ObjectFacts
  <2>2. /\ state[p] = "Blocked" => p \in Range(waiters[inCall[p]])
        /\ hold[p][inCall[p]] > 0
    BY DEF WaitsSound, SleeperQueued
  <2>3. CASE inCall[p] = e
    BY <1>1, <1>2, <2>1, <2>2, <2>3
  <2>4. CASE inCall[p] # e
    BY <1>1, <1>2, <2>1, <2>2, <2>4
  <2> QED BY <2>3, <2>4
<1>5. ManualWakesAll'
  <2> SUFFICES ASSUME NEW x \in manual \cap signaled', NEW p \in procs,
                      state'[p] = "Blocked", inCall[p] = x
               PROVE  FALSE
    BY <1>1 DEF ManualWakesAll
  <2>1. p \in Pid /\ state[p] = "Blocked" /\ p \notin Woken(e)
    BY <1>2, <1>3
  <2>2. CASE x = e
    <3>1. x \in Objects /\ x # 0
      BY <2>2, ObjectFacts
    <3>2. p \in Range(waiters[e])
      BY <2>1, <2>2, <3>1 DEF WaitsSound, SleeperQueued
    <3>3. Woken(e) = Range(waiters[e])
      BY <2>2 DEF Woken
    <3> QED BY <2>1, <3>2, <3>3
  <2>3. CASE x # e
    BY <1>1, <2>1, <2>3 DEF WaitsSound, ManualWakesAll
  <2> QED BY <2>2, <2>3
<1> QED
  BY <1>4, <1>5

\* signal_event: while nobody has exited the lists stay lists of sleepers.
LEMMA SignalFresh ==
    ASSUME WaitsSound, Table, NEW f \in Pid, NEW e \in Events, SignalEvent(f, e)
    PROVE  WaitersFresh'
<1>1. /\ procs' = procs /\ exited' = exited /\ inCall' = inCall
      /\ \A x \in Objects : x # e => waiters'[x] = waiters[x]
      /\ Woken(e) \subseteq Range(waiters[e])
      /\ e \in Objects /\ waiters[e] \in Seq(Pid)
  BY SignalFacts, ObjectFacts
<1> SUFFICES ASSUME exited = {}
             PROVE  /\ state'[current'] # "Blocked"
                    /\ \A x \in Objects : \A i \in DOMAIN waiters'[x] :
                         /\ waiters'[x][i] \in procs /\ state'[waiters'[x][i]] = "Blocked"
                         /\ inCall[waiters'[x][i]] = x
                         /\ \A j \in DOMAIN waiters'[x] :
                              waiters'[x][i] = waiters'[x][j] => i = j
  BY <1>1 DEF WaitersFresh, Sleeping
<1>2. /\ state'[current'] # "Blocked"
      /\ \A p \in Pid : state[p] = "Blocked" /\ p \notin Woken(e) => state'[p] = "Blocked"
  BY <1>1, SignalFacts DEF Effect
<1>3. \A x \in Objects : \A i \in DOMAIN waiters[x] :
        /\ waiters[x][i] \in procs /\ state[waiters[x][i]] = "Blocked"
        /\ inCall[waiters[x][i]] = x
        /\ \A j \in DOMAIN waiters[x] : waiters[x][i] = waiters[x][j] => i = j
  BY DEF WaitsSound, WaitersFresh, Sleeping
<1>4. \A x \in Objects : \A i \in DOMAIN waiters[x] :
        waiters[x][i] \notin Woken(e) => state'[waiters[x][i]] = "Blocked"
  BY <1>2, <1>3 DEF Table, TypeInv
<1>5. \A w \in Woken(e) : inCall[w] = e
  <2> TAKE w \in Woken(e)
  <2>1. PICK k \in DOMAIN waiters[e] : w = waiters[e][k]
    BY <1>1 DEF Range
  <2> QED BY <1>1, <1>3, <2>1
<1>6. ASSUME NEW x \in Objects, x # e, NEW i \in DOMAIN waiters'[x]
      PROVE  /\ waiters'[x][i] \in procs /\ state'[waiters'[x][i]] = "Blocked"
             /\ inCall[waiters'[x][i]] = x
             /\ \A j \in DOMAIN waiters'[x] : waiters'[x][i] = waiters'[x][j] => i = j
  <2>1. waiters'[x] = waiters[x]
    BY <1>1, <1>6
  <2>2. i \in DOMAIN waiters[x]
    BY <2>1
  <2>3. waiters[x][i] \notin Woken(e)
    BY <1>3, <1>5, <1>6, <2>2
  <2>4. /\ waiters[x][i] \in procs /\ state'[waiters[x][i]] = "Blocked"
        /\ inCall[waiters[x][i]] = x
        /\ \A j \in DOMAIN waiters[x] : waiters[x][i] = waiters[x][j] => i = j
    BY <1>3, <1>4, <2>2, <2>3
  <2> QED BY <2>1, <2>4
<1>7. ASSUME NEW i \in DOMAIN waiters'[e]
      PROVE  /\ waiters'[e][i] \in procs /\ state'[waiters'[e][i]] = "Blocked"
             /\ inCall[waiters'[e][i]] = e
             /\ \A j \in DOMAIN waiters'[e] : waiters'[e][i] = waiters'[e][j] => i = j
  <2> DEFINE s == waiters[e]
             n == Len(s)
  <2>1. e \notin manual
    BY <1>7, SignalFacts
  <2>2. \A k \in DOMAIN s : /\ s[k] \in procs /\ inCall[s[k]] = e /\ state[s[k]] = "Blocked"
                            /\ s[k] \notin Woken(e) => state'[s[k]] = "Blocked"
                            /\ \A j \in DOMAIN s : s[k] = s[j] => k = j
    BY <1>1, <1>3, <1>4
  <2>3. DOMAIN s = 1 .. n /\ n \in Nat
    BY SMTT(30), <1>1
  <2>4. /\ n > 0 => /\ DOMAIN waiters'[e] = 1 .. n - 1
                    /\ \A k \in 1 .. n - 1 : waiters'[e][k] = s[k]
        /\ ~(n > 0) => waiters'[e] = s
    BY <2>1, SignalFacts
  <2>5. Woken(e) = IF n > 0 THEN {s[n]} ELSE {}
    BY <2>1 DEF Woken
  <2> HIDE DEF s, n
  <2>6. CASE n > 0
    <3>1. i \in 1 .. n - 1 /\ i \in DOMAIN s /\ n \in DOMAIN s /\ i # n
      BY <1>7, <2>3, <2>4, <2>6
    <3>2. s[i] \notin Woken(e)
      BY <2>2, <2>5, <2>6, <3>1
    <3>3. \A j \in DOMAIN waiters'[e] : j \in DOMAIN s /\ waiters'[e][j] = s[j]
      BY <2>3, <2>4, <2>6
    <3> QED BY <2>2, <3>1, <3>2, <3>3
  <2>7. CASE ~(n > 0)
    BY <1>7, <2>2, <2>4, <2>5, <2>7
  <2> QED BY <2>6, <2>7
<1> QED
  BY <1>2, <1>6, <1>7

\* signal_event: of an auto-reset event with sleepers, the one taken off the list
\* is on the way to take the signal.
LEMMA SignalTaken ==
    ASSUME WaitsSound, Table, NEW f \in Pid, NEW e \in Events, SignalEvent(f, e),
           exited \subseteq procs => exited = {}
    PROVE  NoLostSignal'
<1>1. /\ signaled' = signaled \cup {e} /\ manual' = manual
      /\ procs' = procs /\ exited' = exited /\ inCall' = inCall
      /\ \A x \in Objects : x # e => waiters'[x] = waiters[x]
  BY SignalFacts
<1>2. \A p \in Pid : state'[p] = "Blocked" => state[p] = "Blocked" /\ p \notin Woken(e)
  BY SignalFacts DEF Effect
<1>3. procs \in SUBSET Pid /\ e \in Objects /\ waiters[e] \in Seq(Pid) /\ 0 \notin Objects /\ signaled \subseteq Objects
  BY ObjectFacts DEF Table, TypeInv
<1> SUFFICES ASSUME exited \subseteq procs, NEW x \in signaled' \ manual,
                    NEW p \in procs, state'[p] = "Blocked", inCall[p] = x
             PROVE  \E q \in procs : /\ inCall[q] = x
                                     /\ state'[q] # "Blocked"
                                     /\ q \notin Range(waiters'[x])
  BY <1>1 DEF NoLostSignal, Sleeping
<1>4. p \in Pid /\ state[p] = "Blocked" /\ p \notin Woken(e)
  BY <1>2, <1>3
<1>5. CASE x # e
  <2>1. x \in signaled /\ waiters'[x] = waiters[x]
    BY <1>1, <1>3, <1>5
  <2>2. PICK q \in procs : /\ inCall[q] = x
                           /\ state[q] # "Blocked"
                           /\ q \notin Range(waiters[x])
    BY <1>4, <2>1 DEF WaitsSound, NoLostSignal, Sleeping
  <2>3. q \in Pid /\ state'[q] # "Blocked"
    BY <1>2, <1>3, <2>2
  <2> QED BY <2>1, <2>2, <2>3
<1>6. CASE x = e
  <2> DEFINE s == waiters[e]
             n == Len(s)
  <2>1. e \notin manual /\ e # 0
    BY <1>3, <1>6
  <2>2. p \in Range(s)
    BY <1>4, <1>6, <2>1 DEF WaitsSound, SleeperQueued
  <2>3. DOMAIN s = 1 .. n /\ n \in Nat
    BY <1>3
  <2>4. DOMAIN s # {}
    BY <2>2 DEF Range
  <2>5. n > 0 /\ n \in DOMAIN s
    BY <2>3, <2>4
  <2>6. /\ s[n] \in procs /\ inCall[s[n]] = e
        /\ \A j \in DOMAIN s : s[n] = s[j] => n = j
    BY <1>3, <2>5 DEF WaitsSound, WaitersFresh, Sleeping
  <2>7. Woken(e) = {s[n]}
    BY <2>1, <2>5 DEF Woken
  <2>8. state'[s[n]] # "Blocked"
    BY <1>2, <1>3, <2>6, <2>7
  <2>9. DOMAIN waiters'[e] = 1 .. n - 1 /\ \A j \in 1 .. n - 1 : waiters'[e][j] = s[j]
    BY <2>1, <2>5, SignalFacts
  <2> HIDE DEF s, n
  <2>10. \A j \in 1 .. n - 1 : j \in DOMAIN s /\ j # n
    BY <2>3
  <2>11. s[n] \notin Range(waiters'[e])
    BY <2>6, <2>9, <2>10 DEF Range
  <2> QED BY <1>6, <2>6, <2>8, <2>11
<1> QED
  BY SMTT(30), <1>5, <1>6

\* signal_event keeps the waits sound.
LEMMA SignalStep ==
    ASSUME WaitsSound, Table, SyncTypeInv', NEW f \in Pid, NEW e \in Events, SignalEvent(f, e),
           exited \subseteq procs => exited = {}
    PROVE  WaitsSound'
BY SignalQueued, SignalFresh, SignalTaken DEF WaitsSound

\* A process dies: the waiters of its objects, W, are awake, and its own handles
\* are the only ones that change.
LEMMA DyingWaits ==
    ASSUME WaitsSound, Table, SyncTypeInv', NEW f \in Pid, inCall[f] = 0, NEW W,
           \A p \in Pid : state'[p] = "Blocked" => state[p] = "Blocked" /\ p \notin W,
           \A o \in Objects : /\ Range(waiters'[o]) \subseteq Range(waiters[o])
                              /\ Range(waiters[o]) \subseteq Range(waiters'[o]) \cup W,
           \A p \in Pid : p # f => hold'[p] = hold[p],
           exited' # {}, exited' \subseteq procs => exited \subseteq procs,
           procs' = procs, inCall' = inCall, manual' = manual, signaled' = signaled
    PROVE  WaitsSound'
<1>1. procs \in SUBSET Pid /\ 0 \notin Objects
  BY ObjectFacts DEF Table, TypeInv
<1>2. SleeperQueued'
  <2> SUFFICES ASSUME NEW p \in procs, inCall[p] # 0
               PROVE  /\ state'[p] = "Blocked" => p \in Range(waiters'[inCall[p]])
                      /\ hold'[p][inCall[p]] > 0
    BY DEF SleeperQueued
  <2>1. p \in Pid /\ inCall[p] \in Objects /\ p # f
    BY <1>1, ObjectFacts
  <2>2. /\ state[p] = "Blocked" => p \in Range(waiters[inCall[p]])
        /\ hold[p][inCall[p]] > 0
    BY DEF WaitsSound, SleeperQueued
  <2>3. state'[p] = "Blocked" => p \in Range(waiters'[inCall[p]])
    BY <2>1, <2>2
  <2> QED BY <2>1, <2>2, <2>3
<1>3. ManualWakesAll'
  BY <1>1 DEF WaitsSound, ManualWakesAll
<1>4. WaitersFresh'
  BY DEF WaitersFresh
<1>5. NoLostSignal'
  <2> SUFFICES ASSUME exited \subseteq procs, NEW e \in signaled \ manual,
                      NEW p \in procs, state'[p] = "Blocked", inCall[p] = e
               PROVE  \E q \in procs : /\ inCall[q] = e
                                       /\ state'[q] # "Blocked"
                                       /\ q \notin Range(waiters'[e])
    BY DEF NoLostSignal, Sleeping
  <2>1. p \in Pid /\ state[p] = "Blocked" /\ e \in Objects
    BY <1>1, ObjectFacts
  <2>2. PICK q \in procs : /\ inCall[q] = e
                           /\ state[q] # "Blocked"
                           /\ q \notin Range(waiters[e])
    BY <2>1 DEF WaitsSound, NoLostSignal, Sleeping
  <2>3. q \in Pid /\ state'[q] # "Blocked" /\ q \notin Range(waiters'[e])
    BY <1>1, <2>1, <2>2
  <2> QED BY <2>2, <2>3
<1> QED
  BY <1>2, <1>3, <1>4, <1>5 DEF WaitsSound

\* exit and exit_thread empty the lists of the objects D and wake all who were in
\* them.
LEMMA DyingStep ==
    ASSUME WaitsSound, Table, SyncTypeInv', NEW f \in Pid, f = current,
           inCall[f] = 0, NEW D \in SUBSET Objects, NEW W, Effect({}, W),
           \A o \in D : Range(waiters[o]) \subseteq W,
           waiters' = [o \in Objects |-> IF o \in D THEN <<>> ELSE waiters[o]],
           hold' = [hold EXCEPT ![current] = [o \in Objects |-> 0]],
           exited' = exited \cup {f}, UNCHANGED <<procs, manual, signaled, inCall>>
    PROVE  WaitsSound'
<1>1. \A p \in Pid : state'[p] = "Blocked" => state[p] = "Blocked" /\ p \notin W
  BY DEF Effect
<1>2. \A o \in Objects : /\ Range(waiters'[o]) \subseteq Range(waiters[o])
                         /\ Range(waiters[o]) \subseteq Range(waiters'[o]) \cup W
  <2> TAKE o \in Objects
  <2>1. CASE o \in D
    <3>1. waiters'[o] = <<>>
      BY <2>1
    <3> QED BY <2>1, <3>1, EmptyRange
  <2>2. CASE o \notin D
    <3>1. waiters'[o] = waiters[o]
      BY <2>2
    <3> QED BY <3>1
  <2> QED BY <2>1, <2>2
<1>3. \A p \in Pid : p # f => hold'[p] = hold[p]
  BY SMTT(30) DEF WaitsSound, SyncTypeInv
<1>4. exited' # {} /\ (exited' \subseteq procs => exited \subseteq procs)
  OBVIOUS
<1>5. procs' = procs /\ inCall' = inCall /\ manual' = manual /\ signaled' = signaled
  OBVIOUS
<1> QED
  BY <1>1, <1>2, <1>3, <1>4, <1>5, DyingWaits

\* The types the lemmas about the single syscalls rest on.
LEMMA TypeFacts ==
    ASSUME WaitsSound, Table
    PROVE  /\ hold \in [Pid -> [Objects -> 0 .. MaxHandles]]
           /\ \A p \in Pid, e \in Events \ created : hold[p][e] = 0
           /\ created \subseteq Events /\ manual \subseteq created /\ signaled \subseteq created
           /\ waiters \in [Objects -> Seq(Pid)]
           /\ exitCode \subseteq Pid
           /\ inCall \in [Pid -> Objects \cup {0}]
           /\ current \in Pid /\ MaxHandles \in Nat \ {0} /\ Events \subseteq Objects /\ Pid \subseteq Objects
           /\ <<>> \in Seq(Pid) /\ procs \in SUBSET Pid
<1>1. SyncTypeInv
  BY DEF WaitsSound
<1>2. /\ current \in Pid /\ MaxHandles \in Nat \ {0} /\ Events \subseteq Objects /\ Pid \subseteq Objects
      /\ <<>> \in Seq(Pid) /\ procs \in SUBSET Pid
  BY SyncAssumption DEF Table, TypeInv, Objects
<1> QED
  BY <1>1, <1>2 DEF SyncTypeInv

\* create_event: the creator has the one handle of a new event.
LEMMA CreateEventTypes ==
    ASSUME WaitsSound, Table, NEW f \in Pid, NEW e \in Events, CreateEvent(f, e)
    PROVE  SyncTypeInv'
<1>1. /\ hold' = [hold EXCEPT ![current] = [hold[current] EXCEPT ![e] = 1]]
      /\ created' = created \cup {e} /\ 1 \in 0 .. MaxHandles /\ e \in Objects
  BY TypeFacts DEF CreateEvent
<1>2. /\ hold' \in [Pid -> [Objects -> 0 .. MaxHandles]]
      /\ \A q \in Pid, x \in Objects : q # current \/ x # e => hold'[q][x] = hold[q][x]
  BY TypeFacts, <1>1, CountChange
<1>3. \A p \in Pid, x \in Events \ created' : hold'[p][x] = 0
  BY TypeFacts, <1>1, <1>2
<1> QED BY TypeFacts, <1>2, <1>3 DEF CreateEvent, SyncTypeInv

\* A caller appends itself to the list of an object.
LEMMA SleepTypes ==
    ASSUME WaitsSound, Table, NEW f \in Pid, NEW o \in Objects, inCall' = [inCall EXCEPT ![f] = o],
           waiters' = [waiters EXCEPT ![o] = Append(@, current)],
           UNCHANGED <<hold, created, manual, signaled, exitCode>>
    PROVE  SyncTypeInv'
<1>1. waiters' \in [Objects -> Seq(Pid)]
  <2>1. Append(waiters[o], current) \in Seq(Pid)
    BY TypeFacts, AppendFacts
  <2> QED BY TypeFacts, <2>1
<1>2. inCall' \in [Pid -> Objects \cup {0}]
  BY TypeFacts
<1> QED BY TypeFacts, <1>1, <1>2 DEF SyncTypeInv

\* wait_event: a signaled event is consumed, else the caller queues.
LEMMA WaitEventTypes ==
    ASSUME WaitsSound, Table, NEW f \in Pid, NEW e \in Events, WaitEvent(f, e)
    PROVE  SyncTypeInv'
<1>1. CASE e \in signaled
  BY TypeFacts, <1>1 DEF WaitEvent, Consume, SyncTypeInv
<1>2. CASE e \notin signaled
  BY TypeFacts, SleepTypes, <1>2 DEF WaitEvent
<1> QED BY <1>1, <1>2

\* wait_event after the wakeup.
LEMMA WaitEventDoneTypes ==
    ASSUME WaitsSound, Table, NEW f \in Pid, WaitEventDone(f),
           \A s \in Seq(Pid), p \in Pid : Without(s, p) \in Seq(Pid)
    PROVE  SyncTypeInv'
<1>1. inCall' \in [Pid -> Objects \cup {0}] /\ UNCHANGED <<hold, created, manual, exitCode>>
  BY TypeFacts DEF WaitEventDone
<1>2. signaled' \subseteq signaled
  BY DEF WaitEventDone, Consume
<1>3. waiters' \in [Objects -> Seq(Pid)]
  <2>1. CASE UNCHANGED waiters
    BY TypeFacts, <2>1
  <2>2. CASE waiters' = [waiters EXCEPT ![inCall[f]] = Without(@, current)]
    <3>1. inCall[f] \in Objects
      BY TypeFacts DEF WaitEventDone
    <3>2. Without(waiters[inCall[f]], current) \in Seq(Pid)
      BY TypeFacts, <3>1
    <3> QED BY TypeFacts, <2>2, <3>1, <3>2
  <2> QED BY <2>1, <2>2 DEF WaitEventDone
<1> QED BY TypeFacts, <1>1, <1>2, <1>3 DEF SyncTypeInv

\* signal_event.
LEMMA SignalEventTypes ==
    ASSUME WaitsSound, Table, NEW f \in Pid, NEW e \in Events, SignalEvent(f, e)
    PROVE  SyncTypeInv'
<1> DEFINE s == waiters[e]
           new == IF e \in manual THEN <<>>
                  ELSE IF Len(s) > 0 THEN SubSeq(s, 1, Len(s) - 1) ELSE s
<1>1. new \in Seq(Pid)
  BY TypeFacts, FrontFacts
<1>2. waiters' = [waiters EXCEPT ![e] = new]
  BY DEF SignalEvent
<1>3. waiters' \in [Objects -> Seq(Pid)]
  <2> HIDE DEF new
  <2> QED BY TypeFacts, <1>1, <1>2
<1>4. e \in created
  BY TypeFacts DEF SignalEvent, Has
<1> QED BY TypeFacts, <1>3, <1>4 DEF SignalEvent, SyncTypeInv

\* create_thread.
LEMMA CreateThreadTypes ==
    ASSUME WaitsSound, Table, NEW f \in Pid, CreateThread(f)
    PROVE  SyncTypeInv'
<1>1. CASE procs' = procs
  BY TypeFacts, <1>1 DEF CreateThread, SyncTypeInv
<1>2. CASE procs' # procs
  <2>1. nextPid \in Pid
    BY SchedulerAssumption DEF CreateThread, AddProcess, Table, TypeInv, Pid
  <2>2. /\ hold' = [hold EXCEPT ![current] = [hold[current] EXCEPT ![nextPid] = 1]]
        /\ 1 \in 0 .. MaxHandles /\ nextPid \in Objects
    BY TypeFacts, <1>2, <2>1 DEF CreateThread
  <2>3. /\ hold' \in [Pid -> [Objects -> 0 .. MaxHandles]]
        /\ \A q \in Pid, x \in Objects : q # current \/ x # nextPid => hold'[q][x] = hold[q][x]
    BY TypeFacts, <2>2, CountChange
  <2>4. \A p \in Pid, e \in Events \ created : hold'[p][e] = 0
    <3>1. nextPid \notin Events
      BY <2>1, SyncAssumption
    <3> QED BY TypeFacts, <2>3, <3>1
  <2>5. /\ exitCode' \subseteq Pid /\ UNCHANGED <<created, manual, signaled, waiters, inCall>>
    BY TypeFacts DEF CreateThread
  <2> QED BY TypeFacts, <2>3, <2>4, <2>5 DEF SyncTypeInv
<1> QED BY <1>1, <1>2

\* join_thread.
LEMMA JoinThreadTypes ==
    ASSUME WaitsSound, Table, NEW f \in Pid, NEW t \in Pid, JoinThread(f, t)
    PROVE  SyncTypeInv'
BY TypeFacts, SleepTypes DEF JoinThread

\* join_thread after the wakeup.
LEMMA JoinThreadDoneTypes ==
    ASSUME WaitsSound, Table, NEW f \in Pid, JoinThreadDone(f)
    PROVE  SyncTypeInv'
<1>1. inCall' \in [Pid -> Objects \cup {0}]
  BY TypeFacts DEF JoinThreadDone
<1> QED BY TypeFacts, <1>1 DEF JoinThreadDone, SyncTypeInv

\* A step that changes handles only.
LEMMA HandleTypes ==
    ASSUME WaitsSound, Table, hold' \in [Pid -> [Objects -> 0 .. MaxHandles]],
           \A p \in Pid, e \in Events \ created : hold'[p][e] = 0,
           UNCHANGED <<created, manual, signaled, waiters, exitCode, inCall>>
    PROVE  SyncTypeInv'
BY TypeFacts DEF SyncTypeInv

\* handle_duplicate.
LEMMA DuplicateTypes ==
    ASSUME WaitsSound, Table, NEW f \in Pid, NEW o \in Objects, Duplicate(f, o)
    PROVE  SyncTypeInv'
<1>1. hold[current][o] > 0 /\ hold[current][o] < MaxHandles /\ hold[current][o] \in 0 .. MaxHandles
  BY TypeFacts DEF Duplicate, Has
<1>2. /\ hold' = [hold EXCEPT ![current] = [hold[current] EXCEPT ![o] = hold[current][o] + 1]]
      /\ hold[current][o] + 1 \in 0 .. MaxHandles
  <2>1. hold' = [hold EXCEPT ![current] = [hold[current] EXCEPT ![o] = hold[current][o] + 1]]
    BY DEF Duplicate
  <2>2. hold[current][o] + 1 \in 0 .. MaxHandles
    BY TypeFacts, <1>1
  <2> QED BY <2>1, <2>2
<1>3. /\ hold' \in [Pid -> [Objects -> 0 .. MaxHandles]]
      /\ \A q \in Pid, x \in Objects : q # current \/ x # o => hold'[q][x] = hold[q][x]
  BY TypeFacts, <1>2, CountChange
<1>4. \A p \in Pid, e \in Events \ created : hold'[p][e] = 0
  <2>1. o \notin Events \ created
    BY TypeFacts, <1>1
  <2> QED BY TypeFacts, <1>3, <2>1
<1> QED BY HandleTypes, <1>3, <1>4 DEF Duplicate

\* handle_transfer.
LEMMA TransferTypes ==
    ASSUME WaitsSound, Table, NEW f \in Pid, NEW o \in Objects, NEW q \in Pid, Transfer(f, o, q)
    PROVE  SyncTypeInv'
<1>1. /\ hold[current][o] > 0 /\ hold[current][o] \in 0 .. MaxHandles
      /\ hold[q][o] < MaxHandles /\ hold[q][o] \in 0 .. MaxHandles /\ q # current
      /\ hold[current] \in [Objects -> 0 .. MaxHandles] /\ hold[q] \in [Objects -> 0 .. MaxHandles]
      /\ hold[current][o] - 1 \in 0 .. MaxHandles /\ hold[q][o] + 1 \in 0 .. MaxHandles
  <2>1. hold[current][o] > 0 /\ hold[q][o] < MaxHandles /\ q # current
    BY DEF Transfer, Has
  <2>2. hold[current] \in [Objects -> 0 .. MaxHandles] /\ hold[q] \in [Objects -> 0 .. MaxHandles]
    BY TypeFacts
  <2>3. hold[current][o] \in 0 .. MaxHandles /\ hold[q][o] \in 0 .. MaxHandles
    BY <2>2
  <2>4. MaxHandles \in Nat
    BY SyncAssumption
  <2> QED BY <2>1, <2>2, <2>3, <2>4, OneMoves, Zenon
<1> DEFINE mine == [hold[current] EXCEPT ![o] = @ - 1]
           theirs == [hold[q] EXCEPT ![o] = @ + 1]
<1>2. /\ mine \in [Objects -> 0 .. MaxHandles] /\ theirs \in [Objects -> 0 .. MaxHandles]
      /\ \A x \in Objects : x # o => mine[x] = hold[current][x] /\ theirs[x] = hold[q][x]
  BY <1>1
<1>3. hold' \in [Pid -> [Objects -> 0 .. MaxHandles]] /\ hold'[current] = mine /\ hold'[q] = theirs
      /\ \A p \in Pid : p # current /\ p # q => hold'[p] = hold[p]
  <2>1. hold' = [[hold EXCEPT ![current] = mine] EXCEPT ![q] = theirs]
    BY TypeFacts, <1>1 DEF Transfer
  <2> HIDE DEF mine, theirs
  <2> QED BY TypeFacts, <1>1, <1>2, <2>1
<1>4. \A p \in Pid, e \in Events \ created : hold'[p][e] = 0
  <2>1. \A e \in Events \ created : e # o /\ e \in Objects
    BY TypeFacts, <1>1
  <2> HIDE DEF mine, theirs
  <2>2. \A e \in Events \ created : mine[e] = 0 /\ theirs[e] = 0
    BY TypeFacts, <1>2, <2>1
  <2> QED BY TypeFacts, <1>3, <2>2
<1> QED BY HandleTypes, <1>3, <1>4 DEF Transfer

\* handle_revoke.
LEMMA RevokeTypes ==
    ASSUME WaitsSound, Table, NEW f \in Pid, NEW o \in Objects, Revoke(f, o)
    PROVE  SyncTypeInv'
<1>1. hold[current][o] > 0 /\ hold[current][o] \in 0 .. MaxHandles
  BY TypeFacts DEF Revoke, Has
<1>2. /\ hold' = [hold EXCEPT ![current] = [hold[current] EXCEPT ![o] = hold[current][o] - 1]]
      /\ hold[current][o] - 1 \in 0 .. MaxHandles
  <2>1. hold' = [hold EXCEPT ![current] = [hold[current] EXCEPT ![o] = hold[current][o] - 1]]
    BY DEF Revoke
  <2>2. hold[current][o] - 1 \in 0 .. MaxHandles
    BY TypeFacts, <1>1
  <2> QED BY <2>1, <2>2
<1>3. /\ hold' \in [Pid -> [Objects -> 0 .. MaxHandles]]
      /\ \A q \in Pid, x \in Objects : q # current \/ x # o => hold'[q][x] = hold[q][x]
  BY TypeFacts, <1>2, CountChange
<1>4. \A p \in Pid, e \in Events \ created : hold'[p][e] = 0
  <2>1. o \notin Events \ created
    BY TypeFacts, <1>1
  <2> QED BY TypeFacts, <1>3, <2>1
<1> QED BY HandleTypes, <1>3, <1>4 DEF Revoke

\* A process dies.
LEMMA DyingTypes ==
    ASSUME WaitsSound, Table, hold' = [hold EXCEPT ![current] = [o \in Objects |-> 0]],
           NEW D, waiters' = [o \in Objects |-> IF o \in D THEN <<>> ELSE waiters[o]],
           exitCode' \subseteq Pid, UNCHANGED <<created, manual, signaled, inCall>>
    PROVE  SyncTypeInv'
<1>1. /\ hold' \in [Pid -> [Objects -> 0 .. MaxHandles]]
      /\ \A p \in Pid, e \in Events \ created : hold'[p][e] = 0
  <2> DEFINE none == [o \in Objects |-> 0]
  <2>1. none \in [Objects -> 0 .. MaxHandles] /\ \A e \in Events : none[e] = 0
    BY SMTT(30), TypeFacts
  <2>2. hold' = [hold EXCEPT ![current] = none]
    OBVIOUS
  <2> HIDE DEF none
  <2> QED BY TypeFacts, <2>1, <2>2
<1>2. waiters' \in [Objects -> Seq(Pid)]
  BY TypeFacts
<1> QED BY TypeFacts, <1>1, <1>2 DEF SyncTypeInv

\* exit_thread.
LEMMA ExitThreadTypes ==
    ASSUME WaitsSound, Table, NEW f \in Pid, ExitThread(f)
    PROVE  SyncTypeInv'
<1> DEFINE known == \E p \in procs : hold[p][current] > 0
           D == {o \in Objects : o \in Held \/ (known /\ o = current)}
<1>1. waiters' = [o \in Objects |-> IF o \in D THEN <<>> ELSE waiters[o]]
  BY DEF ExitThread
<1>2. exitCode' \subseteq Pid
  BY TypeFacts DEF ExitThread
<1> HIDE DEF D
<1> QED BY DyingTypes, <1>1, <1>2 DEF ExitThread, Terminate

\* The recovery from an exception.
LEMMA SyncFaultTypes ==
    ASSUME WaitsSound, Table, NEW f \in Pid, SyncFault(f)
    PROVE  SyncTypeInv'
<1>1. hold' = [p \in Pid |-> IF p \in procs' THEN hold[p] ELSE [o \in Objects |-> 0]]
  BY DEF SyncFault
<1>2. /\ hold' \in [Pid -> [Objects -> 0 .. MaxHandles]]
      /\ \A p \in Pid, e \in Events \ created : hold'[p][e] = 0
  <2> DEFINE none == [o \in Objects |-> 0]
  <2>1. none \in [Objects -> 0 .. MaxHandles] /\ \A e \in Events : none[e] = 0
    BY TypeFacts
  <2> HIDE DEF none
  <2>2. \A p \in Pid : hold'[p] = IF p \in procs' THEN hold[p] ELSE none
    BY <1>1 DEF none
  <2>3. hold' \in [Pid -> [Objects -> 0 .. MaxHandles]]
    BY TypeFacts, <1>1, <2>1 DEF none
  <2> QED BY TypeFacts, <2>1, <2>2, <2>3
<1> QED BY HandleTypes, <1>2 DEF SyncFault

\* Every syscall keeps the types of the objects' variables.
LEMMA TypeStep ==
    ASSUME WaitsSound, Table, NEW f \in Pid, SyncStep(f),
           \A s \in Seq(Pid), p \in Pid : Without(s, p) \in Seq(Pid)
    PROVE  SyncTypeInv'
<1>1. CASE Plain(f)
  BY <1>1, TypeFacts DEF Plain, syncVars, SyncTypeInv
<1>2. CASE SyncExit(f)
  <2>1. /\ hold' = [hold EXCEPT ![current] = [o \in Objects |-> 0]]
        /\ waiters' = [o \in Objects |-> IF o \in Held THEN <<>> ELSE waiters[o]]
        /\ exitCode' \subseteq Pid /\ UNCHANGED <<created, manual, signaled, inCall>>
    BY <1>2, TypeFacts DEF SyncExit, Terminate
  <2> QED BY <2>1, DyingTypes
<1> QED
  BY <1>1, <1>2, CreateEventTypes, WaitEventTypes, WaitEventDoneTypes, SignalEventTypes, CreateThreadTypes,
     JoinThreadTypes, JoinThreadDoneTypes, DuplicateTypes, TransferTypes, RevokeTypes, ExitThreadTypes,
     SyncFaultTypes DEF SyncStep
================================================================================
