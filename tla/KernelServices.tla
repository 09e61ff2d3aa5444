---------------------------- MODULE KernelServices -----------------------------
(***************************************************************************)
(* Services of the kernel: the log with its ring, the trace and the event  *)
(* bus, and the queue of timers. The two parts share no state.             *)
(***************************************************************************)
EXTENDS Integers, Sequences, FiniteSets, SequencesExt

(***************************************************************************)
(* KernelLog.  The kernel's three bounded memories of what happened: the   *)
(* text ring that dmesg and the boot log read (fullerene-                  *)
(* kernel/src/klog.rs, fed by the logger of                                *)
(* petroleum/src/common/logging.rs), the trace ring of                     *)
(* resonance/src/tracing.rs, and the event queues of contexts/event.rs     *)
(* with the dispatcher that empties them.  A behaviour uses one of the     *)
(* three (klUse): they share nothing. A byte of the log is the number of   *)
(* the message it belongs to; a message is written byte by byte because    *)
(* the Display code that formats it may log again in the middle.           *)
(***************************************************************************)

CONSTANTS KlCapacity,   \* KLOG_CAPACITY
          KlLine,       \* the logger's 256-byte line buffer
          KlBytes,      \* bound: bytes logged in a behaviour
          TrCapacity,   \* TRACE_CAPACITY
          TrEvents,     \* bound: trace records in a behaviour
          EvMax,        \* MAX_EVENTS of the system queue
          EvEvents,     \* bound: events pushed in a behaviour
          EvHandlers    \* handlers registered with the dispatcher, in order 1..n

ASSUME KlAssumption ==
  /\ {KlCapacity, KlLine, TrCapacity, EvMax} \subseteq Nat \ {0}
  /\ {KlBytes, TrEvents, EvEvents, EvHandlers} \subseteq Nat

VARIABLES klUse,
          klBuf, klHead, klLen,  \* KLOG_BUF
          klIn,                  \* IN_KLOG
          klHeld,                \* somebody holds the KLOG_BUF lock
          klLeft,                \* <<message, bytes left>> of the open call, or <<>>
          klWaits,               \* a nested call spins on the lock its caller holds
          klFile,                \* the bytes last saved to /bootlog/Bootlog.txt, or <<>>
          klLog,                 \* history: every byte put into the ring
          klSerial,              \* history: messages sent to the serial port only
          trRing, trNext, trLen, trSeq,  \* TRACE_BUFFER
          trSince,               \* history: sequence number at the last clear
          evQueue, evSystem,     \* EventContext
          evAll,                 \* history: every event pushed
          evDone,                \* history: how many of them the last process saw
          evSeen                 \* history: the events each handler was given

logVars == <<klBuf, klHead, klLen, klIn, klHeld, klLeft, klWaits, klFile, klLog, klSerial>>
traceVars == <<trRing, trNext, trLen, trSeq, trSince>>
eventVars == <<evQueue, evSystem, evAll, evDone, evSeen>>
klVars == <<klUse, logVars, traceVars, eventVars>>

KlInit ==
  /\ klUse \in {"log", "trace", "events"}
  /\ klBuf = [i \in 0..KlCapacity - 1 |-> 0] /\ klHead = 0 /\ klLen = 0
  /\ klIn = FALSE /\ klHeld = FALSE /\ klLeft = <<>> /\ klWaits = FALSE
  /\ klFile = <<>> /\ klLog = <<>> /\ klSerial = {}
  /\ trRing = [i \in 0..TrCapacity - 1 |-> 0]
  /\ trNext = 0 /\ trLen = 0 /\ trSeq = 1 /\ trSince = 1
  /\ evQueue = <<>> /\ evSystem = <<>> /\ evAll = <<>> /\ evDone = 0
  /\ evSeen = [h \in 1..EvHandlers |-> <<>>]

-----------------------------------------------------------------------------
(* The text ring *)

(* Where the next byte goes: behind the newest while there is room, else     *)
(* over the oldest.                                                          *)
PutAt == IF klLen < KlCapacity THEN (klHead + klLen) % KlCapacity ELSE klHead

PushByte(b) ==
  /\ klBuf' = [klBuf EXCEPT ![PutAt] = b]
  /\ IF klLen < KlCapacity
     THEN klLen' = klLen + 1 /\ klHead' = klHead
     ELSE klHead' = (klHead + 1) % KlCapacity /\ klLen' = klLen
  /\ klLog' = Append(klLog, b)

(* snapshot and write_to copy the ring in two slices when it wraps.          *)
Slice(a, b) == [i \in 1..b - a |-> klBuf[a + i - 1]]
Snapshot ==
  LET end == klHead + klLen
  IN IF end <= KlCapacity THEN Slice(klHead, end)
     ELSE Slice(klHead, KlCapacity) \o Slice(0, end % KlCapacity)

(* log::info! and the like: formatted into the line buffer, cut at its end,  *)
(* sent to the serial port and handed to write_bytes through LOG_HOOK.       *)
MessageNumber == Cardinality({klLog[i] : i \in DOMAIN klLog}) + Cardinality(klSerial) + 1
Smaller(a, b) == IF a < b THEN a ELSE b

(* write_fmt and write_bytes up to taking the lock.                          *)
WriteOpens(n) ==
  /\ klUse = "log" /\ klLeft = <<>> /\ ~klWaits
  /\ Len(klLog) + Smaller(n, KlLine) <= KlBytes
  /\ klIn' = TRUE /\ klHeld' = TRUE
  /\ klLeft' = <<MessageNumber, Smaller(n, KlLine)>>
  /\ UNCHANGED <<klBuf, klHead, klLen, klWaits, klFile, klLog, klSerial>>

WriteByte ==
  /\ klLeft # <<>> /\ ~klWaits /\ klLeft[2] > 0
  /\ PushByte(klLeft[1])
  /\ klLeft' = <<klLeft[1], klLeft[2] - 1>>
  /\ UNCHANGED <<klIn, klHeld, klWaits, klFile, klSerial>>

(* drop(guard), then IN_KLOG is cleared.                                     *)
WriteCloses ==
  /\ klLeft # <<>> /\ ~klWaits /\ klLeft[2] = 0
  /\ klIn' = FALSE /\ klHeld' = FALSE /\ klLeft' = <<>>
  /\ UNCHANGED <<klBuf, klHead, klLen, klWaits, klFile, klLog, klSerial>>

(* The Display code of an argument logs while its message is being written:  *)
(* IN_KLOG sends the nested message to the serial port; without it the call  *)
(* would go for the lock, and spin when its own caller holds it.             *)
NestedGoesOn == ~klIn
NestedLog ==
  /\ klLeft # <<>> /\ ~klWaits /\ klLeft[2] > 0 /\ Cardinality(klSerial) < 2
  /\ klWaits' = (NestedGoesOn /\ klHeld)
  /\ klSerial' = IF NestedGoesOn THEN klSerial ELSE klSerial \cup {klLeft}
  /\ IF NestedGoesOn /\ ~klHeld THEN PushByte(MessageNumber + 1)
     ELSE UNCHANGED <<klBuf, klHead, klLen, klLog>>
  /\ UNCHANGED <<klIn, klHeld, klLeft, klFile>>

(* flush_to_vfs: the snapshot is saved between the header and the trailer.   *)
FlushToVfs ==
  /\ klUse = "log" /\ klLeft = <<>> /\ ~klWaits
  /\ klFile' = Snapshot
  /\ UNCHANGED <<klBuf, klHead, klLen, klIn, klHeld, klLeft, klWaits, klLog, klSerial>>

-----------------------------------------------------------------------------
(* The trace ring *)

Advance(i) == (i + 1) % TrCapacity
TraceRecord ==
  /\ klUse = "trace" /\ trSeq <= TrEvents
  /\ trRing' = [trRing EXCEPT ![trNext] = trSeq]
  /\ trNext' = Advance(trNext)
  /\ trLen' = Smaller(trLen + 1, TrCapacity)
  /\ trSeq' = trSeq + 1
  /\ UNCHANGED trSince

TraceSnapshot ==
  LET at(a, b) == [i \in 1..b - a |-> trRing[a + i - 1]]
  IN IF trLen < TrCapacity THEN at(0, trLen)
     ELSE at(trNext, TrCapacity) \o at(0, trNext)

(* The index and the length go back to 0, the sequence number does not.      *)
TraceClear ==
  /\ klUse = "trace"
  /\ trNext' = 0 /\ trLen' = 0 /\ trSince' = trSeq
  /\ UNCHANGED <<trRing, trSeq>>

-----------------------------------------------------------------------------
(* The event queues.  An event is its number, its queue and the first        *)
(* handler that will consume it (0: none does).                              *)

NewEvent(sys, by) == [n |-> Len(evAll) + 1, sys |-> sys, by |-> by]

PushEvent(by) ==
  /\ klUse = "events" /\ Len(evAll) < EvEvents
  /\ evQueue' = Append(evQueue, NewEvent(FALSE, by))
  /\ evAll' = Append(evAll, NewEvent(FALSE, by))
  /\ UNCHANGED <<evSystem, evDone, evSeen>>

RoomInSystem(q) == IF Len(q) >= EvMax THEN Tail(q) ELSE q

PushSystem(by) ==
  /\ klUse = "events" /\ Len(evAll) < EvEvents
  /\ evSystem' = Append(RoomInSystem(evSystem), NewEvent(TRUE, by))
  /\ evAll' = Append(evAll, NewEvent(TRUE, by))
  /\ UNCHANGED <<evQueue, evDone, evSeen>>

(* dispatch: handler after handler until one returns true.                   *)
GivenTo(h, e) == e.by = 0 \/ h <= e.by

(* process: the queue is drained first, then the system queue.               *)
ProcessEvents ==
  /\ klUse = "events"
  /\ LET order == evQueue \o evSystem
     IN evSeen' = [h \in 1..EvHandlers |->
                     evSeen[h] \o SelectSeq(order, LAMBDA e : GivenTo(h, e))]
  /\ evQueue' = <<>> /\ evSystem' = <<>> /\ evDone' = Len(evAll)
  /\ UNCHANGED evAll

-----------------------------------------------------------------------------
LogStep ==
  \/ \E n \in 1..KlLine + 1 : WriteOpens(n)
  \/ WriteByte
  \/ WriteCloses
  \/ NestedLog
  \/ FlushToVfs

TraceStep == TraceRecord \/ TraceClear

EventStep ==
  \/ \E by \in 0..EvHandlers : PushEvent(by) \/ PushSystem(by)
  \/ ProcessEvents

KlNext ==
  \/ LogStep /\ UNCHANGED <<klUse, traceVars, eventVars>>
  \/ TraceStep /\ UNCHANGED <<klUse, logVars, eventVars>>
  \/ EventStep /\ UNCHANGED <<klUse, logVars, traceVars>>

KlSpec == KlInit /\ [][KlNext]_klVars

-----------------------------------------------------------------------------
KlTypeInv ==
  /\ klHead \in 0..KlCapacity - 1 /\ klLen \in 0..KlCapacity
  /\ klIn \in BOOLEAN /\ klHeld \in BOOLEAN /\ klWaits \in BOOLEAN
  /\ trNext \in 0..TrCapacity - 1 /\ trLen \in 0..TrCapacity
  /\ Len(evSystem) <= EvMax

(* What a reader of the ring gets is the newest KlCapacity bytes logged, in  *)
(* the order they were logged, wherever the head stands and in the middle of *)
(* a message too.                                                            *)
RingIsTail ==
  Snapshot = SubSeq(klLog, Len(klLog) - klLen + 1, Len(klLog))
    /\ klLen = Smaller(Len(klLog), KlCapacity)

(* A message logged while another is being formatted never waits for the     *)
(* lock its own caller holds.                                                *)
NestedNeverWaits == ~klWaits

(* A line reaches the ring whole: no other message's bytes stand inside it.  *)
LinesWhole ==
  \A i, k \in DOMAIN klLog :
    klLog[i] = klLog[k] => \A j \in i..k : klLog[j] = klLog[i]

(* The trace shows the newest records since the last clear, consecutively    *)
(* numbered, and a clear never lets a number be used again.                  *)
TraceNewest ==
  LET n == Smaller(trSeq - trSince, TrCapacity)
  IN TraceSnapshot = [i \in 1..n |-> trSeq - n + i - 1]

(* When the system queue overflows, the events lost are the oldest ones:     *)
(* what waits is the newest of those pushed since the last process.          *)
SystemKeepsNewest ==
  LET since == SelectSeq(SubSeq(evAll, evDone + 1, Len(evAll)), LAMBDA e : e.sys)
  IN evSystem = SubSeq(since, Len(since) - Smaller(Len(since), EvMax) + 1, Len(since))

(* Every handler is given exactly the events no handler before it consumed,  *)
(* each once: a later handler never sees one an earlier handler does not.    *)
DispatchOnce ==
  \A h \in 1..EvHandlers :
    /\ IsInjective(evSeen[h])
    /\ \A i \in 1..evDone :
         /\ Contains(evSeen[h], evAll[i]) =>
              \A g \in 1..h - 1 : Contains(evSeen[g], evAll[i]) /\ evAll[i].by # g
         /\ ~evAll[i].sys /\ (\A g \in 1..h - 1 : evAll[i].by # g) =>
              Contains(evSeen[h], evAll[i])

(***************************************************************************)
(* ChronoLine.  The timer wheel of chronoline/src/lib.rs: a heap of timers *)
(* under one clock.  The runtime drives its frame and cursor timers with   *)
(* it: the clock is moved to the current tick and pop_expired is called    *)
(* until it returns None.  Times are u64 and saturate at ClMax.            *)
(***************************************************************************)

CONSTANTS ClIds,        \* identifiers given to timers, one timer each
          ClMax,        \* u64::MAX
          ClHorizon,    \* bound: the clock stays below it
          ClDelays,     \* first deadlines, relative to the clock
          ClIntervals,  \* interval_ticks of repeating timers, 0 included
          ClLimits,     \* values of max_catch_up, set_max_catch_up gives a new timer one
          ClPops        \* bound: pop_expired calls that return a timer

ASSUME ClAssumption ==
  /\ {ClMax, ClHorizon, ClPops} \subseteq Nat /\ ClHorizon < ClMax
  /\ ClLimits \subseteq Nat /\ ClIds \subseteq Nat /\ ClDelays \subseteq Nat /\ ClIntervals \subseteq Nat

VARIABLES clTimers,  \* the heap: [id, due, every, rate, limit]; every = 0 is one-shot
          clNow,     \* now
          clFirst,   \* history: the timer that was registered for every id
          clGone,    \* history: ids that were cancelled or cleared away
          clFired,   \* history: how often each id was returned
          clTicks,   \* history: the ticks reported and missed for each id
          clLast     \* the timer last returned, or <<>>

clVars == <<clTimers, clNow, clFirst, clGone, clFired, clTicks, clLast>>

Saturated(n) == IF n > ClMax THEN ClMax ELSE n

ClInit ==
  /\ clTimers = {} /\ clNow = 0 /\ clGone = {} /\ clLast = <<>>
  /\ clFirst = [i \in {} |-> {}]
  /\ clFired = [i \in ClIds |-> 0] /\ clTicks = [i \in ClIds |-> 0]

(* register, register_with_mode, register_with_mode_and_policy: the callers  *)
(* give every timer an id of its own (register_auto counts them up).         *)
Register(i, delay, every, rate, limit) ==
  LET timer == [id |-> i, due |-> Saturated(clNow + delay), every |-> every, rate |-> rate, limit |-> limit]
  IN /\ i \notin DOMAIN clFirst
     /\ clTimers' = clTimers \cup {timer}
     /\ clFirst' = [j \in DOMAIN clFirst \cup {i} |-> IF j = i THEN timer ELSE clFirst[j]]
     /\ clLast' = <<>>
     /\ UNCHANGED <<clNow, clGone, clFired, clTicks>>

RegisterOneShot == \E i \in ClIds, d \in ClDelays : Register(i, d, 0, FALSE, ClMax)
RegisterRepeating ==
  \E i \in ClIds, d \in ClDelays, e \in ClIntervals \ {0}, r \in BOOLEAN, l \in ClLimits :
    Register(i, d, e, r, l)

(* Ord for Timer is reversed so that the heap's maximum is the timer with    *)
(* the earliest deadline, and among those the one with the lowest id.        *)
Below(t, u) == t.due > u.due \/ (t.due = u.due /\ t.id > u.id)
Peek(t) == t \in clTimers /\ \A u \in clTimers \ {t} : Below(u, t)

(* The ticks a repeating timer has missed, the one due now included, and its *)
(* next deadline.                                                            *)
Missed(t) == ((clNow - t.due) \div t.every) + 1
NextDue(t) == IF t.rate THEN Saturated(t.due + t.every * Missed(t)) ELSE Saturated(clNow + t.every)
Reported(t) == IF t.every = 0 THEN 1
               ELSE IF Missed(t) < t.limit THEN Missed(t) ELSE t.limit


Again(t) == IF t.every = 0 THEN {} ELSE {[t EXCEPT !.due = NextDue(t)]}

PopExpired ==
  \E t \in clTimers :
    /\ Peek(t) /\ t.due <= clNow
    /\ clFired[t.id] < ClPops
    /\ clTimers' = (clTimers \ {t}) \cup Again(t)
    /\ clFired' = [clFired EXCEPT ![t.id] = @ + 1]
    /\ clTicks' = [clTicks EXCEPT ![t.id] = @ + Reported(t)]
    /\ clLast' = <<t>>
    /\ UNCHANGED <<clNow, clFirst, clGone>>

(* advance(delta) and tick(now); tick never moves the clock back.            *)
ClAdvance(d) == clNow + d <= ClHorizon /\ clNow' = Saturated(clNow + d)
ClTick(n) == clNow' = IF n > clNow THEN n ELSE clNow
MoveClock ==
  /\ (\E d \in 1..ClHorizon : ClAdvance(d)) \/ (\E n \in 0..ClHorizon : ClTick(n))
  /\ clLast' = <<>>
  /\ UNCHANGED <<clTimers, clFirst, clGone, clFired, clTicks>>

(* reset_now is the one call that may move it back.                          *)
ResetNow ==
  /\ \E n \in 0..ClHorizon : clNow' = n
  /\ clLast' = <<>>
  /\ UNCHANGED <<clTimers, clFirst, clGone, clFired, clTicks>>

Retained(i) == {t \in clTimers : t.id # i}
Cancel ==
  /\ \E i \in ClIds : clTimers' = Retained(i) /\ clGone' = clGone \cup ({i} \cap DOMAIN clFirst)
  /\ clLast' = <<>>
  /\ UNCHANGED <<clNow, clFirst, clFired, clTicks>>

ClearTimers ==
  /\ clTimers' = {} /\ clGone' = clGone \cup DOMAIN clFirst
  /\ clLast' = <<>>
  /\ UNCHANGED <<clNow, clFirst, clFired, clTicks>>

ClNext ==
  \/ RegisterOneShot
  \/ RegisterRepeating
  \/ PopExpired
  \/ MoveClock
  \/ ResetNow
  \/ Cancel
  \/ ClearTimers

ClSpec == ClInit /\ [][ClNext]_clVars

-----------------------------------------------------------------------------
ClTypeInv ==
  /\ clNow \in 0..ClMax /\ DOMAIN clFirst \subseteq ClIds /\ clGone \subseteq DOMAIN clFirst
  /\ \A t \in clTimers : t.id \in DOMAIN clFirst /\ t.due \in 0..ClMax

(* A timer is in the heap, once, from its registration until it is cancelled *)
(* or cleared away, except a one-shot that has fired, and a one-shot fires   *)
(* once: a repeating timer survives every pop, and a cancelled one never     *)
(* comes back.                                                               *)
NoTimerLost ==
  \A i \in DOMAIN clFirst :
    LET spent == clFirst[i].every = 0 /\ clFired[i] = 1
    IN /\ Cardinality({t \in clTimers : t.id = i}) = IF spent \/ i \in clGone THEN 0 ELSE 1
       /\ clFirst[i].every = 0 => clFired[i] <= 1

(* A fixed-rate timer never drifts: its deadline stays a whole number of     *)
(* intervals behind the first one, and it has reported exactly that many     *)
(* ticks, or fewer when its catch-up limit can cut a report.                 *)
NoDrift ==
  \A t \in clTimers :
    LET passed == (t.due - clFirst[t.id].due) \div t.every
    IN t.rate /\ t.due < ClMax =>
         /\ (t.due - clFirst[t.id].due) % t.every = 0
         /\ IF t.limit > ClHorizon THEN clTicks[t.id] = passed ELSE clTicks[t.id] <= passed

(* A timer is returned only when it is due, and never while one with an      *)
(* earlier deadline waits.                                                   *)
EarliestFirst ==
  [clLast' # <<>> =>
       \A t \in clTimers : t.due >= clLast'[1].due /\ clLast'[1].due <= clNow]_clVars

(* The runtime's loop `while let Some(t) = pop_expired()` ends: a timer that *)
(* was just returned is not due again until the clock moves.                 *)
NotDueAgain ==
  clLast # <<>> => \A t \in clTimers : t.id = clLast[1].id => t.due > clNow

--------------------------------------------------------------------------------
\* The log keeps its tail, an event is dispatched once, and no timer is lost or drifts.
ServicesSound ==
    /\ KlTypeInv /\ RingIsTail /\ NestedNeverWaits /\ LinesWhole /\ TraceNewest /\ SystemKeepsNewest /\ DispatchOnce
    /\ ClTypeInv /\ NoTimerLost /\ NoDrift /\ NotDueAgain
================================================================================
