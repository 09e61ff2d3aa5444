------------------------------- MODULE WifiProof -------------------------------
(***************************************************************************)
(* Proofs about the Wi-Fi part: how the bring-up ends (WifiInit), what the   *)
(* transmit ring means and what a protected association promises (WifiLink),*)
(* for every list of firmware, ring size, set of access points and timeout. *)
(***************************************************************************)
EXTENDS Wifi, WifiLinkProof

-----------------------------------------------------------------------------
(***************************************************************************)
(* The inductive invariant of the bring-up.  A device is only in the        *)
(* context after DmaAlloc took pci_dev out of it, so that a watchdog that    *)
(* fires has no device to leave behind; and a context whose mutex is held   *)
(* belongs to a hung step, after which the service is gone.                 *)
(***************************************************************************)
WithDevice == {"FwUpload", "FwWaitAlive", "FwInitCmds", "Done", "Failed"}

Ended ==
    completed => /\ phase \in {"Done", "Failed"}
                 /\ device <=> phase = "Done"
                 /\ ~ctxDev

Underway ==
    ~completed => /\ ~device
                  /\ phase = "Done" => ctxDev

Watched ==
    /\ ctxDev => ~ctxPci /\ phase \in WithDevice
    /\ armed => cpu = "stalled" /\ ~ctxDev
    /\ triggered => cpu = "trampoline" /\ ~ctxDev
    /\ lock = "held" => cpu # "run" \/ (service = "lost" /\ pc = "idle")
    /\ phase = "FwWaitAlive" => fwIdx < Candidates

Flags ==
    /\ completed \in BOOLEAN /\ pending \in BOOLEAN /\ ctxPci \in BOOLEAN
    /\ ctxDev \in BOOLEAN /\ device \in BOOLEAN /\ busMaster \in BOOLEAN
    /\ armed \in BOOLEAN /\ triggered \in BOOLEAN

Places ==
    /\ phase \in Phases
    /\ age \in 0 .. InitTicks
    /\ fwIdx \in 0 .. Candidates
    /\ lock \in {"free", "held"}
    /\ cpu \in {"run", "stalled", "spin", "trampoline"}
    /\ service \in {"registered", "ticking", "lost"}
    /\ pc \in {"idle", "init", "device", "rx", "finish", "requests"}

BringUp == Flags /\ Places /\ Ended /\ Underway /\ Watched

Surroundings ==
    /\ Nic
    /\ heard \subseteq Frames
    /\ \A f \in heard : Settled(f)
    /\ txIrq \in BOOLEAN /\ pciOk \in BOOLEAN
    /\ queue \in Seq([ap : APs, password : BOOLEAN])
    /\ scans \in 0 .. MaxScans
    /\ pc = "requests" => queue # <<>>

IInv == BringUp /\ LinkOk(dev) /\ Surroundings

-----------------------------------------------------------------------------
(***************************************************************************)
(* The bring-up, action by action.                                         *)
(***************************************************************************)
LEMMA InitTypes ==
    InitTypeInv <=> Flags /\ Places
  BY Zenon DEF InitTypeInv, Flags, Places

LEMMA BringUpInit ==
    InitInit => BringUp
  <1> SUFFICES ASSUME InitInit PROVE BringUp
    OBVIOUS
  <1>1. Flags
    BY Zenon DEF InitInit, Flags
  <1>2. Places
    BY WifiInitAssumption DEF InitInit, Places, Phases
  <1>3. Ended /\ Underway /\ Watched
    BY DEF InitInit, Ended, Underway, Watched
  <1> QED
    BY <1>1, <1>2, <1>3 DEF BringUp

LEMMA BringUpTick ==
    ASSUME BringUp, StartTick \/ AdvanceCompleted
    PROVE  BringUp'
  <1>1. Flags'
    BY Zenon DEF BringUp, Flags, StartTick, AdvanceCompleted
  <1>2. Places'
    BY WifiInitAssumption DEF BringUp, Places, Watched, Phases, StartTick, AdvanceCompleted
  <1>3. Ended'
    BY Zenon DEF BringUp, Flags, Ended, Underway, Watched, StartTick, AdvanceCompleted
  <1>4. Underway'
    BY DEF BringUp, Flags, Ended, Underway, Watched, StartTick, AdvanceCompleted
  <1>5. Watched'
    BY WifiInitAssumption DEF BringUp, Flags, Places, Ended, Underway, Watched, WithDevice, StartTick, AdvanceCompleted
  <1> QED
    BY <1>1, <1>2, <1>3, <1>4, <1>5 DEF BringUp

LEMMA BringUpTimeout ==
    ASSUME BringUp, AdvanceTimeout
    PROVE  BringUp'
  <1>1. Flags'
    BY Zenon DEF BringUp, Flags, AdvanceTimeout, ForceInitFailed, ForceUnlocked
  <1>2. Places'
    BY WifiInitAssumption DEF BringUp, Places, Watched, Phases, AdvanceTimeout, ForceInitFailed, ForceUnlocked
  <1>3. Ended'
    BY DEF BringUp, Flags, Places, Ended, Underway, Watched, AdvanceTimeout, ForceInitFailed, ForceUnlocked
  <1>4. Underway'
    BY DEF BringUp, Flags, Places, Ended, Underway, Watched, AdvanceTimeout, ForceInitFailed, ForceUnlocked
  <1>5. Watched'
    BY WifiInitAssumption DEF BringUp, Flags, Places, Ended, Underway, Watched, WithDevice, AdvanceTimeout, ForceInitFailed, ForceUnlocked
  <1> QED
    BY <1>1, <1>2, <1>3, <1>4, <1>5 DEF BringUp

LEMMA BringUpProbe ==
    ASSUME BringUp, StepIdle \/ ProbeFound \/ ProbeFailed
    PROVE  BringUp'
  <1>1. Flags'
    BY Zenon DEF BringUp, Flags, StepIdle, ProbeFound, ProbeFailed, Stepping, StepReturns, Goto
  <1>2. Places'
    <2>1. CASE StepIdle
      BY <2>1, WifiInitAssumption DEF BringUp, Places, Watched, Phases, StepIdle, Stepping, StepReturns, Goto
    <2>2. CASE ProbeFound
      BY <2>2, WifiInitAssumption DEF BringUp, Places, Watched, Phases, ProbeFound, Stepping, StepReturns, Goto
    <2>3. CASE ProbeFailed
      BY <2>3, WifiInitAssumption DEF BringUp, Places, Watched, Phases, ProbeFailed, Stepping, StepReturns, Goto
    <2> QED
      BY <2>1, <2>2, <2>3
  <1>3. Ended'
    BY Zenon DEF BringUp, Flags, Ended, Underway, Watched, StepIdle, ProbeFound, ProbeFailed, Stepping, StepReturns, Goto
  <1>4. Underway'
    BY Zenon DEF BringUp, Flags, Ended, Underway, Watched, StepIdle, ProbeFound, ProbeFailed, Stepping, StepReturns, Goto
  <1>5. Watched'
    <2>1. CASE StepIdle
      BY <2>1, WifiInitAssumption DEF BringUp, Flags, Places, Ended, Underway, Watched, WithDevice, StepIdle, Stepping, StepReturns, Goto
    <2>2. CASE ProbeFound
      BY <2>2, WifiInitAssumption DEF BringUp, Flags, Places, Ended, Underway, Watched, WithDevice, ProbeFound, Stepping, StepReturns, Goto
    <2>3. CASE ProbeFailed
      BY <2>3, WifiInitAssumption DEF BringUp, Flags, Places, Ended, Underway, Watched, WithDevice, ProbeFailed, Stepping, StepReturns, Goto
    <2> QED
      BY <2>1, <2>2, <2>3
  <1> QED
    BY <1>1, <1>2, <1>3, <1>4, <1>5 DEF BringUp

LEMMA BringUpClock ==
    ASSUME BringUp, StepMmioInit \/ StepPollMacClock \/ PollMacClockTimeout
    PROVE  BringUp'
  <1>1. Flags'
    BY Zenon DEF BringUp, Flags, StepMmioInit, StepPollMacClock, PollMacClockTimeout, Stepping, StepReturns, Goto
  <1>2. Places'
    BY WifiInitAssumption DEF BringUp, Places, Watched, Phases, StepMmioInit, StepPollMacClock, PollMacClockTimeout, Stepping, StepReturns, Goto
  <1>3. Ended'
    BY Zenon DEF BringUp, Flags, Ended, Underway, Watched, StepMmioInit, StepPollMacClock, PollMacClockTimeout, Stepping, StepReturns, Goto
  <1>4. Underway'
    BY DEF BringUp, Flags, Ended, Underway, Watched, StepMmioInit, StepPollMacClock, PollMacClockTimeout, Stepping, StepReturns, Goto
  <1>5. Watched'
    BY WifiInitAssumption DEF BringUp, Flags, Places, Ended, Underway, Watched, WithDevice, StepMmioInit, StepPollMacClock, PollMacClockTimeout, Stepping, StepReturns, Goto
  <1> QED
    BY <1>1, <1>2, <1>3, <1>4, <1>5 DEF BringUp

LEMMA BringUpFirmware ==
    ASSUME BringUp, StepDmaAlloc \/ StepFwUpload \/ StepFwWaitAlive \/ StepFwInitCmds
    PROVE  BringUp'
  <1>1. Flags'
    BY Zenon DEF BringUp, Flags, StepDmaAlloc, StepFwUpload, StepFwWaitAlive, StepFwInitCmds, Stepping, StepReturns, Goto
  <1>2. Places'
    BY WifiInitAssumption DEF BringUp, Places, Watched, Phases, StepDmaAlloc, StepFwUpload, StepFwWaitAlive, StepFwInitCmds, Stepping, StepReturns, Goto
  <1>3. Ended'
    BY Zenon DEF BringUp, Flags, Ended, Underway, Watched, StepDmaAlloc, StepFwUpload, StepFwWaitAlive, StepFwInitCmds, Stepping, StepReturns, Goto
  <1>4. Underway'
    BY DEF BringUp, Flags, Ended, Underway, Watched, StepDmaAlloc, StepFwUpload, StepFwWaitAlive, StepFwInitCmds, Stepping, StepReturns, Goto
  <1>5. Watched'
    BY WifiInitAssumption DEF BringUp, Flags, Places, Ended, Underway, Watched, WithDevice, StepDmaAlloc, StepFwUpload, StepFwWaitAlive, StepFwInitCmds, Stepping, StepReturns, Goto
  <1> QED
    BY <1>1, <1>2, <1>3, <1>4, <1>5 DEF BringUp

LEMMA BringUpEnds ==
    ASSUME BringUp, StepDone \/ StepFailed
    PROVE  BringUp'
  <1>1. Flags'
    BY Zenon DEF BringUp, Flags, StepDone, StepFailed, Stepping, StepReturns
  <1>2. Places'
    BY WifiInitAssumption DEF BringUp, Places, Watched, Phases, StepDone, StepFailed, Stepping, StepReturns
  <1>3. Ended'
    BY DEF BringUp, Flags, Ended, Underway, Watched, StepDone, StepFailed, Stepping, StepReturns
  <1>4. Underway'
    BY DEF BringUp, Flags, Ended, Underway, Watched, StepDone, StepFailed, Stepping, StepReturns
  <1>5. Watched'
    BY WifiInitAssumption DEF BringUp, Flags, Places, Ended, Underway, Watched, WithDevice, StepDone, StepFailed, Stepping, StepReturns
  <1> QED
    BY <1>1, <1>2, <1>3, <1>4, <1>5 DEF BringUp

LEMMA BringUpHangs ==
    ASSUME BringUp, StallInStep \/ StallInTick \/ Nmi
    PROVE  BringUp'
  <1>1. Flags'
    BY Zenon DEF BringUp, Flags, StallInStep, StallInTick, Nmi, Stepping
  <1>2. Places'
    BY Zenon, WifiInitAssumption DEF BringUp, Places, Watched, Phases, StallInStep, StallInTick, Nmi, Stepping
  <1>3. Ended'
    BY Zenon DEF BringUp, Flags, Ended, Underway, Watched, StallInStep, StallInTick, Nmi, Stepping
  <1>4. Underway'
    BY Zenon DEF BringUp, Flags, Ended, Underway, Watched, StallInStep, StallInTick, Nmi, Stepping
  <1>5. Watched'
    <2>1. CASE StallInStep
      <3>1. armed' => ctxPci
        BY Zenon, <2>1 DEF StallInStep
      <3>2. cpu' = "stalled" /\ UNCHANGED <<ctxDev, ctxPci, triggered, phase, fwIdx>> /\ cpu = "run"
        BY <2>1 DEF StallInStep, Stepping
      <3> QED
        BY <3>1, <3>2 DEF BringUp, Watched, WithDevice
    <2>2. CASE StallInTick
      BY <2>2, WifiInitAssumption DEF BringUp, Flags, Places, Ended, Underway, Watched, WithDevice, StallInTick, Stepping
    <2>3. CASE Nmi
      BY <2>3, WifiInitAssumption DEF BringUp, Flags, Places, Ended, Underway, Watched, WithDevice, Nmi, Stepping
    <2> QED
      BY <2>1, <2>2, <2>3
  <1> QED
    BY <1>1, <1>2, <1>3, <1>4, <1>5 DEF BringUp

LEMMA BringUpRestart ==
    ASSUME BringUp, TimerRestart
    PROVE  BringUp'
  <1>1. Flags'
    BY Zenon DEF BringUp, Flags, TimerRestart, ForceInitFailed, ForceUnlocked
  <1>2. Places'
    BY WifiInitAssumption DEF BringUp, Places, Watched, Phases, TimerRestart, ForceInitFailed, ForceUnlocked
  <1>3. Ended'
    BY Zenon DEF BringUp, Flags, Ended, Underway, Watched, TimerRestart, ForceInitFailed, ForceUnlocked
  <1>4. Underway'
    BY DEF BringUp, Flags, Ended, Underway, Watched, TimerRestart, ForceInitFailed, ForceUnlocked
  <1>5. Watched'
    BY WifiInitAssumption DEF BringUp, Flags, Places, Ended, Underway, Watched, WithDevice, TimerRestart, ForceInitFailed, ForceUnlocked
  <1> QED
    BY <1>1, <1>2, <1>3, <1>4, <1>5 DEF BringUp

-----------------------------------------------------------------------------
(***************************************************************************)
(* The NIC takes the next descriptor.                                      *)
(***************************************************************************)
\* Keys reach the NIC in the order of their attempts, so that a frame that had
\* its keys keeps them.
LEMMA NicKeysAdvance ==
    ASSUME Nic, LinkOk(dev), NicConsume
    PROVE  LET f == dev.log[1]
           IN  /\ f \in Frames /\ 1 \in 1 .. Len(dev.log)
               /\ dev.ring[nicPos % Slots] = f
               /\ f.k # "Key" => nicKeys' = nicKeys
               /\ f.k = "Key" => /\ f.s \in Nat /\ nicKeys.s <= f.s
                                 /\ nicKeys' = IF f.s = nicKeys.s THEN [s |-> f.s, n |-> 2]
                                               ELSE [s |-> f.s, n |-> 1]
  <1> DEFINE f == dev.log[1]
  <1>1. dev \in Devices /\ RingInv(dev) /\ KeysInv(dev)
    BY DEF LinkOk, Core
  <1>2. dev.log \in Seq(Frames) /\ dev.head \in Nat /\ nicPos \in Nat /\ nicPos < dev.head
    BY <1>1, DeviceTypes DEF Nic, NicConsume
  <1>3. Len(dev.log) = dev.head - nicPos
    BY <1>1 DEF RingInv
  <1>4. 1 \in 1 .. Len(dev.log)
    BY <1>2, <1>3
  <1>5. f \in Frames
    BY <1>2, <1>4
  <1>6. nicPos + 1 - 1 = nicPos
    BY <1>2
  <1>7. dev.ring[nicPos % Slots] = f
    BY <1>1, <1>4, <1>6 DEF RingInv
  <1> HIDE DEF f
  <1>8. nicKeys' = IF f.k # "Key" THEN nicKeys
                   ELSE IF f.s = nicKeys.s THEN [nicKeys EXCEPT !.n = 2]
                   ELSE [s |-> f.s, n |-> 1]
    BY <1>7 DEF NicConsume
  <1>9. [nicKeys EXCEPT !.n = 2] = [s |-> nicKeys.s, n |-> 2]
    BY DEF Nic
  <1>10. f.k = "Key" => f.s \in Nat /\ nicKeys.s <= f.s
    BY <1>1, <1>4, <1>5, FrameFacts DEF KeysInv, f
  <1> QED
    BY <1>4, <1>5, <1>7, <1>8, <1>9, <1>10 DEF f

LEMMA NicSettled ==
    ASSUME Nic, LinkOk(dev), NicConsume, NEW g \in Frames, Settled(g)
    PROVE  Settled(g)'
  <1> DEFINE f == dev.log[1]
  <1>1. /\ f.k # "Key" => nicKeys' = nicKeys
        /\ f.k = "Key" => /\ f.s \in Nat /\ nicKeys.s <= f.s
                          /\ nicKeys' = IF f.s = nicKeys.s THEN [s |-> f.s, n |-> 2]
                                        ELSE [s |-> f.s, n |-> 1]
    BY Zenon, NicKeysAdvance
  <1> HIDE DEF f
  <1>2. nicKeys.s \in Nat
    BY DEF Nic
  <1>3. CASE ~(g.k = "M4" \/ (IsData(g) /\ g.required))
    BY <1>3 DEF Settled
  <1>4. CASE g.k = "M4" \/ (IsData(g) /\ g.required)
    <2>1. g.s \in Nat
      BY <1>4, FrameFacts DEF IsData
    <2>2. (IsData(g) => g.protected) /\ (nicKeys.s > g.s \/ nicKeys = [s |-> g.s, n |-> 2])
      BY <1>4 DEF Settled
    <2>3. nicKeys.s >= g.s
      BY <1>2, <2>1, <2>2
    <2>4. CASE f.k # "Key"
      BY <1>1, <2>2, <2>4 DEF Settled
    <2>5. CASE f.k = "Key" /\ f.s = nicKeys.s
      <3>1. nicKeys' = [s |-> nicKeys.s, n |-> 2]
        BY <1>1, <2>5
      <3>2. nicKeys'.s > g.s \/ nicKeys' = [s |-> g.s, n |-> 2]
        BY <2>2, <3>1
      <3> QED
        BY <2>2, <3>2 DEF Settled
    <2>6. CASE f.k = "Key" /\ f.s # nicKeys.s
      <3>1. nicKeys' = [s |-> f.s, n |-> 1] /\ f.s > nicKeys.s
        BY <1>1, <1>2, <2>6
      <3>2. nicKeys'.s = f.s /\ f.s \in Nat
        BY <1>1, <2>6, <3>1
      <3>3. nicKeys'.s > g.s
        BY <1>2, <2>1, <2>3, <3>1, <3>2
      <3> QED
        BY <2>2, <3>3 DEF Settled
    <2> QED
      BY <2>4, <2>5, <2>6
  <1> QED
    BY <1>3, <1>4

\* What NicConsume does to the device.
LEMMA NicFields ==
    ASSUME Nic, LinkOk(dev), NicConsume
    PROVE  /\ dev' \in Devices
           /\ dev'.txq = dev.txq /\ dev'.head = dev.head /\ dev'.tail = dev.tail
           /\ dev'.sess = dev.sess /\ dev'.required = dev.required /\ dev'.ip = dev.ip
           /\ dev'.dhcpSess = dev.dhcpSess /\ dev'.wpa = dev.wpa /\ dev'.keysIn = dev.keysIn
           /\ dev'.keyEnd = dev.keyEnd /\ dev'.msg4 = dev.msg4 /\ dev'.channel = dev.channel
           /\ dev'.scanning = dev.scanning /\ dev'.status = dev.status
           /\ Len(dev'.log) = Len(dev.log) - 1
           /\ \A i \in 1 .. Len(dev'.log) :
                dev'.log[i] = dev.log[i + 1] /\ i + 1 \in 1 .. Len(dev.log)
           /\ dev'.ring = [dev.ring EXCEPT ![nicPos % Slots] = Consumed]
  <1> DEFINE l == Tail(dev.log)
             r == [dev.ring EXCEPT ![nicPos % Slots] = Consumed]
             e == [dev EXCEPT !.log = l, !.ring = r]
  <1>1. dev \in Devices
    BY DEF LinkOk, Core
  <1>2. dev.log \in Seq(Frames) /\ 1 \in 1 .. Len(dev.log)
        /\ dev.ring \in [0 .. Slots - 1 -> Frames \cup {Consumed}]
    BY Zenon, <1>1, DeviceTypes, NicKeysAdvance
  <1>3. l \in Seq(Frames) /\ Len(l) = Len(dev.log) - 1
    BY <1>2
  <1>4. \A i \in 1 .. Len(l) : l[i] = dev.log[i + 1] /\ i + 1 \in 1 .. Len(dev.log)
    BY <1>2, <1>3
  <1>5. r \in [0 .. Slots - 1 -> Frames \cup {Consumed}]
    BY Zenon, <1>2
  <1>6. dev' = e
    BY <1>1 DEF NicConsume, Devices
  <1> HIDE DEF l, r
  <1>7. e \in Devices
    BY Zenon, <1>1, <1>3, <1>5 DEF Devices
  <1>8. /\ e.txq = dev.txq /\ e.head = dev.head /\ e.tail = dev.tail
        /\ e.sess = dev.sess /\ e.required = dev.required /\ e.ip = dev.ip
        /\ e.dhcpSess = dev.dhcpSess /\ e.wpa = dev.wpa /\ e.keysIn = dev.keysIn
        /\ e.keyEnd = dev.keyEnd /\ e.msg4 = dev.msg4 /\ e.channel = dev.channel
        /\ e.scanning = dev.scanning /\ e.status = dev.status
        /\ e.log = l /\ e.ring = r
    BY <1>1 DEF Devices
  <1> HIDE DEF e
  <1> QED
    BY Zenon, <1>3, <1>4, <1>6, <1>7, <1>8 DEF r

LEMMA NicRing ==
    ASSUME Nic, LinkOk(dev), NicConsume
    PROVE  RingInv(dev)'
  <1>1. dev \in Devices /\ RingInv(dev)
    BY DEF LinkOk, Core
  <1>2. /\ dev.head \in Nat /\ dev.tail \in Nat /\ nicPos \in Nat /\ Slots \in Nat \ {0}
        /\ dev.ring \in [0 .. Slots - 1 -> Frames \cup {Consumed}] /\ Len(dev.log) \in Nat
    BY <1>1, DeviceTypes, SlotsType DEF Nic
  <1>3. /\ dev.tail <= nicPos /\ nicPos < dev.head /\ dev.head <= dev.tail + Slots
        /\ Len(dev.log) = dev.head - nicPos /\ nicPos' = nicPos + 1
    BY <1>1 DEF RingInv, NicConsume
  <1>4. /\ dev'.head = dev.head /\ dev'.tail = dev.tail /\ Len(dev'.log) = Len(dev.log) - 1
        /\ dev'.ring = [dev.ring EXCEPT ![nicPos % Slots] = Consumed]
    BY NicFields
  <1>5. ASSUME NEW i \in 1 .. Len(dev'.log) PROVE dev'.ring[(nicPos' + i - 1) % Slots] = dev'.log[i]
    <2> DEFINE p == nicPos + i
    <2>1. dev'.log[i] = dev.log[i + 1] /\ i + 1 \in 1 .. Len(dev.log)
      BY NicFields
    <2>8. i \in Int /\ 1 <= i /\ i < dev.head - nicPos
      BY <1>2, <1>3, <1>4
    <2>2. p \in Int /\ nicPos \in Int /\ nicPos < p /\ p < nicPos + Slots
      BY <1>2, <1>3, <2>8
    <2>3. nicPos' + i - 1 = p /\ nicPos + (i + 1) - 1 = p
      BY <1>2, <1>3
    <2>4. dev.ring[p % Slots] = dev.log[i + 1]
      BY <1>1, <2>1, <2>3 DEF RingInv
    <2> HIDE DEF p
    <2>5. nicPos % Slots # p % Slots
      BY Zenon, <1>2, <2>2, ModDistinct
    <2>6. p % Slots \in 0 .. Slots - 1
      BY <1>2, <2>2
    <2>7. dev'.ring[p % Slots] = dev.ring[p % Slots]
      BY <1>2, <1>4, <2>5, <2>6
    <2> QED
      BY <2>1, <2>3, <2>4, <2>7
  <1>6. /\ dev'.tail <= nicPos' /\ nicPos' <= dev'.head /\ dev'.head <= dev'.tail + Slots
        /\ Len(dev'.log) = dev'.head - nicPos'
    BY <1>2, <1>3, <1>4
  <1> QED
    BY <1>5, <1>6 DEF RingInv

\* The keys after the NIC has taken a descriptor.
LEMMA NicOrder ==
    ASSUME Nic, LinkOk(dev), NicConsume
    PROVE  Nic' /\ KeysInv(dev)' /\ NoKeysYet(dev)'
  <1> DEFINE f == dev.log[1]
  <1>1. dev \in Devices /\ KeysInv(dev) /\ NoKeysYet(dev)
    BY DEF LinkOk, Core, Handshake
  <1>2. nicPos \in Nat /\ nicPos' = nicPos + 1 /\ dev.sess \in Nat /\ nicKeys \in [s : Nat, n : 0 .. 2]
        /\ Len(dev.log) \in Nat
    BY <1>1, DeviceTypes DEF Nic, NicConsume
  <1>3. /\ f \in Frames /\ 1 \in 1 .. Len(dev.log)
        /\ f.k # "Key" => nicKeys' = nicKeys
        /\ f.k = "Key" => /\ f.s \in Nat /\ nicKeys.s <= f.s
                          /\ nicKeys' = IF f.s = nicKeys.s THEN [s |-> f.s, n |-> 2]
                                        ELSE [s |-> f.s, n |-> 1]
    BY NicKeysAdvance
  <1>4. \A i \in 1 .. Len(dev'.log) :
          dev'.log[i] = dev.log[i + 1] /\ i + 1 \in 1 .. Len(dev.log)
    BY Zenon, NicFields
  <1>5. dev'.sess = dev.sess /\ dev'.wpa = dev.wpa
    BY SMTT(30), NicFields
  <1>6. f.k = "Key" => f.s <= dev.sess
    BY <1>1, <1>3 DEF KeysInv
  <1>7. \A j \in 1 .. Len(dev.log) : 1 < j /\ f.k = "Key" /\ dev.log[j].k = "Key" => f.s <= dev.log[j].s
    BY Zenon, <1>1, <1>3 DEF KeysInv
  <1>8. dev.wpa \in {"WaitMsg1", "WaitMsg3"} /\ f.k = "Key" => f.s < dev.sess
    BY <1>1, <1>3 DEF NoKeysYet
  <1> HIDE DEF f
  <1>9. f.k = "Key" => nicKeys' \in [s : Nat, n : 0 .. 2] /\ nicKeys'.s = f.s
    BY <1>3
  <1>10. Nic'
    BY <1>2, <1>3, <1>9 DEF Nic
  <1>11. nicKeys'.s <= dev'.sess
    BY Zenon, <1>1, <1>3, <1>5, <1>6, <1>9 DEF KeysInv
  <1>12. ASSUME NEW i \in 1 .. Len(dev'.log), dev'.log[i].k = "Key"
         PROVE  nicKeys'.s <= dev'.log[i].s /\ dev'.log[i].s <= dev'.sess
    <2>1. dev'.log[i] = dev.log[i + 1] /\ i + 1 \in 1 .. Len(dev.log) /\ 1 < i + 1
      BY SMTT(30), <1>4
    <2> HIDE <1>4
    <2>2. nicKeys.s <= dev.log[i + 1].s /\ dev.log[i + 1].s <= dev.sess
      BY <1>1, <1>12, <2>1 DEF KeysInv
    <2>3. f.k = "Key" => f.s <= dev.log[i + 1].s
      BY <1>7, <1>12, <2>1
    <2> QED
      BY <1>3, <1>5, <1>9, <2>1, <2>2, <2>3
  <1>13. ASSUME NEW i \in 1 .. Len(dev'.log), NEW j \in 1 .. Len(dev'.log),
                i < j, dev'.log[i].k = "Key", dev'.log[j].k = "Key"
         PROVE  dev'.log[i].s <= dev'.log[j].s
    <2>1. /\ dev'.log[i] = dev.log[i + 1] /\ i + 1 \in 1 .. Len(dev.log)
          /\ dev'.log[j] = dev.log[j + 1] /\ j + 1 \in 1 .. Len(dev.log)
      BY Zenon, <1>4
    <2>2. i + 1 < j + 1
      BY <1>13
    <2> QED
      BY Zenon, <1>1, <1>13, <2>1, <2>2 DEF KeysInv
  <1>14. KeysInv(dev)'
    BY Zenon, <1>11, <1>12, <1>13 DEF KeysInv
  <1>15. ASSUME dev'.wpa \in {"WaitMsg1", "WaitMsg3"}
         PROVE  /\ nicKeys'.s < dev'.sess
                /\ \A i \in 1 .. Len(dev'.log) : dev'.log[i].k = "Key" => dev'.log[i].s < dev'.sess
    <2>1. nicKeys'.s < dev'.sess
      BY <1>1, <1>3, <1>5, <1>8, <1>9, <1>15 DEF NoKeysYet
    <2>2. ASSUME NEW i \in 1 .. Len(dev'.log), dev'.log[i].k = "Key"
          PROVE  dev'.log[i].s < dev'.sess
      <3>1. dev'.log[i] = dev.log[i + 1] /\ i + 1 \in 1 .. Len(dev.log)
        BY <1>4
      <3> QED
        BY <1>1, <1>5, <1>15, <2>2, <3>1 DEF NoKeysYet
    <2> QED
      BY <2>1, <2>2
  <1>16. NoKeysYet(dev)'
    BY <1>15 DEF NoKeysYet
  <1> QED
    BY <1>10, <1>14, <1>16

LEMMA NicKeysOnTheirWay ==
    ASSUME Nic, LinkOk(dev), NicConsume
    PROVE  KeysOnTheirWay(dev)'
  <1> SUFFICES ASSUME dev'.keyEnd # NoEnd PROVE KeysOnTheirWay(dev)'
    BY DEF KeysOnTheirWay
  <1> DEFINE f == dev.log[1]
             k == dev.keyEnd
  <1>1. dev \in Devices /\ KeysOnTheirWay(dev) /\ KeysInv(dev)
    BY DEF LinkOk, Core, Handshake
  <1>2. nicPos \in Nat /\ nicPos' = nicPos + 1 /\ dev.sess \in Nat /\ k \in Int /\ nicKeys.s \in Nat
    BY <1>1, DeviceTypes DEF Nic, NicConsume
  <1>3. /\ f \in Frames /\ 1 \in 1 .. Len(dev.log)
        /\ f.k # "Key" => nicKeys' = nicKeys
        /\ f.k = "Key" => /\ f.s \in Nat /\ nicKeys.s <= f.s
                          /\ nicKeys' = IF f.s = nicKeys.s THEN [s |-> f.s, n |-> 2]
                                        ELSE [s |-> f.s, n |-> 1]
    BY NicKeysAdvance
  <1>4. \A i \in 1 .. Len(dev'.log) :
          dev'.log[i] = dev.log[i + 1] /\ i + 1 \in 1 .. Len(dev.log)
    BY Zenon, NicFields
  <1>5. dev'.sess = dev.sess /\ dev'.wpa = dev.wpa /\ dev'.keyEnd = k /\ dev'.head = dev.head
    BY NicFields
  <1>6. /\ k # NoEnd /\ dev.wpa = "WaitMsg4" /\ k <= dev.head
        /\ nicPos < k - 1 => nicKeys.s < dev.sess
        /\ nicPos = k - 1 => nicKeys = [s |-> dev.sess, n |-> 1]
        /\ nicPos >= k => nicKeys = [s |-> dev.sess, n |-> 2]
    BY <1>1, <1>5 DEF KeysOnTheirWay
  <1>7. /\ nicPos + 1 \in {k - 1, k} => f = Key(dev.sess)
        /\ f.k = "Key" => nicPos + 1 <= k /\ (nicPos + 1 < k - 1 => f.s < dev.sess)
    BY Zenon, <1>1, <1>3, <1>6 DEF KeysOnTheirWay
  <1>8. ASSUME NEW i \in 1 .. Len(dev'.log)
        PROVE  /\ nicPos' + i \in {k - 1, k} => dev'.log[i] = Key(dev.sess)
               /\ dev'.log[i].k = "Key" =>
                    /\ nicPos' + i <= k
                    /\ nicPos' + i < k - 1 => dev'.log[i].s < dev.sess
    <2>1. dev'.log[i] = dev.log[i + 1] /\ i + 1 \in 1 .. Len(dev.log)
      BY <1>4
    <2>2. nicPos' + i = nicPos + (i + 1)
      BY SMTT(30), <1>2
    <2> QED
      BY Zenon, <1>1, <1>6, <2>1, <2>2 DEF KeysOnTheirWay
  <1> HIDE DEF f, k
  <1>9. nicPos + 1 < k - 1 => nicKeys'.s < dev.sess
    BY <1>2, <1>3, <1>6, <1>7
  <1>10. ASSUME nicPos + 1 = k - 1 PROVE nicKeys' = [s |-> dev.sess, n |-> 1]
    <2>1. nicPos < k - 1 /\ nicPos + 1 \in {k - 1, k}
      BY <1>2, <1>10
    <2>2. f.k = "Key" /\ f.s = dev.sess /\ nicKeys.s < dev.sess
      BY <1>6, <1>7, <2>1 DEF Key
    <2> QED
      BY <1>2, <1>3, <2>2
  <1>11. ASSUME nicPos + 1 >= k PROVE nicKeys' = [s |-> dev.sess, n |-> 2]
    <2>1. CASE nicPos = k - 1
      <3>1. f.k = "Key" /\ f.s = dev.sess /\ nicKeys.s = dev.sess
        BY <1>2, <1>6, <1>7, <2>1 DEF Key
      <3> QED
        BY <1>3, <3>1
    <2>2. CASE nicPos >= k
      <3>1. f.k # "Key" /\ nicKeys = [s |-> dev.sess, n |-> 2]
        BY <1>2, <1>6, <1>7, <2>2
      <3> QED
        BY <1>3, <3>1
    <2> QED
      BY <1>2, <1>11, <2>1, <2>2
  <1>12. /\ nicPos' < k - 1 => nicKeys'.s < dev.sess
         /\ nicPos' = k - 1 => nicKeys' = [s |-> dev.sess, n |-> 1]
         /\ nicPos' >= k => nicKeys' = [s |-> dev.sess, n |-> 2]
    BY <1>2, <1>9, <1>10, <1>11
  <1> QED
    BY Zenon, <1>5, <1>6, <1>8, <1>12 DEF KeysOnTheirWay

LEMMA NicLink ==
    ASSUME Nic, LinkOk(dev), NicConsume, heard \subseteq Frames, \A g \in heard : Settled(g)
    PROVE  LinkOk(dev)' /\ Nic' /\ (heard \subseteq Frames)' /\ (\A g \in heard : Settled(g))'
  <1> DEFINE f == dev.log[1]
  <1>1. dev \in Devices /\ FramesInv(dev) /\ Leased(dev) /\ Handshake(dev)
    BY DEF LinkOk, Core
  <1>2. dev.log \in Seq(Frames) /\ dev.txq \in Seq(Frames)
    BY Zenon, <1>1, DeviceTypes
  <1>3. f \in Frames /\ 1 \in 1 .. Len(dev.log) /\ dev.ring[nicPos % Slots] = f
        /\ (f.k # "Key" => nicKeys' = nicKeys)
    BY NicKeysAdvance
  <1>4. \A i \in 1 .. Len(dev'.log) :
          dev'.log[i] = dev.log[i + 1] /\ i + 1 \in 1 .. Len(dev.log)
    BY Zenon, NicFields
  <1>5. FramesInv(dev)'
    <2>1. ASSUME NEW i \in 1 .. Len(dev'.txq) PROVE (dev.txq[i].k # "Key" /\ Settled(dev.txq[i]))'
      <3>1. dev'.txq = dev.txq /\ dev.txq[i] \in Frames /\ dev.txq[i].k # "Key" /\ Settled(dev.txq[i])
        BY <1>1, <1>2, <2>1, NicFields DEF FramesInv
      <3>2. ASSUME NEW g, g = dev.txq[i] PROVE Settled(g)'
        BY <3>1, <3>2, NicSettled
      <3> QED
        BY Zenon, <3>1, <3>2 DEF Settled
    <2>2. ASSUME NEW i \in 1 .. Len(dev'.log) PROVE Settled(dev.log[i])'
      <3>1. dev'.log[i] = dev.log[i + 1] /\ dev.log[i + 1] \in Frames /\ Settled(dev.log[i + 1])
        BY <1>1, <1>2, <1>4 DEF FramesInv
      <3>2. ASSUME NEW g, g = dev.log[i + 1] PROVE Settled(g)'
        BY <3>1, <3>2, NicSettled
      <3> QED
        BY Zenon, <3>1, <3>2 DEF Settled
    <2> QED
      BY <2>1, <2>2 DEF FramesInv
  <1>6. heard' \subseteq heard \cup {f}
    BY <1>3 DEF NicConsume
  <1>7. Settled(f)
    BY <1>1, <1>3 DEF FramesInv
  <1>8. ASSUME NEW g \in heard' PROVE g \in Frames /\ Settled(g)'
    BY <1>3, <1>6, <1>7, NicSettled
  <1>9. Leased(dev)' /\ Reported(dev)'
    BY Zenon, <1>1, NicFields DEF Leased, Handshake, Reported
  <1>10. KeysInstalled(dev)'
    <2> SUFFICES ASSUME dev'.keysIn
                 PROVE  /\ nicKeys' = [s |-> dev'.sess, n |-> 2]
                        /\ \A i \in 1 .. Len(dev'.log) : dev'.log[i].k # "Key"
      BY DEF KeysInstalled
    <2>1. nicKeys = [s |-> dev.sess, n |-> 2] /\ dev'.sess = dev.sess
          /\ \A i \in 1 .. Len(dev.log) : dev.log[i].k # "Key"
      BY Zenon, <1>1, NicFields DEF Handshake, KeysInstalled
    <2> QED
      BY Zenon, <1>3, <1>4, <2>1
  <1>11. dev' \in Devices
    BY NicFields
  <1>12. LinkOk(dev)'
    BY <1>5, <1>9, <1>10, <1>11, NicRing, NicOrder, NicKeysOnTheirWay
       DEF LinkOk, Core, Handshake
  <1> QED
    BY <1>8, <1>12, NicOrder

-----------------------------------------------------------------------------
(***************************************************************************)
(* The steps of the service.                                               *)
(***************************************************************************)
\* process_rx_frame: whatever an access point sends.
LEMMA ProcessRxFrameLink ==
    ASSUME Nic, heard \subseteq Frames, NEW d, LinkOk(d), NEW f \in Replies
    PROVE  LinkOk(ProcessRxFrame(d, f))
  <1>1. d \in Devices
    BY DEF LinkOk, Core
  <1>2. \/ f.k = "Beacon" /\ f.ap \in APs
        \/ f.k = "Deauth"
        \/ f.k \in {"AuthResp", "AssocResp"} /\ f.ap \in APs
        \/ f.k \in {"M1", "M3"} /\ f.s \in Nat
        \/ f.k \in {"Offer", "Ack"}
    BY FrameFacts, SMTT(30) DEF Replies
  <1>3. CASE f.k = "Beacon" /\ f.ap \in APs
    <2> DEFINE e == [d EXCEPT !.found = @ \cup {f.ap}]
    <2>1. ProcessRxFrame(d, f) \in {d, e}
      BY <1>3 DEF ProcessRxFrame, ReceiveBeacon
    <2>2. d.found \cup {f.ap} \in SUBSET APs
      BY <1>1, <1>3, DeviceTypes
    <2>3. e \in Devices
      BY Zenon, <1>1, <2>2 DEF Devices
    <2>4. /\ SameRing(d, e) /\ e.sess = d.sess /\ e.required = d.required /\ e.ip = d.ip
          /\ e.dhcpSess = d.dhcpSess /\ e.wpa = d.wpa /\ e.keysIn = d.keysIn
          /\ e.keyEnd = d.keyEnd /\ e.msg4 = d.msg4 /\ e.channel = d.channel
          /\ e.scanning = d.scanning /\ e.status = d.status
      BY <1>1 DEF Devices, SameRing
    <2> HIDE DEF e
    <2>5. LinkOk(e)
      BY <2>3, <2>4, LinkFacts, RestLink
    <2> QED
      BY <2>1, <2>5
  <1>4. CASE f.k = "Deauth"
    <2>1. ProcessRxFrame(d, f) = [d EXCEPT !.status = "Disconnected", !.iwl = "Disconnected"]
      BY <1>4 DEF ProcessRxFrame, ReceiveDeauth
    <2> QED
      BY Zenon, <2>1, DeauthLink
  <1>5. CASE f.k \in {"AuthResp", "AssocResp"} /\ f.ap \in APs
    <2>1. ProcessRxFrame(d, f) \in {ReceiveAuth(d, f), ReceiveAssoc(d, f)}
      BY <1>5 DEF ProcessRxFrame
    <2> QED
      BY <1>5, <2>1, ReceiveAuthLink, ReceiveAssocLink
  <1>6. CASE f.k \in {"M1", "M3"} /\ f.s \in Nat
    <2>1. ProcessRxFrame(d, f) = ReceiveEapol(d, f)
      BY <1>6 DEF ProcessRxFrame
    <2> QED
      BY <1>6, <2>1, ReceiveEapolLink
  <1>7. CASE f.k \in {"Offer", "Ack"}
    <2>1. ProcessRxFrame(d, f) = ReceiveDhcp(d, f)
      BY <1>7 DEF ProcessRxFrame
    <2> QED
      BY <2>1, ReceiveDhcpLink
  <1> QED
    BY <1>2, <1>3, <1>4, <1>5, <1>6, <1>7

LEMMA BringUpSame ==
    ASSUME BringUp, UNCHANGED initVars
    PROVE  BringUp'
  BY DEF BringUp, Flags, Places, Ended, Underway, Watched, initVars

LEMMA BringUpThen ==
    ASSUME BringUp, NEW place \in {"device", "rx", "finish", "requests"}, At(place),
           NEW next \in {"idle", "rx", "finish", "requests"}, Then(next),
           service' \in {service, "registered"}
    PROVE  BringUp'
  <1>1. Flags'
    BY Zenon DEF BringUp, Flags, Then
  <1>2. Places'
    BY DEF BringUp, Places, Then
  <1>3. Ended' /\ Underway'
    BY DEF BringUp, Ended, Underway, Then
  <1>4. Watched'
    BY DEF BringUp, Watched, Then, At
  <1> QED
    BY <1>1, <1>2, <1>3, <1>4 DEF BringUp

\* What a method leaves behind is the device of the next state.
LEMMA LinkPrime ==
    ASSUME NEW e, LinkOk(e), dev' = e, UNCHANGED <<nicPos, nicKeys>>
    PROVE  LinkOk(dev)'
  <1>1. (dev \in Devices)' /\ RingInv(dev)'
    BY DEF LinkOk, Core, RingInv
  <1>2. ASSUME NEW f, Settled(f) PROVE Settled(f)'
    BY <1>2 DEF Settled
  <1>3. FramesInv(dev)'
    BY Zenon, <1>2 DEF LinkOk, Core, FramesInv, Settled
  <1>4. KeysInv(dev)' /\ Leased(dev)' /\ NoKeysYet(dev)' /\ KeysInstalled(dev)' /\ Reported(dev)'
    BY Zenon DEF LinkOk, Core, Handshake, KeysInv, Leased, NoKeysYet, KeysInstalled, Reported
  <1>5. KeysOnTheirWay(dev)'
    BY Zenon DEF LinkOk, Handshake, KeysOnTheirWay
  <1> QED
    BY <1>1, <1>3, <1>4, <1>5 DEF LinkOk, Core, Handshake

LEMMA SurroundingsKept ==
    ASSUME Surroundings, UNCHANGED <<nicPos, nicKeys, heard, pciOk>>,
           txIrq' \in BOOLEAN, scans' \in 0 .. MaxScans,
           queue' \in Seq([ap : APs, password : BOOLEAN]),
           pc' = "requests" => queue' # <<>>
    PROVE  Surroundings'
  <1>1. ASSUME NEW f, Settled(f) PROVE Settled(f)'
    BY <1>1 DEF Settled
  <1>2. Nic' /\ (heard \subseteq Frames)' /\ pciOk' \in BOOLEAN
    BY DEF Surroundings, Nic
  <1>3. \A f \in heard' : Settled(f)'
    BY <1>1 DEF Surroundings
  <1> QED
    BY <1>2, <1>3 DEF Surroundings

LEMMA LinkInitOk ==
    ASSUME Init
    PROVE  LinkOk(dev) /\ Surroundings
  <1> DEFINE R == [i \in 0 .. Slots - 1 |->
                     CASE i = 0 -> Command("TxAnt") [] i = 1 -> Command("Rxon") [] OTHER -> Consumed]
             L == <<Command("TxAnt"), Command("Rxon")>>
  <1>1. Slots \in Int /\ Slots >= 2 /\ LastChannel \in Int /\ LastChannel >= 1 /\ MaxScans \in Nat
    BY WifiLinkAssumption
  <1>2. Command("TxAnt") \in Frames /\ Command("Rxon") \in Frames
    BY DEF Command, Frames, Commands
  <1>3. L \in Seq(Frames) /\ Len(L) = 2 /\ L[1] = Command("TxAnt") /\ L[2] = Command("Rxon")
    BY <1>2
  <1>4. R \in [0 .. Slots - 1 -> Frames \cup {Consumed}]
    BY <1>1, <1>2
  <1>5. R[0] = Command("TxAnt") /\ R[1] = Command("Rxon")
    BY <1>1
  <1>6. dev = [iwl |-> "Init", status |-> "Disconnected", bssid |-> NoAP,
               sess |-> 0, required |-> FALSE, keysIn |-> FALSE, keyEnd |-> NoEnd,
                  msg4 |-> FALSE, wpa |-> "Initial", nonce |-> 0,
                  dhcp |-> 0, dhcpSess |-> 0, clients |-> 0, ip |-> 0,
                  found |-> {}, scanning |-> FALSE, channel |-> 1,
                  txq |-> <<>>, head |-> 2, tail |-> 0, ring |-> R, log |-> L]
    BY DEF Init, LinkInit
  <1>17. nicPos = 0 /\ nicKeys = [s |-> 0, n |-> 0] /\ heard = {} /\ scans = 0 /\ queue = <<>>
    BY DEF Init, LinkInit
  <1>7. txIrq \in BOOLEAN /\ pciOk \in BOOLEAN
    BY Zenon DEF Init, LinkInit
  <1> HIDE DEF R, L
  <1>8. <<>> \in Seq(Frames) /\ 0 \in Nat /\ 1 \in Nat /\ 2 \in Nat
    OBVIOUS
  <1>9. dev \in Devices
    BY Zenon, <1>3, <1>4, <1>6, <1>8, NoEndType DEF Devices
  <1>10. /\ dev.sess = 0 /\ dev.required = FALSE /\ dev.keysIn = FALSE /\ dev.keyEnd = NoEnd
         /\ dev.msg4 = FALSE /\ dev.wpa = "Initial" /\ dev.ip = 0 /\ dev.dhcpSess = 0
         /\ dev.scanning = FALSE /\ dev.channel = 1 /\ dev.status = "Disconnected"
         /\ dev.txq = <<>> /\ dev.head = 2 /\ dev.tail = 0 /\ dev.ring = R /\ dev.log = L
    BY Zenon, <1>6
  <1>11. RingInv(dev)
    <2>1. 0 % Slots = 0 /\ 1 % Slots = 1
      BY <1>1
    <2>2. ASSUME NEW i \in 1 .. Len(dev.log) PROVE dev.ring[(nicPos + i - 1) % Slots] = dev.log[i]
      <3>1. i \in 1 .. 2
        BY Zenon, <1>3, <1>10
      <3>2. CASE i = 1
        BY <1>3, <1>5, <1>17, <1>10, <2>1, <3>2
      <3>3. CASE i = 2
        BY <1>3, <1>5, <1>17, <1>10, <2>1, <3>3
      <3>4. i = 1 \/ i = 2
        BY <3>1
      <3> QED
        BY <3>2, <3>3, <3>4
    <2> QED
      BY <1>1, <1>3, <1>17, <1>10, <2>2 DEF RingInv
  <1>12. ASSUME NEW i \in 1 .. Len(dev.log) PROVE dev.log[i].k \in {"TxAnt", "Rxon"}
    <2>1. i \in 1 .. 2
      BY Zenon, <1>3, <1>10
    <2>2. i = 1 \/ i = 2
      BY <2>1
    <2> QED
      BY SMTT(30), <1>3, <1>10, <2>2 DEF Command
  <1>13. FramesInv(dev)
    BY <1>10, <1>12 DEF FramesInv, Settled, IsData
  <1>14. KeysInv(dev) /\ Leased(dev)
    BY <1>1, <1>17, <1>10, <1>12 DEF KeysInv, Leased
  <1>15. Handshake(dev)
    BY Zenon, <1>10 DEF Handshake, NoKeysYet, KeysOnTheirWay, KeysInstalled, Reported
  <1>16. Surroundings
    BY <1>1, <1>17, <1>7 DEF Surroundings, Nic, Init, InitInit
  <1> QED
    BY <1>9, <1>11, <1>13, <1>14, <1>15, <1>16 DEF LinkOk, Core

LEMMA InitIInv ==
    Init => IInv
  BY BringUpInit, LinkInitOk DEF Init, IInv

LEMMA InitStepIInv ==
    ASSUME IInv, InitStep \/ StallInTick, UNCHANGED linkVars
    PROVE  IInv'
  <1>1. BringUp'
    BY BringUpTick, BringUpTimeout, BringUpProbe, BringUpClock, BringUpFirmware, BringUpEnds,
       BringUpHangs, BringUpRestart DEF IInv, InitStep, Step
  <1>2. LinkOk(dev)'
    BY LinkPrime DEF IInv, linkVars
  <1>3. pc' = "requests" => pc = "requests"
    BY Zenon DEF InitStep, Step, StallInTick, StartTick, AdvanceCompleted, AdvanceTimeout, StepIdle,
       ProbeFound, ProbeFailed, StepMmioInit, StepPollMacClock, PollMacClockTimeout, StepDmaAlloc,
       StepFwUpload, StepFwWaitAlive, StepFwInitCmds, StepDone, StepFailed, StepReturns,
       StallInStep, Nmi, TimerRestart
  <1>4. Surroundings'
    BY <1>3, SurroundingsKept DEF IInv, Surroundings, linkVars
  <1> QED
    BY <1>1, <1>2, <1>4 DEF IInv

LEMMA DeviceTickIInv ==
    ASSUME IInv, TickNothing \/ TickAborts \/ TickInterrupt
    PROVE  IInv'
  <1>1. BringUp /\ LinkOk(dev) /\ Surroundings /\ Nic
    BY DEF IInv, Surroundings
  <1>2. At("device") /\ service' = service /\ (Then("finish") \/ Then("rx"))
    BY Zenon DEF TickNothing, TickAborts, TickInterrupt
  <1>3. BringUp'
    BY <1>1, <1>2, BringUpThen
  <1>4. UNCHANGED <<nicPos, nicKeys, heard, pciOk, scans, queue>> /\ pc' # "requests"
    BY Zenon, <1>2 DEF TickNothing, TickAborts, TickInterrupt, linkVars, Then
  <1>5. txIrq' \in BOOLEAN
    <2>1. txIrq \in BOOLEAN
      BY <1>1 DEF Surroundings
    <2> QED
      BY Zenon, <2>1 DEF TickNothing, TickAborts, TickInterrupt, linkVars
  <1>6. Surroundings'
    BY <1>1, <1>4, <1>5, SurroundingsKept DEF Surroundings
  <1>7. CASE dev' = dev
    BY <1>1, <1>3, <1>4, <1>6, <1>7, LinkPrime DEF IInv
  <1>8. CASE TickInterrupt
    <2> DEFINE e == IF txIrq THEN ProcessTxQueue(UpdateTxTail(dev, nicPos % Slots)) ELSE dev
    <2>1. LinkOk(e)
      BY <1>1, UpdateTxTailLink, ProcessTxQueueLink
    <2>2. dev' = FinishPendingWpaKeys(e)
      BY <1>8 DEF TickInterrupt
    <2> HIDE DEF e
    <2>3. LinkOk(FinishPendingWpaKeys(e))
      BY <1>1, <2>1, FinishPendingWpaKeysLink
    <2> QED
      BY <1>3, <1>4, <1>6, <2>2, <2>3, LinkPrime DEF IInv
  <1> QED
    BY Zenon, <1>7, <1>8 DEF TickNothing, TickAborts, linkVars

LEMMA ReceiveIInv ==
    ASSUME IInv, RxFrame \/ RxEmpty
    PROVE  IInv'
  <1>1. BringUp /\ LinkOk(dev) /\ Surroundings /\ Nic /\ heard \subseteq Frames
    BY DEF IInv, Surroundings
  <1>2. UNCHANGED <<nicPos, nicKeys, txIrq, heard, pciOk, scans, queue>> /\ pc = "rx"
    BY DEF RxFrame, RxEmpty, At
  <1>3. CASE RxFrame
    <2>1. BringUp' /\ pc' = "rx"
      BY <1>1, <1>2, <1>3, BringUpSame DEF RxFrame, initVars
    <2>2. PICK f \in Replies : dev' = ProcessRxFrame(dev, f)
      BY <1>3 DEF RxFrame
    <2>3. LinkOk(ProcessRxFrame(dev, f))
      BY <1>1, ProcessRxFrameLink
    <2>4. LinkOk(dev)'
      BY <1>2, <2>2, <2>3, LinkPrime
    <2> QED
      BY SMTT(30), <1>1, <1>2, <2>1, <2>4, SurroundingsKept DEF IInv, Surroundings
  <1>4. CASE RxEmpty
    <2>1. At("rx") /\ Then("finish") /\ service' = service /\ pc' = "finish"
      BY <1>4 DEF RxEmpty, Then
    <2>2. BringUp'
      BY <1>1, <2>1, BringUpThen
    <2>3. LinkOk(AdvanceScan(dev)) /\ dev' = AdvanceScan(dev)
      BY <1>1, <1>4, AdvanceScanLink DEF RxEmpty
    <2>4. LinkOk(dev)'
      BY <1>2, <2>3, LinkPrime
    <2> QED
      BY <1>1, <1>2, <2>1, <2>2, <2>4, SurroundingsKept DEF IInv, Surroundings
  <1> QED
    BY <1>3, <1>4

LEMMA RemainingKeeps ==
    ASSUME IInv, NEW requests \in Seq([ap : APs, password : BOOLEAN]), Remaining(requests),
           NEW place \in {"finish", "requests"}, At(place)
    PROVE  /\ BringUp'
           /\ queue' \in Seq([ap : APs, password : BOOLEAN])
           /\ pc' = "requests" => queue' # <<>>
  <1>1. service' \in {service, "registered"}
    BY DEF Remaining
  <1>2. BringUp
    BY DEF IInv
  <1>3. CASE requests = <<>>
    <2>1. Then("idle") /\ pc' = "idle" /\ queue' = requests
      BY <1>3 DEF Remaining, Then
    <2> QED
      BY <1>1, <1>2, <2>1, BringUpThen
  <1>4. CASE requests # <<>>
    <2>1. Then("requests") /\ queue' = requests
      BY <1>4 DEF Remaining
    <2> QED
      BY <1>1, <1>2, <1>4, <2>1, BringUpThen
  <1> QED
    BY <1>3, <1>4

LEMMA FinishIInv ==
    ASSUME IInv, NEW due \in BOOLEAN, Finish(due)
    PROVE  IInv'
  <1>1. LinkOk(dev) /\ Surroundings /\ Nic /\ queue \in Seq([ap : APs, password : BOOLEAN])
    BY DEF IInv, Surroundings
  <1>2. At("finish") /\ Remaining(queue) /\ UNCHANGED <<nicPos, nicKeys, txIrq, heard, pciOk>>
    BY DEF Finish
  <1>3. dev' = dev \/ dev' = StartScanIfIdle(dev)
    BY DEF Finish
  <1>4. LinkOk(StartScanIfIdle(dev))
    BY <1>1, StartScanLink
  <1>5. LinkOk(dev)'
    BY <1>1, <1>2, <1>3, <1>4, LinkPrime
  <1>6. scans' \in 0 .. MaxScans
    <2>1. scans \in 0 .. MaxScans /\ MaxScans \in Nat
      BY <1>1, WifiLinkAssumption DEF Surroundings
    <2> QED
      BY <2>1 DEF Finish
  <1>7. /\ BringUp' /\ queue' \in Seq([ap : APs, password : BOOLEAN])
        /\ pc' = "requests" => queue' # <<>>
    BY Zenon, <1>1, <1>2, RemainingKeeps
  <1>8. Surroundings'
    BY <1>1, <1>2, <1>6, <1>7, SurroundingsKept DEF Surroundings
  <1> QED
    BY <1>5, <1>7, <1>8 DEF IInv

LEMMA FirstAndRest ==
    ASSUME NEW S, NEW q \in Seq(S), q # <<>>
    PROVE  Head(q) \in S /\ Tail(q) \in Seq(S)
  OBVIOUS

LEMMA CarryOutIInv ==
    ASSUME IInv, CarryOut
    PROVE  IInv'
  <1>1. LinkOk(dev) /\ Surroundings /\ Nic
    BY DEF IInv, Surroundings
  <1>2. At("requests") /\ Remaining(Tail(queue))
        /\ UNCHANGED <<nicPos, nicKeys, txIrq, heard, pciOk, scans>>
    BY DEF CarryOut
  <1>3. queue \in Seq([ap : APs, password : BOOLEAN]) /\ queue # <<>>
    BY <1>1, <1>2 DEF Surroundings, At
  <1>4. Head(queue) \in [ap : APs, password : BOOLEAN]
        /\ Tail(queue) \in Seq([ap : APs, password : BOOLEAN])
    BY Zenon, <1>3, FirstAndRest
  <1>5. dev' = dev \/ dev' = Connect(dev, Head(queue))
    BY DEF CarryOut
  <1>6. LinkOk(Connect(dev, Head(queue)))
    BY <1>1, <1>4, ConnectLink
  <1>7. LinkOk(dev)'
    BY <1>1, <1>2, <1>5, <1>6, LinkPrime
  <1>8. /\ BringUp' /\ queue' \in Seq([ap : APs, password : BOOLEAN])
        /\ pc' = "requests" => queue' # <<>>
    BY Zenon, <1>2, <1>4, RemainingKeeps
  <1>9. Surroundings'
    BY <1>1, <1>2, <1>8, SurroundingsKept DEF Surroundings
  <1> QED
    BY <1>7, <1>8, <1>9 DEF IInv

\* The NIC, the PCI link and the user.
LEMMA OthersIInv ==
    ASSUME IInv, NicConsume \/ PciHealth \/ UserConnect
    PROVE  IInv'
  <1>1. LinkOk(dev) /\ Surroundings /\ Nic /\ BringUp
        /\ txIrq \in BOOLEAN /\ pciOk \in BOOLEAN
    BY DEF IInv, Surroundings
  <1>2. UNCHANGED initVars
    BY DEF NicConsume, PciHealth, UserConnect
  <1>3. BringUp' /\ pc' = pc
    BY <1>1, <1>2, BringUpSame DEF initVars
  <1>4. CASE NicConsume
    <2>1. UNCHANGED <<pciOk, scans, queue>>
      BY <1>4 DEF NicConsume
    <2>2. txIrq' \in BOOLEAN
      BY Zenon, <1>4 DEF NicConsume
    <2>3. LinkOk(dev)' /\ Nic' /\ (heard \subseteq Frames)' /\ (\A g \in heard : Settled(g))'
      BY <1>1, <1>4, NicLink DEF Surroundings
    <2>4. Surroundings'
      BY <1>1, <1>3, <2>1, <2>2, <2>3 DEF Surroundings
    <2> QED
      BY <1>3, <2>3, <2>4 DEF IInv
  <1>5. CASE PciHealth
    <2>1. UNCHANGED <<dev, nicPos, nicKeys, txIrq, heard, queue, scans>>
      BY <1>5 DEF PciHealth
    <2>2. pciOk' \in BOOLEAN
      BY Zenon, <1>5 DEF PciHealth
    <2>3. LinkOk(dev)'
      BY <1>1, <2>1, LinkPrime
    <2>4. ASSUME NEW f, Settled(f) PROVE Settled(f)'
      BY <2>1, <2>4 DEF Settled
    <2>5. Surroundings'
      BY <1>1, <1>3, <2>1, <2>2, <2>4 DEF Surroundings, Nic
    <2> QED
      BY <1>3, <2>3, <2>5 DEF IInv
  <1>6. CASE UserConnect
    <2>1. UNCHANGED <<dev, nicPos, nicKeys, txIrq, heard, pciOk, scans>> /\ pc = "idle"
      BY <1>6 DEF UserConnect, At
    <2>2. PICK ap \in APs, p \in BOOLEAN : queue' = Append(queue, [ap |-> ap, password |-> p])
      BY <1>6 DEF UserConnect
    <2>3. [ap |-> ap, password |-> p] \in [ap : APs, password : BOOLEAN]
      OBVIOUS
    <2>4. queue' \in Seq([ap : APs, password : BOOLEAN])
      BY <1>1, <2>2, <2>3 DEF Surroundings
    <2>5. LinkOk(dev)'
      BY <1>1, <2>1, LinkPrime
    <2>6. Surroundings'
      BY <1>1, <1>3, <2>1, <2>4, SurroundingsKept DEF Surroundings
    <2> QED
      BY <1>3, <2>5, <2>6 DEF IInv
  <1> QED
    BY <1>4, <1>5, <1>6

LEMMA StepIInv ==
    IInv /\ [Next]_vars => IInv'
  <1> SUFFICES ASSUME IInv, [Next]_vars PROVE IInv'
    OBVIOUS
  <1>1. CASE UNCHANGED vars
    <2>1. BringUp' /\ LinkOk(dev)' /\ Surroundings'
      BY <1>1, BringUpSame, LinkPrime, SurroundingsKept DEF IInv, Surroundings, vars, initVars, linkVars
    <2> QED
      BY SMTT(30), <2>1 DEF IInv
  <1>2. CASE Tick
    BY <1>2, InitStepIInv, DeviceTickIInv, ReceiveIInv, FinishIInv, CarryOutIInv DEF Tick
  <1>3. CASE NicConsume \/ PciHealth \/ UserConnect
    BY <1>3, OthersIInv
  <1> QED
    BY <1>1, <1>2, <1>3 DEF Next

-----------------------------------------------------------------------------
(***************************************************************************)
(* What follows from the invariant.                                        *)
(***************************************************************************)
LEMMA IInvTypes ==
    IInv => TypeInv
  <1> SUFFICES ASSUME IInv PROVE TypeInv
    OBVIOUS
  <1>1. InitTypeInv
    BY InitTypes DEF IInv, BringUp
  <1>2. dev \in Devices /\ RingInv(dev) /\ Leased(dev) /\ Reported(dev) /\ KeysOnTheirWay(dev)
    BY DEF IInv, LinkOk, Core, Handshake
  <1>3. txIrq \in BOOLEAN /\ pciOk \in BOOLEAN /\ nicPos \in Nat /\ nicKeys.n \in 0 .. 2
        /\ scans \in 0 .. MaxScans
    BY DEF IInv, Surroundings, Nic
  <1>4. dev.iwl \in {"Init", "Scanning", "AuthSent", "AssocSent", "Connected", "Disconnected"}
        /\ dev.status \in {"Disconnected", "Scanning", "Authenticating", "Handshake",
                           "Connected", "Error"}
        /\ dev.wpa \in {"Initial", "WaitMsg1", "WaitMsg3", "WaitMsg4", "Done", "Error"}
    BY Zenon, <1>2, StateTypes
  <1>8. dev.tail \in Nat /\ dev.head \in Nat /\ dev.ip \in Nat /\ dev.sess \in Nat
        /\ dev.keyEnd \in Int
    BY Zenon, <1>2, DeviceTypes
  <1>9. dev.tail <= nicPos /\ nicPos <= dev.head /\ dev.ip <= dev.sess
    BY <1>2 DEF RingInv, Leased
  <1>5. dev.tail \in 0 .. dev.head /\ nicPos \in 0 .. dev.head /\ dev.ip \in 0 .. dev.sess
    BY SMTT(30), <1>3, <1>8, <1>9
  <1>10. dev.keyEnd # NoEnd => dev.keyEnd >= 2 /\ dev.keyEnd <= dev.head
    BY <1>2 DEF KeysOnTheirWay, Reported
  <1>6. dev.keyEnd \in {NoEnd} \cup 1 .. dev.head
    BY <1>8, <1>10
  <1>7. LinkTypeInv
    BY Zenon, <1>2, <1>3, <1>4, <1>5, <1>6, DeviceTypes, FlagTypes DEF LinkTypeInv, Leased, Reported
  <1> QED
    BY <1>1, <1>7 DEF TypeInv

\* IInv holds in every state the Wi-Fi service, the NIC and the access points
\* reach, for any number of access points, ring size and firmware list.
THEOREM WifiInvariant ==
    Spec => []IInv
  <1>1. Init => IInv
    BY InitIInv
  <1>2. IInv /\ [Next]_vars => IInv'
    BY StepIInv
  <1> QED
    BY <1>1, <1>2, PTL DEF Spec

\* A bring-up that is over (wifi_init_completed) has handed the device over
\* exactly if it reached Done and left none in its context, however it ended:
\* a phase that failed, the service's timeout or the watchdog's restart.
THEOREM BringUpOutcome ==
    Spec => []InitOutcome
  <1>1. IInv => InitOutcome
    BY DEF IInv, BringUp, Ended, InitOutcome
  <1> QED
    BY <1>1, WifiInvariant, PTL

\* The NIC reads from the ring exactly what tx.rs wrote, in that order: no
\* descriptor is written again before the NIC is past it, for any ring size.
THEOREM RingFifo ==
    Spec => []RingIsFifo
  <1>1. IInv => RingIsFifo
    BY Zenon DEF IInv, LinkOk, Core, RingInv, RingIsFifo
  <1> QED
    BY <1>1, WifiInvariant, PTL

\* A protected association is reported Connected, and sends data frames, only
\* with both of its keys in the NIC, whatever frames of earlier attempts are
\* received and however late the completions of the key commands are seen.
THEOREM ProtectedLink ==
    Spec => []LinkProtected
  <1>1. IInv => LinkProtected
    <2> SUFFICES ASSUME IInv PROVE LinkProtected
      OBVIOUS
    <2>1. TypeInv
      BY IInvTypes
    <2>2. ConnectedProtected /\ KeysInNic
      BY Zenon DEF IInv, LinkOk, Handshake, Reported, KeysInstalled, ConnectedProtected, KeysInNic
    <2>3. DataAfterKeys
      BY DEF IInv, Surroundings, Settled, DataAfterKeys
    <2> QED
      BY <2>1, <2>2, <2>3 DEF LinkProtected
  <1> QED
    BY <1>1, WifiInvariant, PTL

\* The address of a protected association was leased on it (receive_dhcp): an
\* acknowledgement for the client of an earlier association has no effect.
THEOREM AddressIsCurrent ==
    Spec => []SecureAddressIsCurrent
  <1>1. IInv => SecureAddressIsCurrent
    BY DEF IInv, LinkOk, Core, Leased, SecureAddressIsCurrent
  <1> QED
    BY <1>1, WifiInvariant, PTL

=============================================================================
