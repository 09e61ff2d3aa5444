------------------------------- MODULE Platform --------------------------------
(***************************************************************************)
(* Platform devices: the watchdog around MMIO accesses, and the setup and  *)
(* packets of the PS/2 controller. The two parts share no state.           *)
(***************************************************************************)
EXTENDS Integers, Sequences, FiniteSets

(***************************************************************************)
(* MmioWatchdog.  The NMI watchdog over register reads.  A driver arms it, *)
(* the checked read turns the APIC timer into a one-shot NMI and back, and *)
(* the NMI handler gives a stalled read up: it frees the configuration     *)
(* lock, disables the endpoint, restores the timer and parks the CPU until *)
(* a timer interrupt restarts the scheduler loop.  The driver either only  *)
(* writes registers under the watchdog or reads them, with the presence    *)
(* check of PciHealth before every read.                                   *)
(***************************************************************************)

CONSTANT MwUses    \* bound: uses of the watchdog

ASSUME MwAssumption == MwUses \in Nat

VARIABLES
    mwPc,       \* where the driver is, or what the CPU does instead
    mwUses,
    mwArmed,    \* MMIO_WATCHDOG_ARMED
    mwActive,   \* MMIO_WATCHDOG_ACTIVE
    mwTimer,    \* the LVT timer: "periodic", "nmi" or "stopped"
    mwSaved,    \* the saved LVT value: "periodic", "nmi" or "stopped" (both words zero)
    mwConfig,   \* PCI_CONFIG_LOCK
    mwApic,     \* APIC_CONTROLLER's lock
    mwTrigger,  \* MMIO_NMI_RECOVERY_TRIGGERED
    mwEnabled,  \* memory and bus-master bits of the endpoint
    mwPresent,  \* the endpoint answers configuration reads
    mwMore,     \* reads of this use still to come
    mwBlind     \* history: the timer was restored before anything had been saved

mwVars == <<mwPc, mwUses, mwArmed, mwActive, mwTimer, mwSaved, mwConfig, mwApic, mwTrigger, mwEnabled,
            mwPresent, mwMore, mwBlind>>
mwFlags == <<mwArmed, mwActive>>
mwClock == <<mwTimer, mwSaved, mwBlind>>
mwLocks == <<mwConfig, mwApic>>

MwInit ==
    /\ mwPc = "idle" /\ mwUses = 0
    /\ mwArmed = FALSE /\ mwActive = FALSE
    /\ mwTimer = "periodic" /\ mwSaved = "stopped" /\ mwBlind = FALSE
    /\ mwConfig = FALSE /\ mwApic = FALSE
    /\ mwTrigger = FALSE /\ mwEnabled = TRUE /\ mwPresent = TRUE /\ mwMore = 0

\* arm_mmio_watchdog, then writes only (MmioInit) or one or two checked reads.
Arm(reads) ==
    /\ mwPc = "idle" /\ mwUses < MwUses
    /\ mwUses' = mwUses + 1
    /\ mwArmed' = TRUE /\ mwActive' = FALSE
    /\ mwMore' = reads
    /\ mwPc' = IF reads = 0 THEN "disarm" ELSE "check"
    /\ UNCHANGED <<mwClock, mwLocks, mwTrigger, mwEnabled, mwPresent>>

\* is_device_present: one configuration read under the configuration lock.
TakeConfig ==
    /\ mwPc = "check" /\ ~mwConfig
    /\ mwConfig' = TRUE /\ mwPc' = "present"
    /\ UNCHANGED <<mwUses, mwFlags, mwClock, mwApic, mwTrigger, mwEnabled, mwPresent, mwMore>>

\* A device that is gone ends the use: the caller disarms.
DevicePresent ==
    /\ mwPc = "present"
    /\ mwConfig' = FALSE
    /\ mwPc' = IF mwPresent THEN "activate" ELSE "disarm"
    /\ UNCHANGED <<mwUses, mwFlags, mwClock, mwApic, mwTrigger, mwEnabled, mwPresent, mwMore>>

\* Only a read that finds the watchdog armed and not active starts the NMI timer.
Activates == mwArmed /\ ~mwActive
Activate ==
    /\ mwPc = "activate"
    /\ IF Activates
       THEN mwActive' = TRUE /\ mwApic' = TRUE /\ mwPc' = "program" /\ UNCHANGED mwArmed
       ELSE mwPc' = "plain read" /\ UNCHANGED <<mwFlags, mwApic>>
    /\ UNCHANGED <<mwUses, mwClock, mwConfig, mwTrigger, mwEnabled, mwPresent, mwMore>>

\* arm_watchdog_timer_impl: the current mode is saved before it is replaced.
SaveLvt == mwTimer
Program ==
    /\ mwPc = "program"
    /\ mwSaved' = SaveLvt /\ mwTimer' = "nmi" /\ mwApic' = FALSE
    /\ mwPc' = "read"
    /\ UNCHANGED <<mwUses, mwFlags, mwBlind, mwConfig, mwTrigger, mwEnabled, mwPresent, mwMore>>

\* The value arrives; the read that activated the watchdog disarms it.
ReadReturns ==
    /\ mwPc = "read"
    /\ mwActive' = FALSE /\ mwPc' = "disarm read"
    /\ UNCHANGED <<mwUses, mwArmed, mwClock, mwLocks, mwTrigger, mwEnabled, mwPresent, mwMore>>

PlainReadReturns ==
    /\ mwPc = "plain read"
    /\ mwMore' = mwMore - 1
    /\ mwPc' = IF mwMore = 1 THEN "disarm" ELSE "check"
    /\ UNCHANGED <<mwUses, mwFlags, mwClock, mwLocks, mwTrigger, mwEnabled, mwPresent>>

\* disarm_mmio_watchdog: the flags go first, then the timer is restored.
ClearFlags ==
    /\ mwPc \in {"disarm", "disarm read"}
    /\ mwArmed' = FALSE /\ mwActive' = FALSE
    /\ mwPc' = IF mwPc = "disarm" THEN "restore" ELSE "restore read"
    /\ UNCHANGED <<mwUses, mwClock, mwLocks, mwTrigger, mwEnabled, mwPresent, mwMore>>

\* restore_watchdog_timer_impl writes what was saved, zeros when nothing was.
Restored == mwTimer' = mwSaved /\ UNCHANGED mwSaved /\ mwBlind' = (mwBlind \/ mwSaved = "stopped")
Restore ==
    /\ mwPc \in {"restore", "restore read"}
    /\ Restored
    /\ mwMore' = IF mwPc = "restore" THEN 0 ELSE mwMore - 1
    /\ mwPc' = IF mwPc = "restore" THEN "idle" ELSE IF mwMore = 1 THEN "disarm" ELSE "check"
    /\ UNCHANGED <<mwUses, mwFlags, mwLocks, mwTrigger, mwEnabled, mwPresent>>

\* The one-shot count has run out.  The handler takes the stalled (or late) read for lost.
NmiArmed ==
    /\ mwTimer = "nmi" /\ mwPc \in {"read", "disarm read"} /\ mwArmed
    /\ mwConfig' = FALSE /\ mwApic' = FALSE
    /\ mwEnabled' = FALSE
    /\ mwArmed' = FALSE /\ mwActive' = FALSE
    /\ Restored
    /\ mwTrigger' = TRUE /\ mwPc' = "trampoline"
    /\ UNCHANGED <<mwUses, mwPresent, mwMore>>

\* The count runs out after the flags were cleared: the handler knows nothing of it and halts.
NmiUnexpected ==
    /\ mwTimer = "nmi" /\ mwPc = "restore read"
    /\ mwPc' = "halted"
    /\ UNCHANGED <<mwUses, mwFlags, mwClock, mwLocks, mwTrigger, mwEnabled, mwPresent, mwMore>>

\* Mutated form: only while MMIO to the device is enabled.
TimerRestartsIfEnabled ==
    /\ mwPc = "trampoline" /\ mwTimer = "periodic" /\ mwTrigger /\ mwEnabled
    /\ mwTrigger' = FALSE /\ mwPc' = "idle" /\ mwMore' = 0
    /\ UNCHANGED <<mwUses, mwFlags, mwClock, mwLocks, mwEnabled, mwPresent>>

\* timer_handler: the CPU leaves the trampoline for the scheduler loop.
TimerRestarts ==
    /\ mwPc = "trampoline" /\ mwTimer = "periodic" /\ mwTrigger
    /\ mwTrigger' = FALSE /\ mwPc' = "idle" /\ mwMore' = 0
    /\ UNCHANGED <<mwUses, mwFlags, mwClock, mwLocks, mwEnabled, mwPresent>>

\* The endpoint drops off the bus or comes back.
Surprise ==
    /\ mwPc \in {"idle", "check", "read"} /\ mwPresent' = ~mwPresent
    /\ UNCHANGED <<mwPc, mwUses, mwFlags, mwClock, mwLocks, mwTrigger, mwEnabled, mwMore>>

MwNext ==
    \/ \E reads \in 0 .. 2 : Arm(reads)
    \/ TakeConfig \/ DevicePresent \/ Activate \/ Program \/ ReadReturns \/ PlainReadReturns
    \/ ClearFlags \/ Restore \/ NmiArmed \/ NmiUnexpected \/ TimerRestarts \/ Surprise

MwSpec == MwInit /\ [][MwNext]_mwVars /\ WF_mwVars(TimerRestarts)

-----------------------------------------------------------------------------

\* Every variable keeps the type of the static it models.
MwTypeInv ==
    /\ mwTimer \in {"periodic", "nmi", "stopped"} /\ mwSaved \in {"periodic", "nmi", "stopped"}
    /\ {mwArmed, mwActive, mwConfig, mwApic, mwTrigger, mwEnabled, mwPresent, mwBlind} \subseteq BOOLEAN
    /\ mwUses \in 0 .. MwUses /\ mwMore \in 0 .. 2

MwInRead == {"read", "disarm read", "restore read", "halted"}

\* Outside a protected read the system timer ticks: every way out of the watchdog (the value, the
\* device gone, the NMI) puts back the mode found when it was armed, provided no use that only wrote
\* registers restored the timer before a read had saved it.
TimerRestored == mwPc \notin MwInRead /\ ~mwBlind => mwTimer = "periodic"

\* The NMI handler halts the machine only for a count that runs out while a read is being disarmed,
\* never for a stalled read: a timer in NMI mode otherwise means an armed watchdog.
NmiMeansArmed == mwTimer = "nmi" => mwArmed \/ mwPc \in {"restore read", "halted"}

\* Once the NMI handler has parked the CPU, a timer interrupt restarts the scheduler loop, provided
\* the timer was not restored blindly before. RecoveryDue leads to RecoveryOver.
RecoveryDue == mwTrigger /\ ~mwBlind
RecoveryOver == mwPc = "idle" \/ mwBlind

(***************************************************************************)
(* Ps2Setup.  Bringing up the PS/2 controller, its keyboard and its mouse, *)
(* and the decoding of the mouse's packets afterwards.  Setup is a         *)
(* conversation over one output buffer: every command waits at most 100 ms *)
(* for a byte and takes the next one, whichever command it answers.        *)
(***************************************************************************)

CONSTANTS
    PtTimeouts,  \* bound: waits that give up before the answer comes
    PtPackets,   \* bound: mouse packets sent
    PtLosses     \* bound: mouse bytes lost

ASSUME PtAssumption == {PtTimeouts, PtPackets, PtLosses} \subseteq Nat

Ports == {1, 2}          \* keyboard and mouse port

VARIABLES
    ptWorking,   \* ports whose device works
    ptPc,        \* step of init_ps2_controller and init_mouse
    ptOut,       \* answers in or on the way to the output buffer
    ptLate,      \* waits that gave up
    ptPresent,   \* present
    ptEnabled,   \* ports the controller has enabled
    ptBackend,   \* BACKEND: "none", "external" or "internal"
    ptPacket,    \* bytes of the packet the mouse is sending
    ptSent,      \* packets begun
    ptLost,      \* bytes lost
    ptSince,     \* history: whole packets since the last loss
    ptLooked,    \* history: an axis byte looked like a marker
    ptIndex,     \* DECODER.index
    ptFirst,     \* DECODER.packet[0]: its button bit
    ptStatus,    \* LATEST_STATUS
    ptButton,    \* the mouse's button at its last whole packet
    ptPrev,      \* PREV_MOUSE_BUTTONS
    ptEvents     \* history: the button events pushed, newest last

ptVars == <<ptWorking, ptPc, ptOut, ptLate, ptPresent, ptEnabled, ptBackend, ptPacket, ptSent, ptLost, ptSince, ptLooked,
            ptIndex, ptFirst, ptStatus, ptButton, ptPrev, ptEvents>>
ptMouse == <<ptPacket, ptSent, ptLost, ptSince, ptLooked, ptIndex, ptFirst, ptStatus, ptButton, ptPrev, ptEvents>>

PtInit ==
    /\ ptWorking \in SUBSET Ports
    /\ ptPc = "flush" /\ ptOut \in {<<>>, <<"stale">>} /\ ptLate = 0 /\ ptPresent = {} /\ ptEnabled = Ports /\ ptBackend = "none"
    /\ ptPacket = <<>> /\ ptSent = 0 /\ ptLost = 0 /\ ptSince = 0 /\ ptLooked = FALSE /\ ptIndex = 0 /\ ptFirst = FALSE
    /\ ptStatus = FALSE /\ ptButton = FALSE /\ ptPrev = FALSE /\ ptEvents = <<>>

\* Ports disabled, then the output buffer read until a wait finds it empty.
FlushOutput ==
    /\ ptPc = "flush"
    /\ ptEnabled' = {} /\ ptOut' = <<>> /\ ptPc' = "config"
    /\ UNCHANGED <<ptWorking, ptLate, ptPresent, ptBackend, ptMouse>>

PtByte == {"none", "stale", "config", "passed", "zero", "failed", "ack", "bat"}

\* read_data returns b: the next byte, or none when the wait gives up first; `answers` are this
\* command's.
ReadData(answers, b) ==
    \/ /\ ptOut \o answers # <<>>
       /\ b = Head(ptOut \o answers)
       /\ ptOut' = Tail(ptOut \o answers)
       /\ UNCHANGED ptLate
    \/ /\ ptLate < PtTimeouts \/ ptOut \o answers = <<>>
       /\ b = "none"
       /\ ptOut' = ptOut \o answers
       /\ ptLate' = IF ptOut \o answers = <<>> THEN ptLate ELSE ptLate + 1

\* read_config_byte and write_config_byte: without a configuration byte there is no controller.
Config ==
    /\ ptPc = "config"
    /\ \E b \in PtByte : ReadData(<<"config">>, b) /\ ptPc' = IF b = "none" THEN "mouseport" ELSE "self"
    /\ UNCHANGED <<ptWorking, ptPresent, ptEnabled, ptBackend, ptMouse>>

\* The self-test's answer only decides a log line.
SelfTest ==
    /\ ptPc = "self"
    /\ \E b \in PtByte : ReadData(<<"passed">>, b) /\ ptPc' = "test1"
    /\ UNCHANGED <<ptWorking, ptPresent, ptEnabled, ptBackend, ptMouse>>

PortPasses(b) == b = "zero"
TestPort(p) ==
    /\ ptPc = IF p = 1 THEN "test1" ELSE "test2"
    /\ \E b \in PtByte :
          /\ ReadData(<<IF p \in ptWorking THEN "zero" ELSE "failed">>, b)
          /\ ptPresent' = IF PortPasses(b) THEN ptPresent \cup {p} ELSE ptPresent
    /\ ptPc' = IF p = 1 THEN "test2" ELSE "reconfig"
    /\ UNCHANGED <<ptWorking, ptEnabled, ptBackend, ptMouse>>

\* The configuration again, then the ports that passed are enabled.
Reconfig ==
    /\ ptPc = "reconfig"
    /\ \E b \in PtByte : ReadData(<<"config">>, b)
    /\ ptEnabled' = ptPresent
    /\ ptPc' = IF 1 \in ptPresent THEN "keyboard" ELSE IF 2 \in ptPresent THEN "mouse" ELSE "mouseport"
    /\ UNCHANGED <<ptWorking, ptPresent, ptBackend, ptMouse>>

\* Keyboard reset: bytes are taken until a wait finds none; the self-test's byte may come after it.
ResetKeyboard ==
    /\ ptPc = "keyboard" /\ ptPc' = "scanning"
    /\ \/ ptOut' = <<>> /\ UNCHANGED ptLate
       \/ ptLate < PtTimeouts /\ ptLate' = ptLate + 1 /\ ptOut' = <<"bat">>
    /\ UNCHANGED <<ptWorking, ptPresent, ptEnabled, ptBackend, ptMouse>>

\* Two commands are sent, one acknowledgement is read.
EnableScanning ==
    /\ ptPc = "scanning"
    /\ \E b \in PtByte : ReadData(IF 1 \in ptWorking THEN <<"ack", "ack">> ELSE <<>>, b)
    /\ ptPc' = IF 2 \in ptPresent THEN "mouse" ELSE "mouseport"
    /\ UNCHANGED <<ptWorking, ptPresent, ptEnabled, ptBackend, ptMouse>>

DrainAll == ptOut' = <<>>
ResetMouse ==
    /\ ptPc = "mouse" /\ ptPc' = "mouseport"
    /\ \/ DrainAll /\ UNCHANGED ptLate
       \/ ptLate < PtTimeouts /\ ptLate' = ptLate + 1 /\ ptOut' = <<"bat", "zero">>
    /\ UNCHANGED <<ptWorking, ptPresent, ptEnabled, ptBackend, ptMouse>>

\* init_mouse: the mouse port is there when the byte read as configuration has its clock running.
MousePortPresent ==
    /\ ptPc = "mouseport"
    /\ \E b \in PtByte : ReadData(<<"config">>, b) /\ ptPc' = IF b \in {"config", "zero"} THEN "mouseinit" ELSE "nomouse"
    /\ UNCHANGED <<ptWorking, ptPresent, ptEnabled, ptBackend, ptMouse>>

\* The library's own init, which may fail; then two commands, each of which must be acknowledged.
InitMouse ==
    /\ ptPc = "mouseinit"
    /\ \/ ptBackend' = "external" /\ ptPc' = "done" /\ 2 \in ptWorking /\ UNCHANGED <<ptOut, ptLate, ptEnabled>>
       \/ /\ ptEnabled' = ptEnabled \cup {2}
          /\ \E b \in PtByte : ReadData(IF 2 \in ptWorking THEN <<"ack">> ELSE <<>>, b) /\ ptPc' = IF b = "ack" THEN "mouseinit2" ELSE "nomouse"
          /\ UNCHANGED ptBackend
    /\ UNCHANGED <<ptWorking, ptPresent, ptMouse>>

InitMouseTwo ==
    /\ ptPc = "mouseinit2"
    /\ \E b \in PtByte : /\ ReadData(<<"ack">>, b)
                         /\ ptPc' = IF b = "ack" THEN "done" ELSE "nomouse"
                         /\ ptBackend' = IF b = "ack" THEN "internal" ELSE "none"
    /\ UNCHANGED <<ptWorking, ptPresent, ptEnabled, ptMouse>>

-----------------------------------------------------------------------------

ptSetup == <<ptWorking, ptPc, ptOut, ptLate, ptPresent, ptEnabled, ptBackend>>

\* The mouse starts a packet: marker bit and button, then two axes whose bytes may look like a marker.
SendPacket(button, looks) ==
    /\ ptPc = "done" /\ ptPacket = <<>> /\ ptSent < PtPackets
    /\ ptSent' = ptSent + 1
    /\ ptPacket' = << <<TRUE, button>>, <<looks, ~button>>, <<looks, ~button>> >>
    /\ ptLooked' = (ptLooked \/ looks)
    /\ UNCHANGED <<ptSetup, ptLost, ptSince, ptIndex, ptFirst, ptStatus, ptButton, ptPrev, ptEvents>>

LoseByte ==
    /\ ptPacket # <<>> /\ ptLost < PtLosses
    /\ ptLost' = ptLost + 1 /\ ptPacket' = Tail(ptPacket) /\ ptSince' = IF Len(ptPacket) = 1 THEN 0 ELSE -1
    /\ UNCHANGED <<ptSetup, ptSent, ptLooked, ptIndex, ptFirst, ptStatus, ptButton, ptPrev, ptEvents>>

\* PacketDecoder::push skips bytes without the marker when a packet should begin.
Skips(byte) == ptIndex = 0 /\ ~byte[1]

\* handle_mouse_data: the external back end takes the buttons from every third byte.
MouseByte ==
    /\ ptPacket # <<>>
    /\ LET byte == Head(ptPacket) IN
       IF ptBackend = "external"
       THEN /\ ptStatus' = IF ptIndex = 0 THEN byte[2] ELSE ptStatus
            /\ ptIndex' = (ptIndex + 1) % 3
            /\ UNCHANGED ptFirst
       ELSE IF Skips(byte) THEN UNCHANGED <<ptStatus, ptIndex, ptFirst>>
       ELSE /\ ptFirst' = IF ptIndex = 0 THEN byte[2] ELSE ptFirst
            /\ ptIndex' = (ptIndex + 1) % 3
            /\ ptStatus' = IF ptIndex = 2 THEN ptFirst ELSE ptStatus
    /\ ptPacket' = Tail(ptPacket)
    /\ ptButton' = IF Len(ptPacket) = 1 THEN ~Head(ptPacket)[2] ELSE ptButton
    /\ ptSince' = IF Len(ptPacket) = 1 THEN ptSince + 1 ELSE ptSince
    /\ UNCHANGED <<ptSetup, ptSent, ptLost, ptLooked, ptPrev, ptEvents>>

\* poll_mouse_state: an event for every button that differs from the previous poll.
KeepButtons == ptPrev' = ptStatus
PollMouse ==
    /\ ptPc = "done" /\ ptStatus # ptPrev
    /\ ptEvents' = Append(ptEvents, IF ptStatus THEN "down" ELSE "up")
    /\ KeepButtons
    /\ UNCHANGED <<ptSetup, ptPacket, ptSent, ptLost, ptSince, ptLooked, ptIndex, ptFirst, ptStatus, ptButton>>

PtNext ==
    \/ FlushOutput \/ Config \/ SelfTest \/ \E p \in Ports : TestPort(p)
    \/ Reconfig \/ ResetKeyboard \/ EnableScanning \/ ResetMouse \/ MousePortPresent \/ InitMouse \/ InitMouseTwo
    \/ \E button, looks \in BOOLEAN : SendPacket(button, looks)
    \/ LoseByte \/ MouseByte \/ PollMouse

PtSpec == PtInit /\ [][PtNext]_ptVars

-----------------------------------------------------------------------------

\* The ports, steps and decoder position stay in the ranges of their types.
PtTypeInv ==
    /\ ptWorking \subseteq Ports /\ ptPresent \subseteq Ports /\ ptEnabled \subseteq Ports
    /\ ptLate \in 0 .. PtTimeouts /\ ptSent \in 0 .. PtPackets /\ ptLost \in 0 .. PtLosses /\ ptSince \in -1 .. PtPackets
    /\ ptIndex \in 0 .. 2 /\ {ptFirst, ptStatus, ptButton, ptPrev} \subseteq BOOLEAN
    /\ ptBackend \in {"none", "external", "internal"}

\* As long as no wait gave up early, the ports init_ps2_controller reports are the ones that work,
\* although no answer names its command and the self-test's result is not looked at.
PresentIsWorking == ptLate = 0 /\ ptPc \notin {"flush", "config", "self", "test1", "test2"} => ptPresent = ptWorking

\* The acknowledgement left unread by the keyboard's setup never hides a working mouse: init_mouse
\* gives up on it only when some wait gave up early.
MouseFound == ptPc = "nomouse" /\ 2 \in ptWorking => ptLate > 0

\* The button state is the one of the mouse's last packet when no byte was ever lost, and again at the
\* second whole packet after a loss when the driver's own decoder runs and no axis byte looks like the
\* marker of a first byte (PacketDecoder::push): a loss costs one packet.
ButtonsInStep ==
    ptPacket = <<>> /\ (ptLost = 0 \/ (ptSince >= 2 /\ ptBackend = "internal" /\ ~ptLooked))
        => ptIndex = 0 /\ ptStatus = ptButton

\* Button events alternate, a press first: the desktop never sees two presses without a release.
EventsAlternate == \A i \in 1 .. Len(ptEvents) : ptEvents[i] = IF i % 2 = 1 THEN "down" ELSE "up"

--------------------------------------------------------------------------------
\* The watchdog and the PS/2 driver leave their hardware in the state that their bookkeeping says.
PlatformSound ==
    /\ MwTypeInv /\ TimerRestored /\ NmiMeansArmed
    /\ PtTypeInv /\ PresentIsWorking /\ MouseFound /\ ButtonsInStep /\ EventsAlternate
================================================================================
