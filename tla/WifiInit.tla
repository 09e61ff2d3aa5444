-------------------------------- MODULE WifiInit --------------------------------
(***************************************************************************)
(* Bringing up the Intel Wi-Fi device (nitrogen iwlwifi/connection_state.rs)*)
(* one phase per tick of the Wi-Fi service, so that the desktop keeps       *)
(* running, with the two ways out of a bring-up that does not progress: the *)
(* service's own timeout, and the NMI watchdog over register reads that the *)
(* PCIe link never completes (mmio.rs), after which the timer interrupt     *)
(* abandons the stack and restarts the scheduler loop.                      *)
(*                                                                         *)
(* One CPU runs everything.  pc is the place in WifiService::tick; a phase   *)
(* is one step, unless a read in it stalls.  What the hardware answers is   *)
(* a free choice.                                                          *)
(***************************************************************************)
EXTENDS Integers

CONSTANTS
    InitTicks,      \* WIFI_INIT_TIMEOUT_TICKS, 600 in the code
    Candidates,     \* length of the firmware list of the device
    MayStall        \* phases, or "tick", in which a register read may stall

Phases == {"Idle", "PciProbe", "MmioInit", "MmioPollMacClock", "DmaAlloc",
           "FwUpload", "FwWaitAlive", "FwInitCmds", "Done", "Failed"}

\* The phases that read device registers.
ReadPhases == {"MmioPollMacClock", "FwUpload", "FwWaitAlive"}

ASSUME WifiInitAssumption ==
    /\ InitTicks \in Nat \ {0}
    /\ Candidates \in Nat \ {0}
    /\ MayStall \subseteq ReadPhases \cup {"tick"}

VARIABLES
    phase,      \* WIFI_INIT_PHASE
    completed,  \* WIFI_INIT_COMPLETED
    pending,    \* WifiService::init_pending
    age,        \* ticks since WifiService::init_started, 0 once not pending
    ctxPci,     \* WIFI_INIT_CTX holds pci_dev and health
    ctxDev,     \* WIFI_INIT_CTX holds mmio_device, which owns the DMA memory
    fwIdx,      \* WIFI_INIT_CTX.fw_candidate_idx
    lock,       \* WIFI_INIT_CTX's mutex: free, or held by a step that hangs
    device,     \* WIFI_DEVICE is Some
    busMaster,  \* PCI command register: the device may access memory
    cpu,        \* run, stalled in a read, spin on a mutex, or trampoline
    armed,      \* MMIO_WATCHDOG_ARMED
    triggered,  \* MMIO_NMI_RECOVERY_TRIGGERED
    service,    \* the service list: registered, ticking (taken out), or lost
    pc          \* place in WifiService::tick

initVars == <<phase, completed, pending, age, ctxPci, ctxDev, fwIdx, lock,
              device, busMaster, cpu, armed, triggered, service, pc>>

InitInit ==
    /\ phase = "Idle" /\ completed = FALSE /\ pending = TRUE /\ age = 0
    /\ ctxPci = FALSE /\ ctxDev = FALSE /\ fwIdx = 0 /\ lock = "free"
    /\ device = FALSE /\ busMaster = FALSE
    /\ cpu = "run" /\ armed = FALSE /\ triggered = FALSE
    /\ service = "registered" /\ pc = "idle"

InitTypeInv ==
    /\ phase \in Phases
    /\ completed \in BOOLEAN /\ pending \in BOOLEAN /\ ctxPci \in BOOLEAN
    /\ ctxDev \in BOOLEAN /\ device \in BOOLEAN /\ busMaster \in BOOLEAN
    /\ armed \in BOOLEAN /\ triggered \in BOOLEAN
    /\ age \in 0 .. InitTicks
    /\ fwIdx \in 0 .. Candidates
    /\ lock \in {"free", "held"}
    /\ cpu \in {"run", "stalled", "spin", "trampoline"}
    /\ service \in {"registered", "ticking", "lost"}
    /\ pc \in {"idle", "init", "device", "rx", "finish", "requests"}

-----------------------------------------------------------------------------
(***************************************************************************)
(* The tick takes the service out of the list; advance_init runs while the  *)
(* bring-up is pending.                                                    *)
(***************************************************************************)
StartTick ==
    /\ cpu = "run" /\ pc = "idle" /\ service = "registered"
    /\ service' = "ticking"
    /\ pc' = IF pending THEN "init" ELSE "device"
    /\ UNCHANGED <<phase, completed, pending, age, ctxPci, ctxDev, fwIdx, lock,
                   device, busMaster, cpu, armed, triggered>>

AdvanceCompleted ==
    /\ cpu = "run" /\ pc = "init" /\ completed
    /\ pending' = FALSE
    /\ age' = 0
    /\ pc' = "device"
    /\ UNCHANGED <<phase, completed, ctxPci, ctxDev, fwIdx, lock, device,
                   busMaster, cpu, armed, triggered, service>>

\* force_init_failed.  The device is dropped, which frees its DMA memory,
\* before the bus mastering of a device still in the context is turned off.
ForceUnlocked ==
    /\ ctxDev' = FALSE
    /\ busMaster' = (busMaster /\ ~ctxPci)

ForceInitFailed ==
    IF completed
    THEN UNCHANGED <<phase, completed, ctxDev, busMaster>>
    ELSE /\ phase' = "Failed"
         /\ completed' = TRUE
         /\ IF lock = "free" THEN ForceUnlocked ELSE UNCHANGED <<ctxDev, busMaster>>

AdvanceTimeout ==
    /\ cpu = "run" /\ pc = "init" /\ ~completed /\ age = InitTicks
    /\ ForceInitFailed
    /\ pending' = FALSE
    /\ age' = 0
    /\ pc' = "device"
    /\ UNCHANGED <<ctxPci, fwIdx, lock, device, cpu, armed, triggered, service>>

\* try_init_wifi_device_step enters a phase.
Stepping(p) ==
    /\ cpu = "run" /\ pc = "init" /\ ~completed /\ age < InitTicks
    /\ phase = p

\* The frame of a step that returns.
StepReturns ==
    /\ age' = age + 1
    /\ pc' = "device"
    /\ UNCHANGED <<pending, lock, cpu, armed, triggered, service>>

Goto(p) == phase' = p /\ UNCHANGED completed

StepIdle ==
    /\ Stepping("Idle")
    /\ IF device THEN Goto("Done") ELSE \E p \in {"PciProbe", "Failed"} : Goto(p)
    /\ UNCHANGED <<ctxPci, ctxDev, fwIdx, device, busMaster>>
    /\ StepReturns

\* probe_pci_only enables memory access and bus mastering on its way.
ProbeFound ==
    /\ Stepping("PciProbe")
    /\ Goto("MmioInit")
    /\ ctxPci' = TRUE /\ fwIdx' = 0 /\ busMaster' = TRUE
    /\ UNCHANGED <<ctxDev, device>>
    /\ StepReturns

ProbeFailed ==
    /\ Stepping("PciProbe")
    /\ Goto("Failed")
    /\ busMaster' \in {busMaster, TRUE}
    /\ UNCHANGED <<ctxPci, ctxDev, fwIdx, device>>
    /\ StepReturns

StepMmioInit ==
    /\ Stepping("MmioInit")
    /\ \E p \in {"MmioPollMacClock", "Failed"} : Goto(p)
    /\ UNCHANGED <<ctxPci, ctxDev, fwIdx, device, busMaster>>
    /\ StepReturns

\* The clock is ready, not yet, or the device is gone.
StepPollMacClock ==
    /\ Stepping("MmioPollMacClock")
    /\ \E p \in {"DmaAlloc", "MmioPollMacClock", "Failed"} : Goto(p)
    /\ UNCHANGED <<ctxPci, ctxDev, fwIdx, device, busMaster>>
    /\ StepReturns

\* The clock is not ready after TIMEOUT_CYCLES: the recovery locks
\* WIFI_INIT_CTX, whose guard the enclosing block still holds.
PollMacClockTimeout ==
    /\ Stepping("MmioPollMacClock")
    /\ lock' = "held"
    /\ cpu' = "spin"
    /\ UNCHANGED <<phase, completed, pending, age, ctxPci, ctxDev, fwIdx, device,
                   busMaster, armed, triggered, service, pc>>

\* The context gives up pci_dev and health even when an allocation fails.
StepDmaAlloc ==
    /\ Stepping("DmaAlloc")
    /\ ctxPci' = FALSE
    /\ \/ ctxPci /\ Goto("FwUpload") /\ ctxDev' = TRUE
       \/ Goto("Failed") /\ UNCHANGED ctxDev
    /\ UNCHANGED <<fwIdx, device, busMaster>>
    /\ StepReturns

StepFwUpload ==
    /\ Stepping("FwUpload")
    /\ IF ~ctxDev \/ fwIdx >= Candidates
       THEN Goto("Failed") /\ UNCHANGED fwIdx
       ELSE \/ Goto("FwWaitAlive") /\ UNCHANGED fwIdx
            \/ Goto("FwUpload") /\ fwIdx' = fwIdx + 1
    /\ UNCHANGED <<ctxPci, ctxDev, device, busMaster>>
    /\ StepReturns

StepFwWaitAlive ==
    /\ Stepping("FwWaitAlive")
    /\ IF ~ctxDev
       THEN Goto("Failed") /\ UNCHANGED fwIdx
       ELSE \/ \E p \in {"FwInitCmds", "FwWaitAlive"} : Goto(p) /\ UNCHANGED fwIdx
            \/ Goto("FwUpload") /\ fwIdx' = fwIdx + 1
    /\ UNCHANGED <<ctxPci, ctxDev, device, busMaster>>
    /\ StepReturns

StepFwInitCmds ==
    /\ Stepping("FwInitCmds")
    /\ \E p \in IF ctxDev THEN {"Done", "Failed"} ELSE {"Failed"} : Goto(p)
    /\ UNCHANGED <<ctxPci, ctxDev, fwIdx, device, busMaster>>
    /\ StepReturns

StepDoneNoStore ==
    /\ Stepping("Done")
    /\ ctxDev' = FALSE
    /\ completed' = TRUE
    /\ UNCHANGED <<phase, ctxPci, fwIdx, device, busMaster>>
    /\ StepReturns

StepDone ==
    /\ Stepping("Done")
    /\ ctxDev' = FALSE
    /\ device' = (device \/ ctxDev)
    /\ completed' = TRUE
    /\ UNCHANGED <<phase, ctxPci, fwIdx, busMaster>>
    /\ StepReturns

StepFailed ==
    /\ Stepping("Failed")
    /\ ctxDev' = FALSE
    /\ completed' = TRUE
    /\ UNCHANGED <<phase, ctxPci, fwIdx, device, busMaster>>
    /\ StepReturns

-----------------------------------------------------------------------------
(***************************************************************************)
(* A register read that the link never completes.  The steps that read hold *)
(* WIFI_INIT_CTX.  They arm the watchdog for the device that pci_bdf_from_ctx*)
(* finds in the context, and checked_read_u32 disarms it again after the     *)
(* first read of several; the device's own tick never arms it.              *)
(***************************************************************************)
StallInStep ==
    /\ phase \in MayStall
    /\ Stepping(phase)
    /\ phase = "FwUpload" => fwIdx < Candidates
    /\ lock' = "held"
    /\ cpu' = "stalled"
    /\ armed' \in {ctxPci, FALSE}
    /\ UNCHANGED <<phase, completed, pending, age, ctxPci, ctxDev, fwIdx, device,
                   busMaster, triggered, service, pc>>

StallInTick ==
    /\ "tick" \in MayStall
    /\ cpu = "run" /\ pc = "device" /\ completed /\ device
    /\ cpu' = "stalled"
    /\ UNCHANGED <<phase, completed, pending, age, ctxPci, ctxDev, fwIdx, lock,
                   device, busMaster, armed, triggered, service, pc>>

\* nmi_handler and mmio_watchdog_nmi_recovery.
Nmi ==
    /\ cpu = "stalled" /\ armed
    /\ busMaster' = FALSE
    /\ armed' = FALSE
    /\ triggered' = TRUE
    /\ cpu' = "trampoline"
    /\ UNCHANGED <<phase, completed, pending, age, ctxPci, ctxDev, fwIdx, lock,
                   device, service, pc>>

\* timer_handler redirects to mmio_recovery_restart.  The stack of the hung
\* tick is abandoned, and with it the service list that the tick took out.
TimerRestart ==
    /\ cpu = "trampoline" /\ triggered
    /\ triggered' = FALSE
    /\ ForceInitFailed
    /\ cpu' = "run"
    /\ pc' = "idle"
    /\ service' = "lost"
    /\ UNCHANGED <<pending, age, ctxPci, fwIdx, lock, device, armed>>

Step ==
    \/ StepIdle \/ ProbeFound \/ ProbeFailed \/ StepMmioInit \/ StepPollMacClock
    \/ PollMacClockTimeout \/ StepDmaAlloc \/ StepFwUpload \/ StepFwWaitAlive
    \/ StepFwInitCmds \/ StepDone \/ StepFailed

InitStep ==
    StartTick \/ AdvanceCompleted \/ AdvanceTimeout \/ Step
       \/ StallInStep \/ Nmi \/ TimerRestart

=============================================================================
