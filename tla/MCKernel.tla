---------------------------------- MODULE MCKernel ----------------------------------
(***************************************************************************)
(* The kernel's memory, its services, the handle table and the two syscall *)
(* layers side by side.  At the level of these modules they share no state,*)
(* so a behaviour is about one of them and the others stay at an initial   *)
(* state.                                                                  *)
(***************************************************************************)
EXTENDS HandleTable, KernelMemory, PageTables, KernelServices, LinuxLayer, NativeCalls

VARIABLE part   \* the part that this behaviour is about

AllClosing == Allocs

SlSizesMC == <<1, 2, 4>>

KerVars == <<part, vars, asVars, clVars, ecVars, fbVars, klVars, kpVars, lcVars, lfVars,
    lmVars, nfVars, nvVars, noVars, ptVars, slVars, umVars>>

KerInit ==
    /\ part \in {"handles", "address spaces", "chrono", "errors", "frames", "klog",
                 "kernel pages", "linux calls", "linux files",
                 "linux memory", "native files", "native memory",
                 "native objects", "page tables", "slab",
                 "user memory"}
    /\ Init
    /\ AsInit
    /\ ClInit
    /\ EcInit
    /\ FbInit
    /\ KlInit /\ (part # "klog" => klUse = "log")
    /\ KpInit
    /\ LcInit /\ (part # "linux calls" => lcCur = 1)
    /\ LfInit
    /\ LmInit
    /\ NfInit
    /\ NvInit
    /\ NoInit /\ (part # "native objects" => noUse = "messages")
    /\ PtInit
    /\ SlInit
    /\ UmInit /\ (part # "user memory" => umPath = [p \in 1 .. UmPages |-> [i \in 1 .. 4 |-> Granting]] /\ umByte = [a \in UmAddr |-> "char"])

KerNext ==
    \/ part = "handles" /\ Next
    \/ part = "address spaces" /\ AsNext
    \/ part = "chrono" /\ ClNext
    \/ part = "errors" /\ EcFails
    \/ part = "frames" /\ FbNext
    \/ part = "klog" /\ KlNext
    \/ part = "kernel pages" /\ KpNext
    \/ part = "linux calls" /\ LcNext
    \/ part = "linux files" /\ LfNextStep
    \/ part = "linux memory" /\ LmNext
    \/ part = "native files" /\ NfNext
    \/ part = "native memory" /\ NvNext
    \/ part = "native objects" /\ NoNext
    \/ part = "page tables" /\ PtNextStep
    \/ part = "slab" /\ SlNext
    \/ part = "user memory" /\ UmNext

\* The parts that this behaviour is not about stand still.
KerOthers ==
    /\ UNCHANGED part
    /\ IF part = "handles" THEN TRUE ELSE UNCHANGED vars
    /\ IF part = "address spaces" THEN TRUE ELSE UNCHANGED asVars
    /\ IF part = "chrono" THEN TRUE ELSE UNCHANGED clVars
    /\ IF part = "errors" THEN TRUE ELSE UNCHANGED ecVars
    /\ IF part = "frames" THEN TRUE ELSE UNCHANGED fbVars
    /\ IF part = "klog" THEN TRUE ELSE UNCHANGED klVars
    /\ IF part = "kernel pages" THEN TRUE ELSE UNCHANGED kpVars
    /\ IF part = "linux calls" THEN TRUE ELSE UNCHANGED lcVars
    /\ IF part = "linux files" THEN TRUE ELSE UNCHANGED lfVars
    /\ IF part = "linux memory" THEN TRUE ELSE UNCHANGED lmVars
    /\ IF part = "native files" THEN TRUE ELSE UNCHANGED nfVars
    /\ IF part = "native memory" THEN TRUE ELSE UNCHANGED nvVars
    /\ IF part = "native objects" THEN TRUE ELSE UNCHANGED noVars
    /\ IF part = "page tables" THEN TRUE ELSE UNCHANGED ptVars
    /\ IF part = "slab" THEN TRUE ELSE UNCHANGED slVars
    /\ IF part = "user memory" THEN TRUE ELSE UNCHANGED umVars

KerSpec == KerInit /\ [][KerNext /\ KerOthers]_KerVars

-----------------------------------------------------------------------------
\* A part that a behaviour is not about keeps an initial state of its own behaviours, so
\* that a property of it only has to be evaluated where it moves.
LinuxParts == {"errors", "linux calls", "linux files", "linux memory"}
MemoryParts == {"address spaces", "frames", "kernel pages", "user memory", "page tables", "slab"}
NativeParts == {"native files", "native memory", "native objects"}
ServiceParts == {"chrono", "klog"}

\* The Linux layer keeps its frames, regions, descriptors and per-process runtime, and
\* answers with the error that the failed call stands for.
LinuxKept == part \in LinuxParts => LinuxSound

\* Frames, pages, tables and address spaces have one owner each, and what was mapped
\* can be reached.
MemoryKept == part \in MemoryParts => MemorySound /\ TablesSound

\* Native system calls keep one owner per frame and one slot per descriptor, deliver
\* messages, bytes and keys in order, and leave a well-formed handle table.
NativeKept ==
    /\ part \in NativeParts => NativeSound
    /\ part = "handles" => TypeInv


\* What a step of the kernel never does: hand out a frame that is in use, change memory
\* in a call that fails, leave half a pipe, fire a timer early or out of turn, or move time
\* backwards.
KernelSteps == [][/\ part = "chrono" => EarliestFirst
                  /\ part = "frames" => AllocationsFresh
                  /\ part = "linux calls" => ErrorKeepsRuntime /\ TimeForward
                  /\ part = "linux memory" => FailureChangesNothing
                  /\ part = "native memory" => NmAllOrNothing
                  /\ part = "native objects" => PipeWhole /\ TimersFire]_KerVars
================================================================================
