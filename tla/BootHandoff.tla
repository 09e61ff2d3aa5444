---------------------------- MODULE BootHandoff ----------------------------
(* The way from the firmware to the kernel: the loader (bellows/src/main.rs, *)
(* loader/heap.rs, loader/mod.rs, petroleum/src/page_table/pe.rs) takes      *)
(* memory from the firmware, copies the kernel image, fetches the memory map *)
(* and exits boot services; init_and_jump builds the first page tables; the  *)
(* kernel (boot/paging.rs) makes its frame allocator from that map.          *)
(* Memory is a row of frames.  The firmware runs events of its own until     *)
(* boot services are exited, and each one makes the last map out of date.    *)
EXTENDS Integers, Sequences, SequencesExt, FiniteSets, FiniteSetsExt

CONSTANTS BhFrames,     \* number of frames; frame 0 is never given out
          BhFwFrame,    \* the frame the firmware's events take and give back
          BhFiles,      \* kernel files: see Loaded
          BhArgsPages,  \* KERNEL_ARGS_PAGES
          BhMapPages,   \* pages of the memory map buffer
          BhArgsLimit,  \* MAX_ARGS_ADDR, as a frame
          BhRetries,    \* ARGS_ALLOC_RETRIES
          BhAttempts,   \* MAX_ATTEMPTS
          BhTableCount, \* frames of page tables init_and_jump builds
          BhLow,        \* LOW_MEM_SKIP_FRAMES of contiguous allocations
          BhPad,        \* KERNEL_MEMORY_PADDING, in frames
          BhKernelRun   \* frames of one contiguous allocation of the kernel

ASSUME BhAssumption ==
  /\ {BhFrames, BhArgsPages, BhMapPages, BhRetries, BhAttempts, BhKernelRun} \subseteq Nat \ {0}
  /\ {BhTableCount, BhLow, BhPad, BhArgsLimit} \subseteq Nat
  /\ BhFwFrame \in 1..BhFrames - 1

VARIABLES bhPhase,   \* what the loader, then the kernel, does next
          fwType,    \* what every frame is to the firmware
          bhStale,   \* the firmware's map changed since it was last fetched
          bhHeld,    \* [heap, image, args, map]: the frames each was given
          bhFile,    \* the kernel file
          bhImage,   \* the cells of the loaded image, or <<>>
          bhTries,   \* the loop counter of the call in progress
          bhBuf,     \* the map in the buffer, or <<>>
          bhExited,  \* boot services were exited
          bhTables,  \* frames init_and_jump put page tables in
          bhUsed,    \* frames the kernel's allocator holds as used
          bhGiven    \* history: frames the kernel's allocator gave out

bhVars == <<bhPhase, fwType, bhStale, bhHeld, bhFile, bhImage, bhTries, bhBuf, bhExited,
            bhTables, bhUsed, bhGiven>>
bhKernel == <<bhTables, bhUsed, bhGiven>>

BhAll == 0..BhFrames - 1
NoFrames == [heap |-> {}, image |-> {}, args |-> {}, map |-> {}]

BhInit ==
  /\ bhPhase = "heap" /\ bhStale = TRUE /\ bhHeld = NoFrames
  /\ fwType = [f \in BhAll |-> IF f = 0 THEN "reserved" ELSE "conventional"]
  /\ bhFile \in BhFiles /\ bhImage = <<>> /\ bhTries = 0 /\ bhBuf = <<>> /\ bhExited = FALSE
  /\ bhTables = {} /\ bhUsed = BhAll /\ bhGiven = {}

-----------------------------------------------------------------------------
(* The firmware *)

Run(f, n) == f..f + n - 1
HandoffRuns(n) == {Run(f, n) : f \in {g \in BhAll : Run(g, n) \subseteq BhAll}}
FreeAnywhere(n) == {r \in HandoffRuns(n) : \A f \in r : fwType[f] = "conventional"}
(* AllocateAnyPages: the bound is that it serves from either end of memory.  *)
OfferedRuns(n) ==
  {r \in FreeAnywhere(n) : \/ \A s \in FreeAnywhere(n) : Min(r) <= Min(s)
                           \/ \A s \in FreeAnywhere(n) : Min(r) >= Min(s)}
Typed(r, t) == [f \in BhAll |-> IF f \in r THEN t ELSE fwType[f]]

(* An event or a timer of the firmware allocates or frees.                   *)
FirmwareEvent ==
  /\ ~bhExited /\ bhPhase \notin {"tables", "entered", "kernel", "failed"}
  /\ \/ fwType[BhFwFrame] = "conventional" /\ fwType' = Typed({BhFwFrame}, "services")
     \/ fwType[BhFwFrame] = "services" /\ fwType' = Typed({BhFwFrame}, "conventional")
  /\ bhStale' = TRUE
  /\ UNCHANGED <<bhPhase, bhHeld, bhFile, bhImage, bhTries, bhBuf, bhExited, bhKernel>>

(* The loader cannot go on: it panics.                                       *)
Fails(freed) ==
  /\ bhPhase' = "failed"
  /\ bhHeld' = freed
  /\ fwType' = [f \in BhAll |->
                  IF \E k \in DOMAIN bhHeld : f \in bhHeld[k] \ freed[k] THEN "conventional" ELSE fwType[f]]
  /\ UNCHANGED <<bhStale, bhFile, bhImage, bhTries, bhBuf, bhExited, bhKernel>>

Takes(part, r, next) ==
  /\ fwType' = Typed(r, "loader") /\ bhStale' = TRUE
  /\ bhHeld' = [bhHeld EXCEPT ![part] = r]
  /\ bhPhase' = next

-----------------------------------------------------------------------------
(* The loader *)

(* init_heap: EfiLoaderData, then EfiConventionalMemory, else the loader     *)
(* panics.                                                                   *)
InitHeap ==
  /\ bhPhase = "heap"
  /\ \/ \E r \in OfferedRuns(1) : Takes("heap", r, "image") /\ UNCHANGED <<bhFile, bhImage, bhTries, bhBuf, bhExited, bhKernel>>
     \/ Fails(bhHeld)

(* A file: [pages, entry, hdr, base, secs, relocs].  secs is the sequence of *)
(* sections [raw, at, n]: n cells of the file from raw, to the image from    *)
(* at; relocs is the sequence of relocation blocks, each a sequence of       *)
(* <<type, cell>>; an empty block has size 0 and ends the table.             *)
PagesNeeded(file) == IF file.entry + 1 > file.pages THEN file.entry + 1 ELSE file.pages
InBounds(file) ==
  \A i \in DOMAIN file.secs :
    LET s == file.secs[i] IN s.raw + s.n <= file.len /\ s.at + s.n <= PagesNeeded(file)

CopyCells(image, raw, at, n) ==
  [c \in DOMAIN image |-> IF c \in at..at + n - 1 THEN [image[c] EXCEPT !.raw = raw + c - at + 1] ELSE image[c]]
Headed(image, file) == CopyCells(image, 0, 0, file.hdr)
Sectioned(image, file) == FoldLeft(LAMBDA im, s : CopyCells(im, s.raw, s.at, s.n), image, file.secs)

BlocksRead(file) == SubSeq(file.relocs, 1, Max({k \in 0..Len(file.relocs) : \A i \in 1..k : file.relocs[i] # <<>>}))
Sites(file) == FoldLeft(LAMBDA all, block : all \o SelectSeq(block, LAMBDA e : e[1] = 10), <<>>, BlocksRead(file))
Relocated(image, file) == FoldLeft(LAMBDA im, e : [im EXCEPT ![e[2]].adj = @ + 1], image, Sites(file))

Loaded(file, base) ==
  LET zero == [c \in 0..PagesNeeded(file) - 1 |-> [raw |-> 0, adj |-> 0]]
      image == Sectioned(Headed(zero, file), file)
  IN IF base = file.base THEN image ELSE Relocated(image, file)

(* load_efi_image: the pages are taken, zeroed and filled; a section that    *)
(* does not fit, in the file or in the image, gives them back.               *)
LoadImage ==
  /\ bhPhase = "image"
  /\ \/ \E r \in OfferedRuns(PagesNeeded(bhFile)) :
          /\ InBounds(bhFile)
          /\ Takes("image", r, "args")
          /\ bhImage' = Loaded(bhFile, Min(r))
          /\ UNCHANGED <<bhFile, bhTries, bhBuf, bhExited, bhKernel>>
     \/ Fails(bhHeld)

(* The pages of KernelArgs, of the L4 table and of the first stack must lie  *)
(* below 64 GiB: a run above is given back and another one asked for.  The   *)
(* firmware may refuse, and after the last retry the loader gives up.        *)
AllocateArgs ==
  /\ bhPhase = "args"
  /\ \/ \E r \in OfferedRuns(BhArgsPages) :
          /\ bhTries < BhRetries
          /\ \/ /\ Max(r) < BhArgsLimit
                /\ Takes("args", r, "map") /\ bhTries' = 0
             \/ /\ Max(r) >= BhArgsLimit
                /\ bhTries' = bhTries + 1 /\ bhStale' = TRUE
                /\ UNCHANGED <<bhPhase, fwType, bhHeld>>
          /\ UNCHANGED <<bhFile, bhImage, bhBuf, bhExited, bhKernel>>
     \/ Fails(bhHeld)

AllocateMap ==
  /\ bhPhase = "map"
  /\ \/ \E r \in OfferedRuns(BhMapPages) : Takes("map", r, "get") /\ UNCHANGED <<bhFile, bhImage, bhTries, bhBuf, bhExited, bhKernel>>
     \/ Fails(bhHeld)

MapFreed == [bhHeld EXCEPT !.map = {}]

(* get_memory_map: the buffer takes the map as it is now; a map that does    *)
(* not fit, or any other error, ends the loader.                             *)
GetMemoryMap ==
  /\ bhPhase = "get"
  /\ \/ /\ bhTries < BhAttempts
        /\ bhTries' = bhTries + 1
        /\ bhBuf' = fwType /\ bhStale' = FALSE /\ bhPhase' = "exit"
        /\ UNCHANGED <<fwType, bhHeld, bhFile, bhImage, bhExited, bhKernel>>
     \/ Fails(MapFreed)

(* exit_boot_services with the key of the map fetched last.  The firmware    *)
(* refuses a key that is out of date (InvalidParameter) and the loader       *)
(* fetches the map again; Unsupported is taken for success.                  *)
ExitBootServices ==
  /\ bhPhase = "exit"
  /\ \/ /\ ~bhStale
        /\ bhExited' = TRUE /\ bhPhase' = "tables"
        /\ UNCHANGED <<fwType, bhStale, bhHeld, bhFile, bhImage, bhTries, bhBuf, bhKernel>>
     \/ /\ bhStale
        /\ bhPhase' = "get"
        /\ UNCHANGED <<fwType, bhStale, bhHeld, bhFile, bhImage, bhTries, bhBuf, bhExited, bhKernel>>
     \/ /\ bhPhase' = "tables"
        /\ UNCHANGED <<fwType, bhStale, bhHeld, bhFile, bhImage, bhTries, bhBuf, bhExited, bhKernel>>
     \/ Fails(MapFreed)

(* The loader's own frame allocator starts with every frame free but frame   *)
(* 0, whatever the map says; init_and_jump takes the lowest ones for the     *)
(* page tables of the two windows, of the image, the stack, the arguments    *)
(* and the map, then switches CR3 and enters the kernel.                     *)
LoaderFree == BhAll \ {0}
LoaderTables == {f \in LoaderFree : Cardinality({g \in LoaderFree : g < f}) < BhTableCount}

InitAndJump ==
  /\ bhPhase = "tables"
  /\ bhTables' = LoaderTables
  /\ bhPhase' = "entered"
  /\ UNCHANGED <<fwType, bhStale, bhHeld, bhFile, bhImage, bhTries, bhBuf, bhExited, bhUsed, bhGiven>>

-----------------------------------------------------------------------------
(* The kernel *)

(* The allocator's first state: only conventional memory of the map is free. *)
FreeInMap(map) == {f \in BhAll : map[f] = "conventional"}

(* The image is reserved from the frame of efi_main on, its size and the     *)
(* padding; frames past the end of memory are passed over.                   *)
KernelReserves(used) ==
  used \cup (BhAll \cap Run(Min(bhHeld.image) + bhFile.entry, PagesNeeded(bhFile) + BhPad))

FreeAbove(used, n) == {r \in HandoffRuns(n) : r \cap used = {} /\ Min(r) >= BhLow}
LowestRun(used, n) == CHOOSE r \in FreeAbove(used, n) : \A s \in FreeAbove(used, n) : Min(r) <= Min(s)

(* bootstrap_memory: the TSS stacks and the heap are contiguous runs above   *)
(* the low memory; without them the kernel panics.                           *)
BootstrapMemory ==
  /\ bhPhase = "entered"
  /\ LET used == KernelReserves(BhAll \ FreeInMap(bhBuf))
     IN \/ /\ FreeAbove(used, BhKernelRun) # {}
           /\ bhUsed' = used \cup LowestRun(used, BhKernelRun)
           /\ bhGiven' = LowestRun(used, BhKernelRun)
           /\ bhPhase' = "kernel"
        \/ /\ FreeAbove(used, BhKernelRun) = {}
           /\ bhUsed' = used /\ UNCHANGED bhGiven
           /\ bhPhase' = "failed"
  /\ UNCHANGED <<fwType, bhStale, bhHeld, bhFile, bhImage, bhTries, bhBuf, bhExited, bhTables>>

(* allocate_frame: the lowest free frame but frame 0.                        *)
KernelAllocates ==
  /\ bhPhase = "kernel" /\ (BhAll \ {0}) \ bhUsed # {}
  /\ LET f == Min((BhAll \ {0}) \ bhUsed)
     IN bhUsed' = bhUsed \cup {f} /\ bhGiven' = bhGiven \cup {f}
  /\ UNCHANGED <<bhPhase, fwType, bhStale, bhHeld, bhFile, bhImage, bhTries, bhBuf, bhExited, bhTables>>

LoaderStep ==
  \/ InitHeap \/ LoadImage \/ AllocateArgs \/ AllocateMap
  \/ GetMemoryMap \/ ExitBootServices \/ InitAndJump \/ BootstrapMemory

BhNext == LoaderStep \/ FirmwareEvent \/ KernelAllocates

BhSpec == BhInit /\ [][BhNext]_bhVars /\ WF_bhVars(LoaderStep)

-----------------------------------------------------------------------------
BhTypeInv ==
  /\ bhPhase \in {"heap", "image", "args", "map", "get", "exit", "tables", "entered", "kernel", "failed"}
  /\ \A k \in DOMAIN bhHeld : bhHeld[k] \subseteq BhAll
  /\ bhTries \in 0..BhRetries + BhAttempts /\ bhUsed \subseteq BhAll /\ bhGiven \subseteq BhAll

(* What the loader put in memory stays the kernel's: the kernel's allocator, *)
(* made from a map fetched before boot services were left, never gives out a *)
(* frame of the image, of the arguments and first stack, of the map buffer   *)
(* or of the loader's heap.                                                  *)
HandoffKept == \A k \in DOMAIN bhHeld : bhGiven \cap bhHeld[k] = {}

(* The loader holds every frame it took and has not given back, in disjoint  *)
(* pieces, and when it stops with an error after the map buffer was taken,   *)
(* the buffer was given back.                                                *)
LoaderAccounts ==
  /\ {f \in BhAll : fwType[f] = "loader"} = UNION {bhHeld[k] : k \in DOMAIN bhHeld}
  /\ \A j, k \in DOMAIN bhHeld : j # k => bhHeld[j] \cap bhHeld[k] = {}
  /\ bhPhase = "failed" /\ bhTables = {} => bhHeld.map = {}

(* Every cell of the image holds what the last section that covers it says,  *)
(* else its header cell, else zero; a relocation site of a block before the  *)
(* table's end is adjusted once per entry, and only when the image did not   *)
(* land where it was linked.                                                 *)
ImageAsFile ==
  bhImage # <<>> =>
    LET over(c) == {i \in DOMAIN bhFile.secs : c \in bhFile.secs[i].at..bhFile.secs[i].at + bhFile.secs[i].n - 1}
        read == {<<b, i>> \in (1..Len(bhFile.relocs)) \X (1..3) :
                   /\ \A a \in 1..b : bhFile.relocs[a] # <<>>
                   /\ i \in DOMAIN bhFile.relocs[b]}
    IN \A c \in DOMAIN bhImage :
         /\ bhImage[c].raw =
              IF over(c) # {} THEN bhFile.secs[Max(over(c))].raw + c - bhFile.secs[Max(over(c))].at + 1
              ELSE IF c < bhFile.hdr THEN c + 1 ELSE 0
         /\ bhImage[c].adj =
              IF Min(bhHeld.image) = bhFile.base THEN 0
              ELSE Cardinality({x \in read : bhFile.relocs[x[1]][x[2]] = <<10, c>>})

(* However often the firmware changes its map, a loader that has its heap     *)
(* comes to an end: the kernel runs or the loader has reported an error.      *)
(* LoaderRuns leads to LoaderEnded.                                           *)
LoaderRuns == bhPhase # "heap"
LoaderEnded == bhPhase \in {"kernel", "failed"}

--------------------------------------------------------------------------------
\* The kernel is entered with memory, image and arguments as the loader prepared them.
BootSound ==
    /\ BhTypeInv /\ HandoffKept /\ LoaderAccounts /\ ImageAsFile
================================================================================
