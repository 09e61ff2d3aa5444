----------------------------- MODULE KernelMemory ------------------------------
(***************************************************************************)
(* Memory of the kernel: the frame bitmap, the kernel's own page area, the *)
(* address spaces of processes, and copies from and to user memory. The    *)
(* four parts share no state.                                              *)
(***************************************************************************)
EXTENDS Integers, Sequences, FiniteSets

(***************************************************************************)
(* FrameBitmap.  BitmapFrameAllocator (petroleum,                          *)
(* page_table/allocator/bitmap.rs): one bit per frame in words of the      *)
(* bitmap, set for a frame in use.  The last word has bits beyond the last *)
(* frame.  It hands out single frames, runs of frames above low memory and *)
(* single frames below 1 MiB.                                              *)
(***************************************************************************)

CONSTANTS
    FbTotal,    \* total_frames
    FbWord,     \* bits of a word, 64 in the code
    FbLowSkip,  \* LOW_MEM_SKIP_FRAMES
    FbLowEnd,   \* LOW_MEMORY_LIMIT
    FbRam,      \* frames of conventional memory in the memory map
    FbCr3       \* the frame of the root page table

ASSUME FbAssumption == FbWord > 0 /\ FbRam \subseteq 0 .. FbTotal - 1

VARIABLES
    fbBit,      \* every bit of the bitmap: TRUE for used
    fbOut,      \* history: frames handed out and not given back
    fbLast      \* what the last call answered

fbVars == <<fbBit, fbOut, fbLast>>

FbBits == 0 .. FbWord * ((FbTotal + FbWord - 1) \div FbWord) - 1
FbFrames == 0 .. FbTotal - 1
FbNone == -1

\* init_with_memory_map: all bits set, padding included; then conventional memory is freed.
FbInit ==
    /\ fbBit = [b \in FbBits |-> b \notin FbRam]
    /\ fbOut = {} /\ fbLast = [call |-> "none", frame |-> FbNone, n |-> 0]

\* set_frame_used ignores a frame beyond the total.
SetUsed(bits, fs, used) == [b \in FbBits |-> IF b \in fs /\ b < FbTotal THEN used ELSE bits[b]]

Available(f) == f < FbTotal /\ ~fbBit[f]

\* allocate_frame: the first clear bit but that of frame 0, in the first word that is not
\* full; a bit beyond the total ends the search.
FirstInWord(w) ==
    {w * FbWord + j : j \in {j \in 0 .. FbWord - 1 :
        w * FbWord + j # 0 /\ w * FbWord + j < FbTotal /\ ~fbBit[w * FbWord + j]}}

SearchOrder(w) == FirstInWord(w)
FbFound == UNION {SearchOrder(w) : w \in 0 .. (FbTotal - 1) \div FbWord}

AllocateFrame ==
    /\ IF FbFound = {}
       THEN /\ fbLast' = [call |-> "one", frame |-> FbNone, n |-> 1]
            /\ UNCHANGED <<fbBit, fbOut>>
       ELSE LET f == CHOOSE f \in FbFound : \A g \in FbFound : f <= g
            IN /\ fbBit' = SetUsed(fbBit, {f}, TRUE) /\ fbOut' = fbOut \cup {f}
               /\ fbLast' = [call |-> "one", frame |-> f, n |-> 1]

\* allocate_contiguous_frames: the first run of n free frames from the low-memory skip on;
\* a used frame starts the run anew.

Runs(n) ==
    {s \in FbLowSkip .. FbTotal - n : n > 0 /\ \A f \in s .. s + n - 1 : Available(f)}

AllocateContiguous(n) ==
    /\ IF Runs(n) = {}
       THEN /\ fbLast' = [call |-> "run", frame |-> FbNone, n |-> n]
            /\ UNCHANGED <<fbBit, fbOut>>
       ELSE LET s == CHOOSE s \in Runs(n) : \A t \in Runs(n) : s <= t
            IN /\ fbBit' = SetUsed(fbBit, s .. s + n - 1, TRUE)
               /\ fbOut' = fbOut \cup (s .. s + n - 1)
               /\ fbLast' = [call |-> "run", frame |-> s, n |-> n]

\* allocate_frame_low passes over frame 0 and the root page table.
AllocateLow ==
    LET free == {f \in 1 .. FbLowEnd - 1 : f # FbCr3 /\ Available(f)}
    IN IF free = {} THEN UNCHANGED fbVars
       ELSE LET f == CHOOSE f \in free : \A g \in free : f <= g
            IN /\ fbBit' = SetUsed(fbBit, {f}, TRUE) /\ fbOut' = fbOut \cup {f}
               /\ fbLast' = [call |-> "low", frame |-> f, n |-> 1]

\* free_frame, free_contiguous_frames and release_frames, by a user that holds the frames.
FreeFrames(fs) ==
    /\ fs # {} /\ fs \subseteq fbOut
    /\ fbBit' = SetUsed(fbBit, fs, FALSE) /\ fbOut' = fbOut \ fs
    /\ fbLast' = [call |-> "free", frame |-> FbNone, n |-> 0]

\* reserve_frames, which the kernel calls at boot for its own image.
ReserveFrames(s, n) ==
    /\ fbOut = {}
    /\ fbBit' = SetUsed(fbBit, s .. s + n - 1, TRUE)
    /\ fbLast' = [call |-> "reserve", frame |-> FbNone, n |-> 0]
    /\ UNCHANGED fbOut

FbNext ==
    \/ AllocateFrame \/ AllocateLow
    \/ \E n \in {0, 2, 3} : AllocateContiguous(n)
    \/ \E f \in fbOut, n \in 1 .. 2 : FreeFrames(f .. f + n - 1)
    \/ \E s \in FbFrames : ReserveFrames(s, 2)

FbSpec == FbInit /\ [][FbNext]_fbVars

--------------------------------------------------------------------------------
FbTypeInv == fbBit \in [FbBits -> BOOLEAN] /\ fbOut \subseteq FbFrames

\* A frame that a caller holds is marked used, so that no allocation, single, low or
\* contiguous, finds it free a second time.
HeldIsUsed == \A f \in fbOut : fbBit[f]

\* allocate_frame fails only when every frame but frame 0 is in use: neither the word-wise
\* search nor the padding of the last word hides a free frame.
FailsOnlyWhenFull ==
    fbLast.call = "one" /\ fbLast.frame = FbNone => \A f \in FbFrames \ {0} : fbBit[f]

\* No allocation returns a frame that was held or is no memory, and a contiguous one lies
\* above low memory.
AllocationsFresh ==
    [fbLast'.frame # FbNone /\ fbLast' # fbLast =>
        LET fs == fbLast'.frame .. fbLast'.frame + fbLast'.n - 1
        IN fs \subseteq FbRam \ fbOut /\ (fbLast'.call = "run" => fbLast'.frame >= FbLowSkip)]_fbVars

(***************************************************************************)
(* KernelPages.  The kernel's dynamic virtual memory:                      *)
(* UnifiedMemoryManager::allocate_pages and free_pages with their guard    *)
(* pages, map_framebuffer and unmap_framebuffer, map_mmio_region and       *)
(* map_address (fullerene-kernel, memory_management).  All of them choose  *)
(* or are given pages of one window of kernel addresses, and only RAM      *)
(* frames may come back to the frame allocator.                            *)
(***************************************************************************)

CONSTANTS
    KpPages,    \* pages of the window SEARCH_START .. SEARCH_END
    KpRam,      \* number of RAM frames; they are 0 .. KpRam - 1
    KpDevice,   \* number of device frames, which follow
    KpMaxCount, \* bound on the pages of one request
    KpMaxFbs    \* bound on the framebuffers mapped at a time

ASSUME KpAssumption == KpPages > 0 /\ KpRam > 0

VARIABLES
    kpMap,      \* page -> frame, or KpNone
    kpFree,     \* frames the frame allocator would hand out
    kpBlocks,   \* history: what allocate_pages returned and free_pages was not yet given
    kpFbs       \* history: what map_framebuffer returned

kpVars == <<kpMap, kpFree, kpBlocks, kpFbs>>

KpNone == -1
KpWindow == 0 .. KpPages - 1
RamFrames == 0 .. KpRam - 1
DeviceFrames == KpRam .. KpRam + KpDevice - 1
Spanned(b) == b.at .. b.at + b.n - 1

\* UnifiedMemoryManager::init leaves the window empty and the RAM free.
KpInit ==
    /\ kpMap = [p \in KpWindow |-> KpNone] /\ kpFree = RamFrames
    /\ kpBlocks = {} /\ kpFbs = {}

\* find_free_virtual_address: the first run of n unmapped pages.
FreeRuns(n) == {s \in 0 .. KpPages - n : \A p \in s .. s + n - 1 : kpMap[p] = KpNone}
FindFree(n) == CHOOSE s \in FreeRuns(n) : \A t \in FreeRuns(n) : s <= t

\* The contiguous frames that the frame allocator returns.
FrameRuns(n) == {s \in 0 .. KpRam - n : \A f \in s .. s + n - 1 : f \in kpFree}
FirstRun(n) == CHOOSE s \in FrameRuns(n) : \A t \in FrameRuns(n) : s <= t

\* safe_map_page in a loop: it writes the entry whatever it held.
MapRun(m, at, f, n) == [p \in KpWindow |-> IF p \in at .. at + n - 1 THEN f + (p - at) ELSE m[p]]
UnmapRun(m, at, n) == [p \in KpWindow |-> IF p \in at .. at + n - 1 THEN KpNone ELSE m[p]]

DataAt(base) == base + 1

\* allocate_pages: room for two guard pages, contiguous frames, then one page at a time;
\* when page k cannot be mapped, the frames and the pages before it stay as they are.
AllocatePages(n, k) ==
    /\ k \in 0 .. n
    /\ FreeRuns(n + 2) # {} /\ FrameRuns(n) # {}
    /\ LET at == DataAt(FindFree(n + 2))
           f == FirstRun(n)
       IN /\ kpFree' = kpFree \ (f .. f + n - 1)
          /\ kpMap' = MapRun(kpMap, at, f, k)
          /\ kpBlocks' = IF k = n THEN kpBlocks \cup {[at |-> at, n |-> n]} ELSE kpBlocks
    /\ UNCHANGED kpFbs

AllocatePagesFails(n) == (FreeRuns(n + 2) = {} \/ FrameRuns(n) = {}) /\ UNCHANGED kpVars

\* free_frame clears the bit of any frame the bitmap covers.
GivenBack(pages) == {kpMap[p] : p \in {p \in pages : kpMap[p] # KpNone}}

\* free_pages unmaps each page and frees its frame; then it unmaps the guard pages, whatever
\* is mapped there by now, without freeing.
FreePages(b) ==
    /\ kpFree' = kpFree \cup GivenBack(Spanned(b))
    /\ kpMap' = UnmapRun(kpMap, b.at - 1, b.n + 2)
    /\ kpBlocks' = kpBlocks \ {b} /\ UNCHANGED kpFbs

\* map_framebuffer_region: when page k fails, the mapped pages are unmapped, not freed.
Region(m, at, f, n, k) == IF k = n THEN MapRun(m, at, f, n) ELSE UnmapRun(m, at, k)

MapFramebuffer(f, n, k) ==
    /\ FreeRuns(n) # {} /\ Cardinality(kpFbs) < KpMaxFbs
    /\ LET at == FindFree(n)
       IN /\ kpMap' = Region(kpMap, at, f, n, k)
          /\ kpFbs' = IF k = n THEN kpFbs \cup {[at |-> at, n |-> n]} ELSE kpFbs
    /\ UNCHANGED <<kpFree, kpBlocks>>

\* unmap_framebuffer uses the unmap that frees nothing.  No code calls it; here it is called
\* for a framebuffer that is still mapped.
UnmapFramebuffer(b) ==
    /\ \A p \in Spanned(b) : kpMap[p] \in DeviceFrames
    /\ kpMap' = UnmapRun(kpMap, b.at, b.n)
    /\ kpFbs' = kpFbs \ {b} /\ UNCHANGED <<kpFree, kpBlocks>>

KpNext ==
    \/ \E n \in 1 .. KpMaxCount, k \in 0 .. KpMaxCount : AllocatePages(n, k)
    \/ \E n \in 1 .. KpMaxCount : AllocatePagesFails(n)
    \/ \E b \in kpBlocks : FreePages(b)
    \/ \E f \in DeviceFrames, n \in 1 .. KpDevice :
         /\ f + n - 1 \in DeviceFrames
         /\ \E k \in 0 .. n : MapFramebuffer(f, n, k)
    \/ \E b \in kpFbs : UnmapFramebuffer(b)

KpSpec == KpInit /\ [][KpNext]_kpVars

--------------------------------------------------------------------------------
KpTypeInv ==
    /\ kpMap \in [KpWindow -> {KpNone} \cup RamFrames \cup DeviceFrames]
    /\ kpFree \subseteq RamFrames \cup DeviceFrames

\* A RAM frame that a kernel page maps is mapped by that page alone and is not free: neither
\* a failed allocation nor the order of frees lets two users write one frame.
RamMappedOnce ==
    \A p \in KpWindow : kpMap[p] \in RamFrames =>
        kpMap[p] \notin kpFree /\ \A q \in KpWindow \ {p} : kpMap[q] # kpMap[p]

\* The frames of a framebuffer or of device registers never become allocatable memory,
\* whether their mapping is undone, rolled back or overtaken by free_pages.
DeviceNeverFree == kpFree \cap DeviceFrames = {}

\* A block that allocate_pages returned stays mapped to RAM until it is freed, and the pages
\* next to it belong to no other block: an overrun of one block cannot reach another.
BlocksApart ==
    \A b \in kpBlocks :
        /\ \A p \in Spanned(b) : kpMap[p] \in RamFrames
        /\ \A c \in kpBlocks \ {b} : Spanned(c) \cap (b.at - 1 .. b.at + b.n) = {}

(***************************************************************************)
(* AddressSpaces.  The process address spaces of UnifiedMemoryManager      *)
(* (memory_management, its ProcessMemoryManager trait): a list of          *)
(* managers, each with a page-table root cloned from the current one, and  *)
(* the heap and stack ranges a manager hands out.                          *)
(***************************************************************************)

CONSTANTS
    AsPids,      \* process identifiers; 0 is the kernel's
    AsMax,       \* MAX_PROCESS_MANAGERS
    AsFrames,    \* frames there are for root tables
    AsPage,      \* page size in bytes
    AsHeap,      \* where the heap starts, 0x4000_0000
    AsStack,     \* where the stack starts, 0x7FFF_0000
    AsSizes      \* sizes a process asks for

ASSUME AsAssumption == 0 \in AsPids /\ AsHeap < AsStack /\ AsPage > 0

VARIABLES
    asList,      \* process_managers: one record per slot, [pid |-> AsGone] for a None
    asCurrent,   \* current_process
    asCr3,       \* the root table the processor uses; 0 is the boot table
    asTables,    \* allocated_tables of the page-table manager
    asFree       \* frames still free

asVars == <<asList, asCurrent, asCr3, asTables, asFree>>

AsGone == -1
SpaceSlots(pid) == {i \in DOMAIN asList : asList[i].pid = pid}
SlotOf(pid) == CHOOSE i \in SpaceSlots(pid) : \A j \in SpaceSlots(pid) : i <= j
Fresh(pid, root) == [pid |-> pid, root |-> root, heap |-> AsHeap, stack |-> AsStack, given |-> {}]
Lowest(S) == CHOOSE x \in S : \A y \in S : x <= y

\* init creates the address space of process 0 without switching to it.
AsInit ==
    /\ asList = <<Fresh(0, 1)>> /\ asCurrent = 0 /\ asCr3 = 0
    /\ asTables = {0, 1} /\ asFree = 2 .. AsFrames

\* clone_page_table: a new frame for the root.
Cloned == Lowest(asFree)

\* create_address_space: nothing for a process that has one; otherwise the table is cloned
\* before the limit on managers is looked at, and a slot of a destroyed one is not reused.
CreateAddressSpace(pid) ==
    /\ SpaceSlots(pid) = {} /\ asFree # {}
    /\ asFree' = asFree \ {Cloned} /\ asTables' = asTables \cup {Cloned}
    /\ asList' = IF Len(asList) >= AsMax THEN asList ELSE Append(asList, Fresh(pid, Cloned))
    /\ UNCHANGED <<asCurrent, asCr3>>

CreateRefused(pid) == (SpaceSlots(pid) # {} \/ asFree = {}) /\ UNCHANGED asVars

\* switch_address_space names the process before the switch; switch_page_table knows the root.
SwitchAddressSpace(pid) ==
    /\ SpaceSlots(pid) # {}
    /\ asCurrent' = pid
    /\ asCr3' = IF asList[SlotOf(pid)].root \in asTables THEN asList[SlotOf(pid)].root ELSE asCr3
    /\ UNCHANGED <<asList, asTables, asFree>>

\* copy_memory_between_processes switches to the source, to the target and back; an error
\* after the first or the second switch returns there.
CopyMemory(from, to, failsAt) ==
    /\ SpaceSlots(from) # {}
    /\ LET stay == IF failsAt = "source" \/ SpaceSlots(to) = {} THEN from
                   ELSE IF failsAt = "target" \/ SpaceSlots(asCurrent) = {} THEN to ELSE asCurrent
       IN asCurrent' = stay /\ asCr3' = asList[SlotOf(stay)].root
    /\ UNCHANGED <<asList, asTables, asFree>>

\* Mutated form of CleanupFreed: the root table goes back to the allocator.
CleanupFrees(r) == {r}

\* cleanup forgets the allocations; it gives no frame back.
CleanupFreed(r) == {}

DestroyAddressSpace(pid) ==
    /\ SpaceSlots(pid) # {}
    /\ LET root == asList[SlotOf(pid)].root
       IN /\ asTables' = asTables \ CleanupFreed(root)
          /\ asFree' = asFree \cup CleanupFreed(root)
    /\ asList' = [asList EXCEPT ![SlotOf(pid)] =
                    [pid |-> AsGone, root |-> 0, heap |-> 0, stack |-> 0, given |-> {}]]
    /\ UNCHANGED <<asCurrent, asCr3>>

\* Inserting into the map replaces what was given at the same address.
Given(g, at, n) == {a \in g : a.at # at} \cup {[at |-> at, n |-> n]}
Aligned(size) == ((size + AsPage - 1) \div AsPage) * AsPage

\* allocate_heap grows upwards and looks at no limit; the guard is the bound of the instance.
AllocateHeap(size) ==
    /\ SpaceSlots(asCurrent) # {}
    /\ LET m == asList[SlotOf(asCurrent)]
       IN /\ m.heap + Aligned(size) <= m.stack
          /\ asList' = [asList EXCEPT ![SlotOf(asCurrent)] =
               [m EXCEPT !.heap = m.heap + Aligned(size), !.given = Given(m.given, m.heap, size)]]
    /\ UNCHANGED <<asCurrent, asCr3, asTables, asFree>>

\* allocate_stack grows downwards.
AllocateStack(size) ==
    /\ SpaceSlots(asCurrent) # {}
    /\ LET m == asList[SlotOf(asCurrent)]
           at == m.stack - Aligned(size)
       IN /\ m.heap <= at
          /\ asList' = [asList EXCEPT ![SlotOf(asCurrent)] =
               [m EXCEPT !.stack = at, !.given = Given(m.given, at, size)]]
    /\ UNCHANGED <<asCurrent, asCr3, asTables, asFree>>

\* free_heap and free_stack forget a range whose aligned size is named; no address is reused.
FreeRange(g) ==
    /\ SpaceSlots(asCurrent) # {} /\ g \in asList[SlotOf(asCurrent)].given
    /\ asList' = [asList EXCEPT ![SlotOf(asCurrent)].given = @ \ {g}]
    /\ UNCHANGED <<asCurrent, asCr3, asTables, asFree>>

AsNext ==
    \/ \E p \in AsPids : CreateAddressSpace(p) \/ CreateRefused(p) \/ SwitchAddressSpace(p)
    \/ \E p, q \in AsPids, f \in {"source", "target", "no"} : CopyMemory(p, q, f)
    \/ \E p \in AsPids : DestroyAddressSpace(p)
    \/ \E n \in AsSizes : AllocateHeap(n) \/ AllocateStack(n)
    \/ \E g \in UNION {asList[i].given : i \in DOMAIN asList} : FreeRange(g)

AsSpec == AsInit /\ [][AsNext]_asVars

--------------------------------------------------------------------------------
AsTypeInv ==
    /\ Len(asList) <= AsMax /\ asCurrent \in AsPids /\ asCr3 \in Nat
    /\ asTables \subseteq Nat /\ asFree \subseteq Nat

\* The processor never runs on a root table that was given back, even when the address space
\* in use is destroyed or a copy between processes fails half way.
Cr3Allocated == asCr3 \in asTables /\ asCr3 \notin asFree

\* No two address spaces share a root table, in whatever space they were created.
RootsDistinct ==
    \A i, j \in DOMAIN asList :
        i # j /\ asList[i].pid # AsGone /\ asList[j].pid # AsGone => asList[i].root # asList[j].root

\* The ranges that one process was given from its heap and its stack do not overlap.
RangesDisjoint ==
    \A i \in DOMAIN asList : \A a, b \in asList[i].given :
        a = b \/ (a.at .. a.at + a.n - 1) \cap (b.at .. b.at + b.n - 1) = {}

(***************************************************************************)
(* UserMemory.  How system calls reach the memory of the calling program:  *)
(* the walk of the current page table and the checks of common/memory.rs,  *)
(* the copies of user_memory.rs built on them, and the entry points of the *)
(* two system call interfaces (syscall/interface.rs, linux/runtime.rs).  A *)
(* behaviour chooses what is mapped and what the memory holds, and makes   *)
(* one call.                                                               *)
(***************************************************************************)

CONSTANTS
    UmPageSize,  \* bytes of a page
    UmPages,     \* the user pages 1 .. UmPages; page 0 is never mapped, the rest is kernel
    UmMax        \* bound: lengths and string limits of a call

ASSUME UmAssumption == UmPageSize \in Nat \ {0} /\ UmPages \in Nat \ {0} /\ UmMax \in Nat

VARIABLES
    umPath,  \* user page -> the four entries that a walk to it meets, top level first
    umByte,  \* address -> "nul", "char", "bad" (not UTF-8) or "new" (written by a call)
    umCall,  \* the call that was made, <<>> before
    umOld    \* the memory before the call

umVars == <<umPath, umByte, umCall, umOld>>

UmEnd == (UmPages + 1) * UmPageSize  \* is_user_address: below the end of user space
UmAddr == UmPageSize .. UmEnd - 1

Granting == {"present", "user", "write"}

\* Paths: everything granted; one right missing in the last entry or in one above it; and a
\* huge page, whose "table" is whatever the page holds.
UmPaths ==
    {[i \in 1 .. 4 |-> IF i = lv THEN Granting \ {r} ELSE Granting] : lv \in {2, 4}, r \in Granting}
      \cup {[i \in 1 .. 4 |-> Granting]}
      \cup {[i \in 1 .. 4 |-> IF i = 3 THEN Granting \cup {"huge"} ELSE IF i = 4 THEN d ELSE Granting]
              : d \in {{}, Granting}}

\* Text without a terminator, ending with the first page, ending with the last, or spoilt.
UmFills ==
    {[a \in UmAddr |-> IF a = e[1] THEN "nul" ELSE IF a = e[2] THEN "bad" ELSE "char"]
        : e \in {<<0, 0>>, <<2 * UmPageSize - 1, 0>>, <<UmEnd - 1, 0>>, <<UmEnd - 1, UmEnd - 2>>}}

UmInit ==
    /\ umPath \in {[p \in 1 .. UmPages |-> IF p = q THEN path ELSE [i \in 1 .. 4 |-> Granting]]
                     : q \in 1 .. UmPages, path \in UmPaths}
    /\ umByte \in UmFills
    /\ umCall = <<>> /\ umOld = umByte

---------------------------------------------------------------------------
\* walk_page_table_for_flags: the rights that all entries down to the last one grant.  The
\* huge flag is looked for in that intersection, which the top entry never has it in.

Walk(path) ==
    LET Met(i) == {f \in path[1] : \A j \in 2 .. i : f \in path[j]}
        Stops(i) == "huge" \in Met(i)
    IN IF \E i \in 1 .. 4 : "present" \notin path[i] /\ \A j \in 1 .. i - 1 : ~Stops(j)
       THEN {}
       ELSE IF \E i \in 1 .. 3 : Stops(i)
            THEN Met(CHOOSE i \in 1 .. 3 : Stops(i) /\ \A j \in 1 .. i - 1 : ~Stops(j))
            ELSE Met(4)

PageOf(a) == a \div UmPageSize

\* validate_user_range: both ends below the end of user space, and every page of the range
\* present, accessible and, for a write, writable.  Page 0 and the kernel have no such page.
PageAllows(p, w) ==
    /\ p \in 1 .. UmPages
    /\ {"present", "user"} \cup (IF w THEN {"write"} ELSE {}) \subseteq Walk(umPath[p])

ValidateRange(a, len, w) ==
    \/ len = 0
    \/ /\ a + len - 1 < UmEnd
       /\ \A p \in PageOf(a) .. PageOf(a + len - 1) : PageAllows(p, w)

\* UserSlice::new, and UserPtr::new and new_mut for the size of a value: no null pointer.
SliceOk(a, len, w) == len = 0 \/ (a # 0 /\ ValidateRange(a, len, w))

---------------------------------------------------------------------------
\* copy_c_string: page by page, so a terminator at the end of a page needs no next page.

Chunk(a, max, o) ==
    LET left == UmPageSize - ((a + o) % UmPageSize)
    IN IF max - o < left THEN max - o ELSE left

CopyCString(a, max) ==
    LET Nuls(o) == {i \in o .. o + Chunk(a, max, o) - 1 : umByte[a + i] = "nul"}
        From[o \in 0 .. max] ==
          IF o = max THEN <<"missing">>
          ELSE IF ~SliceOk(a + o, Chunk(a, max, o), FALSE) THEN <<"fault">>
          ELSE IF Nuls(o) = {} THEN From[o + Chunk(a, max, o)]
          ELSE LET n == CHOOSE i \in Nuls(o) : \A j \in Nuls(o) : i <= j
               IN IF \E i \in 0 .. n - 1 : umByte[a + i] = "bad" THEN <<"utf8">> ELSE <<"ok", n>>
    IN IF a = 0 \/ max = 0 THEN <<"fault">> ELSE From[0]

\* copy_user_string of both interfaces.
CopyUserString(a, max) ==
    /\ umCall = <<>>
    /\ umCall' = [op |-> "string", at |-> a, len |-> max, res |-> CopyCString(a, max)]
    /\ UNCHANGED <<umPath, umByte, umOld>>

\* copy_bytes_from_user, and copy_from_user of the Linux layer.
CopyFromUser(a, len) ==
    /\ umCall = <<>>
    /\ umCall' = [op |-> "read", at |-> a, len |-> len,
                  res |-> IF SliceOk(a, len, FALSE) THEN <<"ok", len>> ELSE <<"fault">>]
    /\ UNCHANGED <<umPath, umByte, umOld>>

UmStored(a, len) == [x \in UmAddr |-> IF x \in a .. a + len - 1 THEN "new" ELSE umByte[x]]

\* copy_bytes_to_user and copy_value_to_user.
CopyToUser(a, len) ==
    /\ umCall = <<>>
    /\ umCall' = [op |-> "write", at |-> a, len |-> len,
                  res |-> IF SliceOk(a, len, TRUE) THEN <<"ok", len>> ELSE <<"fault">>]
    /\ umByte' = IF SliceOk(a, len, TRUE) THEN UmStored(a, len) ELSE umByte
    /\ UNCHANGED <<umPath, umOld>>

\* copy_versioned_dto_to_user: no more than the caller's structure holds.

VersionedLen(caller, least, current) ==
    IF least = 0 \/ current < least \/ caller < least THEN -1
    ELSE IF caller < current THEN caller ELSE current

CopyVersioned(a, caller, least, current) ==
    LET len == VersionedLen(caller, least, current)
        ok == a # 0 /\ len # -1 /\ SliceOk(a, len, TRUE)
    IN /\ umCall = <<>>
       /\ umCall' = [op |-> "write", at |-> a, len |-> caller, res |-> IF ok THEN <<"ok", len>> ELSE
                       IF a = 0 \/ len = -1 THEN <<"invalid">> ELSE <<"fault">>]
       /\ umByte' = IF ok THEN UmStored(a, len) ELSE umByte
       /\ UNCHANGED <<umPath, umOld>>

UmNext ==
    \E a \in {0} \cup (UmPageSize .. UmEnd) :
      \/ \E len \in 0 .. UmMax : CopyUserString(a, len) \/ CopyFromUser(a, len) \/ CopyToUser(a, len)
      \/ CopyVersioned(a, 1, 1, 2) \/ CopyVersioned(a, 2, 1, 1) \/ CopyVersioned(a, 1, 2, 2)

UmSpec == UmInit /\ [][UmNext]_umVars

---------------------------------------------------------------------------
UmResults == {"ok", "fault", "missing", "utf8", "invalid"}

\* What is mapped, what the memory holds, and at most one call with its result.
UmTypeInv ==
    /\ \A p \in DOMAIN umPath : umPath[p] \in [1 .. 4 -> SUBSET (Granting \cup {"huge"})]
    /\ \A a \in UmAddr : umByte[a] \in {"nul", "char", "bad", "new"}
    /\ umCall # <<>> => umCall.res[1] \in UmResults

\* What the processor grants: every entry from the top to the one that ends the walk.
Grants(a, right) ==
    /\ PageOf(a) \in 1 .. UmPages
    /\ LET path == umPath[PageOf(a)]
           last == IF "huge" \in path[3] THEN 3 ELSE 4
       IN \A i \in 1 .. last : {"present", "user", right} \subseteq path[i]

UmSmall == \A p \in DOMAIN umPath : "huge" \notin umPath[p][3]

UmRange(a, len) == a .. a + len - 1

\* A copy between the kernel and a program (common/memory.rs:132, user_memory.rs) succeeds
\* exactly when the processor would let the program itself reach every byte of the range; a
\* right that is missing in an entry above the last counts as much as one missing there.  The
\* walk misreads huge pages, so this is stated for memory mapped with ordinary ones.
AccessAsMapped ==
    (umCall # <<>> /\ UmSmall) =>
      /\ (umCall.op \in {"read", "write"} /\ umCall.res[1] = "ok") =>
             \A x \in UmRange(umCall.at, umCall.res[2]) :
               Grants(x, IF umCall.op = "write" THEN "write" ELSE "user")
      /\ (umCall.op = "read" /\ umCall.res[1] = "fault") =>
           \E x \in UmRange(umCall.at, umCall.len) : ~Grants(x, "user")

\* A string argument (user_memory.rs:56) is accepted exactly when its terminator lies within
\* the limit and every byte up to it is readable and UTF-8: what lies behind the terminator,
\* an unmapped next page included, makes no difference, and nothing behind it is returned.
CStringExact ==
    (umCall # <<>> /\ UmSmall) =>
      (umCall.op = "string" =>
        LET Ends(n) == /\ \A i \in 0 .. n : Grants(umCall.at + i, "user")
                       /\ umByte[umCall.at + n] = "nul"
                       /\ \A i \in 0 .. n - 1 : umByte[umCall.at + i] = "char"
            ends == {n \in 0 .. umCall.len - 1 : umCall.at + n \in UmAddr /\ Ends(n)}
        IN IF ends = {} THEN umCall.res[1] # "ok" ELSE \E n \in ends : umCall.res = <<"ok", n>>)

\* A copy to a program changes exactly the bytes it reports, inside the buffer the caller
\* described, and a refused one changes nothing (syscall/interface.rs:206, user_memory.rs:111).
CopyExact ==
    umCall # <<>> =>
      /\ {x \in UmAddr : umByte[x] # umOld[x]} =
           (IF umCall.op = "write" /\ umCall.res[1] = "ok"
         THEN UmRange(umCall.at, umCall.res[2]) ELSE {})
      /\ (umCall.op = "write" /\ umCall.res[1] = "ok" => umCall.res[2] <= umCall.len)

--------------------------------------------------------------------------------
\* No frame, page or address space of the kernel is in two hands, and copies from and to user memory
\* touch exactly what is mapped.
MemorySound ==
    /\ FbTypeInv /\ HeldIsUsed /\ FailsOnlyWhenFull
    /\ KpTypeInv /\ RamMappedOnce /\ DeviceNeverFree /\ BlocksApart
    /\ AsTypeInv /\ Cr3Allocated /\ RootsDistinct /\ RangesDisjoint
    /\ UmTypeInv /\ AccessAsMapped /\ CStringExact /\ CopyExact
================================================================================
