------------------------------ MODULE LinuxLayer -------------------------------
(***************************************************************************)
(* The Linux system-call layer of the kernel: memory calls, files and      *)
(* directories, the calls that read or write user buffers, and the error   *)
(* codes. The four parts share no state.                                   *)
(***************************************************************************)
EXTENDS Integers, Sequences, FiniteSets

(***************************************************************************)
(* LinuxMemory.  The memory system calls of the Linux layer: mmap, munmap, *)
(* mprotect and brk (linux/memory.rs) over one address space and the frame *)
(* allocator.  A call holds the lock of the memory manager, so it is one   *)
(* step; it can fail at any of its pages, and then undoes what it has      *)
(* done.                                                                   *)
(***************************************************************************)

CONSTANTS
    LmPageSize,     \* 4096 in the code
    LmPages,        \* pages below USER_ADDRESS_LIMIT
    LmMax,          \* MAX_LINUX_MEMORY, in bytes
    LmBase,         \* DEFAULT_MMAP_BASE, a page
    LmVdso,         \* the page of the vDSO
    LmHeap,         \* initial_break, in bytes
    LmFrames,       \* frames of memory
    LmAddrs,        \* bound: the addresses and breaks that programs name
    LmLens          \* bound: the lengths

ASSUME LmAssumption == LmPageSize > 1 /\ LmBase < LmPages /\ LmVdso < LmPages

VARIABLES
    lmMap,      \* page -> its frame and protection; frame 0 where nothing is mapped
    lmFree,     \* free frames
    lmRegions,  \* mmap_regions, a set
    lmBreak,    \* program_break, in bytes
    lmLast      \* whether the last call succeeded

lmVars == <<lmMap, lmFree, lmRegions, lmBreak, lmLast>>

LmPage == 0 .. LmPages - 1
LmProts == {"none", "read", "write"}
LmNone == [frame |-> 0, prot |-> "none"]

LmInit ==
    /\ lmMap = [p \in LmPage |-> IF p = LmVdso THEN [frame |-> 1, prot |-> "read"] ELSE LmNone]
    /\ lmFree = 2 .. LmFrames
    /\ lmRegions = {} /\ lmBreak = LmHeap /\ lmLast = TRUE

\* checked_page_range: the pages from the one of addr to the end, which is rounded up from
\* the last byte; a range whose last byte is the first of a page stops before that page.
Down(a) == a - (a % LmPageSize)
CheckedRange(addr, len, aligned) ==
    LET start == Down(addr)
        last == addr + len - 1
        end == Down(last + LmPageSize - 1)
        size == end - start
    IN [ok |-> /\ len # 0 /\ len <= LmMax
               /\ aligned => addr % LmPageSize = 0
               /\ size > 0 /\ size <= LmMax /\ end <= LmPages * LmPageSize,
        first |-> start \div LmPageSize, pages |-> size \div LmPageSize]

Span(first, n) == first .. first + n - 1

Tracked(ps) == \E r \in lmRegions : Span(r.first, r.pages) \cap ps # {}
\* translate_address: an entry without PRESENT still has its frame.
IsMapped(ps) == \E p \in ps : lmMap[p].frame # 0

\* get_page_flags reads no flags from an entry that is not present.
Owned(ps) == \A p \in ps : lmMap[p].frame # 0 /\ lmMap[p].prot # "none"

ReservedIn(ps) == LmVdso \in ps
\* find_free_anon_region: the first place from the hint on that no tracked region and no
\* mapping touches.
FreePlaces(n, hint) ==
    {p \in hint .. LmPages - n : ~Tracked(Span(p, n)) /\ ~IsMapped(Span(p, n))}

--------------------------------------------------------------------------------
Nth(free, i) == CHOOSE f \in free : Cardinality({g \in free : g < f}) = i

\* n pages from first on have been given frames.
WithPages(first, n, prot) ==
    [map |-> [p \in LmPage |-> IF p \in Span(first, n)
                               THEN [frame |-> Nth(lmFree, p - first), prot |-> prot]
                               ELSE lmMap[p]],
     free |-> lmFree \ {Nth(lmFree, i) : i \in 0 .. n - 1}]

\* safe_unmap_page for every page: the frame goes back to the allocator.
Unmapped(m, free, ps) ==
    [map |-> [p \in LmPage |-> IF p \in ps THEN LmNone ELSE m[p]],
     free |-> free \cup {m[p].frame : p \in {q \in ps : m[q].frame # 0}}]

\* Mutated form of Undone: the frame that could not be mapped is not given back.
UndoneLeaks(first, k, prot) ==
    LET st == WithPages(first, k, prot)
        f == IF st.free = {} THEN {} ELSE {Nth(st.free, 0)}
    IN Unmapped(st.map, st.free \ f, Span(first, k))

\* A call that stops at page k: without a frame, or with one that could not be mapped.
Undone(first, k, prot) ==
    LET st == WithPages(first, k, prot)
        f == IF st.free = {} THEN {} ELSE {Nth(st.free, 0)}
    IN Unmapped(st.map, (st.free \ f) \cup f, Span(first, k))

Becomes(st) == lmMap' = st.map /\ lmFree' = st.free

LmRefuse == lmLast' = FALSE /\ UNCHANGED <<lmMap, lmFree, lmRegions, lmBreak>>

\* sys_mmap, anonymous and not MAP_FIXED; other flags are refused before anything is read.
SysMmap(hint, len, prot) ==
    LET n == CheckedRange(0, len, FALSE).pages
        r == CheckedRange(hint, n * LmPageSize, FALSE)
        from == IF hint = 0 THEN LmBase ELSE r.first
        places == FreePlaces(n, from)
        first == CHOOSE p \in places : \A q \in places : p <= q
    IN IF ~CheckedRange(0, len, FALSE).ok \/ (hint # 0 /\ ~r.ok) \/ places = {} THEN LmRefuse
       ELSE \/ /\ n <= Cardinality(lmFree)
               /\ Becomes(WithPages(first, n, prot))
               /\ lmRegions' = lmRegions \cup {[first |-> first, pages |-> n, prot |-> prot]}
               /\ lmLast' = TRUE /\ UNCHANGED lmBreak
            \/ \E k \in 0 .. n - 1 :
                  /\ k <= Cardinality(lmFree) /\ Becomes(Undone(first, k, prot))
                  /\ lmLast' = FALSE /\ UNCHANGED <<lmRegions, lmBreak>>

\* sys_munmap: only a region of exactly this range is forgotten.
SysMunmap(addr, len) ==
    LET r == CheckedRange(addr, len, TRUE)
        ps == Span(r.first, r.pages)
    IN IF ~r.ok \/ ReservedIn(ps) \/ ~Owned(ps) THEN LmRefuse
       ELSE /\ Becomes(Unmapped(lmMap, lmFree, ps))
            /\ lmRegions' = {g \in lmRegions : g.first # r.first \/ g.pages # r.pages}
            /\ lmLast' = TRUE /\ UNCHANGED lmBreak

\* sys_mprotect: page k may refuse its flags, and the pages before it get theirs back.
Reprotected(ps, prot) == [p \in LmPage |-> IF p \in ps THEN [lmMap[p] EXCEPT !.prot = prot] ELSE lmMap[p]]

\* Mutated form of RolledBack: the pages before the failure keep the new rights.
RolledBackNot(first, k, prot) == Reprotected(Span(first, k), prot)

RolledBack(first, k, prot) ==
    LET changed == Reprotected(Span(first, k), prot)
    IN [p \in LmPage |-> IF p \in Span(first, k) THEN [changed[p] EXCEPT !.prot = lmMap[p].prot]
                         ELSE changed[p]]

SysMprotect(addr, len, prot) ==
    LET r == CheckedRange(addr, len, FALSE)
        ps == Span(r.first, r.pages)
    IN IF ~r.ok \/ ReservedIn(ps) \/ ~Owned(ps) THEN LmRefuse
       ELSE \/ /\ lmMap' = Reprotected(ps, prot)
               /\ lmRegions' = {IF g.first = r.first /\ g.pages = r.pages
                                THEN [g EXCEPT !.prot = prot] ELSE g : g \in lmRegions}
               /\ lmLast' = TRUE /\ UNCHANGED <<lmFree, lmBreak>>
            \/ \E k \in 0 .. r.pages - 1 :
                  /\ lmMap' = RolledBack(r.first, k, prot)
                  /\ lmLast' = FALSE /\ UNCHANGED <<lmFree, lmRegions, lmBreak>>

\* sys_brk: 0 and addresses outside the heap's range only ask for the break; a shrink only
\* moves it; growth needs pages that nothing maps or tracks.
SysBrk(new) ==
    LET first == Down(lmBreak + LmPageSize - 1) \div LmPageSize
        end == Down(new + LmPageSize - 1) \div LmPageSize
        n == end - first
        grown == first .. end - 1
    IN IF new = 0 \/ new < LmHeap \/ new >= LmPages * LmPageSize \/ new - LmHeap > LmMax THEN LmRefuse
       ELSE IF new <= lmBreak \/ n <= 0
       THEN /\ lmBreak' = new /\ lmLast' = TRUE /\ UNCHANGED <<lmMap, lmFree, lmRegions>>
       ELSE IF Tracked(grown) \/ IsMapped(grown) THEN LmRefuse
       ELSE \/ /\ n <= Cardinality(lmFree) /\ Becomes(WithPages(first, n, "write"))
               /\ lmBreak' = new /\ lmLast' = TRUE /\ UNCHANGED lmRegions
            \/ \E k \in 0 .. n - 1 :
                  /\ k <= Cardinality(lmFree) /\ Becomes(Undone(first, k, "write"))
                  /\ lmLast' = FALSE /\ UNCHANGED <<lmRegions, lmBreak>>

LmBytes == 0 .. LmPages * LmPageSize
LmNext ==
    \/ \E hint \in LmAddrs, len \in LmLens : SysMmap(hint, len, "write")
    \/ \E addr \in LmAddrs, len \in LmLens : SysMunmap(addr, len)
    \/ \E addr \in LmAddrs, len \in LmLens, prot \in {"none", "read"} : SysMprotect(addr, len, prot)
    \/ \E new \in LmAddrs : SysBrk(new)

LmSpec == LmInit /\ [][LmNext]_lmVars

--------------------------------------------------------------------------------
LmTypeInv ==
    /\ lmMap \in [LmPage -> [frame : 0 .. LmFrames, prot : LmProts]]
    /\ lmFree \subseteq 1 .. LmFrames
    /\ lmBreak \in LmBytes /\ lmLast \in BOOLEAN
    /\ \A r \in lmRegions : r.first \in LmPage /\ r.pages \in 1 .. LmPages

\* Frames are conserved by every path of mmap, munmap, mprotect and brk, the failures in
\* the middle included: each frame is free or mapped at exactly one page.
FramesConserved ==
    \A f \in 1 .. LmFrames :
        Cardinality({p \in LmPage : lmMap[p].frame = f}) + (IF f \in lmFree THEN 1 ELSE 0) = 1

\* The regions of mmap_regions never overlap, although a partial munmap leaves the
\* bookkeeping of a region whose pages are gone.
RegionsDisjoint ==
    \A r, s \in lmRegions : Span(r.first, r.pages) \cap Span(s.first, s.pages) # {} =>
        r.first = s.first /\ r.pages = s.pages

\* The vDSO page keeps its frame and its protection whatever ranges a program names.
VdsoKept == lmMap[LmVdso] = [frame |-> 1, prot |-> "read"]

\* A call that answers an error has changed no mapping, no region and no break.
FailureChangesNothing ==
    [~lmLast' => UNCHANGED <<lmMap, lmRegions, lmBreak>>]_lmVars

(***************************************************************************)
(* LinuxFs.  The descriptors of Linux programs (linux/fs.rs,               *)
(* linux/runtime.rs): a table per process over the descriptors of the      *)
(* kernel's VFS.  dup, dup2 and clone copy the VFS descriptor, and pipe    *)
(* names VFS descriptors 1 and 2, so several entries can share one; close  *)
(* closes it for all of them.                                              *)
(***************************************************************************)

CONSTANTS
    LfFds,      \* bound: the greatest Linux descriptor
    LfVfs,      \* bound: VFS descriptors over time
    LfDirs,     \* bound: those of directories
    LfEntries,  \* entries of the directory that is listed
    LfRoom      \* entries that fit the buffer of one getdents64

ASSUME LfAssumption == LfEntries \in Nat /\ LfRoom \in Nat

VARIABLES
    lfTab,      \* fd -> entry; vfd 0 where there is none
    lfNext,     \* next_fd
    lfOpen,     \* open VFS descriptors
    lfNextVfs,  \* the next VFS descriptor
    lfChild,    \* the VFS descriptors that the table of a cloned child names
    lfShared,   \* history: VFS descriptors that more than one entry has named
    lfDropped,  \* history: VFS descriptors whose entry was overwritten, or died
    lfListed    \* history: fd -> indices that getdents64 has delivered

lfVars == <<lfTab, lfNext, lfOpen, lfNextVfs, lfChild, lfShared, lfDropped, lfListed>>

LfFd == 3 .. LfFds
LfNoEntry == [vfd |-> 0, off |-> 0, dir |-> FALSE]  \* off: the next directory entry

LfInit ==
    /\ lfTab = [f \in LfFd |-> LfNoEntry]
    /\ lfNext = 3
    /\ lfOpen = {} /\ lfNextVfs = 1
    /\ lfChild = {}
    /\ lfShared = {} /\ lfDropped = {}
    /\ lfListed = [f \in LfFd |-> <<>>]

\* What an entry that is written over leaves behind.
LfLost(f) == IF lfTab[f].vfd = 0 THEN {} ELSE {lfTab[f].vfd}

\* LinuxFdTable::alloc takes the next number, whatever dup2 or clone has put there.
LfAlloc(v, dir) ==
    /\ lfNext <= LfFds
    /\ lfTab' = [lfTab EXCEPT ![lfNext] = [vfd |-> v, off |-> 0, dir |-> dir]]
    /\ lfNext' = lfNext + 1
    /\ lfListed' = [lfListed EXCEPT ![lfNext] = <<>>]
    /\ lfDropped' = lfDropped \cup LfLost(lfNext)

\* sys_open, sys_openat, sys_creat: whatever the flags, one VFS descriptor or an error.
SysOpen ==
    /\ lfNextVfs <= LfVfs
    /\ LfAlloc(lfNextVfs, lfNextVfs \in LfDirs)
    /\ lfOpen' = lfOpen \cup {lfNextVfs} /\ lfNextVfs' = lfNextVfs + 1
    /\ UNCHANGED <<lfChild, lfShared>>

\* vfs::close of a descriptor; a second close of it is an error that sys_close drops.
LfVfsClose(v) == lfOpen' = lfOpen \ {v}

SysClose(f) ==
    /\ lfTab[f].vfd # 0
    /\ LfVfsClose(lfTab[f].vfd)
    /\ lfTab' = [lfTab EXCEPT ![f] = LfNoEntry]
    /\ lfListed' = [lfListed EXCEPT ![f] = <<>>]
    /\ UNCHANGED <<lfNext, lfNextVfs, lfChild, lfShared, lfDropped>>

\* fill_stat_from_path opens the file, reads it to its end and closes it again.

SysStat ==
    /\ lfNextVfs <= LfVfs /\ lfNextVfs' = lfNextVfs + 1
    /\ LfVfsClose(lfNextVfs)
    /\ UNCHANGED <<lfTab, lfNext, lfChild, lfShared, lfDropped, lfListed>>

\* sys_getdents64: as many entries as fit, from the offset on; EFAULT at the k-th copy
\* leaves the offset where it was.
LfOffsetAfter(e, n) == e.off + n

SysGetdents(f) ==
    LET e == lfTab[f]
        n == IF LfEntries - e.off < LfRoom THEN LfEntries - e.off ELSE LfRoom
    IN /\ e.vfd # 0 /\ e.dir /\ e.off < LfEntries
       /\ lfTab' = [lfTab EXCEPT ![f].off = LfOffsetAfter(e, n)]
       /\ lfListed' = [lfListed EXCEPT ![f] = @ \o [i \in 1 .. n |-> e.off + i]]
       /\ UNCHANGED <<lfNext, lfOpen, lfNextVfs, lfChild, lfShared, lfDropped>>

\* sys_dup allocates an entry for the same VFS descriptor, without its offset or path.
SysDup(f) ==
    /\ lfTab[f].vfd # 0 /\ LfAlloc(lfTab[f].vfd, FALSE)
    /\ lfShared' = lfShared \cup {lfTab[f].vfd}
    /\ UNCHANGED <<lfOpen, lfNextVfs, lfChild>>

\* sys_dup2 removes what was at the new number without closing it.
SysDup2(f, g) ==
    /\ f # g /\ lfTab[f].vfd # 0
    /\ lfTab' = [lfTab EXCEPT ![g] = lfTab[f]]
    /\ lfListed' = [lfListed EXCEPT ![g] = lfListed[f]]
    /\ lfShared' = lfShared \cup {lfTab[f].vfd}
    /\ lfDropped' = lfDropped \cup LfLost(g)
    /\ UNCHANGED <<lfNext, lfOpen, lfNextVfs, lfChild>>

\* sys_pipe: entries for VFS descriptors 1 and 2, whoever has opened those.
SysPipe ==
    LET n == lfNext
    IN /\ n + 1 <= LfFds
       /\ lfTab' = [lfTab EXCEPT ![n] = [vfd |-> 1, off |-> 0, dir |-> FALSE],
                                 ![n + 1] = [vfd |-> 2, off |-> 0, dir |-> FALSE]]
       /\ lfNext' = n + 2
       /\ lfListed' = [lfListed EXCEPT ![n] = <<>>, ![n + 1] = <<>>]
       /\ lfDropped' = lfDropped \cup LfLost(n) \cup LfLost(n + 1)
       /\ lfShared' = lfShared \cup {1, 2}
       /\ UNCHANGED <<lfOpen, lfNextVfs, lfChild>>

\* sys_clone copies the entries, so the child names the same descriptors.
LfClone ==
    /\ lfChild = {}
    /\ lfChild' = {lfTab[f].vfd : f \in LfFd} \ {0}
    /\ lfShared' = lfShared \cup lfChild'
    /\ UNCHANGED <<lfTab, lfNext, lfOpen, lfNextVfs, lfDropped, lfListed>>

\* The child closes one of them; the parent's entry is none the wiser.
LfChildCloses ==
    /\ \E v \in lfChild : LfVfsClose(v) /\ lfChild' = lfChild \ {v}
    /\ UNCHANGED <<lfTab, lfNext, lfNextVfs, lfShared, lfDropped, lfListed>>

\* The end of a process drops its runtime; nothing closes the descriptors.
LfChildExits ==
    /\ lfChild # {} /\ lfChild' = {}
    /\ lfDropped' = lfDropped \cup lfChild
    /\ UNCHANGED <<lfTab, lfNext, lfOpen, lfNextVfs, lfShared, lfListed>>

LfNextStep ==
    \/ SysOpen \/ SysStat \/ SysPipe \/ LfClone \/ LfChildCloses \/ LfChildExits
    \/ \E f \in LfFd :
         \/ SysClose(f) \/ SysGetdents(f) \/ SysDup(f)
         \/ \E g \in LfFd : SysDup2(f, g)

LfSpec == LfInit /\ [][LfNextStep]_lfVars

--------------------------------------------------------------------------------
LfTypeInv ==
    /\ \A f \in LfFd :
          lfTab[f].vfd \in 0 .. LfVfs + 2 /\ lfTab[f].off \in 0 .. LfEntries + 1
    /\ lfNext \in 3 .. LfFds + 1
    /\ lfOpen \subseteq 1 .. LfVfs /\ lfChild \subseteq 1 .. LfVfs + 2

Named(v) == v \in lfChild \/ \E f \in LfFd : lfTab[f].vfd = v

\* The VFS descriptors that stay open are those that some entry names; the only ones
\* lost are the ones whose entry dup2, alloc or the end of the process has overwritten.
OpenIsNamed == \A v \in lfOpen : Named(v) \/ v \in lfDropped

\* An entry whose VFS descriptor was closed under it comes from sharing (dup, dup2,
\* clone, pipe): a descriptor with one entry works until its own close.
EntryWorks ==
    \A f \in LfFd :
        LET v == lfTab[f].vfd IN v # 0 => v \in lfOpen \/ v \in lfShared

\* Repeated getdents64 calls on one descriptor deliver the entries in order, each of them
\* once, however they split over the buffers.
EntriesOnce ==
    \A f \in LfFd :
        /\ \A i \in DOMAIN lfListed[f] : lfListed[f][i] = i
        /\ lfTab[f].dir => lfTab[f].off = Len(lfListed[f])

(***************************************************************************)
(* LinuxCalls.  The system calls of Linux programs (syscall/dispatch.rs,   *)
(* linux/runtime.rs and the handlers of linux/{fs,misc,signal,time}.rs).   *)
(* handle_syscall takes the runtime out of the process, hands it to the    *)
(* handler and puts it back; a handler that gives up the processor keeps   *)
(* it on its kernel stack while other programs make their calls.  Every    *)
(* pointer of a call may be null, good or bad.                             *)
(***************************************************************************)

CONSTANTS
    LcProcs,   \* Linux processes
    LcCalls,   \* bound: calls of a behaviour
    LcTicks,   \* bound: clock ticks
    LcPerSec,  \* ticks of a second (1000 in the code)
    LcFile     \* bytes of the open file

ASSUME LcAssumption == LcPerSec \in Nat \ {0} /\ LcFile \in Nat

VARIABLES
    lcRt,     \* process -> its runtime, lcNone while a call has it
    lcStack,  \* process -> <<>>, or the runtime that a call in progress holds
    lcCur,    \* the running process
    lcPos,    \* the VFS position of the open file
    lcName,   \* whether the path that the programs use exists
    lcTick,   \* GLOBAL_TICK
    lcTime,   \* history: the last time that was reported, in seconds and ticks
    lcLast,   \* history: the last call: its process, whether it failed, what it must keep
    lcLeft    \* bound: calls to go

lcVars == <<lcRt, lcStack, lcCur, lcPos, lcName, lcTick, lcTime, lcLast, lcLeft>>

lcNone == [tid |-> 0]
Ptr == {"null", "ok", "bad"}
Fd == {3, 4}  \* 3 is open, 4 is not

\* LinuxRuntime::new, with one file open.
NewRuntime(p) ==
    [tid |-> p, off |-> 0, flags |-> 0, hand |-> {}, mask |-> {}, tls |-> 0,
     clear |-> "null", umask |-> 18, next |-> 4]

NoGather == [asked |-> <<>>, moved |-> <<>>, total |-> 0]

LcInit ==
    /\ lcRt = [p \in LcProcs |-> NewRuntime(p)]
    /\ lcStack = [p \in LcProcs |-> <<>>]
    /\ lcCur \in LcProcs
    /\ lcPos = 0 /\ lcName = FALSE
    /\ lcTick = 0 /\ lcTime = <<0, 0>>
    /\ lcLast = [p |-> 0, err |-> FALSE, seeks |-> TRUE, gather |-> NoGather]
    /\ lcLeft = LcCalls

---------------------------------------------------------------------------
\* The outcome of a handler: the runtime, the VFS position, and whether it is an errno.
Ok(rt) == [rt |-> rt, pos |-> lcPos, err |-> FALSE]
Fail(rt) == [rt |-> rt, pos |-> lcPos, err |-> TRUE]

\* copy_to_user and copy_val_to_user of the results that need a pointer.
Reports(rt, ptr) == IF ptr = "ok" THEN Ok(rt) ELSE Fail(rt)
MayReport(rt, ptr) == IF ptr = "bad" THEN Fail(rt) ELSE Ok(rt)

SysRtSigaction(rt, sig, act, old) ==
    IF sig \in {"none", "kill", "stop"} \/ old = "bad" \/ act = "bad" THEN Fail(rt)
    ELSE IF act = "null" THEN Ok(rt)
    ELSE Ok([rt EXCEPT !.hand = @ \cup {sig}])

\* sys_rt_sigprocmask: the operation is looked at after the old mask has been copied.
SysRtSigprocmask(rt, how, set, old) ==
    IF old = "bad" \/ set = "bad" THEN Fail(rt)
    ELSE IF set = "null" THEN Ok(rt)
    ELSE CASE how = 0 -> Ok([rt EXCEPT !.mask = @ \cup {"usr"}])
           [] how = 1 -> Ok([rt EXCEPT !.mask = @ \ {"usr"}])
           [] how = 2 -> Ok([rt EXCEPT !.mask = {"usr"}])
           [] OTHER -> Fail(rt)

\* sys_arch_prctl: only SET refuses a kernel address; GET fails where the copy does.
SysArchPrctl(rt, code, addr) ==
    IF code = "set_fs"
    THEN IF addr = "kernel" THEN Fail(rt) ELSE Ok([rt EXCEPT !.tls = IF addr = "null" THEN 0 ELSE 1])
    ELSE IF code = "get_fs" THEN IF addr \in {"kernel", "bad"} THEN Fail(rt) ELSE Ok(rt)
    ELSE Fail(rt)

SysSetTidAddress(rt, ptr) == Ok([rt EXCEPT !.clear = ptr])

SysUmask(rt, m) == Ok([rt EXCEPT !.umask = m % 512])

SysFcntl(rt, fd, cmd) ==
    IF cmd = "setfl" THEN IF fd = 3 THEN Ok([rt EXCEPT !.flags = 1]) ELSE Fail(rt)
    ELSE IF cmd = "getfd" THEN IF fd = 3 THEN Ok(rt) ELSE Fail(rt)
    ELSE Ok(rt)

\* sys_ioctl answers for the terminal only, and reports some failed copies.
SysIoctl(rt, fd, ptr) == IF fd = 3 THEN Fail(rt) ELSE MayReport(rt, ptr)

\* sys_pipe whose copy fails takes both entries away again; their numbers are spent.
SysPipeFault(rt) == Fail([rt EXCEPT !.next = @ + 2])

\* sys_lseek: SEEK_END is answered like a negative offset.
SysLseek(rt, fd, whence, n) ==
    LET to == CASE whence = 0 -> n [] whence = 1 -> rt.off + n [] OTHER -> -1
    IN IF fd # 3 \/ to < 0 THEN Fail(rt) ELSE Ok([rt EXCEPT !.off = to])

\* sys_read: a read at the end of the file and one into bad memory are both EFAULT; the
\* second has moved the VFS position.
SysRead(rt, pos, fd, count, buf) ==
    LET n == IF LcFile - pos < count THEN LcFile - pos ELSE count
    IN IF count = 0 THEN [rt |-> rt, pos |-> pos, err |-> FALSE, n |-> 0]
       ELSE IF fd # 3 THEN [rt |-> rt, pos |-> pos, err |-> TRUE, n |-> 0]
       ELSE IF n = 0 \/ buf # "ok" THEN [rt |-> rt, pos |-> pos + n, err |-> TRUE, n |-> 0]
       ELSE [rt |-> [rt EXCEPT !.off = @ + n], pos |-> pos + n, err |-> FALSE, n |-> n]

\* sys_fstat learns the size by reading on to the end of the file.
SysFstat(rt, fd) == IF fd # 3 THEN Fail(rt) ELSE [Ok(rt) EXCEPT !.pos = LcFile]

\* sys_pread64 reads through the descriptor and then restores its offset.

SysPread(rt, fd, count, buf, at) ==
    IF at < 0 \/ fd # 3 THEN Fail(rt)
    ELSE [SysRead([rt EXCEPT !.off = at], lcPos, fd, count, buf) EXCEPT !.rt.off = rt.off]

\* sys_write copies the data in before it writes; fd 1 and 2 go to the serial line.
SysWrite(rt, fd, count, base) ==
    IF count = 0 THEN Ok(rt)
    ELSE IF fd = 4 \/ base # "ok" THEN Fail(rt)
    ELSE Ok([rt EXCEPT !.off = IF fd = 3 THEN @ + count ELSE @])

\* sys_pwrite64 likewise restores the offset after the write.
SysPwrite(rt, fd, count, base, at) ==
    IF at < 0 \/ fd # 3 THEN Fail(rt)
    ELSE [SysWrite([rt EXCEPT !.off = at], fd, count, base) EXCEPT !.rt.off = rt.off]

\* sys_readv: as sys_writev below, and a short read ends the call as well.
Scatter(rt, fd, iov) ==
    LET Rd[i \in 0 .. Len(iov)] ==
          IF i = 0 THEN [rt |-> rt, pos |-> lcPos, moved |-> <<>>, total |-> 0, stop |-> FALSE, err |-> FALSE]
          ELSE LET g == Rd[i - 1]
                   r == SysRead(g.rt, g.pos, fd, iov[i][2], iov[i][1])
               IN IF g.stop \/ iov[i][1] = "null" THEN g
                  ELSE IF r.err THEN [g EXCEPT !.pos = r.pos, !.stop = TRUE, !.err = g.total = 0]
                  ELSE [g EXCEPT !.rt = r.rt, !.pos = r.pos, !.moved = Append(@, <<i, r.n>>),
                                 !.total = @ + r.n, !.stop = r.n < iov[i][2]]
    IN Rd[Len(iov)]

\* sys_writev: vectors without a base are skipped, a failed write ends the call, and it is an
\* error only when nothing has been written.  A vector is <<state of its base, length>>.

Gather(rt, fd, iov) ==
    LET Wr[i \in 0 .. Len(iov)] ==
          IF i = 0 THEN [rt |-> rt, moved |-> <<>>, total |-> 0, stop |-> FALSE, err |-> FALSE]
          ELSE LET g == Wr[i - 1]
                   r == SysWrite(g.rt, fd, iov[i][2], iov[i][1])
               IN IF g.stop \/ iov[i][1] = "null" THEN g
                  ELSE IF r.err THEN [g EXCEPT !.stop = TRUE, !.err = g.total = 0]
                  ELSE [g EXCEPT !.rt = r.rt, !.moved = Append(@, <<i, iov[i][2]>>), !.total = @ + iov[i][2]]
    IN Wr[Len(iov)]

---------------------------------------------------------------------------
\* The process gets its runtime back whatever the handler returned.
PutBack(p, r) == [lcRt EXCEPT ![p] = r.rt]

Calls(p) == lcCur = p /\ lcStack[p] = <<>> /\ lcRt[p] # lcNone /\ lcLeft > 0

Done(p, r, seeks, gather) ==
    /\ lcRt' = PutBack(p, r)
    /\ lcPos' = r.pos
    /\ lcLast' = [p |-> p, err |-> r.err, seeks |-> seeks, gather |-> gather]
    /\ lcLeft' = lcLeft - 1
    /\ UNCHANGED <<lcStack, lcCur, lcTick>>

\* handle_syscall and LinuxRuntime::dispatch for the calls that only concern the runtime.
CallsRuntime(p) ==
    /\ Calls(p)
    /\ LET rt == lcRt[p]
           rs == {SysRtSigaction(rt, s, a, o) : s \in {"usr", "kill"}, a \in Ptr, o \in Ptr}
             \cup {SysRtSigprocmask(rt, h, s, o) : h \in 0 .. 3, s \in Ptr, o \in Ptr}
             \cup {SysArchPrctl(rt, c, a) : c \in {"set_fs", "get_fs", "other"}, a \in Ptr \cup {"kernel"}}
             \cup {SysSetTidAddress(rt, a) : a \in Ptr}
             \cup {SysUmask(rt, m) : m \in {18, 512 + 63}}
             \cup {SysFcntl(rt, f, c) : f \in Fd, c \in {"setfl", "getfd", "other"}}
             \cup {SysIoctl(rt, f, a) : f \in Fd \cup {1}, a \in Ptr}
             \cup {SysPipeFault(rt)}
             \cup {Reports(rt, a) : a \in Ptr} \cup {MayReport(rt, a) : a \in Ptr}
       IN \E r \in rs : Done(p, r, TRUE, NoGather)
    /\ UNCHANGED <<lcName, lcTime>>

CallsFile(p) ==
    /\ Calls(p)
    /\ LET rt == lcRt[p]
       IN \/ \E f \in Fd, w \in 0 .. 2, n \in {-1, 1} : Done(p, SysLseek(rt, f, w, n), TRUE, NoGather)
          \/ \E f \in Fd, c \in 0 .. 2, b \in Ptr : Done(p, SysRead(rt, lcPos, f, c, b), TRUE, NoGather)
          \/ \E f \in Fd : Done(p, SysFstat(rt, f), TRUE, NoGather)
          \/ \E f \in Fd \cup {1}, b \in Ptr : Done(p, SysWrite(rt, f, 1, b), TRUE, NoGather)
          \/ \E f \in Fd, b \in Ptr, at \in {-1, 2} : Done(p, SysPread(rt, f, 1, b, at), FALSE, NoGather)
          \/ \E f \in Fd, b \in Ptr, at \in {-1, 2} : Done(p, SysPwrite(rt, f, 1, b, at), FALSE, NoGather)
    /\ UNCHANGED <<lcName, lcTime>>

CallsVector(p) ==
    /\ Calls(p)
    /\ \E f \in Fd, a, b, c \in Ptr :
         LET iov == <<<<a, 1>>, <<b, 2>>, <<c, 1>>>>
             g == Gather(lcRt[p], f, iov)
             h == Scatter(lcRt[p], f, iov)
             Moved(x) == [asked |-> iov, moved |-> x.moved, total |-> x.total]
         IN \/ Done(p, IF g.err THEN Fail(g.rt) ELSE Ok(g.rt), TRUE, Moved(g))
            \/ Done(p, h, TRUE, Moved(h))
    /\ UNCHANGED <<lcName, lcTime>>

\* sys_access, sys_unlink, sys_rmdir and sys_mkdir, each after copy_user_string.
CallsPath(p) ==
    /\ Calls(p)
    /\ \/ \E r \in {Fail(lcRt[p])} : Done(p, r, TRUE, NoGather) /\ UNCHANGED lcName
       \/ lcName /\ Done(p, Ok(lcRt[p]), TRUE, NoGather) /\ lcName' \in BOOLEAN
       \/ ~lcName /\ Done(p, Ok(lcRt[p]), TRUE, NoGather) /\ lcName' = TRUE
    /\ UNCHANGED lcTime

\* sys_clock_gettime, sys_gettimeofday and sys_time split the tick count.
ClockOf(t) == <<t \div LcPerSec, t % LcPerSec>>

CallsClock(p) ==
    /\ Calls(p)
    /\ Done(p, Ok(lcRt[p]), TRUE, NoGather)
    /\ lcTime' = ClockOf(lcTick)
    /\ UNCHANGED lcName

\* sys_sched_yield, and sys_nanosleep in its loop: the runtime stays on the kernel stack.
CallYields(p, q) ==
    /\ Calls(p)
    /\ lcStack' = [lcStack EXCEPT ![p] = <<lcRt[p]>>]
    /\ lcRt' = [lcRt EXCEPT ![p] = lcNone]
    /\ lcCur' = q
    /\ lcLeft' = lcLeft - 1
    /\ UNCHANGED <<lcPos, lcName, lcTick, lcTime, lcLast>>

\* The process is chosen again and its call returns, or, in nanosleep, yields once more.
CallReturns(p) ==
    /\ lcCur = p /\ lcStack[p] # <<>>
    /\ lcRt' = PutBack(p, Ok(lcStack[p][1]))
    /\ lcStack' = [lcStack EXCEPT ![p] = <<>>]
    /\ UNCHANGED <<lcCur, lcPos, lcName, lcTick, lcTime, lcLast, lcLeft>>

CallYieldsAgain(p, q) ==
    /\ lcCur = p /\ lcStack[p] # <<>> /\ q # p
    /\ lcCur' = q
    /\ UNCHANGED <<lcRt, lcStack, lcPos, lcName, lcTick, lcTime, lcLast, lcLeft>>

LcTickAdvances ==
    /\ lcTick < LcTicks /\ lcTick' = lcTick + 1
    /\ UNCHANGED <<lcRt, lcStack, lcCur, lcPos, lcName, lcTime, lcLast, lcLeft>>

LcNext ==
    \/ LcTickAdvances
    \/ \E p \in LcProcs :
         \/ CallsRuntime(p) \/ CallsFile(p) \/ CallsVector(p) \/ CallsPath(p) \/ CallsClock(p)
         \/ CallReturns(p)
         \/ \E q \in LcProcs : CallYields(p, q) \/ CallYieldsAgain(p, q)

LcSpec == LcInit /\ [][LcNext]_lcVars

---------------------------------------------------------------------------
LcTypeInv ==
    /\ lcCur \in LcProcs /\ lcPos \in 0 .. LcFile /\ lcTick \in 0 .. LcTicks
    /\ \A p \in LcProcs : lcRt[p] = lcNone \/ (lcRt[p].off \in Nat /\ lcRt[p].umask \in 0 .. 511)

\* A process that is not inside a call owns its own runtime, so its next call finds what the
\* last one left, whichever programs have run in between; dispatch.rs:35-58 takes it out and
\* puts it back around a handler that may fail or give up the processor.
RuntimeReturned ==
    \A p \in LcProcs : IF lcStack[p] = <<>> THEN lcRt[p].tid = p
                       ELSE lcRt[p] = lcNone /\ lcStack[p][1].tid = p

\* A call that returns an errno has left the runtime of its process as it was, but for
\* descriptor numbers that pipe has spent; and pread64 leaves the offset alone whether it
\* succeeds or not (linux/{fs,misc,signal}.rs: copies and state changes are interleaved).
ErrorKeepsRuntime ==
    [lcLeft' # lcLeft /\ lcStack' = lcStack =>
         LET old == lcRt[lcLast'.p]
             new == lcRt'[lcLast'.p]
         IN /\ lcLast'.err => new = [old EXCEPT !.next = new.next]
            /\ ~lcLast'.seeks => new.off = old.off]_lcVars

\* readv and writev move the data of a prefix of their non-empty vectors, in order, all but
\* the last of them whole, and return exactly what was moved (linux/fs.rs:455-514): a bad
\* vector or a short read ends the call, it is not stepped over.
VectorIsPrefix ==
    LET g == lcLast.gather
        Want == SelectSeq([i \in DOMAIN g.asked |-> i], LAMBDA i : g.asked[i][1] # "null")
        Sum[n \in 0 .. Len(g.moved)] == IF n = 0 THEN 0 ELSE Sum[n - 1] + g.moved[n][2]
    IN /\ Len(g.moved) <= Len(Want)
       /\ \A k \in DOMAIN g.moved :
            g.moved[k][1] = Want[k] /\ (k < Len(g.moved) => g.moved[k][2] = g.asked[Want[k]][2])
       /\ g.total = Sum[Len(g.moved)]

\* The time that programs are told never runs backwards (linux/time.rs:51-117).
TimeForward ==
    [lcTime' # lcTime => \/ lcTime'[1] > lcTime[1]
                         \/ lcTime'[1] = lcTime[1] /\ lcTime'[2] > lcTime[2]]_lcVars

(***************************************************************************)
(* ErrorCodes.  The errors of the kernel's parts as the two system call    *)
(* interfaces report them: SyscallError of the native one                  *)
(* (syscall/interface.rs) and LinuxErrno (linux/runtime.rs).  Each is a    *)
(* table of its own, and a failure of one component is seen through both   *)
(* by programs of the two kinds.                                           *)
(***************************************************************************)

CONSTANT EcCalls  \* bound: failed calls of a behaviour

VARIABLE ecSeen   \* the failures so far: <<native, linux>> codes, and the returned words

ecVars == <<ecSeen>>

EcInit == ecSeen = <<>>

\* impl From<FsError>, From<BlockError>, From<DriverError>, From<MemoryError> for SyscallError.
FsNative ==
    [FileNotFound |-> "FileNotFound", FileExists |-> "AlreadyExists",
     PermissionDenied |-> "PermissionDenied", InvalidFileDescriptor |-> "BadFileDescriptor",
     InvalidSeek |-> "InvalidArgument", InvalidPath |-> "InvalidArgument",
     InvalidInput |-> "InvalidArgument", DiskFull |-> "NoSpace",
     NotADirectory |-> "NotADirectory", DirectoryNotEmpty |-> "DirectoryNotEmpty",
     IsADirectory |-> "IsADirectory", NotSupported |-> "NotSupported",
     UnexpectedEof |-> "Io", Io |-> "Io"]

BlockNative ==
    [Device |-> "Io", BufferTooSmall |-> "InvalidArgument", LbaOverflow |-> "Overflow",
     SectorNotFound |-> "FileNotFound"]

DriverNative ==
    [DeviceNotFound |-> "NoSuchDevice", NotReady |-> "Again", InvalidArgument |-> "InvalidArgument",
     OutOfMemory |-> "OutOfMemory", MmioMappingFailed |-> "OutOfMemory",
     DmaMappingFailed |-> "Io", Io |-> "Io", Protocol |-> "Io", DeviceFault |-> "Io",
     TimedOut |-> "TimedOut", Busy |-> "Busy", NotSupported |-> "NotSupported"]

MemoryNative ==
    [OutOfMemory |-> "OutOfMemory", FrameAllocationFailed |-> "OutOfMemory",
     MappingFailed |-> "AddressFault", InvalidAddress |-> "AddressFault",
     UnmappingFailed |-> "InvalidArgument", InvalidAlignment |-> "InvalidArgument",
     InvalidSize |-> "InvalidArgument", NotMapped |-> "InvalidArgument",
     AddressOverflow |-> "Overflow", AlreadyMapped |-> "AlreadyExists",
     PermissionDenied |-> "PermissionDenied", NotInitialized |-> "AddressFault"]

\* The same four for LinuxErrno, with the numbers of linux/numbers.rs.
FsLinux ==
    [FileNotFound |-> 2, FileExists |-> 17, PermissionDenied |-> 13, InvalidFileDescriptor |-> 9,
     InvalidSeek |-> 22, InvalidPath |-> 22, InvalidInput |-> 22, DiskFull |-> 28,
     NotADirectory |-> 20, DirectoryNotEmpty |-> 39, IsADirectory |-> 21, NotSupported |-> 95,
     UnexpectedEof |-> 5, Io |-> 5]

BlockLinux == [Device |-> 5, BufferTooSmall |-> 22, LbaOverflow |-> 75, SectorNotFound |-> 2]

DriverLinux ==
    [DeviceNotFound |-> 19, NotReady |-> 11, InvalidArgument |-> 22, OutOfMemory |-> 12,
     MmioMappingFailed |-> 12, DmaMappingFailed |-> 5, Io |-> 5, Protocol |-> 5,
     DeviceFault |-> 5, TimedOut |-> 110, Busy |-> 16, NotSupported |-> 95]

MemoryLinux ==
    [OutOfMemory |-> 12, FrameAllocationFailed |-> 12, MappingFailed |-> 14, InvalidAddress |-> 14,
     UnmappingFailed |-> 22, InvalidAlignment |-> 22, InvalidSize |-> 22, NotMapped |-> 22,
     AddressOverflow |-> 75, AlreadyMapped |-> 17, PermissionDenied |-> 13, NotInitialized |-> 14]

\* errno_code: the negative number as the 64-bit word that the call returns (here 8 bits).
ErrnoCode(e) == (256 - e) % 256

Failure(native, linux) == [native |-> native, word |-> ErrnoCode(linux)]

EcFails ==
    /\ Len(ecSeen) < EcCalls
    /\ \/ \E e \in DOMAIN FsNative : ecSeen' = Append(ecSeen, Failure(FsNative[e], FsLinux[e]))
       \/ \E e \in DOMAIN BlockNative : ecSeen' = Append(ecSeen, Failure(BlockNative[e], BlockLinux[e]))
       \/ \E e \in DOMAIN DriverNative : ecSeen' = Append(ecSeen, Failure(DriverNative[e], DriverLinux[e]))
       \/ \E e \in DOMAIN MemoryNative : ecSeen' = Append(ecSeen, Failure(MemoryNative[e], MemoryLinux[e]))

EcSpec == EcInit /\ [][EcFails]_ecVars

EcTypeInv == Len(ecSeen) <= EcCalls /\ \A i \in DOMAIN ecSeen : ecSeen[i].word \in 0 .. 255

\* The two interfaces tell the same failures apart, whichever component they come from, and
\* every failure is a negative word, so that no Linux call's error reads as a count
\* (interface.rs:124-194, linux/runtime.rs:269-368).
ErrorsAgree ==
    /\ \A i, j \in DOMAIN ecSeen : (ecSeen[i].native = ecSeen[j].native) <=> (ecSeen[i].word = ecSeen[j].word)
    /\ \A i \in DOMAIN ecSeen : ecSeen[i].word >= 128

--------------------------------------------------------------------------------
\* Frames, descriptors, runtimes and error codes of the Linux layer stay consistent through every
\* sequence of calls, failing ones included.
LinuxSound ==
    /\ LmTypeInv /\ FramesConserved /\ RegionsDisjoint /\ VdsoKept
    /\ LfTypeInv /\ OpenIsNamed /\ EntryWorks /\ EntriesOnce
    /\ LcTypeInv /\ RuntimeReturned /\ VectorIsPrefix
    /\ EcTypeInv /\ ErrorsAgree
================================================================================
