------------------------------ MODULE PageTables -------------------------------
(***************************************************************************)
(* Page tables (petroleum page_table) and the slab allocator above single  *)
(* frames. The two parts share no state.                                   *)
(***************************************************************************)
EXTENDS Integers, Sequences, FiniteSets, FiniteSetsExt, SequencesExt

(***************************************************************************)
(* PageTables.  The editors of the kernel's page tables: the bootstrap     *)
(* editor that builds the first tables with huge pages and splits them     *)
(* (KernelMemoryOperations), the process page table on top of the x86_64   *)
(* crate's mapper, and the range mapper that prefers huge pages.  Three    *)
(* levels: the root's single entry, an L2 table whose entries are huge     *)
(* pages or L1 tables, and L1 tables, with PtFan entries each (512 in the  *)
(* code).  Flags are left out.                                             *)
(***************************************************************************)

CONSTANTS
    PtFan,      \* entries per table
    PtFrames,   \* frames the allocator has for tables
    PtVirts,    \* pages that single-page operations are asked for
    PtShift     \* distance to the other physical pages that may be mapped

ASSUME PtAssumption == PtFan \in Nat \ {0} /\ PtFrames \in Nat /\ PtVirts \subseteq 0 .. (PtFan * PtFan) - 1

VARIABLES
    ptRoot,     \* the entry of the upper level
    ptTab,      \* frame -> table, PtNoTable for a frame that holds none
    ptFree,     \* free frames of the allocator
    ptPhase,    \* "boot" until init_and_jump switches CR3
    ptNextHuge, \* next block of the bootstrap window
    ptLast      \* history: the last single-page mapping, [page, phys, ok]

ptVars == <<ptRoot, ptTab, ptFree, ptPhase, ptNextHuge, ptLast>>

PtPages == 0 .. (PtFan * PtFan) - 1
PtFrameSet == 1 .. PtFrames
PtNone == [k |-> "none", to |-> 0]
PtHuge(base) == [k |-> "huge", to |-> base]
PtNext(f) == [k |-> "next", to |-> f]
PtLeaf(p) == [k |-> "leaf", to |-> p]
PtEmpty == [i \in 0 .. PtFan - 1 |-> PtNone]
PtNoTable == <<>>

\* PageTableIndices::new
L2Index(v) == v \div PtFan
L1Index(v) == v % PtFan

PtInit ==
    /\ ptRoot = PtNone /\ ptTab = [f \in PtFrameSet |-> PtNoTable] /\ ptFree = PtFrameSet
    /\ ptPhase = "boot" /\ ptNextHuge = 0 /\ ptLast = [page |-> 0, phys |-> 0, ok |-> FALSE]

(***************************************************************************)
(* An edit is a record of the tables and whether it may go on.             *)
(***************************************************************************)
PtState == [root |-> ptRoot, tab |-> ptTab, free |-> ptFree, ok |-> TRUE]
PtFail(s) == [s EXCEPT !.ok = FALSE]
PtFrame(s) == CHOOSE f \in s.free : \A g \in s.free : f <= g

\* allocate_zeroed_table_from, with the entries the new table starts with.
PtTake(s, table) == [s EXCEPT !.tab[PtFrame(s)] = table, !.free = s.free \ {PtFrame(s)}]

\* The upper level gets an L2 table when it has none.
EnsureL2(s) ==
    IF ~s.ok \/ s.root.k = "next" THEN s
    ELSE IF s.free = {} THEN PtFail(s)
    ELSE [PtTake(s, PtEmpty) EXCEPT !.root = PtNext(PtFrame(s))]

\* Mutated form of SplitEntries: every small page maps the first frame.
SplitEntriesSame(base) == [i \in 0 .. PtFan - 1 |-> PtLeaf(base)]

\* The 512 small pages of a huge page.
SplitEntries(base) == [i \in 0 .. PtFan - 1 |-> PtLeaf(base + i)]

\* The L2 entry gets an L1 table: an empty one, or the pages of the huge page it held.
EnsureL1(s, v) ==
    IF ~s.ok THEN s
    ELSE LET e == s.tab[s.root.to][L2Index(v)] IN
         IF e.k = "next" THEN s
         ELSE IF s.free = {} THEN PtFail(s)
         ELSE LET t == PtTake(s, IF e.k = "huge" THEN SplitEntries(e.to) ELSE PtEmpty) IN
              [t EXCEPT !.tab[s.root.to][L2Index(v)] = PtNext(PtFrame(s))]

PtSetL1(s, v, e) ==
    IF ~s.ok THEN s ELSE [s EXCEPT !.tab[s.tab[s.root.to][L2Index(v)].to][L1Index(v)] = e]

PtTables(s) == ptRoot' = s.root /\ ptTab' = s.tab /\ ptFree' = s.free
PtAsked(v, p, s) == ptLast' = [page |-> v, phys |-> p, ok |-> s.ok]

(***************************************************************************)
(* KernelMemoryOperations.                                                 *)
(***************************************************************************)
\* One turn of map_range_2mb_huge over the bootstrap window (init_and_jump, steps 1 and 1b); out
\* of frames the boot panics.
HugeTurn ==
    /\ ptPhase = "boot" /\ ptNextHuge < PtFan
    /\ LET s == EnsureL2(PtState) IN
       /\ s.ok
       /\ PtTables([s EXCEPT !.tab[s.root.to][ptNextHuge] = PtHuge(ptNextHuge * PtFan)])
    /\ ptNextHuge' = ptNextHuge + 1
    /\ UNCHANGED <<ptPhase, ptLast>>

\* map_page_4k: the tables on the way are made or split, then the entry is overwritten.

Map4k(v, p) == PtSetL1(EnsureL1(EnsureL2(PtState), v), v, PtLeaf(p))

\* One page of map_range_4k: of the kernel, the stack, the arguments and the memory map at boot,
\* of the heap and other ranges later (VirtualMemoryContext::map_range_4k).
BootMap(v, p) ==
    /\ ptPhase = "boot" => ptNextHuge = PtFan
    /\ LET s == Map4k(v, p) IN
       /\ ptPhase = "boot" => s.ok
       /\ PtTables(s) /\ PtAsked(v, p, s)
    /\ UNCHANGED <<ptPhase, ptNextHuge>>

\* The bootstrap is done: CR3 is switched and the kernel entered.
Jump ==
    /\ ptPhase = "boot" /\ ptNextHuge = PtFan
    /\ ptPhase' = "run"
    /\ UNCHANGED <<ptRoot, ptTab, ptFree, ptNextHuge, ptLast>>

(***************************************************************************)
(* The x86_64 crate's mapper, and ProcessPageTable on top of it.           *)
(***************************************************************************)
PtL2(s, v) == s.tab[s.root.to][L2Index(v)]
PtL1(s, v) == s.tab[PtL2(s, v).to][L1Index(v)]

\* What Mapper::map_to of a small page meets.
MapToMeets(s, v) ==
    IF PtL2(s, v).k = "huge" THEN "huge parent"
    ELSE IF PtL2(s, v).k = "none" THEN (IF s.free = {} THEN "no frame" ELSE "free")
    ELSE IF PtL1(s, v).k = "none" THEN "free" ELSE "mapped"

\* split_huge_page_2mb: out of frames the huge page stays.
SplitHuge(s, v) == EnsureL1(s, v)

\* ProcessPageTable::map_page: a page that is mapped already counts as success and keeps its frame;
\* a huge parent is split, the page it left behind unmapped, and the mapping tried again.
MapProcess(v, p) ==
    /\ ptPhase = "run"
    /\ LET meets == MapToMeets(PtState, v)
           s == CASE meets = "mapped" -> PtState
                  [] meets = "no frame" -> PtFail(PtState)
                  [] meets = "free" -> PtSetL1(EnsureL1(PtState, v), v, PtLeaf(p))
                  [] meets = "huge parent" -> PtSetL1(PtSetL1(SplitHuge(PtState, v), v, PtNone), v, PtLeaf(p)) IN
       /\ PtTables(s)
       /\ PtAsked(v, IF meets = "mapped" THEN PtL1(PtState, v).to ELSE p, s)
    /\ UNCHANGED <<ptPhase, ptNextHuge>>

\* ProcessPageTable::unmap_page: only a page with an L1 entry can be unmapped.
UnmapProcess(v) ==
    /\ ptPhase = "run" /\ PtL2(PtState, v).k = "next" /\ PtL1(PtState, v).k = "leaf"
    /\ PtTables(PtSetL1(PtState, v, PtNone))
    /\ ptLast' = [ptLast EXCEPT !.ok = FALSE]
    /\ UNCHANGED <<ptPhase, ptNextHuge>>

\* One turn of map_range_with_huge_pages at v: a huge page where the block is aligned and wholly
\* asked for and nothing is there, else one small page; a huge page that is there is left alone.
HugeFits(v, p, left) == v % PtFan = 0 /\ p % PtFan = 0 /\ left >= PtFan

RangeTurn(v, p, left) ==
    /\ ptPhase = "run"
    /\ IF HugeFits(v, p, left) /\ PtL2(PtState, v).k = "none"
       THEN PtTables([PtState EXCEPT !.tab[ptRoot.to][L2Index(v)] = PtHuge(p)])
       ELSE IF ~HugeFits(v, p, left) /\ MapToMeets(PtState, v) = "free"
       THEN PtTables(PtSetL1(EnsureL1(PtState, v), v, PtLeaf(p)))
       ELSE FALSE
    /\ ptLast' = [ptLast EXCEPT !.ok = FALSE]
    /\ UNCHANGED <<ptPhase, ptNextHuge>>

\* The rest of the kernel allocates and frees frames of its own.
TakeFrame ==
    /\ ptPhase = "run" /\ ptFree # {} /\ ptFree' = ptFree \ {PtFrame(PtState)}
    /\ UNCHANGED <<ptRoot, ptTab, ptPhase, ptNextHuge, ptLast>>

PtTargets(v) == {v, v + PtShift}

PtNextStep ==
    \/ HugeTurn \/ Jump \/ TakeFrame
    \/ \E v \in PtVirts :
          \/ UnmapProcess(v)
          \/ \E p \in PtTargets(v) : BootMap(v, p) \/ MapProcess(v, p) \/ \E n \in {1, PtFan} : RangeTurn(v, p, n)

(***************************************************************************)
(* Properties.                                                             *)
(***************************************************************************)
PtUnmapped == -1

\* What the hardware finds for a page (and Translate::translate).
PtTranslate(v) ==
    IF ptRoot.k = "none" THEN PtUnmapped
    ELSE LET e == PtL2(PtState, v) IN
         CASE e.k = "none" -> PtUnmapped
           [] e.k = "huge" -> e.to + L1Index(v)
           [] e.k = "next" -> LET l == PtL1(PtState, v) IN IF l.k = "leaf" THEN l.to ELSE PtUnmapped

PtTypeInv ==
    /\ ptRoot.k \in {"none", "next"} /\ ptFree \subseteq PtFrameSet
    /\ \A f \in PtFrameSet : ptTab[f] # PtNoTable => DOMAIN ptTab[f] = 0 .. PtFan - 1
    /\ ptPhase \in {"boot", "run"} /\ ptNextHuge \in 0 .. PtFan

PtFlat == INSTANCE FlatMap WITH
    Pages <- PtPages, Phys <- PtPages \cup {p + PtShift : p \in PtPages}, Fan <- PtFan,
    Unmapped <- PtUnmapped, to <- [v \in PtPages |-> PtTranslate(v)]

\* Whatever the editors do to the tables, an address space is a flat map: every step maps one page,
\* maps one aligned block, unmaps one page, or (when a frame is missing in the middle of it, or a
\* huge page is only split) changes no translation at all.
ImplementsFlatMap == PtFlat!FmSpec

\* Every table belongs to one place: no two entries lead to the same frame, and no frame that an
\* entry leads to can be handed out again.
PtRefs == (IF ptRoot.k = "next" THEN {<<0, 0>>} ELSE {}) \cup
          {x \in PtFrameSet \X (0 .. PtFan - 1) : ptTab[x[1]] # PtNoTable /\ ptTab[x[1]][x[2]].k = "next"}
PtRefTo(x) == IF x[1] = 0 THEN ptRoot.to ELSE ptTab[x[1]][x[2]].to
TablesOwned ==
    /\ \A x \in PtRefs : PtRefTo(x) \notin ptFree /\ ptTab[PtRefTo(x)] # PtNoTable
    /\ \A x, y \in PtRefs : x # y => PtRefTo(x) # PtRefTo(y)

\* When an editor reports success for a page, the page leads where the caller was told: to the frame
\* asked for, or, from map_page of a page that was mapped already, to the frame it had.
OkIsMapped == ptLast.ok => PtTranslate(ptLast.page) = ptLast.phys

(***************************************************************************)
(* Slab.  The slab allocator (fullerene-kernel/src/slab.rs) with two of    *)
(* its caches: a page of SlPage units holds SlPage \div size objects,      *)
(* chained by offsets stored in the free objects themselves.  A page is a  *)
(* frame of the machine, given back by reap when none of its objects is    *)
(* used.                                                                   *)
(***************************************************************************)

CONSTANTS SlSizes,    \* object sizes of the caches, smallest first
          SlPage,     \* size of a page
          SlFrames,   \* frames of the machine
          SlAsked,    \* sizes that are asked for, none larger than the largest class
          SlOps       \* bound: calls

ASSUME SlAssumption == SlPage \in Nat \ {0} /\ SlFrames \in Nat /\ SlOps \in Nat

VARIABLES slCache,   \* cache -> [pages, hint]; a page is [frame, head, used]
          slWord,    \* <<frame, offset>> -> the offset stored in a free object
          slFree,    \* frames that are free
          slLive,    \* objects handed out: [cache, frame, at, size]
          slLeft     \* calls still to come

slVars == <<slCache, slWord, slFree, slLive, slLeft>>

SlEnd == -1   \* usize::MAX
SlCaches == DOMAIN SlSizes
SlInit ==
    /\ slCache = [c \in SlCaches |-> [pages |-> <<>>, hint |-> 0]]
    /\ slWord = [x \in (1 .. SlFrames) \X (0 .. (SlPage - 1)) |-> 0]
    /\ slFree = 1 .. SlFrames /\ slLive = {} /\ slLeft = SlOps

\* size_to_class: what is larger than the largest class gets the largest.
SizeToClass(size) ==
    IF \E c \in SlCaches : size <= SlSizes[c] THEN Min({c \in SlCaches : size <= SlSizes[c]}) ELSE Len(SlSizes)

\* SlabPage::new: the chain through all objects of the page.
Capacity(size) == SlPage \div size
Chained(word, frame, size) ==
    [x \in DOMAIN word |->
        IF x[1] = frame /\ x[2] % size = 0 /\ x[2] \div size < Capacity(size)
        THEN IF (x[2] \div size) + 1 < Capacity(size) THEN x[2] + size ELSE SlEnd
        ELSE word[x]]

\* SlabCache::alloc: the first page with a free object, from the hint on and then from the start.
HasObject(c, i) == slCache[c].pages[i].head # SlEnd
Partial(c) ==
    LET n == Len(slCache[c].pages)
        start == Min({slCache[c].hint, n})
        later == {i \in (start + 1) .. n : HasObject(c, i)}
        earlier == {i \in 1 .. start : HasObject(c, i)}
    IN IF later # {} THEN Min(later) ELSE IF earlier # {} THEN Min(earlier) ELSE 0
\* SlabPage::alloc: the head of the chain.
TakenFrom(c, pages, i, word, size) ==
    LET p == pages[i] IN
    /\ slCache' = [slCache EXCEPT ![c] = [pages |-> [pages EXCEPT ![i] = [p EXCEPT !.head = word[<<p.frame, p.head>>], !.used = @ + 1]],
                                          hint |-> i - 1]]
    /\ slLive' = slLive \cup {[cache |-> c, frame |-> p.frame, at |-> p.head, size |-> size]}
SlabAlloc(size) ==
    LET c == SizeToClass(size)
        i == Partial(c)
        f == Min(slFree)
        word == Chained(slWord, f, SlSizes[c])
    IN /\ slLeft > 0 /\ slLeft' = slLeft - 1
       /\ IF i # 0 THEN TakenFrom(c, slCache[c].pages, i, slWord, size) /\ UNCHANGED <<slWord, slFree>>
          ELSE IF slFree = {} THEN UNCHANGED <<slCache, slWord, slFree, slLive>>
          ELSE /\ slFree' = slFree \ {f} /\ slWord' = word
               /\ TakenFrom(c, Append(slCache[c].pages, [frame |-> f, head |-> 0, used |-> 0]),
                            Len(slCache[c].pages) + 1, word, size)

\* SlabCache::free, called with the object and its size: the object becomes the head of the chain.
SlabFree(o) ==
    LET c == SizeToClass(o.size)
        on == {i \in DOMAIN slCache[c].pages : slCache[c].pages[i].frame = o.frame}
        i == CHOOSE k \in on : TRUE
        p == slCache[c].pages[i]
    IN /\ slLeft > 0 /\ slLeft' = slLeft - 1 /\ slLive' = slLive \ {o} /\ UNCHANGED slFree
       /\ slWord' = [slWord EXCEPT ![<<o.frame, o.at>>] = p.head]
       /\ slCache' = [slCache EXCEPT ![c].pages[i] = [p EXCEPT !.head = o.at, !.used = @ - 1], ![c].hint = i - 1]

\* reap: pages without a used object are given back (unmapped, and freed twice under one lock).
Kept(p) == p.used # 0
Reap ==
    /\ slLeft > 0 /\ slLeft' = slLeft - 1
    /\ slCache' = [c \in SlCaches |-> [pages |-> SelectSeq(slCache[c].pages, Kept), hint |-> 0]]
    /\ slFree' = slFree \cup UNION {{p.frame : p \in {q \in ToSet(slCache[c].pages) : ~Kept(q)}} : c \in SlCaches}
    /\ UNCHANGED <<slWord, slLive>>

SlNext == (\E size \in SlAsked : SlabAlloc(size)) \/ (\E o \in slLive : SlabFree(o)) \/ Reap
SlSpec == SlInit /\ [][SlNext]_slVars

-------------------------------------------------------------------------------
SlTypeInv ==
    /\ slFree \subseteq 1 .. SlFrames /\ slLeft \in 0 .. SlOps
    /\ \A c \in SlCaches : slCache[c].pages \in Seq([frame : 1 .. SlFrames, head : -1 .. (SlPage - 1), used : Nat])

\* No two objects in use share a byte, an object lies within its page, and its page is not among
\* the free frames.  (No one asks for more than the largest class: size_to_class would give such a
\* request an object of that class.)
SlabDisjoint ==
    \A o \in slLive :
        /\ o.at + o.size <= SlPage /\ o.frame \notin slFree
        /\ \A q \in slLive : q # o /\ q.frame = o.frame => q.at >= o.at + o.size \/ o.at >= q.at + q.size

\* The chain of a page holds exactly the objects that are not in use, each once: following it from
\* free_head meets all of them and then the end.
ChainComplete ==
    \A c \in SlCaches : \A i \in DOMAIN slCache[c].pages :
        LET p == slCache[c].pages[i]
            n == Capacity(SlSizes[c]) - p.used
            F[k \in 0 .. n] == IF k = 0 THEN p.head ELSE slWord[<<p.frame, F[k - 1]>>]
            free == {F[k] : k \in 0 .. (n - 1)}
        IN /\ p.used = Cardinality({o \in slLive : o.frame = p.frame})
           /\ Cardinality(free) = n /\ F[n] = SlEnd
           /\ \A o \in slLive : o.frame = p.frame => o.at \notin free

--------------------------------------------------------------------------------
\* Every table frame has one parent, Ok means mapped, and slab objects do not overlap.
TablesSound ==
    /\ PtTypeInv /\ TablesOwned /\ OkIsMapped
    /\ SlTypeInv /\ SlabDisjoint /\ ChainComplete
================================================================================
