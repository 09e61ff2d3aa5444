------------------------------ MODULE PciDevices -------------------------------
(***************************************************************************)
(* Devices behind PCI: enumeration and placement of base addresses, DMA    *)
(* mappings through the IOMMU, and the virtio GPU. The three parts share   *)
(* no state.                                                               *)
(***************************************************************************)
EXTENDS Integers, Sequences, FiniteSets, SequencesExt

(***************************************************************************)
(* PciScan.  The PCI bus scan and the assignment of base address registers *)
(* (BARs).  The scan walks bus 0, then every child bus a bridge names, in  *)
(* ascending order. The allocator leaves BARs that firmware assigned       *)
(* alone, sizes the others by writing all ones, and places them one after  *)
(* the other.  A function is <<bus, device, function>>; addresses and      *)
(* sizes are in units of the smallest BAR, and a 64-bit BAR takes two      *)
(* registers.                                                              *)
(***************************************************************************)

CONSTANTS
    PsMachines,   \* the machines examined: function -> [multi, bridge, sec, bars]
    PsBuses,      \* bus numbers 0 .. PsBuses - 1; the last one stands for bus 255
    PsDevs, PsFns,
    PsBase        \* PciAllocator::new's mmio_base

ASSUME PsAssumption == PsBuses \in Nat \ {0} /\ PsDevs \in Nat /\ PsFns \in Nat /\ PsBase \in Nat

VARIABLES
    psMachine,  \* the machine: function -> its header and BARs
    psBus,      \* the bus the scan looks at; PsBuses once it is done
    psToScan,   \* buses_to_scan
    psFound,    \* PciScanner.devices
    psDev,      \* assign_bars: index in psFound of the device it works on
    psBar,      \* assign_bars: bar_index
    psPc,       \* "scan", "bar", "place", "restore"
    psRegs,     \* function -> values of its BAR registers (0: unassigned)
    psDecode,   \* function -> the memory decode bit of its command register
    psSavedDecode,
    psNextBase  \* PciAllocator.mmio_base

psVars == <<psMachine, psBus, psToScan, psFound, psDev, psBar, psPc, psRegs, psDecode, psSavedDecode, psNextBase>>

PsHere == DOMAIN psMachine
PsFn(f) == psMachine[f]
PsLastBus == PsBuses - 1

\* A machine's BARs are a sequence of [io, wide, size, addr]; the upper half of a wide one is [upper].
PsIsUpper(bars, i) == i > 1 /\ bars[i - 1].wide

PsInit ==
    /\ psMachine \in PsMachines
    /\ psBus = 0 /\ psToScan = {0} /\ psFound = <<>>
    /\ psDev = 1 /\ psBar = 1 /\ psPc = "scan"
    /\ psRegs = [f \in DOMAIN psMachine |-> [i \in DOMAIN psMachine[f].bars |-> psMachine[f].bars[i].addr]]
    /\ psDecode = [f \in DOMAIN psMachine |-> TRUE] /\ psSavedDecode = TRUE
    /\ psNextBase = PsBase

\* The functions of a bus in the order of the two loops; functions past 0 only when function 0 has
\* the multi-function bit.
PsVisible(b, d, n) ==
    /\ <<b, d, n>> \in PsHere /\ <<b, d, 0>> \in PsHere
    /\ n > 0 => PsFn(<<b, d, 0>>).multi
PsOnBus(b) ==
    SetToSortSeq({f \in PsHere : f[1] = b /\ PsVisible(b, f[2], f[3])},
                 LAMBDA f, g : f[2] < g[2] \/ (f[2] = g[2] /\ f[3] < g[3]))

\* Child buses: bus 0 takes any secondary number but 0 and 255, the others only larger ones.
PsChildrenAny(b) == {PsFn(f).sec : f \in {g \in ToSet(PsOnBus(b)) : PsFn(g).bridge}}
PsChildren(b) ==
    {s \in PsChildrenAny(b) : IF b = 0 THEN s > 0 /\ s < PsLastBus ELSE s > b}

\* scan_all_buses looks at one bus; a child bus without device 0 function 0 is skipped.
ScanBus ==
    /\ psPc = "scan" /\ psBus < PsBuses
    /\ IF psBus \in psToScan /\ (psBus = 0 \/ <<psBus, 0, 0>> \in PsHere)
       THEN psFound' = psFound \o PsOnBus(psBus) /\ psToScan' = psToScan \cup PsChildren(psBus)
       ELSE psToScan' = psToScan \ {psBus} /\ UNCHANGED psFound
    /\ psBus' = psBus + 1
    /\ UNCHANGED <<psMachine, psDev, psBar, psPc, psRegs, psDecode, psSavedDecode, psNextBase>>

ScanDone ==
    /\ psPc = "scan" /\ psBus = PsBuses
    /\ psPc' = "bar"
    /\ UNCHANGED <<psMachine, psBus, psToScan, psFound, psDev, psBar, psRegs, psDecode, psSavedDecode, psNextBase>>

PsCur == psFound[psDev]
PsMaxBars == Len(PsFn(PsCur).bars)
PsReg == PsFn(PsCur).bars[psBar]

\* A wide BAR takes two registers.
BarStep(bar) == IF bar.wide THEN 2 ELSE 1

NextDevice ==
    /\ psPc = "bar" /\ psDev <= Len(psFound) /\ psBar > PsMaxBars
    /\ psDev' = psDev + 1 /\ psBar' = 1
    /\ UNCHANGED <<psMachine, psBus, psToScan, psFound, psPc, psRegs, psDecode, psSavedDecode, psNextBase>>

\* Firmware's BARs are kept, I/O BARs and absent ones are left alone.
BarKept(bar) == psRegs[PsCur][psBar] # 0
KeepBar ==
    /\ psPc = "bar" /\ psDev <= Len(psFound) /\ psBar <= PsMaxBars
    /\ BarKept(PsReg) \/ PsReg.io \/ PsReg.size = 0
    /\ psBar' = psBar + IF ~BarKept(PsReg) /\ PsReg.size = 0 THEN 1 ELSE BarStep(PsReg)
    /\ UNCHANGED <<psMachine, psBus, psToScan, psFound, psDev, psPc, psRegs, psDecode, psSavedDecode, psNextBase>>

\* detect_bar_size holds the configuration lock throughout and puts both registers back; then the
\* command register is saved and memory decoding switched off.
SizeBar ==
    /\ psPc = "bar" /\ psDev <= Len(psFound) /\ psBar <= PsMaxBars
    /\ ~BarKept(PsReg) /\ ~PsReg.io /\ PsReg.size > 0
    /\ psSavedDecode' = psDecode[PsCur]
    /\ psDecode' = [psDecode EXCEPT ![PsCur] = FALSE]
    /\ psPc' = "place"
    /\ UNCHANGED <<psMachine, psBus, psToScan, psFound, psDev, psBar, psRegs, psNextBase>>

\* The next address that is a multiple of the size, which is a power of two.
BarAligned(size) == ((psNextBase + size - 1) \div size) * size

\* Both halves of a wide BAR are written; the model keeps the address in the lower one.
PlaceBar ==
    /\ psPc = "place"
    /\ psRegs' = [psRegs EXCEPT ![PsCur][psBar] = BarAligned(PsReg.size)]
    /\ psNextBase' = BarAligned(PsReg.size) + PsReg.size
    /\ psPc' = "restore"
    /\ UNCHANGED <<psMachine, psBus, psToScan, psFound, psDev, psBar, psDecode, psSavedDecode>>

RestoreCommand ==
    /\ psPc = "restore"
    /\ psDecode' = [psDecode EXCEPT ![PsCur] = psSavedDecode]
    /\ psBar' = psBar + BarStep(PsReg) /\ psPc' = "bar"
    /\ UNCHANGED <<psMachine, psBus, psToScan, psFound, psDev, psRegs, psSavedDecode, psNextBase>>

PsNext ==
    ScanBus \/ ScanDone \/ NextDevice \/ KeepBar \/ SizeBar \/ PlaceBar \/ RestoreCommand

PsSpec == PsInit /\ [][PsNext]_psVars

-----------------------------------------------------------------------------

\* Every variable keeps its type.
PsTypeInv ==
    /\ psBus \in 0 .. PsBuses /\ psToScan \subseteq 0 .. PsLastBus
    /\ ToSet(psFound) \subseteq PsHere
    /\ psPc \in {"scan", "bar", "place", "restore"}
    /\ psNextBase \in Nat

\* What a walk of the tree from bus 0 can reach through bridges whose child bus is numbered higher.
PsReachStep(bs) == bs \cup UNION {{PsFn(f).sec : f \in {g \in ToSet(PsOnBus(b)) : PsFn(g).bridge /\ PsFn(g).sec > b}} : b \in bs}
PsReachable == PsReachStep(PsReachStep(PsReachStep({0})))

\* One ascending pass finds every function behind every bridge exactly once, whatever the nesting,
\* on buses whose first device is present and whose number is not 255 (scan_all_buses).
ScanFindsAll ==
    psPc # "scan" =>
        /\ IsInjective(psFound)
        /\ \A b \in PsReachable \ {PsLastBus} :
              b = 0 \/ <<b, 0, 0>> \in PsHere => ToSet(PsOnBus(b)) \subseteq ToSet(psFound)

PsPlaced == {x \in UNION {{<<f, i>> : i \in DOMAIN PsFn(f).bars} : f \in PsHere} :
                /\ PsFn(x[1]).bars[x[2]].addr = 0 /\ psRegs[x[1]][x[2]] # 0}
PsSpan(x) == psRegs[x[1]][x[2]] .. psRegs[x[1]][x[2]] + PsFn(x[1]).bars[x[2]].size - 1

\* The BARs the allocator places never overlap, each is a multiple of its size as the hardware
\* decodes it, and the upper half of a wide BAR is never taken for a BAR of its own.
PlacedApart ==
    /\ \A x, y \in PsPlaced : x # y => PsSpan(x) \cap PsSpan(y) = {}
    /\ \A x \in PsPlaced :
          /\ psRegs[x[1]][x[2]] % PsFn(x[1]).bars[x[2]].size = 0
          /\ ~PsIsUpper(PsFn(x[1]).bars, x[2])

\* Decoding is off only while a BAR of that device is being placed, and firmware's BARs keep their
\* address throughout (assign_bars: "Firmware-assigned BARs are live hardware resources").
LiveBarsKept ==
    /\ \A f \in PsHere : psDecode[f] \/ (psPc \in {"place", "restore"} /\ f = PsCur)
    /\ \A f \in PsHere : \A i \in DOMAIN PsFn(f).bars :
          PsFn(f).bars[i].addr # 0 => psRegs[f][i] = PsFn(f).bars[i].addr

(***************************************************************************)
(* DmaMapping.  DMA buffers and the VT-d IOMMU.  A DmaRegion owns          *)
(* contiguous frames and may be mapped for a device; with an IOMMU the     *)
(* mapping takes a range of I/O addresses, fills a three-level page table  *)
(* whose tables are allocated on the way, and invalidates the caches of    *)
(* the unit, which answers within a bounded wait or not at all.  Sizes are *)
(* in half pages, addresses in pages.                                      *)
(***************************************************************************)

CONSTANTS
    DmFrames,     \* frames 1 .. DmFrames hold buffers
    DmTop,        \* last page of the I/O address space; page 0 is never given out
    DmSizes,      \* sizes of buffers, in half pages
    DmDevices,    \* PCI functions the scan finds
    DmIdOf,       \* device -> the identifier its driver passes to dma_map
    DmRegions,    \* buffers the drivers hold at a time
    DmOwner,      \* region -> the device it is for
    DmPools,      \* bound: numbers of frames left for tables
    DmCache       \* bound: translations cached at a time

ASSUME DmAssumption ==
    /\ DmFrames \in Nat /\ DmTop \in Nat /\ DmPools \subseteq Nat
    /\ DmSizes \subseteq Nat \ {0} /\ DOMAIN DmIdOf = DmDevices
    /\ DmOwner \in [DmRegions -> DmDevices] /\ DmCache \in Nat

VARIABLES
    dmEngine,   \* GLOBAL_IOMMU: "boot", "off" or "on"
    dmTables,   \* tables reached from the root: <<"ctx", id>>, <<"sl1", i>>, <<"sl0", i>>
    dmPool,     \* frames left for tables
    dmCtx,      \* identifier -> context entry: "none", "pass", "host"
    dmIova,     \* IovaAllocator.free: sequence of intervals <<start, end>>
    dmPte,      \* I/O page -> frame, or 0
    dmTlb,      \* pairs <<I/O page, frame>> the unit has cached
    dmLate,     \* history: the cached translations that an invalidation which timed out has left
    dmRegion    \* region -> [phys, size, iova, mapped], or DmNoRegion

dmVars == <<dmEngine, dmTables, dmPool, dmCtx, dmIova, dmPte, dmTlb, dmLate, dmRegion>>
dmUnit == <<dmEngine, dmTables, dmPool, dmCtx, dmIova, dmPte, dmTlb, dmLate>>

DmNoRegion == <<>>
DmIds == DmDevices \cup {DmIdOf[d] : d \in DmDevices}
DmPages == 1 .. DmTop
DmHeld == {r \in DmRegions : dmRegion[r] # DmNoRegion}

PagesOf(size) == (size + 1) \div 2
DmCovers(start, n) == start .. start + n - 1

\* Frames of buffers that are not held by a region (the frame allocator's view).
DmFreeFrames ==
    (1 .. DmFrames) \ UNION {DmCovers(dmRegion[r].phys, PagesOf(dmRegion[r].size)) : r \in DmHeld}

DmInit ==
    /\ dmEngine = "boot" /\ dmTables = {} /\ dmPool \in DmPools
    /\ dmCtx = [i \in DmIds |-> "none"]
    /\ dmIova = << <<1, DmTop>> >> /\ dmPte = [p \in DmPages |-> 0]
    /\ dmTlb = {} /\ dmLate = {}
    /\ dmRegion = [r \in DmRegions |-> DmNoRegion]

\* iommu::init succeeds: every device found by the scan is passed through.
InitEngine ==
    /\ dmEngine = "boot" /\ dmPool >= Cardinality(DmDevices)
    /\ dmEngine' = "on"
    /\ dmTables' = {<<"ctx", d>> : d \in DmDevices} /\ dmPool' = dmPool - Cardinality(DmDevices)
    /\ dmCtx' = [i \in DmIds |-> IF i \in DmDevices THEN "pass" ELSE "none"]
    /\ UNCHANGED <<dmIova, dmPte, dmTlb, dmLate, dmRegion>>

\* No DMAR table, no frame, or a wait that timed out: addresses stay physical.
InitFails ==
    /\ dmEngine = "boot" /\ dmEngine' = "off"
    /\ UNCHANGED <<dmTables, dmPool, dmCtx, dmIova, dmPte, dmTlb, dmLate, dmRegion>>

\* IovaAllocator::alloc: the lowest free interval that is long enough.
IovaFits(need) == {i \in DOMAIN dmIova : dmIova[i][2] - dmIova[i][1] + 1 >= need}
IovaPick(need) == CHOOSE i \in IovaFits(need) : \A j \in IovaFits(need) : dmIova[i][1] <= dmIova[j][1]
IovaTaken(need) ==
    LET i == IovaPick(need)
        left == <<dmIova[i][1] + need, dmIova[i][2]>>
    IN IF left[1] > left[2] THEN RemoveAt(dmIova, i) ELSE ReplaceAt(dmIova, i, left)

\* IovaAllocator::free: the interval is inserted in order and touching ones are merged.
Merges(last, iv) == iv[1] <= last[2] + 1
IovaGiven(ivs, start, n) ==
    LET sorted == SetToSortSeq(ToSet(ivs) \cup {<<start, start + n - 1>>}, LAMBDA a, b : a[1] < b[1])
        Add(out, iv) ==
            IF out # <<>> /\ Merges(Last(out), iv)
            THEN ReplaceAt(out, Len(out), <<Last(out)[1], IF iv[2] > Last(out)[2] THEN iv[2] ELSE Last(out)[2]>>)
            ELSE Append(out, iv)
    IN FoldLeft(Add, <<>>, sorted)

\* map_page: the two lower tables are allocated when missing; the first may stay when the second fails.
WithTable(t, table) ==
    IF ~t.ok \/ table \in t.tables THEN t
    ELSE IF t.pool = 0 THEN [t EXCEPT !.ok = FALSE]
    ELSE [t EXCEPT !.tables = @ \cup {table}, !.pool = @ - 1]
MapPage(t, page, frame) ==
    LET u == WithTable(WithTable(t, <<"sl1", page \div 4>>), <<"sl0", page \div 2>>)
    IN IF u.ok THEN [u EXCEPT !.pte[page] = frame] ELSE u

\* The page loop of dma_map: it stops at the first failure, which unmaps the pages before it.
MapPagesUntil(t, iova, phys, n) ==
    FoldLeft(LAMBDA u, i : IF u.ok THEN MapPage(u, iova + i - 1, phys + i - 1) ELSE u, t, [i \in 1 .. n |-> i])
MapPages(t, iova, phys, n) ==
    LET u == MapPagesUntil(t, iova, phys, n)
    IN IF u.ok THEN u ELSE [u EXCEPT !.pte = [p \in DmPages |-> IF p \in DmCovers(iova, n) THEN 0 ELSE @[p]]]

\* Mutated form of Flush: the cached translations stay.
FlushNever(done) == UNCHANGED <<dmTlb, dmLate>>

\* iotlb_domain_invalidate: the result of the bounded wait is not looked at.
Flush(done) == IF done THEN dmTlb' = {} /\ dmLate' = {} ELSE dmLate' = dmTlb /\ UNCHANGED dmTlb

\* DmaRegion::alloc.
AllocRegion(r, size, phys) ==
    /\ dmEngine # "boot" /\ dmRegion[r] = DmNoRegion
    /\ DmCovers(phys, PagesOf(size)) \subseteq DmFreeFrames
    /\ dmRegion' = [dmRegion EXCEPT ![r] = [phys |-> phys, size |-> size, iova |-> 0, mapped |-> FALSE]]
    /\ UNCHANGED dmUnit

\* dma_map without an engine returns the physical address.
MapIdentity(r) ==
    /\ dmEngine = "off" /\ r \in DmHeld /\ ~dmRegion[r].mapped
    /\ dmRegion' = [dmRegion EXCEPT ![r].iova = dmRegion[r].phys, ![r].mapped = TRUE]
    /\ UNCHANGED dmUnit

\* The context entry of the identifier points at the page table before anything else can fail.
ContextFor(id) == WithTable([ok |-> TRUE, tables |-> dmTables, pool |-> dmPool, pte |-> dmPte], <<"ctx", id>>)

MapNoContext(r) ==
    /\ dmEngine = "on" /\ r \in DmHeld /\ ~dmRegion[r].mapped
    /\ ~ContextFor(DmIdOf[DmOwner[r]]).ok
    /\ UNCHANGED dmVars

MapRegion(r, flushed) ==
    /\ dmEngine = "on" /\ r \in DmHeld /\ ~dmRegion[r].mapped
    /\ LET id == DmIdOf[DmOwner[r]]
           c == ContextFor(id)
           n == PagesOf(dmRegion[r].size)
       IN /\ c.ok
          /\ dmCtx' = [dmCtx EXCEPT ![id] = "host"]
          /\ IF IovaFits(n) = {}
             THEN dmTables' = c.tables /\ dmPool' = c.pool /\ UNCHANGED <<dmIova, dmPte, dmTlb, dmLate, dmRegion>>
             ELSE LET iova == dmIova[IovaPick(n)][1]
                      t == MapPages(c, iova, dmRegion[r].phys, n)
                  IN /\ dmTables' = t.tables /\ dmPool' = t.pool /\ dmPte' = t.pte
                     /\ IF t.ok
                        THEN /\ dmIova' = IovaTaken(n) /\ Flush(flushed)
                             /\ dmRegion' = [dmRegion EXCEPT ![r].iova = iova, ![r].mapped = TRUE]
                        ELSE /\ dmIova' = IovaGiven(IovaTaken(n), iova, n)
                             /\ UNCHANGED <<dmTlb, dmLate, dmRegion>>
    /\ UNCHANGED dmEngine

\* dma_unmap: entries cleared, addresses given back, then the invalidation.
Unmap(g, flushed) ==
    IF dmEngine = "off" THEN UNCHANGED <<dmPte, dmIova, dmTlb, dmLate>>
    ELSE LET n == PagesOf(g.size) IN
         /\ dmPte' = [p \in DmPages |-> IF p \in DmCovers(g.iova, n) THEN 0 ELSE dmPte[p]]
         /\ dmIova' = IovaGiven(dmIova, g.iova, n)
         /\ Flush(flushed)

UnmapRegion(r, flushed) ==
    /\ r \in DmHeld /\ dmRegion[r].mapped
    /\ Unmap(dmRegion[r], flushed)
    /\ dmRegion' = [dmRegion EXCEPT ![r].mapped = FALSE]
    /\ UNCHANGED <<dmEngine, dmTables, dmPool, dmCtx>>

\* DmaRegion::free unmaps a region that is still mapped before its frames go back.
FreeRegion(r, flushed) ==
    /\ r \in DmHeld
    /\ IF dmRegion[r].mapped THEN Unmap(dmRegion[r], flushed) ELSE UNCHANGED <<dmPte, dmIova, dmTlb, dmLate>>
    /\ dmRegion' = [dmRegion EXCEPT ![r] = DmNoRegion]
    /\ UNCHANGED <<dmEngine, dmTables, dmPool, dmCtx>>

\* The unit walks the table for an access of a translated device and caches what it finds.
DeviceWalks(id, page) ==
    /\ dmEngine = "on" /\ dmCtx[id] = "host" /\ dmPte[page] # 0 /\ Cardinality(dmTlb) < DmCache
    /\ {<<"sl1", page \div 4>>, <<"sl0", page \div 2>>} \subseteq dmTables
    /\ dmTlb' = dmTlb \cup {<<page, dmPte[page]>>}
    /\ UNCHANGED <<dmEngine, dmTables, dmPool, dmCtx, dmIova, dmPte, dmLate, dmRegion>>

DmNext ==
    \/ InitEngine \/ InitFails
    \/ \E r \in DmRegions, size \in DmSizes, phys \in 1 .. DmFrames : AllocRegion(r, size, phys)
    \/ \E r \in DmRegions : MapIdentity(r) \/ MapNoContext(r)
    \/ \E r \in DmRegions, flushed \in BOOLEAN :
           MapRegion(r, flushed) \/ UnmapRegion(r, flushed) \/ FreeRegion(r, flushed)
    \/ \E id \in DmIds, page \in DmPages : DeviceWalks(id, page)

DmSpec == DmInit /\ [][DmNext]_dmVars

-----------------------------------------------------------------------------

\* Every variable keeps the type of the field it models.
DmTypeInv ==
    /\ dmEngine \in {"boot", "off", "on"} /\ dmPool \in Nat /\ dmLate \subseteq dmTlb
    /\ dmCtx \in [DmIds -> {"none", "pass", "host"}]
    /\ dmPte \in [DmPages -> 0 .. DmFrames] /\ dmTlb \subseteq DmPages \X (1 .. DmFrames)
    /\ \A i \in DOMAIN dmIova : dmIova[i] \in DmPages \X DmPages
    /\ DOMAIN dmRegion = DmRegions

DmMapped == {r \in DmHeld : dmRegion[r].mapped}
DmIovas(r) == DmCovers(dmRegion[r].iova, PagesOf(dmRegion[r].size))
DmFreeIovas == UNION {dmIova[i][1] .. dmIova[i][2] : i \in DOMAIN dmIova}

\* Every I/O page is free or belongs to exactly one mapped buffer, and no operation, failed
\* ones included, loses a page or hands one out twice (IovaAllocator, dma_map, dma_unmap).
IovasAccounted ==
    dmEngine = "on" =>
        /\ \A r, s \in DmMapped : r # s => DmIovas(r) \cap DmIovas(s) = {}
        /\ DmFreeIovas = DmPages \ UNION {DmIovas(r) : r \in DmMapped}

\* alloc looks at one interval at a time, so a run of free pages must be one interval: it fails
\* only when no run of that length is free, however buffers were mapped and unmapped before.
FreeRunsWhole ==
    \A n \in 1 .. DmTop, p \in DmPages :
        DmCovers(p, n) \subseteq DmFreeIovas => IovaFits(n) # {}

\* A device reaches through its I/O addresses exactly the frames of the buffers mapped for it,
\* when its driver names it by its bus address; pages of no buffer translate to nothing.
DeviceReachesBuffer ==
    dmEngine = "on" =>
        /\ \A r \in DmMapped : \A i \in 0 .. PagesOf(dmRegion[r].size) - 1 :
              /\ dmPte[dmRegion[r].iova + i] = dmRegion[r].phys + i
              /\ <<"sl0", (dmRegion[r].iova + i) \div 2>> \in dmTables
              /\ DmIdOf[DmOwner[r]] = DmOwner[r] => dmCtx[DmOwner[r]] = "host"
        /\ \A p \in DmPages : dmPte[p] # 0 => \E r \in DmMapped : p \in DmIovas(r)

\* A frame that went back to the allocator is no longer reachable by a translated device, not even
\* through a cached translation (free unmaps before it frees). The result of the invalidation is
\* not looked at, so a translation that was cached when one timed out, and that one only, leads to
\* the freed frame until the next invalidation that is carried out.
UnmappedUnreachable ==
    \A f \in DmFreeFrames, p \in DmPages :
        dmPte[p] # f /\ (<<p, f>> \in dmTlb => <<p, f>> \in dmLate)

(***************************************************************************)
(* VirtioGpu.  The VirtIO GPU driver: bring-up with frames held by guards, *)
(* the virtqueue with two descriptors per command and one command buffer   *)
(* for all of them, the commands that set up the display, and presents.    *)
(* Every wait is bounded, and the device may take a command long after the *)
(* driver stopped waiting for it.                                          *)
(***************************************************************************)

CONSTANTS
    VgQueue,    \* QUEUE_SIZE
    VgWidth,    \* number of values of the 16-bit ring indexes, a multiple of VgQueue
    VgMax       \* bound: commands submitted

ASSUME VgAssumption == VgQueue \in Nat \ {0, 1} /\ VgWidth % VgQueue = 0 /\ VgMax \in Nat

VARIABLES
    vgPc,       \* "cmd", "resp", "features", "desc", "avail", "used", "queue", "display", "run", "failed"
    vgHeld,     \* frames taken from the allocator: their purposes
    vgKnown,    \* frames the device was told of
    vgSub,      \* submit: "idle" or "wait"
    vgStep,     \* commands of init_display done
    vgBuf,      \* the command in the command buffer
    vgDesc,     \* descriptor chain head -> TRUE when it is filled
    vgNext,     \* next_desc
    vgAvail,    \* the avail ring: slot -> chain head
    vgAvailIdx, vgTaken, \* the driver's index and the device's place in it
    vgUsedIdx,  \* the used ring's index
    vgBefore,   \* the used index noted before the submit
    vgRan,      \* commands the device carried out, in order
    vgCount,    \* commands submitted
    vgOk,       \* the last submit was reported complete
    vgLate      \* history: a wait has timed out

vgRing == <<vgBuf, vgDesc, vgNext, vgAvail, vgAvailIdx, vgTaken, vgUsedIdx, vgBefore, vgRan>>
vgVars == <<vgPc, vgHeld, vgKnown, vgSub, vgStep, vgRing, vgCount, vgOk, vgLate>>

VgPlan == <<"info", "create", "attach", "scanout", "flush">>

VgInit ==
    /\ vgPc = "cmd" /\ vgHeld = {} /\ vgKnown = {} /\ vgSub = "idle" /\ vgStep = 0
    /\ vgBuf = "none" /\ vgDesc = [d \in 0 .. VgQueue - 1 |-> FALSE] /\ vgNext = 0
    /\ vgAvail = [i \in 0 .. VgQueue - 1 |-> 0] /\ vgAvailIdx = 0 /\ vgTaken = 0 /\ vgUsedIdx = 0 /\ vgBefore = 0
    /\ vgRan = <<>> /\ vgCount = 0 /\ vgOk = FALSE /\ vgLate = FALSE

(***************************************************************************)
(* init: each frame is in a guard that gives it back when a later step     *)
(* fails.                                                                  *)
(***************************************************************************)
VgThen == [cmd |-> "resp", resp |-> "features", desc |-> "avail", avail |-> "used", used |-> "queue"]

\* ContiguousFrameGuard::drop of every guard that is armed.
GuardsDropped == {}

AllocFrame ==
    /\ vgPc \in DOMAIN VgThen
    /\ \/ vgHeld' = vgHeld \cup {vgPc} /\ vgPc' = VgThen[vgPc]
       \/ vgHeld' = GuardsDropped /\ vgPc' = "failed"
    /\ UNCHANGED <<vgKnown, vgSub, vgStep, vgRing, vgCount, vgOk, vgLate>>

\* VirtioGpu::init: the device accepts the features or not.
Negotiate ==
    /\ vgPc = "features"
    /\ \/ vgPc' = "desc" /\ UNCHANGED vgHeld
       \/ vgPc' = "failed" /\ vgHeld' = GuardsDropped
    /\ UNCHANGED <<vgKnown, vgSub, vgStep, vgRing, vgCount, vgOk, vgLate>>

\* The guards are disarmed once the queue is set up.
Forget == vgHeld

\* setup_queue: the rings are zeroed and the device told of them.
SetupQueue ==
    /\ vgPc = "queue" /\ vgPc' = "display"
    /\ vgKnown' = {"desc", "avail", "used"} /\ vgHeld' = Forget
    /\ UNCHANGED <<vgSub, vgStep, vgRing, vgCount, vgOk, vgLate>>

(***************************************************************************)
(* Commands.                                                               *)
(***************************************************************************)
\* submit_gpu_cmd and submit_raw: the command is copied over the buffer, a chain is filled and put in
\* the avail ring, and the device notified.
NextDesc == (vgNext + 2) % VgQueue

SubmitCommand(cmd) ==
    /\ vgSub = "idle" /\ vgCount < VgMax
    /\ vgBuf' = cmd /\ vgBefore' = vgUsedIdx
    /\ vgDesc' = [vgDesc EXCEPT ![vgNext] = TRUE] /\ vgNext' = NextDesc
    /\ vgAvail' = [vgAvail EXCEPT ![vgAvailIdx % VgQueue] = vgNext]
    /\ vgAvailIdx' = (vgAvailIdx + 1) % VgWidth
    /\ vgKnown' = vgKnown \cup {"cmd", "resp"}
    /\ vgSub' = "wait" /\ vgOk' = FALSE /\ vgCount' = vgCount + 1
    /\ UNCHANGED <<vgPc, vgHeld, vgStep, vgTaken, vgUsedIdx, vgRan, vgLate>>

\* init_display's commands, one after the other, and a first flush.
Planned == VgPlan[vgStep + 1]
DisplayCommand == vgPc = "display" /\ SubmitCommand(Planned)

\* FramebufferManager::present.
Present == vgPc = "run" /\ SubmitCommand("flush")

\* current.wrapping_sub(last_used_idx) >= 1
UsedAdvanced == (vgUsedIdx - vgBefore) % VgWidth >= 1

\* After a command: init_display goes on, and stops at one that timed out; a flush may time out.
VgAfter(ok) ==
    /\ vgSub' = "idle" /\ vgOk' = ok
    /\ IF vgPc # "display" THEN UNCHANGED <<vgPc, vgStep>>
       ELSE IF ~ok /\ vgStep < 4 THEN vgPc' = "failed" /\ UNCHANGED vgStep
       ELSE vgStep' = vgStep + 1 /\ vgPc' = IF vgStep = 4 THEN "run" ELSE "display"
    /\ UNCHANGED <<vgHeld, vgKnown, vgRing, vgCount>>

WaitUsed == vgSub = "wait" /\ UsedAdvanced /\ VgAfter(TRUE) /\ UNCHANGED vgLate
WaitTimeout == vgSub = "wait" /\ ~UsedAdvanced /\ VgAfter(FALSE) /\ vgLate' = TRUE

\* The device takes the next chain and carries out what the command buffer holds by then.
DeviceRuns ==
    /\ vgTaken # vgAvailIdx /\ vgDesc[vgAvail[vgTaken % VgQueue]]
    /\ vgRan' = Append(vgRan, vgBuf)
    /\ vgTaken' = (vgTaken + 1) % VgWidth /\ vgUsedIdx' = (vgUsedIdx + 1) % VgWidth
    /\ UNCHANGED <<vgPc, vgHeld, vgKnown, vgSub, vgStep, vgBuf, vgDesc, vgNext, vgAvail, vgAvailIdx, vgBefore, vgCount, vgOk, vgLate>>

VgNext1 ==
    \/ AllocFrame \/ Negotiate \/ SetupQueue \/ DisplayCommand \/ Present
    \/ WaitUsed \/ WaitTimeout \/ DeviceRuns

(***************************************************************************)
(* Properties.                                                             *)
(***************************************************************************)
VgTypeInv ==
    /\ vgNext \in 0 .. VgQueue - 1 /\ {vgAvailIdx, vgTaken, vgUsedIdx} \subseteq 0 .. VgWidth - 1
    /\ vgSub \in {"idle", "wait"} /\ vgStep \in 0 .. 5 /\ vgCount \in 0 .. VgMax

\* The device is never left with the address of a frame that went back to the allocator, whichever
\* step of the bring-up fails.
DeviceMemoryHeld == vgKnown \subseteq vgHeld

VgSeen(c) == \E i \in DOMAIN vgRan : vgRan[i] = c
VgPlace(c) == CHOOSE i \in DOMAIN vgRan : vgRan[i] = c /\ \A j \in 1 .. i - 1 : vgRan[j] # c

\* The device shows only a resource that it has created and whose memory it knows, also when a
\* command of init_display times out and is carried out later.
ScanoutBacked ==
    VgSeen("scanout") =>
       /\ VgSeen("create") /\ VgPlace("create") < VgPlace("scanout")
       /\ VgSeen("attach") /\ VgPlace("attach") < VgPlace("scanout")

\* A command that is reported complete was carried out, across the wrap of the ring indexes. After
\* a timeout the used index may move for the chain of the command that was given up, but the chains
\* share the command buffer, so that this chain, too, ran the command reported. Without a timeout
\* every command ran once.
CompleteWasRun ==
    vgOk => /\ vgRan # <<>> /\ vgRan[Len(vgRan)] = vgBuf
            /\ ~vgLate => Len(vgRan) = vgCount

--------------------------------------------------------------------------------
\* What the PCI scan placed, what the IOMMU maps and what the GPU was given stay consistent through
\* every sequence of calls and failures.
PciSound ==
    /\ PsTypeInv /\ ScanFindsAll /\ PlacedApart /\ LiveBarsKept
    /\ DmTypeInv /\ IovasAccounted /\ FreeRunsWhole /\ DeviceReachesBuffer /\ UnmappedUnreachable
    /\ VgTypeInv /\ DeviceMemoryHeld /\ ScanoutBacked /\ CompleteWasRun
================================================================================
