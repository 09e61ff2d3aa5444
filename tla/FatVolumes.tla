------------------------------ MODULE FatVolumes -------------------------------
(***************************************************************************)
(* FAT and exFAT volumes (genome fat): the buffered device under an exFAT  *)
(* volume, the files of a mounted volume, the choice of the partition, and *)
(* the copy, move and remove operations of genome's Vfs above them. The    *)
(* four parts share no state.                                              *)
(***************************************************************************)
EXTENDS Integers, Sequences, FiniteSets

(***************************************************************************)
(* ExFatDevice.  ExFatDevice (genome fat/exfat.rs): the byte stream that   *)
(* the exFAT library reads and writes, over the sectors of a block device  *)
(* and a small cache of single sectors that never evicts.  A sector is two *)
(* units, so that positions and lengths can be unaligned and a write of    *)
(* part of a sector is a read, a change and a write.  Each turn of the     *)
(* loops of read and write is a step; the lock of the device is held over  *)
(* all of them, so that the clones of the stream (one per open file) never *)
(* interleave within a call.                                               *)
(***************************************************************************)

CONSTANTS
    ExSectors,      \* sectors of the device
    ExValue,        \* contents of a unit
    ExCapacity,     \* METADATA_CACHE_SECTORS
    ExChunk         \* MAX_CONTIGUOUS_IO_SECTORS

ASSUME ExAssumption ==
    /\ ExSectors \in Nat \ {0} /\ ExCapacity \in Nat /\ ExChunk \in Nat \ {0}
    /\ ExValue # {}

Unit == 2                               \* units of a sector
ExSize == Unit * ExSectors              \* ExFatDevice::size
ExLbas == 0 .. ExSectors - 1
UnitsOf(lba, count) == Unit * lba .. Unit * (lba + count) - 1
ExZero == CHOOSE v \in ExValue : TRUE
NoIo == [kind |-> "none", pos |-> 0, len |-> 0, done |-> 0, new |-> ExZero]

VARIABLES
    exMedium,       \* units on the device
    exCached,       \* the sectors in the MetadataCache
    exCopy,         \* what it holds for them
    exTorn,         \* cached sectors that a failed write of the device may have changed
    exPos,          \* ExFatDevice::position
    exIo            \* the read or write in progress

exVars == <<exMedium, exCached, exCopy, exTorn, exPos, exIo>>

ExTypeInv ==
    /\ exMedium \in [0 .. ExSize - 1 -> ExValue]
    /\ exCached \subseteq ExLbas
    /\ exCopy \in [0 .. ExSize - 1 -> ExValue]
    /\ exTorn \subseteq ExLbas
    /\ exPos \in 0 .. ExSize
    /\ exIo \in [kind : {"none", "read", "write"}, pos : 0 .. ExSize, len : 0 .. ExSize,
                 done : 0 .. ExSize, new : ExValue]

ExInit ==
    /\ exMedium \in [0 .. ExSize - 1 -> ExValue]
    /\ exCached = {} /\ exTorn = {}
    /\ exCopy = [u \in 0 .. ExSize - 1 |-> ExZero]
    /\ exPos = 0
    /\ exIo = NoIo

\* Seek: positions outside the device are refused and change nothing.
ExSeek(to) ==
    /\ exIo.kind = "none" /\ to \in 0 .. ExSize
    /\ exPos' = to
    /\ UNCHANGED <<exMedium, exCached, exCopy, exTorn, exIo>>

\* read and write cut their length at the end of the device.
ExBegin(kind, len, new) ==
    /\ exIo.kind = "none"
    /\ LET room == ExSize - exPos
       IN exIo' = [kind |-> kind, pos |-> exPos, len |-> IF len < room THEN len ELSE room,
                   done |-> 0, new |-> new]
    /\ UNCHANGED <<exMedium, exCached, exCopy, exTorn, exPos>>

ExAt == exIo.pos + exIo.done
ExLba == ExAt \div Unit
ExLeft == exIo.len - exIo.done
Aligned == ExAt % Unit = 0 /\ ExLeft >= Unit
Fewer(a, b) == IF a < b THEN a ELSE b
\* The sectors of this turn, and its units: whole sectors, or a part of one.
ExCount == IF Aligned THEN Fewer(ExLeft \div Unit, ExChunk) ELSE 1
TurnLen == IF Aligned THEN Unit * ExCount ELSE Fewer(Unit - (ExAt % Unit), ExLeft)
TurnUnits == ExAt .. ExAt + TurnLen - 1
TurnSectors == ExLba .. ExLba + ExCount - 1

\* read_cached takes a single sector from the cache, and keeps one that it read
\* while there is room; several sectors are read past the cache.
Hit == ExCount = 1 /\ ExLba \in exCached
Keeps == ExCount = 1 /\ ExLba \notin exCached /\ Cardinality(exCached) < ExCapacity
CachedNow == IF Keeps THEN exCached \cup {ExLba} ELSE exCached
CopyNow == [u \in DOMAIN exCopy |-> IF Keeps /\ u \in UnitsOf(ExLba, 1)
                                      THEN exMedium[u] ELSE exCopy[u]]

Turn == exIo.done < exIo.len
Abort == exIo' = NoIo /\ UNCHANGED exPos
Advance == exIo' = [exIo EXCEPT !.done = @ + TurnLen] /\ UNCHANGED exPos

ReadTurn ==
    /\ exIo.kind = "read" /\ Turn
    /\ \/ Advance /\ exCached' = CachedNow /\ exCopy' = CopyNow
       \/ ~Hit /\ Abort /\ UNCHANGED <<exCached, exCopy>>
    /\ UNCHANGED <<exMedium, exTorn>>

\* The sectors that the turn hands to write_cached: the new units, around them
\* what read_cached returned.
Image == [u \in UnitsOf(ExLba, ExCount) |->
             IF u \in TurnUnits THEN exIo.new
             ELSE IF Hit THEN exCopy[u] ELSE exMedium[u]]

\* Mutated form of PutThrough: the cached sectors are not brought up to date.
PutThroughStale(cached, copy, image) ==
    /\ exMedium' = [u \in DOMAIN exMedium |-> IF u \in DOMAIN image THEN image[u] ELSE exMedium[u]]
    /\ exCopy' = copy
    /\ exCached' = cached
    /\ exTorn' = exTorn \ TurnSectors
    /\ Advance

\* write_cached: the device first, then the cached sectors of the range.  When
\* the device fails it has written the first n sectors and the cache is as before.
PutThrough(cached, copy, image) ==
    /\ exMedium' = [u \in DOMAIN exMedium |-> IF u \in DOMAIN image THEN image[u] ELSE exMedium[u]]
    /\ exCopy' = [u \in DOMAIN exCopy |-> IF u \in DOMAIN image /\ u \div Unit \in cached
                                            THEN image[u] ELSE copy[u]]
    /\ exCached' = cached
    /\ exTorn' = exTorn \ TurnSectors
    /\ Advance

PutFails(cached, copy, image) ==
    /\ \E n \in 0 .. ExCount :
          exMedium' = [u \in DOMAIN exMedium |-> IF u \in UnitsOf(ExLba, n) THEN image[u] ELSE exMedium[u]]
    /\ exCopy' = copy
    /\ exCached' = cached
    /\ exTorn' = exTorn \cup (TurnSectors \cap cached)
    /\ Abort

\* Whole sectors are written as they are, a part of one after read_cached.
WriteTurn ==
    /\ exIo.kind = "write" /\ Turn
    /\ IF Aligned
         THEN \/ PutThrough(exCached, exCopy, Image)
              \/ PutFails(exCached, exCopy, Image)
         ELSE \/ PutThrough(CachedNow, CopyNow, Image)
              \/ PutFails(CachedNow, CopyNow, Image)
              \/ ~Hit /\ Abort /\ UNCHANGED <<exMedium, exCached, exCopy, exTorn>>

ExEnd ==
    /\ exIo.kind # "none" /\ ~Turn
    /\ exPos' = exIo.pos + exIo.done
    /\ exIo' = NoIo
    /\ UNCHANGED <<exMedium, exCached, exCopy, exTorn>>

ExNext ==
    \/ \E to \in 0 .. ExSize : ExSeek(to)
    \/ \E len \in 0 .. ExSize : ExBegin("read", len, ExZero)
    \/ \E len \in 0 .. ExSize, new \in ExValue : ExBegin("write", len, new)
    \/ ReadTurn
    \/ WriteTurn
    \/ ExEnd

ExSpec == ExInit /\ [][ExNext]_exVars

-----------------------------------------------------------------------------

\* A sector of the metadata cache differs from the device only after a write of
\* it failed: write_cached changes the cache after the device, and several
\* sectors are read past it.
MetadataCoherent ==
    \A u \in DOMAIN exCopy :
        u \div Unit \in exCached \ exTorn => exCopy[u] = exMedium[u]

\* Writing part of a sector keeps the rest of it: what the read of read-modify-
\* write returned is what the device holds, unless an earlier write failed there.
WritesKeepNeighbours ==
    [\A u \in DOMAIN exMedium :
          exMedium'[u] # exMedium[u] => u \in TurnUnits \/ u \div Unit \in exTorn]_exVars

(***************************************************************************)
(* FatFiles.  The two filesystems of removable media, FatFileSystem        *)
(* (genome fat/fat32.rs) and ExFatFileSystem (fat/exfat.rs): their tables  *)
(* of open files and the cached listing of a directory.  One directory     *)
(* stands for all; a file is the size in its directory entry.  What the    *)
(* libraries do below (fatfs, hadris_fat) succeeds or fails as they like.  *)
(* FAT32 opens the path again for each read and write and updates the      *)
(* entry at once; exFAT keeps a reader and a writer per handle, and the    *)
(* entry changes when the writer is finished.  Every call has the          *)
(* filesystem to itself.                                                   *)
(***************************************************************************)

CONSTANTS
    FvNames,        \* names in the directory
    FvFdMod,        \* 2^32: next_fd is a u32
    FvMaxSize       \* bound: size of a file

ASSUME FvAssumption == FvFdMod \in Nat \ {0, 1} /\ FvMaxSize \in Nat

NoEntry == -1
NoList == [n \in {} |-> 0]
FvSizes == 0 .. FvMaxSize

VARIABLES
    fvKind,         \* "fat32" or "exfat"
    fvDir,          \* the directory entries on the medium: a size, or NoEntry
    fvList,         \* root_cache, dir_cache
    fvHandles,      \* handles
    fvNext          \* next_fd

fvVars == <<fvKind, fvDir, fvList, fvHandles, fvNext>>

Handles == [fd : 0 .. FvFdMod - 1, name : FvNames, offset : FvSizes,
            reader : FvSizes, writer : BOOLEAN, written : FvSizes]

FvTypeInv ==
    /\ fvKind \in {"fat32", "exfat"}
    /\ fvDir \in [FvNames -> FvSizes \cup {NoEntry}]
    /\ fvList \in {NoList} \cup [FvNames -> FvSizes \cup {NoEntry}]
    /\ fvHandles \subseteq Handles
    /\ fvNext \in 0 .. FvFdMod - 1

FvInit ==
    /\ fvKind \in {"fat32", "exfat"}
    /\ fvDir \in [FvNames -> {0, NoEntry}]
    /\ fvList = NoList
    /\ fvHandles = {}
    /\ fvNext = 1

ExFat == fvKind = "exfat"
FdFree(fd) == \A h \in fvHandles : h.fd # fd
Change(h, new) == fvHandles' = (fvHandles \ {h}) \cup {new}
Invalidate == fvList' = NoList

\* ExFatFileSystem::next_descriptor skips 0 and the numbers in use.
NextFd == CHOOSE fd \in 1 .. FvFdMod - 1 :
             /\ FdFree(fd)
             /\ \A g \in 1 .. FvFdMod - 1 : FdFree(g) =>
                   (fd - fvNext + FvFdMod) % FvFdMod <= (g - fvNext + FvFdMod) % FvFdMod

\* open.  FAT32 counts up and does not get to the end of its numbers.
FvOpen(n) ==
    /\ fvDir[n] # NoEntry
    /\ IF ExFat THEN \E fd \in 1 .. FvFdMod - 1 : FdFree(fd) ELSE fvNext < FvFdMod - 1
    /\ LET fd == IF ExFat THEN NextFd ELSE fvNext
       IN /\ fvHandles' = fvHandles \cup {[fd |-> fd, name |-> n, offset |-> 0, reader |-> 0,
                                           writer |-> FALSE, written |-> 0]}
          /\ fvNext' = (fd + 1) % FvFdMod
    /\ UNCHANGED <<fvKind, fvDir, fvList>>

\* read of len bytes: refused by exFAT once the handle writes, at most to the end.
FvRead(h, len) ==
    /\ ~h.writer
    /\ ~ExFat => fvDir[h.name] # NoEntry
    /\ h.offset + len <= FvMaxSize
    /\ Change(h, [h EXCEPT !.offset = @ + len, !.reader = IF ExFat THEN @ + len ELSE h.offset + len])
    /\ UNCHANGED <<fvKind, fvDir, fvList, fvNext>>

\* write of FAT32: the listing is dropped first, whatever happens then.
FatWrite(h, len) ==
    /\ ~ExFat
    /\ Invalidate
    /\ \/ /\ fvDir[h.name] # NoEntry
          /\ h.offset + len <= FvMaxSize
          /\ Change(h, [h EXCEPT !.offset = @ + len, !.reader = h.offset + len])
          /\ fvDir' = [fvDir EXCEPT ![h.name] = IF @ < h.offset + len THEN h.offset + len ELSE @]
       \/ UNCHANGED <<fvHandles, fvDir>>
    /\ UNCHANGED <<fvKind, fvNext>>

\* write of exFAT: the first one makes the writer, and only from the start.
ExWrite(h, len) ==
    /\ ExFat /\ len > 0
    /\ Invalidate
    /\ \/ /\ h.writer \/ h.offset = 0
          /\ h.offset + len <= FvMaxSize
          /\ \/ Change(h, [h EXCEPT !.writer = TRUE, !.written = @ + len, !.offset = @ + len])
             \/ Change(h, [h EXCEPT !.writer = TRUE])
       \/ /\ ~h.writer
          /\ UNCHANGED fvHandles
    /\ UNCHANGED <<fvKind, fvDir, fvNext>>

\* close: the writer is finished, which writes the directory entry or fails.
Finish(h) ==
    /\ Invalidate
    /\ \/ fvDir' = [fvDir EXCEPT ![h.name] = IF @ = NoEntry THEN @ ELSE h.written]
       \/ UNCHANGED fvDir

FvClose(h) ==
    /\ fvHandles' = fvHandles \ {h}
    /\ IF h.writer THEN Finish(h) ELSE UNCHANGED <<fvDir, fvList>>
    /\ UNCHANGED <<fvKind, fvNext>>

\* seek of exFAT refuses to move a handle that writes.
SeekAllowed(h, to) == h.writer => to = h.offset

FvSeek(h, to) ==
    /\ SeekAllowed(h, to)
    /\ Change(h, [h EXCEPT !.offset = to, !.reader = to])
    /\ UNCHANGED <<fvKind, fvDir, fvList, fvNext>>

\* create and mkdir make an entry, unlink removes one, with files open or not.
FvCreate(n) ==
    /\ Invalidate
    /\ fvDir' = IF fvDir[n] = NoEntry THEN [fvDir EXCEPT ![n] = 0] ELSE fvDir
    /\ UNCHANGED <<fvKind, fvHandles, fvNext>>

FvUnlink(n) ==
    /\ Invalidate
    /\ fvDir' \in {[fvDir EXCEPT ![n] = NoEntry], fvDir}
    /\ UNCHANGED <<fvKind, fvHandles, fvNext>>

\* readdir, and size of FAT32, which looks its file up in the listing.
FvReaddir ==
    /\ fvList' = IF fvList = NoList THEN fvDir ELSE fvList
    /\ UNCHANGED <<fvKind, fvDir, fvHandles, fvNext>>

\* Drop finishes the writers that are left; the volume is then mounted again.
FvUnmount ==
    /\ fvHandles' = {} /\ fvNext' = 1
    /\ Invalidate
    /\ fvDir' \in [FvNames -> FvSizes \cup {NoEntry}]
    /\ \A n \in FvNames :
          \/ fvDir'[n] = fvDir[n]
          \/ /\ fvDir[n] # NoEntry
             /\ \E h \in fvHandles : h.name = n /\ h.writer /\ fvDir'[n] = h.written
    /\ UNCHANGED fvKind

FvNextStep ==
    \/ \E n \in FvNames : FvOpen(n) \/ FvCreate(n) \/ FvUnlink(n)
    \/ \E h \in fvHandles :
          \/ \E len \in FvSizes : FvRead(h, len) \/ FatWrite(h, len) \/ ExWrite(h, len)
          \/ \E to \in FvSizes : FvSeek(h, to)
          \/ FvClose(h)
    \/ FvReaddir
    \/ FvUnmount

FvSpec == FvInit /\ [][FvNextStep]_fvVars

-----------------------------------------------------------------------------

\* A cached listing shows every file with the size it has: each operation that
\* changes an entry, the delayed finish of an exFAT writer included, drops it.
ListingFresh == fvList = NoList \/ fvList = fvDir

\* No two open files of a volume have the same descriptor, also after the
\* numbers of exFAT came round.
FvFdsUnique == \A h, k \in fvHandles : h.fd = k.fd => h = k

\* The position a program sees is the position at which the library continues:
\* that of the writer once there is one, that of the reader before.
PositionsAgree == \A h \in fvHandles : h.offset = IF h.writer THEN h.written ELSE h.reader

(***************************************************************************)
(* FatMount.  mount_device (genome fat/mod.rs): find_fat_partition reads   *)
(* the first sector and picks the volume, the boot sector of the volume    *)
(* decides between exFAT and FAT, and PartitionBlockDevice                 *)
(* (fat/partition.rs) keeps the requests of the filesystem inside the      *)
(* volume.  The medium is what is written in its first sector: a raw       *)
(* volume, nothing known, or a partition table.  Every read of the device  *)
(* may fail.                                                               *)
(***************************************************************************)

CONSTANTS
    PmSectors,      \* sectors of the device
    PmEntries,      \* entries of the partition table: 4
    PmParts         \* partition entries: whether of a FAT type, start, count

ASSUME PmAssumption ==
    /\ PmSectors \in Nat /\ PmEntries \in Nat
    /\ \A p \in PmParts : p.fat \in BOOLEAN /\ p.start \in Nat /\ p.count \in Nat

NoPart == [start |-> 0, count |-> -1]
Unmounted == [state |-> "none", start |-> 0, count |-> 0]

VARIABLES
    pmBoot,         \* what the first sector holds
    pmTable,        \* its partition table
    pmHolder,       \* who owns the device: the caller, the filesystem, or nobody any more
    pmVolume,       \* the mounted volume: its first sector and number of sectors
    pmTouched       \* the sectors of the device that its requests reached

pmVars == <<pmBoot, pmTable, pmHolder, pmVolume, pmTouched>>

PmTypeInv ==
    /\ pmBoot \in {"exfat", "fat", "unknown", "mbr"}
    /\ pmTable \in [1 .. PmEntries -> PmParts]
    /\ pmHolder \in {"caller", "filesystem", "dropped"}
    /\ pmVolume.state \in {"none", "exfat", "fat"}
    /\ pmTouched \subseteq 0 .. PmSectors - 1

PmInit ==
    /\ pmBoot \in {"exfat", "fat", "unknown", "mbr"}
    /\ pmTable \in [1 .. PmEntries -> PmParts]
    /\ pmBoot # "mbr" => \A i, j \in 1 .. PmEntries : pmTable[i] = pmTable[j]
    /\ pmHolder = "caller"
    /\ pmVolume = Unmounted
    /\ pmTouched = {}

\* The loop of find_fat_partition over the entries of the table: a larger
\* partition of a FAT type replaces the best one so far.
Better(p, best) == p.fat /\ p.count > best.count

Best[i \in 0 .. PmEntries] ==
    IF i = 0 THEN NoPart
    ELSE IF Better(pmTable[i], Best[i - 1])
           THEN [start |-> pmTable[i].start, count |-> pmTable[i].count]
           ELSE Best[i - 1]

Chosen == IF pmBoot = "mbr" THEN Best[PmEntries] ELSE [start |-> 0, count |-> PmSectors]

\* mount_device.  A volume that starts at sector 0 is the whole device.  The
\* device goes back to the caller when the search or exFAT fails; FAT32 keeps it.
MountDevice ==
    /\ pmHolder = "caller"
    /\ \/ /\ Chosen # NoPart /\ Chosen.start < PmSectors
          /\ \E fs \in {"exfat", "fat"} :
                \/ /\ pmVolume' = [state |-> fs, start |-> Chosen.start,
                                   count |-> IF Chosen.start = 0 THEN PmSectors ELSE Chosen.count]
                   /\ pmHolder' = "filesystem"
                \/ /\ pmHolder' = IF fs = "exfat" THEN "caller" ELSE "dropped"
                   /\ UNCHANGED pmVolume
       \/ UNCHANGED <<pmHolder, pmVolume>>
    /\ UNCHANGED <<pmBoot, pmTable, pmTouched>>

\* PartitionBlockDevice::absolute_lba accepts a request: it stays in the volume
\* and on the device.  The whole device is not wrapped and checks itself.
AbsoluteLba(lba, count) ==
    /\ lba + count <= pmVolume.count
    /\ pmVolume.start + lba + count <= PmSectors

\* read_sectors or write_sectors of the filesystem.
VolumeIo(lba, count) ==
    /\ pmVolume.state # "none"
    /\ AbsoluteLba(lba, count)
    /\ pmTouched' = pmTouched \cup (pmVolume.start + lba .. pmVolume.start + lba + count - 1)
    /\ UNCHANGED <<pmBoot, pmTable, pmHolder, pmVolume>>

\* The filesystem is unmounted, which drops the proxy of the device.
PmUnmount ==
    /\ pmVolume.state # "none"
    /\ pmVolume' = Unmounted /\ pmHolder' = "caller" /\ pmTouched' = {}
    /\ UNCHANGED <<pmBoot, pmTable>>

PmNext ==
    \/ MountDevice
    \/ \E lba \in 0 .. PmSectors, count \in 0 .. PmSectors : VolumeIo(lba, count)
    \/ PmUnmount

PmSpec == PmInit /\ [][PmNext]_pmVars

-----------------------------------------------------------------------------

FatParts == {i \in 1 .. PmEntries : pmTable[i].fat}

\* The volume of a partitioned medium is its largest FAT partition, the first
\* of those as large.
LargestPartition ==
    pmVolume.state # "none" /\ pmBoot = "mbr" /\ pmVolume.start # 0 =>
        \E i \in FatParts :
            /\ pmVolume.start = pmTable[i].start /\ pmVolume.count = pmTable[i].count
            /\ \A j \in FatParts : \/ pmTable[j].count < pmTable[i].count
                                   \/ pmTable[j].count = pmTable[i].count /\ i <= j

\* Whatever sectors a filesystem asks for, it reaches no sector outside its
\* partition, so that the other partitions and the table stay as they are.
InsidePartition ==
    pmVolume.state # "none" =>
        pmTouched \subseteq pmVolume.start .. pmVolume.start + pmVolume.count - 1

(***************************************************************************)
(* VfsFiles.  The operations of contexts/vfs.rs that take several steps:   *)
(* replace_file, copy_path and move_path over the files of MemFileSystem   *)
(* (genome/src/vfs.rs).  Every step can fail, and a write can be partial.  *)
(* The free function copy_path takes the kernel lock anew for every step,  *)
(* so other users of the VFS come in between; the others hold it to the    *)
(* end.                                                                    *)
(***************************************************************************)

CONSTANTS
    VfPaths,    \* the paths of files
    VfFiles,    \* the files at boot, a sequence of [path, data]; the index is the inode
    VfJobs,     \* operations: kind, pairs of paths <<from, to>>, data (replace only)
    VfChunk,    \* size of the copy buffer, 4096 in the code
    VfInodes    \* bound: inodes over time

ASSUME VfAssumption == VfChunk \in Nat \ {0} /\ VfInodes \in Nat

VARIABLES
    vfDir,      \* path -> inode, 0 for none
    vfData,     \* inode -> contents, VfNoFile for an inode that is not there
    vfNextIno,  \* next_ino
    vfFds,      \* the descriptors the operation holds: role -> [ino, off]
    vfOp,       \* the operation in progress
    vfTouched   \* another user has changed a file since it began

vfVars == <<vfDir, vfData, vfNextIno, vfFds, vfOp, vfTouched>>

VfNoFile == <<-1>>
VfNoFd == [ino |-> 0, off |-> 0]
VfNoOp == [kind |-> "none", pairs |-> <<>>, at |-> 1, pc |-> "idle",
         buf |-> <<>>, ok |-> TRUE, want |-> <<>>]
VfSteps == {"idle", "open", "exists", "unlink", "create", "read", "write", "close", "remove", "done"}

VfContents(path) == IF vfDir[path] = 0 THEN VfNoFile ELSE vfData[vfDir[path]]

VfInit ==
    /\ vfDir = [p \in VfPaths |->
         IF \E i \in DOMAIN VfFiles : VfFiles[i].path = p
         THEN CHOOSE i \in DOMAIN VfFiles : VfFiles[i].path = p ELSE 0]
    /\ vfData = [i \in 1 .. VfInodes |-> IF i \in DOMAIN VfFiles THEN VfFiles[i].data ELSE VfNoFile]
    /\ vfNextIno = Len(VfFiles) + 1
    /\ vfFds = [src |-> VfNoFd, dst |-> VfNoFd]
    /\ vfOp = VfNoOp /\ vfTouched = FALSE

--------------------------------------------------------------------------------
(* MemFileSystem. *)

\* unlink: the entry and the inode go; a descriptor that is still open reads FileNotFound.
MemUnlink(p) ==
    /\ vfDir' = [vfDir EXCEPT ![p] = 0]
    /\ vfData' = [vfData EXCEPT ![vfDir[p]] = VfNoFile]

\* create makes an empty file, or opens the one that is there as it is.
MemCreate(p) ==
    IF vfDir[p] # 0 THEN UNCHANGED <<vfDir, vfData, vfNextIno>>
    ELSE /\ vfNextIno <= VfInodes
         /\ vfDir' = [vfDir EXCEPT ![p] = vfNextIno]
         /\ vfData' = [vfData EXCEPT ![vfNextIno] = <<>>]
         /\ vfNextIno' = vfNextIno + 1

\* read: what the file has from the descriptor's offset, at most the buffer.
MemRead(f) ==
    LET d == vfData[f.ino]
        end == IF f.off + VfChunk < Len(d) THEN f.off + VfChunk ELSE Len(d)
    IN SubSeq(d, f.off + 1, end)

\* write: the bytes replace what is at the offset and extend the file.
MemWritten(f, bytes) ==
    LET d == vfData[f.ino]
        n == f.off + Len(bytes)
    IN [i \in 1 .. (IF n > Len(d) THEN n ELSE Len(d)) |->
            IF i > f.off /\ i <= n THEN bytes[i - f.off] ELSE d[i]]

--------------------------------------------------------------------------------
(* The operations of VfsContext. *)

VfFrom == vfOp.pairs[vfOp.at][1]
VfTo == vfOp.pairs[vfOp.at][2]

\* The operation stops here with an error: `?`, after it has closed what it opened.
VfFails(op) == [op EXCEPT !.ok = FALSE, !.pc = "close"]

\* A file: open the source.  A directory: mkdir the destination, then its entries.
VfBegin ==
    /\ vfOp.pc = "idle"
    /\ \E j \in VfJobs :
        /\ Len(j.pairs) > 1 => \A i \in DOMAIN j.pairs : vfDir[j.pairs[i][2]] = 0
        /\ vfOp' = [kind |-> j.kind, pairs |-> j.pairs, at |-> 1,
                    pc |-> IF j.kind = "replace" THEN "exists" ELSE "open",
                    buf |-> IF j.kind = "replace" THEN j.data ELSE <<>>, ok |-> TRUE,
                    want |-> IF j.kind = "replace" THEN <<j.data>>
                             ELSE [i \in DOMAIN j.pairs |-> VfContents(j.pairs[i][1])]]
        /\ j.kind # "replace" => \A i \in DOMAIN j.pairs : vfDir[j.pairs[i][1]] # 0
    /\ vfTouched' = FALSE
    /\ UNCHANGED <<vfDir, vfData, vfNextIno, vfFds>>

\* open(source): FileNotFound when another user has removed it.
VfOpenSource ==
    /\ vfOp.pc = "open"
    /\ IF vfDir[VfFrom] = 0 THEN vfOp' = VfFails(vfOp) /\ UNCHANGED vfFds
       ELSE /\ vfFds' = [vfFds EXCEPT !.src = [ino |-> vfDir[VfFrom], off |-> 0]]
            /\ vfOp' = [vfOp EXCEPT !.pc = "exists"]
    /\ UNCHANGED <<vfDir, vfData, vfNextIno, vfTouched>>

VfCheckExists ==
    /\ vfOp.pc = "exists"
    /\ vfOp' = [vfOp EXCEPT !.pc = IF vfDir[VfTo] # 0 THEN "unlink" ELSE "create"]
    /\ UNCHANGED <<vfDir, vfData, vfNextIno, vfFds, vfTouched>>

\* The old file goes; it may be gone already, and the file system may refuse.
VfUnlinkOld ==
    /\ vfOp.pc = "unlink"
    /\ \/ vfDir[VfTo] # 0 /\ MemUnlink(VfTo) /\ vfOp' = [vfOp EXCEPT !.pc = "create"]
       \/ vfOp' = VfFails(vfOp) /\ UNCHANGED <<vfDir, vfData>>
    /\ UNCHANGED <<vfNextIno, vfFds, vfTouched>>

\* create(destination) fails when the file system or the handle table is full.
VfCreateFails ==
    /\ vfOp.pc = "create"
    /\ vfOp' = VfFails(vfOp)
    /\ UNCHANGED <<vfDir, vfData, vfNextIno, vfFds, vfTouched>>

VfCreateWorks ==
    /\ vfOp.pc = "create" /\ MemCreate(VfTo)
    /\ vfFds' = [vfFds EXCEPT !.dst = [ino |-> vfDir'[VfTo], off |-> 0]]
    /\ vfOp' = [vfOp EXCEPT !.pc = IF vfOp.kind = "replace" THEN "write" ELSE "read"]
    /\ UNCHANGED vfTouched

\* One turn of the copy loop reads a buffer; nothing read ends it.
VfReadChunk ==
    /\ vfOp.pc = "read"
    /\ LET f == vfFds.src
       IN \/ /\ vfData[f.ino] # VfNoFile /\ MemRead(f) # <<>>
             /\ vfOp' = [vfOp EXCEPT !.pc = "write", !.buf = MemRead(f)]
             /\ vfFds' = [vfFds EXCEPT !.src.off = f.off + Len(MemRead(f))]
          \/ /\ vfData[f.ino] # VfNoFile /\ MemRead(f) = <<>>
             /\ vfOp' = [vfOp EXCEPT !.pc = "close"] /\ UNCHANGED vfFds
          \/ vfOp' = VfFails(vfOp) /\ UNCHANGED vfFds
    /\ UNCHANGED <<vfDir, vfData, vfNextIno, vfTouched>>

\* write_all: goes on with what a partial write has left.
VfLeft(buf, n) == SubSeq(buf, n + 1, Len(buf))

VfWriteAllTurn ==
    /\ vfOp.pc = "write"
    /\ LET f == vfFds.dst
           after == IF vfOp.kind = "replace" THEN "close" ELSE "read"
       IN \/ /\ vfOp.buf = <<>> /\ vfOp' = [vfOp EXCEPT !.pc = after]
             /\ UNCHANGED <<vfData, vfFds>>
          \/ /\ vfOp.buf # <<>> /\ vfData[f.ino] # VfNoFile
             /\ \E n \in 1 .. Len(vfOp.buf) :
                  /\ vfData' = [vfData EXCEPT ![f.ino] = MemWritten(f, SubSeq(vfOp.buf, 1, n))]
                  /\ vfFds' = [vfFds EXCEPT !.dst.off = f.off + n]
                  /\ vfOp' = [vfOp EXCEPT !.buf = VfLeft(vfOp.buf, n)]
          \/ /\ vfOp.buf # <<>> \* an error, or Ok(0)
             /\ vfOp' = VfFails(vfOp) /\ UNCHANGED <<vfData, vfFds>>
    /\ UNCHANGED <<vfDir, vfNextIno, vfTouched>>

\* Mutated form of VfAfterClose: a move removes its source also after a failed copy.
VfAfterCloseMoves(op) ==
    IF op.ok /\ op.at < Len(op.pairs) THEN "open"
    ELSE IF op.kind = "move" THEN "remove" ELSE "done"

\* What follows the closes: the next entry of the directory, the removal, or the end.
VfAfterClose(op) ==
    IF ~op.ok THEN "done"
    ELSE IF op.at < Len(op.pairs) THEN "open"
    ELSE IF op.kind = "move" THEN "remove" ELSE "done"

VfCloseBoth ==
    /\ vfOp.pc = "close"
    /\ vfFds' = [src |-> VfNoFd, dst |-> VfNoFd]
    /\ LET next == VfAfterClose(vfOp)
       IN vfOp' = [vfOp EXCEPT !.pc = next, !.buf = <<>>,
                               !.at = IF next = "open" THEN vfOp.at + 1
                                      ELSE IF next = "remove" THEN 1 ELSE vfOp.at]
    /\ UNCHANGED <<vfDir, vfData, vfNextIno, vfTouched>>

\* remove_path of the source, an entry at a time; an error ends it.
VfRemoveSource ==
    /\ vfOp.pc = "remove"
    /\ \/ /\ vfDir[VfFrom] # 0 /\ MemUnlink(VfFrom)
          /\ vfOp' = IF vfOp.at < Len(vfOp.pairs) THEN [vfOp EXCEPT !.at = vfOp.at + 1]
                     ELSE [vfOp EXCEPT !.pc = "done"]
       \/ /\ vfOp' = [vfOp EXCEPT !.ok = FALSE, !.pc = "done"]
          /\ UNCHANGED <<vfDir, vfData>>
    /\ UNCHANGED <<vfNextIno, vfFds, vfTouched>>

VfReturn ==
    /\ vfOp.pc = "done" /\ vfOp' = VfNoOp
    /\ UNCHANGED <<vfDir, vfData, vfNextIno, vfFds, vfTouched>>

\* Another user, when the lock is free: a write to a file, or its removal.
VfOtherUser ==
    /\ vfOp.kind = "copy" /\ vfOp.pc # "done" /\ ~vfTouched
    /\ \E p \in VfPaths :
        /\ vfDir[p] # 0
        /\ \/ /\ vfData' = [vfData EXCEPT ![vfDir[p]] = MemWritten([ino |-> vfDir[p], off |-> 0], <<0>>)]
              /\ UNCHANGED vfDir
           \/ MemUnlink(p)
    /\ vfTouched' = TRUE
    /\ UNCHANGED <<vfNextIno, vfFds, vfOp>>

VfNext ==
    \/ VfBegin \/ VfOpenSource \/ VfCheckExists \/ VfUnlinkOld \/ VfCreateFails
    \/ VfCreateWorks \/ VfReadChunk
    \/ VfWriteAllTurn \/ VfCloseBoth \/ VfRemoveSource \/ VfReturn \/ VfOtherUser

VfSpec == VfInit /\ [][VfNext]_vfVars

--------------------------------------------------------------------------------
VfTypeInv ==
    /\ vfDir \in [VfPaths -> 0 .. VfInodes]
    /\ DOMAIN vfData = 1 .. VfInodes
    /\ vfNextIno \in 1 .. VfInodes + 1
    /\ \A r \in {"src", "dst"} : vfFds[r].ino \in 0 .. VfInodes /\ vfFds[r].off \in Nat
    /\ vfOp.pc \in VfSteps /\ vfOp.ok \in BOOLEAN /\ vfTouched \in BOOLEAN

\* Whatever step of copy_path, move_path or replace_file fails, both descriptors are
\* closed by the time the operation returns (contexts/vfs.rs, the error paths of the loop).
NothingLeftOpen ==
    vfOp.pc \in {"idle", "done"} => vfFds = [src |-> VfNoFd, dst |-> VfNoFd]

\* "Move within or across mounts while preserving the source until copy succeeds": at
\* every step, and after any failure, each file is whole under its old or its new path.
MoveLosesNothing ==
    vfOp.kind = "move" =>
        \A i \in DOMAIN vfOp.pairs :
            \E side \in {1, 2} : VfContents(vfOp.pairs[i][side]) = vfOp.want[i]

\* An operation that answers Ok has written every destination to its last byte, partial
\* writes included, unless another user has changed a file between the steps of a copy.
OkIsComplete ==
    vfOp.pc = "done" /\ vfOp.ok /\ ~vfTouched =>
        \A i \in DOMAIN vfOp.pairs : VfContents(vfOp.pairs[i][2]) = vfOp.want[i]

--------------------------------------------------------------------------------
\* Whatever was cached, listed, opened, moved or copied, and whatever request failed on the way, the
\* parts of a mounted volume agree with the medium and with each other.
VolumesSound ==
    /\ ExTypeInv /\ MetadataCoherent
    /\ FvTypeInv /\ ListingFresh /\ FvFdsUnique /\ PositionsAgree
    /\ PmTypeInv /\ LargestPartition /\ InsidePartition
    /\ VfTypeInv /\ NothingLeftOpen /\ MoveLosesNothing /\ OkIsComplete
================================================================================
