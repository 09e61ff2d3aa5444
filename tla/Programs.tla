------------------------------- MODULE Programs --------------------------------
(***************************************************************************)
(* Programs and their files: the name space of the memory file system, the *)
(* initial RAM file system, file operations of the kernel, and the loading *)
(* of program images. The parts share no state.                            *)
(***************************************************************************)
EXTENDS Integers, Sequences, FiniteSets, FiniteSetsExt, SequencesExt

(***************************************************************************)
(* MemTree.  The name space of MemFileSystem (genome/src/vfs.rs) as a      *)
(* value: the function from the paths that exist, each the sequence of its *)
(* components, to what is there, TreeDir or a file.                        *)
(***************************************************************************)

TreeDir == <<"dir">>
TreeRoot == [p \in {<<>>} |-> TreeDir]
TreeHas(tree, p) == p \in DOMAIN tree
TreeIsDir(tree, p) == TreeHas(tree, p) /\ tree[p] = TreeDir
TreeChildren(tree, p) == {q \in DOMAIN tree : Len(q) = Len(p) + 1 /\ IsPrefix(p, q)}

\* create and mkdir want a parent that is a directory, and a free name.
TreeMayCreate(tree, p) == p # <<>> /\ ~TreeHas(tree, p) /\ TreeIsDir(tree, Front(p))
TreePut(tree, p, what) == [q \in DOMAIN tree \cup {p} |-> IF q = p THEN what ELSE tree[q]]
TreeCreate(tree, p, what) == IF TreeMayCreate(tree, p) THEN TreePut(tree, p, what) ELSE tree

\* unlink takes files and empty directories.
TreeMayUnlink(tree, p) == p # <<>> /\ TreeHas(tree, p) /\ TreeChildren(tree, p) = {}
TreeUnlink(tree, p) == IF TreeMayUnlink(tree, p) THEN [q \in DOMAIN tree \ {p} |-> tree[q]] ELSE tree

(***************************************************************************)
(* Initramfs.  The files a Linux program finds at boot (fullerene-         *)
(* kernel/src/ initramfs.rs and linux/launch.rs): init_initramfs makes the *)
(* standard directories, then unpack walks a "newc" cpio archive entry by  *)
(* entry. The archive is a list of entries laid out as cpio writes them,   *)
(* of which only the first irArch.size bytes are there; offsets are real   *)
(* (110-byte headers, padding to 4).  A path is the sequence of its        *)
(* components.                                                             *)
(***************************************************************************)

CONSTANTS IrEntries,  \* entries of an archive before the trailer
          IrStandard  \* the directories that init_initramfs makes, in its order

ASSUME IrAssumption == IrEntries \in Nat /\ IrStandard \in Seq(Seq(STRING))

VARIABLES irArch,   \* [list: the entries and the trailer, size: bytes that are there]
          irAt,     \* offset of the next header
          irFiles,  \* path -> TreeDir or <<"file", offset, length>> of its body
          irState   \* "boot", "unpack", "done"

irVars == <<irArch, irAt, irFiles, irState>>

IrTrailer == [path |-> <<"TRAILER!!!">>, slash |-> FALSE, kind |-> "file", len |-> 0]
IrEntry(path, slash, kind, len) == [path |-> path, slash |-> slash, kind |-> kind, len |-> len]
IrChoices ==
    {IrEntry(<<"bin", "sh">>, s, "file", n) : s \in BOOLEAN, n \in {0, 3, 4}}
    \cup {IrEntry(<<"opt", "x", "f">>, FALSE, "file", 1), IrEntry(<<"opt", "f">>, FALSE, "file", 2),
          IrEntry(<<"opt">>, FALSE, "dir", 0), IrEntry(<<"opt">>, FALSE, "file", 5), IrEntry(<<"bin", "sh">>, FALSE, "link", 3),
          IrEntry(<<"..">>, FALSE, "file", 1), IrEntry(<<>>, FALSE, "dir", 0)}

\* The length of the stored name, with its final zero.
IrNameSize(e) ==
    LET C[i \in 0 .. Len(e.path)] ==
          IF i = 0 THEN 0
          ELSE C[i - 1] + (IF i > 1 THEN 1 ELSE 0)
               + (CASE e.path[i] \in {"bin", "opt"} -> 3 [] e.path[i] \in {"sh", ".."} -> 2
                    [] e.path[i] = "TRAILER!!!" -> 10 [] OTHER -> 1)
    IN C[Len(e.path)] + (IF e.slash THEN 1 ELSE 0) + 1

\* cpio: header and name, then the body, are each padded with zeros to a multiple of 4.
Padded(n) == n + ((4 - (n % 4)) % 4)
CpioBody(at, e) == Padded(at + 110 + IrNameSize(e))
CpioStart(list) ==
    LET S[i \in 0 .. Len(list)] == IF i = 0 THEN 0 ELSE Padded(CpioBody(S[i - 1], list[i]) + list[i].len)
    IN [i \in 1 .. (Len(list) + 1) |-> S[i - 1]]
CpioSizes(list) ==
    LET s == CpioStart(list)
        end == s[Len(list) + 1]
    IN {n \in {end, end - 1, s[Len(list)], s[2], s[2] - 1, s[2] + 109, s[2] + 112} : n \in 0 .. end}

IrInit ==
    /\ irArch = [list |-> <<IrTrailer>>, size |-> 0]
    /\ irAt = 0 /\ irFiles = [p \in {<<>>} |-> TreeDir] /\ irState = "boot"

---------------------------------------------------------------------------
\* fs::write_entire_file: a directory is refused, an old file removed first.
IrWrite(files, p, what) == IF TreeIsDir(files, p) THEN files ELSE TreeCreate(TreeUnlink(files, p), p, what)

---------------------------------------------------------------------------
Align4(n) == 4 * ((n + 3) \div 4)

\* parse_entry: the header at `at`, if one is there and name, body and padding are inside.
EntryAt(at) ==
    {i \in DOMAIN irArch.list : CpioStart(irArch.list)[i] = at}
BodyStart(at, e) == Align4(at + 110 + IrNameSize(e))
NextEntry(at, e) == Align4(BodyStart(at, e) + e.len)
Parses(at) ==
    /\ at + 110 <= irArch.size
    /\ \E i \in EntryAt(at) :
         /\ at + 110 + IrNameSize(irArch.list[i]) - 1 <= irArch.size
         /\ NextEntry(at, irArch.list[i]) <= irArch.size

Skipped(e) == e.path = <<>> \/ \E i \in DOMAIN e.path : e.path[i] = ".."

\* One entry of unpack into the tree; a missing parent is made, but not its parent.
Unpacked(files, at, e) ==
    CASE Skipped(e) \/ e.kind = "link" -> files
      [] e.kind = "dir" -> TreeCreate(files, e.path, TreeDir)
      [] OTHER -> LET up == Front(e.path)
                      made == IF up # <<>> /\ ~TreeHas(files, up) THEN TreeCreate(files, up, TreeDir) ELSE files
                  IN IrWrite(TreeUnlink(made, e.path), e.path, <<"file", BodyStart(at, e), e.len>>)

\* init_initramfs: the standard directories, then the archive that the kernel embeds.
InitInitramfs(list, size) ==
    /\ irFiles' = FoldLeft(LAMBDA f, p : TreeCreate(f, p, TreeDir), irFiles, IrStandard)
    /\ irArch' = [list |-> Append(list, IrTrailer), size |-> size]
    /\ irAt' = 0 /\ irState' = "unpack"

\* One turn of the loop of unpack.
UnpackEntry ==
    /\ irState = "unpack"
    /\ \/ /\ irAt >= irArch.size \/ ~Parses(irAt)
          /\ irState' = "done" /\ UNCHANGED <<irAt, irFiles>>
       \/ /\ irAt < irArch.size /\ Parses(irAt)
          /\ LET e == irArch.list[CHOOSE i \in EntryAt(irAt) : TRUE]
             IN IF e = IrTrailer THEN irState' = "done" /\ UNCHANGED <<irAt, irFiles>>
                ELSE /\ irFiles' = Unpacked(irFiles, irAt, e)
                     /\ irAt' = NextEntry(irAt, e) /\ UNCHANGED irState
    /\ UNCHANGED irArch

IrNext ==
    \/ /\ irState = "boot"
       /\ \E list \in SeqOf(IrChoices, IrEntries) :
            \E size \in CpioSizes(Append(list, IrTrailer)) : InitInitramfs(list, size)
    \/ UnpackEntry

IrSpec == IrInit /\ [][IrNext]_irVars

---------------------------------------------------------------------------
IrTypeInv == irState \in {"boot", "unpack", "done"} /\ irAt \in Nat /\ <<>> \in DOMAIN irFiles

\* The entries that are wholly there.
Present == {i \in 1 .. (Len(irArch.list) - 1) : CpioStart(irArch.list)[i + 1] <= irArch.size}
FileEntries(p) == {i \in Present : irArch.list[i].kind = "file" /\ irArch.list[i].path = p}

BodyOfEntry(i) == <<"file", CpioBody(CpioStart(irArch.list)[i], irArch.list[i]), irArch.list[i].len>>

\* The tree is what the archive says and nothing else: a file in the tree is the body of an
\* entry of its name, read from the place where cpio put it; and when the unpacking is over,
\* every name has the body of its last entry that is wholly in the archive, unless it is a
\* directory that is not empty or its directory could not be made (initramfs.rs:132-179).
TreeAsArchived ==
    /\ \A p \in DOMAIN irFiles : irFiles[p] # TreeDir => \E i \in FileEntries(p) : irFiles[p] = BodyOfEntry(i)
    /\ irState = "done" =>
         \A i \in Present :
             LET e == irArch.list[i]
             IN e.kind = "file" /\ ~Skipped(e) /\ (\A j \in FileEntries(e.path) : j <= i) =>
                  \/ e.path \in DOMAIN irFiles /\ irFiles[e.path] = BodyOfEntry(i)
                  \/ TreeChildren(irFiles, e.path) # {}
                  \/ ~TreeIsDir(irFiles, Front(e.path))

\* The tree stays a tree: unpack removes a name before it writes it, but never one that is
\* the directory of others (initramfs.rs:165-169, MemFileSystem::unlink).
TreeIsRooted == \A p \in DOMAIN irFiles : p = <<>> \/ TreeIsDir(irFiles, Front(p))

(***************************************************************************)
(* KernelFiles.  Whole-file operations and packages of the kernel          *)
(* (fullerene-kernel/ src/fs.rs) on top of the file system calls.  The     *)
(* calls may fail: a file system may take only part of a write, or none of *)
(* it, a read may fail or pass the deadline.  A file's contents is a       *)
(* sequence of bytes.                                                      *)
(***************************************************************************)

CONSTANTS KfChunk,    \* bytes of one read (4096)
          KfMaxFile,  \* MAX_FILE_SIZE
          KfOps       \* bound: operations of a behaviour

ASSUME KfAssumption == KfChunk \in Nat \ {0} /\ KfMaxFile \in Nat /\ KfOps \in Nat

VARIABLES kfTree,   \* the files
          kfLast,   \* the last operation and its result
          kfLeft    \* operations still to come

kfVars == <<kfTree, kfLast, kfLeft>>

KfA == <<"a">>
KfB == <<"b">>
KfD == <<"d">>
KfPackages == <<"packages">>
KfPkg == <<"packages", "x">>
KfManifest == <<"packages", "x", "manifest.txt">>
KfBin == <<"packages", "x", "app.bin">>
KfNoOp == [op |-> "none", ok |-> TRUE, src |-> <<>>, dst |-> <<>>, want |-> <<>>, got |-> <<>>]
KfData == {<<>>, <<1>>, <<4, 5, 6, 7, 8>>}
KfManifestData == <<9>>
KfFile(data) == <<"file", data>>
KfIsFile(tree, p) == TreeHas(tree, p) /\ ~TreeIsDir(tree, p)

KfInit ==
    /\ LET user == TreePut(TreePut(TreeRoot, KfA, KfFile(<<1, 2, 3>>)), KfD, TreeDir)
       IN kfTree \in {user, TreePut(user, KfPackages, TreeDir)}
    /\ kfLast = KfNoOp /\ kfLeft = KfOps

---------------------------------------------------------------------------
\* What a write may do: take all of it, one byte at a time, nothing, or fail after one byte.
KfDisks == {"good", "bytewise", "full", "breaks"}

\* create_file: create or open, then write until nothing remains; the descriptor is closed
\* on every way out.  An existing file is written over from its start.
Overwritten(old, new) == [i \in 1 .. (IF Len(old) > Len(new) THEN Len(old) ELSE Len(new)) |->
                            IF i <= Len(new) THEN new[i] ELSE old[i]]
CreateFile(tree, p, data, disk) ==
    IF TreeIsDir(tree, p) THEN [tree |-> tree, ok |-> data = <<>>]
    ELSE IF ~TreeHas(tree, p) /\ ~TreeMayCreate(tree, p) THEN [tree |-> tree, ok |-> FALSE]
    ELSE LET old == IF TreeHas(tree, p) THEN tree[p][2] ELSE <<>>
             took == CASE disk \in {"good", "bytewise"} -> data
                       [] disk = "full" -> <<>>
                       [] disk = "breaks" -> SubSeq(data, 1, IF Len(data) < 1 THEN Len(data) ELSE 1)
         IN [tree |-> TreePut(tree, p, KfFile(Overwritten(old, took))), ok |-> took = data]

\* write_entire_file: a directory is refused, an old file removed first.
WriteEntire(tree, p, data, disk) ==
    IF TreeIsDir(tree, p) THEN [tree |-> tree, ok |-> FALSE]
    ELSE CreateFile(TreeUnlink(tree, p), p, data, disk)

\* The reading loop, in which turn number `stop` fails or is past the deadline.
ReadLoop(data, want, stop) ==
    LET R[i \in 0 .. (Len(data) + 1)] ==
          IF i = 0 THEN [buf |-> <<>>, end |-> FALSE, ok |-> TRUE]
          ELSE LET r == R[i - 1]
                   room == IF want - Len(r.buf) < KfChunk THEN want - Len(r.buf) ELSE KfChunk
                   upto == IF Len(data) < Len(r.buf) + room THEN Len(data) ELSE Len(r.buf) + room
               IN IF r.end THEN r
                  ELSE IF i = stop THEN [r EXCEPT !.end = TRUE, !.ok = FALSE]
                  ELSE IF upto = Len(r.buf) THEN [r EXCEPT !.end = TRUE]
                  ELSE [r EXCEPT !.buf = SubSeq(data, 1, upto)]
    IN R[Len(data) + 1]

\* read_entire_file: the size is looked up first, and counted again while reading.
ReadEntire(tree, p, stop) ==
    IF ~KfIsFile(tree, p) \/ Len(tree[p][2]) > KfMaxFile THEN [ok |-> FALSE, data |-> <<>>]
    ELSE LET r == ReadLoop(tree[p][2], Len(tree[p][2]) + KfChunk, stop)
         IN [ok |-> r.ok, data |-> IF r.ok THEN r.buf ELSE <<>>]

\* read_file_prefix: at most `limit` bytes.
ReadPrefix(tree, p, limit, stop) ==
    IF limit = 0 THEN [ok |-> TRUE, data |-> <<>>]
    ELSE IF ~KfIsFile(tree, p) THEN [ok |-> FALSE, data |-> <<>>]
    ELSE LET r == ReadLoop(tree[p][2], limit, stop) IN [ok |-> r.ok, data |-> IF r.ok THEN r.buf ELSE <<>>]

\* copy_file: into a directory under the name of the source.
CopyTarget(tree, src, dst) == IF TreeIsDir(tree, dst) THEN Append(dst, Last(src)) ELSE dst
CopyFile(tree, src, dst, disk, stop) ==
    LET r == ReadEntire(tree, src, stop)
    IN IF ~r.ok THEN [tree |-> tree, ok |-> FALSE]
       ELSE WriteEntire(tree, CopyTarget(tree, src, dst), r.data, disk)

\* Mutated form of MoveFile: the source is removed although the copy failed.
MoveFileAnyway(tree, src, dst, disk, stop) ==
    LET c == CopyFile(tree, src, dst, disk, stop)
    IN [c EXCEPT !.tree = TreeUnlink(c.tree, src)]

\* move_file: the copy, and the removal of the source when it has been made.
MoveFile(tree, src, dst, disk, stop) ==
    LET c == CopyFile(tree, src, dst, disk, stop)
    IN IF ~c.ok THEN c
       ELSE [c EXCEPT !.tree = TreeUnlink(c.tree, src), !.ok = TreeMayUnlink(c.tree, src)]

---------------------------------------------------------------------------
\* walk_dir: every name below a directory, its own descendants after it.
WalkDir(tree, p) == {q \in DOMAIN tree : Len(q) > Len(p) /\ IsPrefix(p, q)}

\* install_package_with_runtime: the directory, the manifest, the program.
Install(tree, binary, disk1, disk2) ==
    IF TreeHas(tree, KfPkg) \/ ~TreeMayCreate(tree, KfPkg) THEN [tree |-> tree, ok |-> FALSE]
    ELSE LET m == WriteEntire(TreePut(tree, KfPkg, TreeDir), KfManifest, KfManifestData, disk1)
         IN IF m.ok THEN WriteEntire(m.tree, KfBin, binary, disk2) ELSE m

\* remove_package: the names by decreasing length, until one cannot be removed.
Removes(tree, names) ==
    FoldLeft(LAMBDA r, p : IF r.ok THEN [r EXCEPT !.tree = TreeUnlink(r.tree, p), !.ok = TreeMayUnlink(r.tree, p)] ELSE r,
             [tree |-> tree, ok |-> TRUE], names)
RemoveOrder(names) == SetToSortSeq(names, LAMBDA p, q : Len(p) > Len(q))
RemovePackage(tree) ==
    IF ~TreeHas(tree, KfPkg) THEN [tree |-> tree, ok |-> FALSE]
    ELSE Removes(tree, Append(RemoveOrder(WalkDir(tree, KfPkg)), KfPkg))

\* list_packages: /packages is made when it is missing; a package needs a readable manifest.
Listed(tree) == {p \in TreeChildren(tree, KfPackages) : KfIsFile(tree, Append(p, "manifest.txt"))
                                                        /\ tree[Append(p, "manifest.txt")][2] = KfManifestData}

---------------------------------------------------------------------------
KfDone(r, last) ==
    /\ kfLeft > 0 /\ kfLeft' = kfLeft - 1
    /\ kfTree' = r.tree
    /\ kfLast' = [last EXCEPT !.ok = r.ok]

KfWrites(p, data, disk) ==
    KfDone(WriteEntire(kfTree, p, data, disk), [KfNoOp EXCEPT !.op = "write", !.dst = p, !.want = data])

KfReads(p, stop) ==
    LET r == ReadEntire(kfTree, p, stop)
    IN KfDone([tree |-> kfTree, ok |-> r.ok], [KfNoOp EXCEPT !.op = "read", !.src = p, !.got = r.data])

KfReadsPrefix(p, limit, stop) ==
    LET r == ReadPrefix(kfTree, p, limit, stop)
    IN KfDone([tree |-> kfTree, ok |-> r.ok],
              [KfNoOp EXCEPT !.op = "prefix", !.src = p, !.got = r.data, !.want = [i \in 1 .. limit |-> 0]])

KfCopies(src, dst, disk, stop) ==
    KfDone(CopyFile(kfTree, src, dst, disk, stop),
           [KfNoOp EXCEPT !.op = "copy", !.src = src, !.dst = CopyTarget(kfTree, src, dst)])

KfMoves(src, dst, disk, stop) ==
    KfDone(MoveFile(kfTree, src, dst, disk, stop),
           [KfNoOp EXCEPT !.op = "move", !.src = src, !.dst = CopyTarget(kfTree, src, dst)])

KfInstalls(binary, disk1, disk2) ==
    KfDone(Install(kfTree, binary, disk1, disk2), [KfNoOp EXCEPT !.op = "install", !.want = binary])

KfRemovesPackage == KfDone(RemovePackage(kfTree), [KfNoOp EXCEPT !.op = "remove"])

KfLists ==
    KfDone([tree |-> TreeCreate(kfTree, KfPackages, TreeDir), ok |-> TRUE], [KfNoOp EXCEPT !.op = "list"])

\* A program adds a directory with a file to its package.
KfPackageGrows ==
    KfDone([tree |-> TreeCreate(TreeCreate(kfTree, Append(KfPkg, "data"), TreeDir), Append(KfPkg, "data") \o <<"f">>, KfFile(<<1>>)),
            ok |-> TRUE], [KfNoOp EXCEPT !.op = "grow"])

KfUser == {KfA, KfB, KfD}
KfNext ==
    \/ \E p \in {KfA, KfD}, data \in KfData, disk \in KfDisks : KfWrites(p, data, disk)
    \/ \E p \in KfUser, stop \in 0 .. 2 : KfReads(p, stop)
    \/ \E limit \in {0, 2, 4}, stop \in 0 .. 1 : KfReadsPrefix(KfA, limit, stop)
    \/ \E src, dst \in KfUser : KfCopies(src, dst, "good", 0)
    \/ \E src, dst \in KfUser, disk \in {"good", "breaks"}, stop \in 0 .. 1 : KfMoves(src, dst, disk, stop)
    \/ \E binary \in {<<>>, <<1, 2, 3>>}, d1, d2 \in {"good", "full"} : KfInstalls(binary, d1, d2)
    \/ KfRemovesPackage \/ KfLists \/ KfPackageGrows

KfSpec == KfInit /\ [][KfNext]_kfVars

---------------------------------------------------------------------------
KfTypeInv == kfLeft \in 0 .. KfOps /\ <<>> \in DOMAIN kfTree

\* A read that succeeds returns the whole file, or for read_file_prefix exactly the prefix that
\* was asked for, never a part of it that a failing turn or the size limit has cut off
\* (fs.rs:202-264).
ReadsWhole ==
    kfLast.op \in {"read", "prefix"} /\ kfLast.ok /\ ~(kfLast.op = "prefix" /\ kfLast.want = <<>>) =>
        LET data == kfTree[kfLast.src][2]
            n == Len(kfLast.want)
        IN kfLast.got = IF kfLast.op = "read" \/ Len(data) < n THEN data ELSE SubSeq(data, 1, n)

\* A write_entire_file that succeeds has stored exactly the data, also over a longer old file
\* and on a file system that takes a byte at a time (fs.rs:48-68 and 266-274).
WritesWhole == kfLast.op = "write" /\ kfLast.ok => kfTree[kfLast.dst] = KfFile(kfLast.want)

\* A move never loses the data: they are at the source or at the target when it returns,
\* whatever fails, as long as the two are different files (fs.rs:179-182).
MoveKeepsData ==
    [LET src == kfLast'.src  dst == kfLast'.dst
       IN kfLeft' # kfLeft /\ kfLast'.op = "move" /\ KfIsFile(kfTree, src) /\ src # dst =>
            \/ KfIsFile(kfTree', src) /\ kfTree'[src] = kfTree[src]
            \/ KfIsFile(kfTree', dst) /\ kfTree'[dst] = kfTree[src]]_kfVars

\* remove_package removes all of a package, directories inside it included, and an
\* installation that succeeds can be listed (fs.rs:293-369).
PackagesWhole ==
    /\ kfLast.op = "remove" => WalkDir(kfTree, KfPkg) = {} /\ ~TreeHas(kfTree, KfPkg)
    /\ kfLast.op = "install" /\ kfLast.ok => KfPkg \in Listed(kfTree) /\ kfTree[KfBin] = KfFile(kfLast.want)

(***************************************************************************)
(* ProgramImage.  From an ELF file to the memory of a process (fullerene-  *)
(* kernel/src/ process.rs, vdso.rs, loader.rs and linux/process.rs):       *)
(* create_process with the resources it takes one after the other,         *)
(* load_program_inner and sys_execve.  A page has PiPage bytes; byte       *)
(* number i of the file is the number i, a frame that nobody has written   *)
(* holds PiJunk.  A segment begins at a page boundary, as the linker       *)
(* places it.                                                              *)
(***************************************************************************)

CONSTANTS PiPage,    \* bytes of a page (4096)
          PiFile,    \* bytes of the file
          PiFrames   \* frames that are free at first

ASSUME PiAssumption == PiPage \in Nat \ {0} /\ PiFile \in Nat /\ PiFrames \in Nat

VARIABLES piHeld,   \* what create_process has taken for the process
          piKind,   \* "none", "user" or "kernel": the process in the list
          piMem,    \* page -> what is mapped there
          piLeft,   \* free frames
          piProg,   \* the segments of the last load or execve
          piSaid,   \* what it returned
          piBreak,  \* pages of the program break that are mapped
          piStack   \* the stack page of execve is mapped

piVars == <<piHeld, piKind, piMem, piLeft, piProg, piSaid, piBreak, piStack>>

PiJunk == 99
PiPages == 0 .. 4
PiVdso == 3         \* VDSO_USER_BASE
PiKernel == 4       \* the first page that is not a user address
PiNone == [bytes |-> <<>>, w |-> FALSE, x |-> FALSE]
PiVdsoPage == [bytes |-> [i \in 1 .. PiPage |-> -1], w |-> FALSE, x |-> TRUE]
PiEmpty == [p \in PiPages |-> PiNone]

PiInit ==
    /\ piHeld = {} /\ piKind = "none" /\ piMem = PiEmpty /\ piLeft = PiFrames
    /\ piProg = <<>> /\ piSaid = "none" /\ piBreak = 0 /\ piStack = FALSE

---------------------------------------------------------------------------
\* create_process takes the stacks, the page table and the vdso page in this order.
Wanted(user) == IF user THEN <<"kstack", "ustack", "table", "vdso">> ELSE <<"kstack", "table">>

\* Mutated form of ImageGivenBack: the kernel stack is not given back.
GivenBackTable(want, k) == {want[i] : i \in 1 .. (k - 1)} \ {"kstack"}

\* What a failing step gives back: all that was taken before it, except that nothing is given
\* back when the list of processes is full.
ImageGivenBack(want, k) == IF k > Len(want) THEN {} ELSE {want[i] : i \in 1 .. (k - 1)}

\* create_process: step k of Wanted fails; k = Len + 1: SCHEDULER.add finds the list full;
\* k = Len + 2: nothing fails.
CreateProcess(user, k) ==
    /\ piKind = "none" /\ piHeld = {}
    /\ LET want == Wanted(user)
           taken == {want[i] : i \in 1 .. (IF k > Len(want) THEN Len(want) ELSE k - 1)}
       IN /\ k \in 1 .. (Len(want) + 2)
          /\ IF k = Len(want) + 2
             THEN /\ piHeld' = taken /\ piSaid' = "created"
                  /\ piKind' = IF user THEN "user" ELSE "kernel"
                  /\ piMem' = [PiEmpty EXCEPT ![PiVdso] = IF user THEN PiVdsoPage ELSE @]
             ELSE /\ piHeld' = taken \ ImageGivenBack(want, k)
                  /\ piSaid' = IF k > Len(want) THEN "TooManyProcesses" ELSE "failed"
                  /\ UNCHANGED <<piKind, piMem>>
    /\ UNCHANGED <<piLeft, piProg, piBreak, piStack>>

---------------------------------------------------------------------------
PagesOf(n) == (n + PiPage - 1) \div PiPage          \* calculate_pages
PageAt(s, i) == s.v + i

\* The bytes that load_program_inner puts into page number i of the segment s.
FrameOf(s, bytes) == [bytes |-> bytes, w |-> s.w, x |-> s.x]
Filled(s, i) ==
    FrameOf(s, [j \in 1 .. PiPage |-> IF i * PiPage + j <= s.fsz THEN s.off + i * PiPage + j ELSE 0])

\* The checks on a segment, before any page of it is mapped.
SegmentRefused(s, mem) ==
    CASE s.off + s.fsz > PiFile -> "InvalidFormat"
      [] s.msz < s.fsz \/ s.msz = 0 -> "InvalidFormat"
      [] s.v >= PiKernel \/ s.v * PiPage + s.msz - 1 >= PiKernel * PiPage -> "UnsupportedArchitecture"
      [] \E i \in 0 .. (PagesOf(s.msz) - 1) : mem[PageAt(s, i)] # PiNone -> "AddressAlreadyMapped"
      [] OTHER -> "none"

\* One segment: pages are mapped and filled until the frames run out.
LoadSegment(st, s) ==
    LET no == SegmentRefused(s, st.mem)
        n == PagesOf(s.msz)
        got == IF n <= st.left THEN n ELSE st.left
    IN IF st.said # "loaded" THEN st
       ELSE IF no # "none" THEN [st EXCEPT !.said = no]
       ELSE [mem |-> [p \in PiPages |-> IF p - s.v \in 0 .. (got - 1) THEN Filled(s, p - s.v) ELSE st.mem[p]],
             left |-> st.left - got,
             said |-> IF got < n THEN "OutOfMemory" ELSE "loaded"]

\* load_program_inner after create_process: the segments in the order of the file.
LoadProgram(prog) ==
    /\ piKind = "user" /\ piSaid = "created"
    /\ LET Run[i \in 0 .. Len(prog)] ==
             IF i = 0 THEN [mem |-> piMem, left |-> piLeft, said |-> "loaded"] ELSE LoadSegment(Run[i - 1], prog[i])
           end == Run[Len(prog)]
       IN /\ piMem' = end.mem /\ piLeft' = end.left /\ piSaid' = end.said
    /\ piProg' = prog
    /\ piBreak' \in 0 .. 1          \* brk of the running program
    /\ UNCHANGED <<piHeld, piKind, piStack>>

---------------------------------------------------------------------------

\* sys_execve: one page of a segment.  A frame is mapped over whatever was there; when no
\* frame is free the page is passed over.  The file is found too short after the mapping.
ExecPage(st, s, i) ==
    LET short == i * PiPage < s.fsz
                 /\ s.off + (IF s.fsz < (i + 1) * PiPage THEN s.fsz ELSE (i + 1) * PiPage) > PiFile
        junk == FrameOf(s, [j \in 1 .. PiPage |-> PiJunk])
    IN IF st.said # "exec" THEN st
       ELSE IF st.left = 0 THEN [st EXCEPT !.full = FALSE]
       ELSE [st EXCEPT !.mem[PageAt(s, i)] = IF short THEN junk ELSE Filled(s, i),
                       !.left = @ - 1, !.said = IF short THEN "ENOEXEC" ELSE @]

ExecSegment(st, s) ==
    LET Run[i \in 0 .. PagesOf(s.msz)] == IF i = 0 THEN st ELSE ExecPage(Run[i - 1], s, i - 1)
    IN Run[PagesOf(s.msz)]

\* sys_execve of a file that is there and is an ET_EXEC image: the break is unmapped, the
\* segments and then the stack are mapped, and the process starts anew.
SysExecve(prog) ==
    /\ piKind = "user" /\ piSaid = "loaded"
    /\ LET Run[i \in 0 .. Len(prog)] ==
             IF i = 0 THEN [mem |-> piMem, left |-> piLeft, said |-> "exec", full |-> TRUE]
             ELSE ExecSegment(Run[i - 1], prog[i])
           end == Run[Len(prog)]
           stack == end.said = "exec" /\ end.left > 0
       IN /\ piMem' = end.mem
          /\ piStack' = stack
          /\ piLeft' = IF stack THEN end.left - 1 ELSE end.left
          /\ piSaid' = IF end.said = "exec" /\ ~(end.full /\ stack) THEN "exec holes" ELSE end.said
    /\ piBreak' = 0
    /\ piProg' = prog
    /\ UNCHANGED <<piHeld, piKind>>

\* A file that cannot be read, is no ELF file or is not ET_EXEC is refused before anything.
ExecveRefused ==
    /\ piKind = "user" /\ piSaid = "loaded" /\ piProg # <<>>
    /\ piSaid' = "refused"
    /\ UNCHANGED <<piHeld, piKind, piMem, piLeft, piProg, piBreak, piStack>>

---------------------------------------------------------------------------
Seg(v, off, fsz, msz, w) == [v |-> v, off |-> off, fsz |-> fsz, msz |-> msz, w |-> w, x |-> ~w]
PiFirst == {Seg(v, off, fsz, msz, FALSE) : v \in {0, 1}, off \in {0, 1}, fsz \in 0 .. 3, msz \in 0 .. 5}
PiSecond == {Seg(2, 2, 1, 2, TRUE), Seg(1, 0, 1, 4, TRUE), Seg(3, 0, 2, 2, TRUE), Seg(2, 0, 2, 5, TRUE), Seg(4, 0, 1, 1, TRUE)}
PiProgs == {<<a>> : a \in PiFirst} \cup {<<a, b>> : a \in PiFirst, b \in PiSecond}
\* execve makes none of the loader's checks: its images are ones the loader would take.
PiFits(prog) == \A i \in DOMAIN prog : prog[i].v * PiPage + prog[i].msz <= PiKernel * PiPage
PiRunning == {<<Seg(0, 0, 3, 5, FALSE)>>, <<Seg(0, 0, 3, 3, FALSE), Seg(2, 2, 1, 2, TRUE)>>}

PiNext ==
    \/ \E user \in BOOLEAN, k \in 1 .. 6 : CreateProcess(user, k)
    \/ \E prog \in PiProgs : LoadProgram(prog)
    \/ piProg \in PiRunning /\ ExecveRefused
    \/ \E prog \in PiProgs : piProg \in PiRunning /\ PiFits(prog) /\ SysExecve(prog)

PiSpec == PiInit /\ [][PiNext]_piVars

---------------------------------------------------------------------------
PiTypeInv ==
    /\ piKind \in {"none", "user", "kernel"} /\ piHeld \subseteq {"kstack", "ustack", "table", "vdso"}
    /\ DOMAIN piMem = PiPages /\ piLeft \in 0 .. PiFrames /\ piBreak \in 0 .. 1 /\ piStack \in BOOLEAN

Covers(s, p) == p - s.v \in 0 .. (PagesOf(s.msz) - 1)
\* The contents of page p of segment s as the ELF format defines them.
Meant(s, p) ==
    [bytes |-> [j \in 1 .. PiPage |-> LET b == (p - s.v) * PiPage + j IN IF b <= s.fsz THEN s.off + b ELSE 0],
     w |-> s.w, x |-> s.x]

\* A program that load_program_inner has accepted has exactly its image in memory: every page
\* of every segment with the bytes of the file, zero after them, and the segment's rights,
\* and no other page but the vdso's (loader.rs:82-187).
LoadedExact ==
    piSaid = "loaded" =>
        \A p \in PiPages \ {PiVdso} :
            LET by == {i \in DOMAIN piProg : Covers(piProg[i], p)}
            IN IF by = {} THEN piMem[p] = PiNone
               ELSE Cardinality(by) = 1 /\ \A i \in by : piMem[p] = Meant(piProg[i], p)

\* Whatever load_program_inner answers, it has put no page over another: the vdso page is
\* where it was, and a page that is mapped holds the first segment that asked for it
\* (the translate_address loop, loader.rs:117-127).
LoadReplacesNothing ==
    piSaid \in {"loaded", "InvalidFormat", "UnsupportedArchitecture", "AddressAlreadyMapped", "OutOfMemory"} =>
        /\ piMem[PiVdso] = PiVdsoPage
        /\ \A p \in PiPages \ {PiVdso} : piMem[p] # PiNone =>
             \E i \in DOMAIN piProg :
                 /\ Covers(piProg[i], p) /\ piMem[p] = Meant(piProg[i], p)
                 /\ \A j \in 1 .. (i - 1) : ~Covers(piProg[j], p)

\* After an execve that had a frame for every page, each page of the new image holds the last
\* segment that covers it, also where the old image had been, the program break is empty
\* and the stack is there (linux/process.rs:212-385).
ExecExact ==
    piSaid = "exec" =>
        /\ piBreak = 0 /\ piStack
        /\ \A p \in PiPages :
             LET by == {i \in DOMAIN piProg : Covers(piProg[i], p)}
             IN by # {} => \E i \in by : piMem[p] = Meant(piProg[i], p) /\ \A j \in by : j <= i

\* A create_process that fails keeps nothing it has taken, but for the full process list,
\* where nothing is given back (process.rs:546-639).
CreateUndone == piSaid = "failed" => piHeld = {}

--------------------------------------------------------------------------------
\* Archives, packages and program images arrive whole or are reported as failed.
ProgramsSound ==
    /\ IrTypeInv /\ TreeAsArchived /\ TreeIsRooted
    /\ KfTypeInv /\ ReadsWhole /\ WritesWhole /\ PackagesWhole
    /\ PiTypeInv /\ LoadedExact /\ LoadReplacesNothing /\ ExecExact /\ CreateUndone
================================================================================
