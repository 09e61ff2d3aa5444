---------------------------------- MODULE Vfs ----------------------------------
(***************************************************************************)
(* VfsContext (contexts/vfs.rs): the mount table, the routing of VFS file   *)
(* descriptors to the descriptors of the mounted filesystems, the          *)
(* in-memory filesystem (genome vfs.rs), devfs with its descriptor table,   *)
(* and the leases of block devices (devfs.rs, drivers/registry.rs).        *)
(*                                                                         *)
(* Every operation runs under the kernel lock, so it is one step.  Paths   *)
(* are normalised sequences of names, absolute, from a prefix-closed set.  *)
(* File contents and offsets do not matter here: reading and writing find   *)
(* their file the way Target does.  A filesystem that is mounted is a new  *)
(* instance with an identity of its own, and a device's starts empty.       *)
(* Local descriptors are numbered per instance; devfs counts over all its  *)
(* instances, which only renames them.                                     *)
(***************************************************************************)
EXTENDS Integers, Sequences

CONSTANTS
    Paths,          \* the paths that programs use
    Devices,        \* names of block devices
    Usb,            \* those on the USB bus; the others are SD cards
    FdMod,          \* 2^32: HandleTable::next_fd is a u32
    MaxFs,          \* bound: filesystems mounted over time
    MaxIno,         \* bound: inodes a filesystem creates
    MaxLocal        \* bound: descriptors a filesystem hands out

Root == <<>>

\* The directory of a path, and a path at or below another.
Parent(p) == SubSeq(p, 1, Len(p) - 1)
Under(q, p) == Len(p) <= Len(q) /\ SubSeq(q, 1, Len(p)) = p

FsId == 1 .. MaxFs
RootFs == 1
Ino == 1 .. MaxIno
RootIno == 1
Fd == 0 .. FdMod - 1
Local == 0 .. MaxLocal - 1
NoDevice == "none"

ASSUME VfsAssumption ==
    /\ Root \in Paths
    /\ \A p \in Paths : p \in Seq(STRING)
    /\ \A p \in Paths : p # Root => Parent(p) \in Paths
    /\ NoDevice \notin Devices
    /\ Usb \subseteq Devices
    /\ {FdMod, MaxFs, MaxIno, MaxLocal} \subseteq Nat \ {0}

VARIABLES
    mounts,     \* Vfs::mounts, with the block device behind each filesystem
    nextFs,     \* identity of the next filesystem
    isDev,      \* the filesystems that are devfs
    node,       \* MemFileSystem::inodes by path: inode or 0
    dirs,       \* the inodes of kind Directory
    nextIno,    \* MemFileSystem::next_ino
    local,      \* MemFileSystem::fds and devfs FD_TABLE: open descriptors
    nextLocal,  \* next_fd of each of them
    entries,    \* HandleTable::entries, each with the filesystem it was opened in
    nextFd,     \* HandleTable::next_fd
    device,     \* BLOCK_DEVICE_REGISTRY: absent, free or leased
    mounted     \* mounted_devices: pairs of device and mount point

fsVars == <<node, dirs, nextIno>>
vars == <<mounts, nextFs, isDev, node, dirs, nextIno, local, nextLocal, entries,
          nextFd, device, mounted>>

Mounts == [point : Paths, fs : FsId, dev : Devices \cup {NoDevice}]
Entries == [fd : Fd, mount : 1 .. MaxFs, local : Local, fs : FsId]

TypeInv ==
    /\ mounts \in Seq(Mounts)
    /\ nextFs \in 2 .. MaxFs + 1
    /\ isDev \subseteq FsId
    /\ node \in [FsId -> [Paths -> Ino \cup {0}]]
    /\ dirs \in [FsId -> SUBSET Ino]
    /\ nextIno \in [FsId -> 2 .. MaxIno + 1]
    /\ local \in [FsId -> SUBSET Local]
    /\ nextLocal \in [FsId -> 0 .. MaxLocal]
    /\ entries \subseteq Entries
    /\ nextFd \in Fd
    /\ device \in [Devices -> {"absent", "free", "leased"}]
    /\ mounted \subseteq Devices \X Paths

\* VfsContext::new: a memory filesystem at the root.
Init ==
    /\ mounts = <<[point |-> Root, fs |-> RootFs, dev |-> NoDevice]>>
    /\ nextFs = RootFs + 1
    /\ isDev = {}
    /\ node = [f \in FsId |-> [p \in Paths |-> IF p = Root THEN RootIno ELSE 0]]
    /\ dirs = [f \in FsId |-> {RootIno}]
    /\ nextIno = [f \in FsId |-> RootIno + 1]
    /\ local = [f \in FsId |-> {}]
    /\ nextLocal = [f \in FsId |-> 0]
    /\ entries = {}
    /\ nextFd = 0
    /\ device = [d \in Devices |-> "absent"]
    /\ mounted = {}

--------------------------------------------------------------------------------
(* Paths and filesystems.                                                   *)

\* mounted_fs_index: the filesystem mounted exactly at p, or 0.
MountedAt(p) ==
    LET at == {i \in DOMAIN mounts : mounts[i].point = p}
    IN  IF at = {} THEN 0 ELSE CHOOSE i \in at : TRUE

\* find_fs_index_for_absolute_path: the longest mount point that is a prefix.
FindFs(p) ==
    LET on == {i \in DOMAIN mounts : Under(p, mounts[i].point)}
    IN  CHOOSE i \in on : \A j \in on : Len(mounts[j].point) <= Len(mounts[i].point)

\* relative_to_mount; the names below a mount point are those of a path too.
Relative(p, i) == SubSeq(p, Len(mounts[i].point) + 1, Len(p))
FsOf(p) == mounts[FindFs(p)].fs
RelOf(p) == Relative(p, FindFs(p))

\* The filesystem at p is the FAT or exFAT one of a block device.
OnDevice(p) == mounts[FindFs(p)].dev # NoDevice

\* FileSystem::exists.  A devfs has its root, null and the registered devices.
Exists(p) ==
    LET f == FsOf(p)
        r == RelOf(p)
    IN  IF f \in isDev
        THEN r \in {Root, <<"null">>} \cup {<<d>> : d \in {d \in Devices : device[d] # "absent"}}
        ELSE node[f][r] # 0

\* readdir(..).is_ok().
IsDir(p) ==
    LET f == FsOf(p)
        r == RelOf(p)
    IN  IF f \in isDev THEN r = Root ELSE node[f][r] \in dirs[f]

\* FileSystem::open: a memory filesystem opens directories too.
Openable(p) == Exists(p) /\ (FsOf(p) \in isDev \/ OnDevice(p) => ~IsDir(p))

\* MemFileSystem::create on the filesystem f: needs a parent that is a directory.
Creatable(f, r) ==
    /\ f \notin isDev
    /\ r # Root
    /\ node[f][r] = 0
    /\ node[f][Parent(r)] \in dirs[f]

CreateNode(f, r, dir) ==
    /\ nextIno[f] <= MaxIno
    /\ node' = [node EXCEPT ![f][r] = nextIno[f]]
    /\ dirs' = IF dir THEN [dirs EXCEPT ![f] = @ \cup {nextIno[f]}] ELSE dirs
    /\ nextIno' = [nextIno EXCEPT ![f] = @ + 1]

Mkdir(p) ==
    /\ Creatable(FsOf(p), RelOf(p))
    /\ CreateNode(FsOf(p), RelOf(p), TRUE)
    /\ UNCHANGED <<mounts, nextFs, isDev, local, nextLocal, entries, nextFd, device,
                   mounted>>

\* MemFileSystem::unlink: files and empty directories, not the root.
Unlink(p) ==
    LET f == FsOf(p)
        r == RelOf(p)
    IN  /\ f \notin isDev
        /\ r # Root
        /\ node[f][r] # 0
        /\ \A q \in Paths : q # r /\ Under(q, r) => node[f][q] = 0
        /\ node' = [node EXCEPT ![f][r] = 0]
        /\ dirs' = [dirs EXCEPT ![f] = @ \ {node[f][r]}]
        /\ UNCHANGED <<mounts, nextFs, isDev, nextIno, local, nextLocal, entries,
                       nextFd, device, mounted>>

--------------------------------------------------------------------------------
(* Mounting.                                                                *)

\* Vfs::mount of a new filesystem: the mount point is a directory and nothing
\* is mounted there.
Attach(p, dev) ==
    /\ nextFs <= MaxFs
    /\ mounts' = Append(mounts, [point |-> p, fs |-> nextFs, dev |-> dev])
    /\ nextFs' = nextFs + 1

\* mount(_, p, "tmpfs") and mount(_, p, "devfs").
MountMem(p) ==
    /\ MountedAt(p) = 0
    /\ IsDir(p)
    /\ Attach(p, NoDevice)
    /\ UNCHANGED <<isDev, fsVars, local, nextLocal, entries, nextFd, device, mounted>>

MountDevFs(p) ==
    /\ MountedAt(p) = 0
    /\ IsDir(p)
    /\ Attach(p, NoDevice)
    /\ isDev' = isDev \cup {nextFs}
    /\ UNCHANGED <<fsVars, local, nextLocal, entries, nextFd, device, mounted>>

\* mount(d, p, "auto"): makes the mount point when it is missing, leases the
\* device, reads its boot sector (which may fail) and mounts (which fails when p
\* is a file); a failure after the lease returns it.
MountAuto(d, p) ==
    /\ device[d] # "absent"
    /\ MountedAt(p) = 0
    /\ \/ /\ Exists(p)
          /\ IsDir(p)
          /\ device[d] = "free"
          /\ Attach(p, d)
          /\ device' = [device EXCEPT ![d] = "leased"]
          /\ mounted' = {m \in mounted : m[1] # d /\ m[2] # p} \cup {<<d, p>>}
          /\ UNCHANGED fsVars
       \/ /\ ~Exists(p)
          /\ Creatable(FsOf(p), RelOf(p))
          /\ CreateNode(FsOf(p), RelOf(p), TRUE)
          /\ \/ /\ device[d] = "free"
                /\ Attach(p, d)
                /\ device' = [device EXCEPT ![d] = "leased"]
                /\ mounted' = {m \in mounted : m[1] # d /\ m[2] # p} \cup {<<d, p>>}
             \/ UNCHANGED <<mounts, nextFs, device, mounted>>
    /\ UNCHANGED <<isDev, local, nextLocal, entries, nextFd>>

\* The mount table without its i-th entry (Vec::retain).
Without(i) == [j \in 1 .. Len(mounts) - 1 |-> IF j < i THEN mounts[j] ELSE mounts[j + 1]]

\* Mutants of unmount: the indices of later mounts are not corrected; the root may
\* go.
UnmountNoShift(p) ==
    LET i == MountedAt(p)
    IN  /\ p # Root
        /\ i # 0
        /\ mounts' = Without(i)
        /\ entries' = {e \in entries : e.mount # i}
        /\ mounted' = {m \in mounted : m[2] # p}
        /\ device' = [d \in Devices |-> IF <<d, p>> \in mounted THEN "free" ELSE device[d]]
        /\ UNCHANGED <<nextFs, isDev, fsVars, local, nextLocal, nextFd>>
UnmountRoot(p) ==
    LET i == MountedAt(p)
    IN  /\ i # 0
        /\ mounts' = Without(i)
        /\ entries' = {[e EXCEPT !.mount = IF @ > i THEN @ - 1 ELSE @] :
                           e \in {e \in entries : e.mount # i}}
        /\ UNCHANGED <<nextFs, isDev, fsVars, local, nextLocal, nextFd, device, mounted>>

\* VfsContext::unmount: drops the filesystem and its descriptors, corrects the
\* mount indices of the others, and returns the lease of its device.  A dropped
\* MemFileSystem takes its own descriptors along; devfs's table is a static.
Unmount(p) ==
    LET i == MountedAt(p)
        f == mounts[i].fs
    IN  /\ p # Root
        /\ i # 0
        /\ mounts' = Without(i)
        /\ entries' = {[e EXCEPT !.mount = IF @ > i THEN @ - 1 ELSE @] :
                           e \in {e \in entries : e.mount # i}}
        /\ local' = IF f \in isDev THEN local ELSE [local EXCEPT ![f] = {}]
        /\ mounted' = {m \in mounted : m[2] # p}
        /\ device' = [d \in Devices |-> IF <<d, p>> \in mounted THEN "free" ELSE device[d]]
        /\ UNCHANGED <<nextFs, isDev, fsVars, nextLocal, nextFd>>

--------------------------------------------------------------------------------
(* Descriptors.                                                             *)

Used == {e.fd : e \in entries}

\* HandleTable::allocate_fd: the first number from next_fd on that is not in use,
\* round the end of the u32 range.
FreeFd == CHOOSE fd \in Fd \ Used :
    \A g \in Fd \ Used : (fd - nextFd) % FdMod <= (g - nextFd) % FdMod

\* open on the filesystem followed by register_handle: when every number is in
\* use, the local descriptor is closed again.
Register(i, f) ==
    /\ nextLocal[f] < MaxLocal
    /\ nextLocal' = [nextLocal EXCEPT ![f] = @ + 1]
    /\ IF Used = Fd
       THEN UNCHANGED <<local, entries, nextFd>>
       ELSE /\ local' = [local EXCEPT ![f] = @ \cup {nextLocal[f]}]
            /\ entries' = entries \cup
                   {[fd |-> FreeFd, mount |-> i, local |-> nextLocal[f], fs |-> f]}
            /\ nextFd' = (FreeFd + 1) % FdMod

Open(p) ==
    /\ Openable(p)
    /\ Register(FindFs(p), FsOf(p))
    /\ UNCHANGED <<mounts, nextFs, isDev, fsVars, device, mounted>>

\* VfsContext::create: makes the file when it is missing, then opens it.
Create(p) ==
    /\ \/ /\ ~Exists(p)
          /\ Creatable(FsOf(p), RelOf(p))
          /\ CreateNode(FsOf(p), RelOf(p), FALSE)
       \/ /\ Openable(p)
          /\ UNCHANGED fsVars
    /\ Register(FindFs(p), FsOf(p))
    /\ UNCHANGED <<mounts, nextFs, isDev, device, mounted>>

\* VfsContext::close: read, write, seek, position and size look an entry up the
\* same way and leave the tables alone.
Close(e) ==
    /\ e \in entries
    /\ entries' = entries \ {e}
    /\ local' = [local EXCEPT ![mounts[e.mount].fs] = @ \ {e.local}]
    /\ UNCHANGED <<mounts, nextFs, isDev, fsVars, nextLocal, nextFd, device, mounted>>

--------------------------------------------------------------------------------
(* Block devices.                                                           *)

\* poll_usb with register_pending_usb, sd_probe_and_register, rescan_sd.
Plug(d) ==
    /\ device[d] = "absent"
    /\ device' = [device EXCEPT ![d] = "free"]
    /\ UNCHANGED <<mounts, nextFs, isDev, fsVars, local, nextLocal, entries, nextFd,
                   mounted>>

\* Mutant: re-enumerates although a device is mounted.
RescanAnyway ==
    /\ \E back \in SUBSET Usb :
           device' = [d \in Devices |-> IF d \notin Usb THEN device[d]
                                        ELSE IF d \in back THEN "free" ELSE "absent"]
    /\ UNCHANGED <<mounts, nextFs, isDev, fsVars, local, nextLocal, entries, nextFd,
                   mounted>>

\* rescan_usb_all: refuses while a USB device is leased; otherwise all of them are
\* unregistered and those still there come back.
Rescan ==
    /\ \A d \in Usb : device[d] # "leased"
    /\ \E back \in SUBSET Usb :
           device' = [d \in Devices |-> IF d \notin Usb THEN device[d]
                                        ELSE IF d \in back THEN "free" ELSE "absent"]
    /\ UNCHANGED <<mounts, nextFs, isDev, fsVars, local, nextLocal, entries, nextFd,
                   mounted>>

Next ==
    \/ \E p \in Paths : Mkdir(p)
    \/ \E p \in Paths : Unlink(p)
    \/ \E p \in Paths : MountMem(p)
    \/ \E p \in Paths : MountDevFs(p)
    \/ \E d \in Devices, p \in Paths : MountAuto(d, p)
    \/ \E p \in Paths : Unmount(p)
    \/ \E p \in Paths : Open(p)
    \/ \E p \in Paths : Create(p)
    \/ \E e \in entries : Close(e)
    \/ \E d \in Devices : Plug(d)
    \/ Rescan

Spec == Init /\ [][Next]_vars

--------------------------------------------------------------------------------

\* Where a read or write of descriptor e goes.
Target(e) == mounts[e.mount].fs

\* A descriptor goes on leading to the filesystem and the open file it was opened
\* for, while other filesystems are mounted and unmounted around it and the
\* positions in the mount table shift.
HandlesRoute ==
    \A e \in entries : /\ e.mount \in DOMAIN mounts
                       /\ Target(e) = e.fs
                       /\ e.local \in local[e.fs]

\* No two open files share a descriptor, also after the numbers have come round,
\* and no two descriptors share an open file.
DescriptorsUnique ==
    \A d, e \in entries : d.fd = e.fd \/ (d.fs = e.fs /\ d.local = e.local) => d = e

\* An open file of a mounted filesystem always belongs to a descriptor that can
\* close it, also when the descriptor numbers have run out.
NoOrphans ==
    \A i \in DOMAIN mounts : \A l \in local[mounts[i].fs] :
        \E e \in entries : e.mount = i /\ e.local = l

\* Descriptors lead to their own open files, none is shared and none is lost.
DescriptorsSound == TypeInv /\ HandlesRoute /\ DescriptorsUnique /\ NoOrphans

\* A block device is leased exactly while a filesystem on it is mounted, at one
\* place, and the list of mounted devices says so.
LeaseIffMounted ==
    /\ \A d \in Devices : device[d] = "leased" <=> \E i \in DOMAIN mounts : mounts[i].dev = d
    /\ \A i, j \in DOMAIN mounts : mounts[i].dev = mounts[j].dev /\ mounts[i].dev # NoDevice => i = j
    /\ mounted = {<<mounts[i].dev, mounts[i].point>> :
                      i \in {i \in DOMAIN mounts : mounts[i].dev # NoDevice}}

\* The root stays mounted, first in the table, and no two filesystems are mounted
\* at the same place.
MountPoints ==
    /\ Len(mounts) > 0 /\ mounts[1].point = Root
    /\ \A i, j \in DOMAIN mounts : mounts[i].point = mounts[j].point => i = j

================================================================================
