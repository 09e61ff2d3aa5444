-------------------------------- MODULE VfsProof --------------------------------
(***************************************************************************)
(* Proofs about the VFS, for every set of paths and devices and every       *)
(* number of mounts and descriptors: descriptors lead to the files they     *)
(* were opened for, and leases agree with the mount table.                  *)
(***************************************************************************)
EXTENDS Vfs, WellFoundedInduction, TLAPS

\* The filesystems in the mount table are distinct instances, made earlier.
FsFresh ==
    /\ \A i, j \in DOMAIN mounts : mounts[i].fs = mounts[j].fs => i = j
    /\ \A i \in DOMAIN mounts : mounts[i].fs < nextFs
    /\ Len(mounts) < nextFs

\* A filesystem never hands out a descriptor again, and has none before it exists.
LocalFresh ==
    /\ \A f \in FsId : \A l \in local[f] : l < nextLocal[f]
    /\ \A f \in FsId : f >= nextFs => local[f] = {}

\* The inductive invariant.
IInv ==
    /\ TypeInv
    /\ HandlesRoute
    /\ DescriptorsUnique
    /\ NoOrphans
    /\ LeaseIffMounted
    /\ MountPoints
    /\ FsFresh
    /\ LocalFresh

--------------------------------------------------------------------------------

\* A set of naturals has a least element.
LEMMA LeastExists ==
    ASSUME NEW S \in SUBSET Nat, S # {}
    PROVE  \E x \in S : \A y \in S : x <= y
<1>1. PICK x \in S : \A y \in S : ~ (<<y, x>> \in OpToRel(<, Nat))
  BY Zenon, NatLessThanWellFounded, WFMin
<1>2. \A y \in S : ~ (y < x)
  BY Zenon, <1>1 DEF OpToRel
<1> QED
  BY <1>2

\* find_fs_index_for_absolute_path finds a filesystem for every path: the root is a
\* prefix of all of them, and the longest prefix exists.
LEMMA FindFsType ==
    ASSUME TypeInv, MountPoints, NEW p \in Paths
    PROVE  FindFs(p) \in DOMAIN mounts
<1> DEFINE on == {i \in DOMAIN mounts : Under(p, mounts[i].point)}
           gap(i) == Len(p) - Len(mounts[i].point)
<1>1. p \in Seq(STRING) /\ mounts \in Seq(Mounts)
  BY VfsAssumption DEF TypeInv
<1>2. \A i \in DOMAIN mounts : mounts[i].point \in Seq(STRING)
  <2>1. \A i \in DOMAIN mounts : mounts[i] \in Mounts
    BY <1>1
  <2>2. \A i \in DOMAIN mounts : mounts[i].point \in Paths
    BY <2>1 DEF Mounts
  <2> QED BY <2>2, VfsAssumption
<1>3. 1 \in on
  <2>1. 1 \in DOMAIN mounts /\ mounts[1].point = <<>>
    BY <1>1 DEF MountPoints, Root
  <2>2. Under(p, <<>>)
    BY <1>1 DEF Under
  <2> QED BY <2>1, <2>2
<1>4. \A i \in on : gap(i) \in Nat
  BY <1>1, <1>2 DEF Under
<1>5. {gap(i) : i \in on} \in SUBSET Nat /\ {gap(i) : i \in on} # {}
  BY <1>3, <1>4
<1>6. PICK x \in {gap(i) : i \in on} : \A y \in {gap(i) : i \in on} : x <= y
  BY Zenon, <1>5, LeastExists
<1>7. PICK i \in on : x = gap(i)
  BY <1>6
<1>8. \A j \in on : gap(i) <= gap(j)
  BY Zenon, <1>6, <1>7
<1>9. \A j \in on : Len(mounts[j].point) <= Len(mounts[i].point)
  BY <1>1, <1>2, <1>8
<1> QED
  BY <1>7, <1>9 DEF FindFs

\* allocate_fd returns a number that is not in use, when there is one.
LEMMA FreeFdType ==
    ASSUME TypeInv, Used # Fd
    PROVE  FreeFd \in Fd \ Used
<1> DEFINE free == Fd \ Used
           far(fd) == (fd - nextFd) % FdMod
<1>1. Used \subseteq Fd
  BY DEF TypeInv, Entries, Used
<1>2. free # {}
  BY <1>1
<1>3. \A fd \in free : far(fd) \in Nat
  BY VfsAssumption DEF TypeInv, Fd
<1>4. {far(fd) : fd \in free} \in SUBSET Nat /\ {far(fd) : fd \in free} # {}
  BY <1>2, <1>3
<1>5. PICK x \in {far(fd) : fd \in free} : \A y \in {far(fd) : fd \in free} : x <= y
  BY Zenon, <1>4, LeastExists
<1>6. PICK fd \in free : x = far(fd)
  BY <1>5
<1>7. \A g \in free : far(fd) <= far(g)
  BY <1>5, <1>6
<1> QED
  BY <1>6, <1>7 DEF FreeFd

\* The mount table without one entry.
LEMMA WithoutType ==
    ASSUME mounts \in Seq(Mounts), NEW i \in DOMAIN mounts
    PROVE  /\ Without(i) \in Seq(Mounts)
           /\ Len(Without(i)) = Len(mounts) - 1
           /\ DOMAIN Without(i) = 1 .. Len(mounts) - 1
           /\ \A j \in DOMAIN Without(i) :
                  Without(i)[j] = IF j < i THEN mounts[j] ELSE mounts[j + 1]
  BY DEF Without

\* mounted_fs_index finds the entry for a mount point.
LEMMA MountedAtType ==
    ASSUME mounts \in Seq(Mounts), NEW p \in Paths, MountedAt(p) # 0
    PROVE  MountedAt(p) \in DOMAIN mounts /\ mounts[MountedAt(p)].point = p
  BY DEF MountedAt

\* mounted_fs_index finds nothing only when nothing is mounted there.
LEMMA NotMountedAt ==
    ASSUME mounts \in Seq(Mounts), NEW p \in Paths, MountedAt(p) = 0
    PROVE  \A i \in DOMAIN mounts : mounts[i].point # p
<1> SUFFICES ASSUME NEW i \in DOMAIN mounts, mounts[i].point = p PROVE FALSE
  OBVIOUS
<1> DEFINE at == {k \in DOMAIN mounts : mounts[k].point = p}
<1>1. at # {} /\ MountedAt(p) = CHOOSE k \in at : TRUE
  BY DEF MountedAt
<1>2. MountedAt(p) \in DOMAIN mounts
  BY <1>1
<1> QED
  BY <1>2

--------------------------------------------------------------------------------
(* Steps that attach a filesystem, drop one, register a descriptor, or leave     *)
(* the tables of mounts and descriptors alone.                                  *)

\* The state that concerns directory trees keeps its type.
FsType ==
    /\ node \in [FsId -> [Paths -> Ino \cup {0}]]
    /\ dirs \in [FsId -> SUBSET Ino]
    /\ nextIno \in [FsId -> 2 .. MaxIno + 1]

\* The part of the invariant about mounts and descriptors.
HandleInv ==
    /\ mounts \in Seq(Mounts)
    /\ nextFs \in 2 .. MaxFs + 1
    /\ isDev \subseteq FsId
    /\ local \in [FsId -> SUBSET Local]
    /\ nextLocal \in [FsId -> 0 .. MaxLocal]
    /\ entries \subseteq Entries
    /\ nextFd \in Fd
    /\ HandlesRoute
    /\ DescriptorsUnique
    /\ NoOrphans
    /\ MountPoints
    /\ FsFresh
    /\ LocalFresh

\* The part about leases.
LeaseInv ==
    /\ device \in [Devices -> {"absent", "free", "leased"}]
    /\ mounted \subseteq Devices \X Paths
    /\ LeaseIffMounted

\* The inductive invariant is the conjunction of its three parts.
LEMMA InvParts == IInv <=> FsType /\ HandleInv /\ LeaseInv
  BY DEF IInv, TypeInv, FsType, HandleInv, LeaseInv

handleVars == <<mounts, nextFs, isDev, local, nextLocal, entries, nextFd>>

\* A step that leaves the tables of mounts and descriptors alone keeps their part.
LEMMA HandleStutter == HandleInv /\ UNCHANGED handleVars => HandleInv'
  BY DEF HandleInv, handleVars, HandlesRoute, DescriptorsUnique, NoOrphans, MountPoints,
         FsFresh, LocalFresh, Target

\* A step that leaves mounts and devices alone keeps the part about leases.
LEMMA LeaseStutter == LeaseInv /\ UNCHANGED <<mounts, device, mounted>> => LeaseInv'
  BY DEF LeaseInv, LeaseIffMounted

\* A node is made in the filesystem a path leads to.
LEMMA CreateNodeType ==
    ASSUME FsType, NEW f \in FsId, NEW r, NEW dir \in BOOLEAN, CreateNode(f, r, dir)
    PROVE  FsType'
<1>0. nextIno[f] \in Ino /\ nextIno[f] + 1 \in 2 .. MaxIno + 1
  BY VfsAssumption DEF FsType, CreateNode, Ino
<1>1. node' \in [FsId -> [Paths -> Ino \cup {0}]]
  BY Zenon, <1>0 DEF FsType, CreateNode
<1>2. dirs' \in [FsId -> SUBSET Ino]
  BY <1>0 DEF FsType, CreateNode
<1>3. nextIno' \in [FsId -> 2 .. MaxIno + 1]
  BY <1>0 DEF FsType, CreateNode
<1> QED
  BY <1>1, <1>2, <1>3 DEF FsType

\* The filesystem of a path is one of the instances.
LEMMA FsOfType ==
    ASSUME TypeInv, MountPoints, NEW p \in Paths
    PROVE  /\ FindFs(p) \in DOMAIN mounts
           /\ FsOf(p) = mounts[FindFs(p)].fs
           /\ FsOf(p) \in FsId
<1>1. FindFs(p) \in DOMAIN mounts
  BY FindFsType
<1>2. mounts[FindFs(p)] \in Mounts
  BY <1>1 DEF TypeInv
<1> QED
  BY <1>1, <1>2 DEF FsOf, Mounts

\* Attaching a new filesystem at a free place leaves every descriptor's route.
LEMMA AttachHandles ==
    ASSUME HandleInv, NEW p \in Paths, NEW dev \in Devices \cup {NoDevice},
           MountedAt(p) = 0, Attach(p, dev),
           isDev' \subseteq isDev \cup {nextFs},
           UNCHANGED <<local, nextLocal, entries, nextFd>>
    PROVE  HandleInv'
<1> DEFINE m == [point |-> p, fs |-> nextFs, dev |-> dev]
           n == Len(mounts)
<1>0. nextFs \in FsId
  BY VfsAssumption DEF HandleInv, Attach, FsId
<1>1. m \in Mounts /\ m.point = p /\ m.fs = nextFs
  BY <1>0 DEF Mounts
<1>2. /\ mounts \in Seq(Mounts) /\ n \in Nat
      /\ DOMAIN mounts = 1 .. n
  BY DEF HandleInv
<1>3. /\ mounts' \in Seq(Mounts)
      /\ Len(mounts') = n + 1
      /\ DOMAIN mounts' = 1 .. n + 1
      /\ \A i \in 1 .. n : mounts'[i] = mounts[i]
      /\ mounts'[n + 1] = m
  <2>1. mounts' = Append(mounts, m)
    BY DEF Attach
  <2> HIDE DEF m
  <2> QED BY <2>1, <1>1, <1>2
<1> HIDE DEF m
<1>4. nextFs' = nextFs + 1 /\ nextFs' \in 2 .. MaxFs + 1 /\ nextFs \in Nat
  BY <1>0, VfsAssumption DEF Attach, FsId, HandleInv
<1>5. isDev' \subseteq FsId
  BY <1>0 DEF HandleInv
<1>6. HandlesRoute'
  <2>1. \A e \in entries : e.mount \in 1 .. n /\ mounts[e.mount].fs = e.fs /\ e.local \in local[e.fs]
    BY <1>2 DEF HandleInv, HandlesRoute, Target
  <2> QED BY <2>1, <1>2, <1>3 DEF HandlesRoute, Target
<1>7. DescriptorsUnique'
  BY DEF HandleInv, DescriptorsUnique
<1>8. local[nextFs] = {}
  BY <1>0, <1>4 DEF HandleInv, LocalFresh
<1>9. NoOrphans'
  <2>1. \A i \in 1 .. n : \A l \in local[mounts[i].fs] :
            \E e \in entries : e.mount = i /\ e.local = l
    BY <1>2 DEF HandleInv, NoOrphans
  <2>2. \A i \in 1 .. n + 1 : i = n + 1 \/ i \in 1 .. n
    BY <1>2
  <2>3. \A i \in 1 .. n + 1 : \A l \in local[mounts'[i].fs] :
            \E e \in entries : e.mount = i /\ e.local = l
    <3> SUFFICES ASSUME NEW i \in 1 .. n + 1, NEW l \in local[mounts'[i].fs]
                 PROVE  \E e \in entries : e.mount = i /\ e.local = l
      OBVIOUS
    <3>1. CASE i = n + 1
      BY <3>1, <1>1, <1>3, <1>8
    <3>2. CASE i \in 1 .. n
      BY Zenon, <3>2, <2>1, <1>3
    <3> QED BY <3>1, <3>2, <2>2
  <2>4. local' = local /\ entries' = entries
    OBVIOUS
  <2>5. \A i \in DOMAIN mounts' : \A l \in local'[mounts'[i].fs] :
            \E e \in entries' : e.mount = i /\ e.local = l
    <3>1. DOMAIN mounts' = 1 .. n + 1
      BY <1>3
    <3> SUFFICES ASSUME NEW i \in DOMAIN mounts', NEW l \in local'[mounts'[i].fs]
                 PROVE  \E e \in entries' : e.mount = i /\ e.local = l
      OBVIOUS
    <3>2. i \in 1 .. n + 1 /\ l \in local[mounts'[i].fs]
      BY <3>1, <2>4
    <3>3. PICK e \in entries : e.mount = i /\ e.local = l
      BY <3>2, <2>3
    <3> QED BY <3>3, <2>4
  <2> QED BY <2>5, Zenon DEF NoOrphans
<1>10. MountPoints'
  <2>1. \A i \in 1 .. n : mounts[i].point # p
    BY <1>2, NotMountedAt
  <2>2. n > 0 /\ mounts[1].point = Root /\ \A i, j \in 1 .. n : mounts[i].point = mounts[j].point => i = j
    BY <1>2 DEF HandleInv, MountPoints
  <2>3. \A i \in 1 .. n + 1 : i = n + 1 \/ i \in 1 .. n
    BY <1>2
  <2>4. \A i, j \in 1 .. n + 1 : mounts'[i].point = mounts'[j].point => i = j
    BY <1>1, <1>3, <2>1, <2>2, <2>3
  <2> QED BY <1>2, <1>3, <2>2, <2>4 DEF MountPoints
<1>11. FsFresh'
  <2>1. /\ \A i \in 1 .. n : mounts[i].fs < nextFs
        /\ \A i, j \in 1 .. n : mounts[i].fs = mounts[j].fs => i = j
        /\ n < nextFs
    BY Zenon, <1>2 DEF HandleInv, FsFresh
  <2>2. \A i \in 1 .. n + 1 : i = n + 1 \/ i \in 1 .. n
    BY <1>2
  <2>3. \A i \in 1 .. n : mounts[i].fs \in Nat
    <3>1. \A i \in 1 .. n : mounts[i] \in Mounts
      BY <1>2
    <3> QED BY <3>1 DEF Mounts, FsId
  <2>4. \A i \in 1 .. n + 1 : mounts'[i].fs < nextFs'
    BY <1>1, <1>3, <1>4, <2>1, <2>2, <2>3
  <2>5. \A i, j \in 1 .. n + 1 : mounts'[i].fs = mounts'[j].fs => i = j
    BY <1>1, <1>3, <1>4, <2>1, <2>2, <2>3
  <2> QED BY <1>2, <1>3, <1>4, <2>1, <2>4, <2>5 DEF FsFresh
<1>12. LocalFresh'
  BY <1>4 DEF HandleInv, LocalFresh, FsId
<1> QED
  BY <1>3, <1>4, <1>5, <1>6, <1>7, <1>9, <1>10, <1>11, <1>12 DEF HandleInv

\* Unmounting drops the descriptors of the filesystem and moves those of later ones
\* along with their filesystem.
LEMMA UnmountHandles ==
    ASSUME HandleInv, NEW p \in Paths, Unmount(p)
    PROVE  HandleInv'
<1> DEFINE i == MountedAt(p)
           f == mounts[i].fs
           n == Len(mounts)
           shift(e) == [e EXCEPT !.mount = IF @ > i THEN @ - 1 ELSE @]
           kept == {e \in entries : e.mount # i}
<1>1. /\ mounts \in Seq(Mounts) /\ n \in Nat
      /\ DOMAIN mounts = 1 .. n
  BY DEF HandleInv
<1>2. i \in 1 .. n /\ mounts[i].point = p /\ p # Root
  BY <1>1, MountedAtType DEF Unmount
<1>3. \A k \in 1 .. n : mounts[k] \in Mounts /\ mounts[k].fs \in FsId
  <2>1. \A k \in 1 .. n : mounts[k] \in Mounts
    BY <1>1
  <2> QED BY <2>1 DEF Mounts
<1>4. /\ mounts' \in Seq(Mounts)
      /\ Len(mounts') = n - 1
      /\ DOMAIN mounts' = 1 .. n - 1
      /\ \A j \in 1 .. n - 1 : mounts'[j] = IF j < i THEN mounts[j] ELSE mounts[j + 1]
  <2>1. mounts' = Without(i)
    BY DEF Unmount
  <2> QED BY Zenon, <2>1, <1>1, <1>2, WithoutType
<1>5. entries' = {shift(e) : e \in kept}
  BY DEF Unmount
<1>6. local' = IF f \in isDev THEN local ELSE [local EXCEPT ![f] = {}]
  BY DEF Unmount
<1>7. UNCHANGED <<nextFs, isDev, nextLocal, nextFd>>
  BY DEF Unmount
<1>8. f \in FsId
  BY <1>2, <1>3
<1>9. \A e \in kept : /\ e \in Entries
                      /\ e.mount \in 1 .. n /\ e.mount # i
                      /\ mounts[e.mount].fs = e.fs
                      /\ e.local \in local[e.fs]
  BY <1>1 DEF HandleInv, HandlesRoute, Target
<1> HIDE DEF i
<1>10. \A e \in kept : /\ shift(e).fd = e.fd /\ shift(e).local = e.local /\ shift(e).fs = e.fs
                       /\ shift(e).mount = IF e.mount > i THEN e.mount - 1 ELSE e.mount
                       /\ shift(e) \in Entries
                       /\ shift(e).mount \in 1 .. n - 1
                       /\ mounts'[shift(e).mount] = mounts[e.mount]
  <2> SUFFICES ASSUME NEW e \in kept
               PROVE  /\ shift(e).fd = e.fd /\ shift(e).local = e.local /\ shift(e).fs = e.fs
                      /\ shift(e).mount = IF e.mount > i THEN e.mount - 1 ELSE e.mount
                      /\ shift(e) \in Entries
                      /\ shift(e).mount \in 1 .. n - 1
                      /\ mounts'[shift(e).mount] = mounts[e.mount]
    OBVIOUS
  <2>1. e \in Entries /\ e.mount \in 1 .. n /\ e.mount # i
    BY <1>9
  <2>2. /\ shift(e).fd = e.fd /\ shift(e).local = e.local /\ shift(e).fs = e.fs
        /\ shift(e).mount = IF e.mount > i THEN e.mount - 1 ELSE e.mount
    BY <2>1 DEF Entries
  <2>3. shift(e).mount \in 1 .. n - 1 /\ shift(e).mount <= e.mount
    BY <2>1, <2>2, <1>1, <1>2
  <2>4. e.mount <= MaxFs
    BY <2>1 DEF Entries
  <2>5. shift(e) \in Entries
    <3>1. shift(e).mount \in 1 .. MaxFs
      BY <2>1, <2>3, <2>4, <1>1, VfsAssumption
    <3>2. shift(e) = [fd |-> e.fd, mount |-> shift(e).mount, local |-> e.local, fs |-> e.fs]
      BY <2>1 DEF Entries
    <3>3. e.fd \in Fd /\ e.local \in Local /\ e.fs \in FsId
      BY <2>1 DEF Entries
    <3> QED BY <3>1, <3>2, <3>3 DEF Entries
  <2>6. mounts'[shift(e).mount] = mounts[e.mount]
    BY <2>1, <2>2, <2>3, <1>1, <1>2, <1>4
  <2> QED BY <2>2, <2>3, <2>5, <2>6
<1>11. \A k \in 1 .. n : k # i => mounts[k].fs # f
  BY <1>1, <1>2 DEF HandleInv, FsFresh
<1>12. \A g \in FsId : g # f => local'[g] = local[g]
  BY <1>6 DEF HandleInv
<1>13. \A g \in FsId : local'[g] \subseteq local[g]
  BY <1>6, <1>8 DEF HandleInv
<1> HIDE DEF shift, kept, f
<1>14. local' \in [FsId -> SUBSET Local]
  BY <1>6, <1>8 DEF HandleInv
<1>15. entries' \subseteq Entries
  BY <1>5, <1>10
<1>16. HandlesRoute'
  <2>1. \A e \in kept : /\ shift(e).mount \in DOMAIN mounts'
                        /\ mounts'[shift(e).mount].fs = shift(e).fs
                        /\ shift(e).local \in local'[shift(e).fs]
    <3> SUFFICES ASSUME NEW e \in kept
                 PROVE  /\ shift(e).mount \in DOMAIN mounts'
                        /\ mounts'[shift(e).mount].fs = shift(e).fs
                        /\ shift(e).local \in local'[shift(e).fs]
      OBVIOUS
    <3>1. e.fs \in FsId /\ e.fs # f
      BY <1>3, <1>9, <1>11
    <3>2. shift(e).mount \in DOMAIN mounts' /\ mounts'[shift(e).mount].fs = shift(e).fs
      BY <1>4, <1>9, <1>10
    <3> QED BY <3>1, <3>2, <1>9, <1>10, <1>12
  <2>2. \A x \in entries' : /\ x.mount \in DOMAIN mounts'
                            /\ mounts'[x.mount].fs = x.fs
                            /\ x.local \in local'[x.fs]
    BY <2>1, <1>5
  <2> QED BY <2>2 DEF HandlesRoute, Target
<1>17. DescriptorsUnique'
  <2>1. \A d, e \in kept : d.fd = e.fd \/ (d.fs = e.fs /\ d.local = e.local) => d = e
    BY DEF HandleInv, DescriptorsUnique, kept
  <2>2. \A d, e \in kept : shift(d).fd = shift(e).fd
                           \/ (shift(d).fs = shift(e).fs /\ shift(d).local = shift(e).local)
                           => shift(d) = shift(e)
    BY <2>1, <1>10
  <2>3. \A x, y \in entries' : x.fd = y.fd \/ (x.fs = y.fs /\ x.local = y.local) => x = y
    BY <2>2, <1>5
  <2> QED BY <2>3 DEF DescriptorsUnique
<1>18. NoOrphans'
  <2>1. \A k \in 1 .. n : \A l \in local[mounts[k].fs] :
            \E e \in entries : e.mount = k /\ e.local = l
    BY Zenon, <1>1 DEF HandleInv, NoOrphans
  <2>2. \A j \in 1 .. n - 1 : \A l \in local'[mounts'[j].fs] :
            \E x \in entries' : x.mount = j /\ x.local = l
    <3> SUFFICES ASSUME NEW j \in 1 .. n - 1, NEW l \in local'[mounts'[j].fs]
                 PROVE  \E x \in entries' : x.mount = j /\ x.local = l
      OBVIOUS
    <3> DEFINE k == IF j < i THEN j ELSE j + 1
    <3>1. k \in 1 .. n /\ k # i /\ mounts'[j] = mounts[k]
      BY <1>1, <1>2, <1>4
    <3> HIDE DEF k
    <3>2. l \in local[mounts[k].fs]
      BY <3>1, <1>3, <1>13
    <3>3. PICK e \in entries : e.mount = k /\ e.local = l
      BY <2>1, <3>1, <3>2
    <3>4. e \in kept
      BY <3>1, <3>3 DEF kept
    <3>5. shift(e).mount = j /\ shift(e).local = l
      BY <3>3, <3>4, <1>1, <1>2, <1>10 DEF k
    <3> QED BY <3>4, <3>5, <1>5
  <2> QED BY Zenon, <2>2, <1>4 DEF NoOrphans
<1>19. i # 1 /\ n > 1 /\ mounts[1].point = Root
  BY <1>1, <1>2 DEF HandleInv, MountPoints
<1>20. MountPoints'
  <2>1. \A k, m \in 1 .. n : mounts[k].point = mounts[m].point => k = m
    BY <1>1 DEF HandleInv, MountPoints
  <2>2. \A j, k \in 1 .. n - 1 : mounts'[j].point = mounts'[k].point => j = k
    <3> SUFFICES ASSUME NEW j \in 1 .. n - 1, NEW k \in 1 .. n - 1,
                        mounts'[j].point = mounts'[k].point
                 PROVE  j = k
      OBVIOUS
    <3> DEFINE was(x) == IF x < i THEN x ELSE x + 1
    <3>1. /\ was(j) \in 1 .. n /\ mounts'[j] = mounts[was(j)]
          /\ was(k) \in 1 .. n /\ mounts'[k] = mounts[was(k)]
      BY <1>1, <1>2, <1>4
    <3>2. was(j) = was(k)
      <4> HIDE DEF was
      <4> QED BY <3>1, <2>1
    <3> QED BY <3>2, <1>1, <1>2
  <2> QED BY <2>2, <1>1, <1>2, <1>4, <1>19 DEF MountPoints
<1>21. FsFresh'
  <2>1. /\ \A k, m \in 1 .. n : mounts[k].fs = mounts[m].fs => k = m
        /\ \A k \in 1 .. n : mounts[k].fs < nextFs
        /\ n < nextFs /\ nextFs \in Nat
    <3>1. FsFresh /\ nextFs \in 2 .. MaxFs + 1
      BY DEF HandleInv
    <3>2. nextFs \in Nat
      BY <3>1, VfsAssumption
    <3>3. DOMAIN mounts = 1 .. n
      BY <1>1
    <3> QED BY <3>1, <3>2, <3>3 DEF FsFresh
  <2>2. \A j, k \in 1 .. n - 1 : mounts'[j].fs = mounts'[k].fs => j = k
    <3> SUFFICES ASSUME NEW j \in 1 .. n - 1, NEW k \in 1 .. n - 1,
                        mounts'[j].fs = mounts'[k].fs
                 PROVE  j = k
      OBVIOUS
    <3> DEFINE was(x) == IF x < i THEN x ELSE x + 1
    <3>1. /\ was(j) \in 1 .. n /\ mounts'[j] = mounts[was(j)]
          /\ was(k) \in 1 .. n /\ mounts'[k] = mounts[was(k)]
      BY <1>1, <1>2, <1>4
    <3>2. was(j) = was(k)
      <4> HIDE DEF was
      <4> QED BY <3>1, <2>1
    <3> QED BY <3>2, <1>1, <1>2
  <2>3. \A j \in 1 .. n - 1 : mounts'[j].fs < nextFs
    BY <2>1, <1>1, <1>2, <1>4
  <2> QED BY <2>1, <2>2, <2>3, <1>1, <1>4, <1>7 DEF FsFresh
<1>22. LocalFresh'
  BY <1>7, <1>13 DEF HandleInv, LocalFresh
<1> QED
  BY <1>4, <1>7, <1>14, <1>15, <1>16, <1>17, <1>18, <1>20, <1>21, <1>22 DEF HandleInv

\* Registering an open file adds a descriptor with a number of its own, or closes
\* the file again.
LEMMA RegisterHandles ==
    ASSUME TypeInv, HandleInv, NEW i \in DOMAIN mounts, Register(i, mounts[i].fs),
           UNCHANGED <<mounts, nextFs, isDev>>
    PROVE  HandleInv'
<1> DEFINE f == mounts[i].fs
           n == Len(mounts)
           new == [fd |-> FreeFd, mount |-> i, local |-> nextLocal[f], fs |-> f]
<1>1. /\ mounts \in Seq(Mounts) /\ n \in Nat
      /\ DOMAIN mounts = 1 .. n
      /\ mounts[i] \in Mounts
      /\ f \in FsId
  <2>1. mounts[i] \in Mounts
    BY DEF HandleInv
  <2> QED BY <2>1 DEF HandleInv, Mounts
<1>2. /\ nextLocal[f] \in Local /\ nextLocal[f] + 1 \in 0 .. MaxLocal
      /\ nextLocal' = [nextLocal EXCEPT ![f] = @ + 1]
  BY SMTT(30), <1>1, VfsAssumption DEF Register, HandleInv, Local
<1>3. nextLocal' \in [FsId -> 0 .. MaxLocal]
  BY <1>1, <1>2 DEF HandleInv
<1>4. \A g \in FsId : nextLocal[g] <= nextLocal'[g]
  BY <1>1, <1>2, VfsAssumption DEF HandleInv
<1>5. MountPoints' /\ FsFresh'
  BY DEF HandleInv, MountPoints, FsFresh
<1>6. CASE Used = Fd
  <2>1. UNCHANGED <<local, entries, nextFd>>
    BY <1>6 DEF Register
  <2>2. HandlesRoute' /\ DescriptorsUnique' /\ NoOrphans'
    BY <2>1 DEF HandleInv, HandlesRoute, DescriptorsUnique, NoOrphans, Target
  <2>3. LocalFresh'
    <3>1. \A g \in FsId : \A l \in local[g] : l \in Nat /\ l < nextLocal[g]
      BY DEF HandleInv, LocalFresh, Local
    <3>2. \A g \in FsId : nextLocal[g] \in Nat /\ nextLocal'[g] \in Nat
      BY <1>3 DEF HandleInv
    <3>3. \A g \in FsId : \A l \in local[g] : l < nextLocal'[g]
      BY <3>1, <3>2, <1>4
    <3> QED BY <2>1, <3>3 DEF HandleInv, LocalFresh
  <2> QED BY <1>3, <1>5, <2>1, <2>2, <2>3 DEF HandleInv
<1>7. CASE Used # Fd
  <2>1. FreeFd \in Fd \ Used
    BY <1>7, FreeFdType
  <2>2. /\ local' = [local EXCEPT ![f] = @ \cup {nextLocal[f]}]
        /\ entries' = entries \cup {new}
        /\ nextFd' = (FreeFd + 1) % FdMod
    BY <1>7 DEF Register
  <2>3. nextFd' \in Fd
    BY <2>1, <2>2, VfsAssumption DEF Fd
  <2>4. local' \in [FsId -> SUBSET Local]
    BY <1>1, <1>2, <2>2 DEF HandleInv
  <2>5. i <= n /\ n < nextFs /\ nextFs <= MaxFs + 1 /\ i \in Nat /\ nextFs \in Nat
    BY <1>1, VfsAssumption DEF HandleInv, FsFresh
  <2>6. /\ new \in Entries
        /\ new.fd = FreeFd /\ new.mount = i /\ new.local = nextLocal[f] /\ new.fs = f
    <3>1. i \in 1 .. MaxFs
      BY <1>1, <2>5, VfsAssumption
    <3> QED BY <3>1, <1>1, <1>2, <2>1 DEF Entries
  <2>7. \A g \in FsId : local[g] \subseteq local'[g]
    BY <2>2 DEF HandleInv
  <2>8. nextLocal[f] \in local'[f] /\ nextLocal[f] \notin local[f]
    <3>1. nextLocal[f] \in local'[f]
      BY <1>1, <2>2 DEF HandleInv
    <3>2. \A l \in local[f] : l < nextLocal[f] /\ l \in Nat
      BY <1>1 DEF HandleInv, LocalFresh, Local
    <3>3. nextLocal[f] \in Nat
      BY <1>2 DEF Local
    <3> QED BY <3>1, <3>2, <3>3
  <2>9. \A e \in entries : /\ e \in Entries /\ e.fs \in FsId
                           /\ e.mount \in DOMAIN mounts
                           /\ mounts[e.mount].fs = e.fs
                           /\ e.local \in local[e.fs]
                           /\ e.fd \in Used
    BY DEF HandleInv, HandlesRoute, Target, Entries, Used
  <2> HIDE DEF new, f
  <2>10. HandlesRoute'
    <3>1. \A e \in entries' : /\ e.mount \in DOMAIN mounts
                              /\ mounts[e.mount].fs = e.fs
                              /\ e.local \in local'[e.fs]
      <4> SUFFICES ASSUME NEW e \in entries'
                   PROVE  /\ e.mount \in DOMAIN mounts
                          /\ mounts[e.mount].fs = e.fs
                          /\ e.local \in local'[e.fs]
        OBVIOUS
      <4>1. CASE e \in entries
        BY <4>1, <2>7, <2>9
      <4>2. CASE e = new
        BY <4>2, <2>6, <2>8 DEF f
      <4> QED BY <4>1, <4>2, <2>2
    <3> QED BY <3>1 DEF HandlesRoute, Target
  <2>11. DescriptorsUnique'
    <3>1. \A d, e \in entries : d.fd = e.fd \/ (d.fs = e.fs /\ d.local = e.local) => d = e
      BY DEF HandleInv, DescriptorsUnique
    <3>2. \A e \in entries : e.fd # new.fd /\ ~(e.fs = new.fs /\ e.local = new.local)
      BY <2>1, <2>6, <2>8, <2>9
    <3>3. \A d, e \in entries' : d.fd = e.fd \/ (d.fs = e.fs /\ d.local = e.local) => d = e
      BY <3>1, <3>2, <2>2
    <3> QED BY <3>3 DEF DescriptorsUnique
  <2>12. NoOrphans'
    <3>1. \A k \in DOMAIN mounts : \A l \in local[mounts[k].fs] :
              \E e \in entries : e.mount = k /\ e.local = l
      BY DEF HandleInv, NoOrphans
    <3>2. \A k \in DOMAIN mounts : \A l \in local'[mounts[k].fs] :
              \E e \in entries' : e.mount = k /\ e.local = l
      <4> SUFFICES ASSUME NEW k \in DOMAIN mounts, NEW l \in local'[mounts[k].fs]
                   PROVE  \E e \in entries' : e.mount = k /\ e.local = l
        OBVIOUS
      <4>0. mounts[k].fs \in FsId
        <5>1. mounts[k] \in Mounts
          BY <1>1
        <5> QED BY <5>1 DEF Mounts
      <4>1. CASE l \in local[mounts[k].fs]
        <5>1. PICK e \in entries : e.mount = k /\ e.local = l
          BY <4>1, <3>1
        <5> QED BY <5>1, <2>2
      <4>2. CASE l \notin local[mounts[k].fs]
        <5>1. mounts[k].fs = f /\ l = nextLocal[f]
          BY <4>0, <4>2, <2>2, <1>1 DEF HandleInv
        <5>2. k = i
          BY <5>1 DEF HandleInv, FsFresh, f
        <5> QED BY <5>1, <5>2, <2>2, <2>6
      <4> QED BY <4>1, <4>2
    <3>3. mounts' = mounts
      OBVIOUS
    <3>4. \A k \in DOMAIN mounts' : \A l \in local'[mounts'[k].fs] :
              \E e \in entries' : e.mount = k /\ e.local = l
      BY <3>2, <3>3
    <3> QED BY <3>4, Zenon DEF NoOrphans
  <2>13. LocalFresh'
    <3>1. \A g \in FsId : \A l \in local[g] : l \in Nat /\ l < nextLocal[g]
      BY DEF HandleInv, LocalFresh, Local
    <3>2. \A g \in FsId : nextLocal[g] \in Nat /\ nextLocal'[g] \in Nat
      BY <1>3 DEF HandleInv
    <3>3. \A g \in FsId : \A l \in local[g] : l < nextLocal'[g]
      BY <3>1, <3>2, <1>4
    <3>4. nextLocal[f] < nextLocal'[f]
      BY <1>1, <1>2, <3>2 DEF HandleInv
    <3>5. \A g \in FsId : \A l \in local'[g] : l \in local[g] \/ (g = f /\ l = nextLocal[f])
      BY <2>2 DEF HandleInv
    <3>6. \A g \in FsId : \A l \in local'[g] : l < nextLocal'[g]
      BY <3>3, <3>4, <3>5
    <3>7. f < nextFs /\ f \in Nat
      BY <1>1 DEF HandleInv, FsFresh, f, FsId
    <3>8. \A g \in FsId : g >= nextFs => local'[g] = {}
      <4> SUFFICES ASSUME NEW g \in FsId, g >= nextFs PROVE local'[g] = {}
        OBVIOUS
      <4>1. g # f
        BY <3>7, <2>5 DEF FsId
      <4> QED BY <4>1, <2>2 DEF HandleInv, LocalFresh
    <3> QED BY <3>6, <3>8 DEF LocalFresh
  <2>14. entries' \subseteq Entries
    BY <2>2, <2>6 DEF HandleInv
  <2> QED
    BY <1>3, <1>5, <2>3, <2>4, <2>10, <2>11, <2>12, <2>13, <2>14 DEF HandleInv
<1> QED
  BY <1>6, <1>7

\* Closing a descriptor closes its open file and no other.
LEMMA CloseHandles ==
    ASSUME HandleInv, NEW e \in entries, Close(e)
    PROVE  HandleInv'
<1>1. /\ e.mount \in DOMAIN mounts /\ mounts[e.mount].fs = e.fs /\ e.fs \in FsId
  BY DEF HandleInv, HandlesRoute, Target, Entries
<1>2. /\ entries' = entries \ {e}
      /\ local' = [local EXCEPT ![e.fs] = @ \ {e.local}]
      /\ UNCHANGED <<mounts, nextFs, isDev, nextLocal, nextFd>>
  BY <1>1 DEF Close
<1>3. local' \in [FsId -> SUBSET Local] /\ \A g \in FsId : local'[g] \subseteq local[g]
  BY Zenon, <1>2 DEF HandleInv
<1>4. \A x \in entries' : x \in entries /\ x # e /\ ~(x.fs = e.fs /\ x.local = e.local)
  BY <1>2 DEF HandleInv, DescriptorsUnique
<1>5. HandlesRoute'
  <2>1. \A x \in entries' : /\ x.mount \in DOMAIN mounts
                            /\ mounts[x.mount].fs = x.fs
                            /\ x.local \in local'[x.fs]
    <3> SUFFICES ASSUME NEW x \in entries'
                 PROVE  /\ x.mount \in DOMAIN mounts
                        /\ mounts[x.mount].fs = x.fs
                        /\ x.local \in local'[x.fs]
      OBVIOUS
    <3>1. /\ x.mount \in DOMAIN mounts /\ mounts[x.mount].fs = x.fs /\ x.fs \in FsId
          /\ x.local \in local[x.fs]
      BY <1>4 DEF HandleInv, HandlesRoute, Target, Entries
    <3> QED BY <3>1, <1>1, <1>2, <1>4 DEF HandleInv
  <2> QED BY <2>1, <1>2 DEF HandlesRoute, Target
<1>6. DescriptorsUnique'
  BY <1>4 DEF HandleInv, DescriptorsUnique
<1>7. NoOrphans'
  <2>1. \A k \in DOMAIN mounts : \A l \in local'[mounts[k].fs] :
            \E x \in entries' : x.mount = k /\ x.local = l
    <3> SUFFICES ASSUME NEW k \in DOMAIN mounts, NEW l \in local'[mounts[k].fs]
                 PROVE  \E x \in entries' : x.mount = k /\ x.local = l
      OBVIOUS
    <3>0. mounts[k].fs \in FsId
      <4>1. mounts[k] \in Mounts
        BY DEF HandleInv
      <4> QED BY <4>1 DEF Mounts
    <3>1. l \in local[mounts[k].fs]
      BY <3>0, <1>3
    <3>2. PICK x \in entries : x.mount = k /\ x.local = l
      BY Zenon, <3>1 DEF HandleInv, NoOrphans
    <3>3. CASE x = e
      <4>1. mounts[k].fs = e.fs /\ l = e.local
        BY <3>2, <3>3, <1>1
      <4>2. l \notin local'[mounts[k].fs]
        BY <4>1, <1>1, <1>2 DEF HandleInv
      <4> QED BY <4>2
    <3>4. CASE x # e
      BY <3>2, <3>4, <1>2
    <3> QED BY <3>3, <3>4
  <2>2. mounts' = mounts
    BY <1>2
  <2>3. \A k \in DOMAIN mounts' : \A l \in local'[mounts'[k].fs] :
            \E x \in entries' : x.mount = k /\ x.local = l
    BY <2>1, <2>2
  <2> QED BY <2>3, Zenon DEF NoOrphans
<1>8. MountPoints' /\ FsFresh'
  BY <1>2 DEF HandleInv, MountPoints, FsFresh
<1>9. LocalFresh'
  BY SMTT(30), <1>2, <1>3 DEF HandleInv, LocalFresh
<1> QED
  BY <1>2, <1>3, <1>4, <1>5, <1>6, <1>7, <1>8, <1>9 DEF HandleInv

--------------------------------------------------------------------------------
(* Leases.                                                                  *)

\* The pairs that the list of mounted devices must hold for a mount table.
Pairs(m) == {<<m[i].dev, m[i].point>> : i \in {i \in DOMAIN m : m[i].dev # NoDevice}}

\* Mounting a filesystem without a device leaves the leases alone.
LEMMA AttachPlain ==
    ASSUME HandleInv, LeaseInv, NEW p \in Paths, Attach(p, NoDevice),
           UNCHANGED <<device, mounted>>
    PROVE  LeaseInv'
<1> DEFINE m == [point |-> p, fs |-> nextFs, dev |-> NoDevice]
           n == Len(mounts)
<1>1. /\ mounts \in Seq(Mounts) /\ n \in Nat /\ DOMAIN mounts = 1 .. n
  BY DEF HandleInv
<1>2. /\ mounts' = Append(mounts, m) /\ m.dev = NoDevice
  BY DEF Attach
<1> HIDE DEF m
<1>3. /\ DOMAIN mounts' = 1 .. n + 1
      /\ \A i \in 1 .. n : mounts'[i] = mounts[i]
      /\ mounts'[n + 1] = m
  BY <1>1, <1>2
<1>4. \A i \in 1 .. n + 1 : i = n + 1 \/ i \in 1 .. n
  BY <1>1
<1>5. {i \in DOMAIN mounts' : mounts'[i].dev # NoDevice} = {i \in DOMAIN mounts : mounts[i].dev # NoDevice}
  BY <1>1, <1>2, <1>3, <1>4
<1>6. Pairs(mounts') = Pairs(mounts)
  <2>1. \A i \in {i \in DOMAIN mounts : mounts[i].dev # NoDevice} : mounts'[i] = mounts[i]
    BY <1>1, <1>3
  <2> QED BY <1>5, <2>1 DEF Pairs
<1>7. \A d \in Devices : (\E i \in DOMAIN mounts' : mounts'[i].dev = d)
                         <=> (\E i \in DOMAIN mounts : mounts[i].dev = d)
  BY <1>1, <1>2, <1>3, <1>4, VfsAssumption
<1>8. \A i, j \in DOMAIN mounts' :
          mounts'[i].dev = mounts'[j].dev /\ mounts'[i].dev # NoDevice => i = j
  BY <1>1, <1>2, <1>3, <1>4 DEF LeaseInv, LeaseIffMounted
<1> QED
  BY <1>6, <1>7, <1>8 DEF LeaseInv, LeaseIffMounted, Pairs

\* Mounting a device that is free, at a place where nothing is mounted.
LEMMA AttachDevice ==
    ASSUME HandleInv, LeaseInv, NEW p \in Paths, NEW d \in Devices,
           MountedAt(p) = 0, device[d] = "free", Attach(p, d),
           device' = [device EXCEPT ![d] = "leased"],
           mounted' = {m \in mounted : m[1] # d /\ m[2] # p} \cup {<<d, p>>}
    PROVE  LeaseInv'
<1> DEFINE m == [point |-> p, fs |-> nextFs, dev |-> d]
           n == Len(mounts)
<1>1. /\ mounts \in Seq(Mounts) /\ n \in Nat /\ DOMAIN mounts = 1 .. n
  BY DEF HandleInv
<1>2. /\ mounts' = Append(mounts, m) /\ m.dev = d /\ m.point = p
  BY DEF Attach
<1> HIDE DEF m
<1>3. /\ DOMAIN mounts' = 1 .. n + 1
      /\ \A i \in 1 .. n : mounts'[i] = mounts[i]
      /\ mounts'[n + 1] = m
  BY <1>1, <1>2
<1>4. \A i \in 1 .. n + 1 : i = n + 1 \/ i \in 1 .. n
  BY <1>1
<1>5. \A i \in 1 .. n : mounts[i].dev # d /\ mounts[i].point # p
  BY <1>1, NotMountedAt DEF LeaseInv, LeaseIffMounted
<1>6. d # NoDevice
  BY VfsAssumption
<1>7. mounted = Pairs(mounts)
  BY DEF LeaseInv, LeaseIffMounted, Pairs
<1>8. \A x \in mounted : x[1] # d /\ x[2] # p
  BY <1>1, <1>5, <1>7 DEF Pairs
<1>9. mounted' = mounted \cup {<<d, p>>}
  BY <1>8
<1>10. Pairs(mounts') = Pairs(mounts) \cup {<<d, p>>}
  <2>1. ASSUME NEW x \in Pairs(mounts') PROVE x \in Pairs(mounts) \cup {<<d, p>>}
    <3>1. PICK i \in DOMAIN mounts' : mounts'[i].dev # NoDevice /\ x = <<mounts'[i].dev, mounts'[i].point>>
      BY <2>1 DEF Pairs
    <3>2. CASE i = n + 1
      BY <3>1, <3>2, <1>2, <1>3
    <3>3. CASE i \in 1 .. n
      BY <3>1, <3>3, <1>1, <1>3 DEF Pairs
    <3> QED BY <3>2, <3>3, <1>3, <1>4
  <2>2. <<d, p>> \in Pairs(mounts')
    <3>1. n + 1 \in DOMAIN mounts'
      BY <1>1, <1>3
    <3> QED BY <3>1, <1>2, <1>3, <1>6 DEF Pairs
  <2>3. ASSUME NEW x \in Pairs(mounts) PROVE x \in Pairs(mounts')
    <3>1. PICK i \in DOMAIN mounts : mounts[i].dev # NoDevice /\ x = <<mounts[i].dev, mounts[i].point>>
      BY <2>3 DEF Pairs
    <3>2. i \in DOMAIN mounts' /\ mounts'[i] = mounts[i]
      BY <1>1, <1>3
    <3> QED BY <3>1, <3>2 DEF Pairs
  <2> QED BY <2>1, <2>2, <2>3
<1>11. \A c \in Devices : device'[c] = "leased" <=> \E i \in DOMAIN mounts' : mounts'[i].dev = c
  <2> SUFFICES ASSUME NEW c \in Devices
               PROVE  device'[c] = "leased" <=> \E i \in DOMAIN mounts' : mounts'[i].dev = c
    OBVIOUS
  <2>1. CASE c = d
    <3>1. n + 1 \in DOMAIN mounts' /\ mounts'[n + 1].dev = d
      BY <1>1, <1>2, <1>3
    <3> QED BY <2>1, <3>1 DEF LeaseInv
  <2>2. CASE c # d
    <3>1. device'[c] = device[c]
      BY <2>2 DEF LeaseInv
    <3>2. device[c] = "leased" <=> \E i \in DOMAIN mounts : mounts[i].dev = c
      BY DEF LeaseInv, LeaseIffMounted
    <3>3. (\E i \in DOMAIN mounts' : mounts'[i].dev = c) <=> \E i \in DOMAIN mounts : mounts[i].dev = c
      BY <2>2, <1>1, <1>2, <1>3, <1>4
    <3> QED BY <3>1, <3>2, <3>3
  <2> QED BY <2>1, <2>2
<1>12. \A i, j \in DOMAIN mounts' :
           mounts'[i].dev = mounts'[j].dev /\ mounts'[i].dev # NoDevice => i = j
  BY <1>1, <1>2, <1>3, <1>4, <1>5 DEF LeaseInv, LeaseIffMounted
<1>13. device' \in [Devices -> {"absent", "free", "leased"}] /\ mounted' \subseteq Devices \X Paths
  BY <1>9 DEF LeaseInv
<1>14. mounted' = Pairs(mounts')
  BY <1>7, <1>9, <1>10
<1> QED
  BY <1>11, <1>12, <1>13, <1>14 DEF LeaseInv, LeaseIffMounted, Pairs

\* Unmounting returns the lease of the filesystem's device and of no other.
LEMMA UnmountLeases ==
    ASSUME HandleInv, LeaseInv, NEW p \in Paths, Unmount(p)
    PROVE  LeaseInv'
<1> DEFINE i == MountedAt(p)
           n == Len(mounts)
           was(j) == IF j < i THEN j ELSE j + 1
           now(k) == IF k < i THEN k ELSE k - 1
<1>1. /\ mounts \in Seq(Mounts) /\ n \in Nat /\ DOMAIN mounts = 1 .. n
  BY DEF HandleInv
<1>2. i \in 1 .. n /\ mounts[i].point = p
  BY <1>1, MountedAtType DEF Unmount
<1>3. /\ DOMAIN mounts' = 1 .. n - 1
      /\ \A j \in 1 .. n - 1 : mounts'[j] = IF j < i THEN mounts[j] ELSE mounts[j + 1]
  <2>1. mounts' = Without(i)
    BY DEF Unmount
  <2> QED BY Zenon, <2>1, <1>1, <1>2, WithoutType
<1>4. /\ mounted' = {x \in mounted : x[2] # p}
      /\ device' = [d \in Devices |-> IF <<d, p>> \in mounted THEN "free" ELSE device[d]]
  BY DEF Unmount
<1> HIDE DEF i
<1>5. \A j \in 1 .. n - 1 : was(j) \in 1 .. n /\ was(j) # i /\ mounts'[j] = mounts[was(j)]
  BY <1>1, <1>2, <1>3
<1>6. \A k \in 1 .. n : k # i => now(k) \in 1 .. n - 1 /\ mounts'[now(k)] = mounts[k]
  BY <1>1, <1>2, <1>3
<1>7. \A j, k \in 1 .. n - 1 : was(j) = was(k) => j = k
  BY <1>1, <1>2
<1> HIDE DEF was, now
<1>8. \A k \in 1 .. n : mounts[k].point = p <=> k = i
  BY <1>1, <1>2 DEF HandleInv, MountPoints
<1>9. mounted = Pairs(mounts)
  BY DEF LeaseInv, LeaseIffMounted, Pairs
<1>10. \A d \in Devices : <<d, p>> \in mounted <=> mounts[i].dev = d
  <2> SUFFICES ASSUME NEW d \in Devices PROVE <<d, p>> \in mounted <=> mounts[i].dev = d
    OBVIOUS
  <2>1. ASSUME <<d, p>> \in mounted PROVE mounts[i].dev = d
    <3>1. PICK k \in DOMAIN mounts : <<d, p>> = <<mounts[k].dev, mounts[k].point>>
      BY <2>1, <1>9 DEF Pairs
    <3> QED BY <3>1, <1>1, <1>8
  <2>2. ASSUME mounts[i].dev = d PROVE <<d, p>> \in mounted
    <3>1. mounts[i].dev # NoDevice /\ i \in DOMAIN mounts
      BY <2>2, <1>1, <1>2, VfsAssumption
    <3> QED BY <3>1, <2>2, <1>2, <1>9 DEF Pairs
  <2> QED BY <2>1, <2>2
<1>11. /\ \A d \in Devices : device[d] = "leased" <=> \E k \in 1 .. n : mounts[k].dev = d
       /\ \A k, m \in 1 .. n : mounts[k].dev = mounts[m].dev /\ mounts[k].dev # NoDevice => k = m
  BY <1>1 DEF LeaseInv, LeaseIffMounted
<1>12. \A d \in Devices : device'[d] = "leased" <=> \E j \in DOMAIN mounts' : mounts'[j].dev = d
  <2> SUFFICES ASSUME NEW d \in Devices
               PROVE  device'[d] = "leased" <=> \E j \in DOMAIN mounts' : mounts'[j].dev = d
    OBVIOUS
  <2>0. d # NoDevice
    BY VfsAssumption
  <2>1. CASE mounts[i].dev = d
    <3>1. device'[d] = "free"
      BY <2>1, <1>4, <1>10
    <3>2. \A j \in 1 .. n - 1 : mounts'[j].dev # d
      BY SMTT(30), <2>0, <2>1, <1>2, <1>5, <1>11
    <3> QED BY <3>1, <3>2, <1>3
  <2>2. CASE mounts[i].dev # d
    <3>1. device'[d] = device[d]
      BY <2>2, <1>4, <1>10
    <3>2. (\E k \in 1 .. n : mounts[k].dev = d) <=> \E j \in 1 .. n - 1 : mounts'[j].dev = d
      <4>1. ASSUME NEW k \in 1 .. n, mounts[k].dev = d
            PROVE  \E j \in 1 .. n - 1 : mounts'[j].dev = d
        BY <4>1, <2>2, <1>6
      <4>2. ASSUME NEW j \in 1 .. n - 1, mounts'[j].dev = d
            PROVE  \E k \in 1 .. n : mounts[k].dev = d
        BY <4>2, <1>5
      <4> QED BY <4>1, <4>2
    <3> QED BY Zenon, <3>1, <3>2, <1>3, <1>11
  <2> QED BY <2>1, <2>2
<1>13. \A j, k \in DOMAIN mounts' :
           mounts'[j].dev = mounts'[k].dev /\ mounts'[j].dev # NoDevice => j = k
  <2> SUFFICES ASSUME NEW j \in 1 .. n - 1, NEW k \in 1 .. n - 1,
                      mounts'[j].dev = mounts'[k].dev, mounts'[j].dev # NoDevice
               PROVE  j = k
    BY <1>3
  <2>0. /\ was(j) \in 1 .. n /\ mounts'[j] = mounts[was(j)]
        /\ was(k) \in 1 .. n /\ mounts'[k] = mounts[was(k)]
    BY <1>5
  <2>1. was(j) = was(k)
    <3> HIDE DEF was
    <3> QED BY <2>0, <1>11
  <2> QED BY <2>1, <1>7
<1>14. mounted' = Pairs(mounts')
  <2>1. ASSUME NEW x \in mounted' PROVE x \in Pairs(mounts')
    <3>1. x \in mounted /\ x[2] # p
      BY <2>1, <1>4
    <3>2. PICK k \in DOMAIN mounts : mounts[k].dev # NoDevice /\ x = <<mounts[k].dev, mounts[k].point>>
      BY <3>1, <1>9 DEF Pairs
    <3>3. k \in 1 .. n /\ k # i
      BY <3>1, <3>2, <1>1, <1>8
    <3>4. now(k) \in DOMAIN mounts' /\ mounts'[now(k)] = mounts[k]
      BY <3>3, <1>3, <1>6
    <3> QED BY <3>2, <3>4 DEF Pairs
  <2>2. ASSUME NEW x \in Pairs(mounts') PROVE x \in mounted'
    <3>1. PICK j \in DOMAIN mounts' : mounts'[j].dev # NoDevice /\ x = <<mounts'[j].dev, mounts'[j].point>>
      BY <2>2 DEF Pairs
    <3>2. was(j) \in DOMAIN mounts /\ mounts'[j] = mounts[was(j)] /\ mounts[was(j)].point # p
      BY <1>1, <1>3, <1>5, <1>8
    <3>3. x \in mounted
      BY <3>1, <3>2, <1>9 DEF Pairs
    <3> QED BY <3>1, <3>2, <3>3, <1>4
  <2> QED BY <2>1, <2>2
<1>15. device' \in [Devices -> {"absent", "free", "leased"}] /\ mounted' \subseteq Devices \X Paths
  BY <1>4 DEF LeaseInv
<1> QED
  BY <1>12, <1>13, <1>14, <1>15 DEF LeaseInv, LeaseIffMounted, Pairs

--------------------------------------------------------------------------------
(* The theorems.                                                            *)

\* The inductive invariant holds after VfsContext::new.
LEMMA InitIInv == Init => IInv
<1> SUFFICES ASSUME Init PROVE IInv
  OBVIOUS
<1> DEFINE m == [point |-> Root, fs |-> RootFs, dev |-> NoDevice]
<1>1. /\ mounts = <<m>> /\ m.point = Root /\ m.fs = 1 /\ m.dev = NoDevice
      /\ m \in Mounts
  BY VfsAssumption DEF Init, Mounts, RootFs, FsId
<1> HIDE DEF m
<1>2. /\ mounts \in Seq(Mounts) /\ Len(mounts) = 1 /\ DOMAIN mounts = {1} /\ mounts[1] = m
  BY <1>1
<1>3. entries = {} /\ mounted = {} /\ nextFd = 0 /\ nextFs = 2 /\ isDev = {}
  BY DEF Init, RootFs
<1>4. \A f \in FsId : local[f] = {}
  BY DEF Init
<1>5. TypeInv
  <2>1. RootIno \in Ino /\ 0 \in Fd /\ 2 \in 2 .. MaxFs + 1 /\ 2 \in 2 .. MaxIno + 1 /\ 0 \in 0 .. MaxLocal
    BY VfsAssumption DEF RootIno, Ino, Fd
  <2>2. /\ node \in [FsId -> [Paths -> Ino \cup {0}]]
        /\ dirs \in [FsId -> SUBSET Ino]
        /\ nextIno \in [FsId -> 2 .. MaxIno + 1]
    BY <2>1 DEF Init, RootIno
  <2>3. /\ local \in [FsId -> SUBSET Local]
        /\ nextLocal \in [FsId -> 0 .. MaxLocal]
        /\ device \in [Devices -> {"absent", "free", "leased"}]
    BY <2>1 DEF Init
  <2> QED BY <2>1, <2>2, <2>3, <1>2, <1>3 DEF TypeInv
<1>6. HandlesRoute /\ DescriptorsUnique
  BY <1>3 DEF HandlesRoute, DescriptorsUnique
<1>7. NoOrphans
  <2>1. 1 \in FsId
    BY VfsAssumption DEF FsId
  <2> QED BY <2>1, <1>1, <1>2, <1>4 DEF NoOrphans
<1>8. LeaseIffMounted
  <2>1. \A d \in Devices : device[d] # "leased"
    BY DEF Init
  <2>2. NoDevice \notin Devices
    BY VfsAssumption
  <2> QED BY <2>1, <2>2, <1>1, <1>2, <1>3 DEF LeaseIffMounted
<1>9. MountPoints /\ FsFresh
  BY <1>1, <1>2, <1>3 DEF MountPoints, FsFresh
<1>10. LocalFresh
  BY <1>4 DEF LocalFresh
<1> QED
  BY <1>5, <1>6, <1>7, <1>8, <1>9, <1>10 DEF IInv

\* Every operation preserves the invariant.
LEMMA NextIInv == IInv /\ [Next]_vars => IInv'
<1> SUFFICES ASSUME IInv, [Next]_vars PROVE FsType' /\ HandleInv' /\ LeaseInv'
  BY InvParts, PTL DEF IInv, TypeInv, FsType, HandleInv, LeaseInv
<1>0. FsType /\ HandleInv /\ LeaseInv /\ TypeInv /\ MountPoints
  BY InvParts DEF IInv
<1>1. ASSUME NEW p \in Paths, Mkdir(p) PROVE FsType' /\ HandleInv' /\ LeaseInv'
  <2>1. FsType'
    BY Zenon, <1>0, <1>1, FsOfType, CreateNodeType DEF Mkdir
  <2> QED BY <1>0, <1>1, <2>1, HandleStutter, LeaseStutter DEF Mkdir, handleVars
<1>2. ASSUME NEW p \in Paths, Unlink(p) PROVE FsType' /\ HandleInv' /\ LeaseInv'
  <2>1. FsType'
    BY Zenon, <1>0, <1>2 DEF Unlink, FsType
  <2> QED BY <1>0, <1>2, <2>1, HandleStutter, LeaseStutter DEF Unlink, handleVars
<1>3. ASSUME NEW p \in Paths, MountMem(p) PROVE FsType' /\ HandleInv' /\ LeaseInv'
  <2>1. FsType'
    BY <1>0, <1>3 DEF MountMem, FsType, fsVars
  <2>2. HandleInv'
    BY <1>0, <1>3, AttachHandles DEF MountMem
  <2>3. LeaseInv'
    BY <1>0, <1>3, AttachPlain DEF MountMem
  <2> QED BY <2>1, <2>2, <2>3
<1>4. ASSUME NEW p \in Paths, MountDevFs(p) PROVE FsType' /\ HandleInv' /\ LeaseInv'
  <2>1. FsType'
    BY <1>0, <1>4 DEF MountDevFs, FsType, fsVars
  <2>2. HandleInv'
    BY <1>0, <1>4, AttachHandles DEF MountDevFs
  <2>3. LeaseInv'
    BY <1>0, <1>4, AttachPlain DEF MountDevFs
  <2> QED BY <2>1, <2>2, <2>3
<1>5. ASSUME NEW d \in Devices, NEW p \in Paths, MountAuto(d, p)
      PROVE  FsType' /\ HandleInv' /\ LeaseInv'
  <2>1. FsType'
    <3>1. CASE UNCHANGED fsVars
      BY <1>0, <3>1 DEF FsType, fsVars
    <3>2. CASE CreateNode(FsOf(p), RelOf(p), TRUE)
      BY Zenon, <1>0, <3>2, FsOfType, CreateNodeType
    <3> QED BY Zenon, <1>5, <3>1, <3>2 DEF MountAuto
  <2>2. UNCHANGED <<isDev, local, nextLocal, entries, nextFd>> /\ MountedAt(p) = 0
    BY <1>5 DEF MountAuto
  <2>3. CASE /\ device[d] = "free"
             /\ Attach(p, d)
             /\ device' = [device EXCEPT ![d] = "leased"]
             /\ mounted' = {m \in mounted : m[1] # d /\ m[2] # p} \cup {<<d, p>>}
    <3>1. HandleInv'
      BY <1>0, <2>2, <2>3, AttachHandles
    <3>2. LeaseInv'
      BY Zenon, <1>0, <2>2, <2>3, AttachDevice
    <3> QED BY <2>1, <3>1, <3>2
  <2>4. CASE UNCHANGED <<mounts, nextFs, device, mounted>>
    BY <1>0, <2>1, <2>2, <2>4, HandleStutter, LeaseStutter DEF handleVars
  <2> QED BY Zenon, <1>5, <2>3, <2>4 DEF MountAuto
<1>6. ASSUME NEW p \in Paths, Unmount(p) PROVE FsType' /\ HandleInv' /\ LeaseInv'
  <2>1. FsType'
    BY <1>0, <1>6 DEF Unmount, FsType, fsVars
  <2> QED BY <1>0, <1>6, <2>1, UnmountHandles, UnmountLeases
<1>7. ASSUME NEW p \in Paths, Open(p) PROVE FsType' /\ HandleInv' /\ LeaseInv'
  <2>1. FsType'
    BY <1>0, <1>7 DEF Open, FsType, fsVars
  <2>2. HandleInv'
    BY <1>0, <1>7, FsOfType, RegisterHandles DEF Open
  <2>3. LeaseInv'
    BY <1>0, <1>7, LeaseStutter DEF Open
  <2> QED BY <2>1, <2>2, <2>3
<1>8. ASSUME NEW p \in Paths, Create(p) PROVE FsType' /\ HandleInv' /\ LeaseInv'
  <2>1. FsType'
    <3>1. CASE UNCHANGED fsVars
      BY <1>0, <3>1 DEF FsType, fsVars
    <3>2. CASE CreateNode(FsOf(p), RelOf(p), FALSE)
      BY Zenon, <1>0, <3>2, FsOfType, CreateNodeType
    <3> QED BY Zenon, <1>8, <3>1, <3>2 DEF Create
  <2>2. HandleInv'
    BY <1>0, <1>8, FsOfType, RegisterHandles DEF Create
  <2>3. LeaseInv'
    BY <1>0, <1>8, LeaseStutter DEF Create
  <2> QED BY <2>1, <2>2, <2>3
<1>9. ASSUME NEW e \in entries, Close(e) PROVE FsType' /\ HandleInv' /\ LeaseInv'
  <2>1. FsType'
    BY <1>0, <1>9 DEF Close, FsType, fsVars
  <2>2. LeaseInv'
    BY <1>0, <1>9, LeaseStutter DEF Close
  <2> QED BY <1>0, <1>9, <2>1, <2>2, CloseHandles
<1>10. ASSUME NEW d \in Devices, Plug(d) PROVE FsType' /\ HandleInv' /\ LeaseInv'
  <2>1. FsType'
    BY <1>0, <1>10 DEF Plug, FsType, fsVars
  <2>2. HandleInv'
    BY <1>0, <1>10, HandleStutter DEF Plug, handleVars
  <2>3. \A c \in Devices : device'[c] = "leased" <=> device[c] = "leased"
    BY <1>0, <1>10 DEF Plug, LeaseInv
  <2>4. LeaseInv'
    BY <1>0, <1>10, <2>3 DEF Plug, LeaseInv, LeaseIffMounted
  <2> QED BY <2>1, <2>2, <2>4
<1>11. ASSUME Rescan PROVE FsType' /\ HandleInv' /\ LeaseInv'
  <2>1. FsType'
    BY <1>0, <1>11 DEF Rescan, FsType, fsVars
  <2>2. HandleInv'
    BY <1>0, <1>11, HandleStutter DEF Rescan, handleVars
  <2>3. /\ \A c \in Devices : device'[c] = "leased" <=> device[c] = "leased"
        /\ device' \in [Devices -> {"absent", "free", "leased"}]
    BY <1>0, <1>11, VfsAssumption DEF Rescan, LeaseInv
  <2>4. LeaseInv'
    BY <1>0, <1>11, <2>3 DEF Rescan, LeaseInv, LeaseIffMounted
  <2> QED BY <2>1, <2>2, <2>4
<1>12. CASE UNCHANGED vars
  BY <1>0, <1>12, HandleStutter, LeaseStutter DEF vars, handleVars, FsType
<1> QED
  BY <1>1, <1>2, <1>3, <1>4, <1>5, <1>6, <1>7, <1>8, <1>9, <1>10, <1>11, <1>12 DEF Next

\* The inductive invariant holds of every state of the VFS.
THEOREM InductiveInvariant == Spec => []IInv
  BY InitIInv, NextIInv, PTL DEF Spec

\* VfsContext routes every descriptor to the open file it was made for, whatever is
\* mounted and unmounted, for any number of mounts, descriptors and paths.
THEOREM DescriptorsRoute == Spec => []DescriptorsSound
<1>1. IInv => DescriptorsSound
  BY DEF IInv, DescriptorsSound
<1> QED
  BY <1>1, InductiveInvariant, PTL

\* A block device is leased exactly while it is mounted, so rescan_usb_all never
\* unregisters a device under a mounted filesystem.
THEOREM LeasesAgree == Spec => []LeaseIffMounted
<1>1. IInv => LeaseIffMounted
  BY DEF IInv
<1> QED
  BY <1>1, InductiveInvariant, PTL

\* The root stays first in the mount table and mount points are distinct.
THEOREM MountTableSound == Spec => []MountPoints
<1>1. IInv => MountPoints
  BY DEF IInv
<1> QED
  BY <1>1, InductiveInvariant, PTL

\* The state of the VFS stays well typed.
THEOREM TypeCorrect == Spec => []TypeInv
<1>1. IInv => TypeInv
  BY DEF IInv
<1> QED
  BY <1>1, InductiveInvariant, PTL
=================================================================================
