---------------------------------- MODULE MCStorage ----------------------------------
(***************************************************************************)
(* The VFS with its mounts and descriptors, the FAT volumes below it, and  *)
(* the sector cache between a volume and its device, side by side.  They    *)
(* meet at the FileSystem and BlockDevice traits and share no state at the *)
(* level of these modules, so a behaviour is about one of them and the     *)
(* others stay at an initial state.                                        *)
(***************************************************************************)
EXTENDS Vfs, BlockCache, FatVolumes

VARIABLE part   \* the part that this behaviour is about

\* Nested directories whose name devfs also has.
Chain == {<<>>, <<"null">>, <<"null", "null">>}

MCOther == [fat |-> FALSE, start |-> 1, count |-> 2]

MCParts ==
    {MCOther} \cup
    [fat : {TRUE}, start : 0 .. 2, count : 0 .. 2]

MCFiles == <<[path |-> "a", data |-> <<1, 2>>], [path |-> "b", data |-> <<3>>]>>

MCJobs ==
    [kind : {"copy", "move"}, pairs : {<<<<"a", "b">>>>, <<<<"a", "y">>, <<"b", "z">>>>}, data : {<<>>}] \cup
    [kind : {"replace"}, pairs : {<<<<"a", "a">>>>}, data : {<<1, 5>>}]

StoVars == <<part, vars, bcVars, exVars, fvVars, pmVars, vfVars>>

StoInit ==
    /\ part \in {"vfs", "cache", "exfat device", "fat files", "mount", "vfs files"}
    /\ Init
    /\ BcInit /\ (part # "cache" => medium = [l \in CacheLbas |-> 0])
    /\ ExInit /\ (part # "exfat device" => exMedium = exCopy)
    /\ FvInit /\ (part # "fat files" => fvKind = "fat32" /\ fvDir = [n \in FvNames |-> 0])
    /\ PmInit /\ (part # "mount" => pmBoot = "fat" /\ pmTable[1] = MCOther)
    /\ VfInit

StoNext ==
    \/ part = "vfs" /\ Next
    \/ part = "cache" /\ BcNext
    \/ part = "exfat device" /\ ExNext
    \/ part = "fat files" /\ FvNextStep
    \/ part = "mount" /\ PmNext
    \/ part = "vfs files" /\ VfNext

\* The parts that this behaviour is not about stand still.
StoOthers ==
    /\ UNCHANGED part
    /\ IF part = "vfs" THEN TRUE ELSE UNCHANGED vars
    /\ IF part = "cache" THEN TRUE ELSE UNCHANGED bcVars
    /\ IF part = "exfat device" THEN TRUE ELSE UNCHANGED exVars
    /\ IF part = "fat files" THEN TRUE ELSE UNCHANGED fvVars
    /\ IF part = "mount" THEN TRUE ELSE UNCHANGED pmVars
    /\ IF part = "vfs files" THEN TRUE ELSE UNCHANGED vfVars

StoSpec == StoInit /\ [][StoNext /\ StoOthers]_StoVars

-----------------------------------------------------------------------------
\* The parts of a mounted volume agree with the medium and with each other, whatever was
\* cached, listed, opened, moved or copied and whatever request failed.  A part that a
\* behaviour is not about keeps an initial state of its own behaviours, so that it is
\* enough to look where the volumes move.
VolumesKept == part \notin {"vfs", "cache"} => VolumesSound

\* A write through the exFAT device changes no byte of the medium beside the sectors that it
\* is about, except those that a failed request tore.
VolumeSteps == [][WritesKeepNeighbours]_StoVars
================================================================================
