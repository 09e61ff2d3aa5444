---------------------------------- MODULE Disk ----------------------------------
(***************************************************************************)
(* What a BlockDevice promises to the filesystem above it (genome block.rs *)
(* and fat/cache.rs): a read that succeeds returns the sectors as they are *)
(* on the medium, a write that succeeds changes exactly the sectors of its *)
(* range, and a request that reaches past the end changes nothing.  A       *)
(* failing device may have written the first sectors of the range.         *)
(***************************************************************************)
EXTENDS Integers

CONSTANTS
    Sectors,        \* BlockDevice::total_sectors
    Value,          \* contents of a sector
    MaxCount        \* bound: sectors of one request

Lbas == 0 .. Sectors - 1
Span(lba, count) == lba .. lba + count - 1

VARIABLES
    medium,         \* the sectors of the device
    reply           \* the state of the last request: pending, or its answer

diskVars == <<medium, reply>>

\* A read that was submitted, and the Err and the Ok of a request.  The data of
\* a read is what it returned, the data of a write what was to be written; an
\* answer that names no sectors is that of the read that was pending.
Pending(lba, count) == [lba |-> lba, count |-> count, status |-> "pending", data |-> <<>>]
Failed(lba, count, given) == [lba |-> lba, count |-> count, status |-> "err", data |-> given]
Returned(lba, count, given) == [lba |-> lba, count |-> count, status |-> "ok", data |-> given]
PlainError == Failed(0, 0, <<>>)

\* The medium after the first n sectors of new were written from lba on.
Written(lba, n, new) ==
    [s \in Lbas |-> IF s \in Span(lba, n) THEN new[s - lba + 1] ELSE medium[s]]

Rejects(lba, count) ==
    /\ reply' = PlainError
    /\ reply.status # "pending"
    /\ lba + count > Sectors
    /\ UNCHANGED medium

SubmitRead(lba, count) ==
    /\ reply' = Pending(lba, count)
    /\ reply.status # "pending"
    /\ lba + count <= Sectors
    /\ UNCHANGED medium

DiskRead(lba, count) ==
    /\ reply = Pending(lba, count)
    /\ reply' \in {PlainError,
                   Returned(0, 0, [i \in 1 .. count |-> medium[lba + i - 1]])}
    /\ UNCHANGED medium

DiskWrite(lba, count) ==
    /\ reply'.lba = lba /\ reply'.count = count
    /\ reply.status # "pending"
    /\ lba + count <= Sectors
    /\ \E new \in [1 .. count -> Value] :
          \/ /\ reply' = Returned(lba, count, new)
             /\ medium' = Written(lba, count, new)
          \/ /\ reply' = Failed(lba, count, new)
             /\ \E n \in 0 .. count : medium' = Written(lba, n, new)

DiskInit == medium \in [Lbas -> Value] /\ reply = PlainError

DiskNext ==
    /\ diskVars' # diskVars
    /\ \E lba \in 0 .. Sectors, count \in 0 .. MaxCount :
          \/ Rejects(lba, count)
          \/ SubmitRead(lba, count)
          \/ DiskRead(lba, count)
          \/ DiskWrite(lba, count)

DiskSpec == DiskInit /\ [][DiskNext]_diskVars
================================================================================
