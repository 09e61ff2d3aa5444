------------------------------- MODULE BlockCache -------------------------------
(***************************************************************************)
(* BlockCache (genome fat/cache.rs), the sector cache between a mounted    *)
(* filesystem and its device: read_sectors serves runs of cached and of     *)
(* missing sectors in turn, write_sectors drops what it overwrites.  Each   *)
(* turn of the loop of read_sectors, and each sector it then keeps, is a    *)
(* step of its own.  Every request to the device may fail; a write that    *)
(* fails may have changed the first of its sectors.                        *)
(***************************************************************************)
EXTENDS Integers

CONSTANTS
    Sectors,        \* BlockDevice::total_sectors of the device
    Value,          \* contents of a sector
    Capacity,       \* entries of the cache: 64 in mount_device
    MaxCount        \* bound: sectors of one request

ASSUME BlockCacheAssumption ==
    /\ Sectors \in Nat /\ Capacity \in Nat \ {0} /\ MaxCount \in Nat
    /\ Value # {}

NoLba == -1
CacheLbas == 0 .. Sectors - 1
CacheSlots == 0 .. Capacity - 1
Span(lba, count) == lba .. lba + count - 1
ZeroSector == CHOOSE v \in Value : TRUE
Blank == [i \in 0 .. MaxCount - 1 |-> ZeroSector]
NoRequest == [pc |-> "idle", lba |-> 0, count |-> 0, index |-> 0, first |-> 0]

VARIABLES
    medium,         \* the sectors of the device
    reply,          \* the state of the last request: pending, or its answer
    tag,            \* entries[_].0
    data,           \* entries[_].1
    victim,         \* next_victim
    call,           \* the read_sectors in progress: its range, index and first
    buf             \* the buffer of its caller; blank between calls

bcVars == <<medium, reply, tag, data, victim, call, buf>>

D == INSTANCE Disk

BcTypeInv ==
    /\ medium \in [CacheLbas -> Value]
    /\ tag \in [CacheSlots -> CacheLbas \cup {NoLba}]
    /\ data \in [CacheSlots -> Value]
    /\ victim \in CacheSlots
    /\ call \in [pc : {"idle", "loop", "fill"}, lba : 0 .. Sectors, count : 0 .. MaxCount,
                 index : 0 .. MaxCount, first : 0 .. MaxCount]
    /\ buf \in [0 .. MaxCount - 1 -> Value]

BcInit ==
    /\ medium \in [CacheLbas -> Value]
    /\ reply = D!PlainError
    /\ tag = [s \in CacheSlots |-> NoLba]
    /\ data = [s \in CacheSlots |-> ZeroSector]
    /\ victim = 0
    /\ call = NoRequest
    /\ buf = Blank

Cached(lba) == \E s \in CacheSlots : tag[s] = lba

Lookup(lba) == CHOOSE s \in CacheSlots : tag[s] = lba

EvictSlot == IF Cached(NoLba)
               THEN CHOOSE s \in CacheSlots : tag[s] = NoLba /\ \A t \in 0 .. s - 1 : tag[t] # NoLba
               ELSE victim

NextVictim == IF Cached(NoLba) THEN victim ELSE (victim + 1) % Capacity

-----------------------------------------------------------------------------

\* read_sectors checks the range and starts its loop.
ReadSectors(lba, count) ==
    /\ call.pc = "idle"
    /\ IF lba + count > Sectors
         THEN /\ reply' = D!PlainError
              /\ UNCHANGED call
         ELSE /\ call' = [pc |-> "loop", lba |-> lba, count |-> count, index |-> 0, first |-> 0]
              /\ reply' = D!Pending(lba, count)
    /\ UNCHANGED <<medium, tag, data, victim, buf>>

\* Mutated form of ReadHit: the cached sector is not copied to the caller.
ReadHitSkips ==
    /\ call.pc = "loop" /\ call.index < call.count
    /\ Cached(call.lba + call.index)
    /\ call' = [call EXCEPT !.index = @ + 1]
    /\ UNCHANGED <<medium, reply, tag, data, victim, buf>>

ReadHit ==
    /\ call.pc = "loop" /\ call.index < call.count
    /\ Cached(call.lba + call.index)
    /\ buf' = [buf EXCEPT ![call.index] = data[Lookup(call.lba + call.index)]]
    /\ call' = [call EXCEPT !.index = @ + 1]
    /\ UNCHANGED <<medium, reply, tag, data, victim>>

\* The end of the run of missing sectors that starts at call.index.
RunEnd == CHOOSE e \in call.index + 1 .. call.count :
             /\ \A i \in call.index .. e - 1 : ~Cached(call.lba + i)
             /\ e = call.count \/ Cached(call.lba + e)

ReadMiss ==
    /\ call.pc = "loop" /\ call.index < call.count
    /\ ~Cached(call.lba + call.index)
    /\ \/ /\ buf' = [i \in DOMAIN buf |-> IF i \in call.index .. RunEnd - 1
                                            THEN medium[call.lba + i] ELSE buf[i]]
          /\ call' = [call EXCEPT !.pc = "fill", !.first = call.index, !.index = RunEnd]
          /\ UNCHANGED reply
       \/ /\ reply' = D!PlainError
          /\ call' = NoRequest
          /\ buf' = Blank
    /\ UNCHANGED <<medium, tag, data, victim>>

\* One turn of `for sector in first..index`.
FillSlot ==
    /\ call.pc = "fill"
    /\ tag' = [tag EXCEPT ![EvictSlot] = call.lba + call.first]
    /\ data' = [data EXCEPT ![EvictSlot] = buf[call.first]]
    /\ victim' = NextVictim
    /\ call' = [call EXCEPT !.first = @ + 1,
                            !.pc = IF call.first + 1 = call.index THEN "loop" ELSE "fill"]
    /\ UNCHANGED <<medium, reply, buf>>

ReadDone ==
    /\ call.pc = "loop" /\ call.index = call.count
    /\ reply' = D!Returned(0, 0, [i \in 1 .. call.count |-> buf[i - 1]])
    /\ call' = NoRequest
    /\ buf' = Blank
    /\ UNCHANGED <<medium, tag, data, victim>>

\* Mutated form of Dropped: only the first sector of the range is dropped.
DroppedFirst(lba, count) == {s \in CacheSlots : count > 0 /\ tag[s] = lba}

\* The slots that write_sectors empties before it writes.
Dropped(lba, count) == {s \in CacheSlots : tag[s] \in Span(lba, count)}

WriteSectors(lba, count, new) ==
    /\ call.pc = "idle"
    /\ \/ /\ lba + count > Sectors
          /\ reply' = D!PlainError
          /\ UNCHANGED <<medium, tag>>
       \/ /\ lba + count <= Sectors
          /\ tag' = [s \in CacheSlots |-> IF s \in Dropped(lba, count) THEN NoLba ELSE tag[s]]
          /\ \/ /\ reply' = D!Returned(lba, count, new)
                /\ medium' = D!Written(lba, count, new)
             \/ /\ reply' = D!Failed(lba, count, new)
                /\ \E n \in 0 .. count : medium' = D!Written(lba, n, new)
    /\ UNCHANGED <<data, victim, call, buf>>

\* Bound: the sectors of one write have one content; the cache does not look at it.
BcNext ==
    \/ \E lba \in 0 .. Sectors, count \in 0 .. MaxCount :
          \/ ReadSectors(lba, count)
          \/ \E v \in Value : WriteSectors(lba, count, [i \in 1 .. count |-> v])
    \/ ReadHit
    \/ ReadMiss
    \/ FillSlot
    \/ ReadDone

BcSpec == BcInit /\ [][BcNext]_bcVars

-----------------------------------------------------------------------------

\* A cached sector never differs from the sector on the device, whatever was
\* evicted, rewritten or failed half-way before (write_sectors invalidates
\* before it writes, read_sectors keeps nothing of a run that failed).
CacheCoherent == \A s \in CacheSlots : tag[s] # NoLba => data[s] = medium[tag[s]]

\* No sector is in two entries, so that the lookup of write_sectors, which
\* finds one entry, drops every copy: a run of missing sectors longer than the
\* cache evicts its own beginning and must not meet it again.
CachedOnce == \A s, t \in CacheSlots : tag[s] = tag[t] /\ tag[s] # NoLba => s = t

\* The device with the cache in front of it is a plain disk.
CacheIsTransparent == D!DiskSpec

\* While a read is in progress, its caller's buffer holds the sectors before
\* index, and between the device read and the end of the inner loop the sectors
\* not yet kept are not cached: the entries evicted meanwhile are never among
\* the sectors still to be inserted.
ReadProgress ==
    IF call.pc = "idle" THEN reply.status # "pending"
    ELSE /\ reply = D!Pending(call.lba, call.count)
         /\ call.lba + call.count <= Sectors
         /\ call.index <= call.count
         /\ \A i \in 0 .. call.index - 1 : buf[i] = medium[call.lba + i]
         /\ call.pc = "fill" =>
              /\ call.first < call.index
              /\ \A i \in call.first .. call.index - 1 : ~Cached(call.lba + i)

--------------------------------------------------------------------------------
\* The cache never holds a sector that differs from the device, and never one
\* sector twice, also between the device reads of one read_sectors.
CacheSound ==
    /\ BcTypeInv /\ CacheCoherent /\ CachedOnce /\ ReadProgress
================================================================================
