----------------------------- MODULE BlockCacheProof -----------------------------
(***************************************************************************)
(* The sector cache of genome fat/cache.rs is correct and invisible for    *)
(* every device, every capacity and every length of a request: no entry    *)
(* differs from its sector, no sector has two entries, and the device      *)
(* with the cache in front of it answers as the plain disk of Disk does.   *)
(***************************************************************************)
EXTENDS BlockCache, WellFoundedInduction, TLAPS

\* A non-empty set of naturals has a least element (the scans of read_sectors
\* and insert stop at the first sector or slot they look for).
LEMMA LeastNatural ==
    ASSUME NEW S \in SUBSET Nat, S # {}
    PROVE  \E m \in S : \A n \in S : m <= n
<1>1. PICK m \in S : \A n \in S : ~(<<n, m>> \in OpToRel(<, Nat))
  BY NatLessThanWellFounded, WFMin
<1>2. \A n \in S : ~(n < m)
  BY <1>1 DEF OpToRel
<1> QED BY <1>2

\* The type that BcTypeInv gives to call.
CallType ==
    [pc : {"idle", "loop", "fill"}, lba : 0 .. Sectors, count : 0 .. MaxCount,
     index : 0 .. MaxCount, first : 0 .. MaxCount]

\* The inductive invariant: the conjuncts of CacheSound.
IInv == BcTypeInv /\ CacheCoherent /\ CachedOnce /\ ReadProgress

\* The loop of read_sectors stops at the first cached sector or at the end.
LEMMA RunEndExists ==
    ASSUME IInv, call.pc = "loop", call.index < call.count,
           ~Cached(call.lba + call.index)
    PROVE  /\ RunEnd \in call.index + 1 .. call.count
           /\ \A i \in call.index .. RunEnd - 1 : ~Cached(call.lba + i)
<1> DEFINE S == {e \in call.index + 1 .. call.count : e = call.count \/ Cached(call.lba + e)}
<1>1. call.index \in Nat /\ call.count \in Nat
  BY BlockCacheAssumption DEF IInv, BcTypeInv
<1>2. S \in SUBSET Nat /\ call.count \in S
  BY <1>1
<1>3. PICK m \in S : \A n \in S : m <= n
  BY <1>2, LeastNatural
<1>4. \A i \in call.index .. m - 1 : ~Cached(call.lba + i)
  <2> SUFFICES ASSUME NEW i \in call.index .. m - 1, Cached(call.lba + i) PROVE FALSE
    OBVIOUS
  <2>1. i # call.index
    OBVIOUS
  <2>2. i \in S /\ i < m
    BY <1>1, <2>1
  <2> QED BY <2>2, <1>1, <1>3
<1>5. \E e \in call.index + 1 .. call.count :
         /\ \A i \in call.index .. e - 1 : ~Cached(call.lba + i)
         /\ e = call.count \/ Cached(call.lba + e)
  BY <1>3, <1>4
<1> QED BY Zenon, <1>5 DEF RunEnd

\* insert finds a slot: an empty one, or next_victim, which stays in range.
LEMMA EvictSlotExists ==
    ASSUME BcTypeInv
    PROVE  EvictSlot \in CacheSlots /\ NextVictim \in CacheSlots
<1>1. EvictSlot \in CacheSlots
  <2>1. CASE ~Cached(NoLba)
    BY <2>1 DEF EvictSlot, BcTypeInv
  <2>2. CASE Cached(NoLba)
    <3> DEFINE S == {s \in CacheSlots : tag[s] = NoLba}
    <3>1. S \in SUBSET Nat /\ S # {}
      BY <2>2, BlockCacheAssumption DEF CacheSlots, Cached
    <3>2. PICK s \in S : \A t \in S : s <= t
      BY <3>1, LeastNatural
    <3>3. \A t \in 0 .. s - 1 : tag[t] # NoLba
      <4> SUFFICES ASSUME NEW t \in 0 .. s - 1, tag[t] = NoLba PROVE FALSE
        OBVIOUS
      <4>1. t \in S /\ t < s
        BY <3>2, BlockCacheAssumption DEF CacheSlots
      <4> QED BY <4>1, <3>2, <3>1
    <3>4. \E u \in CacheSlots : tag[u] = NoLba /\ \A t \in 0 .. u - 1 : tag[t] # NoLba
      BY <3>2, <3>3
    <3> QED BY Zenon, <2>2, <3>4 DEF EvictSlot
  <2> QED BY <2>1, <2>2
<1>2. NextVictim \in CacheSlots
  BY BlockCacheAssumption DEF NextVictim, CacheSlots, BcTypeInv
<1> QED BY <1>1, <1>2

\* An empty cache in front of any medium satisfies the invariant.
LEMMA InitIInv == BcInit => IInv
<1> SUFFICES ASSUME BcInit PROVE IInv
  OBVIOUS
<1>1. ZeroSector \in Value
  BY BlockCacheAssumption DEF ZeroSector
<1>2. BcTypeInv
  <2>1. call \in CallType
    BY BlockCacheAssumption DEF BcInit, NoRequest, CallType
  <2>2. 0 \in CacheSlots
    BY BlockCacheAssumption DEF CacheSlots
  <2> QED BY <1>1, <2>1, <2>2 DEF BcInit, BcTypeInv, Blank, CallType
<1>3. \A s \in CacheSlots : tag[s] = NoLba
  BY DEF BcInit
<1>4. ReadProgress
  BY DEF BcInit, NoRequest, ReadProgress, D!PlainError, D!Failed
<1> QED BY <1>2, <1>3, <1>4 DEF IInv, CacheCoherent, CachedOnce

\* The range of the read in progress, as numbers.
LEMMA CallRange ==
    ASSUME IInv
    PROVE  /\ call.lba \in 0 .. Sectors /\ call.count \in 0 .. MaxCount
           /\ call.index \in 0 .. MaxCount /\ call.first \in 0 .. MaxCount
           /\ call.pc \in {"idle", "loop", "fill"}
           /\ Sectors \in Nat /\ MaxCount \in Nat /\ NoLba = -1
           /\ call = [pc |-> call.pc, lba |-> call.lba, count |-> call.count,
                      index |-> call.index, first |-> call.first]
BY BlockCacheAssumption DEF IInv, BcTypeInv, NoLba

\* Entering read_sectors (range check included) preserves the invariant.
LEMMA ReadSectorsIInv ==
    ASSUME IInv, NEW lba \in 0 .. Sectors, NEW count \in 0 .. MaxCount, ReadSectors(lba, count)
    PROVE  IInv'
<1>1. BcTypeInv'
  BY BlockCacheAssumption DEF IInv, BcTypeInv, ReadSectors
<1>2. CacheCoherent' /\ CachedOnce'
  BY DEF IInv, CacheCoherent, CachedOnce, ReadSectors
<1>3. ReadProgress'
  BY BlockCacheAssumption DEF IInv, BcTypeInv, ReadProgress, ReadSectors, Cached,
     D!Pending, D!PlainError, D!Failed
<1> QED BY <1>1, <1>2, <1>3 DEF IInv

\* A hit copies what the device holds, because the entry is coherent.
LEMMA ReadHitIInv ==
    ASSUME IInv, ReadHit
    PROVE  IInv'
<1> DEFINE l == call.lba + call.index
<1>1. Lookup(l) \in CacheSlots /\ tag[Lookup(l)] = l
  BY Zenon DEF ReadHit, Cached, Lookup
<1>2. data[Lookup(l)] = medium[l] /\ data[Lookup(l)] \in Value
  BY <1>1, CallRange DEF IInv, CacheCoherent, BcTypeInv
<1>3. BcTypeInv'
  <2>1. call' = [pc |-> call.pc, lba |-> call.lba, count |-> call.count,
                 index |-> call.index + 1, first |-> call.first]
    BY CallRange DEF ReadHit
  <2>2. call' \in CallType
    BY <2>1, CallRange DEF CallType, ReadHit
  <2> QED BY <1>2, <2>2 DEF IInv, BcTypeInv, ReadHit, CallType
<1>4. CacheCoherent' /\ CachedOnce'
  BY DEF IInv, CacheCoherent, CachedOnce, ReadHit
<1>5. ReadProgress'
  <2>1. /\ call'.pc = "loop" /\ call'.lba = call.lba /\ call'.count = call.count
        /\ call'.index = call.index + 1
    BY CallRange DEF ReadHit
  <2>2. \A i \in 0 .. call.index : buf'[i] = medium[call.lba + i]
    <3> TAKE i \in 0 .. call.index
    <3>1. i \in DOMAIN buf /\ buf' = [buf EXCEPT ![call.index] = medium[l]]
      BY <1>2, CallRange DEF IInv, BcTypeInv, ReadHit
    <3>2. i # call.index => i \in 0 .. call.index - 1
      BY CallRange
    <3> QED BY <3>1, <3>2 DEF IInv, ReadProgress, ReadHit
  <2> QED BY SMTT(30), <2>1, <2>2, CallRange DEF IInv, ReadProgress, ReadHit, D!Pending
<1> QED BY <1>3, <1>4, <1>5 DEF IInv

\* A device read of the missing run leaves exactly uncached sectors to keep.
LEMMA ReadMissIInv ==
    ASSUME IInv, ReadMiss
    PROVE  IInv'
<1>1. /\ RunEnd \in call.index + 1 .. call.count
      /\ \A i \in call.index .. RunEnd - 1 : ~Cached(call.lba + i)
  BY RunEndExists DEF ReadMiss
<1>2. CacheCoherent' /\ CachedOnce'
  BY DEF IInv, CacheCoherent, CachedOnce, ReadMiss
<1>3. CASE /\ buf' = [i \in DOMAIN buf |-> IF i \in call.index .. RunEnd - 1
                                            THEN medium[call.lba + i] ELSE buf[i]]
           /\ call' = [call EXCEPT !.pc = "fill", !.first = call.index, !.index = RunEnd]
           /\ UNCHANGED reply
  <2>1. /\ call'.pc = "fill" /\ call'.lba = call.lba /\ call'.count = call.count
        /\ call'.index = RunEnd /\ call'.first = call.index
    BY <1>3, CallRange
  <2>2. call' \in CallType
    <3>1. call' = [pc |-> "fill", lba |-> call.lba, count |-> call.count,
                   index |-> RunEnd, first |-> call.index]
      BY <1>3, CallRange
    <3> QED BY <1>1, <3>1, CallRange DEF CallType
  <2>3. \A i \in 0 .. MaxCount - 1 : i < call.count => call.lba + i \in CacheLbas
    BY CallRange DEF IInv, ReadProgress, ReadMiss, CacheLbas
  <2>4. buf' \in [0 .. MaxCount - 1 -> Value]
    <3>1. ASSUME NEW i \in 0 .. MaxCount - 1, i \in call.index .. RunEnd - 1
          PROVE  medium[call.lba + i] \in Value
      BY <3>1, <2>3, <1>1, CallRange DEF IInv, BcTypeInv
    <3> QED BY <3>1, <1>3 DEF IInv, BcTypeInv
  <2>5. \A i \in 0 .. RunEnd - 1 : buf'[i] = medium[call.lba + i]
    <3> TAKE i \in 0 .. RunEnd - 1
    <3>1. i \in DOMAIN buf
      BY <1>1, CallRange DEF IInv, BcTypeInv
    <3>2. i \notin call.index .. RunEnd - 1 => i \in 0 .. call.index - 1
      BY <1>1, CallRange
    <3> QED BY <3>1, <3>2, <1>3 DEF IInv, ReadProgress, ReadMiss
  <2>6. BcTypeInv'
    BY <2>2, <2>4 DEF IInv, BcTypeInv, ReadMiss, CallType
  <2>7. ReadProgress'
    <3>1. reply' = reply /\ medium' = medium /\ tag' = tag
      BY <1>3 DEF ReadMiss
    <3>2. \A l : Cached(l)' <=> Cached(l)
      BY <3>1 DEF Cached
    <3> QED BY <1>1, <2>1, <2>5, <3>1, <3>2, CallRange DEF IInv, ReadProgress, ReadMiss, D!Pending
  <2> QED BY <1>2, <2>6, <2>7 DEF IInv
<1>4. CASE reply' = D!PlainError /\ call' = NoRequest /\ buf' = Blank
  <2>1. BcTypeInv'
    <3>1. ZeroSector \in Value
      BY BlockCacheAssumption DEF ZeroSector
    <3>2. NoRequest \in CallType
      BY BlockCacheAssumption DEF NoRequest, CallType
    <3> QED BY <1>4, <3>1, <3>2 DEF IInv, BcTypeInv, ReadMiss, Blank, CallType
  <2>2. ReadProgress'
    BY <1>4 DEF ReadProgress, NoRequest, D!PlainError, D!Failed
  <2> QED BY <1>2, <2>1, <2>2 DEF IInv
<1> QED BY <1>3, <1>4 DEF ReadMiss

\* Keeping one sector evicts some other one and never makes a second entry.
LEMMA FillSlotIInv ==
    ASSUME IInv, FillSlot
    PROVE  IInv'
<1> DEFINE e == EvictSlot
           l == call.lba + call.first
<1>1. e \in CacheSlots /\ NextVictim \in CacheSlots
  BY EvictSlotExists DEF IInv
<1>2. /\ call.first < call.index /\ call.index <= call.count /\ call.lba + call.count <= Sectors
      /\ ~Cached(l) /\ buf[call.first] = medium[l]
  BY CallRange DEF IInv, ReadProgress, FillSlot
<1>3. l \in CacheLbas /\ l # NoLba /\ buf[call.first] \in Value
  BY <1>2, CallRange DEF CacheLbas, IInv, BcTypeInv
<1>4. /\ tag' = [tag EXCEPT ![e] = l] /\ data' = [data EXCEPT ![e] = buf[call.first]]
      /\ victim' = NextVictim /\ medium' = medium /\ reply' = reply /\ buf' = buf
  BY DEF FillSlot
<1>5. /\ call'.pc = (IF call.first + 1 = call.index THEN "loop" ELSE "fill")
      /\ call'.lba = call.lba /\ call'.count = call.count
      /\ call'.index = call.index /\ call'.first = call.first + 1
      /\ call' \in CallType
  <2>1. call' = [pc |-> IF call.first + 1 = call.index THEN "loop" ELSE "fill",
                 lba |-> call.lba, count |-> call.count,
                 index |-> call.index, first |-> call.first + 1]
    BY CallRange DEF FillSlot
  <2> QED BY <1>2, <2>1, CallRange DEF CallType
<1> HIDE DEF e, l
<1>6. /\ \A s \in CacheSlots : s # e => tag'[s] = tag[s] /\ data'[s] = data[s]
      /\ tag'[e] = l /\ data'[e] = buf[call.first]
  BY <1>1, <1>4 DEF IInv, BcTypeInv
<1>7. BcTypeInv'
  BY <1>1, <1>3, <1>4, <1>5 DEF IInv, BcTypeInv, CallType
<1>8. CacheCoherent'
  BY <1>2, <1>4, <1>6 DEF IInv, CacheCoherent
<1>9. CachedOnce'
  BY <1>1, <1>2, <1>6 DEF IInv, CachedOnce, Cached
<1>10. ReadProgress'
  <2>1. \A i \in call.first + 1 .. call.index - 1 :
          \A s \in CacheSlots : tag'[s] # call.lba + i
    <3> SUFFICES ASSUME NEW i \in call.first + 1 .. call.index - 1, NEW s \in CacheSlots,
                        tag'[s] = call.lba + i
                 PROVE  FALSE
      OBVIOUS
    <3>1. i \in call.first .. call.index - 1 /\ call.lba + i # l
      BY CallRange DEF l
    <3>2. tag[s] = call.lba + i
      BY <1>6, <3>1
    <3>3. call.pc = "fill"
      BY DEF FillSlot
    <3> QED BY <3>1, <3>2, <3>3 DEF IInv, ReadProgress, Cached
  <2>2. \A i \in 0 .. call.index - 1 : buf[i] = medium[call.lba + i]
    BY DEF IInv, ReadProgress, FillSlot
  <2> QED BY <1>2, <1>4, <1>5, <2>1, <2>2, CallRange DEF IInv, ReadProgress, FillSlot, Cached, D!Pending
<1> QED BY <1>7, <1>8, <1>9, <1>10 DEF IInv

\* A finished read has delivered the whole range.
LEMMA ReadDoneIInv ==
    ASSUME IInv, ReadDone
    PROVE  IInv'
<1>1. BcTypeInv'
  <2>1. ZeroSector \in Value
    BY BlockCacheAssumption DEF ZeroSector
  <2>2. NoRequest \in CallType
    BY BlockCacheAssumption DEF NoRequest, CallType
  <2> QED BY <2>1, <2>2 DEF IInv, BcTypeInv, ReadDone, Blank, CallType
<1>2. CacheCoherent' /\ CachedOnce'
  BY DEF IInv, CacheCoherent, CachedOnce, ReadDone
<1>3. ReadProgress'
  BY DEF ReadProgress, ReadDone, NoRequest, D!Returned
<1> QED BY <1>1, <1>2, <1>3 DEF IInv

\* What write_sectors leaves in the cache was not in its range, so it still
\* agrees with the device whatever part of the range was written.
LEMMA WriteSectorsIInv ==
    ASSUME IInv, NEW lba \in 0 .. Sectors, NEW count \in 0 .. MaxCount,
           NEW new \in [1 .. count -> Value], WriteSectors(lba, count, new)
    PROVE  IInv'
<1>0. /\ data' = data /\ victim' = victim /\ call' = call /\ buf' = buf
      /\ call.pc = "idle"
  BY DEF WriteSectors
<1>1. CASE /\ lba + count > Sectors
           /\ reply' = D!PlainError
           /\ UNCHANGED <<medium, tag>>
  <2>1. BcTypeInv' /\ CacheCoherent' /\ CachedOnce'
    BY <1>0, <1>1 DEF IInv, BcTypeInv, CacheCoherent, CachedOnce
  <2>2. ReadProgress'
    BY <1>0, <1>1 DEF ReadProgress, D!PlainError, D!Failed
  <2> QED BY <2>1, <2>2 DEF IInv
<1>2. CASE /\ lba + count <= Sectors
           /\ tag' = [s \in CacheSlots |-> IF s \in Dropped(lba, count) THEN NoLba ELSE tag[s]]
           /\ \/ /\ reply' = D!Returned(lba, count, new)
                 /\ medium' = D!Written(lba, count, new)
              \/ /\ reply' = D!Failed(lba, count, new)
                 /\ \E n \in 0 .. count : medium' = D!Written(lba, n, new)
  <2>1. PICK n \in 0 .. count : medium' = D!Written(lba, n, new)
    BY <1>2
  <2>2. \A s \in CacheSlots : tag'[s] = NoLba \/ (tag'[s] = tag[s] /\ tag[s] \notin lba .. lba + count - 1)
    BY <1>2 DEF Dropped, Span
  <2>3. /\ medium' \in [CacheLbas -> Value]
        /\ \A s \in CacheLbas : s \notin lba .. lba + count - 1 => medium'[s] = medium[s]
    <3>1. ASSUME NEW s \in CacheLbas, s \in lba .. lba + n - 1
          PROVE  new[s - lba + 1] \in Value /\ s \in lba .. lba + count - 1
      <4>1. s - lba + 1 \in 1 .. count
        BY <3>1, <1>2, BlockCacheAssumption DEF CacheLbas
      <4> QED BY <4>1, <3>1, BlockCacheAssumption DEF CacheLbas
    <3> QED BY SMTT(30), <2>1, <3>1 DEF IInv, BcTypeInv, D!Written, D!Span, D!Lbas, CacheLbas
  <2>4. BcTypeInv'
    <3>1. tag' \in [CacheSlots -> CacheLbas \cup {NoLba}]
      BY <1>2, <2>2 DEF IInv, BcTypeInv
    <3> QED BY <1>0, <2>3, <3>1 DEF IInv, BcTypeInv
  <2>5. CacheCoherent'
    BY <1>0, <2>2, <2>3 DEF IInv, BcTypeInv, CacheCoherent
  <2>6. CachedOnce'
    BY <2>2 DEF IInv, CachedOnce
  <2>7. ReadProgress'
    BY <1>0, <1>2 DEF ReadProgress, D!Returned, D!Failed
  <2> QED BY <2>4, <2>5, <2>6, <2>7 DEF IInv
<1> QED BY <1>0, <1>1, <1>2 DEF WriteSectors

\* Every step of the cached device preserves the invariant.
LEMMA NextIInv ==
    ASSUME IInv, [BcNext]_bcVars
    PROVE  IInv'
<1>1. ASSUME NEW lba \in 0 .. Sectors, NEW count \in 0 .. MaxCount, NEW v \in Value,
             WriteSectors(lba, count, [i \in 1 .. count |-> v])
      PROVE  IInv'
  BY <1>1, WriteSectorsIInv
<1>2. CASE UNCHANGED bcVars
  BY <1>2 DEF bcVars, IInv, BcTypeInv, CacheCoherent, CachedOnce, ReadProgress, Cached,
     D!Pending
<1> QED BY <1>1, <1>2, ReadSectorsIInv, ReadHitIInv, ReadMissIInv, FillSlotIInv, ReadDoneIInv
        DEF BcNext

\* The inductive invariant holds throughout.
THEOREM CacheInvariant == BcSpec => []IInv
BY InitIInv, NextIInv, PTL DEF BcSpec

\* Whatever sequence of reads, partial reads, evictions, writes and failures the
\* cache has seen, every entry equals its sector on the device and no sector has
\* two entries.
THEOREM CacheAlwaysSound == BcSpec => []CacheSound
<1>1. IInv => CacheSound
  BY DEF IInv, CacheSound
<1> QED BY <1>1, CacheInvariant, PTL

-----------------------------------------------------------------------------

\* Every step of the cache is a step of the plain disk or changes nothing that
\* the disk shows: the turns of the loop of read_sectors are not visible, its
\* answer is.
LEMMA StepRefines ==
    ASSUME IInv, [BcNext]_bcVars
    PROVE  [D!DiskNext]_(D!diskVars)
<1> SUFFICES ASSUME D!diskVars' # D!diskVars
             PROVE  D!DiskNext
  OBVIOUS
<1>0. medium' # medium \/ reply' # reply
  BY DEF D!diskVars
<1>1. ASSUME NEW lba \in 0 .. Sectors, NEW count \in 0 .. MaxCount, ReadSectors(lba, count)
      PROVE  D!Rejects(lba, count) \/ D!SubmitRead(lba, count)
  BY <1>1, BlockCacheAssumption DEF ReadSectors, D!Rejects, D!SubmitRead, IInv, ReadProgress
<1>2. ASSUME NEW lba \in 0 .. Sectors, NEW count \in 0 .. MaxCount,
             NEW new \in [1 .. count -> Value], WriteSectors(lba, count, new)
      PROVE  D!Rejects(lba, count) \/ D!DiskWrite(lba, count)
  <2>1. reply.status # "pending"
    BY <1>2 DEF WriteSectors, IInv, ReadProgress
  <2>2. CASE lba + count > Sectors
    BY <1>2, <2>1, <2>2, BlockCacheAssumption DEF WriteSectors, D!Rejects
  <2>3. CASE ~(lba + count > Sectors)
    <3>1. /\ lba + count <= Sectors
          /\ \/ /\ reply' = D!Returned(lba, count, new)
                /\ medium' = D!Written(lba, count, new)
             \/ /\ reply' = D!Failed(lba, count, new)
                /\ \E n \in 0 .. count : medium' = D!Written(lba, n, new)
      BY <1>2, <2>3, BlockCacheAssumption DEF WriteSectors
    <3>2. reply'.lba = lba /\ reply'.count = count
      BY <3>1 DEF D!Returned, D!Failed
    <3> QED BY <2>1, <3>1, <3>2 DEF D!DiskWrite
  <2> QED BY <2>2, <2>3
<1>3. ASSUME ReadMiss PROVE D!DiskRead(call.lba, call.count)
  BY <1>0, <1>3 DEF ReadMiss, D!DiskRead, IInv, ReadProgress
<1>4. ASSUME ReadDone PROVE D!DiskRead(call.lba, call.count)
  <2>1. [i \in 1 .. call.count |-> buf[i - 1]] = [i \in 1 .. call.count |-> medium[call.lba + i - 1]]
    <3>1. ASSUME NEW i \in 1 .. call.count PROVE buf[i - 1] = medium[call.lba + i - 1]
      <4>1. i - 1 \in 0 .. call.index - 1 /\ call.lba + (i - 1) = call.lba + i - 1
        BY <1>4, CallRange DEF ReadDone
      <4> QED BY <1>4, <4>1 DEF ReadDone, IInv, ReadProgress
    <3> QED BY <3>1
  <2> QED BY <1>4, <2>1 DEF ReadDone, D!DiskRead, IInv, ReadProgress
<1>5. ~ReadHit /\ ~FillSlot
  BY <1>0 DEF ReadHit, FillSlot
<1>6. ~UNCHANGED bcVars
  BY <1>0 DEF bcVars
<1>7. \E lba \in 0 .. Sectors, count \in 0 .. MaxCount :
         \/ D!Rejects(lba, count) \/ D!SubmitRead(lba, count)
         \/ D!DiskRead(lba, count) \/ D!DiskWrite(lba, count)
  <2>1. \A count \in 0 .. MaxCount, v \in Value : [i \in 1 .. count |-> v] \in [1 .. count -> Value]
    OBVIOUS
  <2> QED BY <1>1, <1>2, <1>3, <1>4, <1>5, <1>6, <2>1, CallRange DEF BcNext
<1> QED BY <1>7 DEF D!DiskNext

\* The device with the cache in front of it implements the plain disk, for every
\* size of the device, of the cache and of the requests: a filesystem cannot tell
\* whether there is a cache.
THEOREM CacheRefinesDisk == BcSpec => CacheIsTransparent
<1>1. BcInit => D!DiskInit
  BY DEF BcInit, D!DiskInit, CacheLbas, D!Lbas
<1>2. IInv /\ [BcNext]_bcVars => [D!DiskNext]_(D!diskVars)
  BY StepRefines
<1> QED BY <1>1, <1>2, CacheInvariant, PTL DEF BcSpec, CacheIsTransparent, D!DiskSpec
================================================================================
