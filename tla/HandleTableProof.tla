---------------------------- MODULE HandleTableProof ----------------------------
(***************************************************************************)
(* What the eight-bit generation and slot numbers of a handle guarantee:   *)
(* as long as a table has no more than SlotMod live entries, a handle      *)
(* finds its own object while that object is in the table, and no other    *)
(* object before its slot has been reused GenMod times, however often the  *)
(* generation wraps.                                                       *)
(***************************************************************************)
EXTENDS HandleTable, TLAPS

\* The slot number is wide enough: Handle::new truncates none.
Fits == MaxSlots <= SlotMod

\* A number below the modulus is its own remainder (the casts in Handle::new).
LEMMA SmallMod == \A a, b \in Nat : a < b => a % b = a
BY SMT

LEMMA ZeroNat == 0 \in Nat
OBVIOUS

\* A remainder is determined by any representation of the number.
LEMMA Remainder ==
    ASSUME NEW n \in Nat \ {0}, NEW a, NEW r \in 0 .. n - 1, \E q \in Int : a = n * q + r
    PROVE  a % n = r
OBVIOUS

LEMMA Quotient ==
    ASSUME NEW n \in Nat \ {0}, NEW a \in Int
    PROVE  \E q \in Int, r \in 0 .. n - 1 : a = n * q + r /\ a % n = r
<1>1. a % n \in 0 .. n - 1
  OBVIOUS
<1>2. a \div n \in Int /\ a = n * (a \div n) + (a % n)
  OBVIOUS
<1> QED BY <1>1, <1>2

\* wrapping_add(1) on a counter kept modulo n is the counter plus one, modulo n.
LEMMA WrappingAdd ==
    ASSUME NEW n \in Nat \ {0}, NEW a \in Int
    PROVE  ((a % n) + 1) % n = (a + 1) % n
<1>1. PICK q \in Int, r \in 0 .. n - 1 : a = n * q + r /\ a % n = r
  BY Zenon, Quotient
<1>2. CASE r + 1 < n
  <2>1. r + 1 \in 0 .. n - 1 /\ a + 1 = n * q + (r + 1)
    BY <1>1, <1>2
  <2>2. (a + 1) % n = r + 1
    BY <2>1, Remainder
  <2>3. r + 1 \in Nat /\ n \in Nat
    OBVIOUS
  <2>4. (r + 1) % n = r + 1
    BY <1>2, <2>3, SmallMod
  <2> QED BY <1>1, <2>2, <2>4
<1>3. CASE r + 1 = n
  <2>1. 0 \in 0 .. n - 1 /\ a + 1 = n * (q + 1) + 0 /\ q + 1 \in Int
    BY <1>1, <1>3
  <2>2. \E k \in Int : a + 1 = n * k + 0
    BY Zenon, <2>1
  <2>3. (a + 1) % n = 0
    BY Zenon, <2>1, <2>2, Remainder
  <2>4. n % n = 0
    OBVIOUS
  <2> QED BY <1>1, <1>3, <2>3, <2>4
<1> QED BY <1>2, <1>3

\* Counters less than n apart have different remainders.
LEMMA LessThanApart ==
    ASSUME NEW n \in Nat \ {0}, NEW a \in Int, NEW b \in Int, a < b, b < a + n
    PROVE  a % n # b % n
<1>1. PICK q \in Int, r \in 0 .. n - 1 : a = n * q + r /\ a % n = r
  BY Zenon, Quotient
<1> DEFINE s == r + (b - a)
<1>2. s \in Int /\ s > r /\ s < r + n /\ b = n * q + s
  BY <1>1
<1> HIDE DEF s
<1>3. CASE s < n
  <2>1. s \in 0 .. n - 1
    BY <1>2, <1>3
  <2>2. b % n = s
    BY <1>2, <2>1, Remainder
  <2> QED BY <1>1, <1>2, <2>2
<1>4. CASE s >= n
  <2>1. s - n \in 0 .. n - 1 /\ b = n * (q + 1) + (s - n) /\ q + 1 \in Int
    BY <1>2, <1>4
  <2>2. \E k \in Int : b = n * k + (s - n)
    BY Zenon, <2>1
  <2>3. b % n = s - n
    BY Zenon, <2>1, <2>2, Remainder
  <2> QED BY <1>1, <1>2, <2>3
<1> QED BY <1>2, <1>3, <1>4

\* The generations are the use counts of the slots modulo GenMod, and every handle
\* carries the use of its slot that it was issued for.
IInv ==
    /\ TypeInv
    /\ \A s \in Slots : gen[s] = uses[s] % GenMod
    /\ \A k \in 1 .. issued :
           /\ handle[k].slot \in Slots
           /\ handle[k].gen = nth[k] % GenMod
           /\ nth[k] <= uses[handle[k].slot]
    /\ \A j, k \in 1 .. issued :
           j < k /\ handle[j].slot = handle[k].slot => nth[j] < nth[k]
    /\ \A s \in Slots : entry[s] # 0 =>
           /\ entry[s] <= issued
           /\ handle[entry[s]] = [slot |-> s, gen |-> gen[s]]
           /\ nth[entry[s]] = uses[s]
    /\ CleanupReleasesAll

\* The history of an allocation stays a history of natural numbers.
LEMMA UsedTypes ==
    ASSUME TypeInv, NEW s \in Slots, Used(s)
    PROVE  uses' \in [Slots -> Nat] /\ nth' \in [Allocs -> Nat]
<1>1. uses[s] + 1 \in Nat
  BY DEF TypeInv
<1> QED BY Zenon, <1>1 DEF TypeInv, Used

\* The empty table satisfies the inductive invariant.
LEMMA InitIInv == Init => IInv
<1> SUFFICES ASSUME Init PROVE IInv
  OBVIOUS
<1>1. NoHandle \in Handles
  BY DEF NoHandle, Handles
<1>2. 0 \in 0 .. GenMod - 1 /\ 0 \in 0 .. MaxAllocs /\ 1 .. 0 = {}
  BY HandleAssumption
<1>3. TypeInv
  BY Zenon, <1>1, <1>2, ZeroNat DEF Init, TypeInv
<1>4. 0 % GenMod = 0
  BY HandleAssumption
<1> QED BY <1>2, <1>3, <1>4 DEF Init, IInv, CleanupReleasesAll

\* An entry is an allocation that has taken place.
LEMMA EntryIssued ==
    ASSUME IInv, NEW s \in Slots, entry[s] # 0
    PROVE  entry[s] \in 1 .. issued
<1>1. entry[s] \in 0 .. MaxAllocs /\ issued \in 0 .. MaxAllocs /\ entry[s] <= issued
  BY Zenon DEF IInv, TypeInv
<1> QED BY <1>1, HandleAssumption

\* Alloc: the new handle carries a later use of its slot than every earlier handle.
LEMMA AllocPreserves ==
    ASSUME Fits, IInv, NEW s \in Slots, Alloc(s)
    PROVE  IInv'
<1> DEFINE n == issued + 1
           u == uses[s] + 1
           g == u % GenMod
           h == [slot |-> s, gen |-> g]
<1>0. /\ n \in Allocs /\ n \in Nat /\ s \in Nat /\ gen[s] \in Nat /\ issued \in Nat
      /\ uses[s] \in Nat /\ u \in Nat /\ GenMod \in Nat \ {0}
  BY SMTT(30), HandleAssumption DEF IInv, TypeInv, Alloc, Allocs, Slots
<1>1. s % SlotMod = s /\ (gen[s] + 1) % GenMod = g /\ g \in 0 .. GenMod - 1
  <2>1. s < SlotMod
    BY HandleAssumption DEF Fits, Slots
  <2>2. s % SlotMod = s
    BY <2>1, <1>0, SmallMod, HandleAssumption
  <2>3. gen[s] = uses[s] % GenMod /\ uses[s] \in Int
    BY <1>0 DEF IInv
  <2>4. (gen[s] + 1) % GenMod = g
    BY <2>3, <1>0, WrappingAdd
  <2> QED BY <2>2, <2>4, <1>0
<1>2. /\ issued' = n
      /\ gen' = [gen EXCEPT ![s] = g]
      /\ entry' = [entry EXCEPT ![s] = n]
      /\ handle' = [handle EXCEPT ![n] = h]
      /\ uses' = [uses EXCEPT ![s] = u]
      /\ nth' = [nth EXCEPT ![n] = u]
      /\ ended' = ended /\ ~ended
      /\ entry[s] = 0
  BY Zenon, <1>1 DEF Alloc, FreeSlot, Used
<1> HIDE DEF h
<1>3. h.slot = s /\ h.gen = g /\ h = [slot |-> s, gen |-> g]
  BY DEF h
<1>u. u = uses[s] + 1 /\ g = u % GenMod
  OBVIOUS
<1>4. h \in Handles
  BY <1>0, <1>1, <1>3 DEF Handles
<1> HIDE DEF n, u, g
<1>n. n = issued + 1 BY DEF n
<1>5. TypeInv'
  <2>1. n \in 0 .. MaxAllocs
    BY <1>0, HandleAssumption DEF Allocs
  <2>2. gen' \in [Slots -> 0 .. GenMod - 1]
    BY <1>1, <1>2 DEF IInv, TypeInv
  <2>3. entry' \in [Slots -> 0 .. MaxAllocs]
    BY <2>1, <1>2 DEF IInv, TypeInv
  <2>4. handle' \in [Allocs -> Handles]
    BY Zenon, <1>2, <1>4 DEF IInv, TypeInv
  <2>5. uses' \in [Slots -> Nat] /\ nth' \in [Allocs -> Nat]
    BY UsedTypes DEF Alloc, IInv
  <2> QED BY <2>1, <2>2, <2>3, <2>4, <2>5, <1>2 DEF IInv, TypeInv
<1>6. /\ \A k \in 1 .. issued : handle'[k] = handle[k] /\ nth'[k] = nth[k] /\ k \in Allocs
      /\ handle'[n] = h /\ nth'[n] = u
      /\ gen'[s] = g /\ uses'[s] = u
      /\ \A t \in Slots : t # s => gen'[t] = gen[t] /\ entry'[t] = entry[t] /\ uses'[t] = uses[t]
      /\ entry'[s] = n
  BY <1>0, <1>2, <1>n, HandleAssumption DEF IInv, TypeInv, Allocs
<1>7. \A t \in Slots : /\ gen'[t] = uses'[t] % GenMod
                       /\ uses[t] \in Nat /\ uses'[t] \in Nat /\ uses[t] <= uses'[t]
  BY <1>0, <1>u, <1>6 DEF IInv, TypeInv
<1>8. \A k \in 1 .. issued : /\ handle[k].slot \in Slots
                             /\ handle[k].gen = nth[k] % GenMod
                             /\ nth[k] \in Nat
                             /\ nth[k] <= uses[handle[k].slot]
  BY <1>6 DEF IInv, TypeInv
<1>9. \A k \in 1 .. issued' : /\ handle'[k].slot \in Slots
                              /\ handle'[k].gen = nth'[k] % GenMod
                              /\ nth'[k] <= uses'[handle'[k].slot]
  <2> TAKE k \in 1 .. issued'
  <2>1. CASE k = n
    BY <2>1, <1>3, <1>6, <1>0, <1>u
  <2>2. CASE k # n
    <3>1. k \in 1 .. issued
      BY <2>2, <1>2, <1>n, <1>0
    <3> QED BY <3>1, <1>6, <1>7, <1>8
  <2> QED BY <2>1, <2>2
<1>10. \A j, k \in 1 .. issued' :
           j < k /\ handle'[j].slot = handle'[k].slot => nth'[j] < nth'[k]
  <2> SUFFICES ASSUME NEW j \in 1 .. issued', NEW k \in 1 .. issued', j < k,
                      handle'[j].slot = handle'[k].slot
               PROVE  nth'[j] < nth'[k]
    OBVIOUS
  <2>1. j \in 1 .. issued
    BY <1>2, <1>n, <1>0
  <2>2. CASE k = n
    BY <2>1, <2>2, <1>3, <1>6, <1>8, <1>0, <1>u
  <2>3. CASE k # n
    <3>1. k \in 1 .. issued
      BY <2>3, <1>2, <1>n, <1>0
    <3> QED BY <3>1, <2>1, <1>6 DEF IInv
  <2> QED BY <2>2, <2>3
<1>11. \A t \in Slots : entry'[t] # 0 =>
           /\ entry'[t] <= issued'
           /\ handle'[entry'[t]] = [slot |-> t, gen |-> gen'[t]]
           /\ nth'[entry'[t]] = uses'[t]
  <2> TAKE t \in Slots
  <2> HAVE entry'[t] # 0
  <2>1. CASE t = s
    BY <2>1, <1>2, <1>3, <1>6, <1>0
  <2>2. CASE t # s
    <3>1. entry[t] # 0 /\ entry'[t] = entry[t] /\ gen'[t] = gen[t] /\ uses'[t] = uses[t]
      BY <2>2, <1>6
    <3>2. entry[t] \in 1 .. issued
      BY <3>1, EntryIssued
    <3> QED BY <3>1, <3>2, <1>6, <1>2, <1>n, <1>0 DEF IInv
  <2> QED BY <2>1, <2>2
<1>12. CleanupReleasesAll'
  BY <1>2 DEF CleanupReleasesAll
<1> QED BY <1>5, <1>7, <1>9, <1>10, <1>11, <1>12 DEF IInv

\* RemoveHandle and Cleanup only take entries out of the table.
LEMMA ReleasePreserves ==
    ASSUME Fits, IInv, (\E k \in Allocs : RemoveHandle(k)) \/ Cleanup
    PROVE  IInv'
<1>1. CASE \E k \in Allocs : RemoveHandle(k)
  <2>1. PICK k \in Allocs : RemoveHandle(k)
    BY <1>1
  <2>2. UNCHANGED <<gen, issued, handle, uses, nth, ended>> /\ ~ended
    BY <2>1 DEF RemoveHandle
  <2>3. entry' = [entry EXCEPT ![handle[k].slot] = 0] /\ 0 \in 0 .. MaxAllocs
    BY <2>1, HandleAssumption DEF RemoveHandle
  <2>4. entry \in [Slots -> 0 .. MaxAllocs]
    BY DEF IInv, TypeInv
  <2>5. entry' \in [Slots -> 0 .. MaxAllocs] /\ \A s \in Slots : entry'[s] \in {0, entry[s]}
    BY Zenon, <2>3, <2>4
  <2> QED BY <2>2, <2>5 DEF IInv, TypeInv, CleanupReleasesAll
<1>2. CASE Cleanup
  <2>1. UNCHANGED <<gen, issued, handle, uses, nth>> /\ ended' = TRUE
    BY <1>2 DEF Cleanup
  <2>2. \A t \in Slots : t \in Nat /\ t < SlotMod
    BY HandleAssumption DEF Fits, Slots
  <2>3. \A t \in Slots : t % SlotMod = t
    BY <2>2, SmallMod, HandleAssumption
  <2>4. entry' = [s \in Slots |->
                     IF \E t \in Slots : entry[t] # 0 /\ t % SlotMod = s /\ gen[t] = gen[s]
                     THEN 0 ELSE entry[s]]
    BY <1>2 DEF Cleanup
  <2>5. entry' \in [Slots -> 0 .. MaxAllocs] /\ \A s \in Slots : entry'[s] = 0
    BY <2>3, <2>4, HandleAssumption DEF IInv, TypeInv
  <2> QED BY <2>1, <2>5 DEF IInv, TypeInv, CleanupReleasesAll
<1> QED BY <1>1, <1>2

\* As long as no slot number is truncated, the invariant holds in every reachable state.
THEOREM InductiveInvariant == ASSUME Fits PROVE Spec => []IInv
<1>1. IInv /\ [Next]_vars => IInv'
  <2> SUFFICES ASSUME IInv, [Next]_vars PROVE IInv'
    OBVIOUS
  <2>1. CASE \E s \in Slots : Alloc(s)
    BY <2>1, AllocPreserves
  <2>2. CASE (\E k \in Allocs : RemoveHandle(k)) \/ Cleanup
    BY <2>2, ReleasePreserves
  <2>3. CASE UNCHANGED vars
    BY <2>3 DEF vars, IInv, TypeInv, CleanupReleasesAll
  <2> QED BY <2>1, <2>2, <2>3 DEF Next
<1> QED BY InitIInv, <1>1, PTL DEF Spec

\* A handle finds no object but its own (get_mut's generation check) before its slot
\* has been reused GenMod times, whatever the number of allocations and however often
\* the generations have wrapped.
THEOREM NoStaleResolution == ASSUME Fits PROVE Spec => []StaleNeverResolves
<1>1. IInv => StaleNeverResolves
  <2> SUFFICES ASSUME IInv, NEW k \in 1 .. issued,
                      uses[handle[k].slot] - nth[k] < GenMod, Get(handle[k]) # 0
               PROVE  Get(handle[k]) = k
    BY DEF StaleNeverResolves
  <2> DEFINE s == handle[k].slot
             j == entry[s]
  <2>1. s \in Slots /\ j # 0 /\ gen[s] = handle[k].gen /\ Get(handle[k]) = j
    BY DEF Get
  <2>2. j \in 1 .. issued /\ handle[j].slot = s /\ nth[j] = uses[s]
    <3>1. handle[j] = [slot |-> s, gen |-> gen[s]] /\ nth[j] = uses[s]
      BY <2>1 DEF IInv
    <3> QED BY <3>1, <2>1, EntryIssued
  <2>3. nth[k] = uses[s]
    <3>1. /\ k \in Allocs /\ nth[k] \in Nat /\ uses[s] \in Nat
          /\ nth[k] <= uses[s] /\ uses[s] < nth[k] + GenMod
      BY SMTT(30), <2>1, HandleAssumption DEF IInv, TypeInv, Allocs
    <3>2. nth[k] % GenMod = uses[s] % GenMod
      BY <2>1 DEF IInv
    <3>3. ~(nth[k] < uses[s])
      BY <3>1, <3>2, LessThanApart, HandleAssumption
    <3> QED BY <3>1, <3>3
  <2>4. issued \in Nat
    BY HandleAssumption DEF IInv, TypeInv
  <2>5. uses[s] \in Nat
    BY <2>1 DEF IInv, TypeInv
  <2> HIDE DEF j, s
  <2>6. handle[k].slot = s
    BY DEF s
  <2>7. ~(j < k) /\ ~(k < j)
    BY <2>2, <2>3, <2>5, <2>6 DEF IInv
  <2> QED BY <2>1, <2>2, <2>4, <2>7
<1> QED BY <1>1, InductiveInvariant, PTL

\* The handle that alloc returned keeps finding its object until it is removed.
THEOREM LiveHandlesResolve == ASSUME Fits PROVE Spec => []LiveResolves
<1>1. IInv => LiveResolves
  <2> SUFFICES ASSUME IInv, NEW s \in Slots, entry[s] # 0
               PROVE  Get(handle[entry[s]]) = entry[s]
    BY DEF LiveResolves
  <2>1. handle[entry[s]] = [slot |-> s, gen |-> gen[s]]
    BY DEF IInv
  <2> QED BY <2>1 DEF Get
<1> QED BY <1>1, InductiveInvariant, PTL

\* ProcessResources::cleanup empties the table.
THEOREM CleanupIsComplete == ASSUME Fits PROVE Spec => []CleanupReleasesAll
<1>1. IInv => CleanupReleasesAll
  BY DEF IInv
<1> QED BY <1>1, InductiveInvariant, PTL

\* Whatever the widths, wrapped generations and truncated slot numbers included,
\* a generation stays a u8 and the table holds allocations that took place.
THEOREM TableTypes == Spec => []TypeInv
<1>1. Init => TypeInv
  <2>1. NoHandle \in Handles
    BY DEF NoHandle, Handles
  <2>2. 0 \in 0 .. GenMod - 1 /\ 0 \in 0 .. MaxAllocs
    BY HandleAssumption
  <2> QED BY Zenon, <2>1, <2>2, ZeroNat DEF Init, TypeInv
<1>2. ASSUME TypeInv, NEW s \in Slots, Alloc(s) PROVE TypeInv'
  <2>1. gen[s] \in Nat /\ s \in Nat /\ issued \in Nat /\ issued + 1 <= MaxAllocs
    BY <1>2, HandleAssumption DEF TypeInv, Alloc, Slots
  <2>2. (gen[s] + 1) % GenMod \in 0 .. GenMod - 1 /\ s % SlotMod \in Nat
    BY <2>1, HandleAssumption
  <2>3. issued + 1 \in 0 .. MaxAllocs /\ issued + 1 \in Allocs
    BY <2>1, HandleAssumption DEF Allocs
  <2>4. [slot |-> s % SlotMod, gen |-> (gen[s] + 1) % GenMod] \in Handles
    BY <2>2, HandleAssumption DEF Handles
  <2>5. uses' \in [Slots -> Nat] /\ nth' \in [Allocs -> Nat]
    BY <1>2, UsedTypes DEF Alloc
  <2> QED BY Zenon, <1>2, <2>2, <2>3, <2>4, <2>5 DEF TypeInv, Alloc
<1>3. ASSUME TypeInv, (\E k \in Allocs : RemoveHandle(k)) \/ Cleanup PROVE TypeInv'
  <2>1. 0 \in 0 .. MaxAllocs
    BY HandleAssumption
  <2> QED BY Zenon, <1>3, <2>1 DEF TypeInv, RemoveHandle, Cleanup
<1>4. TypeInv /\ UNCHANGED vars => TypeInv'
  BY Zenon DEF TypeInv, vars
<1>5. TypeInv /\ [Next]_vars => TypeInv'
  BY <1>2, <1>3, <1>4 DEF Next
<1> QED BY <1>1, <1>5, PTL DEF Spec

================================================================================
