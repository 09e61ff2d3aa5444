------------------------------ MODULE HandleTable ------------------------------
(***************************************************************************)
(* The per-process handle table of process.rs: slots that keep a           *)
(* generation counter across reuse, and handles that name a slot and a     *)
(* generation in eight bits each.                                          *)
(*                                                                         *)
(* The k-th allocation stands for the k-th object put into the table.  A   *)
(* slot that the vector has not grown to yet has generation 0 and no       *)
(* entry, which is also what push gives it.  Programs present handles the  *)
(* kernel has issued (is_valid holds), any number of times and in any      *)
(* order; permissions are the same for all of them.                        *)
(***************************************************************************)
EXTENDS Integers

CONSTANTS
    GenMod,         \* 2^8: HandleEntry::generation is a u8
    SlotMod,        \* 2^8: Handle::new takes the slot as a u8
    MaxSlots,       \* bound: entries that are live at the same time
    MaxAllocs,      \* bound: allocations in the life of the table
    Closing         \* the allocations whose handle the program revokes

Slots == 0 .. MaxSlots - 1
Allocs == 1 .. MaxAllocs
Handles == [slot : Nat, gen : Nat]
NoHandle == [slot |-> 0, gen |-> 0]

ASSUME HandleAssumption ==
    /\ GenMod \in Nat \ {0}
    /\ SlotMod \in Nat \ {0}
    /\ MaxSlots \in Nat
    /\ MaxAllocs \in Nat
    /\ Closing \subseteq Allocs

VARIABLES
    gen,        \* HandleSlot::generation
    entry,      \* the allocation in HandleSlot::entry, 0 for None
    issued,     \* history: number of allocations
    handle,     \* history: the handle each allocation returned
    uses,       \* history: how often each slot was allocated, not wrapped
    nth,        \* history: the use of its slot that each allocation was
    ended       \* ProcessResources::cleanup has run

vars == <<gen, entry, issued, handle, uses, nth, ended>>

TypeInv ==
    /\ gen \in [Slots -> 0 .. GenMod - 1]
    /\ entry \in [Slots -> 0 .. MaxAllocs]
    /\ issued \in 0 .. MaxAllocs
    /\ handle \in [Allocs -> Handles]
    /\ uses \in [Slots -> Nat]
    /\ nth \in [Allocs -> Nat]
    /\ ended \in BOOLEAN

Init ==
    /\ gen = [s \in Slots |-> 0]
    /\ entry = [s \in Slots |-> 0]
    /\ issued = 0
    /\ handle = [k \in Allocs |-> NoHandle]
    /\ uses = [s \in Slots |-> 0]
    /\ nth = [k \in Allocs |-> 0]
    /\ ended = FALSE

\* HandleTable::get, get_mut and check_perm: the allocation a handle resolves to.
Get(h) == IF h.slot \in Slots /\ entry[h.slot] # 0 /\ gen[h.slot] = h.gen
          THEN entry[h.slot] ELSE 0

\* find_free_slot: the first slot without an entry (pushed when there is none).
FreeSlot(s) == entry[s] = 0 /\ \A t \in Slots : t < s => entry[t] # 0

\* History of an allocation into slot s.
Used(s) ==
    /\ uses' = [uses EXCEPT ![s] = @ + 1]
    /\ nth' = [nth EXCEPT ![issued + 1] = uses[s] + 1]

\* Mutant: a reused slot keeps its generation.
AllocSameGeneration(s) ==
    /\ ~ended
    /\ issued < MaxAllocs
    /\ FreeSlot(s)
    /\ issued' = issued + 1
    /\ entry' = [entry EXCEPT ![s] = issued + 1]
    /\ handle' = [handle EXCEPT ![issued + 1] = [slot |-> s % SlotMod, gen |-> gen[s]]]
    /\ Used(s)
    /\ UNCHANGED <<gen, ended>>

\* Mutant: the handle is made before the generation is advanced.
AllocStaleHandle(s) ==
    /\ ~ended
    /\ issued < MaxAllocs
    /\ FreeSlot(s)
    /\ issued' = issued + 1
    /\ gen' = [gen EXCEPT ![s] = (@ + 1) % GenMod]
    /\ entry' = [entry EXCEPT ![s] = issued + 1]
    /\ handle' = [handle EXCEPT ![issued + 1] = [slot |-> s % SlotMod, gen |-> gen[s]]]
    /\ Used(s)
    /\ UNCHANGED ended

\* HandleTable::alloc into the slot that find_free_slot returns.
Alloc(s) ==
    /\ ~ended
    /\ issued < MaxAllocs
    /\ FreeSlot(s)
    /\ issued' = issued + 1
    /\ gen' = [gen EXCEPT ![s] = (@ + 1) % GenMod]
    /\ entry' = [entry EXCEPT ![s] = issued + 1]
    /\ handle' = [handle EXCEPT ![issued + 1] =
                     [slot |-> s % SlotMod, gen |-> (gen[s] + 1) % GenMod]]
    /\ Used(s)
    /\ UNCHANGED ended

\* HandleTable::remove with the handle of allocation k (handle_revoke, or the
\* first half of handle_transfer).
RemoveHandle(k) ==
    /\ ~ended
    /\ k \in Closing
    /\ k <= issued
    /\ Get(handle[k]) # 0
    /\ entry' = [entry EXCEPT ![handle[k].slot] = 0]
    /\ UNCHANGED <<gen, issued, handle, uses, nth, ended>>

\* Mutant: stops one slot early.
CleanupPartial ==
    /\ ~ended
    /\ entry' = [s \in Slots |-> IF s < MaxSlots - 1 THEN 0 ELSE entry[s]]
    /\ ended' = TRUE
    /\ UNCHANGED <<gen, issued, handle, uses, nth>>

\* ProcessResources::cleanup makes a handle for every entry and removes it.
Cleanup ==
    LET Named(s) == \E t \in Slots :
                        entry[t] # 0 /\ t % SlotMod = s /\ gen[t] = gen[s]
    IN  /\ ~ended
        /\ entry' = [s \in Slots |-> IF Named(s) THEN 0 ELSE entry[s]]
        /\ ended' = TRUE
        /\ UNCHANGED <<gen, issued, handle, uses, nth>>

Next ==
    \/ \E s \in Slots : Alloc(s)
    \/ \E k \in Allocs : RemoveHandle(k)
    \/ Cleanup

Spec == Init /\ [][Next]_vars

--------------------------------------------------------------------------------

\* A handle resolves to the object it was issued for or to nothing for as long as
\* its slot has been reused fewer than GenMod times since, however its generation
\* has wrapped around in between: "the generation counter prevents use-after-free"
\* (get_mut). After exactly GenMod reuses the eight bits are the same again, and the
\* stale handle names the new object.
StaleNeverResolves ==
    \A k \in 1 .. issued :
        uses[handle[k].slot] - nth[k] < GenMod => Get(handle[k]) \in {0, k}

\* As long as the object is in the table, the handle alloc returned for it finds
\* it.
LiveResolves == \A s \in Slots : entry[s] # 0 => Get(handle[entry[s]]) = entry[s]

\* Cleanup at the end of a process leaves no object behind.
CleanupReleasesAll == ended => \A s \in Slots : entry[s] = 0

================================================================================
