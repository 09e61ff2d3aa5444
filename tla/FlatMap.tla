-------------------------------- MODULE FlatMap --------------------------------
(***************************************************************************)
(* What an address space promises, without tables: every page has one physical    *)
(* page or none.  A step maps one page, maps an aligned block of pages to          *)
(* consecutive physical pages, or unmaps one page, and leaves every other page     *)
(* as it was.                                                                      *)
(***************************************************************************)
EXTENDS Integers

CONSTANTS Pages, Phys, Fan, Unmapped

VARIABLE to     \* page -> physical page, or Unmapped

\* One page becomes mapped, wherever to.
FmMap(p) == to'[p] \in Phys /\ to' = [to EXCEPT ![p] = to'[p]]
\* The block of p does, its first page wherever to and the others after it.
FmMapBlock(p) ==
    LET b == p \div Fan
        f == to'[b * Fan]
    IN f \in Phys /\ to' = [q \in Pages |-> IF q \div Fan = b THEN f + (q % Fan) ELSE to[q]]
FmUnmap(p) == to' = [to EXCEPT ![p] = Unmapped]

FmInit == to = [p \in Pages |-> Unmapped]
\* A call that fails changes nothing.
FmFails == UNCHANGED to

FmNext ==
    \/ FmFails
    \/ \E p \in Pages : FmUnmap(p) \/ FmMap(p) \/ FmMapBlock(p)
FmSpec == FmInit /\ [][FmNext]_to
================================================================================
