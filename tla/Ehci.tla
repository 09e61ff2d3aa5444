--------------------------------- MODULE Ehci ----------------------------------
(***************************************************************************)
(* The EHCI host controller driver (nitrogen usb/ehci): transfers through  *)
(* the asynchronous schedule, and the polling of root-hub ports. The two   *)
(* parts share no state.                                                   *)
(***************************************************************************)
EXTENDS Integers, Sequences, FiniteSets, TLC

(***************************************************************************)
(* EhciTransfer.  Transfers of the EHCI controller (nitrogen               *)
(* usb/ehci/context.rs and async_queue.rs): queue heads, transfer          *)
(* descriptors and staging pages are taken one by one, the queue head is   *)
(* linked into the asynchronous schedule, and everything is given back.    *)
(* The code names each object and lists them anew on every path out, so a  *)
(* transfer holds its objects by name. The controller runs by itself and   *)
(* may keep using what it has fetched until it acknowledges an             *)
(* asynchronous advance.                                                   *)
(***************************************************************************)

CONSTANTS
    EhQhs,      \* queue heads of QueueHeadPool
    EhQtds,     \* transfer descriptors of QtdPool
    EhPages,    \* bound: frames that the kernel can give
    EhAddresses \* device addresses, 128 in the code

ASSUME EhAssumption == {EhQhs, EhQtds, EhPages} \subseteq Nat /\ EhAddresses \in Nat \ {0, 1}

VARIABLES
    ehFree,     \* the stacks of free queue heads, descriptors and pages
    ehOp,       \* the transfer in progress and the objects it holds, by the names of the code
    ehList,     \* queue heads linked after the head of the schedule
    ehReach,    \* what the controller may access
    ehLate,     \* objects given back although no advance was acknowledged after their use (history variable)
    ehNext      \* EhciContext::next_address

ehVars == <<ehFree, ehOp, ehList, ehReach, ehLate, ehNext>>

EhIdle == [kind |-> "none", pc |-> "none", at |-> 0, held |-> <<>>, ok |-> TRUE]
Pool(n) == [i \in 1 .. n |-> n + 1 - i]
Full == [qh |-> Pool(EhQhs), qtd |-> Pool(EhQtds), page |-> Pool(EhPages)]

EhTypeInv ==
    /\ DOMAIN ehFree = {"qh", "qtd", "page"}
    /\ ehOp.pc \in {"none", "take", "wait", "unlink", "advance", "free"}
    /\ ehList \subseteq {<<"qh", i>> : i \in 1 .. EhQhs}
    /\ ehLate \subseteq {<<pool, i>> : pool \in DOMAIN Full, i \in 1 .. EhQhs + EhQtds + EhPages}
    /\ ehNext \in 0 .. EhAddresses - 1

EhInit ==
    /\ ehFree = Full
    /\ ehOp = EhIdle
    /\ ehList = {} /\ ehReach = {}
    /\ ehLate = {}
    /\ ehNext = 1

\* The pool of each object of a transfer.
PoolOf(name) ==
    CASE name = "qh" -> "qh"
      [] name \in {"setup_page", "data_staging", "staging"} -> "page"
      [] OTHER -> "qtd"

\* What control_transfer and bulk_transfer allocate, in order, and what each of them frees when it gets none.
ControlSteps == <<
    [take |-> "qh", undo |-> <<>>],
    [take |-> "qtd_setup", undo |-> <<"qh">>],
    [take |-> "qtd_data", undo |-> <<"qtd_setup", "qh">>],
    [take |-> "qtd_status", undo |-> <<"qtd_setup", "qtd_data", "qh">>],
    [take |-> "setup_page", undo |-> <<"qtd_setup", "qtd_data", "qtd_status", "qh">>],
    [take |-> "data_staging", undo |-> <<"setup_page", "qtd_setup", "qtd_data", "qtd_status", "qh">>]>>
BulkSteps == <<
    [take |-> "qh", undo |-> <<>>],
    [take |-> "qtd", undo |-> <<"qh">>],
    [take |-> "staging", undo |-> <<"qtd", "qh">>]>>

\* Without a DATA stage its descriptor and its page are neither taken nor freed.
DataNames == {"qtd_data", "data_staging"}
NoData(names) == SelectSeq(names, LAMBDA n : n \notin DataNames)
EhSteps(kind) ==
    CASE kind = "bulk" -> BulkSteps
      [] kind = "control_data" -> ControlSteps
      [] kind = "control" ->
            LET kept == SelectSeq(ControlSteps, LAMBDA st : st.take \notin DataNames)
            IN  [i \in DOMAIN kept |-> [kept[i] EXCEPT !.undo = NoData(@)]]
EhStep == EhSteps(ehOp.kind)[ehOp.at]
Taking == ehOp.pc = "take" /\ ehOp.at <= Len(EhSteps(ehOp.kind))

EhBegin(kind) ==
    /\ ehOp = EhIdle
    /\ ehOp' = [EhIdle EXCEPT !.kind = kind, !.pc = "take", !.at = 1]
    /\ UNCHANGED <<ehFree, ehList, ehReach, ehLate, ehNext>>

\* dma_pool allocate: the top of the stack.
Allocate ==
    /\ Taking
    /\ LET pool == PoolOf(EhStep.take)
       IN /\ ehFree[pool] # <<>>
          /\ LET top == ehFree[pool][Len(ehFree[pool])]
             IN /\ ehFree' = [ehFree EXCEPT ![pool] = SubSeq(@, 1, Len(@) - 1)]
                /\ ehOp' = [ehOp EXCEPT !.at = @ + 1, !.held = (EhStep.take :> <<pool, top>>) @@ @]
    /\ UNCHANGED <<ehList, ehReach, ehLate, ehNext>>

\* dma_pool free of the named objects, one after the other.
Freed(names) ==
    [pool \in DOMAIN ehFree |->
        LET back == SelectSeq(names, LAMBDA n : PoolOf(n) = pool)
        IN  ehFree[pool] \o [i \in DOMAIN back |-> ehOp.held[back[i]][2]]]

\* An allocation failed, as the kernel may refuse a page at any time: the objects
\* that this step lists are given back.
OutOfMemory ==
    /\ Taking
    /\ PoolOf(EhStep.take) = "page" \/ ehFree[PoolOf(EhStep.take)] = <<>>
    /\ ehFree' = Freed(EhStep.undo)
    /\ ehOp' = EhIdle
    /\ UNCHANGED <<ehList, ehReach, ehLate, ehNext>>

\* The chain is built and the queue head inserted: the controller finds it all.
Insert ==
    /\ ehOp.pc = "take" /\ ~Taking
    /\ ehList' = ehList \cup {ehOp.held["qh"]}
    /\ ehReach' = ehReach \cup {ehOp.held[n] : n \in DOMAIN ehOp.held}
    /\ ehOp' = [ehOp EXCEPT !.pc = "wait"]
    /\ UNCHANGED <<ehFree, ehLate, ehNext>>

\* wait_qtd on each descriptor: done, halted or out of time.  In every case the
\* controller may still hold the queue head.
AwaitQtd ==
    /\ ehOp.pc = "wait"
    /\ \E ok \in BOOLEAN : ehOp' = [ehOp EXCEPT !.pc = "unlink", !.ok = ok]
    /\ UNCHANGED <<ehFree, ehList, ehReach, ehLate, ehNext>>

\* AsyncSchedule::remove
Unlink ==
    /\ ehOp.pc = "unlink"
    /\ ehList' = ehList \ {ehOp.held["qh"]}
    /\ ehOp' = [ehOp EXCEPT !.pc = "advance"]
    /\ UNCHANGED <<ehFree, ehReach, ehLate, ehNext>>

\* wait_async_advance: once acknowledged, the controller reaches only what is
\* linked.  The callers go on after a timeout, too.
AsyncAdvance ==
    /\ ehOp.pc = "advance"
    /\ \/ ehReach' = {} /\ ehLate' = {}
       \/ UNCHANGED ehReach /\ ehLate' = ehLate \cup {ehOp.held[n] : n \in DOMAIN ehOp.held}
    /\ ehOp' = [ehOp EXCEPT !.pc = "free"]
    /\ UNCHANGED <<ehFree, ehList, ehNext>>

\* The lists at the end of the two calls; bulk_transfer has another one after an error.
CleanupList ==
    CASE ehOp.kind = "bulk" -> IF ehOp.ok THEN <<"qtd", "qh", "staging">> ELSE <<"staging", "qtd", "qh">>
      [] ehOp.kind = "control" -> <<"qtd_setup", "qtd_status", "qh", "setup_page">>
      [] OTHER -> <<"qtd_setup", "qtd_data", "qtd_status", "qh", "setup_page", "data_staging">>

Cleanup ==
    /\ ehOp.pc = "free"
    /\ ehFree' = Freed(CleanupList)
    /\ ehOp' = EhIdle
    /\ UNCHANGED <<ehList, ehReach, ehLate, ehNext>>

\* The controller drops what it had fetched, at last.
ControllerMovesOn ==
    /\ ehReach # {} /\ ehList = {}
    /\ ehReach' = {} /\ ehLate' = {}
    /\ UNCHANGED <<ehFree, ehOp, ehList, ehNext>>

\* The step of enumerate_device that assigns an address.
NextAddress(a) ==
    LET assigned == IF a = 0 THEN 1 ELSE a
        next == (assigned + 1) % EhAddresses
    IN IF next = 0 THEN 1 ELSE next

\* register_ehci_storage starts with reset_pools, and enumerate_device takes an
\* address once the first descriptor has been read.
EhRegister ==
    /\ ehOp = EhIdle
    /\ ehFree' = [Full EXCEPT !.page = ehFree.page]
    /\ ehNext' \in {ehNext, NextAddress(ehNext)}
    /\ UNCHANGED <<ehOp, ehList, ehReach, ehLate>>

EhNextStep ==
    \/ \E kind \in {"control", "control_data", "bulk"} : EhBegin(kind)
    \/ Allocate
    \/ OutOfMemory
    \/ Insert
    \/ AwaitQtd
    \/ Unlink
    \/ AsyncAdvance
    \/ Cleanup
    \/ ControllerMovesOn
    \/ EhRegister

EhSpec == EhInit /\ [][EhNextStep]_ehVars

-----------------------------------------------------------------------------

\* Between transfers every queue head, descriptor and staging page is free, and
\* free once: each of the nine error paths of control_transfer and bulk_transfer
\* lists exactly what was taken before it, and so do their ends.
PoolsWhole ==
    ehOp = EhIdle =>
        \A pool \in DOMAIN Full :
            /\ Len(ehFree[pool]) = Len(Full[pool])
            /\ {ehFree[pool][i] : i \in 1 .. Len(ehFree[pool])} = 1 .. Len(Full[pool])

\* An object that the controller may still reach is free only when the very advance
\* after its transfer timed out (the callers of wait_async_advance give the objects
\* back all the same), and no advance of a later transfer has been acknowledged since.
FreedUnreachable ==
    \A r \in ehReach : (\E i \in 1 .. Len(ehFree[r[1]]) : ehFree[r[1]][i] = r[2]) => r \in ehLate

\* enumerate_device never hands out the default address 0, however many devices
\* have come and gone (SET_ADDRESS 0 would put the device back to the default
\* state).
AddressNotDefault == ehNext # 0

(***************************************************************************)
(* EhciPorts.  Port polling of the EHCI controller (nitrogen usb/ehci:     *)
(* poll_ports and EhciPortContext).  Devices are plugged and pulled at any *)
(* time, also between the read of USBSTS and the write that clears its     *)
(* port-change bit.                                                        *)
(***************************************************************************)

CONSTANTS
    EpPorts,    \* ports of the root hub
    EpPlugs     \* bound: devices plugged over time

ASSUME EpAssumption == {EpPorts, EpPlugs} \subseteq Nat

VARIABLES
    epConn,     \* the device in each port, 0 for none
    epPlugged,  \* devices plugged so far
    epPcd,      \* the port-change bit of USBSTS
    epDone,     \* processed_mask
    epDevices,  \* ports of the entries of EhciContext::devices, counted
    epSeen,     \* the device that a processed port had when it was examined
    epPoll,     \* progress of poll_ports: the bit as read, the next port
    epMissed    \* ports that changed between the read and the clearing of the bit and were not looked at since
                \* (history variable)

epVars == <<epConn, epPlugged, epPcd, epDone, epDevices, epSeen, epPoll, epMissed>>

EpPort == 0 .. EpPorts - 1
NoPoll == [pcd |-> FALSE, at |-> -2]

EpTypeInv ==
    /\ epConn \in [EpPort -> 0 .. EpPlugs] /\ epSeen \in [EpPort -> 0 .. EpPlugs]
    /\ epPlugged \in 0 .. EpPlugs
    /\ epPcd \in BOOLEAN /\ epMissed \subseteq EpPort
    /\ epDone \subseteq EpPort
    /\ epDevices \in [EpPort -> Nat]
    /\ epPoll \in [pcd : BOOLEAN, at : -2 .. EpPorts]

EpInit ==
    /\ epConn = [p \in EpPort |-> 0] /\ epSeen = epConn
    /\ epPlugged = 0
    /\ epPcd = FALSE /\ epMissed = {}
    /\ epDone = {}
    /\ epDevices = [p \in EpPort |-> 0]
    /\ epPoll = NoPoll

\* A device comes or goes: the controller sets the port-change bit.
PortChange(p, dev) ==
    /\ epConn' = [epConn EXCEPT ![p] = dev]
    /\ epPcd' = TRUE
    /\ epMissed' = IF epPoll.at = -1 THEN epMissed \cup {p} ELSE epMissed
    /\ UNCHANGED <<epDone, epDevices, epSeen, epPoll>>

Plug(p) ==
    /\ epConn[p] = 0 /\ epPlugged < EpPlugs
    /\ epPlugged' = epPlugged + 1
    /\ PortChange(p, epPlugged + 1)

Unplug(p) ==
    /\ epConn[p] # 0
    /\ PortChange(p, 0)
    /\ UNCHANGED epPlugged

PollRead ==
    /\ epPoll = NoPoll
    /\ epPoll' = [pcd |-> epPcd, at |-> -1]
    /\ UNCHANGED <<epConn, epPlugged, epPcd, epDone, epDevices, epSeen, epMissed>>

PollClear ==
    /\ epPoll.at = -1
    /\ epPcd' = FALSE
    /\ epPoll' = [epPoll EXCEPT !.at = 0]
    /\ UNCHANGED <<epConn, epPlugged, epDone, epDevices, epSeen, epMissed>>

\* The ports that are still processed after the bit has been looked at.
\* Mutated form: a port with a device stays processed.
StillDoneIfPresent(p) ==
    IF epPoll.pcd /\ epConn[p] = 0 THEN epDone \ {p} ELSE epDone

StillDone(p) == IF epPoll.pcd THEN epDone \ {p} ELSE epDone

\* A turn of the loop: a port that is not processed and has a device is reset.
\* It is processed in any case; a high-speed device that survived is recorded.
PollPort ==
    LET p == epPoll.at
    IN /\ p \in EpPort
       /\ epPoll' = [epPoll EXCEPT !.at = p + 1]
       /\ IF epConn[p] = 0 \/ p \in StillDone(p)
          THEN /\ epDone' = StillDone(p)
               /\ UNCHANGED <<epDevices, epSeen>>
          ELSE /\ epDone' = StillDone(p) \cup {p}
               /\ epSeen' = [epSeen EXCEPT ![p] = epConn[p]]
               /\ epDevices' \in {epDevices, [epDevices EXCEPT ![p] = IF @ < 2 THEN @ + 1 ELSE @]}
       /\ epMissed' = IF p \in StillDone(p) THEN epMissed ELSE epMissed \ {p}
       /\ UNCHANGED <<epConn, epPlugged, epPcd>>

PollEnd ==
    /\ epPoll.at = EpPorts
    /\ epPoll' = NoPoll
    /\ UNCHANGED <<epConn, epPlugged, epPcd, epDone, epDevices, epSeen, epMissed>>

EpNext ==
    \/ \E p \in EpPort : Plug(p) \/ Unplug(p)
    \/ PollRead
    \/ PollClear
    \/ PollPort
    \/ PollEnd

EpSpec == EpInit /\ [][EpNext]_epVars /\ WF_epVars(PollRead \/ PollClear \/ PollPort \/ PollEnd)

-----------------------------------------------------------------------------

\* When the port-change bit is clear and no poll is running, a processed port
\* holds the device that was examined, however plugging and polling interleave.
\* One change is lost: that of a port between the read of USBSTS and the write that
\* clears it. It is that port alone, and only until the next change of any port,
\* which makes a poll look at all of them.
NoUnnoticedSwap ==
    epPoll = NoPoll /\ ~epPcd => \A p \in epDone : epConn[p] = epSeen[p] \/ p \in epMissed

\* When the plugging ends, every device that is left is examined at some time, as
\* poll runs again and again from the service scheduler: it cannot hide behind the bits of an earlier
\* device in the same port or behind changes of other ports, unless its own change was the one lost.
\* It is so again and again.
DevicesExamined == \A p \in EpPort : epConn[p] \in {0, epSeen[p]} \/ p \in epMissed

--------------------------------------------------------------------------------
\* Pools, addresses and processed ports of the EHCI driver stay consistent through timeouts and
\* devices that are pulled while a poll runs; what a late acknowledgement and a change that falls
\* between two register accesses do is bounded to the objects and the port concerned.
EhciSound ==
    /\ EhTypeInv /\ PoolsWhole /\ FreedUnreachable /\ AddressNotDefault
    /\ EpTypeInv /\ NoUnnoticedSwap
================================================================================
