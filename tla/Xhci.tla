--------------------------------- MODULE Xhci ----------------------------------
(***************************************************************************)
(* The xHCI host controller driver (nitrogen usb/xhci): command and event  *)
(* rings, slots and staging memory, and the polling of ports. The three    *)
(* parts share no state.                                                   *)
(***************************************************************************)
EXTENDS Integers, Sequences, FiniteSets, SequencesExt

(***************************************************************************)
(* XhciRing.  The rings that the xHCI driver and the controller share      *)
(* (nitrogen usb/xhci/ring.rs, interrupt.rs): a command ring that the      *)
(* driver fills and the controller empties, and an event ring in the other *)
(* direction.  Neither side sees the index of the other: both follow the   *)
(* cycle bits.  The driver waits for a completion after each command but   *)
(* goes on after a timeout, and enqueue does not look whether the ring is  *)
(* full.                                                                   *)
(***************************************************************************)

CONSTANTS
    XrLen,      \* entries of the command ring, the last is the link
    XrEvents,   \* entries of the event ring
    XrCommands  \* bound: commands sent

ASSUME XrAssumption == XrLen \in Nat \ {0, 1} /\ XrEvents \in Nat \ {0} /\ XrCommands \in Nat

VARIABLES
    xrTrb,      \* the command ring: cycle bit and command of each entry
    xrEnq,      \* Ring::enq and cycle
    xrHw,       \* where the controller reads, and the cycle it expects
    xrSent,     \* commands sent
    xrTaken,    \* the commands that the controller executed, in order
    xrEvt,      \* the event ring: cycle bit and completed command
    xrDeq,      \* EventRing::deq and cycle
    xrHwEvt,    \* where the controller writes events, its cycle, and ERDP
    xrSeen,     \* events popped, in order
    xrOver      \* the driver wrote over a command that was not executed

xrVars == <<xrTrb, xrEnq, xrHw, xrSent, xrTaken, xrEvt, xrDeq, xrHwEvt, xrSeen, xrOver>>

Link == XrLen - 1

XrTypeInv ==
    /\ xrTrb \in [0 .. Link -> [cycle : {0, 1}, cmd : 0 .. XrCommands]]
    /\ xrEnq \in [at : 0 .. Link, cycle : {0, 1}]
    /\ xrHw \in [at : 0 .. Link - 1, cycle : {0, 1}]
    /\ xrSent \in 0 .. XrCommands
    /\ xrEvt \in [0 .. XrEvents - 1 -> [cycle : {0, 1}, cmd : 0 .. XrCommands]]
    /\ xrDeq \in [at : 0 .. XrEvents - 1, cycle : {0, 1}]
    /\ xrOver \in BOOLEAN

\* Ring::alloc and EventRing::alloc on zeroed pages; the link starts with cycle 1.
XrInit ==
    /\ xrTrb = [i \in 0 .. Link |-> [cycle |-> IF i = Link THEN 1 ELSE 0, cmd |-> 0]]
    /\ xrEnq = [at |-> 0, cycle |-> 1]
    /\ xrHw = [at |-> 0, cycle |-> 1]
    /\ xrSent = 0 /\ xrTaken = <<>> /\ xrSeen = <<>>
    /\ xrEvt = [i \in 0 .. XrEvents - 1 |-> [cycle |-> 0, cmd |-> 0]]
    /\ xrDeq = [at |-> 0, cycle |-> 1]
    /\ xrHwEvt = [at |-> 0, cycle |-> 1, erdp |-> 0]
    /\ xrOver = FALSE

\* The ring after enqueue at entry `at`: with the last entry before the link, the
\* link gets the cycle of this pass.
Written(at, cycle, cmd) ==
    LET trb == [xrTrb EXCEPT ![at] = [cycle |-> cycle, cmd |-> cmd]]
    IN IF at + 1 = Link THEN [trb EXCEPT ![Link].cycle = cycle] ELSE trb

\* Ring::enqueue of the next command.
Enqueue ==
    /\ xrSent < XrCommands
    /\ xrSent' = xrSent + 1
    /\ xrTrb' = Written(xrEnq.at, xrEnq.cycle, xrSent + 1)
    /\ xrEnq' = IF xrEnq.at + 1 = Link
                THEN [at |-> 0, cycle |-> 1 - xrEnq.cycle]
                ELSE [xrEnq EXCEPT !.at = @ + 1]
    /\ xrOver' = (xrOver \/ xrSent - Len(xrTaken) >= Link)
    /\ UNCHANGED <<xrHw, xrTaken, xrEvt, xrDeq, xrHwEvt, xrSeen>>

\* The controller executes the entry it expects and posts the completion; behind
\* a link of the right cycle it starts over.  It waits while the event ring is
\* full.
After(i) == (i + 1) % XrEvents
EventFull == After(xrHwEvt.at) = xrHwEvt.erdp

Execute ==
    /\ xrTrb[xrHw.at].cycle = xrHw.cycle
    /\ ~EventFull
    /\ xrTaken' = Append(xrTaken, xrTrb[xrHw.at].cmd)
    /\ xrEvt' = [xrEvt EXCEPT ![xrHwEvt.at] = [cycle |-> xrHwEvt.cycle, cmd |-> xrTrb[xrHw.at].cmd]]
    /\ xrHwEvt' = [xrHwEvt EXCEPT !.at = After(@), !.cycle = IF After(xrHwEvt.at) = 0 THEN 1 - @ ELSE @]
    /\ \/ xrHw.at + 1 < Link /\ xrHw' = [xrHw EXCEPT !.at = @ + 1]
       \/ /\ xrHw.at + 1 = Link
          /\ xrTrb[Link].cycle = xrHw.cycle
          /\ xrHw' = [at |-> 0, cycle |-> 1 - xrHw.cycle]
    /\ UNCHANGED <<xrTrb, xrEnq, xrSent, xrDeq, xrSeen, xrOver>>

\* EventRing::pop as wait_event_type and process_events use it: ERDP follows.
PopEvent ==
    /\ xrEvt[xrDeq.at].cycle = xrDeq.cycle
    /\ xrSeen' = Append(xrSeen, xrEvt[xrDeq.at].cmd)
    /\ xrDeq' = [at |-> After(xrDeq.at), cycle |-> IF After(xrDeq.at) = 0 THEN 1 - xrDeq.cycle ELSE xrDeq.cycle]
    /\ xrHwEvt' = [xrHwEvt EXCEPT !.erdp = xrDeq'.at]
    /\ UNCHANGED <<xrTrb, xrEnq, xrHw, xrSent, xrTaken, xrEvt, xrOver>>

XrNext == Enqueue \/ Execute \/ PopEvent

XrSpec == XrInit /\ [][XrNext]_xrVars /\ WF_xrVars(Execute) /\ WF_xrVars(PopEvent)

-----------------------------------------------------------------------------

\* The controller executes the commands in the order in which they were enqueued, none of them
\* twice, over any number of passes. It leaves one out only after the driver, which does not look
\* whether the ring is full, has written over a command that the controller had not reached.
CommandsInOrder ==
    /\ \A i, j \in 1 .. Len(xrTaken) : i < j => xrTaken[i] < xrTaken[j]
    /\ ~xrOver => \A i \in 1 .. Len(xrTaken) : xrTaken[i] = i

\* The events that the driver pops are those that the controller wrote, in order:
\* no event is popped twice and none is skipped when the indices start over.
EventsInOrder == IsPrefix(xrSeen, xrTaken)

\* Every command is completed and its completion seen, unless one was written
\* over: neither ring gets stuck when it starts over. CommandsOpen leads to CommandsSeen.
CommandsOpen == xrSent > Len(xrSeen)
CommandsSeen == xrSent = Len(xrSeen) \/ xrOver

(***************************************************************************)
(* XhciSlots.  Device slots and transfers of the xHCI driver (nitrogen     *)
(* usb/xhci: command.rs, transfer.rs, device.rs, resources.rs; the         *)
(* sequence of register_xhci_storage in usb/context.rs).  One call is in   *)
(* progress at a time, but the controller works by itself and answers when *)
(* it likes: a call that timed out leaves its request in the ring, and the *)
(* completion that comes later is the first that a later call sees.        *)
(***************************************************************************)

CONSTANTS
    XsMax,      \* max_slots
    XsPages,    \* staging pages that the kernel can give
    XsPending   \* bound: requests and completions under way

ASSUME XsAssumption == {XsMax, XsPages, XsPending} \subseteq Nat

VARIABLES
    xsEnabled,  \* slots that the controller has enabled
    xsSlots,    \* SlotManager::slots: id and device context, a sequence
    xsUsed,     \* n_used
    xsDcbaa,    \* device context of each slot, 0 for none
    xsQueue,    \* requests that the controller has not completed, oldest first
    xsEvents,   \* completions in the event ring
    xsFree,     \* free staging pages
    xsDeferred, \* deferred_free_list
    xsCall,     \* the request that is waited for, or what comes next
    xsMixed,    \* a call took the completion of another one
    xsDrained   \* a page was released that a request in the queue still names

xsVars == <<xsEnabled, xsSlots, xsUsed, xsDcbaa, xsQueue, xsEvents, xsFree, xsDeferred, xsCall, xsMixed, xsDrained>>
xsHw == <<xsEnabled, xsQueue, xsEvents>>
xsTable == <<xsSlots, xsUsed, xsDcbaa>>
xsMem == <<xsFree, xsDeferred, xsDrained>>

XsIds == 1 .. XsMax
NoCall == [op |-> "none", slot |-> 0, page |-> 0, then |-> "none", wait |-> FALSE]
Command(op) == op \in {"enable", "address", "config", "disable"}

XsTypeInv ==
    /\ xsEnabled \subseteq XsIds
    /\ \A i \in 1 .. Len(xsSlots) : xsSlots[i] \in [id : XsIds, ctx : Nat]
    /\ xsUsed \in 0 .. XsMax
    /\ xsDcbaa \in [XsIds -> Nat]
    /\ xsFree \subseteq 1 .. XsPages
    /\ xsMixed \in BOOLEAN /\ xsDrained \in BOOLEAN

XsInit ==
    /\ xsEnabled = {} /\ xsQueue = <<>> /\ xsEvents = <<>>
    /\ xsSlots = <<>> /\ xsUsed = 0 /\ xsDcbaa = [s \in XsIds |-> 0]
    /\ xsFree = 1 .. XsPages /\ xsDeferred = <<>>
    /\ xsCall = NoCall
    /\ xsMixed = FALSE /\ xsDrained = FALSE

HasSlot(id) == \E i \in 1 .. Len(xsSlots) : xsSlots[i].id = id

-----------------------------------------------------------------------------
(* The controller. *)

\* It completes the oldest command, or a transfer, with any code.
XsComplete ==
    \E i \in 1 .. Len(xsQueue) :
        LET r == xsQueue[i]
            post(id, ok) == xsEvents' = Append(xsEvents, [cmd |-> Command(r.op), slot |-> id, ok |-> ok, mine |-> r.mine])
        IN /\ Command(r.op) => \A j \in 1 .. i - 1 : ~Command(xsQueue[j].op)
           /\ xsQueue' = [j \in 1 .. Len(xsQueue) - 1 |-> xsQueue[IF j < i THEN j ELSE j + 1]]
           /\ \/ /\ r.op = "enable"
                 /\ \E id \in XsIds \ xsEnabled : xsEnabled' = xsEnabled \cup {id} /\ post(id, TRUE)
              \/ /\ r.op = "disable" /\ r.slot \in xsEnabled
                 /\ xsEnabled' = xsEnabled \ {r.slot} /\ post(r.slot, TRUE)
              \/ /\ r.op \notin {"enable", "disable"} /\ r.slot \in xsEnabled
                 /\ post(r.slot, TRUE) /\ UNCHANGED xsEnabled
              \/ post(r.slot, FALSE) /\ UNCHANGED xsEnabled
           /\ UNCHANGED <<xsTable, xsMem, xsCall, xsMixed>>

-----------------------------------------------------------------------------
(* The driver: submitting a request. *)

\* Bound: the requests under way.
Submit(op, slot, page, then) ==
    /\ Len(xsQueue) + Len(xsEvents) < XsPending
    /\ xsQueue' = Append(xsQueue, [op |-> op, slot |-> slot, page |-> page, mine |-> TRUE])
    /\ xsCall' = [op |-> op, slot |-> slot, page |-> page, then |-> then, wait |-> TRUE]

\* The requests of register_xhci_storage in their order: what follows each one.
Then == [enable |-> "address", address |-> "control", control |-> "config", config |-> "bulk", bulk |-> "none", disable |-> "none"]

\* register_xhci_storage begins, or goes on to its next command.
SendCommand ==
    /\ \/ xsCall = NoCall /\ Submit("enable", 0, 0, "address")
       \/ /\ ~xsCall.wait /\ Command(xsCall.then)
          /\ Submit(xsCall.then, xsCall.slot, 0, Then[xsCall.then])
    /\ UNCHANGED <<xsEnabled, xsEvents, xsTable, xsMem, xsMixed>>

\* The page that allocate_contiguous_frames finds.
FreePage == CHOOSE page \in xsFree : TRUE

\* control_transfer and bulk_transfer take a staging page; without one, the
\* registration gives the slot up.
SendTransfer ==
    /\ ~xsCall.wait /\ xsCall.then \in {"control", "bulk"}
    /\ \/ /\ xsFree # {}
          /\ xsFree' = xsFree \ {FreePage}
          /\ Submit(xsCall.then, xsCall.slot, FreePage, Then[xsCall.then])
       \/ /\ xsCall' = [xsCall EXCEPT !.then = "disable"]
          /\ UNCHANGED <<xsQueue, xsFree>>
    /\ UNCHANGED <<xsEnabled, xsEvents, xsTable, xsDeferred, xsDrained, xsMixed>>

\* bot_read and bot_write on a registered disk.
SendBulk(id) ==
    /\ xsCall = NoCall /\ HasSlot(id) /\ xsFree # {}
    /\ xsFree' = xsFree \ {FreePage}
    /\ Submit("bulk", id, FreePage, "none")
    /\ UNCHANGED <<xsEnabled, xsEvents, xsTable, xsDeferred, xsDrained, xsMixed>>

-----------------------------------------------------------------------------
(* What a call does when it has, or has not, got its completion. *)

GoOn(slot, then) == xsCall' = IF then = "none" THEN NoCall ELSE [NoCall EXCEPT !.slot = slot, !.then = then]

\* A page for a device context: one that no slot has.
NewContext == CHOOSE ctx \in 1 .. XsMax + 1 :
    \A i \in 1 .. Len(xsSlots) : xsSlots[i].ctx # ctx

\* enable_slot: alloc_slot counts the slot before it allocates its pages.
SlotEnabled(id, ok) ==
    /\ \/ /\ ok /\ id # 0 /\ xsUsed < XsMax
          /\ xsUsed' = xsUsed + 1
          /\ \/ /\ xsSlots' = Append(xsSlots, [id |-> id, ctx |-> NewContext])
                /\ xsDcbaa' = [xsDcbaa EXCEPT ![id] = NewContext]
                /\ GoOn(id, "address")
             \/ /\ UNCHANGED <<xsSlots, xsDcbaa>>
                /\ GoOn(0, "none")
       \/ /\ ~ok \/ id = 0 \/ xsUsed >= XsMax
          /\ UNCHANGED xsTable
          /\ GoOn(0, "none")
    /\ UNCHANGED xsMem

\* disable_slot, whatever came of the command: clear_slot, release_slot, and
\* every deferred page is released.
SlotDisabled(id) ==
    /\ xsDcbaa' = [xsDcbaa EXCEPT ![id] = 0]
    /\ LET i == CHOOSE n \in 1 .. Len(xsSlots) : xsSlots[n].id = id
       IN /\ xsSlots' = IF HasSlot(id) THEN [j \in 1 .. Len(xsSlots) - 1 |-> xsSlots[IF j < i THEN j ELSE j + 1]] ELSE xsSlots
          /\ xsUsed' = IF HasSlot(id) /\ xsUsed > 0 THEN xsUsed - 1 ELSE xsUsed
    /\ xsFree' = xsFree \cup {xsDeferred[j] : j \in 1 .. Len(xsDeferred)}
    /\ xsDeferred' = <<>>
    /\ xsDrained' = (xsDrained \/ \E j \in 1 .. Len(xsQueue) : \E d \in 1 .. Len(xsDeferred) : xsQueue[j].page = xsDeferred[d])
    /\ GoOn(0, "none")

\* The staging page of a transfer: free after success, deferred otherwise.
StagingBack(ok) ==
    IF ok THEN xsFree' = xsFree \cup {xsCall.page} /\ UNCHANGED xsDeferred
          ELSE xsDeferred' = Append(xsDeferred, xsCall.page) /\ UNCHANGED xsFree

\* The end of the call in progress.  A failure of a registration leads to
\* disable_slot; a failed bulk transfer of a registered disk is only reported.
Finished(id, ok) ==
    CASE xsCall.op = "enable" -> SlotEnabled(id, ok)
      [] xsCall.op = "disable" -> SlotDisabled(xsCall.slot)
      [] xsCall.op \in {"address", "config"} ->
            GoOn(xsCall.slot, IF ok THEN xsCall.then ELSE "disable") /\ UNCHANGED <<xsTable, xsMem>>
      [] OTHER ->
            /\ StagingBack(ok)
            /\ \/ GoOn(xsCall.slot, IF ok \/ xsCall.op = "bulk" THEN xsCall.then ELSE "disable")
               \/ xsCall.op = "bulk" /\ ~ok /\ GoOn(xsCall.slot, "disable")
            /\ UNCHANGED <<xsTable, xsDrained>>

\* Requests and completions that no call waits for any more.
Left(seq) == [i \in 1 .. Len(seq) |-> [seq[i] EXCEPT !.mine = FALSE]]

\* wait_event_type drops completions of the other type and takes the first of
\* its own.
Receive ==
    /\ xsCall.wait /\ xsEvents # <<>>
    /\ LET e == Head(xsEvents)
       IN IF e.cmd # Command(xsCall.op)
          THEN xsEvents' = Tail(xsEvents) /\ UNCHANGED <<xsTable, xsMem, xsCall, xsMixed, xsQueue>>
          ELSE /\ Finished(e.slot, e.ok)
               /\ xsMixed' = (xsMixed \/ ~e.mine)
               /\ xsQueue' = Left(xsQueue)
               /\ xsEvents' = Left(Tail(xsEvents))
    /\ UNCHANGED xsEnabled

XsTimeOut ==
    /\ xsCall.wait
    /\ Finished(0, FALSE)
    /\ xsQueue' = Left(xsQueue) /\ xsEvents' = Left(xsEvents)
    /\ UNCHANGED <<xsEnabled, xsMixed>>

XsNext ==
    \/ XsComplete
    \/ SendCommand
    \/ SendTransfer
    \/ \E id \in XsIds : SendBulk(id)
    \/ Receive
    \/ XsTimeOut

XsSpec == XsInit /\ [][XsNext]_xsVars

-----------------------------------------------------------------------------

\* The DCBAA leads to no context but that of a slot of the driver, and the slots are counted, whatever
\* completions are late. As long as no call has taken the completion of an earlier one that timed
\* out for its own (wait_event_type looks at the type only), the slots are also distinct slots
\* that the controller has enabled or will disable, and each has its own context in the DCBAA.
SlotsAgree ==
    /\ \A id \in XsIds : xsDcbaa[id] # 0 => \E i \in 1 .. Len(xsSlots) : xsSlots[i] = [id |-> id, ctx |-> xsDcbaa[id]]
    /\ Len(xsSlots) <= xsUsed
    /\ ~xsMixed =>
        /\ \A i, j \in 1 .. Len(xsSlots) : i # j => xsSlots[i].id # xsSlots[j].id
        /\ \A i \in 1 .. Len(xsSlots) : xsDcbaa[xsSlots[i].id] = xsSlots[i].ctx
        /\ \A id \in XsIds : xsDcbaa[id] # 0 => id \in xsEnabled \/ xsCall.op = "disable"

\* A staging page that the call in progress gave to the controller is not free. A transfer that failed
\* or timed out keeps its page, too, in deferred_free_list, until one of two things happens: a
\* transfer takes the completion of an earlier one for its own, or disable_slot, of any slot,
\* releases all deferred pages.
StagingOwned ==
    \A i \in 1 .. Len(xsQueue) :
        xsQueue[i].mine \/ (~xsMixed /\ ~xsDrained) => xsQueue[i].page \notin xsFree

\* Every staging page is free, deferred once, or held by the call in progress.
StagingAccounted ==
    /\ \A i, j \in 1 .. Len(xsDeferred) : i # j => xsDeferred[i] # xsDeferred[j]
    /\ LET deferred == {xsDeferred[i] : i \in 1 .. Len(xsDeferred)}
           held == IF xsCall.page = 0 THEN {} ELSE {xsCall.page}
       IN /\ xsFree \cup deferred \cup held = 1 .. XsPages
          /\ Cardinality(xsFree) + Cardinality(deferred) + Cardinality(held) = XsPages

(***************************************************************************)
(* XhciPorts.  Root-hub ports of the xHCI driver (nitrogen usb/xhci:       *)
(* controller.rs and port.rs): start-up, recovery from a host system       *)
(* error, and the poll that connects a port or gives it up after a number  *)
(* of attempts.  Devices come and go between any two steps.                *)
(***************************************************************************)

CONSTANTS
    XpUsb3,     \* for each port: whether it is a USB 3 port
    XpRetries,  \* MAX_PORT_RETRIES, 8 in the code
    XpEvents    \* bound: devices plugged or pulled, and host system errors

ASSUME XpAssumption == XpRetries \in Nat \ {0} /\ XpEvents \in Nat

VARIABLES
    xpState,    \* the controller: "halted", "running" or "failed"
    xpHw,       \* PORTSC of each port: connected, enabled
    xpPcd,      \* the port-change bit of USBSTS
    xpHse,      \* the host-system-error bit of USBSTS
    xpLeft,     \* events still to come
    xpPort,     \* Port: ccs as last read, done, wpr_attempted, retry_count
    xpDevices,  \* ports of the entries of XhciContext::devices
    xpPoll,     \* the port that poll_ports goes on with; -1 when it is not running
    xpTry       \* whether try_connect_port counts the warm reset as done; "no" before it

xpVars == <<xpState, xpHw, xpPcd, xpHse, xpLeft, xpPort, xpDevices, xpPoll, xpTry>>

XpPorts == DOMAIN XpUsb3
XpCount == Len(XpUsb3)
Fresh == [ccs |-> FALSE, done |-> FALSE, wpr |-> FALSE, retry |-> 0]

XpTypeInv ==
    /\ xpState \in {"halted", "running", "failed"}
    /\ xpHw \in [XpPorts -> [ccs : BOOLEAN, ped : BOOLEAN]]
    /\ xpPcd \in BOOLEAN /\ xpHse \in BOOLEAN
    /\ xpLeft \in 0 .. XpEvents
    /\ xpPort \in [XpPorts -> [ccs : BOOLEAN, done : BOOLEAN, wpr : BOOLEAN, retry : 0 .. XpRetries]]
    /\ \A i \in 1 .. Len(xpDevices) : xpDevices[i] \in XpPorts
    /\ xpPoll \in -1 .. XpCount + 1 /\ xpTry \in {"no", "wpr", "wpr done"}

XpInit ==
    /\ xpState = "halted"
    /\ xpHw \in [XpPorts -> {[ccs |-> c, ped |-> FALSE] : c \in BOOLEAN}]
    /\ xpPcd = FALSE /\ xpHse = FALSE /\ xpLeft = XpEvents
    /\ xpPort = [p \in XpPorts |-> Fresh]
    /\ xpDevices = <<>> /\ xpPoll = -1 /\ xpTry = "no"

\* A device is plugged or pulled.  A USB 3 link may train by itself.
XpChange(p) ==
    /\ xpLeft > 0 /\ xpLeft' = xpLeft - 1
    /\ \E ped \in {FALSE, XpUsb3[p] /\ ~xpHw[p].ccs} :
        xpHw' = [xpHw EXCEPT ![p] = [ccs |-> ~xpHw[p].ccs, ped |-> ped]]
    /\ xpPcd' = TRUE
    /\ UNCHANGED <<xpState, xpHse, xpPort, xpDevices, xpPoll, xpTry>>

HostError ==
    /\ xpState = "running" /\ xpLeft > 0 /\ xpLeft' = xpLeft - 1
    /\ xpHse' = TRUE
    /\ UNCHANGED <<xpState, xpHw, xpPcd, xpPort, xpDevices, xpPoll, xpTry>>

\* ensure_port_ready: the states of the port after it, and whether it is ready.
\* A connected port that is not enabled is reset, a USB 3 port only when no warm
\* reset was attempted before; a reset may fail.
Ready(p, hw, wpr) ==
    LET failed == [hw |-> hw, ok |-> FALSE]
    IN IF ~hw.ccs THEN {failed}
       ELSE IF hw.ped THEN {[hw |-> hw, ok |-> TRUE]}
       ELSE IF XpUsb3[p] /\ wpr THEN {failed}
       ELSE {failed, [hw |-> [hw EXCEPT !.ped = TRUE], ok |-> TRUE]}

\* init_ports, and the loop of clear_hse_and_recover: every port is readied.
ReadyAll ==
    xpHw' \in {hw \in [XpPorts -> [ccs : BOOLEAN, ped : BOOLEAN]] :
                 \A p \in XpPorts : \E r \in Ready(p, xpHw[p], FALSE) : hw[p] = r.hw}

\* XhciContext::init: halt, reset, DMA structures, start, and init_ports.  The
\* waits for the controller may time out.
XpStart ==
    /\ xpState = "halted"
    /\ \/ xpState' = "running" /\ ReadyAll
       \/ xpState' = "failed" /\ UNCHANGED xpHw
    /\ UNCHANGED <<xpPcd, xpHse, xpLeft, xpPort, xpDevices, xpPoll, xpTry>>

\* The port is looked at from the start (clear_done_flags, and a change of its
\* connection).
Reevaluated(port) == [port EXCEPT !.done = FALSE, !.wpr = FALSE, !.retry = 0]

\* clear_hse_and_recover, at the start of each poll: after an error every port is
\* looked at again from the start.
PollRecover ==
    /\ xpState = "running" /\ xpPoll = -1
    /\ xpPoll' = 0
    /\ xpHse' = FALSE
    /\ IF xpHse
       THEN /\ xpPort' = [p \in XpPorts |-> Reevaluated(xpPort[p])]
            /\ ReadyAll
       ELSE UNCHANGED <<xpPort, xpHw>>
    /\ UNCHANGED <<xpState, xpPcd, xpLeft, xpDevices, xpTry>>

\* The entries of devices without those of a set of ports.
Retain(devices, gone) == SelectSeq(devices, LAMBDA p : p \notin gone)

\* poll_ports: the ports are read; with the port-change bit set, one whose
\* connection differs from the last reading is looked at again.
XpRefresh ==
    /\ xpPoll = 0
    /\ xpPoll' = 1
    /\ xpPcd' = FALSE
    /\ LET changed == IF xpPcd THEN {p \in XpPorts : xpHw[p].ccs # xpPort[p].ccs} ELSE {}
       IN /\ xpPort' = [p \in XpPorts |->
                          [(IF p \in changed THEN Reevaluated(xpPort[p]) ELSE xpPort[p])
                              EXCEPT !.ccs = xpHw[p].ccs]]
          /\ xpDevices' = Retain(xpDevices, changed)
    /\ UNCHANGED <<xpState, xpHw, xpHse, xpLeft, xpTry>>

\* Start of the loop body for a port that is not done: try_connect_port reads it and
\* counts a warm reset as done unless a USB 3 port has no device yet.
XpTryPort ==
    LET p == xpPoll
        wprDone == IF XpUsb3[p] /\ ~xpHw[p].ccs THEN xpPort[p].wpr ELSE TRUE
    IN /\ p \in XpPorts /\ xpTry = "no"
       /\ IF xpPort[p].done
          THEN xpPoll' = p + 1 /\ UNCHANGED <<xpPort, xpTry>>
          ELSE /\ xpTry' = IF wprDone THEN "wpr done" ELSE "wpr"
               /\ xpPort' = [xpPort EXCEPT ![p].ccs = xpHw[p].ccs, ![p].wpr = @ \/ ~wprDone]
               /\ UNCHANGED xpPoll
       /\ UNCHANGED <<xpState, xpHw, xpPcd, xpHse, xpLeft, xpDevices>>

\* The attempt failed: MAX_PORT_RETRIES of them end the port.
Failed(port) == [port EXCEPT !.retry = @ + 1, !.done = port.retry + 1 >= XpRetries]

\* The new device replaces an entry of the same port.
Connected(p) == Append(Retain(xpDevices, {p}), p)

\* The rest of the loop body: ensure_port_ready, once more after an error of the host
\* system.
XpConnect ==
    LET p == xpPoll
        wpr == xpTry = "wpr done"
        first == Ready(p, xpHw[p], wpr)
        second == UNION {Ready(p, r.hw, wpr) : r \in {f \in first : ~f.ok}}
    IN /\ p \in XpPorts /\ xpTry # "no"
       /\ xpPoll' = p + 1 /\ xpTry' = "no"
       /\ \E r \in first \union (IF xpHse THEN second ELSE {}), again \in BOOLEAN :
            /\ again => xpHse /\ r \in second
            /\ ~again => r \in first /\ (r.ok \/ ~xpHse)
            /\ xpHse' = (xpHse /\ ~again)
            /\ xpHw' = [xpHw EXCEPT ![p] = r.hw]
            /\ IF r.ok
               THEN /\ xpPort' = [xpPort EXCEPT ![p].done = TRUE]
                    /\ xpDevices' = Connected(p)
               ELSE /\ xpPort' = [xpPort EXCEPT ![p] = Failed(@)]
                    /\ xpDevices' = IF r.hw.ccs THEN xpDevices ELSE Retain(xpDevices, {p})
       /\ UNCHANGED <<xpState, xpPcd, xpLeft>>

XpPollEnd ==
    /\ xpPoll = XpCount + 1
    /\ xpPoll' = -1
    /\ UNCHANGED <<xpState, xpHw, xpPcd, xpHse, xpLeft, xpPort, xpDevices, xpTry>>

XpPollStep == PollRecover \/ XpRefresh \/ XpTryPort \/ XpConnect \/ XpPollEnd

XpNext ==
    \/ \E p \in XpPorts : XpChange(p)
    \/ HostError
    \/ XpStart
    \/ XpPollStep

XpSpec == XpInit /\ [][XpNext]_xpVars /\ WF_xpVars(XpPollStep)

-----------------------------------------------------------------------------

\* devices has at most one entry per port, although a port is connected again
\* after each error of the host system and each change of its connection.
OneEntryPerPort == \A i, j \in 1 .. Len(xpDevices) : i # j => xpDevices[i] # xpDevices[j]

\* A port that is done has an entry or was given up after MAX_PORT_RETRIES
\* attempts; no port that may still get a device is left out of the poll.
DoneForAReason ==
    \A p \in XpPorts : xpPort[p].done =>
        \/ xpPort[p].retry = XpRetries
        \/ \E i \in 1 .. Len(xpDevices) : xpDevices[i] = p

\* Once no device comes or goes, every port is settled: each one is connected or
\* given up, and the poll, which runs from the service scheduler, no longer waits
\* on any of them. PollingRuns leads to PollingSettled.
PollingRuns == xpState = "running"
PollingSettled == (\A p \in XpPorts : xpPort[p].done) \/ xpState = "failed"

--------------------------------------------------------------------------------
\* Rings, slots, staging pages and ports of the xHCI driver stay consistent through timeouts and
\* devices that come and go; a full ring or a completion taken by the wrong call costs what
\* CommandsInOrder, SlotsAgree and StagingOwned leave out.
XhciSound ==
    /\ XrTypeInv /\ CommandsInOrder /\ EventsInOrder
    /\ XsTypeInv /\ SlotsAgree /\ StagingOwned /\ StagingAccounted
    /\ XpTypeInv /\ OneEntryPerPort /\ DoneForAReason
================================================================================
