---------------------------------- MODULE Wifi ----------------------------------
(***************************************************************************)
(* The Wi-Fi service of the runtime (solvent network_manager.rs): its tick   *)
(* advances the bring-up (WifiInit), services the device (WifiLink), starts *)
(* a scan now and then, and carries out the user's connection requests.     *)
(* Between any two of these steps the NIC consumes descriptors, the user    *)
(* asks for a connection, and the PCI health of the device changes.         *)
(***************************************************************************)
EXTENDS WifiInit, WifiLink

vars == <<initVars, linkVars>>

TypeInv == InitTypeInv /\ LinkTypeInv

Init == InitInit /\ LinkInit

\* A step of the tick that only touches the device.
At(place) == cpu = "run" /\ pc = place

Then(place) ==
    /\ pc' = place
    /\ UNCHANGED <<phase, completed, pending, age, ctxPci, ctxDev, fwIdx, lock,
                   device, busMaster, cpu, armed, triggered>>

Within == dev'.head + Len(dev'.txq) <= MaxTx

\* tick_wifi_device without a device, or with one that fails its health check.
TickNothing ==
    /\ At("device")
    /\ ~completed \/ ~device \/ ~pciOk
    /\ Then("finish")
    /\ UNCHANGED <<service, linkVars>>

\* A register read returns all ones, possibly after CSR_INT was acknowledged.
TickAborts ==
    /\ At("device") /\ completed /\ device /\ pciOk
    /\ txIrq' \in {txIrq, FALSE}
    /\ Then("finish")
    /\ UNCHANGED <<service, dev, nicPos, nicKeys, heard, pciOk, scans, queue>>

\* IwlWifiDevice::tick up to its receive loop.
TickInterrupt ==
    /\ At("device") /\ completed /\ device /\ pciOk
    /\ dev' = FinishPendingWpaKeys(
                IF txIrq THEN ProcessTxQueue(UpdateTxTail(dev, nicPos % Slots)) ELSE dev)
    /\ txIrq' = FALSE
    /\ Then("rx")
    /\ UNCHANGED <<service, nicPos, nicKeys, heard, pciOk, scans, queue>>

\* What the access points may send, given what the NIC sent before.
Replies ==
    LET ofKind(k) == {f \in heard : f.k = k}
    IN  UNION {
          {[k |-> "Beacon", ap |-> ap] : ap \in APs},
          {[k |-> "Deauth"]},
          {[k |-> "AuthResp", ap |-> f.ap, ok |-> ok] : f \in ofKind("Auth"), ok \in BOOLEAN},
          {[k |-> "AssocResp", ap |-> f.ap, ok |-> ok] : f \in ofKind("Assoc"), ok \in BOOLEAN},
          {[k |-> "M1", ap |-> f.ap, s |-> f.s] : f \in {g \in ofKind("Assoc") : g.ap \in Secure}},
          {[k |-> "M3", ap |-> f.ap, s |-> f.s] : f \in {g \in ofKind("M2") : g.nonce = g.s}},
          {[k |-> "Offer", x |-> f.x] : f \in ofKind("Discover")},
          {[k |-> "Ack", x |-> f.x] : f \in ofKind("Request")}}

RxFrame ==
    /\ At("rx")
    /\ \E f \in Replies : dev' = ProcessRxFrame(dev, f)
    /\ Within
    /\ UNCHANGED <<initVars, nicPos, nicKeys, txIrq, heard, pciOk, scans, queue>>

\* No descriptor is left, and tick ends with the scan timer.
RxEmpty ==
    /\ At("rx")
    /\ dev' = AdvanceScan(dev)
    /\ Then("finish")
    /\ UNCHANGED <<service, nicPos, nicKeys, txIrq, heard, pciOk, scans, queue>>

\* The tick ends when no request is left, and the service is put back.
Remaining(requests) ==
    /\ queue' = requests
    /\ service' = IF requests = <<>> THEN "registered" ELSE service
    /\ Then(IF requests = <<>> THEN "idle" ELSE "requests")

\* The rest of WifiService::tick: every 600th looks for a scan to start, and
\* each carries out the requests queued since the last, one after the other.
Finish(due) ==
    /\ At("finish")
    /\ due => scans < MaxScans
    /\ scans' = IF due /\ completed /\ device THEN scans + 1 ELSE scans
    /\ dev' = IF due /\ completed /\ device THEN StartScanIfIdle(dev) ELSE dev
    /\ Within
    /\ Remaining(queue)
    /\ UNCHANGED <<nicPos, nicKeys, txIrq, heard, pciOk>>

CarryOut ==
    /\ At("requests")
    /\ dev' = IF device THEN Connect(dev, Head(queue)) ELSE dev
    /\ Within
    /\ Remaining(Tail(queue))
    /\ UNCHANGED <<nicPos, nicKeys, txIrq, heard, pciOk, scans>>

Tick ==
    \/ InitStep /\ UNCHANGED linkVars
    \/ StallInTick /\ UNCHANGED linkVars
    \/ TickNothing \/ TickAborts \/ TickInterrupt \/ RxFrame \/ RxEmpty
    \/ \E due \in BOOLEAN : Finish(due)
    \/ CarryOut

-----------------------------------------------------------------------------
(***************************************************************************)
(* The NIC, the PCI link and the user.  The NIC's progress is only looked at *)
(* when a tick handles the interrupt, so that it is no loss to let the NIC   *)
(* act between ticks; the network menu runs on the loop that runs the tick.  *)
(***************************************************************************)
NicConsume ==
    /\ pc = "idle" /\ device /\ nicPos < dev.head
    /\ LET f == dev.ring[nicPos % Slots]
       IN  /\ heard' = IF IsCommand(f) THEN heard ELSE heard \cup {f}
           /\ nicKeys' = IF f.k # "Key" THEN nicKeys
                         ELSE IF f.s = nicKeys.s THEN [nicKeys EXCEPT !.n = 2]
                         ELSE [s |-> f.s, n |-> 1]
    /\ nicPos' = nicPos + 1
    /\ dev' = [dev EXCEPT !.log = Tail(@), !.ring[nicPos % Slots] = Consumed]
    /\ txIrq' = TRUE
    /\ UNCHANGED <<initVars, pciOk, scans, queue>>

PciHealth ==
    /\ device
    /\ pciOk' = ~pciOk
    /\ UNCHANGED <<initVars, dev, nicPos, nicKeys, txIrq, heard, queue, scans>>

UserConnect ==
    /\ At("idle") /\ dev.sess + Len(queue) < MaxConnects
    /\ \E ap \in APs, p \in BOOLEAN : queue' = Append(queue, [ap |-> ap, password |-> p])
    /\ UNCHANGED <<initVars, dev, nicPos, nicKeys, txIrq, heard, pciOk, scans>>

Next == Tick \/ NicConsume \/ PciHealth \/ UserConnect

Fairness == WF_vars(Tick)

Spec == Init /\ [][Next]_vars /\ Fairness

-----------------------------------------------------------------------------
(***************************************************************************)
(* Properties.                                                             *)
(***************************************************************************)

\* When the bring-up is completed (wifi_init_completed), the device has been
\* handed over exactly if it reached Done, and the context keeps no device
\* whose DMA memory nobody would free - whether a phase failed, the service
\* timed out, or the watchdog restarted the scheduler loop.
InitOutcome ==
    completed => /\ device <=> phase = "Done"
                 /\ ~ctxDev

\* "Do not expose Connected or start DHCP until the 4-way handshake installs
\* CCMP keys" (rx.rs): a protected association is only reported Connected after
\* its handshake and with its keys installed, whatever was received meanwhile.
ConnectedProtected ==
    (dev.status = "Connected" /\ dev.required) => (dev.keysIn /\ dev.wpa = "Done")

\* wpa_keys_installed means that the NIC has consumed both key commands of the
\* current attempt, not of an earlier one, however late completions are seen.
KeysInNic == dev.keysIn => nicKeys = [s |-> dev.sess, n |-> 2]

\* Message 4 and the data frames of a protected association leave the device
\* after both of its keys are in the NIC, and data frames leave it protected.
DataAfterKeys ==
    \A f \in heard :
       (f.k = "M4" \/ (IsData(f) /\ f.required)) =>
          /\ IsData(f) => f.protected
          /\ nicKeys.s > f.s \/ nicKeys = [s |-> f.s, n |-> 2]

\* A protected association is protected throughout: reported only with its keys
\* in the NIC, and without a data frame that left before them.
LinkProtected == TypeInv /\ ConnectedProtected /\ KeysInNic /\ DataAfterKeys

\* The NIC consumes exactly what was written to descriptors, in that order: a
\* descriptor is not reused before the NIC is past it, across wraparound.
RingIsFifo ==
    /\ Len(dev.log) = dev.head - nicPos
    /\ \A i \in 1 .. Len(dev.log) : dev.ring[(nicPos + i - 1) % Slots] = dev.log[i]

\* On a protected association the address is one that was leased on it: a late
\* answer to the DHCP client of an earlier association changes nothing.
SecureAddressIsCurrent ==
    (dev.required /\ dev.ip # 0) => dev.ip = dev.sess

\* force_init_failed exists "to prevent the idle loop from being permanently
\* blocked" (connection_state.rs:59), and every wait of a phase has a timeout:
\* with a link that completes every read, the bring-up comes to an end.
InitCompletes == <>completed

=============================================================================
