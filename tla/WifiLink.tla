-------------------------------- MODULE WifiLink --------------------------------
(***************************************************************************)
(* The Intel Wi-Fi device once it runs: scanning, authentication and        *)
(* association, the WPA2 four-way handshake with the installation of its    *)
(* keys in the NIC, the DHCP exchange, and the transmit ring that host      *)
(* commands and frames share (nitrogen iwlwifi/{tx,rx,connection_state}.rs, *)
(* bonder wifi.rs, wpa.rs, dhcp.rs).                                        *)
(*                                                                         *)
(* dev is IwlWifiDevice: a method is an operator from the device to the     *)
(* device it leaves behind.  The access points answer what the NIC sent, as  *)
(* often and as late as they like, or not at all; frames carry the identity *)
(* of the connection attempt instead of nonces, keys and MICs, and of the   *)
(* DHCP client instead of its xid.  A key or MIC of another attempt is one  *)
(* that does not verify.  rx_queue, which nothing reads, is left out.       *)
(***************************************************************************)
EXTENDS Integers, Sequences

CONSTANTS
    APs,            \* access points in range, one per SSID
    Secure,         \* those that need a password (WPA2-PSK)
    Slots,          \* TX_QUEUE_SIZE, 256 in the code
    LastChannel,    \* 13 in the code: a scan lasts that many ticks
    MaxConnects,    \* bound: connection requests of the user
    MaxTx,          \* bound: descriptors used over time
    MaxScans        \* bound: periodic scans

NoAP == "none"
NoEnd == -1

ASSUME WifiLinkAssumption ==
    /\ Secure \subseteq APs
    /\ NoAP \notin APs
    /\ Slots \in Nat \ {0, 1}
    /\ LastChannel \in Nat \ {0}
    /\ {MaxConnects, MaxTx, MaxScans} \subseteq Nat

VARIABLES
    dev,        \* the IwlWifiDevice in WIFI_DEVICE
    nicPos,     \* descriptors that the NIC has consumed
    nicKeys,    \* attempt whose keys the NIC holds, and how many of the two
    txIrq,      \* CSR_INT bit 15: the NIC has consumed descriptors
    heard,      \* frames that the NIC has sent
    pciOk,      \* PciHealth::pre_mmio_access succeeds
    queue,      \* WIFI_ACTION_QUEUE
    scans       \* periodic scans so far

linkVars == <<dev, nicPos, nicKeys, txIrq, heard, pciOk, scans, queue>>

\* What goes into a descriptor.
Command(k) == [k |-> k]
Consumed == [k |-> "Consumed"]
Key(s) == [k |-> "Key", s |-> s]
Auth(ap) == [k |-> "Auth", ap |-> ap]
Assoc(ap, s) == [k |-> "Assoc", ap |-> ap, s |-> s]
M2(ap, s, nonce) == [k |-> "M2", ap |-> ap, s |-> s, nonce |-> nonce]
M4(ap, s) == [k |-> "M4", ap |-> ap, s |-> s]
Data(k, x, d) == [k |-> k, x |-> x, s |-> d.sess, required |-> d.required,
                  protected |-> d.keysIn]

IsCommand(f) == f.k \in {"TxAnt", "Rxon", "Scan", "Key"}
IsData(f) == f.k \in {"Discover", "Request"}

LinkInit ==
    /\ dev = [iwl |-> "Init", status |-> "Disconnected", bssid |-> NoAP,
              sess |-> 0, required |-> FALSE, keysIn |-> FALSE, keyEnd |-> NoEnd,
              msg4 |-> FALSE, wpa |-> "Initial", nonce |-> 0,
              dhcp |-> 0, dhcpSess |-> 0, clients |-> 0, ip |-> 0,
              found |-> {}, scanning |-> FALSE, channel |-> 1,
              txq |-> <<>>, head |-> 2, tail |-> 0,
              ring |-> [i \in 0 .. Slots - 1 |->
                          CASE i = 0 -> Command("TxAnt")
                            [] i = 1 -> Command("Rxon")
                            [] OTHER -> Consumed],
              log |-> <<Command("TxAnt"), Command("Rxon")>>]
    /\ nicPos = 0
    /\ nicKeys = [s |-> 0, n |-> 0]
    /\ txIrq = FALSE
    /\ heard = {}
    /\ pciOk = TRUE /\ scans = 0
    /\ queue = <<>>

LinkTypeInv ==
    /\ dev.iwl \in {"Init", "Scanning", "AuthSent", "AssocSent", "Connected", "Disconnected"}
    /\ dev.status \in {"Disconnected", "Scanning", "Authenticating", "Handshake",
                       "Connected", "Error"}
    /\ dev.bssid \in APs \cup {NoAP}
    /\ dev.sess \in Nat
    /\ dev.wpa \in {"Initial", "WaitMsg1", "WaitMsg3", "WaitMsg4", "Done", "Error"}
    /\ dev.required \in BOOLEAN /\ dev.keysIn \in BOOLEAN /\ dev.msg4 \in BOOLEAN
    /\ dev.scanning \in BOOLEAN /\ txIrq \in BOOLEAN /\ pciOk \in BOOLEAN
    /\ dev.keyEnd \in {NoEnd} \cup 1 .. dev.head
    /\ dev.msg4 <=> dev.keyEnd # NoEnd
    /\ dev.found \subseteq APs
    /\ dev.channel \in 1 .. LastChannel + 1
    /\ dev.tail \in 0 .. dev.head /\ nicPos \in 0 .. dev.head
    /\ dev.ip \in 0 .. dev.sess
    /\ nicKeys.n \in 0 .. 2
    /\ scans \in 0 .. MaxScans

-----------------------------------------------------------------------------
(***************************************************************************)
(* The transmit side.  log holds what has been written to descriptors and   *)
(* not yet consumed: it is not in the code, and says what the ring means.   *)
(***************************************************************************)
Used(d) == d.head - d.tail

Put(d, f) ==
    [d EXCEPT !.ring[d.head % Slots] = f, !.head = @ + 1, !.log = Append(@, f)]

\* send_hcmd and process_tx_queue need a device that answers and a free slot.
CanSend(d) == pciOk /\ Used(d) < Slots

\* The first n frames of tx_queue move into descriptors, from head on.
PutFrames(d, n) ==
    LET place(i) == ((i - d.head) % Slots) + 1
    IN  [d EXCEPT !.ring = [i \in 0 .. Slots - 1 |->
                              IF place(i) <= n THEN d.txq[place(i)] ELSE d.ring[i]],
                  !.head = @ + n,
                  !.log = @ \o SubSeq(d.txq, 1, n),
                  !.txq = SubSeq(@, n + 1, Len(@))]

\* As many frames as there are descriptors free, while the device answers.
Ready(d, room) ==
    IF ~pciOk THEN 0 ELSE IF Len(d.txq) <= room THEN Len(d.txq) ELSE room

ProcessTxQueueOffByOne(d) == PutFrames(d, Ready(d, Slots - Used(d) + 1))

ProcessTxQueue(d) == PutFrames(d, Ready(d, Slots - Used(d)))

\* send_raw_80211_frame refuses data frames that a protected association must
\* not send; management frames and EAPOL pass.
MaySend(d, f) ==
    (d.required /\ IsData(f)) => (d.keysIn /\ f.protected)

SendRaw(d, f) ==
    IF MaySend(d, f)
    THEN ProcessTxQueue([d EXCEPT !.txq = Append(@, f)])
    ELSE d

\* update_tx_tail: an index modulo the ring size becomes a count.
UpdateTxTail(d, hardwareTail) ==
    LET advance == ((hardwareTail % Slots) + Slots - (d.tail % Slots)) % Slots
    IN  IF advance > Used(d) THEN d ELSE [d EXCEPT !.tail = @ + advance]

-----------------------------------------------------------------------------
(***************************************************************************)
(* The handshake and DHCP.                                                 *)
(***************************************************************************)
WpaFailed(d) ==
    [d EXCEPT !.wpa = "Error", !.keysIn = FALSE, !.keyEnd = NoEnd,
              !.msg4 = FALSE, !.status = "Error"]

\* start_dhcp: a new client, and its DISCOVER.
StartDhcp(d) ==
    LET e == [d EXCEPT !.clients = @ + 1, !.dhcp = d.clients + 1, !.dhcpSess = d.sess]
        f == Data("Discover", e.dhcp, e)
    IN  IF MaySend(e, f) THEN SendRaw(e, f) ELSE WpaFailed(e)

InstallWpaKeysReplyFirst(d) ==
    LET replied == SendRaw(d, M4(d.bssid, d.sess))
        two == Put(Put(replied, Key(d.sess)), Key(d.sess))
    IN  IF pciOk /\ Used(replied) + 1 < Slots
        THEN [two EXCEPT !.keyEnd = two.head, !.msg4 = TRUE]
        ELSE WpaFailed(d)

\* install_wpa_keys after message 3; the pairwise key may be queued when the
\* group key finds the ring full.
InstallWpaKeys(d) ==
    LET one == Put(d, Key(d.sess))
        two == Put(one, Key(d.sess))
    IN  CASE ~CanSend(d)   -> WpaFailed(d)
          [] CanSend(d) /\ ~CanSend(one) -> WpaFailed(one)
          [] OTHER -> [two EXCEPT !.keyEnd = two.head, !.msg4 = TRUE]

\* finish_pending_wpa_keys.
FinishPendingWpaKeys(d) ==
    IF d.keyEnd = NoEnd \/ d.tail < d.keyEnd
    THEN d
    ELSE LET e == [d EXCEPT !.keyEnd = NoEnd, !.keysIn = TRUE, !.msg4 = FALSE]
             sent == SendRaw(e, M4(e.bssid, e.sess))
         IN  IF ~d.msg4 \/ d.bssid = NoAP THEN WpaFailed(e)
             ELSE IF d.wpa # "WaitMsg4" THEN WpaFailed(sent)
             ELSE StartDhcp([sent EXCEPT !.wpa = "Done", !.status = "Connected"])

\* An EAPOL-Key frame.  Only message 1 is expected in WaitMsg1 and only a
\* verified message 3 in WaitMsg3; anything else ends the handshake there.
ReceiveEapol(d, f) ==
    IF ~d.required \/ f.ap # d.bssid THEN d
    ELSE CASE d.wpa = "WaitMsg1" ->
                IF f.k = "M1"
                THEN SendRaw([d EXCEPT !.wpa = "WaitMsg3", !.nonce = f.s],
                             M2(d.bssid, d.sess, f.s))
                ELSE WpaFailed(d)
           [] d.wpa = "WaitMsg3" ->
                IF f.k = "M3" /\ f.s = d.sess /\ d.nonce = d.sess
                THEN InstallWpaKeys([d EXCEPT !.wpa = "WaitMsg4"])
                ELSE WpaFailed(d)
           [] OTHER -> d

\* An IPv4 frame for the DHCP client; another client's xid does not match.
ReceiveDhcpAlways(d, f) ==
    IF d.dhcp # f.x THEN d
    ELSE IF f.k = "Ack" THEN [d EXCEPT !.ip = d.dhcpSess]
    ELSE SendRaw(d, Data("Request", d.dhcp, d))

ReceiveDhcp(d, f) ==
    IF (d.required /\ ~d.keysIn) \/ d.dhcp # f.x THEN d
    ELSE IF f.k = "Ack" THEN [d EXCEPT !.ip = d.dhcpSess]
    ELSE LET request == Data("Request", d.dhcp, d)
         IN  IF MaySend(d, request) THEN SendRaw(d, request)
             ELSE [d EXCEPT !.status = "Error"]

-----------------------------------------------------------------------------
(***************************************************************************)
(* Scanning, authentication and association.                               *)
(***************************************************************************)
ReceiveAuth(d, f) ==
    IF d.iwl \notin {"AuthSent", "Scanning"} THEN d
    ELSE IF f.ok THEN SendRaw([d EXCEPT !.iwl = "AssocSent"], Assoc(f.ap, d.sess))
    ELSE [d EXCEPT !.status = "Error"]

ReceiveAssoc(d, f) ==
    IF d.iwl # "AssocSent" THEN d
    ELSE IF ~f.ok THEN [d EXCEPT !.status = "Error"]
    ELSE LET e == [d EXCEPT !.iwl = "Connected", !.bssid = f.ap,
                            !.status = IF d.required THEN "Handshake" ELSE "Connected"]
         IN  IF d.required THEN e ELSE StartDhcp(e)

ReceiveDeauth(d) == [d EXCEPT !.status = "Disconnected", !.iwl = "Disconnected"]

ReceiveBeacon(d, f) ==
    IF d.iwl = "Scanning" THEN [d EXCEPT !.found = @ \cup {f.ap}] ELSE d

ProcessRxFrame(d, f) ==
    CASE f.k = "Beacon" -> ReceiveBeacon(d, f)
      [] f.k = "AuthResp" -> ReceiveAuth(d, f)
      [] f.k = "AssocResp" -> ReceiveAssoc(d, f)
      [] f.k \in {"M1", "M3"} -> ReceiveEapol(d, f)
      [] f.k \in {"Offer", "Ack"} -> ReceiveDhcp(d, f)
      [] f.k = "Deauth" -> ReceiveDeauth(d)

\* start_scan changes the state before its command can fail.
StartScan(d) ==
    LET e == [d EXCEPT !.status = "Scanning", !.found = {}, !.channel = 1,
                       !.scanning = TRUE, !.iwl = "Scanning"]
    IN  IF CanSend(e) THEN Put(e, Command("Scan")) ELSE e

StartScanIfIdle(d) == IF d.status = "Disconnected" THEN StartScan(d) ELSE d

\* The end of IwlWifiDevice::tick.
AdvanceScan(d) ==
    IF ~d.scanning THEN d
    ELSE IF d.channel + 1 <= LastChannel THEN [d EXCEPT !.channel = @ + 1]
    ELSE [d EXCEPT !.channel = @ + 1, !.scanning = FALSE, !.iwl = "Disconnected",
                   !.status = IF @ = "Scanning" THEN "Disconnected" ELSE @]

\* connect.  A protected access point needs a password, an open one takes none.
Accepted(d, a) == a.ap \in d.found /\ (a.password <=> a.ap \in Secure)

Attempt(d, a) ==
    [d EXCEPT !.status = "Authenticating", !.iwl = "AuthSent",
              !.required = a.password, !.keysIn = FALSE, !.keyEnd = NoEnd,
              !.msg4 = FALSE, !.ip = 0, !.sess = @ + 1,
              !.wpa = IF a.password THEN "WaitMsg1" ELSE @]

Connect(d, a) == IF Accepted(d, a) THEN SendRaw(Attempt(d, a), Auth(a.ap)) ELSE d

=============================================================================
