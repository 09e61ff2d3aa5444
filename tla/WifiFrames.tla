------------------------------ MODULE WifiFrames -------------------------------
(***************************************************************************)
(* Frames and hardware below the wireless link: the DHCP client, the       *)
(* reading of beacons, the packets of the network logger, and the memory   *)
(* and firmware loading of the iwlwifi device. The four parts share no     *)
(* state.                                                                  *)
(***************************************************************************)
EXTENDS Naturals, Sequences, FiniteSets

(***************************************************************************)
(* DhcpLease.  The DHCP client of bonder and its use by the Wi-Fi driver:  *)
(* one transaction number per association, the walk over the options of a  *)
(* reply, a request for every offer and the addresses copied from an       *)
(* acknowledgement.  Several servers answer, their replies repeated, late  *)
(* or lost.  Server s offers the address <<s, xid>>, itself as router and  *)
(* itself as server identifier.                                            *)
(***************************************************************************)

CONSTANTS
    DlServers,  \* DHCP servers that answer, nonzero numbers
    DlStarts,   \* bound: associations
    DlReplies,  \* bound: different replies of the servers
    DlLayouts   \* option lists of replies: "type", "router", "sid", "pad", "end", "cut"

ASSUME DlAssumption == {DlStarts, DlReplies} \subseteq Nat /\ DlServers \subseteq Nat \ {0}

NoAddress == <<0, 0>>
NoClient == [state |-> "None", xid |-> 0, ip |-> NoAddress, router |-> 0, sid |-> 0]

VARIABLES
    dlClient,   \* the driver's DhcpClient and its lease
    dlDev,      \* ip_address and gateway of the driver; history: xid at the time, and whether the Ack named a router
    dlSent,     \* messages of the client
    dlAir,      \* replies in the air; taken late, again, or never
    dlGranted,  \* addresses servers have acknowledged
    dlXid       \* transactions so far

dlVars == <<dlClient, dlDev, dlSent, dlAir, dlGranted, dlXid>>
NoDev == [ip |-> NoAddress, gw |-> 0, by |-> 0, named |-> FALSE]

DlInit ==
    /\ dlClient = NoClient /\ dlDev = NoDev /\ dlSent = {} /\ dlAir = {} /\ dlGranted = {} /\ dlXid = 0

Message(k, xid, ip, sid) == [k |-> k, xid |-> xid, ip |-> ip, sid |-> sid]

\* connect forgets the addresses of the last network but not its DHCP client.
ConnectNetwork == dlDev # NoDev /\ dlDev' = NoDev /\ UNCHANGED <<dlClient, dlSent, dlAir, dlGranted, dlXid>>

\* start_dhcp: a new client with a number of its own, and its discover.
StartDhcp ==
    /\ dlXid < DlStarts
    /\ dlXid' = dlXid + 1
    /\ dlClient' = [NoClient EXCEPT !.state = "Selecting", !.xid = dlXid + 1]
    /\ dlSent' = dlSent \cup {Message("Discover", dlXid + 1, NoAddress, 0)}
    /\ UNCHANGED <<dlDev, dlAir, dlGranted>>

\* disconnect releases the lease and drops the client; the driver keeps its addresses.
DisconnectNetwork ==
    /\ dlClient # NoClient
    /\ dlSent' = dlSent \cup {Message("Release", dlClient.xid, dlClient.ip, dlClient.sid)}
    /\ dlClient' = NoClient
    /\ UNCHANGED <<dlDev, dlAir, dlGranted, dlXid>>

-----------------------------------------------------------------------------

Reply(k, s, xid, opts) == [k |-> k, from |-> s, xid |-> xid, opts |-> opts]
DhcpAnswers(s, xid, ks) == Cardinality(dlAir) < DlReplies /\ ~\E m \in dlAir : m.from = s /\ m.xid = xid /\ m.k \in ks

ServerOffers(s, opts) ==
    \E r \in dlSent :
        /\ r.k = "Discover" /\ DhcpAnswers(s, r.xid, {"Offer"})
        /\ dlAir' = dlAir \cup {Reply("Offer", s, r.xid, opts)}
        /\ UNCHANGED <<dlClient, dlDev, dlSent, dlGranted, dlXid>>

\* A server grants or refuses a request that names it, and only the address it offered.
ServerAnswers(s, opts) ==
    \E r \in dlSent :
        /\ r.k = "Request" /\ r.sid = s /\ DhcpAnswers(s, r.xid, {"Ack", "Nak"})
        /\ \/ /\ r.ip = <<s, r.xid>>
              /\ dlAir' = dlAir \cup {Reply("Ack", s, r.xid, opts)}
              /\ dlGranted' = dlGranted \cup {r.ip}
           \/ dlAir' = dlAir \cup {Reply("Nak", s, r.xid, opts)} /\ UNCHANGED dlGranted
        /\ UNCHANGED <<dlClient, dlDev, dlSent, dlXid>>

-----------------------------------------------------------------------------

\* The options the walk sees: it ends at the end mark or at an option that does not fit.
Walked(opts) == {opts[i] : i \in {j \in 1 .. Len(opts) : \A h \in 1 .. j : opts[h] \notin {"end", "cut"}}}

RouterAfter(c, m) == IF "router" \in Walked(m.opts) THEN m.from ELSE c.router
\* A lease takes every option of a reply as it is met, whatever the reply turns out to be.
WithOptions(c, m) ==
    [c EXCEPT !.router = RouterAfter(c, m), !.sid = IF "sid" \in Walked(m.opts) THEN m.from ELSE @]

\* Offers and acknowledgements set the address, in every state of the client.
AddressAfter(c, m) == IF m.k \in {"Offer", "Ack"} THEN <<m.from, m.xid>> ELSE c.ip

\* parse_response and the driver's use of its result.
ReceiveReply ==
    \E m \in dlAir :
        LET c == WithOptions(dlClient, m) IN
        /\ dlClient # NoClient /\ m.xid = dlClient.xid
        /\ IF "type" \notin Walked(m.opts)
           THEN dlClient' = c /\ UNCHANGED <<dlDev, dlSent>>
           ELSE LET d == [c EXCEPT !.ip = AddressAfter(c, m)] IN
                CASE m.k = "Offer" ->
                       /\ dlClient' = [d EXCEPT !.state = "Requesting"]
                       /\ dlSent' = dlSent \cup {Message("Request", d.xid, d.ip, d.sid)}
                       /\ UNCHANGED dlDev
                  [] m.k = "Ack" ->
                       /\ dlClient' = [d EXCEPT !.state = "Bound"]
                       /\ dlDev' = [ip |-> d.ip, gw |-> d.router, by |-> d.xid, named |-> "router" \in Walked(m.opts)]
                       /\ UNCHANGED dlSent
                  [] OTHER -> dlClient' = d /\ UNCHANGED <<dlDev, dlSent>>
        /\ UNCHANGED <<dlAir, dlGranted, dlXid>>

DlNext ==
    \/ ConnectNetwork \/ StartDhcp \/ DisconnectNetwork \/ ReceiveReply
    \/ \E s \in DlServers, opts \in DlLayouts : ServerOffers(s, opts) \/ ServerAnswers(s, opts)

DlSpec == DlInit /\ [][DlNext]_dlVars

-----------------------------------------------------------------------------

\* The client's state and lease stay in their types.
DlTypeInv ==
    /\ dlClient.state \in {"None", "Selecting", "Requesting", "Bound"}
    /\ dlXid \in 0 .. DlStarts /\ dlClient.xid \in 0 .. dlXid
    /\ {dlClient.router, dlClient.sid, dlDev.gw} \subseteq DlServers \cup {0}

\* The driver only uses an address that a server granted to this transaction: with several offers
\* requested one after the other, an acknowledgement never installs another server's offer
\* (parse_response takes the address of the acknowledgement itself).
AddressGranted == dlDev.ip # NoAddress => dlDev.ip \in dlGranted /\ dlDev.ip[2] = dlDev.by

\* An acknowledgement that names a router sets that router: the gateway and the address then come
\* from one server, whatever the offers of others left in the lease (rx.rs copies the whole lease).
GatewayOfGranter == dlDev.named => dlDev.gw = dlDev.ip[1]

(***************************************************************************)
(* BeaconScan.  What a Wi-Fi scan makes of the beacons it hears: the walk  *)
(* over the tagged elements of a frame that may end anywhere, the fields   *)
(* of the security element that may end anywhere too, the kind of security *)
(* concluded from it, and the two lists of access points it fills.  A body *)
(* is the bytes after the fixed part of a frame; byte i of the code is     *)
(* element i + 1 here.                                                     *)
(***************************************************************************)

CONSTANTS
    BsFrames,  \* frames on the air: [sta, kind, privacy, els], els of [tag, body, akms]
    BsHeard,   \* bound: frames heard
    BsScans    \* bound: scans started

ASSUME BsAssumption == {BsHeard, BsScans} \subseteq Nat

TagSsid == 0
TagChannel == 3
TagRsn == 48
SSID_MAX_LEN == 32

BsMin(a, b) == IF a < b THEN a ELSE b
U16(b, p) == b[p + 1] + 256 * b[p + 2]
U32(b, p) == U16(b, p) + 65536 * U16(b, p + 2)

VARIABLES
    bsFrame,   \* the frame being parsed with its bytes, <<>> between frames
    bsOff,     \* offset of the walk
    bsGot,     \* what the walk has found
    bsStatus,  \* WifiConnection.status
    bsKnown,   \* WifiConnection.scan_results
    bsAll,     \* IwlWifiDevice.scan_results
    bsCount    \* frames heard and scans started

bsVars == <<bsFrame, bsOff, bsGot, bsStatus, bsKnown, bsAll, bsCount>>
NothingFound == [ssid |-> <<>>, channel |-> 0, rsn |-> FALSE, akms |-> <<>>]

BsInit ==
    /\ bsFrame = <<>> /\ bsOff = 0 /\ bsGot = NothingFound
    /\ bsStatus = "Disconnected" /\ bsKnown = <<>> /\ bsAll = <<>> /\ bsCount = [heard |-> 0, scans |-> 0]

StartScan ==
    /\ bsFrame = <<>> /\ bsCount.scans < BsScans
    /\ bsStatus' = "Scanning" /\ bsKnown' = <<>> /\ bsAll' = <<>>
    /\ bsCount' = [bsCount EXCEPT !.scans = @ + 1]
    /\ UNCHANGED <<bsFrame, bsOff, bsGot>>

FinishScan ==
    /\ bsFrame = <<>> /\ bsStatus = "Scanning"
    /\ bsStatus' = "Disconnected"
    /\ UNCHANGED <<bsFrame, bsOff, bsGot, bsKnown, bsAll, bsCount>>

-----------------------------------------------------------------------------

RECURSIVE Encoded(_)
Encoded(els) ==
    IF els = <<>> THEN <<>>
    ELSE <<Head(els).tag, Len(Head(els).body)>> \o Head(els).body \o Encoded(Tail(els))

\* A frame arrives with its body cut after n bytes.
HearFrame(f, n) ==
    /\ bsFrame = <<>> /\ bsCount.heard < BsHeard /\ n \in 0 .. Len(Encoded(f.els))
    /\ bsCount' = [bsCount EXCEPT !.heard = @ + 1]
    /\ IF f.kind \in {"Beacon", "ProbeResponse"}
       THEN bsFrame' = <<f, SubSeq(Encoded(f.els), 1, n)>>
       ELSE UNCHANGED bsFrame
    /\ bsOff' = 0 /\ bsGot' = NothingFound
    /\ UNCHANGED <<bsStatus, bsKnown, bsAll>>

Bytes == bsFrame[2]

\* The element at the walk's offset, when it is whole.
ElementTag == Bytes[bsOff + 1]
ElementLen == Bytes[bsOff + 2]
WalkGoesOn == bsOff + 2 <= Len(Bytes) /\ bsOff + 2 + ElementLen <= Len(Bytes)

RsnEnd(pos, len) == pos + len

\* The AKM suites of the security element whose body begins at pos: every count is believed only as
\* far as the element goes.
AkmsAt(pos, len) ==
    LET end == RsnEnd(pos, len)
        count(p) == IF p + 2 <= end THEN U16(Bytes, p) ELSE 0
        fit(p, n) == BsMin(n, IF p <= end THEN (end - p) \div 4 ELSE 0)
        pairs == pos + 8
        akms == pairs + 4 * fit(pairs, count(pairs - 2)) + 2
    IN  [i \in 1 .. fit(akms, count(akms - 2)) |-> U32(Bytes, akms + 4 * (i - 1))]

ParseElement ==
    /\ bsFrame # <<>> /\ WalkGoesOn
    /\ LET pos == bsOff + 2
           len == ElementLen
       IN  bsGot' = CASE ElementTag = TagSsid -> [bsGot EXCEPT !.ssid = SubSeq(Bytes, pos + 1, pos + BsMin(len, SSID_MAX_LEN))]
                      [] ElementTag = TagChannel /\ len >= 1 -> [bsGot EXCEPT !.channel = Bytes[pos + 1]]
                      [] ElementTag = TagRsn /\ len >= 2 -> [bsGot EXCEPT !.rsn = TRUE, !.akms = AkmsAt(pos, len)]
                      [] OTHER -> bsGot
    /\ bsOff' = bsOff + 2 + ElementLen
    /\ UNCHANGED <<bsFrame, bsStatus, bsKnown, bsAll, bsCount>>

\* security_from_beacon: the first known suite decides, then the privacy bit.
Suite(akm) ==
    CASE akm \in {1027073, 1027077} -> "Wpa2Psk" [] akm = 1027074 -> "WpaPsk" [] akm = 1027080 -> "Wpa3Sae" [] OTHER -> "None"
SecurityOf(akms, privacy) ==
    LET known == {i \in DOMAIN akms : Suite(akms[i]) # "None"} IN
    IF known # {} THEN Suite(akms[CHOOSE i \in known : \A j \in known : i <= j])
    ELSE IF privacy THEN "WpaPsk" ELSE "Open"

SameStation(list, ap) == \E i \in DOMAIN list : list[i].bssid = ap.bssid

\* The rest of process_scan_result, once the walk has ended.
AddResult ==
    /\ bsFrame # <<>> /\ ~WalkGoesOn
    /\ LET ap == [bssid |-> bsFrame[1].sta, ssid |-> bsGot.ssid, channel |-> bsGot.channel,
                  security |-> SecurityOf(bsGot.akms, bsFrame[1].privacy)]
       IN  IF bsGot.ssid = <<>> THEN UNCHANGED <<bsKnown, bsAll>>
           ELSE /\ bsKnown' = IF SameStation(bsKnown, ap) THEN bsKnown ELSE Append(bsKnown, ap)
                /\ bsAll' = Append(bsAll, ap)
    /\ bsFrame' = <<>>
    /\ UNCHANGED <<bsOff, bsGot, bsStatus, bsCount>>

BsNext ==
    \/ StartScan \/ FinishScan \/ ParseElement \/ AddResult
    \/ \E f \in BsFrames : \E n \in 0 .. Len(Encoded(f.els)) : HearFrame(f, n)

BsSpec == BsInit /\ [][BsNext]_bsVars

-----------------------------------------------------------------------------

\* The walk stays in the frame, and the scan's counters in their bounds.
BsTypeInv ==
    /\ bsFrame # <<>> => bsOff \in 0 .. Len(Bytes)
    /\ bsStatus \in {"Disconnected", "Scanning"} /\ bsCount.heard \in 0 .. BsHeard /\ bsCount.scans \in 0 .. BsScans

\* The elements of the frame that are whole before offset n.
WholeBefore(els, n) == {i \in 1 .. Len(els) : Len(Encoded(SubSeq(els, 1, i))) <= n}
Latest(els, n, tag) == {i \in WholeBefore(els, n) : els[i].tag = tag /\ \A j \in WholeBefore(els, n) : els[j].tag = tag => j <= i}

\* What the walk has found is what the sender put there: the latest whole name and channel, and just
\* the AKM suites that are whole within the security element, wherever the frame and the element end
\* and whatever counts they declare (parse_beacon).
BeaconRead ==
    bsFrame # <<>> =>
        LET els == bsFrame[1].els IN
        /\ \A i \in Latest(els, bsOff, TagSsid) : bsGot.ssid = els[i].body
        /\ \A i \in Latest(els, bsOff, TagChannel) : els[i].body # <<>> => bsGot.channel = els[i].body[1]
        /\ \A i \in Latest(els, bsOff, TagRsn) : Len(els[i].body) >= 2 => bsGot.akms = els[i].akms
        /\ bsGot.rsn => \E i \in WholeBefore(els, bsOff) : els[i].tag = TagRsn

\* No access point that announces privacy is listed as open, whatever part of its beacon was heard:
\* connect would join it without a password (security_from_beacon).
PrivateNeverOpen ==
    \A i \in DOMAIN bsAll : bsAll[i].security = "Open" => \E f \in BsFrames : f.sta = bsAll[i].bssid /\ ~f.privacy

\* The two result lists agree: the list shown names every station the driver can join, each once,
\* though stations of one network share a name (add_scan_result).
EveryStationListed ==
    /\ {bsAll[i].bssid : i \in DOMAIN bsAll} = {bsKnown[i].bssid : i \in DOMAIN bsKnown}
    /\ \A i, j \in DOMAIN bsKnown : bsKnown[i].bssid = bsKnown[j].bssid => i = j

(***************************************************************************)
(* LogPackets.  The UDP log sink of bonder: several threads log through    *)
(* one message buffer and one frame buffer, each behind a lock, and a      *)
(* message becomes a datagram, an IPv4 packet and an Ethernet frame, byte  *)
(* by byte, with the checksums as the code computes and writes them.       *)
(***************************************************************************)

CONSTANTS
    LpThreads,   \* threads that log
    LpMessages,  \* messages: sequences of characters, a character being its bytes
    LpMax,       \* bytes of a message that are kept (MAX_LOG_MESSAGE - 6)
    LpRoom,      \* size of the frame buffer (1500)
    LpLogs       \* bound: messages logged in all

ASSUME LpAssumption == {LpMax, LpRoom, LpLogs} \subseteq Nat

Hi(n) == n \div 256
Lo(n) == n % 256
Be(n) == <<Hi(n), Lo(n)>>
Le(n) == <<Lo(n), Hi(n)>>
Src == <<192, 168, 1, 100>>
Dst == <<127, 0, 0, 1>>
Ports16 == Be(51401) \o Be(51400)

RECURSIVE Joined(_)
Joined(msg) == IF msg = <<>> THEN <<>> ELSE Head(msg) \o Joined(Tail(msg))

\* emit moves its limit down to the nearest character boundary.
Boundaries(msg) == {Len(Joined(SubSeq(msg, 1, k))) : k \in 0 .. Len(msg)}
Limit(msg) == CHOOSE b \in Boundaries(msg) \cap (0 .. LpMax) : \A c \in Boundaries(msg) \cap (0 .. LpMax) : c <= b
Payload(msg) == <<91, 73, 93, 32>> \o SubSeq(Joined(msg), 1, Limit(msg)) \o <<10>>

\* The 16-bit words of a byte sequence, an odd last byte being the high half of a word.
RECURSIVE WordSum(_)
WordSum(b) ==
    IF b = <<>> THEN 0 ELSE IF Len(b) = 1 THEN 256 * b[1] ELSE 256 * b[1] + b[2] + WordSum(SubSeq(b, 3, Len(b)))
RECURSIVE Folded(_)
Folded(sum) == IF sum < 65536 THEN sum ELSE Folded((sum % 65536) + (sum \div 65536))
Complement(sum) == 65535 - Folded(sum)

PseudoHeader(len) == Src \o Dst \o <<0, 17>> \o Be(len)
UdpHeader(len, cs) == Ports16 \o Be(len) \o Be(cs)
NeverZero(cs) == IF cs = 0 THEN 65535 ELSE cs
UdpChecksum(payload) ==
    LET len == 8 + Len(payload)
    IN  NeverZero(Complement(WordSum(PseudoHeader(len)) + WordSum(UdpHeader(len, 0)) + WordSum(payload)))
Datagram(payload) == UdpHeader(8 + Len(payload), UdpChecksum(payload)) \o payload

\* build_packet: the checksum is swapped once before it is written in network order.
IpHeader(total, id, cs) == <<69, 0>> \o Be(total) \o Be(id) \o <<0, 0, 64, 17>> \o cs \o Src \o Dst
IpPacket(id, udp) ==
    LET total == 20 + Len(udp)
    IN  IpHeader(total, id, Le(Complement(WordSum(IpHeader(total, id, <<0, 0>>))))) \o udp
EthFrame(ip) == [i \in 1 .. 6 |-> 255] \o <<2, 0, 0, 0, 0, 1>> \o <<8, 0>> \o ip

-----------------------------------------------------------------------------

VARIABLES
    lpAt,     \* what each thread does: "idle", "message", "datagram", "packet"
    lpMsg,    \* the message each thread logs
    lpText,   \* msg_buf
    lpFrame,  \* frame_buf
    lpPacket, \* each thread's own IP packet
    lpLocks,  \* holders of the two locks, {} or one thread
    lpId,     \* ip_id
    lpSent,   \* frames sent, with the thread and its message
    lpCount   \* messages so far

lpVars == <<lpAt, lpMsg, lpText, lpFrame, lpPacket, lpLocks, lpId, lpSent, lpCount>>

LpInit ==
    /\ lpAt = [t \in LpThreads |-> "idle"] /\ lpMsg = [t \in LpThreads |-> <<>>]
    /\ lpText = <<>> /\ lpFrame = <<>> /\ lpPacket = [t \in LpThreads |-> <<>>]
    /\ lpLocks = [msg |-> {}, frame |-> {}] /\ lpId = 1 /\ lpSent = {} /\ lpCount = 0

\* The message buffer is locked, cleared and written.
WriteMessage(t, msg) ==
    /\ lpAt[t] = "idle" /\ lpLocks.msg = {} /\ lpCount < LpLogs
    /\ lpLocks' = [lpLocks EXCEPT !.msg = {t}]
    /\ lpMsg' = [lpMsg EXCEPT ![t] = msg] /\ lpText' = Payload(msg)
    /\ lpAt' = [lpAt EXCEPT ![t] = "message"] /\ lpCount' = lpCount + 1
    /\ UNCHANGED <<lpFrame, lpPacket, lpId, lpSent>>

Stop(t, locks) ==
    /\ lpAt' = [lpAt EXCEPT ![t] = "idle"] /\ lpLocks' = locks
    /\ UNCHANGED <<lpMsg, lpText, lpFrame, lpPacket, lpId, lpSent, lpCount>>

FrameFree(t) == lpLocks.frame = {}
\* With the frame buffer locked too, the datagram is built in it; then the message buffer is let go.
BuildDatagram(t) ==
    /\ lpAt[t] = "message" /\ FrameFree(t)
    /\ IF Len(Datagram(lpText)) > LpRoom THEN Stop(t, [lpLocks EXCEPT !.msg = {}])
       ELSE /\ lpFrame' = Datagram(lpText)
            /\ lpLocks' = [msg |-> {}, frame |-> {t}]
            /\ lpAt' = [lpAt EXCEPT ![t] = "datagram"]
            /\ UNCHANGED <<lpMsg, lpText, lpPacket, lpId, lpSent, lpCount>>

BuildPacket(t) ==
    /\ lpAt[t] = "datagram"
    /\ IF 20 + Len(lpFrame) > LpRoom
       THEN /\ lpAt' = [lpAt EXCEPT ![t] = "idle"] /\ lpLocks' = [lpLocks EXCEPT !.frame = {}] /\ UNCHANGED lpPacket
       ELSE /\ lpPacket' = [lpPacket EXCEPT ![t] = IpPacket(lpId, lpFrame)]
            /\ lpAt' = [lpAt EXCEPT ![t] = "packet"] /\ UNCHANGED lpLocks
    /\ lpId' = (lpId + 1) % 65536
    /\ UNCHANGED <<lpMsg, lpText, lpFrame, lpSent, lpCount>>

\* The frame is built over the datagram and sent; the buffer is let go.
SendFrame(t) ==
    /\ lpAt[t] = "packet"
    /\ lpAt' = [lpAt EXCEPT ![t] = "idle"] /\ lpLocks' = [lpLocks EXCEPT !.frame = {}]
    /\ IF 14 + Len(lpPacket[t]) > LpRoom THEN UNCHANGED <<lpFrame, lpSent>>
       ELSE /\ lpFrame' = EthFrame(lpPacket[t])
            /\ lpSent' = lpSent \cup {[msg |-> lpMsg[t], frame |-> EthFrame(lpPacket[t])]}
    /\ lpPacket' = [lpPacket EXCEPT ![t] = <<>>]
    /\ UNCHANGED <<lpMsg, lpText, lpId, lpCount>>

LpNext ==
    \E t \in LpThreads : (\E msg \in LpMessages : WriteMessage(t, msg)) \/ BuildDatagram(t) \/ BuildPacket(t) \/ SendFrame(t)

LpSpec == LpInit /\ [][LpNext]_lpVars

-----------------------------------------------------------------------------

\* The threads' progress, the locks and the counters stay in their types.
LpTypeInv ==
    /\ lpAt \in [LpThreads -> {"idle", "message", "datagram", "packet"}]
    /\ lpLocks.msg \subseteq LpThreads /\ lpLocks.frame \subseteq LpThreads
    /\ lpId \in 0 .. 65535 /\ lpCount \in 0 .. LpLogs

UdpOf(frame) == SubSeq(frame, 35, Len(frame))

\* A receiver accepts every datagram sent: the words of pseudo header, header and text add up to
\* ones, text of odd length included, and the field never says "no checksum" (udp_checksum).
DatagramVerifies ==
    \A s \in lpSent :
        LET u == UdpOf(s.frame) IN
        /\ Folded(WordSum(PseudoHeader(Len(u))) + WordSum(u)) = 65535
        /\ SubSeq(u, 7, 8) # <<0, 0>> /\ SubSeq(u, 5, 6) = Be(Len(u))

\* A frame carries the message it was sent for, as many whole characters as fit, though threads
\* share both buffers, and packets have identifications of their own (emit).
FrameIsOwn ==
    \A s \in lpSent :
        /\ SubSeq(UdpOf(s.frame), 9, Len(UdpOf(s.frame))) = Payload(s.msg)
        /\ \A r \in lpSent : SubSeq(r.frame, 19, 20) = SubSeq(s.frame, 19, 20) => r = s

(***************************************************************************)
(* IwlHardware.  The Intel Wi-Fi device below its connection logic:        *)
(* choosing a PCI function, reading its MAC address, allocating and        *)
(* mapping the two rings and their buffers with the way back out of every  *)
(* failure, uploading a firmware image section by section, and deciding    *)
(* whether the firmware has come alive.  Any allocation or mapping may     *)
(* fail; a device that cannot be read stays so until the attempt ends.     *)
(***************************************************************************)

CONSTANTS
    IhRing,      \* TX_QUEUE_SIZE and RX_QUEUE_SIZE
    IhFound,     \* PCI scans: sequences of [wifi, bar, subsys, size]
    IhImages,    \* firmware images: [head, tlvs], tlvs of [kind, target, data, fits]
    IhAttempts,  \* bound: firmware attempts
    IhTries,     \* bound: initialisations
    IhSram       \* device memory, in bytes

ASSUME IhAssumption == {IhRing, IhAttempts, IhTries, IhSram} \subseteq Nat

Slots == 1 .. IhRing
Region(k, i) == <<k, i>>
RegisterValues == {"unread", "zero", "ones", "good"}

VARIABLES
    ihPc,       \* "none", "txring", "rxring", "txbufs", "rxbufs", "ready", "upload", "wait"
    ihLive,     \* DMA regions allocated
    ihMapped,   \* of these, the ones mapped for the device
    ihDesc,     \* RX descriptors: the buffer each points to, <<>> when unset
    ihMac,      \* "good", "default"
    ihFw,       \* fw_state
    ihImage,    \* the image being uploaded and the TLVs still to come
    ihMemory,   \* the device's memory, 256 where never written
    ihCount,    \* sections uploaded of this image
    ihCpu,      \* the device's processor: "off", "running"
    ihInt,      \* CSR_INT: subset of {"alive", "error"}
    ihGp1,      \* bit 0 of CSR_UCODE_GP1
    ihAttempt,  \* attempts so far; history: the attempt whose firmware last reported alive
    ihTries     \* initialisations so far

ihVars == <<ihPc, ihLive, ihMapped, ihDesc, ihMac, ihFw, ihImage, ihMemory, ihCount, ihCpu, ihInt, ihGp1, ihAttempt, ihTries>>
ihHw == <<ihCpu, ihInt, ihGp1, ihMemory>>
ihMem == <<ihLive, ihMapped, ihDesc>>
ihLoad == <<ihFw, ihImage, ihCount, ihAttempt>>

IhInit ==
    /\ ihPc = "none" /\ ihLive = {} /\ ihMapped = {} /\ ihDesc = [i \in Slots |-> <<>>] /\ ihMac = "default"
    /\ ihFw = "NotLoaded" /\ ihImage = <<>> /\ ihMemory = [a \in 0 .. IhSram - 1 |-> 256] /\ ihCount = 0
    /\ ihCpu = "off" /\ ihInt = {} /\ ihGp1 = FALSE /\ ihAttempt = [n |-> 0, alive |-> 0] /\ ihTries = 0

-----------------------------------------------------------------------------

\* WifiRegistry::probe: the first supported function that is no phantom; one without a BAR0 ends the search.
Usable(d) == d.subsys /\ d.size
RECURSIVE Probed(_)
Probed(devs) ==
    CASE devs = <<>> -> FALSE
      [] ~Head(devs).wifi -> Probed(Tail(devs))
      [] ~Head(devs).bar -> FALSE
      [] Usable(Head(devs)) -> TRUE
      [] OTHER -> Probed(Tail(devs))

\* read_mac: the OTP shadow when the EEPROM says so, then the fixed place, then a made-up address.
GoodMac(v) == v = "good"
ReadMac(shadowed, shadow, fixed) ==
    IF shadowed = "unread" \/ (shadowed = "yes" /\ shadow = "nootp") THEN "default"
    ELSE IF shadowed = "yes" /\ GoodMac(shadow) THEN shadow
    ELSE IF GoodMac(fixed) THEN fixed ELSE "default"

\* probe_pci_only and init_after_mmio up to its first allocation; the device may go away on the way.
BeginInit(devs) ==
    /\ ihPc = "none" /\ ihTries < IhTries
    /\ ihTries' = ihTries + 1
    /\ \/ ~Probed(devs) /\ UNCHANGED <<ihPc, ihMac, ihCpu>>
       \/ Probed(devs) /\ UNCHANGED <<ihPc, ihMac, ihCpu>>
       \/ /\ Probed(devs)
          /\ ihCpu' = "off"
          /\ \E shadowed \in {"unread", "yes", "no"}, shadow \in RegisterValues \cup {"nootp"}, fixed \in RegisterValues :
                ihMac' = ReadMac(shadowed, shadow, fixed)
          /\ ihPc' = "txring"
    /\ UNCHANGED <<ihMem, ihLoad, ihInt, ihGp1, ihMemory>>

FailInit(keep) ==
    /\ ihPc' = "none" /\ ihLive' = keep /\ ihMapped' = ihMapped \cap keep
    /\ ihDesc' = [i \in Slots |-> <<>>]

Allocated(r) == ihLive' = ihLive \cup {r} /\ ihMapped' = ihMapped \cup {r}

AllocTxRing ==
    /\ ihPc = "txring"
    /\ \/ FailInit({})
       \/ Allocated(Region("txring", 0)) /\ ihPc' = "rxring" /\ UNCHANGED ihDesc
    /\ UNCHANGED <<ihMac, ihLoad, ihHw, ihTries>>

RxRingUndone == {}
AllocRxRing ==
    /\ ihPc = "rxring"
    /\ \/ FailInit(RxRingUndone)
       \/ Allocated(Region("rxring", 0)) /\ ihPc' = "txbufs" /\ UNCHANGED ihDesc
    /\ UNCHANGED <<ihMac, ihLoad, ihHw, ihTries>>

Count(k) == Cardinality({r \in ihLive : r[1] = k})

AllocTxBuf ==
    /\ ihPc = "txbufs"
    /\ IF Count("txbuf") = IhRing THEN ihPc' = "rxbufs" /\ UNCHANGED ihMem
       ELSE \/ FailInit({})
            \/ Allocated(Region("txbuf", Count("txbuf") + 1)) /\ UNCHANGED <<ihPc, ihDesc>>
    /\ UNCHANGED <<ihMac, ihLoad, ihHw, ihTries>>

NextSlot(n) == n + 1
\* The last buffer ends the loop: the rings are given to the device and the driver exists.
AllocRxBuf ==
    /\ ihPc = "rxbufs"
    /\ IF Count("rxbuf") = IhRing THEN ihPc' = "ready" /\ UNCHANGED ihMem
       ELSE \/ FailInit({})
            \/ LET b == Region("rxbuf", Count("rxbuf") + 1) IN
               Allocated(b) /\ ihDesc' = [ihDesc EXCEPT ![NextSlot(Count("rxbuf"))] = b] /\ UNCHANGED ihPc
    /\ UNCHANGED <<ihMac, ihLoad, ihHw, ihTries>>

\* Drop: every buffer, then the rings.
DropDevice ==
    /\ ihPc \in {"ready", "wait"}
    /\ FailInit({})
    /\ ihFw' = "NotLoaded" /\ ihImage' = <<>> /\ ihCount' = 0
    /\ UNCHANGED <<ihMac, ihAttempt, ihHw, ihTries>>

-----------------------------------------------------------------------------

IwGiveUp(state) == ihPc' = "ready" /\ ihFw' = state /\ ihImage' = <<>> /\ UNCHANGED <<ihCount, ihAttempt>>

\* upload_firmware_and_start_cpu: the processor is stopped before the header is looked at.
StartUpload(img) ==
    /\ ihPc = "ready" /\ ihAttempt.n < IhAttempts /\ ihFw # "Ready"
    /\ \/ img.head = "short" /\ UNCHANGED <<ihPc, ihLoad, ihCpu>>
       \/ img.head # "short" /\ IwGiveUp("Loading") /\ UNCHANGED ihCpu
       \/ img.head = "bad" /\ ihCpu' = "off" /\ IwGiveUp("Loading")
       \/ /\ img.head = "good"
          /\ ihCpu' = "off" /\ ihFw' = "Loading" /\ ihPc' = "upload" /\ ihCount' = 0
          /\ ihImage' = <<img, img.tlvs>> /\ ihAttempt' = [ihAttempt EXCEPT !.n = @ + 1]
    /\ UNCHANGED <<ihMem, ihMac, ihInt, ihGp1, ihMemory, ihTries>>

Padded(data) == data \o [i \in 1 .. ((4 - (Len(data) % 4)) % 4) |-> 0]
WordsOf(data) == Padded(data)
\* upload_section writes whole words from the target on, the last one padded.
SectionAt(mem, target, data) ==
    [a \in DOMAIN mem |-> IF a - target \in 0 .. Len(WordsOf(data)) - 1 THEN WordsOf(data)[a - target + 1] ELSE mem[a]]
IsSection(t) == t.kind = "code" /\ t.data # <<>>

MoreTlvs == ihImage[2] # <<>> /\ Head(ihImage[2]).fits
UploadTlv ==
    /\ ihPc = "upload" /\ MoreTlvs
    /\ LET t == Head(ihImage[2]) IN
       IF IsSection(t)
       THEN ihMemory' = SectionAt(ihMemory, t.target, t.data) /\ ihCount' = ihCount + 1
       ELSE UNCHANGED <<ihMemory, ihCount>>
    /\ ihImage' = [ihImage EXCEPT ![2] = Tail(@)]
    /\ UNCHANGED <<ihPc, ihMem, ihMac, ihFw, ihAttempt, ihCpu, ihInt, ihGp1, ihTries>>

IntCleared == {}
\* After the last TLV that fits: interrupts cleared, processor released, its flag set.
StartCpu ==
    /\ ihPc = "upload" /\ ~MoreTlvs
    /\ IF ihCount = 0 THEN IwGiveUp("Loading") /\ UNCHANGED <<ihCpu, ihInt, ihGp1>>
       ELSE /\ ihInt' = IntCleared
            /\ ihCpu' = "running" /\ ihGp1' = TRUE
            /\ \/ IwGiveUp("Loading")
               \/ IwGiveUp("Error")
               \/ ihPc' = "wait" /\ UNCHANGED ihLoad
    /\ UNCHANGED <<ihMem, ihMac, ihMemory, ihTries>>

\* The firmware reports itself, or an error, at any time while it runs.
FirmwareReports ==
    /\ ihCpu = "running"
    /\ \/ ihInt' = ihInt \cup {"alive"} /\ ihGp1' = FALSE /\ ihAttempt' = [ihAttempt EXCEPT !.alive = ihAttempt.n]
       \/ ihInt' = ihInt \cup {"error"} /\ UNCHANGED <<ihGp1, ihAttempt>>
    /\ UNCHANGED <<ihPc, ihMem, ihMac, ihFw, ihImage, ihCount, ihMemory, ihCpu, ihTries>>

\* check_alive_nonblocking: interrupt first, then the flag; a timeout or a vanished device ends the wait.
CheckAlive ==
    /\ ihPc = "wait"
    /\ \/ IwGiveUp("Error") /\ UNCHANGED ihInt
       \/ IwGiveUp("Loading") /\ UNCHANGED ihInt
       \/ /\ ihInt' = {}
          /\ CASE "alive" \in ihInt \/ (ihInt = {} /\ ~ihGp1) -> IwGiveUp("Alive")
               [] "error" \in ihInt /\ "alive" \notin ihInt -> IwGiveUp("Error")
               [] OTHER -> UNCHANGED <<ihPc, ihLoad>>
    /\ UNCHANGED <<ihMem, ihMac, ihMemory, ihCpu, ihGp1, ihTries>>

\* One round of wait_for_alive, the blocking form: a firmware error leaves the state as it is.
WaitForAlive ==
    /\ ihPc = "wait"
    /\ ihInt' = {}
    /\ CASE "alive" \in ihInt \/ (ihInt = {} /\ ~ihGp1) -> IwGiveUp("Alive")
         [] "error" \in ihInt /\ "alive" \notin ihInt -> IwGiveUp("Loading")
         [] OTHER -> UNCHANGED <<ihPc, ihLoad>>
    /\ UNCHANGED <<ihMem, ihMac, ihMemory, ihCpu, ihGp1, ihTries>>

\* send_init_commands, after which the driver counts as ready.
SendInitCommands ==
    /\ ihPc = "ready" /\ ihFw = "Alive"
    /\ ihFw' = "Ready"
    /\ UNCHANGED <<ihPc, ihMem, ihMac, ihImage, ihCount, ihAttempt, ihHw, ihTries>>

IhNext ==
    \/ \E devs \in IhFound : BeginInit(devs)
    \/ AllocTxRing \/ AllocRxRing \/ AllocTxBuf \/ AllocRxBuf \/ DropDevice
    \/ \E img \in IhImages : StartUpload(img)
    \/ UploadTlv \/ StartCpu \/ FirmwareReports \/ CheckAlive \/ WaitForAlive \/ SendInitCommands

IhSpec == IhInit /\ [][IhNext]_ihVars

-----------------------------------------------------------------------------

\* The driver's phase, firmware state and memory stay in their types.
IhTypeInv ==
    /\ ihPc \in {"none", "txring", "rxring", "txbufs", "rxbufs", "ready", "upload", "wait"}
    /\ ihFw \in {"NotLoaded", "Loading", "Alive", "Ready", "Error"}
    /\ ihMapped \subseteq ihLive /\ ihMemory \in [0 .. IhSram - 1 -> 0 .. 256] /\ ihInt \subseteq {"alive", "error"}

HasDevice == ihPc \in {"ready", "upload", "wait"}

\* Every way out of an initialisation that fails, and the end of the driver, gives back all DMA
\* memory it took (init_after_mmio, Drop).
NoRegionLeaked == ihPc = "none" => ihLive = {}

\* Once the device is given its receive ring, every descriptor points to its own mapped buffer
\* (the RX loop of init_after_mmio).
DescriptorsBacked ==
    HasDevice => \A i \in Slots : ihDesc[i] \in ihMapped /\ \A j \in Slots : ihDesc[i] = ihDesc[j] => i = j

\* A driver never runs with an address of zeros or ones: whatever registers cannot be read or hold
\* no address, it falls back to the made-up one (read_mac).
MacUsable == HasDevice => ihMac \in {"good", "default"}

\* When the processor is released, the device's memory holds every byte of every section of the
\* image that was whole, the odd bytes of a last word included (upload_section).
ImageInMemory ==
    ihPc = "wait" =>
        LET tlvs == ihImage[1].tlvs
            whole == {i \in 1 .. Len(tlvs) : IsSection(tlvs[i]) /\ \A j \in 1 .. i : tlvs[j].fits}
        IN  \A i \in whole : \A k \in 1 .. Len(tlvs[i].data) : ihMemory[tlvs[i].target + k - 1] = tlvs[i].data[k]

\* The firmware counts as alive only after the image of this attempt has said so: neither an
\* interrupt left over from an earlier attempt nor a flag not yet set is taken for it
\* (upload_firmware_and_start_cpu, check_alive_nonblocking_inner).
AliveIsReal == ihFw \in {"Alive", "Ready"} => ihAttempt.alive = ihAttempt.n

--------------------------------------------------------------------------------
\* What is read out of received frames is what the sender put there, and what the driver allocated
\* for the device is accounted for.
FramesSound ==
    /\ DlTypeInv /\ AddressGranted /\ GatewayOfGranter
    /\ BsTypeInv /\ BeaconRead /\ PrivateNeverOpen /\ EveryStationListed
    /\ LpTypeInv /\ DatagramVerifies /\ FrameIsOwn
    /\ IhTypeInv /\ NoRegionLeaked /\ DescriptorsBacked /\ MacUsable /\ ImageInMemory /\ AliveIsReal
================================================================================
