----------------------------- MODULE WifiLinkProof -----------------------------
(***************************************************************************)
(* Lemmas about the methods of the Wi-Fi device (WifiLink): each leaves     *)
(* behind a device that satisfies LinkOk when it finds one, for every ring  *)
(* size and every set of access points.  LinkOk says what the transmit ring *)
(* holds, in which order the keys of the attempts reach the NIC, and what a *)
(* protected association has told the rest of the system.                   *)
(***************************************************************************)
EXTENDS WifiLink, TLAPS

-----------------------------------------------------------------------------
(***************************************************************************)
(* The types of the frames and of the device.                              *)
(***************************************************************************)
Management ==
    [k : {"Auth"}, ap : APs]
      \cup [k : {"Assoc"}, ap : APs, s : Nat]
      \cup [k : {"M2"}, ap : APs \cup {NoAP}, s : Nat, nonce : Nat]
      \cup [k : {"M4"}, ap : APs \cup {NoAP}, s : Nat]

DataFrames ==
    [k : {"Discover", "Request"}, x : Nat, s : Nat, required : BOOLEAN,
     protected : BOOLEAN]

Commands == [k : {"TxAnt", "Rxon", "Scan"}] \cup [k : {"Key"}, s : Nat]

Frames == Management \cup DataFrames \cup Commands

Devices ==
    [iwl : {"Init", "Scanning", "AuthSent", "AssocSent", "Connected", "Disconnected"},
     status : {"Disconnected", "Scanning", "Authenticating", "Handshake",
               "Connected", "Error"},
     bssid : APs \cup {NoAP}, sess : Nat, required : BOOLEAN, keysIn : BOOLEAN,
     keyEnd : Int, msg4 : BOOLEAN,
     wpa : {"Initial", "WaitMsg1", "WaitMsg3", "WaitMsg4", "Done", "Error"},
     nonce : Nat, dhcp : Nat, dhcpSess : Nat, clients : Nat, ip : Nat,
     found : SUBSET APs, scanning : BOOLEAN, channel : Nat,
     txq : Seq(Frames), head : Nat, tail : Nat,
     ring : [0 .. Slots - 1 -> Frames \cup {Consumed}], log : Seq(Frames)]

\* The ring holds the unconsumed descriptors, and at most Slots of them.
RingInv(d) ==
    /\ d.tail <= nicPos /\ nicPos <= d.head /\ d.head <= d.tail + Slots
    /\ Len(d.log) = d.head - nicPos
    /\ \A i \in 1 .. Len(d.log) : d.ring[(nicPos + i - 1) % Slots] = d.log[i]

\* A frame that needs keys is protected, and the NIC has the keys it needs.
Settled(f) ==
    (f.k = "M4" \/ (IsData(f) /\ f.required)) =>
       /\ IsData(f) => f.protected
       /\ nicKeys.s > f.s \/ nicKeys = [s |-> f.s, n |-> 2]

FramesInv(d) ==
    /\ \A i \in 1 .. Len(d.txq) : d.txq[i].k # "Key" /\ Settled(d.txq[i])
    /\ \A i \in 1 .. Len(d.log) : Settled(d.log[i])

\* The key commands on their way to the NIC belong to attempts in order, none
\* later than the current one and none earlier than the one the NIC knows.
KeysInv(d) ==
    /\ nicKeys.s <= d.sess
    /\ \A i \in 1 .. Len(d.log) :
         d.log[i].k = "Key" => nicKeys.s <= d.log[i].s /\ d.log[i].s <= d.sess
    /\ \A i, j \in 1 .. Len(d.log) :
         (i < j /\ d.log[i].k = "Key" /\ d.log[j].k = "Key") => d.log[i].s <= d.log[j].s

\* Before message 3 the current attempt has no keys anywhere.
NoKeysYet(d) ==
    d.wpa \in {"WaitMsg1", "WaitMsg3"} =>
       /\ nicKeys.s < d.sess
       /\ \A i \in 1 .. Len(d.log) : d.log[i].k = "Key" => d.log[i].s < d.sess

\* keyEnd is where the two keys of the current attempt end, and no key follows.
KeysOnTheirWay(d) ==
    d.keyEnd # NoEnd =>
       /\ d.wpa = "WaitMsg4"
       /\ d.keyEnd <= d.head
       /\ nicPos < d.keyEnd - 1 => nicKeys.s < d.sess
       /\ nicPos = d.keyEnd - 1 => nicKeys = [s |-> d.sess, n |-> 1]
       /\ nicPos >= d.keyEnd => nicKeys = [s |-> d.sess, n |-> 2]
       /\ \A i \in 1 .. Len(d.log) :
            /\ nicPos + i \in {d.keyEnd - 1, d.keyEnd} => d.log[i] = Key(d.sess)
            /\ d.log[i].k = "Key" =>
                 /\ nicPos + i <= d.keyEnd
                 /\ nicPos + i < d.keyEnd - 1 => d.log[i].s < d.sess

KeysInstalled(d) ==
    d.keysIn => /\ nicKeys = [s |-> d.sess, n |-> 2]
                /\ \A i \in 1 .. Len(d.log) : d.log[i].k # "Key"

\* What the association tells the rest of the system.
Leased(d) ==
    /\ d.required /\ d.ip # 0 => d.ip = d.sess
    /\ d.ip <= d.sess /\ d.dhcpSess <= d.sess
    /\ d.channel \in 1 .. LastChannel + 1
    /\ d.scanning => d.channel <= LastChannel

Reported(d) ==
    /\ d.keysIn => d.wpa = "Done" /\ d.dhcpSess = d.sess
    /\ d.status = "Connected" /\ d.required => d.keysIn
    /\ d.msg4 <=> d.keyEnd # NoEnd
    /\ d.keyEnd # NoEnd => d.keyEnd >= 2

Core(d) == d \in Devices /\ RingInv(d) /\ FramesInv(d) /\ KeysInv(d) /\ Leased(d)

Handshake(d) == NoKeysYet(d) /\ KeysOnTheirWay(d) /\ KeysInstalled(d) /\ Reported(d)

LinkOk(d) == Core(d) /\ Handshake(d)

\* e is d with frames moved to the ring or queued.
OnlyQueued(d, e) ==
    /\ e.iwl = d.iwl /\ e.status = d.status /\ e.bssid = d.bssid /\ e.sess = d.sess
    /\ e.required = d.required /\ e.keysIn = d.keysIn /\ e.keyEnd = d.keyEnd
    /\ e.msg4 = d.msg4 /\ e.wpa = d.wpa /\ e.nonce = d.nonce /\ e.dhcp = d.dhcp
    /\ e.dhcpSess = d.dhcpSess /\ e.clients = d.clients /\ e.ip = d.ip
    /\ e.found = d.found /\ e.scanning = d.scanning /\ e.channel = d.channel
    /\ e.tail = d.tail

\* The log of e continues that of d, without a new key.
NoNewKeys(d, e) ==
    /\ d.head <= e.head
    /\ Len(d.log) <= Len(e.log)
    /\ \A i \in 1 .. Len(e.log) :
         /\ i <= Len(d.log) => e.log[i] = d.log[i]
         /\ i > Len(d.log) => e.log[i].k # "Key"

\* e has the ring and the queue of d.
SameRing(d, e) ==
    /\ e.txq = d.txq /\ e.head = d.head /\ e.tail = d.tail /\ e.ring = d.ring
    /\ e.log = d.log

\* The NIC's side.
Nic ==
    /\ nicPos \in Nat
    /\ nicKeys \in [s : Nat, n : 0 .. 2]

-----------------------------------------------------------------------------
(***************************************************************************)
(* Remainders, for a ring of any size.                                     *)
(***************************************************************************)
LEMMA ModIs ==
    ASSUME NEW n \in Nat \ {0}, NEW a, NEW r \in 0 .. n - 1, \E q \in Int : a = n * q + r
    PROVE  a % n = r
  OBVIOUS

LEMMA ModDiv ==
    ASSUME NEW n \in Nat \ {0}, NEW a \in Int
    PROVE  \E q \in Int, r \in 0 .. n - 1 : a = n * q + r /\ a % n = r
  <1>1. a % n \in 0 .. n - 1
    OBVIOUS
  <1>2. a \div n \in Int /\ a = n * (a \div n) + (a % n)
    OBVIOUS
  <1> QED
    BY <1>1, <1>2

\* Indices less than a ring apart are distinct.
LEMMA ModDistinct ==
    ASSUME NEW n \in Nat \ {0}, NEW a \in Int, NEW b \in Int, a < b, b < a + n
    PROVE  a % n # b % n
  <1>1. PICK q \in Int, r \in 0 .. n - 1 : a = n * q + r /\ a % n = r
    BY Zenon, ModDiv
  <1> DEFINE s == r + (b - a)
  <1>2. s \in Int /\ s > r /\ s < r + n /\ b = n * q + s
    BY <1>1
  <1> HIDE DEF s
  <1>3. CASE s < n
    <2>1. s \in 0 .. n - 1
      BY <1>2, <1>3
    <2>2. b % n = s
      BY <1>2, <2>1, ModIs
    <2> QED
      BY <1>1, <1>2, <2>2
  <1>4. CASE s >= n
    <2>1. s - n \in 0 .. n - 1
      BY <1>2, <1>4
    <2>2. b = n * (q + 1) + (s - n) /\ q + 1 \in Int
      BY <1>2
    <2>3. \E k \in Int : b = n * k + (s - n)
      BY Zenon, <2>2
    <2>4. b % n = s - n
      BY Zenon, <2>1, <2>3, ModIs
    <2> QED
      BY <1>1, <1>2, <2>4
  <1> QED
    BY <1>2, <1>3, <1>4

\* update_tx_tail: the distance of two indices is the distance of the counts,
\* except that a whole ring looks like nothing.
LEMMA ModAdvance ==
    ASSUME NEW n \in Nat \ {0}, NEW a \in Int, NEW b \in Int, a <= b, b <= a + n
    PROVE  (((b % n) % n) + n - (a % n)) % n = IF b = a + n THEN 0 ELSE b - a
  <1>1. PICK p \in Int, r \in 0 .. n - 1 : a = n * p + r /\ a % n = r
    BY ModDiv
  <1>2. PICK q \in Int, s \in 0 .. n - 1 : b = n * q + s /\ b % n = s
    BY Zenon, ModDiv
  <1>3. s % n = s
    OBVIOUS
  <1>4. s + n - r = n * (p - q + 1) + (b - a) /\ p - q + 1 \in Int
    BY <1>1, <1>2
  <1>5. CASE b = a + n
    <2>1. s + n - r = n * (p - q + 2) + 0 /\ p - q + 2 \in Int
      BY <1>4, <1>5
    <2>2. (s + n - r) % n = 0
      BY <2>1, ModIs
    <2> QED
      BY <1>1, <1>2, <1>3, <1>5, <2>2
  <1>6. CASE b # a + n
    <2>1. b - a \in 0 .. n - 1
      BY <1>6
    <2>2. (s + n - r) % n = b - a
      BY <1>4, <2>1, ModIs
    <2> QED
      BY <1>1, <1>2, <1>3, <1>6, <2>2
  <1> QED
    BY <1>5, <1>6

\* The place that an index gets, counted from head: that of a new descriptor,
\* and that of one which is still in the ring.
LEMMA ModPlace ==
    ASSUME NEW n \in Nat \ {0}, NEW h \in Int, NEW p \in Int
    PROVE  /\ h <= p /\ p < h + n => ((p % n) - h) % n = p - h
           /\ p < h /\ h <= p + n => ((p % n) - h) % n = n - (h - p)
  <1>1. PICK q \in Int, r \in 0 .. n - 1 : p = n * q + r /\ p % n = r
    BY ModDiv
  <1>2. ASSUME h <= p, p < h + n PROVE ((p % n) - h) % n = p - h
    <2>1. p - h \in 0 .. n - 1 /\ 0 - q \in Int
      BY <1>2
    <2>2. r - h = n * (0 - q) + (p - h)
      BY <1>1
    <2>3. \E k \in Int : r - h = n * k + (p - h)
      BY <2>1, <2>2
    <2>4. (r - h) % n = p - h
      BY <2>1, <2>3, ModIs
    <2> QED
      BY <1>1, <2>4
  <1>3. ASSUME p < h, h <= p + n PROVE ((p % n) - h) % n = n - (h - p)
    <2>1. n - (h - p) \in 0 .. n - 1 /\ 0 - q - 1 \in Int
      BY <1>3
    <2>2. r - h = n * (0 - q - 1) + (n - (h - p))
      BY <1>1
    <2>3. \E k \in Int : r - h = n * k + (n - (h - p))
      BY <2>1, <2>2
    <2>4. (r - h) % n = n - (h - p)
      BY Zenon, <2>1, <2>3, ModIs
    <2> QED
      BY SMTT(30), <1>1, <2>4
  <1> QED
    BY <1>2, <1>3

-----------------------------------------------------------------------------
(***************************************************************************)
(* Frames and devices.                                                     *)
(***************************************************************************)
LEMMA FrameFacts ==
    ASSUME NEW f \in Frames
    PROVE  /\ f.k \in {"Key", "M4", "M2", "Assoc", "Discover", "Request"} => f.s \in Nat
           /\ f.k \in {"Auth", "Assoc"} => f.ap \in APs
           /\ f.k = "M2" => f.ap \in APs \cup {NoAP} /\ f.nonce \in Nat
           /\ f.k \in {"Discover", "Request"} => f.x \in Nat
  BY DEF Frames, Management, DataFrames, Commands

LEMMA FrameTypes ==
    /\ \A s \in Nat : Key(s) \in Frames
    /\ \A ap \in APs : Auth(ap) \in Frames
    /\ \A ap \in APs, s \in Nat : Assoc(ap, s) \in Frames
    /\ \A ap \in APs \cup {NoAP}, s \in Nat, n \in Nat : M2(ap, s, n) \in Frames
    /\ \A ap \in APs \cup {NoAP}, s \in Nat : M4(ap, s) \in Frames
    /\ \A k \in {"TxAnt", "Rxon", "Scan"} : Command(k) \in Frames
  BY DEF Frames, Management, Commands, Key, Auth, Assoc, M2, M4, Command

LEMMA DataTypes ==
    ASSUME NEW d \in Devices, NEW k \in {"Discover", "Request"}, NEW x \in Nat
    PROVE  /\ Data(k, x, d) \in Frames
           /\ Data(k, x, d).s = d.sess /\ Data(k, x, d).k = k
           /\ Data(k, x, d).required = d.required
           /\ Data(k, x, d).protected = d.keysIn
  <1>1. d.sess \in Nat /\ d.required \in BOOLEAN /\ d.keysIn \in BOOLEAN
    BY DEF Devices
  <1>2. Data(k, x, d) \in DataFrames
    BY <1>1 DEF DataFrames, Data
  <1> QED
    BY <1>2 DEF Frames, Data

LEMMA DeviceTypes ==
    ASSUME NEW d \in Devices
    PROVE  /\ d.sess \in Nat /\ d.keyEnd \in Int /\ d.head \in Nat /\ d.tail \in Nat
           /\ d.txq \in Seq(Frames) /\ d.log \in Seq(Frames)
           /\ d.ring \in [0 .. Slots - 1 -> Frames \cup {Consumed}]
           /\ d.bssid \in APs \cup {NoAP} /\ d.found \subseteq APs
           /\ d.nonce \in Nat /\ d.dhcp \in Nat /\ d.dhcpSess \in Nat /\ d.clients \in Nat
           /\ d.ip \in Nat /\ d.channel \in Nat
  BY DEF Devices

LEMMA FlagTypes ==
    ASSUME NEW d \in Devices
    PROVE  /\ d.required \in BOOLEAN /\ d.keysIn \in BOOLEAN /\ d.msg4 \in BOOLEAN
           /\ d.scanning \in BOOLEAN
  BY DEF Devices

LEMMA StateTypes ==
    ASSUME NEW d \in Devices
    PROVE  /\ d.iwl \in {"Init", "Scanning", "AuthSent", "AssocSent", "Connected", "Disconnected"}
           /\ d.status \in {"Disconnected", "Scanning", "Authenticating", "Handshake",
                             "Connected", "Error"}
           /\ d.wpa \in {"Initial", "WaitMsg1", "WaitMsg3", "WaitMsg4", "Done", "Error"}
  BY DEF Devices

LEMMA PutFramesFields ==
    ASSUME NEW d \in Devices, NEW n \in 0 .. Len(d.txq)
    PROVE  LET e == PutFrames(d, n)
           IN  /\ e \in Devices /\ OnlyQueued(d, e)
               /\ e.head = d.head + n
               /\ e.log = d.log \o SubSeq(d.txq, 1, n)
               /\ e.txq = SubSeq(d.txq, n + 1, Len(d.txq))
               /\ \A i \in 0 .. Slots - 1 :
                    e.ring[i] = IF ((i - d.head) % Slots) + 1 <= n
                                THEN d.txq[((i - d.head) % Slots) + 1] ELSE d.ring[i]
  <1> DEFINE r == [i \in 0 .. Slots - 1 |->
                     IF ((i - d.head) % Slots) + 1 <= n
                     THEN d.txq[((i - d.head) % Slots) + 1] ELSE d.ring[i]]
             l == d.log \o SubSeq(d.txq, 1, n)
             q == SubSeq(d.txq, n + 1, Len(d.txq))
             e == PutFrames(d, n)
  <1>1. e = [d EXCEPT !.ring = r, !.head = d.head + n, !.log = l, !.txq = q]
    BY DEF PutFrames
  <1>2. d.txq \in Seq(Frames) /\ d.log \in Seq(Frames) /\ d.head \in Nat
        /\ d.ring \in [0 .. Slots - 1 -> Frames \cup {Consumed}]
    BY DeviceTypes
  <1>3. l \in Seq(Frames) /\ q \in Seq(Frames)
    BY <1>2
  <1>4. r \in [0 .. Slots - 1 -> Frames \cup {Consumed}]
    <2>1. ASSUME NEW i \in 0 .. Slots - 1, ((i - d.head) % Slots) + 1 <= n
          PROVE  d.txq[((i - d.head) % Slots) + 1] \in Frames
      <3>1. (i - d.head) % Slots \in 0 .. Slots - 1
        BY SMTT(30), <1>2, WifiLinkAssumption
      <3>2. Len(d.txq) \in Nat /\ n <= Len(d.txq)
        BY <1>2
      <3>3. ASSUME NEW m \in 0 .. Slots - 1, m + 1 <= n
            PROVE  m + 1 \in 1 .. Len(d.txq)
        BY <3>2, <3>3, WifiLinkAssumption
      <3>4. ((i - d.head) % Slots) + 1 \in 1 .. Len(d.txq)
        BY Zenon, <2>1, <3>1, <3>3
      <3> QED
        BY <3>4, <1>2
    <2> QED
      BY Zenon, <2>1, <1>2
  <1>5. d.head + n \in Nat
    BY <1>2
  <1> HIDE DEF r, l, q, e
  <1>6. e \in Devices
    BY Zenon, <1>1, <1>3, <1>4, <1>5 DEF Devices
  <1>7. OnlyQueued(d, e)
    BY <1>1 DEF Devices, OnlyQueued
  <1>8. e.head = d.head + n /\ e.log = l /\ e.txq = q /\ e.ring = r
    BY <1>1 DEF Devices
  <1> QED
    BY <1>6, <1>7, <1>8 DEF r, l, q, e

-----------------------------------------------------------------------------
(***************************************************************************)
(* The transmit ring.                                                      *)
(***************************************************************************)
LEMMA SlotsType ==
    Slots \in Nat \ {0} /\ Slots > 1
  BY WifiLinkAssumption

LEMMA JoinPrefix ==
    ASSUME NEW S, NEW a \in Seq(S), NEW b \in Seq(S), NEW n \in 0 .. Len(b)
    PROVE  LET c == a \o SubSeq(b, 1, n)
           IN  /\ Len(c) = Len(a) + n
               /\ \A i \in 1 .. Len(c) :
                    c[i] = IF i <= Len(a) THEN a[i] ELSE b[i - Len(a)]
  <1> DEFINE m == SubSeq(b, 1, n)
             c == a \o m
  <1>1. m \in Seq(S) /\ Len(m) = n /\ \A i \in 1 .. n : m[i] = b[i]
    OBVIOUS
  <1> HIDE DEF m
  <1>2. Len(c) = Len(a) + n
    BY <1>1
  <1>3. ASSUME NEW i \in 1 .. Len(c)
        PROVE  c[i] = IF i <= Len(a) THEN a[i] ELSE b[i - Len(a)]
    <2>1. c[i] = IF i <= Len(a) THEN a[i] ELSE m[i - Len(a)]
      BY <1>1, <1>2, <1>3
    <2>2. i > Len(a) => i - Len(a) \in 1 .. n
      BY <1>2, <1>3
    <2> QED
      BY <1>1, <2>1, <2>2
  <1> QED
    BY <1>2, <1>3 DEF m

\* The entries of the log after frames have moved to descriptors.
LEMMA PutFramesLog ==
    ASSUME NEW d \in Devices, NEW n \in 0 .. Len(d.txq)
    PROVE  LET e == PutFrames(d, n)
           IN  /\ Len(e.log) = Len(d.log) + n
               /\ \A i \in 1 .. Len(e.log) :
                    e.log[i] = IF i <= Len(d.log) THEN d.log[i] ELSE d.txq[i - Len(d.log)]
               /\ Len(e.txq) = Len(d.txq) - n
               /\ \A i \in 1 .. Len(e.txq) : e.txq[i] = d.txq[i + n]
  <1> DEFINE e == PutFrames(d, n)
  <1>1. e.log = d.log \o SubSeq(d.txq, 1, n) /\ e.txq = SubSeq(d.txq, n + 1, Len(d.txq))
    BY Zenon, PutFramesFields
  <1>2. d.txq \in Seq(Frames) /\ d.log \in Seq(Frames)
    BY DeviceTypes
  <1>3. Len(e.txq) = Len(d.txq) - n /\ \A i \in 1 .. Len(e.txq) : e.txq[i] = d.txq[i + n]
    BY <1>1, <1>2
  <1> HIDE DEF e
  <1>4. /\ Len(e.log) = Len(d.log) + n
        /\ \A i \in 1 .. Len(e.log) :
             e.log[i] = IF i <= Len(d.log) THEN d.log[i] ELSE d.txq[i - Len(d.log)]
    <2>1. LET c == d.log \o SubSeq(d.txq, 1, n)
          IN  /\ Len(c) = Len(d.log) + n
              /\ \A i \in 1 .. Len(c) :
                   c[i] = IF i <= Len(d.log) THEN d.log[i] ELSE d.txq[i - Len(d.log)]
      BY Zenon, <1>2, JoinPrefix
    <2> QED
      BY Zenon, <1>1, <2>1
  <1> QED
    BY <1>3, <1>4 DEF e

\* process_tx_queue only writes descriptors that the NIC is past.
LEMMA PutFramesRing ==
    ASSUME Nic, NEW d \in Devices, RingInv(d), NEW n \in 0 .. Len(d.txq),
           n <= Slots - (d.head - d.tail)
    PROVE  RingInv(PutFrames(d, n))
  <1> DEFINE e == PutFrames(d, n)
             h == d.head
             k == Len(d.log)
  <1>1. /\ h \in Nat /\ d.tail \in Nat /\ nicPos \in Nat /\ k \in Nat /\ n \in Nat
        /\ Slots \in Nat \ {0}
    BY DeviceTypes, SlotsType DEF Nic
  <1>2. e.head = h + n /\ e.tail = d.tail
    BY Zenon, PutFramesFields DEF OnlyQueued
  <1>3. d.tail <= nicPos /\ nicPos <= h /\ k = h - nicPos /\ h <= d.tail + Slots
        /\ n <= Slots - (h - d.tail) /\ h \in Int
    BY <1>1 DEF RingInv
  <1>4. Len(e.log) = k + n
    BY PutFramesLog
  <1> HIDE DEF h, k
  <1>5. ASSUME NEW i \in 1 .. Len(e.log)
        PROVE  e.ring[(nicPos + i - 1) % Slots] = e.log[i]
    <2> DEFINE p == nicPos + i - 1
               c == ((p % Slots) - h) % Slots
    <2>1. /\ p \in Int /\ p = nicPos + i - 1 /\ p % Slots \in 0 .. Slots - 1
          /\ i \in Nat /\ i >= 1 /\ i <= k + n
      BY <1>1, <1>4, <1>5
    <2>2. e.ring[p % Slots] = IF c + 1 <= n THEN d.txq[c + 1] ELSE d.ring[p % Slots]
      BY Zenon, <2>1, PutFramesFields DEF h
    <2>3. e.log[i] = IF i <= k THEN d.log[i] ELSE d.txq[i - k]
      BY Zenon, PutFramesLog DEF k
    <2> HIDE DEF e, c, p
    <2>4. ASSUME i <= k PROVE e.ring[p % Slots] = e.log[i]
      <3>0. p < h /\ h <= p + Slots
        BY <2>1, <2>4, <1>1, <1>3
      <3>1. c = Slots - (h - p)
        BY Zenon, <3>0, <2>1, <1>1, <1>3, ModPlace DEF c
      <3>2. ~(c + 1 <= n)
        BY <3>1, <1>1, <1>3, <2>1, <2>4
      <3>3. d.ring[p % Slots] = d.log[i]
        BY <2>1, <2>4 DEF RingInv, k, p
      <3> QED
        BY <2>2, <2>3, <2>4, <3>2, <3>3
    <2>5. ASSUME i > k PROVE e.ring[p % Slots] = e.log[i]
      <3>0. h <= p /\ p < h + Slots
        BY <2>1, <2>5, <1>1, <1>3
      <3>1. c = p - h
        BY Zenon, <3>0, <2>1, <1>1, <1>3, ModPlace DEF c
      <3>2. c + 1 = i - k /\ c + 1 <= n
        BY <3>1, <1>1, <1>3, <2>1, <2>5
      <3> QED
        BY <2>1, <2>2, <2>3, <2>5, <3>2, <1>1
    <2>6. e.ring[p % Slots] = e.log[i]
      BY <2>1, <2>4, <2>5, <1>1
    <2> QED
      BY <2>6 DEF p
  <1> HIDE DEF e
  <1>6. d.tail <= nicPos /\ nicPos <= h + n /\ h + n <= d.tail + Slots /\ k + n = h + n - nicPos
    BY <1>1, <1>3
  <1>7. /\ e.tail <= nicPos /\ nicPos <= e.head /\ e.head <= e.tail + Slots
        /\ Len(e.log) = e.head - nicPos
    BY <1>1, <1>2, <1>4, <1>6
  <1>8. RingInv(e)
    BY <1>5, <1>7 DEF RingInv
  <1> QED
    BY <1>8 DEF e

LEMMA PutFramesFrames ==
    ASSUME NEW d \in Devices, FramesInv(d), NEW n \in 0 .. Len(d.txq)
    PROVE  FramesInv(PutFrames(d, n)) /\ NoNewKeys(d, PutFrames(d, n))
  <1> DEFINE e == PutFrames(d, n)
  <1>1. /\ d.head \in Nat /\ Len(d.log) \in Nat /\ Len(d.txq) \in Nat /\ n \in Nat
        /\ n <= Len(d.txq)
    BY DeviceTypes
  <1>2. e.head = d.head + n
    BY PutFramesFields
  <1>3. /\ Len(e.log) = Len(d.log) + n
        /\ \A i \in 1 .. Len(e.log) :
             e.log[i] = IF i <= Len(d.log) THEN d.log[i] ELSE d.txq[i - Len(d.log)]
        /\ Len(e.txq) = Len(d.txq) - n
        /\ \A i \in 1 .. Len(e.txq) : e.txq[i] = d.txq[i + n]
    BY PutFramesLog
  <1>4. /\ \A i \in 1 .. Len(d.txq) : d.txq[i].k # "Key" /\ Settled(d.txq[i])
        /\ \A i \in 1 .. Len(d.log) : Settled(d.log[i])
    BY DEF FramesInv
  <1> HIDE DEF e
  <1>5. ASSUME NEW i \in 1 .. Len(e.txq) PROVE e.txq[i].k # "Key" /\ Settled(e.txq[i])
    <2>1. i + n \in 1 .. Len(d.txq)
      BY <1>1, <1>3
    <2> QED
      BY Zenon, <1>3, <1>4, <2>1
  <1>6. ASSUME NEW i \in 1 .. Len(e.log) PROVE Settled(e.log[i])
    <2>1. i <= Len(d.log) => i \in 1 .. Len(d.log)
      BY <1>1, <1>3
    <2>2. ~(i <= Len(d.log)) => i - Len(d.log) \in 1 .. Len(d.txq)
      BY <1>1, <1>3
    <2> QED
      BY Zenon, <1>3, <1>4, <2>1, <2>2
  <1>7. ASSUME NEW i \in 1 .. Len(e.log), i > Len(d.log) PROVE e.log[i].k # "Key"
    <2>1. i - Len(d.log) \in 1 .. Len(d.txq) /\ ~(i <= Len(d.log))
      BY <1>1, <1>3, <1>7
    <2> QED
      BY Zenon, <1>3, <1>4, <2>1
  <1>8. FramesInv(e)
    BY <1>5, <1>6 DEF FramesInv
  <1>9. NoNewKeys(d, e)
    BY <1>1, <1>2, <1>3, <1>7 DEF NoNewKeys
  <1> QED
    BY <1>8, <1>9 DEF e

\* What process_tx_queue does.
LEMMA ProcessTxQueueKeeps ==
    ASSUME Nic, NEW d \in Devices, RingInv(d), FramesInv(d)
    PROVE  LET e == ProcessTxQueue(d)
           IN  e \in Devices /\ RingInv(e) /\ FramesInv(e) /\ OnlyQueued(d, e) /\ NoNewKeys(d, e)
  <1> DEFINE room == Slots - (d.head - d.tail)
             n == Ready(d, room)
  <1>0. d.head \in Nat /\ d.tail \in Nat /\ Len(d.txq) \in Nat
    BY DeviceTypes
  <1>1. room \in Nat
    BY <1>0, SlotsType DEF RingInv
  <1>2. n \in 0 .. Len(d.txq) /\ n <= room
    BY <1>0, <1>1 DEF Ready
  <1>3. ProcessTxQueue(d) = PutFrames(d, n)
    BY DEF ProcessTxQueue, Used
  <1> HIDE DEF n
  <1> QED
    BY <1>2, <1>3, PutFramesFields, PutFramesRing, PutFramesFrames

\* send_raw_80211_frame, for a frame that may leave.
LEMMA SendRawKeeps ==
    ASSUME Nic, NEW d \in Devices, RingInv(d), FramesInv(d), NEW f \in Frames, f.k # "Key",
           MaySend(d, f) => Settled(f)
    PROVE  LET e == SendRaw(d, f)
           IN  e \in Devices /\ RingInv(e) /\ FramesInv(e) /\ OnlyQueued(d, e) /\ NoNewKeys(d, e)
  <1> DEFINE q == Append(d.txq, f)
             c == [d EXCEPT !.txq = q]
             e == ProcessTxQueue(c)
  <1>1. d.txq \in Seq(Frames) /\ d.log \in Seq(Frames) /\ d.head \in Nat
    BY DeviceTypes
  <1>2. q \in Seq(Frames) /\ Len(q) = Len(d.txq) + 1
        /\ \A i \in 1 .. Len(q) : q[i] = IF i <= Len(d.txq) THEN d.txq[i] ELSE f
    BY <1>1
  <1>3. NoNewKeys(d, d)
    BY <1>1 DEF NoNewKeys
  <1>4. CASE ~MaySend(d, f)
    BY <1>3, <1>4 DEF SendRaw, OnlyQueued
  <1>5. CASE MaySend(d, f)
    <2>1. SendRaw(d, f) = e
      BY <1>5 DEF SendRaw
    <2> HIDE DEF q
    <2>2. c \in Devices
      BY Zenon, <1>2 DEF Devices
    <2>3. /\ OnlyQueued(d, c) /\ c.txq = q /\ c.log = d.log /\ c.head = d.head
          /\ c.ring = d.ring
      BY DEF OnlyQueued, Devices
    <2> HIDE DEF c, e
    <2>4. RingInv(c)
      BY <2>3 DEF RingInv, OnlyQueued
    <2>5. ASSUME NEW i \in 1 .. Len(q) PROVE q[i].k # "Key" /\ Settled(q[i])
      <3>1. i <= Len(d.txq) => i \in 1 .. Len(d.txq)
        BY <1>1
      <3> QED
        BY <1>2, <1>5, <3>1 DEF FramesInv
    <2>6. FramesInv(c)
      BY <2>3, <2>5 DEF FramesInv
    <2>7. e \in Devices /\ RingInv(e) /\ FramesInv(e) /\ OnlyQueued(c, e) /\ NoNewKeys(c, e)
      BY SMTT(30), <2>2, <2>4, <2>6, ProcessTxQueueKeeps DEF e
    <2>8. OnlyQueued(d, e)
      BY SMTT(30), <2>3, <2>7 DEF OnlyQueued
    <2>9. NoNewKeys(d, e)
      BY <2>3, <2>7 DEF NoNewKeys
    <2> QED
      BY <2>1, <2>7, <2>8, <2>9
  <1> QED
    BY <1>4, <1>5

\* send_hcmd, for a device with a free descriptor.
LEMMA PutFields ==
    ASSUME NEW d \in Devices, NEW f \in Frames
    PROVE  LET e == Put(d, f)
           IN  /\ e \in Devices /\ OnlyQueued(d, e) /\ e.txq = d.txq
               /\ e.head = d.head + 1
               /\ Len(e.log) = Len(d.log) + 1
               /\ \A i \in 1 .. Len(e.log) : e.log[i] = IF i <= Len(d.log) THEN d.log[i] ELSE f
               /\ e.ring = [d.ring EXCEPT ![d.head % Slots] = f]
  <1> DEFINE r == [d.ring EXCEPT ![d.head % Slots] = f]
             l == Append(d.log, f)
             e == [d EXCEPT !.ring = r, !.head = d.head + 1, !.log = l]
  <1>1. d.log \in Seq(Frames) /\ d.head \in Nat
        /\ d.ring \in [0 .. Slots - 1 -> Frames \cup {Consumed}]
    BY DeviceTypes
  <1>2. l \in Seq(Frames) /\ Len(l) = Len(d.log) + 1
        /\ \A i \in 1 .. Len(l) : l[i] = IF i <= Len(d.log) THEN d.log[i] ELSE f
    BY <1>1
  <1>3. r \in [0 .. Slots - 1 -> Frames \cup {Consumed}]
    BY Zenon, <1>1
  <1>4. Put(d, f) = e
    BY DEF Put
  <1>5. d.head + 1 \in Nat
    BY <1>1
  <1> HIDE DEF r, l
  <1>6. e \in Devices
    BY Zenon, <1>2, <1>3, <1>5 DEF Devices
  <1>7. OnlyQueued(d, e) /\ e.txq = d.txq /\ e.head = d.head + 1 /\ e.log = l /\ e.ring = r
    BY DEF OnlyQueued, Devices
  <1> HIDE DEF e
  <1> QED
    BY <1>2, <1>4, <1>6, <1>7 DEF r

LEMMA PutKeeps ==
    ASSUME Nic, NEW d \in Devices, RingInv(d), FramesInv(d), NEW f \in Frames, Settled(f),
           d.head - d.tail < Slots
    PROVE  RingInv(Put(d, f)) /\ FramesInv(Put(d, f))
  <1> DEFINE e == Put(d, f)
             n == nicPos
  <1>1. d.head \in Nat /\ d.tail \in Nat /\ Len(d.log) \in Nat /\ n \in Nat /\ Slots \in Nat \ {0}
        /\ d.ring \in [0 .. Slots - 1 -> Frames \cup {Consumed}]
    BY DeviceTypes, SlotsType DEF Nic
  <1>2. /\ e.txq = d.txq /\ e.head = d.head + 1 /\ e.tail = d.tail
        /\ Len(e.log) = Len(d.log) + 1
        /\ \A i \in 1 .. Len(e.log) : e.log[i] = IF i <= Len(d.log) THEN d.log[i] ELSE f
        /\ e.ring = [d.ring EXCEPT ![d.head % Slots] = f]
    BY PutFields DEF OnlyQueued
  <1>3. /\ d.tail <= n /\ n <= d.head /\ Len(d.log) = d.head - n
        /\ d.head <= d.tail + Slots
    BY DEF RingInv
  <1>8. Len(e.log) = Len(d.log) + 1
    BY <1>2
  <1> HIDE DEF e, n
  <1>4. ASSUME NEW i \in 1 .. Len(e.log) PROVE e.ring[(n + i - 1) % Slots] = e.log[i]
    <2> DEFINE p == n + i - 1
    <2>0. i \in Int /\ 1 <= i /\ i <= d.head - n + 1 /\ Len(d.log) = d.head - n
      BY <1>1, <1>3, <1>8
    <2>1. p \in Int /\ p <= d.head /\ d.head < p + Slots /\ d.head \in Int
      BY SMTT(30), <1>1, <1>3, <2>0
    <2>4. p % Slots \in 0 .. Slots - 1
      BY <1>1, <2>1
    <2>2. ASSUME i <= Len(d.log) PROVE e.ring[p % Slots] = e.log[i]
      <3>1. p < d.head /\ i \in 1 .. Len(d.log)
        BY <1>1, <1>3, <2>2
      <3>2. d.ring[p % Slots] = d.log[i]
        BY <3>1 DEF RingInv, n
      <3> HIDE DEF p
      <3>3. p % Slots # d.head % Slots
        BY <1>1, <2>1, <3>1, ModDistinct
      <3> QED
        BY <1>1, <1>2, <2>1, <2>2, <2>4, <3>2, <3>3
    <2>3. ASSUME i > Len(d.log) PROVE e.ring[p % Slots] = e.log[i]
      <3>0. i = d.head - n + 1 /\ ~(i <= Len(d.log))
        BY <1>1, <2>0, <2>3
      <3>1. p = d.head /\ ~(i <= Len(d.log))
        BY <1>1, <3>0
      <3> HIDE DEF p
      <3> QED
        BY <1>1, <1>2, <2>1, <2>4, <3>1
    <2> QED
      BY <1>1, <2>2, <2>3
  <1>9. /\ e.tail <= n /\ n <= e.head /\ e.head <= e.tail + Slots
        /\ Len(e.log) = e.head - n
    BY SMTT(30), <1>1, <1>2, <1>3
  <1>5. RingInv(e)
    BY <1>4, <1>9 DEF RingInv, n
  <1>6. ASSUME NEW i \in 1 .. Len(e.log) PROVE Settled(e.log[i])
    <2>1. i <= Len(d.log) => i \in 1 .. Len(d.log)
      BY <1>1
    <2> QED
      BY <1>2, <2>1 DEF FramesInv
  <1>7. FramesInv(e)
    BY <1>2, <1>6 DEF FramesInv
  <1> QED
    BY <1>5, <1>7 DEF e

\* update_tx_tail: the tail becomes the number of descriptors consumed, unless
\* a whole ring has been.
LEMMA UpdateTxTailKeeps ==
    ASSUME Nic, NEW d \in Devices, RingInv(d)
    PROVE  LET e == UpdateTxTail(d, nicPos % Slots)
           IN  /\ e \in Devices /\ RingInv(e)
               /\ e = d \/ e = [d EXCEPT !.tail = nicPos]
  <1> DEFINE a == (((nicPos % Slots) % Slots) + Slots - (d.tail % Slots)) % Slots
             e == UpdateTxTail(d, nicPos % Slots)
             c == [d EXCEPT !.tail = nicPos]
  <1>1. d.head \in Nat /\ d.tail \in Nat /\ nicPos \in Nat /\ Slots \in Nat \ {0}
        /\ d.tail \in Int /\ nicPos \in Int
    BY DeviceTypes, SlotsType DEF Nic
  <1>2. d.tail <= nicPos /\ nicPos <= d.head /\ d.head <= d.tail + Slots /\ nicPos <= d.tail + Slots
    BY <1>1 DEF RingInv
  <1>3. a = IF nicPos = d.tail + Slots THEN 0 ELSE nicPos - d.tail
    BY Zenon, <1>1, <1>2, ModAdvance
  <1>4. e = IF a > d.head - d.tail THEN d ELSE [d EXCEPT !.tail = d.tail + a]
    BY DEF UpdateTxTail, Used
  <1> HIDE DEF a
  <1>5. d.tail + a = nicPos \/ d.tail + a = d.tail
    BY <1>1, <1>3
  <1>6. [d EXCEPT !.tail = d.tail] = d
    BY DEF Devices
  <1>7. e = d \/ e = c
    BY <1>4, <1>5, <1>6
  <1>8. c \in Devices /\ c.tail = nicPos /\ c.head = d.head /\ c.log = d.log /\ c.ring = d.ring
    BY Zenon, <1>1 DEF Devices
  <1> HIDE DEF c, e
  <1>9. RingInv(c)
    BY <1>1, <1>2, <1>8 DEF RingInv
  <1> QED
    BY <1>7, <1>8, <1>9 DEF c, e

-----------------------------------------------------------------------------
(***************************************************************************)
(* What queueing a frame, and what a change of the association alone, leave  *)
(* as it is.                                                               *)
(***************************************************************************)
LEMMA GrowsKeys ==
    ASSUME Nic, NEW d \in Devices, NEW e \in Devices, OnlyQueued(d, e), NoNewKeys(d, e),
           KeysInv(d)
    PROVE  KeysInv(e)
  <1>1. Len(d.log) \in Nat /\ Len(e.log) \in Nat
    BY DeviceTypes
  <1>2. ASSUME NEW i \in 1 .. Len(e.log), e.log[i].k = "Key"
        PROVE  i \in 1 .. Len(d.log) /\ e.log[i] = d.log[i]
    BY <1>1, <1>2 DEF NoNewKeys
  <1>3. e.sess = d.sess
    BY DEF OnlyQueued
  <1>4. \A i \in 1 .. Len(e.log) :
          e.log[i].k = "Key" => nicKeys.s <= e.log[i].s /\ e.log[i].s <= e.sess
    BY <1>2, <1>3 DEF KeysInv
  <1>5. ASSUME NEW i \in 1 .. Len(e.log), NEW j \in 1 .. Len(e.log),
               i < j, e.log[i].k = "Key", e.log[j].k = "Key"
        PROVE  e.log[i].s <= e.log[j].s
    <2>1. i \in 1 .. Len(d.log) /\ e.log[i] = d.log[i]
      BY <1>2, <1>5
    <2>2. j \in 1 .. Len(d.log) /\ e.log[j] = d.log[j]
      BY <1>2, <1>5
    <2> QED
      BY <1>5, <2>1, <2>2 DEF KeysInv
  <1> QED
    BY <1>3, <1>4, <1>5 DEF KeysInv

LEMMA GrowsHandshake ==
    ASSUME Nic, NEW d \in Devices, NEW e \in Devices, RingInv(d), OnlyQueued(d, e), NoNewKeys(d, e)
    PROVE  /\ NoKeysYet(d) => NoKeysYet(e)
           /\ KeysOnTheirWay(d) => KeysOnTheirWay(e)
           /\ KeysInstalled(d) => KeysInstalled(e)
           /\ Leased(d) => Leased(e)
           /\ Reported(d) => Reported(e)
  <1>1. /\ Len(d.log) \in Nat /\ Len(e.log) \in Nat /\ d.head \in Nat /\ e.head \in Nat
        /\ nicPos \in Nat /\ d.keyEnd \in Int
    BY DeviceTypes DEF Nic
  <1>2. ASSUME NEW i \in 1 .. Len(e.log), e.log[i].k = "Key"
        PROVE  i \in 1 .. Len(d.log) /\ e.log[i] = d.log[i]
    BY <1>1, <1>2 DEF NoNewKeys
  <1>3. NoKeysYet(d) => NoKeysYet(e)
    BY <1>2 DEF NoKeysYet, OnlyQueued
  <1>4. KeysInstalled(d) => KeysInstalled(e)
    BY <1>2 DEF KeysInstalled, OnlyQueued
  <1>5. ASSUME KeysOnTheirWay(d), e.keyEnd # NoEnd PROVE KeysOnTheirWay(e)
    <2>1. /\ d.keyEnd # NoEnd /\ e.keyEnd = d.keyEnd /\ e.sess = d.sess /\ e.wpa = d.wpa
      BY <1>5 DEF OnlyQueued
    <2>2. d.keyEnd <= d.head /\ d.head <= e.head /\ Len(d.log) = d.head - nicPos
      BY <1>5, <2>1 DEF KeysOnTheirWay, NoNewKeys, RingInv
    <2>3. ASSUME NEW i \in 1 .. Len(e.log)
          PROVE  /\ nicPos + i \in {e.keyEnd - 1, e.keyEnd} => e.log[i] = Key(e.sess)
                 /\ e.log[i].k = "Key" =>
                      /\ nicPos + i <= e.keyEnd
                      /\ nicPos + i < e.keyEnd - 1 => e.log[i].s < e.sess
      <3>1. CASE i <= Len(d.log)
        <4>1. i \in 1 .. Len(d.log) /\ e.log[i] = d.log[i]
          BY <1>1, <3>1 DEF NoNewKeys
        <4> QED
          BY <1>5, <2>1, <4>1 DEF KeysOnTheirWay
      <3>2. CASE i > Len(d.log)
        <4>1. e.log[i].k # "Key"
          BY <3>2 DEF NoNewKeys
        <4>2. nicPos + i > d.keyEnd
          BY <1>1, <2>2, <3>2
        <4>3. nicPos + i \notin {e.keyEnd - 1, e.keyEnd}
          BY <1>1, <2>1, <4>2
        <4> QED
          BY <4>1, <4>3
      <3> QED
        BY <1>1, <3>1, <3>2
    <2>4. e.keyEnd <= e.head
      BY <1>1, <2>1, <2>2
    <2>5. /\ e.wpa = "WaitMsg4"
          /\ nicPos < e.keyEnd - 1 => nicKeys.s < e.sess
          /\ nicPos = e.keyEnd - 1 => nicKeys = [s |-> e.sess, n |-> 1]
          /\ nicPos >= e.keyEnd => nicKeys = [s |-> e.sess, n |-> 2]
      BY <1>5, <2>1 DEF KeysOnTheirWay
    <2> QED
      BY <2>3, <2>4, <2>5 DEF KeysOnTheirWay
  <1>6. KeysOnTheirWay(d) => KeysOnTheirWay(e)
    BY Zenon, <1>5 DEF KeysOnTheirWay
  <1>7. Leased(d) => Leased(e)
    BY DEF Leased, OnlyQueued
  <1>8. Reported(d) => Reported(e)
    BY DEF Reported, OnlyQueued
  <1> QED
    BY <1>3, <1>4, <1>6, <1>7, <1>8

LEMMA SameRingKeeps ==
    ASSUME NEW d, NEW e, SameRing(d, e)
    PROVE  /\ RingInv(d) => RingInv(e)
           /\ FramesInv(d) => FramesInv(e)
           /\ KeysInv(d) /\ e.sess = d.sess => KeysInv(e)
  BY DEF SameRing, RingInv, FramesInv, KeysInv

\* A frame that may be sent on an association in order leaves it in order.
LEMMA SendRawCore ==
    ASSUME Nic, NEW d, Core(d), NEW f \in Frames, f.k # "Key", MaySend(d, f) => Settled(f)
    PROVE  LET e == SendRaw(d, f)
           IN  Core(e) /\ OnlyQueued(d, e) /\ NoNewKeys(d, e)
  <1> DEFINE e == SendRaw(d, f)
  <1>1. d \in Devices /\ RingInv(d) /\ FramesInv(d) /\ KeysInv(d) /\ Leased(d)
    BY DEF Core
  <1>2. e \in Devices /\ RingInv(e) /\ FramesInv(e) /\ OnlyQueued(d, e) /\ NoNewKeys(d, e)
    BY <1>1, SendRawKeeps
  <1> HIDE DEF e
  <1>3. KeysInv(e)
    BY <1>1, <1>2, GrowsKeys
  <1>4. Leased(e)
    BY <1>1, <1>2, GrowsHandshake
  <1> QED
    BY <1>2, <1>3, <1>4 DEF Core, e

LEMMA SendRawLink ==
    ASSUME Nic, NEW d, LinkOk(d), NEW f \in Frames, f.k # "Key", MaySend(d, f) => Settled(f)
    PROVE  LinkOk(SendRaw(d, f))
  <1> DEFINE e == SendRaw(d, f)
  <1>1. Core(d) /\ Handshake(d) /\ d \in Devices /\ RingInv(d)
    BY DEF LinkOk, Core
  <1>2. Core(e) /\ OnlyQueued(d, e) /\ NoNewKeys(d, e)
    BY <1>1, SendRawCore
  <1> HIDE DEF e
  <1>3. Handshake(e)
    BY <1>1, <1>2, GrowsHandshake DEF Handshake, Core
  <1> QED
    BY <1>2, <1>3 DEF LinkOk, e

LEMMA NoEndType ==
    NoEnd \in Int
  BY DEF NoEnd

\* wpa_failed puts any association with a sound ring in order.
LEMMA WpaFailedLink ==
    ASSUME NEW d, Core(d)
    PROVE  LinkOk(WpaFailed(d))
  <1> DEFINE e == WpaFailed(d)
  <1>1. d \in Devices /\ RingInv(d) /\ FramesInv(d) /\ KeysInv(d) /\ Leased(d)
    BY DEF Core
  <1>2. e \in Devices
    BY Zenon, <1>1, NoEndType DEF WpaFailed, Devices
  <1>3. /\ SameRing(d, e) /\ e.sess = d.sess /\ e.required = d.required /\ e.ip = d.ip
        /\ e.dhcpSess = d.dhcpSess /\ e.channel = d.channel /\ e.scanning = d.scanning
        /\ e.wpa = "Error" /\ e.keysIn = FALSE /\ e.keyEnd = NoEnd /\ e.msg4 = FALSE
        /\ e.status = "Error"
    BY <1>1 DEF WpaFailed, Devices, SameRing
  <1> HIDE DEF e
  <1>4. Core(e)
    BY <1>1, <1>2, <1>3, SameRingKeeps DEF Core, Leased
  <1>5. Handshake(e)
    BY <1>3 DEF Handshake, NoKeysYet, KeysOnTheirWay, KeysInstalled, Reported
  <1> QED
    BY <1>4, <1>5 DEF LinkOk, e

-----------------------------------------------------------------------------
(***************************************************************************)
(* The methods of the device: each leaves an association that is in order   *)
(* in order.                                                               *)
(***************************************************************************)
LEMMA NoNewKeysInLog ==
    ASSUME NEW d \in Devices, NEW f \in Frames, f.k # "Key"
    PROVE  NoNewKeys(d, Put(d, f))
  <1> DEFINE e == Put(d, f)
  <1>1. d.head \in Nat /\ Len(d.log) \in Nat
    BY DeviceTypes
  <1>2. /\ e.head = d.head + 1 /\ Len(e.log) = Len(d.log) + 1
        /\ \A i \in 1 .. Len(e.log) : e.log[i] = IF i <= Len(d.log) THEN d.log[i] ELSE f
    BY Zenon, PutFields
  <1> HIDE DEF e
  <1>3. d.head <= e.head /\ Len(d.log) <= Len(e.log)
    BY <1>1, <1>2
  <1>4. ASSUME NEW i \in 1 .. Len(e.log), i > Len(d.log) PROVE e.log[i].k # "Key"
    BY <1>1, <1>2, <1>4
  <1> QED
    BY <1>2, <1>3, <1>4 DEF NoNewKeys, e

LEMMA PutCommandLink ==
    ASSUME Nic, NEW d, LinkOk(d), d.head - d.tail < Slots
    PROVE  LinkOk(Put(d, Command("Scan")))
  <1> DEFINE f == Command("Scan")
             e == Put(d, f)
  <1>1. d \in Devices /\ RingInv(d) /\ FramesInv(d) /\ KeysInv(d) /\ Leased(d) /\ Handshake(d)
    BY DEF LinkOk, Core
  <1>2. f \in Frames
    BY FrameTypes
  <1>3. f.k # "Key" /\ Settled(f)
    BY DEF Command, Settled, IsData
  <1> HIDE DEF f
  <1>4. e \in Devices /\ OnlyQueued(d, e)
    BY Zenon, <1>1, <1>2, PutFields
  <1>5. RingInv(e) /\ FramesInv(e)
    BY <1>1, <1>2, <1>3, PutKeeps
  <1>6. NoNewKeys(d, e)
    BY <1>1, <1>2, <1>3, NoNewKeysInLog
  <1> HIDE DEF e
  <1>7. KeysInv(e)
    BY <1>1, <1>4, <1>6, GrowsKeys
  <1>8. Leased(e) /\ Handshake(e)
    BY <1>1, <1>4, <1>6, GrowsHandshake DEF Handshake
  <1> QED
    BY <1>4, <1>5, <1>7, <1>8 DEF LinkOk, Core, e, f

\* start_dhcp, whose DISCOVER leaves protected or not at all.
LEMMA StartDhcpLink ==
    ASSUME Nic, NEW d, Core(d), NoKeysYet(d), KeysOnTheirWay(d), KeysInstalled(d),
           d.keysIn => d.wpa = "Done",
           d.status = "Connected" /\ d.required => d.keysIn,
           d.msg4 <=> d.keyEnd # NoEnd,
           d.keyEnd # NoEnd => d.keyEnd >= 2
    PROVE  LinkOk(StartDhcp(d))
  <1> DEFINE e == [d EXCEPT !.clients = @ + 1, !.dhcp = d.clients + 1, !.dhcpSess = d.sess]
             f == Data("Discover", e.dhcp, e)
  <1>1. d \in Devices /\ RingInv(d) /\ FramesInv(d) /\ KeysInv(d) /\ Leased(d)
    BY DEF Core
  <1>2. d.clients + 1 \in Nat /\ d.sess \in Nat
    BY <1>1, DeviceTypes
  <1>3. e \in Devices
    BY Zenon, <1>1, <1>2 DEF Devices
  <1>4. /\ SameRing(d, e) /\ e.sess = d.sess /\ e.required = d.required /\ e.ip = d.ip
        /\ e.dhcpSess = d.sess /\ e.channel = d.channel /\ e.scanning = d.scanning
        /\ e.wpa = d.wpa /\ e.keysIn = d.keysIn /\ e.keyEnd = d.keyEnd /\ e.msg4 = d.msg4
        /\ e.status = d.status
    BY <1>1 DEF Devices, SameRing
  <1>5. e.dhcp \in Nat
    BY Zenon, <1>3, DeviceTypes
  <1>6. f \in Frames /\ f.s = e.sess /\ f.k = "Discover" /\ f.protected = e.keysIn
    BY Zenon, <1>3, <1>5, DataTypes
  <1>7. StartDhcp(d) = IF MaySend(e, f) THEN SendRaw(e, f) ELSE WpaFailed(e)
    BY DEF StartDhcp
  <1>8. f.required = e.required
    BY Zenon, <1>3, <1>5, DataTypes
  <1> HIDE DEF e, f
  <1>9. Core(e)
    BY <1>1, <1>2, <1>3, <1>4, SameRingKeeps DEF Core, Leased
  <1>10. Handshake(e)
    BY Zenon, <1>4 DEF Handshake, NoKeysYet, KeysOnTheirWay, KeysInstalled, Reported, SameRing
  <1>11. ASSUME MaySend(e, f) PROVE Settled(f)
    BY <1>4, <1>6, <1>8, <1>11 DEF MaySend, IsData, Settled, KeysInstalled
  <1>12. MaySend(e, f) => LinkOk(SendRaw(e, f))
    BY Zenon, <1>6, <1>9, <1>10, <1>11, SendRawLink DEF LinkOk
  <1>13. LinkOk(WpaFailed(e))
    BY <1>9, WpaFailedLink
  <1> QED
    BY <1>7, <1>12, <1>13

\* One key command of the current attempt.
LEMMA PutKeyCore ==
    ASSUME Nic, NEW d, Core(d), d.head - d.tail < Slots
    PROVE  Core(Put(d, Key(d.sess)))
  <1> DEFINE f == Key(d.sess)
             e == Put(d, f)
  <1>1. d \in Devices /\ RingInv(d) /\ FramesInv(d) /\ KeysInv(d) /\ Leased(d)
    BY SMTT(30) DEF Core
  <1>2. d.sess \in Nat /\ Len(d.log) \in Nat
    BY <1>1, DeviceTypes
  <1>3. f \in Frames
    BY <1>2, FrameTypes
  <1>4. f.s = d.sess /\ Settled(f)
    BY DEF Key, Settled, IsData
  <1>5. RingInv(e) /\ FramesInv(e)
    BY <1>1, <1>3, <1>4, PutKeeps
  <1>6. e \in Devices /\ OnlyQueued(d, e) /\ Len(e.log) = Len(d.log) + 1
        /\ \A i \in 1 .. Len(e.log) : e.log[i] = IF i <= Len(d.log) THEN d.log[i] ELSE f
    BY Zenon, <1>1, <1>3, PutFields
  <1> HIDE DEF f, e
  <1>7. Leased(e) /\ e.sess = d.sess
    BY <1>1, <1>6 DEF Leased, OnlyQueued
  <1>8. ASSUME NEW i \in 1 .. Len(e.log)
        PROVE  i \in Int /\ IF i <= Len(d.log) THEN i \in 1 .. Len(d.log) /\ e.log[i] = d.log[i]
                            ELSE i = Len(d.log) + 1 /\ e.log[i] = f
    BY <1>2, <1>6
  <1>9. ASSUME NEW i \in 1 .. Len(e.log), e.log[i].k = "Key"
        PROVE  nicKeys.s <= e.log[i].s /\ e.log[i].s <= e.sess
    <2>1. nicKeys.s <= d.sess /\ d.sess <= d.sess
      BY <1>1, <1>2 DEF KeysInv
    <2> QED
      BY <1>1, <1>4, <1>7, <1>8, <1>9, <2>1 DEF KeysInv
  <1>10. ASSUME NEW i \in 1 .. Len(e.log), NEW j \in 1 .. Len(e.log),
               i < j, e.log[i].k = "Key", e.log[j].k = "Key"
        PROVE  e.log[i].s <= e.log[j].s
    <2>1. i <= Len(d.log)
      BY <1>2, <1>8, <1>10, <1>6
    <2>2. i \in 1 .. Len(d.log) /\ e.log[i] = d.log[i]
      BY <1>8, <2>1
    <2>3. CASE j <= Len(d.log)
      <3>1. j \in 1 .. Len(d.log) /\ e.log[j] = d.log[j]
        BY <1>8, <2>3
      <3> QED
        BY <1>1, <1>10, <2>2, <3>1 DEF KeysInv
    <2>4. CASE ~(j <= Len(d.log))
      <3>1. e.log[j].s = d.sess
        BY <1>4, <1>8, <2>4
      <3> QED
        BY <1>1, <1>10, <2>2, <3>1 DEF KeysInv
    <2> QED
      BY <2>3, <2>4
  <1>11. KeysInv(e)
    BY <1>1, <1>7, <1>9, <1>10 DEF KeysInv
  <1> QED
    BY <1>5, <1>6, <1>7, <1>11 DEF Core, e, f

\* install_wpa_keys, when the attempt has no keys yet: its two key commands end
\* at keyEnd, and no other key follows the first.
LEMMA InstallWpaKeysLink ==
    ASSUME Nic, NEW d, Core(d), d.wpa = "WaitMsg4", d.keysIn = FALSE, nicKeys.s < d.sess,
           \A i \in 1 .. Len(d.log) : d.log[i].k = "Key" => d.log[i].s < d.sess,
           d.status = "Connected" /\ d.required => d.keysIn
    PROVE  LinkOk(InstallWpaKeys(d))
  <1> DEFINE f == Key(d.sess)
             one == Put(d, f)
             two == Put(one, f)
             e == [two EXCEPT !.keyEnd = two.head, !.msg4 = TRUE]
  <1>1. d \in Devices /\ RingInv(d) /\ d.sess \in Nat /\ f \in Frames
        /\ d.head \in Nat /\ d.tail \in Nat /\ Len(d.log) \in Nat /\ nicPos \in Nat
    BY DeviceTypes, FrameTypes DEF Core, Nic
  <1>2. one \in Devices /\ OnlyQueued(d, one) /\ one.head = d.head + 1
        /\ Len(one.log) = Len(d.log) + 1
        /\ \A i \in 1 .. Len(one.log) : one.log[i] = IF i <= Len(d.log) THEN d.log[i] ELSE f
    BY Zenon, <1>1, PutFields
  <1>3. one.sess = d.sess /\ one.tail = d.tail
    BY Zenon, <1>2 DEF OnlyQueued
  <1>4. two = Put(one, Key(one.sess))
    BY <1>3
  <1>5. InstallWpaKeys(d) = IF ~CanSend(d) THEN WpaFailed(d)
                            ELSE IF ~CanSend(one) THEN WpaFailed(one)
                            ELSE e
    BY DEF InstallWpaKeys
  <1>6. CanSend(d) => Core(one)
    BY PutKeyCore DEF CanSend, Used
  <1> HIDE DEF one
  <1>7. CanSend(d) /\ CanSend(one) => Core(two)
    BY <1>4, <1>6, PutKeyCore DEF CanSend, Used
  <1>8. ~CanSend(d) => LinkOk(WpaFailed(d))
    BY WpaFailedLink
  <1>9. CanSend(d) => LinkOk(WpaFailed(one))
    BY <1>6, WpaFailedLink
  <1>10. ASSUME Core(two) PROVE LinkOk(e)
    <2>0. two \in Devices /\ OnlyQueued(one, two) /\ two.head = one.head + 1
          /\ Len(two.log) = Len(one.log) + 1
      BY Zenon, <1>1, <1>2, PutFields
    <2>1. two \in Devices /\ OnlyQueued(one, two) /\ two.head = d.head + 2
          /\ Len(two.log) = Len(d.log) + 2 /\ two.head \in Int
      BY <1>1, <1>2, <2>0
    <2>2. \A i \in 1 .. Len(two.log) : two.log[i] = IF i <= Len(one.log) THEN one.log[i] ELSE f
      BY Zenon, <1>1, <1>2, PutFields
    <2> HIDE DEF two
    <2>3. ASSUME NEW i \in 1 .. Len(two.log)
          PROVE  IF i <= Len(d.log) THEN i \in 1 .. Len(d.log) /\ two.log[i] = d.log[i]
                 ELSE i \in {Len(d.log) + 1, Len(d.log) + 2} /\ two.log[i] = f
      <3>1. i \in 1 .. Len(d.log) + 2
        BY <2>1
      <3>2. CASE i <= Len(d.log)
        <4>1. i \in 1 .. Len(d.log) /\ i \in 1 .. Len(one.log) /\ i <= Len(one.log)
          BY <1>1, <1>2, <3>1, <3>2
        <4> QED
          BY <1>2, <2>2, <3>2, <4>1
      <3>3. CASE i = Len(d.log) + 1
        <4>1. ~(i <= Len(d.log)) /\ i \in 1 .. Len(one.log) /\ i <= Len(one.log)
          BY <1>1, <1>2, <3>1, <3>3
        <4> QED
          BY <1>2, <2>2, <3>3, <4>1
      <3>4. CASE i = Len(d.log) + 2
        <4>1. ~(i <= Len(d.log)) /\ ~(i <= Len(one.log))
          BY <1>1, <1>2, <3>1, <3>4
        <4> QED
          BY <2>2, <3>4, <4>1
      <3> QED
        BY <1>1, <3>1, <3>2, <3>3, <3>4
    <2>4. e \in Devices
      BY Zenon, <2>1 DEF Devices
    <2>5. /\ SameRing(two, e) /\ e.sess = two.sess /\ e.required = two.required /\ e.ip = two.ip
          /\ e.dhcpSess = two.dhcpSess /\ e.channel = two.channel
          /\ e.scanning = two.scanning /\ e.wpa = two.wpa /\ e.keysIn = two.keysIn
          /\ e.keyEnd = two.head /\ e.msg4 = TRUE /\ e.status = two.status
      BY <2>1 DEF Devices, SameRing
    <2>6. /\ two.sess = d.sess /\ two.required = d.required /\ two.wpa = d.wpa
          /\ two.keysIn = d.keysIn /\ two.status = d.status
      BY <1>2, <2>1 DEF OnlyQueued
    <2> HIDE DEF e
    <2>7. Core(e)
      BY Zenon, <1>10, <2>4, <2>5, SameRingKeeps DEF Core, Leased
    <2>8. /\ e.keyEnd = d.head + 2 /\ e.log = two.log /\ e.head = d.head + 2 /\ e.sess = d.sess
          /\ Len(d.log) = d.head - nicPos /\ nicPos <= d.head
      BY <1>1, <2>1, <2>5, <2>6 DEF SameRing, RingInv
    <2>9. ASSUME NEW i \in 1 .. Len(e.log)
          PROVE  /\ nicPos + i \in {e.keyEnd - 1, e.keyEnd} => e.log[i] = Key(e.sess)
                 /\ e.log[i].k = "Key" =>
                      /\ nicPos + i <= e.keyEnd
                      /\ nicPos + i < e.keyEnd - 1 => e.log[i].s < e.sess
      <3>1. CASE i <= Len(d.log)
        <4>1. i \in 1 .. Len(d.log) /\ e.log[i] = d.log[i]
          BY <2>3, <2>8, <3>1
        <4>2. nicPos + i < e.keyEnd - 1
          BY <1>1, <2>8, <4>1
        <4>3. nicPos + i \notin {e.keyEnd - 1, e.keyEnd} /\ nicPos + i <= e.keyEnd
          BY <1>1, <2>8, <4>1
        <4> QED
          BY <2>8, <4>1, <4>2, <4>3
      <3>2. CASE ~(i <= Len(d.log))
        <4>1. i \in {Len(d.log) + 1, Len(d.log) + 2} /\ e.log[i] = f
          BY <2>3, <2>8, <3>2
        <4>2. ~(nicPos + i < e.keyEnd - 1) /\ nicPos + i <= e.keyEnd
          BY SMTT(30), <1>1, <2>8, <4>1
        <4> QED
          BY <2>8, <4>1, <4>2
      <3> QED
        BY <3>1, <3>2
    <2>10. nicPos < e.keyEnd - 1 /\ ~(nicPos = e.keyEnd - 1) /\ ~(nicPos >= e.keyEnd)
           /\ e.keyEnd <= e.head /\ e.keyEnd >= 2 /\ e.keyEnd # NoEnd
      BY <1>1, <2>8 DEF NoEnd
    <2>11. KeysOnTheirWay(e)
      BY Zenon, <2>5, <2>6, <2>8, <2>9, <2>10 DEF KeysOnTheirWay
    <2>12. e.wpa = "WaitMsg4" /\ e.keysIn = FALSE /\ e.msg4 = TRUE /\ e.status = d.status
           /\ e.required = d.required
      BY <2>5, <2>6
    <2>13. NoKeysYet(e) /\ KeysInstalled(e) /\ Reported(e)
      BY <2>10, <2>12 DEF NoKeysYet, KeysInstalled, Reported
    <2> QED
      BY <2>7, <2>11, <2>13 DEF LinkOk, Handshake
  <1> QED
    BY <1>5, <1>7, <1>8, <1>9, <1>10

\* finish_pending_wpa_keys: the tail has passed both keys, so the NIC has them.
LEMMA FinishPendingWpaKeysLink ==
    ASSUME Nic, NEW d, LinkOk(d)
    PROVE  LinkOk(FinishPendingWpaKeys(d))
  <1> DEFINE e == [d EXCEPT !.keyEnd = NoEnd, !.keysIn = TRUE, !.msg4 = FALSE]
             f == M4(e.bssid, e.sess)
             sent == SendRaw(e, f)
             x == [sent EXCEPT !.wpa = "Done", !.status = "Connected"]
  <1>1. Core(d) /\ Handshake(d) /\ d \in Devices /\ RingInv(d)
    BY DEF LinkOk, Core
  <1>2. /\ d.sess \in Nat /\ d.tail \in Nat /\ d.keyEnd \in Int /\ nicPos \in Nat
        /\ Len(d.log) \in Nat /\ d.bssid \in APs \cup {NoAP}
    BY <1>1, DeviceTypes DEF Nic
  <1>3. CASE d.keyEnd = NoEnd \/ d.tail < d.keyEnd
    BY <1>3 DEF FinishPendingWpaKeys
  <1>4. CASE ~(d.keyEnd = NoEnd \/ d.tail < d.keyEnd)
    <2>1. FinishPendingWpaKeys(d) =
            IF ~d.msg4 \/ d.bssid = NoAP THEN WpaFailed(e)
            ELSE IF d.wpa # "WaitMsg4" THEN WpaFailed(sent) ELSE StartDhcp(x)
      BY <1>4 DEF FinishPendingWpaKeys
    <2>2. d.keyEnd # NoEnd /\ nicPos >= d.keyEnd
      BY SMTT(30), <1>1, <1>2, <1>4 DEF RingInv
    <2>3. nicKeys = [s |-> d.sess, n |-> 2]
      BY <1>1, <2>2 DEF Handshake, KeysOnTheirWay
    <2>4. ASSUME NEW i \in 1 .. Len(d.log) PROVE d.log[i].k # "Key"
      <3>1. ~(nicPos + i <= d.keyEnd)
        BY <1>2, <2>2
      <3> QED
        BY <1>1, <2>2, <3>1 DEF Handshake, KeysOnTheirWay
    <2>5. e \in Devices
      BY Zenon, <1>1, NoEndType DEF Devices
    <2>6. /\ SameRing(d, e) /\ e.sess = d.sess /\ e.required = d.required /\ e.ip = d.ip
          /\ e.dhcpSess = d.dhcpSess /\ e.channel = d.channel /\ e.scanning = d.scanning
          /\ e.keysIn = TRUE /\ e.keyEnd = NoEnd /\ e.msg4 = FALSE /\ e.bssid = d.bssid
      BY <1>1 DEF Devices, SameRing
    <2> HIDE DEF e
    <2>7. Core(e)
      BY <1>1, <2>5, <2>6, SameRingKeeps DEF Core, Leased
    <2>8. f \in Frames
      BY Zenon, <1>2, <2>6, FrameTypes
    <2>9. f.k # "Key" /\ Settled(f)
      BY <2>3, <2>6 DEF M4, Settled, IsData
    <2> HIDE DEF f
    <2>10. Core(sent) /\ OnlyQueued(e, sent) /\ NoNewKeys(e, sent)
      BY <2>7, <2>8, <2>9, SendRawCore
    <2> HIDE DEF sent
    <2>11. LinkOk(WpaFailed(e)) /\ LinkOk(WpaFailed(sent))
      BY <2>7, <2>10, WpaFailedLink
    <2>12. LinkOk(StartDhcp(x))
      <3>1. sent \in Devices
        BY <2>10 DEF Core
      <3>2. x \in Devices
        BY Zenon, <3>1 DEF Devices
      <3>3. /\ SameRing(sent, x) /\ x.sess = sent.sess /\ x.required = sent.required
            /\ x.ip = sent.ip /\ x.dhcpSess = sent.dhcpSess /\ x.channel = sent.channel
            /\ x.scanning = sent.scanning /\ x.keysIn = sent.keysIn
            /\ x.keyEnd = sent.keyEnd /\ x.msg4 = sent.msg4 /\ x.wpa = "Done"
        BY <3>1 DEF Devices, SameRing
      <3>4. /\ sent.sess = d.sess /\ sent.keysIn = TRUE /\ sent.keyEnd = NoEnd /\ sent.msg4 = FALSE
        BY <2>6, <2>10 DEF OnlyQueued
      <3> HIDE DEF x
      <3>5. Core(x)
        BY <2>10, <3>2, <3>3, SameRingKeeps DEF Core, Leased
      <3>6. NoKeysYet(x) /\ KeysOnTheirWay(x)
        BY <3>3, <3>4 DEF NoKeysYet, KeysOnTheirWay
      <3>7. ASSUME NEW i \in 1 .. Len(x.log) PROVE x.log[i].k # "Key"
        <4>1. x.log = sent.log /\ e.log = d.log
          BY <2>6, <3>3 DEF SameRing
        <4>2. i <= Len(d.log) => i \in 1 .. Len(d.log)
          BY <1>2
        <4>3. i \in Int /\ Len(d.log) \in Int
          BY <1>2
        <4> QED
          BY <2>4, <2>10, <4>1, <4>2, <4>3 DEF NoNewKeys
      <3>8. KeysInstalled(x)
        BY <2>3, <3>3, <3>4, <3>7 DEF KeysInstalled
      <3>9. x.keysIn /\ x.wpa = "Done" /\ x.msg4 = FALSE /\ x.keyEnd = NoEnd
        BY <3>3, <3>4
      <3> QED
        BY <3>5, <3>6, <3>8, <3>9, StartDhcpLink
    <2> QED
      BY <2>1, <2>11, <2>12
  <1> QED
    BY <1>3, <1>4

\* What a change that leaves the ring, the keys and the lease alone keeps.
LEMMA RestLink ==
    ASSUME NEW d, LinkOk(d), NEW e \in Devices, SameRing(d, e),
           e.sess = d.sess, e.required = d.required, e.ip = d.ip, e.dhcpSess = d.dhcpSess,
           e.wpa = d.wpa, e.keysIn = d.keysIn, e.keyEnd = d.keyEnd, e.msg4 = d.msg4,
           e.status = "Connected" /\ e.required => e.keysIn,
           e.channel \in 1 .. LastChannel + 1, e.scanning => e.channel <= LastChannel
    PROVE  LinkOk(e)
  <1>1. RingInv(d) /\ FramesInv(d) /\ KeysInv(d) /\ Leased(d) /\ Handshake(d)
    BY DEF LinkOk, Core
  <1>2. Core(e)
    BY <1>1, SameRingKeeps DEF Core, Leased
  <1>3. Handshake(e)
    BY Zenon, <1>1 DEF Handshake, NoKeysYet, KeysOnTheirWay, KeysInstalled, Reported, SameRing
  <1> QED
    BY <1>2, <1>3 DEF LinkOk

LEMMA LinkFacts ==
    ASSUME NEW d, LinkOk(d)
    PROVE  /\ d \in Devices /\ d.channel \in 1 .. LastChannel + 1
           /\ d.scanning => d.channel <= LastChannel
           /\ d.status = "Connected" /\ d.required => d.keysIn
  BY DEF LinkOk, Core, Leased, Handshake, Reported

\* A new status other than Connected, or a new state of the association.
LEMMA StatusErrorLink ==
    ASSUME NEW d, LinkOk(d)
    PROVE  LinkOk([d EXCEPT !.status = "Error"])
  <1> DEFINE e == [d EXCEPT !.status = "Error"]
  <1>1. d \in Devices
    BY LinkFacts
  <1>2. e \in Devices
    BY Zenon, <1>1 DEF Devices
  <1>3. /\ SameRing(d, e) /\ e.sess = d.sess /\ e.required = d.required /\ e.ip = d.ip
        /\ e.dhcpSess = d.dhcpSess /\ e.wpa = d.wpa /\ e.keysIn = d.keysIn
        /\ e.keyEnd = d.keyEnd /\ e.msg4 = d.msg4 /\ e.channel = d.channel
        /\ e.scanning = d.scanning /\ e.status = "Error"
    BY <1>1 DEF Devices, SameRing
  <1> HIDE DEF e
  <1>4. LinkOk(e)
    BY <1>2, <1>3, LinkFacts, RestLink
  <1> QED
    BY <1>4 DEF e

LEMMA AssocSentLink ==
    ASSUME NEW d, LinkOk(d)
    PROVE  LinkOk([d EXCEPT !.iwl = "AssocSent"])
  <1> DEFINE e == [d EXCEPT !.iwl = "AssocSent"]
  <1>1. d \in Devices
    BY LinkFacts
  <1>2. e \in Devices
    BY Zenon, <1>1 DEF Devices
  <1>3. /\ SameRing(d, e) /\ e.sess = d.sess /\ e.required = d.required /\ e.ip = d.ip
        /\ e.dhcpSess = d.dhcpSess /\ e.wpa = d.wpa /\ e.keysIn = d.keysIn
        /\ e.keyEnd = d.keyEnd /\ e.msg4 = d.msg4 /\ e.channel = d.channel
        /\ e.scanning = d.scanning /\ e.status = d.status
    BY <1>1 DEF Devices, SameRing
  <1> HIDE DEF e
  <1>4. LinkOk(e)
    BY <1>2, <1>3, LinkFacts, RestLink
  <1> QED
    BY <1>4 DEF e

LEMMA DeauthLink ==
    ASSUME NEW d, LinkOk(d)
    PROVE  LinkOk([d EXCEPT !.status = "Disconnected", !.iwl = "Disconnected"])
  <1> DEFINE e == [d EXCEPT !.status = "Disconnected", !.iwl = "Disconnected"]
  <1>1. d \in Devices
    BY LinkFacts
  <1>2. e \in Devices
    BY Zenon, <1>1 DEF Devices
  <1>3. /\ SameRing(d, e) /\ e.sess = d.sess /\ e.required = d.required /\ e.ip = d.ip
        /\ e.dhcpSess = d.dhcpSess /\ e.wpa = d.wpa /\ e.keysIn = d.keysIn
        /\ e.keyEnd = d.keyEnd /\ e.msg4 = d.msg4 /\ e.channel = d.channel
        /\ e.scanning = d.scanning /\ e.status = "Disconnected"
    BY <1>1 DEF Devices, SameRing
  <1> HIDE DEF e
  <1>4. LinkOk(e)
    BY <1>2, <1>3, LinkFacts, RestLink
  <1> QED
    BY <1>4 DEF e

\* process_rx_frame for the frames of the handshake.
LEMMA ReceiveEapolLink ==
    ASSUME Nic, NEW d, LinkOk(d), NEW f, f.k \in {"M1", "M3"}, f.s \in Nat
    PROVE  LinkOk(ReceiveEapol(d, f))
  <1> DEFINE m == M2(d.bssid, d.sess, f.s)
             a == [d EXCEPT !.wpa = "WaitMsg3", !.nonce = f.s]
             b == [d EXCEPT !.wpa = "WaitMsg4"]
  <1>1. Core(d) /\ Handshake(d) /\ d \in Devices
    BY DEF LinkOk, Core
  <1>2. d.bssid \in APs \cup {NoAP} /\ d.sess \in Nat
    BY <1>1, DeviceTypes
  <1>3. LinkOk(WpaFailed(d))
    BY <1>1, WpaFailedLink
  <1>4. ASSUME d.wpa = "WaitMsg1" PROVE LinkOk(SendRaw(a, m))
    <2>1. m \in Frames
      BY Zenon, <1>2, FrameTypes
    <2>2. m.k # "Key" /\ Settled(m)
      BY DEF M2, Settled, IsData
    <2>3. a \in Devices
      BY Zenon, <1>1 DEF Devices
    <2>4. /\ SameRing(d, a) /\ a.sess = d.sess /\ a.required = d.required /\ a.ip = d.ip
          /\ a.dhcpSess = d.dhcpSess /\ a.wpa = "WaitMsg3" /\ a.keysIn = d.keysIn
          /\ a.keyEnd = d.keyEnd /\ a.msg4 = d.msg4 /\ a.channel = d.channel
          /\ a.scanning = d.scanning /\ a.status = d.status
      BY <1>1 DEF Devices, SameRing
    <2> HIDE DEF a, m
    <2>5. Core(a)
      BY SMTT(30), <1>1, <2>3, <2>4, SameRingKeeps DEF Core, Leased
    <2>6. ~d.keysIn /\ d.keyEnd = NoEnd
      BY <1>1, <1>4 DEF Handshake, Reported, KeysOnTheirWay
    <2>7. Handshake(a)
      BY Zenon, <1>1, <1>4, <2>4, <2>6
         DEF Handshake, NoKeysYet, KeysOnTheirWay, KeysInstalled, Reported, SameRing
    <2> QED
      BY <2>1, <2>2, <2>5, <2>7, SendRawLink DEF LinkOk
  <1>5. ASSUME d.wpa = "WaitMsg3" PROVE LinkOk(InstallWpaKeys(b))
    <2>1. b \in Devices
      BY Zenon, <1>1 DEF Devices
    <2>2. /\ SameRing(d, b) /\ b.sess = d.sess /\ b.required = d.required /\ b.ip = d.ip
          /\ b.dhcpSess = d.dhcpSess /\ b.wpa = "WaitMsg4" /\ b.keysIn = d.keysIn
          /\ b.channel = d.channel /\ b.scanning = d.scanning /\ b.status = d.status
      BY <1>1 DEF Devices, SameRing
    <2> HIDE DEF b
    <2>3. Core(b)
      BY SMTT(30), <1>1, <2>1, <2>2, SameRingKeeps DEF Core, Leased
    <2>4. ~d.keysIn
      BY <1>1, <1>5 DEF Handshake, Reported
    <2>5. b.keysIn \in BOOLEAN
      BY <2>1, FlagTypes
    <2>6. b.keysIn = FALSE
      BY <2>2, <2>4, <2>5
    <2>7. nicKeys.s < b.sess
          /\ \A i \in 1 .. Len(b.log) : b.log[i].k = "Key" => b.log[i].s < b.sess
      BY SMTT(30), <1>1, <1>5, <2>2 DEF Handshake, NoKeysYet, SameRing
    <2>8. b.status = "Connected" /\ b.required => b.keysIn
      BY <1>1, <2>2 DEF Handshake, Reported
    <2> QED
      BY Zenon, <2>2, <2>3, <2>6, <2>7, <2>8, InstallWpaKeysLink
  <1> HIDE DEF a, b, m
  <1>6. ReceiveEapol(d, f) \in {d, WpaFailed(d)}
        \/ (d.wpa = "WaitMsg1" /\ ReceiveEapol(d, f) = SendRaw(a, m))
        \/ (d.wpa = "WaitMsg3" /\ ReceiveEapol(d, f) = InstallWpaKeys(b))
    BY DEF ReceiveEapol, a, b, m
  <1> QED
    BY <1>3, <1>4, <1>5, <1>6

\* process_rx_frame for an IPv4 frame to the DHCP client.
LEMMA ReceiveDhcpLink ==
    ASSUME Nic, NEW d, LinkOk(d), NEW f
    PROVE  LinkOk(ReceiveDhcp(d, f))
  <1> DEFINE r == Data("Request", d.dhcp, d)
             e == [d EXCEPT !.ip = d.dhcpSess]
  <1>1. Core(d) /\ Handshake(d) /\ d \in Devices
    BY DEF LinkOk, Core
  <1>2. d.dhcp \in Nat /\ d.dhcpSess \in Nat /\ d.sess \in Nat
    BY <1>1, DeviceTypes
  <1>3. r \in Frames /\ r.s = d.sess /\ r.k = "Request" /\ r.protected = d.keysIn
        /\ r.required = d.required
    BY <1>1, <1>2, DataTypes
  <1> HIDE DEF r
  <1>4. MaySend(d, r) => Settled(r)
    BY <1>1, <1>3 DEF MaySend, IsData, Settled, Handshake, KeysInstalled
  <1>5. LinkOk(SendRaw(d, r))
    BY <1>3, <1>4, SendRawLink
  <1>6. ASSUME ~(d.required /\ ~d.keysIn) PROVE LinkOk(e)
    <2>1. e \in Devices
      BY Zenon, <1>1, <1>2 DEF Devices
    <2>2. /\ SameRing(d, e) /\ e.sess = d.sess /\ e.required = d.required /\ e.ip = d.dhcpSess
          /\ e.dhcpSess = d.dhcpSess /\ e.wpa = d.wpa /\ e.keysIn = d.keysIn
          /\ e.keyEnd = d.keyEnd /\ e.msg4 = d.msg4 /\ e.channel = d.channel
          /\ e.scanning = d.scanning /\ e.status = d.status
      BY <1>1 DEF Devices, SameRing
    <2> HIDE DEF e
    <2>3. Core(e)
      <3>1. RingInv(e) /\ FramesInv(e) /\ KeysInv(e)
        BY <1>1, <2>2, SameRingKeeps DEF Core
      <3>2. Leased(e)
        BY Zenon, <1>1, <1>6, <2>2 DEF Core, Leased, Handshake, Reported
      <3> QED
        BY SMTT(30), <2>1, <3>1, <3>2 DEF Core
    <2>4. Handshake(e)
      BY Zenon, <1>1, <2>2
         DEF Handshake, NoKeysYet, KeysOnTheirWay, KeysInstalled, Reported, SameRing
    <2> QED
      BY <2>3, <2>4 DEF LinkOk
  <1>7. LinkOk([d EXCEPT !.status = "Error"])
    BY StatusErrorLink
  <1> HIDE DEF e
  <1>8. ReceiveDhcp(d, f) \in {d, SendRaw(d, r), [d EXCEPT !.status = "Error"]}
        \/ (~(d.required /\ ~d.keysIn) /\ ReceiveDhcp(d, f) = e)
    BY DEF ReceiveDhcp, e, r
  <1> QED
    BY <1>5, <1>6, <1>7, <1>8

\* process_rx_frame for authentication and association responses.
LEMMA ReceiveAuthLink ==
    ASSUME Nic, NEW d, LinkOk(d), NEW f, f.ap \in APs
    PROVE  LinkOk(ReceiveAuth(d, f))
  <1> DEFINE m == Assoc(f.ap, d.sess)
             e == [d EXCEPT !.iwl = "AssocSent"]
  <1>1. d \in Devices
    BY DEF LinkOk, Core
  <1>2. d.sess \in Nat
    BY <1>1, DeviceTypes
  <1>3. m \in Frames
    BY <1>2, FrameTypes
  <1>4. m.k # "Key" /\ Settled(m)
    BY DEF Assoc, Settled, IsData
  <1>5. LinkOk(e)
    BY AssocSentLink
  <1>6. LinkOk([d EXCEPT !.status = "Error"])
    BY StatusErrorLink
  <1> HIDE DEF m, e
  <1>7. LinkOk(SendRaw(e, m))
    BY <1>3, <1>4, <1>5, SendRawLink
  <1>8. ReceiveAuth(d, f) \in {d, SendRaw(e, m), [d EXCEPT !.status = "Error"]}
    BY DEF ReceiveAuth, e, m
  <1> QED
    BY <1>6, <1>7, <1>8

LEMMA ReceiveAssocLink ==
    ASSUME Nic, NEW d, LinkOk(d), NEW f, f.ap \in APs
    PROVE  LinkOk(ReceiveAssoc(d, f))
  <1> DEFINE t == IF d.required THEN "Handshake" ELSE "Connected"
             e == [d EXCEPT !.iwl = "Connected", !.bssid = f.ap, !.status = t]
  <1>1. d \in Devices /\ d.channel \in 1 .. LastChannel + 1
        /\ (d.scanning => d.channel <= LastChannel)
    BY LinkFacts
  <1>2. LinkOk([d EXCEPT !.status = "Error"])
    BY StatusErrorLink
  <1>3. t \in {"Handshake", "Connected"} /\ (t = "Connected" => ~d.required)
    OBVIOUS
  <1>4. ReceiveAssoc(d, f) \in {d, [d EXCEPT !.status = "Error"], e, StartDhcp(e)}
    BY DEF ReceiveAssoc
  <1> HIDE DEF t
  <1>5. e \in Devices
    <2>1. t \in {"Disconnected", "Scanning", "Authenticating", "Handshake", "Connected", "Error"}
      BY <1>3
    <2> QED
      BY Zenon, <1>1, <2>1 DEF Devices
  <1>6. /\ SameRing(d, e) /\ e.sess = d.sess /\ e.required = d.required /\ e.ip = d.ip
        /\ e.dhcpSess = d.dhcpSess /\ e.wpa = d.wpa /\ e.keysIn = d.keysIn
        /\ e.keyEnd = d.keyEnd /\ e.msg4 = d.msg4 /\ e.channel = d.channel
        /\ e.scanning = d.scanning /\ e.status = t
    BY <1>1 DEF Devices, SameRing
  <1> HIDE DEF e
  <1>7. LinkOk(e)
    BY <1>1, <1>3, <1>5, <1>6, RestLink
  <1>8. LinkOk(StartDhcp(e))
    BY Zenon, <1>7, StartDhcpLink DEF LinkOk, Handshake, Reported
  <1> QED
    BY <1>2, <1>4, <1>7, <1>8
\* start_scan, start_scan_if_idle, and the scan timer at the end of tick.
LEMMA StartScanLink ==
    ASSUME Nic, NEW d, LinkOk(d)
    PROVE  LinkOk(StartScanIfIdle(d))
  <1> DEFINE e == [d EXCEPT !.status = "Scanning", !.found = {}, !.channel = 1,
                            !.scanning = TRUE, !.iwl = "Scanning"]
  <1>1. d \in Devices
    BY LinkFacts
  <1>2. LastChannel \in Nat \ {0} /\ 1 \in Nat /\ {} \in SUBSET APs
    BY WifiLinkAssumption
  <1>3. e \in Devices
    BY Zenon, <1>1, <1>2 DEF Devices
  <1>4. /\ SameRing(d, e) /\ e.sess = d.sess /\ e.required = d.required /\ e.ip = d.ip
        /\ e.dhcpSess = d.dhcpSess /\ e.wpa = d.wpa /\ e.keysIn = d.keysIn
        /\ e.keyEnd = d.keyEnd /\ e.msg4 = d.msg4 /\ e.channel = 1 /\ e.status = "Scanning"
    BY <1>1 DEF Devices, SameRing
  <1>5. StartScanIfIdle(d) \in {d, e} \/ (CanSend(e) /\ StartScanIfIdle(d) = Put(e, Command("Scan")))
    BY SMTT(30) DEF StartScanIfIdle, StartScan
  <1> HIDE DEF e
  <1>6. e.channel \in 1 .. LastChannel + 1 /\ e.channel <= LastChannel
    BY <1>2, <1>4
  <1>7. LinkOk(e)
    BY <1>3, <1>4, <1>6, RestLink
  <1>8. CanSend(e) => LinkOk(Put(e, Command("Scan")))
    BY <1>7, PutCommandLink DEF CanSend, Used
  <1> QED
    BY <1>5, <1>7, <1>8

LEMMA AdvanceScanLink ==
    ASSUME NEW d, LinkOk(d)
    PROVE  LinkOk(AdvanceScan(d))
  <1> DEFINE t == IF d.status = "Scanning" THEN "Disconnected" ELSE d.status
             c == d.channel + 1
             a == [d EXCEPT !.channel = c]
             b == [d EXCEPT !.channel = c, !.scanning = FALSE, !.iwl = "Disconnected",
                            !.status = t]
  <1>1. d \in Devices /\ d.channel \in 1 .. LastChannel + 1
        /\ (d.scanning => d.channel <= LastChannel)
        /\ (d.status = "Connected" /\ d.required => d.keysIn)
    BY LinkFacts
  <1>2. AdvanceScan(d) = IF ~d.scanning THEN d ELSE IF d.channel + 1 <= LastChannel THEN a ELSE b
    BY <1>1 DEF AdvanceScan, Devices
  <1>3. LastChannel \in Nat \ {0} /\ d.channel + 1 \in Nat
    BY <1>1, WifiLinkAssumption
  <1>4. t \in {"Disconnected", "Scanning", "Authenticating", "Handshake", "Connected", "Error"}
        /\ (t = "Connected" => d.status = "Connected")
    BY <1>1 DEF Devices
  <1>5. c \in Nat
    BY <1>3
  <1> HIDE DEF t, c
  <1>8. a \in Devices
    BY Zenon, <1>1, <1>5 DEF Devices
  <1>9. b \in Devices
    BY Zenon, <1>1, <1>4, <1>5 DEF Devices
  <1>6. ASSUME d.channel + 1 <= LastChannel PROVE LinkOk(a)
    <2>1. /\ SameRing(d, a) /\ a.sess = d.sess /\ a.required = d.required /\ a.ip = d.ip
          /\ a.dhcpSess = d.dhcpSess /\ a.wpa = d.wpa /\ a.keysIn = d.keysIn
          /\ a.keyEnd = d.keyEnd /\ a.msg4 = d.msg4 /\ a.channel = c
          /\ a.status = d.status
      BY <1>1 DEF Devices, SameRing
    <2> HIDE DEF a
    <2>2. a.channel \in 1 .. LastChannel + 1 /\ a.channel <= LastChannel
      BY <1>1, <1>3, <1>6, <2>1 DEF c
    <2> QED
      BY <1>1, <1>8, <2>1, <2>2, RestLink
  <1>7. ASSUME d.scanning PROVE LinkOk(b)
    <2>1. /\ SameRing(d, b) /\ b.sess = d.sess /\ b.required = d.required /\ b.ip = d.ip
          /\ b.dhcpSess = d.dhcpSess /\ b.wpa = d.wpa /\ b.keysIn = d.keysIn
          /\ b.keyEnd = d.keyEnd /\ b.msg4 = d.msg4 /\ b.channel = c
          /\ b.status = t
      BY <1>1 DEF Devices, SameRing
    <2>2. b.scanning = FALSE
      BY <1>1 DEF Devices
    <2> HIDE DEF b
    <2>3. b.channel \in 1 .. LastChannel + 1
      BY <1>1, <1>3, <1>7, <2>1 DEF c
    <2> QED
      BY <1>1, <1>4, <1>9, <2>1, <2>2, <2>3, RestLink
  <1> HIDE DEF a, b
  <1> QED
    BY <1>2, <1>6, <1>7

\* connect: a new attempt, later than every key on its way.
LEMMA ConnectLink ==
    ASSUME Nic, NEW d, LinkOk(d), NEW a \in [ap : APs, password : BOOLEAN]
    PROVE  LinkOk(Connect(d, a))
  <1> DEFINE w == IF a.password THEN "WaitMsg1" ELSE d.wpa
             e == [d EXCEPT !.status = "Authenticating", !.iwl = "AuthSent",
                            !.required = a.password, !.keysIn = FALSE, !.keyEnd = NoEnd,
                            !.msg4 = FALSE, !.ip = 0, !.sess = d.sess + 1, !.wpa = w]
             f == Auth(a.ap)
  <1>1. Core(d) /\ d \in Devices /\ Handshake(d)
    BY DEF LinkOk, Core
  <1>2. d.sess \in Nat /\ d.sess + 1 \in Nat /\ 0 \in Nat /\ d.dhcpSess \in Nat
    BY <1>1, DeviceTypes
  <1>3. a.ap \in APs /\ a.password \in BOOLEAN
    OBVIOUS
  <1>4. w \in {"Initial", "WaitMsg1", "WaitMsg3", "WaitMsg4", "Done", "Error"}
    BY <1>1 DEF Devices
  <1>5. Attempt(d, a) = e
    BY <1>1 DEF Attempt, Devices
  <1> HIDE DEF w
  <1>6. e \in Devices
    BY Zenon, <1>1, <1>2, <1>3, <1>4, NoEndType DEF Devices
  <1>7. /\ SameRing(d, e) /\ e.sess = d.sess + 1 /\ e.ip = 0
        /\ e.dhcpSess = d.dhcpSess /\ e.keysIn = FALSE
        /\ e.keyEnd = NoEnd /\ e.msg4 = FALSE /\ e.channel = d.channel
        /\ e.scanning = d.scanning /\ e.status = "Authenticating"
    BY <1>1 DEF Devices, SameRing
  <1> HIDE DEF e
  <1>8. ASSUME NEW i \in 1 .. Len(e.log), e.log[i].k = "Key"
        PROVE  nicKeys.s <= e.log[i].s /\ e.log[i].s < e.sess /\ e.log[i].s <= e.sess
    <2>1. e.log = d.log /\ d.log[i] \in Frames
      BY <1>1, <1>7, <1>8, DeviceTypes DEF SameRing
    <2>2. d.log[i].s \in Nat
      BY SMTT(30), <1>8, <2>1, FrameFacts
    <2>3. nicKeys.s <= d.log[i].s /\ d.log[i].s <= d.sess
      BY <1>1, <1>8, <2>1 DEF Core, KeysInv
    <2> QED
      BY <1>2, <1>7, <2>1, <2>2, <2>3
  <1>9. nicKeys.s \in Nat /\ nicKeys.s < e.sess /\ nicKeys.s <= e.sess
    BY <1>1, <1>2, <1>7 DEF Core, KeysInv, Nic
  <1>10. KeysInv(e)
    <2>1. \A i, j \in 1 .. Len(e.log) :
            (i < j /\ e.log[i].k = "Key" /\ e.log[j].k = "Key") => e.log[i].s <= e.log[j].s
      BY SMTT(30), <1>1, <1>7 DEF Core, KeysInv, SameRing
    <2> QED
      BY <1>8, <1>9, <2>1 DEF KeysInv
  <1>11. Core(e)
    <2>1. RingInv(e) /\ FramesInv(e)
      BY SMTT(30), <1>1, <1>7, SameRingKeeps DEF Core
    <2>2. e.dhcpSess <= e.sess /\ e.ip <= e.sess
      BY <1>1, <1>2, <1>7 DEF Core, Leased
    <2>3. Leased(e)
      BY Zenon, <1>1, <1>7, <2>2 DEF Core, Leased
    <2> QED
      BY <1>6, <1>10, <2>1, <2>3 DEF Core
  <1>12. Handshake(e)
    BY Zenon, <1>7, <1>8, <1>9 DEF Handshake, NoKeysYet, KeysOnTheirWay, KeysInstalled, Reported
  <1>13. f \in Frames
    BY <1>3, FrameTypes
  <1>14. f.k # "Key" /\ Settled(f)
    BY DEF Auth, Settled, IsData
  <1> HIDE DEF f
  <1>15. LinkOk(SendRaw(e, f))
    BY <1>11, <1>12, <1>13, <1>14, SendRawLink DEF LinkOk
  <1>16. Connect(d, a) \in {d, SendRaw(e, f)}
    BY <1>5 DEF Connect, f
  <1> QED
    BY <1>15, <1>16

\* The interrupt: completions, then the frames that were waiting for them.
LEMMA UpdateTxTailLink ==
    ASSUME Nic, NEW d, LinkOk(d)
    PROVE  LinkOk(UpdateTxTail(d, nicPos % Slots))
  <1> DEFINE e == [d EXCEPT !.tail = nicPos]
             u == UpdateTxTail(d, nicPos % Slots)
  <1>1. Core(d) /\ d \in Devices /\ Handshake(d) /\ RingInv(d)
    BY DEF LinkOk, Core
  <1>2. u \in Devices /\ RingInv(u) /\ (u = d \/ u = e)
    BY <1>1, UpdateTxTailKeeps
  <1>3. /\ e.txq = d.txq /\ e.head = d.head /\ e.log = d.log
        /\ e.sess = d.sess /\ e.required = d.required /\ e.ip = d.ip
        /\ e.dhcpSess = d.dhcpSess /\ e.wpa = d.wpa /\ e.keysIn = d.keysIn
        /\ e.keyEnd = d.keyEnd /\ e.msg4 = d.msg4 /\ e.channel = d.channel
        /\ e.scanning = d.scanning /\ e.status = d.status
    BY <1>1 DEF Devices
  <1> HIDE DEF e, u
  <1>4. FramesInv(e) /\ KeysInv(e) /\ Leased(e)
    BY Zenon, <1>1, <1>3 DEF Core, FramesInv, KeysInv, Leased
  <1>5. Handshake(e)
    BY Zenon, <1>1, <1>3 DEF Handshake, NoKeysYet, KeysOnTheirWay, KeysInstalled, Reported
  <1>6. LinkOk(u)
    BY <1>1, <1>2, <1>4, <1>5 DEF LinkOk, Core
  <1> QED
    BY <1>6 DEF u

LEMMA ProcessTxQueueLink ==
    ASSUME Nic, NEW d, LinkOk(d)
    PROVE  LinkOk(ProcessTxQueue(d))
  <1> DEFINE e == ProcessTxQueue(d)
  <1>1. d \in Devices /\ Handshake(d) /\ RingInv(d) /\ FramesInv(d) /\ KeysInv(d) /\ Leased(d)
    BY DEF LinkOk, Core
  <1>2. e \in Devices /\ RingInv(e) /\ FramesInv(e) /\ OnlyQueued(d, e) /\ NoNewKeys(d, e)
    BY <1>1, ProcessTxQueueKeeps
  <1> HIDE DEF e
  <1>3. KeysInv(e)
    BY <1>1, <1>2, GrowsKeys
  <1>4. Leased(e) /\ Handshake(e)
    BY <1>1, <1>2, GrowsHandshake DEF Handshake
  <1> QED
    BY <1>2, <1>3, <1>4 DEF LinkOk, Core, e

=============================================================================
