----------------------------- MODULE WpaSupplicant -----------------------------
(***************************************************************************)
(* The WPA2 supplicant of the wireless stack: the four-way handshake with  *)
(* its keys, and the AES key unwrap that reads the group key. The two      *)
(* parts share no state.                                                   *)
(***************************************************************************)
EXTENDS Naturals, Sequences, FiniteSets

(***************************************************************************)
(* WpaKeys.  The WPA2 supplicant of bonder in detail: what it checks of    *)
(* EAPOL messages 1 and 3, the keys it derives, the group key it finds in  *)
(* message 3's key data, and the replay counter, against an access point   *)
(* that repeats its messages and a medium that loses, repeats and delays   *)
(* them.  A nonce is the number of the attempt that made it, a pairwise    *)
(* key the passphrase and the two nonces, and a MIC the key it was         *)
(* computed with.                                                          *)
(***************************************************************************)

CONSTANTS
    WkAttempts,  \* bound: connection attempts of the user
    WkSends,     \* bound: messages the access point sends in one attempt
    WkKeyData    \* key data an access point may send: sequences of <<KDE kind, fits>>

ASSUME WkAssumption == {WkAttempts, WkSends} \subseteq Nat

Passphrases == {"right", "wrong"}
NoKey == <<>>
PairwiseKey(pass, anonce, snonce) == <<pass, anonce, snonce>>

VARIABLES
    wk,        \* the WpaSupplicant
    wkAp,      \* the access point's side
    wkAir,     \* frames in the air, either way; taken late, again, or never
    wkAttempt, \* attempts so far
    wkTaken    \* history: replay counters of the messages 3 accepted in this attempt

wkVars == <<wk, wkAp, wkAir, wkAttempt, wkTaken>>

WkInit ==
    /\ wk = [state |-> "Initial", pass |-> "right", anonce |-> 0, snonce |-> 0, ptk |-> NoKey, gtk |-> 0, replay |-> 0]
    /\ wkAp = [anonce |-> 0, ptk |-> NoKey, replay |-> 0, sends |-> 0, gtk |-> 0]
    /\ wkAir = {} /\ wkAttempt = 0 /\ wkTaken = <<>>

\* WpaSupplicant::init, and the association that makes the access point start over.
InitSupplicant(pass) ==
    /\ wkAttempt < WkAttempts
    /\ wkAttempt' = wkAttempt + 1
    /\ wk' = [state |-> "WaitMsg1", pass |-> pass, anonce |-> 0, snonce |-> wkAttempt + 1, ptk |-> NoKey, gtk |-> 0, replay |-> 0]
    /\ wkAp' = [anonce |-> wkAttempt + 1, ptk |-> NoKey, replay |-> wkAp.replay, sends |-> 0, gtk |-> wkAttempt + 1]
    /\ wkTaken' = <<>>
    /\ UNCHANGED wkAir

\* The access point sends message 1, again when nobody answers, always with a larger counter.
SendMessage1 ==
    /\ wkAttempt > 0 /\ wkAp.ptk = NoKey /\ wkAp.sends < WkSends
    /\ wkAp' = [wkAp EXCEPT !.replay = @ + 1, !.sends = @ + 1]
    /\ wkAir' = wkAir \cup {[k |-> 1, replay |-> wkAp.replay + 1, anonce |-> wkAp.anonce, snonce |-> 0, mic |-> NoKey, gtk |-> 0, data |-> <<>>]}
    /\ UNCHANGED <<wk, wkAttempt, wkTaken>>

\* It checks message 2 against the counter of its last message 1 and derives the same key or none.
ReceiveMessage2 ==
    \E f \in wkAir :
        /\ f.k = 2 /\ f.replay = wkAp.replay /\ wkAp.ptk = NoKey
        /\ f.mic = PairwiseKey("right", wkAp.anonce, f.snonce)
        /\ wkAp' = [wkAp EXCEPT !.ptk = f.mic]
        /\ UNCHANGED <<wk, wkAir, wkAttempt, wkTaken>>

SendMessage3(data) ==
    /\ wkAp.ptk # NoKey /\ wkAp.sends < WkSends
    /\ wkAp' = [wkAp EXCEPT !.replay = @ + 1, !.sends = @ + 1]
    /\ wkAir' = wkAir \cup {[k |-> 3, replay |-> wkAp.replay + 1, anonce |-> wkAp.anonce, snonce |-> 0, mic |-> wkAp.ptk, gtk |-> wkAp.gtk, data |-> data]}
    /\ UNCHANGED <<wk, wkAttempt, wkTaken>>

-----------------------------------------------------------------------------

WkFailed == wk' = [wk EXCEPT !.state = "Error"] /\ UNCHANGED <<wkAp, wkAir, wkAttempt, wkTaken>>

\* derive_ptk: the smaller nonce goes first, so the order of the parties does not matter.
DerivePtk(f) == PairwiseKey(wk.pass, f.anonce, wk.snonce)

\* handle_message_1: the counter is taken over, and message 2 carries it back with a MIC.
HandleMessage1 ==
    \E f \in wkAir :
        /\ wk.state = "WaitMsg1"
        /\ IF f.k = 1
           THEN /\ wk' = [wk EXCEPT !.state = "WaitMsg3", !.anonce = f.anonce, !.ptk = DerivePtk(f), !.replay = f.replay]
                /\ wkAir' = wkAir \cup {[k |-> 2, replay |-> f.replay, anonce |-> 0, snonce |-> wk.snonce, mic |-> DerivePtk(f), gtk |-> 0, data |-> <<>>]}
                /\ UNCHANGED <<wkAp, wkAttempt, wkTaken>>
           ELSE f.k = 3 /\ WkFailed

\* The walk over the key data ends at the first element that does not fit or that holds the group
\* key g; a key of fewer than 16 bytes counts as none.
RECURSIVE GtkIn(_, _)
GtkIn(data, g) ==
    IF data = <<>> \/ ~Head(data)[2] THEN 0
    ELSE CASE Head(data)[1] = "gtk" -> g
           [] Head(data)[1] = "shortgtk" -> 0
           [] OTHER -> GtkIn(Tail(data), g)

MicHolds(f) == f.mic = wk.ptk
FreshKeys(f) == f.replay > wk.replay

\* Mutated form of Expects: message 3 is taken again after message 4.
ExpectsAgain == wk.state \in {"WaitMsg3", "WaitMsg4"}

Expects == wk.state = "WaitMsg3"

\* handle_message_3: descriptor and flags, MIC, counter, key data, in this order; only a whole
\* message moves on, but the counter of a message with bad key data is already taken.
HandleMessage3 ==
    \E f \in wkAir :
        /\ Expects /\ f.k \in {1, 3}
        /\ IF f.k # 3 \/ ~MicHolds(f) \/ ~FreshKeys(f) THEN WkFailed
           ELSE IF GtkIn(f.data, f.gtk) = 0
           THEN /\ wk' = [wk EXCEPT !.state = "Error", !.replay = f.replay]
                /\ UNCHANGED <<wkAp, wkAir, wkAttempt, wkTaken>>
           ELSE /\ wk' = [wk EXCEPT !.state = "WaitMsg4", !.gtk = GtkIn(f.data, f.gtk), !.replay = f.replay]
                /\ wkTaken' = Append(wkTaken, f.replay)
                /\ wkAir' = wkAir \cup {[k |-> 4, replay |-> f.replay, anonce |-> 0, snonce |-> 0, mic |-> wk.ptk, gtk |-> 0, data |-> <<>>]}
                /\ UNCHANGED <<wkAp, wkAttempt>>

\* complete_handshake, once the keys are installed.
CompleteHandshake ==
    /\ wk.state = "WaitMsg4"
    /\ wk' = [wk EXCEPT !.state = "Done"]
    /\ UNCHANGED <<wkAp, wkAir, wkAttempt, wkTaken>>

WkNext ==
    \/ \E pass \in Passphrases : InitSupplicant(pass)
    \/ SendMessage1 \/ ReceiveMessage2 \/ \E data \in WkKeyData : SendMessage3(data)
    \/ HandleMessage1 \/ HandleMessage3 \/ CompleteHandshake

WkSpec == WkInit /\ [][WkNext]_wkVars

-----------------------------------------------------------------------------

\* key_material: the keys the driver installs.
KeyMaterial == wk.state \in {"WaitMsg4", "Done"}

\* The supplicant's state, keys and counters stay in their types.
WkTypeInv ==
    /\ wk.state \in {"Initial", "WaitMsg1", "WaitMsg3", "WaitMsg4", "Done", "Error"}
    /\ wk.pass \in Passphrases /\ wkAttempt \in 0 .. WkAttempts /\ wkAp.sends \in 0 .. WkSends
    /\ wk.snonce \in 0 .. wkAttempt /\ wk.gtk \in 0 .. wkAttempt

\* The keys handed to the driver are the ones the access point uses in this attempt: the same
\* pairwise key, the current group key, and never with the wrong passphrase, whatever frames of
\* this or an earlier attempt are lost, repeated or late (handle_message_1, handle_message_3).
KeysAgree == KeyMaterial => wk.ptk = wkAp.ptk /\ wk.gtk = wkAp.gtk /\ wk.pass = "right"

\* The keys of an attempt are installed at most once: a repeated message 3 never makes the driver
\* install a key, and with it reset its packet numbers, a second time (the state test of handle_message_3).
InstalledOnce == Len(wkTaken) <= 1

(***************************************************************************)
(* KeyUnwrap.  The AES key unwrap by which the supplicant recovers the     *)
(* group key, written out in bonder from its two S-box tables up, checked  *)
(* against the forward cipher and the wrap of their standards:             *)
(* substitution computed in the field, rows shifted and columns mixed      *)
(* forwards.  The unwrap is run one block at a time.  Byte i of the code   *)
(* is element i + 1 here.                                                  *)
(***************************************************************************)

CONSTANTS
    KuCases,  \* <<key encryption key of 16 bytes, key data of n x 8 bytes>>
    KuFlips   \* positions of the wrapped data that the medium may change; 0 is none

Byte == 0 .. 255
Listed(s) == s \o <<>>
XorBit(a, b, k) == (2 ^ k) * (((a \div (2 ^ k)) + (b \div (2 ^ k))) % 2)
XorNibble(a, b) == XorBit(a, b, 0) + XorBit(a, b, 1) + XorBit(a, b, 2) + XorBit(a, b, 3)
XorTable == Listed([a \in 1 .. 16 |-> Listed([b \in 1 .. 16 |-> XorNibble(a - 1, b - 1)])])
XorByte(a, b) == 16 * XorTable[1 + (a \div 16)][1 + (b \div 16)] + XorTable[1 + (a % 16)][1 + (b % 16)]
XorSeq(s, t) == Listed([i \in 1 .. Len(s) |-> XorByte(s[i], t[i])])

AES_SBOX == <<
    99, 124, 119, 123, 242, 107, 111, 197, 48, 1, 103, 43, 254, 215, 171, 118, 202, 130, 201, 125, 250, 89, 71, 240, 173, 212, 162, 175, 156, 164, 114, 192,
    183, 253, 147, 38, 54, 63, 247, 204, 52, 165, 229, 241, 113, 216, 49, 21, 4, 199, 35, 195, 24, 150, 5, 154, 7, 18, 128, 226, 235, 39, 178, 117,
    9, 131, 44, 26, 27, 110, 90, 160, 82, 59, 214, 179, 41, 227, 47, 132, 83, 209, 0, 237, 32, 252, 177, 91, 106, 203, 190, 57, 74, 76, 88, 207,
    208, 239, 170, 251, 67, 77, 51, 133, 69, 249, 2, 127, 80, 60, 159, 168, 81, 163, 64, 143, 146, 157, 56, 245, 188, 182, 218, 33, 16, 255, 243, 210,
    205, 12, 19, 236, 95, 151, 68, 23, 196, 167, 126, 61, 100, 93, 25, 115, 96, 129, 79, 220, 34, 42, 144, 136, 70, 238, 184, 20, 222, 94, 11, 219,
    224, 50, 58, 10, 73, 6, 36, 92, 194, 211, 172, 98, 145, 149, 228, 121, 231, 200, 55, 109, 141, 213, 78, 169, 108, 86, 244, 234, 101, 122, 174, 8,
    186, 120, 37, 46, 28, 166, 180, 198, 232, 221, 116, 31, 75, 189, 139, 138, 112, 62, 181, 102, 72, 3, 246, 14, 97, 53, 87, 185, 134, 193, 29, 158,
    225, 248, 152, 17, 105, 217, 142, 148, 155, 30, 135, 233, 206, 85, 40, 223, 140, 161, 137, 13, 191, 230, 66, 104, 65, 153, 45, 15, 176, 84, 187, 22>>
AES_INV_SBOX == <<
    82, 9, 106, 213, 48, 54, 165, 56, 191, 64, 163, 158, 129, 243, 215, 251, 124, 227, 57, 130, 155, 47, 255, 135, 52, 142, 67, 68, 196, 222, 233, 203,
    84, 123, 148, 50, 166, 194, 35, 61, 238, 76, 149, 11, 66, 250, 195, 78, 8, 46, 161, 102, 40, 217, 36, 178, 118, 91, 162, 73, 109, 139, 209, 37,
    114, 248, 246, 100, 134, 104, 152, 22, 212, 164, 92, 204, 93, 101, 182, 146, 108, 112, 72, 80, 253, 237, 185, 218, 94, 21, 70, 87, 167, 141, 157, 132,
    144, 216, 171, 0, 140, 188, 211, 10, 247, 228, 88, 5, 184, 179, 69, 6, 208, 44, 30, 143, 202, 63, 15, 2, 193, 175, 189, 3, 1, 19, 138, 107,
    58, 145, 17, 65, 79, 103, 220, 234, 151, 242, 207, 206, 240, 180, 230, 115, 150, 172, 116, 34, 231, 173, 53, 133, 226, 249, 55, 232, 28, 117, 223, 110,
    71, 241, 26, 113, 29, 41, 197, 137, 111, 183, 98, 14, 170, 24, 190, 27, 252, 86, 62, 75, 198, 210, 121, 32, 154, 219, 192, 254, 120, 205, 90, 244,
    31, 221, 168, 51, 136, 7, 199, 49, 177, 18, 16, 89, 39, 128, 236, 95, 96, 81, 127, 169, 25, 181, 74, 13, 45, 229, 122, 159, 147, 201, 156, 239,
    160, 224, 59, 77, 174, 42, 245, 176, 200, 235, 187, 60, 131, 83, 153, 97, 23, 43, 4, 126, 186, 119, 214, 38, 225, 105, 20, 99, 85, 33, 12, 125>>

\* gf_mul: a doubled for every bit of b, reduced when it leaves the byte.
Double(a) == IF a < 128 THEN 2 * a ELSE XorByte((2 * a) % 256, 27)
GfProduct[a \in Byte, b \in Byte] ==
    IF b = 0 THEN 0 ELSE XorByte(IF b % 2 = 1 THEN a ELSE 0, GfProduct[Double(a), b \div 2])
GfMul(a, b) == GfProduct[a, b]
Times == Listed([c \in 1 .. 14 |-> Listed([a \in 1 .. 256 |-> GfMul(a - 1, c)])])

AddRoundKey(s, k) == XorSeq(s, k)
InvSubBytes(s) == Listed([i \in 1 .. 16 |-> AES_INV_SBOX[s[i] + 1]])
InvShiftRows(s) == Listed([i \in 1 .. 16 |-> s[<<0, 13, 10, 7, 4, 1, 14, 11, 8, 5, 2, 15, 12, 9, 6, 3>>[i] + 1]])
MixedWith(s, c, i) ==
    LET col == 4 * ((i - 1) \div 4)
        row == (i - 1) % 4
        at(k) == s[col + ((row + k) % 4) + 1]
    IN  XorByte(XorByte(c[1][at(0) + 1], c[2][at(1) + 1]), XorByte(c[3][at(2) + 1], c[4][at(3) + 1]))
InvMixColumns(s) == Listed([i \in 1 .. 16 |-> MixedWith(s, <<Times[14], Times[11], Times[13], Times[9]>>, i)])

\* aes_key_expansion: a round key from the previous one, word by word.
Rcon == <<1, 2, 4, 8, 16, 32, 64, 128, 27, 54>>
NextRoundKey(prev, round, sbox) ==
    LET word(w) == SubSeq(prev, 4 * w + 1, 4 * w + 4)
        turned == <<sbox[prev[14] + 1], sbox[prev[15] + 1], sbox[prev[16] + 1], sbox[prev[13] + 1]>>
        w0 == XorSeq(word(0), <<XorByte(turned[1], Rcon[round]), turned[2], turned[3], turned[4]>>)
        w1 == XorSeq(word(1), w0)
        w2 == XorSeq(word(2), w1)
    IN  w0 \o w1 \o w2 \o XorSeq(word(3), w2)

\* One round of aes_decrypt_block with its round key; the last has no column mixing.
InvRound(s, key, last) ==
    LET t == AddRoundKey(InvSubBytes(InvShiftRows(s)), key) IN IF last THEN t ELSE InvMixColumns(t)

-----------------------------------------------------------------------------
(***************************************************************************)
(* The references: the substitution is the field inverse and an affine map; the   *)
(* cipher and the wrap go forwards.                                               *)
(***************************************************************************)
\* a ^ 254, by way of a ^ 2, a ^ 3 and a ^ 15.
Squared == Listed([a \in 1 .. 256 |-> GfMul(a - 1, a - 1)])
TwiceSquared(v) == Squared[Squared[v + 1] + 1]
Cubed == Listed([a \in 1 .. 256 |-> GfMul(Squared[a], a - 1)])
Fifteenth == Listed([a \in 1 .. 256 |-> GfMul(Cubed[a], TwiceSquared(Cubed[a]))])
GfInverses ==
    Listed([a \in 1 .. 256 |->
        GfMul(GfMul(TwiceSquared(TwiceSquared(Fifteenth[a])), TwiceSquared(Cubed[a])), Squared[a])])
Rotated(a, n) == ((a * (2 ^ n)) % 256) + (a \div (2 ^ (8 - n)))
Substitution ==
    Listed([i \in 1 .. 256 |->
        LET v == GfInverses[i]
        IN  XorByte(XorByte(XorByte(v, Rotated(v, 1)), XorByte(Rotated(v, 2), Rotated(v, 3))), XorByte(Rotated(v, 4), 99))])
ShiftRows(s) == Listed([i \in 1 .. 16 |-> s[((i - 1 + 4 * ((i - 1) % 4)) % 16) + 1]])
MixColumns(s) == Listed([i \in 1 .. 16 |-> MixedWith(s, <<Times[2], Times[3], Times[1], Times[1]>>, i)])
CipherRound(s, key, last) ==
    LET t == ShiftRows(Listed([i \in 1 .. 16 |-> Substitution[s[i] + 1]]))
    IN  XorSeq(IF last THEN t ELSE MixColumns(t), key)

Iv == Listed([i \in 1 .. 8 |-> 166])
BlockOf(r, i) == SubSeq(r, 8 * i + 1, 8 * i + 8)
WithBlock(r, i, b) == SubSeq(r, 1, 8 * i) \o b \o SubSeq(r, 8 * i + 9, Len(r))
WithCounter(a, t) == [a EXCEPT ![8] = XorByte(@, t)]
-----------------------------------------------------------------------------

VARIABLES
    kuCase,   \* the key and the data to wrap
    kuKeys,   \* round keys of the code and of the standard
    kuTrace,  \* the wrap's values <<a, r>>, before and after each of its 6n steps
    kuFlip,   \* the byte that was changed on the way
    kuA,      \* a
    kuR,      \* r
    kuT,      \* wrap: steps done; unwrap: steps left, the pair (j, i) of the loops as n * j + i + 1
    kuBlock,  \* the block in the cipher
    kuRound,  \* the round it is in, 0 outside the cipher
    kuOut     \* "keys", "wrapping", "running", "error" or "ok"

kuVars == <<kuCase, kuKeys, kuTrace, kuFlip, kuA, kuR, kuT, kuBlock, kuRound, kuOut>>

Blocks(data) == Len(data) \div 8

KuInit ==
    /\ kuCase \in KuCases
    /\ kuKeys = [code |-> <<kuCase[1]>>, standard |-> <<kuCase[1]>>]
    /\ kuTrace = << <<Iv, kuCase[2]>> >> /\ kuFlip = 0
    /\ kuA = Iv /\ kuR = kuCase[2] /\ kuT = 0 /\ kuBlock = <<>> /\ kuRound = 0 /\ kuOut = "keys"

ExpandKey ==
    /\ kuOut = "keys"
    /\ LET n == Len(kuKeys.code) IN
       IF n = 11 THEN kuOut' = "wrapping" /\ UNCHANGED kuKeys
       ELSE /\ kuKeys' = [code |-> Append(kuKeys.code, NextRoundKey(kuKeys.code[n], n, AES_SBOX)),
                          standard |-> Append(kuKeys.standard, NextRoundKey(kuKeys.standard[n], n, Substitution))]
            /\ UNCHANGED kuOut
    /\ UNCHANGED <<kuCase, kuTrace, kuFlip, kuA, kuR, kuT, kuBlock, kuRound>>

\* The access point's wrap: a block enters the cipher, goes through its rounds and comes out.
WrapStep ==
    /\ kuOut = "wrapping" /\ kuT < 6 * Blocks(kuR)
    /\ LET i == kuT % Blocks(kuR)
           a == WithCounter(SubSeq(kuBlock, 1, 8), kuT + 1)
           r == WithBlock(kuR, i, SubSeq(kuBlock, 9, 16))
       IN \/ /\ kuRound = 0
             /\ kuBlock' = XorSeq(kuA \o BlockOf(kuR, i), kuKeys.standard[1])
             /\ kuRound' = 1
             /\ UNCHANGED <<kuA, kuR, kuTrace, kuT>>
          \/ /\ kuRound \in 1 .. 10
             /\ kuBlock' = CipherRound(kuBlock, kuKeys.standard[kuRound + 1], kuRound = 10)
             /\ kuRound' = kuRound + 1
             /\ UNCHANGED <<kuA, kuR, kuTrace, kuT>>
          \/ /\ kuRound = 11
             /\ kuA' = a /\ kuR' = r /\ kuTrace' = Append(kuTrace, <<a, r>>)
             /\ kuT' = kuT + 1 /\ kuRound' = 0 /\ kuBlock' = <<>>
    /\ UNCHANGED <<kuCase, kuKeys, kuFlip, kuOut>>

\* aes_key_unwrap takes the first eight bytes as a and the rest as r.
ReceiveMessage(flip) ==
    /\ kuOut = "wrapping" /\ kuT = 6 * Blocks(kuR)
    /\ LET c == kuA \o kuR
           d == IF flip = 0 THEN c ELSE [c EXCEPT ![flip] = (@ + 1) % 256]
       IN  kuA' = SubSeq(d, 1, 8) /\ kuR' = SubSeq(d, 9, Len(d))
    /\ kuFlip' = flip /\ kuOut' = "running"
    /\ UNCHANGED <<kuCase, kuKeys, kuTrace, kuT, kuBlock, kuRound>>

\* One step of the double loop, its block going backwards through the rounds.
UnwrapStep ==
    /\ kuOut = "running" /\ kuT > 0
    /\ LET i == (kuT - 1) % Blocks(kuR)
       IN \/ /\ kuRound = 0
             /\ kuBlock' = AddRoundKey(WithCounter(kuA, kuT) \o BlockOf(kuR, i), kuKeys.code[11])
             /\ kuRound' = 10
             /\ UNCHANGED <<kuA, kuR, kuT>>
          \/ /\ kuRound \in 1 .. 10 /\ kuT > 0
             /\ LET b == InvRound(kuBlock, kuKeys.code[kuRound], kuRound = 1) IN
                IF kuRound > 1 THEN kuBlock' = b /\ kuRound' = kuRound - 1 /\ UNCHANGED <<kuA, kuR, kuT>>
                ELSE /\ kuA' = SubSeq(b, 1, 8) /\ kuR' = WithBlock(kuR, i, SubSeq(b, 9, 16))
                     /\ kuT' = kuT - 1 /\ kuBlock' = <<>> /\ kuRound' = 0
    /\ UNCHANGED <<kuCase, kuKeys, kuTrace, kuFlip, kuOut>>

\* The integrity check on the initial value.
Intact(a) == a = Iv
UnwrapDone ==
    /\ kuOut = "running" /\ kuT = 0
    /\ kuOut' = IF Intact(kuA) THEN "ok" ELSE "error"
    /\ UNCHANGED <<kuCase, kuKeys, kuTrace, kuFlip, kuA, kuR, kuT, kuBlock, kuRound>>

KuNext == ExpandKey \/ WrapStep \/ (\E flip \in KuFlips : ReceiveMessage(flip)) \/ UnwrapStep \/ UnwrapDone
KuSpec == KuInit /\ [][KuNext]_kuVars

-----------------------------------------------------------------------------

\* Blocks and checks are bytes.
KuTypeInv ==
    /\ kuA \in [1 .. 8 -> Byte] /\ kuR \in [1 .. Len(kuCase[2]) -> Byte] /\ kuRound \in 0 .. 11
    /\ kuOut \in {"keys", "wrapping", "running", "ok", "error"}

\* The unwrap of untouched data goes back through every intermediate value of the wrap: the tables,
\* the key schedule, each inverse layer and the step counter undo the standard's (aes_decrypt_block).
RetracesWrap == kuOut \notin {"keys", "wrapping"} /\ kuFlip = 0 => <<kuA, kuR>> = kuTrace[kuT + 1]

\* Data changed on the way is refused, and only then (the check of the initial value).
ChangesRefused == (kuOut = "ok" => kuFlip = 0) /\ (kuOut = "error" => kuFlip # 0)

--------------------------------------------------------------------------------
\* The handshake ends with the keys of the access point, installed once, and a wrapped key is
\* accepted only unchanged.
SupplicantSound ==
    /\ WkTypeInv /\ KeysAgree /\ InstalledOnce
    /\ KuTypeInv /\ RetracesWrap /\ ChangesRefused
================================================================================
