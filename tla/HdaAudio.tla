------------------------------- MODULE HdaAudio --------------------------------
(***************************************************************************)
(* Sound output (nitrogen hda and the kernel's PCM path): verbs through    *)
(* CORB and RIRB, the route from a pin to a converter, the double-buffered *)
(* stream and the conversion of samples. The four parts share no state.    *)
(***************************************************************************)
EXTENDS Integers, Sequences, FiniteSets, SequencesExt

(***************************************************************************)
(* HdaCorb.  The verb engine of the HDA controller: commands go through a  *)
(* ring that the controller reads (CORB), answers come back through a ring *)
(* that it writes (RIRB), mixed with unsolicited responses, and both waits *)
(* of the driver are bounded.  A command is the number of the verb, an     *)
(* answer the verb it answers.                                             *)
(***************************************************************************)

CONSTANTS
    HcRing,     \* entries of each ring, a power of two (2, 16 or 256)
    HcVerbs,    \* bound: verbs sent
    HcUnsol     \* bound: unsolicited responses

ASSUME HcAssumption == HcRing \in Nat \ {0, 1} /\ HcVerbs \in Nat /\ HcUnsol \in Nat

VARIABLES
    hcCorb,     \* slot -> command
    hcWp, hcRp, \* CORBWP and CORBRP
    hcRirb,     \* slot -> answer
    hcRirbWp,   \* RIRBWP
    hcPc,       \* send_verb: "idle", "space", "sent"
    hcVerb,     \* the verb being sent, or the last one
    hcScan,     \* send_verb's own place in the RIRB
    hcGot,      \* what the last finished verb returned: a verb, or HcNoAnswer
    hcUnsol,    \* unsolicited responses so far
    hcSent,     \* history: the verbs put in the CORB
    hcSeen,     \* history: the verbs the codec carried out
    hcOpen,     \* history: the verbs in the CORB when the last one was written, the oldest first
    hcLapped    \* history: since then RIRBWP has gone once round the ring past hcScan

hcVars == <<hcCorb, hcWp, hcRp, hcRirb, hcRirbWp, hcPc, hcVerb, hcScan, hcGot, hcUnsol, hcSent, hcSeen, hcOpen, hcLapped>>
hcRings == <<hcCorb, hcWp, hcRp, hcRirb, hcRirbWp>>

HcSlots == 0 .. HcRing - 1
HcNoAnswer == 0
HcUnsolicited == -1

\* CorbEngine::init: both pointers are reset, both engines run.
HcInit ==
    /\ hcCorb = [i \in HcSlots |-> 0] /\ hcRirb = [i \in HcSlots |-> 0]
    /\ hcWp = 0 /\ hcRp = 0 /\ hcRirbWp = 0
    /\ hcPc = "idle" /\ hcVerb = 0 /\ hcScan = 0 /\ hcGot = HcNoAnswer /\ hcUnsol = 0
    /\ hcSent = <<>> /\ hcSeen = <<>> /\ hcOpen = <<>> /\ hcLapped = FALSE

StartVerb ==
    /\ hcPc = "idle" /\ hcVerb < HcVerbs
    /\ hcPc' = "space" /\ hcVerb' = hcVerb + 1 /\ hcGot' = HcNoAnswer
    /\ UNCHANGED <<hcRings, hcScan, hcUnsol, hcSent, hcSeen, hcOpen, hcLapped>>

HasSpace == (hcWp + 1) % HcRing # hcRp

\* The ring has room: the place in the RIRB is noted, the command written, then CORBWP.
WriteVerb ==
    /\ hcPc = "space" /\ HasSpace
    /\ hcScan' = hcRirbWp
    /\ LET next == (hcWp + 1) % HcRing IN hcCorb' = [hcCorb EXCEPT ![next] = hcVerb] /\ hcWp' = next
    /\ hcPc' = "sent" /\ hcSent' = Append(hcSent, hcVerb)
    /\ hcOpen' = SubSeq(hcSent', Len(hcSeen) + 1, Len(hcSent')) /\ hcLapped' = FALSE
    /\ UNCHANGED <<hcRp, hcRirb, hcRirbWp, hcVerb, hcGot, hcUnsol, hcSeen>>

\* No room within 1 ms: the verb is not sent.
NoSpace ==
    /\ hcPc = "space" /\ ~HasSpace
    /\ hcPc' = "idle"
    /\ UNCHANGED <<hcRings, hcVerb, hcScan, hcGot, hcUnsol, hcSent, hcSeen, hcOpen, hcLapped>>

HcNewEntries == {(hcScan + k) % HcRing : k \in 1 .. (hcRirbWp - hcScan) % HcRing}


\* Unsolicited responses are passed over.
CorbAccepts(i) == hcRirb[i] # HcUnsolicited

\* One turn of the 100 ms poll: the entries up to RIRBWP are walked, the first solicited one is the answer.
HcDistance(i) == (i - hcScan) % HcRing
PollAnswer ==
    /\ hcPc = "sent" /\ hcScan # hcRirbWp
    /\ LET ok == {i \in HcNewEntries : CorbAccepts(i)} IN
       IF ok = {} THEN hcScan' = hcRirbWp /\ UNCHANGED <<hcPc, hcGot>>
       ELSE LET i == CHOOSE j \in ok : \A k \in ok : HcDistance(j) <= HcDistance(k) IN
            hcScan' = i /\ hcGot' = hcRirb[i] /\ hcPc' = "idle"
    /\ UNCHANGED <<hcRings, hcVerb, hcUnsol, hcSent, hcSeen, hcOpen, hcLapped>>

\* 100 ms without an answer: 0xFFFF_FFFF, and the command stays in the ring.
AnswerTimeout ==
    /\ hcPc = "sent" /\ hcPc' = "idle"
    /\ UNCHANGED <<hcRings, hcVerb, hcScan, hcGot, hcUnsol, hcSent, hcSeen, hcOpen, hcLapped>>

\* The controller writes a response.
Respond(response) ==
    LET slot == (hcRirbWp + 1) % HcRing IN
    /\ hcRirb' = [hcRirb EXCEPT ![slot] = response] /\ hcRirbWp' = slot
    /\ hcLapped' = (hcLapped \/ slot = hcScan)

\* It hands the next command to the codec and writes its answer.
CodecAnswers ==
    /\ hcRp # hcWp
    /\ LET next == (hcRp + 1) % HcRing IN
       hcRp' = next /\ hcSeen' = Append(hcSeen, hcCorb[next]) /\ Respond(hcCorb[next])
    /\ UNCHANGED <<hcCorb, hcWp, hcPc, hcVerb, hcScan, hcGot, hcUnsol, hcSent, hcOpen>>

\* A jack is plugged, or the like.
Unsolicited ==
    /\ hcUnsol < HcUnsol /\ hcUnsol' = hcUnsol + 1
    /\ Respond(HcUnsolicited)
    /\ UNCHANGED <<hcCorb, hcWp, hcRp, hcPc, hcVerb, hcScan, hcGot, hcSent, hcSeen, hcOpen>>

HcNext == StartVerb \/ WriteVerb \/ NoSpace \/ PollAnswer \/ AnswerTimeout \/ CodecAnswers \/ Unsolicited

HcTypeInv ==
    /\ {hcWp, hcRp, hcRirbWp, hcScan} \subseteq HcSlots
    /\ hcPc \in {"idle", "space", "sent"} /\ hcVerb \in 0 .. HcVerbs /\ hcUnsol \in 0 .. HcUnsol

\* What send_verb returns is an answer that no verb has returned before: the one to the oldest verb
\* that was still in the CORB when its own was written. That is its own verb when every earlier one
\* had been answered by then, given up or not; otherwise it is the late answer of an earlier verb,
\* which send_verb cannot tell from its own, and each verb after it gets the answer of the one
\* before until the codec has caught up. Unsolicited responses in between change nothing, unless
\* the controller goes once round the RIRB before the driver looks: then an answer is skipped.
AnswerInTurn ==
    hcPc = "idle" /\ hcGot # HcNoAnswer =>
        /\ hcGot \in ToSet(hcOpen)
        /\ ~hcLapped => hcGot = Head(hcOpen)

\* The codec carries out the commands in the order they were sent and misses none, also when the
\* driver gives up on answers and commands pile up in the ring.
VerbsInOrder == hcSeen = SubSeq(hcSent, 1, Len(hcSeen))

(***************************************************************************)
(* HdaRoute.  Bringing up an HDA controller: reset, verb rings, the walk   *)
(* over the codec's widgets, the choice of a DAC and an output pin, the    *)
(* verbs that join them, and the output stream.  Any wait may time out and *)
(* any verb may go unanswered; a verb that only sets something is carried  *)
(* out even when its answer is lost. Gains, formats and power states are   *)
(* left out.                                                               *)
(***************************************************************************)

CONSTANTS
    HrCodecs    \* codecs to try: node -> [type, digital, out, eapd, plugged, conns]

VARIABLES
    hrCodec,    \* the codec that is there
    hrPc,       \* "off", "reset", "rings", "afg", "list", "route", "conns", "output", "stream", "ready", "failed"
    hrTried,    \* AudioContext::init_done
    hrNode,     \* next node to list
    hrWidgets,  \* CodecGraph::widgets
    hrDac, hrPin, \* the route chosen, 0 for none
    hrSel,      \* connection selected at the pin: its place in the codec's list, 0 for none
    hrOpen,     \* <<mixer, input>> that was unmuted
    hrOn,       \* OUT_EN of the pin was set
    hrLost      \* history: nodes one of whose connection entries went unanswered

hrVars == <<hrCodec, hrPc, hrTried, hrNode, hrWidgets, hrDac, hrPin, hrSel, hrOpen, hrOn, hrLost>>
hrResult == <<hrDac, hrPin, hrSel, hrOpen, hrOn>>

HrInit ==
    /\ hrCodec \in HrCodecs
    /\ hrPc = "off" /\ hrTried = FALSE /\ hrNode = 1 /\ hrWidgets = <<>>
    /\ hrDac = 0 /\ hrPin = 0 /\ hrSel = 0 /\ hrOpen = <<0, 0>> /\ hrOn = FALSE /\ hrLost = {}

\* lazy_init: one attempt for ever.
LazyInit ==
    /\ ~hrTried /\ hrTried' = TRUE
    /\ \E ok \in BOOLEAN : hrPc' = IF ok THEN "reset" ELSE "failed"  \* alloc_dma
    /\ UNCHANGED <<hrCodec, hrNode, hrWidgets, hrResult, hrLost>>

\* GCAP, the CRST cycle, the output streams; a codec that does not show up is no reason to stop.
ControllerReset ==
    /\ hrPc = "reset"
    /\ \E ok \in BOOLEAN : hrPc' = IF ok THEN "rings" ELSE "failed"
    /\ UNCHANGED <<hrCodec, hrTried, hrNode, hrWidgets, hrResult, hrLost>>

\* CorbEngine::init refuses memory above 4 GiB for a 32-bit controller.
StartRings ==
    /\ hrPc = "rings"
    /\ hrPc' \in {"failed", "afg"}
    /\ UNCHANGED <<hrCodec, hrTried, hrNode, hrWidgets, hrResult, hrLost>>

\* The audio function group is looked for among the root's nodes; with none, or no answer, the
\* graph stays empty.
FindAfg ==
    /\ hrPc = "afg"
    /\ hrPc' \in {"list", "route"}
    /\ UNCHANGED <<hrCodec, hrTried, hrNode, hrWidgets, hrResult, hrLost>>

\* One turn of the loop over the AFG's nodes: a node that does not answer is passed over, a
\* connection entry that is not answered is left out of the list.
HeardConns(n, heard) ==
    LET c == hrCodec[n].conns IN
    [k \in 1 .. Cardinality(heard) |-> c[SetToSortSeq(heard, <)[k]]]

ListWidget ==
    /\ hrPc = "list" /\ hrNode \in DOMAIN hrCodec
    /\ \/ UNCHANGED <<hrWidgets, hrLost>>
       \/ \E heard \in SUBSET DOMAIN hrCodec[hrNode].conns :
             /\ hrWidgets' = Append(hrWidgets, [id |-> hrNode, conns |-> HeardConns(hrNode, heard)])
             /\ hrLost' = IF heard = DOMAIN hrCodec[hrNode].conns THEN hrLost ELSE hrLost \cup {hrNode}
    /\ hrNode' = hrNode + 1
    /\ UNCHANGED <<hrCodec, hrPc, hrTried, hrResult>>

ListDone ==
    /\ hrPc = "list" /\ hrNode \notin DOMAIN hrCodec
    /\ hrPc' = "route"
    /\ UNCHANGED <<hrCodec, hrTried, hrNode, hrWidgets, hrResult, hrLost>>

(***************************************************************************)
(* RouteFinder.                                                            *)
(***************************************************************************)
HrListed == {hrWidgets[i].id : i \in DOMAIN hrWidgets}
HrConns(n) == LET i == CHOOSE j \in DOMAIN hrWidgets : hrWidgets[j].id = n IN hrWidgets[i].conns
HrDacs == {n \in HrListed : hrCodec[n].type = "dac" /\ ~hrCodec[n].digital}

\* The order of preference: plugged before unplugged, then an EAPD pin before one without.
PinScore(n) == 1 + (IF hrCodec[n].plugged THEN 2 ELSE 0) + (IF hrCodec[n].eapd THEN 1 ELSE 0)

HrPins == SelectSeq([i \in DOMAIN hrWidgets |-> hrWidgets[i].id],
                    LAMBDA n : hrCodec[n].type = "pin" /\ hrCodec[n].out)

\* The loop keeps the first pin of the best score.
BetterPath(best, n) == IF best = 0 \/ PinScore(n) > PinScore(best) THEN n ELSE best

BestPin == FoldLeft(BetterPath, 0, HrPins)

\* find_speaker_route: the last analog DAC and the best pin, if there are both.
FindRoute ==
    /\ hrPc = "route"
    /\ IF HrDacs # {} /\ BestPin # 0
       THEN hrDac' = Max(HrDacs) /\ hrPin' = BestPin /\ hrPc' = "conns"
       ELSE UNCHANGED <<hrDac, hrPin>> /\ hrPc' = "stream"
    /\ UNCHANGED <<hrCodec, hrTried, hrNode, hrWidgets, hrSel, hrOpen, hrOn, hrLost>>

\* The connections of the pin through which the DAC is reached, as the graph knows them: the DAC
\* itself, or a mixer that lists it.
Leads(c) == \/ c = hrDac
            \/ c \in HrListed /\ hrCodec[c].type = "mixer" /\ hrDac \in ToSet(HrConns(c))
MinIndex(s, P(_)) == Min({i \in DOMAIN s : P(s[i])})

\* configure_route's loop over the pin's connections: the first one that leads to the DAC is
\* selected, and at a mixer the input of the DAC is unmuted.
MixerInput(c) == MinIndex(HrConns(c), LAMBDA x : x = hrDac)

RouteThrough ==
    /\ hrPc = "conns" /\ hrPc' = "output"
    /\ LET cs == HrConns(hrPin) IN
       IF \E i \in DOMAIN cs : Leads(cs[i])
       THEN LET i == MinIndex(cs, Leads) IN
            /\ hrSel' = i
            /\ hrOpen' = IF cs[i] = hrDac THEN hrOpen ELSE <<cs[i], MixerInput(cs[i])>>
       ELSE UNCHANGED <<hrSel, hrOpen>>
    /\ UNCHANGED <<hrCodec, hrTried, hrNode, hrWidgets, hrDac, hrPin, hrOn, hrLost>>

EnableOutput ==
    /\ hrPc = "output" /\ hrPc' = "stream" /\ hrOn' = TRUE
    /\ UNCHANGED <<hrCodec, hrTried, hrNode, hrWidgets, hrDac, hrPin, hrSel, hrOpen, hrLost>>

\* DmaEngine::init may give up in the stream reset; the controller is ready all the same.
StartStream ==
    /\ hrPc = "stream" /\ hrPc' = "ready"
    /\ UNCHANGED <<hrCodec, hrTried, hrNode, hrWidgets, hrResult, hrLost>>

HrNext ==
    \/ LazyInit \/ ControllerReset \/ StartRings \/ FindAfg \/ ListWidget \/ ListDone
    \/ FindRoute \/ RouteThrough \/ EnableOutput \/ StartStream

(***************************************************************************)
(* Properties.                                                             *)
(***************************************************************************)
HrTypeInv ==
    /\ hrTried \in BOOLEAN /\ hrOn \in BOOLEAN
    /\ hrPin \in 0 .. Len(hrCodec) /\ hrDac \in 0 .. Len(hrCodec) /\ HrListed \subseteq DOMAIN hrCodec

\* Where the codec really takes the pin's sound from.
HrSource ==
    LET c == hrCodec[hrPin].conns[hrSel] IN
    IF hrCodec[c].type = "mixer" /\ hrOpen[1] = c THEN hrCodec[c].conns[hrOpen[2]] ELSE c

\* When the walk got every connection entry of the pin and of the mixer on the way, the places it
\* selects there are the codec's own, and the pin is fed by the DAC that the stream is sent to.
RouteLeadsToDac ==
    (hrOn /\ hrSel # 0 /\ hrPin \notin hrLost /\ hrOpen[1] \notin hrLost) => HrSource = hrDac

\* The pin that is switched on can play, and no other pin that was listed has a better claim.
PinIsBest ==
    hrPin # 0 =>
       /\ hrCodec[hrPin].out /\ hrCodec[hrPin].type = "pin"
       /\ \A n \in ToSet(HrPins) : PinScore(n) <= PinScore(hrPin)

(***************************************************************************)
(* HdaPlayback.  Feeding an HDA output stream: the hardware plays a buffer *)
(* of two halves in a circle and raises BCIS at the end of each half;      *)
(* feed_samples reads the position, then the status, and copies one half   *)
(* of samples.  The hardware moves on between those steps.  A block of     *)
(* samples is its number.                                                  *)
(***************************************************************************)

CONSTANTS
    HpHalf,     \* positions in a half
    HpBlocks    \* bound: blocks fed

ASSUME HpAssumption == HpHalf \in Nat \ {0} /\ HpBlocks \in Nat

VARIABLES
    hpLpib,     \* SD_LPIB
    hpBcis,     \* the BCIS bit of SD_STS
    hpBuf,      \* half -> block in it, 0 for silence
    hpLast,     \* last_lpib
    hpPc,       \* feed_samples: "idle", "status", "copy"
    hpRead,     \* the LPIB it read
    hpFed,      \* blocks written so far
    hpCrossed,  \* history: halves entered since the position was read; 2 stands for more, too
    hpSince,    \* history: one was entered since the position of the last feed that was accepted,
                \* or the buffer was prefilled
    hpHeard     \* history: half -> whether the stream has been in it since its block was copied:
                \* "yes", "no", or "blind" when the block was copied without a view of the position

hpVars == <<hpLpib, hpBcis, hpBuf, hpLast, hpPc, hpRead, hpFed, hpCrossed, hpSince, hpHeard>>

HpHalfOf(pos) == pos \div HpHalf

\* DmaEngine::init has started the stream over a zeroed buffer.
HpInit ==
    /\ hpLpib = 0 /\ hpBcis = FALSE /\ hpBuf = [h \in 0 .. 1 |-> 0] /\ hpLast = 0
    /\ hpPc = "idle" /\ hpRead = 0 /\ hpFed = 0 /\ hpCrossed = 0 /\ hpSince = FALSE
    /\ hpHeard = [h \in 0 .. 1 |-> "yes"]

\* The stream moves on by one position.
Play ==
    /\ hpLpib' = (hpLpib + 1) % (2 * HpHalf)
    /\ LET over == HpHalfOf(hpLpib') # HpHalfOf(hpLpib) IN
       /\ hpBcis' = (hpBcis \/ over) /\ hpSince' = (hpSince \/ over)
       /\ hpCrossed' = IF over /\ hpCrossed < 2 THEN hpCrossed + 1 ELSE hpCrossed
    /\ hpHeard' = [hpHeard EXCEPT ![HpHalfOf(hpLpib')] = "yes"]
    /\ UNCHANGED <<hpBuf, hpLast, hpPc, hpRead, hpFed>>

\* write_at for both halves, then reset_prefill_tracking.
Prefill ==
    /\ hpPc = "idle" /\ hpFed = 0 /\ HpBlocks >= 2
    /\ hpBuf' = [h \in 0 .. 1 |-> h + 1] /\ hpFed' = 2 /\ hpLast' = 0
    /\ hpHeard' = [h \in 0 .. 1 |-> "blind"] /\ hpSince' = TRUE
    /\ UNCHANGED <<hpLpib, hpBcis, hpPc, hpRead, hpCrossed>>

FeedReads ==
    /\ hpPc = "idle" /\ hpFed < HpBlocks
    /\ hpPc' = "status" /\ hpRead' = hpLpib /\ hpCrossed' = 0
    /\ UNCHANGED <<hpLpib, hpBcis, hpBuf, hpLast, hpFed, hpSince, hpHeard>>

\* lpib_raw.wrapping_sub(last_raw) >= half: a position before the last one counts as far ahead.
FarAhead == hpRead < hpLast \/ hpRead - hpLast >= HpHalf

\* Mutated form of Crossed: every call feeds.
CrossedAlways == TRUE

Crossed == FarAhead \/ hpBcis

\* The status is read and BCIS cleared; without a finished half there is nothing to do, and
\* without samples nothing but to note the position.
FeedStatus ==
    /\ hpPc = "status"
    /\ hpBcis' = FALSE
    /\ IF Crossed THEN hpLast' = hpRead /\ hpPc' \in {"copy", "idle"} /\ hpSince' = (hpCrossed > 0)
       ELSE hpPc' = "idle" /\ UNCHANGED <<hpLast, hpSince>>
    /\ UNCHANGED <<hpLpib, hpBuf, hpRead, hpFed, hpCrossed, hpHeard>>

SafeHalf == 1 - HpHalfOf(hpRead)

FeedCopies ==
    /\ hpPc = "copy" /\ hpPc' = "idle"
    /\ hpBuf' = [hpBuf EXCEPT ![SafeHalf] = hpFed + 1] /\ hpFed' = hpFed + 1
    /\ hpHeard' = [hpHeard EXCEPT ![SafeHalf] = CASE HpHalfOf(hpLpib) = SafeHalf -> "yes"
                                                  [] hpCrossed >= 2 -> "blind"
                                                  [] OTHER -> "no"]
    /\ UNCHANGED <<hpLpib, hpBcis, hpLast, hpRead, hpCrossed, hpSince>>

HpNext == Play \/ Prefill \/ FeedReads \/ FeedStatus \/ FeedCopies

HpTypeInv ==
    /\ hpLpib \in 0 .. (2 * HpHalf) - 1 /\ hpLast \in 0 .. (2 * HpHalf) - 1 /\ hpBuf \in [0 .. 1 -> 0 .. HpBlocks]
    /\ hpPc \in {"idle", "status", "copy"} /\ hpFed \in 0 .. HpBlocks
    /\ hpCrossed \in 0 .. 2 /\ hpHeard \in [0 .. 1 -> {"yes", "no", "blind"}]

\* A block that the stream has not reached yet is newer than the block in the other half: what is
\* fed is heard in the order it was fed.
PlayedInOrder == \A h \in 0 .. 1 : hpHeard[h] = "no" => hpBuf[h] > hpBuf[1 - h]

\* A feed replaces no block that has not been heard. It writes into the half that is not being
\* played as long as the stream stays in the half in which the position was read; when the stream
\* goes on to the other half before the copy, the copy goes into the half that plays, and still
\* takes nothing from a later feed. Only a copy that comes a whole half late is not covered: the
\* feed after it may replace its block unheard.
FedIsHeard ==
    [hpPc = "copy" /\ hpPc' = "idle" =>
        /\ hpHeard[SafeHalf] # "no"
        /\ hpCrossed = 0 => HpHalfOf(hpLpib) # SafeHalf]_hpVars

\* A half is fed once: between two feeds that are accepted the stream finishes a half, counted from
\* the position that the first of them read, whichever of BCIS and the distance the second goes by,
\* also when the first had no samples to copy; only a prefill starts the count anew.
OneFeedPerHalf == [(hpPc = "status" /\ hpPc' = "copy") => hpSince]_hpVars

(***************************************************************************)
(* PcmPath.  The software side of audio output: BufferQueue, a ring of     *)
(* bytes between one producer and one consumer that share only two         *)
(* counters, and PcmMixer, which resamples by nearest neighbour.  A byte   *)
(* is its place in the stream.                                             *)
(***************************************************************************)

CONSTANTS
    PqSize,     \* N, a power of two
    PqTotal,    \* bound: bytes written
    PqChunk,    \* largest slice passed to write or read
    PqRates,    \* sample rates
    PqFrames    \* largest number of frames mixed

ASSUME PqAssumption == PqSize \in Nat \ {0} /\ PqTotal \in Nat /\ PqChunk \in Nat \ {0} /\ PqRates \subseteq Nat \ {0}

VARIABLES
    pqBuf,      \* slot -> byte
    pqHead,     \* write_head
    pqTail,     \* read_tail
    pqW,        \* write: [pc, n], the bytes still to copy and then to publish
    pqR,        \* read: [pc, n, w]
    pqOut,      \* history: bytes read
    pqMix       \* the last call of mix: [inF, inRate, outRate, room, written]

pqVars == <<pqBuf, pqHead, pqTail, pqW, pqR, pqOut, pqMix>>

PqInit ==
    /\ pqBuf = [i \in 0 .. PqSize - 1 |-> 0] /\ pqHead = 0 /\ pqTail = 0
    /\ pqW = [pc |-> "idle", n |-> 0] /\ pqR = [pc |-> "idle", n |-> 0] /\ pqOut = <<>>
    /\ pqMix = [inF |-> 0, inRate |-> 1, outRate |-> 1, room |-> 0, written |-> 0]

PqMin(a, b) == IF a < b THEN a ELSE b

Free == PqSize - (pqHead - pqTail)

\* write: both counters are loaded and the number of bytes decided.
WriteLoads(len) ==
    /\ pqW.pc = "idle" /\ pqHead < PqTotal /\ Free > 0
    /\ pqW' = [pc |-> "copy", n |-> PqMin(PqMin(len, Free), PqTotal - pqHead)]
    /\ UNCHANGED <<pqBuf, pqHead, pqTail, pqR, pqOut, pqMix>>

\* The bytes are copied, in two pieces when they go round the end.
WriteCopies ==
    /\ pqW.pc = "copy"
    /\ pqBuf' = [i \in DOMAIN pqBuf |->
                    IF \E k \in 0 .. pqW.n - 1 : (pqHead + k) % PqSize = i
                    THEN pqHead + 1 + ((i - pqHead) % PqSize) ELSE pqBuf[i]]
    /\ pqW' = [pqW EXCEPT !.pc = "publish"]
    /\ UNCHANGED <<pqHead, pqTail, pqR, pqOut, pqMix>>

WritePublishes ==
    /\ pqW.pc = "publish"
    /\ pqHead' = pqHead + pqW.n /\ pqW' = [pc |-> "idle", n |-> 0]
    /\ UNCHANGED <<pqBuf, pqTail, pqR, pqOut, pqMix>>

ReadLoads(len) ==
    /\ pqR.pc = "idle" /\ pqHead > pqTail
    /\ pqR' = [pc |-> "copy", n |-> PqMin(len, pqHead - pqTail)]
    /\ UNCHANGED <<pqBuf, pqHead, pqTail, pqW, pqOut, pqMix>>

ReadCopies ==
    /\ pqR.pc = "copy"
    /\ pqOut' = pqOut \o [k \in 1 .. pqR.n |-> pqBuf[(pqTail + k - 1) % PqSize]]
    /\ pqR' = [pqR EXCEPT !.pc = "publish"]
    /\ UNCHANGED <<pqBuf, pqHead, pqTail, pqW, pqMix>>

ReadPublishes ==
    /\ pqR.pc = "publish"
    /\ pqTail' = pqTail + pqR.n /\ pqR' = [pc |-> "idle", n |-> 0]
    /\ UNCHANGED <<pqBuf, pqHead, pqW, pqOut, pqMix>>

(***************************************************************************)
(* PcmMixer.                                                               *)
(***************************************************************************)
\* The input frame that output frame j is taken from.
InFrame(j, inRate, outRate) == (j * inRate) \div outRate

\* mix: output frames are written until the input or the room ends.
MixWritten(inF, inRate, outRate, room) ==
    CHOOSE n \in 0 .. room :
       /\ \A j \in 0 .. n - 1 : InFrame(j, inRate, outRate) < inF
       /\ n = room \/ InFrame(n, inRate, outRate) >= inF

\* output_frames: rounded up.
OutputFrames(inF, inRate, outRate) == ((inF * outRate) + inRate - 1) \div inRate

Mix(inF, inRate, outRate, room) ==
    /\ pqHead = 0 /\ pqW.pc = "idle"
    /\ pqMix' = [inF |-> inF, inRate |-> inRate, outRate |-> outRate, room |-> room,
                 written |-> MixWritten(inF, inRate, outRate, room)]
    /\ UNCHANGED <<pqBuf, pqHead, pqTail, pqW, pqR, pqOut>>

PqQueueIdle == pqMix.inF = 0

PqNext ==
    \/ PqQueueIdle /\ ((\E len \in 1 .. PqChunk : WriteLoads(len) \/ ReadLoads(len)) \/ WriteCopies \/ WritePublishes
                       \/ ReadCopies \/ ReadPublishes)
    \/ \E inF, room \in 0 .. PqFrames, a, b \in PqRates : Mix(inF, a, b, room)

PqTypeInv == pqHead \in 0 .. PqTotal /\ pqTail \in 0 .. pqHead

\* The consumer reads the bytes in the order they were written, none twice and none overwritten
\* before it was read, however the two sides interleave.
QueueInOrder == \A i \in DOMAIN pqOut : pqOut[i] = i

\* A buffer of output_frames frames is exactly what mix needs: with that much room it uses up all of
\* the input, and with more it writes no further.
OutputFramesExact ==
    pqMix.room >= OutputFrames(pqMix.inF, pqMix.inRate, pqMix.outRate) =>
       pqMix.written = OutputFrames(pqMix.inF, pqMix.inRate, pqMix.outRate)

--------------------------------------------------------------------------------
\* Verbs, routes and samples of the sound output keep their order and lead where they should, also
\* when answers are late and the stream moves on during a feed.
AudioSound ==
    /\ HcTypeInv /\ AnswerInTurn /\ VerbsInOrder
    /\ HrTypeInv /\ RouteLeadsToDac /\ PinIsBest
    /\ HpTypeInv /\ PlayedInOrder
    /\ PqTypeInv /\ QueueInOrder /\ OutputFramesExact
================================================================================
