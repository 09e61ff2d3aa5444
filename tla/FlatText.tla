-------------------------------- MODULE FlatText --------------------------------
(***************************************************************************)
(* What an editor promises: one text of bytes, a position in it, edits at  *)
(* the position only, and a document that changes when it is saved. A      *)
(* newline ("nl") is a byte of the text like any other; "lead" and "cont"  *)
(* are the two bytes of a longer character. An edit is one of bytes, so it *)
(* may leave half of a character behind: its line is then unreadable, and  *)
(* the text that is shown and saved has the line empty.                    *)
(***************************************************************************)
EXTENDS Integers, Sequences, SequencesExt

CONSTANTS
    Keys,   \* the bytes that keys type
    Docs    \* the documents that other programs leave

VARIABLES text, pos, doc

Pick(t, keep) == LET at == SetToSortSeq(keep, <) IN [n \in DOMAIN at |-> t[at[n]]]

\* A document is read without the carriage return that ends a line.
Read(t) == Pick(t, {i \in DOMAIN t : ~(t[i] = "cr" /\ i < Len(t) /\ t[i + 1] = "nl")})

Broken(t, i) ==
    \/ t[i] = "lead" /\ (i = Len(t) \/ t[i + 1] # "cont")
    \/ t[i] = "cont" /\ (i = 1 \/ t[i - 1] # "lead")
OneLine(t, i, j) == \A k \in (i .. j) \cup (j .. i) : t[k] # "nl"
Shown(t) == Pick(t, {i \in DOMAIN t : ~ \E j \in DOMAIN t : OneLine(t, i, j) /\ Broken(t, j)})

FtInit == doc \in Docs /\ text = Read(doc) /\ pos = 0

FtInsert(s) ==
    /\ text' = SubSeq(text, 1, pos) \o s \o SubSeq(text, pos + 1, Len(text))
    /\ pos' = pos + Len(s) /\ UNCHANGED doc

FtDelete ==
    /\ pos > 0
    /\ text' = SubSeq(text, 1, pos - 1) \o SubSeq(text, pos + 1, Len(text))
    /\ pos' = pos - 1 /\ UNCHANGED doc

FtMove == pos' \in 0 .. Len(text) /\ UNCHANGED <<text, doc>>

FtSave == doc' = Shown(text) /\ UNCHANGED <<text, pos>>

\* Another document, or this one again: it is read from the top.
FtOpen == doc' \in Docs \cup {doc} /\ text' = Read(doc') /\ pos' = 0

\* A key types a byte, or the same one twice (a tab).
FtNext ==
    \/ FtMove \/ FtDelete \/ FtSave \/ FtOpen
    \/ \E s \in Keys : FtInsert(<<s>>) \/ FtInsert(<<s, s>>)
FtSpec == FtInit /\ [][FtNext]_<<text, pos, doc>>
==================================================================================
