------------------------------- MODULE MediaApps -------------------------------
(***************************************************************************)
(* The text editor, the viewers that share its window code, and the walk   *)
(* over the boxes of a media file. The three parts share no state.         *)
(***************************************************************************)
EXTENDS Integers, Sequences, FiniteSets, FiniteSetsExt, SequencesExt

(***************************************************************************)
(* EditorBuffer.  The editor's text: lattice's EditorBuffer (rows of       *)
(* bytes, a cursor, a scroll position) and solvent's editor_bridge, which  *)
(* turns keys into edits and saves the text. A file may hold characters of *)
(* two bytes; keys type one byte.                                          *)
(***************************************************************************)

CONSTANTS
    EdFiles,     \* texts a file may hold, sequences of bytes
    EdViewport,  \* rows of the window
    EdMaxBytes   \* bound on the length of the text

ASSUME EdAssumption == EdViewport \in Nat \ {0} /\ EdMaxBytes \in Nat

VARIABLES
    edRows,    \* rows
    edRow,     \* cursor_row, from 0
    edCol,     \* cursor_col, from 0
    edScroll,  \* scroll_row
    edDirty,   \* dirty
    edFile     \* the content of editor_file_path

edVars == <<edRows, edRow, edCol, edScroll, edDirty, edFile>>

NL == "nl"
EdBytes == {"a", "cr", "lead", "cont"}   \* ASCII bytes, the two bytes of a longer character
EdText == EdBytes \cup {NL}

\* The rows of a text: str::lines, which takes a carriage return before the newline with it, and
\* one more row after a final newline or for no text.
EdPlaces(t) == {0} \cup {i \in DOMAIN t : t[i] = NL} \cup {Len(t) + 1}
EdNextPlace(t, p) == Min({q \in EdPlaces(t) : q > p})
FromText(t) ==
    LET starts == SetToSortSeq(EdPlaces(t) \ {Len(t) + 1}, <)
        stop(p) == LET q == EdNextPlace(t, p) - 1
                   IN  IF q < Len(t) /\ q > p /\ t[q] = "cr" THEN q - 1 ELSE q
    IN  [i \in DOMAIN starts |-> SubSeq(t, starts[i] + 1, stop(starts[i]))]

\* Row::as_str: a row that is not UTF-8 reads as an empty string.
ValidUtf8(r) == \A i \in DOMAIN r :
    /\ r[i] = "lead" => i < Len(r) /\ r[i + 1] = "cont"
    /\ r[i] = "cont" => i > 1 /\ r[i - 1] = "lead"
AsStr(r) == IF ValidUtf8(r) THEN r ELSE <<>>

JoinRows(rows) ==
    LET J[i \in 0 .. Len(rows)] ==
          IF i = 0 THEN <<>> ELSE J[i - 1] \o (IF i > 1 THEN <<NL>> ELSE <<>>) \o rows[i]
    IN J[Len(rows)]
FullText == JoinRows([i \in DOMAIN edRows |-> AsStr(edRows[i])])
EdLen == Len(JoinRows(edRows))

\* Character boundaries of a row, as offsets from 0.
CharIndices(r) == {i \in 0 .. Len(r) - 1 : AsStr(r) # <<>> /\ r[i + 1] # "cont"}
RowLen(i) == Len(edRows[i + 1])

EdInit ==
    /\ edFile \in EdFiles /\ edRows = FromText(edFile)
    /\ edRow = 0 /\ edCol = 0 /\ edScroll = 0 /\ edDirty = FALSE

\* clamp_scroll: upwards only.
ClampScroll(scroll, row) == IF row < scroll THEN row ELSE scroll

\* clamp_scroll_with_viewport: the cursor in view, and no rows past the end in view.
ClampToViewport(scroll, row, n) ==
    LET s == IF row < scroll THEN row
             ELSE IF row > scroll + EdViewport - 1 THEN row - (EdViewport - 1) ELSE scroll
    IN  IF s + EdViewport > n THEN (IF n >= EdViewport THEN n - EdViewport ELSE 0) ELSE s

\* The end of editor_handle_key after an edit that leaves rows and a cursor row.
KeyDone(rows, row, scroll) == edScroll' = ClampToViewport(scroll, row, Len(rows))

MoveTo(row, col) ==
    /\ edRow' = row /\ edCol' = col
    /\ KeyDone(edRows, row, ClampScroll(edScroll, row))
    /\ UNCHANGED <<edRows, edDirty, edFile>>

CursorLeft ==
    \/ edCol > 0 /\ MoveTo(edRow, Max({0} \cup {i \in CharIndices(edRows[edRow + 1]) : i < edCol}))
    \/ edCol = 0 /\ edRow > 0 /\ MoveTo(edRow - 1, RowLen(edRow - 1))

CursorRight ==
    LET r == edRows[edRow + 1]
        next == {i \in CharIndices(r) : i > edCol}
    IN  IF edCol < Len(AsStr(r))
        THEN MoveTo(edRow, IF next = {} THEN Len(r) ELSE Min(next))
        ELSE edRow + 1 < Len(edRows) /\ MoveTo(edRow + 1, 0)

\* The column is cut to the new row.
CutColumn(row) == Min({edCol, RowLen(row)})
ToRow(row) == MoveTo(row, CutColumn(row))
CursorUp == edRow > 0 /\ ToRow(edRow - 1)
CursorDown == edRow + 1 < Len(edRows) /\ ToRow(edRow + 1)
PageUp == edRow > 0 /\ ToRow(Max({0, edRow - EdViewport}))
PageDown == edRow + 1 < Len(edRows) /\ ToRow(Min({Len(edRows) - 1, edRow + EdViewport}))
CursorHome == MoveTo(edRow, 0)
CursorEnd == MoveTo(edRow, RowLen(edRow))

Edited(rows, row, col) ==
    /\ edRows' = rows /\ edRow' = row /\ edCol' = col /\ edDirty' = TRUE
    /\ KeyDone(rows, row, edScroll)
    /\ UNCHANGED edFile

\* A typed character, or the two blanks of a tab.
InsertChar(typed) ==
    LET r == edRows[edRow + 1]
        row == SubSeq(r, 1, edCol) \o typed \o SubSeq(r, edCol + 1, Len(r))
    IN  /\ EdLen + Len(typed) <= EdMaxBytes
        /\ Edited([edRows EXCEPT ![edRow + 1] = row], edRow, edCol + Len(typed))

\* split_off: the row up to the cursor, and the rest of it.
Split(r, col) == <<SubSeq(r, 1, col), SubSeq(r, col + 1, Len(r))>>

InsertNewline ==
    LET parts == Split(edRows[edRow + 1], edCol)
    IN  /\ EdLen < EdMaxBytes
        /\ Edited(SubSeq(edRows, 1, edRow) \o parts \o SubSeq(edRows, edRow + 2, Len(edRows)), edRow + 1, 0)


\* A row joined to the one before it: the cursor stands where they meet.
JoinedRow(prev, r) == [row |-> prev \o r, col |-> Len(prev)]

\* backspace: one BYTE is removed, or the row joins the one before; at the top of the text
\* only the flag is set.
Backspace ==
    \/ edCol > 0 /\ Edited([edRows EXCEPT ![edRow + 1] = RemoveAt(@, edCol)], edRow, edCol - 1)
    \/ /\ edCol = 0 /\ edRow > 0
       /\ LET j == JoinedRow(edRows[edRow], edRows[edRow + 1])
          IN  Edited(SubSeq(edRows, 1, edRow - 1) \o <<j.row>> \o SubSeq(edRows, edRow + 2, Len(edRows)),
                     edRow - 1, j.col)
    \/ edCol = 0 /\ edRow = 0 /\ Edited(edRows, 0, 0)

\* The flag after editor_save_current: cleared only when the write succeeded.
FlagAfterSave(ok) == IF ok THEN FALSE ELSE edDirty

\* Ctrl+S: the whole text is written; a failed write leaves the file alone.
EditorSave(ok) ==
    /\ edFile' = IF ok THEN FullText ELSE edFile
    /\ edDirty' = FlagAfterSave(ok)
    /\ UNCHANGED <<edRows, edRow, edCol, edScroll>>

\* A text file is opened: the buffer is replaced, whatever it held.
OpenText(t) ==
    /\ edFile' = t /\ edRows' = FromText(t)
    /\ edRow' = 0 /\ edCol' = 0 /\ edScroll' = 0 /\ edDirty' = FALSE

EdNext ==
    \/ CursorLeft \/ CursorRight \/ CursorUp \/ CursorDown \/ PageUp \/ PageDown \/ CursorHome \/ CursorEnd
    \/ InsertChar(<<"a">>) \/ InsertChar(<<"a", "a">>) \/ InsertNewline \/ Backspace
    \/ \E ok \in BOOLEAN : EditorSave(ok)
    \/ \E t \in EdFiles \cup {edFile} : OpenText(t)

EdSpec == EdInit /\ [][EdNext]_edVars

-----------------------------------------------------------------------------
EdTypeInv ==
    /\ edRows \in Seq(Seq(EdBytes)) /\ edRow \in Nat /\ edCol \in Nat /\ edScroll \in Nat
    /\ edDirty \in BOOLEAN /\ edFile \in Seq(EdText)

\* Every index the editor uses to address the text (rows[cursor_row], the column passed to
\* insert, remove and split_off) is inside it, after any sequence of edits and movements.
CursorInText == edRow < Len(edRows) /\ edCol <= RowLen(edRow)

\* After every key the row of the cursor is one of the rows drawn (render_editor draws
\* viewport rows from scroll_row): editing never happens off screen.
CursorInView == edScroll <= edRow /\ edRow < edScroll + EdViewport

\* A buffer whose flag says "not modified" reads exactly as the file does when it is opened, after
\* any edits, saves that failed and saves that dropped a row: nothing is left unsaved. (It need not
\* be the file: the carriage returns that str::lines dropped are gone without the flag being set.)
CleanIsSaved == ~edDirty => FullText = edFile \/ FullText = JoinRows(FromText(edFile))

\* The rows and the two-part cursor behave as one text of bytes with one position: each key inserts
\* or deletes one byte there or moves it, nothing else of the text ever changes, and saving writes
\* that text with the lines left empty that backspace broke in the middle of a character.
EdOffset == Len(JoinRows(SubSeq(edRows, 1, edRow + 1))) - (RowLen(edRow) - edCol)
Flat == INSTANCE FlatText WITH Keys <- {"a", NL}, Docs <- EdFiles,
            text <- JoinRows(edRows), pos <- EdOffset, doc <- edFile

(***************************************************************************)
(* Viewers.  Opening files on the desktop: viewer::open (decode through    *)
(* the registry, then present), the windows the viewers leave behind, the  *)
(* animation that plays in one of them, the one text editor, and programs  *)
(* handed to the shell. The event loop calls these one at a time; the user *)
(* closes windows in between.                                              *)
(***************************************************************************)

CONSTANTS
    VwPaths,    \* text files
    VwFrames,   \* frame counts of animations
    VwMaxWins   \* bound on the windows opened

VARIABLES
    vwOpen,    \* windows that exist, ids to what they show
    vwNext,    \* next_window_id
    vwEditor,  \* editor_window, 0 for none
    vwText,    \* editor_buf: the file its text came from, "none" for text of no file
    vwPath,    \* editor_file_path
    vwPlay,    \* rle_playback: [win, frame, count], win = 0 for none
    vwCommand, \* PENDING_SHELL_COMMAND
    vwLaunch   \* shell_launch_pending

vwVars == <<vwOpen, vwNext, vwEditor, vwText, vwPath, vwPlay, vwCommand, vwLaunch>>
vwEditorVars == <<vwEditor, vwText, vwPath>>
vwShellVars == <<vwCommand, vwLaunch>>

VwNoPlay == [win |-> 0, frame |-> 0, count |-> 0]

VwInit ==
    /\ vwOpen = <<>> /\ vwNext = 1 /\ vwEditor = 0 /\ vwText = "none" /\ vwPath = "none"
    /\ vwPlay = VwNoPlay /\ vwCommand = FALSE /\ vwLaunch = FALSE

\* Windows after a new one and after closing some.
VwWith(kind, closed) ==
    [w \in (DOMAIN vwOpen \ closed) \cup {vwNext} |-> IF w = vwNext THEN kind ELSE vwOpen[w]]
VwFresh == vwNext <= VwMaxWins /\ vwNext' = vwNext + 1

\* The registry's decoders by the kind of file they take, in order; the last takes the rest.
VwKinds == {"text", "image", "audio", "video", "archive", "animation", "wasm", "program", "unknown"}

\* What the decoder of a kind returns: every one may fail to read the file; text must be UTF-8,
\* JPEG images are decoded here, and of the programs only WebAssembly is known.
Decoded(kind) == {"error"} \cup
    (CASE kind = "wasm" -> {"launch"}
       [] kind = "program" -> {}
       [] kind = "unknown" -> {"binary"}
       [] OTHER -> {kind})

\* show_text_window, used for errors, listings, media information and hex dumps.
ShowText == vwOpen' = VwWith("message", {}) /\ VwFresh

\* A decoder fails: viewer::open shows why.
OpenFails ==
    /\ \E k \in VwKinds : "error" \in Decoded(k)
    /\ ShowText /\ UNCHANGED <<vwEditorVars, vwPlay, vwShellVars>>

\* Documents that are only described: media information, archive listings.
Describe ==
    /\ \E k \in VwKinds : Decoded(k) \cap {"audio", "video", "archive"} # {}
    /\ ShowText /\ UNCHANGED <<vwEditorVars, vwPlay, vwShellVars>>

\* The first bytes of anything else in hexadecimal.
PresentBinary ==
    /\ \E k \in VwKinds : "binary" \in Decoded(k)
    /\ ShowText /\ UNCHANGED <<vwEditorVars, vwPlay, vwShellVars>>

ShowImage == vwOpen' = VwWith("image", {}) /\ VwFresh

\* A bitmap of 24 or 32 bits that is not too large gets a window, any other a message.
OpenBmp ==
    /\ "image" \in Decoded("image") /\ (ShowText \/ ShowImage)
    /\ UNCHANGED <<vwEditorVars, vwPlay, vwShellVars>>

\* So does a PNG image for whose pixels there are pages.
OpenPng ==
    /\ "image" \in Decoded("image") /\ (ShowText \/ ShowImage)
    /\ UNCHANGED <<vwEditorVars, vwPlay, vwShellVars>>

\* A JPEG image has been decoded before it is presented (decode_jpeg_source grows the heap or
\* fails the decoder).
OpenJpeg ==
    /\ "image" \in Decoded("image") /\ ShowImage
    /\ UNCHANGED <<vwEditorVars, vwPlay, vwShellVars>>

\* present_text replaces the text and the file name together.
EditorTakes(path) == [text |-> path, path |-> path]

\* The new window is made before the old editor window is closed.
OpenTextFile(path) ==
    /\ "text" \in Decoded("text")
    /\ vwOpen' = VwWith("editor", {vwEditor}) /\ VwFresh
    /\ vwEditor' = vwNext /\ vwText' = EditorTakes(path).text /\ vwPath' = EditorTakes(path).path
    /\ UNCHANGED <<vwPlay, vwShellVars>>

\* A program: the command waits for the shell, which is asked to start.
OpenProgram ==
    /\ "launch" \in Decoded("wasm") /\ vwCommand' = TRUE /\ vwLaunch' = TRUE
    /\ UNCHANGED <<vwOpen, vwNext, vwEditorVars, vwPlay>>

\* The window of the animation that played before, if it is still there.
PreviousAnimation == {vwPlay.win} \cap DOMAIN vwOpen

\* open_rle_data: parse, close the previous animation, open a window, show frame 0.
OpenAnimation(count) ==
    /\ vwOpen' = VwWith("animation", PreviousAnimation) /\ VwFresh
    /\ vwPlay' = [win |-> vwNext, frame |-> 1 % count, count |-> count]
    /\ UNCHANGED <<vwEditorVars, vwShellVars>>

FrameAfter == (vwPlay.frame + 1) % vwPlay.count

\* tick_rle_playback: playback ends with its window; a frame is shown when it is due.
TickPlayback ==
    /\ vwPlay.win # 0
    /\ vwPlay' = IF vwPlay.win \in DOMAIN vwOpen THEN [vwPlay EXCEPT !.frame = FrameAfter] ELSE VwNoPlay
    /\ UNCHANGED <<vwOpen, vwNext, vwEditorVars, vwShellVars>>

\* The user closes a window: the viewers are not told.
VwClose(w) ==
    /\ w \in DOMAIN vwOpen
    /\ vwOpen' = [x \in DOMAIN vwOpen \ {w} |-> vwOpen[x]]
    /\ UNCHANGED <<vwNext, vwEditorVars, vwPlay, vwShellVars>>

EditorGone == vwEditor \notin DOMAIN vwOpen

\* ensure_editor_window for the menu entry: the text and its file name stay.
EnsureEditor ==
    /\ EditorGone
    /\ vwOpen' = VwWith("editor", {}) /\ VwFresh /\ vwEditor' = vwNext
    /\ UNCHANGED <<vwText, vwPath, vwPlay, vwShellVars>>

\* render_editor finds the window gone.
ForgetEditor ==
    /\ vwEditor # 0 /\ vwEditor \notin DOMAIN vwOpen /\ vwEditor' = 0
    /\ UNCHANGED <<vwOpen, vwNext, vwText, vwPath, vwPlay, vwShellVars>>

\* The event loop starts the shell, which takes the command once it runs.
LaunchShell ==
    /\ vwLaunch /\ vwLaunch' = FALSE
    /\ UNCHANGED <<vwOpen, vwNext, vwEditorVars, vwPlay, vwCommand>>

TakeCommand ==
    /\ ~vwLaunch /\ vwCommand /\ vwCommand' = FALSE
    /\ UNCHANGED <<vwOpen, vwNext, vwEditorVars, vwPlay, vwLaunch>>

VwNext ==
    \/ OpenFails \/ Describe \/ PresentBinary \/ OpenBmp \/ OpenPng \/ OpenJpeg \/ OpenProgram \/ TickPlayback \/ EnsureEditor \/ ForgetEditor
    \/ LaunchShell \/ TakeCommand
    \/ \E p \in VwPaths : OpenTextFile(p)
    \/ \E c \in VwFrames : OpenAnimation(c)
    \/ \E w \in DOMAIN vwOpen : VwClose(w)
VwSpec == VwInit /\ [][VwNext]_vwVars

-----------------------------------------------------------------------------
VwTypeInv ==
    /\ DOMAIN vwOpen \subseteq 1 .. VwMaxWins /\ vwNext \in 1 .. VwMaxWins + 1
    /\ vwText \in VwPaths \cup {"none"} /\ vwPath \in VwPaths \cup {"none"}

\* Ctrl+S writes the text under editor_file_path: over any sequence of opening files, closing
\* the window and opening the editor again, that is the file the text came from.
SavesToItsFile == vwText = vwPath

\* An animation window that is open is being played, and there is never more than one.
AnimationsPlay == \A w \in DOMAIN vwOpen : vwOpen[w] = "animation" => vwPlay.win = w

\* One editor window at most: the text is never shown, or edited, in two.
OneEditor == \A w \in DOMAIN vwOpen : vwOpen[w] = "editor" => vwEditor = w

\* The frame decoded next exists in the file (decode_frame indexes the offsets with it).
FrameExists == vwPlay.win # 0 => vwPlay.frame < vwPlay.count

(***************************************************************************)
(* MediaWalk.  The loops of solvent's viewers over the bytes of a file:    *)
(* WAV chunks, MP3 frames, tar blocks, the gzip header, ZIP directory      *)
(* entries, MP4 boxes and the runs of an RLE frame. What a file says about *)
(* sizes is arbitrary, so every size read is a choice. Lengths are counted *)
(* in units of a few bytes; mwRead is the end of the furthest slice taken  *)
(* so far.                                                                 *)
(***************************************************************************)

CONSTANTS
    MwMaxLen,    \* longest file, in units
    MwMaxBoxes,  \* boxes_seen, 128 in the code
    MwSides      \* sides of images and windows tried for the letterbox

VARIABLES
    mwFmt,    \* what is read; "done" at the end
    mwOff,    \* offset
    mwEnd,    \* data.len() of the slice being walked
    mwOuter,  \* inside an MP4 movie box: length and boxes_seen of the outer walk, else <<>>
    mwSeen,   \* boxes_seen; gzip: header fields passed; RLE: pixels written
    mwRead,   \* furthest byte taken from the slice
    mwBox     \* RLE: sides of the frame and of the window <<sw, sh, dw, dh>>

mwVars == <<mwFmt, mwOff, mwEnd, mwOuter, mwSeen, mwRead, mwBox>>

MwFormats == {"wav", "mp3", "tar", "gzip", "zip", "mp4", "rle"}
MwHeader == [wav |-> 2, mp3 |-> 1, tar |-> 2, gzip |-> 0, zip |-> 3, mp4 |-> 2, rle |-> 1]

\* mp3_audio_start: a tag of any size is skipped, but never past the end.
Mp3Start(len) == {Min({n, len}) : n \in 0 .. len + 1}

MwInit ==
    /\ mwFmt \in MwFormats /\ mwEnd \in 0 .. MwMaxLen
    /\ mwOff \in (IF mwFmt = "mp3" THEN Mp3Start(mwEnd) ELSE {0})
    /\ mwOuter = <<>> /\ mwSeen = 0 /\ mwRead = 0
    /\ mwBox \in (IF mwFmt = "rle" /\ mwEnd = MwMaxLen THEN MwSides \X MwSides \X MwSides \X MwSides
                  ELSE {<<1, 1, 1, 1>>})

\* Each walk gives the places the loop may continue from and how far it has read.
MwAt(off, read) == [off |-> off, read |-> read]
MwSizes == 0 .. MwMaxLen + 1

WavWalk == {MwAt(mwOff + 2 + c, mwOff + 2) : c \in MwSizes}

\* No frame here, or one that does not fit: the next byte is tried.
Mp3Walk ==
    {MwAt(mwOff + 1, mwOff + 1)}
    \cup {MwAt(mwOff + n, mwOff + n) : n \in {k \in MwSizes : k > 0 /\ mwOff + k <= mwEnd}}

TarWalk == {MwAt(mwOff + 2 + 2 * ((s + 1) \div 2), mwOff + 2) : s \in MwSizes}

\* The signature is searched from the offset; an entry that does not fit ends the listing.
\* Only the offset before the search is checked, so a signature in the last bytes of the file
\* makes the header's slice end past it: the listing panics there.
ZipTail == {r \in MwSizes : mwOff + r + 1 <= mwEnd /\ mwOff + r + 3 > mwEnd}
ZipWalk ==
    {MwAt(mwOff + r + 3 + n, mwOff + r + 3 + n) :
        <<r, n>> \in {p \in MwSizes \X MwSizes : mwOff + p[1] + 3 + p[2] <= mwEnd}}

\* The size in a box's header: 0 stands for the rest, 1 for a 64-bit size behind the header.
BoxSizes ==
    {[size |-> mwEnd - mwOff, header |-> 2]}
    \cup {[size |-> s, header |-> 4] : s \in {k \in MwSizes : mwOff + 4 <= mwEnd}}
    \cup {[size |-> s, header |-> 2] : s \in MwSizes}

\* A box is taken only when it holds its own header and ends inside the slice.
BoxFits(b) == b.size >= b.header /\ mwOff + b.size <= mwEnd

Mp4Walk == {MwAt(mwOff + b.size, Max({mwOff + b.header, mwOff + b.size})) : b \in {x \in BoxSizes : BoxFits(x)}}

MwEnough == mwFmt \in DOMAIN MwHeader /\ mwOff + MwHeader[mwFmt] <= mwEnd

MwGo(places) ==
    /\ MwEnough
    /\ \E p \in places : mwOff' = p.off /\ mwRead' = Max({mwRead, p.read})

Wav == mwFmt = "wav" /\ MwGo(WavWalk) /\ UNCHANGED <<mwFmt, mwEnd, mwOuter, mwSeen, mwBox>>
Mp3 == mwFmt = "mp3" /\ MwGo(Mp3Walk) /\ UNCHANGED <<mwFmt, mwEnd, mwOuter, mwSeen, mwBox>>
Tar == mwFmt = "tar" /\ MwGo(TarWalk) /\ UNCHANGED <<mwFmt, mwEnd, mwOuter, mwSeen, mwBox>>
ZipList == mwFmt = "zip" /\ MwGo(ZipWalk) /\ UNCHANGED <<mwFmt, mwEnd, mwOuter, mwSeen, mwBox>>

ZipPanics ==
    /\ mwFmt = "zip" /\ MwEnough
    /\ \E r \in ZipTail : mwOff' = mwOff + r /\ mwRead' = mwOff + r + 3
    /\ mwFmt' = "panic"
    /\ UNCHANGED <<mwEnd, mwOuter, mwSeen, mwBox>>

Mp4 ==
    /\ mwFmt = "mp4" /\ mwSeen < MwMaxBoxes /\ MwGo(Mp4Walk) /\ mwSeen' = mwSeen + 1
    /\ UNCHANGED <<mwFmt, mwEnd, mwOuter, mwBox>>

\* A movie box: its payload is walked the same way, then the outer walk goes on behind it.
Moov ==
    /\ mwFmt = "mp4" /\ mwOuter = <<>> /\ mwSeen < MwMaxBoxes /\ MwEnough
    /\ \E b \in BoxSizes :
         /\ BoxFits(b)
         /\ mwOff' = mwOff + b.header /\ mwEnd' = mwOff + b.size
    /\ mwOuter' = <<mwEnd, mwSeen + 1>> /\ mwSeen' = 0
    /\ UNCHANGED <<mwFmt, mwRead, mwBox>>

MoovDone ==
    /\ mwFmt = "mp4" /\ mwOuter # <<>>
    /\ mwOff' = mwEnd /\ mwEnd' = mwOuter[1] /\ mwSeen' = mwOuter[2] /\ mwOuter' = <<>>
    /\ UNCHANGED <<mwFmt, mwRead, mwBox>>

\* The optional fields of the gzip header, each read with get() and so checked before use;
\* the fields' lengths move the offset without a check.
GzipField ==
    /\ mwFmt = "gzip" /\ mwSeen < 4 /\ mwSeen' = mwSeen + 1
    /\ \E n \in MwSizes : mwOff' = mwOff + n
    /\ UNCHANGED <<mwFmt, mwEnd, mwOuter, mwRead, mwBox>>

\* The compressed bytes lie between the header and the trailer, or the file is refused.
GzipPayload(off) == IF off <= mwEnd - 1 THEN mwEnd - 1 ELSE 0

GzipInflate ==
    /\ mwFmt = "gzip" /\ mwFmt' = "done" /\ mwRead' = Max({mwRead, GzipPayload(mwOff)})
    /\ UNCHANGED <<mwOff, mwEnd, mwOuter, mwSeen, mwBox>>

RleRunUncut(total, n) == mwSeen + n
\* A run is cut at the end of the frame.
RleRun(total, n) == Min({mwSeen + n, total})

MwPixels == mwBox[1] * mwBox[2]
Rle ==
    /\ mwFmt = "rle" /\ MwEnough /\ mwSeen < MwPixels
    /\ \E n \in 0 .. 2 : mwSeen' = RleRun(MwPixels, n)
    /\ mwOff' = mwOff + 1 /\ mwRead' = mwOff + 1
    /\ UNCHANGED <<mwFmt, mwEnd, mwOuter, mwBox>>

\* Every loop may end: at its condition, or where the file breaks off (the MP3 and RLE loops
\* only at their conditions).
MwStop ==
    /\ mwFmt \in MwFormats /\ mwOuter = <<>> /\ mwFmt' = "done"
    /\ mwFmt = "mp3" => ~MwEnough
    /\ mwFmt = "rle" => ~MwEnough \/ mwSeen >= MwPixels
    /\ UNCHANGED <<mwOff, mwEnd, mwOuter, mwSeen, mwRead, mwBox>>

MwNext == Wav \/ Mp3 \/ Tar \/ ZipList \/ ZipPanics \/ Mp4 \/ Moov \/ MoovDone \/ GzipField \/ GzipInflate \/ Rle \/ MwStop
MwSpec == MwInit /\ [][MwNext]_mwVars

\* compute_rle_letterbox: the frame scaled to the window with its aspect ratio, centred.
Letterbox(sw, sh, dw, dh) ==
    IF sw = 0 \/ sh = 0 \/ dw = 0 \/ dh = 0 THEN [w |-> 0, h |-> 0, x |-> 0, y |-> 0]
    ELSE IF dw * sh > sw * dh
         THEN LET w == Max({1, (dh * sw) \div sh}) IN [w |-> w, h |-> dh, x |-> (dw - w) \div 2, y |-> 0]
         ELSE LET h == Max({1, (dw * sh) \div sw}) IN [w |-> dw, h |-> h, x |-> 0, y |-> (dh - h) \div 2]

-----------------------------------------------------------------------------
MwTypeInv ==
    /\ mwFmt \in MwFormats \cup {"done", "panic"} /\ mwOff \in Nat /\ mwEnd \in Nat /\ mwOuter \in {<<>>} \cup (Nat \X Nat)
    /\ mwSeen \in Nat /\ mwRead \in Nat

\* Whatever sizes a file claims, no viewer takes a slice past the end of the data (a slice of
\* viewers.rs would panic), with one exception that the code does not guard against: the listing of a
\* ZIP file panics when a directory signature stands so near the end that its header is cut off.
WalkInside ==
    IF mwFmt = "panic" THEN mwOff + 1 <= mwEnd /\ mwEnd < mwOff + MwHeader.zip
    ELSE mwRead <= (IF mwOuter = <<>> THEN mwEnd ELSE mwOuter[1])

\* Every turn of a loop moves forward: no file makes a viewer, which holds the runtime lock,
\* spin for ever.
WalkAdvances == [(mwFmt' = mwFmt /\ mwFmt # "gzip" /\ mwFmt \in MwFormats) =>
    mwOff' > mwOff \/ mwOuter' # mwOuter]_mwVars

\* A frame of an animation writes no pixel outside its buffer, and is drawn inside the window
\* whatever the two sizes are.
FrameInWindow ==
    mwFmt = "rle" =>
        LET b == Letterbox(mwBox[1], mwBox[2], mwBox[3], mwBox[4])
        IN  /\ mwSeen <= MwPixels
            /\ b.x + b.w <= mwBox[3] /\ b.y + b.h <= mwBox[4]

--------------------------------------------------------------------------------
\* The editor and the viewers stay inside their text, their file and their window.
MediaSound ==
    /\ EdTypeInv /\ CursorInText /\ CursorInView /\ CleanIsSaved
    /\ VwTypeInv /\ SavesToItsFile /\ AnimationsPlay /\ OneEditor /\ FrameExists
    /\ MwTypeInv /\ WalkInside /\ FrameInWindow
================================================================================
