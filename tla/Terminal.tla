------------------------------- MODULE Terminal --------------------------------
(***************************************************************************)
(* The terminal window and the shell that runs in it. The two parts share  *)
(* no state.                                                               *)
(***************************************************************************)
EXTENDS Integers, Sequences, FiniteSetsExt, SequencesExt

(***************************************************************************)
(* TerminalScreen.  A line typed in the terminal window: nozzle's          *)
(* LineEditor, which edits a buffer and echoes every change as characters  *)
(* and backspaces, and the TerminalBuffer that interprets them (wrapping,  *)
(* scrolling, scrollback, control sequences). A row of the scrollback is   *)
(* the number of the line it shows. The cells are kept while a line is     *)
(* typed: what was printed before it is "o", whatever it is. Between two   *)
(* lines a program prints; at any time the user pages back and the window  *)
(* changes its size.                                                       *)
(***************************************************************************)

CONSTANTS
    TsSizes,    \* window sizes <<cols, rows>>; the first line typed fits on each
    TsMaxBack,  \* rows of scrollback, 10000 in the code
    TsMaxLen,   \* max_len of the line editor, 256 in the code
    TsStamps,   \* row numbers are counted modulo this
    TsChars     \* the characters that the user types

ASSUME TsAssumption ==
    /\ \A s \in TsSizes : s[1] > 0 /\ s[2] > 1 /\ s[1] * s[2] > TsMaxLen + 2
    /\ TsChars \cap {"o", " "} = {}

VARIABLES
    ts,        \* the TerminalBuffer: size, cursor, cells, rows, scrollback; where the line starts
    tsOffset,  \* scroll_offset
    leBuf,     \* buffer
    leCursor,  \* cursor
    tsPhase    \* "out" while programs print, "line" in read_line, "lost" once the echo cannot follow

tsVars == <<ts, tsOffset, leBuf, leCursor, tsPhase>>

Stamp(n) == n % TsStamps
TsRows(size, first) == [i \in 1 .. size[2] |-> Stamp(first + i - 1)]
TsFilled(size, ch) == [r \in 0 .. size[2] - 1 |-> [c \in 0 .. size[1] - 1 |-> ch]]
TsNew(size) ==
    [cols |-> size[1], rows |-> size[2], col |-> 0, row |-> 0, cells |-> TsFilled(size, "o"),
     lines |-> TsRows(size, 0), back |-> <<>>, startRow |-> 0, startCol |-> 0]

TsInit ==
    /\ \E s \in TsSizes : ts = TsNew(s)
    /\ tsOffset = 0 /\ leBuf = <<>> /\ leCursor = 0 /\ tsPhase = "out"

\* The scrollback keeps its newest rows.
KeepBack(back) == IF Len(back) > TsMaxBack THEN Tail(back) ELSE back

\* scroll: the top row joins the scrollback, a blank one comes in below.
Scroll(t) ==
    [t EXCEPT !.lines = Append(Tail(t.lines), Stamp(Last(t.lines) + 1)),
              !.back = KeepBack(Append(t.back, Head(t.lines))),
              !.cells = [r \in 0 .. t.rows - 1 |->
                            IF r + 1 < t.rows THEN t.cells[r + 1] ELSE [c \in 0 .. t.cols - 1 |-> " "]],
              !.startRow = t.startRow - 1]

Newline(t) ==
    IF t.row + 1 < t.rows THEN [t EXCEPT !.col = 0, !.row = t.row + 1] ELSE Scroll([t EXCEPT !.col = 0])

PutChar(t, ch) ==
    LET u == [t EXCEPT !.cells[t.row][t.col] = ch]
    IN IF t.col + 1 >= t.cols THEN Newline(u) ELSE [u EXCEPT !.col = t.col + 1]

\* backspace: to the left, which blanks the cell, and from the left edge to the end of the row
\* above, which does not.
TsBackspace(t) ==
    IF t.col > 0 THEN [t EXCEPT !.col = t.col - 1, !.cells[t.row][t.col - 1] = " "]
    ELSE IF t.row > 0 THEN [t EXCEPT !.row = t.row - 1, !.col = t.cols - 1] ELSE t

\* What handle_csi does: each move stays on the screen, and a clear blanks it.
Csi(t, op) ==
    CASE op = "up" -> [t EXCEPT !.row = Max({0, t.row - 1})]
      [] op = "down" -> [t EXCEPT !.row = Min({t.rows - 1, t.row + 1})]
      [] op = "right" -> [t EXCEPT !.col = Min({t.cols - 1, t.col + 1})]
      [] op = "left" -> [t EXCEPT !.col = Max({0, t.col - 1})]
      [] op = "clear" -> [t EXCEPT !.row = 0, !.col = 0, !.cells = TsFilled(<<t.cols, t.rows>>, " ")]
      [] OTHER -> t

PutByte(t, b) ==
    CASE b = "nl" -> Newline(t)
      [] b = "bs" -> TsBackspace(t)
      [] b = "cr" -> [t EXCEPT !.col = 0]
      [] b \in TsChars \cup {"o", " "} -> PutChar(t, b)
      [] OTHER -> Csi(t, b)

TsWrite(t, bytes) == FoldLeft(PutByte, t, bytes)
Times(b, n) == [i \in 1 .. n |-> b]

\* Outside read_line nothing is kept of where a line started and what the cells show.
NoLine(t) == [t EXCEPT !.startRow = 0, !.startCol = 0, !.cells = TsFilled(<<t.cols, t.rows>>, "o")]

-----------------------------------------------------------------------------
\* A program, or the desktop, prints.
Print1(b) ==
    /\ tsPhase = "out" /\ ts' = NoLine(PutByte(ts, b))
    /\ UNCHANGED <<tsOffset, leBuf, leCursor, tsPhase>>

\* The prompt, then read_line with an empty buffer.
ReadLine ==
    /\ tsPhase = "out"
    /\ LET t == PutChar(ts, "o") IN ts' = [t EXCEPT !.startRow = t.row, !.startCol = t.col]
    /\ tsPhase' = "line" /\ leBuf' = <<>> /\ leCursor' = 0
    /\ UNCHANGED tsOffset

Echo(bytes) ==
    /\ ts' = IF tsPhase = "line" THEN TsWrite(ts, bytes) ELSE NoLine(TsWrite(ts, bytes))
    /\ UNCHANGED <<tsOffset, tsPhase>>
Typing == tsPhase \in {"line", "lost"}

\* The buffer from the cursor on.
LeTail == SubSeq(leBuf, leCursor + 1, Len(leBuf))

\* do_insert writes the character and the tail, and goes back over the tail.
EchoInsert(ch) ==
    /\ leBuf' = InsertAt(leBuf, leCursor + 1, ch) /\ leCursor' = leCursor + 1
    /\ Echo(<<ch>> \o LeTail \o Times("bs", Len(LeTail)))

DoInsert(ch) == Typing /\ Len(leBuf) < TsMaxLen /\ EchoInsert(ch)

\* A single completion is inserted without regard to max_len.
TabInsert(ch) == Typing /\ Len(leBuf) = leCursor /\ Len(leBuf) = TsMaxLen /\ EchoInsert(ch)

\* Several: they are listed, and prompt and line are written again; the cursor goes back with
\* control sequences, which stop at the edge of the screen.
TabList ==
    /\ Typing
    /\ LET t == TsWrite(ts, <<"nl", "o", "nl", "o">>)
           u == TsWrite([t EXCEPT !.startRow = t.row, !.startCol = t.col], leBuf)
           back == Len(LeTail)
           done == TsWrite(u, Times("left", back))
       IN  \/ back > u.col /\ ts' = NoLine(done) /\ tsPhase' = "lost"
           \/ back <= u.col /\ ts' = done /\ tsPhase' = "line"
    /\ UNCHANGED <<leBuf, leCursor, tsOffset>>

\* What do_backspace and do_delete write behind the cursor: blanks over the old tail, back, the
\* new tail, and back.
TailEcho(tail) ==
    Times(" ", Len(tail) + 1) \o Times("bs", Len(tail) + 1) \o tail \o Times("bs", Len(tail))

DoBackspace ==
    /\ Typing /\ leCursor > 0 /\ leBuf' = RemoveAt(leBuf, leCursor) /\ leCursor' = leCursor - 1
    /\ Echo(<<"bs">> \o TailEcho(LeTail))

DoDelete ==
    /\ Typing /\ leCursor < Len(leBuf) /\ leBuf' = RemoveAt(leBuf, leCursor + 1) /\ UNCHANGED leCursor
    /\ Echo(TailEcho(Tail(LeTail)))

DoLeft == Typing /\ leCursor > 0 /\ leCursor' = leCursor - 1 /\ UNCHANGED leBuf /\ Echo(<<"bs">>)
DoRight ==
    /\ Typing /\ leCursor < Len(leBuf) /\ leCursor' = leCursor + 1 /\ UNCHANGED leBuf
    /\ Echo(<<leBuf[leCursor + 1]>>)
DoHome == Typing /\ leCursor' = 0 /\ UNCHANGED leBuf /\ Echo(Times("bs", leCursor))
DoEnd == Typing /\ leCursor' = Len(leBuf) /\ UNCHANGED leBuf /\ Echo(LeTail)

\* do_clear_line and replace_buffer: home, blanks over the line, back, and the new text.
ReplaceBuffer(text) ==
    /\ Typing /\ leBuf' = text /\ leCursor' = Len(text)
    /\ Echo(Times("bs", leCursor) \o Times(" ", Len(leBuf)) \o Times("bs", Len(leBuf)) \o text)

Enter ==
    /\ Typing /\ ts' = NoLine(Newline(ts)) /\ tsPhase' = "out" /\ leBuf' = <<>> /\ leCursor' = 0
    /\ UNCHANGED tsOffset

ScrollBack(n) == Min({tsOffset + n, Len(ts.back)})

\* PageUp, PageDown and Home in the terminal window.
PageBack == tsOffset' = ScrollBack(2) /\ UNCHANGED <<ts, leBuf, leCursor, tsPhase>>
PageForward == tsOffset' = Max({0, tsOffset - 2}) /\ UNCHANGED <<ts, leBuf, leCursor, tsPhase>>
ResetScroll == tsOffset' = 0 /\ UNCHANGED <<ts, leBuf, leCursor, tsPhase>>

\* render_terminal after the window got another size: when the heap cannot grow the buffer keeps
\* its size. Otherwise a new buffer gets the top rows of the old one, no scrollback, and the
\* cursor moved onto the screen. A line being typed is not redrawn.
Resize(size) ==
    /\ size # <<ts.cols, ts.rows>>
    /\ \/ UNCHANGED tsVars
       \/ /\ ts' = [TsNew(size) EXCEPT !.lines = TsRows(size, ts.lines[1]),
                                       !.col = Min({ts.col, size[1] - 1}), !.row = Min({ts.row, size[2] - 1})]
          /\ tsOffset' = 0
          /\ tsPhase' = IF tsPhase = "out" THEN "out" ELSE "lost"
          /\ UNCHANGED <<leBuf, leCursor>>

TsNext ==
    \/ \E b \in {"o", "nl", "bs", "cr", "up", "down", "right", "left", "clear"} : Print1(b)
    \/ \E ch \in TsChars : DoInsert(ch) \/ TabInsert(ch)
    \/ ReadLine \/ TabList \/ DoBackspace \/ DoDelete
    \/ DoLeft \/ DoRight \/ DoHome \/ DoEnd \/ Enter
    \/ \E n \in {0, TsMaxLen}, ch \in TsChars : ReplaceBuffer(Times(ch, n))
    \/ PageBack \/ PageForward \/ ResetScroll
    \/ \E s \in TsSizes : Resize(s)
TsSpec == TsInit /\ [][TsNext]_tsVars

\* visible_cells: rows of the scrollback from the offset, then rows of the screen.
VisibleCells ==
    IF tsOffset = 0 \/ Len(ts.back) = 0 THEN ts.lines
    ELSE LET start == Max({0, Len(ts.back) - tsOffset})
             k == Min({tsOffset, ts.rows})
         IN  SubSeq(ts.back, start + 1, Min({start + k, Len(ts.back)})) \o SubSeq(ts.lines, 1, ts.rows - k)

-----------------------------------------------------------------------------
TsTypeInv ==
    /\ tsPhase \in {"out", "line", "lost"}
    /\ Len(leBuf) <= TsMaxLen + 1 /\ leCursor \in 0 .. Len(leBuf)
    /\ Len(ts.lines) = ts.rows /\ ts.col < ts.cols /\ ts.row < ts.rows

\* While a line is typed the terminal's cursor stands where the editor's cursor is, over any
\* sequence of insertions, deletions, completions and moves, across wrapped rows and scrolling.
CursorsAgree == tsPhase = "line" =>
    (ts.row - ts.startRow) * ts.cols + ts.col - ts.startCol = leCursor

\* What the screen shows of the line that is typed: before the cursor every character of the
\* buffer, from the cursor on the character or a blank (a backspace blanks the cell it moves to,
\* so moving left or inserting takes the text behind the cursor off the screen), and past the end
\* of the line no character that was deleted. Rows that have scrolled away are not looked at.
LineShown == tsPhase = "line" =>
    \A r \in 0 .. ts.rows - 1, c \in 0 .. ts.cols - 1 :
        LET k == (r - ts.startRow) * ts.cols + c - ts.startCol + 1
            shown == ts.cells[r][c]
        IN CASE k \in 1 .. leCursor -> shown = leBuf[k]
             [] k \in leCursor + 1 .. Len(leBuf) -> shown \in {leBuf[k], " "}
             [] k > Len(leBuf) -> shown \notin TsChars
             [] OTHER -> TRUE

\* Paging back shows consecutive rows of what was printed, ending the offset above the bottom,
\* and always a full screen.
VisibleIsWindow ==
    LET all == ts.back \o ts.lines
    IN  VisibleCells = SubSeq(all, Len(all) - ts.rows - tsOffset + 1, Len(all) - tsOffset)

\* The scrollback and the screen hold the most recent rows without a gap, also at the limit.
RowsConsecutive ==
    LET all == ts.back \o ts.lines
    IN  \A i \in 1 .. Len(all) - 1 : all[i + 1] = Stamp(all[i] + 1)

(***************************************************************************)
(* ShellSession.  One shell session after another on the desktop's         *)
(* terminal: the launch flag and the one-shot command, the line editor's   *)
(* history and the session's, the pipeline that dispatch runs stage by     *)
(* stage through the pipe slots, and the captured output of WebAssembly    *)
(* programs. A line is the sequence of the kinds of its stages; what a     *)
(* stage prints is a sequence of lines.                                    *)
(***************************************************************************)

CONSTANTS
    ShLines,     \* the lines a user types, as the kinds of their commands
    ShControls,  \* the control commands typed, with their argument
    ShPresets,   \* the names of WALLPAPER_PRESETS
    ShHistMax,   \* HISTORY_MAX, and the capacity of the session's history
    ShCapMax     \* MAX_WASM_OUTPUT_BYTES

VARIABLES
    shMode,    \* "desktop", "prompt" (read_line), "stage" (between stages), "exec" (in a command), "wasm"
    shFlag,    \* ShellContext.launch_requested
    shPending, \* PENDING_SHELL_COMMAND, <<>> for none
    shOneShot, \* this session was started with an initial line
    shBuf,     \* LineEditor.buffer
    shHist,    \* LineEditor.history, newest first
    shBrowse,  \* LineEditor.browsing, 0 for None and i + 1 for Some(i)
    shSaved,   \* LineEditor.saved_line
    shSess,    \* the terminal's session history, newest first
    shStages,  \* the pipeline being dispatched
    shAt,      \* index of its current stage
    shPipe,    \* dispatch_inner's pipe_buffer, an Option
    shIn,      \* PIPE_STDIN, an Option
    shOut,     \* PIPE_STDOUT, an Option
    shCap,     \* WASM_OUTPUT, an Option of a length
    shLook,    \* STYLE_SEL, VARIANT_SEL and WALLPAPER_MODE
    shDue,     \* the desktop's full redraw was forced and a frame is due
    shShown,   \* the look of the last frame drawn (history variable)
    shSent     \* what the previous stage wrote (history variable)

shEdit == <<shBuf, shBrowse, shSaved>>
shHistories == <<shHist, shSess>>
shPipes == <<shPipe, shIn, shOut, shSent>>
shLaunch == <<shFlag, shPending, shOneShot>>
shDesk == <<shLook, shDue, shShown>>
shVars == <<shMode, shLaunch, shEdit, shHistories, shStages, shAt, shPipes, shCap, shDesk>>

\* Option values: <<>> is None, <<v>> is Some(v).
ShNone == <<>>

ShInit ==
    /\ shMode = "desktop" /\ shFlag = FALSE /\ shPending = <<>> /\ shOneShot = FALSE
    /\ shBuf = <<>> /\ shHist = <<>> /\ shBrowse = 0 /\ shSaved = <<>> /\ shSess = <<>>
    /\ shStages = <<>> /\ shAt = 0 /\ shPipe = ShNone /\ shIn = ShNone /\ shOut = ShNone
    /\ shCap = ShNone /\ shSent = <<>>
    /\ shLook = [style |-> "modern", variant |-> "dark", paper |-> "fullerene"]
    /\ shDue = FALSE /\ shShown = shLook

(***************************************************************************)
(* Launching.                                                              *)
(***************************************************************************)
\* The start menu, or a program opened in the file manager, asks for a shell while the desktop runs.
RequestShell ==
    /\ shMode \in {"desktop", "prompt"}
    /\ \E l \in {<<>>} \cup {<<"wasm">>} : shPending' = IF l = <<>> THEN shPending ELSE l
    /\ shFlag' = TRUE
    /\ UNCHANGED <<shMode, shOneShot, shEdit, shHistories, shStages, shAt, shPipes, shCap, shDesk>>

\* dispatch_inner's beginning: an empty line does nothing.
StartDispatch(l) == shStages' = l /\ shAt' = 1 /\ shSent' = <<>> /\ UNCHANGED <<shPipe, shIn, shOut>>

\* read_line begins: the buffer is cleared and the history is no longer browsed.
FreshLine == shBuf' = <<>> /\ shBrowse' = 0 /\ UNCHANGED shSaved

StaysForOneShot(line) == IF line = <<>> THEN "prompt" ELSE "stage"

\* scheduler_loop takes the flag and calls shell_main: a new Shell, with an empty editor; an
\* initial line is executed at once, otherwise the interactive loop prompts.
LaunchSession ==
    /\ shMode = "desktop" /\ shFlag
    /\ shFlag' = FALSE /\ shPending' = <<>> /\ shOneShot' = (shPending # <<>>)
    /\ shBuf' = <<>> /\ shBrowse' = 0 /\ shSaved' = <<>> /\ shHist' = <<>>
    /\ shMode' = StaysForOneShot(shPending)
    /\ IF shPending # <<>> THEN StartDispatch(shPending) ELSE UNCHANGED <<shStages, shAt, shPipes>>
    /\ UNCHANGED <<shSess, shCap, shDesk>>

\* run_with_initial_line after a line was executed: break on exit, return after an initial line,
\* otherwise the next prompt.

AfterLine(continue) == IF shOneShot \/ ~continue THEN "desktop" ELSE "prompt"

(***************************************************************************)
(* Reading a line.                                                         *)
(***************************************************************************)
ShAtPrompt == shMode = "prompt" /\ UNCHANGED <<shLaunch, shStages, shAt, shPipes, shCap, shDesk>>

\* Insertions, deletions, completion and Ctrl+U leave some other text in the buffer.
ShType ==
    /\ ShAtPrompt
    /\ \E l \in ShLines \cup {<<>>} : l # shBuf /\ shBuf' = l
    /\ UNCHANGED <<shMode, shBrowse, shSaved, shHistories>>

UpAllowed(i) == i + 1 < Len(shHist)

HistoryUp ==
    /\ ShAtPrompt
    /\ \/ shBrowse = 0 /\ shHist # <<>> /\ shBrowse' = 1 /\ shSaved' = shBuf
       \/ shBrowse > 0 /\ UpAllowed(shBrowse - 1) /\ shBrowse' = shBrowse + 1 /\ UNCHANGED shSaved
    /\ shBuf' = IF shBrowse' <= Len(shHist) THEN shHist[shBrowse'] ELSE <<>>
    /\ UNCHANGED <<shMode, shHistories>>

HistoryDown ==
    /\ ShAtPrompt /\ shBrowse > 0
    /\ shBrowse' = shBrowse - 1
    /\ shBuf' = IF shBrowse = 1 THEN shSaved ELSE shHist[shBrowse - 1]
    /\ UNCHANGED <<shMode, shSaved, shHistories>>

\* record_session_history and add_to_history: empty lines and repetitions are skipped, the
\* oldest entry makes room.

Remembered(h, l) ==
    IF l = <<>> \/ (h # <<>> /\ h[1] = l) THEN h
    ELSE <<l>> \o (IF Len(h) >= ShHistMax THEN Front(h) ELSE h)

\* Enter: the line enters both histories and is dispatched; an empty one only prompts again.
EnterLine ==
    /\ shMode = "prompt"
    /\ shHist' = Remembered(shHist, shBuf)
    /\ shSess' = IF shHist' # shHist THEN Remembered(shSess, shBuf) ELSE shSess
    /\ IF shBuf = <<>> THEN shMode' = "prompt" /\ UNCHANGED <<shStages, shAt, shPipes>>
       ELSE shMode' = "stage" /\ StartDispatch(shBuf)
    /\ FreshLine
    /\ UNCHANGED <<shLaunch, shCap, shDesk>>

\* Ctrl+C, and Ctrl+D on an empty line: read_line returns None and the loop prompts again.
Interrupted ==
    /\ ShAtPrompt /\ FreshLine /\ UNCHANGED <<shMode, shHistories>>

(***************************************************************************)
(* Dispatching.                                                            *)
(***************************************************************************)
ShLast == shAt = Len(shStages)
ShDispatching == UNCHANGED <<shLaunch, shEdit, shHistories, shStages>>

\* An unknown command is reported and ends the line; what the stage before it wrote is dropped.
UnknownCommand ==
    /\ shMode = "stage" /\ shStages[shAt] = "unknown"
    /\ shMode' = AfterLine(TRUE)
    /\ shPipe' = ShNone
    /\ shAt' = 0 /\ shSent' = <<>>
    /\ UNCHANGED <<shIn, shOut, shCap, shDesk>> /\ ShDispatching

\* The stage before's output becomes standard input, and all but the last stage's output is kept.
Arm == shOut' = IF ShLast THEN shOut ELSE <<<<>>>>

BeginStage ==
    /\ shMode = "stage" /\ shStages[shAt] # "unknown"
    /\ shIn' = IF shPipe # ShNone THEN shPipe ELSE shIn
    /\ shPipe' = ShNone
    /\ Arm
    /\ shMode' = "exec"
    /\ UNCHANGED <<shAt, shSent, shCap, shDesk>> /\ ShDispatching

\* The program's file was read: its output is captured from here on.
WasmStarts ==
    /\ shMode = "exec" /\ shStages[shAt] = "wasm"
    /\ shMode' = "wasm" /\ shCap' = <<0>>
    /\ UNCHANGED <<shAt, shPipes, shDesk>> /\ ShDispatching

\* A WebAssembly program prints while it runs; output past the limit is dropped.
Captured(n) == IF shCap[1] >= ShCapMax THEN shCap[1]
               ELSE IF n <= ShCapMax - shCap[1] THEN shCap[1] + n ELSE ShCapMax

WasmPrints ==
    /\ shMode = "wasm"
    /\ \E n \in 1 .. 2 : shCap' = <<Captured(n)>>
    /\ UNCHANGED <<shMode, shAt, shPipes, shDesk>> /\ ShDispatching

\* Terminal::write_str: into PIPE_STDOUT when it is armed, else onto the screen.
WriteStr(text) == IF shOut = ShNone THEN shOut ELSE <<shOut[1] \o text>>

(***************************************************************************)
(* What the commands write to their terminal, line by line. A line is the  *)
(* tuple of the words that tell it apart; a listing has up to two entries. *)
(***************************************************************************)
ShLine == <<"line">>
ShError == <<"error">>
ShUsage == <<"usage">>
Listing == {Times(ShLine, n) : n \in 0 .. 2}
OneReport == {<<ShLine>>, <<ShError>>}

\* The hooks that look at files, after what Vfs and Programs model of them: a listing or what a file
\* holds (nothing for an empty one), silence after a directory change, or an error.
LookHook(cmd) ==
    CASE cmd \in {"ls", "tree", "cat"} -> Listing \cup {<<ShError>>}
      [] cmd = "find" -> (Listing \ {<<>>}) \cup {<<<<"no matches">>>>, <<ShError>>}
      [] cmd = "cd" -> {<<>>, <<ShError>>}
      [] cmd = "pwd" -> OneReport
LookCommands == {"ls", "tree", "cat", "find", "cd", "pwd"}

\* The hooks that change the file system, and df: one report for each argument; mount without its
\* arguments lists the devices.
FsHook(cmd) ==
    CASE cmd \in {"cp", "mv", "write"} -> OneReport
      [] cmd \in {"rm", "mkdir", "touch"} -> OneReport \cup {r \o q : r, q \in OneReport}
      [] cmd = "df" -> {Times(ShLine, 3), <<ShError>>}
      [] cmd = "mount" -> OneReport \cup {<<ShUsage, ShUsage>> \o l : l \in Listing}
FsCommands == {"cp", "mv", "write", "rm", "mkdir", "touch", "df", "mount"}

\* The reports on the system and on the desktop's look; dmesg leaves out an empty log and an unknown codec.
InfoHook(cmd, look) ==
    CASE cmd \in {"mem", "metrics", "cpuinfo", "tasks", "taskmon"} -> {<<ShLine>>}
      [] cmd \in {"calc", "windows"} -> {<<ShUsage, ShUsage>>}
      [] cmd = "run" -> {Times(ShUsage, n) : n \in 2 .. 3}
      [] cmd = "devices" -> {<<ShError>>} \cup {<<ShLine, ShLine>> \o l : l \in Listing \ {<<>>}}
      [] cmd = "theme" -> {<<<<look.style, look.variant>>, ShUsage>>}
      [] cmd = "wallpaper" -> {<<<<look.paper>>, ShUsage>>}
      [] cmd = "dmesg" -> {log \o codec \o <<ShLine, ShLine>> : log, codec \in {<<>>, <<ShLine>>}}
InfoCommands == {"mem", "metrics", "cpuinfo", "tasks", "taskmon", "calc", "run", "windows", "devices",
                 "theme", "wallpaper", "dmesg"}

\* The commands that start a program, look at a device or list the packages.
ProbeHook(cmd) ==
    CASE cmd = "linux_run" -> {<<ShUsage>>} \cup {<<ShLine>> \o r : r \in OneReport}
      [] cmd \in {"run_busybox", "hello_linux", "sd_rescan", "date"} -> OneReport
      [] cmd = "usb_rescan" -> {<<ShLine>> \o r : r \in OneReport}
      [] cmd = "usb_info" -> {<<ShLine, ShLine>> \o n \o u : n \in Listing,
                                                             u \in {<<ShError>>, <<ShLine, ShLine>>}}
      [] cmd = "pci" -> {<<ShLine, ShLine>> \o l : l \in Listing \cup {<<ShError>>}}
      [] cmd = "uptime" -> {<<ShLine>>}
      [] cmd = "sleep" -> {<<>>, <<ShError>>}
      [] cmd = "app_list" -> OneReport \cup {<<ShLine, ShLine>> \o l : l \in Listing \ {<<>>}}
      [] cmd = "app_catalog" -> {<<ShLine>>}
ProbeCommands == {"linux_run", "run_busybox", "hello_linux", "sd_rescan", "date", "usb_rescan", "usb_info",
                  "pci", "uptime", "sleep", "app_list", "app_catalog"}

\* history: the session's lines, oldest first.
HistoryCommand == IF shSess = <<>> THEN {<<<<"no history">>>>} ELSE {Reverse(shSess)}

\* grep, sort and wc on files: the lines that match of each file, all of its lines, or one count.
FileFilter == {a \o b : a, b \in Listing \cup {<<ShError>>}} \cup OneReport

\* On standard input when there is any: grep keeps some lines, sort all in another order, wc counts
\* them. grep without a pattern does not look at it.
FilterHook ==
    IF shIn = ShNone THEN FileFilter \cup {<<ShUsage>>, <<ShUsage, ShUsage>>}
    ELSE LET t == shIn[1] IN
         {SelectSeq(t, LAMBDA l : l \in keep) : keep \in SUBSET Range(t)}
         \cup {[i \in DOMAIN t |-> t[order[i]]] : order \in Permutations(DOMAIN t)}
         \cup {<<ShLine>>, <<ShUsage, ShUsage>>}

\* wasm: the usage or why the file could not be read; once the program ran, what was captured of its
\* output and the exit code.
WasmHook ==
    IF shMode = "wasm" THEN {<<ShLine>> \o Times(<<"byte">>, shCap[1]) \o <<<<"exited">>>>}
    ELSE {<<ShUsage>>, <<ShLine, ShError>>}

\* The control hook. Each change of theme or wallpaper forces a redraw of the desktop; an unknown name
\* changes nothing. What the package commands do is in Programs; they report on the screen, past the pipe.
CtlHook(cmd, look) ==
    CASE cmd[1] = "theme" /\ cmd[2] \in {"dark", "light"} ->
            [look |-> [look EXCEPT !.variant = cmd[2]], redraw |-> TRUE]
      [] cmd = <<"theme", "toggle">> ->
            [look |-> [look EXCEPT !.variant = IF @ = "dark" THEN "light" ELSE "dark"], redraw |-> TRUE]
      [] cmd[1] = "theme" /\ cmd[2] \in {"classic", "modern"} ->
            [look |-> [look EXCEPT !.style = cmd[2]], redraw |-> TRUE]
      [] cmd = <<"theme", "toggle-style">> ->
            [look |-> [look EXCEPT !.style = IF @ = "modern" THEN "classic" ELSE "modern"], redraw |-> TRUE]
      [] cmd[1] = "wallpaper" /\ cmd[2] \in {"solid", "grid", "gradient"} \cup ShPresets ->
            [look |-> [look EXCEPT !.paper = cmd[2]], redraw |-> TRUE]
      [] OTHER -> [look |-> look, redraw |-> FALSE]

\* theme and wallpaper then report the look they left; reboot and shutdown announce themselves first.
CtlPrints(cmd, look) ==
    IF cmd[1] \in {"theme", "wallpaper"} THEN InfoHook(cmd[1], look)
    ELSE IF cmd[1] \in {"reboot", "shutdown"} THEN {<<ShLine>>}
    ELSE {<<>>, <<ShUsage>>}

Printed(kind) ==
    CASE kind = "fs" -> UNION ({LookHook(cmd) : cmd \in LookCommands} \cup {FsHook(cmd) : cmd \in FsCommands})
      [] kind = "info" -> UNION ({InfoHook(cmd, shLook) : cmd \in InfoCommands}
                                 \cup {ProbeHook(cmd) : cmd \in ProbeCommands})
      [] kind = "history" -> HistoryCommand
      [] kind = "filter" -> FilterHook
      [] kind = "wasm" -> WasmHook
      [] kind = "exit" -> {<<ShLine>>}

\* Mutated form of StdinAfter: input that a command did not take stays armed.
StdinAfterKept(kind) == IF kind = "filter" THEN ShNone ELSE shIn

\* clear_pipe_stdin, whether the command took its input or not.
StdinAfter(kind) == ShNone

\* dispatch_inner after the command: its output is collected, standard input is cleared, and the next
\* stage, the next prompt or the desktop follows.
FinishStage(kind, text) ==
    LET out == WriteStr(text) IN
    /\ shPipe' = IF ShLast \/ kind = "exit" THEN ShNone ELSE out
    /\ shOut' = IF ShLast THEN out ELSE ShNone
    /\ shIn' = StdinAfter(kind)
    /\ shCap' = ShNone
    /\ IF kind = "exit" \/ ShLast
       THEN /\ shMode' = AfterLine(kind # "exit") /\ shAt' = 0 /\ shSent' = <<>>
       ELSE /\ shMode' = "stage" /\ shAt' = shAt + 1 /\ shSent' = text
    /\ ShDispatching

ExecuteStage ==
    /\ shMode \in {"exec", "wasm"} /\ shStages[shAt] # "ctl"
    /\ \E text \in Printed(shStages[shAt]) : FinishStage(shStages[shAt], text)
    /\ UNCHANGED shDesk

\* A control command; the reset that reboot asks for comes at any later time.
ControlStage ==
    /\ shMode = "exec" /\ shStages[shAt] = "ctl"
    /\ \E cmd \in ShControls :
       LET r == CtlHook(cmd, shLook) IN
       /\ shLook' = r.look /\ shDue' = (shDue \/ r.redraw) /\ UNCHANGED shShown
       /\ \E text \in CtlPrints(cmd, r.look) : FinishStage("ctl", text)

\* shutdown halts in the hook for good, with the pipe as it is.
Shutdown ==
    /\ shMode = "exec" /\ shStages[shAt] = "ctl"
    /\ shMode' = "off"
    /\ UNCHANGED <<shAt, shPipes, shCap, shDesk>> /\ ShDispatching

\* The runtime's tick, in the desktop's loop and while read_byte waits, draws what is due.
DrawFrame ==
    /\ shMode \in {"desktop", "prompt"} /\ shDue
    /\ shShown' = shLook /\ shDue' = FALSE
    /\ UNCHANGED <<shLook, shMode, shLaunch, shEdit, shHistories, shStages, shAt, shPipes, shCap>>

ShNext ==
    \/ RequestShell \/ LaunchSession \/ ShType \/ HistoryUp \/ HistoryDown \/ EnterLine
    \/ Interrupted \/ UnknownCommand \/ BeginStage \/ WasmStarts \/ WasmPrints
    \/ ExecuteStage \/ ControlStage \/ Shutdown \/ DrawFrame

(***************************************************************************)
(* Properties.                                                             *)
(***************************************************************************)
ShTypeInv ==
    /\ shMode \in {"desktop", "prompt", "stage", "exec", "wasm", "off"}
    /\ shFlag \in BOOLEAN /\ shOneShot \in BOOLEAN
    /\ shAt \in 0 .. Len(shStages) /\ shBrowse \in Nat
    /\ Len(shPipe) <= 1 /\ Len(shIn) <= 1 /\ Len(shOut) <= 1 /\ Len(shCap) <= 1

\* The recall keys and the history command agree: what the line editor of this session offers is
\* exactly the newest part of what the terminal's session history shows, although the two lists are
\* kept, deduplicated and trimmed separately and only one of them survives the session.
SessionRemembers == IsPrefix(shHist, shSess) /\ Len(shSess) <= ShHistMax

\* Browsing never leaves the history, whatever is typed, entered or interrupted in between
\* (history[idx] would panic the kernel).
BrowseInHistory == shBrowse <= Len(shHist)

\* Every stage but the first reads exactly what the stage before it wrote, and nothing an earlier
\* line left behind (set_stdin, arm_pipe_stdout and take_stdout in dispatch_inner).
FedByPrevious ==
    shMode \in {"exec", "wasm"} =>
        shIn = IF shAt = 1 THEN ShNone ELSE <<shSent>>

\* However a line ends (exit in the middle, an unknown command, a program that printed), no pipe
\* slot and no capture is left armed: the next prompt's output reaches the screen.
NothingLeftArmed ==
    shMode \in {"desktop", "prompt"} =>
        shIn = ShNone /\ shOut = ShNone /\ shCap = ShNone

\* The desktop never keeps an old look: when theme or wallpaper changed what the last frame was drawn
\* with, in any stage of any line, a redraw is due when the desktop runs again.
LookShown == shLook # shShown => shDue

\* A session started to run one command returns to the desktop without reading the keyboard,
\* even when another shell was requested meanwhile.
OneShotNeverPrompts == shMode = "prompt" => ~shOneShot

--------------------------------------------------------------------------------
\* The cursor and the characters before it are where the line editor takes them to be, and the
\* shell feeds each command its own input.
TerminalSound ==
    /\ TsTypeInv /\ CursorsAgree /\ LineShown /\ VisibleIsWindow /\ RowsConsecutive
    /\ ShTypeInv /\ SessionRemembers /\ BrowseInHistory /\ FedByPrevious /\ NothingLeftArmed /\ OneShotNeverPrompts
    /\ LookShown
================================================================================
