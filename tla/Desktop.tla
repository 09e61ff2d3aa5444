-------------------------------- MODULE Desktop --------------------------------
(***************************************************************************)
(* The desktop of the kernel: the path of input events to windows, the     *)
(* window manager, and the redrawing of the screen. The three parts share  *)
(* no state.                                                               *)
(***************************************************************************)
EXTENDS Integers, Sequences, FiniteSets, SequencesExt

(***************************************************************************)
(* InputPath.  Keystrokes from the PS/2 keyboard to the window or terminal *)
(* that uses them. The interrupt handler decodes one byte at a time, keeps *)
(* the modifiers, and queues every key twice: as a raw key for the         *)
(* desktop's poll and, when it has a character, in the two buffers the     *)
(* terminal and stdin read.  The poll of the desktop loop gates those      *)
(* buffers by what is on top, then drains the raw keys. Keys are numbered  *)
(* in the order the user moves them.                                       *)
(***************************************************************************)

CONSTANTS
    IpKeys,     \* keys of the keyboard used here
    IpMoves,    \* bound: presses and releases
    IpChanges,  \* bound: changes of the top window or dialog by clicks
    IpRawMax,   \* room of RAW_KEY_QUEUE (64)
    IpCharMax   \* room of INPUT_BUFFER and INPUT_STRING_BUFFER (256)

ASSUME IpAssumption == {IpMoves, IpChanges} \subseteq Nat /\ IpRawMax \in Nat \ {0} /\ IpCharMax \in Nat \ {0}

VARIABLES
    ipHeld,     \* keys the user holds down
    ipMoves,    \* presses and releases so far
    ipWire,     \* bytes on their way: <<"ext", key, n>>, <<"make", key, n>> or <<"break", key, n>>
    ipExt,      \* EXTENDED_SCANCODE
    ipMods,     \* MODIFIERS
    ipRaw,      \* RAW_KEY_QUEUE
    ipChars,    \* INPUT_BUFFER: the numbers of the presses
    ipLine,     \* INPUT_STRING_BUFFER
    ipAllowed,  \* TERMINAL_INPUT_ALLOWED
    ipTop,      \* topmost window: "term" or "other"
    ipDialog,   \* desktop.pwd_dialog_open
    ipChanges,  \* clicks so far
    ipPoll,     \* the desktop thread is in the drain loop of poll_keyboard
    ipLast,     \* history: last press handled by the interrupt handler
    ipRefused,  \* history: last press handled when a poll refused the terminal
    ipToDialog, \* history: presses the dialog took
    ipToTerm,   \* history: presses the terminal read
    ipDuring    \* history: presses that arrived inside a drain loop

ipVars == <<ipHeld, ipMoves, ipWire, ipExt, ipMods, ipRaw, ipChars, ipLine, ipAllowed, ipTop, ipDialog, ipChanges, ipPoll,
            ipLast, ipRefused, ipToDialog, ipToTerm, ipDuring>>
ipUser == <<ipHeld, ipMoves, ipWire, ipChanges>>
ipIrq == <<ipExt, ipMods, ipRaw, ipLast, ipDuring>>

IpExtended == {"rctrl"}
IpModifiers == {"shift", "rctrl"}
IpCharacters == IpKeys \ IpModifiers

IpInit ==
    /\ ipHeld = {} /\ ipMoves = 0 /\ ipWire = <<>>
    /\ ipExt = FALSE /\ ipMods = {} /\ ipRaw = <<>> /\ ipChars = <<>> /\ ipLine = <<>>
    /\ ipAllowed = TRUE /\ ipTop \in {"term", "other"} /\ ipDialog = FALSE /\ ipChanges = 0 /\ ipPoll = FALSE
    /\ ipLast = 0 /\ ipRefused = 0 /\ ipToDialog = {} /\ ipToTerm = {} /\ ipDuring = {}

\* The user presses or releases a key: an extended key sends its prefix first.
MoveKey(k) ==
    /\ ipMoves < IpMoves
    /\ ipMoves' = ipMoves + 1
    /\ ipHeld' = IF k \in ipHeld THEN ipHeld \ {k} ELSE ipHeld \cup {k}
    /\ ipWire' = ipWire
          \o (IF k \in IpExtended THEN << <<"ext", k, ipMoves + 1>> >> ELSE <<>>)
          \o << <<IF k \in ipHeld THEN "break" ELSE "make", k, ipMoves + 1>> >>
    /\ UNCHANGED <<ipIrq, ipChars, ipLine, ipAllowed, ipTop, ipChanges, ipDialog, ipPoll, ipRefused, ipToDialog, ipToTerm>>

\* The key a code names: a prefixed code is looked up among the extended keys only, and without
\* its prefix the right control key reads as the left one.
KeyRead(k, ext) == IF ext THEN (IF k \in IpExtended THEN k ELSE "none") ELSE (IF k = "rctrl" THEN "lctrl" ELSE k)
AddChar(buf, n) == IF Len(buf) < IpCharMax THEN Append(buf, n) ELSE buf
EditLine(buf, k, n) == IF k = "bksp" THEN (IF buf = <<>> THEN buf ELSE Front(buf)) ELSE AddChar(buf, n)

\* handle_keyboard_scancode: the prefix is remembered for one code.
AfterPrefix(byte) == byte = "ext"
Interrupt ==
    /\ ipWire # <<>>
    /\ LET byte == Head(ipWire)[1]
           n == Head(ipWire)[3]
           k == KeyRead(Head(ipWire)[2], ipExt)
           char == byte = "make" /\ ~ipExt /\ k \in IpCharacters
       IN /\ ipExt' = AfterPrefix(byte)
          /\ ipRaw' = IF byte = "ext" \/ Len(ipRaw) >= IpRawMax THEN ipRaw ELSE Append(ipRaw, <<byte, k, n>>)
          /\ ipMods' = IF byte = "ext" \/ k \notin IpModifiers \cup {"lctrl"} THEN ipMods
                       ELSE IF byte = "make" THEN ipMods \cup {k} ELSE ipMods \ {k}
          /\ ipChars' = IF char THEN AddChar(ipChars, n) ELSE ipChars
          /\ ipLine' = IF char THEN EditLine(ipLine, k, n) ELSE ipLine
          /\ ipLast' = n
          /\ ipDuring' = IF ipPoll THEN ipDuring \cup {n} ELSE ipDuring
    /\ ipWire' = Tail(ipWire)
    /\ UNCHANGED <<ipHeld, ipMoves, ipAllowed, ipTop, ipChanges, ipDialog, ipPoll, ipRefused, ipToDialog, ipToTerm>>

\* poll_keyboard: set_terminal_input_allowed empties both buffers when it refuses the terminal.
Allowed == ipTop = "term" /\ ~ipDialog
Refuse == ipChars' = <<>> /\ ipLine' = <<>>
PollStart ==
    /\ ~ipPoll
    /\ ipAllowed' = Allowed
    /\ IF Allowed THEN UNCHANGED <<ipChars, ipLine, ipRefused>> ELSE Refuse /\ ipRefused' = ipLast
    /\ ipPoll' = TRUE
    /\ UNCHANGED <<ipUser, ipIrq, ipTop, ipDialog, ipToDialog, ipToTerm>>

\* One raw key: the dialog takes it before any window; Enter submits and closes it.
PollKey ==
    /\ ipPoll /\ ipRaw # <<>>
    /\ LET kind == Head(ipRaw)[1]
           k == Head(ipRaw)[2]
       IN IF ipDialog /\ kind = "make"
          THEN ipDialog' = (k # "enter") /\ ipToDialog' = ipToDialog \cup {Head(ipRaw)[3]}
          ELSE UNCHANGED <<ipDialog, ipToDialog>>
    /\ ipRaw' = Tail(ipRaw)
    /\ UNCHANGED <<ipUser, ipExt, ipMods, ipLast, ipDuring, ipChars, ipLine, ipAllowed, ipTop, ipPoll, ipRefused, ipToTerm>>

PollEnd ==
    /\ ipPoll /\ ipRaw = <<>>
    /\ ipPoll' = FALSE
    /\ UNCHANGED <<ipUser, ipIrq, ipChars, ipLine, ipAllowed, ipTop, ipDialog, ipRefused, ipToDialog, ipToTerm>>

\* The rest of the tick: a click raises another window, or opens the password dialog.
DesktopChanges ==
    /\ ~ipPoll /\ ipChanges < IpChanges /\ ipChanges' = ipChanges + 1
    /\ \/ ipTop' = (IF ipTop = "term" THEN "other" ELSE "term") /\ UNCHANGED ipDialog
       \/ ~ipDialog /\ ipDialog' = TRUE /\ UNCHANGED ipTop
    /\ UNCHANGED <<ipHeld, ipMoves, ipWire, ipIrq, ipChars, ipLine, ipAllowed, ipPoll, ipRefused, ipToDialog, ipToTerm>>

\* read_char: the terminal's own read; a refused read empties the buffer.
ReadChar ==
    /\ ~ipPoll /\ ipChars # <<>>
    /\ IF ipAllowed
       THEN ipChars' = Tail(ipChars) /\ ipToTerm' = ipToTerm \cup {Head(ipChars)}
       ELSE ipChars' = <<>> /\ UNCHANGED ipToTerm
    /\ UNCHANGED <<ipUser, ipIrq, ipLine, ipAllowed, ipTop, ipDialog, ipPoll, ipRefused, ipToDialog>>

\* drain_line_buffer: a program reads what stdin has gathered.
DrainLine ==
    /\ ~ipPoll /\ ipLine # <<>>
    /\ ipLine' = <<>>
    /\ ipToTerm' = IF ipAllowed THEN ipToTerm \cup ToSet(ipLine) ELSE ipToTerm
    /\ UNCHANGED <<ipUser, ipIrq, ipChars, ipAllowed, ipTop, ipDialog, ipPoll, ipRefused, ipToDialog>>

IpNext ==
    \/ \E k \in IpKeys : MoveKey(k)
    \/ Interrupt \/ PollStart \/ PollKey \/ PollEnd \/ DesktopChanges \/ ReadChar \/ DrainLine

IpSpec == IpInit /\ [][IpNext]_ipVars

-----------------------------------------------------------------------------

\* Every variable keeps the type of the static it models.
IpTypeInv ==
    /\ ipHeld \subseteq IpKeys /\ ipMoves \in 0 .. IpMoves /\ ipChanges \in 0 .. IpChanges /\ ipMods \subseteq IpModifiers \cup {"lctrl"}
    /\ Len(ipRaw) <= IpRawMax /\ Len(ipChars) <= IpCharMax /\ Len(ipLine) <= IpCharMax
    /\ {ipExt, ipAllowed, ipDialog, ipPoll} \subseteq BOOLEAN /\ ipTop \in {"term", "other"}

\* Once every byte has been handled the modifiers are the modifier keys held down, whatever mix of
\* plain and prefixed keys was pressed and released in between (handle_keyboard_scancode).
ModifiersTrack == ipWire = <<>> => ipMods = ipHeld \cap IpModifiers

\* A key the password dialog took is never read afterwards by the terminal or by stdin behind it,
\* unless it arrived inside the drain loop of the poll that delivered it, after the gate.
DialogKeepsKeys == [(ipToTerm' \ ipToTerm) \cap ipToDialog \subseteq ipDuring]_ipVars

\* What the terminal or stdin reads was typed after the last poll that found another window on top:
\* keys typed for that window are dropped, not kept for later (set_terminal_input_allowed).
TerminalReadsOwn == [\A n \in ipToTerm' \ ipToTerm : n > ipRefused]_ipVars

(***************************************************************************)
(* WindowManager.  WindowManager and the window side of Desktop (lattice,  *)
(* wm.rs and desktop.rs): the stack of windows, focus, dragging,           *)
(* minimizing, maximizing, tiling, and the dirty rectangles from which the *)
(* next frame is drawn.  A window's rectangle is a place; set_work_area    *)
(* has no caller, so only the tiling commands tile.                        *)
(***************************************************************************)

CONSTANTS
    WmPlaces,   \* rectangles a window can be created at, moved or resized to
    WmMaxId,    \* bound on the windows created
    WmTitled    \* windows with a title bar: only they have buttons to hide and to maximize

ASSUME WmAssumption == WmPlaces # {} /\ WmMaxId \in Nat

VARIABLES
    wmWins,     \* windows, bottom to top
    wmFocused,  \* focused, 0 for none
    wmNextId,
    wmDrag,     \* window being moved or resized, 0 for none
    wmTiling,   \* tiling_mode is MasterStack
    wmSaved,    \* floating_restore: window -> place
    wmStale,    \* history: windows that changed since a frame and whose rectangle is not marked
    wmTiledAt   \* history: window -> its place when tiling was switched on

wmVars == <<wmWins, wmFocused, wmNextId, wmDrag, wmTiling, wmSaved, wmStale, wmTiledAt>>

WmIds(wins) == {wins[i].id : i \in DOMAIN wins}
WmIndex(wins, id) == CHOOSE i \in DOMAIN wins : wins[i].id = id
WmPlaceOf(wins, id) == wins[WmIndex(wins, id)].at
NoMap == [x \in {} |-> 0]
WorkArea == 100   \* the place of a maximized window
Master == 200     \* the place of the master tile; the stack's follow it

WmInit ==
    /\ wmWins = <<>> /\ wmFocused = 0 /\ wmNextId = 1 /\ wmDrag = 0 /\ wmTiling = FALSE
    /\ wmSaved = NoMap /\ wmStale = {} /\ wmTiledAt = NoMap

\* The window with this id gets the changes that F makes, if there is one.
Changed(wins, id, F(_)) == [i \in DOMAIN wins |-> IF wins[i].id = id THEN F(wins[i]) ELSE wins[i]]
Flagged(wins, id, b) == Changed(wins, id, LAMBDA w : [w EXCEPT !.focused = b])
RectOf(wins, id) == {wins[i].at : i \in {i \in DOMAIN wins : wins[i].id = id}}

VisibleSet(wins) == {wins[i].id : i \in {i \in DOMAIN wins : ~wins[i].min}}
Looks(wins, id) == {<<wins[i].at, wins[i].focused, wins[i].min>> : i \in {i \in DOMAIN wins : wins[i].id = id}}

\* dirty_rects: these rectangles are marked, and the next prepare_frame draws what lies in
\* them.  It may have run just before, so earlier marks do not count.
Marks(places) ==
    wmStale' = {id \in VisibleSet(wmWins') :
        /\ id \in wmStale \/ Looks(wmWins', id) # Looks(wmWins, id)
        /\ RectOf(wmWins', id) \cap places = {}}

\* push_window takes the focus from the window that has it.
CreateWindow(p) ==
    /\ wmNextId <= WmMaxId
    /\ wmNextId' = wmNextId + 1
    /\ wmFocused' = wmNextId
    /\ wmWins' = Append(Flagged(wmWins, wmFocused, FALSE),
                        [id |-> wmNextId, at |-> p, focused |-> TRUE, min |-> FALSE,
                         max |-> FALSE, restore |-> 0])
    /\ Marks(RectOf(wmWins, wmFocused) \cup {p})
    /\ UNCHANGED <<wmDrag, wmTiling, wmSaved, wmTiledAt>>

\* remove_window gives the focus to the topmost window left, hidden or not.
RemoveWindow(id) ==
    /\ id \in WmIds(wmWins)
    /\ LET left == SelectSeq(wmWins, LAMBDA w : w.id # id)
           next == IF left = <<>> THEN 0 ELSE left[Len(left)].id
       IN IF wmFocused # id
          THEN wmWins' = left /\ UNCHANGED wmFocused /\ Marks(RectOf(wmWins, id))
          ELSE /\ wmWins' = Flagged(left, next, TRUE) /\ wmFocused' = next
               /\ Marks(RectOf(wmWins, id) \cup RectOf(left, next))
    /\ UNCHANGED <<wmNextId, wmDrag, wmTiling, wmSaved, wmTiledAt>>

\* raise_to_top: to the end of the list, focused; the window focused before no longer is.
Raised(wins, id) ==
    Append(SelectSeq(Flagged(wins, wmFocused, FALSE), LAMBDA w : w.id # id),
           [wins[WmIndex(wins, id)] EXCEPT !.focused = TRUE])

RaisedDamage(wins, id) == RectOf(wins, id) \cup (IF wmFocused # id THEN RectOf(wins, wmFocused) ELSE {})

Raise(wins, id) ==
    /\ wmWins' = Raised(wins, id) /\ wmFocused' = id
    /\ Marks(RaisedDamage(wins, id))

\* Desktop::mouse_down on a taskbar button: a hidden window is restored, another raised.
TaskbarClick(id) ==
    /\ id \in WmIds(wmWins)
    /\ Raise(Changed(wmWins, id, LAMBDA w : [w EXCEPT !.min = FALSE]), id)
    /\ UNCHANGED <<wmNextId, wmDrag, wmTiling, wmSaved, wmTiledAt>>

\* on_mouse_down: on a resize handle or a title bar a drag starts, on the client area it
\* ends.  The hit tests do not ask whether the window is hidden.
MouseDownOn(id, drags) ==
    /\ id \in WmIds(wmWins)
    /\ Raise(wmWins, id)
    /\ wmDrag' = IF drags THEN id ELSE 0
    /\ UNCHANGED <<wmNextId, wmTiling, wmSaved, wmTiledAt>>

\* On none of the windows: nothing is focused any more.
MouseDownOutside ==
    /\ wmFocused' = 0 /\ wmDrag' = 0
    /\ wmWins' = [i \in DOMAIN wmWins |-> [wmWins[i] EXCEPT !.focused = FALSE]]
    /\ Marks({wmWins[i].at : i \in DOMAIN wmWins})
    /\ UNCHANGED <<wmNextId, wmTiling, wmSaved, wmTiledAt>>

\* on_mouse_move: the window dragged, if it still exists, is at p from now on.
WmMouseMove(p) ==
    /\ wmDrag \in WmIds(wmWins)
    /\ wmWins' = Changed(wmWins, wmDrag, LAMBDA w : [w EXCEPT !.at = p])
    /\ Marks(RectOf(wmWins, wmDrag) \cup {p})
    /\ UNCHANGED <<wmFocused, wmNextId, wmDrag, wmTiling, wmSaved, wmTiledAt>>

MouseUp ==
    /\ wmDrag' = 0
    /\ UNCHANGED <<wmWins, wmFocused, wmNextId, wmTiling, wmSaved, wmStale, wmTiledAt>>

\* minimize_window: the focus goes to the topmost window that shows.
Minimize(id) ==
    /\ id \in WmIds(wmWins) \cap WmTitled /\ ~wmWins[WmIndex(wmWins, id)].min
    /\ LET hid == Changed(wmWins, id, LAMBDA w : [w EXCEPT !.min = TRUE, !.focused = FALSE])
           shown == {i \in DOMAIN hid : ~hid[i].min}
           next == IF shown = {} THEN 0 ELSE hid[CHOOSE i \in shown : \A j \in shown : j <= i].id
       IN IF wmFocused # id
          THEN wmWins' = hid /\ UNCHANGED wmFocused /\ Marks(RectOf(wmWins, id))
          ELSE /\ wmWins' = Flagged(hid, next, TRUE) /\ wmFocused' = next
               /\ Marks(RectOf(wmWins, id) \cup RectOf(hid, next))
    /\ UNCHANGED <<wmNextId, wmDrag, wmTiling, wmSaved, wmTiledAt>>

\* toggle_maximize marks the rectangle that the window has afterwards.
ToggleMaximize(id) ==
    /\ id \in WmIds(wmWins) \cap WmTitled /\ ~wmWins[WmIndex(wmWins, id)].min
    /\ LET w == wmWins[WmIndex(wmWins, id)]
           v == IF w.max THEN [w EXCEPT !.max = FALSE, !.at = w.restore, !.restore = 0]
                ELSE [w EXCEPT !.max = TRUE, !.at = WorkArea, !.restore = w.at]
       IN /\ wmWins' = Changed(wmWins, id, LAMBDA x : v)
          /\ Marks({v.at})
    /\ UNCHANGED <<wmFocused, wmNextId, wmDrag, wmTiling, wmSaved, wmTiledAt>>

\* retile: the topmost window that shows is the master, the others form the stack.
VisibleIds(wins) == [i \in DOMAIN SelectSeq(wins, LAMBDA w : ~w.min) |->
                        SelectSeq(wins, LAMBDA w : ~w.min)[i].id]
TileOf(vis, id) ==
    LET i == CHOOSE i \in DOMAIN vis : vis[i] = id
    IN IF i = Len(vis) THEN Master ELSE Master + i

Tiled(wins) ==
    LET vis == VisibleIds(wins)
    IN [i \in DOMAIN wins |-> IF wins[i].min THEN wins[i]
                              ELSE [wins[i] EXCEPT !.at = TileOf(vis, wins[i].id)]]

TilePlaces == {Master} \cup {Master + i : i \in 1 .. WmMaxId}
\* toggle_tiling and retile as the menu and the Super-T key call them.  A place that
\* floating_restore already holds is kept.
TileOn ==
    /\ ~wmTiling /\ wmTiling' = TRUE
    /\ wmTiledAt' = [id \in VisibleSet(wmWins) |-> WmPlaceOf(wmWins, id)]
    /\ wmSaved' = [id \in VisibleSet(wmWins) \cup DOMAIN wmSaved |->
                     IF id \in DOMAIN wmSaved THEN wmSaved[id] ELSE WmPlaceOf(wmWins, id)]
    /\ wmWins' = Tiled(wmWins)
    /\ Marks(TilePlaces)
    /\ UNCHANGED <<wmFocused, wmNextId, wmDrag>>

\* restore_floating clears the map.
Forgotten == NoMap

TileOff ==
    /\ wmTiling /\ wmTiling' = FALSE
    /\ wmWins' = [i \in DOMAIN wmWins |-> IF wmWins[i].id \in DOMAIN wmSaved
                    THEN [wmWins[i] EXCEPT !.at = wmSaved[wmWins[i].id]] ELSE wmWins[i]]
    /\ Marks({wmSaved[id] : id \in DOMAIN wmSaved \cap WmIds(wmWins)})
    /\ wmSaved' = Forgotten /\ wmTiledAt' = NoMap
    /\ UNCHANGED <<wmFocused, wmNextId, wmDrag>>

\* relayout_maximized_windows, after the top panel was switched.
Relayout ==
    /\ \E i \in DOMAIN wmWins : wmWins[i].max
    /\ wmWins' = [i \in DOMAIN wmWins |-> IF wmWins[i].max THEN [wmWins[i] EXCEPT !.at = WorkArea] ELSE wmWins[i]]
    /\ Marks({WorkArea})
    /\ UNCHANGED <<wmFocused, wmNextId, wmDrag, wmTiling, wmSaved, wmTiledAt>>

WmNext ==
    \/ \E p \in WmPlaces : CreateWindow(p) \/ WmMouseMove(p)
    \/ \E id \in 1 .. WmMaxId :
         \/ RemoveWindow(id) \/ TaskbarClick(id) \/ Minimize(id) \/ ToggleMaximize(id)
         \/ \E d \in BOOLEAN : MouseDownOn(id, d)
    \/ MouseDownOutside \/ MouseUp \/ TileOn \/ TileOff \/ Relayout

WmSpec == WmInit /\ [][WmNext]_wmVars

--------------------------------------------------------------------------------
WmTypeInv ==
    /\ wmFocused \in 0 .. WmMaxId /\ wmDrag \in 0 .. WmMaxId /\ wmTiling \in BOOLEAN
    /\ \A i, j \in DOMAIN wmWins : i # j => wmWins[i].id # wmWins[j].id

\* The manager's focus and the flags of the windows agree after any mix of clicks, closing
\* and minimizing: the focused window exists and it alone is drawn as focused.
FocusAgrees ==
    /\ wmFocused # 0 => wmFocused \in WmIds(wmWins)
    /\ \A i \in DOMAIN wmWins : wmWins[i].focused <=> wmWins[i].id = wmFocused

\* Every window that shows is drawn as it is, at its place and with its focus, by the next
\* frame at the latest: no operation changes its look without marking its rectangle.
ShownOrMarked == wmStale = {}

\* Leaving the tiled layout puts every window that entered it back where it was, however
\* often the layout was switched and whatever was raised, hidden or dragged meanwhile.
TilingRestores ==
    [wmTiling /\ ~wmTiling' =>
        \A i \in DOMAIN wmWins' : wmWins'[i].id \in DOMAIN wmTiledAt =>
            wmWins'[i].at = wmTiledAt[wmWins'[i].id]]_wmVars

(***************************************************************************)
(* ScreenUpdates.  How a change of the desktop reaches the screen: dirty   *)
(* regions, the frame_due flag and its timer, the compositor's back        *)
(* buffer, the copy to the framebuffer and the cursor that is drawn on top *)
(* of it without a frame of its own. The screen is a row of cells, the     *)
(* cursor covers one cell.  A buffer is modelled by what each cell shows,  *)
(* the desktop as it is now ("new"), as it was ("old") or an overlay, and  *)
(* by the cells that hold an image of the cursor.                          *)
(***************************************************************************)

CONSTANT SuCells    \* the cells, 0 .. SuCells - 1

ASSUME SuAssumption == SuCells \in Nat \ {0}

VARIABLES
    suDirty,    \* wm.dirty_rects
    suFull,     \* needs_full_redraw
    suMoved,    \* cursor_moved and the previous position: 0 or 1 of a cell
    suDue,      \* frame_due
    suFrom,     \* cursor_redraw_from: 0 or 1 of a cell
    suCursor,   \* the cursor's cell
    suMode,     \* shell_state
    suPrevMode, \* PREV_SHELL_STATE
    suTrans,    \* PREV_TRANSITION
    suHasBack,  \* BACK_BUFFER is allocated
    suBack, suBackCur,   \* the back buffer
    suFb, suFbCur,       \* the framebuffer
    suLost      \* history: cells whose repaint was given up for want of memory

suVars == <<suDirty, suFull, suMoved, suDue, suFrom, suCursor, suMode, suPrevMode, suTrans,
            suHasBack, suBack, suBackCur, suFb, suFbCur, suLost>>
suBuffers == <<suHasBack, suBack, suBackCur, suFb, suFbCur, suLost>>

SuScreen == 0 .. SuCells - 1
SuModes == {"desktop", "overview"}
SuAll(x) == [c \in SuScreen |-> x]

SuInit ==
    /\ suDirty = {} /\ suFull = TRUE /\ suMoved = {} /\ suDue = TRUE /\ suFrom = {}
    /\ suCursor = 0 /\ suMode = "desktop" /\ suPrevMode = "desktop" /\ suTrans = FALSE
    /\ suHasBack = FALSE /\ suBack = SuAll("old") /\ suBackCur = {}
    /\ suFb = SuAll("old") /\ suFbCur = {} /\ suLost = {}

\* The desktop changed in a cell that a buffer shows.
Aged(b, c) == IF b[c] = "new" THEN [b EXCEPT ![c] = "old"] ELSE b

\* A window is written, moved, opened ...: the desktop wants something else in a cell, and
\* the window manager marks it.
DesktopChange(c) ==
    /\ suDirty' = suDirty \cup {c} /\ suDue' = TRUE
    /\ suBack' = Aged(suBack, c) /\ suFb' = Aged(suFb, c)
    /\ UNCHANGED <<suFull, suMoved, suFrom, suCursor, suMode, suPrevMode, suTrans, suHasBack,
                   suBackCur, suFbCur, suLost>>


\* cursor_redraw_from.get_or_insert(previous)
Origin == IF suFrom = {} THEN {suCursor} ELSE suFrom

\* MouseMove: a frame is requested on the desktop, and only a cursor update elsewhere.
MouseMove(c) ==
    /\ suCursor' = c /\ suFrom' = Origin
    /\ suMoved' = IF c = suCursor THEN suMoved ELSE {suCursor}
    /\ suDue' = (suDue \/ suMode = "desktop")
    /\ UNCHANGED <<suDirty, suFull, suMode, suPrevMode, suTrans, suBuffers>>

\* Super, Escape and clicks: another layer covers the whole screen.
SwitchMode(m) ==
    /\ m # suMode /\ suMode' = m /\ suDue' = TRUE
    /\ UNCHANGED <<suDirty, suFull, suMoved, suFrom, suCursor, suPrevMode, suTrans, suBuffers>>

\* chrono_tick: the frame timer.
FrameTimer ==
    /\ suMode = "desktop" /\ suDue' = TRUE
    /\ UNCHANGED <<suDirty, suFull, suMoved, suFrom, suCursor, suMode, suPrevMode, suTrans, suBuffers>>

\* force_desktop_redraw
ForceRedraw ==
    /\ suFull' = TRUE /\ suDue' = TRUE
    /\ UNCHANGED <<suDirty, suMoved, suFrom, suCursor, suMode, suPrevMode, suTrans, suBuffers>>

\* render: the regions that prepare_frame collects, after the origin of the cursor was added.
FrameCells ==
    suDirty \cup suFrom
        \cup (IF suFull \/ suMode # suPrevMode THEN SuScreen ELSE {})
        \cup (IF suMoved = {} THEN {} ELSE suMoved \cup {suCursor})

\* Compositor::render draws the bounding box of the regions; a layer draws everything.
Merged(cells) ==
    IF suMode # "desktop" THEN SuScreen
    ELSE {c \in SuScreen : \E a, b \in cells : a <= c /\ c <= b}

\* scene.cursor.take(): the back buffer stays free of the cursor.
BackCursor(cells) == suBackCur \ Merged(cells)

\* The part of the screen that is copied.
Blitted(cells) == IF suTrans \/ suMode # suPrevMode THEN SuScreen ELSE cells

\* blit_region: the framebuffer becomes the back buffer there; the cursor is drawn last.
Blit(region, back, backCur) ==
    /\ suFb' = [c \in SuScreen |-> IF c \in region THEN back[c] ELSE suFb[c]]
    /\ suFbCur' = (suFbCur \ region) \cup (region \cap backCur) \cup {suCursor}

\* render
Render(memory) ==
    LET cells == FrameCells
        back == [c \in SuScreen |-> IF c \notin Merged(cells) THEN suBack[c]
                                    ELSE IF suMode = "desktop" THEN "new" ELSE suMode]
    IN /\ suDue /\ suDue' = FALSE
       /\ suPrevMode' = suMode
       /\ suDirty' = {} /\ suFull' = FALSE /\ suMoved' = {}
       /\ IF cells = {}
          THEN /\ suTrans' = (suTrans \/ suMode # suPrevMode) /\ suFrom' = {}
               /\ UNCHANGED suBuffers
          ELSE IF ~suHasBack /\ ~memory
          THEN /\ suTrans' = FALSE /\ suLost' = suLost \cup cells
               /\ UNCHANGED <<suFrom, suHasBack, suBack, suBackCur, suFb, suFbCur>>
          ELSE /\ suTrans' = FALSE /\ suFrom' = {} /\ suHasBack' = TRUE
               /\ suBack' = back /\ suBackCur' = BackCursor(cells)
               /\ Blit(Blitted(cells), back, BackCursor(cells))
               /\ suLost' = suLost \ Blitted(cells)
       /\ UNCHANGED <<suCursor, suMode>>

\* render_cursor_fast: the old and the new place are restored from the back buffer.
Restored == suFrom \cup {suCursor}

RenderCursorFast ==
    /\ ~suDue /\ suFrom # {}
    /\ IF suHasBack
       THEN suFrom' = {} /\ Blit(Restored, suBack, suBackCur) /\ UNCHANGED suDue
       ELSE suDue' = TRUE /\ UNCHANGED <<suFrom, suFb, suFbCur>>
    /\ UNCHANGED <<suDirty, suFull, suMoved, suCursor, suMode, suPrevMode, suTrans, suHasBack,
                   suBack, suBackCur, suLost>>

SuNext ==
    \/ \E c \in SuScreen : DesktopChange(c) \/ MouseMove(c)
    \/ \E m \in SuModes : SwitchMode(m)
    \/ FrameTimer \/ ForceRedraw \/ RenderCursorFast
    \/ \E memory \in BOOLEAN : Render(memory)

SuSpec == SuInit /\ [][SuNext]_suVars

--------------------------------------------------------------------------------
SuTypeInv == suDirty \subseteq SuScreen /\ suFrom \subseteq SuScreen /\ suCursor \in SuScreen /\ suMode \in SuModes

\* Moving the pointer leaves no image of it behind, whichever of the two render paths runs
\* and however many moves a frame stands for: an image is where the pointer is, or where
\* the pending redraw starts from.
NoGhost == suFbCur \subseteq {suCursor} \cup suFrom

\* The back buffer never holds the cursor, so that restoring from it erases the cursor.
BackBufferClean == suBackCur = {}

\* A cell that shows something else than the desktop wants is marked for the next frame,
\* unless its repaint was given up for want of memory; switching to another layer counts
\* as a mark.
StaleIsMarked ==
    {c \in SuScreen : suFb[c] # IF suMode = "desktop" THEN "new" ELSE suMode}
        \subseteq suDirty \cup suLost \cup (IF suFull \/ suMode # suPrevMode THEN SuScreen ELSE {})

--------------------------------------------------------------------------------
\* Input state, focus, stacking and the pixels on the screen agree with the desktop's own records.
DesktopSound ==
    /\ IpTypeInv /\ ModifiersTrack
    /\ WmTypeInv /\ FocusAgrees /\ ShownOrMarked
    /\ SuTypeInv /\ NoGhost /\ BackBufferClean /\ StaleIsMarked
================================================================================
