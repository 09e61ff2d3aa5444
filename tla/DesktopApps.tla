------------------------------ MODULE DesktopApps ------------------------------
(***************************************************************************)
(* Two desktop programs: the network menu and the file explorer. The two   *)
(* parts share no state.                                                   *)
(***************************************************************************)
EXTENDS Integers, Sequences, FiniteSets, SequencesExt

(***************************************************************************)
(* NetworkMenu.  Choosing a wireless network on the desktop: the network   *)
(* menu and the password dialog of lattice's Desktop, the actions and the  *)
(* WifiService of solvent's network_manager, and the copy of the scan      *)
(* results that the event loop makes. Clicks and keys are handled between  *)
(* ticks; the list changes only in a tick.                                 *)
(***************************************************************************)

CONSTANTS
    NmLists,    \* scan results, sequences of [ssid, lock]
    NmMaxLen,   \* longest password, 64 in the code
    NmMaxQueue  \* bound on the requests between two ticks

ASSUME NmAssumption == NmMaxLen > 0

VARIABLES
    nmSnapshot, \* NETWORK_SNAPSHOT.aps
    nmShown,    \* desktop.ap_list
    nmMenu,     \* network_menu_open
    nmDialog,   \* pwd_dialog_open
    nmTarget,   \* pwd_target_ap, 0 for none
    nmSsid,     \* pwd_dialog_ssid
    nmPwd,      \* pwd_dialog_password: for each character, the network shown when it was typed
    nmCursor,   \* pwd_dialog_cursor
    nmQueue     \* WIFI_ACTION_QUEUE: [ssid, pwd, meant], meant being the network clicked on

nmVars == <<nmSnapshot, nmShown, nmMenu, nmDialog, nmTarget, nmSsid, nmPwd, nmCursor, nmQueue>>
nmDialogVars == <<nmDialog, nmTarget, nmSsid, nmPwd, nmCursor>>

NmNoSsid == "none"

NmInit ==
    /\ nmSnapshot = <<>> /\ nmShown = <<>> /\ nmMenu = FALSE /\ nmDialog = FALSE
    /\ nmTarget = 0 /\ nmSsid = NmNoSsid /\ nmPwd = <<>> /\ nmCursor = 0 /\ nmQueue = <<>>

\* The WiFi icon: nothing else is open.
ShowNetworkMenu ==
    /\ ~nmDialog /\ ~nmMenu /\ nmMenu' = TRUE
    /\ UNCHANGED <<nmSnapshot, nmShown, nmQueue, nmDialogVars>>

\* The dialog opens with an empty password.
OpenedText == [pwd |-> <<>>, cursor |-> 0]

\* A click on an entry of the menu: a locked network asks for the password ...
ClickLocked(i) ==
    /\ ~nmDialog /\ nmMenu /\ i \in DOMAIN nmShown /\ nmShown[i].lock
    /\ nmDialog' = TRUE /\ nmTarget' = i /\ nmSsid' = nmShown[i].ssid
    /\ nmPwd' = OpenedText.pwd /\ nmCursor' = OpenedText.cursor
    /\ nmMenu' = FALSE
    /\ UNCHANGED <<nmSnapshot, nmShown, nmQueue>>

\* ... an open one is connected to: ConnectAp looks the index up in the snapshot.
ClickOpen(i) ==
    /\ ~nmDialog /\ nmMenu /\ i \in DOMAIN nmShown /\ ~nmShown[i].lock
    /\ Len(nmQueue) < NmMaxQueue
    /\ nmQueue' = IF i \in DOMAIN nmSnapshot
                  THEN Append(nmQueue, [ssid |-> nmSnapshot[i].ssid, pwd |-> <<>>, meant |-> nmShown[i].ssid])
                  ELSE nmQueue
    /\ nmMenu' = FALSE
    /\ UNCHANGED <<nmSnapshot, nmShown, nmDialogVars>>

\* A click beside the menu.
DismissMenu ==
    /\ ~nmDialog /\ nmMenu /\ nmMenu' = FALSE
    /\ UNCHANGED <<nmSnapshot, nmShown, nmQueue, nmDialogVars>>

\* A click beside the dialog closes it; the text stays behind.
ClickOutsideDialog ==
    /\ nmDialog /\ nmDialog' = FALSE /\ nmTarget' = 0 /\ nmMenu' = FALSE
    /\ UNCHANGED <<nmSnapshot, nmShown, nmSsid, nmPwd, nmCursor, nmQueue>>

\* The dialog after SubmitPassword and DismissPasswordDialog.
CloseDialog ==
    /\ nmDialog' = FALSE /\ nmTarget' = 0 /\ nmPwd' = <<>> /\ nmCursor' = 0 /\ nmMenu' = FALSE
    /\ UNCHANGED <<nmSnapshot, nmShown, nmSsid>>

DismissPasswordDialog == nmDialog /\ CloseDialog /\ UNCHANGED nmQueue

SubmittedByIndex == nmSnapshot[nmTarget].ssid
\* The request names the network that the dialog shows.
SubmittedSsid == nmSsid

SubmitPassword ==
    /\ nmDialog /\ Len(nmQueue) < NmMaxQueue
    /\ nmQueue' = IF nmTarget = 0 THEN nmQueue
                  ELSE Append(nmQueue, [ssid |-> SubmittedSsid, pwd |-> nmPwd, meant |-> nmSsid])
    /\ CloseDialog

PasswordChar ==
    /\ nmDialog
    /\ IF nmCursor < NmMaxLen
       THEN nmPwd' = Append(nmPwd, nmSsid) /\ nmCursor' = nmCursor + 1
       ELSE UNCHANGED <<nmPwd, nmCursor>>
    /\ UNCHANGED <<nmSnapshot, nmShown, nmMenu, nmDialog, nmTarget, nmSsid, nmQueue>>

PasswordBackspace ==
    /\ nmDialog
    /\ nmPwd' = IF nmPwd = <<>> THEN <<>> ELSE SubSeq(nmPwd, 1, Len(nmPwd) - 1)
    /\ nmCursor' = IF nmCursor = 0 THEN 0 ELSE nmCursor - 1
    /\ UNCHANGED <<nmSnapshot, nmShown, nmMenu, nmDialog, nmTarget, nmSsid, nmQueue>>

\* update_ap_list with the snapshot that the service made in the same tick.
Copied(list) == list

\* A tick of the event loop: the service takes the requests; every twentieth tick it
\* projects the scan results, and the loop then copies them to the desktop.
NmTick(refresh) ==
    /\ nmQueue' = <<>>
    /\ IF refresh
       THEN \E list \in NmLists : nmSnapshot' = list /\ nmShown' = Copied(list)
       ELSE UNCHANGED <<nmSnapshot, nmShown>>
    /\ UNCHANGED <<nmMenu, nmDialogVars>>

NmNext ==
    \/ ShowNetworkMenu \/ DismissMenu \/ ClickOutsideDialog
    \/ \E i \in 1 .. 2 : ClickLocked(i) \/ ClickOpen(i)
    \/ DismissPasswordDialog \/ SubmitPassword \/ PasswordChar \/ PasswordBackspace
    \/ \E r \in BOOLEAN : NmTick(r)

NmSpec == NmInit /\ [][NmNext]_nmVars

--------------------------------------------------------------------------------
NmTypeInv == nmMenu \in BOOLEAN /\ nmDialog \in BOOLEAN /\ nmTarget \in 0 .. 2 /\ nmCursor \in Nat

\* A request to connect, open or with a password, names the network that the user clicked
\* on, although the list may be reordered between the click and the request.
ConnectsToChosen == \A i \in DOMAIN nmQueue : nmQueue[i].ssid = nmQueue[i].meant

\* What was typed for one network is never sent to another one, even after a dialog was
\* dismissed with text in it.
PasswordStaysWithNetwork ==
    \A i \in DOMAIN nmQueue : \A k \in DOMAIN nmQueue[i].pwd : nmQueue[i].pwd[k] = nmQueue[i].meant

\* The cursor is the length of the password and within the limit, and an open dialog has a
\* target, so that submitting it is never silently ignored.
DialogConsistent ==
    nmDialog => nmCursor = Len(nmPwd) /\ nmCursor <= NmMaxLen /\ nmTarget # 0 /\ ~nmMenu

(***************************************************************************)
(* Explorer.  The file manager of solvent: listing, selection, history,    *)
(* clipboard, the rename/delete dialogue, and the requests that the event  *)
(* loop serves outside the runtime lock.  A tick of the loop handles keys, *)
(* then clicks, then a queued navigation and a queued copy.  A directory   *)
(* is 0 (the root) or 1 (its only subdirectory); a path is <<directory,    *)
(* name>>; names are numbers in the order in which the listing sorts them. *)
(***************************************************************************)

CONSTANTS
    ExFiles,    \* the paths a file may have
    ExStart,    \* the files at the start
    ExMaxHist   \* bound on the history

ASSUME ExAssumption == ExStart \subseteq ExFiles

VARIABLES
    exFs,       \* the files of the VFS
    exPhase,    \* which part of tick_core runs: the keys, or the clicks and what follows
    exDir,      \* current_dir
    exRows,     \* raw_names
    exSel,      \* selected_index, 0 for none
    exHist, exPos,  \* history and history_pos (from 1)
    exMenu,     \* context_menu.open
    exClip,     \* clipboard: 0 or 1 path
    exOp,       \* pending_operation: 0 or 1 of <<kind, path>>
    exCopy,     \* pending_copy: 0 or 1 of [source, destination]
    exNav,      \* pending_navigation: 0 or 1 directory
    exChosen,   \* history: the path in the row that was last selected
    exFailed,   \* history: the last navigation failed
    exUse       \* bound: the entries of the menu that this behaviour uses

exVars == <<exUse, exFs, exPhase, exDir, exRows, exSel, exHist, exPos, exMenu, exClip, exOp,
            exCopy, exNav, exChosen, exFailed>>
exView == <<exDir, exRows, exHist, exPos, exFailed, exUse>>

ExSub == 1      \* the name of the subdirectory in the root
ExIsDir(path) == path = <<0, ExSub>>

\* readdir and sort_entries: directories first, then by name.
ExListing(d) ==
    SetToSortSeq({p[2] : p \in {q \in exFs : q[1] = d}} \cup (IF d = 0 THEN {ExSub} ELSE {}), <)
ExPath(i) == <<exDir, exRows[i]>>

ExInit ==
    /\ exFs = ExStart /\ exPhase = "keys" /\ exDir = 0 /\ exRows = <<>> /\ exSel = 0
    /\ exHist = <<0>> /\ exPos = 1 /\ exMenu = FALSE /\ exClip = {} /\ exOp = {} /\ exCopy = {}
    /\ exNav = {0} /\ exChosen = <<0, 0>> /\ exFailed = FALSE
    /\ exUse \in {{"open", "dismiss", "copy", "paste"}, {"open", "dismiss", "rename", "delete"}}

--------------------------------------------------------------------------------
\* activate_entry: a directory is navigated to; a file is launched by the event loop.
Activate(path) == exNav' = IF ExIsDir(path) THEN {1} ELSE exNav

\* Up and Down.
SelectKey(i) ==
    /\ exPhase = "keys" /\ exOp = {} /\ i \in DOMAIN exRows
    /\ i \in IF exSel = 0 THEN {Len(exRows) - 1, Len(exRows), 1, 2} ELSE {exSel - 1, exSel + 1, 1, Len(exRows)}
    /\ exSel' = i /\ exChosen' = ExPath(i)
    /\ UNCHANGED <<exFs, exPhase, exMenu, exClip, exOp, exCopy, exNav, exView>>

EnterKey ==
    /\ exPhase = "keys" /\ exOp = {} /\ exSel \in DOMAIN exRows
    /\ Activate(ExPath(exSel))
    /\ UNCHANGED <<exFs, exPhase, exSel, exMenu, exClip, exOp, exCopy, exChosen, exView>>

CancelKey ==
    /\ exPhase = "keys" /\ exOp # {} /\ exOp' = {}
    /\ UNCHANGED <<exFs, exPhase, exSel, exMenu, exClip, exCopy, exNav, exChosen, exView>>

\* commit_pending_operation, the delete.
CommitDelete(ok) ==
    /\ exPhase = "keys" /\ \E o \in exOp : o[1] = "delete"
                             /\ exFs' = IF ok THEN exFs \ {o[2]} ELSE exFs
    /\ exOp' = {} /\ exNav' = IF ok THEN {exDir} ELSE exNav
    /\ UNCHANGED <<exPhase, exSel, exMenu, exClip, exCopy, exChosen, exView>>

\* commit_pending_operation, the rename: to a free name of the same directory.
CommitRename(name, ok) ==
    /\ exPhase = "keys"
    /\ \E o \in exOp : /\ o[1] = "rename"
                       /\ LET d == <<o[2][1], name>>
                              moves == ok /\ d # o[2] /\ d \notin exFs /\ d \in ExFiles
                          IN /\ exFs' = IF moves THEN (exFs \ {o[2]}) \cup {d} ELSE exFs
                             /\ exNav' = IF moves THEN {exDir} ELSE exNav
    /\ exOp' = {}
    /\ UNCHANGED <<exPhase, exSel, exMenu, exClip, exCopy, exChosen, exView>>

--------------------------------------------------------------------------------
\* handle_explorer_click: a row; double when it is selected and was clicked a moment ago.
ClickRow(i, double) ==
    /\ exPhase = "clicks" /\ ~exMenu /\ i \in DOMAIN exRows
    /\ exSel' = i /\ exChosen' = ExPath(i)
    /\ IF double /\ exSel = i THEN Activate(ExPath(i)) ELSE UNCHANGED exNav
    /\ UNCHANGED <<exFs, exPhase, exMenu, exClip, exOp, exCopy, exView>>

\* The right button: on a row, or on the empty part of the list.
RightClick(i) ==
    /\ exPhase = "clicks" /\ ~exMenu /\ i \in 0 .. Len(exRows)
    /\ exMenu' = TRUE /\ exSel' = i /\ exChosen' = IF i = 0 THEN <<0, 0>> ELSE ExPath(i)
    /\ UNCHANGED <<exFs, exPhase, exClip, exOp, exCopy, exNav, exView>>

\* unique_destination: the copy's own name, or the first free " - Copy n".
Destination(source) ==
    IF <<exDir, source[2]>> \notin exFs THEN <<exDir, source[2]>>
    ELSE <<exDir, CHOOSE n \in 3 .. 9 : <<exDir, n>> \notin exFs /\ \A m \in 3 .. n - 1 : <<exDir, m>> \in exFs>>

\* dispatch_context_action; "dismiss" is a click beside the menu.
MenuClick(action) ==
    /\ exPhase = "clicks" /\ exMenu /\ exMenu' = FALSE
    /\ LET path == IF exSel \in DOMAIN exRows THEN {ExPath(exSel)} ELSE {}
       IN /\ IF action = "open" /\ path # {} THEN \E p \in path : Activate(p) ELSE UNCHANGED exNav
          /\ exClip' = IF action = "copy" /\ path # {} THEN path ELSE exClip
          /\ exOp' = IF action \in {"rename", "delete"} /\ path # {} THEN {<<action, p>> : p \in {q \in path : ~ExIsDir(q)}} ELSE exOp
          /\ exCopy' = IF action = "paste" /\ exClip # {}
                       THEN {c \in {[source |-> s, destination |-> Destination(s)] : s \in {x \in exClip : ~ExIsDir(x)}} :
                               c.destination \in ExFiles}
                       ELSE exCopy
    /\ UNCHANGED <<exFs, exPhase, exSel, exChosen, exView>>

\* go_back and go_forward move in the history before the navigation is served.
GoTo(step) ==
    /\ exPhase = "clicks" /\ ~exMenu /\ exPos + step \in DOMAIN exHist
    /\ exPos' = exPos + step /\ exNav' = {exHist[exPos + step]}
    /\ UNCHANGED <<exFs, exPhase, exDir, exRows, exSel, exHist, exMenu, exClip, exOp, exCopy, exChosen, exFailed, exUse>>

\* go_up, refresh and the sidebar.
NavigateTo(d) ==
    /\ exPhase = "clicks" /\ ~exMenu /\ exNav' = {d}
    /\ UNCHANGED <<exFs, exPhase, exSel, exMenu, exClip, exOp, exCopy, exChosen, exView>>

--------------------------------------------------------------------------------
\* process_events begins; before it other parts of the system may change the files.
EndKeys(p) ==
    /\ exPhase = "keys" /\ exPhase' = "clicks"
    /\ exFs' \in {exFs, exFs \ {p}, exFs \cup ({p} \cap ExStart)}
    /\ UNCHANGED <<exSel, exMenu, exClip, exOp, exCopy, exNav, exChosen, exView>>

\* finish_navigation drops the selection.
SelectionAfter == 0

\* truncate(history_pos + 1) and push
HistoryWith(d) == Append(SubSeq(exHist, 1, exPos), d)

PosAfter(d) == Len(HistoryWith(d))

\* service_explorer_navigation and finish_navigation.
ServeNavigation(ok) ==
    IF exNav = {} THEN UNCHANGED <<exSel, exChosen, exDir, exRows, exHist, exPos, exFailed>>
    ELSE IF ~ok THEN exFailed' = TRUE /\ UNCHANGED <<exSel, exChosen, exDir, exRows, exHist, exPos>>
    ELSE \E d \in exNav :
           /\ exDir' = d /\ exRows' = ExListing(d) /\ exFailed' = FALSE
           /\ exSel' = SelectionAfter /\ exChosen' = IF SelectionAfter = 0 THEN <<0, 0>> ELSE exChosen
           /\ IF exHist[exPos] = d THEN UNCHANGED <<exHist, exPos>>
              ELSE /\ exPos < ExMaxHist
                   /\ exHist' = HistoryWith(d) /\ exPos' = PosAfter(d)

\* service_explorer_copy and finish_paste, which refreshes.
ServeCopy(ok) ==
    LET done == {c \in exCopy : ok /\ c.source \in exFs}
    IN /\ exFs' = exFs \cup {c.destination : c \in done}
       /\ exCopy' = {} /\ exNav' = IF done # {} THEN {exDir'} ELSE {}

\* The end of tick_core.
Serve(okNav, okCopy) ==
    /\ exPhase = "clicks" /\ exPhase' = "keys"
    /\ ServeNavigation(okNav) /\ ServeCopy(okCopy)
    /\ UNCHANGED <<exMenu, exClip, exOp, exUse>>

ExNext ==
    \/ \E i \in 0 .. Len(exRows) : SelectKey(i) \/ RightClick(i) \/ \E b \in BOOLEAN : ClickRow(i, b)
    \/ EnterKey \/ CancelKey
    \/ \E ok \in BOOLEAN : CommitDelete(ok) \/ (\E oc \in BOOLEAN : Serve(ok, oc))
                             \/ \E n \in {p[2] : p \in ExFiles} : CommitRename(n, ok)
    \/ \E a \in exUse : MenuClick(a)
    \/ \E s \in {-1, 1} : GoTo(s)
    \/ \E d \in {0, 1} : NavigateTo(d)
    \/ \E p \in ExStart : EndKeys(p)

ExSpec == ExInit /\ [][ExNext]_exVars

--------------------------------------------------------------------------------
ExTypeInv == exFs \subseteq ExFiles /\ exDir \in {0, 1} /\ exPos \in DOMAIN exHist /\ exSel \in 0 .. 9

\* What Enter, a double click, Copy, Rename and Delete act on is the entry that was in the
\* selected row when it was selected, although the listing may be replaced and sorted anew
\* between the two.
ActsOnChosen == exSel \in DOMAIN exRows => ExPath(exSel) = exChosen

\* The history position is the directory shown, unless a navigation is waiting or failed.
HistoryFollows == exNav = {} /\ ~exFailed => exHist[exPos] = exDir

\* A paste never replaces a file: its destination is free when the copy is made.
PasteNeverReplaces == \A c \in exCopy : c.destination \notin exFs

--------------------------------------------------------------------------------
\* The network menu and the explorer act on what the user chose, and lose or replace nothing.
AppsSound ==
    /\ NmTypeInv /\ ConnectsToChosen /\ PasswordStaysWithNetwork /\ DialogConsistent
    /\ ExTypeInv /\ ActsOnChosen /\ HistoryFollows /\ PasteNeverReplaces
================================================================================
