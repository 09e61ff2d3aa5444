---------------------------------- MODULE MCSystem ----------------------------------
(***************************************************************************)
(* Programs, the WASI runtime, the terminal, the desktop and its           *)
(* applications side by side.  At the level of these modules they share no *)
(* state, so a behaviour is about one of them and the others stay at an    *)
(* initial state.                                                          *)
(***************************************************************************)
EXTENDS MediaApps, DesktopApps, Programs, Desktop, Terminal, Wasi

VARIABLE part   \* the part that this behaviour is about

EdFilesMC == {<<>>, <<"a", "cr", "nl">>, <<"nl", "lead", "cont">>, <<"cr">>}

ExFilesMC == {<<0, 2>>, <<0, 3>>}

ExStartMC == {<<0, 2>>}

IrDirs == <<<<"bin">>, <<"usr">>, <<"usr", "bin">>>>

NmListsMC == {<<>>, <<[ssid |-> "a", lock |-> FALSE], [ssid |-> "b", lock |-> TRUE]>>, <<[ssid |-> "b", lock |-> TRUE], [ssid |-> "a", lock |-> FALSE]>>, <<[ssid |-> "c", lock |-> TRUE]>>}

MCShLines == {<<"info", "filter">>, <<"fs", "ctl", "exit", "fs">>, <<"history", "wasm", "unknown">>}

MCShControls == {<<"theme", "toggle">>, <<"wallpaper", "unknown">>, <<"app", "run">>}

TsSizesMC == {<<3, 2>>, <<2, 3>>}

WaFilesMC == [f \in 1 .. 2 |-> f + 1]

WaDirMC == <<25, 27, 26>>

WaArgsMC == <<2, 3>>

WaIovsMC == {<<[len |-> 1, valid |-> 1]>>, <<[len |-> 1, valid |-> 1], [len |-> 3, valid |-> 3]>>, <<[len |-> 0, valid |-> 0], [len |-> 2, valid |-> 2], [len |-> 3, valid |-> 2]>>}

SysVars == <<part, edVars, exVars, irVars, ipVars, kfVars, mwVars, nmVars, piVars, suVars,
    shVars, tsVars, vwVars, waVars, wmVars>>

SysInit ==
    /\ part \in {"editor", "explorer", "initramfs", "input", "kernel files",
                 "media walk", "network menu", "program image",
                 "screen updates", "shell", "terminal screen",
                 "viewers", "wasi", "windows"}
    /\ EdInit /\ (part # "editor" => edFile = <<>>)
    /\ ExInit /\ (part # "explorer" => "copy" \in exUse)
    /\ IrInit
    /\ IpInit /\ (part # "input" => ipTop = "term")
    /\ KfInit /\ (part # "kernel files" => KfPackages \notin DOMAIN kfTree)
    /\ MwInit /\ (part # "media walk" => mwFmt = "rle" /\ mwEnd = 0)
    /\ NmInit
    /\ PiInit
    /\ SuInit
    /\ ShInit
    /\ TsInit /\ (part # "terminal screen" => ts.cols = 3)
    /\ VwInit
    /\ WaInit /\ (part # "wasi" => waUse = "args")
    /\ WmInit

SysNext ==
    \/ part = "editor" /\ EdNext
    \/ part = "explorer" /\ ExNext
    \/ part = "initramfs" /\ IrNext
    \/ part = "input" /\ IpNext
    \/ part = "kernel files" /\ KfNext
    \/ part = "media walk" /\ MwNext
    \/ part = "network menu" /\ NmNext
    \/ part = "program image" /\ PiNext
    \/ part = "screen updates" /\ SuNext
    \/ part = "shell" /\ ShNext
    \/ part = "terminal screen" /\ TsNext
    \/ part = "viewers" /\ VwNext
    \/ part = "wasi" /\ WaNext
    \/ part = "windows" /\ WmNext

\* The parts that this behaviour is not about stand still.
SysOthers ==
    /\ UNCHANGED part
    /\ IF part = "editor" THEN TRUE ELSE UNCHANGED edVars
    /\ IF part = "explorer" THEN TRUE ELSE UNCHANGED exVars
    /\ IF part = "initramfs" THEN TRUE ELSE UNCHANGED irVars
    /\ IF part = "input" THEN TRUE ELSE UNCHANGED ipVars
    /\ IF part = "kernel files" THEN TRUE ELSE UNCHANGED kfVars
    /\ IF part = "media walk" THEN TRUE ELSE UNCHANGED mwVars
    /\ IF part = "network menu" THEN TRUE ELSE UNCHANGED nmVars
    /\ IF part = "program image" THEN TRUE ELSE UNCHANGED piVars
    /\ IF part = "screen updates" THEN TRUE ELSE UNCHANGED suVars
    /\ IF part = "shell" THEN TRUE ELSE UNCHANGED shVars
    /\ IF part = "terminal screen" THEN TRUE ELSE UNCHANGED tsVars
    /\ IF part = "viewers" THEN TRUE ELSE UNCHANGED vwVars
    /\ IF part = "wasi" THEN TRUE ELSE UNCHANGED waVars
    /\ IF part = "windows" THEN TRUE ELSE UNCHANGED wmVars

SysSpec == SysInit /\ [][SysNext /\ SysOthers]_SysVars

-----------------------------------------------------------------------------
\* A part that a behaviour is not about keeps an initial state of its own behaviours, so
\* that a property of it only has to be evaluated where it moves.
DesktopParts == {"input", "screen updates", "windows"}
AppParts == {"explorer", "network menu"}
MediaParts == {"editor", "media walk", "viewers"}
TerminalParts == {"shell", "terminal screen"}
ProgramParts == {"initramfs", "kernel files", "program image"}


\* The terminal shows the line that the editor holds, its scrollback is what scrolled off, and the
\* shell feeds each command its own input, forgets no line and leaves no stale look on the desktop.
TerminalKept == part \in TerminalParts => TerminalSound

\* Programs are loaded whole from whole files, and a WASI program's descriptors and
\* streams are accounted for.
ProgramsKept ==
    /\ part \in ProgramParts => ProgramsSound
    /\ part = "wasi" => WasiSound

\* What a step of the desktop or of a program never does: give a window's keys to another,
\* lose a moved file or the place of a tiled window, stand still in a file that it walks
\* through, or read past the offset that it leaves.
SystemSteps == [][/\ part = "input" => DialogKeepsKeys /\ TerminalReadsOwn
                  /\ part = "kernel files" => MoveKeepsData
                  /\ part = "media walk" => WalkAdvances
                  /\ part = "wasi" => ReadGoesOn
                  /\ part = "windows" => TilingRestores]_SysVars
================================================================================
