--------------------------------- MODULE Wasi ---------------------------------
(***************************************************************************)
(* The system interface of a WebAssembly program                           *)
(* (solvent/wasi/src/wasi.rs) and the run around it (runtime.rs).  The     *)
(* program passes vectors of buffers (iovs); a buffer outside its memory   *)
(* ends it with a trap.  A file has the bytes 1, 2, ...; characters typed  *)
(* and characters written are numbered too.  Buffers are moved in chunks   *)
(* of WaChunk bytes (4096).                                                *)
(***************************************************************************)
EXTENDS Integers, Sequences, FiniteSets, FiniteSetsExt, SequencesExt

CONSTANTS WaFiles,     \* file -> length
          WaDir,       \* directory: sequence of entry sizes (24 bytes and the name)
          WaDot,       \* size of the entry "."
          WaArgs,      \* lengths of the arguments, each with its NUL
          WaChunk, WaMaxFds, WaMaxBytes,
          WaIovs,      \* vectors the programs pass: sequences of [len, valid]
          WaOps        \* bound: calls of a program

ASSUME WaAssumption == WaChunk \in Nat \ {0} /\ WaMaxFds \in Nat /\ WaMaxBytes \in Nat /\ WaOps \in Nat

VARIABLES waUse,    \* what the program does
          waFd,     \* fd -> [file, offset], for the descriptors from 4 on
          waNext,   \* next_fd
          waBytes,  \* open_bytes
          waTyped,  \* characters that were typed
          waIn,     \* characters not read yet
          waGot,    \* characters the program has in its buffers, in order
          waSaid,   \* characters the program handed to fd_write
          waOut,    \* characters written to stdout
          waRead,   \* the last file read: [fd, from, bytes]
          waDir,    \* the listing: [cookie, seen, empty]
          waArgs,   \* what args_get wrote: <<>>, or the set of addresses and the pointers
          waState,  \* "run", "trap", or "end" with the exit code
          waCode, waLeft

waVars == <<waUse, waFd, waNext, waBytes, waTyped, waIn, waGot, waSaid, waOut, waRead, waDir, waArgs, waState, waCode, waLeft>>
waFiles == <<waFd, waNext, waBytes, waRead>>
waText == <<waTyped, waIn, waGot, waSaid, waOut>>
waEnd == <<waState, waCode>>

WaNoCode == -1
WaInit ==
    /\ waUse \in {"files", "text", "list", "args"}
    /\ waFd = <<>> /\ waNext = 4 /\ waBytes = 0
    /\ waTyped = 0 /\ waIn = <<>> /\ waGot = <<>> /\ waSaid = 0 /\ waOut = <<>>
    /\ waRead = [fd |-> 0, from |-> 0, bytes |-> <<>>] /\ waDir = [cookie |-> 0, seen |-> <<>>, empty |-> FALSE]
    /\ waArgs = [at |-> {}, ptrs |-> <<>>] /\ waState = "run" /\ waCode = WaNoCode /\ waLeft = WaOps

WaCalls == waState = "run" /\ waLeft > 0 /\ waLeft' = waLeft - 1
\* A host function that returns Err: the program stops where it is.
WaEnds(trapped) == waState' = (IF trapped THEN "trap" ELSE waState) /\ UNCHANGED waCode
WaLess(a, b) == IF a < b THEN a ELSE b
WaRange(from, n) == [i \in 1 .. n |-> from + i]

-------------------------------------------------------------------------------
\* The chunks in which the buffers of a vector are moved: position in the data, length, and the
\* bytes of it inside the program's memory.
ChunkAt(c) == (c - 1) * WaChunk
ChunkLen(len, c) == WaLess(WaChunk, len - ChunkAt(c))
WaTotal(iovs) == FoldLeft(LAMBDA a, v : a + v.len, 0, iovs)
Pieces(iovs) ==
    FlattenSeq([i \in DOMAIN iovs |->
        [c \in 1 .. ((iovs[i].len + WaChunk - 1) \div WaChunk) |->
            [from |-> WaTotal(SubSeq(iovs, 1, i - 1)) + ChunkAt(c),
             len |-> ChunkLen(iovs[i].len, c), room |-> iovs[i].valid - ChunkAt(c)]]])

\* fd_write: a chunk outside memory stops the program when the chunks before it are written.
FdWrite(iovs) ==
    LET ps == Pieces(iovs)
        bad == {k \in DOMAIN ps : ps[k].room < ps[k].len}
        n == IF bad = {} THEN Len(ps) ELSE Min(bad) - 1
        out == FlattenSeq([k \in 1 .. n |-> WaRange(waSaid + ps[k].from, ps[k].len)])
    IN /\ WaCalls /\ waOut' = waOut \o out
       /\ waSaid' = waSaid + (IF bad = {} THEN WaTotal(iovs) ELSE Len(out)) /\ WaEnds(bad # {})
       /\ UNCHANGED <<waUse, waFiles, waTyped, waIn, waGot, waDir, waArgs>>

\* fd_read of descriptor 0: chunk after chunk, until the input is out; a chunk that cannot be
\* stored stops the program, with its characters taken.
Unread(in, n) == SubSeq(in, n + 1, Len(in))
FromStdin(iovs) ==
    LET ps == Pieces(iovs)
        R[k \in 0 .. Len(ps)] ==
          IF k = 0 THEN [got |-> <<>>, in |-> waIn, more |-> TRUE, ok |-> TRUE]
          ELSE LET r == R[k - 1]
                   n == WaLess(ps[k].len, Len(r.in))
                   ok == n = 0 \/ n <= ps[k].room
               IN IF ~r.more THEN r
                  ELSE [got |-> IF ok THEN r.got \o SubSeq(r.in, 1, n) ELSE r.got, in |-> Unread(r.in, n),
                        more |-> ok /\ n = ps[k].len, ok |-> ok]
    IN R[Len(ps)]
FdReadStdin(iovs) ==
    LET r == FromStdin(iovs) IN
    /\ WaCalls /\ waIn' = r.in /\ waGot' = waGot \o r.got /\ WaEnds(~r.ok)
    /\ UNCHANGED <<waUse, waFiles, waTyped, waSaid, waOut, waDir, waArgs>>
\* The keyboard.
WaTypes ==
    /\ waState = "run" /\ waTyped < 4 /\ waTyped' = waTyped + 1 /\ waIn' = Append(waIn, waTyped + 1)
    /\ UNCHANGED <<waUse, waFiles, waGot, waSaid, waOut, waDir, waArgs, waEnd, waLeft>>

-------------------------------------------------------------------------------
\* path_open: the whole file is kept in memory.
PathOpen(f) ==
    LET room == Cardinality({fd \in DOMAIN waFd : waFd[fd].open}) + 4 < WaMaxFds /\ waBytes + WaFiles[f] <= WaMaxBytes IN
    /\ WaCalls
    /\ IF room
       THEN /\ waFd' = Append(waFd, [file |-> f, offset |-> 0, open |-> TRUE])
            /\ waNext' = waNext + 1 /\ waBytes' = waBytes + WaFiles[f]
       ELSE UNCHANGED <<waFd, waNext, waBytes>>
    /\ UNCHANGED <<waUse, waRead, waText, waDir, waArgs, waEnd>>
WaOpen(fd) == fd \in DOMAIN waFd /\ waFd[fd].open

\* fd_close; descriptor fd is 3 + fd here.
Released(fd) == waBytes - WaFiles[waFd[fd].file]
FdClose(fd) ==
    /\ WaCalls /\ WaOpen(fd)
    /\ waFd' = [waFd EXCEPT ![fd].open = FALSE] /\ waBytes' = Released(fd)
    /\ UNCHANGED <<waUse, waNext, waRead, waText, waDir, waArgs, waEnd>>

\* fd_seek: anywhere but before the start.
FdSeek(fd, delta, whence) ==
    LET base == CASE whence = "set" -> 0 [] whence = "cur" -> waFd[fd].offset [] OTHER -> WaFiles[waFd[fd].file]
    IN /\ WaCalls /\ base + delta >= 0 /\ waFd' = [waFd EXCEPT ![fd].offset = base + delta]
       /\ UNCHANGED <<waUse, waNext, waBytes, waRead, waText, waDir, waArgs, waEnd>>

\* fd_read of a file: buffer after buffer until one is not filled.
Advanced(at, n, len) == at + n
FileRead(fd, iovs) ==
    LET size == WaFiles[waFd[fd].file]
        R[i \in 0 .. Len(iovs)] ==
          IF i = 0 THEN [at |-> waFd[fd].offset, got |-> <<>>, more |-> TRUE, ok |-> TRUE]
          ELSE LET r == R[i - 1]
                   left == IF size > r.at THEN size - r.at ELSE 0
                   n == WaLess(iovs[i].len, left)
               IN IF ~r.more THEN r
                  ELSE IF n > iovs[i].valid THEN [r EXCEPT !.more = FALSE, !.ok = FALSE]
                  ELSE [at |-> Advanced(r.at, n, iovs[i].len), got |-> r.got \o WaRange(r.at, n), more |-> n = iovs[i].len, ok |-> TRUE]
    IN R[Len(iovs)]
FdReadFile(fd, iovs) ==
    LET r == FileRead(fd, iovs) IN
    /\ WaCalls
    /\ waFd' = [waFd EXCEPT ![fd].offset = r.at]
    /\ waRead' = [fd |-> fd, from |-> waFd[fd].offset, bytes |-> r.got] /\ WaEnds(~r.ok)
    /\ UNCHANGED <<waUse, waNext, waBytes, waText, waDir, waArgs>>

-------------------------------------------------------------------------------
\* fd_readdir: "." at cookie 0, then entries from the cookie on while they fit into the buffer.
NextCookie(idx) == idx + 2
WaListed(cookie, buf) ==
    LET dot == cookie = 0 /\ WaDot <= buf
        first == IF cookie = 0 THEN 0 ELSE cookie - 1
        used(k) == FoldLeft(+, IF dot THEN WaDot ELSE 0, SubSeq(WaDir, first + 1, k))
        last == CHOOSE k \in first .. Len(WaDir) :
                    /\ used(k) <= buf \/ k = first
                    /\ k = Len(WaDir) \/ used(k + 1) > buf
    IN (IF dot THEN <<[name |-> 0, next |-> 1]>> ELSE <<>>)
         \o [i \in 1 .. (last - first) |-> [name |-> first + i, next |-> NextCookie(first + i - 1)]]
FdReaddir(buf) ==
    LET l == WaListed(waDir.cookie, buf) IN
    /\ WaCalls
    /\ waDir' = [cookie |-> IF l = <<>> THEN waDir.cookie ELSE Last(l).next,
                 seen |-> waDir.seen \o [i \in DOMAIN l |-> l[i].name], empty |-> l = <<>> /\ \A i \in DOMAIN WaDir : WaDir[i] <= buf]
    /\ UNCHANGED <<waUse, waFiles, waText, waArgs, waEnd>>

-------------------------------------------------------------------------------
\* args_sizes_get and args_get: pointers at argv, the text at buf, one after the other.
ArgsSizes == [count |-> Len(WaArgs), size |-> FoldLeft(+, 0, WaArgs)]
ArgStart(buf, i) == buf + FoldLeft(+, 0, SubSeq(WaArgs, 1, i - 1))
ArgsGet(argv, buf) ==
    /\ WaCalls
    /\ waArgs' = [ptrs |-> [i \in DOMAIN WaArgs |-> ArgStart(buf, i) - buf],
                  at |-> UNION {(ArgStart(buf, i) - buf) .. (ArgStart(buf, i) - buf + WaArgs[i] - 1) : i \in DOMAIN WaArgs}]
    /\ UNCHANGED <<waUse, waFiles, waText, waDir, waEnd>>

\* The calls that only report change nothing; one that has something to report stops the program
\* when its buffer is outside memory.
WaReport(refused, ok) == WaCalls /\ WaEnds(~refused /\ ~ok) /\ UNCHANGED <<waUse, waFiles, waText, waDir, waArgs>>
FdFdstatGet(fd, ok) == WaReport(fd > 3 /\ ~WaOpen(fd - 3), ok)
FdFilestatGet(fd, ok) == WaReport(fd < 3 \/ (fd > 3 /\ ~WaOpen(fd - 3)), ok)
PathFilestatGet(f, ok) == WaReport(f \notin DOMAIN WaFiles, ok)
PrestatGet(fd, ok) == WaReport(fd # 3, ok)
EnvironGet(ok) == WaReport(FALSE, ok)
ClockTimeGet(monotonic, ok) == WaReport(~monotonic, ok)
\* random_get also stops the program when the processor has no number after ten tries.
RandomGet(rdrand, entropy, ok) == WaReport(~rdrand, ok /\ entropy)
WaReports ==
    \E ok \in BOOLEAN, fd \in {0, 3, 4}, yes \in BOOLEAN :
        \/ FdFdstatGet(fd, ok) \/ FdFilestatGet(fd, ok) \/ PathFilestatGet(fd, ok) \/ PrestatGet(fd, ok)
        \/ EnvironGet(ok) \/ ClockTimeGet(yes, ok) \/ RandomGet(yes, fd = 0, ok)
\* proc_exit: the code is kept, then the program is stopped.
ProcExit(code) ==
    /\ WaCalls /\ waCode' = code /\ waState' = "trap"
    /\ UNCHANGED <<waUse, waFiles, waText, waDir, waArgs>>
\* runtime::run: what it returns when the program has returned or was stopped.
RunCode(trapped) == IF waCode # WaNoCode THEN waCode ELSE IF trapped THEN 1 ELSE 0
RunReturns ==
    /\ waState \in {"run", "trap"} /\ waState' = "end" /\ waCode' = RunCode(waState = "trap")
    /\ UNCHANGED <<waUse, waFiles, waText, waDir, waArgs, waLeft>>

WaNext ==
    \/ waUse = "text" /\ \E iovs \in WaIovs : FdWrite(iovs) \/ FdReadStdin(iovs)
    \/ waUse = "text" /\ WaTypes
    \/ waUse = "files" /\ \E f \in DOMAIN WaFiles : PathOpen(f)
    \/ waUse = "files" /\ \E fd \in DOMAIN waFd : FdClose(fd)
    \/ waUse = "files" /\ \E fd \in DOMAIN waFd, iovs \in WaIovs : WaOpen(fd) /\ FdReadFile(fd, iovs)
    \/ waUse = "files" /\ \E fd \in DOMAIN waFd, d \in {-1, 1}, w \in {"set", "cur", "end"} : WaOpen(fd) /\ FdSeek(fd, d, w)
    \/ waUse = "list" /\ \E buf \in 24 .. 60 : FdReaddir(buf)
    \/ waUse = "args" /\ (ArgsGet(0, 8) \/ ProcExit(3))
    \/ WaReports
    \/ RunReturns

WaSpec == WaInit /\ [][WaNext]_waVars

-------------------------------------------------------------------------------
WaTypeInv ==
    /\ waState \in {"run", "trap", "end"} /\ waBytes \in Nat /\ waLeft \in 0 .. WaOps
    /\ waNext = Len(waFd) + 4 /\ waCode \in Int

\* open_bytes is the sum of the files that are open, through every order of open and close, and
\* neither limit is passed (wasi.rs:70-71).
OpenAccounted ==
    /\ waBytes = FoldLeft(LAMBDA a, d : IF d.open THEN a + WaFiles[d.file] ELSE a, 0, waFd)
    /\ waBytes <= WaMaxBytes /\ Cardinality({fd \in DOMAIN waFd : waFd[fd].open}) + 4 <= WaMaxFds

\* What the program reads from the keyboard is what was typed, in order and once, however its
\* buffers cut it; nothing that it has not got is taken, until a buffer outside its memory stops it.
StdinInOrder ==
    /\ IsPrefix(waGot, WaRange(0, waTyped))
    /\ waState = "run" => waGot \o waIn = WaRange(0, waTyped)

\* What reaches the terminal is what the program wrote, in order, through buffers and chunks.
StdoutInOrder == waOut = WaRange(0, waSaid)

\* A file read fills the buffers with consecutive bytes from the offset, never past the end of the
\* file, and the next read goes on where this one stopped.
ReadGoesOn == [waRead' # waRead => waFd'[waRead'.fd].offset = waRead'.from + Len(waRead'.bytes)]_waVars

\* A program that passes the last cookie on sees "." and every entry, each once and in order, with
\* whatever buffers, and an empty answer to a buffer that takes any entry means the end.
ListedOnce ==
    /\ waDir.seen = [i \in 1 .. Len(waDir.seen) |-> i - 1]
    /\ waDir.empty => Len(waDir.seen) = Len(WaDir) + 1

\* args_get writes inside the buffer whose size args_sizes_get gave, and fills it, with each
\* pointer at the start of an argument.
ArgsInBounds ==
    waArgs.ptrs # <<>> => waArgs.at = 0 .. (ArgsSizes.size - 1)

--------------------------------------------------------------------------------
\* Descriptors, standard streams, listings and arguments of WASI programs are accounted for.
WasiSound ==
    /\ WaTypeInv /\ OpenAccounted /\ StdinInOrder /\ StdoutInOrder /\ ListedOnce /\ ArgsInBounds
================================================================================
