------------------------------ MODULE NativeCalls ------------------------------
(***************************************************************************)
(* The native system calls: memory, kernel objects behind handles, and     *)
(* files. The three parts share no state.                                  *)
(***************************************************************************)
EXTENDS Integers, Sequences, FiniteSets, FiniteSetsExt, SequencesExt

(***************************************************************************)
(* NativeMemory.  map_memory, unmap_memory and protect_memory of a native  *)
(* program (fullerene-kernel/src/syscall/memory.rs) with the manager calls *)
(* they make (contexts/memory/mod.rs, memory_management/manager.rs).       *)
(* Addresses are counted in half pages, so that 2 is a page; pages 0 ..    *)
(* NmUser - 1 are user addresses.  Frames run out, and a page table for a  *)
(* mapping may be refused.                                                 *)
(***************************************************************************)

CONSTANTS NmUser,    \* user pages; the last ones are those of NEXT_VADDR
          NmArea,    \* the first page that NEXT_VADDR hands out
          NmFrames,  \* frames of the machine
          NmMax,     \* the longest range of map_memory and protect_memory, 128 MiB in the code
          NmOps      \* bound: calls of a behaviour

ASSUME NvAssumption == NmUser \in Nat /\ NmArea \in 0 .. NmUser /\ {NmFrames, NmMax, NmOps} \subseteq Nat

VARIABLES nmPage,   \* user page -> its entry [frame, flags], NmNone when unused
          nmFree,   \* frames that are free
          nmNext,   \* NEXT_VADDR, as a page
          nmLost,   \* frames that nothing names any more
          nmLast,   \* the last call
          nmLeft    \* calls still to come

nvVars == <<nmPage, nmFree, nmNext, nmLost, nmLast, nmLeft>>

NmNone == [frame |-> 0, flags |-> {}]
NmPages == 0 .. (NmUser - 1)
NvInit ==
    /\ nmPage = [p \in NmPages |-> NmNone] /\ nmFree = 1 .. NmFrames /\ nmNext = NmArea
    /\ nmLost = {} /\ nmLast = [op |-> "none", ok |-> TRUE, first |-> 0, len |-> 0, read |-> FALSE] /\ nmLeft = NmOps

NmPresent(page, p) == "present" \in page[p].flags
PagesIn(len) == (len + 1) \div 2
NmIsUser(addr) == addr \in 0 .. (2 * NmUser - 1)

\* Mutated form of Unmap: the frame goes back while the page stays mapped.
UnmapKeeps(st, p) ==
    IF NmPresent(st.page, p) THEN [st EXCEPT !.free = @ \cup {st.page[p].frame}] ELSE st

\* safe_unmap_page: a page that is not present is left as it is, without an error.
Unmap(st, p) ==
    IF NmPresent(st.page, p)
    THEN [st EXCEPT !.page[p] = NmNone, !.free = @ \cup {st.page[p].frame}] ELSE st

\* rollback_mapped_pages.
Rollback(st, ps) ==
    LET U[i \in 0 .. Len(ps)] == IF i = 0 THEN st ELSE Unmap(U[i - 1], ps[i])
    IN U[Len(ps)]

\* The loop of syscall_map_memory: page i takes a frame and is mapped over what was there,
\* unless the frames are out or the mapping number `bad` is refused.
MapPages(st, first, n, flags, bad) ==
    LET M[i \in 0 .. n] ==
          IF i = 0 THEN [st EXCEPT !.ok = TRUE]
          ELSE LET m == M[i - 1]
                   p == first + i - 1
                   f == Min(m.free)
                   done == [k \in 1 .. (i - 1) |-> first + k - 1]
               IN IF ~m.ok THEN m
                  ELSE IF m.free = {} \/ i = bad THEN [Rollback(m, done) EXCEPT !.ok = FALSE]
                  ELSE [m EXCEPT !.free = @ \ {f}, !.page[p] = [frame |-> f, flags |-> flags],
                                 !.lost = IF m.page[p].frame = 0 THEN @ ELSE @ \cup {m.page[p].frame}]
    IN M[n]

NmState == [page |-> nmPage, free |-> nmFree, lost |-> nmLost, ok |-> TRUE]
NmDone(op, first, len, read, st) ==
    /\ nmLeft > 0 /\ nmLeft' = nmLeft - 1
    /\ nmPage' = st.page /\ nmFree' = st.free /\ nmLost' = st.lost
    /\ nmLast' = [op |-> op, ok |-> st.ok, first |-> first, len |-> len, read |-> read]
NmRefused(op) == NmDone(op, 0, 0, FALSE, [NmState EXCEPT !.ok = FALSE]) /\ UNCHANGED nmNext

\* The flags of map_memory: a page is present only when it is to be read.
MapFlags(prot) ==
    {"user"} \cup (IF "read" \in prot THEN {"present"} ELSE {})
             \cup (prot \cap {"write"}) \cup (IF "exec" \in prot THEN {} ELSE {"no_execute"})

\* syscall_map_memory: an aligned hint is taken as it is, anything else gets the next area.
MapMemory(hint, len, prot, bad) ==
    IF len = 0 \/ len > NmMax \/ (hint # 0 /\ ~(NmIsUser(hint) /\ NmIsUser(hint + len - 1)))
    THEN NmRefused("map")
    ELSE LET fixed == hint # 0 /\ hint % 2 = 0
             first == IF fixed THEN hint \div 2 ELSE nmNext
         IN /\ first + PagesIn(len) <= NmUser   \* bound of the area
            /\ nmNext' = IF fixed THEN nmNext ELSE nmNext + PagesIn(len)
            /\ NmDone("map", first, len, "read" \in prot,
                      MapPages(NmState, first, PagesIn(len), MapFlags(prot), bad))

\* syscall_unmap_memory.
UnmapMemory(addr, len) ==
    IF len = 0 \/ addr % 2 # 0 \/ ~(NmIsUser(addr) /\ NmIsUser(addr + len - 1)) THEN NmRefused("unmap")
    ELSE /\ NmDone("unmap", addr \div 2, len, FALSE,
                   Rollback(NmState, [i \in 1 .. PagesIn(len) |-> (addr \div 2) + i - 1]))
         /\ UNCHANGED nmNext

\* get_page_flags: the flags of a page that is not present are not reported.
PageFlags(page, p) == IF NmPresent(page, p) THEN page[p].flags ELSE {}

\* The flags of protect_memory: any permission makes a page present, none at all leaves
\* only the user bit.
ProtectFlags(prot) ==
    IF prot = {} THEN {"user"}
    ELSE {"present", "user"} \cup (prot \cap {"write"})
                             \cup (IF "exec" \in prot THEN {} ELSE {"no_execute"})

\* The rollback: the first k pages get the flags that the first pass collected.
ProtRestored(st, old, first, k) ==
    [st EXCEPT !.ok = FALSE,
               !.page = [p \in NmPages |-> IF p \in first .. (first + k - 1)
                                          THEN [st.page[p] EXCEPT !.flags = PageFlags(old, p)]
                                          ELSE st.page[p]]]

\* syscall_protect_memory: every page must be used by an entry, present or not
\* (translate_address); when set_page_flags of page `bad` is refused, the pages before it are
\* rolled back.
Protect(st, first, n, flags, bad) ==
    LET P[i \in 0 .. n] ==
          IF i = 0 THEN st
          ELSE LET q == P[i - 1] IN
               IF ~q.ok THEN q
               ELSE IF i = bad THEN ProtRestored(q, st.page, first, i - 1)
               ELSE [q EXCEPT !.page[first + i - 1].flags = flags]
    IN P[n]
ProtectMemory(addr, len, prot, bad) ==
    LET first == addr \div 2
        n == PagesIn(len)
    IN IF \/ len = 0 \/ len > NmMax \/ addr % 2 # 0
          \/ ~(NmIsUser(addr) /\ NmIsUser(addr + len - 1))
          \/ \E i \in 0 .. (n - 1) : nmPage[first + i] = NmNone
       THEN NmRefused("protect")
       ELSE /\ NmDone("protect", first, len, prot # {},
                      Protect(NmState, first, n, ProtectFlags(prot), bad))
            /\ UNCHANGED nmNext

NmProts == {{"read"}, {"write"}, {"read", "write"}}
NvNext ==
    \/ \E hint \in {0, 2, 3, 2 * NmUser}, len \in {0, 2, 3, 4, 5}, prot \in NmProts, bad \in {0, 2} : MapMemory(hint, len, prot, bad)
    \/ \E addr \in {1, 2, 2 * NmArea, 2 * NmUser}, len \in {0, 1, 4} : UnmapMemory(addr, len)
    \/ \E addr \in {1, 2, 2 * NmArea}, len \in {0, 2, 4, 5}, prot \in NmProts \cup {{}}, bad \in {0, 2} : ProtectMemory(addr, len, prot, bad)

NvSpec == NvInit /\ [][NvNext]_nvVars

---------------------------------------------------------------------------
NvTypeInv == nmFree \subseteq 1 .. NmFrames /\ nmLost \subseteq 1 .. NmFrames /\ DOMAIN nmPage = NmPages

\* Every frame has one owner: it is free, behind exactly one page, or lost because another
\* page was mapped over its page, and no frame is two of these.
OneOwner ==
    \A f \in 1 .. NmFrames :
        Cardinality({p \in NmPages : nmPage[p].frame = f})
          + (IF f \in nmFree THEN 1 ELSE 0) + (IF f \in nmLost THEN 1 ELSE 0) = 1

\* The pages with a byte of the range of a call.
Touched(call, p) == p >= call.first /\ 2 * p < 2 * call.first + call.len

\* A call that fails half-way.  map_memory of readable pages leaves no page of the area
\* behind and gives every frame it took back (memory.rs:71-82); what it mapped over before
\* it failed is gone.  protect_memory leaves every present page its rights
\* (memory.rs:185-191); a page that was not present stays so and keeps its frame, although
\* the rollback takes the other flags from it, as get_page_flags reports none.
NmAllOrNothing ==
    [nmLeft' # nmLeft /\ ~nmLast'.ok =>
         \A p \in NmPages :
             \/ nmPage'[p] = nmPage[p]
             \/ /\ nmLast'.op = "map" /\ Touched(nmLast', p)
                /\ IF nmLast'.read THEN nmPage[p] # NmNone /\ nmPage'[p] = NmNone
                                   ELSE ~NmPresent(nmPage', p)
             \/ /\ nmLast'.op = "protect" /\ Touched(nmLast', p)
                /\ nmPage'[p].frame = nmPage[p].frame
                /\ ~NmPresent(nmPage, p) /\ ~NmPresent(nmPage', p)]_nvVars

\* What a successful map_memory returns is mapped to its end, each page with a frame of its
\* own; what a successful unmap_memory covers is not present any more; and after a
\* successful protect_memory every page of the range is present if any right was asked for,
\* also one that an earlier call had mapped without.
NmAsAnswered ==
    nmLast.ok =>
        \A p \in NmPages : Touched(nmLast, p) =>
            CASE nmLast.op = "map" -> nmPage[p].frame # 0
              [] nmLast.op = "unmap" -> ~NmPresent(nmPage, p)
              [] nmLast.op = "protect" -> nmPage[p].frame # 0 /\ NmPresent(nmPage, p) = nmLast.read
              [] OTHER -> TRUE

(***************************************************************************)
(* NativeObjects.  Channels, pipes, timers, sleeping and windows of native *)
(* programs (fullerene-kernel/src/syscall/{ipc,time,window,cap}.rs), and   *)
(* what the end of a process does to them.  A handle is the number of the  *)
(* slot, in the table of the process that presents it; slots are not used  *)
(* again (HandleTable models their reuse), so the first handle of every    *)
(* process is the same number.  Messages are numbered as they are sent.    *)
(***************************************************************************)

CONSTANTS NoProcs,   \* processes
          NoMax,     \* ChannelInner::max_messages
          NoEnd,     \* bound: the last tick of the clock
          NoOps      \* bound: calls of a behaviour

ASSUME NoAssumption == NoMax \in Nat /\ NoEnd \in Nat /\ NoOps \in Nat

VARIABLES noUse,     \* the calls the programs make beside those on handles
          noTab,     \* process -> handle table, a sequence of objects
          noQueue,   \* messages of the channel
          noSent,    \* history: messages accepted by channel_send
          noOut,     \* history: messages taken out, with whether the copy reached the buffer
          noWindow,  \* windows of the kernel: sequence of [visible, revoked]
          noEvent,   \* events: sequence of signaled
          noNow,     \* UPTIME_US
          noAsleep,  \* process -> deadline of its sleep, 0 when awake
          noEnded,   \* processes that have ended
          noPipes,   \* history: pipe_create calls that succeeded
          noLeft     \* calls still to come

noVars == <<noUse, noTab, noQueue, noSent, noOut, noWindow, noEvent, noNow, noAsleep, noEnded, noPipes, noLeft>>
noRest == <<noQueue, noSent, noOut, noWindow, noEvent, noNow, noAsleep, noEnded, noPipes>>

\* An object: its kind, what it names, and for a timer its deadline, its event handle, whether
\* it has fired and the process it was made in.
NoObj(kind, of) == [kind |-> kind, of |-> of, due |-> 0, fired |-> FALSE, maker |-> 0]
NoObject(p, h) == IF h \in DOMAIN noTab[p] THEN noTab[p][h] ELSE NoObj("none", 0)
Awake(p) == p \notin noEnded /\ noAsleep[p] = 0 /\ noLeft > 0 /\ noLeft' = noLeft - 1

\* What the programs have made before: process 1 a channel (syscall_channel_create), or every
\* process an event.
NoInit ==
    /\ noUse \in {"messages", "timers", "windows"}
    /\ noTab = [p \in NoProcs |-> IF noUse = "timers" THEN <<NoObj("event", p)>>
                              ELSE IF noUse = "messages" /\ p = 1 THEN <<NoObj("channel", 1)>> ELSE <<>>]
    /\ noQueue = <<>> /\ noSent = 0 /\ noOut = <<>> /\ noWindow = <<>>
    /\ noEvent = [p \in NoProcs |-> FALSE]
    /\ noNow = 0 /\ noAsleep = [p \in NoProcs |-> 0] /\ noEnded = {} /\ noPipes = 0 /\ noLeft = NoOps

\* alloc_handle.
With(p, obj) == [noTab EXCEPT ![p] = Append(@, obj)]
\* HandleTable::remove.
Without(p, h) == [noTab EXCEPT ![p][h] = NoObj("none", 0)]

\* syscall_channel_send.
HasRoom == Len(noQueue) < NoMax
ChannelSend(p, h) ==
    /\ Awake(p) /\ NoObject(p, h).kind = "channel" /\ HasRoom
    /\ noQueue' = Append(noQueue, noSent + 1) /\ noSent' = noSent + 1
    /\ UNCHANGED <<noTab, noOut, noWindow, noEvent, noNow, noAsleep, noEnded, noPipes>>

\* syscall_channel_recv: the message is off the queue when the copy to the buffer fails.
Remaining(q) == Tail(q)
ChannelRecv(p, h, fault) ==
    /\ Awake(p) /\ NoObject(p, h).kind = "channel" /\ noQueue # <<>>
    /\ noQueue' = Remaining(noQueue)
    /\ noOut' = Append(noOut, [msg |-> Head(noQueue), copied |-> ~fault])
    /\ UNCHANGED <<noTab, noSent, noWindow, noEvent, noNow, noAsleep, noEnded, noPipes>>

\* syscall_pipe_create: both ends, or neither when the numbers cannot be copied out.
PipeUndone(p, tab) ==
    LET n == Len(tab[p]) IN [tab EXCEPT ![p][n] = NoObj("none", 0), ![p][n - 1] = NoObj("none", 0)]
PipeCreate(p, fault) ==
    LET id == noPipes + 1
        both == [noTab EXCEPT ![p] = @ \o <<NoObj("reader", id), NoObj("writer", id)>>]
    IN /\ Awake(p)
       /\ noTab' = IF fault THEN PipeUndone(p, both) ELSE both
       /\ noPipes' = IF fault THEN noPipes ELSE id
       /\ UNCHANGED <<noQueue, noSent, noOut, noWindow, noEvent, noNow, noAsleep, noEnded>>

\* syscall_timer_create.
TimerCreate(p, h, due) ==
    /\ Awake(p) /\ NoObject(p, h).kind = "event"
    /\ noTab' = With(p, [kind |-> "timer", of |-> h, due |-> due, fired |-> FALSE, maker |-> p])
    /\ UNCHANGED noRest

\* check_and_fire_timers: the timers that are due and have not fired signal the event behind
\* their handle, in the table of the process that holds the timer.
Due(obj, now) == obj.kind = "timer" /\ ~obj.fired /\ now >= obj.due
Fires(e, now) ==
    \E p \in NoProcs \ noEnded : \E h \in DOMAIN noTab[p] :
        /\ Due(noTab[p][h], now)
        /\ NoObject(p, noTab[p][h].of).kind = "event" /\ NoObject(p, noTab[p][h].of).of = e
TickUptime ==
    LET now == noNow + 1 IN
    /\ noNow < NoEnd /\ noNow' = now
    /\ noTab' = [p \in NoProcs |-> [h \in DOMAIN noTab[p] |->
                    IF Due(noTab[p][h], now) THEN [noTab[p][h] EXCEPT !.fired = TRUE] ELSE noTab[p][h]]]
    /\ noEvent' = [e \in DOMAIN noEvent |-> noEvent[e] \/ Fires(e, now)]
    /\ UNCHANGED <<noQueue, noSent, noOut, noWindow, noAsleep, noEnded, noPipes, noLeft>>

\* syscall_sleep, until the clock has reached the deadline.
Sleep(p, us) ==
    /\ Awake(p) /\ noAsleep' = [noAsleep EXCEPT ![p] = noNow + us]
    /\ UNCHANGED <<noTab, noQueue, noSent, noOut, noWindow, noEvent, noNow, noEnded, noPipes>>
SleepDone(p) ==
    /\ p \notin noEnded /\ noAsleep[p] # 0 /\ noNow >= noAsleep[p]
    /\ noAsleep' = [noAsleep EXCEPT ![p] = 0]
    /\ UNCHANGED <<noTab, noQueue, noSent, noOut, noWindow, noEvent, noNow, noEnded, noPipes, noLeft>>

\* syscall_create_window, destroy_window and present_window.
SyscallCreateWindow(p) ==
    /\ Awake(p)
    /\ noWindow' = Append(noWindow, [visible |-> TRUE, revoked |-> FALSE])
    /\ noTab' = With(p, NoObj("window", Len(noWindow) + 1))
    /\ UNCHANGED <<noQueue, noSent, noOut, noEvent, noNow, noAsleep, noEnded, noPipes>>
ShowWindow(p, h, visible) ==
    /\ Awake(p) /\ NoObject(p, h).kind = "window"
    /\ noWindow' = [noWindow EXCEPT ![NoObject(p, h).of].visible = visible]
    /\ UNCHANGED <<noTab, noQueue, noSent, noOut, noEvent, noNow, noAsleep, noEnded, noPipes>>

\* syscall_handle_transfer, duplicate and revoke.
HandleTransfer(p, h, q) ==
    /\ Awake(p) /\ q # p /\ q \notin noEnded /\ NoObject(p, h).kind # "none"
    /\ noTab' = [Without(p, h) EXCEPT ![q] = Append(@, noTab[p][h])]
    /\ UNCHANGED noRest
HandleDuplicate(p, h) ==
    /\ Awake(p) /\ NoObject(p, h).kind \notin {"none", "timer"}
    /\ noTab' = With(p, noTab[p][h])
    /\ UNCHANGED noRest
\* What a window gives up with a handle: the call itself leaves the window as it is.
Revoked(obj) == IF obj.kind = "window" THEN [noWindow EXCEPT ![obj.of].revoked = TRUE] ELSE noWindow
HandleRevoke(p, h) ==
    /\ Awake(p) /\ NoObject(p, h).kind # "none"
    /\ noTab' = Without(p, h) /\ noWindow' = Revoked(noTab[p][h])
    /\ UNCHANGED <<noQueue, noSent, noOut, noEvent, noNow, noAsleep, noEnded, noPipes>>

\* ProcessResources::cleanup: every handle is removed and every window behind one is hidden.
Hidden(p) ==
    [w \in DOMAIN noWindow |->
        [noWindow[w] EXCEPT !.visible = @ /\ ~\E h \in DOMAIN noTab[p] : noTab[p][h].kind = "window" /\ noTab[p][h].of = w]]
ProcessEnds(p) ==
    /\ Awake(p) /\ noEnded' = noEnded \cup {p}
    /\ noTab' = [noTab EXCEPT ![p] = <<>>] /\ noWindow' = Hidden(p)
    /\ UNCHANGED <<noQueue, noSent, noOut, noEvent, noNow, noAsleep, noPipes>>

NoHandles == 1 .. 3
NoNext ==
    /\ UNCHANGED noUse
    /\ \/ /\ noUse = "messages"
          /\ \E p \in NoProcs, h \in NoHandles : ChannelSend(p, h) \/ \E fault \in BOOLEAN : ChannelRecv(p, h, fault)
       \/ noUse = "messages" /\ \E fault \in BOOLEAN : PipeCreate(1, fault)
       \/ noUse = "timers" /\ \E h \in NoHandles, due \in 1 .. 2 : TimerCreate(1, h, due)
       \/ noUse = "timers" /\ (Sleep(1, 1) \/ SleepDone(1))
       \/ noUse = "timers" /\ TickUptime
       \/ noUse = "windows" /\ SyscallCreateWindow(1)
       \/ noUse = "windows" /\ \E p \in NoProcs, h \in NoHandles, visible \in BOOLEAN : ShowWindow(p, h, visible)
       \/ \E p \in NoProcs, h \in NoHandles : (\E q \in NoProcs : HandleTransfer(p, h, q)) \/ HandleDuplicate(p, h) \/ HandleRevoke(p, h)
       \/ \E p \in NoProcs : ProcessEnds(p)

NoSpec == NoInit /\ [][NoNext]_noVars

---------------------------------------------------------------------------
NoTypeInv ==
    /\ noQueue \in Seq(1 .. noSent) /\ noNow \in 0 .. NoEnd
    /\ \A p \in NoProcs : noTab[p] \in Seq([kind : {"none", "event", "channel", "reader", "writer", "timer", "window"},
                                            of : Nat, due : Nat, fired : BOOLEAN, maker : NoProcs \cup {0}])

\* Whoever sends and whoever receives, the messages leave the channel in the order in which they
\* were accepted, each once; the channel never holds more than max_messages.
ChannelInOrder ==
    /\ [i \in DOMAIN noOut |-> noOut[i].msg] \o noQueue = [i \in 1 .. noSent |-> i]
    /\ Len(noQueue) <= NoMax

\* A pipe_create that cannot copy the two handles out leaves neither end in the table
\* (ipc.rs:119-123).
PipeWhole == [noPipes' = noPipes => \A p \in NoProcs : noTab'[p] # noTab[p] /\ Len(noTab'[p]) = Len(noTab[p]) + 2 =>
                    \A h \in {Len(noTab[p]) + 1, Len(noTab[p]) + 2} : noTab'[p][h].kind = "none"]_noVars

\* A timer that its maker still holds, with its event, has set the event when the tick that
\* reaches its deadline is over, and a fired timer is one whose deadline has passed.
TimersFire ==
    [noNow' # noNow =>
         \A p \in NoProcs : \A h \in DOMAIN noTab[p] :
             LET t == noTab[p][h] IN
             t.kind = "timer" /\ t.maker = p =>
                 /\ noTab'[p][h].fired <=> noNow' >= t.due
                 /\ ~t.fired /\ noNow' >= t.due /\ NoObject(p, t.of).kind = "event" => noEvent'[NoObject(p, t.of).of]]_noVars

\* A window that is on the screen can be reached by a process, unless a handle to it was
\* revoked: the end of a process hides the windows it held (process.rs:347-359).
WindowReachable ==
    \A w \in DOMAIN noWindow : noWindow[w].visible /\ ~noWindow[w].revoked =>
        \E p \in NoProcs : \E h \in DOMAIN noTab[p] : noTab[p][h].kind = "window" /\ noTab[p][h].of = w

(***************************************************************************)
(* NativeFiles.  open, read, write and close of native programs            *)
(* (fullerene-kernel/src/syscall/fs.rs): the descriptor table of a process *)
(* (process.rs, FdSlotMap), the FileDesc it keeps with an offset of its    *)
(* own (fs.rs), the descriptor of the VFS behind it, and the keyboard      *)
(* behind descriptor 0.  The file has the bytes 1 .. NfSize.  A read       *)
(* copies into a user buffer that may fault.                               *)
(***************************************************************************)

CONSTANTS NfProcs, NfSize,   \* processes; size of the file
          NfVfs,             \* bound: VFS descriptors handed out
          NfKeys,            \* bound: characters typed
          NfOps              \* bound: calls of a behaviour

ASSUME NfAssumption == NfSize \in Nat /\ NfVfs \in Nat /\ NfKeys \in Nat /\ NfOps \in Nat

VARIABLES nfSlot,   \* process -> slots from descriptor 3 on: [vfs, offset], vfs = 0 for None
          nfPos,    \* VFS descriptor -> position, -1 when it is not open
          nfRead,   \* VFS descriptor -> bytes that reached the program
          nfGone,   \* VFS descriptor -> bytes taken by a read whose copy faulted
          nfLeft,   \* VFS descriptors that a process left open when it ended
          nfLine,   \* characters waiting: [char |-> INPUT_BUFFER, line |-> INPUT_STRING_BUFFER]
          nfTyped,  \* characters typed
          nfTaken,  \* characters that reads took from each of the two, in order
          nfEnded,  \* processes that have ended
          nfOps     \* calls still to come

nfVars == <<nfSlot, nfPos, nfRead, nfGone, nfLeft, nfLine, nfTyped, nfTaken, nfEnded, nfOps>>
nfKeyboard == <<nfLine, nfTyped, nfTaken>>

NfBuffers == {"char", "line"}
NfEmpty == [vfs |-> 0, offset |-> 0]
NfInit ==
    /\ nfSlot = [p \in NfProcs |-> <<>>] /\ nfPos = <<>> /\ nfRead = <<>> /\ nfGone = <<>> /\ nfLeft = {}
    /\ nfLine = [b \in NfBuffers |-> <<>>] /\ nfTyped = 0 /\ nfTaken = [b \in NfBuffers |-> <<>>] /\ nfEnded = {} /\ nfOps = NfOps

NfCalls(p) == p \notin nfEnded /\ nfOps > 0 /\ nfOps' = nfOps - 1

\* first_free_from(3), or one slot more.
FirstFree(slots) ==
    IF \E i \in DOMAIN slots : slots[i].vfs = 0
    THEN CHOOSE i \in DOMAIN slots : slots[i].vfs = 0 /\ \A k \in 1 .. (i - 1) : slots[k].vfs # 0
    ELSE Len(slots) + 1
\* FdSlotMap::insert.
Inserted(slots, i, d) == IF i > Len(slots) THEN Append(slots, d) ELSE [slots EXCEPT ![i] = d]

\* syscall_open: only for reading.
SyscallOpen(p) ==
    /\ NfCalls(p) /\ Len(nfPos) < NfVfs
    /\ nfPos' = Append(nfPos, 0) /\ nfRead' = Append(nfRead, <<>>) /\ nfGone' = Append(nfGone, 0)
    /\ nfSlot' = [nfSlot EXCEPT ![p] = Inserted(@, FirstFree(@), [vfs |-> Len(nfPos) + 1, offset |-> 0])]
    /\ UNCHANGED <<nfLeft, nfKeyboard, nfEnded>>

\* read_file: the VFS moves its position, FileDesc::offset follows.
ReadFile(d, n) == [d EXCEPT !.offset = @ + n]
NfAtMost(a, b) == IF a < b THEN a ELSE b
\* The bytes that the copy to the buffer takes out of the kernel's.
Reached(n, count) == n
SyscallRead(p, i, count, fault) ==
    LET d == nfSlot[p][i]
        n == NfAtMost(count, NfSize - nfPos[d.vfs])
    IN /\ NfCalls(p) /\ i \in DOMAIN nfSlot[p] /\ d.vfs # 0
       /\ nfPos' = [nfPos EXCEPT ![d.vfs] = @ + n]
       /\ nfSlot' = [nfSlot EXCEPT ![p][i] = ReadFile(d, n)]
       /\ nfRead' = IF fault THEN nfRead ELSE [nfRead EXCEPT ![d.vfs] = @ \o [k \in 1 .. Reached(n, count) |-> nfPos[d.vfs] + k]]
       /\ nfGone' = IF fault THEN [nfGone EXCEPT ![d.vfs] = @ + n] ELSE nfGone
       /\ UNCHANGED <<nfLeft, nfKeyboard, nfEnded>>

\* syscall_read of descriptor 0: one character comes from one buffer, several from the other, as
\* many as there are and as the program asked for.
Drained(buffer, count) == NfAtMost(count, Len(nfLine[buffer]))
SyscallReadKeyboard(p, count) ==
    LET b == IF count = 1 THEN "char" ELSE "line" IN
    /\ NfCalls(p)
    /\ nfTaken' = [nfTaken EXCEPT ![b] = @ \o SubSeq(nfLine[b], 1, NfAtMost(count, Len(nfLine[b])))]
    /\ nfLine' = [nfLine EXCEPT ![b] = SubSeq(@, Drained(b, count) + 1, Len(@))]
    /\ UNCHANGED <<nfSlot, nfPos, nfRead, nfGone, nfLeft, nfTyped, nfEnded>>
\* handle_press puts a character into both buffers (backspace is not typed here).
KeyTyped ==
    /\ nfTyped < NfKeys /\ nfTyped' = nfTyped + 1 /\ nfLine' = [b \in NfBuffers |-> Append(nfLine[b], nfTyped + 1)]
    /\ UNCHANGED <<nfSlot, nfPos, nfRead, nfGone, nfLeft, nfTaken, nfEnded, nfOps>>

\* syscall_close: the slot is emptied, then the VFS descriptor is closed.
Closed(v) == [nfPos EXCEPT ![v] = -1]
SyscallClose(p, i) ==
    /\ NfCalls(p) /\ i \in DOMAIN nfSlot[p] /\ nfSlot[p][i].vfs # 0
    /\ nfSlot' = [nfSlot EXCEPT ![p][i] = NfEmpty]
    /\ nfPos' = Closed(nfSlot[p][i].vfs)
    /\ UNCHANGED <<nfRead, nfGone, nfLeft, nfKeyboard, nfEnded>>

\* cleanup: the table is cleared, the VFS descriptors behind it stay open.
NfEnds(p) ==
    /\ NfCalls(p) /\ nfEnded' = nfEnded \cup {p}
    /\ nfSlot' = [nfSlot EXCEPT ![p] = [i \in DOMAIN @ |-> NfEmpty]]
    /\ nfLeft' = nfLeft \cup ({nfSlot[p][i].vfs : i \in DOMAIN nfSlot[p]} \ {0})
    /\ UNCHANGED <<nfPos, nfRead, nfGone, nfKeyboard>>

NfNext ==
    \/ \E p \in NfProcs : SyscallOpen(p) \/ NfEnds(p)
    \/ \E p \in NfProcs, i \in 1 .. NfVfs : SyscallClose(p, i)
    \/ \E p \in NfProcs, i \in 1 .. NfVfs, count \in {1, 2}, fault \in BOOLEAN : i \in DOMAIN nfSlot[p] /\ nfSlot[p][i].vfs # 0 /\ SyscallRead(p, i, count, fault)
    \/ \E p \in NfProcs, count \in 1 .. 2 : SyscallReadKeyboard(p, count)
    \/ KeyTyped

NfSpec == NfInit /\ [][NfNext]_nfVars

---------------------------------------------------------------------------
NfTypeInv ==
    /\ \A p \in NfProcs : nfSlot[p] \in Seq([vfs : 0 .. NfVfs, offset : 0 .. NfSize])
    /\ nfPos \in Seq(-1 .. NfSize) /\ nfTyped \in 0 .. NfKeys /\ nfOps \in 0 .. NfOps

\* Every VFS descriptor that is open is in exactly one slot of one process, or was left behind by
\* a process that ended; no slot names a descriptor that is closed.
OneSlotPerDescriptor ==
    \A v \in DOMAIN nfPos :
        LET owners == {<<p, i>> \in NfProcs \X (1 .. NfVfs) : i \in DOMAIN nfSlot[p] /\ nfSlot[p][i].vfs = v}
        IN IF nfPos[v] >= 0 /\ v \notin nfLeft THEN \E o \in owners : owners = {o} ELSE owners = {}

\* The offset a FileDesc keeps is the position of the VFS, which lseek and SeekFrom::Current
\* compute from (fs.rs:86-93, 128).
OffsetsAgree ==
    \A p \in NfProcs : \A i \in DOMAIN nfSlot[p] :
        nfSlot[p][i].vfs # 0 => nfSlot[p][i].offset = nfPos[nfSlot[p][i].vfs]

\* What reads returned, together with what was lost to faulting copies, is the file from its
\* start without a gap; without a fault it is the file itself.
ReadsInOrder ==
    \A v \in DOMAIN nfPos :
        /\ nfPos[v] >= 0 => Len(nfRead[v]) + nfGone[v] = nfPos[v]
        /\ \A i, k \in DOMAIN nfRead[v] : i < k => nfRead[v][i] < nfRead[v][k]

\* Characters typed reach the readers of descriptor 0 in order and once, however short their
\* buffers are, as long as all ask for one character or all for more: the two ways read two
\* buffers, each with every character.
KeysInOrder == \A b \in NfBuffers : nfTaken[b] \o nfLine[b] = [i \in 1 .. nfTyped |-> i]

--------------------------------------------------------------------------------
\* Pages, channels, windows and descriptors of native programs have one owner and keep their order.
NativeSound ==
    /\ NvTypeInv /\ OneOwner /\ NmAsAnswered
    /\ NoTypeInv /\ ChannelInOrder /\ WindowReachable
    /\ NfTypeInv /\ OneSlotPerDescriptor /\ OffsetsAgree /\ ReadsInOrder /\ KeysInOrder
================================================================================
