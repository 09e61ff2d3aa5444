----------------------------- MODULE BlockDevices ------------------------------
(***************************************************************************)
(* Block devices (nitrogen storage and usb): the RTSX SD card reader,      *)
(* bulk-only mass storage, and the service that finds USB disks and mounts *)
(* them. The three parts share no state.                                   *)
(***************************************************************************)
EXTENDS Integers, Sequences, SequencesExt

(***************************************************************************)
(* SdReader.  The RTS5249 card reader (nitrogen storage/rtsx.rs):          *)
(* initialisation of the card, reading and writing a sector over three     *)
(* data paths of falling quality, and card detection.  The lock of         *)
(* CONTROLLER is held over each call, but the card is pulled and put back  *)
(* when its owner likes, so a call is a sequence of bus commands.  A       *)
(* request of several sectors is one such sequence per sector.  The card   *)
(* is external: it accepts a command only in the state that the command    *)
(* belongs to, and programs the sector it received by itself.              *)
(***************************************************************************)

CONSTANTS
    SdValues,       \* contents of a sector
    SdMaxCards      \* bound: cards inserted over time

ASSUME SdAssumption == SdMaxCards \in Nat /\ SdValues # {}

Types == {"sdsc", "sdhc", "sdxc"}
Rank == [sdma |-> 2, ppbuf |-> 1, pio |-> 0]
NoSd == [gen |-> 0, type |-> "sdsc"]
SdIdle == [kind |-> "none", pc |-> "", val |-> CHOOSE v \in SdValues : TRUE, card |-> NoSd]

VARIABLES
    sdSlot,         \* the inserted card: its identity (0: none) and type
    sdState,        \* what it is doing
    sdStored,       \* the sector on it
    sdInFlight,     \* the sector it is programming
    sdNext,         \* identity of the next card
    sdDma,          \* which of host_commands and data_buffer were allocated
    sdCard,         \* RtsxController::sd_card
    sdWas,          \* card_was_present
    sdPath,         \* data_path
    sdOp,           \* the call in progress
    sdAck           \* the last write, if it returned Ok: card and contents

sdVars == <<sdSlot, sdState, sdStored, sdInFlight, sdNext, sdDma, sdCard, sdWas, sdPath, sdOp, sdAck>>
sdHost == <<sdDma, sdCard, sdWas, sdPath, sdOp, sdAck>>
sdMedia == <<sdSlot, sdStored, sdInFlight, sdNext>>

SdTypeInv ==
    /\ sdSlot \in [gen : 0 .. SdMaxCards, type : Types]
    /\ sdState \in {"off", "idle", "ready", "ident", "stby", "tran", "rcv", "prg"}
    /\ {sdStored, sdInFlight} \subseteq SdValues
    /\ sdNext \in 1 .. SdMaxCards + 1
    /\ sdDma \in {"none", "commands", "both"}
    /\ sdCard \in [gen : 0 .. SdMaxCards, type : Types]
    /\ sdWas \in BOOLEAN
    /\ sdPath \in DOMAIN Rank
    /\ sdOp.kind \in {"none", "init", "read", "write"}
    /\ sdAck \in [gen : 0 .. SdMaxCards, val : SdValues]

\* DataPath::preferred
Preferred == CASE sdDma = "both" -> "sdma" [] sdDma = "commands" -> "ppbuf" [] OTHER -> "pio"
\* data_path_for_card
PathForCard(type, path) == IF type = "sdxc" /\ path = "sdma" THEN "ppbuf" ELSE path

\* init: the reader is registered without a card.
SdInit ==
    /\ sdSlot = NoSd /\ sdState = "off" /\ sdNext = 1
    /\ sdStored = SdIdle.val /\ sdInFlight = SdIdle.val
    /\ sdDma \in {"none", "commands", "both"}
    /\ sdCard = NoSd /\ sdWas = FALSE
    /\ sdPath = Preferred
    /\ sdOp = SdIdle
    /\ sdAck = [gen |-> 0, val |-> SdIdle.val]

-----------------------------------------------------------------------------
(* The card and its owner. *)

InsertCard(type) ==
    /\ sdSlot.gen = 0 /\ sdNext <= SdMaxCards
    /\ sdSlot' = [gen |-> sdNext, type |-> type]
    /\ sdNext' = sdNext + 1
    /\ sdState' = "off" /\ sdStored' \in SdValues
    /\ UNCHANGED <<sdInFlight, sdHost>>

PullCard ==
    /\ sdSlot.gen # 0
    /\ sdSlot' = NoSd /\ sdState' = "off"
    /\ sdStored' \in {sdStored, SdIdle.val}
    /\ UNCHANGED <<sdInFlight, sdNext, sdHost>>

Programmed ==
    /\ sdState = "prg"
    /\ sdStored' = sdInFlight /\ sdState' = "tran"
    /\ UNCHANGED <<sdSlot, sdInFlight, sdNext, sdHost>>

-----------------------------------------------------------------------------
(* init_sd_card *)

Returns == sdOp' = SdIdle
Goto(pc) == sdOp' = [sdOp EXCEPT !.pc = pc]

\* A command can succeed: there is a card, in a state in which it takes the command.
Answers(states) == sdSlot.gen # 0 /\ sdState \in states

\* A registered card that answers CMD13 as ready is kept as it is; otherwise it
\* is forgotten and initialised anew.  prepare_device may fail first.
InitSdCard ==
    /\ sdOp = SdIdle
    /\ \/ /\ sdCard # NoSd
          /\ sdSlot.gen = sdCard.gen /\ sdState = "tran"
          /\ sdWas' = TRUE
          /\ UNCHANGED <<sdCard, sdOp>>
       \/ /\ sdCard' = NoSd
          /\ sdOp' = [sdOp EXCEPT !.kind = "init", !.pc = "hw"]
          /\ UNCHANGED sdWas
    /\ UNCHANGED <<sdMedia, sdState, sdDma, sdPath, sdAck>>

\* init_hardware powers the card and starts again from the preferred path.
InitHardware ==
    /\ sdOp.kind = "init" /\ sdOp.pc = "hw"
    /\ sdPath' = Preferred
    /\ \/ sdSlot.gen # 0 /\ Goto("cmd0")
       \/ Returns
    /\ UNCHANGED <<sdMedia, sdState, sdDma, sdCard, sdWas, sdAck>>

\* The commands in their order, each with the state that the card must be in and
\* the one it goes to.  CMD8, ACMD6 and, for block-addressed cards, CMD16 may
\* fail or be left out; they change no state of the card.
Steps == [cmd0 |-> [from |-> {"off", "idle", "ready", "ident", "stby", "tran", "rcv", "prg"}, to |-> "idle", next |-> "acmd41"],
          acmd41 |-> [from |-> {"idle"}, to |-> "ready", next |-> "cmd2"],
          cmd2 |-> [from |-> {"ready"}, to |-> "ident", next |-> "cmd3"],
          cmd3 |-> [from |-> {"ident"}, to |-> "stby", next |-> "cmd9"],
          cmd9 |-> [from |-> {"stby"}, to |-> "stby", next |-> "cmd7"],
          cmd7 |-> [from |-> {"stby"}, to |-> "tran", next |-> "cmd16"],
          cmd16 |-> [from |-> {"tran"}, to |-> "tran", next |-> "cfg"]]

InitCommand ==
    /\ sdOp.kind = "init" /\ sdOp.pc \in DOMAIN Steps
    /\ LET step == Steps[sdOp.pc]
       IN \/ /\ Answers(step.from)
             /\ sdState' = step.to
             /\ sdOp' = [sdOp EXCEPT !.pc = step.next, !.card = sdSlot]
          \/ UNCHANGED sdState /\ Returns
    /\ UNCHANGED <<sdMedia, sdDma, sdCard, sdWas, sdPath, sdAck>>

\* The bus width is set and the card is registered, with what its CSD and OCR said.
\* It may have been pulled since, and another one put in.
Register ==
    /\ sdOp.kind = "init" /\ sdOp.pc = "cfg"
    /\ \/ /\ sdCard' = sdOp.card
          /\ sdPath' = PathForCard(sdCard'.type, sdPath)
          /\ sdWas' = TRUE
       \/ UNCHANGED <<sdCard, sdPath, sdWas>>
    /\ Returns
    /\ UNCHANGED <<sdMedia, sdState, sdDma, sdAck>>

-----------------------------------------------------------------------------
(* read_sector and write_sector *)

BeginIo(kind, val) ==
    /\ sdOp = SdIdle /\ sdCard # NoSd
    /\ sdOp' = [SdIdle EXCEPT !.kind = kind, !.pc = IF kind = "write" THEN "cmd24" ELSE "data", !.val = val]
    /\ sdAck' = IF kind = "write" THEN [sdAck EXCEPT !.gen = 0] ELSE sdAck
    /\ UNCHANGED <<sdMedia, sdState, sdDma, sdCard, sdWas, sdPath>>

\* A turn of the loop of read_sector: an error on one path leads to the next one.
ReadTurnSd(path, worse) ==
    /\ sdOp.kind = "read" /\ sdPath = path
    /\ \/ Answers({"tran"}) /\ Returns /\ UNCHANGED sdPath
       \/ IF worse = path THEN Returns /\ UNCHANGED sdPath
                          ELSE sdPath' = worse /\ UNCHANGED sdOp
    /\ UNCHANGED <<sdMedia, sdState, sdDma, sdCard, sdWas, sdAck>>

ReadSdma == ReadTurnSd("sdma", "ppbuf")
ReadPpbuf == ReadTurnSd("ppbuf", "pio")
ReadPio == ReadTurnSd("pio", "pio")

\* CMD24, again in every turn of the loop of write_sector.
WriteCommand ==
    /\ sdOp.kind = "write" /\ sdOp.pc = "cmd24"
    /\ \/ /\ Answers({"tran"})
          /\ sdState' = "rcv"
          /\ Goto("data")
       \/ UNCHANGED sdState /\ Returns
    /\ UNCHANGED <<sdMedia, sdDma, sdCard, sdWas, sdPath, sdAck>>

\* The card has the data of the sector and programs it.
Taken == Answers({"rcv"}) /\ sdState' = "prg" /\ sdInFlight' = sdOp.val

\* The transfer ended with an error.  The card waits on, was stopped with the host
\* (run_host_commands and stop_transfer), or has taken the sector all the same.
Broken ==
    \/ Taken
    \/ Answers({"rcv"}) /\ sdState' = "tran" /\ UNCHANGED sdInFlight
    \/ UNCHANGED <<sdState, sdInFlight>>

\* The data phase of a turn of write_sector; only the last path returns the error.
WriteTurnSd(path, worse) ==
    /\ sdOp.kind = "write" /\ sdOp.pc = "data" /\ sdPath = path
    /\ \/ Taken /\ Goto("poll") /\ UNCHANGED sdPath
       \/ Broken /\ sdPath' = worse /\ (IF worse = path THEN Returns ELSE Goto("cmd24"))
    /\ UNCHANGED <<sdSlot, sdStored, sdNext, sdDma, sdCard, sdWas, sdAck>>

WriteSdma == WriteTurnSd("sdma", "ppbuf")
WritePpbuf == WriteTurnSd("ppbuf", "pio")
WritePio == WriteTurnSd("pio", "pio")

\* Mutated form of WritePoll: the write is reported before the card is ready.
WriteNoPoll ==
    /\ sdOp.kind = "write" /\ sdOp.pc = "poll"
    /\ sdAck' = [gen |-> sdCard.gen, val |-> sdOp.val]
    /\ Returns
    /\ UNCHANGED <<sdMedia, sdState, sdDma, sdCard, sdWas, sdPath>>

\* CMD13 until the card is ready for data, or the time is up.
WritePoll ==
    /\ sdOp.kind = "write" /\ sdOp.pc = "poll"
    /\ \/ /\ Answers({"tran"})
          /\ sdAck' = [gen |-> sdCard.gen, val |-> sdOp.val]
       \/ UNCHANGED sdAck
    /\ Returns
    /\ UNCHANGED <<sdMedia, sdState, sdDma, sdCard, sdWas, sdPath>>

\* poll_card_detect notices what changed since it was called last.
PollCardDetect ==
    /\ sdOp = SdIdle
    /\ sdWas' = (sdSlot.gen # 0)
    /\ sdCard' = IF sdWas /\ ~sdWas' THEN NoSd ELSE sdCard
    /\ UNCHANGED <<sdMedia, sdState, sdDma, sdPath, sdOp, sdAck>>

SdNext ==
    \/ \E type \in Types : InsertCard(type)
    \/ PullCard
    \/ Programmed
    \/ InitSdCard
    \/ InitHardware
    \/ InitCommand
    \/ Register
    \/ BeginIo("read", SdIdle.val)
    \/ \E val \in SdValues : BeginIo("write", val)
    \/ ReadSdma \/ ReadPpbuf \/ ReadPio
    \/ WriteCommand
    \/ WriteSdma \/ WritePpbuf \/ WritePio
    \/ WritePoll
    \/ PollCardDetect

SdSpec == SdInit /\ [][SdNext]_sdVars

-----------------------------------------------------------------------------

\* SDMA is never the path of a registered SDXC card, whichever card was in the
\* reader before and however its initialisation ended (data_path_for_card).
SdxcAvoidsDma == sdCard.gen # 0 /\ sdCard.type = "sdxc" => sdPath # "sdma"

\* Outside init_hardware the data path only gets worse: a transfer that failed
\* once on SDMA is not tried there again for the same card.
PathOnlyDegrades == [Rank[sdPath'] > Rank[sdPath] => sdOp.pc = "hw"]_sdVars

\* The last write, if it returned Ok, is on the card when that card is still in the
\* reader: neither a fallback that sent the sector twice nor a card that was pulled
\* and replaced half-way makes write_sector report a sector that was not programmed.
AckedWriteStored ==
    sdAck.gen # 0 /\ sdAck.gen = sdSlot.gen => sdStored = sdAck.val

\* A write reaches no other card than the registered one: a card put in during the call, or before
\* poll_card_detect looked, is not in the state in which it takes CMD24 and the data.
WritesOwnCard == sdOp.kind = "write" /\ sdState \in {"rcv", "prg"} => sdSlot.gen = sdCard.gen

(***************************************************************************)
(* MassStorage.  USB mass storage over Bulk-Only Transport (nitrogen       *)
(* usb/usb_bus.rs: bot_exec_command, bot_read_sectors, bot_write_sectors). *)
(* A command is three bulk transfers: the command block, the data, the     *)
(* status.  Any of them may fail or time out, and the code then returns    *)
(* without resetting the device, which still sends what it had prepared.   *)
(* The device is external.                                                 *)
(***************************************************************************)

CONSTANTS
    MsLbas,     \* blocks of the device
    MsValues,   \* contents of a block
    MsTags      \* bound: commands, and so tags (the counter has 32 bits)

ASSUME MsAssumption == MsLbas # {} /\ MsValues # {} /\ MsTags \in Nat \ {0, 1}

VARIABLES
    msDisk,     \* contents of the device
    msOut,      \* command that waits for its data at the device
    msIn,       \* packets that the device has ready to send
    msTag,      \* the tag counter of the block device
    msCall      \* the command in progress, or how the last one ended

msVars == <<msDisk, msOut, msIn, msTag, msCall>>

NoCmd == [write |-> FALSE, lba |-> CHOOSE l \in MsLbas : TRUE, val |-> CHOOSE v \in MsValues : TRUE, tag |-> 0, pc |-> "idle"]

MsTypeInv ==
    /\ msDisk \in [MsLbas -> MsValues]
    /\ msOut \in Seq([lba : MsLbas, tag : 0 .. MsTags])
    /\ msTag \in 0 .. MsTags
    /\ msCall \in [write : BOOLEAN, lba : MsLbas, val : MsValues, tag : 0 .. MsTags, pc : {"idle", "cbw", "data", "csw", "ok"}]

MsInit ==
    /\ msDisk = [l \in MsLbas |-> NoCmd.val]
    /\ msOut = <<>> /\ msIn = <<>>
    /\ msTag = 1 /\ msCall = NoCmd

\* bot_read_sectors or bot_write_sectors takes a tag.
MsBegin(write, lba, val) ==
    /\ msCall.pc \in {"idle", "ok"} /\ msTag < MsTags
    /\ msCall' = [write |-> write, lba |-> lba, val |-> val, tag |-> msTag, pc |-> "cbw"]
    /\ msTag' = msTag + 1
    /\ UNCHANGED <<msDisk, msOut, msIn>>

Status(tag, ok) == [kind |-> "csw", tag |-> tag, ok |-> ok, val |-> NoCmd.val]
Data(val) == [kind |-> "data", tag |-> 0, ok |-> TRUE, val |-> val]

\* Phase 1.  The device takes a command block unless it waits for data: a read
\* is answered with the data and the status, or with a failed status.
SendCbw ==
    /\ msCall.pc = "cbw" /\ msOut = <<>>
    /\ msCall' = [msCall EXCEPT !.pc = "data"]
    /\ IF msCall.write
       THEN msOut' = <<[lba |-> msCall.lba, tag |-> msCall.tag]>> /\ UNCHANGED msIn
       ELSE /\ msIn' \in {msIn \o <<Data(msDisk[msCall.lba]), Status(msCall.tag, TRUE)>>,
                          Append(msIn, Status(msCall.tag, FALSE))}
            /\ UNCHANGED msOut
    /\ UNCHANGED <<msDisk, msTag>>

\* Phase 2 of a write: the device stores the data, or reports a failure.
SendData ==
    /\ msCall.pc = "data" /\ msCall.write /\ msOut # <<>>
    /\ msCall' = [msCall EXCEPT !.pc = "csw"]
    /\ \/ /\ msDisk' = [msDisk EXCEPT ![msOut[1].lba] = msCall.val]
          /\ msIn' = Append(msIn, Status(msOut[1].tag, TRUE))
       \/ /\ msIn' = Append(msIn, Status(msOut[1].tag, FALSE))
          /\ UNCHANGED msDisk
    /\ msOut' = <<>>
    /\ UNCHANGED msTag

\* Phase 2 of a read takes whatever the device sends next.  A status that comes
\* instead is shorter than the buffer, which is noticed only in the end.
ReceiveData ==
    /\ msCall.pc = "data" /\ ~msCall.write /\ msIn # <<>>
    /\ msCall' = [msCall EXCEPT !.pc = "csw", !.val = Head(msIn).val]
    /\ msIn' = Tail(msIn)
    /\ UNCHANGED <<msDisk, msOut, msTag>>

Accepts(csw) == csw.kind = "csw" /\ csw.tag = msCall.tag /\ csw.ok

ReceiveCsw ==
    /\ msCall.pc = "csw" /\ msIn # <<>>
    /\ msCall' = IF Accepts(Head(msIn)) THEN [msCall EXCEPT !.pc = "ok"] ELSE NoCmd
    /\ msIn' = Tail(msIn)
    /\ UNCHANGED <<msDisk, msOut, msTag>>

\* A bulk transfer fails or times out: the command returns.
GiveUp ==
    /\ msCall.pc \in {"cbw", "data", "csw"}
    /\ msCall' = NoCmd
    /\ UNCHANGED <<msDisk, msOut, msIn, msTag>>

\* The device forgets what it had prepared, for instance after a reset.
DeviceResets ==
    /\ msCall.pc \in {"idle", "ok"} /\ (msIn # <<>> \/ msOut # <<>>)
    /\ msOut' = <<>> /\ msIn' = <<>>
    /\ UNCHANGED <<msDisk, msTag, msCall>>

MsNext ==
    \/ \E write \in BOOLEAN, lba \in MsLbas, val \in MsValues : MsBegin(write, lba, IF write THEN val ELSE NoCmd.val)
    \/ SendCbw
    \/ SendData
    \/ ReceiveData
    \/ ReceiveCsw
    \/ GiveUp
    \/ DeviceResets

MsSpec == MsInit /\ [][MsNext]_msVars

-----------------------------------------------------------------------------

\* A command that returned Ok did what it was asked: the data of a read are those
\* of its block, and a written block is on the device.  Commands that were given
\* up before leave packets behind that shift the answers; only the tag of the
\* status tells them apart.
OkIsDone == msCall.pc = "ok" => msDisk[msCall.lba] = msCall.val

(***************************************************************************)
(* UsbService.  The USB service (fullerene-kernel drivers/registry.rs over *)
(* nitrogen usb/context.rs and usb/disk.rs): activation of the host        *)
(* controllers, the poll that turns discovered disks into block devices    *)
(* /dev/usbN, and the explicit rescan that replaces the whole context.     *)
(* The desktop loop and the shell run on one thread, so each call is one   *)
(* step.  Filesystems lease the block devices (devfs.rs).                  *)
(***************************************************************************)

CONSTANTS
    UsAddrs,    \* device addresses on a controller
    UsRescans   \* bound: contexts created

ASSUME UsAssumption == UsRescans \in Nat

HostCtls == {"intel_xhci", "intel_ehci", "other_ehci"}
IsXhci(f) == f = "intel_xhci"

VARIABLES
    usPci,      \* the host controllers on the bus, in scan order
    usGen,      \* identity of the USBContext in USB_CTX, 0 before init
    usEnabled,  \* USBContext::enabled
    usRouted,   \* intel_ports_routed of the last activation
    usActive,   \* controllers that were initialised
    usDisks,    \* StorageManager::disks: controller and address
    usCount,    \* LAST_REGISTERED_USB_COUNT
    usNames,    \* registered usbN: N, its context and disk
    usLeased    \* the N that are mounted

usVars == <<usPci, usGen, usEnabled, usRouted, usActive, usDisks, usCount, usNames, usLeased>>

UsbDisks == [ctl : HostCtls, addr : UsAddrs]

UsTypeInv ==
    /\ usGen \in 0 .. UsRescans
    /\ usEnabled \in BOOLEAN /\ usRouted \in BOOLEAN
    /\ usActive \subseteq HostCtls
    /\ usDisks \in Seq(UsbDisks)
    /\ usCount \in Nat
    /\ usNames \subseteq [n : Nat, gen : 0 .. UsRescans, disk : UsbDisks]
    /\ usLeased \subseteq Nat

UsInit ==
    /\ usPci \in SetToSeqs(HostCtls) \cup {<<"intel_ehci">>, <<"intel_ehci", "intel_xhci">>}
    /\ usGen = 0
    /\ usEnabled = FALSE /\ usRouted = FALSE /\ usActive = {}
    /\ usDisks = <<>> /\ usCount = 0
    /\ usNames = {} /\ usLeased = {}

\* UsbHostCtl::init: the context exists, no controller is touched.
UsbHostInit ==
    /\ usGen = 0
    /\ usGen' = 1
    /\ UNCHANGED <<usPci, usEnabled, usRouted, usActive, usDisks, usCount, usNames, usLeased>>

\* sort_by_key: xHCI before its EHCI companion.
Controllers == SelectSeq(usPci, IsXhci) \o SelectSeq(usPci, LAMBDA f : ~IsXhci(f))

\* init_controllers goes over the controllers; one that passes every check and
\* initialises (ok) becomes active.  The companion of a routed, active Intel xHCI
\* is skipped.
ActiveAfter(routed, ok) ==
    LET after[i \in 0 .. Len(Controllers)] ==
            IF i = 0 THEN {}
            ELSE LET f == Controllers[i]
                     skip == f = "intel_ehci" /\ routed /\ "intel_xhci" \in after[i - 1]
                 IN IF f \in ok /\ ~skip THEN after[i - 1] \cup {f} ELSE after[i - 1]
    IN after[Len(Controllers)]

\* route_intel_ports_to_xhci: needs both Intel controllers, and the xHCI in D0
\* with a route that reads back.
MayRoute == {"intel_xhci", "intel_ehci"} \subseteq Range(usPci)

Polled(disks, active) ==
    {disks} \cup {Append(disks, d) : d \in {x \in UsbDisks : x.ctl \in active /\ x \notin Range(disks)}}

\* register_pending_usb: every disk beyond the count gets the next name.
Named(gen, disks, count) ==
    {[n |-> i - 1, gen |-> gen, disk |-> disks[i]] : i \in count + 1 .. Len(disks)}

PollUsb ==
    /\ usGen # 0 /\ usEnabled
    /\ usDisks' \in Polled(usDisks, usActive)
    /\ usNames' = usNames \cup Named(usGen, usDisks', usCount)
    /\ usCount' = IF Len(usDisks') > usCount THEN Len(usDisks') ELSE usCount
    /\ UNCHANGED <<usPci, usGen, usEnabled, usRouted, usActive, usLeased>>

\* rescan_usb_all refuses while a usb device is leased; it unregisters the names,
\* drops the context for a new one, activates it and polls.
Rescan ==
    /\ usGen # 0 /\ usGen < UsRescans /\ usLeased = {}
    /\ usGen' = usGen + 1
    /\ usEnabled' = TRUE
    /\ \E routed \in {FALSE, MayRoute}, ok \in SUBSET HostCtls :
        /\ usRouted' = routed
        /\ usActive' = ActiveAfter(routed, ok)
    /\ usDisks' \in Polled(<<>>, usActive')
    /\ usCount' = Len(usDisks')
    /\ usNames' = Named(usGen', usDisks', 0)
    /\ UNCHANGED <<usPci, usLeased>>

\* lease_block_device and return_block_device_lease, for a mount.
Lease(n) ==
    /\ \E name \in usNames : name.n = n
    /\ usLeased' = IF n \in usLeased THEN usLeased \ {n} ELSE usLeased \cup {n}
    /\ UNCHANGED <<usPci, usGen, usEnabled, usRouted, usActive, usDisks, usCount, usNames>>

UsNext ==
    \/ UsbHostInit
    \/ PollUsb
    \/ Rescan
    \/ \E n \in {name.n : name \in usNames} : Lease(n)

UsSpec == UsInit /\ [][UsNext]_usVars

-----------------------------------------------------------------------------

\* An Intel EHCI companion and the xHCI are not both active over ports that were
\* routed to the xHCI, whatever order the bus was scanned in: the driver of the
\* EHCI would reset ports that the xHCI owns.
CompanionSkipped == usRouted => ~({"intel_xhci", "intel_ehci"} \subseteq usActive)

\* The registered names are usb0, usb1, ... up to the count, and each one stands
\* for the disk of that position in the live context: no rescan leaves a block
\* device behind whose controller was dropped, and no disk has two names.
NamesFollowDisks ==
    /\ usCount = Len(usDisks)
    /\ usNames = Named(usGen, usDisks, 0)
    /\ IsInjective(usDisks)

\* A mounted device belongs to the live context: rescan_usb_all never pulls the
\* controller from under a mounted filesystem.
MountedAlive == \A n \in usLeased : \E name \in usNames : name.n = n /\ name.gen = usGen

--------------------------------------------------------------------------------
\* The block devices report only what happened: paths, acknowledged writes, tags and disk names agree
\* with the hardware, whatever was pulled, replaced or lost.
DisksSound ==
    /\ SdTypeInv /\ SdxcAvoidsDma /\ AckedWriteStored /\ WritesOwnCard
    /\ MsTypeInv /\ OkIsDone
    /\ UsTypeInv /\ CompanionSkipped /\ NamesFollowDisks /\ MountedAlive
================================================================================
