---------------------------------- MODULE MCDevices ----------------------------------
(***************************************************************************)
(* The drivers and the boot loader side by side.  They share no state in   *)
(* the code at the level of these modules (each is reached through a trait *)
(* or through its own lock), so a behaviour is about one of them and the   *)
(* others stay at an initial state.                                        *)
(***************************************************************************)
EXTENDS BlockDevices, Ehci, Xhci, WifiFrames, PciDevices,
    HdaAudio, WpaSupplicant, Platform, BootHandoff

VARIABLE device   \* the part that this behaviour is about

BhFilesMC ==
  LET sec(r, a, n) == [raw |-> r, at |-> a, n |-> n]
  IN {[len |-> 3, pages |-> 2, entry |-> 1, hdr |-> 1, base |-> 2, secs |-> <<sec(1, 0, 1), sec(2, 1, 1)>>,
       relocs |-> << <<<<10, 1>>>>, <<>>, <<<<10, 0>>>> >>],
      [len |-> 2, pages |-> 1, entry |-> 1, hdr |-> 1, base |-> 9, secs |-> <<sec(1, 1, 1)>>,
       relocs |-> << <<<<0, 0>>, <<10, 1>>>>, <<<<10, 0>>>> >>],
      [len |-> 2, pages |-> 1, entry |-> 0, hdr |-> 1, base |-> 1, secs |-> <<sec(1, 0, 2)>>, relocs |-> <<>>]}

MCUsb3 == <<TRUE, FALSE>>

BsSsid == [tag |-> 0, body |-> <<7, 8>>, akms |-> <<>>]

BsRates == [tag |-> 1, body |-> <<1, 0, 0, 15, 172, 2>>, akms |-> <<>>]

BsChannel == [tag |-> 3, body |-> <<6>>, akms |-> <<>>]

BsRsn(body, akms) == [tag |-> 48, body |-> body, akms |-> akms]

BsWhole == BsRsn(<<1, 0, 0, 15, 172, 4, 1, 0, 0, 15, 172, 4, 2, 0, 2, 172, 15, 0, 0, 15, 172, 2, 0, 0>>, <<1027074, 2 * 16777216 + 172 * 65536 + 15 * 256>>)

BsTrimmed == BsRsn(<<1, 0, 0, 15, 172, 4, 2, 0, 0, 15, 172, 4>>, <<>>)

BsFramesMC == {[sta |-> 1, kind |-> "Beacon", privacy |-> TRUE, els |-> <<BsSsid, BsWhole, BsChannel>>], [sta |-> 2, kind |-> "ProbeResponse", privacy |-> TRUE, els |-> <<BsTrimmed, BsRates, BsSsid>>], [sta |-> 3, kind |-> "Action", privacy |-> FALSE, els |-> <<BsSsid>>]}

DlLayoutsMC == {<<"type", "sid", "pad", "router", "end">>, <<"sid", "router", "cut", "type">>}

DmIdOfMC == [d \in {"rtsx", "wifi"} |-> IF d = "rtsx" THEN "rtsx" ELSE "wifi product"]

DmOwnerMC == [r \in {1, 2} |-> IF r = 1 THEN "rtsx" ELSE "wifi"]

HrW(t, out, eapd, plugged, conns) == [type |-> t, digital |-> FALSE, out |-> out, eapd |-> eapd, plugged |-> plugged, conns |-> conns]

HrDirectMC == <<HrW("dac", FALSE, FALSE, FALSE, <<>>), HrW("pin", TRUE, FALSE, TRUE, <<3, 1>>), HrW("mixer", FALSE, FALSE, FALSE, <<4, 1>>), HrW("other", FALSE, FALSE, FALSE, <<>>), HrW("pin", TRUE, TRUE, FALSE, <<1>>)>>

HrMixerMC == <<[HrW("dac", FALSE, FALSE, FALSE, <<>>) EXCEPT !.digital = TRUE], HrW("dac", FALSE, FALSE, FALSE, <<>>), HrW("mixer", FALSE, FALSE, FALSE, <<1, 2>>), HrW("pin", FALSE, TRUE, TRUE, <<3>>), HrW("pin", TRUE, TRUE, TRUE, <<1, 3>>)>>

HrCodecsMC == {HrDirectMC, HrMixerMC}

IhDev(w, b, s) == [wifi |-> w, bar |-> b, subsys |-> s, size |-> TRUE]

IhFoundMC == {<<IhDev(FALSE, TRUE, TRUE), IhDev(TRUE, TRUE, FALSE), IhDev(TRUE, TRUE, TRUE)>>, <<IhDev(TRUE, FALSE, TRUE), IhDev(TRUE, TRUE, TRUE)>>}

IhTlv(k, t, d, f) == [kind |-> k, target |-> t, data |-> d, fits |-> f]

IhImagesMC == {[head |-> "good", tlvs |-> <<IhTlv("code", 0, <<1, 2, 3, 4, 5>>, TRUE), IhTlv("other", 0, <<9>>, TRUE), IhTlv("code", 8, <<6, 7>>, TRUE)>>], [head |-> "good", tlvs |-> <<IhTlv("code", 4, <<8, 8, 8, 8>>, TRUE), IhTlv("code", 0, <<5>>, FALSE)>>], [head |-> "bad", tlvs |-> <<>>], [head |-> "short", tlvs |-> <<>>], [head |-> "good", tlvs |-> <<IhTlv("code", 0, <<>>, TRUE)>>]}

KuRfcMC == <<[i \in 1 .. 16 |-> i - 1], [i \in 1 .. 16 |-> 17 * (i - 1)]>>

KuCasesMC == {KuRfcMC, <<[i \in 1 .. 16 |-> (37 * i) % 256], [i \in 1 .. 24 |-> (91 * i) % 256]>>}

LpMessagesMC == {<< <<65>> >>, << <<195, 169>>, <<66>>, <<226, 130, 172>> >>, << <<70>>, <<255, 255>> >>, << >>}

PsBar(io, wide, size, addr) == [io |-> io, wide |-> wide, size |-> size, addr |-> addr]

PsBarSetsMC == {<<PsBar(FALSE, a, 1, 0), PsBar(FALSE, FALSE, 2, b)>> : a \in BOOLEAN, b \in {0, 3}} \cup {<<PsBar(TRUE, FALSE, 1, 0), PsBar(FALSE, FALSE, 2, 0)>>, <<PsBar(FALSE, FALSE, 0, 0), PsBar(FALSE, TRUE, 4, 0), PsBar(FALSE, FALSE, 0, 0)>>}

PsEnd(bars) == [multi |-> FALSE, bridge |-> FALSE, sec |-> 0, bars |-> bars]

PsBridge(multi, sec) == [multi |-> multi, bridge |-> TRUE, sec |-> sec, bars |-> <<>>]

PsTreeMC(m, s1, s2, s3, bs, n) == [f \in ({<<0, 0, 0>>, <<0, 0, 1>>, <<0, 1, 0>>, <<1, 0, 0>>, <<2, 0, 0>>, <<3, n, 0>>}) |-> CASE f = <<0, 0, 0>> -> PsBridge(m, s1) [] f = <<0, 0, 1>> -> PsBridge(FALSE, s2) [] f = <<1, 0, 0>> -> PsBridge(FALSE, s3) [] OTHER -> PsEnd(bs)]

PsPlainMC == PsTreeMC(TRUE, 1, 2, 3, <<PsBar(FALSE, FALSE, 1, 0), PsBar(FALSE, FALSE, 2, 0)>>, 0)

PsMachinesMC == {PsTreeMC(m, s1, s2, s3, bs, n) : m \in BOOLEAN, s1 \in {1, 2}, s2 \in 1 .. 3, s3 \in {2, 3}, bs \in PsBarSetsMC, n \in {0, 1}}

WkKeyDataMC == {<< <<"rsn", TRUE>>, <<"gtk", TRUE>> >>, << <<"shortgtk", TRUE>>, <<"gtk", TRUE>> >>, << <<"rsn", FALSE>>, <<"gtk", TRUE>> >>}

DevVars == <<device, bhVars, sdVars, ehVars, epVars, xrVars,
    xsVars, xpVars, msVars, usVars, bsVars, dlVars, dmVars, hcVars, hpVars, hrVars,
    ihVars, kuVars, lpVars, mwVars, psVars, pqVars, ptVars, vgVars, wkVars>>

DevInit ==
    /\ device \in {"boot", "sd", "ehci",
                 "ehci ports", "xhci ring", "xhci slots", "xhci ports", "msd",
                 "usb", "beacon", "dhcp", "dma", "hda verbs", "hda playback",
                 "hda route", "iwlhw", "unwrap", "logpk", "watchdog", "pci", "pcm",
                 "ps2", "virtio gpu", "wpa"}
    /\ BhInit /\ (device # "boot" => bhFile = CHOOSE x \in BhFiles : TRUE)
    /\ SdInit /\ (device # "sd" => sdDma = "none")
    /\ EhInit
    /\ EpInit
    /\ XrInit
    /\ XsInit
    /\ XpInit /\ (device # "xhci ports" => \A p \in XpPorts : ~xpHw[p].ccs)
    /\ MsInit
    /\ UsInit /\ (device # "usb" => usPci = <<"intel_ehci">>)
    /\ BsInit
    /\ DlInit
    /\ DmInit /\ (device # "dma" => dmPool = 8)
    /\ HcInit
    /\ HpInit
    /\ HrInit /\ (device # "hda route" => hrCodec = HrDirectMC)
    /\ IhInit
    /\ KuInit /\ (device # "unwrap" => kuCase = KuRfcMC)
    /\ LpInit
    /\ MwInit
    /\ PsInit /\ (device # "pci" => psMachine = PsPlainMC)
    /\ PqInit
    /\ PtInit /\ (device # "ps2" => ptWorking = Ports /\ ptOut = <<>>)
    /\ VgInit
    /\ WkInit

DevNext ==
    \/ device = "boot" /\ BhNext
    \/ device = "sd" /\ SdNext
    \/ device = "ehci" /\ EhNextStep
    \/ device = "ehci ports" /\ EpNext
    \/ device = "xhci ring" /\ XrNext
    \/ device = "xhci slots" /\ XsNext
    \/ device = "xhci ports" /\ XpNext
    \/ device = "msd" /\ MsNext
    \/ device = "usb" /\ UsNext
    \/ device = "beacon" /\ BsNext
    \/ device = "dhcp" /\ DlNext
    \/ device = "dma" /\ DmNext
    \/ device = "hda verbs" /\ HcNext
    \/ device = "hda playback" /\ HpNext
    \/ device = "hda route" /\ HrNext
    \/ device = "iwlhw" /\ IhNext
    \/ device = "unwrap" /\ KuNext
    \/ device = "logpk" /\ LpNext
    \/ device = "watchdog" /\ MwNext
    \/ device = "pci" /\ PsNext
    \/ device = "pcm" /\ PqNext
    \/ device = "ps2" /\ PtNext
    \/ device = "virtio gpu" /\ VgNext1
    \/ device = "wpa" /\ WkNext

\* The parts that this behaviour is not about stand still.
DevOthers ==
    /\ UNCHANGED device
    /\ IF device = "boot" THEN TRUE ELSE UNCHANGED bhVars
    /\ IF device = "sd" THEN TRUE ELSE UNCHANGED sdVars
    /\ IF device = "ehci" THEN TRUE ELSE UNCHANGED ehVars
    /\ IF device = "ehci ports" THEN TRUE ELSE UNCHANGED epVars
    /\ IF device = "xhci ring" THEN TRUE ELSE UNCHANGED xrVars
    /\ IF device = "xhci slots" THEN TRUE ELSE UNCHANGED xsVars
    /\ IF device = "xhci ports" THEN TRUE ELSE UNCHANGED xpVars
    /\ IF device = "msd" THEN TRUE ELSE UNCHANGED msVars
    /\ IF device = "usb" THEN TRUE ELSE UNCHANGED usVars
    /\ IF device = "beacon" THEN TRUE ELSE UNCHANGED bsVars
    /\ IF device = "dhcp" THEN TRUE ELSE UNCHANGED dlVars
    /\ IF device = "dma" THEN TRUE ELSE UNCHANGED dmVars
    /\ IF device = "hda verbs" THEN TRUE ELSE UNCHANGED hcVars
    /\ IF device = "hda playback" THEN TRUE ELSE UNCHANGED hpVars
    /\ IF device = "hda route" THEN TRUE ELSE UNCHANGED hrVars
    /\ IF device = "iwlhw" THEN TRUE ELSE UNCHANGED ihVars
    /\ IF device = "unwrap" THEN TRUE ELSE UNCHANGED kuVars
    /\ IF device = "logpk" THEN TRUE ELSE UNCHANGED lpVars
    /\ IF device = "watchdog" THEN TRUE ELSE UNCHANGED mwVars
    /\ IF device = "pci" THEN TRUE ELSE UNCHANGED psVars
    /\ IF device = "pcm" THEN TRUE ELSE UNCHANGED pqVars
    /\ IF device = "ps2" THEN TRUE ELSE UNCHANGED ptVars
    /\ IF device = "virtio gpu" THEN TRUE ELSE UNCHANGED vgVars
    /\ IF device = "wpa" THEN TRUE ELSE UNCHANGED wkVars

\* The steps that the part in focus takes in the end: a part's first and second fairness conditions.
DevFair1 ==
    \/ device = "ehci ports" /\ (PollRead \/ PollClear \/ PollPort \/ PollEnd)
    \/ device = "xhci ring" /\ Execute
    \/ device = "xhci ports" /\ XpPollStep
    \/ device = "watchdog" /\ TimerRestarts
    \/ device = "boot" /\ LoaderStep

DevFair2 ==
    \/ device = "xhci ring" /\ PopEvent

DevSpec ==
    /\ DevInit /\ [][DevNext /\ DevOthers]_DevVars
    /\ WF_DevVars(DevFair1 /\ DevOthers)
    /\ WF_DevVars(DevFair2 /\ DevOthers)

-----------------------------------------------------------------------------

\* A part that a behaviour is not about keeps an initial state of its own behaviours, so
\* that a property of it only has to be evaluated where it moves.
EhciParts == {"ehci", "ehci ports"}
XhciParts == {"xhci ring", "xhci slots", "xhci ports"}
DiskParts == {"sd", "msd", "usb"}
AudioParts == {"hda verbs", "hda playback", "hda route", "pcm"}
PciParts == {"pci", "dma", "virtio gpu"}
PlatformParts == {"watchdog", "ps2"}
SupplicantParts == {"wpa", "unwrap"}
FrameParts == {"beacon", "dhcp", "iwlhw", "logpk"}

\* The two USB host drivers stay consistent with their controllers through timeouts, late answers
\* and devices that come and go. The cases that the code does not cover are in the comments of
\* EhciSound and XhciSound: a port change between the read of USBSTS and the write that clears it,
\* an async advance that is not acknowledged, a completion taken by a later call, a full ring.
HostsKept ==
    /\ device \in EhciParts => EhciSound
    /\ device \in XhciParts => XhciSound

\* What a disk driver acknowledged is on its disk, under the name of that disk, and a card that was
\* put in for another gets nothing that was meant for the other.
DisksKept == device \in DiskParts => DisksSound


\* What PCI, the IOMMU, the GPU, the watchdog and the PS/2 controller were given agrees
\* with what their drivers recorded, and what the loader hands over with what it loaded
\* and reserved.
MachineKept ==
    /\ device \in PciParts => PciSound
    /\ device \in PlatformParts => PlatformSound
    /\ device = "boot" => BootSound

\* Keys, leases, stations and firmware below the wireless link are the ones that the
\* other side sent, and are accounted for.
WirelessKept ==
    /\ device \in SupplicantParts => SupplicantSound
    /\ device \in FrameParts => FramesSound

\* What a step of a driver never does: go back to a faster SD path without a reset, replace a block
\* of sound that was not heard, or feed one half twice. A copy that the stream overtakes may write
\* the half that plays; FedIsHeard says what holds then.
DeviceSteps == [][/\ device = "sd" => PathOnlyDegrades
                  /\ device = "hda playback" => FedIsHeard /\ OneFeedPerHalf]_DevVars

\* What happens in the end: a USB command is completed, a device that stays plugged
\* is examined, port polling settles, a hung MMIO access ends in a restart of the
\* scheduler loop, and the loader hands over or gives up.  The part in focus never
\* changes, so that one formula serves all of them.
Awaited ==
    \/ device = "xhci ring" /\ CommandsOpen
    \/ device = "ehci ports"
    \/ device = "xhci ports" /\ PollingRuns
    \/ device = "watchdog" /\ RecoveryDue
    \/ device = "boot" /\ LoaderRuns

Arrived ==
    \/ device = "xhci ring" /\ CommandsSeen
    \/ device = "ehci ports" /\ DevicesExamined
    \/ device = "xhci ports" /\ PollingSettled
    \/ device = "watchdog" /\ RecoveryOver
    \/ device = "boot" /\ LoaderEnded

\* Every Awaited state of a USB host, the watchdog or the loader is followed by an
\* Arrived one. Two cases of the code are left out: an EHCI port whose change fell between the
\* read of USBSTS and the write that clears it, until the next change of any port, and a watchdog
\* whose timer was restored before anything had been saved.
DevicesProgress == Awaited ~> Arrived
================================================================================
