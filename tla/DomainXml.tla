------------------------------ MODULE DomainXml ------------------------------
(***************************************************************************)
(* The domain XML, and the two edits the provisioner makes in it: the root *)
(* volume becomes the boot disk, and the CD-ROMs are removed.  A document  *)
(* keeps what the edits and libvirt look at: whether <os> names boot       *)
(* devices, and the devices in document order, each with its kind, its     *)
(* <boot order> (0 if it has none) and whether its source is its own or    *)
(* the root volume.  The place of a removed device stays empty.            *)
(*                                                                         *)
(* An operator Bug_X is the definition X with a plausible mistake in it.   *)
(***************************************************************************)
EXTENDS Naturals

CONSTANTS
    MaxDevices,   \* devices of a domain
    NoDevice,
    Shapes        \* domains as the operator has defined them

Slots  == 1..MaxDevices
Device == [kind : {"disk", "cdrom", "nic"}, order : Nat, source : {"own", "volume"}]
Domain == [osboot : BOOLEAN, devs : [Slots -> Device \cup {NoDevice}]]

Devices(d) == {k \in Slots : d.devs[k] # NoDevice}

Ordered(d) == {k \in Devices(d) : d.devs[k].order > 0}

\* What DomainDefineXML accepts: every boot order once, and none beside an <os>
\* boot device.
Definable(d) == /\ \A k, l \in Ordered(d) : d.devs[k].order = d.devs[l].order => k = l
                /\ d.osboot => Ordered(d) = {}

ASSUME DomainAssumption ==
    /\ MaxDevices \in Nat /\ NoDevice \notin Device
    /\ Shapes \subseteq Domain
    /\ \A d \in Shapes : Definable(d) /\ \A k \in Devices(d) : d.devs[k].source = "own"

-----------------------------------------------------------------------------
IsBootDiskCandidate(dev) == dev.kind = "disk"

Candidates(d) == {k \in Devices(d) : IsBootDiskCandidate(d.devs[k])}

\* selectBootDiskIndex prefers k to l: a positive order to none, a smaller one,
\* then the earlier place.
Before(d, k, l) ==
    LET m == d.devs[k].order
        n == d.devs[l].order
    IN \/ m > 0 /\ (n = 0 \/ m < n)
       \/ m = n /\ k <= l

SelectBootDiskIndex(d) ==
    CHOOSE k \in Candidates(d) : \A l \in Candidates(d) : Before(d, k, l)

\* the boot elements of the devices go with those of <os>
Bug_StripOSBootElements(d) ==
    [osboot |-> FALSE,
     devs   |-> [k \in Slots |-> IF d.devs[k] = NoDevice THEN NoDevice
                                 ELSE [d.devs[k] EXCEPT !.order = 0]]]

StripOSBootElements(d) == [d EXCEPT !.osboot = FALSE]

PatchDiskBlock(dev) == [kind |-> dev.kind, order |-> 1, source |-> "volume"]

\* Of a domain that has a candidate.
PatchDomainBootDiskXML(d) ==
    StripOSBootElements([d EXCEPT !.devs[SelectBootDiskIndex(d)] = PatchDiskBlock(@)])

IsCDROMDisk(dev) == dev.kind = "cdrom"

CDROMs(d) == {k \in Devices(d) : IsCDROMDisk(d.devs[k])}

\* Every CD-ROM goes, also one that is no config drive.
StripConfigDriveDisks(d) ==
    [d EXCEPT !.devs = [k \in Slots |-> IF k \in CDROMs(d) THEN NoDevice ELSE d.devs[k]]]

-----------------------------------------------------------------------------
(* What libvirt makes of a document. *)

UsesVolume(d) == {k \in Devices(d) : d.devs[k].source = "volume"}

\* The device with the smallest boot order is booted.
BootsVolume(d) ==
    \E k \in Ordered(d) \cap UsesVolume(d) :
        \A l \in Ordered(d) : d.devs[k].order <= d.devs[l].order
=============================================================================
