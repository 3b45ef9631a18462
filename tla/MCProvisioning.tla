--------------------------- MODULE MCProvisioning ---------------------------
(***************************************************************************)
(* Provisioning for TLC.  Jobs, images and instance ids are alike in the   *)
(* runs that check invariants; machines do not share anything, so that one *)
(* machine is enough for what two jobs do to each other.                   *)
(***************************************************************************)
EXTENDS Provisioning, TLC

Dev(kind, order) == [kind |-> kind, order |-> order, source |-> "own"]

\* Plain; two disks and a CD-ROM; a CD-ROM that boots first; a network card that
\* does; no disk at all.
MCShapes ==
    {[osboot |-> TRUE,  devs |-> <<Dev("disk", 0), Dev("cdrom", 0), NoDevice>>],
     [osboot |-> FALSE, devs |-> <<Dev("disk", 3), Dev("disk", 2), Dev("cdrom", 0)>>],
     [osboot |-> FALSE, devs |-> <<Dev("cdrom", 1), Dev("disk", 2), NoDevice>>],
     [osboot |-> FALSE, devs |-> <<Dev("disk", 2), Dev("nic", 1), NoDevice>>],
     [osboot |-> FALSE, devs |-> <<Dev("nic", 0), NoDevice, NoDevice>>]}

\* What a run without crashes looks at: nothing in it depends on the state file or
\* on how earlier jobs ended.
Attended == <<ins, job, doc, host>>

Symmetry == Permutations(Jobs) \cup Permutations(Images) \cup Permutations(InstIds)
=============================================================================
