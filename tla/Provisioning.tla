---------------------------- MODULE Provisioning ----------------------------
(***************************************************************************)
(* The libvirt jobs behind AllocateInstance and ReleaseInstance.  A handler*)
(* starts a goroutine and returns: its ProvisionMachine or ReleaseMachine  *)
(* runs after the reply, next to any other job, call by call to libvirt.   *)
(*                                                                         *)
(* The handlers are atomic and the maps are lost and restored as           *)
(* DurableState says, which ForgeServer implements.  A machine has one     *)
(* domain and one root volume, both found by its name; the domain may be   *)
(* paused, resumed or end without the server's doing.  The image cache is  *)
(* module ImageCache; here opening an image succeeds or fails.             *)
(***************************************************************************)
EXTENDS DomainXml, FiniteSets

CONSTANTS
    InstIds, Machines,
    Images, NoImage,    \* os images; an instance config without a usable one
    Jobs, NoJob,        \* goroutines: bounds how many jobs run at a time
    Absent, Off, Original, NoVolume, NoDoc, Failed,
    Faults,             \* steps whose libvirt or HTTP call may fail
    MayCrash,           \* the server process may die
    GuestsAct,          \* a domain may be paused, resumed or end by itself
    CallersWait         \* callers leave a machine alone while a job runs on it

Steps == {"lookup", "look", "destroy", "delete", "tidy", "fetch", "create",
          "upload", "resize", "drop", "patch", "define", "clean", "redefine",
          "recheck", "boot"}

ASSUME ProvisioningAssumption ==
    /\ Faults \subseteq Steps \cup {"connect", "find volume"}
    /\ {MayCrash, GuestsAct, CallersWait} \subseteq BOOLEAN
    /\ NoImage \notin Images

Instance == [machine : Machines, image : Images \cup {NoImage}]
Volume   == [image : Images, by : InstIds, whole : BOOLEAN]
Job      == [kind : {"provision", "release"}, machine : Machines, by : InstIds,
             image : Images \cup {NoImage}, pc : Steps,
             clean : BOOLEAN]    \* has passed over neither an error nor a live domain

Result   == [kind : {"provision", "release"}, by : InstIds,
             image : Images \cup {NoImage}, clean : BOOLEAN]
Outcome  == Result \cup {Failed}

ASSUME SpecialValues ==
    /\ Absent \notin Instance /\ NoJob \notin Job \cup Result
    /\ Original # Off /\ {Original, Off, NoVolume} \cap Volume = {}
    /\ NoDoc \notin Domain /\ Failed \notin Result

VARIABLES
    ins, saved,  \* the server's instances; those in its state file
    job,         \* what each goroutine does
    doc,         \* the edited XML a goroutine is about to define, or NoDoc
    xml,         \* the domain XML
    running,     \* what the domain was booted from, or Off
    paused,      \* the machines with a live domain that is not in state running
    vol,         \* the root volume in the storage pool
    settled      \* the job that ended last on the machine, or Failed; Failed also
                 \* once the domain has ended by itself

power == <<running, paused>>
host  == <<xml, power, vol>>
vars  == <<ins, saved, job, doc, host, settled>>

Init == /\ ins = [i \in InstIds |-> Absent] /\ saved = ins
        /\ job = [j \in Jobs |-> NoJob]
        /\ doc = [j \in Jobs |-> NoDoc]
        /\ xml \in [Machines -> Shapes]
        /\ running \in [Machines -> {Off, Original}] /\ paused = {}
        /\ vol = [x \in Machines |-> NoVolume]
        /\ settled = [x \in Machines |-> Failed]

Active == {j \in Jobs : job[j] # NoJob}

JobsOn(x) == {j \in Active : job[j].machine = x}

-----------------------------------------------------------------------------
(* The server: handlers, save, crash and restart. *)

Schedule(kind, x, i, g) ==
    \E j \in Jobs :
        /\ job[j] = NoJob
        /\ job' = [job EXCEPT ![j] = [kind |-> kind, machine |-> x, by |-> i,
                                      image |-> g, pc |-> "lookup", clean |-> TRUE]]

AllocateInstance(i, x, g) ==
    /\ ins[i] = Absent
    /\ ins' = [ins EXCEPT ![i] = [machine |-> x, image |-> g]]
    /\ Schedule("provision", x, i, g)
    /\ UNCHANGED <<saved, doc, host, settled>>

ReleaseInstance(i) ==
    /\ ins[i] # Absent
    /\ ins' = [ins EXCEPT ![i] = Absent]
    /\ Schedule("release", ins[i].machine, i, NoImage)
    /\ UNCHANGED <<saved, doc, host, settled>>

Save == /\ saved # ins
        /\ saved' = ins
        /\ UNCHANGED <<ins, job, doc, host, settled>>

\* The goroutines die with the process, and no start schedules them again.
Crash == /\ MayCrash
         /\ ins' = saved
         /\ job' = [j \in Jobs |-> NoJob] /\ doc' = [j \in Jobs |-> NoDoc]
         /\ settled' = [x \in Machines |-> IF JobsOn(x) = {} THEN settled[x] ELSE Failed]
         /\ UNCHANGED <<saved, host>>

-----------------------------------------------------------------------------
(* The jobs. *)

At(j, step) == job[j] # NoJob /\ job[j].pc = step

Goto(j, step) == /\ job' = [job EXCEPT ![j].pc = step]
                 /\ UNCHANGED settled

\* The job goes on after an error, or beside a domain that is still alive.
PassOver(j, step) == /\ job' = [job EXCEPT ![j].pc = step, ![j].clean = FALSE]
                     /\ UNCHANGED settled

End(j, outcome) == /\ job' = [job EXCEPT ![j] = NoJob]
                   /\ settled' = [settled EXCEPT ![job[j].machine] = outcome]

Succeed(j) == End(j, [kind |-> job[j].kind, by |-> job[j].by,
                      image |-> job[j].image, clean |-> job[j].clean])

\* a provision goes on, too
Bug_GoOn(j) == /\ job[j].pc \in {"lookup", "look", "destroy"}
               /\ PassOver(j, "delete")

\* A release logs the error and goes on with the volume.
GoOn(j) == /\ job[j].kind = "release" /\ job[j].pc \in {"lookup", "look", "destroy"}
           /\ PassOver(j, "delete")

\* a failed upload leaves its volume behind
Bug_Fail(j) ==
    \/ GoOn(j)
    \/ /\ job[j].kind = "provision" \/ job[j].pc \in {"delete", "tidy"}
       /\ End(j, Failed)

\* A step returned an error.  A release goes on after a failed lookup or stop;
\* a failed upload or resize still deletes the volume.
Fail(j) ==
    \/ GoOn(j)
    \/ /\ job[j].pc \in {"upload", "resize"}
       /\ Goto(j, "drop")
    \/ /\ job[j].kind = "provision" \/ job[j].pc \in {"delete", "tidy"}
       /\ job[j].pc \notin {"upload", "resize"}
       /\ End(j, Failed)

\* the branch for an empty image URL is missing
Bug_Lookup(j) == /\ At(j, "lookup") /\ Goto(j, "look")
                 /\ UNCHANGED <<ins, saved, doc, host>>

\* Connect, then lookupDomainByMachineID; without an image the domain is
\* started as it is.
Lookup(j) == /\ At(j, "lookup")
             /\ Goto(j, IF job[j].kind = "provision" /\ job[j].image = NoImage
                        THEN "clean" ELSE "look")
             /\ UNCHANGED <<ins, saved, doc, host>>

\* a job that cannot connect returns at once, a release too
ConnectFails(j) == /\ At(j, "lookup") /\ "connect" \in Faults
                   /\ End(j, Failed)
                   /\ UNCHANGED <<ins, saved, doc, host>>

\* the test of the domain state is the wrong way round
Bug_Look(j) == LET x == job[j].machine IN
    /\ At(j, "look")
    /\ \/ running[x] # Off /\ x \notin paused /\ Goto(j, "delete")
       \/ running[x] = Off /\ Goto(j, "destroy")
       \/ x \in paused /\ PassOver(j, "delete")
    /\ UNCHANGED <<ins, saved, doc, host>>

\* stopDomainIfRunning: DomainGetState.  Only a domain in state running is stopped:
\* the job goes on beside one that is paused, suspended or shutting down.
Look(j) == LET x == job[j].machine IN
    /\ At(j, "look")
    /\ \/ running[x] # Off /\ x \notin paused /\ Goto(j, "destroy")
       \/ running[x] = Off /\ Goto(j, "delete")
       \/ x \in paused /\ PassOver(j, "delete")
    /\ UNCHANGED <<ins, saved, doc, host>>

\* stopDomainIfRunning: DomainDestroy, an error for a domain that is off
Destroy(j) == LET x == job[j].machine IN
    /\ At(j, "destroy")
    /\ \/ /\ running[x] # Off
          /\ running' = [running EXCEPT ![x] = Off] /\ paused' = paused \ {x}
          /\ Goto(j, "delete")
       \/ /\ running[x] = Off
          /\ Fail(j) /\ UNCHANGED power
    /\ UNCHANGED <<ins, saved, doc, xml, vol>>

\* a release leaves the volume to the next provision
Bug_Delete(j) == LET x == job[j].machine IN
    /\ At(j, "delete")
    /\ IF job[j].kind = "release" THEN Goto(j, "tidy") /\ UNCHANGED vol
       ELSE Goto(j, "fetch") /\ vol' = [vol EXCEPT ![x] = NoVolume]
    /\ UNCHANGED <<ins, saved, doc, xml, power>>

\* deleteVolumeIfExists, of the root volume
Delete(j) == LET x == job[j].machine IN
    /\ At(j, "delete")
    /\ vol' = [vol EXCEPT ![x] = NoVolume]
    /\ Goto(j, IF job[j].kind = "release" THEN "tidy" ELSE "fetch")
    /\ UNCHANGED <<ins, saved, doc, xml, power>>

\* any error of the volume lookup counts as "no such volume"
VolumeNotFound(j) == /\ At(j, "delete") /\ "find volume" \in Faults
                     /\ IF job[j].kind = "release" THEN PassOver(j, "tidy")
                                                   ELSE Goto(j, "fetch")
                     /\ UNCHANGED <<ins, saved, doc, host>>

\* deleteVolumeIfExists, of the config drive; the last step of a release
Tidy(j) == /\ At(j, "tidy") /\ Succeed(j)
           /\ UNCHANGED <<ins, saved, doc, host>>

\* openCachedOrDownloadImage, materializeImageWithNoCloudSeed
Fetch(j) == /\ At(j, "fetch") /\ Goto(j, "create")
            /\ UNCHANGED <<ins, saved, doc, host>>

\* createVolume, an error when the name is taken
Create(j) == LET x == job[j].machine IN
    /\ At(j, "create")
    /\ \/ /\ vol[x] = NoVolume
          /\ vol' = [vol EXCEPT ![x] = [image |-> job[j].image, by |-> job[j].by,
                                        whole |-> FALSE]]
          /\ Goto(j, "upload")
       \/ /\ vol[x] # NoVolume
          /\ Fail(j) /\ UNCHANGED vol
    /\ UNCHANGED <<ins, saved, doc, xml, power>>

\* StorageVolUpload, into whatever volume has the name now
Upload(j) == LET x == job[j].machine IN
    /\ At(j, "upload")
    /\ \/ /\ vol[x] # NoVolume
          /\ vol' = [vol EXCEPT ![x] = [image |-> job[j].image, by |-> job[j].by,
                                        whole |-> TRUE]]
          /\ Goto(j, "resize")
       \/ /\ vol[x] = NoVolume
          /\ Fail(j) /\ UNCHANGED vol
    /\ UNCHANGED <<ins, saved, doc, xml, power>>

\* expandRootVolume
Resize(j) == /\ At(j, "resize")
             /\ IF vol[job[j].machine] = NoVolume THEN Fail(j) ELSE Goto(j, "patch")
             /\ UNCHANGED <<ins, saved, doc, host>>

\* StorageVolDelete in the two error paths, its error ignored
Drop(j) == /\ At(j, "drop")
           /\ vol' = [vol EXCEPT ![job[j].machine] = NoVolume]
           /\ End(j, Failed)
           /\ UNCHANGED <<ins, saved, doc, xml, power>>

\* StorageVolGetPath; updateDomainBootDisk: DomainGetXMLDesc and the edit
Patch(j) == LET d == xml[job[j].machine] IN
    /\ At(j, "patch")
    /\ \/ /\ Candidates(d) # {}
          /\ doc' = [doc EXCEPT ![j] = PatchDomainBootDiskXML(d)]
          /\ Goto(j, "define")
       \/ /\ Candidates(d) = {}
          /\ Fail(j) /\ UNCHANGED doc
    /\ UNCHANGED <<ins, saved, host>>

\* the error of the define call is dropped
Bug_Define(j) == LET x == job[j].machine IN
    /\ At(j, "define")
    /\ xml' = IF Definable(doc[j]) THEN [xml EXCEPT ![x] = doc[j]] ELSE xml
    /\ Goto(j, "clean")
    /\ doc' = [doc EXCEPT ![j] = NoDoc]
    /\ UNCHANGED <<ins, saved, power, vol>>

\* updateDomainBootDisk: DomainDefineXML, with the document read a step before
Define(j) == LET x == job[j].machine IN
    /\ At(j, "define")
    /\ \/ /\ Definable(doc[j])
          /\ xml' = [xml EXCEPT ![x] = doc[j]]
          /\ Goto(j, "clean")
       \/ /\ ~Definable(doc[j])
          /\ Fail(j) /\ UNCHANGED xml
    /\ doc' = [doc EXCEPT ![j] = NoDoc]
    /\ UNCHANGED <<ins, saved, power, vol>>

\* cleanupConfigDrive: DomainGetXMLDesc and the edit, if there is a CD-ROM
Clean(j) == LET d == xml[job[j].machine] IN
    /\ At(j, "clean")
    /\ IF CDROMs(d) = {} THEN Goto(j, "recheck") /\ UNCHANGED doc
       ELSE Goto(j, "redefine") /\ doc' = [doc EXCEPT ![j] = StripConfigDriveDisks(d)]
    /\ UNCHANGED <<ins, saved, host>>

\* cleanupConfigDrive: DomainDefineXML of a document that lost devices only
Redefine(j) == /\ At(j, "redefine")
               /\ xml' = [xml EXCEPT ![job[j].machine] = doc[j]]
               /\ doc' = [doc EXCEPT ![j] = NoDoc]
               /\ Goto(j, "recheck")
               /\ UNCHANGED <<ins, saved, power, vol>>

\* the test of the domain state is the wrong way round
Bug_LookAgain(j) == LET x == job[j].machine IN
    /\ At(j, "recheck")
    /\ IF running[x] # Off /\ x \notin paused THEN Goto(j, "boot") ELSE Succeed(j)
    /\ UNCHANGED <<ins, saved, doc, host>>

\* startDomain: DomainGetState
LookAgain(j) == LET x == job[j].machine IN
    /\ At(j, "recheck")
    /\ IF running[x] # Off /\ x \notin paused THEN Succeed(j) ELSE Goto(j, "boot")
    /\ UNCHANGED <<ins, saved, doc, host>>

\* The volume is there if a disk of the domain needs it.
Startable(x) == UsesVolume(xml[x]) # {} => vol[x] # NoVolume

\* startDomain: DomainCreate, an error if the domain is alive or lacks a disk file
Boot(j) == LET x == job[j].machine IN
    /\ At(j, "boot")
    /\ \/ /\ running[x] = Off /\ Startable(x)
          /\ running' = [running EXCEPT ![x] = IF BootsVolume(xml[x]) THEN vol[x] ELSE Original]
          /\ Succeed(j)
       \/ /\ running[x] # Off \/ ~Startable(x)
          /\ Fail(j) /\ UNCHANGED running
    /\ UNCHANGED <<ins, saved, doc, xml, paused, vol>>

\* The call of the step fails and has no effect.
Fault(j) == /\ job[j] # NoJob /\ job[j].pc \in Faults
            /\ Fail(j)
            /\ doc' = [doc EXCEPT ![j] = NoDoc]
            /\ UNCHANGED <<ins, saved, host>>

JobStep(j) == \/ Lookup(j) \/ ConnectFails(j) \/ Look(j) \/ Destroy(j) \/ Delete(j)
              \/ VolumeNotFound(j) \/ Tidy(j) \/ Fetch(j) \/ Create(j) \/ Upload(j) \/ Resize(j) \/ Drop(j)
              \/ Patch(j) \/ Define(j) \/ Clean(j) \/ Redefine(j) \/ LookAgain(j) \/ Boot(j) \/ Fault(j)

-----------------------------------------------------------------------------
(* The domains.  Their owners, their guests and the hypervisor act on them   *)
(* at any time, a job running or not.                                        *)

Suspend(x) == /\ running[x] # Off /\ x \notin paused
              /\ paused' = paused \cup {x}
              /\ UNCHANGED <<running, settled>>

Resume(x) == /\ x \in paused
             /\ paused' = paused \ {x}
             /\ UNCHANGED <<running, settled>>

PowerOff(x) == /\ running[x] # Off
               /\ running' = [running EXCEPT ![x] = Off] /\ paused' = paused \ {x}
               /\ settled' = [settled EXCEPT ![x] = Failed]

Guest(x) == /\ GuestsAct
            /\ Suspend(x) \/ Resume(x) \/ PowerOff(x)
            /\ UNCHANGED <<ins, saved, job, doc, xml, vol>>

-----------------------------------------------------------------------------
(* The callers.  The cloud side puts one instance on a machine at a time;    *)
(* the server does not check it.                                             *)

Live == {i \in InstIds : ins[i] # Absent}

Placeable(x) == \A i \in Live : ins[i].machine # x

Quiet(x) == CallersWait => JobsOn(x) = {}

Call == \/ \E i \in InstIds, x \in Machines, g \in Images \cup {NoImage} :
              Placeable(x) /\ Quiet(x) /\ AllocateInstance(i, x, g)
        \/ \E i \in Live : Quiet(ins[i].machine) /\ ReleaseInstance(i)

Next == \/ Call \/ Save \/ Crash
        \/ \E j \in Jobs : JobStep(j)
        \/ \E x \in Machines : Guest(x)

Spec == Init /\ [][Next]_vars

\* Goroutines run and every libvirt call returns.
FairSpec == Spec /\ \A j \in Jobs : WF_vars(JobStep(j))

-----------------------------------------------------------------------------
(* Properties. *)

\* The type of every variable.
TypeOK ==
    /\ ins \in [InstIds -> Instance \cup {Absent}]
    /\ saved \in [InstIds -> Instance \cup {Absent}]
    /\ job \in [Jobs -> Job \cup {NoJob}]
    /\ doc \in [Jobs -> Domain \cup {NoDoc}]
    /\ xml \in [Machines -> Domain]
    /\ running \in [Machines -> Volume \cup {Off, Original}]
    /\ paused \subseteq {x \in Machines : running[x] # Off}
    /\ vol \in [Machines -> Volume \cup {NoVolume}]
    /\ settled \in [Machines -> Outcome]

\* When the last job on a machine provisioned an instance with an image, had no
\* error and passed no live domain over, the machine runs the whole image of that
\* instance and no other, whatever failed or crashed before.
ProvisionedRunsItsImage ==
    \A x \in Machines, i \in InstIds, g \in Images :
        /\ JobsOn(x) = {}
        /\ settled[x] = [kind |-> "provision", by |-> i, image |-> g, clean |-> TRUE]
        => running[x] = [image |-> g, by |-> i, whole |-> TRUE]

Released(x) == settled[x] # Failed /\ settled[x].kind = "release" /\ settled[x].clean

\* The comment of ReleaseMachine: it stops the domain and deletes its volume.
\* A release that passed over an error or a paused domain is excepted; what earlier
\* jobs, crashes and guests left on the machine is not.
ReleasedIsOff ==
    \A x \in Machines :
        JobsOn(x) = {} /\ Released(x) => running[x] = Off /\ vol[x] = NoVolume

\* A domain boots a root volume only when it is complete and was made for the
\* booting instance, also beside a paused domain that ends in time: always if the
\* instance has an image of its own, and after a clean release if it has none and
\* takes the machine as it is.
NoForeignBoot ==
    [][\A j \in Jobs :
          LET x == job[j].machine
          IN /\ j \in Active /\ Boot(j)
             /\ running[x] = Off /\ running'[x] \notin {Off, Original}
             /\ job[j].image # NoImage \/ Released(x)
             => running'[x].by = job[j].by /\ running'[x].whole]_vars

\* However jobs overlap and whatever fails but the cleanup itself, a root volume
\* that is not complete has a job on its machine that will finish or delete it:
\* no half-written image stays behind for a later boot.
HalfImageIsAttended ==
    \A x \in Machines :
        vol[x] # NoVolume /\ ~vol[x].whole
            => \E j \in JobsOn(x) : job[j].pc \in {"upload", "drop"}

\* The disk that a provision overwrites, if the domain has one.
BootDisk(d) == IF Candidates(d) = {} THEN {} ELSE {SelectBootDiskIndex(d)}

\* In the whole life of a machine one disk is overwritten and the others keep
\* their data: each provision chooses again, in a document that earlier ones have
\* edited, that a cleanup has shortened and that an overlapping job writes back
\* out of date, and yet it chooses the same disk.
DataDisksKept ==
    [][\A x \in Machines : /\ UsesVolume(xml'[x]) \subseteq BootDisk(xml[x])
                           /\ BootDisk(xml'[x]) = BootDisk(xml[x])]_xml

\* The job that a machine is busy with, as MachineService sees it.
Work(x) == IF JobsOn(x) = {} THEN NoJob
           ELSE LET j == CHOOSE j \in JobsOn(x) : TRUE
                IN [kind |-> job[j].kind, by |-> job[j].by, image |-> job[j].image,
                    clean |-> job[j].clean]

Service == INSTANCE MachineService WITH
    NoWork <- NoJob, work <- [x \in Machines |-> Work(x)]

\* For callers who wait, the libvirt calls of a job, its errors and a crash in
\* between, implement MachineService: a domain is started only by the step that
\* reports success, from the volume made for it, and no error leaves a domain
\* alive on a volume that is being replaced, unless it was passed over paused.
ImplementsMachineService == Service!Spec

\* A provision job ends with the machine running its image or with an error in
\* the log; it is never taken for done before the domain has been started, unless
\* it has passed over a paused domain, which someone else may resume.
ProvisionEnds ==
    \A x \in Machines, i \in InstIds, g \in Images :
        (\E j \in JobsOn(x) : job[j].kind = "provision" /\ job[j].by = i /\ job[j].image = g)
            ~> \/ running[x] = [image |-> g, by |-> i, whole |-> TRUE]
               \/ /\ JobsOn(x) = {}
                  /\ settled[x] = Failed \/ ~settled[x].clean
=============================================================================
