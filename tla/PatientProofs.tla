--------------------------- MODULE PatientProofs ---------------------------
(***************************************************************************)
(* Proofs about Provisioning when callers wait: a machine is left alone    *)
(* while a job runs on it.  Any number of machines, instances and jobs;    *)
(* every call may fail and the process may crash at any point.             *)
(***************************************************************************)
EXTENDS ProvisioningProofs

\* A disk that uses the root volume boots first.  No cleanup removes a disk.
BootsDisk(d) ==
    \E k \in Ordered(d) \cap UsesVolume(d) :
        /\ d.devs[k].kind = "disk"
        /\ \A l \in Ordered(d) : d.devs[k].order <= d.devs[l].order

\* Jobs on a machine do not overlap.
Alone == \A j, k \in Jobs : job[j] # NoJob /\ job[k] # NoJob /\ job[j].machine = job[k].machine
                            => j = k

RootVolume(j) == [image |-> job[j].image, by |-> job[j].by, whole |-> TRUE]

OffUntilBoot == {"delete", "fetch", "create", "upload", "resize", "drop", "patch",
                   "define", "clean", "redefine", "recheck", "boot"}

\* How far a provision with an image has come.  Beside a domain that was paused
\* when it looked, it makes its volume all the same.
ProvisionStage(j) ==
    LET x == job[j].machine
    IN /\ job[j].clean /\ job[j].pc \in OffUntilBoot => running[x] = Off
       /\ job[j].pc \in {"resize", "patch", "define", "clean", "redefine", "recheck", "boot"}
             => vol[x] = RootVolume(j)
       /\ job[j].pc \in {"define", "redefine"} => BootsDisk(doc[j])
       /\ job[j].pc \in {"clean", "redefine", "recheck", "boot"} => BootsDisk(xml[x])

Stage(j) == job[j] # NoJob =>
    /\ job[j].kind = "provision" /\ job[j].image \in Images => ProvisionStage(j)
    /\ job[j].kind = "provision" /\ job[j].image = NoImage /\ Released(job[j].machine)
          => vol[job[j].machine] = NoVolume /\ running[job[j].machine] = Off
    /\ job[j].kind = "release" /\ job[j].clean =>
          /\ job[j].pc \in {"delete", "tidy"} => running[job[j].machine] = Off
          /\ job[j].pc = "tidy" => vol[job[j].machine] = NoVolume

Provisioned(x) == /\ settled[x] # Failed /\ settled[x].kind = "provision"
                  /\ settled[x].image \in Images /\ settled[x].clean

Ran(x) == Provisioned(x) =>
            running[x] = [image |-> settled[x].image, by |-> settled[x].by, whole |-> TRUE]

Emptied(x) == Released(x) => running[x] = Off /\ vol[x] = NoVolume

Resting(x) == \A j \in Jobs : job[j] # NoJob => job[j].machine # x

\* What the job that ended last has left behind, while no other has begun.
Left(x) == Resting(x) => Ran(x) /\ Emptied(x)

Patient == /\ Alone
           /\ \A j \in Jobs : Stage(j)
           /\ \A x \in Machines : Left(x)

-----------------------------------------------------------------------------
(* The edits of the domain XML. *)

LEMMA BootsDiskMeans == \A d : BootsDisk(d) => BootsVolume(d)
BY DEF BootsDisk, BootsVolume

LEMMA PatchBoots ==
    ASSUME NEW d \in Domain, Candidates(d) # {}
    PROVE  BootsDisk(PatchDomainBootDiskXML(d))
<1> DEFINE s == SelectBootDiskIndex(d)
           p == PatchDomainBootDiskXML(d)
<1>1. /\ p \in Domain /\ s \in Slots /\ p.devs[s] \in Device
      /\ p.devs[s].kind = "disk" /\ p.devs[s].order = 1 /\ p.devs[s].source = "volume"
  BY PatchShape
<1> HIDE DEF s, p
<1>2. s \in Ordered(p) \cap UsesVolume(p)
  BY <1>1, DomainAssumption DEF Ordered, UsesVolume, Devices
<1>3. \A l \in Ordered(p) : p.devs[s].order <= p.devs[l].order
  <2> TAKE l \in Ordered(p)
  <2>1. p.devs[l] \in Device BY <1>1 DEF Ordered, Devices, Domain
  <2>2. p.devs[l].order \in Nat /\ p.devs[l].order > 0 BY <2>1 DEF Ordered, Device
  <2> QED BY <1>1, <2>2
<1> QED BY <1>1, <1>2, <1>3 DEF BootsDisk, p

LEMMA StripBoots ==
    ASSUME NEW d \in Domain, BootsDisk(d)
    PROVE  BootsDisk(StripConfigDriveDisks(d))
<1> DEFINE t == StripConfigDriveDisks(d)
<1>1. t = [osboot |-> d.osboot,
           devs |-> [n \in Slots |-> IF n \in CDROMs(d) THEN NoDevice ELSE d.devs[n]]]
  BY DEF StripConfigDriveDisks, Domain
<1>2. PICK k \in Ordered(d) \cap UsesVolume(d) :
        /\ d.devs[k].kind = "disk"
        /\ \A l \in Ordered(d) : d.devs[k].order <= d.devs[l].order
  BY DEF BootsDisk
<1>3. t.devs[k] = d.devs[k] /\ k \in Slots
  BY <1>1, <1>2 DEF CDROMs, IsCDROMDisk, Ordered, Devices
<1>4. \A l \in Devices(t) : l \in Devices(d) /\ t.devs[l] = d.devs[l]
  BY StripType
<1> HIDE DEF t
<1>5. k \in Ordered(t) \cap UsesVolume(t)
  BY <1>2, <1>3 DEF Ordered, UsesVolume, Devices
<1>6. \A l \in Ordered(t) : l \in Ordered(d) /\ t.devs[l] = d.devs[l]
  BY <1>4 DEF Ordered
<1> QED BY <1>2, <1>3, <1>5, <1>6 DEF BootsDisk, t

-----------------------------------------------------------------------------
(* What a job's step does to its own machine and to the others. *)

LEMMA StaysOrEnds ==
    ASSUME Typed, NEW j \in Jobs, job[j] # NoJob, Moves(j)
    PROVE  \/ job'[j] = NoJob
           \/ /\ job'[j] # NoJob /\ job'[j].machine = job[j].machine
              /\ UNCHANGED settled
<1>1. JobsOK BY TypeParts DEF Typed
<1> QED BY <1>1, TakesMeans DEF Moves, End, JobsOK

LEMMA StepLocal ==
    ASSUME Typed, NEW j \in Jobs, JobStep(j)
    PROVE  /\ \A k \in Jobs : k # j => job'[k] = job[k] /\ doc'[k] = doc[k]
           /\ \A y \in Machines : y # job[j].machine =>
                 /\ running'[y] = running[y] /\ vol'[y] = vol[y]
                 /\ xml'[y] = xml[y] /\ settled'[y] = settled[y]
<1>1. \A k \in Jobs : k # j => job'[k] = job[k] BY OthersStay
<1>2. \A k \in Jobs : k # j => doc'[k] = doc[k]
  BY DEF JobStep, Lookup, ConnectFails, Look, Destroy, Delete, VolumeNotFound, Tidy, Fetch, Create,
         Upload, Resize, Drop, Patch, Define, Clean, Redefine, LookAgain, Boot, Fault,
         Typed, DocsOK
<1>3. \A y \in Machines : y # job[j].machine => running'[y] = running[y]
  BY DEF JobStep, Lookup, ConnectFails, Look, Destroy, Delete, VolumeNotFound, Tidy, Fetch, Create,
         Upload, Resize, Drop, Patch, Define, Clean, Redefine, LookAgain, Boot, Fault, host,
         power, Typed, TypeOK
<1>4. \A y \in Machines : y # job[j].machine => vol'[y] = vol[y]
  BY DEF JobStep, Lookup, ConnectFails, Look, Destroy, Delete, VolumeNotFound, Tidy, Fetch, Create,
         Upload, Resize, Drop, Patch, Define, Clean, Redefine, LookAgain, Boot, Fault, host,
         power, Typed, TypeOK
<1>5. \A y \in Machines : y # job[j].machine => xml'[y] = xml[y]
  BY DEF JobStep, Lookup, ConnectFails, Look, Destroy, Delete, VolumeNotFound, Tidy, Fetch, Create,
         Upload, Resize, Drop, Patch, Define, Clean, Redefine, LookAgain, Boot, Fault, host,
         power, Typed, TypeOK
<1>6. \A y \in Machines : y # job[j].machine => settled'[y] = settled[y]
  BY StepMoves DEF Moves, Takes, Goto, End, PassOver, Typed, TypeOK
<1> QED BY <1>1, <1>2, <1>3, <1>4, <1>5, <1>6

LEMMA AloneKept ==
    ASSUME Typed, Patient, NEW j \in Jobs, JobStep(j)
    PROVE  /\ Alone'
           /\ \A k \in Jobs : k # j => Stage(k)'
           /\ \A y \in Machines : y # job[j].machine => Left(y)'
<1>1. job[j] # NoJob /\ Moves(j) BY StepMoves
<1>2. job'[j] = NoJob \/ (job'[j] # NoJob /\ job'[j].machine = job[j].machine)
  BY <1>1, StaysOrEnds
<1>3. Alone'
  BY <1>1, <1>2, StepLocal DEF Patient, Alone
<1>4. ASSUME NEW k \in Jobs, k # j PROVE Stage(k)'
  <2>1. SUFFICES ASSUME job[k] # NoJob PROVE Stage(k)'
    BY <1>4, StepLocal DEF Stage
  <2>2. job[k].machine # job[j].machine /\ job[k].machine \in Machines
    BY <1>1, <1>4, <2>1, ActiveIsJob, TypeParts DEF Patient, Alone, Typed, Job
  <2>3. Stage(k) BY DEF Patient
  <2> DEFINE x == job[k].machine
  <2>4. job'[k] = job[k] /\ doc'[k] = doc[k]
    BY <1>4, StepLocal
  <2>5. /\ running'[x] = running[x] /\ vol'[x] = vol[x]
        /\ xml'[x] = xml[x] /\ settled'[x] = settled[x]
    BY <2>2, StepLocal
  <2>6. ProvisionStage(k) => ProvisionStage(k)'
    BY <2>4, <2>5 DEF ProvisionStage, RootVolume
  <2>7. Released(x)' = Released(x)
    BY <2>4, <2>5 DEF Released
  <2> QED BY <2>1, <2>3, <2>4, <2>5, <2>6, <2>7 DEF Stage
<1>5. ASSUME NEW y \in Machines, y # job[j].machine PROVE Left(y)'
  <2>1. Resting(y)' => Resting(y)
    BY <1>5, StepLocal DEF Resting
  <2> QED BY <1>5, <2>1, StepLocal DEF Patient, Left, Ran, Provisioned, Emptied, Released
<1> QED BY <1>3, <1>4, <1>5

-----------------------------------------------------------------------------
(* What a step does to its own machine. *)

LEMMA Goes ==
    ASSUME Typed, Patient, NEW j \in Jobs, job[j] # NoJob, NEW s \in Steps, Goto(j, s),
           NEW x, x = job[j].machine,
           job[j].kind = "provision" /\ job[j].image \in Images =>
              /\ job[j].clean /\ s \in OffUntilBoot => running'[x] = Off
              /\ s \in {"resize", "patch", "define", "clean", "redefine", "recheck", "boot"}
                    => vol'[x] = RootVolume(j)
              /\ s \in {"define", "redefine"} => BootsDisk(doc'[j])
              /\ s \in {"clean", "redefine", "recheck", "boot"} => BootsDisk(xml'[x]),
           job[j].kind = "provision" /\ job[j].image = NoImage /\ Released(x)
              => vol'[x] = NoVolume /\ running'[x] = Off,
           job[j].kind = "release" /\ job[j].clean =>
              /\ s \in {"delete", "tidy"} => running'[x] = Off
              /\ s = "tidy" => vol'[x] = NoVolume
    PROVE  Stage(j)' /\ Left(x)'
<1>1. JobsOK /\ Takes(j, s) BY TypeParts DEF Typed, Takes
<1>2. /\ job'[j].pc = s /\ job'[j].machine = x /\ job'[j].kind = job[j].kind
      /\ job'[j].image = job[j].image /\ job'[j].by = job[j].by /\ job'[j].clean = job[j].clean
      /\ job'[j] # NoJob /\ UNCHANGED settled
  BY <1>1, TakesMeans
<1>3. Left(x)' BY <1>2 DEF Left, Resting
<1>4. Stage(j)' BY <1>2 DEF Stage, ProvisionStage, RootVolume, Released
<1> QED BY <1>3, <1>4

LEMMA GoesOn ==
    ASSUME Typed, NEW j \in Jobs, job[j] # NoJob, NEW s \in {"delete", "tidy"}, PassOver(j, s),
           job[j].kind = "release" \/ job[j].image # NoImage,
           NEW x, x = job[j].machine
    PROVE  Stage(j)' /\ Left(x)'
<1>1. JobsOK /\ Takes(j, s) /\ s \in Steps BY TypeParts DEF Typed, Takes, Steps
<1>2. /\ job'[j].pc = s /\ job'[j].machine = x /\ job'[j].kind = job[j].kind
      /\ job'[j].image = job[j].image /\ ~job'[j].clean /\ job'[j] # NoJob
  BY <1>1, TakesMeans
<1> QED BY <1>2 DEF Stage, ProvisionStage, Left, Resting

LEMMA EndsFailed ==
    ASSUME Typed, NEW j \in Jobs, job[j] # NoJob, End(j, Failed),
           NEW x, x = job[j].machine
    PROVE  Stage(j)' /\ Left(x)'
<1>1. x \in Machines BY ActiveIsJob, TypeParts DEF Typed, Job
<1>2. job'[j] = NoJob /\ settled'[x] = Failed
  BY <1>1 DEF End, Typed, TypeOK
<1> QED BY <1>2 DEF Stage, Left, Ran, Provisioned, Emptied, Released

LEMMA Fails ==
    ASSUME Typed, Patient, NEW j \in Jobs, job[j] # NoJob, Fail(j), UNCHANGED <<running, vol>>,
           NEW x, x = job[j].machine
    PROVE  Stage(j)' /\ Left(x)'
<1>1. CASE job[j].kind = "release" /\ PassOver(j, "delete") BY <1>1, GoesOn
<1>2. CASE End(j, Failed) BY <1>2, EndsFailed
<1>3. CASE job[j].pc \in {"upload", "resize"} /\ Goto(j, "drop")
  <2>1. job[j] \in Job BY ActiveIsJob, TypeParts DEF Typed
  <2>2. job[j].kind = "provision" /\ job[j].image \in Images
    BY <1>3, <2>1 DEF Typed, HasImage, ReleaseSteps, Job
  <2>3. job[j].clean => running[x] = Off
    BY <1>3, <2>2 DEF Patient, Stage, ProvisionStage, OffUntilBoot
  <2> QED BY <1>3, <2>2, <2>3, Goes, ProvisioningAssumption DEF Steps
<1> QED BY <1>1, <1>2, <1>3, FailMeans

\* A job that ends without error.
LEMMA EndsWell ==
    ASSUME Typed, NEW j \in Jobs, job[j] # NoJob, Succeed(j),
           NEW x, x = job[j].machine,
           job[j].kind = "provision" /\ job[j].image \in Images /\ job[j].clean
              => running'[x] = RootVolume(j),
           job[j].kind = "release" /\ job[j].clean => running'[x] = Off /\ vol'[x] = NoVolume
    PROVE  Stage(j)' /\ Left(x)'
<1>1. job[j] \in Job BY ActiveIsJob, TypeParts DEF Typed
<1>2. job'[j] = NoJob
      /\ settled'[x] = [kind |-> job[j].kind, by |-> job[j].by, image |-> job[j].image,
                        clean |-> job[j].clean]
  BY <1>1 DEF Succeed, End, Typed, TypeOK, Job
<1> QED BY <1>2 DEF Stage, Left, Ran, Provisioned, Emptied, Released, RootVolume

LEMMA OwnStep ==
    ASSUME Typed, Patient, NEW j \in Jobs, JobStep(j), NEW x, x = job[j].machine
    PROVE  Stage(j)' /\ Left(x)'
<1> DEFINE imaged == job[j].kind = "provision" /\ job[j].image \in Images
           bare == job[j].kind = "provision" /\ job[j].image = NoImage /\ Released(x)
           release == job[j].kind = "release"
<1>1. job[j] # NoJob /\ job[j] \in Job BY StepMoves
<1>2. /\ x \in Machines /\ job[j].clean \in BOOLEAN
      /\ job[j].kind \in {"provision", "release"}
  BY <1>1 DEF Job
<1>3. /\ imaged => ProvisionStage(j)
      /\ bare => vol[x] = NoVolume /\ running[x] = Off
      /\ release /\ job[j].clean =>
            /\ job[j].pc \in {"delete", "tidy"} => running[x] = Off
            /\ job[j].pc = "tidy" => vol[x] = NoVolume
  BY <1>1 DEF Patient, Stage
<1>4. /\ release => job[j].pc \in {"lookup", "look", "destroy", "delete", "tidy"}
      /\ job[j].pc = "tidy" => release
  BY <1>1 DEF Typed, ReleaseSteps
<1>5. job[j].pc \in {"look", "destroy", "delete", "fetch", "create", "upload",
                     "resize", "drop", "patch", "define"} => release \/ imaged
  BY <1>1, <1>2 DEF Typed, HasImage
<1>6. ~(imaged /\ bare) BY ProvisioningAssumption
<1>t. /\ running \in [Machines -> Volume \cup {Off, Original}]
      /\ vol \in [Machines -> Volume \cup {NoVolume}]
      /\ xml \in [Machines -> Domain]
      /\ doc \in [Jobs -> Domain \cup {NoDoc}]
  BY DEF Typed, TypeOK
<1>7. CASE Lookup(j)
  <2>1. PICK s \in Steps : Goto(j, s) /\ s \in {"clean", "look"} /\ (imaged => s = "look")
    BY <1>7, <1>6, ProvisioningAssumption DEF Lookup, Steps
  <2> QED BY <1>1, <1>3, <1>7, <2>1, Goes DEF Lookup, host, power, OffUntilBoot
<1>8. CASE ConnectFails(j)
  BY <1>1, <1>8, EndsFailed DEF ConnectFails
<1>9. CASE Look(j)
  <2>1. ~bare /\ (release \/ imaged) BY <1>5, <1>6, <1>9 DEF Look, At
  <2>2. CASE running[x] = Off /\ Goto(j, "delete")
    BY <1>1, <1>9, <2>1, <2>2, Goes DEF Look, host, power, OffUntilBoot, Steps
  <2>3. CASE Goto(j, "destroy")
    BY <1>1, <1>9, <2>1, <2>3, Goes DEF Look, host, power, OffUntilBoot, Steps
  <2>4. CASE PassOver(j, "delete")
    BY <1>1, <2>1, <2>4, GoesOn, ProvisioningAssumption
  <2> QED BY <1>9, <2>2, <2>3, <2>4 DEF Look
<1>10. CASE Destroy(j)
  <2>1. ~bare BY <1>5, <1>6, <1>10 DEF Destroy, At
  <2>2. CASE running' = [running EXCEPT ![x] = Off] /\ Goto(j, "delete")
    <3>1. running'[x] = Off BY <1>2, <1>t, <2>2
    <3> QED BY <1>1, <2>1, <2>2, <3>1, Goes DEF OffUntilBoot, Steps
  <2>3. CASE Fail(j) /\ UNCHANGED power
    BY <1>1, <1>10, <2>3, Fails DEF Destroy, power
  <2> QED BY <1>10, <2>2, <2>3 DEF Destroy
<1>11. CASE Delete(j)
  <2>1. ~bare /\ vol'[x] = NoVolume /\ running' = running
    BY <1>2, <1>5, <1>6, <1>t, <1>11 DEF Delete, At, power
  <2>2. CASE release
    <3>1. job[j].clean => running[x] = Off BY <1>3, <1>11, <2>2 DEF Delete, At
    <3> QED BY <1>1, <1>2, <1>11, <2>1, <2>2, <3>1, Goes DEF Delete, Steps, OffUntilBoot, power
  <2>3. CASE imaged
    <3>1. job[j].clean => running[x] = Off BY <1>3, <1>11, <2>3 DEF ProvisionStage, Delete, At, OffUntilBoot
    <3> QED BY <1>1, <1>11, <2>1, <2>3, <3>1, Goes DEF Delete, Steps, OffUntilBoot, power
  <2> QED BY <1>5, <1>11, <2>2, <2>3 DEF Delete, At
<1>12. CASE VolumeNotFound(j)
  <2>1. ~bare BY <1>5, <1>6, <1>12 DEF VolumeNotFound, At
  <2>2. CASE release
    BY <1>1, <1>12, <2>2, GoesOn DEF VolumeNotFound
  <2>3. CASE imaged
    <3>1. job[j].clean => running[x] = Off
      BY <1>3, <1>12, <2>3 DEF ProvisionStage, VolumeNotFound, At, OffUntilBoot
    <3> QED BY <1>1, <1>12, <2>1, <2>3, <3>1, Goes DEF VolumeNotFound, Steps, OffUntilBoot, host, power
  <2> QED BY <1>5, <1>12, <2>2, <2>3 DEF VolumeNotFound, At
<1>25. CASE Tidy(j)
  <2>1. release /\ job[j].pc = "tidy" BY <1>4, <1>25 DEF Tidy, At
  <2>2. UNCHANGED <<running, vol>> BY <1>25 DEF Tidy, host, power
  <2> QED BY <1>1, <1>3, <1>25, <2>1, <2>2, EndsWell DEF Tidy
<1>13. CASE Fetch(j)
  <2>1. imaged BY <1>4, <1>5, <1>13 DEF Fetch, At
  <2>2. job[j].clean => running[x] = Off BY <1>3, <1>13, <2>1 DEF ProvisionStage, Fetch, At, OffUntilBoot
  <2> QED BY <1>1, <1>6, <1>13, <2>1, <2>2, Goes DEF Fetch, Steps, OffUntilBoot, host, power
<1>14. CASE Create(j)
  <2>1. imaged BY <1>4, <1>5, <1>14 DEF Create, At
  <2>2. job[j].clean => running[x] = Off BY <1>3, <1>14, <2>1 DEF ProvisionStage, Create, At, OffUntilBoot
  <2>3. CASE Goto(j, "upload")
    BY <1>1, <1>6, <1>14, <2>1, <2>2, <2>3, Goes DEF Create, Steps, OffUntilBoot, power
  <2>4. CASE Fail(j) /\ UNCHANGED vol
    BY <1>1, <1>14, <2>4, Fails DEF Create, power
  <2> QED BY <1>14, <2>3, <2>4 DEF Create
<1>15. CASE Upload(j)
  <2>1. imaged BY <1>4, <1>5, <1>15 DEF Upload, At
  <2>2. job[j].clean => running[x] = Off BY <1>3, <1>15, <2>1 DEF ProvisionStage, Upload, At, OffUntilBoot
  <2>3. CASE /\ vol' = [vol EXCEPT ![x] = [image |-> job[j].image, by |-> job[j].by, whole |-> TRUE]]
             /\ Goto(j, "resize")
    <3>1. vol'[x] = RootVolume(j) BY <1>2, <1>t, <2>3 DEF RootVolume
    <3>2. running' = running BY <1>15 DEF Upload, power
    <3> QED BY <1>1, <1>6, <2>1, <2>2, <2>3, <3>1, <3>2, Goes DEF Steps, OffUntilBoot
  <2>4. CASE Fail(j) /\ UNCHANGED vol
    BY <1>1, <1>15, <2>4, Fails DEF Upload, power
  <2> QED BY <1>15, <2>3, <2>4 DEF Upload
<1>16. CASE Resize(j)
  <2>1. imaged BY <1>4, <1>5, <1>16 DEF Resize, At
  <2>2. (job[j].clean => running[x] = Off) /\ vol[x] = RootVolume(j)
    BY <1>3, <1>16, <2>1 DEF ProvisionStage, Resize, At, OffUntilBoot
  <2>3. CASE Goto(j, "patch")
    BY <1>1, <1>6, <1>16, <2>1, <2>2, <2>3, Goes DEF Resize, Steps, OffUntilBoot, host, power
  <2>4. CASE Fail(j)
    BY <1>1, <1>16, <2>4, Fails DEF Resize, host, power
  <2> QED BY <1>16, <2>3, <2>4 DEF Resize
<1>17. CASE Drop(j)
  BY <1>1, <1>17, EndsFailed DEF Drop
<1>18. CASE Patch(j)
  <2>1. imaged BY <1>4, <1>5, <1>18 DEF Patch, At
  <2>2. (job[j].clean => running[x] = Off) /\ vol[x] = RootVolume(j)
    BY <1>3, <1>18, <2>1 DEF ProvisionStage, Patch, At, OffUntilBoot
  <2>3. CASE /\ Candidates(xml[x]) # {} /\ Goto(j, "define")
             /\ doc' = [doc EXCEPT ![j] = PatchDomainBootDiskXML(xml[x])]
    <3>1. BootsDisk(doc'[j]) BY <1>2, <1>t, <2>3, PatchBoots
    <3> QED BY <1>1, <1>6, <1>18, <2>1, <2>2, <2>3, <3>1, Goes DEF Patch, Steps, OffUntilBoot, host, power
  <2>4. CASE Fail(j)
    BY <1>1, <1>18, <2>4, Fails DEF Patch, host, power
  <2> QED BY <1>18, <2>3, <2>4 DEF Patch
<1>19. CASE Define(j)
  <2>1. imaged BY <1>4, <1>5, <1>19 DEF Define, At
  <2>2. (job[j].clean => running[x] = Off) /\ vol[x] = RootVolume(j) /\ BootsDisk(doc[j])
    BY <1>3, <1>19, <2>1 DEF ProvisionStage, Define, At, OffUntilBoot
  <2>3. CASE xml' = [xml EXCEPT ![x] = doc[j]] /\ Goto(j, "clean")
    <3>1. BootsDisk(xml'[x]) BY <1>2, <1>t, <2>2, <2>3
    <3> QED BY <1>1, <1>6, <1>19, <2>1, <2>2, <2>3, <3>1, Goes DEF Define, Steps, OffUntilBoot, power
  <2>4. CASE Fail(j)
    BY <1>1, <1>19, <2>4, Fails DEF Define, power
  <2> QED BY <1>19, <2>3, <2>4 DEF Define
<1>20. CASE Clean(j)
  <2>1. ~release BY <1>4, <1>20 DEF Clean, At
  <2>2. imaged => (job[j].clean => running[x] = Off) /\ vol[x] = RootVolume(j) /\ BootsDisk(xml[x])
    BY <1>3, <1>20 DEF ProvisionStage, Clean, At, OffUntilBoot
  <2>3. CASE Goto(j, "recheck")
    BY <1>1, <1>3, <1>20, <2>1, <2>2, <2>3, Goes DEF Clean, Steps, host, power
  <2>4. CASE Goto(j, "redefine") /\ doc' = [doc EXCEPT ![j] = StripConfigDriveDisks(xml[x])]
    <3>1. imaged => BootsDisk(doc'[j]) BY <1>2, <1>t, <2>2, <2>4, StripBoots
    <3> QED BY <1>1, <1>3, <1>20, <2>1, <2>2, <2>4, <3>1, Goes DEF Clean, Steps, host, power
  <2> QED BY <1>20, <2>3, <2>4 DEF Clean
<1>21. CASE Redefine(j)
  <2>1. ~release BY <1>4, <1>21 DEF Redefine, At
  <2>2. imaged => (job[j].clean => running[x] = Off) /\ vol[x] = RootVolume(j) /\ BootsDisk(doc[j])
    BY <1>3, <1>21 DEF ProvisionStage, Redefine, At, OffUntilBoot
  <2>3. imaged => BootsDisk(xml'[x]) BY <1>2, <1>t, <1>21, <2>2 DEF Redefine
  <2> QED BY <1>1, <1>3, <1>21, <2>1, <2>2, <2>3, Goes DEF Redefine, Steps, power
<1>22. CASE LookAgain(j)
  <2>1. ~release BY <1>4, <1>22 DEF LookAgain, At
  <2>2. imaged => (job[j].clean => running[x] = Off) /\ vol[x] = RootVolume(j) /\ BootsDisk(xml[x])
    BY <1>3, <1>22 DEF ProvisionStage, LookAgain, At, OffUntilBoot
  <2>3. CASE Goto(j, "boot")
    BY <1>1, <1>3, <1>22, <2>1, <2>2, <2>3, Goes DEF LookAgain, Steps, host, power
  <2>4. CASE running[x] # Off /\ Succeed(j)
    BY <1>1, <1>22, <2>1, <2>2, <2>4, EndsWell DEF LookAgain, host, power
  <2> QED BY <1>22, <2>3, <2>4 DEF LookAgain
<1>23. CASE Boot(j)
  <2>1. ~release BY <1>4, <1>23 DEF Boot, At
  <2>2. imaged => vol[x] = RootVolume(j) /\ BootsVolume(xml[x])
    BY <1>3, <1>23, BootsDiskMeans DEF ProvisionStage, Boot, At, OffUntilBoot
  <2>3. CASE /\ Succeed(j)
             /\ running' = [running EXCEPT ![x] = IF BootsVolume(xml[x]) THEN vol[x] ELSE Original]
    <3>1. imaged => running'[x] = RootVolume(j) BY <1>2, <1>t, <2>2, <2>3
    <3> QED BY <1>1, <2>1, <2>3, <3>1, EndsWell
  <2>4. CASE Fail(j) /\ UNCHANGED running
    BY <1>1, <1>23, <2>4, Fails DEF Boot
  <2> QED BY <1>23, <2>3, <2>4 DEF Boot
<1>24. CASE Fault(j)
  BY <1>1, <1>24, Fails DEF Fault, host, power
<1> QED BY <1>7, <1>8, <1>9, <1>10, <1>11, <1>12, <1>13, <1>14, <1>15, <1>16, <1>17,
           <1>18, <1>19, <1>20, <1>21, <1>22, <1>23, <1>24, <1>25 DEF JobStep

-----------------------------------------------------------------------------
(* Calls, saves and crashes. *)

LEMMA ScheduleKeeps ==
    ASSUME Typed, Patient, NEW kind \in {"provision", "release"}, NEW x \in Machines,
           NEW i \in InstIds, NEW g \in Images \cup {NoImage},
           JobsOn(x) = {}, Schedule(kind, x, i, g), UNCHANGED <<doc, host, settled>>
    PROVE  Patient'
<1>1. PICK j \in Jobs :
        /\ job[j] = NoJob
        /\ job' = [job EXCEPT ![j] = [kind |-> kind, machine |-> x, by |-> i,
                                      image |-> g, pc |-> "lookup", clean |-> TRUE]]
  BY DEF Schedule
<1>2. \A k \in Jobs : k # j => job'[k] = job[k]
  BY <1>1 DEF Typed, TypeOK
<1>3. job'[j] = [kind |-> kind, machine |-> x, by |-> i, image |-> g, pc |-> "lookup",
                 clean |-> TRUE]
  BY <1>1 DEF Typed, TypeOK
<1>4. job'[j] # NoJob
  <2>1. job'[j] \in Job BY <1>3 DEF Job, Steps
  <2> QED BY <2>1, SpecialValues
<1>5. Resting(x) BY DEF Resting, JobsOn, Active
<1>6. UNCHANGED <<doc, xml, running, vol, settled>> BY DEF host, power
<1>7. Alone' BY <1>1, <1>2, <1>3, <1>5 DEF Patient, Alone, Resting
<1>8. \A k \in Jobs : k # j => Stage(k)'
  <2> TAKE k \in Jobs
  <2>1. SUFFICES ASSUME k # j PROVE Stage(k)' OBVIOUS
  <2>2. Stage(k) /\ job'[k] = job[k] BY <1>2, <2>1 DEF Patient
  <2> QED BY <1>6, <2>2 DEF Stage, ProvisionStage, RootVolume, Released
<1>9. Stage(j)'
  <2>1. Released(x) => vol[x] = NoVolume /\ running[x] = Off
    BY <1>5 DEF Patient, Left, Emptied
  <2> QED BY <1>3, <1>6, <2>1 DEF Stage, ProvisionStage, Released, OffUntilBoot
<1>10. \A y \in Machines : Left(y)'
  <2> TAKE y \in Machines
  <2>1. Resting(y)' => Resting(y) BY <1>1, <1>2 DEF Resting
  <2> QED BY <1>6, <2>1 DEF Patient, Left, Ran, Provisioned, Emptied, Released
<1> QED BY <1>7, <1>8, <1>9, <1>10 DEF Patient

LEMMA PatientInit == Init => Patient
BY DEF Init, Patient, Alone, Stage, Left, Ran, Provisioned, Emptied, Released

\* A domain that the work counts on is off, and one that is off stays so.
LEMMA GuestKeeps ==
    ASSUME Typed, Patient, NEW x \in Machines, Guest(x)
    PROVE  Patient'
<1>1. UNCHANGED <<job, doc, xml, vol>> BY DEF Guest
<1>2. CASE UNCHANGED <<running, settled>>
  BY <1>1, <1>2 DEF Patient, Alone, Stage, ProvisionStage, RootVolume, Released, Left,
                    Resting, Ran, Provisioned, Emptied
<1>3. CASE PowerOff(x)
  <2>1. \A y \in Machines : /\ running'[y] = IF y = x THEN Off ELSE running[y]
                           /\ settled'[y] = IF y = x THEN Failed ELSE settled[y]
    BY <1>3 DEF PowerOff, Typed, TypeOK
  <2>2. ASSUME NEW j \in Jobs PROVE Stage(j)'
    <3>1. SUFFICES ASSUME job[j] # NoJob PROVE Stage(j)' BY <1>1 DEF Stage
    <3>2. job[j].machine \in Machines BY <3>1, ActiveIsJob, TypeParts DEF Typed, Job
    <3>3. Stage(j) BY DEF Patient
    <3> QED BY <1>1, <2>1, <3>1, <3>2, <3>3 DEF Stage, ProvisionStage, RootVolume, Released
  <2>3. ASSUME NEW y \in Machines PROVE Left(y)'
    BY <1>1, <2>1 DEF Patient, Left, Resting, Ran, Provisioned, Emptied, Released
  <2> QED BY <1>1, <2>2, <2>3 DEF Patient, Alone
<1> QED BY <1>2, <1>3 DEF Guest, Suspend, Resume

LEMMA PatientStep ==
    ASSUME CallersWait, Typed, Patient, [Next]_vars
    PROVE  Patient'
<1>1. ASSUME NEW i \in InstIds, NEW x \in Machines, NEW g \in Images \cup {NoImage},
             Quiet(x), AllocateInstance(i, x, g)
      PROVE  Patient'
  BY <1>1, ScheduleKeeps DEF Quiet, AllocateInstance
<1>2. ASSUME NEW i \in Live, Quiet(ins[i].machine), ReleaseInstance(i)
      PROVE  Patient'
  <2>1. i \in InstIds /\ ins[i] \in Instance BY <1>2 DEF Live, Typed, TypeOK
  <2>2. ins[i].machine \in Machines BY <2>1 DEF Instance
  <2> QED BY <1>2, <2>1, <2>2, ScheduleKeeps DEF Quiet, ReleaseInstance
<1>3. CASE Save \/ UNCHANGED vars
  <2>1. UNCHANGED <<job, doc, xml, running, vol, settled>> BY <1>3 DEF Save, vars, host, power
  <2> QED BY <2>1 DEF Patient, Alone, Stage, ProvisionStage, RootVolume, Released, Left,
                      Resting, Ran, Provisioned, Emptied
<1>4. CASE Crash
  <2>1. \A j \in Jobs : job'[j] = NoJob BY <1>4 DEF Crash
  <2>2. \A y \in Machines : Left(y)'
    <3> TAKE y \in Machines
    <3>1. settled'[y] = IF JobsOn(y) = {} THEN settled[y] ELSE Failed BY <1>4 DEF Crash
    <3>2. UNCHANGED <<running, vol>> BY <1>4 DEF Crash, host, power
    <3>3. JobsOn(y) = {} => Resting(y) BY DEF JobsOn, Active, Resting
    <3> QED BY <3>1, <3>2, <3>3 DEF Patient, Left, Ran, Provisioned, Emptied, Released
  <2> QED BY <2>1, <2>2 DEF Patient, Alone, Stage
<1>5. ASSUME NEW j \in Jobs, JobStep(j) PROVE Patient'
  <2>1. PICK x : x = job[j].machine OBVIOUS
  <2>2. Stage(j)' /\ Left(x)' BY <1>5, <2>1, OwnStep
  <2> QED BY <1>5, <2>1, <2>2, AloneKept DEF Patient
<1> QED BY <1>1, <1>2, <1>3, <1>4, <1>5, GuestKeeps DEF Next, Call

LEMMA PatientAlways == ASSUME CallersWait PROVE Spec => [](Typed /\ Patient)
<1>1. Typed /\ Patient /\ [Next]_vars => Patient' BY PatientStep
<1> QED BY <1>1, PatientInit, TypedAlways, PTL DEF Spec

-----------------------------------------------------------------------------
(* A clean provision leaves its own image running, if callers wait,        *)
(* whatever failed, crashed or ran on the machine before.                  *)
THEOREM ProvisionsRun ==
    ASSUME CallersWait
    PROVE  Spec => []ProvisionedRunsItsImage
<1>1. Patient => ProvisionedRunsItsImage
  <2> SUFFICES ASSUME Patient, NEW x \in Machines, NEW i \in InstIds, NEW g \in Images,
                      JobsOn(x) = {},
                      settled[x] = [kind |-> "provision", by |-> i, image |-> g, clean |-> TRUE]
               PROVE  running[x] = [image |-> g, by |-> i, whole |-> TRUE]
    BY DEF ProvisionedRunsItsImage
  <2>1. settled[x] # Failed
    <3>1. settled[x] \in Result BY DEF Result
    <3> QED BY <3>1, SpecialValues
  <2>2. Resting(x) BY DEF Resting, JobsOn, Active
  <2>3. Ran(x) BY <2>2 DEF Patient, Left
  <2> QED BY <2>1, <2>3 DEF Ran, Provisioned
<1> QED BY <1>1, PatientAlways, PTL

(* A release that has passed over neither an error nor a paused domain     *)
(* leaves the machine off and without a volume, if callers wait, which     *)
(* Provisioning_overlap shows that they must.                              *)
THEOREM ReleasesEmpty ==
    ASSUME CallersWait
    PROVE  Spec => []ReleasedIsOff
<1>1. Patient => ReleasedIsOff
  <2> SUFFICES ASSUME Patient, NEW x \in Machines, JobsOn(x) = {}, Released(x)
               PROVE  running[x] = Off /\ vol[x] = NoVolume
    BY DEF ReleasedIsOff
  <2>1. Resting(x) BY DEF Resting, JobsOn, Active
  <2> QED BY <2>1 DEF Patient, Left, Emptied
<1> QED BY <1>1, PatientAlways, PTL

LEMMA BootsOwn ==
    ASSUME Typed, Patient, NEW j \in Jobs, j \in Active, Boot(j),
           running[job[j].machine] = Off, running'[job[j].machine] \notin {Off, Original},
           job[j].image # NoImage \/ Released(job[j].machine)
    PROVE  /\ running'[job[j].machine].by = job[j].by
           /\ running'[job[j].machine].whole
<1> DEFINE x == job[j].machine
<1>1. job[j] # NoJob /\ job[j] \in Job BY ActiveIsJob, TypeParts DEF Active, Typed
<1>2. x \in Machines /\ job[j].kind = "provision" /\ job[j].image \in Images \cup {NoImage}
  BY <1>1 DEF Job, Typed, ReleaseSteps, Boot, At
<1>3. job[j].pc = "boot" BY DEF Boot, At
<1>4. Stage(j) BY DEF Patient
<1>5. CASE UNCHANGED running BY <1>5
<1>6. CASE /\ Startable(x)
           /\ running' = [running EXCEPT ![x] = IF BootsVolume(xml[x]) THEN vol[x] ELSE Original]
  <2>1. running'[x] = IF BootsVolume(xml[x]) THEN vol[x] ELSE Original
    BY <1>2, <1>6 DEF Typed, TypeOK
  <2>2. BootsVolume(xml[x]) /\ vol[x] # NoVolume
    BY <1>6, <2>1 DEF Startable, BootsVolume
  <2>3. job[j].image \in Images
    BY <1>1, <1>2, <1>4, <2>2 DEF Stage
  <2>4. vol[x] = RootVolume(j)
    BY <1>1, <1>2, <1>3, <1>4, <2>3 DEF Stage, ProvisionStage
  <2> QED BY <2>1, <2>2, <2>4 DEF RootVolume
<1> QED BY <1>5, <1>6 DEF Boot

(* No domain boots a volume that is incomplete or was made for another     *)
(* instance, if callers wait; an allocation without an image is safe after *)
(* a clean release.                                                        *)
THEOREM BootsAreOwn ==
    ASSUME CallersWait
    PROVE  Spec => NoForeignBoot
<1>1. Typed /\ Patient => (\A j \in Jobs :
          LET x == job[j].machine
          IN /\ j \in Active /\ Boot(j)
             /\ running[x] = Off /\ running'[x] \notin {Off, Original}
             /\ job[j].image # NoImage \/ Released(x)
             => running'[x].by = job[j].by /\ running'[x].whole)
  BY BootsOwn
<1> QED BY <1>1, PatientAlways, PTL DEF NoForeignBoot
=============================================================================
