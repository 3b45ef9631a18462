------------------------- MODULE ProvisioningProofs -------------------------
(***************************************************************************)
(* Proofs about Provisioning, for any number of machines, instances and    *)
(* jobs that overlap in any way.                                           *)
(***************************************************************************)
EXTENDS Provisioning, NatSets, TLAPS

JobsOK == job \in [Jobs -> Job \cup {NoJob}] /\ settled \in [Machines -> Outcome]

LEMMA ActiveIsJob == ASSUME JobsOK, NEW j \in Jobs, job[j] # NoJob PROVE job[j] \in Job
BY DEF JobsOK

\* The next step of a job, with or without something passed over.
Takes(j, s) == Goto(j, s) \/ PassOver(j, s)

LEMMA TakesMeans ==
    ASSUME JobsOK, NEW j \in Jobs, job[j] # NoJob, NEW s \in Steps, Takes(j, s)
    PROVE  /\ job'[j] \in Job /\ job'[j] # NoJob
           /\ job'[j].pc = s /\ job'[j].machine = job[j].machine
           /\ job'[j].kind = job[j].kind /\ job'[j].by = job[j].by
           /\ job'[j].image = job[j].image
           /\ Goto(j, s) => job'[j].clean = job[j].clean
           /\ PassOver(j, s) => ~job'[j].clean
           /\ \A k \in Jobs : k # j => job'[k] = job[k]
           /\ UNCHANGED settled
           /\ JobsOK'
<1>1. job[j] \in Job BY ActiveIsJob
<1>2. ASSUME NEW w \in Job, job' = [job EXCEPT ![j] = w], UNCHANGED settled
      PROVE  /\ job'[j] = w /\ w # NoJob /\ JobsOK'
             /\ \A k \in Jobs : k # j => job'[k] = job[k]
  BY <1>2, SpecialValues DEF JobsOK
<1>3. CASE Goto(j, s)
  <2>1. [job[j] EXCEPT !.pc = s] \in Job BY <1>1 DEF Job
  <2>2. job' = [job EXCEPT ![j] = [job[j] EXCEPT !.pc = s]] BY <1>3 DEF Goto, JobsOK
  <2>3. PICK w \in Job : w = [job[j] EXCEPT !.pc = s] BY <2>1
  <2>4. /\ w.pc = s /\ w.machine = job[j].machine /\ w.kind = job[j].kind
        /\ w.by = job[j].by /\ w.image = job[j].image /\ w.clean = job[j].clean
    BY <1>1, <2>3 DEF Job
  <2>5. job' = [job EXCEPT ![j] = w] BY <2>2, <2>3
  <2>6. /\ job'[j] = w /\ w # NoJob /\ JobsOK'
        /\ \A k \in Jobs : k # j => job'[k] = job[k]
    BY <1>2, <1>3, <2>5 DEF Goto
  <2>7. PassOver(j, s) => ~job'[j].clean
    BY <1>1 DEF PassOver, JobsOK, Job
  <2> QED BY <1>3, <2>4, <2>6, <2>7 DEF Goto
<1>4. CASE PassOver(j, s)
  <2>1. [job[j] EXCEPT !.pc = s, !.clean = FALSE] \in Job BY <1>1 DEF Job
  <2>2. job' = [job EXCEPT ![j] = [job[j] EXCEPT !.pc = s, !.clean = FALSE]]
    BY <1>4 DEF PassOver, JobsOK
  <2>3. PICK w \in Job : w = [job[j] EXCEPT !.pc = s, !.clean = FALSE] BY <2>1
  <2>4. /\ w.pc = s /\ w.machine = job[j].machine /\ w.kind = job[j].kind
        /\ w.by = job[j].by /\ w.image = job[j].image /\ ~w.clean
    BY <1>1, <2>3 DEF Job
  <2>5. job' = [job EXCEPT ![j] = w] BY <2>2, <2>3
  <2>6. /\ job'[j] = w /\ w # NoJob /\ JobsOK'
        /\ \A k \in Jobs : k # j => job'[k] = job[k]
    BY <1>2, <1>4, <2>5 DEF PassOver
  <2>7. Goto(j, s) => job'[j].clean = job[j].clean
    BY <1>1 DEF Goto, JobsOK, Job
  <2> QED BY <1>4, <2>4, <2>6, <2>7 DEF PassOver
<1> QED BY <1>3, <1>4 DEF Takes

LEMMA EndType ==
    ASSUME JobsOK, NEW j \in Jobs, job[j] # NoJob, NEW o \in Outcome, End(j, o)
    PROVE  JobsOK'
BY ActiveIsJob DEF JobsOK, End, Job

LEMMA SucceedType ==
    ASSUME JobsOK, NEW j \in Jobs, job[j] # NoJob, Succeed(j)
    PROVE  JobsOK'
<1>1. [kind |-> job[j].kind, by |-> job[j].by, image |-> job[j].image,
       clean |-> job[j].clean] \in Outcome
  BY ActiveIsJob DEF Job, Outcome, Result
<1> QED BY <1>1, EndType DEF Succeed

LEMMA FailMeans ==
    ASSUME NEW j \in Jobs, Fail(j)
    PROVE  \/ /\ job[j].kind = "release" /\ job[j].pc \in {"lookup", "look", "destroy"}
              /\ PassOver(j, "delete") /\ GoOn(j)
           \/ job[j].pc \in {"upload", "resize"} /\ Goto(j, "drop")
           \/ End(j, Failed)
BY DEF Fail, GoOn

-----------------------------------------------------------------------------
(* The domain XML. *)

\* Some candidate is preferred to every other.
LEMMA BestCandidate ==
    ASSUME NEW d \in Domain, Candidates(d) # {}
    PROVE  \E k \in Candidates(d) : \A l \in Candidates(d) : Before(d, k, l)
<1> DEFINE C == Candidates(d)
           order(k) == d.devs[k].order
<1>1. C \subseteq Nat /\ \A k \in C : order(k) \in Nat
  <2>1. Slots \subseteq Nat BY DomainAssumption DEF Slots
  <2>2. C \subseteq Slots BY DEF Candidates, Devices
  <2>3. \A k \in C : d.devs[k] \in Device BY DEF Candidates, Devices, Domain
  <2> QED BY <2>1, <2>2, <2>3 DEF Device
<1>2. ASSUME NEW n \in Nat, NEW m \in C, order(m) = n,
             \A l \in C : \/ n > 0 /\ (order(l) = 0 \/ n <= order(l))
                          \/ n = 0 /\ order(l) = 0
      PROVE  \E k \in C : \A l \in C : Before(d, k, l)
  <2> DEFINE E == {k \in C : order(k) = n}
  <2>1. E \subseteq Nat /\ E # {} BY <1>1, <1>2
  <2>2. PICK k \in E : \A l \in E : k <= l BY <2>1, LeastMember
  <2>3. \A l \in C : Before(d, k, l)
    <3> TAKE l \in C
    <3>1. CASE order(l) = n
      <4>1. k <= l BY <2>2, <3>1
      <4> QED BY <2>2, <3>1, <4>1 DEF Before
    <3>2. CASE order(l) # n
      <4>1. n > 0 /\ (order(l) = 0 \/ n < order(l)) BY <1>1, <1>2, <3>2
      <4> QED BY <2>2, <4>1 DEF Before
    <3> QED BY <3>1, <3>2
  <2> QED BY <2>2, <2>3
<1> DEFINE Positive == {order(k) : k \in {l \in C : order(l) > 0}}
<1>3. CASE Positive = {}
  <2>1. \A l \in C : order(l) = 0
    <3> TAKE l \in C
    <3>1. ~ (order(l) > 0) BY <1>3
    <3>2. order(l) \in Nat BY <1>1
    <3> HIDE DEF order
    <3> QED BY <3>1, <3>2
  <2>2. PICK m \in C : TRUE OBVIOUS
  <2> QED BY <1>2, <2>1, <2>2
<1>4. CASE Positive # {}
  <2>1. Positive \subseteq Nat BY <1>1
  <2>2. PICK n \in Positive : \A m \in Positive : n <= m BY <1>4, <2>1, LeastMember
  <2>3. PICK m \in C : order(m) = n /\ n > 0 /\ n \in Nat BY <1>1, <2>2
  <2>4. \A l \in C : order(l) = 0 \/ n <= order(l) BY <1>1, <2>2
  <2>5. \A l \in C : \/ n > 0 /\ (order(l) = 0 \/ n <= order(l))
                     \/ n = 0 /\ order(l) = 0
    <3> TAKE l \in C
    <3>1. n > 0 BY <2>3
    <3>2. order(l) = 0 \/ n <= order(l) BY <2>4
    <3> HIDE DEF order
    <3> QED BY <3>1, <3>2
  <2>6. order(m) = n /\ n \in Nat BY <2>3
  <2> HIDE DEF order
  <2> QED BY <1>2, <2>5, <2>6
<1> QED BY <1>3, <1>4

LEMMA PatchShape ==
    ASSUME NEW d \in Domain, Candidates(d) # {},
           NEW s, s = SelectBootDiskIndex(d), NEW p, p = PatchDomainBootDiskXML(d)
    PROVE  /\ p \in Domain /\ s \in Slots /\ p.devs[s] \in Device
           /\ p.devs[s].kind = "disk" /\ p.devs[s].order = 1 /\ p.devs[s].source = "volume"
           /\ \A l \in Slots : l # s => p.devs[l] = d.devs[l]
<1> DEFINE new == PatchDiskBlock(d.devs[s])
<1>1. s \in Candidates(d) BY BestCandidate DEF SelectBootDiskIndex
<1>2. s \in Slots /\ d.devs[s] \in Device /\ d.devs[s].kind = "disk"
  BY <1>1 DEF Candidates, Devices, Domain, IsBootDiskCandidate
<1>3. new \in Device /\ new.kind = "disk" /\ new.order = 1 /\ new.source = "volume"
  BY <1>2 DEF PatchDiskBlock, Device
<1>4. p = [osboot |-> FALSE, devs |-> [d.devs EXCEPT ![s] = new]]
  <2> HIDE DEF new
  <2>1. d = [osboot |-> d.osboot, devs |-> d.devs] BY DEF Domain
  <2>2. [d EXCEPT !.devs[s] = new] = [osboot |-> d.osboot, devs |-> [d.devs EXCEPT ![s] = new]]
    BY <2>1
  <2>3. p = [[d EXCEPT !.devs[s] = new] EXCEPT !.osboot = FALSE]
    BY Zenon DEF PatchDomainBootDiskXML, StripOSBootElements, new
  <2> QED BY <2>2, <2>3
<1> HIDE DEF new
<1>5. d.devs \in [Slots -> Device \cup {NoDevice}] BY DEF Domain
<1>6. p \in Domain BY <1>2, <1>3, <1>4, <1>5 DEF Domain
<1>7. p.devs[s] = new /\ \A l \in Slots : l # s => p.devs[l] = d.devs[l]
  BY <1>2, <1>4, <1>5
<1> QED BY <1>2, <1>3, <1>6, <1>7

LEMMA PatchType ==
    ASSUME NEW d \in Domain, Candidates(d) # {}
    PROVE  PatchDomainBootDiskXML(d) \in Domain
BY PatchShape

LEMMA StripType ==
    ASSUME NEW d \in Domain
    PROVE  /\ StripConfigDriveDisks(d) \in Domain
           /\ StripConfigDriveDisks(d).osboot = d.osboot
           /\ \A k \in Devices(StripConfigDriveDisks(d)) :
                 k \in Devices(d) /\ StripConfigDriveDisks(d).devs[k] = d.devs[k]
           /\ \A k \in Devices(d) \ CDROMs(d) : StripConfigDriveDisks(d).devs[k] = d.devs[k]
<1>1. StripConfigDriveDisks(d) =
        [osboot |-> d.osboot,
         devs |-> [k \in Slots |-> IF k \in CDROMs(d) THEN NoDevice ELSE d.devs[k]]]
  BY DEF StripConfigDriveDisks, Domain
<1> QED BY <1>1 DEF Domain, Devices

-----------------------------------------------------------------------------
(* The types. *)

HostOK == /\ xml \in [Machines -> Domain]
          /\ running \in [Machines -> Volume \cup {Off, Original}]
          /\ paused \subseteq {x \in Machines : running[x] # Off}
          /\ vol \in [Machines -> Volume \cup {NoVolume}]

\* A job that defines a domain holds the document; other jobs hold none.
DocsOK == /\ doc \in [Jobs -> Domain \cup {NoDoc}]
          /\ \A j \in Jobs : job[j] # NoJob /\ job[j].pc \in {"define", "redefine"}
                             => doc[j] \in Domain

ServerOK == /\ ins \in [InstIds -> Instance \cup {Absent}]
            /\ saved \in [InstIds -> Instance \cup {Absent}]

LEMMA TypeParts == DocsOK => (TypeOK <=> JobsOK /\ HostOK /\ ServerOK)
BY DEF TypeOK, JobsOK, HostOK, ServerOK, DocsOK

\* A volume for an image is made by a job that has one.
HasImage == \A j \in Jobs : job[j] # NoJob /\ job[j].pc \in {"look", "destroy", "delete",
                              "fetch", "create", "upload", "resize", "drop", "patch", "define"}
                 => job[j].kind = "release" \/ job[j].image \in Images

\* The second delete belongs to releases.
ReleaseSteps == \A j \in Jobs : job[j] # NoJob =>
    /\ job[j].kind = "release" => job[j].pc \in {"lookup", "look", "destroy", "delete", "tidy"}
    /\ job[j].pc = "tidy" => job[j].kind = "release"

Typed == TypeOK /\ DocsOK /\ HasImage /\ ReleaseSteps

LEMMA TypedInit == Init => Typed
<1> SUFFICES ASSUME Init PROVE Typed
  OBVIOUS
<1>1. ServerOK BY DEF Init, ServerOK
<1>2. JobsOK BY DEF Init, JobsOK, Outcome
<1>3. HostOK
  <2>1. running \in [Machines -> Volume \cup {Off, Original}]
    BY DEF Init
  <2>2. xml \in [Machines -> Domain]
    BY DomainAssumption DEF Init
  <2> QED BY <2>1, <2>2 DEF Init, HostOK
<1>4. DocsOK /\ HasImage /\ ReleaseSteps BY DEF Init, DocsOK, HasImage, ReleaseSteps
<1> QED BY <1>1, <1>2, <1>3, <1>4, TypeParts DEF Typed

\* What a job step leaves of the jobs' kinds and images.
LEMMA KindsTakes ==
    ASSUME Typed, NEW j \in Jobs, job[j] # NoJob, NEW s \in Steps, Takes(j, s),
           job[j].kind = "release" => s \in {"look", "destroy", "delete", "tidy"},
           job[j].kind = "provision" => s # "tidy",
           job[j].kind = "provision" /\ job[j].image \notin Images
              => s \in {"clean", "redefine", "recheck", "boot"}
    PROVE  HasImage' /\ ReleaseSteps'
<1>1. job[j] \in Job /\ JobsOK BY ActiveIsJob, TypeParts DEF Typed
<1>2. /\ job'[j].kind = job[j].kind /\ job'[j].image = job[j].image /\ job'[j].pc = s
      /\ \A k \in Jobs : k # j => job'[k] = job[k]
  BY <1>1, TakesMeans
<1>3. job[j].kind \in {"provision", "release"}
  BY <1>1 DEF Job
<1> QED BY <1>2, <1>3 DEF Typed, HasImage, ReleaseSteps

LEMMA KindsEnd ==
    ASSUME Typed, NEW j \in Jobs, NEW o, End(j, o)
    PROVE  HasImage' /\ ReleaseSteps'
BY DEF End, Typed, TypeOK, HasImage, ReleaseSteps

LEMMA KindsFail ==
    ASSUME Typed, NEW j \in Jobs, job[j] # NoJob, Fail(j)
    PROVE  HasImage' /\ ReleaseSteps'
<1>1. job[j] \in Job BY ActiveIsJob, TypeParts DEF Typed
<1>2. CASE job[j].kind = "release" /\ PassOver(j, "delete")
  BY <1>2, KindsTakes DEF Steps, Takes
<1>3. CASE job[j].pc \in {"upload", "resize"} /\ Goto(j, "drop")
  <2>1. job[j].kind = "provision" /\ job[j].image \in Images
    BY <1>1, <1>3 DEF Typed, HasImage, ReleaseSteps, Job
  <2> QED BY <1>3, <2>1, KindsTakes DEF Steps, Takes
<1>4. CASE End(j, Failed) BY <1>4, KindsEnd
<1> QED BY <1>2, <1>3, <1>4, FailMeans

\* A step keeps no document, or takes one.
Leaves(j) == doc' = doc \/ doc' = [doc EXCEPT ![j] = NoDoc]

LEMMA DocsLeft ==
    ASSUME Typed, NEW j \in Jobs, job[j] # NoJob, Leaves(j),
           \/ \E s \in Steps \ {"define", "redefine"} : Takes(j, s)
           \/ \E o : End(j, o)
    PROVE  DocsOK'
<1>1. JobsOK BY TypeParts DEF Typed
<1>2. \A k \in Jobs : k # j => job'[k] = job[k]
  BY <1>1, TakesMeans DEF End, JobsOK
<1>3. job'[j] = NoJob \/ job'[j].pc \notin {"define", "redefine"}
  BY <1>1, TakesMeans DEF End, JobsOK
<1>4. /\ doc' \in [Jobs -> Domain \cup {NoDoc}]
      /\ \A k \in Jobs : k # j => doc'[k] = doc[k]
  BY DEF Leaves, Typed, DocsOK
<1> QED BY <1>2, <1>3, <1>4 DEF Typed, DocsOK

LEMMA DocTaken ==
    ASSUME Typed, NEW j \in Jobs, job[j] # NoJob, NEW s \in Steps, Goto(j, s),
           NEW d \in Domain, doc' = [doc EXCEPT ![j] = d]
    PROVE  DocsOK'
<1>1. \A k \in Jobs : k # j => job'[k] = job[k] /\ doc'[k] = doc[k]
  BY TypeParts DEF Goto, Typed, DocsOK, JobsOK
<1>2. doc' \in [Jobs -> Domain \cup {NoDoc}] /\ doc'[j] = d
  BY DEF Typed, DocsOK
<1> QED BY <1>1, <1>2 DEF Typed, DocsOK

-----------------------------------------------------------------------------
(* Every step keeps the types. *)

LEMMA ScheduleTyped ==
    ASSUME Typed, NEW kind \in {"provision", "release"}, NEW x \in Machines,
           NEW i \in InstIds, NEW g \in Images \cup {NoImage},
           Schedule(kind, x, i, g), UNCHANGED <<doc, settled>>
    PROVE  JobsOK' /\ DocsOK' /\ HasImage' /\ ReleaseSteps'
<1>1. PICK j \in Jobs :
        /\ job[j] = NoJob
        /\ job' = [job EXCEPT ![j] = [kind |-> kind, machine |-> x, by |-> i,
                                      image |-> g, pc |-> "lookup", clean |-> TRUE]]
  BY DEF Schedule
<1>2. [kind |-> kind, machine |-> x, by |-> i, image |-> g, pc |-> "lookup",
       clean |-> TRUE] \in Job
  BY DEF Job, Steps
<1>3. JobsOK' BY <1>1, <1>2 DEF Typed, TypeOK, JobsOK
<1>4. DocsOK' /\ HasImage' /\ ReleaseSteps'
  BY <1>1 DEF Typed, TypeOK, DocsOK, HasImage, ReleaseSteps
<1> QED BY <1>3, <1>4

LEMMA ServerTyped ==
    ASSUME Typed, Call \/ Save \/ Crash
    PROVE  Typed'
<1> USE DEF Typed
<1>1. ASSUME NEW i \in InstIds, NEW x \in Machines, NEW g \in Images \cup {NoImage},
             AllocateInstance(i, x, g)
      PROVE  Typed'
  <2>1. JobsOK' /\ DocsOK' /\ HasImage' /\ ReleaseSteps'
    BY <1>1, ScheduleTyped DEF AllocateInstance
  <2>2. ServerOK' BY <1>1 DEF AllocateInstance, ServerOK, TypeOK, Instance
  <2>3. HostOK' BY <1>1 DEF AllocateInstance, HostOK, TypeOK, host, power
  <2> QED BY <2>1, <2>2, <2>3 DEF TypeOK, JobsOK, DocsOK, HostOK, ServerOK
<1>2. ASSUME NEW i \in InstIds, ReleaseInstance(i)
      PROVE  Typed'
  <2>1. ins[i] \in Instance BY <1>2 DEF ReleaseInstance, TypeOK
  <2>2. ins[i].machine \in Machines BY <2>1 DEF Instance
  <2>3. JobsOK' /\ DocsOK' /\ HasImage' /\ ReleaseSteps'
    BY <1>2, <2>2, ScheduleTyped DEF ReleaseInstance
  <2>4. ServerOK' BY <1>2 DEF ReleaseInstance, ServerOK, TypeOK
  <2>5. HostOK' BY <1>2 DEF ReleaseInstance, HostOK, TypeOK, host, power
  <2> QED BY <2>3, <2>4, <2>5 DEF TypeOK, JobsOK, DocsOK, HostOK, ServerOK
<1>3. CASE Save
  BY <1>3 DEF Save, TypeOK, DocsOK, HasImage, ReleaseSteps, host, power
<1>4. CASE Crash
  <2>1. settled' \in [Machines -> Outcome]
    BY <1>4 DEF Crash, TypeOK, Outcome
  <2> QED BY <1>4, <2>1 DEF Crash, TypeOK, DocsOK, HasImage, ReleaseSteps, host, power
<1> QED BY <1>1, <1>2, <1>3, <1>4 DEF Call, Live

\* A step that only moves its job.
LEMMA JobsTyped ==
    ASSUME Typed, JobsOK', DocsOK', HasImage', ReleaseSteps', HostOK', UNCHANGED <<ins, saved>>
    PROVE  Typed'
BY DEF Typed, TypeOK, JobsOK, DocsOK, HostOK

LEMMA TakesTyped ==
    ASSUME Typed, NEW j \in Jobs, job[j] # NoJob, NEW s \in Steps, Takes(j, s),
           job[j].kind = "release" => s \in {"look", "destroy", "delete", "tidy"},
           job[j].kind = "provision" => s # "tidy",
           job[j].kind = "provision" /\ job[j].image \notin Images
              => s \in {"clean", "redefine", "recheck", "boot"},
           HostOK', DocsOK', UNCHANGED <<ins, saved>>
    PROVE  Typed'
<1>1. JobsOK' BY TakesMeans, TypeParts DEF Typed
<1> QED BY <1>1, KindsTakes, JobsTyped

LEMMA FailTyped ==
    ASSUME Typed, NEW j \in Jobs, job[j] # NoJob, Fail(j), HostOK', Leaves(j),
           UNCHANGED <<ins, saved>>
    PROVE  Typed'
<1>1. (\E s \in Steps \ {"define", "redefine"} : Takes(j, s)) \/ End(j, Failed)
  BY FailMeans DEF Steps, Takes
<1>2. JobsOK' BY <1>1, TakesMeans, EndType, TypeParts DEF Typed, Outcome
<1>3. DocsOK' BY <1>1, DocsLeft
<1> QED BY <1>2, <1>3, KindsFail, JobsTyped

LEMMA EndTyped ==
    ASSUME Typed, NEW j \in Jobs, job[j] # NoJob,
           End(j, Failed) \/ Succeed(j),
           HostOK', Leaves(j), UNCHANGED <<ins, saved>>
    PROVE  Typed'
<1>1. JobsOK' BY EndType, SucceedType, TypeParts DEF Typed, Outcome
<1>2. DocsOK' BY DocsLeft DEF Succeed
<1> QED BY <1>1, <1>2, KindsEnd, JobsTyped DEF Succeed

\* A step that goes on and holds no document.
LEMMA MoveTyped ==
    ASSUME Typed, NEW j \in Jobs, job[j] # NoJob,
           NEW s \in Steps \ {"define", "redefine"}, Takes(j, s),
           job[j].kind = "release" => s \in {"look", "destroy", "delete", "tidy"},
           job[j].kind = "provision" => s # "tidy",
           job[j].kind = "provision" /\ job[j].image \notin Images
              => s \in {"clean", "recheck", "boot"},
           HostOK', Leaves(j), UNCHANGED <<ins, saved>>
    PROVE  Typed'
<1>1. DocsOK' BY DocsLeft
<1> QED BY <1>1, TakesTyped

LEMMA HostUnchanged == ASSUME Typed, UNCHANGED host PROVE HostOK'
BY DEF Typed, TypeOK, HostOK, host, power

LEMMA JobTyped ==
    ASSUME Typed, NEW j \in Jobs, JobStep(j)
    PROVE  Typed'
<1> DEFINE x == job[j].machine
<1>0. job[j] # NoJob
  BY DEF JobStep, Lookup, ConnectFails, Look, Destroy, Delete, VolumeNotFound, Tidy, Fetch,
         Create, Upload, Resize, Drop, Patch, Define, Clean, Redefine, LookAgain, Boot, Fault, At
<1>1. /\ job[j].kind \in {"provision", "release"} /\ x \in Machines
      /\ job[j].by \in InstIds /\ job[j].image \in Images \cup {NoImage}
  BY <1>0, ActiveIsJob, TypeParts DEF Typed, Job
<1>2. /\ job[j].kind = "release" => job[j].pc \in {"lookup", "look", "destroy", "delete", "tidy"}
      /\ job[j].pc = "tidy" => job[j].kind = "release"
  BY <1>0 DEF Typed, ReleaseSteps
<1>3. job[j].pc \in {"look", "destroy", "delete", "fetch", "create", "upload",
                     "resize", "drop", "patch", "define"}
        => job[j].kind = "release" \/ job[j].image \in Images
  BY <1>0 DEF Typed, HasImage
<1>4. HostOK BY TypeParts DEF Typed
<1>l. UNCHANGED doc => Leaves(j) BY DEF Leaves
<1> USE DEF Steps, Takes
<1>5. CASE Lookup(j)
  BY <1>l, <1>0, <1>1, <1>2, <1>5, ProvisioningAssumption, HostUnchanged, MoveTyped DEF Lookup, At
<1>6. CASE ConnectFails(j)
  BY <1>l, <1>0, <1>6, HostUnchanged, EndTyped DEF ConnectFails
<1>7. CASE Look(j)
  BY <1>l, <1>0, <1>1, <1>2, <1>3, <1>7, HostUnchanged, MoveTyped DEF Look, At
<1>8. CASE Destroy(j)
  <2>1. HostOK' BY <1>1, <1>4, <1>8 DEF Destroy, HostOK, power
  <2> QED BY <1>l, <1>0, <1>1, <1>2, <1>3, <1>8, <2>1, MoveTyped, FailTyped DEF Destroy, At
<1>9. CASE Delete(j)
  <2>1. HostOK' BY <1>1, <1>4, <1>9 DEF Delete, HostOK, power
  <2> QED BY <1>l, <1>0, <1>1, <1>2, <1>3, <1>9, <2>1, MoveTyped DEF Delete, At
<1>10. CASE VolumeNotFound(j)
  BY <1>l, <1>0, <1>1, <1>2, <1>3, <1>10, HostUnchanged, MoveTyped DEF VolumeNotFound, At
<1>23. CASE Tidy(j)
  BY <1>l, <1>0, <1>23, HostUnchanged, EndTyped DEF Tidy
<1>11. CASE Fetch(j)
  BY <1>l, <1>0, <1>1, <1>2, <1>3, <1>11, HostUnchanged, MoveTyped DEF Fetch, At
<1>12. CASE Create(j)
  <2>1. job[j].kind = "provision" /\ job[j].image \in Images
    BY <1>1, <1>2, <1>3, <1>12 DEF Create, At
  <2>2. [image |-> job[j].image, by |-> job[j].by, whole |-> FALSE] \in Volume
    BY <1>1, <2>1 DEF Volume
  <2>3. HostOK' BY <1>1, <1>4, <1>12, <2>2 DEF Create, HostOK, power
  <2> QED BY <1>l, <1>0, <1>12, <2>1, <2>3, MoveTyped, FailTyped DEF Create
<1>13. CASE Upload(j)
  <2>1. job[j].kind = "provision" /\ job[j].image \in Images
    BY <1>1, <1>2, <1>3, <1>13 DEF Upload, At
  <2>2. [image |-> job[j].image, by |-> job[j].by, whole |-> TRUE] \in Volume
    BY <1>1, <2>1 DEF Volume
  <2>3. HostOK' BY <1>1, <1>4, <1>13, <2>2 DEF Upload, HostOK, power
  <2> QED BY <1>l, <1>0, <1>13, <2>1, <2>3, MoveTyped, FailTyped DEF Upload
<1>14. CASE Resize(j)
  BY <1>l, <1>0, <1>1, <1>2, <1>3, <1>14, HostUnchanged, MoveTyped, FailTyped DEF Resize, At
<1>15. CASE Drop(j)
  <2>1. HostOK' BY <1>1, <1>4, <1>15 DEF Drop, HostOK, power
  <2> QED BY <1>l, <1>0, <1>15, <2>1, EndTyped DEF Drop
<1>d. job[j].pc \in {"define", "redefine"} => doc[j] \in Domain
  BY <1>0 DEF Typed, DocsOK
<1>16. CASE Define(j)
  <2>1. doc[j] \in Domain BY <1>16, <1>d DEF Define, At
  <2>2. HostOK' BY <1>1, <1>4, <1>16, <2>1 DEF Define, HostOK, power
  <2>3. Leaves(j) BY <1>16 DEF Define, Leaves
  <2> QED BY <1>0, <1>1, <1>2, <1>3, <1>16, <2>2, <2>3, MoveTyped, FailTyped DEF Define, At
<1>21. CASE Patch(j)
  <2>1. CASE Fail(j) /\ UNCHANGED <<ins, saved, doc, host>>
    BY <1>0, <1>l, <2>1, HostUnchanged, FailTyped
  <2>2. CASE /\ Candidates(xml[x]) # {} /\ Goto(j, "define") /\ UNCHANGED <<ins, saved, host>>
             /\ doc' = [doc EXCEPT ![j] = PatchDomainBootDiskXML(xml[x])]
    <3>1. xml[x] \in Domain BY <1>1, <1>4 DEF HostOK
    <3>2. PatchDomainBootDiskXML(xml[x]) \in Domain BY <2>2, <3>1, PatchType
    <3>3. DocsOK' BY <1>0, <2>2, <3>2, DocTaken
    <3>4. job[j].kind = "provision" /\ job[j].image \in Images
      BY <1>1, <1>2, <1>3, <1>21 DEF Patch, At
    <3> QED BY <1>0, <2>2, <3>3, <3>4, HostUnchanged, TakesTyped
  <2> QED BY <1>21, <2>1, <2>2 DEF Patch
<1>17. CASE Clean(j)
  <2>1. job[j].kind = "provision" BY <1>1, <1>2, <1>17 DEF Clean, At
  <2>2. CASE Goto(j, "recheck") /\ UNCHANGED <<ins, saved, doc, host>>
    BY <1>l, <1>0, <2>1, <2>2, HostUnchanged, MoveTyped
  <2>3. CASE /\ Goto(j, "redefine") /\ UNCHANGED <<ins, saved, host>>
             /\ doc' = [doc EXCEPT ![j] = StripConfigDriveDisks(xml[x])]
    <3>1. xml[x] \in Domain BY <1>1, <1>4 DEF HostOK
    <3>2. DocsOK' BY <1>0, <2>3, <3>1, StripType, DocTaken
    <3> QED BY <1>0, <2>1, <2>3, <3>2, HostUnchanged, TakesTyped
  <2> QED BY <1>17, <2>2, <2>3 DEF Clean
<1>22. CASE Redefine(j)
  <2>1. doc[j] \in Domain BY <1>22, <1>d DEF Redefine, At
  <2>2. HostOK' BY <1>1, <1>4, <1>22, <2>1 DEF Redefine, HostOK, power
  <2>3. Leaves(j) BY <1>22 DEF Redefine, Leaves
  <2> QED BY <1>0, <1>1, <1>2, <1>22, <2>2, <2>3, MoveTyped DEF Redefine, At
<1>18. CASE LookAgain(j)
  BY <1>l, <1>0, <1>1, <1>2, <1>18, HostUnchanged, MoveTyped, EndTyped DEF LookAgain, At
<1>19. CASE Boot(j)
  <2>1. vol[x] # NoVolume => vol[x] \in Volume BY <1>1, <1>4 DEF HostOK
  <2>2. CASE running[x] = Off /\ Startable(x) /\ Succeed(j)
              /\ running' = [running EXCEPT ![x] = IF BootsVolume(xml[x]) THEN vol[x] ELSE Original]
              /\ UNCHANGED <<ins, saved, doc, xml, paused, vol>>
    <3>1. BootsVolume(xml[x]) => vol[x] # NoVolume
      BY <2>2 DEF Startable, BootsVolume
    <3>2. HostOK' BY <1>1, <1>4, <2>1, <2>2, <3>1, SpecialValues DEF HostOK
    <3> QED BY <1>l, <1>0, <2>2, <3>2, EndTyped
  <2>3. CASE Fail(j) /\ UNCHANGED <<ins, saved, doc, xml, paused, vol, running>>
    BY <1>l, <1>0, <2>3, HostUnchanged, FailTyped DEF host, power
  <2> QED BY <1>19, <2>2, <2>3 DEF Boot
<1>20. CASE Fault(j)
  <2>1. Leaves(j) BY <1>20 DEF Fault, Leaves
  <2> QED BY <1>0, <1>20, <2>1, HostUnchanged, FailTyped DEF Fault
<1> QED BY <1>5, <1>6, <1>7, <1>8, <1>9, <1>10, <1>11, <1>12, <1>13, <1>14, <1>15,
           <1>16, <1>17, <1>18, <1>19, <1>20, <1>21, <1>22, <1>23 DEF JobStep

LEMMA GuestTyped ==
    ASSUME Typed, NEW x \in Machines, Guest(x)
    PROVE  Typed'
<1>1. HostOK' BY DEF Guest, Suspend, Resume, PowerOff, HostOK, Typed, TypeOK
<1>2. JobsOK' BY DEF Guest, Suspend, Resume, PowerOff, JobsOK, Typed, TypeOK, Outcome
<1>3. DocsOK' /\ HasImage' /\ ReleaseSteps' /\ UNCHANGED <<ins, saved>>
  BY DEF Guest, Typed, DocsOK, HasImage, ReleaseSteps
<1> QED BY <1>1, <1>2, <1>3, JobsTyped

LEMMA TypedStep == Typed /\ [Next]_vars => Typed'
<1>1. Typed /\ UNCHANGED vars => Typed'
  BY DEF vars, host, power, Typed, TypeOK, DocsOK, HasImage, ReleaseSteps
<1> QED BY <1>1, ServerTyped, JobTyped, GuestTyped DEF Next

LEMMA TypedAlways == Spec => []Typed
BY TypedInit, TypedStep, PTL DEF Spec

\* The type invariant of the jobs and of the libvirt host.
THEOREM TypeCorrect == Spec => []TypeOK
<1>1. Typed => TypeOK BY DEF Typed
<1> QED BY <1>1, TypedAlways, PTL

-----------------------------------------------------------------------------
(* No half-written image is left behind. *)

\* The server does not die, and deleting a volume after a failed upload works.
CleanupWorks == ~MayCrash /\ "drop" \notin Faults

Half(v) == v # NoVolume /\ ~v.whole

Attends(j, x) == job[j] # NoJob /\ job[j].machine = x /\ job[j].pc \in {"upload", "drop"}

LEMMA Moved ==
    ASSUME Typed, NEW j \in Jobs, job[j] # NoJob, NEW s \in Steps, Takes(j, s)
    PROVE  job'[j] # NoJob /\ job'[j].machine = job[j].machine /\ job'[j].pc = s
BY TakesMeans, TypeParts DEF Typed

LEMMA AttendedMeans ==
    HalfImageIsAttended <=> \A x \in Machines : Half(vol[x]) => \E j \in Jobs : Attends(j, x)
BY DEF HalfImageIsAttended, JobsOn, Active, Half, Attends

\* How a step leaves its job.
Moves(j) == \/ \E s \in Steps : Takes(j, s)
            \/ \E o : End(j, o)

LEMMA StepMoves ==
    ASSUME Typed, NEW j \in Jobs, JobStep(j)
    PROVE  job[j] # NoJob /\ job[j] \in Job /\ Moves(j)
<1>1. job[j] # NoJob
  BY DEF JobStep, Lookup, ConnectFails, Look, Destroy, Delete, VolumeNotFound, Tidy, Fetch,
         Create, Upload, Resize, Drop, Patch, Define, Clean, Redefine, LookAgain, Boot, Fault, At
<1>2. Fail(j) => Moves(j) BY FailMeans DEF Moves, Takes, Steps
<1>3. Moves(j)
  BY <1>2 DEF JobStep, Lookup, ConnectFails, Look, Destroy, Delete, VolumeNotFound, Tidy,
         Fetch, Create, Upload, Resize, Drop, Patch, Define, Clean, Redefine, LookAgain, Boot,
         Fault, Succeed, Moves, Takes, Steps
<1> QED BY <1>1, <1>3, ActiveIsJob, TypeParts DEF Typed

LEMMA OthersStay ==
    ASSUME Typed, NEW j \in Jobs, JobStep(j)
    PROVE  \A k \in Jobs : k # j => job'[k] = job[k]
<1>1. JobsOK BY TypeParts DEF Typed
<1> QED BY <1>1, StepMoves, TakesMeans DEF Moves, End, JobsOK

LEMMA CallsKeepJobs ==
    ASSUME Typed, Call
    PROVE  UNCHANGED vol /\ \A j \in Jobs : job[j] # NoJob => job'[j] = job[j]
<1>1. ASSUME NEW kind, NEW x, NEW i, NEW g, Schedule(kind, x, i, g)
      PROVE  \A j \in Jobs : job[j] # NoJob => job'[j] = job[j]
  BY <1>1 DEF Schedule, Typed, TypeOK
<1> QED BY <1>1 DEF Call, AllocateInstance, ReleaseInstance, host

\* While its volume stays half-written the job that attends to it goes on doing so.
LEMMA AttendantStays ==
    ASSUME CleanupWorks, Typed, NEW j \in Jobs, JobStep(j), NEW x \in Machines,
           Attends(j, x), Half(vol[x]), Half(vol'[x])
    PROVE  Attends(j, x)'
<1>1. Upload(j) \/ Drop(j) \/ Fault(j)
  BY DEF Attends, JobStep, Lookup, ConnectFails, Look, Destroy, Delete, VolumeNotFound, Tidy,
         Fetch, Create, Resize, Patch, Define, Clean, Redefine, LookAgain, Boot, At
<1>2. vol \in [Machines -> Volume \cup {NoVolume}] BY DEF Typed, TypeOK
<1>3. ~Drop(j) BY <1>2 DEF Drop, Attends, Half
<1>4. Fail(j) /\ job[j].pc = "upload"
  <2>1. CASE Upload(j)
    <3>1. vol[x] # NoVolume /\ job[j].machine = x BY DEF Half, Attends
    <3>2. vol' = [vol EXCEPT ![x] = [image |-> job[j].image, by |-> job[j].by,
                                     whole |-> TRUE]]
      BY <2>1, <3>1 DEF Upload
    <3>3. vol'[x].whole BY <1>2, <3>2
    <3> QED BY <3>3 DEF Half
  <2>2. CASE Fault(j) BY <2>2 DEF Fault, CleanupWorks, Attends
  <2> QED BY <1>1, <1>3, <2>1, <2>2
<1>5. Goto(j, "drop")
  BY <1>4 DEF Fail, GoOn, Typed, ReleaseSteps, Attends
<1> QED BY <1>5, Moved DEF Attends, Steps, Takes

LEMMA AttendedStep ==
    ASSUME CleanupWorks, Typed, HalfImageIsAttended, [Next]_vars
    PROVE  HalfImageIsAttended'
<1> SUFFICES ASSUME NEW x \in Machines, Half(vol'[x])
             PROVE  \E j \in Jobs : Attends(j, x)'
  BY AttendedMeans DEF HalfImageIsAttended, JobsOn, Active, Half, Attends
<1>1. CASE Call
  <2>1. PICK j \in Jobs : Attends(j, x)
    BY <1>1, CallsKeepJobs, AttendedMeans
  <2> QED BY <1>1, <2>1, CallsKeepJobs DEF Attends
<1>2. CASE Save \/ UNCHANGED vars \/ \E y \in Machines : Guest(y)
  BY <1>2, AttendedMeans DEF Save, Guest, vars, host, Attends
<1>3. ~Crash BY DEF Crash, CleanupWorks
<1>4. ASSUME NEW j \in Jobs, JobStep(j)
      PROVE  \E k \in Jobs : Attends(k, x)'
  <2>1. CASE Half(vol[x])
    <3>1. PICK k \in Jobs : Attends(k, x) BY <2>1, AttendedMeans
    <3>2. CASE k = j BY <1>4, <2>1, <3>1, <3>2, AttendantStays
    <3>3. CASE k # j
      <4>1. job'[k] = job[k] BY <1>4, <3>3, OthersStay
      <4> QED BY <3>1, <4>1 DEF Attends
    <3> QED BY <3>2, <3>3
  <2>2. CASE ~Half(vol[x])
    <3>1. vol \in [Machines -> Volume \cup {NoVolume}] BY DEF Typed, TypeOK
    <3>2. vol'[x] # vol[x] BY <2>2 DEF Half
    <3>3. Delete(j) \/ Create(j) \/ Upload(j) \/ Drop(j)
      BY <1>4, <3>2 DEF JobStep, Lookup, ConnectFails, Look, Destroy, VolumeNotFound, Tidy,
         Fetch, Resize, Patch, Define, Clean, Redefine, LookAgain, Boot, Fault, host
    <3>4. ~Delete(j) /\ ~Drop(j)
      BY <2>2, <3>1, <3>2 DEF Delete, Drop, Half
    <3>5. ~Upload(j)
      <4> SUFFICES ASSUME Upload(j) PROVE FALSE
        OBVIOUS
      <4>1. PICK v : vol' = [vol EXCEPT ![job[j].machine] = v] /\ v.whole
        <5>1. vol' = [vol EXCEPT ![job[j].machine] =
                        [image |-> job[j].image, by |-> job[j].by, whole |-> TRUE]]
          BY <3>2 DEF Upload
        <5>2. [image |-> job[j].image, by |-> job[j].by, whole |-> TRUE].whole
          OBVIOUS
        <5> QED BY <5>1, <5>2
      <4>2. vol'[x] = v BY <3>1, <3>2, <4>1
      <4> QED BY <4>1, <4>2 DEF Half
    <3>6. Create(j) /\ job[j].machine = x /\ Goto(j, "upload")
      BY <3>1, <3>2, <3>3, <3>4, <3>5 DEF Create
    <3> QED BY <3>6, Moved DEF Attends, Steps, Create, At, Takes
  <2> QED BY <2>1, <2>2
<1> QED BY <1>1, <1>2, <1>3, <1>4 DEF Next

\* Whatever fails except the deletion of a volume, and however many jobs overlap
\* on a machine, a half-written root volume has a job that completes or deletes it.
THEOREM NoHalfImageLeft ==
    ASSUME CleanupWorks
    PROVE  Spec => []HalfImageIsAttended
<1>1. Init => HalfImageIsAttended
  BY DEF Init, HalfImageIsAttended
<1>2. Typed /\ HalfImageIsAttended /\ [Next]_vars => HalfImageIsAttended'
  BY AttendedStep
<1> QED BY <1>1, <1>2, TypedAlways, PTL DEF Spec

-----------------------------------------------------------------------------
(* One disk is overwritten.  The edit gives the volume to the preferred    *)
(* disk and makes it boot first, which prefers it the more; the cleanup    *)
(* takes no disk away.  A document that awaits its define call therefore   *)
(* chooses the same disk as the one it will replace, however old it is.    *)

SameDisk(d, e) == BootDisk(d) = BootDisk(e) /\ UsesVolume(d) \subseteq BootDisk(e)

XmlOK == \A x \in Machines : Definable(xml[x]) /\ SameDisk(xml[x], xml[x])

\* After the cleanup libvirt accepts the document.
HeldOK(j) == job[j] # NoJob =>
    /\ job[j].pc \in {"define", "redefine"} => SameDisk(doc[j], xml[job[j].machine])
    /\ job[j].pc = "redefine" => Definable(doc[j])

DocsAgree == XmlOK /\ \A j \in Jobs : HeldOK(j)

LEMMA CandidateType ==
    ASSUME NEW d \in Domain, NEW k \in Candidates(d)
    PROVE  k \in Slots /\ k \in Nat /\ d.devs[k] \in Device /\ d.devs[k].order \in Nat
<1>1. k \in Slots /\ d.devs[k] \in Device BY DEF Candidates, Devices, Domain
<1>2. Slots \subseteq Nat BY DomainAssumption DEF Slots
<1> QED BY <1>1, <1>2 DEF Device

\* No two candidates are preferred to each other, so that a best one is chosen.
LEMMA BestIsChosen ==
    ASSUME NEW d \in Domain, NEW k \in Candidates(d), \A l \in Candidates(d) : Before(d, k, l)
    PROVE  BootDisk(d) = {k}
<1> DEFINE s == SelectBootDiskIndex(d)
<1>1. s \in Candidates(d) /\ \A l \in Candidates(d) : Before(d, s, l)
  BY BestCandidate DEF SelectBootDiskIndex
<1> HIDE DEF s
<1>2. Before(d, k, s) /\ Before(d, s, k) BY <1>1
<1>3. k = s BY <1>1, <1>2, CandidateType DEF Before
<1> QED BY <1>3 DEF BootDisk, s

LEMMA PatchSame ==
    ASSUME NEW d \in Domain, Candidates(d) # {}, UsesVolume(d) \subseteq BootDisk(d)
    PROVE  SameDisk(PatchDomainBootDiskXML(d), d)
<1> DEFINE s == SelectBootDiskIndex(d)
           p == PatchDomainBootDiskXML(d)
<1>1. s \in Candidates(d) /\ \A l \in Candidates(d) : Before(d, s, l)
  BY BestCandidate DEF SelectBootDiskIndex
<1>2. p \in Domain BY PatchType
<1>3. /\ p.devs[s].kind = "disk" /\ p.devs[s].order = 1 /\ p.devs[s] \in Device
      /\ \A l \in Slots : l # s => p.devs[l] = d.devs[l]
  BY PatchShape
<1>4. BootDisk(d) = {s} BY DEF BootDisk
<1> HIDE DEF s, p
<1>5. Candidates(p) = Candidates(d)
  BY <1>1, <1>3, DomainAssumption DEF Candidates, Devices, IsBootDiskCandidate
<1>6. ASSUME NEW l \in Candidates(p) PROVE Before(p, s, l)
  <2>1. Before(d, s, l) /\ l \in Candidates(d) BY <1>1, <1>5
  <2>2. CASE l = s BY <1>1, <1>3, <2>2, CandidateType DEF Before
  <2>3. CASE l # s
    <3>1. p.devs[l] = d.devs[l] /\ d.devs[l].order \in Nat /\ d.devs[s].order \in Nat
      BY <1>1, <1>3, <2>1, <2>3, CandidateType
    <3> QED BY <1>3, <2>1, <3>1 DEF Before
  <2> QED BY <2>2, <2>3
<1>7. BootDisk(p) = {s} BY <1>1, <1>2, <1>5, <1>6, BestIsChosen
<1>8. UsesVolume(p) \subseteq {s}
  BY <1>3, <1>4 DEF UsesVolume, Devices
<1> QED BY <1>4, <1>7, <1>8 DEF SameDisk, p

LEMMA StripKeeps ==
    ASSUME NEW d \in Domain, Definable(d)
    PROVE  /\ Definable(StripConfigDriveDisks(d))
           /\ SameDisk(d, d) => SameDisk(StripConfigDriveDisks(d), d)
<1> DEFINE t == StripConfigDriveDisks(d)
<1>1. t \in Domain /\ t.osboot = d.osboot
      /\ \A k \in Devices(t) : k \in Devices(d) /\ t.devs[k] = d.devs[k]
  BY StripType
<1>2. \A k \in Candidates(d) : k \in Candidates(t)
  BY StripType DEF Candidates, Devices, IsBootDiskCandidate, CDROMs, IsCDROMDisk
<1> HIDE DEF t
<1>3. \A k \in Ordered(t) : k \in Ordered(d) /\ t.devs[k] = d.devs[k]
  BY <1>1 DEF Ordered
<1>4. Definable(t) BY <1>1, <1>3 DEF Definable
<1>5. Candidates(t) = Candidates(d) /\ \A k \in Candidates(d) : t.devs[k] = d.devs[k]
  BY <1>1, <1>2 DEF Candidates
<1>6. BootDisk(t) = BootDisk(d)
  <2>1. CASE Candidates(d) = {} BY <1>5, <2>1 DEF BootDisk
  <2>2. CASE Candidates(d) # {}
    <3>1. PICK s \in Candidates(d) : \A l \in Candidates(d) : Before(d, s, l)
      BY <2>2, BestCandidate
    <3>2. \A l \in Candidates(t) : Before(t, s, l)
      BY <1>5, <3>1 DEF Before
    <3> QED BY <1>1, <1>5, <3>1, <3>2, BestIsChosen
  <2> QED BY <2>1, <2>2
<1>7. UsesVolume(t) \subseteq UsesVolume(d) BY <1>1 DEF UsesVolume
<1> QED BY <1>4, <1>6, <1>7 DEF SameDisk, t

LEMMA DocsInit == Init => DocsAgree
<1> SUFFICES ASSUME Init PROVE DocsAgree
  OBVIOUS
<1>1. ASSUME NEW d \in Shapes PROVE Definable(d) /\ SameDisk(d, d)
  BY DomainAssumption DEF SameDisk, UsesVolume
<1> QED BY <1>1 DEF Init, DocsAgree, XmlOK, HeldOK

\* The other steps neither define a domain nor take a document.
LEMMA DocsKept ==
    ASSUME Typed, DocsAgree, UNCHANGED xml, NEW j \in Jobs, job[j] # NoJob,
           \/ \E s \in Steps \ {"define", "redefine"} : Takes(j, s)
           \/ \E o : End(j, o),
           Leaves(j)
    PROVE  DocsAgree'
<1>1. JobsOK BY TypeParts DEF Typed
<1>2. \A k \in Jobs : k # j => job'[k] = job[k] /\ doc'[k] = doc[k]
  <2>1. \A k \in Jobs : k # j => job'[k] = job[k] BY <1>1, TakesMeans DEF End, JobsOK
  <2> QED BY <2>1 DEF Leaves, Typed, DocsOK
<1>3. job'[j] = NoJob \/ job'[j].pc \notin {"define", "redefine"}
  BY <1>1, TakesMeans DEF End, JobsOK
<1>4. \A k \in Jobs : HeldOK(k)'
  BY <1>2, <1>3 DEF DocsAgree, HeldOK
<1> QED BY <1>4 DEF DocsAgree, XmlOK

LEMMA DocsTaken ==
    ASSUME Typed, DocsAgree, UNCHANGED xml, NEW j \in Jobs, job[j] # NoJob,
           NEW s \in Steps, Goto(j, s), NEW d \in Domain, doc' = [doc EXCEPT ![j] = d],
           SameDisk(d, xml[job[j].machine]), s = "redefine" => Definable(d)
    PROVE  DocsAgree'
<1>1. \A k \in Jobs : k # j => job'[k] = job[k] /\ doc'[k] = doc[k]
  BY TypeParts DEF Goto, Typed, DocsOK, JobsOK
<1>2. doc'[j] = d /\ job'[j].pc = s /\ job'[j].machine = job[j].machine
  BY Moved DEF Typed, DocsOK, Takes
<1>3. \A k \in Jobs : HeldOK(k)'
  BY <1>1, <1>2 DEF DocsAgree, HeldOK
<1> QED BY <1>3 DEF DocsAgree, XmlOK

LEMMA DocsDefined ==
    ASSUME Typed, DocsAgree, NEW j \in Jobs, job[j] # NoJob,
           NEW s \in Steps \ {"define", "redefine"}, Goto(j, s), Leaves(j),
           NEW x \in Machines, xml' = [xml EXCEPT ![x] = doc[j]],
           Definable(doc[j]), SameDisk(doc[j], xml[x])
    PROVE  DocsAgree'
<1>1. \A k \in Jobs : k # j => job'[k] = job[k] /\ doc'[k] = doc[k]
  BY TypeParts DEF Goto, Leaves, Typed, DocsOK, JobsOK
<1>2. job'[j].pc = s
  BY Moved DEF Takes
<1>3. \A y \in Machines : xml'[y] = IF y = x THEN doc[j] ELSE xml[y]
  BY DEF Typed, TypeOK
<1>4. \A y \in Machines : BootDisk(xml'[y]) = BootDisk(xml[y])
  BY <1>3 DEF SameDisk
<1>5. XmlOK'
  BY <1>3, <1>4 DEF DocsAgree, XmlOK, SameDisk
<1>6. ASSUME NEW k \in Jobs PROVE HeldOK(k)'
  <2>1. CASE k = j BY <1>2, <2>1 DEF HeldOK
  <2>2. CASE k # j
    <3>1. job[k] # NoJob => job[k].machine \in Machines
      BY ActiveIsJob, TypeParts DEF Typed, Job
    <3>2. HeldOK(k) BY DEF DocsAgree
    <3> QED BY <1>1, <1>4, <2>2, <3>1, <3>2 DEF HeldOK, SameDisk
  <2> QED BY <2>1, <2>2
<1> QED BY <1>5, <1>6 DEF DocsAgree

LEMMA DocsJob ==
    ASSUME Typed, DocsAgree, NEW j \in Jobs, JobStep(j)
    PROVE  DocsAgree'
<1> DEFINE x == job[j].machine
<1>0. job[j] # NoJob BY StepMoves
<1>1. x \in Machines /\ xml[x] \in Domain
  BY <1>0, ActiveIsJob, TypeParts DEF Typed, Job, HostOK
<1>2. Definable(xml[x]) /\ SameDisk(xml[x], xml[x]) /\ HeldOK(j)
  BY <1>1 DEF DocsAgree, XmlOK
<1>f. ASSUME Fail(j), UNCHANGED xml, Leaves(j) PROVE DocsAgree'
  <2>1. (\E s \in Steps \ {"define", "redefine"} : Takes(j, s)) \/ End(j, Failed)
    BY <1>f, FailMeans DEF Steps, Takes
  <2> QED BY <1>0, <1>f, <2>1, DocsKept
<1>3. CASE Patch(j)
  <2>1. CASE Fail(j) /\ UNCHANGED <<doc, host>>
    BY <1>f, <2>1 DEF Leaves, host
  <2>2. CASE /\ Candidates(xml[x]) # {} /\ Goto(j, "define") /\ UNCHANGED host
             /\ doc' = [doc EXCEPT ![j] = PatchDomainBootDiskXML(xml[x])]
    <3>1. /\ PatchDomainBootDiskXML(xml[x]) \in Domain
          /\ SameDisk(PatchDomainBootDiskXML(xml[x]), xml[x])
      BY <1>1, <1>2, <2>2, PatchType, PatchSame DEF SameDisk
    <3> QED BY <1>0, <2>2, <3>1, DocsTaken DEF Steps, host
  <2> QED BY <1>3, <2>1, <2>2 DEF Patch
<1>4. CASE Define(j)
  <2>1. SameDisk(doc[j], xml[x]) /\ Leaves(j)
    BY <1>0, <1>2, <1>4 DEF HeldOK, Define, At, Leaves
  <2>2. CASE Definable(doc[j]) /\ xml' = [xml EXCEPT ![x] = doc[j]] /\ Goto(j, "clean")
    BY <1>0, <1>1, <2>1, <2>2, DocsDefined DEF Steps
  <2>3. CASE Fail(j) /\ UNCHANGED xml
    BY <1>f, <2>1, <2>3
  <2> QED BY <1>4, <2>2, <2>3 DEF Define
<1>5. CASE Clean(j)
  <2>1. CASE Goto(j, "recheck") /\ UNCHANGED <<doc, host>>
    BY <1>0, <2>1, DocsKept DEF Steps, Leaves, Takes, host
  <2>2. CASE /\ Goto(j, "redefine") /\ UNCHANGED host
             /\ doc' = [doc EXCEPT ![j] = StripConfigDriveDisks(xml[x])]
    BY <1>0, <1>1, <1>2, <2>2, StripKeeps, StripType, DocsTaken DEF Steps, host
  <2> QED BY <1>5, <2>1, <2>2 DEF Clean
<1>6. CASE Redefine(j)
  <2>1. SameDisk(doc[j], xml[x]) /\ Definable(doc[j]) /\ Leaves(j)
    BY <1>0, <1>2, <1>6 DEF HeldOK, Redefine, At, Leaves
  <2> QED BY <1>0, <1>1, <1>6, <2>1, DocsDefined DEF Redefine, Steps
<1>7. CASE Fault(j)
  BY <1>f, <1>7 DEF Fault, Leaves, host
<1>8. CASE \/ Lookup(j) \/ ConnectFails(j) \/ Look(j) \/ Destroy(j) \/ Delete(j)
           \/ VolumeNotFound(j) \/ Tidy(j) \/ Fetch(j) \/ Create(j) \/ Upload(j) \/ Resize(j)
           \/ Drop(j) \/ LookAgain(j) \/ Boot(j)
  <2>1. UNCHANGED xml /\ Leaves(j)
    BY <1>8 DEF Lookup, ConnectFails, Look, Destroy, Delete, VolumeNotFound, Tidy, Fetch,
       Create, Upload, Resize, Drop, LookAgain, Boot, host, Leaves
  <2>2. \/ \E s \in Steps \ {"define", "redefine"} : Takes(j, s)
        \/ \E o : End(j, o)
        \/ Fail(j)
    BY <1>8 DEF Lookup, ConnectFails, Look, Destroy, Delete, VolumeNotFound, Tidy, Fetch,
       Create, Upload, Resize, Drop, LookAgain, Boot, Succeed, Steps, Takes
  <2> QED BY <1>0, <1>f, <2>1, <2>2, DocsKept
<1> QED BY <1>3, <1>4, <1>5, <1>6, <1>7, <1>8 DEF JobStep

LEMMA DocsStep == Typed /\ DocsAgree /\ [Next]_vars => DocsAgree'
<1> SUFFICES ASSUME Typed, DocsAgree, [Next]_vars PROVE DocsAgree'
  OBVIOUS
<1>1. CASE Call
  <2>1. UNCHANGED <<xml, doc>> /\ \A j \in Jobs : job[j] # NoJob => job'[j] = job[j]
    BY <1>1, CallsKeepJobs DEF Call, AllocateInstance, ReleaseInstance, host
  <2>2. \A j \in Jobs : job[j] = NoJob => job'[j] = NoJob \/ job'[j].pc = "lookup"
    <3>1. ASSUME NEW kind, NEW x, NEW i, NEW g, Schedule(kind, x, i, g)
          PROVE  \A j \in Jobs : job[j] = NoJob => job'[j] = NoJob \/ job'[j].pc = "lookup"
      BY <3>1 DEF Schedule, Typed, TypeOK
    <3> QED BY <1>1, <3>1 DEF Call, AllocateInstance, ReleaseInstance
  <2>3. \A j \in Jobs : HeldOK(j)'
    BY <2>1, <2>2 DEF DocsAgree, HeldOK
  <2> QED BY <2>1, <2>3 DEF DocsAgree, XmlOK
<1>2. CASE Save \/ UNCHANGED vars \/ \E y \in Machines : Guest(y)
  BY <1>2 DEF Save, Guest, vars, host, DocsAgree, XmlOK, HeldOK
<1>3. CASE Crash
  BY <1>3 DEF Crash, host, DocsAgree, XmlOK, HeldOK
<1> QED BY <1>1, <1>2, <1>3, DocsJob DEF Next

LEMMA DocsAlways == Spec => [](Typed /\ DocsAgree)
BY DocsInit, DocsStep, TypedAlways, PTL DEF Spec

\* A step defines no document that chooses another disk.
LEMMA DefinesSame ==
    ASSUME Typed, DocsAgree, [Next]_vars, NEW x \in Machines
    PROVE  SameDisk(xml'[x], xml[x])
<1>1. SameDisk(xml[x], xml[x]) BY DEF DocsAgree, XmlOK
<1>2. ASSUME NEW j \in Jobs, Define(j) \/ Redefine(j), UNCHANGED xml \/ xml' = [xml EXCEPT ![job[j].machine] = doc[j]]
      PROVE  SameDisk(xml'[x], xml[x])
  <2>1. HeldOK(j) /\ job[j] # NoJob /\ job[j].pc \in {"define", "redefine"}
    BY <1>2 DEF DocsAgree, Define, Redefine, At
  <2> QED BY <1>1, <1>2, <2>1 DEF HeldOK, Typed, TypeOK
<1>3. ASSUME NEW j \in Jobs, JobStep(j) PROVE SameDisk(xml'[x], xml[x])
  <2>1. CASE Define(j) \/ Redefine(j)
    BY <1>2, <2>1 DEF Define, Redefine
  <2>2. CASE ~(Define(j) \/ Redefine(j))
    <3>1. UNCHANGED xml
      BY <1>3, <2>2 DEF JobStep, Lookup, ConnectFails, Look, Destroy, Delete, VolumeNotFound, Tidy,
         Fetch, Create, Upload, Resize, Drop, Patch, Clean, LookAgain, Boot, Fault, host
    <3> QED BY <1>1, <3>1
  <2> QED BY <2>1, <2>2
<1>4. CASE ~ \E j \in Jobs : JobStep(j)
  <2>1. UNCHANGED xml
    BY <1>4 DEF Next, Call, AllocateInstance, ReleaseInstance, Save, Crash, Guest, vars, host
  <2> QED BY <1>1, <2>1
<1> QED BY <1>3, <1>4

\* In the whole life of a machine every provision writes to the same disk, also
\* when jobs overlap and write back documents out of date: see DataDisksKept.
THEOREM OtherDisksKept == Spec => DataDisksKept
<1>1. Typed /\ DocsAgree /\ [Next]_vars
        => [\A x \in Machines : /\ UsesVolume(xml'[x]) \subseteq BootDisk(xml[x])
                                /\ BootDisk(xml'[x]) = BootDisk(xml[x])]_xml
  BY DefinesSame DEF SameDisk
<1> QED BY <1>1, DocsAlways, PTL DEF Spec, DataDisksKept

\* Once a provision has given the root volume to a disk, no other disk of the
\* machine is ever given one, at any later time.
THEOREM OneDiskEver ==
    ASSUME NEW x \in Machines, NEW k, NEW l, k # l
    PROVE  Spec => [](k \in UsesVolume(xml[x]) => [](~(l \in UsesVolume(xml[x]))))
<1> DEFINE Fixed == BootDisk(xml[x]) = {k}
           Uses(m) == m \in UsesVolume(xml[x])
<1>1. Typed /\ DocsAgree => (Uses(k) => Fixed) /\ (Fixed => ~Uses(l))
  BY DEF DocsAgree, XmlOK, SameDisk, BootDisk
<1>2. Typed /\ DocsAgree /\ Fixed /\ [Next]_vars => Fixed'
  BY DefinesSame DEF SameDisk
<1> HIDE DEF Fixed
<1>3. Spec => [](Fixed => []Fixed)
  BY <1>2, DocsAlways, PTL DEF Spec
<1>4. Spec => [](Uses(k) => []~Uses(l))
  <2> HIDE DEF Uses
  <2> QED BY <1>1, <1>3, DocsAlways, PTL
<1> QED BY <1>4

\* What the cleanup defines has passed libvirt's test before and still does, also
\* after a provision that overlapped it: Redefine need not provide for a refusal.
THEOREM CleanupIsAccepted ==
    Spec => [](\A j \in Jobs : At(j, "redefine") => Definable(doc[j]))
<1>1. DocsAgree => \A j \in Jobs : At(j, "redefine") => Definable(doc[j])
  BY DEF DocsAgree, HeldOK, At
<1> QED BY <1>1, DocsAlways, PTL

-----------------------------------------------------------------------------
(* No job goes back.                                                       *)

Place(step) ==
    CASE step = "lookup" -> 0  [] step = "look"     -> 1  [] step = "destroy" -> 2
      [] step = "delete" -> 3  [] step = "tidy"     -> 4  [] step = "fetch"   -> 5
      [] step = "create" -> 6  [] step = "upload"   -> 7  [] step = "resize"  -> 8
      [] step = "drop"   -> 9  [] step = "patch"    -> 10 [] step = "define"  -> 11
      [] step = "clean"  -> 12 [] step = "redefine" -> 13 [] step = "recheck" -> 14
      [] step = "boot"   -> 15

\* The steps that may come next.
Follows(step, next) ==
    \/ step = "lookup" /\ next \in {"look", "delete", "clean"}
    \/ step = "look" /\ next \in {"destroy", "delete"}
    \/ step = "destroy" /\ next = "delete"
    \/ step = "delete" /\ next \in {"tidy", "fetch"}
    \/ step = "fetch" /\ next = "create"
    \/ step = "create" /\ next = "upload"
    \/ step = "upload" /\ next \in {"resize", "drop"}
    \/ step = "resize" /\ next \in {"patch", "drop"}
    \/ step = "patch" /\ next = "define"
    \/ step = "define" /\ next = "clean"
    \/ step = "clean" /\ next \in {"redefine", "recheck"}
    \/ step = "redefine" /\ next = "recheck"
    \/ step = "recheck" /\ next = "boot"

\* A later step of the same work on the same machine.
Further(j) == /\ Place(job'[j].pc) > Place(job[j].pc)
              /\ job'[j].machine = job[j].machine /\ job'[j].kind = job[j].kind
              /\ job'[j].by = job[j].by /\ job'[j].image = job[j].image

LEMMA StepFurther ==
    ASSUME Typed, NEW j \in Jobs, JobStep(j)
    PROVE  job'[j] = NoJob \/ Further(j)
<1>1. job[j] # NoJob /\ JobsOK BY StepMoves, TypeParts DEF Typed
<1>2. ASSUME NEW s \in Steps, Takes(j, s), Follows(job[j].pc, s) PROVE Further(j)
  <2>1. Place(s) > Place(job[j].pc) BY <1>2 DEF Follows, Place
  <2> QED BY <1>1, <1>2, <2>1, TakesMeans DEF Further
<1>3. (\E o : End(j, o)) => job'[j] = NoJob BY DEF End, Typed, TypeOK
<1>4. Fail(j) => \/ \E o : End(j, o)
                 \/ \E s \in Steps : Takes(j, s) /\ Follows(job[j].pc, s)
  BY FailMeans DEF Follows, Takes, Steps
<1>5. \/ \E o : End(j, o)
      \/ \E s \in Steps : Takes(j, s) /\ Follows(job[j].pc, s)
  BY <1>4 DEF JobStep, Lookup, ConnectFails, Look, Destroy, Delete, VolumeNotFound, Tidy, Fetch,
         Create, Upload, Resize, Drop, Patch, Define, Clean, Redefine, LookAgain, Boot, Fault,
         At, Succeed, Follows, Takes, Steps
<1> QED BY <1>2, <1>3, <1>5

\* Whatever fails, each step of a job ends it or is followed by a later step of the
\* same work, so that it takes at most 16; nobody else but a crash touches it.
THEOREM JobsGoForward ==
    Spec => [][\A j \in Jobs : job[j] # NoJob /\ job'[j] # job[j]
                                  => job'[j] = NoJob \/ Further(j)]_vars
<1>1. ASSUME Typed, Next, NEW j \in Jobs, job[j] # NoJob, job'[j] # job[j]
      PROVE  job'[j] = NoJob \/ Further(j)
  <2>1. CASE Call BY <1>1, <2>1, CallsKeepJobs
  <2>2. CASE Save \/ \E y \in Machines : Guest(y) BY <1>1, <2>2 DEF Save, Guest
  <2>3. CASE Crash BY <2>3 DEF Crash
  <2>4. ASSUME NEW k \in Jobs, JobStep(k) PROVE job'[j] = NoJob \/ Further(j)
    BY <1>1, <2>4, StepFurther, OthersStay
  <2> QED BY <1>1, <2>1, <2>2, <2>3, <2>4 DEF Next
<1>2. Typed /\ [Next]_vars =>
        [\A j \in Jobs : job[j] # NoJob /\ job'[j] # job[j]
                            => job'[j] = NoJob \/ Further(j)]_vars
  BY <1>1
<1> QED BY <1>2, TypedAlways, PTL DEF Spec
=============================================================================
