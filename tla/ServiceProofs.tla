--------------------------- MODULE ServiceProofs ---------------------------
(***************************************************************************)
(* Provisioning implements MachineService when callers wait: every step of *)
(* a job is a step of the work on its machine, or none.                    *)
(***************************************************************************)
EXTENDS PatientProofs

Works == [x \in Machines |-> Work(x)]

JobWork(j) == [kind |-> job[j].kind, by |-> job[j].by, image |-> job[j].image,
               clean |-> job[j].clean]

LEMMA JobWorkType ==
    ASSUME Typed, NEW j \in Jobs, job[j] # NoJob
    PROVE  JobWork(j) \in Result /\ JobWork(j) # NoJob /\ job[j].machine \in Machines
<1>1. job[j] \in Job BY ActiveIsJob, TypeParts DEF Typed
<1>2. JobWork(j) \in Result BY <1>1 DEF JobWork, Job, Result
<1> QED BY <1>1, <1>2, SpecialValues DEF Job

\* A machine is busy with the one job that is on it.
LEMMA WorkOfJob ==
    ASSUME Typed, Patient, NEW j \in Jobs, job[j] # NoJob, NEW x, x = job[j].machine
    PROVE  x \in Machines /\ Works[x] = JobWork(j)
<1>1. x \in Machines BY JobWorkType
<1>2. JobsOn(x) = {j} BY DEF JobsOn, Active, Patient, Alone
<1>3. Work(x) = JobWork(j) BY <1>2 DEF Work, JobWork
<1> QED BY <1>1, <1>3 DEF Works

LEMMA BusyMeans ==
    ASSUME Typed, NEW x \in Machines
    PROVE  Works[x] = NoJob <=> JobsOn(x) = {}
<1>1. ASSUME JobsOn(x) # {} PROVE Work(x) # NoJob
  <2> DEFINE j == CHOOSE j \in JobsOn(x) : TRUE
  <2>1. j \in Jobs /\ job[j] # NoJob BY <1>1 DEF JobsOn, Active
  <2>2. Work(x) = JobWork(j) BY <1>1 DEF Work, JobWork
  <2> HIDE DEF j
  <2> QED BY <2>1, <2>2, JobWorkType
<1> QED BY <1>1 DEF Works, Work

\* A step of a job changes what its own machine is busy with, if anything.
LEMMA WorksMove ==
    ASSUME Typed, Patient, NEW j \in Jobs, JobStep(j), NEW x, x = job[j].machine,
           NEW w, \/ job'[j] = NoJob /\ w = NoJob
                  \/ job'[j] # NoJob /\ job'[j].machine = x /\ w = JobWork(j)'
    PROVE  Works' = [Works EXCEPT ![x] = w]
<1>1. job[j] # NoJob BY StepMoves
<1>2. x \in Machines BY <1>1, WorkOfJob
<1>3. \A k \in Jobs : k # j => job'[k] = job[k] BY StepLocal
<1>4. JobsOn(x)' = IF job'[j] = NoJob THEN {} ELSE {j}
  BY <1>1, <1>3 DEF JobsOn, Active, Patient, Alone
<1>5. Work(x)' = w
  BY <1>4 DEF Work, JobWork
<1>6. ASSUME NEW y \in Machines, y # x PROVE Work(y)' = Work(y)
  <2>1. JobsOn(y)' = JobsOn(y) BY <1>1, <1>3, <1>6 DEF JobsOn, Active
  <2>2. CASE JobsOn(y) = {} BY <2>1, <2>2 DEF Work
  <2>3. CASE JobsOn(y) # {}
    <3> DEFINE k == CHOOSE k \in JobsOn(y) : TRUE
    <3>1. k \in Jobs /\ k # j BY <1>6, <2>3 DEF JobsOn, Active
    <3>2. job'[k] = job[k] BY <1>3, <3>1
    <3> QED BY <2>1, <2>3, <3>2 DEF Work
  <2> QED BY <2>2, <2>3
<1> QED BY <1>2, <1>5, <1>6 DEF Works

-----------------------------------------------------------------------------
(* How a step leaves its job, and what that is in MachineService. *)

LEMMA GotoWork ==
    ASSUME Typed, Patient, NEW j \in Jobs, JobStep(j), NEW s \in Steps, Goto(j, s)
    PROVE  Works' = Works /\ UNCHANGED settled
<1>1. job[j] # NoJob /\ JobsOK /\ Takes(j, s) BY StepMoves, TypeParts DEF Typed, Takes
<1>2. /\ job'[j] # NoJob /\ job'[j].machine = job[j].machine
      /\ job'[j].kind = job[j].kind /\ job'[j].by = job[j].by
      /\ job'[j].image = job[j].image /\ job'[j].clean = job[j].clean
  BY <1>1, TakesMeans
<1>3. JobWork(j)' = JobWork(j)
  BY <1>2 DEF JobWork
<1>x. PICK x : x = job[j].machine OBVIOUS
<1>w. PICK w : w = JobWork(j) OBVIOUS
<1>4. Works' = [Works EXCEPT ![x] = w]
  <2>1. job'[j] # NoJob /\ job'[j].machine = x /\ w = JobWork(j)'
    BY <1>2, <1>3, <1>x, <1>w
  <2> QED BY <1>x, <2>1, WorksMove
<1>5. Works[x] = w BY <1>w, <1>1, <1>x, WorkOfJob
<1> QED BY <1>4, <1>5 DEF Works, Goto

LEMMA EndWork ==
    ASSUME Typed, Patient, NEW j \in Jobs, JobStep(j), NEW o, End(j, o),
           NEW x, x = job[j].machine
    PROVE  Works' = [Works EXCEPT ![x] = NoJob] /\ settled' = [settled EXCEPT ![x] = o]
<1>1. job'[j] = NoJob BY DEF End, Typed, TypeOK
<1> QED BY <1>1, WorksMove DEF End

LEMMA PassWork ==
    ASSUME Typed, Patient, NEW j \in Jobs, JobStep(j), NEW s \in Steps, PassOver(j, s),
           NEW x, x = job[j].machine,
           job[j].kind = "release" \/ (job[j].image \in Images /\ x \in paused),
           UNCHANGED <<running, paused, vol>>
    PROVE  Service!Next
<1>1. job[j] # NoJob /\ job[j] \in Job /\ JobsOK /\ Takes(j, s)
  BY StepMoves, TypeParts DEF Typed, Takes
<1>2. Works[x] = JobWork(j) /\ x \in Machines /\ JobWork(j) # NoJob
  BY <1>1, WorkOfJob, JobWorkType
<1>3. /\ job'[j] \in Job /\ job'[j] # NoJob /\ job'[j].machine = x /\ ~job'[j].clean
      /\ job'[j].kind = job[j].kind /\ job'[j].by = job[j].by /\ job'[j].image = job[j].image
      /\ UNCHANGED settled
  BY <1>1, TakesMeans
<1>4. PICK w : w = Service!Unclean(JobWork(j)) OBVIOUS
<1>5. w = JobWork(j)'
  <2>1. job'[j].clean = FALSE BY <1>3 DEF Job
  <2> QED BY <1>3, <1>4, <2>1 DEF JobWork, Service!Unclean
<1>6. Works' = [Works EXCEPT ![x] = w] BY <1>3, <1>5, WorksMove
<1>7. Service!Releasing(x) \/ (Service!Imaging(x) /\ x \in paused)
  <2>1. JobWork(j).kind = job[j].kind /\ JobWork(j).image = job[j].image BY DEF JobWork
  <2>2. job[j].kind \in {"provision", "release"} BY <1>1 DEF Job
  <2> QED BY <1>2, <2>1, <2>2 DEF Service!Releasing, Service!Imaging, Service!Busy, Works
<1>8. Service!PassOver(x)
  BY <1>2, <1>3, <1>4, <1>6, <1>7 DEF Service!PassOver, Works
<1> QED BY <1>2, <1>8 DEF Service!Next

LEMMA FailWork ==
    ASSUME Typed, Patient, NEW j \in Jobs, JobStep(j), Fail(j), UNCHANGED <<running, paused, vol>>
    PROVE  [Service!Next]_<<Works, running, paused, vol, settled>>
<1>x. PICK x : x = job[j].machine OBVIOUS
<1>1. job[j] # NoJob BY StepMoves
<1>2. Works[x] = JobWork(j) /\ x \in Machines /\ JobWork(j) # NoJob
  BY <1>x, <1>1, WorkOfJob, JobWorkType
<1>3. CASE job[j].kind = "release" /\ PassOver(j, "delete")
  BY <1>x, <1>3, PassWork DEF Steps
<1>4. CASE Goto(j, "drop")
  <2>1. Works' = Works /\ UNCHANGED settled BY <1>4, GotoWork DEF Steps
  <2> QED BY <2>1
<1>5. CASE End(j, Failed)
  <2>1. Works' = [Works EXCEPT ![x] = NoJob] /\ settled' = [settled EXCEPT ![x] = Failed]
    BY <1>x, <1>5, EndWork
  <2>2. Service!Abandon(x)
    BY <1>2, <2>1 DEF Service!Abandon, Service!Busy, Service!End, Works
  <2> QED BY <1>2, <2>2 DEF Service!Next
<1> QED BY <1>3, <1>4, <1>5, FailMeans

-----------------------------------------------------------------------------
(* Every step of a job is a step of the service on its machine, or none. *)

LEMMA ServiceJob ==
    ASSUME Typed, Patient, NEW j \in Jobs, JobStep(j), NEW x, x = job[j].machine
    PROVE  [Service!Next]_<<Works, running, paused, vol, settled>>
<1> DEFINE imaged == job[j].kind = "provision" /\ job[j].image \in Images
           bare == job[j].kind = "provision" /\ job[j].image = NoImage
           release == job[j].kind = "release"
           stutter == UNCHANGED <<Works, running, paused, vol, settled>>
<1>1. job[j] # NoJob /\ job[j] \in Job BY StepMoves
<1>2. Works[x] = JobWork(j) /\ x \in Machines /\ JobWork(j) # NoJob
  BY <1>1, WorkOfJob, JobWorkType
<1>3. /\ imaged => ProvisionStage(j)
      /\ release /\ job[j].clean =>
            /\ job[j].pc \in {"delete", "tidy"} => running[x] = Off
            /\ job[j].pc = "tidy" => vol[x] = NoVolume
  BY <1>1 DEF Patient, Stage
<1>4. /\ release => job[j].pc \in {"lookup", "look", "destroy", "delete", "tidy"}
      /\ job[j].pc = "tidy" => release
  BY <1>1 DEF Typed, ReleaseSteps
<1>5. release \/ imaged \/ bare BY <1>1 DEF Job
<1>6. job[j].pc \in {"look", "destroy", "delete", "fetch", "create", "upload",
                     "resize", "drop", "patch", "define"} => release \/ imaged
  BY <1>1, <1>5 DEF Typed, HasImage, Job
<1>7. /\ imaged => Service!Imaging(x)
      /\ bare => Service!Adopting(x)
      /\ release => Service!Releasing(x)
      /\ Service!Busy(x)
  BY <1>2 DEF Service!Imaging, Service!Adopting, Service!Releasing, Service!Busy,
              JobWork, Works
<1>8. ASSUME NEW whole
      PROVE  Service!RootVolume(x, whole) = [image |-> job[j].image, by |-> job[j].by, whole |-> whole]
  BY <1>2 DEF Service!RootVolume, JobWork, Works
<1>9. /\ running \in [Machines -> Volume \cup {Off, Original}]
      /\ vol \in [Machines -> Volume \cup {NoVolume}]
      /\ \A y \in paused : running[y] # Off
  BY DEF Typed, TypeOK
<1>10. ASSUME NEW s \in Steps, Goto(j, s), UNCHANGED <<running, paused, vol>> PROVE stutter
  BY <1>10, GotoWork
<1>11. ASSUME Fail(j), UNCHANGED <<running, paused, vol>>
       PROVE  [Service!Next]_<<Works, running, paused, vol, settled>>
  BY <1>11, FailWork
<1>12. ASSUME NEW o, End(j, o) PROVE Service!End(x, o)
  BY <1>12, EndWork DEF Service!End, Works
<1>13. ASSUME Succeed(j) PROVE Service!End(x, Works[x])
  <2>1. PICK o : o = JobWork(j) OBVIOUS
  <2>2. End(j, o) BY <1>13, <2>1 DEF Succeed, JobWork
  <2> QED BY <1>2, <1>12, <2>1, <2>2
<1>f. ASSUME job[j].pc \in OffUntilBoot, release => job[j].pc \in {"delete", "tidy"}
      PROVE  Works[x].clean /\ (release \/ imaged) => running[x] = Off
  BY <1>2, <1>3, <1>f DEF JobWork, ProvisionStage
<1>14. CASE \/ Lookup(j) \/ Fetch(j) \/ Clean(j) \/ Redefine(j)
  BY <1>10, <1>14 DEF Lookup, Fetch, Clean, Redefine, host, power, Steps
<1>26. CASE Look(j)
  <2>1. UNCHANGED <<running, paused, vol>> BY <1>26 DEF Look, host, power
  <2>2. CASE Goto(j, "destroy") \/ Goto(j, "delete") BY <1>10, <2>1, <2>2 DEF Steps
  <2>3. CASE x \in paused /\ PassOver(j, "delete")
    <3>1. release \/ imaged BY <1>6, <1>26 DEF Look, At
    <3> QED BY <2>1, <2>3, <3>1, PassWork DEF Steps
  <2> QED BY <1>26, <2>2, <2>3 DEF Look
<1>15. CASE ConnectFails(j)
  <2>1. Service!End(x, Failed) /\ UNCHANGED <<running, paused, vol>>
    BY <1>12, <1>15 DEF ConnectFails, host, power
  <2> QED BY <1>2, <1>7, <2>1 DEF Service!Abandon, Service!Next
<1>16. CASE Destroy(j)
  <2>1. CASE /\ running[x] # Off /\ Goto(j, "delete")
             /\ running' = [running EXCEPT ![x] = Off] /\ paused' = paused \ {x}
    <3>1. UNCHANGED <<Works, settled>> BY <2>1, GotoWork DEF Steps
    <3>2. release \/ imaged BY <1>6, <1>16 DEF Destroy, At
    <3> QED BY <1>2, <1>7, <1>16, <2>1, <3>1, <3>2 DEF Service!Stop, Service!Next, Destroy, Works
  <2>2. CASE Fail(j) /\ UNCHANGED power
    BY <1>11, <1>16, <2>2 DEF Destroy, power
  <2> QED BY <1>16, <2>1, <2>2 DEF Destroy
<1>17. CASE Delete(j)
  <2>1. vol' = [vol EXCEPT ![x] = NoVolume] /\ UNCHANGED <<running, paused>>
    BY <1>17 DEF Delete, power
  <2>2. UNCHANGED <<Works, settled>> BY <1>17, GotoWork DEF Delete, Steps
  <2>3. job[j].pc = "delete" BY <1>17 DEF Delete, At
  <2>4. release \/ imaged BY <1>6, <2>3
  <2>5. Service!Free(x) BY <1>f, <2>3, <2>4 DEF OffUntilBoot, Service!Free, Works
  <2> QED BY <1>2, <1>7, <2>1, <2>2, <2>4, <2>5 DEF Service!Wipe, Service!Next, Works
<1>18. CASE VolumeNotFound(j)
  <2>1. UNCHANGED <<running, paused, vol>> BY <1>18 DEF VolumeNotFound, host, power
  <2>2. CASE release
    BY <1>18, <2>1, <2>2, PassWork DEF VolumeNotFound, Steps
  <2>3. CASE ~release
    BY <1>10, <1>18, <2>1, <2>3 DEF VolumeNotFound, Steps
  <2> QED BY <2>2, <2>3
<1>27. CASE Tidy(j)
  <2>1. UNCHANGED <<running, paused, vol>> BY <1>27 DEF Tidy, host, power
  <2>2. release /\ job[j].pc = "tidy" BY <1>4, <1>27 DEF Tidy, At
  <2>3. Service!End(x, Works[x]) BY <1>13, <1>27 DEF Tidy
  <2>4. Works[x].clean => running[x] = Off /\ vol[x] = NoVolume
    BY <1>2, <1>3, <2>2 DEF JobWork
  <2> QED BY <1>2, <1>7, <2>1, <2>2, <2>3, <2>4 DEF Service!Release, Service!Next, Works
<1>19. CASE Create(j) \/ Upload(j)
  <2>1. imaged BY <1>4, <1>6, <1>19 DEF Create, Upload, At
  <2>2. Service!Free(x)
    BY <1>4, <1>f, <1>19, <2>1 DEF OffUntilBoot, Create, Upload, At, Service!Free, Works
  <2>3. ASSUME NEW whole \in BOOLEAN, NEW s \in Steps, Goto(j, s), UNCHANGED power,
               vol' = [vol EXCEPT ![x] = [image |-> job[j].image, by |-> job[j].by,
                                          whole |-> whole]]
        PROVE  Service!Next
    <3>1. vol' = [vol EXCEPT ![x] = Service!RootVolume(x, whole)] BY <1>8, <2>3
    <3>2. UNCHANGED <<Works, settled>> BY <2>3, GotoWork
    <3>3. Service!Write(x)
      BY <1>7, <2>1, <2>2, <2>3, <3>1, <3>2 DEF Service!Write, Works, power
    <3> QED BY <1>2, <3>3 DEF Service!Next
  <2>4. CASE /\ vol' = [vol EXCEPT ![x] = [image |-> job[j].image, by |-> job[j].by,
                                           whole |-> FALSE]]
             /\ Goto(j, "upload") /\ UNCHANGED power
    BY <2>3, <2>4 DEF Steps
  <2>5. CASE /\ vol' = [vol EXCEPT ![x] = [image |-> job[j].image, by |-> job[j].by,
                                           whole |-> TRUE]]
             /\ Goto(j, "resize") /\ UNCHANGED power
    BY <2>3, <2>5 DEF Steps
  <2>6. CASE Fail(j) /\ UNCHANGED <<running, paused, vol>>
    BY <1>11, <2>6
  <2> QED BY <1>19, <2>4, <2>5, <2>6 DEF Create, Upload, power
<1>20. CASE Resize(j)
  BY <1>10, <1>11, <1>20 DEF Resize, host, power, Steps
<1>21. CASE Drop(j)
  <2>1. imaged
    <3>1. job[j].pc = "drop" BY <1>21 DEF Drop, At
    <3> QED BY <1>4, <1>6, <3>1
  <2>2. Service!Free(x)
    BY <1>4, <1>f, <1>21, <2>1 DEF OffUntilBoot, Drop, At, Service!Free, Works
  <2>3. vol' = [vol EXCEPT ![x] = NoVolume] /\ UNCHANGED <<running, paused>>
    BY <1>21 DEF Drop, power
  <2>4. Service!End(x, Failed) BY <1>12, <1>21 DEF Drop
  <2> QED BY <1>2, <1>7, <2>1, <2>2, <2>3, <2>4 DEF Service!Abandon, Service!Next
<1>22. CASE Patch(j) \/ Define(j)
  BY <1>10, <1>11, <1>22 DEF Patch, Define, host, power, Steps
<1>23. CASE LookAgain(j)
  <2>1. UNCHANGED <<running, paused, vol>> BY <1>23 DEF LookAgain, host, power
  <2>2. CASE Goto(j, "boot") BY <1>10, <2>1, <2>2 DEF Steps
  <2>3. CASE running[x] # Off /\ x \notin paused /\ Succeed(j)
    <3>1. job[j].pc = "recheck" /\ ~release BY <1>4, <1>23 DEF LookAgain, At
    <3>2. Service!End(x, Works[x]) BY <1>13, <2>3
    <3>3. CASE bare
      BY <1>2, <1>7, <2>1, <2>3, <3>2, <3>3 DEF Service!Adopt, Service!Next, Works
    <3>4. CASE imaged
      <4>1. ~Works[x].clean BY <1>f, <2>3, <3>1, <3>4 DEF OffUntilBoot
      <4> QED BY <1>2, <1>7, <2>1, <2>3, <3>2, <3>4, <4>1 DEF Service!Mistake, Service!Next, Works
    <3> QED BY <1>5, <3>1, <3>3, <3>4
  <2> QED BY <1>23, <2>2, <2>3 DEF LookAgain
<1>24. CASE Boot(j)
  <2>1. UNCHANGED <<paused, vol>> BY <1>24 DEF Boot
  <2>2. CASE /\ running[x] = Off /\ Startable(x)
             /\ running' = [running EXCEPT ![x] = IF BootsVolume(xml[x]) THEN vol[x] ELSE Original]
             /\ Succeed(j)
    <3>1. Service!End(x, Works[x]) BY <1>13, <2>2
    <3>2. CASE imaged
      <4>1. vol[x] = RootVolume(j) /\ BootsVolume(xml[x])
        BY <1>3, <1>24, <3>2, BootsDiskMeans DEF ProvisionStage, Boot, At
      <4>2. vol[x] = Service!RootVolume(x, TRUE) BY <1>8, <4>1 DEF RootVolume
      <4>3. running' = [running EXCEPT ![x] = vol[x]] BY <2>2, <4>1
      <4>4. Service!Boot(x)
        BY <1>7, <2>1, <2>2, <3>1, <3>2, <4>2, <4>3 DEF Service!Boot, Works
      <4> QED BY <1>2, <4>4 DEF Service!Next
    <3>3. CASE bare
      <4>1. BootsVolume(xml[x]) => vol[x] # NoVolume
        BY <2>2 DEF BootsVolume, Startable
      <4>2. PICK source \in {Original} \cup ({vol[x]} \ {NoVolume}) :
                running' = [running EXCEPT ![x] = source]
        BY <1>9, <2>2, <4>1, SpecialValues
      <4>3. Service!Adopt(x)
        BY <1>7, <2>1, <2>2, <3>1, <3>3, <4>2 DEF Service!Adopt, Works
      <4> QED BY <1>2, <4>3 DEF Service!Next
    <3> QED BY <1>4, <1>5, <1>24, <3>2, <3>3 DEF Boot, At
  <2>3. CASE Fail(j) /\ UNCHANGED running
    BY <1>11, <2>1, <2>3
  <2> QED BY <1>24, <2>2, <2>3 DEF Boot
<1>25. CASE Fault(j)
  BY <1>11, <1>25 DEF Fault, host, power
<1> QED BY <1>14, <1>15, <1>16, <1>17, <1>18, <1>19, <1>20, <1>21, <1>22, <1>23, <1>24,
           <1>25, <1>26, <1>27 DEF JobStep

-----------------------------------------------------------------------------
(* The callers begin work, and a crash ends it. *)

LEMMA ServiceBegin ==
    ASSUME Typed, NEW kind \in {"provision", "release"}, NEW x \in Machines,
           NEW i \in InstIds, NEW g \in Images \cup {NoImage},
           JobsOn(x) = {}, Schedule(kind, x, i, g), UNCHANGED <<doc, host, settled>>
    PROVE  Service!Begin(x)
<1>1. PICK j \in Jobs :
        /\ job[j] = NoJob
        /\ job' = [job EXCEPT ![j] = [kind |-> kind, machine |-> x, by |-> i,
                                      image |-> g, pc |-> "lookup", clean |-> TRUE]]
  BY DEF Schedule
<1>2. \A k \in Jobs : k # j => job'[k] = job[k]
  BY <1>1 DEF Typed, TypeOK
<1>3. /\ job'[j] = [kind |-> kind, machine |-> x, by |-> i, image |-> g, pc |-> "lookup",
                    clean |-> TRUE]
      /\ job'[j] # NoJob
  <2>1. job'[j] = [kind |-> kind, machine |-> x, by |-> i, image |-> g, pc |-> "lookup",
                   clean |-> TRUE]
    BY <1>1 DEF Typed, TypeOK
  <2>2. job'[j] \in Job BY <2>1 DEF Job, Steps
  <2> QED BY <2>1, <2>2, SpecialValues
<1>4. PICK w : w = [kind |-> kind, by |-> i, image |-> g, clean |-> TRUE]
  OBVIOUS
<1>5. Work(x)' = w
  <2>1. JobsOn(x)' = {j} BY <1>1, <1>2, <1>3 DEF JobsOn, Active
  <2>2. Work(x)' = [kind |-> job'[j].kind, by |-> job'[j].by, image |-> job'[j].image,
                    clean |-> job'[j].clean]
    BY <2>1 DEF Work
  <2>3. /\ job'[j].kind = kind /\ job'[j].by = i /\ job'[j].image = g
        /\ job'[j].clean = TRUE
    BY <1>3
  <2> QED BY <1>4, <2>2, <2>3
<1>6. ASSUME NEW y \in Machines, y # x PROVE Work(y)' = Work(y)
  <2>1. JobsOn(y)' = JobsOn(y) BY <1>1, <1>2, <1>3, <1>6 DEF JobsOn, Active
  <2>2. CASE JobsOn(y) = {} BY <2>1, <2>2 DEF Work
  <2>3. CASE JobsOn(y) # {}
    <3> DEFINE k == CHOOSE k \in JobsOn(y) : TRUE
    <3>1. k \in Jobs /\ k # j BY <1>1, <2>3 DEF JobsOn, Active
    <3>2. job'[k] = job[k] BY <1>2, <3>1
    <3> QED BY <2>1, <2>3, <3>2 DEF Work
  <2> QED BY <2>2, <2>3
<1>7. Works' = [Works EXCEPT ![x] = w]
  BY <1>5, <1>6 DEF Works
<1>8. w \in Service!Work /\ w.clean
  BY <1>4 DEF Service!Work
<1>9. ~Service!Busy(x)
  BY BusyMeans DEF Service!Busy, Works
<1> QED BY <1>7, <1>8, <1>9 DEF Service!Begin, Works, host, power

LEMMA ServiceDies ==
    ASSUME Typed, Crash
    PROVE  Service!Die
<1>1. Works' = [x \in Machines |-> NoJob]
  <2>1. \A x \in Machines : JobsOn(x)' = {} BY DEF Crash, JobsOn, Active
  <2> QED BY <2>1 DEF Works, Work
<1>2. \A x \in Machines : Service!Busy(x) <=> JobsOn(x) # {}
  BY BusyMeans DEF Service!Busy, Works
<1>3. settled' = [x \in Machines |-> IF Service!Busy(x) THEN Failed ELSE settled[x]]
  BY <1>2 DEF Crash
<1> QED BY <1>1, <1>3 DEF Service!Die, Works, Crash, host, power

LEMMA ServiceStep ==
    ASSUME CallersWait, Typed, Patient, [Next]_vars
    PROVE  [Service!Next]_<<Works, running, paused, vol, settled>>
<1>1. ASSUME NEW i \in InstIds, NEW x \in Machines, NEW g \in Images \cup {NoImage},
             Quiet(x), AllocateInstance(i, x, g)
      PROVE  Service!Next
  <2>1. Service!Begin(x) BY <1>1, ServiceBegin DEF Quiet, AllocateInstance
  <2> QED BY <2>1 DEF Service!Next
<1>2. ASSUME NEW i \in Live, Quiet(ins[i].machine), ReleaseInstance(i)
      PROVE  Service!Next
  <2>1. i \in InstIds /\ ins[i] \in Instance BY <1>2 DEF Live, Typed, TypeOK
  <2>2. PICK x \in Machines : x = ins[i].machine BY <2>1 DEF Instance
  <2>3. JobsOn(x) = {} /\ Schedule("release", x, i, NoImage) /\ UNCHANGED <<doc, host, settled>>
    BY <1>2, <2>2 DEF Quiet, ReleaseInstance
  <2>4. Service!Begin(x) BY <2>1, <2>3, ServiceBegin
  <2> QED BY <2>4 DEF Service!Next
<1>3. CASE Save \/ UNCHANGED vars
  <2>1. UNCHANGED <<job, running, paused, vol, settled>> BY <1>3 DEF Save, vars, host, power
  <2> QED BY <2>1 DEF Works, Work, JobsOn, Active
<1>4. CASE Crash
  BY <1>4, ServiceDies DEF Service!Next
<1>5. ASSUME NEW j \in Jobs, JobStep(j)
      PROVE  [Service!Next]_<<Works, running, paused, vol, settled>>
  <2>1. PICK x : x = job[j].machine OBVIOUS
  <2> QED BY <1>5, <2>1, ServiceJob
<1>6. ASSUME NEW x \in Machines, Guest(x) PROVE Service!Next
  <2>1. UNCHANGED <<Works, vol>> BY <1>6 DEF Guest, Works, Work, JobsOn, Active
  <2>2. \A y \in paused : running[y] # Off BY DEF Typed, TypeOK
  <2>3. Service!Guest(x)
    BY <1>6, <2>1, <2>2 DEF Guest, Suspend, Resume, PowerOff, Service!Guest, Works
  <2> QED BY <2>3 DEF Service!Next
<1> QED BY <1>1, <1>2, <1>3, <1>4, <1>5, <1>6 DEF Next, Call

\* For callers who wait, the jobs implement MachineService, for any number of
\* machines and instances, any failing calls, domains that are paused or end, and a
\* crash at any point: see
\* ImplementsMachineService.
THEOREM Refinement == ASSUME CallersWait PROVE Spec => ImplementsMachineService
<1>1. Init => Service!Init
  BY DEF Init, Service!Init, Work, JobsOn, Active
<1>2. Typed /\ Patient /\ [Next]_vars
        => [Service!Next]_<<[x \in Machines |-> Work(x)], running, paused, vol, settled>>
  BY ServiceStep DEF Works
<1> QED BY <1>1, <1>2, PatientAlways, PTL DEF Spec, ImplementsMachineService, Service!Spec
=============================================================================
