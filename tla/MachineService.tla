--------------------------- MODULE MachineService ---------------------------
(***************************************************************************)
(* What the provisioner promises of a machine to callers who wait, without *)
(* goroutines, libvirt calls and documents.  One piece of work at a time   *)
(* is done on a machine.  The only steps that start its domain are those   *)
(* that report a provision done; no step changes the root volume of a live *)
(* domain, except those of work that has passed over an error or a paused  *)
(* domain; and a crash, or an error, changes neither.                      *)
(***************************************************************************)
CONSTANTS Machines, InstIds, Images, NoImage, NoWork, Off, Original, NoVolume, Failed

Work == [kind : {"provision", "release"}, by : InstIds,
         image : Images \cup {NoImage}, clean : BOOLEAN]

VARIABLES work,     \* what is being done on a machine, or NoWork
          running,  \* what its domain was booted from, or Off
          paused,   \* the machines whose domain is alive and does not run
          vol,      \* its root volume
          settled   \* the work that ended last, or Failed

Init == /\ work = [x \in Machines |-> NoWork]
        /\ running \in [Machines -> {Off, Original}] /\ paused = {}
        /\ vol = [x \in Machines |-> NoVolume]
        /\ settled = [x \in Machines |-> Failed]

Busy(x) == work[x] # NoWork

\* A provision that brings an image, and one that takes the machine as it is.
Imaging(x) == Busy(x) /\ work[x].kind = "provision" /\ work[x].image \in Images
Adopting(x) == Busy(x) /\ work[x].kind = "provision" /\ work[x].image = NoImage
Releasing(x) == Busy(x) /\ work[x].kind = "release"

RootVolume(x, whole) == [image |-> work[x].image, by |-> work[x].by, whole |-> whole]

\* Clean work touches the volume only of a domain that is off.
Free(x) == work[x].clean => running[x] = Off

\* The same work, which has passed over an error or a paused domain.
Unclean(w) == [kind |-> w.kind, by |-> w.by, image |-> w.image, clean |-> FALSE]

Begin(x) == /\ ~Busy(x)
            /\ \E w \in Work : w.clean /\ work' = [work EXCEPT ![x] = w]
            /\ UNCHANGED <<running, paused, vol, settled>>

\* A release logs an error and goes on; any work goes on beside a paused domain.
PassOver(x) == /\ Releasing(x) \/ (Imaging(x) /\ x \in paused)
               /\ work' = [work EXCEPT ![x] = Unclean(work[x])]
               /\ UNCHANGED <<running, paused, vol, settled>>

Stop(x) == /\ Imaging(x) \/ Releasing(x)
           /\ running' = [running EXCEPT ![x] = Off] /\ paused' = paused \ {x}
           /\ UNCHANGED <<work, vol, settled>>

Wipe(x) == /\ Imaging(x) \/ Releasing(x)
           /\ Free(x)
           /\ vol' = [vol EXCEPT ![x] = NoVolume]
           /\ UNCHANGED <<work, running, paused, settled>>

Write(x) == /\ Imaging(x) /\ Free(x)
            /\ \E whole \in BOOLEAN : vol' = [vol EXCEPT ![x] = RootVolume(x, whole)]
            /\ UNCHANGED <<work, running, paused, settled>>

End(x, outcome) == /\ work' = [work EXCEPT ![x] = NoWork]
                   /\ settled' = [settled EXCEPT ![x] = outcome]

\* The domain starts from the volume that was written for it, and from no other.
Boot(x) == /\ Imaging(x) /\ running[x] = Off /\ vol[x] = RootVolume(x, TRUE)
           /\ running' = [running EXCEPT ![x] = vol[x]]
           /\ End(x, work[x])
           /\ UNCHANGED <<paused, vol>>

\* The domain that was passed over has been resumed: it is taken for the new one.
Mistake(x) == /\ Imaging(x) /\ ~work[x].clean
              /\ running[x] # Off /\ x \notin paused
              /\ End(x, work[x])
              /\ UNCHANGED <<running, paused, vol>>

\* It runs, or starts from what it has.
Adopt(x) == /\ Adopting(x)
            /\ \/ running[x] # Off /\ x \notin paused /\ UNCHANGED running
               \/ /\ running[x] = Off
                  /\ \E source \in {Original} \cup ({vol[x]} \ {NoVolume}) :
                        running' = [running EXCEPT ![x] = source]
            /\ End(x, work[x])
            /\ UNCHANGED <<paused, vol>>

\* Clean, it leaves the machine off and empty.
Release(x) == /\ Releasing(x)
              /\ work[x].clean => running[x] = Off /\ vol[x] = NoVolume
              /\ End(x, work[x])
              /\ UNCHANGED <<running, paused, vol>>

\* An error ends the work; what it had written may be taken back.
Abandon(x) == /\ Busy(x)
              /\ \/ UNCHANGED vol
                 \/ /\ Imaging(x) /\ Free(x)
                    /\ vol' = [vol EXCEPT ![x] = NoVolume]
              /\ End(x, Failed)
              /\ UNCHANGED <<running, paused>>

\* The process dies, and with it all work under way.
Die == /\ work' = [x \in Machines |-> NoWork]
       /\ settled' = [x \in Machines |-> IF Busy(x) THEN Failed ELSE settled[x]]
       /\ UNCHANGED <<running, paused, vol>>

\* The domain is paused, resumed or ends, and nobody asked the provisioner.
Guest(x) == /\ \/ /\ running[x] # Off
                  /\ paused' \in {paused \cup {x}, paused \ {x}}
                  /\ UNCHANGED <<running, settled>>
               \/ /\ running' = [running EXCEPT ![x] = Off] /\ paused' = paused \ {x}
                  /\ settled' = [settled EXCEPT ![x] = Failed]
            /\ UNCHANGED <<work, vol>>

Next == \/ Die
        \/ \E x \in Machines :
              \/ Begin(x) \/ PassOver(x) \/ Stop(x) \/ Wipe(x) \/ Write(x) \/ Boot(x)
              \/ Mistake(x) \/ Adopt(x) \/ Release(x) \/ Abandon(x) \/ Guest(x)

Spec == Init /\ [][Next]_<<work, running, paused, vol, settled>>
=============================================================================
