----------------------------- MODULE ForgeServer -----------------------------
(***************************************************************************)
(* The mock Forge server: the RPC handlers that change persisted state,    *)
(* the unary interceptor that serializes them under one mutex, the state   *)
(* file it rewrites after every mutating call, and what a crash, a         *)
(* shutdown and a restart leave of all that.                               *)
(*                                                                         *)
(* Maps are total functions whose value Absent means "no such key".  Of    *)
(* the nine persisted maps three are modelled (instances, machines,        *)
(* instance types): the others are saved and loaded by the same code.  Of  *)
(* the maps that are not persisted one is modelled (security groups).      *)
(* The provisioner is disabled here; module Provisioning adds it.         *)
(*                                                                         *)
(* An operator Bug_X is the definition X with a plausible mistake in it:   *)
(* no specification uses it, the runs show that their properties catch it. *)
(***************************************************************************)
EXTENDS Naturals, FiniteSets, Sequences

CONSTANTS
    Calls,             \* RPCs that can be in flight at the same time
    Stopper,           \* the goroutine that saves and stops on SIGTERM
    Free,              \* no owner of the mutex
    InstIds, EmptyId,  \* instance ids; the id "" (in InstIds or not)
    Machines, InventoryMachines,
    Nets, Images,      \* the two parts of an instance config that are told apart
    Types, DefaultTypes, NoType,
    Nsgs,
    Absent, NoFile, Torn,
    MaxList            \* longest id list of a FindInstancesByIds request

TenantState == {"PROVISIONING", "CONFIGURING", "READY"}

Instance == [machine : Machines, state : TenantState,
             net : Nets, image : Images, ifaces : Nets]

Machine == Types \cup {NoType}     \* the one field of a machine a handler changes

InstanceMap == [InstIds -> Instance \cup {Absent}]
MachineMap  == [Machines -> Machine \cup {Absent}]
Snapshot    == [ins : InstanceMap, m : MachineMap, it : SUBSET Types]

Owners == Calls \cup {Stopper}

ASSUME SetsAssumption ==
    /\ InventoryMachines \subseteq Machines
    /\ DefaultTypes \subseteq Types
    /\ MaxList \in Nat

ASSUME SpecialValuesAssumption ==
    /\ Absent \notin Instance /\ Absent \notin Machine /\ NoType \notin Types
    /\ NoFile # Torn /\ {NoFile, Torn, Absent} \cap Snapshot = {}
    /\ Stopper \notin Calls /\ Free \notin Owners

VARIABLES
    up,        \* the process is running and serves
    ins, m, it, nsg,   \* the maps of NICoServerImpl
    mu,        \* owner of the mutex, or Free
    pc,        \* where each RPC, and the stopper, is
    ret,       \* instances the reply of each call will show
    file, tmp, \* the state file and its ".tmp" sibling
    unsaved,   \* the last save failed (the code only logs it)
    told       \* most advanced state each live instance was reported in

data  == <<ins, m, it, nsg>>
disk  == <<file, tmp>>
vars  == <<up, ins, m, it, nsg, mu, pc, ret, file, tmp, unsaved, told>>

-----------------------------------------------------------------------------
(* The state file: exportSnapshot, applySnapshot over the inventory. *)

Rank(s) == CASE s = "PROVISIONING" -> 1 [] s = "CONFIGURING" -> 2 [] s = "READY" -> 3

\* exportSnapshot without the machines
Bug_Export == [ins |-> ins, m |-> [x \in Machines |-> Absent], it |-> it]

Export == [ins |-> ins, m |-> m, it |-> it]

Inventory == [x \in Machines |-> IF x \in InventoryMachines THEN NoType ELSE Absent]

LoadedIns(f) == [i \in InstIds |->
    IF f = NoFile \/ i = EmptyId THEN Absent ELSE f.ins[i]]

\* only the machines of the inventory are restored
Bug_LoadedM(f) == [x \in Machines |->
    IF f # NoFile /\ f.m[x] # Absent /\ x \in InventoryMachines
    THEN f.m[x] ELSE Inventory[x]]

LoadedM(f) == [x \in Machines |->
    IF f # NoFile /\ f.m[x] # Absent THEN f.m[x] ELSE Inventory[x]]

LoadedIt(f) == IF f = NoFile \/ f.it = {} THEN DefaultTypes ELSE f.it

\* NewFromInventory makes the map empty and no snapshot fills it
LoadedNsg(f) == {}

Nothing   == [i \in InstIds |-> "none"]
NoneTold  == [i \in InstIds |-> 0]
NoMemory  == /\ ins = [i \in InstIds |-> Absent]
             /\ m = [x \in Machines |-> Absent]
             /\ it = {} /\ nsg = {}

Init == /\ up = FALSE /\ NoMemory
        /\ mu = Free
        /\ pc = [o \in Owners |-> "idle"]
        /\ ret = [c \in Calls |-> Nothing]
        /\ file = NoFile /\ tmp = NoFile
        /\ unsaved = FALSE
        /\ told = NoneTold

\* Run: seed from the inventory, overlay the file; a file that does not parse
\* makes Run return the error and the process exit.
Start == /\ ~up /\ file # Torn
         /\ up' = TRUE
         /\ ins' = LoadedIns(file) /\ m' = LoadedM(file) /\ it' = LoadedIt(file)
         /\ nsg' = LoadedNsg(file)
         /\ unsaved' = FALSE
         /\ UNCHANGED <<mu, pc, ret, disk, told>>

-----------------------------------------------------------------------------
(* The interceptor. An RPC waits for the mutex, runs its handler, saves when *)
(* the method mutates and succeeded, unlocks; gRPC serializes the reply only *)
(* after that, from the objects the handler returned by pointer.             *)

\* FindInstancesByIds taken for a read-only method, as its prefix suggests
Bug_IsMutatingMethod(method) ==
    method \notin {"FindInstanceIds", "FindMachinesByIds", "FindInstancesByIds"}

IsMutatingMethod(method) ==
    method \notin {"FindInstanceIds", "FindMachinesByIds"}

Arrive(c) == /\ up /\ pc[c] = "idle" /\ pc[Stopper] # "draining"
             /\ pc' = [pc EXCEPT ![c] = "waiting"]
             /\ UNCHANGED <<up, data, mu, ret, disk, unsaved, told>>

Lock(o) == /\ up /\ mu = Free /\ pc[o] = "waiting"
           /\ mu' = o

\* The handler of c returned no error.
Succeed(c, method) ==
    /\ pc' = [pc EXCEPT ![c] = IF IsMutatingMethod(method) THEN "handled" ELSE "saved"]
    /\ UNCHANGED <<up, disk, unsaved>>

\* The handler of c returned an error: nothing is saved.
Refuse(c) == /\ pc' = [pc EXCEPT ![c] = "saved"]
             /\ UNCHANGED <<up, data, ret, disk, unsaved, told>>

Shows(c, ids) == [ret EXCEPT ![c] = [i \in InstIds |->
                                        IF i \in ids THEN "live" ELSE "none"]]

\* The map loses its object for i; replies not yet written keep the old object.
Detached(i) == [c \in Calls |->
    IF ret[c][i] = "live" THEN [ret[c] EXCEPT ![i] = ins[i].state] ELSE ret[c]]

\* the error of the write is ignored
Bug_SaveWriteIgnoresError(o) ==
    /\ pc[o] = "handled"
    /\ tmp' \in {Export, Torn} /\ pc' = [pc EXCEPT ![o] = "written"]
    /\ UNCHANGED <<up, data, mu, ret, file, unsaved, told>>

\* path itself is written, with no temp file
Bug_SaveWriteInPlace(o) ==
    /\ pc[o] = "handled"
    /\ file' \in {Export, Torn} /\ pc' = [pc EXCEPT ![o] = "saved"]
    /\ unsaved' = (file' = Torn)
    /\ UNCHANGED <<up, data, mu, ret, tmp, told>>

\* snapshot written to path.tmp
SaveWrite(o) ==
    /\ pc[o] = "handled"
    /\ \/ tmp' = Export /\ pc' = [pc EXCEPT ![o] = "written"] /\ UNCHANGED unsaved
       \/ tmp' \in {tmp, Torn} /\ pc' = [pc EXCEPT ![o] = "saved"] /\ unsaved' = TRUE
    /\ UNCHANGED <<up, data, mu, ret, file, told>>

\* the error of the rename is ignored
Bug_SaveRename(o) ==
    /\ pc[o] = "written"
    /\ pc' = [pc EXCEPT ![o] = "saved"]
    /\ tmp' = NoFile /\ file' \in {file, tmp} /\ unsaved' = FALSE
    /\ UNCHANGED <<up, data, mu, ret, told>>

\* path.tmp renamed over path
SaveRename(o) ==
    /\ pc[o] = "written"
    /\ pc' = [pc EXCEPT ![o] = "saved"]
    /\ \/ file' = tmp /\ tmp' = NoFile /\ unsaved' = FALSE
       \/ tmp' \in {NoFile, tmp} /\ unsaved' = TRUE /\ UNCHANGED file
    /\ UNCHANGED <<up, data, mu, ret, told>>

\* the shutdown goroutine keeps the mutex while GracefulStop waits
Bug_Unlock(o) == /\ pc[o] = "saved"
                 /\ mu' = IF o = Stopper THEN Stopper ELSE Free
                 /\ pc' = [pc EXCEPT ![o] = IF o = Stopper THEN "draining" ELSE "replying"]
                 /\ UNCHANGED <<up, data, ret, disk, unsaved, told>>

Unlock(o) == /\ pc[o] = "saved"
             /\ mu' = Free
             /\ pc' = [pc EXCEPT ![o] = IF o = Stopper THEN "draining" ELSE "replying"]
             /\ UNCHANGED <<up, data, ret, disk, unsaved, told>>

AtLeast(a, b) == IF a < b THEN b ELSE a

Reply(c) == /\ pc[c] = "replying"
            /\ pc' = [pc EXCEPT ![c] = "idle"]
            /\ told' = [i \in InstIds |->
                  IF ret[c][i] = "live" THEN AtLeast(told[i], Rank(ins[i].state))
                                        ELSE told[i]]
            /\ ret' = [ret EXCEPT ![c] = Nothing]
            /\ UNCHANGED <<up, data, mu, disk, unsaved>>

-----------------------------------------------------------------------------
(* Shutdown and crash. *)

\* ctx.Done: the stopper goroutine queues for the mutex, then saves.
Signal == /\ up /\ pc[Stopper] = "idle"
          /\ pc' = [pc EXCEPT ![Stopper] = "waiting"]
          /\ UNCHANGED <<up, data, mu, ret, disk, unsaved, told>>

\* the shutdown saves without the mutex
Bug_StopperSave == /\ up /\ pc[Stopper] = "waiting"
                   /\ pc' = [pc EXCEPT ![Stopper] = "handled"]
                   /\ UNCHANGED <<up, data, mu, ret, disk, unsaved, told>>

StopperSave == /\ Lock(Stopper)
               /\ pc' = [pc EXCEPT ![Stopper] = "handled"]
               /\ UNCHANGED <<up, data, ret, disk, unsaved, told>>

Gone == /\ up' = FALSE
        /\ ins' = [i \in InstIds |-> Absent] /\ m' = [x \in Machines |-> Absent]
        /\ it' = {} /\ nsg' = {}
        /\ mu' = Free
        /\ pc' = [o \in Owners |-> "idle"]
        /\ ret' = [c \in Calls |-> Nothing]
        /\ told' = NoneTold
        /\ UNCHANGED file

\* GracefulStop returned: every RPC in flight has been answered.
Exit == /\ up /\ pc[Stopper] = "draining"
        /\ \A c \in Calls : pc[c] = "idle"
        /\ Gone /\ UNCHANGED <<tmp, unsaved>>

\* The process dies at any point; a write under way leaves a torn temp file.
Crash == /\ up
         /\ Gone
         /\ \/ UNCHANGED tmp
            \/ mu # Free /\ pc[mu] = "handled" /\ tmp' = Torn
         /\ UNCHANGED unsaved

-----------------------------------------------------------------------------
(* The handlers. *)

AllocateInstance(c, i, x, net, image) ==
    /\ Lock(c)
    /\ \/ /\ ins[i] = Absent
          /\ ins' = [ins EXCEPT ![i] = [machine |-> x, state |-> "PROVISIONING",
                                        net |-> net, image |-> image, ifaces |-> net]]
          /\ m' = [m EXCEPT ![x] = IF @ = Absent THEN NoType ELSE @]
          /\ ret' = Shows(c, {i})
          /\ told' = [told EXCEPT ![i] = 0]
          /\ Succeed(c, "AllocateInstance")
          /\ UNCHANGED <<it, nsg>>
       \/ ins[i] # Absent /\ Refuse(c)

ReleaseInstance(c, i) ==
    /\ Lock(c)
    /\ \/ /\ ins[i] # Absent
          /\ ins' = [ins EXCEPT ![i] = Absent]
          /\ ret' = Detached(i)
          /\ told' = [told EXCEPT ![i] = 0]
          /\ Succeed(c, "ReleaseInstance")
          /\ UNCHANGED <<m, it, nsg>>
       \/ ins[i] = Absent /\ Refuse(c)

\* the network part is replaced too
Bug_UpdateInstanceConfig(c, i, net, image) ==
    /\ Lock(c)
    /\ \/ /\ i # EmptyId /\ ins[i] # Absent
          /\ ins' = [ins EXCEPT ![i].image = image, ![i].net = net]
          /\ ret' = Shows(c, {i})
          /\ Succeed(c, "UpdateInstanceConfig")
          /\ UNCHANGED <<m, it, nsg, told>>
       \/ (i = EmptyId \/ ins[i] = Absent) /\ Refuse(c)

\* The config is replaced except for its network part.
UpdateInstanceConfig(c, i, net, image) ==
    /\ Lock(c)
    /\ \/ /\ i # EmptyId /\ ins[i] # Absent
          /\ ins' = [ins EXCEPT ![i].image = image]
          /\ ret' = Shows(c, {i})
          /\ Succeed(c, "UpdateInstanceConfig")
          /\ UNCHANGED <<m, it, nsg, told>>
       \/ (i = EmptyId \/ ins[i] = Absent) /\ Refuse(c)

\* the last step of the lifecycle is forgotten
Bug_NextState(s) == IF s = "PROVISIONING" THEN "CONFIGURING" ELSE s

NextState(s) == CASE s = "PROVISIONING" -> "CONFIGURING"
                  [] s = "CONFIGURING"  -> "READY"
                  [] s = "READY"        -> "READY"

\* The state after n reads: an id listed n times advances n steps.
Advanced(s, n) == IF n = 0 THEN s
                  ELSE IF n = 1 THEN NextState(s) ELSE NextState(NextState(s))

Occurrences(ids, i) == Cardinality({k \in DOMAIN ids : ids[k] = i})

FindInstancesByIds(c, ids) ==
    /\ Lock(c)
    /\ ins' = [i \in InstIds |->
          IF ins[i] = Absent THEN Absent
          ELSE [ins[i] EXCEPT !.state = Advanced(@, Occurrences(ids, i))]]
    /\ ret' = Shows(c, {i \in InstIds : ins[i] # Absent /\ Occurrences(ids, i) > 0})
    /\ Succeed(c, "FindInstancesByIds")
    /\ UNCHANGED <<m, it, nsg, told>>

\* FindInstanceIds and the other pure reads.
FindInstanceIds(c) == /\ Lock(c)
                      /\ Succeed(c, "FindInstanceIds")
                      /\ UNCHANGED <<data, ret, told>>

CreateInstanceType(c, t) ==
    /\ Lock(c)
    /\ \/ /\ t \notin it
          /\ it' = it \cup {t}
          /\ Succeed(c, "CreateInstanceType")
          /\ UNCHANGED <<ins, m, nsg, ret, told>>
       \/ t \in it /\ Refuse(c)

DeleteInstanceType(c, t) ==
    /\ Lock(c)
    /\ \/ /\ t \in it
          /\ it' = it \ {t}
          /\ Succeed(c, "DeleteInstanceType")
          /\ UNCHANGED <<ins, m, nsg, ret, told>>
       \/ t \notin it /\ Refuse(c)

\* Every machine is checked before the first one is changed.
AssociateMachinesWithInstanceType(c, t, ms) ==
    /\ Lock(c)
    /\ LET allowed == t \in it /\ \A x \in ms : m[x] \in {NoType, t}
       IN \/ /\ allowed
             /\ m' = [x \in Machines |-> IF x \in ms THEN t ELSE m[x]]
             /\ Succeed(c, "AssociateMachinesWithInstanceType")
             /\ UNCHANGED <<ins, it, nsg, ret, told>>
          \/ ~allowed /\ Refuse(c)

RemoveMachineInstanceTypeAssociation(c, x) ==
    /\ Lock(c)
    /\ m' = [m EXCEPT ![x] = IF @ = Absent THEN Absent ELSE NoType]
    /\ Succeed(c, "RemoveMachineInstanceTypeAssociation")
    /\ UNCHANGED <<ins, it, nsg, ret, told>>

CreateNetworkSecurityGroup(c, g) ==
    /\ Lock(c)
    /\ \/ /\ g \notin nsg
          /\ nsg' = nsg \cup {g}
          /\ Succeed(c, "CreateNetworkSecurityGroup")
          /\ UNCHANGED <<ins, m, it, ret, told>>
       \/ g \in nsg /\ Refuse(c)

DeleteNetworkSecurityGroup(c, g) ==
    /\ Lock(c)
    /\ \/ /\ g \in nsg
          /\ nsg' = nsg \ {g}
          /\ Succeed(c, "DeleteNetworkSecurityGroup")
          /\ UNCHANGED <<ins, m, it, ret, told>>
       \/ g \notin nsg /\ Refuse(c)


IdLists == UNION {[1..n -> InstIds] : n \in 1..MaxList}

-----------------------------------------------------------------------------
Handle(c) ==
    \/ \E i \in InstIds, x \in Machines, n \in Nets, g \in Images :
          AllocateInstance(c, i, x, n, g)
    \/ \E i \in InstIds : ReleaseInstance(c, i)
    \/ \E i \in InstIds, n \in Nets, g \in Images : UpdateInstanceConfig(c, i, n, g)
    \/ \E ids \in IdLists : FindInstancesByIds(c, ids)
    \/ FindInstanceIds(c)
    \/ \E t \in Types : CreateInstanceType(c, t) \/ DeleteInstanceType(c, t)
    \/ \E t \in Types, ms \in SUBSET Machines \ {{}} :
          AssociateMachinesWithInstanceType(c, t, ms)
    \/ \E x \in Machines : RemoveMachineInstanceTypeAssociation(c, x)
    \/ \E g \in Nsgs : CreateNetworkSecurityGroup(c, g) \/ DeleteNetworkSecurityGroup(c, g)

CallStep(c) == Arrive(c) \/ Handle(c) \/ Reply(c)

OwnerStep(o) == SaveWrite(o) \/ SaveRename(o) \/ Unlock(o)

Next == \/ Start \/ Crash \/ Exit \/ Signal \/ StopperSave
        \/ \E c \in Calls : CallStep(c)
        \/ \E o \in Owners : OwnerStep(o)

Spec == Init /\ [][Next]_vars

\* Goroutines run, and Go's mutex hands itself to a waiter that has starved.
Fairness ==
    /\ \A o \in Owners : WF_vars(SaveWrite(o)) /\ WF_vars(SaveRename(o)) /\ WF_vars(Unlock(o))
    /\ \A c \in Calls : SF_vars(Handle(c)) /\ WF_vars(Reply(c))
    /\ SF_vars(StopperSave) /\ WF_vars(Exit)

FairSpec == Spec /\ Fairness

\* The site agent's inventory cron: it keeps listing every instance.
Polling == /\ \A c \in Calls : WF_vars(Arrive(c))
           /\ \A i \in InstIds : SF_vars(\E c \in Calls : FindInstancesByIds(c, <<i>>))
           /\ WF_vars(Start)

-----------------------------------------------------------------------------
(* Properties. *)

PC == {"idle", "waiting", "handled", "written", "saved", "replying", "draining"}

\* The type of every variable.
TypeOK ==
    /\ up \in BOOLEAN /\ unsaved \in BOOLEAN
    /\ ins \in InstanceMap /\ m \in MachineMap /\ it \subseteq Types /\ nsg \subseteq Nsgs
    /\ mu \in Owners \cup {Free}
    /\ pc \in [Owners -> PC]
    /\ ret \in [Calls -> [InstIds -> TenantState \cup {"none", "live"}]]
    /\ file \in Snapshot \cup {NoFile}
    /\ tmp \in Snapshot \cup {NoFile, Torn}
    /\ told \in [InstIds -> 0..3]

\* Whoever is between the handler and the unlock, in an RPC or in the shutdown
\* goroutine, is the one owner of the mutex: two saves never share path.tmp.
OneOwner == \A o \in Owners : pc[o] \in {"handled", "written", "saved"} <=> mu = o

\* What a crash right now, followed by a restart, would bring back: with the
\* mutex free and the last save not failed, exactly the instances, machines
\* and types in memory.  Excepted: the instance with the empty id, which the
\* load skips, and an emptied type table, which the start refills.
NothingToLose ==
    up /\ mu = Free /\ ~unsaved =>
        /\ \A i \in InstIds \ {EmptyId} : LoadedIns(file)[i] = ins[i]
        /\ LoadedM(file) = m
        /\ it # {} => LoadedIt(file) = it

Dirty == mu # Free /\ pc[mu] \in {"handled", "written"}

Durable(i) == IF LoadedIns(file)[i] = Absent THEN 0 ELSE Rank(LoadedIns(file)[i].state)

\* A tenant state some client has been told is on disk, so that no restart can
\* take it back, unless a save failed or a call is between handler and rename.
ToldIsDurable ==
    \A i \in InstIds \ {EmptyId} :
        told[i] > Durable(i) => unsaved \/ Dirty

\* The same without the second excuse: what a client was told is never lost by
\* a crash if saves work.  A call alone keeps it; a reply that is serialized
\* after the unlock, from objects the next call is changing, breaks it.
ToldIsAlwaysDurable ==
    \A i \in InstIds \ {EmptyId} : told[i] > Durable(i) => unsaved

\* Every instance runs on a machine the server knows, in memory and in the
\* file that a restart would load.
InstanceMachineKnown ==
    \A i \in InstIds :
        /\ ins[i] # Absent => m[ins[i].machine] # Absent
        /\ LoadedIns(file)[i] # Absent => LoadedM(file)[LoadedIns(file)[i].machine] # Absent

\* A config update, before or after a restart, leaves the interfaces of the
\* config aligned with those of the status.
NetworkAligned == \A i \in InstIds : ins[i] # Absent => ins[i].net = ins[i].ifaces

\* Memory as the abstract state sees it: down, or what a snapshot would hold.
Memory == IF up THEN Export ELSE Absent

RecoverMemory(f) == [ins |-> LoadedIns(f), m |-> LoadedM(f), it |-> LoadedIt(f)]

Abstract == INSTANCE DurableState WITH
    States <- Snapshot, Down <- Absent, Empty <- NoFile, Recover <- RecoverMemory,
    mem <- Memory, saved <- file, dirty <- Dirty

\* The interceptor, the temp file and the rename implement DurableState.
ImplementsDurableState == Abstract!Spec

\* The state-file flag's promise without any exception: what clients changed,
\* acknowledged and saved, is what a restart brings back.  The code breaks it
\* for tables that are in no snapshot, for an emptied table of instance types,
\* and for the instance with the empty id.
StateSurvivesRestart ==
    up /\ mu = Free /\ ~unsaved =>
        /\ LoadedIns(file) = ins /\ LoadedM(file) = m
        /\ LoadedIt(file) = it /\ LoadedNsg(file) = nsg

\* Every RPC that queued for the mutex is answered, unless the process dies.
EveryCallAnswered == \A c \in Calls : pc[c] = "waiting" ~> pc[c] = "idle"

\* Once signalled the process stops, whatever RPCs are queued.
ShutdownCompletes == pc[Stopper] = "waiting" ~> ~up

\* A client that keeps listing every instance, and a process that is started
\* again and finally stays up: an instance becomes READY or is released.
ReadyOrGone ==
    Polling /\ <>[]up =>
        \A i \in InstIds : ins[i] # Absent ~> ins[i] = Absent \/ ins[i].state = "READY"
=============================================================================
