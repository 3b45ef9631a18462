-------------------------- MODULE ForgeServerProofs --------------------------
(***************************************************************************)
(* Proofs about ForgeServer, for every set of calls, ids, machines, types  *)
(* and groups.                                                             *)
(***************************************************************************)
EXTENDS ForgeServer, TLAPS

(* A reply that will be read from a live object has an object to read. *)
LiveReplies == \A c \in Calls, i \in InstIds : ret[c][i] = "live" => ins[i] # Absent

(* The owner about to rename has written the snapshot of the memory of now. *)
WrittenIsExport == \A o \in Owners : pc[o] = "written" => tmp = Export

(* A process that is not running holds nothing. *)
DownIsIdle == ~up => /\ mu = Free /\ \A o \in Owners : pc[o] = "idle"
                     /\ \A c \in Calls, i \in InstIds : ret[c][i] # "live"

Struct == TypeOK /\ OneOwner /\ LiveReplies /\ WrittenIsExport /\ DownIsIdle

-----------------------------------------------------------------------------
(* The step of a handler: what Succeed and Refuse have in common. *)

LEMMA RankType == \A s \in TenantState : Rank(s) \in 1..3
  BY DEF TenantState, Rank

LEMMA AdvancedType ==
  ASSUME NEW s \in TenantState, NEW n PROVE Advanced(s, n) \in TenantState
  BY DEF TenantState, Advanced, NextState

LEMMA InventoryType == Inventory \in MachineMap
  BY SetsAssumption DEF Inventory, MachineMap, Machine

LEMMA LoadedType ==
  ASSUME NEW f \in Snapshot \cup {NoFile}
  PROVE  /\ LoadedIns(f) \in InstanceMap
         /\ LoadedM(f) \in MachineMap
         /\ LoadedIt(f) \subseteq Types
  <1>1. CASE f = NoFile
    BY <1>1, InventoryType, SetsAssumption
    DEF LoadedIns, LoadedM, LoadedIt, InstanceMap, MachineMap
  <1>2. CASE f # NoFile
    <2>1. f.ins \in InstanceMap /\ f.m \in MachineMap /\ f.it \subseteq Types
      BY <1>2 DEF Snapshot
    <2> QED BY <1>2, <2>1, InventoryType, SetsAssumption
        DEF LoadedIns, LoadedM, LoadedIt, InstanceMap, MachineMap
  <1> QED BY <1>1, <1>2

LEMMA ExportType == TypeOK => Export \in Snapshot
  BY DEF TypeOK, Export, Snapshot

(* ins, m, it, nsg keep their types under every handler. *)
LEMMA HandleData ==
  ASSUME TypeOK, NEW c \in Calls, Handle(c)
  PROVE  ins' \in InstanceMap /\ m' \in MachineMap /\ it' \subseteq Types /\ nsg' \subseteq Nsgs
  <1> USE DEF TypeOK, InstanceMap, MachineMap, Machine, Lock, Refuse, data
  <1>1. ASSUME NEW i \in InstIds, NEW x \in Machines, NEW n \in Nets, NEW g \in Images,
               AllocateInstance(c, i, x, n, g)
        PROVE  ins' \in InstanceMap /\ m' \in MachineMap /\ it' \subseteq Types /\ nsg' \subseteq Nsgs
    <2>1. CASE ins[i] = Absent
      <3>1. [machine |-> x, state |-> "PROVISIONING", net |-> n, image |-> g,
             ifaces |-> n] \in Instance
        BY DEF Instance, TenantState
      <3> HIDE DEF Refuse
      <3>2. /\ ins' = [ins EXCEPT ![i] = [machine |-> x, state |-> "PROVISIONING",
                                          net |-> n, image |-> g, ifaces |-> n]]
            /\ m' = [m EXCEPT ![x] = IF @ = Absent THEN NoType ELSE @]
            /\ UNCHANGED <<it, nsg>>
        BY <1>1, <2>1 DEF AllocateInstance
      <3> HIDE DEF Lock
      <3> QED BY <3>1, <3>2
    <2>2. CASE ins[i] # Absent
      BY <1>1, <2>2 DEF AllocateInstance
    <2> QED BY <2>1, <2>2
  <1>2. ASSUME NEW i \in InstIds, ReleaseInstance(c, i)
        PROVE  ins' \in InstanceMap /\ m' \in MachineMap /\ it' \subseteq Types /\ nsg' \subseteq Nsgs
    BY <1>2 DEF ReleaseInstance
  <1>3. ASSUME NEW i \in InstIds, NEW n \in Nets, NEW g \in Images,
               UpdateInstanceConfig(c, i, n, g)
        PROVE  ins' \in InstanceMap /\ m' \in MachineMap /\ it' \subseteq Types /\ nsg' \subseteq Nsgs
    <2>1. CASE ins[i] # Absent
      <3>1. [ins[i] EXCEPT !.image = g] \in Instance
        BY <2>1 DEF Instance
      <3>2. /\ ins' = ins \/ ins' = [ins EXCEPT ![i].image = g]
            /\ UNCHANGED <<m, it, nsg>>
        BY <1>3 DEF UpdateInstanceConfig
      <3> QED BY <3>1, <3>2
    <2>2. CASE ins[i] = Absent
      BY <1>3, <2>2 DEF UpdateInstanceConfig
    <2> QED BY <2>1, <2>2
  <1>4. ASSUME NEW ids \in IdLists, FindInstancesByIds(c, ids)
        PROVE  ins' \in InstanceMap /\ m' \in MachineMap /\ it' \subseteq Types /\ nsg' \subseteq Nsgs
    <2>1. \A i \in InstIds : ins[i] # Absent =>
             [ins[i] EXCEPT !.state = Advanced(@, Occurrences(ids, i))] \in Instance
      BY AdvancedType DEF Instance
    <2>2. /\ ins' = [i \in InstIds |->
                      IF ins[i] = Absent THEN Absent
                      ELSE [ins[i] EXCEPT !.state = Advanced(@, Occurrences(ids, i))]]
          /\ UNCHANGED <<m, it, nsg>>
      BY <1>4 DEF FindInstancesByIds
    <2> HIDE DEF Lock, Refuse
    <2> QED BY <2>1, <2>2
  <1>5. CASE FindInstanceIds(c)
    BY <1>5 DEF FindInstanceIds
  <1>6. ASSUME NEW t \in Types, CreateInstanceType(c, t) \/ DeleteInstanceType(c, t)
        PROVE  ins' \in InstanceMap /\ m' \in MachineMap /\ it' \subseteq Types /\ nsg' \subseteq Nsgs
    BY <1>6 DEF CreateInstanceType, DeleteInstanceType
  <1>7. ASSUME NEW t \in Types, NEW ms \in SUBSET Machines,
               AssociateMachinesWithInstanceType(c, t, ms)
        PROVE  ins' \in InstanceMap /\ m' \in MachineMap /\ it' \subseteq Types /\ nsg' \subseteq Nsgs
    BY <1>7 DEF AssociateMachinesWithInstanceType
  <1>8. ASSUME NEW x \in Machines, RemoveMachineInstanceTypeAssociation(c, x)
        PROVE  ins' \in InstanceMap /\ m' \in MachineMap /\ it' \subseteq Types /\ nsg' \subseteq Nsgs
    BY <1>8 DEF RemoveMachineInstanceTypeAssociation
  <1>9. ASSUME NEW g \in Nsgs,
               CreateNetworkSecurityGroup(c, g) \/ DeleteNetworkSecurityGroup(c, g)
        PROVE  ins' \in InstanceMap /\ m' \in MachineMap /\ it' \subseteq Types /\ nsg' \subseteq Nsgs
    BY <1>9 DEF CreateNetworkSecurityGroup, DeleteNetworkSecurityGroup
  <1> QED BY <1>1, <1>2, <1>3, <1>4, <1>5, <1>6, <1>7, <1>8, <1>9 DEF Handle

(* Whatever the handler: it ran alone under the mutex, and either the call  *)
(* is about to save or the persisted maps have not changed.                *)
HandlerControl(c) ==
    /\ up /\ mu = Free /\ mu' = c /\ pc[c] = "waiting"
    /\ \/ pc' = [pc EXCEPT ![c] = "handled"]
       \/ pc' = [pc EXCEPT ![c] = "saved"] /\ UNCHANGED <<ins, m, it>>
    /\ UNCHANGED <<up, file, tmp, unsaved>>

LEMMA HandleControl ==
  ASSUME NEW c \in Calls, Handle(c)
  PROVE  HandlerControl(c)
  <1> USE DEF HandlerControl, Lock, Succeed, Refuse, IsMutatingMethod, data, disk
  <1>1. ASSUME NEW i \in InstIds, NEW x \in Machines, NEW n \in Nets, NEW g \in Images,
               AllocateInstance(c, i, x, n, g)
        PROVE  HandlerControl(c)
    BY <1>1 DEF AllocateInstance
  <1>2. ASSUME NEW i \in InstIds, ReleaseInstance(c, i)
        PROVE  HandlerControl(c)
    BY <1>2 DEF ReleaseInstance
  <1>3. ASSUME NEW i \in InstIds, NEW n \in Nets, NEW g \in Images,
               UpdateInstanceConfig(c, i, n, g)
        PROVE  HandlerControl(c)
    BY <1>3 DEF UpdateInstanceConfig
  <1>4. ASSUME NEW ids \in IdLists, FindInstancesByIds(c, ids)
        PROVE  HandlerControl(c)
    BY <1>4 DEF FindInstancesByIds
  <1>5. CASE FindInstanceIds(c)
    BY <1>5 DEF FindInstanceIds
  <1>6. ASSUME NEW t \in Types, CreateInstanceType(c, t) \/ DeleteInstanceType(c, t)
        PROVE  HandlerControl(c)
    BY <1>6 DEF CreateInstanceType, DeleteInstanceType
  <1>7. ASSUME NEW t \in Types, NEW ms \in SUBSET Machines,
               AssociateMachinesWithInstanceType(c, t, ms)
        PROVE  HandlerControl(c)
    BY <1>7 DEF AssociateMachinesWithInstanceType
  <1>8. ASSUME NEW x \in Machines, RemoveMachineInstanceTypeAssociation(c, x)
        PROVE  HandlerControl(c)
    BY <1>8 DEF RemoveMachineInstanceTypeAssociation
  <1>9. ASSUME NEW g \in Nsgs,
               CreateNetworkSecurityGroup(c, g) \/ DeleteNetworkSecurityGroup(c, g)
        PROVE  HandlerControl(c)
    BY <1>9 DEF CreateNetworkSecurityGroup, DeleteNetworkSecurityGroup
  <1> QED BY <1>1, <1>2, <1>3, <1>4, <1>5, <1>6, <1>7, <1>8, <1>9 DEF Handle

ReplyMarks == TenantState \cup {"none", "live"}

Replies == [Calls -> [InstIds -> ReplyMarks]]

(* The replies that handlers build, and detach, show objects that exist.   *)
RepliesOK == ret \in Replies /\ told \in [InstIds -> 0..3] /\ LiveReplies

LEMMA HandleReplies ==
  ASSUME TypeOK, RepliesOK, NEW c \in Calls, Handle(c)
  PROVE  RepliesOK'
  <1> USE DEF RepliesOK, Replies, LiveReplies, Lock, Refuse, data
  <1> DEFINE Same == UNCHANGED <<ins, ret, told>>
  <1>0. Same => RepliesOK'
    OBVIOUS
  <1>1. ASSUME NEW i \in InstIds, NEW x \in Machines, NEW n \in Nets, NEW g \in Images,
               AllocateInstance(c, i, x, n, g)
        PROVE  RepliesOK'
    <2>1. CASE ins[i] = Absent
      <3> DEFINE new == [machine |-> x, state |-> "PROVISIONING", net |-> n,
                         image |-> g, ifaces |-> n]
      <3>1. new \in Instance
        BY DEF Instance, TenantState
      <3>2. new # Absent
        BY <3>1, SpecialValuesAssumption
      <3>3. /\ ins' = [ins EXCEPT ![i] = new]
            /\ ret' = Shows(c, {i})
            /\ told' = [told EXCEPT ![i] = 0]
        BY <1>1, <2>1 DEF AllocateInstance
      <3>4. ins \in InstanceMap
        BY DEF TypeOK
      <3> HIDE DEF new
      <3> QED BY <3>2, <3>3, <3>4 DEF Shows, ReplyMarks, InstanceMap
    <2>2. CASE ins[i] # Absent
      BY <1>0, <1>1, <2>2 DEF AllocateInstance
    <2> QED BY <2>1, <2>2
  <1>2. ASSUME NEW i \in InstIds, ReleaseInstance(c, i)
        PROVE  RepliesOK'
    <2>1. CASE ins[i] # Absent
      <3>1. /\ ins' = [ins EXCEPT ![i] = Absent]
            /\ ret' = Detached(i)
            /\ told' = [told EXCEPT ![i] = 0]
        BY <1>2, <2>1 DEF ReleaseInstance
      <3>2. ins \in InstanceMap
        BY DEF TypeOK
      <3>3. ins[i].state \in TenantState
        BY <2>1, <3>2 DEF InstanceMap, Instance
      <3>4. ins[i].state \notin {"live", "none"}
        BY <3>3 DEF TenantState
      <3>5. ret' \in Replies
        BY <3>1, <3>3 DEF Detached, ReplyMarks
      <3>6. \A d \in Calls, j \in InstIds :
               ret'[d][j] = "live" => ret[d][j] = "live" /\ j # i
        BY <3>1, <3>4 DEF Detached
      <3>7. LiveReplies'
        BY <3>1, <3>2, <3>6 DEF InstanceMap
      <3>8. told' \in [InstIds -> 0..3]
        BY <3>1
      <3> QED BY <3>5, <3>7, <3>8
    <2>2. CASE ins[i] = Absent
      BY <1>0, <1>2, <2>2 DEF ReleaseInstance
    <2> QED BY <2>1, <2>2
  <1>3. ASSUME NEW i \in InstIds, NEW n \in Nets, NEW g \in Images,
               UpdateInstanceConfig(c, i, n, g)
        PROVE  RepliesOK'
    <2>1. CASE i # EmptyId /\ ins[i] # Absent
      <3>1. /\ ins' = [ins EXCEPT ![i].image = g]
            /\ ret' = Shows(c, {i})
            /\ UNCHANGED told
        BY <1>3, <2>1 DEF UpdateInstanceConfig
      <3>2. ins \in InstanceMap
        BY DEF TypeOK
      <3>3. [ins[i] EXCEPT !.image = g] \in Instance
        BY <2>1, <3>2 DEF InstanceMap, Instance
      <3>4. [ins[i] EXCEPT !.image = g] # Absent
        BY <3>3, SpecialValuesAssumption
      <3>5. \A j \in InstIds : ins[j] # Absent => ins'[j] # Absent
        BY <3>1, <3>2, <3>4 DEF InstanceMap
      <3> QED BY <2>1, <3>1, <3>5 DEF Shows, ReplyMarks
    <2>2. CASE ~(i # EmptyId /\ ins[i] # Absent)
      BY <1>0, <1>3, <2>2 DEF UpdateInstanceConfig
    <2> QED BY <2>1, <2>2
  <1>4. ASSUME NEW ids \in IdLists, FindInstancesByIds(c, ids)
        PROVE  RepliesOK'
    <2>1. \A j \in InstIds : ins[j] # Absent =>
            [ins[j] EXCEPT !.state = Advanced(@, Occurrences(ids, j))] \in Instance
      BY AdvancedType DEF TypeOK, InstanceMap, Instance
    <2>2. \A j \in InstIds : ins[j] # Absent => ins'[j] # Absent
      BY <1>4, <2>1, SpecialValuesAssumption DEF FindInstancesByIds
    <2>3. /\ ret' = Shows(c, {j \in InstIds : ins[j] # Absent /\ Occurrences(ids, j) > 0})
          /\ UNCHANGED told
      BY <1>4 DEF FindInstancesByIds
    <2> QED BY <2>2, <2>3 DEF Shows, ReplyMarks
  <1>5. CASE FindInstanceIds(c)
    BY <1>0, <1>5 DEF FindInstanceIds
  <1>6. ASSUME NEW t \in Types, CreateInstanceType(c, t) \/ DeleteInstanceType(c, t)
        PROVE  RepliesOK'
    BY <1>0, <1>6 DEF CreateInstanceType, DeleteInstanceType
  <1>7. ASSUME NEW t \in Types, NEW ms \in SUBSET Machines,
               AssociateMachinesWithInstanceType(c, t, ms)
        PROVE  RepliesOK'
    BY <1>0, <1>7 DEF AssociateMachinesWithInstanceType
  <1>8. ASSUME NEW x \in Machines, RemoveMachineInstanceTypeAssociation(c, x)
        PROVE  RepliesOK'
    BY <1>0, <1>8 DEF RemoveMachineInstanceTypeAssociation
  <1>9. ASSUME NEW g \in Nsgs,
               CreateNetworkSecurityGroup(c, g) \/ DeleteNetworkSecurityGroup(c, g)
        PROVE  RepliesOK'
    BY <1>0, <1>9 DEF CreateNetworkSecurityGroup, DeleteNetworkSecurityGroup
  <1> QED BY <1>1, <1>2, <1>3, <1>4, <1>5, <1>6, <1>7, <1>8, <1>9 DEF Handle

-----------------------------------------------------------------------------
(* Structure: types, the mutex, the temp file between write and rename. *)

LEMMA OwnerFacts ==
  /\ Calls \subseteq Owners /\ Stopper \in Owners /\ Free \notin Owners
  /\ \A c \in Calls : c # Stopper
  BY SpecialValuesAssumption DEF Owners

LEMMA StructInit == Init => Struct
  <1> SUFFICES ASSUME Init PROVE Struct
    OBVIOUS
  <1> USE DEF Init, NoMemory
  <1>1. TypeOK
    <2>1. ins \in InstanceMap /\ m \in MachineMap
      BY DEF InstanceMap, MachineMap
    <2>2. ret \in [Calls -> [InstIds -> TenantState \cup {"none", "live"}]]
      BY DEF Nothing
    <2>3. told \in [InstIds -> 0..3]
      BY DEF NoneTold
    <2> QED BY <2>1, <2>2, <2>3 DEF TypeOK, PC
  <1>2. OneOwner
    BY OwnerFacts DEF OneOwner
  <1>3. LiveReplies /\ WrittenIsExport /\ DownIsIdle
    BY DEF Nothing, LiveReplies, WrittenIsExport, DownIsIdle
  <1> QED BY <1>1, <1>2, <1>3 DEF Struct

LEMMA HandleStruct ==
  ASSUME Struct, NEW c \in Calls, Handle(c)
  PROVE  Struct'
  <1>1. HandlerControl(c)
    BY HandleControl
  <1>2. RepliesOK'
    <2>1. RepliesOK
      BY DEF Struct, TypeOK, RepliesOK, Replies, ReplyMarks
    <2> QED BY <2>1, HandleReplies DEF Struct
  <1>3. ins' \in InstanceMap /\ m' \in MachineMap /\ it' \subseteq Types /\ nsg' \subseteq Nsgs
    BY HandleData DEF Struct
  <1>4. TypeOK'
    BY <1>1, <1>2, <1>3, OwnerFacts
    DEF Struct, TypeOK, HandlerControl, RepliesOK, Replies, ReplyMarks, PC
  <1>5. OneOwner'
    BY <1>1, OwnerFacts DEF Struct, TypeOK, OneOwner, HandlerControl
  <1>6. WrittenIsExport'
    <2>1. \A o \in Owners : pc[o] # "written"
      BY <1>1, OwnerFacts DEF Struct, OneOwner, HandlerControl
    <2> QED BY <1>1, <2>1, OwnerFacts DEF Struct, TypeOK, WrittenIsExport, HandlerControl
  <1>7. DownIsIdle'
    BY <1>1 DEF DownIsIdle, HandlerControl
  <1> QED BY <1>2, <1>4, <1>5, <1>6, <1>7 DEF Struct, RepliesOK

LEMMA OwnerStepStruct ==
  ASSUME Struct, NEW o \in Owners, OwnerStep(o)
  PROVE  Struct'
  <1> USE DEF Struct, data, disk
  <1>1. CASE SaveWrite(o)
    <2>1. tmp' \in Snapshot \cup {NoFile, Torn}
      BY <1>1, ExportType DEF SaveWrite, TypeOK
    <2>2. mu = o
      BY <1>1 DEF SaveWrite, OneOwner
    <2>3. up
      BY <1>1 DEF SaveWrite, DownIsIdle
    <2>4. TypeOK'
      BY <1>1, <2>1 DEF SaveWrite, TypeOK, PC
    <2>5. OneOwner'
      BY <1>1, <2>2 DEF SaveWrite, OneOwner, TypeOK
    <2>6. LiveReplies'
      BY <1>1 DEF SaveWrite, LiveReplies
    <2>7. WrittenIsExport'
      BY <1>1, <2>2 DEF SaveWrite, WrittenIsExport, OneOwner, TypeOK, Export
    <2>8. DownIsIdle'
      BY <1>1, <2>3 DEF SaveWrite, DownIsIdle
    <2> QED BY <2>4, <2>5, <2>6, <2>7, <2>8
  <1>2. CASE SaveRename(o)
    <2>1. tmp \in Snapshot
      BY <1>2, ExportType DEF SaveRename, WrittenIsExport
    <2>2. mu = o
      BY <1>2 DEF SaveRename, OneOwner
    <2>3. up
      BY <1>2 DEF SaveRename, DownIsIdle
    <2>4. TypeOK'
      BY <1>2, <2>1 DEF SaveRename, TypeOK, PC
    <2>5. OneOwner'
      BY <1>2, <2>2 DEF SaveRename, OneOwner, TypeOK
    <2>6. LiveReplies'
      BY <1>2 DEF SaveRename, LiveReplies
    <2>7. WrittenIsExport'
      BY <1>2, <2>2 DEF SaveRename, WrittenIsExport, OneOwner, TypeOK
    <2>8. DownIsIdle'
      BY <1>2, <2>3 DEF SaveRename, DownIsIdle
    <2> QED BY <2>4, <2>5, <2>6, <2>7, <2>8
  <1>3. CASE Unlock(o)
    <2>1. mu = o
      BY <1>3 DEF Unlock, OneOwner
    <2>2. up
      BY <1>3 DEF Unlock, DownIsIdle
    <2>3. TypeOK'
      BY <1>3 DEF Unlock, TypeOK, PC
    <2>4. OneOwner'
      BY <1>3, <2>1, OwnerFacts DEF Unlock, OneOwner, TypeOK
    <2>5. LiveReplies'
      BY <1>3 DEF Unlock, LiveReplies
    <2>6. WrittenIsExport'
      BY <1>3 DEF Unlock, WrittenIsExport, TypeOK, Export
    <2>7. DownIsIdle'
      BY <1>3, <2>2 DEF Unlock, DownIsIdle
    <2> QED BY <2>3, <2>4, <2>5, <2>6, <2>7
  <1> QED BY <1>1, <1>2, <1>3 DEF OwnerStep

(* Leaving, by Exit or Crash, leaves an idle process and empty maps. *)
LEMMA GoneStruct ==
  ASSUME Struct, Gone, tmp' \in Snapshot \cup {NoFile, Torn}, UNCHANGED unsaved
  PROVE  Struct'
  <1> USE DEF Gone
  <1>1. TypeOK'
    <2>1. ins' \in InstanceMap /\ m' \in MachineMap
      BY DEF InstanceMap, MachineMap
    <2>2. ret' \in [Calls -> [InstIds -> TenantState \cup {"none", "live"}]]
      BY DEF Nothing
    <2>3. told' \in [InstIds -> 0..3]
      BY DEF NoneTold
    <2> QED BY <2>1, <2>2, <2>3 DEF Struct, TypeOK, PC
  <1>2. OneOwner'
    BY OwnerFacts DEF OneOwner
  <1>3. LiveReplies' /\ WrittenIsExport' /\ DownIsIdle'
    BY DEF Nothing, LiveReplies, WrittenIsExport, DownIsIdle
  <1> QED BY <1>1, <1>2, <1>3 DEF Struct

LEMMA ReplyStruct ==
  ASSUME Struct, NEW c \in Calls, Reply(c)
  PROVE  Struct'
  <1> USE DEF Struct, data, disk
  <1>1. \A i \in InstIds : ret[c][i] = "live" => Rank(ins[i].state) \in 0..3
    BY RankType DEF LiveReplies, TypeOK, InstanceMap, Instance
  <1>2. told' \in [InstIds -> 0..3]
    BY <1>1 DEF Reply, TypeOK, AtLeast
  <1>3. TypeOK'
    BY <1>2, OwnerFacts DEF Reply, TypeOK, PC, Nothing
  <1>4. OneOwner'
    BY OwnerFacts DEF Reply, OneOwner, TypeOK
  <1>5. LiveReplies'
    BY DEF Reply, LiveReplies, TypeOK, Nothing
  <1>6. WrittenIsExport' /\ DownIsIdle'
    BY OwnerFacts DEF Reply, WrittenIsExport, DownIsIdle, TypeOK, Export
  <1> QED BY <1>3, <1>4, <1>5, <1>6

LEMMA StructStep == Struct /\ [Next]_vars => Struct'
  <1> SUFFICES ASSUME Struct, [Next]_vars PROVE Struct'
    OBVIOUS
  <1> USE DEF Struct
  <1>1. CASE Start
    <2>1. mu = Free /\ \A o \in Owners : pc[o] = "idle"
      BY <1>1 DEF Start, DownIsIdle
    <2>2. file \in Snapshot \cup {NoFile}
      BY DEF TypeOK
    <2>3. TypeOK'
      BY <1>1, <2>2, LoadedType DEF Start, TypeOK, disk, LoadedNsg
    <2>4. LiveReplies'
      <3>1. \A c \in Calls, i \in InstIds : ret[c][i] # "live"
        BY <1>1 DEF Start, DownIsIdle
      <3> QED BY <1>1, <3>1 DEF Start, LiveReplies
    <2> QED BY <1>1, <2>1, <2>3, <2>4, OwnerFacts
        DEF Start, OneOwner, WrittenIsExport, DownIsIdle
  <1>2. CASE Crash
    BY <1>2, GoneStruct DEF Crash, TypeOK
  <1>3. CASE Exit
    BY <1>3, GoneStruct DEF Exit, TypeOK
  <1>4. CASE Signal
    BY <1>4, OwnerFacts DEF Signal, TypeOK, PC, OneOwner, LiveReplies, WrittenIsExport,
       DownIsIdle, data, disk, Export
  <1>5. CASE StopperSave
    <2> USE DEF StopperSave, Lock, data, disk
    <2>1. TypeOK'
      BY <1>5, OwnerFacts DEF TypeOK, PC
    <2>2. OneOwner'
      BY <1>5, OwnerFacts DEF TypeOK, OneOwner
    <2>3. LiveReplies' /\ DownIsIdle'
      BY <1>5 DEF LiveReplies, DownIsIdle
    <2>4. WrittenIsExport'
      BY <1>5, OwnerFacts DEF TypeOK, WrittenIsExport, Export
    <2> QED BY <2>1, <2>2, <2>3, <2>4
  <1>6. ASSUME NEW c \in Calls, CallStep(c) PROVE Struct'
    <2>1. CASE Arrive(c)
      BY <2>1, OwnerFacts DEF Arrive, TypeOK, PC, OneOwner, LiveReplies, WrittenIsExport,
         DownIsIdle, data, disk, Export
    <2>2. CASE Handle(c)
      BY <2>2, HandleStruct
    <2>3. CASE Reply(c)
      BY <2>3, ReplyStruct
    <2> QED BY <1>6, <2>1, <2>2, <2>3 DEF CallStep
  <1>7. ASSUME NEW o \in Owners, OwnerStep(o) PROVE Struct'
    BY <1>7, OwnerStepStruct
  <1>8. CASE UNCHANGED vars
    BY <1>8 DEF vars, TypeOK, OneOwner, LiveReplies, WrittenIsExport, DownIsIdle, Export
  <1> QED BY <1>1, <1>2, <1>3, <1>4, <1>5, <1>6, <1>7, <1>8 DEF Next

(* Every variable keeps its type, whatever the sets: see TypeOK.           *)
THEOREM TypeCorrect == Spec => []TypeOK
  <1>1. Struct => TypeOK
    BY DEF Struct
  <1> QED BY <1>1, StructInit, StructStep, PTL DEF Spec

(* Handlers, saves, unlocks and the shutdown goroutine never overlap: the  *)
(* interceptor's and the stopper's critical sections exclude one another.  *)
THEOREM MutualExclusion == Spec => []OneOwner
  <1>1. Struct => OneOwner
    BY DEF Struct
  <1> QED BY <1>1, StructInit, StructStep, PTL DEF Spec

-----------------------------------------------------------------------------
(* Durability.  NothingToLose speaks of the moments at which the mutex is  *)
(* free; between the save and the unlock the same holds, and no machine of *)
(* the inventory is ever missing, so that the overlay restores exactly m.  *)

Match == /\ \A i \in InstIds \ {EmptyId} : LoadedIns(file)[i] = ins[i]
         /\ LoadedM(file) = m
         /\ it # {} => LoadedIt(file) = it

InventoryKnown == up => \A x \in InventoryMachines : m[x] # Absent

(* An RPC, not the shutdown goroutine, has changed memory and not yet saved. *)
CallDirty == mu \in Calls /\ pc[mu] \in {"handled", "written"}

Kept == up /\ ~unsaved /\ ~CallDirty => Match

Durability == Struct /\ InventoryKnown /\ Kept

(* Handlers never remove a machine. *)
LEMMA HandleMachines ==
  ASSUME TypeOK, NEW c \in Calls, Handle(c), NEW y \in Machines, m[y] # Absent
  PROVE  m'[y] # Absent
  <1> USE SpecialValuesAssumption DEF MachineMap, Machine, Lock, Refuse, data
  <1>0. m \in MachineMap
    BY DEF TypeOK
  <1>1. ASSUME NEW i \in InstIds, NEW x \in Machines, NEW n \in Nets, NEW g \in Images,
               AllocateInstance(c, i, x, n, g)
        PROVE  m'[y] # Absent
    <2>1. m' = [m EXCEPT ![x] = IF @ = Absent THEN NoType ELSE @] \/ m' = m
      BY <1>1 DEF AllocateInstance
    <2> QED BY <1>0, <2>1
  <1>2. ASSUME NEW i \in InstIds, ReleaseInstance(c, i)
        PROVE  m'[y] # Absent
    BY <1>2 DEF ReleaseInstance
  <1>3. ASSUME NEW i \in InstIds, NEW n \in Nets, NEW g \in Images,
               UpdateInstanceConfig(c, i, n, g)
        PROVE  m'[y] # Absent
    BY <1>3 DEF UpdateInstanceConfig
  <1>4. ASSUME NEW ids \in IdLists, FindInstancesByIds(c, ids)
        PROVE  m'[y] # Absent
    BY <1>4 DEF FindInstancesByIds
  <1>5. CASE FindInstanceIds(c)
    BY <1>5 DEF FindInstanceIds
  <1>6. ASSUME NEW t \in Types, CreateInstanceType(c, t) \/ DeleteInstanceType(c, t)
        PROVE  m'[y] # Absent
    BY <1>6 DEF CreateInstanceType, DeleteInstanceType
  <1>7. ASSUME NEW t \in Types, NEW ms \in SUBSET Machines,
               AssociateMachinesWithInstanceType(c, t, ms)
        PROVE  m'[y] # Absent
    BY <1>7 DEF AssociateMachinesWithInstanceType
  <1>8. ASSUME NEW x \in Machines, RemoveMachineInstanceTypeAssociation(c, x)
        PROVE  m'[y] # Absent
    BY <1>0, <1>8 DEF RemoveMachineInstanceTypeAssociation
  <1>9. ASSUME NEW g \in Nsgs,
               CreateNetworkSecurityGroup(c, g) \/ DeleteNetworkSecurityGroup(c, g)
        PROVE  m'[y] # Absent
    BY <1>9 DEF CreateNetworkSecurityGroup, DeleteNetworkSecurityGroup
  <1> QED BY <1>1, <1>2, <1>3, <1>4, <1>5, <1>6, <1>7, <1>8, <1>9 DEF Handle

(* The snapshot of the memory restores the memory. *)
LEMMA ExportRestores ==
  ASSUME TypeOK, \A x \in InventoryMachines : m[x] # Absent
  PROVE  /\ Export # NoFile
         /\ \A i \in InstIds \ {EmptyId} : LoadedIns(Export)[i] = ins[i]
         /\ LoadedM(Export) = m
         /\ it # {} => LoadedIt(Export) = it
  <1>1. Export # NoFile
    BY ExportType, SpecialValuesAssumption
  <1>2. \A i \in InstIds \ {EmptyId} : LoadedIns(Export)[i] = ins[i]
    BY <1>1 DEF LoadedIns, Export
  <1>3. LoadedM(Export) = m
    <2>1. \A x \in Machines : m[x] = Absent => Inventory[x] = Absent
      BY DEF Inventory
    <2>2. \A x \in Machines : LoadedM(Export)[x] = m[x]
      BY <1>1, <2>1 DEF LoadedM, Export
    <2> QED BY <2>2 DEF TypeOK, MachineMap, LoadedM
  <1>4. it # {} => LoadedIt(Export) = it
    BY <1>1 DEF LoadedIt, Export
  <1> QED BY <1>1, <1>2, <1>3, <1>4

LEMMA DurabilityInit == Init => Durability
  BY StructInit DEF Init, Durability, InventoryKnown, Kept

LEMMA DurabilityStep == Durability /\ [Next]_vars => Durability'
  <1> SUFFICES ASSUME Durability, [Next]_vars PROVE InventoryKnown' /\ Kept'
    BY StructStep DEF Durability
  <1> USE DEF Durability, Struct, data, disk
  <1> DEFINE Quiet == UNCHANGED <<up, ins, m, it, file, unsaved>> /\ (CallDirty => CallDirty')
  <1>0. Quiet => InventoryKnown' /\ Kept'
    BY DEF InventoryKnown, Kept, Match, LoadedIns, LoadedM, LoadedIt
  <1>1. CASE Start
    <2>1. InventoryKnown'
      BY <1>1, SpecialValuesAssumption, SetsAssumption
      DEF Start, InventoryKnown, LoadedM, Inventory, Machine
    <2>2. Match'
      BY <1>1 DEF Start, Match, LoadedIns, LoadedM, LoadedIt
    <2> QED BY <2>1, <2>2 DEF Kept
  <1>2. CASE Crash
    BY <1>2 DEF Crash, Gone, InventoryKnown, Kept
  <1>3. CASE Exit
    BY <1>3 DEF Exit, Gone, InventoryKnown, Kept
  <1>4. CASE Signal
    <2>1. mu # Stopper
      BY <1>4, OwnerFacts DEF Signal, OneOwner
    <2> QED BY <1>0, <1>4, <2>1, OwnerFacts DEF Signal, CallDirty, TypeOK
  <1>5. CASE StopperSave
    <2>1. ~CallDirty
      BY <1>5, OwnerFacts DEF StopperSave, Lock, CallDirty
    <2> QED BY <1>0, <1>5, <2>1 DEF StopperSave
  <1>6. ASSUME NEW c \in Calls, CallStep(c) PROVE InventoryKnown' /\ Kept'
    <2>1. CASE Arrive(c)
      <3>1. mu # c
        BY <2>1, OwnerFacts DEF Arrive, OneOwner
      <3> QED BY <1>0, <2>1, <3>1, OwnerFacts DEF Arrive, CallDirty, TypeOK
    <2>2. CASE Handle(c)
      <3>1. HandlerControl(c)
        BY <2>2, HandleControl
      <3>2. InventoryKnown'
        BY <2>2, <3>1, HandleMachines, SetsAssumption DEF InventoryKnown, HandlerControl
      <3>3. CASE pc' = [pc EXCEPT ![c] = "handled"]
        <4>1. CallDirty'
          BY <3>1, <3>3, OwnerFacts DEF HandlerControl, CallDirty, TypeOK
        <4> QED BY <3>2, <4>1 DEF Kept
      <3>4. CASE pc' = [pc EXCEPT ![c] = "saved"] /\ UNCHANGED <<ins, m, it>>
        <4>1. ~CallDirty /\ ~CallDirty'
          BY <3>1, <3>4, OwnerFacts DEF HandlerControl, CallDirty, TypeOK
        <4> QED BY <1>0, <3>1, <3>4, <4>1 DEF HandlerControl
      <3> QED BY <3>1, <3>3, <3>4 DEF HandlerControl
    <2>3. CASE Reply(c)
      <3>1. mu # c
        BY <2>3, OwnerFacts DEF Reply, OneOwner
      <3> QED BY <1>0, <2>3, <3>1, OwnerFacts DEF Reply, CallDirty, TypeOK
    <2> QED BY <1>6, <2>1, <2>2, <2>3 DEF CallStep
  <1>7. ASSUME NEW o \in Owners, OwnerStep(o) PROVE InventoryKnown' /\ Kept'
    <2>1. CASE SaveWrite(o)
      <3>1. mu = o /\ UNCHANGED <<up, ins, m, it, file, mu>>
        BY <2>1 DEF SaveWrite, OneOwner
      <3>2. CASE unsaved'
        BY <3>1, <3>2 DEF InventoryKnown, Kept
      <3>3. CASE pc' = [pc EXCEPT ![o] = "written"] /\ UNCHANGED unsaved
        <4>1. CallDirty => CallDirty'
          BY <3>1, <3>3, OwnerFacts DEF CallDirty, TypeOK
        <4> QED BY <1>0, <3>1, <3>3, <4>1
      <3> QED BY <2>1, <3>2, <3>3 DEF SaveWrite
    <2>2. CASE SaveRename(o)
      <3>1. mu = o /\ up
        BY <2>2, OwnerFacts DEF SaveRename, OneOwner, DownIsIdle
      <3>2. UNCHANGED <<up, ins, m, it>>
        BY <2>2 DEF SaveRename
      <3>3. InventoryKnown'
        BY <3>2 DEF InventoryKnown
      <3>4. CASE unsaved'
        BY <3>3, <3>4 DEF Kept
      <3>5. CASE file' = tmp
        <4>1. file' = Export
          BY <2>2, <3>5 DEF SaveRename, WrittenIsExport
        <4>2. Match'
          BY <3>1, <3>2, <4>1, ExportRestores
          DEF InventoryKnown, Match, LoadedIns, LoadedM, LoadedIt
        <4> QED BY <3>3, <4>2 DEF Kept
      <3> QED BY <2>2, <3>4, <3>5 DEF SaveRename
    <2>3. CASE Unlock(o)
      <3>1. mu = o /\ ~CallDirty
        BY <2>3, OwnerFacts DEF Unlock, OneOwner, CallDirty
      <3>2. ~CallDirty'
        BY <2>3, OwnerFacts DEF Unlock, CallDirty
      <3> QED BY <1>0, <2>3, <3>1, <3>2 DEF Unlock
    <2> QED BY <1>7, <2>1, <2>2, <2>3 DEF OwnerStep
  <1>8. CASE UNCHANGED vars
    BY <1>0, <1>8 DEF vars, CallDirty
  <1> QED BY <1>1, <1>2, <1>3, <1>4, <1>5, <1>6, <1>7, <1>8 DEF Next

(* A crash while no RPC is being handled, followed by a restart, brings    *)
(* back the instances, machines and types of before: see NothingToLose.    *)
THEOREM CrashLosesNothing == Spec => []NothingToLose
  <1>1. Durability => NothingToLose
    BY OwnerFacts DEF Durability, Kept, Match, NothingToLose, CallDirty
  <1> QED BY <1>1, DurabilityInit, DurabilityStep, PTL DEF Spec

-----------------------------------------------------------------------------
(* Instances from handler to handler.  A handler removes the instance,     *)
(* makes it anew, or keeps its machine and its network part and takes its  *)
(* state no step back; what clients were told is forgotten with it.        *)

Removed(j) == told'[j] = 0 /\ ins'[j] = Absent

Made(j) == /\ told'[j] = 0 /\ ins'[j] # Absent
           /\ ins'[j].net = ins'[j].ifaces /\ m'[ins'[j].machine] # Absent

Still(j) == told'[j] = told[j] /\ ins[j] = Absent /\ ins'[j] = Absent

GoesOn(j) == /\ told'[j] = told[j] /\ ins[j] # Absent /\ ins'[j] # Absent
             /\ ins'[j].machine = ins[j].machine
             /\ ins'[j].net = ins[j].net /\ ins'[j].ifaces = ins[j].ifaces
             /\ Rank(ins[j].state) <= Rank(ins'[j].state)

InstanceStep(j) == Removed(j) \/ Made(j) \/ Still(j) \/ GoesOn(j)

LEMMA AdvancedRank ==
  ASSUME NEW s \in TenantState, NEW n PROVE Rank(s) <= Rank(Advanced(s, n))
  BY DEF TenantState, Advanced, NextState, Rank

LEMMA SameInstance ==
  ASSUME TypeOK, NEW j \in InstIds, ins'[j] = ins[j], told'[j] = told[j]
  PROVE  InstanceStep(j)
  <1>1. CASE ins[j] = Absent
    BY <1>1 DEF InstanceStep, Still
  <1>2. CASE ins[j] # Absent
    <2>1. Rank(ins[j].state) \in 1..3
      BY <1>2, RankType DEF TypeOK, InstanceMap, Instance
    <2> QED BY <1>2, <2>1 DEF InstanceStep, GoesOn
  <1> QED BY <1>1, <1>2

LEMMA HandleInstances ==
  ASSUME TypeOK, NEW c \in Calls, Handle(c), NEW j \in InstIds
  PROVE  InstanceStep(j)
  <1> USE DEF Refuse, data
  <1>0. UNCHANGED <<ins, told>> => InstanceStep(j)
    BY SameInstance
  <1>a. ins \in InstanceMap /\ m \in MachineMap /\ told \in [InstIds -> 0..3]
    BY DEF TypeOK
  <1>1. ASSUME NEW i \in InstIds, NEW x \in Machines, NEW n \in Nets, NEW g \in Images,
               AllocateInstance(c, i, x, n, g)
        PROVE  InstanceStep(j)
    <2>1. CASE ins[i] = Absent
      <3> DEFINE new == [machine |-> x, state |-> "PROVISIONING", net |-> n,
                         image |-> g, ifaces |-> n]
      <3>1. new \in Instance
        BY DEF Instance, TenantState
      <3>2. new # Absent /\ new.net = new.ifaces /\ new.machine = x
        BY <3>1, SpecialValuesAssumption
      <3>3. /\ ins' = [ins EXCEPT ![i] = new] /\ told' = [told EXCEPT ![i] = 0]
            /\ m' = [m EXCEPT ![x] = IF @ = Absent THEN NoType ELSE @]
        BY <1>1, <2>1 DEF AllocateInstance
      <3>4. NoType # Absent
        BY SpecialValuesAssumption DEF Machine
      <3>5. m'[x] # Absent
        BY <1>a, <3>3, <3>4 DEF MachineMap
      <3> HIDE DEF new
      <3>6. CASE j = i
        <4>1. ins'[j] = new /\ told'[j] = 0
          BY <1>a, <3>3, <3>6 DEF InstanceMap
        <4> QED BY <3>2, <3>5, <4>1 DEF InstanceStep, Made
      <3>7. CASE j # i
        BY <1>a, <3>3, <3>7, SameInstance DEF InstanceMap
      <3> QED BY <3>6, <3>7
    <2>2. CASE ins[i] # Absent
      BY <1>0, <1>1, <2>2 DEF AllocateInstance
    <2> QED BY <2>1, <2>2
  <1>2. ASSUME NEW i \in InstIds, ReleaseInstance(c, i)
        PROVE  InstanceStep(j)
    <2>1. CASE ins[i] # Absent
      <3>1. ins' = [ins EXCEPT ![i] = Absent] /\ told' = [told EXCEPT ![i] = 0]
        BY <1>2, <2>1 DEF ReleaseInstance
      <3>2. CASE j = i
        BY <1>a, <3>1, <3>2 DEF InstanceStep, Removed, InstanceMap
      <3>3. CASE j # i
        BY <1>a, <3>1, <3>3, SameInstance DEF InstanceMap
      <3> QED BY <3>2, <3>3
    <2>2. CASE ins[i] = Absent
      BY <1>0, <1>2, <2>2 DEF ReleaseInstance
    <2> QED BY <2>1, <2>2
  <1>3. ASSUME NEW i \in InstIds, NEW n \in Nets, NEW g \in Images,
               UpdateInstanceConfig(c, i, n, g)
        PROVE  InstanceStep(j)
    <2>1. CASE i # EmptyId /\ ins[i] # Absent
      <3>1. ins' = [ins EXCEPT ![i].image = g] /\ UNCHANGED told
        BY <1>3, <2>1 DEF UpdateInstanceConfig
      <3>2. CASE j = i
        <4>1. ins[i] \in Instance
          BY <1>a, <2>1 DEF InstanceMap
        <4>2. ins'[j] = [ins[i] EXCEPT !.image = g]
          BY <1>a, <3>1, <3>2 DEF InstanceMap
        <4>3. [ins[i] EXCEPT !.image = g] \in Instance
          BY <4>1 DEF Instance
        <4>4. ins'[j] # Absent
          BY <4>2, <4>3, SpecialValuesAssumption
        <4>5. Rank(ins[i].state) \in 1..3
          BY <4>1, RankType DEF Instance
        <4> QED BY <2>1, <3>1, <3>2, <4>1, <4>2, <4>4, <4>5
            DEF InstanceStep, GoesOn, Instance
      <3>3. CASE j # i
        BY <1>a, <3>1, <3>3, SameInstance DEF InstanceMap
      <3> QED BY <3>2, <3>3
    <2>2. CASE ~(i # EmptyId /\ ins[i] # Absent)
      BY <1>0, <1>3, <2>2 DEF UpdateInstanceConfig
    <2> QED BY <2>1, <2>2
  <1>4. ASSUME NEW ids \in IdLists, FindInstancesByIds(c, ids)
        PROVE  InstanceStep(j)
    <2> DEFINE n == Occurrences(ids, j)
    <2>1. UNCHANGED told /\ ins'[j] = IF ins[j] = Absent THEN Absent
             ELSE [ins[j] EXCEPT !.state = Advanced(@, n)]
      BY <1>4 DEF FindInstancesByIds
    <2> HIDE DEF n
    <2>2. CASE ins[j] = Absent
      BY <2>1, <2>2, SameInstance
    <2>3. CASE ins[j] # Absent
      <3>1. ins[j] \in Instance
        BY <1>a, <2>3 DEF InstanceMap
      <3>2. ins[j].state \in TenantState /\ Advanced(ins[j].state, n) \in TenantState
        BY <3>1, AdvancedType DEF Instance
      <3>3. Rank(ins[j].state) <= Rank(Advanced(ins[j].state, n))
        BY <3>2, AdvancedRank
      <3>4. ins'[j] = [ins[j] EXCEPT !.state = Advanced(ins[j].state, n)]
        BY <2>1, <2>3
      <3>5. ins'[j] \in Instance
        BY <3>1, <3>2, <3>4 DEF Instance
      <3>6. ins'[j] # Absent
        BY <3>5, SpecialValuesAssumption
      <3> QED BY <2>1, <2>3, <3>1, <3>3, <3>4, <3>6 DEF InstanceStep, GoesOn, Instance
    <2> QED BY <2>2, <2>3
  <1>5. CASE FindInstanceIds(c)
    BY <1>0, <1>5 DEF FindInstanceIds
  <1>6. ASSUME NEW t \in Types, CreateInstanceType(c, t) \/ DeleteInstanceType(c, t)
        PROVE  InstanceStep(j)
    BY <1>0, <1>6 DEF CreateInstanceType, DeleteInstanceType
  <1>7. ASSUME NEW t \in Types, NEW ms \in SUBSET Machines,
               AssociateMachinesWithInstanceType(c, t, ms)
        PROVE  InstanceStep(j)
    BY <1>0, <1>7 DEF AssociateMachinesWithInstanceType
  <1>8. ASSUME NEW x \in Machines, RemoveMachineInstanceTypeAssociation(c, x)
        PROVE  InstanceStep(j)
    BY <1>0, <1>8 DEF RemoveMachineInstanceTypeAssociation
  <1>9. ASSUME NEW g \in Nsgs,
               CreateNetworkSecurityGroup(c, g) \/ DeleteNetworkSecurityGroup(c, g)
        PROVE  InstanceStep(j)
    BY <1>0, <1>9 DEF CreateNetworkSecurityGroup, DeleteNetworkSecurityGroup
  <1> QED BY <1>1, <1>2, <1>3, <1>4, <1>5, <1>6, <1>7, <1>8, <1>9 DEF Handle

-----------------------------------------------------------------------------
(* Instances fit their machines and their interfaces, in memory and in     *)
(* what the file would bring back: a restart reads only what was once in   *)
(* memory, so the two go together.                                         *)

Fitting(i) == ins[i] # Absent => m[ins[i].machine] # Absent /\ ins[i].net = ins[i].ifaces

FittingFile(i) ==
    LET f == LoadedIns(file)[i]
    IN  f # Absent => LoadedM(file)[f.machine] # Absent /\ f.net = f.ifaces

Fit == Struct /\ \A i \in InstIds : Fitting(i) /\ FittingFile(i)

LEMMA FitInit == Init => Fit
  BY StructInit DEF Init, NoMemory, Fit, Fitting, FittingFile, LoadedIns

LEMMA FitStep == Fit /\ [Next]_vars => Fit'
  <1> SUFFICES ASSUME Fit, [Next]_vars, NEW i \in InstIds
               PROVE  Fitting(i)' /\ FittingFile(i)'
    BY StructStep DEF Fit
  <1> USE DEF Fit, Struct, data, disk
  <1>0. UNCHANGED <<ins, m, file>> => Fitting(i)' /\ FittingFile(i)'
    BY DEF Fitting, FittingFile, LoadedIns, LoadedM
  <1>a. UNCHANGED file => FittingFile(i)'
    BY DEF FittingFile, LoadedIns, LoadedM
  <1>1. CASE Start
    BY <1>1, <1>a DEF Start, Fitting, FittingFile
  <1>2. CASE Crash \/ Exit
    BY <1>2, <1>a DEF Crash, Exit, Gone, Fitting
  <1>3. CASE Signal \/ StopperSave
    BY <1>0, <1>3 DEF Signal, StopperSave
  <1>4. ASSUME NEW c \in Calls, CallStep(c) PROVE Fitting(i)' /\ FittingFile(i)'
    <2>1. CASE Handle(c)
      <3>1. InstanceStep(i)
        BY <2>1, HandleInstances
      <3>2. FittingFile(i)'
        BY <1>a, <2>1, HandleControl DEF HandlerControl
      <3>3. CASE Removed(i) \/ Made(i) \/ Still(i)
        BY <3>2, <3>3 DEF Removed, Made, Still, Fitting
      <3>4. CASE GoesOn(i)
        <4>1. ins[i].machine \in Machines /\ m[ins[i].machine] # Absent
          BY <3>4 DEF GoesOn, Fitting, TypeOK, InstanceMap, Instance
        <4>2. m'[ins[i].machine] # Absent
          BY <2>1, <4>1, HandleMachines
        <4> QED BY <3>2, <3>4, <4>2 DEF GoesOn, Fitting
      <3> QED BY <3>1, <3>3, <3>4 DEF InstanceStep
    <2>2. CASE Arrive(c) \/ Reply(c)
      BY <1>0, <2>2 DEF Arrive, Reply
    <2> QED BY <1>4, <2>1, <2>2 DEF CallStep
  <1>5. ASSUME NEW o \in Owners, OwnerStep(o) PROVE Fitting(i)' /\ FittingFile(i)'
    <2>1. CASE SaveWrite(o) \/ Unlock(o)
      BY <1>0, <2>1 DEF SaveWrite, Unlock
    <2>2. CASE SaveRename(o)
      <3>1. UNCHANGED <<ins, m>>
        BY <2>2 DEF SaveRename
      <3>2. CASE UNCHANGED file
        BY <1>0, <3>1, <3>2
      <3>3. CASE file' = tmp
        <4>1. file' = Export /\ Export # NoFile
          BY <2>2, <3>3, ExportType, SpecialValuesAssumption DEF SaveRename, WrittenIsExport
        <4>2. LoadedIns(file)'[i] \in {Absent, ins[i]}
          BY <4>1 DEF LoadedIns, Export
        <4>3. \A x \in Machines : m[x] # Absent => LoadedM(file)'[x] # Absent
          BY <4>1 DEF LoadedM, Export
        <4>4. ins[i] # Absent => ins[i].machine \in Machines
          BY DEF TypeOK, InstanceMap, Instance
        <4> QED BY <3>1, <4>2, <4>3, <4>4 DEF Fitting, FittingFile
      <3> QED BY <2>2, <3>2, <3>3 DEF SaveRename
    <2> QED BY <1>5, <2>1, <2>2 DEF OwnerStep
  <1>6. CASE UNCHANGED vars
    BY <1>0, <1>6 DEF vars
  <1> QED BY <1>1, <1>2, <1>3, <1>4, <1>5, <1>6 DEF Next

(* No instance, in memory or restored, is on a machine the server does not *)
(* know: see InstanceMachineKnown.                                         *)
THEOREM InstancesHaveMachines == Spec => []InstanceMachineKnown
  <1>1. Fit => InstanceMachineKnown
    BY DEF Fit, Fitting, FittingFile, InstanceMachineKnown
  <1> QED BY <1>1, FitInit, FitStep, PTL DEF Spec

(* Config updates, and restarts between them, keep the interfaces of an    *)
(* instance and those its status shows aligned: see NetworkAligned.        *)
THEOREM NetworkStaysAligned == Spec => []NetworkAligned
  <1>1. Fit => NetworkAligned
    BY DEF Fit, Fitting, NetworkAligned
  <1> QED BY <1>1, FitInit, FitStep, PTL DEF Spec

-----------------------------------------------------------------------------
(* What clients were told.  Replies are read from live objects, so that    *)
(* no client has heard more than memory holds (Heard); and memory, by      *)
(* Kept, is what the file restores whenever no RPC is between its handler  *)
(* and its rename.                                                         *)

Holds(i) == IF ins[i] = Absent THEN 0 ELSE Rank(ins[i].state)

Heard == /\ up => \A i \in InstIds : told[i] <= Holds(i)
         /\ ~up => told = NoneTold

Told == Durability /\ Heard

LEMMA HoldsType == ASSUME TypeOK, NEW i \in InstIds PROVE Holds(i) \in 0..3
  BY RankType DEF Holds, TypeOK, InstanceMap, Instance

LEMMA DurableType == ASSUME TypeOK, NEW i \in InstIds PROVE Durable(i) \in 0..3
  <1>1. LoadedIns(file) \in InstanceMap
    BY LoadedType DEF TypeOK
  <1> QED BY <1>1, RankType DEF Durable, InstanceMap, Instance

LEMMA ToldInit == Init => Told
  BY DurabilityInit DEF Init, Told, Heard

LEMMA ToldStep == Told /\ [Next]_vars => Told'
  <1> SUFFICES ASSUME Told, [Next]_vars PROVE Heard'
    BY DurabilityStep DEF Told
  <1> USE DEF Told, Durability, Struct, data, disk
  <1>t. told \in [InstIds -> 0..3]
    BY DEF TypeOK
  <1>0. UNCHANGED <<up, ins, told>> => Heard'
    BY DEF Heard, Holds
  <1>1. CASE Start
    <2>1. told' = NoneTold /\ up'
      BY <1>1 DEF Start, Heard
    <2>2. \A i \in InstIds : Holds(i)' \in 0..3
      BY StructStep, HoldsType, <1>1, LoadedType, RankType
      DEF Start, Holds, TypeOK, InstanceMap, Instance
    <2> QED BY <2>1, <2>2 DEF Heard, NoneTold
  <1>2. CASE Crash \/ Exit
    BY <1>2 DEF Crash, Exit, Gone, Heard
  <1>3. CASE Signal \/ StopperSave
    BY <1>0, <1>3 DEF Signal, StopperSave
  <1>4. ASSUME NEW c \in Calls, CallStep(c) PROVE Heard'
    <2>1. CASE Handle(c)
      <3>1. up /\ up'
        BY <2>1, HandleControl DEF HandlerControl
      <3>2. ASSUME NEW i \in InstIds PROVE told'[i] <= Holds(i)'
        <4>1. InstanceStep(i)
          BY <2>1, HandleInstances
        <4>2. told[i] <= Holds(i) /\ Holds(i) \in 0..3
          BY <3>1, HoldsType DEF Heard
        <4>3. ins' \in InstanceMap
          BY <2>1, HandleData
        <4>4. Holds(i)' \in 0..3
          BY <4>3, RankType DEF Holds, InstanceMap, Instance
        <4>5. CASE Removed(i) \/ Made(i)
          BY <4>4, <4>5 DEF Removed, Made
        <4>6. CASE Still(i)
          BY <4>2, <4>6 DEF Still, Holds
        <4>7. CASE GoesOn(i)
          BY <1>t, <4>2, <4>4, <4>7 DEF GoesOn, Holds
        <4> QED BY <4>1, <4>5, <4>6, <4>7 DEF InstanceStep
      <3> QED BY <3>1, <3>2 DEF Heard
    <2>2. CASE Arrive(c)
      BY <1>0, <2>2 DEF Arrive
    <2>3. CASE Reply(c)
      <3>1. up /\ UNCHANGED <<up, ins>>
        BY <2>3, OwnerFacts DEF Reply, DownIsIdle
      <3>2. ASSUME NEW i \in InstIds PROVE told'[i] <= Holds(i)'
        <4>1. told[i] <= Holds(i) /\ Holds(i) \in 0..3 /\ Holds(i)' = Holds(i)
          BY <3>1, HoldsType DEF Heard, Holds
        <4>2. CASE ret[c][i] = "live"
          <5>1. Holds(i) = Rank(ins[i].state)
            BY <4>2 DEF LiveReplies, Holds
          <5>2. told'[i] = AtLeast(told[i], Holds(i))
            BY <2>3, <4>2, <5>1 DEF Reply
          <5> QED BY <1>t, <4>1, <5>2 DEF AtLeast
        <4>3. CASE ret[c][i] # "live"
          BY <2>3, <4>1, <4>3 DEF Reply
        <4> QED BY <4>2, <4>3
      <3> QED BY <3>1, <3>2 DEF Heard
    <2> QED BY <1>4, <2>1, <2>2, <2>3 DEF CallStep
  <1>5. ASSUME NEW o \in Owners, OwnerStep(o) PROVE Heard'
    BY <1>0, <1>5 DEF OwnerStep, SaveWrite, SaveRename, Unlock
  <1>6. CASE UNCHANGED vars
    BY <1>0, <1>6 DEF vars
  <1> QED BY <1>1, <1>2, <1>3, <1>4, <1>5, <1>6 DEF Next

(* What no RPC stands in the way of is on disk. *)
LEMMA HeardIsDurable ==
  ASSUME Told, ~unsaved, ~CallDirty, NEW i \in InstIds \ {EmptyId}
  PROVE  told[i] <= Durable(i)
  <1> USE DEF Told, Durability, Struct
  <1>1. CASE up
    <2>1. LoadedIns(file)[i] = ins[i]
      BY <1>1 DEF Kept, Match
    <2> QED BY <1>1, <2>1 DEF Heard, Holds, Durable
  <1>2. CASE ~up
    BY <1>2, DurableType DEF Heard, NoneTold
  <1> QED BY <1>1, <1>2

(* A state some client was told is on disk, unless the last save failed or *)
(* a call is between its handler and its rename: see ToldIsDurable.        *)
THEOREM RepliesAreDurable == Spec => []ToldIsDurable
  <1>1. Told => ToldIsDurable
    <2> SUFFICES ASSUME Told, NEW i \in InstIds \ {EmptyId}, told[i] > Durable(i),
                        ~unsaved, ~Dirty
                 PROVE  FALSE
      BY DEF ToldIsDurable
    <2>1. ~CallDirty
      BY OwnerFacts DEF CallDirty, Dirty
    <2>2. told[i] \in 0..3 /\ Durable(i) \in 0..3
      BY DurableType DEF Told, Durability, Struct, TypeOK
    <2> QED BY <2>1, <2>2, HeardIsDurable
  <1> QED BY <1>1, ToldInit, ToldStep, PTL DEF Spec

(* With one RPC at a time nothing else excuses a loss: while that RPC is   *)
(* between its handler and its rename, the last answer is still on disk.   *)

Alone == \A c, d \in Calls : c = d

AloneTold == Told /\ ToldIsAlwaysDurable

LEMMA AloneStep == Alone /\ AloneTold /\ [Next]_vars => AloneTold'
  <1> SUFFICES ASSUME Alone, AloneTold, [Next]_vars, Told',
                      NEW i \in InstIds \ {EmptyId}, ~unsaved'
               PROVE  told'[i] <= Durable(i)'
    <2>1. \A i \in InstIds \ {EmptyId} :
             Told' => told'[i] \in 0..3 /\ Durable(i)' \in 0..3
      BY LoadedType, RankType
      DEF Told, Durability, Struct, TypeOK, Durable, InstanceMap, Instance
    <2> QED BY <2>1, ToldStep DEF AloneTold, ToldIsAlwaysDurable
  <1> USE DEF AloneTold, Told, Durability, Struct, data, disk
  <1>n. told[i] \in 0..3 /\ Durable(i) \in 0..3
    BY DurableType DEF TypeOK
  <1>h. ~CallDirty' => told'[i] <= Durable(i)'
    <2> SUFFICES ASSUME ~CallDirty' PROVE told'[i] <= Durable(i)'
      OBVIOUS
    <2>1. CASE up'
      <3>1. LoadedIns(file)'[i] = ins'[i]
        BY <2>1 DEF Kept, Match
      <3> QED BY <2>1, <3>1 DEF Heard, Holds, Durable
    <2>2. CASE ~up'
      <3>1. Durable(i)' \in 0..3
        BY LoadedType, RankType DEF TypeOK, Durable, InstanceMap, Instance
      <3> QED BY <2>2, <3>1 DEF Heard, NoneTold
    <2> QED BY <2>1, <2>2
  <1>0. ~unsaved /\ UNCHANGED file /\ told'[i] \in {told[i], 0} => told'[i] <= Durable(i)'
    <2>1. UNCHANGED file => Durable(i)' = Durable(i)
      BY DEF Durable, LoadedIns
    <2>2. ~unsaved => told[i] <= Durable(i)
      BY <1>n DEF ToldIsAlwaysDurable
    <2> QED BY <1>n, <2>1, <2>2
  <1>1. CASE Start \/ Crash \/ Exit
    <2>1. mu' = Free
      BY <1>1 DEF Start, Crash, Exit, Gone, DownIsIdle
    <2> QED BY <1>h, <2>1, OwnerFacts DEF CallDirty
  <1>2. CASE Signal \/ StopperSave
    BY <1>0, <1>2 DEF Signal, StopperSave
  <1>3. ASSUME NEW c \in Calls, CallStep(c) PROVE told'[i] <= Durable(i)'
    <2>1. CASE Handle(c)
      <3>1. InstanceStep(i)
        BY <2>1, HandleInstances
      <3>2. told'[i] \in {told[i], 0}
        BY <3>1 DEF InstanceStep, Removed, Made, Still, GoesOn
      <3> QED BY <1>0, <2>1, <3>2, HandleControl DEF HandlerControl
    <2>2. CASE Arrive(c)
      BY <1>0, <2>2 DEF Arrive
    <2>3. CASE Reply(c)
      <3>1. \A d \in Calls : pc[d] = "replying"
        BY <2>3 DEF Reply, Alone
      <3>2. ~CallDirty'
        BY <2>3, <3>1, OwnerFacts DEF Reply, CallDirty, TypeOK
      <3> QED BY <1>h, <3>2
    <2> QED BY <1>3, <2>1, <2>2, <2>3 DEF CallStep
  <1>4. ASSUME NEW o \in Owners, OwnerStep(o) PROVE told'[i] <= Durable(i)'
    <2>1. CASE SaveWrite(o)
      BY <1>0, <2>1 DEF SaveWrite
    <2>2. CASE SaveRename(o)
      <3>1. ~CallDirty'
        BY <2>2 DEF SaveRename, OneOwner, CallDirty, TypeOK
      <3> QED BY <1>h, <3>1
    <2>3. CASE Unlock(o)
      BY <1>0, <2>3 DEF Unlock
    <2> QED BY <1>4, <2>1, <2>2, <2>3 DEF OwnerStep
  <1>5. CASE UNCHANGED vars
    BY <1>0, <1>5 DEF vars
  <1> QED BY <1>1, <1>2, <1>3, <1>4, <1>5 DEF Next

(* With one RPC at a time what a client was told survives any crash, if    *)
(* saves work: see ToldIsAlwaysDurable.                                    *)
THEOREM AloneRepliesAreDurable ==
  ASSUME Alone PROVE Spec => []ToldIsAlwaysDurable
  <1>1. Init => AloneTold
    <2>1. Init => ToldIsAlwaysDurable
      <3> SUFFICES ASSUME Init PROVE ToldIsAlwaysDurable
        OBVIOUS
      <3>1. \A i \in InstIds : told[i] = 0 /\ Durable(i) \in 0..3
        BY DurableType, StructInit DEF Init, NoneTold, Struct
      <3> QED BY <3>1 DEF ToldIsAlwaysDurable
    <2> QED BY <2>1, ToldInit DEF AloneTold
  <1>2. AloneTold /\ [Next]_vars => AloneTold'
    BY AloneStep
  <1>3. AloneTold => ToldIsAlwaysDurable
    BY DEF AloneTold
  <1> QED BY <1>1, <1>2, <1>3, PTL DEF Spec

-----------------------------------------------------------------------------
(* The interceptor with its temp file and rename implements DurableState:  *)
(* the mutex makes each change of memory and its save one critical section *)
(* and the rename makes the save one step.                                 *)

LEMMA DirtyBoolean == Dirty \in BOOLEAN /\ Dirty' \in BOOLEAN
  BY DEF Dirty

LEMMA AbstractInit == Init => Abstract!Init
  BY OwnerFacts DEF Init, Abstract!Init, Memory, Dirty

LEMMA UpMemory == Struct /\ up => Memory = Export /\ Memory # Absent
  BY ExportType, SpecialValuesAssumption DEF Struct, Memory

LEMMA AbstractStep ==
  ASSUME Struct, Struct', [Next]_vars
  PROVE  [Abstract!Next]_<<Memory, file, Dirty>>
  <1> USE DEF Struct, data, disk
  <1> DEFINE Stutter == UNCHANGED <<up, ins, m, it, file>> /\ (Dirty <=> Dirty')
  <1>0. Stutter => UNCHANGED <<Memory, file, Dirty>>
    BY DirtyBoolean DEF Memory, Export
  <1>1. CASE Start
    <2>1. Memory = Absent /\ Memory' = RecoverMemory(file) /\ UNCHANGED file
      BY <1>1 DEF Start, Memory, Export, RecoverMemory
    <2>2. ~Dirty /\ ~Dirty'
      BY <1>1, OwnerFacts DEF Start, DownIsIdle, Dirty
    <2> QED BY <2>1, <2>2, DirtyBoolean DEF Abstract!Next, Abstract!Start
  <1>2. ASSUME up, Gone PROVE Abstract!Next
    <2>1. Memory # Absent /\ Memory' = Absent /\ UNCHANGED file
      BY <1>2, UpMemory DEF Gone, Memory
    <2>2. Dirty' = FALSE
      BY <1>2, OwnerFacts DEF Gone, Dirty
    <2> QED BY <2>1, <2>2 DEF Abstract!Next, Abstract!Die
  <1>3. CASE Crash \/ Exit
    BY <1>2, <1>3 DEF Crash, Exit
  <1>4. CASE Signal
    <2>1. mu # Stopper
      BY <1>4, OwnerFacts DEF Signal, OneOwner
    <2> QED BY <1>0, <1>4, <2>1, OwnerFacts DEF Signal, Dirty, TypeOK
  <1>5. CASE StopperSave
    <2>1. ~Dirty /\ Dirty'
      BY <1>5, OwnerFacts DEF StopperSave, Lock, Dirty, TypeOK
    <2>2. up /\ UNCHANGED <<up, ins, m, it, file>>
      BY <1>5 DEF StopperSave, Lock
    <2>3. Memory # Absent /\ UNCHANGED Memory
      BY <2>2, UpMemory DEF Memory, Export
    <2> QED BY <2>1, <2>2, <2>3, DirtyBoolean DEF Abstract!Next, Abstract!Again
  <1>6. ASSUME NEW c \in Calls, CallStep(c)
        PROVE  [Abstract!Next]_<<Memory, file, Dirty>>
    <2>1. CASE Arrive(c)
      <3>1. mu # c
        BY <2>1, OwnerFacts DEF Arrive, OneOwner
      <3> QED BY <1>0, <2>1, <3>1, OwnerFacts DEF Arrive, Dirty, TypeOK
    <2>2. CASE Handle(c)
      <3>1. HandlerControl(c)
        BY <2>2, HandleControl
      <3>2. ~Dirty
        BY <3>1, OwnerFacts DEF HandlerControl, Dirty
      <3>3. CASE pc' = [pc EXCEPT ![c] = "handled"]
        <4>1. Dirty'
          BY <3>1, <3>3, OwnerFacts DEF HandlerControl, Dirty, TypeOK
        <4>2. up /\ up' /\ UNCHANGED file
          BY <3>1 DEF HandlerControl
        <4>3. Memory # Absent
          BY <4>2, UpMemory
        <4>4. Memory' \in Snapshot
          BY <4>2 DEF Memory, Export, Snapshot, TypeOK
        <4> QED BY <3>2, <4>1, <4>2, <4>3, <4>4, DirtyBoolean DEF Abstract!Next, Abstract!Mutate
      <3>4. CASE pc' = [pc EXCEPT ![c] = "saved"] /\ UNCHANGED <<ins, m, it>>
        <4>1. ~Dirty'
          BY <3>1, <3>4, OwnerFacts DEF HandlerControl, Dirty, TypeOK
        <4> QED BY <1>0, <3>1, <3>2, <3>4, <4>1 DEF HandlerControl
      <3> QED BY <3>1, <3>3, <3>4 DEF HandlerControl
    <2>3. CASE Reply(c)
      <3>1. mu # c
        BY <2>3, OwnerFacts DEF Reply, OneOwner
      <3> QED BY <1>0, <2>3, <3>1, OwnerFacts DEF Reply, Dirty, TypeOK
    <2> QED BY <1>6, <2>1, <2>2, <2>3 DEF CallStep
  <1>7. ASSUME NEW o \in Owners, OwnerStep(o)
        PROVE  [Abstract!Next]_<<Memory, file, Dirty>>
    <2>1. CASE SaveWrite(o)
      <3>1. mu = o /\ Dirty
        BY <2>1, OwnerFacts DEF SaveWrite, OneOwner, Dirty
      <3>2. UNCHANGED <<up, ins, m, it, file>>
        BY <2>1 DEF SaveWrite
      <3>3. CASE Dirty'
        BY <1>0, <3>1, <3>2, <3>3
      <3>4. CASE ~Dirty'
        <4>1. UNCHANGED Memory
          BY <3>2 DEF Memory, Export
        <4> QED BY <3>1, <3>2, <3>4, <4>1, DirtyBoolean DEF Abstract!Next, Abstract!Lose
      <3> QED BY <3>3, <3>4
    <2>2. CASE SaveRename(o)
      <3>1. mu = o /\ up /\ Dirty
        BY <2>2, OwnerFacts DEF SaveRename, OneOwner, DownIsIdle, Dirty
      <3>2. UNCHANGED <<up, ins, m, it>>
        BY <2>2 DEF SaveRename
      <3>3. UNCHANGED Memory
        BY <3>2 DEF Memory, Export
      <3>4. ~Dirty'
        BY <2>2, <3>1 DEF SaveRename, Dirty, TypeOK
      <3>5. CASE UNCHANGED file
        BY <3>1, <3>3, <3>4, <3>5, DirtyBoolean DEF Abstract!Next, Abstract!Lose
      <3>6. CASE file' = tmp
        <4>1. file' = Memory
          BY <2>2, <3>1, <3>6, UpMemory DEF SaveRename, WrittenIsExport
        <4> QED BY <3>1, <3>3, <3>4, <4>1, DirtyBoolean DEF Abstract!Next, Abstract!Commit
      <3> QED BY <2>2, <3>5, <3>6 DEF SaveRename
    <2>3. CASE Unlock(o)
      <3>1. mu = o /\ ~Dirty /\ ~Dirty'
        BY <2>3, OwnerFacts DEF Unlock, OneOwner, Dirty
      <3> QED BY <1>0, <2>3, <3>1 DEF Unlock
    <2> QED BY <1>7, <2>1, <2>2, <2>3 DEF OwnerStep
  <1>8. CASE UNCHANGED vars
    BY <1>0, <1>8 DEF vars, Dirty
  <1> QED BY <1>1, <1>3, <1>4, <1>5, <1>6, <1>7, <1>8 DEF Next

(* The state file protocol implements its abstract promise.                *)
THEOREM Refinement == Spec => ImplementsDurableState
  <1> QED BY StructInit, StructStep, AbstractInit, AbstractStep, PTL
      DEF Spec, ImplementsDurableState, Abstract!Spec

-----------------------------------------------------------------------------
(* The safety halves of EveryCallAnswered and ShutdownCompletes: nobody is  *)
(* stuck behind the mutex or in the shutdown, and nobody goes back.         *)

(* What one process may do without waiting for another. *)
CanGo(o) ==
    \/ pc[o] = "waiting" /\ mu = Free
    \/ pc[o] \in {"handled", "written", "saved"}
    \/ o \in Calls /\ pc[o] = "replying"
    \/ o = Stopper /\ pc[o] = "draining" /\ \A c \in Calls : pc[c] = "idle"

(* Only the stopper drains, and it answers nobody. *)
Roles == pc[Stopper] # "replying" /\ \A c \in Calls : pc[c] # "draining"

Place(stage) == CASE stage = "waiting" -> 1 [] stage = "handled"  -> 2 [] stage = "written"  -> 3
                  [] stage = "saved"   -> 4 [] stage = "replying" -> 5 [] stage = "draining" -> 5
                  [] stage = "idle"    -> 6

(* o begins, which nobody does any more once the shutdown drains, or goes on. *)
Forward(o) == \/ pc[o] = "idle" /\ pc'[o] = "waiting" /\ pc[Stopper] # "draining"
              \/ pc[o] # "idle" /\ Place(pc'[o]) > Place(pc[o])

LEMMA StageStep ==
  ASSUME Struct, Roles, [Next]_vars, ~(Crash \/ Exit)
  PROVE  Roles' /\ \A o \in Owners : pc'[o] # pc[o] => Forward(o)
  <1> USE OwnerFacts DEF Struct, TypeOK, Roles, Forward
  <1>1. CASE Start \/ UNCHANGED vars
    BY <1>1 DEF Start, vars
  <1>2. CASE Signal
    BY <1>2 DEF Signal
  <1>3. CASE StopperSave
    BY <1>3 DEF StopperSave, Lock, Place
  <1>4. ASSUME NEW c \in Calls, CallStep(c)
        PROVE  Roles' /\ \A o \in Owners : pc'[o] # pc[o] => Forward(o)
    <2>1. CASE Arrive(c)
      BY <2>1 DEF Arrive
    <2>2. CASE Handle(c)
      <3>1. HandlerControl(c) BY <2>2, HandleControl
      <3> QED BY <3>1 DEF HandlerControl, Place
    <2>3. CASE Reply(c)
      BY <2>3 DEF Reply, Place
    <2> QED BY <1>4, <2>1, <2>2, <2>3 DEF CallStep
  <1>5. ASSUME NEW o \in Owners, OwnerStep(o)
        PROVE  Roles' /\ \A q \in Owners : pc'[q] # pc[q] => Forward(q)
    <2>1. CASE SaveWrite(o)
      BY <2>1 DEF SaveWrite, Place
    <2>2. CASE SaveRename(o)
      BY <2>2 DEF SaveRename, Place
    <2>3. CASE Unlock(o)
      BY <2>3 DEF Unlock, Place, Owners
    <2> QED BY <1>5, <2>1, <2>2, <2>3 DEF OwnerStep
  <1> QED BY <1>1, <1>2, <1>3, <1>4, <1>5 DEF Next

LEMMA RolesStep == Struct /\ Roles /\ [Next]_vars => Roles'
  <1>1. CASE Crash \/ Exit
    BY <1>1, OwnerFacts DEF Crash, Exit, Gone, Roles
  <1> QED BY <1>1, StageStep

LEMMA RolesAlways == Spec => [](Struct /\ Roles)
  <1>1. Init => Roles
    BY OwnerFacts DEF Init, Roles
  <1> QED BY <1>1, StructInit, StructStep, RolesStep, PTL DEF Spec

(* As long as somebody has something to do, somebody can: no RPC and no    *)
(* shutdown waits for a mutex that nobody will release, nor GracefulStop   *)
(* for an RPC that waits for it.                                           *)
THEOREM SomebodyCanGo ==
    Spec => []((\E o \in Owners : pc[o] # "idle") => \E o \in Owners : CanGo(o))
  <1>1. ASSUME Struct, Roles, NEW o \in Owners, pc[o] # "idle"
        PROVE  \E p \in Owners : CanGo(p)
    <2> USE <1>1, OwnerFacts DEF Struct, TypeOK, CanGo
    <2>1. CASE mu # Free
      <3>1. mu \in Owners /\ pc[mu] \in {"handled", "written", "saved"}
        BY <2>1 DEF OneOwner
      <3> QED BY <3>1
    <2>2. CASE mu = Free /\ pc[o] # "draining"
      BY <2>2 DEF PC, Roles, Owners
    <2>3. CASE mu = Free /\ pc[o] = "draining"
      <3>1. o = Stopper
        BY <2>3 DEF Roles, Owners
      <3>2. CASE \A c \in Calls : pc[c] = "idle"
        BY <2>3, <3>1, <3>2
      <3>3. CASE \E c \in Calls : pc[c] # "idle"
        <4>1. PICK c \in Calls : pc[c] # "idle" BY <3>3
        <4>2. c \in Owners /\ pc[c] \in PC /\ pc[c] # "draining" BY <4>1 DEF Roles
        <4> QED BY <2>3, <4>1, <4>2 DEF PC
      <3> QED BY <3>2, <3>3
    <2> QED BY <2>1, <2>2, <2>3
  <1>2. Struct /\ Roles => ((\E o \in Owners : pc[o] # "idle") => \E o \in Owners : CanGo(o))
    BY <1>1
  <1> QED BY <1>2, RolesAlways, PTL

(* Unless the process goes, an RPC takes at most five steps from the mutex *)
(* to its reply, whatever fails, and none begins while the shutdown drains.*)
THEOREM CallsGoForward ==
    Spec => [][(Crash \/ Exit) \/ \A o \in Owners : pc'[o] # pc[o] => Forward(o)]_vars
  <1>1. Struct /\ Roles /\ [Next]_vars =>
          [(Crash \/ Exit) \/ \A o \in Owners : pc'[o] # pc[o] => Forward(o)]_vars
    BY StageStep
  <1> QED BY <1>1, RolesAlways, PTL DEF Spec
=============================================================================
