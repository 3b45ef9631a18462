-------------------------- MODULE SiteTablesProofs --------------------------
(***************************************************************************)
(* Proofs about SiteTables, for every set of ids, rows, CIDRs and hosts.   *)
(***************************************************************************)
EXTENDS SiteTables, NatSets, FiniteSetTheorems, TLAPS

-----------------------------------------------------------------------------
(* Requests and CIDRs. *)

Entries(S) == [id : ExpectedIds, row : S] \cup [id : {NoId}, row : {NoId}]

(* A request that names id i gives it one of the rows it carries. *)
LEMMA RowForType ==
  ASSUME NEW S, NEW list \in Batches(S), NEW i \in ExpectedIds, Named(list, i)
  PROVE  RowFor(list, i) \in S
  <1>1. PICK n \in 1..MaxBatch : list \in [1..n -> Entries(S)]
    BY DEF Batches, Entries
  <1>2. n \in Nat
    BY <1>1, ExpectedAssumption
  <1> DEFINE ks == {k \in 1..n : list[k].id = i}
             T  == {n - k : k \in ks}
  <1>3. ks # {} /\ T \in SUBSET Nat /\ T # {}
    BY <1>1, <1>2 DEF Named
  <1>4. PICK x \in T : \A y \in T : x <= y
    BY <1>3, LeastMember
  <1>5. PICK k \in ks : x = n - k
    BY <1>4
  <1>6. \A j \in 1..n : list[j].id = i => j <= k
    <2>1. ASSUME NEW j \in 1..n, list[j].id = i PROVE j <= k
      <3>1. n - j \in T /\ n - k <= n - j
        BY <1>4, <1>5, <2>1
      <3>2. n \in Nat /\ j \in Nat /\ k \in Nat
        BY <1>2
      <3> HIDE DEF T, ks
      <3> QED BY <3>1, <3>2
    <2> QED BY <2>1
  <1> DEFINE last(j) == /\ list[j].id = i
                        /\ \A h \in DOMAIN list : list[h].id = i => h <= j
  <1>7. DOMAIN list = 1..n /\ k \in DOMAIN list /\ last(k)
    BY <1>1, <1>5, <1>6
  <1>8. PICK j \in DOMAIN list : j = (CHOOSE h \in DOMAIN list : last(h)) /\ last(j)
    BY <1>7
  <1>9. list[j] \in Entries(S) /\ list[j].id = i
    BY <1>1, <1>7, <1>8
  <1>10. list[j].row \in S
    BY <1>9, ExpectedAssumption DEF Entries
  <1> QED BY <1>8, <1>10 DEF RowFor

(* What generateIPAddressInCIDR draws is a host address of the CIDR. *)
LEMMA DrawnIsHost ==
  ASSUME NEW c \in Cidrs, NEW a \in GenerateIPAddressInCIDR(c)
  PROVE  HostAddress(c, a) /\ a \in 0..(Space - 1)
  <1>1. /\ Space \in Nat /\ Space > 4
        /\ c.base \in 0..(Space - 1)
        /\ c.size \in {1, 2} \cup {n \in 4..Space : n = Space \/ 2 * n <= Space}
        /\ c.base + c.size <= Space
    BY CidrAssumption
  <1>2. CASE c.size = 1
    BY <1>1, <1>2 DEF GenerateIPAddressInCIDR, HostAddress
  <1>3. CASE c.size # 1
    <2>1. PICK n \in 0..(MaxHost(c) - 1) : a = c.base + (n + 1)
      BY <1>3 DEF GenerateIPAddressInCIDR
    <2>2. CASE c.size = Space
      BY <1>1, <2>1, <2>2 DEF MaxHost, HostAddress
    <2>3. CASE c.size # Space
      BY <1>1, <1>3, <2>1, <2>3 DEF MaxHost, HostAddress
    <2> QED BY <2>2, <2>3
  <1> QED BY <1>2, <1>3

(* The draw reaches every host address of the CIDR and no other address:   *)
(* all but the first and the last of a CIDR of four or more, the only one  *)
(* of a /32, none of a /31, and of a /0 all but the last host.             *)
THEOREM DrawIsExact ==
  ASSUME NEW c \in Cidrs
  PROVE  GenerateIPAddressInCIDR(c) =
           {a \in 0..(Space - 1) : /\ HostAddress(c, a)
                                   /\ c.size # 2
                                   /\ c.size = Space => a < Space - 2}
  <1>1. /\ Space \in Nat /\ Space > 4
        /\ c.base \in 0..(Space - 1)
        /\ c.size \in {1, 2} \cup {n \in 4..Space : n = Space \/ 2 * n <= Space}
        /\ c.base + c.size <= Space
    BY CidrAssumption
  <1> DEFINE Host(a) == HostAddress(c, a) /\ c.size # 2 /\ (c.size = Space => a < Space - 2)
  <1>2. ASSUME NEW a \in GenerateIPAddressInCIDR(c) PROVE a \in 0..(Space - 1) /\ Host(a)
    <2>1. HostAddress(c, a) /\ a \in 0..(Space - 1)
      BY DrawnIsHost
    <2>2. c.size # 2 /\ (c.size = Space => a < Space - 2)
      BY <1>1, <1>2 DEF GenerateIPAddressInCIDR, MaxHost
    <2> QED BY <2>1, <2>2
  <1>3. ASSUME NEW a \in 0..(Space - 1), Host(a) PROVE a \in GenerateIPAddressInCIDR(c)
    <2>1. CASE c.size = 1
      BY <1>1, <1>3, <2>1 DEF GenerateIPAddressInCIDR, HostAddress
    <2>2. CASE c.size # 1
      <3> DEFINE n == a - c.base - 1
      <3>1. n \in 0..(MaxHost(c) - 1) /\ a = c.base + (n + 1)
        BY <1>1, <1>3, <2>2 DEF MaxHost, HostAddress
      <3> QED BY <2>2, <3>1 DEF GenerateIPAddressInCIDR
    <2> QED BY <2>1, <2>2
  <1> HIDE DEF Host
  <1>4. {a \in 0..(Space - 1) : Host(a)} = GenerateIPAddressInCIDR(c)
    BY <1>2, <1>3
  <1> QED BY <1>4 DEF Host

-----------------------------------------------------------------------------
(* Types. *)

LEMMA NetworkTypes ==
  ASSUME NetworkTypeOK, NetworkCall PROVE NetworkTypeOK'
  <1> USE IdsAssumption DEF NetworkTypeOK
  <1>1. ASSUME NEW w \in Ids \cup {NoId}, NEW n \in Names \cup {NoName}, CreateVpc(w, n)
        PROVE  NetworkTypeOK'
    BY <1>1 DEF CreateVpc, NewIds
  <1>2. ASSUME NEW i \in Ids, NEW n \in Names \cup {NoName}, UpdateVpc(i, n)
        PROVE  NetworkTypeOK'
    BY <1>2 DEF UpdateVpc
  <1>3. ASSUME NEW i \in Ids, DeleteVpc(i) PROVE NetworkTypeOK'
    BY <1>3 DEF DeleteVpc
  <1>4. ASSUME NEW i \in Ids, CreateNetworkSegment(i) \/ DeleteNetworkSegment(i)
        PROVE  NetworkTypeOK'
    BY <1>4 DEF CreateNetworkSegment, DeleteNetworkSegment, NewIds
  <1>5. ASSUME NEW w \in Ids \cup {NoId}, NEW a \in Ids, NEW b \in Ids,
               CreateVpcPeering(w, a, b)
        PROVE  NetworkTypeOK'
    <2>1. [vpc |-> a, peer |-> b] \in Peering
      BY DEF Peering
    <2> QED BY <1>5, <2>1 DEF CreateVpcPeering, NewIds
  <1>6. ASSUME NEW i \in Ids, DeleteVpcPeering(i) PROVE NetworkTypeOK'
    BY <1>6 DEF DeleteVpcPeering
  <1>7. ASSUME NEW w \in Ids \cup {NoId}, NEW c \in Cidrs \cup {BadCidr, NoCidr},
               CreateVpcPrefix(w, c)
        PROVE  NetworkTypeOK'
    <2>1. [cidr |-> IF c = NoCidr THEN DefaultCidr ELSE c] \in Prefix
      BY CidrAssumption DEF Prefix
    <2> QED BY <1>7, <2>1 DEF CreateVpcPrefix, NewIds
  <1>8. ASSUME NEW i \in Ids, NEW c \in Cidrs \cup {BadCidr, NoCidr}, UpdateVpcPrefix(i, c)
        PROVE  NetworkTypeOK'
    BY <1>8 DEF UpdateVpcPrefix, Prefix
  <1>9. ASSUME NEW i \in Ids, DeleteVpcPrefix(i) PROVE NetworkTypeOK'
    BY <1>9 DEF DeleteVpcPrefix
  <1>10. ASSUME NEW i \in InstIds, NEW p \in Ids \cup {NoId}, NEW given \in BOOLEAN,
                AllocateInstance(i, p, given)
         PROVE  NetworkTypeOK'
    <2>1. PICK a \in IF ~given /\ Draws(p) THEN GenerateIPAddressInCIDR(vp[p].cidr)
                                           ELSE {Anywhere} :
             ins' = [ins EXCEPT ![i] = [prefix |-> IF given THEN NoId ELSE p, addr |-> a]]
      BY <1>10 DEF AllocateInstance
    <2>2. Draws(p) => vp[p].cidr \in Cidrs
      BY DEF Draws, Prefix
    <2>3. a \in Address
      BY <2>1, <2>2, DrawnIsHost DEF Address
    <2>4. [prefix |-> IF given THEN NoId ELSE p, addr |-> a] \in Drawn
      BY <2>3 DEF Drawn
    <2> QED BY <1>10, <2>1, <2>4 DEF AllocateInstance
  <1>11. ASSUME NEW i \in InstIds, ReleaseInstance(i) PROVE NetworkTypeOK'
    BY <1>11 DEF ReleaseInstance
  <1> QED BY <1>1, <1>2, <1>3, <1>4, <1>5, <1>6, <1>7, <1>8, <1>9, <1>10, <1>11 DEF NetworkCall

LEMMA OsTypes ==
  ASSUME OsTypeOK, OsCall PROVE OsTypeOK'
  <1> USE IdsAssumption DEF OsTypeOK
  <1>1. ASSUME NEW i \in Ids, EnsureOperatingSystemStub(i)
        PROVE  oss' \in [Ids -> OperatingSystem \cup {Absent}]
    <2>1. [data |-> IF oss[i] = Absent THEN NoData ELSE oss[i].data, active |-> TRUE]
             \in OperatingSystem
      BY DEF OperatingSystem
    <2> QED BY <1>1, <2>1 DEF EnsureOperatingSystemStub
  <1>2. ASSUME NEW w \in Ids \cup {NoId}, NEW s \in Sources \cup {NoSource}, CreateOsImage(w, s)
        PROVE  OsTypeOK'
    <2>1. PICK i \in Ids : osi' = [osi EXCEPT ![i] = s] /\ EnsureOperatingSystemStub(i)
      BY <1>2 DEF CreateOsImage, FreshIds
    <2> QED BY <1>1, <2>1
  <1>3. ASSUME NEW i \in Ids, NEW s \in Sources \cup {NoSource}, UpdateOsImage(i, s)
        PROVE  OsTypeOK'
    BY <1>1, <1>3 DEF UpdateOsImage
  <1>4. ASSUME NEW i \in Ids, DeleteOsImage(i) PROVE OsTypeOK'
    BY <1>4 DEF DeleteOsImage
  <1>5. ASSUME NEW w \in Ids \cup {NoId}, NEW d \in UserData \cup {NoData}, NEW a \in BOOLEAN,
               CreateOperatingSystem(w, d, a)
        PROVE  OsTypeOK'
    <2>1. [data |-> d, active |-> a] \in OperatingSystem
      BY DEF OperatingSystem
    <2> QED BY <1>5, <2>1 DEF CreateOperatingSystem, FreshIds
  <1>6. ASSUME NEW i \in Ids, NEW d \in UserData \cup {NoData, Keep},
               NEW a \in BOOLEAN \cup {Keep}, UpdateOperatingSystem(i, d, a)
        PROVE  OsTypeOK'
    <2>1. [data   |-> IF d = Keep THEN oss[i].data ELSE d,
           active |-> IF a = Keep THEN oss[i].active ELSE a] \in OperatingSystem
      BY <1>6 DEF UpdateOperatingSystem, OperatingSystem
    <2> QED BY <1>6, <2>1 DEF UpdateOperatingSystem
  <1> HIDE DEF OsTypeOK
  <1>7. CASE ImageCall
    BY <1>2, <1>3, <1>4, <1>7 DEF ImageCall
  <1>8. CASE ~ImageCall
    BY <1>5, <1>6, <1>8 DEF OsCall
  <1> QED BY <1>7, <1>8

LEMMA ExpectedTypes ==
  ASSUME ExpectedTypeOK, ExpectedCall PROVE ExpectedTypeOK'
  <1> USE DEF ExpectedTypeOK
  <1>1. ASSUME NEW i \in ExpectedIds, NEW x \in Macs,
               AddExpectedMachine(i, x) \/ UpdateExpectedMachine(i, x)
        PROVE  ExpectedTypeOK'
    BY <1>1 DEF AddExpectedMachine, UpdateExpectedMachine
  <1>2. ASSUME NEW i \in ExpectedIds, DeleteExpectedMachine(i) PROVE ExpectedTypeOK'
    BY <1>2 DEF DeleteExpectedMachine
  <1>3. ASSUME NEW list \in Batches(Macs),
               CreateExpectedMachines(list) \/ UpdateExpectedMachines(list)
        PROVE  ExpectedTypeOK'
    <2>1. \A i \in ExpectedIds : Named(list, i) => RowFor(list, i) \in Macs
      BY RowForType
    <2> QED BY <1>3, <2>1 DEF CreateExpectedMachines, UpdateExpectedMachines
  <1>4. ASSUME NEW i \in ExpectedIds, NEW x \in Serials,
               \/ AddExpectedPowerShelf(i, x) \/ UpdateExpectedPowerShelf(i, x)
               \/ AddExpectedSwitch(i, x) \/ UpdateExpectedSwitch(i, x)
               \/ AddExpectedRack(i, x) \/ UpdateExpectedRack(i, x)
        PROVE  ExpectedTypeOK'
    BY <1>4 DEF AddExpectedPowerShelf, UpdateExpectedPowerShelf, AddExpectedSwitch,
                UpdateExpectedSwitch, AddExpectedRack, UpdateExpectedRack
  <1>5. ASSUME NEW i \in ExpectedIds,
               \/ DeleteExpectedPowerShelf(i) \/ DeleteExpectedSwitch(i)
               \/ DeleteExpectedRack(i)
        PROVE  ExpectedTypeOK'
    BY <1>5 DEF DeleteExpectedPowerShelf, DeleteExpectedSwitch, DeleteExpectedRack
  <1>6. ASSUME NEW list \in Batches(Serials), ReplaceAllExpectedRacks(list)
        PROVE  ExpectedTypeOK'
    <2>1. \A i \in ExpectedIds : Named(list, i) => RowFor(list, i) \in Serials
      BY RowForType
    <2> QED BY <1>6, <2>1 DEF ReplaceAllExpectedRacks
  <1>7. ASSUME DeleteAllExpectedRacks PROVE ExpectedTypeOK'
    BY <1>7 DEF DeleteAllExpectedRacks, NoneExpected
  <1> QED BY <1>1, <1>2, <1>3, <1>4, <1>5, <1>6, <1>7 DEF ExpectedCall

LEMMA TenantTypes ==
  ASSUME TenantTypeOK, TenantCall PROVE TenantTypeOK'
  <1> DEFINE Rows == [Ids -> Values \cup {NoValue, Absent}]
             Typed == tt \in Rows /\ tk \in Rows /\ ibp \in Rows /\ nvlp \in Rows /\ nsg \in Rows
  <1>1. Typed
    BY DEF TenantTypeOK
  <1>2. ASSUME NEW w \in Ids \cup {NoId}, NEW x \in Values \cup {NoValue},
               \/ CreateIBPartition(w, x)
               \/ CreateNVLinkLogicalPartition(w, x)
               \/ CreateNetworkSecurityGroup(w, x)
        PROVE  Typed'
    BY <1>1, <1>2, IdsAssumption DEF CreateIBPartition, CreateNVLinkLogicalPartition,
       CreateNetworkSecurityGroup, NewIds
  <1>3. ASSUME NEW i \in Ids, NEW x \in Values \cup {NoValue},
               \/ CreateTenant(i, x) \/ UpdateTenant(i, x)
               \/ CreateTenantKeyset(i, x) \/ UpdateTenantKeyset(i, x)
        PROVE  Typed'
    BY <1>1, <1>3 DEF CreateTenant, UpdateTenant, CreateTenantKeyset, UpdateTenantKeyset, Given
  <1>4. ASSUME NEW i \in Ids, NEW x \in Values \cup {NoValue},
               \/ UpdateIBPartition(i, x) \/ UpdateNVLinkLogicalPartition(i, x)
               \/ UpdateNetworkSecurityGroup(i, x)
        PROVE  Typed'
    BY <1>1, <1>4 DEF UpdateIBPartition, UpdateNVLinkLogicalPartition,
       UpdateNetworkSecurityGroup, Given
  <1>5. ASSUME NEW i \in Ids,
               \/ DeleteTenantKeyset(i) \/ DeleteIBPartition(i)
               \/ DeleteNVLinkLogicalPartition(i) \/ DeleteNetworkSecurityGroup(i)
        PROVE  Typed'
    BY <1>1, <1>5 DEF DeleteTenantKeyset, DeleteIBPartition, DeleteNVLinkLogicalPartition,
       DeleteNetworkSecurityGroup
  <1>6. Typed'
    BY <1>2, <1>3, <1>4, <1>5 DEF TenantCall
  <1> QED BY <1>6 DEF TenantTypeOK

LEMMA LoadType == ASSUME NEW f \in Snapshot \cup {NoFile} PROVE Load(f) \in Snapshot
  <1>1. CASE f = NoFile
    BY <1>1 DEF Load, EmptySnapshot, Snapshot, EmptyMap, NoInstance
  <1>2. CASE f # NoFile
    <2> DEFINE read == [i \in InstIds |-> IF i = EmptyId THEN Absent ELSE f.ins[i]]
    <2>1. f \in Snapshot /\ read \in [InstIds -> Drawn \cup {Absent}]
      BY <1>2 DEF Snapshot
    <2> HIDE DEF read
    <2>2. [f EXCEPT !.ins = read] \in Snapshot
      BY <2>1 DEF Snapshot
    <2> QED BY <1>2, <2>2 DEF Load, read
  <1> QED BY <1>1, <1>2

LEMMA ExportType == TypeOK => Export \in Snapshot
  BY DEF TypeOK, NetworkTypeOK, OsTypeOK, Export, Snapshot

LEMMA MemoryType ==
  ASSUME NEW s \in Snapshot, Memory(s) PROVE NetworkTypeOK' /\ OsTypeOK'
  BY DEF Memory, Snapshot, NetworkTypeOK, OsTypeOK

LEMMA NotPersistedType ==
  ASSUME NEW seed \in [ExpectedIds -> Macs \cup {Absent}], NotPersisted(seed)
  PROVE  ExpectedTypeOK' /\ TenantTypeOK'
  BY DEF NotPersisted, ExpectedTypeOK, TenantTypeOK, EmptyMap, NoneExpected

LEMMA TypeInit == Init => TypeOK
  <1> SUFFICES ASSUME Init PROVE TypeOK
    OBVIOUS
  <1>1. NetworkTypeOK
    BY DEF Init, NetworkTypeOK, EmptyMap, NoInstance
  <1>2. OsTypeOK
    BY DEF Init, OsTypeOK, EmptyMap
  <1>3. ExpectedTypeOK
    BY DEF Init, ExpectedTypeOK, NoneExpected
  <1>4. TenantTypeOK
    BY DEF Init, TenantTypeOK, EmptyMap
  <1>5. cron \in [table : DOMAIN Tracked \cup {"none"}, ids : SUBSET Ids]
    BY DEF Init
  <1>6. up \in BOOLEAN /\ dirty \in BOOLEAN /\ unsaved \in BOOLEAN /\ file = NoFile
    BY DEF Init
  <1> QED BY <1>1, <1>2, <1>3, <1>4, <1>5, <1>6 DEF TypeOK

LEMMA TypeStep == TypeOK /\ [Next]_vars => TypeOK'
  <1> SUFFICES ASSUME TypeOK, [Next]_vars PROVE TypeOK'
    OBVIOUS
  <1> DEFINE Control == /\ up \in BOOLEAN /\ dirty \in BOOLEAN /\ unsaved \in BOOLEAN
                        /\ file \in Snapshot \cup {NoFile}
                        /\ cron \in [table : DOMAIN Tracked \cup {"none"}, ids : SUBSET Ids]
             Typed == NetworkTypeOK /\ OsTypeOK /\ ExpectedTypeOK /\ TenantTypeOK
  <1>c. DOMAIN Tracked = {"prefix", "nsg", "tenant"} /\ DOMAIN Tracked' = DOMAIN Tracked
    BY DEF Tracked
  <1>t. Control /\ Typed
    BY DEF TypeOK
  <1>u1. UNCHANGED networkVars => NetworkTypeOK'
    BY <1>t DEF networkVars, NetworkTypeOK
  <1>u2. UNCHANGED osVars => OsTypeOK'
    BY <1>t DEF osVars, OsTypeOK
  <1>u3. UNCHANGED expectedVars => ExpectedTypeOK'
    BY <1>t DEF expectedVars, ExpectedTypeOK
  <1>u4. UNCHANGED tenantVars => TenantTypeOK'
    BY <1>t DEF tenantVars, TenantTypeOK
  <1>u. UNCHANGED tables => Typed'
    BY <1>u1, <1>u2, <1>u3, <1>u4 DEF tables
  <1>1. CASE Start
    <2>1. Memory(Load(file)) /\ Load(file) \in Snapshot
      BY <1>1, <1>t, LoadType DEF Start
    <2>2. NotPersisted(Seed)
      BY <1>1 DEF Start
    <2>3. Typed'
      BY <2>1, <2>2, MemoryType, NotPersistedType, ExpectedAssumption
    <2>4. Control'
      BY <1>1, <1>c, <1>t DEF Start
    <2> QED BY <2>3, <2>4 DEF TypeOK
  <1>2. CASE Die
    <2>1. Memory(EmptySnapshot) /\ EmptySnapshot \in Snapshot
      BY <1>2 DEF Die, EmptySnapshot, Snapshot, EmptyMap, NoInstance
    <2>2. NotPersisted(NoneExpected)
      BY <1>2 DEF Die
    <2>3. NoneExpected \in [ExpectedIds -> Macs \cup {Absent}]
      BY DEF NoneExpected
    <2>4. Typed'
      BY <2>1, <2>2, <2>3, MemoryType, NotPersistedType
    <2>5. Control'
      BY <1>2, <1>c, <1>t DEF Die
    <2> QED BY <2>4, <2>5 DEF TypeOK
  <1>3. CASE Save
    <2>1. Typed'
      BY <1>3, <1>u DEF Save
    <2>2. Control'
      BY <1>3, <1>c, <1>t, ExportType DEF Save
    <2> QED BY <2>1, <2>2 DEF TypeOK
  <1>5. CASE CronLists
    <2>1. Typed'
      BY <1>5, <1>u DEF CronLists
    <2>2. \A t \in DOMAIN Tracked : Listed(t) \in SUBSET Ids
      BY <1>t, <1>c, IdsAssumption DEF Listed, SearchVpcPrefixes, FindNetworkSecurityGroupIds,
         FindTenantOrganizationIds, Known, NetworkTypeOK, TenantTypeOK
    <2>3. cron' \in [table : DOMAIN Tracked \cup {"none"}, ids : SUBSET Ids]
      BY <1>5, <2>2 DEF CronLists
    <2>4. Control'
      BY <1>5, <1>c, <1>t, <2>3 DEF CronLists
    <2> QED BY <2>1, <2>4 DEF TypeOK
  <1>6. CASE CronAsks
    <2>1. Typed'
      BY <1>6, <1>u DEF CronAsks
    <2>2. Control'
      BY <1>6, <1>c, <1>t DEF CronAsks
    <2> QED BY <2>1, <2>2 DEF TypeOK
  <1>7. ASSUME Handled PROVE Control'
    BY <1>7, <1>c, <1>t DEF Handled
  <1>8. CASE CallNetwork
    BY <1>7, <1>8, <1>t, <1>u2, <1>u3, <1>u4, NetworkTypes DEF CallNetwork, TypeOK
  <1>9. CASE CallOs
    BY <1>7, <1>9, <1>t, <1>u1, <1>u3, <1>u4, OsTypes DEF CallOs, TypeOK
  <1>10. CASE CallExpected
    BY <1>7, <1>10, <1>t, <1>u1, <1>u2, <1>u4, ExpectedTypes DEF CallExpected, TypeOK
  <1>11. CASE CallTenant
    BY <1>7, <1>11, <1>t, <1>u1, <1>u2, <1>u3, TenantTypes DEF CallTenant, TypeOK
  <1>12. CASE UNCHANGED vars
    BY <1>12, <1>c, <1>t, <1>u DEF vars, TypeOK
  <1> QED
    BY <1>1, <1>2, <1>3, <1>5, <1>6, <1>8, <1>9, <1>10, <1>11, <1>12 DEF Next, Panic

(* Every variable keeps its type, for every set of ids, rows and hosts. *)
THEOREM TypeCorrect == Spec => []TypeOK
  BY TypeInit, TypeStep, PTL DEF Spec

-----------------------------------------------------------------------------
(* A restart gives back what was saved.  The invariant is inductive by     *)
(* itself: a call makes the tables dirty, and only a save that succeeds    *)
(* makes them neither dirty nor unsaved.                                   *)

(* Of what was saved a load leaves out the instance without an id only.    *)
LEMMA ExportLoads ==
  ASSUME Export \in Snapshot
  PROVE  /\ \A t \in DOMAIN Export \ {"ins"} : Load(Export)[t] = Export[t]
         /\ \A i \in InstIds \ {EmptyId} : Load(Export).ins[i] = ins[i]
  <1> DEFINE read == [i \in InstIds |-> IF i = EmptyId THEN Absent ELSE Export.ins[i]]
  <1>1. Load(Export) = [Export EXCEPT !.ins = read]
    BY NoFileAssumption DEF Load
  <1>2. \A i \in InstIds \ {EmptyId} : read[i] = ins[i]
    BY DEF Export
  <1> HIDE DEF read
  <1> QED BY <1>1, <1>2 DEF Export

LEMMA SurviveInit == Init => TablesSurvive
  BY DEF Init, TablesSurvive

LEMMA SurviveStep == TypeOK /\ TablesSurvive /\ [Next]_vars => TablesSurvive'
  <1> SUFFICES ASSUME TypeOK, TablesSurvive, [Next]_vars PROVE TablesSurvive'
    OBVIOUS
  <1>s. ASSUME UNCHANGED <<networkVars, osVars, up, file, dirty, unsaved>>
        PROVE  TablesSurvive'
    BY <1>s DEF TablesSurvive, Export, Load, networkVars, osVars
  <1>1. CASE Start
    <2>1. Load(file) \in Snapshot
      BY LoadType DEF TypeOK
    <2>2. Export' = Load(file)
      BY <1>1, <2>1 DEF Start, Memory, Export, Snapshot
    <2>3. Load(file)' = Load(file)
      BY <1>1 DEF Start, Load
    <2>4. ins' = Load(file).ins
      BY <1>1 DEF Start, Memory
    <2> QED BY <2>2, <2>3, <2>4 DEF TablesSurvive
  <1>2. CASE Die
    BY <1>2 DEF Die, TablesSurvive
  <1>3. CASE Save
    <2>1. CASE file' = Export
      <3>1. Export' = Export /\ ins' = ins
        BY <1>3 DEF Save, Export, tables, networkVars, osVars
      <3>2. Load(file)' = Load(Export)
        BY <2>1 DEF Load
      <3> QED BY <3>1, <3>2, ExportType, ExportLoads DEF TablesSurvive
    <2>2. CASE unsaved' = TRUE
      BY <2>2 DEF TablesSurvive
    <2> QED BY <1>3, <2>1, <2>2 DEF Save
  <1>5. CASE CronLists
    BY <1>5, <1>s DEF CronLists, tables
  <1>6. CASE CronAsks
    BY <1>6, <1>s DEF CronAsks, tables
  <1>7. CASE Handled
    BY <1>7 DEF Handled, TablesSurvive
  <1>8. CASE UNCHANGED vars
    BY <1>8, <1>s DEF vars, tables
  <1> QED
    BY <1>1, <1>2, <1>3, <1>5, <1>6, <1>7, <1>8
    DEF Next, Panic, CallNetwork, CallOs, CallExpected, CallTenant

(* Between calls, unless a save failed, a restart gives back every row of  *)
(* every persisted table, but no instance without an id.                   *)
THEOREM RestartLosesNothing == Spec => []TablesSurvive
  BY TypeInit, TypeStep, SurviveInit, SurviveStep, PTL DEF Spec

-----------------------------------------------------------------------------
(* Peerings.  A new one matches no old one in either direction, and only   *)
(* memory is ever saved.                                                   *)

LEMMA PeeredInit == Init => PeeredOnce
  BY DEF Init, PeeredOnce, PairsDistinct, Known, EmptyMap, Load, EmptySnapshot

LEMMA PeeredCreate ==
  ASSUME NetworkTypeOK, PairsDistinct(vpp),
         NEW w \in Ids \cup {NoId}, NEW x \in Ids, NEW y \in Ids, CreateVpcPeering(w, x, y)
  PROVE  PairsDistinct(vpp)'
  <1>1. PICK k \in NewIds(vpp, w) :
           vpp[k] = Absent /\ vpp' = [vpp EXCEPT ![k] = [vpc |-> x, peer |-> y]]
    BY DEF CreateVpcPeering
  <1>2. k \in Ids /\ vpp \in [Ids -> Peering \cup {Absent}]
    BY IdsAssumption DEF NewIds, NetworkTypeOK
  <1>3. \A i \in Ids : vpp'[i] = IF i = k THEN [vpc |-> x, peer |-> y] ELSE vpp[i]
    BY <1>1, <1>2
  <1>4. \A i \in Known(vpp) : {vpp[i].vpc, vpp[i].peer} # {x, y}
    BY DEF CreateVpcPeering, PeeringMatchesPair
  <1>5. Known(vpp)' = Known(vpp) \cup {k}
    BY <1>1, <1>2, <1>3, NetworkRowsAssumption DEF Known, Peering
  <1> SUFFICES ASSUME NEW i \in Known(vpp)', NEW j \in Known(vpp)', i # j
               PROVE  {vpp'[i].vpc, vpp'[i].peer} # {vpp'[j].vpc, vpp'[j].peer}
    BY DEF PairsDistinct
  <1>6. i \in Ids /\ j \in Ids
    BY <1>2, <1>5 DEF Known
  <1>7. CASE i = k
    BY <1>3, <1>4, <1>5, <1>6, <1>7
  <1>8. CASE j = k
    BY <1>3, <1>4, <1>5, <1>6, <1>8
  <1>9. CASE i # k /\ j # k
    BY <1>3, <1>5, <1>6, <1>9 DEF PairsDistinct
  <1> QED BY <1>7, <1>8, <1>9

LEMMA PeeredCall ==
  ASSUME NetworkTypeOK, PairsDistinct(vpp), NetworkCall PROVE PairsDistinct(vpp)'
  <1>1. CASE UNCHANGED vpp
    BY <1>1 DEF PairsDistinct, Known
  <1>2. ASSUME NEW w \in Ids \cup {NoId}, NEW x \in Ids, NEW y \in Ids, CreateVpcPeering(w, x, y)
        PROVE  PairsDistinct(vpp)'
    BY <1>2, PeeredCreate
  <1>3. ASSUME NEW i \in Ids, DeleteVpcPeering(i) PROVE PairsDistinct(vpp)'
    <2>1. vpp' = [vpp EXCEPT ![i] = Absent] /\ DOMAIN vpp = Ids
      BY <1>3 DEF DeleteVpcPeering, NetworkTypeOK
    <2>2. \A j \in Known(vpp)' : j \in Known(vpp) /\ vpp'[j] = vpp[j]
      BY <2>1 DEF Known
    <2> QED BY <2>2 DEF PairsDistinct
  <1> QED
    BY <1>1, <1>2, <1>3 DEF NetworkCall, CreateVpc, UpdateVpc, DeleteVpc, CreateNetworkSegment,
       DeleteNetworkSegment, CreateVpcPrefix, UpdateVpcPrefix, DeleteVpcPrefix,
       AllocateInstance, ReleaseInstance

LEMMA PeeredStep == TypeOK /\ PeeredOnce /\ [Next]_vars => PeeredOnce'
  <1> SUFFICES ASSUME TypeOK, PeeredOnce, [Next]_vars PROVE PeeredOnce'
    OBVIOUS
  <1>m. UNCHANGED vpp => PairsDistinct(vpp)'
    BY DEF PeeredOnce, PairsDistinct, Known
  <1>f. UNCHANGED file => PairsDistinct(Load(file).vpp)'
    <2>1. UNCHANGED file => Load(file)' = Load(file)
      BY DEF Load
    <2> QED BY <2>1 DEF PeeredOnce, PairsDistinct, Known
  <1>1. CASE Start
    <2>1. vpp' = Load(file).vpp
      BY <1>1 DEF Start, Memory
    <2>2. PairsDistinct(vpp)'
      BY <2>1 DEF PeeredOnce, PairsDistinct, Known
    <2> QED BY <1>1, <1>f, <2>2 DEF Start, PeeredOnce
  <1>2. CASE Die
    <2>1. PairsDistinct(vpp)'
      BY <1>2 DEF Die, Memory, EmptySnapshot, EmptyMap, PairsDistinct, Known
    <2> QED BY <1>2, <1>f, <2>1 DEF Die, PeeredOnce
  <1>3. CASE Save
    <2>1. UNCHANGED vpp
      BY <1>3 DEF Save, tables, networkVars
    <2>2. CASE file' = Export
      <3>1. Load(file)' = Load(Export)
        BY <2>2 DEF Load
      <3>2. Load(file)'.vpp = vpp
        BY <3>1, ExportType, ExportLoads DEF Export
      <3> QED BY <1>m, <2>1, <3>2 DEF PeeredOnce, PairsDistinct, Known
    <2> QED BY <1>3, <1>m, <1>f, <2>1, <2>2 DEF Save, PeeredOnce
  <1>4. CASE CallNetwork
    <2>1. PairsDistinct(vpp)'
      BY <1>4, PeeredCall DEF CallNetwork, TypeOK, PeeredOnce
    <2> QED BY <1>4, <1>f, <2>1 DEF CallNetwork, Handled, PeeredOnce
  <1>5. CASE UNCHANGED <<vpp, file>>
    BY <1>5, <1>m, <1>f DEF PeeredOnce
  <1>6. CASE CronLists \/ CronAsks \/ CallOs \/ CallExpected \/ CallTenant \/ UNCHANGED vars
    BY <1>5, <1>6 DEF CronLists, CronAsks, CallOs, CallExpected, CallTenant, Handled,
       vars, tables, networkVars
  <1> QED BY <1>1, <1>2, <1>3, <1>4, <1>6 DEF Next, Panic

(* No two peerings join the same two VPCs, in memory or after a restart.   *)
THEOREM PeeringsDiffer == Spec => []PeeredOnce
  BY TypeInit, TypeStep, PeeredInit, PeeredStep, PTL DEF Spec

-----------------------------------------------------------------------------
(* Addresses. *)

LEMMA DrawStep == TypeOK /\ [Next]_vars =>
  (up /\ up' => \A i \in InstIds :
      ins[i] = Absent /\ ins'[i] # Absent /\ Draws(ins'[i].prefix) =>
         HostAddress(vp[ins'[i].prefix].cidr, ins'[i].addr))
  <1> SUFFICES ASSUME TypeOK, [Next]_vars, up, up', NEW i \in InstIds,
                      ins[i] = Absent, ins'[i] # Absent, Draws(ins'[i].prefix)
               PROVE  HostAddress(vp[ins'[i].prefix].cidr, ins'[i].addr)
    OBVIOUS
  <1>t. ins \in [InstIds -> Drawn \cup {Absent}] /\ vp \in [Ids -> Prefix \cup {Absent}]
    BY DEF TypeOK, NetworkTypeOK
  <1>1. ~ UNCHANGED ins
    OBVIOUS
  <1>2. NetworkCall
    BY <1>1 DEF Next, Start, Die, Panic, Save, CronLists, CronAsks, CallNetwork,
       CallOs, CallExpected, CallTenant, vars, tables, networkVars
  <1>3. ~ \E j \in InstIds : ReleaseInstance(j)
    BY <1>t DEF ReleaseInstance
  <1>4. PICK j \in InstIds, p \in Ids \cup {NoId}, given \in BOOLEAN : AllocateInstance(j, p, given)
    BY <1>1, <1>2, <1>3 DEF NetworkCall, CreateVpc, UpdateVpc, DeleteVpc, CreateNetworkSegment,
       DeleteNetworkSegment, CreateVpcPeering, DeleteVpcPeering, CreateVpcPrefix,
       UpdateVpcPrefix, DeleteVpcPrefix
  <1>5. j = i
    BY <1>4, <1>t DEF AllocateInstance
  <1>6. PICK a \in (IF ~given /\ Draws(p) THEN GenerateIPAddressInCIDR(vp[p].cidr) ELSE {Anywhere}) :
           ins' = [ins EXCEPT ![i] = [prefix |-> IF given THEN NoId ELSE p, addr |-> a]]
    BY <1>4, <1>5 DEF AllocateInstance
  <1>7. ins'[i].prefix = (IF given THEN NoId ELSE p) /\ ins'[i].addr = a
    BY <1>6, <1>t
  <1>8. ~given /\ ins'[i].prefix = p /\ Draws(p)
    BY <1>7, IdsAssumption DEF Draws
  <1>9. vp[p].cidr \in Cidrs
    BY <1>8, <1>t DEF Draws, Prefix
  <1>10. a \in GenerateIPAddressInCIDR(vp[p].cidr)
    BY <1>6, <1>8
  <1> QED BY <1>7, <1>8, <1>9, <1>10, DrawnIsHost

(* An allocation that draws an address draws a host's.                     *)
THEOREM DrawsHostAddresses == Spec => HostAddressOnly
  <1>1. TypeOK /\ [Next]_vars =>
           [up /\ up' => \A i \in InstIds :
              ins[i] = Absent /\ ins'[i] # Absent /\ Draws(ins'[i].prefix) =>
                 HostAddress(vp[ins'[i].prefix].cidr, ins'[i].addr)]_vars
    BY DrawStep
  <1> QED BY <1>1, TypeInit, TypeStep, PTL DEF Spec, HostAddressOnly

-----------------------------------------------------------------------------
(* Images.  The strengthening says of memory what ImageHasOs says of the   *)
(* file: an image with a blank source has its operating system too.        *)

ImagesHaveStubs == \A i \in Ids : osi[i] # Absent => oss[i] # Absent

FilesHaveStubs == \A i \in Ids : Load(file).osi[i] # Absent => Load(file).oss[i] # Absent

LEMMA StubsInit == Init => ImagesHaveStubs /\ FilesHaveStubs
  BY DEF Init, ImagesHaveStubs, FilesHaveStubs, EmptyMap, Load, EmptySnapshot

LEMMA StubsCall ==
  ASSUME OsTypeOK, ImagesHaveStubs, OsCall PROVE ImagesHaveStubs'
  <1>t. /\ osi \in [Ids -> Sources \cup {NoSource, Absent}]
        /\ oss \in [Ids -> OperatingSystem \cup {Absent}]
    BY DEF OsTypeOK
  <1>s. \A x, y : [data |-> x, active |-> y] \in OperatingSystem => [data |-> x, active |-> y] # Absent
    BY OsAssumption
  <1>e. ASSUME NEW i \in Ids, EnsureOperatingSystemStub(i)
        PROVE  \A j \in Ids : oss'[j] # Absent <=> oss[j] # Absent \/ j = i
    <2>1. (IF oss[i] = Absent THEN NoData ELSE oss[i].data) \in UserData \cup {NoData}
      BY <1>t DEF OperatingSystem
    <2>2. [data |-> IF oss[i] = Absent THEN NoData ELSE oss[i].data, active |-> TRUE] # Absent
      BY <2>1, <1>s DEF OperatingSystem
    <2> QED BY <1>e, <1>t, <2>2 DEF EnsureOperatingSystemStub
  <1>1. ASSUME NEW w \in Ids \cup {NoId}, NEW x \in Sources \cup {NoSource}, CreateOsImage(w, x)
        PROVE  ImagesHaveStubs'
    <2>1. PICK i \in FreshIds(osi, w) :
             osi' = [osi EXCEPT ![i] = x] /\ EnsureOperatingSystemStub(i)
      BY <1>1 DEF CreateOsImage
    <2>2. i \in Ids
      BY IdsAssumption DEF FreshIds
    <2> QED BY <1>e, <1>t, <2>1, <2>2 DEF ImagesHaveStubs
  <1>2. ASSUME NEW i \in Ids, NEW x \in Sources \cup {NoSource}, UpdateOsImage(i, x)
        PROVE  ImagesHaveStubs'
    BY <1>2, <1>e, <1>t DEF UpdateOsImage, ImagesHaveStubs
  <1>3. ASSUME NEW i \in Ids, DeleteOsImage(i) PROVE ImagesHaveStubs'
    BY <1>3, <1>t DEF DeleteOsImage, ImagesHaveStubs
  <1>4. ASSUME NEW w \in Ids \cup {NoId}, NEW x \in UserData \cup {NoData}, NEW y \in BOOLEAN,
               CreateOperatingSystem(w, x, y)
        PROVE  ImagesHaveStubs'
    <2>1. [data |-> x, active |-> y] # Absent
      BY <1>s DEF OperatingSystem
    <2> QED BY <1>4, <1>t, <2>1 DEF CreateOperatingSystem, ImagesHaveStubs
  <1>5. ASSUME NEW i \in Ids, NEW x \in UserData \cup {NoData, Keep}, NEW y \in BOOLEAN \cup {Keep},
               UpdateOperatingSystem(i, x, y)
        PROVE  ImagesHaveStubs'
    <2>1. oss[i] \in OperatingSystem
      BY <1>5, <1>t DEF UpdateOperatingSystem
    <2> DEFINE new == [data   |-> IF x = Keep THEN oss[i].data ELSE x,
                       active |-> IF y = Keep THEN oss[i].active ELSE y]
    <2>2. new # Absent
      BY <2>1, <1>s DEF OperatingSystem
    <2>3. oss' = [oss EXCEPT ![i] = new] /\ UNCHANGED osi
      BY <1>5 DEF UpdateOperatingSystem
    <2> QED BY <1>t, <2>2, <2>3 DEF ImagesHaveStubs
  <1> QED BY <1>1, <1>2, <1>3, <1>4, <1>5 DEF OsCall, ImageCall

LEMMA StubsStep ==
  TypeOK /\ ImagesHaveStubs /\ FilesHaveStubs /\ [Next]_vars => ImagesHaveStubs' /\ FilesHaveStubs'
  <1> SUFFICES ASSUME TypeOK, ImagesHaveStubs, FilesHaveStubs, [Next]_vars
               PROVE  ImagesHaveStubs' /\ FilesHaveStubs'
    OBVIOUS
  <1>m. UNCHANGED osVars => ImagesHaveStubs'
    BY DEF ImagesHaveStubs, osVars
  <1>f. UNCHANGED file => FilesHaveStubs'
    BY DEF FilesHaveStubs, Load
  <1>1. CASE Start
    BY <1>1, <1>f DEF Start, Memory, ImagesHaveStubs, FilesHaveStubs
  <1>2. CASE Die
    BY <1>2, <1>f DEF Die, Memory, EmptySnapshot, EmptyMap, ImagesHaveStubs
  <1>3. CASE Save
    <2>1. ImagesHaveStubs'
      BY <1>3, <1>m DEF Save, tables
    <2>2. CASE file' = Export
      <3>1. Load(file)' = Load(Export)
        BY <2>2 DEF Load
      <3>2. Load(file)'.osi = osi /\ Load(file)'.oss = oss
        BY <3>1, ExportType, ExportLoads DEF Export
      <3>3. UNCHANGED <<osi, oss>>
        BY <1>3 DEF Save, tables, osVars
      <3> QED BY <2>1, <3>2, <3>3 DEF ImagesHaveStubs, FilesHaveStubs
    <2> QED BY <1>3, <1>f, <2>1, <2>2 DEF Save
  <1>4. CASE CallOs
    BY <1>4, <1>f, StubsCall DEF CallOs, Handled, TypeOK
  <1>5. CASE \/ CronLists \/ CronAsks
             \/ CallNetwork \/ CallExpected \/ CallTenant \/ UNCHANGED vars
    BY <1>5, <1>m, <1>f DEF CronLists, CronAsks, CallNetwork, CallExpected, CallTenant,
       Handled, vars, tables
  <1> QED BY <1>1, <1>2, <1>3, <1>4, <1>5 DEF Next, Panic

LEMMA StubsAreEnough == ImagesHaveStubs /\ FilesHaveStubs => ImageHasOs
  BY IdsAssumption DEF ImagesHaveStubs, FilesHaveStubs, ImageHasOs, OsImageSource, LookupId

(* The operating system an allocation looks up for an image is there.      *)
THEOREM ImagesHaveOperatingSystems == Spec => []ImageHasOs
  BY TypeInit, TypeStep, StubsInit, StubsStep, StubsAreEnough, PTL DEF Spec

LEMMA UserDataStep == TypeOK /\ ImagesHaveStubs /\ [Next]_vars =>
  (Handled /\ ImageCall =>
     \A i \in Ids :
        osi[i] = Absent \/ osi'[i] # Absent =>
           ResolveUserData(i, NoId, NoData)' = ResolveUserData(i, NoId, NoData))
  <1> SUFFICES ASSUME TypeOK, ImagesHaveStubs, [Next]_vars, ImageCall, NEW i \in Ids,
                      osi[i] = Absent \/ osi'[i] # Absent
               PROVE  ResolveUserData(i, NoId, NoData)' = ResolveUserData(i, NoId, NoData)
    OBVIOUS
  <1> DEFINE data(x) == IF x = Absent THEN NoData ELSE x.data
  <1>t. /\ osi \in [Ids -> Sources \cup {NoSource, Absent}]
        /\ oss \in [Ids -> OperatingSystem \cup {Absent}]
    BY DEF TypeOK, OsTypeOK
  <1>r. /\ ResolveUserData(i, NoId, NoData) = data(oss[i])
        /\ ResolveUserData(i, NoId, NoData)' = data(oss'[i])
    BY IdsAssumption DEF ResolveUserData, LookupId
  <1>e. ASSUME NEW j \in Ids, EnsureOperatingSystemStub(j) PROVE data(oss'[i]) = data(oss[i])
    <2> DEFINE new == [data |-> data(oss[j]), active |-> TRUE]
    <2>1. data(oss[j]) \in UserData \cup {NoData}
      BY <1>t DEF OperatingSystem
    <2>2. new \in OperatingSystem
      BY <2>1 DEF OperatingSystem
    <2>3. oss' = [oss EXCEPT ![j] = new]
      BY <1>e DEF EnsureOperatingSystemStub
    <2>4. data(new) = data(oss[j])
      BY <2>2, OsAssumption
    <2> QED BY <1>t, <2>3, <2>4
  <1>2. ASSUME NEW w \in Ids \cup {NoId}, NEW x \in Sources \cup {NoSource}, CreateOsImage(w, x)
        PROVE  data(oss'[i]) = data(oss[i])
    BY <1>2, <1>e, IdsAssumption DEF CreateOsImage, FreshIds
  <1>3. ASSUME NEW j \in Ids, NEW x \in Sources \cup {NoSource}, UpdateOsImage(j, x)
        PROVE  data(oss'[i]) = data(oss[i])
    BY <1>3, <1>e DEF UpdateOsImage
  <1>4. ASSUME NEW j \in Ids, DeleteOsImage(j) PROVE data(oss'[i]) = data(oss[i])
    <2>1. j # i
      BY <1>4, <1>t DEF DeleteOsImage
    <2> QED BY <1>4, <1>t, <2>1 DEF DeleteOsImage
  <1>5. data(oss'[i]) = data(oss[i])
    BY <1>2, <1>3, <1>4 DEF ImageCall
  <1> QED BY <1>5, <1>r

(* No call on an image changes the user data found under it.               *)
THEOREM ImagesKeepUserData == Spec => UserDataKept
  <1>1. TypeOK /\ ImagesHaveStubs /\ [Next]_vars =>
           [Handled /\ ImageCall =>
              \A i \in Ids :
                 osi[i] = Absent \/ osi'[i] # Absent =>
                    ResolveUserData(i, NoId, NoData)' = ResolveUserData(i, NoId, NoData)]_vars
    BY UserDataStep
  <1> QED BY <1>1, TypeInit, TypeStep, StubsInit, StubsStep, PTL DEF Spec, UserDataKept

-----------------------------------------------------------------------------
(* Expected machines and the inventory cron: what the readers return.      *)

(* Every expected machine has exactly one entry in the linked list.        *)
LEMMA OneEntryEach == TypeOK => NoneHidden
  <1> SUFFICES ASSUME TypeOK, NEW i \in Known(em), NEW seen \in Views
               PROVE  Cardinality({e \in GetAllExpectedMachinesLinked(seen) : e.id = i}) = 1
    BY DEF NoneHidden
  <1> DEFINE linked(j) == [id |-> j, mac |-> em[j], host |-> MachineIDByMAC(em[j], seen[j])]
             entry == IF i \in Seeded
                      THEN [id |-> i, mac |-> Seed[i], host |-> SeedLink[i]]
                      ELSE linked(i)
             found == {e \in GetAllExpectedMachinesLinked(seen) : e.id = i}
  <1>1. entry \in GetAllExpectedMachinesLinked(seen) /\ entry.id = i
    BY DEF GetAllExpectedMachinesLinked, SeedEntries
  <1>2. ASSUME NEW e \in GetAllExpectedMachinesLinked(seen), e.id = i PROVE e = entry
    <2>1. CASE e \in SeedEntries
      BY <1>2, <2>1 DEF SeedEntries
    <2>2. CASE e \in {linked(j) : j \in Known(em) \ Seeded}
      BY <1>2, <2>2
    <2> QED BY <1>2, <2>1, <2>2 DEF GetAllExpectedMachinesLinked
  <1>3. found = {entry}
    BY <1>1, <1>2
  <1> QED BY <1>3, FS_Singleton

THEOREM NoExpectedMachineHidden == Spec => []NoneHidden
  BY TypeInit, TypeStep, OneEntryEach, PTL DEF Spec

(* A link leads to a machine seen that has an interface with the MAC, and  *)
(* is missing only if there is none.                                       *)
LEMMA LinkCarries ==
  ASSUME NEW m, NEW view \in SUBSET Hosts
  PROVE  LET h == MachineIDByMAC(m, view)
         IN \/ h = NoHost /\ \A g \in view : m \notin HostMacs[g]
            \/ h # NoHost /\ h \in view /\ m \in HostMacs[h]
  <1> DEFINE carriers == {h \in view : m \in HostMacs[h]}
  <1>1. CASE carriers = {}
    BY <1>1 DEF MachineIDByMAC
  <1>2. CASE carriers # {}
    <2>1. carriers \in SUBSET Nat /\ NoHost \notin carriers
      BY ExpectedAssumption
    <2>2. \E h \in carriers : \A g \in carriers : h <= g
      BY <1>2, <2>1, LeastMember
    <2>3. MachineIDByMAC(m, view) \in carriers
      BY <1>2, <2>2 DEF MachineIDByMAC
    <2> QED BY <2>1, <2>3
  <1> QED BY <1>1, <1>2

LEMMA LinksAreOwn == TypeOK => HostsNotShared
  <1> SUFFICES ASSUME TypeOK, NEW seen \in Views,
                      NEW e \in GetAllExpectedMachinesLinked(seen),
                      NEW f \in GetAllExpectedMachinesLinked(seen),
                      e.id \notin Seeded, f.id \notin Seeded
               PROVE  /\ e.host # NoHost => e.host \in seen[e.id]
                      /\ e.host = NoHost => \A h \in seen[e.id] : e.mac \notin HostMacs[h]
                      /\ e.host # NoHost /\ e.host = f.host =>
                            {e.mac, f.mac} \subseteq HostMacs[e.host]
    BY DEF HostsNotShared
  <1>1. ASSUME NEW x \in GetAllExpectedMachinesLinked(seen), x.id \notin Seeded
        PROVE  /\ x.host = MachineIDByMAC(x.mac, seen[x.id])
               /\ seen[x.id] \in SUBSET Hosts
    <2>1. PICK i \in Known(em) \ Seeded :
             x = [id |-> i, mac |-> em[i], host |-> MachineIDByMAC(em[i], seen[i])]
      BY <1>1 DEF GetAllExpectedMachinesLinked, SeedEntries
    <2> QED BY <2>1 DEF Views
  <1>2. /\ e.host = MachineIDByMAC(e.mac, seen[e.id]) /\ seen[e.id] \in SUBSET Hosts
        /\ f.host = MachineIDByMAC(f.mac, seen[f.id]) /\ seen[f.id] \in SUBSET Hosts
    BY <1>1
  <1> QED BY <1>2, LinkCarries

(* Two machines share a host only if it has both their MACs, whatever each *)
(* look at libvirt shows.                                                  *)
THEOREM NoHostShared == Spec => []HostsNotShared
  BY TypeInit, TypeStep, LinksAreOwn, PTL DEF Spec

LEMMA AnswersListed == TypeOK => InventoryComplete
  <1> SUFFICES ASSUME TypeOK, cron.table # "none", NEW i \in cron.ids
               PROVE  /\ \E e \in Answer(cron.table, cron.ids) : e.id = i
                      /\ \A e \in Answer(cron.table, cron.ids) :
                            e.id = i /\ Tracked[cron.table][i] # Absent => e.row = Tracked[cron.table][i]
    BY DEF InventoryComplete
  <1>1. cron.table \in {"prefix", "nsg", "tenant"} /\ cron.ids # {}
    BY DEF TypeOK, Tracked
  <1> DEFINE t == Tracked[cron.table]
             madeUp == IF cron.table = "prefix" THEN NewMockVpcPrefix ELSE NoValue
             row(j) == IF t[j] = Absent THEN madeUp ELSE t[j]
  <1>2. Answer(cron.table, cron.ids) = {[id |-> j, row |-> row(j)] : j \in cron.ids}
    <2>1. CASE cron.table = "prefix"
      BY <1>1, <2>1 DEF Answer, Tracked, GetVpcPrefixes
    <2>2. CASE cron.table = "nsg"
      BY <1>1, <2>2 DEF Answer, Tracked, FindNetworkSecurityGroupsByIds
    <2>3. CASE cron.table = "tenant"
      BY <1>1, <2>3 DEF Answer, Tracked, FindTenantsByOrganizationIds
    <2> QED BY <1>1, <2>1, <2>2, <2>3
  <1> HIDE DEF t, madeUp
  <1>3. [id |-> i, row |-> row(i)] \in Answer(cron.table, cron.ids)
    BY <1>2
  <1>4. \A e \in Answer(cron.table, cron.ids) : e.id = i /\ t[i] # Absent => e.row = t[i]
    BY <1>2
  <1> QED BY <1>3, <1>4 DEF t

(* Every id the cron has listed is answered, with its row if it has one.   *)
THEOREM InventoryIsComplete == Spec => []InventoryComplete
  BY TypeInit, TypeStep, AnswersListed, PTL DEF Spec

=============================================================================
