----------------------------- MODULE SiteTables -----------------------------
(***************************************************************************)
(* The server's remaining tables together: any handler, the save that      *)
(* follows it, crashes and restarts, and the site agent's inventory cron   *)
(* that lists ids with one call and asks for the rows with a later one.    *)
(*                                                                         *)
(* A call is one step and its save another, which is all that module       *)
(* ForgeServer leaves of the mutex, the temp file and the rename: it shows *)
(* that they implement DurableState, and they are not repeated here.       *)
(*                                                                         *)
(* An operator Bug_X is the definition X with a plausible mistake in it.   *)
(***************************************************************************)
EXTENDS Networks, OsCatalog, ExpectedHosts, TenantTables, FiniteSets

CONSTANTS
    NoFile,
    EmptyId    \* the instance id "", which an allocation accepts (in InstIds or not)

Snapshot == [v   : [Ids -> Names \cup {Absent}],
             ns  : [Ids -> Ids \cup {Absent}],
             vp  : [Ids -> Prefix \cup {Absent}],
             vpp : [Ids -> Peering \cup {Absent}],
             ins : [InstIds -> Drawn \cup {Absent}],
             osi : [Ids -> Sources \cup {NoSource, Absent}],
             oss : [Ids -> OperatingSystem \cup {Absent}]]

ASSUME NoFileAssumption == NoFile \notin Snapshot /\ Absent \notin Snapshot

VARIABLES
    up,        \* the process serves
    file,      \* the state file: a Snapshot, or NoFile
    dirty,     \* a mutating call has returned and its save has not
    unsaved,   \* the last save failed
    cron       \* the ids the inventory cron has listed and not yet asked for

tables == <<networkVars, osVars, expectedVars, tenantVars>>
vars   == <<tables, up, file, dirty, unsaved, cron>>

-----------------------------------------------------------------------------
(* The snapshot. *)

Export == [v |-> v, ns |-> ns, vp |-> vp, vpp |-> vpp, ins |-> ins,
           osi |-> osi, oss |-> oss]

NoInstance == [i \in InstIds |-> Absent]

EmptySnapshot == [v |-> EmptyMap, ns |-> EmptyMap, vp |-> EmptyMap, vpp |-> EmptyMap,
                  ins |-> NoInstance, osi |-> EmptyMap, oss |-> EmptyMap]

\* applySnapshot without the prefixes
Bug_Load(f) == IF f = NoFile THEN EmptySnapshot ELSE [f EXCEPT !.vp = EmptyMap]

\* applySnapshot over the empty maps of NewFromInventory.  It skips rows without
\* an id; of the nine tables only the instances can hold one.
Load(f) == IF f = NoFile THEN EmptySnapshot
           ELSE [f EXCEPT !.ins = [i \in InstIds |-> IF i = EmptyId THEN Absent ELSE f.ins[i]]]

NotPersisted(expected) ==
    /\ em' = expected
    /\ eps' = NoneExpected /\ es' = NoneExpected /\ er' = NoneExpected
    /\ tt' = EmptyMap /\ tk' = EmptyMap /\ ibp' = EmptyMap /\ nvlp' = EmptyMap
    /\ nsg' = EmptyMap

Memory(s) == /\ v' = s.v /\ ns' = s.ns /\ vp' = s.vp /\ vpp' = s.vpp /\ ins' = s.ins
             /\ osi' = s.osi /\ oss' = s.oss

Init == /\ v = EmptyMap /\ ns = EmptyMap /\ vp = EmptyMap /\ vpp = EmptyMap /\ ins = NoInstance
        /\ osi = EmptyMap /\ oss = EmptyMap
        /\ em = NoneExpected /\ eps = NoneExpected /\ es = NoneExpected /\ er = NoneExpected
        /\ tt = EmptyMap /\ tk = EmptyMap /\ ibp = EmptyMap /\ nvlp = EmptyMap
        /\ nsg = EmptyMap
        /\ up = FALSE /\ file = NoFile /\ dirty = FALSE /\ unsaved = FALSE
        /\ cron = [table |-> "none", ids |-> {}]

\* Run: the expected machines of the inventory, and the state file.
Start == /\ ~up /\ up' = TRUE
         /\ Memory(Load(file)) /\ NotPersisted(Seed)
         /\ unsaved' = FALSE
         /\ UNCHANGED <<file, dirty, cron>>

\* The process is gone, and its maps with it.
Die == /\ up /\ up' = FALSE /\ dirty' = FALSE
       /\ Memory(EmptySnapshot) /\ NotPersisted(NoneExpected)
       /\ UNCHANGED <<file, unsaved, cron>>

Panic == /\ ~dirty
         /\ \E i \in InstIds, p \in Ids : AllocatePanics(i, p)
         /\ Die

-----------------------------------------------------------------------------
(* Calls and saves. *)

Handled == /\ up /\ ~dirty /\ dirty' = TRUE
           /\ UNCHANGED <<up, file, unsaved, cron>>

CallNetwork  == Handled /\ NetworkCall  /\ UNCHANGED <<osVars, expectedVars, tenantVars>>
CallOs       == Handled /\ OsCall       /\ UNCHANGED <<networkVars, expectedVars, tenantVars>>
CallExpected == Handled /\ ExpectedCall /\ UNCHANGED <<networkVars, osVars, tenantVars>>
CallTenant   == Handled /\ TenantCall   /\ UNCHANGED <<networkVars, osVars, expectedVars>>

\* persistState; its error is logged and the call succeeds.
Save == /\ dirty /\ dirty' = FALSE
        /\ \/ file' = Export /\ unsaved' = FALSE
           \/ unsaved' = TRUE /\ UNCHANGED file
        /\ UNCHANGED <<tables, up, cron>>

-----------------------------------------------------------------------------
(* The inventory cron: a call lists ids, a later call asks for the rows.   *)

SearchVpcPrefixes           == Known(vp) \cup {DefaultId}
FindNetworkSecurityGroupIds == Known(nsg) \cup {DefaultId}
FindTenantOrganizationIds   == Known(tt) \cup {DefaultId}

NewMockVpcPrefix == [cidr |-> DefaultCidr]

\* unknown ids are skipped, as the handlers of the other tables do
Bug_GetVpcPrefixes(ids) ==
    LET asked == IF ids = {} THEN SearchVpcPrefixes ELSE ids
    IN {[id |-> i, row |-> vp[i]] : i \in asked \cap Known(vp)}

\* Unknown ids are answered with a row made up on the spot; no ids mean all.
GetVpcPrefixes(ids) ==
    LET asked == IF ids = {} THEN SearchVpcPrefixes ELSE ids
    IN {[id |-> i, row |-> IF vp[i] = Absent THEN NewMockVpcPrefix ELSE vp[i]] : i \in asked}

FindNetworkSecurityGroupsByIds(ids) ==
    LET asked == IF ids = {} THEN FindNetworkSecurityGroupIds ELSE ids
    IN {[id |-> i, row |-> IF nsg[i] = Absent THEN NoValue ELSE nsg[i]] : i \in asked}

FindTenantsByOrganizationIds(ids) ==
    {[id |-> i, row |-> IF tt[i] = Absent THEN NoValue ELSE tt[i]] : i \in ids}

\* The tables whose readers make up rows for ids they do not know.
Tracked == [prefix |-> vp, nsg |-> nsg, tenant |-> tt]

Listed(t) == CASE t = "prefix" -> SearchVpcPrefixes
               [] t = "nsg"    -> FindNetworkSecurityGroupIds
               [] t = "tenant" -> FindTenantOrganizationIds

Answer(t, ids) == CASE t = "prefix" -> GetVpcPrefixes(ids)
                    [] t = "nsg"    -> FindNetworkSecurityGroupsByIds(ids)
                    [] t = "tenant" -> FindTenantsByOrganizationIds(ids)

CronLists == /\ up /\ ~dirty /\ cron.table = "none"
             /\ \E t \in DOMAIN Tracked : cron' = [table |-> t, ids |-> Listed(t)]
             /\ UNCHANGED <<tables, up, file, dirty, unsaved>>

\* It asks and goes on to its next round.
CronAsks == /\ up /\ ~dirty /\ cron.table # "none"
            /\ cron' = [table |-> "none", ids |-> {}]
            /\ UNCHANGED <<tables, up, file, dirty, unsaved>>

Next == \/ Start \/ Die \/ Panic \/ Save \/ CronLists \/ CronAsks
        \/ CallNetwork \/ CallOs \/ CallExpected \/ CallTenant

Spec == Init /\ [][Next]_vars

-----------------------------------------------------------------------------
(* Properties. *)

\* The type of every variable.
TypeOK ==
    /\ NetworkTypeOK /\ OsTypeOK /\ ExpectedTypeOK /\ TenantTypeOK
    /\ up \in BOOLEAN /\ dirty \in BOOLEAN /\ unsaved \in BOOLEAN
    /\ file \in Snapshot \cup {NoFile}
    /\ cron \in [table : DOMAIN Tracked \cup {"none"}, ids : SUBSET Ids]

\* Between calls, unless the last save failed, a crash and a restart would give
\* back every row of every persisted table but an instance without an id:
\* exportSnapshot and applySnapshot name the same maps.
TablesSurvive ==
    up /\ ~dirty /\ ~unsaved =>
        /\ \A t \in DOMAIN Export \ {"ins"} : Load(file)[t] = Export[t]
        /\ \A i \in InstIds \ {EmptyId} : Load(file).ins[i] = ins[i]

\* No two peerings join the same two VPCs, in either direction: neither in
\* memory nor in what a restart would load, after a save that failed included.
PairsDistinct(t) ==
    \A i, j \in Known(t) :
        i # j => {t[i].vpc, t[i].peer} # {t[j].vpc, t[j].peer}

PeeredOnce == PairsDistinct(vpp) /\ PairsDistinct(Load(file).vpp)

\* Every image has the operating system under which an allocation that names
\* the image looks its user data up, now and after a restart, although images
\* and operating systems are created, updated and deleted by separate calls.
ImageHasOs ==
    /\ \A i \in Ids : OsImageSource(i, NoId) # NoSource => oss[i] # Absent
    /\ \A i \in Ids : Load(file).osi[i] # Absent => Load(file).oss[i] # Absent

\* A call on an image never changes the user data that an allocation naming it
\* resolves, unless it deletes the image.
UserDataKept ==
    [][Handled /\ ImageCall =>
         \A i \in Ids :
            osi[i] = Absent \/ osi'[i] # Absent =>
               ResolveUserData(i, NoId, NoData)' = ResolveUserData(i, NoId, NoData)]_vars

\* An address that may be given to a host of c: not the network's own, not the
\* broadcast address.
HostAddress(c, a) ==
    /\ a \in c.base..(c.base + c.size - 1)
    /\ c.size > 2 => a # c.base /\ a # c.base + c.size - 1

\* An allocation that draws from a prefix draws a host address of the CIDR the
\* prefix has at that moment.
HostAddressOnly ==
    [][up /\ up' =>
         \A i \in InstIds : ins[i] = Absent /\ ins'[i] # Absent /\ Draws(ins'[i].prefix) =>
            HostAddress(vp[ins'[i].prefix].cidr, ins'[i].addr)]_vars

\* Every expected machine is in the linked list exactly once, however it came
\* to be expected: seeded, added, updated, or in a batch.
NoneHidden ==
    \A i \in Known(em), seen \in Views :
        Cardinality({e \in GetAllExpectedMachinesLinked(seen) : e.id = i}) = 1

\* Whatever libvirt shows or hides while the list is made, a machine the YAML
\* did not wire is linked to a host seen for it, or else none seen for it has
\* its MAC; and two such machines share a host only if it has both their MACs.
HostsNotShared ==
    \A seen \in Views : LET linked == GetAllExpectedMachinesLinked(seen)
                       IN \A e, f \in linked :
        e.id \notin Seeded /\ f.id \notin Seeded =>
            /\ e.host # NoHost => e.host \in seen[e.id]
            /\ e.host = NoHost => \A h \in seen[e.id] : e.mac \notin HostMacs[h]
            /\ e.host # NoHost /\ e.host = f.host => {e.mac, f.mac} \subseteq HostMacs[e.host]

\* Whatever is deleted or restarted between the two calls of the cron, the
\* second answers each id the first listed, once, with the row it tracks if
\* it tracks one.
InventoryComplete ==
    cron.table # "none" =>
        LET t == Tracked[cron.table]
            answer == Answer(cron.table, cron.ids)
        IN \A i \in cron.ids :
              /\ \E e \in answer : e.id = i
              /\ \A e \in answer : e.id = i /\ t[i] # Absent => e.row = t[i]
=============================================================================
