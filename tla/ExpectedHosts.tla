---------------------------- MODULE ExpectedHosts ----------------------------
(***************************************************************************)
(* What the site expects to find: expected machines, power shelves,        *)
(* switches and racks, and the list that links expected machines to the    *)
(* machines the power filter lets the server see.  A request that lacks an *)
(* id, a MAC or a serial number is refused; in a batch it fails alone,     *)
(* which is an entry with the id NoId.  The inventory lists no expected    *)
(* machine twice under one id.                                             *)
(*                                                                         *)
(* An operator Bug_X is the definition X with a plausible mistake in it.   *)
(***************************************************************************)
EXTENDS Tables, Sequences

CONSTANTS
    ExpectedIds,     \* keys of the maps of this module
    Macs,
    Hosts, NoHost,   \* ids of the inventory's machines, in their sorted order 1..n; none
    HostMacs,        \* host -> MACs of its interfaces, of which it may have several
    Seed,            \* expected machines of the inventory: id -> MAC, or Absent
    SeedLink,        \* id -> the machine_id of its YAML entry, or NoHost
    Serials,         \* serial numbers, rack profiles
    MaxBatch         \* longest batch request

ASSUME ExpectedAssumption ==
    /\ NoId \notin ExpectedIds
    /\ Hosts \subseteq Nat /\ NoHost \notin Hosts /\ HostMacs \in [Hosts -> SUBSET Macs]
    /\ Seed \in [ExpectedIds -> Macs \cup {Absent}] /\ SeedLink \in [ExpectedIds -> Hosts \cup {NoHost}]
    /\ Absent \notin Macs \cup Serials
    /\ MaxBatch \in Nat

VARIABLES
    em, eps, es, er    \* expected machines (id -> MAC), shelves, switches, racks

expectedVars == <<em, eps, es, er>>

NoneExpected == [i \in ExpectedIds |-> Absent]

Batches(rows) ==
    UNION {[1..n -> [id : ExpectedIds, row : rows] \cup [id : {NoId}, row : {NoId}]] : n \in 1..MaxBatch}

-----------------------------------------------------------------------------
(* Expected machines. *)

\* An entry that exists is overwritten.
AddExpectedMachine(i, mac) ==
    /\ em' = [em EXCEPT ![i] = mac]
    /\ UNCHANGED <<eps, es, er>>

UpdateExpectedMachine(i, mac) ==
    /\ em[i] # Absent
    /\ em' = [em EXCEPT ![i] = mac]
    /\ UNCHANGED <<eps, es, er>>

DeleteExpectedMachine(i) ==
    /\ em[i] # Absent
    /\ em' = [em EXCEPT ![i] = Absent]
    /\ UNCHANGED <<eps, es, er>>

\* Entry by entry: of two entries with one id the later wins.
CreateExpectedMachines(list) ==
    /\ em' = [i \in ExpectedIds |-> IF Named(list, i) THEN RowFor(list, i) ELSE em[i]]
    /\ UNCHANGED <<eps, es, er>>

\* An entry whose id is unknown fails alone.
UpdateExpectedMachines(list) ==
    /\ em' = [i \in ExpectedIds |-> IF em[i] # Absent /\ Named(list, i) THEN RowFor(list, i)
                                                                ELSE em[i]]
    /\ UNCHANGED <<eps, es, er>>

\* every expected machine is linked to the first machine seen
Bug_MachineIDByMAC(mac, seen) ==
    IF seen = {} THEN NoHost ELSE CHOOSE h \in seen : \A g \in seen : h <= g

\* The first of the machines seen, in the order of the ids, that has an
\* interface with that MAC.
MachineIDByMAC(mac, seen) ==
    LET carriers == {h \in seen : mac \in HostMacs[h]}
    IN IF carriers = {} THEN NoHost
       ELSE CHOOSE h \in carriers : \A g \in carriers : h <= g

Seeded == Known(Seed)

\* The links of the YAML, as they were read at start.
SeedEntries == {[id |-> i, mac |-> Seed[i], host |-> SeedLink[i]] : i \in Seeded}

\* a list that was seeded is the whole answer
Bug_GetAllExpectedMachinesLinked(seen) ==
    IF Seeded # {} THEN SeedEntries
    ELSE {[id |-> i, mac |-> em[i], host |-> MachineIDByMAC(em[i], seen[i])] : i \in Known(em)}

\* The YAML link wins over an entry of the same id.  libvirt is asked anew for
\* each other entry: seen[i] are the machines it shows when entry i is linked,
\* any of them, none of them, and not the same for two entries.
GetAllExpectedMachinesLinked(seen) ==
    SeedEntries \cup
    {[id |-> i, mac |-> em[i], host |-> MachineIDByMAC(em[i], seen[i])] : i \in Known(em) \ Seeded}

Views == [Known(em) \ Seeded -> SUBSET Hosts]

-----------------------------------------------------------------------------
(* Power shelves, switches, racks. *)

AddExpectedPowerShelf(i, s) == /\ eps' = [eps EXCEPT ![i] = s]
                               /\ UNCHANGED <<em, es, er>>

UpdateExpectedPowerShelf(i, s) == /\ eps[i] # Absent
                                  /\ eps' = [eps EXCEPT ![i] = s]
                                  /\ UNCHANGED <<em, es, er>>

DeleteExpectedPowerShelf(i) == /\ eps[i] # Absent
                               /\ eps' = [eps EXCEPT ![i] = Absent]
                               /\ UNCHANGED <<em, es, er>>

AddExpectedSwitch(i, s) == /\ es' = [es EXCEPT ![i] = s]
                           /\ UNCHANGED <<em, eps, er>>

UpdateExpectedSwitch(i, s) == /\ es[i] # Absent
                              /\ es' = [es EXCEPT ![i] = s]
                              /\ UNCHANGED <<em, eps, er>>

DeleteExpectedSwitch(i) == /\ es[i] # Absent
                           /\ es' = [es EXCEPT ![i] = Absent]
                           /\ UNCHANGED <<em, eps, er>>

AddExpectedRack(i, s) == /\ er' = [er EXCEPT ![i] = s]
                         /\ UNCHANGED <<em, eps, es>>

UpdateExpectedRack(i, s) == /\ er[i] # Absent
                            /\ er' = [er EXCEPT ![i] = s]
                            /\ UNCHANGED <<em, eps, es>>

DeleteExpectedRack(i) == /\ er[i] # Absent
                         /\ er' = [er EXCEPT ![i] = Absent]
                         /\ UNCHANGED <<em, eps, es>>

\* Every rack is checked before the map is emptied; the later of two wins.
ReplaceAllExpectedRacks(list) ==
    /\ \A k \in DOMAIN list : list[k].id # NoId
    /\ er' = [i \in ExpectedIds |-> IF Named(list, i) THEN RowFor(list, i) ELSE Absent]
    /\ UNCHANGED <<em, eps, es>>

DeleteAllExpectedRacks == /\ er' = NoneExpected
                          /\ UNCHANGED <<em, eps, es>>

ExpectedCall ==
    \/ \E i \in ExpectedIds, m \in Macs : AddExpectedMachine(i, m) \/ UpdateExpectedMachine(i, m)
    \/ \E i \in ExpectedIds : DeleteExpectedMachine(i)
    \/ \E list \in Batches(Macs) : CreateExpectedMachines(list) \/ UpdateExpectedMachines(list)
    \/ \E i \in ExpectedIds, s \in Serials : AddExpectedPowerShelf(i, s) \/ UpdateExpectedPowerShelf(i, s)
    \/ \E i \in ExpectedIds, s \in Serials : AddExpectedSwitch(i, s) \/ UpdateExpectedSwitch(i, s)
    \/ \E i \in ExpectedIds, s \in Serials : AddExpectedRack(i, s) \/ UpdateExpectedRack(i, s)
    \/ \E i \in ExpectedIds : \/ DeleteExpectedPowerShelf(i) \/ DeleteExpectedSwitch(i)
                      \/ DeleteExpectedRack(i)
    \/ \E list \in Batches(Serials) : ReplaceAllExpectedRacks(list)
    \/ DeleteAllExpectedRacks

ExpectedTypeOK ==
    /\ em \in [ExpectedIds -> Macs \cup {Absent}]
    /\ eps \in [ExpectedIds -> Serials \cup {Absent}]
    /\ es \in [ExpectedIds -> Serials \cup {Absent}]
    /\ er \in [ExpectedIds -> Serials \cup {Absent}]
=============================================================================
