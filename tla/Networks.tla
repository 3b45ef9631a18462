------------------------------ MODULE Networks ------------------------------
(***************************************************************************)
(* VPCs, network segments, VPC prefixes, VPC peerings, and the address an  *)
(* allocation draws from a prefix.  Rows keep the fields that another call *)
(* reads: names, metadata and status counters are left out.                *)
(*                                                                         *)
(* A CIDR is [base, size] in an address space of Space addresses (2^32 in  *)
(* the code), or BadCidr: a text that is no IPv4 CIDR.                     *)
(*                                                                         *)
(* An operator Bug_X is the definition X with a plausible mistake in it.   *)
(***************************************************************************)
EXTENDS Tables

CONSTANTS
    InstIds,           \* instance ids
    Names, NoName,     \* names of VPCs; the empty name
    Space,             \* number of addresses
    Cidrs, BadCidr,    \* well-formed CIDRs; any other text
    DefaultCidr, NoCidr,
    Anywhere           \* an address drawn from no prefix, or given by the caller

ASSUME CidrAssumption ==
    /\ Space \in Nat /\ Space > 4
    /\ \A c \in Cidrs : /\ c.base \in 0..(Space - 1)
                        /\ c.size \in {1, 2} \cup {n \in 4..Space : n = Space \/ 2 * n <= Space}
                        /\ c.base + c.size <= Space
    /\ DefaultCidr \in Cidrs
    /\ BadCidr \notin Cidrs /\ NoCidr \notin Cidrs \cup {BadCidr}
    /\ NoName \notin Names

Prefix   == [cidr : Cidrs \cup {BadCidr}]
Peering  == [vpc : Ids, peer : Ids]
Address  == 0..(Space - 1) \cup {Anywhere}
Drawn    == [prefix : Ids \cup {NoId}, addr : Address]

ASSUME NetworkRowsAssumption ==
    /\ Absent \notin Names /\ Absent \notin Ids
    /\ Absent \notin Prefix /\ Absent \notin Peering /\ Absent \notin Drawn

VARIABLES
    v,      \* VPC id -> name
    ns,     \* segment id -> VPC it was created for
    vp,     \* prefix id -> Prefix
    vpp,    \* peering id -> Peering
    ins     \* instance id -> what its interface drew

networkVars == <<v, ns, vp, vpp, ins>>

-----------------------------------------------------------------------------
(* VPCs and segments. *)

CreateVpc(wanted, name) ==
    /\ name # NoName
    /\ \E i \in NewIds(v, wanted) : v[i] = Absent /\ v' = [v EXCEPT ![i] = name]
    /\ UNCHANGED <<ns, vp, vpp, ins>>

\* an empty name is stored
Bug_UpdateVpc(i, name) ==
    /\ v[i] # Absent
    /\ v' = [v EXCEPT ![i] = name]
    /\ UNCHANGED <<ns, vp, vpp, ins>>

\* An empty name is accepted and changes nothing.
UpdateVpc(i, name) ==
    /\ v[i] # Absent
    /\ v' = IF name = NoName THEN v ELSE [v EXCEPT ![i] = name]
    /\ UNCHANGED <<ns, vp, vpp, ins>>

\* Prefixes, peerings and segments of the VPC stay.
DeleteVpc(i) ==
    /\ v[i] # Absent
    /\ v' = [v EXCEPT ![i] = Absent]
    /\ UNCHANGED <<ns, vp, vpp, ins>>

\* The VPC is not looked up, and a caller's id is not honoured.
CreateNetworkSegment(vpc) ==
    /\ \E i \in NewIds(ns, NoId) : ns' = [ns EXCEPT ![i] = vpc]
    /\ UNCHANGED <<v, vp, vpp, ins>>

DeleteNetworkSegment(i) ==
    /\ ns[i] # Absent
    /\ ns' = [ns EXCEPT ![i] = Absent]
    /\ UNCHANGED <<v, vp, vpp, ins>>

-----------------------------------------------------------------------------
(* Peerings. *)

\* only one direction compared
Bug_PeeringMatchesPair(p, a, b) == p.vpc = a /\ p.peer = b

PeeringMatchesPair(p, a, b) == \/ p.vpc = a /\ p.peer = b
                               \/ p.vpc = b /\ p.peer = a

CreateVpcPeering(wanted, a, b) ==
    /\ \E i \in NewIds(vpp, wanted) :
          vpp[i] = Absent /\ vpp' = [vpp EXCEPT ![i] = [vpc |-> a, peer |-> b]]
    /\ \A i \in Known(vpp) : ~PeeringMatchesPair(vpp[i], a, b)
    /\ UNCHANGED <<v, ns, vp, ins>>

DeleteVpcPeering(i) ==
    /\ vpp[i] # Absent
    /\ vpp' = [vpp EXCEPT ![i] = Absent]
    /\ UNCHANGED <<v, ns, vp, ins>>

-----------------------------------------------------------------------------
(* Prefixes. *)

CreateVpcPrefix(wanted, cidr) ==
    /\ \E i \in NewIds(vp, wanted) :
          /\ vp[i] = Absent
          /\ vp' = [vp EXCEPT ![i] = [cidr |-> IF cidr = NoCidr THEN DefaultCidr ELSE cidr]]
    /\ UNCHANGED <<v, ns, vpp, ins>>

\* Addresses drawn earlier stay.
UpdateVpcPrefix(i, cidr) ==
    /\ vp[i] # Absent
    /\ vp' = IF cidr = NoCidr THEN vp ELSE [vp EXCEPT ![i].cidr = cidr]
    /\ UNCHANGED <<v, ns, vpp, ins>>

DeleteVpcPrefix(i) ==
    /\ vp[i] # Absent
    /\ vp' = [vp EXCEPT ![i] = Absent]
    /\ UNCHANGED <<v, ns, vpp, ins>>

-----------------------------------------------------------------------------
(* Addresses. *)

\* rand % maxHost is in 0..(maxHost - 1); of the whole space ^0 - 2 are used.
MaxHost(c) == IF c.size = Space THEN Space - 3 ELSE c.size - 2

\* the + 1 that skips the network address is forgotten
Bug_GenerateIPAddressInCIDR(c) ==
    IF c.size = 1 THEN {c.base}
    ELSE {c.base + n : n \in 0..(MaxHost(c) - 1)}

\* The addresses generateIPAddressInCIDR may return.  None for a /31: the
\* modulo by zero panics.
GenerateIPAddressInCIDR(c) ==
    IF c.size = 1 THEN {c.base}
    ELSE {c.base + (n + 1) : n \in 0..(MaxHost(c) - 1)}

\* A prefix that is unknown, or whose text does not parse, is ignored.
Draws(p) == p \in Ids /\ vp[p] # Absent /\ vp[p].cidr # BadCidr

\* given: the request carries an address, which is taken as it is.
AllocateInstance(i, p, given) ==
    /\ ins[i] = Absent
    /\ \E a \in IF ~given /\ Draws(p) THEN GenerateIPAddressInCIDR(vp[p].cidr)
                                      ELSE {Anywhere} :
          ins' = [ins EXCEPT ![i] = [prefix |-> IF given THEN NoId ELSE p, addr |-> a]]
    /\ UNCHANGED <<v, ns, vp, vpp>>

\* The handler panics, before it has changed anything; no interceptor recovers.
AllocatePanics(i, p) ==
    /\ ins[i] = Absent
    /\ Draws(p)
    /\ vp[p].cidr.size # 1 /\ MaxHost(vp[p].cidr) = 0

ReleaseInstance(i) ==
    /\ ins[i] # Absent
    /\ ins' = [ins EXCEPT ![i] = Absent]
    /\ UNCHANGED <<v, ns, vp, vpp>>

NetworkCall ==
    \/ \E w \in Ids \cup {NoId}, n \in Names \cup {NoName} : CreateVpc(w, n)
    \/ \E i \in Ids, n \in Names \cup {NoName} : UpdateVpc(i, n)
    \/ \E i \in Ids : DeleteVpc(i)
    \/ \E i \in Ids : CreateNetworkSegment(i) \/ DeleteNetworkSegment(i)
    \/ \E w \in Ids \cup {NoId}, a, b \in Ids : CreateVpcPeering(w, a, b)
    \/ \E i \in Ids : DeleteVpcPeering(i)
    \/ \E w \in Ids \cup {NoId}, c \in Cidrs \cup {BadCidr, NoCidr} : CreateVpcPrefix(w, c)
    \/ \E i \in Ids, c \in Cidrs \cup {BadCidr, NoCidr} : UpdateVpcPrefix(i, c)
    \/ \E i \in Ids : DeleteVpcPrefix(i)
    \/ \E i \in InstIds, p \in Ids \cup {NoId}, given \in BOOLEAN : AllocateInstance(i, p, given)
    \/ \E i \in InstIds : ReleaseInstance(i)

NetworkTypeOK ==
    /\ v \in [Ids -> Names \cup {Absent}]
    /\ ns \in [Ids -> Ids \cup {Absent}]
    /\ vp \in [Ids -> Prefix \cup {Absent}]
    /\ vpp \in [Ids -> Peering \cup {Absent}]
    /\ ins \in [InstIds -> Drawn \cup {Absent}]
=============================================================================
