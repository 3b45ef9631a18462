---------------------------- MODULE TenantTables ----------------------------
(***************************************************************************)
(* Tenants, tenant keysets, InfiniBand and NVLink partitions and network   *)
(* security groups: no snapshot holds them.  A row is the one field, of    *)
(* those an update may replace, that stands for all of them.               *)
(***************************************************************************)
EXTENDS Tables

CONSTANTS
    Values, NoValue    \* contents of a row; a request that leaves it out

ASSUME ValuesAssumption == NoValue \notin Values /\ Absent \notin Values \cup {NoValue}

VARIABLES
    tt,     \* tenants
    tk,     \* keysets
    ibp,    \* InfiniBand partitions
    nvlp,   \* NVLink logical partitions
    nsg     \* network security groups

tenantVars == <<tt, tk, ibp, nvlp, nsg>>

Given(old, new) == IF new = NoValue THEN old ELSE new

-----------------------------------------------------------------------------
\* A tenant that exists is replaced.
CreateTenant(i, x) == /\ tt' = [tt EXCEPT ![i] = x]
                      /\ UNCHANGED <<tk, ibp, nvlp, nsg>>

\* A tenant that does not exist is created.
UpdateTenant(i, x) ==
    /\ tt' = [tt EXCEPT ![i] = IF @ = Absent THEN x ELSE Given(@, x)]
    /\ UNCHANGED <<tk, ibp, nvlp, nsg>>

CreateTenantKeyset(i, x) == /\ tk[i] = Absent
                            /\ tk' = [tk EXCEPT ![i] = x]
                            /\ UNCHANGED <<tt, ibp, nvlp, nsg>>

\* The content is replaced even by none.
UpdateTenantKeyset(i, x) == /\ tk[i] # Absent
                            /\ tk' = [tk EXCEPT ![i] = x]
                            /\ UNCHANGED <<tt, ibp, nvlp, nsg>>

DeleteTenantKeyset(i) == /\ tk[i] # Absent
                         /\ tk' = [tk EXCEPT ![i] = Absent]
                         /\ UNCHANGED <<tt, ibp, nvlp, nsg>>

\* A partition that has the caller's id is replaced.
CreateIBPartition(wanted, x) ==
    /\ \E i \in NewIds(ibp, wanted) : ibp' = [ibp EXCEPT ![i] = x]
    /\ UNCHANGED <<tt, tk, nvlp, nsg>>

UpdateIBPartition(i, x) == /\ ibp[i] # Absent
                           /\ ibp' = [ibp EXCEPT ![i] = Given(@, x)]
                           /\ UNCHANGED <<tt, tk, nvlp, nsg>>

DeleteIBPartition(i) == /\ ibp[i] # Absent
                        /\ ibp' = [ibp EXCEPT ![i] = Absent]
                        /\ UNCHANGED <<tt, tk, nvlp, nsg>>

\* A partition that has the caller's id is replaced.
CreateNVLinkLogicalPartition(wanted, x) ==
    /\ \E i \in NewIds(nvlp, wanted) : nvlp' = [nvlp EXCEPT ![i] = x]
    /\ UNCHANGED <<tt, tk, ibp, nsg>>

UpdateNVLinkLogicalPartition(i, x) == /\ nvlp[i] # Absent
                                      /\ nvlp' = [nvlp EXCEPT ![i] = Given(@, x)]
                                      /\ UNCHANGED <<tt, tk, ibp, nsg>>

DeleteNVLinkLogicalPartition(i) == /\ nvlp[i] # Absent
                                   /\ nvlp' = [nvlp EXCEPT ![i] = Absent]
                                   /\ UNCHANGED <<tt, tk, ibp, nsg>>

CreateNetworkSecurityGroup(wanted, x) ==
    /\ \E i \in NewIds(nsg, wanted) : nsg[i] = Absent /\ nsg' = [nsg EXCEPT ![i] = x]
    /\ UNCHANGED <<tt, tk, ibp, nvlp>>

UpdateNetworkSecurityGroup(i, x) == /\ nsg[i] # Absent
                                    /\ nsg' = [nsg EXCEPT ![i] = Given(@, x)]
                                    /\ UNCHANGED <<tt, tk, ibp, nvlp>>

DeleteNetworkSecurityGroup(i) == /\ nsg[i] # Absent
                                 /\ nsg' = [nsg EXCEPT ![i] = Absent]
                                 /\ UNCHANGED <<tt, tk, ibp, nvlp>>

TenantCall ==
    \/ \E w \in Ids \cup {NoId}, x \in Values \cup {NoValue} :
          \/ CreateIBPartition(w, x)
          \/ CreateNVLinkLogicalPartition(w, x)
          \/ CreateNetworkSecurityGroup(w, x)
    \/ \E i \in Ids, x \in Values \cup {NoValue} :
          \/ CreateTenant(i, x) \/ UpdateTenant(i, x)
          \/ CreateTenantKeyset(i, x) \/ UpdateTenantKeyset(i, x)
          \/ UpdateIBPartition(i, x) \/ UpdateNVLinkLogicalPartition(i, x)
          \/ UpdateNetworkSecurityGroup(i, x)
    \/ \E i \in Ids : \/ DeleteTenantKeyset(i) \/ DeleteIBPartition(i)
                      \/ DeleteNVLinkLogicalPartition(i) \/ DeleteNetworkSecurityGroup(i)

TenantTypeOK ==
    \A t \in {tt, tk, ibp, nvlp, nsg} : t \in [Ids -> Values \cup {NoValue, Absent}]
=============================================================================
