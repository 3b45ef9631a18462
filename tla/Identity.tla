------------------------------ MODULE Identity ------------------------------
(***************************************************************************)
(* Machine identity: the signing keys of an organization, their rotation   *)
(* with an overlap window, the tokens signed with them and the JWKS that   *)
(* verifiers fetch.  The handlers are serialized by the interceptor        *)
(* (module ForgeServer); the state is not in the state file.               *)
(*                                                                         *)
(* Requests that are refused change nothing and are left out, except where *)
(* the refusal comes after a change.  Times are whole seconds.             *)
(***************************************************************************)
EXTENDS Naturals, FiniteSets

CONSTANTS
    Orgs, SeedOrg,
    Keys, NoKey,       \* the keys that can be generated: bounds the rotations
    Ttls, SeedTtl,     \* token_ttl_sec of the requests, and of LoadTestIdentity
    Overlaps,          \* signing_key_overlap_sec of the requests
    MaxTime,           \* bound of the clock
    Absent, Never,
    KeyFaults,         \* generateES256KeyMaterial may fail
    RotationsWait      \* callers rotate only when no overlap window is open

ASSUME IdentityAssumption ==
    /\ SeedOrg \in Orgs
    /\ Ttls \subseteq Nat \ {0} /\ SeedTtl \in Ttls
    /\ Overlaps \subseteq Nat
    /\ MaxTime \in Nat
    /\ NoKey \notin Keys /\ Never \notin Nat
    /\ KeyFaults \in BOOLEAN /\ RotationsWait \in BOOLEAN

\* identityOrgState; ttl stands for cfg, and is 0 when cfg is nil
OrgState == [slot : [1..2 -> Keys \cup {NoKey}], currentSlot : 0..2,
             nonActiveSlotExpires : Nat \cup {Never}, ttl : Ttls \cup {0}]

ASSUME AbsentAssumption == Absent \notin OrgState

VARIABLES
    now,
    identityState,
    tokenDelegations,  \* the organizations that have one
    used,              \* keys generated so far
    made,              \* keys of each organization since it was configured
    until              \* expiry of the last token signed with each key

vars == <<now, identityState, tokenDelegations, used, made, until>>

Configured == {o \in Orgs : identityState[o] # Absent}

\* the slot numbers add up to three
Bug_InactiveSlot(s) == 3 - s.currentSlot

InactiveSlot(s) == IF s.currentSlot = 1 THEN 2 ELSE 1

ActiveKey(s) == IF s.currentSlot = 1 THEN s.slot[1] ELSE s.slot[2]

InactiveKey(s) == IF s.currentSlot = 1 THEN s.slot[2] ELSE s.slot[1]

\* the expiry is cleared, the key is not
Bug_ClearInactiveSlot(s) == [s EXCEPT !.nonActiveSlotExpires = Never]

ClearInactiveSlot(s) ==
    [slot |-> [s.slot EXCEPT ![IF s.currentSlot = 1 THEN 2 ELSE 1] = NoKey],
     currentSlot |-> s.currentSlot, nonActiveSlotExpires |-> Never, ttl |-> s.ttl]

\* gcExpiredNonActiveSigningKey
Gc(s) == IF s.nonActiveSlotExpires # Never /\ now >= s.nonActiveSlotExpires
         THEN ClearInactiveSlot(s) ELSE s

\* GetJWKS
Published(s) == {ActiveKey(Gc(s)), InactiveKey(Gc(s))} \ {NoKey}

FirstState(k, ttl) == [slot |-> [n \in 1..2 |-> IF n = 1 THEN k ELSE NoKey],
                       currentSlot |-> 1, nonActiveSlotExpires |-> Never, ttl |-> ttl]

\* What an error of the first key generation leaves in the map.
KeylessState == [slot |-> [n \in 1..2 |-> NoKey], currentSlot |-> 0,
                 nonActiveSlotExpires |-> Never, ttl |-> 0]

\* the new key takes the place of the active one
Bug_Rotate(s, k, ttl, overlap) ==
    LET c == ClearInactiveSlot(s)
    IN [c EXCEPT !.slot = [@ EXCEPT ![IF s.currentSlot = 1 THEN 1 ELSE 2] = k],
                 !.nonActiveSlotExpires = now + overlap, !.ttl = ttl]

Rotate(s, k, ttl, overlap) ==
    [slot |-> [ClearInactiveSlot(s).slot EXCEPT ![InactiveSlot(s)] = k],
     currentSlot |-> InactiveSlot(s),
     nonActiveSlotExpires |-> now + overlap, ttl |-> ttl]

SetTtl(s, ttl) == [s EXCEPT !.ttl = ttl]

-----------------------------------------------------------------------------
\* NewFromInventory: one organization, with a fresh key.
Seeded(k) == [o \in Orgs |-> IF o = SeedOrg THEN FirstState(k, SeedTtl) ELSE Absent]

Init == \E k \in Keys :
        /\ now = 0
        /\ identityState = Seeded(k) /\ tokenDelegations = {}
        /\ used = {k} /\ made = [o \in Orgs |-> IF o = SeedOrg THEN {k} ELSE {}]
        /\ until = [x \in Keys |-> 0]

\* A crash or a shutdown, then a start; nothing of this state is saved.
Restart == \E k \in Keys \ used :
           /\ identityState' = Seeded(k) /\ tokenDelegations' = {}
           /\ used' = used \cup {k}
           /\ made' = [o \in Orgs |-> IF o = SeedOrg THEN {k} ELSE {}]
           /\ UNCHANGED <<now, until>>

Tick == /\ now < MaxTime /\ now' = now + 1
        /\ UNCHANGED <<identityState, tokenDelegations, used, made, until>>

Generate(o, k, s, kept) ==
    /\ used' = used \cup {k}
    /\ made' = [made EXCEPT ![o] = kept \cup {k}]
    /\ identityState' = [identityState EXCEPT ![o] = s]
    /\ UNCHANGED <<now, tokenDelegations, until>>

\* An update of the state of o that generates no key.
Update(o, s) == /\ identityState' = [identityState EXCEPT ![o] = s]
                /\ UNCHANGED <<now, tokenDelegations, used, until>>

\* SetTenantIdentityConfiguration for a new organization; the empty state is
\* in the map before the key is generated.
FirstConfiguration(o, ttl) ==
    /\ identityState[o] = Absent
    /\ \/ \E k \in Keys \ used : Generate(o, k, FirstState(k, ttl), {})
       \/ KeyFaults /\ Update(o, KeylessState) /\ made' = [made EXCEPT ![o] = {}]

\* ... for one that exists, without rotate_key
Reconfiguration(o, ttl) ==
    /\ o \in Configured
    /\ Update(o, SetTtl(Gc(identityState[o]), ttl))
    /\ UNCHANGED made

\* ... and with it; the old inactive key is cleared before the new key is made.
Rotation(o, ttl, overlap) ==
    /\ o \in Configured /\ overlap >= ttl
    /\ LET s == Gc(identityState[o])
       IN \/ \E k \in Keys \ used : Generate(o, k, Rotate(s, k, ttl, overlap), made[o])
          \/ KeyFaults /\ Update(o, ClearInactiveSlot(s)) /\ UNCHANGED made

\* A discipline of the callers that the code does not enforce.
MayRotate(o) == RotationsWait => Gc(identityState[o]).nonActiveSlotExpires = Never

SetTenantIdentityConfiguration(o, ttl) ==
    \/ FirstConfiguration(o, ttl)
    \/ Reconfiguration(o, ttl)
    \/ \E overlap \in Overlaps :
          o \in Configured /\ MayRotate(o) /\ Rotation(o, ttl, overlap)

\* GetTenantIdentityConfiguration, GetJWKS, GetOpenIDConfiguration: reads that
\* collect an expired key first.  The first one dereferences cfg.
Read(o) == /\ o \in Configured
           /\ Update(o, Gc(identityState[o]))
           /\ UNCHANGED made

GetPanics(o) == /\ o \in Configured /\ identityState[o].ttl = 0
                /\ Restart

\* the delegation stays
Bug_DeleteTenantIdentityConfiguration(o) ==
    /\ o \in Configured
    /\ identityState' = [identityState EXCEPT ![o] = Absent]
    /\ made' = [made EXCEPT ![o] = {}]
    /\ UNCHANGED <<now, tokenDelegations, used, until>>

DeleteTenantIdentityConfiguration(o) ==
    /\ o \in Configured
    /\ identityState' = [identityState EXCEPT ![o] = Absent]
    /\ tokenDelegations' = tokenDelegations \ {o}
    /\ made' = [made EXCEPT ![o] = {}]
    /\ UNCHANGED <<now, used, until>>

SetTokenDelegation(o) ==
    /\ o \in Configured
    /\ tokenDelegations' = tokenDelegations \cup {o}
    /\ UNCHANGED <<now, identityState, used, made, until>>

DeleteTokenDelegation(o) ==
    /\ tokenDelegations' = tokenDelegations \ {o}
    /\ UNCHANGED <<now, identityState, used, made, until>>

Later(a, b) == IF a < b THEN b ELSE a

\* Signs only while exactly one organization is configured (resolveSigningOrg).
SignMachineIdentity ==
    \E o \in Configured :
        LET k == ActiveKey(identityState[o])
        IN /\ Configured = {o}
           /\ k # NoKey
           /\ until' = [until EXCEPT ![k] = Later(@, now + identityState[o].ttl)]
           /\ UNCHANGED <<now, identityState, tokenDelegations, used, made>>

Next == \/ Tick \/ Restart \/ SignMachineIdentity
        \/ \E o \in Orgs :
              \/ \E ttl \in Ttls : SetTenantIdentityConfiguration(o, ttl)
              \/ Read(o) \/ GetPanics(o)
              \/ DeleteTenantIdentityConfiguration(o)
              \/ SetTokenDelegation(o) \/ DeleteTokenDelegation(o)

Spec == Init /\ [][Next]_vars

-----------------------------------------------------------------------------
(* Properties. *)

\* The type of every variable.
TypeOK ==
    /\ now \in Nat
    /\ identityState \in [Orgs -> OrgState \cup {Absent}]
    /\ tokenDelegations \subseteq Orgs
    /\ used \subseteq Keys
    /\ made \in [Orgs -> SUBSET Keys]
    /\ until \in [Keys -> Nat]

\* A token that has not expired can be verified with the JWKS of its
\* organization, across rotations, as long as the process runs and the
\* configuration is not deleted.
TokensVerify ==
    \A o \in Configured : \A k \in made[o] :
        now < until[k] => k \in Published(identityState[o])

\* A key that no longer signs has an end: it is not published for ever.
RetiredKeyHasEnd ==
    \A o \in Configured :
        InactiveKey(identityState[o]) # NoKey
            => identityState[o].nonActiveSlotExpires # Never

\* There is no token delegation without an identity configuration.
DelegationNeedsIdentity == tokenDelegations \subseteq Configured
=============================================================================
