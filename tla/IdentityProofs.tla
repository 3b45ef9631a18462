--------------------------- MODULE IdentityProofs ---------------------------
(***************************************************************************)
(* Proofs about Identity, for every set of organizations and keys, every   *)
(* ttl and overlap and an unbounded number of rotations.                   *)
(***************************************************************************)
EXTENDS Identity, TLAPS

LEMMA ClearFacts ==
    ASSUME NEW s \in OrgState
    PROVE  /\ ClearInactiveSlot(s) \in OrgState
           /\ ActiveKey(ClearInactiveSlot(s)) = ActiveKey(s)
           /\ InactiveKey(ClearInactiveSlot(s)) = NoKey
           /\ ClearInactiveSlot(s).nonActiveSlotExpires = Never
           /\ ClearInactiveSlot(s).slot \in [1..2 -> {s.slot[1], s.slot[2], NoKey}]
BY DEF ClearInactiveSlot, OrgState, ActiveKey, InactiveKey

LEMMA GcFacts ==
    ASSUME NEW s \in OrgState
    PROVE  /\ Gc(s) \in OrgState
           /\ ActiveKey(Gc(s)) = ActiveKey(s)
           /\ Gc(s).slot \in [1..2 -> {s.slot[1], s.slot[2], NoKey}]
           /\ \/ Gc(s) = s
              \/ /\ Gc(s) = ClearInactiveSlot(s)
                 /\ s.nonActiveSlotExpires # Never /\ now >= s.nonActiveSlotExpires
<1>1. s.slot \in [1..2 -> {s.slot[1], s.slot[2], NoKey}]
  BY DEF OrgState
<1> QED BY <1>1, ClearFacts DEF Gc

LEMMA RotateFacts ==
    ASSUME NEW s \in OrgState, NEW k \in Keys, NEW ttl \in Ttls, NEW overlap \in Nat, now \in Nat
    PROVE  /\ Rotate(s, k, ttl, overlap) \in OrgState
           /\ ActiveKey(Rotate(s, k, ttl, overlap)) = k
           /\ InactiveKey(Rotate(s, k, ttl, overlap)) = ActiveKey(s)
           /\ Rotate(s, k, ttl, overlap).nonActiveSlotExpires = now + overlap
           /\ Rotate(s, k, ttl, overlap).slot \in [1..2 -> {s.slot[1], s.slot[2], NoKey, k}]
BY DEF Rotate, ClearInactiveSlot, InactiveSlot, OrgState, ActiveKey, InactiveKey

LEMMA TtlFacts ==
    ASSUME NEW s \in OrgState, NEW ttl \in Ttls
    PROVE  LET t == SetTtl(s, ttl)
           IN /\ t \in OrgState
              /\ t.slot = s.slot /\ t.nonActiveSlotExpires = s.nonActiveSlotExpires
              /\ ActiveKey(t) = ActiveKey(s) /\ InactiveKey(t) = InactiveKey(s)
BY DEF SetTtl, OrgState, ActiveKey, InactiveKey

LEMMA FirstFacts ==
    ASSUME NEW k \in Keys, NEW ttl \in Ttls
    PROVE  /\ FirstState(k, ttl) \in OrgState
           /\ ActiveKey(FirstState(k, ttl)) = k
           /\ InactiveKey(FirstState(k, ttl)) = NoKey
           /\ FirstState(k, ttl).slot \in [1..2 -> {k, NoKey}]
<1>1. [n \in 1..2 |-> IF n = 1 THEN k ELSE NoKey] \in [1..2 -> {k, NoKey}]
  OBVIOUS
<1> QED BY <1>1 DEF FirstState, OrgState, ActiveKey, InactiveKey

LEMMA KeylessFacts ==
    /\ KeylessState \in OrgState
    /\ ActiveKey(KeylessState) = NoKey /\ InactiveKey(KeylessState) = NoKey
    /\ KeylessState.slot \in [1..2 -> {NoKey}]
<1>1. [n \in 1..2 |-> NoKey] \in [1..2 -> {NoKey}]
  OBVIOUS
<1> QED BY <1>1 DEF KeylessState, OrgState, ActiveKey, InactiveKey

-----------------------------------------------------------------------------
(* Types, and the two relations between slots, window and delegations. *)

SlotsUsed == \A o \in Configured :
                 {identityState[o].slot[1], identityState[o].slot[2]} \subseteq used \cup {NoKey}

Struct == TypeOK /\ SlotsUsed /\ DelegationNeedsIdentity /\ RetiredKeyHasEnd

\* What a new value of one organization's state must be like.
GoodState(s) == /\ s \in OrgState
                /\ InactiveKey(s) # NoKey => s.nonActiveSlotExpires # Never

LEMMA StateIsGood ==
    ASSUME Struct, NEW o \in Configured
    PROVE  /\ GoodState(identityState[o])
           /\ identityState[o].slot \in [1..2 -> used \cup {NoKey}]
<1>1. o \in Orgs /\ identityState[o] # Absent BY DEF Configured
<1>2. identityState[o] \in OrgState BY <1>1 DEF Struct, TypeOK
<1>3. {identityState[o].slot[1], identityState[o].slot[2]} \subseteq used \cup {NoKey}
  BY DEF Struct, SlotsUsed
<1>4. identityState[o].slot \in [1..2 -> used \cup {NoKey}]
  BY <1>2, <1>3 DEF OrgState
<1> QED BY <1>2, <1>4 DEF Struct, RetiredKeyHasEnd, GoodState

LEMMA GcIsGood ==
    ASSUME NEW s, GoodState(s)
    PROVE  GoodState(Gc(s)) /\ GoodState(ClearInactiveSlot(s)) /\ GoodState(ClearInactiveSlot(Gc(s)))
<1>1. s \in OrgState BY DEF GoodState
<1>2. GoodState(Gc(s)) BY <1>1, GcFacts, ClearFacts DEF GoodState
<1> QED BY <1>1, <1>2, ClearFacts DEF GoodState

\* One organization gets a good state whose keys are used: the rest follows.
LEMMA PutState ==
    ASSUME Struct, NEW o \in Orgs, NEW s, GoodState(s),
           used' \subseteq Keys, used \subseteq used',
           {s.slot[1], s.slot[2]} \subseteq used' \cup {NoKey},
           identityState' = [identityState EXCEPT ![o] = s],
           made' \in [Orgs -> SUBSET Keys],
           UNCHANGED <<now, tokenDelegations, until>>
    PROVE  Struct'
<1>1. identityState \in [Orgs -> OrgState \cup {Absent}] /\ s \in OrgState
  BY DEF Struct, TypeOK, GoodState
<1>2. s # Absent BY <1>1, AbsentAssumption
<1>3. identityState'[o] = s /\ \A q \in Orgs : q # o => identityState'[q] = identityState[q]
  BY <1>1
<1>4. TypeOK' BY <1>1 DEF Struct, TypeOK
<1>5. Configured' = Configured \cup {o}
  BY <1>2, <1>3 DEF Configured
<1>6. SlotsUsed'
  <2> SUFFICES ASSUME NEW q \in Configured'
               PROVE  {identityState'[q].slot[1], identityState'[q].slot[2]} \subseteq used' \cup {NoKey}
    BY DEF SlotsUsed
  <2>1. CASE q = o BY <1>3, <2>1
  <2>2. CASE q # o
    <3>1. q \in Configured /\ identityState'[q] = identityState[q]
      BY <1>3, <1>5, <2>2 DEF Configured
    <3> QED BY <3>1 DEF Struct, SlotsUsed
  <2> QED BY <2>1, <2>2
<1>7. DelegationNeedsIdentity' BY <1>5 DEF Struct, DelegationNeedsIdentity
<1>8. RetiredKeyHasEnd'
  <2> SUFFICES ASSUME NEW q \in Configured', InactiveKey(identityState'[q]) # NoKey
               PROVE  identityState'[q].nonActiveSlotExpires # Never
    BY DEF RetiredKeyHasEnd, InactiveKey
  <2>1. CASE q = o BY <1>3, <2>1 DEF GoodState
  <2>2. CASE q # o
    <3>1. q \in Configured /\ identityState'[q] = identityState[q]
      BY <1>3, <1>5, <2>2 DEF Configured
    <3> QED BY <3>1 DEF Struct, RetiredKeyHasEnd
  <2> QED BY <2>1, <2>2
<1> QED BY <1>4, <1>6, <1>7, <1>8 DEF Struct

LEMMA SeededStruct ==
    ASSUME NEW k \in Keys
    PROVE  /\ Seeded(k) \in [Orgs -> OrgState \cup {Absent}]
           /\ Seeded(k)[SeedOrg] = FirstState(k, SeedTtl)
           /\ {o \in Orgs : Seeded(k)[o] # Absent} = {SeedOrg}
<1>1. FirstState(k, SeedTtl) \in OrgState BY FirstFacts, IdentityAssumption
<1> QED BY <1>1, IdentityAssumption, AbsentAssumption DEF Seeded

LEMMA AfterSeed ==
    ASSUME NEW k \in Keys, identityState' = Seeded(k), tokenDelegations' = {}, k \in used',
           used' \subseteq Keys, now' \in Nat, until' \in [Keys -> Nat],
           made' = [o \in Orgs |-> IF o = SeedOrg THEN {k} ELSE {}]
    PROVE  Struct'
<1>1. Configured' = {SeedOrg} /\ identityState'[SeedOrg] = FirstState(k, SeedTtl)
  BY SeededStruct DEF Configured
<1>2. TypeOK' BY SeededStruct DEF TypeOK
<1>3. FirstState(k, SeedTtl).slot \in [1..2 -> {k, NoKey}] /\ InactiveKey(FirstState(k, SeedTtl)) = NoKey
  BY FirstFacts, IdentityAssumption
<1>4. SlotsUsed' BY <1>1, <1>3 DEF SlotsUsed
<1>5. RetiredKeyHasEnd' BY <1>1, <1>3 DEF RetiredKeyHasEnd, InactiveKey
<1> QED BY <1>2, <1>4, <1>5 DEF Struct, DelegationNeedsIdentity

LEMMA StructInit == Init => Struct
<1> SUFFICES ASSUME NEW k \in Keys,
                    now = 0 /\ identityState = Seeded(k) /\ tokenDelegations = {},
                    used = {k} /\ made = [o \in Orgs |-> IF o = SeedOrg THEN {k} ELSE {}],
                    until = [x \in Keys |-> 0]
             PROVE  Struct
  BY DEF Init
<1>1. Configured = {SeedOrg} /\ identityState[SeedOrg] = FirstState(k, SeedTtl)
  BY SeededStruct DEF Configured
<1>2. TypeOK BY SeededStruct DEF TypeOK
<1>3. FirstState(k, SeedTtl).slot \in [1..2 -> {k, NoKey}] /\ InactiveKey(FirstState(k, SeedTtl)) = NoKey
  BY FirstFacts, IdentityAssumption
<1>4. SlotsUsed BY <1>1, <1>3 DEF SlotsUsed
<1>5. RetiredKeyHasEnd BY <1>1, <1>3 DEF RetiredKeyHasEnd
<1> QED BY <1>2, <1>4, <1>5 DEF Struct, DelegationNeedsIdentity

LEMMA StructStep == Struct /\ [Next]_vars => Struct'
<1> SUFFICES ASSUME Struct, [Next]_vars PROVE Struct'
  OBVIOUS
<1>1. CASE Tick
  <2>1. now' \in Nat BY <1>1 DEF Tick, Struct, TypeOK
  <2> QED BY <1>1, <2>1 DEF Tick, Struct, TypeOK, SlotsUsed, DelegationNeedsIdentity,
                            RetiredKeyHasEnd, Configured, InactiveKey
<1>2. CASE Restart
  BY <1>2, AfterSeed DEF Restart, Struct, TypeOK
<1>3. CASE SignMachineIdentity
  <2>1. until' \in [Keys -> Nat]
    <3>1. PICK o \in Configured :
            /\ ActiveKey(identityState[o]) # NoKey
            /\ until' = [until EXCEPT ![ActiveKey(identityState[o])] =
                           Later(@, now + identityState[o].ttl)]
      BY <1>3 DEF SignMachineIdentity
    <3> DEFINE k == ActiveKey(identityState[o])
    <3>2. k \in Keys
      BY <3>1, StateIsGood DEF GoodState, OrgState, ActiveKey
    <3>3. identityState[o].ttl \in Ttls \cup {0}
      BY StateIsGood DEF GoodState, OrgState
    <3>4. identityState[o].ttl \in Nat
      BY <3>3, IdentityAssumption
    <3>5. now + identityState[o].ttl \in Nat BY <3>4 DEF Struct, TypeOK
    <3>6. Later(until[k], now + identityState[o].ttl) \in Nat
      BY <3>5, <3>2 DEF Struct, TypeOK, Later
    <3>7. until' = [until EXCEPT ![k] = Later(until[k], now + identityState[o].ttl)]
      BY <3>1
    <3> HIDE DEF k
    <3> QED BY <3>2, <3>6, <3>7 DEF Struct, TypeOK
  <2> QED BY <1>3, <2>1 DEF SignMachineIdentity, Struct, TypeOK, SlotsUsed,
               DelegationNeedsIdentity, RetiredKeyHasEnd, Configured, InactiveKey
<1>4. ASSUME NEW o \in Orgs, NEW ttl \in Ttls, FirstConfiguration(o, ttl)
      PROVE  Struct'
  <2>1. ASSUME NEW k \in Keys \ used, Generate(o, k, FirstState(k, ttl), {})
        PROVE  Struct'
    <3>1. GoodState(FirstState(k, ttl)) /\ FirstState(k, ttl).slot \in [1..2 -> {k, NoKey}]
      BY FirstFacts DEF GoodState
    <3>2. made' \in [Orgs -> SUBSET Keys] /\ used' = used \cup {k}
      BY <2>1 DEF Generate, Struct, TypeOK
    <3>3. {FirstState(k, ttl).slot[1], FirstState(k, ttl).slot[2]} \subseteq used' \cup {NoKey}
      BY <3>1, <3>2
    <3>4. used' \subseteq Keys BY <3>2 DEF Struct, TypeOK
    <3> QED BY <2>1, <3>1, <3>2, <3>3, <3>4, PutState DEF Generate
  <2>2. CASE Update(o, KeylessState) /\ made' = [made EXCEPT ![o] = {}]
    <3>1. GoodState(KeylessState) /\ KeylessState.slot \in [1..2 -> {NoKey}]
      BY KeylessFacts DEF GoodState
    <3>2. made' \in [Orgs -> SUBSET Keys] /\ used' = used /\ used \subseteq Keys
      BY <2>2 DEF Update, Struct, TypeOK
    <3>3. {KeylessState.slot[1], KeylessState.slot[2]} \subseteq used' \cup {NoKey}
      BY <3>1
    <3> QED BY <2>2, <3>1, <3>2, <3>3, PutState DEF Update
  <2> QED BY <1>4, <2>1, <2>2 DEF FirstConfiguration
<1>5. ASSUME NEW o \in Configured, NEW s, GoodState(s), s.slot \in [1..2 -> used \cup {NoKey}],
             Update(o, s), UNCHANGED made
      PROVE  Struct'
  <2>1. {s.slot[1], s.slot[2]} \subseteq used' \cup {NoKey}
    BY <1>5 DEF Update
  <2>2. o \in Orgs /\ used' = used /\ used \subseteq Keys /\ made' \in [Orgs -> SUBSET Keys]
    BY <1>5 DEF Update, Configured, Struct, TypeOK
  <2> QED BY <1>5, <2>1, <2>2, PutState DEF Update
<1>6. ASSUME NEW o \in Orgs, NEW ttl \in Ttls, Reconfiguration(o, ttl)
      PROVE  Struct'
  <2> DEFINE g == Gc(identityState[o])
             t == SetTtl(g, ttl)
  <2>1. o \in Configured BY <1>6 DEF Reconfiguration
  <2>2. GoodState(g) /\ g.slot \in [1..2 -> used \cup {NoKey}]
    BY <2>1, StateIsGood, GcIsGood, GcFacts DEF GoodState
  <2>3. g \in OrgState BY <2>2 DEF GoodState
  <2>4. t \in OrgState /\ t.slot = g.slot /\ t.nonActiveSlotExpires = g.nonActiveSlotExpires
          /\ InactiveKey(t) = InactiveKey(g)
    BY <2>3, TtlFacts
  <2>5. GoodState(t) /\ t.slot \in [1..2 -> used \cup {NoKey}]
    BY <2>2, <2>4 DEF GoodState
  <2> QED BY <1>5, <1>6, <2>1, <2>5 DEF Reconfiguration
<1>7. ASSUME NEW o \in Orgs, NEW ttl \in Ttls, NEW overlap \in Overlaps,
             Rotation(o, ttl, overlap)
      PROVE  Struct'
  <2> DEFINE g == Gc(identityState[o])
  <2>1. o \in Configured BY <1>7 DEF Rotation
  <2>2. GoodState(g) /\ g.slot \in [1..2 -> used \cup {NoKey}]
    BY <2>1, StateIsGood, GcIsGood, GcFacts DEF GoodState
  <2>3. g \in OrgState BY <2>2 DEF GoodState
  <2> HIDE DEF g
  <2>4. ASSUME NEW k \in Keys \ used, Generate(o, k, Rotate(g, k, ttl, overlap), made[o])
        PROVE  Struct'
    <3> DEFINE r == Rotate(g, k, ttl, overlap)
    <3>1. overlap \in Nat /\ now \in Nat BY IdentityAssumption DEF Struct, TypeOK
    <3>2. now + overlap # Never BY <3>1, IdentityAssumption
    <3>3. GoodState(r) /\ r.slot \in [1..2 -> {g.slot[1], g.slot[2], NoKey, k}]
      BY <2>3, <3>1, <3>2, RotateFacts DEF GoodState
    <3>4. {r.slot[1], r.slot[2]} \subseteq used \cup {k, NoKey}
      BY <2>2, <3>3
    <3> HIDE DEF r
    <3>5. made' \in [Orgs -> SUBSET Keys]
      BY <2>1, <2>4 DEF Generate, Struct, TypeOK, Configured
    <3>6. identityState' = [identityState EXCEPT ![o] = r] /\ used' = used \cup {k}
            /\ UNCHANGED <<now, tokenDelegations, until>>
      BY <2>4 DEF Generate, r
    <3> QED BY <3>3, <3>4, <3>5, <3>6, PutState DEF Struct, TypeOK
  <2>5. CASE Update(o, ClearInactiveSlot(g)) /\ UNCHANGED made
    <3>1. GoodState(ClearInactiveSlot(g)) BY <2>2, GcIsGood
    <3>2. ClearInactiveSlot(g).slot \in [1..2 -> used \cup {NoKey}]
      BY <2>2, <2>3, ClearFacts
    <3> QED BY <1>5, <2>1, <2>5, <3>1, <3>2
  <2> QED BY <1>7, <2>4, <2>5 DEF Rotation, g
<1>8. ASSUME NEW o \in Orgs, Read(o)
      PROVE  Struct'
  <2>1. GoodState(Gc(identityState[o])) /\ Gc(identityState[o]).slot \in [1..2 -> used \cup {NoKey}]
    BY <1>8, StateIsGood, GcIsGood, GcFacts DEF GoodState, Read
  <2> QED BY <1>5, <1>8, <2>1 DEF Read
<1>9. ASSUME NEW o \in Orgs, DeleteTenantIdentityConfiguration(o)
      PROVE  Struct'
  <2>1. Configured' = Configured \ {o}
    BY <1>9 DEF DeleteTenantIdentityConfiguration, Configured, Struct, TypeOK
  <2>2. \A q \in Configured' : identityState'[q] = identityState[q]
    BY <1>9, <2>1 DEF DeleteTenantIdentityConfiguration, Configured, Struct, TypeOK
  <2>3. SlotsUsed' /\ RetiredKeyHasEnd' /\ DelegationNeedsIdentity'
    BY <1>9, <2>1, <2>2 DEF DeleteTenantIdentityConfiguration, Struct, SlotsUsed,
         RetiredKeyHasEnd, DelegationNeedsIdentity, InactiveKey
  <2>4. TypeOK' BY <1>9 DEF DeleteTenantIdentityConfiguration, Struct, TypeOK
  <2> QED BY <2>3, <2>4 DEF Struct
<1>10. ASSUME NEW o \in Orgs, SetTokenDelegation(o) \/ DeleteTokenDelegation(o)
       PROVE  Struct'
  BY <1>10 DEF SetTokenDelegation, DeleteTokenDelegation, Struct, TypeOK, SlotsUsed,
               DelegationNeedsIdentity, RetiredKeyHasEnd, Configured, InactiveKey
<1>11. CASE UNCHANGED vars
  BY <1>11 DEF vars, Struct, TypeOK, SlotsUsed, DelegationNeedsIdentity,
               RetiredKeyHasEnd, Configured, InactiveKey
<1> QED BY <1>1, <1>2, <1>3, <1>4, <1>6, <1>7, <1>8, <1>9, <1>10, <1>11
        DEF Next, SetTenantIdentityConfiguration, GetPanics

LEMMA StructAlways == Spec => []Struct
BY StructInit, StructStep, PTL DEF Spec

\* The type invariant of the identity state.
THEOREM TypeCorrect == Spec => []TypeOK
<1>1. Struct => TypeOK BY DEF Struct
<1> QED BY <1>1, StructAlways, PTL

\* Whatever fails, no key stays published for ever after it was rotated out.
THEOREM RetiredKeysEnd == Spec => []RetiredKeyHasEnd
<1>1. Struct => RetiredKeyHasEnd BY DEF Struct
<1> QED BY <1>1, StructAlways, PTL

\* A token delegation never outlives the identity configuration it needs.
THEOREM DelegationsHaveIdentity == Spec => []DelegationNeedsIdentity
<1>1. Struct => DelegationNeedsIdentity BY DEF Struct
<1> QED BY <1>1, StructAlways, PTL

-----------------------------------------------------------------------------
(* Tokens stay verifiable. *)

\* What the callers must do: no rotation inside an overlap window, and overlaps
\* that cover every ttl in use, not only the new one that the code compares with.
Discipline == RotationsWait /\ \A ttl \in Ttls, overlap \in Overlaps : ttl <= overlap

UnusedUnsigned == \A k \in Keys : k \notin used => until[k] = 0

Bounded == \A k \in Keys, overlap \in Overlaps : until[k] <= now + overlap

\* A key with a live token signs now, or is in the window that covers the token.
Covered(o) == \A k \in made[o] : now < until[k] =>
    \/ k = ActiveKey(identityState[o])
    \/ /\ k = InactiveKey(identityState[o])
       /\ identityState[o].nonActiveSlotExpires # Never
       /\ until[k] <= identityState[o].nonActiveSlotExpires

Life == Struct /\ UnusedUnsigned /\ Bounded /\ \A o \in Configured : Covered(o)

LEMMA MadeAreKeys == ASSUME Struct, NEW o \in Orgs, NEW k \in made[o]
                     PROVE  k \in Keys /\ until[k] \in Nat /\ now \in Nat
BY DEF Struct, TypeOK

\* A collection never removes the key of a live token.
LEMMA GcCovers ==
    ASSUME Life, NEW o \in Configured, NEW k \in made[o], now < until[k]
    PROVE  LET g == Gc(identityState[o])
           IN \/ k = ActiveKey(g)
              \/ /\ k = InactiveKey(g) /\ g.nonActiveSlotExpires # Never
                 /\ until[k] <= g.nonActiveSlotExpires
<1> DEFINE st == identityState[o]
<1>1. st \in OrgState BY StateIsGood DEF Life, GoodState
<1>2. k \in Keys /\ until[k] \in Nat /\ now \in Nat
  BY MadeAreKeys DEF Life, Configured
<1>3. CASE k = ActiveKey(st) BY <1>1, <1>3, GcFacts
<1>4. CASE /\ k = InactiveKey(st) /\ st.nonActiveSlotExpires # Never
           /\ until[k] <= st.nonActiveSlotExpires
  <2>1. st.nonActiveSlotExpires \in Nat BY <1>1, <1>4 DEF OrgState
  <2>2. ~(now >= st.nonActiveSlotExpires) BY <1>2, <1>4, <2>1
  <2> QED BY <1>4, <2>2 DEF Gc
<1> QED BY <1>3, <1>4 DEF Life, Covered

LEMMA LifeImplies == Life => TokensVerify
<1> SUFFICES ASSUME Life, NEW o \in Configured, NEW k \in made[o], now < until[k]
             PROVE  k \in Published(identityState[o])
  BY DEF TokensVerify
<1>1. k \in Keys BY MadeAreKeys DEF Life, Configured
<1> QED BY <1>1, GcCovers, IdentityAssumption DEF Published

\* The state of o changes to one that still covers its live tokens.
LEMMA PutCovered ==
    ASSUME Life, NEW o \in Orgs, NEW s, Struct',
           UnusedUnsigned', UNCHANGED <<now, until>>,
           identityState' = [identityState EXCEPT ![o] = s],
           NEW keys, made' = [made EXCEPT ![o] = keys],
           \A k \in keys : now < until[k] =>
               \/ k = ActiveKey(s)
               \/ /\ k = InactiveKey(s) /\ s.nonActiveSlotExpires # Never
                  /\ until[k] <= s.nonActiveSlotExpires
    PROVE  Life'
<1>1. identityState'[o] = s /\ made'[o] = keys
  BY DEF Life, Struct, TypeOK
<1>2. \A q \in Orgs : q # o => identityState'[q] = identityState[q] /\ made'[q] = made[q]
  BY DEF Life, Struct, TypeOK
<1>3. Bounded' BY DEF Life, Bounded
<1>4. ASSUME NEW q \in Configured' PROVE Covered(q)'
  <2>1. CASE q = o BY <1>1, <2>1 DEF Covered, ActiveKey, InactiveKey
  <2>2. CASE q # o
    <3>1. q \in Configured BY <1>2, <2>2 DEF Configured
    <3>2. identityState'[q] = identityState[q] /\ made'[q] = made[q]
      BY <1>2, <2>2 DEF Configured
    <3> QED BY <3>1, <3>2 DEF Life, Covered, ActiveKey, InactiveKey
  <2> QED BY <2>1, <2>2
<1> QED BY <1>3, <1>4 DEF Life

\* A fresh key has signed nothing.
LEMMA FreshIsUnsigned ==
    ASSUME Life, NEW k \in Keys, k \notin used, used' = used \cup {k}, UNCHANGED until
    PROVE  UnusedUnsigned' /\ until[k] = 0
BY DEF Life, UnusedUnsigned

LEMMA LifeStep ==
    ASSUME Discipline, Life, [Next]_vars
    PROVE  Life'
<1>0. Struct /\ Struct' /\ now \in Nat /\ until \in [Keys -> Nat]
  BY StructStep DEF Life, Struct, TypeOK
<1>1. CASE Tick
  <2>1. \A o \in Configured : Covered(o)'
    <3> SUFFICES ASSUME NEW o \in Configured, NEW k \in made[o], now + 1 < until[k]
                 PROVE  \/ k = ActiveKey(identityState[o])
                        \/ /\ k = InactiveKey(identityState[o])
                           /\ identityState[o].nonActiveSlotExpires # Never
                           /\ until[k] <= identityState[o].nonActiveSlotExpires
      BY <1>1 DEF Tick, Covered, ActiveKey, InactiveKey
    <3>1. until[k] \in Nat BY <1>0, MadeAreKeys DEF Configured
    <3>2. now < until[k] BY <1>0, <3>1
    <3> QED BY <3>2 DEF Life, Covered
  <2>2. Bounded'
    <3> SUFFICES ASSUME NEW k \in Keys, NEW overlap \in Overlaps
                 PROVE  until[k] <= now + 1 + overlap
      BY <1>1 DEF Tick, Bounded
    <3>1. until[k] <= now + overlap BY DEF Life, Bounded
    <3>2. until[k] \in Nat /\ overlap \in Nat BY <1>0, IdentityAssumption
    <3> QED BY <1>0, <3>1, <3>2
  <2> QED BY <1>0, <1>1, <2>1, <2>2 DEF Tick, Life, UnusedUnsigned, Configured
<1>2. CASE Restart
  <2>1. PICK k \in Keys \ used :
          /\ identityState' = Seeded(k) /\ used' = used \cup {k}
          /\ made' = [o \in Orgs |-> IF o = SeedOrg THEN {k} ELSE {}]
          /\ UNCHANGED <<now, until>>
    BY <1>2 DEF Restart
  <2>2. UnusedUnsigned' /\ until[k] = 0 BY <2>1, FreshIsUnsigned
  <2>3. \A o \in Orgs : \A x \in made'[o] : ~(now' < until'[x])
    BY <1>0, <2>1, <2>2
  <2>4. \A o \in Configured' : Covered(o)' BY <2>3 DEF Covered, Configured
  <2>5. Bounded' BY <2>1 DEF Life, Bounded
  <2> QED BY <1>0, <2>2, <2>4, <2>5 DEF Life
<1>3. CASE SignMachineIdentity
  <2>1. PICK o \in Configured :
          /\ Configured = {o} /\ ActiveKey(identityState[o]) # NoKey
          /\ until' = [until EXCEPT ![ActiveKey(identityState[o])] =
                         Later(@, now + identityState[o].ttl)]
          /\ UNCHANGED <<now, identityState, tokenDelegations, used, made>>
    BY <1>3 DEF SignMachineIdentity
  <2> DEFINE st == identityState[o]
             k == ActiveKey(st)
  <2>2. st \in OrgState /\ st.slot \in [1..2 -> used \cup {NoKey}]
    BY <1>0, StateIsGood DEF GoodState
  <2>3. k \in Keys /\ k \in used BY <2>1, <2>2 DEF ActiveKey, OrgState
  <2>4. st.ttl \in Ttls \cup {0} BY <2>2 DEF OrgState
  <2>5. st.ttl \in Nat BY <2>4, IdentityAssumption
  <2>6. \A x \in Keys : x # k => until'[x] = until[x]
    BY <1>0, <2>1
  <2>7. until'[k] = Later(until[k], now + st.ttl)
    BY <1>0, <2>1, <2>3
  <2>8. Bounded'
    <3> SUFFICES ASSUME NEW x \in Keys, NEW overlap \in Overlaps
                 PROVE  until'[x] <= now + overlap
      BY <2>1 DEF Bounded
    <3>1. until[x] <= now + overlap BY DEF Life, Bounded
    <3>2. st.ttl <= overlap
      <4> HIDE DEF st
      <4>1. overlap \in Nat BY IdentityAssumption
      <4>2. CASE st.ttl \in Ttls BY <4>2 DEF Discipline
      <4>3. CASE st.ttl = 0 BY <4>1, <4>3
      <4> QED BY <2>4, <4>2, <4>3
    <3>3. now + st.ttl <= now + overlap BY <1>0, <2>5, <3>2, IdentityAssumption
    <3> HIDE DEF k, st
    <3> QED BY <2>6, <2>7, <3>1, <3>3 DEF Later
  <2>9. \A q \in Configured' : Covered(q)'
    <3> SUFFICES ASSUME NEW x \in made[o], now < until'[x], x # k
                 PROVE  /\ x = InactiveKey(st) /\ st.nonActiveSlotExpires # Never
                        /\ until'[x] <= st.nonActiveSlotExpires
      BY <2>1 DEF Covered, Configured, ActiveKey, InactiveKey
    <3>1. until'[x] = until[x] BY <1>0, <2>6, MadeAreKeys DEF Configured
    <3> QED BY <3>1 DEF Life, Covered
  <2>10. UnusedUnsigned' BY <2>1, <2>3, <2>6 DEF Life, UnusedUnsigned
  <2> QED BY <1>0, <2>8, <2>9, <2>10 DEF Life
<1>4. ASSUME NEW o \in Orgs, NEW ttl \in Ttls, FirstConfiguration(o, ttl)
      PROVE  Life'
  <2>1. ASSUME NEW k \in Keys \ used, Generate(o, k, FirstState(k, ttl), {})
        PROVE  Life'
    <3>1. UnusedUnsigned' /\ until[k] = 0 BY <2>1, FreshIsUnsigned DEF Generate
    <3>2. \A x \in {k} : ~(now < until[x]) BY <1>0, <3>1
    <3>3. {} \cup {k} = {k} OBVIOUS
    <3> QED BY <1>0, <2>1, <3>1, <3>2, <3>3, PutCovered DEF Generate
  <2>2. CASE Update(o, KeylessState) /\ made' = [made EXCEPT ![o] = {}]
    <3> DEFINE s == KeylessState
               none == {}
    <3>1. UnusedUnsigned' BY <2>2 DEF Update, Life, UnusedUnsigned
    <3>2. identityState' = [identityState EXCEPT ![o] = s] /\ UNCHANGED <<now, until>>
      BY <2>2 DEF Update
    <3>3. made' = [made EXCEPT ![o] = none] BY <2>2
    <3>4. \A x \in none : FALSE OBVIOUS
    <3> HIDE DEF s, none
    <3> QED BY <1>0, <3>1, <3>2, <3>3, <3>4, PutCovered
  <2> QED BY <1>4, <2>1, <2>2 DEF FirstConfiguration
<1>5. ASSUME NEW o \in Configured, NEW s, Update(o, s), UNCHANGED made,
             \A k \in made[o] : now < until[k] =>
               \/ k = ActiveKey(s)
               \/ /\ k = InactiveKey(s) /\ s.nonActiveSlotExpires # Never
                  /\ until[k] <= s.nonActiveSlotExpires
      PROVE  Life'
  <2>1. o \in Orgs BY DEF Configured
  <2>2. made' = [made EXCEPT ![o] = made[o]] BY <1>0, <1>5 DEF Struct, TypeOK
  <2>3. UnusedUnsigned' BY <1>5 DEF Update, Life, UnusedUnsigned
  <2> QED BY <1>0, <1>5, <2>1, <2>2, <2>3, PutCovered DEF Update
<1>6. ASSUME NEW o \in Orgs, NEW ttl \in Ttls, Reconfiguration(o, ttl)
      PROVE  Life'
  <2>1. o \in Configured BY <1>6 DEF Reconfiguration
  <2>2. Gc(identityState[o]) \in OrgState
    BY <1>0, <2>1, StateIsGood, GcFacts DEF GoodState
  <2> QED BY <1>5, <1>6, <2>1, <2>2, GcCovers, TtlFacts DEF Reconfiguration
<1>7. ASSUME NEW o \in Orgs, Read(o)
      PROVE  Life'
  BY <1>5, <1>7, GcCovers DEF Read
<1>8. ASSUME NEW o \in Configured, NEW ttl \in Ttls, NEW overlap \in Overlaps,
             MayRotate(o), Rotation(o, ttl, overlap)
      PROVE  Life'
  <2> DEFINE g == Gc(identityState[o])
  <2>1. g \in OrgState /\ g.nonActiveSlotExpires = Never
    BY <1>0, <1>8, StateIsGood, GcFacts DEF GoodState, MayRotate, Discipline
  <2>2. \A x \in made[o] : now < until[x] => x = ActiveKey(g)
    BY <2>1, GcCovers
  <2> HIDE DEF g
  <2>3. ASSUME NEW k \in Keys \ used, Generate(o, k, Rotate(g, k, ttl, overlap), made[o])
        PROVE  Life'
    <3> DEFINE r == Rotate(g, k, ttl, overlap)
    <3>1. overlap \in Nat /\ now + overlap \in Nat /\ now + overlap # Never
      BY <1>0, IdentityAssumption
    <3>2. InactiveKey(r) = ActiveKey(g) /\ r.nonActiveSlotExpires = now + overlap
      BY <1>0, <2>1, <3>1, RotateFacts
    <3>3. UnusedUnsigned' /\ until[k] = 0 BY <2>3, FreshIsUnsigned DEF Generate
    <3>4. ASSUME NEW x \in made[o] \cup {k}, now < until[x]
          PROVE  /\ x = InactiveKey(r) /\ r.nonActiveSlotExpires # Never
                 /\ until[x] <= r.nonActiveSlotExpires
      <4>1. x # k BY <1>0, <3>3, <3>4
      <4>2. x \in made[o] /\ x = ActiveKey(g) BY <2>2, <3>4, <4>1
      <4>3. x \in Keys BY <1>0, <4>2, MadeAreKeys DEF Configured
      <4>4. until[x] <= now + overlap BY <4>3 DEF Life, Bounded
      <4> QED BY <3>1, <3>2, <4>2, <4>4
    <3> HIDE DEF r
    <3>5. identityState' = [identityState EXCEPT ![o] = r]
            /\ made' = [made EXCEPT ![o] = made[o] \cup {k}] /\ UNCHANGED <<now, until>>
      BY <2>3 DEF Generate, r
    <3> QED BY <1>0, <3>3, <3>4, <3>5, PutCovered DEF Configured
  <2>4. CASE Update(o, ClearInactiveSlot(g)) /\ UNCHANGED made
    BY <1>5, <2>1, <2>2, <2>4, ClearFacts
  <2> QED BY <1>8, <2>3, <2>4 DEF Rotation, g
<1>9. ASSUME NEW o \in Orgs, DeleteTenantIdentityConfiguration(o)
      PROVE  Life'
  <2>1. \A q \in Configured' : /\ q \in Configured /\ identityState'[q] = identityState[q]
                               /\ made'[q] = made[q]
    BY <1>0, <1>9 DEF DeleteTenantIdentityConfiguration, Configured, Struct, TypeOK
  <2>2. \A q \in Configured' : Covered(q)'
    BY <1>9, <2>1 DEF DeleteTenantIdentityConfiguration, Life, Covered, ActiveKey, InactiveKey
  <2> QED BY <1>0, <1>9, <2>2 DEF DeleteTenantIdentityConfiguration, Life, UnusedUnsigned, Bounded
<1>10. ASSUME NEW o \in Orgs, SetTokenDelegation(o) \/ DeleteTokenDelegation(o)
       PROVE  Life'
  BY <1>0, <1>10 DEF SetTokenDelegation, DeleteTokenDelegation, Life, UnusedUnsigned, Bounded,
               Covered, Configured, ActiveKey, InactiveKey
<1>11. CASE UNCHANGED vars
  BY <1>0, <1>11 DEF vars, Life, UnusedUnsigned, Bounded, Covered, Configured,
               ActiveKey, InactiveKey
<1> QED BY <1>1, <1>2, <1>3, <1>4, <1>6, <1>7, <1>8, <1>9, <1>10, <1>11
        DEF Next, SetTenantIdentityConfiguration, GetPanics

LEMMA LifeInit == Init => Life
<1> SUFFICES ASSUME Init PROVE Life
  OBVIOUS
<1>1. Struct BY StructInit
<1>2. now = 0 /\ until = [x \in Keys |-> 0] BY DEF Init
<1>3. UnusedUnsigned BY <1>2 DEF UnusedUnsigned
<1>4. Bounded BY <1>2, IdentityAssumption DEF Bounded
<1>5. \A o \in Configured : Covered(o)
  BY <1>1, <1>2, MadeAreKeys DEF Covered, Configured
<1> QED BY <1>1, <1>3, <1>4, <1>5 DEF Life

\* If callers wait for the end of a window before they rotate again, and every
\* overlap covers every ttl in use, no live token is ever without its key.
THEOREM LiveTokensVerify ==
    ASSUME Discipline
    PROVE  Spec => []TokensVerify
<1>1. Life /\ [Next]_vars => Life'
  BY LifeStep
<1> QED BY <1>1, LifeInit, LifeImplies, PTL DEF Spec
=============================================================================
