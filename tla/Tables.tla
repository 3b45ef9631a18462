------------------------------- MODULE Tables -------------------------------
(***************************************************************************)
(* What the maps of NICoServerImpl have in common.  A map is a function    *)
(* over Ids whose value Absent means "no such key".  A handler that        *)
(* refuses its request changes no map and the interceptor then saves       *)
(* nothing: a refused call is a stuttering step, so an action states only  *)
(* when the handler succeeds and what it then does.                        *)
(***************************************************************************)
EXTENDS Integers

CONSTANTS
    Ids,         \* keys of a map (maps share no key, so one set serves most of them)
    DefaultId,   \* the well-known id a map gives to the first unnamed entry
    NoId,        \* a request without an id
    Absent

ASSUME IdsAssumption == DefaultId \in Ids /\ NoId \notin Ids

Known(t) == {i \in DOMAIN t : t[i] # Absent}

EmptyMap == [i \in Ids |-> Absent]

\* The id a create takes: the caller's, else the default one while it is free,
\* else a new uuid (any id the map does not hold).
NewIds(t, wanted) ==
    IF wanted # NoId THEN {wanted}
    ELSE IF t[DefaultId] = Absent THEN {DefaultId}
    ELSE {i \in Ids : t[i] = Absent}

\* The same for a map without a default id.
FreshIds(t, wanted) == IF wanted # NoId THEN {wanted} ELSE {i \in Ids : t[i] = Absent}

Named(list, i) == \E k \in DOMAIN list : list[k].id = i

\* The row a request gives id i: of several entries with that id the last one's.
RowFor(list, i) ==
    list[CHOOSE k \in DOMAIN list :
            /\ list[k].id = i
            /\ \A j \in DOMAIN list : list[j].id = i => j <= k].row
=============================================================================
