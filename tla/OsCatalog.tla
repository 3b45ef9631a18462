------------------------------ MODULE OsCatalog ------------------------------
(***************************************************************************)
(* OS images, operating systems, and the two lookups an allocation makes   *)
(* in them.  An image keeps whether it has a source to download; an        *)
(* operating system keeps its user data and whether it is active.  The     *)
(* other fields are copied from requests and read by no handler.           *)
(*                                                                         *)
(* An operator Bug_X is the definition X with a plausible mistake in it.   *)
(***************************************************************************)
EXTENDS Tables

CONSTANTS
    Sources, NoSource,   \* source URLs; a blank one
    UserData, NoData,    \* cloud-init texts; none, or a blank one
    Keep                 \* an update request that leaves a field out

OperatingSystem == [data : UserData \cup {NoData}, active : BOOLEAN]

ASSUME OsAssumption ==
    /\ NoSource \notin Sources /\ NoData \notin UserData
    /\ Keep \notin UserData \cup {NoData} /\ Keep \notin BOOLEAN
    /\ Absent \notin Sources \cup {NoSource} /\ Absent \notin OperatingSystem

VARIABLES
    osi,    \* image id -> source
    oss     \* operating system id -> OperatingSystem

osVars == <<osi, oss>>

-----------------------------------------------------------------------------
\* the entry is made anew instead of being completed
Bug_EnsureOperatingSystemStub(i) ==
    oss' = [oss EXCEPT ![i] = [data |-> NoData, active |-> TRUE]]

\* An operating system that is there already keeps its user data.
EnsureOperatingSystemStub(i) ==
    oss' = [oss EXCEPT ![i] =
              [data |-> IF @ = Absent THEN NoData ELSE @.data, active |-> TRUE]]

\* the stub is left to the next update of the image
Bug_CreateOsImage(wanted, src) ==
    /\ \E i \in FreshIds(osi, wanted) : osi[i] = Absent /\ osi' = [osi EXCEPT ![i] = src]
    /\ UNCHANGED oss

CreateOsImage(wanted, src) ==
    \E i \in FreshIds(osi, wanted) :
        /\ osi[i] = Absent
        /\ osi' = [osi EXCEPT ![i] = src]
        /\ EnsureOperatingSystemStub(i)

UpdateOsImage(i, src) ==
    /\ osi[i] # Absent
    /\ osi' = [osi EXCEPT ![i] = src]
    /\ EnsureOperatingSystemStub(i)

\* The operating system goes too, whoever created it.
DeleteOsImage(i) ==
    /\ osi[i] # Absent
    /\ osi' = [osi EXCEPT ![i] = Absent]
    /\ oss' = [oss EXCEPT ![i] = Absent]

CreateOperatingSystem(wanted, data, active) ==
    /\ \E i \in FreshIds(oss, wanted) :
          oss[i] = Absent /\ oss' = [oss EXCEPT ![i] = [data |-> data, active |-> active]]
    /\ UNCHANGED osi

\* There is no call that deletes an operating system.
UpdateOperatingSystem(i, data, active) ==
    /\ oss[i] # Absent
    /\ oss' = [oss EXCEPT ![i] = [data   |-> IF data = Keep THEN @.data ELSE data,
                                  active |-> IF active = Keep THEN @.active ELSE active]]
    /\ UNCHANGED osi

-----------------------------------------------------------------------------
(* What an allocation whose config names image a, operating system b and   *)
(* inline user data d is provisioned with.  The image is looked up under   *)
(* the image id first, the user data under the operating-system id first.  *)

LookupId(first, second) == IF first # NoId THEN first ELSE second

OsImageSource(a, b) ==
    LET i == LookupId(a, b)
    IN IF i = NoId \/ osi[i] = Absent THEN NoSource ELSE osi[i]

ResolveUserData(a, b, d) ==
    LET i == LookupId(b, a)
    IN IF d # NoData THEN d
       ELSE IF i = NoId \/ oss[i] = Absent THEN NoData ELSE oss[i].data

ImageCall ==
    \/ \E w \in Ids \cup {NoId}, s \in Sources \cup {NoSource} : CreateOsImage(w, s)
    \/ \E i \in Ids, s \in Sources \cup {NoSource} : UpdateOsImage(i, s)
    \/ \E i \in Ids : DeleteOsImage(i)

OsCall ==
    \/ ImageCall
    \/ \E w \in Ids \cup {NoId}, d \in UserData \cup {NoData}, a \in BOOLEAN :
          CreateOperatingSystem(w, d, a)
    \/ \E i \in Ids, d \in UserData \cup {NoData, Keep}, a \in BOOLEAN \cup {Keep} :
          UpdateOperatingSystem(i, d, a)

OsTypeOK ==
    /\ osi \in [Ids -> Sources \cup {NoSource, Absent}]
    /\ oss \in [Ids -> OperatingSystem \cup {Absent}]
=============================================================================
