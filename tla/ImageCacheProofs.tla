-------------------------- MODULE ImageCacheProofs --------------------------
(***************************************************************************)
(* Proofs about ImageCache, for every set of jobs: mutual exclusion inside *)
(* the single-flight group, no unverified image, and, when the cache holds *)
(* no stale file and nothing fails, one download at most.                  *)
(***************************************************************************)
EXTENDS ImageCache, FiniteSetTheorems, TLAPS

\* Whoever is inside the group is the job whose call is registered.
Registered == \A j \in Jobs : Inside(j) => flight = j

Struct == TypeOK /\ Registered

LEMMA StructInit == Init => Struct
BY ImageCacheAssumption DEF Init, Struct, TypeOK, Registered, Inside, PC

LEMMA TypeStep == TypeOK /\ [Next]_vars => TypeOK'
<1> SUFFICES ASSUME TypeOK, [Next]_vars PROVE TypeOK'
  OBVIOUS
<1> USE ImageCacheAssumption DEF TypeOK, PC
<1>1. ASSUME NEW j \in Jobs, Stat(j) PROVE TypeOK'
  BY <1>1 DEF Stat, Miss
<1>2. ASSUME NEW j \in Jobs, Hash(j) PROVE TypeOK'
  <2>1. CASE file = "none" BY <1>2, <2>1 DEF Hash, Return
  <2>2. CASE file = "good" BY <1>2, <2>2 DEF Hash
  <2>3. CASE file = "stale" BY <1>2, <2>3 DEF Hash
  <2> QED BY <2>1, <2>2, <2>3
<1>3. ASSUME NEW j \in Jobs, Remove(j) PROVE TypeOK'
  BY <1>3 DEF Remove, Miss
<1>4. ASSUME NEW j \in Jobs, Open(j) PROVE TypeOK'
  BY <1>4 DEF Open, Return
<1>5. ASSUME NEW j \in Jobs, Do(j) PROVE TypeOK'
  BY <1>5 DEF Do
<1>6. ASSUME NEW j \in Jobs, Fetch(j) PROVE TypeOK'
  BY <1>6 DEF Fetch
<1>7. ASSUME NEW j \in Jobs, Rename(j) PROVE TypeOK'
  BY <1>7 DEF Rename
<1>8. ASSUME NEW j \in Jobs, Leave(j) PROVE TypeOK'
  BY <1>8 DEF Leave, AfterDo
<1>9. ASSUME NEW j \in Jobs, Wake(j) PROVE TypeOK'
  BY <1>9 DEF Wake, AfterDo
<1>10. ASSUME NEW j \in Jobs, IoError(j) PROVE TypeOK'
  BY <1>10 DEF IoError, Return
<1>11. CASE UNCHANGED vars BY <1>11 DEF vars
<1> QED BY <1>1, <1>2, <1>3, <1>4, <1>5, <1>6, <1>7, <1>8, <1>9, <1>10, <1>11 DEF Next, Step

LEMMA RegisteredStep == Struct /\ [Next]_vars => Registered'
<1> SUFFICES ASSUME Struct, [Next]_vars PROVE Registered'
  OBVIOUS
<1> USE ImageCacheAssumption DEF Struct, TypeOK, PC, Registered, Inside
<1>1. ASSUME NEW j \in Jobs, Stat(j) PROVE Registered'
  BY <1>1 DEF Stat, Miss
<1>2. ASSUME NEW j \in Jobs, Hash(j) PROVE Registered'
  <2>1. CASE file = "none" BY <1>2, <2>1 DEF Hash, Return
  <2>2. CASE file = "good" BY <1>2, <2>2 DEF Hash
  <2>3. CASE file = "stale" BY <1>2, <2>3 DEF Hash
  <2> QED BY <2>1, <2>2, <2>3
<1>3. ASSUME NEW j \in Jobs, Remove(j) PROVE Registered'
  BY <1>3 DEF Remove, Miss
<1>4. ASSUME NEW j \in Jobs, Open(j) PROVE Registered'
  BY <1>4 DEF Open, Return
<1>5. ASSUME NEW j \in Jobs, Do(j) PROVE Registered'
  BY <1>5 DEF Do
<1>6. ASSUME NEW j \in Jobs, Fetch(j) PROVE Registered'
  BY <1>6 DEF Fetch
<1>7. ASSUME NEW j \in Jobs, Rename(j) PROVE Registered'
  BY <1>7 DEF Rename
<1>8. ASSUME NEW j \in Jobs, Leave(j) PROVE Registered'
  BY <1>8 DEF Leave, AfterDo
<1>9. ASSUME NEW j \in Jobs, Wake(j) PROVE Registered'
  BY <1>9 DEF Wake, AfterDo
<1>10. ASSUME NEW j \in Jobs, IoError(j) PROVE Registered'
  BY <1>10 DEF IoError, Return
<1>11. CASE UNCHANGED vars BY <1>11 DEF vars
<1> QED BY <1>1, <1>2, <1>3, <1>4, <1>5, <1>6, <1>7, <1>8, <1>9, <1>10, <1>11 DEF Next, Step

LEMMA StructAlways == Spec => []Struct
<1>1. Struct /\ [Next]_vars => Struct'
  BY TypeStep, RegisteredStep DEF Struct
<1> QED BY <1>1, StructInit, PTL DEF Spec

\* At most one goroutine downloads, or renames into place, the file of a
\* digest (imageFlightGroup.do).
THEOREM SingleFlight == Spec => []OneInside
<1>1. Struct => OneInside
  BY DEF Struct, Registered, OneInside
<1> QED BY <1>1, StructAlways, PTL

-----------------------------------------------------------------------------
(* What a job is given. *)

\* Between the digest check and the open the file may go, or be replaced by
\* a fresh download, but a wrong content cannot come back.
Verified == \A j \in Jobs : /\ pc[j] = "open" => file # "stale"
                            /\ pc[j] = "done" => got[j] = "good"

LEMMA VerifiedStep == TypeOK /\ Verified /\ [Next]_vars => Verified'
<1> SUFFICES ASSUME TypeOK, Verified, [Next]_vars PROVE Verified'
  OBVIOUS
<1> USE DEF TypeOK, PC, Verified
<1>1. ASSUME NEW j \in Jobs, Stat(j) PROVE Verified'
  BY <1>1 DEF Stat, Miss
<1>2. ASSUME NEW j \in Jobs, Hash(j) PROVE Verified'
  <2>1. CASE file = "none" BY <1>2, <2>1 DEF Hash, Return
  <2>2. CASE file = "good" BY <1>2, <2>2 DEF Hash
  <2>3. CASE file = "stale" BY <1>2, <2>3 DEF Hash
  <2> QED BY <2>1, <2>2, <2>3
<1>3. ASSUME NEW j \in Jobs, Remove(j) PROVE Verified'
  BY <1>3 DEF Remove, Miss
<1>4. ASSUME NEW j \in Jobs, Open(j) PROVE Verified'
  BY <1>4 DEF Open, Return
<1>5. ASSUME NEW j \in Jobs, Do(j) PROVE Verified'
  BY <1>5 DEF Do
<1>6. ASSUME NEW j \in Jobs, Fetch(j) PROVE Verified'
  BY <1>6 DEF Fetch
<1>7. ASSUME NEW j \in Jobs, Rename(j) PROVE Verified'
  BY <1>7 DEF Rename
<1>8. ASSUME NEW j \in Jobs, Leave(j) PROVE Verified'
  BY <1>8 DEF Leave, AfterDo
<1>9. ASSUME NEW j \in Jobs, Wake(j) PROVE Verified'
  BY <1>9 DEF Wake, AfterDo
<1>10. ASSUME NEW j \in Jobs, IoError(j) PROVE Verified'
  BY <1>10 DEF IoError, Return
<1>11. CASE UNCHANGED vars BY <1>11 DEF vars
<1> QED BY <1>1, <1>2, <1>3, <1>4, <1>5, <1>6, <1>7, <1>8, <1>9, <1>10, <1>11 DEF Next, Step

\* Whatever was in the cache, whatever fails and however the jobs interleave,
\* a reader returned by openCachedOrDownloadImage has the checked digest.
THEOREM VerifiedImages == Spec => []OnlyVerifiedContent
<1>1. Init => Verified
  BY DEF Init, Verified
<1>2. Verified => OnlyVerifiedContent
  BY DEF Verified, OnlyVerifiedContent
<1>3. Struct => TypeOK
  BY DEF Struct
<1> QED BY <1>1, <1>2, <1>3, VerifiedStep, StructAlways, PTL DEF Spec

-----------------------------------------------------------------------------
(* One download. *)

\* The job about to download saw, from inside the group, that there is no
\* file; once somebody downloaded, the file is there or about to be.
Calmly ==
    /\ file # "stale" /\ \A j \in Jobs : pc[j] # "remove"
    /\ \A j \in Jobs : pc[j] = "fetch" => file = "none" /\ fetched = {}
    /\ \A j \in Jobs : j \in fetched => file = "good" \/ pc[j] = "rename"
    /\ \A j, k \in fetched : j = k

FetchInv == calm => Calmly

LEMMA FetchStep ==
    ASSUME Struct, FetchInv, [Next]_vars
    PROVE  FetchInv'
<1> SUFFICES ASSUME calm' PROVE Calmly'
  BY DEF FetchInv
<1>0. calm /\ Calmly
  <2>1. CASE UNCHANGED vars BY <2>1 DEF vars, FetchInv
  <2>2. CASE Next
    BY <2>2 DEF Next, Step, Stat, Hash, Remove, Open, IoError, Do, Fetch, Rename,
                Leave, Wake, FetchInv, vars
  <2> QED BY <2>1, <2>2
<1> USE <1>0 DEF Struct, TypeOK, PC, Registered, Inside, Calmly
<1>1. ASSUME NEW j \in Jobs, Stat(j) PROVE Calmly'
  <2>1. CASE file # "none" BY <1>1, <2>1 DEF Stat
  <2>2. CASE file = "none" /\ site[j] = "inside"
    <3>1. fetched = {}
      <4> SUFFICES ASSUME NEW k \in fetched PROVE FALSE
        OBVIOUS
      <4>1. pc[k] = "rename" BY <2>2
      <4>2. flight = j /\ flight = k BY <1>1, <2>2, <4>1 DEF Stat
      <4> QED BY <1>1, <4>1, <4>2 DEF Stat
    <3> QED BY <1>1, <2>2, <3>1 DEF Stat, Miss
  <2>3. CASE file = "none" /\ site[j] # "inside"
    BY <1>1, <2>3 DEF Stat, Miss
  <2> QED BY <2>1, <2>2, <2>3
<1>2. ASSUME NEW j \in Jobs, Hash(j) PROVE Calmly'
  <2>1. CASE file = "none" BY <1>2, <2>1 DEF Hash, Return
  <2>2. CASE file = "good" BY <1>2, <2>2 DEF Hash
  <2> QED BY <1>2, <2>1, <2>2 DEF Hash
<1>3. ASSUME NEW j \in Jobs, Remove(j) PROVE Calmly'
  BY <1>3 DEF Remove
<1>4. ASSUME NEW j \in Jobs, Open(j) PROVE Calmly'
  BY <1>4 DEF Open, Return
<1>5. ASSUME NEW j \in Jobs, Do(j) PROVE Calmly'
  BY <1>5 DEF Do
<1>6. ASSUME NEW j \in Jobs, Fetch(j) PROVE Calmly'
  <2>1. \A k \in Jobs : k # j => pc[k] # "fetch"
    BY <1>6 DEF Fetch
  <2> QED BY <1>6, <2>1 DEF Fetch
<1>7. ASSUME NEW j \in Jobs, Rename(j) PROVE Calmly'
  BY <1>7 DEF Rename
<1>8. ASSUME NEW j \in Jobs, Leave(j) PROVE Calmly'
  BY <1>8 DEF Leave, AfterDo
<1>9. ASSUME NEW j \in Jobs, Wake(j) PROVE Calmly'
  BY <1>9 DEF Wake, AfterDo
<1>10. ASSUME NEW j \in Jobs, IoError(j) PROVE Calmly'
  BY <1>10 DEF IoError
<1>11. CASE UNCHANGED vars BY <1>11 DEF vars
<1> QED BY <1>1, <1>2, <1>3, <1>4, <1>5, <1>6, <1>7, <1>8, <1>9, <1>10, <1>11 DEF Next, Step

LEMMA AtMostOne == ASSUME NEW S, \A j, k \in S : j = k
                   PROVE  Cardinality(S) <= 1
<1>1. CASE S = {} BY <1>1, FS_EmptySet
<1>2. CASE S # {}
  <2>1. PICK j \in S : TRUE BY <1>2
  <2>2. S = {j} BY <2>1
  <2> QED BY <2>2, FS_Singleton
<1> QED BY <1>1, <1>2

\* The comment of imageDownloadGroup holds as long as the cache started with no
\* stale file and nothing has failed, for any number of concurrent jobs.
THEOREM DownloadedOnce == Spec => []FetchedOnce
<1>1. Init => FetchInv
  BY ImageCacheAssumption DEF Init, FetchInv, Calmly
<1>2. FetchInv => FetchedOnce
  BY AtMostOne DEF FetchInv, Calmly, FetchedOnce, AtMostOneFetch
<1>3. Struct /\ FetchInv /\ [Next]_vars => FetchInv'
  BY FetchStep
<1> QED BY <1>1, <1>2, <1>3, StructAlways, PTL DEF Spec

-----------------------------------------------------------------------------
(* When nothing goes wrong nothing fails: from the first download on the   *)
(* file is there and good, and every ended call ended well.                *)

\* The registered call is running, so that nobody waits for himself.
CallRuns == flight # NoJob => Inside(flight)

Smooth == calm =>
    /\ file # "stale"
    /\ \A j \in Jobs :
         /\ pc[j] \notin {"remove", "failed"}
         /\ err[j] # "error" /\ (err[j] = "ok" => file = "good")
         /\ pc[j] \in {"hash", "open"} \/ site[j] = "after" => file = "good"
         /\ pc[j] = "leave" \/ leader[j] = j => err[j] = "ok"
         /\ pc[j] = "wait" => leader[j] \in Jobs

LEMMA SmoothStep ==
  Struct /\ CallRuns /\ Smooth /\ [Next]_vars => CallRuns' /\ Smooth'
<1> SUFFICES ASSUME Struct, CallRuns, Smooth, [Next]_vars PROVE CallRuns' /\ Smooth'
  OBVIOUS
<1> USE ImageCacheAssumption DEF Struct, TypeOK, PC, Registered, CallRuns, Inside, Smooth
<1>1. ASSUME NEW j \in Jobs, Stat(j) PROVE CallRuns' /\ Smooth'
  BY <1>1 DEF Stat, Miss
<1>2. ASSUME NEW j \in Jobs, Hash(j) PROVE CallRuns' /\ Smooth'
  <2>1. CASE file = "none" BY <1>2, <2>1 DEF Hash, Return
  <2>2. CASE file = "good" BY <1>2, <2>2 DEF Hash
  <2>3. CASE file = "stale" BY <1>2, <2>3 DEF Hash
  <2> QED BY <2>1, <2>2, <2>3
<1>3. ASSUME NEW j \in Jobs, Remove(j) PROVE CallRuns' /\ Smooth'
  BY <1>3 DEF Remove, Miss
<1>4. ASSUME NEW j \in Jobs, Open(j) PROVE CallRuns' /\ Smooth'
  BY <1>4 DEF Open, Return
<1>5. ASSUME NEW j \in Jobs, Do(j) PROVE CallRuns' /\ Smooth'
  BY <1>5 DEF Do
<1>6. ASSUME NEW j \in Jobs, Fetch(j) PROVE CallRuns' /\ Smooth'
  BY <1>6 DEF Fetch
<1>7. ASSUME NEW j \in Jobs, Rename(j) PROVE CallRuns' /\ Smooth'
  BY <1>7 DEF Rename
<1>8. ASSUME NEW j \in Jobs, Leave(j) PROVE CallRuns' /\ Smooth'
  BY <1>8 DEF Leave, AfterDo
<1>9. ASSUME NEW j \in Jobs, Wake(j) PROVE CallRuns' /\ Smooth'
  BY <1>9 DEF Wake, AfterDo
<1>10. ASSUME NEW j \in Jobs, IoError(j) PROVE CallRuns' /\ Smooth'
  BY <1>10 DEF IoError, Return
<1>11. CASE UNCHANGED vars BY <1>11 DEF vars
<1> QED BY <1>1, <1>2, <1>3, <1>4, <1>5, <1>6, <1>7, <1>8, <1>9, <1>10, <1>11 DEF Next, Step

LEMMA SmoothAlways == Spec => [](Struct /\ CallRuns /\ Smooth)
<1>1. Init => CallRuns /\ Smooth
  <2> SUFFICES ASSUME Init PROVE CallRuns /\ Smooth
    OBVIOUS
  <2>1. calm => file # "stale"
    BY DEF Init
  <2>2. \A j \in Jobs : pc[j] = "stat" /\ err[j] = "pending"
                       /\ site[j] = "before" /\ leader[j] # j
    BY ImageCacheAssumption DEF Init
  <2> QED BY <2>1, <2>2 DEF Init, CallRuns, Smooth
<1> QED BY <1>1, SmoothStep, StructAlways, PTL DEF Spec

\* With no stale file and no failing call no job fails, however the jobs race:
\* see NoSpuriousFailure.
THEOREM NothingFailsAlone == Spec => []NoSpuriousFailure
<1>1. Smooth => NoSpuriousFailure
  BY DEF Smooth, NoSpuriousFailure
<1> QED BY <1>1, SmoothAlways, PTL

-----------------------------------------------------------------------------
(* Calls of the single-flight group, and what their jobs wait for. *)

\* A call has an outcome from its last step on, and none before.  A job that
\* waits has joined the call of another, which runs or is over; a job whose own
\* call is over never comes back to the group.
Calls ==
    \A j \in Jobs :
        /\ site[j] = "before" => err[j] = "pending"
        /\ Inside(j) => site[j] = "inside" /\ (err[j] = "pending" <=> pc[j] # "leave")
        /\ pc[j] \in {"do", "wait"} => site[j] = "before"
        /\ pc[j] = "wait" => leader[j] \in Jobs \ {j}
        /\ leader[j] = j => site[j] = "after"

\* Only a cache that was left with a wrong file has one, or a job that found it;
\* once a job downloads there is none.
NoNewStale ==
    /\ file = "stale" => "stale" \in InitialFiles
    /\ \A j \in Jobs : /\ pc[j] = "remove" => "stale" \in InitialFiles
                       /\ pc[j] \in {"fetch", "rename"} => file # "stale"

LEMMA CallsStep == TypeOK /\ CallRuns /\ Calls /\ [Next]_vars => Calls'
<1> SUFFICES ASSUME TypeOK, CallRuns, Calls, [Next]_vars PROVE Calls'
  OBVIOUS
<1> USE ImageCacheAssumption DEF TypeOK, PC, Calls, Inside
<1>1. ASSUME NEW j \in Jobs, Stat(j) PROVE Calls'
  BY <1>1 DEF Stat, Miss
<1>2. ASSUME NEW j \in Jobs, Hash(j) PROVE Calls'
  <2>1. CASE file = "none" BY <1>2, <2>1 DEF Hash, Return
  <2>2. CASE file # "none" BY <1>2, <2>2 DEF Hash
  <2> QED BY <2>1, <2>2
<1>3. ASSUME NEW j \in Jobs, Remove(j) PROVE Calls'
  BY <1>3 DEF Remove, Miss
<1>4. ASSUME NEW j \in Jobs, Open(j) PROVE Calls'
  BY <1>4 DEF Open, Return
<1>5. ASSUME NEW j \in Jobs, Do(j) PROVE Calls'
  BY <1>5 DEF Do, CallRuns
<1>6. ASSUME NEW j \in Jobs, Fetch(j) PROVE Calls'
  BY <1>6 DEF Fetch
<1>7. ASSUME NEW j \in Jobs, Rename(j) PROVE Calls'
  BY <1>7 DEF Rename
<1>8. ASSUME NEW j \in Jobs, Leave(j) PROVE Calls'
  BY <1>8 DEF Leave, AfterDo
<1>9. ASSUME NEW j \in Jobs, Wake(j) PROVE Calls'
  BY <1>9 DEF Wake, AfterDo
<1>10. ASSUME NEW j \in Jobs, IoError(j) PROVE Calls'
  BY <1>10 DEF IoError, Return
<1>11. CASE UNCHANGED vars BY <1>11 DEF vars
<1> QED BY <1>1, <1>2, <1>3, <1>4, <1>5, <1>6, <1>7, <1>8, <1>9, <1>10, <1>11 DEF Next, Step

LEMMA NoNewStaleStep == TypeOK /\ NoNewStale /\ [Next]_vars => NoNewStale'
<1> SUFFICES ASSUME TypeOK, NoNewStale, [Next]_vars PROVE NoNewStale'
  OBVIOUS
<1> USE DEF TypeOK, PC, NoNewStale
<1>1. ASSUME NEW j \in Jobs, Stat(j) PROVE NoNewStale'
  BY <1>1 DEF Stat, Miss
<1>2. ASSUME NEW j \in Jobs, Hash(j) PROVE NoNewStale'
  <2>1. CASE file = "none" BY <1>2, <2>1 DEF Hash, Return
  <2>2. CASE file # "none" BY <1>2, <2>2 DEF Hash
  <2> QED BY <2>1, <2>2
<1>3. ASSUME NEW j \in Jobs, Remove(j) PROVE NoNewStale'
  BY <1>3 DEF Remove, Miss
<1>4. ASSUME NEW j \in Jobs, Open(j) PROVE NoNewStale'
  BY <1>4 DEF Open, Return
<1>5. ASSUME NEW j \in Jobs, Do(j) PROVE NoNewStale'
  BY <1>5 DEF Do
<1>6. ASSUME NEW j \in Jobs, Fetch(j) PROVE NoNewStale'
  BY <1>6 DEF Fetch
<1>7. ASSUME NEW j \in Jobs, Rename(j) PROVE NoNewStale'
  BY <1>7 DEF Rename
<1>8. ASSUME NEW j \in Jobs, Leave(j) PROVE NoNewStale'
  BY <1>8 DEF Leave, AfterDo
<1>9. ASSUME NEW j \in Jobs, Wake(j) PROVE NoNewStale'
  BY <1>9 DEF Wake, AfterDo
<1>10. ASSUME NEW j \in Jobs, IoError(j) PROVE NoNewStale'
  BY <1>10 DEF IoError, Return
<1>11. CASE UNCHANGED vars BY <1>11 DEF vars
<1> QED BY <1>1, <1>2, <1>3, <1>4, <1>5, <1>6, <1>7, <1>8, <1>9, <1>10, <1>11 DEF Next, Step

LEMMA CallsAlways == Spec => [](Struct /\ CallRuns /\ Smooth /\ Calls /\ NoNewStale)
<1>1. Init => Calls /\ NoNewStale
  BY ImageCacheAssumption DEF Init, Calls, NoNewStale, Inside
<1>2. Struct => TypeOK
  BY DEF Struct
<1> QED BY <1>1, <1>2, CallsStep, NoNewStaleStep, SmoothAlways, PTL DEF Spec

\* As long as a job has not ended, some job can take a step: nobody waits for a
\* call that nobody runs (imageFlightGroup.do).
CanGo(j) == \/ pc[j] \notin {"done", "failed", "wait"}
            \/ pc[j] = "wait" /\ leader[leader[j]] = leader[j]

\* The call that a job has joined runs, or is over.
Joined == \A j \in Jobs : pc[j] = "wait" =>
                Inside(leader[j]) \/ leader[leader[j]] = leader[j]

LEMMA JoinedStep == TypeOK /\ CallRuns /\ Calls /\ Joined /\ [Next]_vars => Joined'
<1> SUFFICES ASSUME TypeOK, CallRuns, Calls, Joined, [Next]_vars PROVE Joined'
  OBVIOUS
<1> USE ImageCacheAssumption DEF TypeOK, PC, Calls, Joined, Inside
<1>1. ASSUME NEW j \in Jobs, Stat(j) PROVE Joined'
  BY <1>1 DEF Stat, Miss
<1>2. ASSUME NEW j \in Jobs, Hash(j) PROVE Joined'
  <2>1. CASE file = "none" BY <1>2, <2>1 DEF Hash, Return
  <2>2. CASE file # "none" BY <1>2, <2>2 DEF Hash
  <2> QED BY <2>1, <2>2
<1>3. ASSUME NEW j \in Jobs, Remove(j) PROVE Joined'
  BY <1>3 DEF Remove, Miss
<1>4. ASSUME NEW j \in Jobs, Open(j) PROVE Joined'
  BY <1>4 DEF Open, Return
<1>5. ASSUME NEW j \in Jobs, Do(j) PROVE Joined'
  BY <1>5 DEF Do, CallRuns
<1>6. ASSUME NEW j \in Jobs, Fetch(j) PROVE Joined'
  BY <1>6 DEF Fetch
<1>7. ASSUME NEW j \in Jobs, Rename(j) PROVE Joined'
  BY <1>7 DEF Rename
<1>8. ASSUME NEW j \in Jobs, Leave(j) PROVE Joined'
  BY <1>8 DEF Leave, AfterDo
<1>9. ASSUME NEW j \in Jobs, Wake(j) PROVE Joined'
  BY <1>9 DEF Wake, AfterDo
<1>10. ASSUME NEW j \in Jobs, IoError(j) PROVE Joined'
  BY <1>10 DEF IoError, Return
<1>11. CASE UNCHANGED vars BY <1>11 DEF vars
<1> QED BY <1>1, <1>2, <1>3, <1>4, <1>5, <1>6, <1>7, <1>8, <1>9, <1>10, <1>11 DEF Next, Step

\* The safety half of EveryJobEnds, for any number of jobs: with JobsGoForward,
\* jobs that keep running come to their ends.
THEOREM SomebodyCanGo == Spec => [](Ended \/ \E j \in Jobs : CanGo(j))
<1>1. Init => Joined
  BY DEF Init, Joined
<1>2. TypeOK /\ Calls /\ Joined => Ended \/ \E j \in Jobs : CanGo(j)
  <2> SUFFICES ASSUME TypeOK, Calls, Joined, NEW j \in Jobs, pc[j] \notin {"done", "failed"}
               PROVE  \E k \in Jobs : CanGo(k)
    BY DEF Ended
  <2>1. CASE pc[j] # "wait" BY <2>1 DEF CanGo
  <2>2. CASE pc[j] = "wait" /\ Inside(leader[j])
    <3>1. leader[j] \in Jobs /\ pc[leader[j]] \notin {"done", "failed", "wait"}
      BY <2>2 DEF Calls, Inside
    <3> QED BY <3>1 DEF CanGo
  <2>3. CASE pc[j] = "wait" /\ leader[leader[j]] = leader[j] BY <2>3 DEF CanGo
  <2> QED BY <2>1, <2>2, <2>3 DEF Joined
<1>3. Struct => TypeOK
  BY DEF Struct
<1> QED BY <1>1, <1>2, <1>3, JoinedStep, CallsAlways, PTL DEF Spec

\* How far a job is: at most three looks at the cache, one call of do, at most
\* one download.
Place(j) ==
    CASE pc[j] = "do"     -> 4
      [] pc[j] = "wait"   -> 5
      [] pc[j] = "fetch"  -> 9
      [] pc[j] = "rename" -> 10
      [] pc[j] = "leave"  -> 11
      [] pc[j] \in {"done", "failed"} -> 15
      [] OTHER ->
           (CASE site[j] = "before" -> 0 [] site[j] = "inside" -> 5 [] site[j] = "after" -> 11)
         + (CASE pc[j] = "stat" -> 1 [] pc[j] = "hash" -> 2 [] pc[j] \in {"remove", "open"} -> 3)

\* No job ever goes back: each of its steps brings it nearer its end, whatever
\* fails and whatever the others do, so that it takes at most 14.
THEOREM JobsGoForward ==
    Spec => [][\A j \in Jobs : pc'[j] # pc[j] => Place(j)' > Place(j) /\ Place(j)' <= 15]_vars
<1>1. ASSUME TypeOK, Calls, Next, NEW j \in Jobs, pc'[j] # pc[j]
      PROVE  Place(j)' > Place(j) /\ Place(j)' <= 15
  <2> USE <1>1 DEF TypeOK, PC, Calls, Inside, Place
  <2>1. PICK k \in Jobs : Step(k) BY DEF Next, vars
  <2>2. CASE Stat(k) BY <2>2 DEF Stat, Miss
  <2>3. CASE Hash(k) BY <2>3 DEF Hash, Return
  <2>4. CASE Remove(k) BY <2>4 DEF Remove, Miss
  <2>5. CASE Open(k) BY <2>5 DEF Open, Return
  <2>6. CASE Do(k) BY <2>6 DEF Do
  <2>7. CASE Fetch(k) BY <2>7 DEF Fetch
  <2>8. CASE Rename(k) BY <2>8 DEF Rename
  <2>9. CASE Leave(k) BY <2>9 DEF Leave, AfterDo
  <2>10. CASE Wake(k) BY <2>10 DEF Wake, AfterDo
  <2>11. CASE IoError(k) BY <2>11 DEF IoError, Return
  <2> QED BY <2>1, <2>2, <2>3, <2>4, <2>5, <2>6, <2>7, <2>8, <2>9, <2>10, <2>11 DEF Step
<1>2. TypeOK /\ Calls /\ [Next]_vars =>
        [\A j \in Jobs : pc'[j] # pc[j] => Place(j)' > Place(j) /\ Place(j)' <= 15]_vars
  BY <1>1
<1>3. Struct => TypeOK
  BY DEF Struct
<1> QED BY <1>2, <1>3, CallsAlways, PTL DEF Spec

-----------------------------------------------------------------------------
(* The refinement of SharedDownload: what every step of a job amounts to. *)

Stages == [j \in Jobs |-> Stage(j)]

\* A step moves at most the stage of its own job.
LEMMA StageMoves ==
    ASSUME NEW j \in Jobs,
           \A k \in Jobs : k # j => pc'[k] = pc[k] /\ site'[k] = site[k]
    PROVE  Stages' = [Stages EXCEPT ![j] = Stage(j)']
<1>1. \A k \in Jobs : k # j => Stage(k)' = Stage(k)
  BY DEF Stage, Inside
<1> QED BY <1>1 DEF Stages

LEMMA StageKept ==
    ASSUME NEW j \in Jobs,
           \A k \in Jobs : k # j => pc'[k] = pc[k] /\ site'[k] = site[k],
           Stage(j)' = Stage(j)
    PROVE  Stages' = Stages
BY StageMoves DEF Stages

\* Without trouble nothing fails.
LEMMA TroubleFree == Struct /\ calm /\ ~Shared!Trouble /\ [Next]_vars => calm'
<1> SUFFICES ASSUME Struct, calm, ~Shared!Trouble, [Next]_vars PROVE calm'
  OBVIOUS
<1>1. MayFail = FALSE BY ImageCacheAssumption DEF Shared!Trouble
<1> QED BY <1>1 DEF Next, Step, Stat, Hash, Remove, Open, IoError, Do, Fetch, Rename,
                    Leave, Wake, vars

\* The jobs and the cache in every reachable state, and what trouble there is.
Refined == /\ Struct /\ CallRuns /\ Smooth /\ Calls /\ NoNewStale
           /\ Verified
           /\ Shared!Trouble \/ calm

\* A failing job, or a call that ends with an error, is trouble.
LEMMA FailureIsTrouble ==
    ASSUME Refined, Refined', NEW j \in Jobs, pc'[j] = "failed" \/ err'[j] = "error"
    PROVE  Shared!Trouble
<1>1. Shared!Trouble' <=> Shared!Trouble
  BY DEF Shared!Trouble
<1> QED BY <1>1 DEF Refined, Smooth

\* A look at the cache that ends: see Return.
LEMMA ReturnImplements ==
    ASSUME Refined, Refined', NEW j \in Jobs, pc[j] \in {"stat", "hash", "remove", "open"},
           NEW o \in {"ok", "error"}, Return(j, o), o = "ok" => file = "good",
           UNCHANGED <<file, flight, site, leader>>
    PROVE  Shared!Next
<1> USE DEF Refined, Struct, TypeOK, PC
<1>1. \A k \in Jobs : k # j => pc'[k] = pc[k] /\ site'[k] = site[k]
  BY DEF Return
<1>2. CASE site[j] = "inside"
  <2>1. pc'[j] = "leave" /\ err' = [err EXCEPT ![j] = o] BY <1>2 DEF Return
  <2>2. Stage(j) = "working" /\ Stage(j)' = "working" BY <1>2, <2>1 DEF Stage, Inside
  <2>3. err[j] = "pending" /\ Stages' = Stages /\ Stages[j] = "working"
    BY <1>1, <1>2, <2>2, StageKept DEF Calls, Inside, Stages
  <2>4. o = "error" => Shared!Trouble BY <2>1, FailureIsTrouble
  <2>5. Shared!Settle(j)
    BY <2>1, <2>3, <2>4 DEF Shared!Settle, Shared!Working, Stages
  <2> QED BY <2>5 DEF Shared!Next
<1>3. CASE site[j] # "inside"
  <2>1. pc'[j] = (IF o = "ok" THEN "done" ELSE "failed") /\ UNCHANGED err
    BY <1>3 DEF Return
  <2>2. Stage(j) \in {"asking", "checking"} BY <1>3 DEF Stage, Inside
  <2>3. Stage(j)' = IF o = "ok" THEN "served" ELSE "refused" BY <2>1 DEF Stage, Inside
  <2>4. Stages' = [Stages EXCEPT ![j] = IF o = "ok" THEN "served" ELSE "refused"]
        /\ Stages[j] \in {"asking", "checking"}
    BY <1>1, <2>2, <2>3, StageMoves DEF Stages
  <2>5. CASE o = "ok"
    BY <2>1, <2>4, <2>5 DEF Shared!Next, Shared!Serve, Shared!Looking, Stages
  <2>6. CASE o = "error"
    <3>1. Shared!Trouble BY <2>1, <2>6, FailureIsTrouble
    <3> QED BY <2>1, <2>4, <2>6, <3>1 DEF Shared!Next, Shared!Refuse, Shared!Looking, Stages
  <2> QED BY <2>5, <2>6
<1> QED BY <1>2, <1>3

\* A look at the cache that finds nothing: see Miss.
LEMMA MissImplements ==
    ASSUME Refined, Refined', NEW j \in Jobs, pc[j] \in {"stat", "remove"}, Miss(j),
           file' = "none", file # "none" => "stale" \in InitialFiles,
           UNCHANGED <<flight, site, leader, err>>
    PROVE  [Shared!Next]_<<file, flight, Stages, leader, err>>
<1> USE DEF Refined, Struct, TypeOK, PC
<1>1. \A k \in Jobs : k # j => pc'[k] = pc[k] /\ site'[k] = site[k]
  BY DEF Miss
<1>2. CASE site[j] = "after"
  <2>1. pc'[j] = "failed" BY <1>2 DEF Miss
  <2>2. Stage(j) = "checking" /\ Stage(j)' = "refused" BY <1>2, <2>1 DEF Stage, Inside
  <2>3. Stages' = [Stages EXCEPT ![j] = "refused"] /\ Stages[j] = "checking"
    BY <1>1, <2>2, StageMoves DEF Stages
  <2>4. CASE file = "none"
    <3>1. Shared!Trouble BY <2>1, FailureIsTrouble
    <3> QED BY <2>3, <2>4, <3>1 DEF Shared!Next, Shared!Refuse, Shared!Looking, Stages
  <2>5. CASE file # "none"
    BY <2>3, <2>5 DEF Shared!Next, Shared!Discard, Shared!Looking, Stages
  <2> QED BY <2>4, <2>5
<1>3. CASE site[j] # "after"
  <2>1. pc'[j] = IF site[j] = "before" THEN "do" ELSE "fetch" BY <1>3 DEF Miss
  <2>2. Stage(j)' = Stage(j) /\ Stage(j) = (IF site[j] = "before" THEN "asking" ELSE "working")
    BY <1>3, <2>1 DEF Stage, Inside
  <2>3. Stages' = Stages /\ Stages[j] = (IF site[j] = "before" THEN "asking" ELSE "working")
    BY <1>1, <2>2, StageKept DEF Stages
  <2>4. site[j] = "inside" => err[j] = "pending" BY DEF Calls, Inside
  <2>5. CASE file = "none"
    BY <2>3, <2>5
  <2>6. CASE file # "none"
    BY <1>3, <2>3, <2>4, <2>6 DEF Shared!Next, Shared!Discard, Shared!Looking, Shared!Working, Stages
  <2> QED BY <2>5, <2>6
<1> QED BY <1>2, <1>3

LEMMA SharedStep ==
    ASSUME Refined, Refined', [Next]_vars
    PROVE  [Shared!Next]_<<file, flight, Stages, leader, err>>
<1> USE DEF Refined, Struct, TypeOK, PC
<1>1. ASSUME NEW j \in Jobs, Stat(j)
      PROVE  [Shared!Next]_<<file, flight, Stages, leader, err>>
  <2>1. CASE file = "none" /\ Miss(j) BY <1>1, <2>1, MissImplements DEF Stat
  <2>2. CASE pc' = [pc EXCEPT ![j] = "hash"]
    <3>1. Stages' = Stages BY <1>1, <2>2, StageKept DEF Stat, Stage, Inside
    <3> QED BY <1>1, <3>1 DEF Stat
  <2> QED BY <1>1, <2>1, <2>2 DEF Stat
<1>2. ASSUME NEW j \in Jobs, Hash(j)
      PROVE  [Shared!Next]_<<file, flight, Stages, leader, err>>
  <2>1. CASE file = "none" BY <1>2, <2>1, ReturnImplements DEF Hash
  <2>2. CASE file # "none"
    <3>1. Stages' = Stages BY <1>2, <2>2, StageKept DEF Hash, Stage, Inside
    <3> QED BY <1>2, <2>2, <3>1 DEF Hash
  <2> QED BY <2>1, <2>2
<1>3. ASSUME NEW j \in Jobs, Remove(j)
      PROVE  [Shared!Next]_<<file, flight, Stages, leader, err>>
  BY <1>3, MissImplements DEF Remove, NoNewStale
<1>4. ASSUME NEW j \in Jobs, Open(j)
      PROVE  [Shared!Next]_<<file, flight, Stages, leader, err>>
  <2>1. CASE file = "none" BY <1>4, <2>1, ReturnImplements DEF Open
  <2>2. CASE file # "none"
    <3>1. file = "good" BY <1>4, <2>2 DEF Open, Verified
    <3> QED BY <1>4, <2>2, <3>1, ReturnImplements DEF Open
  <2> QED BY <2>1, <2>2
<1>5. ASSUME NEW j \in Jobs, IoError(j)
      PROVE  [Shared!Next]_<<file, flight, Stages, leader, err>>
  BY <1>5, ReturnImplements DEF IoError
<1>6. ASSUME NEW j \in Jobs, Do(j)
      PROVE  [Shared!Next]_<<file, flight, Stages, leader, err>>
  <2>1. Stages[j] = "asking" BY <1>6 DEF Do, Calls, Stages, Stage, Inside
  <2>2. \A k \in Jobs : k # j => pc'[k] = pc[k] /\ site'[k] = site[k] BY <1>6 DEF Do
  <2>3. CASE flight = NoJob
    <3>1. Stage(j)' = "working" BY <1>6, <2>3 DEF Do, Stage, Inside
    <3>2. Stages' = [Stages EXCEPT ![j] = "working"] BY <2>2, <3>1, StageMoves
    <3> QED BY <1>6, <2>1, <2>3, <3>2 DEF Do, Shared!Next, Shared!Lead, Stages
  <2>4. CASE flight # NoJob
    <3>1. Stage(j)' = "waiting" BY <1>6, <2>4 DEF Do, Stage, Inside
    <3>2. Stages' = [Stages EXCEPT ![j] = "waiting"] BY <2>2, <3>1, StageMoves
    <3> QED BY <1>6, <2>1, <2>4, <3>2 DEF Do, Shared!Next, Shared!Join, Stages
  <2> QED BY <2>3, <2>4
<1>7. ASSUME NEW j \in Jobs, Fetch(j)
      PROVE  [Shared!Next]_<<file, flight, Stages, leader, err>>
  <2>1. Stages' = Stages /\ Stages[j] = "working" /\ err[j] = "pending"
    BY <1>7, StageKept DEF Fetch, Stage, Inside, Stages, Calls
  <2>2. CASE UNCHANGED err BY <1>7, <2>1, <2>2 DEF Fetch
  <2>3. CASE err' = [err EXCEPT ![j] = "error"]
    <3>1. Shared!Trouble BY <2>3, FailureIsTrouble
    <3>2. Shared!Settle(j)
      BY <1>7, <2>1, <2>3, <3>1 DEF Fetch, Shared!Settle, Shared!Working, Stages
    <3> QED BY <3>2 DEF Shared!Next
  <2> QED BY <1>7, <2>2, <2>3 DEF Fetch
<1>8. ASSUME NEW j \in Jobs, Rename(j)
      PROVE  [Shared!Next]_<<file, flight, Stages, leader, err>>
  <2>1. Stages' = Stages /\ Stages[j] = "working" /\ err[j] = "pending"
    BY <1>8, StageKept DEF Rename, Stage, Inside, Stages, Calls
  <2>2. CASE file' = "good" /\ err' = [err EXCEPT ![j] = "ok"]
    <3>1. Shared!Settle(j)
      BY <1>8, <2>1, <2>2 DEF Rename, Shared!Settle, Shared!Working, Stages
    <3> QED BY <3>1 DEF Shared!Next
  <2>3. CASE UNCHANGED file /\ err' = [err EXCEPT ![j] = "error"]
    <3>1. Shared!Trouble BY <2>3, FailureIsTrouble
    <3>2. Shared!Settle(j)
      BY <1>8, <2>1, <2>3, <3>1 DEF Rename, Shared!Settle, Shared!Working, Stages
    <3> QED BY <3>2 DEF Shared!Next
  <2>4. file # "stale" BY <1>8 DEF Rename, NoNewStale
  <2>5. file # "none" /\ UNCHANGED file => file' = "good" BY <2>4
  <2> QED BY <1>8, <2>2, <2>3, <2>5 DEF Rename
<1>9. ASSUME NEW j \in Jobs, Leave(j)
      PROVE  [Shared!Next]_<<file, flight, Stages, leader, err>>
  <2>1. Stages[j] = "working" /\ err[j] # "pending"
    BY <1>9 DEF Leave, Stage, Inside, Stages, Calls
  <2>2. \A k \in Jobs : k # j => pc'[k] = pc[k] /\ site'[k] = site[k]
    BY <1>9 DEF Leave, AfterDo
  <2>3. Stage(j)' = IF err[j] = "ok" THEN "checking" ELSE "refused"
    BY <1>9 DEF Leave, AfterDo, Stage, Inside
  <2>4. Stages' = [Stages EXCEPT ![j] = IF err[j] = "ok" THEN "checking" ELSE "refused"]
    BY <2>2, <2>3, StageMoves
  <2>5. Shared!Finish(j)
    BY <1>9, <2>1, <2>4 DEF Leave, Shared!Finish, Shared!Learn, Stages
  <2> QED BY <2>5 DEF Shared!Next
<1>10. ASSUME NEW j \in Jobs, Wake(j)
       PROVE  [Shared!Next]_<<file, flight, Stages, leader, err>>
  <2>1. Stages[j] = "waiting" BY <1>10 DEF Wake, Stage, Inside, Stages
  <2>2. \A k \in Jobs : k # j => pc'[k] = pc[k] /\ site'[k] = site[k]
    BY <1>10 DEF Wake, AfterDo
  <2>3. Stage(j)' = IF err[leader[j]] = "ok" THEN "checking" ELSE "refused"
    BY <1>10 DEF Wake, AfterDo, Stage, Inside
  <2>4. Stages' = [Stages EXCEPT ![j] = IF err[leader[j]] = "ok" THEN "checking" ELSE "refused"]
    BY <2>2, <2>3, StageMoves
  <2>5. Shared!Wake(j)
    BY <1>10, <2>1, <2>4 DEF Wake, Shared!Wake, Shared!Learn, Stages
  <2> QED BY <2>5 DEF Shared!Next
<1>11. CASE UNCHANGED vars
  <2>1. Stages' = Stages BY <1>11 DEF vars, Stages, Stage, Inside
  <2> QED BY <1>11, <2>1 DEF vars
<1> QED BY <1>1, <1>2, <1>3, <1>4, <1>5, <1>6, <1>7, <1>8, <1>9, <1>10, <1>11 DEF Next, Step

\* The image cache implements SharedDownload, for any number of jobs, any file
\* left in the cache and any failing calls: see ImplementsSharedDownload.
THEOREM Refinement == Spec => ImplementsSharedDownload
<1>1. Init => Shared!Init
  BY DEF Init, Shared!Init, Stage, Inside
<1>2. Init => Verified /\ (Shared!Trouble \/ calm)
  BY ImageCacheAssumption DEF Init, Verified, Shared!Trouble
<1>3. Struct /\ (Shared!Trouble \/ calm) /\ [Next]_vars => (Shared!Trouble \/ calm)'
  BY TroubleFree DEF Shared!Trouble
<1>4. Struct => TypeOK
  BY DEF Struct
<1>5. Spec => []Refined
  BY <1>2, <1>3, <1>4, VerifiedStep, CallsAlways, PTL DEF Spec, Refined
<1>6. Refined /\ Refined' /\ [Next]_vars
        => [Shared!Next]_<<file, flight, [j \in Jobs |-> Stage(j)], leader, err>>
  BY SharedStep DEF Stages
<1> QED BY <1>1, <1>5, <1>6, PTL DEF Spec, ImplementsSharedDownload, Shared!Spec

\* Every variable keeps its type, for any set of jobs: see TypeOK.
THEOREM TypeCorrect == Spec => []TypeOK
<1>1. Struct => TypeOK
  BY DEF Struct
<1> QED BY <1>1, StructAlways, PTL
=============================================================================
