----------------------------- MODULE ImageCache -----------------------------
(***************************************************************************)
(* The OS image cache of the provisioner: one cache file per digest, and a *)
(* single-flight group that lets one goroutine per key download while the  *)
(* others wait for its error.  Every file-system call of tryOpenCachedImage*)
(* is a step of its own: another job may run between any two of them.      *)
(* One key is modelled; keys share nothing.  A job opens the image once.   *)
(* A request without a digest, or a server without a cache directory, does *)
(* not come here: the image is then read straight from its URL.            *)
(***************************************************************************)
EXTENDS Naturals, FiniteSets

CONSTANTS Jobs, NoJob,
          InitialFiles,     \* what an earlier process may have left in the cache
          MayFail           \* file-system calls and downloads may fail

ASSUME ImageCacheAssumption ==
    /\ NoJob \notin Jobs
    /\ InitialFiles \subseteq {"none", "good", "stale"}
    /\ MayFail \in BOOLEAN

VARIABLES
    file,      \* the cache file: missing, with the right digest, or with another
    flight,    \* imageFlightGroup.m: the job whose call is registered for the key
    pc,        \* what each job does next
    site,      \* which of its three tryOpenCachedImage calls a job is in
    leader,    \* the call a waiting job waits for
    err,       \* imageFlightCall.err of the call a job leads
    got,       \* the content behind the reader a job was given
    fetched,   \* jobs that downloaded the image
    calm       \* the cache held no stale file and nothing has failed

vars == <<file, flight, pc, site, leader, err, got, fetched, calm>>

Init == /\ file \in InitialFiles
        /\ flight = NoJob
        /\ pc = [j \in Jobs |-> "stat"]
        /\ site = [j \in Jobs |-> "before"]
        /\ leader = [j \in Jobs |-> NoJob]
        /\ err = [j \in Jobs |-> "pending"]
        /\ got = [j \in Jobs |-> "none"]
        /\ fetched = {}
        /\ calm = (file # "stale")

-----------------------------------------------------------------------------
(* tryOpenCachedImage, from each of its three call sites. *)

\* The call reports ok = false.
Miss(j) == \/ site[j] = "before" /\ pc' = [pc EXCEPT ![j] = "do"]
           \/ site[j] = "inside" /\ pc' = [pc EXCEPT ![j] = "fetch"]
           \/ site[j] = "after"  /\ pc' = [pc EXCEPT ![j] = "failed"]

\* The call returns an error, or opens the file: inside do, both end the call.
Return(j, outcome) ==
    IF site[j] = "inside"
    THEN /\ err' = [err EXCEPT ![j] = outcome]
         /\ pc' = [pc EXCEPT ![j] = "leave"]
    ELSE /\ pc' = [pc EXCEPT ![j] = IF outcome = "ok" THEN "done" ELSE "failed"]
         /\ UNCHANGED err

Stat(j) == /\ pc[j] = "stat"
           /\ \/ file = "none" /\ Miss(j)
              \/ file # "none" /\ pc' = [pc EXCEPT ![j] = "hash"]
           /\ UNCHANGED <<file, flight, site, leader, err, got, fetched, calm>>

\* the digest is not checked
Bug_Hash(j) == /\ pc[j] = "hash"
               /\ IF file = "none" THEN Return(j, "error")
                  ELSE pc' = [pc EXCEPT ![j] = "open"] /\ UNCHANGED err
               /\ UNCHANGED <<file, flight, site, leader, got, fetched, calm>>

Hash(j) == /\ pc[j] = "hash"
           /\ \/ file = "none"  /\ Return(j, "error")
              \/ file = "good"  /\ pc' = [pc EXCEPT ![j] = "open"] /\ UNCHANGED err
              \/ file = "stale" /\ pc' = [pc EXCEPT ![j] = "remove"] /\ UNCHANGED err
           /\ UNCHANGED <<file, flight, site, leader, got, fetched, calm>>

\* a failing removal is ignored and the file looked at again
Bug_Remove(j) == /\ pc[j] = "remove"
                 /\ file' \in {file, "none"}
                 /\ pc' = [pc EXCEPT ![j] = "stat"]
                 /\ UNCHANGED <<flight, site, leader, err, got, fetched, calm>>

\* Removes whatever is there now, not what was hashed.
Remove(j) == /\ pc[j] = "remove"
             /\ file' = "none"
             /\ Miss(j)
             /\ UNCHANGED <<flight, site, leader, err, got, fetched, calm>>

Open(j) == /\ pc[j] = "open"
           /\ IF file = "none"
              THEN Return(j, "error") /\ UNCHANGED got
              ELSE /\ Return(j, "ok")
                   /\ got' = [got EXCEPT ![j] = IF site[j] = "inside" THEN @ ELSE file]
           /\ UNCHANGED <<file, flight, site, leader, fetched, calm>>

\* The stat, the hash, the removal or the open fails for another reason.
IoError(j) == /\ MayFail /\ pc[j] \in {"stat", "hash", "remove", "open"}
              /\ Return(j, "error")
              /\ calm' = FALSE
              /\ UNCHANGED <<file, flight, site, leader, got, fetched>>

-----------------------------------------------------------------------------
(* imageFlightGroup.do and downloadImageToCache. *)

\* the caller always runs its own function
Bug_Do(j) == /\ pc[j] = "do"
             /\ flight' = j
             /\ site' = [site EXCEPT ![j] = "inside"]
             /\ pc' = [pc EXCEPT ![j] = "stat"]
             /\ UNCHANGED <<file, leader, err, got, fetched, calm>>

\* the function does not look at the cache again before it downloads
Bug_DoNoRecheck(j) ==
    /\ pc[j] = "do"
    /\ \/ /\ flight = NoJob
          /\ flight' = j
          /\ site' = [site EXCEPT ![j] = "inside"]
          /\ pc' = [pc EXCEPT ![j] = "fetch"]
          /\ UNCHANGED leader
       \/ /\ flight # NoJob
          /\ leader' = [leader EXCEPT ![j] = flight]
          /\ pc' = [pc EXCEPT ![j] = "wait"]
          /\ UNCHANGED <<flight, site>>
    /\ UNCHANGED <<file, err, got, fetched, calm>>

Do(j) == /\ pc[j] = "do"
         /\ \/ /\ flight = NoJob
               /\ flight' = j
               /\ site' = [site EXCEPT ![j] = "inside"]
               /\ pc' = [pc EXCEPT ![j] = "stat"]
               /\ UNCHANGED leader
            \/ /\ flight # NoJob
               /\ leader' = [leader EXCEPT ![j] = flight]
               /\ pc' = [pc EXCEPT ![j] = "wait"]
               /\ UNCHANGED <<flight, site>>
         /\ UNCHANGED <<file, err, got, fetched, calm>>

\* the body is copied straight into the cache file
Bug_Fetch(j) == /\ pc[j] = "fetch"
                /\ \/ /\ pc' = [pc EXCEPT ![j] = "rename"]
                      /\ fetched' = fetched \cup {j}
                      /\ UNCHANGED <<err, file, calm>>
                   \/ /\ MayFail
                      /\ pc' = [pc EXCEPT ![j] = "leave"]
                      /\ err' = [err EXCEPT ![j] = "error"]
                      /\ file' = "partial" /\ calm' = FALSE
                      /\ UNCHANGED fetched
                /\ UNCHANGED <<flight, site, leader, got>>

\* Download to a temp file and compare its digest.
Fetch(j) == /\ pc[j] = "fetch"
            /\ \/ /\ pc' = [pc EXCEPT ![j] = "rename"]
                  /\ fetched' = fetched \cup {j}
                  /\ UNCHANGED <<err, calm>>
               \/ /\ MayFail
                  /\ pc' = [pc EXCEPT ![j] = "leave"]
                  /\ err' = [err EXCEPT ![j] = "error"]
                  /\ calm' = FALSE
                  /\ UNCHANGED fetched
            /\ UNCHANGED <<file, flight, site, leader, got>>

\* a rename that fails is always forgiven
Bug_Rename(j) == /\ pc[j] = "rename"
                 /\ pc' = [pc EXCEPT ![j] = "leave"]
                 /\ err' = [err EXCEPT ![j] = "ok"]
                 /\ \/ file' = "good" /\ UNCHANGED calm
                    \/ MayFail /\ calm' = FALSE /\ UNCHANGED file
                 /\ UNCHANGED <<flight, site, leader, got, fetched>>

\* A rename that fails is forgiven when some file is there.
Rename(j) == /\ pc[j] = "rename"
             /\ pc' = [pc EXCEPT ![j] = "leave"]
             /\ \/ /\ file' = "good"
                   /\ err' = [err EXCEPT ![j] = "ok"]
                   /\ UNCHANGED calm
                \/ /\ MayFail
                   /\ err' = [err EXCEPT ![j] = IF file = "none" THEN "error" ELSE "ok"]
                   /\ calm' = FALSE
                   /\ UNCHANGED file
             /\ UNCHANGED <<flight, site, leader, got, fetched>>

AfterDo(j, outcome) ==
    /\ pc' = [pc EXCEPT ![j] = IF outcome = "ok" THEN "stat" ELSE "failed"]
    /\ site' = [site EXCEPT ![j] = "after"]

\* Delete the key and release the waiters; leader[j] = j marks the call done.
Leave(j) == /\ pc[j] = "leave"
            /\ flight' = NoJob
            /\ AfterDo(j, err[j])
            /\ leader' = [leader EXCEPT ![j] = j]
            /\ UNCHANGED <<file, err, got, fetched, calm>>

\* the error is read without waiting for the done channel
Bug_Wake(j) == /\ pc[j] = "wait"
               /\ AfterDo(j, err[leader[j]])
               /\ UNCHANGED <<file, flight, leader, err, got, fetched, calm>>

Wake(j) == /\ pc[j] = "wait"
           /\ leader[leader[j]] = leader[j]
           /\ AfterDo(j, err[leader[j]])
           /\ UNCHANGED <<file, flight, leader, err, got, fetched, calm>>

Step(j) == \/ Stat(j) \/ Hash(j) \/ Remove(j) \/ Open(j) \/ IoError(j)
           \/ Do(j) \/ Fetch(j) \/ Rename(j) \/ Leave(j) \/ Wake(j)

Ended == \A j \in Jobs : pc[j] \in {"done", "failed"}

Next == (\E j \in Jobs : Step(j)) \/ (Ended /\ UNCHANGED vars)

Spec == Init /\ [][Next]_vars

\* Goroutines run; the HTTP client gives up after two hours.
FairSpec == Spec /\ \A j \in Jobs : WF_vars(Step(j))

-----------------------------------------------------------------------------
(* Properties. *)

PC == {"stat", "hash", "remove", "open", "do", "fetch", "rename", "leave", "wait",
       "done", "failed"}

\* The type of every variable.
TypeOK ==
    /\ file \in {"none", "good", "stale"}
    /\ flight \in Jobs \cup {NoJob}
    /\ pc \in [Jobs -> PC]
    /\ site \in [Jobs -> {"before", "inside", "after"}]
    /\ leader \in [Jobs -> Jobs \cup {NoJob}]
    /\ err \in [Jobs -> {"pending", "ok", "error"}]
    /\ got \in [Jobs -> {"none", "good", "stale"}]
    /\ fetched \subseteq Jobs /\ calm \in BOOLEAN

\* The jobs between the registration of their call in do and its removal.
Inside(j) == \/ pc[j] \in {"fetch", "rename", "leave"}
             \/ pc[j] \in {"stat", "hash", "remove", "open"} /\ site[j] = "inside"

\* One job at a time downloads, or finalizes, the file of a key.
OneInside == \A j, k \in Jobs : Inside(j) /\ Inside(k) => j = k

\* A job provisions only from content whose digest was checked.
OnlyVerifiedContent == \A j \in Jobs : pc[j] = "done" => got[j] = "good"

\* The comment of imageDownloadGroup: each digest is fetched at most once.
\* A job that hashed a stale file removes the good one that another job has
\* put in its place since, and that makes a second download necessary.
AtMostOneFetch == Cardinality(fetched) <= 1

\* Unless the cache started stale or something failed, one job downloads, and
\* those that raced it, before, inside or after the flight, use its file.
FetchedOnce == calm => AtMostOneFetch

\* Nor does any job fail then: no file is missing after the download, none
\* disappears between the stat and the open.
NoSpuriousFailure == calm => \A j \in Jobs : pc[j] # "failed"

\* What a job amounts to for SharedDownload.
Stage(j) == CASE pc[j] = "done"   -> "served"
              [] pc[j] = "failed" -> "refused"
              [] pc[j] = "wait"   -> "waiting"
              [] Inside(j)        -> "working"
              [] OTHER            -> IF site[j] = "after" THEN "checking" ELSE "asking"

Shared == INSTANCE SharedDownload WITH
    InitialContent <- InitialFiles, content <- file, worker <- flight,
    stage <- [j \in Jobs |-> Stage(j)], call <- leader, outcome <- err

\* The file-system calls and the single-flight group implement SharedDownload:
\* between the digest check and the open, and between a failed rename and the
\* stat that forgives it, no other job can make the answer wrong.
ImplementsSharedDownload == Shared!Spec

\* Every job gets an image or an error: no waiter is forgotten.
EveryJobEnds == <>Ended
=============================================================================
