--------------------------- MODULE SharedDownload ---------------------------
(***************************************************************************)
(* What the image cache promises the jobs that want one digest, without    *)
(* stat, hash, temp file and rename: an image is handed out in one step in *)
(* which the cache holds the right content; one call at a time works on    *)
(* the cache; it ends well only if the content is right at that moment;    *)
(* and who joined it learns its outcome, not that of a later call.         *)
(***************************************************************************)
CONSTANTS Jobs, NoJob, InitialContent, MayFail

VARIABLES content,  \* of the cache: "none", "good" or "stale"
          worker,   \* the job whose call is under way
          stage,    \* where each job is
          call,     \* the job whose call a job has joined; its own, when it is over
          outcome   \* of the call of a job

Init == /\ content \in InitialContent
        /\ worker = NoJob
        /\ stage = [j \in Jobs |-> "asking"]
        /\ call = [j \in Jobs |-> NoJob]
        /\ outcome = [j \in Jobs |-> "pending"]

\* Without a wrong file at the start, and without a failing call, nobody is
\* refused.
Trouble == MayFail \/ "stale" \in InitialContent

Looking(j) == stage[j] \in {"asking", "checking"}

Working(j) == stage[j] = "working" /\ outcome[j] = "pending"

Serve(j) == /\ Looking(j) /\ content = "good"
            /\ stage' = [stage EXCEPT ![j] = "served"]
            /\ UNCHANGED <<content, worker, call, outcome>>

Refuse(j) == /\ Looking(j) /\ Trouble
             /\ stage' = [stage EXCEPT ![j] = "refused"]
             /\ UNCHANGED <<content, worker, call, outcome>>

\* Whatever has the name goes, once there has been a wrong file to remove; a job
\* that has had its download is then without an image.
Discard(j) == /\ "stale" \in InitialContent
              /\ Looking(j) \/ Working(j)
              /\ content' = "none"
              /\ stage' = IF stage[j] = "checking" THEN [stage EXCEPT ![j] = "refused"] ELSE stage
              /\ UNCHANGED <<worker, call, outcome>>

Lead(j) == /\ stage[j] = "asking" /\ worker = NoJob
           /\ worker' = j
           /\ stage' = [stage EXCEPT ![j] = "working"]
           /\ UNCHANGED <<content, call, outcome>>

Join(j) == /\ stage[j] = "asking" /\ worker # NoJob
           /\ call' = [call EXCEPT ![j] = worker]
           /\ stage' = [stage EXCEPT ![j] = "waiting"]
           /\ UNCHANGED <<content, worker, outcome>>

\* Only here does the right content come into the cache.
Settle(j) == /\ Working(j)
             /\ \/ content' = "good" /\ outcome' = [outcome EXCEPT ![j] = "ok"]
                \/ /\ Trouble
                   /\ outcome' = [outcome EXCEPT ![j] = "error"]
                   /\ UNCHANGED content
             /\ UNCHANGED <<worker, stage, call>>

Learn(j, k) == stage' = [stage EXCEPT ![j] = IF outcome[k] = "ok" THEN "checking" ELSE "refused"]

Finish(j) == /\ stage[j] = "working" /\ outcome[j] # "pending"
             /\ worker' = NoJob
             /\ call' = [call EXCEPT ![j] = j]
             /\ Learn(j, j)
             /\ UNCHANGED <<content, outcome>>

\* The call a job has joined is over.
Wake(j) == /\ stage[j] = "waiting" /\ call[call[j]] = call[j]
           /\ Learn(j, call[j])
           /\ UNCHANGED <<content, worker, call, outcome>>

Next == \E j \in Jobs : \/ Serve(j) \/ Refuse(j) \/ Discard(j) \/ Lead(j) \/ Join(j)
                        \/ Settle(j) \/ Finish(j) \/ Wake(j)

Spec == Init /\ [][Next]_<<content, worker, stage, call, outcome>>
=============================================================================
