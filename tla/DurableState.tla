---------------------------- MODULE DurableState ----------------------------
(***************************************************************************)
(* What the state file promises, without temp files, mutex or RPCs: the    *)
(* saved state changes in one step, only to the memory of the moment, and  *)
(* at most once per change of memory; while a change is not yet saved      *)
(* (or its save has not yet failed) memory does not change again.          *)
(***************************************************************************)
CONSTANTS States, Down, Empty, Recover(_)

VARIABLES mem, saved, dirty

Init == mem = Down /\ saved = Empty /\ dirty = FALSE

Start  == mem = Down /\ mem' = Recover(saved) /\ UNCHANGED <<saved, dirty>>

Mutate == mem # Down /\ ~dirty /\ mem' \in States /\ dirty' = TRUE /\ UNCHANGED saved

Commit == dirty /\ saved' = mem /\ dirty' = FALSE /\ UNCHANGED mem

Lose   == dirty /\ dirty' = FALSE /\ UNCHANGED <<mem, saved>>

Die    == mem # Down /\ mem' = Down /\ dirty' = FALSE /\ UNCHANGED saved

\* A save that no change of memory asked for (shutdown).
Again  == mem # Down /\ ~dirty /\ dirty' = TRUE /\ UNCHANGED <<mem, saved>>

Next == Start \/ Mutate \/ Commit \/ Lose \/ Die \/ Again

Spec == Init /\ [][Next]_<<mem, saved, dirty>>
=============================================================================
