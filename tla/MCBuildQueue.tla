---------------------------- MODULE MCBuildQueue ----------------------------
(* BuildQueue for TLC.  The bound on the jobs waiting for one build keeps    *)
(* the model finite where overlapping promotions start it again and again.   *)
EXTENDS BuildQueue, TLC

CONSTANT MaxEnqueued

Symmetry == Permutations(Handlers) \cup Permutations(Users)

EnqueuedBound == \A b \in Builds : enqueued[b] <= MaxEnqueued
=============================================================================
