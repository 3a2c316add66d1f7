-------------------------- MODULE MCBuildLifecycle --------------------------
(* BuildLifecycle for TLC: one submission, told of by two webhooks and a     *)
(* check.  Symmetry is left out, since the run checks liveness as well.      *)
EXTENDS BuildLifecycle
=============================================================================
