---------------------------- MODULE MCCollabDoc ----------------------------
(* CollabDoc for TLC: two tabs, whose names the model values of its .cfg are. *)
EXTENDS CollabDoc
=============================================================================
