---------------------------- MODULE MCSharing ----------------------------
(* Sharing for TLC.                                                       *)
EXTENDS Sharing, TLC

Symmetry ==
    Permutations(Users \ {Founder}) \cup Permutations(Addresses) \cup Permutations(Requests)
==========================================================================
