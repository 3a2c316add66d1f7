--------------------------- MODULE SharedDocument ---------------------------
(***************************************************************************)
(* What a collaborative session promises: an edit is recorded before it is *)
(* acknowledged, what is recorded is never lost, and what is published to  *)
(* the readers of the project is always a version of what is recorded: it  *)
(* grows, but for publications that were overtaken, which go back to an    *)
(* older version until the next one that was not.                          *)
(***************************************************************************)
CONSTANTS Content, Original

VARIABLES recorded, acknowledged, published, behind

vars == <<recorded, acknowledged, published, behind>>

Init ==
    /\ recorded = {Original} /\ acknowledged = {}
    /\ published = {Original} /\ behind = FALSE

Record ==
    /\ recorded' \in SUBSET Content /\ recorded \subseteq recorded'
    /\ UNCHANGED <<acknowledged, published, behind>>

Acknowledge ==
    /\ acknowledged' \in SUBSET recorded /\ acknowledged \subseteq acknowledged'
    /\ UNCHANGED <<recorded, published, behind>>

Publish ==
    /\ published' \in SUBSET recorded /\ behind' \in BOOLEAN
    /\ published \subseteq published' \/ (behind' /\ published' \subseteq published)
    /\ UNCHANGED <<recorded, acknowledged>>

Next == Record \/ Acknowledge \/ Publish

Spec == Init /\ [][Next]_vars
=============================================================================
