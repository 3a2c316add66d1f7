--------------------------- MODULE PublishedOutput ---------------------------
(***************************************************************************)
(* What a build promises to the people who read its output, with nothing   *)
(* of how it is produced: it becomes visible only when it is all there,    *)
(* and output of a build that reported errors only once its author has     *)
(* approved it.  Taking output away again is allowed at any time; an       *)
(* approval is not, and neither is output that changes after it is whole.  *)
(***************************************************************************)
VARIABLES
    complete,   \* every file of the output is here
    tainted,    \* some of it came out of a build that reported errors
    approved,   \* the author said to use it all the same
    visible     \* readers may be served from it

vars == <<complete, tainted, approved, visible>>

Init ==
    /\ ~complete /\ ~tainted /\ ~approved /\ ~visible

Receive ==
    /\ ~complete
    /\ complete' \in BOOLEAN
    /\ tainted' \in BOOLEAN
    /\ tainted => tainted'
    /\ UNCHANGED <<approved, visible>>

Show ==
    /\ complete
    /\ tainted => approved
    /\ visible' = TRUE
    /\ UNCHANGED <<complete, tainted, approved>>

Approve ==
    /\ complete
    /\ approved' = TRUE
    /\ visible' = TRUE
    /\ UNCHANGED <<complete, tainted>>

Hide ==
    /\ visible' = FALSE
    /\ UNCHANGED <<complete, tainted, approved>>

Next == Receive \/ Show \/ Approve \/ Hide

Spec == Init /\ [][Next]_vars
=============================================================================
