--------------------------- MODULE MCBuildRecheck ---------------------------
(* BuildRecheck for TLC, with the schedule of the code in ticks of 15        *)
(* seconds; the looks at 3 and 7 seconds fall on the first.                  *)
EXTENDS BuildRecheck

RecheckSchedule == <<0, 0, 1, 2, 4, 6, 8, 10, 12, 14, 16>>
=============================================================================
