----------------------------- MODULE MCBridge -----------------------------
(* Bridge for TLC: a root that places one division and one record.          *)
EXTENDS Bridge

CONSTANTS root, d1, d2, s1, s2
MCDivisionKeys == {root, d1, d2}
MCRecordKeys == {s1, s2}
MCInitial == {Put(root, "root", {"x", "f"}), Put(d1, "x", {}), Put(s1, "f", {})}
=============================================================================
