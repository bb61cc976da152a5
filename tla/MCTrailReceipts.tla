--------------------------- MODULE MCTrailReceipts ---------------------------
(* Model-checking instances of TrailReceipts: the values of its constants. *)
EXTENDS TrailReceipts

CONSTANTS p1, p2, p3

AllFaults == {"crash", "io", "stall"}
CrashOnly == {"crash"}
=============================================================================
