--------------------------- MODULE MCLedgerAppend ---------------------------
(* Model-checking instances of LedgerAppend: the values of its constants. *)
EXTENDS LedgerAppend, TLC

CONSTANTS w1, w2, w3, k1

AllModes == {"plain", "env", "signed"}
UnsignedModes == {"plain", "env"}
SignedOnly == {"signed"}
NoFault == {}
AllFaults == {"crash", "io"}
NoInstaller == {}

WriterSymmetry == Permutations(Writer)
=============================================================================
