--------------------------- MODULE MCKeyLifecycle ---------------------------
(* Model-checking instance of KeyLifecycle: the values of its constants. *)
EXTENDS KeyLifecycle, TLC

CONSTANTS w1, w2, k1, k2, k3

AllModes == {"plain", "env", "signed"}
NoFault == {}

KeySymmetry == Permutations(Writer) \cup Permutations(Key)
=============================================================================
