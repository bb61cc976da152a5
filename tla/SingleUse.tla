----------------------------- MODULE SingleUse -----------------------------
(***************************************************************************)
(* What delegated admission promises about identifiers: an identifier can   *)
(* be spent once, and an allow is answered on identifiers that are spent    *)
(* and that no other allow was answered on.  Spending without an allow is   *)
(* possible (a failed or crashed admission burns what it reserved).         *)
(***************************************************************************)
CONSTANT Id

VARIABLES
  spent,    \* identifiers that can no longer be used
  granted   \* the sets of identifiers on which an allow was answered

Init == spent = {} /\ granted = {}

Spend(id) ==
  /\ id \notin spent
  /\ spent' = spent \cup {id}
  /\ UNCHANGED granted

Allow(ids) ==
  /\ ids # {}
  /\ ids \subseteq spent
  /\ \A used \in granted : ids \cap used = {}
  /\ granted' = granted \cup {ids}
  /\ UNCHANGED spent

Next == (\E id \in Id : Spend(id)) \/ (\E ids \in SUBSET Id : Allow(ids))

Spec == Init /\ [][Next]_<<spent, granted>>
=============================================================================
