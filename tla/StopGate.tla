------------------------------ MODULE StopGate ------------------------------
(***************************************************************************)
(* What the stop gate promises: it is one flag, set by a recorded source     *)
(* change and cleared by a recorded passing test run, and a stop is blocked *)
(* exactly when the flag is set at some moment of the stop's evaluation.  A *)
(* stop may also be waved through without looking.                          *)
(***************************************************************************)
CONSTANT Stop   \* names of stop evaluations

VARIABLES
  dirty,     \* a source change was recorded after the last passing test run
  verdicts   \* what each evaluated stop was told

Init == dirty = FALSE /\ verdicts = {}

RecordChange == dirty' = TRUE /\ UNCHANGED verdicts
RecordPass == dirty' = FALSE /\ UNCHANGED verdicts

Tell(s, verdict) ==
  /\ \A v \in verdicts : v.stop # s
  /\ verdicts' = verdicts \cup {[stop |-> s, verdict |-> verdict]}
  /\ UNCHANGED dirty

Evaluate(s) == Tell(s, IF dirty THEN "block" ELSE "pass")
WaveThrough(s) == Tell(s, "unchecked")

Next ==
  \/ RecordChange \/ RecordPass
  \/ \E s \in Stop : Evaluate(s) \/ WaveThrough(s)

Spec == Init /\ [][Next]_<<dirty, verdicts>>
=============================================================================
