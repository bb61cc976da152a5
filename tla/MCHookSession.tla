---------------------------- MODULE MCHookSession ----------------------------
(* Model-checking instances of HookSession: the values of its constants. *)
EXTENDS HookSession, TLC

CONSTANTS p1, p2, s1, s2

Edit(t) == [tool |-> "Edit", target |-> t, exit |-> "none"]
Test(x) == [tool |-> "Bash", target |-> "test", exit |-> x]

SomeToolCalls == {Edit("source"), Edit("doc"), Test("zero"), Test("none")}
OneToolCall == {Edit("source")}

OneSink == <<"cloudevents">>

AllFaults == {"crash", "io"}
NoFault == {}

HookSymmetry == Permutations(Proc) \cup Permutations(Session)
=============================================================================
