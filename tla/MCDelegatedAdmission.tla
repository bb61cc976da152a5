------------------------ MODULE MCDelegatedAdmission ------------------------
(* Model-checking instances of DelegatedAdmission: the values of its constants. *)
EXTENDS DelegatedAdmission, TLC

CONSTANTS p1, p2, i1, i2, a1, s1, s2

\* a1 is bound to i1 by the snapshot s1 and, reissued, to i2 by s2.  i2 needs no
\* approval under s1; i1 under s2 understates the base guard's level.
SomeGrants ==
  {[snapshot |-> s1, invocation |-> i1, approval |-> a1, level |-> 4],
   [snapshot |-> s1, invocation |-> i2, approval |-> NoApproval, level |-> 3],
   [snapshot |-> s2, invocation |-> i2, approval |-> a1, level |-> 3],
   [snapshot |-> s2, invocation |-> i1, approval |-> NoApproval, level |-> 2]}

SomeBase ==
  [i \in {i1, i2} |-> IF i = i1 THEN [decision |-> "ask", level |-> 3]
                      ELSE [decision |-> "allow", level |-> 2]]

AnyConfig == {"full", "partial", "none"}
AllFaults == {"crash", "io"}

ProcSymmetry == Permutations(Proc)
=============================================================================
