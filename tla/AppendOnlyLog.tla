--------------------------- MODULE AppendOnlyLog ----------------------------
(***************************************************************************)
(* What the authority ledger promises its readers: a log that only grows,   *)
(* one row at a time, where every row names the row before it.  Locks,      *)
(* sidecar, partial writes and processes do not exist at this level.        *)
(***************************************************************************)
EXTENDS Naturals, Sequences

CONSTANTS
  Id,    \* row identities (their content hashes)
  NoId,  \* the predecessor of the first row
  Sig    \* what can sign a row, "nothing" included

VARIABLE log

Entry == [id : Id, prev : Id \cup {NoId}, key : Sig]

TipId == IF log = <<>> THEN NoId ELSE log[Len(log)].id

Init == log = <<>>

Extend(e) ==
  /\ e.prev = TipId
  /\ \A i \in 1..Len(log) : log[i].id # e.id
  /\ log' = Append(log, e)

Next == \E e \in Entry : Extend(e)

Spec == Init /\ [][Next]_log
=============================================================================
