--------------------------- MODULE ProjectReports ---------------------------
(***************************************************************************)
(* The reports on a ledger: audit and doctor (corcept-runtime/src/lib.rs),  *)
(* verify_ledger (corcept-ledger/src/lib.rs) and the commands that verify   *)
(* or export it and sign a receipt (corcept-cli/src/main.rs).  Each of them *)
(* reads the ledger several times, without the lock of the appends.         *)
(*                                                                         *)
(* An append is one step here (LedgerAppend has its own); a process that    *)
(* dies in one leaves half a line, after which no read succeeds.  A row is  *)
(* signed and in the chain, in the chain but not signed, or out of it.      *)
(* No append writes a row in the legacy hash format.                        *)
(***************************************************************************)
EXTENDS Naturals, SequencesExt

CONSTANTS
  Projects,  \* [files, doctrine, perms]: what doctor finds besides the ledger
  MaxRows    \* bound: rows of the ledger

ASSUME RowsAssumption == MaxRows \in Nat
ASSUME ProjectsAssumption ==
  Projects \subseteq [files : BOOLEAN, doctrine : {"valid", "warnings", "unreadable"},
                      perms : BOOLEAN]

RowKind == {"signed", "unsigned", "unchained"}
Rows == SeqOf(RowKind, MaxRows)

VARIABLES
  project,  \* the other files of the project, which stay as they are
  rows,     \* the ledger
  torn,     \* it ends in half a line
  report,   \* what the running report has found so far
  verb,     \* a command of the command line that ends with a receipt
  receipt   \* the last receipt: what was read, the input digested, the outcome

ledgerVars == <<rows, torn>>
verbVars == <<verb, receipt>>

NoReport == [counted |-> 0, chained |-> FALSE, scanned |-> 0, pass |-> FALSE,
             checks |-> {}, begun |-> <<>>]
Quiet == [operation |-> "none", read |-> <<>>, outcome |-> "none"]
NoReceipt == [operation |-> "none", read |-> <<>>, input |-> <<>>, outcome |-> "none"]

Check == {"ledger", "files", "doctrine", "ledger_hash_chain", "ledger_schema", "ledger_signed",
          "perms"}

Outcome == {"none", "ok", "failed", "degraded"}

ReportsTypeOK ==
  /\ project \in Projects /\ rows \in Seq(RowKind) /\ torn \in BOOLEAN
  /\ report \in [counted : Nat, chained : BOOLEAN, scanned : Nat, pass : BOOLEAN,
                 checks : SUBSET (Check \X BOOLEAN), begun : Seq(RowKind)]
  /\ verb \in [operation : {"none", "audit verify", "export"}, read : Seq(RowKind),
               outcome : Outcome]
  /\ receipt \in [operation : {"none", "audit verify", "export"}, read : Seq(RowKind),
                  input : Seq(RowKind), outcome : Outcome]

ReportsInit ==
  /\ project \in Projects /\ rows = <<>> /\ torn = FALSE
  /\ report = NoReport /\ verb = Quiet /\ receipt = NoReceipt

-----------------------------------------------------------------------------
(* The ledger, and what one read of it says *)

AppendRow ==
  /\ Len(rows) < MaxRows /\ ~torn
  /\ \/ \E kind \in RowKind : rows' = Append(rows, kind) /\ UNCHANGED torn
     \/ torn' = TRUE /\ UNCHANGED rows
  /\ UNCHANGED <<project, report, verbVars>>

InChain(kinds) == "unchained" \notin Range(kinds)
AllSigned(kinds) == Range(kinds) \subseteq {"signed"}

\* Mutant of ChainVerifies: a ledger without rows counts as one that is missing.
ChainVerifiesNonEmpty == ~torn /\ rows # <<>> /\ InChain(rows)

\* verify_hash_chain_readonly(root).unwrap_or(false)
ChainVerifies == ~torn /\ InChain(rows)

\* VerifyReport::is_pass of verify_ledger(root, signed), which fails on a torn ledger.
VerifyPasses(signed) == InChain(rows) /\ (signed => AllSigned(rows))

-----------------------------------------------------------------------------
(* audit, and the tool that adds a verification to it *)

\* read_events(root).unwrap_or_default()
AuditRead == report' = [report EXCEPT !.counted = IF torn THEN 0 ELSE Len(rows), !.begun = rows]

AuditChain == report' = [report EXCEPT !.chained = ChainVerifies]

AuditVerify(signed) ==
  report' = [report EXCEPT !.scanned = Len(rows), !.pass = VerifyPasses(signed)]

-----------------------------------------------------------------------------
(* doctor_with_options: a check per read, in this order *)

Push(check, passes) == report' = [report EXCEPT !.checks = @ \cup {<<check, passes>>}]

\* The files of the project exist, the ledger exists, and the doctrine validates.
DoctorFiles ==
  report' = [report EXCEPT
    !.checks = @ \cup {<<"files", project.files>>, <<"ledger", project.files \/ rows # <<>> \/ torn>>,
                       <<"doctrine", project.doctrine = "valid">>},
    !.begun = rows]

DoctorChain == Push("ledger_hash_chain", ChainVerifies)

\* validate_ledger_schema: every row an append writes conforms.
DoctorSchema == Push("ledger_schema", ~torn)

\* Mutant of DoctorSigning: rows are counted, their signatures are not required.
DoctorSigningLax == Push("ledger_signed", ~torn /\ VerifyPasses(FALSE))

\* ledger_signing_check: a verification that cannot run is a failure, an empty ledger is not.
DoctorSigning == Push("ledger_signed", ~torn /\ (rows = <<>> \/ VerifyPasses(TRUE)))

DoctorPerms == Push("perms", project.perms)

\* "fail" where some check is not a pass and --strict is given, "warn" without it.
DoctorStatus(strict) ==
  IF \A c \in report.checks : c[2] THEN "pass" ELSE IF strict THEN "fail" ELSE "warn"

-----------------------------------------------------------------------------
(* corcept audit verify and corcept export: read, print, and then sign a receipt *)

\* An export of no rows is degraded if its output is not there as a regular file.
Outcomes(operation, signed) ==
  IF operation = "audit verify" THEN {IF VerifyPasses(signed) THEN "ok" ELSE "failed"}
  ELSE {"ok"} \cup (IF rows = <<>> THEN {"degraded"} ELSE {})

BeginVerb ==
  /\ verb = Quiet /\ ~torn
  /\ \E operation \in {"audit verify", "export"}, signed \in BOOLEAN :
       \E outcome \in Outcomes(operation, signed) :
         verb' = [operation |-> operation, read |-> rows, outcome |-> outcome]
  /\ UNCHANGED <<project, ledgerVars, report, receipt>>

\* Mutant of EmitReceipt: the outcome of a verification is not carried to the receipt.
EmitReceiptOk ==
  /\ verb # Quiet
  /\ receipt' = [operation |-> verb.operation, read |-> verb.read, input |-> rows,
                 outcome |-> "ok"]
  /\ verb' = Quiet
  /\ UNCHANGED <<project, ledgerVars, report>>

\* Artifact::of_file digests the ledger as it is by now.
EmitReceipt ==
  /\ verb # Quiet
  /\ receipt' = [operation |-> verb.operation, read |-> verb.read, input |-> rows,
                 outcome |-> verb.outcome]
  /\ verb' = Quiet
  /\ UNCHANGED <<project, ledgerVars, report>>

ReportsStep == AppendRow \/ BeginVerb \/ EmitReceipt
=============================================================================
