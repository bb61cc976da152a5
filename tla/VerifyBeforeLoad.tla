-------------------------- MODULE VerifyBeforeLoad --------------------------
(***************************************************************************)
(* The verify-before-load gate (corcept-guards/src/verify_before_load.rs):  *)
(* one evaluation reads three files without a lock, in the order of         *)
(* guard_for_tool and classify, while their owners rewrite them in place.   *)
(*                                                                         *)
(* The owners are outside the code: the host snapshots the advertised       *)
(* definition, the operator pins a definition with the key of the day and   *)
(* publishes a new key.  Each writes by truncating and filling, and may     *)
(* stop in between.  A definition is its canonical form, a signature the    *)
(* key that made it.                                                        *)
(***************************************************************************)
EXTENDS Naturals

CONSTANTS
  Definitions, Keys,
  Missing,   \* no such file
  Partial    \* a file that does not parse: truncated, or being written

Pins == [def : Definitions, key : Keys]

ASSUME FilesAssumption == {Missing, Partial} \cap (Definitions \cup Keys \cup Pins) = {}

VARIABLES
  advertised,  \* advertised_dir/<tool>.json
  manifest,    \* pins_dir/<tool>.manifest.json
  pubkey,      \* the configured verifying key
  pinned,      \* history: what the operator ever signed
  step,        \* where the evaluation is
  held,        \* what it has read
  outcome      \* the verdict token it ends with

fileVars == <<advertised, manifest, pubkey, pinned>>
gateVars == <<step, held, outcome>>

Unread == [key |-> Missing, manifest |-> Missing, def |-> Missing]
GateSteps == {"name", "snapshot", "pin", "key", "manifest", "definition", "verify"}

GateInit ==
  /\ advertised \in {Missing} \cup Definitions
  /\ pubkey \in {Missing} \cup Keys
  /\ pinned \in {{}} \cup {{p} : p \in Pins}
  /\ manifest \in {Missing} \cup pinned
  /\ step = "idle" /\ held = Unread /\ outcome = "none"

-----------------------------------------------------------------------------
(* The owners of the files *)

Snapshot ==
  /\ advertised' \in {Missing, Partial} \cup Definitions
  /\ advertised' \in Definitions => advertised = Partial
  /\ advertised' # advertised
  /\ UNCHANGED <<manifest, pubkey, pinned>>

\* A pin is signed with the key published at that time, and may be withdrawn.
Pin ==
  /\ \/ manifest' \in {Missing, Partial} /\ UNCHANGED pinned
     \/ /\ manifest = Partial
        /\ \E d \in Definitions : manifest' = [def |-> d, key |-> pubkey]
        /\ pubkey \in Keys
        /\ pinned' = pinned \cup {manifest'}
  /\ manifest' # manifest
  /\ UNCHANGED <<advertised, pubkey>>

PublishKey ==
  /\ pubkey' \in {Partial} \cup Keys
  /\ pubkey' \in Keys => pubkey \in {Missing, Partial}
  /\ pubkey' # pubkey
  /\ UNCHANGED <<advertised, manifest, pinned>>

Owners == Snapshot \/ Pin \/ PublishKey

-----------------------------------------------------------------------------
(* One evaluation: guard_for_tool, then classify *)

Readable(file) == file \notin {Missing, Partial}

Goto(next) == step' = next /\ UNCHANGED <<held, outcome>>
End(token) == step' = "end" /\ outcome' = token /\ UNCHANGED held
Hold(field, file, next) ==
  step' = next /\ held' = [held EXCEPT ![field] = file] /\ UNCHANGED outcome

CheckName(safe) ==
  /\ step = "name"
  /\ IF safe THEN Goto("snapshot") ELSE End("unsafe_name")

CheckSnapshot ==
  /\ step = "snapshot"
  /\ IF advertised # Missing THEN Goto("pin") ELSE End("no_snapshot")

CheckPin ==
  /\ step = "pin"
  /\ IF manifest # Missing THEN Goto("key") ELSE End("manifest_not_found")

ReadPubkey ==
  /\ step = "key"
  /\ IF Readable(pubkey) THEN Hold("key", pubkey, "manifest") ELSE End("pubkey_unreadable")

ReadManifest ==
  /\ step = "manifest"
  /\ IF Readable(manifest) THEN Hold("manifest", manifest, "definition")
     ELSE End("manifest_unreadable")

ReadDefinition ==
  /\ step = "definition"
  /\ IF Readable(advertised) THEN Hold("def", advertised, "verify") ELSE End("def_unreadable")

\* Mutant of VerifyAgainstDef: a definition that differs from the pinned one is let through.
VerifyKeyOnly(m, def, key) ==
  IF m.key # key THEN "key_mismatch" ELSE "valid"

\* mcpverify_core::verify_against_def, an external library.
VerifyAgainstDef(m, def, key) ==
  IF m.key # key THEN "key_mismatch"
  ELSE IF m.def # def THEN "description_drift" ELSE "valid"

Verify ==
  /\ step = "verify"
  /\ End(VerifyAgainstDef(held.manifest, held.def, held.key))

\* Every token but "valid" is a denial.
Admitted(token) == token = "valid"

Evaluate(safe) ==
  /\ \/ CheckName(safe) \/ CheckSnapshot \/ CheckPin \/ ReadPubkey
     \/ ReadManifest \/ ReadDefinition \/ Verify
  /\ UNCHANGED fileVars
=============================================================================
