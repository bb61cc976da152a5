---------------------------- MODULE KeyLifecycle ----------------------------
(***************************************************************************)
(* `corcept key generate` next to running appends: generate_operator_key    *)
(* in corcept-ledger/src/keys.rs.  A generation publishes the old key once   *)
(* more, archives it, writes a new one and publishes that, each time with a *)
(* truncating write, while hooks load the active key without any lock and   *)
(* the signed append looks keys up in the trust directory.                  *)
(*                                                                         *)
(* The operator runs one generation at a time.                              *)
(***************************************************************************)
EXTENDS LedgerAppend

CONSTANTS
  GeneratorDies,  \* a generation may be killed, or a call of it may fail
  MaxGenerations  \* bound: generations in a behaviour

ASSUME GeneratorAssumption == GeneratorDies \in BOOLEAN /\ MaxGenerations \in Nat

VARIABLES
  genPc,       \* where the generation is
  oldKey,      \* the key pair it loaded from the active file
  newKey,      \* the key pair it drew
  drawn,       \* key pairs that have been drawn so far
  settled,     \* history: the last generation ended well
  generations, \* the number of generations so far
  existed      \* history: events.jsonl existed at the start

genVars == <<genPc, oldKey, newKey, drawn, settled, generations, existed>>
ledgerVars == <<fileVars, lock, pc, procVars, acked, instPc>>

GenPc == {"idle", "load", "truncate old", "fill old", "archive", "truncate key",
          "fill key", "truncate new", "fill new"}

KeyTypeOK ==
  /\ TypeOK
  /\ genPc \in GenPc
  /\ oldKey \in Key \cup {NoKey}
  /\ newKey \in Key \cup {NoKey}
  /\ drawn \subseteq Key
  /\ settled \in BOOLEAN
  /\ generations \in 0..MaxGenerations
  /\ existed \in BOOLEAN

KeyInit ==
  /\ Init
  /\ genPc = "idle"
  /\ oldKey = NoKey
  /\ newKey = NoKey
  /\ drawn = {keyfile} \ {NoKey}
  /\ settled = TRUE
  /\ generations = 0
  /\ existed = ledgerThere

-----------------------------------------------------------------------------
\* Without a key file, or with --force; without --force an existing key is an
\* error that changes nothing.
Generate ==
  /\ genPc = "idle"
  /\ generations < MaxGenerations
  /\ generations' = generations + 1
  /\ settled' = FALSE
  /\ genPc' = IF keyfile = NoKey THEN "truncate key" ELSE "load"
  /\ UNCHANGED <<oldKey, newKey, drawn, keyVars>>

\* The process has ended; what it knew is gone.
Quit ==
  /\ genPc' = "idle"
  /\ oldKey' = NoKey
  /\ newKey' = NoKey

\* Mutant of LoadOld: the length of the file is not checked.
LoadUnchecked ==
  /\ genPc = "load"
  /\ oldKey' = keyfile
  /\ genPc' = "truncate old"
  /\ UNCHANGED <<newKey, drawn, settled, generations, keyVars>>

\* Mutant of LoadOld: the old key is taken to be published.
LoadAndArchive ==
  /\ genPc = "load"
  /\ IF keyfile = BadKey
       THEN Quit
       ELSE oldKey' = keyfile /\ genPc' = "archive" /\ UNCHANGED newKey
  /\ UNCHANGED <<drawn, settled, generations, keyVars>>

\* rotate_active_key loads the active key; one that is not 32 bytes is an error.
LoadOld ==
  /\ genPc = "load"
  /\ IF keyfile = BadKey
       THEN Quit
       ELSE oldKey' = keyfile /\ genPc' = "truncate old" /\ UNCHANGED newKey
  /\ UNCHANGED <<drawn, settled, generations, keyVars>>

\* publish_trust_pubkey is fs::write, also for a key that is published already:
\* until the file is filled again no row of that key verifies.
TruncatePub(k) == trust' = trust \ {k}
FillPub(k) == trust' = trust \cup {k}

TruncateOldPub ==
  /\ genPc = "truncate old"
  /\ TruncatePub(oldKey)
  /\ genPc' = "fill old"
  /\ UNCHANGED <<oldKey, newKey, drawn, settled, generations, keyfile>>

FillOldPub ==
  /\ genPc = "fill old"
  /\ FillPub(oldKey)
  /\ genPc' = "archive"
  /\ UNCHANGED <<oldKey, newKey, drawn, settled, generations, keyfile>>

\* The old key file becomes the backup: for a moment there is no active key.
ArchiveOld ==
  /\ genPc = "archive"
  /\ keyfile' = NoKey
  /\ genPc' = "truncate key"
  /\ UNCHANGED <<oldKey, newKey, drawn, settled, generations, trust>>

\* A new pair is drawn, and fs::write creates an empty file before it fills it.
TruncateKey ==
  /\ genPc = "truncate key"
  /\ newKey' \in Key \ drawn
  /\ drawn' = drawn \cup {newKey'}
  /\ keyfile' = BadKey
  /\ genPc' = "fill key"
  /\ UNCHANGED <<oldKey, settled, generations, trust>>

\* Mutant of FillKey: the new key is not published.
FillKeyOnly ==
  /\ genPc = "fill key"
  /\ keyfile' = newKey
  /\ Quit
  /\ settled' = TRUE
  /\ UNCHANGED <<drawn, generations, trust>>

\* From here on hooks sign with a key nobody can look up yet.
FillKey ==
  /\ genPc = "fill key"
  /\ keyfile' = newKey
  /\ genPc' = "truncate new"
  /\ UNCHANGED <<oldKey, newKey, drawn, settled, generations, trust>>

TruncateNewPub ==
  /\ genPc = "truncate new"
  /\ TruncatePub(newKey)
  /\ genPc' = "fill new"
  /\ UNCHANGED <<oldKey, newKey, drawn, settled, generations, keyfile>>

FillNewPub ==
  /\ genPc = "fill new"
  /\ FillPub(newKey)
  /\ Quit
  /\ settled' = TRUE
  /\ UNCHANGED <<drawn, generations, keyfile>>

\* The process is killed between two calls, or the next call returns an error.
GeneratorEnds ==
  /\ GeneratorDies
  /\ genPc # "idle"
  /\ Quit
  /\ UNCHANGED <<drawn, settled, generations, keyVars>>

GenerateStep ==
  \/ Generate \/ LoadOld \/ TruncateOldPub \/ FillOldPub \/ ArchiveOld
  \/ TruncateKey \/ FillKey \/ TruncateNewPub \/ FillNewPub \/ GeneratorEnds

KeyNext ==
  \/ Next /\ UNCHANGED genVars
  \/ GenerateStep /\ UNCHANGED <<ledgerVars, existed>>

KeySpec == KeyInit /\ [][KeyNext]_<<vars, genVars>>

-----------------------------------------------------------------------------
(* Properties *)

\* However generations are cut short and repeated while hooks sign, the key of a
\* signed row is published or is the active key, which the next generation
\* publishes: no row is left that nobody will ever be able to verify.
SignedRowsRecoverable ==
  \A i \in 1..Len(lines) : lines[i].key \in trust \cup {keyfile, NoKey}

\* After a generation that ended well every signed row verifies, and so will the
\* next one, whatever earlier generations left behind.
GenerationRepairs ==
  settled =>
    /\ keyfile \in trust \cup {NoKey}
    /\ \A i \in 1..Len(lines) : lines[i].key \in trust \cup {NoKey}

\* However appends of every mode, `corcept init` and generations interleave, a
\* ledger that existed passes its hash-chain verification in every state, also
\* while a row is half written (a verifier takes no lock), and keeps every row
\* whose append returned Ok: a last_hash that init empties under a writer, or
\* that is read while it is being rewritten, does not break the chain.
ExistingLedgerUnharmed == existed => HashChainVerifies /\ AckedRowsSurvive
=============================================================================
