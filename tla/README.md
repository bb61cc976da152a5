# Corcept: TLA+ models, checks and proofs

Corcept puts a governance layer around an agent host. The host runs a
short-lived `corcept` process for every hook event. That process evaluates
guards, appends a row to a hash-chained ledger and answers allow, ask, deny or
block. Command-line verbs run next to the hooks and leave receipts. There is no
daemon and no shared memory: everything the processes share is files, so every
hazard of the system is an interleaving, a crash or a failing call between two
file-system operations of different processes, or a decision procedure whose
order of checks matters.

Paths below are relative to the repository's `crates/` directory.

## 1. Inventory

| Component | State it keeps | Operations | Interacts with |
|---|---|---|---|
| Authority ledger, `corcept-ledger/src/lib.rs` | `events.jsonl`, `last_hash`, `append.lock` | append (plain, signed by environment, mandatory signed), verify, `ensure_ledger` | called by every hook, by `init`, by the MCP server; reads the operator key |
| Operator keys, `corcept-ledger/src/keys.rs`, `signed_row.rs` | active key, its backup, trust directory | generate, rotate, load, verify a row | ledger, receipts |
| Audit trail and receipts, `corcept-ledger/src/trail.rs`, `emit_receipt` in `corcept-cli/src/main.rs` | `audit-trail.jsonl`, its lock, receipt files | emit, verify | CLI verbs |
| Delegated admission, `corcept-runtime/src/delegation.rs` | policy file, archive of snapshots, consumed markers, decision rows | one pretool call with an authority source | delegation evaluation, base guards, ledger, the operator who replaces the policy file |
| Delegation evaluation, `corcept-guards/src/delegation.rs` | none: a function of document, call and time | `validate_snapshot`, `evaluate_delegation` | delegated admission |
| Pre-tool guards, `corcept-guards/src/lib.rs` | none | classify a command, paths, a search, a write | pretool hook, delegated admission, verify-before-load |
| Stop gate, `evaluate_stop` in `corcept-guards/src/lib.rs` | none of its own: it reads the ledger | block or let pass a stop | stop hook, ledger |
| Hook runtime, `corcept-runtime/src/lib.rs` | none beyond the files | session-start, prompt, pretool, posttool, stop | guards, sinks |
| Sinks, `corcept-sink`, `corcept-sink-cloudevents` | ledger plus secondary outputs | serve one event to all of them | hook runtime |
| Verify-before-load, `corcept-guards/src/verify_before_load.rs` | none: it reads a snapshot of the advertised definition, a signed manifest and a verifying key, which others write | the gate on one tool name | pretool hook; the host and the operator own the files |
| Memory, `corcept-memory` | candidate and accepted directories | propose, validate, promote, list | CLI, MCP, the user's editor |
| MCP server, `corcept-cli/src/mcp.rs` | handshake state of one connection | requests, notifications, six tools | ledger, memory, doctrine |
| Init, doctor and audit, `corcept-runtime/src/lib.rs` | every file of a project | create what is missing; report | ledger, MCP, CLI receipts |
| Doctrine, contracts, redaction, generated wrapper, project generator, benchmarks | files or none | load, validate, print | CLI |

`PROJECT.json` gives every component's status, and the reason where it is not
modelled.

### What is hard, and what makes each component correct

* **Ledger.** Three files change in five separate calls (row, newline, truncate
  sidecar, fill sidecar, unlink lock), any of which can be the last a process
  makes. Readers do not take the lock. Correct means: the chain verifies; an
  acknowledged row stays; what faults damage is at the end, where the next
  signed append sees it; nobody waits for ever; no two processes are between
  reading the tip and replacing it.
* **Trail.** Its lock, unlike the ledger's, is removed by age, and its guard
  unlinks whatever has the name. A row and its newline are two writes, so the next
  row can run into an unfinished line. Correct means: damage stays in the last
  line, a receipt never tells of a row whose text is missing, a successful verb
  has its receipt.
* **Delegated admission.** A signed invocation and an approval may each be used
  once, over concurrent calls, retries after crashes, failures between the two
  reservations, and while the operator replaces the policy file. Correct means:
  no second allow, no allow before the text of its row is in the ledger, and every
  allow row can be traced to an archived document that admits it.
* **Delegation evaluation.** A document is validated in one pass and looked up
  by id in another, with intervals nested three deep; an abort would be no
  decision. Correct means: it always decides, and allows exactly what is
  authorised, and an approval names one call.
* **Stop gate and hooks.** The gate folds a history that other hooks append to.
  Correct means: its answer is right at one moment of its evaluation, it cannot
  trap a session, answers and derived sinks follow the ledger.

* **Guard cascade.** Fifteen rules, of which the first that fires answers, over
  words found by three different ways past wrappers and assignments, and paths
  normalised in two ways. Correct means: the order of the built-in rules hides
  no stricter one; nothing put before a command or added to a call lets through
  what was stopped; a detour in a path changes neither whether it is protected nor
  whether it is outside (it does change the rule on the project's own files, which
  looks at the path as written); wildcards match what they denote.
* **Verify-before-load.** Key, manifest and definition are read one after the
  other while they are rewritten. Correct means: only a definition that was
  signed with the key read passes, and the answer is never milder than the
  cascade's. The three files need not have been there together: the gate may
  admit on a key that is gone by the time it reads the definition.
* **Memory.** Every write truncates and fills without a lock, next to edits by
  hand. Correct means: accepted memory in one piece was validated; a listing
  leaves nothing out. The code promises no more: a promotion again that dies
  between the two halves loses the memory accepted before, and one half-written
  candidate makes a whole listing fail.
* **MCP server and reports.** A report reads the ledger two or three times while
  rows are appended, and an unreadable ledger counts as an empty one. Correct
  means: its claims hold of one ledger, a receipt names at least what was
  verified, and no failing read ends the server.

`PROJECT.json` lists every hazard at its line, with the properties that would
catch it.

## 2. Modules

| Module | What it is |
|---|---|
| `AppendOnlyLog` | abstract: a log that grows one row at a time |
| `LedgerAppend` | every file-system call of an append, `init`'s unlocked creation, crashes, I/O errors, operator recovery |
| `KeyLifecycle` | extends `LedgerAppend` with key generations and rotations that may end anywhere |
| `LedgerProofs` | the theorems of both |
| `SingleUse` | abstract: identifiers that are spent before they are granted and never granted twice |
| `DelegatedAdmission` | one pretool call, step by step, with its failures, crashes, retries and a changing policy file |
| `DelegatedAdmissionProofs` | its theorems |
| `DelegationRules` | document validation, ordered evaluation, limits, composition with the base guard |
| `DelegationRulesProofs` | its theorems |
| `TrailReceipts` | `emit_receipt` under its lock, row and newline apart, reclaim by age, crashes, I/O errors, stalls |
| `TrailReceiptsProofs` | its theorems |
| `StopGate` | abstract: one flag, set by a change and cleared by a passing test |
| `HookSession` | the other hooks of concurrent sessions, the sinks and the stop gate |
| `HookSessionProofs` | its theorems |
| `TextRules` | wildcards, path normalisation, protected paths, as functions of sequences |
| `TextRulesProofs` | what they compute for texts and paths of any length |
| `GuardCascade` | the detectors and the ordered rules for commands, reads and writes |
| `VerifyBeforeLoad` | one evaluation of the gate, read by read, and the owners of its files |
| `PreToolGuard` | `evaluate_pre_tool`: a call is composed, classified, gated and answered |
| `PreToolGuardProofs` | its theorems |
| `ProjectMemory` | propose, promote and list, file operation by file operation |
| `ProjectReports` | audit, doctor, verify and export, read by read, next to appends |
| `McpServer` | the server's loop, methods and tools over the two modules above |
| `McpServerProofs` | its theorems |
| `MC...` | the constants of the TLC runs |

`DelegatedAdmission` takes what the document grants as the constant `Grants`;
`DelegationRules` is how that is computed. `HookSession` and
`DelegatedAdmission` treat one append as one step that may fail, be refused or
be cut short, behind which the next row runs into the unfinished line,
`ProjectReports` as one that may leave half a line; `LedgerAppend` is the inside
of that step. The verdicts `DelegationRules` and
`DelegatedAdmission` take as `BaseVerdicts` and `Base` are those `GuardCascade`
computes. `PreToolGuard` extends `GuardCascade` (which extends `TextRules`) and
`VerifyBeforeLoad`; `McpServer` extends `ProjectMemory` and `ProjectReports`.

### LedgerAppend

`lines`, `open` are `events.jsonl` as physical lines and whether the last one
lacks its newline; `sidecar` is the content of `last_hash`; `lock` is
`append.lock`. A row is identified with its hash, because each carries a fresh
uuid. Two texts on one line do not parse, which is `Torn`. `pc[w]` is the place
in `append_event_inner`; the actions in order are `BeginAppend`/`RefuseAppend`
(key checks), `TakeLock`/`GiveUp` (`LedgerAppendLock::acquire` and its 5 s),
`EnsureLedger`, `VerifyHistory` (mandatory signed only), `SealRow` (tip, hash,
signature), `WriteText`, `WriteNewline` (the two writes of `writeln!`),
`TruncateSidecar`, `FillSidecar` (the two halves of `fs::write`) and
`ReleaseLock` (the destructor). `WriteTextFails`, `LaterStepFails` return
through the `?`; `Crash` leaves the lock, which only `OperatorUnlock` removes:
age never does. An installer is `init_project`'s `ensure_ledger`, four separate
steps without the lock.

Abstracted: canonical JSON, hashing and Ed25519 (row identity and the key that
signed). A short write of the 64 hash bytes into `last_hash` is not modelled:
the truncation before it and its absence are.

### KeyLifecycle

One generation of the operator key at a time, next to everything `LedgerAppend`
does, whose `keyfile` and `trust` it moves. `Generate` starts
`generate_operator_key` (with `--force` when there is a key file; without it the
call is an error that changes nothing). `LoadOld`, `TruncateOldPub`,
`FillOldPub`, `ArchiveOld` are `rotate_active_key` in order, `TruncateKey` and
`FillKey` the two halves of the key file's `fs::write`, `TruncateNewPub` and
`FillNewPub` those of `publish_trust_pubkey`; `GeneratorEnds` is a kill or a
failing call between any two. A `.pub` file that is empty is one that is not in
`trust`: both make every signed verification fail. A drawn key is a new one.
The backup file is written and never read by the code, so it is no state here.

### DelegatedAdmission

`policy` is the snapshot in the policy file, `archived` the archive directory,
`consumed[m]` which call created the marker file `m`. Of the ledger `rows` are the
allow rows on lines of their own, `tail` the line that has no newline yet (nothing,
a cut text, an allow row or another row), `lost` the allow rows whose text shares
its line with another and so cannot be read, `torn` whether there is such a line,
`intact` whether `last_hash` agrees with the tip. `locked` is whether a dead
process left `append.lock`. `PutText` and `PutRow` are what a write that ends
without and with its newline does to these; `Appendable` is the lock and the check
of the history, which only a signed append makes, and which accepts a last row
without its newline. `ReadSnapshot`, `Archive`, `Decide`,
`ReserveInvocation`, `ReserveApproval`, `Record`, `AnswerHost` are
`handle_pretool_inner` in order; `Failed` is the chain of `record_failure` calls
around it, which ends after two attempts. `Begin` also covers a partial
configuration, which is an error before any authority is read, and
`DecideAlone` the absence of an authority source. `Publish` is the operator's
replacement of the policy file at any moment; `timely` is the clock's position
relative to the intervals.

### DelegationRules

A document is a record of sequences of rows (invocations, grants, capabilities,
two kinds of policy, approvals). `Valid` is `validate_snapshot`, `Evaluate` is
`evaluate_delegation` with its order of refusals, `Admit` adds the runtime's
limits and the composition with the base guard, and `Handle`/`Exit` are the
process around it, at a time `Tick` chooses. A lookup that fails is `Panic`
(the code would abort), so that totality is something to check. Abstracted:
caller and user are one subject; capability, action and resource are one
component of a scope; digests and signatures are names; ids are well formed;
tools of one authority floor are represented by one. Two branches of the code
cannot be reached and are not modelled as outcomes: the final conversion of an
ask into a denial in `corcept-runtime/src/delegation.rs:194-197` and the second
comparison of the approval binding inside `evaluate_delegation`.

### TrailReceipts

`lines` and `open` are the trail: for every line the texts on it, and whether the
last has no newline yet. A line is a row if it holds one text and that is not cut.
`receipts` maps a file name (verb and millisecond) to what the file tells of, `lock`
to its holder and whether it is older than 30 s, `robbed` says whether a lock was
ever taken from a live process. `FindStale` and `RemoveStale` are the two halves of
`reclaim_if_stale`; `DropLock` is the guard's destructor, which removes any lock;
`ReadTip`, `AppendText` and `AppendNewline` are the external audit crate's append,
modelled from how `trail.rs` uses it and from what lines 84-88 say of it: it refuses
a trail with a line that is no row, and row and newline are separate writes.
`CreateReceipt` and `FillReceipt` are the halves of `fs::write`. `EmitFails` and
`Crash` may leave a part of a row, a row without its newline, or an empty receipt.

### HookSession

`rows` is the ledger (each row named by its hook call), `derived` what the
derived sinks were handed, `told` what `evaluate_stop` said, `streak` how many
stops of a session were blocked in a row. `StopCheck` reads the host's
`stop_hook_active`, which the host sets on the stop after a blocked one; the
host is external and modelled from that use. `EvaluateStop` reads the ledger
without its lock, `AppendRow`, `AppendToDamaged`, `AppendRefused` are the ledger
sink, `ServeSink` one derived sink, whose errors are swallowed. `UnknownCommand` is
a hook command the runtime does not know: it is answered without a row.

### TextRules, GuardCascade, PreToolGuard

A command is what `shell_tokens` returns, a sequence of words. A word is a
record: its text, its argv0 stem, the variable it assigns, the path it is read
as, and what the detectors look for inside the text (a flag's letters, a URL, a
secret variable), so that splitting characters is left out while every position
a detector looks at is kept. A path is a sequence of names and a name the parts
between its dots, with each backslash a part of its own. `Slashed` is the
replacement of backslashes and `Lowered` that of capitals, which
`is_protected_path` and the rule on the project's own files make and
`is_outside_repo` does not. `CommandIndices`, `ArgIndices`, `FirstCommandWord`,
`NextWord` and `EffectiveStart` are the five ways the detectors find a command
among words; `BuiltInRules` and `ConfiguredRules` are the cascade of
`evaluate_bash`, in order; `WriteRules` and `ControlledRules` those of one path
of a write, where the first path with a rule that fires answers and later paths
are not looked at. `detect_shell_wrapper_shape` is no rule of the model: no word
of `shell_tokens` contains the space it looks for. In `PreToolGuard` a call
grows by one word or path per step (`WriteCommand`, `NamePath`), `Begin` is the
match on the tool name, `GateStep` one read of the gate and `Answer` the
composition.

### VerifyBeforeLoad

`advertised`, `manifest` and `pubkey` are the three files of one tool,
`pinned` a history of what was ever signed. `CheckName` and `CheckSnapshot` are
`guard_for_tool`; `CheckPin`, `ReadPubkey`, `ReadManifest`, `ReadDefinition`
and `Verify` are `classify` in order, each with the token it may end with.
`Snapshot`, `Pin` and `PublishKey` are the owners, who are outside the
repository: they write by truncating and filling, and may stop in between. The
verification is that of the external library, by its verdicts.

### ProjectMemory, ProjectReports

A memory file says which id it is of and whether `validate_candidate` accepts
it. `ProposeCreate`/`ProposeFill` and `PromoteTruncate`/`PromoteFill` are the
halves of `fs::write`; where two of these overlap, the end of the longer text may
stay behind the shorter one (`Filled`). `PromoteRead` reads and validates. The
accepted file is named by the id inside the candidate, which an edit can change and
nothing validates: it may be `Elsewhere`, outside the directory. `ListOpen`
reads the directory, `ListNext` one file in the order of names until the limit.
In `ProjectReports` a row is signed and in the chain, in the chain only, or out
of it. `AuditRead` and `AuditChain` are `audit`, `AuditVerify` what its tool
adds; `DoctorFiles`, `DoctorChain`, `DoctorSchema`, `DoctorSigning` and
`DoctorPerms` are `doctor_with_options`, each a read of its own. `BeginVerb`
reads and verifies, `EmitReceipt` digests the input and signs, as
`corcept audit verify` and `corcept export` do; an export that wrote no rows is
`degraded` if its output is not a regular file.

### McpServer

`step` is where the one loop of `serve` is: reading, handling, a read of a
tool, writing. A message is what `handle_message` and the argument parsers tell
apart (`Sent`). `Handle` and `HandleCall` are the methods with their error
codes, an unknown notification included: like an unknown request it is answered
-32601, with a null id. A tool whose read fails answers -32603. `ReadNothing`
is the end of the input and a frame that cannot be read, both of which end the
server, as does a failing write (`WriteFails`); a frame whose body has not
arrived in the buffer with its header is read as lines, the first of which is
not JSON.

## 3. Runs

All runs are exhaustive over the bounds in their `.cfg`; none uses a state
constraint. Deadlock is checked wherever processes wait for each other: the
only states without a further step of the system are those in which a bound is
used up and everybody is done (`Exhausted`). It is not in `PreToolGuard`, which
stops when a call is answered, nor in `McpServer`, where a server that has ended
and commands that have rested may stop.

| Run | Instance | Shows |
|---|---|---|
| `LedgerSignedFaults` | 2 writers, 4 signed appends, crashes, I/O errors, recovery; fair | types; only the lock's creator is inside its scope; damage is confined to the last line; the refinement holds over crashes; complete lines never change; every append ends |
| `KeyRotation` | 2 writers in every mode, 2 appends, 1 installer, 3 keys, 2 generations that may end anywhere | no signed row is left with a key nobody can publish; a finished generation repairs what a cut one left; where the ledger existed at the start, the chain verifies and acknowledged rows stay, next to `init` and for readers without the lock |
| `LedgerInstallRace` | 1 installer, first append | **violated**: finding 1 |
| `LedgerSignedAck` | 2 writers, 3 signed appends, faults | **violated**: finding 2 |
| `AdmissionFaults` | 2 processes, 2 calls, 2 invocations, 1 approval bound to either by two snapshots, no, partial and full configuration, every fault | no id is granted twice; allow rows can be traced; the text of the row is in the ledger before allow is answered; refinement of `SingleUse` |
| `DelegationRules` | 3533 documents: a good one and everything two amendments away; 3 times, 7 calls, 3 base verdicts, 3 limits | always decides; allows exactly what is authorised; an approval names one call |
| `TrailFaults` | 2 processes, 3 emissions, 2 milliseconds, crashes, I/O errors, stalled holders; fair | unless a live process is robbed of its lock, one emission is inside at a time and damage stays in the last line; receipts have the text of their rows; success keeps its receipt; every emission ends |
| `TrailReclaim` | 3 processes, one crash | **violated**: finding 3 |
| `HookFaults` | 2 sessions, 2 processes, 4 calls, 1 mishap | the stop gate is atomic; no block loop; answers and derived sinks follow the ledger |
| `HookProjection` | 1 process, CloudEvents sink, no fault | **violated**: finding 4 |
| `PreToolGuard` | commands of up to 4 of 9 words and up to 3 of 27, up to 2 of 17 paths (two with backslashes, two with capitals), with and without working directory, patterns and gate; patterns of up to 3 symbols and some of 5; 2 definitions, 2 keys | no stricter built-in rule is hidden; prefixes, further words and paths let nothing through; wildcards and path normalisation are right; only what was pinned passes the gate |
| `McpServer` | every message in three projects that stay as they are; listings next to a memory command (2 ids, 1 death), and two of them at once; reports next to appends (3 rows); receipts next to appends | accepted memory was validated; listings are complete; the claims of doctor, audit and receipts hold of one ledger; every request is answered |

**Why the bounds are enough.** The lock makes all interaction pairwise: a third
writer adds a waiter, not a new conflict, and four appends are a predecessor,
two racing appends and one that sees the result. Two processes and two calls
are the smallest instance in which a reservation, a crash and a retry can
overlap on one id while two snapshots disagree about the approval. Two
generations are one that is cut short and one that follows it, which needs the
initial key and two drawn ones. Three
emissions let a lock be left, removed and removed again. Two amendments suffice
for every check of the document that relates two fields, and three times give
each interval a before, an inside and an end. Four hook calls are a change, a
test, a stop and the stop after it, in two sessions. What lies beyond the
bounds is what the theorems of section 5 are for. The words of `PreToolGuard`
set off every detector; three words hold a wrapper, a command and its argument,
four of the smaller set a flag or a boundary as well, and two paths are one and
another that must not mask it. Five symbols make a pattern with two parts, or
three stars around them, over texts of up to three words. Two definitions and two keys
give drift and a foreign key. Two memory commands, of which one may die, and the
user's editor write the same files; two ids let a candidate claim the other's name.
A listing runs next to one of the commands, which already changes every file it
reads. Three rows are one before a report begins, one between
its reads and one after. A project that changes while any message is handled is
split over five scenes, each of which holds the programs its messages read.

**Fairness.** `FairSpec` of the ledger and the trail assumes weak fairness of
one process's own steps (`AppendStep`, `EmitStep`): a running process keeps
being scheduled. Each waits by polling with a deadline, so `GiveUp` is one of
those steps. `McpServer` assumes it of `HandleStep`, the server's work on a
message it has read: it never waits there. No fairness is given to the
operator, to the host or client, to the ageing of a lock, to the owners of files
or to faults: the liveness properties hold although a dead process's lock may
never be removed. A killed process counts as ended. The other specifications
state safety only.

## 4. Findings

1. `LedgerInstallRace`: `init` checks that `events.jsonl` is missing and later
   truncates it, without `append.lock`; a first append in between is
   acknowledged and lost.
2. `LedgerSignedAck`: a writer that dies between the first row and its newline
   leaves a line that parses; the next mandatory signed append verifies the
   history, writes into that line and answers Ok.
3. `TrailReclaim`: of two processes that saw the same stale lock, the second
   removes the lock the first has just taken, and two are in the section that
   `trail.rs:88-89` says is serialized: the trail can fork, or two rows share a
   line. The comment calls this a benign race.
4. `HookProjection`: the derived sinks get the event before the ledger gives it
   id, time and hash, so the CloudEvents projection names no row.

Also met while modelling, reachable in the models, but not a run of their own:

* A built-in Ask comes before a configured deny pattern and answers for it,
  where `docs/adr/0020-guard-stop-gate-composition.md:14` says that deny wins (a
  comment in `evaluate_bash` says the order is meant).
* A write that names a protected file after one whose change is only asked about
  is asked about: `evaluate_write` answers at the first path.
* An unsigned append trusts a `last_hash` left behind by a failed write, and
  forks the chain. After operator recovery from a crash between row and sidecar
  every mandatory signed append is refused until the files are repaired by hand.
* A rotation publishes the old key once more by truncating its `.pub`, so a
  crash there makes every row of that key fail verification until the next
  generation ends (`docs/PARITY-TASKS.md:559` wants old rows to remain
  verifiable). A crash inside the write of the key file leaves one that neither
  an append nor a forced generation accepts.
* When an append errs after its row is written, the row says allow while the
  host is answered a denial. An append behind an unfinished line answers Ok for
  a row that cannot be read (finding 2 for a signed append behind a row without
  its newline, an unsigned append behind any), so a call may be allowed on a row
  in a ledger that does not verify any more: `AllowAudited` promises the text of
  the row, and a readable line only while every line can be read.
* Two emissions of one verb in one millisecond share a receipt file, and a later
  one that dies inside its write tears the receipt of the one that succeeded
  (`SuccessKeepsReceipt` says so).
* An emission whose trail append stops inside it leaves an unfinished line. A
  row without its newline is read as the tip, the next row runs into it and is
  reported successful, and from then on no emission finds a trail it can read.
* Posttool rows are appended in the order the hooks finish, so a test that ran
  before a change can be recorded after it and clear the gate, which
  `docs/audit/TIMEOUTS.md:13-14` does not consider (line 10 of it also gives the
  lock 10 s, the code 5 s).
* `is_protected_path` takes a backslash for a separator and `is_outside_repo`
  does not, so on Unix `a\..\..\b` leaves the repository for one and not for the
  other. `CollapseKeepsPlace` is therefore a property of paths without a
  backslash.
* `evaluate_corcept_controlled_write` matches the path as written, so
  `.corcept/memory/x/../accepted/m` is not recognised as accepted memory.
  `DetourKeepsGuarded` is a property of the two checks that normalise. It also
  leaves out a detour written before the root of an absolute path, which is then
  relative.
* The id inside a candidate names the accepted file and is not checked as the id
  of the command line is.
* `detect_sandbox_escape` (`lib.rs:871`) takes the first word whose file name is
  docker or podman for the command, and an assignment such as `x=/docker` before
  it is one; `effective_argv` (`lib.rs:975`) skips flags behind a wrapper, so an
  interpreter written like a flag (`-x/sh`) is found at the head of a command
  and not behind `env`. Both came out of the proof that a prefix hides nothing,
  and `PrefixNeverAllows` leaves them out.

## 5. What is proved

The theorems hold for every value of the constants, under the modules' named
assumptions.

* **LedgerProofs**, of `LedgerAppend`. `TypeCorrect`. `MutualExclusion` (`LockExclusive`):
  inductive on its own, since only the creator of the lock removes it while
  alive. `SignedHistoryIntact` (`OnlyTailDamaged`, assuming every append is
  signed and no installer runs, `SignedOnlyLedger`): the invariant relates the
  sidecar and the last line to the lock holder's place, and shows that a writer
  past `VerifyHistory` still extends exactly the history it verified.
  `ConcurrentAppendsChain` (the chain verifies and acknowledged rows survive,
  assuming no faults and no installers, `UndisturbedLedger`): the sidecar is the
  tip whenever nobody is inside. Under the same two assumptions `SignedLedgerIsLog` and
  `UndisturbedLedgerIsLog` show `ImplementsLog`: an id is in at most one place
  (with a writer that has not written it, or on one line), a new line is only
  started behind a whole row, and an open line that parses names the row before
  it; so only a newline commits a row, one that extends the log, and every other
  step stutters. `CompleteLinesStay` (`TerminatedLinesImmutable`, every mode and
  fault, no installer). The assumptions are exactly the ones without which a
  run exhibits the failure (findings 1 and 2, and the stale sidecar).
* **LedgerProofs**, of `KeyLifecycle`. `KeyTypes`, `RowsRecoverable`
  (`SignedRowsRecoverable`) and `GenerationsRepair` (`GenerationRepairs`), with
  every fault and any number of everything, and `ExistingLedgerSafe`
  (`ExistingLedgerUnharmed`, assuming no faults): an installer that finds
  `events.jsonl` never truncates it, and from then on the
  invariant is that of `ConcurrentAppendsChain`. The invariant follows a key from
  the key file into a writer, its row and the ledger: wherever it is, it is
  published or active, because a generation removes the active key only after
  publishing it and truncates no publication but the active key's.
* **DelegatedAdmissionProofs.** `AdmissionTypes`. `AllowsOnce` (`GrantOnce`)
  and `AllowsTraceable` (`AllowReconstructable`): the
  invariant says that a process on its way to an allow owns the markers it has
  passed, that call numbers are unique to processes, and that the snapshot it
  holds is archived from `Decide` on. `AllowsRecorded` (`AllowAudited`): a
  process that is about to answer allow has put the text of its row, texts stay,
  and one is only ever lost together with a line that cannot be read (`LostShows`).
  All three hold for any number of processes, calls, ids, documents and faults, in
  every configuration. `SingleUseImplemented`
  (`ImplementsSingleUse`): with unique call numbers a grant takes ids that are
  spent and were not granted, and every other step stutters; without a complete
  configuration nothing is spent.
* **DelegationRulesProofs.** `EveryCallIsDecided` (`AlwaysDecides`),
  `AllowedExactlyIfAuthorised` (`AllowedIffAuthorised`), `ApprovalsNameOneCall`
  (`ApprovalNamesOneCall`), for every set of documents with the fields
  `IsDocument` names. The argument: ids are unique across the kinds, so the
  first row with an id is the row; validation resolves references by id and
  version, so the later lookups by id alone find the referenced rows; approval
  interval within grant interval within document interval, so checking the
  innermost one suffices.
* **TrailReceiptsProofs.** `TrailTypes`, `ReceiptsHaveRows` (`ReceiptHasRow`),
  `SuccessesKeepReceipts` (`SuccessKeepsReceipt`), `ChainsUnlessRobbed`
  (`ChainUnlessRobbed`), over any number of processes, emissions and stalls, with
  appends that fail or die inside. An emission belongs to one process; a text that
  was written stays on its line; a torn receipt is that of an emission which is
  still at it or has failed. Until a live holder's lock is removed only the holder
  is inside, the tip it read is the last line's, every line before the last is a
  row, and a text only runs into the last one: behind that, no emission gets past
  `ReadTip`.
* **HookSessionProofs.** `HookTypes`, `NeverTrapped` (`NoBlockLoop`),
  `AnswersFollowLedger` (`AnswersAudited`), `DerivedFollowLedger`
  (`DerivedHasRow`), `StopGateImplemented` (`ImplementsStopGate`). The gate's
  flag is whether the last change in the ledger comes after the last passing
  test (the last of a non-empty set of positions exists because distances from
  the end have a minimum); a row sets the flag, clears it or leaves it.
* **TextRulesProofs.** `WildcardsMatch`: for every pattern and text the greedy
  scan of `wildcard_match` succeeds exactly when the text matches. The invariant
  goes through the pattern symbol by symbol (`Matched`): between two parts the
  places where a match of the symbols so far may end are those from the end of
  the scan on, since the first place of a part leaves the most room; inside a
  part they are where it occurs behind such a place. `CollapsePlace` and
  `DetourLeadsBack`: `collapse_path_traversal` drops what does not move and
  takes back a name that is left again, so from any directory its result leads
  where the path leads (`Denotes`); into a directory and out again is a step
  that both normalisations undo. `FoldLeft` is defined by recursion over sets of
  positions; `FoldExists` shows, by the least position without one, that its
  function exists, `FoldStep` that a fold over one element more is one step
  more, and `SeqInduction` that what the empty sequence has and an appended
  element keeps holds of every sequence. They speak of sets instead of
  predicates, so that the provers can use them.
* **PreToolGuardProofs.** `BuiltInOrder` (`FirstIsStrictest`), for commands of
  any length over any words: every built-in rule before the recursive-delete
  rule denies and every one after it asks, so the first that fires is a
  strictest one. `PrefixNeverHides` (`PrefixNeverAllows`) and `NothingWeakens`
  (`NothingAddedWeakens`): a command is embedded in the one with a word more
  before or after it (`Embeds`), each helper that finds commands, arguments or
  the next word finds them at the shifted positions, so each of the twelve
  detectors fires again (`Embedded...`), and a rule that fires earlier is no
  milder by the order of the rules; of paths, what stops one stops the list.
  `WildcardsExact` (`GlobCorrect`), `CollapseDenotes` (`CollapseKeepsPlace`) and
  `DetoursKeepGuarded` (`DetourKeepsGuarded`) from `TextRulesProofs`, where replacing
  backslashes in a path with a detour gives the replaced path with the same detour.
  `PinnedOnly` (`OnlyPinnedPasses`), for any definitions, keys
  and interleaving of the owners: the invariant (`FilesInv`, `HeldInv`,
  `CallInv`) says that a manifest that is there was pinned, that what the
  evaluation holds was pinned once it has a manifest to verify, and that the
  answer composes the verdicts of the cascade and the gate. `CallTypes`: every
  call gets a verdict. The assumptions on words, paths, patterns and settings
  say what they are (`TextsAssumption`, `PathsAssumption`,
  `SettingsAssumption`), and of words that the attributes of one word agree as
  `normalize_argv0` and `looks_like_assignment` make them (`WordsAssumption`).
* **McpServerProofs.** `AcceptedWasSound`, `ListingsComplete`,
  `StrictDoctorSound`, `AuditConsistent`, `ReceiptsCover`, `ServerTypes`, for
  any scenes, ids, commands, deaths and rows. `McpInv` joins an invariant per
  part: what a command holds was validated (`MemoryInv`); what a listing has
  left or found contains what was whole when it began (`ListInv`); what a report
  began with is a prefix of the ledger, of which nothing it has found so far can
  be lost by reading more (`ReportInv`); the same of a receipt's two reads
  (`ReceiptInv`). Rows are only appended, and a prefix of rows in the chain is
  in the chain.

**Only model-checked.** Every safety property of a passing run has a theorem
and so has every refinement, that of `AppendOnlyLog` under the two ledger
assumptions. Liveness (`AppendEnds`, `EmissionEnds`, `MessagesAnswered`) and
anything with ENABLED is out of the prover's reach and stays with TLC. The types
of the hooks, the guard and the server are proved (`HookTypes`, `CallTypes`,
`ServerTypes`) and not checked by a run of their own.

## 6. Not modelled

* How text is split into words and which characters make a word a URL, a secret
  variable or a flag (`shell_tokens` and the string tests inside the detectors):
  data, taken as the attributes of a word.
* Redaction, canonical JSON, hash and signature arithmetic, the fields of a
  projected event, terminal output and argument parsing: no property is about
  them.
* The hook state vocabulary (`corcept-types`), JSON contracts, the project
  generator, the generated MCP wrapper and benchmarks keep no state that several
  processes change.
* `init`'s files other than the ledger, the doctrine defaults, and the contents
  of an exported file. Two exports to one file truncate and fill it without a
  lock; nothing reads it afterwards.
* Two generations of the operator key at once: the model has one operator.
* A short write of a part of a line or hash in `LedgerAppend` and `KeyLifecycle`: a
  file operation happens, fails or is cut between calls. `DelegatedAdmission`,
  `TrailReceipts` and `ProjectReports` have rows that are cut inside.
* The Windows reading of paths: `Path::components` is the one of a Unix build.

## 7. Plan

What is left, in order.

1. `KeyLifecycle` with two generations at once (the second archives over the
   backup of the first), and the operator's recovery of a key file that was cut
   inside its write.
2. A run for the stop gate against `docs/audit/TIMEOUTS.md:13-14` (rows in the
   order hooks finish) in place of one that later modules subsume.
3. `init`'s other files next to hooks that read them; the export of a whole
   ledger to a file that a second export truncates.
4. Theorems: which of the properties proved without installers hold next to one
   that found the ledger, as `ExistingLedgerSafe` does for the chain; and the
   step from the reservation of an id to its answer for two configurations at
   once.
