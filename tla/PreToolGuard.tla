---------------------------- MODULE PreToolGuard ----------------------------
(***************************************************************************)
(* evaluate_pre_tool (corcept-guards/src/lib.rs): the agent composes a tool *)
(* call, the cascade gives the base verdict, and, where the operator        *)
(* configured it, the verify-before-load gate reads its files and the       *)
(* stricter of the two is the answer.                                       *)
(*                                                                         *)
(* Calls grow word by word and path by path, so that a step relates the     *)
(* verdicts on a call and on a longer one.                                  *)
(***************************************************************************)
EXTENDS GuardCascade, VerifyBeforeLoad

CONSTANTS
  Words,      \* the words a command is made of
  Paths,      \* the paths tool_input names
  Tools,      \* [name, kind, safe]: tool_name, the arm of its match, and whether
              \* it is free of separators
  Settings,   \* the configuration with the hook's cwd ({} when absent), the gate
              \* (TRUE when verify_before_load is Some) and the bounds on a call: words,
              \* maxWords, maxPaths
  Patterns,   \* wildcard patterns
  MaxGlobbed, \* bound: words of a command the patterns are compared on
  None        \* tool_input has no command

ASSUME ToolsAssumption ==
  \A t \in Tools : t.safe \in BOOLEAN /\ t.kind \in {"bash", "read", "write", "web", "other"}
\* normalize_argv0 leaves the name of a wrapper as it is; no variable begins with a dash.
ASSUME WordsAssumption ==
  \A w \in Words : (Is(w, Wrappers) => w.stem = w.text) /\ ~(IsFlag(w) /\ LooksLikeAssignment(w))
ASSUME TextsAssumption == (\A w \in Words : w.text \in STRING) /\ Patterns \subseteq Seq(STRING)
ASSUME PathsAssumption == Paths \subseteq Path
ASSUME SettingsAssumption ==
  \A s \in Settings : s.gate \in BOOLEAN /\ s.words \subseteq Words /\ s.cwd \subseteq Path

VARIABLES
  settings, tool,
  command,    \* the words of tool_input.command
  paths,      \* the paths of tool_input, sorted and without duplicates
  base,       \* the verdict of the cascade
  answer      \* the verdict of evaluate_pre_tool

request == <<settings, tool, command, paths>>
vars == <<request, base, answer, fileVars, gateVars>>

Init ==
  /\ settings \in Settings /\ tool \in Tools
  /\ command = None /\ paths = <<>>
  /\ base = Allow /\ answer = None
  /\ GateInit
  /\ settings.gate = FALSE => advertised = Missing /\ manifest = Missing /\ pubkey = Missing
                              /\ pinned = {}

-----------------------------------------------------------------------------
(* The call the agent composes *)

Composing == step = "idle" /\ answer = None

WriteCommand ==
  /\ Composing /\ tool.kind = "bash"
  /\ IF command = None THEN command' = <<>>
     ELSE /\ Len(command) < settings.maxWords
          /\ \E w \in settings.words : command' = Append(command, w)
  /\ UNCHANGED <<settings, tool, paths, base, answer, fileVars, gateVars>>

\* extract_paths sorts, so a path can take any place among the others.
NamePath ==
  /\ Composing /\ tool.kind \in {"read", "write"}
  /\ Len(paths) < settings.maxPaths
  /\ \E p \in Paths \ Range(paths) : \E i \in 1..Len(paths) + 1 : paths' = InsertAt(paths, i, p)
  /\ UNCHANGED <<settings, tool, command, base, answer, fileVars, gateVars>>

-----------------------------------------------------------------------------
(* evaluate_pre_tool *)

BaseVerdict ==
  CASE tool.kind = "bash" /\ command = None -> Ask(3)
    [] tool.kind = "bash" /\ command # None -> EvaluateBash(command, settings)
    [] tool.kind = "read" -> EvaluateRead(settings.cwd, paths, settings)
    [] tool.kind = "write" -> EvaluateWrite(settings.cwd, paths, settings)
    [] tool.kind = "web" -> IF settings.allowWebfetch THEN Allow ELSE Ask(4)
    [] tool.kind = "other" -> Allow

Begin ==
  /\ Composing
  /\ base' = BaseVerdict
  /\ IF settings.gate /\ tool.name # ""
     THEN Goto("name") /\ UNCHANGED answer
     ELSE answer' = BaseVerdict /\ UNCHANGED gateVars
  /\ UNCHANGED <<request, fileVars>>

GateStep ==
  /\ Evaluate(tool.safe)
  /\ UNCHANGED <<request, base, answer>>

Answer ==
  /\ step = "end" /\ answer = None
  /\ answer' = ComposeGuardVerdicts(base, IF Admitted(outcome) THEN Allow ELSE Deny(3))
  /\ UNCHANGED <<request, base, fileVars, gateVars>>

\* Without the gate nobody reads the files.
OwnersStep ==
  /\ settings.gate /\ answer = None
  /\ Owners
  /\ UNCHANGED <<request, base, answer, gateVars>>

Next == WriteCommand \/ NamePath \/ Begin \/ GateStep \/ Answer \/ OwnersStep

Spec == Init /\ [][Next]_vars

-----------------------------------------------------------------------------
(* Properties of the cascade *)

BuiltIn(c) == FirstVerdict(BuiltInRules(c, settings), Allow)
PathVerdict(named) ==
  IF tool.kind = "write" THEN EvaluateWrite(settings.cwd, named, settings)
  ELSE EvaluateRead(settings.cwd, named, settings)
LoneEnv(c) == Len(c) = 1 /\ Is(c[1], {"env"})
FlagInterpreter(c) == c # <<>> /\ IsFlag(c[1]) /\ c[1].stem \in Interpreters

\* Every variable has its type.
TypeOK ==
  /\ settings \in Settings /\ tool \in Tools
  /\ command = None \/ command \in Seq(Words)
  /\ paths \in Seq(Paths)
  /\ base \in Verdict /\ (answer = None \/ answer \in Verdict)
  /\ advertised \in {Missing, Partial} \cup Definitions
  /\ manifest \in {Missing, Partial} \cup Pins
  /\ pubkey \in {Missing, Partial} \cup Keys
  /\ pinned \subseteq Pins
  /\ step \in GateSteps \cup {"idle", "end"}
  /\ held.key \in {Missing} \cup Keys
  /\ held.manifest \in {Missing} \cup Pins
  /\ held.def \in {Missing} \cup Definitions

\* The order of the rules in evaluate_bash is the ADR-0020 lattice among the built-in
\* detectors: the first that fires is as strict as any that fires.
FirstIsStrictest ==
  command # None =>
    LET rules == BuiltInRules(command, settings)
    IN \A i \in DOMAIN rules :
         rules[i].fires => Strictness(rules[i].verdict) <= Strictness(BuiltIn(command))

\* A wrapper or an assignment put before a command (command_indices, effective_argv and
\* first_command_word each have their own way past it) never lets through what is stopped
\* without it.  A lone `env` is stopped for being alone; a leading flag that ends in the name
\* of an interpreter is skipped behind a wrapper (effective_argv); and an assignment whose
\* value ends in /docker is itself the word detect_sandbox_escape finds first.
PrefixNeverAllows ==
  command # None /\ ~LoneEnv(command) /\ ~FlagInterpreter(command) =>
    \A w \in Words :
      /\ Is(w, Wrappers) \/ (LooksLikeAssignment(w) /\ w.stem \notin {"docker", "podman"})
      /\ BuiltIn(<<w>> \o command).decision = "allow"
      => BuiltIn(command).decision = "allow"

\* Whatever is written after a command, the detectors are as strict as before; and no
\* further path lets through a write or a read that was stopped for one it names.
NothingAddedWeakens ==
  /\ command \notin {None, <<>>} /\ ~LoneEnv(Front(command)) =>
       Strictness(BuiltIn(Front(command))) <= Strictness(BuiltIn(command))
  /\ Len(paths) > 1 =>
       \A i \in DOMAIN paths :
         PathVerdict(RemoveAt(paths, i)).decision # "allow" => PathVerdict(paths).decision # "allow"

\* The greedy scan of wildcard_match finds a match exactly when there is one.
GlobCorrect ==
  command # None /\ Len(command) <= MaxGlobbed =>
    \A p \in Patterns : WildcardMatch(p, CommandText(command)) <=> Glob(p, CommandText(command))

\* A detour through a directory that is left at once, written with slashes anywhere in a path
\* that it leaves absolute or relative as it was, changes neither is_protected_path nor
\* is_outside_repo, which normalise in their own ways (and of which the first alone takes a
\* backslash for a slash).  It is not said of evaluate_corcept_controlled_write, which looks
\* for names in the path as written and so does not see past a detour.
DetourKeepsGuarded ==
  \A n \in DOMAIN paths :
    LET p == paths[n]
    IN \A i \in 1..Len(p) + 1 :
         LET detour == SubSeq(p, 1, i - 1) \o <<<<"x">>, DotDot>> \o SubSeq(p, i, Len(p))
         IN /\ IsAbsolute(detour) = IsAbsolute(p)
            /\ IsAbsolute(Slashed(detour)) = IsAbsolute(Slashed(p))
            => (Guarded(settings.cwd, detour, settings) <=> Guarded(settings.cwd, p, settings))

\* Collapsing a path (is_protected_path) does not change the place it denotes under the
\* working directory (is_outside_repo), as long as no backslash is in it: one is a separator
\* to the first and a part of a name to the second, and `a\..\..\b` is two places.
CollapseKeepsPlace ==
  \A n \in DOMAIN paths : \A root \in settings.cwd :
    LET place(p) == LexicalNormalize(IF IsAbsolute(p) THEN p ELSE root \o p)
    IN Slashed(paths[n]) = paths[n] =>
         place(CollapsePathTraversal(Slashed(paths[n]))) = place(paths[n])

-----------------------------------------------------------------------------
(* Properties of the gate *)

\* Fail closed and strictest wins: where the gate is configured, a named tool is denied
\* unless the definition read was signed, at some time, with the key read, and the answer
\* is never milder than the cascade's.
OnlyPinnedPasses ==
  settings.gate /\ tool.name # "" /\ answer # None =>
    /\ Strictness(answer) >= Strictness(base)
    /\ answer.decision # "deny" =>
         tool.safe /\ [def |-> held.def, key |-> held.key] \in pinned
=============================================================================
