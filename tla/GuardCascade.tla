---------------------------- MODULE GuardCascade ----------------------------
(***************************************************************************)
(* The verdict of corcept-guards/src/lib.rs on one tool call: the cascade   *)
(* of evaluate_bash over the words shell_tokens returns, the path rules of  *)
(* reads, searches and writes, and the composition of two verdicts.         *)
(*                                                                         *)
(* A word is a record: its text, the argv0 stem of that text, the variable  *)
(* it assigns ("" if none), the path it is read as, and `has`, what the     *)
(* detectors look for inside it (the letters r and f; "root or home" is     *)
(* is_root_or_home_target or a bare star) or in the command as written, of  *)
(* which the word is a part ("substitution" is a `$(`, a backtick or a      *)
(* `<(`, "fetch substitution" one with curl or wget right behind it;        *)
(* "production" is prod, "terraform$" is a word that ends in terraform,     *)
(* "^apply" one that begins with apply).  Reasons are left out.             *)
(***************************************************************************)
EXTENDS TextRules

Decision == {"allow", "ask", "deny"}
Verdict == [decision : Decision, level : 0..4]

Allow == [decision |-> "allow", level |-> 0]
Ask(level) == [decision |-> "ask", level |-> level]
Deny(level) == [decision |-> "deny", level |-> level]

Strictness(verdict) ==
  CASE verdict.decision = "allow" -> 0
    [] verdict.decision = "ask" -> 1
    [] verdict.decision = "deny" -> 2

ComposePreTool(a, b) ==
  IF "deny" \in {a, b} THEN "deny" ELSE IF "ask" \in {a, b} THEN "ask" ELSE "allow"

\* The fold of compose_guard_verdicts over two: level and reason follow the decision.
ComposeGuardVerdicts(acc, next) ==
  LET decision == ComposePreTool(acc.decision, next.decision)
  IN [decision |-> decision,
      level |-> IF decision = next.decision /\ decision # acc.decision THEN next.level
                ELSE acc.level]

\* A cascade of rules returns the verdict of the first that fires.
Rule(fires, verdict) == [fires |-> fires, verdict |-> verdict]
FirstVerdict(rules, otherwise) ==
  LET firing == {i \in DOMAIN rules : rules[i].fires}
  IN IF firing = {} THEN otherwise ELSE rules[Min(firing)].verdict

-----------------------------------------------------------------------------
(* Words of a command *)

Is(word, texts) == word.text \in texts
IsFlag(word) == "flag" \in word.has
IsCommandBoundary(word) == Is(word, {";", "&&", "||", "&", "(", ")"})
EndsArguments(word) == IsCommandBoundary(word) \/ Is(word, {"|"})
LooksLikeAssignment(word) == word.variable # ""

Wrappers == {"sudo", "doas", "command", "builtin", "time", "env", "noglob", "nohup"}
Interpreters ==
  {"bash", "sh", "zsh", "fish", "dash", "ksh", "powershell", "pwsh", "cmd", "python",
   "python3", "python2", "perl", "node", "ruby", "deno", "bun"}
PipedInterpreters ==
  {"sh", "bash", "zsh", "fish", "python", "python3", "ruby", "perl", "node"}

\* Mutant of CommandIndices: an assignment hides the command after it.
CommandIndicesBare(c, commands) ==
  {i \in DOMAIN c :
     /\ Is(c[i], commands)
     /\ \/ i = 1
        \/ IsCommandBoundary(c[i - 1]) \/ Is(c[i - 1], Wrappers)
        \/ i > 2 /\ Is(c[i - 2], Wrappers)}

\* command_indices_any: where one of these is a command rather than an argument.
CommandIndices(c, commands) ==
  {i \in DOMAIN c :
     /\ Is(c[i], commands)
     /\ \/ i = 1
        \/ IsCommandBoundary(c[i - 1]) \/ Is(c[i - 1], Wrappers) \/ LooksLikeAssignment(c[i - 1])
        \/ i > 2 /\ Is(c[i - 2], Wrappers)}

\* command_args, as positions.
ArgIndices(c, i) == {j \in i + 1..Len(c) : \A k \in i + 1..j : ~EndsArguments(c[k])}

HasArg(c, i, texts) == \E j \in ArgIndices(c, i) : Is(c[j], texts)
FirstArg(c, i, texts) == i + 1 \in ArgIndices(c, i) /\ Is(c[i + 1], texts)

\* The first word after position `from` that is not a flag.
NextWord(c, from, texts) ==
  \E i \in from + 1..Len(c) :
    /\ Is(c[i], texts) /\ ~IsFlag(c[i])
    /\ \A j \in from + 1..i - 1 : IsFlag(c[j])

\* first_command_word of the words after `from`.
FirstCommandWord(c, from, texts) ==
  LET passed(word) == \/ EndsArguments(word) \/ LooksLikeAssignment(word)
                      \/ Is(word, Wrappers) \/ IsFlag(word)
  IN \E i \in from + 1..Len(c) :
       /\ Is(c[i], texts) /\ ~passed(c[i])
       /\ \A j \in from + 1..i - 1 : passed(c[j])

\* effective_argv: past assignments, wrappers, `exec`, and the flags right after those.
EffectiveStart(c) ==
  LET wraps(i) == c[i].stem \in Wrappers \cup {"exec"}
      passed(i) == \/ LooksLikeAssignment(c[i]) \/ wraps(i)
                   \/ IsFlag(c[i]) /\ \E k \in 1..i - 1 :
                        wraps(k) /\ \A j \in k + 1..i - 1 : IsFlag(c[j])
  IN Min({i \in 1..Len(c) : ~passed(i)} \cup {Len(c) + 1})

-----------------------------------------------------------------------------
(* The detectors of evaluate_bash *)

\* detect_shell_wrapper_shape never fires: no word of shell_tokens contains a space.
InterpreterWrapper(c) ==
  LET i == EffectiveStart(c)
  IN /\ i < Len(c)
     /\ c[i].stem \in Interpreters
     /\ \/ Is(c[i + 1], {"-c", "-e", "/c"})
        \/ c[i].stem \in {"powershell", "pwsh"} /\ Is(c[i + 1], {"-command"})

DangerousEnvAssignment(c) ==
  \E i \in DOMAIN c : c[i].variable \in
    {"ld_preload", "ld_library_path", "dyld_insert_libraries", "dyld_library_path",
     "dyld_force_flat_namespace", "path", "bash_env", "env", "prompt_command",
     "pythonstartup", "node_options", "rubyopt", "java_tool_options", "ifs"}

ProtectedPathReference(c, config) ==
  \E i \in DOMAIN c :
    /\ ~EndsArguments(c[i]) /\ ~IsFlag(c[i]) /\ "=" \notin c[i].has
    /\ IsProtectedPath(c[i].path, config.protect)

Fetches(word) == Is(word, {"curl", "wget"}) \/ "url" \in word.has
Substitutes(word) ==
  Is(word, {"<", "<<<"}) \/ {"substitution", "fetch substitution"} \cap word.has # {}

RemoteFetchExecution(c) ==
  \/ \E i \in DOMAIN c :
       /\ Is(c[i], {"|"})
       /\ \E j \in 1..i - 1 : Fetches(c[j])
       /\ FirstCommandWord(c, i, PipedInterpreters)
  \/ /\ \E i \in DOMAIN c : Fetches(c[i]) \/ "fetch substitution" \in c[i].has
     /\ FirstCommandWord(c, 0, PipedInterpreters)
     /\ \E i \in DOMAIN c : Substitutes(c[i])

SecretEnvExfiltration(c) ==
  \/ \E i \in DOMAIN c : "secret variable" \in c[i].has
  \/ Len(c) = 1 /\ Is(c[1], {"env"})
  \/ FirstCommandWord(c, 0, {"printenv", "set"})
  \/ FirstCommandWord(c, 0, {"export"}) /\ \E i \in DOMAIN c : Is(c[i], {"-p"})

WorldWritableChmod(c) ==
  \E i \in CommandIndices(c, {"chmod"}) : HasArg(c, i, {"777", "0777", "a+rwx", "ugo+rwx"})

\* The rm commands that are both recursive and forced; the first of them decides.
ForcedDeletes(c) ==
  {i \in CommandIndices(c, {"rm"}) :
     \A letter \in {"r", "f"} :
       \E j \in ArgIndices(c, i) : IsFlag(c[j]) /\ letter \in c[j].has}

\* Mutant of DangerousTarget: only the last argument of rm is looked at.
DangerousLastTarget(c, i, config) ==
  \E j \in ArgIndices(c, i) :
    /\ ~IsFlag(c[j]) /\ j + 1 \notin ArgIndices(c, i)
    /\ "root or home" \in c[j].has \/ IsProtectedPath(c[j].path, config.protect)

DangerousTarget(c, i, config) ==
  \E j \in ArgIndices(c, i) :
    /\ ~IsFlag(c[j])
    /\ "root or home" \in c[j].has \/ IsProtectedPath(c[j].path, config.protect)

GitSideEffect(c) ==
  \E i \in CommandIndices(c, {"git"}) :
    \/ FirstArg(c, i, {"push"})
    \/ FirstArg(c, i, {"reset"}) /\ HasArg(c, i, {"--hard"})
    \/ FirstArg(c, i, {"clean"}) /\ \E j \in ArgIndices(c, i) : "f" \in c[j].has

PrivilegeEscalation(c) ==
  \E i \in DOMAIN c :
    \/ c[i].stem \in {"sudo", "doas", "su", "pkexec", "runuser", "gosu", "please", "doit",
                      "calife", "op-priv"}
    \/ c[i].stem = "machinectl" /\ NextWord(c, i, {"shell"})

\* Only the first docker or podman and the first mount are looked at.
SandboxEscape(c) ==
  LET first(stems) == {i \in DOMAIN c : c[i].stem \in stems
                                        /\ \A j \in 1..i - 1 : c[j].stem \notin stems}
  IN \/ \E i \in DOMAIN c : c[i].stem \in {"unshare", "nsenter", "chroot"}
     \/ \E i \in first({"docker", "podman"}) :
          /\ \E j \in i + 1..Len(c) : "sheds isolation" \in c[j].has
          /\ NextWord(c, i, {"run", "exec"})
     \/ \E i \in first({"mount"}) : \E j \in i + 1..Len(c) : Is(c[j], {"--bind", "-B"})

PackageChange(c) ==
  \/ \E i \in CommandIndices(c, {"npm", "pnpm", "yarn", "bun"}) :
       FirstArg(c, i, {"install", "i", "add", "remove", "rm", "uninstall", "upgrade", "update"})
  \/ \E i \in CommandIndices(c, {"pip", "pip3"}) : FirstArg(c, i, {"install"})
  \/ \E i \in CommandIndices(c, {"python", "python3"}) :
       /\ i + 3 \in ArgIndices(c, i)
       /\ Is(c[i + 1], {"-m"}) /\ Is(c[i + 2], {"pip"}) /\ Is(c[i + 3], {"install"})
  \/ \E i \in CommandIndices(c, {"cargo"}) : FirstArg(c, i, {"install", "add"})
  \/ \E i \in CommandIndices(c, {"go", "poetry", "uv"}) : HasArg(c, i, {"get", "install", "add"})

InfraSideEffect(c) ==
  \/ CommandIndices(c, {"kubectl", "helm", "aws", "gcloud", "az", "vercel"}) # {}
  \/ \E i \in CommandIndices(c, {"docker", "podman"}) :
       FirstArg(c, i, {"run", "compose", "buildx"})
  \/ \E i \in CommandIndices(c, {"fly", "railway", "netlify"}) :
       HasArg(c, i, {"up", "--prod"}) \/ \E j \in ArgIndices(c, i) : "deploy" \in c[j].has
  \/ \E i \in CommandIndices(c, {"terraform"}) : HasArg(c, i, {"apply", "destroy", "import"})

\* has_production_target: texts inside the command, two of them across a space.
ProductionTarget(c) ==
  \/ \E i \in DOMAIN c : c[i].has \cap {"deploy", "production", "kubectl"} # {}
  \/ \E i \in 2..Len(c) : \/ "terraform$" \in c[i - 1].has /\ "^apply" \in c[i].has
                          \/ "railway$" \in c[i - 1].has /\ "^up" \in c[i].has

-----------------------------------------------------------------------------
(* evaluate_bash *)

\* The command as the configured patterns see it: words with one space between them.
CommandText(c) == JoinWith([i \in DOMAIN c |-> <<c[i].text>>], " ")
MatchesOneOf(patterns, c) == \E p \in patterns : WildcardMatch(p, CommandText(c))

\* The first forced deletion denies a dangerous target and asks about every other.
DeleteRule(c, config) ==
  IF ForcedDeletes(c) = {} THEN Rule(FALSE, Allow)
  ELSE Rule(TRUE, IF DangerousTarget(c, Min(ForcedDeletes(c)), config) THEN Deny(3) ELSE Ask(3))

\* Mutant of BuiltInRules: recursive deletion is asked about before the path rule denies.
BuiltInRulesReordered(c, config) ==
  << Rule(InterpreterWrapper(c), Deny(3)),
     Rule(DangerousEnvAssignment(c), Deny(3)),
     DeleteRule(c, config),
     Rule(ProtectedPathReference(c, config), Deny(3)),
     Rule(RemoteFetchExecution(c), Deny(3)),
     Rule(SecretEnvExfiltration(c), Deny(3)),
     Rule(WorldWritableChmod(c), Deny(3)),
     Rule(GitSideEffect(c), Ask(4)),
     Rule(PrivilegeEscalation(c), Ask(3)),
     Rule(SandboxEscape(c), Ask(3)),
     Rule(PackageChange(c), Ask(3)),
     Rule(InfraSideEffect(c), Ask(4)) >>

BuiltInRules(c, config) ==
  << Rule(InterpreterWrapper(c), Deny(3)),
     Rule(DangerousEnvAssignment(c), Deny(3)),
     Rule(ProtectedPathReference(c, config), Deny(3)),
     Rule(RemoteFetchExecution(c), Deny(3)),
     Rule(SecretEnvExfiltration(c), Deny(3)),
     Rule(WorldWritableChmod(c), Deny(3)),
     DeleteRule(c, config),
     Rule(GitSideEffect(c), Ask(4)),
     Rule(PrivilegeEscalation(c), Ask(3)),
     Rule(SandboxEscape(c), Ask(3)),
     Rule(PackageChange(c), Ask(3)),
     Rule(InfraSideEffect(c), Ask(4)) >>

ConfiguredRules(c, config) ==
  << Rule(MatchesOneOf(config.bashDeny, c), Deny(3)),
     Rule(MatchesOneOf(config.bashAsk, c), Ask(3)),
     Rule(ProductionTarget(c), Ask(4)) >>

EvaluateBash(c, config) ==
  FirstVerdict(BuiltInRules(c, config) \o ConfiguredRules(c, config), Allow)

-----------------------------------------------------------------------------
(* Paths: extract_paths sorts and deduplicates what tool_input names *)

\* An accepted memory, or one of the files whose change is approved, by the names of the path
\* as written: nothing is collapsed here.
ControlledRules(path) ==
  LET names == Lowered(Slashed(path))
      under(d) == \E i \in 1..Len(names) - Len(d) - 1 :
                    SubSeq(names, i, i + Len(d)) = <<Hidden("corcept")>> \o d
      endsWith(end) ==
        LET i == Len(names) - Len(end)
        IN i > 0 /\ HasExtension(names[i], {"corcept"}) /\ IsSuffix(end, names)
  IN << Rule(under(<<<<"memory">>, <<"accepted">>>>), Deny(2)),
        Rule(under(<<<<"doctrine">>>>), Ask(2)),
        Rule(endsWith(<<<<"config", "yaml">>>>), Ask(2)),
        Rule(endsWith(<<<<"ledger">>, <<"events", "jsonl">>>>), Ask(2)) >>

Guarded(cwd, path, config) ==
  \/ IsProtectedPath(path, config.protect)
  \/ config.denyOutside /\ IsOutsideRepo(cwd, path)

\* evaluate_read and evaluate_search: they test the two rules in this order, and deny alike.
EvaluateRead(cwd, paths, config) ==
  IF \E i \in DOMAIN paths : Guarded(cwd, paths[i], config) THEN Deny(2) ELSE Allow

\* Path after path, each with its rules: the first that fires is the verdict.
WriteRules(cwd, path, config) ==
  <<Rule(Guarded(cwd, path, config), Deny(2))>> \o ControlledRules(path)

EvaluateWrite(cwd, paths, config) ==
  IF paths = <<>> THEN Ask(2)
  ELSE LET rulesOf(i) == WriteRules(cwd, paths[i], config)
           fires(i) == \E r \in DOMAIN rulesOf(i) : rulesOf(i)[r].fires
       IN FirstVerdict([i \in DOMAIN paths |-> Rule(fires(i), FirstVerdict(rulesOf(i), Allow))],
                       Allow)
=============================================================================
