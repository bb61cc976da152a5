--------------------------- MODULE MCPreToolGuard ---------------------------
(***************************************************************************)
(* A small instance of PreToolGuard: words that set off every detector,     *)
(* paths in and out of the repository, the configuration with and without   *)
(* the gate.                                                                *)
(***************************************************************************)
EXTENDS PreToolGuard

Word(text, has) ==
  [text |-> text, stem |-> text, variable |-> "", path |-> <<<<text>>>>, has |-> has]
PathWord(text, path) == [Word(text, {}) EXCEPT !.path = path]

MCWords ==
  {Word("rm", {"r"}), Word("-rf", {"flag", "r", "f"}), Word("a", {}), Word(";", {}),
   [Word("/", {"root or home"}) EXCEPT !.path = <<Empty, Empty>>],
   PathWord(".env", <<Hidden("env")>>),
   [Word("b=1", {"="}) EXCEPT !.variable = "b"],
   [Word("/usr/bin/env", {}) EXCEPT !.stem = "env"], Word("env", {}), Word("sudo", {}),
   Word("sh", {}), Word("-c", {"flag"}), Word("curl", {"r"}), Word("|", {}),
   Word("git", {}), Word("push", {}), Word("docker", {"r"}), Word("run", {"r"}),
   Word("--privileged", {"flag", "r", "sheds isolation"}), Word("deploy", {"deploy"}),
   [Word("path=a", {"="}) EXCEPT !.variable = "path"], Word("printenv", {"r"}),
   Word("$", {"substitution"}), Word("chmod", {}), Word("777", {}), Word("npm", {}), Word("install", {})}

MCLowerCase == "ENV" :> "env" @@ "Repo" :> "repo" @@ "Memory" :> "memory"

Repo == <<Empty, <<"repo">>>>
Corcept(names) == <<Hidden("corcept")>> \o names

MCPaths ==
  {<<<<"src">>>>, <<DotDot, <<"src">>>>, <<<<"a">>, DotDot, DotDot, <<"repo">>, <<"src">>>>,
   Repo \o <<Dot, <<"src">>>>, <<Hidden("ssh"), DotDot, <<"a">>>>,
   <<Empty, <<"etc">>, Hidden("d"), DotDot, <<"passwd">>>>, <<DotDot, DotDot, <<"etc">>, <<"ssh">>>>,
   <<<<"a">>, Hidden("git"), <<"config">>>>, <<<<"secrets", "yaml">>>>, <<Empty, DotDot, <<"key", "pem">>>>,
   Corcept(<<<<"memory">>, <<"accepted">>, <<"m", "yaml">>>>), Corcept(<<<<"doctrine">>, <<"d">>>>),
   Corcept(<<<<"config", "yaml">>>>), Corcept(<<<<"ledger">>, <<"events", "jsonl">>>>),
   <<<<"a", Back, "", "", "", Back, "", "", "", Back, "key", "pem">>>>,
   <<<<"", "corcept", Back, "Memory", Back, "accepted", Back, "m">>>>,
   <<Empty, <<"Repo">>, <<"", "ENV">>>>}

Tool(name, kind) == [name |-> name, kind |-> kind, safe |-> TRUE]
MCTools ==
  {Tool("Bash", "bash"), Tool("Read", "read"), Tool("Write", "write"), Tool("WebFetch", "web"),
   Tool("read_file", "other"), [Tool("a/b", "other") EXCEPT !.safe = FALSE], Tool("", "other")}

Plain ==
  [cwd |-> {Repo}, denyOutside |-> TRUE,
   protect |-> {<<"*", ".", "pem">>, <<"a", "/", "*">>},
   bashDeny |-> {<<"rm", " ", "*">>}, bashAsk |-> {<<"*", " ", "a">>},
   allowWebfetch |-> TRUE, gate |-> FALSE,
   words |-> {w \in MCWords : w.text \in {"rm", "-rf", "a", ";", "/", ".env", "b=1", "sudo",
                                          "env"}},
   maxWords |-> 4, maxPaths |-> 2]
Gated == [Plain EXCEPT !.gate = TRUE, !.maxWords = 0, !.maxPaths = 0]
Relaxed ==
  [Plain EXCEPT !.cwd = {}, !.protect = {}, !.bashDeny = {}, !.allowWebfetch = FALSE,
                !.words = MCWords, !.maxWords = 3]
MCSettings == {Plain, Gated, Relaxed}

MCPatterns ==
  UNION {[1..n -> {Star, "rm", " "}] : n \in 0..3}
    \cup {<<first, a, Star, b, last>> : first \in {Star, "rm"}, a \in {"rm", " "},
                                      b \in {"rm", " "}, last \in {Star, "rm"}}
=============================================================================
