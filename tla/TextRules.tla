----------------------------- MODULE TextRules -----------------------------
(***************************************************************************)
(* The text questions of corcept-guards/src/lib.rs: does a wildcard pattern *)
(* match, what does a path mean once its `.` and `..` are collapsed, is it  *)
(* a secret, is it outside the repository.                                  *)
(*                                                                         *)
(* A text is a sequence of symbols in lower case.  A file name is the       *)
(* sequence of its parts between dots (".env" is <<"", "env">>, ".." is     *)
(* <<"", "", "">>), a path the sequence of its names between slashes ("/a"  *)
(* is <<<<"">>, <<"a">>>>), so that prefixes, suffixes and equality of the   *)
(* strings are prefixes, suffixes and equality of these sequences.  In a    *)
(* path as it is written a backslash is a part of its own ("a\..\b" is the  *)
(* one name <<"a", Back, "", "", "", Back, "b">>) and a part may have       *)
(* capitals.  Paths are those of a Unix build.                              *)
(***************************************************************************)
EXTENDS Integers, SequencesExt

CONSTANT LowerCase   \* a part with capitals |-> the same in lower case

ASSUME LowerCaseAssumption == \A part \in DOMAIN LowerCase : LowerCase[part] \notin DOMAIN LowerCase

JoinWith(texts, separator) ==
  IF texts = <<>> THEN <<>>
  ELSE FoldLeft(LAMBDA joined, text : joined \o <<separator>> \o text, Head(texts), Tail(texts))

-----------------------------------------------------------------------------
(* Wildcards *)

Star == "*"

\* Where a match can end that takes one symbol of the pattern more: a star stands for any
\* run of symbols, the empty one too.
EndsAfter(ends, symbol, text) ==
  IF symbol = Star
  THEN {k \in 0..Len(text) : \E j \in ends : j <= k}
  ELSE {k \in 1..Len(text) : k - 1 \in ends /\ text[k] = symbol}

\* Where in the text the matches of the pattern with a beginning of it end.
MatchEnds(pattern, text) ==
  FoldLeft(LAMBDA ends, symbol : EndsAfter(ends, symbol, text), {0}, pattern)

\* What the pattern says: one of them is the end of the text.
Glob(pattern, text) == Len(text) \in MatchEnds(pattern, text)

\* str::split('*'), the empty parts left out: a symbol belongs to the part before it unless
\* a star has closed that.
SplitSymbol(split, symbol) ==
  IF symbol = Star THEN [split EXCEPT !.open = FALSE]
  ELSE [parts |-> IF split.open
                  THEN Append(Front(split.parts), Append(Last(split.parts), symbol))
                  ELSE Append(split.parts, <<symbol>>),
        open |-> TRUE]
Split(pattern) == FoldLeft(SplitSymbol, [parts |-> <<>>, open |-> FALSE], pattern)
Parts(pattern) == Split(pattern).parts

Lost == -1

Occurrences(from, part, text) ==
  {k \in from..Len(text) - Len(part) : SubSeq(text, k + 1, k + Len(part)) = part}

\* Mutant of TakePart: every part is looked for from the beginning of the text.
TakePartFromStart(from, part, text, anchored) ==
  LET found == Occurrences(0, part, text)
  IN IF from = Lost \/ found = {} \/ (from = 0 /\ anchored /\ 0 \notin found) THEN Lost
     ELSE Min(found) + Len(part)

\* A part is found at its first place in the remainder, which begins at `from`; no part is
\* empty, so it begins at 0 for the first part only.
TakePart(from, part, text, anchored) ==
  IF from = Lost THEN Lost
  ELSE LET found == Occurrences(from, part, text)
       IN IF found = {} \/ (from = 0 /\ anchored /\ 0 \notin found) THEN Lost
          ELSE Min(found) + Len(part)

\* The end of the greedy scan.
Consumed(parts, text, anchored) ==
  FoldLeft(LAMBDA from, part : TakePart(from, part, text, anchored), 0, parts)

WildcardMatch(pattern, text) ==
  \/ pattern = text
  \/ LET parts == Parts(pattern)
     IN /\ Star \in Range(pattern)
        /\ Consumed(parts, text, Head(pattern) # Star) # Lost
        /\ Last(pattern) # Star => IsSuffix(Last(parts), text)

-----------------------------------------------------------------------------
(* Paths *)

Name == Seq(STRING) \ {<<>>}
Path == Seq(Name)

Back == "\\"

Empty == <<"">>
Dot == <<"", "">>
DotDot == <<"", "", "">>

IsAbsolute(path) == Len(path) > 1 /\ path[1] = Empty

\* replace('\', "/"): every backslash in a name ends the name.
SlashPart(names, part) ==
  IF part = Back THEN Append(names, <<>>) ELSE Append(Front(names), Append(Last(names), part))
SlashedName(name) == FoldLeft(SlashPart, << <<>> >>, name)
SlashName(out, name) == out \o SlashedName(name)
Slashed(path) == FoldLeft(SlashName, <<>>, path)

\* to_ascii_lowercase
Lower(part) == IF part \in DOMAIN LowerCase THEN LowerCase[part] ELSE part
Lowered(path) == [i \in DOMAIN path |-> [j \in DOMAIN path[i] |-> Lower(path[i][j])]]

\* Mutant of CollapseName: `..` takes a preceding `..` back too.
CollapseNamePops(absolute, out, name) ==
  CASE name \in {Empty, Dot} -> out
    [] name = DotDot /\ out # <<>> -> Front(out)
    [] name = DotDot /\ out = <<>> /\ absolute -> out
    [] OTHER -> Append(out, name)

CollapseName(absolute, out, name) ==
  CASE name \in {Empty, Dot} -> out
    [] name = DotDot /\ out # <<>> /\ Last(out) # DotDot -> Front(out)
    [] name = DotDot /\ (out = <<>> \/ Last(out) = DotDot) /\ absolute -> out
    [] OTHER -> Append(out, name)

CollapsedNames(absolute, path) ==
  FoldLeft(LAMBDA out, name : CollapseName(absolute, out, name), <<>>, path)

CollapsePathTraversal(path) ==
  LET names == CollapsedNames(IsAbsolute(path), path)
  IN CASE IsAbsolute(path) /\ names = <<>> -> <<Empty, Empty>>
       [] IsAbsolute(path) /\ names # <<>> -> <<Empty>> \o names
       [] ~IsAbsolute(path) /\ names = <<>> -> <<Dot>>
       [] OTHER -> names

\* Path::components without the root, `..` popping what there is.  A backslash is no separator
\* here.
NormalizeName(out, name) ==
  CASE name \in {Empty, Dot} -> out
    [] name = DotDot -> IF out = <<>> THEN out ELSE Front(out)
    [] OTHER -> Append(out, name)

LexicalNormalize(path) == FoldLeft(NormalizeName, <<>>, path)

\* Without a working directory nothing is outside.
IsOutsideRepo(cwd, path) ==
  \E root \in cwd :
    ~IsPrefix(LexicalNormalize(root),
              LexicalNormalize(IF IsAbsolute(path) THEN path ELSE root \o path))

-----------------------------------------------------------------------------
(* Names that are secrets *)

Hidden(word) == <<"", word>>
Etc == <<Empty, <<"etc">>>>

SystemSecrets ==
  {Append(Etc, name) : name \in {<<"passwd">>, <<"shadow">>, <<"sudoers">>, <<"group">>,
                                 <<"gshadow">>, <<"master", "passwd">>}}
    \cup {Etc \o <<<<"security">>, <<"passwd">>>>}
SystemSecretDirectories == {Append(Etc, <<"sudoers", "d">>), Append(Etc, <<"ssh">>)}
SecretDirectories == {Hidden(word) : word \in {"git", "ssh", "aws", "gcp", "azure"}}

HasExtension(name, extensions) == Len(name) > 1 /\ Last(name) \in extensions

SecretishName(name) ==
  /\ HasExtension(name, {"env", "json", "yaml", "yml", "toml", "ini", "conf", "txt"})
  /\ Head(name) \in {"secret", "secrets", "credential", "credentials", "token", "tokens",
                     "private-key", "private_key"}

\* A first part that begins with id_rsa or id_ed25519 is one of the two here.
SecretFile(name) ==
  \/ HasExtension(name, {"env", "pem", "key", "p12", "pfx"})
  \/ IsPrefix(Hidden("env"), name)
  \/ name \in {Hidden(word) : word \in {"netrc", "npmrc", "pypirc", "dockercfg"}}
  \/ Head(name) \in {"id_rsa", "id_ed25519"}
  \/ name \in {<<"credentials">>, <<"kubeconfig">>, <<"config", "kube">>}
  \/ SecretishName(name)

NameText(name) ==
  SelectSeq(JoinWith([i \in DOMAIN name |-> <<name[i]>>], "."), LAMBDA symbol : symbol # "")
PathText(path) == JoinWith([i \in DOMAIN path |-> NameText(path[i])], "/")

\* Mutant of IsProtectedPath: the path is classified as it was written.
IsProtectedRaw(path, patterns) ==
  LET names == Lowered(Slashed(path))
      name == Last(names)
  IN \/ \E p \in patterns : WildcardMatch(p, PathText(names)) \/ WildcardMatch(p, NameText(name))
     \/ names \in SystemSecrets
     \/ \E i \in 1..Len(names) - 1 : names[i] \in SecretDirectories
     \/ SecretFile(name)

\* The patterns are those of the configuration with slashes and in lower case.
IsProtectedPath(path, patterns) ==
  LET names == Lowered(CollapsePathTraversal(Slashed(path)))
      name == Last(names)
  IN \/ \E p \in patterns : WildcardMatch(p, PathText(names)) \/ WildcardMatch(p, NameText(name))
     \/ names \in SystemSecrets
     \/ \E d \in SystemSecretDirectories : IsStrictPrefix(d, names)
     \/ names = <<Hidden("git")>>
     \/ \E i \in 1..Len(names) - 1 : names[i] \in SecretDirectories
     \/ SecretFile(name)
=============================================================================
