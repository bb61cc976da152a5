--------------------------- MODULE ProjectMemory ---------------------------
(***************************************************************************)
(* The memory files of a project (corcept-memory/src/lib.rs): commands      *)
(* propose candidates and promote them to accepted memory, next to a user   *)
(* who edits candidates by hand and to a server that lists them.  Every     *)
(* write is fs::write: the file is truncated and then filled, without a     *)
(* lock, and the process may die in between.                                *)
(*                                                                         *)
(* A candidate says which id it is of: validate_candidate_id checks the id  *)
(* of the command line, which names the file that is read, and never the id *)
(* inside, which names the accepted file and may lead it anywhere.  It is   *)
(* sound or not for validate_candidate.  Promotion under an id that is      *)
(* refused, or of a file that is missing, does not parse or is not sound,   *)
(* changes nothing and is left out.                                         *)
(***************************************************************************)
EXTENDS Integers, FiniteSets

CONSTANTS
  Ids,        \* memory ids, in the order of their paths
  Proc,       \* running commands
  Missing,    \* no such file
  Emptied,    \* a file that was truncated and not filled
  Partial,    \* a file that was filled with what does not parse
  Elsewhere,  \* an id that names no file of the directories
  MaxDeaths   \* bound: commands that die at work

ASSUME IdsAssumption == Ids \subseteq Nat /\ Elsewhere \notin Ids
ASSUME DeathsAssumption == MaxDeaths \in Nat

Content == [id : Ids \cup {Elsewhere}, sound : BOOLEAN]
ASSUME ContentAssumption == {Missing, Emptied, Partial} \cap Content = {}

VARIABLES
  candidates, accepted,  \* the files of the two directories
  command,               \* what each running command is about to do, with what it holds
  deaths,
  listing                \* the running list_candidates

memoryVars == <<candidates, accepted, command, deaths>>

Unreadable == {Missing, Emptied, Partial}
File == Unreadable \cup Content
Readable(file) == file \notin Unreadable

Resting == [step |-> "idle", held |-> Missing]
NoListing == [left |-> {}, found |-> {}, limit |-> 0, whole |-> {}]

MemoryTypeOK ==
  /\ candidates \in [Ids -> File] /\ accepted \in [Ids -> File]
  /\ command \in [Proc -> [step : {"idle", "fill candidate", "truncate", "fill accepted"},
                           held : {Missing} \cup Content]]
  /\ deaths \in 0..MaxDeaths
  /\ listing \in [left : SUBSET Ids, found : SUBSET Ids, limit : 0..100, whole : SUBSET Ids]

MemoryInit ==
  /\ candidates = [id \in Ids |-> Missing] /\ accepted = [id \in Ids |-> Missing]
  /\ command = [p \in Proc |-> Resting]
  /\ deaths = 0 /\ listing = NoListing

Become(p, step, held) == command' = [command EXCEPT ![p] = [step |-> step, held |-> held]]
Rest(p) == command' = [command EXCEPT ![p] = Resting]

\* What the second half of fs::write leaves: where another has filled the file since it
\* was truncated, the end of a longer text may stay behind the shorter one.
Filled(file, text) == IF file = Emptied THEN {text} ELSE {text, Partial}

-----------------------------------------------------------------------------
(* corcept memory propose: new_candidate gives a fresh id, write_candidate validates *)

ProposeCreate(p) ==
  /\ command[p].step = "idle"
  /\ \E id \in Ids :
       /\ candidates[id] = Missing
       /\ candidates' = [candidates EXCEPT ![id] = Emptied]
       /\ Become(p, "fill candidate", [id |-> id, sound |-> TRUE])
  /\ UNCHANGED <<accepted, deaths>>

ProposeFill(p) ==
  /\ command[p].step = "fill candidate"
  /\ \E file \in Filled(candidates[command[p].held.id], command[p].held) :
       candidates' = [candidates EXCEPT ![command[p].held.id] = file]
  /\ Rest(p)
  /\ UNCHANGED <<accepted, deaths>>

-----------------------------------------------------------------------------
(* corcept memory promote: the candidate stays where it is *)

\* Mutant of PromoteRead: the candidate that was read is not validated again.
PromoteReadUnchecked(p) ==
  /\ command[p].step = "idle"
  /\ \E id \in Ids : Readable(candidates[id]) /\ Become(p, "truncate", candidates[id])
  /\ UNCHANGED <<candidates, accepted, deaths>>

PromoteRead(p) ==
  /\ command[p].step = "idle"
  /\ \E id \in Ids :
       /\ Readable(candidates[id]) /\ candidates[id].sound
       /\ Become(p, "truncate", candidates[id])
  /\ UNCHANGED <<candidates, accepted, deaths>>

\* The accepted file is named by the id inside the candidate.
PromoteTruncate(p) ==
  /\ command[p].step = "truncate"
  /\ accepted' = [id \in Ids |-> IF id = command[p].held.id THEN Emptied ELSE accepted[id]]
  /\ Become(p, "fill accepted", command[p].held)
  /\ UNCHANGED <<candidates, deaths>>

PromoteFill(p) ==
  /\ command[p].step = "fill accepted"
  /\ IF command[p].held.id = Elsewhere THEN UNCHANGED accepted
     ELSE \E file \in Filled(accepted[command[p].held.id], command[p].held) :
            accepted' = [accepted EXCEPT ![command[p].held.id] = file]
  /\ Rest(p)
  /\ UNCHANGED <<candidates, deaths>>

-----------------------------------------------------------------------------
Die(p) ==
  /\ command[p].step # "idle" /\ deaths < MaxDeaths
  /\ deaths' = deaths + 1
  /\ Rest(p)
  /\ UNCHANGED <<candidates, accepted>>

\* The user edits a candidate: whatever is saved, its editor truncates it first.
Edit ==
  /\ \E id \in Ids :
       \/ Readable(candidates[id]) /\ candidates' = [candidates EXCEPT ![id] = Emptied]
       \/ /\ candidates[id] \in {Emptied, Partial}
          /\ \E text \in Content \cup {Partial} : candidates' = [candidates EXCEPT ![id] = text]
  /\ UNCHANGED <<accepted, command, deaths>>

MemoryStep ==
  /\ Edit \/ \E p \in Proc : \/ ProposeCreate(p) \/ ProposeFill(p)
                             \/ PromoteRead(p) \/ PromoteTruncate(p) \/ PromoteFill(p)
                             \/ Die(p)
  /\ UNCHANGED listing

-----------------------------------------------------------------------------
(* list_candidates: the directory is read once, then its files one by one, in order *)

\* `whole` is a history: the candidates that were there, in one piece, at this moment.
ListOpen(limit) ==
  listing' = [left |-> {id \in Ids : candidates[id] # Missing}, found |-> {}, limit |-> limit,
              whole |-> {id \in Ids : Readable(candidates[id])}]

ListDone == listing.left = {} \/ Cardinality(listing.found) = listing.limit
NextToRead(id) == id \in listing.left /\ \A other \in listing.left : id <= other
ListFails == ~ListDone /\ \E id \in Ids : NextToRead(id) /\ ~Readable(candidates[id])

\* Mutant of ListNext: a candidate that is not sound is passed over.
ListNextSkipping ==
  /\ ~ListDone
  /\ \E id \in Ids :
       /\ NextToRead(id) /\ Readable(candidates[id])
       /\ listing' = [listing EXCEPT !.left = @ \ {id},
                                     !.found = IF candidates[id].sound THEN @ \cup {id} ELSE @]

ListNext ==
  /\ ~ListDone
  /\ \E id \in Ids :
       /\ NextToRead(id) /\ Readable(candidates[id])
       /\ listing' = [listing EXCEPT !.left = @ \ {id}, !.found = @ \cup {id}]
=============================================================================
