-------------------------- MODULE McpServerProofs --------------------------
(***************************************************************************)
(* Proofs about the server, the reports it reads and the memory it lists:   *)
(* types first, then one inductive invariant for each of the three.         *)
(***************************************************************************)
EXTENDS McpServer, TLAPS, SequenceTheorems

-----------------------------------------------------------------------------
(* Prefixes of a ledger that grows *)

LEMMA PrefixPointwise ==
  ASSUME NEW S, NEW s \in Seq(S), NEW t \in Seq(S)
  PROVE  IsPrefix(s, t) <=> Len(s) <= Len(t) /\ \A i \in 1..Len(s) : s[i] = t[i]
<1>1. CASE Len(s) <= Len(t)
  <2>1. /\ SubSeq(s, 1, Len(s)) \in Seq(S) /\ Len(SubSeq(s, 1, Len(s))) = Len(s)
        /\ \A i \in 1..Len(s) : SubSeq(s, 1, Len(s))[i] = s[i]
    BY SubSeqProperties
  <2>2. /\ SubSeq(t, 1, Len(s)) \in Seq(S) /\ Len(SubSeq(t, 1, Len(s))) = Len(s)
        /\ \A i \in 1..Len(s) : SubSeq(t, 1, Len(s))[i] = t[i]
    BY <1>1, SubSeqProperties
  <2>3. SubSeq(s, 1, Len(s)) = SubSeq(t, 1, Len(s)) <=> \A i \in 1..Len(s) : s[i] = t[i]
    BY <2>1, <2>2, SeqEqual
  <2>4. QED BY <1>1, <2>3 DEF IsPrefix
<1>2. CASE ~(Len(s) <= Len(t))
  BY <1>2 DEF IsPrefix
<1>3. QED BY <1>1, <1>2

\* An append keeps the prefixes of a sequence.
LEMMA PrefixAppend ==
  ASSUME NEW S, NEW s \in Seq(S), NEW t \in Seq(S), NEW e \in S, IsPrefix(s, t)
  PROVE  IsPrefix(s, Append(t, e))
<1>1. Append(t, e) \in Seq(S) /\ Len(Append(t, e)) = Len(t) + 1
      /\ \A i \in 1..Len(t) : Append(t, e)[i] = t[i]
  BY AppendProperties
<1>2. Len(s) <= Len(t) /\ \A i \in 1..Len(s) : s[i] = t[i]
  BY PrefixPointwise
<1>3. Len(s) \in Nat /\ Len(t) \in Nat
  OBVIOUS
<1>4. \A i \in 1..Len(s) : s[i] = Append(t, e)[i]
  <2>1. \A i \in 1..Len(s) : i \in 1..Len(t)
    BY <1>2, <1>3
  <2>2. QED BY <1>1, <1>2, <2>1
<1>5. Len(s) <= Len(Append(t, e))
  BY <1>1, <1>2, <1>3
<1>6. QED BY <1>1, <1>4, <1>5, PrefixPointwise

\* What holds of all rows holds of the rows of a prefix.
LEMMA PrefixRange ==
  ASSUME NEW S, NEW s \in Seq(S), NEW t \in Seq(S), IsPrefix(s, t)
  PROVE  Range(s) \subseteq Range(t)
<1>1. Len(s) <= Len(t) /\ \A i \in 1..Len(s) : s[i] = t[i]
  BY PrefixPointwise
<1>2. DOMAIN s = 1..Len(s) /\ DOMAIN t = 1..Len(t) /\ Len(s) \in Nat /\ Len(t) \in Nat
  OBVIOUS
<1>3. \A i \in DOMAIN s : i \in DOMAIN t /\ s[i] = t[i]
  BY <1>1, <1>2
<1>4. QED BY <1>3 DEF Range

LEMMA EmptyPrefix ==
  ASSUME NEW S, NEW t \in Seq(S)
  PROVE  <<>> \in Seq(S) /\ IsPrefix(<<>>, t)
<1>1. <<>> \in Seq(S)
  OBVIOUS
<1>2. Len(t) \in Nat
  OBVIOUS
<1> DEFINE none == <<>>
<1>3. none \in Seq(S) /\ Len(none) = 0
  BY <1>1
<1> HIDE DEF none
<1>4. IsPrefix(none, t)
  <2>1. Len(none) <= Len(t)
    BY <1>2, <1>3
  <2>2. \A i \in 1..Len(none) : none[i] = t[i]
    BY <1>3
  <2>3. QED BY <1>3, <2>1, <2>2, PrefixPointwise, Zenon
<1>5. QED BY <1>1, <1>4 DEF none

LEMMA PrefixOfItself ==
  ASSUME NEW S, NEW s \in Seq(S)
  PROVE  IsPrefix(s, s)
BY PrefixPointwise

-----------------------------------------------------------------------------
(* The memory *)

\* Between its steps a command holds what it read or made, and what it is about to
\* accept is sound.
CommandInv ==
  \A p \in Proc :
    /\ command[p].step # "idle" => command[p].held \in Content
    /\ command[p].step \in {"truncate", "fill accepted"} => command[p].held.sound

MemoryInv == MemoryTypeOK /\ CommandInv /\ AcceptedSound

LEMMA MemoryStepInv == MemoryInv /\ MemoryStep => MemoryInv'
<1> SUFFICES ASSUME MemoryInv, MemoryStep PROVE MemoryInv'
  OBVIOUS
<1> DEFINE Commands == [step : {"idle", "fill candidate", "truncate", "fill accepted"},
                        held : {Missing} \cup Content]
<1>1. /\ candidates \in [Ids -> File] /\ accepted \in [Ids -> File]
      /\ command \in [Proc -> Commands] /\ deaths \in 0..MaxDeaths
      /\ CommandInv /\ AcceptedSound
  BY DEF MemoryInv, MemoryTypeOK
<1>2. UNCHANGED listing
  BY DEF MemoryStep
<1> DEFINE Kept == /\ candidates' \in [Ids -> File] /\ accepted' \in [Ids -> File]
                   /\ command' \in [Proc -> Commands] /\ deaths' \in 0..MaxDeaths
                   /\ CommandInv' /\ AcceptedSound'
<1>3. SUFFICES Kept
  BY <1>2 DEF MemoryInv, MemoryTypeOK
<1>4. Unreadable \cap Content = {} /\ {Emptied, Partial} \subseteq Unreadable
  BY ContentAssumption DEF Unreadable
<1>5. CASE Edit
  <2>1. UNCHANGED <<accepted, command, deaths>>
    BY <1>5 DEF Edit
  <2>2. \E id \in Ids, file \in File : candidates' = [candidates EXCEPT ![id] = file]
    BY <1>5 DEF Edit, File, Unreadable
  <2>3. candidates' \in [Ids -> File]
    BY <1>1, <2>2
  <2>4. QED BY <1>1, <2>1, <2>3 DEF CommandInv, AcceptedSound
\* A command that goes on to hold something.
<1>6. ASSUME NEW p \in Proc, NEW next \in {"fill candidate", "truncate", "fill accepted"},
             NEW held \in Content, Become(p, next, held),
             next \in {"truncate", "fill accepted"} => held.sound
      PROVE  command' \in [Proc -> Commands] /\ CommandInv'
  BY <1>1, <1>6 DEF Become, CommandInv
\* A command that ends.
<1>7. ASSUME NEW p \in Proc, Rest(p)
      PROVE  command' \in [Proc -> Commands] /\ CommandInv'
  BY <1>1, <1>7 DEF Rest, Resting, CommandInv
<1>8. ASSUME NEW p \in Proc, ProposeCreate(p)
      PROVE  Kept
  <2>1. PICK id \in Ids : /\ candidates' = [candidates EXCEPT ![id] = Emptied]
                          /\ Become(p, "fill candidate", [id |-> id, sound |-> TRUE])
    BY <1>8 DEF ProposeCreate
  <2>2. [id |-> id, sound |-> TRUE] \in Content
    BY DEF Content
  <2>3. command' \in [Proc -> Commands] /\ CommandInv'
    BY <1>6, <2>1, <2>2
  <2>4. candidates' \in [Ids -> File] /\ UNCHANGED <<accepted, deaths>>
    BY <1>1, <1>4, <1>8, <2>1 DEF ProposeCreate, File
  <2>5. QED BY <1>1, <2>3, <2>4 DEF AcceptedSound
<1>9. ASSUME NEW p \in Proc, ProposeFill(p)
      PROVE  Kept
  <2>1. command[p].held \in Content
    BY <1>1, <1>9 DEF ProposeFill, CommandInv
  <2>2. candidates' \in [Ids -> File] /\ UNCHANGED <<accepted, deaths>>
    <3>1. PICK file \in {command[p].held, Partial} :
            candidates' = [candidates EXCEPT ![command[p].held.id] = file]
      BY <1>9 DEF ProposeFill, Filled
    <3>2. file \in File
      BY <1>4, <2>1 DEF File
    <3>3. QED BY <1>1, <1>9, <3>1, <3>2 DEF ProposeFill
  <2>3. command' \in [Proc -> Commands] /\ CommandInv'
    BY <1>7, <1>9 DEF ProposeFill
  <2>4. QED BY <1>1, <2>2, <2>3 DEF AcceptedSound
<1>10. ASSUME NEW p \in Proc, PromoteRead(p)
       PROVE  Kept
  <2>1. PICK id \in Ids : /\ Readable(candidates[id]) /\ candidates[id].sound
                          /\ Become(p, "truncate", candidates[id])
    BY <1>10 DEF PromoteRead
  <2>2. candidates[id] \in Content
    BY <1>1, <2>1 DEF File, Readable
  <2>3. command' \in [Proc -> Commands] /\ CommandInv'
    BY <1>6, <2>1, <2>2
  <2>4. UNCHANGED <<candidates, accepted, deaths>>
    BY <1>10 DEF PromoteRead
  <2>5. QED BY <1>1, <2>3, <2>4 DEF AcceptedSound
<1>11. ASSUME NEW p \in Proc, PromoteTruncate(p)
       PROVE  Kept
  <2>1. command[p].held \in Content /\ command[p].held.sound
    BY <1>1, <1>11 DEF PromoteTruncate, CommandInv
  <2>2. command' \in [Proc -> Commands] /\ CommandInv'
    BY <1>6, <1>11, <2>1 DEF PromoteTruncate
  <2>3. /\ accepted' = [id \in Ids |-> IF id = command[p].held.id THEN Emptied ELSE accepted[id]]
        /\ UNCHANGED <<candidates, deaths>>
    BY <1>11 DEF PromoteTruncate
  <2>4. accepted' \in [Ids -> File] /\ AcceptedSound'
    BY <1>1, <1>4, <2>3 DEF File, AcceptedSound, Readable
  <2>5. QED BY <1>1, <2>2, <2>3, <2>4
<1>12. ASSUME NEW p \in Proc, PromoteFill(p)
       PROVE  Kept
  <2>1. command[p].held \in Content /\ command[p].held.sound
    BY <1>1, <1>12 DEF PromoteFill, CommandInv
  <2>2. command' \in [Proc -> Commands] /\ CommandInv'
    BY <1>7, <1>12 DEF PromoteFill
  <2> DEFINE text == command[p].held
  <2>3. /\ \/ UNCHANGED accepted
           \/ \E file \in {text, Partial} : accepted' = [accepted EXCEPT ![text.id] = file]
        /\ UNCHANGED <<candidates, deaths>>
    BY <1>12 DEF PromoteFill, Filled
  <2>4. accepted' \in [Ids -> File] /\ AcceptedSound'
    <3>1. text \in File /\ Partial \in File /\ text.sound /\ ~Readable(Partial)
      BY <1>4, <2>1 DEF File, Readable
    <3>2. CASE UNCHANGED accepted
      BY <1>1, <3>2 DEF AcceptedSound
    <3>3. ASSUME NEW file \in {text, Partial}, accepted' = [accepted EXCEPT ![text.id] = file]
          PROVE  accepted' \in [Ids -> File] /\ AcceptedSound'
      BY <1>1, <3>1, <3>3 DEF AcceptedSound
    <3>4. QED BY <2>3, <3>2, <3>3
  <2>5. QED BY <1>1, <2>2, <2>3, <2>4
<1>13. ASSUME NEW p \in Proc, Die(p)
       PROVE  Kept
  <2>1. command' \in [Proc -> Commands] /\ CommandInv'
    BY <1>7, <1>13 DEF Die
  <2>2. deaths \in 0..MaxDeaths /\ deaths < MaxDeaths /\ deaths' = deaths + 1
    BY <1>1, <1>13 DEF Die
  <2>3. deaths' \in 0..MaxDeaths
    BY <2>2, DeathsAssumption
  <2>4. UNCHANGED <<candidates, accepted>>
    BY <1>13 DEF Die
  <2>5. QED BY <1>1, <2>1, <2>3, <2>4 DEF AcceptedSound
<1>14. QED
  BY <1>5, <1>8, <1>9, <1>10, <1>11, <1>12, <1>13 DEF MemoryStep

-----------------------------------------------------------------------------
(* The server *)

DoctorSteps == {"doctor chain", "doctor schema", "doctor signing", "doctor perms"}
AuditSteps == {"audit chain", "audit verify"}
Answers == {"none", "result", "invalid_arguments", "-32700", "-32600", "-32601", "-32603"}

\* A step of a tool belongs to the message that called it.
ServerInv ==
  /\ scene \in Scenes /\ initialized \in BOOLEAN /\ open \in BOOLEAN
  /\ step \in Steps /\ answer \in Answers
  /\ step = "read" => message = NoMessage
  /\ step # "read" => message \in Message
  /\ step \in DoctorSteps => message.tool = "doctor_report"
  /\ step \in AuditSteps => message.tool = "audit_report"
  /\ step = "list" => message.tool = "candidate_memory_list"

\* Only a call names a tool, and its limit is one a client can give.
LEMMA MessageShape ==
  ASSUME NEW m \in Message
  PROVE  /\ m.method \in Methods /\ (m.method # "tools/call" => m.tool = "none")
         /\ m.arguments.limit \in Limit
<1>1. Unset \subseteq Limit /\ {"tools/call"} \subseteq Methods
  BY DEF Unset, Limit, Methods
<1>2. CASE m \in Sent(Methods, {"none"}, TRUE, NoArguments)
  BY <1>1, <1>2 DEF Sent, NoArguments, Arguments
<1>3. ASSUME NEW tools, NEW object, NEW a, NEW b, NEW c, NEW d, d \subseteq Limit,
             m \in Sent({"tools/call"}, tools, object, Arguments(a, b, c, d))
      PROVE  m.method = "tools/call" /\ m.arguments.limit \in Limit
  BY <1>3 DEF Sent, Arguments
<1>4. CASE m \notin Sent(Methods, {"none"}, TRUE, NoArguments)
  <2> DEFINE call(tools, object, a, b, c, d) ==
               Sent({"tools/call"}, tools, object, Arguments(a, b, c, d))
  <2>1. \/ m \in call({"doctor_report"}, FALSE, Unset, Unset, Unset, Unset)
        \/ m \in call({"doctrine_validate", "unknown"}, TRUE, Unset, Unset, Unset, Unset)
        \/ m \in call({"doctor_report"}, TRUE, Flag, Flag, Unset, Unset)
        \/ m \in call({"audit_report"}, TRUE, Unset, Unset, Flag, Unset)
        \/ m \in call({"candidate_memory_list", "cloudevents_preview"}, TRUE, Unset, Unset, Unset, Limit)
    BY <1>4 DEF Message, Calls, NoArguments
  <2>2. m.method = "tools/call" /\ m.arguments.limit \in Limit
    BY <1>1, <1>3, <2>1
  <2>3. QED BY <1>1, <2>2
<1>5. QED BY <1>2, <1>4

\* The steps that leave the server where it is.
LEMMA ElsewhereServer ==
  ASSUME ServerInv, UNCHANGED serverVars
  PROVE  ServerInv'
BY DEF ServerInv, serverVars

\* The ends of a message, and the server's own.
LEMMA AnyServer ==
  ASSUME ServerInv, UNCHANGED scene, initialized' = initialized, open' \in BOOLEAN,
         \/ Resume
         \/ step' \in Steps /\ message' = message /\ answer' \in Answers /\ step # "read"
            /\ \/ step' = "write"
               \/ step' \in DoctorSteps /\ message.tool = "doctor_report"
               \/ step' \in AuditSteps /\ message.tool = "audit_report"
               \/ step' = "list" /\ message.tool = "candidate_memory_list"
               \/ step' = "begin"
  PROVE  ServerInv'
<1>1. CASE Resume
  BY <1>1 DEF ServerInv, Resume, Answers, Steps, DoctorSteps, AuditSteps
<1>2. CASE ~Resume
  BY <1>2 DEF ServerInv, Answers, Steps, DoctorSteps, AuditSteps
<1>3. QED BY <1>1, <1>2

LEMMA ServerStepInv == ServerInv /\ [Next]_vars => ServerInv'
<1> SUFFICES ASSUME ServerInv, [Next]_vars PROVE ServerInv'
  OBVIOUS
<1>1. /\ initialized \in BOOLEAN /\ open \in BOOLEAN /\ step \in Steps /\ answer \in Answers
      /\ step # "read" => message \in Message
      /\ step \in DoctorSteps => message.tool = "doctor_report"
      /\ step \in AuditSteps => message.tool = "audit_report"
      /\ step = "list" => message.tool = "candidate_memory_list"
  BY DEF ServerInv
<1>2. CASE Read
  <2>1. message' \in Message
    BY <1>2, MessagesAssumption DEF Read, ServerInv
  <2>2. QED BY <1>2, <2>1 DEF Read, ServerInv, Steps, DoctorSteps, AuditSteps, Unmoved
<1>3. CASE ReadNothing
  BY <1>3 DEF ReadNothing, ServerInv, Unmoved
<1>4. CASE WriteAnswer
  BY <1>1, <1>4, AnyServer DEF WriteAnswer, Unmoved
<1>5. CASE WriteFails
  BY <1>1, <1>5, AnyServer DEF WriteFails, Unmoved
<1>6. CASE Handle
  <2>1. CASE message.method = "initialize"
    BY <1>6, <2>1 DEF Handle, ServerInv, Unmoved, Steps, Answers, DoctorSteps, AuditSteps
  <2>2. CASE message.method # "initialize"
    <3>1. message.method \in Methods \ {"initialize", "tools/call"} /\ step = "handle"
      BY <1>1, <1>6, <2>2, MessageShape DEF Handle, CallsTool
    <3>2. CASE message.method = "notifications/initialized"
      BY <1>1, <1>6, <3>2, AnyServer DEF Handle, Unmoved
    <3>3. CASE message.method # "notifications/initialized"
      <4>1. \E what \in Answers : Write(what)
        BY <1>6, <3>1, <3>3 DEF Handle, Methods, Answers
      <4>2. initialized' = initialized
        BY <1>6, <3>1, <3>3 DEF Handle, Methods, Write
      <4>3. QED BY <1>1, <1>6, <3>1, <4>1, <4>2, AnyServer DEF Handle, Write, Unmoved, Steps
    <3>4. QED BY <3>2, <3>3
  <2>3. QED BY <2>1, <2>2
<1>7. CASE HandleCall
  BY <1>1, <1>7, AnyServer DEF HandleCall, Write, Goto, Unmoved, Steps, Answers
<1>8. CASE UnknownTool
  BY <1>1, <1>8, AnyServer DEF UnknownTool, Tool, Fail, Write, Unmoved, Steps, Answers
<1>9. CASE DoctorBegin
  BY <1>1, <1>9, AnyServer DEF DoctorBegin, Tool, Refuse, Write, Goto, Unmoved, Steps, Answers, DoctorSteps
<1>10. CASE DoctorStep
  BY <1>1, <1>10, AnyServer DEF DoctorStep, Write, Goto, Unmoved, Steps, Answers, DoctorSteps
<1>11. CASE AuditBegin
  BY <1>1, <1>11, AnyServer DEF AuditBegin, Tool, Refuse, Write, Goto, Unmoved, Steps, Answers, AuditSteps
<1>12. CASE AuditStep
  BY <1>1, <1>12, AnyServer DEF AuditStep, Fail, Write, Goto, Unmoved, Steps, Answers, AuditSteps
<1>13. CASE DoctrineValidate
  BY <1>1, <1>13, AnyServer DEF DoctrineValidate, Tool, Fail, Write, Unmoved, Steps, Answers
<1>14. CASE CloudeventsPreview
  BY <1>1, <1>14, AnyServer DEF CloudeventsPreview, Tool, Refuse, Fail, Write, Unmoved, Steps, Answers
<1>15. CASE ListBegin
  BY <1>1, <1>15, AnyServer DEF ListBegin, Tool, Refuse, Goto, Write, Unmoved, Steps, Answers
<1>16. CASE ListStep
  BY <1>1, <1>16, AnyServer DEF ListStep, Fail, Goto, Write, Unmoved, Steps, Answers
<1>17. CASE MemoryPrograms \/ LedgerPrograms \/ ReceiptPrograms \/ UNCHANGED vars
  BY <1>17, ElsewhereServer DEF MemoryPrograms, LedgerPrograms, ReceiptPrograms, vars
<1>18. QED
  BY <1>2, <1>3, <1>4, <1>5, <1>6, <1>7, <1>8, <1>9, <1>10, <1>11, <1>12, <1>13, <1>14, <1>15,
     <1>16, <1>17 DEF Next, HandleStep

-----------------------------------------------------------------------------
(* Receipts *)

\* The ledger only grows, by one row at a time, and stays torn.
LedgerGrows ==
  /\ rows' = rows \/ \E kind \in RowKind : rows' = Append(rows, kind)
  /\ torn => torn' /\ rows' = rows

LEMMA NextLedger ==
  ASSUME torn \in BOOLEAN, [Next]_vars
  PROVE  LedgerGrows /\ torn' \in BOOLEAN
<1>1. CASE LedgerPrograms
  BY <1>1 DEF LedgerPrograms, AppendRow, LedgerGrows
<1>2. CASE ~LedgerPrograms
  <2>1. UNCHANGED <<rows, torn>>
    BY <1>2 DEF Next, Read, ReadNothing, WriteAnswer, WriteFails, HandleStep, Handle, HandleCall,
       UnknownTool, DoctorBegin, DoctorStep, AuditBegin, AuditStep, DoctrineValidate,
       CloudeventsPreview, ListBegin, ListStep, MemoryPrograms, ReceiptPrograms, BeginVerb,
       EmitReceipt, ledgerVars, Unmoved, vars
  <2>2. QED BY <2>1 DEF LedgerGrows
<1>3. QED BY <1>1, <1>2

LEMMA GrowthKeepsPrefix ==
  ASSUME rows \in Seq(RowKind), LedgerGrows, NEW s \in Seq(RowKind), IsPrefix(s, rows)
  PROVE  rows' \in Seq(RowKind) /\ IsPrefix(s, rows')
<1>1. CASE rows' = rows
  BY <1>1
<1>2. CASE rows' # rows
  <2>1. PICK kind \in RowKind : rows' = Append(rows, kind)
    BY <1>2 DEF LedgerGrows
  <2>2. Append(rows, kind) \in Seq(RowKind)
    BY AppendProperties
  <2>3. IsPrefix(s, Append(rows, kind))
    BY PrefixAppend
  <2>4. QED BY <2>1, <2>2, <2>3
<1>3. QED BY <1>1, <1>2

LEMMA PrefixInChain ==
  ASSUME NEW s \in Seq(RowKind), NEW t \in Seq(RowKind), IsPrefix(s, t)
  PROVE  /\ InChain(t) => InChain(s)
         /\ AllSigned(t) => AllSigned(s)
BY PrefixRange DEF InChain, AllSigned

\* What a command has read is a prefix of the ledger, and its outcome is true of it.
ReceiptInv ==
  /\ rows \in Seq(RowKind)
  /\ verb \in [operation : {"none", "audit verify", "export"}, read : Seq(RowKind),
               outcome : Outcome]
  /\ IsPrefix(verb.read, rows)
  /\ verb.operation = "audit verify" /\ verb.outcome = "ok" => InChain(verb.read)
  /\ ReceiptCovers

LEMMA ReceiptStepInv == ReceiptInv /\ torn \in BOOLEAN /\ [Next]_vars => ReceiptInv'
<1> SUFFICES ASSUME ReceiptInv, torn \in BOOLEAN, [Next]_vars PROVE ReceiptInv'
  OBVIOUS
<1> DEFINE Verbs == [operation : {"none", "audit verify", "export"}, read : Seq(RowKind),
                     outcome : Outcome]
<1>1. /\ rows \in Seq(RowKind) /\ verb \in Verbs /\ IsPrefix(verb.read, rows)
      /\ verb.operation = "audit verify" /\ verb.outcome = "ok" => InChain(verb.read)
      /\ ReceiptCovers
  BY DEF ReceiptInv
<1>2. verb.read \in Seq(RowKind)
  BY <1>1
<1>3. rows' \in Seq(RowKind) /\ IsPrefix(verb.read, rows')
  BY <1>1, <1>2, NextLedger, GrowthKeepsPrefix
<1>4. CASE UNCHANGED <<verb, receipt>>
  BY <1>1, <1>3, <1>4 DEF ReceiptInv, ReceiptCovers
<1>5. CASE ReceiptPrograms /\ BeginVerb
  <2>1. PICK operation \in {"audit verify", "export"}, outcome \in Outcome :
          /\ verb' = [operation |-> operation, read |-> rows, outcome |-> outcome]
          /\ operation = "audit verify" /\ outcome = "ok" => InChain(rows)
    <3>1. PICK operation \in {"audit verify", "export"}, signed \in BOOLEAN :
            \E outcome \in Outcomes(operation, signed) :
              verb' = [operation |-> operation, read |-> rows, outcome |-> outcome]
      BY <1>5 DEF BeginVerb
    <3>2. PICK outcome \in Outcomes(operation, signed) :
            verb' = [operation |-> operation, read |-> rows, outcome |-> outcome]
      BY <3>1
    <3>3. outcome \in Outcome
      BY <3>2 DEF Outcomes, Outcome
    <3>4. operation = "audit verify" /\ outcome = "ok" => InChain(rows)
      BY <3>2 DEF Outcomes, VerifyPasses
    <3>5. QED BY <3>2, <3>3, <3>4
  <2>2. UNCHANGED <<rows, receipt>>
    BY <1>5 DEF BeginVerb, ledgerVars
  <2>3. verb' \in Verbs /\ IsPrefix(verb'.read, rows')
    BY <1>1, <2>1, <2>2, PrefixOfItself
  <2>4. verb'.operation = "audit verify" /\ verb'.outcome = "ok" => InChain(verb'.read)
    BY <2>1
  <2>5. QED BY <1>1, <2>2, <2>3, <2>4 DEF ReceiptInv, ReceiptCovers
<1>6. CASE ReceiptPrograms /\ EmitReceipt
  <2>1. /\ receipt' = [operation |-> verb.operation, read |-> verb.read, input |-> rows,
                       outcome |-> verb.outcome]
        /\ verb' = Quiet /\ UNCHANGED rows
    BY <1>6 DEF EmitReceipt, ledgerVars
  <2>2. ReceiptCovers'
    BY <1>1, <2>1 DEF ReceiptCovers
  <2>3. Quiet \in Verbs /\ IsPrefix(<<>>, rows)
    <3>1. <<>> \in Seq(RowKind) /\ IsPrefix(<<>>, rows)
      BY <1>1, EmptyPrefix
    <3>2. QED BY <3>1 DEF Quiet, Outcome
  <2>4. QED BY <1>1, <2>1, <2>2, <2>3 DEF ReceiptInv, Quiet
<1>7. UNCHANGED <<verb, receipt>> \/ ReceiptPrograms
  BY DEF Next, Read, ReadNothing, WriteAnswer, WriteFails, HandleStep, Handle, HandleCall,
     UnknownTool, DoctorBegin, DoctorStep, AuditBegin, AuditStep, DoctrineValidate,
     CloudeventsPreview, ListBegin, ListStep, MemoryPrograms, LedgerPrograms, AppendRow,
     verbVars, Unmoved, vars
<1>8. QED BY <1>4, <1>5, <1>6, <1>7 DEF ReceiptPrograms

-----------------------------------------------------------------------------
(* Reports *)

ReportType ==
  /\ project \in Projects /\ torn \in BOOLEAN /\ rows \in Seq(RowKind)
  /\ report \in [counted : Nat, chained : BOOLEAN, scanned : Nat, pass : BOOLEAN,
                 checks : SUBSET (Check \X BOOLEAN), begun : Seq(RowKind)]

\* A check of the report is not a pass.
Fails == \E c \in report.checks : ~c[2]

\* While a report is made, the rows it began with are the first ones of the ledger; what
\* it has found of them it cannot lose by reading more.
ReportInv ==
  /\ ReportType
  /\ step \in DoctorSteps \cup AuditSteps => IsPrefix(report.begun, rows)
  /\ step = "doctor perms" /\ TRUE \in Strict =>
       Fails \/ (InChain(report.begun) /\ AllSigned(report.begun))
  /\ StrictPassMeansSigned
  /\ step \in AuditSteps /\ ~torn => report.counted = Len(report.begun)
  /\ step = "audit verify" /\ ~torn /\ InChain(rows) => report.chained
  /\ AuditAgrees

\* Nothing is claimed of a report that is not being made, nor answered.
LEMMA NoReportClaimed ==
  ASSUME ReportType',
         step' \notin DoctorSteps \cup AuditSteps,
         step' = "write" /\ answer' = "result" =>
           message'.tool \notin {"doctor_report", "audit_report"}
  PROVE  ReportInv'
BY DEF ReportInv, StrictPassMeansSigned, AuditAgrees, Answered, DoctorSteps, AuditSteps

\* The ledger may grow while a report is made.
LEMMA GrowthKeepsReport ==
  ASSUME ReportInv, LedgerGrows, torn' \in BOOLEAN, UNCHANGED <<project, report, step, message, answer>>
  PROVE  ReportInv'
<1>1. ReportType /\ report.begun \in Seq(RowKind)
  BY DEF ReportInv, ReportType
<1>2. rows' \in Seq(RowKind)
  <2>1. CASE rows' = rows
    BY <1>1, <2>1 DEF ReportType
  <2>2. ASSUME NEW kind \in RowKind, rows' = Append(rows, kind)
        PROVE  rows' \in Seq(RowKind)
    BY <1>1, <2>2, AppendProperties DEF ReportType
  <2>3. QED BY <2>1, <2>2 DEF LedgerGrows
<1>3. ReportType'
  BY <1>1, <1>2 DEF ReportType
<1>4. step \in DoctorSteps \cup AuditSteps => IsPrefix(report.begun, rows')
  BY <1>1, GrowthKeepsPrefix DEF ReportInv, ReportType
<1>5. IsPrefix(rows, rows')
  BY <1>1, GrowthKeepsPrefix, PrefixOfItself DEF ReportType
<1>6. (~torn' => ~torn) /\ (InChain(rows') => InChain(rows))
  BY <1>1, <1>2, <1>5, PrefixInChain DEF LedgerGrows, ReportType
<1>7. QED
  BY <1>3, <1>4, <1>6 DEF ReportInv, StrictPassMeansSigned, AuditAgrees, Answered, Fails, Strict,
     DoctorStatus

LEMMA DoctorKeepsReport ==
  ASSUME ServerInv, ReportInv, DoctorBegin \/ DoctorStep
  PROVE  ReportInv'
<1> DEFINE all == [counted : Nat, chained : BOOLEAN, scanned : Nat, pass : BOOLEAN,
                   checks : SUBSET (Check \X BOOLEAN), begun : Seq(RowKind)]
<1>1. /\ project \in Projects /\ torn \in BOOLEAN /\ rows \in Seq(RowKind) /\ report \in all
      /\ step \in DoctorSteps => IsPrefix(report.begun, rows)
      /\ step = "doctor perms" /\ TRUE \in Strict =>
           Fails \/ (InChain(report.begun) /\ AllSigned(report.begun))
  BY DEF ReportInv, ReportType
<1>2. UNCHANGED <<project, rows, torn, message>>
  BY DEF DoctorBegin, DoctorStep, Refuse, Goto, Write, Unmoved
<1>3. Strict' = Strict /\ (step # "begin" => message.tool = "doctor_report")
  BY <1>2 DEF Strict, ServerInv, DoctorStep, DoctorBegin, DoctorSteps, Tool
<1>4. CASE DoctorBegin /\ (Strict = {} \/ ValidatePerms = {})
  <2>1. ReportType' /\ step' = "write" /\ answer' = "invalid_arguments"
    BY <1>1, <1>2, <1>4 DEF DoctorBegin, Refuse, Write, ReportType
  <2>2. QED BY <2>1, NoReportClaimed DEF DoctorSteps, AuditSteps
<1>5. CASE DoctorBegin /\ Strict # {} /\ ValidatePerms # {}
  <2>1. step' = "doctor chain" /\ DoctorFiles
    BY <1>5 DEF DoctorBegin, Goto
  <2>2. /\ <<"files", project.files>> \in Check \X BOOLEAN
        /\ <<"ledger", project.files \/ rows # <<>> \/ torn>> \in Check \X BOOLEAN
        /\ <<"doctrine", project.doctrine = "valid">> \in Check \X BOOLEAN
    BY <1>1, ProjectsAssumption DEF Check
  <2>3. report' \in all /\ report'.begun = rows
    BY <1>1, <2>1, <2>2 DEF DoctorFiles
  <2>4. IsPrefix(report'.begun, rows)
    BY <1>1, <2>3, PrefixOfItself
  <2>5. QED
    BY <1>1, <1>2, <2>1, <2>3, <2>4 DEF ReportInv, ReportType, StrictPassMeansSigned, AuditAgrees, Answered,
       DoctorSteps, AuditSteps
\* A check is added, and nothing that was found is lost.
<1>6. ASSUME NEW check \in Check, NEW passes \in BOOLEAN, Push(check, passes)
      PROVE  /\ report' \in all /\ report'.begun = report.begun
             /\ Fails => Fails'
             /\ ~passes => Fails'
  <2>1. <<check, passes>> \in Check \X BOOLEAN
    OBVIOUS
  <2>2. /\ report' \in all /\ report'.begun = report.begun
        /\ report'.checks = report.checks \cup {<<check, passes>>}
    BY <1>1, <1>6, <2>1 DEF Push
  <2>3. Fails => Fails'
    BY <2>2 DEF Fails
  <2>4. ~passes => Fails'
    <3>1. <<check, passes>>[2] = passes /\ <<check, passes>> \in report'.checks
      BY <2>2
    <3>2. QED BY <3>1 DEF Fails
  <2>5. QED BY <2>2, <2>3, <2>4
<1>7. CASE DoctorStep /\ step = "doctor chain"
  <2>1. /\ step' = (IF TRUE \in Strict THEN "doctor schema" ELSE "doctor perms")
        /\ Push("ledger_hash_chain", ChainVerifies)
    BY <1>7 DEF DoctorStep, Goto, DoctorChain
  <2>2. ChainVerifies \in BOOLEAN /\ "ledger_hash_chain" \in Check
    BY DEF ChainVerifies, Check
  <2>3. report' \in all /\ report'.begun = report.begun
    BY <1>6, <2>1, <2>2
  <2>4. IsPrefix(report.begun, rows)
    BY <1>1, <1>7 DEF DoctorSteps
  <2>5. QED
    BY <1>1, <1>2, <1>3, <2>1, <2>3, <2>4 DEF ReportInv, ReportType, StrictPassMeansSigned, AuditAgrees,
       Answered, DoctorSteps, AuditSteps
<1>8. CASE DoctorStep /\ step = "doctor schema"
  <2>1. step' = "doctor signing" /\ Push("ledger_schema", ~torn)
    BY <1>8 DEF DoctorStep, Goto, DoctorSchema
  <2>2. (~torn) \in BOOLEAN /\ "ledger_schema" \in Check
    BY DEF Check
  <2>3. report' \in all /\ report'.begun = report.begun
    BY <1>6, <2>1, <2>2
  <2>4. IsPrefix(report.begun, rows)
    BY <1>1, <1>8 DEF DoctorSteps
  <2>5. QED
    BY <1>1, <1>2, <2>1, <2>3, <2>4 DEF ReportInv, ReportType, StrictPassMeansSigned, AuditAgrees,
       Answered, DoctorSteps, AuditSteps
<1>9. CASE DoctorStep /\ step = "doctor signing"
  <2> DEFINE passes == ~torn /\ (rows = <<>> \/ VerifyPasses(TRUE))
  <2>1. step' = "doctor perms" /\ Push("ledger_signed", passes)
    BY <1>9 DEF DoctorStep, Goto, DoctorSigning
  <2>2. passes \in BOOLEAN /\ "ledger_signed" \in Check
    BY DEF Check
  <2>3. IsPrefix(report.begun, rows) /\ report.begun \in Seq(RowKind)
    BY <1>1, <1>9 DEF DoctorSteps
  <2>4. passes => InChain(rows) /\ AllSigned(rows)
    <3>1. CASE rows = <<>>
      BY <3>1 DEF InChain, AllSigned, Range
    <3>2. CASE VerifyPasses(TRUE)
      BY <3>2 DEF VerifyPasses
    <3>3. QED BY <3>1, <3>2
  <2>5. passes => InChain(report.begun) /\ AllSigned(report.begun)
    BY <1>1, <2>3, <2>4, PrefixInChain
  <2> HIDE DEF passes
  <2>6. report' \in all /\ report'.begun = report.begun /\ (~passes => Fails')
    BY <1>6, <2>1, <2>2
  <2>7. QED
    BY <1>1, <1>2, <2>1, <2>3, <2>5, <2>6 DEF ReportInv, ReportType, StrictPassMeansSigned, AuditAgrees,
       Answered, DoctorSteps, AuditSteps
<1>10. CASE DoctorStep /\ step = "doctor perms"
  <2>1. step' = "write" /\ (DoctorPerms \/ UNCHANGED report) /\ message.tool = "doctor_report"
    BY <1>3, <1>10 DEF DoctorStep, Write
  <2>2. report' \in all /\ report'.begun = report.begun /\ (Fails => Fails')
    <3>1. CASE DoctorPerms
      <4>1. project.perms \in BOOLEAN /\ "perms" \in Check
        BY <1>1, ProjectsAssumption DEF Check
      <4>2. QED BY <1>6, <3>1, <4>1 DEF DoctorPerms
    <3>2. CASE UNCHANGED report
      BY <1>1, <3>2 DEF Fails
    <3>3. QED BY <2>1, <3>1, <3>2
  <2>3. TRUE \in Strict => Fails' \/ (InChain(report'.begun) /\ AllSigned(report'.begun))
    BY <1>1, <1>10, <2>2
  <2>4. Fails' => DoctorStatus(TRUE)' # "pass"
    BY DEF Fails, DoctorStatus
  <2>5. StrictPassMeansSigned'
    BY <1>3, <2>3, <2>4 DEF StrictPassMeansSigned
  <2>6. QED
    BY <1>1, <1>2, <2>1, <2>2, <2>5 DEF ReportInv, ReportType, AuditAgrees, Answered, DoctorSteps,
       AuditSteps
<1>11. QED BY <1>4, <1>5, <1>7, <1>8, <1>9, <1>10 DEF DoctorStep

LEMMA AuditKeepsReport ==
  ASSUME ServerInv, ReportInv, AuditBegin \/ AuditStep
  PROVE  ReportInv'
<1> DEFINE all == [counted : Nat, chained : BOOLEAN, scanned : Nat, pass : BOOLEAN,
                   checks : SUBSET (Check \X BOOLEAN), begun : Seq(RowKind)]
<1>1. /\ project \in Projects /\ torn \in BOOLEAN /\ rows \in Seq(RowKind) /\ report \in all
      /\ step \in AuditSteps => IsPrefix(report.begun, rows)
      /\ step \in AuditSteps /\ ~torn => report.counted = Len(report.begun)
      /\ step = "audit verify" /\ ~torn /\ InChain(rows) => report.chained
  BY DEF ReportInv, ReportType
<1>2. UNCHANGED <<project, rows, torn, message>>
  BY DEF AuditBegin, AuditStep, Refuse, Fail, Goto, Write, Unmoved
<1>3. message.tool = "audit_report"
  BY DEF ServerInv, AuditStep, AuditBegin, AuditSteps, Tool
<1>4. CASE \/ AuditBegin /\ Signed = {}
           \/ AuditStep /\ step = "audit verify" /\ torn
  <2>1. ReportType' /\ step' = "write" /\ answer' # "result"
    BY <1>1, <1>2, <1>4 DEF AuditBegin, AuditStep, Refuse, Fail, Write, ReportType
  <2>2. QED BY <2>1, NoReportClaimed DEF DoctorSteps, AuditSteps
<1>5. CASE AuditBegin /\ Signed # {}
  <2>1. /\ step' = "audit chain"
        /\ report' = [report EXCEPT !.counted = IF torn THEN 0 ELSE Len(rows), !.begun = rows]
    BY <1>5 DEF AuditBegin, Goto, AuditRead
  <2>2. Len(rows) \in Nat
    BY <1>1, LenProperties
  <2>3. report' \in all /\ report'.begun = rows /\ (~torn => report'.counted = Len(rows))
    BY <1>1, <2>1, <2>2
  <2>4. IsPrefix(report'.begun, rows)
    BY <1>1, <2>3, PrefixOfItself
  <2>5. QED
    BY <1>1, <1>2, <2>1, <2>3, <2>4 DEF ReportInv, ReportType, StrictPassMeansSigned, AuditAgrees, Answered,
       DoctorSteps, AuditSteps
<1>6. CASE AuditStep /\ step = "audit chain"
  <2>1. step' = "audit verify" /\ report' = [report EXCEPT !.chained = ChainVerifies]
    BY <1>6 DEF AuditStep, Goto, AuditChain
  <2>2. ChainVerifies \in BOOLEAN
    BY DEF ChainVerifies
  <2>3. /\ report' \in all /\ report'.begun = report.begun /\ report'.counted = report.counted
        /\ report'.chained = ChainVerifies
    BY <1>1, <2>1, <2>2
  <2>4. ~torn /\ InChain(rows) => report'.chained
    BY <2>3 DEF ChainVerifies
  <2>5. IsPrefix(report.begun, rows) /\ (~torn => report.counted = Len(report.begun))
    BY <1>1, <1>6 DEF AuditSteps
  <2>6. QED
    BY <1>1, <1>2, <2>1, <2>3, <2>4, <2>5 DEF ReportInv, ReportType, StrictPassMeansSigned, AuditAgrees,
       Answered, DoctorSteps, AuditSteps
<1>7. CASE AuditStep /\ step = "audit verify" /\ ~torn
  <2>1. /\ step' = "write"
        /\ report' = [report EXCEPT !.scanned = Len(rows), !.pass = VerifyPasses(TRUE \in Signed)]
    BY <1>7 DEF AuditStep, Write, AuditVerify
  <2>2. VerifyPasses(TRUE \in Signed) \in BOOLEAN /\ Len(rows) \in Nat
    <3>1. VerifyPasses(TRUE \in Signed) \in BOOLEAN
      BY Zenon DEF VerifyPasses
    <3>2. QED BY <1>1, <3>1, LenProperties
  <2>3. /\ report' \in all /\ report'.begun = report.begun /\ report'.counted = report.counted
        /\ report'.chained = report.chained /\ report'.scanned = Len(rows)
        /\ report'.pass = VerifyPasses(TRUE \in Signed)
    BY <1>1, <2>1, <2>2
  <2>4. Len(report.begun) <= Len(rows) /\ report.counted = Len(report.begun)
    <3>1. IsPrefix(report.begun, rows) /\ report.begun \in Seq(RowKind)
      BY <1>1, <1>7 DEF AuditSteps
    <3>2. QED BY <1>1, <1>7, <3>1, PrefixPointwise DEF AuditSteps
  <2>5. VerifyPasses(TRUE \in Signed) => report.chained
    BY <1>1, <1>7 DEF VerifyPasses
  <2>6. AuditAgrees'
    BY <2>3, <2>4, <2>5 DEF AuditAgrees
  <2>7. QED
    BY <1>1, <1>2, <1>3, <2>1, <2>3, <2>6 DEF ReportInv, ReportType, StrictPassMeansSigned, Answered,
       DoctorSteps, AuditSteps
<1>8. QED BY <1>4, <1>5, <1>6, <1>7 DEF AuditStep

LEMMA MinOfTwo ==
  ASSUME NEW a \in Nat, NEW b \in Nat
  PROVE  Min({a, b}) \in Nat
<1>1. \E x \in {a, b} : \A y \in {a, b} : x <= y
  OBVIOUS
<1>2. QED BY <1>1 DEF Min

LEMMA ReportStepInv == ServerInv /\ ReportInv /\ [Next]_vars => ReportInv'
<1> SUFFICES ASSUME ServerInv, ReportInv, [Next]_vars PROVE ReportInv'
  OBVIOUS
<1>1. /\ project \in Projects /\ torn \in BOOLEAN /\ rows \in Seq(RowKind)
      /\ report \in [counted : Nat, chained : BOOLEAN, scanned : Nat, pass : BOOLEAN,
                     checks : SUBSET (Check \X BOOLEAN), begun : Seq(RowKind)]
  BY DEF ReportInv, ReportType
<1>2. CASE Read \/ ReadNothing
  <2>1. ReportType' /\ step' \in {"read", "handle"}
    BY <1>1, <1>2 DEF Read, ReadNothing, Reading, Unmoved, ReportType
  <2>2. QED BY <2>1, NoReportClaimed DEF DoctorSteps, AuditSteps
<1>3. CASE WriteAnswer \/ WriteFails
  <2>1. NoReport \in [counted : Nat, chained : BOOLEAN, scanned : Nat, pass : BOOLEAN,
                      checks : SUBSET (Check \X BOOLEAN), begun : Seq(RowKind)]
    <3>1. <<>> \in Seq(RowKind)
      BY <1>1, EmptyPrefix
    <3>2. QED BY <3>1 DEF NoReport
  <2>2. ReportType' /\ step' = "read"
    BY <1>1, <1>3, <2>1 DEF WriteAnswer, WriteFails, Resume, Unmoved, ReportType
  <2>3. QED BY <2>2, NoReportClaimed DEF DoctorSteps, AuditSteps
<1>4. CASE Handle \/ HandleCall
  <2>1. ReportType'
    BY <1>1, <1>4 DEF Handle, HandleCall, Unmoved, ReportType
  <2>2. message \in Message /\ step = "handle"
    BY <1>4 DEF ServerInv, Handle, HandleCall
  <2>3. CASE Handle
    <3>1. message.method \in Methods \ {"tools/call"} /\ message.tool = "none"
      BY <2>2, <2>3, MessageShape DEF Handle, CallsTool
    <3>2. step' \in {"read", "write"} /\ (step' = "write" => message' = message)
      BY <2>3, <3>1 DEF Handle, Methods, Write, Resume
    <3>3. QED BY <2>1, <3>1, <3>2, NoReportClaimed DEF DoctorSteps, AuditSteps
  <2>4. CASE HandleCall
    <3>1. step' \in {"begin", "write"} /\ (step' = "write" => answer' # "result")
      BY <2>4 DEF HandleCall, Write, Goto
    <3>2. QED BY <2>1, <3>1, NoReportClaimed DEF DoctorSteps, AuditSteps
  <2>5. QED BY <1>4, <2>3, <2>4
<1>5. CASE UnknownTool \/ ListBegin \/ ListStep
  <2>1. ReportType'
    BY <1>1, <1>5 DEF UnknownTool, ListBegin, ListStep, Refuse, Fail, Unmoved, ReportType
  <2>2. /\ step' \in {"write", "list"} /\ message' = message
        /\ message.tool \notin {"doctor_report", "audit_report"}
    BY <1>5 DEF UnknownTool, ListBegin, ListStep, Tool, Refuse, Fail, Write, Goto, ServerInv
  <2>3. QED BY <2>1, <2>2, NoReportClaimed DEF DoctorSteps, AuditSteps
<1>6. CASE DoctorBegin \/ DoctorStep
  BY <1>6, DoctorKeepsReport
<1>7. CASE AuditBegin \/ AuditStep
  BY <1>7, AuditKeepsReport
<1>8. CASE DoctrineValidate
  <2>1. ReportType'
    BY <1>1, <1>8 DEF DoctrineValidate, Fail, Unmoved, ReportType
  <2>2. step' = "write" /\ message' = message /\ message.tool = "doctrine_validate"
    BY <1>8 DEF DoctrineValidate, Tool, Fail, Write
  <2>3. QED BY <2>1, <2>2, NoReportClaimed DEF DoctorSteps, AuditSteps
<1>9. CASE CloudeventsPreview
  <2>1. message \in Message
    BY <1>9 DEF CloudeventsPreview, Tool, ServerInv
  <2>2. PreviewLimit \subseteq Nat
    BY DEF PreviewLimit, ParseLimit
  <2>3. \A limit \in PreviewLimit : Min({limit, Len(rows)}) \in Nat
    <3>1. Len(rows) \in Nat
      BY <1>1, LenProperties
    <3>2. QED BY <2>2, <3>1, MinOfTwo
  <2>4. ReportType'
    BY <1>1, <1>9, <2>3 DEF CloudeventsPreview, Refuse, Fail, Unmoved, ReportType
  <2>5. step' = "write" /\ message' = message /\ message.tool = "cloudevents_preview"
    BY <1>9 DEF CloudeventsPreview, Tool, Refuse, Fail, Write
  <2>6. QED BY <2>4, <2>5, NoReportClaimed DEF DoctorSteps, AuditSteps
<1>10. CASE MemoryPrograms \/ LedgerPrograms \/ ReceiptPrograms \/ UNCHANGED vars
  <2>1. UNCHANGED <<project, report, step, message, answer>>
    BY <1>10 DEF MemoryPrograms, LedgerPrograms, ReceiptPrograms, AppendRow, BeginVerb, EmitReceipt,
       serverVars, vars
  <2>2. QED BY <1>1, <2>1, NextLedger, GrowthKeepsReport
<1>11. QED
  BY <1>2, <1>3, <1>4, <1>5, <1>6, <1>7, <1>8, <1>9, <1>10 DEF Next, HandleStep

-----------------------------------------------------------------------------
(* Listings, and the memory as a whole *)

ListingType == [left : SUBSET Ids, found : SUBSET Ids, limit : 0..100, whole : SUBSET Ids]

\* What was in one piece when the listing began has been found or is still to be read.
ListInv ==
  /\ step = "list" => listing.whole \subseteq listing.found \cup listing.left
  /\ ListComplete

LEMMA ListStepInv ==
  ASSUME ServerInv, listing \in ListingType, ListInv, [Next]_vars
  PROVE  listing' \in ListingType /\ ListInv'
<1>1. NoListing \in ListingType
  BY DEF NoListing, ListingType
<1>2. CASE ListBegin
  <2>1. CASE ListLimit = {}
    <3>1. listing' = listing /\ step' = "write" /\ answer' # "result"
      BY <1>2, <2>1 DEF ListBegin, Refuse, Write
    <3>2. QED BY <3>1 DEF ListInv, ListComplete, Answered
  <2>2. CASE ListLimit # {}
    <3>1. message \in Message
      BY <1>2 DEF ListBegin, Tool, ServerInv
    <3>2. ListLimit \subseteq 0..100
      BY DEF ListLimit, ParseLimit
    <3>3. PICK limit \in ListLimit : ListOpen(limit)
      BY <1>2, <2>2 DEF ListBegin
    <3>4. step' = "list"
      BY <1>2, <2>2 DEF ListBegin, Goto
    <3>5. listing' \in ListingType
      BY <3>2, <3>3 DEF ListOpen, ListingType
    <3>6. listing'.whole \subseteq listing'.found \cup listing'.left
      BY <3>3 DEF ListOpen, Readable, Unreadable
    <3>7. QED BY <3>4, <3>5, <3>6 DEF ListInv, ListComplete, Answered
  <2>3. QED BY <2>1, <2>2
<1>3. CASE ListStep /\ ListDone /\ Write("result") /\ UNCHANGED <<listing, report>>
  <2>1. step = "list" /\ step' = "write"
    BY <1>3 DEF ListStep, Write
  <2>2. Cardinality(listing.found) < listing.limit => listing.left = {}
    <3>1. listing.limit \in Nat
      BY DEF ListingType
    <3>2. QED BY <1>3, <3>1 DEF ListDone
  <2>3. ListComplete'
    BY <1>3, <2>1, <2>2 DEF ListComplete, ListInv
  <2>4. QED BY <1>3, <2>1, <2>3 DEF ListInv
<1>4. CASE ListStep /\ ListFails /\ Fail
  BY <1>4 DEF Fail, Write, ListInv, ListComplete, Answered
<1>5. CASE ListStep /\ ListNext /\ Goto("list")
  <2>1. PICK id \in Ids : listing' = [listing EXCEPT !.left = @ \ {id}, !.found = @ \cup {id}]
    BY <1>5 DEF ListNext
  <2>2. step = "list" /\ step' = "list"
    BY <1>5 DEF ListStep, Goto
  <2>3. /\ listing' \in ListingType /\ listing'.whole = listing.whole
        /\ listing'.left = listing.left \ {id} /\ listing'.found = listing.found \cup {id}
    BY <2>1 DEF ListingType
  <2>4. listing'.whole \subseteq listing'.found \cup listing'.left
    BY <2>2, <2>3 DEF ListInv
  <2>5. QED BY <2>2, <2>3, <2>4 DEF ListInv, ListComplete, Answered
\* The steps that leave a listing alone do not answer one either.
<1>6. CASE UNCHANGED listing /\ step' # "list" /\ ~Answered("candidate_memory_list")'
  BY <1>6 DEF ListInv, ListComplete
<1>7. CASE WriteAnswer \/ WriteFails
  BY <1>1, <1>7 DEF WriteAnswer, WriteFails, Resume, ListInv, ListComplete, Answered
<1>8. CASE UNCHANGED <<listing, step, message, answer>>
  BY <1>8 DEF ListInv, ListComplete, Answered
<1>9. CASE Read \/ ReadNothing
  BY <1>6, <1>9 DEF Read, ReadNothing, Reading, Answered
<1>10. CASE Handle \/ HandleCall
  <2>1. message \in Message /\ step = "handle"
    BY <1>10 DEF ServerInv, Handle, HandleCall
  <2>2. CASE Handle
    <3>1. message.method \in Methods \ {"tools/call"} /\ message.tool = "none"
      BY <2>1, <2>2, MessageShape DEF Handle, CallsTool
    <3>2. step' \in {"read", "write"} /\ (step' = "write" => message' = message)
      BY <2>2, <3>1 DEF Handle, Methods, Write, Resume
    <3>3. UNCHANGED listing
      BY <2>2 DEF Handle
    <3>4. QED BY <1>6, <3>1, <3>2, <3>3 DEF Answered
  <2>3. CASE HandleCall
    BY <1>6, <2>3 DEF HandleCall, Write, Goto, Answered
  <2>4. QED BY <1>10, <2>2, <2>3
<1>11. CASE \/ UnknownTool \/ DoctorBegin \/ DoctorStep \/ AuditBegin \/ AuditStep
            \/ DoctrineValidate \/ CloudeventsPreview
  <2>1. UNCHANGED listing /\ step' # "list" /\ message' = message
    BY <1>11 DEF UnknownTool, DoctorBegin, DoctorStep, AuditBegin, AuditStep, DoctrineValidate,
       CloudeventsPreview, Refuse, Fail, Write, Goto
  <2>2. message.tool # "candidate_memory_list"
    BY <1>11 DEF UnknownTool, DoctorBegin, DoctorStep, AuditBegin, AuditStep, DoctrineValidate,
       CloudeventsPreview, Tool, ServerInv, DoctorSteps, AuditSteps
  <2>3. QED BY <1>6, <2>1, <2>2 DEF Answered
<1>12. CASE MemoryPrograms \/ LedgerPrograms \/ ReceiptPrograms \/ UNCHANGED vars
  BY <1>8, <1>12 DEF MemoryPrograms, MemoryStep, LedgerPrograms, ReceiptPrograms, serverVars, vars
<1>13. QED
  BY <1>2, <1>3, <1>4, <1>5, <1>7, <1>9, <1>10, <1>11, <1>12 DEF Next, HandleStep, ListStep

LEMMA MemoryNextInv ==
  ASSUME ServerInv, MemoryInv, ListInv, [Next]_vars
  PROVE  MemoryInv' /\ ListInv'
<1>1. listing \in ListingType
  BY DEF MemoryInv, MemoryTypeOK, ListingType
<1>2. listing' \in ListingType /\ ListInv'
  BY <1>1, ListStepInv
<1>3. CASE MemoryPrograms
  BY <1>2, <1>3, MemoryStepInv DEF MemoryPrograms
<1>4. CASE ~MemoryPrograms
  <2>1. UNCHANGED memoryVars
    BY <1>4 DEF Next, Read, ReadNothing, WriteAnswer, WriteFails, HandleStep, Handle, HandleCall,
       UnknownTool, DoctorBegin, DoctorStep, AuditBegin, AuditStep, DoctrineValidate,
       CloudeventsPreview, ListBegin, ListStep, LedgerPrograms, ReceiptPrograms, Unmoved, vars
  <2>2. QED
    BY <1>2, <2>1 DEF MemoryInv, MemoryTypeOK, ListingType, CommandInv, AcceptedSound, memoryVars
<1>5. QED BY <1>3, <1>4

-----------------------------------------------------------------------------
(* The theorems *)

McpInv == ServerInv /\ MemoryInv /\ ListInv /\ ReceiptInv /\ ReportInv

LEMMA McpInitially == Init => McpInv
<1> SUFFICES ASSUME Init PROVE McpInv
  OBVIOUS
<1>1. /\ scene \in Scenes /\ initialized = FALSE /\ open = TRUE /\ step = "read"
      /\ message = NoMessage /\ answer = "none" /\ MemoryInit /\ ReportsInit
  BY DEF Init
<1>2. ServerInv
  BY <1>1 DEF ServerInv, Steps, Answers, DoctorSteps, AuditSteps
<1>3. MemoryInv /\ ListInv
  <2>1. Unreadable \cap Content = {}
    BY ContentAssumption DEF Unreadable
  <2>2. MemoryTypeOK
    BY <1>1, DeathsAssumption DEF MemoryInit, MemoryTypeOK, File, Unreadable, Resting, NoListing
  <2>3. CommandInv /\ AcceptedSound
    BY <1>1 DEF MemoryInit, CommandInv, AcceptedSound, Readable, Unreadable, Resting
  <2>4. ListInv
    BY <1>1 DEF ListInv, ListComplete, Answered
  <2>5. QED BY <2>2, <2>3, <2>4 DEF MemoryInv
<1>4. rows = <<>> /\ verb = Quiet /\ receipt = NoReceipt /\ torn = FALSE /\ report = NoReport
      /\ project \in Projects
  BY <1>1 DEF ReportsInit
<1>5. <<>> \in Seq(RowKind) /\ IsPrefix(<<>>, <<>>)
  <2>1. <<>> \in Seq(RowKind)
    OBVIOUS
  <2>2. QED BY <2>1, EmptyPrefix
<1>6. ReceiptInv
  BY <1>4, <1>5 DEF ReceiptInv, ReceiptCovers, Quiet, NoReceipt, Outcome
<1>7. ReportInv
  BY <1>1, <1>4, <1>5 DEF ReportInv, ReportType, NoReport, StrictPassMeansSigned, AuditAgrees,
     Answered, DoctorSteps, AuditSteps
<1>8. QED BY <1>2, <1>3, <1>6, <1>7 DEF McpInv

LEMMA McpStep == McpInv /\ [Next]_vars => McpInv'
<1> SUFFICES ASSUME McpInv, [Next]_vars PROVE McpInv'
  OBVIOUS
<1>1. torn \in BOOLEAN
  BY DEF McpInv, ReportInv, ReportType
<1>2. ServerInv' /\ ReceiptInv' /\ ReportInv'
  BY <1>1, ServerStepInv, ReceiptStepInv, ReportStepInv DEF McpInv
<1>3. MemoryInv' /\ ListInv'
  BY MemoryNextInv DEF McpInv
<1>4. QED BY <1>2, <1>3 DEF McpInv

LEMMA McpAlways == Spec => []McpInv
<1>1. QED BY McpInitially, McpStep, PTL DEF Spec

\* Accepted memory that is in one piece was validated, for any number of commands and
\* ids, though candidates are edited between the steps of a promotion (promote).
THEOREM AcceptedWasSound == Spec => []AcceptedSound
<1>1. McpInv => AcceptedSound
  BY DEF McpInv, MemoryInv
<1>2. QED BY <1>1, McpAlways, PTL

\* A listing shorter than its limit is complete for what was in one piece when it began
\* (list_candidates).
THEOREM ListingsComplete == Spec => []ListComplete
<1>1. McpInv => ListComplete
  BY DEF McpInv, ListInv
<1>2. QED BY <1>1, McpAlways, PTL

\* A strict doctor that passes a ledger found every row it began with signed and in the
\* chain, for a ledger of any length growing under it (doctor_with_options).
THEOREM StrictDoctorSound == Spec => []StrictPassMeansSigned
<1>1. McpInv => StrictPassMeansSigned
  BY DEF McpInv, ReportInv
<1>2. QED BY <1>1, McpAlways, PTL

\* An audit report counts no row it has not verified, and passes no ledger whose chain it
\* found broken (audit, and the audit_report tool).
THEOREM AuditConsistent == Spec => []AuditAgrees
<1>1. McpInv => AuditAgrees
  BY DEF McpInv, ReportInv
<1>2. QED BY <1>1, McpAlways, PTL

\* The input a receipt names begins with what the command verified or exported, and an ok
\* verification had a valid chain (emit_receipt, emit_export_receipt).
THEOREM ReceiptsCover == Spec => []ReceiptCovers
<1>1. McpInv => ReceiptCovers
  BY DEF McpInv, ReceiptInv
<1>2. QED BY <1>1, McpAlways, PTL

\* Every variable has its type, whatever the client sends and however long the ledger: in
\* particular a limit outside 1..100 never reaches a listing (parse_limit).
THEOREM ServerTypes == Spec => []TypeOK
<1> DEFINE Receipts == [operation : {"none", "audit verify", "export"}, read : Seq(RowKind),
                        input : Seq(RowKind), outcome : Outcome]
           RestInv == receipt \in Receipts /\ (step = "read" <=> message = NoMessage)
<1>1. Init => RestInv
  <2> SUFFICES ASSUME Init PROVE RestInv
    OBVIOUS
  <2>1. <<>> \in Seq(RowKind)
    OBVIOUS
  <2>2. QED BY <2>1 DEF Init, ReportsInit, NoReceipt, Outcome
<1>2. McpInv /\ RestInv /\ [Next]_vars => RestInv'
  <2> SUFFICES ASSUME McpInv, RestInv, [Next]_vars PROVE RestInv'
    OBVIOUS
  <2>1. rows \in Seq(RowKind) /\ ServerInv /\ ServerInv'
    BY ServerStepInv DEF McpInv, ReceiptInv
  <2>2. step' = "read" <=> message' = NoMessage
    BY <2>1, MessagesAssumption DEF ServerInv
  <2>3. CASE ReceiptPrograms /\ EmitReceipt
    <3>1. receipt' = [operation |-> verb.operation, read |-> verb.read, input |-> rows,
                      outcome |-> verb.outcome]
      BY <2>3 DEF EmitReceipt
    <3>2. receipt' \in Receipts
      BY <2>1, <3>1 DEF McpInv, ReceiptInv
    <3>3. QED BY <2>2, <3>2
  <2>4. CASE ~(ReceiptPrograms /\ EmitReceipt)
    <3>1. UNCHANGED receipt
      BY <2>4 DEF Next, Read, ReadNothing, WriteAnswer, WriteFails, HandleStep, Handle, HandleCall,
         UnknownTool, DoctorBegin, DoctorStep, AuditBegin, AuditStep, DoctrineValidate,
         CloudeventsPreview, ListBegin, ListStep, MemoryPrograms, LedgerPrograms, ReceiptPrograms,
         AppendRow, BeginVerb, verbVars, Unmoved, vars
    <3>2. QED BY <2>2, <3>1
  <2>5. QED BY <2>3, <2>4
<1>3. McpInv /\ RestInv => TypeOK
  <2> SUFFICES ASSUME McpInv, RestInv PROVE TypeOK
    OBVIOUS
  <2>1. ServerInv /\ MemoryTypeOK /\ ReceiptInv /\ ReportType
    BY DEF McpInv, MemoryInv, ReportInv
  <2>2. ReportsTypeOK
    BY <2>1 DEF ReportsTypeOK, ReportType, ReceiptInv
  <2>3. QED BY <2>1, <2>2, MessagesAssumption DEF TypeOK, ServerInv, Answers
<1>4. QED BY <1>1, <1>2, <1>3, McpAlways, PTL DEF Spec
=============================================================================
