----------------------------- MODULE McpServer -----------------------------
(***************************************************************************)
(* corcept serve (corcept-cli/src/mcp.rs): a server that reads one message  *)
(* after the other from its client and answers with reports on a project    *)
(* whose memory and ledger other programs change while it reads them.       *)
(***************************************************************************)
EXTENDS ProjectMemory, ProjectReports

CONSTANTS
  Scenes,    \* who takes part in a run: programs besides the server, the commands of
             \* the memory among them, the messages the client sends, and the project
  Numbers,   \* the numbers a client gives as a limit
  NoMessage  \* no message is being handled

ASSUME NumbersAssumption == Numbers \subseteq Int
ASSUME ScenesAssumption ==
  \A s \in Scenes : /\ s.programs \subseteq {"memory", "ledger", "verbs"}
                    /\ s.commands \subseteq Proc /\ s.projects \subseteq Projects

VARIABLES
  scene,        \* the one that is played
  initialized,
  open,         \* the server has not ended
  step,         \* "read", a step of the message or of its tool, or "write"
  message,      \* the message being handled
  answer        \* the answer about to be written

serverVars == <<scene, initialized, open, step, message, answer>>
vars == <<serverVars, memoryVars, listing, project, rows, torn, report, verb, receipt>>

-----------------------------------------------------------------------------
(* Messages: method is the string of that name, if the line is JSON and has it *)

Absent == [type |-> "absent", value |-> 0]
Flag == {Absent, [type |-> "other", value |-> 0]} \cup [type : {"bool"}, value : {0, 1}]
Limit == {Absent, [type |-> "other", value |-> 0]} \cup [type : {"number"}, value : Numbers]

Methods == {"not JSON", "none", "initialize", "notifications/initialized", "tools/list",
            "tools/call", "other"}

\* A tool is "none" where params is no object or holds no string name; `object` says
\* that arguments is an object or absent.
Sent(methods, tools, object, arguments) ==
  [method : methods, tool : tools, object : {object}, arguments : arguments]
Calls(tools, arguments) == Sent({"tools/call"}, tools, TRUE, arguments)

Arguments(strict, validate_perms, signed, limit) ==
  [strict : strict, validate_perms : validate_perms, signed : signed, limit : limit]
Unset == {Absent}
NoArguments == Arguments(Unset, Unset, Unset, Unset)

Message ==
  UNION {Sent(Methods, {"none"}, TRUE, NoArguments),
         Sent({"tools/call"}, {"doctor_report"}, FALSE, NoArguments),
         Calls({"doctrine_validate", "unknown"}, NoArguments),
         Calls({"doctor_report"}, Arguments(Flag, Flag, Unset, Unset)),
         Calls({"audit_report"}, Arguments(Unset, Unset, Flag, Unset)),
         Calls({"candidate_memory_list", "cloudevents_preview"},
               Arguments(Unset, Unset, Unset, Limit))}

ASSUME MessagesAssumption ==
  NoMessage \notin Message /\ \A s \in Scenes : s.messages \subseteq Message

\* What a parser finds: the one value, or nothing where it answers an error.
ParseBool(v) ==
  IF v = Absent THEN {FALSE} ELSE IF v.type = "bool" THEN {v.value = 1} ELSE {}

ParseLimit(v, default) ==
  IF v = Absent THEN {default} ELSE IF v.type = "number" THEN {v.value} \cap 1..100 ELSE {}

-----------------------------------------------------------------------------
Init ==
  /\ scene \in Scenes
  /\ initialized = FALSE /\ open = TRUE
  /\ step = "read" /\ message = NoMessage /\ answer = "none"
  /\ MemoryInit /\ ReportsInit /\ project \in scene.projects

Unmoved == UNCHANGED <<scene, memoryVars, project, rows, torn, verb, receipt>>
Reading == step = "read" /\ open

Goto(s) == step' = s /\ UNCHANGED <<scene, initialized, open, message, answer>>
Write(what) == step' = "write" /\ answer' = what /\ UNCHANGED <<scene, initialized, open, message>>

\* The tool begins with its step s, and v is what it has read so far.
Tool(name) == step = "begin" /\ message.tool = name
Refuse == Write("invalid_arguments") /\ UNCHANGED <<listing, report>>
Fail == Write("-32603") /\ UNCHANGED <<listing, report>>

-----------------------------------------------------------------------------
(* serve, read_transport_message and write_transport_message *)

\* A line, or a frame that is in the buffer from its header on.  A frame of which less
\* has arrived is read as lines: its header is a line that is not JSON.
Read ==
  /\ Reading
  /\ \E m \in scene.messages : message' = m
  /\ step' = "handle"
  /\ UNCHANGED <<scene, initialized, open, answer, listing, report>> /\ Unmoved

\* The end of the input, or a frame without a sound header or without all of its body:
\* read_transport_message gives None or Err, and serve ends.
ReadNothing ==
  /\ Reading /\ scene.messages # {}
  /\ open' = FALSE
  /\ UNCHANGED <<scene, initialized, step, message, answer, listing, report>> /\ Unmoved

Resume == step' = "read" /\ message' = NoMessage /\ answer' = "none"

WriteAnswer ==
  /\ step = "write"
  /\ Resume /\ listing' = NoListing /\ report' = NoReport
  /\ UNCHANGED <<initialized, open>> /\ Unmoved

\* The client does not read any more.
WriteFails ==
  /\ step = "write" /\ open
  /\ open' = FALSE /\ Resume /\ listing' = NoListing /\ report' = NoReport
  /\ UNCHANGED initialized /\ Unmoved

-----------------------------------------------------------------------------
(* handle_message and handle_request *)

CallsTool == message.method = "tools/call"

Handle ==
  /\ step = "handle" /\ ~CallsTool
  /\ CASE message.method = "not JSON" -> Write("-32700")
       [] message.method = "none" -> Write("-32600")
       [] message.method = "initialize" ->
            step' = "write" /\ answer' = "result" /\ initialized' = TRUE
            /\ UNCHANGED <<open, message>>
       [] message.method = "notifications/initialized" -> Resume /\ UNCHANGED <<initialized, open>>
       [] message.method = "tools/list" -> Write(IF initialized THEN "result" ELSE "-32603")
       [] message.method = "other" -> Write("-32601")
  /\ UNCHANGED <<listing, report>> /\ Unmoved

HandleCall ==
  /\ step = "handle" /\ CallsTool
  /\ IF ~initialized \/ message.tool = "none" THEN Write("-32603")
     ELSE IF ~message.object THEN Write("invalid_arguments")
     ELSE Goto("begin")
  /\ UNCHANGED <<listing, report>> /\ Unmoved

UnknownTool == Tool("unknown") /\ Fail /\ Unmoved

-----------------------------------------------------------------------------
(* doctor_report *)

Strict == ParseBool(message.arguments.strict)
ValidatePerms == ParseBool(message.arguments.validate_perms)

DoctorBegin ==
  /\ Tool("doctor_report")
  /\ IF Strict = {} \/ ValidatePerms = {} THEN Refuse
     ELSE Goto("doctor chain") /\ DoctorFiles /\ UNCHANGED listing
  /\ Unmoved

DoctorStep ==
  /\ \/ step = "doctor chain" /\ DoctorChain
        /\ Goto(IF TRUE \in Strict THEN "doctor schema" ELSE "doctor perms")
     \/ step = "doctor schema" /\ DoctorSchema /\ Goto("doctor signing")
     \/ step = "doctor signing" /\ DoctorSigning /\ Goto("doctor perms")
     \/ step = "doctor perms" /\ Write("result")
        /\ IF TRUE \in ValidatePerms THEN DoctorPerms ELSE UNCHANGED report
  /\ UNCHANGED listing /\ Unmoved

-----------------------------------------------------------------------------
(* audit_report *)

Signed == ParseBool(message.arguments.signed)

AuditBegin ==
  /\ Tool("audit_report")
  /\ IF Signed = {} THEN Refuse ELSE Goto("audit chain") /\ AuditRead /\ UNCHANGED listing
  /\ Unmoved

AuditStep ==
  /\ \/ step = "audit chain" /\ AuditChain /\ Goto("audit verify") /\ UNCHANGED listing
     \/ step = "audit verify" /\ torn /\ Fail
     \/ step = "audit verify" /\ ~torn /\ AuditVerify(TRUE \in Signed) /\ Write("result")
        /\ UNCHANGED listing
  /\ Unmoved

-----------------------------------------------------------------------------
(* doctrine_validate and cloudevents_preview: one read each *)

DoctrineValidate ==
  /\ Tool("doctrine_validate")
  /\ IF project.doctrine = "unreadable" THEN Fail
     ELSE Write("result") /\ report' = [report EXCEPT !.pass = (project.doctrine = "valid")]
          /\ UNCHANGED listing
  /\ Unmoved

PreviewLimit == ParseLimit(message.arguments.limit, 10)

CloudeventsPreview ==
  /\ Tool("cloudevents_preview")
  /\ IF PreviewLimit = {} THEN Refuse
     ELSE IF torn THEN Fail
     ELSE /\ \E limit \in PreviewLimit :
               report' = [report EXCEPT !.counted = Min({limit, Len(rows)}), !.begun = rows]
          /\ Write("result") /\ UNCHANGED listing
  /\ Unmoved

-----------------------------------------------------------------------------
(* candidate_memory_list *)

ListLimit == ParseLimit(message.arguments.limit, 20)

ListBegin ==
  /\ Tool("candidate_memory_list")
  /\ IF ListLimit = {} THEN Refuse
     ELSE /\ \E limit \in ListLimit : ListOpen(limit)
          /\ Goto("list") /\ UNCHANGED report
  /\ Unmoved

\* Mutant of ListStep: the error of one file ends the server.
ListStepFatal ==
  /\ step = "list" /\ open
  /\ \/ ListDone /\ Write("result") /\ UNCHANGED <<listing, report>>
     \/ ListFails /\ open' = FALSE
        /\ UNCHANGED <<initialized, step, message, answer, listing, report>>
     \/ ListNext /\ Goto("list") /\ UNCHANGED report
  /\ Unmoved

ListStep ==
  /\ step = "list"
  /\ \/ ListDone /\ Write("result") /\ UNCHANGED <<listing, report>>
     \/ ListFails /\ Fail
     \/ ListNext /\ Goto("list") /\ UNCHANGED report
  /\ Unmoved

-----------------------------------------------------------------------------
HandleStep ==
  \/ Handle \/ HandleCall \/ UnknownTool
  \/ DoctorBegin \/ DoctorStep \/ AuditBegin \/ AuditStep
  \/ DoctrineValidate \/ CloudeventsPreview \/ ListBegin \/ ListStep

MemoryPrograms ==
  /\ "memory" \in scene.programs /\ MemoryStep
  /\ \A p \in Proc \ scene.commands : command'[p] = command[p]
  /\ UNCHANGED <<serverVars, project, rows, torn, report, verb, receipt>>

LedgerPrograms ==
  /\ "ledger" \in scene.programs /\ AppendRow
  /\ UNCHANGED <<serverVars, memoryVars, listing>>

ReceiptPrograms ==
  /\ "verbs" \in scene.programs /\ (BeginVerb \/ EmitReceipt)
  /\ UNCHANGED <<serverVars, memoryVars, listing>>

Next ==
  \/ Read \/ ReadNothing \/ WriteAnswer \/ WriteFails \/ HandleStep
  \/ MemoryPrograms \/ LedgerPrograms \/ ReceiptPrograms

\* The server runs on as long as it has a message; the others may stop anywhere.
Spec == Init /\ [][Next]_vars /\ WF_vars(HandleStep)

-----------------------------------------------------------------------------
Steps ==
  {"read", "handle", "begin", "doctor chain", "doctor schema", "doctor signing", "doctor perms",
   "audit chain", "audit verify", "list", "write"}

\* Every variable has its type.
TypeOK ==
  /\ scene \in Scenes /\ initialized \in BOOLEAN /\ open \in BOOLEAN /\ step \in Steps
  /\ message \in Message \cup {NoMessage}
  /\ answer \in {"none", "result", "invalid_arguments", "-32700", "-32600", "-32601", "-32603"}
  /\ (message = NoMessage) = (step = "read")
  /\ MemoryTypeOK /\ ReportsTypeOK

Answered(tool) == step = "write" /\ answer = "result" /\ message.tool = tool

\* A message that wants an answer is answered, whichever read of its tool fails because
\* a file is half written: no error of a tool ends the server.
MessagesAnswered ==
  step = "handle" /\ message.method # "notifications/initialized" ~> step = "write"

\* Whatever is proposed, edited and promoted at once, and whoever dies at it: an accepted
\* memory that is in one piece passed validate_candidate.
AcceptedSound == \A id \in Ids : Readable(accepted[id]) => accepted[id].sound

\* A listing that answers fewer candidates than its limit has left out none that was in
\* one piece when it began.
ListComplete ==
  Answered("candidate_memory_list") /\ Cardinality(listing.found) < listing.limit =>
    listing.whole \subseteq listing.found

\* Strict doctor passes only a ledger whose rows were all signed and in the chain when it
\* began, though it reads them three times while they are appended.
StrictPassMeansSigned ==
  Answered("doctor_report") /\ TRUE \in Strict /\ DoctorStatus(TRUE) = "pass" =>
    InChain(report.begun) /\ AllSigned(report.begun)

\* The three reads of an audit report agree: it counts no row that it does not verify,
\* and a ledger it passes had a valid chain when it looked.
AuditAgrees ==
  Answered("audit_report") =>
    /\ report.counted = Len(report.begun) /\ report.counted <= report.scanned
    /\ report.pass => report.chained

\* What was verified or exported is a part of the input a receipt names (rows appended
\* since are in the input and were not verified), and a verification recorded as ok
\* passed the chain of that part.
ReceiptCovers ==
  /\ IsPrefix(receipt.read, receipt.input)
  /\ receipt.operation = "audit verify" /\ receipt.outcome = "ok" => InChain(receipt.read)
=============================================================================
