---------------------------- MODULE MCMcpServer ----------------------------
(* Every message, in a project that stays as it is; listings next to a command of the     *)
(* memory; two of its commands at once; reports next to appends; and the commands that     *)
(* sign receipts.                                                                          *)
EXTENDS McpServer

MCNumbers == {-1, 0, 1, 100, 101}

Sound == [files |-> TRUE, doctrine |-> "valid", perms |-> TRUE]
Wanting == [files |-> FALSE, doctrine |-> "warnings", perms |-> FALSE]
Unloadable == [files |-> TRUE, doctrine |-> "unreadable", perms |-> TRUE]
MCProjects == {Sound, Wanting, Unloadable}

Start == {m \in Message : m.method = "initialize"}
Previews == {m \in Message : m.tool = "cloudevents_preview" /\ m.arguments.limit = Absent}
Listings == {m \in Message :
               /\ m.tool = "candidate_memory_list"
               /\ m.arguments.limit \in {Absent, [type |-> "number", value |-> 1]}}
Reports == {m \in Message : /\ m.tool \in {"doctor_report", "audit_report"} /\ m.object
                           /\ m.arguments.validate_perms = Absent
                           /\ m.arguments.strict.type # "other" /\ m.arguments.signed.type # "other"}

CONSTANTS p1, p2

Scene(programs, commands, messages, projects) ==
  [programs |-> programs, commands |-> commands, messages |-> messages, projects |-> projects]

MCScenes ==
  {Scene({}, {}, Message, MCProjects),
   Scene({"memory"}, {p1}, Start \cup Listings, {Sound}),
   Scene({"memory"}, {p1, p2}, {}, {Sound}),
   Scene({"ledger"}, {}, Start \cup Previews \cup Reports, {Sound, Wanting}),
   Scene({"ledger", "verbs"}, {}, {}, {Sound})}
=============================================================================
