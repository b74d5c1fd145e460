---------------------------- MODULE AgentProofs -----------------------------
(***************************************************************************)
(* Proofs about AgentSystem, for any calls, outputs and sizes of the pipe: *)
(* the types, no program is left behind but by an upgrade that cannot send *)
(* a line (NoStrayChild), none is broken but by a client that leaves one   *)
(* (BrokenOnlyByLeaver), and a result is told once, last and truly         *)
(* (ResultTold, UpgradeTold), and the whole implements the                 *)
(* abstract agent of AgentPromise (AgentKeepsPromise).                     *)
(***************************************************************************)
EXTENDS AgentSystem, SequenceTheorems, TLAPS

-----------------------------------------------------------------------------
(* What a call's step leaves alone *)

\* Everything about a call is as it was, but for the locks it holds.
Same(d) ==
  /\ method'[d] = method[d] /\ pc'[d] = pc[d] /\ out'[d] = out[d] /\ result'[d] = result[d]
  /\ child'[d] = child[d] /\ todo'[d] = todo[d] /\ pipe'[d] = pipe[d]
  /\ exits'[d] = exits[d] /\ wrote'[d] = wrote[d] /\ plan'[d] = plan[d]
  /\ (d \in clients' <=> d \in clients) /\ (d \in open' <=> d \in open)

\* A client calls, or leaves.
Visits(c) == (Invoke(c) \/ Leave(c)) /\ UNCHANGED childVars /\ Keeps

\* A call that waits for its request goes on or is over, and nothing else changes.
Asks(c) == (Requests(c) \/ RequestLost(c)) /\ UNCHANGED childVars /\ Keeps

LEMMA Asking ==
  ASSUME NEW c \in Calls, Asks(c)
  PROVE  /\ At(c, "request", Methods) /\ UNCHANGED childVars /\ Keeps
         /\ (c \in clients /\ Goes(c, "start")) \/ Ends(c, "unread", << >>)
BY DEF Asks, Requests, RequestLost, PackageRequest, ProcessRequest, ServiceRequest, StreamRequest,
            DockerRequest, Receives, At, Methods, Unary

LEMMA PackagesFrame ==
  ASSUME AgentTypeOK, NEW c \in Calls, PackageSteps(c), Keeps
  PROVE  \A d \in Calls \ {c} : Same(d)
<1> USE DEF AgentTypeOK, Same, Goes, Ends, Unsent, Sends, Spawns, Kills, Reads, childVars, Keeps
<1>1. CASE RunCommand(c)
  BY <1>1 DEF RunCommand
<1>2. CASE CommandDone(c)
  BY <1>2 DEF CommandDone
<1>3. CASE StartPhase(c)
  BY <1>3 DEF StartPhase
<1>4. CASE ScanUpgrade(c)
  BY <1>4 DEF ScanUpgrade
<1>5. CASE CheckUpgrade(c)
  BY <1>5 DEF CheckUpgrade
<1>6. CASE SendUpgrade(c)
  BY <1>6 DEF SendUpgrade
<1>7. CASE ScanEnds(c)
  BY <1>7 DEF ScanEnds
<1>8. CASE WaitUpgrade(c)
  BY <1>8 DEF WaitUpgrade
<1> QED BY <1>1, <1>2, <1>3, <1>4, <1>5, <1>6, <1>7, <1>8 DEF PackageSteps
LEMMA StreamsFrame ==
  ASSUME AgentTypeOK, NEW c \in Calls, StreamSteps(c) \/ LogsEnd(c) \/ StatsUnsent(c)
  PROVE  \A d \in Calls \ {c} : Same(d)
<1> USE DEF AgentTypeOK, Same, Goes, Ends, Unsent, Sends, Spawns, Kills, Reads, childVars, Keeps
<1>1. CASE StartJournal(c)
  BY <1>1 DEF StartJournal
<1>2. CASE ScanJournal(c)
  BY <1>2 DEF ScanJournal, JournalEnds
<1>3. CASE SendJournal(c)
  BY <1>3 DEF SendJournal, JournalEnds
<1>4. CASE CheckJournal(c)
  BY <1>4 DEF CheckJournal, JournalEnds
<1>5. CASE OpenLogs(c)
  BY <1>5 DEF OpenLogs
<1>6. CASE SendEntry(c)
  BY <1>6 DEF SendEntry
<1>7. CASE LogsLeft(c)
  BY <1>7 DEF LogsLeft
<1>8. CASE StartTool(c)
  BY <1>8 DEF StartTool
<1>9. CASE ToolDone(c)
  BY <1>9 DEF ToolDone
<1>10. CASE TellNext(c)
  BY <1>10 DEF TellNext
<1>11. CASE StatsEnds(c)
  BY <1>11 DEF StatsEnds
<1>12. CASE Command(c)
  BY <1>12 DEF Command
<1>13. CASE LogsEnd(c) \/ StatsUnsent(c)
  BY <1>13 DEF LogsEnd, StatsUnsent
<1> QED BY <1>1, <1>2, <1>3, <1>4, <1>5, <1>6, <1>7, <1>8, <1>9, <1>10, <1>11, <1>12, <1>13 DEF StreamSteps

LEMMA OthersFrame ==
  ASSUME AgentTypeOK, NEW c \in Calls, Programs(c) \/ Failures(c) \/ Visits(c) \/ Asks(c)
  PROVE  \A d \in Calls \ {c} : Same(d)
<1> USE DEF AgentTypeOK, Same, callVars, childVars, Keeps, Exits
<1>1. CASE Programs(c)
  BY <1>1 DEF Programs, ChildSteps, ChildBegins, ChildWrites, ChildFinishes, Collect
<1>2. CASE Failures(c)
  BY <1>2 DEF Failures, ChildFails
<1>3. CASE Visits(c)
  BY <1>3 DEF Visits, Invoke, Leave
<1>4. CASE Asks(c)
  <2>1. UNCHANGED childVars /\ Keeps
    BY <1>4, Asking
  <2>2. CASE Goes(c, "start")
    BY <2>1, <2>2 DEF Goes
  <2>3. CASE Ends(c, "unread", << >>)
    BY <2>1, <2>3 DEF Ends
  <2> QED BY <1>4, <2>2, <2>3, Asking
<1> QED BY <1>1, <1>2, <1>3, <1>4

\* The steps of a call.
Step(c) == HandlerSteps(c) \/ LogsEnd(c) \/ StatsUnsent(c) \/ Programs(c) \/ Failures(c) \/ Clients(c)

\* The same, the steps of a call that waits for its request apart.
LEMMA StepCases ==
  ASSUME NEW c \in Calls, Step(c)
  PROVE  \/ PackageSteps(c) /\ Keeps
         \/ StreamSteps(c) \/ LogsEnd(c) \/ StatsUnsent(c)
         \/ Programs(c) \/ Failures(c) \/ Asks(c) \/ Visits(c)
BY DEF Step, HandlerSteps, Clients, Asks, Visits

LEMMA Frame ==
  ASSUME AgentTypeOK, NEW c \in Calls, Step(c)
  PROVE  \A d \in Calls \ {c} : Same(d)
BY StepCases, PackagesFrame, StreamsFrame, OthersFrame

LEMMA ProcessFrame ==
  ASSUME Process \/ UNCHANGED vars
  PROVE  (\A d \in Calls : Same(d)) /\ UNCHANGED <<clients, locks, db>>
BY DEF Process, Listen, NewDockerService, Signal, Stopped, vars, callVars, childVars, Keeps, Same

-----------------------------------------------------------------------------
(* Types *)

Phases == {"idle", "request", "start", "run", "scan", "check", "send", "wait", "read", "tell", "over"}

CallTypes ==
  /\ agent \in {"new", "serving", "draining", "gone"} /\ docker \in BOOLEAN
  /\ method \in [Calls -> Methods \cup {"none"}] /\ pc \in [Calls -> Phases]
  /\ clients \subseteq Calls /\ out \in [Calls -> Seq(Messages)] /\ result \in [Calls -> Results]

ChildTypes ==
  /\ open \subseteq Calls
  /\ child \in [Calls -> {"none", "starting", "running", "ok", "failed"}]
  /\ todo \in [Calls -> Seq(Lines)] /\ pipe \in [Calls -> Seq(Lines)]
  /\ wrote \in [Calls -> Seq(Lines)] /\ exits \in [Calls -> Seq({"ok", "failed"})]
  /\ locks \in [Locks -> Calls \cup {None}] /\ db \in {"sound", "broken"}

PlanTypes == plan \in [Calls -> Seq(Messages)]

LEMMA Parts ==
  /\ AgentTypeOK <=> CallTypes /\ ChildTypes /\ PlanTypes
  /\ AgentTypeOK' <=> CallTypes' /\ ChildTypes' /\ PlanTypes'
BY DEF AgentTypeOK, CallTypes, ChildTypes, PlanTypes, Phases

\* The steps of a handler leave its call typed, whatever it sends or ends with.
LEMMA GoesType ==
  ASSUME CallTypes, NEW c \in Calls, NEW p \in Phases, Goes(c, p)
  PROVE  CallTypes'
BY DEF CallTypes, Goes

LEMMA SendsType ==
  ASSUME CallTypes, NEW c \in Calls, NEW m \in Messages, NEW p \in Phases, Sends(c, m, p)
  PROVE  CallTypes'
BY DEF CallTypes, Sends

LEMMA EndsType ==
  ASSUME CallTypes, NEW c \in Calls, NEW r \in Results, NEW told \in Seq(Messages), Ends(c, r, told)
  PROVE  CallTypes'
<1>1. out[c] \o told \in Seq(Messages)
  BY ConcatProperties DEF CallTypes
<1> QED BY <1>1 DEF CallTypes, Ends, Phases

LEMMA UnsentType ==
  ASSUME CallTypes, NEW c \in Calls, Unsent(c)
  PROVE  CallTypes'
BY EndsType, EmptySeq DEF Unsent, Results

LEMMA SpawnsType ==
  ASSUME ChildTypes, NEW c \in Calls, NEW piped \in BOOLEAN, Spawns(c, piped)
  PROVE  ChildTypes'
<1>1. PICK t \in IF piped THEN Outputs ELSE {<< >>} : todo' = [todo EXCEPT ![c] = t]
  BY DEF Spawns
<1>2. t \in Seq(Lines) /\ << >> \in Seq(Lines)
  BY <1>1, OutputsAssumption, EmptySeq
<1> QED BY <1>1, <1>2 DEF ChildTypes, Spawns

LEMMA KillsType ==
  ASSUME ChildTypes, NEW c \in Calls, Kills(c)
  PROVE  ChildTypes'
<1>1. Released(c) \in [Locks -> Calls \cup {None}]
  BY DEF ChildTypes, Released
<1>2. Append(exits[c], "failed") \in Seq({"ok", "failed"})
  BY DEF ChildTypes
<1>3. CASE Alive(c)
  BY <1>1, <1>2, <1>3 DEF ChildTypes, Kills
<1>4. CASE ~Alive(c)
  BY <1>4 DEF ChildTypes, Kills, childVars
<1> QED BY <1>3, <1>4

LEMMA ReadsType ==
  ASSUME ChildTypes, NEW c \in Calls, Reads(c)
  PROVE  ChildTypes'
BY DEF ChildTypes, Reads

\* The messages a handler ends with.
LEMMA Tellings ==
  /\ << >> \in Seq(Messages) /\ <<"success">> \in Seq(Messages) /\ <<"failure">> \in Seq(Messages)
  /\ {"line", "success", "failure"} \subseteq Messages
  /\ {"ok", "error", "nopipe", "unsent", "unread", "unimplemented"} \subseteq Results
BY EmptySeq DEF Messages, Results

LEMMA PackageTypes ==
  ASSUME AgentTypeOK, NEW c \in Calls, PackageSteps(c), Keeps
  PROVE  AgentTypeOK'
<1> USE Parts, Tellings
<1>0. PlanTypes'
  BY DEF PlanTypes, Keeps
<1> SUFFICES CallTypes' /\ ChildTypes'
  BY <1>0
<1>1. ASSUME UNCHANGED childVars PROVE ChildTypes'
  BY <1>1 DEF childVars, ChildTypes
<1>2. CASE RunCommand(c)
  BY <1>1, <1>2, GoesType, EndsType, SpawnsType DEF RunCommand, Phases
<1>3. CASE CommandDone(c)
  <2>1. Unsent(c) \/ \E told \in {<<"success">>, <<"failure">>} : Ends(c, "ok", told)
    BY <1>3 DEF CommandDone
  <2> QED BY <1>1, <1>3, <2>1, EndsType, UnsentType DEF CommandDone
<1>4. CASE StartPhase(c)
  BY <1>1, <1>4, GoesType, EndsType, SpawnsType DEF StartPhase, Phases
<1>5. CASE ScanUpgrade(c)
  BY <1>5, GoesType, ReadsType DEF ScanUpgrade, Phases
<1>6. CASE CheckUpgrade(c)
  BY <1>1, <1>6, GoesType, EndsType, KillsType DEF CheckUpgrade, Phases
<1>7. CASE SendUpgrade(c)
  BY <1>1, <1>7, SendsType, UnsentType DEF SendUpgrade, Phases
<1>8. CASE ScanEnds(c)
  BY <1>1, <1>8, GoesType, ReadsType DEF ScanEnds, Phases
<1>9. CASE WaitUpgrade(c)
  <2>1. ChildTypes'
    BY <1>9, EmptySeq DEF WaitUpgrade, ChildTypes
  <2>2. \/ Goes(c, "start") \/ Unsent(c)
        \/ \E r \in {"ok", "error"}, told \in {<<"success">>, <<"failure">>} : Ends(c, r, told)
    BY <1>9 DEF WaitUpgrade
  <2> QED BY <2>1, <2>2, GoesType, EndsType, UnsentType DEF Phases
<1> QED BY <1>2, <1>3, <1>4, <1>5, <1>6, <1>7, <1>8, <1>9 DEF PackageSteps

\* The plans of the tools: lines, and a last message that is a result.
Told(p) ==
  /\ p \in Seq(Messages) /\ p # << >> /\ p[Len(p)] \in Final
  /\ \A i \in 1 .. Len(p) : i < Len(p) => p[i] = "line"

Some == {[i \in 1 .. n |-> "line"] : n \in 0 .. MaxLines}

LEMMA SomeLines ==
  ASSUME NEW s \in Some
  PROVE  /\ s \in Seq(Messages) /\ \A i \in 1 .. Len(s) : s[i] = "line"
         /\ Append(s, "line") \in Seq(Messages)
         /\ \A i \in 1 .. Len(Append(s, "line")) : Append(s, "line")[i] = "line"
<1>1. PICK n \in 0 .. MaxLines : s = [i \in 1 .. n |-> "line"]
  BY DEF Some
<1>2. s \in Seq(Messages) /\ Len(s) = n
  BY <1>1, PipeAssumption DEF Messages
<1> QED BY <1>1, <1>2, AppendProperties DEF Messages

LEMMA PlansTold ==
  ASSUME NEW m \in Tools, NEW p \in Plans(m)
  PROVE  Told(p)
<1> USE DEF Messages, Final
<1>1. CASE m = "ScanPorts"
  <2>1. p = [i \in 1 .. PortCount |-> IF i = PortCount THEN "success" ELSE "line"]
    BY <1>1 DEF Plans
  <2>2. p \in Seq(Messages) /\ Len(p) = PortCount
    BY <2>1, PortAssumption
  <2> QED BY <2>1, <2>2, PortAssumption DEF Told
<1>2. CASE m = "StreamPackageOperation"
  <2>1. p = <<"line", "success">>
    BY <1>2 DEF Plans
  <2> QED BY <2>1 DEF Told
<1>3. CASE m = "TestNetworkSpeed"
  <2> DEFINE Half == {<< >>} \cup {Append(s, "line") : s \in Some}
  <2>0. Plans(m) = {<<"line">> \o h[1] \o h[2] \o <<"success">> : h \in Half \X Half}
    BY <1>3 DEF Plans, Some
  <2> HIDE DEF Half
  <2>1. PICK h \in Half \X Half : p = <<"line">> \o h[1] \o h[2] \o <<"success">>
    BY <2>0
  <2>2. \A s \in Half : s \in Seq(Messages) /\ \A i \in 1 .. Len(s) : s[i] = "line"
    <3>1. ASSUME NEW s \in Half PROVE s \in Seq(Messages) /\ \A i \in 1 .. Len(s) : s[i] = "line"
      <4>1. CASE s = << >>
        BY <4>1, EmptySeq
      <4>2. ASSUME NEW n \in Some, s = Append(n, "line")
            PROVE  s \in Seq(Messages) /\ \A i \in 1 .. Len(s) : s[i] = "line"
        BY <4>2, SomeLines
      <4> QED BY <4>1, <4>2 DEF Half
    <3> QED BY <3>1
  <2> DEFINE a == <<"line">> \o h[1]
             b == a \o h[2]
  <2>3. a \in Seq(Messages) /\ \A i \in 1 .. Len(a) : a[i] = "line"
    BY <2>1, <2>2, ConcatProperties
  <2> HIDE DEF a
  <2>4. b \in Seq(Messages) /\ \A i \in 1 .. Len(b) : b[i] = "line"
    BY <2>1, <2>2, <2>3, ConcatProperties
  <2>5. p = b \o <<"success">>
    BY <2>1 DEF a
  <2> HIDE DEF b
  <2> QED BY <2>4, <2>5, ConcatProperties DEF Told
<1>4. CASE m \notin {"ScanPorts", "StreamPackageOperation", "TestNetworkSpeed"}
  <2>1. PICK s \in Some : p = Append(s, "success")
    BY <1>4 DEF Plans, Some
  <2>2. s \in Seq(Messages) /\ \A i \in 1 .. Len(s) : s[i] = "line"
    BY SomeLines
  <2> QED BY <2>1, <2>2, AppendProperties DEF Told
<1> QED BY <1>1, <1>2, <1>3, <1>4

\* What a handler has still to send ends with a result; a log has only lines.
PlanOf(c) ==
  /\ At(c, "tell", Tools) => Told(plan[c])
  /\ At(c, "read", ContainerLogs) => \A i \in 1 .. Len(plan[c]) : plan[c][i] = "line"

Planned == \A c \in Calls : PlanOf(c)

LEMMA StreamTypes ==
  ASSUME AgentTypeOK, Planned, NEW c \in Calls, StreamSteps(c) \/ LogsEnd(c) \/ StatsUnsent(c)
  PROVE  AgentTypeOK'
<1> USE Parts, Tellings
<1>1. ASSUME UNCHANGED childVars PROVE ChildTypes'
  BY <1>1 DEF childVars, ChildTypes
<1>2. ASSUME Keeps PROVE PlanTypes'
  BY <1>2 DEF Keeps, PlanTypes
<1>3. ASSUME NEW r \in {"ok", "error", "unsent"}, JournalEnds(c, r) PROVE CallTypes' /\ ChildTypes'
  BY <1>3, EndsType, KillsType DEF JournalEnds
<1>4. CASE StartJournal(c)
  BY <1>1, <1>2, <1>4, GoesType, EndsType, SpawnsType DEF StartJournal, Phases
<1>5. CASE ScanJournal(c)
  <2>1. \/ Reads(c) /\ Goes(c, "send")
        \/ \E r \in {"ok", "error"} : JournalEnds(c, r)
    BY <1>5 DEF ScanJournal
  <2>2. CallTypes' /\ ChildTypes'
    BY <1>3, <2>1, GoesType, ReadsType DEF Phases
  <2> QED BY <1>2, <1>5, <2>2 DEF ScanJournal
<1>6. CASE SendJournal(c)
  BY <1>1, <1>2, <1>3, <1>6, SendsType DEF SendJournal, Phases
<1>7. CASE CheckJournal(c)
  BY <1>1, <1>2, <1>3, <1>7, GoesType DEF CheckJournal, Phases
<1>8. CASE OpenLogs(c)
  <2>1. CASE Goes(c, "read") /\ plan' \in {[plan EXCEPT ![c] = [i \in 1 .. n |-> "line"]] : n \in 0 .. MaxLines}
    <3>1. PICK n \in 0 .. MaxLines : plan' = [plan EXCEPT ![c] = [i \in 1 .. n |-> "line"]]
      BY <2>1
    <3>2. [i \in 1 .. n |-> "line"] \in Some
      BY DEF Some
    <3>3. [i \in 1 .. n |-> "line"] \in Seq(Messages)
      BY <3>2, SomeLines
    <3>4. PlanTypes'
      BY <3>1, <3>3 DEF PlanTypes
    <3> QED BY <1>1, <1>8, <2>1, <3>4, GoesType DEF OpenLogs, Phases
  <2>2. CASE Ends(c, "error", << >>) /\ Keeps
    BY <1>1, <1>2, <1>8, <2>2, EndsType DEF OpenLogs
  <2> QED BY <1>8, <2>1, <2>2 DEF OpenLogs
<1>9. CASE SendEntry(c)
  <2>1. PlanTypes'
    <3>1. CASE Keeps
      BY <1>2, <3>1
    <3>2. CASE plan' = [plan EXCEPT ![c] = Tail(@)]
      <4>1. Tail(plan[c]) \in Seq(Messages)
        BY <1>9 DEF SendEntry, PlanTypes
      <4> QED BY <3>2, <4>1 DEF PlanTypes
    <3> QED BY <1>9, <3>1, <3>2 DEF SendEntry
  <2> QED BY <1>1, <1>9, <2>1, SendsType, UnsentType DEF SendEntry, Phases
<1>10. CASE LogsLeft(c) \/ LogsEnd(c) \/ StatsEnds(c) \/ StatsUnsent(c)
  <2>1. Unsent(c) \/ \E r \in {"ok", "error"} : Ends(c, r, << >>)
    BY <1>10 DEF LogsLeft, LogsEnd, StatsEnds, StatsUnsent
  <2> QED BY <1>1, <1>2, <1>10, <2>1, EndsType, UnsentType DEF LogsLeft, LogsEnd, StatsEnds, StatsUnsent
<1>11. CASE StartTool(c)
  <2>1. CASE method[c] \in Commanded
    BY <1>2, <1>11, <2>1, GoesType, SpawnsType DEF StartTool, Phases
  <2>2. CASE method[c] \notin Commanded
    <3>1. PICK p \in Plans(method[c]) : plan' = [plan EXCEPT ![c] = p]
      BY <1>11, <2>2 DEF StartTool
    <3>2. p \in Seq(Messages)
      BY <1>11, PlansTold DEF StartTool, At, Told
    <3>3. PlanTypes'
      BY <3>1, <3>2 DEF PlanTypes
    <3> QED BY <1>1, <1>11, <2>2, <3>3, GoesType DEF StartTool, Phases
  <2> QED BY <2>1, <2>2
<1>12. CASE ToolDone(c)
  <2>1. PICK p \in IF child[c] = "ok" THEN Plans(method[c]) ELSE {<<"failure">>} : plan' = [plan EXCEPT ![c] = p]
    BY <1>12 DEF ToolDone
  <2>2. p \in Seq(Messages)
    BY <1>12, <2>1, PlansTold DEF ToolDone, At, Told, Tools, Commanded
  <2>3. PlanTypes'
    BY <2>1, <2>2 DEF PlanTypes
  <2> QED BY <1>1, <1>12, <2>3, GoesType DEF ToolDone, Phases
<1>13. CASE TellNext(c)
  <2>1. CASE Unsent(c) /\ Keeps
    BY <1>1, <1>2, <1>13, <2>1, UnsentType DEF TellNext
  <2>2. CASE ~(Unsent(c) /\ Keeps)
    <3>1. plan' = [plan EXCEPT ![c] = Tail(@)] /\ UNCHANGED childVars
      BY <1>13, <2>2 DEF TellNext
    <3>2. plan[c] \in Seq(Messages) /\ plan[c] # << >>
      BY <1>13 DEF TellNext, Planned, PlanOf, Told
    <3>3. Head(plan[c]) \in Messages /\ Tail(plan[c]) \in Seq(Messages)
      BY <3>2
    <3>4. PlanTypes'
      BY <3>1, <3>3 DEF PlanTypes
    <3>5. CallTypes'
      BY <1>13, <2>2, <3>2, <3>3, SendsType, EndsType DEF TellNext, Phases
    <3> QED BY <1>1, <3>1, <3>4, <3>5
  <2> QED BY <2>1, <2>2
<1>14. CASE Command(c)
  <2>1. Unsent(c) \/ \E told \in {<<"success">>, <<"failure">>} : Ends(c, "ok", told)
    BY <1>14 DEF Command
  <2> QED BY <1>1, <1>2, <1>14, <2>1, EndsType, UnsentType DEF Command
<1> QED BY <1>4, <1>5, <1>6, <1>7, <1>8, <1>9, <1>10, <1>11, <1>12, <1>13, <1>14 DEF StreamSteps

LEMMA ExitsType ==
  ASSUME ChildTypes, NEW c \in Calls, NEW how \in {"ok", "failed"}, Exits(c, how),
         UNCHANGED <<todo, pipe, open, db, wrote>>
  PROVE  ChildTypes'
<1>1. Released(c) \in [Locks -> Calls \cup {None}]
  BY DEF ChildTypes, Released
<1> QED BY <1>1 DEF ChildTypes, Exits

LEMMA OtherTypes ==
  ASSUME AgentTypeOK, NEW c \in Calls, Programs(c) \/ Failures(c) \/ Visits(c) \/ Asks(c)
  PROVE  AgentTypeOK'
<1>0. CallTypes /\ ChildTypes /\ PlanTypes
  BY Parts
<1>1. PlanTypes'
  BY <1>0 DEF Programs, Failures, Visits, Asks, Keeps, PlanTypes
<1>2. CASE Visits(c) \/ Asks(c)
  <2>1. ASSUME Invoke(c) PROVE CallTypes'
    <3>1. PICK m \in Asked : method' = [method EXCEPT ![c] = m]
      BY <2>1 DEF Invoke
    <3>2. method' \in [Calls -> Methods \cup {"none"}]
      BY <1>0, <3>1, AskedAssumption DEF CallTypes
    <3>3. pc' \in [Calls -> Phases] /\ clients' \subseteq Calls /\ result' \in [Calls -> Results]
      BY <1>0, <2>1 DEF Invoke, CallTypes, Phases, Results
    <3> QED BY <1>0, <2>1, <3>2, <3>3 DEF Invoke, CallTypes
  <2>2. ASSUME Leave(c) PROVE CallTypes'
    BY <1>0, <2>2 DEF Leave, CallTypes
  <2>5. ASSUME Asks(c) PROVE CallTypes'
    BY <1>0, <2>5, Asking, Tellings, GoesType, EndsType DEF Phases
  <2>3. CallTypes'
    BY <1>2, <2>1, <2>2, <2>5 DEF Visits, Asks
  <2>4. ChildTypes'
    BY <1>0, <1>2 DEF Visits, Asks, childVars, ChildTypes
  <2> QED BY <1>1, <2>3, <2>4, Parts
<1>3. CASE Programs(c) \/ Failures(c)
  <2>1. CallTypes'
    BY <1>0, <1>3 DEF Programs, Failures, callVars, CallTypes
  <2> SUFFICES ChildTypes'
    BY <1>1, <2>1, Parts
  <2>2. CASE ChildBegins(c)
    <3>1. CASE Exits(c, "failed")
      BY <1>0, <2>2, <3>1, ExitsType DEF ChildBegins
    <3>2. CASE ~Exits(c, "failed")
      BY <1>0, <2>2, <3>2 DEF ChildBegins, ChildTypes
    <3> QED BY <3>1, <3>2
  <2>3. CASE ChildWrites(c)
    <3>1. Head(todo[c]) \in Lines /\ Tail(todo[c]) \in Seq(Lines)
      BY <1>0, <2>3 DEF ChildWrites, ChildTypes
    <3>2. Append(pipe[c], Head(todo[c])) \in Seq(Lines) /\ Append(wrote[c], Head(todo[c])) \in Seq(Lines)
      BY <1>0, <3>1 DEF ChildTypes
    <3> QED BY <1>0, <2>3, <3>1, <3>2 DEF ChildWrites, ChildTypes
  <2>4. CASE ChildFinishes(c) \/ ChildFails(c)
    <3>1. \E how \in {"ok", "failed"} : Exits(c, how)
      BY <2>4 DEF ChildFinishes, ChildFails
    <3> QED BY <1>0, <2>4, <3>1, ExitsType DEF ChildFinishes, ChildFails
  <2>5. CASE Collect(c)
    BY <1>0, <2>5 DEF Collect, ChildTypes
  <2> QED BY <1>3, <2>2, <2>3, <2>4, <2>5 DEF Programs, Failures, ChildSteps
<1> QED BY <1>2, <1>3

LEMMA TypesInit == Init => AgentTypeOK /\ Planned
<1> SUFFICES ASSUME Init PROVE AgentTypeOK /\ Planned
  OBVIOUS
<1> USE EmptySeq DEF Init, CallsInit, ChildrenInit, StreamsInit
<1>1. CallTypes
  BY DEF CallTypes, Phases, Results
<1>2. ChildTypes
  BY DEF ChildTypes
<1>3. PlanTypes
  BY DEF PlanTypes
<1>4. Planned
  BY DEF Planned, PlanOf, At
<1> QED BY <1>1, <1>2, <1>3, <1>4, Parts

LEMMA TypesStep == AgentTypeOK /\ Planned /\ [Next]_vars => AgentTypeOK'
<1>1. ASSUME AgentTypeOK, Process PROVE AgentTypeOK'
  BY <1>1 DEF Process, Listen, NewDockerService, Signal, Stopped, childVars, Keeps, AgentTypeOK
<1>2. ASSUME AgentTypeOK, UNCHANGED vars PROVE AgentTypeOK'
  BY <1>2 DEF vars, callVars, childVars, Keeps, AgentTypeOK
<1>3. ASSUME AgentTypeOK, Planned, NEW c \in Calls, Step(c) PROVE AgentTypeOK'
  BY <1>3, StepCases, PackageTypes, StreamTypes, OtherTypes
<1> QED BY <1>1, <1>2, <1>3 DEF Next, Step

-----------------------------------------------------------------------------
(* What holds of a call, as long as its own steps keep it *)

\* A call nobody has made, or whose request has not come, has nothing.
Idle(c) ==
  /\ pc[c] = "idle" => method[c] = "none"
  /\ pc[c] \in {"idle", "request"} =>
       /\ child[c] = "none" /\ out[c] = << >>
       /\ pipe[c] = << >> /\ wrote[c] = << >> /\ exits[c] = << >>

\* Whose program runs.
Life(c) ==
  Alive(c) =>
    \/ At(c, "run", Buffered \cup Commanded)
    \/ \E p \in {"scan", "check", "send"} : At(c, p, Upgrade \cup Journal)
    \/ At(c, "wait", Upgrade)
    \/ At(c, "over", Upgrade) /\ result[c] = "unsent"

\* A result is the last message, and the last step.
ResultOf(c) ==
  /\ \A i \in 1 .. Len(out[c]) : out[c][i] \in Final =>
       /\ i = Len(out[c]) /\ pc[c] = "over" /\ result[c] \in {"ok", "error"}
       /\ out[c][i] = "success" => result[c] = "ok"
  /\ pc[c] = "over" /\ c \in clients /\ method[c] \in Reporting /\ result[c] \in {"ok", "error"}
       => out[c] # << >> /\ out[c][Len(out[c])] \in Final

\* What follows a message that is not the last.
LEMMA TailTold ==
  ASSUME NEW p, Told(p), Len(p) # 1
  PROVE  Told(Tail(p)) /\ Head(p) = "line"
<1>1. /\ p \in Seq(Messages) /\ p # << >> /\ p[Len(p)] \in Final
      /\ \A i \in 1 .. Len(p) : i < Len(p) => p[i] = "line"
  BY DEF Told
<1>2. Len(p) \in Nat /\ Len(p) > 1
  BY <1>1
<1>3. /\ Tail(p) \in Seq(Messages) /\ Len(Tail(p)) = Len(p) - 1
      /\ \A i \in 1 .. Len(p) - 1 : Tail(p)[i] = p[i + 1]
  BY <1>1, <1>2
<1>4. Tail(p) # << >>
  <2>1. Len(Tail(p)) # 0
    BY <1>2, <1>3
  <2>2. Len(<< >>) = 0
    BY EmptySeq
  <2> QED BY <2>1, <2>2
<1>5. Tail(p)[Len(p) - 1] = p[Len(p)]
  BY <1>2, <1>3
<1>6. \A i \in 1 .. Len(p) - 1 : i < Len(p) - 1 => Tail(p)[i] = "line"
  BY <1>1, <1>2, <1>3
<1>7. Head(p) = "line"
  BY <1>1, <1>2
<1> QED BY <1>1, <1>2, <1>3, <1>4, <1>5, <1>6, <1>7 DEF Told

LEMMA PlanOfStep ==
  ASSUME AgentTypeOK, NEW c \in Calls, PlanOf(c), Step(c)
  PROVE  PlanOf(c)'
<1> USE DEF PlanOf, At, AgentTypeOK
<1>1. CASE (PackageSteps(c) /\ Keeps) \/ StreamSteps(c) \/ LogsEnd(c) \/ StatsUnsent(c)
  <2>1. CASE PackageSteps(c) /\ Keeps
    BY <2>1 DEF PackageSteps, Keeps, RunCommand, CommandDone, StartPhase, ScanUpgrade, CheckUpgrade,
                SendUpgrade, ScanEnds, WaitUpgrade, Goes, Ends, Unsent, Sends
  <2>2. CASE OpenLogs(c)
    <3>1. CASE Goes(c, "read") /\ plan' \in {[plan EXCEPT ![c] = [i \in 1 .. n |-> "line"]] : n \in 0 .. MaxLines}
      <4>1. PICK n \in 0 .. MaxLines : plan' = [plan EXCEPT ![c] = [i \in 1 .. n |-> "line"]]
        BY <3>1
      <4>2. [i \in 1 .. n |-> "line"] \in Some
        BY DEF Some
      <4>3. \A i \in 1 .. Len(plan'[c]) : plan'[c][i] = "line"
        BY <4>1, <4>2, SomeLines
      <4>4. pc'[c] = "read"
        BY <3>1 DEF Goes
      <4> QED BY <4>3, <4>4
    <3>2. CASE Ends(c, "error", << >>)
      BY <3>2 DEF Ends
    <3> QED BY <2>2, <3>1, <3>2 DEF OpenLogs
  <2>3. CASE SendEntry(c)
    <3>0. CASE Unsent(c)
      BY <3>0 DEF Unsent, Ends
    <3> SUFFICES ASSUME ~Unsent(c) PROVE PlanOf(c)'
      BY <3>0
    <3>1. /\ plan[c] # << >> /\ plan'[c] = Tail(plan[c]) /\ pc'[c] = "read" /\ method' = method
          /\ pc[c] = "read" /\ method[c] \in ContainerLogs
      BY <2>3 DEF SendEntry, Sends
    <3>2. \A i \in 1 .. Len(Tail(plan[c])) : Tail(plan[c])[i] = plan[c][i + 1] /\ i + 1 \in 1 .. Len(plan[c])
      BY <3>1
    <3> QED BY <3>1, <3>2
  <2>4. CASE StartTool(c)
    BY <2>4, PlansTold DEF StartTool, Goes
  <2>5. CASE ToolDone(c)
    <3>1. PICK p \in IF child[c] = "ok" THEN Plans(method[c]) ELSE {<<"failure">>} : plan' = [plan EXCEPT ![c] = p]
      BY <2>5 DEF ToolDone
    <3>2. Told(<<"failure">>)
      BY DEF Told, Messages, Final
    <3>3. Told(p)
      BY <2>5, <3>1, <3>2, PlansTold DEF ToolDone, Tools, Commanded
    <3>4. plan'[c] = p /\ pc'[c] = "tell"
      BY <2>5, <3>1 DEF ToolDone, Goes
    <3> QED BY <3>3, <3>4
  <2>6. CASE TellNext(c)
    <3>1. CASE pc'[c] = "over"
      BY <3>1
    <3>2. CASE pc'[c] # "over"
      <4>1. Told(plan[c]) /\ plan'[c] = Tail(plan[c]) /\ Len(plan[c]) # 1 /\ pc'[c] = "tell"
        BY <2>6, <3>2 DEF TellNext, Unsent, Ends, Sends
      <4>2. Told(Tail(plan[c]))
        BY <4>1, TailTold
      <4> QED BY <4>1, <4>2
    <3> QED BY <3>1, <3>2
  <2>7. ASSUME pc'[c] \notin {"tell", "read"} PROVE PlanOf(c)'
    BY <2>7
  <2>8. CASE StartJournal(c) \/ ScanJournal(c) \/ SendJournal(c) \/ CheckJournal(c)
               \/ LogsLeft(c) \/ LogsEnd(c) \/ StatsEnds(c) \/ StatsUnsent(c) \/ Command(c)
    <3>1. pc'[c] \in {"scan", "send", "check", "over"}
      BY <2>8 DEF StartJournal, ScanJournal, SendJournal, CheckJournal, JournalEnds, LogsLeft, LogsEnd,
                  StatsEnds, StatsUnsent, Command, Goes, Sends, Unsent, Ends
    <3> QED BY <2>7, <3>1
  <2> QED BY <1>1, <2>1, <2>2, <2>3, <2>4, <2>5, <2>6, <2>8 DEF StreamSteps
<1>2. CASE Programs(c) \/ Failures(c)
  BY <1>2 DEF Programs, Failures, callVars, Keeps
<1>3. CASE Visits(c)
  BY <1>3 DEF Visits, Invoke, Leave, Keeps
<1>4. CASE Asks(c)
  BY <1>4, Asking DEF Goes, Ends
<1> QED BY <1>1, <1>2, <1>3, <1>4, StepCases

LEMMA LifeStep ==
  ASSUME AgentTypeOK, NEW c \in Calls, Idle(c), Life(c), Step(c)
  PROVE  Idle(c)' /\ Life(c)'
<1> USE DEF Idle, Life, AgentTypeOK, At, Alive, Ended
<1>1. CASE PackageSteps(c) /\ Keeps
  <2> USE DEF Goes, Ends, Unsent, Sends, Spawns, Reads, childVars, Upgrade, Buffered, Apt, Journal, Commanded
  <2>1. CASE RunCommand(c)
    BY <2>1 DEF RunCommand
  <2>2. CASE CommandDone(c)
    BY <2>2 DEF CommandDone
  <2>3. CASE StartPhase(c)
    BY <2>3 DEF StartPhase
  <2>4. CASE ScanUpgrade(c)
    BY <2>4 DEF ScanUpgrade
  <2>5. CASE CheckUpgrade(c)
    BY <2>5 DEF CheckUpgrade, Kills
  <2>6. CASE SendUpgrade(c)
    BY <2>6 DEF SendUpgrade
  <2>7. CASE ScanEnds(c)
    BY <2>7 DEF ScanEnds
  <2>8. CASE WaitUpgrade(c)
    BY <2>8 DEF WaitUpgrade
  <2> QED BY <1>1, <2>1, <2>2, <2>3, <2>4, <2>5, <2>6, <2>7, <2>8 DEF PackageSteps
<1>2. CASE StreamSteps(c) \/ LogsEnd(c) \/ StatsUnsent(c)
  <2> USE DEF Goes, Ends, Unsent, Sends, Spawns, Reads, childVars, Upgrade, Buffered, Apt, Journal, Commanded,
              ContainerLogs, Tools, ProcessMethods, DockerUnary
  <2>1. ASSUME NEW r, JournalEnds(c, r) PROVE Idle(c)' /\ Life(c)'
    BY <2>1 DEF JournalEnds, Kills
  <2>2. CASE StartJournal(c)
    BY <2>2 DEF StartJournal
  <2>3. CASE ScanJournal(c)
    BY <2>1, <2>3 DEF ScanJournal
  <2>4. CASE SendJournal(c)
    BY <2>1, <2>4 DEF SendJournal
  <2>5. CASE CheckJournal(c)
    BY <2>1, <2>5 DEF CheckJournal
  <2>6. CASE OpenLogs(c) \/ SendEntry(c) \/ LogsLeft(c) \/ LogsEnd(c) \/ StatsEnds(c) \/ StatsUnsent(c) \/ Command(c)
    BY <2>6 DEF OpenLogs, SendEntry, LogsLeft, LogsEnd, StatsEnds, StatsUnsent, Command
  <2>7. CASE StartTool(c)
    BY <2>7 DEF StartTool
  <2>8. CASE ToolDone(c)
    BY <2>8 DEF ToolDone
  <2>9. CASE TellNext(c)
    BY <2>9 DEF TellNext
  <2> QED BY <1>2, <2>2, <2>3, <2>4, <2>5, <2>6, <2>7, <2>8, <2>9 DEF StreamSteps
<1>3. CASE Programs(c) \/ Failures(c)
  BY <1>3 DEF Programs, Failures, callVars, ChildSteps, ChildBegins, ChildWrites, ChildFinishes, Collect,
              ChildFails, Exits
<1>4. CASE Visits(c)
  BY <1>4 DEF Visits, Invoke, Leave, InFlight, childVars, Upgrade
<1>5. CASE Asks(c)
  BY <1>5, Asking DEF Goes, Ends, childVars, Upgrade
<1> QED BY <1>1, <1>2, <1>3, <1>4, <1>5, StepCases

\* A step that ends a call tells a result, or its client has left, or wants none.
LEMMA EndsResult ==
  ASSUME AgentTypeOK, NEW c \in Calls, ResultOf(c), pc[c] # "over", NEW r \in Results,
         NEW told \in Seq(Messages), Ends(c, r, told),
         \/ Len(told) = 1 /\ told[1] \in Final /\ r \in {"ok", "error"} /\ (told[1] = "success" => r = "ok")
         \/ told = << >> /\ (c \notin clients \/ method[c] \notin Reporting \/ r \notin {"ok", "error"})
  PROVE  ResultOf(c)'
<1> USE DEF AgentTypeOK, ResultOf
<1>1. /\ pc'[c] = "over" /\ result'[c] = r /\ clients' = clients /\ method' = method
      /\ out'[c] = IF c \in clients THEN out[c] \o told ELSE out[c]
  BY DEF Ends
<1>2. out[c] \in Seq(Messages) /\ \A i \in 1 .. Len(out[c]) : out[c][i] \notin Final
  OBVIOUS
<1>3. CASE Len(told) = 1 /\ told[1] \in Final /\ r \in {"ok", "error"} /\ (told[1] = "success" => r = "ok")
  <2>1. /\ Len(out[c] \o told) = Len(out[c]) + 1
        /\ (out[c] \o told)[Len(out[c]) + 1] = told[1]
        /\ \A i \in 1 .. Len(out[c]) : (out[c] \o told)[i] = out[c][i]
    <3>1. /\ Len(out[c] \o told) = Len(out[c]) + Len(told)
          /\ \A i \in 1 .. Len(out[c]) + Len(told) :
               (out[c] \o told)[i] = IF i <= Len(out[c]) THEN out[c][i] ELSE told[i - Len(out[c])]
      BY <1>2, ConcatProperties
    <3>2. Len(out[c]) \in Nat
      BY <1>2
    <3> QED BY <1>3, <3>1, <3>2
  <2>2. Len(out[c]) \in Nat
    BY <1>2
  <2>3. out[c] \o told # << >>
    BY <2>1, <2>2, EmptySeq
  <2> QED BY <1>1, <1>2, <1>3, <2>1, <2>2, <2>3
<1>4. CASE told = << >>
  <2>1. out'[c] = out[c]
    BY <1>1, <1>2, <1>4, ConcatEmptySeq
  <2>2. c \notin clients \/ method[c] \notin Reporting \/ r \notin {"ok", "error"}
    BY <1>4, EmptySeq
  <2> QED BY <1>1, <1>2, <2>1, <2>2
<1> QED BY <1>3, <1>4

LEMMA UnsentResult ==
  ASSUME AgentTypeOK, NEW c \in Calls, ResultOf(c), pc[c] # "over", Unsent(c)
  PROVE  ResultOf(c)'
<1>1. "unsent" \in Results /\ << >> \in Seq(Messages)
  BY Tellings
<1>2. Ends(c, "unsent", << >>)
  BY DEF Unsent
<1> QED BY <1>1, <1>2, EndsResult

LEMMA SendsResult ==
  ASSUME AgentTypeOK, NEW c \in Calls, ResultOf(c), pc[c] # "over", NEW p \in Phases, p # "over", Sends(c, "line", p)
  PROVE  ResultOf(c)'
<1>1. out[c] \in Seq(Messages) /\ \A i \in 1 .. Len(out[c]) : out[c][i] \notin Final
  BY DEF AgentTypeOK, ResultOf
<1>2. out'[c] = Append(out[c], "line") /\ pc'[c] = p
  BY DEF AgentTypeOK, Sends
<1>3. \A i \in 1 .. Len(Append(out[c], "line")) : Append(out[c], "line")[i] \notin Final
  BY <1>1, AppendProperties DEF Messages, Final
<1> QED BY <1>2, <1>3 DEF ResultOf

LEMMA GoesResult ==
  ASSUME AgentTypeOK, NEW c \in Calls, ResultOf(c), pc[c] # "over", NEW p \in Phases, p # "over", Goes(c, p)
  PROVE  ResultOf(c)'
BY DEF AgentTypeOK, ResultOf, Goes

LEMMA ResultOfStep ==
  ASSUME AgentTypeOK, NEW c \in Calls, PlanOf(c), ResultOf(c), Idle(c), Step(c)
  PROVE  ResultOf(c)'
<1> USE Tellings
<1>0. /\ Len(<< >>) = 0
      /\ Len(<<"success">>) = 1 /\ <<"success">>[1] \in Final
      /\ Len(<<"failure">>) = 1 /\ <<"failure">>[1] \in Final /\ <<"failure">>[1] # "success"
  BY DEF Final
<1>1. ASSUME PackageSteps(c), Keeps PROVE ResultOf(c)'
  <2> USE DEF Phases, At
  <2>1. CASE RunCommand(c)
    BY <1>0, <2>1, GoesResult, EndsResult DEF RunCommand
  <2>2. CASE CommandDone(c)
    <3>1. Unsent(c) \/ \E told \in {<<"success">>, <<"failure">>} : Ends(c, "ok", told)
      BY <2>2 DEF CommandDone
    <3> QED BY <1>0, <2>2, <3>1, EndsResult, UnsentResult DEF CommandDone
  <2>3. CASE StartPhase(c)
    BY <1>0, <2>3, GoesResult, EndsResult DEF StartPhase
  <2>4. CASE ScanUpgrade(c) \/ ScanEnds(c)
    BY <2>4, GoesResult DEF ScanUpgrade, ScanEnds
  <2>5. CASE CheckUpgrade(c)
    BY <2>5, GoesResult, EndsResult DEF CheckUpgrade
  <2>6. CASE SendUpgrade(c)
    BY <2>6, SendsResult, UnsentResult DEF SendUpgrade
  <2>7. CASE WaitUpgrade(c)
    <3>1. \/ Goes(c, "start") \/ Unsent(c)
          \/ Ends(c, "error", <<"failure">>) \/ Ends(c, "ok", <<"success">>)
      BY <2>7 DEF WaitUpgrade
    <3> QED BY <1>0, <2>7, <3>1, GoesResult, EndsResult, UnsentResult DEF WaitUpgrade
  <2> QED BY <1>1, <2>1, <2>2, <2>3, <2>4, <2>5, <2>6, <2>7 DEF PackageSteps
<1>2. ASSUME StreamSteps(c) \/ LogsEnd(c) \/ StatsUnsent(c) PROVE ResultOf(c)'
  <2> USE DEF Phases, At
  <2>1. ASSUME At(c, pc[c], Journal), pc[c] # "over", NEW r \in Results, JournalEnds(c, r) PROVE ResultOf(c)'
    BY <2>1, EndsResult DEF JournalEnds, Reporting
  <2>2. CASE StartJournal(c)
    BY <2>2, GoesResult, EndsResult DEF StartJournal, Reporting
  <2>3. CASE ScanJournal(c)
    BY <2>1, <2>3, GoesResult DEF ScanJournal
  <2>4. CASE SendJournal(c)
    BY <2>1, <2>4, SendsResult DEF SendJournal
  <2>5. CASE CheckJournal(c)
    BY <2>1, <2>5, GoesResult DEF CheckJournal
  <2>6. CASE OpenLogs(c)
    BY <2>6, GoesResult, EndsResult DEF OpenLogs, Reporting
  <2>7. CASE SendEntry(c)
    BY <2>7, SendsResult, UnsentResult DEF SendEntry
  <2>8. CASE LogsLeft(c) \/ LogsEnd(c) \/ StatsEnds(c) \/ StatsUnsent(c)
    <3>1. /\ pc[c] # "over" /\ method[c] \notin Reporting
          /\ Unsent(c) \/ \E r \in {"ok", "error"} : Ends(c, r, << >>)
      BY <2>8 DEF LogsLeft, LogsEnd, StatsEnds, StatsUnsent, Reporting
    <3> QED BY <3>1, EndsResult, UnsentResult
  <2>9. CASE StartTool(c) \/ ToolDone(c)
    BY <2>9, GoesResult DEF StartTool, ToolDone
  <2>10. CASE TellNext(c)
    <3>1. Told(plan[c]) /\ pc[c] = "tell"
      BY <2>10 DEF TellNext, PlanOf
    <3>2. CASE Unsent(c)
      BY <3>1, <3>2, UnsentResult
    <3>3. CASE ~Unsent(c) /\ Len(plan[c]) = 1
      <4>1. Ends(c, "ok", plan[c]) /\ plan[c] \in Seq(Messages) /\ plan[c][1] \in Final
        BY <2>10, <3>1, <3>3 DEF TellNext, Told
      <4> QED BY <3>1, <3>3, <4>1, EndsResult
    <3>4. CASE ~Unsent(c) /\ Len(plan[c]) # 1
      <4>1. Sends(c, Head(plan[c]), "tell")
        BY <2>10, <3>4 DEF TellNext
      <4>2. Head(plan[c]) = "line"
        BY <3>1, <3>4, TailTold
      <4> QED BY <3>1, <4>1, <4>2, SendsResult
    <3> QED BY <3>2, <3>3, <3>4
  <2>11. CASE Command(c)
    <3>1. Unsent(c) \/ \E told \in {<<"success">>, <<"failure">>} : Ends(c, "ok", told)
      BY <2>11 DEF Command
    <3> QED BY <1>0, <2>11, <3>1, EndsResult, UnsentResult DEF Command
  <2> QED BY <1>2, <2>2, <2>3, <2>4, <2>5, <2>6, <2>7, <2>8, <2>9, <2>10, <2>11 DEF StreamSteps
<1>3. ASSUME Programs(c) \/ Failures(c) PROVE ResultOf(c)'
  BY <1>3 DEF Programs, Failures, callVars, ResultOf
<1>4. ASSUME Visits(c) PROVE ResultOf(c)'
  <2>1. CASE Invoke(c)
    <3>1. out'[c] = << >> /\ (pc'[c] = "over" => result'[c] = "unimplemented")
      BY <2>1 DEF Invoke, Idle, AgentTypeOK
    <3> QED BY <3>1, EmptySeq DEF ResultOf
  <2>2. CASE Leave(c)
    BY <2>2 DEF Leave, InFlight, ResultOf
  <2> QED BY <1>4, <2>1, <2>2 DEF Visits
<1>5. ASSUME Asks(c) PROVE ResultOf(c)'
  BY <1>0, <1>5, Asking, GoesResult, EndsResult DEF Phases, At
<1> QED BY <1>1, <1>2, <1>3, <1>4, <1>5, StepCases

-----------------------------------------------------------------------------
(* The upgrade *)

NoLong(s) == \A i \in 1 .. Len(s) : s[i] # "long"

\* A pipe holds only lines that were written.
PipeLines(c) == NoLong(wrote[c]) => NoLong(pipe[c])

\* The lines of an upgrade are in its pipe, with its handler or sent, and its
\* two runs end one after the other.
Upgrading(c) ==
  method[c] \in Upgrade /\ pc[c] \in {"start", "scan", "check", "send", "wait"} =>
    /\ \/ Alive(c) /\ exits[c] \in {<< >>, <<"ok">>}
       \/ Ended(c) /\ exits[c] \in {<<child[c]>>, <<"ok", child[c]>>}
       \/ child[c] = "none" /\ exits[c] = << >>
    /\ pc[c] = "start" => pipe[c] = << >> /\ exits[c] \in {<< >>, <<"ok">>}
    /\ pc[c] # "start" => child[c] # "none"
    /\ pc[c] \in {"scan", "check", "send"} => c \in open
    /\ NoLong(wrote[c]) =>
         /\ Len(wrote[c]) = Len(out[c]) + Len(pipe[c]) + (IF pc[c] \in {"check", "send"} THEN 1 ELSE 0)
         /\ pc[c] = "wait" => pipe[c] = << >> /\ Ended(c)

\* An upgrade that told a success.
Upgraded(c) ==
  method[c] \in Upgrade /\ "success" \in ToSet(out[c]) /\ pc[c] = "over" =>
    /\ ~Alive(c) /\ exits[c] = <<"ok", "ok">>
    /\ NoLong(wrote[c]) => Len(out[c]) = Len(wrote[c]) + 1

LEMMA WrittenLines ==
  ASSUME NEW s \in Seq(Lines)
  PROVE  /\ \A x \in Lines : /\ NoLong(Append(s, x)) <=> NoLong(s) /\ x # "long"
                             /\ Len(Append(s, x)) = Len(s) + 1
         /\ s # << >> /\ NoLong(s) => NoLong(Tail(s)) /\ Head(s) # "long"
         /\ s # << >> => Head(s) \in Lines /\ Len(Tail(s)) = Len(s) - 1 /\ Tail(s) \in Seq(Lines)
         /\ NoLong(<< >>) /\ Len(<< >>) = 0 /\ Len(s) \in Nat
<1>1. ASSUME NEW x \in Lines
      PROVE  /\ NoLong(Append(s, x)) <=> NoLong(s) /\ x # "long"
             /\ Len(Append(s, x)) = Len(s) + 1
  BY AppendProperties DEF NoLong
<1>2. ASSUME s # << >>, NoLong(s) PROVE NoLong(Tail(s)) /\ Head(s) # "long"
  BY <1>2 DEF NoLong
<1>3. s # << >> => Head(s) \in Lines /\ Len(Tail(s)) = Len(s) - 1 /\ Tail(s) \in Seq(Lines)
  OBVIOUS
<1>4. NoLong(<< >>) /\ Len(<< >>) = 0 /\ Len(s) \in Nat
  BY EmptySeq DEF NoLong
<1> QED BY <1>1, <1>2, <1>3, <1>4

\* What a step does to the lines of its call.
LEMMA LinesStep ==
  ASSUME AgentTypeOK, NEW c \in Calls, Step(c)
  PROVE  \/ wrote'[c] = wrote[c] /\ (pipe'[c] \in {pipe[c], << >>} \/ (pipe[c] # << >> /\ pipe'[c] = Tail(pipe[c])))
         \/ /\ ChildWrites(c) /\ Programs(c) /\ todo[c] # << >>
            /\ wrote'[c] = Append(wrote[c], Head(todo[c]))
            /\ pipe'[c] = IF c \in open THEN Append(pipe[c], Head(todo[c])) ELSE pipe[c]
<1> USE DEF AgentTypeOK, childVars
<1>1. ASSUME \/ UNCHANGED childVars \/ Kills(c) \/ Reads(c) \/ \E p \in BOOLEAN : Spawns(c, p)
      PROVE  wrote'[c] = wrote[c] /\ (pipe'[c] \in {pipe[c], << >>} \/ (pipe[c] # << >> /\ pipe'[c] = Tail(pipe[c])))
  BY <1>1 DEF Kills, Reads, Spawns
<1>2. CASE PackageSteps(c)
  <2>1. CASE WaitUpgrade(c)
    BY <2>1 DEF WaitUpgrade
  <2>2. CASE ~WaitUpgrade(c)
    BY <1>1, <1>2, <2>2 DEF PackageSteps, RunCommand, CommandDone, StartPhase, ScanUpgrade, CheckUpgrade,
                            SendUpgrade, ScanEnds
  <2> QED BY <2>1, <2>2
<1>3. CASE StreamSteps(c) \/ LogsEnd(c) \/ StatsUnsent(c)
  BY <1>1, <1>3 DEF StreamSteps, StartJournal, ScanJournal, SendJournal, CheckJournal, JournalEnds, OpenLogs,
                    SendEntry, LogsLeft, LogsEnd, StartTool, ToolDone, TellNext, StatsEnds, StatsUnsent, Command
<1>4. CASE Programs(c)
  BY <1>4 DEF Programs, ChildSteps, ChildBegins, ChildWrites, ChildFinishes, Collect
<1>5. CASE Failures(c) \/ Visits(c)
  BY <1>5 DEF Failures, Visits, ChildFails
<1>6. CASE Asks(c)
  BY <1>1, <1>6, Asking
<1> QED BY <1>2, <1>3, <1>4, <1>5, <1>6, StepCases

LEMMA PipeLinesStep ==
  ASSUME AgentTypeOK, NEW c \in Calls, PipeLines(c), Step(c)
  PROVE  PipeLines(c)'
<1>1. pipe[c] \in Seq(Lines) /\ wrote[c] \in Seq(Lines) /\ todo[c] \in Seq(Lines)
  BY DEF AgentTypeOK
<1>2. CASE wrote'[c] = wrote[c] /\ (pipe'[c] \in {pipe[c], << >>} \/ (pipe[c] # << >> /\ pipe'[c] = Tail(pipe[c])))
  BY <1>1, <1>2, WrittenLines DEF PipeLines
<1>3. CASE /\ todo[c] # << >> /\ wrote'[c] = Append(wrote[c], Head(todo[c]))
           /\ pipe'[c] = IF c \in open THEN Append(pipe[c], Head(todo[c])) ELSE pipe[c]
  <2>1. Head(todo[c]) \in Lines
    BY <1>1, <1>3
  <2> QED BY <1>1, <1>3, <2>1, WrittenLines DEF PipeLines
<1> QED BY <1>2, <1>3, LinesStep

\* What a program's step does to its call.
LEMMA ProgramStep ==
  ASSUME AgentTypeOK, NEW c \in Calls, Programs(c) \/ Failures(c)
  PROVE  /\ UNCHANGED callVars
         /\ \/ child'[c] = child[c] /\ exits'[c] = exits[c]
            \/ child[c] = "starting" /\ child'[c] = "running" /\ exits'[c] = exits[c]
            \/ Alive(c) /\ \E how \in {"ok", "failed"} :
                 child'[c] = how /\ exits'[c] = Append(exits[c], how)
         /\ pc[c] # "over" => open' = open
         /\ ~Alive(c) => wrote' = wrote /\ child'[c] = child[c] /\ exits' = exits
         /\ wrote' # wrote => child[c] = "running" /\ child' = child
<1> USE DEF AgentTypeOK, callVars, Alive, Exits
<1>1. CASE ChildBegins(c)
  BY <1>1 DEF Programs, Failures, ChildBegins
<1>2. CASE ChildWrites(c)
  BY <1>2 DEF Programs, Failures, ChildWrites
<1>3. CASE ChildFinishes(c) \/ ChildFails(c)
  BY <1>3 DEF Programs, Failures, ChildFinishes, ChildFails
<1>4. CASE Collect(c)
  BY <1>4 DEF Programs, Failures, Collect
<1> QED BY <1>1, <1>2, <1>3, <1>4 DEF Programs, Failures, ChildSteps

\* The handler of an upgrade, and nobody else's.
UpgradeSteps(c) ==
  \/ StartPhase(c) \/ ScanUpgrade(c) \/ CheckUpgrade(c) \/ SendUpgrade(c)
  \/ ScanEnds(c) \/ WaitUpgrade(c)

LEMMA WhoseStep ==
  ASSUME AgentTypeOK, NEW c \in Calls, Step(c)
  PROVE  \/ UpgradeSteps(c) /\ method[c] \in Upgrade /\ method' = method
         \/ method[c] \notin Upgrade /\ method'[c] \notin Upgrade
         \/ Programs(c) \/ Failures(c) \/ Visits(c) \/ Asks(c)
<1> USE DEF At, Goes, Ends, Unsent, Sends, Upgrade
<1>1. CASE PackageSteps(c)
  <2>1. CASE UpgradeSteps(c)
    BY <2>1 DEF UpgradeSteps, StartPhase, ScanUpgrade, CheckUpgrade, SendUpgrade, ScanEnds, WaitUpgrade
  <2>2. CASE RunCommand(c) \/ CommandDone(c)
    BY <2>2 DEF RunCommand, CommandDone, Buffered, Apt
  <2> QED BY <1>1, <2>1, <2>2 DEF PackageSteps, UpgradeSteps
<1>2. CASE StartJournal(c) \/ ScanJournal(c) \/ SendJournal(c) \/ CheckJournal(c)
  BY <1>2 DEF StartJournal, ScanJournal, SendJournal, CheckJournal, JournalEnds, Journal
<1>3. CASE OpenLogs(c) \/ SendEntry(c) \/ LogsLeft(c) \/ LogsEnd(c) \/ StatsEnds(c) \/ StatsUnsent(c) \/ Command(c)
  BY <1>3 DEF OpenLogs, SendEntry, LogsLeft, LogsEnd, StatsEnds, StatsUnsent, Command, ContainerLogs,
              ProcessMethods, DockerUnary
<1>4. CASE StartTool(c) \/ ToolDone(c) \/ TellNext(c)
  BY <1>4 DEF StartTool, ToolDone, TellNext, Tools, Commanded
<1> QED BY <1>1, <1>2, <1>3, <1>4, StepCases DEF StreamSteps

\* How the second of two runs is noted.
LEMMA SecondEnd ==
  ASSUME NEW how \in {"ok", "failed"}
  PROVE  Append(<< >>, how) = <<how>> /\ Append(<<"ok">>, how) = <<"ok", how>>
<1>1. /\ Append(<<"ok">>, how) \in Seq({"ok", "failed"}) /\ Len(Append(<<"ok">>, how)) = 2
      /\ Append(<<"ok">>, how)[1] = "ok" /\ Append(<<"ok">>, how)[2] = how
  OBVIOUS
<1>2. Append(<<"ok">>, how) = [i \in 1 .. 2 |-> IF i = 1 THEN "ok" ELSE how]
  BY <1>1
<1>3. <<"ok", how>> = [i \in 1 .. 2 |-> IF i = 1 THEN "ok" ELSE how]
  OBVIOUS
<1>4. Append(<< >>, how) = <<how>>
  OBVIOUS
<1> QED BY <1>2, <1>3, <1>4

LEMMA UpgradingStep ==
  ASSUME AgentTypeOK, NEW c \in Calls, Idle(c), Life(c), PipeLines(c), Upgrading(c), Step(c)
  PROVE  Upgrading(c)'
<1>0. pipe[c] \in Seq(Lines) /\ wrote[c] \in Seq(Lines) /\ todo[c] \in Seq(Lines) /\ out[c] \in Seq(Messages)
      /\ Len(out[c]) \in Nat
  BY DEF AgentTypeOK
<1>1. ASSUME method[c] \in Upgrade, UpgradeSteps(c), method' = method PROVE Upgrading(c)'
  <2> USE DEF Goes, Ends, Unsent, Sends, Reads, childVars, Alive, Ended, AgentTypeOK, At
  <2>1. CASE StartPhase(c)
    <3>1. CASE Goes(c, "scan") /\ Spawns(c, TRUE)
      <4>1. /\ method' = method /\ pc[c] = "start" /\ pc'[c] = "scan" /\ child'[c] = "starting" /\ pipe'[c] = << >>
            /\ c \in open' /\ exits'[c] = exits[c] /\ wrote'[c] = wrote[c] /\ out'[c] = out[c]
        BY <2>1, <3>1 DEF StartPhase, Spawns
      <4> QED BY <1>0, <1>1, <4>1, WrittenLines DEF Upgrading
    <3>2. CASE pc'[c] = "over"
      BY <3>2 DEF Upgrading
    <3> QED BY <2>1, <3>1, <3>2 DEF StartPhase
  <2>2. CASE ScanUpgrade(c)
    <3>1. /\ pc[c] = "scan" /\ pc'[c] = "check" /\ pipe[c] # << >> /\ pipe'[c] = Tail(pipe[c])
          /\ UNCHANGED <<child, open, exits, wrote, out, method>>
      BY <2>2 DEF ScanUpgrade
    <3> QED BY <1>0, <1>1, <3>1, WrittenLines DEF Upgrading
  <2>3. CASE CheckUpgrade(c)
    <3>1. CASE c \in clients
      BY <1>1, <2>3, <3>1 DEF CheckUpgrade, Upgrading
    <3>2. CASE c \notin clients
      BY <2>3, <3>2 DEF CheckUpgrade, Upgrading
    <3> QED BY <3>1, <3>2
  <2>4. CASE SendUpgrade(c)
    <3>1. CASE Sends(c, "line", "scan")
      <4>1. /\ pc[c] = "send" /\ pc'[c] = "scan" /\ out'[c] = Append(out[c], "line")
            /\ UNCHANGED <<child, open, exits, wrote, pipe, method>>
        BY <2>4, <3>1 DEF SendUpgrade
      <4>2. Len(out'[c]) = Len(out[c]) + 1
        BY <1>0, <4>1
      <4> QED BY <1>0, <1>1, <4>1, <4>2, WrittenLines DEF Upgrading
    <3>2. CASE Unsent(c)
      BY <2>4, <3>2 DEF Upgrading
    <3> QED BY <2>4, <3>1, <3>2 DEF SendUpgrade
  <2>5. CASE ScanEnds(c)
    <3>1. /\ pc[c] = "scan" /\ pc'[c] = "wait" /\ UNCHANGED <<child, open, exits, wrote, out, method>>
          /\ \/ pipe[c] = << >> /\ Ended(c) /\ pipe' = pipe
             \/ pipe[c] # << >> /\ Head(pipe[c]) = "long"
      BY <2>5 DEF ScanEnds, EndOfInput
    <3>2. NoLong(wrote[c]) => pipe[c] = << >> /\ Ended(c) /\ pipe' = pipe
      BY <1>0, <3>1, WrittenLines DEF PipeLines
    <3> QED BY <1>0, <1>1, <3>1, <3>2, WrittenLines DEF Upgrading
  <2>6. CASE WaitUpgrade(c)
    <3>1. /\ pc[c] = "wait" /\ pipe'[c] = << >> /\ UNCHANGED <<child, exits, wrote, method>>
          /\ \/ pc'[c] = "over"
             \/ pc'[c] = "start" /\ out' = out /\ child[c] = "ok" /\ Len(exits[c]) = 1
      BY <2>6 DEF WaitUpgrade
    <3>2. CASE pc'[c] = "over"
      BY <3>2 DEF Upgrading
    <3>3. CASE pc'[c] = "start"
      <4>1. exits[c] = <<"ok">>
        BY <1>1, <3>1, <3>3 DEF Upgrading
      <4> QED BY <1>0, <1>1, <3>1, <3>3, <4>1, WrittenLines DEF Upgrading
    <3> QED BY <3>1, <3>2, <3>3
  <2> QED BY <1>1, <2>1, <2>2, <2>3, <2>4, <2>5, <2>6 DEF UpgradeSteps
<1>2. ASSUME Programs(c) \/ Failures(c) PROVE Upgrading(c)'
  <2>1. UNCHANGED callVars
    BY <1>2, ProgramStep
  <2> SUFFICES ASSUME method[c] \in Upgrade, pc[c] \in {"start", "scan", "check", "send", "wait"}
               PROVE  Upgrading(c)'
    BY <2>1 DEF callVars, Upgrading
  <2>2. CASE ~Alive(c)
    <3>1. wrote' = wrote /\ child'[c] = child[c] /\ exits' = exits /\ open' = open
      BY <1>2, <2>2, ProgramStep
    <3>2. pipe' = pipe
      BY <1>2, <2>2 DEF Programs, Failures, ChildSteps, ChildBegins, ChildWrites, ChildFinishes, ChildFails,
                        Collect, Alive
    <3> QED BY <2>1, <3>1, <3>2 DEF callVars, Upgrading, Alive, Ended
  <2>3. CASE Alive(c)
    <3>1. pc[c] # "start" /\ exits[c] \in {<< >>, <<"ok">>}
      BY <2>3 DEF Upgrading, Life, At, Alive, Ended
    <3>2. \/ Alive(c)' /\ exits'[c] = exits[c]
          \/ Ended(c)' /\ exits'[c] \in {<<child'[c]>>, <<"ok", child'[c]>>}
      <4>1. CASE child'[c] = child[c] /\ exits'[c] = exits[c]
        BY <2>3, <4>1 DEF Alive
      <4>2. CASE child'[c] = "running" /\ exits'[c] = exits[c]
        BY <4>2 DEF Alive
      <4>3. ASSUME NEW how \in {"ok", "failed"}, child'[c] = how, exits'[c] = Append(exits[c], how)
            PROVE  Ended(c)' /\ exits'[c] \in {<<child'[c]>>, <<"ok", child'[c]>>}
        <5>1. Append(<< >>, how) = <<how>> /\ Append(<<"ok">>, how) = <<"ok", how>>
          BY SecondEnd
        <5> QED BY <3>1, <4>3, <5>1 DEF Ended
      <4> QED BY <1>2, <4>1, <4>2, <4>3, ProgramStep
    <3>3. open' = open /\ pc' = pc /\ method' = method /\ out' = out
      BY <1>2, <2>1, ProgramStep DEF callVars
    <3>4. CASE wrote'[c] = wrote[c] /\ pipe'[c] = pipe[c]
      BY <2>3, <3>1, <3>2, <3>3, <3>4 DEF Upgrading, Alive, Ended
    <3>5. CASE ChildWrites(c)
      <4>1. /\ child' = child /\ exits' = exits /\ Head(todo[c]) \in Lines
            /\ wrote'[c] = Append(wrote[c], Head(todo[c]))
            /\ pipe'[c] = IF c \in open THEN Append(pipe[c], Head(todo[c])) ELSE pipe[c]
        <5>1. todo[c] # << >> /\ Head(todo[c]) \in Lines
          BY <1>0, <3>5 DEF ChildWrites
        <5> QED BY <3>5, <5>1 DEF ChildWrites, AgentTypeOK
      <4>2. /\ Len(wrote'[c]) = Len(wrote[c]) + 1
            /\ NoLong(wrote'[c]) => NoLong(wrote[c])
            /\ c \in open => Len(pipe'[c]) = Len(pipe[c]) + 1
        BY <1>0, <4>1, WrittenLines
      <4>3. NoLong(wrote'[c]) => pc[c] # "wait"
        <5>1. ~Ended(c)
          BY <2>3 DEF Alive, Ended
        <5> QED BY <4>2, <5>1 DEF Upgrading
      <4>4. c \in open \/ pc[c] = "wait"
        BY <3>1 DEF Upgrading
      <4>5. NoLong(wrote'[c]) =>
              Len(wrote'[c]) = Len(out[c]) + Len(pipe'[c]) + (IF pc[c] \in {"check", "send"} THEN 1 ELSE 0)
        <5>1. Len(wrote[c]) \in Nat /\ Len(pipe[c]) \in Nat
          BY <1>0
        <5>2. NoLong(wrote[c]) =>
                Len(wrote[c]) = Len(out[c]) + Len(pipe[c]) + (IF pc[c] \in {"check", "send"} THEN 1 ELSE 0)
          BY DEF Upgrading
        <5>3. ASSUME NoLong(wrote'[c])
              PROVE  Len(wrote'[c]) = Len(out[c]) + Len(pipe'[c]) + (IF pc[c] \in {"check", "send"} THEN 1 ELSE 0)
          <6>1. Len(pipe'[c]) = Len(pipe[c]) + 1 /\ NoLong(wrote[c]) /\ Len(wrote'[c]) = Len(wrote[c]) + 1
            BY <4>2, <4>3, <4>4, <5>3
          <6>2. Len(wrote[c]) = Len(out[c]) + Len(pipe[c]) + (IF pc[c] \in {"check", "send"} THEN 1 ELSE 0)
            BY <5>2, <6>1
          <6>3. Len(out[c]) \in Nat
            BY <1>0
          <6> DEFINE held == IF pc[c] \in {"check", "send"} THEN 1 ELSE 0
                     w == Len(wrote[c])
                     p == Len(pipe[c])
                     o == Len(out[c])
          <6>4. held \in Nat /\ w \in Nat /\ p \in Nat /\ o \in Nat /\ w = o + p + held
            BY <5>1, <6>2, <6>3
          <6> HIDE DEF held, w, p, o
          <6>5. w + 1 = o + (p + 1) + held
            BY <6>4
          <6> QED BY <6>1, <6>5 DEF held, w, p, o
        <5> QED BY <5>3
      <4> QED BY <3>1, <3>2, <3>3, <4>1, <4>3, <4>5, <2>3 DEF Upgrading, Alive, Ended
    <3>6. CASE ~ChildWrites(c)
      <4>1. wrote' = wrote /\ pipe' = pipe
        BY <1>2, <3>6 DEF Programs, Failures, ChildSteps, ChildBegins, ChildFinishes, ChildFails, Collect
      <4> QED BY <3>4, <4>1
    <3> QED BY <3>5, <3>6
  <2> QED BY <2>2, <2>3
<1>3. ASSUME Visits(c) PROVE Upgrading(c)'
  <2>1. UNCHANGED childVars
    BY <1>3 DEF Visits
  <2>2. CASE Invoke(c)
    <3>1. pc'[c] \in {"request", "over"}
      BY <2>2 DEF Invoke, AgentTypeOK
    <3> QED BY <3>1 DEF Upgrading
  <2>3. CASE Leave(c)
    BY <2>1, <2>3 DEF Leave, childVars, Upgrading, Alive, Ended
  <2> QED BY <1>3, <2>2, <2>3 DEF Visits
<1>4. ASSUME method'[c] \notin Upgrade PROVE Upgrading(c)'
  BY <1>4 DEF Upgrading
<1>5. ASSUME Asks(c) PROVE Upgrading(c)'
  <2>1. /\ pipe[c] = << >> /\ wrote[c] = << >> /\ exits[c] = << >> /\ out[c] = << >> /\ child[c] = "none"
        /\ UNCHANGED childVars
    BY <1>5, Asking DEF Idle, At
  <2>2. CASE Goes(c, "start")
    <3>1. pc'[c] = "start" /\ out'[c] = << >>
      BY <2>1, <2>2 DEF Goes, AgentTypeOK
    <3>2. pipe'[c] = << >> /\ wrote'[c] = << >> /\ exits'[c] = << >> /\ child'[c] = "none"
      BY <2>1 DEF childVars
    <3>3. Len(<< >>) = 0 /\ 0 = 0 + 0 + 0
      BY EmptySeq
    <3> QED BY <3>1, <3>2, <3>3 DEF Upgrading, Alive, Ended
  <2>3. CASE pc'[c] = "over"
    BY <2>3 DEF Upgrading
  <2> QED BY <1>5, <2>2, <2>3, Asking DEF Ends, AgentTypeOK
<1> QED BY <1>1, <1>2, <1>3, <1>4, <1>5, WhoseStep

\* Only the end of the second run tells a success.
LEMMA UpgradedStep ==
  ASSUME AgentTypeOK, NEW c \in Calls, Idle(c), ResultOf(c), Upgrading(c), Upgraded(c), Step(c)
  PROVE  Upgraded(c)'
<1>0. wrote[c] \in Seq(Lines) /\ out[c] \in Seq(Messages) /\ Len(out[c]) \in Nat
  BY DEF AgentTypeOK
<1>1. pc[c] # "over" => "success" \notin ToSet(out[c])
  BY <1>0 DEF ResultOf, ToSet, Final
<1>2. ASSUME method[c] \in Upgrade, UpgradeSteps(c) PROVE Upgraded(c)'
  <2> USE DEF Goes, Ends, Unsent, Sends, At, AgentTypeOK
  <2>1. CASE pc'[c] # "over"
    BY <2>1 DEF Upgraded
  <2>2. CASE out'[c] = out[c] /\ pc[c] # "over"
    BY <1>1, <2>2 DEF Upgraded
  <2>3. ASSUME NEW r, Ends(c, r, << >>), pc[c] # "over" PROVE Upgraded(c)'
    <3>1. out'[c] = out[c]
      BY <1>0, <2>3, ConcatEmptySeq
    <3> QED BY <2>2, <2>3, <3>1
  <2>4. ASSUME NEW r, Ends(c, r, <<"failure">>), pc[c] # "over" PROVE Upgraded(c)'
    <3>1. CASE c \notin clients
      BY <2>2, <2>4, <3>1
    <3>2. CASE c \in clients
      <4>1. out'[c] = Append(out[c], "failure")
        BY <1>0, <2>4, <3>2
      <4>2. "success" \notin ToSet(out'[c])
        BY <1>0, <1>1, <2>4, <4>1 DEF ToSet
      <4> QED BY <4>2 DEF Upgraded
    <3> QED BY <3>1, <3>2
  <2>5. CASE StartPhase(c) \/ ScanUpgrade(c) \/ CheckUpgrade(c) \/ SendUpgrade(c) \/ ScanEnds(c)
    BY <2>1, <2>3, <2>4, <2>5 DEF StartPhase, ScanUpgrade, CheckUpgrade, SendUpgrade, ScanEnds
  <2>6. CASE WaitUpgrade(c)
    <3>1. CASE pc'[c] = "start"
      BY <2>1, <3>1
    <3>2. CASE Ends(c, "error", <<"failure">>)
      BY <2>4, <2>6, <3>2 DEF WaitUpgrade
    <3>3. CASE child[c] # "failed" /\ ~(child[c] = "ok" /\ Len(exits[c]) = 1)
      <4>1. /\ pc[c] = "wait" /\ Ended(c) /\ UNCHANGED <<child, exits, wrote>>
            /\ clients' = clients /\ (c \notin clients => out'[c] = out[c])
            /\ (c \in clients => out'[c] = out[c] \o <<"success">>)
        BY <2>6, <3>3 DEF WaitUpgrade
      <4>2. child[c] = "ok" /\ exits[c] = <<"ok", "ok">>
        BY <1>2, <3>3, <4>1 DEF Upgrading, Ended, Alive
      <4>3. CASE c \notin clients
        BY <2>2, <4>1, <4>3
      <4>4. CASE c \in clients
        <5>1. Len(out'[c]) = Len(out[c]) + 1
          BY <1>0, <4>1, <4>4
        <5>2. NoLong(wrote[c]) => Len(wrote[c]) = Len(out[c])
          BY <1>0, <1>2, <4>1, EmptySeq DEF Upgrading
        <5> QED BY <1>0, <4>1, <4>2, <5>1, <5>2 DEF Upgraded, Alive
      <4> QED BY <4>3, <4>4
    <3> QED BY <2>6, <3>1, <3>2, <3>3 DEF WaitUpgrade
  <2> QED BY <1>2, <2>5, <2>6 DEF UpgradeSteps
<1>3. ASSUME Programs(c) \/ Failures(c) PROVE Upgraded(c)'
  <2>1. UNCHANGED callVars /\ (~Alive(c) => wrote' = wrote /\ child'[c] = child[c] /\ exits' = exits)
    BY <1>3, ProgramStep
  <2> QED BY <2>1 DEF Upgraded, callVars, Alive
<1>4. ASSUME Visits(c) PROVE Upgraded(c)'
  <2>1. UNCHANGED childVars
    BY <1>4 DEF Visits
  <2>2. CASE Invoke(c)
    <3>1. out'[c] = << >>
      BY <2>2 DEF Invoke, Idle
    <3>2. "success" \notin ToSet(out'[c])
      BY <3>1, EmptySeq DEF ToSet
    <3> QED BY <3>2 DEF Upgraded
  <2>3. CASE Leave(c)
    BY <2>1, <2>3 DEF Leave, childVars, Upgraded, Alive
  <2> QED BY <1>4, <2>2, <2>3 DEF Visits
<1>5. ASSUME method'[c] \notin Upgrade PROVE Upgraded(c)'
  BY <1>5 DEF Upgraded
<1>6. ASSUME Asks(c) PROVE Upgraded(c)'
  <2>1. out'[c] = << >>
    <3>1. out[c] = << >>
      BY <1>6, Asking DEF Idle, At
    <3>2. out[c] \o << >> = out[c]
      BY <1>0, ConcatEmptySeq
    <3>3. CASE Goes(c, "start")
      BY <3>1, <3>3 DEF Goes
    <3>4. CASE Ends(c, "unread", << >>)
      BY <3>1, <3>2, <3>4 DEF Ends, AgentTypeOK
    <3> QED BY <1>6, <3>3, <3>4, Asking
  <2>2. "success" \notin ToSet(out'[c])
    BY <2>1, EmptySeq DEF ToSet
  <2> QED BY <2>2 DEF Upgraded
<1> QED BY <1>2, <1>3, <1>4, <1>5, <1>6, WhoseStep

-----------------------------------------------------------------------------
(* The agent *)

Own(c) ==
  PlanOf(c) /\ Idle(c) /\ Life(c) /\ ResultOf(c) /\ PipeLines(c) /\ Upgrading(c) /\ Upgraded(c)

\* A call stays what it is under the steps of the others.
LEMMA OwnSame ==
  ASSUME NEW d, Same(d), Own(d)
  PROVE  Own(d)'
<1> USE DEF Same, Own
<1>1. PlanOf(d)' /\ Idle(d)'
  BY DEF PlanOf, Idle, At
<1>2. Life(d)'
  BY DEF Life, Alive, At
<1>3. ResultOf(d)' /\ PipeLines(d)'
  BY DEF ResultOf, PipeLines
<1>4. Upgrading(d)'
  BY DEF Upgrading, Alive, Ended
<1>5. Upgraded(d)'
  BY DEF Upgraded, Alive
<1> QED BY <1>1, <1>2, <1>3, <1>4, <1>5

LEMMA OwnStep ==
  AgentTypeOK /\ (\A c \in Calls : Own(c)) /\ [Next]_vars => (\A c \in Calls : Own(c))'
<1> SUFFICES ASSUME AgentTypeOK, \A c \in Calls : Own(c), [Next]_vars, NEW d \in Calls
             PROVE  Own(d)'
  OBVIOUS
<1>1. CASE Process \/ UNCHANGED vars
  BY <1>1, ProcessFrame, OwnSame
<1>2. ASSUME NEW c \in Calls, Step(c) PROVE Own(d)'
  <2>1. CASE d = c
    BY <1>2, <2>1, PlanOfStep, LifeStep, ResultOfStep, PipeLinesStep, UpgradingStep, UpgradedStep DEF Own
  <2>2. CASE d # c
    <3>1. Same(d)
      BY <1>2, <2>2, Frame
    <3> QED BY <3>1, OwnSame
  <2> QED BY <2>1, <2>2
<1> QED BY <1>1, <1>2 DEF Next, Step

LEMMA OwnInit == Init => \A c \in Calls : Own(c)
<1> SUFFICES ASSUME Init, NEW c \in Calls PROVE Own(c)
  OBVIOUS
<1> USE EmptySeq DEF Init, CallsInit, ChildrenInit, StreamsInit
<1>1. PlanOf(c) /\ Idle(c) /\ Life(c)
  BY DEF PlanOf, Idle, Life, At, Alive
<1>2. ResultOf(c)
  BY DEF ResultOf
<1>3. PipeLines(c) /\ Upgrading(c) /\ Upgraded(c)
  BY DEF PipeLines, Upgrading, Upgraded, NoLong, Upgrade
<1> QED BY <1>1, <1>2, <1>3 DEF Own

AgentInv == AgentTypeOK /\ \A c \in Calls : Own(c)

LEMMA AgentInvariant == Spec => []AgentInv
<1>1. Init => AgentInv
  BY TypesInit, OwnInit DEF AgentInv
<1>2. AgentInv /\ [Next]_vars => AgentInv'
  BY TypesStep, OwnStep DEF AgentInv, Own, Planned
<1> QED BY <1>1, <1>2, PTL DEF Spec

\* AgentSystem.AgentTypeOK holds of every run.
THEOREM AgentTypes == Spec => []AgentTypeOK
<1>1. AgentInv => AgentTypeOK
  BY DEF AgentInv
<1> QED BY <1>1, AgentInvariant, PTL

\* AgentSystem.NoStrayChild: only an upgrade that could not send a line leaves a program.
THEOREM NoProgramLeftBehind == Spec => []NoStrayChild
<1>1. AgentInv => NoStrayChild
  BY DEF AgentInv, Own, Life, NoStrayChild, At
<1> QED BY <1>1, AgentInvariant, PTL

\* AgentSystem.ResultTold: a result is told once and last, a success is never followed by
\* an error, and a client that stays is told a result unless gRPC's error is all it gets.
THEOREM ResultIsTold == Spec => []ResultTold
<1>1. AgentInv => ResultTold
  <2> SUFFICES ASSUME AgentInv, NEW c \in Calls
               PROVE  /\ \A i \in DOMAIN out[c] : out[c][i] \in Final =>
                           i = Len(out[c]) /\ pc[c] = "over" /\ result[c] \in {"ok", "error"}
                      /\ "success" \in ToSet(out[c]) => result[c] = "ok"
                      /\ pc[c] = "over" /\ c \in clients /\ method[c] \in Reporting /\ result[c] \in {"ok", "error"}
                           => out[c] # << >> /\ out[c][Len(out[c])] \in Final
    BY DEF ResultTold
  <2>1. out[c] \in Seq(Messages) /\ DOMAIN out[c] = 1 .. Len(out[c]) /\ ResultOf(c)
    BY DEF AgentInv, AgentTypeOK, Own
  <2>2. "success" \in ToSet(out[c]) => result[c] = "ok"
    BY <2>1 DEF ResultOf, ToSet, Final
  <2> QED BY <2>1, <2>2 DEF ResultOf
<1> QED BY <1>1, AgentInvariant, PTL

\* AgentSystem.UpgradeTold: a success that is told is two good runs, shown in full.
THEOREM UpgradeIsTold == Spec => []UpgradeTold
<1>1. ASSUME AgentInv, NEW c \in Calls, method[c] \in Upgrade, "success" \in ToSet(out[c])
      PROVE  /\ exits[c] = <<"ok", "ok">>
             /\ "long" \in ToSet(wrote[c]) \/ Len(out[c]) = Len(wrote[c]) + 1
  <2>1. out[c] \in Seq(Messages) /\ wrote[c] \in Seq(Lines)
    BY <1>1 DEF AgentInv, AgentTypeOK
  <2>2. PICK i \in 1 .. Len(out[c]) : out[c][i] = "success"
    BY <1>1, <2>1 DEF ToSet
  <2>3. pc[c] = "over"
    BY <1>1, <2>2 DEF AgentInv, Own, ResultOf, Final
  <2>4. NoLong(wrote[c]) \/ "long" \in ToSet(wrote[c])
    BY <2>1 DEF NoLong, ToSet
  <2> QED BY <1>1, <2>3, <2>4 DEF AgentInv, Own, Upgraded
<1>2. AgentInv => UpgradeTold
  BY <1>1 DEF UpgradeTold
<1> QED BY <1>2, AgentInvariant, PTL

-----------------------------------------------------------------------------
(* The package database *)

\* apt's locks are held by calls that run apt.
Held == \A l \in Locks, c \in Calls : locks[l] = c => method[c] \in Apt \cup Upgrade

LEMMA ReleasedHeld ==
  ASSUME AgentTypeOK, Held, NEW c \in Calls, method' = method, locks' = Released(c) \/ locks' = locks
  PROVE  Held'
BY NoneAssumption DEF Held, Released, AgentTypeOK

\* Only a handler that kills its program breaks the database.
LEMMA PackagesHeld ==
  ASSUME AgentTypeOK, Held, NEW c \in Calls, PackageSteps(c)
  PROVE  Held' /\ (db' = db \/ (CheckUpgrade(c) /\ c \notin clients))
<1> USE DEF Goes, Ends, Unsent, Sends, Spawns, Kills, Reads, childVars
<1>1. method' = method /\ (locks' = Released(c) \/ locks' = locks)
  BY DEF PackageSteps, RunCommand, CommandDone, StartPhase, ScanUpgrade, CheckUpgrade, SendUpgrade, ScanEnds,
         WaitUpgrade
<1>2. db' = db \/ (CheckUpgrade(c) /\ c \notin clients)
  <2>1. CASE CheckUpgrade(c)
    BY <2>1 DEF CheckUpgrade
  <2>2. CASE ~CheckUpgrade(c)
    BY <2>2 DEF PackageSteps, RunCommand, CommandDone, StartPhase, ScanUpgrade, SendUpgrade, ScanEnds, WaitUpgrade
  <2> QED BY <2>1, <2>2
<1> QED BY <1>1, <1>2, ReleasedHeld

LEMMA StreamsHeld ==
  ASSUME AgentTypeOK, Held, NEW c \in Calls, StreamSteps(c) \/ LogsEnd(c) \/ StatsUnsent(c)
  PROVE  Held' /\ db' = db
<1> USE DEF Goes, Ends, Unsent, Sends, Spawns, Reads, childVars
<1>1. ASSUME NEW r, method[c] \in Journal, JournalEnds(c, r)
      PROVE  method' = method /\ (locks' = Released(c) \/ locks' = locks) /\ db' = db
  <2>1. locks["dpkg"] # c
    BY <1>1 DEF Held, Locks, Journal, Apt, Upgrade
  <2> QED BY <1>1, <2>1 DEF JournalEnds, Kills
<1>2. method' = method /\ (locks' = Released(c) \/ locks' = locks) /\ db' = db
  BY <1>1 DEF StreamSteps, StartJournal, ScanJournal, SendJournal, CheckJournal, OpenLogs, SendEntry, LogsLeft,
              LogsEnd, StartTool, ToolDone, TellNext, StatsEnds, StatsUnsent, Command, At
<1> QED BY <1>2, ReleasedHeld

LEMMA OthersHeld ==
  ASSUME AgentTypeOK, Held, NEW c \in Calls, Idle(c), Programs(c) \/ Failures(c) \/ Visits(c) \/ Asks(c)
  PROVE  Held' /\ db' = db
<1>1. CASE ChildBegins(c) /\ Programs(c)
  <2>1. CASE Exits(c, "failed")
    BY <1>1, <2>1, ReleasedHeld DEF Exits, ChildBegins, Programs, callVars
  <2>2. CASE locks' = [l \in Locks |-> IF l \in LockOf(c) THEN c ELSE locks[l]]
    <3>1. LockOf(c) # {} => method[c] \in Apt \cup Upgrade
      BY DEF LockOf, Apt, Upgrade
    <3>2. method' = method /\ db' = db
      BY <1>1 DEF ChildBegins, Programs, callVars
    <3> QED BY <2>2, <3>1, <3>2 DEF Held
  <2> QED BY <1>1, <2>1, <2>2 DEF ChildBegins
<1>2. CASE Visits(c)
  BY <1>2 DEF Visits, Invoke, Leave, Idle, Held, childVars, AgentTypeOK, Apt, Upgrade
<1>3. CASE (Programs(c) /\ ~ChildBegins(c)) \/ Failures(c)
  <2>1. method' = method /\ db' = db /\ (locks' = Released(c) \/ locks' = locks)
    BY <1>3 DEF Programs, Failures, ChildSteps, ChildWrites, ChildFinishes, ChildFails, Collect, Exits, callVars
  <2> QED BY <2>1, ReleasedHeld
<1>4. CASE Asks(c)
  BY <1>4, Asking, ReleasedHeld DEF Goes, Ends, childVars
<1> QED BY <1>1, <1>2, <1>3, <1>4

LEMMA BrokenStep ==
  AgentInv /\ Held /\ BrokenOnlyByLeaver /\ [Next]_vars => Held' /\ BrokenOnlyByLeaver'
<1> SUFFICES ASSUME AgentInv, Held, BrokenOnlyByLeaver, [Next]_vars PROVE Held' /\ BrokenOnlyByLeaver'
  OBVIOUS
<1> DEFINE Left(d) == method[d] \in Upgrade /\ d \notin clients /\ pc[d] = "over"
<1>0. AgentTypeOK
  BY DEF AgentInv
<1>1. CASE Process \/ UNCHANGED vars
  <2>1. (\A d \in Calls : Same(d)) /\ UNCHANGED <<clients, locks, db>>
    BY <1>1, ProcessFrame
  <2> QED BY <2>1 DEF Held, BrokenOnlyByLeaver, Same
<1>2. ASSUME NEW c \in Calls, Step(c) PROVE Held' /\ BrokenOnlyByLeaver'
  <2>1. Held' /\ (db' = db \/ (CheckUpgrade(c) /\ c \notin clients))
    <3>1. Idle(c)
      BY DEF AgentInv, Own
    <3>2. CASE PackageSteps(c)
      BY <1>0, <3>2, PackagesHeld
    <3>3. CASE StreamSteps(c) \/ LogsEnd(c) \/ StatsUnsent(c)
      BY <1>0, <3>3, StreamsHeld
    <3>4. CASE Programs(c) \/ Failures(c) \/ Visits(c) \/ Asks(c)
      BY <1>0, <3>1, <3>4, OthersHeld
    <3> QED BY <1>2, <3>2, <3>3, <3>4, StepCases
  <2>2. ASSUME NEW d \in Calls, Left(d) PROVE Left(d)'
    <3>1. CASE d # c
      BY <1>0, <1>2, <2>2, <3>1, Frame DEF Same
    <3>2. CASE d = c
      <4>1. ~Visits(c) /\ ~Asks(c) /\ ~UpgradeSteps(c)
        BY <2>2, <3>2, Asking DEF Visits, Invoke, Leave, InFlight, UpgradeSteps, StartPhase, ScanUpgrade, CheckUpgrade,
                          SendUpgrade, ScanEnds, WaitUpgrade, At
      <4>2. Programs(c) \/ Failures(c)
        BY <1>0, <1>2, <2>2, <3>2, <4>1, WhoseStep
      <4> QED BY <2>2, <3>2, <4>2 DEF Programs, Failures, callVars
    <3> QED BY <3>1, <3>2
  <2>3. CASE db' = db
    BY <2>1, <2>2, <2>3 DEF BrokenOnlyByLeaver
  <2>4. CASE CheckUpgrade(c) /\ c \notin clients
    <3>1. Left(c)'
      BY <1>0, <2>4 DEF CheckUpgrade, Ends, At, AgentTypeOK
    <3> QED BY <2>1, <3>1 DEF BrokenOnlyByLeaver
  <2> QED BY <2>1, <2>3, <2>4
<1> QED BY <1>1, <1>2 DEF Next, Step

\* AgentSystem.BrokenOnlyByLeaver: only a client that leaves an upgrade breaks the database.
THEOREM DatabaseSound == Spec => []BrokenOnlyByLeaver
<1>1. Init => Held /\ BrokenOnlyByLeaver
  BY NoneAssumption DEF Init, CallsInit, ChildrenInit, Held, BrokenOnlyByLeaver
<1> QED BY <1>1, AgentInvariant, BrokenStep, PTL DEF Spec
-----------------------------------------------------------------------------
(* The promise *)

\* Where the program of a call that is no upgrade stands, and that what it is about
\* to tell is how the program ended.
OneRun(c) ==
  method[c] \notin Upgrade =>
    /\ pc[c] = "start" => child[c] = "none" /\ exits[c] = << >>
    /\ pc[c] \in {"run", "scan", "check", "send"} =>
         \/ Alive(c) /\ exits[c] = << >>
         \/ Ended(c) /\ exits[c] = <<child[c]>>
    /\ pc[c] = "tell" =>
         IF method[c] \in Commanded
         THEN /\ Ended(c) /\ exits[c] = <<child[c]>>
              /\ plan[c][Len(plan[c])] = IF child[c] = "ok" THEN "success" ELSE "failure"
         ELSE /\ child[c] = "none" /\ exits[c] = << >>
              /\ plan[c][Len(plan[c])] = "success"

\* What a tool has collected ends in a success.
LEMMA PlansEnd ==
  ASSUME NEW m \in Tools, NEW p \in Plans(m)
  PROVE  p[Len(p)] = "success"
<1>1. CASE m = "ScanPorts"
  BY <1>1, PortAssumption DEF Plans
<1>2. CASE m = "StreamPackageOperation"
  BY <1>2 DEF Plans
<1>3. ASSUME NEW s \in Seq(Messages) PROVE LET q == Append(s, "success") IN q[Len(q)] = "success"
  BY AppendProperties DEF Messages
<1>4. ASSUME NEW s \in Seq(Messages) PROVE LET q == s \o <<"success">> IN q[Len(q)] = "success"
  <2>1. <<"success">> \in Seq(Messages)
    BY DEF Messages
  <2> QED BY <1>3, <2>1
<1> DEFINE half == {<< >>} \cup {Append(s, "line") : s \in Some}
<1>5. CASE m = "TestNetworkSpeed"
  <2>1. PICK h \in half \X half : p = <<"line">> \o h[1] \o h[2] \o <<"success">>
    BY <1>5 DEF Plans, Some
  <2>2. \A x \in half : x \in Seq(Messages)
    BY SomeLines, EmptySeq
  <2>3. <<"line">> \o h[1] \o h[2] \in Seq(Messages)
    <3>1. h[1] \in Seq(Messages) /\ h[2] \in Seq(Messages) /\ <<"line">> \in Seq(Messages)
      BY <2>1, <2>2 DEF Messages
    <3> QED BY <3>1
  <2> QED BY <1>4, <2>1, <2>3
<1>6. CASE m \in Tools \ {"ScanPorts", "StreamPackageOperation", "TestNetworkSpeed"}
  <2>1. PICK s \in Some : p = Append(s, "success")
    BY <1>6 DEF Plans, Some
  <2> QED BY <1>3, <2>1, SomeLines
<1> QED BY <1>1, <1>2, <1>5, <1>6

LEMMA TailEnds ==
  ASSUME NEW p, Told(p), Len(p) # 1
  PROVE  Tail(p)[Len(Tail(p))] = p[Len(p)]
<1>1. /\ p \in Seq(Messages) /\ p # << >> /\ p[Len(p)] \in Final
      /\ \A i \in 1 .. Len(p) : i < Len(p) => p[i] = "line"
  BY DEF Told
<1>2. Len(p) \in Nat /\ Len(p) > 1
  BY <1>1
<1>3. Len(Tail(p)) = Len(p) - 1 /\ Tail(p)[Len(p) - 1] = p[Len(p)]
  BY <1>1, <1>2
<1> QED BY <1>3

LEMMA OneRunStep ==
  ASSUME AgentTypeOK, NEW c \in Calls, Idle(c), PlanOf(c), OneRun(c), Step(c)
  PROVE  OneRun(c)'
<1> USE DEF AgentTypeOK, At, Alive, Ended
<1>1. CASE UpgradeSteps(c) \/ method'[c] \in Upgrade
  <2>1. UpgradeSteps(c) => method[c] \in Upgrade /\ method' = method
    BY DEF UpgradeSteps, StartPhase, ScanUpgrade, CheckUpgrade, SendUpgrade, ScanEnds, WaitUpgrade, Goes,
           Sends, Ends, Unsent
  <2> QED BY <1>1, <2>1 DEF OneRun
<1>2. CASE RunCommand(c) \/ CommandDone(c)
  <2>1. CASE Goes(c, "run") /\ Spawns(c, FALSE) /\ pc[c] = "start"
    BY <2>1 DEF Goes, Spawns, OneRun
  <2>2. CASE pc'[c] = "over"
    BY <2>2 DEF OneRun
  <2> QED BY <1>2, <2>1, <2>2 DEF RunCommand, CommandDone, Ends, Unsent
<1>3. CASE StartJournal(c) \/ ScanJournal(c) \/ SendJournal(c) \/ CheckJournal(c)
  <2>1. \/ pc'[c] = "over"
        \/ /\ pc[c] = "start" /\ pc'[c] = "scan" /\ child'[c] = "starting"
           /\ UNCHANGED <<method, exits>>
        \/ /\ pc[c] \in {"scan", "check", "send"} /\ pc'[c] \in {"scan", "check", "send"}
           /\ UNCHANGED <<method, child, exits>>
    BY <1>3 DEF StartJournal, ScanJournal, SendJournal, CheckJournal, JournalEnds, Goes, Sends, Ends,
                Spawns, Reads, childVars
  <2> QED BY <2>1 DEF OneRun
<1>4. CASE OpenLogs(c) \/ SendEntry(c) \/ LogsLeft(c) \/ LogsEnd(c) \/ StatsEnds(c) \/ StatsUnsent(c) \/ Command(c)
  <2>1. pc'[c] \in {"over", "read"}
    BY <1>4 DEF OpenLogs, SendEntry, LogsLeft, LogsEnd, StatsEnds, StatsUnsent, Command, Goes, Sends, Ends, Unsent
  <2> QED BY <2>1 DEF OneRun
<1>5. CASE StartTool(c)
  <2>1. method[c] \in Tools /\ pc[c] = "start" /\ method' = method /\ method[c] \notin Upgrade
    BY <1>5 DEF StartTool, Goes, Tools, Upgrade
  <2>2. CASE method[c] \in Commanded
    BY <1>5, <2>1, <2>2 DEF StartTool, Goes, Spawns, OneRun
  <2>3. CASE method[c] \notin Commanded
    <3>1. PICK p \in Plans(method[c]) : plan' = [plan EXCEPT ![c] = p]
      BY <1>5, <2>3 DEF StartTool
    <3>2. plan'[c] = p /\ p[Len(p)] = "success"
      BY <2>1, <3>1, PlansEnd
    <3>3. pc'[c] = "tell" /\ UNCHANGED <<child, exits>>
      BY <1>5, <2>3 DEF StartTool, Goes, childVars
    <3> QED BY <2>1, <2>3, <3>2, <3>3 DEF OneRun
  <2> QED BY <2>2, <2>3
<1>6. CASE ToolDone(c)
  <2>1. /\ method[c] \in Commanded /\ method[c] \in Tools /\ method[c] \notin Upgrade
        /\ pc[c] = "run" /\ pc'[c] = "tell" /\ Ended(c) /\ UNCHANGED <<method, child, exits>>
    BY <1>6 DEF ToolDone, Goes, childVars, Commanded, Tools, Upgrade
  <2>2. PICK p \in IF child[c] = "ok" THEN Plans(method[c]) ELSE {<<"failure">>} :
          plan' = [plan EXCEPT ![c] = p]
    BY <1>6 DEF ToolDone
  <2>3. plan'[c] = p
    BY <2>2
  <2>4. p[Len(p)] = IF child[c] = "ok" THEN "success" ELSE "failure"
    <3>1. CASE child[c] = "ok"
      BY <2>1, <2>2, <3>1, PlansEnd
    <3>2. CASE child[c] # "ok"
      <4>1. p = <<"failure">>
        BY <2>2, <3>2
      <4> QED BY <3>2, <4>1
    <3> QED BY <3>1, <3>2
  <2> QED BY <2>1, <2>3, <2>4 DEF OneRun
<1>7. CASE TellNext(c)
  <2>1. CASE pc'[c] = "over"
    BY <2>1 DEF OneRun
  <2>2. CASE pc'[c] # "over"
    <3>1. /\ pc[c] = "tell" /\ pc'[c] = "tell" /\ plan'[c] = Tail(plan[c]) /\ Len(plan[c]) # 1 /\ Told(plan[c])
          /\ UNCHANGED <<method, child, exits>>
      BY <1>7, <2>2 DEF TellNext, Unsent, Ends, Sends, childVars, PlanOf
    <3>2. Tail(plan[c])[Len(Tail(plan[c]))] = plan[c][Len(plan[c])]
      BY <3>1, TailEnds
    <3>3. method[c] \notin Upgrade
      BY <1>7 DEF TellNext, Tools, Upgrade
    <3> QED BY <3>1, <3>2, <3>3 DEF OneRun
  <2> QED BY <2>1, <2>2
<1>8. CASE Programs(c) \/ Failures(c)
  <2>1. UNCHANGED callVars /\ UNCHANGED plan
    BY <1>8, ProgramStep DEF Programs, Failures, Keeps
  <2>2. CASE ~Alive(c)
    <3>1. child'[c] = child[c] /\ exits' = exits
      BY <1>8, <2>2, ProgramStep
    <3> QED BY <2>1, <3>1 DEF callVars, OneRun
  <2>3. CASE Alive(c)
    <3>1. \/ Alive(c)' /\ exits'[c] = exits[c]
          \/ Ended(c)' /\ exits'[c] = Append(exits[c], child'[c])
      BY <1>8, <2>3, ProgramStep
    <3>2. exits[c] = << >> => Append(exits[c], child'[c]) = <<child'[c]>>
      OBVIOUS
    <3> QED BY <2>1, <2>3, <3>1, <3>2 DEF callVars, OneRun
  <2> QED BY <2>2, <2>3
<1>9. CASE Visits(c)
  <2>1. CASE Invoke(c)
    <3>1. pc'[c] \in {"request", "over"}
      BY <2>1 DEF Invoke
    <3> QED BY <3>1 DEF OneRun
  <2>2. CASE Leave(c)
    BY <1>9, <2>2 DEF Visits, Leave, childVars, Keeps, OneRun
  <2> QED BY <1>9, <2>1, <2>2 DEF Visits
<1>10. CASE Asks(c)
  <2>1. pc'[c] \in {"start", "over"} /\ child'[c] = "none" /\ exits'[c] = << >>
    BY <1>10, Asking DEF Goes, Ends, Idle, childVars
  <2> QED BY <2>1 DEF OneRun
<1> QED BY <1>1, <1>2, <1>3, <1>4, <1>5, <1>6, <1>7, <1>8, <1>9, <1>10, StepCases
        DEF PackageSteps, StreamSteps, UpgradeSteps

\* The second program of an upgrade works on the database, not the first.
DpkgHeld == \A c \in Calls : locks["dpkg"] = c /\ method[c] \in Upgrade => exits[c] # << >>

LEMMA DpkgStep ==
  ASSUME AgentTypeOK, Held, DpkgHeld, NEW c \in Calls, Idle(c), Step(c)
  PROVE  DpkgHeld'
<1> USE DEF AgentTypeOK
<1>1. \A d \in Calls \ {c} : Same(d)
  BY Frame
<1>2. locks' = locks \/ locks' = Released(c) \/ (ChildBegins(c) /\ Programs(c))
  BY StepCases, Asking
  DEF PackageSteps, RunCommand, CommandDone, StartPhase, ScanUpgrade, CheckUpgrade, SendUpgrade, ScanEnds,
      WaitUpgrade, StreamSteps, StartJournal, ScanJournal, SendJournal, CheckJournal, JournalEnds, OpenLogs,
      SendEntry, LogsLeft, LogsEnd, StartTool, ToolDone, TellNext, StatsEnds, StatsUnsent, Command, Spawns, Kills,
      Reads, childVars, Programs, Failures, Visits, ChildSteps, ChildWrites, ChildFinishes, ChildFails, Collect,
      Exits
<1>3. exits'[c] = exits[c] \/ \E how \in {"ok", "failed"} : exits'[c] = Append(exits[c], how)
  BY StepCases, Asking
  DEF PackageSteps, RunCommand, CommandDone, StartPhase, ScanUpgrade, CheckUpgrade, SendUpgrade, ScanEnds,
      WaitUpgrade, StreamSteps, StartJournal, ScanJournal, SendJournal, CheckJournal, JournalEnds, OpenLogs,
      SendEntry, LogsLeft, LogsEnd, StartTool, ToolDone, TellNext, StatsEnds, StatsUnsent, Command, Spawns, Kills,
      Reads, childVars, Programs, Failures, Visits, ChildSteps, ChildBegins, ChildWrites, ChildFinishes,
      ChildFails, Collect, Exits
<1>4. exits[c] # << >> => exits'[c] # << >>
  <2>1. exits[c] \in Seq({"ok", "failed"})
    OBVIOUS
  <2>2. \A how \in {"ok", "failed"} : Append(exits[c], how) # << >>
    <3>1. \A how \in {"ok", "failed"} : Len(Append(exits[c], how)) = Len(exits[c]) + 1
      BY <2>1
    <3>2. Len(exits[c]) + 1 # 0 /\ Len(<< >>) = 0
      BY <2>1, LenProperties, EmptySeq
    <3> QED BY <3>1, <3>2
  <2> QED BY <1>3, <2>2
<1>5. Visits(c) => locks["dpkg"] # c \/ method'[c] = method[c]
  BY DEF Visits, Invoke, Leave, Held, Idle, Locks, Apt, Upgrade
<1>6. ~Visits(c) => method' = method
  BY StepCases, Asking
  DEF PackageSteps, RunCommand, CommandDone, StartPhase, ScanUpgrade, CheckUpgrade, SendUpgrade, ScanEnds,
      WaitUpgrade, StreamSteps, StartJournal, ScanJournal, SendJournal, CheckJournal, JournalEnds, OpenLogs,
      SendEntry, LogsLeft, LogsEnd, StartTool, ToolDone, TellNext, StatsEnds, StatsUnsent, Command, Programs,
      Failures, callVars, Goes, Sends, Ends, Unsent
<1>7. ASSUME NEW d \in Calls, locks'["dpkg"] = d, method'[d] \in Upgrade PROVE exits'[d] # << >>
  <2>1. CASE locks["dpkg"] = d
    BY <1>1, <1>4, <1>5, <1>6, <1>7, <2>1 DEF DpkgHeld, Same
  <2>2. CASE locks["dpkg"] # d
    <3>1. ChildBegins(c) /\ Programs(c) /\ d = c /\ "dpkg" \in LockOf(c) /\ UNCHANGED exits
      BY <1>2, <1>7, <2>2, NoneAssumption DEF Released, ChildBegins, Exits, Locks
    <3>2. method[c] = "StreamSystemUpgrade" /\ exits' = exits
      BY <1>7, <3>1 DEF Upgrade, Programs, callVars
    <3>3. exits[c] = << >> => LockOf(c) = {"lists"}
      BY <3>2 DEF LockOf, Apt
    <3> QED BY <3>1, <3>2, <3>3
  <2> QED BY <2>1, <2>2
<1> QED BY <1>7 DEF DpkgHeld

PromiseInv ==
  /\ AgentInv /\ Held /\ DpkgHeld /\ BrokenOnlyByLeaver
  /\ \A c \in Calls : OneRun(c)

LEMMA PromiseInvStep == PromiseInv /\ [Next]_vars => PromiseInv'
<1> SUFFICES ASSUME PromiseInv, [Next]_vars PROVE PromiseInv'
  OBVIOUS
<1> USE DEF PromiseInv, AgentInv
<1>1. AgentInv' /\ Held' /\ BrokenOnlyByLeaver'
  BY TypesStep, OwnStep, BrokenStep DEF Own, Planned
<1>2. ASSUME NEW d, Same(d), OneRun(d) PROVE OneRun(d)'
  BY <1>2 DEF OneRun, Same, Alive, Ended
<1>3. CASE Process \/ UNCHANGED vars
  <2>1. (\A d \in Calls : Same(d)) /\ UNCHANGED locks
    BY <1>3, ProcessFrame
  <2> QED BY <1>1, <1>2, <2>1 DEF DpkgHeld, Same
<1>4. ASSUME NEW c \in Calls, Step(c) PROVE DpkgHeld' /\ \A d \in Calls : OneRun(d)'
  <2>1. DpkgHeld'
    BY <1>4, DpkgStep DEF Own
  <2>2. OneRun(c)'
    BY <1>4, OneRunStep DEF Own
  <2>3. \A d \in Calls \ {c} : Same(d)
    BY <1>4, Frame
  <2> QED BY <1>2, <2>1, <2>2, <2>3
<1> QED BY <1>1, <1>3, <1>4 DEF Next, Step

LEMMA PromiseInvariant == Spec => []PromiseInv
<1>1. Init => Held /\ DpkgHeld /\ BrokenOnlyByLeaver
  BY NoneAssumption DEF Init, CallsInit, ChildrenInit, Held, DpkgHeld, BrokenOnlyByLeaver, Locks
<1>2. Init => \A c \in Calls : OneRun(c)
  BY DEF Init, CallsInit, ChildrenInit, OneRun, Alive, Ended
<1>3. Init => PromiseInv
  BY <1>1, <1>2, TypesInit, OwnInit DEF PromiseInv, AgentInv
<1> QED BY <1>3, PromiseInvStep, PTL DEF Spec

\* A call that is being worked on.
Working(c) == pc[c] \notin {"idle", "request", "over"}

\* What the abstract agent sees of a step of call c, where only c's call changes.
LEMMA SeenOf ==
  ASSUME NEW c \in Calls, \A d \in Calls \ {c} : Same(d)
  PROVE  /\ Stage' = [Stage EXCEPT ![c] = IF Working(c)' THEN "working" ELSE pc'[c]]
         /\ Stage[c] = IF Working(c) THEN "working" ELSE pc[c]
         /\ Living' = IF Alive(c)' THEN Living \cup {c} ELSE Living \ {c}
         /\ c \in Living <=> Alive(c)
BY DEF Stage, Living, Working, Same, Alive

\* A step of call c is one of the abstract agent, or nothing to it.
Kept(c) == Promise!PromiseStep(c) \/ UNCHANGED Promise!promiseVars

LEMMA GoesOnKept ==
  ASSUME NEW c \in Calls, \A d \in Calls \ {c} : Same(d), Working(c), Working(c)', Alive(c)' <=> Alive(c),
         UNCHANGED <<agent, method, clients, out, exits, db>>
  PROVE  Kept(c)
<1>1. Stage' = Stage /\ Living' = Living
  BY DEF Stage, Living, Working, Same, Alive
<1> QED BY <1>1 DEF Kept, Promise!promiseVars

LEMMA StartKept ==
  ASSUME NEW c \in Calls, \A d \in Calls \ {c} : Same(d), Working(c), Working(c)', ~Alive(c), Alive(c)',
         UNCHANGED <<agent, method, clients, out, exits, db>>,
         \/ exits[c] = << >> /\ Runs[method[c]] \in {1, 2}
         \/ exits[c] = <<"ok">> /\ Runs[method[c]] = 2
  PROVE  Kept(c)
<1>1. Stage' = Stage
  BY DEF Stage, Working, Same
<1>2. Len(exits[c]) < Runs[method[c]] /\ \A i \in DOMAIN exits[c] : exits[c][i] = "ok"
  <2>1. CASE exits[c] = << >>
    BY <2>1
  <2>2. CASE exits[c] = <<"ok">>
    BY <2>2
  <2> QED BY <2>1, <2>2
<1>3. Promise!Starts(c)
  BY <1>1, <1>2, SeenOf DEF Promise!Starts, Promise!AllWell
<1> QED BY <1>3 DEF Kept, Promise!PromiseStep

LEMMA ShowKept ==
  ASSUME AgentTypeOK, NEW c \in Calls, \A d \in Calls \ {c} : Same(d), Working(c), NEW p, Sends(c, "line", p),
         p \notin {"idle", "request", "over"}, UNCHANGED <<child, exits, db>>
  PROVE  Kept(c)
<1>1. Working(c)' /\ (Alive(c)' <=> Alive(c))
  BY DEF AgentTypeOK, Sends, Working, Alive
<1>2. Stage' = Stage /\ Living' = Living
  BY <1>1 DEF Stage, Living, Working, Same, Alive
<1>3. Promise!Shows(c)
  BY <1>2, SeenOf DEF Sends, Promise!Shows
<1> QED BY <1>3 DEF Kept, Promise!PromiseStep

LEMMA TellKept ==
  ASSUME AgentTypeOK, NEW c \in Calls, \A d \in Calls \ {c} : Same(d), Working(c), ~Alive(c),
         method[c] \in Reporting, NEW r, NEW v \in {"success", "failure"}, Ends(c, r, <<v>>),
         Promise!True(c, v), UNCHANGED <<child, exits, db>>
  PROVE  Kept(c)
<1>1. pc'[c] = "over" /\ ~Alive(c)' /\ ~Working(c)'
  BY DEF AgentTypeOK, Ends, Alive, Working
<1>2. Living' = Living
  BY <1>1 DEF Living, Alive
<1>3. out[c] \o <<v>> = Append(out[c], v)
  <2>1. out[c] \in Seq(Messages) /\ v \in Messages
    BY DEF AgentTypeOK, Messages
  <2> QED BY <2>1
<1>4. out' = IF c \in clients THEN [out EXCEPT ![c] = Append(@, v)] ELSE out
  BY <1>3 DEF Ends
<1>5. Promise!Tells(c)
  BY <1>1, <1>2, <1>4, SeenOf DEF Ends, Promise!Tells
<1> QED BY <1>5 DEF Kept, Promise!PromiseStep

LEMMA EndsSilent ==
  ASSUME AgentTypeOK, NEW c \in Calls, NEW r, Ends(c, r, << >>)
  PROVE  /\ UNCHANGED <<agent, method, clients, out>> /\ pc'[c] = "over" /\ ~Working(c)'
<1>1. out[c] \o << >> = out[c]
  BY ConcatEmptySeq DEF AgentTypeOK
<1>2. out' = out
  BY <1>1 DEF Ends, AgentTypeOK
<1> QED BY <1>2 DEF Ends, AgentTypeOK, Working

LEMMA QuitKept ==
  ASSUME AgentTypeOK, NEW c \in Calls, \A d \in Calls \ {c} : Same(d), Working(c), ~Alive(c),
         NEW r, Ends(c, r, << >>), UNCHANGED <<child, exits, db>>,
         \/ c \notin clients
         \/ method[c] \in Methods \ Reporting
         \/ method[c] \in Upgrade \cup ProcessMethods \cup {"Traceroute"}
         \/ method[c] \in Buffered /\ ~Promise!Succeeded(c)
  PROVE  Kept(c)
<1>1. Living' = Living /\ ~Alive(c)'
  BY DEF Living, Alive
<1>2. Promise!Quits(c)
  BY <1>1, EndsSilent, SeenOf DEF Promise!Quits
<1> QED BY <1>2 DEF Kept, Promise!PromiseStep

LEMMA KillKept ==
  ASSUME AgentTypeOK, NEW c \in Calls, \A d \in Calls \ {c} : Same(d), Working(c), Alive(c),
         NEW r, Ends(c, r, << >>), Kills(c),
         c \notin clients \/ method[c] \in Methods \ Reporting,
         locks["dpkg"] = c => method[c] \in Upgrade /\ exits[c] = <<"ok">> /\ c \notin clients
  PROVE  Kept(c)
<1>1. /\ ~Alive(c)' /\ exits' = [exits EXCEPT ![c] = Append(@, "failed")]
      /\ db' # db => db' = "broken" /\ locks["dpkg"] = c
  BY DEF Kills, Alive, AgentTypeOK
<1>2. Promise!Kills(c)
  BY <1>1, EndsSilent, SeenOf DEF Promise!Kills
<1> QED BY <1>2 DEF Kept, Promise!PromiseStep

LEMMA AbandonKept ==
  ASSUME AgentTypeOK, NEW c \in Calls, \A d \in Calls \ {c} : Same(d), Working(c), Alive(c),
         NEW r, Ends(c, r, << >>), UNCHANGED <<child, exits, db>>,
         method[c] \in Upgrade
  PROVE  Kept(c)
<1>1. Living' = Living /\ Alive(c)'
  BY DEF Living, Alive
<1>2. Promise!Abandons(c)
  BY <1>1, EndsSilent, SeenOf DEF Promise!Abandons
<1> QED BY <1>2 DEF Kept, Promise!PromiseStep

\* How many programs a method runs.
LEMMA RunsOf ==
  ASSUME NEW m
  PROVE  /\ m \in Upgrade => Runs[m] = 2
         /\ m \in Buffered \cup Commanded \cup Journal => Runs[m] = 1
         /\ m \in Methods \ (Upgrade \cup Buffered \cup Commanded \cup Journal) => Runs[m] = 0
BY DEF Runs, Methods, Unary, Streams, Upgrade, Buffered, Commanded, Journal, Apt, Tools

\* When all programs of a call have ended well.
LEMMA SucceededIs ==
  ASSUME NEW c \in Calls
  PROVE  /\ exits[c] = << >> => (Promise!Succeeded(c) <=> Runs[method[c]] = 0)
         /\ \A x \in {"ok", "failed"} :
              /\ exits[c] = <<x>> => (Promise!Succeeded(c) <=> Runs[method[c]] = 1 /\ x = "ok")
              /\ exits[c] = <<"ok", x>> => (Promise!Succeeded(c) <=> Runs[method[c]] = 2 /\ x = "ok")
<1> USE DEF Promise!Succeeded, Promise!AllWell
<1>1. ASSUME exits[c] = << >> PROVE Promise!Succeeded(c) <=> Runs[method[c]] = 0
  BY <1>1
<1>2. ASSUME NEW x \in {"ok", "failed"}, exits[c] = <<x>>
      PROVE  Promise!Succeeded(c) <=> Runs[method[c]] = 1 /\ x = "ok"
  BY <1>2
<1>3. ASSUME NEW x \in {"ok", "failed"}, exits[c] = <<"ok", x>>
      PROVE  Promise!Succeeded(c) <=> Runs[method[c]] = 2 /\ x = "ok"
  BY <1>3
<1> QED BY <1>1, <1>2, <1>3

LEMMA PackagesKept ==
  ASSUME PromiseInv, NEW c \in Calls, PackageSteps(c), Keeps
  PROVE  Kept(c)
<1>1. AgentTypeOK /\ OneRun(c) /\ Upgrading(c) /\ Life(c) /\ DpkgHeld
  BY DEF PromiseInv, AgentInv, Own
<1>2. \A d \in Calls \ {c} : Same(d)
  BY <1>1, PackagesFrame
<1> USE <1>1, <1>2 DEF At, Working
<1>3. ASSUME method[c] \in Buffered
      PROVE  /\ method[c] \notin Upgrade /\ method[c] \in Reporting /\ Runs[method[c]] = 1
  BY <1>3, RunsOf DEF Buffered, Apt, Upgrade, Reporting, Methods, Unary, Journal, ContainerLogs
<1>4. ASSUME method[c] \in Upgrade PROVE Runs[method[c]] = 2 /\ method[c] \in Reporting
  BY <1>4, RunsOf DEF Upgrade, Reporting, Methods, Streams, Journal, ContainerLogs
<1>5. CASE RunCommand(c)
  <2>1. /\ pc[c] = "start" /\ method[c] \in Buffered /\ child[c] = "none" /\ exits[c] = << >>
    BY <1>3, <1>5 DEF RunCommand, OneRun
  <2>2. CASE Goes(c, "run") /\ Spawns(c, FALSE)
    <3>1. Alive(c)' /\ pc'[c] = "run" /\ UNCHANGED <<agent, method, clients, out, exits, db>>
      BY <2>2 DEF Goes, Spawns, Alive, AgentTypeOK
    <3> QED BY <1>3, <2>1, <3>1, StartKept DEF Alive
  <2>3. CASE Ends(c, "ok", <<"failure">>) /\ UNCHANGED childVars
    <3>1. Promise!True(c, "failure")
      BY <1>3, <2>1, SucceededIs DEF Promise!True
    <3> QED BY <1>3, <2>1, <2>3, <3>1, TellKept DEF childVars, Alive
  <2> QED BY <1>5, <2>2, <2>3 DEF RunCommand
<1>6. CASE CommandDone(c)
  <2>1. /\ pc[c] = "run" /\ method[c] \in Buffered /\ Ended(c) /\ ~Alive(c) /\ exits[c] = <<child[c]>>
        /\ UNCHANGED <<child, exits, db>>
    BY <1>3, <1>6 DEF CommandDone, OneRun, Alive, Ended, childVars
  <2>2. CASE child[c] # "ok" /\ Unsent(c)
    <3>1. ~Promise!Succeeded(c)
      BY <1>3, <2>1, <2>2, SucceededIs DEF Ended
    <3> QED BY <1>3, <2>1, <2>2, <3>1, QuitKept DEF Unsent
  <2>3. ASSUME NEW v \in {"success", "failure"}, Ends(c, "ok", <<v>>), v = "success" <=> child[c] = "ok"
        PROVE  Kept(c)
    <3>1. Promise!True(c, v)
      BY <1>3, <2>1, <2>3, SucceededIs DEF Promise!True, Ended
    <3> QED BY <1>3, <2>1, <2>3, <3>1, TellKept
  <2> QED BY <1>6, <2>2, <2>3 DEF CommandDone
<1>7. CASE StartPhase(c)
  <2>1. /\ pc[c] = "start" /\ method[c] \in Upgrade /\ ~Alive(c) /\ exits[c] \in {<< >>, <<"ok">>}
    BY <1>7 DEF StartPhase, Upgrading, Life
  <2>2. ~Promise!Succeeded(c)
    BY <1>4, <2>1, SucceededIs
  <2>3. CASE Goes(c, "scan") /\ Spawns(c, TRUE)
    <3>1. Alive(c)' /\ pc'[c] = "scan" /\ UNCHANGED <<agent, method, clients, out, exits, db>>
      BY <2>3 DEF Goes, Spawns, Alive, AgentTypeOK
    <3> QED BY <1>4, <2>1, <3>1, StartKept
  <2>4. CASE Ends(c, "nopipe", << >>) /\ UNCHANGED childVars
    BY <2>1, <2>2, <2>4, QuitKept DEF childVars
  <2>5. CASE Ends(c, "error", <<"failure">>) /\ UNCHANGED childVars
    BY <1>4, <2>1, <2>2, <2>5, TellKept DEF childVars, Promise!True
  <2> QED BY <1>7, <2>3, <2>4, <2>5 DEF StartPhase
<1>8. CASE ScanUpgrade(c) \/ ScanEnds(c)
  <2>1. /\ pc[c] = "scan" /\ pc'[c] \in {"check", "wait"}
        /\ UNCHANGED <<agent, method, clients, out, child, exits, db>>
    BY <1>8 DEF ScanUpgrade, ScanEnds, Goes, Reads, childVars, AgentTypeOK
  <2> QED BY <2>1, GoesOnKept DEF Alive
<1>9. CASE CheckUpgrade(c)
  <2>1. pc[c] = "check" /\ method[c] \in Upgrade
    BY <1>9 DEF CheckUpgrade
  <2>2. CASE c \in clients
    <3>1. pc'[c] = "send" /\ UNCHANGED <<agent, method, clients, out, child, exits, db>>
      BY <1>9, <2>2 DEF CheckUpgrade, Goes, childVars, AgentTypeOK
    <3> QED BY <2>1, <3>1, GoesOnKept DEF Alive
  <2>3. CASE c \notin clients /\ Alive(c)
    <3>1. locks["dpkg"] = c => exits[c] = <<"ok">>
      <4>1. exits[c] \in {<< >>, <<"ok">>}
        BY <2>1, <2>3 DEF Upgrading, Alive, Ended
      <4> QED BY <2>1, <4>1 DEF DpkgHeld
    <3> QED BY <1>9, <2>1, <2>3, <3>1, KillKept DEF CheckUpgrade
  <2>4. CASE c \notin clients /\ ~Alive(c)
    BY <1>9, <2>1, <2>4, QuitKept DEF CheckUpgrade, Kills, childVars
  <2> QED BY <2>2, <2>3, <2>4
<1>10. CASE SendUpgrade(c)
  <2>1. pc[c] = "send" /\ method[c] \in Upgrade /\ UNCHANGED <<child, exits, db>>
    BY <1>10 DEF SendUpgrade, childVars
  <2>2. CASE Sends(c, "line", "scan")
    BY <2>1, <2>2, ShowKept
  <2>3. CASE Unsent(c) /\ Alive(c)
    BY <2>1, <2>3, AbandonKept DEF Unsent
  <2>4. CASE Unsent(c) /\ ~Alive(c)
    BY <2>1, <2>4, QuitKept DEF Unsent
  <2> QED BY <1>10, <2>2, <2>3, <2>4 DEF SendUpgrade
<1>11. CASE WaitUpgrade(c)
  <2>1. /\ pc[c] = "wait" /\ method[c] \in Upgrade /\ Ended(c) /\ ~Alive(c)
        /\ exits[c] \in {<<child[c]>>, <<"ok", child[c]>>} /\ UNCHANGED <<child, exits, db>>
    BY <1>11 DEF WaitUpgrade, Upgrading, Alive, Ended
  <2>2. CASE child[c] = "failed"
    <3>1. Promise!True(c, "failure")
      BY <1>4, <2>1, <2>2, SucceededIs DEF Promise!True
    <3>2. Ends(c, "error", <<"failure">>)
      BY <1>11, <2>2 DEF WaitUpgrade
    <3> QED BY <1>4, <2>1, <3>1, <3>2, TellKept
  <2>3. CASE child[c] = "ok" /\ Len(exits[c]) = 1
    <3>1. pc'[c] = "start" /\ UNCHANGED <<agent, method, clients, out>>
      BY <1>11, <2>3 DEF WaitUpgrade, Goes, AgentTypeOK
    <3> QED BY <2>1, <3>1, GoesOnKept DEF Alive
  <2>4. CASE child[c] = "ok" /\ Len(exits[c]) # 1
    <3>1. exits[c] = <<"ok", "ok">>
      BY <2>1, <2>4
    <3>2. Promise!True(c, "success")
      BY <1>4, <2>1, <3>1, SucceededIs DEF Promise!True
    <3>3. CASE c \in clients
      <4>1. Ends(c, "ok", <<"success">>)
        BY <1>11, <2>4, <3>3 DEF WaitUpgrade
      <4> QED BY <1>4, <2>1, <3>2, <4>1, TellKept
    <3>4. CASE c \notin clients
      <4>1. Ends(c, "unsent", << >>)
        BY <1>11, <2>4, <3>4 DEF WaitUpgrade, Unsent
      <4> QED BY <2>1, <3>4, <4>1, QuitKept
    <3> QED BY <3>3, <3>4
  <2> QED BY <2>1, <2>2, <2>3, <2>4 DEF Ended
<1> QED BY <1>5, <1>6, <1>7, <1>8, <1>9, <1>10, <1>11 DEF PackageSteps

LEMMA JournalKept ==
  ASSUME PromiseInv, NEW c \in Calls, \A d \in Calls \ {c} : Same(d), method[c] \in Journal, Working(c),
         NEW r, JournalEnds(c, r)
  PROVE  Kept(c)
<1>1. AgentTypeOK /\ method[c] \in Methods \ Reporting /\ Ends(c, r, << >>) /\ Kills(c)
  BY DEF PromiseInv, AgentInv, JournalEnds, Journal, Reporting, Methods, Streams
<1>2. locks["dpkg"] # c
  BY DEF PromiseInv, Held, Locks, Journal, Apt, Upgrade
<1>3. CASE Alive(c)
  BY <1>1, <1>2, <1>3, KillKept
<1>4. CASE ~Alive(c)
  BY <1>1, <1>4, QuitKept DEF Kills, childVars
<1> QED BY <1>3, <1>4

LEMMA StreamsKept ==
  ASSUME PromiseInv, NEW c \in Calls, StreamSteps(c) \/ LogsEnd(c) \/ StatsUnsent(c)
  PROVE  Kept(c)
<1>1. AgentTypeOK /\ OneRun(c) /\ PlanOf(c) /\ Life(c)
  BY DEF PromiseInv, AgentInv, Own
<1>2. \A d \in Calls \ {c} : Same(d)
  BY <1>1, StreamsFrame
<1> USE <1>1, <1>2 DEF At, Working
<1>3. ASSUME method[c] \in Journal
      PROVE  method[c] \notin Upgrade /\ method[c] \in Methods \ Reporting /\ Runs[method[c]] = 1
  BY <1>3, RunsOf DEF Journal, Upgrade, Reporting, Methods, Streams
<1>4. CASE StartJournal(c)
  <2>1. pc[c] = "start" /\ method[c] \in Journal /\ child[c] = "none" /\ exits[c] = << >>
    BY <1>3, <1>4 DEF StartJournal, OneRun
  <2>2. CASE Goes(c, "scan") /\ Spawns(c, TRUE)
    <3>1. Alive(c)' /\ pc'[c] = "scan" /\ UNCHANGED <<agent, method, clients, out, exits, db>>
      BY <2>2 DEF Goes, Spawns, Alive, AgentTypeOK
    <3> QED BY <1>3, <2>1, <3>1, StartKept DEF Alive
  <2>3. CASE Ends(c, "error", << >>) /\ UNCHANGED childVars
    BY <1>3, <2>1, <2>3, QuitKept DEF childVars, Alive
  <2> QED BY <1>4, <2>2, <2>3 DEF StartJournal
<1>5. CASE ScanJournal(c)
  <2>1. CASE Reads(c) /\ Goes(c, "send")
    <3>1. /\ pc[c] = "scan" /\ pc'[c] = "send"
          /\ UNCHANGED <<agent, method, clients, out, child, exits, db>>
      BY <1>5, <2>1 DEF ScanJournal, Goes, Reads, AgentTypeOK
    <3> QED BY <3>1, GoesOnKept DEF Alive
  <2> QED BY <1>5, <2>1, JournalKept DEF ScanJournal
<1>6. CASE SendJournal(c)
  <2>1. CASE Sends(c, "line", "check") /\ UNCHANGED childVars
    BY <1>6, <2>1, ShowKept DEF SendJournal, childVars
  <2>2. CASE JournalEnds(c, "unsent")
    BY <1>6, <2>2, JournalKept DEF SendJournal
  <2> QED BY <1>6, <2>1, <2>2 DEF SendJournal
<1>7. CASE CheckJournal(c)
  <2>1. CASE c \in clients
    <3>1. /\ pc[c] = "check" /\ pc'[c] = "scan"
          /\ UNCHANGED <<agent, method, clients, out, child, exits, db>>
      BY <1>7, <2>1 DEF CheckJournal, Goes, childVars, AgentTypeOK
    <3> QED BY <3>1, GoesOnKept DEF Alive
  <2>2. CASE c \notin clients
    BY <1>7, <2>2, JournalKept DEF CheckJournal
  <2> QED BY <2>1, <2>2
<1>8. CASE OpenLogs(c) /\ Goes(c, "read")
  <2>1. /\ pc[c] = "start" /\ pc'[c] = "read"
        /\ UNCHANGED <<agent, method, clients, out, child, exits, db>>
    BY <1>8 DEF OpenLogs, Goes, childVars, AgentTypeOK
  <2> QED BY <2>1, GoesOnKept DEF Alive
<1>9. CASE SendEntry(c)
  <2>1. pc[c] = "read" /\ UNCHANGED <<child, exits, db>> /\ method[c] \in ContainerLogs
    BY <1>9 DEF SendEntry, childVars
  <2>2. CASE Sends(c, "line", "read")
    BY <2>1, <2>2, ShowKept
  <2>3. CASE Unsent(c)
    <3>1. method[c] \in Methods \ Reporting
      BY <2>1 DEF Methods, Reporting, ContainerLogs, DockerMethods
    <3>2. ~Alive(c)
      BY <2>1 DEF Life, Upgrade
    <3> QED BY <2>1, <2>3, <3>1, <3>2, QuitKept DEF Unsent
  <2> QED BY <1>9, <2>2, <2>3 DEF SendEntry
<1>10. CASE \/ OpenLogs(c) /\ Ends(c, "error", << >>)
            \/ LogsEnd(c) \/ LogsLeft(c) \/ StatsEnds(c) \/ StatsUnsent(c)
  <2>1. /\ Working(c) /\ method[c] \in ContainerLogs \cup {"StreamStats"}
        /\ \E r : Ends(c, r, << >>)
        /\ UNCHANGED <<child, exits, db>>
    BY <1>10 DEF OpenLogs, LogsEnd, LogsLeft, StatsEnds, StatsUnsent, Unsent, childVars
  <2>2. method[c] \in Methods \ Reporting
    BY <2>1 DEF Methods, Streams, Reporting, ContainerLogs, DockerMethods
  <2>3. ~Alive(c)
    BY <1>10 DEF OpenLogs, LogsEnd, LogsLeft, StatsEnds, StatsUnsent, Life, Buffered, Apt, Commanded, Upgrade,
                 Journal, ContainerLogs
  <2> QED BY <2>1, <2>2, <2>3, QuitKept
<1>11. CASE StartTool(c)
  <2>1. pc[c] = "start" /\ method[c] \in Tools /\ method[c] \notin Upgrade
    BY <1>11 DEF StartTool, Tools, Upgrade
  <2>2. child[c] = "none" /\ exits[c] = << >>
    BY <2>1 DEF OneRun
  <2>3. CASE method[c] \in Commanded
    <3>1. Alive(c)' /\ pc'[c] = "run" /\ UNCHANGED <<agent, method, clients, out, exits, db>>
      BY <1>11, <2>3 DEF StartTool, Goes, Spawns, Alive, AgentTypeOK
    <3> QED BY <2>1, <2>2, <2>3, <3>1, RunsOf, StartKept DEF Alive
  <2>4. CASE method[c] \notin Commanded
    <3>1. pc'[c] = "tell" /\ UNCHANGED <<agent, method, clients, out, child, exits, db>>
      BY <1>11, <2>4 DEF StartTool, Goes, childVars, AgentTypeOK
    <3> QED BY <2>1, <3>1, GoesOnKept DEF Alive
  <2> QED BY <2>3, <2>4
<1>12. CASE ToolDone(c)
  <2>1. /\ pc[c] = "run" /\ pc'[c] = "tell"
        /\ UNCHANGED <<agent, method, clients, out, child, exits, db>>
    BY <1>12 DEF ToolDone, Goes, childVars, AgentTypeOK
  <2> QED BY <2>1, GoesOnKept DEF Alive
<1>13. CASE TellNext(c)
  <2>1. /\ pc[c] = "tell" /\ method[c] \in Tools /\ method[c] \notin Upgrade /\ Told(plan[c])
        /\ UNCHANGED <<child, exits, db>>
    BY <1>13 DEF TellNext, childVars, Tools, Upgrade, PlanOf
  <2>2. method[c] \in Reporting /\ ~Alive(c)
    BY <2>1 DEF Reporting, Methods, Streams, Tools, Journal, ContainerLogs, OneRun, Alive, Ended
  <2>3. CASE (c \notin clients \/ method[c] = "Traceroute") /\ Unsent(c)
    BY <2>1, <2>2, <2>3, QuitKept DEF Unsent
  <2>4. CASE Len(plan[c]) # 1 /\ Sends(c, Head(plan[c]), "tell")
    <3>1. Head(plan[c]) = "line"
      BY <2>1, <2>4, TailTold
    <3> QED BY <2>1, <2>4, <3>1, ShowKept
  <2>5. CASE Len(plan[c]) = 1 /\ Ends(c, "ok", plan[c])
    <3> DEFINE v == plan[c][1]
    <3>1. plan[c] = <<v>> /\ v \in {"success", "failure"}
      <4>1. plan[c] \in Seq(Messages) /\ v \in Final
        BY <2>1, <2>5 DEF Told
      <4> QED BY <2>5, <4>1 DEF Final
    <3>2. Ends(c, "ok", <<v>>)
      BY <2>5, <3>1
    <3>3. Promise!True(c, v)
      <4>1. CASE method[c] \in Commanded
        <5>1. Ended(c) /\ exits[c] = <<child[c]>> /\ v = IF child[c] = "ok" THEN "success" ELSE "failure"
          BY <2>1, <2>5, <4>1 DEF OneRun
        <5> QED BY <4>1, <5>1, RunsOf, SucceededIs DEF Promise!True, Ended
      <4>2. CASE method[c] \notin Commanded
        <5>1. exits[c] = << >> /\ v = "success"
          BY <2>1, <2>5, <4>2 DEF OneRun
        <5>2. Runs[method[c]] = 0
          BY <2>1, <4>2, RunsOf DEF Tools, Methods, Streams, Upgrade, Buffered, Apt, Commanded, Journal
        <5> QED BY <5>1, <5>2, SucceededIs DEF Promise!True
      <4> QED BY <4>1, <4>2
    <3> HIDE DEF v
    <3> QED BY <2>1, <2>2, <3>1, <3>2, <3>3, TellKept
  <2> QED BY <1>13, <2>3, <2>4, <2>5 DEF TellNext
<1>14. CASE Command(c)
  <2>1. /\ pc[c] = "start" /\ method[c] \in ProcessMethods \cup DockerUnary /\ method[c] \notin Upgrade
        /\ UNCHANGED <<child, exits, db>>
    BY <1>14 DEF Command, childVars, ProcessMethods, DockerUnary, Upgrade
  <2>2. child[c] = "none" /\ exits[c] = << >>
    BY <2>1 DEF OneRun
  <2>3. method[c] \in Reporting /\ Runs[method[c]] = 0
    BY <2>1, RunsOf DEF Reporting, Methods, Unary, ProcessMethods, DockerUnary, DockerMethods, Journal, ContainerLogs,
                        Upgrade, Buffered, Apt, Commanded
  <2>4. CASE Unsent(c) /\ method[c] \in ProcessMethods
    BY <2>1, <2>2, <2>4, QuitKept DEF Unsent, Alive
  <2>5. ASSUME NEW v \in {"success", "failure"}, Ends(c, "ok", <<v>>) PROVE Kept(c)
    <3>1. Promise!True(c, v)
      BY <2>2, <2>3, SucceededIs DEF Promise!True
    <3> QED BY <2>1, <2>2, <2>3, <2>5, <3>1, TellKept DEF Alive
  <2> QED BY <1>14, <2>4, <2>5 DEF Command
<1> QED BY <1>4, <1>5, <1>6, <1>7, <1>8, <1>9, <1>10, <1>11, <1>12, <1>13, <1>14 DEF StreamSteps, OpenLogs

LEMMA OthersKeep ==
  ASSUME PromiseInv, NEW c \in Calls, Programs(c) \/ Failures(c) \/ Visits(c) \/ Asks(c)
  PROVE  Kept(c)
<1>1. AgentTypeOK /\ Idle(c)
  BY DEF PromiseInv, AgentInv, Own
<1>2. \A d \in Calls \ {c} : Same(d)
  BY <1>1, OthersFrame
<1> USE <1>1, <1>2
<1>3. CASE Programs(c) \/ Failures(c)
  <2>1. UNCHANGED callVars /\ db' = db /\ Stage' = Stage
    BY <1>3 DEF Programs, Failures, callVars, Stage, ChildSteps, ChildBegins, ChildWrites, ChildFinishes,
                Collect, ChildFails
  <2>2. CASE \E how \in {"ok", "failed"} : Exits(c, how) /\ Alive(c)
    <3>1. ~Alive(c)'
      BY <2>2 DEF Exits, Alive, AgentTypeOK
    <3>2. Promise!Finishes(c)
      BY <2>1, <2>2, <3>1, SeenOf DEF callVars, Exits, Promise!Finishes
    <3> QED BY <3>2 DEF Kept, Promise!PromiseStep
  <2>3. CASE (Alive(c)' <=> Alive(c)) /\ exits' = exits
    <3>1. Living' = Living
      BY <2>3 DEF Living, Same, Alive
    <3> QED BY <2>1, <2>3, <3>1 DEF Kept, callVars, Promise!promiseVars
  <2>4. \/ \E how \in {"ok", "failed"} : Exits(c, how) /\ Alive(c)
        \/ (Alive(c)' <=> Alive(c)) /\ exits' = exits
    BY <1>3 DEF Programs, Failures, ChildSteps, ChildBegins, ChildWrites, ChildFinishes, Collect, ChildFails,
                Alive, AgentTypeOK
  <2> QED BY <2>2, <2>3, <2>4
<1>4. CASE Visits(c) /\ Invoke(c)
  <2>1. Living' = Living /\ pc[c] = "idle"
    BY <1>4 DEF Visits, Invoke, childVars, Living, Alive
  <2>2. PICK m \in Asked :
          /\ method' = [method EXCEPT ![c] = m]
          /\ IF m \in DockerMethods /\ ~docker
             THEN pc' = [pc EXCEPT ![c] = "over"] /\ UNCHANGED clients
             ELSE pc' = [pc EXCEPT ![c] = "request"] /\ clients' = clients \cup {c}
    BY <1>4 DEF Invoke
  <2>3. m \in Methods
    BY AskedAssumption
  <2>4. CASE m \in DockerMethods /\ ~docker
    <3>1. Stage[c] = "idle" /\ Stage' = [Stage EXCEPT ![c] = "over"]
      BY <2>1, <2>2, <2>4 DEF Stage, AgentTypeOK
    <3>2. \E x \in DockerMethods : method' = [method EXCEPT ![c] = x]
      BY <2>2, <2>4
    <3>3. agent = "serving" /\ UNCHANGED <<agent, clients, out, Living, exits, db>>
      BY <1>4, <2>1, <2>2, <2>4 DEF Visits, Invoke, childVars
    <3>4. Promise!Refuses(c)
      BY <3>1, <3>2, <3>3 DEF Promise!Refuses
    <3> QED BY <3>4 DEF Kept, Promise!PromiseStep
  <2>5. CASE ~(m \in DockerMethods /\ ~docker)
    <3>1. Stage[c] = "idle" /\ Stage' = [Stage EXCEPT ![c] = "request"]
      BY <2>1, <2>2, <2>5 DEF Stage, AgentTypeOK
    <3>2. \E x \in Methods : method' = [method EXCEPT ![c] = x]
      BY <2>2, <2>3
    <3>3. agent = "serving" /\ clients' = clients \cup {c} /\ UNCHANGED <<agent, out, Living, exits, db>>
      BY <1>4, <2>1, <2>2, <2>5 DEF Visits, Invoke, childVars
    <3>4. Promise!Accepts(c)
      BY <3>1, <3>2, <3>3 DEF Promise!Accepts
    <3> QED BY <3>4 DEF Kept, Promise!PromiseStep
  <2> QED BY <2>4, <2>5
<1>5. CASE Visits(c) /\ Leave(c)
  <2>1. Living' = Living /\ Stage' = Stage /\ Stage[c] \in {"request", "working"}
    BY <1>5 DEF Visits, Leave, childVars, Living, Alive, Stage, InFlight
  <2>2. Promise!Leaves(c)
    BY <1>5, <2>1, SeenOf DEF Visits, Leave, childVars, Promise!Leaves
  <2> QED BY <2>2 DEF Kept, Promise!PromiseStep
<1>6. CASE Asks(c)
  <2>1. Stage[c] = "request" /\ Living' = Living /\ UNCHANGED <<exits, db>>
    BY <1>6, Asking DEF At, Stage, Living, Alive, childVars
  <2>2. CASE c \in clients /\ Goes(c, "start")
    <3>1. Stage' = [Stage EXCEPT ![c] = "working"] /\ UNCHANGED <<agent, method, clients, out>>
      BY <2>2 DEF Goes, Stage, AgentTypeOK
    <3>2. Promise!Begins(c)
      BY <2>1, <2>2, <3>1 DEF Promise!Begins
    <3> QED BY <3>2 DEF Kept, Promise!PromiseStep
  <2>3. CASE Ends(c, "unread", << >>)
    <3>1. Stage' = [Stage EXCEPT ![c] = "over"]
      BY <2>3 DEF Ends, Stage, AgentTypeOK
    <3>2. Promise!Begins(c)
      BY <2>1, <2>3, <3>1, EndsSilent DEF Promise!Begins
    <3> QED BY <3>2 DEF Kept, Promise!PromiseStep
  <2> QED BY <1>6, <2>2, <2>3, Asking
<1> QED BY <1>3, <1>4, <1>5, <1>6 DEF Visits

LEMMA ProcessKept ==
  ASSUME Process \/ UNCHANGED vars
  PROVE  Promise!Opens \/ Promise!Closes \/ Promise!Stops \/ UNCHANGED Promise!promiseVars
<1>1. Living' = Living /\ Stage' = Stage /\ UNCHANGED <<method, clients, out, exits, db>>
  BY DEF Process, Listen, NewDockerService, Signal, Stopped, vars, callVars, childVars, Living, Alive, Stage
<1>2. (\A c \in Calls : ~InFlight(c)) => \A c \in Calls : Stage[c] \in {"idle", "over"}
  BY DEF InFlight, Stage
<1>3. CASE Process
  BY <1>1, <1>2, <1>3
  DEF Process, Listen, NewDockerService, Signal, Stopped, Promise!Opens, Promise!Closes, Promise!Stops
<1>4. CASE UNCHANGED vars
  BY <1>1, <1>4 DEF vars, callVars, Promise!promiseVars
<1> QED BY <1>3, <1>4

\* AgentSystem.AgentKeepsPromise: the agent implements AgentPromise, where a call
\* runs its programs and tells the truth about them in one step.
THEOREM AgentIsPromised == Spec => AgentKeepsPromise
<1>1. Init => Promise!PromiseInit
  BY DEF Init, CallsInit, ChildrenInit, Promise!PromiseInit, Stage, Living, Alive
<1>2. PromiseInv /\ [Next]_vars => [Promise!PromiseNext]_(Promise!promiseVars)
  <2> SUFFICES ASSUME PromiseInv, [Next]_vars
               PROVE  Promise!PromiseNext \/ UNCHANGED Promise!promiseVars
    OBVIOUS
  <2>1. CASE Process \/ UNCHANGED vars
    BY <2>1, ProcessKept DEF Promise!PromiseNext
  <2>2. ASSUME NEW c \in Calls, Step(c) PROVE Kept(c)
    BY <2>2, PackagesKept, StreamsKept, OthersKeep, StepCases
  <2> QED BY <2>1, <2>2 DEF Next, Step, Kept, Promise!PromiseNext
<1> QED BY <1>1, <1>2, PromiseInvariant, PTL DEF Spec, AgentKeepsPromise, Promise!PromiseSpec

=============================================================================
