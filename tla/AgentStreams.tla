---------------------------- MODULE AgentStreams ----------------------------
(* The other streams of the agent: the journal (agent/server_service.go), a     *)
(* container's log (agent/docker.go) and the network tools                      *)
(* (agent/server_network.go), with the remaining calls that answer once.        *)
EXTENDS AgentChildren

CONSTANT PortCount     \* the ports of a scan

ASSUME PortAssumption == PortCount \in Nat \ {0}

VARIABLE plan          \* what a handler has collected and still has to send

StreamsInit == plan = [c \in Calls |-> << >>]

Keeps == UNCHANGED plan

-----------------------------------------------------------------------------
(* StreamLogs: read, send, look at the context; journalctl is killed on every   *)
(* way out.                                                                    *)
Journal == {"StreamLogs"}

StartJournal(c) ==
  /\ At(c, "start", Journal)
  /\ \/ Goes(c, "scan") /\ Spawns(c, TRUE)
     \/ Ends(c, "error", << >>) /\ UNCHANGED childVars
  /\ Keeps

\* Mutant of JournalEnds: journalctl is left alone.
JournalEndsAlive(c, r) == Ends(c, r, << >>) /\ UNCHANGED childVars

JournalEnds(c, r) == Ends(c, r, << >>) /\ Kills(c)

ScanJournal(c) ==
  /\ At(c, "scan", Journal)
  /\ \/ /\ pipe[c] # << >>
        /\ IF Head(pipe[c]) = "line"
           THEN Reads(c) /\ Goes(c, "send")
           ELSE JournalEnds(c, "error")          \* scanner.Err()
     \/ EndOfInput(c) /\ JournalEnds(c, "ok")
  /\ Keeps

SendJournal(c) ==
  /\ At(c, "send", Journal)
  /\ (Sends(c, "line", "check") /\ UNCHANGED childVars) \/ JournalEnds(c, "unsent")
  /\ Keeps

CheckJournal(c) ==
  /\ At(c, "check", Journal)
  /\ IF c \in clients
     THEN Goes(c, "scan") /\ UNCHANGED childVars
     ELSE JournalEnds(c, "ok")
  /\ Keeps

-----------------------------------------------------------------------------
(* GetContainerLogs: the reader ends with the context of the call.             *)
ContainerLogs == {"GetContainerLogs"}

OpenLogs(c) ==
  /\ At(c, "start", ContainerLogs)
  /\ \/ Goes(c, "read") /\ plan' \in {[plan EXCEPT ![c] = [i \in 1 .. n |-> "line"]] : n \in 0 .. MaxLines}
     \/ Ends(c, "error", << >>) /\ Keeps
  /\ UNCHANGED childVars

SendEntry(c) ==
  /\ At(c, "read", ContainerLogs) /\ plan[c] # << >>
  /\ \/ Sends(c, "line", "read") /\ plan' = [plan EXCEPT ![c] = Tail(@)]
     \/ Unsent(c) /\ Keeps
  /\ UNCHANGED childVars

(* The log's end, or a reader that breaks: a followed log may have neither.     *)
LogsEnd(c) ==
  /\ At(c, "read", ContainerLogs)
  /\ \/ plan[c] = << >> /\ Ends(c, "ok", << >>)
     \/ Ends(c, "error", << >>)
  /\ Keeps /\ UNCHANGED childVars

\* Mutant of LogsLeft: the reader does not end with the context, an entry has to come.
LogsLeftBusy(c) ==
  /\ At(c, "read", ContainerLogs) /\ c \notin clients /\ plan[c] # << >>
  /\ \E r \in {"ok", "error"} : Ends(c, r, << >>)
  /\ Keeps /\ UNCHANGED childVars

LogsLeft(c) ==
  /\ At(c, "read", ContainerLogs) /\ c \notin clients
  /\ \E r \in {"ok", "error"} : Ends(c, r, << >>)
  /\ Keeps /\ UNCHANGED childVars

-----------------------------------------------------------------------------
(* The tools collect first and send afterwards; the message that ends a test    *)
(* is its last one.                                                            *)
Plans(M) ==
  LET some == {[i \in 1 .. n |-> "line"] : n \in 0 .. MaxLines}
      half == {<< >>} \cup {Append(s, "line") : s \in some}       \* down, or up
  IN
  CASE M = "ScanPorts" -> {[i \in 1 .. PortCount |-> IF i = PortCount THEN "success" ELSE "line"]}
    [] M = "StreamPackageOperation" -> {<<"line", "success">>}
    [] M = "TestNetworkSpeed" ->
         {<<"line">> \o h[1] \o h[2] \o <<"success">> : h \in half \X half}
    [] OTHER -> {Append(s, "success") : s \in some}

(* sh -c ping or traceroute, with CombinedOutput.                              *)
Commanded == {"PingHost", "Traceroute"}

StartTool(c) ==
  /\ At(c, "start", Tools)
  /\ IF method[c] \in Commanded
     THEN Goes(c, "run") /\ Spawns(c, FALSE) /\ Keeps
     ELSE /\ Goes(c, "tell") /\ UNCHANGED childVars
          /\ \E p \in Plans(method[c]) : plan' = [plan EXCEPT ![c] = p]

ToolDone(c) ==
  /\ At(c, "run", Commanded) /\ Ended(c)
  /\ Goes(c, "tell")
  /\ \E p \in IF child[c] = "ok" THEN Plans(method[c]) ELSE {<<"failure">>} :
       plan' = [plan EXCEPT ![c] = p]
  /\ UNCHANGED childVars

(* Of the tools only Traceroute quotes a program: the names of its hops.        *)
TellNext(c) ==
  /\ At(c, "tell", Tools)
  /\ \/ (c \notin clients \/ (method[c] = "Traceroute" /\ Head(plan[c]) = "line")) /\ Unsent(c) /\ Keeps
     \/ /\ c \in clients
        /\ plan' = [plan EXCEPT ![c] = Tail(@)]
        /\ IF Len(plan[c]) = 1 THEN Ends(c, "ok", plan[c]) ELSE Sends(c, Head(plan[c]), "tell")
  /\ UNCHANGED childVars

-----------------------------------------------------------------------------
(* StreamStats between its ticks: it ends when its context does.               *)
StatsEnds(c) ==
  /\ At(c, "start", {"StreamStats"}) /\ c \notin clients
  /\ Ends(c, "ok", << >>) \/ Unsent(c)
  /\ Keeps /\ UNCHANGED childVars

(* The names of processes and disks may be such that they cannot be sent.       *)
StatsUnsent(c) ==
  /\ At(c, "start", {"StreamStats"}) /\ Unsent(c)
  /\ Keeps /\ UNCHANGED childVars

(* Signals to a process and commands to a container: a failure is an answer,    *)
(* and a container's command fails when its client leaves. What was done to a   *)
(* process is told with the name of the process.                               *)
Command(c) ==
  /\ At(c, "start", ProcessMethods \cup DockerUnary)
  /\ \/ \E a \in {"success", "failure"} : Ends(c, "ok", <<a>>)
     \/ method[c] \in ProcessMethods /\ Unsent(c)
  /\ Keeps /\ UNCHANGED childVars

StreamSteps(c) ==
  \/ StartJournal(c) \/ ScanJournal(c) \/ SendJournal(c) \/ CheckJournal(c)
  \/ OpenLogs(c) \/ SendEntry(c) \/ LogsLeft(c)
  \/ StartTool(c) \/ ToolDone(c) \/ TellNext(c)
  \/ StatsEnds(c) \/ Command(c)
=============================================================================
