---------------------------- MODULE AgentSystem -----------------------------
(* The agent with its handlers and the programs they start, under any clients,  *)
(* failures and signals; what holds of all of them.                            *)
EXTENDS AgentPackages, AgentStreams

vars == <<callVars, childVars, plan>>

Init == CallsInit /\ ChildrenInit /\ StreamsInit

HandlerSteps(c) ==
  \/ PackageSteps(c) /\ Keeps
  \/ StreamSteps(c)
  \/ RequestLost(c) /\ UNCHANGED childVars /\ Keeps
Programs(c) == ChildSteps(c) /\ UNCHANGED callVars /\ Keeps
Failures(c) == ChildFails(c) /\ UNCHANGED callVars /\ Keeps
Clients(c) == (Invoke(c) \/ Requests(c) \/ Leave(c)) /\ UNCHANGED childVars /\ Keeps
Process == (Listen \/ Signal \/ Stopped) /\ UNCHANGED childVars /\ Keeps

Next ==
  \/ Process
  \/ \E c \in Calls :
       HandlerSteps(c) \/ LogsEnd(c) \/ StatsUnsent(c) \/ Programs(c) \/ Failures(c) \/ Clients(c)

Spec == Init /\ [][Next]_vars

(* The Go scheduler runs every handler that can run, the kernel every program,  *)
(* and the collector runs again and again; a main that can return does. Nobody  *)
(* has to call, to send a request, to leave, to send a signal or to write to a  *)
(* container's log.                                                            *)
Fairness ==
  /\ WF_vars(Stopped /\ UNCHANGED childVars /\ Keeps)
  /\ \A c \in Calls : WF_vars(HandlerSteps(c)) /\ WF_vars(Programs(c))

FairSpec == Spec /\ Fairness

-----------------------------------------------------------------------------
(* The variables take the values their declarations say.                       *)
AgentTypeOK ==
  /\ agent \in {"new", "serving", "draining", "gone"} /\ docker \in BOOLEAN
  /\ method \in [Calls -> Methods \cup {"none"}]
  /\ pc \in [Calls -> {"idle", "request", "start", "run", "scan", "check", "send", "wait", "read", "tell", "over"}]
  /\ clients \subseteq Calls /\ open \subseteq Calls
  /\ out \in [Calls -> Seq(Messages)] /\ plan \in [Calls -> Seq(Messages)]
  /\ result \in [Calls -> Results]
  /\ child \in [Calls -> {"none", "starting", "running", "ok", "failed"}]
  /\ todo \in [Calls -> Seq(Lines)] /\ pipe \in [Calls -> Seq(Lines)]
  /\ wrote \in [Calls -> Seq(Lines)] /\ exits \in [Calls -> Seq({"ok", "failed"})]
  /\ locks \in [Locks -> Calls \cup {None}] /\ db \in {"sound", "broken"}

(* No program outlives the call it was started for, except an upgrade of which  *)
(* a line could not be sent, to a client that left after the look at the        *)
(* context or because it is not UTF-8 (server_packages.go:555-560): the other    *)
(* ways out of it and StreamLogs kill or wait, the rest wait.                   *)
NoStrayChild ==
  \A c \in Calls : pc[c] = "over" /\ Alive(c) => method[c] \in Upgrade /\ result[c] = "unsent"

(* A client that is told an upgrade succeeded was shown every line of two       *)
(* apt-get runs that both ended well, unless one of the lines was too long      *)
(* (streamCommand reads to the end of the output before it waits).             *)
UpgradeTold ==
  \A c \in Calls : method[c] \in Upgrade /\ "success" \in ToSet(out[c]) =>
    /\ exits[c] = <<"ok", "ok">>
    /\ "long" \in ToSet(wrote[c]) \/ Len(out[c]) = Len(wrote[c]) + 1

(* A call that reports a result reports it once and last, and with nothing but  *)
(* the end of the call after it; a success is never followed by a gRPC error;    *)
(* and a client that stays is told a result, whether the work succeeded or       *)
(* failed, unless gRPC's error is all it gets: nothing was started, an upgrade   *)
(* got no pipe, or a message could not be sent.                                *)
Final == {"success", "failure"}
Reporting == Methods \ (Journal \cup ContainerLogs \cup {"StreamStats"})
ResultTold ==
  \A c \in Calls :
    /\ \A i \in DOMAIN out[c] : out[c][i] \in Final =>
         i = Len(out[c]) /\ pc[c] = "over" /\ result[c] \in {"ok", "error"}
    /\ "success" \in ToSet(out[c]) => result[c] = "ok"
    /\ pc[c] = "over" /\ c \in clients /\ method[c] \in Reporting /\ result[c] \in {"ok", "error"}
         => out[c] # << >> /\ out[c][Len(out[c])] \in Final

(* The package database is broken in the middle of an upgrade only by a client  *)
(* that left it: nothing else in the agent kills apt-get.                      *)
BrokenOnlyByLeaver ==
  db = "broken" => \E c \in Calls : method[c] \in Upgrade /\ c \notin clients /\ pc[c] = "over"

(* Every call keeps the agent's promise: its programs run one after the other   *)
(* while they go well, its client hears the truth about them in the step that   *)
(* ends the call, and after it nothing more is started, shown or killed.       *)
Stage == [c \in Calls |-> IF pc[c] \in {"idle", "request", "over"} THEN pc[c] ELSE "working"]
Living == {c \in Calls : Alive(c)}
Runs ==
  [m \in Methods |->
     IF m \in Upgrade THEN 2 ELSE IF m \in Buffered \cup Commanded \cup Journal THEN 1 ELSE 0]

Promise == INSTANCE AgentPromise
  WITH Optional <- DockerMethods, Endless <- Methods \ Reporting, Upgrades <- Upgrade,
       Quoting <- Upgrade \cup ProcessMethods \cup {"Traceroute"}, Explaining <- Buffered,
       asked <- method, life <- Stage, waiting <- clients, heard <- out,
       busy <- Living, ends <- exits

AgentKeepsPromise == Promise!PromiseSpec

-----------------------------------------------------------------------------
(* A handler in cmd.Wait whose program waits for room in the pipe.             *)
Stuck(c) ==
  At(c, "wait", Upgrade) /\ child[c] = "running" /\ todo[c] # << >> /\ Len(pipe[c]) = PipeCap

(* A handler that waits for a journal with nothing to say.                     *)
Quiet(c) ==
  At(c, "scan", Journal) /\ child[c] = "running" /\ todo[c] = << >> /\ pipe[c] = << >>

(* When its client leaves, a handler ends, unless it is in one of these two.   *)
LeaverNoticed ==
  \A c \in Calls : InFlight(c) /\ c \notin clients ~> pc[c] = "over" \/ Stuck(c) \/ Quiet(c)

(* The graceful stop of main.go:64-71 ends the agent, unless from some time on  *)
(* there is always a client of an endless stream or one that does not send its   *)
(* request, or one of these two handlers.                                      *)
Holds(c) ==
  \/ Stuck(c) \/ Quiet(c)
  \/ InFlight(c) /\ c \in clients /\ (pc[c] = "request" \/ method[c] \in Methods \ Reporting)
StopCompletes ==
  agent = "draining" ~> (agent = "gone" \/ [](\E c \in Calls : Holds(c)))

(* apt's locks come free again, also when the client of an upgrade has left it  *)
(* running, unless its handler is stuck.                                       *)
LocksFreed ==
  \A l \in Locks : locks[l] # None ~> locks[l] = None \/ \E c \in Calls : Stuck(c)
=============================================================================
