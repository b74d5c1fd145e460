--------------------------- MODULE AgentPackages ----------------------------
(* The package handlers (agent/server_packages.go) and ManageService: the       *)
(* commands that are run to their end, and the system upgrade, which streams    *)
(* the output of two commands. streamCommand is cut where it blocks.           *)
EXTENDS AgentChildren

(* exec.Command(...).CombinedOutput(): it neither looks at the context nor can  *)
(* it be left; a failure is an answer like any other.                          *)
Buffered == Apt \cup {"ManageService"}

RunCommand(c) ==
  /\ At(c, "start", Buffered)
  /\ \/ Goes(c, "run") /\ Spawns(c, FALSE)
     \/ Ends(c, "ok", <<"failure">>) /\ UNCHANGED childVars     \* it cannot be started

\* Mutant of CommandDone: the command's error is not looked at.
CommandDoneAnyway(c) ==
  /\ At(c, "run", Buffered) /\ Ended(c)
  /\ Ends(c, "ok", <<"success">>)
  /\ UNCHANGED childVars

(* A failure quotes what the command has written.                               *)
CommandDone(c) ==
  /\ At(c, "run", Buffered) /\ Ended(c)
  /\ \/ child[c] = "ok" /\ Ends(c, "ok", <<"success">>)
     \/ child[c] # "ok" /\ (Ends(c, "ok", <<"failure">>) \/ Unsent(c))
  /\ UNCHANGED childVars

-----------------------------------------------------------------------------
Upgrade == {"StreamSystemUpgrade"}

\* Mutant of StartPhase: a command that cannot be started is not reported.
StartPhaseSilent(c) ==
  /\ At(c, "start", Upgrade)
  /\ \/ Goes(c, "scan") /\ Spawns(c, TRUE)
     \/ \E r \in {"nopipe", "error"} : Ends(c, r, << >>) /\ UNCHANGED childVars

(* streamCommand to the first Scan.                                            *)
StartPhase(c) ==
  /\ At(c, "start", Upgrade)
  /\ \/ Goes(c, "scan") /\ Spawns(c, TRUE)
     \/ Ends(c, "nopipe", << >>) /\ UNCHANGED childVars
     \/ Ends(c, "error", <<"failure">>) /\ UNCHANGED childVars

(* A line was read: the context is looked at, and only then the line is sent.  *)
ScanUpgrade(c) ==
  /\ At(c, "scan", Upgrade) /\ pipe[c] # << >> /\ Head(pipe[c]) = "line"
  /\ Reads(c)
  /\ Goes(c, "check")

CheckUpgrade(c) ==
  /\ At(c, "check", Upgrade)
  /\ IF c \in clients
     THEN Goes(c, "send") /\ UNCHANGED childVars
     ELSE Kills(c) /\ Ends(c, "error", << >>)

(* A line that cannot be sent ends the handler, and leaves the program running. *)
SendUpgrade(c) ==
  /\ At(c, "send", Upgrade)
  /\ Sends(c, "line", "scan") \/ Unsent(c)
  /\ UNCHANGED childVars

\* Mutant of ScanEnds: at a line that is too long the program is killed.
ScanEndsKills(c) ==
  /\ At(c, "scan", Upgrade)
  /\ \/ EndOfInput(c) /\ UNCHANGED childVars
     \/ pipe[c] # << >> /\ Head(pipe[c]) = "long" /\ Kills(c)
  /\ Goes(c, "wait")

(* The scan ends at the end of the output, or at a line it cannot hold: its     *)
(* error is not looked at, and nobody reads on.                                *)
ScanEnds(c) ==
  /\ At(c, "scan", Upgrade)
  /\ \/ EndOfInput(c) /\ UNCHANGED childVars
     \/ pipe[c] # << >> /\ Head(pipe[c]) = "long" /\ Reads(c)
  /\ Goes(c, "wait")

(* cmd.Wait waits for the program's end and closes the pipe; the second phase   *)
(* begins, or the success is sent.                                             *)
WaitUpgrade(c) ==
  /\ At(c, "wait", Upgrade) /\ Ended(c)
  /\ open' = open \ {c}
  /\ pipe' = [pipe EXCEPT ![c] = << >>]
  /\ UNCHANGED <<child, todo, locks, db, exits, wrote>>
  /\ CASE child[c] = "failed" -> Ends(c, "error", <<"failure">>)
       [] child[c] = "ok" /\ Len(exits[c]) = 1 -> Goes(c, "start")
       [] OTHER -> IF c \in clients THEN Ends(c, "ok", <<"success">>) ELSE Unsent(c)

PackageSteps(c) ==
  \/ RunCommand(c) \/ CommandDone(c)
  \/ StartPhase(c) \/ ScanUpgrade(c) \/ CheckUpgrade(c) \/ SendUpgrade(c)
  \/ ScanEnds(c) \/ WaitUpgrade(c)
=============================================================================
