--------------------------- MODULE AgentChildren ----------------------------
(* The programs the agent's handlers start, one at a time for a call: what     *)
(* os/exec, the kernel, apt and the journal do. A program writes lines to the  *)
(* pipe its handler reads, as long as the pipe has room, and ends.             *)
EXTENDS AgentCalls, SequencesExt

CONSTANTS PipeCap,   \* lines a pipe holds
          Outputs,   \* bound: what a program may write in its life
          MaxLines,  \* bound: lines of a container's log and of a tool's report
          None

Lines == {"line", "long"}      \* a "long" line is longer than a bufio.Scanner takes

ASSUME PipeAssumption == PipeCap \in Nat \ {0} /\ MaxLines \in Nat
ASSUME OutputsAssumption == Outputs \subseteq Seq(Lines)
ASSUME NoneAssumption == None \notin Calls

VARIABLES child,     \* each call's program: "none", "starting", "running", "ok" or "failed"
          todo,      \* what it has still to write
          pipe,      \* what it has written and nobody has read
          open,      \* the calls whose end of the pipe is open
          locks,     \* who holds apt's locks
          db,        \* the package database: "sound", or "broken" by a kill in its middle
          exits,     \* history: how each call's programs ended
          wrote      \* history: the lines they wrote

childVars == <<child, todo, pipe, open, locks, db, exits, wrote>>

Locks == {"lists", "dpkg"}

ChildrenInit ==
  /\ child = [c \in Calls |-> "none"] /\ open = {}
  /\ todo = [c \in Calls |-> << >>] /\ pipe = [c \in Calls |-> << >>]
  /\ locks = [l \in Locks |-> None] /\ db = "sound"
  /\ exits = [c \in Calls |-> << >>] /\ wrote = [c \in Calls |-> << >>]

(* cmd.Start: the program's output goes to a pipe, or is collected by           *)
(* CombinedOutput, whose reader keeps up with it.                              *)
Spawns(c, piped) ==
  /\ child' = [child EXCEPT ![c] = "starting"]
  /\ \E t \in IF piped THEN Outputs ELSE {<< >>} : todo' = [todo EXCEPT ![c] = t]
  /\ pipe' = [pipe EXCEPT ![c] = << >>]
  /\ open' = IF piped THEN open \cup {c} ELSE open
  /\ UNCHANGED <<locks, db, exits, wrote>>

Released(c) == [l \in Locks |-> IF locks[l] = c THEN None ELSE locks[l]]

Alive(c) == child[c] \in {"starting", "running"}
Ended(c) == child[c] \in {"ok", "failed"}

\* Mutant of Kills: the program is left in a state nobody knows.
KillsOdd(c) ==
  IF Alive(c)
  THEN /\ child' = [child EXCEPT ![c] = "killed"] /\ locks' = Released(c)
       /\ UNCHANGED <<todo, pipe, open, db, exits, wrote>>
  ELSE UNCHANGED childVars

(* cmd.Process.Kill: nobody waits for the program afterwards.                  *)
Kills(c) ==
  IF Alive(c)
  THEN /\ child' = [child EXCEPT ![c] = "failed"]
       /\ exits' = [exits EXCEPT ![c] = Append(@, "failed")]
       /\ db' \in IF locks["dpkg"] = c THEN {db, "broken"} ELSE {db}
       /\ locks' = Released(c)
       /\ UNCHANGED <<todo, pipe, open, wrote>>
  ELSE UNCHANGED childVars

(* The next line the handler reads, or the end of its input.                   *)
Reads(c) ==
  /\ pipe[c] # << >>
  /\ pipe' = [pipe EXCEPT ![c] = Tail(@)]
  /\ UNCHANGED <<child, todo, open, locks, db, exits, wrote>>

\* Mutant of EndOfInput: the program's end ends the input, read or not.
EndOfInputEarly(c) == Ended(c)

EndOfInput(c) == pipe[c] = << >> /\ Ended(c)

-----------------------------------------------------------------------------
(* The programs' own steps.                                                    *)
LockOf(c) ==
  CASE method[c] = "StreamSystemUpgrade" -> IF exits[c] = << >> THEN {"lists"} ELSE {"dpkg"}
    [] method[c] = "UpdatePackageList"   -> {"lists"}
    [] method[c] \in Apt                 -> {"dpkg"}
    [] OTHER                             -> {}

Exits(c, how) ==
  /\ child' = [child EXCEPT ![c] = how]
  /\ exits' = [exits EXCEPT ![c] = Append(@, how)]
  /\ locks' = Released(c)

(* apt-get does not wait for a lock, nor work on a broken database.             *)
ChildBegins(c) ==
  /\ child[c] = "starting"
  /\ IF \A l \in LockOf(c) : locks[l] = None /\ (l = "dpkg" => db = "sound")
     THEN /\ child' = [child EXCEPT ![c] = "running"]
          /\ locks' = [l \in Locks |-> IF l \in LockOf(c) THEN c ELSE locks[l]]
          /\ UNCHANGED exits
     ELSE Exits(c, "failed")
  /\ UNCHANGED <<todo, pipe, open, db, wrote>>

ChildWrites(c) ==
  /\ child[c] = "running" /\ todo[c] # << >>
  /\ IF c \in open
     THEN /\ Len(pipe[c]) < PipeCap
          /\ pipe' = [pipe EXCEPT ![c] = Append(@, Head(todo[c]))]
     ELSE UNCHANGED pipe                    \* the line is lost
  /\ todo' = [todo EXCEPT ![c] = Tail(@)]
  /\ wrote' = [wrote EXCEPT ![c] = Append(@, Head(todo[c]))]
  /\ UNCHANGED <<child, open, locks, db, exits>>

(* journalctl -f goes on for ever; whatever else has written everything ends.   *)
ChildFinishes(c) ==
  /\ child[c] = "running" /\ todo[c] = << >> /\ method[c] # "StreamLogs"
  /\ \E how \in {"ok", "failed"} : Exits(c, how)
  /\ UNCHANGED <<todo, pipe, open, db, wrote>>

ChildFails(c) ==
  /\ child[c] = "running"
  /\ Exits(c, "failed")
  /\ UNCHANGED <<todo, pipe, open, db, wrote>>

\* Mutant of Collect: the pipe of a running program stays open.
CollectEnded(c) ==
  /\ c \in open /\ pc[c] = "over" /\ Ended(c)
  /\ open' = open \ {c}
  /\ UNCHANGED <<child, todo, pipe, locks, db, exits, wrote>>

(* A pipe nobody can reach any more is closed by the garbage collector.        *)
Collect(c) ==
  /\ c \in open /\ pc[c] = "over"
  /\ open' = open \ {c}
  /\ UNCHANGED <<child, todo, pipe, locks, db, exits, wrote>>

ChildSteps(c) == ChildBegins(c) \/ ChildWrites(c) \/ ChildFinishes(c) \/ Collect(c)
=============================================================================
