---------------------------- MODULE AgentPromise ----------------------------
(* What the agent promises about a call, without goroutines, pipes, locks and   *)
(* streams: the programs it needs are run one after the other as long as they   *)
(* go well; then its client is told the truth about them, in one step that ends *)
(* the call; and the agent stops when no call is left.                         *)
EXTENDS Naturals, Sequences

CONSTANTS Calls,
          Methods,   \* what may be asked for
          Optional,  \* methods the agent may be without
          Endless,   \* methods that show lines and report no result
          Upgrades,  \* methods whose program may go on without them
          Quoting,   \* methods that may have something to tell that cannot be sent
          Explaining,\* methods of which that is true of a failure only
          Runs       \* how many programs each method runs

VARIABLES agent,     \* "new", "serving", "draining" or "gone"
          asked,     \* what each call asks for
          life,      \* each call is "idle", "request", "working" or "over"
          waiting,   \* the calls somebody waits for
          heard,     \* what each client has received
          busy,      \* the calls whose program lives
          ends,      \* how each call's programs have ended
          db         \* the package database: "sound" or "broken"

promiseVars == <<agent, asked, life, waiting, heard, busy, ends, db>>

PromiseInit ==
  /\ agent = "new" /\ db = "sound" /\ waiting = {} /\ busy = {}
  /\ asked = [c \in Calls |-> "none"] /\ life = [c \in Calls |-> "idle"]
  /\ heard = [c \in Calls |-> << >>] /\ ends = [c \in Calls |-> << >>]

-----------------------------------------------------------------------------
Opens ==
  /\ agent = "new" /\ agent' \in {"serving", "gone"}
  /\ UNCHANGED <<asked, life, waiting, heard, busy, ends, db>>

Closes ==
  /\ agent = "serving" /\ agent' = "draining"
  /\ UNCHANGED <<asked, life, waiting, heard, busy, ends, db>>

Stops ==
  /\ agent = "draining" /\ agent' = "gone"
  /\ \A c \in Calls : life[c] \in {"idle", "over"}
  /\ UNCHANGED <<asked, life, waiting, heard, busy, ends, db>>

-----------------------------------------------------------------------------
Accepts(c) ==
  /\ agent = "serving" /\ life[c] = "idle"
  /\ \E m \in Methods : asked' = [asked EXCEPT ![c] = m]
  /\ life' = [life EXCEPT ![c] = "request"]
  /\ waiting' = waiting \cup {c}
  /\ UNCHANGED <<agent, heard, busy, ends, db>>

(* The request comes, or the call ends with nothing started.                    *)
Begins(c) ==
  /\ life[c] = "request"
  /\ \/ life' = [life EXCEPT ![c] = "over"]
     \/ c \in waiting /\ life' = [life EXCEPT ![c] = "working"]
  /\ UNCHANGED <<agent, asked, waiting, heard, busy, ends, db>>

Refuses(c) ==
  /\ agent = "serving" /\ life[c] = "idle"
  /\ \E m \in Optional : asked' = [asked EXCEPT ![c] = m]
  /\ life' = [life EXCEPT ![c] = "over"]
  /\ UNCHANGED <<agent, waiting, heard, busy, ends, db>>

Leaves(c) ==
  /\ life[c] \in {"request", "working"} /\ c \in waiting
  /\ waiting' = waiting \ {c}
  /\ UNCHANGED <<agent, asked, life, heard, busy, ends, db>>

-----------------------------------------------------------------------------
AllWell(c) == \A i \in DOMAIN ends[c] : ends[c][i] = "ok"
Succeeded(c) == Len(ends[c]) = Runs[asked[c]] /\ AllWell(c)

(* The next program is started when the last has gone well.                    *)
Starts(c) ==
  /\ life[c] = "working" /\ c \notin busy
  /\ Len(ends[c]) < Runs[asked[c]] /\ AllWell(c)
  /\ busy' = busy \cup {c}
  /\ UNCHANGED <<agent, asked, life, waiting, heard, ends, db>>

Finishes(c) ==
  /\ c \in busy
  /\ busy' = busy \ {c}
  /\ \E how \in {"ok", "failed"} : ends' = [ends EXCEPT ![c] = Append(@, how)]
  /\ UNCHANGED <<agent, asked, life, waiting, heard, db>>

Shows(c) ==
  /\ life[c] = "working" /\ c \in waiting
  /\ heard' = [heard EXCEPT ![c] = Append(@, "line")]
  /\ UNCHANGED <<agent, asked, life, waiting, busy, ends, db>>

(* A success is that every program of the call ended well, and a failure that   *)
(* one did not, or could not be started.                                       *)
True(c, v) ==
  \/ v = "success" /\ Succeeded(c)
  \/ v = "failure" /\ (Runs[asked[c]] = 0 \/ ~Succeeded(c))

Tells(c) ==
  /\ life[c] = "working" /\ c \notin busy /\ asked[c] \notin Endless
  /\ life' = [life EXCEPT ![c] = "over"]
  /\ \E v \in {"success", "failure"} :
       /\ True(c, v)
       /\ heard' = IF c \in waiting THEN [heard EXCEPT ![c] = Append(@, v)] ELSE heard
  /\ UNCHANGED <<agent, asked, waiting, busy, ends, db>>

(* Nothing is told to a client that has left, nor at the end of an endless      *)
(* stream, nor where what is to be told cannot be sent.                         *)
Quits(c) ==
  /\ life[c] = "working" /\ c \notin busy
  /\ \/ c \notin waiting \/ asked[c] \in Endless \cup Quoting
     \/ asked[c] \in Explaining /\ ~Succeeded(c)
  /\ life' = [life EXCEPT ![c] = "over"]
  /\ UNCHANGED <<agent, asked, waiting, heard, busy, ends, db>>

(* It may kill its program: the second one of an upgrade in the middle of its   *)
(* work on the database.                                                       *)
Kills(c) ==
  /\ life[c] = "working" /\ c \in busy
  /\ c \notin waiting \/ asked[c] \in Endless
  /\ life' = [life EXCEPT ![c] = "over"]
  /\ busy' = busy \ {c}
  /\ ends' = [ends EXCEPT ![c] = Append(@, "failed")]
  /\ db' # db => db' = "broken" /\ asked[c] \in Upgrades /\ ends[c] = <<"ok">> /\ c \notin waiting
  /\ UNCHANGED <<agent, asked, waiting, heard>>

(* An upgrade that cannot show a line leaves its program to itself.             *)
Abandons(c) ==
  /\ life[c] = "working" /\ c \in busy /\ asked[c] \in Upgrades
  /\ life' = [life EXCEPT ![c] = "over"]
  /\ UNCHANGED <<agent, asked, waiting, heard, busy, ends, db>>

PromiseStep(c) ==
  \/ Accepts(c) \/ Refuses(c) \/ Begins(c) \/ Leaves(c)
  \/ Starts(c) \/ Finishes(c) \/ Shows(c)
  \/ Tells(c) \/ Quits(c) \/ Kills(c) \/ Abandons(c)

PromiseNext == Opens \/ Closes \/ Stops \/ \E c \in Calls : PromiseStep(c)

PromiseSpec == PromiseInit /\ [][PromiseNext]_promiseVars
=============================================================================
