----------------------------- MODULE AgentStats -----------------------------
(* The statistics streams of the agent (agent/server_stats.go). Every call of   *)
(* StreamStats is a goroutine with its own previous network counters; the       *)
(* previous disk counters, their time and the process list are fields of the    *)
(* server, which all of them read and write without a lock. One counter stands  *)
(* for the bytes of the network, the bytes of a disk and a disk's operations:   *)
(* each is a 64-bit counter of the kernel that grows and may start again at 0.  *)
(* A reading of the network or of the disks may fail, and a disk may be absent.  *)
EXTENDS Integers

CONSTANTS Streams,    \* the calls of StreamStats
          Mod,        \* the counters are unsigned: 2^64 in the code
          Limit,      \* a rate above it counts as an overflow: 10^12 in the code
          MaxMoved,   \* bound: what the counters count in all
          MaxNow,     \* bound: seconds
          MaxResets,  \* bound: how often they start again at 0
          MaxMisses,  \* bound: how often a reading misses the network or the disk
          None

(* A counter that starts again below its last value makes a difference beyond   *)
(* the limit, however long the interval.                                       *)
ASSUME ModAssumption ==
  /\ Mod \in Nat /\ Limit \in Nat /\ MaxMoved \in Nat /\ MaxNow \in Nat \ {0}
  /\ MaxResets \in Nat /\ MaxMisses \in Nat
  /\ (Limit + 1) * MaxNow + MaxMoved <= Mod
ASSUME NoneAssumption == None \notin Int

VARIABLES now, counter,       \* the clock and the kernel's counter
          prevDiskIO,         \* the counter of the disk last stored by any stream, or None
          prevDiskIOTime,     \* when
          topProcessesTime,   \* when the process list was made, or None
          up,                 \* the agent runs
          pc,                 \* where each stream is, "off" when there is none
          prevNet,            \* the counter each stream kept at its last tick, or None
          at,                 \* the time of the tick a stream is in
          current,            \* the disk's counter it has read, None when it has none
          stats,              \* what it is going to send, None for what it leaves out
          moved, resets,      \* history: what was counted in all, and how often it started again
          misses,             \* history: the readings that missed something
          seen,               \* history: what there was to read at each stream's last tick
          before,             \* history: and at the tick before it
          kept                \* history: and when it last stored the disk's counter, or
                              \* None when the disk fields were touched since

shared == <<prevDiskIO, prevDiskIOTime>>
world == <<now, counter, moved, resets>>
local == <<prevNet, current, at, stats, seen, before, misses>>
statsVars == <<world, shared, topProcessesTime, up, pc, local, kept>>

NoStats == [net |-> None, bytes |-> None, count |-> None]

(* What there is to read, and whether the network is read.                     *)
Reading(net) == [counter |-> counter, moved |-> moved, resets |-> resets, at |-> now, net |-> net]
Unread == [counter |-> 0, moved |-> 0, resets |-> 0, at |-> 0, net |-> FALSE]

StatsInit ==
  /\ now = 0 /\ counter = 0 /\ moved = 0 /\ resets = 0 /\ misses = 0 /\ up = TRUE
  /\ prevDiskIO = None /\ prevDiskIOTime = 0 /\ topProcessesTime = None
  /\ pc = [s \in Streams |-> "off"] /\ prevNet = [s \in Streams |-> None]
  /\ current = [s \in Streams |-> None] /\ at = [s \in Streams |-> 0]
  /\ stats = [s \in Streams |-> NoStats]
  /\ seen = [s \in Streams |-> Unread] /\ before = [s \in Streams |-> Unread]
  /\ kept = [s \in Streams |-> None]

-----------------------------------------------------------------------------
(* The Pi.                                                                     *)
Second == now < MaxNow /\ now' = now + 1 /\ UNCHANGED <<counter, moved, resets>>
Count == moved < MaxMoved /\ moved' = moved + 1 /\ counter' = counter + 1 /\ UNCHANGED <<now, resets>>
Reset == resets < MaxResets /\ counter # 0 /\ resets' = resets + 1 /\ counter' = 0 /\ UNCHANGED <<now, moved>>

Pi == (Second \/ Count \/ Reset) /\ UNCHANGED <<shared, topProcessesTime, up, pc, local, kept>>

-----------------------------------------------------------------------------
(* The streams.                                                                *)
Goes(s, p) == up /\ pc' = [pc EXCEPT ![s] = p] /\ UNCHANGED up
Touches(s, mine) == kept' = [t \in Streams |-> IF t = s THEN mine ELSE None]

\* Mutant of Shown: nothing is cut off.
ShownRaw(rate) == rate

(* What a tick shows of a difference: 0 when it must be an overflow.           *)
Shown(rate) == IF rate > Limit THEN 0 ELSE rate

\* Mutant of Difference: signed.
DifferenceSigned(a, b) == a - b

(* Subtraction of unsigned integers.                                           *)
Difference(a, b) == IF a >= b THEN a - b ELSE Mod + a - b

(* The call begins: the disk fields are made anew for everybody.               *)
StatsBegin(s) ==
  /\ pc[s] = "off" /\ Goes(s, "wait")
  /\ prevDiskIO' = None /\ prevDiskIOTime' = now
  /\ at' = [at EXCEPT ![s] = now]
  /\ Touches(s, None)
  /\ UNCHANGED <<world, topProcessesTime, prevNet, current, stats, seen, before, misses>>

NetRate(s, net) == IF prevNet[s] = None THEN 0 ELSE Shown(Difference(net, prevNet[s]))

(* A tick: collectStats, the difference of the network from the call's own      *)
(* counters, and disk.IOCounters. Network counters that cannot be read are 0     *)
(* and kept as such; disks that cannot be read are left out of the tick; and a  *)
(* disk that is not there is not among those read.                             *)
Tick(s) ==
  /\ pc[s] = "wait" /\ now > at[s]
  /\ at' = [at EXCEPT ![s] = now]
  /\ \E net \in BOOLEAN, disks \in {"read", "absent", "failed"} :
       LET value == IF net THEN counter ELSE 0 IN
       /\ misses' = misses + (IF net THEN 0 ELSE 1) + (IF disks = "read" THEN 0 ELSE 1)
       /\ misses' <= MaxMisses
       /\ stats' = [stats EXCEPT ![s].net = NetRate(s, value)]
       /\ prevNet' = [prevNet EXCEPT ![s] = value]
       /\ Goes(s, IF disks = "failed" THEN "top" ELSE "rates")
       /\ current' = [current EXCEPT ![s] = IF disks = "read" THEN counter ELSE None]
       /\ seen' = [seen EXCEPT ![s] = Reading(net)]
  /\ before' = [before EXCEPT ![s] = seen[s]]
  /\ UNCHANGED <<world, shared, topProcessesTime, kept>>

(* What calculateDiskIO makes of a difference. An interval of no time counts as *)
(* a second; what a negative one converts to is up to the processor.           *)
Quotients(diff, secs) ==
  IF secs >= 0 THEN {diff \div (IF secs = 0 THEN 1 ELSE secs)} ELSE {0, Mod - 1}

(* calculateDiskIO: the rates since whoever looked last, of a disk that was     *)
(* there then and is now; only those in bytes are cut off.                     *)
Rates(s) ==
  /\ pc[s] = "rates" /\ Goes(s, "store")
  /\ IF prevDiskIO = None \/ current[s] = None
     THEN UNCHANGED stats
     ELSE \E rate \in Quotients(Difference(current[s], prevDiskIO), at[s] - prevDiskIOTime) :
            stats' = [stats EXCEPT ![s].bytes = Shown(rate), ![s].count = rate]
  /\ UNCHANGED <<world, shared, topProcessesTime, prevNet, current, at, seen, before, misses, kept>>

\* Mutant of Store: the counters are not kept.
StoreClears(s) ==
  /\ pc[s] = "store" /\ Goes(s, "stamp")
  /\ prevDiskIO' = None
  /\ Touches(s, IF current[s] = None THEN None ELSE seen[s])
  /\ UNCHANGED <<world, prevDiskIOTime, topProcessesTime, local>>

Store(s) ==
  /\ pc[s] = "store" /\ Goes(s, "stamp")
  /\ prevDiskIO' = current[s]
  /\ Touches(s, IF current[s] = None THEN None ELSE seen[s])
  /\ UNCHANGED <<world, prevDiskIOTime, topProcessesTime, local>>

\* Mutant of Stamp: their time is not kept.
StampForgets(s) ==
  /\ pc[s] = "stamp" /\ Goes(s, "top")
  /\ Touches(s, kept[s])
  /\ UNCHANGED <<world, shared, topProcessesTime, local>>

Stamp(s) ==
  /\ pc[s] = "stamp" /\ Goes(s, "top")
  /\ prevDiskIOTime' = at[s]
  /\ Touches(s, kept[s])
  /\ UNCHANGED <<world, prevDiskIO, topProcessesTime, local>>

(* The tick ends: what was collected is sent, and forgotten.                    *)
Sends(s) ==
  /\ Goes(s, "wait")
  /\ stats' = [stats EXCEPT ![s] = NoStats] /\ before' = [before EXCEPT ![s] = Unread]
  /\ current' = [current EXCEPT ![s] = None]
  /\ UNCHANGED <<prevNet, at, seen, misses>>

(* The process list is made again after two seconds.                           *)
Top(s) ==
  /\ pc[s] = "top"
  /\ IF topProcessesTime = None \/ now - topProcessesTime > 2
     THEN Goes(s, "fill") /\ UNCHANGED local
     ELSE Sends(s)
  /\ UNCHANGED <<world, shared, topProcessesTime, kept>>

(* getTopProcessesOptimized fills the server's process cache and ranges over    *)
(* it; when the processes cannot be listed, the old list is sent. The list's     *)
(* time was read when the tick had collected everything else.                  *)
Fill(s) ==
  /\ pc[s] = "fill" /\ Sends(s)
  /\ topProcessesTime' \in {topProcessesTime} \cup (at[s] .. now)
  /\ UNCHANGED <<world, shared, kept>>

(* Two goroutines in it at once are a concurrent map access, for which the Go   *)
(* runtime ends the process if it notices, with everything it knew.            *)
MapFault(s) ==
  /\ up /\ pc[s] = "fill" /\ \E t \in Streams \ {s} : pc[t] = "fill"
  /\ up' = FALSE /\ pc' = [t \in Streams |-> "off"]
  /\ prevNet' = [t \in Streams |-> None] /\ current' = prevNet' /\ kept' = prevNet'
  /\ at' = [t \in Streams |-> 0] /\ stats' = [t \in Streams |-> NoStats]
  /\ seen' = [t \in Streams |-> Unread] /\ before' = seen'
  /\ prevDiskIO' = None /\ prevDiskIOTime' = 0 /\ topProcessesTime' = None
  /\ UNCHANGED <<world, misses>>

(* The client has left, seen between two ticks; or the Send before failed: for  *)
(* it, or for the name of a process that is not UTF-8.                          *)
StatsOver(s) ==
  /\ pc[s] = "wait" /\ Goes(s, "off")
  /\ prevNet' = [prevNet EXCEPT ![s] = None] /\ at' = [at EXCEPT ![s] = 0]
  /\ seen' = [seen EXCEPT ![s] = Unread]
  /\ kept' = [kept EXCEPT ![s] = None]
  /\ UNCHANGED <<world, shared, topProcessesTime, current, stats, before, misses>>

StatsNext ==
  \/ Pi
  \/ \E s \in Streams :
       \/ StatsBegin(s) \/ Tick(s) \/ Rates(s) \/ Store(s) \/ Stamp(s)
       \/ Top(s) \/ Fill(s) \/ MapFault(s) \/ StatsOver(s)

StatsSpec == StatsInit /\ [][StatsNext]_statsVars

-----------------------------------------------------------------------------
Nats == 0 .. Mod - 1

Readings ==
  [counter : 0 .. MaxMoved, moved : 0 .. MaxMoved, resets : 0 .. MaxResets, at : 0 .. MaxNow,
   net : BOOLEAN]

(* The variables take the values their declarations say.                       *)
StatsTypeOK ==
  /\ now \in 0 .. MaxNow /\ counter \in 0 .. MaxMoved /\ moved \in 0 .. MaxMoved
  /\ resets \in 0 .. MaxResets /\ misses \in 0 .. MaxMisses /\ up \in BOOLEAN
  /\ prevDiskIO \in 0 .. MaxMoved \cup {None} /\ prevDiskIOTime \in 0 .. MaxNow
  /\ topProcessesTime \in 0 .. MaxNow \cup {None}
  /\ pc \in [Streams -> {"off", "wait", "rates", "store", "stamp", "top", "fill"}]
  /\ prevNet \in [Streams -> 0 .. MaxMoved \cup {None}]
  /\ current \in [Streams -> 0 .. MaxMoved \cup {None}] /\ at \in [Streams -> 0 .. MaxNow]
  /\ stats \in [Streams -> [net : Nats \cup {None}, bytes : Nats \cup {None}, count : Nats \cup {None}]]
  /\ seen \in [Streams -> Readings] /\ before \in [Streams -> Readings]
  /\ kept \in [Streams -> Readings \cup {None}]

(* What a stream is told of the network is what was moved since its last tick,  *)
(* whatever the other streams do: never more, and all of it unless it passed    *)
(* the limit, the counters started again or their reading failed now. After a   *)
(* reading that failed, the whole counter counts as new (server_stats.go:155,   *)
(* 48-51): what is told then is still no more than was ever counted. It is the  *)
(* bytes of the interval: nothing divides them by its seconds.                 *)
NetTrue ==
  \A s \in Streams : stats[s].net # None =>
    LET gone == seen[s].moved - before[s].moved IN
    /\ stats[s].net <= seen[s].moved
    /\ before[s].net => stats[s].net <= gone
    /\ before[s].net /\ seen[s].net /\ seen[s].resets = before[s].resets /\ gone <= Limit
         => stats[s].net = gone

(* A stream that stored the disks' counters last is told true rates of them,    *)
(* over the time since it did, however many of its ticks could not read them:    *)
(* those in bytes never too high, all of them exactly unless the counters began *)
(* again.                                                                      *)
DiskTrue ==
  \A s \in Streams : pc[s] = "store" /\ kept[s] # None /\ stats[s].bytes # None =>
    LET gone == seen[s].moved - kept[s].moved
        secs == seen[s].at - kept[s].at
    IN
    /\ stats[s].bytes * secs <= gone
    /\ seen[s].resets = kept[s].resets =>
         /\ stats[s].count = gone \div secs
         /\ gone \div secs <= Limit => stats[s].bytes = gone \div secs

(* Such a stream is told the rates of a disk that was there when it stored the   *)
(* counters and is there now, also when a tick between could not read them.     *)
DiskListed ==
  \A s \in Streams : pc[s] = "store" /\ kept[s] # None /\ current[s] # None =>
    stats[s].bytes # None
=============================================================================
