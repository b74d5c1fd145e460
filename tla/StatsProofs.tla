---------------------------- MODULE StatsProofs -----------------------------
(***************************************************************************)
(* Proofs about AgentStats, for any number of streams, any width of the    *)
(* counters and any length of the runs: the types, and that what a stream  *)
(* sends is true: NetTrue, DiskTrue and DiskListed, whatever readings fail. *)
(***************************************************************************)
EXTENDS AgentStats, TLAPS

USE DEF Nats

-----------------------------------------------------------------------------
(* Arithmetic *)

\* What a division yields.
LEMMA Quotient ==
  ASSUME NEW a \in Nat, NEW b \in Nat \ {0}
  PROVE  /\ a \div b \in Nat
         /\ (a \div b) * b <= a
         /\ a \div b <= a
BY SMT

\* A large number divided by a small one is large.
LEMMA Beyond ==
  ASSUME NEW a \in Nat, NEW b \in Nat \ {0}, NEW l \in Nat, NEW m \in Nat, b <= m, (l + 1) * m <= a
  PROVE  a \div b > l
BY SMT

\* The counters are wider than what they count and than the limit.
LEMMA Widths ==
  /\ Mod \in Nat /\ Limit \in Nat /\ MaxMoved \in Nat /\ MaxNow \in Nat \ {0}
  /\ MaxResets \in Nat /\ MaxMisses \in Nat
  /\ (Limit + 1) * MaxNow <= Mod - MaxMoved
  /\ Limit < Mod - MaxMoved
  /\ MaxMoved < Mod
<1>1. Limit + 1 <= (Limit + 1) * MaxNow
  BY ModAssumption
<1> QED BY <1>1, ModAssumption

\* The difference of two counters, which is beyond the limit when the later is lower.
LEMMA Differences ==
  ASSUME NEW a \in 0 .. MaxMoved, NEW b \in 0 .. MaxMoved
  PROVE  /\ Difference(a, b) \in Nats
         /\ a >= b => Difference(a, b) = a - b
         /\ a < b => Difference(a, b) >= (Limit + 1) * MaxNow /\ Difference(a, b) > Limit
<1> QED BY Widths DEF Difference

\* What is shown of a rate is the rate, or 0.
LEMMA ShownRate ==
  ASSUME NEW r \in Nats
  PROVE  /\ Shown(r) \in Nats /\ Shown(r) <= r
         /\ r <= Limit => Shown(r) = r
         /\ r > Limit => Shown(r) = 0
BY Widths DEF Shown

\* The rates of an interval.
LEMMA RateType ==
  ASSUME NEW a \in 0 .. MaxMoved, NEW b \in 0 .. MaxMoved, NEW secs \in Int,
         NEW r \in Quotients(Difference(a, b), secs)
  PROVE  r \in Nats
<1>1. Difference(a, b) \in Nats
  BY Differences
<1>2. CASE secs >= 0
  <2> DEFINE n == IF secs = 0 THEN 1 ELSE secs
  <2>1. n \in Nat \ {0} /\ r = Difference(a, b) \div n
    BY <1>2 DEF Quotients
  <2> QED BY <1>1, <2>1, Quotient, Widths
<1>3. CASE ~(secs >= 0)
  BY <1>3, Widths DEF Quotients
<1> QED BY <1>2, <1>3

-----------------------------------------------------------------------------
(* Types *)

Shapes == [net : Nats \cup {None}, bytes : Nats \cup {None}, count : Nats \cup {None}]
Places == {"off", "wait", "rates", "store", "stamp", "top", "fill"}

\* The counter is within its bound because what was counted is.
Typed == StatsTypeOK /\ counter <= moved

LEMMA UnreadIsReading == Unread \in Readings
BY Widths DEF Unread, Readings

LEMMA NoStatsIsShape == NoStats \in Shapes
BY DEF NoStats, Shapes

LEMMA TypesInit == StatsInit => Typed
<1> SUFFICES ASSUME StatsInit PROVE Typed
  OBVIOUS
<1>1. stats \in [Streams -> Shapes] /\ seen \in [Streams -> Readings] /\ before \in [Streams -> Readings]
  BY NoStatsIsShape, UnreadIsReading DEF StatsInit
<1>2. /\ prevNet \in [Streams -> 0 .. MaxMoved \cup {None}]
      /\ current \in [Streams -> 0 .. MaxMoved \cup {None}]
      /\ at \in [Streams -> 0 .. MaxNow] /\ kept \in [Streams -> Readings \cup {None}]
      /\ pc \in [Streams -> Places]
  BY Widths DEF StatsInit, Places
<1>3. /\ now \in 0 .. MaxNow /\ counter \in 0 .. MaxMoved /\ moved \in 0 .. MaxMoved /\ counter <= moved
      /\ resets \in 0 .. MaxResets /\ misses \in 0 .. MaxMisses /\ up \in BOOLEAN
      /\ prevDiskIO \in 0 .. MaxMoved \cup {None} /\ prevDiskIOTime \in 0 .. MaxNow
      /\ topProcessesTime \in 0 .. MaxNow \cup {None}
  BY Widths DEF StatsInit
<1> QED BY <1>1, <1>2, <1>3 DEF Typed, StatsTypeOK, Shapes, Places

LEMMA TypesStep == Typed /\ [StatsNext]_statsVars => Typed'
<1> SUFFICES ASSUME Typed, [StatsNext]_statsVars PROVE Typed'
  OBVIOUS
<1> USE Widths, UnreadIsReading
    DEF Typed, Shapes, Places, StatsTypeOK, shared, world, local, Goes, Touches, NoStats
<1>1. CASE Pi
  BY <1>1 DEF Pi, Second, Count, Reset
<1>2. ASSUME NEW s \in Streams, StatsBegin(s) PROVE Typed'
  BY <1>2 DEF StatsBegin
<1>3. ASSUME NEW s \in Streams, Tick(s) PROVE Typed'
  <2>1. PICK net \in BOOLEAN, disks \in {"read", "absent", "failed"} :
          LET value == IF net THEN counter ELSE 0 IN
          /\ misses' = misses + (IF net THEN 0 ELSE 1) + (IF disks = "read" THEN 0 ELSE 1)
          /\ misses' <= MaxMisses
          /\ stats' = [stats EXCEPT ![s].net = NetRate(s, value)]
          /\ prevNet' = [prevNet EXCEPT ![s] = value]
          /\ Goes(s, IF disks = "failed" THEN "top" ELSE "rates")
          /\ current' = [current EXCEPT ![s] = IF disks = "read" THEN counter ELSE None]
          /\ seen' = [seen EXCEPT ![s] = Reading(net)]
    BY <1>3 DEF Tick
  <2> DEFINE value == IF net THEN counter ELSE 0
  <2>2. NetRate(s, value) \in Nats
    <3>1. CASE prevNet[s] = None
      BY <3>1 DEF NetRate
    <3>2. CASE prevNet[s] # None
      <4>1. Difference(value, prevNet[s]) \in Nats
        BY <3>2, Differences
      <4> QED BY <3>2, <4>1, ShownRate DEF NetRate
    <3> QED BY <3>1, <3>2
  <2>3. stats' \in [Streams -> Shapes] /\ misses' \in 0 .. MaxMisses
    BY <2>1, <2>2
  <2>4. Reading(net) \in Readings
    BY DEF Reading, Readings
  <2>5. seen' \in [Streams -> Readings] /\ before' \in [Streams -> Readings]
    BY <1>3, <2>1, <2>4 DEF Tick
  <2>6. pc' \in [Streams -> Places] /\ prevNet' \in [Streams -> 0 .. MaxMoved \cup {None}]
        /\ current' \in [Streams -> 0 .. MaxMoved \cup {None}] /\ at' \in [Streams -> 0 .. MaxNow]
    BY <1>3, <2>1 DEF Tick
  <2>7. UNCHANGED <<world, shared, topProcessesTime, kept, up>>
    BY <1>3, <2>1 DEF Tick
  <2> QED BY <2>3, <2>5, <2>6, <2>7
<1>4. ASSUME NEW s \in Streams, Rates(s) PROVE Typed'
  <2>1. stats' \in [Streams -> Shapes]
    <3>1. CASE prevDiskIO = None \/ current[s] = None
      BY <1>4, <3>1 DEF Rates
    <3>2. CASE ~(prevDiskIO = None \/ current[s] = None)
      <4>1. PICK r \in Quotients(Difference(current[s], prevDiskIO), at[s] - prevDiskIOTime) :
              stats' = [stats EXCEPT ![s].bytes = Shown(r), ![s].count = r]
        BY <1>4, <3>2 DEF Rates
      <4>2. at[s] - prevDiskIOTime \in Int
        OBVIOUS
      <4>3. r \in Nats
        BY <3>2, <4>2, RateType
      <4>4. Shown(r) \in Nats
        BY <4>3, ShownRate
      <4> QED BY <4>1, <4>3, <4>4
    <3> QED BY <3>1, <3>2
  <2>2. /\ UNCHANGED <<world, shared, topProcessesTime, up, prevNet, current, at, seen, before, misses, kept>>
        /\ pc' \in [Streams -> Places]
    BY <1>4 DEF Rates
  <2> QED BY <2>1, <2>2
<1>5. ASSUME NEW s \in Streams, Store(s) PROVE Typed'
  BY <1>5 DEF Store
<1>6. ASSUME NEW s \in Streams, Stamp(s) PROVE Typed'
  BY <1>6 DEF Stamp
<1>7. ASSUME NEW s \in Streams, Top(s) PROVE Typed'
  <2>1. CASE Sends(s)
    BY <1>7, <2>1 DEF Top, Sends
  <2>2. CASE Goes(s, "fill") /\ UNCHANGED local
    BY <1>7, <2>2 DEF Top
  <2> QED BY <1>7, <2>1, <2>2 DEF Top
<1>8. ASSUME NEW s \in Streams, Fill(s) PROVE Typed'
  BY <1>8 DEF Fill, Sends
<1>9. ASSUME NEW s \in Streams, MapFault(s) PROVE Typed'
  <2>1. stats' \in [Streams -> Shapes] /\ seen' \in [Streams -> Readings] /\ before' \in [Streams -> Readings]
    BY <1>9, NoStatsIsShape, UnreadIsReading DEF MapFault
  <2>2. /\ prevNet' \in [Streams -> 0 .. MaxMoved \cup {None}]
        /\ current' \in [Streams -> 0 .. MaxMoved \cup {None}]
        /\ at' \in [Streams -> 0 .. MaxNow] /\ kept' \in [Streams -> Readings \cup {None}]
        /\ pc' \in [Streams -> Places]
    BY <1>9 DEF MapFault
  <2> QED BY <1>9, <2>1, <2>2 DEF MapFault
<1>10. ASSUME NEW s \in Streams, StatsOver(s) PROVE Typed'
  BY <1>10 DEF StatsOver
<1>11. CASE UNCHANGED statsVars
  BY <1>11 DEF statsVars
<1> QED BY <1>1, <1>2, <1>3, <1>4, <1>5, <1>6, <1>7, <1>8, <1>9, <1>10, <1>11 DEF StatsNext

\* AgentStats.StatsTypeOK holds of every run.
THEOREM StatsTypes == StatsSpec => []StatsTypeOK
<1>1. Typed => StatsTypeOK
  BY DEF Typed
<1> QED BY <1>1, TypesInit, TypesStep, PTL DEF StatsSpec

-----------------------------------------------------------------------------
(* Readings *)

\* Between two readings the counter has counted, or it has started again and
\* counted from there.
Later(r, q) ==
  /\ r.moved <= q.moved /\ r.resets <= q.resets /\ r.at <= q.at
  /\ IF r.resets = q.resets
     THEN q.counter - r.counter = q.moved - r.moved
     ELSE q.counter <= q.moved - r.moved

Present == Reading(TRUE)

\* The histories are earlier than the present, and in their order.
Past(s) ==
  /\ Later(Unread, seen[s]) /\ Later(seen[s], Present) /\ Later(before[s], seen[s])
  /\ kept[s] # None => Later(kept[s], seen[s])
  /\ pc[s] \in {"off", "wait"} => before[s] = Unread
  /\ seen[s].at <= at[s] /\ at[s] <= now
  /\ pc[s] \in {"rates", "store", "stamp"} => seen[s].at = at[s]

\* What a stream holds of its last reading of the network.
Held(s) ==
  /\ seen[s].net => prevNet[s] = seen[s].counter
  /\ prevNet[s] # None /\ ~seen[s].net => prevNet[s] = 0

\* Between ticks nothing is collected, and before the rates no disk is.
Bare(s) ==
  /\ pc[s] \in {"off", "wait"} => stats[s] = NoStats /\ current[s] = None
  /\ pc[s] = "rates" => stats[s].bytes = None

Bares == \A s \in Streams : Bare(s)

History == Typed /\ Later(Unread, Present) /\ \A s \in Streams : Past(s) /\ Held(s)

\* The present moves on from every reading.
LEMMA Passes ==
  ASSUME Typed, Pi
  PROVE  \A r \in Readings : Later(r, Present) => Later(r, Present')
<1> SUFFICES ASSUME NEW r \in Readings, Later(r, Present) PROVE Later(r, Present')
  OBVIOUS
<1>1. /\ now \in Nat /\ counter \in Nat /\ moved \in Nat /\ resets \in Nat /\ counter <= moved
      /\ r.counter \in Nat /\ r.moved \in Nat /\ r.resets \in Nat /\ r.at \in Nat
  BY Widths DEF Typed, StatsTypeOK, Readings
<1>2. /\ Present.counter = counter /\ Present.moved = moved /\ Present.resets = resets /\ Present.at = now
      /\ Present'.counter = counter' /\ Present'.moved = moved' /\ Present'.resets = resets' /\ Present'.at = now'
  BY DEF Present, Reading
<1>3. CASE Second
  BY <1>1, <1>2, <1>3 DEF Second, Later
<1>4. CASE Count
  BY <1>1, <1>2, <1>4 DEF Count, Later
<1>5. CASE Reset
  BY <1>1, <1>2, <1>5 DEF Reset, Later
<1> QED BY <1>3, <1>4, <1>5 DEF Pi

\* A reading is no earlier than itself.
LEMMA Same ==
  ASSUME NEW r \in Readings PROVE Later(r, r)
BY Widths DEF Readings, Later

\* Readings are in a line.
LEMMA Line ==
  ASSUME NEW r \in Readings, NEW q \in Readings, NEW p \in Readings, Later(r, q), Later(q, p)
  PROVE  Later(r, p)
<1>1. \A x \in Readings : x.counter \in Nat /\ x.moved \in Nat /\ x.resets \in Nat /\ x.at \in Nat
  BY Widths DEF Readings
<1> HIDE DEF Readings
<1>2. /\ r.moved <= p.moved /\ r.resets <= p.resets /\ r.at <= p.at
      /\ r.resets = p.resets => r.resets = q.resets /\ q.resets = p.resets
  BY <1>1 DEF Later
<1>3. CASE r.resets = p.resets
  BY <1>1, <1>2, <1>3 DEF Later
<1>4. CASE r.resets # p.resets
  BY <1>1, <1>2, <1>4 DEF Later
<1> QED BY <1>3, <1>4

LEMMA HistoryStep == History /\ [StatsNext]_statsVars => History'
<1> SUFFICES ASSUME History, [StatsNext]_statsVars PROVE History'
  OBVIOUS
<1>1. Typed /\ Typed' /\ StatsTypeOK /\ StatsTypeOK'
  BY TypesStep DEF History, Typed
<1>2. CASE Pi
  <2>1. UNCHANGED <<seen, before, kept, pc, at, prevNet>> /\ now <= now'
    BY <1>1, <1>2 DEF Pi, local, Second, Count, Reset, StatsTypeOK
  <2>2. Later(Unread, Present')
    BY <1>1, <1>2, UnreadIsReading, Passes DEF History
  <2>3. ASSUME NEW s \in Streams PROVE (Past(s) /\ Held(s))'
    <3>1. Past(s) /\ Held(s) /\ now \in Nat /\ now' \in Nat /\ at[s] \in Nat /\ seen[s] \in Readings
      BY <1>1, Widths DEF History, StatsTypeOK
    <3>2. Later(seen[s], Present')
      BY <1>1, <1>2, <3>1, Passes DEF Past
    <3> QED BY <2>1, <3>1, <3>2 DEF Past, Held, Later, Unread
  <2> QED BY <1>1, <2>2, <2>3 DEF History, Later, Unread
<1>3. ASSUME UNCHANGED <<world, up>>,
             NEW s \in Streams, Past(s)', Held(s)',
             \A t \in Streams \ {s} : /\ UNCHANGED <<seen[t], before[t], pc[t], at[t], prevNet[t]>>
                                      /\ kept'[t] # None => kept'[t] = kept[t]
      PROVE  History'
  <2>1. ASSUME NEW t \in Streams \ {s} PROVE (Past(t) /\ Held(t))'
    BY <1>3, <2>1 DEF History, Past, Held, Later, Present, Reading, world, Unread
  <2> QED BY <1>1, <1>3, <2>1 DEF History, Later, Present, Reading, world, Unread
<1>4. ASSUME NEW s \in Streams, StatsBegin(s) PROVE History'
  <2>1. Past(s)' /\ Held(s)'
    BY <1>1, <1>4 DEF History, Past, Held, StatsBegin, Goes, Touches, Later, Present, Reading, world, Unread, StatsTypeOK, Readings
  <2> QED BY <1>1, <1>3, <1>4, <2>1 DEF StatsBegin, Goes, Touches, StatsTypeOK
<1>5. ASSUME NEW s \in Streams, Tick(s) PROVE History'
  <2>1. PICK net \in BOOLEAN, disks \in {"read", "absent", "failed"} :
          /\ prevNet' = [prevNet EXCEPT ![s] = IF net THEN counter ELSE 0]
          /\ pc' = [pc EXCEPT ![s] = IF disks = "failed" THEN "top" ELSE "rates"]
          /\ seen' = [seen EXCEPT ![s] = Reading(net)]
          /\ UNCHANGED up
    BY <1>5 DEF Tick, Goes
  <2>2. /\ at' = [at EXCEPT ![s] = now] /\ before' = [before EXCEPT ![s] = seen[s]]
        /\ UNCHANGED <<world, kept>>
    BY <1>5 DEF Tick
  <2>3. /\ seen'[s] = Reading(net) /\ before'[s] = seen[s] /\ at'[s] = now
        /\ prevNet'[s] = IF net THEN counter ELSE 0
        /\ pc'[s] \in {"rates", "top"} /\ kept'[s] = kept[s]
    BY <1>1, <2>1, <2>2 DEF StatsTypeOK
  <2>4. Past(s) /\ Later(Unread, Present)
    BY DEF History
  <2>5. Later(Unread, Reading(net)) /\ Later(seen[s], Reading(net)) /\ Later(Reading(net), Reading(TRUE))
    BY <1>1, <2>4, Widths DEF Past, Later, Present, Reading, StatsTypeOK, Readings
  <2>6. kept[s] # None => Later(kept[s], Reading(net))
    <3> SUFFICES ASSUME kept[s] # None PROVE Later(kept[s], Reading(net))
      OBVIOUS
    <3>1. kept[s] \in Readings /\ seen[s] \in Readings /\ Reading(net) \in Readings
      BY <1>1, Widths DEF StatsTypeOK, Readings, Reading
    <3>2. Later(kept[s], seen[s])
      BY <2>4 DEF Past
    <3> QED BY <2>5, <3>1, <3>2, Line
  <2>7. Reading(TRUE)' = Reading(TRUE) /\ Reading(net).at = now /\ (Reading(net).net = net)
        /\ Reading(net).counter = counter
    BY <2>2 DEF Reading, world
  <2>8. Past(s)' /\ Held(s)'
    <3>1. now' = now /\ Present' = Reading(TRUE) /\ now \in Nat
      BY <1>1, <2>2, Widths DEF Present, Reading, world, StatsTypeOK
    <3>2. Later(Unread, seen'[s]) /\ Later(seen'[s], Present') /\ Later(before'[s], seen'[s])
      BY <2>3, <2>5, <3>1
    <3>3. kept'[s] # None => Later(kept'[s], seen'[s])
      BY <2>3, <2>6
    <3>4. pc'[s] \notin {"off", "wait"} /\ seen'[s].at = at'[s] /\ at'[s] <= now'
          /\ seen'[s].at <= at'[s]
      BY <2>3, <2>7, <3>1
    <3>5. Past(s)'
      BY <3>1, <3>2, <3>3, <3>4 DEF Past, Later, Unread
    <3>6. Held(s)'
      BY <2>3, <2>7 DEF Held
    <3> QED BY <3>5, <3>6
  <2> QED BY <1>1, <1>3, <2>1, <2>2, <2>8 DEF StatsTypeOK
<1>6. ASSUME NEW s \in Streams, Rates(s) \/ Store(s) \/ Stamp(s) PROVE History'
  <2>1. /\ UNCHANGED <<world, up, seen, before, at, prevNet>>
        /\ \A t \in Streams \ {s} : pc'[t] = pc[t] /\ (kept'[t] # None => kept'[t] = kept[t])
        /\ pc[s] \in {"rates", "store", "stamp"} /\ pc'[s] \in {"store", "stamp", "top"}
        /\ kept'[s] \in {kept[s], seen[s], None}
    BY <1>1, <1>6 DEF Rates, Store, Stamp, Goes, Touches, local, StatsTypeOK
  <2>2. Past(s) /\ Held(s) /\ Later(seen[s], seen[s])
    BY <1>1, Same DEF History, StatsTypeOK
  <2>3. Past(s)' /\ Held(s)'
    BY <2>1, <2>2 DEF Past, Held, Later, Present, Reading, world, Unread
  <2> QED BY <1>3, <2>1, <2>3
<1>7. ASSUME NEW s \in Streams, Top(s) \/ Fill(s) PROVE History'
  <2>1. /\ UNCHANGED <<world, up, seen, at, prevNet, kept>> /\ pc[s] \in {"top", "fill"}
        /\ \A t \in Streams \ {s} : UNCHANGED <<pc[t], before[t]>>
        /\ \/ pc'[s] = "wait" /\ before'[s] = Unread
           \/ pc'[s] = "fill" /\ before'[s] = before[s]
    BY <1>1, <1>7 DEF Top, Fill, Sends, Goes, local, StatsTypeOK
  <2>2. Past(s) /\ Held(s)
    BY DEF History
  <2>3. Past(s)' /\ Held(s)'
    BY <2>1, <2>2 DEF Past, Held, Later, Present, Reading, world, Unread
  <2> QED BY <1>3, <2>1, <2>3
<1>8. ASSUME NEW s \in Streams, StatsOver(s) PROVE History'
  <2>1. /\ UNCHANGED <<world, up, before>> /\ pc[s] = "wait" /\ pc'[s] = "off"
        /\ seen'[s] = Unread /\ at'[s] = 0 /\ prevNet'[s] = None /\ kept'[s] = None
        /\ \A t \in Streams \ {s} : UNCHANGED <<pc[t], seen[t], at[t], prevNet[t], kept[t]>>
    BY <1>1, <1>8 DEF StatsOver, Goes, StatsTypeOK
  <2>2. Past(s) /\ Later(Unread, Present) /\ Later(Unread, Unread) /\ now \in Nat
    BY <1>1, Same, UnreadIsReading DEF History, StatsTypeOK
  <2>3. ~Unread.net /\ Unread.at = 0
    BY DEF Unread
  <2>4. Past(s)' /\ Held(s)'
    BY <2>1, <2>2, <2>3 DEF Past, Held, Later, Present, Reading, world, Unread
  <2> QED BY <1>3, <2>1, <2>4
<1>9. ASSUME NEW s \in Streams, MapFault(s) PROVE History'
  <2>1. /\ UNCHANGED world
        /\ \A t \in Streams : /\ seen'[t] = Unread /\ before'[t] = Unread /\ at'[t] = 0
                              /\ prevNet'[t] = None /\ kept'[t] = None /\ pc'[t] = "off"
    BY <1>9 DEF MapFault
  <2>2. Later(Unread, Present) /\ Later(Unread, Unread) /\ now \in Nat
    BY <1>1, Same, UnreadIsReading DEF History, StatsTypeOK
  <2>3. ~Unread.net /\ Unread.at = 0
    BY DEF Unread
  <2>4. Present' = Present /\ now' = now
    BY <2>1 DEF Present, Reading, world
  <2>5. Later(Unread, Present)'
    BY <2>2, <2>4 DEF Later, Unread
  <2>6. ASSUME NEW t \in Streams PROVE (Past(t) /\ Held(t))'
    BY <2>1, <2>2, <2>3, <2>4, <2>5 DEF Past, Held, Later, Unread
  <2> QED BY <1>1, <2>5, <2>6 DEF History
<1>10. CASE UNCHANGED statsVars
  BY <1>1, <1>10 DEF statsVars, local, world, History, Past, Held, Later, Present, Reading, Unread
<1> QED BY <1>2, <1>4, <1>5, <1>6, <1>7, <1>8, <1>9, <1>10 DEF StatsNext

LEMMA HistoryInit == StatsInit => History
<1> SUFFICES ASSUME StatsInit PROVE History
  OBVIOUS
<1>1. Typed
  BY TypesInit
<1> QED BY <1>1 DEF StatsInit, History, Past, Held, Later, Present, Reading, Unread

LEMMA BaresStep == Typed /\ Bares /\ [StatsNext]_statsVars => Bares'
<1> SUFFICES ASSUME Typed, Bares, [StatsNext]_statsVars PROVE Bares'
  OBVIOUS
<1> USE DEF Typed, StatsTypeOK, Bares, Bare, Goes, local
<1>1. ASSUME NEW s \in Streams, Tick(s) PROVE Bares'
  <2>1. /\ pc[s] = "wait" /\ pc'[s] \in {"rates", "top"} /\ stats'[s].bytes = stats[s].bytes
        /\ \A t \in Streams \ {s} : UNCHANGED <<pc[t], stats[t], current[t]>>
    BY <1>1 DEF Tick
  <2> QED BY <2>1 DEF NoStats
<1>2. ASSUME NEW s \in Streams, Rates(s) PROVE Bares'
  <2>1. pc'[s] = "store" /\ \A t \in Streams \ {s} : UNCHANGED <<pc[t], stats[t], current[t]>>
    <3>1. CASE prevDiskIO = None \/ current[s] = None
      BY <1>2, <3>1 DEF Rates
    <3>2. CASE ~(prevDiskIO = None \/ current[s] = None)
      <4>1. PICK r \in Quotients(Difference(current[s], prevDiskIO), at[s] - prevDiskIOTime) :
              stats' = [stats EXCEPT ![s].bytes = Shown(r), ![s].count = r]
        BY <1>2, <3>2 DEF Rates
      <4> QED BY <1>2, <4>1 DEF Rates
    <3> QED BY <3>1, <3>2
  <2> QED BY <2>1
<1>3. ASSUME NEW s \in Streams, Top(s) \/ Fill(s) PROVE Bares'
  <2>1. /\ (pc'[s] = "wait" /\ stats'[s] = NoStats /\ current'[s] = None) \/ pc'[s] = "fill"
        /\ \A t \in Streams \ {s} : UNCHANGED <<pc[t], stats[t], current[t]>>
    BY <1>3 DEF Top, Fill, Sends
  <2> QED BY <2>1
<1>4. ASSUME NEW s \in Streams, StatsBegin(s) \/ Store(s) \/ Stamp(s) \/ StatsOver(s) PROVE Bares'
  BY <1>4 DEF StatsBegin, Store, Stamp, StatsOver
<1>5. ASSUME NEW s \in Streams, MapFault(s) PROVE Bares'
  BY <1>5 DEF MapFault
<1>6. CASE Pi \/ UNCHANGED statsVars
  BY <1>6 DEF Pi, statsVars
<1> QED BY <1>1, <1>2, <1>3, <1>4, <1>5, <1>6 DEF StatsNext

\* The histories hold of every run.
LEMMA Histories == StatsSpec => [](History /\ Bares)
<1>1. StatsInit => Bares
  BY DEF StatsInit, Bares, Bare
<1>2. History => Typed
  BY DEF History
<1> QED BY <1>1, <1>2, HistoryInit, HistoryStep, BaresStep, PTL DEF StatsSpec

-----------------------------------------------------------------------------
(* Rates of the network *)

\* A tick tells its own stream what was moved.
LEMMA TickTrue ==
  ASSUME History, NEW s \in Streams, Tick(s)
  PROVE  LET gone == seen'[s].moved - before'[s].moved IN
         /\ stats'[s].net <= seen'[s].moved
         /\ before'[s].net => stats'[s].net <= gone
         /\ before'[s].net /\ seen'[s].net /\ seen'[s].resets = before'[s].resets /\ gone <= Limit
              => stats'[s].net = gone
<1> USE Widths
<1> DEFINE gone == moved - seen[s].moved
<1>1. PICK net \in BOOLEAN :
        /\ seen'[s] = Reading(net) /\ before'[s] = seen[s]
        /\ stats'[s].net = NetRate(s, IF net THEN counter ELSE 0)
  BY DEF Tick, History, Typed, StatsTypeOK
<1> DEFINE value == IF net THEN counter ELSE 0
<1>2. seen'[s].moved = moved /\ seen'[s].resets = resets /\ seen'[s].net = net
  BY <1>1 DEF Reading
<1>3. /\ counter \in 0 .. MaxMoved /\ moved \in Nat /\ counter <= moved /\ value \in 0 .. MaxMoved
      /\ seen[s].moved \in Nat /\ seen[s].net \in BOOLEAN /\ prevNet[s] \in 0 .. MaxMoved \cup {None}
  BY DEF History, Typed, StatsTypeOK, Readings
<1>4. /\ gone \in Nat
      /\ IF seen[s].resets = resets THEN counter - seen[s].counter = gone ELSE counter <= gone
  BY <1>3 DEF History, Past, Later, Present, Reading
<1>5. /\ seen[s].net => prevNet[s] = seen[s].counter
      /\ prevNet[s] # None /\ ~seen[s].net => prevNet[s] = 0
  BY DEF History, Held
<1>6. CASE prevNet[s] = None
  <2>1. ~seen[s].net
    <3>1. seen[s].counter \in Int
      BY DEF History, Typed, StatsTypeOK, Readings
    <3> QED BY <1>5, <1>6, <3>1, NoneAssumption
  <2>2. stats'[s].net = 0
    BY <1>1, <1>6 DEF NetRate
  <2> QED BY <1>1, <1>2, <1>3, <2>1, <2>2
<1>7. CASE prevNet[s] # None
  <2> DEFINE prev == prevNet[s]
             diff == Difference(value, prev)
  <2>1. prev \in 0 .. MaxMoved /\ stats'[s].net = Shown(diff)
    BY <1>1, <1>3, <1>7 DEF NetRate
  <2>2. diff \in Nats
    BY <1>3, <2>1, Differences
  <2>3. CASE value >= prev
    <3>1. diff = value - prev /\ diff <= moved
      BY <1>3, <2>1, <2>3, Differences
    <3>2. seen[s].net => diff <= gone
      BY <1>3, <1>4, <1>5, <2>1, <2>3, <3>1
    <3>3. seen[s].net /\ net /\ resets = seen[s].resets => diff = gone
      BY <1>3, <1>4, <1>5, <2>1, <3>1
    <3>4. Shown(diff) \in Nats /\ Shown(diff) <= diff /\ (diff <= Limit => Shown(diff) = diff)
      BY <2>2, ShownRate
    <3> HIDE DEF diff, value, gone, prev
    <3>5. Shown(diff) <= moved
      BY <1>3, <2>2, <3>1, <3>4
    <3>6. seen[s].net => Shown(diff) <= gone
      BY <1>4, <2>2, <3>2, <3>4
    <3>7. seen[s].net /\ net /\ resets = seen[s].resets /\ gone <= Limit => Shown(diff) = gone
      BY <3>3, <3>4
    <3> QED BY <1>1, <1>2, <2>1, <3>5, <3>6, <3>7 DEF gone
  <2>4. CASE value < prev
    <3>1. Shown(diff) = 0
      BY <1>3, <2>1, <2>2, <2>4, Differences, ShownRate
    <3>2. ~(seen[s].net /\ net /\ resets = seen[s].resets)
      BY <1>3, <1>4, <1>5, <2>1, <2>4
    <3> QED BY <1>1, <1>2, <1>3, <1>4, <2>1, <3>1, <3>2
  <2> QED BY <1>3, <2>1, <2>3, <2>4
<1> QED BY <1>6, <1>7

LEMMA NetStep ==
  History /\ Bares /\ NetTrue /\ [StatsNext]_statsVars => NetTrue'
<1> SUFFICES ASSUME History, Bares, NetTrue, [StatsNext]_statsVars PROVE NetTrue'
  OBVIOUS
<1> USE DEF NetTrue, History, Typed, StatsTypeOK, local
<1>1. ASSUME NEW s \in Streams, Tick(s) PROVE NetTrue'
  <2>1. \A t \in Streams \ {s} : UNCHANGED <<stats[t], seen[t], before[t]>>
    BY <1>1 DEF Tick
  <2> QED BY <1>1, <2>1, TickTrue
<1>2. ASSUME NEW s \in Streams, Rates(s) PROVE NetTrue'
  <2>1. \A t \in Streams : stats'[t].net = stats[t].net
    <3>1. CASE prevDiskIO = None \/ current[s] = None
      BY <1>2, <3>1 DEF Rates
    <3>2. CASE ~(prevDiskIO = None \/ current[s] = None)
      <4>1. PICK r \in Quotients(Difference(current[s], prevDiskIO), at[s] - prevDiskIOTime) :
              stats' = [stats EXCEPT ![s].bytes = Shown(r), ![s].count = r]
        BY <1>2, <3>2 DEF Rates
      <4> QED BY <4>1
    <3> QED BY <3>1, <3>2
  <2>2. UNCHANGED <<seen, before>>
    BY <1>2 DEF Rates
  <2> QED BY <2>1, <2>2
<1>3. ASSUME NEW s \in Streams, Top(s) \/ Fill(s) PROVE NetTrue'
  <2>1. CASE UNCHANGED local
    BY <2>1
  <2>2. CASE Sends(s)
    <3>1. /\ stats'[s].net = None /\ UNCHANGED seen
          /\ \A t \in Streams \ {s} : UNCHANGED <<stats[t], before[t]>>
      BY <2>2 DEF Sends, NoStats
    <3> QED BY <3>1
  <2> QED BY <1>3, <2>1, <2>2 DEF Top, Fill
<1>4. ASSUME NEW s \in Streams, StatsBegin(s) \/ Store(s) \/ Stamp(s) PROVE NetTrue'
  BY <1>4 DEF StatsBegin, Store, Stamp
<1>5. ASSUME NEW s \in Streams, StatsOver(s) PROVE NetTrue'
  <2>1. /\ stats'[s].net = None /\ UNCHANGED <<stats, before>>
        /\ \A t \in Streams \ {s} : UNCHANGED seen[t]
    BY <1>5 DEF StatsOver, Bares, Bare, NoStats
  <2> QED BY <2>1
<1>6. ASSUME NEW s \in Streams, MapFault(s) PROVE NetTrue'
  BY <1>6 DEF MapFault, NoStats
<1>7. CASE Pi \/ UNCHANGED statsVars
  BY <1>7 DEF Pi, statsVars
<1> QED BY <1>1, <1>2, <1>3, <1>4, <1>5, <1>6, <1>7 DEF StatsNext

\* AgentStats.NetTrue: a stream is told what was moved.
THEOREM NetIsTrue == StatsSpec => []NetTrue
<1>1. StatsInit => NetTrue
  BY DEF StatsInit, NetTrue, NoStats
<1> QED BY <1>1, Histories, NetStep, PTL DEF StatsSpec

-----------------------------------------------------------------------------
(* Rates of the disks *)

\* What a stream holds of the disk in the middle of a tick; and while nobody has
\* touched the disk fields, they are those it stored.
Disk(s) ==
  /\ current[s] # None => current[s] = seen[s].counter
  /\ kept[s] # None =>
       /\ prevDiskIO = kept[s].counter
       /\ IF pc[s] = "stamp" THEN kept[s].at = at[s] ELSE prevDiskIOTime = kept[s].at
       /\ pc[s] \in {"rates", "store"} => kept[s].at < seen[s].at

Disks == \A s \in Streams : Disk(s)

LEMMA DisksStep ==
  History /\ Bares /\ Disks /\ [StatsNext]_statsVars => Disks'
<1> SUFFICES ASSUME History, Bares, Disks, [StatsNext]_statsVars, NEW t \in Streams PROVE Disk(t)'
  BY DEF Disks
<1> USE Widths, NoneAssumption DEF History, Typed, StatsTypeOK, shared, world, local, Goes, Touches, Disks, Disk
<1>1. CASE Pi
  BY <1>1 DEF Pi
<1>2. ASSUME NEW s \in Streams, StatsBegin(s) PROVE Disk(t)'
  BY <1>2 DEF StatsBegin
<1>3. ASSUME NEW s \in Streams, Tick(s) PROVE Disk(t)'
  <2>1. CASE t # s
    BY <1>3, <2>1 DEF Tick
  <2>2. CASE t = s
    <3>1. /\ pc[s] = "wait" /\ pc'[s] \in {"rates", "top"} /\ now > at[s] /\ now \in Nat
          /\ current'[s] \in {counter, None} /\ UNCHANGED <<shared, kept>>
          /\ seen'[s].counter = counter /\ seen'[s].at = now
      BY <1>3 DEF Tick, Reading
    <3>2. kept[s] # None => kept[s].at \in Nat /\ kept[s].at <= seen[s].at
      BY DEF Past, Later, Readings
    <3>3. seen[s].at <= at[s] /\ seen[s].at \in Nat /\ at[s] \in Nat
      BY DEF Past, Readings
    <3> QED BY <2>2, <3>1, <3>2, <3>3
  <2> QED BY <2>1, <2>2
<1>4. ASSUME NEW s \in Streams, Rates(s) PROVE Disk(t)'
  BY <1>4 DEF Rates
<1>5. ASSUME NEW s \in Streams, Store(s) PROVE Disk(t)'
  <2>1. seen[s].at = at[s]
    BY <1>5 DEF Store, Past
  <2> QED BY <1>5, <2>1 DEF Store
<1>6. ASSUME NEW s \in Streams, Stamp(s) PROVE Disk(t)'
  BY <1>6 DEF Stamp
<1>7. ASSUME NEW s \in Streams, Top(s) \/ Fill(s) PROVE Disk(t)'
  <2>1. /\ UNCHANGED <<shared, at, seen, kept>> /\ pc[s] \in {"top", "fill"} /\ pc'[s] \in {"wait", "fill"}
        /\ (t # s => UNCHANGED <<pc[t], current[t]>>) /\ current'[s] \in {current[s], None}
    BY <1>7 DEF Top, Fill, Sends
  <2> QED BY <2>1
<1>8. ASSUME NEW s \in Streams, MapFault(s) PROVE Disk(t)'
  BY <1>8 DEF MapFault
<1>9. ASSUME NEW s \in Streams, StatsOver(s) PROVE Disk(t)'
  BY <1>9 DEF StatsOver, Bares, Bare
<1>10. CASE UNCHANGED statsVars
  BY <1>10 DEF statsVars
<1> QED BY <1>1, <1>2, <1>3, <1>4, <1>5, <1>6, <1>7, <1>8, <1>9, <1>10 DEF StatsNext

\* A stream whose disk fields nobody has touched is told its own rates.
LEMMA RatesTrue ==
  ASSUME History, Bares, Disks, NEW s \in Streams, Rates(s), kept[s] # None
  PROVE  LET gone == seen[s].moved - kept[s].moved
             secs == seen[s].at - kept[s].at
         IN
         /\ current[s] # None => stats'[s].bytes # None
         /\ stats'[s].bytes # None =>
              /\ stats'[s].bytes * secs <= gone
              /\ seen[s].resets = kept[s].resets =>
                   /\ stats'[s].count = gone \div secs
                   /\ gone \div secs <= Limit => stats'[s].bytes = gone \div secs
<1> USE DEF History, Typed, StatsTypeOK
<1> DEFINE gone == seen[s].moved - kept[s].moved
           secs == seen[s].at - kept[s].at
           diff == Difference(current[s], prevDiskIO)
<1>1. pc[s] = "rates" /\ prevDiskIO = kept[s].counter /\ prevDiskIOTime = kept[s].at /\ at[s] = seen[s].at
  BY DEF Rates, Disks, Disk, Past
<1>2. /\ kept[s] \in Readings /\ seen[s] \in Readings /\ Later(kept[s], seen[s])
      /\ kept[s].at < seen[s].at
  BY <1>1 DEF Past, Disks, Disk
<1>3. /\ secs \in Nat \ {0} /\ secs <= MaxNow /\ gone \in Nat
      /\ prevDiskIO \in 0 .. MaxMoved /\ prevDiskIO # None /\ at[s] - prevDiskIOTime = secs
  BY <1>1, <1>2, Widths, NoneAssumption DEF Readings, Later
<1>4. CASE current[s] = None
  <2>1. UNCHANGED stats
    BY <1>4 DEF Rates
  <2>2. stats[s].bytes = None
    BY <1>1 DEF Bares, Bare
  <2> QED BY <1>4, <2>1, <2>2
<1>5. CASE current[s] # None
  <2>1. /\ current[s] \in 0 .. MaxMoved /\ current[s] = seen[s].counter
        /\ IF seen[s].resets = kept[s].resets THEN current[s] - prevDiskIO = gone ELSE current[s] <= gone
    BY <1>1, <1>2, <1>5, Widths DEF Disks, Disk, Later
  <2>2. diff \in Nats /\ diff \in Nat
    BY <1>3, <2>1, Differences, Widths
  <2>3. Quotients(diff, secs) = {diff \div secs}
    BY <1>3 DEF Quotients
  <2>4. stats'[s].bytes = Shown(diff \div secs) /\ stats'[s].count = diff \div secs
    <3>1. PICK r \in Quotients(diff, secs) : stats' = [stats EXCEPT ![s].bytes = Shown(r), ![s].count = r]
      BY <1>3, <1>5 DEF Rates
    <3>2. r = diff \div secs
      BY <2>3, <3>1
    <3> QED BY <3>1, <3>2
  <2>5. /\ diff \div secs \in Nats /\ (diff \div secs) * secs <= diff
        /\ Shown(diff \div secs) \in Nats /\ Shown(diff \div secs) <= diff \div secs
        /\ diff \div secs <= Limit => Shown(diff \div secs) = diff \div secs
        /\ diff \div secs > Limit => Shown(diff \div secs) = 0
    <3>1. diff \div secs \in Nat /\ diff \div secs <= diff /\ (diff \div secs) * secs <= diff
      BY <1>3, <2>2, Quotient
    <3>2. diff \div secs \in Nats
      BY <2>2, <3>1, Widths
    <3> QED BY <3>1, <3>2, ShownRate
  <2>6. stats'[s].bytes # None
    BY <2>4, <2>5, NoneAssumption, Widths
  <2>7. CASE current[s] >= prevDiskIO
    <3>1. diff = current[s] - prevDiskIO
      BY <1>3, <2>1, <2>7, Differences
    <3>2. diff <= gone /\ (seen[s].resets = kept[s].resets => diff = gone)
      BY <1>3, <2>1, <3>1, Widths
    <3>3. Shown(diff \div secs) * secs <= (diff \div secs) * secs
      BY <1>3, <2>5, Widths
    <3>4. Shown(diff \div secs) * secs <= gone
      BY <1>3, <2>2, <2>5, <3>2, <3>3, Widths
    <3> QED BY <2>4, <2>5, <2>6, <3>2, <3>4
  <2>8. CASE current[s] < prevDiskIO
    <3>1. diff >= (Limit + 1) * MaxNow
      BY <1>3, <2>1, <2>8, Differences
    <3>2. diff \div secs > Limit
      BY <1>3, <2>2, <3>1, Beyond, Widths
    <3>3. Shown(diff \div secs) = 0 /\ seen[s].resets # kept[s].resets
      BY <1>3, <2>1, <2>5, <2>8, <3>2
    <3> QED BY <1>3, <2>4, <2>6, <3>3
  <2> QED BY <1>3, <2>1, <2>7, <2>8
<1> QED BY <1>4, <1>5

LEMMA DiskStep ==
  History /\ Bares /\ Disks /\ DiskTrue /\ DiskListed /\ [StatsNext]_statsVars => DiskTrue' /\ DiskListed'
<1> SUFFICES ASSUME History, Bares, Disks, DiskTrue, DiskListed, [StatsNext]_statsVars
             PROVE  DiskTrue' /\ DiskListed'
  OBVIOUS
<1> USE DEF DiskTrue, DiskListed, History, Typed, StatsTypeOK, local, Goes, Touches
<1>1. ASSUME NEW s \in Streams, Rates(s) PROVE DiskTrue' /\ DiskListed'
  <2>1. \A t \in Streams \ {s} : UNCHANGED <<pc[t], stats[t]>>
    <3>1. CASE prevDiskIO = None \/ current[s] = None
      BY <1>1, <3>1 DEF Rates
    <3>2. CASE ~(prevDiskIO = None \/ current[s] = None)
      <4>1. PICK r \in Quotients(Difference(current[s], prevDiskIO), at[s] - prevDiskIOTime) :
              stats' = [stats EXCEPT ![s].bytes = Shown(r), ![s].count = r]
        BY <1>1, <3>2 DEF Rates
      <4> QED BY <1>1, <4>1 DEF Rates
    <3> QED BY <3>1, <3>2
  <2>2. UNCHANGED <<seen, current, kept>>
    BY <1>1 DEF Rates
  <2> QED BY <1>1, <2>1, <2>2, RatesTrue
<1>2. ASSUME NEW s \in Streams, pc'[s] # "store",
             \A t \in Streams \ {s} : /\ UNCHANGED <<pc[t], stats[t], seen[t], current[t]>>
                                      /\ kept'[t] # None => kept'[t] = kept[t]
      PROVE  DiskTrue' /\ DiskListed'
  BY <1>2
<1>3. ASSUME NEW s \in Streams, StatsBegin(s) \/ Tick(s) \/ Store(s) \/ Stamp(s) \/ Top(s) \/ Fill(s) \/ StatsOver(s)
      PROVE  DiskTrue' /\ DiskListed'
  <2>1. \A t \in Streams \ {s} : /\ UNCHANGED <<pc[t], stats[t], seen[t], current[t]>>
                                 /\ kept'[t] # None => kept'[t] = kept[t]
    BY <1>3 DEF StatsBegin, Tick, Store, Stamp, Top, Fill, StatsOver, Sends
  <2>2. pc'[s] # "store"
    BY <1>3 DEF StatsBegin, Tick, Store, Stamp, Top, Fill, StatsOver, Sends
  <2> QED BY <1>2, <2>1, <2>2
<1>4. ASSUME NEW s \in Streams, MapFault(s) PROVE DiskTrue' /\ DiskListed'
  BY <1>4 DEF MapFault
<1>5. CASE Pi \/ UNCHANGED statsVars
  BY <1>5 DEF Pi, statsVars
<1> QED BY <1>1, <1>3, <1>4, <1>5 DEF StatsNext

LEMMA DiskInvariant == StatsSpec => [](DiskTrue /\ DiskListed)
<1>1. StatsInit => Disks /\ DiskTrue /\ DiskListed
  BY DEF StatsInit, Disks, Disk, DiskTrue, DiskListed
<1> QED BY <1>1, Histories, DisksStep, DiskStep, PTL DEF StatsSpec

\* AgentStats.DiskTrue: what a stream is told of a disk nobody else touched is true.
THEOREM DiskRatesTrue == StatsSpec => []DiskTrue
BY DiskInvariant, PTL

\* AgentStats.DiskListed: it is told of every disk that was and is there.
THEOREM DiskRatesListed == StatsSpec => []DiskListed
BY DiskInvariant, PTL
=============================================================================
