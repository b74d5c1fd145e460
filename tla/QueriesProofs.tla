--------------------------- MODULE QueriesProofs ----------------------------
(* Proofs about AgentQueries: what the agent's loops make of an output, for     *)
(* outputs of any length and any bounds. A loop is a recursive function; the    *)
(* induction over its rounds is UpToInduction, which speaks of a set of numbers *)
(* where the library's theorem speaks of a predicate.                          *)
EXTENDS AgentQueries, FiniteSetTheorems, SequenceTheorems, TLAPS

(* Whatever holds of no rounds, and of one more when of some, holds of all.     *)
LEMMA UpToInduction ==
  ASSUME NEW N \in Nat, NEW S, 0 \in S, \A n \in 0 .. N : n < N /\ n \in S => n + 1 \in S
  PROVE  \A n \in 0 .. N : n \in S
<1> DEFINE Bad == {n \in 0 .. N : n \notin S}
<1> DEFINE Less == {ss \in Nat \X Nat : ss[1] < ss[2]}
<1>1. SUFFICES ASSUME Bad # {} PROVE FALSE
  OBVIOUS
<1>a. IsWellFoundedOn(Less, Nat)
  BY NatLessThanWellFounded, Zenon DEF OpToRel
<1>b. Bad \subseteq Nat
  OBVIOUS
<1>2. PICK m \in Bad : \A n \in Bad : ~(<<n, m>> \in Less)
  <2> HIDE DEF Bad, Less
  <2> QED
    BY <1>1, <1>a, <1>b, WFMin
<1>3. ASSUME NEW n \in Bad PROVE ~(n < m)
  <2>1. <<n, m>> \in Nat \X Nat /\ ~(<<n, m>> \in Less)
    BY <1>2
  <2> QED
    BY <2>1, Zenon
<1>4. m # 0 /\ m - 1 \in 0 .. N
  OBVIOUS
<1>5. m - 1 \in S
  BY <1>3, <1>4
<1> QED
  BY <1>4, <1>5

-----------------------------------------------------------------------------
(* The places a loop keeps.                                                    *)

LEMMA RankBounds ==
  ASSUME NEW N \in Nat, NEW S \in SUBSET (1 .. N)
  PROVE  /\ IsFiniteSet(S) /\ Cardinality(S) \in Nat
         /\ \A i \in S : Cardinality(UpToPlace(S, i)) \in 1 .. Cardinality(S)
         /\ \A i, j \in S : i < j => Cardinality(UpToPlace(S, i)) < Cardinality(UpToPlace(S, j))
<1>1. IsFiniteSet(S)
  <2>1. IsFiniteSet(1 .. N)
    BY FS_Interval
  <2> QED
    BY <2>1, FS_Subset
<1>2. ASSUME NEW i \in S PROVE Cardinality(UpToPlace(S, i)) \in 1 .. Cardinality(S)
  <2>1. UpToPlace(S, i) \in SUBSET S /\ UpToPlace(S, i) # {}
    BY DEF UpToPlace
  <2> QED
    BY <1>1, <2>1, FS_Subset, FS_CardinalityType, FS_EmptySet
<1>3. ASSUME NEW i \in S, NEW j \in S, i < j
      PROVE  Cardinality(UpToPlace(S, i)) < Cardinality(UpToPlace(S, j))
  <2>0. i \in Nat /\ j \in Nat /\ S \subseteq Nat
    OBVIOUS
  <2>a. \A k \in S : k <= i => k <= j
    BY <1>3, <2>0
  <2>b. j <= j /\ ~(j <= i)
    BY <1>3, <2>0
  <2>1. /\ UpToPlace(S, i) \in SUBSET UpToPlace(S, j) /\ UpToPlace(S, j) \in SUBSET S
        /\ j \in UpToPlace(S, j) /\ j \notin UpToPlace(S, i)
    BY <2>a, <2>b, Zenon DEF UpToPlace
  <2>2. IsFiniteSet(UpToPlace(S, j))
    BY <1>1, <2>1, FS_Subset
  <2>3. /\ Cardinality(UpToPlace(S, i)) <= Cardinality(UpToPlace(S, j))
        /\ Cardinality(UpToPlace(S, i)) # Cardinality(UpToPlace(S, j))
    BY <2>1, <2>2, FS_Subset
  <2> QED
    BY <1>2, <2>3, <1>1, FS_CardinalityType
<1> QED
  BY <1>1, <1>2, <1>3, FS_CardinalityType

(* Every number up to how many there are is the number of one of them.          *)
LEMMA RankOnto ==
  ASSUME NEW N \in Nat, NEW S \in SUBSET (1 .. N), NEW n \in 1 .. Cardinality(S)
  PROVE  \E i \in S : Cardinality(UpToPlace(S, i)) = n
<1> DEFINE rank == [i \in S |-> Cardinality(UpToPlace(S, i))]
           others == (1 .. Cardinality(S)) \ {n}
<1>1. SUFFICES ASSUME \A i \in S : Cardinality(UpToPlace(S, i)) # n PROVE FALSE
  OBVIOUS
<1>2. IsFiniteSet(S) /\ Cardinality(S) \in Nat
  BY RankBounds
<1>3. rank \in [S -> others]
  BY <1>1, RankBounds
<1>4. IsFiniteSet(others) /\ Cardinality(others) < Cardinality(S)
  <2> DEFINE C == Cardinality(S)
  <2>1. C \in Nat /\ n \in 1 .. C
    BY <1>2
  <2> HIDE DEF C
  <2>2. IsFiniteSet(1 .. C) /\ Cardinality(1 .. C) = C
    BY <2>1, FS_Interval
  <2>3. /\ IsFiniteSet((1 .. C) \ {n})
        /\ Cardinality((1 .. C) \ {n}) = Cardinality(1 .. C) - 1
    BY <2>1, <2>2, FS_RemoveElement
  <2>4. Cardinality((1 .. C) \ {n}) < C
    BY <2>1, <2>2, <2>3
  <2> QED
    BY <2>3, <2>4, Zenon DEF C
<1>5. PICK i, j \in S : i # j /\ rank[i] = rank[j]
  <2> HIDE DEF rank, others
  <2> QED
    BY <1>2, <1>3, <1>4, FS_PigeonHole
<1>6. i \in Nat /\ j \in Nat /\ (i < j \/ j < i)
  BY <1>5
<1>7. /\ \A k \in S : Cardinality(UpToPlace(S, k)) \in 1 .. Cardinality(S)
      /\ \A k, l \in S : k < l => Cardinality(UpToPlace(S, k)) < Cardinality(UpToPlace(S, l))
  BY RankBounds, Zenon
<1> DEFINE a == Cardinality(UpToPlace(S, i))
           b == Cardinality(UpToPlace(S, j))
<1>a. a \in Nat /\ b \in Nat /\ (a < b \/ b < a)
  BY <1>6, <1>7, <1>2
<1>8. a # b
  <2> HIDE DEF a, b
  <2> QED
    BY <1>a
<1> QED
  BY <1>5, <1>8

LEMMA PlaceOfRank ==
  ASSUME NEW N \in Nat, NEW S \in SUBSET (1 .. N)
  PROVE  /\ \A n \in 1 .. Cardinality(S) :
              Place(S, n) \in S /\ Cardinality(UpToPlace(S, Place(S, n))) = n
         /\ \A i \in S : Place(S, Cardinality(UpToPlace(S, i))) = i
<1>1. ASSUME NEW n \in 1 .. Cardinality(S)
      PROVE  Place(S, n) \in S /\ Cardinality(UpToPlace(S, Place(S, n))) = n
  BY RankOnto DEF Place
<1>2. ASSUME NEW i \in S PROVE Place(S, Cardinality(UpToPlace(S, i))) = i
  <2> DEFINE n == Cardinality(UpToPlace(S, i))
             j == Place(S, n)
  <2>0. /\ Cardinality(S) \in Nat
        /\ \A k \in S : Cardinality(UpToPlace(S, k)) \in 1 .. Cardinality(S)
        /\ \A k, l \in S : k < l => Cardinality(UpToPlace(S, k)) < Cardinality(UpToPlace(S, l))
    BY RankBounds, Zenon
  <2>1. n \in 1 .. Cardinality(S) /\ n \in Nat
    BY <2>0
  <2>2. j \in S /\ Cardinality(UpToPlace(S, j)) = n
    BY <1>1, <2>1
  <2> HIDE DEF j
  <2>a. i \in Nat /\ j \in Nat
    BY <2>2
  <2>b. (i < j => Cardinality(UpToPlace(S, i)) < Cardinality(UpToPlace(S, j)))
        /\ (j < i => Cardinality(UpToPlace(S, j)) < Cardinality(UpToPlace(S, i)))
    BY <2>0, <2>2
  <2> HIDE DEF n
  <2>c. (i < j => n < n) /\ (j < i => n < n)
    BY <2>2, <2>b DEF n
  <2>3. i \in Nat /\ j \in Nat /\ ~(i < j) /\ ~(j < i)
    BY <2>1, <2>a, <2>c
  <2>4. j = i
    BY <2>3
  <2> QED
    BY <2>4 DEF j, n
<1> QED
  BY <1>1, <1>2

(* What a loop keeps is what stood at the places, each once and in order.       *)
LEMMA KeptFacts ==
  ASSUME NEW s, IsSeq(s), NEW S \in SUBSET DOMAIN s
  PROVE  /\ Cardinality(S) \in Nat /\ DOMAIN s = 1 .. Len(s) /\ Len(s) \in Nat
         /\ DOMAIN Kept(s, S) = 1 .. Cardinality(S)
         /\ Kept(s, S) \in Seq(ToSet(s)) /\ Len(Kept(s, S)) = Cardinality(S)
         /\ \A n \in 1 .. Cardinality(S) : Place(S, n) \in S /\ Kept(s, S)[n] = s[Place(S, n)]
         /\ \A i \in S : /\ Cardinality(UpToPlace(S, i)) \in 1 .. Cardinality(S)
                          /\ Kept(s, S)[Cardinality(UpToPlace(S, i))] = s[i]
<1>1. Len(s) \in Nat /\ DOMAIN s = 1 .. Len(s)
  BY DEF IsSeq
<1>2. S \in SUBSET (1 .. Len(s))
  BY <1>1
<1>3. Cardinality(S) \in Nat
  BY <1>1, <1>2, RankBounds
<1>4. \A n \in 1 .. Cardinality(S) : Place(S, n) \in S
  BY <1>1, <1>2, PlaceOfRank
<1>5. \A n \in 1 .. Cardinality(S) : s[Place(S, n)] \in ToSet(s)
  BY <1>4 DEF ToSet
<1>6. Kept(s, S) \in [1 .. Cardinality(S) -> ToSet(s)]
  BY <1>5 DEF Kept
<1>7. Kept(s, S) \in Seq(ToSet(s)) /\ Len(Kept(s, S)) = Cardinality(S)
  BY <1>3, <1>6
<1>8. ASSUME NEW i \in S
      PROVE  /\ Cardinality(UpToPlace(S, i)) \in 1 .. Cardinality(S)
             /\ Kept(s, S)[Cardinality(UpToPlace(S, i))] = s[i]
  BY <1>1, <1>2, RankBounds, PlaceOfRank DEF Kept
<1> QED
  BY <1>1, <1>3, <1>4, <1>6, <1>7, <1>8 DEF Kept

-----------------------------------------------------------------------------
(* Between two questions nothing is answered; else the answer is one the code   *)
(* gives to the input at hand.                                                 *)
QueryInv ==
  \/ query = Nothing
  \/ query \in DOMAIN Inputs /\ input \in Inputs[query] /\ answer \in Answers(query, input)

THEOREM QueryAnswered == QueriesSpec => []QueryInv
<1>1. QueriesInit => QueryInv
  BY DEF QueriesInit, QueryInv
<1>2. QueryInv /\ [Ask \/ Done]_queryVars => QueryInv'
  <2> SUFFICES ASSUME QueryInv, [Ask \/ Done]_queryVars PROVE QueryInv'
    OBVIOUS
  <2>1. CASE Ask
    <3>1. PICK q \in DOMAIN Inputs : \E in \in Inputs[q] :
            query' = q /\ input' = in /\ answer' \in Answers(q, in)
      BY <2>1 DEF Ask
    <3>2. query' \in DOMAIN Inputs /\ input' \in Inputs[query'] /\ answer' \in Answers(query', input')
      BY <3>1, Zenon
    <3> QED
      BY <3>2, Zenon DEF QueryInv
  <2>2. CASE Done
    BY <2>2 DEF Done, QueryInv
  <2>3. CASE UNCHANGED queryVars
    BY <2>3, Zenon DEF QueryInv, queryVars
  <2> QED
    BY <2>1, <2>2, <2>3
<1> QED
  BY <1>1, <1>2, PTL DEF QueriesSpec

(* What is asked keeps to what the programs keep to.                            *)
LEMMA AskedWell ==
  ASSUME QueryInv, query \in Queries
  PROVE  WellFormed(query, input) /\ answer \in Answers(query, input)
<1>1. query # Nothing
  BY InputsAssumption
<1> QED
  BY <1>1, InputsAssumption, Zenon DEF QueryInv

-----------------------------------------------------------------------------
(* The words of the uptime add up to its minutes (server_packages.go:           *)
(* GetSystemUpdateStatus), for every uptime.                                   *)
AddsUp(u, s) ==
  LET n == Len(u) IN
  /\ u[n] + (IF n > 1 THEN u[n - 1] * 60 ELSE 0) + (IF n > 2 THEN u[1] * 1440 ELSE 0) = s \div 60
  /\ u[n] < 60 /\ (n = 3 => u[2] < 24) /\ (n > 1 => u[1] > 0)

LEMMA UptimeWords == ASSUME NEW s \in Nat PROVE AddsUp(Uptime(s), s)
<1> DEFINE days == s \div 86400
           hours == (s % 86400) \div 3600
           mins == (s % 3600) \div 60
<1>1. /\ days \in Nat /\ hours \in Nat /\ mins \in Nat
      /\ hours < 24 /\ mins < 60 /\ days * 1440 + hours * 60 + mins = s \div 60
  OBVIOUS
<1>2. Uptime(s) = IF days > 0 THEN <<days, hours, mins>> ELSE IF hours > 0 THEN <<hours, mins>> ELSE <<mins>>
  BY DEF Uptime
<1> HIDE DEF days, hours, mins
<1>3. CASE days > 0
  <2>1. Uptime(s) = <<days, hours, mins>>
    BY <1>2, <1>3
  <2> DEFINE u == Uptime(s)
  <2>2. Len(u) = 3 /\ u[1] = days /\ u[2] = hours /\ u[3] = mins
    BY <2>1
  <2> HIDE DEF u
  <2>3. AddsUp(u, s)
    BY <1>1, <1>3, <2>2 DEF AddsUp
  <2> QED
    BY <2>3 DEF u
<1>4. CASE ~(days > 0) /\ hours > 0
  <2>1. Uptime(s) = <<hours, mins>> /\ days = 0
    BY <1>1, <1>2, <1>4
  <2> QED
    BY <1>1, <1>4, <2>1 DEF AddsUp
<1>5. CASE ~(days > 0) /\ ~(hours > 0)
  <2>1. Uptime(s) = <<mins>> /\ days = 0 /\ hours = 0
    BY <1>1, <1>2, <1>5
  <2> QED
    BY <1>1, <2>1 DEF AddsUp
<1> QED
  BY <1>3, <1>4, <1>5

(* UptimeTold, for whatever the system may say.                                 *)
THEOREM UptimeIsTold == QueriesSpec => []UptimeTold
<1>1. QueryInv => UptimeTold
  <2> SUFFICES ASSUME QueryInv, query = "UpdateStatus" PROVE AddsUp(answer.uptime, input.uptime)
    BY DEF UptimeTold, AddsUp
  <2>1. input.uptime \in Nat /\ answer = UpdateStatus(input)
    BY AskedWell DEF Queries, WellFormed, Answers
  <2>2. answer.uptime = Uptime(input.uptime)
    BY <2>1 DEF UpdateStatus
  <2> QED
    BY <2>1, <2>2, UptimeWords
<1> QED
  BY <1>1, QueryAnswered, PTL

-----------------------------------------------------------------------------
(* UnmarkedTold: what is kept of systemctl's lines is every unit, once, and what *)
(* is told under the name of an unmarked one was made of its line.             *)
THEOREM UnmarkedAreTold == QueriesSpec => []UnmarkedTold
<1>1. QueryInv => UnmarkedTold
  <2> SUFFICES ASSUME QueryInv, query = "ListServices", NEW i \in DOMAIN input.units,
                      input.units[i] # Nothing, ~input.units[i].marked
               PROVE  LET u == input.units[i]
                          told == {k \in DOMAIN answer : answer[k].name = u.name}
                      IN told # {} /\ \A k \in told :
                           /\ answer[k].status = u.active /\ answer[k].sub = u.sub
                           /\ answer[k].enabled <=> u.name \in input.enabled
    BY Zenon DEF UnmarkedTold, ToldRight
  <2> DEFINE S == {j \in DOMAIN input.units : input.units[j] # Nothing}
             units == Kept(input.units, S)
  <2>1. /\ IsSeq(input.units) /\ answer = ListServices(input)
        /\ \A j \in S : /\ input.units[j].name # "mark"
                        /\ \A k \in S : input.units[k].name = input.units[j].name => k = j
    BY AskedWell DEF Queries, WellFormed, Answers
  <2>2. /\ Cardinality(S) \in Nat /\ DOMAIN units = 1 .. Cardinality(S)
        /\ \A n \in DOMAIN units : Place(S, n) \in S /\ units[n] = input.units[Place(S, n)]
        /\ \A j \in S : \E n \in DOMAIN units : units[n] = input.units[j]
    <3> HIDE DEF S
    <3>1. S \in SUBSET DOMAIN input.units
      BY DEF S
    <3>2. /\ Cardinality(S) \in Nat /\ DOMAIN units = 1 .. Cardinality(S)
          /\ \A n \in 1 .. Cardinality(S) : Place(S, n) \in S /\ units[n] = input.units[Place(S, n)]
          /\ \A j \in S : /\ Cardinality(UpToPlace(S, j)) \in 1 .. Cardinality(S)
                          /\ units[Cardinality(UpToPlace(S, j))] = input.units[j]
      BY <2>1, <3>1, KeptFacts
    <3> HIDE DEF units
    <3> QED
      BY <3>2, Zenon
  <2>3. /\ DOMAIN answer = DOMAIN units
        /\ \A n \in DOMAIN units :
             LET f == Fields(units[n]) IN
             answer[n] = [name |-> f[1], status |-> f[3], sub |-> f[4], enabled |-> f[1] \in input.enabled]
    BY <2>1 DEF ListServices
  <2> HIDE DEF units
  <2>4. ASSUME NEW u
        PROVE  /\ Fields(u)[1] = IF u.marked THEN "mark" ELSE u.name
               /\ ~u.marked => Fields(u)[3] = u.active /\ Fields(u)[4] = u.sub
    BY DEF Fields
  <2>5. ASSUME NEW n \in DOMAIN answer
        PROVE  /\ answer[n].name = IF units[n].marked THEN "mark" ELSE units[n].name
               /\ ~units[n].marked =>
                    /\ answer[n].status = units[n].active /\ answer[n].sub = units[n].sub
                    /\ answer[n].enabled <=> units[n].name \in input.enabled
    <3> DEFINE f == Fields(units[n])
    <3>1. answer[n] = [name |-> f[1], status |-> f[3], sub |-> f[4], enabled |-> f[1] \in input.enabled]
      BY <2>3
    <3> DEFINE isEnabled == f[1] \in input.enabled
    <3> HIDE DEF isEnabled
    <3>a. answer[n] = [name |-> f[1], status |-> f[3], sub |-> f[4], enabled |-> isEnabled]
      BY <3>1 DEF isEnabled
    <3>b. /\ answer[n].name = f[1] /\ answer[n].status = f[3] /\ answer[n].sub = f[4]
          /\ answer[n].enabled = isEnabled
      BY <3>a
    <3>2. /\ answer[n].name = f[1] /\ answer[n].status = f[3] /\ answer[n].sub = f[4]
          /\ answer[n].enabled = (f[1] \in input.enabled)
      BY <3>b, Zenon DEF isEnabled
    <3> HIDE DEF f
    <3>3. /\ f[1] = IF units[n].marked THEN "mark" ELSE units[n].name
          /\ ~units[n].marked => f[3] = units[n].active /\ f[4] = units[n].sub /\ f[1] = units[n].name
      BY <2>4 DEF f
    <3> QED
      BY <3>2, <3>3
  <2>6. i \in S
    OBVIOUS
  <2>7. ASSUME NEW n \in DOMAIN answer, answer[n].name = input.units[i].name
        PROVE  ~units[n].marked /\ units[n] = input.units[i]
    <3>1. PICK j \in S : units[n] = input.units[j]
      BY <2>2, <2>3
    <3>2. ~units[n].marked /\ input.units[j].name = input.units[i].name
      BY <2>1, <2>5, <2>6, <2>7, <3>1
    <3> QED
      BY <2>1, <2>6, <3>1, <3>2
  <2>8. PICK n \in DOMAIN answer : units[n] = input.units[i]
    BY <2>2, <2>3, <2>6
  <2> QED
    BY <2>5, <2>7, <2>8
<1> QED
  BY <1>1, QueryAnswered, PTL

-----------------------------------------------------------------------------
(* InstalledAgree: in either loop a package that dpkg lists once is decided by   *)
(* that one line, which is the line the details are made of.                    *)

Told(p, term) == p # Nothing /\ InstallOk(p) /\ (term = Nothing \/ p.matches)

ListedFrom(list, dpkg, term) ==
  /\ \A k \in DOMAIN list :
       /\ list[k].installed = TRUE
       /\ \E j \in DOMAIN dpkg : Told(dpkg[j], term) /\ list[k].name = dpkg[j].name
  /\ \A j \in DOMAIN dpkg : Told(dpkg[j], term) => \E k \in DOMAIN list : list[k].name = dpkg[j].name

(* A package of the answer comes from a line of that name.                      *)
LEMMA InstalledFrom ==
  ASSUME NEW dpkg, IsSeq(dpkg), NEW term, NEW list, list = InstalledPackages(dpkg, term)
  PROVE  ListedFrom(list, dpkg, term)
<1> DEFINE told(p) == p # Nothing /\ InstallOk(p) /\ (term = Nothing \/ p.matches)
           S == {i \in DOMAIN dpkg : told(dpkg[i])}
           kept == Kept(dpkg, S)
<1>1. list = [i \in DOMAIN kept |-> [name |-> kept[i].name, installed |-> TRUE]]
  BY DEF InstalledPackages
<1>2. /\ DOMAIN kept = 1 .. Cardinality(S)
      /\ \A n \in 1 .. Cardinality(S) : Place(S, n) \in S /\ kept[n] = dpkg[Place(S, n)]
      /\ \A j \in S : /\ Cardinality(UpToPlace(S, j)) \in 1 .. Cardinality(S)
                      /\ kept[Cardinality(UpToPlace(S, j))] = dpkg[j]
  <2>1. S \in SUBSET DOMAIN dpkg
    OBVIOUS
  <2> HIDE DEF S
  <2> QED
    BY <2>1, KeptFacts
<1> HIDE DEF kept
<1>3. \A k \in DOMAIN list : list[k].installed = TRUE /\ list[k].name = kept[k].name
  BY <1>1
<1>4. ASSUME NEW k \in DOMAIN list
      PROVE  \E j \in DOMAIN dpkg : told(dpkg[j]) /\ list[k].name = dpkg[j].name
  <2>1. Place(S, k) \in S /\ kept[k] = dpkg[Place(S, k)]
    BY <1>1, <1>2
  <2> QED
    BY <2>1, <1>3, Zenon
<1>5. ASSUME NEW j \in DOMAIN dpkg, told(dpkg[j])
      PROVE  \E k \in DOMAIN list : list[k].name = dpkg[j].name
  <2>1. j \in S
    BY <1>5
  <2> DEFINE k == Cardinality(UpToPlace(S, j))
  <2>2. k \in DOMAIN list /\ kept[k] = dpkg[j]
    BY <1>1, <1>2, <2>1
  <2> HIDE DEF k
  <2> QED
    BY <2>2, <1>3
<1>6. /\ \A k \in DOMAIN list :
           /\ list[k].installed = TRUE
           /\ \E j \in DOMAIN dpkg : told(dpkg[j]) /\ list[k].name = dpkg[j].name
      /\ \A j \in DOMAIN dpkg : told(dpkg[j]) => \E k \in DOMAIN list : list[k].name = dpkg[j].name
  BY <1>3, <1>4, <1>5
<1> QED
  BY <1>6, Zenon DEF Told, ListedFrom

(* What the search tells of a name is whether some line has it installed.       *)
LEMMA SearchedKnown ==
  ASSUME NEW found, NEW dpkg, NEW list, list = SearchedPackages(found, dpkg)
  PROVE  \A k \in DOMAIN list :
           list[k].installed <=>
             \E j \in DOMAIN dpkg : dpkg[j] # Nothing /\ dpkg[j].name = list[k].name /\ InstallOk(dpkg[j])
<1> DEFINE known(n) == \E j \in DOMAIN dpkg : dpkg[j] # Nothing /\ dpkg[j].name = n /\ InstallOk(dpkg[j])
           lines == Kept(found, {i \in DOMAIN found : found[i] # Nothing})
           size == IF Len(lines) < MaxResults THEN Len(lines) ELSE MaxResults
<1>1. list = [i \in 1 .. size |-> [name |-> lines[i], installed |-> known(lines[i])]]
  BY DEF SearchedPackages
<1> HIDE DEF lines, size
<1>2. ASSUME NEW k \in DOMAIN list PROVE list[k].installed <=> known(list[k].name)
  <2> DEFINE is == known(lines[k])
  <2>1. list[k] = [name |-> lines[k], installed |-> is]
    BY <1>1
  <2> HIDE DEF is
  <2>2. list[k].name = lines[k] /\ list[k].installed = is
    BY <2>1
  <2> QED
    BY <2>2, Zenon DEF is
<1> QED
  BY <1>2, Zenon

THEOREM PackagesAgree == QueriesSpec => []InstalledAgree
<1>1. QueryInv => InstalledAgree
  <2> SUFFICES ASSUME QueryInv, query = "ListPackages", NEW i \in DOMAIN input.dpkg,
                      input.dpkg[i] # Nothing,
                      \A j \in DOMAIN input.dpkg :
                        input.dpkg[j] # Nothing /\ input.dpkg[j].name = input.dpkg[i].name => j = i
               PROVE  LET p == input.dpkg[i]
                          listed == {k \in DOMAIN answer : answer[k].name = p.name}
                          whole == input.installedOnly \/ input.term = Nothing
                          plain == p.want \in {"install", "deinstall"} /\ p.flag = "ok"
                      IN /\ \A k \in listed : answer[k].installed => DetailsInstalled(p)
                         /\ plain /\ DetailsInstalled(p) =>
                              /\ \A k \in listed : answer[k].installed
                              /\ whole /\ (input.term = Nothing \/ p.matches) => listed # {}
    BY Zenon DEF InstalledAgree
  <2> DEFINE p == input.dpkg[i]
             whole == input.installedOnly \/ input.term = Nothing
             plain == p.want \in {"install", "deinstall"} /\ p.flag = "ok"
  <2>1. IsSeq(input.dpkg) /\ IsSeq(input.found) /\ answer = ListPackages(input)
    BY AskedWell DEF Queries, WellFormed, Answers
  <2>2. InstallOk(p) <=> plain /\ DetailsInstalled(p)
    BY DEF DetailsInstalled, InstallOk
  <2>3. CASE whole
    <3>1. answer = InstalledPackages(input.dpkg, input.term)
      BY <2>1, <2>3 DEF ListPackages
    <3>2. ListedFrom(answer, input.dpkg, input.term)
      BY <2>1, <3>1, InstalledFrom
    <3>3. ASSUME NEW k \in DOMAIN answer, answer[k].name = p.name
          PROVE  answer[k].installed /\ InstallOk(p)
      <4>1. PICK j \in DOMAIN input.dpkg : Told(input.dpkg[j], input.term) /\ answer[k].name = input.dpkg[j].name
        BY <3>2, Zenon DEF ListedFrom
      <4>2. j = i
        BY <3>3, <4>1, Zenon DEF Told
      <4> QED
        BY <3>2, <4>1, <4>2, Zenon DEF Told, ListedFrom
    <3>4. InstallOk(p) /\ (input.term = Nothing \/ p.matches)
            => \E k \in DOMAIN answer : answer[k].name = p.name
      BY <3>2, Zenon DEF Told, ListedFrom
    <3> QED
      BY <2>2, <3>3, <3>4, Zenon
  <2>4. CASE ~whole
    <3>1. answer = SearchedPackages(input.found, input.dpkg)
      BY <2>1, <2>4 DEF ListPackages
    <3>2. \A k \in DOMAIN answer :
            answer[k].installed <=> \E j \in DOMAIN input.dpkg :
              input.dpkg[j] # Nothing /\ input.dpkg[j].name = answer[k].name /\ InstallOk(input.dpkg[j])
      BY <3>1, SearchedKnown
    <3> QED
      BY <2>2, <2>4, <3>2, Zenon
  <2> QED
    BY <2>3, <2>4
<1> QED
  BY <1>1, QueryAnswered, PTL

-----------------------------------------------------------------------------
(* HopsTold. The words of a line are taken one after another, and the function  *)
(* that says what is known after each exists, by induction over the words.      *)
IsWordsTo(f, words, n) ==
  f = [m \in 0 .. n |-> IF m = 0 THEN NoWords ELSE TraceWord(f[m - 1], words[m])]

LEMMA WordsExist ==
  ASSUME NEW words, NEW N \in Nat
  PROVE  \A n \in 0 .. N : \E f : IsWordsTo(f, words, n)
<1> DEFINE S == {n \in 0 .. N : \E f : IsWordsTo(f, words, n)}
<1>1. 0 \in S
  <2> DEFINE f == [m \in 0 .. 0 |-> NoWords]
  <2>1. f = [m \in 0 .. 0 |-> IF m = 0 THEN NoWords ELSE TraceWord(f[m - 1], words[m])]
    OBVIOUS
  <2>2. IsWordsTo(f, words, 0)
    BY <2>1, Zenon DEF IsWordsTo
  <2> QED
    BY <2>2
<1>2. ASSUME NEW n \in 0 .. N, n < N, n \in S PROVE n + 1 \in S
  <2>1. PICK f : IsWordsTo(f, words, n)
    BY <1>2
  <2> DEFINE g == [m \in 0 .. n + 1 |-> IF m = n + 1 THEN TraceWord(f[n], words[n + 1]) ELSE f[m]]
  <2>2. f = [m \in 0 .. n |-> IF m = 0 THEN NoWords ELSE TraceWord(f[m - 1], words[m])]
    BY <2>1 DEF IsWordsTo
  <2>3. ASSUME NEW m \in 0 .. n + 1
        PROVE  g[m] = IF m = 0 THEN NoWords ELSE TraceWord(g[m - 1], words[m])
    <3>1. CASE m = n + 1
      <4>1. g[m - 1] = f[n] /\ g[m] = TraceWord(f[n], words[n + 1])
        BY <3>1
      <4> QED
        BY <3>1, <4>1
    <3>2. CASE m # n + 1
      <4>1. g[m] = f[m] /\ m \in 0 .. n
        BY <3>2
      <4>2. m # 0 => g[m - 1] = f[m - 1]
        BY <3>2
      <4>3. f[m] = IF m = 0 THEN NoWords ELSE TraceWord(f[m - 1], words[m])
        BY <2>2, <4>1
      <4> QED
        BY <4>1, <4>2, <4>3
    <3> QED
      BY <3>1, <3>2
  <2>4. g = [m \in 0 .. n + 1 |-> g[m]]
    OBVIOUS
  <2> HIDE DEF g
  <2>5. g = [m \in 0 .. n + 1 |-> IF m = 0 THEN NoWords ELSE TraceWord(g[m - 1], words[m])]
    BY <2>3, <2>4, Zenon
  <2>6. IsWordsTo(g, words, n + 1) /\ n + 1 \in 0 .. N
    BY <1>2, <2>5 DEF IsWordsTo
  <2> QED
    BY <2>6
<1> HIDE DEF S
<1>3. \A n \in 0 .. N : n \in S
  BY <1>1, <1>2, UpToInduction
<1> QED
  BY <1>3 DEF S

LEMMA WordsRecursion ==
  ASSUME NEW words, Len(words) \in Nat
  PROVE  /\ WordsAfter(words)[0] = NoWords
         /\ \A n \in 1 .. Len(words) : WordsAfter(words)[n] = TraceWord(WordsAfter(words)[n - 1], words[n])
<1> DEFINE N == Len(words)
<1>1. \E f : IsWordsTo(f, words, N)
  <2> HIDE DEF N
  <2>1. N \in Nat /\ N \in 0 .. N
    BY DEF N
  <2> QED
    BY <2>1, WordsExist
<1>2. WordsAfter(words) =
        CHOOSE f : f = [m \in 0 .. N |-> IF m = 0 THEN NoWords ELSE TraceWord(f[m - 1], words[m])]
  BY DEF WordsAfter
<1>3. IsWordsTo(WordsAfter(words), words, N)
  BY <1>1, <1>2, Zenon DEF IsWordsTo
<1>4. N \in Nat
  OBVIOUS
<1> DEFINE w == WordsAfter(words)
<1> HIDE DEF N, w
<1>5. w = [m \in 0 .. N |-> IF m = 0 THEN NoWords ELSE TraceWord(w[m - 1], words[m])]
  BY <1>3, Zenon DEF IsWordsTo, w
<1>6. w[0] = NoWords
  BY <1>4, <1>5
<1>7. ASSUME NEW n \in 1 .. N PROVE w[n] = TraceWord(w[n - 1], words[n])
  <2>1. n \in 0 .. N /\ n # 0
    BY <1>4
  <2> QED
    BY <1>5, <2>1
<1> QED
  BY <1>6, <1>7 DEF w, N

(* Once an address in brackets has been seen, the address is such a one.        *)
LEMMA BracketedKept ==
  ASSUME NEW words, Len(words) \in Nat, DOMAIN words = 1 .. Len(words),
         \A k \in DOMAIN words : words[k].text # Nothing,
         NEW v \in DOMAIN words, words[v].kind = "bracketed"
  PROVE  \E k \in DOMAIN words : words[k].kind = "bracketed" /\ WordsAfter(words)[Len(words)].ip = words[k].text
<1> DEFINE N == Len(words)
           w == WordsAfter(words)
           seen(n) == \E k \in 1 .. n : words[k].kind = "bracketed"
           told(n) == \E k \in 1 .. n : words[k].kind = "bracketed" /\ w[n].ip = words[k].text
           S == {n \in 0 .. N : DOMAIN w[n] = DOMAIN NoWords /\ (seen(n) => told(n))}
<1>1. w[0] = NoWords /\ \A n \in 1 .. N : w[n] = TraceWord(w[n - 1], words[n])
  BY WordsRecursion
<1> HIDE DEF w
<1>2. 0 \in S
  BY <1>1
<1>3. ASSUME NEW n \in 0 .. N, n < N, n \in S PROVE n + 1 \in S
  <2> DEFINE h == w[n]
             x == words[n + 1]
             g == w[n + 1]
  <2>1. g = TraceWord(h, x) /\ n + 1 \in 1 .. N /\ (n + 1) - 1 = n
    <3>1. n + 1 \in 1 .. N /\ (n + 1) - 1 = n
      BY <1>3
    <3> QED
      BY <1>1, <3>1
  <2>2. DOMAIN h = DOMAIN NoWords
    BY <1>3
  <2>3. "ip" \in DOMAIN NoWords
    BY DEF NoWords
  <2> HIDE DEF h, x, g
  <2>4. DOMAIN g = DOMAIN NoWords
    BY <2>1, <2>2 DEF TraceWord
  <2>5. x.kind = "bracketed" => g.ip = x.text
    BY <2>1, <2>2, <2>3 DEF TraceWord
  <2>6. x.kind # "bracketed" /\ (x.kind = "address" => h.ip # Nothing) => g.ip = h.ip
    BY <2>1, <2>2, <2>3 DEF TraceWord
  <2>7. ASSUME seen(n + 1) PROVE told(n + 1)
    <3>1. CASE x.kind = "bracketed"
      BY <2>1, <2>5, <3>1 DEF g, x
    <3>2. CASE x.kind # "bracketed"
      <4>1. PICK k \in 1 .. n : words[k].kind = "bracketed" /\ h.ip = words[k].text
        <5>1. seen(n)
          BY <2>7, <1>3, <3>2 DEF x
        <5> QED
          BY <5>1, <1>3 DEF h
      <4>2. k \in 1 .. n + 1 /\ k \in DOMAIN words
        BY <1>3
      <4>3. h.ip # Nothing
        BY <4>1, <4>2
      <4> QED
        BY <2>6, <3>2, <4>1, <4>2, <4>3 DEF g
    <3> QED
      BY <3>1, <3>2
  <2> QED
    BY <1>3, <2>4, <2>7 DEF g
<1> HIDE DEF S
<1>4. N \in Nat /\ N \in 0 .. N
  OBVIOUS
<1> HIDE DEF N
<1>5. N \in S
  BY <1>2, <1>3, <1>4, UpToInduction
<1>6. told(N)
  BY <1>5 DEF S, N
<1> QED
  BY <1>6 DEF N, w

(* What one line of a route becomes.                                            *)
Texts(l, k) == {l.words[w].text : w \in {v \in DOMAIN l.words : l.words[v].kind = k}}

IsHopOf(h, l) ==
  /\ h.hop = l.hop /\ (h.timeout <=> Texts(l, "star") # {})
  /\ h.timeout => h.ip = Nothing
  /\ ~h.timeout /\ Texts(l, "bracketed") # {} => h.ip \in Texts(l, "bracketed")
  /\ ~h.timeout => h.ip # Nothing

LEMMA HopOfLine ==
  ASSUME NEW l, IsSeq(l.words), l.words # << >>, \A w \in DOMAIN l.words : l.words[w].text # Nothing
  PROVE  IsHopOf(TraceHop(l), l)
<1> DEFINE known == WordsAfter(l.words)[Len(l.words)]
           first == l.words[1].text
           lost == \E i \in DOMAIN l.words : l.words[i].kind = "star"
<1>1. Len(l.words) \in Nat /\ DOMAIN l.words = 1 .. Len(l.words) /\ first # Nothing
  BY DEF IsSeq
<1>2. lost <=> Texts(l, "star") # {}
  BY Zenon DEF Texts
<1>3. CASE lost
  <2>1. TraceHop(l) = [hop |-> l.hop, timeout |-> TRUE, ip |-> Nothing, host |-> Nothing, latency |-> 0]
    BY <1>3 DEF TraceHop
  <2> QED
    BY <1>2, <1>3, <2>1 DEF IsHopOf
<1>4. CASE ~lost
  <2>1. /\ TraceHop(l).hop = l.hop /\ TraceHop(l).timeout = FALSE
        /\ TraceHop(l).ip = FirstOf(known.ip, first)
    <3> HIDE DEF known, first
    <3>1. TraceHop(l) = [hop |-> l.hop, timeout |-> FALSE, ip |-> FirstOf(known.ip, first),
                         host |-> IF known.named \/ known.ip = Nothing THEN first ELSE Nothing,
                         latency |-> known.latency]
      BY <1>4, Zenon DEF TraceHop, known, first
    <3> QED
      BY <3>1
  <2>2. FirstOf(known.ip, first) # Nothing
    BY <1>1 DEF FirstOf
  <2>3. Texts(l, "bracketed") # {} => FirstOf(known.ip, first) \in Texts(l, "bracketed")
    <3> SUFFICES ASSUME Texts(l, "bracketed") # {} PROVE FirstOf(known.ip, first) \in Texts(l, "bracketed")
      OBVIOUS
    <3>1. PICK v \in DOMAIN l.words : l.words[v].kind = "bracketed"
      BY Zenon DEF Texts
    <3>2. PICK k \in DOMAIN l.words : l.words[k].kind = "bracketed" /\ known.ip = l.words[k].text
      BY <1>1, <3>1, BracketedKept
    <3> HIDE DEF known, first
    <3>3. FirstOf(known.ip, first) = l.words[k].text
      BY <3>2 DEF FirstOf
    <3> QED
      BY <3>2, <3>3, Zenon DEF Texts
  <2> HIDE DEF known, first
  <2> QED
    BY <1>2, <1>4, <2>1, <2>2, <2>3, Zenon DEF IsHopOf
<1> QED
  BY <1>3, <1>4

(* Every line that has a number and words becomes a hop, at the place that says  *)
(* how many such lines there were up to it (server_network.go: Traceroute).     *)
THEOREM HopsAreTold == QueriesSpec => []HopsTold
<1>1. QueryInv => HopsTold
  <2> SUFFICES ASSUME QueryInv, query = "Traceroute" PROVE HopsTold
    BY DEF HopsTold
  <2> DEFINE lines == {i \in DOMAIN input : input[i].hop > 0 /\ input[i].words # << >>}
             kept == Kept(input, lines)
             place(i) == Cardinality(UpToPlace(lines, i))
  <2>1. /\ IsSeq(input) /\ answer = Traceroute(input)
        /\ \A i \in DOMAIN input :
             input[i].hop \in Nat /\ IsSeq(input[i].words)
             /\ \A w \in DOMAIN input[i].words : input[i].words[w].text # Nothing
    BY AskedWell DEF Queries, WellFormed, Answers
  <2>2. /\ Len(kept) = Cardinality(lines) /\ Cardinality(lines) \in Nat
        /\ DOMAIN kept = 1 .. Cardinality(lines)
        /\ \A i \in lines : place(i) \in 1 .. Cardinality(lines) /\ kept[place(i)] = input[i]
    <3>1. lines \in SUBSET DOMAIN input
      OBVIOUS
    <3> HIDE DEF lines
    <3> QED
      BY <2>1, <3>1, KeptFacts
  <2>3. answer = [n \in DOMAIN kept |-> TraceHop(kept[n])]
    BY <2>1 DEF Traceroute
  <2> HIDE DEF kept
  <2>4. Len(answer) = Cardinality(lines)
    BY <2>2, <2>3
  <2>5. ASSUME NEW i \in lines
        PROVE  answer[Cardinality({j \in lines : j <= i})] = TraceHop(input[i])
    <3>1. place(i) \in DOMAIN kept /\ kept[place(i)] = input[i]
      BY <2>2
    <3> HIDE DEF lines
    <3>2. answer[place(i)] = TraceHop(input[i])
      BY <2>3, <3>1, Zenon
    <3> QED
      BY <3>2, Zenon DEF UpToPlace
  <2>6. ASSUME NEW i \in lines PROVE IsHopOf(TraceHop(input[i]), input[i])
    BY <2>1, HopOfLine
  <2>7. \A i \in lines : IsHopOf(answer[Cardinality({j \in lines : j <= i})], input[i])
    <3> HIDE DEF lines
    <3> QED
      BY <2>5, <2>6
  <2> QED
    BY <2>4, <2>7, Zenon DEF HopsTold, IsHopOf, Texts
<1> QED
  BY <1>1, QueryAnswered, PTL

-----------------------------------------------------------------------------
(* DescriptionWhole. The lines of a package are taken one after another.        *)
IsDetailsTo(f, lines, n) ==
  f = [m \in 0 .. n |-> IF m = 0 THEN NoDetails ELSE DetailsLine(f[m - 1], lines[m])]

LEMMA DetailsExist ==
  ASSUME NEW lines, NEW N \in Nat
  PROVE  \A n \in 0 .. N : \E f : IsDetailsTo(f, lines, n)
<1> DEFINE S == {n \in 0 .. N : \E f : IsDetailsTo(f, lines, n)}
<1>1. 0 \in S
  <2> DEFINE f == [m \in 0 .. 0 |-> NoDetails]
  <2>1. f = [m \in 0 .. 0 |-> IF m = 0 THEN NoDetails ELSE DetailsLine(f[m - 1], lines[m])]
    OBVIOUS
  <2>2. IsDetailsTo(f, lines, 0)
    BY <2>1, Zenon DEF IsDetailsTo
  <2> QED
    BY <2>2
<1>2. ASSUME NEW n \in 0 .. N, n < N, n \in S PROVE n + 1 \in S
  <2>1. PICK f : IsDetailsTo(f, lines, n)
    BY <1>2
  <2> DEFINE g == [m \in 0 .. n + 1 |-> IF m = n + 1 THEN DetailsLine(f[n], lines[n + 1]) ELSE f[m]]
  <2>2. f = [m \in 0 .. n |-> IF m = 0 THEN NoDetails ELSE DetailsLine(f[m - 1], lines[m])]
    BY <2>1 DEF IsDetailsTo
  <2>3. ASSUME NEW m \in 0 .. n + 1
        PROVE  g[m] = IF m = 0 THEN NoDetails ELSE DetailsLine(g[m - 1], lines[m])
    <3>1. CASE m = n + 1
      <4>1. g[m - 1] = f[n] /\ g[m] = DetailsLine(f[n], lines[n + 1])
        BY <3>1
      <4> QED
        BY <3>1, <4>1
    <3>2. CASE m # n + 1
      <4>1. g[m] = f[m] /\ m \in 0 .. n
        BY <3>2
      <4>2. m # 0 => g[m - 1] = f[m - 1]
        BY <3>2
      <4>3. f[m] = IF m = 0 THEN NoDetails ELSE DetailsLine(f[m - 1], lines[m])
        BY <2>2, <4>1
      <4> QED
        BY <4>1, <4>2, <4>3
    <3> QED
      BY <3>1, <3>2
  <2>4. g = [m \in 0 .. n + 1 |-> g[m]]
    OBVIOUS
  <2> HIDE DEF g
  <2>5. g = [m \in 0 .. n + 1 |-> IF m = 0 THEN NoDetails ELSE DetailsLine(g[m - 1], lines[m])]
    BY <2>3, <2>4, Zenon
  <2>6. IsDetailsTo(g, lines, n + 1) /\ n + 1 \in 0 .. N
    BY <1>2, <2>5 DEF IsDetailsTo
  <2> QED
    BY <2>6
<1> HIDE DEF S
<1>3. \A n \in 0 .. N : n \in S
  BY <1>1, <1>2, UpToInduction
<1> QED
  BY <1>3 DEF S

LEMMA DetailsRecursion ==
  ASSUME NEW lines, Len(lines) \in Nat
  PROVE  /\ DetailsAfter(lines)[0] = NoDetails
         /\ \A n \in 1 .. Len(lines) : DetailsAfter(lines)[n] = DetailsLine(DetailsAfter(lines)[n - 1], lines[n])
<1> DEFINE N == Len(lines)
<1>1. \E f : IsDetailsTo(f, lines, N)
  <2> HIDE DEF N
  <2>1. N \in Nat /\ N \in 0 .. N
    BY DEF N
  <2> QED
    BY <2>1, DetailsExist
<1>2. DetailsAfter(lines) =
        CHOOSE f : f = [m \in 0 .. N |-> IF m = 0 THEN NoDetails ELSE DetailsLine(f[m - 1], lines[m])]
  BY DEF DetailsAfter
<1>3. IsDetailsTo(DetailsAfter(lines), lines, N)
  BY <1>1, <1>2, Zenon DEF IsDetailsTo
<1>4. N \in Nat
  OBVIOUS
<1> DEFINE w == DetailsAfter(lines)
<1> HIDE DEF N, w
<1>5. w = [m \in 0 .. N |-> IF m = 0 THEN NoDetails ELSE DetailsLine(w[m - 1], lines[m])]
  BY <1>3, Zenon DEF IsDetailsTo, w
<1>6. w[0] = NoDetails
  BY <1>4, <1>5
<1>7. ASSUME NEW n \in 1 .. N PROVE w[n] = DetailsLine(w[n - 1], lines[n])
  <2>1. n \in 0 .. N /\ n # 0
    BY <1>4
  <2> QED
    BY <1>5, <2>1
<1> QED
  BY <1>6, <1>7 DEF w, N

(* Whether the n-th line is still in a description, and which lines continue one. *)
InDescription(lines, n) ==
  \E j \in 1 .. n : lines[j].kind = "description" /\ \A k \in j + 1 .. n : lines[k].kind # "other"

Continued(lines, n) == {i \in 1 .. n : lines[i].kind = "continued" /\ InDescription(lines, i - 1)}

IsLong(long, lines, n) ==
  /\ long \in Seq(1 .. n) /\ ToSet(long) = Continued(lines, n)
  /\ \A i, j \in DOMAIN long : i < j => long[i] < long[j]

LEMMA InDescriptionStep ==
  ASSUME NEW lines, NEW n \in Nat
  PROVE  InDescription(lines, n + 1) <=>
           \/ lines[n + 1].kind = "description"
           \/ lines[n + 1].kind # "other" /\ InDescription(lines, n)
<1> DEFINE x == lines[n + 1].kind
<1>1. ASSUME InDescription(lines, n + 1), x # "description" PROVE x # "other" /\ InDescription(lines, n)
  <2>1. PICK j \in 1 .. n + 1 : lines[j].kind = "description" /\ \A k \in j + 1 .. n + 1 : lines[k].kind # "other"
    BY <1>1 DEF InDescription
  <2>2. j \in 1 .. n /\ n + 1 \in j + 1 .. n + 1
    BY <1>1, <2>1
  <2>3. \A k \in j + 1 .. n : k \in j + 1 .. n + 1
    OBVIOUS
  <2> QED
    BY <2>1, <2>2, <2>3 DEF InDescription
<1>2. ASSUME x = "description" PROVE InDescription(lines, n + 1)
  <2>1. n + 1 \in 1 .. n + 1 /\ \A k \in (n + 1) + 1 .. n + 1 : lines[k].kind # "other"
    OBVIOUS
  <2> QED
    BY <1>2, <2>1, Zenon DEF InDescription
<1>3. ASSUME x # "other", InDescription(lines, n) PROVE InDescription(lines, n + 1)
  <2>1. PICK j \in 1 .. n : lines[j].kind = "description" /\ \A k \in j + 1 .. n : lines[k].kind # "other"
    BY <1>3 DEF InDescription
  <2>2. j \in 1 .. n + 1 /\ \A k \in j + 1 .. n + 1 : lines[k].kind # "other"
    BY <1>3, <2>1
  <2> QED
    BY <2>1, <2>2, Zenon DEF InDescription
<1> QED
  BY <1>1, <1>2, <1>3

LEMMA ContinuedStep ==
  ASSUME NEW lines, NEW n \in Nat
  PROVE  Continued(lines, n + 1) =
           Continued(lines, n) \cup IF lines[n + 1].kind = "continued" /\ InDescription(lines, n) THEN {n + 1} ELSE {}
<1>1. 1 .. n + 1 = (1 .. n) \cup {n + 1} /\ (n + 1) - 1 = n
  OBVIOUS
<1> QED
  BY <1>1 DEF Continued

(* What the parser has after n lines.                                           *)
LEMMA DetailsSoFar ==
  ASSUME NEW lines, Len(lines) \in Nat, \A i \in 1 .. Len(lines) : lines[i].text = i
  PROVE  IsLong(DetailsAfter(lines)[Len(lines)].long, lines, Len(lines))
<1> DEFINE N == Len(lines)
           d == DetailsAfter(lines)
           S == {n \in 0 .. N : /\ DOMAIN d[n] = DOMAIN NoDetails
                                /\ d[n].inDescription <=> InDescription(lines, n)
                                /\ IsLong(d[n].long, lines, n)}
<1>1. d[0] = NoDetails /\ \A n \in 1 .. N : d[n] = DetailsLine(d[n - 1], lines[n])
  BY DetailsRecursion
<1>n. N \in Nat /\ N \in 0 .. N
  OBVIOUS
<1> HIDE DEF d, N
<1>2. 0 \in S
  <2>1. DOMAIN d[0] = DOMAIN NoDetails /\ d[0].inDescription = FALSE /\ d[0].long = << >>
    BY <1>1 DEF NoDetails
  <2>2. ~InDescription(lines, 0) /\ Continued(lines, 0) = {}
    BY DEF InDescription, Continued
  <2>3. << >> \in Seq(1 .. 0) /\ ToSet(<< >>) = {} /\ DOMAIN << >> = {}
    BY DEF ToSet
  <2>4. IsLong(d[0].long, lines, 0)
    <3>1. IsLong(<< >>, lines, 0)
      BY <2>2, <2>3, Zenon DEF IsLong
    <3> QED
      BY <2>1, <3>1, Zenon
  <2>5. 0 \in 0 .. N
    BY <1>n
  <2> QED
    BY <2>1, <2>2, <2>4, <2>5, Zenon
<1>3. ASSUME NEW n \in 0 .. N, n < N, n \in S PROVE n + 1 \in S
  <2> DEFINE h == d[n]
             x == lines[n + 1]
             g == d[n + 1]
  <2>1. g = DetailsLine(h, x) /\ n + 1 \in 0 .. N /\ x.text = n + 1 /\ n \in Nat
    <3>1. n + 1 \in 1 .. N /\ (n + 1) - 1 = n
      BY <1>n, <1>3
    <3> QED
      BY <1>n, <1>1, <3>1 DEF N
  <2>2. /\ DOMAIN h = DOMAIN NoDetails /\ (h.inDescription <=> InDescription(lines, n))
        /\ IsLong(h.long, lines, n)
    BY <1>3
  <2>3. "long" \in DOMAIN NoDetails /\ "inDescription" \in DOMAIN NoDetails
    BY DEF NoDetails
  <2> HIDE DEF h, x, g
  <2>4. DOMAIN g = DOMAIN NoDetails
    BY <2>1, <2>2 DEF DetailsLine
  <2>5. g.inDescription <=> x.kind = "description" \/ (x.kind # "other" /\ h.inDescription)
    BY <2>1, <2>2, <2>3 DEF DetailsLine
  <2>6. g.inDescription <=> InDescription(lines, n + 1)
    BY <2>1, <2>2, <2>5, InDescriptionStep DEF x
  <2>7. IsLong(g.long, lines, n + 1)
    <3>1. CASE x.kind = "continued" /\ h.inDescription
      <4>1. g.long = Append(h.long, n + 1)
        BY <2>1, <2>2, <2>3, <3>1 DEF DetailsLine
      <4>2. Continued(lines, n + 1) = Continued(lines, n) \cup {n + 1}
        BY <2>1, <2>2, <3>1, ContinuedStep DEF x
      <4> DEFINE a == h.long
                 b == g.long
      <4>3. a \in Seq(1 .. n) /\ ToSet(a) = Continued(lines, n)
            /\ \A i, j \in DOMAIN a : i < j => a[i] < a[j]
        BY <2>2 DEF IsLong
      <4>4. b = Append(a, n + 1)
        BY <4>1
      <4> HIDE DEF a, b
      <4>5. /\ a \in Seq(Nat) /\ Len(a) \in Nat /\ DOMAIN a = 1 .. Len(a)
            /\ \A i \in DOMAIN a : a[i] \in 1 .. n
        BY <2>1, <4>3
      <4>6. /\ DOMAIN b = 1 .. Len(a) + 1 /\ b[Len(a) + 1] = n + 1
            /\ \A i \in DOMAIN a : b[i] = a[i]
        BY <2>1, <4>4, <4>5
      <4>7. \A i \in DOMAIN b : b[i] \in 1 .. n + 1
        BY <2>1, <4>5, <4>6
      <4>8. b \in Seq(1 .. n + 1)
        BY <2>1, <4>4, <4>5, <4>7
      <4>9. ToSet(b) = ToSet(a) \cup {n + 1}
        BY <4>5, <4>6 DEF ToSet
      <4>10. ASSUME NEW i \in DOMAIN b, NEW j \in DOMAIN b, i < j PROVE b[i] < b[j]
        <5>1. i \in DOMAIN a /\ i \in Nat /\ j \in Nat
          BY <4>5, <4>6, <4>10
        <5>2. CASE j = Len(a) + 1
          BY <2>1, <4>5, <4>6, <5>1, <5>2
        <5>3. CASE j # Len(a) + 1
          <6>1. j \in DOMAIN a
            BY <4>5, <4>6, <5>3
          <6> QED
            BY <4>3, <4>6, <4>10, <5>1, <6>1
        <5> QED
          BY <5>2, <5>3
      <4> QED
        BY <4>2, <4>3, <4>8, <4>9, <4>10 DEF IsLong, b
    <3>2. CASE ~(x.kind = "continued" /\ h.inDescription)
      <4>1. g.long = h.long
        BY <2>1, <2>2, <2>3, <3>2 DEF DetailsLine
      <4>2. Continued(lines, n + 1) = Continued(lines, n)
        BY <2>1, <2>2, <3>2, ContinuedStep DEF x
      <4>3. h.long \in Seq(1 .. n + 1)
        BY <2>1, <2>2 DEF IsLong
      <4> QED
        BY <2>2, <4>1, <4>2, <4>3 DEF IsLong
    <3> QED
      BY <3>1, <3>2
  <2> QED
    BY <2>1, <2>4, <2>6, <2>7 DEF g
<1> HIDE DEF S
<1>4. N \in S
  BY <1>2, <1>3, <1>n, UpToInduction
<1> QED
  BY <1>4 DEF S, N, d

(* The long description is exactly what continues one, in the order of the lines *)
(* (server_packages.go: GetPackageDetails).                                     *)
THEOREM DescriptionIsWhole == QueriesSpec => []DescriptionWhole
<1>1. QueryInv => DescriptionWhole
  <2> SUFFICES ASSUME QueryInv, query = "PackageDetails" PROVE DescriptionWhole
    BY DEF DescriptionWhole
  <2> DEFINE N == Len(input)
             kind(i) == input[i].kind
             follows(i, j) == j < i /\ kind(j) = "description" /\ \A k \in j + 1 .. i - 1 : kind(k) # "other"
             continued == {n \in DOMAIN input : kind(n) = "continued" /\ \E j \in DOMAIN input : follows(n, j)}
  <2>1. /\ answer = PackageDetails(input) /\ N \in Nat /\ DOMAIN input = 1 .. N
        /\ \A i \in 1 .. N : input[i].text = i
    BY AskedWell DEF Queries, WellFormed, Answers, IsSeq
  <2>2. IsLong(answer.long, input, N)
    BY <2>1, DetailsSoFar DEF PackageDetails
  <2>3. ASSUME NEW i \in 1 .. N
        PROVE  InDescription(input, i - 1) <=> \E j \in DOMAIN input : follows(i, j)
    <3>1. \A j : j \in 1 .. i - 1 <=> j \in 1 .. N /\ j < i
      BY <2>1
    <3> QED
      BY <2>1, <3>1 DEF InDescription
  <2>4. continued = Continued(input, N)
    BY <2>1, <2>3 DEF Continued
  <2>5. {input[i].text : i \in continued} = continued
    BY <2>1
  <2> HIDE DEF continued
  <2>6. /\ ToSet(answer.long) = {input[i].text : i \in continued}
        /\ \A i, j \in DOMAIN answer.long : i < j => answer.long[i] < answer.long[j]
    BY <2>2, <2>4, <2>5 DEF IsLong
  <2> QED
    BY <2>6, Zenon DEF DescriptionWhole, continued
<1> QED
  BY <1>1, QueryAnswered, PTL

-----------------------------------------------------------------------------
(* TopSelected. The rounds of the selection sort, one after another.            *)
IsSortTo(f, sample, n) ==
  f = [m \in 0 .. n |-> IF m = 0 THEN sample ELSE SelectMax(f[m - 1], m)]

LEMMA SortExists ==
  ASSUME NEW sample, NEW N \in Nat
  PROVE  \A n \in 0 .. N : \E f : IsSortTo(f, sample, n)
<1> DEFINE S == {n \in 0 .. N : \E f : IsSortTo(f, sample, n)}
<1>1. 0 \in S
  <2> DEFINE f == [m \in 0 .. 0 |-> sample]
  <2>1. f = [m \in 0 .. 0 |-> IF m = 0 THEN sample ELSE SelectMax(f[m - 1], m)]
    OBVIOUS
  <2>2. IsSortTo(f, sample, 0)
    BY <2>1, Zenon DEF IsSortTo
  <2> QED
    BY <2>2
<1>2. ASSUME NEW n \in 0 .. N, n < N, n \in S PROVE n + 1 \in S
  <2>1. PICK f : IsSortTo(f, sample, n)
    BY <1>2
  <2> DEFINE g == [m \in 0 .. n + 1 |-> IF m = n + 1 THEN SelectMax(f[n], n + 1) ELSE f[m]]
  <2>2. f = [m \in 0 .. n |-> IF m = 0 THEN sample ELSE SelectMax(f[m - 1], m)]
    BY <2>1 DEF IsSortTo
  <2>3. ASSUME NEW m \in 0 .. n + 1
        PROVE  g[m] = IF m = 0 THEN sample ELSE SelectMax(g[m - 1], m)
    <3>1. CASE m = n + 1
      <4>1. g[m - 1] = f[n] /\ g[m] = SelectMax(f[n], n + 1)
        BY <3>1
      <4> QED
        BY <3>1, <4>1
    <3>2. CASE m # n + 1
      <4>1. g[m] = f[m] /\ m \in 0 .. n
        BY <3>2
      <4>2. m # 0 => g[m - 1] = f[m - 1]
        BY <3>2
      <4>3. f[m] = IF m = 0 THEN sample ELSE SelectMax(f[m - 1], m)
        BY <2>2, <4>1
      <4> QED
        BY <4>1, <4>2, <4>3
    <3> QED
      BY <3>1, <3>2
  <2>4. g = [m \in 0 .. n + 1 |-> g[m]]
    OBVIOUS
  <2> HIDE DEF g
  <2>5. g = [m \in 0 .. n + 1 |-> IF m = 0 THEN sample ELSE SelectMax(g[m - 1], m)]
    BY <2>3, <2>4, Zenon
  <2>6. IsSortTo(g, sample, n + 1) /\ n + 1 \in 0 .. N
    BY <1>2, <2>5 DEF IsSortTo
  <2> QED
    BY <2>6
<1> HIDE DEF S
<1>3. \A n \in 0 .. N : n \in S
  BY <1>1, <1>2, UpToInduction
<1> QED
  BY <1>3 DEF S

LEMMA SortRecursion ==
  ASSUME NEW sample
  PROVE  /\ Selected(sample)[0] = sample
         /\ \A n \in 1 .. TopCount : Selected(sample)[n] = SelectMax(Selected(sample)[n - 1], n)
<1> DEFINE N == TopCount
<1>1. \E f : IsSortTo(f, sample, N)
  <2> HIDE DEF N
  <2>1. N \in Nat /\ N \in 0 .. N
    BY BoundsAssumption DEF N
  <2> QED
    BY <2>1, SortExists
<1>2. Selected(sample) =
        CHOOSE f : f = [m \in 0 .. N |-> IF m = 0 THEN sample ELSE SelectMax(f[m - 1], m)]
  BY DEF Selected
<1>3. IsSortTo(Selected(sample), sample, N)
  BY <1>1, <1>2, Zenon DEF IsSortTo
<1>4. N \in Nat
  BY BoundsAssumption
<1> DEFINE w == Selected(sample)
<1> HIDE DEF N, w
<1>5. w = [m \in 0 .. N |-> IF m = 0 THEN sample ELSE SelectMax(w[m - 1], m)]
  BY <1>3, Zenon DEF IsSortTo, w
<1>6. w[0] = sample
  BY <1>4, <1>5
<1>7. ASSUME NEW n \in 1 .. N PROVE w[n] = SelectMax(w[n - 1], n)
  <2>1. n \in 0 .. N /\ n # 0
    BY <1>4
  <2> QED
    BY <1>5, <2>1
<1> QED
  BY <1>6, <1>7 DEF w, N

(* The first of the busiest from a place on, which a round looks for.            *)
IsFirstMax(ps, b, i, n) ==
  /\ b \in i .. n /\ \A j \in i .. n : ps[j].cpu <= ps[b].cpu
  /\ \A j \in i .. b - 1 : ps[j].cpu < ps[b].cpu

LEMMA FirstMaxExists ==
  ASSUME NEW ps, NEW M \in Nat, \A j \in 1 .. M : ps[j].cpu \in Int, NEW i \in 1 .. M
  PROVE  \E b \in i .. M : IsFirstMax(ps, b, i, M)
<1> DEFINE S == {n \in 0 .. M - i : \E b \in i .. i + n : IsFirstMax(ps, b, i, i + n)}
           N == M - i
<1>1. N \in Nat /\ N \in 0 .. N /\ i + N = M
  OBVIOUS
<1>2. 0 \in S
  <2>1. i + 0 = i /\ i .. i = {i} /\ i .. i - 1 = {} /\ 0 \in 0 .. M - i /\ ps[i].cpu <= ps[i].cpu
    OBVIOUS
  <2>2. IsFirstMax(ps, i, i, i)
    BY <2>1, Zenon DEF IsFirstMax
  <2> QED
    BY <2>1, <2>2
<1>3. ASSUME NEW n \in 0 .. N, n < N, n \in S PROVE n + 1 \in S
  <2>1. PICK b \in i .. i + n : IsFirstMax(ps, b, i, i + n)
    BY <1>3
  <2> DEFINE c == i + (n + 1)
  <2>2. c \in 1 .. M /\ b \in 1 .. M /\ \A j \in i .. c : j \in 1 .. M /\ (j = c \/ j \in i .. i + n)
    BY <1>3
  <2>3. CASE ps[b].cpu < ps[c].cpu
    <3>1. \A j \in i .. c - 1 : ps[j].cpu < ps[c].cpu
      BY <2>1, <2>2, <2>3 DEF IsFirstMax
    <3>2. IsFirstMax(ps, c, i, c)
      BY <2>2, <3>1 DEF IsFirstMax
    <3> QED
      BY <1>3, <3>2
  <2>4. CASE ~(ps[b].cpu < ps[c].cpu)
    <3>1. IsFirstMax(ps, b, i, c)
      BY <2>1, <2>2, <2>4 DEF IsFirstMax
    <3> QED
      BY <1>3, <3>1
  <2> QED
    BY <2>3, <2>4
<1> HIDE DEF S
<1>4. N \in S
  <2> HIDE DEF N
  <2> QED
    BY <1>1, <1>2, <1>3, UpToInduction
<1> QED
  BY <1>1, <1>4 DEF S

(* A round of the sort exchanges a place with the first of the busiest after it. *)
LEMMA RoundSwaps ==
  ASSUME NEW ps, Len(ps) \in Nat, \A j \in 1 .. Len(ps) : ps[j].cpu \in Int, NEW i \in 1 .. Len(ps)
  PROVE  \E b \in i .. Len(ps) :
           /\ SelectMax(ps, i) = Swapped(ps, i, b)
           /\ \A j \in i .. Len(ps) : ps[j].cpu <= ps[b].cpu
<1> DEFINE best == CHOOSE m \in i .. Len(ps) :
                     /\ \A j \in i .. Len(ps) : ps[j].cpu <= ps[m].cpu
                     /\ \A j \in i .. m - 1 : ps[j].cpu < ps[m].cpu
<1>1. PICK b \in i .. Len(ps) : IsFirstMax(ps, b, i, Len(ps))
  BY FirstMaxExists
<1>2. best \in i .. Len(ps) /\ \A j \in i .. Len(ps) : ps[j].cpu <= ps[best].cpu
  BY <1>1, Zenon DEF IsFirstMax
<1>3. ~(i > Len(ps))
  OBVIOUS
<1>4. SelectMax(ps, i) = Swapped(ps, i, best)
  BY <1>3, Zenon DEF SelectMax
<1> QED
  BY <1>2, <1>4, Zenon

IsExchanged(q, ps, i, b, T) ==
  /\ q \in Seq(T) /\ Len(q) = Len(ps) /\ DOMAIN q = 1 .. Len(ps) /\ DOMAIN ps = 1 .. Len(ps)
  /\ q[i] = ps[b] /\ q[b] = ps[i] /\ \A k \in 1 .. Len(ps) : k # i /\ k # b => q[k] = ps[k]
  /\ ToSet(q) = ToSet(ps)

LEMMA SwapFacts ==
  ASSUME NEW T, NEW ps \in Seq(T), NEW i \in 1 .. Len(ps), NEW b \in 1 .. Len(ps), NEW q, q = Swapped(ps, i, b)
  PROVE  IsExchanged(q, ps, i, b, T)
<1>1. /\ q \in Seq(T) /\ Len(q) = Len(ps) /\ DOMAIN q = 1 .. Len(ps) /\ DOMAIN ps = 1 .. Len(ps)
      /\ q[i] = ps[b] /\ q[b] = ps[i] /\ \A k \in 1 .. Len(ps) : k # i /\ k # b => q[k] = ps[k]
  BY DEF Swapped
<1>2. \A k \in 1 .. Len(ps) : \E l \in 1 .. Len(ps) : q[k] = ps[l]
  BY <1>1, Zenon
<1>3. \A l \in 1 .. Len(ps) : \E k \in 1 .. Len(ps) : q[k] = ps[l]
  BY <1>1, Zenon
<1>4. ToSet(q) \subseteq ToSet(ps) /\ ToSet(ps) \subseteq ToSet(q)
  <2>1. ToSet(q) = {q[k] : k \in 1 .. Len(ps)} /\ ToSet(ps) = {ps[k] : k \in 1 .. Len(ps)}
    BY <1>1, Zenon DEF ToSet
  <2> QED
    BY <1>2, <1>3, <2>1, Zenon
<1> QED
  BY <1>1, <1>4, Zenon DEF IsExchanged

(* After n rounds the n busiest come first, in order; nothing is lost or doubled. *)
IsSortedTo(ps, sample, n) ==
  /\ ps \in Seq(ToSet(sample)) /\ Len(ps) = Len(sample) /\ ToSet(ps) = ToSet(sample)
  /\ \A i, j \in 1 .. Len(ps) : ps[i].pid = ps[j].pid => i = j
  /\ \A k, j \in 1 .. Len(ps) : k <= n /\ k <= j => ps[j].cpu <= ps[k].cpu

LEMMA RoundSorts ==
  ASSUME NEW sample, \A p \in ToSet(sample) : p.cpu \in Int, NEW n \in Nat, NEW ps, IsSortedTo(ps, sample, n)
  PROVE  IsSortedTo(SelectMax(ps, n + 1), sample, n + 1)
<1> DEFINE M == Len(ps)
<1>1. M \in Nat /\ DOMAIN ps = 1 .. M /\ \A j \in 1 .. M : ps[j] \in ToSet(sample) /\ ps[j].cpu \in Int
  BY DEF IsSortedTo
<1>2. CASE n + 1 > M
  <2>1. SelectMax(ps, n + 1) = ps
    BY <1>2, Zenon DEF SelectMax
  <2>2. \A k \in 1 .. M : k <= n + 1 => k <= n
    BY <1>1, <1>2
  <2> QED
    BY <2>1, <2>2 DEF IsSortedTo
<1>3. CASE ~(n + 1 > M)
  <2> DEFINE i == n + 1
  <2>1. i \in 1 .. M
    BY <1>1, <1>3
  <2>2. PICK b \in i .. M :
          SelectMax(ps, i) = Swapped(ps, i, b) /\ \A j \in i .. M : ps[j].cpu <= ps[b].cpu
    <3> HIDE DEF i
    <3> QED
      BY <1>1, <2>1, RoundSwaps
  <2> DEFINE q == SelectMax(ps, i)
  <2>3. b \in 1 .. M
    BY <1>1, <2>1
  <2>4. /\ q \in Seq(ToSet(sample)) /\ Len(q) = M /\ DOMAIN q = 1 .. M
        /\ q[i] = ps[b] /\ q[b] = ps[i] /\ \A k \in 1 .. M : k # i /\ k # b => q[k] = ps[k]
        /\ ToSet(q) = ToSet(sample)
    <3>1. ps \in Seq(ToSet(sample)) /\ ToSet(ps) = ToSet(sample)
      BY DEF IsSortedTo
    <3>2. q = Swapped(ps, i, b)
      BY <2>2
    <3> HIDE DEF i, q
    <3>3. IsExchanged(q, ps, i, b, ToSet(sample))
      BY <2>1, <2>3, <3>1, <3>2, SwapFacts
    <3> QED
      BY <3>1, <3>3, Zenon DEF IsExchanged
  <2> HIDE DEF q
  <2>5. \A k, j \in 1 .. M : ps[k].pid = ps[j].pid => k = j
    BY DEF IsSortedTo
  <2>6. ASSUME NEW k \in 1 .. M, NEW j \in 1 .. M, q[k].pid = q[j].pid PROVE k = j
    <3> DEFINE from(l) == IF l = i THEN b ELSE IF l = b THEN i ELSE l
    <3>1. \A l \in 1 .. M : q[l] = ps[from(l)] /\ from(l) \in 1 .. M
      <4> HIDE DEF i
      <4> QED
        BY <2>1, <2>3, <2>4
    <3>2. from(k) = from(j)
      <4> HIDE DEF from
      <4> QED
        BY <2>5, <2>6, <3>1
    <3> QED
      BY <3>2
  <2>7. ASSUME NEW k \in 1 .. M, NEW j \in 1 .. M, k <= i, k <= j PROVE q[j].cpu <= q[k].cpu
    <3>1. k \in Nat /\ j \in Nat /\ i \in Nat /\ b \in Nat /\ i <= b /\ i = n + 1
      BY <1>1, <2>1, <2>2
    <3>2. CASE k = i
      <4>1. q[k] = ps[b]
        BY <2>4, <3>2
      <4>2. PICK l \in i .. M : q[j] = ps[l]
        <5>1. CASE j = i
          BY <2>3, <2>4, <5>1
        <5>2. CASE j = b /\ j # i
          BY <2>1, <2>4, <5>2
        <5>3. CASE j # b /\ j # i
          BY <2>4, <2>7, <3>1, <3>2, <5>3
        <5> QED
          BY <5>1, <5>2, <5>3
      <4> QED
        BY <2>2, <4>1, <4>2
    <3>3. CASE k # i
      <4>0. k <= n /\ k < i /\ k # b
        BY <2>7, <3>1, <3>3
      <4>1. q[k] = ps[k]
        BY <2>4, <4>0
      <4>2. PICK l \in 1 .. M : q[j] = ps[l] /\ k <= l
        <5>1. CASE j = i
          BY <2>3, <2>4, <3>1, <4>0, <5>1
        <5>2. CASE j = b /\ j # i
          BY <2>1, <2>4, <3>1, <4>0, <5>2
        <5>3. CASE j # b /\ j # i
          BY <2>4, <2>7, <5>3
        <5> QED
          BY <5>1, <5>2, <5>3
      <4> QED
        BY <4>0, <4>1, <4>2 DEF IsSortedTo
    <3> QED
      BY <3>2, <3>3
  <2>8. Len(ps) = Len(sample)
    BY DEF IsSortedTo
  <2>9. IsSortedTo(q, sample, i)
    <3> HIDE DEF i
    <3> QED
      BY <2>4, <2>6, <2>7, <2>8 DEF IsSortedTo
  <2> QED
    BY <2>9 DEF q
<1> QED
  BY <1>2, <1>3

LEMMA SortedAfter ==
  ASSUME NEW T, NEW sample \in Seq(T), \A p \in ToSet(sample) : p.cpu \in Int,
         \A i, j \in 1 .. Len(sample) : sample[i].pid = sample[j].pid => i = j
  PROVE  IsSortedTo(Selected(sample)[TopCount], sample, TopCount)
<1> DEFINE sorted == Selected(sample)
           S == {n \in 0 .. TopCount : IsSortedTo(sorted[n], sample, n)}
<1>n. TopCount \in Nat /\ TopCount \in 0 .. TopCount
  BY BoundsAssumption
<1>1. sorted[0] = sample /\ \A n \in 1 .. TopCount : sorted[n] = SelectMax(sorted[n - 1], n)
  BY SortRecursion
<1> HIDE DEF sorted
<1>2. 0 \in S
  <2>1. Len(sample) \in Nat /\ DOMAIN sample = 1 .. Len(sample) /\ sample \in [1 .. Len(sample) -> ToSet(sample)]
    BY DEF ToSet
  <2>2. sample \in Seq(ToSet(sample))
    BY <2>1
  <2>3. \A k \in 1 .. Len(sample) : ~(k <= 0)
    BY <2>1
  <2>4. IsSortedTo(sample, sample, 0)
    BY <2>2, <2>3 DEF IsSortedTo
  <2> QED
    BY <1>n, <1>1, <2>4
<1>3. ASSUME NEW n \in 0 .. TopCount, n < TopCount, n \in S PROVE n + 1 \in S
  <2>1. n \in Nat /\ n + 1 \in 1 .. TopCount /\ n + 1 \in 0 .. TopCount /\ (n + 1) - 1 = n
    BY <1>n, <1>3
  <2>2. sorted[n + 1] = SelectMax(sorted[n], n + 1)
    BY <1>1, <2>1
  <2>3. IsSortedTo(SelectMax(sorted[n], n + 1), sample, n + 1)
    BY <1>3, <2>1, RoundSorts
  <2> QED
    BY <2>1, <2>2, <2>3
<1> HIDE DEF S
<1>4. TopCount \in S
  BY <1>n, <1>2, <1>3, UpToInduction
<1> QED
  BY <1>4 DEF S, sorted

(* The first m of a set, or all when there are fewer, number from one on.         *)
Before(S, i) == {j \in S : j < i}

AreNumberedTo(T, S, c) ==
  /\ Cardinality(T) = c
  /\ \A n \in 1 .. c : Place(S, n) \in T
  /\ \A i \in T : Cardinality(UpToPlace(S, i)) \in 1 .. c

LEMMA FirstOfSet ==
  ASSUME NEW N \in Nat, NEW S \in SUBSET (1 .. N), NEW m \in Nat,
         NEW c, c = IF Cardinality(S) < m THEN Cardinality(S) ELSE m,
         NEW T, T = {i \in S : Cardinality(Before(S, i)) < m}
  PROVE  AreNumberedTo(T, S, c)
<1> DEFINE rank(i) == Cardinality(UpToPlace(S, i))
           U == {i \in S : rank(i) <= c}
           C == Cardinality(S)
<1>1. /\ IsFiniteSet(S) /\ C \in Nat /\ \A i \in S : rank(i) \in 1 .. C
      /\ \A i, j \in S : i < j => rank(i) < rank(j)
  BY RankBounds
<1>2. ASSUME NEW i \in S PROVE Cardinality(Before(S, i)) \in Nat /\ rank(i) = Cardinality(Before(S, i)) + 1
  <2>1. /\ \A j \in S : j <= i <=> (j < i \/ j = i)
        /\ ~(i < i)
    OBVIOUS
  <2>2. UpToPlace(S, i) = Before(S, i) \cup {i} /\ i \notin Before(S, i) /\ Before(S, i) \in SUBSET S
    BY <2>1 DEF UpToPlace, Before
  <2>3. IsFiniteSet(Before(S, i))
    BY <1>1, <2>2, FS_Subset
  <2> QED
    BY <2>2, <2>3, FS_AddElement, FS_CardinalityType
<1> HIDE DEF rank
<1>c. c \in Nat /\ c <= C /\ (c = C \/ c = m) /\ c <= m
  BY <1>1
<1> HIDE DEF C
<1>3. T = U
  <2>1. \A i \in S : Cardinality(Before(S, i)) < m <=> rank(i) <= c
    BY <1>1, <1>2, <1>c
  <2> QED
    BY <2>1
<1>4. /\ \A n \in 1 .. C : Place(S, n) \in S /\ rank(Place(S, n)) = n
      /\ \A i \in S : Place(S, rank(i)) = i
  BY PlaceOfRank, Zenon DEF rank, C
<1>5. \A n \in 1 .. c : Place(S, n) \in U
  BY <1>1, <1>c, <1>4
<1>6. Cardinality(U) = c
  <2>1. CASE c = 0
    <3>0. \A i \in S : ~(rank(i) <= 0)
      BY <1>1
    <3>1. U = {}
      BY <2>1, <3>0
    <3> QED
      BY <2>1, <3>1, FS_EmptySet
  <2>2. CASE c # 0
    <3> DEFINE i == Place(S, c)
    <3>1. c \in 1 .. C
      BY <1>c, <2>2
    <3>2. i \in S /\ rank(i) = c
      BY <1>4, <3>1
    <3> HIDE DEF i
    <3>3. ASSUME NEW j \in S PROVE j <= i <=> rank(j) <= c
      <4>1. j \in Nat /\ i \in Nat /\ rank(j) \in Nat /\ rank(i) \in Nat
        BY <1>1, <3>2
      <4>2. (j < i => rank(j) < rank(i)) /\ (i < j => rank(i) < rank(j))
        BY <1>1, <3>2
      <4> QED
        BY <3>2, <4>1, <4>2
    <3>4. U = UpToPlace(S, i)
      BY <3>3 DEF UpToPlace
    <3> QED
      BY <3>2, <3>4, Zenon DEF rank
  <2> QED
    BY <2>1, <2>2
<1>7. \A i \in U : rank(i) \in 1 .. c
  BY <1>1, <1>c
<1> HIDE DEF U
<1>8. Cardinality(T) = c /\ (\A n \in 1 .. c : Place(S, n) \in T) /\ \A i \in T : rank(i) \in 1 .. c
  BY <1>3, <1>5, <1>6, <1>7, Zenon
<1> QED
  BY <1>8, Zenon DEF rank, AreNumberedTo

(* As many different numbers as places.                                         *)
LEMMA DistinctPids ==
  ASSUME NEW ps, NEW n \in Nat, \A i, j \in 1 .. n : ps[i].pid = ps[j].pid => i = j
  PROVE  Cardinality({ps[k].pid : k \in 1 .. n}) = n
<1> DEFINE pids == {ps[k].pid : k \in 1 .. n}
           f == [k \in 1 .. n |-> ps[k].pid]
<1>1. f \in Surjection(1 .. n, pids) /\ f \in Injection(1 .. n, pids)
  <2>1. f \in [1 .. n -> pids] /\ \A k \in 1 .. n : f[k] = ps[k].pid
    OBVIOUS
  <2>2. \A x \in pids : \E k \in 1 .. n : f[k] = x
    BY <2>1
  <2>3. \A i, j \in 1 .. n : f[i] = f[j] => i = j
    BY <2>1
  <2> HIDE DEF pids, f
  <2> QED
    BY <2>1, <2>2, <2>3 DEF Surjection, Injection, IsInjective
<1>2. IsFiniteSet(1 .. n) /\ Cardinality(1 .. n) = n
  BY FS_Interval
<1> HIDE DEF pids, f
<1>3. Cardinality(pids) = Cardinality(1 .. n)
  BY <1>1, <1>2, FS_Surjection, Zenon
<1> QED
  BY <1>2, <1>3 DEF pids

(* The list shows the busiest of the processes that were looked at, the busiest  *)
(* first (server_stats.go: getTopProcessesOptimized).                           *)
THEOREM TopIsSelected == QueriesSpec => []TopSelected
<1>1. QueryInv => TopSelected
  <2> SUFFICES ASSUME QueryInv, query = "TopProcesses" PROVE TopSelected
    BY DEF TopSelected
  <2> DEFINE alive == {i \in DOMAIN input : ~input[i].gone}
             seen == {i \in alive : Cardinality({j \in alive : j < i}) < MaxSample}
             kept == Kept(input, alive)
             size == IF Len(kept) < MaxSample THEN Len(kept) ELSE MaxSample
             sample == SubSeq(kept, 1, size)
             count == IF Len(sample) < TopCount THEN Len(sample) ELSE TopCount
             ps == Selected(sample)[TopCount]
  <2>1. /\ IsSeq(input) /\ answer = TopProcesses(input)
        /\ \A i \in DOMAIN input :
             input[i].cpu \in Int /\ \A j \in DOMAIN input : input[j].pid = input[i].pid => j = i
    BY AskedWell DEF Queries, WellFormed, Answers
  <2>2. answer = SubSeq(ps, 1, count)
    BY <2>1 DEF TopProcesses
  <2>b. MaxSample \in Nat /\ TopCount \in Nat
    BY BoundsAssumption
  <2>s. alive \in SUBSET DOMAIN input
    OBVIOUS
  <2> HIDE DEF alive
  <2>3. /\ Cardinality(alive) \in Nat /\ DOMAIN input = 1 .. Len(input) /\ Len(input) \in Nat
        /\ DOMAIN kept = 1 .. Cardinality(alive) /\ Len(kept) = Cardinality(alive)
        /\ \A n \in 1 .. Cardinality(alive) : Place(alive, n) \in alive /\ kept[n] = input[Place(alive, n)]
        /\ \A i \in alive : /\ Cardinality(UpToPlace(alive, i)) \in 1 .. Cardinality(alive)
                            /\ kept[Cardinality(UpToPlace(alive, i))] = input[i]
    BY <2>1, <2>s, KeptFacts
  <2> HIDE DEF kept
  <2>4. size \in Nat /\ size \in 0 .. Cardinality(alive) /\ size <= MaxSample
    BY <2>3, <2>b
  <2>5. alive \in SUBSET (1 .. Len(input))
    BY <2>3, <2>s
  <2>6. /\ Cardinality(seen) = size
        /\ \A n \in 1 .. size : Place(alive, n) \in seen
        /\ \A i \in seen : Cardinality(UpToPlace(alive, i)) \in 1 .. size
    <3>1. size = IF Cardinality(alive) < MaxSample THEN Cardinality(alive) ELSE MaxSample
      BY <2>3
    <3>2. seen = {i \in alive : Cardinality(Before(alive, i)) < MaxSample}
      BY Zenon DEF Before
    <3> HIDE DEF size, seen
    <3>3. AreNumberedTo(seen, alive, size)
      BY <2>b, <2>3, <2>5, <3>1, <3>2, FirstOfSet
    <3> QED
      BY <3>3, Zenon DEF AreNumberedTo
  <2>7. \A i \in seen : i \in alive
    OBVIOUS
  <2> HIDE DEF size, seen
  <2>8. /\ sample \in Seq(ToSet(input)) /\ Len(sample) = size /\ DOMAIN sample = 1 .. size
        /\ \A n \in 1 .. size : sample[n] = kept[n]
    <3>1. \A n \in 1 .. size : kept[n] \in ToSet(input)
      BY <2>3, <2>4, <2>s DEF ToSet
    <3> QED
      BY <2>4, <3>1, SubSeqProperties
  <2>9. \A n \in 1 .. size : /\ Place(alive, n) \in DOMAIN input /\ sample[n] = input[Place(alive, n)]
                              /\ Cardinality(UpToPlace(alive, Place(alive, n))) = n
    <3>1. \A n \in 1 .. Cardinality(alive) : Cardinality(UpToPlace(alive, Place(alive, n))) = n
      BY <2>3, <2>5, PlaceOfRank
    <3>2. \A n \in 1 .. size : n \in 1 .. Cardinality(alive)
      BY <2>3, <2>4
    <3> QED
      BY <2>3, <2>8, <2>s, <3>1, <3>2, Zenon
  <2>10. ASSUME NEW i \in 1 .. size, NEW j \in 1 .. size, sample[i].pid = sample[j].pid PROVE i = j
    <3> DEFINE a == Place(alive, i)
               b == Place(alive, j)
    <3>a. a \in DOMAIN input /\ b \in DOMAIN input /\ input[a].pid = input[b].pid
      BY <2>9, <2>10
    <3> HIDE DEF a, b
    <3>b. a = b
      BY <2>1, <3>a, Zenon
    <3>1. Place(alive, i) = Place(alive, j)
      BY <3>b DEF a, b
    <3> QED
      BY <2>9, <3>1, Zenon
  <2> HIDE DEF sample
  <2>11. \A p \in ToSet(sample) : p.cpu \in Int
    BY <2>1, <2>8, <2>9 DEF ToSet
  <2>12. IsSortedTo(ps, sample, TopCount)
    BY <2>8, <2>10, <2>11, SortedAfter
  <2> HIDE DEF ps
  <2>13. /\ ps \in Seq(ToSet(sample)) /\ Len(ps) = size /\ ToSet(ps) = ToSet(sample) /\ DOMAIN ps = 1 .. size
         /\ \A i, j \in 1 .. size : ps[i].pid = ps[j].pid => i = j
         /\ \A k, j \in 1 .. size : k <= TopCount /\ k <= j => ps[j].cpu <= ps[k].cpu
         /\ \A k \in 1 .. size : ps[k] \in ToSet(sample)
    BY <2>8, <2>12 DEF IsSortedTo
  <2>14. count \in Nat /\ count <= size /\ count <= TopCount
         /\ count = IF Cardinality(seen) < TopCount THEN Cardinality(seen) ELSE TopCount
    BY <2>b, <2>4, <2>6, <2>8
  <2> HIDE DEF count
  <2>15. Len(answer) = count /\ DOMAIN answer = 1 .. count /\ \A k \in 1 .. count : answer[k] = ps[k]
    <3>1. \A k \in 1 .. count : ps[k] \in ToSet(sample)
      BY <2>4, <2>13, <2>14
    <3> QED
      BY <2>2, <2>14, <3>1, SubSeqProperties
  <2> DEFINE shown == {answer[k].pid : k \in DOMAIN answer}
  <2>16. Cardinality(shown) = Len(answer)
    <3>1. \A i, j \in 1 .. count : answer[i].pid = answer[j].pid => i = j
      BY <2>4, <2>13, <2>14, <2>15
    <3> QED
      BY <2>14, <2>15, <3>1, DistinctPids
  <2>17. \A k \in DOMAIN answer : k > 1 => answer[k - 1].cpu >= answer[k].cpu
    <3> SUFFICES ASSUME NEW k \in DOMAIN answer, k > 1 PROVE answer[k - 1].cpu >= answer[k].cpu
      OBVIOUS
    <3>1. k \in 1 .. count /\ k - 1 \in 1 .. count /\ k - 1 \in 1 .. size /\ k \in 1 .. size
          /\ k - 1 <= TopCount /\ k - 1 <= k
      BY <2>b, <2>4, <2>14, <2>15
    <3>2. ps[k].cpu <= ps[k - 1].cpu
      BY <2>13, <3>1
    <3> QED
      BY <2>15, <3>1, <3>2
  <2>18. ASSUME NEW i \in seen PROVE input[i].pid \in shown \/ \A k \in DOMAIN answer : answer[k].cpu >= input[i].cpu
    <3>1. PICK n \in 1 .. size : sample[n] = input[i]
      BY <2>3, <2>6, <2>7, <2>8
    <3>2. PICK j \in 1 .. size : ps[j] = input[i]
      <4>1. input[i] \in ToSet(ps)
        BY <2>8, <2>13, <3>1 DEF ToSet
      <4> QED
        BY <2>13, <4>1 DEF ToSet
    <3>3. CASE j \in 1 .. count
      BY <2>15, <3>2, <3>3
    <3>4. CASE j \notin 1 .. count
      <4>1. \A k \in 1 .. count : k \in 1 .. size /\ k <= TopCount /\ k <= j
        BY <2>b, <2>4, <2>14, <3>4
      <4>2. \A k \in 1 .. count : ps[j].cpu <= ps[k].cpu
        BY <2>13, <4>1
      <4> QED
        BY <2>15, <3>2, <4>2
    <3> QED
      BY <3>3, <3>4
  <2> HIDE DEF shown
  <2>19. Len(answer) = IF Cardinality(seen) < TopCount THEN Cardinality(seen) ELSE TopCount
    BY <2>14, <2>15
  <2> QED
    BY <2>16, <2>17, <2>18, <2>19, Zenon DEF TopSelected, alive, seen, shown
<1> QED
  BY <1>1, QueryAnswered, PTL
=============================================================================
