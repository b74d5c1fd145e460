---------------------------- MODULE AgentQueries ----------------------------
(* The queries asked of a Pi, one a step, and what their answers have to be:    *)
(* the loops of AgentAnswers against what they are for.                        *)
EXTENDS AgentAnswers

CONSTANT Inputs      \* for each query, what the system may say

Queries ==
  {"Version", "ListPackages", "PackageDetails", "Dependencies", "RequiredBy", "UpdateStatus", "ListServices",
   "ListProcesses", "TopProcesses", "ListContainers", "NetworkInfo", "NetworkConnections",
   "WifiInfo", "DnsLookup", "Traceroute", "DiskInfo", "LiveStats"}

IsSeq(s) == s \in Seq(ToSet(s))

(* What the programs keep to: systemctl lists a unit once, and none is named     *)
(* like its mark; no two processes have one number; a word is not empty. A line *)
(* of a description stands for its text, and is told apart by its place.       *)
WellFormed(q, in) ==
  CASE q = "ListPackages"   -> IsSeq(in.dpkg) /\ IsSeq(in.found)
    [] q = "PackageDetails" -> IsSeq(in) /\ \A i \in DOMAIN in : in[i].text = i
    [] q = "UpdateStatus"   -> in.uptime \in Nat
    [] q = "ListServices"   ->
         /\ IsSeq(in.units)
         /\ \A i \in DOMAIN in.units : in.units[i] # Nothing =>
              /\ in.units[i].name # "mark"
              /\ \A j \in DOMAIN in.units :
                   in.units[j] # Nothing /\ in.units[j].name = in.units[i].name => j = i
    [] q = "TopProcesses"   ->
         /\ IsSeq(in)
         /\ \A i \in DOMAIN in : in[i].cpu \in Int /\ \A j \in DOMAIN in : in[j].pid = in[i].pid => j = i
    [] q = "Traceroute"     ->
         /\ IsSeq(in)
         /\ \A i \in DOMAIN in :
              /\ in[i].hop \in Nat /\ IsSeq(in[i].words)
              /\ \A w \in DOMAIN in[i].words : in[i].words[w].text # Nothing
    [] OTHER                -> TRUE

ASSUME InputsAssumption ==
  /\ Nothing \notin Queries
  /\ DOMAIN Inputs \subseteq Queries
  /\ \A q \in DOMAIN Inputs : \A in \in Inputs[q] : WellFormed(q, in)

VARIABLES query, input, answer

queryVars == <<query, input, answer>>

Answers(q, in) ==
  CASE q = "Version"            -> {GetVersion(in)}
    [] q = "ListPackages"       -> {ListPackages(in)}
    [] q = "PackageDetails"     -> {PackageDetails(in)}
    [] q = "Dependencies"       -> {Dependencies(in, "Depends")}
    [] q = "RequiredBy"         -> {RequiredBy(in)}
    [] q = "UpdateStatus"       -> {UpdateStatus(in)}
    [] q = "ListServices"       -> {ListServices(in)}
    [] q = "ListProcesses"      -> {ListProcesses(in)}
    [] q = "TopProcesses"       -> {TopProcesses(in)}
    [] q = "ListContainers"     -> ContainerLists(in)
    [] q = "NetworkInfo"        -> {GetNetworkInfo(in)}
    [] q = "NetworkConnections" -> {NetworkConnections(in)}
    [] q = "WifiInfo"           -> {WifiInfo(in)}
    [] q = "DnsLookup"          -> {DnsLookup(in)}
    [] q = "Traceroute"         -> {Traceroute(in)}
    [] q = "DiskInfo"           -> {DiskInfo(in)}
    [] q = "LiveStats"          -> {LiveStats(in)}

QueriesInit == query = Nothing /\ input = << >> /\ answer = << >>

Ask ==
  /\ query = Nothing
  /\ \E q \in DOMAIN Inputs : \E in \in Inputs[q] :
       query' = q /\ input' = in /\ answer' \in Answers(q, in)

Done == query # Nothing /\ query' = Nothing /\ input' = << >> /\ answer' = << >>

QueriesSpec == QueriesInit /\ [][Ask \/ Done]_queryVars

-----------------------------------------------------------------------------
(* The list of packages, the search and the details of a package agree on what  *)
(* is installed, for every package that dpkg lists once, not for two            *)
(* architectures: what a list calls installed the details do, whatever is to    *)
(* become of it, and the other way round unless the package is on hold, to be   *)
(* purged or to be reinstalled, which only the details call installed           *)
(* (server_packages.go:58, 107, 283).                                          *)
InstalledAgree ==
  query = "ListPackages" =>
    \A i \in DOMAIN input.dpkg :
      LET p == input.dpkg[i]
          listed == {k \in DOMAIN answer : answer[k].name = p.name}
          whole == input.installedOnly \/ input.term = Nothing
          once == \A j \in DOMAIN input.dpkg :
                    input.dpkg[j] # Nothing /\ input.dpkg[j].name = p.name => j = i
          plain == p.want \in {"install", "deinstall"} /\ p.flag = "ok"
      IN p # Nothing /\ once =>
           /\ \A k \in listed : answer[k].installed => DetailsInstalled(p)
           /\ plain /\ DetailsInstalled(p) =>
                /\ \A k \in listed : answer[k].installed
                /\ whole /\ (input.term = Nothing \/ p.matches) => listed # {}

(* The long description is made of the lines that continue a description, in    *)
(* their order: those after one with no line between that is a field the parser *)
(* does not know; the continuations of fields it knows are taken for the        *)
(* description's (server_packages.go:262-270).                                 *)
DescriptionWhole ==
  query = "PackageDetails" =>
    LET kind(i) == input[i].kind
        follows(i, j) == j < i /\ kind(j) = "description" /\ \A k \in j + 1 .. i - 1 : kind(k) # "other"
        continued == {n \in DOMAIN input : kind(n) = "continued" /\ \E j \in DOMAIN input : follows(n, j)}
    IN /\ ToSet(answer.long) = {input[i].text : i \in continued}
       /\ \A i, j \in DOMAIN answer.long : i < j => answer.long[i] < answer.long[j]

(* The words of the uptime add up to its minutes, and none is larger than its   *)
(* unit allows.                                                                *)
UptimeTold ==
  query = "UpdateStatus" =>
    LET u == answer.uptime  n == Len(u) IN
    /\ u[n] + (IF n > 1 THEN u[n - 1] * 60 ELSE 0) + (IF n > 2 THEN u[1] * 1440 ELSE 0) = input.uptime \div 60
    /\ u[n] < 60 /\ (n = 3 => u[2] < 24) /\ (n > 1 => u[1] > 0)

(* What the list of services says of a unit, under the unit's name.            *)
ToldRight(u) ==
  LET told == {k \in DOMAIN answer : answer[k].name = u.name}
  IN told # {} /\ \A k \in told :
       answer[k].status = u.active /\ answer[k].sub = u.sub /\ (answer[k].enabled <=> u.name \in input.enabled)

(* Every unit systemctl does not mark is told under its name, with the state it *)
(* is in and whether it is enabled, and a mark is never taken for one of them.  *)
UnmarkedTold ==
  query = "ListServices" =>
    \A i \in DOMAIN input.units :
      input.units[i] # Nothing /\ ~input.units[i].marked => ToldRight(input.units[i])

(* "ListServices returns all systemd services" (server_service.go:16), with     *)
(* their status, "active, inactive, failed" (pi_control.proto:186): every unit. *)
ServicesTold ==
  query = "ListServices" =>
    \A i \in DOMAIN input.units : input.units[i] # Nothing => ToldRight(input.units[i])

(* The process list shows the busiest of the processes that were looked at, the *)
(* busiest first, none twice, and as many as there are up to the count.        *)
TopSelected ==
  query = "TopProcesses" =>
    LET alive == {i \in DOMAIN input : ~input[i].gone}
        sampled == {i \in alive : Cardinality({j \in alive : j < i}) < MaxSample}
        shown == {answer[k].pid : k \in DOMAIN answer}
    IN /\ Len(answer) = IF Cardinality(sampled) < TopCount THEN Cardinality(sampled) ELSE TopCount
       /\ Cardinality(shown) = Len(answer)
       /\ \A k \in DOMAIN answer : k > 1 => answer[k - 1].cpu >= answer[k].cpu
       /\ \A i \in sampled : input[i].pid \in shown \/ \A k \in DOMAIN answer : answer[k].cpu >= input[i].cpu

(* Every line of a route becomes one hop, in order; a lost one has no address,  *)
(* any other has the address in brackets if there is one.                      *)
HopsTold ==
  query = "Traceroute" =>
    LET lines == {i \in DOMAIN input : input[i].hop > 0 /\ input[i].words # << >>}
        texts(l, k) == {l.words[w].text : w \in {v \in DOMAIN l.words : l.words[v].kind = k}}
    IN /\ Len(answer) = Cardinality(lines)
       /\ \A i \in lines :
            LET l == input[i]
                h == answer[Cardinality({j \in lines : j <= i})]
            IN /\ h.hop = l.hop /\ (h.timeout <=> texts(l, "star") # {})
               /\ h.timeout => h.ip = Nothing
               /\ ~h.timeout /\ texts(l, "bracketed") # {} => h.ip \in texts(l, "bracketed")
               /\ ~h.timeout => h.ip # Nothing
=============================================================================
