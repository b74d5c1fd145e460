---------------------------- MODULE AgentAnswers ----------------------------
(* What the agent's queries make of what the system says: the loops over the    *)
(* output of dpkg, apt, systemctl, traceroute, iwconfig and gopsutil. A line of  *)
(* output is a record of what the code tells apart in it.                      *)
EXTENDS Integers, SequencesExt

CONSTANTS MaxResults,   \* 100 in ListPackages
          MaxSample,    \* 300 in getTopProcessesOptimized
          TopCount,     \* 5 in StreamStats
          Nothing       \* an empty string, or no line

ASSUME BoundsAssumption == MaxResults \in Nat /\ MaxSample \in Nat /\ TopCount \in Nat

(* What a loop over a sequence keeps: the elements at some of its places, in    *)
(* their order. The place of the n-th is the one with n of them up to it.      *)
UpToPlace(S, i) == {j \in S : j <= i}
Place(S, n) == CHOOSE i \in S : Cardinality(UpToPlace(S, i)) = n
Kept(s, S) == [n \in 1 .. Cardinality(S) |-> s[Place(S, n)]]

-----------------------------------------------------------------------------
(* Packages. A package has the three words of its dpkg status and may match the *)
(* search; a line that is not a package's is Nothing. The code looks for        *)
(* "install ok installed" anywhere in the status, so "deinstall" passes too.    *)
InstallOk(p) == p.want \in {"install", "deinstall"} /\ p.flag = "ok" /\ p.state = "installed"

InstalledPackages(dpkg, term) ==
  LET told(p) == p # Nothing /\ InstallOk(p) /\ (term = Nothing \/ p.matches)
      kept == Kept(dpkg, {i \in DOMAIN dpkg : told(dpkg[i])})
  IN [i \in DOMAIN kept |-> [name |-> kept[i].name, installed |-> TRUE]]

SearchedPackages(found, dpkg) ==
  LET lines == Kept(found, {i \in DOMAIN found : found[i] # Nothing})
      known(n) == \E i \in DOMAIN dpkg : dpkg[i] # Nothing /\ dpkg[i].name = n /\ InstallOk(dpkg[i])
      size == IF Len(lines) < MaxResults THEN Len(lines) ELSE MaxResults
  IN [i \in 1 .. size |-> [name |-> lines[i], installed |-> known(lines[i])]]

ListPackages(in) ==
  IF in.installedOnly \/ in.term = Nothing
  THEN InstalledPackages(in.dpkg, in.term)
  ELSE SearchedPackages(in.found, in.dpkg)

\* Mutant of DetailsLine: an empty line ends the description.
DetailsLineStops(d, line) ==
  CASE line.kind = "description" -> [d EXCEPT !.short = line.text, !.inDescription = TRUE]
    [] line.kind = "field" -> [d EXCEPT !.version = line.text]
    [] line.kind = "continued" /\ d.inDescription -> [d EXCEPT !.long = Append(@, line.text)]
    [] OTHER -> [d EXCEPT !.inDescription = FALSE]

(* GetPackageDetails: the fields of apt-cache show, one pass.                   *)
DetailsLine(d, line) ==
  CASE line.kind = "description" -> [d EXCEPT !.short = line.text, !.inDescription = TRUE]
    [] line.kind = "field" -> [d EXCEPT !.version = line.text]     \* any other field it knows
    [] line.kind = "continued" /\ d.inDescription -> [d EXCEPT !.long = Append(@, line.text)]
    [] line.kind = "other" -> [d EXCEPT !.inDescription = FALSE]
    [] OTHER -> d                                                   \* blank, or not in a description

NoDetails == [version |-> Nothing, short |-> Nothing, long |-> << >>, inDescription |-> FALSE]

DetailsAfter(lines) ==
  LET after[n \in 0 .. Len(lines)] == IF n = 0 THEN NoDetails ELSE DetailsLine(after[n - 1], lines[n])
  IN after

PackageDetails(lines) == DetailsAfter(lines)[Len(lines)]

\* Mutant of DetailsInstalled: whatever dpkg knows is installed.
DetailsKnown(p) == p # Nothing

DetailsInstalled(p) == p.state = "installed"

(* GetPackageDependencies: apt-cache depends marks every alternative but the    *)
(* last with a bar, and such a line begins with no word the code looks for.     *)
Dependencies(lines, kind) ==
  LET told(l) == l.kind = kind /\ ~l.bar
      kept == SelectSeq(lines, told)
  IN [i \in DOMAIN kept |-> kept[i].name]

(* apt-cache rdepends: two lines of heading, then a package a line.             *)
RequiredBy(lines) ==
  LET told(l) == l.name # Nothing /\ ~l.bar
      kept == SelectSeq(SubSeq(lines, 3, Len(lines)), told)
  IN [i \in DOMAIN kept |-> kept[i].name]

(* GetSystemUpdateStatus. A line of apt list has a slash, words after it and,   *)
(* unless it is new, the version it is upgradable from.                        *)
UpgradableLine(line) == IF line.slash /\ line.words >= 3 THEN {[name |-> line.name, from |-> line.from]} ELSE {}

FirstOf(some, other) == IF some # Nothing THEN some ELSE other

\* Mutant of Uptime: the hours of the whole days are counted again.
UptimeHours(s) ==
  LET days == s \div 86400  hours == s \div 3600  mins == (s % 3600) \div 60 IN
  IF days > 0 THEN <<days, hours, mins>> ELSE IF hours > 0 THEN <<hours, mins>> ELSE <<mins>>

Uptime(s) ==
  LET days == s \div 86400  hours == (s % 86400) \div 3600  mins == (s % 3600) \div 60 IN
  IF days > 0 THEN <<days, hours, mins>> ELSE IF hours > 0 THEN <<hours, mins>> ELSE <<mins>>

UpdateStatus(in) ==
  LET told(l) == ~l.heading /\ UpgradableLine(l) # {}
      kept == SelectSeq(in.list, told)
  IN [os |-> FirstOf(in.lsb, in.release), uptime |-> Uptime(in.uptime),
      updated |-> FirstOf(in.partial, in.pkgcache),
      packages |-> [i \in DOMAIN kept |-> CHOOSE p \in UpgradableLine(kept[i]) : TRUE],
      count |-> Len(kept)]

-----------------------------------------------------------------------------
\* Mutant of Fields: two columns are exchanged.
FieldsExchanged(u) == (IF u.marked THEN <<"mark">> ELSE << >>) \o <<u.name, u.active, u.load, u.sub>>

(* Services. systemctl puts a mark before the name of a unit that has failed or  *)
(* is missing, as a word of its own.                                           *)
Fields(u) == (IF u.marked THEN <<"mark">> ELSE << >>) \o <<u.name, u.load, u.active, u.sub>>

ListServices(in) ==
  LET units == Kept(in.units, {i \in DOMAIN in.units : in.units[i] # Nothing})
  IN [i \in DOMAIN units |->
       LET f == Fields(units[i]) IN
       [name |-> f[1], status |-> f[3], sub |-> f[4], enabled |-> f[1] \in in.enabled]]

-----------------------------------------------------------------------------
(* The agent itself: whether it runs as root.                                  *)
GetVersion(euid) == [root |-> euid = 0]

(* Processes: everything process.Processes lists, with what can still be read.  *)
ProcessInfo(p) == [pid |-> p.pid, name |-> IF p.gone THEN Nothing ELSE p.name]
ListProcesses(procs) == [i \in DOMAIN procs |-> ProcessInfo(procs[i])]

(* The selection sort of getTopProcessesOptimized, of a sample in map order.    *)
Swapped(ps, i, j) == [ps EXCEPT ![i] = ps[j], ![j] = ps[i]]
\* Mutant of SelectMax: the last process is never looked at.
SelectMaxShort(ps, i) ==
  LET best == CHOOSE m \in i .. Len(ps) - 1 :
                \A j \in i .. Len(ps) - 1 : ps[j].cpu <= ps[m].cpu
  IN IF i >= Len(ps) THEN ps ELSE Swapped(ps, i, best)

SelectMax(ps, i) ==
  LET best == CHOOSE m \in i .. Len(ps) :
                /\ \A j \in i .. Len(ps) : ps[j].cpu <= ps[m].cpu
                /\ \A j \in i .. m - 1 : ps[j].cpu < ps[m].cpu
  IN IF i > Len(ps) THEN ps ELSE Swapped(ps, i, best)

Selected(sample) ==
  LET after[n \in 0 .. TopCount] == IF n = 0 THEN sample ELSE SelectMax(after[n - 1], n)
  IN after

TopProcesses(procs) ==
  LET sampled == Kept(procs, {i \in DOMAIN procs : ~procs[i].gone})
      sample == SubSeq(sampled, 1, IF Len(sampled) < MaxSample THEN Len(sampled) ELSE MaxSample)
      count == IF Len(sample) < TopCount THEN Len(sample) ELSE TopCount
  IN SubSeq(Selected(sample)[TopCount], 1, count)

-----------------------------------------------------------------------------
(* Docker: newest first. sort.Slice leaves containers of one time in any order. *)
ContainerLists(containers) ==
  {s \in SetToSeqs(containers) : \A i \in 1 .. Len(s) - 1 : s[i].created >= s[i + 1].created}

-----------------------------------------------------------------------------
(* The network.                                                                *)
GetNetworkInfo(in) ==
  [i \in DOMAIN in.interfaces |->
     LET name == in.interfaces[i].name
         mine == {k \in DOMAIN in.counters : in.counters[k].name = name}
     IN [name |-> name, up |-> in.interfaces[i].flags # << >> /\ in.interfaces[i].flags[1] = "up",
         sent |-> IF mine = {} THEN 0 ELSE in.counters[CHOOSE k \in mine : \A j \in mine : k <= j].sent]]

Protocol(type) ==
  CASE type = 1 -> "TCP" [] type = 2 -> "UDP" [] type = 3 -> "TCP6" [] type = 4 -> "UDP6" [] OTHER -> "UNKNOWN"

ProcessOf(pid, alive) == IF pid # 0 /\ pid \in DOMAIN alive THEN alive[pid] ELSE Nothing

NetworkConnections(in) ==
  [i \in DOMAIN in.conns |-> [protocol |-> Protocol(in.conns[i].type), pid |-> in.conns[i].pid,
                              process |-> ProcessOf(in.conns[i].pid, in.alive)]]

(* The last adapter that names a network wins.                                 *)
WifiLine(w, line) ==
  IF line \in {Nothing, "off/any"} THEN w ELSE [connected |-> TRUE, ssid |-> line]
WifiInfo(lines) == FoldLeft(WifiLine, [connected |-> FALSE, ssid |-> Nothing], lines)

(* DNSLookup: a name that cannot be resolved is an answer.                      *)
DnsLookup(addresses) ==
  IF addresses = Nothing THEN [success |-> FALSE, addresses |-> << >>] ELSE [success |-> TRUE, addresses |-> addresses]

\* Mutant of TraceWord: any address replaces the one in brackets.
TraceWordLast(h, w) ==
  CASE w.kind \in {"bracketed", "address"} -> [h EXCEPT !.ip = w.text, !.at = @ + 1]
    [] OTHER -> [h EXCEPT !.at = @ + 1]

(* A line of traceroute: the words after the number of the hop.                 *)
TraceWord(h, w) ==
  CASE w.kind = "bracketed" -> [h EXCEPT !.ip = w.text, !.named = @ \/ h.at > 0, !.at = @ + 1]
    [] w.kind = "address" -> [h EXCEPT !.ip = IF @ = Nothing THEN w.text ELSE @, !.at = @ + 1]
    [] w.kind = "latency" -> [h EXCEPT !.latency = w.text, !.at = @ + 1]  \* a number and ms in one word
    [] OTHER -> [h EXCEPT !.at = @ + 1]

NoWords == [ip |-> Nothing, named |-> FALSE, latency |-> 0, at |-> 0]

WordsAfter(words) ==
  LET after[n \in 0 .. Len(words)] == IF n = 0 THEN NoWords ELSE TraceWord(after[n - 1], words[n])
  IN after

TraceHop(line) ==
  LET h == WordsAfter(line.words)[Len(line.words)]
      first == line.words[1].text
      lost == \E i \in DOMAIN line.words : line.words[i].kind = "star"
  IN IF lost THEN [hop |-> line.hop, timeout |-> TRUE, ip |-> Nothing, host |-> Nothing, latency |-> 0]
     ELSE [hop |-> line.hop, timeout |-> FALSE, ip |-> FirstOf(h.ip, first),
           host |-> IF h.named \/ h.ip = Nothing THEN first ELSE Nothing, latency |-> h.latency]

Traceroute(lines) ==
  LET kept == Kept(lines, {i \in DOMAIN lines : lines[i].hop > 0 /\ lines[i].words # << >>})
  IN [i \in DOMAIN kept |-> TraceHop(kept[i])]

-----------------------------------------------------------------------------
(* Sensors and disks: what cannot be read is left out or counts as zero.        *)
CpuTemperature(in) == IF in.zone # Nothing THEN in.zone \div 1000 ELSE IF in.vcgencmd # Nothing THEN in.vcgencmd ELSE 0
GpuTemperature(in) == IF in.vcgencmd # Nothing THEN in.vcgencmd ELSE 0
CpuUsage(cores) == IF cores = << >> THEN 0 ELSE FoldLeft(LAMBDA a, b : a + b, 0, cores) \div Len(cores)
DiskInfo(mounts) == LET readable(m) == m.usage # Nothing IN SelectSeq(mounts, readable)
LiveStats(in) == [cpu |-> CpuUsage(in.cores), cpuTemp |-> CpuTemperature(in), gpuTemp |-> GpuTemperature(in)]
=============================================================================
