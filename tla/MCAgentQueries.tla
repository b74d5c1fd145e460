--------------------------- MODULE MCAgentQueries ---------------------------
(* Every output of a few lines, of the kinds of lines the loops tell apart.     *)
EXTENDS AgentQueries

UpTo(n, S) == UNION {[1 .. k -> S] : k \in 0 .. n}
Flags == {<< >>, <<"up">>, <<"broadcast", "up">>}

DpkgLine(name) ==
  {Nothing} \cup [name : {name}, want : {"install", "hold", "deinstall", "purge"},
                  flag : {"ok", "reinstreq"}, state : {"installed", "config-files"}, matches : BOOLEAN]
Dpkg == {<<a, b>> : a \in DpkgLine("p1"), b \in DpkgLine("p2")}
Found == {<< >>, <<"p1">>, <<"p2", "p1">>, <<Nothing, "p1", "p2">>, <<"p3", "p1", "p2">>}

DetailsLines(n) == [kind : {"description", "field", "continued", "other", "blank"}, text : {n}]
Details == {<<a, b, c, d, e>> : a \in DetailsLines(1), b \in DetailsLines(2), c \in DetailsLines(3),
                                d \in DetailsLines(4), e \in DetailsLines(5)}

DependsLine == [kind : {"Depends", "Suggests"}, bar : BOOLEAN, name : {"a", "b"}]
RdependsLine == [bar : BOOLEAN, name : {Nothing, "a"}]

ListLine == [heading : BOOLEAN, slash : BOOLEAN, words : {2, 3}, name : {"a"}, from : {Nothing, "v1"}]
Status ==
  [lsb : {Nothing, "os"}, release : {Nothing, "os2"}, partial : {Nothing, "t1"}, pkgcache : {Nothing, "t2"},
   uptime : {0, 59, 60, 3599, 3600, 7260, 86399, 86400, 90061, 200000}, list : UpTo(1, ListLine)]

\* systemctl marks every unit that has failed, and others.
Unit(name) == {Nothing} \cup {u \in [name : {name}, load : {"loaded"}, active : {"active", "failed"},
                                     sub : {"running", "exited"}, marked : BOOLEAN] :
                                u.active = "failed" => u.marked}
Services == [units : {<<a, b>> : a \in Unit("u1"), b \in Unit("u2")}, enabled : SUBSET {"u1", "u2"}]

Process(n) == [pid : {n}, name : {"x"}, cpu : 0 .. 2, gone : BOOLEAN]
Processes == {<<a, b, c, d>> : a \in Process(1), b \in Process(2), c \in Process(3), d \in Process(4)}
               \cup {<< >>, <<[pid |-> 1, name |-> "x", cpu |-> 1, gone |-> FALSE]>>}

Containers == SUBSET [id : {"k1", "k2"}, created : {1, 2}]

Interfaces == [interfaces : UpTo(2, [name : {"eth0", "wlan0"}, flags : Flags]),
               counters : UpTo(2, [name : {"eth0", "lo"}, sent : {1, 2}])]
Connections == [conns : UpTo(2, [type : 1 .. 5, pid : {0, 7, 8}]), alive : {[p \in {7} |-> "x"]}]

Word == [kind : {"bracketed", "address", "latency", "star", "word"}, text : {"w1", "w2"}]
Route == UpTo(1, [hop : 0 .. 1, words : UpTo(3, Word)])
           \cup UpTo(3, [hop : {0, 2}, words : {<< >>, <<[kind |-> "star", text |-> "w1"]>>}])

Mounts == UpTo(2, [mount : {"/", "/boot"}, usage : {Nothing, "u"}])
Sensors == [cores : UpTo(2, {0, 50}), zone : {Nothing, 42800}, vcgencmd : {Nothing, 43}]

MCInputs ==
  [q \in {"Version", "ListPackages", "PackageDetails", "Dependencies", "RequiredBy", "UpdateStatus", "ListServices",
          "ListProcesses", "TopProcesses", "ListContainers", "NetworkInfo", "NetworkConnections",
          "WifiInfo", "DnsLookup", "Traceroute", "DiskInfo", "LiveStats"} |->
     CASE q = "Version" -> {0, 1000}
       [] q = "ListPackages" -> [installedOnly : BOOLEAN, term : {Nothing, "t"}, dpkg : Dpkg, found : Found]
       [] q = "PackageDetails" -> Details
       [] q = "Dependencies" -> UpTo(3, DependsLine)
       [] q = "RequiredBy" -> UpTo(4, RdependsLine)
       [] q = "UpdateStatus" -> Status
       [] q = "ListServices" -> Services
       [] q \in {"ListProcesses", "TopProcesses"} -> Processes
       [] q = "ListContainers" -> Containers
       [] q = "NetworkInfo" -> Interfaces
       [] q = "NetworkConnections" -> Connections
       [] q = "WifiInfo" -> UpTo(3, {Nothing, "off/any", "home", "guest"})
       [] q = "DnsLookup" -> {Nothing, <<"a">>, <<"a", "b">>}
       [] q = "Traceroute" -> Route
       [] q = "DiskInfo" -> Mounts
       [] q = "LiveStats" -> Sensors]
=============================================================================
