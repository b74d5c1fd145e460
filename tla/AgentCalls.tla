----------------------------- MODULE AgentCalls -----------------------------
(* The agent's process and the calls it serves (agent/main.go): the listener,  *)
(* the services that are registered, a goroutine per call, and the graceful    *)
(* stop on a signal. A call's handler says where it is in pc and what it has   *)
(* sent in out; the modules that extend this one hold the handlers, which the   *)
(* generated ones (pi_control_grpc.pb.go) call once they have the request.      *)
EXTENDS Naturals, Sequences

CONSTANTS Calls,     \* the calls the clients may make, each at most once
          Asked      \* the methods they may ask for

Apt == {"InstallPackage", "RemovePackage", "UpdatePackage", "UpgradePackages", "UpdatePackageList"}
ProcessMethods == {"KillProcess", "PauseProcess", "ResumeProcess"}
DockerUnary == {"StartContainer", "StopContainer", "RestartContainer"}
Tools == {"PingHost", "Traceroute", "ScanPorts", "TestNetworkSpeed", "StreamPackageOperation"}

(* The two services: what SystemMonitor answers once, what it streams, and what *)
(* is Docker's.                                                                *)
Unary == Apt \cup ProcessMethods \cup {"ManageService"}
Streams == Tools \cup {"StreamSystemUpgrade", "StreamLogs", "StreamStats"}
DockerMethods == DockerUnary \cup {"GetContainerLogs"}
Methods == Unary \cup Streams \cup DockerMethods

ASSUME AskedAssumption == Asked \subseteq Methods

VARIABLES agent,     \* "new", "serving", "draining" or "gone"
          docker,    \* the Docker service is registered
          method,    \* what each call asks for
          pc,        \* where its handler is: "idle" before, "request" until it has the
                     \* request, "over" after
          clients,   \* the calls somebody waits for: their context is not done
          out,       \* the messages each call's client has received
          result     \* how each call ended

callVars == <<agent, docker, method, pc, clients, out, result>>

Messages == {"line", "success", "failure"}
Results == {"none", "ok", "error", "nopipe", "unsent", "unread", "unimplemented"}

CallsInit ==
  /\ agent = "new" /\ docker = FALSE
  /\ method = [c \in Calls |-> "none"] /\ pc = [c \in Calls |-> "idle"]
  /\ clients = {} /\ out = [c \in Calls |-> << >>] /\ result = [c \in Calls |-> "none"]

-----------------------------------------------------------------------------
(* The process. Without a client for Docker it serves without that service.     *)
NewDockerService == docker' \in BOOLEAN

Listen ==
  /\ agent = "new"
  /\ \/ agent' = "serving" /\ NewDockerService
     \/ agent' = "gone" /\ UNCHANGED docker          \* the port is taken
  /\ UNCHANGED <<method, pc, clients, out, result>>

(* The first signal. Those that follow are never received: signal.Notify keeps  *)
(* them from ending the process.                                               *)
Signal ==
  /\ agent = "serving"
  /\ agent' = "draining"
  /\ UNCHANGED <<docker, method, pc, clients, out, result>>

InFlight(c) == pc[c] \notin {"idle", "over"}

\* Mutant of Stopped: it also waits for the clients whose calls are over.
StoppedUnheard ==
  /\ agent = "draining" /\ clients = {} /\ ~ \E c \in Calls : InFlight(c)
  /\ agent' = "gone"
  /\ UNCHANGED <<docker, method, pc, clients, out, result>>

(* GracefulStop returns when no handler is left, and with it Serve and main.    *)
Stopped ==
  /\ agent = "draining" /\ ~ \E c \in Calls : InFlight(c)
  /\ agent' = "gone"
  /\ UNCHANGED <<docker, method, pc, clients, out, result>>

-----------------------------------------------------------------------------
(* The life of a call.                                                         *)
Invoke(c) ==
  /\ agent = "serving" /\ pc[c] = "idle"
  /\ \E m \in Asked :
       /\ method' = [method EXCEPT ![c] = m]
       /\ IF m \in DockerMethods /\ ~docker
          THEN /\ pc' = [pc EXCEPT ![c] = "over"]
               /\ result' = [result EXCEPT ![c] = "unimplemented"]
               /\ UNCHANGED clients
          ELSE /\ pc' = [pc EXCEPT ![c] = "request"]
               /\ clients' = clients \cup {c}
               /\ UNCHANGED result
  /\ UNCHANGED <<agent, docker, out>>

Leave(c) ==
  /\ InFlight(c) /\ c \in clients
  /\ clients' = clients \ {c}
  /\ UNCHANGED <<agent, docker, method, pc, out, result>>

At(c, p, M) == pc[c] = p /\ method[c] \in M

(* What a handler's step does to its call.                                     *)
Goes(c, p) == pc' = [pc EXCEPT ![c] = p] /\ UNCHANGED <<agent, docker, method, clients, out, result>>

Sends(c, msg, p) ==
  /\ c \in clients
  /\ out' = [out EXCEPT ![c] = Append(@, msg)]
  /\ pc' = [pc EXCEPT ![c] = p]
  /\ UNCHANGED <<agent, docker, method, clients, result>>

Ends(c, r, told) ==
  /\ pc' = [pc EXCEPT ![c] = "over"]
  /\ result' = [result EXCEPT ![c] = r]
  /\ out' = IF c \in clients THEN [out EXCEPT ![c] = @ \o told] ELSE out
  /\ UNCHANGED <<agent, docker, method, clients>>

(* A Send that fails, or an answer that cannot be sent: the client has left, or *)
(* what the message quotes is not UTF-8, which a string of proto3 has to be.    *)
Unsent(c) == Ends(c, "unsent", << >>)

-----------------------------------------------------------------------------
(* The generated handlers: the request is read, or cannot be, and only then the *)
(* method's own handler runs.                                                  *)
Receives(c, M) ==
  /\ At(c, "request", M)
  /\ \/ c \in clients /\ Goes(c, "start")
     \/ Ends(c, "unread", << >>)

PackageRequest(c) == Receives(c, Apt)
ProcessRequest(c) == Receives(c, ProcessMethods)
ServiceRequest(c) == Receives(c, {"ManageService"})
StreamRequest(c) == Receives(c, Streams)
DockerRequest(c) == Receives(c, DockerMethods)

Requests(c) ==
  \/ PackageRequest(c) \/ ProcessRequest(c) \/ ServiceRequest(c)
  \/ StreamRequest(c) \/ DockerRequest(c)

(* Nobody waits for the request of a client that has left.                      *)
RequestLost(c) == At(c, "request", Methods) /\ c \notin clients /\ Ends(c, "unread", << >>)
=============================================================================
