-------------------------- MODULE ConnectionSystem --------------------------
(***************************************************************************)
(* The app's connection to a Pi, end to end: the connections screen and    *)
(* the login screen, the dashboard's disconnect, the reconnect when the    *)
(* app comes to the foreground, the keepalive timer, the statistics        *)
(* stream, and the network, over the shared ConnectionManager, SSHService  *)
(* and GrpcService.                                                        *)
(***************************************************************************)
EXTENDS LoginScreen

CONSTANTS Entry,    \* the user actions this instance has:
                    \* a subset of {"screen", "login", "disconnect", "resume", "stats"}
          Serial    \* a user action starts only when no other is in flight

ASSUME EntryAssumption ==
  /\ Entry \subseteq {"screen", "login", "disconnect", "resume", "stats"}
  /\ Serial \in BOOLEAN

CMState == {"disconnected", "connecting", "connected", "disconnecting", "error"}

ResumePcs == {"r-close", "r-next", "r-dial"}

Pcs == {"idle"} \cup ConnectPcs \cup DisconnectPcs \cup ScreenPcs \cup LoginPcs \cup ResumePcs

TypeOK ==
  /\ SshTypeOK
  /\ GrpcTypeOK
  /\ cm \in CMState
  /\ cmTarget \in Conns \cup {None}
  /\ cmConn \in Conns \cup {None}
  /\ pc \in [Calls -> Pcs]
  /\ arg \in [Calls -> Conns \cup {None}]
  /\ on \in [Calls -> Sessions \cup Channels \cup {None}]
  /\ gone \subseteq Calls
  /\ uiConn \in Conns \cup {None}

Init ==
  /\ SshInit
  /\ GrpcInit
  /\ cm = "disconnected" /\ cmTarget = None /\ cmConn = None
  /\ pc = [k \in Calls |-> "idle"]
  /\ arg = [k \in Calls |-> None]
  /\ on = [k \in Calls |-> None]
  /\ gone = {}
  /\ uiConn = None

---------------------------------------------------------------------------
(* Disconnect: the dashboard's button clears the shown connection and does *)
(* not wait; the agent banner and the settings leave it as it is.          *)

UserDisconnect(k) ==
  /\ pc[k] = "idle"
  /\ uiConn # None
  /\ cm # "disconnected"
  /\ cm' = "disconnecting" /\ cmTarget' = None /\ UNCHANGED cmConn
  /\ ShutdownBegin
  /\ Goto(k, "off-grpc", chan)
  /\ uiConn' \in {None, uiConn}
  /\ UNCHANGED sshVars

\* The manager was never told of the connection, so there is nothing to do.
UserDisconnectIgnored(k) ==
  /\ pc[k] = "idle"
  /\ uiConn # None
  /\ cm = "disconnected"
  /\ uiConn' = None
  /\ UNCHANGED <<sshVars, grpcVars, managerVars, callVars>>

---------------------------------------------------------------------------
(* MainScreen._checkAndReconnect() when the app is resumed, and            *)
(* SSHService.reconnect()                                                  *)

Resume(k) ==
  /\ pc[k] = "idle"
  /\ uiConn # None
  /\ sshConn # None /\ sshState # "connected"
  /\ CloseBegin
  /\ Goto(k, "r-close", None)
  /\ UNCHANGED <<grpcVars, managerVars, uiConn>>

ResumeClosed(k) ==
  /\ pc[k] = "r-close"
  /\ CloseEnd \/ ("close" \in Faults /\ CloseThrows)
  /\ Goto(k, "r-next", None)
  /\ UNCHANGED <<grpcVars, managerVars, uiConn>>

\* connect(_currentConnection!), where disconnect() has just nulled it.
ResumeThrows(k) ==
  /\ pc[k] = "r-next"
  /\ sshConn = None
  /\ Finish(k)
  /\ UNCHANGED <<sshVars, grpcVars, managerVars, uiConn>>

ResumeDials(k) ==
  /\ pc[k] = "r-next"
  /\ sshConn # None
  /\ DialBegin(sshConn)
  /\ pc' = [pc EXCEPT ![k] = "r-dial"]
  /\ arg' = [arg EXCEPT ![k] = sshConn]
  /\ UNCHANGED <<on, gone, grpcVars, managerVars, uiConn>>

ResumeDialed(k, s) ==
  /\ pc[k] = "r-dial"
  /\ Unused(s) /\ statsOn # s
  /\ DialOk(s, arg[k])
  /\ Finish(k)
  /\ UNCHANGED <<grpcVars, managerVars, uiConn>>

ResumeFailed(k) ==
  /\ pc[k] = "r-dial"
  /\ DialFail
  /\ Finish(k)
  /\ UNCHANGED <<grpcVars, managerVars, uiConn>>

ResumeStep(k) ==
  \/ ResumeClosed(k) \/ ResumeThrows(k) \/ ResumeDials(k)
  \/ (\E s \in Sessions : ResumeDialed(k, s))
  \/ ResumeFailed(k)

---------------------------------------------------------------------------
(* What runs by itself *)

Keepalive ==
  /\ KeepaliveSend \/ KeepaliveStops \/ PingDone \/ PingClosed
  /\ UNCHANGED <<grpcVars, managerVars, callVars, uiConn>>

Network ==
  /\ \E s \in Sessions : LinkDrop(s)
  /\ UNCHANGED <<grpcVars, managerVars, callVars, uiConn>>

\* A dashboard is there to listen once a screen has shown a connection.
Stats ==
  /\ "stats" \in Entry
  /\ \/ uiConn # None /\ StatsListen
     \/ StatsStart \/ StatsGivesUp \/ StatsBreaks
  /\ UNCHANGED <<sshVars, managerVars, callVars, uiConn>>

Background == Keepalive \/ Network \/ Stats

---------------------------------------------------------------------------
Idle == \A k \in Calls : pc[k] = "idle"

UserStarts(k) ==
  /\ Serial => Idle
  /\ \/ "screen" \in Entry /\ \E c \in Conns : TapConnect(k, c)
     \/ "login" \in Entry /\ \E c \in Conns : TapDevice(k, c)
     \/ "disconnect" \in Entry /\ (UserDisconnect(k) \/ UserDisconnectIgnored(k))
     \/ "resume" \in Entry /\ Resume(k)

CallStep(k) == ManagerStep(k) \/ ScreenStep(k) \/ LoginStep(k) \/ ResumeStep(k)

\* Call k waits for nothing: no channel to drain, no tunnel to close, or a
\* future that is already complete.  Dart resumes it from the microtask queue,
\* before the next tap, timer or answer.
Hop(k) ==
  \/ pc[k] \in {"pre-grpc", "off-grpc", "fail-grpc"} /\ on[k] = None
  \/ pc[k] \in {"pre-ssh", "off-ssh", "fail-ssh", "l-close", "r-close"} /\ tunnel = "none"
  \/ pc[k] \in {"pre-dial", "r-next"}

NoHop == \A k \in Calls : ~Hop(k)

Next ==
  \/ \E k \in Calls : (Hop(k) \/ NoHop) /\ CallStep(k)
  \/ NoHop /\ ((\E k \in Calls : UserStarts(k)) \/ Background)

Spec == Init /\ [][Next]_vars

\* Every await ends: the dial has a timeout, a command on a live session is
\* answered, one on a dead session fails, a delay elapses.  What the user does,
\* answers a dialog or leaves a screen, is owed to nobody.
CallProgress(k) ==
  /\ pc[k] \notin {"ask-install", "ask-forward", "l-ask-install", "l-ask-forward"}
  /\ CallStep(k) /\ ~LeaveScreen(k) /\ ~NextCommand(k)

FairSpec ==
  /\ Spec
  /\ \A k \in Calls : WF_vars(CallProgress(k))
  /\ WF_vars(KeepaliveStops /\ UNCHANGED <<grpcVars, managerVars, callVars, uiConn>>)
  /\ WF_vars(StatsBreaks /\ UNCHANGED <<sshVars, managerVars, callVars, uiConn>>)

---------------------------------------------------------------------------
(* SSHService as the app uses it is SSHService under any callers: the      *)
(* awaits of the calls, seen from the service.                             *)

Awaiting(p) ==
  CASE p \in {"dial", "l-dial", "l-redial", "r-dial"} -> "dial"
    [] p \in {"pre-ssh", "off-ssh", "fail-ssh", "l-close", "r-close"} -> "close"
    [] p \in {"bind", "l-bind"} -> "bind"
    [] OTHER -> "idle"

Ssh == INSTANCE SshClients WITH
  Callers  <- Calls,
  CanThrow <- "close" \in Faults,
  doing    <- [k \in Calls |-> Awaiting(pc[k])],
  dialing  <- [k \in Calls |-> IF Awaiting(pc[k]) = "dial" THEN arg[k] ELSE None]

\* Every step of the app is one legal piece of one call of SSHService, or leaves
\* the service alone: no code path runs half of a connect, disconnect or
\* forwardLocal, runs one twice, or writes the service's fields behind its back.
SshContract == Ssh!ClientsSpec

---------------------------------------------------------------------------
(* Whatever the users do *)

\* The two guards against connecting twice to one Pi agree: the screen compares
\* with currentConnection, connect() with the connection inside its state, and
\* the two are written by different steps of different calls.
GuardsAgree == cm = "connected" => cmConn = cmTarget /\ cmTarget # None

\* Why it holds: a call of connect() or of the login screen carries its connection
\* from its first guard to its success, and so does every connecting state that
\* continueConnection() may pick up from another call.
GuardsInv ==
  /\ GuardsAgree
  /\ cm = "connecting" => cmTarget # None
  /\ \A k \in Calls :
       pc[k] \in (ConnectPcs \ {"fail-grpc", "fail-ssh"}) \cup LoginPcs => arg[k] # None

---------------------------------------------------------------------------
(* One user action at a time, through the ConnectionManager.  "Provides    *)
(* atomic connect/disconnect operations with proper cleanup".              *)

SerialUse ==
  /\ Serial
  /\ Entry \subseteq {"screen", "disconnect", "stats"}
  /\ Faults = {}

\* When the manager is disconnected or failed and nothing is in flight, nothing
\* is left: no session, no channel, no tunnel, no port.
Released ==
  Idle /\ cm \in {"disconnected", "error"} =>
    /\ client = None /\ \A s \in Sessions : host[s] = None
    /\ chan = None /\ open = {}
    /\ tunnel = "none" /\ ~portHeld

\* When the manager says it is connected to a Pi, there is one session, to that
\* Pi unless the network has lost it, one channel, and the tunnel between them.
Usable ==
  Idle /\ cm = "connected" =>
    /\ client # None /\ sshConn = cmTarget
    /\ host[client] \in {cmTarget, None}
    /\ \A s \in Sessions \ {client} : host[s] = None
    /\ chan # None /\ open = {chan}
    /\ tunnel = "bound"

\* Why they hold: what is there in every phase of the one call in flight.
SessionTo(c) == client # None /\ sshConn = c /\ host[client] \in {c, None}
NoSession == client = None /\ tunnel = "none"
NoChannel == chan = None /\ open = {}

PhaseInv(k) ==
  /\ pc[k] \in {"pre-grpc", "off-grpc", "fail-grpc"} => open = {}
  /\ pc[k] \in {"pre-ssh", "off-ssh", "fail-ssh"} => NoChannel /\ tunnel # "bound"
  /\ pc[k] \in {"pre-dial", "dial"} => NoChannel /\ NoSession
  /\ pc[k] = "pre-dial" => cm = "disconnected"
  /\ pc[k] = "dial" => cm = "connecting" /\ cmTarget = arg[k] /\ sshConn = arg[k]
  /\ pc[k] \in ScreenPcs => cm = "connecting" /\ NoChannel /\ tunnel = "none" /\ SessionTo(cmTarget)
  /\ pc[k] \in {"sudo", "agent", "running", "fwd", "start", "bind", "settle", "version"} =>
       /\ cm = "connecting" /\ cmTarget = arg[k] /\ SessionTo(arg[k])
       /\ IF pc[k] = "version" THEN chan # None ELSE NoChannel
       /\ IF pc[k] \in {"settle", "version"} THEN tunnel = "bound" ELSE tunnel = "none"

ShuttingDown == \E k \in Calls : pc[k] \in {"pre-grpc", "off-grpc", "fail-grpc"}

ResourcesInv ==
  /\ \A s \in Sessions : host[s] # None => s = client
  /\ open = IF chan = None \/ ShuttingDown THEN {} ELSE {chan}
  /\ portHeld = (tunnel = "bound")

OneCallInv ==
  /\ \A j, k \in Calls : pc[j] # "idle" /\ pc[k] # "idle" => j = k
  /\ \A k \in Calls : pc[k] \in {"idle"} \cup ConnectPcs \cup DisconnectPcs \cup ScreenPcs

RestInv ==
  Idle => /\ cm # "disconnecting"
          /\ cm \in {"disconnected", "error"} => NoSession /\ NoChannel
          /\ cm = "connected" => SessionTo(cmTarget) /\ chan # None /\ tunnel = "bound"

SerialInv ==
  /\ OneCallInv
  /\ ResourcesInv
  /\ \A k \in Calls : PhaseInv(k)
  /\ RestInv

\* The connection the calls work on, seen as the one ConnectionPromise speaks of.
UndoingPcs == {"pre-grpc", "pre-ssh", "off-grpc", "off-ssh", "fail-grpc", "fail-ssh"}
Undoing == \E k \in Calls : pc[k] \in UndoingPcs

Phase ==
  IF Undoing THEN "undoing"
  ELSE IF cm = "connecting" THEN "making"
  ELSE IF cm = "connected" THEN "on" ELSE "off"

Promise == INSTANCE ConnectionPromise WITH
  phase   <- Phase,
  target  <- IF Phase \in {"making", "on"} THEN cmTarget ELSE None,
  session <- IF client = None THEN None ELSE sshConn,
  links   <- {host[s] : s \in Sessions} \ {None},
  tunnel  <- portHeld,
  channel <- open # {}

\* Connecting and disconnecting keep that promise at every await, and not only when
\* the calls have returned: no step makes a part before the one that carries it, or
\* to another Pi, drops a part before what it carries, or announces half of a
\* connection, whatever fails and whatever the network does.
PromiseKept == Promise!PromiseSpec

\* A call that has been accepted comes to an end, or to a question to the user,
\* unless a statistics stream keeps the channel it shuts down from draining.
CallsSettle ==
  \A k \in Calls :
    pc[k] # "idle" ~>
      \/ pc[k] \in {"idle", "ask-install", "ask-forward", "l-ask-install", "l-ask-forward"}
      \/ stats = "streaming" /\ statsChan = on[k]

---------------------------------------------------------------------------
(* What the repository says of itself and the code does not do; each is    *)
(* refuted by a run of its own.                                            *)

\* "Provides atomic connect/disconnect operations with proper cleanup"
\* (connection_manager.dart:10): when every call has returned, the manager is not
\* left half way in its connecting state, which refuses every further connect().
NotLeftConnecting == Idle => cm # "connecting"
=============================================================================
