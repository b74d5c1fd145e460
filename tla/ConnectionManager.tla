------------------------- MODULE ConnectionManager -------------------------
(***************************************************************************)
(* ConnectionManager (lib/services/connection_manager.dart): connect,      *)
(* continueConnection and disconnect, which drive SSHService, GrpcService  *)
(* and the agent.                                                          *)
(*                                                                         *)
(* A call in flight has a slot k.  pc[k] names the await it is suspended   *)
(* in, and an action runs the code from that await to the next one.  Steps *)
(* that talk to the Pi send several commands over SSH: on[k] is the        *)
(* session the pending one was sent on.  A command can fail at any time;   *)
(* it can only succeed on a session that is up.                            *)
(***************************************************************************)
EXTENDS GrpcChannel

CONSTANTS Calls,   \* slots: how many user actions can be in flight at a time
          Faults   \* library calls that may throw: a subset of {"shutdown", "close"}

ASSUME FaultsAssumption == Faults \subseteq {"shutdown", "close"}

VARIABLES
  cm,         \* _state of the ConnectionManager
  cmTarget,   \* the connection inside a connecting or connected state
  cmConn,     \* its _currentConnection
  pc,         \* pc[k]: the await call k is suspended in
  arg,        \* arg[k]: the connection it was called with
  on,         \* on[k]: the session or channel its pending operation uses
  gone,       \* calls whose screen was left: context.mounted is false
  uiConn      \* currentConnectionProvider: the connection the screens show

managerVars == <<cm, cmTarget, cmConn>>
callVars == <<pc, arg, on, gone>>
vars == <<sshVars, grpcVars, managerVars, callVars, uiConn>>

ConnectPcs == {"pre-grpc", "pre-ssh", "pre-dial", "dial", "sudo", "agent", "running",
               "fwd", "start", "bind", "settle", "version", "fail-grpc", "fail-ssh"}
DisconnectPcs == {"off-grpc", "off-ssh"}

Goto(k, p, o) ==
  /\ pc' = [pc EXCEPT ![k] = p]
  /\ on' = [on EXCEPT ![k] = o]
  /\ UNCHANGED <<arg, gone>>

Finish(k) ==
  /\ pc' = [pc EXCEPT ![k] = "idle"]
  /\ on' = [on EXCEPT ![k] = None]
  /\ arg' = [arg EXCEPT ![k] = None]
  /\ gone' = gone \ {k}

Connecting(c) == cm' = "connecting" /\ cmTarget' = c /\ UNCHANGED cmConn

\* A session or channel object nobody refers to any more can stand for a new one.
Unused(x) == \A k \in Calls : on[k] # x

---------------------------------------------------------------------------
(* disconnect() *)

BeginDisconnect(k, next, c) ==
  /\ cm' = "disconnecting" /\ cmTarget' = None /\ UNCHANGED cmConn
  /\ ShutdownBegin
  /\ pc' = [pc EXCEPT ![k] = next]
  /\ on' = [on EXCEPT ![k] = chan]
  /\ arg' = [arg EXCEPT ![k] = c]
  /\ UNCHANGED <<gone, sshVars, uiConn>>

\* Called as the last thing a screen does.
ManagerDisconnect(k) ==
  \/ cm # "disconnected" /\ BeginDisconnect(k, "off-grpc", None)
  \/ cm = "disconnected" /\ Finish(k) /\ UNCHANGED <<sshVars, grpcVars, managerVars, uiConn>>

\* The state a disconnect ends in, before the call returns: idle for a screen's
\* disconnect, on to the dial for the one inside connect().
ReturnFromDisconnect(k) ==
  \/ pc[k] \in {"off-grpc", "off-ssh"} /\ Finish(k)
  \/ pc[k] \in {"pre-grpc", "pre-ssh"} /\ Goto(k, "pre-dial", None)

\* Mutant of DisconnectGrpcDone: disconnect() of SSHService waits before it has
\* stopped the timer and closed the tunnel.
DisconnectGrpcDoneSkipsClose(k) ==
  /\ pc[k] \in {"pre-grpc", "off-grpc"}
  /\ on[k] = None \/ Drained(on[k])
  /\ ShutdownEnd
  /\ Goto(k, IF pc[k] = "pre-grpc" THEN "pre-ssh" ELSE "off-ssh", None)
  /\ UNCHANGED <<sshVars, managerVars, uiConn>>

DisconnectGrpcDone(k) ==
  /\ pc[k] \in {"pre-grpc", "off-grpc"}
  /\ on[k] = None \/ Drained(on[k])
  /\ ShutdownEnd
  /\ CloseBegin
  /\ Goto(k, IF pc[k] = "pre-grpc" THEN "pre-ssh" ELSE "off-ssh", None)
  /\ UNCHANGED <<managerVars, uiConn>>

\* The catch of disconnect(): the SSH session is not disconnected any more.
DisconnectGrpcThrows(k) ==
  /\ "shutdown" \in Faults
  /\ pc[k] \in {"pre-grpc", "off-grpc"}
  /\ ShutdownThrows
  /\ cm' = "disconnected" /\ cmTarget' = None /\ UNCHANGED cmConn
  /\ ReturnFromDisconnect(k)
  /\ UNCHANGED <<sshVars, uiConn>>

DisconnectSshDone(k) ==
  /\ pc[k] \in {"pre-ssh", "off-ssh"}
  /\ CloseEnd \/ ("close" \in Faults /\ CloseThrows)
  /\ cm' = "disconnected" /\ cmTarget' = None /\ cmConn' = None
  /\ ReturnFromDisconnect(k)
  /\ UNCHANGED <<grpcVars, uiConn>>

---------------------------------------------------------------------------
(* _cleanupFailedConnection() and the catch blocks that call it *)

BeginCleanup(k) ==
  /\ ShutdownBegin
  /\ Goto(k, "fail-grpc", chan)
  /\ UNCHANGED <<managerVars, uiConn>>

CleanupGrpcDone(k) ==
  /\ pc[k] = "fail-grpc"
  /\ \/ (on[k] = None \/ Drained(on[k])) /\ ShutdownEnd
     \/ "shutdown" \in Faults /\ ShutdownThrows
  /\ CloseBegin
  /\ Goto(k, "fail-ssh", None)
  /\ UNCHANGED <<managerVars, uiConn>>

CleanupSshDone(k) ==
  /\ pc[k] = "fail-ssh"
  /\ CloseEnd \/ ("close" \in Faults /\ CloseThrows)
  /\ cm' = "error" /\ cmTarget' = None /\ UNCHANGED cmConn
  /\ Finish(k)
  /\ UNCHANGED <<grpcVars, uiConn>>

---------------------------------------------------------------------------
(* connect(connection) *)

Dial(k, c) ==
  /\ Connecting(c)
  /\ DialBegin(c)
  /\ pc' = [pc EXCEPT ![k] = "dial"]
  /\ on' = [on EXCEPT ![k] = None]
  /\ arg' = [arg EXCEPT ![k] = c]
  /\ UNCHANGED <<gone, grpcVars, uiConn>>

\* Mutant of ManagerConnect: another connection is not disconnected first.
ManagerConnectOver(k, c) ==
  /\ cm # "connecting"
  /\ ~(cm = "connected" /\ cmTarget = c)
  /\ Dial(k, c)

\* The guards, then the dial, or the disconnect from another connection.
ManagerConnect(k, c) ==
  /\ cm # "connecting"
  /\ \/ cm # "connected" /\ Dial(k, c)
     \/ cm = "connected" /\ cmTarget # c /\ BeginDisconnect(k, "pre-grpc", c)

DialAfterDisconnect(k) ==
  /\ pc[k] = "pre-dial"
  /\ Dial(k, arg[k])

Dialed(k, s) ==
  /\ pc[k] = "dial"
  /\ Unused(s) /\ statsOn # s
  /\ DialOk(s, arg[k])
  /\ Connecting(arg[k])
  /\ Goto(k, "sudo", s)
  /\ UNCHANGED <<grpcVars, uiConn>>

DialFailed(k) ==
  /\ pc[k] = "dial"
  /\ DialFail
  /\ BeginCleanup(k)

SudoOk(k) ==
  /\ pc[k] = "sudo"
  /\ Up(on[k])
  /\ Connecting(arg[k])
  /\ Goto(k, "agent", client)
  /\ UNCHANGED <<sshVars, grpcVars, uiConn>>

\* Mutant of SudoFailed: an exception of the dead session is not caught.
SudoFailedUncaught(k) ==
  /\ pc[k] = "sudo"
  /\ Up(on[k])
  /\ BeginCleanup(k)
  /\ UNCHANGED sshVars

SudoFailed(k) ==
  /\ pc[k] = "sudo"
  /\ BeginCleanup(k)
  /\ UNCHANGED sshVars

\* The agent's version came back: it is installed.
AgentFound(k) ==
  /\ pc[k] = "agent"
  /\ Up(on[k])
  /\ Goto(k, "running", client)
  /\ UNCHANGED <<sshVars, grpcVars, managerVars, uiConn>>

\* Whether it runs is asked, and the answer, or the failure, is not used.
AgentInstalled(k) ==
  /\ pc[k] = "running"
  /\ Connecting(arg[k])
  /\ Goto(k, "fwd", client)
  /\ UNCHANGED <<sshVars, grpcVars, uiConn>>

\* Not installed, or the check failed: connect() returns agentSetupRequired in
\* its connecting state and the screen asks the user, unless it was left.
AgentMissing(k) ==
  /\ pc[k] = "agent"
  /\ \/ k \notin gone /\ Goto(k, "ask-install", None)
     \/ k \in gone /\ Finish(k)
  /\ UNCHANGED <<sshVars, grpcVars, managerVars, uiConn>>

\* Enabled, not configured, or the check failed.
ForwardingOk(k) ==
  /\ pc[k] = "fwd"
  /\ Goto(k, "start", client)
  /\ UNCHANGED <<sshVars, grpcVars, managerVars, uiConn>>

ForwardingDisabled(k) ==
  /\ pc[k] = "fwd"
  /\ Up(on[k])
  /\ \/ k \notin gone /\ Goto(k, "ask-forward", None)
     \/ k \in gone /\ Finish(k)
  /\ UNCHANGED <<sshVars, grpcVars, managerVars, uiConn>>

\* startAgent() returned; forwardLocal() needs a client.
AgentStarted(k) ==
  /\ pc[k] = "start"
  /\ Up(on[k])
  /\ BindBegin
  /\ Goto(k, "bind", None)
  /\ UNCHANGED <<grpcVars, managerVars, uiConn>>

\* startAgent() threw, or there is no client for the tunnel.
StartFailed(k) ==
  /\ pc[k] = "start"
  /\ BeginCleanup(k)
  /\ UNCHANGED sshVars

TunnelBound(k) ==
  /\ pc[k] = "bind"
  /\ BindOk
  /\ Goto(k, "settle", None)
  /\ UNCHANGED <<grpcVars, managerVars, uiConn>>

TunnelFailed(k) ==
  /\ pc[k] = "bind"
  /\ BindFail
  /\ BeginCleanup(k)

\* The 800 ms are over.
GrpcConnected(k, ch) ==
  /\ pc[k] = "settle"
  /\ Unused(ch)
  /\ GrpcConnect(ch)
  /\ Connecting(arg[k])
  /\ Goto(k, "version", None)
  /\ UNCHANGED <<sshVars, uiConn>>

\* Mutant of VersionFetched: the manager's own connection is not set.
VersionFetchedForgets(k) ==
  /\ pc[k] = "version"
  /\ cm' = "connected" /\ cmTarget' = arg[k] /\ UNCHANGED cmConn
  /\ uiConn' = IF k \in gone THEN uiConn ELSE arg[k]
  /\ Finish(k)
  /\ UNCHANGED <<sshVars, grpcVars>>

\* getVersion() answered or failed: either way the connection is made.  The
\* calling screen shows it, or throws when it was left (its ref is disposed).
VersionFetched(k) ==
  /\ pc[k] = "version"
  /\ cm' = "connected" /\ cmTarget' = arg[k] /\ cmConn' = arg[k]
  /\ uiConn' = IF k \in gone THEN uiConn ELSE arg[k]
  /\ Finish(k)
  /\ UNCHANGED <<sshVars, grpcVars>>

\* Operations made of several commands go on with whatever client is current.
NextCommand(k) ==
  /\ pc[k] \in {"sudo", "start", "enable", "l-sudo", "l-enable", "l-start"}
  /\ on[k] # client
  /\ on' = [on EXCEPT ![k] = client]
  /\ UNCHANGED <<pc, arg, gone, sshVars, grpcVars, managerVars, uiConn>>

---------------------------------------------------------------------------
(* continueConnection(), for whichever connection the state holds by now *)

\* Mutants of ManagerContinue: it continues with the manager's connection instead
\* of the state's; it takes the client for the connection.
ManagerContinueOther(k) ==
  \/ /\ cm = "connecting"
     /\ pc' = [pc EXCEPT ![k] = "start"]
     /\ on' = [on EXCEPT ![k] = client]
     /\ arg' = [arg EXCEPT ![k] = cmConn]
     /\ UNCHANGED gone
  \/ cm # "connecting" /\ Finish(k)

ManagerContinueClient(k) ==
  \/ /\ cm = "connecting"
     /\ pc' = [pc EXCEPT ![k] = "start"]
     /\ on' = [on EXCEPT ![k] = client]
     /\ arg' = [arg EXCEPT ![k] = client]
     /\ UNCHANGED gone
  \/ cm # "connecting" /\ Finish(k)

ManagerContinue(k) ==
  \/ /\ cm = "connecting"
     /\ pc' = [pc EXCEPT ![k] = "start"]
     /\ on' = [on EXCEPT ![k] = client]
     /\ arg' = [arg EXCEPT ![k] = cmTarget]
     /\ UNCHANGED gone
  \/ cm # "connecting" /\ Finish(k)

ManagerStep(k) ==
  \/ DisconnectGrpcDone(k) \/ DisconnectGrpcThrows(k) \/ DisconnectSshDone(k)
  \/ CleanupGrpcDone(k) \/ CleanupSshDone(k)
  \/ DialAfterDisconnect(k)
  \/ \E s \in Sessions : Dialed(k, s)
  \/ DialFailed(k) \/ SudoOk(k) \/ SudoFailed(k)
  \/ AgentFound(k) \/ AgentInstalled(k) \/ AgentMissing(k)
  \/ ForwardingOk(k) \/ ForwardingDisabled(k) \/ AgentStarted(k) \/ StartFailed(k)
  \/ TunnelBound(k) \/ TunnelFailed(k)
  \/ \E ch \in Channels : GrpcConnected(k, ch)
  \/ VersionFetched(k) \/ NextCommand(k)
=============================================================================
