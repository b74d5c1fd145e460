---------------------------- MODULE SerialProofs ----------------------------
(***************************************************************************)
(* Proofs about ConnectionSystem used one action at a time through the     *)
(* ConnectionManager (SerialUse), with library calls that do not throw:    *)
(* connect and disconnect leave all of a connection, or nothing of it.     *)
(***************************************************************************)
EXTENDS ConnectionProofs

\* The steps of ConnectionManager's methods keep the phases of the one call.
LEMMA ManagerStepSerial ==
  ASSUME SerialUse, TypeOK, GuardsInv, SerialInv, NEW k \in Calls, ManagerStep(k)
  PROVE  SerialInv'
<1> USE NoneAssumption, ChannelsAssumption DEF SerialUse, TypeOK, SshTypeOK, GrpcTypeOK, GuardsInv,
  SerialInv, OneCallInv, ResourcesInv, RestInv, ShuttingDown, PhaseInv, SessionTo, NoSession,
  NoChannel, Idle, ConnectPcs, DisconnectPcs, ScreenPcs
<1>1. CASE DisconnectGrpcDone(k)
  <2>1. /\ pc[k] \in {"pre-grpc", "off-grpc"} /\ ShuttingDown /\ open = {}
        /\ pc' = [pc EXCEPT ![k] = pc'[k]] /\ pc'[k] \in {"pre-ssh", "off-ssh"}
    BY <1>1 DEF DisconnectGrpcDone, Goto
  <2>2. /\ chan' = None /\ open' = open
        /\ tunnel' # "bound" /\ portHeld' = FALSE /\ client' = client /\ host' = host
        /\ UNCHANGED managerVars
    BY <1>1 DEF DisconnectGrpcDone, ShutdownEnd, CloseBegin, TunnelDown
  <2>3. \A j \in Calls \ {k} : pc[j] = "idle" /\ pc'[j] = "idle"
    BY <2>1
  <2>4. ~Idle' /\ OneCallInv'
    BY <2>1, <2>3
  <2>5. ResourcesInv'
    BY <2>1, <2>2, <2>3
  <2>6. \A j \in Calls : PhaseInv(j)'
    BY <2>1, <2>2, <2>3
  <2> QED
    BY <2>4, <2>5, <2>6
<1>2. CASE DisconnectGrpcThrows(k)
  BY <1>2 DEF DisconnectGrpcThrows, Finish, Goto, ReturnFromDisconnect, ShutdownThrows, grpcVars,
    sshVars
<1>3. CASE DisconnectSshDone(k)
  BY <1>3 DEF DisconnectSshDone, CloseEnd, CloseThrows, Finish, Goto, ReturnFromDisconnect,
    grpcVars, sshVars
<1>4. CASE CleanupGrpcDone(k)
  <2>1. /\ pc[k] \in {"fail-grpc"} /\ ShuttingDown /\ open = {}
        /\ pc' = [pc EXCEPT ![k] = pc'[k]] /\ pc'[k] \in {"fail-ssh"}
    BY <1>4 DEF CleanupGrpcDone, Goto
  <2>2. /\ chan' = None /\ open' = open
        /\ tunnel' # "bound" /\ portHeld' = FALSE /\ client' = client /\ host' = host
        /\ UNCHANGED managerVars
    BY <1>4 DEF CleanupGrpcDone, ShutdownEnd, CloseBegin, TunnelDown
  <2>3. \A j \in Calls \ {k} : pc[j] = "idle" /\ pc'[j] = "idle"
    BY <2>1
  <2>4. ~Idle' /\ OneCallInv'
    BY <2>1, <2>3
  <2>5. ResourcesInv'
    BY <2>1, <2>2, <2>3
  <2>6. \A j \in Calls : PhaseInv(j)'
    BY <2>1, <2>2, <2>3
  <2> QED
    BY <2>4, <2>5, <2>6
<1>5. CASE CleanupSshDone(k)
  BY <1>5 DEF CleanupSshDone, CloseEnd, CloseThrows, Finish, grpcVars, sshVars
<1>6. CASE DialAfterDisconnect(k)
  BY <1>6 DEF DialAfterDisconnect, Connecting, Dial, DialBegin, grpcVars
<1>7. ASSUME NEW s \in Sessions, Dialed(k, s) PROVE SerialInv'
  BY <1>7 DEF Dialed, Connecting, DialOk, Goto, Up, grpcVars
<1>8. CASE DialFailed(k)
  BY <1>8 DEF DialFailed, BeginCleanup, DialFail, Goto, ShutdownBegin, managerVars
<1>9. CASE SudoOk(k)
  BY <1>9 DEF SudoOk, Connecting, Goto, Up, grpcVars, sshVars
<1>10. CASE SudoFailed(k)
  BY <1>10 DEF SudoFailed, BeginCleanup, Goto, ShutdownBegin, managerVars, sshVars
<1>11. CASE AgentFound(k)
  BY <1>11 DEF AgentFound, Goto, Up, grpcVars, managerVars, sshVars
<1>12. CASE AgentInstalled(k)
  BY <1>12 DEF AgentInstalled, Connecting, Goto, Up, grpcVars, sshVars
<1>13. CASE AgentMissing(k)
  BY <1>13 DEF AgentMissing, Finish, Goto, grpcVars, managerVars, sshVars
<1>14. CASE ForwardingOk(k)
  BY <1>14 DEF ForwardingOk, Goto, grpcVars, managerVars, sshVars
<1>15. CASE ForwardingDisabled(k)
  BY <1>15 DEF ForwardingDisabled, Finish, Goto, Up, grpcVars, managerVars, sshVars
<1>16. CASE AgentStarted(k)
  <2>1. /\ pc[k] = "start" /\ pc' = [pc EXCEPT ![k] = "bind"]
        /\ UNCHANGED <<arg, chan, open, client, host, sshConn>> /\ UNCHANGED managerVars
    BY <1>16 DEF AgentStarted, Goto, BindBegin, grpcVars
  <2>2. tunnel = "none" /\ tunnel' = "none" /\ portHeld' = FALSE
    BY <1>16, <2>1 DEF AgentStarted, BindBegin, TunnelDown
  <2>3. \A j \in Calls \ {k} : pc[j] = "idle" /\ pc'[j] = "idle"
    BY <2>1
  <2>4. ~Idle' /\ OneCallInv'
    BY <2>1, <2>3
  <2>5. ResourcesInv'
    BY <2>1, <2>2, <2>3
  <2>6. \A j \in Calls : PhaseInv(j)'
    BY <2>1, <2>2, <2>3 DEF managerVars
  <2> QED
    BY <2>4, <2>5, <2>6
<1>17. CASE StartFailed(k)
  BY <1>17 DEF StartFailed, BeginCleanup, Goto, ShutdownBegin, managerVars, sshVars
<1>18. CASE TunnelBound(k)
  <2>1. /\ pc[k] = "bind" /\ pc' = [pc EXCEPT ![k] = "settle"]
        /\ UNCHANGED <<arg, chan, open, client, host, sshConn>> /\ UNCHANGED managerVars
    BY <1>18 DEF TunnelBound, Goto, BindOk, grpcVars
  <2>2. tunnel' = "bound" /\ portHeld' = TRUE
    BY <1>18, <2>1 DEF TunnelBound, BindOk
  <2>3. \A j \in Calls \ {k} : pc[j] = "idle" /\ pc'[j] = "idle"
    BY <2>1
  <2>4. ~Idle' /\ OneCallInv'
    BY <2>1, <2>3
  <2>5. ResourcesInv'
    BY <2>1, <2>2, <2>3
  <2>6. \A j \in Calls : PhaseInv(j)'
    BY <2>1, <2>2, <2>3 DEF managerVars
  <2> QED
    BY <2>4, <2>5, <2>6
<1>19. CASE TunnelFailed(k)
  BY <1>19 DEF TunnelFailed, BeginCleanup, BindFail, Goto, ShutdownBegin, managerVars, sshVars
<1>20. ASSUME NEW ch \in Channels, GrpcConnected(k, ch) PROVE SerialInv'
  BY <1>20 DEF GrpcConnected, Connecting, Goto, GrpcConnect, sshVars
<1>21. CASE VersionFetched(k)
  BY <1>21 DEF VersionFetched, Finish, grpcVars, sshVars
<1>22. CASE NextCommand(k)
  BY <1>22 DEF NextCommand, grpcVars, managerVars, sshVars
<1> QED BY <1>1, <1>2, <1>3, <1>4, <1>5, <1>6, <1>7, <1>8, <1>9, <1>10, <1>11, <1>12, <1>13,
  <1>14, <1>15, <1>16, <1>17, <1>18, <1>19, <1>20, <1>21, <1>22 DEF ManagerStep

\* So do the steps of the connections screen.
LEMMA ScreenStepSerial ==
  ASSUME SerialUse, TypeOK, GuardsInv, SerialInv, NEW k \in Calls, ScreenStep(k)
  PROVE  SerialInv'
<1> USE NoneAssumption, ChannelsAssumption DEF SerialUse, TypeOK, SshTypeOK, GrpcTypeOK, GuardsInv,
  SerialInv, OneCallInv, ResourcesInv, RestInv, ShuttingDown, PhaseInv, SessionTo, NoSession,
  NoChannel, Idle, ConnectPcs, DisconnectPcs, ScreenPcs
<1>1. CASE LeaveScreen(k)
  BY <1>1 DEF LeaveScreen, grpcVars, managerVars, sshVars
<1>2. CASE AcceptInstall(k)
  BY <1>2 DEF AcceptInstall, Goto, grpcVars, managerVars, sshVars
<1>3. CASE Decline(k)
  BY <1>3 DEF Decline, BeginDisconnect, Finish, ManagerDisconnect, ShutdownBegin, grpcVars,
    managerVars, sshVars
<1>4. CASE InstallDone(k)
  BY <1>4 DEF InstallDone, Finish, ManagerContinue, grpcVars, managerVars, sshVars
<1>5. CASE AcceptForwarding(k)
  BY <1>5 DEF AcceptForwarding, Finish, Goto, IsConnected, grpcVars, managerVars, sshVars
<1>6. CASE ForwardingEnabled(k)
  BY <1>6 DEF ForwardingEnabled, Finish, ManagerContinue, Up, grpcVars, managerVars, sshVars
<1>7. CASE EnableFailed(k)
  BY <1>7 DEF EnableFailed, Finish, grpcVars, managerVars, sshVars
<1> QED BY <1>1, <1>2, <1>3, <1>4, <1>5, <1>6, <1>7 DEF ScreenStep

\* So does what the user can start: it starts when nothing is in flight.
LEMMA UserStartsSerial ==
  ASSUME SerialUse, TypeOK, GuardsInv, SerialInv, NEW k \in Calls, UserStarts(k)
  PROVE  SerialInv'
<1> USE NoneAssumption, ChannelsAssumption DEF SerialUse, TypeOK, SshTypeOK, GrpcTypeOK, GuardsInv,
  SerialInv, OneCallInv, ResourcesInv, RestInv, ShuttingDown, PhaseInv, SessionTo, NoSession,
  NoChannel, Idle, ConnectPcs, DisconnectPcs, ScreenPcs
<1>1. Idle
  BY DEF UserStarts
<1>2. ASSUME NEW c \in Conns, TapConnect(k, c) PROVE SerialInv'
  <2>1. CASE cm = "connected"
    <3>1. /\ pc' = [pc EXCEPT ![k] = "pre-grpc"]
          /\ chan' = chan /\ open' = open \ {chan} /\ UNCHANGED sshVars
      BY <1>2, <2>1 DEF TapConnect, ManagerConnect, BeginDisconnect, ShutdownBegin
    <3>2. OneCallInv' /\ ShuttingDown' /\ ~Idle'
      BY <1>1, <3>1
    <3>3. open' = {}
      BY <1>1, <3>1
    <3>4. ResourcesInv'
      BY <3>1, <3>2, <3>3 DEF sshVars
    <3>5. \A j \in Calls : PhaseInv(j)'
      BY <1>1, <3>1, <3>3
    <3> QED
      BY <3>2, <3>4, <3>5
  <2>2. CASE cm # "connected"
    <3>1. /\ pc' = [pc EXCEPT ![k] = "dial"] /\ arg' = [arg EXCEPT ![k] = c]
          /\ UNCHANGED <<chan, open, client, tunnel, portHeld, host>>
          /\ sshConn' = c /\ cm' = "connecting" /\ cmTarget' = c
      BY <1>2, <2>2
      DEF TapConnect, ManagerConnect, Dial, Connecting, DialBegin, grpcVars
    <3>2. NoSession /\ NoChannel
      BY <1>1, <1>2, <2>2 DEF TapConnect, CMState
    <3>3. OneCallInv' /\ ~ShuttingDown' /\ ~Idle' /\ ~ShuttingDown
      BY <1>1, <3>1
    <3>4. ResourcesInv'
      BY <3>1, <3>3
    <3>5. \A j \in Calls : PhaseInv(j)'
      BY <1>1, <3>1, <3>2
    <3> QED
      BY <3>3, <3>4, <3>5
  <2> QED
    BY <2>1, <2>2
<1>3. CASE UserDisconnect(k)
  BY <1>1, <1>3 DEF UserDisconnect, Goto, ShutdownBegin, sshVars
<1>4. CASE UserDisconnectIgnored(k)
  BY <1>1, <1>4 DEF callVars, UserDisconnectIgnored, grpcVars, managerVars, sshVars
<1> QED BY <1>2, <1>3, <1>4 DEF UserStarts

\* So do the keepalive, the network and the statistics stream: a lost transport
\* is the current session's, or none's.
LEMMA BackgroundSerial ==
  ASSUME SerialUse, TypeOK, GuardsInv, SerialInv, Background
  PROVE  SerialInv'
<1> USE DEF TypeOK, SshTypeOK, GrpcTypeOK, SerialInv, OneCallInv, ResourcesInv, RestInv,
  ShuttingDown, PhaseInv, SessionTo, NoSession, NoChannel, Idle, ConnectPcs, DisconnectPcs,
  ScreenPcs
<1>1. CASE Keepalive
  BY <1>1 DEF Keepalive, KeepaliveSend, KeepaliveStops, PingDone, PingClosed,
    grpcVars, managerVars, callVars
<1>2. CASE Network
  BY <1>2 DEF Network, LinkDrop, Up, grpcVars, managerVars, callVars
<1>3. CASE Stats
  BY <1>3 DEF Stats, StatsListen, StatsStart, StatsGivesUp, StatsBreaks, Up, sshVars,
    managerVars, callVars
<1> QED BY <1>1, <1>2, <1>3 DEF Background

\* The login screen and the reconnect have no call in flight.
LEMMA NoOtherCalls ==
  ASSUME SerialInv, NEW k \in Calls
  PROVE  ~LoginStep(k) /\ ~ResumeStep(k)
BY DEF SerialInv, OneCallInv, ConnectPcs, DisconnectPcs, ScreenPcs, LoginStep, ResumeStep,
  LoginDialed, LoginRedialed, LoginGrpcConnected, LoginDialFailed, LoginSudoOk, LoginSudoFailed,
  LoginAgentFound, LoginAgentInstalled, LoginAgentMissing, LoginAccepts, LoginDeclines, LoginInstallDone,
  LoginForwardingOk, LoginForwardingDisabled, LoginEnabled, LoginReplaces, LoginEnableFailed, LoginClosed,
  LoginRedials, LoginRedialFailed, LoginAgentStarted, LoginStartFailed, LoginTunnelBound,
  LoginTunnelFailed, LoginLeftBeforeGrpc, LoginVersionFetched, ResumeClosed, ResumeThrows,
  ResumeDials, ResumeDialed, ResumeFailed

\* Every phase of connect, continueConnection and disconnect has what it needs and
\* leaves what the next one expects.
THEOREM SerialPhases == ASSUME SerialUse PROVE Spec => []SerialInv
<1>1. Init => SerialInv
  BY DEF Init, SshInit, GrpcInit, TypeOK, SshTypeOK, GrpcTypeOK, GuardsInv, SerialInv, OneCallInv,
    ResourcesInv, RestInv, ShuttingDown, PhaseInv, SessionTo, NoSession, NoChannel, Idle,
    ConnectPcs, DisconnectPcs, ScreenPcs
<1>2. TypeOK /\ GuardsInv /\ SerialInv /\ [Next]_vars => SerialInv'
  <2> SUFFICES ASSUME TypeOK, GuardsInv, SerialInv, [Next]_vars PROVE SerialInv'
    OBVIOUS
  <2>1. ASSUME NEW k \in Calls, UserStarts(k) PROVE SerialInv'
    BY <2>1, UserStartsSerial
  <2>2. ASSUME NEW k \in Calls, CallStep(k) PROVE SerialInv'
    BY <2>2, ManagerStepSerial, ScreenStepSerial, NoOtherCalls DEF CallStep
  <2>3. CASE Background
    BY <2>3, BackgroundSerial
  <2>4. CASE UNCHANGED vars
    BY <2>4 DEF vars, sshVars, grpcVars, managerVars, callVars, TypeOK, SshTypeOK, GrpcTypeOK,
      GuardsInv, SerialInv, OneCallInv, ResourcesInv, RestInv, ShuttingDown, PhaseInv, SessionTo,
      NoSession, NoChannel, Idle, ConnectPcs, DisconnectPcs, ScreenPcs
  <2> QED
    BY <2>1, <2>2, <2>3, <2>4 DEF Next
<1> QED
  BY <1>1, <1>2, TypeCorrect, GuardsInvariant, PTL DEF Spec

\* Proper cleanup (connection_manager.dart:10, 378-414): when a connection attempt
\* has failed, or a disconnect has ended, no session, channel, tunnel or port is
\* left, whatever step it failed in and whatever the network did meanwhile.
THEOREM CleanupIsComplete == ASSUME SerialUse PROVE Spec => []Released
<1>1. ASSUME TypeOK, SerialInv, Idle, cm \in {"disconnected", "error"}
      PROVE  /\ client = None /\ \A s \in Sessions : host[s] = None
             /\ chan = None /\ open = {}
             /\ tunnel = "none" /\ ~portHeld
  <2>1. NoSession /\ NoChannel /\ ResourcesInv
    BY <1>1 DEF SerialInv, RestInv
  <2>2. ~portHeld
    BY <1>1, <2>1 DEF ResourcesInv, NoSession
  <2>3. \A s \in Sessions : host[s] = None
    BY <2>1, NoneAssumption DEF ResourcesInv, NoSession
  <2> QED
    BY <2>1, <2>2, <2>3 DEF NoSession, NoChannel
<1>2. TypeOK /\ SerialInv => Released
  BY <1>1 DEF Released
<1> QED
  BY <1>2, TypeCorrect, SerialPhases, PTL

\* Atomic connect (connection_manager.dart:10, 193-203): a connected manager has
\* one session, to the Pi it names, one channel, and the tunnel between them.
THEOREM ConnectIsComplete == ASSUME SerialUse PROVE Spec => []Usable
<1>1. TypeOK /\ SerialInv => Usable
  BY NoneAssumption DEF Usable, TypeOK, SshTypeOK, GrpcTypeOK, GuardsInv, SerialInv, OneCallInv,
    ResourcesInv, RestInv, ShuttingDown, PhaseInv, SessionTo, NoSession, NoChannel, Idle,
    ConnectPcs, DisconnectPcs, ScreenPcs
<1> QED
  BY <1>1, TypeCorrect, SerialPhases, PTL

---------------------------------------------------------------------------
(* Connecting and disconnecting implement ConnectionPromise               *)

PromiseStep == [Promise!PromiseNext]_(Promise!promiseVars)

\* With one call in flight, that call alone decides whether a connection is undone.
LEMMA UndoingOfCall ==
  ASSUME TypeOK, OneCallInv, NEW k \in Calls, pc[k] # "idle" \/ Idle,
         \A j \in Calls \ {k} : pc'[j] = pc[j]
  PROVE  (Undoing <=> pc[k] \in UndoingPcs) /\ (Undoing' <=> pc'[k] \in UndoingPcs)
<1>1. \A j \in Calls \ {k} : pc[j] = "idle" /\ pc'[j] = "idle"
  BY DEF OneCallInv, Idle
<1> QED
  BY <1>1 DEF Undoing, UndoingPcs

\* What leaves the parts of the connection alone is no step of the promise.
LEMMA QuietStep ==
  ASSUME Undoing' <=> Undoing, UNCHANGED <<cm, cmTarget, client, sshConn, host, portHeld, open>>
  PROVE  PromiseStep
<1>1. Phase' = Phase
  BY DEF Phase
<1> QED
  BY <1>1 DEF PromiseStep, Promise!promiseVars

\* An undoing begins: the channel is shut down with it.
LEMMA BeginsUndoing ==
  ASSUME TypeOK, ResourcesInv, ~Undoing, Undoing', ~ShuttingDown, ShutdownBegin, UNCHANGED sshVars
  PROVE  PromiseStep
<1>1. Phase # "undoing" /\ Phase' = "undoing"
  BY DEF Phase
<1>2. open' = {}
  BY DEF ResourcesInv, ShutdownBegin
<1>3. Promise!Undo
  BY <1>1, <1>2 DEF Promise!Undo, sshVars
<1> QED
  BY <1>3 DEF PromiseStep, Promise!PromiseNext

\* The tunnel is closed when the channel has ended, or there is none.
LEMMA ClosesTunnel ==
  ASSUME TypeOK, ResourcesInv, Undoing, Undoing', CloseBegin, open' = open
  PROVE  PromiseStep
<1>1. Phase = "undoing" /\ Phase' = "undoing"
  BY DEF Phase
<1>2. portHeld' = FALSE /\ UNCHANGED <<client, sshConn, host>>
  BY DEF CloseBegin, TunnelDown, ResourcesInv, TypeOK, SshTypeOK
<1>3. CASE portHeld
  <2>1. Promise!UndoTunnel
    BY <1>1, <1>2, <1>3 DEF Promise!UndoTunnel
  <2> QED
    BY <2>1 DEF PromiseStep, Promise!PromiseNext
<1>4. CASE ~portHeld
  BY <1>1, <1>2, <1>4 DEF PromiseStep, Promise!promiseVars, TypeOK, SshTypeOK
<1> QED
  BY <1>3, <1>4

\* The session is closed last, and nothing is left.
LEMMA ClosesSession ==
  ASSUME TypeOK, ResourcesInv, Undoing, ~Undoing', NoChannel, tunnel # "bound", CloseEnd,
         UNCHANGED grpcVars, cm' \in {"disconnected", "error"}
  PROVE  PromiseStep
<1>1. Phase = "undoing" /\ Phase' = "off"
  BY DEF Phase
<1>2. ~portHeld /\ ~portHeld' /\ portHeld' = portHeld /\ open = {} /\ open' = {} /\ client' = None
  BY DEF CloseEnd, ResourcesInv, NoChannel, grpcVars, TypeOK, SshTypeOK
<1>3. \A s \in Sessions : host'[s] = None
  BY DEF CloseEnd, ResourcesInv, TypeOK, SshTypeOK
<1>4. Promise!Undone
  BY <1>1, <1>2, <1>3 DEF Promise!Undone
<1> QED
  BY <1>4 DEF PromiseStep, Promise!PromiseNext

\* A dial begins when nothing is left of another connection.
LEMMA BeginsDial ==
  ASSUME TypeOK, ~Undoing, ~Undoing', cm \in {"disconnected", "error"}, NoSession, NoChannel,
         NEW c \in Conns, NEW k \in Calls, Dial(k, c)
  PROVE  PromiseStep
<1>1. Phase = "off" /\ Phase' = "making" /\ cmTarget' = c
  BY DEF Phase, Dial, Connecting
<1>2. UNCHANGED <<client, host, portHeld, open>> /\ client = None
  BY DEF Dial, DialBegin, NoSession, grpcVars
<1>3. Promise!Begin(c)
  BY <1>1, <1>2, NoneAssumption DEF Promise!Begin
<1> QED
  BY <1>3 DEF PromiseStep, Promise!PromiseNext

\* The steps of ConnectionManager's methods keep the promise.
LEMMA ManagerStepPromise ==
  ASSUME SerialUse, TypeOK, GuardsInv, SerialInv, NEW k \in Calls, ManagerStep(k)
  PROVE  PromiseStep
<1> USE DEF SerialUse, ConnectPcs
<1>a. OneCallInv /\ ResourcesInv /\ PhaseInv(k)
  BY DEF SerialInv
<1>b. ASSUME pc[k] # "idle", pc[k] \notin UndoingPcs
      PROVE  ~Undoing /\ ~ShuttingDown
  BY <1>b, <1>a DEF OneCallInv, Undoing, UndoingPcs, ShuttingDown
<1>c. ASSUME pc[k] # "idle", \A j \in Calls \ {k} : pc'[j] = pc[j]
      PROVE  (Undoing <=> pc[k] \in UndoingPcs) /\ (Undoing' <=> pc'[k] \in UndoingPcs)
  BY <1>c, <1>a, UndoingOfCall
<1>1. CASE DisconnectGrpcDone(k) \/ CleanupGrpcDone(k)
  <2>1. pc'[k] \in {"pre-ssh", "off-ssh", "fail-ssh"} /\ \A j \in Calls \ {k} : pc'[j] = pc[j]
    BY <1>1 DEF TypeOK, DisconnectGrpcDone, CleanupGrpcDone, Goto
  <2>2. Undoing /\ Undoing'
    BY <1>1, <1>c, <2>1 DEF DisconnectGrpcDone, CleanupGrpcDone, UndoingPcs
  <2>3. CloseBegin /\ open' = open
    BY <1>1 DEF DisconnectGrpcDone, CleanupGrpcDone, ShutdownEnd
  <2> QED
    BY <1>a, <2>2, <2>3, ClosesTunnel
<1>2. CASE DisconnectSshDone(k) \/ CleanupSshDone(k)
  <2>1. pc'[k] \in {"idle", "pre-dial"} /\ \A j \in Calls \ {k} : pc'[j] = pc[j]
    BY <1>2 DEF TypeOK, DisconnectSshDone, CleanupSshDone, ReturnFromDisconnect, Goto, Finish
  <2>2. Undoing /\ ~Undoing'
    BY <1>2, <1>c, <2>1 DEF DisconnectSshDone, CleanupSshDone, UndoingPcs
  <2>3. CloseEnd /\ UNCHANGED grpcVars /\ cm' \in {"disconnected", "error"}
    BY <1>2 DEF DisconnectSshDone, CleanupSshDone
  <2>4. NoChannel /\ tunnel # "bound"
    BY <1>2, <1>a DEF DisconnectSshDone, CleanupSshDone, PhaseInv
  <2> QED
    BY <1>a, <2>2, <2>3, <2>4, ClosesSession
<1>3. CASE DialAfterDisconnect(k)
  <2>1. pc[k] = "pre-dial" /\ pc'[k] = "dial" /\ \A j \in Calls \ {k} : pc'[j] = pc[j]
    BY <1>3 DEF TypeOK, DialAfterDisconnect, Dial
  <2>2. ~Undoing /\ ~Undoing'
    BY <1>c, <2>1 DEF UndoingPcs
  <2>3. arg[k] \in Conns /\ cm = "disconnected" /\ NoSession /\ NoChannel
    BY <1>a, <2>1 DEF PhaseInv, GuardsInv, TypeOK
  <2> QED
    BY <1>3, <2>2, <2>3, BeginsDial DEF DialAfterDisconnect
<1>4. ASSUME NEW s \in Sessions, Dialed(k, s) PROVE PromiseStep
  <2>1. pc[k] = "dial" /\ pc'[k] = "sudo" /\ \A j \in Calls \ {k} : pc'[j] = pc[j]
    BY <1>4 DEF TypeOK, Dialed, Goto
  <2>2. ~Undoing /\ ~Undoing'
    BY <1>c, <2>1 DEF UndoingPcs
  <2>3. /\ cm = "connecting" /\ cmTarget = arg[k] /\ sshConn = arg[k] /\ arg[k] # None
        /\ NoSession /\ NoChannel
    BY <1>a, <2>1 DEF PhaseInv, GuardsInv
  <2>4. /\ cm' = "connecting" /\ cmTarget' = arg[k] /\ sshConn' = arg[k] /\ client' = s
        /\ portHeld' = portHeld /\ open' = open
    BY <1>4, <2>3 DEF Dialed, DialOk, Connecting, grpcVars
  <2>5. Phase = "making" /\ Phase' = "making"
    BY <2>2, <2>3, <2>4 DEF Phase
  <2>6. ~portHeld /\ open = {} /\ client = None /\ \A t \in Sessions : host[t] = None
    BY <1>a, <2>3, NoneAssumption DEF ResourcesInv, NoSession, NoChannel
  <2>7. \A t \in Sessions : host'[t] = IF t = s THEN arg[k] ELSE None
    BY <1>4, <2>6 DEF Dialed, DialOk, TypeOK, SshTypeOK
  <2>8. {host'[t] : t \in Sessions} \ {None} = {arg[k]}
    BY <2>3, <2>7
  <2>9. Promise!MakeSession
    BY <2>3, <2>4, <2>5, <2>6, <2>8, NoneAssumption DEF Promise!MakeSession
  <2> QED
    BY <2>9 DEF PromiseStep, Promise!PromiseNext
<1>5. CASE DialFailed(k)
  <2>1. pc[k] = "dial" /\ pc'[k] = "fail-grpc" /\ \A j \in Calls \ {k} : pc'[j] = pc[j]
    BY <1>5 DEF TypeOK, DialFailed, BeginCleanup, Goto
  <2>2. ~Undoing /\ Undoing' /\ ~ShuttingDown
    BY <1>b, <1>c, <2>1 DEF UndoingPcs
  <2>3. Phase # "undoing" /\ Phase' = "undoing"
    BY <2>2 DEF Phase
  <2>4. open' = {} /\ UNCHANGED <<client, sshConn, host, portHeld>>
    BY <1>a, <1>5, <2>2 DEF DialFailed, BeginCleanup, DialFail, ShutdownBegin, ResourcesInv
  <2>5. Promise!Undo
    BY <2>3, <2>4 DEF Promise!Undo
  <2> QED
    BY <2>5 DEF PromiseStep, Promise!PromiseNext
<1>6. CASE SudoFailed(k) \/ StartFailed(k) \/ TunnelFailed(k)
  <2>1. pc[k] \in {"sudo", "start", "bind"} /\ pc'[k] = "fail-grpc" /\ \A j \in Calls \ {k} : pc'[j] = pc[j]
    BY <1>6 DEF TypeOK, SudoFailed, StartFailed, TunnelFailed, BeginCleanup, Goto
  <2>2. ~Undoing /\ Undoing' /\ ~ShuttingDown
    BY <1>b, <1>c, <2>1 DEF UndoingPcs
  <2>3. ShutdownBegin /\ UNCHANGED sshVars
    BY <1>6 DEF SudoFailed, StartFailed, TunnelFailed, BeginCleanup, BindFail
  <2> QED
    BY <1>a, <2>2, <2>3, BeginsUndoing
<1>7. CASE \/ SudoOk(k) \/ AgentFound(k) \/ AgentInstalled(k) \/ AgentMissing(k)
           \/ ForwardingOk(k) \/ ForwardingDisabled(k) \/ NextCommand(k)
  <2>1. pc'[k] \notin UndoingPcs /\ \A j \in Calls \ {k} : pc'[j] = pc[j]
    BY <1>7 DEF SudoOk, AgentFound, AgentInstalled, AgentMissing, ForwardingOk,
      ForwardingDisabled, NextCommand, Goto, Finish, UndoingPcs, TypeOK
  <2>2. pc[k] \notin UndoingPcs \cup {"idle"}
    BY <1>7 DEF SudoOk, AgentFound, AgentInstalled, AgentMissing, ForwardingOk,
      ForwardingDisabled, NextCommand, UndoingPcs
  <2>3. ~Undoing /\ ~Undoing'
    BY <1>c, <2>1, <2>2
  <2>4. pc[k] \in {"sudo", "running"} => cm = "connecting" /\ cmTarget = arg[k]
    BY <1>a DEF PhaseInv
  <2>5. UNCHANGED <<cm, cmTarget, client, sshConn, host, portHeld, open>>
    BY <1>7, <2>4 DEF SudoOk, AgentFound, AgentInstalled, AgentMissing, ForwardingOk,
      ForwardingDisabled, NextCommand, Connecting, sshVars, grpcVars, managerVars
  <2> QED
    BY <2>3, <2>5, QuietStep
<1>8. CASE AgentStarted(k)
  <2>1. pc[k] = "start" /\ pc'[k] = "bind" /\ \A j \in Calls \ {k} : pc'[j] = pc[j]
    BY <1>8 DEF TypeOK, AgentStarted, Goto
  <2>2. ~Undoing /\ ~Undoing'
    BY <1>c, <2>1 DEF UndoingPcs
  <2>3. tunnel = "none"
    BY <1>a, <2>1 DEF PhaseInv
  <2>4. UNCHANGED <<cm, cmTarget, client, sshConn, host, portHeld, open>>
    BY <1>8, <2>3 DEF AgentStarted, BindBegin, TunnelDown, grpcVars, managerVars
  <2> QED
    BY <2>2, <2>4, QuietStep
<1>9. CASE TunnelBound(k)
  <2>1. pc[k] = "bind" /\ pc'[k] = "settle" /\ \A j \in Calls \ {k} : pc'[j] = pc[j]
    BY <1>9 DEF TypeOK, TunnelBound, Goto
  <2>2. ~Undoing /\ ~Undoing'
    BY <1>c, <2>1 DEF UndoingPcs
  <2>3. cm = "connecting" /\ cmTarget = arg[k] /\ SessionTo(arg[k]) /\ open = {}
    BY <1>a, <2>1 DEF PhaseInv, NoChannel
  <2>4. portHeld = FALSE /\ portHeld' = TRUE /\ UNCHANGED <<cm, cmTarget, client, sshConn, host, open>>
    BY <1>9 DEF TunnelBound, BindOk, grpcVars, managerVars, TypeOK, SshTypeOK
  <2>5. Phase = "making" /\ Phase' = "making"
    BY <2>2, <2>3, <2>4 DEF Phase
  <2>6. Promise!MakeTunnel
    BY <2>3, <2>4, <2>5 DEF Promise!MakeTunnel, SessionTo
  <2> QED
    BY <2>6 DEF PromiseStep, Promise!PromiseNext
<1>10. ASSUME NEW ch \in Channels, GrpcConnected(k, ch) PROVE PromiseStep
  <2>1. pc[k] = "settle" /\ pc'[k] = "version" /\ \A j \in Calls \ {k} : pc'[j] = pc[j]
    BY <1>10 DEF TypeOK, GrpcConnected, Goto
  <2>2. ~Undoing /\ ~Undoing'
    BY <1>c, <2>1 DEF UndoingPcs
  <2>3. cm = "connecting" /\ cmTarget = arg[k] /\ SessionTo(arg[k]) /\ open = {} /\ portHeld
    BY <1>a, <2>1 DEF PhaseInv, NoChannel, ResourcesInv
  <2>4. open' # {} /\ UNCHANGED <<cm, cmTarget, client, sshConn, host, portHeld>>
    BY <1>10, <2>3 DEF GrpcConnected, GrpcConnect, Connecting, sshVars
  <2>5. Phase = "making" /\ Phase' = "making"
    BY <2>2, <2>3, <2>4 DEF Phase
  <2>6. Promise!MakeChannel
    BY <2>3, <2>4, <2>5 DEF Promise!MakeChannel, SessionTo
  <2> QED
    BY <2>6 DEF PromiseStep, Promise!PromiseNext
<1>11. CASE VersionFetched(k)
  <2>1. pc[k] = "version" /\ pc'[k] = "idle" /\ \A j \in Calls \ {k} : pc'[j] = pc[j]
    BY <1>11 DEF TypeOK, VersionFetched, Finish
  <2>2. ~Undoing /\ ~Undoing' /\ ~ShuttingDown
    BY <1>b, <1>c, <2>1 DEF UndoingPcs
  <2>3. cm = "connecting" /\ cmTarget = arg[k] /\ SessionTo(arg[k]) /\ open # {} /\ portHeld
    BY <1>a, <2>1, <2>2 DEF PhaseInv, ResourcesInv
  <2>4. cm' = "connected" /\ UNCHANGED <<cmTarget, client, sshConn, host, portHeld, open>>
    BY <1>11, <2>3 DEF VersionFetched, sshVars, grpcVars
  <2>5. Phase = "making" /\ Phase' = "on"
    BY <2>2, <2>3, <2>4 DEF Phase
  <2>6. Promise!Announce
    BY <2>3, <2>4, <2>5 DEF Promise!Announce, SessionTo
  <2> QED
    BY <2>6 DEF PromiseStep, Promise!PromiseNext
<1> QED BY <1>1, <1>2, <1>3, <1>4, <1>5, <1>6, <1>7, <1>8, <1>9, <1>10, <1>11
  DEF ManagerStep, DisconnectGrpcThrows

\* The screen's dialogs leave the connection as it is, or give it up.
LEMMA ScreenStepPromise ==
  ASSUME SerialUse, TypeOK, SerialInv, NEW k \in Calls, ScreenStep(k)
  PROVE  PromiseStep
<1>a. OneCallInv /\ ResourcesInv
  BY DEF SerialInv
<1>1. /\ pc[k] # "idle" /\ pc[k] \notin UndoingPcs
      /\ \A j \in Calls \ {k} : pc'[j] = pc[j]
  BY DEF ScreenStep, LeaveScreen, AcceptInstall, Decline, InstallDone, AcceptForwarding,
    ForwardingEnabled, EnableFailed, ManagerDisconnect, BeginDisconnect, ManagerContinue, Goto,
    Finish, UndoingPcs, TypeOK
<1>2. ~Undoing /\ ~ShuttingDown /\ (Undoing' <=> pc'[k] \in UndoingPcs)
  BY <1>a, <1>1, UndoingOfCall DEF OneCallInv, UndoingPcs, ShuttingDown
<1>3. CASE Decline(k) /\ cm # "disconnected"
  <2>1. pc'[k] = "off-grpc" /\ ShutdownBegin /\ UNCHANGED sshVars
    BY <1>3 DEF Decline, ManagerDisconnect, BeginDisconnect, TypeOK
  <2> QED
    BY <1>a, <1>2, <2>1, BeginsUndoing DEF UndoingPcs
<1>4. CASE ~(Decline(k) /\ cm # "disconnected")
  <2>1. pc'[k] \notin UndoingPcs /\ UNCHANGED <<sshVars, grpcVars, managerVars>>
    BY <1>1, <1>4 DEF ScreenStep, LeaveScreen, AcceptInstall, Decline, InstallDone,
      AcceptForwarding, ForwardingEnabled, EnableFailed, ManagerDisconnect, ManagerContinue,
      Goto, Finish, UndoingPcs, TypeOK
  <2>2. UNCHANGED <<cm, cmTarget, client, sshConn, host, portHeld, open>>
    BY <2>1 DEF sshVars, grpcVars, managerVars
  <2> QED
    BY <1>2, <2>1, <2>2, QuietStep
<1> QED
  BY <1>3, <1>4

\* The user begins a connection when there is none, or has the present one undone.
LEMMA UserStartsPromise ==
  ASSUME SerialUse, TypeOK, SerialInv, NEW k \in Calls, UserStarts(k)
  PROVE  PromiseStep
<1> USE DEF SerialUse
<1>a. OneCallInv /\ ResourcesInv /\ RestInv /\ Idle
  BY DEF SerialInv, UserStarts
<1>b. ~Undoing /\ ~ShuttingDown
  BY <1>a DEF Idle, Undoing, UndoingPcs, ShuttingDown
<1>c. ASSUME \A j \in Calls \ {k} : pc'[j] = pc[j]
      PROVE  Undoing' <=> pc'[k] \in UndoingPcs
  BY <1>a, <1>c, UndoingOfCall
<1>1. ASSUME NEW c \in Conns, TapConnect(k, c), cm = "connected" PROVE PromiseStep
  <2>1. BeginDisconnect(k, "pre-grpc", c)
    BY <1>1 DEF TapConnect, ManagerConnect
  <2>2. pc'[k] = "pre-grpc" /\ \A j \in Calls \ {k} : pc'[j] = pc[j]
    BY <2>1 DEF BeginDisconnect, TypeOK
  <2>3. Undoing' /\ ShutdownBegin /\ UNCHANGED sshVars
    BY <1>c, <2>1, <2>2 DEF BeginDisconnect, UndoingPcs
  <2> QED
    BY <1>a, <1>b, <2>3, BeginsUndoing
<1>2. ASSUME NEW c \in Conns, TapConnect(k, c), cm # "connected" PROVE PromiseStep
  <2>1. Dial(k, c)
    BY <1>2 DEF TapConnect, ManagerConnect
  <2>2. pc'[k] = "dial" /\ \A j \in Calls \ {k} : pc'[j] = pc[j]
    BY <2>1 DEF Dial, TypeOK
  <2>3. ~Undoing'
    BY <1>c, <2>2 DEF UndoingPcs
  <2>4. cm \in {"disconnected", "error"} /\ NoSession /\ NoChannel
    BY <1>a, <1>2 DEF TapConnect, RestInv, TypeOK, CMState
  <2> QED
    BY <1>b, <2>1, <2>3, <2>4, BeginsDial
<1>3. CASE UserDisconnect(k)
  <2>1. pc'[k] = "off-grpc" /\ \A j \in Calls \ {k} : pc'[j] = pc[j]
    BY <1>3 DEF UserDisconnect, Goto, TypeOK
  <2>2. Undoing' /\ ShutdownBegin /\ UNCHANGED sshVars
    BY <1>3, <1>c, <2>1 DEF UserDisconnect, UndoingPcs
  <2> QED
    BY <1>a, <1>b, <2>2, BeginsUndoing
<1>4. CASE UserDisconnectIgnored(k)
  <2>1. UNCHANGED <<pc, cm, cmTarget, client, sshConn, host, portHeld, open>>
    BY <1>4 DEF UserDisconnectIgnored, sshVars, grpcVars, managerVars, callVars
  <2> QED
    BY <2>1, QuietStep DEF Undoing
<1> QED
  BY <1>1, <1>2, <1>3, <1>4 DEF UserStarts

\* What runs by itself changes no part of the connection; the network can take
\* the transport away.
LEMMA BackgroundPromise ==
  ASSUME TypeOK, ResourcesInv, Background \/ UNCHANGED vars
  PROVE  PromiseStep
<1>1. CASE Keepalive \/ Stats \/ UNCHANGED vars
  <2>1. UNCHANGED <<pc, cm, cmTarget, client, sshConn, host, portHeld, open>>
    BY <1>1 DEF Keepalive, KeepaliveSend, KeepaliveStops, PingDone, PingClosed, Stats,
      StatsListen, StatsStart, StatsGivesUp, StatsBreaks, vars, sshVars, grpcVars, managerVars,
      callVars
  <2> QED
    BY <2>1, QuietStep DEF Undoing
<1>2. CASE Network
  <2>1. PICK s \in Sessions : LinkDrop(s)
    BY <1>2 DEF Network
  <2>2. UNCHANGED <<pc, cm, cmTarget, client, sshConn, portHeld, open>>
    BY <1>2, <2>1 DEF Network, LinkDrop, grpcVars, managerVars, callVars
  <2>3. Phase' = Phase
    BY <2>2 DEF Phase, Undoing
  <2>4. host[s] # None /\ \A r \in Sessions : host'[r] = None
    BY <2>1 DEF LinkDrop, Up, ResourcesInv, TypeOK, SshTypeOK
  <2>5. Promise!Lose
    BY <2>2, <2>3, <2>4 DEF Promise!Lose
  <2> QED
    BY <2>5 DEF PromiseStep, Promise!PromiseNext
<1> QED
  BY <1>1, <1>2 DEF Background

\* "Atomic connect/disconnect operations with proper cleanup" (connection_manager.dart:10):
\* used one action at a time, the manager implements ConnectionPromise.  At every await
\* of connect, continueConnection, disconnect and the cleanup, and whatever fails or is
\* lost meanwhile, the parts of one connection are there in their order, and no step
\* skips one on the way up or on the way down.
THEOREM ConnectionIsPromised == ASSUME SerialUse PROVE Spec => PromiseKept
<1>1. Init => Promise!PromiseInit
  BY DEF Init, SshInit, GrpcInit, Promise!PromiseInit, Phase, Undoing, UndoingPcs
<1>2. TypeOK /\ GuardsInv /\ SerialInv /\ [Next]_vars => [Promise!PromiseNext]_(Promise!promiseVars)
  <2> SUFFICES ASSUME TypeOK, GuardsInv, SerialInv, [Next]_vars PROVE PromiseStep
    BY DEF PromiseStep
  <2>1. ASSUME NEW k \in Calls, CallStep(k) PROVE PromiseStep
    BY <2>1, ManagerStepPromise, ScreenStepPromise, NoOtherCalls DEF CallStep
  <2>2. ASSUME NEW k \in Calls, UserStarts(k) PROVE PromiseStep
    BY <2>2, UserStartsPromise
  <2>3. CASE Background \/ UNCHANGED vars
    BY <2>3, BackgroundPromise DEF SerialInv
  <2> QED
    BY <2>1, <2>2, <2>3 DEF Next
<1> QED
  BY <1>1, <1>2, TypeCorrect, GuardsInvariant, SerialPhases, PTL
  DEF Spec, PromiseKept, Promise!PromiseSpec
=============================================================================
