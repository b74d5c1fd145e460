-------------------------- MODULE ConnectionProofs --------------------------
(***************************************************************************)
(* Proofs about ConnectionSystem, for every number of calls, connections,  *)
(* sessions and channels, every set of entries and every interleaving.     *)
(***************************************************************************)
EXTENDS ConnectionSystem, SshServiceProofs

\* The steps of ConnectionManager's methods keep the types.
LEMMA ManagerStepType ==
  ASSUME TypeOK, NEW k \in Calls, ManagerStep(k)
  PROVE  TypeOK'
<1> USE DEF TypeOK, GrpcTypeOK, CMState, Pcs, ConnectPcs, DisconnectPcs, ScreenPcs, LoginPcs,
  ResumePcs
<1>1. CASE DisconnectGrpcDone(k)
  BY <1>1, SshPiecesType DEF DisconnectGrpcDone, Goto, ShutdownEnd, managerVars
<1>2. CASE DisconnectGrpcThrows(k)
  BY <1>2, SshPiecesType DEF DisconnectGrpcThrows, Finish, Goto, ReturnFromDisconnect,
    ShutdownThrows, grpcVars
<1>3. CASE DisconnectSshDone(k)
  BY <1>3, SshPiecesType DEF DisconnectSshDone, Finish, Goto, ReturnFromDisconnect, grpcVars
<1>4. CASE CleanupGrpcDone(k)
  BY <1>4, SshPiecesType DEF CleanupGrpcDone, Goto, ShutdownEnd, ShutdownThrows, grpcVars,
    managerVars
<1>5. CASE CleanupSshDone(k)
  BY <1>5, SshPiecesType DEF CleanupSshDone, Finish, grpcVars
<1>6. CASE DialAfterDisconnect(k)
  BY <1>6, SshPiecesType DEF DialAfterDisconnect, Connecting, Dial, grpcVars
<1>7. ASSUME NEW s \in Sessions, Dialed(k, s) PROVE TypeOK'
  BY <1>7, SshPiecesType DEF Dialed, Connecting, Goto, grpcVars
<1>8. CASE DialFailed(k)
  BY <1>8, SshPiecesType DEF DialFailed, BeginCleanup, Goto, ShutdownBegin, managerVars
<1>9. CASE SudoOk(k)
  BY <1>9, SshPiecesType DEF SudoOk, Connecting, Goto, grpcVars
<1>10. CASE SudoFailed(k)
  BY <1>10, SshPiecesType DEF SudoFailed, BeginCleanup, Goto, ShutdownBegin, managerVars
<1>11. CASE AgentFound(k)
  BY <1>11, SshPiecesType DEF AgentFound, Goto, grpcVars, managerVars
<1>12. CASE AgentInstalled(k)
  BY <1>12, SshPiecesType DEF AgentInstalled, Connecting, Goto, grpcVars
<1>13. CASE AgentMissing(k)
  BY <1>13, SshPiecesType DEF AgentMissing, Finish, Goto, grpcVars, managerVars
<1>14. CASE ForwardingOk(k)
  BY <1>14, SshPiecesType DEF ForwardingOk, Goto, grpcVars, managerVars
<1>15. CASE ForwardingDisabled(k)
  BY <1>15, SshPiecesType DEF ForwardingDisabled, Finish, Goto, grpcVars, managerVars
<1>16. CASE AgentStarted(k)
  BY <1>16, SshPiecesType DEF AgentStarted, Goto, grpcVars, managerVars
<1>17. CASE StartFailed(k)
  BY <1>17, SshPiecesType DEF StartFailed, BeginCleanup, Goto, ShutdownBegin, managerVars
<1>18. CASE TunnelBound(k)
  BY <1>18, SshPiecesType DEF TunnelBound, Goto, grpcVars, managerVars
<1>19. CASE TunnelFailed(k)
  BY <1>19, SshPiecesType DEF TunnelFailed, BeginCleanup, Goto, ShutdownBegin, managerVars
<1>20. ASSUME NEW ch \in Channels, GrpcConnected(k, ch) PROVE TypeOK'
  BY <1>20, SshPiecesType DEF GrpcConnected, Connecting, Goto, GrpcConnect
<1>21. CASE VersionFetched(k)
  BY <1>21, SshPiecesType DEF VersionFetched, Finish, grpcVars
<1>22. CASE NextCommand(k)
  BY <1>22, SshPiecesType DEF NextCommand, grpcVars, managerVars
<1> QED BY <1>1, <1>2, <1>3, <1>4, <1>5, <1>6, <1>7, <1>8, <1>9, <1>10, <1>11, <1>12, <1>13,
  <1>14, <1>15, <1>16, <1>17, <1>18, <1>19, <1>20, <1>21, <1>22 DEF ManagerStep

\* The steps of the connections screen keep the types.
LEMMA ScreenStepType ==
  ASSUME TypeOK, NEW k \in Calls, ScreenStep(k)
  PROVE  TypeOK'
<1> USE DEF TypeOK, GrpcTypeOK, CMState, Pcs, ConnectPcs, DisconnectPcs, ScreenPcs, LoginPcs,
  ResumePcs
<1>1. CASE LeaveScreen(k)
  BY <1>1, SshPiecesType DEF LeaveScreen, grpcVars, managerVars
<1>2. CASE AcceptInstall(k)
  BY <1>2, SshPiecesType DEF AcceptInstall, Goto, grpcVars, managerVars
<1>3. CASE Decline(k)
  BY <1>3, SshPiecesType DEF Decline, BeginDisconnect, Finish, ManagerDisconnect, ShutdownBegin,
    grpcVars, managerVars
<1>4. CASE InstallDone(k)
  BY <1>4, SshPiecesType DEF InstallDone, Finish, ManagerContinue, grpcVars, managerVars
<1>5. CASE AcceptForwarding(k)
  BY <1>5, SshPiecesType DEF AcceptForwarding, Finish, Goto, grpcVars, managerVars
<1>6. CASE ForwardingEnabled(k)
  BY <1>6, SshPiecesType DEF ForwardingEnabled, Finish, ManagerContinue, grpcVars, managerVars
<1>7. CASE EnableFailed(k)
  BY <1>7, SshPiecesType DEF EnableFailed, Finish, grpcVars, managerVars
<1> QED BY <1>1, <1>2, <1>3, <1>4, <1>5, <1>6, <1>7 DEF ScreenStep

\* The steps of the login screen keep the types.
LEMMA LoginStepType ==
  ASSUME TypeOK, NEW k \in Calls, LoginStep(k)
  PROVE  TypeOK'
<1> USE DEF TypeOK, GrpcTypeOK, CMState, Pcs, ConnectPcs, DisconnectPcs, ScreenPcs, LoginPcs,
  ResumePcs
<1>1. ASSUME NEW s \in Sessions, LoginDialed(k, s) PROVE TypeOK'
  BY <1>1, SshPiecesType DEF LoginDialed, Finish, Goto, LoginEnds, LoginGoes, grpcVars,
    managerVars
<1>2. ASSUME NEW s \in Sessions, LoginRedialed(k, s) PROVE TypeOK'
  BY <1>2, SshPiecesType DEF LoginRedialed, Goto, LoginGoes, grpcVars, managerVars
<1>3. ASSUME NEW ch \in Channels, LoginGrpcConnected(k, ch) PROVE TypeOK'
  BY <1>3, SshPiecesType DEF LoginGrpcConnected, Goto, GrpcConnect, LoginGoes, managerVars
<1>4. CASE LoginDialFailed(k)
  BY <1>4, SshPiecesType DEF LoginDialFailed, Finish, LoginEnds, grpcVars, managerVars
<1>5. CASE LoginSudoOk(k)
  BY <1>5, SshPiecesType DEF LoginSudoOk, Goto, LoginGoes, grpcVars, managerVars
<1>6. CASE LoginSudoFailed(k)
  BY <1>6, SshPiecesType DEF LoginSudoFailed, Finish, LoginEnds, grpcVars, managerVars
<1>7. CASE LoginAgentFound(k)
  BY <1>7, SshPiecesType DEF LoginAgentFound, Goto, LoginGoes, grpcVars, managerVars
<1>8. CASE LoginAgentInstalled(k)
  BY <1>8, SshPiecesType DEF LoginAgentInstalled, Finish, Goto, LoginEnds, LoginGoes, grpcVars,
    managerVars
<1>9. CASE LoginAgentMissing(k)
  BY <1>9, SshPiecesType DEF LoginAgentMissing, Finish, Goto, LoginEnds, LoginGoes, grpcVars,
    managerVars
<1>10. CASE LoginAccepts(k)
  BY <1>10, SshPiecesType DEF LoginAccepts, Goto, LoginGoes, grpcVars, managerVars
<1>11. CASE LoginDeclines(k)
  BY <1>11, SshPiecesType DEF LoginDeclines, Finish, LoginEnds, grpcVars, managerVars
<1>12. CASE LoginInstallDone(k)
  BY <1>12, SshPiecesType DEF LoginInstallDone, Finish, Goto, LoginEnds, LoginGoes, grpcVars,
    managerVars
<1>13. CASE LoginForwardingOk(k)
  BY <1>13, SshPiecesType DEF LoginForwardingOk, Goto, LoginGoes, grpcVars, managerVars
<1>14. CASE LoginForwardingDisabled(k)
  BY <1>14, SshPiecesType DEF LoginForwardingDisabled, Goto, LoginGoes, grpcVars, managerVars
<1>15. CASE LoginEnabled(k)
  BY <1>15, SshPiecesType DEF LoginEnabled, Goto, LoginGoes, grpcVars, managerVars
<1>16. CASE LoginReplaces(k)
  BY <1>16, SshPiecesType DEF LoginReplaces, Goto, LoginGoes, grpcVars, managerVars
<1>17. CASE LoginEnableFailed(k)
  BY <1>17, SshPiecesType DEF LoginEnableFailed, Goto, LoginGoes, grpcVars, managerVars
<1>18. CASE LoginClosed(k)
  BY <1>18, SshPiecesType DEF LoginClosed, Goto, LoginGoes, grpcVars, managerVars
<1>19. CASE LoginRedials(k)
  BY <1>19, SshPiecesType DEF LoginRedials, Goto, LoginGoes, grpcVars, managerVars
<1>20. CASE LoginRedialFailed(k)
  BY <1>20, SshPiecesType DEF LoginRedialFailed, Goto, LoginGoes, grpcVars, managerVars
<1>21. CASE LoginAgentStarted(k)
  BY <1>21, SshPiecesType DEF LoginAgentStarted, Goto, LoginGoes, grpcVars, managerVars
<1>22. CASE LoginStartFailed(k)
  BY <1>22, SshPiecesType DEF LoginStartFailed, Finish, LoginEnds, grpcVars, managerVars
<1>23. CASE LoginTunnelBound(k)
  BY <1>23, SshPiecesType DEF LoginTunnelBound, Goto, LoginGoes, grpcVars, managerVars
<1>24. CASE LoginTunnelFailed(k)
  BY <1>24, SshPiecesType DEF LoginTunnelFailed, Finish, LoginEnds, grpcVars, managerVars
<1>25. CASE LoginLeftBeforeGrpc(k)
  BY <1>25, SshPiecesType DEF LoginLeftBeforeGrpc, Finish, LoginEnds, grpcVars, managerVars
<1>26. CASE LoginVersionFetched(k)
  BY <1>26, SshPiecesType DEF LoginVersionFetched, Finish, grpcVars, managerVars
<1> QED BY <1>1, <1>2, <1>3, <1>4, <1>5, <1>6, <1>7, <1>8, <1>9, <1>10, <1>11, <1>12, <1>13,
  <1>14, <1>15, <1>16, <1>17, <1>18, <1>19, <1>20, <1>21, <1>22, <1>23, <1>24, <1>25,
  <1>26 DEF LoginStep

\* The steps of a reconnect keep the types.
LEMMA ResumeStepType ==
  ASSUME TypeOK, NEW k \in Calls, ResumeStep(k)
  PROVE  TypeOK'
<1> USE DEF TypeOK, GrpcTypeOK, CMState, Pcs, ConnectPcs, DisconnectPcs, ScreenPcs, LoginPcs,
  ResumePcs
<1>1. CASE ResumeClosed(k)
  BY <1>1, SshPiecesType DEF ResumeClosed, Goto, grpcVars, managerVars
<1>2. CASE ResumeThrows(k)
  BY <1>2, SshPiecesType DEF ResumeThrows, Finish, grpcVars, managerVars
<1>3. CASE ResumeDials(k)
  BY <1>3, SshPiecesType DEF ResumeDials, grpcVars, managerVars
<1>4. ASSUME NEW s \in Sessions, ResumeDialed(k, s) PROVE TypeOK'
  BY <1>4, SshPiecesType DEF ResumeDialed, Finish, grpcVars, managerVars
<1>5. CASE ResumeFailed(k)
  BY <1>5, SshPiecesType DEF ResumeFailed, Finish, grpcVars, managerVars
<1> QED BY <1>1, <1>2, <1>3, <1>4, <1>5 DEF ResumeStep

\* What the user starts keeps the types.
LEMMA UserStartsType ==
  ASSUME TypeOK, NEW k \in Calls, UserStarts(k)
  PROVE  TypeOK'
<1> USE DEF TypeOK, GrpcTypeOK, CMState, Pcs, ConnectPcs, DisconnectPcs, ScreenPcs, LoginPcs,
  ResumePcs
<1>1. ASSUME NEW c \in Conns, TapConnect(k, c) PROVE TypeOK'
  BY <1>1, SshPiecesType DEF TapConnect, BeginDisconnect, Connecting, Dial, ManagerConnect,
    ShutdownBegin, grpcVars
<1>2. ASSUME NEW c \in Conns, TapDevice(k, c) PROVE TypeOK'
  BY <1>2, SshPiecesType DEF TapDevice, grpcVars, managerVars
<1>3. CASE UserDisconnect(k)
  BY <1>3, SshPiecesType DEF UserDisconnect, Goto, ShutdownBegin
<1>4. CASE UserDisconnectIgnored(k)
  BY <1>4, SshPiecesType DEF UserDisconnectIgnored, callVars, grpcVars, managerVars
<1>5. CASE Resume(k)
  BY <1>5, SshPiecesType DEF Resume, Goto, grpcVars, managerVars
<1> QED BY <1>1, <1>2, <1>3, <1>4, <1>5 DEF UserStarts

\* Keepalive, network and statistics stream keep the types.
LEMMA BackgroundType == ASSUME TypeOK, Background PROVE TypeOK'
<1> USE DEF TypeOK, GrpcTypeOK, CMState, Pcs, ConnectPcs, DisconnectPcs, ScreenPcs, LoginPcs,
  ResumePcs
<1>1. CASE Keepalive
  BY <1>1, SshPiecesType DEF Keepalive, grpcVars, managerVars, callVars
<1>2. CASE Network
  BY <1>2, SshPiecesType DEF Network, grpcVars, managerVars, callVars
<1>3. CASE Stats
  BY <1>3, SshPiecesType DEF Stats, StatsListen, StatsStart, StatsGivesUp, StatsBreaks,
    managerVars, callVars
<1> QED BY <1>1, <1>2, <1>3 DEF Background

\* Every field of the three services, and the place, argument and pending
\* operation of every call in flight, keep their types: no call is ever suspended
\* in an await its code does not have, or holds a session that does not exist.
THEOREM TypeCorrect == Spec => []TypeOK
<1>1. Init => TypeOK
  BY DEF Init, SshInit, GrpcInit, TypeOK, SshTypeOK, GrpcTypeOK, ConnectionState, CMState, Pcs
<1>2. TypeOK /\ [Next]_vars => TypeOK'
  <2> SUFFICES ASSUME TypeOK, [Next]_vars PROVE TypeOK'
    OBVIOUS
  <2>1. ASSUME NEW k \in Calls, UserStarts(k) PROVE TypeOK'
    BY <2>1, UserStartsType
  <2>2. ASSUME NEW k \in Calls, CallStep(k) PROVE TypeOK'
    BY <2>2, ManagerStepType, ScreenStepType, LoginStepType, ResumeStepType DEF CallStep
  <2>3. CASE Background
    BY <2>3, BackgroundType
  <2>4. CASE UNCHANGED vars
    BY <2>4, SshPiecesType DEF vars, grpcVars, managerVars, callVars, TypeOK, GrpcTypeOK
  <2> QED
    BY <2>1, <2>2, <2>3, <2>4 DEF Next
<1> QED
  BY <1>1, <1>2, PTL DEF Spec

---------------------------------------------------------------------------
(* The service's safety, in the app *)

\* One piece of one method of SSHService, or none.
Piece ==
  \/ \E c \in Conns \cup {None} : DialBegin(c)
  \/ \E s \in Sessions, c \in Conns \cup {None} : DialOk(s, c)
  \/ DialFail \/ CloseBegin \/ CloseEnd \/ CloseThrows
  \/ BindBegin \/ BindOk \/ BindFail
  \/ KeepaliveSend \/ KeepaliveStops \/ PingDone \/ PingClosed
  \/ \E s \in Sessions : LinkDrop(s)
  \/ UNCHANGED sshVars

\* A step of the app is such a piece.
LEMMA StepIsPiece == ASSUME TypeOK, [Next]_vars PROVE Piece
<1> USE DEF TypeOK, Piece
<1>1. ASSUME NEW k \in Calls, ManagerStep(k) PROVE Piece
  BY <1>1, SshPiecesType DEF ManagerStep, AgentFound, AgentInstalled, AgentMissing, AgentStarted, BeginCleanup,
    CleanupGrpcDone, CleanupSshDone, Dial, DialAfterDisconnect, DialFailed, Dialed,
    DisconnectGrpcDone, DisconnectGrpcThrows, DisconnectSshDone, ForwardingDisabled, ForwardingOk,
    GrpcConnected, NextCommand, StartFailed, SudoFailed, SudoOk, TunnelBound, TunnelFailed,
    VersionFetched
<1>2. ASSUME NEW k \in Calls, ScreenStep(k) PROVE Piece
  BY <1>2, SshPiecesType DEF ScreenStep, AcceptForwarding, AcceptInstall, BeginDisconnect, Decline,
    EnableFailed, ForwardingEnabled, InstallDone, LeaveScreen, ManagerDisconnect
<1>3. ASSUME NEW k \in Calls, LoginStep(k) PROVE Piece
  BY <1>3, SshPiecesType DEF LoginStep, LoginAccepts, LoginAgentFound, LoginAgentInstalled, LoginAgentMissing,
    LoginAgentStarted, LoginClosed, LoginDeclines, LoginDialFailed, LoginDialed, LoginEnableFailed,
    LoginEnabled, LoginForwardingDisabled, LoginForwardingOk, LoginGrpcConnected, LoginInstallDone,
    LoginLeftBeforeGrpc, LoginRedialFailed, LoginRedialed, LoginRedials, LoginReplaces, LoginStartFailed,
    LoginSudoFailed, LoginSudoOk, LoginTunnelBound, LoginTunnelFailed, LoginVersionFetched
<1>4. ASSUME NEW k \in Calls, ResumeStep(k) PROVE Piece
  BY <1>4, SshPiecesType DEF ResumeStep, ResumeClosed, ResumeDialed, ResumeDials, ResumeFailed,
    ResumeThrows
<1>5. ASSUME NEW k \in Calls, UserStarts(k) PROVE Piece
  BY <1>5, SshPiecesType DEF UserStarts, BeginDisconnect, Dial, ManagerConnect, Resume, TapConnect,
    TapDevice, UserDisconnect, UserDisconnectIgnored
<1>6. Background => Piece
  BY DEF Background, Keepalive, Network, Stats
<1>7. UNCHANGED vars => Piece
  BY DEF vars
<1> QED
  BY <1>1, <1>2, <1>3, <1>4, <1>5, <1>6, <1>7 DEF Next, CallStep

\* In the app, too, "connected" comes with a client, a tunnel believed open holds
\* the port, and a failing keepalive cancels no other session's timer, whatever
\* the screens, the manager and the login do at the same time.
THEOREM SshSafeInApp == Spec => [](ConnectedHasClient /\ BoundHoldsPort /\ PingCancelsOwn)
<1>1. Init => SshSafe
  BY NoneAssumption
  DEF Init, SshInit, SshSafe, ConnectedHasClient, BoundHoldsPort, PingCancelsOwn
<1>2. TypeOK /\ SshSafe /\ [Next]_vars => SshSafe'
  <2> SUFFICES ASSUME TypeOK, SshSafe, [Next]_vars PROVE SshSafe'
    OBVIOUS
  <2>1. Piece /\ SshTypeOK
    BY StepIsPiece DEF TypeOK
  <2> QED
    BY <2>1, SshPiecesSafe DEF Piece
<1>3. SshSafe => ConnectedHasClient /\ BoundHoldsPort /\ PingCancelsOwn
  BY DEF SshSafe
<1> QED
  BY <1>1, <1>2, <1>3, TypeCorrect, PTL DEF Spec

---------------------------------------------------------------------------
(* The guards against connecting twice *)

\* The steps of ConnectionManager's methods keep the guards' invariant.
LEMMA ManagerStepGuards ==
  ASSUME TypeOK, GuardsInv, NEW k \in Calls, ManagerStep(k)
  PROVE  GuardsInv'
<1> USE NoneAssumption DEF TypeOK, GuardsInv, GuardsAgree, Pcs, ConnectPcs, DisconnectPcs,
  ScreenPcs, LoginPcs, ResumePcs
<1>1. CASE DisconnectGrpcDone(k)
  BY <1>1 DEF DisconnectGrpcDone, Goto, managerVars
<1>2. CASE DisconnectGrpcThrows(k)
  BY <1>2 DEF DisconnectGrpcThrows, Finish, Goto, ReturnFromDisconnect
<1>3. CASE DisconnectSshDone(k)
  BY <1>3 DEF DisconnectSshDone, Finish, Goto, ReturnFromDisconnect
<1>4. CASE CleanupGrpcDone(k)
  BY <1>4 DEF CleanupGrpcDone, Goto, managerVars
<1>5. CASE CleanupSshDone(k)
  BY <1>5 DEF CleanupSshDone, Finish
<1>6. CASE DialAfterDisconnect(k)
  BY <1>6 DEF DialAfterDisconnect, Connecting, Dial
<1>7. ASSUME NEW s \in Sessions, Dialed(k, s) PROVE GuardsInv'
  BY <1>7 DEF Dialed, Connecting, Goto
<1>8. CASE DialFailed(k)
  BY <1>8 DEF DialFailed, BeginCleanup, Goto, managerVars
<1>9. CASE SudoOk(k)
  BY <1>9 DEF SudoOk, Connecting, Goto
<1>10. CASE SudoFailed(k)
  BY <1>10 DEF SudoFailed, BeginCleanup, Goto, managerVars
<1>11. CASE AgentFound(k)
  BY <1>11 DEF AgentFound, Goto, managerVars
<1>12. CASE AgentInstalled(k)
  BY <1>12 DEF AgentInstalled, Connecting, Goto
<1>13. CASE AgentMissing(k)
  BY <1>13 DEF AgentMissing, Finish, Goto, managerVars
<1>14. CASE ForwardingOk(k)
  BY <1>14 DEF ForwardingOk, Goto, managerVars
<1>15. CASE ForwardingDisabled(k)
  BY <1>15 DEF ForwardingDisabled, Finish, Goto, managerVars
<1>16. CASE AgentStarted(k)
  BY <1>16 DEF AgentStarted, Goto, managerVars
<1>17. CASE StartFailed(k)
  BY <1>17 DEF StartFailed, BeginCleanup, Goto, managerVars
<1>18. CASE TunnelBound(k)
  BY <1>18 DEF TunnelBound, Goto, managerVars
<1>19. CASE TunnelFailed(k)
  BY <1>19 DEF TunnelFailed, BeginCleanup, Goto, managerVars
<1>20. ASSUME NEW ch \in Channels, GrpcConnected(k, ch) PROVE GuardsInv'
  BY <1>20 DEF GrpcConnected, Connecting, Goto
<1>21. CASE VersionFetched(k)
  BY <1>21 DEF VersionFetched, Finish
<1>22. CASE NextCommand(k)
  BY <1>22 DEF NextCommand, managerVars
<1> QED BY <1>1, <1>2, <1>3, <1>4, <1>5, <1>6, <1>7, <1>8, <1>9, <1>10, <1>11, <1>12, <1>13,
  <1>14, <1>15, <1>16, <1>17, <1>18, <1>19, <1>20, <1>21, <1>22 DEF ManagerStep

\* So do the steps of the connections screen.
LEMMA ScreenStepGuards ==
  ASSUME TypeOK, GuardsInv, NEW k \in Calls, ScreenStep(k)
  PROVE  GuardsInv'
<1> USE NoneAssumption DEF TypeOK, GuardsInv, GuardsAgree, Pcs, ConnectPcs, DisconnectPcs,
  ScreenPcs, LoginPcs, ResumePcs
<1>1. CASE LeaveScreen(k)
  BY <1>1 DEF LeaveScreen, managerVars
<1>2. CASE AcceptInstall(k)
  BY <1>2 DEF AcceptInstall, Goto, managerVars
<1>3. CASE Decline(k)
  BY <1>3 DEF Decline, BeginDisconnect, Finish, ManagerDisconnect, managerVars
<1>4. CASE InstallDone(k)
  BY <1>4 DEF InstallDone, Finish, ManagerContinue, managerVars
<1>5. CASE AcceptForwarding(k)
  BY <1>5 DEF AcceptForwarding, Finish, Goto, managerVars
<1>6. CASE ForwardingEnabled(k)
  BY <1>6 DEF ForwardingEnabled, Finish, ManagerContinue, managerVars
<1>7. CASE EnableFailed(k)
  BY <1>7 DEF EnableFailed, Finish, managerVars
<1> QED BY <1>1, <1>2, <1>3, <1>4, <1>5, <1>6, <1>7 DEF ScreenStep

\* So do the steps of the login screen.
LEMMA LoginStepGuards ==
  ASSUME TypeOK, GuardsInv, NEW k \in Calls, LoginStep(k)
  PROVE  GuardsInv'
<1> USE NoneAssumption DEF TypeOK, GuardsInv, GuardsAgree, Pcs, ConnectPcs, DisconnectPcs,
  ScreenPcs, LoginPcs, ResumePcs
<1>1. ASSUME NEW s \in Sessions, LoginDialed(k, s) PROVE GuardsInv'
  BY <1>1 DEF LoginDialed, Finish, Goto, LoginEnds, LoginGoes, managerVars
<1>2. ASSUME NEW s \in Sessions, LoginRedialed(k, s) PROVE GuardsInv'
  BY <1>2 DEF LoginRedialed, Goto, LoginGoes, managerVars
<1>3. ASSUME NEW ch \in Channels, LoginGrpcConnected(k, ch) PROVE GuardsInv'
  BY <1>3 DEF LoginGrpcConnected, Goto, LoginGoes, managerVars
<1>4. CASE LoginDialFailed(k)
  BY <1>4 DEF LoginDialFailed, Finish, LoginEnds, managerVars
<1>5. CASE LoginSudoOk(k)
  BY <1>5 DEF LoginSudoOk, Goto, LoginGoes, managerVars
<1>6. CASE LoginSudoFailed(k)
  BY <1>6 DEF LoginSudoFailed, Finish, LoginEnds, managerVars
<1>7. CASE LoginAgentFound(k)
  BY <1>7 DEF LoginAgentFound, Goto, LoginGoes, managerVars
<1>8. CASE LoginAgentInstalled(k)
  BY <1>8 DEF LoginAgentInstalled, Finish, Goto, LoginEnds, LoginGoes, managerVars
<1>9. CASE LoginAgentMissing(k)
  BY <1>9 DEF LoginAgentMissing, Finish, Goto, LoginEnds, LoginGoes, managerVars
<1>10. CASE LoginAccepts(k)
  BY <1>10 DEF LoginAccepts, Goto, LoginGoes, managerVars
<1>11. CASE LoginDeclines(k)
  BY <1>11 DEF LoginDeclines, Finish, LoginEnds, managerVars
<1>12. CASE LoginInstallDone(k)
  BY <1>12 DEF LoginInstallDone, Finish, Goto, LoginEnds, LoginGoes, managerVars
<1>13. CASE LoginForwardingOk(k)
  BY <1>13 DEF LoginForwardingOk, Goto, LoginGoes, managerVars
<1>14. CASE LoginForwardingDisabled(k)
  BY <1>14 DEF LoginForwardingDisabled, Goto, LoginGoes, managerVars
<1>15. CASE LoginEnabled(k)
  BY <1>15 DEF LoginEnabled, Goto, LoginGoes, managerVars
<1>16. CASE LoginReplaces(k)
  BY <1>16 DEF LoginReplaces, Goto, LoginGoes, managerVars
<1>17. CASE LoginEnableFailed(k)
  BY <1>17 DEF LoginEnableFailed, Goto, LoginGoes, managerVars
<1>18. CASE LoginClosed(k)
  BY <1>18 DEF LoginClosed, Goto, LoginGoes, managerVars
<1>19. CASE LoginRedials(k)
  BY <1>19 DEF LoginRedials, Goto, LoginGoes, managerVars
<1>20. CASE LoginRedialFailed(k)
  BY <1>20 DEF LoginRedialFailed, Goto, LoginGoes, managerVars
<1>21. CASE LoginAgentStarted(k)
  BY <1>21 DEF LoginAgentStarted, Goto, LoginGoes, managerVars
<1>22. CASE LoginStartFailed(k)
  BY <1>22 DEF LoginStartFailed, Finish, LoginEnds, managerVars
<1>23. CASE LoginTunnelBound(k)
  BY <1>23 DEF LoginTunnelBound, Goto, LoginGoes, managerVars
<1>24. CASE LoginTunnelFailed(k)
  BY <1>24 DEF LoginTunnelFailed, Finish, LoginEnds, managerVars
<1>25. CASE LoginLeftBeforeGrpc(k)
  BY <1>25 DEF LoginLeftBeforeGrpc, Finish, LoginEnds, managerVars
<1>26. CASE LoginVersionFetched(k)
  BY <1>26 DEF LoginVersionFetched, Finish, managerVars
<1> QED BY <1>1, <1>2, <1>3, <1>4, <1>5, <1>6, <1>7, <1>8, <1>9, <1>10, <1>11, <1>12, <1>13,
  <1>14, <1>15, <1>16, <1>17, <1>18, <1>19, <1>20, <1>21, <1>22, <1>23, <1>24, <1>25,
  <1>26 DEF LoginStep

\* So do the steps of a reconnect.
LEMMA ResumeStepGuards ==
  ASSUME TypeOK, GuardsInv, NEW k \in Calls, ResumeStep(k)
  PROVE  GuardsInv'
<1> USE NoneAssumption DEF TypeOK, GuardsInv, GuardsAgree, Pcs, ConnectPcs, DisconnectPcs,
  ScreenPcs, LoginPcs, ResumePcs
<1>1. CASE ResumeClosed(k)
  BY <1>1 DEF ResumeClosed, Goto, managerVars
<1>2. CASE ResumeThrows(k)
  BY <1>2 DEF ResumeThrows, Finish, managerVars
<1>3. CASE ResumeDials(k)
  BY <1>3 DEF ResumeDials, managerVars
<1>4. ASSUME NEW s \in Sessions, ResumeDialed(k, s) PROVE GuardsInv'
  BY <1>4 DEF ResumeDialed, Finish, managerVars
<1>5. CASE ResumeFailed(k)
  BY <1>5 DEF ResumeFailed, Finish, managerVars
<1> QED BY <1>1, <1>2, <1>3, <1>4, <1>5 DEF ResumeStep

\* So does what the user starts.
LEMMA UserStartsGuards ==
  ASSUME TypeOK, GuardsInv, NEW k \in Calls, UserStarts(k)
  PROVE  GuardsInv'
<1> USE NoneAssumption DEF TypeOK, GuardsInv, GuardsAgree, Pcs, ConnectPcs, DisconnectPcs,
  ScreenPcs, LoginPcs, ResumePcs
<1>1. ASSUME NEW c \in Conns, TapConnect(k, c) PROVE GuardsInv'
  BY <1>1 DEF TapConnect, BeginDisconnect, Connecting, Dial, ManagerConnect
<1>2. ASSUME NEW c \in Conns, TapDevice(k, c) PROVE GuardsInv'
  BY <1>2 DEF TapDevice, managerVars
<1>3. CASE UserDisconnect(k)
  BY <1>3 DEF UserDisconnect, Goto
<1>4. CASE UserDisconnectIgnored(k)
  BY <1>4 DEF UserDisconnectIgnored, callVars, managerVars
<1>5. CASE Resume(k)
  BY <1>5 DEF Resume, Goto, managerVars
<1> QED BY <1>1, <1>2, <1>3, <1>4, <1>5 DEF UserStarts

\* Every call of connect() carries its connection from its guards to its success,
\* and every connecting or connected state names one.
THEOREM GuardsInvariant == Spec => []GuardsInv
<1>1. Init => GuardsInv
  BY DEF Init, GuardsInv, GuardsAgree, ConnectPcs, LoginPcs
<1>2. TypeOK /\ GuardsInv /\ [Next]_vars => GuardsInv'
  <2> SUFFICES ASSUME TypeOK, GuardsInv, [Next]_vars PROVE GuardsInv'
    OBVIOUS
  <2>1. ASSUME NEW k \in Calls, UserStarts(k) PROVE GuardsInv'
    BY <2>1, UserStartsGuards
  <2>2. ASSUME NEW k \in Calls, CallStep(k) PROVE GuardsInv'
    BY <2>2, ManagerStepGuards, ScreenStepGuards, LoginStepGuards, ResumeStepGuards DEF CallStep
  <2>3. CASE Background
    BY <2>3 DEF Background, Keepalive, Network, Stats, managerVars, callVars, GuardsInv, GuardsAgree
  <2>4. CASE UNCHANGED vars
    BY <2>4 DEF vars, managerVars, callVars, GuardsInv, GuardsAgree
  <2> QED
    BY <2>1, <2>2, <2>3, <2>4 DEF Next
<1> QED
  BY <1>1, <1>2, TypeCorrect, PTL DEF Spec

\* The guards of the screen and of connect() against connecting twice to one Pi
\* test the same thing, whichever of two overlapping calls wrote the state last
\* (connection_manager.dart:55-61, connections_screen.dart:267-269).
THEOREM GuardsAlwaysAgree == Spec => []GuardsAgree
<1>1. GuardsInv => GuardsAgree
  BY DEF GuardsInv
<1> QED
  BY <1>1, GuardsInvariant, PTL

---------------------------------------------------------------------------
(* ConnectionSystem implements SshClients (SshContract): what the screens, *)
(* the manager, the reconnect and the background do to SSHService is what  *)
(* independent callers of its methods might do.                            *)

\* What a step of call k does, seen from SSHService: one piece of one of its
\* methods and the await the piece ends in, or nothing.
Move(k) ==
  /\ \A j \in Calls \ {k} : pc'[j] = pc[j] /\ arg'[j] = arg[j]
  /\ LET from == Awaiting(pc[k])
         to   == Awaiting(pc'[k])
     IN  \/ from = "idle" /\ to = "idle" /\ UNCHANGED sshVars
         \/ from = to /\ arg'[k] = arg[k] /\ UNCHANGED sshVars
         \/ from = "idle" /\ to = "dial" /\ arg'[k] \in Conns /\ DialBegin(arg'[k])
         \/ from = "dial" /\ to = "idle" /\ \E s \in Sessions : DialOk(s, arg[k])
         \/ from = "dial" /\ to = "idle" /\ DialFail
         \/ from = "idle" /\ to = "close" /\ CloseBegin
         \/ from = "close" /\ to = "idle" /\ (CloseEnd \/ ("close" \in Faults /\ CloseThrows))
         \/ from = "idle" /\ to = "bind" /\ BindBegin
         \/ from = "bind" /\ to = "idle" /\ (BindOk \/ BindFail)

\* The steps of ConnectionManager's methods are such moves.
LEMMA ManagerStepMoves ==
  ASSUME TypeOK, GuardsInv, NEW k \in Calls, ManagerStep(k)
  PROVE  Move(k)
<1> USE NoneAssumption DEF TypeOK, GuardsInv, Move, Awaiting, ConnectPcs, LoginPcs
<1>1. CASE DisconnectGrpcDone(k)
  BY <1>1 DEF DisconnectGrpcDone, Goto
<1>2. CASE DisconnectGrpcThrows(k)
  BY <1>2 DEF DisconnectGrpcThrows, Finish, Goto, ReturnFromDisconnect
<1>3. CASE DisconnectSshDone(k)
  BY <1>3 DEF DisconnectSshDone, Finish, Goto, ReturnFromDisconnect
<1>4. CASE CleanupGrpcDone(k)
  BY <1>4 DEF CleanupGrpcDone, Goto
<1>5. CASE CleanupSshDone(k)
  BY <1>5 DEF CleanupSshDone, Finish
<1>6. CASE DialAfterDisconnect(k)
  BY <1>6 DEF DialAfterDisconnect, Connecting, Dial
<1>7. ASSUME NEW s \in Sessions, Dialed(k, s) PROVE Move(k)
  BY <1>7 DEF Dialed, Connecting, Goto
<1>8. CASE DialFailed(k)
  BY <1>8 DEF DialFailed, BeginCleanup, Goto
<1>9. CASE SudoOk(k)
  BY <1>9 DEF SudoOk, Connecting, Goto
<1>10. CASE SudoFailed(k)
  BY <1>10 DEF SudoFailed, BeginCleanup, Goto
<1>11. CASE AgentFound(k)
  BY <1>11 DEF AgentFound, Goto
<1>12. CASE AgentInstalled(k)
  BY <1>12 DEF AgentInstalled, Connecting, Goto
<1>13. CASE AgentMissing(k)
  BY <1>13 DEF AgentMissing, Finish, Goto
<1>14. CASE ForwardingOk(k)
  BY <1>14 DEF ForwardingOk, Goto
<1>15. CASE ForwardingDisabled(k)
  BY <1>15 DEF ForwardingDisabled, Finish, Goto
<1>16. CASE AgentStarted(k)
  BY <1>16 DEF AgentStarted, Goto
<1>17. CASE StartFailed(k)
  BY <1>17 DEF StartFailed, BeginCleanup, Goto
<1>18. CASE TunnelBound(k)
  BY <1>18 DEF TunnelBound, Goto
<1>19. CASE TunnelFailed(k)
  BY <1>19 DEF TunnelFailed, BeginCleanup, Goto
<1>20. ASSUME NEW ch \in Channels, GrpcConnected(k, ch) PROVE Move(k)
  BY <1>20 DEF GrpcConnected, Connecting, Goto
<1>21. CASE VersionFetched(k)
  BY <1>21 DEF VersionFetched, Finish
<1>22. CASE NextCommand(k)
  BY <1>22 DEF NextCommand
<1> QED BY <1>1, <1>2, <1>3, <1>4, <1>5, <1>6, <1>7, <1>8, <1>9, <1>10, <1>11, <1>12, <1>13,
  <1>14, <1>15, <1>16, <1>17, <1>18, <1>19, <1>20, <1>21, <1>22 DEF ManagerStep

\* So are the steps of the connections screen.
LEMMA ScreenStepMoves ==
  ASSUME TypeOK, GuardsInv, NEW k \in Calls, ScreenStep(k)
  PROVE  Move(k)
<1> USE NoneAssumption DEF TypeOK, GuardsInv, Move, Awaiting, ConnectPcs, LoginPcs
<1>1. CASE LeaveScreen(k)
  BY <1>1 DEF LeaveScreen
<1>2. CASE AcceptInstall(k)
  BY <1>2 DEF AcceptInstall, Goto
<1>3. CASE Decline(k)
  BY <1>3 DEF Decline, BeginDisconnect, Finish, ManagerDisconnect
<1>4. CASE InstallDone(k)
  BY <1>4 DEF InstallDone, Finish, ManagerContinue
<1>5. CASE AcceptForwarding(k)
  BY <1>5 DEF AcceptForwarding, Finish, Goto
<1>6. CASE ForwardingEnabled(k)
  BY <1>6 DEF ForwardingEnabled, Finish, ManagerContinue
<1>7. CASE EnableFailed(k)
  BY <1>7 DEF EnableFailed, Finish
<1> QED BY <1>1, <1>2, <1>3, <1>4, <1>5, <1>6, <1>7 DEF ScreenStep

\* So are the steps of the login screen.
LEMMA LoginStepMoves ==
  ASSUME TypeOK, GuardsInv, NEW k \in Calls, LoginStep(k)
  PROVE  Move(k)
<1> USE NoneAssumption DEF TypeOK, GuardsInv, Move, Awaiting, ConnectPcs, LoginPcs
<1>1. ASSUME NEW s \in Sessions, LoginDialed(k, s) PROVE Move(k)
  BY <1>1 DEF LoginDialed, Finish, Goto, LoginEnds, LoginGoes
<1>2. ASSUME NEW s \in Sessions, LoginRedialed(k, s) PROVE Move(k)
  BY <1>2 DEF LoginRedialed, Goto, LoginGoes
<1>3. ASSUME NEW ch \in Channels, LoginGrpcConnected(k, ch) PROVE Move(k)
  BY <1>3 DEF LoginGrpcConnected, Goto, LoginGoes
<1>4. CASE LoginDialFailed(k)
  BY <1>4 DEF LoginDialFailed, Finish, LoginEnds
<1>5. CASE LoginSudoOk(k)
  BY <1>5 DEF LoginSudoOk, Goto, LoginGoes
<1>6. CASE LoginSudoFailed(k)
  BY <1>6 DEF LoginSudoFailed, Finish, LoginEnds
<1>7. CASE LoginAgentFound(k)
  BY <1>7 DEF LoginAgentFound, Goto, LoginGoes
<1>8. CASE LoginAgentInstalled(k)
  BY <1>8 DEF LoginAgentInstalled, Finish, Goto, LoginEnds, LoginGoes
<1>9. CASE LoginAgentMissing(k)
  BY <1>9 DEF LoginAgentMissing, Finish, Goto, LoginEnds, LoginGoes
<1>10. CASE LoginAccepts(k)
  BY <1>10 DEF LoginAccepts, Goto, LoginGoes
<1>11. CASE LoginDeclines(k)
  BY <1>11 DEF LoginDeclines, Finish, LoginEnds
<1>12. CASE LoginInstallDone(k)
  BY <1>12 DEF LoginInstallDone, Finish, Goto, LoginEnds, LoginGoes
<1>13. CASE LoginForwardingOk(k)
  BY <1>13 DEF LoginForwardingOk, Goto, LoginGoes
<1>14. CASE LoginForwardingDisabled(k)
  BY <1>14 DEF LoginForwardingDisabled, Goto, LoginGoes
<1>15. CASE LoginEnabled(k)
  BY <1>15 DEF LoginEnabled, Goto, LoginGoes
<1>16. CASE LoginReplaces(k)
  BY <1>16 DEF LoginReplaces, Goto, LoginGoes
<1>17. CASE LoginEnableFailed(k)
  BY <1>17 DEF LoginEnableFailed, Goto, LoginGoes
<1>18. CASE LoginClosed(k)
  BY <1>18 DEF LoginClosed, Goto, LoginGoes
<1>19. CASE LoginRedials(k)
  BY <1>19 DEF LoginRedials, Goto, LoginGoes
<1>20. CASE LoginRedialFailed(k)
  BY <1>20 DEF LoginRedialFailed, Goto, LoginGoes
<1>21. CASE LoginAgentStarted(k)
  BY <1>21 DEF LoginAgentStarted, Goto, LoginGoes
<1>22. CASE LoginStartFailed(k)
  BY <1>22 DEF LoginStartFailed, Finish, LoginEnds
<1>23. CASE LoginTunnelBound(k)
  BY <1>23 DEF LoginTunnelBound, Goto, LoginGoes
<1>24. CASE LoginTunnelFailed(k)
  BY <1>24 DEF LoginTunnelFailed, Finish, LoginEnds
<1>25. CASE LoginLeftBeforeGrpc(k)
  BY <1>25 DEF LoginLeftBeforeGrpc, Finish, LoginEnds
<1>26. CASE LoginVersionFetched(k)
  BY <1>26 DEF LoginVersionFetched, Finish
<1> QED BY <1>1, <1>2, <1>3, <1>4, <1>5, <1>6, <1>7, <1>8, <1>9, <1>10, <1>11, <1>12, <1>13,
  <1>14, <1>15, <1>16, <1>17, <1>18, <1>19, <1>20, <1>21, <1>22, <1>23, <1>24, <1>25, <1>26 DEF
  LoginStep

\* So are the steps of a reconnect.
LEMMA ResumeStepMoves ==
  ASSUME TypeOK, GuardsInv, NEW k \in Calls, ResumeStep(k)
  PROVE  Move(k)
<1> USE NoneAssumption DEF TypeOK, GuardsInv, Move, Awaiting, ConnectPcs, LoginPcs
<1>1. CASE ResumeClosed(k)
  BY <1>1 DEF ResumeClosed, Goto
<1>2. CASE ResumeThrows(k)
  BY <1>2 DEF ResumeThrows, Finish
<1>3. CASE ResumeDials(k)
  BY <1>3, SshPiecesType DEF ResumeDials
<1>4. ASSUME NEW s \in Sessions, ResumeDialed(k, s) PROVE Move(k)
  BY <1>4 DEF ResumeDialed, Finish
<1>5. CASE ResumeFailed(k)
  BY <1>5 DEF ResumeFailed, Finish
<1> QED BY <1>1, <1>2, <1>3, <1>4, <1>5 DEF ResumeStep

\* So is what the user starts.
LEMMA UserStartsMoves ==
  ASSUME TypeOK, GuardsInv, NEW k \in Calls, UserStarts(k)
  PROVE  Move(k)
<1> USE NoneAssumption DEF TypeOK, GuardsInv, Move, Awaiting, ConnectPcs, LoginPcs
<1>1. ASSUME NEW c \in Conns, TapConnect(k, c) PROVE Move(k)
  BY <1>1 DEF TapConnect, BeginDisconnect, Connecting, Dial, ManagerConnect
<1>2. ASSUME NEW c \in Conns, TapDevice(k, c) PROVE Move(k)
  BY <1>2 DEF TapDevice
<1>3. CASE UserDisconnect(k)
  BY <1>3 DEF UserDisconnect, Goto
<1>4. CASE UserDisconnectIgnored(k)
  BY <1>4 DEF UserDisconnectIgnored, callVars
<1>5. CASE Resume(k)
  BY <1>5, SshPiecesType DEF Resume, Goto
<1> QED BY <1>1, <1>2, <1>3, <1>4, <1>5 DEF UserStarts

---------------------------------------------------------------------------
(* Moves are steps of SshClients *)

\* Every move is a step of one caller of SSHService, or of none.
LEMMA MoveImplements ==
  ASSUME TypeOK, NEW k \in Calls, Move(k)
  PROVE  [Ssh!ClientsNext]_(Ssh!clientsVars)
<1> DEFINE doing == [j \in Calls |-> Awaiting(pc[j])]
           dialing == [j \in Calls |-> IF Awaiting(pc[j]) = "dial" THEN arg[j] ELSE None]
<1> DEFINE from == Awaiting(pc[k])
           to == Awaiting(pc'[k])
<1>1. doing' = [doing EXCEPT ![k] = to]
  BY DEF Move
<1>2. dialing' = [dialing EXCEPT ![k] = IF to = "dial" THEN arg'[k] ELSE None]
  BY DEF Move
<1>3. doing[k] = from /\ dialing[k] = IF from = "dial" THEN arg[k] ELSE None
  OBVIOUS
<1>4. from # "dial" => dialing = [dialing EXCEPT ![k] = None]
  OBVIOUS
<1>5. to = from => doing = [doing EXCEPT ![k] = to]
  OBVIOUS
<1> HIDE DEF doing, dialing
<1>6. CASE from = "idle" /\ to = "idle" /\ UNCHANGED sshVars
  <2>1. UNCHANGED <<sshVars, doing, dialing>>
    BY <1>1, <1>2, <1>4, <1>5, <1>6
  <2> QED
    BY <2>1 DEF Ssh!clientsVars, Ssh!sshVars, sshVars, doing, dialing
<1>7. CASE from = to /\ arg'[k] = arg[k] /\ UNCHANGED sshVars
  <2>1. dialing' = dialing
    BY <1>2, <1>3, <1>4, <1>7 DEF dialing
  <2>2. UNCHANGED <<sshVars, doing, dialing>>
    BY <1>1, <1>5, <1>7, <2>1
  <2> QED
    BY <2>2 DEF Ssh!clientsVars, Ssh!sshVars, sshVars, doing, dialing
<1>8. CASE from = "idle" /\ to = "dial" /\ arg'[k] \in Conns /\ DialBegin(arg'[k])
  <2>1. PICK c \in Conns : c = arg'[k]
    BY <1>8
  <2>2. Ssh!Connect(k, c)
    BY <1>1, <1>2, <1>3, <1>8, <2>1
    DEF Ssh!Connect, Ssh!DialBegin, DialBegin, Ssh!Await, doing, dialing
  <2> QED
    BY <2>2 DEF Ssh!ClientsNext
<1>9. CASE from = "dial" /\ to = "idle" /\ \E s \in Sessions : DialOk(s, arg[k])
  <2>1. PICK s \in Sessions : DialOk(s, arg[k])
    BY <1>9
  <2>2. Ssh!Connected(k, s)
    BY <1>1, <1>2, <1>3, <1>9, <2>1
    DEF Ssh!Connected, Ssh!DialOk, DialOk, Ssh!Await, doing, dialing, Up, Ssh!Up
  <2> QED
    BY <2>2 DEF Ssh!ClientsNext
<1>10. CASE from = "dial" /\ to = "idle" /\ DialFail
  <2>1. Ssh!ConnectFailed(k)
    BY <1>1, <1>2, <1>3, <1>10
    DEF Ssh!ConnectFailed, Ssh!DialFail, DialFail, Ssh!Await, doing, dialing
  <2> QED
    BY <2>1 DEF Ssh!ClientsNext
<1>11. CASE from = "idle" /\ to = "close" /\ CloseBegin
  <2>1. Ssh!Disconnect(k)
    BY <1>1, <1>2, <1>3, <1>4, <1>11
    DEF Ssh!Disconnect, Ssh!CloseBegin, CloseBegin, Ssh!TunnelDown, TunnelDown, Ssh!Await,
      doing, dialing
  <2> QED
    BY <2>1 DEF Ssh!ClientsNext
<1>12. CASE from = "close" /\ to = "idle" /\ (CloseEnd \/ ("close" \in Faults /\ CloseThrows))
  <2>1. Ssh!Disconnected(k)
    BY <1>1, <1>2, <1>3, <1>4, <1>12
    DEF Ssh!Disconnected, Ssh!CloseEnd, CloseEnd, Ssh!CloseThrows, CloseThrows, Ssh!sshVars,
      sshVars, Ssh!Await, doing, dialing
  <2> QED
    BY <2>1 DEF Ssh!ClientsNext
<1>13. CASE from = "idle" /\ to = "bind" /\ BindBegin
  <2>1. Ssh!ForwardLocal(k)
    BY <1>1, <1>2, <1>3, <1>4, <1>13
    DEF Ssh!ForwardLocal, Ssh!BindBegin, BindBegin, Ssh!TunnelDown, TunnelDown, Ssh!Await,
      doing, dialing
  <2> QED
    BY <2>1 DEF Ssh!ClientsNext
<1>14. CASE from = "bind" /\ to = "idle" /\ (BindOk \/ BindFail)
  <2>1. Ssh!Forwarded(k)
    BY <1>1, <1>2, <1>3, <1>4, <1>14
    DEF Ssh!Forwarded, Ssh!BindOk, BindOk, Ssh!BindFail, BindFail, Ssh!sshVars, sshVars,
      Ssh!Await, doing, dialing
  <2> QED
    BY <2>1 DEF Ssh!ClientsNext
<1> QED
  BY <1>6, <1>7, <1>8, <1>9, <1>10, <1>11, <1>12, <1>13, <1>14 DEF Move

\* What runs by itself is the background of SshClients, or leaves SSHService alone.
LEMMA BackgroundImplements ==
  ASSUME Background \/ UNCHANGED vars
  PROVE  [Ssh!ClientsNext]_(Ssh!clientsVars)
<1>1. CASE Keepalive \/ Network
  <2>1. UNCHANGED <<pc, arg>>
    BY <1>1 DEF Keepalive, Network, callVars
  <2>2. \/ KeepaliveSend \/ KeepaliveStops \/ PingDone \/ PingClosed
        \/ \E s \in Sessions : LinkDrop(s)
    BY <1>1 DEF Keepalive, Network
  <2>3. Ssh!Background
    BY <2>1, <2>2
    DEF Ssh!Background, Ssh!KeepaliveSend, KeepaliveSend, Ssh!KeepaliveStops, KeepaliveStops,
      Ssh!PingDone, PingDone, Ssh!PingClosed, PingClosed, Ssh!LinkDrop, LinkDrop,
      Ssh!IsConnected, IsConnected, Ssh!Up, Up
  <2> QED
    BY <2>3 DEF Ssh!ClientsNext
<1>2. CASE Stats \/ UNCHANGED vars
  BY <1>2 DEF Stats, vars, callVars, Ssh!clientsVars, Ssh!sshVars, sshVars
<1> QED
  BY <1>1, <1>2 DEF Background

\* The app implements the contract of SSHService: whatever its users, screens and
\* the network do, each of its steps is one whole piece of connect, disconnect,
\* forwardLocal or the keepalive (ssh_service.dart:31-125, 142-235), run by a call
\* that was at that piece.
THEOREM AppKeepsContract == Spec => SshContract
<1>1. Init => Ssh!ClientsInit
  BY DEF Init, SshInit, Ssh!ClientsInit, Ssh!SshInit, Awaiting
<1>2. TypeOK /\ GuardsInv /\ [Next]_vars => [Ssh!ClientsNext]_(Ssh!clientsVars)
  <2> SUFFICES ASSUME TypeOK, GuardsInv, [Next]_vars
               PROVE  [Ssh!ClientsNext]_(Ssh!clientsVars)
    OBVIOUS
  <2>1. ASSUME NEW k \in Calls, UserStarts(k) \/ CallStep(k)
        PROVE  [Ssh!ClientsNext]_(Ssh!clientsVars)
    BY <2>1, MoveImplements, ManagerStepMoves, ScreenStepMoves, LoginStepMoves,
      ResumeStepMoves, UserStartsMoves DEF CallStep
  <2>2. CASE Background \/ UNCHANGED vars
    BY <2>2, BackgroundImplements
  <2> QED
    BY <2>1, <2>2 DEF Next
<1> QED
  BY <1>1, <1>2, TypeCorrect, GuardsInvariant, PTL DEF Spec, SshContract, Ssh!ClientsSpec
=============================================================================
