-------------------------- MODULE SshClientsProofs --------------------------
(***************************************************************************)
(* Proofs about SSHService under any callers (SshClients): for every       *)
(* number of callers, connections and sessions.                            *)
(***************************************************************************)
EXTENDS SshClients, SshServiceProofs

\* A step is one piece of one method, or leaves the service alone.
LEMMA StepIsPiece ==
  ASSUME ClientsTypeOK, [ClientsNext]_clientsVars
  PROVE  \/ \E c \in Conns : DialBegin(c)
         \/ \E s \in Sessions, c \in Conns \cup {None} : DialOk(s, c)
         \/ DialFail \/ CloseBegin \/ CloseEnd \/ CloseThrows
         \/ BindBegin \/ BindOk \/ BindFail
         \/ KeepaliveSend \/ KeepaliveStops \/ PingDone \/ PingClosed
         \/ \E s \in Sessions : LinkDrop(s)
         \/ UNCHANGED sshVars
BY DEF ClientsTypeOK, ClientsNext, clientsVars, Connect, Connected, ConnectFailed,
   Disconnect, Disconnected, ForwardLocal, Forwarded, Background

\* The fields of SSHService (ssh_service.dart:10-16) and the calls in flight keep
\* their types, whatever calls are made.
THEOREM ClientsTypeCorrect == ClientsSpec => []ClientsTypeOK
<1>1. ClientsInit => ClientsTypeOK
  BY DEF ClientsInit, SshInit, ClientsTypeOK, SshTypeOK, ConnectionState
<1>2. ClientsTypeOK /\ [ClientsNext]_clientsVars => ClientsTypeOK'
  <2> SUFFICES ASSUME ClientsTypeOK, [ClientsNext]_clientsVars PROVE ClientsTypeOK'
    OBVIOUS
  <2>1. SshTypeOK'
    BY StepIsPiece, SshPiecesType DEF ClientsTypeOK
  <2>2. /\ doing' \in [Callers -> {"idle", "dial", "close", "bind"}]
        /\ dialing' \in [Callers -> Conns \cup {None}]
    BY DEF ClientsTypeOK, ClientsNext, clientsVars, Connect, Connected, ConnectFailed,
       Disconnect, Disconnected, ForwardLocal, Forwarded, Background, Await
  <2> QED
    BY <2>1, <2>2 DEF ClientsTypeOK
<1> QED
  BY <1>1, <1>2, PTL DEF ClientsSpec

\* However calls of connect, disconnect and forwardLocal interleave at their
\* awaits with each other, with the keepalive and with a failing network:
\* "connected" comes with a client, a tunnel believed open holds the port, and a
\* failing keepalive never cancels the timer of another session.
THEOREM ClientsSafe == ClientsSpec => [](ConnectedHasClient /\ BoundHoldsPort /\ PingCancelsOwn)
<1>1. ClientsInit => SshSafe
  BY NoneAssumption
  DEF ClientsInit, SshInit, SshSafe, ConnectedHasClient, BoundHoldsPort, PingCancelsOwn
<1>2. ClientsTypeOK /\ SshSafe /\ [ClientsNext]_clientsVars => SshSafe'
  BY StepIsPiece, SshPiecesSafe DEF ClientsTypeOK
<1>3. SshSafe => ConnectedHasClient /\ BoundHoldsPort /\ PingCancelsOwn
  BY DEF SshSafe
<1> QED
  BY <1>1, <1>2, <1>3, ClientsTypeCorrect, PTL DEF ClientsSpec

\* SshService.BoundHoldsPort: a tunnel is never believed open without its port.
THEOREM TunnelHoldsPort == ClientsSpec => []BoundHoldsPort
BY ClientsSafe, PTL
=============================================================================
