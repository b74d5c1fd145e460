-------------------------- MODULE SshServiceProofs --------------------------
(***************************************************************************)
(* Lemmas about the pieces of SSHService's methods, whoever runs them.     *)
(***************************************************************************)
EXTENDS SshService, TLAPS

\* Every piece of every method keeps the types of the service's fields.
LEMMA SshPiecesType ==
  ASSUME SshTypeOK
  PROVE  /\ client \in Sessions \cup {None}
         /\ sshConn \in Conns \cup {None}
         /\ \A c \in Conns \cup {None} : DialBegin(c) => SshTypeOK'
         /\ \A s \in Sessions, c \in Conns \cup {None} : DialOk(s, c) => SshTypeOK'
         /\ DialFail \/ CloseBegin \/ CloseEnd \/ CloseThrows => SshTypeOK'
         /\ BindBegin \/ BindOk \/ BindFail => SshTypeOK'
         /\ KeepaliveSend \/ KeepaliveStops \/ PingDone \/ PingClosed => SshTypeOK'
         /\ \A s \in Sessions : LinkDrop(s) => SshTypeOK'
         /\ UNCHANGED sshVars => SshTypeOK'
<1> USE DEF SshTypeOK, ConnectionState
<1>1. ASSUME NEW c \in Conns \cup {None}, DialBegin(c) PROVE SshTypeOK'
  BY <1>1 DEF DialBegin
<1>2. ASSUME NEW s \in Sessions, NEW c \in Conns \cup {None}, DialOk(s, c) PROVE SshTypeOK'
  BY <1>2 DEF DialOk
<1>3. DialFail => SshTypeOK'
  BY DEF DialFail
<1>4. CloseBegin => SshTypeOK'
  BY DEF CloseBegin, TunnelDown
<1>5. CloseEnd => SshTypeOK'
  BY DEF CloseEnd
<1>6. UNCHANGED sshVars => SshTypeOK'
  BY DEF sshVars
<1>7. BindBegin => SshTypeOK'
  BY DEF BindBegin, TunnelDown
<1>8. BindOk => SshTypeOK'
  BY DEF BindOk
<1>9. KeepaliveSend \/ KeepaliveStops \/ PingDone => SshTypeOK'
  BY DEF KeepaliveSend, KeepaliveStops, PingDone, IsConnected
<1>10. PingClosed => SshTypeOK'
  BY DEF PingClosed
<1>11. ASSUME NEW s \in Sessions, LinkDrop(s) PROVE SshTypeOK'
  BY <1>11 DEF LinkDrop
<1>12. client \in Sessions \cup {None} /\ sshConn \in Conns \cup {None}
  OBVIOUS
<1> HIDE DEF SshTypeOK
<1> QED
  BY <1>1, <1>2, <1>3, <1>4, <1>5, <1>6, <1>7, <1>8, <1>9, <1>10, <1>11, <1>12
  DEF CloseThrows, BindFail

\* The safety of the service: "connected" comes with a client, a tunnel socket
\* believed open holds the port, and a failing keepalive whose timer is the
\* current one is not about another session than the current one.
SshSafe == ConnectedHasClient /\ BoundHoldsPort /\ PingCancelsOwn

\* Every piece of every method keeps the safety of the service, so it does not
\* matter in which order callers run them.
LEMMA SshPiecesSafe ==
  ASSUME SshTypeOK, SshSafe
  PROVE  /\ \A c : DialBegin(c) => SshSafe'
         /\ \A s \in Sessions : \A c : DialOk(s, c) => SshSafe'
         /\ DialFail \/ CloseBegin \/ CloseEnd \/ CloseThrows => SshSafe'
         /\ BindBegin \/ BindOk \/ BindFail => SshSafe'
         /\ KeepaliveSend \/ KeepaliveStops \/ PingDone \/ PingClosed => SshSafe'
         /\ \A s \in Sessions : LinkDrop(s) => SshSafe'
         /\ UNCHANGED sshVars => SshSafe'
<1> USE NoneAssumption DEF SshTypeOK, SshSafe, ConnectedHasClient, BoundHoldsPort, PingCancelsOwn
<1>1. ASSUME NEW c, DialBegin(c) PROVE SshSafe'
  BY <1>1 DEF DialBegin
<1>2. ASSUME NEW s \in Sessions, NEW c, DialOk(s, c) PROVE SshSafe'
  BY <1>2 DEF DialOk
<1>3. DialFail => SshSafe'
  BY DEF DialFail
<1>4. CloseBegin => SshSafe'
  BY DEF CloseBegin, TunnelDown
<1>5. CloseEnd => SshSafe'
  BY DEF CloseEnd
<1>6. UNCHANGED sshVars => SshSafe'
  BY DEF sshVars
<1>7. BindBegin => SshSafe'
  BY DEF BindBegin, TunnelDown
<1>8. BindOk => SshSafe'
  BY DEF BindOk
<1>9. KeepaliveSend \/ KeepaliveStops \/ PingDone => SshSafe'
  BY DEF KeepaliveSend, KeepaliveStops, PingDone, IsConnected
<1>10. PingClosed => SshSafe'
  BY DEF PingClosed
<1>11. ASSUME NEW s \in Sessions, LinkDrop(s) PROVE SshSafe'
  BY <1>11 DEF LinkDrop
<1> HIDE DEF SshSafe
<1> QED
  BY <1>1, <1>2, <1>3, <1>4, <1>5, <1>6, <1>7, <1>8, <1>9, <1>10, <1>11
  DEF CloseThrows, BindFail
=============================================================================
