---------------------------- MODULE SshService ----------------------------
(***************************************************************************)
(* The app's one SSHService object (lib/services/ssh_service.dart).  It    *)
(* owns the current SSH client, the listener of the tunnel on the local    *)
(* port 50051 and the keepalive timer.                                     *)
(*                                                                         *)
(* Dart runs one isolate: the code between two awaits is one step, and     *)
(* everything else may run during an await.  Each method is cut at its     *)
(* awaits, and each piece is one operator here: its effect on the          *)
(* service's variables.  Who runs the piece, and when, is left to the      *)
(* modules that use it: SshClients lets anybody call anything,             *)
(* ConnectionSystem makes the calls the app makes.                         *)
(*                                                                         *)
(* A session stands for one SSHClient object with its transport.  The      *)
(* package dartssh2 and the Pi's sshd are outside the repository: a        *)
(* transport is up to some Pi until it is closed or lost.                  *)
(***************************************************************************)
CONSTANTS Sessions,   \* SSHClient objects; they are recycled, so the set bounds
                      \* how many can be in use or left open at a time
          Conns,      \* saved connections (a Pi each)
          None        \* null

ASSUME NoneAssumption == None \notin Sessions /\ None \notin Conns

VARIABLES
  client,     \* _client: the current session
  sshState,   \* _state
  sshConn,    \* _currentConnection
  tunnel,     \* _tunnelSocket: none, closed (still referenced) or bound
  portHeld,   \* some listener of this process holds the local port
  timer,      \* the timer in _keepaliveTimer is armed
  ping,       \* the session a keepalive command is in flight on
  pingOwn,    \* that command was sent by the timer still in _keepaliveTimer
  host        \* host[s]: the Pi session s is up to, None when its transport is down

sshVars == <<client, sshState, sshConn, tunnel, portHeld, timer, ping, pingOwn, host>>

ConnectionState == {"disconnected", "connecting", "connected", "error"}

SshTypeOK ==
  /\ client \in Sessions \cup {None}
  /\ sshState \in ConnectionState
  /\ sshConn \in Conns \cup {None}
  /\ tunnel \in {"none", "closed", "bound"}
  /\ portHeld \in BOOLEAN
  /\ timer \in BOOLEAN
  /\ ping \in Sessions \cup {None}
  /\ pingOwn \in BOOLEAN
  /\ host \in [Sessions -> Conns \cup {None}]

SshInit ==
  /\ client = None
  /\ sshState = "disconnected"
  /\ sshConn = None
  /\ tunnel = "none"
  /\ portHeld = FALSE
  /\ timer = FALSE
  /\ ping = None
  /\ pingOwn = FALSE
  /\ host = [s \in Sessions |-> None]

Up(s) == s \in Sessions /\ host[s] # None

IsConnected == client # None /\ sshState = "connected"

---------------------------------------------------------------------------
(* connect(connection) *)

\* Up to the await of SSHSocket.connect.
DialBegin(c) ==
  /\ sshState' = "connecting"
  /\ sshConn' = c
  /\ UNCHANGED <<client, tunnel, portHeld, timer, ping, pingOwn, host>>

\* Mutant of DialOk: the timer of the old client is kept for the new one.
DialOkKeepsTimer(s, c) ==
  /\ s \in Sessions \ {client, ping} /\ ~Up(s)
  /\ host' = [host EXCEPT ![s] = c]
  /\ client' = s
  /\ sshState' = "connected"
  /\ timer' = TRUE
  /\ UNCHANGED <<sshConn, tunnel, portHeld, ping, pingOwn>>

\* The socket is there: the new client replaces the old one, which nobody
\* closes, and a new timer replaces the old one.
DialOk(s, c) ==
  /\ s \in Sessions \ {client, ping} /\ ~Up(s)
  /\ host' = [host EXCEPT ![s] = c]
  /\ client' = s
  /\ sshState' = "connected"
  /\ timer' = TRUE
  /\ pingOwn' = FALSE
  /\ UNCHANGED <<sshConn, tunnel, portHeld, ping>>

\* Mutant of DialFail: a state the service's states do not have.
DialFailOddState ==
  /\ sshState' = "failed"
  /\ UNCHANGED <<client, sshConn, tunnel, portHeld, timer, ping, pingOwn, host>>

DialFail ==
  /\ sshState' = "error"
  /\ UNCHANGED <<client, sshConn, tunnel, portHeld, timer, ping, pingOwn, host>>

---------------------------------------------------------------------------
(* disconnect() *)

\* _tunnelSocket?.close(): the port is free, the reference stays.
TunnelDown ==
  /\ tunnel' = IF tunnel = "bound" THEN "closed" ELSE tunnel
  /\ portHeld' = IF tunnel = "bound" THEN FALSE ELSE portHeld

\* Up to the await of _tunnelSocket?.close().
CloseBegin ==
  /\ timer' = FALSE
  /\ pingOwn' = FALSE
  /\ TunnelDown
  /\ UNCHANGED <<client, sshState, sshConn, ping, host>>

\* Mutants of CloseEnd: the state is not reset; the client is dropped, not closed.
CloseEndKeepsState ==
  /\ tunnel' = "none"
  /\ host' = [s \in Sessions |-> IF s = client THEN None ELSE host[s]]
  /\ client' = None
  /\ sshConn' = None
  /\ UNCHANGED <<sshState, portHeld, timer, ping, pingOwn>>

CloseEndLeavesOpen ==
  /\ tunnel' = "none"
  /\ client' = None
  /\ sshConn' = None
  /\ sshState' = "disconnected"
  /\ UNCHANGED <<host, portHeld, timer, ping, pingOwn>>

\* The rest: whatever client and tunnel are current by now are dropped.  A
\* listener bound during the await keeps the port.
CloseEnd ==
  /\ tunnel' = "none"
  /\ host' = [s \in Sessions |-> IF s = client THEN None ELSE host[s]]
  /\ client' = None
  /\ sshConn' = None
  /\ sshState' = "disconnected"
  /\ UNCHANGED <<portHeld, timer, ping, pingOwn>>

\* close() threw: the catch only logs.
CloseThrows == UNCHANGED sshVars

---------------------------------------------------------------------------
(* forwardLocal(50051, 'localhost', 50051) *)

\* Up to the await of the old tunnel's close.
BindBegin ==
  /\ client # None
  /\ TunnelDown
  /\ UNCHANGED <<client, sshState, sshConn, timer, ping, pingOwn, host>>

\* ServerSocket.bind answered; bind refuses a port that is held.
BindOk ==
  /\ ~portHeld
  /\ tunnel' = "bound"
  /\ portHeld' = TRUE
  /\ UNCHANGED <<client, sshState, sshConn, timer, ping, pingOwn, host>>

\* Mutant of BindFail: the field is assigned before bind has answered.
BindFailAssigns ==
  /\ tunnel' = "bound"
  /\ UNCHANGED <<client, sshState, sshConn, portHeld, timer, ping, pingOwn, host>>

\* The port is held, by this process or another one, or the close threw.
BindFail == UNCHANGED sshVars

---------------------------------------------------------------------------
(* The keepalive timer *)

KeepaliveSend ==
  /\ timer /\ IsConnected /\ ping = None
  /\ ping' = client
  /\ pingOwn' = TRUE
  /\ UNCHANGED <<client, sshState, sshConn, tunnel, portHeld, timer, host>>

\* Mutant of KeepaliveStops: the tick returns and leaves the timer armed.
KeepaliveReturns ==
  /\ timer /\ ~IsConnected
  /\ UNCHANGED sshVars

KeepaliveStops ==
  /\ timer /\ ~IsConnected
  /\ timer' = FALSE
  /\ pingOwn' = FALSE
  /\ UNCHANGED <<client, sshState, sshConn, tunnel, portHeld, ping, host>>

\* Answered, timed out after 5 s, or failed for another reason than a closed
\* transport: only logged.
PingDone ==
  /\ ping # None
  /\ ping' = None
  /\ pingOwn' = FALSE
  /\ UNCHANGED <<client, sshState, sshConn, tunnel, portHeld, timer, host>>

\* The command failed because its transport is closed.
PingClosed ==
  /\ ping # None /\ ~Up(ping)
  /\ sshState' = "error"
  /\ timer' = (timer /\ ~pingOwn)
  /\ ping' = None
  /\ pingOwn' = FALSE
  /\ UNCHANGED <<client, sshConn, tunnel, portHeld, host>>

\* A transport is lost (Wi-Fi, reboot of the Pi, restart of sshd).
LinkDrop(s) ==
  /\ Up(s)
  /\ host' = [host EXCEPT ![s] = None]
  /\ UNCHANGED <<client, sshState, sshConn, tunnel, portHeld, timer, ping, pingOwn>>

---------------------------------------------------------------------------
(* Safety, whoever calls what and however the calls interleave *)

\* State "connected" comes with a client: code that tests isConnected, or a
\* reader of the state stream, never finds a null client behind the word,
\* although connect() and disconnect() write the two fields on either side of
\* awaits that other calls run through.
ConnectedHasClient == sshState = "connected" => client # None

\* A tunnel socket that is referenced and not closed is the one that holds the
\* local port: two overlapping forwardLocal calls never leave the service with
\* a socket that it believes open while the port belongs to nobody.
BoundHoldsPort == tunnel = "bound" => portHeld

\* A failing keepalive cancels the current timer (ssh_service.dart:91) only when
\* it was sent on the current client: a keepalive of a client that was replaced
\* or dropped since never silences the keepalive of its successor.
PingCancelsOwn == pingOwn /\ client # None => ping = client
=============================================================================
