---------------------------- MODULE SshClients ----------------------------
(***************************************************************************)
(* SSHService under callers that know nothing of each other: every call    *)
(* of connect, disconnect and forwardLocal may be made at any time, by     *)
(* any number of callers, and they interleave at their awaits.  What holds *)
(* here holds whatever the rest of the app does; ConnectionSystem is       *)
(* checked to be one of the behaviours described here.                     *)
(***************************************************************************)
EXTENDS SshService

CONSTANTS Callers,   \* calls that can be in flight at a time
          CanThrow   \* whether closing the tunnel socket may throw

ASSUME CanThrowAssumption == CanThrow \in BOOLEAN

VARIABLES
  doing,    \* doing[k]: the await call k is suspended in
  dialing   \* dialing[k]: the argument of its connect()

clientsVars == <<sshVars, doing, dialing>>

ClientsTypeOK ==
  /\ SshTypeOK
  /\ doing \in [Callers -> {"idle", "dial", "close", "bind"}]
  /\ dialing \in [Callers -> Conns \cup {None}]

ClientsInit ==
  /\ SshInit
  /\ doing = [k \in Callers |-> "idle"]
  /\ dialing = [k \in Callers |-> None]

Await(k, what) == doing' = [doing EXCEPT ![k] = what]

Connect(k, c) ==
  /\ doing[k] = "idle"
  /\ DialBegin(c)
  /\ Await(k, "dial")
  /\ dialing' = [dialing EXCEPT ![k] = c]

Connected(k, s) ==
  /\ doing[k] = "dial"
  /\ DialOk(s, dialing[k])
  /\ Await(k, "idle")
  /\ dialing' = [dialing EXCEPT ![k] = None]

ConnectFailed(k) ==
  /\ doing[k] = "dial"
  /\ DialFail
  /\ Await(k, "idle")
  /\ dialing' = [dialing EXCEPT ![k] = None]

Disconnect(k) ==
  /\ doing[k] = "idle"
  /\ CloseBegin
  /\ Await(k, "close")
  /\ UNCHANGED dialing

Disconnected(k) ==
  /\ doing[k] = "close"
  /\ CloseEnd \/ (CanThrow /\ CloseThrows)
  /\ Await(k, "idle")
  /\ UNCHANGED dialing

ForwardLocal(k) ==
  /\ doing[k] = "idle"
  /\ BindBegin
  /\ Await(k, "bind")
  /\ UNCHANGED dialing

Forwarded(k) ==
  /\ doing[k] = "bind"
  /\ BindOk \/ BindFail
  /\ Await(k, "idle")
  /\ UNCHANGED dialing

Background ==
  /\ \/ KeepaliveSend \/ KeepaliveStops \/ PingDone \/ PingClosed
     \/ \E s \in Sessions : LinkDrop(s)
  /\ UNCHANGED <<doing, dialing>>

ClientsNext ==
  \/ \E k \in Callers :
       \/ \E c \in Conns : Connect(k, c)
       \/ \E s \in Sessions : Connected(k, s)
       \/ ConnectFailed(k)
       \/ Disconnect(k)
       \/ Disconnected(k)
       \/ ForwardLocal(k)
       \/ Forwarded(k)
  \/ Background

ClientsSpec == ClientsInit /\ [][ClientsNext]_clientsVars

\* The periodic timer fires, and a keepalive ends (its timeout is 5 s).
ClientsFairSpec ==
  /\ ClientsSpec
  /\ WF_clientsVars(KeepaliveStops /\ UNCHANGED <<doing, dialing>>)
  /\ WF_clientsVars(PingDone /\ UNCHANGED <<doing, dialing>>)

---------------------------------------------------------------------------
\* No keepalive timer outlives its client: a timer that connect() armed between
\* the two halves of a disconnect() is not stopped by that disconnect, so only
\* its own next tick can stop it, and it does unless a new client came.
NoOrphanTimer == (timer /\ client = None) ~> (~timer \/ client # None)
=============================================================================
