------------------------- MODULE ConnectionPromise -------------------------
(***************************************************************************)
(* What ConnectionManager promises ("atomic connect/disconnect operations  *)
(* with proper cleanup"), without the calls, awaits, timers and streams    *)
(* that keep it: a connection to a Pi is made of a session, a tunnel in    *)
(* it and a channel in the tunnel, in that order and all to one Pi; it is  *)
(* announced when all of them are there; it is undone from the top, and    *)
(* the next one begins when nothing is left of the last.                   *)
(***************************************************************************)
CONSTANTS Conns,   \* saved connections (a Pi each)
          None     \* nothing

VARIABLES
  phase,     \* off, making, on (announced to the app) or undoing
  target,    \* the connection that is being made, or is on
  session,   \* the connection the session was dialed for
  links,     \* the Pis some transport of the app is up to
  tunnel,    \* the local port is held
  channel    \* a channel to the agent is open

promiseVars == <<phase, target, session, links, tunnel, channel>>

PromiseInit ==
  /\ phase = "off" /\ target = None
  /\ session = None /\ links = {}
  /\ ~tunnel /\ ~channel

Begin(c) ==
  /\ phase = "off" /\ phase' = "making" /\ target' = c
  /\ UNCHANGED <<session, links, tunnel, channel>>

MakeSession ==
  /\ phase = "making" /\ session = None /\ ~tunnel /\ ~channel
  /\ session' = target /\ links' = {target}
  /\ UNCHANGED <<phase, target, tunnel, channel>>

MakeTunnel ==
  /\ phase = "making" /\ session = target /\ ~tunnel /\ ~channel
  /\ tunnel' = TRUE
  /\ UNCHANGED <<phase, target, session, links, channel>>

MakeChannel ==
  /\ phase = "making" /\ session = target /\ tunnel /\ ~channel
  /\ channel' = TRUE
  /\ UNCHANGED <<phase, target, session, links, tunnel>>

Announce ==
  /\ phase = "making" /\ session = target /\ tunnel /\ channel
  /\ phase' = "on"
  /\ UNCHANGED <<target, session, links, tunnel, channel>>

\* The user disconnects or connects to another Pi, or a step of the making failed:
\* from here on no new call uses the channel.
Undo ==
  /\ phase # "undoing" /\ phase' = "undoing" /\ target' = None
  /\ channel' = FALSE
  /\ UNCHANGED <<session, links, tunnel>>

UndoTunnel ==
  /\ phase = "undoing" /\ tunnel
  /\ tunnel' = FALSE
  /\ UNCHANGED <<phase, target, session, links, channel>>

Undone ==
  /\ phase = "undoing" /\ ~tunnel /\ ~channel
  /\ phase' = "off" /\ session' = None /\ links' = {}
  /\ UNCHANGED <<target, tunnel, channel>>

\* The network may take the transport at any time; it changes nothing else.
Lose ==
  /\ links # {} /\ links' = {}
  /\ UNCHANGED <<phase, target, session, tunnel, channel>>

PromiseNext ==
  \/ \E c \in Conns : Begin(c)
  \/ MakeSession \/ MakeTunnel \/ MakeChannel \/ Announce
  \/ Undo \/ UndoTunnel \/ Undone \/ Lose

PromiseSpec == PromiseInit /\ [][PromiseNext]_promiseVars
=============================================================================
