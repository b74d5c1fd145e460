---------------------------- MODULE GrpcChannel ----------------------------
(***************************************************************************)
(* The app's one GrpcService object (lib/services/grpc_service.dart): its  *)
(* current channel to the agent, and the live statistics stream that the   *)
(* dashboard opens on it and keeps (liveStatsProvider).                    *)
(*                                                                         *)
(* A channel object is outside the repository (package grpc): shutdown()   *)
(* refuses new calls at once and returns when the calls in progress have   *)
(* ended.  Only the statistics stream lasts; the other calls are short and *)
(* left out.                                                               *)
(***************************************************************************)
EXTENDS SshService

CONSTANT Channels   \* ClientChannel objects; recycled, bounds how many are in use

ASSUME ChannelsAssumption == None \notin Channels

VARIABLES
  chan,      \* _channel: the current channel
  open,      \* channels created and not shut down
  stats,     \* liveStatsProvider: off, waiting (calling, or backing off), streaming
  statsChan, \* the channel its stream is on
  statsOn    \* the SSH session that stream is carried by

grpcVars == <<chan, open, stats, statsChan, statsOn>>

GrpcTypeOK ==
  /\ chan \in Channels \cup {None}
  /\ open \subseteq Channels
  /\ stats \in {"off", "waiting", "streaming"}
  /\ statsChan \in Channels \cup {None}
  /\ statsOn \in Sessions \cup {None}

GrpcInit ==
  /\ chan = None
  /\ open = {}
  /\ stats = "off"
  /\ statsChan = None
  /\ statsOn = None

\* connect(port): a new channel replaces the current one, which is not shut down.
GrpcConnect(ch) ==
  /\ ch \in Channels \ (open \cup {chan, statsChan})
  /\ chan' = ch
  /\ open' = open \cup {ch}
  /\ UNCHANGED <<stats, statsChan, statsOn>>

\* disconnect(), up to the await of _channel?.shutdown().
ShutdownBegin ==
  /\ open' = open \ {chan}
  /\ UNCHANGED <<chan, stats, statsChan, statsOn>>

\* The calls in progress on channel ch have ended.
Drained(ch) == statsChan # ch

\* Mutant of ShutdownEnd: the reference to the closed channel is kept.
ShutdownEndKeepsChannel == UNCHANGED grpcVars

\* The rest of disconnect(), whatever channel is current by now.
ShutdownEnd ==
  /\ chan' = None
  /\ UNCHANGED <<open, stats, statsChan, statsOn>>

\* shutdown() threw: the exception leaves disconnect() before the assignments.
ShutdownThrows == UNCHANGED grpcVars

---------------------------------------------------------------------------
(* liveStatsProvider and streamStats().  The provider is never disposed    *)
(* (keepAlive is not closed), so the stream is never cancelled.            *)

\* A widget listens, or the user retries after an error.
StatsListen ==
  /\ stats = "off"
  /\ chan # None
  /\ stats' = "waiting"
  /\ UNCHANGED <<chan, open, statsChan, statsOn>>

\* The call reaches the agent through the tunnel of the current session.
StatsStart ==
  /\ stats = "waiting"
  /\ chan \in open /\ portHeld /\ Up(client)
  /\ stats' = "streaming"
  /\ statsChan' = chan
  /\ statsOn' = client
  /\ UNCHANGED <<chan, open>>

\* The retry finds no client: not a GrpcError, so it is rethrown.
StatsGivesUp ==
  /\ stats = "waiting"
  /\ chan = None
  /\ stats' = "off"
  /\ UNCHANGED <<chan, open, statsChan, statsOn>>

\* The session under the stream is gone.  The error is retried when the code is
\* UNAVAILABLE or UNKNOWN, rethrown otherwise.
StatsBreaks ==
  /\ stats = "streaming"
  /\ ~Up(statsOn)
  /\ stats' \in {"waiting", "off"}
  /\ statsChan' = None
  /\ statsOn' = None
  /\ UNCHANGED <<chan, open>>
=============================================================================
