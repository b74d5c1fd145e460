---------------------------- MODULE FileTransfer ----------------------------
(***************************************************************************)
(* The app's transfers (lib/services/grpc_file_transfer_service.dart) and  *)
(* the agent's handlers behind them: uploads, downloads and deletions of   *)
(* the same few paths at once, as the files screen starts them.            *)
(*                                                                         *)
(* Chunks are put on a stream without waiting for the agent; the two ends  *)
(* learn that the transport is lost each in its own time.                  *)
(***************************************************************************)
EXTENDS FileServer, FiniteSets

CONSTANTS
  MaxTransfers, \* bound: transfers begun
  Sizes,     \* file sizes the app may have read when an upload starts
  Serial,    \* the user waits for each transfer before the next
  MaxChunks  \* bound: full chunks in a file

ASSUME SizesAssumption == Sizes \subseteq Nat
ASSUME SerialAssumption == Serial \in BOOLEAN
ASSUME BoundsAssumption == MaxTransfers \in Nat /\ MaxChunks \in Nat

VARIABLES
  status, \* what has become of each transfer's future
  met     \* history: transfers whose path another one, or a deletion, changed meanwhile

appVars == <<status, met>>
vars == <<serverVars, appVars>>

\* "stuck" and "abandoned": see BeginUnheard and ReadFails.
Statuses == {"new", "active", "complete", "failed", "stuck", "abandoned"}

FilesTypeOK ==
  /\ ServerTypeOK
  /\ status \in [Transfers -> Statuses]
  /\ met \subseteq Transfers

Init ==
  /\ ServerInit
  /\ status = [t \in Transfers |-> "new"]
  /\ met = {}

Ends(t, result) == status' = [status EXCEPT ![t] = result]

\* Transfer t is in progress at either end.
Busy(t) == Running(t) \/ status[t] = "active"

\* Transfers in progress on the path p of t; two downloads do not disturb each other.
Rivals(t, p) ==
  {v \in Transfers \ {t} : Busy(v) /\ path[v] = p /\ (t \in Uploads \/ v \in Uploads)}

\* Transfers are numbered as they begin.
IsNext(t) ==
  /\ status[t] = "new"
  /\ \A v \in Transfers : (v \in Uploads <=> t \in Uploads) /\ v < t => status[v] # "new"
  /\ Serial => \A v \in Transfers : status[v] # "active"
  /\ Cardinality({v \in Transfers : status[v] # "new"}) < MaxTransfers

Begins(t, p, place) ==
  /\ IsNext(t)
  /\ Ends(t, "active")
  /\ Arrives(t, p, place)
  /\ met' = met \cup Rivals(t, p) \cup (IF Rivals(t, p) = {} THEN {} ELSE {t})
-----------------------------------------------------------------------------
(* uploadFile *)

\* The length is read, then the file: it may have changed in between.
BeginUpload(u, p, n) ==
  /\ Begins(u, p, "recv")
  /\ size' = [size EXCEPT ![u] = n]
  /\ UNCHANGED <<fileVars, streamVars, fd, taken, got, out>>

\* Without a client, or when the connection cannot be made, nobody listens to
\* the stream of chunks: close() never completes.
BeginUnheard(u) ==
  /\ IsNext(u)
  /\ Ends(u, "stuck")
  /\ UNCHANGED <<serverVars, met>>

\* A full chunk.
SendChunk(u) ==
  /\ status[u] = "active" /\ u \notin closed /\ sent[u] < MaxChunks
  /\ sent' = [sent EXCEPT ![u] = @ + 1]
  /\ UNCHANGED <<fileVars, handlerVars, path, size, link, tail, closed, appVars>>

\* Mutant of SendRest: a full chunk may be left in the buffer.
SendRestFull(u) ==
  /\ status[u] = "active" /\ u \notin closed
  /\ \E n \in 0 .. ChunkSize :
       /\ tail' = [tail EXCEPT ![u] = n]
       /\ sent' = [sent EXCEPT ![u] = IF n > 0 THEN @ + 1 ELSE @]
  /\ closed' = closed \cup {u}
  /\ UNCHANGED <<fileVars, handlerVars, path, size, link, appVars>>

\* The end of the file: what is left in the buffer is sent as the final chunk,
\* if anything is, and the stream is closed.
SendRest(u) ==
  /\ status[u] = "active" /\ u \notin closed
  /\ \E n \in 0 .. ChunkSize - 1 :
       /\ tail' = [tail EXCEPT ![u] = n]
       /\ sent' = [sent EXCEPT ![u] = IF n > 0 THEN @ + 1 ELSE @]
  /\ closed' = closed \cup {u}
  /\ UNCHANGED <<fileVars, handlerVars, path, size, link, appVars>>

\* Reading the local file throws: the stream is left as it is.
ReadFails(u) ==
  /\ status[u] = "active" /\ u \notin closed
  /\ Ends(u, "abandoned")
  /\ UNCHANGED <<serverVars, met>>

\* The agent's answer, awaited once the stream is closed.
UploadAnswered(u) ==
  /\ status[u] = "active" /\ u \in closed /\ handler[u] \in {"ok", "error"}
  /\ Ends(u, IF handler[u] = "ok" THEN "complete" ELSE "failed")
  /\ UNCHANGED <<serverVars, met>>
-----------------------------------------------------------------------------
(* downloadFile *)

BeginDownload(d, p) ==
  /\ Begins(d, p, "stat")
  /\ UNCHANGED <<fileVars, streamVars, size, fd, taken, got, out>>

\* The final chunk, the end of the stream, or an error of the agent.
DownloadAnswered(d) ==
  /\ status[d] = "active" /\ handler[d] \in {"ok", "error"}
  /\ Ends(d, IF handler[d] = "ok" THEN "complete" ELSE "failed")
  /\ UNCHANGED <<serverVars, met>>
-----------------------------------------------------------------------------
(* The transport, and deletions *)

\* The app loses the transport: what it still puts on the stream of an upload
\* goes nowhere, and the future fails.  A download also fails, and cancels its
\* stream, when the local file cannot be written.
Fails(t) ==
  /\ status[t] = "active"
  /\ Ends(t, "failed")
  /\ UNCHANGED <<serverVars, met>>

\* The agent learns it, which may be much later.
LinkBreaks(t) ==
  /\ t \in link
  /\ link' = link \ {t}
  /\ UNCHANGED <<fileVars, streamVars, handlerVars, path, size, appVars>>

Delete(p) ==
  /\ DeleteFile(p)
  /\ met' = met \cup {t \in Transfers : Busy(t) /\ path[t] = p}
  /\ UNCHANGED status
-----------------------------------------------------------------------------
AgentStep(t) ==
  /\ \/ t \in Uploads /\ UploadStep(t)
     \/ t \in Downloads /\ DownloadStep(t)
  /\ UNCHANGED appVars

\* What the app does by itself once a transfer has begun.
AppStep(t) ==
  \/ t \in Uploads /\ (SendChunk(t) \/ SendRest(t) \/ UploadAnswered(t))
  \/ t \in Downloads /\ DownloadAnswered(t)

Next ==
  \/ \E u \in Uploads, p \in Paths, n \in Sizes : BeginUpload(u, p, n)
  \/ \E u \in Uploads : BeginUnheard(u) \/ ReadFails(u)
  \/ \E d \in Downloads, p \in Paths : BeginDownload(d, p)
  \/ \E p \in Paths : Delete(p)
  \/ \E t \in Transfers : AgentStep(t) \/ AppStep(t) \/ Fails(t) \/ LinkBreaks(t)

Spec == Init /\ [][Next]_vars

\* What happens of itself: handlers run, files are read to their end, answers
\* arrive, and an end whose other end has gone learns of it.
Progress(t) ==
  \/ AgentStep(t)
  \/ AppStep(t)
  \/ t \notin link /\ Fails(t)
  \/ status[t] = "failed" /\ LinkBreaks(t)

\* Something of that happens while anything can: less than the code gives, where
\* each goroutine and future is scheduled fairly.
FairSpec == Spec /\ WF_vars(\E t \in Transfers : Progress(t))
-----------------------------------------------------------------------------
(* Properties *)

Content(p) == data[dir[p]]

\* A transfer nobody disturbed whose answer is on its way.
AloneAnswered(t) == t \notin met /\ status[t] = "active" /\ handler[t] = "ok"

\* An upload is reported complete only when the agent has written every chunk
\* the app read from the file.
AckedAll == \A u \in Uploads : status[u] = "complete" => u \in closed /\ taken[u] = sent[u]

\* When an undisturbed upload of a file that is not empty and did not shrink is
\* answered with success, its path leads to that file, block for block: no
\* clean-up, its own or of a handler left behind, has touched it.
UploadKept == \A u \in Uploads :
  AloneAnswered(u) /\ taken[u] > 0 /\ got[u] >= size[u]
    => /\ dir[path[u]] # None
       /\ Content(path[u]) = [i \in 1 .. got[u] |-> u]

\* An undisturbed upload that ends without success, after writing a part, leaves
\* no file that is shorter than announced.
NoPartialLeft == \A u \in Uploads :
  u \notin met /\ status[u] = "active" /\ handler[u] \in {"ok", "error"} /\ taken[u] > 0
    => dir[path[u]] = None \/ Len(Content(path[u])) >= size[u]

\* No upload that began on path p is still at work there, and nothing crossed one.
Calm(p) == \A u \in Uploads : path[u] = p => ~Running(u) /\ u \notin met

\* Files are whole for good: whatever failed at either end, and however long ago,
\* a file on a path where no upload is at work or was crossed is the one that was
\* there from the beginning, or one upload's alone, as long as announced.
FilesAtRest == \A p \in Paths :
  Calm(p) /\ dir[p] # None
    => \/ Content(p) = <<None>>
       \/ \E u \in Uploads : /\ path[u] = p /\ Len(Content(p)) >= size[u]
                             /\ \A i \in DOMAIN Content(p) : Content(p)[i] = u

\* An undisturbed download that succeeds has sent the whole file.
DownloadKept == \A d \in Downloads :
  AloneAnswered(d) => dir[path[d]] # None /\ out[d] = Content(path[d])

\* Transfers end, and so do their handlers, except those of abandoned uploads,
\* which wait for the next chunk as long as the transport is up.
Settled == \A t \in Transfers :
  /\ status[t] # "active"
  /\ Running(t) => status[t] = "abandoned" /\ t \in link
TransfersSettle == []<>Settled

\* A comment of UploadFile says that its deferred function deletes a partial
\* file (server_files.go:83): it never removes a complete one, which another
\* upload has put there.
RemovesOnlyPartial ==
  [][\A u, v \in Uploads :
       CleanUp(u) /\ status[v] = "complete" /\ path[v] = path[u] /\ dir[path[v]] # None
       /\ Content(path[v]) = [i \in 1 .. got[v] |-> v] /\ got[v] > 0
         => dir'[path[v]] # None]_vars
=============================================================================
