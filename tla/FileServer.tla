----------------------------- MODULE FileServer -----------------------------
(***************************************************************************)
(* The agent's UploadFile, DownloadFile and DeleteFile                     *)
(* (agent/server_files.go): one goroutine per call over one file system.   *)
(*                                                                         *)
(* A file is a sequence of blocks, and a block is named by the upload that *)
(* wrote it: block i of upload u is always the same, so the name and the   *)
(* position say what it holds.  A path leads to an inode, which lives on   *)
(* for those who have it open when the path is removed.                    *)
(*                                                                         *)
(* Block None is one that was there before, or a hole.                     *)
(***************************************************************************)
EXTENDS Integers, Sequences

CONSTANTS
  Uploads,    \* calls of UploadFile, by number
  Downloads,  \* calls of DownloadFile, by number
  Paths,
  Inodes,     \* recycled: bounds how many are in use
  ChunkSize,  \* blocks in every chunk but the last
  None

Transfers == Uploads \cup Downloads

ASSUME TransfersAssumption == Uploads \cap Downloads = {} /\ Transfers \subseteq Nat
ASSUME ChunkAssumption == ChunkSize \in Nat \ {0}
ASSUME NoFileAssumption == Inodes \subseteq Nat /\ None \notin Inodes \cup Uploads \cup Paths

VARIABLES
  dir,     \* the inode of each path, None if there is no file
  data,    \* the blocks of each inode
  path,    \* the path of each transfer
  size,    \* total_size: as announced by an upload, as found by a download
  sent,    \* chunks an upload has put on its stream
  tail,    \* blocks in the last of them if it is the final one, else 0
  closed,  \* uploads that have half-closed their stream
  link,    \* calls in progress whose transport is up as seen from the agent
  handler, \* where each handler is
  fd,      \* the inode it has open
  taken,   \* chunks an upload has written
  got,     \* receivedBytes of an upload, currentOffset of a download
  out      \* the blocks a download has sent

fileVars == <<dir, data>>
streamVars == <<sent, tail, closed>>
handlerVars == <<handler, fd, taken, got, out>>
serverVars == <<fileVars, streamVars, handlerVars, path, size, link>>

Blocks == Seq(Uploads \cup {None})

Handlers == {"none", "recv", "write", "stat", "open", "read",
             "return-ok", "return-error", "ok", "error"}

ServerTypeOK ==
  /\ dir \in [Paths -> Inodes \cup {None}]
  /\ data \in [Inodes -> Blocks]
  /\ path \in [Transfers -> Paths \cup {None}]
  /\ size \in [Transfers -> Nat]
  /\ sent \in [Uploads -> Nat]
  /\ tail \in [Uploads -> 0 .. ChunkSize - 1]
  /\ closed \subseteq Uploads
  /\ link \subseteq Transfers
  /\ handler \in [Transfers -> Handlers]
  /\ fd \in [Transfers -> Inodes \cup {None}]
  /\ taken \in [Uploads -> Nat]
  /\ got \in [Transfers -> Nat]
  /\ out \in [Downloads -> Blocks]

\* Some paths lead to a file of one block.
ServerInit ==
  /\ dir \in [Paths -> Inodes \cup {None}]
  /\ \A p, q \in Paths : dir[p] = dir[q] => dir[p] = None \/ p = q
  /\ data = [i \in Inodes |-> IF \E p \in Paths : dir[p] = i THEN <<None>> ELSE <<>>]
  /\ path = [t \in Transfers |-> None]
  /\ size = [t \in Transfers |-> 0]
  /\ sent = [u \in Uploads |-> 0]
  /\ tail = [u \in Uploads |-> 0]
  /\ closed = {}
  /\ link = {}
  /\ handler = [t \in Transfers |-> "none"]
  /\ fd = [t \in Transfers |-> None]
  /\ taken = [u \in Uploads |-> 0]
  /\ got = [t \in Transfers |-> 0]
  /\ out = [d \in Downloads |-> <<>>]

Running(t) == handler[t] \notin {"none", "ok", "error"}

\* Blocks old with n blocks of upload u written at position at: what was
\* beyond the end before stays a hole.
Overwrite(old, at, n, u) ==
  [i \in 1 .. (IF at + n > Len(old) THEN at + n ELSE Len(old)) |->
     IF i \in at + 1 .. at + n THEN u ELSE IF i <= Len(old) THEN old[i] ELSE None]

At(t, place) == handler' = [handler EXCEPT ![t] = place]

\* The handler is over: its status is sent.
Over(t, result) ==
  /\ At(t, result)
  /\ fd' = [fd EXCEPT ![t] = None]
  /\ link' = link \ {t}

\* The call of transfer t arrives.
Arrives(t, p, place) ==
  /\ path' = [path EXCEPT ![t] = p]
  /\ link' = link \cup {t}
  /\ At(t, place)
-----------------------------------------------------------------------------
(* UploadFile *)

\* Mutant of IsFinal: every chunk taken once the end has been sent.
IsFinalAny(u) == tail[u] > 0

\* The next chunk of upload u, if there is one: is_final, its blocks.
HasChunk(u) == taken[u] < sent[u]
IsFinal(u) == tail[u] > 0 /\ taken[u] + 1 = sent[u]
ChunkBlocks(u) == IF IsFinal(u) THEN tail[u] ELSE ChunkSize

\* A new file gets the first unused inode.
Unused(i) == (\A p \in Paths : dir[p] # i) /\ (\A t \in Transfers : fd[t] # i)

\* Mutant of OpenFile: without O_TRUNC.
OpenFileKeeps(u) ==
  /\ handler[u] = "recv" /\ fd[u] = None /\ HasChunk(u)
  /\ \E i \in Inodes :
       /\ \/ i = dir[path[u]]
          \/ dir[path[u]] = None /\ Unused(i) /\ \A j \in Inodes : Unused(j) => i <= j
       /\ dir' = [dir EXCEPT ![path[u]] = i]
       /\ data' = [data EXCEPT ![i] = IF dir[path[u]] = i THEN @ ELSE <<>>]
       /\ fd' = [fd EXCEPT ![u] = i]
  /\ At(u, "write")
  /\ UNCHANGED <<taken, got, out, streamVars, path, size, link>>

\* The first chunk creates or truncates the file.
OpenFile(u) ==
  /\ handler[u] = "recv" /\ fd[u] = None /\ HasChunk(u)
  /\ \E i \in Inodes :
       /\ \/ i = dir[path[u]]
          \/ dir[path[u]] = None /\ Unused(i) /\ \A j \in Inodes : Unused(j) => i <= j
       /\ dir' = [dir EXCEPT ![path[u]] = i]
       /\ data' = [data EXCEPT ![i] = <<>>]
       /\ fd' = [fd EXCEPT ![u] = i]
  /\ At(u, "write")
  /\ UNCHANGED <<taken, got, out, streamVars, path, size, link>>

\* validatePath, MkdirAll or OpenFile fails.
OpenFails(u) ==
  /\ handler[u] = "recv" /\ fd[u] = None /\ HasChunk(u)
  /\ At(u, "return-error")
  /\ UNCHANGED <<fileVars, fd, taken, got, out, streamVars, path, size, link>>

\* The loop is left: the file is closed and success sent; either may fail.
LeavesLoop(u) ==
  \/ u \in link /\ At(u, "return-ok")
  \/ (u \notin link \/ fd[u] # None) /\ At(u, "return-error")

\* A chunk is received and written; the final one ends the loop.
WriteChunk(u) ==
  /\ handler[u] \in {"recv", "write"} /\ fd[u] # None /\ HasChunk(u)
  /\ data' = [data EXCEPT ![fd[u]] = Overwrite(@, got[u], ChunkBlocks(u), u)]
  /\ got' = [got EXCEPT ![u] = @ + ChunkBlocks(u)]
  /\ taken' = [taken EXCEPT ![u] = @ + 1]
  /\ IF IsFinal(u) THEN LeavesLoop(u) ELSE At(u, "recv")
  /\ UNCHANGED <<dir, fd, out, streamVars, path, size, link>>

\* The disk is full: a part of the chunk may have been written.
WriteFails(u) ==
  /\ handler[u] \in {"recv", "write"} /\ fd[u] # None /\ HasChunk(u)
  /\ \E n \in 0 .. ChunkBlocks(u) - 1 :
       data' = [data EXCEPT ![fd[u]] = IF n = 0 THEN @ ELSE Overwrite(@, got[u], n, u)]
  /\ At(u, "return-error")
  /\ UNCHANGED <<dir, fd, taken, got, out, streamVars, path, size, link>>

\* io.EOF: the app has closed its side and all chunks have been taken.
StreamEnds(u) ==
  /\ handler[u] = "recv" /\ u \in closed /\ ~HasChunk(u)
  /\ LeavesLoop(u)
  /\ UNCHANGED <<fileVars, fd, taken, got, out, streamVars, path, size, link>>

\* Mutant of StreamBreaks: the loop goes on after an error.
StreamBreaksUnseen(u) == handler[u] = "recv" /\ u \notin link /\ UNCHANGED serverVars

\* Any other error of Recv.
StreamBreaks(u) ==
  /\ handler[u] = "recv" /\ u \notin link
  /\ At(u, "return-error")
  /\ UNCHANGED <<fileVars, fd, taken, got, out, streamVars, path, size, link>>

\* Mutant of CleanUp: the partial file is left.
CleanUpNothing(u) ==
  /\ handler[u] \in {"return-ok", "return-error"}
  /\ Over(u, IF handler[u] = "return-ok" THEN "ok" ELSE "error")
  /\ UNCHANGED <<fileVars, taken, got, out, streamVars, path, size>>

\* Mutant of CleanUp: only when an error is returned.
CleanUpOnError(u) ==
  /\ handler[u] \in {"return-ok", "return-error"}
  /\ dir' = IF handler[u] = "return-error" /\ fd[u] # None /\ got[u] < size[u]
              THEN [dir EXCEPT ![path[u]] = None] ELSE dir
  /\ Over(u, IF handler[u] = "return-ok" THEN "ok" ELSE "error")
  /\ UNCHANGED <<data, taken, got, out, streamVars, path, size>>

\* The deferred function, whatever was returned: a file that is shorter than
\* announced is removed, by its path.  The status follows it.
CleanUp(u) ==
  /\ handler[u] \in {"return-ok", "return-error"}
  /\ dir' = IF fd[u] # None /\ got[u] < size[u] THEN [dir EXCEPT ![path[u]] = None] ELSE dir
  /\ Over(u, IF handler[u] = "return-ok" THEN "ok" ELSE "error")
  /\ UNCHANGED <<data, taken, got, out, streamVars, path, size>>

UploadStep(u) ==
  \/ OpenFile(u) \/ OpenFails(u) \/ WriteChunk(u) \/ WriteFails(u)
  \/ StreamEnds(u) \/ StreamBreaks(u) \/ CleanUp(u)
-----------------------------------------------------------------------------
(* DownloadFile *)

\* os.Stat gives the size that the loop will compare with.
StatFile(d) ==
  /\ handler[d] = "stat" /\ dir[path[d]] # None
  /\ size' = [size EXCEPT ![d] = Len(data[dir[path[d]]])]
  /\ At(d, "open")
  /\ UNCHANGED <<fileVars, fd, taken, got, out, streamVars, path, link>>

\* The file opened is the one the path leads to by now.
OpenForRead(d) ==
  /\ handler[d] = "open" /\ dir[path[d]] # None
  /\ fd' = [fd EXCEPT ![d] = dir[path[d]]]
  /\ At(d, "read")
  /\ UNCHANGED <<fileVars, taken, got, out, streamVars, path, size, link>>

\* Where the next read ends.
ReadEnd(d) ==
  IF got[d] + ChunkSize < Len(data[fd[d]]) THEN got[d] + ChunkSize ELSE Len(data[fd[d]])

\* Mutant of ReachesEnd: off by one.
ReachesEndSoon(d) == ReadEnd(d) + 1 >= size[d]

\* isFinal: compared with the size found by Stat.
ReachesEnd(d) == ReadEnd(d) >= size[d]

\* A read, and the chunk it sends.
ReadAndSend(d) ==
  /\ handler[d] = "read" /\ got[d] < ReadEnd(d)
  /\ out' = [out EXCEPT ![d] = @ \o SubSeq(data[fd[d]], got[d] + 1, ReadEnd(d))]
  /\ got' = [got EXCEPT ![d] = ReadEnd(d)]
  /\ IF ReachesEnd(d) THEN Over(d, "ok") ELSE UNCHANGED <<handler, fd, link>>
  /\ UNCHANGED <<fileVars, taken, streamVars, path, size>>

\* io.EOF.
ReadsNothing(d) ==
  /\ handler[d] = "read" /\ got[d] >= ReadEnd(d)
  /\ Over(d, "ok")
  /\ UNCHANGED <<fileVars, taken, got, out, streamVars, path, size>>

\* Any of these fails: there is no such file, a read error, a Send to an app
\* that has gone.
DownloadAborts(d) ==
  /\ handler[d] \in {"stat", "open", "read"}
  /\ Over(d, "error")
  /\ UNCHANGED <<fileVars, taken, got, out, streamVars, path, size>>

DownloadStep(d) ==
  StatFile(d) \/ OpenForRead(d) \/ ReadAndSend(d) \/ ReadsNothing(d) \/ DownloadAborts(d)
-----------------------------------------------------------------------------
\* DeleteFile of a file.
DeleteFile(p) ==
  /\ dir[p] # None
  /\ dir' = [dir EXCEPT ![p] = None]
  /\ UNCHANGED <<data, handlerVars, streamVars, path, size, link>>
=============================================================================
