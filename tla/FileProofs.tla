----------------------------- MODULE FileProofs -----------------------------
(***************************************************************************)
(* Proofs about FileTransfer, for any numbers of uploads, downloads, paths *)
(* and blocks: its types, what an acknowledgement means (AckedAll), what a *)
(* transfer that nobody disturbed leaves or delivers (UploadKept,          *)
(* NoPartialLeft, DownloadKept), and what lies on a path at rest           *)
(* (FilesAtRest).                                                          *)
(***************************************************************************)
EXTENDS FileTransfer, SequenceTheorems, TLAPS

-----------------------------------------------------------------------------
(* Types *)

\* Writing blocks into a file makes a file.
LEMMA OverwriteType ==
  ASSUME NEW old \in Blocks, NEW at \in Nat, NEW n \in Nat, NEW u \in Uploads
  PROVE  Overwrite(old, at, n, u) \in Blocks
<1> DEFINE m == IF at + n > Len(old) THEN at + n ELSE Len(old)
<1>1. m \in Nat
  BY LenProperties DEF Blocks
<1>2. \A i \in 1 .. Len(old) : old[i] \in Uploads \cup {None}
  BY ElementOfSeq DEF Blocks
<1>3. Overwrite(old, at, n, u) \in [1 .. m -> Uploads \cup {None}]
  BY <1>1, <1>2, LenProperties DEF Overwrite, Blocks
<1> QED BY <1>1, <1>3 DEF Blocks

\* The blocks of the next chunk.
LEMMA ChunkType ==
  ASSUME ServerTypeOK, NEW u \in Uploads
  PROVE  ChunkBlocks(u) \in Nat
BY ChunkAssumption DEF ServerTypeOK, ChunkBlocks, IsFinal

\* A handler that runs has a path, and reads from a file.
Shape ==
  /\ \A t \in Transfers : Running(t) => path[t] \in Paths
  /\ \A d \in Downloads : handler[d] = "read" => fd[d] # None
  /\ \A d \in Downloads : handler[d] \notin {"recv", "write", "return-ok", "return-error"}

\* A handler's step keeps the types.
LEMMA UploadStepType ==
  ASSUME ServerTypeOK, NEW u \in Uploads, UploadStep(u)
  PROVE  ServerTypeOK'
<1> USE DEF ServerTypeOK, Handlers, Transfers, At, Over, LeavesLoop, fileVars, streamVars, handlerVars
<1>1. CASE OpenFile(u)
  <2>1. <<>> \in Blocks
    BY EmptySeq DEF Blocks
  <2>2. PICK i \in Inodes : /\ dir' = [dir EXCEPT ![path[u]] = i]
                            /\ data' = [data EXCEPT ![i] = <<>>]
                            /\ fd' = [fd EXCEPT ![u] = i]
    BY <1>1 DEF OpenFile
  <2>3. data' \in [Inodes -> Blocks]
    BY <2>1, <2>2
  <2> QED BY <1>1, <2>2, <2>3 DEF OpenFile
<1>2. CASE OpenFails(u)
  BY <1>2 DEF OpenFails
<1>3. CASE WriteChunk(u)
  <2>1. ChunkBlocks(u) \in Nat
    BY ChunkType
  <2>2. fd[u] \in Inodes
    BY <1>3 DEF WriteChunk
  <2>3. Overwrite(data[fd[u]], got[u], ChunkBlocks(u), u) \in Blocks
    BY <2>1, <2>2, OverwriteType
  <2>4. data' \in [Inodes -> Blocks]
    BY <1>3, <2>3 DEF WriteChunk
  <2>5. got' \in [Transfers -> Nat] /\ taken' \in [Uploads -> Nat]
    BY <1>3, <2>1 DEF WriteChunk
  <2>6. handler' \in [Transfers -> Handlers]
    BY <1>3 DEF WriteChunk
  <2> QED BY <1>3, <2>4, <2>5, <2>6 DEF WriteChunk
<1>4. CASE WriteFails(u)
  <2>1. PICK n \in 0 .. ChunkBlocks(u) - 1 :
          data' = [data EXCEPT ![fd[u]] = IF n = 0 THEN @ ELSE Overwrite(@, got[u], n, u)]
    BY <1>4 DEF WriteFails
  <2>2. n \in Nat /\ fd[u] \in Inodes
    BY <1>4, ChunkType DEF WriteFails
  <2>3. Overwrite(data[fd[u]], got[u], n, u) \in Blocks
    BY <2>2, OverwriteType
  <2>4. data' \in [Inodes -> Blocks]
    BY <2>1, <2>2, <2>3
  <2> QED BY <1>4, <2>4 DEF WriteFails
<1>5. CASE StreamEnds(u)
  BY <1>5 DEF StreamEnds
<1>6. CASE StreamBreaks(u)
  BY <1>6 DEF StreamBreaks
<1>7. CASE CleanUp(u)
  BY <1>7 DEF CleanUp
<1> QED BY <1>1, <1>2, <1>3, <1>4, <1>5, <1>6, <1>7 DEF UploadStep

LEMMA DownloadStepType ==
  ASSUME ServerTypeOK, Shape, NEW d \in Downloads, DownloadStep(d)
  PROVE  ServerTypeOK'
<1> USE DEF ServerTypeOK, Handlers, Transfers, At, Over, fileVars, streamVars, handlerVars
<1>1. CASE StatFile(d)
  <2>1. dir[path[d]] \in Inodes
    BY <1>1 DEF StatFile, Shape, Running
  <2>2. Len(data[dir[path[d]]]) \in Nat
    BY <2>1, LenProperties DEF Blocks
  <2> QED BY <1>1, <2>2 DEF StatFile
<1>2. CASE OpenForRead(d)
  <2>1. dir[path[d]] \in Inodes
    BY <1>2 DEF OpenForRead, Shape, Running
  <2> QED BY <1>2, <2>1 DEF OpenForRead
<1>3. CASE ReadAndSend(d)
  <2> DEFINE file == data[fd[d]]
  <2>1. file \in Seq(Uploads \cup {None}) /\ Len(file) \in Nat
    BY <1>3, LenProperties DEF ReadAndSend, Shape, Blocks
  <2>2. ReadEnd(d) \in Nat /\ ReadEnd(d) <= Len(file)
    BY <2>1, ChunkAssumption DEF ReadEnd
  <2>3. SubSeq(file, got[d] + 1, ReadEnd(d)) \in Blocks
    BY <2>1, <2>2, <1>3, SubSeqProperties DEF ReadAndSend, Blocks
  <2>4. out[d] \o SubSeq(file, got[d] + 1, ReadEnd(d)) \in Blocks
    BY <2>3, ConcatProperties DEF Blocks
  <2>5. out' \in [Downloads -> Blocks] /\ got' \in [Transfers -> Nat]
    BY <1>3, <2>2, <2>4 DEF ReadAndSend
  <2> QED BY <1>3, <2>5 DEF ReadAndSend
<1>4. CASE ReadsNothing(d)
  BY <1>4 DEF ReadsNothing
<1>5. CASE DownloadAborts(d)
  BY <1>5 DEF DownloadAborts
<1> QED BY <1>1, <1>2, <1>3, <1>4, <1>5 DEF DownloadStep

TypeInv == FilesTypeOK /\ Shape

\* The steps of the system, one by one.
LEMMA StepCases ==
  ASSUME Next
  PROVE  \/ \E u \in Uploads, p \in Paths, n \in Sizes : BeginUpload(u, p, n)
         \/ \E d \in Downloads, p \in Paths : BeginDownload(d, p)
         \/ \E u \in Uploads : \/ UploadStep(u) /\ UNCHANGED appVars
                               \/ BeginUnheard(u) \/ SendChunk(u) \/ SendRest(u)
                               \/ ReadFails(u) \/ UploadAnswered(u)
         \/ \E d \in Downloads : \/ DownloadStep(d) /\ UNCHANGED appVars
                                 \/ DownloadAnswered(d)
         \/ \E t \in Transfers : Fails(t) \/ LinkBreaks(t)
         \/ \E p \in Paths : Delete(p)
BY DEF Next, AgentStep, AppStep

\* The types and the shape of handlers are kept by every step.
LEMMA TypeStep ==
  ASSUME TypeInv, [Next]_vars
  PROVE  TypeInv'
<1> USE DEF TypeInv, FilesTypeOK
<1>1. ASSUME NEW u \in Uploads, NEW p \in Paths, NEW n \in Sizes, BeginUpload(u, p, n)
      PROVE  TypeInv'
  BY <1>1, SizesAssumption, TransfersAssumption
  DEF BeginUpload, Begins, Arrives, Ends, At, Shape, Running, Rivals, ServerTypeOK, Statuses,
      Handlers, Transfers, fileVars, streamVars
<1>2. ASSUME NEW d \in Downloads, NEW p \in Paths, BeginDownload(d, p) PROVE TypeInv'
  BY <1>2, TransfersAssumption
  DEF BeginDownload, Begins, Arrives, Ends, At, Shape, Running, Rivals, ServerTypeOK, Statuses,
      Handlers, Transfers, fileVars, streamVars
<1>3. ASSUME NEW u \in Uploads, UploadStep(u), UNCHANGED appVars PROVE TypeInv'
  <2>1. ServerTypeOK'
    BY <1>3, UploadStepType
  <2>2. UNCHANGED path /\ \A t \in Transfers \ {u} : handler'[t] = handler[t] /\ fd'[t] = fd[t]
    BY <1>3
    DEF UploadStep, OpenFile, OpenFails, WriteChunk, WriteFails, StreamEnds, StreamBreaks, CleanUp,
        LeavesLoop, At, Over, ServerTypeOK
  <2>3. Running(u)
    BY <1>3
    DEF UploadStep, OpenFile, OpenFails, WriteChunk, WriteFails, StreamEnds, StreamBreaks, CleanUp,
        Running
  <2>4. Shape'
    BY <2>2, <2>3, TransfersAssumption DEF Shape, Running, Transfers
  <2> QED BY <1>3, <2>1, <2>4 DEF appVars
<1>4. ASSUME NEW d \in Downloads, DownloadStep(d), UNCHANGED appVars PROVE TypeInv'
  <2>1. ServerTypeOK'
    BY <1>4, DownloadStepType
  <2>2. /\ UNCHANGED path
        /\ \A t \in Transfers \ {d} : handler'[t] = handler[t] /\ fd'[t] = fd[t]
        /\ handler'[d] \in {"open", "read", "ok", "error"}
        /\ handler'[d] = "read" => fd'[d] # None
    BY <1>4
    DEF DownloadStep, StatFile, OpenForRead, ReadAndSend, ReadsNothing, DownloadAborts, At, Over,
        ServerTypeOK, Shape, Transfers
  <2>3. Running(d)
    BY <1>4
    DEF DownloadStep, StatFile, OpenForRead, ReadAndSend, ReadsNothing, DownloadAborts, Running
  <2>4. Shape'
    BY <2>2, <2>3, TransfersAssumption DEF Shape, Running, Transfers
  <2> QED BY <1>4, <2>1, <2>4 DEF appVars
<1>5. ASSUME NEW u \in Uploads,
             BeginUnheard(u) \/ ReadFails(u) \/ UploadAnswered(u)
      PROVE  TypeInv'
  BY <1>5
  DEF BeginUnheard, ReadFails, UploadAnswered, Ends, Shape, Running, ServerTypeOK, Statuses,
      Transfers, serverVars, fileVars, streamVars, handlerVars
<1>6. ASSUME NEW u \in Uploads, SendChunk(u) \/ SendRest(u) PROVE TypeInv'
  BY <1>6, ChunkAssumption
  DEF SendChunk, SendRest, Shape, Running, ServerTypeOK, appVars, fileVars, handlerVars
<1>7. ASSUME NEW t \in Transfers, Fails(t) \/ LinkBreaks(t) PROVE TypeInv'
  BY <1>7
  DEF Fails, LinkBreaks, Ends, Shape, Running, ServerTypeOK, Statuses, appVars,
      serverVars, fileVars, streamVars, handlerVars
<1>8. ASSUME NEW d \in Downloads, DownloadAnswered(d) PROVE TypeInv'
  BY <1>8
  DEF DownloadAnswered, Ends, Shape, Running, ServerTypeOK, Statuses, Transfers,
      serverVars, fileVars, streamVars, handlerVars
<1>9. ASSUME NEW p \in Paths, Delete(p) PROVE TypeInv'
  BY <1>9
  DEF Delete, DeleteFile, Shape, Running, ServerTypeOK, streamVars, handlerVars
<1>10. CASE UNCHANGED vars
  BY <1>10
  DEF Shape, Running, ServerTypeOK, vars, appVars, serverVars, fileVars, streamVars, handlerVars
<1> QED BY <1>1, <1>2, <1>3, <1>4, <1>5, <1>6, <1>7, <1>8, <1>9, <1>10, StepCases

LEMMA TypeInit == Init => TypeInv
<1> SUFFICES ASSUME Init PROVE TypeInv
  OBVIOUS
<1>1. <<>> \in Blocks /\ <<None>> \in Blocks
  BY EmptySeq DEF Blocks
<1>2. data \in [Inodes -> Blocks] /\ out \in [Downloads -> Blocks]
  BY <1>1 DEF Init, ServerInit
<1>3. tail \in [Uploads -> 0 .. ChunkSize - 1]
  BY ChunkAssumption DEF Init, ServerInit
<1> QED BY <1>2, <1>3
  DEF Init, ServerInit, TypeInv, FilesTypeOK, ServerTypeOK, Shape, Running, Statuses, Handlers,
      Transfers

\* Every variable keeps its type.
THEOREM FilesTypeCorrect == Spec => []FilesTypeOK
<1>1. TypeInv => FilesTypeOK
  BY DEF TypeInv
<1> QED BY TypeInit, TypeStep, <1>1, PTL DEF Spec
-----------------------------------------------------------------------------
(* What an acknowledgement means *)

\* An upload answered with success has been closed and read to its end; its
\* chunks are taken in order, the final one after the stream was closed.
AckedInv ==
  \A u \in Uploads :
    /\ taken[u] <= sent[u]
    /\ u \notin closed => tail[u] = 0
    /\ handler[u] \in {"return-ok", "ok"} => u \in closed /\ taken[u] = sent[u]
    /\ status[u] = "complete" => handler[u] = "ok"
    /\ status[u] = "new" => handler[u] = "none"

LEMMA AckedStep ==
  ASSUME TypeInv, AckedInv, [Next]_vars
  PROVE  AckedInv'
<1> USE DEF TypeInv, FilesTypeOK, ServerTypeOK, AckedInv, Transfers
<1>1. ASSUME NEW u \in Uploads, NEW p \in Paths, NEW n \in Sizes, BeginUpload(u, p, n)
      PROVE  AckedInv'
  BY <1>1 DEF BeginUpload, Begins, IsNext, Arrives, Ends, At, fileVars, streamVars
<1>2. ASSUME NEW d \in Downloads, NEW p \in Paths, BeginDownload(d, p) PROVE AckedInv'
  BY <1>2, TransfersAssumption
  DEF BeginDownload, Begins, IsNext, Arrives, Ends, At, fileVars, streamVars
<1>3. ASSUME NEW u \in Uploads, UploadStep(u), UNCHANGED appVars PROVE AckedInv'
  <2> USE DEF At, Over, LeavesLoop, HasChunk, IsFinal, appVars, streamVars
  <2>1. CASE OpenFile(u)
    BY <1>3, <2>1 DEF OpenFile
  <2>2. CASE OpenFails(u)
    BY <1>3, <2>2 DEF OpenFails
  <2>3. CASE WriteChunk(u)
    BY <1>3, <2>3 DEF WriteChunk
  <2>4. CASE WriteFails(u)
    BY <1>3, <2>4 DEF WriteFails
  <2>5. CASE StreamEnds(u)
    BY <1>3, <2>5 DEF StreamEnds
  <2>6. CASE StreamBreaks(u)
    BY <1>3, <2>6 DEF StreamBreaks
  <2>7. CASE CleanUp(u)
    BY <1>3, <2>7 DEF CleanUp
  <2> QED BY <1>3, <2>1, <2>2, <2>3, <2>4, <2>5, <2>6, <2>7 DEF UploadStep
<1>4. ASSUME NEW d \in Downloads, DownloadStep(d), UNCHANGED appVars PROVE AckedInv'
  <2>1. \A u \in Uploads : handler'[u] = handler[u]
    BY <1>4, TransfersAssumption
    DEF DownloadStep, StatFile, OpenForRead, ReadAndSend, ReadsNothing, DownloadAborts, At, Over
  <2>2. UNCHANGED <<taken, streamVars>>
    BY <1>4
    DEF DownloadStep, StatFile, OpenForRead, ReadAndSend, ReadsNothing, DownloadAborts
  <2> QED BY <1>4, <2>1, <2>2 DEF appVars, streamVars
<1>5. ASSUME NEW u \in Uploads,
             BeginUnheard(u) \/ ReadFails(u) \/ UploadAnswered(u)
      PROVE  AckedInv'
  BY <1>5
  DEF BeginUnheard, IsNext, ReadFails, UploadAnswered, Ends, serverVars, streamVars, handlerVars
<1>6. ASSUME NEW u \in Uploads, SendChunk(u) \/ SendRest(u) PROVE AckedInv'
  BY <1>6 DEF SendChunk, SendRest, appVars, handlerVars
<1>7. ASSUME NEW t \in Transfers, Fails(t) \/ LinkBreaks(t) PROVE AckedInv'
  BY <1>7 DEF Fails, LinkBreaks, Ends, appVars, serverVars, streamVars, handlerVars
<1>8. ASSUME NEW d \in Downloads, DownloadAnswered(d) PROVE AckedInv'
  BY <1>8, TransfersAssumption DEF DownloadAnswered, Ends, serverVars, streamVars, handlerVars
<1>9. ASSUME NEW p \in Paths, Delete(p) PROVE AckedInv'
  BY <1>9 DEF Delete, DeleteFile, streamVars, handlerVars
<1>10. CASE UNCHANGED vars
  BY <1>10 DEF vars, appVars, serverVars, streamVars, handlerVars
<1> QED BY <1>1, <1>2, <1>3, <1>4, <1>5, <1>6, <1>7, <1>8, <1>9, <1>10, StepCases

\* What the app calls complete the agent has received to the last chunk.
THEOREM AcknowledgedIsReceived == Spec => []AckedAll
<1>1. Init => AckedInv
  <2>1. ASSUME Init, NEW u \in Uploads
        PROVE  /\ taken[u] = 0 /\ sent[u] = 0 /\ tail[u] = 0
               /\ handler[u] = "none" /\ status[u] = "new"
    BY <2>1 DEF Init, ServerInit, Transfers
  <2>2. 0 <= 0
    OBVIOUS
  <2> QED BY <2>1, <2>2 DEF AckedInv
<1>2. AckedInv => AckedAll
  BY DEF AckedInv, AckedAll
<1> QED BY TypeInit, TypeStep, <1>1, AckedStep, <1>2, PTL DEF Spec
-----------------------------------------------------------------------------
(* What an undisturbed transfer leaves and delivers *)

\* The file that upload u has written so far.
Solid(u) == [i \in 1 .. got[u] |-> u]

\* No two paths share a file.
DirInv == \A p, q \in Paths : dir[p] # None /\ dir[p] = dir[q] => p = q

\* A transfer before it has opened its file, and one that is over.
StartInv ==
  /\ \A t \in Transfers :
       /\ status[t] = "new" => handler[t] = "none"
       /\ status[t] = "active" => path[t] \in Paths
       /\ fd[t] # None => Running(t)
       /\ handler[t] = "none" => got[t] = 0
  /\ \A u \in Uploads :
       handler[u] \notin {"ok", "error"} /\ fd[u] = None => taken[u] = 0 /\ got[u] = 0
  /\ \A d \in Downloads :
       handler[d] \in {"none", "stat", "open"} => got[d] = 0 /\ out[d] = <<>> /\ fd[d] = None

\* An open file belongs to the path it was opened by, for all that have it open.
FdInv ==
  \A t \in Transfers : fd[t] # None =>
    /\ \A q \in Paths : dir[q] = fd[t] => q = path[t]
    /\ \A v \in Transfers : fd[v] = fd[t] => path[v] = path[t]

\* Transfers that overlap on a path know it.
RivalInv ==
  \A u \in Uploads, v \in Transfers :
    u # v /\ Busy(u) /\ Busy(v) /\ path[u] = path[v] => u \in met /\ v \in met

UploadInv(u) ==
  u \notin met =>
    /\ fd[u] # None =>
         /\ dir[path[u]] = fd[u]
         /\ Len(data[fd[u]]) >= got[u]
         /\ handler[u] # "return-error" => data[fd[u]] = Solid(u)
    /\ status[u] = "active" /\ handler[u] = "ok" /\ taken[u] > 0 /\ got[u] >= size[u] =>
         dir[path[u]] # None /\ data[dir[path[u]]] = Solid(u)
    /\ status[u] = "active" /\ handler[u] \in {"ok", "error"} /\ taken[u] > 0 =>
         dir[path[u]] = None \/ Len(data[dir[path[u]]]) >= size[u]

DownloadInv(d) ==
  d \notin met =>
    /\ handler[d] \in {"open", "read"} =>
         dir[path[d]] # None /\ size[d] = Len(data[dir[path[d]]])
    /\ handler[d] = "read" =>
         fd[d] = dir[path[d]] /\ got[d] <= size[d] /\ out[d] = SubSeq(data[fd[d]], 1, got[d])
    /\ status[d] = "active" /\ handler[d] = "ok" =>
         dir[path[d]] # None /\ out[d] = data[dir[path[d]]]

KeepInv ==
  /\ DirInv /\ StartInv /\ FdInv /\ RivalInv
  /\ \A u \in Uploads : UploadInv(u)
  /\ \A d \in Downloads : DownloadInv(d)

\* Steps that touch neither files nor handlers.
Quiet ==
  /\ UNCHANGED <<dir, data, handler, fd, taken, got, out, path, size, met>>
  /\ \A t \in Transfers : status'[t] \in {"new", "active"} => status'[t] = status[t]

LEMMA QuietKeeps ==
  ASSUME TypeInv, KeepInv, Quiet
  PROVE  KeepInv'
<1> USE DEF Quiet, KeepInv
<1>1. DirInv'
  BY DEF DirInv
<1>2. StartInv'
  BY DEF StartInv, Running, Transfers
<1>3. FdInv'
  BY DEF FdInv
<1>4. RivalInv'
  BY DEF RivalInv, Busy, Running, Transfers
<1>5. \A u \in Uploads : UploadInv(u)'
  BY DEF UploadInv, Solid, Transfers
<1>6. \A d \in Downloads : DownloadInv(d)'
  BY DEF DownloadInv, Transfers
<1> QED BY <1>1, <1>2, <1>3, <1>4, <1>5, <1>6

LEMMA DeleteKeeps ==
  ASSUME TypeInv, KeepInv, NEW p \in Paths, Delete(p)
  PROVE  KeepInv'
<1> USE DEF KeepInv, Delete, DeleteFile, handlerVars, TypeInv, FilesTypeOK, ServerTypeOK
<1>1. /\ \A q \in Paths : dir'[q] = IF q = p THEN None ELSE dir[q]
      /\ UNCHANGED <<data, handler, fd, taken, got, out, path, size, status>>
      /\ met \subseteq met'
  OBVIOUS
<1>2. \A t \in Transfers \ met' : Busy(t) => path[t] # p
  OBVIOUS
<1>3. DirInv'
  BY <1>1 DEF DirInv
<1>4. StartInv'
  BY <1>1 DEF StartInv, Running
<1>5. FdInv'
  BY <1>1 DEF FdInv
<1>6. RivalInv'
  BY <1>1 DEF RivalInv, Busy, Running
<1>7. ASSUME NEW u \in Uploads, u \notin met' PROVE UploadInv(u)'
  <2>1. UploadInv(u) /\ u \in Transfers
    BY DEF Transfers
  <2>2. fd[u] # None \/ status[u] = "active" => path[u] # p /\ path[u] \in Paths
    BY <1>2, <1>7, <2>1 DEF StartInv, Busy, Shape
  <2> QED BY <1>1, <1>7, <2>1, <2>2 DEF UploadInv, Solid
<1>8. ASSUME NEW d \in Downloads, d \notin met' PROVE DownloadInv(d)'
  <2>1. DownloadInv(d) /\ d \in Transfers
    BY DEF Transfers
  <2>2. handler[d] \in {"open", "read"} \/ status[d] = "active" => path[d] # p /\ path[d] \in Paths
    BY <1>2, <1>8, <2>1 DEF StartInv, Busy, Running, Shape
  <2> QED BY <1>1, <1>8, <2>1, <2>2 DEF DownloadInv
<1> QED BY <1>3, <1>4, <1>5, <1>6, <1>7, <1>8 DEF UploadInv, DownloadInv

LEMMA BeginKeeps ==
  ASSUME TypeInv, KeepInv, NEW t \in Transfers, NEW p \in Paths,
         \/ t \in Uploads /\ \E n \in Sizes : BeginUpload(t, p, n)
         \/ t \in Downloads /\ BeginDownload(t, p)
  PROVE  KeepInv'
<1> USE DEF KeepInv, BeginUpload, BeginDownload, Begins, IsNext, Arrives, Ends, At, fileVars,
        TypeInv, FilesTypeOK, ServerTypeOK
<1>1. /\ UNCHANGED <<dir, data, fd, taken, got, out>>
      /\ status[t] = "new" /\ handler[t] = "none" /\ fd[t] = None
      /\ \A v \in Transfers \ {t} : /\ handler'[v] = handler[v] /\ path'[v] = path[v]
                                    /\ size'[v] = size[v] /\ status'[v] = status[v]
      /\ path'[t] = p /\ status'[t] = "active"
      /\ handler'[t] = IF t \in Uploads THEN "recv" ELSE "stat"
  BY TransfersAssumption DEF StartInv, Running
<1>2. /\ met \subseteq met'
      /\ \A v \in Transfers \ {t} : Busy(v) /\ path[v] = p /\ (t \in Uploads \/ v \in Uploads)
                                      => v \in met' /\ t \in met'
  BY DEF Rivals
<1>3. DirInv'
  BY <1>1 DEF DirInv
<1>4. StartInv'
  <2>1. \A v \in Transfers \ {t} : Running(v)' = Running(v)
    BY <1>1 DEF Running
  <2> QED BY <1>1, <2>1, TransfersAssumption DEF StartInv, Transfers
<1>5. FdInv'
  BY <1>1 DEF FdInv
<1>6. RivalInv'
  <2>1. \A v \in Transfers \ {t} : Busy(v)' = Busy(v)
    BY <1>1 DEF Busy, Running
  <2> QED BY <1>1, <1>2, <2>1 DEF RivalInv, Transfers
<1>7. ASSUME NEW u \in Uploads PROVE UploadInv(u)'
  <2>1. UploadInv(u) /\ u \in Transfers
    BY DEF Transfers
  <2>2. CASE u = t
    BY <1>1, <2>2 DEF UploadInv
  <2>3. CASE u # t
    BY <1>1, <1>2, <2>1, <2>3 DEF UploadInv, Solid
  <2> QED BY <2>2, <2>3
<1>8. ASSUME NEW d \in Downloads PROVE DownloadInv(d)'
  <2>1. DownloadInv(d) /\ d \in Transfers
    BY DEF Transfers
  <2>2. CASE d = t
    BY <1>1, <2>2, TransfersAssumption DEF DownloadInv
  <2>3. CASE d # t
    BY <1>1, <1>2, <2>1, <2>3 DEF DownloadInv
  <2> QED BY <2>2, <2>3
<1> QED BY <1>3, <1>4, <1>5, <1>6, <1>7, <1>8

\* A step of an upload's handler leaves the files of all other paths alone.
LEMMA PathsKept ==
  ASSUME TypeInv, KeepInv, NEW u \in Uploads, UploadStep(u), NEW q \in Paths, q # path[u]
  PROVE  /\ dir'[q] = dir[q]
         /\ dir[q] # None => data'[dir[q]] = data[dir[q]]
<1> USE DEF KeepInv, TypeInv, FilesTypeOK, ServerTypeOK
<1>1. u \in Transfers /\ path[u] \in Paths
  BY DEF UploadStep, OpenFile, OpenFails, WriteChunk, WriteFails, StreamEnds, StreamBreaks, CleanUp,
         Running, Shape, Transfers
<1>2. CASE OpenFile(u)
  BY <1>1, <1>2 DEF OpenFile, Unused, DirInv
<1>3. CASE WriteChunk(u) \/ WriteFails(u)
  <2>1. fd[u] # dir[q]
    BY <1>1, <1>3 DEF FdInv, WriteChunk, WriteFails
  <2> QED BY <1>3, <2>1 DEF WriteChunk, WriteFails
<1>4. CASE OpenFails(u) \/ StreamEnds(u) \/ StreamBreaks(u)
  BY <1>4 DEF OpenFails, StreamEnds, StreamBreaks, fileVars
<1>5. CASE CleanUp(u)
  BY <1>1, <1>5 DEF CleanUp
<1> QED BY <1>2, <1>3, <1>4, <1>5 DEF UploadStep

\* So it leaves alone the file of any other transfer that is in progress and has
\* not been met.
LEMMA OthersKept ==
  ASSUME TypeInv, KeepInv, NEW u \in Uploads, UploadStep(u),
         NEW x \in Transfers \ {u}, x \notin met, Busy(x)
  PROVE  /\ path[x] \in Paths
         /\ dir'[path[x]] = dir[path[x]]
         /\ dir[path[x]] # None => data'[dir[path[x]]] = data[dir[path[x]]]
<1> USE DEF KeepInv, TypeInv, FilesTypeOK, ServerTypeOK
<1>1. Running(u) /\ u \in Transfers
  BY DEF UploadStep, OpenFile, OpenFails, WriteChunk, WriteFails, StreamEnds, StreamBreaks, CleanUp,
         Running, Transfers
<1>2. path[x] \in Paths /\ path[u] \in Paths
  BY <1>1 DEF Busy, Shape, StartInv
<1>3. path[x] # path[u]
  BY <1>1 DEF RivalInv, Busy
<1> QED BY <1>2, <1>3, PathsKept

\* Writing at the end of a file that is all u's makes one that is all u's.
LEMMA OverwriteSolid ==
  ASSUME NEW u \in Uploads, NEW g \in Nat, NEW n \in Nat
  PROVE  Overwrite([i \in 1 .. g |-> u], g, n, u) = [i \in 1 .. g + n |-> u]
<1>1. Len([i \in 1 .. g |-> u]) = g
  OBVIOUS
<1> QED BY <1>1 DEF Overwrite

\* A write reaches at least to its end, and shortens nothing.
LEMMA OverwriteLen ==
  ASSUME NEW old \in Blocks, NEW at \in Nat, NEW n \in Nat, NEW u \in Uploads
  PROVE  /\ Len(Overwrite(old, at, n, u)) >= at + n
         /\ Len(Overwrite(old, at, n, u)) >= Len(old)
<1> DEFINE m == IF at + n > Len(old) THEN at + n ELSE Len(old)
<1>1. Len(old) \in Nat
  BY LenProperties DEF Blocks
<1>2. m \in Nat /\ m >= at + n /\ m >= Len(old)
  BY <1>1
<1>3. DOMAIN Overwrite(old, at, n, u) = 1 .. m
  BY DEF Overwrite
<1>4. Overwrite(old, at, n, u) \in Seq(Uploads \cup {None})
  BY OverwriteType DEF Blocks
<1>5. Len(Overwrite(old, at, n, u)) = m
  BY <1>2, <1>3, <1>4, LenProperties
<1> QED BY <1>2, <1>5

\* What a step of an upload's handler does to that upload.
LEMMA OwnKept ==
  ASSUME TypeInv, KeepInv, NEW u \in Uploads, UploadStep(u), UNCHANGED appVars
  PROVE  UploadInv(u)'
<1> USE DEF KeepInv, TypeInv, FilesTypeOK, ServerTypeOK, appVars, At, Over, LeavesLoop
<1>0. u \in Transfers /\ UploadInv(u)
  BY DEF Transfers
<1>1. Running(u) /\ path[u] \in Paths
  BY <1>0 DEF UploadStep, OpenFile, OpenFails, WriteChunk, WriteFails, StreamEnds, StreamBreaks,
         CleanUp, Running, Shape
<1>2. CASE OpenFile(u)
  <2>1. PICK i \in Inodes : /\ dir' = [dir EXCEPT ![path[u]] = i]
                            /\ data' = [data EXCEPT ![i] = <<>>]
                            /\ fd' = [fd EXCEPT ![u] = i]
    BY <1>2 DEF OpenFile
  <2>2. /\ dir'[path'[u]] = i /\ fd'[u] = i /\ data'[i] = <<>>
        /\ got'[u] = 0 /\ handler'[u] = "write"
    BY <1>0, <1>1, <1>2, <2>1 DEF OpenFile, StartInv
  <2>3. Len(<<>>) = 0 /\ <<>> = [j \in 1 .. 0 |-> u]
    OBVIOUS
  <2> QED BY <1>0, <2>2, <2>3 DEF UploadInv, Solid
<1>3. CASE OpenFails(u)
  BY <1>0, <1>1, <1>3 DEF OpenFails, UploadInv, fileVars
<1>4. CASE WriteChunk(u)
  <2> DEFINE new == Overwrite(data[fd[u]], got[u], ChunkBlocks(u), u)
  <2>1. /\ fd[u] \in Inodes /\ ChunkBlocks(u) \in Nat /\ UNCHANGED <<dir, path, fd, size, met, status>>
        /\ data'[fd[u]] = new /\ got'[u] = got[u] + ChunkBlocks(u)
        /\ handler'[u] \in {"recv", "return-ok", "return-error"} /\ handler[u] # "return-error"
    BY <1>0, <1>4, ChunkType DEF WriteChunk
  <2>2. Len(new) >= got'[u]
    BY <1>0, <2>1, OverwriteLen
  <2>3. u \notin met => new = [i \in 1 .. got[u] + ChunkBlocks(u) |-> u]
    <3>1. Overwrite([i \in 1 .. got[u] |-> u], got[u], ChunkBlocks(u), u)
            = [i \in 1 .. got[u] + ChunkBlocks(u) |-> u]
      BY <1>0, <2>1, OverwriteSolid
    <3>2. u \notin met => data[fd[u]] = [i \in 1 .. got[u] |-> u]
      BY <1>0, <2>1, NoFileAssumption DEF UploadInv, Solid
    <3> QED BY <3>1, <3>2
  <2> QED BY <1>0, <1>1, <2>1, <2>2, <2>3 DEF UploadInv, Solid
<1>5. CASE WriteFails(u)
  <2>1. PICK n \in 0 .. ChunkBlocks(u) - 1 :
          data' = [data EXCEPT ![fd[u]] = IF n = 0 THEN @ ELSE Overwrite(@, got[u], n, u)]
    BY <1>5 DEF WriteFails
  <2>2. /\ fd[u] \in Inodes /\ n \in Nat /\ UNCHANGED <<dir, path, fd, got, size, met, status>>
        /\ handler'[u] = "return-error"
    BY <1>0, <1>5, ChunkType DEF WriteFails
  <2>3. Len(data'[fd[u]]) >= Len(data[fd[u]])
    <3>1. Len(data[fd[u]]) \in Nat
      BY <2>2, LenProperties DEF Blocks
    <3>2. Len(Overwrite(data[fd[u]], got[u], n, u)) >= Len(data[fd[u]])
      BY <1>0, <2>2, OverwriteLen
    <3> QED BY <2>1, <2>2, <3>1, <3>2
  <2>4. Len(data[fd[u]]) \in Nat /\ Len(data'[fd[u]]) \in Nat
    <3>1. ServerTypeOK'
      BY UploadStepType
    <3> QED BY <2>2, <3>1, LenProperties DEF Blocks
  <2> QED BY <1>0, <1>1, <2>2, <2>3, <2>4 DEF UploadInv
<1>6. CASE StreamEnds(u)
  BY <1>0, <1>1, <1>6 DEF StreamEnds, UploadInv, Solid, fileVars
<1>7. CASE StreamBreaks(u)
  BY <1>0, <1>1, <1>7 DEF StreamBreaks, UploadInv, Solid, fileVars
<1>8. CASE CleanUp(u)
  <2>1. /\ UNCHANGED <<data, path, size, got, taken, met, status>> /\ fd'[u] = None
        /\ handler'[u] = "ok" => handler[u] = "return-ok"
        /\ handler[u] \in {"return-ok", "return-error"}
    BY <1>0, <1>8 DEF CleanUp
  <2>2. taken[u] > 0 => fd[u] # None
    <3>1. fd[u] = None => taken[u] = 0
      BY <2>1 DEF StartInv
    <3> QED BY <3>1
  <2>3. dir'[path[u]] = IF fd[u] # None /\ got[u] < size[u] THEN None ELSE dir[path[u]]
    BY <1>1, <1>8 DEF CleanUp
  <2>4. dir[path[u]] # None => Len(data[dir[path[u]]]) \in Nat
    BY <1>1, LenProperties DEF Blocks
  <2>5. got[u] \in Nat /\ size[u] \in Nat
    BY <1>0
  <2> QED BY <1>0, <2>1, <2>2, <2>3, <2>4, <2>5, NoFileAssumption DEF UploadInv, Solid
<1> QED BY <1>2, <1>3, <1>4, <1>5, <1>6, <1>7, <1>8 DEF UploadStep

LEMMA UploadStepKeeps ==
  ASSUME TypeInv, KeepInv, NEW u \in Uploads, UploadStep(u), UNCHANGED appVars
  PROVE  KeepInv'
<1> USE DEF KeepInv, TypeInv, FilesTypeOK, ServerTypeOK
<1>0. u \in Transfers
  BY DEF Transfers
<1>1. Running(u) /\ path[u] \in Paths
  BY <1>0 DEF UploadStep, OpenFile, OpenFails, WriteChunk, WriteFails, StreamEnds, StreamBreaks,
         CleanUp, Running, Shape
<1>2. /\ UNCHANGED <<path, size, out, met, status>>
      /\ \A t \in Transfers \ {u} : handler'[t] = handler[t] /\ fd'[t] = fd[t] /\ got'[t] = got[t]
      /\ \A v \in Uploads \ {u} : taken'[v] = taken[v]
  BY DEF UploadStep, OpenFile, OpenFails, WriteChunk, WriteFails, StreamEnds, StreamBreaks, CleanUp,
         At, Over, LeavesLoop, appVars
<1>3. /\ Running(u)' \/ fd'[u] = None
      /\ handler'[u] # "none"
      /\ handler'[u] \notin {"ok", "error"} /\ fd'[u] = None => taken'[u] = 0 /\ got'[u] = 0
  <2> USE <1>0 DEF At, Over, LeavesLoop, Running, StartInv
  <2>1. CASE OpenFile(u)
    BY <2>1, NoFileAssumption DEF OpenFile
  <2>2. CASE OpenFails(u)
    BY <2>2 DEF OpenFails
  <2>3. CASE WriteChunk(u)
    BY <2>3 DEF WriteChunk
  <2>4. CASE WriteFails(u)
    BY <2>4 DEF WriteFails
  <2>5. CASE StreamEnds(u)
    BY <2>5 DEF StreamEnds
  <2>6. CASE StreamBreaks(u)
    BY <2>6 DEF StreamBreaks
  <2>7. CASE CleanUp(u)
    BY <2>7 DEF CleanUp
  <2> QED BY <2>1, <2>2, <2>3, <2>4, <2>5, <2>6, <2>7 DEF UploadStep
<1>4. DirInv' /\ FdInv'
  <2>1. CASE OpenFile(u)
    <3>1. PICK i \in Inodes : /\ i = dir[path[u]] \/ (dir[path[u]] = None /\ Unused(i))
                              /\ dir' = [dir EXCEPT ![path[u]] = i]
                              /\ fd' = [fd EXCEPT ![u] = i]
      BY <2>1 DEF OpenFile
    <3>2. \A q \in Paths \ {path[u]} : dir[q] # i
      BY <1>1, <3>1, NoFileAssumption DEF DirInv, Unused
    <3>3. \A t \in Transfers : fd[t] = i => path[t] = path[u]
      BY <1>1, <3>1, NoFileAssumption DEF FdInv, Unused
    <3>4. DirInv'
      BY <1>1, <3>1, <3>2 DEF DirInv
    <3>5. ASSUME NEW t \in Transfers, fd'[t] # None, NEW q \in Paths, dir'[q] = fd'[t]
          PROVE  q = path[t]
      <4>1. CASE fd'[t] = i
        BY <1>0, <1>1, <3>1, <3>2, <3>3, <3>5, <4>1
      <4>2. CASE fd'[t] # i
        BY <1>0, <1>1, <3>1, <3>5, <4>2 DEF FdInv
      <4> QED BY <4>1, <4>2
    <3>6. ASSUME NEW t \in Transfers, fd'[t] # None, NEW v \in Transfers, fd'[v] = fd'[t]
          PROVE  path[v] = path[t]
      <4>1. CASE fd'[t] = i
        BY <1>0, <3>1, <3>3, <3>6, <4>1
      <4>2. CASE fd'[t] # i
        BY <1>0, <3>1, <3>6, <4>2 DEF FdInv
      <4> QED BY <4>1, <4>2
    <3> QED BY <1>2, <3>4, <3>5, <3>6 DEF FdInv
  <2>2. CASE CleanUp(u)
    BY <1>0, <1>1, <1>2, <2>2 DEF CleanUp, Over, DirInv, FdInv
  <2>3. CASE ~OpenFile(u) /\ ~CleanUp(u)
    <3>1. UNCHANGED <<dir, fd>>
      BY <2>3 DEF UploadStep, OpenFails, WriteChunk, WriteFails, StreamEnds, StreamBreaks, fileVars
    <3> QED BY <1>2, <3>1 DEF DirInv, FdInv
  <2> QED BY <2>1, <2>2, <2>3
<1>5. StartInv'
  <2>1. \A t \in Transfers \ {u} : Running(t)' = Running(t)
    BY <1>2 DEF Running
  <2> QED BY <1>1, <1>2, <1>3, <2>1, TransfersAssumption DEF StartInv, Transfers, Running
<1>6. \A t \in Transfers : Busy(t)' => Busy(t)
  BY <1>1, <1>2 DEF Busy, Running
<1>7. RivalInv'
  BY <1>2, <1>6 DEF RivalInv, Transfers
<1>8. ASSUME NEW x \in Transfers \ {u}, x \notin met, Busy(x)
      PROVE  /\ path[x] \in Paths
             /\ dir'[path[x]] = dir[path[x]]
             /\ dir[path[x]] # None => data'[dir[path[x]]] = data[dir[path[x]]]
  BY <1>8, OthersKept
<1>9. ASSUME NEW v \in Uploads PROVE UploadInv(v)'
  <2>1. CASE v = u
    BY <2>1, OwnKept
  <2>2. CASE v # u /\ v \notin met
    <3>1. UploadInv(v) /\ v \in Transfers \ {u}
      BY <2>2 DEF Transfers
    <3>2. fd[v] # None \/ status[v] = "active" => Busy(v)
      BY <3>1 DEF StartInv, Busy
    <3>3. /\ UNCHANGED <<path, size, met, status>> /\ Solid(v)' = Solid(v)
          /\ handler'[v] = handler[v] /\ fd'[v] = fd[v] /\ got'[v] = got[v] /\ taken'[v] = taken[v]
      BY <1>2, <2>2, <3>1 DEF Solid
    <3>4. fd[v] # None \/ status[v] = "active" =>
            /\ dir'[path[v]] = dir[path[v]]
            /\ dir[path[v]] # None => data'[dir[path[v]]] = data[dir[path[v]]]
      BY <1>8, <2>2, <3>1, <3>2
    <3> QED BY <2>2, <3>1, <3>3, <3>4 DEF UploadInv
  <2> QED BY <1>2, <2>1, <2>2 DEF UploadInv
<1>10. ASSUME NEW d \in Downloads PROVE DownloadInv(d)'
  <2>1. DownloadInv(d) /\ d \in Transfers \ {u}
    BY TransfersAssumption DEF Transfers
  <2>2. handler[d] \in {"open", "read"} \/ status[d] = "active" => Busy(d)
    BY <2>1 DEF Running, Busy
  <2> QED BY <1>2, <1>8, <2>1, <2>2 DEF DownloadInv
<1> QED BY <1>4, <1>5, <1>7, <1>9, <1>10

\* The first n blocks and those up to m are the first m.
LEMMA ReadsOn ==
  ASSUME NEW s \in Blocks, NEW n \in Nat, NEW m \in Nat, n <= m, m <= Len(s)
  PROVE  SubSeq(s, 1, n) \o SubSeq(s, n + 1, m) = SubSeq(s, 1, m)
<1>1. s \in Seq(Uploads \cup {None}) /\ Len(s) \in Nat
  BY LenProperties DEF Blocks
<1>2. 1 \in 1 .. Len(s) + 1 /\ n \in 1 - 1 .. Len(s) /\ m \in n .. Len(s)
  BY <1>1
<1> QED BY <1>1, <1>2, ConcatAdjacentSubSeq

\* What a step of a download's handler does to that download.
LEMMA OwnRead ==
  ASSUME TypeInv, KeepInv, NEW d \in Downloads, DownloadStep(d), UNCHANGED appVars
  PROVE  DownloadInv(d)'
<1> USE DEF KeepInv, TypeInv, FilesTypeOK, ServerTypeOK, appVars, At, Over, fileVars
<1>0. d \in Transfers /\ DownloadInv(d)
  BY DEF Transfers
<1>1. path[d] \in Paths
  BY <1>0 DEF DownloadStep, StatFile, OpenForRead, ReadAndSend, ReadsNothing, DownloadAborts,
              Running, Shape
<1>2. CASE StatFile(d)
  BY <1>0, <1>2 DEF StatFile, DownloadInv
<1>3. CASE OpenForRead(d)
  <2>1. dir[path[d]] \in Inodes
    BY <1>1, <1>3 DEF OpenForRead
  <2>2. got[d] = 0 /\ out[d] = <<>>
    BY <1>3 DEF OpenForRead, StartInv
  <2>3. SubSeq(data[dir[path[d]]], 1, 0) = <<>>
    BY SubSeqEmpty
  <2>4. size[d] \in Nat
    BY <1>0
  <2> QED BY <1>0, <1>3, <2>1, <2>2, <2>3, <2>4 DEF OpenForRead, DownloadInv
<1>4. CASE ReadAndSend(d)
  <2> DEFINE file == data[fd[d]]
  <2>1. file \in Blocks /\ Len(file) \in Nat /\ got[d] \in Nat
    BY <1>0, <1>4, LenProperties DEF ReadAndSend, Shape, Blocks
  <2>2. ReadEnd(d) \in Nat /\ got[d] <= ReadEnd(d) /\ ReadEnd(d) <= Len(file)
    BY <2>1, <1>4, ChunkAssumption DEF ReadAndSend, ReadEnd
  <2>3. /\ UNCHANGED <<dir, data, path, size, met, status>>
        /\ got'[d] = ReadEnd(d) /\ out'[d] = out[d] \o SubSeq(file, got[d] + 1, ReadEnd(d))
        /\ handler[d] = "read"
    BY <1>0, <1>4 DEF ReadAndSend
  <2>4. SUFFICES ASSUME d \notin met PROVE DownloadInv(d)'
    BY <2>3 DEF DownloadInv
  <2>5. fd[d] = dir[path[d]] /\ fd[d] # None /\ size[d] = Len(file) /\ out[d] = SubSeq(file, 1, got[d])
    BY <1>0, <2>3, <2>4 DEF DownloadInv
  <2>6. out'[d] = SubSeq(file, 1, ReadEnd(d))
    <3>1. SubSeq(file, 1, got[d]) \o SubSeq(file, got[d] + 1, ReadEnd(d)) = SubSeq(file, 1, ReadEnd(d))
      BY <2>1, <2>2, ReadsOn
    <3> QED BY <2>3, <2>5, <3>1
  <2>7. CASE ReachesEnd(d)
    <3>1. ReadEnd(d) = Len(file)
      BY <2>1, <2>2, <2>5, <2>7 DEF ReachesEnd
    <3>2. SubSeq(file, 1, Len(file)) = file
      BY <2>1, SubSeqFull DEF Blocks
    <3>3. handler'[d] = "ok"
      BY <1>0, <1>4, <2>7 DEF ReadAndSend
    <3> QED BY <2>3, <2>5, <2>6, <3>1, <3>2, <3>3 DEF DownloadInv
  <2>8. CASE ~ReachesEnd(d)
    <3>1. UNCHANGED <<handler, fd>>
      BY <1>4, <2>8 DEF ReadAndSend
    <3> QED BY <2>2, <2>3, <2>5, <2>6, <3>1 DEF DownloadInv
  <2> QED BY <2>7, <2>8
<1>5. CASE ReadsNothing(d)
  <2> DEFINE file == data[fd[d]]
  <2>1. file \in Blocks /\ Len(file) \in Nat /\ got[d] \in Nat
    BY <1>0, <1>5, LenProperties DEF ReadsNothing, Shape, Blocks
  <2>2. /\ UNCHANGED <<dir, data, path, size, met, status, out>>
        /\ handler[d] = "read" /\ handler'[d] = "ok"
    BY <1>0, <1>5 DEF ReadsNothing
  <2>3. SUFFICES ASSUME d \notin met PROVE DownloadInv(d)'
    BY <2>2 DEF DownloadInv
  <2>4. /\ fd[d] = dir[path[d]] /\ fd[d] # None /\ out[d] = SubSeq(file, 1, got[d])
        /\ got[d] <= Len(file)
    BY <1>0, <2>2, <2>3 DEF DownloadInv
  <2>5. got[d] = Len(file)
    BY <2>1, <2>4, <1>5, ChunkAssumption DEF ReadsNothing, ReadEnd
  <2>6. SubSeq(file, 1, Len(file)) = file
    BY <2>1, SubSeqFull DEF Blocks
  <2> QED BY <2>2, <2>4, <2>5, <2>6 DEF DownloadInv
<1>6. CASE DownloadAborts(d)
  BY <1>0, <1>6 DEF DownloadAborts, DownloadInv
<1> QED BY <1>2, <1>3, <1>4, <1>5, <1>6 DEF DownloadStep

LEMMA DownloadStepKeeps ==
  ASSUME TypeInv, KeepInv, NEW d \in Downloads, DownloadStep(d), UNCHANGED appVars
  PROVE  KeepInv'
<1> USE DEF KeepInv, TypeInv, FilesTypeOK, ServerTypeOK
<1>0. d \in Transfers /\ d \notin Uploads
  BY TransfersAssumption DEF Transfers
<1>1. Running(d) /\ path[d] \in Paths
  BY <1>0 DEF DownloadStep, StatFile, OpenForRead, ReadAndSend, ReadsNothing, DownloadAborts,
              Running, Shape
<1>2. /\ UNCHANGED <<dir, data, path, taken, met, status>>
      /\ \A t \in Transfers \ {d} : /\ handler'[t] = handler[t] /\ fd'[t] = fd[t]
                                    /\ got'[t] = got[t] /\ size'[t] = size[t]
      /\ \A c \in Downloads \ {d} : out'[c] = out[c]
  BY DEF DownloadStep, StatFile, OpenForRead, ReadAndSend, ReadsNothing, DownloadAborts,
         At, Over, fileVars, appVars
<1>3. /\ fd'[d] # None => fd'[d] = dir[path[d]] \/ fd'[d] = fd[d]
      /\ Running(d)' \/ fd'[d] = None
      /\ handler'[d] # "none"
      /\ handler'[d] = "open" => got'[d] = 0 /\ out'[d] = <<>> /\ fd'[d] = None
      /\ handler'[d] # "stat"
  <2> USE <1>0 DEF At, Over, Running, StartInv
  <2>1. CASE StatFile(d)
    BY <2>1 DEF StatFile
  <2>2. CASE OpenForRead(d)
    BY <2>2 DEF OpenForRead
  <2>3. CASE ReadAndSend(d)
    BY <2>3 DEF ReadAndSend
  <2>4. CASE ReadsNothing(d)
    BY <2>4 DEF ReadsNothing
  <2>5. CASE DownloadAborts(d)
    BY <2>5 DEF DownloadAborts
  <2> QED BY <2>1, <2>2, <2>3, <2>4, <2>5 DEF DownloadStep
<1>4. DirInv'
  BY <1>2 DEF DirInv
<1>5. FdInv'
  <2>1. ASSUME NEW t \in Transfers, fd'[t] # None, NEW q \in Paths, dir[q] = fd'[t]
        PROVE  q = path[t]
    <3>1. CASE t = d
      BY <1>0, <1>1, <1>3, <2>1, <3>1 DEF DirInv, FdInv
    <3>2. CASE t # d
      BY <1>2, <2>1, <3>2 DEF FdInv
    <3> QED BY <3>1, <3>2
  <2>2. \A t \in Transfers : fd'[t] # None =>
          fd'[t] = fd[t] \/ (t = d /\ fd'[t] = dir[path[d]])
    BY <1>2, <1>3
  <2>3. ASSUME NEW t \in Transfers, fd'[t] # None, NEW v \in Transfers, fd'[v] = fd'[t]
        PROVE  path[v] = path[t]
    BY <1>0, <1>1, <2>2, <2>3 DEF FdInv
  <2> QED BY <1>2, <2>1, <2>3 DEF FdInv
<1>6. \A t \in Transfers \ {d} : Running(t)' = Running(t)
  BY <1>2 DEF Running
<1>7. StartInv'
  <2>1. ASSUME NEW t \in Transfers
        PROVE  /\ status'[t] = "new" => handler'[t] = "none"
               /\ status'[t] = "active" => path'[t] \in Paths
               /\ fd'[t] # None => Running(t)'
               /\ handler'[t] = "none" => got'[t] = 0
    <3>1. CASE t = d
      BY <1>0, <1>1, <1>2, <1>3, <3>1 DEF StartInv, Running
    <3>2. CASE t # d
      BY <1>2, <1>6, <3>2 DEF StartInv
    <3> QED BY <3>1, <3>2
  <2>2. ASSUME NEW u \in Uploads, handler'[u] \notin {"ok", "error"}, fd'[u] = None
        PROVE  taken'[u] = 0 /\ got'[u] = 0
    BY <1>0, <1>2, <2>2 DEF StartInv, Transfers
  <2>3. ASSUME NEW c \in Downloads, handler'[c] \in {"none", "stat", "open"}
        PROVE  got'[c] = 0 /\ out'[c] = <<>> /\ fd'[c] = None
    <3>1. CASE c = d
      BY <1>3, <2>3, <3>1
    <3>2. CASE c # d
      BY <1>2, <2>3, <3>2 DEF StartInv, Transfers
    <3> QED BY <3>1, <3>2
  <2> QED BY <2>1, <2>2, <2>3 DEF StartInv
<1>8. RivalInv'
  <2>1. \A t \in Transfers : Busy(t)' => Busy(t)
    BY <1>1, <1>2, <1>6 DEF Busy
  <2> QED BY <1>2, <2>1 DEF RivalInv, Transfers
<1>9. ASSUME NEW u \in Uploads PROVE UploadInv(u)'
  <2>1. UploadInv(u) /\ u \in Transfers \ {d}
    BY <1>0 DEF Transfers
  <2> QED BY <1>2, <2>1 DEF UploadInv, Solid
<1>10. ASSUME NEW c \in Downloads PROVE DownloadInv(c)'
  <2>1. CASE c = d
    BY <2>1, OwnRead
  <2>2. CASE c # d
    <3>1. DownloadInv(c) /\ c \in Transfers \ {d}
      BY <2>2 DEF Transfers
    <3> QED BY <1>2, <2>2, <3>1 DEF DownloadInv
  <2> QED BY <2>1, <2>2
<1> QED BY <1>4, <1>5, <1>7, <1>8, <1>9, <1>10

LEMMA KeepStep ==
  ASSUME TypeInv, KeepInv, [Next]_vars
  PROVE  KeepInv'
<1> USE DEF TypeInv, FilesTypeOK, serverVars, fileVars, streamVars, handlerVars, appVars
<1>1. ASSUME NEW u \in Uploads,
             \/ BeginUnheard(u) \/ SendChunk(u) \/ SendRest(u) \/ ReadFails(u) \/ UploadAnswered(u)
      PROVE  Quiet
  BY <1>1 DEF BeginUnheard, SendChunk, SendRest, ReadFails, UploadAnswered, Ends, Quiet
<1>2. ASSUME NEW d \in Downloads, DownloadAnswered(d) PROVE Quiet
  BY <1>2 DEF DownloadAnswered, Ends, Quiet
<1>3. ASSUME NEW t \in Transfers, Fails(t) \/ LinkBreaks(t) PROVE Quiet
  BY <1>3 DEF Fails, LinkBreaks, Ends, Quiet
<1>4. UNCHANGED vars => Quiet
  BY DEF vars, Quiet
<1>5. ASSUME NEW u \in Uploads, NEW p \in Paths, NEW n \in Sizes, BeginUpload(u, p, n)
      PROVE  KeepInv'
  BY <1>5, BeginKeeps DEF Transfers
<1>6. ASSUME NEW d \in Downloads, NEW p \in Paths, BeginDownload(d, p) PROVE KeepInv'
  BY <1>6, BeginKeeps DEF Transfers
<1> QED BY <1>1, <1>2, <1>3, <1>4, <1>5, <1>6, QuietKeeps, DeleteKeeps, UploadStepKeeps,
           DownloadStepKeeps, StepCases

LEMMA KeepInit == Init => KeepInv
<1> SUFFICES ASSUME Init PROVE KeepInv
  OBVIOUS
<1>1. DirInv
  BY DEF Init, ServerInit, DirInv
<1>2. StartInv /\ FdInv /\ RivalInv
  BY DEF Init, ServerInit, StartInv, FdInv, RivalInv, Busy, Running, Transfers
<1>3. \A u \in Uploads : UploadInv(u)
  BY DEF Init, ServerInit, UploadInv, Transfers
<1>4. \A d \in Downloads : DownloadInv(d)
  BY DEF Init, ServerInit, DownloadInv, Transfers
<1> QED BY <1>1, <1>2, <1>3, <1>4 DEF KeepInv

LEMMA KeepAlways == Spec => []KeepInv
BY TypeInit, KeepInit, TypeStep, KeepStep, PTL DEF Spec

\* An undisturbed upload that is answered with success has left its file.
THEOREM UploadIsKept == Spec => []UploadKept
<1>1. KeepInv => UploadKept
  BY DEF KeepInv, UploadInv, UploadKept, AloneAnswered, Content, Solid
<1> QED BY <1>1, KeepAlways, PTL

\* An undisturbed upload leaves no file that is shorter than announced.
THEOREM PartialIsRemoved == Spec => []NoPartialLeft
<1>1. KeepInv => NoPartialLeft
  BY DEF KeepInv, UploadInv, NoPartialLeft, Content
<1> QED BY <1>1, KeepAlways, PTL

\* An undisturbed download that succeeds has delivered the whole file.
THEOREM DownloadIsKept == Spec => []DownloadKept
<1>1. KeepInv => DownloadKept
  BY DEF KeepInv, DownloadInv, DownloadKept, AloneAnswered, Content
<1> QED BY <1>1, KeepAlways, PTL
-----------------------------------------------------------------------------
(* What is left at rest *)

AllOf(file, u) == \A i \in DOMAIN file : file[i] = u

\* Nothing crossed an upload of path p.
Uncrossed(p) == \A u \in Uploads : path[u] = p => u \notin met

\* The file of path p is what FilesAtRest asks for.
Whole(p) ==
  \/ dir[p] = None
  \/ Content(p) = <<None>>
  \/ \E u \in Uploads : path[u] = p /\ Len(Content(p)) >= size[u] /\ AllOf(Content(p), u)

\* An upload fills its file with nothing but its own blocks, and the file of a path
\* is whole except while one of its uploads has it open.
RestInv ==
  /\ \A u \in Uploads : status[u] = "new" => path[u] = None
  /\ \A u \in Uploads : u \notin met /\ fd[u] # None => AllOf(data[fd[u]], u)
  /\ \A p \in Paths :
       Uncrossed(p) => Whole(p) \/ \E u \in Uploads : path[u] = p /\ fd[u] # None

\* What is written at or before the end leaves no hole.
LEMMA OverwriteAllOf ==
  ASSUME NEW u \in Uploads, NEW old \in Blocks, AllOf(old, u),
         NEW at \in Nat, at <= Len(old), NEW n \in Nat
  PROVE  AllOf(Overwrite(old, at, n, u), u)
<1> DEFINE m == IF at + n > Len(old) THEN at + n ELSE Len(old)
<1>1. Len(old) \in Nat /\ DOMAIN old = 1 .. Len(old)
  BY LenProperties DEF Blocks
<1>2. SUFFICES ASSUME NEW i \in 1 .. m PROVE Overwrite(old, at, n, u)[i] = u
  BY DEF AllOf, Overwrite
<1>3. i \in at + 1 .. at + n \/ i \in 1 .. Len(old)
  BY <1>1
<1>4. i <= Len(old) => old[i] = u
  BY <1>1 DEF AllOf
<1> QED BY <1>1, <1>2, <1>3, <1>4 DEF Overwrite

LEMMA QuietRests ==
  ASSUME TypeInv, RestInv, Quiet
  PROVE  RestInv'
BY DEF Quiet, RestInv, Uncrossed, Whole, Content, AllOf, Transfers

LEMMA DeleteRests ==
  ASSUME TypeInv, RestInv, NEW p \in Paths, Delete(p)
  PROVE  RestInv'
<1>1. /\ \A q \in Paths : dir'[q] = IF q = p THEN None ELSE dir[q]
      /\ UNCHANGED <<data, fd, path, size, status>>
      /\ met \subseteq met'
  BY DEF Delete, DeleteFile, handlerVars, TypeInv, FilesTypeOK, ServerTypeOK
<1>2. ASSUME NEW q \in Paths, Uncrossed(q)'
      PROVE  Whole(q)' \/ \E u \in Uploads : path'[u] = q /\ fd'[u] # None
  BY <1>1, <1>2 DEF RestInv, Uncrossed, Whole, Content
<1> QED BY <1>1, <1>2 DEF RestInv

LEMMA BeginRests ==
  ASSUME TypeInv, KeepInv, RestInv, NEW t \in Transfers, NEW p \in Paths,
         \/ t \in Uploads /\ \E n \in Sizes : BeginUpload(t, p, n)
         \/ t \in Downloads /\ BeginDownload(t, p)
  PROVE  RestInv'
<1> USE DEF TypeInv, FilesTypeOK, ServerTypeOK
<1>1. /\ UNCHANGED <<dir, data, fd>> /\ met \subseteq met'
      /\ \A u \in Uploads \ {t} : /\ path'[u] = path[u] /\ size'[u] = size[u]
                                  /\ status'[u] = status[u]
      /\ status[t] = "new" /\ status'[t] = "active" /\ fd[t] = None
  BY DEF BeginUpload, BeginDownload, Begins, IsNext, Arrives, Ends, At, fileVars, KeepInv, StartInv,
         Running, Transfers
<1>2. t \in Uploads => path[t] = None /\ path'[t] = p
  BY <1>1, TransfersAssumption DEF RestInv, BeginUpload, BeginDownload, Begins, Arrives
<1>3. ASSUME NEW q \in Paths, Uncrossed(q)'
      PROVE  Whole(q)' \/ \E u \in Uploads : path'[u] = q /\ fd'[u] # None
  <2>1. \A u \in Uploads : path[u] = q => u # t
    BY <1>2, NoFileAssumption
  <2>2. Uncrossed(q)
    BY <1>1, <1>3, <2>1 DEF Uncrossed
  <2>3. CASE \E u \in Uploads : path[u] = q /\ fd[u] # None
    BY <1>1, <2>1, <2>3
  <2>4. CASE Whole(q)
    BY <1>1, <2>1, <2>4 DEF Whole, Content
  <2> QED BY <2>2, <2>3, <2>4 DEF RestInv
<1> QED BY <1>1, <1>3 DEF RestInv

LEMMA DownloadRests ==
  ASSUME TypeInv, RestInv, NEW d \in Downloads, DownloadStep(d), UNCHANGED appVars
  PROVE  RestInv'
<1>1. /\ UNCHANGED <<dir, data, path, met, status>>
      /\ \A u \in Uploads : fd'[u] = fd[u] /\ size'[u] = size[u]
  BY TransfersAssumption
  DEF DownloadStep, StatFile, OpenForRead, ReadAndSend, ReadsNothing, DownloadAborts, At, Over,
      fileVars, appVars, TypeInv, FilesTypeOK, ServerTypeOK, Transfers
<1> QED BY <1>1 DEF RestInv, Uncrossed, Whole, Content

\* What an upload has open after a step of its handler is all its own.
LEMMA OwnBlocks ==
  ASSUME TypeInv, KeepInv, RestInv, NEW u \in Uploads, u \notin met, UploadStep(u), fd'[u] # None
  PROVE  AllOf(data'[fd'[u]], u)
<1> USE DEF TypeInv, FilesTypeOK, ServerTypeOK
<1>1. u \in Transfers
  BY DEF Transfers
<1>2. fd[u] # None => /\ data[fd[u]] \in Blocks /\ AllOf(data[fd[u]], u)
                      /\ got[u] \in Nat /\ got[u] <= Len(data[fd[u]])
  <2>1. fd[u] # None => Len(data[fd[u]]) \in Nat /\ Len(data[fd[u]]) >= got[u]
    BY <1>1, LenProperties DEF KeepInv, UploadInv, Blocks
  <2> QED BY <1>1, <2>1 DEF RestInv
<1>3. CASE OpenFile(u)
  BY <1>1, <1>3 DEF OpenFile, AllOf
<1>4. CASE WriteChunk(u)
  <2>1. /\ fd[u] \in Inodes /\ fd'[u] = fd[u]
        /\ data'[fd[u]] = Overwrite(data[fd[u]], got[u], ChunkBlocks(u), u)
    BY <1>1, <1>4 DEF WriteChunk
  <2> QED BY <1>2, <2>1, ChunkType, OverwriteAllOf, NoFileAssumption
<1>5. CASE WriteFails(u)
  <2>1. PICK n \in 0 .. ChunkBlocks(u) - 1 :
          data' = [data EXCEPT ![fd[u]] = IF n = 0 THEN @ ELSE Overwrite(@, got[u], n, u)]
    BY <1>5 DEF WriteFails
  <2>2. n \in Nat /\ fd[u] \in Inodes /\ fd'[u] = fd[u]
    BY <1>1, <1>5, ChunkType DEF WriteFails
  <2>3. AllOf(Overwrite(data[fd[u]], got[u], n, u), u)
    BY <1>2, <2>2, OverwriteAllOf, NoFileAssumption
  <2> QED BY <1>2, <2>1, <2>2, <2>3, NoFileAssumption
<1>6. CASE OpenFails(u) \/ StreamEnds(u) \/ StreamBreaks(u)
  BY <1>2, <1>6 DEF OpenFails, StreamEnds, StreamBreaks, fileVars
<1>7. CASE CleanUp(u)
  BY <1>1, <1>7 DEF CleanUp, Over
<1> QED BY <1>3, <1>4, <1>5, <1>6, <1>7 DEF UploadStep

LEMMA UploadRests ==
  ASSUME TypeInv, KeepInv, RestInv, NEW u \in Uploads, UploadStep(u), UNCHANGED appVars
  PROVE  RestInv'
<1> USE DEF TypeInv, FilesTypeOK, ServerTypeOK
<1>1. u \in Transfers /\ path[u] \in Paths
  BY DEF UploadStep, OpenFile, OpenFails, WriteChunk, WriteFails, StreamEnds, StreamBreaks, CleanUp,
         Running, Shape, Transfers
<1>2. /\ UNCHANGED <<path, size, met, status>>
      /\ \A v \in Uploads \ {u} : fd'[v] = fd[v]
  BY DEF UploadStep, OpenFile, OpenFails, WriteChunk, WriteFails, StreamEnds, StreamBreaks, CleanUp,
         At, Over, LeavesLoop, appVars, Transfers
<1>3. ASSUME NEW v \in Uploads, v \notin met, fd'[v] # None PROVE AllOf(data'[fd'[v]], v)
  <2>1. CASE v = u
    BY <1>3, <2>1, OwnBlocks
  <2>2. CASE v # u
    <3>1. v \in Transfers \ {u} /\ fd[v] # None
      BY <1>2, <1>3, <2>2 DEF Transfers
    <3>2. Busy(v) /\ dir[path[v]] = fd[v]
      BY <1>3, <3>1 DEF KeepInv, StartInv, UploadInv, Busy
    <3>3. data'[fd[v]] = data[fd[v]]
      BY <1>3, <3>1, <3>2, OthersKept
    <3> QED BY <1>2, <1>3, <2>2, <3>1, <3>3 DEF RestInv
  <2> QED BY <2>1, <2>2
<1>4. ASSUME NEW p \in Paths, Uncrossed(p)
      PROVE  Whole(p)' \/ \E v \in Uploads : path'[v] = p /\ fd'[v] # None
  <2>1. Whole(p) \/ \E v \in Uploads : path[v] = p /\ fd[v] # None
    BY <1>4 DEF RestInv
  <2>2. CASE p # path[u]
    <3>1. dir'[p] = dir[p] /\ (dir[p] # None => data'[dir[p]] = data[dir[p]])
      BY <2>2, PathsKept
    <3>2. Whole(p) => Whole(p)'
      BY <1>2, <3>1 DEF Whole, Content
    <3> QED BY <1>2, <2>1, <2>2, <3>2
  <2>3. CASE p = path[u] /\ UNCHANGED <<dir, data, fd>>
    BY <1>2, <2>1, <2>3 DEF Whole, Content
  <2>4. CASE p = path[u] /\ fd'[u] # None
    BY <1>2, <2>4
  <2>5. CASE p = path[u] /\ CleanUp(u) /\ fd[u] # None
    <3>1. u \notin met
      BY <1>4, <2>5 DEF Uncrossed
    <3>2. dir[p] = fd[u] /\ Len(data[fd[u]]) >= got[u] /\ AllOf(data[fd[u]], u)
      BY <2>5, <3>1 DEF KeepInv, UploadInv, RestInv
    <3>3. Len(data[fd[u]]) \in Nat /\ got[u] \in Nat /\ size[u] \in Nat
      BY <1>1, <2>5, LenProperties DEF Blocks
    <3>4. CASE got[u] < size[u]
      BY <1>1, <2>5, <3>4 DEF CleanUp, Whole
    <3>5. CASE ~(got[u] < size[u])
      <4>1. UNCHANGED <<dir, data>>
        BY <2>5, <3>5 DEF CleanUp
      <4>2. Len(data[fd[u]]) >= size[u]
        BY <3>2, <3>3, <3>5
      <4> QED BY <1>2, <2>5, <3>2, <4>1, <4>2 DEF Whole, Content
    <3> QED BY <3>4, <3>5
  <2>6. \/ UNCHANGED <<dir, data, fd>> \/ fd'[u] # None
        \/ CleanUp(u) /\ fd[u] # None
    <3>1. OpenFile(u) => fd'[u] # None
      BY <1>1, NoFileAssumption DEF OpenFile
    <3>2. WriteChunk(u) \/ WriteFails(u) => fd'[u] # None
      BY DEF WriteChunk, WriteFails
    <3>3. OpenFails(u) \/ StreamEnds(u) \/ StreamBreaks(u) => UNCHANGED <<dir, data, fd>>
      BY DEF OpenFails, StreamEnds, StreamBreaks, fileVars
    <3>4. CleanUp(u) /\ fd[u] = None => UNCHANGED <<dir, data, fd>>
      BY <1>1 DEF CleanUp, Over
    <3> QED BY <3>1, <3>2, <3>3, <3>4 DEF UploadStep
  <2> QED BY <2>2, <2>3, <2>4, <2>5, <2>6
<1> QED BY <1>2, <1>3, <1>4 DEF RestInv, Uncrossed

LEMMA RestStep ==
  ASSUME TypeInv, KeepInv, RestInv, [Next]_vars
  PROVE  RestInv'
<1> USE DEF serverVars, fileVars, streamVars, handlerVars, appVars
<1>1. ASSUME NEW u \in Uploads,
             \/ BeginUnheard(u) \/ SendChunk(u) \/ SendRest(u) \/ ReadFails(u) \/ UploadAnswered(u)
      PROVE  Quiet
  BY <1>1 DEF BeginUnheard, SendChunk, SendRest, ReadFails, UploadAnswered, Ends, Quiet, TypeInv,
              FilesTypeOK
<1>2. ASSUME NEW d \in Downloads, DownloadAnswered(d) PROVE Quiet
  BY <1>2 DEF DownloadAnswered, Ends, Quiet, TypeInv, FilesTypeOK
<1>3. ASSUME NEW t \in Transfers, Fails(t) \/ LinkBreaks(t) PROVE Quiet
  BY <1>3 DEF Fails, LinkBreaks, Ends, Quiet, TypeInv, FilesTypeOK
<1>4. UNCHANGED vars => Quiet
  BY DEF vars, Quiet
<1>5. ASSUME NEW u \in Uploads, NEW p \in Paths, NEW n \in Sizes, BeginUpload(u, p, n)
      PROVE  RestInv'
  BY <1>5, BeginRests DEF Transfers
<1>6. ASSUME NEW d \in Downloads, NEW p \in Paths, BeginDownload(d, p) PROVE RestInv'
  BY <1>6, BeginRests DEF Transfers
<1> QED BY <1>1, <1>2, <1>3, <1>4, <1>5, <1>6, QuietRests, DeleteRests, UploadRests, DownloadRests,
           StepCases

LEMMA RestInit == Init => RestInv
<1> SUFFICES ASSUME Init PROVE RestInv
  OBVIOUS
<1>1. \A p \in Paths : dir[p] # None => data[dir[p]] = <<None>>
  BY DEF Init, ServerInit
<1>2. \A p \in Paths : Whole(p)
  BY <1>1 DEF Whole, Content
<1>3. \A u \in Uploads : path[u] = None /\ fd[u] = None
  BY DEF Init, ServerInit, Transfers
<1> QED BY <1>2, <1>3 DEF RestInv

\* Whatever fails, no file stays behind that is torn, mixed or short.
THEOREM FilesRest == Spec => []FilesAtRest
<1>1. KeepInv /\ RestInv => FilesAtRest
  <2> SUFFICES ASSUME KeepInv, RestInv, NEW p \in Paths, Calm(p), dir[p] # None
               PROVE  \/ Content(p) = <<None>>
                      \/ \E u \in Uploads : /\ path[u] = p /\ Len(Content(p)) >= size[u]
                                            /\ \A i \in DOMAIN Content(p) : Content(p)[i] = u
    BY DEF FilesAtRest
  <2>1. \A u \in Uploads : path[u] = p => fd[u] = None
    BY DEF Calm, KeepInv, StartInv, Transfers
  <2>2. Whole(p)
    BY <2>1 DEF Calm, RestInv, Uncrossed
  <2> QED BY <2>2 DEF Whole, AllOf
<1> QED BY TypeInit, KeepInit, RestInit, TypeStep, KeepStep, RestStep, <1>1, PTL DEF Spec
=============================================================================
