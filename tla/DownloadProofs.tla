--------------------------- MODULE DownloadProofs ---------------------------
(***************************************************************************)
(* What holds of the download engine for every number of urls, requests,   *)
(* workers and chunks.                                                     *)
(***************************************************************************)
EXTENDS Download, SequenceTheorems, TLAPS

-----------------------------------------------------------------------------
(* Type correctness.                                                       *)

\* A thread record with some fields replaced is a thread record.
LEMMA RunningType ==
  ASSUME NEW t \in {IdleThread} \cup RunningThreads, t.pc # "idle"
  PROVE  /\ t \in RunningThreads
         /\ t.req \in Requests /\ t.fin \in Nat /\ t.off \in Nat
         /\ t.orphan \in BOOLEAN
  BY DEF IdleThread, RunningThreads

\* LaunchThread leaves rows and pool well typed.
LEMMA LaunchType ==
  ASSUME TypeOK, NEW r \in Requests, LaunchThread(r)
  PROVE  rows' \in [Urls -> Nat \cup {NoRow}] /\ pool' \in Seq(Jobs)
  <1>1. UrlOf[r] \in Urls
    BY RequestAssumption
  <1>2. DEFINE from == IF rows[UrlOf[r]] = NoRow THEN 0 ELSE rows[UrlOf[r]]
  <1>3. from \in Nat
    BY <1>1 DEF TypeOK, NoRow
  <1>4. LoadJob(r, from) \in Jobs
    BY <1>3 DEF LoadJob, Jobs
  <1>5. QED
    BY <1>1, <1>3, <1>4 DEF LaunchThread, TypeOK

\* So does DownloadService.download, whichever of its branches is taken.
LEMMA ServiceDownloadType ==
  ASSUME TypeOK, NEW r \in Requests, ServiceDownload(r)
  PROVE  /\ paused' \subseteq Requests
         /\ rows' \in [Urls -> Nat \cup {NoRow}]
         /\ pool' \in Seq(Jobs)
  <1>1. CASE /\ pool' = Append(pool, InitJob(r))
             /\ UNCHANGED <<paused, rows>>
    <2>1. InitJob(r) \in Jobs
      BY DEF InitJob, Jobs
    <2>2. QED
      BY <1>1, <2>1 DEF TypeOK
  <1>2. CASE UNCHANGED <<paused, rows, pool>>
    BY <1>2 DEF TypeOK
  <1>3. ASSUME NEW i \in 1..Len(tasks), Restart(tasks[i])
        PROVE  /\ paused' \subseteq Requests
               /\ rows' \in [Urls -> Nat \cup {NoRow}]
               /\ pool' \in Seq(Jobs)
    <2>1. tasks[i] \in Requests
      BY DEF TypeOK
    <2>2. QED
      BY <1>3, <2>1, LaunchType DEF Restart, TypeOK
  <1>4. QED
    BY <1>1, <1>2, <1>3 DEF ServiceDownload

\* The messages the engine sends are messages.
LEMMA MessageTypes ==
  /\ BindSuc \in Messages
  /\ \A r \in Requests : InitMsg(r) \in Messages /\ ProgressMsg(r) \in Messages
  /\ \A u \in Urls : FinishedMsg(u) \in Messages
  BY DEF BindSuc, InitMsg, ProgressMsg, FinishedMsg, Messages

\* Taking a message leaves a queue of messages.
LEMMA DispatchType ==
  ASSUME TypeOK, NEW m, Dispatch(m)
  PROVE  looper' \in Seq(Messages)
  BY HeadTailProperties DEF TypeOK, Dispatch

\* Sending one leaves a queue of messages.
LEMMA NotifyType ==
  ASSUME TypeOK, NEW r \in Requests, NEW fin \in Nat,
         Notify(r, fin) \/ UNCHANGED looper
  PROVE  looper' \in Seq(Messages)
  <1>1. Append(looper, ProgressMsg(r)) \in Seq(Messages)
    BY MessageTypes, AppendProperties DEF TypeOK
  <1>2. looper' \in {looper, Append(looper, ProgressMsg(r))}
    BY DEF Notify
  <1>3. QED
    BY <1>1, <1>2 DEF TypeOK

\* A worker that becomes a well-typed thread leaves all threads well typed.
LEMMA BecomeType ==
  ASSUME TypeOK, NEW w \in Workers, NEW t \in {IdleThread} \cup RunningThreads,
         Become(w, t)
  PROVE  thread' \in [Workers -> {IdleThread} \cup RunningThreads]
  BY DEF TypeOK, Become

\* Each step of a worker keeps the types.
LEMMA WorkerType ==
  ASSUME TypeOK, NEW w \in Workers, Worker(w)
  PROVE  TypeOK'
  <1> DEFINE t == thread[w]
  <1> USE DEF managerVars, persistentVars, budgetVars
  <1>0. IdleThread \in {IdleThread} \cup RunningThreads
    OBVIOUS
  <1>a. t \in {IdleThread} \cup RunningThreads
    BY DEF TypeOK
  <1>r. t.pc # "idle" => /\ t \in RunningThreads
                         /\ t.req \in Requests /\ t.fin \in Nat
                         /\ t.off \in Nat /\ t.orphan \in BOOLEAN
    BY <1>a, RunningType
  <1>1. CASE TakeJob(w)
    <2> DEFINE job == Head(pool)
    <2>1. job \in Jobs /\ Tail(pool) \in Seq(Jobs)
      BY <1>1, HeadTailProperties DEF TakeJob, TypeOK
    <2> DEFINE new == [pc |-> IF job.kind = "init" THEN "init" ELSE "open",
                       req |-> job.req, fin |-> job.from, off |-> 0,
                       orphan |-> FALSE]
    <2>2. new \in RunningThreads
      BY <2>1 DEF Jobs, RunningThreads
    <2>3. Become(w, new)
      BY <1>1 DEF TakeJob
    <2>4. thread' \in [Workers -> {IdleThread} \cup RunningThreads]
      BY <2>2, <2>3, BecomeType
    <2>5. QED
      BY <1>1, <2>1, <2>4 DEF TakeJob, TypeOK
  <1>2. CASE InitSucceeds(w)
    <2>1. t.req \in Requests
      BY <1>2, <1>r DEF InitSucceeds, At
    <2>2. looper' \in Seq(Messages)
      BY <1>2, <2>1, MessageTypes DEF InitSucceeds, TypeOK
    <2>3. thread' \in [Workers -> {IdleThread} \cup RunningThreads]
      BY <1>2, <1>0, BecomeType DEF InitSucceeds
    <2>4. QED
      BY <1>2, <2>2, <2>3 DEF InitSucceeds, TypeOK
  <1>3. CASE InitFails(w)
    BY <1>3, <1>0, BecomeType DEF InitFails, TypeOK
  <1>4. CASE OpenSucceeds(w)
    <2> DEFINE new == [t EXCEPT !.pc = "read",
                                !.off = IF HonoursRange THEN @ + t.fin ELSE @]
    <2>1. t.pc # "idle"
      BY <1>4 DEF OpenSucceeds, At
    <2>2. new \in RunningThreads
      <3>1. t \in RunningThreads /\ t.off \in Nat /\ t.off + t.fin \in Nat
        BY <2>1, <1>r
      <3>2. QED
        BY <3>1 DEF RunningThreads
    <2>3. Become(w, new)
      BY <1>4 DEF OpenSucceeds
    <2>4. thread' \in [Workers -> {IdleThread} \cup RunningThreads]
      BY <2>2, <2>3, BecomeType
    <2>5. QED
      BY <1>4, <2>4 DEF OpenSucceeds, TypeOK
  <1>5. CASE LoadFails(w)
    BY <1>5, <1>0, BecomeType DEF LoadFails, TypeOK
  <1>6. CASE ReadChunk(w)
    <2> DEFINE new == [t EXCEPT !.pc = "check", !.fin = @ + 1, !.off = @ + 1]
    <2>1. t.pc # "idle"
      BY <1>6 DEF ReadChunk, At
    <2>2. new \in RunningThreads /\ t.fin + 1 \in Nat /\ UrlOf[t.req] \in Urls
      <3>1. /\ t \in RunningThreads /\ t.req \in Requests
            /\ t.fin + 1 \in Nat /\ t.off + 1 \in Nat
        BY <2>1, <1>r
      <3>2. new \in RunningThreads
        BY <3>1 DEF RunningThreads
      <3>3. QED
        BY <3>1, <3>2, RequestAssumption
    <2>3. thread' \in [Workers -> {IdleThread} \cup RunningThreads]
      BY <1>6, <2>2, BecomeType DEF ReadChunk
    <2>4. looper' \in Seq(Messages)
      BY <1>6, <2>1, <2>2, <1>r, NotifyType DEF ReadChunk
    <2>5. Written(UrlOf[t.req], t.fin + 1, t.off + 1) \in SUBSET Chunks
      <3>1. file[UrlOf[t.req]] \in SUBSET Chunks
        BY <2>2 DEF TypeOK
      <3>2. t.fin + 1 \in Nat \ {0} /\ FileLen \in Nat
        BY <2>1, <1>r, LengthAssumption
      <3>3. t.fin + 1 <= FileLen => t.fin + 1 \in Chunks
        BY <3>2 DEF Chunks
      <3>4. QED
        BY <3>1, <3>2, <3>3 DEF Written
    <2>6. file' \in [Urls -> SUBSET Chunks]
      BY <1>6, <2>2, <2>5 DEF ReadChunk, TypeOK
    <2>7. QED
      BY <1>6, <2>3, <2>4, <2>6 DEF ReadChunk, TypeOK
  <1>7. CASE CheckPause(w)
    <2>1. t.pc # "idle"
      BY <1>7 DEF CheckPause, At
    <2>2. /\ [t EXCEPT !.pc = "save"] \in RunningThreads
          /\ [t EXCEPT !.pc = "read"] \in RunningThreads
      BY <2>1, <1>r DEF RunningThreads
    <2>3. thread' \in [Workers -> {IdleThread} \cup RunningThreads]
      BY <1>7, <2>2 DEF CheckPause, Goto, TypeOK
    <2>4. looper' \in Seq(Messages)
      BY <1>7, <2>1, <1>r, NotifyType DEF CheckPause
    <2>5. QED
      BY <1>7, <2>3, <2>4 DEF CheckPause, TypeOK
  <1>8. CASE SavePosition(w)
    <2>1. t.fin \in Nat /\ UrlOf[t.req] \in Urls
      BY <1>8, <1>r, RequestAssumption DEF SavePosition, At
    <2>2. rows' \in [Urls -> Nat \cup {NoRow}]
      BY <1>8, <2>1 DEF SavePosition, TypeOK
    <2>3. thread' \in [Workers -> {IdleThread} \cup RunningThreads]
      BY <1>8, <1>0, BecomeType DEF SavePosition
    <2>4. QED
      BY <1>8, <2>2, <2>3 DEF SavePosition, TypeOK
  <1>9. CASE ReadEnd(w)
    <2>1. t.pc # "idle"
      BY <1>9 DEF ReadEnd, At
    <2>2. looper' \in Seq(Messages)
      BY <1>9, <2>1, <1>r, NotifyType DEF ReadEnd
    <2>3. thread' \in [Workers -> {IdleThread} \cup RunningThreads]
      BY <1>9, <1>0, BecomeType DEF ReadEnd
    <2>4. QED
      BY <1>9, <2>2, <2>3 DEF ReadEnd, TypeOK
  <1>10. QED
    BY <1>1, <1>2, <1>3, <1>4, <1>5, <1>6, <1>7, <1>8, <1>9 DEF Worker

\* While pending requests are drained the handler holds the only permit.
DrainHoldsPermit == main = "drain" => permits = 0

\* Each step of the main thread's looper keeps the types.
LEMMA HandlerType ==
  ASSUME TypeOK, DrainHoldsPermit, Handler
  PROVE  TypeOK'
  <1> USE DEF managerVars, persistentVars, budgetVars
  <1>1. CASE HandleBindSuc
    BY <1>1, DispatchType DEF HandleBindSuc, TypeOK
  <1>2. CASE DrainPending
    <2>1. Len(pending) \in 1..Len(pending) /\ Len(pending) \in Nat
      BY <1>2, EmptySeq DEF DrainPending, TypeOK
    <2>2. pending[Len(pending)] \in Requests
      BY <2>1 DEF TypeOK
    <2>3. SubSeq(pending, 1, Len(pending) - 1) \in Seq(Requests)
      BY <2>1, SubSeqProperties DEF TypeOK
    <2>4. QED
      BY <1>2, <2>2, <2>3, ServiceDownloadType DEF DrainPending, TypeOK
  <1>3. CASE DrainDone
    BY <1>3 DEF DrainDone, DrainHoldsPermit, TypeOK
  <1>4. ASSUME NEW r \in Requests, HandleInit(r)
        PROVE  TypeOK'
    BY <1>4, DispatchType, LaunchType DEF HandleInit, TypeOK
  <1>5. ASSUME NEW r \in Requests, HandleProgress(r)
        PROVE  TypeOK'
    <2>1. UrlOf[r] \in Urls
      BY RequestAssumption
    <2>2. looper' \in Seq(Messages)
      BY <1>5, DispatchType DEF HandleProgress
    <2>3. calls' \in [Requests -> Nat]
      BY <1>5 DEF HandleProgress, TypeOK
    <2>4. bcasts' \in [Urls -> Nat] /\ rows' \in [Urls -> Nat \cup {NoRow}]
      BY <1>5, <2>1 DEF HandleProgress, TypeOK
    <2>5. QED
      BY <1>5, <2>2, <2>3, <2>4 DEF HandleProgress, TypeOK
  <1>6. ASSUME NEW u \in Urls, HandleFinished(u)
        PROVE  TypeOK'
    <2>1. tasks' \in Seq(Requests)
      <3>1. ASSUME NEW i \in 1..Len(tasks)
            PROVE  SubSeq(tasks, 1, i - 1) \o SubSeq(tasks, i + 1, Len(tasks))
                     \in Seq(Requests)
        <4>1. /\ SubSeq(tasks, 1, i - 1) \in Seq(Requests)
              /\ SubSeq(tasks, i + 1, Len(tasks)) \in Seq(Requests)
          <5>1. tasks \in Seq(Requests) /\ Len(tasks) \in Nat
            BY LenProperties DEF TypeOK
          <5>2. \A j \in 1..Len(tasks) : tasks[j] \in Requests
            BY <5>1, ElementOfSeq
          <5>3. (\A j \in 1..(i - 1) : tasks[j] \in Requests)
                /\ (\A j \in (i + 1)..Len(tasks) : tasks[j] \in Requests)
            BY <5>1, <5>2
          <5>4. SubSeq(tasks, 1, i - 1) \in Seq(Requests)
            BY <5>1, <5>3, SubSeqProperties
          <5>5. SubSeq(tasks, i + 1, Len(tasks)) \in Seq(Requests)
            BY <5>1, <5>3, SubSeqProperties
          <5>6. QED
            BY <5>4, <5>5
        <4>2. QED
          BY <4>1, ConcatProperties
      <3>2. QED
        BY <1>6, <3>1 DEF HandleFinished, TypeOK
    <2>2. looper' \in Seq(Messages)
      BY <1>6, DispatchType DEF HandleFinished
    <2>3. QED
      BY <1>6, <2>1, <2>2 DEF HandleFinished, TypeOK
  <1>7. QED
    BY <1>1, <1>2, <1>3, <1>4, <1>5, <1>6 DEF Handler

\* DownloadManager, DownloadService, the pool and the table stay well typed,
\* whatever the numbers of urls, requests, workers and chunks.
THEOREM TypeCorrect == Spec => []TypeOK
  <1> USE DEF managerVars, persistentVars, budgetVars
  <1>1. Init => TypeOK /\ DrainHoldsPermit
    <2> SUFFICES ASSUME Init
                 PROVE  TypeOK /\ DrainHoldsPermit
      OBVIOUS
    <2>1. /\ <<>> \in Seq(Requests) /\ <<>> \in Seq(Messages)
          /\ <<>> \in Seq(Jobs)
      BY EmptySeq
    <2>2. /\ rows \in [Urls -> Nat \cup {NoRow}]
          /\ file \in [Urls -> SUBSET Chunks]
          /\ bcasts \in [Urls -> Nat]
          /\ calls \in [Requests -> Nat]
          /\ thread \in [Workers -> {IdleThread} \cup RunningThreads]
      BY DEF Init
    <2>3. /\ pauses \in 0..MaxPauses /\ crashes \in 0..MaxCrashes
          /\ deletes \in 0..MaxDeletes
      BY BoundAssumption DEF Init
    <2>4. QED
      BY <2>1, <2>2, <2>3 DEF Init, TypeOK, DrainHoldsPermit
  <1>2. TypeOK /\ DrainHoldsPermit /\ [Next]_vars => TypeOK'
    <2> SUFFICES ASSUME TypeOK, DrainHoldsPermit, [Next]_vars
                 PROVE  TypeOK'
      OBVIOUS
    <2>1. ASSUME NEW r \in Requests, StartDownloadBound(r)
          PROVE  TypeOK'
      BY <2>1, ServiceDownloadType DEF StartDownloadBound, TypeOK
    <2>2. ASSUME NEW r \in Requests, StartDownloadUnbound(r)
          PROVE  TypeOK'
      <3>1. Append(pending, r) \in Seq(Requests)
        BY AppendProperties DEF TypeOK
      <3>2. /\ pending' \in {pending, Append(pending, r)}
            /\ permits' \in {permits, 0} /\ main' \in {main, "blocked"}
        BY <2>2 DEF StartDownloadUnbound, EnlistPending
      <3>3. conns' \in Nat /\ issued' \subseteq Requests
        BY <2>2 DEF StartDownloadUnbound, TypeOK
      <3>4. QED
        BY <2>2, <3>1, <3>2, <3>3 DEF StartDownloadUnbound, TypeOK
    <2>3. CASE ServiceConnected
      BY <2>3, MessageTypes DEF ServiceConnected, TypeOK
    <2>4. CASE Handler
      BY <2>4, HandlerType
    <2>5. ASSUME NEW u \in Urls, ReceiveFinished(u)
          PROVE  TypeOK'
      <3>1. FinishedMsg(u) \in Messages
        BY MessageTypes
      <3>2. QED
        BY <2>5, <3>1 DEF ReceiveFinished, TypeOK
    <2>6. ASSUME NEW u \in Urls, PauseDownload(u)
          PROVE  TypeOK'
      BY <2>6, BoundAssumption DEF PauseDownload, TypeOK
    <2>7. ASSUME NEW u \in Urls, DeleteFile(u)
          PROVE  TypeOK'
      <3>1. ASSUME NEW w \in Workers
            PROVE  thread'[w] \in {IdleThread} \cup RunningThreads
        <4>1. CASE thread[w].pc \in FileOpen
          <5>1. thread[w] \in RunningThreads
            BY <4>1 DEF TypeOK, FileOpen, IdleThread
          <5>2. [thread[w] EXCEPT !.orphan = TRUE] \in RunningThreads
            BY <5>1 DEF RunningThreads
          <5>3. QED
            BY <2>7, <5>1, <5>2 DEF DeleteFile
        <4>2. CASE thread[w].pc \notin FileOpen
          BY <2>7, <4>2 DEF DeleteFile, TypeOK
        <4>3. QED
          BY <4>1, <4>2
      <3>2. thread' \in [Workers -> {IdleThread} \cup RunningThreads]
        <4>1. thread' = [w \in Workers |-> thread'[w]]
          BY <2>7 DEF DeleteFile
        <4>2. QED
          BY <3>1, <4>1
      <3>3. QED
        BY <2>7, <3>2, BoundAssumption DEF DeleteFile, TypeOK
    <2>8. CASE LowMemory
      BY <2>8, BoundAssumption DEF LowMemory, TypeOK
    <2>9. ASSUME NEW w \in Workers, Worker(w)
          PROVE  TypeOK'
      BY <2>9, WorkerType
    <2>10. CASE Crash
      <3>1. /\ <<>> \in Seq(Requests) /\ <<>> \in Seq(Messages)
            /\ <<>> \in Seq(Jobs)
        BY EmptySeq
      <3>2. /\ bcasts' \in [Urls -> Nat]
            /\ thread' \in [Workers -> {IdleThread} \cup RunningThreads]
        BY <2>10 DEF Crash
      <3>3. crashes' \in 0..MaxCrashes
        BY <2>10, BoundAssumption DEF Crash, TypeOK
      <3>4. QED
        BY <2>10, <3>1, <3>2, <3>3 DEF Crash, TypeOK
    <2>11. CASE UNCHANGED vars
      BY <2>11 DEF vars, TypeOK
    <2>12. QED
      BY <2>1, <2>2, <2>3, <2>4, <2>5, <2>6, <2>7, <2>8, <2>9, <2>10, <2>11
         DEF Next
  <1>3. TypeOK /\ DrainHoldsPermit /\ [Next]_vars => DrainHoldsPermit'
    <2> SUFFICES ASSUME TypeOK, DrainHoldsPermit, [Next]_vars, main' = "drain"
                 PROVE  permits' = 0
      BY DEF DrainHoldsPermit
    <2>1. CASE HandleBindSuc
      BY <2>1 DEF HandleBindSuc
    <2>2. CASE UNCHANGED <<main, permits>>
      BY <2>2 DEF DrainHoldsPermit
    <2>3. CASE main' # "drain"
      BY <2>3
    <2>4. HandleBindSuc \/ UNCHANGED <<main, permits>> \/ main' # "drain"
      BY DEF Next, Handler, Worker, vars, StartDownloadBound,
             StartDownloadUnbound, EnlistPending, ServiceConnected,
             DrainPending, DrainDone, HandleInit, HandleProgress,
             HandleFinished, ReceiveFinished, PauseDownload, DeleteFile,
             LowMemory, TakeJob, InitSucceeds, InitFails, OpenSucceeds,
             LoadFails, ReadChunk, CheckPause, SavePosition, ReadEnd, Crash
    <2>5. QED
      BY <2>1, <2>2, <2>3, <2>4
  <1>4. QED
    BY <1>1, <1>2, <1>3, PTL DEF Spec

-----------------------------------------------------------------------------
(* The inductive invariant: every position the engine remembers, in the    *)
(* table, in a job, in a thread or as a message that says 100%, is backed  *)
(* by right bytes in the file.                                             *)

\* The first k chunks of the file of u are right.
Backed(u, k) == k <= FileLen /\ 1..k \subseteq file[u]

RowsBacked == \A u \in Urls : rows[u] # NoRow => Backed(u, rows[u])

JobsBacked ==
  \A i \in 1..Len(pool) : Backed(UrlOf[pool[i].req], pool[i].from)

\* A thread writes where it counts, and into the file that has the name.
ThreadBacked(t) ==
  t.pc # "idle" =>
    /\ Backed(UrlOf[t.req], t.fin)
    /\ ~t.orphan
    /\ t.pc \in {"init", "open"} => t.off = 0
    /\ t.pc \in {"read", "check"} => t.off = t.fin

ThreadsBacked == \A w \in Workers : ThreadBacked(thread[w])

MessagesBacked ==
  \A i \in 1..Len(looper) :
    looper[i].what = "PROGRESS" => Complete(UrlOf[looper[i].req])

IInv == RowsBacked /\ JobsBacked /\ ThreadsBacked /\ MessagesBacked

\* The server answers Range requests and nobody deletes files.
Benign == HonoursRange /\ MaxDeletes = 0

\* Right bytes are never lost: the only action that takes bytes away from a
\* file is its deletion, and a thread that resumes writes over right bytes
\* only what was there.
FilesGrow == \A u \in Urls : file[u] \subseteq file'[u]

\* What is backed or complete before a step that loses nothing is so after.
LEMMA BackedGrows ==
  ASSUME TypeOK, TypeOK', FilesGrow
  PROVE  /\ \A u \in Urls : \A k \in Nat :
              Backed(u, k) => k <= FileLen /\ 1..k \subseteq file'[u]
         /\ \A u \in Urls : Complete(u) => file'[u] = Chunks
  BY DEF FilesGrow, Backed, Complete, TypeOK

\* A position that covers the file makes it complete.
LEMMA BackedIsComplete ==
  ASSUME TypeOK, NEW u \in Urls, NEW k \in Nat, Backed(u, k), k >= FileLen
  PROVE  Complete(u)
  <1>1. k = FileLen
    BY LengthAssumption DEF Backed
  <1>2. file[u] \subseteq Chunks
    BY DEF TypeOK
  <1>3. QED
    BY <1>1, <1>2 DEF Backed, Complete, Chunks

\* One turn of the read loop of a backed thread adds the next chunk.
LEMMA ReadChunkGrows ==
  ASSUME TypeOK, NEW w \in Workers, ThreadBacked(thread[w]), ReadChunk(w)
  PROVE  LET t == thread[w]
         IN /\ FilesGrow
            /\ t.fin + 1 <= FileLen
            /\ 1..(t.fin + 1) \subseteq file'[UrlOf[t.req]]
  <1> DEFINE t == thread[w]
  <1>1. t.pc = "read" /\ t.off < FileLen
    BY DEF ReadChunk, At
  <1>2. t \in RunningThreads /\ t.req \in Requests /\ t.fin \in Nat
    BY <1>1, RunningType DEF TypeOK
  <1>3. UrlOf[t.req] \in Urls
    BY <1>2, RequestAssumption
  <1>4. /\ Backed(UrlOf[t.req], t.fin) /\ ~t.orphan /\ t.off = t.fin
    BY <1>1 DEF ThreadBacked
  <1>5. t.fin + 1 <= FileLen /\ t.fin + 1 = t.off + 1
    BY <1>1, <1>2, <1>4, LengthAssumption
  <1>6. file' = [file EXCEPT ![UrlOf[t.req]] = file[UrlOf[t.req]] \cup {t.fin + 1}]
    <2>1. Written(UrlOf[t.req], t.fin + 1, t.off + 1)
            = file[UrlOf[t.req]] \cup {t.fin + 1}
      BY <1>2, <1>5, LengthAssumption DEF Written
    <2>2. QED
      BY <1>4, <2>1 DEF ReadChunk
  <1>7. file'[UrlOf[t.req]] = file[UrlOf[t.req]] \cup {t.fin + 1}
    BY <1>3, <1>6 DEF TypeOK
  <1>8. 1..(t.fin + 1) \subseteq file'[UrlOf[t.req]]
    <2>1. 1..(t.fin + 1) = (1..t.fin) \cup {t.fin + 1}
      BY <1>2
    <2>2. QED
      BY <1>4, <1>7, <2>1 DEF Backed
  <1>9. FilesGrow
    BY <1>3, <1>6 DEF FilesGrow, TypeOK
  <1>10. QED
    BY <1>5, <1>8, <1>9

\* No step loses bytes when nobody deletes files.
LEMMA StepGrows ==
  ASSUME TypeOK, IInv, Benign, [Next]_vars
  PROVE  FilesGrow
  <1>1. ASSUME NEW w \in Workers, ReadChunk(w)
        PROVE  FilesGrow
    BY <1>1, ReadChunkGrows DEF IInv, ThreadsBacked
  <1>2. ASSUME NEW u \in Urls, DeleteFile(u)
        PROVE  FALSE
    <2>1. deletes \in 0..0 /\ deletes < 0
      BY <1>2 DEF DeleteFile, Benign, TypeOK
    <2>2. QED
      BY <2>1
  <1>3. CASE UNCHANGED file
    BY <1>3 DEF FilesGrow
  <1>4. \/ UNCHANGED file
        \/ \E w \in Workers : ReadChunk(w)
        \/ \E u \in Urls : DeleteFile(u)
    BY DEF Next, Handler, Worker, vars, StartDownloadBound,
           StartDownloadUnbound, ServiceConnected, DrainPending, DrainDone,
           HandleBindSuc, HandleInit, HandleProgress, HandleFinished,
           ReceiveFinished, PauseDownload, LowMemory, TakeJob, InitSucceeds,
           InitFails, OpenSucceeds, LoadFails, CheckPause, SavePosition,
           ReadEnd, Crash, persistentVars
  <1>5. QED
    BY <1>1, <1>2, <1>3, <1>4

\* A message that says 100% names a request.
LEMMA ProgressReq ==
  ASSUME NEW m \in Messages, m.what = "PROGRESS"
  PROVE  m.req \in Requests
  <1>1. m # BindSuc
    BY DEF BindSuc
  <1>2. m \notin [what : {"FINISHED"}, url : Urls]
    OBVIOUS
  <1>3. m \in [what : {"INIT", "PROGRESS"}, req : Requests]
    BY <1>1, <1>2 DEF Messages
  <1>4. QED
    BY <1>3

\* The queue of messages stays backed if what is sent is backed.
LEMMA MessagesKeep ==
  ASSUME TypeOK, TypeOK', FilesGrow, MessagesBacked,
         \/ looper' = looper
         \/ looper # <<>> /\ looper' = Tail(looper)
         \/ \E m \in Messages : /\ looper' = Append(looper, m)
                                /\ m.what = "PROGRESS" => Complete(UrlOf[m.req])
  PROVE  MessagesBacked'
  <1> SUFFICES ASSUME NEW i \in 1..Len(looper'), looper'[i].what = "PROGRESS"
               PROVE  file'[UrlOf[looper'[i].req]] = Chunks
    BY DEF MessagesBacked, Complete
  <1>0. looper \in Seq(Messages) /\ Len(looper) \in Nat
    BY LenProperties DEF TypeOK
  <1>p. \A m \in Messages : m.what = "PROGRESS" => UrlOf[m.req] \in Urls
    BY ProgressReq, RequestAssumption
  <1>1. looper'[i] \in Messages
    BY ElementOfSeq DEF TypeOK
  <1>2. UrlOf[looper'[i].req] \in Urls
    BY <1>1, <1>p
  <1>3. Complete(UrlOf[looper'[i].req])
    <2>1. CASE looper' = looper
      BY <2>1 DEF MessagesBacked
    <2>2. CASE looper # <<>> /\ looper' = Tail(looper)
      <3>1. looper'[i] = looper[i + 1] /\ i + 1 \in 1..Len(looper)
        BY <1>0, <2>2, HeadTailProperties
      <3>2. QED
        BY <3>1 DEF MessagesBacked
    <2>3. ASSUME NEW m \in Messages, looper' = Append(looper, m),
                 m.what = "PROGRESS" => Complete(UrlOf[m.req])
          PROVE  Complete(UrlOf[looper'[i].req])
      <3>1. \/ i \in 1..Len(looper) /\ looper'[i] = looper[i]
            \/ looper'[i] = m
        BY <1>0, <2>3, AppendProperties
      <3>2. QED
        BY <2>3, <3>1 DEF MessagesBacked
    <2>4. QED
      BY <2>1, <2>2, <2>3
  <1>4. QED
    BY <1>2, <1>3, BackedGrows

\* The queue of jobs stays backed if what is queued is backed.
LEMMA JobsKeep ==
  ASSUME TypeOK, TypeOK', FilesGrow, JobsBacked,
         \/ pool' = pool
         \/ pool # <<>> /\ pool' = Tail(pool)
         \/ \E j \in Jobs : /\ pool' = Append(pool, j)
                            /\ Backed(UrlOf[j.req], j.from)
  PROVE  JobsBacked'
  <1> SUFFICES ASSUME NEW i \in 1..Len(pool')
               PROVE  /\ pool'[i].from <= FileLen
                      /\ 1..pool'[i].from \subseteq file'[UrlOf[pool'[i].req]]
    BY DEF JobsBacked, Backed
  <1>0. pool \in Seq(Jobs) /\ Len(pool) \in Nat
    BY LenProperties DEF TypeOK
  <1>1. pool'[i] \in Jobs
    BY ElementOfSeq DEF TypeOK
  <1>2. UrlOf[pool'[i].req] \in Urls /\ pool'[i].from \in Nat
    BY <1>1, RequestAssumption DEF Jobs
  <1>3. Backed(UrlOf[pool'[i].req], pool'[i].from)
    <2>1. CASE pool' = pool
      BY <2>1 DEF JobsBacked
    <2>2. CASE pool # <<>> /\ pool' = Tail(pool)
      <3>1. pool'[i] = pool[i + 1] /\ i + 1 \in 1..Len(pool)
        BY <1>0, <2>2, HeadTailProperties
      <3>2. QED
        BY <3>1 DEF JobsBacked
    <2>3. ASSUME NEW j \in Jobs, pool' = Append(pool, j),
                 Backed(UrlOf[j.req], j.from)
          PROVE  Backed(UrlOf[pool'[i].req], pool'[i].from)
      <3>1. \/ i \in 1..Len(pool) /\ pool'[i] = pool[i]
            \/ pool'[i] = j
        BY <1>0, <2>3, AppendProperties
      <3>2. QED
        BY <2>3, <3>1 DEF JobsBacked
    <2>4. QED
      BY <2>1, <2>2, <2>3
  <1>4. QED
    BY <1>2, <1>3, BackedGrows

\* Threads stay backed if the one that changes is.
LEMMA ThreadsKeep ==
  ASSUME TypeOK, TypeOK', FilesGrow, ThreadsBacked,
         \/ thread' = thread
         \/ \E w \in Workers, t \in {IdleThread} \cup RunningThreads :
              /\ thread' = [thread EXCEPT ![w] = t]
              /\ t.pc # "idle" =>
                   /\ t.fin <= FileLen /\ 1..t.fin \subseteq file'[UrlOf[t.req]]
                   /\ ~t.orphan
                   /\ t.pc \in {"init", "open"} => t.off = 0
                   /\ t.pc \in {"read", "check"} => t.off = t.fin
  PROVE  ThreadsBacked'
  <1> SUFFICES ASSUME NEW v \in Workers, thread'[v].pc # "idle"
               PROVE  LET t == thread'[v]
                      IN /\ t.fin <= FileLen
                         /\ 1..t.fin \subseteq file'[UrlOf[t.req]]
                         /\ ~t.orphan
                         /\ t.pc \in {"init", "open"} => t.off = 0
                         /\ t.pc \in {"read", "check"} => t.off = t.fin
    BY DEF ThreadsBacked, ThreadBacked, Backed
  <1>1. CASE thread'[v] = thread[v]
    <2>1. thread[v].req \in Requests /\ thread[v].fin \in Nat
      BY <1>1, RunningType DEF TypeOK
    <2>2. UrlOf[thread[v].req] \in Urls
      BY <2>1, RequestAssumption
    <2>3. ThreadBacked(thread[v]) /\ thread[v].pc # "idle"
      BY <1>1 DEF ThreadsBacked
    <2>4. /\ thread[v].fin <= FileLen
          /\ 1..thread[v].fin \subseteq file'[UrlOf[thread[v].req]]
      BY <2>1, <2>2, <2>3, BackedGrows DEF ThreadBacked
    <2>5. QED
      BY <1>1, <2>3, <2>4 DEF ThreadBacked
  <1>2. CASE thread'[v] # thread[v]
    <2>1. PICK w \in Workers, t \in {IdleThread} \cup RunningThreads :
              /\ thread' = [thread EXCEPT ![w] = t]
              /\ t.pc # "idle" =>
                   /\ t.fin <= FileLen /\ 1..t.fin \subseteq file'[UrlOf[t.req]]
                   /\ ~t.orphan
                   /\ t.pc \in {"init", "open"} => t.off = 0
                   /\ t.pc \in {"read", "check"} => t.off = t.fin
      BY <1>2
    <2>2. thread'[v] = t
      BY <1>2, <2>1 DEF TypeOK
    <2>3. QED
      BY <2>1, <2>2
  <1>3. QED
    BY <1>1, <1>2

\* Rows stay backed if a row that changes goes away or is backed.
LEMMA RowsKeep ==
  ASSUME TypeOK, TypeOK', FilesGrow, RowsBacked,
         \A u \in Urls : \/ rows'[u] \in {rows[u], NoRow}
                         \/ Backed(u, rows'[u])
  PROVE  RowsBacked'
  <1> SUFFICES ASSUME NEW u \in Urls, rows'[u] # NoRow
               PROVE  rows'[u] <= FileLen /\ 1..rows'[u] \subseteq file'[u]
    BY DEF RowsBacked, Backed
  <1>1. rows'[u] \in Nat
    BY DEF TypeOK
  <1>2. Backed(u, rows'[u])
    BY DEF RowsBacked
  <1>3. QED
    BY <1>1, <1>2, BackedGrows

\* downlaod() queues a job that starts where the row says, or at 0.
LEMMA LaunchBacked ==
  ASSUME TypeOK, RowsBacked, NEW r \in Requests, LaunchThread(r)
  PROVE  /\ \A u \in Urls : rows'[u] \in {rows[u], NoRow} \/ Backed(u, rows'[u])
         /\ \E j \in Jobs : /\ pool' = Append(pool, j)
                           /\ Backed(UrlOf[j.req], j.from)
  <1> DEFINE k == IF rows[UrlOf[r]] = NoRow THEN 0 ELSE rows[UrlOf[r]]
  <1>1. UrlOf[r] \in Urls
    BY RequestAssumption
  <1>2. k \in Nat
    BY <1>1 DEF TypeOK, NoRow
  <1>3. Backed(UrlOf[r], k)
    <2>1. CASE rows[UrlOf[r]] = NoRow
      BY <2>1, LengthAssumption DEF Backed
    <2>2. CASE rows[UrlOf[r]] # NoRow
      BY <1>1, <2>2 DEF RowsBacked
    <2>3. QED
      BY <2>1, <2>2
  <1>4. /\ rows' = [rows EXCEPT ![UrlOf[r]] = k]
        /\ pool' = Append(pool, LoadJob(r, k))
    BY DEF LaunchThread
  <1>5. \A u \in Urls : rows'[u] \in {rows[u], NoRow} \/ Backed(u, rows'[u])
    BY <1>1, <1>3, <1>4 DEF TypeOK
  <1>6. /\ LoadJob(r, k) \in Jobs
        /\ LoadJob(r, k).req = r /\ LoadJob(r, k).from = k
    BY <1>2 DEF LoadJob, Jobs
  <1>7. QED
    BY <1>3, <1>4, <1>5, <1>6

\* DownloadService.download queues nothing, an InitThread or such a job.
LEMMA ServiceDownloadBacked ==
  ASSUME TypeOK, RowsBacked, NEW r \in Requests, ServiceDownload(r)
  PROVE  /\ \A u \in Urls : rows'[u] \in {rows[u], NoRow} \/ Backed(u, rows'[u])
         /\ \/ pool' = pool
            \/ \E j \in Jobs : /\ pool' = Append(pool, j)
                              /\ Backed(UrlOf[j.req], j.from)
  <1>1. CASE pool' = Append(pool, InitJob(r)) /\ UNCHANGED <<paused, rows>>
    <2>1. InitJob(r) \in Jobs /\ InitJob(r).from = 0 /\ InitJob(r).req = r
      BY DEF InitJob, Jobs
    <2>2. Backed(UrlOf[InitJob(r).req], InitJob(r).from)
      BY <2>1, LengthAssumption DEF Backed
    <2>3. QED
      BY <1>1, <2>1, <2>2
  <1>2. CASE UNCHANGED <<paused, rows, pool>>
    BY <1>2
  <1>3. ASSUME NEW i \in 1..Len(tasks), LaunchThread(tasks[i])
        PROVE  /\ \A u \in Urls : \/ rows'[u] \in {rows[u], NoRow}
                                  \/ Backed(u, rows'[u])
               /\ \E j \in Jobs : /\ pool' = Append(pool, j)
                                 /\ Backed(UrlOf[j.req], j.from)
    <2>1. tasks[i] \in Requests
      BY DEF TypeOK
    <2>2. QED
      BY <1>3, <2>1, LaunchBacked
  <1>4. QED
    BY <1>1, <1>2, <1>3 DEF ServiceDownload, Restart

\* A step of a worker keeps the invariant.
LEMMA WorkerBacked ==
  ASSUME TypeOK, TypeOK', IInv, FilesGrow, Benign,
         NEW w \in Workers, Worker(w)
  PROVE  IInv'
  <1> DEFINE t == thread[w]
  <1> USE DEF managerVars, persistentVars, budgetVars
  <1>a. t \in {IdleThread} \cup RunningThreads /\ ThreadBacked(t)
    BY DEF TypeOK, IInv, ThreadsBacked
  <1>r. t.pc # "idle" => /\ t \in RunningThreads
                         /\ t.req \in Requests /\ UrlOf[t.req] \in Urls
                         /\ t.fin \in Nat /\ t.off \in Nat
    BY <1>a, RunningType, RequestAssumption
  <1>b. t.pc # "idle" => /\ t.fin <= FileLen
                         /\ 1..t.fin \subseteq file'[UrlOf[t.req]]
    BY <1>a, <1>r, BackedGrows DEF ThreadBacked
  <1>i. IdleThread \in {IdleThread} \cup RunningThreads /\ IdleThread.pc = "idle"
    BY DEF IdleThread
  <1>n. ASSUME t.pc # "idle", t.fin >= FileLen
        PROVE  /\ ProgressMsg(t.req) \in Messages
               /\ Complete(UrlOf[ProgressMsg(t.req).req])
    <2>1. Complete(UrlOf[t.req])
      BY <1>a, <1>r, <1>n, BackedIsComplete DEF ThreadBacked
    <2>2. QED
      BY <1>r, <1>n, <2>1, MessageTypes DEF ProgressMsg
  <1>1. CASE TakeJob(w)
    <2> DEFINE job == Head(pool)
    <2> DEFINE new == [pc |-> IF job.kind = "init" THEN "init" ELSE "open",
                       req |-> job.req, fin |-> job.from, off |-> 0,
                       orphan |-> FALSE]
    <2>1. pool # <<>> /\ pool \in Seq(Jobs) /\ Len(pool) \in Nat
      BY <1>1, LenProperties DEF TakeJob, TypeOK
    <2>2. job \in Jobs /\ job = pool[1] /\ 1 \in 1..Len(pool)
      BY <2>1, HeadTailProperties, EmptySeq
    <2>3. job.req \in Requests /\ job.from \in Nat /\ UrlOf[job.req] \in Urls
      BY <2>2, RequestAssumption DEF Jobs
    <2>4. Backed(UrlOf[job.req], job.from)
      BY <2>2 DEF IInv, JobsBacked
    <2>5. job.from <= FileLen /\ 1..job.from \subseteq file'[UrlOf[job.req]]
      BY <2>3, <2>4, BackedGrows
    <2>6. new \in RunningThreads
      BY <2>2 DEF Jobs, RunningThreads
    <2>7. thread' = [thread EXCEPT ![w] = new]
      BY <1>1 DEF TakeJob, Become
    <2>8. /\ new.fin = job.from /\ new.req = job.req /\ new.orphan = FALSE
          /\ new.off = 0 /\ new.pc \in {"init", "open"}
      OBVIOUS
    <2>9. ThreadsBacked'
      BY <2>5, <2>6, <2>7, <2>8, ThreadsKeep DEF IInv
    <2>10. JobsBacked'
      BY <1>1, <2>1, JobsKeep DEF TakeJob, IInv
    <2>11. RowsBacked' /\ MessagesBacked'
      BY <1>1, RowsKeep, MessagesKeep DEF TakeJob, IInv
    <2>12. QED
      BY <2>9, <2>10, <2>11 DEF IInv
  <1>2. CASE InitSucceeds(w)
    <2>1. t.req \in Requests
      BY <1>2, <1>r DEF InitSucceeds, At
    <2>2. InitMsg(t.req) \in Messages /\ InitMsg(t.req).what # "PROGRESS"
      BY <2>1, MessageTypes DEF InitMsg
    <2>3. MessagesBacked'
      BY <1>2, <2>2, MessagesKeep DEF InitSucceeds, IInv
    <2>4. ThreadsBacked'
      BY <1>2, <1>i, ThreadsKeep DEF InitSucceeds, Become, IInv
    <2>5. RowsBacked' /\ JobsBacked'
      BY <1>2, RowsKeep, JobsKeep DEF InitSucceeds, IInv
    <2>6. QED
      BY <2>3, <2>4, <2>5 DEF IInv
  <1>3. CASE InitFails(w) \/ LoadFails(w)
    <2>1. ThreadsBacked'
      BY <1>3, <1>i, ThreadsKeep DEF InitFails, LoadFails, Become, IInv
    <2>2. RowsBacked' /\ JobsBacked' /\ MessagesBacked'
      BY <1>3, RowsKeep, JobsKeep, MessagesKeep DEF InitFails, LoadFails, IInv
    <2>3. QED
      BY <2>1, <2>2 DEF IInv
  <1>4. CASE OpenSucceeds(w)
    <2> DEFINE new == [t EXCEPT !.pc = "read", !.off = @ + t.fin]
    <2>1. t.pc = "open" /\ t.pc # "idle" /\ t.off = 0 /\ ~t.orphan
      BY <1>4, <1>a DEF OpenSucceeds, At, ThreadBacked
    <2>2. /\ new.pc = "read" /\ new.off = t.fin /\ new.fin = t.fin
          /\ new.req = t.req /\ new.orphan = t.orphan
          /\ new \in RunningThreads
      <3>1. t \in RunningThreads /\ t.off + t.fin = t.fin /\ t.fin \in Nat
        BY <1>r, <2>1
      <3>2. QED
        BY <3>1 DEF RunningThreads
    <2>3. thread' = [thread EXCEPT ![w] = new]
      BY <1>4 DEF OpenSucceeds, Become, Benign
    <2>4. ThreadsBacked'
      BY <1>b, <2>1, <2>2, <2>3, ThreadsKeep DEF IInv
    <2>5. RowsBacked' /\ JobsBacked' /\ MessagesBacked'
      BY <1>4, RowsKeep, JobsKeep, MessagesKeep DEF OpenSucceeds, IInv
    <2>6. QED
      BY <2>4, <2>5 DEF IInv
  <1>6. CASE ReadChunk(w)
    <2> DEFINE new == [t EXCEPT !.pc = "check", !.fin = @ + 1, !.off = @ + 1]
    <2>1. t.pc = "read" /\ t.pc # "idle" /\ t.off = t.fin /\ ~t.orphan
      BY <1>6, <1>a DEF ReadChunk, At, ThreadBacked
    <2>2. /\ new.pc = "check" /\ new.off = t.off + 1 /\ new.fin = t.fin + 1
          /\ new.req = t.req /\ new.orphan = t.orphan
          /\ new \in RunningThreads
      <3>1. t \in RunningThreads /\ t.off + 1 \in Nat /\ t.fin + 1 \in Nat
        BY <1>r, <2>1
      <3>2. QED
        BY <3>1 DEF RunningThreads
    <2>3. /\ t.fin + 1 <= FileLen
          /\ 1..(t.fin + 1) \subseteq file'[UrlOf[t.req]]
      BY <1>6, <1>a, ReadChunkGrows
    <2>4. thread' = [thread EXCEPT ![w] = new]
      BY <1>6 DEF ReadChunk, Become
    <2>5. ThreadsBacked'
      <3> HIDE DEF new
      <3>1. /\ new.fin <= FileLen /\ 1..new.fin \subseteq file'[UrlOf[new.req]]
            /\ ~new.orphan /\ new.off = new.fin /\ new.pc = "check"
        BY <2>1, <2>2, <2>3
      <3>2. QED
        BY <2>2, <2>4, <3>1, ThreadsKeep DEF IInv
    <2>6. MessagesBacked'
      <3>1. CASE UNCHANGED looper
        BY <3>1, MessagesKeep DEF IInv
      <3>2. CASE Notify(t.req, t.fin + 1) /\ looper' # looper
        <4>1. t.fin + 1 >= FileLen /\ looper' = Append(looper, ProgressMsg(t.req))
          BY <3>2 DEF Notify
        <4>2. file'[UrlOf[t.req]] = Chunks
          <5>1. t.fin + 1 = FileLen
            BY <2>1, <2>3, <4>1, <1>r, LengthAssumption
          <5>2. QED
            BY <1>r, <2>1, <2>3, <5>1 DEF Chunks, TypeOK
        <4>3. looper \in Seq(Messages) /\ ProgressMsg(t.req) \in Messages
          BY <1>r, <2>1, MessageTypes DEF TypeOK
        <4>4. ASSUME NEW i \in 1..Len(looper'), looper'[i].what = "PROGRESS"
              PROVE  file'[UrlOf[looper'[i].req]] = Chunks
          <5>1. CASE looper'[i] = ProgressMsg(t.req)
            BY <4>2, <5>1 DEF ProgressMsg
          <5>2. CASE i \in 1..Len(looper) /\ looper'[i] = looper[i]
            <6>1. looper[i] \in Messages /\ looper[i].what = "PROGRESS"
              BY <4>3, <4>4, <5>2, ElementOfSeq
            <6>2. UrlOf[looper[i].req] \in Urls
              BY <6>1, ProgressReq, RequestAssumption
            <6>3. Complete(UrlOf[looper[i].req])
              BY <5>2, <6>1 DEF IInv, MessagesBacked
            <6>4. QED
              BY <5>2, <6>2, <6>3, BackedGrows
          <5>3. QED
            BY <4>1, <4>3, <5>1, <5>2, LenProperties, AppendProperties
        <4>5. QED
          BY <4>4 DEF MessagesBacked, Complete
      <3>3. QED
        BY <1>6, <3>1, <3>2 DEF ReadChunk
    <2>7. RowsBacked' /\ JobsBacked'
      BY <1>6, RowsKeep, JobsKeep DEF ReadChunk, IInv
    <2>8. QED
      BY <2>5, <2>6, <2>7 DEF IInv
  <1>7. CASE CheckPause(w)
    <2>1. t.pc = "check" /\ t.pc # "idle" /\ t.off = t.fin /\ ~t.orphan
      BY <1>7, <1>a DEF CheckPause, At, ThreadBacked
    <2>2. ASSUME NEW pc \in {"save", "read"}
          PROVE  /\ [t EXCEPT !.pc = pc] \in RunningThreads
                 /\ [t EXCEPT !.pc = pc].pc = pc
                 /\ [t EXCEPT !.pc = pc].req = t.req
                 /\ [t EXCEPT !.pc = pc].fin = t.fin
                 /\ [t EXCEPT !.pc = pc].off = t.off
                 /\ [t EXCEPT !.pc = pc].orphan = t.orphan
      BY <1>r, <2>1 DEF RunningThreads
    <2>3. \E pc \in {"save", "read"} :
             thread' = [thread EXCEPT ![w] = [t EXCEPT !.pc = pc]]
      BY <1>7 DEF CheckPause, Goto
    <2>4. PICK pc \in {"save", "read"} :
             thread' = [thread EXCEPT ![w] = [t EXCEPT !.pc = pc]]
      BY <2>3
    <2>5. ThreadsBacked'
      BY <1>b, <2>1, <2>2, <2>4, ThreadsKeep DEF IInv
    <2>6. MessagesBacked'
      BY <1>7, <1>n, <2>1, MessagesKeep DEF CheckPause, Notify, IInv
    <2>7. RowsBacked' /\ JobsBacked'
      BY <1>7, RowsKeep, JobsKeep DEF CheckPause, IInv
    <2>8. QED
      BY <2>5, <2>6, <2>7 DEF IInv
  <1>8. CASE SavePosition(w)
    <2>1. t.pc # "idle"
      BY <1>8 DEF SavePosition, At
    <2>2. RowsBacked'
      <3>1. Backed(UrlOf[t.req], t.fin)
        BY <1>a, <2>1 DEF ThreadBacked
      <3>2. \A u \in Urls : rows'[u] \in {rows[u], NoRow} \/ Backed(u, rows'[u])
        BY <1>8, <1>r, <2>1, <3>1 DEF SavePosition, TypeOK
      <3>3. QED
        BY <3>2, RowsKeep DEF IInv
    <2>3. ThreadsBacked'
      BY <1>8, <1>i, ThreadsKeep DEF SavePosition, Become, IInv
    <2>4. JobsBacked' /\ MessagesBacked'
      BY <1>8, JobsKeep, MessagesKeep DEF SavePosition, IInv
    <2>5. QED
      BY <2>2, <2>3, <2>4 DEF IInv
  <1>9. CASE ReadEnd(w)
    <2>1. t.pc # "idle"
      BY <1>9 DEF ReadEnd, At
    <2>2. MessagesBacked'
      BY <1>9, <1>n, <2>1, MessagesKeep DEF ReadEnd, Notify, IInv
    <2>3. ThreadsBacked'
      BY <1>9, <1>i, ThreadsKeep DEF ReadEnd, Become, IInv
    <2>4. RowsBacked' /\ JobsBacked'
      BY <1>9, RowsKeep, JobsKeep DEF ReadEnd, IInv
    <2>5. QED
      BY <2>2, <2>3, <2>4 DEF IInv
  <1>10. QED
    BY <1>1, <1>2, <1>3, <1>4, <1>6, <1>7, <1>8, <1>9 DEF Worker

\* A step of the looper keeps the invariant.
LEMMA HandlerBacked ==
  ASSUME TypeOK, TypeOK', IInv, FilesGrow, Handler
  PROVE  IInv'
  <1> USE DEF managerVars, persistentVars, budgetVars
  <1>1. CASE HandleBindSuc
    BY <1>1, RowsKeep, JobsKeep, ThreadsKeep, MessagesKeep
       DEF HandleBindSuc, Dispatch, IInv
  <1>2. CASE DrainPending
    <2>1. pending[Len(pending)] \in Requests
      <3>1. Len(pending) \in 1..Len(pending)
        BY <1>2, EmptySeq DEF DrainPending, TypeOK
      <3>2. QED
        BY <3>1 DEF TypeOK
    <2>2. /\ \A u \in Urls : rows'[u] \in {rows[u], NoRow} \/ Backed(u, rows'[u])
          /\ \/ pool' = pool
             \/ \E j \in Jobs : /\ pool' = Append(pool, j)
                               /\ Backed(UrlOf[j.req], j.from)
      BY <1>2, <2>1, ServiceDownloadBacked DEF DrainPending, IInv
    <2>3. RowsBacked' /\ JobsBacked'
      BY <2>2, RowsKeep, JobsKeep DEF IInv
    <2>4. ThreadsBacked' /\ MessagesBacked'
      BY <1>2, ThreadsKeep, MessagesKeep DEF DrainPending, IInv
    <2>5. QED
      BY <2>3, <2>4 DEF IInv
  <1>3. CASE DrainDone
    BY <1>3, RowsKeep, JobsKeep, ThreadsKeep, MessagesKeep DEF DrainDone, IInv
  <1>4. ASSUME NEW r \in Requests, HandleInit(r)
        PROVE  IInv'
    <2>1. RowsBacked' /\ JobsBacked'
      BY <1>4, LaunchBacked, RowsKeep, JobsKeep DEF HandleInit, IInv
    <2>2. ThreadsBacked' /\ MessagesBacked'
      BY <1>4, ThreadsKeep, MessagesKeep DEF HandleInit, Dispatch, IInv
    <2>3. QED
      BY <2>1, <2>2 DEF IInv
  <1>5. ASSUME NEW r \in Requests, HandleProgress(r)
        PROVE  IInv'
    <2>1. \A u \in Urls : rows'[u] \in {rows[u], NoRow}
      BY <1>5, RequestAssumption DEF HandleProgress, TypeOK
    <2>2. RowsBacked'
      BY <2>1, RowsKeep DEF IInv
    <2>3. JobsBacked' /\ ThreadsBacked' /\ MessagesBacked'
      BY <1>5, JobsKeep, ThreadsKeep, MessagesKeep
         DEF HandleProgress, Dispatch, IInv
    <2>4. QED
      BY <2>2, <2>3 DEF IInv
  <1>6. ASSUME NEW u \in Urls, HandleFinished(u)
        PROVE  IInv'
    BY <1>6, RowsKeep, JobsKeep, ThreadsKeep, MessagesKeep
       DEF HandleFinished, Dispatch, IInv
  <1>7. QED
    BY <1>1, <1>2, <1>3, <1>4, <1>5, <1>6 DEF Handler

\* A step that touches none of what the invariant speaks of keeps it.
LEMMA OthersBacked ==
  ASSUME TypeOK, TypeOK', IInv, UNCHANGED <<rows, file, thread, pool, looper>>
  PROVE  IInv'
  BY DEF IInv, RowsBacked, JobsBacked, ThreadsBacked, MessagesBacked,
         ThreadBacked, Backed, Complete

\* The invariant is inductive.
LEMMA InvStep ==
  ASSUME TypeOK, TypeOK', IInv, Benign, [Next]_vars
  PROVE  IInv'
  <1> USE DEF managerVars, persistentVars, budgetVars
  <1>0. FilesGrow
    BY StepGrows
  <1>1. ASSUME NEW r \in Requests, StartDownloadBound(r)
        PROVE  IInv'
    <2>1. RowsBacked' /\ JobsBacked'
      BY <1>0, <1>1, ServiceDownloadBacked, RowsKeep, JobsKeep
         DEF StartDownloadBound, IInv
    <2>2. ThreadsBacked' /\ MessagesBacked'
      BY <1>0, <1>1, ThreadsKeep, MessagesKeep DEF StartDownloadBound, IInv
    <2>3. QED
      BY <2>1, <2>2 DEF IInv
  <1>2. ASSUME NEW r \in Requests, StartDownloadUnbound(r)
        PROVE  IInv'
    BY <1>2, OthersBacked DEF StartDownloadUnbound
  <1>3. CASE ServiceConnected
    <2>1. BindSuc \in Messages /\ BindSuc.what # "PROGRESS"
      BY MessageTypes DEF BindSuc
    <2>2. MessagesBacked'
      BY <1>0, <1>3, <2>1, MessagesKeep DEF ServiceConnected, IInv
    <2>3. RowsBacked' /\ JobsBacked' /\ ThreadsBacked'
      BY <1>0, <1>3, RowsKeep, JobsKeep, ThreadsKeep DEF ServiceConnected, IInv
    <2>4. QED
      BY <2>2, <2>3 DEF IInv
  <1>4. CASE Handler
    BY <1>0, <1>4, HandlerBacked
  <1>5. ASSUME NEW u \in Urls, ReceiveFinished(u)
        PROVE  IInv'
    <2>1. FinishedMsg(u) \in Messages /\ FinishedMsg(u).what # "PROGRESS"
      BY MessageTypes DEF FinishedMsg
    <2>2. MessagesBacked'
      BY <1>0, <1>5, <2>1, MessagesKeep DEF ReceiveFinished, IInv
    <2>3. RowsBacked' /\ JobsBacked' /\ ThreadsBacked'
      BY <1>0, <1>5, RowsKeep, JobsKeep, ThreadsKeep DEF ReceiveFinished, IInv
    <2>4. QED
      BY <2>2, <2>3 DEF IInv
  <1>6. ASSUME NEW u \in Urls, PauseDownload(u)
        PROVE  IInv'
    BY <1>6, OthersBacked DEF PauseDownload
  <1>7. ASSUME NEW u \in Urls, DeleteFile(u)
        PROVE  IInv'
    <2>1. deletes \in 0..0 /\ deletes < 0
      BY <1>7 DEF DeleteFile, Benign, TypeOK
    <2>2. QED
      BY <2>1
  <1>8. CASE LowMemory
    BY <1>8, OthersBacked DEF LowMemory
  <1>9. ASSUME NEW w \in Workers, Worker(w)
        PROVE  IInv'
    BY <1>0, <1>9, WorkerBacked
  <1>10. CASE Crash
    <2>1. RowsBacked'
      BY <1>0, <1>10, RowsKeep DEF Crash, IInv
    <2>2. JobsBacked' /\ MessagesBacked'
      BY <1>10, EmptySeq DEF Crash, JobsBacked, MessagesBacked
    <2>3. ThreadsBacked'
      BY <1>10 DEF Crash, ThreadsBacked, ThreadBacked, IdleThread
    <2>4. QED
      BY <2>1, <2>2, <2>3 DEF IInv
  <1>11. CASE UNCHANGED vars
    BY <1>11, OthersBacked DEF vars
  <1>12. QED
    BY <1>1, <1>2, <1>3, <1>4, <1>5, <1>6, <1>7, <1>8, <1>9, <1>10, <1>11
       DEF Next

\* Every remembered position is backed by the file, at all times.
THEOREM InvCorrect == Benign => (Spec => []IInv)
  <1>1. Init => IInv
    BY EmptySeq DEF Init, IInv, RowsBacked, JobsBacked, ThreadsBacked,
                    MessagesBacked, ThreadBacked, IdleThread
  <1>2. Benign /\ TypeOK /\ TypeOK' /\ IInv /\ [Next]_vars => IInv'
    BY InvStep
  <1>3. CASE Benign
    BY <1>1, <1>2, <1>3, TypeCorrect, PTL DEF Spec
  <1>4. QED
    BY <1>3

\* A download resumed from the table, in this process or the next, skips
\* only bytes that the file has.
THEOREM ResumeCorrect == Benign => (Spec => []ResumePointSafe)
  <1>1. IInv => ResumePointSafe
    BY DEF IInv, RowsBacked, Backed, ResumePointSafe
  <1>2. QED
    BY <1>1, InvCorrect, PTL

\* onDownloadFinished is called for whole files only.
THEOREM CallbackCorrect == Benign => (Spec => CallbackOnlyWhenComplete)
  <1>1. TypeOK /\ IInv /\ [Next]_vars
          => [\A r \in Requests : calls'[r] > calls[r] => Complete(UrlOf[r])]_calls
    <2> SUFFICES ASSUME TypeOK, IInv, [Next]_vars, calls' # calls,
                        NEW r \in Requests, calls'[r] > calls[r]
                 PROVE  Complete(UrlOf[r])
      OBVIOUS
    <2>1. PICK q \in Requests : HandleProgress(q)
      BY DEF Next, Handler, Worker, vars, StartDownloadBound,
             StartDownloadUnbound, ServiceConnected, DrainPending, DrainDone,
             HandleBindSuc, HandleInit, HandleFinished, ReceiveFinished,
             PauseDownload, DeleteFile, LowMemory, TakeJob, InitSucceeds,
             InitFails, OpenSucceeds, LoadFails, ReadChunk, CheckPause,
             SavePosition, ReadEnd, Crash
    <2>2. q = r
      BY <2>1 DEF HandleProgress, TypeOK
    <2>3. looper[1] = ProgressMsg(r) /\ 1 \in 1..Len(looper)
      BY <2>1, <2>2, EmptySeq, HeadTailProperties
         DEF HandleProgress, Dispatch, TypeOK
    <2>4. QED
      BY <2>3 DEF IInv, MessagesBacked, ProgressMsg
  <1>2. QED
    BY <1>1, TypeCorrect, InvCorrect, PTL DEF Spec, CallbackOnlyWhenComplete

-----------------------------------------------------------------------------
(* The engine implements its contract.                                     *)

\* A file that gains a right chunk is there in part or in full, and no other
\* file changes: a chunk that arrives is a Receive, or nothing new.
LEMMA ReadChunkReceives ==
  ASSUME TypeOK, TypeOK', IInv, NEW w \in Workers, ReadChunk(w)
  PROVE  [Contract!Next]_Contract!vars
  <1>1. thread[w].pc = "read" /\ thread[w] \in RunningThreads
        /\ thread[w].req \in Requests
    BY RunningType DEF ReadChunk, At, TypeOK
  <1>2. PICK u \in Urls : u = UrlOf[thread[w].req]
    BY <1>1, RequestAssumption
  <1>3. \A v \in Urls : v # u => file'[v] = file[v]
    BY <1>2 DEF ReadChunk, TypeOK
  <1>4. /\ FilesGrow
        /\ thread[w].fin + 1 \in file'[u]
    <2>1. thread[w].fin \in Nat
      BY <1>1, RunningType
    <2>2. thread[w].fin + 1 \in 1..(thread[w].fin + 1)
      BY <2>1
    <2>3. QED
      BY <1>2, <2>2, ReadChunkGrows DEF IInv, ThreadsBacked
  <1>5. \A v \in Urls : v # u => Content(v)' = Content(v)
    BY <1>3 DEF Content, Complete
  <1>6. Content(u)' \in {"part", "whole"}
    BY <1>4 DEF Content
  <1>7. Content(u) = "whole" => Content(u)' = "whole"
    <2>1. file[u] \subseteq file'[u]
      BY <1>2, <1>4 DEF FilesGrow
    <2>2. file'[u] \subseteq Chunks
      BY <1>2 DEF TypeOK, Chunks
    <2>3. Complete(u) => file'[u] = Chunks
      BY <2>1, <2>2 DEF Complete
    <2>4. Complete(u) => Complete(u)'
      BY <2>3 DEF Complete, Chunks
    <2>5. QED
      BY <2>4 DEF Content
  <1>8. [v \in Urls |-> Content(v)']
          = [[v \in Urls |-> Content(v)] EXCEPT ![u] = Content(u)']
    BY <1>2, <1>5
  <1>9. UNCHANGED {r \in Requests : calls[r] > 0}
    BY DEF ReadChunk
  <1>10. CASE Content(u) = "whole"
    <2>1. \A v \in Urls : Content(v)' = Content(v)
      BY <1>5, <1>7, <1>10
    <2>2. [v \in Urls |-> Content(v)'] = [v \in Urls |-> Content(v)]
      BY <2>1
    <2>3. QED
      BY <1>9, <2>2 DEF Contract!vars
  <1>11. CASE Content(u) # "whole"
    <2>1. [v \in Urls |-> Content(v)][u] # "whole"
      BY <1>2, <1>11
    <2>2. Contract!Receive(u)
      BY <1>6, <1>8, <1>9, <2>1 DEF Contract!Receive
    <2>3. QED
      BY <1>2, <2>2 DEF Contract!Next
  <1>12. QED
    BY <1>10, <1>11

\* Every step of the engine is a Receive, a Report or a stutter: a second
\* task, a restarted thread or a recovery never damages a whole file, and no
\* callback runs before its file is whole.
THEOREM ContractImplemented == Benign => (Spec => ImplementsContract)
  <1>1. Init => Contract!Init
    <2>1. Chunks # {}
      BY LengthAssumption DEF Chunks
    <2>2. QED
      BY <2>1 DEF Init, Contract!Init, Content, Complete
  <1>2. Benign /\ TypeOK /\ TypeOK' /\ IInv /\ [Next]_vars
          => [Contract!Next]_Contract!vars
    <2> SUFFICES ASSUME Benign, TypeOK, TypeOK', IInv, [Next]_vars
                 PROVE  [Contract!Next]_Contract!vars
      OBVIOUS
    <2>1. CASE UNCHANGED <<file, calls>>
      BY <2>1 DEF Contract!vars, Content, Complete
    <2>2. ASSUME NEW r \in Requests, HandleProgress(r)
          PROVE  [Contract!Next]_Contract!vars
      <3>1. looper[1] = ProgressMsg(r) /\ 1 \in 1..Len(looper)
        BY <2>2, EmptySeq, HeadTailProperties
           DEF HandleProgress, Dispatch, TypeOK
      <3>2. Content(UrlOf[r]) = "whole" /\ UrlOf[r] \in Urls
        BY <3>1, RequestAssumption
           DEF IInv, MessagesBacked, ProgressMsg, Content
      <3>3. UNCHANGED file
        BY <2>2 DEF HandleProgress
      <3>4. /\ calls'[r] = calls[r] + 1 /\ calls[r] \in Nat
            /\ \A q \in Requests : q # r => calls'[q] = calls[q]
        BY <2>2 DEF HandleProgress, TypeOK
      <3>5. {q \in Requests : calls'[q] > 0}
              = {q \in Requests : calls[q] > 0} \cup {r}
        BY <3>4
      <3>6. Contract!Report(r)
        BY <3>2, <3>3, <3>5 DEF Contract!Report, Content, Complete
      <3>7. QED
        BY <3>6 DEF Contract!Next
    <2>3. ASSUME NEW w \in Workers, ReadChunk(w)
          PROVE  [Contract!Next]_Contract!vars
      BY <2>3, ReadChunkReceives
    <2>4. ASSUME NEW u \in Urls, DeleteFile(u)
          PROVE  FALSE
      <3>1. deletes \in 0..0 /\ deletes < 0
        BY <2>4 DEF DeleteFile, Benign, TypeOK
      <3>2. QED
        BY <3>1
    <2>5. \/ UNCHANGED <<file, calls>>
          \/ \E r \in Requests : HandleProgress(r)
          \/ \E w \in Workers : ReadChunk(w)
          \/ \E u \in Urls : DeleteFile(u)
      BY DEF Next, Handler, Worker, vars, StartDownloadBound,
             StartDownloadUnbound, ServiceConnected, DrainPending, DrainDone,
             HandleBindSuc, HandleInit, HandleFinished, ReceiveFinished,
             PauseDownload, LowMemory, TakeJob, InitSucceeds, InitFails,
             OpenSucceeds, LoadFails, CheckPause, SavePosition, ReadEnd,
             Crash, persistentVars
    <2>6. QED
      BY <2>1, <2>2, <2>3, <2>4, <2>5
  <1>3. CASE Benign
    BY <1>1, <1>2, <1>3, TypeCorrect, InvCorrect, PTL
       DEF Spec, ImplementsContract, Contract!Spec
  <1>4. QED
    BY <1>3

-----------------------------------------------------------------------------
(* The permit of mSemaphList.                                              *)

\* No two requests name the same url.
OneRequestAUrl == \A r, q \in Requests : UrlOf[r] = UrlOf[q] => r = q

\* Between two calls of the main thread the permit is there; the drain holds
\* it; and what waits for the bind has been asked for, so that a new request
\* is not found among it.
PermitKept ==
  /\ main = "idle" => permits = 1
  /\ main = "drain" => permits = 0
  /\ main # "blocked"
  /\ \A i \in 1..Len(pending) : pending[i] \in issued

\* With one request a url the main thread never waits for mSemaphList, in
\* whatever order requests, binds and deaths of the process come.
THEOREM MainThreadCorrect == OneRequestAUrl => (Spec => []MainThreadFree)
  <1>1. Init => PermitKept
    BY EmptySeq DEF Init, PermitKept
  <1>2. OneRequestAUrl /\ TypeOK /\ TypeOK' /\ PermitKept /\ [Next]_vars
          => PermitKept'
    <2> SUFFICES ASSUME OneRequestAUrl, TypeOK, TypeOK', PermitKept,
                        [Next]_vars
                 PROVE  PermitKept'
      OBVIOUS
    <2>1. ASSUME NEW r \in Requests, StartDownloadUnbound(r)
          PROVE  PermitKept'
      <3>1. permits = 1 /\ r \notin issued
        BY <2>1 DEF StartDownloadUnbound, PermitKept
      <3>2. ~IsPending(UrlOf[r])
        <4>1. \A i \in 1..Len(pending) : pending[i] \in Requests \ {r}
          BY <3>1, EmptySeq DEF PermitKept, TypeOK
        <4>2. QED
          BY <4>1 DEF IsPending, OneRequestAUrl
      <3>3. /\ pending' = Append(pending, r) /\ UNCHANGED <<main, permits>>
            /\ issued' = issued \cup {r}
        BY <2>1, <3>1, <3>2 DEF StartDownloadUnbound, EnlistPending
      <3>4. \A i \in 1..Len(pending') : pending'[i] \in issued'
        <4>1. /\ Len(pending') = Len(pending) + 1 /\ Len(pending) \in Nat
              /\ pending'[Len(pending) + 1] = r
              /\ \A i \in 1..Len(pending) : pending'[i] = pending[i]
          BY <3>3, AppendProperties DEF TypeOK
        <4>2. QED
          BY <3>3, <4>1 DEF PermitKept
      <3>5. QED
        BY <3>3, <3>4 DEF PermitKept
    <2>2. CASE HandleBindSuc
      BY <2>2 DEF HandleBindSuc, Dispatch, PermitKept
    <2>3. CASE DrainPending
      <3>1. /\ Len(pending) \in Nat /\ Len(pending) > 0
            /\ pending' = SubSeq(pending, 1, Len(pending) - 1)
        BY <2>3 DEF DrainPending, TypeOK
      <3>2. \A i \in 1..(Len(pending) - 1) : pending[i] \in issued
        BY <3>1 DEF PermitKept
      <3>3. SubSeq(pending, 1, Len(pending) - 1) \in Seq(issued)
        BY <3>1, <3>2, SubSeqProperties
      <3>4. \A i \in 1..Len(pending') : pending'[i] \in issued
        BY <3>1, <3>3, ElementOfSeq
      <3>5. QED
        BY <2>3, <3>4 DEF DrainPending, PermitKept
    <2>4. CASE DrainDone
      BY <2>4 DEF DrainDone, PermitKept
    <2>5. CASE Crash
      BY <2>5, EmptySeq DEF Crash, PermitKept
    <2>6. CASE /\ UNCHANGED <<main, permits, pending>>
               /\ issued \subseteq issued'
      BY <2>6 DEF PermitKept
    <2>7. \/ \E r \in Requests : StartDownloadUnbound(r)
          \/ HandleBindSuc \/ DrainPending \/ DrainDone \/ Crash
          \/ /\ UNCHANGED <<main, permits, pending>>
             /\ issued \subseteq issued'
      BY DEF Next, Handler, Worker, vars, StartDownloadBound,
             ServiceConnected, HandleInit, HandleProgress, HandleFinished,
             ReceiveFinished, PauseDownload, DeleteFile, LowMemory, TakeJob,
             InitSucceeds, InitFails, OpenSucceeds, LoadFails, ReadChunk,
             CheckPause, SavePosition, ReadEnd, managerVars
    <2>8. QED
      BY <2>1, <2>2, <2>3, <2>4, <2>5, <2>6, <2>7
  <1>3. PermitKept => MainThreadFree
    BY DEF PermitKept, MainThreadFree
  <1>4. CASE OneRequestAUrl
    BY <1>1, <1>2, <1>3, <1>4, TypeCorrect, PTL DEF Spec
  <1>5. QED
    BY <1>4
=============================================================================
