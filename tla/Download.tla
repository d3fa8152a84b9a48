------------------------------ MODULE Download ------------------------------
(***************************************************************************)
(* The download engine of the advert terminal: DownloadManager, the        *)
(* DownloadService behind it, its DownloadTasks and the table thread_info. *)
(*                                                                         *)
(* Three kinds of actors share the state.  The main thread runs every call *)
(* of DownloadManager, every Handler message (one FIFO looper) and every   *)
(* callback of the system.  The workers of a fixed thread pool run the     *)
(* InitThreads and DownloadThreads.  The system delivers bindings and      *)
(* broadcasts, pauses everything on low memory and kills the process.      *)
(*                                                                         *)
(* A file is FileLen chunks (one successful read() each); file[u] is the   *)
(* set of those that hold the right bytes.  Each task downloads with one   *)
(* thread, the thread count DownloadService passes.  Progress below 100%   *)
(* only reaches a log statement, so those messages are left out.           *)
(***************************************************************************)
EXTENDS Integers, Sequences, FiniteSets

CONSTANTS
  Urls,         (* urls; a url names one file of the media directory       *)
  Requests,     (* calls of startDownload, each with its callback object   *)
  UrlOf,        (* the url of a request                                    *)
  Workers,      (* the threads of the pool, one per CPU core               *)
  FileLen,      (* length of every file, in chunks                         *)
  HonoursRange, (* the server answers a Range request with 206             *)
  MayFail,      (* connections and reads may fail                          *)
  MaxPauses,    (* bound: low-memory callbacks and pauseDownload calls     *)
  MaxCrashes,   (* bound: deaths of the process                            *)
  MaxDeletes    (* bound: files deleted by the media receiver              *)

ASSUME RequestAssumption == UrlOf \in [Requests -> Urls]
ASSUME LengthAssumption == FileLen \in Nat \ {0}
ASSUME SwitchAssumption == HonoursRange \in BOOLEAN /\ MayFail \in BOOLEAN
ASSUME BoundAssumption ==
  MaxPauses \in Nat /\ MaxCrashes \in Nat /\ MaxDeletes \in Nat

VARIABLES
  \* DownloadManager
  bound,      (* mService # null                                           *)
  conns,      (* ServiceConnections whose onServiceConnected is to come    *)
  pending,    (* mListTask of the manager: requests waiting for the bind   *)
  permits,    (* permits of mSemaphList                                    *)
  \* the main thread
  main,       (* idle in its looper, draining pending, or blocked          *)
  looper,     (* its message queue                                         *)
  bcasts,     (* bcasts[u]: ACTION_FINISHED broadcasts not yet received    *)
  \* DownloadService and its tasks
  tasks,      (* mListTask of the service; a task is named by its request  *)
  paused,     (* the tasks whose isPause is set                            *)
  pool,       (* work queue of the thread pool                             *)
  thread,     (* what each worker is running                               *)
  \* persistent
  rows,       (* rows[u]: column "finished" of the url's thread_info row   *)
  file,       (* file[u]: the chunks on the flash that are right           *)
  \* history and budgets
  issued,     (* requests made so far                                      *)
  calls,      (* calls[r]: how often onDownloadFinished ran for r          *)
  pauses, crashes, deletes

managerVars == <<bound, conns, pending, permits>>
persistentVars == <<rows, file>>
budgetVars == <<pauses, crashes, deletes>>
vars == <<bound, conns, pending, permits, main, looper, bcasts, tasks, paused,
          pool, thread, rows, file, issued, calls, pauses, crashes, deletes>>

-----------------------------------------------------------------------------
NoRow == -1
Chunks == 1..FileLen
Complete(u) == file[u] = Chunks

\* Jobs of the pool: an InitThread, or a DownloadThread and its start offset.
InitJob(r) == [kind |-> "init", req |-> r, from |-> 0]
LoadJob(r, k) == [kind |-> "load", req |-> r, from |-> k]
Jobs == [kind : {"init", "load"}, req : Requests, from : Nat]

\* Messages of the looper; a PROGRESS message is one that carries >= 100%.
BindSuc == [what |-> "BIND_SUC"]
InitMsg(r) == [what |-> "INIT", req |-> r]
ProgressMsg(r) == [what |-> "PROGRESS", req |-> r]
FinishedMsg(u) == [what |-> "FINISHED", url |-> u]
Messages == {BindSuc} \cup [what : {"INIT", "PROGRESS"}, req : Requests]
                      \cup [what : {"FINISHED"}, url : Urls]

\* A worker: fin is threadInfo.finished, off the position in the response
\* body, orphan says that the open file has been deleted under the thread.
IdleThread == [pc |-> "idle"]
RunningThreads == [pc : {"init", "open", "read", "check", "save"},
                   req : Requests, fin : Nat, off : Nat, orphan : BOOLEAN]

\* DownloadThread opens its file as it starts, before it asks the server.
FileOpen == {"open", "read", "check", "save"}

TypeOK ==
  /\ bound \in BOOLEAN
  /\ conns \in Nat
  /\ pending \in Seq(Requests)
  /\ permits \in {0, 1}
  /\ main \in {"idle", "drain", "blocked"}
  /\ looper \in Seq(Messages)
  /\ bcasts \in [Urls -> Nat]
  /\ tasks \in Seq(Requests)
  /\ paused \subseteq Requests
  /\ pool \in Seq(Jobs)
  /\ thread \in [Workers -> {IdleThread} \cup RunningThreads]
  /\ rows \in [Urls -> Nat \cup {NoRow}]
  /\ file \in [Urls -> SUBSET Chunks]
  /\ issued \subseteq Requests
  /\ calls \in [Requests -> Nat]
  /\ pauses \in 0..MaxPauses
  /\ crashes \in 0..MaxCrashes
  /\ deletes \in 0..MaxDeletes

Init ==
  /\ bound = FALSE
  /\ conns = 0
  /\ pending = <<>>
  /\ permits = 1
  /\ main = "idle"
  /\ looper = <<>>
  /\ bcasts = [u \in Urls |-> 0]
  /\ tasks = <<>>
  /\ paused = {}
  /\ pool = <<>>
  /\ thread = [w \in Workers |-> IdleThread]
  /\ rows = [u \in Urls |-> NoRow]
  /\ file = [u \in Urls |-> {}]
  /\ issued = {}
  /\ calls = [r \in Requests |-> 0]
  /\ pauses = 0 /\ crashes = 0 /\ deletes = 0

-----------------------------------------------------------------------------
(* DownloadTask and DownloadService operations, run by the main thread.    *)

\* The first task of the list that has this url, as the for loops find it.
IsFirst(i, u) ==
  /\ i \in 1..Len(tasks)
  /\ UrlOf[tasks[i]] = u
  /\ \A j \in 1..(i - 1) : UrlOf[tasks[j]] # u

Listed(u) == \E i \in 1..Len(tasks) : UrlOf[tasks[i]] = u

\* downlaod(): resume from the saved row, or insert one that starts at 0.
LaunchThread(r) ==
  LET u == UrlOf[r]
      from == IF rows[u] = NoRow THEN 0 ELSE rows[u]
  IN /\ rows' = [rows EXCEPT ![u] = from]
     /\ pool' = Append(pool, LoadJob(r, from))

\* restart()
Restart(r) ==
  /\ paused' = paused \ {r}
  /\ LaunchThread(r)

\* DownloadService.download: a listed url is restarted if it is paused and
\* otherwise left alone, callback and all; any other gets an InitThread.
ServiceDownload(r) ==
  \/ /\ ~Listed(UrlOf[r])
     /\ pool' = Append(pool, InitJob(r))
     /\ UNCHANGED <<paused, rows>>
  \/ \E i \in 1..Len(tasks) :
       /\ IsFirst(i, UrlOf[r])
       /\ IF tasks[i] \in paused
          THEN Restart(tasks[i])
          ELSE UNCHANGED <<paused, rows, pool>>

-----------------------------------------------------------------------------
(* DownloadManager, on the main thread.                                    *)

\* mListTask.contains(info): TaskInfo.equals compares urls only.
IsPending(u) == \E i \in 1..Len(pending) : UrlOf[pending[i]] = u

\* startDownload while the service is bound.
StartDownloadBound(r) ==
  /\ main = "idle"
  /\ r \notin issued
  /\ bound
  /\ issued' = issued \cup {r}
  /\ ServiceDownload(r)
  /\ UNCHANGED <<managerVars, main, looper, bcasts, tasks, thread, file, calls,
                 budgetVars>>

\* Mutant of EnlistPending: the listed request does not release either.
EnlistPendingNoRelease(r) ==
  IF permits = 0
  THEN main' = "blocked" /\ UNCHANGED <<pending, permits>>
  ELSE /\ permits' = 0
       /\ pending' = IF IsPending(UrlOf[r]) THEN pending ELSE Append(pending, r)
       /\ UNCHANGED main

\* The critical section of startDownload; the early return for a url that
\* is already pending leaves it without releasing the semaphore.
EnlistPending(r) ==
  IF permits = 0
  THEN main' = "blocked" /\ UNCHANGED <<pending, permits>>
  ELSE /\ IF IsPending(UrlOf[r])
          THEN permits' = 0 /\ UNCHANGED pending
          ELSE pending' = Append(pending, r) /\ UNCHANGED permits
       /\ UNCHANGED main

\* startDownload before the bind: bindService(), then the critical section.
StartDownloadUnbound(r) ==
  /\ main = "idle"
  /\ r \notin issued
  /\ ~bound
  /\ issued' = issued \cup {r}
  /\ conns' = conns + 1
  /\ EnlistPending(r)
  /\ UNCHANGED <<bound, looper, bcasts, tasks, paused, pool, thread, rows, file,
                 calls, budgetVars>>

\* pauseDownload: the first listed task of the url is told to stop.
PauseDownload(u) ==
  /\ main = "idle"
  /\ bound
  /\ pauses < MaxPauses
  /\ pauses' = pauses + 1
  /\ \E i \in 1..Len(tasks) :
       IsFirst(i, u) /\ paused' = paused \cup {tasks[i]}
  /\ UNCHANGED <<managerVars, main, looper, bcasts, tasks, pool, thread,
                 persistentVars, issued, calls, crashes, deletes>>

\* Mutant of ServiceConnected: MSG_BIND_SUC is not sent.
ServiceConnectedSilent ==
  /\ main = "idle"
  /\ conns > 0
  /\ conns' = conns - 1
  /\ bound' = TRUE
  /\ UNCHANGED <<pending, permits, main, looper, bcasts, tasks, paused, pool,
                 thread, persistentVars, issued, calls, budgetVars>>

\* onServiceConnected, once per bindService.
ServiceConnected ==
  /\ main = "idle"
  /\ conns > 0
  /\ conns' = conns - 1
  /\ bound' = TRUE
  /\ looper' = Append(looper, BindSuc)
  /\ UNCHANGED <<pending, permits, main, bcasts, tasks, paused, pool, thread,
                 persistentVars, issued, calls, budgetVars>>

-----------------------------------------------------------------------------
(* The looper: the main thread takes one message and runs its handler.     *)

Dispatch(m) ==
  /\ main = "idle"
  /\ looper # <<>>
  /\ m = Head(looper)
  /\ looper' = Tail(looper)

\* Mutant of HandleBindSuc: no acquire before the release.
HandleBindSucNoAcquire ==
  /\ Dispatch(BindSuc)
  /\ main' = "drain"
  /\ UNCHANGED <<managerVars, bcasts, tasks, paused, pool, thread,
                 persistentVars, issued, calls, budgetVars>>

\* MSG_BIND_SUC: take the semaphore ...
HandleBindSuc ==
  /\ Dispatch(BindSuc)
  /\ IF permits = 0
     THEN main' = "blocked" /\ UNCHANGED permits
     ELSE main' = "drain" /\ permits' = 0
  /\ UNCHANGED <<bound, conns, pending, bcasts, tasks, paused, pool, thread,
                 persistentVars, issued, calls, budgetVars>>

\* ... hand the newest pending request to the service, one at a time ...
DrainPending ==
  /\ main = "drain"
  /\ pending # <<>>
  /\ ServiceDownload(pending[Len(pending)])
  /\ pending' = SubSeq(pending, 1, Len(pending) - 1)
  /\ UNCHANGED <<bound, conns, permits, main, looper, bcasts, tasks, thread,
                 file, issued, calls, budgetVars>>

\* ... and release it.
DrainDone ==
  /\ main = "drain"
  /\ pending = <<>>
  /\ permits' = permits + 1
  /\ main' = "idle"
  /\ UNCHANGED <<bound, conns, pending, looper, bcasts, tasks, paused, pool,
                 thread, persistentVars, issued, calls, budgetVars>>

\* MSG_INIT: build the task, list it and start its thread.
HandleInit(r) ==
  /\ Dispatch(InitMsg(r))
  /\ tasks' = Append(tasks, r)
  /\ LaunchThread(r)
  /\ UNCHANGED <<managerVars, main, bcasts, paused, thread, file, issued,
                 calls, budgetVars>>

\* Mutant of HandleProgress: no broadcast after the callback.
HandleProgressNoBroadcast(r) ==
  /\ Dispatch(ProgressMsg(r))
  /\ calls' = [calls EXCEPT ![r] = @ + 1]
  /\ rows' = [rows EXCEPT ![UrlOf[r]] = NoRow]
  /\ UNCHANGED <<managerVars, main, bcasts, tasks, paused, pool, thread, file,
                 issued, budgetVars>>

\* MSG_DOWNLOADING at 100%: the callback, the broadcast, and the row goes.
HandleProgress(r) ==
  /\ Dispatch(ProgressMsg(r))
  /\ calls' = [calls EXCEPT ![r] = @ + 1]
  /\ bcasts' = [bcasts EXCEPT ![UrlOf[r]] = @ + 1]
  /\ rows' = [rows EXCEPT ![UrlOf[r]] = NoRow]
  /\ UNCHANGED <<managerVars, main, tasks, paused, pool, thread, file, issued,
                 budgetVars>>

\* DownloadFinishedReceiver.onReceive
ReceiveFinished(u) ==
  /\ main = "idle"
  /\ bcasts[u] > 0
  /\ bcasts' = [bcasts EXCEPT ![u] = @ - 1]
  /\ looper' = Append(looper, FinishedMsg(u))
  /\ UNCHANGED <<managerVars, main, tasks, paused, pool, thread,
                 persistentVars, issued, calls, budgetVars>>

\* MSG_DOWNLOAD_FINISHED: the first task of the url leaves the list.
HandleFinished(u) ==
  /\ Dispatch(FinishedMsg(u))
  /\ \/ ~Listed(u) /\ UNCHANGED tasks
     \/ \E i \in 1..Len(tasks) :
          /\ IsFirst(i, u)
          /\ tasks' = SubSeq(tasks, 1, i - 1) \o SubSeq(tasks, i + 1, Len(tasks))
  /\ UNCHANGED <<managerVars, main, bcasts, paused, pool, thread,
                 persistentVars, issued, calls, budgetVars>>

\* onLowMemory: every listed task is told to stop.
LowMemory ==
  /\ main = "idle"
  /\ pauses < MaxPauses
  /\ pauses' = pauses + 1
  /\ paused' = paused \cup {tasks[i] : i \in 1..Len(tasks)}
  /\ UNCHANGED <<managerVars, main, looper, bcasts, tasks, pool, thread,
                 persistentVars, issued, calls, crashes, deletes>>

-----------------------------------------------------------------------------
(* The pool: InitThread.run and DownloadThread.run.                        *)

Become(w, t) == thread' = [thread EXCEPT ![w] = t]
At(w, pc) == thread[w].pc = pc
Goto(w, pc) == thread' = [thread EXCEPT ![w].pc = pc]

\* Mutant of Notify: the quotient is rounded up to 100% one chunk early.
NotifyRounded(r, fin) ==
  IF fin + 1 >= FileLen
  THEN looper' = Append(looper, ProgressMsg(r))
  ELSE UNCHANGED looper

\* notifyProgress: only the message that says 100% is kept.
Notify(r, fin) ==
  IF fin >= FileLen
  THEN looper' = Append(looper, ProgressMsg(r))
  ELSE UNCHANGED looper

\* A worker that is free takes the oldest job.
TakeJob(w) ==
  /\ At(w, "idle")
  /\ pool # <<>>
  /\ LET job == Head(pool)
     IN Become(w, [pc |-> IF job.kind = "init" THEN "init" ELSE "open",
                   req |-> job.req, fin |-> job.from, off |-> 0,
                   orphan |-> FALSE])
  /\ pool' = Tail(pool)
  /\ UNCHANGED <<managerVars, main, looper, bcasts, tasks, paused,
                 persistentVars, issued, calls, budgetVars>>

\* Mutant of InitSucceeds: the file is truncated before its length is set.
InitSucceedsTruncating(w) ==
  /\ At(w, "init")
  /\ looper' = Append(looper, InitMsg(thread[w].req))
  /\ file' = [file EXCEPT ![UrlOf[thread[w].req]] = {}]
  /\ Become(w, IdleThread)
  /\ UNCHANGED <<managerVars, main, bcasts, tasks, paused, pool, rows, issued,
                 calls, budgetVars>>

\* InitThread: the length is known and the file has it; bytes already in
\* the file stay.  Then the main thread is told.
InitSucceeds(w) ==
  /\ At(w, "init")
  /\ looper' = Append(looper, InitMsg(thread[w].req))
  /\ Become(w, IdleThread)
  /\ UNCHANGED <<managerVars, main, bcasts, tasks, paused, pool,
                 persistentVars, issued, calls, budgetVars>>

\* InitThread: bad status, no length or an IOException; nobody is told.
InitFails(w) ==
  /\ MayFail
  /\ At(w, "init")
  /\ Become(w, IdleThread)
  /\ UNCHANGED <<managerVars, main, looper, bcasts, tasks, paused, pool,
                 persistentVars, issued, calls, budgetVars>>

\* The Range request would start past the last byte: the server says 416.
PastEnd(t) == HonoursRange /\ t.fin >= FileLen

\* 206, or 200 with the whole body from its first byte: both are accepted.
OpenSucceeds(w) ==
  /\ At(w, "open")
  /\ ~PastEnd(thread[w])
  /\ Become(w, [thread[w] EXCEPT !.pc = "read",
                                 !.off = IF HonoursRange THEN @ + thread[w].fin
                                                         ELSE @])
  /\ UNCHANGED <<managerVars, main, looper, bcasts, tasks, paused, pool,
                 persistentVars, issued, calls, budgetVars>>

\* Any other status, or an IOException now or in a read: the thread ends
\* without a word, and the task stays listed and not paused.
LoadFails(w) ==
  /\ \/ At(w, "open") /\ (MayFail \/ PastEnd(thread[w]))
     \/ At(w, "read") /\ MayFail
  /\ Become(w, IdleThread)
  /\ UNCHANGED <<managerVars, main, looper, bcasts, tasks, paused, pool,
                 persistentVars, issued, calls, budgetVars>>

\* A chunk written at the thread's position is right if the response body
\* is at that position too.
Written(u, pos, off) ==
  IF pos > FileLen THEN file[u]
  ELSE IF pos = off THEN file[u] \cup {pos} ELSE file[u] \ {pos}

\* One turn of the read loop: write, count, and now and then (2 s) notify.
ReadChunk(w) ==
  LET t == thread[w]
      u == UrlOf[t.req]
  IN /\ At(w, "read")
     /\ t.off < FileLen
     /\ file' = IF t.orphan THEN file
                ELSE [file EXCEPT ![u] = Written(u, t.fin + 1, t.off + 1)]
     /\ Become(w, [t EXCEPT !.pc = "check", !.fin = @ + 1, !.off = @ + 1])
     /\ Notify(t.req, t.fin + 1) \/ UNCHANGED looper
     /\ UNCHANGED <<managerVars, main, bcasts, tasks, paused, pool, rows,
                    issued, calls, budgetVars>>

\* Mutant of CheckPause: the pause branch does not leave the loop.
CheckPauseNoReturn(w) ==
  LET t == thread[w]
  IN /\ At(w, "check")
     /\ Goto(w, "read")
     /\ IF t.req \in paused THEN Notify(t.req, t.fin) ELSE UNCHANGED looper
     /\ UNCHANGED <<managerVars, main, bcasts, tasks, paused, pool,
                    persistentVars, issued, calls, budgetVars>>

\* The loop looks at isPause: go on, or notify and save the position.
CheckPause(w) ==
  LET t == thread[w]
  IN /\ At(w, "check")
     /\ IF t.req \in paused
        THEN Goto(w, "save") /\ Notify(t.req, t.fin)
        ELSE Goto(w, "read") /\ UNCHANGED looper
     /\ UNCHANGED <<managerVars, main, bcasts, tasks, paused, pool,
                    persistentVars, issued, calls, budgetVars>>

\* Mutant of SavePosition: the position of the chunk to come is saved.
SavePositionNext(w) ==
  LET t == thread[w]
      u == UrlOf[t.req]
  IN /\ At(w, "save")
     /\ rows' = IF rows[u] = NoRow THEN rows ELSE [rows EXCEPT ![u] = t.fin + 1]
     /\ Become(w, IdleThread)
     /\ UNCHANGED <<managerVars, main, looper, bcasts, tasks, paused, pool,
                    file, issued, calls, budgetVars>>

\* updateThread: an UPDATE of the row, if it is still there.
SavePosition(w) ==
  LET t == thread[w]
      u == UrlOf[t.req]
  IN /\ At(w, "save")
     /\ rows' = IF rows[u] = NoRow THEN rows ELSE [rows EXCEPT ![u] = t.fin]
     /\ Become(w, IdleThread)
     /\ UNCHANGED <<managerVars, main, looper, bcasts, tasks, paused, pool,
                    file, issued, calls, budgetVars>>

\* Mutant of ReadEnd: the end of the body is not notified.
ReadEndSilent(w) ==
  /\ At(w, "read")
  /\ thread[w].off >= FileLen
  /\ Become(w, IdleThread)
  /\ UNCHANGED <<managerVars, main, looper, bcasts, tasks, paused, pool,
                 persistentVars, issued, calls, budgetVars>>

\* End of the body: the last notification.
ReadEnd(w) ==
  LET t == thread[w]
  IN /\ At(w, "read")
     /\ t.off >= FileLen
     /\ Notify(t.req, t.fin)
     /\ Become(w, IdleThread)
     /\ UNCHANGED <<managerVars, main, bcasts, tasks, paused, pool,
                    persistentVars, issued, calls, budgetVars>>

-----------------------------------------------------------------------------
(* The environment.                                                        *)

\* The process dies and is started again; flash and database survive.
Crash ==
  /\ crashes < MaxCrashes
  /\ crashes' = crashes + 1
  /\ bound' = FALSE
  /\ conns' = 0
  /\ pending' = <<>>
  /\ permits' = 1
  /\ main' = "idle"
  /\ looper' = <<>>
  /\ bcasts' = [u \in Urls |-> 0]
  /\ tasks' = <<>>
  /\ paused' = {}
  /\ pool' = <<>>
  /\ thread' = [w \in Workers |-> IdleThread]
  /\ UNCHANGED <<persistentVars, issued, calls, pauses, deletes>>

\* The media receiver deletes the file of a url it no longer shows; a
\* thread that has it open goes on writing to the unlinked file.
DeleteFile(u) ==
  /\ main = "idle"
  /\ deletes < MaxDeletes
  /\ deletes' = deletes + 1
  /\ file' = [file EXCEPT ![u] = {}]
  /\ thread' = [w \in Workers |->
       IF thread[w].pc \in FileOpen /\ UrlOf[thread[w].req] = u
       THEN [thread[w] EXCEPT !.orphan = TRUE] ELSE thread[w]]
  /\ UNCHANGED <<managerVars, main, looper, bcasts, tasks, paused, pool, rows,
                 issued, calls, pauses, crashes>>

-----------------------------------------------------------------------------
Handler ==
  \/ HandleBindSuc \/ DrainPending \/ DrainDone
  \/ \E r \in Requests : HandleInit(r) \/ HandleProgress(r)
  \/ \E u \in Urls : HandleFinished(u)

Worker(w) ==
  \/ TakeJob(w) \/ InitSucceeds(w) \/ InitFails(w)
  \/ OpenSucceeds(w) \/ LoadFails(w)
  \/ ReadChunk(w) \/ CheckPause(w) \/ SavePosition(w) \/ ReadEnd(w)

Next ==
  \/ \E r \in Requests : StartDownloadBound(r) \/ StartDownloadUnbound(r)
  \/ ServiceConnected
  \/ Handler
  \/ \E u \in Urls : ReceiveFinished(u) \/ PauseDownload(u) \/ DeleteFile(u)
  \/ LowMemory
  \/ \E w \in Workers : Worker(w)
  \/ Crash

Spec == Init /\ [][Next]_vars

\* The looper runs while it has messages, the pool while it has jobs, and
\* the system delivers what it was given.  Nobody has to call, to delete,
\* to run short of memory or to die.
Fairness ==
  /\ WF_vars(Handler)
  /\ WF_vars(ServiceConnected)
  /\ \A u \in Urls : WF_vars(ReceiveFinished(u))
  /\ \A w \in Workers : WF_vars(Worker(w))

FairSpec == Spec /\ Fairness

-----------------------------------------------------------------------------
(* Properties.                                                             *)

Has(queue, x) == \E i \in 1..Len(queue) : queue[i] = x

\* OnDownload.onDownloadFinished hands over "the file after the download":
\* the handler of the 100% message (DownloadTask 105-110) only calls it
\* while every chunk of the file is right, whatever was paused, resumed,
\* downloaded twice at once or cut short by a crash before.
CallbackOnlyWhenComplete ==
  [][\A r \in Requests : calls'[r] > calls[r] => Complete(UrlOf[r])]_calls

\* A saved position is never ahead of the bytes in the file, so that
\* downlaod() may resume from it (DownloadTask 125, 232) even in a process
\* started after the one that saved it died.
ResumePointSafe ==
  \A u \in Urls : rows[u] # NoRow => 1..rows[u] \subseteq file[u]

\* A DownloadThread says 100% at most twice: from the 2 s timer on the last
\* chunk and then at the end of the body or in the pause branch.  A task has
\* one thread and one more for each time it was paused, as restart() clears
\* isPause; so callbacks are repeated, but not without bound.  A server that
\* ignores Range lets a resumed thread count on past the length and say 100%
\* on every chunk: the bound is for one that honours it.
ReportsBounded ==
  \A r \in Requests : calls[r] <= 2 * (1 + pauses)

\* The main thread never waits for mSemaphList: every call that takes the
\* permit gives it back before the next one runs.
MainThreadFree == main # "blocked"

\* The bind that pending requests wait for is to come, or drains them.
BindAwaited == conns > 0 \/ Has(looper, BindSuc) \/ main = "drain"

\* What is still to happen for a request: it waits for a bind, has a job or a
\* thread, is the subject of a message, or is listed and paused.
UnderWay(r) ==
  \/ Has(pending, r) /\ BindAwaited
  \/ \E i \in 1..Len(pool) : pool[i].req = r
  \/ \E w \in Workers :
       thread[w].pc \in {"init", "open", "read", "check"} /\ thread[w].req = r
  \/ Has(looper, InitMsg(r)) \/ Has(looper, ProgressMsg(r))
  \/ Has(tasks, r) /\ r \in paused

\* No url that was asked for is lost on its way through the manager, the
\* service, the pool and the looper: until it is reported something is under
\* way for it, though a repeated request is dropped (DownloadService.download)
\* and a resumed thread may find nothing left to ask for (DownloadTask 247).
\* It takes a process that lives, and connections that do not fail.
NothingLost ==
  crashes = 0 /\ main # "blocked" =>
    \A r \in issued : \E s \in Requests :
      UrlOf[s] = UrlOf[r] /\ (calls[s] > 0 \/ UnderWay(s))

\* DownloadManager line 88, "run the tasks of the list and delete them":
\* a request that waits for the bind is handed to the service.
PendingDrained == \A r \in Requests : Has(pending, r) ~> ~Has(pending, r)

\* Every request is answered: without faults and with one request a url,
\* the callback comes whatever the bind, the pool and the looper do first,
\* unless the request is paused.
RequestReported ==
  \A r \in Requests : r \in issued ~> (calls[r] > 0 \/ r \in paused)

\* A reported task leaves the service's list for good (100% message, then
\* the broadcast, then MSG_DOWNLOAD_FINISHED), so its url can be asked for
\* again.
FinishedUnlisted == \A r \in Requests : calls[r] > 0 ~> []~Has(tasks, r)

\* The engine implements the contract: a file is as whole as its chunks.
Content(u) ==
  IF Complete(u) THEN "whole" ELSE IF file[u] = {} THEN "none" ELSE "part"

Contract == INSTANCE DownloadContract
  WITH content <- [u \in Urls |-> Content(u)],
       reported <- {r \in Requests : calls[r] > 0}

\* Every step of the engine is a step the contract allows: in particular a
\* second task, a restarted thread or a recovery never damages a whole file.
ImplementsContract == Contract!Spec
=============================================================================
