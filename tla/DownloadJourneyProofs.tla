----------------------- MODULE DownloadJourneyProofs -----------------------
(***************************************************************************)
(* The way of a request through the download engine, for every number of   *)
(* urls, requests, workers and chunks: nothing that was asked for is lost  *)
(* between the manager, the service, the pool and the looper, no request   *)
(* becomes two tasks, and a reported task leaves the list.                 *)
(***************************************************************************)
EXTENDS DownloadReportProofs

-----------------------------------------------------------------------------
(* What a queue has.                                                       *)

LEMMA HasAppend ==
  ASSUME NEW A, NEW s \in Seq(A), NEW x \in A, NEW y
  PROVE  Has(Append(s, x), y) <=> Has(s, y) \/ y = x
<1>1. /\ Len(s) \in Nat /\ Len(Append(s, x)) = Len(s) + 1
      /\ Append(s, x)[Len(s) + 1] = x
      /\ \A i \in 1..Len(s) : Append(s, x)[i] = s[i]
  BY AppendProperties, LenProperties
<1>2. ASSUME Has(Append(s, x), y) PROVE Has(s, y) \/ y = x
  <2>1. PICK i \in 1..Len(Append(s, x)) : Append(s, x)[i] = y
    BY <1>2 DEF Has
  <2>2. i \in 1..Len(s) \/ i = Len(s) + 1 BY <1>1
  <2> QED BY <1>1, <2>1, <2>2 DEF Has
<1>3. ASSUME Has(s, y) PROVE Has(Append(s, x), y)
  <2>1. PICK i \in 1..Len(s) : s[i] = y BY <1>3 DEF Has
  <2>2. i \in 1..Len(Append(s, x)) BY <1>1
  <2> QED BY <1>1, <2>1, <2>2 DEF Has
<1>4. Has(Append(s, x), x)
  <2>1. Len(s) + 1 \in 1..Len(Append(s, x)) BY <1>1
  <2> QED BY <1>1, <2>1 DEF Has
<1> QED BY <1>2, <1>3, <1>4

LEMMA HasTail ==
  ASSUME NEW A, NEW s \in Seq(A), s # <<>>, NEW y
  PROVE  Has(s, y) <=> Has(Tail(s), y) \/ y = Head(s)
<1>1. /\ Len(s) \in Nat /\ Len(s) > 0 /\ Len(Tail(s)) = Len(s) - 1
      /\ Head(s) = s[1] /\ \A i \in 1..Len(Tail(s)) : Tail(s)[i] = s[i + 1]
  BY HeadTailProperties, LenProperties
<1>2. ASSUME Has(s, y) PROVE Has(Tail(s), y) \/ y = Head(s)
  <2>1. PICK i \in 1..Len(s) : s[i] = y BY <1>2 DEF Has
  <2>2. i = 1 \/ i - 1 \in 1..Len(Tail(s)) BY <1>1
  <2>3. i - 1 \in 1..Len(Tail(s)) => Tail(s)[i - 1] = y BY <1>1, <2>1
  <2> QED BY <1>1, <2>1, <2>2, <2>3 DEF Has
<1>3. ASSUME Has(Tail(s), y) PROVE Has(s, y)
  <2>1. PICK i \in 1..Len(Tail(s)) : Tail(s)[i] = y BY <1>3 DEF Has
  <2>2. i + 1 \in 1..Len(s) /\ s[i + 1] = y BY <1>1, <2>1
  <2> QED BY <2>2 DEF Has
<1>4. Has(s, Head(s))
  <2>1. 1 \in 1..Len(s) BY <1>1
  <2> QED BY <1>1, <2>1 DEF Has
<1> QED BY <1>2, <1>3, <1>4

LEMMA HasFront ==
  ASSUME NEW A, NEW s \in Seq(A), s # <<>>, NEW y
  PROVE  Has(s, y) <=> Has(SubSeq(s, 1, Len(s) - 1), y) \/ y = s[Len(s)]
<1> DEFINE f == SubSeq(s, 1, Len(s) - 1)
<1>1. /\ Len(s) \in Nat /\ Len(s) > 0
  BY LenProperties, EmptySeq
<1>2. /\ Len(f) = Len(s) - 1 /\ \A i \in 1..Len(f) : f[i] = s[i]
  <2>1. 1 \in Int /\ Len(s) - 1 \in Int /\ \A i \in 1..(Len(s) - 1) : s[i] \in A
    BY <1>1, ElementOfSeq
  <2>2. \A i \in 1..(Len(s) - 1 - 1 + 1) : f[i] = s[1 + i - 1]
    BY <2>1, SubSeqProperties
  <2>0. Len(f) = IF 1 <= Len(s) - 1 THEN Len(s) - 1 - 1 + 1 ELSE 0
    BY <2>1, SubSeqProperties
  <2> HIDE DEF f
  <2>3. Len(f) = Len(s) - 1
    <3>1. \A n \in Nat : n > 0 => (IF 1 <= n - 1 THEN n - 1 - 1 + 1 ELSE 0) = n - 1
      OBVIOUS
    <3> QED BY <1>1, <2>0, <3>1
  <2>4. ASSUME NEW i \in 1..Len(f) PROVE f[i] = s[i]
    <3>1. i \in 1..(Len(s) - 1 - 1 + 1) /\ 1 + i - 1 = i BY <1>1, <2>3
    <3> QED BY <2>2, <3>1
  <2> QED BY <2>3, <2>4
<1> HIDE DEF f
<1>3. Has(s, y) => Has(f, y) \/ y = s[Len(s)]
  <2> SUFFICES ASSUME NEW i \in 1..Len(s), s[i] = y PROVE Has(f, y) \/ y = s[Len(s)]
    BY DEF Has
  <2>1. i = Len(s) \/ i \in 1..Len(f) BY <1>1, <1>2
  <2> QED BY <1>2, <2>1 DEF Has
<1>4. Has(f, y) => Has(s, y)
  <2> SUFFICES ASSUME NEW i \in 1..Len(f), f[i] = y PROVE Has(s, y)
    BY DEF Has
  <2>1. i \in 1..Len(s) /\ s[i] = y BY <1>1, <1>2
  <2> QED BY <2>1 DEF Has
<1>5. Has(s, s[Len(s)])
  <2>1. Len(s) \in 1..Len(s) BY <1>1
  <2> QED BY <2>1 DEF Has
<1>6. Has(s, y) <=> Has(f, y) \/ y = s[Len(s)] BY <1>3, <1>4, <1>5
<1> QED BY <1>6 DEF f

\* A list without the one at place i, and where the others are in it.
Without(s, i) == SubSeq(s, 1, i - 1) \o SubSeq(s, i + 1, Len(s))

LEMMA WithoutPlaces ==
  ASSUME NEW A, NEW s \in Seq(A), NEW i \in 1..Len(s)
  PROVE  LET t == Without(s, i)
         IN /\ Len(s) \in Nat /\ Len(t) = Len(s) - 1 /\ Len(t) \in Nat
            /\ \A k \in 1..Len(t) : k < i => k \in 1..Len(s) /\ t[k] = s[k]
            /\ \A k \in 1..Len(t) : ~(k < i) => k + 1 \in 1..Len(s) /\ t[k] = s[k + 1]
<1> DEFINE a == SubSeq(s, 1, i - 1)
           b == SubSeq(s, i + 1, Len(s))
           t == Without(s, i)
<1>1. Len(s) \in Nat BY LenProperties
<1>2. /\ a \in Seq(A) /\ Len(a) = i - 1 /\ \A j \in 1..Len(a) : a[j] = s[j]
  BY <1>1, SubSeqProperties
<1>3. /\ b \in Seq(A) /\ Len(b) = Len(s) - i
      /\ \A j \in 1..Len(b) : b[j] = s[i + j]
  BY <1>1, SubSeqProperties
<1>4. t = a \o b
  BY DEF Without
<1> HIDE DEF a, b, t
<1>5. /\ Len(t) = Len(a) + Len(b) /\ Len(a) \in Nat /\ Len(b) \in Nat
      /\ \A j \in 1..(Len(a) + Len(b)) : t[j] = IF j <= Len(a) THEN a[j] ELSE b[j - Len(a)]
  <2>1. /\ Len(a) \in Nat /\ Len(b) \in Nat /\ Len(a \o b) = Len(a) + Len(b)
        /\ \A j \in 1..(Len(a) + Len(b)) :
             (a \o b)[j] = IF j <= Len(a) THEN a[j] ELSE b[j - Len(a)]
    BY <1>2, <1>3, ConcatProperties, LenProperties
  <2> QED BY <1>4, <2>1
<1>6. Len(t) = Len(s) - 1 /\ Len(t) \in Nat
  <2>1. i \in Nat /\ i >= 1 /\ i <= Len(s)
    BY <1>1
  <2>2. Len(t) = (i - 1) + (Len(s) - i)
    BY <1>2, <1>3, <1>5
  <2> QED BY <1>1, <2>1, <2>2
<1>7. ASSUME NEW k \in 1..Len(t), k < i PROVE k \in 1..Len(s) /\ t[k] = s[k]
  <2>1. /\ k \in 1..(Len(a) + Len(b)) /\ k <= Len(a) /\ k \in 1..Len(a) /\ k \in 1..Len(s)
    BY <1>1, <1>2, <1>5, <1>7
  <2>2. t[k] = a[k] BY <1>5, <2>1
  <2> QED BY <1>2, <2>1, <2>2
<1>8. ASSUME NEW k \in 1..Len(t), ~(k < i) PROVE k + 1 \in 1..Len(s) /\ t[k] = s[k + 1]
  <2>0. Len(a) = i - 1 /\ Len(t) = Len(a) + Len(b) /\ i \in Nat
    BY <1>1, <1>2, <1>5
  <2>1. /\ k \in 1..(Len(a) + Len(b)) /\ ~(k <= Len(a)) /\ k + 1 \in 1..Len(s)
    BY <1>1, <1>6, <1>8, <2>0
  <2>2. k - Len(a) \in 1..Len(b) /\ i + (k - Len(a)) = k + 1
    BY <1>1, <1>2, <1>5, <2>1
  <2>3. t[k] = b[k - Len(a)] BY <1>5, <2>1
  <2> QED BY <1>3, <2>1, <2>2, <2>3
<1> QED BY <1>1, <1>6, <1>7, <1>8 DEF t

\* Leaving out one place leaves the others, and nothing else.
LEMMA HasWithout ==
  ASSUME NEW A, NEW s \in Seq(A), NEW i \in 1..Len(s), NEW y
  PROVE  /\ Has(s, y) => Has(Without(s, i), y) \/ y = s[i]
         /\ Has(Without(s, i), y) => Has(s, y)
<1> DEFINE t == Without(s, i)
<1>1. /\ Len(s) \in Nat /\ Len(t) = Len(s) - 1 /\ Len(t) \in Nat
      /\ \A k \in 1..Len(t) : k < i => k \in 1..Len(s) /\ t[k] = s[k]
      /\ \A k \in 1..Len(t) : ~(k < i) => k + 1 \in 1..Len(s) /\ t[k] = s[k + 1]
  BY WithoutPlaces
<1> HIDE DEF t
<1>2. ASSUME Has(s, y) PROVE Has(t, y) \/ y = s[i]
  <2>1. PICK k \in 1..Len(s) : s[k] = y BY <1>2 DEF Has
  <2>2. CASE k < i
    <3>1. k \in 1..Len(t) BY <1>1, <2>2
    <3>2. t[k] = s[k] BY <1>1, <2>2, <3>1
    <3> QED BY <2>1, <3>1, <3>2 DEF Has
  <2>3. CASE k = i BY <2>1, <2>3
  <2>4. CASE k > i
    <3>1. k - 1 \in 1..Len(t) /\ ~(k - 1 < i) /\ (k - 1) + 1 = k BY <1>1, <2>4
    <3>2. t[k - 1] = s[(k - 1) + 1] BY <1>1, <3>1
    <3>3. t[k - 1] = y BY <2>1, <3>1, <3>2
    <3> QED BY <3>1, <3>3 DEF Has
  <2>5. k < i \/ k = i \/ k > i BY <1>1
  <2> QED BY <2>2, <2>3, <2>4, <2>5
<1>3. ASSUME Has(t, y) PROVE Has(s, y)
  <2>1. PICK k \in 1..Len(t) : t[k] = y BY <1>3 DEF Has
  <2>2. CASE k < i BY <1>1, <2>1, <2>2 DEF Has
  <2>3. CASE ~(k < i)
    <3>1. k + 1 \in 1..Len(s) /\ s[k + 1] = y BY <1>1, <2>1, <2>3
    <3> QED BY <3>1 DEF Has
  <2> QED BY <2>2, <2>3
<1> QED BY <1>2, <1>3 DEF t

-----------------------------------------------------------------------------
(* Nothing is lost.                                                        *)

\* A request that was called back; a url for which one was, or for which the
\* message that says 100% is on its way.
Called(u) == \E s \in Requests : UrlOf[s] = u /\ calls[s] > 0
Reported(u) ==
  \E s \in Requests : UrlOf[s] = u /\ (calls[s] > 0 \/ Has(looper, ProgressMsg(s)))

\* A DownloadThread that has not come to its end, or the job to start one; an
\* InitThread, its job or its message.
Loads(r) ==
  \/ \E i \in 1..Len(pool) : pool[i].kind = "load" /\ pool[i].req = r
  \/ \E w \in Workers : thread[w].pc \in {"open", "read", "check"} /\ thread[w].req = r
Begins(r) ==
  \/ \E i \in 1..Len(pool) : pool[i].kind = "init" /\ pool[i].req = r
  \/ \E w \in Workers : thread[w].pc = "init" /\ thread[w].req = r
  \/ Has(looper, InitMsg(r))

\* A position at the end of the file, saved, handed on or reached, comes with
\* a report; and a thread has counted at least as much as it has read.
EndReported(u, n) == n >= FileLen => Reported(u)
RowsReported == \A u \in Urls : EndReported(u, rows[u])
JobsReported ==
  \A i \in 1..Len(pool) :
    pool[i].kind = "load" => EndReported(UrlOf[pool[i].req], pool[i].from)
ThreadReported(t) ==
  /\ t.pc = "open" => t.off = 0
  /\ t.pc \in {"read", "check"} => t.off <= t.fin
  /\ t.pc \in {"open", "save"} => EndReported(UrlOf[t.req], t.fin)
ThreadsReported == \A w \in Workers : ThreadReported(thread[w])

\* A listed task is loading, paused or reported; what leaves the list has been
\* called back.
TasksLoad ==
  \A r \in Requests : Has(tasks, r) => Reported(UrlOf[r]) \/ r \in paused \/ Loads(r)
LeavesCalled ==
  \A u \in Urls : bcasts[u] > 0 \/ Has(looper, FinishedMsg(u)) => Called(u)

\* A url that was asked for is pending, beginning, listed or called back, and
\* what is pending waits for a bind.
Kept(u) ==
  \E s \in Requests :
    UrlOf[s] = u /\ (Has(pending, s) \/ Begins(s) \/ Has(tasks, s) \/ calls[s] > 0)
AskedKept == \A r \in issued : Kept(UrlOf[r])
PendingAwaits == pending # <<>> => BindAwaited

Alive == crashes = 0 /\ main # "blocked"
JInv ==
  Alive => /\ RowsReported /\ JobsReported /\ ThreadsReported
           /\ TasksLoad /\ LeavesCalled /\ AskedKept /\ PendingAwaits

-----------------------------------------------------------------------------
(* What a step takes away.                                                 *)

\* Callbacks are only added.
LEMMA CallsGrow ==
  ASSUME TypeOK, [Next]_vars, NEW s \in Requests PROVE calls'[s] >= calls[s]
<1> USE DEF managerVars, persistentVars, budgetVars
<1>1. CASE calls' = calls BY <1>1 DEF TypeOK
<1>2. ASSUME NEW r \in Requests, HandleProgress(r) PROVE calls'[s] >= calls[s]
  BY <1>2 DEF HandleProgress, TypeOK
<1>3. calls' = calls \/ \E r \in Requests : HandleProgress(r)
  BY DEF Next, vars, Handler, Worker, StartDownloadBound, StartDownloadUnbound,
     ServiceConnected, HandleBindSuc, DrainPending, DrainDone, HandleInit,
     HandleFinished, ReceiveFinished, PauseDownload, LowMemory, DeleteFile, TakeJob,
     InitSucceeds, InitFails, OpenSucceeds, LoadFails, ReadChunk, CheckPause,
     SavePosition, ReadEnd, Crash
<1> QED BY <1>1, <1>2, <1>3

\* A message stays in the queue until its handler runs.
LEMMA MessageStays ==
  ASSUME TypeOK, [Next]_vars, ~Crash, NEW y, Has(looper, y)
  PROVE  \/ Has(looper', y)
         \/ HandleBindSuc /\ y = BindSuc
         \/ \E r \in Requests : HandleInit(r) /\ y = InitMsg(r)
         \/ \E r \in Requests : HandleProgress(r) /\ y = ProgressMsg(r)
         \/ \E u \in Urls : HandleFinished(u) /\ y = FinishedMsg(u)
<1> USE DEF managerVars, persistentVars, budgetVars
<1>0. looper \in Seq(Messages)
  BY DEF TypeOK
<1>1. ASSUME NEW m, Dispatch(m), y # m PROVE Has(looper', y)
  BY <1>0, <1>1, HasTail DEF Dispatch
<1>2. CASE looper' = looper BY <1>2
<1>3. ASSUME NEW m \in Messages, looper' = Append(looper, m) PROVE Has(looper', y)
  BY <1>0, <1>3, HasAppend
<1>4. CASE HandleBindSuc BY <1>1, <1>4 DEF HandleBindSuc
<1>5. ASSUME NEW r \in Requests, HandleInit(r) PROVE y = InitMsg(r) \/ Has(looper', y)
  BY <1>1, <1>5 DEF HandleInit
<1>6. ASSUME NEW r \in Requests, HandleProgress(r)
      PROVE  y = ProgressMsg(r) \/ Has(looper', y)
  BY <1>1, <1>6 DEF HandleProgress
<1>7. ASSUME NEW u \in Urls, HandleFinished(u)
      PROVE  y = FinishedMsg(u) \/ Has(looper', y)
  BY <1>1, <1>7 DEF HandleFinished
<1>8. ASSUME NEW u \in Urls, ReceiveFinished(u) PROVE Has(looper', y)
  BY <1>3, <1>8, MessageTypes DEF ReceiveFinished
<1>9. CASE ServiceConnected BY <1>3, <1>9, MessageTypes DEF ServiceConnected
<1>10. ASSUME NEW w \in Workers, Worker(w) PROVE Has(looper', y)
  <2>1. thread[w].pc # "idle" => thread[w].req \in Requests
    BY RunningType DEF TypeOK
  <2>2. CASE InitSucceeds(w)
    BY <1>3, <2>1, <2>2, MessageTypes DEF InitSucceeds, At
  <2>3. CASE ReadChunk(w) \/ CheckPause(w) \/ ReadEnd(w)
    <3>1. thread[w].req \in Requests
      BY <2>1, <2>3 DEF ReadChunk, CheckPause, ReadEnd, At
    <3>2. looper' \in {looper, Append(looper, ProgressMsg(thread[w].req))}
      BY <2>3 DEF ReadChunk, CheckPause, ReadEnd, Notify
    <3> QED BY <1>2, <1>3, <3>1, <3>2, MessageTypes
  <2>4. CASE looper' = looper BY <1>2, <2>4
  <2> QED
    BY <1>10, <2>2, <2>3, <2>4
    DEF Worker, TakeJob, InitFails, OpenSucceeds, LoadFails, SavePosition
<1>11. \/ looper' = looper \/ HandleBindSuc \/ ServiceConnected
       \/ (\E r \in Requests : HandleInit(r) \/ HandleProgress(r))
       \/ (\E u \in Urls : HandleFinished(u) \/ ReceiveFinished(u))
       \/ (\E w \in Workers : Worker(w))
  BY DEF Next, vars, Handler, StartDownloadBound, StartDownloadUnbound, DrainPending,
     DrainDone, PauseDownload, LowMemory, DeleteFile
<1> QED BY <1>2, <1>4, <1>5, <1>6, <1>7, <1>8, <1>9, <1>10, <1>11

\* So a report that is on its way arrives.
LEMMA ReportedStays ==
  ASSUME TypeOK, TypeOK', [Next]_vars, ~Crash, NEW u, Reported(u)
  PROVE  Reported(u)'
<1>1. PICK s \in Requests : UrlOf[s] = u /\ (calls[s] > 0 \/ Has(looper, ProgressMsg(s)))
  BY DEF Reported
<1>2. CASE calls'[s] > 0 BY <1>1, <1>2 DEF Reported
<1>3. CASE calls[s] > 0
  <2>1. calls[s] \in Nat /\ calls'[s] \in Nat /\ calls'[s] >= calls[s]
    BY CallsGrow DEF TypeOK
  <2> QED BY <1>2, <1>3, <2>1
<1>4. CASE Has(looper, ProgressMsg(s))
  <2>1. CASE Has(looper', ProgressMsg(s)) BY <1>1, <2>1 DEF Reported
  <2>2. ASSUME NEW r \in Requests, HandleProgress(r), ProgressMsg(s) = ProgressMsg(r)
        PROVE  calls'[s] > 0
    <3>1. s = r BY <2>2, MessagesDiffer
    <3> QED BY <2>2, <3>1 DEF HandleProgress, TypeOK
  <2>3. /\ ProgressMsg(s) # BindSuc
        /\ \A r \in Requests : ProgressMsg(s) # InitMsg(r)
        /\ \A v \in Urls : ProgressMsg(s) # FinishedMsg(v)
    BY MessagesDiffer
  <2> QED BY <1>2, <1>4, <2>1, <2>2, <2>3, MessageStays
<1> QED BY <1>1, <1>3, <1>4

\* A job stays in the pool until a worker takes it.
LEMMA JobStays ==
  ASSUME TypeOK, [Next]_vars, ~Crash, NEW i \in 1..Len(pool)
  PROVE  \/ \E j \in 1..Len(pool') : pool'[j] = pool[i]
         \/ \E w \in Workers : TakeJob(w) /\ pool[i] = Head(pool)
<1> USE DEF managerVars, persistentVars, budgetVars
<1>0. pool \in Seq(Jobs) /\ Has(pool, pool[i])
  BY DEF TypeOK, Has
<1>1. CASE pool' = pool BY <1>1
<1>2. ASSUME NEW job \in Jobs, pool' = Append(pool, job)
      PROVE  \E j \in 1..Len(pool') : pool'[j] = pool[i]
  <2>1. Has(pool', pool[i]) BY <1>0, <1>2, HasAppend
  <2> QED BY <2>1 DEF Has
<1>3. ASSUME NEW w \in Workers, TakeJob(w), pool[i] # Head(pool)
      PROVE  \E j \in 1..Len(pool') : pool'[j] = pool[i]
  <2>1. pool # <<>> /\ pool' = Tail(pool) BY <1>3 DEF TakeJob
  <2>2. Has(pool', pool[i]) BY <1>0, <1>3, <2>1, HasTail
  <2> QED BY <2>2 DEF Has
<1>4. ASSUME NEW r \in Requests, LaunchThread(r)
      PROVE  \E j \in 1..Len(pool') : pool'[j] = pool[i]
  <2> DEFINE from == IF rows[UrlOf[r]] = NoRow THEN 0 ELSE rows[UrlOf[r]]
  <2>1. from \in Nat BY RequestAssumption DEF TypeOK, NoRow
  <2>2. LoadJob(r, from) \in Jobs BY <2>1 DEF LoadJob, Jobs
  <2>3. pool' = Append(pool, LoadJob(r, from)) BY <1>4 DEF LaunchThread
  <2> QED BY <1>2, <2>2, <2>3
<1>5. ASSUME NEW r \in Requests, ServiceDownload(r)
      PROVE  \E j \in 1..Len(pool') : pool'[j] = pool[i]
  <2>1. InitJob(r) \in Jobs BY DEF InitJob, Jobs
  <2>2. \A k \in 1..Len(tasks) : tasks[k] \in Requests BY DEF TypeOK
  <2> QED BY <1>1, <1>2, <1>4, <1>5, <2>1, <2>2 DEF ServiceDownload, Restart
<1>6. CASE DrainPending
  <2>1. pending[Len(pending)] \in Requests
    BY <1>6, EmptySeq, LenProperties DEF DrainPending, TypeOK
  <2> QED BY <1>5, <1>6, <2>1 DEF DrainPending
<1>7. ASSUME NEW r \in Requests, StartDownloadBound(r) \/ HandleInit(r)
      PROVE  \E j \in 1..Len(pool') : pool'[j] = pool[i]
  BY <1>4, <1>5, <1>7 DEF StartDownloadBound, HandleInit
<1>8. \/ pool' = pool \/ DrainPending
      \/ (\E r \in Requests : StartDownloadBound(r) \/ HandleInit(r))
      \/ (\E w \in Workers : TakeJob(w))
  BY DEF Next, vars, Handler, Worker, StartDownloadUnbound, ServiceConnected,
     HandleBindSuc, DrainDone, HandleProgress, HandleFinished, ReceiveFinished,
     PauseDownload, LowMemory, DeleteFile, InitSucceeds, InitFails, OpenSucceeds,
     LoadFails, ReadChunk, CheckPause, SavePosition, ReadEnd
<1> QED BY <1>1, <1>3, <1>6, <1>7, <1>8

\* A thread only changes by its own steps, but for the file being deleted.
LEMMA ThreadStays ==
  ASSUME TypeOK, [Next]_vars, ~Crash, NEW w \in Workers
  PROVE  \/ Worker(w)
         \/ /\ thread'[w].pc = thread[w].pc
            /\ thread[w].pc # "idle" =>
                 /\ thread'[w].req = thread[w].req
                 /\ thread'[w].fin = thread[w].fin /\ thread'[w].off = thread[w].off
<1> USE DEF managerVars, persistentVars, budgetVars
<1>1. CASE thread' = thread BY <1>1
<1>2. ASSUME NEW v \in Workers, Worker(v), v # w PROVE thread'[w] = thread[w]
  BY <1>2 DEF TypeOK, Worker, TakeJob, InitSucceeds, InitFails, OpenSucceeds, LoadFails,
     ReadChunk, CheckPause, SavePosition, ReadEnd, Become, Goto
<1>3. ASSUME NEW u \in Urls, DeleteFile(u)
      PROVE  /\ thread'[w].pc = thread[w].pc
             /\ thread[w].pc # "idle" =>
                  /\ thread'[w].req = thread[w].req
                  /\ thread'[w].fin = thread[w].fin /\ thread'[w].off = thread[w].off
  <2>1. CASE thread'[w] = thread[w] BY <2>1
  <2>2. CASE thread[w].pc \in FileOpen /\ thread'[w] = [thread[w] EXCEPT !.orphan = TRUE]
    <3>1. thread[w] \in RunningThreads
      <4>1. thread[w] \in {IdleThread} \cup RunningThreads BY DEF TypeOK
      <4>2. thread[w].pc # "idle" BY <2>2 DEF FileOpen
      <4> QED BY <4>1, <4>2, RunningType
    <3> QED BY <2>2, <3>1 DEF RunningThreads
  <2> QED BY <1>3, <2>1, <2>2 DEF DeleteFile
<1>4. \/ thread' = thread \/ (\E v \in Workers : Worker(v))
      \/ (\E u \in Urls : DeleteFile(u))
  BY DEF Next, vars, Handler, StartDownloadBound, StartDownloadUnbound,
     ServiceConnected, HandleBindSuc, DrainPending, DrainDone, HandleInit,
     HandleProgress, HandleFinished, ReceiveFinished, PauseDownload, LowMemory
<1> QED BY <1>1, <1>2, <1>3, <1>4

-----------------------------------------------------------------------------
(* What a step brings.                                                     *)

\* Saying 100% is a report.
LEMMA NotifyReports ==
  ASSUME TypeOK, NEW r \in Requests, NEW n \in Nat, n >= FileLen, Notify(r, n)
  PROVE  Reported(UrlOf[r])'
<1>1. looper' = Append(looper, ProgressMsg(r)) BY DEF Notify
<1>2. looper \in Seq(Messages) BY DEF TypeOK
<1>3. Has(looper', ProgressMsg(r)) BY <1>1, <1>2, MessageTypes, HasAppend
<1> QED BY <1>3 DEF Reported

\* Launching a thread makes a job that loads, from a position that is reported
\* if it is the end.
LEMMA LaunchLoads ==
  ASSUME TypeOK, NEW r \in Requests, LaunchThread(r)
  PROVE  /\ Loads(r)'
         /\ \E n \in Nat :
              /\ pool' = Append(pool, LoadJob(r, n)) /\ LoadJob(r, n) \in Jobs
              /\ n = 0 \/ n = rows[UrlOf[r]]
              /\ rows' = [rows EXCEPT ![UrlOf[r]] = n]
<1> DEFINE from == IF rows[UrlOf[r]] = NoRow THEN 0 ELSE rows[UrlOf[r]]
<1>1. from \in Nat BY RequestAssumption DEF TypeOK, NoRow
<1>2. LoadJob(r, from) \in Jobs BY <1>1 DEF LoadJob, Jobs
<1>3. /\ pool' = Append(pool, LoadJob(r, from))
      /\ rows' = [rows EXCEPT ![UrlOf[r]] = from]
  BY DEF LaunchThread
<1>4. Loads(r)'
  <2>1. pool \in Seq(Jobs) BY DEF TypeOK
  <2>2. Has(pool', LoadJob(r, from)) BY <1>2, <1>3, <2>1, HasAppend
  <2>3. LoadJob(r, from).kind = "load" /\ LoadJob(r, from).req = r BY DEF LoadJob
  <2> QED BY <2>2, <2>3 DEF Has, Loads
<1>5. from = 0 \/ from = rows[UrlOf[r]] OBVIOUS
<1> HIDE DEF from
<1> QED BY <1>1, <1>2, <1>3, <1>4, <1>5

\* DownloadService.download begins with a request, goes on with a task of its
\* url that is paused, or leaves one alone.
LEMMA ServiceBegins ==
  ASSUME TypeOK, NEW r \in Requests, ServiceDownload(r)
  PROVE  \/ Begins(r)' /\ pool' = Append(pool, InitJob(r)) /\ UNCHANGED <<paused, rows>>
         \/ \E s \in Requests :
              /\ UrlOf[s] = UrlOf[r] /\ Has(tasks, s)
              /\ \/ paused' = paused \ {s} /\ LaunchThread(s)
                 \/ UNCHANGED <<paused, rows, pool>>
<1>1. CASE pool' = Append(pool, InitJob(r)) /\ UNCHANGED <<paused, rows>>
  <2>1. pool \in Seq(Jobs) /\ InitJob(r) \in Jobs BY DEF TypeOK, InitJob, Jobs
  <2>2. Has(pool', InitJob(r)) BY <1>1, <2>1, HasAppend
  <2>3. InitJob(r).kind = "init" /\ InitJob(r).req = r BY DEF InitJob
  <2>4. Begins(r)' BY <2>2, <2>3 DEF Has, Begins
  <2> QED BY <1>1, <2>4
<1>2. ASSUME NEW i \in 1..Len(tasks), IsFirst(i, UrlOf[r]),
             Restart(tasks[i]) \/ UNCHANGED <<paused, rows, pool>>
      PROVE  \E s \in Requests :
              /\ UrlOf[s] = UrlOf[r] /\ Has(tasks, s)
              /\ \/ paused' = paused \ {s} /\ LaunchThread(s)
                 \/ UNCHANGED <<paused, rows, pool>>
  <2>1. tasks[i] \in Requests /\ UrlOf[tasks[i]] = UrlOf[r] /\ Has(tasks, tasks[i])
    BY <1>2 DEF TypeOK, IsFirst, Has
  <2> QED BY <1>2, <2>1 DEF Restart
<1> QED BY <1>1, <1>2 DEF ServiceDownload

LEMMA DrainsRequest ==
  ASSUME TypeOK, DrainPending
  PROVE  /\ pending[Len(pending)] \in Requests /\ ServiceDownload(pending[Len(pending)])
         /\ \A y : Has(pending, y) <=> Has(pending', y) \/ y = pending[Len(pending)]
<1>1. /\ pending \in Seq(Requests) /\ pending # <<>> /\ Len(pending) \in Nat
      /\ pending' = SubSeq(pending, 1, Len(pending) - 1)
  BY LenProperties DEF DrainPending, TypeOK
<1>2. Len(pending) \in 1..Len(pending) BY <1>1, EmptySeq
<1>3. pending[Len(pending)] \in Requests BY <1>1, <1>2
<1>4. \A y : Has(pending, y) <=> Has(pending', y) \/ y = pending[Len(pending)]
  BY <1>1, HasFront
<1> QED BY <1>3, <1>4 DEF DrainPending

\* Nothing but a restart takes a task out of its pause.
LEMMA PauseStays ==
  ASSUME TypeOK, [Next]_vars, ~Crash, NEW r \in paused
  PROVE  r \in paused' \/ Loads(r)'
<1> USE DEF managerVars, persistentVars, budgetVars
<1>1. CASE paused \subseteq paused' BY <1>1
<1>2. ASSUME NEW p \in Requests, ServiceDownload(p) PROVE r \in paused' \/ Loads(r)'
  <2>1. CASE UNCHANGED paused BY <2>1
  <2>2. ASSUME NEW s \in Requests, paused' = paused \ {s}, LaunchThread(s)
        PROVE  r \in paused' \/ Loads(r)'
    <3>1. CASE r = s BY <2>2, <3>1, LaunchLoads
    <3> QED BY <2>2, <3>1
  <2> QED BY <1>2, <2>1, <2>2, ServiceBegins
<1>3. CASE DrainPending BY <1>2, <1>3, DrainsRequest
<1>4. ASSUME NEW p \in Requests, StartDownloadBound(p) PROVE r \in paused' \/ Loads(r)'
  BY <1>2, <1>4 DEF StartDownloadBound
<1>5. \/ paused \subseteq paused' \/ DrainPending
      \/ \E p \in Requests : StartDownloadBound(p)
  BY DEF Next, vars, Handler, Worker, StartDownloadUnbound, ServiceConnected,
     HandleBindSuc, DrainDone, HandleInit, HandleProgress, HandleFinished,
     ReceiveFinished, PauseDownload, LowMemory, DeleteFile, TakeJob, InitSucceeds,
     InitFails, OpenSucceeds, LoadFails, ReadChunk, CheckPause, SavePosition, ReadEnd
<1> QED BY <1>1, <1>3, <1>4, <1>5

\* A worker that takes a job becomes its thread.
LEMMA TakesJob ==
  ASSUME TypeOK, NEW w \in Workers, TakeJob(w)
  PROVE  /\ Head(pool) \in Jobs
         /\ thread'[w].pc = IF Head(pool).kind = "init" THEN "init" ELSE "open"
         /\ thread'[w].req = Head(pool).req /\ thread'[w].fin = Head(pool).from
         /\ thread'[w].off = 0
<1> DEFINE x == [pc |-> IF Head(pool).kind = "init" THEN "init" ELSE "open",
                 req |-> Head(pool).req, fin |-> Head(pool).from, off |-> 0,
                 orphan |-> FALSE]
<1>1. thread' = [thread EXCEPT ![w] = x] BY DEF TakeJob, Become
<1>2. thread'[w] = x BY <1>1 DEF TypeOK
<1>3. Head(pool) \in Jobs BY HeadTailProperties DEF TakeJob, TypeOK
<1> QED BY <1>2, <1>3

\* How a DownloadThread goes on.
LEMMA Opens ==
  ASSUME TypeOK, NEW w \in Workers, OpenSucceeds(w)
  PROVE  /\ thread[w].pc = "open" /\ thread'[w].pc = "read"
         /\ thread'[w].req = thread[w].req /\ thread'[w].fin = thread[w].fin
         /\ thread'[w].off = IF HonoursRange THEN thread[w].off + thread[w].fin
                                             ELSE thread[w].off
<1> DEFINE t == thread[w]
           x == [t EXCEPT !.pc = "read", !.off = IF HonoursRange THEN @ + t.fin ELSE @]
<1>1. thread' = [thread EXCEPT ![w] = x] /\ t.pc = "open"
  BY DEF OpenSucceeds, Become, At
<1>2. t \in RunningThreads
  BY <1>1, RunningType DEF TypeOK
<1>3. /\ x.pc = "read" /\ x.req = t.req /\ x.fin = t.fin
      /\ x.off = IF HonoursRange THEN t.off + t.fin ELSE t.off
  BY <1>2 DEF RunningThreads
<1> HIDE DEF x
<1>4. thread'[w] = x BY <1>1 DEF TypeOK
<1> QED BY <1>1, <1>3, <1>4

LEMMA Reads ==
  ASSUME TypeOK, NEW w \in Workers, ReadChunk(w)
  PROVE  /\ thread[w].pc = "read" /\ thread'[w].pc = "check"
         /\ thread'[w].req = thread[w].req
         /\ thread'[w].fin = thread[w].fin + 1 /\ thread'[w].off = thread[w].off + 1
<1> DEFINE t == thread[w]
           x == [t EXCEPT !.pc = "check", !.fin = @ + 1, !.off = @ + 1]
<1>1. thread' = [thread EXCEPT ![w] = x] /\ t.pc = "read"
  BY DEF ReadChunk, Become, At
<1>2. t \in RunningThreads
  BY <1>1, RunningType DEF TypeOK
<1>3. /\ x.pc = "check" /\ x.req = t.req /\ x.fin = t.fin + 1 /\ x.off = t.off + 1
  BY <1>2 DEF RunningThreads
<1> HIDE DEF x
<1>4. thread'[w] = x BY <1>1 DEF TypeOK
<1> QED BY <1>1, <1>3, <1>4

LEMMA Checks ==
  ASSUME TypeOK, NEW w \in Workers, CheckPause(w)
  PROVE  /\ thread[w].pc = "check"
         /\ thread'[w].pc = IF thread[w].req \in paused THEN "save" ELSE "read"
         /\ thread'[w].req = thread[w].req
         /\ thread'[w].fin = thread[w].fin /\ thread'[w].off = thread[w].off
<1> DEFINE t == thread[w]
           x == [t EXCEPT !.pc = IF t.req \in paused THEN "save" ELSE "read"]
<1>1. thread' = [thread EXCEPT ![w] = x] /\ t.pc = "check"
  BY DEF CheckPause, Goto, At
<1>2. t \in RunningThreads
  BY <1>1, RunningType DEF TypeOK
<1>3. /\ x.pc = (IF t.req \in paused THEN "save" ELSE "read") /\ x.req = t.req
      /\ x.fin = t.fin /\ x.off = t.off
  BY <1>2 DEF RunningThreads
<1> HIDE DEF x
<1>4. thread'[w] = x BY <1>1 DEF TypeOK
<1> QED BY <1>1, <1>3, <1>4

\* A download goes on until its end is reported or it is paused; no connection
\* that is refused past the end is a loss.
LEMMA LoadsStay ==
  ASSUME TypeOK, TypeOK', [Next]_vars, ~Crash, ~MayFail, ThreadsReported,
         NEW r \in Requests, Loads(r)
  PROVE  Loads(r)' \/ Reported(UrlOf[r])' \/ r \in paused'
<1>1. ASSUME NEW i \in 1..Len(pool), pool[i].kind = "load", pool[i].req = r
      PROVE  Loads(r)'
  <2>1. CASE \E j \in 1..Len(pool') : pool'[j] = pool[i] BY <1>1, <2>1 DEF Loads
  <2>2. ASSUME NEW w \in Workers, TakeJob(w), pool[i] = Head(pool) PROVE Loads(r)'
    <3>1. thread'[w].pc = "open" /\ thread'[w].req = r BY <1>1, <2>2, TakesJob
    <3> QED BY <3>1 DEF Loads
  <2> QED BY <2>1, <2>2, JobStays
<1>2. ASSUME NEW w \in Workers, thread[w].pc \in {"open", "read", "check"},
             thread[w].req = r
      PROVE  Loads(r)' \/ Reported(UrlOf[r])' \/ r \in paused'
  <2> DEFINE t == thread[w]
  <2>1. t \in RunningThreads /\ t.fin \in Nat /\ t.off \in Nat
    <3>1. t \in {IdleThread} \cup RunningThreads /\ t.pc # "idle" BY <1>2 DEF TypeOK
    <3> QED BY <3>1, RunningType
  <2>2. ThreadReported(t) BY DEF ThreadsReported
  <2>3. CASE thread'[w].pc = t.pc /\ thread'[w].req = t.req BY <1>2, <2>3 DEF Loads
  <2>4. CASE OpenSucceeds(w) \/ ReadChunk(w)
    <3>2. thread'[w].pc \in {"read", "check"} /\ thread'[w].req = r
      BY <1>2, <2>4, Opens, Reads
    <3> QED BY <3>2 DEF Loads
  <2>5. CASE LoadFails(w)
    <3>1. t.pc = "open" /\ t.fin >= FileLen BY <2>5 DEF LoadFails, At, PastEnd
    <3>2. Reported(UrlOf[r]) BY <1>2, <2>2, <3>1 DEF ThreadReported, EndReported
    <3> QED BY <3>2, ReportedStays
  <2>6. CASE CheckPause(w)
    <3>1. CASE r \in paused BY <1>2, <2>6, <3>1 DEF CheckPause
    <3>2. CASE r \notin paused
      <4>1. thread'[w].pc = "read" /\ thread'[w].req = r
        BY <1>2, <2>6, <3>2, Checks
      <4> QED BY <4>1 DEF Loads
    <3> QED BY <3>1, <3>2
  <2>7. CASE ReadEnd(w)
    <3>1. t.fin >= FileLen /\ Notify(r, t.fin)
      BY <1>2, <2>1, <2>2, <2>7, LengthAssumption DEF ReadEnd, At, ThreadReported
    <3> QED BY <2>1, <3>1, NotifyReports
  <2> QED
    BY <1>2, <2>3, <2>4, <2>5, <2>6, <2>7, ThreadStays
    DEF Worker, TakeJob, InitSucceeds, InitFails, SavePosition, At
<1> QED BY <1>1, <1>2 DEF Loads

\* An InitThread that does not fail comes to MSG_INIT.
LEMMA BeginsStay ==
  ASSUME TypeOK, TypeOK', [Next]_vars, ~Crash, ~MayFail, NEW r \in Requests, Begins(r)
  PROVE  Begins(r)' \/ HandleInit(r)
<1>1. ASSUME NEW i \in 1..Len(pool), pool[i].kind = "init", pool[i].req = r
      PROVE  Begins(r)'
  <2>1. CASE \E j \in 1..Len(pool') : pool'[j] = pool[i] BY <1>1, <2>1 DEF Begins
  <2>2. ASSUME NEW w \in Workers, TakeJob(w), pool[i] = Head(pool) PROVE Begins(r)'
    <3>1. thread'[w].pc = "init" /\ thread'[w].req = r BY <1>1, <2>2, TakesJob
    <3> QED BY <3>1 DEF Begins
  <2> QED BY <2>1, <2>2, JobStays
<1>2. ASSUME NEW w \in Workers, thread[w].pc = "init", thread[w].req = r
      PROVE  Begins(r)'
  <2>1. CASE thread'[w].pc = "init" /\ thread'[w].req = r BY <2>1 DEF Begins
  <2>2. CASE InitSucceeds(w)
    <3>1. looper' = Append(looper, InitMsg(r)) /\ looper \in Seq(Messages)
      BY <1>2, <2>2 DEF InitSucceeds, TypeOK
    <3>2. Has(looper', InitMsg(r)) BY <3>1, MessageTypes, HasAppend
    <3> QED BY <3>2 DEF Begins
  <2> QED
    BY <1>2, <2>1, <2>2, ThreadStays
    DEF Worker, TakeJob, InitFails, OpenSucceeds, LoadFails, ReadChunk, CheckPause,
        SavePosition, ReadEnd, At
<1>3. CASE Has(looper, InitMsg(r))
  <2>1. CASE Has(looper', InitMsg(r)) BY <2>1 DEF Begins
  <2>2. /\ InitMsg(r) # BindSuc
        /\ \A s \in Requests : InitMsg(r) # ProgressMsg(s) /\ (InitMsg(r) = InitMsg(s) => r = s)
        /\ \A u \in Urls : InitMsg(r) # FinishedMsg(u)
    BY MessagesDiffer
  <2> QED BY <1>3, <2>1, <2>2, MessageStays
<1> QED BY <1>1, <1>2, <1>3 DEF Begins

-----------------------------------------------------------------------------
(* Each part of the invariant.                                             *)

LEMMA EndStays ==
  ASSUME TypeOK, TypeOK', [Next]_vars, ~Crash, NEW u, NEW n, EndReported(u, n)
  PROVE  EndReported(u, n)'
BY ReportedStays DEF EndReported

LEMMA RowsStep ==
  ASSUME TypeOK, TypeOK', [Next]_vars, ~Crash, RowsReported, ThreadsReported
  PROVE  RowsReported'
<1> USE DEF managerVars, persistentVars, budgetVars
<1> SUFFICES ASSUME NEW u \in Urls, rows'[u] >= FileLen PROVE Reported(u)'
  BY DEF RowsReported, EndReported
<1>1. CASE rows'[u] = rows[u]
  BY <1>1, EndStays DEF RowsReported, EndReported
<1>2. ASSUME NEW r \in Requests, LaunchThread(r) PROVE Reported(u)'
  <2>1. PICK n \in Nat : /\ n = 0 \/ n = rows[UrlOf[r]]
                         /\ rows' = [rows EXCEPT ![UrlOf[r]] = n]
    BY <1>2, LaunchLoads
  <2>2. CASE u = UrlOf[r] /\ n = 0
    <3>1. rows'[u] = 0 BY <2>1, <2>2 DEF TypeOK
    <3> QED BY <3>1, LengthAssumption
  <2>3. CASE rows'[u] = rows[u] BY <1>1, <2>3
  <2> QED BY <2>1, <2>2, <2>3 DEF TypeOK
<1>3. ASSUME NEW r \in Requests, ServiceDownload(r) PROVE Reported(u)'
  BY <1>1, <1>2, <1>3, ServiceBegins
<1>4. CASE DrainPending BY <1>3, <1>4, DrainsRequest
<1>5. ASSUME NEW r \in Requests, StartDownloadBound(r) \/ HandleInit(r)
      PROVE  Reported(u)'
  BY <1>2, <1>3, <1>5 DEF StartDownloadBound, HandleInit
<1>6. ASSUME NEW r \in Requests, HandleProgress(r) PROVE Reported(u)'
  <2>1. rows'[u] = rows[u] \/ rows'[u] = -1
    BY <1>6 DEF HandleProgress, TypeOK, NoRow
  <2>2. ~(-1 >= FileLen) BY LengthAssumption
  <2> QED BY <1>1, <2>1, <2>2
<1>7. ASSUME NEW w \in Workers, SavePosition(w) PROVE Reported(u)'
  <2>1. thread[w].pc = "save" BY <1>7 DEF SavePosition, At
  <2>2. ThreadReported(thread[w]) BY DEF ThreadsReported
  <2>3. CASE rows'[u] = thread[w].fin /\ u = UrlOf[thread[w].req]
    <3>1. Reported(u) BY <2>1, <2>2, <2>3 DEF ThreadReported, EndReported
    <3> QED BY <3>1, ReportedStays
  <2>4. rows'[u] = rows[u] \/ (rows'[u] = thread[w].fin /\ u = UrlOf[thread[w].req])
    BY <1>7 DEF SavePosition, TypeOK
  <2> QED BY <1>1, <2>3, <2>4
<1>8. \/ rows' = rows \/ DrainPending
      \/ (\E r \in Requests : StartDownloadBound(r) \/ HandleInit(r) \/ HandleProgress(r))
      \/ (\E w \in Workers : SavePosition(w))
  BY DEF Next, vars, Handler, Worker, StartDownloadUnbound, ServiceConnected,
     HandleBindSuc, DrainDone, HandleFinished, ReceiveFinished, PauseDownload,
     LowMemory, DeleteFile, TakeJob, InitSucceeds, InitFails, OpenSucceeds, LoadFails,
     ReadChunk, CheckPause, ReadEnd
<1> QED BY <1>1, <1>4, <1>5, <1>6, <1>7, <1>8

LEMMA JobsStep ==
  ASSUME TypeOK, TypeOK', [Next]_vars, ~Crash, RowsReported, JobsReported
  PROVE  JobsReported'
<1> USE DEF managerVars, persistentVars, budgetVars
<1> SUFFICES ASSUME NEW i \in 1..Len(pool'), pool'[i].kind = "load",
                    pool'[i].from >= FileLen,
                    NEW u, u = UrlOf[pool'[i].req]
             PROVE  Reported(u)'
  BY DEF JobsReported, EndReported, Reported
<1>0. pool \in Seq(Jobs) /\ Has(pool', pool'[i])
  BY DEF TypeOK, Has
<1>1. CASE Has(pool, pool'[i])
  <2>1. PICK j \in 1..Len(pool) : pool[j] = pool'[i] BY <1>1 DEF Has
  <2>2. Reported(u) BY <2>1 DEF JobsReported, EndReported
  <2> QED BY <2>2, ReportedStays
<1>2. ASSUME NEW r \in Requests, LaunchThread(r) PROVE Reported(u)'
  <2>1. PICK n \in Nat : /\ pool' = Append(pool, LoadJob(r, n))
                         /\ LoadJob(r, n) \in Jobs
                         /\ n = 0 \/ n = rows[UrlOf[r]]
    BY <1>2, LaunchLoads
  <2>2. Has(pool, pool'[i]) \/ pool'[i] = LoadJob(r, n)
    BY <1>0, <2>1, HasAppend
  <2>3. CASE pool'[i] = LoadJob(r, n)
    <3>1. n >= FileLen /\ u = UrlOf[r] BY <2>3 DEF LoadJob
    <3>2. n = rows[u] BY <2>1, <3>1, LengthAssumption
    <3>3. u \in Urls BY <3>1, RequestAssumption
    <3>4. Reported(u) BY <3>1, <3>2, <3>3 DEF RowsReported, EndReported
    <3> QED BY <3>4, ReportedStays
  <2> QED BY <1>1, <2>2, <2>3
<1>3. ASSUME NEW r \in Requests, ServiceDownload(r) PROVE Reported(u)'
  <2>1. CASE pool' = Append(pool, InitJob(r))
    <3>1. InitJob(r) \in Jobs /\ InitJob(r).kind = "init" BY DEF InitJob, Jobs
    <3>2. pool'[i] # InitJob(r) BY <3>1
    <3> QED BY <1>0, <1>1, <2>1, <3>1, <3>2, HasAppend
  <2>2. CASE UNCHANGED pool BY <1>0, <1>1, <2>2
  <2> QED BY <1>2, <1>3, <2>1, <2>2, ServiceBegins
<1>4. CASE DrainPending BY <1>3, <1>4, DrainsRequest
<1>5. ASSUME NEW r \in Requests, StartDownloadBound(r) \/ HandleInit(r)
      PROVE  Reported(u)'
  BY <1>2, <1>3, <1>5 DEF StartDownloadBound, HandleInit
<1>6. ASSUME NEW w \in Workers, TakeJob(w) PROVE Reported(u)'
  <2>1. pool # <<>> /\ pool' = Tail(pool) BY <1>6 DEF TakeJob
  <2>2. Has(pool, pool'[i]) BY <1>0, <2>1, HasTail
  <2> QED BY <1>1, <2>2
<1>7. CASE pool' = pool BY <1>0, <1>1, <1>7
<1>8. \/ pool' = pool \/ DrainPending
      \/ (\E r \in Requests : StartDownloadBound(r) \/ HandleInit(r))
      \/ (\E w \in Workers : TakeJob(w))
  BY DEF Next, vars, Handler, Worker, StartDownloadUnbound, ServiceConnected,
     HandleBindSuc, DrainDone, HandleProgress, HandleFinished, ReceiveFinished,
     PauseDownload, LowMemory, DeleteFile, InitSucceeds, InitFails, OpenSucceeds,
     LoadFails, ReadChunk, CheckPause, SavePosition, ReadEnd
<1> QED BY <1>4, <1>5, <1>6, <1>7, <1>8

LEMMA ThreadsStep ==
  ASSUME TypeOK, TypeOK', [Next]_vars, ~Crash, JobsReported, ThreadsReported
  PROVE  ThreadsReported'
<1> SUFFICES ASSUME NEW w \in Workers PROVE ThreadReported(thread[w])'
  BY DEF ThreadsReported
<1> DEFINE t == thread[w]
           x == thread'[w]
           Good == /\ x.pc = "open" => x.off = 0
                   /\ x.pc \in {"read", "check"} => x.off <= x.fin
<1>1. t.pc # "idle" => /\ t \in RunningThreads /\ t.req \in Requests
                       /\ t.fin \in Nat /\ t.off \in Nat
  BY RunningType DEF TypeOK
<1>2. ThreadReported(t) BY DEF ThreadsReported
<1>3. ASSUME Good,
             ASSUME NEW u, x.pc \in {"open", "save"}, x.fin >= FileLen, u = UrlOf[x.req]
             PROVE  Reported(u)'
      PROVE  ThreadReported(thread[w])'
  BY <1>3 DEF ThreadReported, EndReported, Reported
<1>4. CASE x.pc = "idle" BY <1>3, <1>4
<1>5. CASE x.pc = t.pc /\ t.pc # "idle"
           /\ x.req = t.req /\ x.fin = t.fin /\ x.off = t.off
  <2>1. Good BY <1>2, <1>5 DEF ThreadReported
  <2>2. ASSUME NEW u, x.pc \in {"open", "save"}, x.fin >= FileLen, u = UrlOf[x.req]
        PROVE  Reported(u)'
    <3>1. Reported(u) BY <1>2, <1>5, <2>2 DEF ThreadReported, EndReported
    <3> QED BY <3>1, ReportedStays
  <2> QED BY <1>3, <2>1, <2>2
<1>6. CASE TakeJob(w)
  <2> DEFINE job == Head(pool)
  <2>1. /\ x.pc = IF job.kind = "init" THEN "init" ELSE "open"
        /\ x.req = job.req /\ x.fin = job.from /\ x.off = 0 /\ job \in Jobs
    BY <1>6, TakesJob
  <2>2. ASSUME NEW u, x.pc \in {"open", "save"}, x.fin >= FileLen, u = UrlOf[x.req]
        PROVE  Reported(u)'
    <3>1. 1 \in 1..Len(pool) /\ pool[1] = job
      BY <1>6, HeadTailProperties, LenProperties DEF TakeJob, TypeOK
    <3>2. pool[1].kind = "load" /\ u = UrlOf[pool[1].req] /\ pool[1].from >= FileLen
      BY <2>1, <2>2, <3>1 DEF Jobs
    <3>3. Reported(u) BY <3>1, <3>2 DEF JobsReported, EndReported
    <3> QED BY <3>3, ReportedStays
  <2> QED BY <1>3, <2>1, <2>2
<1>7. CASE OpenSucceeds(w)
  <2>1. /\ t.pc = "open" /\ x.pc = "read" /\ x.req = t.req /\ x.fin = t.fin
        /\ x.off = IF HonoursRange THEN t.off + t.fin ELSE t.off
    BY <1>7, Opens
  <2>2. t.off = 0 BY <1>2, <2>1 DEF ThreadReported
  <2>3. Good BY <1>1, <2>1, <2>2
  <2> QED BY <1>3, <2>1, <2>3
<1>8. CASE ReadChunk(w)
  <2>1. /\ t.pc = "read" /\ x.pc = "check" /\ x.req = t.req
        /\ x.fin = t.fin + 1 /\ x.off = t.off + 1
    BY <1>8, Reads
  <2>2. t.off <= t.fin BY <1>2, <2>1 DEF ThreadReported
  <2>3. Good BY <1>1, <2>1, <2>2
  <2> QED BY <1>3, <2>1, <2>3
<1>9. CASE CheckPause(w)
  <2>1. /\ t.pc = "check" /\ x.pc = (IF t.req \in paused THEN "save" ELSE "read")
        /\ x.req = t.req /\ x.fin = t.fin /\ x.off = t.off
    BY <1>9, Checks
  <2>2. Good BY <1>2, <2>1 DEF ThreadReported
  <2>3. ASSUME NEW u, x.pc \in {"open", "save"}, x.fin >= FileLen, u = UrlOf[x.req]
        PROVE  Reported(u)'
    <3>1. Notify(t.req, t.fin) BY <1>9, <2>1, <2>3 DEF CheckPause
    <3> QED BY <1>1, <2>1, <2>3, <3>1, NotifyReports
  <2> QED BY <1>3, <2>2, <2>3
<1>10. CASE InitSucceeds(w) \/ InitFails(w) \/ LoadFails(w) \/ SavePosition(w) \/ ReadEnd(w)
  <2>1. x.pc = "idle"
    BY <1>10 DEF InitSucceeds, InitFails, LoadFails, SavePosition, ReadEnd, Become,
       TypeOK, IdleThread
  <2> QED BY <1>4, <2>1
<1> QED BY <1>4, <1>5, <1>6, <1>7, <1>8, <1>9, <1>10, ThreadStays DEF Worker

\* Where tasks come from and where they go.
LEMMA TasksChange ==
  ASSUME TypeOK, [Next]_vars, ~Crash, NEW y
  PROVE  /\ Has(tasks', y) => Has(tasks, y) \/ \E r \in Requests : y = r /\ HandleInit(r)
         /\ Has(tasks, y) => \/ Has(tasks', y)
                             \/ \E u \in Urls : UrlOf[y] = u /\ HandleFinished(u)
         /\ \A r \in Requests : HandleInit(r) => Has(tasks', r)
<1> USE DEF managerVars, persistentVars, budgetVars
<1>0. tasks \in Seq(Requests) BY DEF TypeOK
<1>1. ASSUME NEW r \in Requests, HandleInit(r)
      PROVE  Has(tasks', y) <=> Has(tasks, y) \/ y = r
  <2>1. tasks' = Append(tasks, r) BY <1>1 DEF HandleInit
  <2> QED BY <1>0, <2>1, HasAppend
<1>2. ASSUME NEW r \in Requests, HandleInit(r) PROVE Has(tasks', r)
  <2>1. tasks' = Append(tasks, r) BY <1>2 DEF HandleInit
  <2> QED BY <1>0, <2>1, HasAppend
<1>3. ASSUME NEW u \in Urls, HandleFinished(u)
      PROVE  /\ Has(tasks', y) => Has(tasks, y)
             /\ Has(tasks, y) => Has(tasks', y) \/ UrlOf[y] = u
  <2>1. CASE tasks' = tasks BY <2>1
  <2>2. ASSUME NEW i \in 1..Len(tasks), IsFirst(i, u),
               tasks' = SubSeq(tasks, 1, i - 1) \o SubSeq(tasks, i + 1, Len(tasks))
        PROVE  /\ Has(tasks', y) => Has(tasks, y)
               /\ Has(tasks, y) => Has(tasks', y) \/ UrlOf[y] = u
    <3>1. UrlOf[tasks[i]] = u BY <2>2 DEF IsFirst
    <3>2. tasks' = Without(tasks, i) BY <2>2 DEF Without
    <3>3. /\ Has(tasks, y) => Has(tasks', y) \/ y = tasks[i]
          /\ Has(tasks', y) => Has(tasks, y)
      BY <1>0, <3>2, HasWithout
    <3> QED BY <3>1, <3>3
  <2> QED BY <1>3, <2>1, <2>2 DEF HandleFinished
<1>4. \/ tasks' = tasks
      \/ (\E r \in Requests : HandleInit(r)) \/ (\E u \in Urls : HandleFinished(u))
  BY DEF Next, vars, Handler, Worker, StartDownloadBound, StartDownloadUnbound,
     ServiceConnected, HandleBindSuc, DrainPending, DrainDone, HandleProgress,
     ReceiveFinished, PauseDownload, LowMemory, DeleteFile, TakeJob, InitSucceeds,
     InitFails, OpenSucceeds, LoadFails, ReadChunk, CheckPause, SavePosition, ReadEnd
<1> QED BY <1>1, <1>2, <1>3, <1>4

LEMMA TasksStep ==
  ASSUME TypeOK, TypeOK', [Next]_vars, ~Crash, ~MayFail, ThreadsReported, TasksLoad
  PROVE  TasksLoad'
<1> SUFFICES ASSUME NEW r \in Requests, Has(tasks', r)
             PROVE  Reported(UrlOf[r])' \/ r \in paused' \/ Loads(r)'
  BY DEF TasksLoad, Reported, Loads
<1>1. CASE HandleInit(r) BY <1>1, LaunchLoads DEF HandleInit
<1>2. CASE Has(tasks, r)
  <2>1. Reported(UrlOf[r]) \/ r \in paused \/ Loads(r) BY <1>2 DEF TasksLoad
  <2>2. CASE Reported(UrlOf[r]) BY <2>2, ReportedStays
  <2>3. CASE r \in paused BY <2>3, PauseStays
  <2>4. CASE Loads(r) BY <2>4, LoadsStay
  <2> QED BY <2>1, <2>2, <2>3, <2>4
<1> QED BY <1>1, <1>2, TasksChange

LEMMA CalledStays ==
  ASSUME TypeOK, TypeOK', [Next]_vars, NEW u, Called(u) PROVE Called(u)'
<1>1. PICK s \in Requests : UrlOf[s] = u /\ calls[s] > 0 BY DEF Called
<1>2. calls[s] \in Nat /\ calls'[s] \in Nat /\ calls'[s] >= calls[s]
  BY CallsGrow DEF TypeOK
<1>3. calls'[s] > 0 BY <1>1, <1>2
<1> QED BY <1>1, <1>3 DEF Called

LEMMA LeavesStep ==
  ASSUME TypeOK, TypeOK', [Next]_vars, ~Crash, LeavesCalled PROVE LeavesCalled'
<1> USE DEF managerVars, persistentVars, budgetVars
<1> SUFFICES ASSUME NEW u \in Urls, bcasts'[u] > 0 \/ Has(looper', FinishedMsg(u))
             PROVE  Called(u)'
  BY DEF LeavesCalled, Called
<1>1. CASE bcasts[u] > 0 \/ Has(looper, FinishedMsg(u))
  BY <1>1, CalledStays DEF LeavesCalled
<1>2. ASSUME NEW r \in Requests, HandleProgress(r)
      PROVE  Called(u)' \/ (bcasts'[u] = bcasts[u] /\ looper' = Tail(looper) /\ looper # <<>>)
  <2>1. CASE u = UrlOf[r]
    <3>1. calls'[r] > 0 BY <1>2 DEF HandleProgress, TypeOK
    <3> QED BY <2>1, <3>1 DEF Called
  <2>2. CASE u # UrlOf[r] BY <1>2, <2>2 DEF HandleProgress, Dispatch, TypeOK
  <2> QED BY <2>1, <2>2
<1>3. ASSUME NEW v \in Urls, ReceiveFinished(v) PROVE Called(u)'
  <2>1. /\ bcasts[v] > 0 /\ looper' = Append(looper, FinishedMsg(v))
        /\ looper \in Seq(Messages) /\ bcasts[u] \in Nat
        /\ bcasts'[u] = IF u = v THEN bcasts[u] - 1 ELSE bcasts[u]
    BY <1>3 DEF ReceiveFinished, TypeOK
  <2>2. Has(looper', FinishedMsg(u)) => Has(looper, FinishedMsg(u)) \/ FinishedMsg(u) = FinishedMsg(v)
    BY <2>1, MessageTypes, HasAppend
  <2>3. FinishedMsg(u) = FinishedMsg(v) => u = v BY DEF FinishedMsg
  <2> QED BY <1>1, <2>1, <2>2, <2>3
<1>4. CASE bcasts' = bcasts /\ looper' = looper BY <1>1, <1>4
<1>5. CASE bcasts'[u] = bcasts[u] /\ looper # <<>> /\ looper' = Tail(looper)
  <2>1. Has(looper', FinishedMsg(u)) => Has(looper, FinishedMsg(u))
    BY <1>5, HasTail DEF TypeOK
  <2> QED BY <1>1, <1>5, <2>1
<1>6. ASSUME NEW m \in Messages, bcasts' = bcasts, looper' = Append(looper, m),
             m # FinishedMsg(u)
      PROVE  Called(u)'
  <2>1. Has(looper', FinishedMsg(u)) => Has(looper, FinishedMsg(u))
    BY <1>6, HasAppend DEF TypeOK
  <2> QED BY <1>1, <1>6, <2>1
<1>7. CASE ServiceConnected
  <2>1. BindSuc # FinishedMsg(u) BY DEF BindSuc, FinishedMsg
  <2> QED BY <1>6, <1>7, <2>1, MessageTypes DEF ServiceConnected
<1>8. ASSUME NEW w \in Workers, Worker(w) PROVE Called(u)'
  <2>1. thread[w].pc # "idle" => thread[w].req \in Requests
    BY RunningType DEF TypeOK
  <2>2. \A r : InitMsg(r) # FinishedMsg(u) /\ ProgressMsg(r) # FinishedMsg(u)
    BY MessagesDiffer
  <2>3. CASE InitSucceeds(w)
    BY <1>6, <2>1, <2>2, <2>3, MessageTypes DEF InitSucceeds, At
  <2>4. CASE ReadChunk(w) \/ CheckPause(w) \/ ReadEnd(w)
    <3>1. thread[w].req \in Requests
      BY <2>1, <2>4 DEF ReadChunk, CheckPause, ReadEnd, At
    <3>2. /\ looper' \in {looper, Append(looper, ProgressMsg(thread[w].req))}
          /\ bcasts' = bcasts
      BY <2>4 DEF ReadChunk, CheckPause, ReadEnd, Notify
    <3> QED BY <1>4, <1>6, <2>2, <3>1, <3>2, MessageTypes
  <2> QED
    BY <1>4, <1>8, <2>3, <2>4
    DEF Worker, TakeJob, InitFails, OpenSucceeds, LoadFails, SavePosition
<1>9. \/ bcasts' = bcasts /\ looper' = looper
      \/ bcasts' = bcasts /\ looper # <<>> /\ looper' = Tail(looper)
      \/ ServiceConnected
      \/ (\E r \in Requests : HandleProgress(r)) \/ (\E v \in Urls : ReceiveFinished(v))
      \/ (\E w \in Workers : Worker(w))
  BY DEF Next, vars, Handler, StartDownloadBound, StartDownloadUnbound, HandleBindSuc,
     DrainPending, DrainDone, HandleInit, HandleFinished, PauseDownload, LowMemory,
     DeleteFile, Dispatch
<1> QED BY <1>2, <1>3, <1>4, <1>5, <1>7, <1>8, <1>9

\* What is pending leaves the list to the service only.
LEMMA PendingStays ==
  ASSUME TypeOK, [Next]_vars, ~Crash, NEW y, Has(pending, y)
  PROVE  Has(pending', y) \/ (DrainPending /\ y = pending[Len(pending)])
<1> USE DEF managerVars, persistentVars, budgetVars
<1>1. CASE pending' = pending BY <1>1
<1>2. CASE DrainPending BY <1>2, DrainsRequest
<1>3. ASSUME NEW r \in Requests, StartDownloadUnbound(r) PROVE Has(pending', y)
  <2>1. pending' = pending \/ pending' = Append(pending, r)
    BY <1>3 DEF StartDownloadUnbound, EnlistPending
  <2>2. pending \in Seq(Requests) BY DEF TypeOK
  <2>3. CASE pending' = Append(pending, r)
    <3>1. Has(Append(pending, r), y) <=> Has(pending, y) \/ y = r
      BY <2>2, HasAppend
    <3> QED BY <2>3, <3>1
  <2> QED BY <2>1, <2>3
<1>4. \/ pending' = pending \/ DrainPending
      \/ \E r \in Requests : StartDownloadUnbound(r)
  BY DEF Next, vars, Handler, Worker, StartDownloadBound, ServiceConnected,
     HandleBindSuc, DrainDone, HandleInit, HandleProgress, HandleFinished,
     ReceiveFinished, PauseDownload, LowMemory, DeleteFile, TakeJob, InitSucceeds,
     InitFails, OpenSucceeds, LoadFails, ReadChunk, CheckPause, SavePosition, ReadEnd
<1> QED BY <1>1, <1>2, <1>3, <1>4

\* The service knows the url of every request it is handed.
LEMMA ServiceKeeps ==
  ASSUME TypeOK, NEW r \in Requests, ServiceDownload(r), tasks' = tasks,
         NEW u, u = UrlOf[r]
  PROVE  Kept(u)'
<1>1. CASE Begins(r)' BY <1>1 DEF Kept
<1>2. ASSUME NEW s \in Requests, UrlOf[s] = UrlOf[r], Has(tasks, s) PROVE Kept(u)'
  BY <1>2 DEF Kept
<1> QED BY <1>1, <1>2, ServiceBegins

LEMMA KeptStep ==
  ASSUME TypeOK, TypeOK', [Next]_vars, ~Crash, ~MayFail, main' # "blocked",
         LeavesCalled, AskedKept
  PROVE  AskedKept'
<1> USE DEF managerVars, persistentVars, budgetVars
<1> SUFFICES ASSUME NEW r \in issued', NEW u, u = UrlOf[r] PROVE Kept(u)'
  BY DEF AskedKept, Kept
<1>0. r \in Requests BY DEF TypeOK
<1>1. CASE r \in issued
  <2>1. PICK s \in Requests :
          UrlOf[s] = u /\ (Has(pending, s) \/ Begins(s) \/ Has(tasks, s) \/ calls[s] > 0)
    BY <1>1 DEF AskedKept, Kept
  <2>2. CASE Has(pending, s)
    <3>1. CASE Has(pending', s) BY <2>1, <3>1 DEF Kept
    <3>2. CASE DrainPending /\ s = pending[Len(pending)]
      <4>1. ServiceDownload(s) /\ tasks' = tasks BY <3>2 DEF DrainPending
      <4> QED BY <2>1, <4>1, ServiceKeeps
    <3> QED BY <2>2, <3>1, <3>2, PendingStays
  <2>3. CASE Begins(s)
    <3>1. CASE Begins(s)' BY <2>1, <3>1 DEF Kept
    <3>2. CASE HandleInit(s)
      <4>1. Has(tasks', s) BY <3>2, TasksChange
      <4> QED BY <2>1, <4>1 DEF Kept
    <3> QED BY <2>3, <3>1, <3>2, BeginsStay
  <2>4. CASE Has(tasks, s)
    <3>1. CASE Has(tasks', s) BY <2>1, <3>1 DEF Kept
    <3>2. ASSUME NEW v \in Urls, UrlOf[s] = v, HandleFinished(v) PROVE Kept(u)'
      <4>1. looper \in Seq(Messages) /\ looper # <<>> /\ Head(looper) = FinishedMsg(v)
        BY <3>2 DEF HandleFinished, Dispatch, TypeOK
      <4>2. Has(looper, FinishedMsg(v)) BY <4>1, HasTail
      <4>3. Called(v) BY <4>2 DEF LeavesCalled
      <4>4. Called(v)' BY <4>3, CalledStays
      <4> QED BY <2>1, <3>2, <4>4 DEF Called, Kept
    <3> QED BY <2>4, <3>1, <3>2, TasksChange
  <2>5. CASE calls[s] > 0
    <3>1. calls[s] \in Nat /\ calls'[s] \in Nat /\ calls'[s] >= calls[s]
      BY CallsGrow DEF TypeOK
    <3>2. calls'[s] > 0 BY <2>5, <3>1
    <3> QED BY <2>1, <3>2 DEF Kept
  <2> QED BY <2>1, <2>2, <2>3, <2>4, <2>5
<1>2. CASE StartDownloadBound(r)
  <2>1. ServiceDownload(r) /\ tasks' = tasks BY <1>2 DEF StartDownloadBound
  <2> QED BY <1>0, <2>1, ServiceKeeps
<1>3. CASE StartDownloadUnbound(r)
  <2>1. \/ pending' = Append(pending, r)
        \/ IsPending(u) /\ pending' = pending
    BY <1>3 DEF StartDownloadUnbound, EnlistPending
  <2>2. pending \in Seq(Requests) BY DEF TypeOK
  <2>3. CASE pending' = Append(pending, r)
    <3>1. Has(pending', r) BY <1>0, <2>2, <2>3, HasAppend
    <3> QED BY <1>0, <3>1 DEF Kept
  <2>4. CASE IsPending(u) /\ pending' = pending
    <3>1. PICK i \in 1..Len(pending) : UrlOf[pending[i]] = u BY <2>4 DEF IsPending
    <3>2. pending[i] \in Requests /\ Has(pending', pending[i])
      BY <2>2, <2>4 DEF Has
    <3> QED BY <3>1, <3>2 DEF Kept
  <2> QED BY <2>1, <2>3, <2>4
<1>4. \/ issued' = issued
      \/ \E q \in Requests : /\ issued' = issued \cup {q}
                             /\ StartDownloadBound(q) \/ StartDownloadUnbound(q)
  BY DEF Next, vars, Handler, Worker, StartDownloadBound, StartDownloadUnbound,
     ServiceConnected, HandleBindSuc, DrainPending, DrainDone, HandleInit,
     HandleProgress, HandleFinished, ReceiveFinished, PauseDownload, LowMemory,
     DeleteFile, TakeJob, InitSucceeds, InitFails, OpenSucceeds, LoadFails, ReadChunk,
     CheckPause, SavePosition, ReadEnd
<1> QED BY <1>1, <1>2, <1>3, <1>4

\* The bind that the pending requests wait for is to come, has come, or drains.
LEMMA AwaitStep ==
  ASSUME TypeOK, [Next]_vars, ~Crash, main' # "blocked", PendingAwaits
  PROVE  PendingAwaits'
<1> USE DEF managerVars, persistentVars, budgetVars
<1> SUFFICES ASSUME pending' # <<>> PROVE BindAwaited'
  BY DEF PendingAwaits
<1>1. conns \in Nat BY DEF TypeOK
<1>2. CASE DrainPending BY <1>2 DEF DrainPending, BindAwaited
<1>3. ASSUME NEW r \in Requests, StartDownloadUnbound(r) PROVE BindAwaited'
  <2>1. conns' > 0 BY <1>1, <1>3 DEF StartDownloadUnbound
  <2> QED BY <2>1 DEF BindAwaited
<1>4. CASE ServiceConnected
  <2>1. looper' = Append(looper, BindSuc) /\ looper \in Seq(Messages)
    BY <1>4 DEF ServiceConnected, TypeOK
  <2>2. Has(looper', BindSuc) BY <2>1, MessageTypes, HasAppend
  <2> QED BY <2>2 DEF BindAwaited
<1>5. CASE HandleBindSuc BY <1>5 DEF HandleBindSuc, BindAwaited
<1>6. CASE pending' = pending /\ conns' = conns /\ (main = "drain" => main' = "drain")
           /\ ~HandleBindSuc
  <2>1. BindAwaited BY <1>6 DEF PendingAwaits
  <2>2. CASE conns > 0 BY <1>6, <2>2 DEF BindAwaited
  <2>3. CASE main = "drain" BY <1>6, <2>3 DEF BindAwaited
  <2>4. CASE Has(looper, BindSuc)
    <3>1. /\ \A r \in Requests : BindSuc # InitMsg(r) /\ BindSuc # ProgressMsg(r)
          /\ \A v \in Urls : BindSuc # FinishedMsg(v)
      BY MessagesDiffer DEF BindSuc, FinishedMsg
    <3>2. Has(looper', BindSuc) BY <1>6, <2>4, <3>1, MessageStays
    <3> QED BY <3>2 DEF BindAwaited
  <2> QED BY <2>1, <2>2, <2>3, <2>4 DEF BindAwaited
<1>7. \/ DrainPending \/ ServiceConnected \/ HandleBindSuc
      \/ (\E r \in Requests : StartDownloadUnbound(r))
      \/ pending' = pending /\ conns' = conns /\ (main = "drain" => main' = "drain")
  BY DEF Next, vars, Handler, Worker, StartDownloadBound, DrainDone, HandleInit,
     HandleProgress, HandleFinished, ReceiveFinished, PauseDownload, LowMemory,
     DeleteFile, TakeJob, InitSucceeds, InitFails, OpenSucceeds, LoadFails, ReadChunk,
     CheckPause, SavePosition, ReadEnd, Dispatch
<1> QED BY <1>2, <1>3, <1>4, <1>5, <1>6, <1>7

\* A process that has died does not come back, and a main thread that waits
\* for the permit does not go on.
LEMMA AliveBefore ==
  ASSUME TypeOK, [Next]_vars, Alive' PROVE Alive /\ ~Crash
<1> USE DEF managerVars, persistentVars, budgetVars
<1>1. crashes \in Nat /\ crashes' = 0 /\ main' # "blocked"
  BY BoundAssumption DEF TypeOK, Alive
<1>2. ~Crash
  <2> SUFFICES ASSUME Crash PROVE FALSE
    OBVIOUS
  <2> QED BY <1>1 DEF Crash
<1>3. crashes' = crashes /\ (main = "blocked" => main' = "blocked")
  BY <1>2 DEF Next, vars, Handler, Worker, StartDownloadBound, StartDownloadUnbound,
     ServiceConnected, HandleBindSuc, DrainPending, DrainDone, HandleInit,
     HandleProgress, HandleFinished, ReceiveFinished, PauseDownload, LowMemory,
     DeleteFile, TakeJob, InitSucceeds, InitFails, OpenSucceeds, LoadFails, ReadChunk,
     CheckPause, SavePosition, ReadEnd, Dispatch
<1> QED BY <1>1, <1>2, <1>3 DEF Alive

LEMMA JStep ==
  ASSUME ~MayFail, TypeOK, TypeOK', [Next]_vars, JInv PROVE JInv'
<1> SUFFICES ASSUME Alive' PROVE JInv'
  BY DEF JInv
<1>1. Alive /\ ~Crash BY AliveBefore
<1>2. /\ RowsReported /\ JobsReported /\ ThreadsReported
      /\ TasksLoad /\ LeavesCalled /\ AskedKept /\ PendingAwaits
  BY <1>1 DEF JInv
<1>3. main' # "blocked" BY DEF Alive
<1>4. RowsReported' BY <1>1, <1>2, RowsStep
<1>5. JobsReported' BY <1>1, <1>2, JobsStep
<1>6. ThreadsReported' BY <1>1, <1>2, ThreadsStep
<1>7. TasksLoad' BY <1>1, <1>2, TasksStep
<1>8. LeavesCalled' BY <1>1, <1>2, LeavesStep
<1>9. AskedKept' BY <1>1, <1>2, <1>3, KeptStep
<1>10. PendingAwaits' BY <1>1, <1>2, <1>3, AwaitStep
<1> QED BY <1>4, <1>5, <1>6, <1>7, <1>8, <1>9, <1>10 DEF JInv

\* The invariant keeps every url that was asked for under way.
LEMMA NothingLostInv ==
  ASSUME TypeOK, JInv PROVE NothingLost
<1> SUFFICES ASSUME Alive, NEW r \in issued
             PROVE  \E s \in Requests :
                      UrlOf[s] = UrlOf[r] /\ (calls[s] > 0 \/ UnderWay(s))
  BY DEF NothingLost, Alive
<1>1. TasksLoad /\ AskedKept /\ PendingAwaits BY DEF JInv
<1>2. PICK s \in Requests :
        /\ UrlOf[s] = UrlOf[r]
        /\ Has(pending, s) \/ Begins(s) \/ Has(tasks, s) \/ calls[s] > 0
  BY <1>1 DEF AskedKept, Kept
<1>3. CASE calls[s] > 0 BY <1>2, <1>3
<1>4. CASE Has(pending, s)
  <2>1. pending # <<>> BY <1>4, EmptySeq DEF Has
  <2>2. UnderWay(s) BY <1>1, <1>4, <2>1 DEF PendingAwaits, UnderWay
  <2> QED BY <1>2, <2>2
<1>5. CASE Begins(s)
  <2>1. UnderWay(s) BY <1>5 DEF Begins, UnderWay
  <2> QED BY <1>2, <2>1
<1>6. CASE Has(tasks, s)
  <2>1. Reported(UrlOf[s]) \/ s \in paused \/ Loads(s) BY <1>1, <1>6 DEF TasksLoad
  <2>2. CASE Reported(UrlOf[s])
    <3>1. PICK q \in Requests :
            UrlOf[q] = UrlOf[s] /\ (calls[q] > 0 \/ Has(looper, ProgressMsg(q)))
      BY <2>2 DEF Reported
    <3>2. calls[q] > 0 \/ UnderWay(q) BY <3>1 DEF UnderWay
    <3> QED BY <1>2, <3>1, <3>2
  <2>3. CASE s \in paused
    <3>1. UnderWay(s) BY <1>6, <2>3 DEF UnderWay
    <3> QED BY <1>2, <3>1
  <2>4. CASE Loads(s)
    <3>1. UnderWay(s) BY <2>4 DEF Loads, UnderWay
    <3> QED BY <1>2, <3>1
  <2> QED BY <2>1, <2>2, <2>3, <2>4
<1> QED BY <1>2, <1>3, <1>4, <1>5, <1>6

\* DownloadManager.startDownload to onDownloadFinished: until a url that was
\* asked for is reported, it waits for a bind, has a job, a thread or a message,
\* or is paused, as long as the process lives and connections do not fail.
THEOREM NothingLostCorrect == ~MayFail => (Spec => []NothingLost)
<1> SUFFICES ASSUME ~MayFail PROVE Spec => []NothingLost
  OBVIOUS
<1>1. Init => JInv
  <2> SUFFICES ASSUME Init PROVE JInv
    OBVIOUS
  <2>1. /\ looper = <<>> /\ pool = <<>> /\ pending = <<>> /\ tasks = <<>>
        /\ issued = {} /\ thread = [w \in Workers |-> IdleThread]
        /\ rows = [u \in Urls |-> NoRow] /\ bcasts = [u \in Urls |-> 0]
    BY DEF Init
  <2>2. \A y : ~Has(<<>>, y) BY EmptySeq DEF Has
  <2>3. RowsReported
    <3>1. ~(-1 >= FileLen) BY LengthAssumption
    <3> QED BY <2>1, <3>1 DEF RowsReported, EndReported, NoRow
  <2>4. JobsReported BY <2>1, EmptySeq DEF JobsReported
  <2>5. ThreadsReported BY <2>1 DEF ThreadsReported, ThreadReported, IdleThread
  <2>6. TasksLoad BY <2>1, <2>2 DEF TasksLoad
  <2>7. LeavesCalled BY <2>1, <2>2 DEF LeavesCalled
  <2>8. AskedKept /\ PendingAwaits BY <2>1 DEF AskedKept, PendingAwaits
  <2> QED BY <2>3, <2>4, <2>5, <2>6, <2>7, <2>8 DEF JInv
<1>2. TypeOK /\ TypeOK' /\ JInv /\ [Next]_vars => JInv'
  BY JStep
<1>3. TypeOK /\ JInv => NothingLost
  BY NothingLostInv
<1> QED BY <1>1, <1>2, <1>3, TypeCorrect, PTL DEF Spec

-----------------------------------------------------------------------------
(* One task a request.                                                     *)

\* Where a request can be before its task is made, counted.
InitJobsOf(r) == {j \in Jobs : j.kind = "init" /\ j.req = r}
InitWorks(r) == Count(pool, InitJobsOf(r))
Initing(r) == {w \in Workers : thread[w].pc = "init" /\ thread[w].req = r}
Begun(r) == Waits(r) + InitWorks(r) + Cardinality(Initing(r)) + Inits(r)

\* What shows that its task has been made.
Past(r) ==
  \/ Has(tasks, r) \/ Has(looper, ProgressMsg(r)) \/ calls[r] > 0
  \/ \E i \in 1..Len(pool) : pool[i].kind = "load" /\ pool[i].req = r
  \/ \E w \in Workers : thread[w].pc \in FileOpen /\ thread[w].req = r

\* A request begins once, and not again when its task has been made.
BeginsOnce(r) ==
  /\ IsFiniteSet(Initing(r))
  /\ Begun(r) <= IF r \in issued THEN 1 ELSE 0
  /\ Past(r) => r \in issued /\ Begun(r) = 0
ListedOnce == \A i, j \in 1..Len(tasks) : tasks[i] = tasks[j] => i = j

OneTask == ListedOnce /\ \A r \in Requests : BeginsOnce(r)

\* The counts are numbers.
LEMMA BegunType ==
  ASSUME TypeOK, NEW r \in Requests, IsFiniteSet(Initing(r))
  PROVE  /\ Waits(r) \in Nat /\ InitWorks(r) \in Nat /\ Inits(r) \in Nat
         /\ Cardinality(Initing(r)) \in Nat
<1>1. looper \in Seq(Messages) /\ pool \in Seq(Jobs) /\ pending \in Seq(Requests)
  BY DEF TypeOK
<1> QED BY <1>1, CountType, FS_CardinalityType DEF Waits, InitWorks, Inits

LEMMA BegunTypeNext ==
  ASSUME TypeOK', NEW r \in Requests, IsFiniteSet(Initing(r)')
  PROVE  /\ Waits(r)' \in Nat /\ InitWorks(r)' \in Nat /\ Inits(r)' \in Nat
         /\ Cardinality(Initing(r))' \in Nat
<1>1. looper' \in Seq(Messages) /\ pool' \in Seq(Jobs) /\ pending' \in Seq(Requests)
  BY DEF TypeOK
<1>2. /\ Waits(r)' = Count(pending', {r})
      /\ InitWorks(r)' = Count(pool', InitJobsOf(r))
      /\ Inits(r)' = Count(looper', {InitMsg(r)})
      /\ Cardinality(Initing(r))' = Cardinality(Initing(r)')
  BY Zenon DEF Waits, InitWorks, Inits, InitJobsOf
<1> QED BY <1>1, <1>2, CountType, FS_CardinalityType

\* An InitThread is the only job that begins a request.
LEMMA GivesBegin ==
  ASSUME TypeOK, NEW job \in Jobs, pool' = Append(pool, job), NEW r \in Requests
  PROVE  InitWorks(r)' = InitWorks(r) + (IF job \in InitJobsOf(r) THEN 1 ELSE 0)
<1>1. pool \in Seq(Jobs)
  BY DEF TypeOK
<1>2. Count(Append(pool, job), InitJobsOf(r))
        = Count(pool, InitJobsOf(r)) + (IF job \in InitJobsOf(r) THEN 1 ELSE 0)
  BY <1>1, CountAppend
<1>3. InitWorks(r)' = Count(Append(pool, job), InitJobsOf(r))
  BY Zenon DEF InitWorks, InitJobsOf
<1> QED BY <1>2, <1>3 DEF InitWorks

LEMMA LaunchBegins ==
  ASSUME TypeOK, NEW p \in Requests, LaunchThread(p), NEW r \in Requests
  PROVE  InitWorks(r)' = InitWorks(r)
<1>1. PICK n \in Nat : pool' = Append(pool, LoadJob(p, n)) /\ LoadJob(p, n) \in Jobs
  BY LaunchLoads
<1>2. LoadJob(p, n) \notin InitJobsOf(r)
  BY DEF LoadJob, InitJobsOf
<1>3. InitWorks(r) \in Nat
  BY CountType DEF InitWorks, TypeOK
<1> QED BY <1>1, <1>2, <1>3, GivesBegin

LEMMA ServesBegin ==
  ASSUME TypeOK, NEW p \in Requests, ServiceDownload(p), NEW r \in Requests
  PROVE  InitWorks(r)' \in {InitWorks(r), InitWorks(r) + (IF p = r THEN 1 ELSE 0)}
<1>1. CASE pool' = Append(pool, InitJob(p))
  <2>1. InitJob(p) \in Jobs /\ (InitJob(p) \in InitJobsOf(r) <=> p = r)
    BY DEF InitJob, Jobs, InitJobsOf
  <2> QED BY <1>1, <2>1, GivesBegin
<1>2. CASE pool' = pool
  <2>1. InitWorks(r)' = InitWorks(r)
    BY <1>2, Zenon DEF InitWorks, InitJobsOf
  <2> QED BY <2>1
<1>3. ASSUME NEW s \in Requests, LaunchThread(s) PROVE InitWorks(r)' = InitWorks(r)
  BY <1>3, LaunchBegins
<1> QED BY <1>1, <1>2, <1>3, ServiceBegins

\* A worker that becomes another thread changes what is beginning by that.
LEMMA TurnsBegin ==
  ASSUME NEW w \in Workers, \A v \in Workers \ {w} : thread'[v] = thread[v],
         NEW r \in Requests, IsFiniteSet(Initing(r))
  PROVE  LET t == thread'[w]
         IN /\ IsFiniteSet(Initing(r)')
            /\ Cardinality(Initing(r))' + (IF At(w, "init") /\ thread[w].req = r THEN 1 ELSE 0)
                 = Cardinality(Initing(r)) + (IF t.pc = "init" /\ t.req = r THEN 1 ELSE 0)
<1> DEFINE t == thread'[w]
<1>1. \A v \in Workers \ {w} : thread'[v] = thread[v]
  OBVIOUS
<1>2. Initing(r)' = {v \in Workers : thread'[v].pc = "init" /\ thread'[v].req = r}
  BY DEF Initing
<1>3. /\ Initing(r) \ {w} = Initing(r)' \ {w}
      /\ w \in Initing(r) <=> At(w, "init") /\ thread[w].req = r
      /\ w \in Initing(r)' <=> t.pc = "init" /\ t.req = r
  BY <1>1, <1>2 DEF Initing, At
<1>4. /\ IsFiniteSet(Initing(r)') /\ Cardinality(Initing(r)) \in Nat
      /\ Cardinality(Initing(r)') \in Nat
      /\ Cardinality(Initing(r)') + (IF w \in Initing(r) THEN 1 ELSE 0)
           = Cardinality(Initing(r)) + (IF w \in Initing(r)' THEN 1 ELSE 0)
  BY <1>3, OneChanged
<1> QED BY <1>3, <1>4

-----------------------------------------------------------------------------
\* A worker passes on what begins, or drops it.
LEMMA WorkerBegun ==
  ASSUME TypeOK, TypeOK', NEW w \in Workers, Worker(w),
         NEW r \in Requests, IsFiniteSet(Initing(r))
  PROVE  IsFiniteSet(Initing(r)') /\ Begun(r)' <= Begun(r)
<1> USE DEF managerVars, persistentVars, budgetVars
<1> DEFINE t == thread[w]
           Left(x) ==
             /\ IsFiniteSet(Initing(r)')
             /\ Cardinality(Initing(r))' + (IF t.pc = "init" /\ t.req = r THEN 1 ELSE 0)
                  = Cardinality(Initing(r)) + (IF x.pc = "init" /\ x.req = r THEN 1 ELSE 0)
<1>1. /\ Waits(r) \in Nat /\ InitWorks(r) \in Nat /\ Inits(r) \in Nat
      /\ Cardinality(Initing(r)) \in Nat
  BY BegunType
<1>2. ASSUME NEW x, thread' = [thread EXCEPT ![w] = x] PROVE Left(x)
  <2>1. /\ IsFiniteSet(Initing(r)')
        /\ Cardinality(Initing(r))' + (IF At(w, "init") /\ thread[w].req = r THEN 1 ELSE 0)
             = Cardinality(Initing(r)) + (IF x.pc = "init" /\ x.req = r THEN 1 ELSE 0)
    <3>1. thread'[w] = x /\ \A v \in Workers \ {w} : thread'[v] = thread[v]
      BY <1>2 DEF TypeOK
    <3>2. /\ IsFiniteSet(Initing(r)')
          /\ Cardinality(Initing(r))' + (IF At(w, "init") /\ thread[w].req = r THEN 1 ELSE 0)
               = Cardinality(Initing(r))
                   + (IF thread'[w].pc = "init" /\ thread'[w].req = r THEN 1 ELSE 0)
      BY <3>1, TurnsBegin
    <3> QED BY Zenon, <3>1, <3>2
  <2>2. At(w, "init") <=> t.pc = "init"
    BY DEF At
  <2> QED BY Zenon, <2>1, <2>2
<1>3. ASSUME IsFiniteSet(Initing(r)')
      PROVE  /\ Waits(r)' \in Nat /\ InitWorks(r)' \in Nat /\ Inits(r)' \in Nat
             /\ Cardinality(Initing(r))' \in Nat
  BY <1>3, BegunTypeNext
<1>4. UNCHANGED pending
  BY DEF Worker, TakeJob, InitSucceeds, InitFails, OpenSucceeds, LoadFails, ReadChunk,
     CheckPause, SavePosition, ReadEnd
<1>5. Waits(r)' = Waits(r)
  BY <1>4, Zenon DEF Waits
<1>6. ASSUME UNCHANGED looper PROVE Inits(r)' = Inits(r)
  BY <1>6, Zenon DEF Inits
<1>7. ASSUME UNCHANGED pool PROVE InitWorks(r)' = InitWorks(r)
  BY <1>7, Zenon DEF InitWorks, InitJobsOf
<1>8. IdleThread.pc # "init"
  BY DEF IdleThread
<1>9. t.pc # "idle" => t \in RunningThreads /\ t.req \in Requests /\ t.fin \in Nat
  BY RunningType DEF TypeOK
<1>10. CASE TakeJob(w)
  <2> DEFINE job == Head(pool)
             x == [pc |-> IF job.kind = "init" THEN "init" ELSE "open", req |-> job.req,
                   fin |-> job.from, off |-> 0, orphan |-> FALSE]
  <2>1. pool \in Seq(Jobs) /\ pool # <<>> /\ pool' = Tail(pool)
    BY <1>10 DEF TakeJob, TypeOK
  <2>2. job \in Jobs
    BY <2>1, HeadTailProperties
  <2>3. Count(pool, InitJobsOf(r))
          = Count(Tail(pool), InitJobsOf(r)) + (IF Head(pool) \in InitJobsOf(r) THEN 1 ELSE 0)
    BY <2>1, CountTail
  <2>4. InitWorks(r)' = Count(Tail(pool), InitJobsOf(r))
    BY <2>1, Zenon DEF InitWorks, InitJobsOf
  <2>5. job \in InitJobsOf(r) <=> x.pc = "init" /\ x.req = r
    BY <2>2 DEF InitJobsOf
  <2>6. thread' = [thread EXCEPT ![w] = x] /\ t.pc = "idle"
    BY <1>10 DEF TakeJob, Become, At
  <2>7. Left(x)
    BY <1>2, <2>6
  <2>8. Inits(r)' = Inits(r)
    BY <1>6, <1>10 DEF TakeJob
  <2>9. InitWorks(r) = InitWorks(r)' + (IF x.pc = "init" /\ x.req = r THEN 1 ELSE 0)
    BY <2>3, <2>4, <2>5 DEF InitWorks
  <2>10. Cardinality(Initing(r))'
           = Cardinality(Initing(r)) + (IF x.pc = "init" /\ x.req = r THEN 1 ELSE 0)
    BY <1>1, <1>3, <2>6, <2>7
  <2> HIDE DEF t, job, x
  <2> QED BY <1>1, <1>3, <1>5, <2>7, <2>8, <2>9, <2>10 DEF Begun
<1>11. CASE InitSucceeds(w)
  <2>1. /\ t.pc = "init" /\ thread' = [thread EXCEPT ![w] = IdleThread]
        /\ looper' = Append(looper, InitMsg(t.req)) /\ UNCHANGED pool
    BY <1>11 DEF InitSucceeds, Become, At
  <2>2. t.req \in Requests /\ InitMsg(t.req) \in Messages
    BY <1>9, <2>1, MessageTypes
  <2>3. Inits(r)' = Inits(r) + (IF InitMsg(t.req) = InitMsg(r) THEN 1 ELSE 0)
    BY <2>1, <2>2, Sends
  <2>4. InitMsg(t.req) = InitMsg(r) <=> t.req = r
    BY MessagesDiffer
  <2>5. Left(IdleThread) /\ InitWorks(r)' = InitWorks(r)
    BY <1>2, <1>7, <2>1
  <2> HIDE DEF t
  <2> QED BY <1>1, <1>3, <1>5, <1>8, <2>1, <2>3, <2>4, <2>5 DEF Begun
<1>12. CASE InitFails(w) \/ LoadFails(w) \/ SavePosition(w)
  <2>1. thread' = [thread EXCEPT ![w] = IdleThread] /\ UNCHANGED <<looper, pool>>
    BY <1>12 DEF InitFails, LoadFails, SavePosition, Become
  <2>2. Left(IdleThread) /\ InitWorks(r)' = InitWorks(r) /\ Inits(r)' = Inits(r)
    BY <1>2, <1>6, <1>7, <2>1
  <2> HIDE DEF t
  <2> QED BY <1>1, <1>3, <1>5, <1>8, <2>2 DEF Begun
<1>13. ASSUME NEW x, thread' = [thread EXCEPT ![w] = x], x.pc # "init", t.pc # "init",
              UNCHANGED pool, Inits(r)' = Inits(r)
       PROVE  IsFiniteSet(Initing(r)') /\ Begun(r)' <= Begun(r)
  <2>1. Left(x) /\ InitWorks(r)' = InitWorks(r)
    BY <1>2, <1>7, <1>13
  <2> HIDE DEF t
  <2> QED BY <1>1, <1>3, <1>5, <1>13, <2>1 DEF Begun
<1>14. CASE OpenSucceeds(w)
  <2> DEFINE x == [t EXCEPT !.pc = "read", !.off = IF HonoursRange THEN @ + t.fin ELSE @]
  <2>1. t.pc = "open" /\ thread' = [thread EXCEPT ![w] = x] /\ UNCHANGED <<looper, pool>>
    BY <1>14 DEF OpenSucceeds, Become, At
  <2>2. x.pc = "read"
    BY <1>9, <2>1 DEF RunningThreads
  <2> HIDE DEF x
  <2> QED BY <1>6, <1>13, <2>1, <2>2
<1>15. CASE ReadChunk(w)
  <2> DEFINE x == [t EXCEPT !.pc = "check", !.fin = @ + 1, !.off = @ + 1]
  <2>1. /\ t.pc = "read" /\ thread' = [thread EXCEPT ![w] = x] /\ UNCHANGED pool
        /\ Notify(t.req, t.fin + 1) \/ UNCHANGED looper
    BY <1>15 DEF ReadChunk, Become, At
  <2>2. x.pc = "check" /\ t.req \in Requests /\ t.fin + 1 \in Nat
    BY <1>9, <2>1 DEF RunningThreads
  <2>3. Inits(r)' = Inits(r)
    <3> HIDE DEF t
    <3> QED BY <1>6, <2>1, <2>2, Notifies
  <2> HIDE DEF x
  <2> QED BY <1>13, <2>1, <2>2, <2>3
<1>16. CASE CheckPause(w)
  <2> DEFINE x == [t EXCEPT !.pc = IF t.req \in paused THEN "save" ELSE "read"]
  <2>1. /\ t.pc = "check" /\ thread' = [thread EXCEPT ![w] = x] /\ UNCHANGED pool
        /\ Notify(t.req, t.fin) \/ UNCHANGED looper
    BY <1>16 DEF CheckPause, Goto, At
  <2>2. x.pc # "init" /\ t.req \in Requests /\ t.fin \in Nat
    BY <1>9, <2>1 DEF RunningThreads
  <2>3. Inits(r)' = Inits(r)
    <3> HIDE DEF t
    <3> QED BY <1>6, <2>1, <2>2, Notifies
  <2> HIDE DEF x
  <2> QED BY <1>13, <2>1, <2>2, <2>3
<1>17. CASE ReadEnd(w)
  <2>1. /\ t.pc = "read" /\ thread' = [thread EXCEPT ![w] = IdleThread] /\ UNCHANGED pool
        /\ Notify(t.req, t.fin)
    BY <1>17 DEF ReadEnd, Become, At
  <2>2. t.req \in Requests /\ t.fin \in Nat
    BY <1>9, <2>1
  <2>3. Inits(r)' = Inits(r)
    <3> HIDE DEF t
    <3> QED BY <2>1, <2>2, Notifies
  <2> QED BY <1>8, <1>13, <2>1, <2>3
<1> QED BY <1>10, <1>11, <1>12, <1>14, <1>15, <1>16, <1>17 DEF Worker

\* The main thread hands a request on from the list to the pool, and begins
\* what is asked for; MSG_INIT ends the beginning.
LEMMA MainBegun ==
  ASSUME TypeOK, TypeOK', Next, UNCHANGED thread, ~Crash, ~(\E w \in Workers : Worker(w)),
         NEW r \in Requests, IsFiniteSet(Initing(r))
  PROVE  /\ IsFiniteSet(Initing(r)')
         /\ Begun(r)' <= Begun(r) + (IF r \notin issued /\ r \in issued' THEN 1 ELSE 0)
         /\ HandleInit(r) => Begun(r)' + 1 <= Begun(r)
<1> USE DEF managerVars, persistentVars, budgetVars
<1> DEFINE New == IF r \notin issued /\ r \in issued' THEN 1 ELSE 0
           Goal == /\ Begun(r)' <= Begun(r) + New
                   /\ HandleInit(r) => Begun(r)' + 1 <= Begun(r)
<1>1. /\ Waits(r) \in Nat /\ InitWorks(r) \in Nat /\ Inits(r) \in Nat
      /\ Cardinality(Initing(r)) \in Nat
  BY BegunType
<1>2. Initing(r)' = Initing(r)
  BY DEF Initing
<1>3. /\ Waits(r)' \in Nat /\ InitWorks(r)' \in Nat /\ Inits(r)' \in Nat
      /\ Cardinality(Initing(r))' = Cardinality(Initing(r))
  BY <1>2, BegunTypeNext
<1>4. ASSUME UNCHANGED pending PROVE Waits(r)' = Waits(r)
  BY <1>4, Zenon DEF Waits
<1>5. ASSUME UNCHANGED looper PROVE Inits(r)' = Inits(r)
  BY <1>5, Zenon DEF Inits
<1>6. ASSUME UNCHANGED pool PROVE InitWorks(r)' = InitWorks(r)
  BY <1>6, Zenon DEF InitWorks, InitJobsOf
<1>7. ASSUME HandleInit(r) PROVE looper # <<>> /\ Head(looper) = InitMsg(r)
  BY <1>7 DEF HandleInit, Dispatch
<1>8. ASSUME NEW m \in Messages, looper' = Append(looper, m), m # InitMsg(r)
      PROVE  Inits(r)' = Inits(r)
  BY <1>1, <1>8, Sends
<1>9. ASSUME NEW m, Dispatch(m), m # InitMsg(r)
      PROVE  Inits(r)' = Inits(r) /\ ~HandleInit(r)
  <2>1. Inits(r)' = Inits(r) BY <1>1, <1>3, <1>9, Takes
  <2>2. ~HandleInit(r) BY <1>9 DEF HandleInit, Dispatch
  <2> QED BY <2>1, <2>2
<1>10. ASSUME ~HandleInit(r), Waits(r)' + InitWorks(r)' <= Waits(r) + InitWorks(r) + New,
              Inits(r)' = Inits(r)
       PROVE  Goal
  BY <1>1, <1>3, <1>10 DEF Begun
<1>11. ~(\E p \in Requests : StartDownloadBound(p) \/ StartDownloadUnbound(p))
         => New = 0 \/ issued' # issued
  OBVIOUS
<1>12. New \in Nat
  OBVIOUS
<1>13. ASSUME NEW p \in Requests, StartDownloadBound(p) PROVE Goal
  <2>1. /\ p \notin issued /\ issued' = issued \cup {p} /\ ServiceDownload(p)
        /\ UNCHANGED <<looper, pending, tasks>>
    BY <1>13 DEF StartDownloadBound
  <2>2. New = IF p = r THEN 1 ELSE 0
    BY <2>1
  <2>3. InitWorks(r)' \in {InitWorks(r), InitWorks(r) + (IF p = r THEN 1 ELSE 0)}
    BY <2>1, ServesBegin
  <2>4. ~HandleInit(r)
    <3>1. ASSUME HandleInit(r) PROVE FALSE
      <4>1. issued' = issued BY <3>1 DEF HandleInit
      <4> QED BY <2>1, <4>1
    <3> QED BY <3>1
  <2> HIDE DEF New
  <2>5. Waits(r)' + InitWorks(r)' <= Waits(r) + InitWorks(r) + New
    BY <1>1, <1>3, <1>4, <2>1, <2>2, <2>3
  <2> QED BY <1>5, <1>10, <2>1, <2>4, <2>5
<1>14. ASSUME NEW p \in Requests, StartDownloadUnbound(p) PROVE Goal
  <2>1. /\ p \notin issued /\ issued' = issued \cup {p} /\ UNCHANGED <<looper, pool>>
        /\ pending' = pending \/ pending' = Append(pending, p)
    BY <1>14 DEF StartDownloadUnbound, EnlistPending
  <2>2. New = IF p = r THEN 1 ELSE 0
    BY <2>1
  <2>3. Waits(r)' \in {Waits(r), Waits(r) + (IF p = r THEN 1 ELSE 0)}
    <3>1. Count(Append(pending, p), {r}) = Count(pending, {r}) + (IF p \in {r} THEN 1 ELSE 0)
      <4>1. pending \in Seq(Requests) BY DEF TypeOK
      <4> QED BY <4>1, CountAppend
    <3>2. Waits(r)' = Count(pending', {r}) /\ Waits(r) = Count(pending, {r})
      BY Zenon DEF Waits
    <3> QED BY <2>1, <3>1, <3>2
  <2>4. ~HandleInit(r)
    <3>1. ASSUME HandleInit(r) PROVE FALSE
      <4>1. issued' = issued BY <3>1 DEF HandleInit
      <4> QED BY <2>1, <4>1
    <3> QED BY <3>1
  <2> HIDE DEF New
  <2>5. Waits(r)' + InitWorks(r)' <= Waits(r) + InitWorks(r) + New
    BY <1>1, <1>3, <1>6, <2>1, <2>2, <2>3
  <2> QED BY <1>5, <1>10, <2>1, <2>4, <2>5
<1>15. ASSUME DrainPending PROVE Goal
  <2> DEFINE n == Len(pending)
  <2>1. /\ pending \in Seq(Requests) /\ pending # <<>>
        /\ pending' = SubSeq(pending, 1, n - 1) /\ UNCHANGED looper /\ main # "idle"
    BY <1>15 DEF DrainPending, TypeOK
  <2>2. pending[n] \in Requests /\ ServiceDownload(pending[n])
    BY <1>15, DrainsRequest
  <2>3. InitWorks(r)' \in {InitWorks(r), InitWorks(r) + (IF pending[n] = r THEN 1 ELSE 0)}
    BY <2>2, ServesBegin
  <2>4. Count(pending, {r})
          = Count(SubSeq(pending, 1, n - 1), {r}) + (IF pending[n] \in {r} THEN 1 ELSE 0)
    BY <2>1, CountFront
  <2>5. Waits(r)' = Count(SubSeq(pending, 1, n - 1), {r}) /\ Waits(r) = Count(pending, {r})
    BY <2>1, Zenon DEF Waits
  <2>6. Waits(r) = Waits(r)' + (IF pending[n] = r THEN 1 ELSE 0)
    BY <2>4, <2>5
  <2>7. ~HandleInit(r) BY <2>1 DEF HandleInit, Dispatch
  <2> HIDE DEF n, New
  <2>8. Waits(r)' + InitWorks(r)' <= Waits(r) + InitWorks(r) + New
    BY <1>1, <1>3, <1>12, <2>3, <2>6
  <2> QED BY <1>5, <1>10, <2>1, <2>7, <2>8
<1>16. ASSUME NEW p \in Requests, HandleInit(p) PROVE Goal
  <2>1. Dispatch(InitMsg(p)) /\ LaunchThread(p) /\ UNCHANGED pending
    BY <1>16 DEF HandleInit
  <2>2. InitWorks(r)' = InitWorks(r) /\ Waits(r)' = Waits(r)
    BY <1>4, <2>1, LaunchBegins
  <2>3. Inits(r) = Inits(r)' + (IF InitMsg(p) = InitMsg(r) THEN 1 ELSE 0)
    BY <2>1, Takes
  <2>4. InitMsg(p) = InitMsg(r) <=> p = r
    BY MessagesDiffer
  <2>5. p # r => ~HandleInit(r)
    BY <1>7, <2>1, <2>4 DEF Dispatch
  <2> HIDE DEF New
  <2> QED BY <1>1, <1>3, <1>12, <2>2, <2>3, <2>4, <2>5 DEF Begun
<1>17. ASSUME UNCHANGED <<pool, pending, looper>> /\ ~HandleInit(r)
       PROVE  Goal
  <2> HIDE DEF New
  <2>1. Waits(r)' + InitWorks(r)' <= Waits(r) + InitWorks(r) + New
    BY <1>1, <1>4, <1>6, <1>12, <1>17
  <2> QED BY <1>5, <1>10, <1>17, <2>1
<1>18. ASSUME NEW m, Dispatch(m), m # InitMsg(r), UNCHANGED <<pool, pending>> PROVE Goal
  <2> HIDE DEF New
  <2>1. Waits(r)' + InitWorks(r)' <= Waits(r) + InitWorks(r) + New
    BY <1>1, <1>4, <1>6, <1>12, <1>18
  <2> QED BY <1>9, <1>10, <1>18, <2>1
<1>19. ASSUME NEW m \in Messages, looper' = Append(looper, m), m # InitMsg(r),
              UNCHANGED <<pool, pending>>, ~HandleInit(r)
       PROVE  Goal
  <2> HIDE DEF New
  <2>1. Waits(r)' + InitWorks(r)' <= Waits(r) + InitWorks(r) + New
    BY <1>1, <1>4, <1>6, <1>12, <1>19
  <2> QED BY <1>8, <1>10, <1>19, <2>1
<1>20. ASSUME HandleBindSuc PROVE Goal
  <2>1. BindSuc # InitMsg(r) BY MessagesDiffer
  <2> QED BY <1>18, <1>20, <2>1 DEF HandleBindSuc
<1>21. ASSUME NEW p \in Requests, HandleProgress(p) PROVE Goal
  <2>1. ProgressMsg(p) # InitMsg(r) BY MessagesDiffer
  <2> QED BY <1>18, <1>21, <2>1 DEF HandleProgress
<1>22. ASSUME NEW u \in Urls, HandleFinished(u) PROVE Goal
  <2>1. FinishedMsg(u) # InitMsg(r) BY MessagesDiffer
  <2> QED BY <1>18, <1>22, <2>1 DEF HandleFinished
<1>23. ASSUME UNCHANGED tasks PROVE ~HandleInit(r)
  <2>1. ASSUME HandleInit(r) PROVE FALSE
    <3>1. tasks' = Append(tasks, r) /\ tasks \in Seq(Requests)
      BY <2>1 DEF HandleInit, TypeOK
    <3>2. Len(tasks') = Len(tasks) + 1 /\ Len(tasks) \in Nat
      BY <3>1, AppendProperties, LenProperties
    <3> QED BY <1>23, <3>2
  <2> QED BY <2>1
<1>24. ASSUME ServiceConnected PROVE Goal
  <2>1. BindSuc # InitMsg(r) /\ BindSuc \in Messages BY MessagesDiffer, MessageTypes
  <2> QED BY <1>19, <1>23, <1>24, <2>1 DEF ServiceConnected
<1>25. ASSUME NEW u \in Urls, ReceiveFinished(u) PROVE Goal
  <2>1. FinishedMsg(u) # InitMsg(r) /\ FinishedMsg(u) \in Messages
    BY MessagesDiffer, MessageTypes
  <2> QED BY <1>19, <1>23, <1>25, <2>1 DEF ReceiveFinished
<1>26. ASSUME UNCHANGED <<pool, pending, looper, tasks>> PROVE Goal
  BY <1>17, <1>23, <1>26
<1>27. Goal
  BY <1>13, <1>14, <1>15, <1>16, <1>20, <1>21, <1>22, <1>24, <1>25, <1>26
  DEF Next, Handler, DrainDone, PauseDownload, LowMemory, DeleteFile
<1> QED BY <1>2, <1>27

\* MSG_INIT puts a task in the list, so what leaves the list alone is another.
LEMMA NoTaskNoInit ==
  ASSUME TypeOK, UNCHANGED tasks, NEW r \in Requests PROVE ~HandleInit(r)
<1> SUFFICES ASSUME HandleInit(r) PROVE FALSE
  OBVIOUS
<1>1. tasks' = Append(tasks, r) /\ tasks \in Seq(Requests)
  BY DEF HandleInit, TypeOK
<1>2. Len(tasks') = Len(tasks) + 1 /\ Len(tasks) \in Nat
  BY <1>1, AppendProperties, LenProperties
<1> QED BY <1>2

\* Only startDownload begins a request, and MSG_INIT ends its beginning.
LEMMA BegunStep ==
  ASSUME TypeOK, TypeOK', [Next]_vars, ~Crash, NEW r \in Requests, IsFiniteSet(Initing(r))
  PROVE  /\ IsFiniteSet(Initing(r)')
         /\ Begun(r)' <= Begun(r) + (IF r \notin issued /\ r \in issued' THEN 1 ELSE 0)
         /\ HandleInit(r) => Begun(r)' + 1 <= Begun(r)
<1> USE DEF managerVars, persistentVars, budgetVars
<1>1. Begun(r) \in Nat
  <2>1. /\ Waits(r) \in Nat /\ InitWorks(r) \in Nat /\ Inits(r) \in Nat
        /\ Cardinality(Initing(r)) \in Nat
    BY BegunType
  <2> QED BY <2>1 DEF Begun
<1>2. ASSUME NEW w \in Workers, Worker(w)
      PROVE  /\ IsFiniteSet(Initing(r)') /\ Begun(r)' <= Begun(r)
             /\ UNCHANGED <<tasks, issued>>
  <2>1. UNCHANGED <<tasks, issued>>
    BY <1>2 DEF Worker, TakeJob, InitSucceeds, InitFails, OpenSucceeds, LoadFails,
       ReadChunk, CheckPause, SavePosition, ReadEnd
  <2>2. IsFiniteSet(Initing(r)') /\ Begun(r)' <= Begun(r)
    BY <1>2, WorkerBegun
  <2> QED BY <2>1, <2>2
<1>3. ASSUME \A w \in Workers : thread'[w].pc = "init" <=> thread[w].pc = "init",
             \A w \in Workers : thread[w].pc = "init" => thread'[w].req = thread[w].req,
             UNCHANGED <<looper, pool, pending>>
      PROVE  IsFiniteSet(Initing(r)') /\ Begun(r)' = Begun(r)
  <2>1. Initing(r)' = Initing(r)
    BY <1>3 DEF Initing
  <2>2. Inits(r)' = Inits(r)
    BY <1>3, Zenon DEF Inits
  <2>3. InitWorks(r)' = InitWorks(r)
    BY <1>3, Zenon DEF InitWorks, InitJobsOf
  <2>4. Waits(r)' = Waits(r)
    BY <1>3, Zenon DEF Waits
  <2>5. Begun(r)' = Waits(r)' + InitWorks(r)' + Cardinality(Initing(r)') + Inits(r)'
    BY Zenon DEF Begun, Waits, InitWorks, Inits, InitJobsOf
  <2> QED BY <2>1, <2>2, <2>3, <2>4, <2>5 DEF Begun
<1>4. ASSUME NEW u \in Urls, DeleteFile(u)
      PROVE  IsFiniteSet(Initing(r)') /\ Begun(r)' = Begun(r) /\ UNCHANGED tasks
  <2>1. \A w \in Workers : thread'[w].pc = thread[w].pc
                             /\ (thread[w].pc = "init" => thread'[w].req = thread[w].req)
    <3> SUFFICES ASSUME NEW w \in Workers
                 PROVE  /\ thread'[w].pc = thread[w].pc
                        /\ thread[w].pc = "init" => thread'[w].req = thread[w].req
      OBVIOUS
    <3>1. CASE thread[w].pc \in FileOpen
      <4>1. thread[w] \in RunningThreads
        BY <3>1, RunningType DEF TypeOK, FileOpen
      <4>2. [thread[w] EXCEPT !.orphan = TRUE].pc = thread[w].pc
              /\ [thread[w] EXCEPT !.orphan = TRUE].req = thread[w].req
        BY <4>1 DEF RunningThreads
      <4>3. thread'[w] = thread[w] \/ thread'[w] = [thread[w] EXCEPT !.orphan = TRUE]
        BY <1>4 DEF DeleteFile
      <4> QED BY <4>2, <4>3
    <3>2. CASE thread[w].pc \notin FileOpen
      BY <1>4, <3>2 DEF DeleteFile
    <3> QED BY <3>1, <3>2
  <2>2. UNCHANGED <<looper, pool, pending, tasks>>
    BY <1>4 DEF DeleteFile
  <2> QED BY <1>3, <2>1, <2>2
<1>5. CASE UNCHANGED vars
  <2>1. UNCHANGED <<thread, looper, pool, pending, tasks>>
    BY <1>5 DEF vars
  <2>2. IsFiniteSet(Initing(r)') /\ Begun(r)' = Begun(r)
    BY <1>3, <2>1
  <2> QED BY <1>1, <2>1, <2>2, NoTaskNoInit
<1>6. ASSUME Next, ~(\E w \in Workers : Worker(w)), ~(\E u \in Urls : DeleteFile(u))
      PROVE  UNCHANGED thread
  BY <1>6 DEF Next, Handler, StartDownloadBound, StartDownloadUnbound, ServiceConnected,
     HandleBindSuc, DrainPending, DrainDone, HandleInit, HandleProgress, HandleFinished,
     ReceiveFinished, PauseDownload, LowMemory
<1>7. CASE \E w \in Workers : Worker(w)
  BY <1>1, <1>2, <1>7, NoTaskNoInit
<1>8. CASE \E u \in Urls : DeleteFile(u)
  BY <1>1, <1>4, <1>8, NoTaskNoInit
<1>9. CASE Next /\ ~(\E w \in Workers : Worker(w)) /\ ~(\E u \in Urls : DeleteFile(u))
  BY <1>6, <1>9, MainBegun
<1> QED BY <1>5, <1>7, <1>8, <1>9

\* The message that says 100% is sent by a thread that has its file open, and
\* a callback comes with such a message.
LEMMA ReportBefore ==
  ASSUME TypeOK, TypeOK', [Next]_vars, ~Crash, NEW r \in Requests,
         Has(looper', ProgressMsg(r)) \/ calls'[r] > 0
  PROVE  Past(r)
<1> USE DEF managerVars, persistentVars, budgetVars
<1>0. looper \in Seq(Messages)
  BY DEF TypeOK
<1>1. Has(looper, ProgressMsg(r)) \/ calls[r] > 0 => Past(r)
  BY DEF Past
<1>2. ASSUME NEW m \in Messages, looper' = Append(looper, m), m # ProgressMsg(r)
      PROVE  Has(looper', ProgressMsg(r)) => Has(looper, ProgressMsg(r))
  BY <1>0, <1>2, HasAppend
<1>3. ASSUME NEW m, Dispatch(m)
      PROVE  Has(looper', ProgressMsg(r)) => Has(looper, ProgressMsg(r))
  BY <1>0, <1>3, HasTail DEF Dispatch
<1>4. ASSUME NEW w \in Workers, Worker(w) PROVE Past(r)
  <2> DEFINE t == thread[w]
  <2>1. t.pc # "idle" => t.req \in Requests
    BY RunningType DEF TypeOK
  <2>2. UNCHANGED calls
    BY <1>4 DEF Worker, TakeJob, InitSucceeds, InitFails, OpenSucceeds, LoadFails,
       ReadChunk, CheckPause, SavePosition, ReadEnd
  <2>3. CASE UNCHANGED looper BY <1>1, <2>2, <2>3
  <2>4. CASE InitSucceeds(w)
    <3>1. t.req \in Requests /\ looper' = Append(looper, InitMsg(t.req))
      BY <2>1, <2>4 DEF InitSucceeds, At
    <3>2. InitMsg(t.req) \in Messages /\ InitMsg(t.req) # ProgressMsg(r)
      BY <3>1, MessageTypes, MessagesDiffer
    <3> HIDE DEF t
    <3> QED BY <1>1, <1>2, <2>2, <3>1, <3>2
  <2>5. CASE ReadChunk(w) \/ CheckPause(w) \/ ReadEnd(w)
    <3>1. t.pc \in FileOpen
      BY <2>5 DEF ReadChunk, CheckPause, ReadEnd, At, FileOpen
    <3>2. t.req \in Requests
      BY <2>1, <3>1 DEF FileOpen
    <3>3. looper' \in {looper, Append(looper, ProgressMsg(t.req))}
      BY <2>5 DEF ReadChunk, CheckPause, ReadEnd, Notify
    <3>4. t.req = r => Past(r)
      BY <3>1 DEF Past
    <3>5. ProgressMsg(t.req) \in Messages /\ (ProgressMsg(t.req) = ProgressMsg(r) <=> t.req = r)
      BY <3>2, MessageTypes, MessagesDiffer
    <3> HIDE DEF t
    <3> QED BY <1>1, <1>2, <2>2, <2>3, <3>3, <3>4, <3>5
  <2> QED BY <1>4, <2>3, <2>4, <2>5
          DEF Worker, TakeJob, InitFails, OpenSucceeds, LoadFails, SavePosition
<1>5. ASSUME NEW q \in Requests, HandleProgress(q) PROVE Past(r)
  <2>1. Dispatch(ProgressMsg(q)) /\ calls' = [calls EXCEPT ![q] = @ + 1]
    BY <1>5 DEF HandleProgress
  <2>2. CASE q = r
    <3>1. Has(looper, ProgressMsg(r))
      BY <1>0, <2>1, <2>2, HasTail DEF Dispatch
    <3> QED BY <1>1, <3>1
  <2>3. CASE q # r
    <3>1. calls'[r] = calls[r]
      BY <2>1, <2>3 DEF TypeOK
    <3> QED BY <1>1, <1>3, <2>1, <3>1
  <2> QED BY <2>2, <2>3
<1>6. ASSUME NEW u \in Urls, ReceiveFinished(u) PROVE Past(r)
  BY <1>1, <1>2, <1>6, MessageTypes, MessagesDiffer DEF ReceiveFinished
<1>7. CASE ServiceConnected
  BY <1>1, <1>2, <1>7, MessageTypes, MessagesDiffer DEF ServiceConnected
<1>8. ASSUME NEW m, Dispatch(m), UNCHANGED calls PROVE Past(r)
  BY <1>1, <1>3, <1>8
<1>9. CASE \/ HandleBindSuc \/ (\E q \in Requests : HandleInit(q))
           \/ (\E u \in Urls : HandleFinished(u))
  BY <1>8, <1>9 DEF HandleBindSuc, HandleInit, HandleFinished
<1>10. CASE UNCHANGED <<looper, calls>>
  BY <1>1, <1>10
<1> QED
  BY <1>4, <1>5, <1>6, <1>7, <1>9, <1>10
  DEF Next, vars, Handler, StartDownloadBound, StartDownloadUnbound, DrainPending,
      DrainDone, PauseDownload, LowMemory, DeleteFile

\* A job that loads was in the pool, or is made for a task: of MSG_INIT, or of
\* the list.
LEMMA LoadBefore ==
  ASSUME TypeOK, TypeOK', [Next]_vars, ~Crash, NEW r \in Requests,
         NEW i \in 1..Len(pool'), pool'[i].kind = "load", pool'[i].req = r
  PROVE  Past(r) \/ HandleInit(r)
<1> USE DEF managerVars, persistentVars, budgetVars
<1>0. pool \in Seq(Jobs) /\ Has(pool', pool'[i])
  BY DEF TypeOK, Has
<1>1. ASSUME Has(pool, pool'[i]) PROVE Past(r)
  BY <1>1 DEF Has, Past
<1>2. ASSUME NEW q \in Requests, LaunchThread(q) PROVE Past(r) \/ q = r
  <2>1. PICK n \in Nat : pool' = Append(pool, LoadJob(q, n)) /\ LoadJob(q, n) \in Jobs
    BY <1>2, LaunchLoads
  <2>2. Has(pool, pool'[i]) \/ pool'[i] = LoadJob(q, n)
    BY <1>0, <2>1, HasAppend
  <2>3. LoadJob(q, n).req = q
    BY DEF LoadJob
  <2> QED BY <1>1, <2>2, <2>3
<1>3. ASSUME NEW p \in Requests, ServiceDownload(p) PROVE Past(r)
  <2>1. CASE pool' = Append(pool, InitJob(p))
    <3>1. InitJob(p) \in Jobs /\ InitJob(p).kind = "init"
      BY DEF InitJob, Jobs
    <3>2. Has(pool, pool'[i]) \/ pool'[i] = InitJob(p)
      BY <1>0, <2>1, <3>1, HasAppend
    <3> QED BY <1>1, <3>1, <3>2
  <2>2. ASSUME NEW s \in Requests, Has(tasks, s), LaunchThread(s) PROVE Past(r)
    BY <1>2, <2>2 DEF Past
  <2>3. CASE UNCHANGED pool BY <1>0, <1>1, <2>3
  <2> QED BY <1>3, <2>1, <2>2, <2>3, ServiceBegins
<1>4. CASE UNCHANGED pool BY <1>0, <1>1, <1>4
<1>5. ASSUME NEW w \in Workers, TakeJob(w) PROVE Past(r)
  BY <1>0, <1>1, <1>5, HasTail DEF TakeJob
<1>6. ASSUME NEW q \in Requests, HandleInit(q) PROVE Past(r) \/ HandleInit(r)
  BY <1>2, <1>6 DEF HandleInit
<1>7. CASE DrainPending BY <1>3, <1>7, DrainsRequest
<1>8. ASSUME NEW p \in Requests, StartDownloadBound(p) PROVE Past(r)
  BY <1>3, <1>8 DEF StartDownloadBound
<1>9. \/ UNCHANGED pool \/ DrainPending
      \/ (\E q \in Requests : HandleInit(q) \/ StartDownloadBound(q))
      \/ (\E w \in Workers : TakeJob(w))
  BY DEF Next, vars, Handler, Worker, StartDownloadUnbound, ServiceConnected,
     HandleBindSuc, DrainDone, HandleProgress, HandleFinished, ReceiveFinished,
     PauseDownload, LowMemory, DeleteFile, InitSucceeds, InitFails, OpenSucceeds,
     LoadFails, ReadChunk, CheckPause, SavePosition, ReadEnd
<1> QED BY <1>4, <1>5, <1>6, <1>7, <1>8, <1>9

\* A thread that has its file open had it, or took such a job.
LEMMA OpenBefore ==
  ASSUME TypeOK, TypeOK', [Next]_vars, ~Crash, NEW r \in Requests,
         NEW w \in Workers, thread'[w].pc \in FileOpen, thread'[w].req = r
  PROVE  Past(r)
<1>1. ASSUME thread[w].pc \in FileOpen, thread[w].req = r PROVE Past(r)
  BY <1>1 DEF Past
<1>2. CASE TakeJob(w)
  <2>1. /\ Head(pool) \in Jobs /\ Head(pool).req = r
        /\ thread'[w].pc = IF Head(pool).kind = "init" THEN "init" ELSE "open"
    BY <1>2, TakesJob
  <2>2. Head(pool).kind = "load"
    BY <2>1 DEF Jobs, FileOpen
  <2>3. 1 \in 1..Len(pool) /\ pool[1] = Head(pool)
    BY <1>2, HeadTailProperties, LenProperties DEF TakeJob, TypeOK
  <2> QED BY <2>1, <2>2, <2>3 DEF Past
<1>3. CASE InitSucceeds(w) \/ InitFails(w) \/ LoadFails(w) \/ SavePosition(w) \/ ReadEnd(w)
  <2>1. thread'[w] = IdleThread
    BY <1>3 DEF TypeOK, InitSucceeds, InitFails, LoadFails, SavePosition, ReadEnd, Become
  <2> QED BY <2>1 DEF IdleThread, FileOpen
<1>4. CASE OpenSucceeds(w) BY <1>1, <1>4, Opens DEF FileOpen
<1>5. CASE ReadChunk(w) BY <1>1, <1>5, Reads DEF FileOpen
<1>6. CASE CheckPause(w) BY <1>1, <1>6, Checks DEF FileOpen
<1>7. CASE thread'[w].pc = thread[w].pc /\ (thread[w].pc # "idle" => thread'[w].req = thread[w].req)
  BY <1>1, <1>7 DEF FileOpen
<1> QED BY <1>2, <1>3, <1>4, <1>5, <1>6, <1>7, ThreadStays DEF Worker

\* What shows that a task has been made was there before, or MSG_INIT made it.
LEMMA PastBefore ==
  ASSUME TypeOK, TypeOK', [Next]_vars, ~Crash, NEW r \in Requests, Past(r)'
  PROVE  Past(r) \/ HandleInit(r)
<1>1. CASE Has(tasks', r)
  <2>1. ASSUME NEW q \in Requests, r = q, HandleInit(q) PROVE HandleInit(r)
    BY <2>1
  <2> QED BY <1>1, <2>1, TasksChange DEF Past
<1>2. CASE Has(looper', ProgressMsg(r)) \/ calls'[r] > 0
  BY <1>2, ReportBefore
<1>3. CASE \E i \in 1..Len(pool') : pool'[i].kind = "load" /\ pool'[i].req = r
  BY <1>3, LoadBefore
<1>4. CASE \E w \in Workers : thread'[w].pc \in FileOpen /\ thread'[w].req = r
  BY <1>4, OpenBefore
<1>5. \/ Has(tasks', r) \/ Has(looper', ProgressMsg(r)) \/ calls'[r] > 0
      \/ \E i \in 1..Len(pool') : pool'[i].kind = "load" /\ pool'[i].req = r
      \/ \E w \in Workers : thread'[w].pc \in FileOpen /\ thread'[w].req = r
  BY DEF Past, ProgressMsg
<1> QED BY <1>1, <1>2, <1>3, <1>4, <1>5

\* What differs in a list differs in it without the one at place i, which is
\* not among the others.
LEMMA WithoutOne ==
  ASSUME NEW A, NEW s \in Seq(A), NEW i \in 1..Len(s),
         \A j, k \in 1..Len(s) : s[j] = s[k] => j = k
  PROVE  LET t == Without(s, i)
         IN (\A j, k \in 1..Len(t) : t[j] = t[k] => j = k) /\ ~Has(t, s[i])
<1> DEFINE t == Without(s, i)
<1>1. /\ Len(s) \in Nat /\ Len(t) = Len(s) - 1 /\ Len(t) \in Nat
      /\ \A k \in 1..Len(t) : k < i => k \in 1..Len(s) /\ t[k] = s[k]
      /\ \A k \in 1..Len(t) : ~(k < i) => k + 1 \in 1..Len(s) /\ t[k] = s[k + 1]
  BY WithoutPlaces
<1> HIDE DEF t
<1>2. ASSUME NEW k \in 1..Len(t)
      PROVE  \E m \in 1..Len(s) : /\ t[k] = s[m] /\ m # i
                                  /\ k < i => m = k
                                  /\ ~(k < i) => m = k + 1
  <2>1. CASE k < i
    <3>1. k \in 1..Len(s) /\ t[k] = s[k] /\ k # i BY <1>1, <2>1
    <3> QED BY <2>1, <3>1
  <2>2. CASE ~(k < i)
    <3>1. k + 1 \in 1..Len(s) /\ t[k] = s[k + 1] BY <1>1, <2>2
    <3>2. k + 1 # i BY <1>1, <2>2
    <3> QED BY <2>2, <3>1, <3>2
  <2> QED BY <2>1, <2>2
<1>3. ASSUME NEW j \in 1..Len(t), NEW k \in 1..Len(t), t[j] = t[k] PROVE j = k
  <2>1. PICK l \in 1..Len(s) : t[j] = s[l] /\ (j < i => l = j) /\ (~(j < i) => l = j + 1)
    BY <1>2
  <2>2. PICK m \in 1..Len(s) : t[k] = s[m] /\ (k < i => m = k) /\ (~(k < i) => m = k + 1)
    BY <1>2
  <2>3. l = m
    <3>1. s[l] = s[m] BY <1>3, <2>1, <2>2
    <3> QED BY <3>1
  <2> QED BY <2>1, <2>2, <2>3
<1>4. ~Has(t, s[i])
  <2> SUFFICES ASSUME NEW k \in 1..Len(t), t[k] = s[i] PROVE FALSE
    BY DEF Has
  <2>1. PICK m \in 1..Len(s) : t[k] = s[m] /\ m # i
    BY <1>2
  <2>2. s[m] = s[i] BY <2>1
  <2> QED BY <2>1, <2>2
<1> QED BY <1>3, <1>4 DEF t

\* A task is made for a request that has none and has not been called back.
LEMMA MadeBeforeCalled ==
  ASSUME TypeOK, TypeOK', [Next]_vars, ~Crash, OneTask, NEW r \in Requests, HandleInit(r)
  PROVE  ~Past(r)
<1>1. IsFiniteSet(Initing(r)) /\ (Past(r) => Begun(r) = 0)
  BY DEF OneTask, BeginsOnce
<1>2. IsFiniteSet(Initing(r)') /\ Begun(r)' + 1 <= Begun(r)
  BY <1>1, BegunStep
<1>3. Begun(r) \in Nat /\ Begun(r)' \in Nat
  <2>1. /\ Waits(r) \in Nat /\ InitWorks(r) \in Nat /\ Inits(r) \in Nat
        /\ Cardinality(Initing(r)) \in Nat
    BY <1>1, BegunType
  <2>2. /\ Waits(r)' \in Nat /\ InitWorks(r)' \in Nat /\ Inits(r)' \in Nat
        /\ Cardinality(Initing(r))' \in Nat
    BY <1>2, BegunTypeNext
  <2> QED BY <2>1, <2>2 DEF Begun
<1> QED BY <1>1, <1>2, <1>3

LEMMA ListedOnceStep ==
  ASSUME TypeOK, TypeOK', [Next]_vars, ~Crash, OneTask PROVE ListedOnce'
<1> USE DEF managerVars, persistentVars, budgetVars
<1>0. tasks \in Seq(Requests) /\ ListedOnce
  BY DEF TypeOK, OneTask
<1>1. CASE UNCHANGED tasks BY <1>0, <1>1 DEF ListedOnce
<1>2. ASSUME NEW r \in Requests, HandleInit(r) PROVE ListedOnce'
  <2>1. ~Past(r)
    BY <1>2, MadeBeforeCalled
  <2>2. \A j \in 1..Len(tasks) : tasks[j] # r
    BY <2>1 DEF Past, Has
  <2>3. tasks' = Append(tasks, r)
    BY <1>2 DEF HandleInit
  <2>4. /\ Len(tasks) \in Nat /\ Len(tasks') = Len(tasks) + 1
        /\ tasks'[Len(tasks) + 1] = r
        /\ \A j \in 1..Len(tasks) : tasks'[j] = tasks[j]
    BY <1>0, <2>3, AppendProperties, LenProperties
  <2>5. \A j \in 1..Len(tasks') : j \in 1..Len(tasks) \/ j = Len(tasks) + 1
    BY <2>4
  <2> QED BY <1>0, <2>2, <2>4, <2>5 DEF ListedOnce
<1>3. ASSUME NEW u \in Urls, HandleFinished(u) PROVE ListedOnce'
  <2>1. ASSUME NEW i \in 1..Len(tasks),
               tasks' = SubSeq(tasks, 1, i - 1) \o SubSeq(tasks, i + 1, Len(tasks))
        PROVE  ListedOnce'
    <3>0. \A j, k \in 1..Len(tasks) : tasks[j] = tasks[k] => j = k
      BY <1>0 DEF ListedOnce
    <3>1. tasks' = Without(tasks, i)
      BY <2>1 DEF Without
    <3>2. \A j, k \in 1..Len(tasks') : tasks'[j] = tasks'[k] => j = k
      BY <1>0, <3>0, <3>1, WithoutOne
    <3> QED BY <3>2 DEF ListedOnce
  <2> QED BY <1>1, <1>3, <2>1 DEF HandleFinished
<1>4. \/ UNCHANGED tasks
      \/ (\E r \in Requests : HandleInit(r)) \/ (\E u \in Urls : HandleFinished(u))
  BY DEF Next, vars, Handler, Worker, StartDownloadBound, StartDownloadUnbound,
     ServiceConnected, HandleBindSuc, DrainPending, DrainDone, HandleProgress,
     ReceiveFinished, PauseDownload, LowMemory, DeleteFile, TakeJob, InitSucceeds,
     InitFails, OpenSucceeds, LoadFails, ReadChunk, CheckPause, SavePosition, ReadEnd
<1> QED BY <1>1, <1>2, <1>3, <1>4

\* The process that comes back knows no request.
LEMMA OneTaskCrash ==
  ASSUME TypeOK, TypeOK', Crash, OneTask PROVE OneTask'
<1> USE DEF persistentVars
<1>1. /\ looper' = <<>> /\ pool' = <<>> /\ pending' = <<>> /\ tasks' = <<>>
      /\ thread' = [w \in Workers |-> IdleThread] /\ UNCHANGED <<calls, issued>>
  BY DEF Crash
<1>2. ListedOnce'
  BY <1>1, EmptySeq DEF ListedOnce
<1>3. ASSUME NEW r \in Requests PROVE BeginsOnce(r)'
  <2>1. Initing(r)' = {}
    BY <1>1 DEF Initing, IdleThread
  <2>2. IsFiniteSet(Initing(r)') /\ Cardinality(Initing(r)') = 0
    BY <2>1, FS_EmptySet
  <2>3. /\ Waits(r)' = Count(pending', {r}) /\ Inits(r)' = Count(looper', {InitMsg(r)})
        /\ InitWorks(r)' = Count(pool', InitJobsOf(r))
        /\ Begun(r)' = Waits(r)' + InitWorks(r)' + Cardinality(Initing(r)') + Inits(r)'
    BY Zenon DEF Begun, Waits, InitWorks, Inits, InitJobsOf
  <2>4. Waits(r)' = 0 /\ Inits(r)' = 0 /\ InitWorks(r)' = 0
    BY <1>1, <2>3, CountEmpty
  <2>5. Begun(r)' = 0
    BY <2>2, <2>3, <2>4
  <2>6. Past(r)' => Past(r)
    <3>1. \A y : ~Has(<<>>, y) BY EmptySeq DEF Has
    <3>2. Past(r)' => calls'[r] > 0
      BY <1>1, <3>1, EmptySeq DEF Past, ProgressMsg, IdleThread, FileOpen
    <3> QED BY <1>1, <3>2 DEF Past
  <2>7. Past(r)' => r \in issued'
    BY <1>1, <2>6 DEF OneTask, BeginsOnce
  <2>8. BeginsOnce(r)' <=>
          /\ IsFiniteSet(Initing(r)')
          /\ Begun(r)' <= IF r \in issued' THEN 1 ELSE 0
          /\ Past(r)' => r \in issued' /\ Begun(r)' = 0
    BY Zenon DEF BeginsOnce
  <2> QED BY <2>2, <2>5, <2>7, <2>8
<1> QED BY <1>2, <1>3 DEF OneTask

LEMMA OneTaskStep ==
  ASSUME TypeOK, TypeOK', [Next]_vars, OneTask PROVE OneTask'
<1>1. CASE Crash BY <1>1, OneTaskCrash
<1>2. CASE ~Crash
  <2>1. ListedOnce'
    BY <1>2, ListedOnceStep
  <2>2. ASSUME NEW r \in Requests PROVE BeginsOnce(r)'
    <3> DEFINE New == IF r \notin issued /\ r \in issued' THEN 1 ELSE 0
    <3>1. /\ IsFiniteSet(Initing(r)) /\ Begun(r) <= IF r \in issued THEN 1 ELSE 0
          /\ Past(r) => r \in issued /\ Begun(r) = 0
      BY DEF OneTask, BeginsOnce
    <3>2. /\ IsFiniteSet(Initing(r)') /\ Begun(r)' <= Begun(r) + New
          /\ HandleInit(r) => Begun(r)' + 1 <= Begun(r)
      BY <1>2, <3>1, BegunStep
    <3>3. Begun(r) \in Nat /\ Begun(r)' \in Nat
      <4>1. /\ Waits(r) \in Nat /\ InitWorks(r) \in Nat /\ Inits(r) \in Nat
            /\ Cardinality(Initing(r)) \in Nat
        BY <3>1, BegunType
      <4>2. /\ Waits(r)' \in Nat /\ InitWorks(r)' \in Nat /\ Inits(r)' \in Nat
            /\ Cardinality(Initing(r))' \in Nat
        BY <3>2, BegunTypeNext
      <4> QED BY <4>1, <4>2 DEF Begun
    <3>4. issued \subseteq issued'
      BY <1>2 DEF Next, vars, Handler, Worker, StartDownloadBound, StartDownloadUnbound,
         ServiceConnected, HandleBindSuc, DrainPending, DrainDone, HandleInit,
         HandleProgress, HandleFinished, ReceiveFinished, PauseDownload, LowMemory,
         DeleteFile, TakeJob, InitSucceeds, InitFails, OpenSucceeds, LoadFails, ReadChunk,
         CheckPause, SavePosition, ReadEnd
    <3>5. Past(r)' => Past(r) \/ HandleInit(r)
      BY <1>2, PastBefore
    <3>6. BeginsOnce(r)' <=>
            /\ IsFiniteSet(Initing(r)')
            /\ Begun(r)' <= IF r \in issued' THEN 1 ELSE 0
            /\ Past(r)' => r \in issued' /\ Begun(r)' = 0
      BY Zenon DEF BeginsOnce
    <3>7. Begun(r)' <= IF r \in issued' THEN 1 ELSE 0
      BY <3>1, <3>2, <3>3, <3>4
    <3>8. Past(r) => r \in issued' /\ Begun(r)' = 0
      BY <3>1, <3>2, <3>3, <3>4
    <3>9. ASSUME HandleInit(r) PROVE r \in issued' /\ Begun(r)' = 0
      <4>1. Begun(r)' + 1 <= Begun(r) BY <3>2, <3>9
      <4>2. r \in issued
        <5> SUFFICES ASSUME r \notin issued PROVE FALSE
          OBVIOUS
        <5>1. Begun(r) <= 0 BY <3>1
        <5> QED BY <3>3, <4>1, <5>1
      <4>3. Begun(r) <= 1 BY <3>1, <4>2
      <4>4. Begun(r)' = 0 BY <3>3, <4>1, <4>3
      <4> QED BY <3>4, <4>2, <4>4
    <3> QED BY <3>2, <3>5, <3>6, <3>7, <3>8, <3>9
  <2> QED BY <2>1, <2>2 DEF OneTask
<1> QED BY <1>1, <1>2

\* DownloadService.download to MSG_INIT: a request waits, has an InitThread or
\* its message at most once, and never again once its task is listed, loads or
\* has been called back; and no task is listed twice.  It holds with requests
\* of one url, with connections that fail and after a crash.
THEOREM OneTaskCorrect == Spec => []OneTask
<1>1. Init => OneTask
  <2> SUFFICES ASSUME Init PROVE OneTask
    OBVIOUS
  <2>1. /\ looper = <<>> /\ pool = <<>> /\ pending = <<>> /\ tasks = <<>> /\ issued = {}
        /\ thread = [w \in Workers |-> IdleThread] /\ calls = [r \in Requests |-> 0]
    BY DEF Init
  <2>2. ListedOnce
    BY <2>1, EmptySeq DEF ListedOnce
  <2>3. ASSUME NEW r \in Requests PROVE BeginsOnce(r)
    <3>1. Initing(r) = {}
      BY <2>1 DEF Initing, IdleThread
    <3>2. IsFiniteSet(Initing(r)) /\ Cardinality(Initing(r)) = 0
      BY <3>1, FS_EmptySet
    <3>3. Waits(r) = 0 /\ Inits(r) = 0 /\ InitWorks(r) = 0
      BY <2>1, CountEmpty DEF Waits, Inits, InitWorks
    <3>4. Begun(r) = 0
      BY <3>2, <3>3 DEF Begun
    <3>5. ~Past(r)
      <4>1. \A y : ~Has(<<>>, y) BY EmptySeq DEF Has
      <4> QED BY <2>1, <4>1, EmptySeq DEF Past, IdleThread, FileOpen
    <3> QED BY <3>2, <3>4, <3>5 DEF BeginsOnce
  <2> QED BY <2>2, <2>3 DEF OneTask
<1>2. TypeOK /\ TypeOK' /\ OneTask /\ [Next]_vars => OneTask'
  BY OneTaskStep
<1> QED BY <1>1, <1>2, TypeCorrect, PTL DEF Spec

-----------------------------------------------------------------------------
(* A reported task leaves the list.                                        *)

\* A reported task that is still listed is about to leave: the broadcast, or
\* the message it becomes, is on its way.
Leaving(u) == bcasts[u] > 0 \/ Has(looper, FinishedMsg(u))
ReportedLeaving ==
  \A r \in Requests : calls[r] > 0 /\ Has(tasks, r) => Leaving(UrlOf[r])

\* The broadcast becomes the message, and the message takes the task away.
LEMMA LeavingStays ==
  ASSUME OneRequestAUrl, TypeOK, TypeOK', [Next]_vars, ~Crash, ListedOnce,
         NEW r \in Requests, Has(tasks, r), Leaving(UrlOf[r])
  PROVE  Leaving(UrlOf[r])' \/ ~Has(tasks', r)
<1> USE DEF managerVars, persistentVars, budgetVars
<1> DEFINE u == UrlOf[r]
<1>0. u \in Urls /\ tasks \in Seq(Requests) /\ looper \in Seq(Messages)
  BY RequestAssumption DEF TypeOK
<1>1. Leaving(u)' <=> bcasts'[u] > 0 \/ Has(looper', FinishedMsg(u))
  BY DEF Leaving, FinishedMsg
<1>2. CASE bcasts[u] > 0
  <2>1. CASE ReceiveFinished(u)
    <3>1. looper' = Append(looper, FinishedMsg(u)) /\ FinishedMsg(u) \in Messages
      BY <1>0, <2>1, MessageTypes DEF ReceiveFinished
    <3>2. Has(looper', FinishedMsg(u))
      BY <1>0, <3>1, HasAppend
    <3> QED BY <1>1, <3>2
  <2>2. ASSUME NEW v \in Urls, ReceiveFinished(v), v # u PROVE bcasts'[u] = bcasts[u]
    BY <1>0, <2>2 DEF ReceiveFinished, TypeOK
  <2>3. ASSUME NEW q \in Requests, HandleProgress(q) PROVE bcasts'[u] > 0
    BY <1>0, <1>2, <2>3 DEF HandleProgress, TypeOK
  <2>4. \/ bcasts' = bcasts \/ (\E q \in Requests : HandleProgress(q))
        \/ \E v \in Urls : ReceiveFinished(v)
    BY DEF Next, vars, Handler, Worker, StartDownloadBound, StartDownloadUnbound,
       ServiceConnected, HandleBindSuc, DrainPending, DrainDone, HandleInit,
       HandleFinished, PauseDownload, LowMemory, DeleteFile, TakeJob, InitSucceeds,
       InitFails, OpenSucceeds, LoadFails, ReadChunk, CheckPause, SavePosition, ReadEnd
  <2> QED BY <1>1, <1>2, <2>1, <2>2, <2>3, <2>4
<1>3. CASE Has(looper, FinishedMsg(u))
  <2>1. ASSUME HandleFinished(u) PROVE ~Has(tasks', r)
    <3>1. PICK k \in 1..Len(tasks) : tasks[k] = r
      BY DEF Has
    <3>2. Listed(u)
      BY <3>1 DEF Listed
    <3>3. PICK i \in 1..Len(tasks) : IsFirst(i, u) /\ tasks' = Without(tasks, i)
      BY <2>1, <3>2 DEF HandleFinished, Without
    <3>4. tasks[i] \in Requests /\ UrlOf[tasks[i]] = u
      BY <1>0, <3>3, ElementOfSeq DEF IsFirst
    <3>5. tasks[i] = r
      BY <3>4 DEF OneRequestAUrl
    <3>6. \A j, l \in 1..Len(tasks) : tasks[j] = tasks[l] => j = l
      BY DEF ListedOnce
    <3>7. ~Has(Without(tasks, i), tasks[i])
      BY <1>0, <3>6, WithoutOne
    <3> QED BY <3>3, <3>5, <3>7
  <2>2. ASSUME NEW v \in Urls, HandleFinished(v), FinishedMsg(u) = FinishedMsg(v)
        PROVE  ~Has(tasks', r)
    <3>1. u = v BY <2>2 DEF FinishedMsg
    <3> QED BY <2>1, <2>2, <3>1
  <2>3. /\ FinishedMsg(u) # BindSuc
        /\ \A q \in Requests : FinishedMsg(u) # InitMsg(q) /\ FinishedMsg(u) # ProgressMsg(q)
    BY MessagesDiffer DEF FinishedMsg, BindSuc
  <2> QED BY <1>1, <1>3, <2>2, <2>3, MessageStays
<1> QED BY <1>2, <1>3 DEF Leaving

LEMMA LeavingStep ==
  ASSUME OneRequestAUrl, TypeOK, TypeOK', [Next]_vars, OneTask, ReportedLeaving
  PROVE  ReportedLeaving'
<1> USE DEF managerVars, persistentVars, budgetVars
<1>1. CASE Crash
  <2>1. tasks' = <<>> BY <1>1 DEF Crash
  <2>2. \A y : ~Has(<<>>, y) BY EmptySeq DEF Has
  <2> QED BY <2>1, <2>2 DEF ReportedLeaving
<1>2. CASE ~Crash
  <2> SUFFICES ASSUME NEW r \in Requests, calls'[r] > 0, Has(tasks', r)
               PROVE  Leaving(UrlOf[r])'
    BY DEF ReportedLeaving, Leaving, FinishedMsg
  <2>1. CASE HandleProgress(r)
    <3>1. UrlOf[r] \in Urls /\ bcasts[UrlOf[r]] \in Nat
      BY RequestAssumption DEF TypeOK
    <3>2. bcasts'[UrlOf[r]] = bcasts[UrlOf[r]] + 1
      BY <2>1, <3>1 DEF HandleProgress, TypeOK
    <3> QED BY <3>1, <3>2 DEF Leaving
  <2>2. CASE ~HandleProgress(r)
    <3>1. calls'[r] = calls[r]
      <4>1. ASSUME NEW q \in Requests, HandleProgress(q) PROVE calls'[r] = calls[r]
        BY <2>2, <4>1 DEF HandleProgress, TypeOK
      <4>2. calls' = calls \/ \E q \in Requests : HandleProgress(q)
        BY DEF Next, vars, Handler, Worker, StartDownloadBound, StartDownloadUnbound,
           ServiceConnected, HandleBindSuc, DrainPending, DrainDone, HandleInit,
           HandleFinished, ReceiveFinished, PauseDownload, LowMemory, DeleteFile,
           TakeJob, InitSucceeds, InitFails, OpenSucceeds, LoadFails, ReadChunk,
           CheckPause, SavePosition, ReadEnd, Crash
      <4> QED BY <4>1, <4>2
    <3>2. ~HandleInit(r)
      BY <1>2, <3>1, MadeBeforeCalled DEF Past
    <3>3. Has(tasks, r)
      <4>1. ASSUME NEW q \in Requests, r = q, HandleInit(q) PROVE HandleInit(r)
        BY <4>1
      <4> QED BY <1>2, <3>2, <4>1, TasksChange
    <3>4. Leaving(UrlOf[r])
      BY <3>1, <3>3 DEF ReportedLeaving
    <3>5. ListedOnce
      BY DEF OneTask
    <3> QED BY <1>2, <3>3, <3>4, <3>5, LeavingStays
  <2> QED BY <2>1, <2>2
<1> QED BY <1>1, <1>2

\* MSG_DOWNLOADING at 100%, the broadcast, MSG_DOWNLOAD_FINISHED: a task that
\* was called back and is still listed has one of the two under way, whatever
\* is paused, resumed or fails, also after a crash.  With a second request of
\* the url this is false: the message takes the first task of the url, which
\* may be the other one.
THEOREM ReportedLeavingCorrect == OneRequestAUrl => (Spec => []ReportedLeaving)
<1> SUFFICES ASSUME OneRequestAUrl PROVE Spec => []ReportedLeaving
  OBVIOUS
<1>1. Init => ReportedLeaving
  BY DEF Init, ReportedLeaving
<1>2. TypeOK /\ TypeOK' /\ OneTask /\ ReportedLeaving /\ [Next]_vars => ReportedLeaving'
  BY LeavingStep
<1> QED BY <1>1, <1>2, TypeCorrect, OneTaskCorrect, PTL DEF Spec

=============================================================================
