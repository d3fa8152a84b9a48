------------------------ MODULE DownloadReportProofs ------------------------
(***************************************************************************)
(* How often the download engine calls back, for every number of urls,     *)
(* requests, workers and chunks: an account of the callbacks a request may *)
(* still get from what is queued, waiting or running for it.               *)
(***************************************************************************)
EXTENDS DownloadProofs, FiniteSetTheorems

-----------------------------------------------------------------------------
(* Counting the places of a queue.                                         *)

Where(s, S) == {i \in 1..Len(s) : s[i] \in S}
Count(s, S) == Cardinality(Where(s, S))

\* The places of a queue are finitely many.
LEMMA CountType ==
  ASSUME NEW A, NEW s \in Seq(A), NEW S
  PROVE  IsFiniteSet(Where(s, S)) /\ Count(s, S) \in Nat
<1>1. Len(s) \in Nat
  BY LenProperties
<1>2. IsFiniteSet(1..Len(s)) /\ Where(s, S) \in SUBSET (1..Len(s))
  BY <1>1, FS_Interval DEF Where
<1>3. IsFiniteSet(Where(s, S))
  BY <1>2, FS_Subset
<1> QED BY <1>3, FS_CardinalityType DEF Count

\* An empty queue has none.
LEMMA CountEmpty == ASSUME NEW S PROVE Count(<<>>, S) = 0
<1>1. Where(<<>>, S) = {}
  BY DEF Where
<1> QED BY <1>1, FS_EmptySet DEF Count

\* What is put at the end counts once.
LEMMA CountAppend ==
  ASSUME NEW A, NEW s \in Seq(A), NEW x \in A, NEW S
  PROVE  Count(Append(s, x), S) = Count(s, S) + (IF x \in S THEN 1 ELSE 0)
<1> DEFINE t == Append(s, x)
<1>1. /\ Len(s) \in Nat /\ Len(t) = Len(s) + 1 /\ t[Len(s) + 1] = x
      /\ \A i \in 1..Len(s) : t[i] = s[i]
  BY AppendProperties, LenProperties
<1>2. Count(s, S) \in Nat /\ IsFiniteSet(Where(s, S))
  BY CountType
<1> HIDE DEF t
<1>3. CASE x \in S
  <2>1. Where(t, S) = Where(s, S) \cup {Len(s) + 1} /\ Len(s) + 1 \notin Where(s, S)
    BY <1>1, <1>3 DEF Where
  <2>2. Cardinality(Where(t, S)) = Cardinality(Where(s, S)) + 1
    BY <1>2, <2>1, FS_AddElement
  <2> QED BY <1>3, <2>2 DEF Count, t
<1>4. CASE x \notin S
  <2>1. Where(t, S) = Where(s, S)
    BY <1>1, <1>4 DEF Where
  <2> QED BY <1>2, <1>4, <2>1 DEF Count, t
<1> QED BY <1>3, <1>4

\* What is taken from the front counted once.
LEMMA CountTail ==
  ASSUME NEW A, NEW s \in Seq(A), s # <<>>, NEW S
  PROVE  Count(s, S) = Count(Tail(s), S) + (IF Head(s) \in S THEN 1 ELSE 0)
<1> DEFINE t == Tail(s)
<1>1. /\ Len(s) \in Nat \ {0} /\ Len(t) = Len(s) - 1 /\ Head(s) = s[1] /\ t \in Seq(A)
      /\ \A i \in 1..Len(t) : t[i] = s[i + 1]
  BY HeadTailProperties, LenProperties
<1>2. /\ IsFiniteSet(Where(s, S)) /\ Count(s, S) \in Nat
      /\ IsFiniteSet(Where(t, S)) /\ Count(t, S) \in Nat
  BY <1>1, CountType
<1> HIDE DEF t
<1> DEFINE Moved == Where(s, S) \ {1}
           f == [i \in Where(t, S) |-> i + 1]
<1>3. f \in Bijection(Where(t, S), Moved)
  <2>1. \A i \in Where(t, S) : i \in Int /\ i + 1 \in Moved
    BY <1>1 DEF Where
  <2>2. \A j \in Moved : j - 1 \in Where(t, S) /\ f[j - 1] = j
    BY <1>1 DEF Where
  <2>3. f \in [Where(t, S) -> Moved]
    BY <2>1
  <2>4. \A i, j \in Where(t, S) : f[i] = f[j] => i = j
    BY <2>1
  <2>5. \A j \in Moved : \E i \in Where(t, S) : f[i] = j
    BY <2>2
  <2> HIDE DEF f, Moved
  <2> QED BY <2>3, <2>4, <2>5 DEF Bijection, Injection, Surjection, IsInjective
<1>4. Cardinality(Moved) = Count(t, S)
  BY <1>2, <1>3, FS_Bijection DEF ExistsBijection, Count
<1>5. Cardinality(Moved) = IF 1 \in Where(s, S) THEN Count(s, S) - 1 ELSE Count(s, S)
  BY <1>2, FS_RemoveElement DEF Count
<1>6. 1 \in Where(s, S) <=> Head(s) \in S
  BY <1>1 DEF Where
<1> HIDE DEF Moved
<1> QED BY <1>2, <1>4, <1>5, <1>6 DEF t

\* So did what is taken from the end.
LEMMA CountFront ==
  ASSUME NEW A, NEW s \in Seq(A), s # <<>>, NEW S
  PROVE  LET n == Len(s)
         IN Count(s, S) = Count(SubSeq(s, 1, n - 1), S) + (IF s[n] \in S THEN 1 ELSE 0)
<1> DEFINE n == Len(s)
           t == SubSeq(s, 1, n - 1)
<1>1. n \in Nat \ {0}
  BY LenProperties, EmptySeq
<1>2. /\ Len(t) = n - 1 /\ \A i \in 1..Len(t) : t[i] = s[i]
  <2>1. \A i \in 1..(n - 1) : s[i] \in A
    BY <1>1, ElementOfSeq
  <2>2. /\ Len(t) = IF 1 <= n - 1 THEN n - 1 - 1 + 1 ELSE 0
        /\ \A i \in 1..(n - 1 - 1 + 1) : t[i] = s[1 + i - 1]
    BY <1>1, <2>1, SubSeqProperties
  <2> HIDE DEF t
  <2>3. Len(t) = n - 1
    <3>1. CASE 1 <= n - 1
      BY <1>1, <2>2, <3>1
    <3>2. CASE ~(1 <= n - 1)
      <4>1. \A m \in Nat \ {0} : ~(1 <= m - 1) => m - 1 = 0
        OBVIOUS
      <4>2. n - 1 = 0
        BY <1>1, <3>2, <4>1, Zenon
      <4> QED BY <2>2, <3>2, <4>2, Zenon
    <3> QED BY <3>1, <3>2
  <2>4. ASSUME NEW i \in 1..Len(t) PROVE t[i] = s[i]
    <3>1. i \in 1..(n - 1 - 1 + 1) /\ 1 + i - 1 = i
      BY <1>1, <2>3
    <3> QED BY <2>2, <3>1
  <2> QED BY <2>3, <2>4
<1>3. IsFiniteSet(Where(s, S)) /\ Count(s, S) \in Nat
  BY CountType
<1> HIDE DEF t
<1>4. Where(t, S) = Where(s, S) \ {n}
  BY <1>1, <1>2 DEF Where
<1>5. Cardinality(Where(t, S)) = IF n \in Where(s, S) THEN Count(s, S) - 1 ELSE Count(s, S)
  BY <1>3, <1>4, FS_RemoveElement DEF Count
<1>6. n \in Where(s, S) <=> s[n] \in S
  BY <1>1 DEF Where
<1> QED BY <1>3, <1>5, <1>6 DEF Count, t

\* If only w came into a finite set or left it, its size has changed by that.
LEMMA OneChanged ==
  ASSUME NEW V, NEW W, NEW w, IsFiniteSet(V), V \ {w} = W \ {w}
  PROVE  /\ IsFiniteSet(W) /\ Cardinality(V) \in Nat /\ Cardinality(W) \in Nat
         /\ Cardinality(W) + (IF w \in V THEN 1 ELSE 0)
              = Cardinality(V) + (IF w \in W THEN 1 ELSE 0)
<1> DEFINE B == V \ {w}
<1>1. /\ IsFiniteSet(B)
      /\ Cardinality(B) = IF w \in V THEN Cardinality(V) - 1 ELSE Cardinality(V)
  BY FS_RemoveElement
<1>2. W = IF w \in W THEN B \cup {w} ELSE B
  OBVIOUS
<1>3. w \notin B
  OBVIOUS
<1> HIDE DEF B
<1>4. /\ IsFiniteSet(W)
      /\ Cardinality(W) = IF w \in W THEN Cardinality(B) + 1 ELSE Cardinality(B)
  BY <1>1, <1>2, <1>3, FS_AddElement
<1>5. Cardinality(V) \in Nat /\ Cardinality(W) \in Nat
  BY <1>4, FS_CardinalityType
<1> QED BY <1>1, <1>4, <1>5

-----------------------------------------------------------------------------
(* The account of a request: callbacks made, and callbacks to come from    *)
(* the messages, jobs, waiting requests, threads and pauses it has.        *)

\* A thread that may still say 100% once, or twice.
OneLeft(t, r) == t.pc \in {"init", "open", "read", "check"} /\ t.req = r
TwoLeft(t, r) == OneLeft(t, r) /\ (t.pc \in {"init", "open"} \/ t.fin < FileLen)

Ones(r) == {w \in Workers : OneLeft(thread[w], r)}
Twos(r) == {w \in Workers : TwoLeft(thread[w], r)}

JobsOf(r) == {j \in Jobs : j.req = r}

Said(r) == Count(looper, {ProgressMsg(r)})
Inits(r) == Count(looper, {InitMsg(r)})
Works(r) == Count(pool, JobsOf(r))
Waits(r) == Count(pending, {r})
Restarts(r) == IF r \in paused THEN 1 ELSE 0

\* What it has without its threads, and with them.
Ahead(r) == Inits(r) + Works(r) + Waits(r) + Restarts(r)
Open(r) == calls[r] + Said(r) + 2 * Ahead(r)
Account(r) == Open(r) + Cardinality(Ones(r)) + Cardinality(Twos(r))

Allowed(r) == IF r \in issued THEN 2 * (1 + pauses) ELSE 0

Within(r) == IsFiniteSet(Ones(r)) /\ IsFiniteSet(Twos(r)) /\ Account(r) <= Allowed(r)

\* The position of a thread in the body is its position in the file.
Aligned ==
  \A w \in Workers :
    /\ thread[w].pc \in {"init", "open"} => thread[w].off = 0
    /\ thread[w].pc \in {"read", "check"} => thread[w].off = thread[w].fin

ListedIssued == \A i \in 1..Len(tasks) : tasks[i] \in issued

RInv == Aligned /\ ListedIssued /\ \A r \in Requests : Within(r)

\* The entries of an account are numbers.
LEMMA Entries ==
  ASSUME TypeOK, NEW r \in Requests, Within(r)
  PROVE  /\ calls[r] \in Nat /\ Said(r) \in Nat /\ Inits(r) \in Nat /\ Works(r) \in Nat
         /\ Waits(r) \in Nat /\ Restarts(r) \in Nat /\ pauses \in Nat
         /\ Cardinality(Ones(r)) \in Nat /\ Cardinality(Twos(r)) \in Nat
<1>1. /\ looper \in Seq(Messages) /\ pool \in Seq(Jobs) /\ pending \in Seq(Requests)
      /\ calls[r] \in Nat /\ pauses \in Nat
  BY BoundAssumption DEF TypeOK
<1>2. Cardinality(Ones(r)) \in Nat /\ Cardinality(Twos(r)) \in Nat
  BY FS_CardinalityType DEF Within
<1>3. Said(r) \in Nat /\ Inits(r) \in Nat
  BY <1>1, CountType DEF Said, Inits
<1>4. Works(r) \in Nat /\ Waits(r) \in Nat
  BY <1>1, CountType DEF Works, Waits
<1>5. Restarts(r) \in Nat
  BY DEF Restarts
<1> QED BY <1>1, <1>2, <1>3, <1>4, <1>5

\* A message that is sent is one more for its request.
LEMMA Sends ==
  ASSUME TypeOK, NEW m \in Messages, looper' = Append(looper, m), NEW r \in Requests
  PROVE  /\ Said(r)' = Said(r) + (IF m = ProgressMsg(r) THEN 1 ELSE 0)
         /\ Inits(r)' = Inits(r) + (IF m = InitMsg(r) THEN 1 ELSE 0)
<1>1. looper \in Seq(Messages)
  BY DEF TypeOK
<1>2. /\ Count(Append(looper, m), {ProgressMsg(r)})
           = Count(looper, {ProgressMsg(r)}) + (IF m \in {ProgressMsg(r)} THEN 1 ELSE 0)
      /\ Count(Append(looper, m), {InitMsg(r)})
           = Count(looper, {InitMsg(r)}) + (IF m \in {InitMsg(r)} THEN 1 ELSE 0)
  BY <1>1, CountAppend
<1>3. /\ Said(r)' = Count(Append(looper, m), {ProgressMsg(r)})
      /\ Inits(r)' = Count(Append(looper, m), {InitMsg(r)})
  BY Zenon DEF Said, Inits
<1> QED BY <1>2, <1>3 DEF Said, Inits

\* A message that is taken is one less.
LEMMA Takes ==
  ASSUME TypeOK, NEW m, Dispatch(m), NEW r \in Requests
  PROVE  /\ Said(r) = Said(r)' + (IF m = ProgressMsg(r) THEN 1 ELSE 0)
         /\ Inits(r) = Inits(r)' + (IF m = InitMsg(r) THEN 1 ELSE 0)
         /\ Said(r)' \in Nat /\ Inits(r)' \in Nat
<1>1. looper \in Seq(Messages) /\ looper # <<>> /\ m = Head(looper) /\ looper' = Tail(looper)
  BY DEF TypeOK, Dispatch
<1>2. /\ Count(looper, {ProgressMsg(r)})
           = Count(Tail(looper), {ProgressMsg(r)})
               + (IF Head(looper) \in {ProgressMsg(r)} THEN 1 ELSE 0)
      /\ Count(looper, {InitMsg(r)})
           = Count(Tail(looper), {InitMsg(r)})
               + (IF Head(looper) \in {InitMsg(r)} THEN 1 ELSE 0)
  BY <1>1, CountTail
<1>3. /\ Said(r)' = Count(Tail(looper), {ProgressMsg(r)})
      /\ Inits(r)' = Count(Tail(looper), {InitMsg(r)})
  BY <1>1, Zenon DEF Said, Inits
<1>4. Tail(looper) \in Seq(Messages)
  BY <1>1, HeadTailProperties
<1>5. /\ Count(Tail(looper), {ProgressMsg(r)}) \in Nat
      /\ Count(Tail(looper), {InitMsg(r)}) \in Nat
  BY <1>4, CountType
<1> QED BY <1>1, <1>2, <1>3, <1>5 DEF Said, Inits

\* A job that is given to the pool is one more for its request.
LEMMA Gives ==
  ASSUME TypeOK, NEW job \in Jobs, pool' = Append(pool, job), NEW r \in Requests
  PROVE  Works(r)' = Works(r) + (IF job.req = r THEN 1 ELSE 0)
<1>1. pool \in Seq(Jobs)
  BY DEF TypeOK
<1>2. Count(Append(pool, job), JobsOf(r))
        = Count(pool, JobsOf(r)) + (IF job \in JobsOf(r) THEN 1 ELSE 0)
  BY <1>1, CountAppend
<1>3. Works(r)' = Count(Append(pool, job), JobsOf(r))
  BY Zenon DEF Works, JobsOf
<1>4. job \in JobsOf(r) <=> job.req = r
  BY DEF JobsOf
<1> QED BY <1>2, <1>3, <1>4 DEF Works

LEMMA LaunchGives ==
  ASSUME TypeOK, NEW p \in Requests, LaunchThread(p), NEW r \in Requests
  PROVE  Works(r)' = Works(r) + (IF p = r THEN 1 ELSE 0)
<1> DEFINE from == IF rows[UrlOf[p]] = NoRow THEN 0 ELSE rows[UrlOf[p]]
<1>1. from \in Nat
  BY RequestAssumption DEF TypeOK, NoRow
<1>2. LoadJob(p, from) \in Jobs /\ LoadJob(p, from).req = p
  BY <1>1 DEF LoadJob, Jobs
<1>3. pool' = Append(pool, LoadJob(p, from))
  BY DEF LaunchThread
<1> HIDE DEF from
<1> QED BY <1>2, <1>3, Gives

\* DownloadService.download makes one job, or takes up a pause instead.
LEMMA Serves ==
  ASSUME TypeOK, NEW p \in Requests, ServiceDownload(p), NEW r \in Requests, Works(r) \in Nat
  PROVE  /\ Works(r)' \in Nat /\ Restarts(r)' \in Nat
         /\ Works(r)' + Restarts(r)' <= Works(r) + Restarts(r) + (IF p = r THEN 1 ELSE 0)
<1>1. CASE pool' = Append(pool, InitJob(p)) /\ UNCHANGED <<paused, rows>>
  <2>1. InitJob(p) \in Jobs /\ InitJob(p).req = p
    BY DEF InitJob, Jobs
  <2>2. Works(r)' = Works(r) + (IF p = r THEN 1 ELSE 0)
    BY <1>1, <2>1, Gives
  <2>3. Restarts(r)' = Restarts(r) /\ Restarts(r) \in Nat
    BY <1>1 DEF Restarts
  <2> QED BY <2>2, <2>3
<1>2. CASE UNCHANGED <<paused, rows, pool>>
  <2>1. Works(r)' = Works(r)
    BY <1>2, Zenon DEF Works, JobsOf
  <2>2. Restarts(r)' = Restarts(r) /\ Restarts(r) \in Nat
    BY <1>2 DEF Restarts
  <2> QED BY <2>1, <2>2
<1>3. ASSUME NEW i \in 1..Len(tasks), tasks[i] \in paused, Restart(tasks[i])
      PROVE  /\ Works(r)' \in Nat /\ Restarts(r)' \in Nat
             /\ Works(r)' + Restarts(r)' <= Works(r) + Restarts(r)
  <2>1. tasks[i] \in Requests
    BY <1>3 DEF TypeOK
  <2>2. Works(r)' = Works(r) + (IF tasks[i] = r THEN 1 ELSE 0)
    BY <1>3, <2>1, LaunchGives DEF Restart
  <2>3. Restarts(r)' = Restarts(r) - (IF tasks[i] = r THEN 1 ELSE 0)
        /\ Restarts(r) \in Nat /\ Restarts(r)' \in Nat
    BY <1>3 DEF Restart, Restarts
  <2> QED BY <2>2, <2>3
<1>4. Works(r) + Restarts(r) <= Works(r) + Restarts(r) + (IF p = r THEN 1 ELSE 0)
  BY DEF Restarts
<1>5. CASE \E i \in 1..Len(tasks) : tasks[i] \in paused /\ Restart(tasks[i])
  <2>1. PICK i \in 1..Len(tasks) : tasks[i] \in paused /\ Restart(tasks[i])
    BY <1>5
  <2>2. /\ Works(r)' \in Nat /\ Restarts(r)' \in Nat
        /\ Works(r)' + Restarts(r)' <= Works(r) + Restarts(r)
    BY <1>3, <2>1
  <2>3. Restarts(r) \in Nat
    BY DEF Restarts
  <2> QED BY <2>2, <2>3
<1> QED BY <1>1, <1>2, <1>5 DEF ServiceDownload

\* A worker that becomes another thread changes what is left by that.
LEMMA Turns ==
  ASSUME TypeOK, NEW w \in Workers, NEW t, thread' = [thread EXCEPT ![w] = t],
         NEW r \in Requests, Within(r)
  PROVE  /\ IsFiniteSet(Ones(r)') /\ IsFiniteSet(Twos(r)')
         /\ Cardinality(Ones(r))' \in Nat /\ Cardinality(Twos(r))' \in Nat
         /\ Cardinality(Ones(r))' + (IF OneLeft(thread[w], r) THEN 1 ELSE 0)
              = Cardinality(Ones(r)) + (IF OneLeft(t, r) THEN 1 ELSE 0)
         /\ Cardinality(Twos(r))' + (IF TwoLeft(thread[w], r) THEN 1 ELSE 0)
              = Cardinality(Twos(r)) + (IF TwoLeft(t, r) THEN 1 ELSE 0)
<1>1. thread'[w] = t /\ \A v \in Workers \ {w} : thread'[v] = thread[v]
  BY DEF TypeOK
<1>2. /\ Ones(r)' = {v \in Workers : OneLeft(thread'[v], r)}
      /\ Twos(r)' = {v \in Workers : TwoLeft(thread'[v], r)}
  BY DEF Ones, Twos, TwoLeft, OneLeft
<1>3. /\ Ones(r) \ {w} = Ones(r)' \ {w}
      /\ w \in Ones(r) <=> OneLeft(thread[w], r)
      /\ w \in Ones(r)' <=> OneLeft(t, r)
  BY <1>1, <1>2 DEF Ones
<1>4. /\ Twos(r) \ {w} = Twos(r)' \ {w}
      /\ w \in Twos(r) <=> TwoLeft(thread[w], r)
      /\ w \in Twos(r)' <=> TwoLeft(t, r)
  BY <1>1, <1>2 DEF Twos
<1>5. IsFiniteSet(Ones(r)) /\ IsFiniteSet(Twos(r))
  BY DEF Within
<1>6. /\ IsFiniteSet(Ones(r)') /\ Cardinality(Ones(r)) \in Nat /\ Cardinality(Ones(r)') \in Nat
      /\ Cardinality(Ones(r)') + (IF w \in Ones(r) THEN 1 ELSE 0)
           = Cardinality(Ones(r)) + (IF w \in Ones(r)' THEN 1 ELSE 0)
  BY <1>3, <1>5, OneChanged
<1>7. /\ IsFiniteSet(Twos(r)') /\ Cardinality(Twos(r)) \in Nat /\ Cardinality(Twos(r)') \in Nat
      /\ Cardinality(Twos(r)') + (IF w \in Twos(r) THEN 1 ELSE 0)
           = Cardinality(Twos(r)) + (IF w \in Twos(r)' THEN 1 ELSE 0)
  BY <1>4, <1>5, OneChanged
<1> QED BY <1>3, <1>4, <1>6, <1>7

\* Messages are the same only if they say the same of the same request.
LEMMA MessagesDiffer ==
  ASSUME NEW q, NEW r, NEW u
  PROVE  /\ ProgressMsg(q) = ProgressMsg(r) <=> q = r
         /\ InitMsg(q) = InitMsg(r) <=> q = r
         /\ ProgressMsg(q) # InitMsg(r) /\ InitMsg(q) # ProgressMsg(r)
         /\ BindSuc # InitMsg(r) /\ BindSuc # ProgressMsg(r)
         /\ FinishedMsg(u) # InitMsg(r) /\ FinishedMsg(u) # ProgressMsg(r)
<1>1. /\ ProgressMsg(q).what = "PROGRESS" /\ ProgressMsg(q).req = q
      /\ ProgressMsg(r).what = "PROGRESS" /\ ProgressMsg(r).req = r
      /\ InitMsg(q).what = "INIT" /\ InitMsg(q).req = q
      /\ InitMsg(r).what = "INIT" /\ InitMsg(r).req = r
      /\ BindSuc.what = "BIND_SUC" /\ FinishedMsg(u).what = "FINISHED"
  BY DEF ProgressMsg, InitMsg, BindSuc, FinishedMsg
<1>2. /\ ProgressMsg(q) = ProgressMsg(r) <=> q = r
      /\ InitMsg(q) = InitMsg(r) <=> q = r
  BY <1>1 DEF ProgressMsg, InitMsg
<1> QED BY <1>1, <1>2

\* notifyProgress says 100% once, from the last chunk on.
LEMMA Notifies ==
  ASSUME TypeOK, NEW q \in Requests, NEW fin \in Nat, Notify(q, fin), NEW r \in Requests
  PROVE  /\ Said(r)' = Said(r) + (IF fin >= FileLen /\ q = r THEN 1 ELSE 0)
         /\ Inits(r)' = Inits(r)
<1>0. Said(r) \in Nat /\ Inits(r) \in Nat
  BY CountType DEF Said, Inits, TypeOK
<1>1. CASE fin >= FileLen
  <2>1. looper' = Append(looper, ProgressMsg(q)) /\ ProgressMsg(q) \in Messages
    BY <1>1, MessageTypes DEF Notify
  <2>2. /\ Said(r)' = Said(r) + (IF ProgressMsg(q) = ProgressMsg(r) THEN 1 ELSE 0)
        /\ Inits(r)' = Inits(r) + (IF ProgressMsg(q) = InitMsg(r) THEN 1 ELSE 0)
    BY <2>1, Sends
  <2>3. ProgressMsg(q) = ProgressMsg(r) <=> q = r
    BY MessagesDiffer
  <2>4. ProgressMsg(q) # InitMsg(r)
    BY MessagesDiffer
  <2> QED BY <1>0, <1>1, <2>2, <2>3, <2>4
<1>2. CASE ~(fin >= FileLen)
  <2>1. UNCHANGED looper
    BY <1>2 DEF Notify
  <2>2. Said(r)' = Said(r) /\ Inits(r)' = Inits(r)
    BY <2>1, Zenon DEF Said, Inits
  <2> QED BY <1>0, <1>2, <2>2
<1> QED BY <1>1, <1>2

\* An account stays within what is allowed if what a step takes from one of
\* its entries is all that it adds to the others.
LEMMA Balance ==
  ASSUME TypeOK, TypeOK', NEW r \in Requests, Within(r),
         UNCHANGED <<calls, pending, paused, issued, pauses>>,
         IsFiniteSet(Ones(r)'), IsFiniteSet(Twos(r)'),
         Said(r)' + Cardinality(Ones(r))' + Cardinality(Twos(r))'
             + 2 * (Inits(r)' + Works(r)')
           <= Said(r) + Cardinality(Ones(r)) + Cardinality(Twos(r))
                + 2 * (Inits(r) + Works(r))
  PROVE  Within(r)'
<1>1. /\ calls[r] \in Nat /\ Said(r) \in Nat /\ Inits(r) \in Nat /\ Works(r) \in Nat
      /\ Waits(r) \in Nat /\ Restarts(r) \in Nat /\ pauses \in Nat
      /\ Cardinality(Ones(r)) \in Nat /\ Cardinality(Twos(r)) \in Nat
  BY Entries
<1>2. looper' \in Seq(Messages) /\ pool' \in Seq(Jobs)
  BY DEF TypeOK
<1>3. Said(r)' \in Nat /\ Inits(r)' \in Nat /\ Works(r)' \in Nat
  <2>1. /\ Said(r)' = Count(looper', {ProgressMsg(r)})
        /\ Inits(r)' = Count(looper', {InitMsg(r)})
        /\ Works(r)' = Count(pool', JobsOf(r))
    BY Zenon DEF Said, Inits, Works, JobsOf
  <2> QED BY <1>2, <2>1, CountType
<1>4. Cardinality(Ones(r))' \in Nat /\ Cardinality(Twos(r))' \in Nat
  BY FS_CardinalityType
<1>5. Waits(r)' = Waits(r)
  BY Zenon DEF Waits
<1>6. Restarts(r)' = Restarts(r) /\ Allowed(r)' = Allowed(r) /\ calls'[r] = calls[r]
  BY DEF Restarts, Allowed
<1>7. Account(r) <= Allowed(r) /\ Allowed(r) \in Nat
  BY <1>1 DEF Within, Allowed
<1>8. Account(r)' <= Account(r)
  BY <1>1, <1>3, <1>4, <1>5, <1>6 DEF Account, Open, Ahead
<1>9. Account(r) \in Nat /\ Account(r)' \in Nat
  BY <1>1, <1>3, <1>4, <1>5, <1>6 DEF Account, Open, Ahead
<1>10. Account(r)' <= Allowed(r)'
  BY <1>6, <1>7, <1>8, <1>9
<1> QED BY <1>10 DEF Within

\* No step of a worker makes more callbacks possible.
LEMMA WorkerWithin ==
  ASSUME HonoursRange, TypeOK, TypeOK', Aligned, NEW w \in Workers, Worker(w),
         NEW r \in Requests, Within(r)
  PROVE  Within(r)'
<1> DEFINE t == thread[w]
           Left(x) == /\ IsFiniteSet(Ones(r)') /\ IsFiniteSet(Twos(r)')
                      /\ Cardinality(Ones(r))' \in Nat /\ Cardinality(Twos(r))' \in Nat
                      /\ Cardinality(Ones(r))' + (IF OneLeft(t, r) THEN 1 ELSE 0)
                           = Cardinality(Ones(r)) + (IF OneLeft(x, r) THEN 1 ELSE 0)
                      /\ Cardinality(Twos(r))' + (IF TwoLeft(t, r) THEN 1 ELSE 0)
                           = Cardinality(Twos(r)) + (IF TwoLeft(x, r) THEN 1 ELSE 0)
<1> USE DEF managerVars, persistentVars, budgetVars
<1>1. /\ Said(r) \in Nat /\ Inits(r) \in Nat /\ Works(r) \in Nat
      /\ Cardinality(Ones(r)) \in Nat /\ Cardinality(Twos(r)) \in Nat
  BY Entries
<1>2. t \in {IdleThread} \cup RunningThreads
  BY DEF TypeOK
<1>3. t.pc # "idle" => t \in RunningThreads /\ t.req \in Requests /\ t.fin \in Nat /\ t.off \in Nat
  BY <1>2, RunningType
<1>4. /\ t.pc \in {"init", "open"} => t.off = 0
      /\ t.pc \in {"read", "check"} => t.off = t.fin
  BY DEF Aligned
<1>5. FileLen \in Nat
  BY LengthAssumption
<1>6. ~OneLeft(IdleThread, r) /\ ~TwoLeft(IdleThread, r)
  BY DEF OneLeft, TwoLeft, IdleThread
<1>7. ASSUME NEW x, thread' = [thread EXCEPT ![w] = x] PROVE Left(x)
  BY <1>7, Turns
<1>8. ASSUME UNCHANGED looper PROVE Said(r)' = Said(r) /\ Inits(r)' = Inits(r)
  BY <1>8, Zenon DEF Said, Inits
<1>9. ASSUME UNCHANGED pool PROVE Works(r)' = Works(r)
  BY <1>9, Zenon DEF Works, JobsOf
<1>10. CASE TakeJob(w)
  <2> DEFINE job == Head(pool)
             x == [pc |-> IF job.kind = "init" THEN "init" ELSE "open", req |-> job.req,
                   fin |-> job.from, off |-> 0, orphan |-> FALSE]
  <2>1. pool \in Seq(Jobs) /\ pool # <<>> /\ pool' = Tail(pool)
    BY <1>10 DEF TakeJob, TypeOK
  <2>2. job \in Jobs
    BY <2>1, HeadTailProperties
  <2>3. Count(pool, JobsOf(r))
          = Count(Tail(pool), JobsOf(r)) + (IF Head(pool) \in JobsOf(r) THEN 1 ELSE 0)
    BY <2>1, CountTail
  <2>4. Works(r)' = Count(Tail(pool), JobsOf(r)) /\ Works(r)' \in Nat
    <3>1. Tail(pool) \in Seq(Jobs)
      BY <2>1, HeadTailProperties
    <3>2. Works(r)' = Count(Tail(pool), JobsOf(r))
      BY <2>1, Zenon DEF Works, JobsOf
    <3> QED BY <3>1, <3>2, CountType
  <2>5. Works(r) = Works(r)' + (IF job.req = r THEN 1 ELSE 0)
    BY <2>2, <2>3, <2>4 DEF Works, JobsOf
  <2>6. thread' = [thread EXCEPT ![w] = x] /\ t.pc = "idle"
    BY <1>10 DEF TakeJob, Become, At
  <2>7. /\ OneLeft(x, r) <=> job.req = r
        /\ TwoLeft(x, r) <=> job.req = r
        /\ ~OneLeft(t, r) /\ ~TwoLeft(t, r)
    BY <2>6 DEF OneLeft, TwoLeft
  <2>8. Left(x)
    BY <1>7, <2>6
  <2>9. Said(r)' = Said(r) /\ Inits(r)' = Inits(r)
    BY <1>8, <1>10 DEF TakeJob
  <2> HIDE DEF t, job, x
  <2>10. Said(r)' + Cardinality(Ones(r))' + Cardinality(Twos(r))'
             + 2 * (Inits(r)' + Works(r)')
           <= Said(r) + Cardinality(Ones(r)) + Cardinality(Twos(r))
                + 2 * (Inits(r) + Works(r))
    BY <1>1, <2>4, <2>5, <2>7, <2>8, <2>9
  <2> QED BY <1>10, <2>8, <2>10, Balance DEF TakeJob
<1>11. CASE InitSucceeds(w)
  <2>1. t.pc = "init" /\ t.req \in Requests /\ thread' = [thread EXCEPT ![w] = IdleThread]
        /\ looper' = Append(looper, InitMsg(t.req))
    BY <1>3, <1>11 DEF InitSucceeds, Become, At
  <2>2. InitMsg(t.req) \in Messages
    BY <2>1, MessageTypes
  <2>3. /\ Said(r)' = Said(r) + (IF InitMsg(t.req) = ProgressMsg(r) THEN 1 ELSE 0)
        /\ Inits(r)' = Inits(r) + (IF InitMsg(t.req) = InitMsg(r) THEN 1 ELSE 0)
    BY <2>1, <2>2, Sends
  <2>4. (InitMsg(t.req) = InitMsg(r) <=> t.req = r) /\ InitMsg(t.req) # ProgressMsg(r)
    BY MessagesDiffer
  <2>5. Left(IdleThread) /\ Works(r)' = Works(r)
    BY <1>7, <1>9, <1>11, <2>1 DEF InitSucceeds
  <2>6. (OneLeft(t, r) <=> t.req = r) /\ (TwoLeft(t, r) <=> t.req = r)
    BY <2>1 DEF OneLeft, TwoLeft
  <2> HIDE DEF t
  <2>7. Said(r)' + Cardinality(Ones(r))' + Cardinality(Twos(r))'
             + 2 * (Inits(r)' + Works(r)')
           <= Said(r) + Cardinality(Ones(r)) + Cardinality(Twos(r))
                + 2 * (Inits(r) + Works(r))
    BY <1>1, <1>6, <2>3, <2>4, <2>5, <2>6
  <2> QED BY <1>11, <2>5, <2>7, Balance DEF InitSucceeds
<1>12. CASE InitFails(w) \/ LoadFails(w) \/ SavePosition(w)
  <2>1. thread' = [thread EXCEPT ![w] = IdleThread]
    BY <1>12 DEF InitFails, LoadFails, SavePosition, Become
  <2>2. Said(r)' = Said(r) /\ Inits(r)' = Inits(r) /\ Works(r)' = Works(r)
    BY <1>8, <1>9, <1>12 DEF InitFails, LoadFails, SavePosition
  <2>3. Left(IdleThread)
    BY <1>7, <2>1
  <2> HIDE DEF t
  <2>4. Said(r)' + Cardinality(Ones(r))' + Cardinality(Twos(r))'
             + 2 * (Inits(r)' + Works(r)')
           <= Said(r) + Cardinality(Ones(r)) + Cardinality(Twos(r))
                + 2 * (Inits(r) + Works(r))
    BY <1>1, <1>6, <2>2, <2>3
  <2> QED BY <1>12, <2>3, <2>4, Balance DEF InitFails, LoadFails, SavePosition
<1>13. CASE OpenSucceeds(w)
  <2> DEFINE x == [t EXCEPT !.pc = "read", !.off = IF HonoursRange THEN @ + t.fin ELSE @]
  <2>1. t.pc = "open" /\ ~PastEnd(t) /\ thread' = [thread EXCEPT ![w] = x]
    BY <1>13 DEF OpenSucceeds, Become, At
  <2>2. t \in RunningThreads /\ t.fin \in Nat /\ t.fin < FileLen
    BY <1>3, <1>5, <2>1 DEF PastEnd
  <2>3. x.pc = "read" /\ x.req = t.req /\ x.fin = t.fin
    BY <2>2 DEF RunningThreads
  <2>4. /\ OneLeft(t, r) <=> t.req = r
        /\ TwoLeft(t, r) <=> t.req = r
        /\ OneLeft(x, r) <=> t.req = r
        /\ TwoLeft(x, r) <=> t.req = r
    BY <2>1, <2>2, <2>3 DEF OneLeft, TwoLeft
  <2>5. Left(x)
    BY <1>7, <2>1
  <2>6. Said(r)' = Said(r) /\ Inits(r)' = Inits(r) /\ Works(r)' = Works(r)
    BY <1>8, <1>9, <1>13 DEF OpenSucceeds
  <2> HIDE DEF t, x
  <2>7. Said(r)' + Cardinality(Ones(r))' + Cardinality(Twos(r))'
             + 2 * (Inits(r)' + Works(r)')
           <= Said(r) + Cardinality(Ones(r)) + Cardinality(Twos(r))
                + 2 * (Inits(r) + Works(r))
    BY <1>1, <2>4, <2>5, <2>6
  <2> QED BY <1>13, <2>5, <2>7, Balance DEF OpenSucceeds
<1>14. CASE ReadChunk(w)
  <2> DEFINE x == [t EXCEPT !.pc = "check", !.fin = @ + 1, !.off = @ + 1]
  <2>1. /\ t.pc = "read" /\ t.off < FileLen /\ thread' = [thread EXCEPT ![w] = x]
        /\ Notify(t.req, t.fin + 1) \/ UNCHANGED looper
    BY <1>14 DEF ReadChunk, Become, At
  <2>2. t \in RunningThreads /\ t.req \in Requests /\ t.fin \in Nat /\ t.fin < FileLen
    BY <1>3, <1>4, <2>1
  <2>3. x.pc = "check" /\ x.req = t.req /\ x.fin = t.fin + 1
    BY <2>2 DEF RunningThreads
  <2>4. /\ OneLeft(t, r) <=> t.req = r
        /\ TwoLeft(t, r) <=> t.req = r
        /\ OneLeft(x, r) <=> t.req = r
        /\ TwoLeft(x, r) <=> t.req = r /\ t.fin + 1 < FileLen
    BY <2>1, <2>2, <2>3 DEF OneLeft, TwoLeft
  <2>5. Left(x)
    BY <1>7, <2>1
  <2>6. Works(r)' = Works(r)
    BY <1>9, <1>14 DEF ReadChunk
  <2>7. /\ Inits(r)' = Inits(r)
        /\ Said(r)' \in {Said(r), Said(r) + (IF t.fin + 1 >= FileLen /\ t.req = r THEN 1 ELSE 0)}
    <3>1. CASE UNCHANGED looper
      BY <1>8, <3>1
    <3>2. CASE Notify(t.req, t.fin + 1)
      <4>1. t.fin + 1 \in Nat
        BY <2>2
      <4> HIDE DEF t
      <4> QED BY <2>2, <3>2, <4>1, Notifies
    <3> QED BY <2>1, <3>1, <3>2
  <2> HIDE DEF t, x
  <2>8. Said(r)' + Cardinality(Ones(r))' + Cardinality(Twos(r))'
             + 2 * (Inits(r)' + Works(r)')
           <= Said(r) + Cardinality(Ones(r)) + Cardinality(Twos(r))
                + 2 * (Inits(r) + Works(r))
    BY <1>1, <1>5, <2>2, <2>4, <2>5, <2>6, <2>7
  <2> QED BY <1>14, <2>5, <2>8, Balance DEF ReadChunk
<1>15. CASE CheckPause(w)
  <2> DEFINE x == [t EXCEPT !.pc = IF t.req \in paused THEN "save" ELSE "read"]
  <2>1. /\ t.pc = "check" /\ thread' = [thread EXCEPT ![w] = x]
        /\ IF t.req \in paused THEN Notify(t.req, t.fin) ELSE UNCHANGED looper
    BY <1>15 DEF CheckPause, Goto, At
  <2>2. t \in RunningThreads /\ t.req \in Requests /\ t.fin \in Nat
    BY <1>3, <2>1
  <2>3. x.pc = (IF t.req \in paused THEN "save" ELSE "read") /\ x.req = t.req /\ x.fin = t.fin
    BY <2>2 DEF RunningThreads
  <2>4. /\ OneLeft(t, r) <=> t.req = r
        /\ TwoLeft(t, r) <=> t.req = r /\ t.fin < FileLen
        /\ OneLeft(x, r) <=> t.req = r /\ t.req \notin paused
        /\ TwoLeft(x, r) <=> t.req = r /\ t.req \notin paused /\ t.fin < FileLen
    BY <2>1, <2>2, <2>3 DEF OneLeft, TwoLeft
  <2>5. Left(x)
    BY <1>7, <2>1
  <2>6. Works(r)' = Works(r)
    BY <1>9, <1>15 DEF CheckPause
  <2>7. /\ Inits(r)' = Inits(r)
        /\ Said(r)' = Said(r)
             + (IF t.req \in paused /\ t.fin >= FileLen /\ t.req = r THEN 1 ELSE 0)
    <3>1. CASE t.req \notin paused
      BY <1>1, <1>8, <2>1, <3>1
    <3>2. CASE t.req \in paused
      <4>1. Notify(t.req, t.fin)
        BY <2>1, <3>2
      <4> HIDE DEF t
      <4> QED BY <2>2, <3>2, <4>1, Notifies
    <3> QED BY <3>1, <3>2
  <2> HIDE DEF t, x
  <2>8. Said(r)' + Cardinality(Ones(r))' + Cardinality(Twos(r))'
             + 2 * (Inits(r)' + Works(r)')
           <= Said(r) + Cardinality(Ones(r)) + Cardinality(Twos(r))
                + 2 * (Inits(r) + Works(r))
    BY <1>1, <1>5, <2>2, <2>4, <2>5, <2>6, <2>7
  <2> QED BY <1>15, <2>5, <2>8, Balance DEF CheckPause
<1>16. CASE ReadEnd(w)
  <2>1. t.pc = "read" /\ t.off >= FileLen /\ thread' = [thread EXCEPT ![w] = IdleThread]
        /\ Notify(t.req, t.fin)
    BY <1>16 DEF ReadEnd, Become, At
  <2>2. t \in RunningThreads /\ t.req \in Requests /\ t.fin \in Nat /\ t.fin >= FileLen
    BY <1>3, <1>4, <2>1
  <2>3. (OneLeft(t, r) <=> t.req = r) /\ ~TwoLeft(t, r)
    BY <1>5, <2>1, <2>2 DEF OneLeft, TwoLeft
  <2>4. Left(IdleThread) /\ Works(r)' = Works(r)
    BY <1>7, <1>9, <1>16, <2>1 DEF ReadEnd
  <2> HIDE DEF t
  <2>5. Inits(r)' = Inits(r) /\ Said(r)' = Said(r) + (IF t.req = r THEN 1 ELSE 0)
    BY <2>1, <2>2, Notifies
  <2>6. Said(r)' + Cardinality(Ones(r))' + Cardinality(Twos(r))'
             + 2 * (Inits(r)' + Works(r)')
           <= Said(r) + Cardinality(Ones(r)) + Cardinality(Twos(r))
                + 2 * (Inits(r) + Works(r))
    BY <1>1, <1>6, <2>3, <2>4, <2>5
  <2> QED BY <1>16, <2>4, <2>6, Balance DEF ReadEnd
<1> QED BY <1>10, <1>11, <1>12, <1>13, <1>14, <1>15, <1>16 DEF Worker

\* What a request has is a number.
LEMMA OpenType ==
  ASSUME TypeOK, NEW r \in Requests
  PROVE  Ahead(r) \in Nat /\ Open(r) \in Nat /\ Allowed(r) \in Nat
<1>1. /\ looper \in Seq(Messages) /\ pool \in Seq(Jobs) /\ pending \in Seq(Requests)
      /\ calls[r] \in Nat /\ pauses \in Nat
  BY BoundAssumption DEF TypeOK
<1>2. Said(r) \in Nat /\ Inits(r) \in Nat
  BY <1>1, CountType DEF Said, Inits
<1>3. Works(r) \in Nat /\ Waits(r) \in Nat
  BY <1>1, CountType DEF Works, Waits
<1>4. Restarts(r) \in Nat
  BY DEF Restarts
<1>5. Ahead(r) \in Nat
  BY <1>2, <1>3, <1>4 DEF Ahead
<1>6. calls[r] \in Nat /\ pauses \in Nat
  BY <1>1
<1>7. Open(r) \in Nat
  BY <1>2, <1>5, <1>6 DEF Open
<1>8. Allowed(r) \in Nat
  BY <1>6 DEF Allowed
<1> QED BY <1>5, <1>7, <1>8

LEMMA OpenTypeNext ==
  ASSUME TypeOK', NEW r \in Requests
  PROVE  Ahead(r)' \in Nat /\ Open(r)' \in Nat /\ Allowed(r)' \in Nat
<1>1. /\ looper' \in Seq(Messages) /\ pool' \in Seq(Jobs) /\ pending' \in Seq(Requests)
      /\ calls'[r] \in Nat /\ pauses' \in Nat
  BY BoundAssumption DEF TypeOK
<1>2. /\ Said(r)' = Count(looper', {ProgressMsg(r)})
      /\ Inits(r)' = Count(looper', {InitMsg(r)})
      /\ Works(r)' = Count(pool', JobsOf(r))
      /\ Waits(r)' = Count(pending', {r})
  BY Zenon DEF Said, Inits, Works, Waits, JobsOf
<1>3. Said(r)' \in Nat /\ Inits(r)' \in Nat
  BY <1>1, <1>2, CountType
<1>4. Works(r)' \in Nat /\ Waits(r)' \in Nat /\ Restarts(r)' \in Nat
  <2>1. Restarts(r)' \in Nat
    BY DEF Restarts
  <2> QED BY <1>1, <1>2, <2>1, CountType
<1>5. Ahead(r)' \in Nat
  BY <1>3, <1>4 DEF Ahead
<1>6. calls'[r] \in Nat /\ pauses' \in Nat
  BY <1>1
<1>7. Open(r)' \in Nat
  BY <1>3, <1>5, <1>6 DEF Open
<1>8. Allowed(r)' \in Nat
  <2>1. \A n \in Nat : 2 * (1 + n) \in Nat
    OBVIOUS
  <2>2. 2 * (1 + pauses') \in Nat /\ 0 \in Nat
    BY <1>6, <2>1, Zenon
  <2> QED BY <2>2, Zenon DEF Allowed
<1> QED BY <1>5, <1>7, <1>8

\* The same for the steps of the main thread, which leave the workers alone;
\* what a step allows more it may add.
LEMMA MainBalance ==
  ASSUME TypeOK, TypeOK', NEW r \in Requests, Within(r), UNCHANGED thread,
         Open(r)' + Allowed(r) <= Open(r) + Allowed(r)'
  PROVE  Within(r)'
<1>1. Open(r) \in Nat /\ Allowed(r) \in Nat
  BY OpenType
<1>2. Open(r)' \in Nat /\ Allowed(r)' \in Nat
  BY OpenTypeNext
<1>3. Ones(r)' = Ones(r) /\ Twos(r)' = Twos(r)
  BY DEF Ones, Twos
<1>4. Cardinality(Ones(r)) \in Nat /\ Cardinality(Twos(r)) \in Nat
  BY FS_CardinalityType DEF Within
<1>5. Open(r) + Cardinality(Ones(r)) + Cardinality(Twos(r)) <= Allowed(r)
  BY DEF Within, Account
<1>6. Open(r)' + Cardinality(Ones(r)) + Cardinality(Twos(r)) <= Allowed(r)'
  BY <1>1, <1>2, <1>4, <1>5
<1>7. Account(r)' <= Allowed(r)'
  BY <1>3, <1>6 DEF Account
<1> QED BY <1>3, <1>7 DEF Within

\* Nothing is under way for a request that was not made.
LEMMA Unissued ==
  ASSUME TypeOK, NEW r \in Requests, Within(r), r \notin issued
  PROVE  Inits(r) = 0 /\ Restarts(r) = 0
<1>1. /\ Inits(r) \in Nat /\ Works(r) \in Nat /\ Waits(r) \in Nat /\ Restarts(r) \in Nat
  BY Entries
<1>2. /\ calls[r] \in Nat /\ Said(r) \in Nat
      /\ Cardinality(Ones(r)) \in Nat /\ Cardinality(Twos(r)) \in Nat
  BY Entries
<1>3. Open(r) \in Nat /\ Ahead(r) \in Nat
  BY OpenType
<1>4. Open(r) + Cardinality(Ones(r)) + Cardinality(Twos(r)) <= 0
  BY DEF Within, Allowed, Account
<1>5. Open(r) = 0
  BY <1>2, <1>3, <1>4
<1>6. Ahead(r) = 0
  BY <1>2, <1>3, <1>5 DEF Open
<1> QED BY <1>1, <1>6 DEF Ahead

\* A request brings what two callbacks need, and what is allowed with it.
LEMMA StartWithin ==
  ASSUME TypeOK, TypeOK', NEW p \in Requests,
         StartDownloadBound(p) \/ StartDownloadUnbound(p), NEW r \in Requests, Within(r)
  PROVE  Within(r)'
<1> USE DEF managerVars, persistentVars, budgetVars
<1>1. /\ calls[r] \in Nat /\ Said(r) \in Nat /\ Inits(r) \in Nat /\ Works(r) \in Nat
      /\ Waits(r) \in Nat /\ Restarts(r) \in Nat /\ pauses \in Nat
  BY Entries
<1>2. p \notin issued /\ issued' = issued \cup {p} /\ UNCHANGED <<looper, thread, calls, pauses>>
  BY DEF StartDownloadBound, StartDownloadUnbound
<1>3. Said(r)' = Said(r) /\ Inits(r)' = Inits(r)
  BY <1>2, Zenon DEF Said, Inits
<1>4. Allowed(r)' = Allowed(r) + (IF p = r THEN 2 * (1 + pauses) ELSE 0) /\ Allowed(r) \in Nat
  BY <1>1, <1>2 DEF Allowed
<1>5. /\ Works(r)' \in Nat /\ Waits(r)' \in Nat /\ Restarts(r)' \in Nat
      /\ Works(r)' + Waits(r)' + Restarts(r)'
           <= Works(r) + Waits(r) + Restarts(r) + (IF p = r THEN 1 ELSE 0)
  <2>1. CASE StartDownloadBound(p)
    <3>1. /\ Works(r)' \in Nat /\ Restarts(r)' \in Nat
          /\ Works(r)' + Restarts(r)' <= Works(r) + Restarts(r) + (IF p = r THEN 1 ELSE 0)
      BY <1>1, <2>1, Serves DEF StartDownloadBound
    <3>2. Waits(r)' = Waits(r)
      <4>1. UNCHANGED pending
        BY <2>1 DEF StartDownloadBound
      <4> QED BY <4>1, Zenon DEF Waits
    <3> QED BY <1>1, <3>1, <3>2
  <2>2. CASE StartDownloadUnbound(p)
    <3>1. UNCHANGED <<pool, paused>> /\ pending' \in {pending, Append(pending, p)}
      BY <2>2 DEF StartDownloadUnbound, EnlistPending
    <3>2. Works(r)' = Works(r)
      BY <3>1, Zenon DEF Works, JobsOf
    <3>3. Restarts(r)' = Restarts(r)
      BY <3>1 DEF Restarts
    <3>4. Count(Append(pending, p), {r}) = Count(pending, {r}) + (IF p \in {r} THEN 1 ELSE 0)
      <4>1. pending \in Seq(Requests)
        BY DEF TypeOK
      <4> QED BY <4>1, CountAppend
    <3>5. Waits(r)' \in {Waits(r), Waits(r) + (IF p = r THEN 1 ELSE 0)}
      <4>1. Waits(r)' = Count(pending', {r}) /\ Waits(r) = Count(pending, {r})
        BY Zenon DEF Waits
      <4> QED BY <3>1, <3>4, <4>1
    <3> QED BY <1>1, <3>2, <3>3, <3>5
  <2> QED BY <2>1, <2>2
<1>6. Ahead(r)' <= Ahead(r) + (IF p = r THEN 1 ELSE 0)
  BY <1>1, <1>3, <1>5 DEF Ahead
<1>7. Ahead(r) \in Nat /\ Ahead(r)' \in Nat
  BY OpenType, OpenTypeNext
<1>8. Open(r)' + Allowed(r) <= Open(r) + Allowed(r)'
  <2>1. calls[r] + Said(r) \in Nat /\ calls'[r] + Said(r)' = calls[r] + Said(r)
    BY <1>1, <1>2, <1>3
  <2>2. pauses \in Nat
    BY <1>1
  <2> QED BY <1>4, <1>6, <1>7, <2>1, <2>2 DEF Open
<1> QED BY <1>2, <1>8, MainBalance

\* The handlers pass on what they take, or call back.
LEMMA HandlerWithin ==
  ASSUME TypeOK, TypeOK', Handler, NEW r \in Requests, Within(r)
  PROVE  Within(r)'
<1> USE DEF managerVars, persistentVars, budgetVars
<1> DEFINE Less == Open(r)' <= Open(r)
<1> USE DEF Open, Ahead
<1>1. /\ calls[r] \in Nat /\ Said(r) \in Nat /\ Inits(r) \in Nat /\ Works(r) \in Nat
      /\ Waits(r) \in Nat /\ Restarts(r) \in Nat /\ pauses \in Nat
  BY Entries
<1>2. UNCHANGED <<thread, issued, pauses>>
  BY DEF Handler, HandleBindSuc, DrainPending, DrainDone, HandleInit, HandleProgress,
         HandleFinished
<1>3. Allowed(r)' = Allowed(r) /\ Allowed(r) \in Nat
  BY <1>1, <1>2 DEF Allowed
<1>4. ASSUME UNCHANGED pool PROVE Works(r)' = Works(r)
  BY <1>4, Zenon DEF Works, JobsOf
<1>5. ASSUME UNCHANGED pending PROVE Waits(r)' = Waits(r)
  BY <1>5, Zenon DEF Waits
<1>6. ASSUME UNCHANGED paused PROVE Restarts(r)' = Restarts(r)
  BY <1>6 DEF Restarts
<1>7. ASSUME UNCHANGED looper PROVE Said(r)' = Said(r) /\ Inits(r)' = Inits(r)
  BY <1>7, Zenon DEF Said, Inits
<1>8. ASSUME HandleBindSuc PROVE Less
  <2>1. Dispatch(BindSuc) /\ UNCHANGED <<pool, pending, paused, calls>>
    BY <1>8 DEF HandleBindSuc
  <2>2. /\ Said(r) = Said(r)' + (IF BindSuc = ProgressMsg(r) THEN 1 ELSE 0)
        /\ Inits(r) = Inits(r)' + (IF BindSuc = InitMsg(r) THEN 1 ELSE 0)
        /\ Said(r)' \in Nat /\ Inits(r)' \in Nat
    BY <2>1, Takes
  <2> QED BY <1>1, <1>4, <1>5, <1>6, <2>1, <2>2
<1>9. ASSUME DrainPending PROVE Less
  <2> DEFINE n == Len(pending)
  <2>1. /\ pending \in Seq(Requests) /\ pending # <<>> /\ ServiceDownload(pending[n])
        /\ pending' = SubSeq(pending, 1, n - 1) /\ UNCHANGED <<looper, calls>>
    BY <1>9 DEF DrainPending, TypeOK
  <2>2. pending[n] \in Requests
    BY <2>1, EmptySeq, ElementOfSeq
  <2>3. /\ Works(r)' \in Nat /\ Restarts(r)' \in Nat
        /\ Works(r)' + Restarts(r)'
             <= Works(r) + Restarts(r) + (IF pending[n] = r THEN 1 ELSE 0)
    BY <1>1, <2>1, <2>2, Serves
  <2>4. Count(pending, {r})
          = Count(SubSeq(pending, 1, n - 1), {r}) + (IF pending[n] \in {r} THEN 1 ELSE 0)
    BY <2>1, CountFront
  <2>5. Waits(r)' = Count(SubSeq(pending, 1, n - 1), {r}) /\ Waits(r) = Count(pending, {r})
    BY <2>1, Zenon DEF Waits
  <2>6. Waits(r)' \in Nat
    <3>1. pending' \in Seq(Requests) /\ Waits(r)' = Count(pending', {r})
      BY Zenon DEF TypeOK, Waits
    <3> QED BY <3>1, CountType
  <2>7. Waits(r) = Waits(r)' + (IF pending[n] = r THEN 1 ELSE 0)
    BY <2>4, <2>5
  <2> HIDE DEF n
  <2>8. Said(r)' = Said(r) /\ Inits(r)' = Inits(r) /\ calls'[r] = calls[r]
    BY <1>7, <2>1
  <2>9. Works(r)' + Waits(r)' + Restarts(r)' <= Works(r) + Waits(r) + Restarts(r)
    BY <1>1, <2>3, <2>6, <2>7
  <2> QED BY <1>1, <2>3, <2>6, <2>8, <2>9
<1>10. ASSUME DrainDone PROVE Less
  BY <1>1, <1>4, <1>5, <1>6, <1>7, <1>10 DEF DrainDone
<1>11. ASSUME NEW p \in Requests, HandleInit(p) PROVE Less
  <2>1. Dispatch(InitMsg(p)) /\ LaunchThread(p) /\ UNCHANGED <<pending, paused, calls>>
    BY <1>11 DEF HandleInit
  <2>2. /\ Said(r) = Said(r)' + (IF InitMsg(p) = ProgressMsg(r) THEN 1 ELSE 0)
        /\ Inits(r) = Inits(r)' + (IF InitMsg(p) = InitMsg(r) THEN 1 ELSE 0)
        /\ Said(r)' \in Nat /\ Inits(r)' \in Nat
    BY <2>1, Takes
  <2>3. InitMsg(p) # ProgressMsg(r) /\ (InitMsg(p) = InitMsg(r) <=> p = r)
    BY MessagesDiffer
  <2>4. Works(r)' = Works(r) + (IF p = r THEN 1 ELSE 0)
    BY <2>1, LaunchGives
  <2> QED BY <1>1, <1>5, <1>6, <2>1, <2>2, <2>3, <2>4
<1>12. ASSUME NEW p \in Requests, HandleProgress(p) PROVE Less
  <2>1. Dispatch(ProgressMsg(p)) /\ UNCHANGED <<pool, pending, paused>>
        /\ calls' = [calls EXCEPT ![p] = @ + 1]
    BY <1>12 DEF HandleProgress
  <2>2. /\ Said(r) = Said(r)' + (IF ProgressMsg(p) = ProgressMsg(r) THEN 1 ELSE 0)
        /\ Inits(r) = Inits(r)' + (IF ProgressMsg(p) = InitMsg(r) THEN 1 ELSE 0)
        /\ Said(r)' \in Nat /\ Inits(r)' \in Nat
    BY <2>1, Takes
  <2>3. ProgressMsg(p) # InitMsg(r) /\ (ProgressMsg(p) = ProgressMsg(r) <=> p = r)
    BY MessagesDiffer
  <2>4. calls'[r] = calls[r] + (IF p = r THEN 1 ELSE 0)
    <3>1. calls \in [Requests -> Nat] /\ calls'[r] = IF p = r THEN calls[r] + 1 ELSE calls[r]
      BY <2>1 DEF TypeOK
    <3> QED BY <1>1, <3>1
  <2> QED BY <1>1, <1>4, <1>5, <1>6, <2>1, <2>2, <2>3, <2>4
<1>13. ASSUME NEW u \in Urls, HandleFinished(u) PROVE Less
  <2>1. Dispatch(FinishedMsg(u)) /\ UNCHANGED <<pool, pending, paused, calls>>
    BY <1>13 DEF HandleFinished
  <2>2. /\ Said(r) = Said(r)' + (IF FinishedMsg(u) = ProgressMsg(r) THEN 1 ELSE 0)
        /\ Inits(r) = Inits(r)' + (IF FinishedMsg(u) = InitMsg(r) THEN 1 ELSE 0)
        /\ Said(r)' \in Nat /\ Inits(r)' \in Nat
    BY <2>1, Takes
  <2>3. FinishedMsg(u) # ProgressMsg(r) /\ FinishedMsg(u) # InitMsg(r)
    BY MessagesDiffer
  <2> QED BY <1>1, <1>4, <1>5, <1>6, <2>1, <2>2, <2>3
<1>14. Less
  BY <1>8, <1>9, <1>10, <1>11, <1>12, <1>13 DEF Handler
<1>15. Open(r) \in Nat /\ Open(r)' \in Nat
  BY OpenType, OpenTypeNext
<1> HIDE DEF Open
<1>16. Open(r)' + Allowed(r) <= Open(r) + Allowed(r)'
  BY <1>3, <1>14, <1>15
<1> QED BY <1>2, <1>16, MainBalance

\* Low memory and pauses add a restart, and what is allowed for it.
LEMMA PauseWithin ==
  ASSUME TypeOK, TypeOK', ListedIssued, LowMemory \/ \E u \in Urls : PauseDownload(u),
         NEW r \in Requests, Within(r)
  PROVE  Within(r)'
<1> USE DEF managerVars, persistentVars
<1>1. /\ pauses' = pauses + 1
      /\ UNCHANGED <<looper, pool, pending, calls, issued, thread>>
      /\ paused' \subseteq paused \cup {tasks[i] : i \in 1..Len(tasks)}
  BY DEF LowMemory, PauseDownload, IsFirst
<1>2. Said(r)' = Said(r) /\ Inits(r)' = Inits(r) /\ Works(r)' = Works(r) /\ Waits(r)' = Waits(r)
  <2>1. UNCHANGED <<looper, pool, pending>>
    BY <1>1
  <2> QED BY <2>1, Zenon DEF Said, Inits, Works, Waits, JobsOf
<1>3. /\ Inits(r) \in Nat /\ Works(r) \in Nat /\ Waits(r) \in Nat
      /\ Restarts(r) \in {0, 1} /\ Restarts(r)' \in {0, 1}
  BY Entries DEF Restarts
<1>4. Ahead(r)' <= Ahead(r) + Restarts(r)' - Restarts(r)
  BY <1>2, <1>3 DEF Ahead
<1>5. Ahead(r) \in Nat /\ Ahead(r)' \in Nat
  BY OpenType, OpenTypeNext
<1>6. calls[r] + Said(r) \in Nat /\ calls'[r] + Said(r)' = calls[r] + Said(r)
  <2>1. calls[r] \in Nat /\ Said(r) \in Nat
    BY Entries
  <2> QED BY <1>1, <1>2, <2>1
<1>7. Open(r)' + Allowed(r) <= Open(r) + Allowed(r)'
  <2>1. CASE r \in issued
    <3>1. pauses \in Nat
      BY Entries
    <3>2. Allowed(r)' = Allowed(r) + 2 /\ Allowed(r) \in Nat
      BY <1>1, <2>1, <3>1 DEF Allowed
    <3>3. Ahead(r)' <= Ahead(r) + 1
      BY <1>3, <1>4, <1>5
    <3> QED BY <1>5, <1>6, <3>2, <3>3 DEF Open
  <2>2. CASE r \notin issued
    <3>1. Allowed(r)' = 0 /\ Allowed(r) = 0
      BY <1>1, <2>2 DEF Allowed
    <3>2. Restarts(r) = 0
      BY <2>2, Unissued
    <3>3. r \notin paused
      BY <3>2 DEF Restarts
    <3>4. Restarts(r)' = 0
      BY <1>1, <2>2, <3>3 DEF ListedIssued, Restarts
    <3>5. Ahead(r)' <= Ahead(r)
      BY <1>4, <1>5, <3>2, <3>4
    <3> QED BY <1>5, <1>6, <3>1, <3>5 DEF Open
  <2> QED BY <2>1, <2>2
<1> QED BY <1>1, <1>7, MainBalance

\* The system's other doings add nothing.
LEMMA SystemWithin ==
  ASSUME TypeOK, TypeOK', NEW r \in Requests, Within(r),
         ServiceConnected \/ (\E u \in Urls : ReceiveFinished(u)) \/ UNCHANGED vars
  PROVE  Within(r)'
<1> USE DEF managerVars, persistentVars, budgetVars
<1>1. UNCHANGED <<pool, pending, paused, calls, issued, pauses, thread>>
  BY DEF ServiceConnected, ReceiveFinished, vars
<1>2. Said(r) \in Nat /\ Inits(r) \in Nat
  BY Entries
<1>3. Said(r)' = Said(r) /\ Inits(r)' = Inits(r)
  <2>1. CASE UNCHANGED looper
    BY <2>1, Zenon DEF Said, Inits
  <2>2. ASSUME NEW m \in Messages, looper' = Append(looper, m),
               m # ProgressMsg(r), m # InitMsg(r)
        PROVE  Said(r)' = Said(r) /\ Inits(r)' = Inits(r)
    BY <1>2, <2>2, Sends
  <2>3. /\ BindSuc \in Messages /\ BindSuc # ProgressMsg(r) /\ BindSuc # InitMsg(r)
        /\ \A u \in Urls : /\ FinishedMsg(u) \in Messages
                           /\ FinishedMsg(u) # ProgressMsg(r) /\ FinishedMsg(u) # InitMsg(r)
    BY MessageTypes, MessagesDiffer
  <2>4. \/ UNCHANGED looper \/ looper' = Append(looper, BindSuc)
        \/ \E u \in Urls : looper' = Append(looper, FinishedMsg(u))
    BY DEF ServiceConnected, ReceiveFinished, vars
  <2> QED BY <2>1, <2>2, <2>3, <2>4
<1>4. Works(r)' = Works(r) /\ Waits(r)' = Waits(r)
  BY <1>1, Zenon DEF Works, Waits, JobsOf
<1>5. Restarts(r)' = Restarts(r) /\ Allowed(r)' = Allowed(r)
  BY <1>1 DEF Restarts, Allowed
<1>6. Open(r)' = Open(r)
  BY <1>1, <1>3, <1>4, <1>5, Zenon DEF Open, Ahead
<1>7. Open(r) \in Nat /\ Allowed(r) \in Nat
  BY OpenType
<1>8. Open(r)' + Allowed(r) <= Open(r) + Allowed(r)'
  BY <1>5, <1>6, <1>7
<1> QED BY <1>1, <1>8, MainBalance

\* A deleted file leaves its threads where they are.
LEMMA DeleteWithin ==
  ASSUME TypeOK, TypeOK', NEW u \in Urls, DeleteFile(u), NEW r \in Requests, Within(r)
  PROVE  Within(r)'
<1> USE DEF managerVars, persistentVars, budgetVars
<1>1. UNCHANGED <<looper, pool, pending, paused, calls, issued, pauses>>
  BY DEF DeleteFile
<1>2. ASSUME NEW w \in Workers
      PROVE  /\ OneLeft(thread'[w], r) <=> OneLeft(thread[w], r)
             /\ TwoLeft(thread'[w], r) <=> TwoLeft(thread[w], r)
  <2>1. thread'[w] \in {thread[w], [thread[w] EXCEPT !.orphan = TRUE]}
    BY DEF DeleteFile
  <2>2. CASE thread'[w] = thread[w]
    BY <2>2 DEF OneLeft, TwoLeft
  <2>3. CASE thread[w].pc \in FileOpen /\ thread'[w] = [thread[w] EXCEPT !.orphan = TRUE]
    <3>1. thread[w] \in RunningThreads
      <4>1. thread[w] \in {IdleThread} \cup RunningThreads
        BY DEF TypeOK
      <4>2. thread[w].pc # "idle"
        BY <2>3 DEF FileOpen
      <4> QED BY <4>1, <4>2, RunningType
    <3>2. /\ thread'[w].pc = thread[w].pc /\ thread'[w].req = thread[w].req
          /\ thread'[w].fin = thread[w].fin
      BY <2>3, <3>1 DEF RunningThreads
    <3> QED BY <3>2 DEF OneLeft, TwoLeft
  <2> QED BY <2>2, <2>3 DEF DeleteFile
<1>3. Ones(r)' = Ones(r) /\ Twos(r)' = Twos(r)
  <2>1. /\ Ones(r)' = {w \in Workers : OneLeft(thread'[w], r)}
        /\ Twos(r)' = {w \in Workers : TwoLeft(thread'[w], r)}
    BY DEF Ones, Twos, OneLeft, TwoLeft
  <2> QED BY <1>2, <2>1 DEF Ones, Twos
<1>4. /\ Said(r)' = Said(r) /\ Inits(r)' = Inits(r)
      /\ Works(r)' = Works(r) /\ Waits(r)' = Waits(r)
  BY <1>1, Zenon DEF Said, Inits, Works, Waits, JobsOf
<1>5. Restarts(r)' = Restarts(r) /\ Allowed(r)' = Allowed(r)
  BY <1>1 DEF Restarts, Allowed
<1>6. Account(r)' = Account(r)
  BY <1>1, <1>3, <1>4, <1>5, Zenon DEF Account, Open, Ahead
<1> QED BY <1>3, <1>5, <1>6 DEF Within

\* A death of the process leaves the callbacks that were made.
LEMMA CrashWithin ==
  ASSUME TypeOK, TypeOK', Crash, NEW r \in Requests, Within(r)
  PROVE  Within(r)'
<1>1. /\ looper' = <<>> /\ pool' = <<>> /\ pending' = <<>> /\ paused' = {}
      /\ thread' = [w \in Workers |-> IdleThread] /\ UNCHANGED <<calls, issued, pauses>>
  BY DEF Crash
<1>2. /\ Said(r)' = Count(looper', {ProgressMsg(r)})
      /\ Inits(r)' = Count(looper', {InitMsg(r)})
      /\ Works(r)' = Count(pool', JobsOf(r))
      /\ Waits(r)' = Count(pending', {r})
  BY Zenon DEF Said, Inits, Works, Waits, JobsOf
<1>3. Said(r)' = 0 /\ Inits(r)' = 0 /\ Works(r)' = 0 /\ Waits(r)' = 0 /\ Restarts(r)' = 0
  <2>1. Restarts(r)' = 0
    BY <1>1 DEF Restarts
  <2>2. looper' = <<>> /\ pool' = <<>> /\ pending' = <<>>
    BY <1>1
  <2> QED BY <1>2, <2>1, <2>2, CountEmpty
<1>4. Ones(r)' = {} /\ Twos(r)' = {}
  BY <1>1 DEF Ones, Twos, OneLeft, TwoLeft, IdleThread
<1>5. Cardinality(Ones(r)') = 0 /\ Cardinality(Twos(r)') = 0
      /\ IsFiniteSet(Ones(r)') /\ IsFiniteSet(Twos(r)')
  BY <1>4, FS_EmptySet
<1>6. calls[r] \in Nat /\ calls'[r] = calls[r]
  BY <1>1 DEF TypeOK
<1>7. Account(r)' = calls[r]
  <2>1. Ahead(r)' = 0
    BY <1>3 DEF Ahead
  <2>2. Open(r)' = calls[r]
    BY <1>3, <1>6, <2>1 DEF Open
  <2> QED BY <1>5, <1>6, <2>2 DEF Account
<1>8. calls[r] <= Account(r) /\ Account(r) \in Nat
  <2>1. /\ Said(r) \in Nat /\ Cardinality(Ones(r)) \in Nat /\ Cardinality(Twos(r)) \in Nat
    BY Entries
  <2>2. Ahead(r) \in Nat /\ Open(r) \in Nat
    BY OpenType
  <2>3. calls[r] <= Open(r)
    BY <1>6, <2>1, <2>2 DEF Open
  <2> QED BY <1>6, <2>1, <2>2, <2>3 DEF Account
<1>9. Allowed(r)' = Allowed(r) /\ Allowed(r) \in Nat /\ Account(r) <= Allowed(r)
  BY <1>1, OpenType DEF Allowed, Within
<1>10. Account(r)' <= Allowed(r)'
  BY <1>6, <1>7, <1>8, <1>9
<1> QED BY <1>5, <1>10 DEF Within

-----------------------------------------------------------------------------
(* The theorem.                                                            *)

\* Only threads that exist move, and they read where they write.
LEMMA AlignedStep ==
  ASSUME HonoursRange, TypeOK, Aligned, [Next]_vars PROVE Aligned'
<1> USE DEF managerVars, persistentVars, budgetVars
<1> DEFINE Good(x) == /\ x.pc \in {"init", "open"} => x.off = 0
                      /\ x.pc \in {"read", "check"} => x.off = x.fin
<1>1. \A w \in Workers : Good(thread[w])
  BY DEF Aligned
<1>2. CASE UNCHANGED thread
  BY <1>2 DEF Aligned
<1>3. ASSUME NEW w \in Workers, NEW x, thread' = [thread EXCEPT ![w] = x], Good(x)
      PROVE  Aligned'
  <2>1. \A v \in Workers : thread'[v] = IF v = w THEN x ELSE thread[v]
    BY <1>3 DEF TypeOK
  <2> QED BY <1>1, <1>3, <2>1 DEF Aligned
<1>4. ASSUME NEW w \in Workers, Worker(w) PROVE Aligned'
  <2> DEFINE t == thread[w]
  <2>1. t \in {IdleThread} \cup RunningThreads
    BY DEF TypeOK
  <2>2. Good(IdleThread)
    BY DEF IdleThread
  <2>3. t.pc # "idle" => t \in RunningThreads /\ t.fin \in Nat /\ t.off \in Nat
    BY <2>1, RunningType
  <2>4. CASE TakeJob(w)
    <3> DEFINE job == Head(pool)
               x == [pc |-> IF job.kind = "init" THEN "init" ELSE "open", req |-> job.req,
                     fin |-> job.from, off |-> 0, orphan |-> FALSE]
    <3>1. thread' = [thread EXCEPT ![w] = x]
      BY <2>4 DEF TakeJob, Become
    <3>2. x.off = 0 /\ x.pc \notin {"read", "check"}
      OBVIOUS
    <3>3. Good(x)
      <4> HIDE DEF x
      <4> QED BY <3>2
    <3> HIDE DEF x
    <3> QED BY <1>3, <3>1, <3>3
  <2>5. CASE InitSucceeds(w) \/ InitFails(w) \/ LoadFails(w) \/ SavePosition(w) \/ ReadEnd(w)
    <3>1. thread' = [thread EXCEPT ![w] = IdleThread]
      BY <2>5 DEF InitSucceeds, InitFails, LoadFails, SavePosition, ReadEnd, Become
    <3> QED BY <1>3, <2>2, <3>1
  <2>6. CASE OpenSucceeds(w)
    <3> DEFINE x == [t EXCEPT !.pc = "read", !.off = IF HonoursRange THEN @ + t.fin ELSE @]
    <3>1. thread' = [thread EXCEPT ![w] = x] /\ t.pc = "open"
      BY <2>6 DEF OpenSucceeds, Become, At
    <3>2. t \in RunningThreads /\ t.fin \in Nat /\ t.off = 0
      BY <1>1, <2>3, <3>1
    <3>3. x.pc = "read" /\ x.off = 0 + t.fin /\ x.fin = t.fin
      BY <3>2 DEF RunningThreads
    <3>4. Good(x)
      BY <3>2, <3>3
    <3> HIDE DEF x
    <3> QED BY <1>3, <3>1, <3>4
  <2>7. CASE ReadChunk(w)
    <3> DEFINE x == [t EXCEPT !.pc = "check", !.fin = @ + 1, !.off = @ + 1]
    <3>1. thread' = [thread EXCEPT ![w] = x] /\ t.pc = "read"
      BY <2>7 DEF ReadChunk, Become, At
    <3>2. t \in RunningThreads /\ t.off = t.fin
      BY <1>1, <2>3, <3>1
    <3>3. x.pc = "check" /\ x.off = t.off + 1 /\ x.fin = t.fin + 1
      BY <3>2 DEF RunningThreads
    <3>4. Good(x)
      BY <3>2, <3>3
    <3> HIDE DEF x
    <3> QED BY <1>3, <3>1, <3>4
  <2>8. CASE CheckPause(w)
    <3> DEFINE x == [t EXCEPT !.pc = IF t.req \in paused THEN "save" ELSE "read"]
    <3>1. thread' = [thread EXCEPT ![w] = x] /\ t.pc = "check"
      BY <2>8 DEF CheckPause, Goto, At
    <3>2. t \in RunningThreads /\ t.off = t.fin
      BY <1>1, <2>3, <3>1
    <3>3. x.pc \in {"save", "read"} /\ x.off = t.off /\ x.fin = t.fin
      BY <3>2 DEF RunningThreads
    <3>4. Good(x)
      BY <3>2, <3>3
    <3> HIDE DEF x
    <3> QED BY <1>3, <3>1, <3>4
  <2> QED BY <1>4, <2>4, <2>5, <2>6, <2>7, <2>8 DEF Worker
<1>5. ASSUME NEW u \in Urls, DeleteFile(u) PROVE Aligned'
  <2>1. ASSUME NEW w \in Workers PROVE Good(thread'[w])
    <3>1. CASE thread'[w] = thread[w]
      BY <1>1, <3>1
    <3>2. CASE thread[w].pc \in FileOpen /\ thread'[w] = [thread[w] EXCEPT !.orphan = TRUE]
      <4>1. thread[w] \in RunningThreads
        <5>1. thread[w] \in {IdleThread} \cup RunningThreads
          BY DEF TypeOK
        <5>2. thread[w].pc # "idle"
          BY <3>2 DEF FileOpen
        <5> QED BY <5>1, <5>2, RunningType
      <4>2. /\ thread'[w].pc = thread[w].pc /\ thread'[w].off = thread[w].off
            /\ thread'[w].fin = thread[w].fin
        BY <3>2, <4>1 DEF RunningThreads
      <4> QED BY <1>1, <4>2
    <3> QED BY <1>5, <3>1, <3>2 DEF DeleteFile
  <2> QED BY <2>1 DEF Aligned
<1>6. CASE Crash
  BY <1>6 DEF Crash, Aligned, IdleThread
<1>7. CASE ~Crash /\ (\A w \in Workers : ~Worker(w)) /\ (\A u \in Urls : ~DeleteFile(u))
  <2>1. UNCHANGED thread
    BY <1>7 DEF Next, vars, Handler, StartDownloadBound, StartDownloadUnbound,
           ServiceConnected, HandleBindSuc, DrainPending, DrainDone, HandleInit,
           HandleProgress, HandleFinished, ReceiveFinished, PauseDownload, LowMemory
  <2> QED BY <1>2, <2>1
<1> QED BY <1>4, <1>5, <1>6, <1>7

\* A task is listed for a request that was made.
LEMMA ListedStep ==
  ASSUME TypeOK, ListedIssued, \A r \in Requests : Within(r), [Next]_vars
  PROVE  ListedIssued'
<1> USE DEF managerVars, persistentVars, budgetVars
<1>1. issued \subseteq issued'
  BY DEF Next, vars, Handler, Worker, StartDownloadBound, StartDownloadUnbound,
         ServiceConnected, HandleBindSuc, DrainPending, DrainDone, HandleInit,
         HandleProgress, HandleFinished, ReceiveFinished, PauseDownload, LowMemory,
         DeleteFile, TakeJob, InitSucceeds, InitFails, OpenSucceeds, LoadFails,
         ReadChunk, CheckPause, SavePosition, ReadEnd, Crash
<1>2. CASE UNCHANGED tasks
  BY <1>1, <1>2 DEF ListedIssued
<1>3. CASE Crash
  BY <1>3 DEF Crash, ListedIssued
<1>4. ASSUME NEW p \in Requests, HandleInit(p) PROVE ListedIssued'
  <2>1. Inits(p) = Inits(p)' + 1 /\ Inits(p)' \in Nat
    <3>1. Dispatch(InitMsg(p))
      BY <1>4 DEF HandleInit
    <3> QED BY <3>1, Takes
  <2>2. p \in issued
    BY <2>1, Unissued
  <2>3. tasks \in Seq(Requests) /\ tasks' = Append(tasks, p)
    BY <1>4 DEF HandleInit, TypeOK
  <2>4. /\ Len(tasks') = Len(tasks) + 1 /\ tasks'[Len(tasks) + 1] = p
        /\ \A i \in 1..Len(tasks) : tasks'[i] = tasks[i]
    BY <2>3, AppendProperties
  <2>5. Len(tasks) \in Nat
    BY <2>3, LenProperties
  <2> QED BY <1>1, <2>2, <2>4, <2>5 DEF ListedIssued
<1>5. ASSUME NEW u \in Urls, HandleFinished(u) PROVE ListedIssued'
  <2>1. tasks \in Seq(Requests) /\ Len(tasks) \in Nat
    BY LenProperties DEF TypeOK
  <2>2. ASSUME NEW i \in 1..Len(tasks),
               tasks' = SubSeq(tasks, 1, i - 1) \o SubSeq(tasks, i + 1, Len(tasks))
        PROVE  tasks' \in Seq(issued)
    <3>1. /\ \A j \in 1..(i - 1) : tasks[j] \in issued
          /\ \A j \in (i + 1)..Len(tasks) : tasks[j] \in issued
      BY <2>1 DEF ListedIssued
    <3>2. SubSeq(tasks, 1, i - 1) \in Seq(issued)
      BY <2>1, <3>1, SubSeqProperties
    <3>3. SubSeq(tasks, i + 1, Len(tasks)) \in Seq(issued)
      BY <2>1, <3>1, SubSeqProperties
    <3> QED BY <2>2, <3>2, <3>3, ConcatProperties
  <2>3. CASE tasks' \in Seq(issued)
    <3>1. \A i \in 1..Len(tasks') : tasks'[i] \in issued
      BY <2>3, ElementOfSeq
    <3> QED BY <1>1, <3>1 DEF ListedIssued
  <2> QED BY <1>2, <1>5, <2>2, <2>3 DEF HandleFinished
<1>6. CASE /\ ~Crash /\ (\A p \in Requests : ~HandleInit(p))
           /\ (\A u \in Urls : ~HandleFinished(u))
  <2>1. UNCHANGED tasks
    BY <1>6 DEF Next, vars, Handler, Worker, StartDownloadBound, StartDownloadUnbound,
           ServiceConnected, HandleBindSuc, DrainPending, DrainDone, HandleProgress,
           ReceiveFinished, PauseDownload, LowMemory, DeleteFile, TakeJob, InitSucceeds,
           InitFails, OpenSucceeds, LoadFails, ReadChunk, CheckPause, SavePosition, ReadEnd
  <2> QED BY <1>2, <2>1
<1> QED BY <1>3, <1>4, <1>5, <1>6

\* If the server answers Range requests with what was asked for, a request is
\* called back at most twice for every thread it may have had: one, and one
\* more for each pause (DownloadTask 229-235, 263-287 and restart()).
THEOREM ReportsCorrect == HonoursRange => (Spec => []ReportsBounded)
<1> SUFFICES ASSUME HonoursRange PROVE Spec => []ReportsBounded
  OBVIOUS
<1>1. Init => RInv
  <2> SUFFICES ASSUME Init PROVE RInv
    OBVIOUS
  <2>1. ASSUME NEW r \in Requests PROVE Within(r)
    <3>1. /\ looper = <<>> /\ pool = <<>> /\ pending = <<>> /\ paused = {} /\ issued = {}
          /\ thread = [w \in Workers |-> IdleThread] /\ calls[r] = 0
      BY DEF Init
    <3>2. Said(r) = 0 /\ Inits(r) = 0 /\ Works(r) = 0 /\ Waits(r) = 0
      BY <3>1, CountEmpty DEF Said, Inits, Works, Waits
    <3>3. Ones(r) = {} /\ Twos(r) = {}
      BY <3>1 DEF Ones, Twos, OneLeft, TwoLeft, IdleThread
    <3>4. /\ Cardinality(Ones(r)) = 0 /\ Cardinality(Twos(r)) = 0
          /\ IsFiniteSet(Ones(r)) /\ IsFiniteSet(Twos(r))
      BY <3>3, FS_EmptySet
    <3>5. Restarts(r) = 0 /\ Allowed(r) = 0
      BY <3>1 DEF Restarts, Allowed
    <3>6. Account(r) = 0
      BY <3>1, <3>2, <3>4, <3>5 DEF Account, Open, Ahead
    <3> QED BY <3>4, <3>5, <3>6 DEF Within
  <2>2. Aligned /\ ListedIssued
    BY DEF Init, Aligned, ListedIssued, IdleThread
  <2> QED BY <2>1, <2>2 DEF RInv
<1>2. TypeOK /\ TypeOK' /\ RInv /\ [Next]_vars => RInv'
  <2> SUFFICES ASSUME TypeOK, TypeOK', RInv, [Next]_vars PROVE RInv'
    OBVIOUS
  <2>1. Aligned' /\ ListedIssued'
    BY AlignedStep, ListedStep DEF RInv
  <2>2. ASSUME NEW r \in Requests PROVE Within(r)'
    <3>1. Aligned /\ ListedIssued /\ Within(r)
      BY DEF RInv
    <3>2. CASE \E p \in Requests : StartDownloadBound(p) \/ StartDownloadUnbound(p)
      BY <3>1, <3>2, StartWithin
    <3>3. CASE Handler
      BY <3>1, <3>3, HandlerWithin
    <3>4. CASE ServiceConnected \/ (\E u \in Urls : ReceiveFinished(u)) \/ UNCHANGED vars
      BY <3>1, <3>4, SystemWithin
    <3>5. CASE LowMemory \/ \E u \in Urls : PauseDownload(u)
      BY <3>1, <3>5, PauseWithin
    <3>6. CASE \E u \in Urls : DeleteFile(u)
      BY <3>1, <3>6, DeleteWithin
    <3>7. CASE \E w \in Workers : Worker(w)
      BY <3>1, <3>7, WorkerWithin
    <3>8. CASE Crash
      BY <3>1, <3>8, CrashWithin
    <3> QED BY <3>2, <3>3, <3>4, <3>5, <3>6, <3>7, <3>8 DEF Next
  <2>3. RInv' <=> Aligned' /\ ListedIssued' /\ \A r \in Requests : Within(r)'
    BY DEF RInv
  <2> QED BY <2>1, <2>2, <2>3
<1>3. TypeOK /\ RInv => ReportsBounded
  <2> SUFFICES ASSUME TypeOK, RInv, NEW r \in Requests PROVE calls[r] <= 2 * (1 + pauses)
    BY DEF ReportsBounded
  <2>1. Within(r)
    BY DEF RInv
  <2>2. /\ calls[r] \in Nat /\ Said(r) \in Nat /\ pauses \in Nat
        /\ Cardinality(Ones(r)) \in Nat /\ Cardinality(Twos(r)) \in Nat
    BY <2>1, Entries
  <2>3. Open(r) \in Nat /\ Ahead(r) \in Nat
    BY OpenType
  <2>4. calls[r] <= Open(r)
    BY <2>2, <2>3 DEF Open
  <2>5. Open(r) + Cardinality(Ones(r)) + Cardinality(Twos(r)) <= Allowed(r)
    BY <2>1 DEF Within, Account
  <2>6. Allowed(r) <= 2 * (1 + pauses) /\ Allowed(r) \in Nat
    BY <2>2 DEF Allowed
  <2>7. Open(r) <= Allowed(r)
    BY <2>2, <2>3, <2>5, <2>6
  <2> QED BY <2>2, <2>3, <2>4, <2>6, <2>7
<1> QED BY <1>1, <1>2, <1>3, TypeCorrect, PTL DEF Spec
=============================================================================
