-------------------------- MODULE MediaUpdateProofs --------------------------
(***************************************************************************)
(* What holds of MediaUpdate for any number of schedules, media, updates,  *)
(* reassignments, crashes and repeated callbacks.                          *)
(***************************************************************************)
EXTENDS MediaUpdate, FiniteSetTheorems, TLAPS

\* The server gives every medium a file name of its own, the same in all
\* schedules.
Consistent ==
  \A s, t \in AllSchedules :
    \A i \in DOMAIN Media[s], j \in DOMAIN Media[t] :
      Media[s][i] = Media[t][j] <=> i = j

BusyRecords ==
  [phase : {"busy"}, sched : Schedules, add : SUBSET Ids, del : SUBSET Ids,
   finished : [Kinds -> Nat]]

-----------------------------------------------------------------------------
(* Types.                                                                  *)

\* What a receiver is in each of its phases.
LEMMA Shape ==
  ASSUME TypeOK, NEW n \in Updates
  PROVE  /\ IsBusy(n) => update[n] \in BusyRecords
         /\ update[n].phase = "fetching" =>
              update[n] \in [phase : {"fetching"}, sched : Schedules]
  BY DEF TypeOK, Receivers, IsBusy, BusyRecords, FreeUpdate, Gone

\* A callback that counts changes one counter of one receiver.
LEMMA Counting ==
  ASSUME TypeOK, NEW n \in Updates, NEW k \in Kinds, IsBusy(n), Count(n, k)
  PROVE  /\ update' \in [Updates -> Receivers]
         /\ \A m \in Updates : m # n => update'[m] = update[m]
         /\ update'[n] \in BusyRecords
         /\ update'[n].sched = update[n].sched /\ update'[n].add = update[n].add
         /\ update'[n].del = update[n].del
         /\ \A l \in Kinds : update'[n].finished[l] =
              IF l = k THEN update[n].finished[k] + 1 ELSE update[n].finished[l]
<1>1. update[n] \in BusyRecords
  BY Shape
<1>2. update \in [Updates -> Receivers]
  BY DEF TypeOK
<1>3. update' = [update EXCEPT ![n].finished[k] = @ + 1]
  BY DEF Count
<1>4. update'[n] = [update[n] EXCEPT !.finished =
                      [update[n].finished EXCEPT ![k] = @ + 1]]
  BY <1>2, <1>3
<1>5. update'[n] \in BusyRecords
  BY <1>1, <1>4 DEF BusyRecords
<1>6. BusyRecords \subseteq Receivers
  BY DEF BusyRecords, Receivers
<1>7. \A m \in Updates : m # n => update'[m] = update[m]
  BY <1>2, <1>3
<1>8. update' \in [Updates -> Receivers]
  BY <1>2, <1>3, <1>5, <1>6, <1>7
<1> QED BY <1>1, <1>4, <1>5, <1>7, <1>8 DEF BusyRecords

\* A restart leaves no receiver at work.
LEMMA Restarting ==
  ASSUME TypeOK, Restarted
  PROVE  /\ answers' \in [Schedules -> 0..MaxAnswers]
         /\ \A s \in Schedules : answers'[s] = 0
         /\ resolution' \in AllSchedules /\ shown' \in [Kinds -> AllSchedules]
         /\ update' \in [Updates -> Receivers]
         /\ \A n \in Updates : update'[n] \in {FreeUpdate, Gone}
         /\ \A n \in Updates : update'[n] = FreeUpdate => update[n] = FreeUpdate
         /\ crashes' \in 0..MaxCrashes /\ crashes' # 0
         /\ crashes' = crashes + 1
  BY MediaBoundAssumption DEF TypeOK, Restarted, Receivers, FreeUpdate, Gone

\* Every step keeps the types.
LEMMA TypeStep == TypeOK /\ [Next]_vars => TypeOK'
<1> SUFFICES ASSUME TypeOK, [Next]_vars PROVE TypeOK'
  OBVIOUS
<1> USE ScheduleAssumption, KindAssumption, MediaBoundAssumption
<1>1. ASSUME NEW s \in Schedules, Publish(s) PROVE TypeOK'
  BY <1>1 DEF TypeOK, Publish, AllSchedules
<1>2. ASSUME NEW s \in Schedules, HandleAnswer(s) PROVE TypeOK'
  <2>1. answers' \in [Schedules -> 0..MaxAnswers]
    BY <1>2 DEF TypeOK, HandleAnswer
  <2>2. resolution' \in AllSchedules
    BY <1>2 DEF TypeOK, HandleAnswer, AllSchedules
  <2>3. update' \in [Updates -> Receivers]
    BY <1>2 DEF TypeOK, HandleAnswer, Receivers, Fetching
  <2> QED BY <1>2, <2>1, <2>2, <2>3 DEF TypeOK, HandleAnswer
<1>3. CASE Poll
  BY <1>3 DEF TypeOK, Poll, AllSchedules
<1>4. ASSUME NEW n \in Updates, HandleXml(n) PROVE TypeOK'
  <2> DEFINE s == update[n].sched
             new == DOMAIN Media[s]
             old == UNION {Listed(shown[k], k) : k \in Kinds}
  <2>1. s \in Schedules
    BY <1>4, Shape DEF HandleXml
  <2>2. new \subseteq Ids
    BY <2>1 DEF AllSchedules
  <2>3. old \subseteq Ids
    BY DEF TypeOK, Listed, OfKind
  <2>4. Busy(s, new \ old, old \ new) \in Receivers
    BY <2>1, <2>2, <2>3 DEF Busy, Receivers
  <2>5. update' = [update EXCEPT ![n] = Busy(s, new \ old, old \ new)] /\ saved' = s
    BY <1>4 DEF HandleXml
  <2>6. update' \in [Updates -> Receivers]
    BY <2>4, <2>5 DEF TypeOK
  <2> QED BY <1>4, <2>1, <2>5, <2>6 DEF TypeOK, HandleXml, serverVars, AllSchedules
<1>5. ASSUME NEW n \in Updates, FetchFails(n) PROVE TypeOK'
  BY <1>5 DEF TypeOK, FetchFails, Receivers, serverVars
<1>6. ASSUME NEW n \in Updates, FetchGarbled(n) PROVE TypeOK'
  BY <1>6, Restarting DEF TypeOK, FetchGarbled, Restarted
<1>7. ASSUME NEW n \in Updates, NEW i \in Ids, Receive(n, i) PROVE TypeOK'
  BY <1>7 DEF TypeOK, Receive, serverVars
<1>8. ASSUME NEW n \in Updates, NEW i \in Ids, OnDownloadFinished(n, i) PROVE TypeOK'
  <2>1. IsBusy(n) /\ KindOf[i] \in Kinds
    BY <1>8 DEF OnDownloadFinished, CalledBack
  <2>2. reported' \subseteq Updates \X Ids /\ repeats' \in 0..MaxRepeats
    BY <1>8 DEF OnDownloadFinished, CalledBack, TypeOK
  <2>3. CASE Count(n, KindOf[i]) /\ UNCHANGED <<serverVars, resolution, shown,
                                                saved, content, crashes>>
    BY <2>1, <2>2, <2>3, Counting DEF TypeOK, serverVars
  <2>4. CASE Finish(n, KindOf[i])
    <3>1. update' \in [Updates -> Receivers]
      BY <2>1, <2>4, Counting DEF Finish
    <3>2. shown' \in [Kinds -> AllSchedules]
      BY <2>1, <2>4, Shape DEF Finish, TypeOK, BusyRecords, AllSchedules
    <3>3. content' \in [Files -> {"none", "part", "whole"}]
      BY <2>4 DEF Finish, Erase, TypeOK
    <3> QED BY <2>2, <2>4, <3>1, <3>2, <3>3 DEF TypeOK, Finish, serverVars
  <2>5. CASE FinishFaults(n, KindOf[i])
    <3>1. content' \in [Files -> {"none", "part", "whole"}]
      BY <2>5 DEF FinishFaults, Erase, TypeOK
    <3>2. Restarted
      BY <2>5 DEF FinishFaults
    <3> QED BY <2>2, <3>1, <3>2, Restarting DEF TypeOK, Restarted
  <2> QED BY <1>8, <2>3, <2>4, <2>5 DEF OnDownloadFinished
<1>9. CASE Crash
  BY <1>9, Restarting DEF TypeOK, Crash, Restarted
<1>10. CASE UNCHANGED vars
  BY <1>10 DEF TypeOK, vars
<1> QED BY <1>1, <1>2, <1>3, <1>4, <1>5, <1>6, <1>7, <1>8, <1>9, <1>10
        DEF Next, Step

\* Types of the terminal and its receivers: the parts of a receiver are
\* there when its phase says so.
THEOREM TypeCorrect == Spec => []TypeOK
<1>1. Init => TypeOK
  BY ScheduleAssumption, KindAssumption, MediaBoundAssumption
     DEF Init, TypeOK, Receivers, AllSchedules
<1> QED BY <1>1, TypeStep, PTL DEF Spec

-----------------------------------------------------------------------------
(* The delete loop.                                                        *)

\* What an update deletes its schedule does not list.
Disjoint ==
  \A n \in Updates :
    IsBusy(n) => update[n].del \cap DOMAIN Media[update[n].sched] = {}

\* Only HandleXml makes a receiver busy, and nothing changes what it deletes.
LEMMA DisjointStep == TypeOK /\ Disjoint /\ [Next]_vars => Disjoint'
<1> SUFFICES ASSUME TypeOK, Disjoint, [Next]_vars PROVE Disjoint'
  OBVIOUS
<1> USE DEF Disjoint, IsBusy
<1>1. ASSUME NEW s \in Schedules, Publish(s) PROVE Disjoint'
  BY <1>1 DEF Publish
<1>2. ASSUME NEW s \in Schedules, HandleAnswer(s) PROVE Disjoint'
  BY <1>2 DEF TypeOK, HandleAnswer, Fetching
<1>3. CASE Poll
  BY <1>3 DEF Poll
<1>4. ASSUME NEW n \in Updates, HandleXml(n) PROVE Disjoint'
  BY <1>4 DEF TypeOK, HandleXml, Busy
<1>5. ASSUME NEW n \in Updates, FetchFails(n) PROVE Disjoint'
  BY <1>5 DEF TypeOK, FetchFails, Gone
<1>6. CASE Restarted
  BY <1>6, Restarting DEF FreeUpdate, Gone
<1>7. ASSUME NEW n \in Updates, NEW i \in Ids, Receive(n, i) PROVE Disjoint'
  BY <1>7 DEF Receive
<1>8. ASSUME NEW n \in Updates, NEW i \in Ids, OnDownloadFinished(n, i) PROVE Disjoint'
  <2>1. IsBusy(n) /\ KindOf[i] \in Kinds
    BY <1>8, KindAssumption DEF OnDownloadFinished, CalledBack
  <2>2. CASE Count(n, KindOf[i])
    BY <2>1, <2>2, Counting
  <2>3. CASE FinishFaults(n, KindOf[i])
    BY <2>3, <1>6 DEF FinishFaults
  <2> QED BY <1>8, <2>2, <2>3 DEF OnDownloadFinished, Finish
<1>9. CASE UNCHANGED vars
  BY <1>9 DEF vars
<1> QED BY <1>1, <1>2, <1>3, <1>4, <1>5, <1>6, <1>7, <1>8, <1>9
        DEF Next, Step, FetchGarbled, Crash

\* What a step that leaves less on the flash is: the end of the delete loop,
\* or a restart.
LEMMA Deleting ==
  ASSUME TypeOK, [Next]_vars, NEW f \in Files,
         content[f] # "none", content'[f] = "none", crashes' = crashes
  PROVE  \E n \in Updates : \E k \in Kinds : IsBusy(n) /\ Finish(n, k)
<1>1. ASSUME NEW s \in Schedules, Publish(s) PROVE FALSE
  BY <1>1 DEF Publish
<1>2. ASSUME NEW s \in Schedules, HandleAnswer(s) PROVE FALSE
  BY <1>2 DEF HandleAnswer
<1>3. ASSUME Poll PROVE FALSE
  BY <1>3 DEF Poll
<1>4. ASSUME NEW n \in Updates, HandleXml(n) \/ FetchFails(n) PROVE FALSE
  BY <1>4 DEF HandleXml, FetchFails
<1>5. ASSUME Restarted PROVE FALSE
  BY <1>5 DEF Restarted, TypeOK
<1>6. ASSUME NEW n \in Updates, NEW i \in Ids, Receive(n, i) PROVE FALSE
  BY <1>6 DEF Receive, TypeOK
<1>7. ASSUME NEW n \in Updates, NEW i \in Ids, OnDownloadFinished(n, i)
      PROVE  IsBusy(n) /\ KindOf[i] \in Kinds /\ Finish(n, KindOf[i])
  BY <1>5, <1>7, KindAssumption DEF OnDownloadFinished, CalledBack, FinishFaults
<1>8. ASSUME UNCHANGED vars PROVE FALSE
  BY <1>8 DEF vars
<1> QED BY <1>1, <1>2, <1>3, <1>4, <1>5, <1>6, <1>7, <1>8
        DEF Next, Step, FetchGarbled, Crash

\* The file of an id that is deleted is none of another container's: ids
\* of one kind are not of another, and no two share a file.
LEMMA Apart ==
  ASSUME Consistent, TypeOK, NEW k \in Kinds, NEW s \in AllSchedules,
         NEW j \in Listed(shown[k], k),
         NEW l \in Kinds, Media[shown[k]][j] \in FilesOf(s, l)
  PROVE  j \in Listed(s, l) /\ l = k
  BY DEF Consistent, TypeOK, FilesOf, Listed, OfKind

\* A delete loop that gets through never takes away what is shown after it
\* (videoDownloadFinished, imageDownloadFinished), if every medium has a file
\* name of its own.
THEOREM DeleteCorrect == Consistent => (Spec => NoShownFileDeleted)
<1> SUFFICES ASSUME Consistent PROVE Spec => NoShownFileDeleted
  OBVIOUS
<1>1. Init => Disjoint
  BY DEF Init, Disjoint, IsBusy, FreeUpdate
<1>2. TypeOK /\ TypeOK' /\ Disjoint /\ [Next]_vars =>
        [\A f \in Files : content[f] # "none" /\ content'[f] = "none" /\ crashes' = crashes =>
           \A k \in Kinds : f \notin FilesOf(shown'[k], k)]_vars
  <2> SUFFICES ASSUME TypeOK, TypeOK', Disjoint, [Next]_vars, NEW f \in Files,
                      content[f] # "none", content'[f] = "none", crashes' = crashes,
                      NEW l \in Kinds, f \in FilesOf(shown'[l], l)
               PROVE  FALSE
    OBVIOUS
  <2>1. PICK n \in Updates, k \in Kinds : IsBusy(n) /\ Finish(n, k)
    BY Deleting
  <2>2. PICK j \in Deletable(n, k) : f = Media[shown[k]][j]
    BY <2>1 DEF Finish, Erase, TypeOK
  <2>3. j \in Listed(shown[k], k) /\ j \in update[n].del
    BY DEF Deletable, OfKind
  <2>4. shown'[l] \in AllSchedules
    BY DEF TypeOK
  <2>5. j \in Listed(shown'[l], l) /\ l = k
    BY <2>2, <2>3, <2>4, Apart
  <2>6. shown'[k] = update[n].sched
    BY <2>1 DEF Finish, TypeOK
  <2> QED BY <2>1, <2>3, <2>5, <2>6 DEF Disjoint, Listed, OfKind
<1> QED BY <1>1, <1>2, DisjointStep, TypeCorrect, PTL DEF Spec, NoShownFileDeleted

-----------------------------------------------------------------------------
(* One update at a time.                                                   *)

\* A server that waits for the terminal has one update under way at most,
\* that of the schedule it has published.
Alone ==
  /\ \A s \in Schedules : answers[s] > 0 => s = published
  /\ \A n \in Updates :
       InFlight(n) => update[n].sched = published /\ resolution = published
  /\ \A m, n \in Updates : InFlight(m) /\ InFlight(n) => m = n

\* A receiver that counts is under way only if it was.
LEMMA CountingFlight ==
  ASSUME TypeOK, NEW n \in Updates, NEW k \in Kinds, IsBusy(n), Count(n, k),
         NEW m \in Updates
  PROVE  /\ InFlight(m)' => InFlight(m)
         /\ update'[m].sched = update[m].sched
         /\ \A l \in Kinds : Waiting(m, l)' => Waiting(m, l)
         /\ \A l \in Kinds : OfKind(update'[m].add, l) = OfKind(update[m].add, l)
<1>1. CASE m # n
  BY <1>1, Counting DEF InFlight, Waiting, Total, IsBusy
<1>2. CASE m = n
  <2>1. \A l \in Kinds : Total(n, l)' = Total(n, l)
    BY Counting DEF Total
  <2>2. \A l \in Kinds : update[n].finished[l] \in Nat
    BY Shape DEF BusyRecords
  <2>3. \A l \in Kinds : Total(n, l) \in Nat
    <3> SUFFICES ASSUME NEW l \in Kinds PROVE Total(n, l) \in Nat
      OBVIOUS
    <3>1. update[n].add \in SUBSET Ids
      BY Shape DEF BusyRecords
    <3>2. IsFiniteSet(OfKind(update[n].add, l))
      BY <3>1, KindAssumption, FS_Subset DEF OfKind
    <3> QED BY <3>2, FS_CardinalityType DEF Total
  <2>4. \A l \in Kinds : Waiting(n, l)' => Waiting(n, l)
    BY <2>1, <2>2, <2>3, Counting DEF Waiting
  <2>5. update'[n].phase = "busy"
    BY Counting DEF BusyRecords
  <2> QED BY <1>2, <2>4, <2>5, Counting DEF InFlight
<1> QED BY <1>1, <1>2

LEMMA AloneStep ==
  ASSUME OneAtATime PROVE TypeOK /\ Alone /\ [Next]_vars => Alone'
<1> SUFFICES ASSUME TypeOK, Alone, [Next]_vars PROVE Alone'
  OBVIOUS
<1>1. ASSUME NEW s \in Schedules, Publish(s) PROVE Alone'
  BY <1>1 DEF Alone, Publish, Settled, InFlight, Waiting, IsBusy, Total, TypeOK
<1>2. ASSUME NEW s \in Schedules, HandleAnswer(s) PROVE Alone'
  <2>1. s = published
    BY <1>2 DEF HandleAnswer, Alone
  <2>2. \A t \in Schedules : answers'[t] > 0 => answers[t] > 0
    BY <1>2 DEF HandleAnswer, TypeOK
  <2>3. published' = published
    BY <1>2 DEF HandleAnswer
  <2>4. CASE UNCHANGED <<resolution, update>>
    BY <2>2, <2>3, <2>4 DEF Alone, InFlight, Waiting, IsBusy, Total
  <2>5. CASE s # resolution
    <3>1. \A m \in Updates : ~InFlight(m)
      BY <2>1, <2>5 DEF Alone
    <3>2. PICK n \in Updates : update' = [update EXCEPT ![n] = Fetching(s)]
      BY <1>2, <2>5 DEF HandleAnswer
    <3>3. \A m \in Updates : m # n => ~InFlight(m)'
      BY <3>1, <3>2 DEF TypeOK, InFlight, Waiting, IsBusy, Total
    <3>4. update'[n].sched = s /\ resolution' = s
      BY <1>2, <2>5, <3>2 DEF TypeOK, HandleAnswer, Fetching
    <3> QED BY <2>1, <2>2, <2>3, <3>3, <3>4 DEF Alone
  <2> QED BY <1>2, <2>4, <2>5 DEF HandleAnswer
<1>3. CASE Poll
  BY <1>3 DEF Alone, Poll, InFlight, Waiting, IsBusy, Total, TypeOK
<1>4. ASSUME NEW n \in Updates, HandleXml(n) PROVE Alone'
  <2>1. InFlight(n)
    BY <1>4 DEF HandleXml, InFlight
  <2>2. \A m \in Updates : m # n => update'[m] = update[m]
    BY <1>4 DEF HandleXml, TypeOK
  <2>3. update'[n].sched = update[n].sched
    BY <1>4 DEF HandleXml, TypeOK, Busy
  <2>4. \A m \in Updates : InFlight(m)' => InFlight(m)
    BY <2>1, <2>2 DEF InFlight, Waiting, IsBusy, Total
  <2> QED BY <1>4, <2>2, <2>3, <2>4 DEF Alone, HandleXml, serverVars
<1>5. ASSUME NEW n \in Updates, FetchFails(n) PROVE Alone'
  <2>1. ~InFlight(n)'
    BY <1>5 DEF FetchFails, TypeOK, InFlight, Waiting, IsBusy, Gone
  <2>2. \A m \in Updates : m # n => update'[m] = update[m]
    BY <1>5 DEF FetchFails, TypeOK
  <2>3. \A m \in Updates : InFlight(m)' => InFlight(m) /\ m # n
    BY <2>1, <2>2 DEF InFlight, Waiting, IsBusy, Total
  <2> QED BY <1>5, <2>2, <2>3 DEF Alone, FetchFails, serverVars
<1>6. CASE Restarted
  <2>1. \A n \in Updates : ~InFlight(n)'
    BY <1>6, Restarting DEF InFlight, Waiting, IsBusy, FreeUpdate, Gone
  <2> QED BY <1>6, <2>1, Restarting DEF Alone
<1>7. ASSUME NEW n \in Updates, NEW i \in Ids, Receive(n, i) PROVE Alone'
  BY <1>7 DEF Alone, Receive, InFlight, Waiting, IsBusy, Total, serverVars
<1>8. ASSUME NEW n \in Updates, NEW i \in Ids, OnDownloadFinished(n, i) PROVE Alone'
  <2>1. IsBusy(n) /\ KindOf[i] \in Kinds
    BY <1>8, KindAssumption DEF OnDownloadFinished, CalledBack
  <2>2. CASE Count(n, KindOf[i]) /\ UNCHANGED <<serverVars, resolution>>
    BY <2>1, <2>2, CountingFlight DEF Alone, serverVars
  <2>3. CASE FinishFaults(n, KindOf[i])
    BY <2>3, <1>6 DEF FinishFaults
  <2> QED BY <1>8, <2>2, <2>3 DEF OnDownloadFinished, Finish
<1>9. CASE UNCHANGED vars
  BY <1>9 DEF Alone, vars, InFlight, Waiting, IsBusy, Total
<1> QED BY <1>1, <1>2, <1>3, <1>4, <1>5, <1>6, <1>7, <1>8, <1>9
        DEF Next, Step, FetchGarbled, Crash

-----------------------------------------------------------------------------
(* Callbacks that come once.                                               *)

Reported(n, k) == {i \in OfKind(update[n].add, k) : <<n, i>> \in reported}

\* A receiver that has not asked for anything has not been called back.
Fresh ==
  \A n \in Updates :
    update[n].phase \in {"free", "fetching"} => \A i \in Ids : <<n, i>> \notin reported

\* The counters count the ids that were reported.
Counted ==
  \A n \in Updates : \A k \in Kinds :
    IsBusy(n) => update[n].finished[k] = Cardinality(Reported(n, k))

\* While a kind waits, the sets of its update are still the differences
\* between what is shown and what will be.
Differences ==
  \A n \in Updates : \A k \in Kinds : Waiting(n, k) =>
    /\ OfKind(update[n].add, k) = Listed(update[n].sched, k) \ Listed(shown[k], k)
    /\ OfKind(update[n].del, k) = Listed(shown[k], k) \ Listed(update[n].sched, k)

\* What was reported to it stays whole.
Arrived ==
  \A n \in Updates : \A k \in Kinds : Waiting(n, k) =>
    \A i \in Reported(n, k) : content[Media[update[n].sched][i]] = "whole"

Once == Fresh /\ (repeats = 0 => Counted /\ Differences /\ Arrived)

\* The callback that completes the count is the last of its kind.
LEMMA Complete ==
  ASSUME TypeOK, Counted, NEW n \in Updates, NEW k \in Kinds,
         NEW i \in OfKind(update[n].add, k),
         IsBusy(n), <<n, i>> \notin reported, Last(n, k)
  PROVE  /\ Waiting(n, k)
         /\ update[n].finished[k] + 1 = Total(n, k)
         /\ OfKind(update[n].add, k) = Reported(n, k) \cup {i}
<1> DEFINE S == OfKind(update[n].add, k)
           T == Reported(n, k) \cup {i}
<1>1. IsFiniteSet(S)
  <2>1. update[n].add \in SUBSET Ids
    BY Shape DEF BusyRecords
  <2> QED BY <2>1, KindAssumption, FS_Subset DEF OfKind
<1>2. Reported(n, k) \subseteq S /\ T \subseteq S /\ i \notin Reported(n, k)
  BY DEF Reported
<1>3. IsFiniteSet(Reported(n, k))
  BY <1>1, <1>2, FS_Subset
<1>4. Cardinality(T) = Cardinality(Reported(n, k)) + 1
  BY <1>2, <1>3, FS_AddElement
<1>5. Cardinality(T) <= Cardinality(S) /\ (Cardinality(S) = Cardinality(T) => S = T)
  BY <1>1, <1>2, FS_Subset
<1>6. Cardinality(S) \in Nat /\ Cardinality(Reported(n, k)) \in Nat
  BY <1>1, <1>3, FS_CardinalityType
<1>7. Cardinality(S) = Total(n, k)
  BY DEF Total
<1>8. update[n].finished[k] = Cardinality(Reported(n, k))
  BY DEF Counted
<1> HIDE DEF S, T
<1>9. update[n].finished[k] + 1 = Cardinality(S)
  BY <1>4, <1>5, <1>6, <1>7, <1>8 DEF Last
<1>10. S = T
  BY <1>4, <1>5, <1>8, <1>9
<1> QED BY <1>6, <1>7, <1>8, <1>9, <1>10 DEF Waiting, S, T

\* A file that the delete loop takes belongs to a medium of its kind that
\* the new schedule does not list.
LEMMA Erasing ==
  ASSUME Consistent, TypeOK, Disjoint, NEW n \in Updates, NEW k \in Kinds,
         IsBusy(n), Finish(n, k),
         NEW s \in AllSchedules, NEW l \in Kinds, NEW j \in Listed(s, l),
         l # k \/ j \in DOMAIN Media[update[n].sched]
  PROVE  content'[Media[s][j]] = content[Media[s][j]]
<1>1. Media[s][j] \in Files
  BY ScheduleAssumption DEF Listed, OfKind
<1>2. ASSUME NEW d \in Deletable(n, k), Media[s][j] = Media[shown[k]][d] PROVE FALSE
  <2>1. d \in Listed(shown[k], k) /\ d \in update[n].del
    BY DEF Deletable, OfKind
  <2>2. d = j
    BY <1>2, <2>1 DEF Consistent, TypeOK, Listed, OfKind
  <2> QED BY <2>1, <2>2 DEF Disjoint, Listed, OfKind
<1> QED BY <1>1, <1>2 DEF Finish, Erase

\* An update that is made of an XML starts with the differences and with
\* nothing reported.
LEMMA OnceXml ==
  ASSUME TypeOK, Once, NEW n \in Updates, HandleXml(n) PROVE Once'
<1> DEFINE s == update[n].sched
           old == UNION {Listed(shown[k], k) : k \in Kinds}
<1>1. /\ update'[n] = Busy(s, DOMAIN Media[s] \ old, old \ DOMAIN Media[s])
      /\ \A m \in Updates : m # n => update'[m] = update[m]
      /\ UNCHANGED <<shown, content, reported, repeats>>
  BY DEF HandleXml, TypeOK
<1>2. \A i \in Ids : <<n, i>> \notin reported
  BY DEF HandleXml, Once, Fresh
<1>3. update'[n].phase = "busy" /\ update'[n].sched = s
  BY <1>1 DEF Busy
<1>4. \A k \in Kinds : update'[n].finished[k] = 0
  BY <1>1 DEF Busy
<1>5. update'[n].add = DOMAIN Media[s] \ old /\ update'[n].del = old \ DOMAIN Media[s]
  BY <1>1 DEF Busy
<1>6. s \in Schedules
  BY Shape DEF HandleXml
<1>7. DOMAIN Media[s] \subseteq Ids
  BY <1>6, ScheduleAssumption DEF AllSchedules
<1>8. \A k \in Kinds : Reported(n, k)' = {}
  BY <1>1, <1>2, <1>5, <1>7 DEF Reported, OfKind
<1>9. Fresh'
  BY <1>1, <1>3 DEF Once, Fresh
<1>10. ASSUME repeats' = 0 PROVE Counted'
  <2>1. \A k \in Kinds : update'[n].finished[k] = Cardinality(Reported(n, k)')
    BY <1>4, <1>8, FS_EmptySet
  <2> QED BY <1>1, <1>10, <2>1 DEF Once, Counted, IsBusy, Reported
<1>11. ASSUME repeats' = 0 PROVE Differences'
  <2>1. ASSUME NEW k \in Kinds
        PROVE  /\ OfKind(update'[n].add, k) = Listed(s, k) \ Listed(shown[k], k)
               /\ OfKind(update'[n].del, k) = Listed(shown[k], k) \ Listed(s, k)
    <3>1. OfKind(old, k) = Listed(shown[k], k)
      BY DEF OfKind, Listed
    <3> QED BY <1>5, <3>1 DEF OfKind, Listed
  <2>2. ASSUME NEW m \in Updates, m # n, NEW k \in Kinds, Waiting(m, k)'
        PROVE  /\ update'[m] = update[m]
               /\ OfKind(update[m].add, k) =
                    Listed(update[m].sched, k) \ Listed(shown[k], k)
               /\ OfKind(update[m].del, k) =
                    Listed(shown[k], k) \ Listed(update[m].sched, k)
    <3>1. Waiting(m, k) /\ Differences
      BY <1>1, <1>11, <2>2 DEF Once, Waiting, IsBusy, Total
    <3> QED BY <1>1, <2>2, <3>1 DEF Differences
  <2>3. \A k \in Kinds : shown'[k] = shown[k]
    BY <1>1
  <2> HIDE DEF s, old
  <2> QED BY <1>3, <2>1, <2>2, <2>3 DEF Differences
<1>12. ASSUME repeats' = 0 PROVE Arrived'
  BY <1>1, <1>8, <1>12 DEF Once, Arrived, Waiting, IsBusy, Total, Reported
<1> QED BY <1>9, <1>10, <1>11, <1>12 DEF Once

\* A restart leaves no receiver that could be called back.
LEMMA OnceRestarted ==
  ASSUME TypeOK, Once, Restarted,
         \/ reported' = reported
         \/ \E n \in Updates : \E i \in Ids :
              IsBusy(n) /\ reported' = reported \cup {<<n, i>>}
  PROVE  Once'
<1>1. \A n \in Updates : ~IsBusy(n)'
  BY Restarting DEF IsBusy, FreeUpdate, Gone
<1>2. Fresh'
  <2> SUFFICES ASSUME NEW m \in Updates, update'[m].phase \in {"free", "fetching"},
                      NEW j \in Ids
               PROVE  <<m, j>> \notin reported'
    BY DEF Fresh
  <2>1. update[m].phase = "free"
    BY Restarting DEF FreeUpdate, Gone
  <2>2. <<m, j>> \notin reported
    BY <2>1 DEF Once, Fresh
  <2> QED BY <2>1, <2>2 DEF IsBusy
<1> QED BY <1>1, <1>2 DEF Once, Counted, Differences, Arrived, Waiting

\* What a callback that comes once leaves of the counters.
LEMMA OnceCalledBack ==
  ASSUME TypeOK, Once, NEW n \in Updates, NEW i \in Ids, CalledBack(n, i),
         Count(n, KindOf[i])
  PROVE  /\ Fresh'
         /\ repeats' = 0 => <<n, i>> \notin reported /\ repeats = 0 /\ Counted'
         /\ \A m \in Updates : \A l \in Kinds :
              /\ Reported(m, l) \subseteq Reported(m, l)'
              /\ \A j \in Reported(m, l)' :
                   j \in Reported(m, l) \/ (m = n /\ l = KindOf[i] /\ j = i)
<1> DEFINE k == KindOf[i]
<1>1. k \in Kinds /\ IsBusy(n) /\ i \in update[n].add
  BY KindAssumption DEF CalledBack
<1>2. reported' = reported \cup {<<n, i>>}
  BY DEF CalledBack
<1>3. /\ \A m \in Updates : m # n => update'[m] = update[m]
      /\ update'[n].phase = "busy"
      /\ update'[n].add = update[n].add
      /\ \A l \in Kinds : update'[n].finished[l] =
           IF l = k THEN update[n].finished[k] + 1 ELSE update[n].finished[l]
  BY <1>1, Counting DEF BusyRecords
<1>4. ASSUME NEW m \in Updates, NEW l \in Kinds
      PROVE  Reported(m, l)' = IF m = n /\ l = k THEN Reported(m, l) \cup {i}
                               ELSE Reported(m, l)
  <2>1. update'[m].add = update[m].add
    BY <1>3
  <2>2. \A j : <<m, j>> \in reported' <=> <<m, j>> \in reported \/ (m = n /\ j = i)
    BY <1>2
  <2> QED BY <1>1, <2>1, <2>2 DEF Reported, OfKind
<1>5. Fresh'
  BY <1>1, <1>2, <1>3 DEF Once, Fresh, IsBusy
<1>6. ASSUME repeats' = 0 PROVE <<n, i>> \notin reported /\ repeats = 0
  BY <1>6 DEF CalledBack, TypeOK
<1>7. ASSUME repeats' = 0 PROVE Counted'
  <2>1. Counted
    BY <1>6, <1>7 DEF Once
  <2>2. IsFiniteSet(Reported(n, k))
    <3>1. update[n].add \in SUBSET Ids
      BY <1>1, Shape DEF BusyRecords
    <3> QED BY <3>1, KindAssumption, FS_Subset DEF Reported, OfKind
  <2>3. i \notin Reported(n, k)
    BY <1>6, <1>7 DEF Reported
  <2>4. Cardinality(Reported(n, k)') = Cardinality(Reported(n, k)) + 1
    BY <1>1, <1>4, <2>2, <2>3, FS_AddElement
  <2>5. ASSUME NEW m \in Updates, NEW l \in Kinds, IsBusy(m)'
        PROVE  update'[m].finished[l] = Cardinality(Reported(m, l)')
    <3>1. IsBusy(m)
      BY <1>1, <1>3, <2>5 DEF IsBusy
    <3>2. update[m].finished[l] = Cardinality(Reported(m, l))
      BY <2>1, <3>1 DEF Counted
    <3>3. CASE m = n /\ l = k
      BY <1>3, <2>4, <3>2, <3>3
    <3>4. CASE ~(m = n /\ l = k)
      BY <1>3, <1>4, <3>2, <3>4
    <3> QED BY <3>3, <3>4
  <2> QED BY <2>5 DEF Counted
<1> QED BY <1>4, <1>5, <1>6, <1>7

\* The callback that exchanges a container, in a terminal with one update
\* under way.
LEMMA OnceFinish ==
  ASSUME OneAtATime, Consistent, TypeOK, Alone, Disjoint, Once,
         NEW n \in Updates, NEW i \in Ids, CalledBack(n, i),
         Last(n, KindOf[i]), Finish(n, KindOf[i]), repeats' = 0
  PROVE  /\ Waiting(n, KindOf[i])
         /\ \A j \in OfKind(update[n].add, KindOf[i]) :
              content[Media[update[n].sched][j]] = "whole"
         /\ Differences' /\ Arrived'
<1> DEFINE k == KindOf[i]
           s == update[n].sched
<1>1. k \in Kinds /\ IsBusy(n) /\ i \in OfKind(update[n].add, k) /\ s \in Schedules
  BY KindAssumption, Shape DEF CalledBack, OfKind, BusyRecords
<1>2. Count(n, k)
  BY DEF Finish
<1>3. <<n, i>> \notin reported /\ repeats = 0
  BY <1>2, OnceCalledBack
<1>4. /\ Waiting(n, k) /\ update[n].finished[k] + 1 = Total(n, k)
      /\ OfKind(update[n].add, k) = Reported(n, k) \cup {i}
  BY <1>1, <1>3, Complete DEF Once
<1>5. \A j \in OfKind(update[n].add, k) : content[Media[s][j]] = "whole"
  <2>1. content[Media[s][i]] = "whole"
    BY DEF CalledBack
  <2> QED BY <1>1, <1>3, <1>4, <2>1 DEF Once, Arrived
<1>6. ASSUME NEW m \in Updates, NEW l \in Kinds, Waiting(m, l)'
      PROVE  m = n /\ l # k /\ Waiting(n, l)
  <2>1. Waiting(m, l)
    BY <1>1, <1>2, <1>6, CountingFlight
  <2>2. InFlight(m) /\ InFlight(n)
    BY <1>1, <1>4, <2>1 DEF InFlight
  <2>3. m = n
    BY <2>2 DEF Alone
  <2>4. update'[n].finished[k] = update[n].finished[k] + 1
    BY <1>1, <1>2, Counting
  <2>5. Total(n, k)' = Total(n, k)
    BY <1>1, <1>2, Counting DEF Total
  <2>6. update[n].finished[k] \in Nat
    BY <1>1, Shape DEF BusyRecords
  <2>7. l # k
    BY <1>4, <1>6, <2>3, <2>4, <2>5, <2>6 DEF Waiting
  <2> QED BY <2>1, <2>3, <2>7
<1>7. /\ update'[n].sched = s /\ update'[n].add = update[n].add
      /\ update'[n].del = update[n].del
  BY <1>1, <1>2, Counting
<1>8. \A l \in Kinds : l # k => shown'[l] = shown[l]
  BY DEF Finish, TypeOK
<1>9. Differences'
  BY <1>3, <1>6, <1>7, <1>8 DEF Once, Differences
<1>10. Arrived'
  <2> SUFFICES ASSUME NEW l \in Kinds, l # k, Waiting(n, l), NEW j \in Reported(n, l)'
               PROVE  content'[Media[s][j]] = "whole"
    BY <1>6, <1>7 DEF Arrived
  <2>1. j \in Reported(n, l)
    BY <1>1, <1>2, OnceCalledBack
  <2>2. content[Media[s][j]] = "whole"
    BY <1>3, <2>1 DEF Once, Arrived
  <2>3. j \in Listed(s, l)
    <3>1. OfKind(update[n].add, l) = Listed(s, l) \ Listed(shown[l], l)
      BY <1>3 DEF Once, Differences
    <3> QED BY <2>1, <3>1 DEF Reported
  <2>4. s \in AllSchedules
    BY <1>1 DEF AllSchedules
  <2> QED BY <1>1, <2>2, <2>3, <2>4, Erasing
<1> QED BY <1>4, <1>5, <1>9, <1>10

\* A callback that only counts.
LEMMA OnceCount ==
  ASSUME TypeOK, Once, NEW n \in Updates, NEW i \in Ids, CalledBack(n, i),
         Count(n, KindOf[i]), UNCHANGED <<shown, content>>, repeats' = 0
  PROVE  Differences' /\ Arrived'
<1>1. KindOf[i] \in Kinds /\ IsBusy(n) /\ content[Media[update[n].sched][i]] = "whole"
  BY KindAssumption DEF CalledBack
<1>2. repeats = 0
  BY OnceCalledBack
<1>3. \A m \in Updates : /\ update'[m].sched = update[m].sched
                         /\ \A l \in Kinds : Waiting(m, l)' => Waiting(m, l)
                         /\ \A l \in Kinds : OfKind(update'[m].add, l) =
                                               OfKind(update[m].add, l)
  BY <1>1, CountingFlight
<1>4. \A m \in Updates : update'[m].del = update[m].del
  BY <1>1, Counting
<1>5. Differences'
  BY <1>2, <1>3, <1>4 DEF Once, Differences
<1>6. Arrived'
  <2> SUFFICES ASSUME NEW m \in Updates, NEW l \in Kinds, Waiting(m, l),
                      NEW j \in Reported(m, l)'
               PROVE  content[Media[update[m].sched][j]] = "whole"
    BY <1>3 DEF Arrived
  <2>1. j \in Reported(m, l) \/ (m = n /\ j = i)
    BY OnceCalledBack
  <2> QED BY <1>1, <1>2, <2>1 DEF Once, Arrived
<1> QED BY <1>5, <1>6

\* A step that concerns no callback: a receiver stays as it is, or is not
\* at work, and no file gets less.
LEMMA OnceKept ==
  ASSUME TypeOK, Once, UNCHANGED <<shown, reported, repeats>>,
         \A m \in Updates :
           \/ update'[m] = update[m]
           \/ /\ ~IsBusy(m)'
              /\ update'[m].phase \in {"free", "fetching"} =>
                   update[m].phase \in {"free", "fetching"},
         \A f \in Files : content[f] = "whole" => content'[f] = "whole"
  PROVE  Once'
<1>1. Fresh'
  BY DEF Once, Fresh
<1>2. ASSUME NEW m \in Updates, NEW k \in Kinds, Waiting(m, k)'
      PROVE  update'[m] = update[m] /\ Waiting(m, k) /\ Reported(m, k)' = Reported(m, k)
  BY <1>2 DEF Waiting, Total, IsBusy, Reported
<1>3. ASSUME repeats' = 0 PROVE Counted'
  BY <1>3 DEF Once, Counted, IsBusy, Reported
<1>4. ASSUME repeats' = 0 PROVE Differences'
  BY <1>2, <1>4 DEF Once, Differences
<1>5. ASSUME repeats' = 0 PROVE Arrived'
  <2> SUFFICES ASSUME NEW m \in Updates, NEW k \in Kinds, Waiting(m, k)',
                      NEW i \in Reported(m, k)'
               PROVE  content'[Media[update'[m].sched][i]] = "whole"
    BY DEF Arrived
  <2>1. update'[m] = update[m] /\ Waiting(m, k) /\ i \in Reported(m, k)
    BY <1>2
  <2>2. content[Media[update[m].sched][i]] = "whole"
    BY <1>5, <2>1 DEF Once, Arrived
  <2>3. i \in Listed(update[m].sched, k)
    BY <1>5, <2>1 DEF Once, Differences, Reported
  <2>4. update[m].sched \in AllSchedules
    BY <2>1, Shape DEF Waiting, BusyRecords, AllSchedules
  <2>5. Media[update[m].sched][i] \in Files
    BY <2>3, <2>4, ScheduleAssumption DEF Listed, OfKind
  <2> QED BY <2>1, <2>2, <2>5
<1> QED BY <1>1, <1>3, <1>4, <1>5 DEF Once

\* Of all that happens only callbacks, XMLs and restarts matter to Once.
LEMMA OnceStep ==
  ASSUME OneAtATime, Consistent
  PROVE  TypeOK /\ Alone /\ Disjoint /\ Once /\ [Next]_vars => Once'
<1> SUFFICES ASSUME TypeOK, Alone, Disjoint, Once, [Next]_vars PROVE Once'
  OBVIOUS
<1>1. ASSUME NEW s \in Schedules, Publish(s) PROVE Once'
  BY <1>1, OnceKept DEF Publish
<1>2. ASSUME NEW s \in Schedules, HandleAnswer(s) PROVE Once'
  BY <1>2, OnceKept DEF HandleAnswer, Fetching, FreeUpdate, TypeOK, IsBusy
<1>3. CASE Poll
  BY <1>3, OnceKept DEF Poll
<1>4. ASSUME NEW n \in Updates, HandleXml(n) PROVE Once'
  BY <1>4, OnceXml
<1>5. ASSUME NEW n \in Updates, FetchFails(n) PROVE Once'
  BY <1>5, OnceKept DEF FetchFails, Gone, TypeOK, IsBusy
<1>6. CASE Crash \/ \E n \in Updates : FetchGarbled(n)
  BY <1>6, OnceRestarted DEF FetchGarbled, Crash
<1>7. ASSUME NEW n \in Updates, NEW i \in Ids, Receive(n, i) PROVE Once'
  BY <1>7, OnceKept DEF Receive, TypeOK
<1>8. ASSUME NEW n \in Updates, NEW i \in Ids, OnDownloadFinished(n, i) PROVE Once'
  <2>1. IsBusy(n) /\ KindOf[i] \in Kinds /\ CalledBack(n, i)
    BY <1>8, KindAssumption DEF OnDownloadFinished, CalledBack
  <2>2. CASE Count(n, KindOf[i]) /\ UNCHANGED <<shown, content>>
    <3>1. Fresh' /\ (repeats' = 0 => Counted')
      BY <2>1, <2>2, OnceCalledBack
    <3>2. repeats' = 0 => Differences' /\ Arrived'
      BY <2>1, <2>2, OnceCount
    <3> QED BY <3>1, <3>2 DEF Once
  <2>3. CASE Last(n, KindOf[i]) /\ Finish(n, KindOf[i])
    <3>1. Fresh' /\ (repeats' = 0 => Counted')
      BY <2>1, <2>3, OnceCalledBack DEF Finish
    <3>2. repeats' = 0 => Differences' /\ Arrived'
      BY <2>1, <2>3, OnceFinish
    <3> QED BY <3>1, <3>2 DEF Once
  <2>4. CASE FinishFaults(n, KindOf[i])
    BY <2>1, <2>4, OnceRestarted DEF FinishFaults, CalledBack
  <2> QED BY <1>8, <2>2, <2>3, <2>4 DEF OnDownloadFinished
<1>9. CASE UNCHANGED vars
  BY <1>9, OnceKept DEF vars
<1> QED BY <1>1, <1>2, <1>3, <1>4, <1>5, <1>6, <1>7, <1>8, <1>9 DEF Next, Step

-----------------------------------------------------------------------------
(* What follows.                                                           *)

IInv == TypeOK /\ Alone /\ Disjoint /\ Once

LEMMA InvariantKept == OneAtATime /\ Consistent => (Spec => []IInv)
<1> SUFFICES ASSUME OneAtATime, Consistent PROVE Spec => []IInv
  OBVIOUS
<1>1. Init => Alone /\ Disjoint /\ Once
  BY DEF Init, Alone, Disjoint, Once, Fresh, Counted, Differences, Arrived,
         InFlight, Waiting, IsBusy, FreeUpdate
<1>2. IInv /\ [Next]_vars => Alone' /\ Disjoint' /\ Once'
  BY AloneStep, DisjointStep, OnceStep DEF IInv
<1> QED BY <1>1, <1>2, TypeCorrect, PTL DEF Spec, IInv

\* The ids that an update will delete stay where it will look them up: no
\* null dereference is to come (videoDownloadFinished), for a server that
\* waits for the terminal and callbacks that come once.
THEOREM DeleteSetsCorrect == OneAtATime /\ Consistent => (Spec => []DeleteSetsValid)
<1>1. IInv => DeleteSetsValid
  BY DEF IInv, Once, Differences, DeleteSetsValid, Deletable
<1> QED BY <1>1, InvariantKept, PTL

\* The step that exchanges a container.
LEMMA Exchanging ==
  ASSUME TypeOK, [Next]_vars, crashes' = crashes, NEW l \in Kinds,
         shown'[l] # shown[l]
  PROVE  \E n \in Updates : \E i \in Ids :
           /\ CalledBack(n, i) /\ Last(n, KindOf[i]) /\ Finish(n, KindOf[i])
           /\ l = KindOf[i] /\ shown'[l] = update[n].sched
<1>1. ASSUME Restarted PROVE FALSE
  BY <1>1 DEF Restarted, TypeOK
<1>2. ASSUME NEW n \in Updates, NEW i \in Ids, OnDownloadFinished(n, i)
      PROVE  /\ CalledBack(n, i) /\ Last(n, KindOf[i]) /\ Finish(n, KindOf[i])
             /\ l = KindOf[i] /\ shown'[l] = update[n].sched
  BY <1>1, <1>2 DEF OnDownloadFinished, Finish, FinishFaults, TypeOK
<1> QED BY <1>1, <1>2
        DEF Next, Step, Publish, HandleAnswer, Poll, HandleXml, FetchFails,
            FetchGarbled, Receive, Crash, vars

\* The counter of a kind is ahead of the files called back for by no more than
\* the callbacks that were repeated.
AheadBound ==
  \A n \in Updates : \A k \in Kinds : IsBusy(n) =>
    update[n].finished[k] <= Cardinality(Reported(n, k)) + repeats

\* The files of a kind that an update waits for are finitely many.
LEMMA FiniteReported ==
  ASSUME TypeOK, NEW n \in Updates, NEW k \in Kinds, IsBusy(n)
  PROVE  /\ IsFiniteSet(OfKind(update[n].add, k)) /\ IsFiniteSet(Reported(n, k))
         /\ Cardinality(Reported(n, k)) \in Nat
<1>1. update[n].add \in SUBSET Ids
  BY Shape DEF BusyRecords
<1>2. IsFiniteSet(OfKind(update[n].add, k))
  BY <1>1, KindAssumption, FS_Subset DEF OfKind
<1>3. IsFiniteSet(Reported(n, k))
  BY <1>2, FS_Subset DEF Reported
<1> QED BY <1>2, <1>3, FS_CardinalityType

\* A callback adds one to a counter, and one to its files or to the repeats.
LEMMA AheadCalledBack ==
  ASSUME TypeOK, AheadBound, NEW n \in Updates, NEW i \in Ids, CalledBack(n, i),
         Count(n, KindOf[i])
  PROVE  AheadBound'
<1> DEFINE k == KindOf[i]
<1>1. k \in Kinds /\ IsBusy(n) /\ i \in OfKind(update[n].add, k)
  BY KindAssumption DEF CalledBack, OfKind
<1>2. /\ \A m \in Updates : m # n => update'[m] = update[m]
      /\ \A m \in Updates : update'[m].add = update[m].add
      /\ \A l \in Kinds : update'[n].finished[l] =
           IF l = k THEN update[n].finished[k] + 1 ELSE update[n].finished[l]
  BY <1>1, Counting
<1>3. reported' = reported \cup {<<n, i>>}
  BY DEF CalledBack
<1>4. repeats' \in {repeats, repeats + 1} /\ repeats \in Nat
  BY DEF CalledBack, TypeOK
<1>5. ASSUME NEW m \in Updates, NEW l \in Kinds, IsBusy(m)'
      PROVE  update'[m].finished[l] <= Cardinality(Reported(m, l)') + repeats'
  <2>1. IsBusy(m)
    BY <1>1, <1>2, <1>5 DEF IsBusy
  <2>2. /\ update[m].finished[l] <= Cardinality(Reported(m, l)) + repeats
        /\ update[m].finished[l] \in Nat
    BY <2>1, Shape DEF AheadBound, BusyRecords
  <2>3. IsFiniteSet(Reported(m, l)) /\ Cardinality(Reported(m, l)) \in Nat
    BY <2>1, FiniteReported
  <2>4. CASE m = n /\ l = k
    <3>1. CASE i \in Reported(n, k)
      <4>1. repeats' = repeats + 1
        BY <3>1 DEF CalledBack, Reported
      <4>2. Reported(n, k)' = Reported(n, k)
        BY <1>2, <1>3, <3>1 DEF Reported, OfKind
      <4> QED BY <1>2, <1>4, <2>2, <2>3, <2>4, <4>1, <4>2
    <3>2. CASE i \notin Reported(n, k)
      <4>1. Reported(n, k)' = Reported(n, k) \cup {i}
        BY <1>1, <1>2, <1>3 DEF Reported, OfKind
      <4>2. Cardinality(Reported(n, k)') = Cardinality(Reported(n, k)) + 1
        BY <2>3, <2>4, <3>2, <4>1, FS_AddElement
      <4> QED BY <1>2, <1>4, <2>2, <2>3, <2>4, <4>2
    <3> QED BY <3>1, <3>2
  <2>5. CASE ~(m = n /\ l = k)
    <3>1. update'[m].finished[l] = update[m].finished[l]
      BY <1>2, <2>5
    <3>2. Reported(m, l)' = Reported(m, l)
      BY <1>1, <1>2, <1>3, <2>5 DEF Reported, OfKind
    <3> QED BY <1>4, <2>2, <2>3, <3>1, <3>2
  <2> QED BY <2>4, <2>5
<1> QED BY <1>5 DEF AheadBound

\* Every other step leaves the counters, or makes new ones at zero.
LEMMA AheadStep == TypeOK /\ TypeOK' /\ AheadBound /\ [Next]_vars => AheadBound'
<1> SUFFICES ASSUME TypeOK, TypeOK', AheadBound, [Next]_vars PROVE AheadBound'
  OBVIOUS
<1>1. ASSUME \A n \in Updates : ~IsBusy(n)' PROVE AheadBound'
  BY <1>1 DEF AheadBound
<1>2. ASSUME Restarted PROVE AheadBound'
  BY <1>1, <1>2, Restarting DEF IsBusy, FreeUpdate, Gone
<1>3. ASSUME reported' = reported, repeats' = repeats,
             \A m \in Updates : update'[m] = update[m] \/ ~IsBusy(m)'
      PROVE  AheadBound'
  BY <1>3 DEF AheadBound, IsBusy, Reported
<1>4. ASSUME NEW n \in Updates, HandleXml(n) PROVE AheadBound'
  <2>1. /\ \A m \in Updates : m # n => update'[m] = update[m]
        /\ UNCHANGED <<reported, repeats>>
    BY <1>4 DEF HandleXml, TypeOK
  <2>2. \A k \in Kinds : update'[n].finished[k] = 0
    BY <1>4 DEF HandleXml, TypeOK, Busy
  <2>3. ASSUME NEW k \in Kinds, IsBusy(n)'
        PROVE  0 <= Cardinality(Reported(n, k)') + repeats'
    <3>1. Cardinality(Reported(n, k)') \in Nat
      <4>1. update'[n] \in BusyRecords
        BY <2>3 DEF TypeOK, Receivers, IsBusy, BusyRecords, FreeUpdate, Gone
      <4>2. IsFiniteSet(Reported(n, k)')
        BY <4>1, KindAssumption, FS_Subset DEF BusyRecords, Reported, OfKind
      <4> QED BY <4>2, FS_CardinalityType
    <3>2. repeats' \in Nat
      BY DEF TypeOK
    <3> QED BY <3>1, <3>2
  <2>4. ASSUME NEW m \in Updates, m # n, NEW k \in Kinds, IsBusy(m)'
        PROVE  update'[m].finished[k] <= Cardinality(Reported(m, k)') + repeats'
    BY <2>1, <2>4 DEF AheadBound, IsBusy, Reported
  <2> QED BY <2>2, <2>3, <2>4 DEF AheadBound
<1>5. ASSUME NEW n \in Updates, NEW i \in Ids, OnDownloadFinished(n, i)
      PROVE  AheadBound'
  <2>1. CalledBack(n, i) /\ (Count(n, KindOf[i]) \/ Restarted)
    BY <1>5 DEF OnDownloadFinished, Finish, FinishFaults
  <2> QED BY <1>2, <2>1, AheadCalledBack
<1>6. ASSUME NEW s \in Schedules, Publish(s) \/ HandleAnswer(s) PROVE AheadBound'
  BY <1>3, <1>6 DEF Publish, HandleAnswer, TypeOK, Fetching, IsBusy
<1>7. CASE Poll BY <1>3, <1>7 DEF Poll
<1>8. ASSUME NEW n \in Updates, FetchFails(n) \/ FetchGarbled(n) PROVE AheadBound'
  BY <1>2, <1>3, <1>8 DEF FetchFails, FetchGarbled, TypeOK, Gone, IsBusy
<1>9. ASSUME NEW n \in Updates, NEW i \in Ids, Receive(n, i) PROVE AheadBound'
  BY <1>3, <1>9 DEF Receive
<1>10. CASE Crash BY <1>2, <1>10 DEF Crash
<1>11. CASE UNCHANGED vars BY <1>3, <1>11 DEF vars
<1> QED BY <1>4, <1>5, <1>6, <1>7, <1>8, <1>9, <1>10, <1>11 DEF Next, Step

\* An exchange comes before the callbacks of no more files than callbacks were
\* repeated.
LEMMA AheadFinish ==
  ASSUME TypeOK, AheadBound, AheadBound', TypeOK', NEW n \in Updates, NEW i \in Ids,
         CalledBack(n, i), Last(n, KindOf[i]), Count(n, KindOf[i])
  PROVE  Cardinality(Outstanding(n, KindOf[i])') <= repeats'
<1> DEFINE k == KindOf[i]
           S == OfKind(update[n].add, k)
           R == Reported(n, k)'
<1>1. k \in Kinds /\ IsBusy(n)
  BY KindAssumption DEF CalledBack
<1>2. /\ update'[n].add = update[n].add /\ update'[n].phase = "busy"
      /\ update'[n].finished[k] = update[n].finished[k] + 1
  BY <1>1, Counting DEF BusyRecords
<1>3. IsFiniteSet(S)
  BY <1>1, FiniteReported
<1>4. Outstanding(n, k)' = S \ R /\ R \subseteq S
  BY <1>2 DEF Outstanding, Reported, OfKind
<1>5. /\ IsFiniteSet(R) /\ Cardinality(S) \in Nat /\ Cardinality(R) \in Nat
      /\ Cardinality(S \ R) = Cardinality(S) - Cardinality(R)
  <2>1. IsFiniteSet(R) BY <1>3, <1>4, FS_Subset
  <2>2. S \cap R = R BY <1>4
  <2> QED BY <1>3, <2>1, <2>2, FS_Difference, FS_CardinalityType
<1>6. update'[n].finished[k] <= Cardinality(R) + repeats'
  BY <1>1, <1>2 DEF AheadBound, IsBusy
<1>7. update[n].finished[k] + 1 >= Cardinality(S)
  BY DEF Last, Total
<1>8. update[n].finished[k] \in Nat /\ repeats' \in Nat
  BY <1>1, Shape DEF BusyRecords, TypeOK
<1> HIDE DEF S, R
<1> QED BY <1>2, <1>4, <1>5, <1>6, <1>7, <1>8

\* Half of SwitchComplete holds for every server, overlapping updates and files
\* that share a name included: a container is exchanged (OnDownloadFinished)
\* ahead of its files' callbacks by no more of them than callbacks were repeated.
SwitchBounded ==
  [][\A k \in Kinds : shown'[k] # shown[k] /\ crashes' = crashes =>
       \E n \in Updates :
         /\ IsBusy(n) /\ update[n].sched = shown'[k]
         /\ Cardinality(Outstanding(n, k)') <= repeats']_vars

THEOREM SwitchBoundedCorrect == Spec => SwitchBounded
<1>1. TypeOK /\ TypeOK' /\ AheadBound /\ AheadBound' /\ [Next]_vars =>
        [\A k \in Kinds : shown'[k] # shown[k] /\ crashes' = crashes =>
           \E n \in Updates :
             /\ IsBusy(n) /\ update[n].sched = shown'[k]
             /\ Cardinality(Outstanding(n, k)') <= repeats']_vars
  <2> SUFFICES ASSUME TypeOK, TypeOK', AheadBound, AheadBound', [Next]_vars,
                      NEW k \in Kinds, shown'[k] # shown[k], crashes' = crashes
               PROVE  \E n \in Updates :
                        /\ IsBusy(n) /\ update[n].sched = shown'[k]
                        /\ Cardinality(Outstanding(n, k)') <= repeats'
    OBVIOUS
  <2>1. PICK n \in Updates, i \in Ids :
          /\ CalledBack(n, i) /\ Last(n, KindOf[i]) /\ Finish(n, KindOf[i])
          /\ k = KindOf[i] /\ shown'[k] = update[n].sched
    BY Exchanging
  <2>2. Cardinality(Outstanding(n, k)') <= repeats'
    BY <2>1, AheadFinish DEF Finish
  <2> QED BY <2>1, <2>2 DEF CalledBack
<1>2. Init => AheadBound
  BY DEF Init, AheadBound, IsBusy, FreeUpdate
<1> QED BY <1>1, <1>2, AheadStep, TypeCorrect, PTL DEF Spec, SwitchBounded

\* A container is exchanged ahead of its files' callbacks by no more of them
\* than callbacks were repeated, and whole as long as none was, in a process
\* started on any saved XML (OnDownloadFinished).
THEOREM SwitchCorrect == OneAtATime /\ Consistent => (Spec => SwitchComplete)
<1> SUFFICES ASSUME OneAtATime, Consistent PROVE Spec => SwitchComplete
  OBVIOUS
<1>1. IInv /\ TypeOK' /\ AheadBound /\ AheadBound' /\ [Next]_vars =>
        [\A k \in Kinds : shown'[k] # shown[k] /\ crashes' = crashes =>
           \E n \in Updates :
             /\ IsBusy(n) /\ update[n].sched = shown'[k]
             /\ Cardinality(Outstanding(n, k)') <= repeats'
             /\ repeats' = 0 =>
                  \A i \in OfKind(update[n].add, k) :
                    content[Media[update[n].sched][i]] = "whole"]_vars
  <2> SUFFICES ASSUME IInv, TypeOK', AheadBound, AheadBound', [Next]_vars,
                      NEW k \in Kinds, shown'[k] # shown[k], crashes' = crashes
               PROVE  \E n \in Updates :
                        /\ IsBusy(n) /\ update[n].sched = shown'[k]
                        /\ Cardinality(Outstanding(n, k)') <= repeats'
                        /\ repeats' = 0 =>
                             \A i \in OfKind(update[n].add, k) :
                               content[Media[update[n].sched][i]] = "whole"
    OBVIOUS
  <2>1. PICK n \in Updates, i \in Ids :
          /\ CalledBack(n, i) /\ Last(n, KindOf[i]) /\ Finish(n, KindOf[i])
          /\ k = KindOf[i] /\ shown'[k] = update[n].sched
    BY Exchanging DEF IInv
  <2>2. Cardinality(Outstanding(n, k)') <= repeats'
    BY <2>1, AheadFinish DEF IInv, Finish
  <2>3. repeats' = 0 =>
          \A j \in OfKind(update[n].add, k) :
            content[Media[update[n].sched][j]] = "whole"
    BY <2>1, OnceFinish DEF IInv
  <2> QED BY <2>1, <2>2, <2>3 DEF CalledBack
<1>2. Init => AheadBound
  BY DEF Init, AheadBound, IsBusy, FreeUpdate
<1> QED BY <1>1, <1>2, AheadStep, InvariantKept, TypeCorrect, PTL
        DEF Spec, SwitchComplete

\* Files only get more unless the delete loop runs.
LEMMA Growing ==
  ASSUME TypeOK, [Next]_vars, Undisturbed', shown' = shown,
         NEW f \in Files, content[f] = "whole"
  PROVE  content'[f] = "whole" \/ \E n \in Updates : \E i \in Ids :
           CalledBack(n, i) /\ Last(n, KindOf[i]) /\ Finish(n, KindOf[i])
<1>1. ASSUME Restarted PROVE FALSE
  BY <1>1, Restarting DEF Undisturbed
<1>2. ASSUME NEW n \in Updates, NEW i \in Ids, OnDownloadFinished(n, i)
      PROVE  \/ CalledBack(n, i) /\ Last(n, KindOf[i]) /\ Finish(n, KindOf[i])
             \/ content' = content
  BY <1>1, <1>2 DEF OnDownloadFinished, FinishFaults
<1>3. ASSUME NEW n \in Updates, NEW i \in Ids, Receive(n, i)
      PROVE  content'[f] = "whole"
  BY <1>3 DEF Receive, TypeOK
<1> QED BY <1>1, <1>2, <1>3
        DEF Next, Step, Publish, HandleAnswer, Poll, HandleXml, FetchFails,
            FetchGarbled, Crash, vars

\* A container comes whole, and leaves the others so.
LEMMA WholeFinish ==
  ASSUME OneAtATime, Consistent, IInv, ShownWhole, Undisturbed, Undisturbed', TypeOK',
         NEW n \in Updates, NEW i \in Ids, CalledBack(n, i),
         Last(n, KindOf[i]), Finish(n, KindOf[i])
  PROVE  ShownWhole'
<1> DEFINE k == KindOf[i]
           s == update[n].sched
<1> USE DEF IInv
<1>1. k \in Kinds /\ IsBusy(n) /\ s \in AllSchedules
  BY KindAssumption, Shape DEF CalledBack, BusyRecords, AllSchedules
<1>2. repeats = 0 /\ repeats' = 0
  BY DEF Undisturbed
<1>3. /\ Waiting(n, k)
      /\ \A j \in OfKind(update[n].add, k) : content[Media[s][j]] = "whole"
  BY <1>2, OnceFinish
<1>4. OfKind(update[n].add, k) = Listed(s, k) \ Listed(shown[k], k)
  BY <1>1, <1>2, <1>3 DEF Once, Differences
<1>5. \A l \in Kinds : \A j \in Listed(shown[l], l) : content[Media[shown[l]][j]] = "whole"
  BY DEF ShownWhole, FilesOf
<1>6. \A j \in Listed(s, k) : content[Media[s][j]] = "whole"
  <2> SUFFICES ASSUME NEW j \in Listed(s, k) PROVE content[Media[s][j]] = "whole"
    OBVIOUS
  <2>1. CASE j \in Listed(shown[k], k)
    <3>1. Media[s][j] = Media[shown[k]][j]
      BY <1>1, <2>1 DEF Consistent, TypeOK, Listed, OfKind
    <3> QED BY <1>1, <1>5, <2>1, <3>1
  <2> QED BY <1>3, <1>4, <2>1
<1>7. \A j \in Listed(s, k) : content'[Media[s][j]] = "whole"
  <2> SUFFICES ASSUME NEW j \in Listed(s, k) PROVE content'[Media[s][j]] = "whole"
    OBVIOUS
  <2>1. j \in DOMAIN Media[s]
    BY DEF Listed, OfKind
  <2> QED BY <1>1, <1>6, <2>1, Erasing
<1>8. ASSUME NEW l \in Kinds, l # k, NEW j \in Listed(shown[l], l)
      PROVE  content'[Media[shown[l]][j]] = "whole"
  <2>1. shown[l] \in AllSchedules
    BY DEF TypeOK
  <2> QED BY <1>1, <1>5, <1>8, <2>1, Erasing
<1>9. shown'[k] = s /\ \A l \in Kinds : l # k => shown'[l] = shown[l]
  BY <1>1 DEF Finish, TypeOK
<1> HIDE DEF k, s
<1> QED BY <1>7, <1>8, <1>9 DEF ShownWhole, FilesOf

\* Until the first crash or repeated callback what is shown is on the flash
\* in full, through any sequence of schedules and failed fetches.
THEOREM ShownCorrect == OneAtATime /\ Consistent => (Spec => []ShownWhole)
<1> SUFFICES ASSUME OneAtATime, Consistent PROVE Spec => []ShownWhole
  OBVIOUS
<1>1. Init => ShownWhole
  BY ScheduleAssumption DEF Init, ShownWhole, FilesOf, Listed, OfKind
<1>2. IInv /\ TypeOK' /\ ShownWhole /\ [Next]_vars => ShownWhole'
  <2> SUFFICES ASSUME IInv, TypeOK', ShownWhole, [Next]_vars, Undisturbed'
               PROVE  ShownWhole'
    BY DEF ShownWhole
  <2>1. repeats \in Nat /\ crashes \in Nat
    BY DEF IInv, TypeOK
  <2>2. crashes' = crashes \/ Restarted
    BY DEF Next, Step, Publish, HandleAnswer, Poll, HandleXml, FetchFails,
           FetchGarbled, Receive, OnDownloadFinished, Finish, FinishFaults, Crash,
           vars
  <2>3. crashes' = crashes
    BY <2>1, <2>2 DEF Restarted, Undisturbed
  <2>4. repeats' = repeats \/ repeats' = repeats + 1
    BY DEF Next, Step, Publish, HandleAnswer, Poll, HandleXml, FetchFails,
           FetchGarbled, Receive, OnDownloadFinished, CalledBack, Crash, vars
  <2>5. Undisturbed
    BY <2>1, <2>3, <2>4 DEF Undisturbed
  <2>6. CASE \E n \in Updates : \E i \in Ids :
               CalledBack(n, i) /\ Last(n, KindOf[i]) /\ Finish(n, KindOf[i])
    BY <2>5, <2>6, WholeFinish
  <2>7. CASE ~\E n \in Updates : \E i \in Ids :
               CalledBack(n, i) /\ Last(n, KindOf[i]) /\ Finish(n, KindOf[i])
    <3>1. \A k \in Kinds : shown'[k] = shown[k]
      BY <2>5, <2>7, Exchanging DEF IInv, Undisturbed
    <3>2. shown' = shown
      BY <3>1 DEF IInv, TypeOK
    <3>3. \A f \in Files : content[f] = "whole" => content'[f] = "whole"
      BY <2>7, <3>2, Growing DEF IInv
    <3>4. \A k \in Kinds : FilesOf(shown[k], k) \subseteq Files
      BY ScheduleAssumption DEF IInv, TypeOK, FilesOf, Listed, OfKind
    <3> QED BY <2>5, <3>2, <3>3, <3>4 DEF ShownWhole, FilesOf
  <2> QED BY <2>6, <2>7
<1> QED BY <1>1, <1>2, InvariantKept, TypeCorrect, PTL DEF Spec

-----------------------------------------------------------------------------
(* The current schedule is followed.                                       *)

Followed(k) ==
  \/ shown[k] = resolution
  \/ NothingNew(resolution, k)
  \/ \E n \in Updates : Follows(n, k)

\* An XML has something to wait for, of each kind, or brings nothing new of it.
LEMMA FollowedXml ==
  ASSUME TypeOK, Alone, NEW n \in Updates, HandleXml(n), NEW k \in Kinds
  PROVE  Followed(k)'
<1> DEFINE s == update[n].sched
           old == UNION {Listed(shown[l], l) : l \in Kinds}
           new == DOMAIN Media[s]
<1>1. s \in Schedules /\ s = resolution
  BY Shape DEF HandleXml, Alone, InFlight
<1>2. /\ update'[n] = Busy(s, new \ old, old \ new)
      /\ UNCHANGED <<shown, resolution>>
  BY DEF HandleXml, TypeOK
<1>3. /\ update'[n].phase = "busy" /\ update'[n].sched = s
      /\ update'[n].add = new \ old /\ update'[n].finished[k] = 0
  BY <1>2 DEF Busy
<1>4. OfKind(new \ old, k) = Listed(s, k) \ Listed(shown[k], k)
  BY DEF OfKind, Listed
<1>5. CASE OfKind(new \ old, k) = {}
  <2>1. Listed(s, k) \subseteq Listed(shown[k], k) BY <1>4, <1>5
  <2>2. NothingNew(resolution, k)' BY <1>1, <1>2, <2>1 DEF NothingNew
  <2> QED BY <2>2 DEF Followed
<1>6. CASE OfKind(new \ old, k) # {}
  <2>1. new \subseteq Ids BY <1>1, ScheduleAssumption DEF AllSchedules
  <2>2. IsFiniteSet(OfKind(new \ old, k))
    BY <2>1, KindAssumption, FS_Subset DEF OfKind
  <2>3. Cardinality(OfKind(new \ old, k)) \in Nat \ {0}
    BY <1>6, <2>2, FS_CardinalityType, FS_EmptySet
  <2>4. Total(n, k)' = Cardinality(OfKind(new \ old, k)) BY <1>3 DEF Total
  <2>5. Waiting(n, k)' BY <1>3, <2>3, <2>4 DEF Waiting, IsBusy
  <2>6. Follows(n, k)' BY <1>1, <1>2, <1>3, <2>5 DEF Follows
  <2> QED BY <2>6 DEF Followed
<1> QED BY <1>5, <1>6

\* A callback leaves its kind waiting for the next, or shows the schedule; the
\* other kind goes on as it was.
LEMMA FollowedCallback ==
  ASSUME OneAtATime, Consistent, IInv, repeats' = 0,
         NEW n \in Updates, NEW i \in Ids, CalledBack(n, i), Count(n, KindOf[i]),
         UNCHANGED resolution,
         \/ Last(n, KindOf[i]) /\ Finish(n, KindOf[i])
         \/ ~Last(n, KindOf[i]) /\ UNCHANGED shown,
         NEW k \in Kinds, Followed(k)
  PROVE  Followed(k)'
<1> DEFINE l == KindOf[i]
<1> USE DEF IInv
<1>1. /\ l \in Kinds /\ IsBusy(n)
      /\ update[n].finished \in [Kinds -> Nat]
  BY KindAssumption, Shape DEF CalledBack, BusyRecords
<1>2. Total(n, l) \in Nat
  <2>1. update[n].add \in SUBSET Ids BY <1>1, Shape DEF BusyRecords
  <2>2. IsFiniteSet(OfKind(update[n].add, l))
    BY <2>1, KindAssumption, FS_Subset DEF OfKind
  <2> QED BY <2>2, FS_CardinalityType DEF Total
<1>3. /\ \A m \in Updates : m # n => update'[m] = update[m]
      /\ update'[n] \in BusyRecords
      /\ update'[n].sched = update[n].sched /\ update'[n].add = update[n].add
      /\ \A j \in Kinds : update'[n].finished[j] =
           IF j = l THEN update[n].finished[l] + 1 ELSE update[n].finished[j]
  BY <1>1, Counting
<1>4. Waiting(n, l)
  <2>1. CASE Last(n, l) /\ Finish(n, l) BY <2>1, OnceFinish
  <2>2. CASE ~Last(n, l) BY <1>1, <1>2, <2>2 DEF Last, Waiting
  <2> QED BY <2>1, <2>2
<1>5. update[n].sched = resolution
  BY <1>1, <1>4 DEF Alone, InFlight
<1>6. CASE k = l
  <2>1. CASE Last(n, l) /\ Finish(n, l)
    <3>1. shown'[k] = resolution' BY <1>1, <1>5, <1>6, <2>1 DEF Finish, TypeOK
    <3> QED BY <3>1 DEF Followed
  <2>2. CASE ~Last(n, l)
    <3>1. update'[n].finished[l] < Total(n, l)
      BY <1>1, <1>2, <1>3, <2>2 DEF Last
    <3>2. Total(n, l)' = Total(n, l) /\ update'[n].phase = "busy"
      BY <1>3 DEF Total, BusyRecords
    <3>3. Waiting(n, l)' BY <3>1, <3>2 DEF Waiting, IsBusy
    <3>4. Follows(n, k)' BY <1>3, <1>5, <1>6, <3>3 DEF Follows
    <3> QED BY <3>4 DEF Followed
  <2> QED BY <2>1, <2>2
<1>7. CASE k # l
  <2>1. shown'[k] = shown[k] BY <1>1, <1>7 DEF Finish, TypeOK
  <2>2. ASSUME NEW m \in Updates, Follows(m, k) PROVE Follows(m, k)'
    <3>1. CASE m # n BY <1>3, <2>2, <3>1 DEF Follows, Waiting, IsBusy, Total
    <3>2. CASE m = n
      <4>1. Waiting(n, k) BY <1>1, <2>2, <3>2 DEF Follows, IsBusy
      <4>2. /\ update'[n].finished[k] = update[n].finished[k]
            /\ update'[n].phase = "busy" /\ Total(n, k)' = Total(n, k)
        BY <1>3, <1>7 DEF BusyRecords, Total
      <4>3. Waiting(n, k)' BY <4>1, <4>2 DEF Waiting, IsBusy
      <4> QED BY <1>3, <1>5, <3>2, <4>3 DEF Follows
    <3> QED BY <3>1, <3>2
  <2>3. NothingNew(resolution, k) => NothingNew(resolution, k)'
    BY <2>1 DEF NothingNew
  <2> QED BY <2>1, <2>2, <2>3 DEF Followed
<1> QED BY <1>6, <1>7

\* ServerRequest's current schedule is shown, brings nothing new, or has an
\* update under way, for each kind (mWebRequestHandler, XmlFetchSuccess and the
\* callbacks), however often the process dies: with fetches that do not fail, a
\* server that waits and callbacks that come once.
THEOREM FollowedCorrect ==
  OneAtATime /\ Consistent /\ ~MayFail => (Spec => []AnswerFollowed)
<1> SUFFICES ASSUME OneAtATime, Consistent, ~MayFail PROVE Spec => []AnswerFollowed
  OBVIOUS
<1>1. Init => AnswerFollowed
  BY DEF Init, AnswerFollowed
<1>2. IInv /\ TypeOK' /\ AnswerFollowed /\ [Next]_vars => AnswerFollowed'
  <2> SUFFICES ASSUME IInv, TypeOK', AnswerFollowed, [Next]_vars, repeats' = 0,
                      NEW k \in Kinds
               PROVE  Followed(k)'
    BY DEF AnswerFollowed, Followed
  <2>1. repeats = 0
    <3>1. repeats' = repeats \/ repeats' = repeats + 1
      BY DEF Next, Step, Publish, HandleAnswer, Poll, HandleXml, FetchFails,
             FetchGarbled, Receive, OnDownloadFinished, CalledBack, Crash, vars
    <3> QED BY <3>1 DEF IInv, TypeOK
  <2>2. Followed(k) BY <2>1 DEF AnswerFollowed, Followed
  <2>3. CASE UNCHANGED <<shown, resolution, update>>
    BY <2>2, <2>3 DEF Followed, NothingNew, Follows, Waiting, IsBusy, Total
  <2>4. ASSUME NEW s \in Schedules, HandleAnswer(s) PROVE Followed(k)'
    <3>1. CASE UNCHANGED <<resolution, update>> BY <2>3, <2>4, <3>1 DEF HandleAnswer
    <3>2. ASSUME NEW n \in Updates, resolution' = s,
                 update' = [update EXCEPT ![n] = Fetching(s)]
          PROVE  Followed(k)'
      <4>1. update'[n] = Fetching(s) BY <3>2 DEF IInv, TypeOK
      <4>2. Follows(n, k)' BY <3>2, <4>1 DEF Follows, Fetching
      <4> QED BY <4>2 DEF Followed
    <3> QED BY <2>4, <3>1, <3>2 DEF HandleAnswer
  <2>5. ASSUME NEW n \in Updates, HandleXml(n) PROVE Followed(k)'
    BY <2>5, FollowedXml DEF IInv
  <2>6. CASE Restarted
    <3>1. shown'[k] = resolution' BY <2>6 DEF Restarted
    <3> QED BY <3>1 DEF Followed
  <2>7. ASSUME NEW n \in Updates, NEW i \in Ids, OnDownloadFinished(n, i)
        PROVE  Followed(k)'
    <3>1. CASE FinishFaults(n, KindOf[i]) BY <2>6, <3>1 DEF FinishFaults
    <3>2. CASE ~FinishFaults(n, KindOf[i])
      <4>1. /\ CalledBack(n, i) /\ Count(n, KindOf[i]) /\ UNCHANGED resolution
            /\ \/ Last(n, KindOf[i]) /\ Finish(n, KindOf[i])
               \/ ~Last(n, KindOf[i]) /\ UNCHANGED shown
        BY <2>7, <3>2 DEF OnDownloadFinished, Finish
      <4> QED BY <2>2, <4>1, FollowedCallback
    <3> QED BY <3>1, <3>2
  <2> QED
    BY <2>3, <2>4, <2>5, <2>6, <2>7
    DEF Next, Step, Publish, Poll, FetchFails, FetchGarbled, Receive, Crash, vars
<1> QED BY <1>1, <1>2, InvariantKept, TypeCorrect, PTL DEF Spec
=============================================================================
