---------------------------- MODULE MediaUpdate ----------------------------
(***************************************************************************)
(* How the terminal follows the schedule its server assigns.               *)
(*                                                                         *)
(* ServerRequest asks the web service for the schedule every 10 s, each    *)
(* time on a thread of its own.  An answer that names another schedule     *)
(* than the current one makes a MediaUpdateReceiver, which fetches the     *)
(* schedule's XML, has the media the terminal lacks downloaded, saves the  *)
(* XML, and, kind by kind, shows the new media and deletes the old files   *)
(* once the last download of that kind has called back.  MediaStrategyMgr  *)
(* holds what is shown, and starts from the saved XML.                     *)
(*                                                                         *)
(* Handlers and callbacks run on the main thread, one at a time.  The      *)
(* download engine is used as DownloadContract promises it: a callback     *)
(* comes only while its file is whole, and may come again.  An XML is      *)
(* taken to carry the id of its schedule as its attribute "resolution".    *)
(***************************************************************************)
EXTENDS Integers, FiniteSets

CONSTANTS
  Schedules,    (* schedule ids of the server                              *)
  NoSchedule,   (* no schedule: what an unused terminal has saved          *)
  Kinds,        (* video and image                                         *)
  Ids,          (* ids of media                                            *)
  KindOf,       (* the kind of an id                                       *)
  Files,        (* file names                                              *)
  Media,        (* Media[s]: the file name of each id that s lists         *)
  MayFail,      (* fetching an XML may fail                                *)
  OneAtATime,   (* the server only reassigns a terminal that has settled   *)
  MaxAnswers,   (* bound: answers of the web service on their way          *)
  MaxUpdates,   (* bound: MediaUpdateReceivers made                        *)
  MaxChanges,   (* bound: reassignments by the server                      *)
  MaxRepeats,   (* bound: callbacks made a second time                     *)
  MaxCrashes    (* bound: deaths of the process                            *)

AllSchedules == Schedules \cup {NoSchedule}

ASSUME ScheduleAssumption ==
  /\ NoSchedule \notin Schedules
  /\ \A s \in AllSchedules : DOMAIN Media[s] \subseteq Ids
  /\ \A s \in AllSchedules : \A i \in DOMAIN Media[s] : Media[s][i] \in Files
  /\ DOMAIN Media[NoSchedule] = {}
ASSUME KindAssumption == KindOf \in [Ids -> Kinds] /\ IsFiniteSet(Ids)
ASSUME MediaSwitchAssumption == MayFail \in BOOLEAN /\ OneAtATime \in BOOLEAN
ASSUME MediaBoundAssumption ==
  /\ MaxAnswers \in Nat /\ MaxUpdates \in Nat /\ MaxChanges \in Nat
  /\ MaxRepeats \in Nat /\ MaxCrashes \in Nat

VARIABLES
  published,   (* the schedule the server has for this terminal            *)
  answers,     (* answers[s]: answers naming s not yet handled             *)
  resolution,  (* adMediaInfo.resolution: the schedule last asked for      *)
  shown,       (* shown[k]: the schedule whose container of kind k is used *)
  saved,       (* the XML in the preferences                               *)
  update,      (* the MediaUpdateReceivers                                 *)
  content,     (* content[f]: how much of file f is on the flash           *)
  reported,    (* <<n, i>>: update n has been called back for id i         *)
  changes, repeats, crashes

serverVars == <<published, answers, changes>>
vars == <<published, answers, resolution, shown, saved, update, content,
          reported, changes, repeats, crashes>>

Updates == 1..MaxUpdates
OfKind(S, k) == {i \in S : KindOf[i] = k}

\* keySet() of the container of kind k of schedule s, and its files.
Listed(s, k) == OfKind(DOMAIN Media[s], k)
FilesOf(s, k) == {Media[s][i] : i \in Listed(s, k)}

\* A receiver: its XML is being fetched, or has been processed into the
\* sets of ids to download and to delete (of both kinds together) and the
\* counters of finished downloads; it is gone when it waits for nothing.
FreeUpdate == [phase |-> "free"]
Gone == [phase |-> "gone"]
Fetching(s) == [phase |-> "fetching", sched |-> s]
Busy(s, add, del) == [phase |-> "busy", sched |-> s, add |-> add, del |-> del,
                      finished |-> [k \in Kinds |-> 0]]
Receivers ==
  {FreeUpdate, Gone} \cup [phase : {"fetching"}, sched : Schedules]
    \cup [phase : {"busy"}, sched : Schedules, add : SUBSET Ids,
          del : SUBSET Ids, finished : [Kinds -> Nat]]

IsBusy(n) == update[n].phase = "busy"

\* mTotalVideoTaskNum and mTotalImageTaskNum
Total(n, k) == Cardinality(OfKind(update[n].add, k))
Waiting(n, k) == IsBusy(n) /\ update[n].finished[k] < Total(n, k)
InFlight(n) == update[n].phase = "fetching" \/ \E k \in Kinds : Waiting(n, k)

TypeOK ==
  /\ published \in AllSchedules
  /\ answers \in [Schedules -> 0..MaxAnswers]
  /\ resolution \in AllSchedules
  /\ shown \in [Kinds -> AllSchedules]
  /\ saved \in AllSchedules
  /\ update \in [Updates -> Receivers]
  /\ content \in [Files -> {"none", "part", "whole"}]
  /\ reported \subseteq Updates \X Ids
  /\ changes \in 0..MaxChanges
  /\ repeats \in 0..MaxRepeats
  /\ crashes \in 0..MaxCrashes

Init ==
  /\ published = NoSchedule
  /\ answers = [s \in Schedules |-> 0]
  /\ resolution = NoSchedule
  /\ shown = [k \in Kinds |-> NoSchedule]
  /\ saved = NoSchedule
  /\ update = [n \in Updates |-> FreeUpdate]
  /\ content = [f \in Files |-> "none"]
  /\ reported = {}
  /\ changes = 0 /\ repeats = 0 /\ crashes = 0

-----------------------------------------------------------------------------
(* The server.                                                             *)

Settled ==
  /\ \A s \in Schedules : answers[s] = 0
  /\ \A n \in Updates : ~InFlight(n)

Publish(s) ==
  /\ changes < MaxChanges
  /\ OneAtATime => Settled
  /\ s # published
  /\ published' = s
  /\ changes' = changes + 1
  /\ UNCHANGED <<answers, resolution, shown, saved, update, content, reported,
                 repeats, crashes>>

-----------------------------------------------------------------------------
(* ServerRequest.                                                          *)

\* A tick of the timer: some thread comes back with the schedule of now.
\* A poll that fails tells nobody.
Poll ==
  /\ published # NoSchedule
  /\ answers[published] < MaxAnswers
  /\ answers' = [answers EXCEPT ![published] = @ + 1]
  /\ UNCHANGED <<published, resolution, shown, saved, update, content,
                 reported, changes, repeats, crashes>>

\* Mutant of HandleAnswer: an answer is taken that never came.
HandleAnswerOfNone(s) ==
  /\ answers[s] >= 0
  /\ answers' = [answers EXCEPT ![s] = @ - 1]
  /\ UNCHANGED <<published, resolution, update, shown, saved, content, reported,
                 changes, repeats, crashes>>

\* mWebRequestHandler: another schedule than the current one is taken for
\* current at once, before anything of it has been fetched.
HandleAnswer(s) ==
  /\ answers[s] > 0
  /\ answers' = [answers EXCEPT ![s] = @ - 1]
  /\ \/ s = resolution /\ UNCHANGED <<resolution, update>>
     \/ /\ s # resolution
        /\ resolution' = s
        /\ \E n \in Updates :
             /\ update[n] = FreeUpdate
             /\ \A m \in 1..(n - 1) : update[m] # FreeUpdate
             /\ update' = [update EXCEPT ![n] = Fetching(s)]
  /\ UNCHANGED <<published, shown, saved, content, reported, changes, repeats,
                 crashes>>

-----------------------------------------------------------------------------
(* MediaUpdateReceiver.                                                    *)

\* The manager loads the saved XML; nothing else outlives the process.
Restarted ==
  /\ crashes < MaxCrashes
  /\ crashes' = crashes + 1
  /\ answers' = [s \in Schedules |-> 0]
  /\ resolution' = saved
  /\ shown' = [k \in Kinds |-> saved]
  /\ update' = [n \in Updates |->
       IF update[n] = FreeUpdate THEN FreeUpdate ELSE Gone]
  /\ UNCHANGED <<published, saved, changes>>

\* Mutant of HandleXml: what to delete is what the new schedule adds.
HandleXmlSwapped(n) ==
  /\ update[n].phase = "fetching"
  /\ LET s == update[n].sched
         new == DOMAIN Media[s]
         old == UNION {Listed(shown[k], k) : k \in Kinds}
     IN /\ update' = [update EXCEPT ![n] = Busy(s, new \ old, new \ old)]
        /\ saved' = s
  /\ UNCHANGED <<serverVars, resolution, shown, content, reported, repeats,
                 crashes>>

\* Mutant of HandleXml: media that both schedules list are deleted too.
HandleXmlKeepsNone(n) ==
  /\ update[n].phase = "fetching"
  /\ LET s == update[n].sched
         new == DOMAIN Media[s]
         old == UNION {Listed(shown[k], k) : k \in Kinds}
     IN /\ update' = [update EXCEPT ![n] = Busy(s, new \ old, old)]
        /\ saved' = s
  /\ UNCHANGED <<serverVars, resolution, shown, content, reported, repeats,
                 crashes>>

\* The XML has come: compare the ids with those of the containers, ask for
\* the downloads, and save the XML.
HandleXml(n) ==
  /\ update[n].phase = "fetching"
  /\ LET s == update[n].sched
         new == DOMAIN Media[s]
         old == UNION {Listed(shown[k], k) : k \in Kinds}
     IN /\ update' = [update EXCEPT ![n] = Busy(s, new \ old, old \ new)]
        /\ saved' = s
  /\ UNCHANGED <<serverVars, resolution, shown, content, reported, repeats,
                 crashes>>

\* The fetch failed; no handler cares.
FetchFails(n) ==
  /\ MayFail
  /\ update[n].phase = "fetching"
  /\ update' = [update EXCEPT ![n] = Gone]
  /\ UNCHANGED <<serverVars, resolution, shown, saved, content, reported,
                 repeats, crashes>>

\* The text is no schedule: parsing it gives null, which process() uses.
FetchGarbled(n) ==
  /\ MayFail
  /\ update[n].phase = "fetching"
  /\ Restarted
  /\ UNCHANGED <<content, reported, repeats>>

\* The engine gets on with the file of an id that update n asked for.
Receive(n, i) ==
  /\ IsBusy(n)
  /\ i \in update[n].add
  /\ <<n, i>> \notin reported
  /\ LET f == Media[update[n].sched][i]
     IN /\ content[f] # "whole"
        /\ \E c \in {"part", "whole"} : content' = [content EXCEPT ![f] = c]
  /\ UNCHANGED <<serverVars, resolution, shown, saved, update, reported,
                 repeats, crashes>>

\* The engine calls back for id i of update n, for the first time or again.
CalledBack(n, i) ==
  /\ IsBusy(n)
  /\ i \in update[n].add
  /\ content[Media[update[n].sched][i]] = "whole"
  /\ \/ <<n, i>> \notin reported /\ UNCHANGED repeats
     \/ repeats < MaxRepeats /\ <<n, i>> \in reported /\ repeats' = repeats + 1
  /\ reported' = reported \cup {<<n, i>>}

\* The callback counts; the one that completes the count finishes the kind.
Last(n, k) == update[n].finished[k] + 1 >= Total(n, k)
Count(n, k) == update' = [update EXCEPT ![n].finished[k] = @ + 1]

\* The delete loop looks the ids up in the container shown so far.
Deletable(n, k) == OfKind(update[n].del, k) \cap Listed(shown[k], k)
Erase(n, k, S) ==
  LET old == {Media[shown[k]][i] : i \in S}
  IN content' = [f \in Files |-> IF f \in old THEN "none" ELSE content[f]]

\* videoDownloadFinished and imageDownloadFinished: use the new container,
\* then delete the old files.
Finish(n, k) ==
  /\ Deletable(n, k) = OfKind(update[n].del, k)
  /\ Count(n, k)
  /\ shown' = [shown EXCEPT ![k] = update[n].sched]
  /\ Erase(n, k, Deletable(n, k))
  /\ UNCHANGED <<serverVars, resolution, saved, crashes>>

\* An id the old container lacks is a null dereference: the process dies
\* with some of the files deleted.
FinishFaults(n, k) ==
  /\ Deletable(n, k) # OfKind(update[n].del, k)
  /\ \E S \in SUBSET Deletable(n, k) : Erase(n, k, S)
  /\ Restarted

\* Mutant of OnDownloadFinished: the last download is not waited for.
OnDownloadFinishedEarly(n, i) ==
  LET k == KindOf[i]
  IN /\ CalledBack(n, i)
     /\ \/ /\ update[n].finished[k] + 2 < Total(n, k)
           /\ Count(n, k)
           /\ UNCHANGED <<serverVars, resolution, shown, saved, content, crashes>>
        \/ /\ update[n].finished[k] + 2 >= Total(n, k)
           /\ Finish(n, k) \/ FinishFaults(n, k)

\* VideoOnDownload and ImageOnDownload.
OnDownloadFinished(n, i) ==
  LET k == KindOf[i]
  IN /\ CalledBack(n, i)
     /\ \/ /\ ~Last(n, k)
           /\ Count(n, k)
           /\ UNCHANGED <<serverVars, resolution, shown, saved, content, crashes>>
        \/ /\ Last(n, k)
           /\ Finish(n, k) \/ FinishFaults(n, k)

-----------------------------------------------------------------------------
\* Mutant of Crash: the schedule asked for last is remembered.
CrashRemembers ==
  /\ crashes < MaxCrashes
  /\ crashes' = crashes + 1
  /\ answers' = [s \in Schedules |-> 0]
  /\ shown' = [k \in Kinds |-> saved]
  /\ update' = [n \in Updates |->
       IF update[n] = FreeUpdate THEN FreeUpdate ELSE Gone]
  /\ UNCHANGED <<published, resolution, saved, changes, content, reported,
                 repeats>>

\* The process dies and is started again; preferences and flash survive.
Crash ==
  /\ Restarted
  /\ UNCHANGED <<content, reported, repeats>>

Step(n) ==
  \/ HandleXml(n) \/ FetchFails(n) \/ FetchGarbled(n)
  \/ \E i \in Ids : Receive(n, i) \/ OnDownloadFinished(n, i)

Next ==
  \/ \E s \in Schedules : Publish(s) \/ HandleAnswer(s)
  \/ Poll
  \/ \E n \in Updates : Step(n)
  \/ Crash

Spec == Init /\ [][Next]_vars

\* The timer ticks for ever, answers are handled, fetches come back and
\* downloads get done and call back.  The server need not reassign, the
\* process need not die, and bytes that leave a file in part are not owed.
GetsDone(n) ==
  \/ HandleXml(n)
  \/ \E i \in Ids :
       \/ Receive(n, i) /\ content'[Media[update[n].sched][i]] = "whole"
       \/ OnDownloadFinished(n, i)

Fairness ==
  /\ WF_vars(Poll)
  /\ WF_vars(\E s \in Schedules : HandleAnswer(s))
  /\ \A n \in Updates : WF_vars(GetsDone(n))

FairSpec == Spec /\ Fairness

-----------------------------------------------------------------------------
(* Properties.                                                             *)

\* NewVideoMgr line 68, "This Video Should Exists!": the player finds every
\* file of the container it was given.
ShownExists ==
  \A k \in Kinds : \A f \in FilesOf(shown[k], k) : content[f] # "none"

\* As long as the process has not died, callbacks have come once and the
\* server waits for the terminal, more is true: what is shown is there in
\* full, through any sequence of schedules and failed fetches.
Undisturbed == crashes = 0 /\ repeats = 0

ShownWhole ==
  Undisturbed =>
    \A k \in Kinds : \A f \in FilesOf(shown[k], k) : content[f] = "whole"

\* Of what an update downloads for a kind, what has not called back yet.
Outstanding(n, k) ==
  {i \in OfKind(update[n].add, k) : <<n, i>> \notin reported}

\* A container is exchanged (videoDownloadFinished) before its update has been
\* called back for everything only by as many files as callbacks were
\* repeated: each counts like another file.  As long as none was, and the
\* server waits for the terminal, all that was to be downloaded is whole, also
\* in a process that was started on a saved XML whose media never came.
SwitchComplete ==
  [][\A k \in Kinds : shown'[k] # shown[k] /\ crashes' = crashes =>
       \E n \in Updates :
         /\ IsBusy(n) /\ update[n].sched = shown'[k]
         /\ Cardinality(Outstanding(n, k)') <= repeats'
         /\ repeats' = 0 =>
              \A i \in OfKind(update[n].add, k) :
                content[Media[update[n].sched][i]] = "whole"]_vars

\* A delete loop that gets through never takes a file away that is shown
\* after it, whatever other updates, crashes and repeated callbacks came
\* between the making of its list and its run.
NoShownFileDeleted ==
  [][\A f \in Files : content[f] # "none" /\ content'[f] = "none" /\ crashes' = crashes =>
       \A k \in Kinds : f \notin FilesOf(shown'[k], k)]_vars

\* The ids an update will delete stay in the container it will look them up
\* in (MediaUpdateReceiver 167, 189): no null dereference is to come, with
\* any number of deaths and restarts, if callbacks come once.
DeleteSetsValid ==
  repeats = 0 =>
    \A n \in Updates : \A k \in Kinds :
      Waiting(n, k) => Deletable(n, k) = OfKind(update[n].del, k)

\* A kind for which a schedule brings no media the terminal does not show.
NothingNew(s, k) == Listed(s, k) \subseteq Listed(shown[k], k)

\* An update that is on its way to show the current schedule for a kind.
Follows(n, k) ==
  /\ update[n].phase = "fetching" \/ Waiting(n, k)
  /\ update[n].sched = resolution

\* The schedule that is taken for current (ServerRequest's adMediaInfo) is
\* never out of sight: for each kind it is shown, brings nothing new, or has an
\* update that fetches its XML or waits for its downloads, through every death
\* between the answer, the saved XML and the last callback.  It takes fetches
\* that do not fail, a server that waits and callbacks that come once.
AnswerFollowed ==
  repeats = 0 =>
    \A k \in Kinds :
      \/ shown[k] = resolution
      \/ NothingNew(resolution, k)
      \/ \E n \in Updates : Follows(n, k)

\* A schedule that stays published and has new media of a kind comes to be
\* shown for that kind, whatever crash comes between the answer, the XML
\* and the downloads; that needs fetches that do not fail, since
\* HandleAnswer takes the schedule for current before it has its XML.
ScheduleApplied ==
  \A s \in Schedules : \A k \in Kinds :
    published = s ~> (shown[k] = s \/ NothingNew(s, k) \/ published # s)
=============================================================================
