# AdSystem: a TLA+ model of the elevator-advert terminal

The program is an Android terminal that hangs in an elevator, shows video and
image adverts according to a schedule its server assigns, downloads the media
of a new schedule while the old one plays, and pushes the picture of a USB
camera to an RTMP server. Its own code is the package `com.bupt.adsystem`
(`src/app`, about 6300 lines of Java) and the RTMP core (`src/anyrtc/jni/AnyCore`,
about 4500 lines of C++, with a Java wrapper). Everything else in the repository is
third-party: WebRTC, the SRS RTMP library, FFmpeg, xutils, yasea, libuvccamera.

There is no documentation in the repository and its tests are the templates of
the IDE. What the modules say is translated from the source; what the code
*promises* is taken from its comments, its interfaces and its log messages.

## 1. Inventory

`APP` is `src/app/src/main/java/com/bupt/adsystem`, `ANY` is `src/anyrtc/jni/AnyCore`.

| component | state | operations | talks to | what is hard | what makes it correct |
|---|---|---|---|---|---|
| download engine (`APP/downloadtask`, `APP/db`, `APP/entity`) | pending list and its one permit, bound service or not, task list, thread pool, a table of positions, the files | startDownload, pauseDownload, onServiceConnected, the handlers of the manager, the service and the tasks, the init and download threads, onLowMemory | started by the schedule update; calls `OnDownload` back through messages on the main thread | threads and handlers interleave over one task, one row and one file; the service binds late; the process dies between a write and the saving of its position; connections fail; a server ignores `Range` | a file is reported as finished only when it is all there; a saved position never runs ahead of the file; every request is reported and leaves the list; the main thread never blocks for good |
| schedule update (`ServerRequest`, `MediaUpdateReceiver`, `MediaStrategyMgr`, `AdMediaInfo`, `MiscUtil`) | current schedule id, containers shown, saved XML, a receiver for each update with its add and delete sets and counters | poll, answer, XML, download callback, container exchange, delete loop, start-up | the web service, the download engine, the players, the preferences | answers out of order, updates that overlap, callbacks that repeat, a death between saving the XML and having its media | what is shown is on the flash; a container is exchanged only when its media are whole; nothing shown is deleted; a schedule that stays assigned is shown in the end |
| players (`NewVideoMgr`, `NewImageMgr`) | play list, position, pending messages | play, completion, error, switch, strategy change | containers of `MediaStrategyMgr`; `MediaPlayer` | the chain of messages must neither break nor fork | a non-empty list is always playing or about to |
| RTMP push (`RtmpHosterImpl`, `anyrtmpstreamer`, `anyrtmpush`, `avcodec`) | connection status and retries, queue, key-frame gate, encoders on or off, posted messages | start, stop, close, connection lost, encoded and recorded data | RTMP server, camera, microphone, core thread | four threads and four locks; callbacks made under a lock; a delayed start that a stop does not cancel | no deadlock; nothing is pushed after stop; a stream starts with a key frame; retries are bounded and their failure reported |
| RTMP pull and player (`anyrtmpull`, `anyrtmplayer`, `RtmpGuesterImpl`) | started or not, the player's messages and its delayed tick, pull with its connection status and retries, decoder | start, stop, delete, the three messages, connect, read, give up, the audio device's request | RTMP server, jitter buffer, audio device, core thread | a pull that gives up stops the player from its own thread, against the application's calls; the audio device uses the decoder without a lock | the late stop of an old stream never takes a new one unreported; who reads or plays has a decoder; giving up, stopping and deleting end |
| jitter buffer and decoder (`plybuffer`, `plydecoder`) | two lists, play state, clocks, time to buffer, the decoder's queue | packet comes, sound is taken, a turn every 5 ms, decode | fed by the pull, emptied by the audio device and the decoder | what is measured under one lock is used under the next; playing and buffering alternate, with doubling times | a pause ends, a picture leaves, no picture is ahead of its sound, buffering and lag are bounded |
| codecs and core thread (`avcodec`, `aacencode`, `aacdecode`, `videofilter`, `anyrtmpcore`) | codec handles, audio record switch | encode, decode, record | both RTMP sides | callbacks under a lock | see RTMP push |
| Java wrapper (`AnyRTMP`, `LooperExecutor`, `RTMPHosterKit`, `RTMPGuestKit`) | native handle | start, stop, clear | JNI | everything posted to one looper | calls in order |
| pushed messages (`MessageDispatcher`, `VideoDownloadReceiver`, `ImageDownloadReceiver`, `SettingsReceiver`) | JSON requests saved and run at their time | receive, download, delete | download engine, alarms | the older protocol: what is saved and what is on the flash may part | a file in the list exists |
| play lists and alarms (`FileListMgr`, `AdVideoCtrl`, `AdImageCtrl`, `AlarmUtil`, `TimerAlarmReceiver`) | cursors, codes of alarms | add, cancel, alarm | Android alarms | codes are recycled from two ranges | no two live alarms share a code |
| camera and lifecycle (`UVCCameraEnumerator`, `CameraApp`, `LifeCycleMgr`, `MainActivity`, `MyApplication`) | USB permissions, registered activities | attach, permit, resume | Android | USB callbacks in any order | – |
| receivers of the system | none | boot, telephone state | Android | – | – |

In `MainActivity` the players and `ServerRequest` are commented out (lines 184 to
187) in this commit, while the RTMP push is live; the code is modelled as it is when they are
created the way those lines do.

## 2. Plan

The order follows what the terminal exists for: media that arrive whole, a
schedule that is followed, players that go on, and the stream to the server.

| step | modules | state |
|---|---|---|
| 1 | `DownloadContract` (abstract), `Download`, `MCDownload`, `DownloadProofs`, `DownloadReportProofs`, `DownloadJourneyProofs` | done |
| 2 | `MediaUpdate`, `MCMediaUpdate`: uses the engine as the contract promises it | done; teardown of receivers and intervals left |
| 3 | `Players`, `MCPlayers`, `PlayersProofs`: fed by the containers of step 2 | done |
| 4 | `RtmpPush`, `MCRtmpPush`, `RtmpPushProofs` | start, stop, reconnect, encoders done; deleting the hoster left |
| 5 | `RtmpPull`, `MCRtmpPull`, `RtmpPullProofs` | done |
| 6 | `PlyBuffer`, `MCPlyBuffer`, `PlyBufferProofs`: what `RtmpPull` reads, played | done |
| 7 | `MediaUpdateProofs` | done |
| 8 | `Hoster`: `HosterActivity`, `Clear`, `Close` and the destructors on top of `RtmpPush` (messages left on the worker for an object that is gone) | to do |
| 9 | `PlayLists`: `FileListMgr`, alarm codes and their recycling, `AlarmUtil`, `TimerAlarmReceiver`, play intervals | to do |
| 10 | `PushedMessages`: dispatcher and the two older receivers, over `DownloadContract` | to do |
| 11 | `Camera`: USB permissions and the life cycle | to do |

Abstract specifications worth stating besides `DownloadContract`: "the shown
container is some published schedule, whole" over `MediaUpdate`, and a FIFO with
a key-frame gate over the two RTMP sides.

## 3. Modules and code

### Download and DownloadContract

`Download` is the engine with everything that happens on its three kinds of
actors. Each variable is one piece of the program's state:

| variable | code |
|---|---|
| `bound`, `conns`, `pending`, `permits` | `DownloadManager.mService`, bind calls under way, `mListTask`, `mSemaphList` |
| `main`, `looper` | the main thread, and the one FIFO behind every `Handler` |
| `bcasts` | `ACTION_FINISHED` broadcasts on their way |
| `tasks`, `paused`, `pool`, `thread` | `DownloadService.mListTask`, `DownloadTask.isPause`, the executor's queue and its threads |
| `rows`, `file` | table `thread_info` and the files, which survive a crash |
| `issued`, `calls` | history: what has been asked for, how often `onDownloadFinished` ran |

A file is a set of right chunks, so that a chunk written at the wrong offset
takes a right one away. A running thread has the offset it writes at and the
offset it reads at: they part when a server answers a `Range` request with the
whole body. `isPause` is a plain field that the thread reads once a turn; a
stale read is a step taken earlier, so the interleavings cover it. Handlers of
the main thread are one step each, except the drain of `pending`, which holds
the permit and is taken request by request. Every step of a pool thread that
another actor can see (file, row, message) is an action.

`DownloadContract` is what the rest of the terminal may rely on: files go from
none over part to whole and stay whole, and a callback runs only for a whole
file. `ImplementsContract` maps the detailed state on it.

### MediaUpdate

One receiver per answer that changed the schedule (`update[n]`), with its add
and delete sets and a counter for each kind, as in `MediaUpdateReceiver`. The
container of a kind is named by its schedule (`shown[k]`), the preferences by
`saved`, `ServerRequest`'s current id by `resolution`. The download engine is
the contract: `Receive` and `CalledBack` are its two actions, guarded the way
the contract guards them. The delete loop dereferences
`mStrategyMgr.getVideoContainer().get(id)`; an id that is not there ends the
process, which is `FinishFaults`.

### Players

Both players with their messages as counters. The image and the video player
share nothing but the files; they are one module because `MediaStrategyMgr`
feeds both. Positions are kept when the list changes, as in the code.

### RtmpPush

Five threads and the locks that can be held across a wait, in the order the code
takes them. `worker` and `pusher` are the places of the worker (in
`MSG_STOP_RTMP`) and of the push thread (in `Run`, `CallConnect`,
`CallDisconnect` and the callbacks they make); `rtmp_status_` is a variable of
its own because the destructor and the push thread both write it. A packet is
its kind and the epoch its picture was taken in: with that, "a picture taken
since the stream came up" can be said. `StartRtmpStream` is two steps, because
the worker may read `rtmp_url_` while the looper writes it; `PostStart` writes it
and posts the start, which becomes a message of the worker when it is due.

### RtmpPull

Four threads over one guest. The application's looper calls `RtmpGuesterImpl`;
the player is a thread with a message queue (`mail` for `PLY_START` and
`PLY_STOP` in their order, `ticks` for the `PLY_TICK` that wait for their time
and their turn; where a tick comes between the other messages is left open); the pull's thread connects, reads and gives up; the audio device
calls back every 10 ms. `video` and `url` are the numbers of the starts that wrote
`video_renderer_` and `str_url_`, and `decoder` and `pull` say whose renderer and
url the two objects have, so that "the new stream is not the old one" can be
said. None of this is under a lock: a start writes the renderer
(`StartRtmpPlay`) and then the url (`StartPlay`), `PLY_START` reads the renderer
for the decoder (`HandleStart`) and then the url for the pull (`MakePull`), and
the steps of the two come in any order. A copy of `str_url_` made while it is
assigned may be neither the old nor the new one (`Torn`). `PLY_STOP` blocks in the destructor of the pull, which is
three steps (`HandleStop`, `CloseConnection`, `JoinPuller`); a tick is two, since
it reports before it posts itself anew. `audio` remembers whether the device is
inside a decoder, and whether that one has been deleted under it.

The queue of `rtc::Thread` is external: once a thread is told to quit, what is
posted is dropped and what is queued is still handled.

### PlyBuffer

What the pull's thread reads, in two lists, each its length: timestamps follow
each other, so a list's span follows from it. The unit of time and of a packet
is `PLY_RED_TIME`, 250 ms. Clocks (`play_cur_time_`, and the system's clock where
there is no sound) are counted from the timestamp of the next picture, which
makes an endless stream a finite model. `DoDecode` in `PS_Normal` is two steps,
`Measure` and `Release`: the code looks at the sound, leaves the lock and then
looks at the pictures, and the reader and the audio device come in between.
`Tick` is 250 ms, in which `DoDecode` runs 50 times; it waits until no picture
that is due is left. `RtmpPull` and `PlyBuffer` meet in `OnRtmpullH264Data` and
`OnRtmpullAACData` alone (a decoder that exists takes data, which is
`ReaderHasDecoder`), so they are checked apart.

## 4. Runs

| run | what it asks | result |
|---|---|---|
| `download_safety` | two requests for one url, two workers, two pauses, failing connections, one crash | `TypeOK`, `ResumePointSafe`, `ReportsBounded`, `CallbackOnlyWhenComplete`, `ImplementsContract` hold |
| `download_live` | one request a url, one worker, one pause, one deletion of a file, no failing connection | `MainThreadFree`, `NothingLost`, `PendingDrained`, `RequestReported`, `FinishedUnlisted` hold |
| `download_leak` | two requests for one url before the bind | `PendingDrained` fails: `startDownload` keeps the permit on its early return and the main thread blocks |
| `download_range` | a server that ignores `Range`, one pause | `CallbackOnlyWhenComplete` fails: a 200 answer is written at the resume offset |
| `media_crash` | one death of the process anywhere, a server that waits for the terminal, no failing fetch, fair downloads | `AnswerFollowed`, `ScheduleApplied` hold |
| `media_rough` | four reassignments by a server that waits for the terminal, failing and garbled fetches, one death, one repeated callback | `TypeOK`, `ShownWhole`, `DeleteSetsValid`, `NoShownFileDeleted`, `SwitchComplete` hold |
| `media_lost` | one death, one schedule | `ShownExists` fails: the XML is saved before its media are there |
| `players` | new lists, missing files, errors | `TypeOK`, `AdvertsGoOn`, `EveryFileShown` hold |
| `push_safety` | two streams, started and stopped at any time, one fault | `EncodersFollow`, `AsCommanded`, `KeyBeforeFresh` hold |
| `push_live` | one stream stopped at any time, five faults | `TypeOK`, `NoCircle`, `StopProgress`, `StopReturns`, `ReconnectSettles` hold |
| `pull` | three streams on one guest, five faults, started, stopped and deleted at any time, renderer and url written in two unlocked steps | `TypeOK`, `Informed`, `ReaderHasDecoder`, `AudioDecoderLives`, `PullSettles`, `CloseReturns` hold |
| `play` | sound and pictures, or one of the two, that run dry at any time | `TypeOK`, `CacheBounded`, `PlayingGoesOn`, `PictureLeaves`, `PauseStopsClock`, `PictureAfterSound` hold |

Each failing run checks one statement the code itself makes in a comment, an
interface or a log message, and is a finding in `PROJECT.json` with the line of
that statement. Two more departures from what the code says of itself are not
runs of their own. Two updates at once break `ShownExists` as a crash does: with
`OneAtATime = FALSE` the first deletes an image the second counts on. And
`rtmp_connected_` of the streamer is never set (`anyrtmpstreamer.cc:171`), so a
stream that was up and is lost is reported by `OnStreamFailed`, and
`OnStreamClosed` is never called.

### Where the passing runs stop

These are preconditions of the properties above, and each is sharp: without it
TLC finds a counterexample.

- `ReportsBounded` allows two callbacks a start. The 2 s timer and the end of the
  body can both say 100%, so a single count would fail. With a server that
  ignores Range a resumed thread counts past the length and says 100% on every
  chunk from there on.
- `RequestReported` needs one request a url and no failing connection: a task
  whose thread failed stays listed and swallows later requests. A request that
  is paused may rest for good, since nothing but another request of its url
  restarts it.
- `NothingLost` is about urls, as a repeated request is dropped with its callback;
  it needs connections that do not fail, for the same reason, a main thread that
  is not blocked, as in `download_leak`, and a process that has not died. A pause
  on the last chunk saves the row at the end of the file and sends the 100%
  message; if the process dies before that is handled the row survives and the
  message does not, and whoever asks for the url again gets a 416 and no callback.
- All runs of `MediaUpdate` have a server that reassigns a settled terminal only
  (`OneAtATime`). Receivers that overlap, and answers handled out of order, break
  `ShownWhole` and `AnswerFollowed`; only the theorems `TypeCorrect`,
  `DeleteCorrect` and `SwitchBoundedCorrect` hold for them too.
- `SwitchComplete` lets a container be exchanged ahead of its files, by no more of
  them than callbacks were repeated: a repeated callback, which the engine makes
  (`ReportsBounded`), counts like another file. As long as none was repeated all
  files are whole.
- `ShownWhole` holds until the first crash or repeated callback, `DeleteSetsValid`
  until the first repeated callback; both need a server that reassigns a settled
  terminal only.
- `NoShownFileDeleted` is about a delete loop that gets through. One that a
  repeated callback starts may meet an id that is gone and die midway, with a
  file of the saved schedule deleted: with `s1 = {v1, v2}`, `s2 = {v3}` and
  `s3 = {v1, v3}` assigned in that order, the second callback for `v3` in the
  update to `s2` does that.
- `AnswerFollowed` and `ScheduleApplied` need fetches that succeed (a failed one
  is never repeated) and ask nothing of a schedule that only removes media.
  `AnswerFollowed` also needs a server that waits, since an old answer that is
  handled late leaves the terminal on the way back, and callbacks that come once.
- `AsCommanded` has one exception, and says exactly when it bites: a stop does not
  cancel a start that is delayed by its 500 ms. After a stop that found one
  (`overtook`) there is a push when all messages are handled, though the stream may
  be stopped, and it may have an older url than the stream that is started.
  `HosterActivity` may do that (its lines 68 and 82 ask no question), so the
  application is left free to stop at any time.
- `StopReturns` and `NoCircle` are for one start a hoster, which is what `HosterActivity` makes.
  With two, a start in the 100 ms of the destructor switches recording on while
  the worker holds `cs_av_rtmp_`, and the three threads wait for each other.
- `KeyBeforeFresh` is about pictures taken since the stream came up; one taken
  before it can slip into the emptied queue without a key frame.

- `AudioDecoderLives` excepts a stream that is given up and a start that comes
  before the last stop has been handled: then the player deletes the decoder
  while the audio device may be in it, and no lock forbids it.
- `ReaderHasDecoder` lets decoder and pull be of different streams, or the
  decoder have a renderer that is deleted, while a stop is on its way to them: with
  start and stop of one stream still in the mail and the next start between its
  two writes, `PLY_START` makes a decoder with the new renderer and a pull with the
  old url. It says that this does not outlive the stop.
- `Informed` is about a stream that has not been reported as closed. The late
  stop of a stream that is given up can take the next one, but its own
  `OnRtmplayerClose` comes after it.
- `PlayingGoesOn` needs sound that goes on if it has come: `got_audio_` is never
  reset, and a stream whose sound ends stays in `PS_Cache` for good.
- `PictureAfterSound` allows sound and picture to arrive half a second apart.
  From three quarters on a player may have started without its sound, and one
  picture leaves by the old clock.
- `CacheBounded` is tighter than the code's comment "16s": the time to buffer is
  taken before it is doubled, so it never exceeds half of `PLY_MAX_CACHE`.

### Bounds

`FileLen` 3 gives a pause before, between and after right chunks, and 2 is enough
for liveness; two workers are the fewest that write one file at once, two
pauses the fewest that leave an old and a new thread behind one task. The
liveness run has one worker, for which two urls must queue, and one pause. Three
schedules give kept, dropped and added media in both directions, and a schedule
smaller than the one before; four reassignments return to each of them. Play
lists of 0, 1, 2 and 3 files leave the position past the end of a shorter list.
Two pictures and two packets let a stale picture and a fresh one be under way
at once, and one fault with two streams makes the encoder start three times; four
faults in a row make
the push give up (`MAX_RETRY_TIME` is 3) and `MaxFaults` 5 is one more, so that a
stream can be lost, recover and then be given up. Three starts
on one guest let the stop of the first meet the third. `PLY_MAX_CACHE` is 4
instead of 16 seconds: the doubling reaches its top and is put back. `MaxList` 12
is more than any wait asks for, or a pause could not end. Workers of the pool
are interchangeable and `download_safety` uses that symmetry; it is not used
where liveness is checked. Deadlock is not checked: with its budgets spent every
one of the systems may rest.

### Fairness

- `Download`: the looper, the pool and the delivery of bindings and broadcasts
  are weakly fair, because Android runs them as long as the process lives.
  Calls, pauses, deletions and crashes are not.
- `MediaUpdate`: the timer ticks (`Poll`), answers are handled, and the XML and
  downloads of a receiver come (`GetsDone`). Failing, dying and reassigning are
  not owed, and neither is a step that leaves a file in part.
- `Players`: the looper runs its handlers and a video ends.
- `RtmpPush`: the worker, the delayed message, the delivery of a recorded packet
  and the picture thread are weakly fair. The push thread is strongly fair: it
  waits for a lock that the recording callback takes for a moment every 10 ms,
  so it is enabled again and again but not all the time. Capturing, failing and
  stopping are not owed.
- `RtmpPull`: the player and the pull's thread run, delays end, calls to the
  server return and a device leaves its callback. Handling `PLY_START`,
  `PLY_STOP` and the end of the player is strongly fair, because the queue is
  a FIFO and no tick overtakes a message for ever. Starting, stopping, asking
  for sound and failing are not owed.
- `PlyBuffer`: time passes (`Tick` is strongly fair, since a turn of `DoDecode`
  is under way again and again), the threads run, the device takes what sound
  there is, and the stream brings all it has.

## 5. Proofs

The theorems hold for every value of the constants that the modules' assumptions
allow: any number of urls, requests, workers, chunks, lists, starts, faults.

**`DownloadProofs`.** `TypeCorrect` needs one fact besides the types: the drain
holds the only permit. The invariant behind the rest, `IInv`, says that every
position the engine remembers, in a row, a queued job, a running thread or a
message that says 100%, is backed by right chunks in the file. It is needed
because `ResumePointSafe` alone says nothing of the thread that will save its
position next, nor `CallbackOnlyWhenComplete` of the message that is already in
the queue. It is inductive because right chunks are never lost (`StepGrows`): a
resumed thread writes over right chunks only what was there. The assumption
`Benign` (the server honours `Range`, nobody deletes files) is exactly what `download_range` and the deletion of a file take
away. From `IInv` follow `ResumeCorrect`, `CallbackCorrect` and
`ContractImplemented`, the refinement: each step is a `Receive`, a `Report` or a
stutter. `MainThreadCorrect` has an invariant of its own, `PermitKept`: between
two calls of the main thread the permit is there, and whatever waits for the
bind has been asked for. Its assumption `OneRequestAUrl` is what `download_leak`
takes away.

**`MediaUpdateProofs`.** All six safety properties of the schedule update. Most of them
assume what the code relies on without saying so: `Consistent`, that a medium has a
file name of its own and the same one in all schedules, and `OneAtATime`, a server
that waits until the terminal has settled (`DeleteCorrect` does without the
second, `TypeCorrect` and `SwitchBoundedCorrect` without both). `Alone` says that then one update at most is under way, that of the
published schedule. `Once` is the core: counters count distinct ids, and while a
kind waits, its sets are still the differences between what is shown and what
will be, and what was reported stays whole. It is needed because the code
compares a counter with a total and never looks at the files: `Complete` shows,
from the cardinalities, that the last callback leaves no id out, and `Erasing`
that the delete loop of one kind touches no file of the other. `SwitchCorrect` is
for any number of repeated callbacks: a counter runs ahead of the distinct ids it
stands for by no more than there were repetitions (`AheadBound`), which alone
gives `SwitchBoundedCorrect`. `FollowedCorrect`
gives `AnswerFollowed` from the same two: the update that works for the current
schedule is the only one (`Alone`), and when it stops waiting for a kind it has
exchanged that container (`FollowedCallback`) or had nothing to bring
(`FollowedXml`). A death takes the update with it, but also the id it was for.

**`DownloadReportProofs`.** `ReportsCorrect` gives `ReportsBounded` for a server
that honours Range. It keeps an account of every request: the callbacks made, one
for each message that says 100%, two for each job, each message `INIT`, each
request that waits for the bind and each pause that may be taken up by
`restart()`, and for a thread two or, on its last chunk, one. The account
(`Within`) never grows but by a request or a pause, which also raise what is
allowed. It is needed because the bound speaks of callbacks made and says
nothing of those that are on their way. `Aligned` is where the server comes in:
a thread that reads where it writes cannot count past the length of the file.

**`DownloadJourneyProofs`.** `NothingLostCorrect` gives `NothingLost` for
connections that do not fail and either kind of server: what `RequestReported`
says by liveness, as an invariant. A url that was asked for is pending, has an
`InitThread` under way, is listed or has been called back (`AskedKept`); what is
pending waits for a bind (`PendingAwaits`); what is listed loads, is paused or has
been reported (`TasksLoad`); what leaves the list has been called back
(`LeavesCalled`). The hard part is a thread that ends in silence: one that is
resumed at the end of the file is refused by the server and says nothing, so
the invariant has to know that every position at the end, in a row
(`RowsReported`), a job (`JobsReported`) or a thread (`ThreadsReported`), comes with a report that
was sent or is on its way, and that a thread has counted at least as much as it
has read, so that the end of the body is the end of the count.

`OneTaskCorrect` counts the places a request can be in before its task exists: the
manager's list, an `InitThread`'s job, the thread, its message. There is at most
one, from `startDownload` on, and none once anything shows that the task was made
(it is listed, loads, has reported or was called back), so that no task is listed
twice. It takes no assumption: urls may be shared, connections fail and the process
die. The two facts need each other, since only the count tells that `MSG_INIT`
never meets a task of its own. On it rests `ReportedLeavingCorrect`: a task that was
called back and is still listed has its broadcast, or the message that becomes of
it, on its way, which is why `FinishedUnlisted` may say "for good". That one needs
one request a url: `MSG_DOWNLOAD_FINISHED` takes the first task of the url, and
with two requests of a url the model has behaviours in which a reported task stays
listed with nothing under way for it.

**`PlayersProofs`.** Types, with the position in some list even after lists have
changed (`FollowingInRange`), and that the video player never rests and the image
chain neither breaks nor forks (`AdvertsCorrect`, from two invariants that are
inductive as they stand). `TurnsCorrect` is what `EveryFileShown` rests on: each
message handled gives every file of the list its turn or brings it one nearer,
and from wherever an older list has left the position it is at most once round
the list away.

**`RtmpPushProofs`.** `BoundedCorrect` gives the types, with what counts the
retries and the starts; `EncodersCorrect` the property `EncodersFollow`. Its
invariant `Phases` says what the push thread has done to the encoders at each
of its places. It is needed because the push thread, closed in the middle of
`CallConnect`, still switches the encoders on after the destructor has begun:
only `StopStream`'s own `StopEncoder`, which comes after the join, puts that
right. `CommandsCorrect` gives `AsCommanded` with no assumption on the
application. Its invariant `Commands` tells three situations apart. Unless the
last stop came too early, a stopped stream has a stop as the worker's last word
(`Ended`) and a started one has one start under way, with what came before it
ended (`Begun`), or its push; if it did come too early a start is still under way
or a push is there to stay (`Coming`). It is needed because `AsCommanded` looks at
a worker with nothing to do and says nothing of the messages before.
`KeyCorrect` gives
`KeyBeforeFresh`. It rests on `Ordered`: while a stream is up, every picture of
it in the queue or in the encoder's hands has a key frame sent or ahead of it,
and so will the next one once the encoder no longer wants to make a key frame.
It is needed because two flags, the encoder's and the push's, stand for what is
in between them.

The rest is about stopping and giving up. `CircleCorrect` gives `NoCircle` for a
hoster that is started once: `StoppedForGood` keeps the recorder off while the
worker holds `cs_av_rtmp_`, and in each of the two cases the four threads can be
put in an order in which they wait for earlier ones only (`NoCircleThen`).
`StopAdvances` gives `StopProgress` for any number of starts: once a push is
closed its thread has a bounded way to its end, which no step lengthens, and
`Locks` and `Calls` say which places it can be in. `TriesCorrect` is the same for
reconnecting: ten steps a try, and a try less each time (`TriesLeft`), until the
stream is up or given up; and `GivenUpCorrect` says that giving up is reported.
With the fairness of the threads these are the reasons for `StopReturns` and
`ReconnectSettles`; the step from a falling measure to "eventually" is the part
that stays with TLC.

**`RtmpPullProofs`.** `TypeCorrect` bounds the retries. `AudioCorrect` rests on
`AudioInv`: unless a start has overtaken a stop or a stream was given up, the
device is inside a callback only while the guest is started and no stop is under
way. `ReaderCorrect` and `InformedCorrect` share `OInv`, about the order of the
messages: between two starts in the queue is a stop and the last message is the
application's last wish (`Order`), what is not in the queue has been done or
reported (`Fulfilled`), a decoder is there when a pull is (`Together`), and a
thread told to quit has nothing left to start (`Over`). It is needed because
`Informed` looks at a quiet player only and says nothing of the messages that
made it so. `JoinCorrect` says that the player joins a thread that exists and was
told to end; `GivenUpCorrect` that a pull that has given up will be deleted, by
`Waiting`: the `PLY_STOP` for it has been posted or the thread is about to post
it. `TriesCorrect` and `CloseAdvances` are the measures behind `PullSettles` and
`CloseReturns`: ten steps a try, and when the guest is deleted twenty a message, two
a tick and the ways of the two threads.

**`PlyBufferProofs`.** `TypeCorrect` holds by `Lag`: since the last key frame the
decoder was given no more pictures than the group has had. `CacheCorrect` is for
`PLY_MAX_CACHE = 16`, or 2, 4 or 8: the doubling passes through powers of two and meets the
limit exactly. `PauseCorrect` rests on `Waiting`: in a pause the system's clock
and the wait that is left always add up to where playing stopped and the time to
buffer. `PictureCorrect` is for `Skew <= 2`; its invariant says how far the
clock of the sound can be behind the pictures before any sound has come
(`Soundless`), so that the first sound finds no picture measured by the old
clock, and that it only rises between the two looks of `DoDecode` (`Clock`).
`StepCorrect` and `PauseAdvancesCorrect` are what `PictureLeaves` and
`PlayingGoesOn` rest on: the clock of the sound is never more than one packet off
the sound that is next (`InStep`, for any skew), and in a pause what is missing
and the turns that are left only become fewer. The first sound of a stream that
began without is the exception the theorem names: from then on the buffered
pictures count for nothing.

Model-checked only: everything under fairness, since liveness is out of the proof
system's reach, as is `ENABLED`: `PendingDrained`, `RequestReported`,
`FinishedUnlisted`, `ScheduleApplied`, `EveryFileShown`,
`StopReturns`, `ReconnectSettles`, `PullSettles`, `CloseReturns`, `PlayingGoesOn`,
`PictureLeaves`. The safety half of
these is proved (nothing is lost, no circle of threads waits, the current schedule
is followed, a reported task is on its way out of the list, the measures fall); the
step from there to "eventually" is not.

## 6. What is not modelled

- `destroy()` and `onDestroy` of the download side: nothing calls them while the
  terminal runs. Progress below 100% reaches only a log statement.
- Percentages are compared in chunks; the code divides floats, which from 2^24
  bytes on may round to 100 early. `NotifyRounded`, a mutant, shows what that
  would break.
- In the schedule update: the signal report of the 3 s timer, the play intervals
  in the XML, and the case of an XML whose attribute `resolution` is another id
  than the one asked for.
- In RTMP push: deleting the hoster, changing the capturer while streaming,
  bit-rate adjustment and statistics. `lst_enc_data_` has no limit in the code;
  the model stops its sources at `MaxQueue`.
- In RTMP pull and player: what is read is demultiplexed packet by packet in the
  code and is one arrival here. A read that fails is ignored by the code
  (`anyrtmpull.cc:146`), so that reading changes no state of `RtmpPull`. The deletion of
  the renderer (`RtmpGuesterImpl.cc:79`) is not a state of its own: it is the end of
  `started`. `rtc::Time` wraps after 49 days; `PlyBuffer` counts relative times.
- Pushed messages, play lists and alarms, the camera: planned above. The Java
  wrapper and the system's receivers keep no state of their own worth a module,
  and the vendored libraries are not this program.
