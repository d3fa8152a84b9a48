------------------------------ MODULE RtmpPull ------------------------------
(***************************************************************************)
(* Playing an RTMP stream, from the start to the deletion of the guest.    *)
(*                                                                         *)
(* Four threads: the looper the application's calls run on                 *)
(* (RtmpGuesterImpl), the player, a thread with a message queue            *)
(* (AnyRtmplayerImpl), the thread of AnyRtmpPull, which connects, reads    *)
(* and gives up, and the audio device, which asks for sound every 10 ms.   *)
(* The player makes and deletes the pull and the decoder; a pull that      *)
(* gives up posts its own deletion.  A start writes two fields of the      *)
(* player, which reads them without a lock.  What is read and decoded is   *)
(* the subject of PlyBuffer.                                               *)
(***************************************************************************)
EXTENDS Integers, Sequences

CONSTANTS
  MaxStarts,   (* bound: calls of StartRtmpPlay that take effect           *)
  MaxFaults    (* bound: calls to the server that fail                     *)

ASSUME PullAssumption == MaxStarts \in Nat /\ MaxFaults \in Nat

MAX_RETRY_TIME == 3

\* A url that was copied while it was being assigned.
Torn == -1

VARIABLES
  started,     (* av_rtmp_started_                                         *)
  video,       (* video_renderer_: the number of the start it is from      *)
  url,         (* str_url_: the number of the start                        *)
  app,         (* the looper: ready, in StartRtmpPlay, freeing the guest,  *)
               (* gone                                                     *)
  audio,       (* the audio device: not in its callback, in it with the    *)
               (* decoder, or in it with a decoder that is deleted         *)
  mail,        (* the player's PLY_START and PLY_STOP, in their order      *)
  ticks,       (* PLY_TICK that wait for their time and their turn         *)
  quitting,    (* fStop_ of the player: what is posted is dropped          *)
  player,      (* where the player is                                      *)
  decoder,     (* ply_decoder_: the start whose renderer it has, 0 if NULL *)
  pull,        (* rtmp_pull_: the start whose url it has, 0 if NULL        *)
  running,     (* running_ of the pull                                     *)
  status,      (* rtmp_status_                                             *)
  connection,  (* rtmp_ is not NULL                                        *)
  connected,   (* connected_                                               *)
  retrys,      (* retry_ct_                                                *)
  puller,      (* where the thread of the pull is                          *)
  told,        (* OnRtmplayerClosed was called since the last start        *)
               (* (history)                                                *)
  hasty,       (* a start came while a stop was not handled, or a stream   *)
               (* was given up (history)                                   *)
  faults

guestVars == <<started, video, url, app>>
threadVars == <<mail, ticks, quitting>>
linkVars == <<status, connection, connected, retrys>>
pullVars == <<pull, running, linkVars, puller>>
vars == <<guestVars, audio, threadVars, player, decoder, pullVars, told,
          hasty, faults>>

TypeOK ==
  /\ started \in BOOLEAN
  /\ video \in 0..MaxStarts /\ url \in 0..MaxStarts
  /\ app \in {"ready", "starting", "freeing", "gone"}
  /\ audio \in {"away", "decoding", "dangling"}
  /\ mail \in Seq({"start", "stop"})
  /\ ticks \in Nat /\ quitting \in BOOLEAN
  /\ player \in {"idle", "making", "ticked", "closing", "joining", "ended"}
  /\ decoder \in 0..MaxStarts
  /\ pull \in 0..MaxStarts \cup {Torn}
  /\ running \in BOOLEAN
  /\ status \in {"Init", "Handshaked", "Connected", "Played", "Closed"}
  /\ connection \in BOOLEAN /\ connected \in BOOLEAN
  /\ retrys \in 0..(MAX_RETRY_TIME + 1)
  /\ puller \in {"none", "loop", "handshake", "connect", "play", "up",
                 "lost", "telling", "ended"}
  /\ told \in BOOLEAN /\ hasty \in BOOLEAN
  /\ faults \in 0..MaxFaults

Init ==
  /\ started = FALSE /\ video = 0 /\ url = 0 /\ app = "ready" /\ audio = "away"
  /\ mail = <<>> /\ ticks = 0 /\ quitting = FALSE
  /\ player = "idle" /\ decoder = 0
  /\ pull = 0 /\ running = FALSE
  /\ status = "Init" /\ connection = FALSE /\ connected = FALSE
  /\ retrys = 0 /\ puller = "none"
  /\ told = FALSE /\ hasty = FALSE /\ faults = 0

\* Thread::Post, and PostDelayed of a tick.
Post(msg) == IF quitting THEN mail ELSE Append(mail, msg)
PostTicks(n) == IF quitting THEN n ELSE n + 1

-----------------------------------------------------------------------------
(* RtmpGuesterImpl: the application's looper.                              *)

\* A stop is posted, or the player has not finished with one.
StopPending ==
  \/ \E i \in 1..Len(mail) : mail[i] = "stop"
  \/ player \in {"closing", "joining"}

\* SetVideoRender, without a lock: the player may be handling an earlier
\* start.
StartRtmpPlay ==
  /\ app = "ready" /\ ~started /\ video < MaxStarts
  /\ app' = "starting"
  /\ started' = TRUE
  /\ video' = video + 1
  /\ UNCHANGED <<url, audio, threadVars, player, decoder, pullVars, told, hasty,
                 faults>>

\* StartPlay and StartAudioTrack.
StartPlay ==
  /\ app = "starting"
  /\ app' = "ready"
  /\ url' = video
  /\ mail' = Post("start")
  /\ ticks' = PostTicks(ticks)
  /\ told' = FALSE
  /\ hasty' = (hasty \/ StopPending)
  /\ UNCHANGED <<started, video, audio, quitting, player, decoder, pullVars,
                 faults>>

\* StartRtmpPlay has returned, and StopRtmpPlay was not called since.
Playing == started /\ app = "ready"

\* StopPlay clears the ticks, and calls OnRtmplayerClose(0).
StopPlay ==
  /\ mail' = Post("stop")
  /\ ticks' = 0
  /\ told' = TRUE

\* Mutant of StopRtmpPlay: the audio device is not waited for.
StopRtmpPlayNoWait ==
  /\ app = "ready" /\ started
  /\ started' = FALSE
  /\ StopPlay
  /\ UNCHANGED <<video, url, app, audio, quitting, player, decoder, pullVars,
                 hasty, faults>>

\* StopAudioTrack waits until the device is out of its callback.
StopRtmpPlay ==
  /\ app = "ready" /\ started
  /\ audio = "away"
  /\ started' = FALSE
  /\ StopPlay
  /\ UNCHANGED <<video, url, app, audio, quitting, player, decoder, pullVars,
                 hasty, faults>>

\* Mutant of Close: the player is left to finish on its own.
CloseNoQuit ==
  /\ app = "ready" /\ ~started
  /\ app' = "freeing"
  /\ StopPlay
  /\ UNCHANGED <<started, video, url, audio, quitting, player, decoder, pullVars,
                 hasty, faults>>

\* JRTMPGuestImpl::Close stops what is started (StopRtmpPlay) and deletes the
\* guest, whose destructor stops the player once more; Thread::Stop drops
\* what is posted after that.
Close ==
  /\ app = "ready" /\ ~started
  /\ app' = "freeing"
  /\ StopPlay
  /\ quitting' = TRUE
  /\ UNCHANGED <<started, video, url, audio, player, decoder, pullVars, hasty,
                 faults>>

\* ~AnyRtmplayerImpl, when the thread has ended: the rest is deleted.
DeletePlayer ==
  /\ app = "freeing" /\ player = "ended"
  /\ pull # 0 => puller = "ended"
  /\ app' = "gone"
  /\ pull' = 0 /\ puller' = "none" /\ decoder' = 0
  /\ UNCHANGED <<started, video, url, audio, threadVars, player, running,
                 linkVars, told, hasty, faults>>

-----------------------------------------------------------------------------
(* AnyRtmplayerImpl::OnMessage.                                            *)

Take(msg) ==
  /\ player = "idle" /\ mail # <<>> /\ Head(mail) = msg
  /\ mail' = Tail(mail)

\* PLY_START makes the decoder, with the renderer that is set by now ...
HandleStart ==
  /\ Take("start")
  /\ decoder' = IF decoder = 0 THEN video ELSE decoder
  /\ player' = "making"
  /\ UNCHANGED <<guestVars, audio, ticks, quitting, pullVars, told, hasty, faults>>

\* What a copy of str_url_ yields, which StartPlay may be assigning to.
UrlRead == IF app = "starting" THEN {url, video, Torn} ELSE {url}

\* ... and the pull with its thread, unless there is one.
MakePull ==
  /\ player = "making"
  /\ player' = "idle"
  /\ IF pull = 0
     THEN /\ pull' \in UrlRead
          /\ running' = TRUE
          /\ status' = "Init" /\ connection' = TRUE
          /\ connected' = FALSE /\ retrys' = 0
          /\ puller' = "loop"
     ELSE UNCHANGED pullVars
  /\ UNCHANGED <<guestVars, audio, threadVars, decoder, told, hasty, faults>>

\* The decoder is deleted; the audio device may be inside it.
DeleteDecoder ==
  /\ decoder' = 0
  /\ audio' = IF audio = "decoding" THEN "dangling" ELSE audio

\* Mutant of HandleStop: the decoder goes before the pull.
HandleStopDecoderFirst ==
  /\ Take("stop")
  /\ DeleteDecoder
  /\ IF pull = 0
     THEN UNCHANGED <<player, running, status>>
     ELSE player' = "closing" /\ running' = FALSE /\ status' = "Closed"
  /\ UNCHANGED <<guestVars, ticks, quitting, pull, connection, connected,
                 retrys, puller, told, hasty, faults>>

\* PLY_STOP: ~AnyRtmpPull sets running_ and rtmp_status_ and sleeps 100 ms.
HandleStop ==
  /\ Take("stop")
  /\ IF pull = 0
     THEN DeleteDecoder /\ UNCHANGED <<player, running, status>>
     ELSE /\ player' = "closing"
          /\ running' = FALSE
          /\ status' = "Closed"
          /\ UNCHANGED <<audio, decoder>>
  /\ UNCHANGED <<guestVars, ticks, quitting, pull, connection, connected,
                 retrys, puller, told, hasty, faults>>

\* Disconnecting, under cs_rtmp_, makes a call that blocks return.
CloseConnection ==
  /\ player = "closing"
  /\ puller # "telling"
  /\ player' = "joining"
  /\ UNCHANGED <<guestVars, audio, threadVars, decoder, pullVars, told, hasty,
                 faults>>

\* The thread has ended: the pull and then the decoder are deleted.
JoinPuller ==
  /\ player = "joining" /\ puller = "ended"
  /\ player' = "idle"
  /\ pull' = 0 /\ puller' = "none" /\ connection' = FALSE
  /\ DeleteDecoder
  /\ UNCHANGED <<guestVars, threadVars, running, status, connected, retrys,
                 told, hasty, faults>>

\* PLY_TICK, when its 1000 ms are over, reports OnRtmplayerStatus or
\* OnRtmplayerCache ...
HandleTick ==
  /\ player = "idle" /\ ticks > 0
  /\ ticks' = ticks - 1
  /\ player' = "ticked"
  /\ UNCHANGED <<guestVars, audio, mail, quitting, decoder, pullVars, told,
                 hasty, faults>>

\* ... and posts itself anew.
PostTick ==
  /\ player = "ticked"
  /\ player' = "idle"
  /\ ticks' = PostTicks(ticks)
  /\ UNCHANGED <<guestVars, audio, mail, quitting, decoder, pullVars, told,
                 hasty, faults>>

\* A player that quits handles what is due first.  A pull that is left then
\* is closed by ~AnyRtmplayerImpl.
EndPlayer ==
  /\ player = "idle" /\ quitting /\ mail = <<>>
  /\ player' = "ended"
  /\ IF pull = 0
     THEN UNCHANGED <<running, status>>
     ELSE running' = FALSE /\ status' = "Closed"
  /\ UNCHANGED <<guestVars, audio, threadVars, decoder, pull, connection,
                 connected, retrys, puller, told, hasty, faults>>

-----------------------------------------------------------------------------
(* AnyRtmpCore::NeedMorePlayData, GetNeedPlayAudio and GetPcmData.         *)

\* The callback is set from the end of StartRtmpPlay to StopRtmpPlay.  It looks at
\* ply_decoder_ without a lock and uses it afterwards.
NeedPlayAudio ==
  /\ Playing /\ audio = "away" /\ decoder # 0
  /\ audio' = "decoding"
  /\ UNCHANGED <<guestVars, threadVars, player, decoder, pullVars, told, hasty,
                 faults>>

PlayedAudio ==
  /\ audio # "away"
  /\ audio' = "away"
  /\ UNCHANGED <<guestVars, threadVars, player, decoder, pullVars, told, hasty,
                 faults>>

-----------------------------------------------------------------------------
(* The thread of AnyRtmpPull.                                              *)

otherVars == <<guestVars, audio, quitting, player, decoder, pull, running>>

\* A call to the server fails: because of the network, or of the closing.
Fault == IF running THEN faults < MaxFaults /\ faults' = faults + 1
                    ELSE UNCHANGED faults

\* Run.  Once a stream is played DoReadData takes no notice of errors, so
\* that reading changes nothing here.
CallOf == [Init |-> "handshake", Handshaked |-> "connect", Connected |-> "play"]
EndRun ==
  /\ puller = "loop" /\ ~running
  /\ puller' = "ended"
  /\ UNCHANGED <<otherVars, mail, ticks, linkVars, told, hasty, faults>>

BeginCall ==
  /\ puller = "loop" /\ running /\ connection
  /\ status \in DOMAIN CallOf
  /\ puller' = CallOf[status]
  /\ UNCHANGED <<otherVars, mail, ticks, linkVars, told, hasty, faults>>

\* It returns; rtmp_status_ is set, though it may have become Closed.
StatusAfter == [handshake |-> "Handshaked", connect |-> "Connected",
                play |-> "Played"]
CallSucceeds ==
  /\ puller \in DOMAIN StatusAfter
  /\ status' = StatusAfter[puller]
  /\ puller' = IF puller = "play" THEN "up" ELSE "loop"
  /\ UNCHANGED <<otherVars, mail, ticks, connection, connected, retrys, told,
                 hasty, faults>>

CallFails ==
  /\ puller \in DOMAIN StatusAfter
  /\ Fault
  /\ puller' = "lost"
  /\ UNCHANGED <<otherVars, mail, ticks, linkVars, told, hasty>>

\* CallConnect, with OnRtmplayerOK.
CallConnect ==
  /\ puller = "up"
  /\ puller' = "loop"
  /\ retrys' = 0 /\ connected' = TRUE
  /\ UNCHANGED <<otherVars, mail, ticks, status, connection, told, hasty, faults>>

\* Mutant of CallDisconnect: there is no end of trying.
CallDisconnectAlways ==
  /\ puller = "lost"
  /\ puller' = "loop"
  /\ IF status = "Closed"
     THEN connection' = FALSE /\ UNCHANGED <<status, retrys>>
     ELSE status' = "Init" /\ retrys' = retrys + 1 /\ connection' = TRUE
  /\ UNCHANGED <<otherVars, mail, ticks, connected, told, hasty, faults>>

\* CallDisconnect: the connection is made anew up to three times.
CallDisconnect ==
  /\ puller = "lost"
  /\ IF status = "Closed"
     THEN connection' = FALSE /\ puller' = "loop" /\ UNCHANGED <<status, retrys>>
     ELSE /\ status' = "Init"
          /\ retrys' = retrys + 1
          /\ IF retrys + 1 <= MAX_RETRY_TIME
             THEN connection' = TRUE /\ puller' = "loop"
             ELSE connection' = FALSE /\ puller' = "telling"
  /\ UNCHANGED <<otherVars, mail, ticks, connected, told, hasty, faults>>

\* Mutant of TellFailure: the application is told, the player is not.
TellFailureOnly ==
  /\ puller = "telling"
  /\ puller' = "loop"
  /\ told' = TRUE /\ hasty' = TRUE
  /\ UNCHANGED <<otherVars, mail, ticks, linkVars, faults>>

\* Mutant of TellFailure: the player is stopped behind the application's
\* back.
TellFailureSilent ==
  /\ puller = "telling"
  /\ puller' = "loop"
  /\ mail' = Post("stop") /\ ticks' = 0
  /\ hasty' = TRUE
  /\ UNCHANGED <<otherVars, linkVars, told, faults>>

\* OnRtmpullFailed, or OnRtmpullDisconnect if it has been connected, under
\* cs_rtmp_: StopPlay and then OnRtmplayerClose once more, with a code.
TellFailure ==
  /\ puller = "telling"
  /\ puller' = "loop"
  /\ StopPlay
  /\ hasty' = TRUE
  /\ UNCHANGED <<otherVars, linkVars, faults>>

-----------------------------------------------------------------------------
Application == StartRtmpPlay \/ StartPlay \/ StopRtmpPlay \/ Close
Player ==
  \/ HandleStart \/ MakePull \/ HandleStop \/ CloseConnection \/ JoinPuller
  \/ HandleTick \/ PostTick \/ EndPlayer
Puller ==
  \/ EndRun \/ BeginCall \/ CallSucceeds \/ CallFails
  \/ CallConnect \/ CallDisconnect \/ TellFailure

Next ==
  \/ Application \/ DeletePlayer
  \/ Player
  \/ NeedPlayAudio \/ PlayedAudio
  \/ Puller

Spec == Init /\ [][Next]_vars

\* Threads run, delays end and calls to the server return; no tick overtakes
\* a message for ever.  The application need not stop, the device not ask,
\* and no call is obliged to fail.
Fairness ==
  /\ WF_vars(DeletePlayer) /\ WF_vars(Player) /\ WF_vars(PlayedAudio)
  /\ SF_vars(HandleStart \/ HandleStop \/ EndPlayer)
  /\ WF_vars(Puller)

FairSpec == Spec /\ Fairness

-----------------------------------------------------------------------------
(* Properties.                                                             *)

\* No start or stop is under way.
Quiet == player \in {"idle", "ticked"} /\ mail = <<>>

\* A stream that is started and not reported as closed since has its pull,
\* with its url, a decoder with its renderer, and a PLY_TICK that reports
\* on: the late stop of an earlier stream that is given up, which may meet
\* it in the queue, takes none of them without OnRtmplayerClose, and what a
\* start writes while an earlier one is handled is not lost either.
Informed ==
  Quiet /\ Playing /\ ~told =>
    /\ pull = video /\ decoder = video
    /\ ticks > 0 \/ player = "ticked"

\* The thread that reads has a decoder to give its data to (the order of
\* PLY_START and of PLY_STOP).  It reads the url of the stream that is
\* played and the decoder has its renderer, unless a stop is under way: a
\* start may write renderer and url while an earlier one is handled, and a
\* stop delete the renderer before it is.
ReaderHasDecoder ==
  puller \notin {"none", "ended"} =>
    /\ decoder # 0
    /\ (started /\ decoder = video /\ pull = video) \/ StopPending

\* StopRtmpPlay stops the audio device first, so that the device never uses
\* a decoder that is deleted.  (A start before the last stop is handled, or
\* a stream that is given up, lets it: there is no lock.)
AudioDecoderLives == audio = "dangling" => hasty

\* A pull gets through to its stream, or is deleted: after MAX_RETRY_TIME
\* tries it posts the stop itself.
PullSettles == pull # 0 ~> (connected \/ pull = 0)

\* Deleting the guest ends, with its threads gone: PLY_STOP, which joins the
\* thread of the pull, gets past it, and so does the destructor.
CloseReturns ==
  app = "freeing" ~> (app = "gone" /\ pull = 0 /\ puller = "none" /\ decoder = 0)
=============================================================================
