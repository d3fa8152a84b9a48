------------------------------ MODULE RtmpPush ------------------------------
(***************************************************************************)
(* Pushing the camera's picture and the microphone to an RTMP server.      *)
(*                                                                         *)
(* Five threads take part.  The application's looper starts and stops the  *)
(* stream (RtmpHosterImpl) by posting to the worker, the thread of         *)
(* AnyRtmpCore; the start is posted with a delay of 500 ms.  The worker    *)
(* makes and deletes AnyRtmpPush, which has a thread that connects, sends  *)
(* and reconnects, and which switches the encoders on and off through      *)
(* callbacks to AnyRtmpStreamerImpl.  The recording thread encodes sound   *)
(* in its callback, and V_H264Encoder has a thread for pictures; both hand *)
(* their data to AnyRtmpPush under cs_av_rtmp_.                            *)
(*                                                                         *)
(* The locks whose sections can block are modelled: cs_av_rtmp_ (avHolder, *)
(* held by the worker while it joins the push thread), cs_rtmp_ (rtmpHeld, *)
(* by the push thread during callbacks) and the two the recording thread   *)
(* holds while its packet is delivered, cs_audio_record_ and the           *)
(* buffer_critsect_ of A_AACEncoder.  The other sections are short and are *)
(* steps.  Deleting the hoster itself is not modelled.                     *)
(***************************************************************************)
EXTENDS Integers, Sequences

CONSTANTS
  HasCamera,   (* a capturer is set before the stream is started           *)
  MaxStarts,   (* bound: calls of StartRtmpStream that take effect         *)
  MaxFaults,   (* bound: calls to the server that fail                     *)
  MaxFrames,   (* bound: pictures waiting for the encoder                  *)
  MaxQueue     (* bound: packets waiting for the push thread               *)

ASSUME PushSwitchAssumption == HasCamera \in BOOLEAN
ASSUME PushBoundAssumption ==
  /\ MaxStarts \in Nat /\ MaxFaults \in Nat
  /\ MaxFrames \in Nat /\ MaxQueue \in Nat

MAX_RETRY_TIME == 3

\* A url that was read while it was written.
Torn == -1

VARIABLES
  started,     (* av_rtmp_started_                                         *)
  starting,    (* the looper is in StartRtmpStream, before rtmp_url_       *)
  rtmpUrl,     (* rtmp_url_: the number of the call that set it            *)
  delayed,     (* MSG_START_RTMP that are not due yet                      *)
  overtook,    (* the last stop found a start not due yet (history)        *)
  mail,        (* messages due for the worker                              *)
  worker,      (* where the worker is in MSG_STOP_RTMP                     *)
  avHolder,    (* who holds cs_av_rtmp_                                    *)
  audio,       (* the recording thread: idle, or delivering a packet       *)
  frames,      (* render_buffers_: the epoch each picture was taken in     *)
  picture,     (* the encoded picture V_H264Encoder delivers               *)
  aacOn,       (* encoded_ of A_AACEncoder                                 *)
  h264On,      (* encoded_ of V_H264Encoder                                *)
  wantKey,     (* need_keyframe_ of V_H264Encoder                          *)
  epoch,       (* starts of the picture encoder so far                     *)
  pushUrl,     (* the url of av_rtmp_, 0 when it is NULL                   *)
  onlyAudio,   (* only_audio_mode_                                         *)
  status,      (* rtmp_status_                                             *)
  connection,  (* rtmp_ is not NULL                                        *)
  retrys,
  running,     (* running_ of AnyRtmpPush                                  *)
  needKey,     (* need_keyframe_ of AnyRtmpPush                            *)
  queue,       (* lst_enc_data_                                            *)
  pusher,      (* where the push thread is                                 *)
  rtmpHeld,    (* the push thread holds cs_rtmp_                           *)
  keySent,     (* a key frame was sent since the last connect (history)    *)
  rtmpConnected, (* rtmp_connected_                                        *)
  report,      (* the last callback to the application                     *)
  faults

hosterVars == <<started, starting, rtmpUrl, delayed, overtook>>
encoderVars == <<aacOn, h264On, wantKey, epoch>>
sourceVars == <<audio, frames, picture>>
objectVars == <<pushUrl, onlyAudio, running>>
linkVars == <<status, connection, retrys>>
dataVars == <<needKey, queue, keySent>>
reportVars == <<rtmpConnected, report>>
vars == <<hosterVars, mail, worker, avHolder, sourceVars, encoderVars,
          objectVars, linkVars, dataVars, pusher, rtmpHeld, reportVars, faults>>

\* Packets and pictures: a kind and the epoch the picture was taken in.
Packets == {"key", "delta", "audio"} \X Nat
NoPicture == <<"none", 0>>
Sound == <<"audio", 0>>

\* cs_audio_record_ and the buffer_critsect_ of A_AACEncoder are free.
AudioFree == audio = "idle"

TypeOK ==
  /\ started \in BOOLEAN /\ starting \in BOOLEAN /\ overtook \in BOOLEAN
  /\ rtmpUrl \in 0..MaxStarts /\ delayed \in 0..MaxStarts
  /\ mail \in Seq({"start", "stop"})
  /\ worker \in {"idle", "closing", "joining", "stopVideo", "stopAudio"}
  /\ avHolder \in {"nobody", "worker", "video"}
  /\ audio \in {"idle", "encoded"}
  /\ frames \in Seq(Nat) /\ Len(frames) <= MaxFrames
  /\ picture \in Packets \cup {NoPicture}
  /\ aacOn \in BOOLEAN /\ h264On \in BOOLEAN /\ wantKey \in BOOLEAN
  /\ epoch \in Nat
  /\ pushUrl \in 0..MaxStarts \cup {Torn}
  /\ onlyAudio \in BOOLEAN /\ running \in BOOLEAN
  /\ status \in {"Init", "Handshaked", "Connected", "Published", "Closed"}
  /\ connection \in BOOLEAN /\ retrys \in 0..(MAX_RETRY_TIME + 1)
  /\ needKey \in BOOLEAN /\ queue \in Seq(Packets) /\ keySent \in BOOLEAN
  /\ pusher \in {"none", "loop", "handshake", "connect", "publish",
                 "connected", "clear", "startVideo", "startAudio",
                 "lost", "drop", "stopVideo", "stopAudio", "ended"}
  /\ rtmpHeld \in BOOLEAN
  /\ rtmpConnected \in BOOLEAN
  /\ report \in {"none", "ok", "reconnecting", "failed", "closed"}
  /\ faults \in 0..MaxFaults

Init ==
  /\ started = FALSE /\ starting = FALSE /\ rtmpUrl = 0
  /\ delayed = 0 /\ overtook = FALSE /\ mail = <<>>
  /\ worker = "idle" /\ avHolder = "nobody"
  /\ audio = "idle" /\ frames = <<>> /\ picture = NoPicture
  /\ aacOn = FALSE /\ h264On = FALSE /\ wantKey = TRUE /\ epoch = 0
  /\ pushUrl = 0 /\ onlyAudio = FALSE /\ running = FALSE
  /\ status = "Init" /\ connection = FALSE /\ retrys = 0
  /\ needKey = TRUE /\ queue = <<>> /\ keySent = FALSE
  /\ pusher = "none" /\ rtmpHeld = FALSE
  /\ rtmpConnected = FALSE /\ report = "none"
  /\ faults = 0

-----------------------------------------------------------------------------
(* RtmpHosterImpl: the application's looper.                               *)

\* StartAudioRecord waits for cs_audio_record_.
StartRtmpStream ==
  /\ ~started /\ rtmpUrl < MaxStarts
  /\ AudioFree
  /\ started' = TRUE
  /\ starting' = TRUE
  /\ UNCHANGED <<rtmpUrl, delayed, overtook, mail, worker, avHolder,
                 sourceVars, encoderVars, objectVars, linkVars, dataVars,
                 pusher, rtmpHeld, reportVars, faults>>

\* rtmp_url_ is written, without a lock, and the start is posted.
PostStart ==
  /\ starting
  /\ starting' = FALSE
  /\ rtmpUrl' = rtmpUrl + 1
  /\ delayed' = delayed + 1
  /\ UNCHANGED <<started, overtook, mail, worker, avHolder, sourceVars,
                 encoderVars, objectVars, linkVars, dataVars, pusher, rtmpHeld,
                 reportVars, faults>>

\* Mutant of StopRtmpStream: the recording callback is not waited for.
StopRtmpStreamNoWait ==
  /\ started /\ ~starting
  /\ started' = FALSE
  /\ overtook' = (delayed > 0)
  /\ mail' = Append(mail, "stop")
  /\ UNCHANGED <<starting, rtmpUrl, delayed, worker, avHolder,
                 sourceVars, encoderVars, objectVars, linkVars, dataVars,
                 pusher, rtmpHeld, reportVars, faults>>

\* Mutant of StopRtmpStream: nothing is posted to the worker.
StopRtmpStreamSilent ==
  /\ started /\ ~starting
  /\ AudioFree
  /\ started' = FALSE
  /\ overtook' = (delayed > 0)
  /\ UNCHANGED <<starting, rtmpUrl, delayed, mail, worker, avHolder,
                 sourceVars, encoderVars, objectVars, linkVars, dataVars,
                 pusher, rtmpHeld, reportVars, faults>>

\* A stop does not cancel the start that is not due yet.  StopAudioRecord
\* waits for the recording callback to return.
StopRtmpStream ==
  /\ started /\ ~starting
  /\ AudioFree
  /\ started' = FALSE
  /\ overtook' = (delayed > 0)
  /\ mail' = Append(mail, "stop")
  /\ UNCHANGED <<starting, rtmpUrl, delayed, worker, avHolder,
                 sourceVars, encoderVars, objectVars, linkVars, dataVars,
                 pusher, rtmpHeld, reportVars, faults>>

\* The 500 ms of a MSG_START_RTMP are over.
StartDue ==
  /\ delayed > 0
  /\ delayed' = delayed - 1
  /\ mail' = Append(mail, "start")
  /\ UNCHANGED <<started, starting, rtmpUrl, overtook, worker, avHolder,
                 sourceVars, encoderVars, objectVars, linkVars, dataVars,
                 pusher, rtmpHeld, reportVars, faults>>

-----------------------------------------------------------------------------
(* The worker: AnyRtmpStreamerImpl::StartStream and StopStream.            *)

Take(msg) ==
  /\ worker = "idle" /\ mail # <<>> /\ Head(mail) = msg
  /\ avHolder = "nobody"
  /\ mail' = Tail(mail)

\* rtmp_url_ as the worker finds it: the looper may be writing it.
UrlRead == IF starting THEN {rtmpUrl, rtmpUrl + 1, Torn} ELSE {rtmpUrl}

\* Without a push one is made, with its thread; a push that is there stays,
\* with the url it was made with.
HandleStart ==
  /\ Take("start")
  /\ IF pushUrl = 0
     THEN /\ pushUrl' \in UrlRead
          /\ running' = TRUE
          /\ status' = "Init" /\ connection' = TRUE /\ retrys' = 0
          /\ needKey' = TRUE /\ queue' = <<>> /\ keySent' = FALSE
          /\ pusher' = "loop"
     ELSE UNCHANGED <<pushUrl, running, linkVars, dataVars, pusher>>
  /\ onlyAudio' = (~HasCamera \/ (onlyAudio /\ pushUrl # 0))
  /\ UNCHANGED <<hosterVars, worker, avHolder, sourceVars, encoderVars,
                 rtmpHeld, rtmpConnected, report, faults>>

\* ~AnyRtmpPush begins, under cs_av_rtmp_.
HandleStop ==
  /\ Take("stop")
  /\ IF pushUrl = 0
     THEN /\ worker' = "stopVideo"
          /\ UNCHANGED <<avHolder, running, status>>
     ELSE /\ worker' = "closing"
          /\ avHolder' = "worker"
          /\ running' = FALSE
          /\ status' = "Closed"
  /\ UNCHANGED <<hosterVars, sourceVars, encoderVars, pushUrl, onlyAudio,
                 connection, retrys, dataVars, pusher, rtmpHeld, reportVars,
                 faults>>

\* Disconnecting from the server makes a call that blocks return.
CloseConnection ==
  /\ worker = "closing"
  /\ ~rtmpHeld
  /\ worker' = "joining"
  /\ UNCHANGED <<hosterVars, mail, avHolder, sourceVars, encoderVars,
                 objectVars, linkVars, dataVars, pusher, rtmpHeld, reportVars,
                 faults>>

\* Mutant of JoinPusher: StopStream leaves the encoders to the push thread.
JoinPusherOnly ==
  /\ worker = "joining"
  /\ pusher = "ended"
  /\ worker' = "idle"
  /\ avHolder' = "nobody"
  /\ pushUrl' = 0 /\ pusher' = "none" /\ onlyAudio' = FALSE
  /\ connection' = FALSE /\ queue' = <<>>
  /\ UNCHANGED <<hosterVars, mail, sourceVars, encoderVars, running, status,
                 retrys, needKey, keySent, rtmpHeld, reportVars, faults>>

\* Thread::Stop returns; the push is gone and cs_av_rtmp_ is free.
JoinPusher ==
  /\ worker = "joining"
  /\ pusher = "ended"
  /\ worker' = "stopVideo"
  /\ avHolder' = "nobody"
  /\ pushUrl' = 0 /\ pusher' = "none" /\ onlyAudio' = FALSE
  /\ connection' = FALSE /\ queue' = <<>>
  /\ UNCHANGED <<hosterVars, mail, sourceVars, encoderVars, running, status,
                 retrys, needKey, keySent, rtmpHeld, reportVars, faults>>

\* StopEncoder, called by StopStream.
WorkerStopsVideo ==
  /\ worker = "stopVideo"
  /\ worker' = "stopAudio"
  /\ h264On' = FALSE
  /\ UNCHANGED <<hosterVars, mail, avHolder, sourceVars, aacOn, wantKey, epoch,
                 objectVars, linkVars, dataVars, pusher, rtmpHeld, reportVars,
                 faults>>

WorkerStopsAudio ==
  /\ worker = "stopAudio"
  /\ AudioFree
  /\ worker' = "idle"
  /\ aacOn' = FALSE
  /\ UNCHANGED <<hosterVars, mail, avHolder, sourceVars, h264On, wantKey, epoch,
                 objectVars, linkVars, dataVars, pusher, rtmpHeld, reportVars,
                 faults>>

-----------------------------------------------------------------------------
(* The recording thread and A_AACEncoder.                                  *)

\* The callback takes its two locks and encodes.
Record ==
  /\ started /\ aacOn
  /\ audio = "idle"
  /\ Len(queue) < MaxQueue
  /\ audio' = "encoded"
  /\ UNCHANGED <<hosterVars, mail, worker, avHolder, frames, picture,
                 encoderVars, objectVars, linkVars, dataVars, pusher, rtmpHeld,
                 reportVars, faults>>

\* OnAACData and SetAacData.
DeliverSound ==
  /\ audio = "encoded"
  /\ avHolder = "nobody"
  /\ audio' = "idle"
  /\ queue' = IF pushUrl # 0 /\ (~needKey \/ onlyAudio)
              THEN Append(queue, Sound) ELSE queue
  /\ UNCHANGED <<hosterVars, mail, worker, avHolder, frames, picture,
                 encoderVars, objectVars, linkVars, needKey, keySent, pusher,
                 rtmpHeld, reportVars, faults>>

-----------------------------------------------------------------------------
(* The camera and the thread of V_H264Encoder.                             *)

\* The sink is attached from StartRtmpStream to StopRtmpStream.
OnFrame ==
  /\ HasCamera /\ started /\ h264On
  /\ Len(frames) < MaxFrames /\ Len(queue) < MaxQueue
  /\ frames' = Append(frames, epoch)
  /\ UNCHANGED <<hosterVars, mail, worker, avHolder, audio, picture,
                 encoderVars, objectVars, linkVars, dataVars, pusher, rtmpHeld,
                 reportVars, faults>>

\* Pictures are encoded whether the encoder is on or off.  It makes a key
\* frame when asked to, and every three seconds of its own.
Encode ==
  /\ picture = NoPicture /\ frames # <<>>
  /\ frames' = Tail(frames)
  /\ \E kind \in {"key", "delta"} :
       /\ wantKey => kind = "key"
       /\ picture' = <<kind, Head(frames)>>
  /\ wantKey' = FALSE
  /\ UNCHANGED <<hosterVars, mail, worker, avHolder, audio, aacOn, h264On,
                 epoch, objectVars, linkVars, dataVars, pusher, rtmpHeld,
                 reportVars, faults>>

\* OnH264Data, and SetH264Data up to its early return.
OfferPicture ==
  /\ picture # NoPicture
  /\ avHolder = "nobody"
  /\ LET need == needKey /\ picture[1] # "key"
     IN IF pushUrl = 0 \/ need
        THEN picture' = NoPicture /\ UNCHANGED <<avHolder, needKey>>
        ELSE avHolder' = "video" /\ needKey' = FALSE /\ UNCHANGED picture
  /\ UNCHANGED <<hosterVars, mail, worker, audio, frames, encoderVars,
                 objectVars, linkVars, queue, keySent, pusher, rtmpHeld,
                 reportVars, faults>>

\* GotH264Nal; the parts of a key frame are one packet here.
QueuePicture ==
  /\ avHolder = "video"
  /\ avHolder' = "nobody"
  /\ queue' = Append(queue, picture)
  /\ picture' = NoPicture
  /\ UNCHANGED <<hosterVars, mail, worker, audio, frames, encoderVars,
                 objectVars, linkVars, needKey, keySent, pusher, rtmpHeld,
                 reportVars, faults>>

-----------------------------------------------------------------------------
(* The push thread: AnyRtmpPush::Run.                                      *)

otherVars == <<hosterVars, mail, worker, avHolder, sourceVars, objectVars>>

\* A call to the server fails: because of the network, or of the closing.
Fault == IF running THEN faults < MaxFaults /\ faults' = faults + 1
                    ELSE UNCHANGED faults

\* The loop looks at running_, rtmp_ and rtmp_status_ and makes a call.
CallOf == [Init |-> "handshake", Handshaked |-> "connect",
           Connected |-> "publish"]
EndRun ==
  /\ pusher = "loop" /\ ~running
  /\ pusher' = "ended"
  /\ UNCHANGED <<otherVars, encoderVars, linkVars, dataVars, rtmpHeld,
                 reportVars, faults>>

\* Mutant of BeginCall: running_ is not looked at.
BeginCallAlways ==
  /\ pusher = "loop" /\ connection
  /\ status \in DOMAIN CallOf
  /\ pusher' = CallOf[status]
  /\ UNCHANGED <<otherVars, encoderVars, linkVars, dataVars, rtmpHeld,
                 reportVars, faults>>

BeginCall ==
  /\ pusher = "loop" /\ running /\ connection
  /\ status \in DOMAIN CallOf
  /\ pusher' = CallOf[status]
  /\ UNCHANGED <<otherVars, encoderVars, linkVars, dataVars, rtmpHeld,
                 reportVars, faults>>

\* It returns; rtmp_status_ is set, though it may have become Closed.
StatusAfter == [handshake |-> "Handshaked", connect |-> "Connected",
                publish |-> "Published"]
CallSucceeds ==
  /\ pusher \in DOMAIN StatusAfter
  /\ status' = StatusAfter[pusher]
  /\ pusher' = IF pusher = "publish" THEN "connected" ELSE "loop"
  /\ UNCHANGED <<otherVars, encoderVars, connection, retrys, dataVars, rtmpHeld,
                 reportVars, faults>>

CallFails ==
  /\ pusher \in DOMAIN StatusAfter
  /\ Fault
  /\ pusher' = "lost"
  /\ UNCHANGED <<otherVars, encoderVars, linkVars, dataVars, rtmpHeld,
                 reportVars>>

\* DoSendData: a packet is taken, and sent or lost with the connection.
SendReady ==
  /\ pusher = "loop" /\ running /\ connection /\ status = "Published"
  /\ queue # <<>>
  /\ queue' = Tail(queue)
Send ==
  /\ SendReady
  /\ keySent' = (keySent \/ Head(queue)[1] = "key")
  /\ UNCHANGED <<otherVars, encoderVars, linkVars, needKey, pusher, rtmpHeld,
                 reportVars, faults>>
SendFails ==
  /\ SendReady
  /\ Fault
  /\ pusher' = "lost"
  /\ UNCHANGED <<otherVars, encoderVars, linkVars, needKey, keySent, rtmpHeld,
                 reportVars>>

\* CallConnect, up to the emptying of the queue.
CallConnect ==
  /\ pusher = "connected"
  /\ pusher' = "clear"
  /\ needKey' = TRUE
  /\ retrys' = 0
  /\ UNCHANGED <<otherVars, encoderVars, status, connection, queue, keySent,
                 rtmpHeld, reportVars, faults>>

ClearQueue ==
  /\ pusher = "clear"
  /\ pusher' = "startVideo"
  /\ queue' = <<>>
  /\ keySent' = FALSE
  /\ UNCHANGED <<otherVars, encoderVars, linkVars, needKey, rtmpHeld,
                 reportVars, faults>>

\* Mutant of StartVideo: no key frame is asked for.
StartVideoNoKey ==
  /\ pusher = "startVideo"
  /\ pusher' = "startAudio"
  /\ h264On' = TRUE /\ epoch' = epoch + 1
  /\ UNCHANGED <<otherVars, aacOn, wantKey, linkVars, dataVars, rtmpHeld,
                 reportVars, faults>>

\* OnRtmpConnected: StartEncoder, then OnStreamOk.
StartVideo ==
  /\ pusher = "startVideo"
  /\ pusher' = "startAudio"
  /\ h264On' = TRUE /\ wantKey' = TRUE /\ epoch' = epoch + 1
  /\ UNCHANGED <<otherVars, aacOn, linkVars, dataVars, rtmpHeld, reportVars,
                 faults>>

StartAudio ==
  /\ pusher = "startAudio"
  /\ AudioFree
  /\ pusher' = "loop"
  /\ aacOn' = TRUE
  /\ report' = "ok"
  /\ UNCHANGED <<otherVars, h264On, wantKey, epoch, linkVars, dataVars,
                 rtmpHeld, rtmpConnected, faults>>

\* CallDisconnect.
CallDisconnect ==
  /\ pusher = "lost"
  /\ pusher' = "drop"
  /\ needKey' = TRUE
  /\ UNCHANGED <<otherVars, encoderVars, linkVars, queue, keySent, rtmpHeld,
                 reportVars, faults>>

\* Mutant of DropConnection: rtmp_status_ is left as it is.
DropConnectionKeepsStatus ==
  /\ pusher = "drop"
  /\ IF status = "Closed"
     THEN /\ connection' = FALSE
          /\ pusher' = "loop"
          /\ UNCHANGED <<retrys, rtmpHeld>>
     ELSE /\ retrys' = retrys + 1
          /\ connection' = (retrys + 1 <= MAX_RETRY_TIME)
          /\ rtmpHeld' = TRUE
          /\ pusher' = "stopVideo"
  /\ UNCHANGED <<otherVars, encoderVars, status, dataVars, reportVars, faults>>

\* Mutant of DropConnection: there is no end of trying.
DropConnectionAlways ==
  /\ pusher = "drop"
  /\ IF status = "Closed"
     THEN connection' = FALSE /\ pusher' = "loop"
          /\ UNCHANGED <<status, retrys, rtmpHeld>>
     ELSE /\ status' = "Init"
          /\ retrys' = retrys + 1
          /\ connection' = TRUE
          /\ rtmpHeld' = TRUE
          /\ pusher' = "stopVideo"
  /\ UNCHANGED <<otherVars, encoderVars, dataVars, reportVars, faults>>

\* Under cs_rtmp_: the connection is destroyed and, up to three times in a
\* row, made anew.
DropConnection ==
  /\ pusher = "drop"
  /\ IF status = "Closed"
     THEN /\ connection' = FALSE
          /\ pusher' = "loop"
          /\ UNCHANGED <<status, retrys, rtmpHeld>>
     ELSE /\ status' = "Init"
          /\ retrys' = retrys + 1
          /\ connection' = (retrys + 1 <= MAX_RETRY_TIME)
          /\ rtmpHeld' = TRUE
          /\ pusher' = "stopVideo"
  /\ UNCHANGED <<otherVars, encoderVars, dataVars, reportVars, faults>>

\* OnRtmpReconnecting and OnRtmpDisconnect: StopEncoder, then the report.
StopVideo ==
  /\ pusher = "stopVideo"
  /\ pusher' = "stopAudio"
  /\ h264On' = FALSE
  /\ UNCHANGED <<otherVars, aacOn, wantKey, epoch, linkVars, dataVars,
                 rtmpHeld, reportVars, faults>>

StopAudio ==
  /\ pusher = "stopAudio"
  /\ AudioFree
  /\ pusher' = "loop"
  /\ aacOn' = FALSE
  /\ rtmpHeld' = FALSE
  /\ IF connection
     THEN report' = "reconnecting" /\ UNCHANGED rtmpConnected
     ELSE /\ report' = IF rtmpConnected THEN "closed" ELSE "failed"
          /\ rtmpConnected' = FALSE
  /\ UNCHANGED <<otherVars, h264On, wantKey, epoch, linkVars, dataVars, faults>>

-----------------------------------------------------------------------------
Application == StartRtmpStream \/ PostStart \/ StopRtmpStream
Worker ==
  \/ HandleStart \/ HandleStop \/ CloseConnection \/ JoinPusher
  \/ WorkerStopsVideo \/ WorkerStopsAudio
Pictures == Encode \/ OfferPicture \/ QueuePicture
Pusher ==
  \/ EndRun \/ BeginCall \/ CallSucceeds \/ CallFails \/ Send \/ SendFails
  \/ CallConnect \/ ClearQueue \/ StartVideo \/ StartAudio
  \/ CallDisconnect \/ DropConnection \/ StopVideo \/ StopAudio

Next ==
  \/ Application \/ StartDue \/ Worker
  \/ Record \/ DeliverSound \/ OnFrame \/ Pictures
  \/ Pusher

Spec == Init /\ [][Next]_vars

\* Threads run and calls to the server return.  The push thread gets a lock
\* that is free again and again (the recording callback is away for most of
\* the 10 ms between two packets).  Nothing obliges the application to stop,
\* the camera or the microphone to deliver, or a call to fail.
Fairness ==
  /\ WF_vars(StartDue) /\ WF_vars(Worker)
  /\ WF_vars(DeliverSound) /\ WF_vars(Pictures)
  /\ SF_vars(Pusher)

FairSpec == Spec /\ Fairness

-----------------------------------------------------------------------------
(* Properties.                                                             *)

\* The encoders follow the connection (OnRtmpConnected, OnRtmpReconnecting,
\* OnRtmpDisconnect, StopStream): they are off while no stream is published
\* and after a stop, though the push thread may still connect while it is
\* being closed.
Unpublished == {"handshake", "connect", "publish"}
EncodersFollow ==
  (worker = "idle" /\ (pushUrl = 0 \/ pusher \in Unpublished)) =>
    ~aacOn /\ ~h264On

\* A picture taken after the stream came up is not sent before a key frame
\* (need_keyframe_ of the encoder and of AnyRtmpPush), whatever pictures of
\* an earlier connection were under way.
KeyBeforeFresh ==
  [][queue # <<>> /\ pusher = "loop" /\ Head(queue) = <<"delta", epoch>>
       /\ queue' = Tail(queue) => keySent]_vars

\* When the looper is out of StartRtmpStream and every message has been
\* handled, there is a push exactly if the stream is started, and to the url
\* of the last start (StartStream keeps a push it finds).  There is one
\* exception, and it always bites: a stop within the 500 ms of a start is
\* handled before it, and the push made after it stays, though the stream is
\* stopped, and keeps its url, though the stream is started anew.
Quiet == worker = "idle" /\ mail = <<>> /\ delayed = 0 /\ ~starting
AsCommanded ==
  Quiet => /\ pushUrl # 0 <=> started \/ overtook
           /\ pushUrl \notin {0, rtmpUrl} => overtook

\* Which thread waits for which: for a lock, or to join it.  The worker and
\* the push thread belong to AnyRtmpCore and AnyRtmpPush, the recorder
\* delivers sound and the coder pictures.
Threads == {"worker", "pusher", "recorder", "coder"}
HoldsAv(t) ==
  <<avHolder, t>> \in {<<"worker", "worker">>, <<"video", "coder">>}
WorkerWaitsFor(t) ==
  \/ worker = "closing" /\ rtmpHeld /\ t = "pusher"
  \/ worker = "joining" /\ pusher # "ended" /\ t = "pusher"
  \/ worker = "stopAudio" /\ ~AudioFree /\ t = "recorder"
  \/ worker = "idle" /\ mail # <<>> /\ HoldsAv(t)
WaitsFor(s, t) ==
  \/ s = "worker" /\ WorkerWaitsFor(t)
  \/ s = "pusher" /\ pusher \in {"startAudio", "stopAudio"} /\ ~AudioFree
       /\ t = "recorder"
  \/ s = "recorder" /\ ~AudioFree /\ HoldsAv(t)
  \/ s = "coder" /\ picture # NoPicture /\ avHolder # "video" /\ HoldsAv(t)

\* No threads wait for each other only (StopStream joins the push thread
\* under cs_av_rtmp_, the push thread stops the recording under cs_rtmp_, the
\* recorder delivers under its own locks).  It takes a hoster that is started
\* once.
NoCircle ==
  \A group \in (SUBSET Threads) \ {{}} :
    \E s \in group : \A t \in group : ~WaitsFor(s, t)

\* What the worker and the push thread have left to do of a stop.
WorkerLeft == [idle |-> 0, stopAudio |-> 1, stopVideo |-> 2, joining |-> 3,
               closing |-> 4]
PusherLeft == [none |-> 0, ended |-> 0, loop |-> 1,
               stopAudio |-> 2, stopVideo |-> 3, drop |-> 4, lost |-> 5,
               startAudio |-> 2, startVideo |-> 3, clear |-> 4, connected |-> 5,
               handshake |-> 6, connect |-> 6, publish |-> 6]
StopLeft == WorkerLeft[worker] + PusherLeft[pusher]

\* A stop takes ten steps of the two threads at most: each brings it nearer
\* to its end and nothing sets it back, wherever in a call to the server, in
\* CallConnect or in CallDisconnect the push thread is when it comes.
StopProgress ==
  [][worker # "idle" =>
       UNCHANGED <<worker, pusher>> \/ StopLeft' < StopLeft]_vars

\* A stop ends: the worker, which holds cs_av_rtmp_ while it joins the push
\* thread, gets past it.
StopReturns == worker # "idle" ~> worker = "idle"

\* A stream that is reconnecting comes up again, is given up with a report
\* (after MAX_RETRY_TIME tries), or is stopped.
ReconnectSettles ==
  report = "reconnecting" ~> (report # "reconnecting" \/ pushUrl = 0)
=============================================================================
