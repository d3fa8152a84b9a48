--------------------------- MODULE RtmpPushProofs ---------------------------
(***************************************************************************)
(* RTMP push: types, encoders that are on only while a stream is up, a     *)
(* hoster that does what it was told last, and key frames ahead of fresh   *)
(* pictures, for any number of starts, stops, failing calls, pictures and  *)
(* packets.                                                                *)
(***************************************************************************)
EXTENDS RtmpPush, SequenceTheorems, TLAPS

Off == ~aacOn /\ ~h264On

\* What TypeOK needs: a start is on its way only if it was called, a call
\* that is under way is within the bound, a connection that can still be lost has tries left, and cs_av_rtmp_ is held
\* for a picture.
Bounded ==
  /\ delayed <= rtmpUrl
  /\ starting => started /\ rtmpUrl < MaxStarts
  /\ connection => retrys <= MAX_RETRY_TIME
  /\ pusher \in {"handshake", "connect", "publish", "connected", "clear",
                 "startVideo", "startAudio", "lost", "drop"} => connection
  /\ avHolder = "video" => picture # NoPicture

TInv == TypeOK /\ Bounded

\* The push thread exists as long as the push does, and what it has done to
\* the encoders can be read off its place and rtmp_status_.
Phases ==
  /\ pushUrl = 0 <=> pusher = "none"
  /\ worker \in {"closing", "joining"} => pushUrl # 0
  /\ worker \in {"stopVideo", "stopAudio"} => pushUrl = 0
  /\ worker = "stopAudio" => ~h264On
  /\ worker = "idle" /\ pushUrl = 0 => Off
  /\ pusher = "loop" /\ status \in {"Init", "Handshaked", "Connected"} => Off
  /\ pusher \in {"handshake", "connect", "publish", "connected", "clear",
                 "startVideo"} => Off
  /\ pusher \in {"connected", "clear", "startVideo", "startAudio"} =>
       status \in {"Published", "Closed"}
  /\ pusher = "startAudio" => ~aacOn
  /\ pusher = "stopAudio" => ~h264On

\* The types and what they need are kept by every step.
LEMMA BoundedCorrect == Spec => []TInv
<1>1. Init => TInv
  <2> SUFFICES ASSUME Init PROVE TInv
    OBVIOUS
  <2>1. /\ started \in BOOLEAN /\ aacOn \in BOOLEAN /\ h264On \in BOOLEAN
        /\ wantKey \in BOOLEAN
    BY DEF Init
  <2>0. starting \in BOOLEAN /\ overtook \in BOOLEAN
    BY DEF Init
  <2>2. /\ onlyAudio \in BOOLEAN /\ running \in BOOLEAN
        /\ connection \in BOOLEAN /\ needKey \in BOOLEAN
    BY DEF Init
  <2>3. /\ keySent \in BOOLEAN /\ rtmpHeld \in BOOLEAN
        /\ rtmpConnected \in BOOLEAN
    BY DEF Init
  <2>4. /\ mail \in Seq({"start", "stop"}) /\ frames \in Seq(Nat)
        /\ queue \in Seq(Packets) /\ Len(frames) = 0
    BY DEF Init
  <2> QED BY <2>0, <2>1, <2>2, <2>3, <2>4, PushBoundAssumption
          DEF Init, TInv, TypeOK, Bounded, MAX_RETRY_TIME
<1>2. TInv /\ [Next]_vars => TInv'
  <2> SUFFICES ASSUME TInv, [Next]_vars PROVE TInv'
    OBVIOUS
  <2> USE PushBoundAssumption
      DEF TInv, TypeOK, Bounded, MAX_RETRY_TIME,
          hosterVars, encoderVars, sourceVars, objectVars, linkVars, dataVars,
          reportVars, otherVars
  <2>1. CASE StartRtmpStream
    <3>0. started' \in BOOLEAN /\ starting' \in BOOLEAN BY <2>1 DEF StartRtmpStream
    <3> QED BY <2>1, <3>0 DEF StartRtmpStream
  <2>0. CASE PostStart
    <3>0. starting' \in BOOLEAN BY <2>0 DEF PostStart
    <3> QED BY <2>0, <3>0 DEF PostStart
  <2>2. CASE StopRtmpStream
    <3>3. started' \in BOOLEAN BY <2>2 DEF StopRtmpStream
    <3>4. overtook' = (delayed > 0) BY <2>2, Zenon DEF StopRtmpStream
    <3>6. (delayed > 0) = TRUE \/ (delayed > 0) = FALSE OBVIOUS
    <3>5. overtook' \in BOOLEAN BY <3>4, <3>6
    <3>0. started' \in BOOLEAN /\ overtook' \in BOOLEAN BY <3>3, <3>5
    <3>1. mail' \in Seq({"start", "stop"}) BY <2>2, <3>0 DEF StopRtmpStream
    <3> QED BY <2>2, <3>0, <3>1 DEF StopRtmpStream
  <2>3. CASE StartDue BY <2>3 DEF StartDue
  <2>4. CASE HandleStart
    <3>0. keySent' \in BOOLEAN BY <2>4 DEF HandleStart, Take
    <3>1. mail' \in Seq({"start", "stop"}) /\ onlyAudio' \in BOOLEAN
      BY <2>4, <3>0 DEF HandleStart, Take
    <3>2. CASE pushUrl = 0
      <4>0. pushUrl' \in 0..MaxStarts \cup {Torn}
        BY <2>4, <3>0, <3>2 DEF HandleStart, UrlRead, Torn
      <4>1. queue' \in Seq(Packets) BY <2>4, <3>0, <3>2 DEF HandleStart
      <4> QED BY <2>4, <3>0, <3>1, <3>2, <4>0, <4>1 DEF HandleStart, Take
    <3>3. CASE pushUrl # 0 BY <2>4, <3>0, <3>1, <3>3 DEF HandleStart, Take
    <3> QED BY <3>2, <3>3
  <2>5. CASE HandleStop
    <3>0. running' \in BOOLEAN BY <2>5 DEF HandleStop, Take
    <3>1. mail' \in Seq({"start", "stop"}) BY <2>5, <3>0 DEF HandleStop, Take
    <3>2. CASE pushUrl = 0 BY <2>5, <3>0, <3>1, <3>2 DEF HandleStop, Take
    <3>3. CASE pushUrl # 0 BY <2>5, <3>0, <3>1, <3>3 DEF HandleStop, Take
    <3> QED BY <3>2, <3>3
  <2>6. CASE CloseConnection BY <2>6 DEF CloseConnection
  <2>7. CASE JoinPusher
    <3>0. onlyAudio' \in BOOLEAN /\ connection' \in BOOLEAN BY <2>7 DEF JoinPusher
    <3>1. queue' \in Seq(Packets) BY <2>7, <3>0 DEF JoinPusher
    <3> QED BY <2>7, <3>0, <3>1 DEF JoinPusher
  <2>8. CASE WorkerStopsVideo
    <3>1. h264On' \in BOOLEAN BY <2>8 DEF WorkerStopsVideo
    <3> QED BY <2>8, <3>1 DEF WorkerStopsVideo
  <2>9. CASE WorkerStopsAudio
    <3>1. aacOn' \in BOOLEAN BY <2>9 DEF WorkerStopsAudio
    <3> QED BY <2>9, <3>1 DEF WorkerStopsAudio
  <2>10. CASE Record BY <2>10 DEF Record
  <2>11. CASE DeliverSound
    <3>1. Sound \in Packets BY DEF Sound, Packets
    <3>2. queue' \in Seq(Packets) BY <2>11, <3>1 DEF DeliverSound
    <3> QED BY <2>11, <3>2 DEF DeliverSound
  <2>12. CASE OnFrame BY <2>12 DEF OnFrame
  <2>13. CASE Encode
    <3>0. wantKey' \in BOOLEAN BY <2>13 DEF Encode
    <3>1. Head(frames) \in Nat /\ frames' \in Seq(Nat) /\ Len(frames') <= MaxFrames
      BY <2>13, <3>0 DEF Encode
    <3>2. picture' \in Packets /\ picture' # NoPicture BY <2>13, <3>0, <3>1 DEF Encode, Packets, NoPicture
    <3> QED BY <2>13, <3>0, <3>1, <3>2 DEF Encode
  <2>14. CASE OfferPicture
    <3>0. needKey' \in BOOLEAN BY <2>14 DEF OfferPicture
    <3>1. CASE picture' = NoPicture /\ UNCHANGED <<avHolder, needKey>>
      BY <2>14, <3>0, <3>1 DEF OfferPicture
    <3>2. CASE avHolder' = "video" /\ needKey' = FALSE /\ UNCHANGED picture
      BY <2>14, <3>0, <3>2 DEF OfferPicture
    <3> QED BY <2>14, <3>0, <3>1, <3>2 DEF OfferPicture
  <2>15. CASE QueuePicture BY <2>15 DEF QueuePicture
  <2>16. CASE EndRun BY <2>16 DEF EndRun
  <2>17. CASE BeginCall BY <2>17 DEF BeginCall, CallOf
  <2>18. CASE CallSucceeds BY <2>18 DEF CallSucceeds, StatusAfter
  <2>19. CASE CallFails BY <2>19 DEF CallFails, Fault, StatusAfter
  <2>20. CASE Send BY <2>20 DEF Send, SendReady
  <2>21. CASE SendFails BY <2>21 DEF SendFails, SendReady, Fault
  <2>22. CASE CallConnect BY <2>22 DEF CallConnect
  <2>23. CASE ClearQueue
    <3>0. keySent' \in BOOLEAN BY <2>23 DEF ClearQueue
    <3>1. queue' \in Seq(Packets) BY <2>23, <3>0 DEF ClearQueue
    <3> QED BY <2>23, <3>0, <3>1 DEF ClearQueue
  <2>24. CASE StartVideo BY <2>24 DEF StartVideo
  <2>25. CASE StartAudio
    <3>1. aacOn' \in BOOLEAN BY <2>25 DEF StartAudio
    <3> QED BY <2>25, <3>1 DEF StartAudio
  <2>26. CASE CallDisconnect BY <2>26 DEF CallDisconnect
  <2>27. CASE DropConnection
    <3>0. connection' \in BOOLEAN /\ rtmpHeld' \in BOOLEAN
      <4>1. CASE status = "Closed"
        <5>1. connection' \in BOOLEAN BY <2>27, <4>1 DEF DropConnection
        <5>2. rtmpHeld' \in BOOLEAN BY <2>27, <4>1 DEF DropConnection
        <5> QED BY <5>1, <5>2
      <4>2. CASE status # "Closed"
        <5>1. connection' \in BOOLEAN BY <2>27, <4>2 DEF DropConnection
        <5>2. rtmpHeld' \in BOOLEAN BY <2>27, <4>2 DEF DropConnection
        <5> QED BY <5>1, <5>2
      <4> QED BY <4>1, <4>2
    <3>1. CASE status = "Closed" BY <2>27, <3>0, <3>1 DEF DropConnection
    <3>2. CASE status # "Closed"
      <4>1. retrys + 1 \in 1..(MAX_RETRY_TIME + 1) BY <2>27, <3>0 DEF DropConnection
      <4>2. connection' \in BOOLEAN /\ (connection' => retrys' <= 3)
        BY <2>27, <3>0, <3>2 DEF DropConnection
      <4> QED BY <2>27, <3>0, <3>2, <4>1, <4>2 DEF DropConnection
    <3> QED BY <3>1, <3>2
  <2>28. CASE StopVideo
    <3>1. h264On' \in BOOLEAN BY <2>28 DEF StopVideo
    <3> QED BY <2>28, <3>1 DEF StopVideo
  <2>29. CASE StopAudio
    <3>1. aacOn' \in BOOLEAN /\ rtmpHeld' \in BOOLEAN /\ rtmpConnected' \in BOOLEAN
      BY <2>29 DEF StopAudio
    <3> QED BY <2>29, <3>1 DEF StopAudio
  <2>30. CASE UNCHANGED vars BY <2>30 DEF vars
  <2> QED
    BY <2>0, <2>1, <2>2, <2>3, <2>4, <2>5, <2>6, <2>7, <2>8, <2>9, <2>10,
       <2>11, <2>12, <2>13, <2>14, <2>15, <2>16, <2>17, <2>18, <2>19,
       <2>20, <2>21, <2>22, <2>23, <2>24, <2>25, <2>26, <2>27, <2>28,
       <2>29, <2>30 DEF Next, Application, Worker, Pictures, Pusher
<1> QED BY <1>1, <1>2, PTL DEF Spec

\* Every variable of the hoster, the push and the encoders keeps its type;
\* in particular retrys, which CallDisconnect counts, has its bound.
THEOREM TypeCorrect == Spec => []TypeOK
<1>1. TInv => TypeOK BY DEF TInv
<1> QED BY <1>1, BoundedCorrect, PTL

\* A start that reaches the worker has set rtmp_url_.
Called == (\E i \in 1..Len(mail) : mail[i] = "start") => rtmpUrl > 0

IInv == Called /\ Phases

\* The push thread and the encoders keep to their phases.
LEMMA PhasesCorrect == Spec => []IInv
<1>1. Init => IInv
  BY DEF Init, IInv, Called, Phases, Off
<1>2. TInv /\ IInv /\ [Next]_vars => IInv'
  <2> SUFFICES ASSUME TInv, IInv, [Next]_vars PROVE IInv'
    OBVIOUS
  <2> USE DEF TInv, TypeOK, Bounded, IInv, Called, Phases, Off,
          hosterVars, encoderVars, sourceVars, objectVars, linkVars, dataVars,
          reportVars, otherVars
  <2>1. CASE StartRtmpStream BY <2>1 DEF StartRtmpStream
  <2>2. CASE StopRtmpStream BY <2>2 DEF StopRtmpStream
  <2>3. CASE StartDue BY <2>3 DEF StartDue
  <2>0. CASE PostStart BY <2>0 DEF PostStart
  <2>4. CASE HandleStart BY <2>4 DEF HandleStart, Take, UrlRead, Torn
  <2>5. CASE HandleStop BY <2>5 DEF HandleStop, Take
  <2>6. CASE CloseConnection BY <2>6 DEF CloseConnection
  <2>7. CASE JoinPusher BY <2>7 DEF JoinPusher
  <2>8. CASE WorkerStopsVideo BY <2>8 DEF WorkerStopsVideo
  <2>9. CASE WorkerStopsAudio BY <2>9 DEF WorkerStopsAudio
  <2>10. CASE Record BY <2>10 DEF Record
  <2>11. CASE DeliverSound BY <2>11 DEF DeliverSound
  <2>12. CASE OnFrame BY <2>12 DEF OnFrame
  <2>13. CASE Encode BY <2>13 DEF Encode
  <2>14. CASE OfferPicture BY <2>14 DEF OfferPicture
  <2>15. CASE QueuePicture BY <2>15 DEF QueuePicture
  <2>16. CASE EndRun BY <2>16 DEF EndRun
  <2>17. CASE BeginCall BY <2>17 DEF BeginCall, CallOf
  <2>18. CASE CallSucceeds BY <2>18 DEF CallSucceeds, StatusAfter
  <2>19. CASE CallFails BY <2>19 DEF CallFails, Fault, StatusAfter
  <2>20. CASE Send BY <2>20 DEF Send, SendReady
  <2>21. CASE SendFails BY <2>21 DEF SendFails, SendReady, Fault
  <2>22. CASE CallConnect BY <2>22 DEF CallConnect
  <2>23. CASE ClearQueue BY <2>23 DEF ClearQueue
  <2>24. CASE StartVideo BY <2>24 DEF StartVideo
  <2>25. CASE StartAudio BY <2>25 DEF StartAudio
  <2>26. CASE CallDisconnect BY <2>26 DEF CallDisconnect
  <2>27. CASE DropConnection BY <2>27 DEF DropConnection
  <2>28. CASE StopVideo BY <2>28 DEF StopVideo
  <2>29. CASE StopAudio BY <2>29 DEF StopAudio
  <2>30. CASE UNCHANGED vars BY <2>30 DEF vars
  <2> QED
    BY <2>0, <2>1, <2>2, <2>3, <2>4, <2>5, <2>6, <2>7, <2>8, <2>9, <2>10,
       <2>11, <2>12, <2>13, <2>14, <2>15, <2>16, <2>17, <2>18, <2>19,
       <2>20, <2>21, <2>22, <2>23, <2>24, <2>25, <2>26, <2>27, <2>28,
       <2>29, <2>30 DEF Next, Application, Worker, Pictures, Pusher
<1> QED BY <1>1, <1>2, BoundedCorrect, PTL DEF Spec

\* The encoders are on only while a stream is published or a stop is under
\* way (OnRtmpConnected, OnRtmpReconnecting, OnRtmpDisconnect, StopStream).
\* Phases is needed because the push thread, closed in the middle of
\* CallConnect, still switches the encoders on: only StopStream's own
\* StopEncoder, after the thread has been joined, puts that right.
THEOREM EncodersCorrect == Spec => []EncodersFollow
<1>1. IInv => EncodersFollow
  BY DEF IInv, Phases, EncodersFollow, Unpublished, Off
<1> QED BY <1>1, PhasesCorrect, PTL

-----------------------------------------------------------------------------
(* The commands of the application.                                        *)

\* The worker has been told to stop, and was told nothing after it.
Ended ==
  IF Len(mail) = 0 THEN pushUrl = 0 \/ worker \in {"closing", "joining"}
                   ELSE mail[Len(mail)] = "stop"

\* A start is still to be handled, or a push is there to stay.
Coming ==
  \/ delayed > 0
  \/ IF Len(mail) = 0 THEN pushUrl # 0 /\ worker = "idle"
                      ELSE mail[Len(mail)] = "start"

\* The start of a stream, not due, in the mail, or handled: what came before
\* it is ended when the worker takes it.
Begun ==
  \/ delayed = 1 /\ Ended
  \/ /\ delayed = 0 /\ Len(mail) > 0 /\ mail[Len(mail)] = "start"
     /\ IF Len(mail) = 1 THEN pushUrl = 0 \/ worker \in {"closing", "joining"}
                         ELSE mail[Len(mail) - 1] = "stop"
  \/ delayed = 0 /\ Len(mail) = 0 /\ worker = "idle" /\ pushUrl = rtmpUrl /\ pushUrl # 0

\* What the worker has been told, and what it has made of it.
Commands ==
  /\ ~overtook /\ (~started \/ starting) => delayed = 0 /\ Ended
  /\ ~overtook /\ started /\ ~starting => Begun
  /\ overtook => Coming

\* Every step of the application and of its worker keeps Commands.
LEMMA CommandsStep == TInv /\ IInv /\ Commands /\ [Next]_vars => Commands'
<1> SUFFICES ASSUME TInv, IInv, Commands, [Next]_vars PROVE Commands'
  OBVIOUS
<1> DEFINE Same == UNCHANGED <<hosterVars, mail, worker, pushUrl>>
<1> USE DEF hosterVars, objectVars, otherVars
<1>0. /\ mail \in Seq({"start", "stop"}) /\ Len(mail) \in Nat
      /\ \A i \in 1..Len(mail) : mail[i] \in {"start", "stop"}
  BY LenProperties, ElementOfSeq DEF TInv, TypeOK
<1>1. CASE StartRtmpStream
  BY <1>1 DEF StartRtmpStream, Commands, Ended, Coming, TInv, Bounded
<1>2. CASE PostStart
  <2>1. started /\ delayed' = delayed + 1 /\ ~starting' /\ delayed \in Nat
    BY <1>2 DEF PostStart, TInv, TypeOK, Bounded
  <2> QED BY <1>2, <2>1 DEF PostStart, Commands, Begun, Ended, Coming
<1>3. CASE StopRtmpStream
  <2>1. Len(mail') = Len(mail) + 1 /\ mail'[Len(mail')] = "stop"
    BY <1>0, <1>3, AppendProperties DEF StopRtmpStream
  <2>2. CASE delayed > 0
    BY <1>3, <2>2 DEF StopRtmpStream, Commands, Coming
  <2>3. CASE ~(delayed > 0)
    <3>1. delayed' = 0 /\ ~overtook' /\ Ended' /\ ~started'
      BY <1>0, <1>3, <2>1, <2>3 DEF StopRtmpStream, Ended, TInv, TypeOK
    <3> QED BY <3>1 DEF Commands
  <2> QED BY <2>2, <2>3
<1>4. CASE StartDue
  <2>1. /\ Len(mail') = Len(mail) + 1 /\ mail'[Len(mail')] = "start"
        /\ \A i \in 1..Len(mail) : mail'[i] = mail[i]
    BY <1>0, <1>4, AppendProperties DEF StartDue
  <2>2. UNCHANGED <<started, starting, overtook, worker, pushUrl>>
    BY <1>4 DEF StartDue
  <2>3. CASE overtook
    BY <1>0, <2>1, <2>2, <2>3 DEF Commands, Coming
  <2>4. CASE ~overtook
    <3>1. started /\ ~starting /\ delayed = 1 /\ Ended
      BY <1>4, <2>4 DEF StartDue, Commands, Begun
    <3>2. delayed' = 0 /\ Len(mail') > 0
      BY <1>0, <1>4, <2>1, <3>1 DEF StartDue
    <3>3. IF Len(mail') = 1 THEN pushUrl' = 0 \/ worker' \in {"closing", "joining"}
                            ELSE mail'[Len(mail') - 1] = "stop"
      BY <1>0, <2>1, <2>2, <3>1 DEF Ended
    <3> QED BY <2>1, <2>2, <2>4, <3>1, <3>2, <3>3 DEF Commands, Begun
  <2> QED BY <2>3, <2>4
<1>5. ASSUME NEW msg \in {"start", "stop"}, Take(msg)
      PROVE  /\ worker = "idle" /\ Len(mail) > 0 /\ mail[1] = msg
             /\ Len(mail') = Len(mail) - 1
             /\ \A i \in 1..Len(mail') : mail'[i] = mail[i + 1]
             /\ Len(mail') > 0 => mail'[Len(mail')] = mail[Len(mail)]
             /\ Len(mail') > 1 => mail'[Len(mail') - 1] = mail[Len(mail) - 1]
  <2>1. worker = "idle" /\ mail # <<>> /\ Head(mail) = msg /\ mail' = Tail(mail)
    BY <1>5 DEF Take
  <2>2. /\ Len(mail) > 0 /\ mail[1] = msg /\ Len(mail') = Len(mail) - 1
        /\ \A i \in 1..Len(mail') : mail'[i] = mail[i + 1]
    BY <1>0, <2>1, HeadTailProperties
  <2> QED BY <1>0, <2>1, <2>2
<1>6. CASE HandleStart
  <2>1. Take("start") /\ UNCHANGED <<started, starting, rtmpUrl, delayed, overtook, worker>>
    BY <1>6 DEF HandleStart
  <2>2. /\ worker = "idle" /\ Len(mail) > 0 /\ mail[1] = "start"
        /\ Len(mail') = Len(mail) - 1
        /\ Len(mail') > 0 => mail'[Len(mail')] = mail[Len(mail)]
        /\ Len(mail') > 1 => mail'[Len(mail') - 1] = mail[Len(mail) - 1]
    BY <1>5, <2>1
  <2>3. rtmpUrl > 0
    BY <1>0, <2>2 DEF IInv, Called
  <2>4. /\ pushUrl' # 0
        /\ pushUrl # 0 => pushUrl' = pushUrl
        /\ pushUrl = 0 /\ ~starting => pushUrl' = rtmpUrl
    BY <1>6, <2>3 DEF HandleStart, UrlRead, Torn, TInv, TypeOK
  <2>5. CASE overtook
    <3>1. delayed > 0 \/ mail[Len(mail)] = "start"
      BY <2>2, <2>5 DEF Commands, Coming
    <3>2. Len(mail') = 0 => worker' = "idle" /\ pushUrl' # 0
      BY <2>1, <2>2, <2>4
    <3>3. Coming'
      BY <1>0, <2>1, <2>2, <3>1, <3>2 DEF Coming
    <3> QED BY <2>1, <2>5, <3>3 DEF Commands
  <2>6. CASE ~overtook /\ Ended
    <3>1. Len(mail') > 0 /\ Ended'
      BY <1>0, <2>2, <2>6 DEF Ended
    <3>2. delayed = 0 \/ (started /\ ~starting)
      BY <2>6 DEF Commands
    <3>3. started /\ ~starting => delayed = 1
      BY <1>0, <2>2, <2>6 DEF Commands, Begun, Ended
    <3> QED BY <2>1, <2>6, <3>1, <3>2, <3>3 DEF Commands, Begun
  <2>7. CASE ~overtook /\ ~Ended
    <3>1. started /\ ~starting /\ delayed = 0 /\ mail[Len(mail)] = "start"
      BY <2>2, <2>7 DEF Commands, Begun
    <3>2. IF Len(mail) = 1 THEN pushUrl = 0 ELSE mail[Len(mail) - 1] = "stop"
      BY <2>2, <2>7, <3>1 DEF Commands, Begun
    <3>3. CASE Len(mail) = 1
      BY <2>1, <2>2, <2>3, <2>4, <2>7, <3>1, <3>2, <3>3 DEF Commands, Begun
    <3>4. CASE Len(mail) # 1
      <4>1. Len(mail) > 2
        BY <1>0, <2>2, <3>2, <3>4
      <4>2. Len(mail') > 1 /\ mail'[Len(mail')] = "start" /\ mail'[Len(mail') - 1] = "stop"
        BY <1>0, <2>2, <3>1, <3>2, <3>4, <4>1
      <4> QED BY <2>1, <2>7, <3>1, <4>2 DEF Commands, Begun
    <3> QED BY <3>3, <3>4
  <2> QED BY <2>5, <2>6, <2>7
<1>7. CASE HandleStop
  <2>1. /\ Take("stop") /\ UNCHANGED <<started, starting, rtmpUrl, delayed, overtook, pushUrl>>
        /\ worker' = (IF pushUrl = 0 THEN "stopVideo" ELSE "closing")
    BY <1>7 DEF HandleStop
  <2>2. /\ worker = "idle" /\ Len(mail) > 0 /\ mail[1] = "stop"
        /\ Len(mail') = Len(mail) - 1
        /\ Len(mail') > 0 => mail'[Len(mail')] = mail[Len(mail)]
        /\ Len(mail') > 1 => mail'[Len(mail') - 1] = mail[Len(mail) - 1]
    BY <1>5, <2>1
  <2>3. pushUrl' = 0 \/ worker' \in {"closing", "joining"}
    BY <2>1
  <2>4. CASE overtook
    BY <1>0, <2>1, <2>2, <2>4 DEF Commands, Coming
  <2>5. CASE ~overtook /\ Ended
    <3>1. Ended'
      BY <1>0, <2>2, <2>3, <2>5 DEF Ended
    <3>2. delayed = 0 \/ (started /\ ~starting)
      BY <2>5 DEF Commands
    <3>3. started /\ ~starting => delayed = 1
      BY <1>0, <2>2, <2>5 DEF Commands, Begun, Ended
    <3> QED BY <2>1, <2>5, <3>1, <3>2, <3>3 DEF Commands, Begun
  <2>6. CASE ~overtook /\ ~Ended
    <3>1. started /\ ~starting /\ delayed = 0 /\ mail[Len(mail)] = "start"
      BY <2>2, <2>6 DEF Commands, Begun
    <3>2. Len(mail) > 1 /\ mail[Len(mail) - 1] = "stop"
      BY <1>0, <2>2, <2>6, <3>1 DEF Commands, Begun
    <3>3. /\ Len(mail') > 0 /\ mail'[Len(mail')] = "start"
          /\ IF Len(mail') = 1 THEN pushUrl' = 0 \/ worker' \in {"closing", "joining"}
                               ELSE mail'[Len(mail') - 1] = "stop"
      BY <1>0, <2>2, <2>3, <3>1, <3>2
    <3> QED BY <2>1, <2>6, <3>1, <3>3 DEF Commands, Begun
  <2> QED BY <2>4, <2>5, <2>6
<1>8. CASE CloseConnection
  BY <1>8 DEF CloseConnection, Commands, Begun, Ended, Coming
<1>9. CASE JoinPusher
  BY <1>9 DEF JoinPusher, Commands, Begun, Ended, Coming
<1>10. CASE WorkerStopsVideo \/ WorkerStopsAudio
  <2>1. pushUrl = 0 /\ worker # "idle" /\ worker \notin {"closing", "joining"}
    BY <1>10 DEF WorkerStopsVideo, WorkerStopsAudio, IInv, Phases
  <2> QED BY <1>10, <2>1 DEF WorkerStopsVideo, WorkerStopsAudio, Commands, Begun, Ended, Coming
<1>11. CASE Same
  BY <1>11 DEF Commands, Begun, Ended, Coming
<1>12. CASE Record \/ DeliverSound \/ OnFrame \/ Pictures \/ Pusher \/ UNCHANGED vars
  BY <1>11, <1>12 DEF Record, DeliverSound, OnFrame, Pictures, Encode, OfferPicture,
     QueuePicture, Pusher, EndRun, BeginCall, CallSucceeds, CallFails, Send, SendFails,
     CallConnect, ClearQueue, StartVideo, StartAudio, CallDisconnect, DropConnection,
     StopVideo, StopAudio, vars
<1> QED BY <1>1, <1>2, <1>3, <1>4, <1>6, <1>7, <1>8, <1>9, <1>10, <1>12
        DEF Next, Application, Worker

\* With every message handled there is a push exactly if the application
\* wants one, and to the url it named last (StartStream, StopStream), unless
\* its last stop came within the 500 ms of a start: then there is one, come
\* what may.  Nothing is assumed of when the application starts and stops.
THEOREM CommandsCorrect == Spec => []AsCommanded
<1>1. Init => Commands
  BY DEF Init, Commands, Ended
<1>2. TInv /\ Commands => AsCommanded
  <2> SUFFICES ASSUME TInv, Commands, Quiet PROVE AsCommanded
    BY DEF AsCommanded
  <2>1. worker = "idle" /\ Len(mail) = 0 /\ delayed = 0 /\ ~starting
    BY DEF Quiet
  <2>2. CASE overtook
    BY <2>1, <2>2 DEF Commands, Coming, AsCommanded
  <2>3. CASE ~overtook /\ started
    BY <2>1, <2>3 DEF Commands, Begun, AsCommanded
  <2>4. CASE ~overtook /\ ~started
    BY <2>1, <2>4 DEF Commands, Ended, AsCommanded
  <2> QED BY <2>2, <2>3, <2>4 DEF TInv, TypeOK
<1> QED BY <1>1, <1>2, CommandsStep, PhasesCorrect, BoundedCorrect, PTL DEF Spec

-----------------------------------------------------------------------------
(* Key frames.                                                             *)

\* No picture is of a start of the encoder that is still to come.
Epochs ==
  /\ \A i \in 1..Len(frames) : frames[i] <= epoch
  /\ picture[2] <= epoch
  /\ \A i \in 1..Len(queue) : queue[i][2] <= epoch

\* A key frame was sent, or is before place n of the queue.
KeyAhead(n) == keySent \/ \E j \in 1..(n - 1) : queue[j][1] = "key"

\* The stream is up and its encoder was started.
Up == pusher = "startAudio" \/ (pusher = "loop" /\ status = "Published")

\* Fresh pictures have a key frame ahead, and the encoder, which makes one
\* first, has made it by the time it has stopped wanting to.
Ordered ==
  /\ \A i \in 1..Len(queue) : queue[i] = <<"delta", epoch>> => KeyAhead(i)
  /\ picture = <<"delta", epoch>> => KeyAhead(Len(queue) + 1)
  /\ ~wantKey => picture[1] = "key" \/ KeyAhead(Len(queue) + 1)

KInv ==
  /\ Epochs
  /\ pusher \in {"stopVideo", "stopAudio"} => status \in {"Init", "Closed"}
  /\ Up => Ordered

\* A packet put at the end of the queue has what was there ahead of it.
LEMMA Queued ==
  ASSUME TypeOK, NEW p \in Packets, queue' = Append(queue, p), UNCHANGED <<keySent, epoch>>,
         p[2] <= epoch, Epochs
  PROVE  /\ \A i \in 1..Len(queue') : queue'[i][2] <= epoch
         /\ \A i \in 1..Len(queue) : queue'[i] = queue[i]
         /\ Len(queue') = Len(queue) + 1 /\ queue'[Len(queue) + 1] = p
         /\ \A i \in 1..(Len(queue) + 1) : KeyAhead(i) => KeyAhead(i)'
         /\ KeyAhead(Len(queue) + 1) \/ p[1] = "key" => KeyAhead(Len(queue) + 1)'
<1>1. queue \in Seq(Packets)
  BY DEF TypeOK
<1>2. /\ Len(queue') = Len(queue) + 1 /\ queue'[Len(queue) + 1] = p
      /\ \A i \in 1..Len(queue) : queue'[i] = queue[i]
  BY <1>1, AppendProperties
<1>3. Len(queue) \in Nat
  BY <1>1, LenProperties
<1> QED BY <1>2, <1>3 DEF Epochs, KeyAhead

\* The first packet leaves: what was one place further has it ahead still.
LEMMA Sent ==
  ASSUME TypeOK, Epochs, Ordered, Send PROVE Epochs' /\ Ordered'
<1>1. queue \in Seq(Packets) /\ queue # <<>> /\ queue' = Tail(queue)
  BY DEF TypeOK, Send, SendReady
<1>2. /\ Len(queue') = Len(queue) - 1
      /\ \A i \in 1..Len(queue') : queue'[i] = queue[i + 1]
      /\ Len(queue) \in Nat \ {0} /\ Head(queue) = queue[1]
  BY <1>1, HeadTailProperties, LenProperties
<1>3. keySent' = (keySent \/ queue[1][1] = "key")
  BY <1>2 DEF Send
<1>4. UNCHANGED <<picture, wantKey, epoch, frames>>
  BY DEF Send, otherVars, sourceVars, encoderVars
<1>5. ASSUME NEW i \in 1..(Len(queue') + 1), KeyAhead(i + 1) PROVE KeyAhead(i)'
  <2>1. CASE keySent
    <3>1. keySent' BY <1>3, <2>1
    <3> QED BY <3>1 DEF KeyAhead
  <2>2. CASE \E j \in 1..i : queue[j][1] = "key"
    <3>1. PICK j \in 1..i : queue[j][1] = "key"
      BY <2>2
    <3>2. CASE j = 1
      <4>1. keySent' BY <1>3, <3>1, <3>2
      <4> QED BY <4>1 DEF KeyAhead
    <3>3. CASE j # 1
      <4>1. j - 1 \in 1..(i - 1) /\ j - 1 \in 1..Len(queue') /\ queue'[j - 1] = queue[j]
        BY <1>2, <3>3
      <4> QED BY <3>1, <4>1 DEF KeyAhead
    <3> QED BY <3>2, <3>3
  <2> QED BY <1>2, <1>5, <2>1, <2>2 DEF KeyAhead
<1>6. Epochs'
  BY <1>2, <1>4 DEF Epochs
<1>7. ASSUME NEW i \in 1..Len(queue'), queue'[i] = <<"delta", epoch>> PROVE KeyAhead(i)'
  <2>1. i + 1 \in 1..Len(queue) /\ i \in 1..(Len(queue') + 1)
    BY <1>2
  <2>2. queue[i + 1] = <<"delta", epoch>>
    BY <1>2, <1>7
  <2>3. KeyAhead(i + 1)
    BY <2>1, <2>2 DEF Ordered
  <2> QED BY <1>5, <2>1, <2>3
<1>8. KeyAhead(Len(queue) + 1) => KeyAhead(Len(queue) + 1)'
  <2>1. Len(queue') + 1 = Len(queue) /\ Len(queue) \in 1..(Len(queue') + 1)
    BY <1>2
  <2>2. \A i \in 1..(Len(queue') + 1) : KeyAhead(i + 1) => KeyAhead(i)'
    BY <1>5
  <2> QED BY <2>1, <2>2 DEF KeyAhead
<1> QED BY <1>4, <1>6, <1>7, <1>8 DEF Ordered

\* Every step keeps the order of pictures.
LEMMA OrderedStep == TInv /\ IInv /\ KInv /\ [Next]_vars => KInv'
<1> SUFFICES ASSUME TInv, IInv, KInv, [Next]_vars PROVE KInv'
  OBVIOUS
<1> DEFINE Kept == UNCHANGED <<frames, picture, queue, keySent, wantKey, epoch>>
           Places == pusher' \in {"stopVideo", "stopAudio"} => status' \in {"Init", "Closed"}
<1> USE DEF hosterVars, encoderVars, sourceVars, objectVars, linkVars, dataVars,
            reportVars, otherVars
<1>1. TypeOK /\ Epochs
  BY DEF TInv, KInv
<1>2. ASSUME Kept, Places, Up' => Up PROVE KInv'
  BY <1>2 DEF KInv, Epochs, Ordered, KeyAhead
<1>3. CASE StartRtmpStream \/ PostStart \/ StopRtmpStream \/ StartDue
  BY <1>2, <1>3 DEF StartRtmpStream, PostStart, StopRtmpStream, StartDue, KInv, Up
<1>4. CASE HandleStart
  <2>1. CASE pushUrl = 0
    <3>1. queue' = <<>> /\ UNCHANGED <<frames, picture, epoch>> /\ pusher' = "loop" /\ status' = "Init"
      BY <1>4, <2>1 DEF HandleStart
    <3>2. Epochs'
      BY <1>1, <3>1 DEF Epochs
    <3> QED BY <3>1, <3>2 DEF KInv, Up
  <2>2. CASE pushUrl # 0
    BY <1>2, <1>4, <2>2 DEF HandleStart, KInv, Up
  <2> QED BY <2>1, <2>2, <1>1 DEF TypeOK
<1>5. CASE HandleStop
  BY <1>2, <1>5 DEF HandleStop, KInv, Up
<1>6. CASE JoinPusher
  <2>1. queue' = <<>> /\ UNCHANGED <<frames, picture, epoch>> /\ pusher' = "none"
    BY <1>6 DEF JoinPusher
  <2>2. Epochs'
    BY <1>1, <2>1 DEF Epochs
  <2> QED BY <2>1, <2>2 DEF KInv, Up
<1>7. CASE CloseConnection \/ WorkerStopsVideo \/ WorkerStopsAudio \/ Record
  BY <1>2, <1>7 DEF CloseConnection, WorkerStopsVideo, WorkerStopsAudio, Record, KInv, Up
<1>8. CASE DeliverSound
  <2>1. UNCHANGED <<frames, picture, keySent, wantKey, epoch, pusher, status>>
    BY <1>8 DEF DeliverSound
  <2>2. CASE queue' = queue
    BY <1>2, <2>1, <2>2 DEF KInv, Up
  <2>3. CASE queue' = Append(queue, Sound)
    <3>1. Sound \in Packets /\ Sound[2] <= epoch
          /\ Sound # <<"delta", epoch>> /\ Sound[1] # "key"
      BY <1>1 DEF Sound, Packets, TypeOK
    <3>2. /\ \A i \in 1..Len(queue') : queue'[i][2] <= epoch
          /\ \A i \in 1..Len(queue) : queue'[i] = queue[i]
          /\ Len(queue') = Len(queue) + 1 /\ queue'[Len(queue) + 1] = Sound
          /\ \A i \in 1..(Len(queue) + 1) : KeyAhead(i) => KeyAhead(i)'
          /\ KeyAhead(Len(queue) + 1) => KeyAhead(Len(queue) + 1)'
      BY <1>1, <2>1, <2>3, <3>1, Queued
    <3>3. Len(queue) \in Nat
      BY <1>1, LenProperties DEF TypeOK
    <3>4. Epochs'
      BY <1>1, <2>1, <3>2 DEF Epochs
    <3>5. ASSUME Ordered PROVE Ordered'
      <4>1. ASSUME NEW i \in 1..Len(queue'), queue'[i] = <<"delta", epoch>>
            PROVE  KeyAhead(i)'
        <5>1. i # Len(queue) + 1
          BY <3>1, <3>2, <4>1
        <5>2. i \in 1..Len(queue) /\ i \in 1..(Len(queue) + 1)
          BY <3>2, <3>3, <5>1
        <5>3. KeyAhead(i)
          BY <3>2, <3>5, <4>1, <5>2 DEF Ordered
        <5> QED BY <3>2, <5>2, <5>3
      <4>2. KeyAhead(Len(queue) + 1) => KeyAhead(Len(queue) + 1)'
        BY <3>2
      <4>3. \A i \in 1..Len(queue') : queue'[i] = <<"delta", epoch'>> => KeyAhead(i)'
        BY <2>1, <4>1
      <4> QED BY <2>1, <3>5, <4>2, <4>3 DEF Ordered
    <3> QED BY <2>1, <3>4, <3>5 DEF KInv, Up
  <2> QED BY <1>8, <2>2, <2>3 DEF DeliverSound
<1>9. CASE OnFrame
  <2>1. frames' = Append(frames, epoch) /\ frames \in Seq(Nat) /\ epoch \in Nat
        /\ UNCHANGED <<picture, queue, keySent, wantKey, epoch, pusher, status>>
    BY <1>1, <1>9 DEF OnFrame, TypeOK
  <2>2. \A i \in 1..Len(frames') : frames'[i] <= epoch
    BY <1>1, <2>1, AppendProperties, LenProperties DEF Epochs
  <2> QED BY <1>1, <2>1, <2>2 DEF KInv, Epochs, Up, Ordered, KeyAhead
<1>10. CASE Encode
  <2>1. frames' = Tail(frames) /\ frames \in Seq(Nat) /\ frames # <<>> /\ epoch \in Nat
        /\ UNCHANGED <<queue, keySent, epoch, pusher, status>>
    BY <1>1, <1>10 DEF Encode, TypeOK
  <2>2. PICK kind \in {"key", "delta"} :
          (wantKey => kind = "key") /\ picture' = <<kind, Head(frames)>>
    BY <1>10 DEF Encode
  <2>3. Head(frames) = frames[1] /\ Len(frames) \in Nat /\ Len(frames) > 0
        /\ Len(frames') = Len(frames) - 1
        /\ \A i \in 1..Len(frames') : frames'[i] = frames[i + 1]
    BY <2>1, HeadTailProperties, LenProperties
  <2>4. Epochs'
    BY <1>1, <2>1, <2>2, <2>3 DEF Epochs
  <2>5. picture = NoPicture
    BY <1>10 DEF Encode
  <2>6. ASSUME Ordered PROVE Ordered'
    <3>1. KeyAhead(Len(queue) + 1) \/ kind = "key"
      BY <2>2, <2>5, <2>6 DEF Ordered, NoPicture
    <3>2. picture'[1] = kind
      BY <2>2
    <3>3. picture' = <<"delta", epoch>> => kind = "delta"
      BY <2>2
    <3> QED BY <2>1, <2>6, <3>1, <3>2, <3>3 DEF Ordered, KeyAhead
  <2> QED BY <2>1, <2>4, <2>6 DEF KInv, Up
<1>11. CASE OfferPicture
  <2>1. UNCHANGED <<frames, queue, keySent, wantKey, epoch, pusher, status>>
    BY <1>11 DEF OfferPicture
  <2>2. CASE UNCHANGED picture
    BY <1>2, <2>1, <2>2 DEF KInv, Up
  <2>3. CASE picture' = NoPicture /\ (pushUrl = 0 \/ picture[1] # "key")
    <3>1. Epochs'
      BY <1>1, <2>1, <2>3 DEF Epochs, NoPicture, TypeOK
    <3>2. ASSUME Up, Ordered PROVE Ordered'
      <4>1. picture[1] # "key"
        BY <2>3, <3>2 DEF Up, IInv, Phases
      <4> QED BY <2>1, <2>3, <3>2, <4>1 DEF Ordered, KeyAhead, NoPicture
    <3> QED BY <2>1, <3>1, <3>2 DEF KInv, Up
  <2> QED BY <1>11, <2>2, <2>3 DEF OfferPicture
<1>12. CASE QueuePicture
  <2>1. queue' = Append(queue, picture) /\ picture' = NoPicture
        /\ UNCHANGED <<frames, keySent, wantKey, epoch, pusher, status>>
    BY <1>12 DEF QueuePicture
  <2>2. picture \in Packets /\ picture[2] <= epoch
    BY <1>1, <1>12 DEF QueuePicture, TypeOK, TInv, Bounded, Epochs
  <2>3. /\ \A i \in 1..Len(queue') : queue'[i][2] <= epoch
        /\ \A i \in 1..Len(queue) : queue'[i] = queue[i]
        /\ Len(queue') = Len(queue) + 1 /\ queue'[Len(queue) + 1] = picture
        /\ \A i \in 1..(Len(queue) + 1) : KeyAhead(i) => KeyAhead(i)'
        /\ KeyAhead(Len(queue) + 1) \/ picture[1] = "key" => KeyAhead(Len(queue) + 1)'
    BY <1>1, <2>1, <2>2, Queued
  <2>4. Len(queue) \in Nat
    BY <1>1, LenProperties DEF TypeOK
  <2>5. Epochs'
    <3>1. \A i \in 1..Len(queue') : queue'[i][2] <= epoch'
      BY <2>1, <2>3
    <3>2. (\A i \in 1..Len(frames') : frames'[i] <= epoch') /\ picture'[2] <= epoch'
      BY <1>1, <2>1 DEF Epochs, NoPicture, TypeOK
    <3> QED BY <3>1, <3>2 DEF Epochs
  <2>6. ASSUME Ordered PROVE Ordered'
    BY <2>1, <2>3, <2>4, <2>6 DEF Ordered, NoPicture
  <2> QED BY <2>1, <2>5, <2>6 DEF KInv, Up
<1>13. CASE EndRun \/ BeginCall \/ CallSucceeds \/ CallFails \/ CallConnect \/ CallDisconnect
  BY <1>2, <1>13 DEF EndRun, BeginCall, CallOf, CallSucceeds, CallFails, StatusAfter,
     CallConnect, CallDisconnect, KInv, Up
<1>14. CASE Send
  BY <1>1, <1>14, Sent DEF Send, SendReady, KInv, Up
<1>15. CASE SendFails
  <2>1. queue' = Tail(queue) /\ queue \in Seq(Packets) /\ queue # <<>>
        /\ UNCHANGED <<frames, picture, epoch>> /\ pusher' = "lost"
    BY <1>1, <1>15 DEF SendFails, SendReady, TypeOK
  <2>2. Len(queue') = Len(queue) - 1 /\ Len(queue) \in Nat
        /\ \A i \in 1..Len(queue') : queue'[i] = queue[i + 1]
    BY <2>1, HeadTailProperties, LenProperties
  <2>3. Epochs'
    BY <1>1, <2>1, <2>2 DEF Epochs
  <2> QED BY <2>1, <2>3 DEF KInv, Up
<1>16. CASE ClearQueue
  <2>1. queue' = <<>> /\ UNCHANGED <<frames, picture, epoch>> /\ pusher' = "startVideo"
    BY <1>16 DEF ClearQueue
  <2>2. Epochs'
    BY <1>1, <2>1 DEF Epochs
  <2> QED BY <2>1, <2>2 DEF KInv, Up
<1>17. CASE StartVideo
  <2>1. /\ pusher' = "startAudio" /\ wantKey' = TRUE /\ epoch' = epoch + 1
        /\ UNCHANGED <<frames, picture, queue, keySent>>
    BY <1>17 DEF StartVideo
  <2>2. epoch \in Nat /\ frames \in Seq(Nat) /\ queue \in Seq(Packets)
        /\ picture \in Packets \cup {NoPicture}
    BY <1>1 DEF TypeOK
  <2>3. /\ \A i \in 1..Len(frames) : frames[i] \in Nat
        /\ \A i \in 1..Len(queue) : queue[i][2] \in Nat
        /\ picture[2] \in Nat
    BY <2>2, LenProperties DEF Packets, NoPicture
  <2>4. Epochs'
    <3>1. \A n \in Nat : n <= epoch => n <= epoch'
      BY <2>1, <2>2
    <3>2. \A i \in 1..Len(frames') : frames'[i] <= epoch'
      BY <1>1, <2>1, <2>3, <3>1 DEF Epochs
    <3>3. picture'[2] <= epoch'
      BY <1>1, <2>1, <2>3, <3>1 DEF Epochs
    <3>4. \A i \in 1..Len(queue') : queue'[i][2] <= epoch'
      BY <1>1, <2>1, <2>3, <3>1 DEF Epochs
    <3> QED BY <3>2, <3>3, <3>4 DEF Epochs
  <2>5. /\ \A i \in 1..Len(queue) : queue[i] # <<"delta", epoch + 1>>
        /\ picture # <<"delta", epoch + 1>>
    BY <1>1, <2>2, <2>3 DEF Epochs
  <2> QED BY <2>1, <2>4, <2>5 DEF KInv, Ordered
<1>18. CASE StartAudio
  BY <1>2, <1>18 DEF StartAudio, KInv, Up
<1>19. CASE DropConnection
  BY <1>2, <1>19 DEF DropConnection, KInv, Up
<1>20. CASE StopVideo \/ StopAudio
  BY <1>2, <1>20 DEF StopVideo, StopAudio, KInv, Up
<1>21. CASE UNCHANGED vars
  BY <1>2, <1>21 DEF vars, KInv, Up
<1> QED BY <1>3, <1>4, <1>5, <1>6, <1>7, <1>8, <1>9, <1>10, <1>11, <1>12, <1>13, <1>14,
           <1>15, <1>16, <1>17, <1>18, <1>19, <1>20, <1>21
        DEF Next, Application, Worker, Pictures, Pusher

\* No picture of a connection is sent before a key frame (need_keyframe_ of
\* the encoder and of AnyRtmpPush), whatever was under way before.
THEOREM KeyCorrect == Spec => KeyBeforeFresh
<1>1. Init => KInv
  BY DEF Init, KInv, Epochs, Up, NoPicture
<1>2. TInv /\ IInv /\ KInv /\ [Next]_vars =>
        [queue # <<>> /\ pusher = "loop" /\ Head(queue) = <<"delta", epoch>>
           /\ queue' = Tail(queue) => keySent]_vars
  <2> SUFFICES ASSUME TInv, IInv, KInv, [Next]_vars, queue # <<>>, pusher = "loop",
                      Head(queue) = <<"delta", epoch>>, queue' = Tail(queue)
               PROVE  keySent
    OBVIOUS
  <2>1. queue \in Seq(Packets)
    BY DEF TInv, TypeOK
  <2>2. Len(queue') = Len(queue) - 1 /\ Len(queue) \in Nat \ {0} /\ Head(queue) = queue[1]
    BY <2>1, HeadTailProperties, LenProperties
  <2>3. queue' # queue /\ \A p \in Packets : queue' # Append(queue, p)
    <3>1. \A n \in Nat : n - 1 # n /\ n - 1 # n + 1
      OBVIOUS
    <3>2. ASSUME NEW p \in Packets PROVE queue' # Append(queue, p)
      <4>1. Len(Append(queue, p)) = Len(queue) + 1
        BY <2>1, AppendProperties
      <4>2. Len(queue') # Len(Append(queue, p))
        BY <2>2, <3>1, <4>1, Zenon
      <4> QED BY <4>2, Zenon
    <3>3. queue' # queue
      BY <2>2, <3>1, Zenon
    <3> QED BY <3>2, <3>3
  <2>4. pushUrl # 0
    BY DEF IInv, Phases
  <2>5. SendReady
    BY <2>3, <2>4
       DEF Next, Application, StartRtmpStream, PostStart, StopRtmpStream, StartDue, Worker,
           HandleStart, HandleStop, CloseConnection, JoinPusher, WorkerStopsVideo,
           WorkerStopsAudio, Record, DeliverSound, Sound, Packets, OnFrame, Pictures,
           Encode, OfferPicture, QueuePicture, TInv, TypeOK, Bounded, Pusher, EndRun,
           BeginCall, CallSucceeds, CallFails, StatusAfter, Send, SendFails,
           CallConnect, ClearQueue, StartVideo, StartAudio, CallDisconnect,
           DropConnection, StopVideo, StopAudio, vars, dataVars
  <2>6. Up
    BY <2>5 DEF SendReady, Up
  <2>7. KeyAhead(1)
    BY <2>2, <2>6 DEF KInv, Ordered
  <2> QED BY <2>7 DEF KeyAhead
<1> QED BY <1>1, <1>2, OrderedStep, PhasesCorrect, BoundedCorrect, PTL DEF Spec, KeyBeforeFresh
-----------------------------------------------------------------------------
(* Stops: who waits for whom, and how much is left to do.                  *)

\* The locks are held where the code holds them, and what runs has not been
\* told to stop.
Locks ==
  /\ avHolder = "worker" <=> worker \in {"closing", "joining"}
  /\ rtmpHeld <=> pusher \in {"stopVideo", "stopAudio"}
  /\ worker # "idle" \/ pusher \in {"none", "ended"} => ~running
  /\ ~started => AudioFree

\* rtmp_status_ fits the call that is under way.
Calls ==
  running =>
    /\ status # "Closed"
    /\ pusher = "handshake" => status = "Init"
    /\ pusher = "connect" => status = "Handshaked"
    /\ pusher = "publish" => status = "Connected"
    /\ pusher \in {"stopVideo", "stopAudio"} => status = "Init"
    /\ ~connection =>
         \/ pusher \in {"stopVideo", "stopAudio"}
         \/ pusher = "loop" /\ report \in {"failed", "closed"}

SInv == Locks /\ Calls

LEMMA StopStep == TInv /\ IInv /\ SInv /\ [Next]_vars => SInv'
<1> SUFFICES ASSUME TInv, IInv, SInv, [Next]_vars PROVE SInv'
  OBVIOUS
<1> USE DEF TInv, TypeOK, Bounded, IInv, Phases, SInv, Locks, Calls, AudioFree,
        hosterVars, encoderVars, sourceVars, objectVars, linkVars, dataVars,
        reportVars, otherVars
<1>0. CASE PostStart BY <1>0 DEF PostStart
<1>1. CASE StartRtmpStream BY <1>1 DEF StartRtmpStream
<1>2. CASE StopRtmpStream BY <1>2 DEF StopRtmpStream
<1>3. CASE StartDue BY <1>3 DEF StartDue
<1>4. CASE HandleStart BY <1>4 DEF HandleStart, Take
<1>5. CASE HandleStop BY <1>5 DEF HandleStop, Take
<1>6. CASE CloseConnection BY <1>6 DEF CloseConnection
<1>7. CASE JoinPusher BY <1>7 DEF JoinPusher
<1>8. CASE WorkerStopsVideo BY <1>8 DEF WorkerStopsVideo
<1>9. CASE WorkerStopsAudio BY <1>9 DEF WorkerStopsAudio
<1>10. CASE Record BY <1>10 DEF Record
<1>11. CASE DeliverSound BY <1>11 DEF DeliverSound
<1>12. CASE OnFrame BY <1>12 DEF OnFrame
<1>13. CASE Encode BY <1>13 DEF Encode
<1>14. CASE OfferPicture BY <1>14 DEF OfferPicture
<1>15. CASE QueuePicture BY <1>15 DEF QueuePicture
<1>16. CASE EndRun BY <1>16 DEF EndRun
<1>17. CASE BeginCall BY <1>17 DEF BeginCall, CallOf
<1>18. CASE CallSucceeds BY <1>18 DEF CallSucceeds, StatusAfter
<1>19. CASE CallFails BY <1>19 DEF CallFails, Fault, StatusAfter
<1>20. CASE Send BY <1>20 DEF Send, SendReady
<1>21. CASE SendFails BY <1>21 DEF SendFails, SendReady, Fault
<1>22. CASE CallConnect BY <1>22 DEF CallConnect
<1>23. CASE ClearQueue BY <1>23 DEF ClearQueue
<1>24. CASE StartVideo BY <1>24 DEF StartVideo
<1>25. CASE StartAudio BY <1>25 DEF StartAudio
<1>26. CASE CallDisconnect BY <1>26 DEF CallDisconnect
<1>27. CASE DropConnection BY <1>27 DEF DropConnection
<1>28. CASE StopVideo BY <1>28 DEF StopVideo
<1>29. CASE StopAudio BY <1>29 DEF StopAudio
<1>30. CASE UNCHANGED vars BY <1>30 DEF vars
<1> QED
  BY <1>0, <1>1, <1>2, <1>3, <1>4, <1>5, <1>6, <1>7, <1>8, <1>9, <1>10,
     <1>11, <1>12, <1>13, <1>14, <1>15, <1>16, <1>17, <1>18, <1>19,
     <1>20, <1>21, <1>22, <1>23, <1>24, <1>25, <1>26, <1>27, <1>28,
     <1>29, <1>30 DEF Next, Application, Worker, Pictures, Pusher

LEMMA StopCorrect == Spec => []SInv
<1>1. Init => SInv
  BY DEF Init, SInv, Locks, Calls, AudioFree
<1> QED BY <1>1, StopStep, PhasesCorrect, BoundedCorrect, PTL DEF Spec

\* A hoster that is started once is not started any more when a stop is on
\* the worker's list or in its hands, so that nothing is recorded then.
Stopping == worker # "idle" \/ \E i \in 1..Len(mail) : mail[i] = "stop"
StoppedForGood ==
  /\ started /\ ~starting => rtmpUrl > 0
  /\ Stopping => ~started /\ rtmpUrl > 0

LEMMA StoppedStep ==
  ASSUME MaxStarts <= 1
  PROVE  TInv /\ StoppedForGood /\ [Next]_vars => StoppedForGood'
<1> SUFFICES ASSUME TInv, StoppedForGood, [Next]_vars PROVE StoppedForGood'
  OBVIOUS
<1> USE PushBoundAssumption
    DEF TInv, TypeOK, Bounded, StoppedForGood, Stopping, hosterVars, otherVars
<1>0. CASE PostStart BY <1>0 DEF PostStart
<1>1. CASE StartRtmpStream BY <1>1 DEF StartRtmpStream
<1>2. CASE StopRtmpStream BY <1>2 DEF StopRtmpStream
<1>3. CASE StartDue
  <2>1. /\ mail \in Seq({"start", "stop"}) /\ mail' = Append(mail, "start")
    BY <1>3 DEF StartDue
  <2>2. /\ Len(mail') = Len(mail) + 1 /\ mail'[Len(mail) + 1] = "start"
        /\ \A i \in 1..Len(mail) : mail'[i] = mail[i]
    BY <2>1, AppendProperties
  <2>3. Stopping' => Stopping BY <1>3, <2>2 DEF StartDue
  <2> QED BY <1>3, <2>3 DEF StartDue
<1>4. ASSUME NEW msg \in {"start", "stop"}, Take(msg)
      PROVE  /\ msg = "stop" => Stopping
             /\ (\E i \in 1..Len(mail') : mail'[i] = "stop") => Stopping
  <2>1. mail \in Seq({"start", "stop"}) /\ mail # <<>> /\ mail' = Tail(mail)
    BY <1>4 DEF Take
  <2>2. /\ Len(mail) \in Nat /\ Len(mail) > 0 /\ Len(mail') = Len(mail) - 1
        /\ \A i \in 1..Len(mail') : mail'[i] = mail[i + 1]
    BY <2>1, HeadTailProperties
  <2>3. mail[1] = msg BY <1>4, <2>1 DEF Take
  <2> QED BY <2>2, <2>3
<1>5. CASE HandleStart BY <1>4, <1>5 DEF HandleStart
<1>6. CASE HandleStop BY <1>4, <1>6 DEF HandleStop
<1>7. CASE CloseConnection BY <1>7 DEF CloseConnection
<1>8. CASE JoinPusher BY <1>8 DEF JoinPusher
<1>9. CASE WorkerStopsVideo BY <1>9 DEF WorkerStopsVideo
<1>10. CASE WorkerStopsAudio BY <1>10 DEF WorkerStopsAudio
<1>11. CASE Record \/ DeliverSound \/ OnFrame \/ Pictures \/ Pusher \/ UNCHANGED vars
  <2>1. UNCHANGED <<started, starting, rtmpUrl, mail, worker>>
    BY <1>11 DEF Record, DeliverSound, OnFrame, Pictures, Encode, OfferPicture,
       QueuePicture, Pusher, EndRun, BeginCall, CallSucceeds, CallFails, Send, SendFails,
       CallConnect, ClearQueue, StartVideo, StartAudio, CallDisconnect, DropConnection,
       StopVideo, StopAudio, vars
  <2> QED BY <2>1
<1> QED BY <1>0, <1>1, <1>2, <1>3, <1>5, <1>6, <1>7, <1>8, <1>9, <1>10, <1>11
        DEF Next, Application, Worker

\* While the worker holds cs_av_rtmp_ nobody waits for the recorder, and
\* otherwise the coder waits for nobody: in each case the four threads can be
\* put into an order in which they wait for earlier ones only.
LEMMA NoCircleThen ==
  ASSUME Locks, StoppedForGood PROVE NoCircle
<1> SUFFICES ASSUME NEW group \in SUBSET Threads, group # {}
             PROVE  \E s \in group : \A t \in group : ~WaitsFor(s, t)
  BY DEF NoCircle
<1> USE DEF WaitsFor, WorkerWaitsFor, HoldsAv
<1>1. CASE avHolder = "worker"
  <2>1. AudioFree BY <1>1 DEF Locks, StoppedForGood, Stopping
  <2>2. CASE "pusher" \in group \/ "recorder" \in group BY <2>1, <2>2
  <2>3. CASE "pusher" \notin group /\ "worker" \in group
    <3>1. worker \in {"closing", "joining"} BY <1>1 DEF Locks
    <3> QED BY <2>3, <3>1
  <2>4. CASE group \subseteq {"coder"} BY <1>1, <2>4
  <2> QED BY <2>2, <2>3, <2>4 DEF Threads
<1>2. CASE avHolder # "worker"
  <2>1. \A t \in group : ~WaitsFor("coder", t) BY <1>2
  <2>2. "coder" \in group \/ \A t \in group : ~WaitsFor("recorder", t) BY <1>2
  <2>3. "recorder" \in group \/ \A t \in group : ~WaitsFor("pusher", t)
    OBVIOUS
  <2>4. \/ "coder" \in group \/ "recorder" \in group \/ "pusher" \in group
        \/ \A t \in group : ~WaitsFor("worker", t)
    BY <1>2
  <2> QED BY <2>1, <2>2, <2>3, <2>4 DEF Threads
<1> QED BY <1>1, <1>2

\* The worker, the push thread, the recorder and the coder never wait for
\* each other in a circle (StopStream, CallDisconnect and SetAacData, with
\* their locks), if the hoster is started once, as HosterActivity does.
THEOREM CircleCorrect == MaxStarts <= 1 => (Spec => []NoCircle)
<1> SUFFICES ASSUME MaxStarts <= 1 PROVE Spec => []NoCircle
  OBVIOUS
<1>1. Init => StoppedForGood
  BY DEF Init, StoppedForGood, Stopping
<1>2. SInv /\ StoppedForGood => NoCircle
  BY NoCircleThen DEF SInv
<1> QED BY <1>1, <1>2, StoppedStep, StopCorrect, BoundedCorrect, PTL DEF Spec

\* The two tables of what is left, place by place.
LEMMA Lefts ==
  /\ WorkerLeft["idle"] = 0 /\ WorkerLeft["stopAudio"] = 1
  /\ WorkerLeft["stopVideo"] = 2 /\ WorkerLeft["joining"] = 3
  /\ WorkerLeft["closing"] = 4
  /\ PusherLeft["none"] = 0 /\ PusherLeft["ended"] = 0 /\ PusherLeft["loop"] = 1
  /\ PusherLeft["stopAudio"] = 2 /\ PusherLeft["stopVideo"] = 3
  /\ PusherLeft["drop"] = 4 /\ PusherLeft["lost"] = 5
  /\ PusherLeft["startAudio"] = 2 /\ PusherLeft["startVideo"] = 3
  /\ PusherLeft["clear"] = 4 /\ PusherLeft["connected"] = 5
  /\ PusherLeft["handshake"] = 6 /\ PusherLeft["connect"] = 6
  /\ PusherLeft["publish"] = 6
BY DEF WorkerLeft, PusherLeft

LEMMA StopLeftFalls ==
  TInv /\ IInv /\ SInv /\ worker # "idle" /\ [Next]_vars =>
    UNCHANGED <<worker, pusher>> \/ StopLeft' < StopLeft
<1> SUFFICES ASSUME TInv, IInv, SInv, worker # "idle", [Next]_vars
             PROVE  UNCHANGED <<worker, pusher>> \/ StopLeft' < StopLeft
  OBVIOUS
<1> DEFINE W == WorkerLeft[worker]
           P == PusherLeft[pusher]
<1>1. /\ worker \in {"closing", "joining", "stopVideo", "stopAudio"}
      /\ W \in Nat /\ P \in Nat
  <2>1. worker \in {"closing", "joining", "stopVideo", "stopAudio"}
    BY DEF TInv, TypeOK
  <2>2. W \in Nat BY <2>1, Lefts
  <2>3. P \in Nat
    <3> HIDE DEF P
    <3>1. \A p \in {"none", "loop", "handshake", "connect", "publish", "connected",
                     "clear", "startVideo", "startAudio", "lost", "drop",
                     "stopVideo", "stopAudio", "ended"} : PusherLeft[p] \in Nat
      BY Lefts
    <3>2. pusher \in {"none", "loop", "handshake", "connect", "publish",
                      "connected", "clear", "startVideo", "startAudio", "lost",
                      "drop", "stopVideo", "stopAudio", "ended"}
      BY DEF TInv, TypeOK
    <3> QED BY <3>1, <3>2 DEF P
  <2> QED BY <2>1, <2>2, <2>3
<1>2. ~running BY <1>1 DEF SInv, Locks
<1>3. worker \in {"stopVideo", "stopAudio"} => pusher = "none"
  BY DEF IInv, Phases
<1> USE DEF otherVars
<1>4. ASSUME W' < W, P' <= P, P' \in Nat, W' \in Nat PROVE StopLeft' < StopLeft
  BY <1>1, <1>4 DEF StopLeft
<1>5. ASSUME worker' = worker, P' < P, P' \in Nat PROVE StopLeft' < StopLeft
  BY <1>1, <1>5 DEF StopLeft
<1>6. CASE CloseConnection BY <1>1, <1>4, <1>6, Lefts DEF CloseConnection
<1>7. CASE JoinPusher BY <1>1, <1>4, <1>7, Lefts DEF JoinPusher
<1>8. CASE WorkerStopsVideo BY <1>1, <1>4, <1>8, Lefts DEF WorkerStopsVideo
<1>9. CASE WorkerStopsAudio BY <1>1, <1>4, <1>9, Lefts DEF WorkerStopsAudio
<1>10. CASE EndRun BY <1>5, <1>10, Lefts DEF EndRun
<1>11. CASE CallSucceeds BY <1>5, <1>11, Lefts DEF CallSucceeds, StatusAfter
<1>12. CASE CallFails BY <1>5, <1>12, Lefts DEF CallFails, StatusAfter
<1>13. CASE CallConnect BY <1>5, <1>13, Lefts DEF CallConnect
<1>14. CASE ClearQueue BY <1>5, <1>14, Lefts DEF ClearQueue
<1>15. CASE StartVideo BY <1>5, <1>15, Lefts DEF StartVideo
<1>16. CASE StartAudio BY <1>5, <1>16, Lefts DEF StartAudio
<1>17. CASE CallDisconnect BY <1>5, <1>17, Lefts DEF CallDisconnect
<1>18. CASE DropConnection BY <1>5, <1>18, Lefts DEF DropConnection
<1>19. CASE StopVideo BY <1>5, <1>19, Lefts DEF StopVideo
<1>20. CASE StopAudio BY <1>5, <1>20, Lefts DEF StopAudio
<1>21. CASE HandleStart \/ HandleStop BY <1>21 DEF HandleStart, HandleStop, Take
<1>22. CASE BeginCall \/ Send \/ SendFails
  BY <1>2, <1>22 DEF BeginCall, Send, SendFails, SendReady
<1>23. CASE \/ Application \/ StartDue \/ Record \/ DeliverSound \/ OnFrame
            \/ Pictures \/ UNCHANGED vars
  BY <1>23 DEF Application, StartRtmpStream, PostStart, StopRtmpStream, StartDue, Record,
     DeliverSound, OnFrame, Pictures, Encode, OfferPicture, QueuePicture, vars
<1> QED
  BY <1>6, <1>7, <1>8, <1>9, <1>10, <1>11, <1>12, <1>13, <1>14, <1>15, <1>16,
     <1>17, <1>18, <1>19, <1>20, <1>21, <1>22, <1>23 DEF Next, Worker, Pusher

\* A stop needs ten steps of the worker and the push thread at most, from
\* wherever they are (~AnyRtmpPush against Run, CallConnect and
\* CallDisconnect), for any number of starts.
THEOREM StopAdvances == Spec => StopProgress
<1>1. TInv /\ IInv /\ SInv /\ [Next]_vars =>
        [worker # "idle" =>
           UNCHANGED <<worker, pusher>> \/ StopLeft' < StopLeft]_vars
  BY StopLeftFalls
<1> QED BY <1>1, BoundedCorrect, PhasesCorrect, StopCorrect, PTL
        DEF Spec, StopProgress

-----------------------------------------------------------------------------
(* Reconnecting: tries run out.                                            *)

\* What is left of a try, and of all tries, until a stream is up or given
\* up; a push that waits in its loop is where rtmp_status_ says.
TryLeft ==
  CASE pusher = "stopVideo" -> 10 [] pusher = "stopAudio" -> 9
    [] pusher = "loop" /\ status = "Init" -> 8
    [] pusher = "handshake" -> 7
    [] pusher = "loop" /\ status = "Handshaked" -> 6
    [] pusher = "connect" -> 5
    [] pusher = "loop" /\ status = "Connected" -> 4
    [] pusher = "publish" -> 3
    [] pusher = "lost" -> 2 [] pusher = "drop" -> 1
    [] OTHER -> 0
TriesLeft == 10 * (MAX_RETRY_TIME + 1 - retrys) + TryLeft

\* Every step of a push that has no stream uses up a part of what is left.
TriesRunOut ==
  [][running /\ running' /\ status # "Published" =>
       \/ UNCHANGED <<status, pusher>>
       \/ TriesLeft' \in Nat /\ TriesLeft' < TriesLeft]_vars

\* A push that has no tries left has told the application.
GivenUpReported ==
  running /\ pusher = "loop" /\ ~connection => report \in {"failed", "closed"}

LEMMA TriesLeftFalls ==
  TInv /\ IInv /\ SInv /\ [Next]_vars /\ running /\ running' /\ status # "Published" =>
    \/ UNCHANGED <<status, pusher>>
    \/ TriesLeft' \in Nat /\ TriesLeft' < TriesLeft
<1> SUFFICES ASSUME TInv, IInv, SInv, [Next]_vars, running, running',
                    status # "Published"
             PROVE  \/ UNCHANGED <<status, pusher>>
                    \/ TriesLeft' \in Nat /\ TriesLeft' < TriesLeft
  OBVIOUS
<1> USE DEF otherVars, objectVars, linkVars
<1>1. /\ retrys \in 0..4 /\ MAX_RETRY_TIME = 3
      /\ status \in {"Init", "Handshaked", "Connected"}
      /\ connection => retrys <= 3
  BY DEF TInv, TypeOK, Bounded, SInv, Calls, MAX_RETRY_TIME
<1>2. ASSUME retrys' = retrys, TryLeft \in Nat, TryLeft' \in Nat, TryLeft' < TryLeft
      PROVE  TriesLeft' \in Nat /\ TriesLeft' < TriesLeft
  <2>1. \A t, u \in Nat : t < u =>
          /\ 10 * (3 + 1 - retrys) + t \in Nat
          /\ 10 * (3 + 1 - retrys) + t < 10 * (3 + 1 - retrys) + u
    BY <1>1
  <2>2. /\ TriesLeft = 10 * (3 + 1 - retrys) + TryLeft
        /\ TriesLeft' = 10 * (3 + 1 - retrys) + TryLeft'
    BY <1>1, <1>2 DEF TriesLeft, MAX_RETRY_TIME
  <2> QED BY <1>2, <2>1, <2>2
<1>3. CASE BeginCall
  <2>1. CallOf["Init"] = "handshake" /\ CallOf["Handshaked"] = "connect"
        /\ CallOf["Connected"] = "publish"
    BY DEF CallOf
  <2>2. /\ pusher = "loop" /\ pusher' = CallOf[status]
        /\ status' = status /\ retrys' = retrys
    BY <1>3 DEF BeginCall
  <2>3. TryLeft \in Nat /\ TryLeft' \in Nat /\ TryLeft' < TryLeft
    BY <1>1, <2>1, <2>2 DEF TryLeft
  <2> QED BY <1>2, <2>2, <2>3
<1>4. CASE CallSucceeds
  <2>1. StatusAfter["handshake"] = "Handshaked" /\ StatusAfter["connect"] = "Connected"
        /\ StatusAfter["publish"] = "Published"
    BY DEF StatusAfter
  <2>2. /\ pusher \in {"handshake", "connect", "publish"}
        /\ pusher' = IF pusher = "publish" THEN "connected" ELSE "loop"
        /\ status' = StatusAfter[pusher] /\ retrys' = retrys
    BY <1>4 DEF CallSucceeds, StatusAfter
  <2>3. TryLeft \in Nat /\ TryLeft' \in Nat /\ TryLeft' < TryLeft
    BY <2>1, <2>2 DEF TryLeft
  <2> QED BY <1>2, <2>2, <2>3
<1>5. CASE CallFails BY <1>1, <1>2, <1>5 DEF CallFails, StatusAfter, TryLeft
<1>6. CASE CallDisconnect BY <1>1, <1>2, <1>6 DEF CallDisconnect, TryLeft
<1>7. CASE DropConnection
  <2>1. connection BY <1>7 DEF DropConnection, TInv, Bounded
  <2>2. /\ retrys' = retrys + 1 /\ pusher' = "stopVideo" /\ pusher = "drop"
    BY <1>1, <1>7 DEF DropConnection
  <2>3. TryLeft = 1 /\ TryLeft' = 10 BY <2>2 DEF TryLeft
  <2> QED BY <1>1, <2>1, <2>2, <2>3 DEF TriesLeft
<1>8. CASE StopVideo BY <1>1, <1>2, <1>8 DEF StopVideo, TryLeft
<1>9. CASE StopAudio BY <1>1, <1>2, <1>9 DEF StopAudio, TryLeft, SInv, Calls
<1>10. CASE EndRun \/ Send \/ SendFails
  BY <1>10 DEF EndRun, Send, SendFails, SendReady
<1>11. CASE CallConnect \/ ClearQueue \/ StartVideo \/ StartAudio
  BY <1>1, <1>11 DEF CallConnect, ClearQueue, StartVideo, StartAudio, IInv, Phases
<1>12. CASE HandleStart
  BY <1>12 DEF HandleStart, SInv, Locks, IInv, Phases
<1>13. CASE HandleStop \/ CloseConnection \/ JoinPusher
  BY <1>13 DEF HandleStop, CloseConnection, JoinPusher, Take, IInv, Phases, SInv,
     Locks
<1>14. CASE \/ Application \/ StartDue \/ Record \/ DeliverSound \/ OnFrame
            \/ Pictures \/ WorkerStopsVideo \/ WorkerStopsAudio \/ UNCHANGED vars
  BY <1>14 DEF Application, StartRtmpStream, PostStart, StopRtmpStream, StartDue, Record,
     DeliverSound, OnFrame, Pictures, Encode, OfferPicture, QueuePicture,
     WorkerStopsVideo, WorkerStopsAudio, vars
<1> QED
  BY <1>3, <1>4, <1>5, <1>6, <1>7, <1>8, <1>9, <1>10, <1>11, <1>12, <1>13, <1>14
  DEF Next, Worker, Pusher

\* A push that is not stopped is up or given up after fifty steps of its
\* thread at most (Run and CallDisconnect, MAX_RETRY_TIME).
THEOREM TriesCorrect == Spec => TriesRunOut
<1>1. TInv /\ IInv /\ SInv /\ [Next]_vars =>
        [running /\ running' /\ status # "Published" =>
           \/ UNCHANGED <<status, pusher>>
           \/ TriesLeft' \in Nat /\ TriesLeft' < TriesLeft]_vars
  BY TriesLeftFalls
<1> QED BY <1>1, BoundedCorrect, PhasesCorrect, StopCorrect, PTL
        DEF Spec, TriesRunOut

\* Giving up is never silent (OnRtmpDisconnect).
THEOREM GivenUpCorrect == Spec => []GivenUpReported
<1>1. SInv => GivenUpReported BY DEF SInv, Calls, GivenUpReported
<1> QED BY <1>1, StopCorrect, PTL
=============================================================================
