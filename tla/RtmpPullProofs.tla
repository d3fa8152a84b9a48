--------------------------- MODULE RtmpPullProofs ---------------------------
(***************************************************************************)
(* What holds of RtmpPull for any number of starts and faults: its types,  *)
(* that reader and audio device have a decoder, and that the application   *)
(* is informed when its stream is taken away.                              *)
(***************************************************************************)
EXTENDS RtmpPull, SequenceTheorems, TLAPS

Messages == {"start", "stop"}

\* The retries: whoever connects has a connection, which is not made more
\* than MAX_RETRY_TIME times.
Bounded ==
  /\ puller \in {"handshake", "connect", "play", "up", "lost"} => connection
  /\ connection => retrys <= MAX_RETRY_TIME

TInv == TypeOK /\ Bounded

\* A message is posted to a queue of messages.
LEMMA PostTypes ==
  ASSUME mail \in Seq(Messages), NEW msg \in Messages
  PROVE  Post(msg) \in Seq(Messages)
BY AppendProperties DEF Post

\* What is left when one is taken.
LEMMA TakeTypes ==
  ASSUME mail \in Seq(Messages), NEW msg, Take(msg)
  PROVE  mail' \in Seq(Messages)
BY HeadTailProperties DEF Take

\* The types and the bound of the retries are kept by every step.
LEMMA BoundedCorrect == Spec => []TInv
<1>1. Init => TInv
  <2> SUFFICES ASSUME Init PROVE TInv
    OBVIOUS
  <2>1. /\ started \in BOOLEAN /\ quitting \in BOOLEAN /\ running \in BOOLEAN
        /\ connection \in BOOLEAN /\ connected \in BOOLEAN
    BY DEF Init
  <2>2. told \in BOOLEAN /\ hasty \in BOOLEAN
    BY DEF Init
  <2>3. mail \in Seq(Messages)
    BY EmptySeq DEF Init
  <2> QED BY <2>1, <2>2, <2>3, PullAssumption
          DEF Init, TInv, TypeOK, Bounded, MAX_RETRY_TIME, Messages
<1>2. TInv /\ [Next]_vars => TInv'
  <2> SUFFICES ASSUME TInv, [Next]_vars PROVE TInv'
    OBVIOUS
  <2>a. mail \in Seq(Messages)
    BY DEF TInv, TypeOK, Messages
  <2> USE <2>a, PullAssumption
      DEF TInv, TypeOK, Bounded, MAX_RETRY_TIME, Messages, guestVars,
          threadVars, linkVars, pullVars, otherVars
  <2>0. CASE StartRtmpPlay
    <3>1. started' \in BOOLEAN BY <2>0 DEF StartRtmpPlay
    <3> QED BY <2>0, <3>1 DEF StartRtmpPlay
  <2>1. CASE StartPlay
    <3>1. mail' \in Seq(Messages) BY <2>1, PostTypes DEF StartPlay
    <3>2. told' \in BOOLEAN /\ hasty' \in BOOLEAN
      BY <2>1 DEF StartPlay
    <3> QED BY <2>1, <3>1, <3>2 DEF StartPlay, PostTicks
  <2>2. CASE StopRtmpPlay
    <3>1. mail' \in Seq(Messages) BY <2>2, PostTypes DEF StopRtmpPlay, StopPlay
    <3>2. started' \in BOOLEAN /\ told' \in BOOLEAN
      BY <2>2 DEF StopRtmpPlay, StopPlay
    <3> QED BY <2>2, <3>1, <3>2 DEF StopRtmpPlay, StopPlay
  <2>3. CASE Close
    <3>1. mail' \in Seq(Messages) BY <2>3, PostTypes DEF Close, StopPlay
    <3>2. quitting' \in BOOLEAN /\ told' \in BOOLEAN BY <2>3 DEF Close, StopPlay
    <3> QED BY <2>3, <3>1, <3>2 DEF Close, StopPlay
  <2>4. CASE DeletePlayer BY <2>4 DEF DeletePlayer
  <2>5. CASE HandleStart
    <3>1. mail' \in Seq(Messages) BY <2>5, TakeTypes DEF HandleStart
    <3> QED BY <2>5, <3>1 DEF HandleStart, Take
  <2>22. CASE MakePull
    <3>1. running' \in BOOLEAN /\ connection' \in BOOLEAN /\ connected' \in BOOLEAN
      BY <2>22 DEF MakePull
    <3> QED BY <2>22, <3>1 DEF MakePull, UrlRead
  <2>6. CASE HandleStop
    <3>1. mail' \in Seq(Messages) BY <2>6, TakeTypes DEF HandleStop
    <3>2. running' \in BOOLEAN BY <2>6 DEF HandleStop
    <3> QED BY <2>6, <3>1, <3>2 DEF HandleStop, Take, DeleteDecoder
  <2>7. CASE CloseConnection BY <2>7 DEF CloseConnection
  <2>8. CASE JoinPuller
    <3>1. connection' \in BOOLEAN BY <2>8 DEF JoinPuller
    <3> QED BY <2>8, <3>1 DEF JoinPuller, DeleteDecoder
  <2>9. CASE HandleTick BY <2>9 DEF HandleTick
  <2>10. CASE PostTick BY <2>10 DEF PostTick, PostTicks
  <2>11. CASE EndPlayer
    <3>1. running' \in BOOLEAN BY <2>11 DEF EndPlayer
    <3> QED BY <2>11, <3>1 DEF EndPlayer
  <2>12. CASE NeedPlayAudio BY <2>12 DEF NeedPlayAudio
  <2>13. CASE PlayedAudio BY <2>13 DEF PlayedAudio
  <2>14. CASE EndRun BY <2>14 DEF EndRun
  <2>15. CASE BeginCall BY <2>15 DEF BeginCall, CallOf
  <2>16. CASE CallSucceeds BY <2>16 DEF CallSucceeds, StatusAfter
  <2>17. CASE CallFails BY <2>17 DEF CallFails, Fault, StatusAfter
  <2>18. CASE CallConnect
    <3>1. connected' \in BOOLEAN BY <2>18 DEF CallConnect
    <3> QED BY <2>18, <3>1 DEF CallConnect
  <2>19. CASE CallDisconnect
    <3>1. connection' \in BOOLEAN BY <2>19 DEF CallDisconnect
    <3> QED BY <2>19, <3>1 DEF CallDisconnect
  <2>20. CASE TellFailure
    <3>1. mail' \in Seq(Messages) BY <2>20, PostTypes DEF TellFailure, StopPlay
    <3>2. told' \in BOOLEAN /\ hasty' \in BOOLEAN
      BY <2>20 DEF TellFailure, StopPlay
    <3> QED BY <2>20, <3>1, <3>2 DEF TellFailure, StopPlay
  <2>21. CASE UNCHANGED vars BY <2>21 DEF vars
  <2> QED BY <2>0, <2>1, <2>2, <2>3, <2>4, <2>5, <2>6, <2>7, <2>8, <2>9,
             <2>10, <2>11, <2>12, <2>13, <2>14, <2>15, <2>16, <2>17, <2>18,
             <2>19, <2>20, <2>21, <2>22 DEF Next, Application, Player, Puller
<1> QED BY <1>1, <1>2, PTL DEF Spec

\* Types of the guest, the player and the pull, and the bound of the retries
\* (MAX_RETRY_TIME).
THEOREM TypeCorrect == Spec => []TypeOK
BY BoundedCorrect, PTL DEF TInv

-----------------------------------------------------------------------------
(* The decoder of the audio device.                                        *)

\* As long as no start overtook a stop, the device is only in its callback
\* while a stream is played, and no stop is under way then.
AudioInv ==
  ~hasty =>
    /\ audio # "away" => Playing
    /\ StopPending => ~Playing
    /\ audio # "dangling"

LEMMA AudioStep == TInv /\ AudioInv /\ [Next]_vars => AudioInv'
<1> SUFFICES ASSUME TInv, AudioInv, [Next]_vars, ~hasty' PROVE AudioInv'
  BY DEF AudioInv
<1>0. mail \in Seq(Messages) /\ hasty \in BOOLEAN
  BY DEF TInv, TypeOK, Messages
<1> USE <1>0 DEF AudioInv, Playing, guestVars, threadVars, linkVars, pullVars, otherVars
<1>23. CASE StartRtmpPlay BY <1>23 DEF StartRtmpPlay, StopPending
<1>1. CASE StartPlay
  <2>1. ~hasty /\ ~StopPending /\ player' = player
    BY <1>1 DEF StartPlay
  <2>2. ~StopPending'
    <3>1. CASE mail' = mail BY <2>1, <3>1 DEF StopPending
    <3>2. CASE mail' = Append(mail, "start")
      <4>1. \A i \in 1..Len(mail') : mail'[i] # "stop"
        BY <2>1, <3>2 DEF StopPending
      <4> QED BY <2>1, <4>1 DEF StopPending
    <3> QED BY <1>1, <3>1, <3>2 DEF StartPlay, Post
  <2> QED BY <1>1, <2>1, <2>2 DEF StartPlay
<1>2. CASE StopRtmpPlay BY <1>2 DEF StopRtmpPlay, StopPlay
<1>3. CASE Close BY <1>3 DEF Close, StopPlay
<1>4. CASE DeletePlayer BY <1>4 DEF DeletePlayer, StopPending
<1>5. ASSUME NEW msg, Take(msg), UNCHANGED <<started, app, audio, hasty>>,
             player' \notin {"closing", "joining"}
      PROVE  AudioInv'
  <2>1. StopPending' => StopPending
    <3>1. ASSUME NEW i \in 1..Len(mail'), mail'[i] = "stop"
          PROVE  StopPending
      <4>1. i + 1 \in 1..Len(mail) /\ mail[i + 1] = "stop"
        BY <1>5, <3>1 DEF Take
      <4> QED BY <4>1 DEF StopPending
    <3> QED BY <1>5, <3>1 DEF StopPending
  <2> QED BY <1>5, <2>1
<1>6. CASE HandleStart BY <1>6, <1>5 DEF HandleStart
<1>7. CASE HandleStop
  <2>1. mail[1] = "stop" /\ 1 \in 1..Len(mail)
    BY <1>7 DEF HandleStop, Take
  <2>2. StopPending BY <2>1 DEF StopPending
  <2>3. ~Playing /\ audio = "away" BY <1>7, <2>2 DEF HandleStop, TInv, TypeOK
  <2> QED BY <1>7, <2>3 DEF HandleStop, DeleteDecoder
<1>24. CASE MakePull BY <1>24 DEF MakePull, StopPending
<1>8. CASE CloseConnection BY <1>8 DEF CloseConnection, StopPending
<1>9. CASE JoinPuller
  <2>1. ~Playing /\ audio = "away"
    BY <1>9 DEF JoinPuller, StopPending, TInv, TypeOK
  <2> QED BY <1>9, <2>1 DEF JoinPuller, DeleteDecoder
<1>10. CASE HandleTick BY <1>10 DEF HandleTick, StopPending
<1>11. CASE PostTick BY <1>11 DEF PostTick, StopPending
<1>12. CASE EndPlayer BY <1>12 DEF EndPlayer, StopPending
<1>13. CASE NeedPlayAudio BY <1>13 DEF NeedPlayAudio, StopPending
<1>14. CASE PlayedAudio BY <1>14 DEF PlayedAudio, StopPending
<1>15. CASE EndRun BY <1>15 DEF EndRun, StopPending
<1>16. CASE BeginCall BY <1>16 DEF BeginCall, StopPending
<1>17. CASE CallSucceeds BY <1>17 DEF CallSucceeds, StopPending
<1>18. CASE CallFails BY <1>18 DEF CallFails, StopPending
<1>19. CASE CallConnect BY <1>19 DEF CallConnect, StopPending
<1>20. CASE CallDisconnect BY <1>20 DEF CallDisconnect, StopPending
<1>21. CASE TellFailure BY <1>21 DEF TellFailure
<1>22. CASE UNCHANGED vars BY <1>22 DEF vars, StopPending
<1> QED BY <1>1, <1>2, <1>3, <1>4, <1>6, <1>7, <1>8, <1>9, <1>10, <1>11,
           <1>12, <1>13, <1>14, <1>15, <1>16, <1>17, <1>18, <1>19, <1>20,
           <1>21, <1>22, <1>23, <1>24 DEF Next, Application, Player, Puller

\* The audio device never uses a decoder that is deleted (StopAudioTrack
\* before StopPlay), unless a start overtakes a stop or a stream is given up.
THEOREM AudioCorrect == Spec => []AudioDecoderLives
<1>1. Init => AudioInv
  BY DEF Init, AudioInv, StopPending, Playing
<1>2. AudioInv => AudioDecoderLives
  BY DEF AudioInv, AudioDecoderLives
<1> QED BY <1>1, <1>2, AudioStep, BoundedCorrect, PTL DEF Spec

-----------------------------------------------------------------------------
(* The reader's decoder, and what the application is told.                 *)

\* A stream is played, and was not reported as closed since its start.
Wanted == Playing /\ ~told

\* The queue of a guest: between two starts there is a stop, and the last
\* message is a start if the stream is still wanted.
Order ==
  /\ \A i \in 1..(Len(mail) - 1) : mail[i] = "start" => mail[i + 1] = "stop"
  /\ mail # <<>> => (Wanted <=> mail[Len(mail)] = "start")
  /\ mail # <<>> /\ pull # 0 /\ player \in {"idle", "ticked"} => mail[1] = "stop"

\* What is to be started has been asked for.
Asked ==
  /\ \A i \in 1..Len(mail) : mail[i] = "start" => url # 0
  /\ player = "making" => url # 0

\* Between decoder and pull: there is no other pull, and what came meanwhile
\* begins with a stop.
Making ==
  player = "making" =>
    /\ pull = 0 /\ decoder # 0
    /\ mail # <<>> => mail[1] = "stop"
    /\ mail = <<>> => Wanted /\ decoder = video

\* With nothing in the queue the wish is fulfilled, or about to be.
Fulfilled ==
  /\ mail = <<>> /\ ~Wanted => pull = 0 \/ player \in {"closing", "joining"}
  /\ mail = <<>> /\ Wanted =>
       \/ pull = video /\ decoder = video /\ player \in {"idle", "ticked"}
       \/ player = "making"
  /\ Wanted => ticks > 0 \/ player = "ticked"

Together ==
  /\ pull # 0 => decoder # 0
  /\ decoder # 0 => pull # 0 \/ player = "making"

\* The url is behind the renderer within StartRtmpPlay only.
Behind ==
  /\ app = "starting" => started /\ video = url + 1
  /\ app # "starting" => video = url

\* A player that quits has no application any more.
Over ==
  /\ app \in {"ready", "starting"} <=> ~quitting
  /\ quitting => ~started
  /\ player = "ended" => quitting /\ mail = <<>>

OInv == Order /\ Asked /\ Making /\ Fulfilled /\ Together /\ Behind /\ Over

LEMMA OrderStep == TInv /\ OInv /\ [Next]_vars => OInv'
<1> SUFFICES ASSUME TInv, OInv, [Next]_vars PROVE OInv'
  OBVIOUS
<1>0. /\ mail \in Seq(Messages) /\ ticks \in Nat /\ url \in Nat /\ video \in Nat
      /\ player \in {"idle", "making", "ticked", "closing", "joining", "ended"}
  BY PullAssumption DEF TInv, TypeOK, Messages
<1> USE <1>0 DEF Messages, OInv, Order, Asked, Making, Fulfilled, Together,
                 Behind, Over, Wanted, Playing, guestVars, threadVars, linkVars,
                 pullVars, otherVars
<1>1. CASE StartRtmpPlay
  <2>1. /\ ~started /\ app = "ready" /\ started' /\ app' = "starting"
        /\ video' = video + 1
        /\ UNCHANGED <<url, mail, ticks, quitting, player, decoder, pull, told>>
    BY <1>1 DEF StartRtmpPlay
  <2>2. ~Wanted /\ ~Wanted' BY <2>1
  <2> QED BY <2>1, <2>2
<1>22. CASE StartPlay
  <2>1. /\ mail' = Append(mail, "start") /\ ~quitting
        /\ ticks' = ticks + 1 /\ url' = video /\ app = "starting" /\ app' = "ready"
        /\ started /\ ~told'
        /\ UNCHANGED <<started, video, quitting, player, decoder, pull>>
    BY <1>22 DEF StartPlay, Post, PostTicks
  <2>2. ~Wanted /\ Wanted' BY <2>1
  <2>3. Order' BY <2>1, <2>2
  <2>4. Asked' BY <2>1
  <2>5. Making' BY <2>1, <2>2
  <2> QED BY <2>1, <2>2, <2>3, <2>4, <2>5
<1>2. CASE StopRtmpPlay \/ Close
  <2>1. /\ ~quitting /\ mail' = Append(mail, "stop") /\ ~started' /\ app = "ready"
        /\ (app' = "ready" /\ ~quitting') \/ (app' = "freeing" /\ quitting')
        /\ UNCHANGED <<video, url, player, decoder, pull>>
    BY <1>2 DEF StopRtmpPlay, Close, StopPlay, Post
  <2>2. ~Wanted' BY <2>1
  <2>3. Order' BY <2>1, <2>2
  <2>4. Asked' BY <2>1
  <2>5. Making' BY <2>1, <2>2
  <2> QED BY <2>1, <2>2, <2>3, <2>4, <2>5
<1>4. CASE DeletePlayer BY <1>4 DEF DeletePlayer
<1>5. CASE HandleStart
  <2>1. /\ mail # <<>> /\ mail[1] = "start" /\ mail' = Tail(mail)
        /\ player = "idle" /\ player' = "making"
        /\ UNCHANGED <<guestVars, told, ticks, quitting, pull>>
    BY <1>5 DEF HandleStart, Take
  <2>2. pull = 0 /\ decoder = 0 BY <2>1
  <2>3. decoder' = video BY <1>5, <2>2 DEF HandleStart
  <2>4. 1 \in 1..Len(mail) BY <2>1
  <2>5. url # 0 /\ video # 0 BY <2>1, <2>4
  <2>6. \A i \in 1..Len(mail') : i + 1 \in 1..Len(mail) /\ mail'[i] = mail[i + 1]
    BY <2>1
  <2>7. Asked' BY <2>1, <2>5
  <2>8. Wanted' = Wanted BY <2>1
  <2>9. Order'
    <3>1. \A i \in 1..(Len(mail') - 1) : mail'[i] = "start" => mail'[i + 1] = "stop"
      BY <2>1
    <3>2. mail' # <<>> => mail'[Len(mail')] = mail[Len(mail)]
      BY <2>1
    <3> QED BY <2>1, <2>8, <3>1, <3>2
  <2>10. mail' # <<>> => mail'[1] = "stop"
    <3>1. mail' # <<>> => mail'[1] = mail[2] BY <2>1
    <3>2. mail' # <<>> => mail[2] = "stop" BY <2>1
    <3> QED BY <3>1, <3>2
  <2>11. mail' = <<>> => Wanted
    <3>0. Len(mail') = Len(mail) - 1 BY <2>1, HeadTailProperties
    <3>1. mail' = <<>> => Len(mail) = 1 BY <3>0
    <3>2. mail' = <<>> => mail[Len(mail)] = "start" BY <2>1, <3>1
    <3> QED BY <2>1, <3>2
  <2>12. Making' BY <2>1, <2>2, <2>3, <2>5, <2>8, <2>10, <2>11
  <2>13. Fulfilled' BY <2>1, <2>2, <2>8, <2>11
  <2> QED BY <2>1, <2>2, <2>3, <2>7, <2>9, <2>12, <2>13
<1>23. CASE MakePull
  <2>1. /\ player = "making" /\ player' = "idle" /\ pull = 0 /\ decoder # 0
        /\ pull' \in {url, video, Torn} /\ (app # "starting" => pull' = url)
        /\ UNCHANGED <<guestVars, mail, ticks, quitting, decoder, told>>
    BY <1>23 DEF MakePull, UrlRead
  <2>2. pull' # 0 BY <2>1 DEF Torn
  <2>3. Wanted' = Wanted BY <2>1
  <2>4. mail = <<>> => pull' = video BY <2>1
  <2> QED BY <2>1, <2>2, <2>3, <2>4
<1>6. CASE HandleStop
  <2>1. /\ mail # <<>> /\ mail[1] = "stop" /\ mail' = Tail(mail)
        /\ player = "idle" /\ UNCHANGED <<guestVars, told, ticks, quitting, pull>>
    BY <1>6 DEF HandleStop, Take
  <2>2. /\ pull = 0 => player' = player /\ decoder' = 0
        /\ pull # 0 => player' = "closing" /\ decoder' = decoder
    BY <1>6 DEF HandleStop, DeleteDecoder
  <2>a. Wanted' = Wanted BY <2>1
  <2>3. Order'
    <3>1. \A i \in 1..(Len(mail') - 1) : mail'[i] = "start" => mail'[i + 1] = "stop"
      BY <2>1
    <3>2. mail' # <<>> => mail'[Len(mail')] = mail[Len(mail)]
      BY <2>1
    <3> QED BY <2>1, <2>2, <2>a, <3>1, <3>2
  <2>4. Fulfilled'
    <3>0. Len(mail') = Len(mail) - 1 BY <2>1, HeadTailProperties
    <3>1. mail' = <<>> => Len(mail) = 1 BY <3>0
    <3>2. mail' = <<>> => mail[Len(mail)] = "stop" BY <2>1, <3>1
    <3> QED BY <2>1, <2>2, <2>a, <3>2
  <2>5. Asked'
    <3>1. \A i \in 1..Len(mail') : i + 1 \in 1..Len(mail) /\ mail'[i] = mail[i + 1]
      BY <2>1
    <3> QED BY <2>1, <2>2, <3>1
  <2> QED BY <2>1, <2>2, <2>a, <2>3, <2>4, <2>5
<1>7. CASE CloseConnection BY <1>7 DEF CloseConnection
<1>8. CASE JoinPuller BY <1>8 DEF JoinPuller, DeleteDecoder
<1>9. CASE HandleTick BY <1>9 DEF HandleTick
<1>10. CASE PostTick BY <1>10 DEF PostTick, PostTicks
<1>11. CASE EndPlayer BY <1>11 DEF EndPlayer
<1>12. CASE NeedPlayAudio BY <1>12 DEF NeedPlayAudio
<1>13. CASE PlayedAudio BY <1>13 DEF PlayedAudio
<1>14. CASE EndRun BY <1>14 DEF EndRun
<1>15. CASE BeginCall BY <1>15 DEF BeginCall
<1>16. CASE CallSucceeds BY <1>16 DEF CallSucceeds
<1>17. CASE CallFails BY <1>17 DEF CallFails
<1>18. CASE CallConnect BY <1>18 DEF CallConnect
<1>19. CASE CallDisconnect BY <1>19 DEF CallDisconnect
<1>20. CASE TellFailure
  <2>1. /\ told' /\ UNCHANGED <<guestVars, quitting, player, decoder, pull>>
        /\ ~Wanted'
    BY <1>20 DEF TellFailure, StopPlay
  <2>2. CASE quitting
    <3>1. mail' = mail BY <1>20, <2>2 DEF TellFailure, StopPlay, Post
    <3> QED BY <2>1, <2>2, <3>1
  <2>3. CASE ~quitting
    <3>1. mail' = Append(mail, "stop")
      BY <1>20, <2>3 DEF TellFailure, StopPlay, Post
    <3>2. Order' BY <2>1, <3>1
    <3>3. Asked' BY <2>1, <3>1
    <3>4. Making' BY <2>1, <3>1
    <3> QED BY <2>1, <2>3, <3>1, <3>2, <3>3, <3>4
  <2> QED BY <2>2, <2>3
<1>21. CASE UNCHANGED vars BY <1>21 DEF vars
<1> QED BY <1>1, <1>2, <1>22, <1>23, <1>4, <1>5, <1>6, <1>7, <1>8, <1>9, <1>10,
           <1>11, <1>12, <1>13, <1>14, <1>15, <1>16, <1>17, <1>18, <1>19,
           <1>20, <1>21 DEF Next, Application, Player, Puller

LEMMA OrderCorrect == Spec => []OInv
<1>1. Init => OInv
  <2> SUFFICES ASSUME Init PROVE OInv
    OBVIOUS
  <2>1. mail = <<>> /\ Len(<<>>) = 0 BY DEF Init
  <2> QED BY <2>1 DEF Init, OInv, Order, Asked, Making, Fulfilled, Together,
                      Behind, Over, Wanted, Playing
<1> QED BY <1>1, OrderStep, BoundedCorrect, PTL DEF Spec

\* The late stop of an earlier stream never takes a started one without
\* OnRtmplayerClose, nor does a start lose its url or renderer to an earlier
\* one that is handled while it writes them.
THEOREM InformedCorrect == Spec => []Informed
<1>1. OInv => Informed
  BY DEF OInv, Fulfilled, Wanted, Informed, Quiet
<1> QED BY <1>1, OrderCorrect, PTL
-----------------------------------------------------------------------------
(* How a pull and a guest come to their ends: what PullSettles and          *)
(* CloseReturns rest on.                                                    *)

\* A pull that is being closed (~AnyRtmpPull, from PLY_STOP or from
\* ~AnyRtmplayerImpl) runs no more, and its thread is there to be joined.
Waiting ==
  /\ player \in {"closing", "joining", "ended"} => ~running
  /\ player \in {"closing", "joining"} => pull # 0
  /\ puller = "none" <=> pull = 0
  /\ puller \in {"none", "ended"} => ~running
  /\ status = "Closed" => ~running

\* A running pull without a connection is given up: the player is about to be
\* stopped, or quits.
GivenUp ==
  running /\ ~connection => puller = "telling" \/ mail # <<>> \/ quitting

\* Who reports the failure has no connection left.
Telling == running /\ puller = "telling" => ~connection /\ status = "Init"

WInv == Waiting /\ GivenUp /\ Telling

LEMMA WaitingStep == TInv /\ OInv /\ WInv /\ [Next]_vars => WInv'
<1> SUFFICES ASSUME TInv, OInv, WInv, [Next]_vars PROVE WInv'
  OBVIOUS
<1>0. /\ mail \in Seq(Messages) /\ url \in Nat /\ video \in Nat
      /\ connection \in BOOLEAN /\ running \in BOOLEAN
  BY PullAssumption DEF TInv, TypeOK, Messages
<1> USE <1>0 DEF WInv, Waiting, GivenUp, Telling, guestVars, threadVars, linkVars,
                 pullVars, otherVars
<1>1. CASE Application
  <2>1. mail # <<>> => mail' # <<>>
    BY <1>1 DEF Application, StartRtmpPlay, StartPlay, StopRtmpPlay, Close, StopPlay,
                Post
  <2>2. /\ UNCHANGED <<player, pullVars>>
        /\ quitting => quitting'
    BY <1>1 DEF Application, StartRtmpPlay, StartPlay, StopRtmpPlay, Close
  <2> QED BY <2>1, <2>2
<1>2. CASE DeletePlayer BY <1>2 DEF DeletePlayer
<1>3. CASE HandleStart
  <2>1. mail # <<>> /\ mail[1] = "start" /\ player = "idle" /\ player' = "making"
        /\ UNCHANGED pullVars
    BY <1>3 DEF HandleStart, Take
  <2>2. pull = 0 BY <2>1 DEF OInv, Order
  <2> QED BY <2>1, <2>2
<1>18. CASE MakePull
  <2>1. player = "making" /\ pull = 0 /\ url # 0 /\ video # 0
    BY <1>18 DEF MakePull, OInv, Making, Asked, Behind
  <2>2. /\ pull' \in {url, video, Torn} /\ running' /\ status' = "Init"
        /\ connection' /\ puller' = "loop" /\ player' = "idle"
    BY <1>18, <2>1 DEF MakePull, UrlRead
  <2> QED BY <2>1, <2>2 DEF Torn
<1>4. CASE HandleStop BY <1>4 DEF HandleStop, Take
<1>5. CASE CloseConnection BY <1>5 DEF CloseConnection
<1>6. CASE JoinPuller BY <1>6 DEF JoinPuller
<1>7. CASE HandleTick \/ PostTick BY <1>7 DEF HandleTick, PostTick
<1>8. CASE EndPlayer BY <1>8 DEF EndPlayer
<1>9. CASE NeedPlayAudio \/ PlayedAudio BY <1>9 DEF NeedPlayAudio, PlayedAudio
<1>10. CASE EndRun BY <1>10 DEF EndRun
<1>11. CASE BeginCall BY <1>11 DEF BeginCall, CallOf, TInv, Bounded
<1>12. CASE CallSucceeds BY <1>12 DEF CallSucceeds, StatusAfter
<1>13. CASE CallFails BY <1>13 DEF CallFails, StatusAfter
<1>14. CASE CallConnect BY <1>14 DEF CallConnect
<1>15. CASE CallDisconnect BY <1>15 DEF CallDisconnect
<1>16. CASE TellFailure BY <1>16 DEF TellFailure, StopPlay, Post
<1>17. CASE UNCHANGED vars BY <1>17 DEF vars
<1> QED BY <1>1, <1>2, <1>3, <1>4, <1>5, <1>6, <1>7, <1>8, <1>9, <1>10,
           <1>11, <1>12, <1>13, <1>14, <1>15, <1>16, <1>17, <1>18
        DEF Next, Player, Puller

LEMMA WaitingCorrect == Spec => []WInv
<1>1. Init => WInv
  BY DEF Init, WInv, Waiting, GivenUp, Telling
<1> QED BY <1>1, WaitingStep, BoundedCorrect, OrderCorrect, PTL DEF Spec

\* The thread that reads always has a decoder (PLY_START, PLY_STOP), with the
\* renderer of the stream that is played, and reads its url, unless a stop is
\* under way.
THEOREM ReaderCorrect == Spec => []ReaderHasDecoder
<1>1. TInv /\ OInv /\ WInv => ReaderHasDecoder
  <2> SUFFICES ASSUME TInv, OInv, WInv, puller # "none", ~StopPending
               PROVE  decoder # 0 /\ started /\ decoder = video /\ pull = video
    BY DEF ReaderHasDecoder, OInv, Together, WInv, Waiting
  <2>1. pull # 0 /\ decoder # 0 BY DEF WInv, Waiting, OInv, Together
  <2>2. /\ mail \in Seq(Messages)
        /\ player \in {"idle", "ticked", "ended"}
    BY <2>1 DEF TInv, TypeOK, Messages, StopPending, OInv, Making
  <2>3. mail = <<>>
    <3>1. SUFFICES ASSUME mail # <<>> PROVE FALSE
      OBVIOUS
    <3>2. mail[1] = "stop" BY <2>1, <2>2, <3>1 DEF OInv, Order, Over
    <3>3. 1 \in 1..Len(mail) BY <2>2, <3>1
    <3> QED BY <3>2, <3>3 DEF StopPending
  <2>4. Wanted BY <2>1, <2>2, <2>3 DEF OInv, Fulfilled
  <2> QED BY <2>1, <2>2, <2>3, <2>4 DEF OInv, Fulfilled, Wanted, Playing
<1> QED BY <1>1, BoundedCorrect, OrderCorrect, WaitingCorrect, PTL

\* The one whom the player waits for will let it go: the thread it joins runs
\* no more and has not been deleted.
JoinAnswered ==
  player \in {"closing", "joining"} \/ (player = "ended" /\ pull # 0) =>
    ~running /\ puller # "none"

\* ~AnyRtmpPull never joins a thread that goes on or that is not there.
THEOREM JoinCorrect == Spec => []JoinAnswered
<1>1. WInv => JoinAnswered BY DEF WInv, Waiting, JoinAnswered
<1> QED BY <1>1, WaitingCorrect, PTL

\* A pull that has no tries left is taken away: a PLY_STOP is on its way to the
\* player, or the player quits.
GivenUpStopped ==
  running /\ puller = "loop" /\ ~connection =>
    quitting \/ (\E i \in 1..Len(mail) : mail[i] = "stop")

\* Giving up (OnRtmpullFailed) has the pull deleted, whatever was posted
\* before.
THEOREM GivenUpCorrect == Spec => []GivenUpStopped
<1>1. TInv /\ OInv /\ WInv => GivenUpStopped
  <2> SUFFICES ASSUME TInv, OInv, WInv, running, puller = "loop", ~connection,
                      ~quitting
               PROVE  \E i \in 1..Len(mail) : mail[i] = "stop"
    BY DEF GivenUpStopped
  <2>1. mail \in Seq(Messages) /\ mail # <<>>
    BY DEF TInv, TypeOK, Messages, WInv, GivenUp
  <2>2. mail[1] = "stop"
    BY <2>1 DEF OInv, Order, Making, Over, WInv, Waiting, TInv, TypeOK
  <2>3. 1 \in 1..Len(mail) BY <2>1, LenProperties
  <2> QED BY <2>2, <2>3
<1> QED BY <1>1, BoundedCorrect, OrderCorrect, WaitingCorrect, PTL

\* What is left of the tries: ten steps each, and the place in a try.
TryLeft ==
  CASE puller = "loop" /\ status = "Init" /\ connection -> 8
    [] puller = "handshake" -> 7
    [] puller = "loop" /\ status = "Handshaked" -> 6
    [] puller = "connect" -> 5
    [] puller = "loop" /\ status = "Connected" -> 4
    [] puller = "play" -> 3
    [] puller = "lost" -> 2 [] puller \in {"up", "telling"} -> 1
    [] OTHER -> 0
TriesLeft == 10 * (MAX_RETRY_TIME + 1 - retrys) + TryLeft

\* Every step of a pull that has no stream uses up a part of what is left.
TriesRunOut ==
  [][running /\ running' /\ ~connected =>
       \/ UNCHANGED <<status, puller, connected>>
       \/ puller = "up" /\ connected'
       \/ TriesLeft' \in Nat /\ TriesLeft' < TriesLeft]_vars

LEMMA TriesLeftFalls ==
  TInv /\ OInv /\ WInv /\ [Next]_vars /\ running /\ running' /\ ~connected =>
    \/ UNCHANGED <<status, puller, connected>>
    \/ puller = "up" /\ connected'
    \/ TriesLeft' \in Nat /\ TriesLeft' < TriesLeft
<1> SUFFICES ASSUME TInv, OInv, WInv, [Next]_vars, running, running', ~connected
             PROVE  \/ UNCHANGED <<status, puller, connected>>
                    \/ puller = "up" /\ connected'
                    \/ TriesLeft' \in Nat /\ TriesLeft' < TriesLeft
  OBVIOUS
<1> USE DEF otherVars, pullVars, linkVars
<1>1. /\ retrys \in 0..4 /\ MAX_RETRY_TIME = 3 /\ status # "Closed"
      /\ connection => retrys <= 3
  BY DEF TInv, TypeOK, Bounded, WInv, Waiting, MAX_RETRY_TIME
<1>2. ASSUME retrys' = retrys, TryLeft \in Nat, TryLeft' \in Nat, TryLeft' < TryLeft
      PROVE  TriesLeft' \in Nat /\ TriesLeft' < TriesLeft
  <2>1. \A t, u \in Nat : t < u =>
          /\ 10 * (3 + 1 - retrys) + t \in Nat
          /\ 10 * (3 + 1 - retrys) + t < 10 * (3 + 1 - retrys) + u
    BY <1>1
  <2>2. /\ TriesLeft = 10 * (3 + 1 - retrys) + TryLeft
        /\ TriesLeft' = 10 * (3 + 1 - retrys) + TryLeft'
    BY <1>1, <1>2 DEF TriesLeft, MAX_RETRY_TIME
  <2> QED BY <1>2, <2>1, <2>2
<1>3. CASE BeginCall
  <2>1. CallOf["Init"] = "handshake" /\ CallOf["Handshaked"] = "connect"
        /\ CallOf["Connected"] = "play"
    BY DEF CallOf
  <2>2. /\ puller = "loop" /\ puller' = CallOf[status] /\ connection
        /\ status \in {"Init", "Handshaked", "Connected"}
        /\ status' = status /\ retrys' = retrys
    BY <1>3 DEF BeginCall, CallOf
  <2>3. TryLeft \in Nat /\ TryLeft' \in Nat /\ TryLeft' < TryLeft
    BY <2>1, <2>2 DEF TryLeft
  <2> QED BY <1>2, <2>2, <2>3
<1>4. CASE CallSucceeds
  <2>1. StatusAfter["handshake"] = "Handshaked" /\ StatusAfter["connect"] = "Connected"
        /\ StatusAfter["play"] = "Played"
    BY DEF StatusAfter
  <2>2. /\ puller \in {"handshake", "connect", "play"}
        /\ puller' = IF puller = "play" THEN "up" ELSE "loop"
        /\ status' = StatusAfter[puller] /\ retrys' = retrys
    BY <1>4 DEF CallSucceeds, StatusAfter
  <2>3. TryLeft \in Nat /\ TryLeft' \in Nat /\ TryLeft' < TryLeft
    BY <2>1, <2>2 DEF TryLeft
  <2> QED BY <1>2, <2>2, <2>3
<1>5. CASE CallFails BY <1>1, <1>2, <1>5 DEF CallFails, StatusAfter, TryLeft
<1>6. CASE CallConnect BY <1>6 DEF CallConnect
<1>7. CASE CallDisconnect
  <2>1. connection /\ puller = "lost" BY <1>7 DEF CallDisconnect, TInv, Bounded
  <2>2. /\ retrys' = retrys + 1
        /\ \/ puller' = "telling"
           \/ puller' = "loop" /\ status' = "Init" /\ connection'
    BY <1>1, <1>7 DEF CallDisconnect
  <2>3. TryLeft = 2 /\ TryLeft' \in {1, 8} BY <2>1, <2>2 DEF TryLeft
  <2>4. TriesLeft = 10 * (3 + 1 - retrys) + 2
    BY <1>1, <2>3 DEF TriesLeft
  <2>5. TriesLeft' = 10 * (3 + 1 - (retrys + 1)) + TryLeft'
    BY <2>2 DEF TriesLeft, MAX_RETRY_TIME
  <2>6. retrys \in 0..3 BY <1>1, <2>1
  <2>7. CASE TryLeft' = 1 BY <2>4, <2>5, <2>6, <2>7
  <2>8. CASE TryLeft' = 8 BY <2>4, <2>5, <2>6, <2>8
  <2> QED BY <2>3, <2>7, <2>8
<1>8. CASE TellFailure
  <2>1. ~connection /\ status = "Init" BY <1>8 DEF TellFailure, WInv, Telling
  <2> QED BY <1>2, <1>8, <2>1 DEF TellFailure, TryLeft
<1>9. CASE EndRun BY <1>9 DEF EndRun
<1>10. CASE HandleStart BY <1>10 DEF HandleStart
<1>13. CASE MakePull
  <2>1. pull = 0 BY <1>13 DEF MakePull, OInv, Making
  <2> QED BY <2>1 DEF WInv, Waiting
<1>11. CASE HandleStop \/ JoinPuller \/ DeletePlayer
  BY <1>11 DEF HandleStop, JoinPuller, DeletePlayer, WInv, Waiting
<1>12. CASE \/ Application \/ CloseConnection \/ HandleTick \/ PostTick \/ EndPlayer
            \/ NeedPlayAudio \/ PlayedAudio \/ UNCHANGED vars
  BY <1>12 DEF Application, StartRtmpPlay, StartPlay, StopRtmpPlay, Close,
     CloseConnection, HandleTick, PostTick, EndPlayer, NeedPlayAudio, PlayedAudio, vars
<1> QED
  BY <1>3, <1>4, <1>5, <1>6, <1>7, <1>8, <1>9, <1>10, <1>11, <1>12, <1>13
  DEF Next, Player, Puller

\* A pull that is not stopped has its stream, or is given up, after fifty
\* steps of its thread at most (Run and CallDisconnect, MAX_RETRY_TIME).
THEOREM TriesCorrect == Spec => TriesRunOut
<1>1. TInv /\ OInv /\ WInv /\ [Next]_vars =>
        [running /\ running' /\ ~connected =>
           \/ UNCHANGED <<status, puller, connected>>
           \/ puller = "up" /\ connected'
           \/ TriesLeft' \in Nat /\ TriesLeft' < TriesLeft]_vars
  BY TriesLeftFalls
<1> QED BY <1>1, BoundedCorrect, OrderCorrect, WaitingCorrect, PTL
        DEF Spec, TriesRunOut

\* What the player has left to do when the guest is deleted: the messages in
\* its queue and the ticks, then its own end; and the thread of a pull, which
\* counts once it runs no more.
PlayerPlace == [ended |-> 0, idle |-> 1, ticked |-> 2, joining |-> 2,
                closing |-> 3, making |-> 7]
PullerPlace == [none |-> 0, ended |-> 0, loop |-> 1, up |-> 2, telling |-> 2,
                lost |-> 3, handshake |-> 4, connect |-> 4, play |-> 4]
PullLeft == IF running THEN 5 ELSE PullerPlace[puller]
CloseLeft == 20 * Len(mail) + 2 * ticks + PlayerPlace[player] + PullLeft

\* Once the guest is being deleted nothing is added to that: whatever the
\* player does, and a pull that runs no more, brings the end nearer.
CloseProgress ==
  [][app = "freeing" =>
       \/ app' = "gone"
       \/ /\ UNCHANGED <<mail, ticks, player>>
          /\ running \/ puller' = puller
       \/ CloseLeft' \in Nat /\ CloseLeft' < CloseLeft]_vars

LEMMA CloseLeftFalls ==
  TInv /\ OInv /\ WInv /\ [Next]_vars /\ app = "freeing" =>
    \/ app' = "gone"
    \/ /\ UNCHANGED <<mail, ticks, player>>
       /\ running \/ puller' = puller
    \/ CloseLeft' \in Nat /\ CloseLeft' < CloseLeft
<1> SUFFICES ASSUME TInv, OInv, WInv, [Next]_vars, app = "freeing", app' # "gone"
             PROVE  \/ /\ UNCHANGED <<mail, ticks, player>>
                       /\ running \/ puller' = puller
                    \/ CloseLeft' \in Nat /\ CloseLeft' < CloseLeft
  OBVIOUS
<1> USE DEF otherVars, guestVars, threadVars, linkVars, pullVars
<1>0. /\ mail \in Seq(Messages) /\ ticks \in Nat /\ quitting
      /\ player \in {"idle", "making", "ticked", "closing", "joining", "ended"}
      /\ puller \in {"none", "loop", "handshake", "connect", "play", "up",
                     "lost", "telling", "ended"}
      /\ running \in BOOLEAN
  BY DEF TInv, TypeOK, Messages, OInv, Over
<1>1. /\ PlayerPlace["ended"] = 0 /\ PlayerPlace["idle"] = 1
      /\ PlayerPlace["ticked"] = 2 /\ PlayerPlace["joining"] = 2
      /\ PlayerPlace["closing"] = 3 /\ PlayerPlace["making"] = 7
  BY DEF PlayerPlace
<1>2. /\ PullerPlace["none"] = 0 /\ PullerPlace["ended"] = 0
      /\ PullerPlace["loop"] = 1 /\ PullerPlace["up"] = 2
      /\ PullerPlace["telling"] = 2 /\ PullerPlace["lost"] = 3
      /\ PullerPlace["handshake"] = 4 /\ PullerPlace["connect"] = 4
      /\ PullerPlace["play"] = 4
  BY DEF PullerPlace
<1>3. PlayerPlace[player] \in 0..7 /\ PullLeft \in 0..5 /\ Len(mail) \in Nat
  BY <1>0, <1>1, <1>2, LenProperties DEF PullLeft
<1>4. ASSUME Len(mail') \in Nat, ticks' \in Nat,
             PlayerPlace[player'] \in 0..7, PullLeft' \in 0..5,
             \/ Len(mail') = Len(mail) - 1 /\ ticks' <= ticks
             \/ /\ Len(mail') = Len(mail) /\ ticks' = ticks - 1
                /\ PlayerPlace[player'] <= PlayerPlace[player] + 1
                /\ PullLeft' <= PullLeft
             \/ /\ Len(mail') = Len(mail) /\ ticks' <= ticks
                /\ PlayerPlace[player'] + PullLeft' < PlayerPlace[player] + PullLeft
      PROVE  CloseLeft' \in Nat /\ CloseLeft' < CloseLeft
  <2>1. \A a, p \in 0..7 : \A c, q \in 0..5 : \A m, n, t, u \in Nat :
          \/ m = n - 1 /\ t <= u
          \/ m = n /\ t = u - 1 /\ p <= a + 1 /\ q <= c
          \/ m = n /\ t <= u /\ p + q < a + c
          => /\ 20 * m + 2 * t + p + q \in Nat
             /\ 20 * m + 2 * t + p + q < 20 * n + 2 * u + a + c
    OBVIOUS
  <2>2. /\ CloseLeft = 20 * Len(mail) + 2 * ticks + PlayerPlace[player] + PullLeft
        /\ CloseLeft' = 20 * Len(mail') + 2 * ticks' + PlayerPlace[player'] + PullLeft'
    BY DEF CloseLeft, PlayerPlace
  <2> HIDE DEF CloseLeft
  <2> QED BY <1>0, <1>3, <1>4, <2>1, <2>2
<1>5. CASE Application
  BY <1>5 DEF Application, StartRtmpPlay, StartPlay, StopRtmpPlay, Close
<1>6. CASE DeletePlayer BY <1>6 DEF DeletePlayer
<1>7. ASSUME HandleStart \/ HandleStop
      PROVE  CloseLeft' \in Nat /\ CloseLeft' < CloseLeft
  <2>1. mail # <<>> /\ mail' = Tail(mail) /\ ticks' = ticks
    BY <1>7 DEF HandleStart, HandleStop, Take
  <2>2. Len(mail') = Len(mail) - 1 /\ Len(mail') \in Nat
    BY <1>0, <2>1, HeadTailProperties, LenProperties
  <2>3. /\ player' \in {"idle", "making", "closing"} /\ running' \in BOOLEAN
        /\ puller' = puller
    BY <1>0, <1>7 DEF HandleStart, HandleStop, Take
  <2>4. PlayerPlace[player'] \in 0..7 /\ PullLeft' \in 0..5
    BY <1>0, <1>1, <1>2, <2>3 DEF PullLeft
  <2> QED BY <1>0, <1>4, <2>1, <2>2, <2>4
<1>16. CASE MakePull
  <2>1. /\ mail' = mail /\ ticks' = ticks /\ player = "making" /\ player' = "idle"
        /\ pull = 0
    BY <1>16 DEF MakePull, OInv, Making
  <2>2. ~running /\ puller = "none" /\ running' /\ puller' = "loop"
    BY <1>16, <2>1 DEF MakePull, WInv, Waiting
  <2>3. PullLeft = 0 /\ PullLeft' = 5
    BY <1>2, <2>2 DEF PullLeft
  <2> QED BY <1>0, <1>1, <1>3, <1>4, <2>1, <2>3
<1>8. CASE CloseConnection
  <2>1. /\ mail' = mail /\ ticks' = ticks /\ player = "closing"
        /\ player' = "joining" /\ PullLeft' = PullLeft
    BY <1>8 DEF CloseConnection, PullLeft
  <2> QED BY <1>0, <1>1, <1>3, <1>4, <2>1
<1>9. CASE JoinPuller
  <2>1. /\ mail' = mail /\ ticks' = ticks /\ player = "joining"
        /\ player' = "idle" /\ PullLeft' = PullLeft
    BY <1>2, <1>9 DEF JoinPuller, PullLeft
  <2> QED BY <1>0, <1>1, <1>3, <1>4, <2>1
<1>10. CASE HandleTick
  <2>1. /\ mail' = mail /\ ticks' = ticks - 1 /\ ticks' \in Nat
        /\ player = "idle" /\ player' = "ticked" /\ PullLeft' = PullLeft
    BY <1>0, <1>10 DEF HandleTick, PullLeft
  <2> QED BY <1>0, <1>1, <1>3, <1>4, <2>1
<1>11. CASE PostTick
  <2>1. /\ mail' = mail /\ ticks' = ticks
        /\ player = "ticked" /\ player' = "idle" /\ PullLeft' = PullLeft
    BY <1>0, <1>11 DEF PostTick, PostTicks, PullLeft
  <2> QED BY <1>0, <1>1, <1>3, <1>4, <2>1
<1>12. CASE EndPlayer
  <2>1. /\ mail' = mail /\ ticks' = ticks /\ player = "idle" /\ player' = "ended"
        /\ puller' = puller /\ (running' => running)
    BY <1>0, <1>12 DEF EndPlayer
  <2>2. PullerPlace[puller] \in 0..4
    BY <1>0, <1>2
  <2>3. PullLeft' \in 0..5 /\ PullLeft' <= PullLeft
    <3>1. CASE running' BY <2>1, <3>1 DEF PullLeft
    <3>2. CASE ~running'
      <4>1. PullLeft' = PullerPlace[puller]
        BY <2>1, <3>2 DEF PullLeft, PullerPlace
      <4> QED BY <1>3, <2>2, <4>1 DEF PullLeft
    <3> QED BY <3>1, <3>2
  <2> QED BY <1>0, <1>1, <1>3, <1>4, <2>1, <2>3
<1>13. CASE NeedPlayAudio \/ PlayedAudio \/ UNCHANGED vars
  BY <1>13 DEF NeedPlayAudio, PlayedAudio, vars
<1>14. ASSUME Puller, ~TellFailure
       PROVE  \/ /\ UNCHANGED <<mail, ticks, player>>
                 /\ running \/ puller' = puller
              \/ CloseLeft' \in Nat /\ CloseLeft' < CloseLeft
  <2>1. /\ mail' = mail /\ ticks' = ticks /\ player' = player /\ running' = running
    BY <1>14 DEF Puller, EndRun, BeginCall, CallSucceeds, CallFails, CallConnect,
       CallDisconnect
  <2>2. CASE running BY <2>1, <2>2
  <2>3. CASE ~running
    <3>0. \/ puller = "loop" /\ puller' = "ended"
          \/ /\ puller \in {"handshake", "connect", "play"}
             /\ puller' \in {"up", "loop", "lost"}
          \/ puller = "up" /\ puller' = "loop"
          \/ puller = "lost" /\ puller' \in {"loop", "telling"}
      BY <1>14, <2>3
      DEF Puller, EndRun, BeginCall, CallSucceeds, CallFails, CallConnect,
          CallDisconnect, StatusAfter
    <3>1. PullerPlace[puller'] \in 0..5 /\ PullerPlace[puller'] < PullerPlace[puller]
      BY <1>2, <3>0
    <3>2. PullLeft' \in 0..5 /\ PullLeft' < PullLeft
      BY <2>1, <2>3, <3>1 DEF PullLeft
    <3> QED BY <1>0, <1>3, <1>4, <2>1, <3>2
  <2> QED BY <2>2, <2>3
<1>15. CASE TellFailure
  <2>1. /\ mail' = mail /\ ticks' = 0 /\ player' = player /\ running' = running
        /\ puller = "telling" /\ puller' = "loop"
    BY <1>0, <1>15 DEF TellFailure, StopPlay, Post
  <2>2. CASE ~running
    <3>1. PullLeft' \in 0..5 /\ PullLeft' < PullLeft
      BY <1>2, <2>1, <2>2 DEF PullLeft
    <3> QED BY <1>0, <1>3, <1>4, <2>1, <3>1
  <2>3. CASE running /\ ticks = 0 BY <2>1, <2>3
  <2>4. CASE running /\ ticks > 0
    <3>1. PullLeft' = PullLeft BY <2>1, <2>4 DEF PullLeft
    <3>2. \A p \in 0..7 : \A q \in 0..5 : \A n, u \in Nat : u > 0 =>
            /\ 20 * n + 2 * 0 + p + q \in Nat
            /\ 20 * n + 2 * 0 + p + q < 20 * n + 2 * u + p + q
      OBVIOUS
    <3>3. CloseLeft' = 20 * Len(mail) + 2 * 0 + PlayerPlace[player] + PullLeft
      BY <2>1, <3>1 DEF CloseLeft
    <3> QED BY <1>0, <1>3, <2>4, <3>2, <3>3 DEF CloseLeft
  <2> QED BY <1>0, <2>2, <2>3, <2>4
<1> QED
  BY <1>5, <1>6, <1>7, <1>8, <1>9, <1>10, <1>11, <1>12, <1>13, <1>14, <1>15,
     <1>16
  DEF Next, Player, Puller

\* Deleting the guest cannot go on for ever (Thread::Stop, which lets nothing
\* more be posted): twenty steps a message, two a tick and a few more are left.
THEOREM CloseAdvances == Spec => CloseProgress
<1>1. TInv /\ OInv /\ WInv /\ [Next]_vars =>
        [app = "freeing" =>
           \/ app' = "gone"
           \/ /\ UNCHANGED <<mail, ticks, player>>
              /\ running \/ puller' = puller
           \/ CloseLeft' \in Nat /\ CloseLeft' < CloseLeft]_vars
  BY CloseLeftFalls
<1> QED BY <1>1, BoundedCorrect, OrderCorrect, WaitingCorrect, PTL
        DEF Spec, CloseProgress
=============================================================================
