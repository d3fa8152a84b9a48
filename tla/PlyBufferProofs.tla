--------------------------- MODULE PlyBufferProofs ---------------------------
(***************************************************************************)
(* What holds of PlyBuffer for groups of pictures, lists and skews of any  *)
(* size: its types with the lag of the decoder, that a pause stops the     *)
(* clock of a stream without sound, and that buffering is bounded.         *)
(***************************************************************************)
EXTENDS PlyBuffer, TLAPS

\* What the decoder has not got round to is part of the group of pictures
\* that is under way, or the whole of the one before.
Lag == queue <= IF phase = 0 THEN Gop ELSE phase

TInv == TypeOK /\ Lag

\* Types, and the lag, are kept by every step.
LEMMA LagCorrect == Spec => []TInv
<1>1. Init => TInv
  <2> SUFFICES ASSUME Init PROVE TInv
    OBVIOUS
  <2>1. begun \in BOOLEAN /\ gotAudio \in BOOLEAN
    BY DEF Init
  <2>2. checked \in BOOLEAN /\ heard \in BOOLEAN
    BY DEF Init
  <2> QED BY <2>1, <2>2, CacheAssumption
          DEF Init, TInv, TypeOK, Lag, PLY_MAX_DELAY, Second
<1>2. TInv /\ [Next]_vars => TInv'
  <2> SUFFICES ASSUME TInv, [Next]_vars PROVE TInv'
    OBVIOUS
  <2> USE CacheAssumption
      DEF TInv, TypeOK, Lag, PLY_MAX_DELAY, PLY_RED_TIME, Second,
          listVars, startVars, decodeVars, cacheVars, SpanOf, FirstSound
  <2>1. CASE CacheH264Data
    <3>1. begun' \in BOOLEAN BY <2>1 DEF CacheH264Data
    <3> QED BY <2>1, <3>1 DEF CacheH264Data
  <2>2. CASE CachePcmData
    <3>1. begun' \in BOOLEAN /\ gotAudio' \in BOOLEAN BY <2>2 DEF CachePcmData
    <3> QED BY <2>2, <3>1 DEF CachePcmData
  <2>3. CASE GetPlayAudio
    <3>1. heard' \in BOOLEAN BY <2>3 DEF GetPlayAudio
    <3> QED BY <2>3, <3>1 DEF GetPlayAudio, ClockAfterSound
  <2>4. CASE DecodeFast
    <3>1. checked' \in BOOLEAN BY <2>4 DEF DecodeFast, Turn
    <3> QED BY <2>4, <3>1 DEF DecodeFast, Turn
  <2>5. CASE Measure
    <3>1. checked' \in BOOLEAN BY <2>5 DEF Measure, Turn
    <3> QED BY <2>5, <3>1 DEF Measure, Turn, PlayClock
  <2>6. CASE Release
    <3>1. /\ video' \in 0..MaxList /\ phase' \in 0..(Gop - 1)
          /\ soundClock' \in Int /\ sysClock' \in Int
          /\ queue' \in 0..Gop /\ Lag'
      <4>1. CASE PictureDue
        <5>1. TakePicture BY <2>6, <4>1 DEF Release
        <5> QED BY <4>1, <5>1 DEF PictureDue, TakePicture, OnNeedDecodeData
      <4>2. CASE ~PictureDue BY <2>6, <4>2 DEF Release
      <4> QED BY <4>1, <4>2
    <3>2. /\ status' \in {"Fast", "Normal", "Cache"} /\ pausedAt' \in Int
          /\ cacheTime' \in Nat /\ cacheDelta' \in Nat /\ wait' \in Nat
      BY <2>6, <3>1 DEF Release, Pause
    <3> QED BY <2>6, <3>1, <3>2 DEF Release
  <2>7. CASE DecodeCache
    <3>1. checked' \in BOOLEAN BY <2>7 DEF DecodeCache, Turn
    <3>2. LongestHalved \in Nat /\ PutBack(TRUE) \in Int
      BY DEF LongestHalved, PutBack
    <3> QED BY <2>7, <3>1, <3>2 DEF DecodeCache, Turn, PutBack
  <2>8. CASE Decode BY <2>8 DEF Decode
  <2>9. CASE Tick
    <3>1. checked' \in BOOLEAN /\ heard' \in BOOLEAN BY <2>9 DEF Tick
    <3> QED BY <2>9, <3>1 DEF Tick, Min2
  <2>10. CASE UNCHANGED vars BY <2>10 DEF vars
  <2> QED BY <2>1, <2>2, <2>3, <2>4, <2>5, <2>6, <2>7, <2>8, <2>9, <2>10
          DEF Next, Arrive, DoDecode
<1> QED BY <1>1, <1>2, PTL DEF Spec

\* Types, and: what the decoder has to decode is never more than a group of
\* pictures (OnNeedDecodeData).
THEOREM TypeCorrect == Spec => []TypeOK
BY LagCorrect, PTL DEF TInv

-----------------------------------------------------------------------------
(* The length of buffering.                                                *)

\* cache_delta_ doubles from 1 until it meets PLY_MAX_CACHE exactly, and is
\* put back from there as soon as playing goes on.
Doubling ==
  /\ cacheDelta \in {1, 2, 4, 8, 16} /\ cacheDelta <= PLY_MAX_CACHE
  /\ 2 * cacheTime <= PLY_MAX_CACHE * Second
  /\ status = "Fast" => cacheDelta = 1
  /\ status = "Normal" => cacheDelta < PLY_MAX_CACHE
  /\ decode = "release" => status = "Normal"

\* With the code's PLY_MAX_CACHE, 16, the player never waits for more than 8 s;
\* the bound is half of it for every smaller power of two as well.
THEOREM CacheCorrect ==
  PLY_MAX_CACHE \in {2, 4, 8, 16} => (Spec => []CacheBounded)
<1> SUFFICES ASSUME PLY_MAX_CACHE \in {2, 4, 8, 16} PROVE Spec => []CacheBounded
  OBVIOUS
<1> USE DEF Doubling, PLY_RED_TIME, Second
<1>1. Init => Doubling
  BY DEF Init
<1>2. TInv /\ Doubling /\ [Next]_vars => Doubling'
  <2> SUFFICES ASSUME TInv, Doubling, [Next]_vars PROVE Doubling'
    OBVIOUS
  <2> USE DEF TInv, TypeOK, cacheVars, decodeVars
  <2>1. CASE CacheH264Data BY <2>1 DEF CacheH264Data
  <2>2. CASE CachePcmData BY <2>2 DEF CachePcmData
  <2>3. CASE GetPlayAudio BY <2>3 DEF GetPlayAudio
  <2>4. CASE DecodeFast BY <2>4 DEF DecodeFast, Turn
  <2>5. CASE Measure BY <2>5 DEF Measure, Turn
  <2>6. CASE Release BY <2>6 DEF Release, Pause
  <2>7. CASE DecodeCache BY <2>7 DEF DecodeCache, Turn, LongestHalved
  <2>8. CASE Decode BY <2>8 DEF Decode
  <2>9. CASE Tick BY <2>9 DEF Tick
  <2>10. CASE UNCHANGED vars BY <2>10 DEF vars
  <2> QED BY <2>1, <2>2, <2>3, <2>4, <2>5, <2>6, <2>7, <2>8, <2>9, <2>10
          DEF Next, Arrive, DoDecode
<1>3. TInv /\ Doubling => CacheBounded
  BY DEF TInv, TypeOK, CacheBounded
<1> QED BY <1>1, <1>2, <1>3, LagCorrect, PTL DEF Spec

-----------------------------------------------------------------------------
(* The clock of a stream without sound.                                    *)

\* In a pause the clock is ahead of where playing stopped by what has been
\* waited of cache_time_; the end of a wait is seen in the turn it comes.
Waiting ==
  /\ status # "Fast" => begun
  /\ cacheTime > 0 /\ cacheDelta > 0
  /\ decode = "release" => status = "Normal"
  /\ status = "Cache" => wait > 0 \/ ~checked
  /\ status = "Cache" /\ ~gotAudio =>
       sysClock + wait = pausedAt + cacheTime

LEMMA WaitingStep == TInv /\ Waiting /\ [Next]_vars => Waiting'
<1> SUFFICES ASSUME TInv, Waiting, [Next]_vars PROVE Waiting'
  OBVIOUS
<1> USE CacheAssumption
    DEF TInv, TypeOK, Waiting, PLY_RED_TIME, Second, cacheVars, decodeVars,
        startVars
<1>1. CASE CacheH264Data BY <1>1 DEF CacheH264Data
<1>2. CASE CachePcmData BY <1>2 DEF CachePcmData
<1>3. CASE GetPlayAudio BY <1>3 DEF GetPlayAudio
<1>4. CASE DecodeFast BY <1>4 DEF DecodeFast, Turn
<1>5. CASE Measure BY <1>5 DEF Measure, Turn
<1>6. CASE Release
  <2>1. sysClock' \in Int
    BY <1>6 DEF Release, TakePicture
  <2> QED BY <1>6, <2>1 DEF Release, Pause
<1>7. CASE DecodeCache BY <1>7 DEF DecodeCache, Turn, LongestHalved, PutBack
<1>8. CASE Decode BY <1>8 DEF Decode
<1>9. CASE Tick BY <1>9 DEF Tick
<1>10. CASE UNCHANGED vars BY <1>10 DEF vars
<1> QED BY <1>1, <1>2, <1>3, <1>4, <1>5, <1>6, <1>7, <1>8, <1>9, <1>10
        DEF Next, Arrive, DoDecode

\* Without sound playing goes on where it stopped, however often a wait had
\* to be repeated (sys_fast_video_time_ += cache_time_).
THEOREM PauseCorrect == Spec => PauseStopsClock
<1>1. Init => Waiting
  BY DEF Init, Waiting, Second
<1>2. TInv /\ Waiting /\ [Next]_vars =>
        [status = "Cache" /\ status' = "Normal" /\ ~gotAudio =>
           sysClock' = pausedAt]_vars
  <2> SUFFICES ASSUME TInv, Waiting, [Next]_vars,
                      status = "Cache", status' = "Normal", ~gotAudio
               PROVE  sysClock' = pausedAt
    OBVIOUS
  <2>1. DecodeCache
    BY DEF TInv, TypeOK, Waiting, Next, Arrive, DoDecode, CacheH264Data, CachePcmData,
           GetPlayAudio, DecodeFast, Measure, Release, Decode, Tick, Turn, vars,
           Pause
  <2> QED BY <2>1 DEF TInv, TypeOK, Waiting, DecodeCache, Turn, PutBack
<1> QED BY <1>1, <1>2, WaitingStep, LagCorrect, PTL DEF Spec, PauseStopsClock

-----------------------------------------------------------------------------
(* Sound and picture.                                                      *)

\* Before any sound has come the clock of the sound stands at the first
\* picture, and, with at most two pictures ahead of the sound, playing stops
\* at the first that leaves.
Soundless ==
  stream = "av" /\ ~gotAudio =>
    /\ audio = 0 /\ ahead >= -Skew
    /\ soundClock <= 0 /\ soundClock = ahead + video
    /\ status = "Normal" => soundClock = 0
    /\ decode = "release" => span <= PLY_RED_TIME

\* Sound is played in its order, so that the clock only rises while DoDecode
\* is between its looks at the two lists.
Clock ==
  /\ stream = "video" => ~gotAudio
  /\ stream = "audio" => video = 0
  /\ stream = "av" =>
       /\ soundClock <= ahead - audio + video
       /\ status = "Fast" => soundClock = 0 /\ video <= -ahead + audio
       /\ status = "Fast" /\ gotAudio => audio > 0
       /\ decode = "release" => playTime <= soundClock \/ soundClock >= 0
  /\ cacheTime >= Second /\ cacheDelta > 0
  /\ decode = "release" => status = "Normal"

SInv == Soundless /\ Clock

LEMMA ClockStep ==
  ASSUME Skew <= 2 PROVE TInv /\ SInv /\ [Next]_vars => SInv'
<1> SUFFICES ASSUME TInv, SInv, [Next]_vars PROVE SInv'
  OBVIOUS
<1> USE CacheAssumption
    DEF TInv, TypeOK, SInv, Soundless, Clock, PLY_RED_TIME, Second, SpanOf,
        FirstSound, listVars, startVars, cacheVars, decodeVars
<1>1. CASE CacheH264Data BY <1>1 DEF CacheH264Data
<1>2. CASE CachePcmData BY <1>2 DEF CachePcmData
<1>3. CASE GetPlayAudio BY <1>3 DEF GetPlayAudio, ClockAfterSound
<1>4. CASE DecodeFast BY <1>4 DEF DecodeFast, Turn, EnoughSound, OnlyPictures
<1>5. CASE Measure BY <1>5 DEF Measure, Turn, PlayClock, ByPictures
<1>6. CASE Release
  <2>1. CASE PictureDue
    <3>1. TakePicture BY <1>6, <2>1 DEF Release
    <3> QED BY <1>6, <2>1, <3>1 DEF Release, Pause, PictureDue, TakePicture
  <2>2. CASE ~PictureDue BY <1>6, <2>2 DEF Release, Pause
  <2> QED BY <2>1, <2>2
<1>7. CASE DecodeCache
  BY <1>7 DEF DecodeCache, Turn, LongestHalved, Buffered, ByPictures
<1>8. CASE Decode BY <1>8 DEF Decode
<1>9. CASE Tick BY <1>9 DEF Tick
<1>10. CASE UNCHANGED vars BY <1>10 DEF vars
<1> QED BY <1>1, <1>2, <1>3, <1>4, <1>5, <1>6, <1>7, <1>8, <1>9, <1>10
        DEF Next, Arrive, DoDecode

\* No picture is ahead of its sound (PS_Normal of DoDecode), if sound and
\* picture arrive at most half a second apart.
THEOREM PictureCorrect == Skew <= 2 => (Spec => PictureAfterSound)
<1> SUFFICES ASSUME Skew <= 2 PROVE Spec => PictureAfterSound
  OBVIOUS
<1>1. Init => SInv
  BY CacheAssumption DEF Init, SInv, Soundless, Clock, Second
<1>2. TInv /\ SInv /\ [Next]_vars => SInv'
  BY ClockStep
<1>3. TInv /\ SInv /\ [Next]_vars =>
        [gotAudio /\ video' < video => soundClock >= 0]_vars
  <2> SUFFICES ASSUME TInv, SInv, [Next]_vars, gotAudio, video' < video
               PROVE  soundClock >= 0
    OBVIOUS
  <2>1. video' # video /\ video' # video + 1
    BY DEF TInv, TypeOK
  <2>2. Release
    BY <2>1 DEF Next, Arrive, DoDecode, CacheH264Data, CachePcmData, GetPlayAudio,
                DecodeFast, Measure, DecodeCache, Decode, Tick, vars, listVars
  <2>3. PictureDue
    BY <2>1, <2>2 DEF Release, TInv, TypeOK
  <2> QED BY <2>2, <2>3 DEF Release, PictureDue, TInv, TypeOK, SInv, Clock
<1> QED BY <1>1, <1>2, <1>3, LagCorrect, PTL DEF Spec, PictureAfterSound

-----------------------------------------------------------------------------
(* What PlayingGoesOn and PictureLeaves rest on.                           *)

\* The clock of the sound is the time of the sound that is next to be played,
\* or was just played: pictures are measured by the sound that is heard.
InStep == stream = "av" => soundClock \in {FirstSound - 1, FirstSound}

\* Until playing starts nothing has left a list.
Unplayed == status = "Fast" => soundClock = 0 /\ FirstSound = 0

\* Sound and pictures stay in step through late sound, pauses and streams that
\* run dry (play_cur_time_): the next picture waits for as many packets of
\* sound as are before it, and each that is taken brings it one nearer.
THEOREM StepCorrect == Spec => []InStep
<1> DEFINE Inv == InStep /\ Unplayed /\ (decode = "release" => status = "Normal")
<1>1. Init => Inv
  BY DEF Init, InStep, Unplayed, FirstSound
<1>2. TInv /\ Inv /\ [Next]_vars => Inv'
  <2> SUFFICES ASSUME TInv, Inv, [Next]_vars PROVE Inv'
    OBVIOUS
  <2> USE DEF TInv, TypeOK, InStep, Unplayed, FirstSound, listVars, startVars,
              cacheVars, decodeVars
  <2>1. CASE CacheH264Data BY <2>1 DEF CacheH264Data
  <2>2. CASE CachePcmData BY <2>2 DEF CachePcmData
  <2>3. CASE GetPlayAudio BY <2>3 DEF GetPlayAudio, ClockAfterSound
  <2>4. CASE DecodeFast BY <2>4 DEF DecodeFast, Turn
  <2>5. CASE Measure BY <2>5 DEF Measure, Turn
  <2>6. CASE Release
    <3>1. CASE PictureDue
      <4>1. TakePicture BY <2>6, <3>1 DEF Release
      <4> QED BY <2>6, <3>1, <4>1 DEF Release, Pause, TakePicture
    <3>2. CASE ~PictureDue BY <2>6, <3>2 DEF Release, Pause
    <3> QED BY <3>1, <3>2
  <2>7. CASE DecodeCache BY <2>7 DEF DecodeCache, Turn
  <2>8. CASE Decode BY <2>8 DEF Decode
  <2>9. CASE Tick BY <2>9 DEF Tick
  <2>10. CASE UNCHANGED vars BY <2>10 DEF vars
  <2> QED BY <2>1, <2>2, <2>3, <2>4, <2>5, <2>6, <2>7, <2>8, <2>9, <2>10
          DEF Next, Arrive, DoDecode
<1> QED BY <1>1, <1>2, LagCorrect, PTL DEF Spec

\* What is missing of what a pause waits for, and the turns and ticks that
\* are left of the wait.
Missing ==
  LET length == IF gotAudio THEN audio ELSE video
  IN IF length >= cacheTime THEN 0 ELSE cacheTime - length
WaitLeft == 2 * wait + (IF checked THEN 0 ELSE 1)

\* A pause only gets nearer to its end: nothing that was buffered is lost, what
\* comes is counted, and once enough is there every turn and every tick brings
\* the end of the wait nearer and the last one ends it.  The first sound of a
\* stream starts the count again, for from then on only sound counts.
PauseAdvances ==
  status = "Cache" =>
    \/ status' = "Normal"
    \/ gotAudio' # gotAudio
    \/ /\ status' = "Cache" /\ cacheTime' = cacheTime
       /\ Missing' <= Missing
       /\ CachePcmData \/ (CacheH264Data /\ ~gotAudio) =>
            Missing' = IF Missing = 0 THEN 0 ELSE Missing - 1
       /\ Missing = 0 => WaitLeft' <= WaitLeft
       /\ Missing = 0 /\ (Tick \/ DecodeCache) => WaitLeft' < WaitLeft

\* Sound that has not come is not in the list, and a pause waits for more
\* than a packet.
NoSoundYet ==
  /\ ~gotAudio => audio = 0
  /\ cacheTime > 1 /\ cacheDelta > 0

\* No pause is without end if the stream goes on (PS_Cache of DoDecode).
THEOREM PauseAdvancesCorrect == Spec => [][PauseAdvances]_vars
<1>1. Init => Waiting /\ NoSoundYet
  BY DEF Init, Waiting, NoSoundYet, Second
<1>2. TInv /\ Waiting /\ NoSoundYet /\ [Next]_vars => NoSoundYet'
  <2> SUFFICES ASSUME TInv, Waiting, NoSoundYet, [Next]_vars PROVE NoSoundYet'
    OBVIOUS
  <2> USE CacheAssumption
      DEF TInv, TypeOK, Waiting, NoSoundYet, Second, listVars, startVars,
          cacheVars, decodeVars
  <2>1. CASE CacheH264Data BY <2>1 DEF CacheH264Data
  <2>2. CASE CachePcmData BY <2>2 DEF CachePcmData
  <2>3. CASE GetPlayAudio BY <2>3 DEF GetPlayAudio
  <2>4. CASE DecodeFast BY <2>4 DEF DecodeFast, Turn
  <2>5. CASE Measure BY <2>5 DEF Measure, Turn
  <2>6. CASE Release BY <2>6 DEF Release, Pause
  <2>7. CASE DecodeCache BY <2>7 DEF DecodeCache, Turn, LongestHalved
  <2>8. CASE Decode BY <2>8 DEF Decode
  <2>9. CASE Tick BY <2>9 DEF Tick
  <2>10. CASE UNCHANGED vars BY <2>10 DEF vars
  <2> QED BY <2>1, <2>2, <2>3, <2>4, <2>5, <2>6, <2>7, <2>8, <2>9, <2>10
          DEF Next, Arrive, DoDecode
<1>3. TInv /\ Waiting /\ NoSoundYet /\ [Next]_vars => [PauseAdvances]_vars
  <2> SUFFICES ASSUME TInv, Waiting, NoSoundYet, Next, vars' # vars,
                      status = "Cache", status' # "Normal", gotAudio' = gotAudio
               PROVE  /\ status' = "Cache" /\ cacheTime' = cacheTime
                      /\ Missing' <= Missing
                      /\ CachePcmData \/ (CacheH264Data /\ ~gotAudio) =>
                           Missing' = IF Missing = 0 THEN 0 ELSE Missing - 1
                      /\ Missing = 0 => WaitLeft' <= WaitLeft
                      /\ Missing = 0 /\ (Tick \/ DecodeCache) => WaitLeft' < WaitLeft
    BY DEF PauseAdvances
  <2>0. /\ audio \in Nat /\ video \in Nat /\ cacheTime \in Nat /\ wait \in Nat
        /\ cacheTime > 1
        /\ Missing \in Nat /\ WaitLeft \in Nat
    BY DEF TInv, TypeOK, NoSoundYet, Missing, WaitLeft
  <2>1. CASE CacheH264Data
    <3>1. /\ status' = "Cache" /\ cacheTime' = cacheTime /\ wait' = wait
          /\ video' = video + 1 /\ audio' = audio
      BY <2>1 DEF CacheH264Data, listVars, cacheVars
    <3>2. checked' = checked /\ gotAudio' = gotAudio
      BY <2>1 DEF CacheH264Data
    <3>3. WaitLeft' = WaitLeft BY <3>1, <3>2 DEF WaitLeft
    <3>4. CASE gotAudio
      <4>1. Missing' = Missing BY <3>1, <3>2, <3>4 DEF Missing
      <4>2. ~CachePcmData /\ ~Tick /\ ~DecodeCache
        BY <2>0, <3>1 DEF CachePcmData, Tick, DecodeCache, listVars
      <4> QED BY <2>0, <3>1, <3>3, <3>4, <4>1, <4>2
    <3>5. CASE ~gotAudio
      <4>1. Missing' = IF Missing = 0 THEN 0 ELSE Missing - 1
        BY <2>0, <3>1, <3>2, <3>5 DEF Missing
      <4>2. ~Tick /\ ~DecodeCache
        BY <2>0, <3>1 DEF Tick, DecodeCache, listVars
      <4> QED BY <2>0, <3>1, <3>3, <4>1, <4>2
    <3> QED BY <3>4, <3>5
  <2>2. CASE CachePcmData
    <3>1. /\ status' = "Cache" /\ cacheTime' = cacheTime /\ wait' = wait
          /\ audio' = audio + 1
      BY <2>2 DEF CachePcmData, cacheVars
    <3>2. checked' = checked /\ gotAudio /\ gotAudio'
      BY <2>2 DEF CachePcmData
    <3>3. WaitLeft' = WaitLeft BY <3>1, <3>2 DEF WaitLeft
    <3>4. Missing' = IF Missing = 0 THEN 0 ELSE Missing - 1
      BY <2>0, <3>1, <3>2 DEF Missing
    <3>5. ~Tick /\ ~DecodeCache
      BY <2>0, <3>1 DEF Tick, DecodeCache, listVars
    <3> QED BY <2>0, <3>1, <3>3, <3>4, <3>5
  <2>3. CASE DecodeCache
    <3>1. /\ cacheTime' = cacheTime /\ audio' = audio /\ video' = video
          /\ status' \in {"Normal", "Cache"}
      BY <2>3 DEF DecodeCache, listVars
    <3>2. gotAudio' = gotAudio /\ checked'
      BY <2>3 DEF DecodeCache, Turn, startVars
    <3>3. Missing' = Missing BY <3>1, <3>2 DEF Missing
    <3>4. ~CachePcmData /\ ~CacheH264Data
      BY <2>0, <3>1 DEF CachePcmData, CacheH264Data
    <3>5. CASE wait > 0
      <4>1. wait' = wait BY <2>3, <3>5 DEF DecodeCache, cacheVars
      <4>2. ~checked
        <5>1. SUFFICES ASSUME checked PROVE FALSE
          OBVIOUS
        <5>2. checked' = checked
          BY <2>3, <5>1 DEF DecodeCache, Turn, TInv, TypeOK
        <5>3. UNCHANGED <<status, cacheDelta, wait, sysClock>>
          BY <2>3, <3>5 DEF DecodeCache
        <5> QED BY <2>3, <5>2, <5>3 DEF DecodeCache, vars, cacheVars
      <4>3. WaitLeft' = WaitLeft - 1
        BY <2>0, <3>2, <4>1, <4>2 DEF WaitLeft
      <4> QED BY <2>0, <3>1, <3>3, <3>4, <4>3
    <3>6. CASE ~(wait > 0)
      <4>1. ~(Buffered >= cacheTime - PLY_RED_TIME)
        BY <2>3, <3>6 DEF DecodeCache
      <4>2. CASE gotAudio
        <5>1. Buffered = SpanOf(audio) BY <4>2 DEF Buffered, ByPictures
        <5> QED BY <2>0, <3>1, <3>3, <3>4, <4>1, <4>2, <5>1
                DEF Missing, SpanOf, PLY_RED_TIME
      <4>3. CASE ~gotAudio
        <5>1. Buffered = SpanOf(video)
          BY <4>3 DEF Buffered, ByPictures, NoSoundYet, SpanOf
        <5> QED BY <2>0, <3>1, <3>3, <3>4, <4>1, <4>3, <5>1
                DEF Missing, SpanOf, PLY_RED_TIME
      <4> QED BY <4>2, <4>3
    <3> QED BY <3>5, <3>6
  <2>4. CASE Decode
    <3>1. /\ status' = "Cache" /\ cacheTime' = cacheTime /\ wait' = wait
          /\ audio' = audio /\ video' = video
      BY <2>4 DEF Decode, listVars, cacheVars
    <3>2. checked' = checked BY <2>4 DEF Decode
    <3>3. Missing' = Missing /\ WaitLeft' = WaitLeft
      BY <3>1, <3>2 DEF Missing, WaitLeft
    <3>4. ~CachePcmData /\ ~CacheH264Data
      BY <2>0, <3>1 DEF CachePcmData, CacheH264Data
    <3>5. ~Tick /\ ~DecodeCache
      <4>1. queue' # queue BY <2>4 DEF Decode, TInv, TypeOK
      <4> QED BY <4>1 DEF Tick, DecodeCache
    <3> QED BY <2>0, <3>1, <3>3, <3>4, <3>5
  <2>5. CASE Tick
    <3>1. /\ status' = "Cache" /\ cacheTime' = cacheTime
          /\ audio' = audio /\ video' = video
      BY <2>5 DEF Tick, listVars
    <3>2. wait > 0 /\ wait' = wait - 1 /\ checked /\ ~checked'
      BY <2>0, <2>5 DEF Tick, Waiting
    <3>3. Missing' = Missing BY <3>1 DEF Missing
    <3>4. WaitLeft' = WaitLeft - 1 BY <2>0, <3>2 DEF WaitLeft
    <3>5. ~CachePcmData /\ ~CacheH264Data
      BY <2>0, <3>1 DEF CachePcmData, CacheH264Data
    <3> QED BY <2>0, <3>1, <3>3, <3>4, <3>5
  <2>6. ~GetPlayAudio /\ ~DecodeFast /\ ~Measure /\ ~Release
    BY DEF GetPlayAudio, DecodeFast, Measure, Release, Turn, TInv, Waiting
  <2> QED BY <2>1, <2>2, <2>3, <2>4, <2>5, <2>6 DEF Next, Arrive, DoDecode
<1> QED BY <1>1, <1>2, <1>3, WaitingStep, LagCorrect, PTL DEF Spec
=============================================================================
