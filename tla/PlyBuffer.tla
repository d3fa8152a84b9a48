------------------------------ MODULE PlyBuffer ------------------------------
(***************************************************************************)
(* The jitter buffer of the player and the queue of its decoder.           *)
(*                                                                         *)
(* The thread of AnyRtmpPull adds pictures and sound to two lists; the     *)
(* audio device takes sound; a message every 5 ms (PB_TICK) on the thread  *)
(* of PlyDecoder decides between playing and buffering and hands pictures  *)
(* that are due to the decoder's own queue.                                *)
(*                                                                         *)
(* Time is counted in PLY_RED_TIME, 250 ms.  A list is its length, for the *)
(* timestamps of a stream follow each other: one packet stands for 250 ms. *)
(* Clocks are relative to the timestamp of the next picture to leave the   *)
(* list, so that a stream may go on for ever.                              *)
(***************************************************************************)
EXTENDS Integers

CONSTANTS
  PLY_MAX_CACHE, (* seconds; 16 in the code                                *)
  Gop,           (* pictures from one key frame to the next                *)
  MaxList,       (* bound: packets in a list                               *)
  Skew           (* bound: sound and picture that arrive apart             *)

PLY_RED_TIME == 1
PLY_MAX_DELAY == 4
Second == 4

ASSUME CacheAssumption ==
  /\ PLY_MAX_CACHE \in Nat /\ PLY_MAX_CACHE > 1
  /\ Gop \in Nat /\ Gop > 1
  /\ MaxList \in Nat /\ Skew \in Nat

VARIABLES
  stream,      (* what the server sends                                    *)
  begun,       (* sys_fast_video_time_ # 0                                 *)
  gap,         (* time since then, as far as it matters                    *)
  gotAudio,    (* got_audio_                                               *)
  audio,       (* length of lst_audio_buffer_                              *)
  video,       (* length of lst_video_buffer_                              *)
  ahead,       (* how far arrived sound is ahead of arrived pictures       *)
  phase,       (* the next picture's place after its key frame             *)
  status,      (* ply_status_, and playing_ of PlyDecoder                  *)
  soundClock,  (* play_cur_time_                                           *)
  sysClock,    (* rtmp_fast_video_time_ + time - sys_fast_video_time_,     *)
               (* which counts while no sound has come                     *)
  decode,      (* DoDecode: idle, or between its looks at the two lists    *)
  span,        (* media_buf_time                                           *)
  playTime,    (* play_video_time                                          *)
  cacheTime,   (* cache_time_                                              *)
  cacheDelta,  (* cache_delta_                                             *)
  wait,        (* rtmp_cache_time_ - time                                  *)
  checked,     (* DoDecode has run in this unit of time                    *)
  heard,       (* the audio device has taken its sound of this unit        *)
  queue,       (* length of lst_h264_buffer_                               *)
  pausedAt     (* sysClock when playing stopped (history)                  *)

listVars == <<audio, video, ahead, phase>>
startVars == <<begun, gap, gotAudio>>
decodeVars == <<decode, span, playTime>>
cacheVars == <<cacheTime, cacheDelta, wait>>
vars == <<stream, startVars, listVars, status, soundClock, sysClock,
          decodeVars, cacheVars, checked, heard, queue, pausedAt>>

\* The decoder never lags by more than a group of pictures ("Skip all buffer
\* data, beacause decode is so slow").
TypeOK ==
  /\ stream \in {"av", "video", "audio"}
  /\ begun \in BOOLEAN /\ gap \in 0..PLY_MAX_DELAY /\ gotAudio \in BOOLEAN
  /\ audio \in 0..MaxList /\ video \in 0..MaxList
  /\ ahead \in Int /\ phase \in 0..(Gop - 1)
  /\ status \in {"Fast", "Normal", "Cache"}
  /\ soundClock \in Int /\ sysClock \in Int
  /\ decode \in {"idle", "release"} /\ span \in Nat /\ playTime \in Int
  /\ cacheTime \in Nat /\ cacheDelta \in Nat /\ wait \in Nat
  /\ checked \in BOOLEAN /\ heard \in BOOLEAN /\ queue \in 0..Gop /\ pausedAt \in Int

Init ==
  /\ stream \in {"av", "video", "audio"}
  /\ begun = FALSE /\ gap = 0 /\ gotAudio = FALSE
  /\ audio = 0 /\ video = 0 /\ ahead = 0 /\ phase = 0
  /\ status = "Fast"
  /\ soundClock = 0 /\ sysClock = 0
  /\ decode = "idle" /\ span = 0 /\ playTime = 0
  /\ cacheTime = Second /\ cacheDelta = 1 /\ wait = 0
  /\ checked = FALSE /\ heard = FALSE /\ queue = 0 /\ pausedAt = 0

\* back()->_dts - front()->_dts
SpanOf(length) == IF length = 0 THEN 0 ELSE length - 1
\* The timestamp of the first sound in the list, less that of the next
\* picture; without pictures nothing depends on it.
FirstSound == IF stream = "av" THEN ahead - audio + video ELSE 0

-----------------------------------------------------------------------------
(* Data arrive: the thread of AnyRtmpPull.                                 *)

\* The first picture starts the system's clock.
CacheH264Data ==
  /\ stream # "audio" /\ video < MaxList
  /\ stream = "av" => ahead > -Skew
  /\ video' = video + 1
  /\ ahead' = IF stream = "av" THEN ahead - 1 ELSE 0
  /\ begun' = TRUE
  /\ UNCHANGED <<stream, gap, gotAudio, audio, phase, status, soundClock,
                 sysClock, decodeVars, cacheVars, checked, heard, queue, pausedAt>>

\* Sound starts it too, when there is a second of it.
CachePcmData ==
  /\ stream # "video" /\ audio < MaxList
  /\ stream = "av" => ahead < Skew
  /\ audio' = audio + 1
  /\ ahead' = IF stream = "av" THEN ahead + 1 ELSE 0
  /\ gotAudio' = TRUE
  /\ begun' = (begun \/ SpanOf(audio + 1) >= PLY_MAX_DELAY)
  /\ sysClock' = 0
  /\ UNCHANGED <<stream, gap, video, phase, status, soundClock, decodeVars,
                 cacheVars, checked, heard, queue, pausedAt>>

-----------------------------------------------------------------------------
(* Sound is played: the audio device.                                      *)

\* Mutant of ClockAfterSound: play_cur_time_ is not set.
ClockKept == soundClock

\* GetPcmData asks for it only while the player plays.
ClockAfterSound == FirstSound
GetPlayAudio ==
  /\ status = "Normal" /\ audio > 0 /\ ~heard
  /\ heard' = TRUE
  /\ audio' = audio - 1
  /\ soundClock' = ClockAfterSound
  /\ UNCHANGED <<stream, startVars, video, ahead, phase, status, sysClock,
                 decodeVars, cacheVars, checked, queue, pausedAt>>

-----------------------------------------------------------------------------
(* PlyBuffer::DoDecode, from PB_TICK.                                      *)

Turn(from) ==
  /\ decode = "idle" /\ status = from
  /\ checked' = TRUE

\* PS_Fast: playing starts with more than 250 ms of sound, or after a
\* second with pictures only.
EnoughSound == audio > 0 /\ SpanOf(audio) > PLY_RED_TIME
OnlyPictures == audio = 0 /\ gap >= 4 * PLY_RED_TIME /\ video > 0
DecodeFast ==
  /\ Turn("Fast")
  /\ IF begun /\ gap >= PLY_RED_TIME /\ (EnoughSound \/ OnlyPictures)
     THEN /\ status' = "Normal"
          /\ soundClock' = IF EnoughSound THEN FirstSound ELSE 0
     ELSE UNCHANGED <<status, soundClock>>
  /\ UNCHANGED <<stream, startVars, listVars, sysClock, decodeVars, cacheVars,
                 heard, queue, pausedAt>>

\* PS_Normal: the time that is buffered and the time that is played, by the
\* sound or, if there never was any, by the system's clock.
ByPictures == SpanOf(audio) = 0 /\ ~gotAudio
PlayClock == IF ByPictures /\ video > 0 THEN sysClock ELSE soundClock
Measure ==
  /\ Turn("Normal")
  /\ decode' = "release"
  /\ span' = IF ByPictures THEN SpanOf(video) ELSE SpanOf(audio)
  /\ playTime' = PlayClock
  /\ UNCHANGED <<stream, startVars, listVars, status, soundClock, sysClock,
                 cacheVars, heard, queue, pausedAt>>

\* Mutant of OnNeedDecodeData: nothing is skipped.
NeedDecodeAll == queue' = queue + 1

\* A key frame makes the decoder skip what it has not got round to.
OnNeedDecodeData == queue' = IF phase = 0 THEN 1 ELSE queue + 1

\* The clocks are relative to the next picture.
TakePicture ==
  /\ video' = video - 1
  /\ phase' = IF phase + 1 = Gop THEN 0 ELSE phase + 1
  /\ soundClock' = IF stream = "av" THEN soundClock - 1 ELSE -1
  /\ sysClock' = IF gotAudio THEN 0 ELSE sysClock - 1
  /\ OnNeedDecodeData

\* Too little is left: OnPause, and longer buffering every time.
Pause ==
  /\ status' = "Cache"
  /\ cacheTime' = cacheDelta * Second
  /\ cacheDelta' = IF cacheDelta < PLY_MAX_CACHE THEN cacheDelta * 2 ELSE cacheDelta
  /\ wait' = cacheTime'
  /\ pausedAt' = sysClock'

\* Mutant of PictureDue: a picture is not held back for its sound.
PictureEarly == video > 0

\* A picture that is due leaves its list, and playing stops if what was
\* measured before is too short.
PictureDue == video > 0 /\ playTime >= 0
Release ==
  /\ decode = "release"
  /\ decode' = "idle" /\ span' = 0 /\ playTime' = 0
  /\ IF PictureDue
     THEN TakePicture
     ELSE UNCHANGED <<video, phase, soundClock, sysClock, queue>>
  /\ IF span <= PLY_RED_TIME
     THEN Pause
     ELSE UNCHANGED <<status, cacheVars, pausedAt>>
  /\ UNCHANGED <<stream, startVars, audio, ahead, checked, heard>>

\* Mutants of DecodeCache's parts: only sound counts; the longest time to
\* buffer is kept; the clock is put back only when playing goes on.
BufferedSound == SpanOf(audio)
LongestKept == cacheDelta
PutBackOnce(enough) ==
  IF gotAudio \/ ~enough THEN sysClock ELSE sysClock - cacheTime

\* PS_Cache: after cache_time_ it is seen whether enough has come.  Without
\* sound the system's clock is put back by the time that was waited.
Buffered == IF ByPictures THEN SpanOf(video) ELSE SpanOf(audio)
LongestHalved == IF cacheDelta = PLY_MAX_CACHE THEN cacheDelta \div 2 ELSE cacheDelta
PutBack(enough) == IF gotAudio THEN 0 ELSE sysClock - cacheTime
DecodeCache ==
  /\ Turn("Cache")
  /\ LET enough == Buffered >= cacheTime - PLY_RED_TIME
     IN IF wait > 0
        THEN UNCHANGED <<status, cacheDelta, wait, sysClock>>
        ELSE /\ status' = IF enough THEN "Normal" ELSE "Cache"
             /\ cacheDelta' = IF enough THEN LongestHalved ELSE cacheDelta
             /\ wait' = IF enough THEN 0 ELSE cacheTime
             /\ sysClock' = PutBack(enough)
  /\ UNCHANGED <<stream, startVars, listVars, soundClock, decodeVars, cacheTime,
                 heard, queue, pausedAt>>

DoDecode == DecodeFast \/ Measure \/ Release \/ DecodeCache

-----------------------------------------------------------------------------
\* PlyDecoder::Run, the thread that handles PB_TICK, decodes a picture a turn.
Decode ==
  /\ decode = "idle" /\ queue > 0
  /\ queue' = queue - 1
  /\ UNCHANGED <<stream, startVars, listVars, status, soundClock, sysClock,
                 decodeVars, cacheVars, checked, heard, pausedAt>>

\* 250 ms, in which DoDecode runs 50 times, so that no picture is left that
\* was due.
Min2(x, y) == IF x < y THEN x ELSE y
Tick ==
  /\ checked /\ decode = "idle"
  /\ status = "Normal" /\ video > 0 => PlayClock < 0
  /\ checked' = FALSE /\ heard' = FALSE
  /\ gap' = IF begun THEN Min2(gap + 1, PLY_MAX_DELAY) ELSE gap
  /\ sysClock' = IF begun /\ ~gotAudio THEN sysClock + 1 ELSE sysClock
  /\ wait' = IF wait > 0 THEN wait - 1 ELSE 0
  /\ UNCHANGED <<stream, begun, gotAudio, listVars, status, soundClock,
                 decodeVars, cacheTime, cacheDelta, queue, pausedAt>>

Arrive == CacheH264Data \/ CachePcmData

Next == Arrive \/ GetPlayAudio \/ DoDecode \/ Decode \/ Tick

Spec == Init /\ [][Next]_vars

\* Time and the threads go on, the device takes sound while there is some,
\* and the stream brings all it has: sound does not end while pictures come.
Fairness ==
  /\ SF_vars(Tick) /\ WF_vars(DoDecode) /\ WF_vars(Decode)
  /\ WF_vars(CacheH264Data) /\ WF_vars(CachePcmData) /\ WF_vars(GetPlayAudio)

FairSpec == Spec /\ Fairness

-----------------------------------------------------------------------------
(* Properties.                                                             *)

\* A pause ends, and a stream that starts is played: with a stream that
\* goes on the buffer always gets to what DoDecode waits for.
PlayingGoesOn == status # "Normal" ~> status = "Normal"

\* No picture waits for ever: the clock of DoDecode reaches it.
PictureLeaves == (video > 0 /\ phase = 1) ~> phase # 1

\* Without sound a pause stops the clock (sys_fast_video_time_ is put back
\* as often as was waited): playing goes on where it stopped, and no burst
\* of pictures follows.
PauseStopsClock ==
  [][status = "Cache" /\ status' = "Normal" /\ ~gotAudio =>
       sysClock' = pausedAt]_vars

\* A picture is not ahead of its sound: once sound has come, no picture
\* leaves the list before play_cur_time_ has reached its time.  (That is the
\* timestamp of the packet of sound taken last, or, where playing begins, of
\* the one that will be taken first.  Sound that
\* is more than half a second late may find a player that has started
\* without it, and one picture leaves by the old clock.)
PictureAfterSound ==
  [][gotAudio /\ video' < video => soundClock >= 0]_vars

\* Buffering does not get longer without end: for all its doubling it never
\* takes more than half of PLY_MAX_CACHE, which is put back when playing
\* goes on.
CacheBounded ==
  /\ 2 * cacheTime <= PLY_MAX_CACHE * Second
  /\ status = "Normal" => cacheDelta < PLY_MAX_CACHE
=============================================================================
