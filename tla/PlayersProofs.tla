--------------------------- MODULE PlayersProofs ---------------------------
(***************************************************************************)
(* The players never come to rest: proofs for every set of play lists, any *)
(* number of changes, errors and files that come and go.                   *)
(***************************************************************************)
EXTENDS Players, TLAPS

\* getVideoByOrder stays inside a list that is not empty, wherever an
\* earlier list has left the position.
LEMMA FollowingInRange ==
  ASSUME NEW l \in Lists, l # <<>>, NEW p \in Nat
  PROVE  /\ Following(p, l) \in 0..(Len(l) - 1)
         /\ Following(p, l) \in Positions
         /\ l[Following(p, l) + 1] \in Files
<1>1. l \in Seq(Files) BY ListAssumption
<1>2. Len(l) \in Nat /\ Len(l) > 0 BY <1>1
<1>3. Following(p, l) \in 0..(Len(l) - 1) BY <1>2 DEF Following
<1>4. Following(p, l) + 1 \in 1..Len(l) BY <1>2, <1>3
<1>5. l[Following(p, l) + 1] \in Files BY <1>1, <1>4
<1> QED BY <1>3, <1>5 DEF Positions

LEMMA PositionsNat == Positions \subseteq Nat
<1>1. \A l \in Lists : Len(l) \in Nat BY ListAssumption
<1> QED BY <1>1 DEF Positions

\* Every variable keeps its type; a position lies in some list.
THEOREM TypeCorrect == Spec => []TypeOK
<1>1. Init => TypeOK
  BY PlayerBoundAssumption DEF Init, TypeOK, Positions
<1>2. TypeOK /\ [Next]_vars => TypeOK'
  <2> SUFFICES ASSUME TypeOK, [Next]_vars PROVE TypeOK'
    OBVIOUS
  <2> USE PlayerBoundAssumption DEF TypeOK, videoVars, imageVars
  <2>0. mPosition \in Nat /\ mCurrentImageId \in Nat BY PositionsNat
  <2>1. CASE PlayVideo
    <3>1. CASE videoList = <<>> BY <2>1, <3>1 DEF PlayVideo
    <3>2. CASE videoList # <<>>
      <4>1. /\ mPosition' \in Positions
            /\ videoList[mPosition' + 1] \in Files
        BY <2>0, <2>1, <3>2, FollowingInRange DEF PlayVideo
      <4> QED BY <2>1, <3>2, <4>1 DEF PlayVideo
    <3> QED BY <3>1, <3>2
  <2>2. CASE LaterDue BY <2>2 DEF LaterDue
  <2>3. CASE OnCompletion BY <2>3 DEF OnCompletion, EndVideo
  <2>4. CASE OnError BY <2>4 DEF OnError, EndVideo
  <2>5. CASE SwitchImage
    <3>1. CASE imageList = <<>> BY <2>5, <3>1 DEF SwitchImage
    <3>2. CASE imageList # <<>>
      <4>1. /\ mCurrentImageId' \in Positions
            /\ imageList[mCurrentImageId' + 1] \in Files
        BY <2>0, <2>5, <3>2, FollowingInRange DEF SwitchImage
      <4> QED BY <2>5, <3>2, <4>1 DEF SwitchImage
    <3> QED BY <3>1, <3>2
  <2>6. ASSUME NEW l \in Lists, VideoStrategyChanged(l) PROVE TypeOK'
    BY <2>6 DEF VideoStrategyChanged
  <2>7. ASSUME NEW l \in Lists, ImageStrategyChanged(l) PROVE TypeOK'
    BY <2>7 DEF ImageStrategyChanged
  <2>8. ASSUME NEW f \in Files, FileComesOrGoes(f) PROVE TypeOK'
    BY <2>8 DEF FileComesOrGoes
  <2>9. CASE UNCHANGED vars BY <2>9 DEF vars
  <2> QED BY <2>1, <2>2, <2>3, <2>4, <2>5, <2>6, <2>7, <2>8, <2>9 DEF Next
<1> QED BY <1>1, <1>2, PTL DEF Spec

\* The video player has something to wake it as long as its list has videos
\* (the messages that the listeners and the handler of NewVideoMgr send).
LEMMA VideoNeverRests == Spec => []VideoGoesOn
<1>1. Init => VideoGoesOn
  BY DEF Init, VideoGoesOn
<1>2. TypeOK /\ VideoGoesOn /\ [Next]_vars => VideoGoesOn'
  <2> SUFFICES ASSUME TypeOK, VideoGoesOn, [Next]_vars PROVE VideoGoesOn'
    OBVIOUS
  <2> USE ListAssumption DEF TypeOK, VideoGoesOn, videoVars
  <2>1. CASE PlayVideo
    <3>1. CASE videoList = <<>> BY <2>1, <3>1 DEF PlayVideo
    <3>2. CASE videoList # <<>>
      <4>1. videoList[mPosition' + 1] \in Files
        BY <2>1, <3>2, FollowingInRange, PositionsNat DEF PlayVideo
      <4> QED BY <2>1, <3>2, <4>1 DEF PlayVideo
    <3> QED BY <3>1, <3>2
  <2>2. CASE LaterDue BY <2>2 DEF LaterDue
  <2>3. CASE OnCompletion \/ OnError
    BY <2>3 DEF OnCompletion, OnError, EndVideo
  <2>4. CASE SwitchImage BY <2>4 DEF SwitchImage
  <2>5. ASSUME NEW l \in Lists, VideoStrategyChanged(l) PROVE VideoGoesOn'
    BY <2>5 DEF VideoStrategyChanged
  <2>6. ASSUME NEW l \in Lists, ImageStrategyChanged(l) PROVE VideoGoesOn'
    BY <2>6 DEF ImageStrategyChanged
  <2>7. ASSUME NEW f \in Files, FileComesOrGoes(f) PROVE VideoGoesOn'
    BY <2>7 DEF FileComesOrGoes
  <2>8. CASE UNCHANGED vars BY <2>8 DEF vars
  <2> QED BY <2>1, <2>2, <2>3, <2>4, <2>5, <2>6, <2>7, <2>8 DEF Next
<1> QED BY <1>1, <1>2, TypeCorrect, PTL DEF Spec

\* Exactly one MSG_SWITCH_IMAGE is in the queue (NewImageMgr).
LEMMA ImageChainCorrect == Spec => []OneImageChain
<1>1. Init => OneImageChain
  BY DEF Init, OneImageChain
<1>2. OneImageChain /\ [Next]_vars => OneImageChain'
  BY DEF OneImageChain, Next, PlayVideo, LaterDue, OnCompletion, OnError,
         EndVideo, SwitchImage, VideoStrategyChanged, ImageStrategyChanged,
         FileComesOrGoes, imageVars, vars
<1> QED BY <1>1, <1>2, PTL DEF Spec

\* Neither player is ever left without what wakes it, and no message doubles
\* the image chain (NewVideoMgr and NewImageMgr).
THEOREM AdvertsCorrect == Spec => []AdvertsGoOn
BY VideoNeverRests, ImageChainCorrect, PTL DEF AdvertsGoOn

-----------------------------------------------------------------------------
(* Every file's turn comes.                                                *)

\* How often a player at position p moves on until it is at index i of l,
\* from a position past the end too.
Turns(p, i, l) ==
  IF p < i - 1 THEN i - 1 - p
  ELSE IF p >= Len(l) THEN i
  ELSE Len(l) - p + i - 1

\* A move from p to q is the turn of index i or brings it one nearer.
Nearer(p, q, i, l) == q = i - 1 \/ Turns(q, i, l) = Turns(p, i, l) - 1

\* Each handled message that finds a list gives every file of it its turn, in
\* which it is played or shown if it is there, or brings its turn one nearer;
\* nothing else moves a position.
TurnComes ==
  /\ PlayVideo =>
       \A i \in 1..Len(videoList) :
         /\ Nearer(mPosition, mPosition', i, videoList)
         /\ mPosition' = i - 1 /\ videoList[i] \in present => playing' = videoList[i]
  /\ SwitchImage =>
       \A i \in 1..Len(imageList) :
         /\ Nearer(mCurrentImageId, mCurrentImageId', i, imageList)
         /\ mCurrentImageId' = i - 1 /\ imageList[i] \in present =>
              image' = imageList[i]
  /\ ~PlayVideo => UNCHANGED mPosition
  /\ ~SwitchImage => UNCHANGED mCurrentImageId

\* The circle passes every index: its turn is never further away than once
\* round the list, wherever an older list has left the position.
LEMMA FollowingNearer ==
  ASSUME NEW l \in Lists, NEW p \in Nat, NEW i \in 1..Len(l)
  PROVE  /\ Turns(p, i, l) \in 1..Len(l)
         /\ Nearer(p, Following(p, l), i, l)
<1>1. Len(l) \in Nat /\ i \in Nat /\ 1 <= i /\ i <= Len(l)
  BY ListAssumption
<1> QED BY <1>1 DEF Turns, Nearer, Following

\* The order of getVideoByOrder and getImageByOrder leaves out no file,
\* whatever lists have come and gone.
THEOREM TurnsCorrect == Spec => [][TurnComes]_vars
<1>1. TypeOK /\ [Next]_vars => [TurnComes]_vars
  <2> SUFFICES ASSUME TypeOK, Next PROVE TurnComes
    BY DEF vars
  <2>0. /\ mPosition \in Nat /\ mCurrentImageId \in Nat
        /\ videoList \in Lists /\ imageList \in Lists
        /\ videoList \in Seq(Files) /\ imageList \in Seq(Files)
    BY PositionsNat, ListAssumption DEF TypeOK
  <2>1. ASSUME PlayVideo, NEW i \in 1..Len(videoList)
        PROVE  /\ Nearer(mPosition, mPosition', i, videoList)
               /\ mPosition' = i - 1 /\ videoList[i] \in present =>
                    playing' = videoList[i]
    <3>1. videoList # <<>> BY <2>1
    <3>2. mPosition' = Following(mPosition, videoList)
      BY <2>1, <3>1 DEF PlayVideo
    <3>3. Nearer(mPosition, mPosition', i, videoList)
      BY <2>0, <3>2, FollowingNearer
    <3>4. ASSUME mPosition' = i - 1, videoList[i] \in present
          PROVE  playing' = videoList[i]
      BY <2>1, <3>1, <3>4 DEF PlayVideo
    <3> QED BY <3>3, <3>4
  <2>2. ASSUME SwitchImage, NEW i \in 1..Len(imageList)
        PROVE  /\ Nearer(mCurrentImageId, mCurrentImageId', i, imageList)
               /\ mCurrentImageId' = i - 1 /\ imageList[i] \in present =>
                    image' = imageList[i]
    <3>1. imageList # <<>> BY <2>2
    <3>2. mCurrentImageId' = Following(mCurrentImageId, imageList)
      BY <2>2, <3>1 DEF SwitchImage
    <3>3. Nearer(mCurrentImageId, mCurrentImageId', i, imageList)
      BY <2>0, <3>2, FollowingNearer
    <3>4. ASSUME mCurrentImageId' = i - 1, imageList[i] \in present
          PROVE  image' = imageList[i]
      BY <2>2, <3>1, <3>4 DEF SwitchImage
    <3> QED BY <3>3, <3>4
  <2>3. ~PlayVideo => UNCHANGED mPosition
    BY DEF Next, LaterDue, OnCompletion, OnError, EndVideo, SwitchImage,
           VideoStrategyChanged, ImageStrategyChanged, FileComesOrGoes, videoVars
  <2>4. ~SwitchImage => UNCHANGED mCurrentImageId
    BY DEF Next, PlayVideo, LaterDue, OnCompletion, OnError, EndVideo,
           VideoStrategyChanged, ImageStrategyChanged, FileComesOrGoes, imageVars
  <2> QED BY <2>1, <2>2, <2>3, <2>4 DEF TurnComes
<1> QED BY <1>1, TypeCorrect, PTL DEF Spec
=============================================================================
