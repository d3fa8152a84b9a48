------------------------------ MODULE Players ------------------------------
(***************************************************************************)
(* NewVideoMgr and NewImageMgr: what keeps the adverts playing.            *)
(*                                                                         *)
(* Each is a handler on the main thread that goes through its play list in *)
(* a circle.  The video player is kept going by messages: the end or the   *)
(* failure of a video, a file that is missing and a new list each send     *)
(* MSG_PLAY_VIDEO, and handling it starts the next video, over the one     *)
(* that is playing if there is one.  The image switcher sends itself       *)
(* MSG_SWITCH_IMAGE 5 s ahead.  Lists come from MediaStrategyMgr; a list   *)
(* that is null behaves as an empty one.  Files come and go behind the     *)
(* players, which only look whether a file exists when its turn comes.     *)
(***************************************************************************)
EXTENDS Integers, Sequences

CONSTANTS
  Files,       (* media files                                              *)
  Lists,       (* the play lists MediaStrategyMgr may hand out             *)
  Nothing,     (* no file                                                  *)
  MaxChanges,  (* bound: new lists                                         *)
  MaxErrors,   (* bound: videos that fail to play                          *)
  MaxMoves     (* bound: files that come or go                             *)

ASSUME ListAssumption ==
  /\ Nothing \notin Files
  /\ \A l \in Lists : l \in Seq(Files)
ASSUME PlayerBoundAssumption ==
  MaxChanges \in Nat /\ MaxErrors \in Nat /\ MaxMoves \in Nat

VARIABLES
  present,     (* the files on the flash                                   *)
  videoList,   (* mVideoList                                               *)
  mPosition,
  playing,     (* the file the VideoView plays                             *)
  due,         (* MSG_PLAY_VIDEO in the queue                              *)
  later,       (* MSG_PLAY_VIDEO in the queue, 5 s ahead                   *)
  imageList,   (* mImageList                                               *)
  mCurrentImageId,
  image,       (* the file the ImageSwitcher shows                         *)
  imageDue,    (* MSG_SWITCH_IMAGE in the queue                            *)
  changes, errors, moves

videoVars == <<videoList, mPosition, playing, due, later>>
imageVars == <<imageList, mCurrentImageId, image, imageDue>>
vars == <<present, videoVars, imageVars, changes, errors, moves>>

Positions == {0} \cup UNION {0..(Len(l) - 1) : l \in Lists}
Members(l) == {l[i] : i \in 1..Len(l)}

TypeOK ==
  /\ present \subseteq Files
  /\ videoList \in Lists /\ imageList \in Lists
  /\ mPosition \in Positions /\ mCurrentImageId \in Positions
  /\ playing \in Files \cup {Nothing} /\ image \in Files \cup {Nothing}
  /\ due \in Nat /\ later \in Nat /\ imageDue \in Nat
  /\ changes \in 0..MaxChanges
  /\ errors \in 0..MaxErrors
  /\ moves \in 0..MaxMoves

\* The constructors: the saved lists, and a message for each player.
Init ==
  /\ present \in SUBSET Files
  /\ videoList \in Lists /\ imageList \in Lists
  /\ mPosition = 0 /\ mCurrentImageId = 0
  /\ playing = Nothing /\ image = Nothing
  /\ due = 1 /\ later = 0 /\ imageDue = 1
  /\ changes = 0 /\ errors = 0 /\ moves = 0

-----------------------------------------------------------------------------
(* NewVideoMgr.                                                            *)

\* Mutant of Following: the circle leaves out its first file.
FollowingSkipsFirst(p, l) == IF p + 1 >= Len(l) THEN 1 % Len(l) ELSE p + 1

\* getVideoByOrder and getImageByOrder of a list that is not empty.
Following(p, l) == IF p + 1 >= Len(l) THEN 0 ELSE p + 1

\* Mutant of PlayVideo: a missing file is not tried again.
PlayVideoGivesUp ==
  /\ due > 0
  /\ due' = due - 1
  /\ \/ videoList = <<>> /\ UNCHANGED <<mPosition, playing>>
     \/ /\ videoList # <<>>
        /\ mPosition' = Following(mPosition, videoList)
        /\ LET f == videoList[mPosition' + 1]
           IN playing' = IF f \in present THEN f ELSE playing
  /\ UNCHANGED <<present, videoList, later, imageVars, changes, errors, moves>>

\* The handler of MSG_PLAY_VIDEO.  A missing file is followed by the next
\* one 5 s later; what is playing meanwhile plays on.
PlayVideo ==
  /\ due > 0
  /\ due' = due - 1
  /\ \/ videoList = <<>> /\ UNCHANGED <<mPosition, playing, later>>
     \/ /\ videoList # <<>>
        /\ mPosition' = Following(mPosition, videoList)
        /\ LET f == videoList[mPosition' + 1]
           IN \/ f \in present /\ playing' = f /\ UNCHANGED later
              \/ f \notin present /\ later' = later + 1 /\ UNCHANGED playing
  /\ UNCHANGED <<present, videoList, imageVars, changes, errors, moves>>

LaterDue ==
  /\ later > 0
  /\ later' = later - 1
  /\ due' = due + 1
  /\ UNCHANGED <<present, videoList, mPosition, playing, imageVars, changes,
                 errors, moves>>

EndVideo ==
  /\ playing # Nothing
  /\ playing' = Nothing
  /\ due' = due + 1
  /\ UNCHANGED <<present, videoList, mPosition, later, imageVars, changes,
                 moves>>

OnCompletion == EndVideo /\ UNCHANGED errors
OnError == EndVideo /\ errors < MaxErrors /\ errors' = errors + 1

\* Mutant of VideoStrategyChanged: the position is set to the size.
VideoStrategyChangedFromEnd(l) ==
  /\ changes < MaxChanges
  /\ changes' = changes + 1
  /\ videoList' = l
  /\ mPosition' = Len(l)
  /\ due' = due + 1
  /\ UNCHANGED <<present, playing, later, imageVars, errors, moves>>

\* updateWhenStrategyChanged: a message more, whatever is under way.
VideoStrategyChanged(l) ==
  /\ changes < MaxChanges
  /\ changes' = changes + 1
  /\ videoList' = l
  /\ due' = due + 1
  /\ UNCHANGED <<present, mPosition, playing, later, imageVars, errors, moves>>

-----------------------------------------------------------------------------
(* NewImageMgr.                                                            *)

\* The handler of MSG_SWITCH_IMAGE: it always sends the next one.
SwitchImage ==
  /\ imageDue > 0
  /\ \/ imageList = <<>> /\ image' = Nothing /\ UNCHANGED mCurrentImageId
     \/ /\ imageList # <<>>
        /\ mCurrentImageId' = Following(mCurrentImageId, imageList)
        /\ LET f == imageList[mCurrentImageId' + 1]
           IN image' = IF f \in present THEN f ELSE image
  /\ imageDue' = (imageDue - 1) + 1
  /\ UNCHANGED <<present, videoVars, imageList, changes, errors, moves>>

\* Mutant of ImageStrategyChanged: a message more, as for videos.
ImageStrategyChangedAlways(l) ==
  /\ changes < MaxChanges
  /\ changes' = changes + 1
  /\ imageList' = l
  /\ imageDue' = imageDue + 1
  /\ UNCHANGED <<present, videoVars, mCurrentImageId, image, errors, moves>>

\* updateWhenStrategyChanged.
ImageStrategyChanged(l) ==
  /\ changes < MaxChanges
  /\ changes' = changes + 1
  /\ imageList' = l
  /\ imageDue' = IF imageDue > 0 THEN imageDue ELSE 1
  /\ UNCHANGED <<present, videoVars, mCurrentImageId, image, errors, moves>>

-----------------------------------------------------------------------------
\* The download engine and the delete loops work on the files.
FileComesOrGoes(f) ==
  /\ moves < MaxMoves
  /\ moves' = moves + 1
  /\ present' = IF f \in present THEN present \ {f} ELSE present \cup {f}
  /\ UNCHANGED <<videoVars, imageVars, changes, errors>>

Next ==
  \/ PlayVideo \/ LaterDue \/ OnCompletion \/ OnError
  \/ SwitchImage
  \/ \E l \in Lists : VideoStrategyChanged(l) \/ ImageStrategyChanged(l)
  \/ \E f \in Files : FileComesOrGoes(f)

Spec == Init /\ [][Next]_vars

\* The looper handles its messages in time and every video ends.
Fairness ==
  /\ WF_vars(PlayVideo) /\ WF_vars(LaterDue) /\ WF_vars(OnCompletion)
  /\ WF_vars(SwitchImage)

FairSpec == Spec /\ Fairness

-----------------------------------------------------------------------------
(* Properties.                                                             *)

\* Through missing files, playback errors and new lists, the video player
\* never comes to rest over a list that has videos (the handler of
\* NewVideoMgr is only ever woken by a message).
VideoGoesOn == videoList # <<>> => playing # Nothing \/ due + later > 0

\* One chain of MSG_SWITCH_IMAGE: images change every 5 s, however often the
\* list does (hasMessages in updateWhenStrategyChanged).
OneImageChain == imageDue = 1

\* Both players are kept going by exactly what the code means to wake them:
\* a message or a video of the one, a single chain of messages of the other.
AdvertsGoOn == VideoGoesOn /\ OneImageChain

\* A file that stays in its list and on the flash is played or shown again
\* and again, though messages double, lists change and missing files take
\* their turns.
EveryFileShown ==
  \A f \in Files :
    /\ <>[](f \in Members(videoList) /\ f \in present) => []<>(playing = f)
    /\ <>[](f \in Members(imageList) /\ f \in present) => []<>(image = f)
=============================================================================
