--------------------------- MODULE MCMediaUpdate ---------------------------
(* Instances of MediaUpdate for TLC.                                       *)
EXTENDS MediaUpdate, TLC

CONSTANTS s1, s2, s3, v1, v2, v3, i1, i2, fv1, fv2, fv3, fi1, fi2,
  video, image, none

MediaKinds ==
  (v1 :> video) @@ (v2 :> video) @@ (v3 :> video) @@ (i1 :> image) @@ (i2 :> image)

\* s2 keeps a video of s1, drops one and adds one, with the same image; s3
\* has fewer videos than either and another image.  Files are named by ids.
ThreeSchedules ==
  (none :> <<>>)
    @@ (s1 :> ((v1 :> fv1) @@ (v2 :> fv2) @@ (i1 :> fi1)))
    @@ (s2 :> ((v2 :> fv2) @@ (v3 :> fv3) @@ (i1 :> fi1)))
    @@ (s3 :> ((v2 :> fv2) @@ (i2 :> fi2)))
=============================================================================
