---------------------------- MODULE MCRtmpPush ----------------------------
(* Instances of RtmpPush for TLC: every constant has its value in a cfg.   *)
EXTENDS RtmpPush
=============================================================================
