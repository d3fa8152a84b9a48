----------------------------- MODULE MCRtmpPull -----------------------------
EXTENDS RtmpPull
=============================================================================
