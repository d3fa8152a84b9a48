----------------------------- MODULE MCDownload -----------------------------
(* Instances of Download for TLC.                                          *)
EXTENDS Download, TLC

CONSTANTS u1, u2, r1, r2, w1, w2

\* Two ids with the same filename make two requests for one url.
SharedUrl == (r1 :> u1) @@ (r2 :> u1)

\* Each request has its own url.
DistinctUrls == (r1 :> u1) @@ (r2 :> u2)

\* The workers of the pool are interchangeable.
WorkerSymmetry == Permutations(Workers)
=============================================================================
