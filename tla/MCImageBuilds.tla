---------------------------- MODULE MCImageBuilds ----------------------------
(* Two images and a few requests for ImageBuilds.                           *)
EXTENDS ImageBuilds, TLC

\* For the runs without liveness: images and requests are interchangeable.
Symm == Permutations(Images) \cup Permutations(Posts)
=============================================================================
