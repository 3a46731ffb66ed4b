---------------------------- MODULE MCEmailQueue ----------------------------
(* EmailQueue for TLC.  No symmetry: the run checks liveness too.          *)
EXTENDS EmailQueue

CONSTANTS e1, e2, w1, w2
=============================================================================
