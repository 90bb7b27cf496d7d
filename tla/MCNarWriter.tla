---------------------------- MODULE MCNarWriter ----------------------------
(* NarWriter for TLC: a path on its own, two paths, and a path named twice *)
(* beside another, which has two workers on one file and a job left over.  *)
EXTENDS NarWriter

CONSTANTS p1, p2

MCBatches == {<<p1>>, <<p1, p2, p1>>, <<p1, p1, p2, p1>>}

=============================================================================
