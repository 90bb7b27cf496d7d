------------------------------ MODULE MCChanged ------------------------------
(* Changed with one output, which may be one of two derivations.           *)
EXTENDS Changed, TLC

CONSTANTS hello, hello1, hello2

Trees == [Output -> Drv \cup {Absent, Throws}]

Symmetry == Permutations(Drv)

=============================================================================
