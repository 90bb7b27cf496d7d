----------------------------- MODULE MCSecrets -----------------------------
(* Secrets with a few callers, in one process or in two.                     *)
EXTENDS Secrets, TLC

CONSTANTS c1, c2, p1, p2

(* Keys and values are only compared.                                      *)
Renamings == Permutations(Key) \cup Permutations(Val)

OneHome == [c \in Caller |-> p1]
TwoHomes == [c \in Caller |-> IF c = c1 THEN p1 ELSE p2]

=============================================================================
