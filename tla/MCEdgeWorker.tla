---------------------------- MODULE MCEdgeWorker ----------------------------
(* EdgeWorker with interchangeable requests; a push, and a configuration   *)
(* that `init` leaves without a key and `configure` changes twice; or two  *)
(* pushes.                                                                 *)
EXTENDS EdgeWorker, TLC

Initialised == [t \in Tag |-> IF t = "config" THEN 1 ELSE 0]
KeyAndRotation == [t \in Tag |-> IF t = "config" THEN 2 ELSE 1]
NoKeyAtFirst == [u \in Urls |-> IF u = "key" THEN {1} ELSE {}]
TwoPushes == [t \in Tag |-> IF t = "path" THEN 2 ELSE 0]

Swaps == Permutations(Request)

=============================================================================
