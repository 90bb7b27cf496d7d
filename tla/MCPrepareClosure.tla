-------------------------- MODULE MCPrepareClosure --------------------------
(* PrepareClosure and ReceiptWalk on the reference graphs over a small     *)
(* store.                                                                  *)
EXTENDS ReceiptWalk

CONSTANTS a, b, c, d

(* Nix reference graphs have no cycle but a path may reference itself.     *)
IsNixGraph(g) ==
  \A S \in (SUBSET Path) \ {{}} : \E p \in S : (g[p] \ {p}) \cap S = {}

(* a, b and c are alike, so each graph is taken once, with the names that  *)
(* make references among these three go from a towards c.  Either every    *)
(* path references itself or none does.                                    *)
AllGraphs ==
  {g \in [Path -> SUBSET Path] :
     /\ g[b] \cap {a} = {} /\ g[c] \cap {a, b} = {}
     /\ \A p, q \in Path : p \in g[p] <=> q \in g[q]
     /\ IsNixGraph(g)}

=============================================================================
