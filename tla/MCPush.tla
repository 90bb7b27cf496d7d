------------------------------- MODULE MCPush -------------------------------
(* PushPipeline on small stores and short input lists.                     *)
EXTENDS PushPipeline

CONSTANTS a, b, c

(* Over three paths: a needs b needs c; a needs b and c, b needs c; a and  *)
(* b share c; no references.  A path of the first and one of the third     *)
(* reference themselves, as Nix paths do.                                  *)
Chain == [p \in Path |-> CASE p = a -> {b} [] p = b -> {b, c} [] OTHER -> {}]
Triangle == [p \in Path |-> CASE p = a -> {b, c} [] p = b -> {c} [] OTHER -> {}]
Shared == [p \in Path |-> CASE p = c -> {c} [] OTHER -> {c}]
Flat == [p \in Path |-> {}]

Shapes == {Chain, Triangle, Shared, Flat}
TriangleOnly == {Triangle}

(* Lists with one root, with a root that is a reference of another, longer *)
(* than a chunk, and with an input named twice.                            *)
Lists == {<<a>>, <<a, b>>, <<b, a, c>>, <<c, a, b, a>>}
OneRoot == {<<a>>}

=============================================================================
