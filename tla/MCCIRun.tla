------------------------------ MODULE MCCIRun ------------------------------
(* CIRun with two caches over three paths: a flake with a package, a shell  *)
(* and a configuration, of which the last may be all that has changed.      *)
EXTENDS CIRun, BuildList

CONSTANTS a, b, c, pkg, tool, both

Triangle == [p \in Path |-> CASE p = a -> {b, c} [] p = b -> {c} [] OTHER -> {p}]
Shared == [p \in Path |-> CASE p = c -> {} [] OTHER -> {c}]

Shapes == {Triangle, Shared}

OutputsOf == [i \in Installable |-> CASE i = pkg -> {a} [] i = tool -> {b} [] i = both -> {a, c}]

Files == {<<>>, <<"all">>, <<pkg, "changed">>, <<pkg, both, pkg>>}
Inputs == {<<>>, <<tool, pkg>>, <<"changed">>}

Lists == Resolved(Files, Inputs, BOOLEAN,
                  Installables(<<pkg>>, <<tool>>, <<both>>), {<<>>, <<both>>})

=============================================================================
