--------------------------- MODULE MCUpstreamCheck ---------------------------
(* UpstreamCheck with two members, hashes asked for twice and two workers. *)
EXTENDS UpstreamCheck

CONSTANTS x, y

Lists == {<<x, x, y>>, <<x, x, x>>, <<x, y>>}

=============================================================================
