---------------------------- MODULE MCLocalProxy ----------------------------
(* LocalProxy for TLC: a cache of the kind cache.nixos.org is and two that *)
(* aeroflare keeps; an image without narinfo fields, one that has them in  *)
(* its config, and one push made.                                          *)
EXTENDS LocalProxy

CONSTANTS c1, nixos, other, another

MCUpstreams == <<other, nixos, another>>
MCFieldsIn == <<"nowhere", "config", "manifest">>

=============================================================================
