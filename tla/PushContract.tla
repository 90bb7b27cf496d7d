---------------------------- MODULE PushContract ----------------------------
(***************************************************************************)
(* What a push promises to the people who read the cache afterwards.       *)
(*                                                                         *)
(* While it runs, more and more paths are served, and only paths the       *)
(* inputs need.  When it returns without an error the inputs can be        *)
(* substituted: their closure is served, apart from what upstream serves.  *)
(* Any other end promises nothing but that what is served stays served.    *)
(*                                                                         *)
(* `aeroflare push' makes this promise of its cache (PushPipeline), and a  *)
(* run of aeroflare-ci makes it of each of its caches (CIRun).             *)
(***************************************************************************)

CONSTANTS Path, RefGraphs, Upstream, WithRefs

VARIABLES
  refs,     \* the references of the paths
  wanted,   \* the inputs
  served,   \* what the cache serves
  outcome   \* how the push ended, "running" before that

contractVars == <<refs, wanted, served, outcome>>

(* The references of the inputs, transitively.                             *)
Needed ==
  {p \in Path : \A S \in SUBSET Path :
      wanted \subseteq S /\ (\A q \in S : refs[q] \subseteq S) => p \in S}

(* A part S of what is served makes the inputs substitutable.              *)
Substitutable(S) ==
  /\ wanted \subseteq S \cup Upstream
  /\ WithRefs => \A p \in S : refs[p] \subseteq S \cup Upstream

Init ==
  /\ refs \in RefGraphs /\ wanted \in SUBSET Path
  /\ served = {} /\ outcome = "running"

Serve ==
  /\ outcome = "running"
  /\ \E more \in SUBSET Needed : served' = served \cup more
  /\ UNCHANGED <<refs, wanted, outcome>>

Succeed ==
  /\ outcome = "running"
  /\ \E S \in SUBSET served : Substitutable(S)
  /\ outcome' = "ok"
  /\ UNCHANGED <<refs, wanted, served>>

(* Requests under way when the process dies may still be answered.         *)
GiveUp ==
  /\ outcome = "running"
  /\ outcome' \in {"partial", "aborted", "crashed"}
  /\ \E late \in SUBSET Needed : served' = served \cup late
  /\ UNCHANGED <<refs, wanted>>

TryAgain ==
  /\ outcome # "running"
  /\ outcome' = "running"
  /\ UNCHANGED <<refs, wanted, served>>

Next == Serve \/ Succeed \/ GiveUp \/ TryAgain

Spec == Init /\ [][Next]_contractVars
=============================================================================
