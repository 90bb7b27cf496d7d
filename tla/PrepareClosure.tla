--------------------------- MODULE PrepareClosure ---------------------------
(***************************************************************************)
(* How a push discovers what it has to upload (pkg/prepare/prepare).       *)
(*                                                                         *)
(* PrepareBatch turns a batch of root store paths into Results: it checks  *)
(* the roots' references against the upstream caches, then, with           *)
(* PrepareMissingRefs, descends one level of missing references at a time  *)
(* until no new path turns up.  A shared `visited' map stops the descent.  *)
(* The Results form a graph: attached[p] is p's MissingRefResults.         *)
(*                                                                         *)
(* The NAR and narinfo of a path are written by worker goroutines that     *)
(* share nothing; a level is one step here and its files are its paths.    *)
(* Definitions marked FAULT are plausible slips in the code, kept to show  *)
(* which property would notice them; the specification uses none of them.  *)
(***************************************************************************)
EXTENDS FiniteSets

CONSTANTS
  Path,               \* paths in the local Nix store
  RefGraphs,          \* the reference graphs that store may hold
  Upstream,           \* paths an upstream cache serves
  PrepareMissingRefs  \* Config.PrepareMissingRefs

ASSUME GraphAssumption == RefGraphs \subseteq [Path -> SUBSET Path]
ASSUME UpstreamAssumption == Upstream \subseteq Path
ASSUME PrepareRefsAssumption == PrepareMissingRefs \in BOOLEAN

VARIABLES
  refs,       \* PathInfo.References of every path; a path may name itself
  roots,      \* the batch: storePaths of PrepareBatch
  visited,    \* the visited map: the paths that have a Result
  frontier,   \* newPaths of the deepest prepareRefsRecursive call so far
  missing,    \* Result.MissingRefs
  attached    \* Result.MissingRefResults, by store path

prepVars == <<refs, roots, visited, frontier, missing, attached>>

-----------------------------------------------------------------------------

(* One batched check covers the references of a whole level.  A cache      *)
(* group reports only the hits it saw and drops a member that fails: it    *)
(* may overlook a path that is there and never invents one.                *)
Observed(ps) == SUBSET (Upstream \cap UNION {refs[p] : p \in ps})

(* computeMissingRefs, for the paths ps of a level.                        *)
MissingRefs(ps, hits) ==
  [p \in Path |-> IF p \in ps THEN refs[p] \ hits ELSE missing[p]]

(* What a level's missing references add, each path once per batch.        *)
NewPaths == (UNION {missing[p] : p \in frontier}) \ visited

(* FAULT: every missing reference with a Result so far is attached.        *)
AttachRefsVisited(new) ==
  [p \in Path |->
     IF p \in frontier THEN missing[p] \cap (visited \cup new) ELSE attached[p]]

(* FAULT: the result map is read before the new level's Results are in it. *)
AttachRefsTooEarly(new) ==
  [p \in Path |-> IF p \in frontier THEN missing[p] \cap visited ELSE attached[p]]

(* The loop that follows a recursive call: of a path's missing references  *)
(* only those the call returned are attached, so a reference visited       *)
(* before (a root, a path of this or an earlier level) is left out.        *)
AttachRefs(new) ==
  [p \in Path |-> IF p \in frontier THEN missing[p] \cap new ELSE attached[p]]

(* Phases 1 to 3 of PrepareBatch; Prepare up to its own Result.            *)
BeginPrepare(batch) ==
  /\ roots' = batch
  /\ visited' = batch
  /\ frontier' = batch
  /\ attached' = [p \in Path |-> {}]
  /\ \E hits \in Observed(batch) : missing' = MissingRefs(batch, hits)
  /\ UNCHANGED refs

(* One call of prepareRefsRecursive that finds paths to prepare.           *)
PrepareRefs ==
  /\ PrepareMissingRefs
  /\ NewPaths # {}
  /\ visited' = visited \cup NewPaths
  /\ frontier' = NewPaths
  /\ attached' = AttachRefs(NewPaths)
  /\ \E hits \in Observed(NewPaths) : missing' = MissingRefs(NewPaths, hits)
  /\ UNCHANGED <<refs, roots>>

(* FAULT: only the roots' own references are prepared.                     *)
PrepareDoneOneLevel == PrepareMissingRefs => frontier # roots \/ NewPaths = {}

PrepareDone == PrepareMissingRefs => NewPaths = {}

PrepInit ==
  /\ refs \in RefGraphs
  /\ roots = {} /\ visited = {} /\ frontier = {}
  /\ missing = [p \in Path |-> {}]
  /\ attached = [p \in Path |-> {}]

(* Batches follow one another: a push prepares chunk after chunk.          *)
NextBatch == PrepareDone /\ \E batch \in (SUBSET Path) \ {{}} : BeginPrepare(batch)

PrepNext == PrepareRefs \/ NextBatch

PrepSpec == PrepInit /\ [][PrepNext]_prepVars

-----------------------------------------------------------------------------

(* What a push does with the Results.                                      *)

(* S holds every Result its members' MissingRefResults lead to.            *)
ClosedUnderAttached(S) == \A p \in S : attached[p] \subseteq S

(* The Results reachable from the batch's own Results.                     *)
Reachable ==
  {p \in Path : \A S \in SUBSET Path :
                  roots \subseteq S /\ ClosedUnderAttached(S) => p \in S}

(* FAULT: only the path itself and its direct references are looked at.    *)
CompleteReceiptsDirect(up) == {p \in up : attached[p] \subseteq up}

(* completeReceipts: what was uploaded with all it leads to.  The code     *)
(* walks MissingRefResults with a memo; on an acyclic graph that computes  *)
(* the largest set of uploaded paths that is closed under it.              *)
CompleteReceipts(up) == UNION {S \in SUBSET up : ClosedUnderAttached(S)}

-----------------------------------------------------------------------------

(* Type invariant.                                                         *)
PrepTypeOK ==
  /\ refs \in [Path -> SUBSET Path]
  /\ roots \in SUBSET Path
  /\ visited \in SUBSET Path
  /\ frontier \in SUBSET Path
  /\ missing \in [Path -> SUBSET Path]
  /\ attached \in [Path -> SUBSET Path]

(* MissingRefResults has no cycle, although reference graphs do (a path    *)
(* may reference itself).  completeReceipts decides a member of a cycle    *)
(* while the others are still undecided, so its answer is only right       *)
(* because prepareRefsRecursive never produces one.                        *)
ResultsAcyclic ==
  \A S \in (SUBSET Path) \ {{}} : \E p \in S : attached[p] \cap S = {}

(* Every path whose NAR was generated is reachable from a root's Result:   *)
(* the tasks of a push are found by walking MissingRefResults, so a path   *)
(* prepared but not attached anywhere would never be uploaded.             *)
ResultsReachable == visited = Reachable

(* "which is what keeps a pushed closure complete": when the descent ends, *)
(* every reference of every prepared path is prepared or upstream.  The    *)
(* levels are checked against upstream at different times and may disagree *)
(* about the same path.                                                    *)
ClosurePrepared ==
  PrepareMissingRefs /\ PrepareDone =>
    \A p \in visited : refs[p] \subseteq visited \cup Upstream

(* A root is never attached as somebody's reference, so the IsRoot flag a  *)
(* task gets depends on the batch and not on the order of the walk.        *)
RootsNotAttached == \A p \in Path : attached[p] \cap roots = {}

(* The inductive invariant behind the properties above.                    *)
PrepInv ==
  /\ PrepTypeOK
  /\ roots \subseteq visited /\ frontier \subseteq visited
  /\ \A p \in Path : attached[p] \subseteq visited \ roots
  /\ \A p \in Path : p \notin visited \ frontier => attached[p] = {}
  /\ \A p \in visited \ frontier : missing[p] \subseteq visited
  /\ \A p \in visited : refs[p] \subseteq missing[p] \cup Upstream
  /\ \A p \in visited : missing[p] \subseteq refs[p]
  /\ ResultsAcyclic
  /\ \A S \in SUBSET Path :
       roots \subseteq S /\ ClosedUnderAttached(S) => visited \subseteq S

=============================================================================
