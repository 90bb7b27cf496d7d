------------------------------- MODULE CIRun -------------------------------
(***************************************************************************)
(* One run of aeroflare-ci: ci.Run (internal/ci/run.go), filterRoots       *)
(* (internal/ci/filter.go) and PreparedSet (pkg/push/prepared.go).         *)
(*                                                                         *)
(* The installables are built one after the other.  What an upstream cache *)
(* already serves is dropped from the outputs, the rest is prepared once   *)
(* with its closure (PrepareClosure), and the prepared set is pushed to    *)
(* every configured cache in turn.  A build, a cache without a token or a  *)
(* push that fails turns the run red but does not end it.                  *)
(*                                                                         *)
(* A push to one cache is one step here: its goroutines are those of       *)
(* PushPipeline, and nobody looks at the cache meanwhile.                  *)
(***************************************************************************)
EXTENDS PrepareClosure, Integers, Sequences

CONSTANTS
  Installable,  \* what can be built
  Outputs,      \* the store paths each installable has
  BuildLists,   \* the values of RunSpec.Builds after resolveBuilds
  Caches        \* len(RunSpec.Caches)

ASSUME OutputsAssumption == Outputs \in [Installable -> (SUBSET Path) \ {{}}]
ASSUME BuildListsAssumption == BuildLists \subseteq Seq(Installable)
ASSUME CachesAssumption == Caches \in Nat \ {0}

VARIABLES
  builds,   \* RunSpec.Builds
  phase,    \* where Run is
  turn,     \* the build, then the cache, that is next
  built,    \* the builds that succeeded
  union,    \* the outputs so far
  kept,     \* the roots filterRoots left
  pushed,   \* the caches a push to which succeeded
  served,   \* what each cache serves
  verdict   \* what Run returned, "running" before that

runVars == <<builds, phase, turn, built, union, kept, pushed, served, verdict>>
ciVars == <<prepVars, runVars>>

-----------------------------------------------------------------------------

AllBuilt == built = DOMAIN builds

(* FAULT: only the pushes count.                                           *)
VerdictOfPushes(ok) == pushed = ok

(* buildsOK == buildsTotal && pushesOK == pushesTotal                      *)
Verdict(ok) == AllBuilt /\ pushed = ok

(* FAULT: the failed uploads are reported but are not an error.            *)
PushSucceededAnyway(up, erred) == ~erred

(* PushTo returns no error.                                                *)
PushSucceeded(up, erred) == up = Reachable /\ ~erred

(* FAULT: the caches are counted from 0.                                   *)
FirstCacheZero == 0

FirstCache == 1

RunReturns(green) ==
  /\ verdict' = IF green THEN "green" ELSE "red"
  /\ phase' = "ended"

(* No build list, no key, no token for the first cache, no proxy.          *)
StartFails ==
  /\ phase = "start"
  /\ RunReturns(FALSE)
  /\ UNCHANGED <<prepVars, builds, turn, built, union, kept, pushed, served>>

Start ==
  /\ phase = "start"
  /\ IF builds = <<>> THEN RunReturns(TRUE) ELSE phase' = "build" /\ UNCHANGED verdict
  /\ UNCHANGED <<prepVars, builds, turn, built, union, kept, pushed, served>>

BuildInstallable ==
  /\ phase = "build" /\ turn \in DOMAIN builds
  /\ turn' = turn + 1
  /\ \/ UNCHANGED <<built, union>>
     \/ /\ built' = built \cup {turn}
        /\ union' = union \cup Outputs[builds[turn]]
  /\ UNCHANGED <<prepVars, builds, phase, kept, pushed, served, verdict>>

(* filterRoots: the outputs an upstream cache was seen to serve go.        *)
FilterRoots ==
  /\ phase = "build" /\ turn \notin DOMAIN builds
  /\ \E hits \in SUBSET (Upstream \cap union) : kept' = union \ hits
  /\ IF union = {} THEN RunReturns(FALSE)
     ELSE IF kept' = {} THEN RunReturns(AllBuilt)
     ELSE phase' = "filtered" /\ UNCHANGED verdict
  /\ UNCHANGED <<prepVars, builds, turn, built, union, pushed, served>>

(* push.Prepare; its upstream checks are new ones.                         *)
BeginPrepareRoots ==
  /\ phase = "filtered"
  /\ BeginPrepare(kept)
  /\ phase' = "prepare"
  /\ UNCHANGED <<builds, turn, built, union, kept, pushed, served, verdict>>

PrepareRootsLevel ==
  /\ phase = "prepare"
  /\ PrepareRefs
  /\ UNCHANGED runVars

PrepareRootsFails ==
  /\ phase \in {"filtered", "prepare"}
  /\ RunReturns(FALSE)
  /\ UNCHANGED <<prepVars, builds, turn, built, union, kept, pushed, served>>

PrepareEnds ==
  /\ phase = "prepare" /\ PrepareDone
  /\ phase' = "push" /\ turn' = FirstCache
  /\ UNCHANGED <<prepVars, builds, built, union, kept, pushed, served, verdict>>

(* The token of the first cache was there when the run started.            *)
NoToken ==
  /\ phase = "push" /\ turn \in 2..Caches
  /\ turn' = turn + 1
  /\ UNCHANGED <<prepVars, builds, phase, built, union, kept, pushed, served, verdict>>

(* PushTo: any uploads may fail, the complete receipts are published, and  *)
(* any of these may fail too; one that failed may have taken effect.       *)
PushTo ==
  /\ phase = "push" /\ turn <= Caches
  /\ turn' = turn + 1
  /\ \E up \in SUBSET Reachable :
     \E published \in SUBSET CompleteReceipts(up), erred \in BOOLEAN :
       /\ published # CompleteReceipts(up) => erred
       /\ erred => CompleteReceipts(up) # {}
       /\ served' = [served EXCEPT ![turn] = @ \cup published]
       /\ pushed' = IF PushSucceeded(up, erred) THEN pushed \cup {turn} ELSE pushed
  /\ UNCHANGED <<prepVars, builds, phase, built, union, kept, verdict>>

Finish ==
  /\ phase = "push" /\ turn > Caches
  /\ RunReturns(Verdict(1..Caches))
  /\ UNCHANGED <<prepVars, builds, turn, built, union, kept, pushed, served>>

CIInit ==
  /\ PrepInit
  /\ builds \in BuildLists
  /\ phase = "start" /\ turn = 1
  /\ built = {} /\ union = {} /\ kept = {}
  /\ pushed = {} /\ served = [c \in 1..Caches |-> {}]
  /\ verdict = "running"

CINext ==
  \/ StartFails \/ Start \/ BuildInstallable \/ FilterRoots
  \/ BeginPrepareRoots \/ PrepareRootsLevel \/ PrepareRootsFails \/ PrepareEnds
  \/ NoToken \/ PushTo \/ Finish

CISpec == CIInit /\ [][CINext]_ciVars

-----------------------------------------------------------------------------

(* Type invariant.                                                         *)
CITypeOK ==
  /\ PrepTypeOK
  /\ builds \in Seq(Installable)
  /\ phase \in {"start", "build", "filtered", "prepare", "push", "ended"}
  /\ turn \in Nat \ {0}
  /\ built \subseteq DOMAIN builds
  /\ union \subseteq Path /\ kept \subseteq Path
  /\ pushed \subseteq 1..Caches
  /\ served \in [1..Caches -> SUBSET Path]
  /\ verdict \in {"running", "green", "red"}

(* Cache c, with the upstream caches, can substitute the paths ps.         *)
Serves(c, ps) ==
  \E S \in SUBSET served[c] :
    /\ ps \subseteq S \cup Upstream
    /\ \A p \in S : refs[p] \subseteq S \cup Upstream

(* "push -> cache" is only reported done when that cache now serves every  *)
(* output the run has built, with its closure, whatever happened to other  *)
(* builds and other caches, and although the outputs and the references    *)
(* were checked against upstream at different times.                       *)
PushedCacheServesBuilds == \A c \in pushed : Serves(c, union)

(* What the run is asked to provide.                                       *)
BuildOutputs == UNION {Outputs[builds[i]] : i \in DOMAIN builds}

(* A green run has built everything it was asked to, and every configured  *)
(* cache serves it, unless upstream alone already does.                    *)
GreenRunServesEverything ==
  verdict = "green" => \A c \in 1..Caches : Serves(c, BuildOutputs)

(* Seen from cache c a green run is a push of the outputs of all builds    *)
(* that succeeded, and a red one a push that did not.                      *)
CacheOutcome ==
  CASE verdict = "green" -> "ok" [] verdict = "red" -> "partial" [] OTHER -> "running"

CacheContract(c) == INSTANCE PushContract WITH
  wanted <- BuildOutputs, served <- served[c], outcome <- CacheOutcome,
  WithRefs <- PrepareMissingRefs

(* The run promises of every configured cache what one push promises of    *)
(* its own, although it builds, filters and prepares once for all of them: *)
(* a cache is only ever given what the builds need, and nothing is taken   *)
(* for pushed because it was built, filtered out, or went to another one.  *)
CIImplementsContract ==
  /\ \A c \in 1..Caches : CacheContract(c)!Init
  /\ [][\A c \in 1..Caches :
         [CacheContract(c)!Next]_(CacheContract(c)!contractVars)]_ciVars

(* The inductive invariant behind the two.                                 *)
CIInv ==
  /\ CITypeOK /\ PrepInv
  /\ phase = "ended" <=> verdict # "running"
  /\ \A i \in built : Outputs[builds[i]] \subseteq union
  /\ phase \in {"filtered", "prepare", "push"} => union \subseteq kept \cup Upstream
  /\ phase \in {"prepare", "push"} => kept \subseteq visited
  /\ phase = "push" => \A p \in visited : refs[p] \subseteq visited \cup Upstream
  /\ pushed # {} => phase \in {"push", "ended"}
  /\ PushedCacheServesBuilds /\ GreenRunServesEverything

(* What is prepared, and so what may be pushed, the builds need.           *)
NeededInv ==
  /\ kept \subseteq union /\ union \subseteq BuildOutputs
  /\ \A c \in 1..Caches : visited \subseteq CacheContract(c)!Needed

=============================================================================
