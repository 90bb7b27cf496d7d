------------------------------- MODULE Changed -------------------------------
(***************************************************************************)
(* The `changed' entry of a build list (internal/ci/changed.go), over the  *)
(* history of a branch: which outputs a CI run builds when it only builds  *)
(* what differs from a base commit, and what the cache holds after many    *)
(* such runs.                                                              *)
(*                                                                         *)
(* Commits are pushed, several at a time, onto the tip or elsewhere (a     *)
(* forced push); each push starts a run for its last commit.  Runs go on   *)
(* side by side, each in a checkout of its own, and share the cache.  A    *)
(* derivation stands for the store paths it builds.  What a run does with  *)
(* the list it has made is CIRun, one step here.                           *)
(***************************************************************************)
EXTENDS Integers, FiniteSets, Sequences

CONSTANTS
  Output,          \* names of packages, devShells and NixOS configurations
  Drv,             \* derivations
  Absent,          \* no such output
  Throws,          \* the output whose evaluation yields null
  Tree,            \* what a commit's flake may expose
  Broken,          \* a flake that does not evaluate
  AncestryLimit,   \* baseAncestryLimit
  EvalMayFail,     \* git or nix may fail for reasons of their own
  MaxPushed,       \* commits in one push
  MaxCommits,      \* commits in all
  MaxRuns

ASSUME TreeAssumption == Tree \subseteq [Output -> Drv \cup {Absent, Throws}]
ASSUME MarksAssumption == Absent \notin Drv /\ Throws \notin Drv /\ Absent # Throws
ASSUME LimitAssumption == AncestryLimit \in Nat \ {0}
ASSUME EvalAssumption == EvalMayFail \in BOOLEAN
ASSUME BoundsAssumption == MaxPushed \in Nat /\ MaxCommits \in Nat /\ MaxRuns \in Nat
ASSUME BrokenAssumption == Broken \notin Tree

VARIABLES
  onMissingBase,   \* RunSpec.OnMissingBase
  flake,           \* what each commit's flake exposes, or Broken
  parent,          \* each commit's first parent, 0 for none
  tip,             \* the branch, 0 before the first push
  runs,            \* the runs, in the order they were started
  cache            \* the derivations whose outputs the caches serve

vars == <<onMissingBase, flake, parent, tip, runs, cache>>

-----------------------------------------------------------------------------

Commits == DOMAIN flake

(* A commit with its first-parent ancestors, nearest last.                 *)
Ancestry(c) ==
  LET up[n \in 0..c] == IF n = 0 THEN {} ELSE {n} \cup up[parent[n]]
  IN  up[c]

(* A checkout of c has c and a number of its nearest ancestors.  If it is  *)
(* not shallow it may also have what only other branches and tags keep.    *)
Checkouts(c) ==
  {{d \in Commits : d \in Ancestry(c) /\ d >= oldest} : oldest \in Ancestry(c)} \cup {Commits}

Exposes(c) == {o \in Output : flake[c][o] # Absent}

(* FAULT: an output that throws is compared like any other.                *)
ChangedOutputsThrowing(base, head) == {o \in Exposes(head) : flake[base][o] # flake[head][o]}

(* FAULT: the loop is over the outputs of the base.                        *)
ChangedOutputsOfBase(base, head) ==
  {o \in Exposes(base) \cap Exposes(head) :
     flake[head][o] = Throws \/ flake[base][o] # flake[head][o]}

(* changedOutputs: what is new, different or fails to evaluate at head.    *)
ChangedOutputs(base, head) ==
  {o \in Exposes(head) : flake[head][o] = Throws \/ flake[base][o] # flake[head][o]}

(* A run that nothing has happened in.  ref is the base the event or the   *)
(* configuration names, 0 for none: baseFromEvent takes a null SHA for     *)
(* none.                                                                   *)
NewRun(head, ref) ==
  [ head |-> head, ref |-> ref,
    at |-> "start",
    have |-> {},        \* the commits in its checkout
    cand |-> 0,         \* the ancestor that is evaluated next
    tries |-> 0,        \* and how many are left, that one included
    base |-> 0,         \* the commit the diff was against, 0 for none
    vouched |-> FALSE,  \* whether a green run had been for that commit
    chosen |-> {},      \* the outputs to build
    green |-> FALSE ]

(* resolveBaseRef, when the commit exists: HEAD~1 if there is no ref.      *)
Requested(r) == IF r.ref = 0 THEN parent[r.head] ELSE r.ref

GreenRunFor(c) == \E r \in DOMAIN runs : runs[r].green /\ runs[r].head = c

Go(r, run) == runs' = [runs EXCEPT ![r] = run]

-----------------------------------------------------------------------------

(* A push of one or more commits.  The event's `before' is the branch's    *)
(* old commit, whether or not the new ones descend from it.                *)
Push ==
  /\ Len(runs) < MaxRuns
  /\ \E n \in 1..MaxPushed, from \in Commits \cup {0} :
       /\ Len(flake) + n <= MaxCommits
       /\ from = 0 => flake = <<>>
       /\ \E new \in [1..n -> Tree \cup {Broken}] : flake' = flake \o new
       /\ parent' = parent \o [i \in 1..n |-> IF i = 1 THEN from ELSE Len(flake) + i - 1]
       /\ tip' = Len(flake) + n
       /\ runs' = Append(runs, NewRun(Len(flake) + n, tip))
  /\ UNCHANGED <<onMissingBase, cache>>

(* The branch is moved back, or to a commit it was moved away from.        *)
Rewind ==
  /\ Len(runs) < MaxRuns
  /\ \E c \in Commits \ {tip} :
       /\ tip' = c
       /\ runs' = Append(runs, NewRun(c, tip))
  /\ UNCHANGED <<onMissingBase, flake, parent, cache>>

(* A run by hand or by schedule: no event to name a base, but there may be *)
(* a `base' setting.                                                       *)
Dispatch ==
  /\ Len(runs) < MaxRuns
  /\ tip # 0
  /\ \E ref \in Commits \cup {0} : runs' = Append(runs, NewRun(tip, ref))
  /\ UNCHANGED <<onMissingBase, flake, parent, tip, cache>>

(* A run that fails leaves nothing but what it has put into the cache.     *)
Red(run) == [NewRun(run.head, 0) EXCEPT !.at = "ended"]

(* evalDrvs of the checkout fails: there is nothing to build.              *)
HeadFails(r) ==
  /\ runs[r].at = "start"
  /\ flake[runs[r].head] = Broken
  /\ Go(r, Red(runs[r]))
  /\ UNCHANGED <<onMissingBase, flake, parent, tip, cache>>

(* Any other error, or somebody who cancels the run, ends it.              *)
RunFails(r) ==
  /\ runs[r].at # "ended"
  /\ Go(r, Red(runs[r]))
  /\ UNCHANGED <<onMissingBase, flake, parent, tip, cache>>

(* The list of what to build is made.                                      *)
Choose(r, run, base, outputs) ==
  Go(r, [NewRun(run.head, run.ref) EXCEPT
           !.at = "build", !.base = base, !.chosen = outputs,
           !.vouched = base # 0 /\ GreenRunFor(base)])

(* resolveChanged when there is no usable base.                            *)
MissingBase(r, run) ==
  IF onMissingBase = "error" THEN Go(r, Red(run))
  ELSE Choose(r, run, 0, IF onMissingBase = "none" THEN {} ELSE Exposes(run.head))

(* HEAD evaluates; now verifyCommit and baseAncestry.                      *)
VerifyBase(r) ==
  /\ runs[r].at = "start"
  /\ flake[runs[r].head] # Broken
  /\ \E have \in Checkouts(runs[r].head) :
       LET base == Requested(runs[r])
       IN  \/ /\ base \in have
              /\ Go(r, [runs[r] EXCEPT !.at = "walk", !.have = have,
                                       !.cand = base, !.tries = AncestryLimit])
           \/ /\ base \notin have \/ EvalMayFail
              /\ MissingBase(r, runs[r])
  /\ UNCHANGED <<onMissingBase, flake, parent, tip, cache>>

(* FAULT: the checkout's boundary is not looked for.                       *)
WalkEndsAtLimit(run) == run.tries = 1

(* The candidate is the last of baseAncestry's list.                       *)
WalkEnds(run) == run.tries = 1 \/ parent[run.cand] \notin run.have

NextCandidate(run) == [run EXCEPT !.cand = parent[@], !.tries = @ - 1]

(* firstEvaluatable: a candidate that evaluates, in a worktree of its own. *)
TakeBase(r) ==
  /\ runs[r].at = "walk"
  /\ flake[runs[r].cand] # Broken
  /\ Choose(r, runs[r], runs[r].cand, ChangedOutputs(runs[r].cand, runs[r].head))
  /\ UNCHANGED <<onMissingBase, flake, parent, tip, cache>>

(* And one that does not.                                                  *)
SkipBase(r) ==
  /\ runs[r].at = "walk"
  /\ flake[runs[r].cand] = Broken \/ EvalMayFail
  /\ IF WalkEnds(runs[r]) THEN MissingBase(r, runs[r]) ELSE Go(r, NextCandidate(runs[r]))
  /\ UNCHANGED <<onMissingBase, flake, parent, tip, cache>>

(* The rest of ci.Run: any part of what is chosen and evaluates may be     *)
(* built and served (CIRun); the run is green if that was all of it.       *)
Build(r) ==
  /\ runs[r].at = "build"
  /\ LET run == runs[r]
         drv == flake[run.head]
     IN  \E done \in SUBSET {o \in run.chosen : drv[o] # Throws}, ok \in BOOLEAN :
           /\ ok => done = run.chosen
           /\ cache' = cache \cup {drv[o] : o \in done}
           /\ Go(r, IF ok THEN [run EXCEPT !.at = "ended", !.chosen = {}, !.green = TRUE]
                     ELSE Red(run))
  /\ UNCHANGED <<onMissingBase, flake, parent, tip>>

RunStep(r) ==
  \/ HeadFails(r) \/ RunFails(r) \/ VerifyBase(r)
  \/ TakeBase(r) \/ SkipBase(r) \/ Build(r)

Init ==
  /\ onMissingBase \in {"all", "error", "none"}
  /\ flake = <<>> /\ parent = <<>> /\ tip = 0
  /\ runs = <<>> /\ cache = {}

Next == Push \/ Rewind \/ Dispatch \/ \E r \in DOMAIN runs : RunStep(r)

Spec == Init /\ [][Next]_vars

-----------------------------------------------------------------------------

RunType ==
  [ head : Commits, ref : Commits \cup {0},
    at : {"start", "walk", "build", "ended"},
    have : SUBSET Commits, cand : Commits \cup {0}, tries : 0..AncestryLimit,
    base : Commits \cup {0}, vouched : BOOLEAN, chosen : SUBSET Output, green : BOOLEAN ]

(* Type invariant.  A walk always has a candidate in the checkout left.    *)
TypeOK ==
  /\ onMissingBase \in {"all", "error", "none"}
  /\ flake \in Seq(Tree \cup {Broken})
  /\ parent \in Seq(Nat) /\ Len(parent) = Len(flake)
  /\ \A c \in Commits : parent[c] < c
  /\ tip \in Commits \cup {0}
  /\ runs \in Seq(RunType)
  /\ \A r \in DOMAIN runs :
       runs[r].at = "walk" => runs[r].cand \in runs[r].have /\ runs[r].tries # 0
  /\ cache \in SUBSET Drv

(* An output of commit c is served.                                        *)
Served(c, o) == flake[c][o] \in cache

(* The run e took it for granted that d is served, as output o: it found   *)
(* no base and was told to build nothing then, or its base has d too, and  *)
(* no run for that base had been green when it was compared.               *)
TookForGranted(e, o, d) ==
  /\ e.green /\ flake[e.head][o] = d
  /\ IF e.base = 0 THEN onMissingBase = "none"
     ELSE flake[e.base][o] = d /\ ~e.vouched

(* A cache may lack an output although every run for it was green, even    *)
(* one that is not broken anywhere.  But then some green run relied on a   *)
(* commit no run had succeeded for (one that was never the last of a push, *)
(* whose run failed or is not over), or found no base under                *)
(* on-missing-base "none".  Forced pushes, walks to older bases, shallow   *)
(* checkouts and runs that overlap make no other holes.                    *)
HolesExplained ==
  \A r \in DOMAIN runs :
    runs[r].green =>
      \A o \in Output :
        flake[runs[r].head][o] \in Drv \ cache =>
          \E e \in DOMAIN runs : TookForGranted(runs[e], o, flake[runs[r].head][o])

(* "the build then reports the real error": an output that does not        *)
(* evaluate keeps the run from being green, although it did not evaluate   *)
(* at the base either and so did not change.                               *)
ThrowingNeverGreen ==
  \A r \in DOMAIN runs :
    runs[r].green /\ (\E o \in Output : flake[runs[r].head][o] = Throws) =>
      runs[r].base = 0 /\ onMissingBase = "none"

(* The inductive invariant behind the two.  A diff stays what it was when  *)
(* it was taken, and who vouched for its base goes on doing so.            *)
DiffInv(run) ==
  /\ run.green => run.at = "ended"
  /\ run.at \in {"walk", "build"} \/ run.green => flake[run.head] # Broken
  /\ run.vouched => run.base # 0 /\ GreenRunFor(run.base)
  /\ run.at = "build" =>
       IF run.base # 0 THEN run.chosen = ChangedOutputs(run.base, run.head)
       ELSE run.chosen = Exposes(run.head) \/ (run.chosen = {} /\ onMissingBase = "none")

ChangedInv ==
  /\ TypeOK
  /\ \A r \in DOMAIN runs : DiffInv(runs[r])
  /\ HolesExplained /\ ThrowingNeverGreen

(* "Nor does it leave a hole in the cache" (docs, aeroflare-ci.md): after  *)
(* a walk to an older base, on a branch nobody has forced, with the        *)
(* default policy, and when the runs for all pushed commits that evaluate  *)
(* were green, the cache serves what the last one exposes.                 *)
WalkLeavesNoHole ==
  \A r \in DOMAIN runs :
    /\ onMissingBase = "all"
    /\ \A c \in Commits : parent[c] = c - 1
    /\ runs[r].base \notin {0, Requested(runs[r])}
    /\ \A s \in DOMAIN runs : flake[runs[s].head] # Broken => runs[s].green
    => \A o \in Exposes(runs[r].head) : Served(runs[r].head, o)

=============================================================================
