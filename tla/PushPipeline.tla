---------------------------- MODULE PushPipeline ----------------------------
(***************************************************************************)
(* RunPushTo (pkg/push/push.go), completeReceipts (pkg/push/complete.go)   *)
(* and NativeBackend.PushReceipts (internal/backend/native.go).            *)
(*                                                                         *)
(* A run drops the inputs an upstream cache serves and takes the rest in   *)
(* chunks.  Per chunk it prepares the closure (PrepareClosure), uploads    *)
(* every NAR blob with a pool of goroutines, keeps the paths whose         *)
(* prepared closure was uploaded, and publishes an image per kept path     *)
(* with a second pool.  The image's tag is the store hash: a tagged path   *)
(* is one the cache serves.  A run can fail or crash and be run again; the *)
(* registry is what remains.                                               *)
(*                                                                         *)
(* A registry request either ends well or fails, and one that fails may    *)
(* have taken effect.  Paths, blobs and tags are named by the store path:  *)
(* compression is deterministic, so a path has one blob.                   *)
(***************************************************************************)
EXTENDS PrepareClosure, Integers, Sequences

CONSTANTS
  Inputs,     \* the path lists a run may be started with
  ChunkSize,  \* chunkSize: 100 in the code
  Workers,    \* PushConfig.Workers
  ForcePush,  \* PushConfig.ForcePush
  MaxRuns     \* bound: how often the command is run

ASSUME InputsAssumption == Inputs \subseteq Seq(Path)
ASSUME ChunkSizeAssumption == ChunkSize \in Nat \ {0}
ASSUME WorkersAssumption == Workers \in Int
ASSUME ForcePushAssumption == ForcePush \in BOOLEAN
ASSUME MaxRunsAssumption == MaxRuns \in Nat \ {0}

VARIABLES
  input,     \* plan.FilteredPaths
  todo,      \* indices of the inputs not yet in a chunk
  pc,        \* where RunPushTo is
  stage,     \* how far each path of the current chunk is
  failed,    \* failedPaths
  excluded,  \* excludedPaths
  handled,   \* history: the tasks of every chunk of this run
  indexed,   \* history: the paths whose image this run published
  outcome,   \* what the run returned, "running" before that
  run,       \* which run this is
  blobs,     \* registry: paths whose NAR blob it holds
  tags       \* registry: paths whose image it holds, tagged by store hash

setup == <<input, run>>
report == <<failed, excluded>>
history == <<handled, indexed>>
registry == <<blobs, tags>>
vars == <<prepVars, setup, todo, pc, stage, report, history, outcome, registry>>

-----------------------------------------------------------------------------

InStage(s) == {p \in Path : stage[p] = s}

(* The paths of the current chunk that completeReceipts let through.       *)
Receipts == {p \in Path : stage[p] \in {"receipt", "pushing", "indexed", "unpublished"}}

InputPaths(idx) == {input[i] : i \in idx}

(* The first ChunkSize of the inputs left, in input order.                 *)
Chunk == {i \in todo : Cardinality({j \in todo : j < i}) < ChunkSize}

(* errgroup.SetLimit: negative is no limit, and at 0 Go blocks for ever.   *)
UploadSlotFree == Workers < 0 \/ Cardinality(InStage("uploading")) < Workers

(* FAULT: an image that fails does not give its slot back.                 *)
PushSlotFreeLeaked ==
  Cardinality(InStage("pushing") \cup InStage("unpublished"))
    < IF Workers > 0 THEN Workers ELSE 5

(* workerLimit(Workers, 5): publishing has a default, uploading has none.  *)
PushSlotFree ==
  Cardinality(InStage("pushing")) < IF Workers > 0 THEN Workers ELSE 5

(* FAULT: each chunk reports its own failures only.                        *)
ChunkFailures == InStage("failed")

FailedSoFar == failed \cup InStage("failed")

(* FAULT: a backend error is reported and the run goes on.                 *)
PublishErrorIgnored == FALSE

(* PushReceipts returns the first error, after every image was tried.      *)
PublishError == InStage("unpublished") # {}

(* FAULT: a failed check counts as a hit.                                  *)
UpstreamHitsOnError == SUBSET InputPaths(DOMAIN input)

(* The upstream check may fail, which only means that nothing is dropped,  *)
(* or miss a path that is there.                                           *)
UpstreamHits == SUBSET (Upstream \cap InputPaths(DOMAIN input))

(* FAULT: indices start at 0.                                              *)
InputsWithoutZeroBased(hits) == {i - 1 : i \in {j \in DOMAIN input : input[j] \notin hits}}

InputsWithout(hits) == {i \in DOMAIN input : input[i] \notin hits}

Return(result) == outcome' = result /\ pc' = "ended"

(* The next chunk, or the result: an error when a path failed.             *)
NextChunk(failures) ==
  IF todo # {} THEN pc' = "chunk" /\ UNCHANGED outcome
  ELSE Return(IF failures = {} THEN "ok" ELSE "partial")

-----------------------------------------------------------------------------

(* Unless forced, inputs upstream serves are dropped; none left is success.*)
FilterUpstream ==
  /\ pc = "filter"
  /\ \E hits \in IF ForcePush THEN {{}} ELSE UpstreamHits : todo' = InputsWithout(hits)
  /\ IF todo' = {} THEN Return("ok") ELSE pc' = "chunk" /\ UNCHANGED outcome
  /\ UNCHANGED <<prepVars, setup, stage, report, history, registry>>

(* No credential, an unknown compression, an unreadable key, no temporary  *)
(* directory: the run ends before it looked at anything.                   *)
SetupFails ==
  /\ pc = "filter"
  /\ Return("aborted")
  /\ UNCHANGED <<prepVars, setup, todo, stage, report, history, registry>>

PrepareChunk ==
  /\ pc = "chunk"
  /\ BeginPrepare(InputPaths(Chunk))
  /\ todo' = todo \ Chunk
  /\ stage' = [p \in Path |-> "idle"]
  /\ pc' = "prepare"
  /\ UNCHANGED <<setup, report, history, outcome, registry>>

PrepareLevel ==
  /\ pc = "prepare"
  /\ PrepareRefs
  /\ UNCHANGED <<todo, pc, stage, report, history, outcome, setup, registry>>

(* nix-store fails for some path, or no pusher can be made: the run ends.  *)
PrepareFails ==
  /\ pc = "prepare"
  /\ Return("aborted")
  /\ UNCHANGED <<prepVars, todo, stage, report, history, setup, registry>>

(* collect: every Result the chunk's Results lead to becomes one task.     *)
CollectTasks ==
  /\ pc = "prepare" /\ PrepareDone
  /\ stage' = [p \in Path |-> IF p \in Reachable THEN "queued" ELSE "idle"]
  /\ handled' = handled \cup Reachable
  /\ pc' = "upload"
  /\ UNCHANGED <<prepVars, todo, report, indexed, outcome, setup, registry>>

Move(p, from, to) ==
  /\ stage[p] = from
  /\ stage' = [stage EXCEPT ![p] = to]
  /\ UNCHANGED <<prepVars, todo, pc, report, handled, outcome, setup>>

BeginUpload(p) ==
  /\ pc = "upload" /\ UploadSlotFree
  /\ Move(p, "queued", "uploading")
  /\ UNCHANGED <<indexed, registry>>

UploadDone(p) ==
  /\ pc = "upload"
  /\ Move(p, "uploading", "uploaded")
  /\ blobs' = blobs \cup {p}
  /\ UNCHANGED <<indexed, tags>>

UploadFails(p) ==
  /\ pc = "upload"
  /\ Move(p, "uploading", "failed")
  /\ blobs' \in {blobs, blobs \cup {p}}
  /\ UNCHANGED <<indexed, tags>>

(* eg.Wait: the run is aborted when every upload of the chunk failed, else *)
(* the complete receipts are published if there are any.                   *)
FinishUploads ==
  /\ pc = "upload"
  /\ InStage("queued") = {} /\ InStage("uploading") = {}
  /\ failed' = FailedSoFar
  /\ IF InStage("uploaded") = {}
     THEN Return("aborted") /\ UNCHANGED <<stage, excluded>>
     ELSE LET up == InStage("uploaded")
              kept == CompleteReceipts(up)
          IN  /\ stage' = [p \in Path |-> IF p \in kept THEN "receipt"
                                          ELSE IF p \in up THEN "excluded"
                                          ELSE stage[p]]
              /\ excluded' = excluded \cup (up \ kept)
              /\ IF kept = {} THEN NextChunk(failed')
                 ELSE pc' = "publish" /\ UNCHANGED outcome
  /\ UNCHANGED <<prepVars, todo, history, setup, registry>>

(* PushReceipts cannot make its pusher: no image is started.               *)
PusherFails ==
  /\ pc = "publish" /\ Receipts = InStage("receipt")
  /\ Return("aborted")
  /\ UNCHANGED <<prepVars, todo, stage, report, history, setup, registry>>

(* PushReceipts starts the images in no particular order.                  *)
BeginPush(p) ==
  /\ pc = "publish" /\ PushSlotFree
  /\ Move(p, "receipt", "pushing")
  /\ UNCHANGED <<indexed, registry>>

(* The pusher writes the layers the registry lacks, then the manifest.     *)
PushDone(p) ==
  /\ pc = "publish"
  /\ Move(p, "pushing", "indexed")
  /\ blobs' = blobs \cup {p}
  /\ tags' = tags \cup {p}
  /\ indexed' = indexed \cup {p}

PushFails(p) ==
  /\ pc = "publish"
  /\ Move(p, "pushing", "unpublished")
  /\ tags' \in {tags, tags \cup {p}}
  /\ UNCHANGED <<indexed, blobs>>

(* eg.Wait of PushReceipts: one failed image fails the whole run.          *)
FinishPublish ==
  /\ pc = "publish"
  /\ InStage("receipt") = {} /\ InStage("pushing") = {}
  /\ IF PublishError THEN Return("aborted") ELSE NextChunk(failed)
  /\ UNCHANGED <<prepVars, todo, stage, report, history, setup, registry>>

(* The process is killed; what is in the registry stays, and the requests  *)
(* under way may still take effect there.                                  *)
Crash ==
  /\ outcome = "running"
  /\ Return("crashed")
  /\ \E late \in SUBSET InStage("uploading") : blobs' = blobs \cup late
  /\ \E late \in SUBSET InStage("pushing") : tags' = tags \cup late
  /\ UNCHANGED <<prepVars, todo, stage, report, history, setup>>

(* "re-run push to retry": the same command again, knowing nothing.        *)
Rerun ==
  /\ pc = "ended" /\ run < MaxRuns
  /\ run' = run + 1
  /\ pc' = "filter" /\ outcome' = "running"
  /\ todo' = {} /\ stage' = [p \in Path |-> "idle"]
  /\ failed' = {} /\ excluded' = {} /\ handled' = {} /\ indexed' = {}
  /\ roots' = {} /\ visited' = {} /\ frontier' = {}
  /\ missing' = [p \in Path |-> {}] /\ attached' = [p \in Path |-> {}]
  /\ UNCHANGED <<refs, input, registry>>

Init ==
  /\ PrepInit
  /\ input \in Inputs
  /\ todo = {} /\ pc = "filter" /\ stage = [p \in Path |-> "idle"]
  /\ failed = {} /\ excluded = {} /\ handled = {} /\ indexed = {}
  /\ outcome = "running" /\ run = 1
  /\ blobs = {} /\ tags = {}

Step(p) ==
  \/ BeginUpload(p) \/ UploadDone(p) \/ UploadFails(p)
  \/ BeginPush(p) \/ PushDone(p) \/ PushFails(p)

Next ==
  \/ SetupFails \/ FilterUpstream
  \/ PrepareChunk \/ PrepareLevel \/ PrepareFails
  \/ CollectTasks \/ FinishUploads \/ PusherFails \/ FinishPublish
  \/ \E p \in Path : Step(p)
  \/ Crash \/ Rerun

(* Go runs every goroutine that can run, and every registry request is     *)
(* assumed to end, well or badly.  Crashes and reruns are never owed.      *)
Fairness ==
  /\ WF_vars(FilterUpstream) /\ WF_vars(PrepareChunk) /\ WF_vars(PrepareLevel)
  /\ WF_vars(CollectTasks) /\ WF_vars(FinishUploads) /\ WF_vars(FinishPublish)
  /\ \A p \in Path : WF_vars(Step(p))

Spec == Init /\ [][Next]_vars

FairSpec == Spec /\ Fairness

-----------------------------------------------------------------------------

Stages == {"idle", "queued", "uploading", "uploaded", "failed", "excluded",
           "receipt", "pushing", "indexed", "unpublished"}

(* Type invariant.                                                         *)
TypeOK ==
  /\ PrepTypeOK
  /\ input \in Seq(Path)
  /\ todo \subseteq DOMAIN input
  /\ pc \in {"filter", "chunk", "prepare", "upload", "publish", "ended"}
  /\ stage \in [Path -> Stages]
  /\ failed \subseteq Path /\ excluded \subseteq Path
  /\ handled \subseteq Path /\ indexed \subseteq Path
  /\ outcome \in {"running", "ok", "partial", "aborted", "crashed"}
  /\ run \in 1..MaxRuns
  /\ blobs \subseteq Path /\ tags \subseteq Path

(* A chunk with one root is indexed all or nothing: once the root may be   *)
(* published, every path prepared for the chunk has been uploaded.  This   *)
(* is the closure guarantee of completeReceipts where it holds: from a     *)
(* lone root every prepared path is reached through MissingRefResults.     *)
SingleRootAllOrNothing ==
  \A r \in Path :
    roots = {r} /\ r \in Receipts => visited \subseteq Receipts

(* What a chunk leaves in the index hangs together: after the chunk, and   *)
(* when the run returns a result, each path it published has all its       *)
(* MissingRefResults published too, although the images are pushed in no   *)
(* order and some uploads may have failed.                                 *)
AttachedRefsIndexed ==
  pc = "chunk" \/ outcome \in {"ok", "partial"} =>
    \A p \in InStage("indexed") : attached[p] \subseteq tags

(* No path a run took up is lost track of: it is still under way, or was   *)
(* published, or is accounted for as failed or excluded.  A run that       *)
(* reports no failure has published every path of every chunk, so nothing  *)
(* is ever excluded without a failure that the user is told about.         *)
NothingSilentlyDropped ==
  /\ \A p \in handled :
       \/ p \in indexed \cup failed \cup excluded
       \/ stage[p] \in {"queued", "uploading", "uploaded", "failed", "receipt",
                        "pushing", "unpublished"}
  /\ outcome = "partial" =>
       failed # {} /\ handled \subseteq indexed \cup failed \cup excluded
  /\ outcome = "ok" => failed = {} /\ handled \subseteq indexed

(* Seen from outside a chunk is one step, the one CIRun takes for a push:  *)
(* some uploads fail, and of the images of what completeReceipts makes of  *)
(* the others some have been published, all of them once the chunk is done *)
(* with, whatever the order in which uploads and images came and went.     *)
ChunkIsOneStep ==
  LET kept == CompleteReceipts(Reachable \ InStage("failed"))
  IN  /\ InStage("indexed") \subseteq kept
      /\ pc = "chunk" \/ outcome \in {"ok", "partial"} => InStage("indexed") = kept

(* Every run ends: no order in which the goroutines of the two pools get   *)
(* their slots, and no failure, leaves RunPushTo waiting.  Needs a worker  *)
(* limit other than 0.                                                     *)
EveryRunEnds == outcome = "running" ~> outcome # "running"

(* What it takes for that.  Nothing is ever stuck: an upload or an image   *)
(* is under way, or a slot is free for one that is not, or all are through *)
(* and the run goes on.                                                    *)
PushNeverStuck ==
  outcome = "running" =>
    \/ pc \in {"filter", "chunk", "prepare"}
    \/ /\ pc = "upload"
       /\ InStage("uploading") = {} => InStage("queued") = {} \/ UploadSlotFree
    \/ /\ pc = "publish"
       /\ InStage("pushing") = {} => InStage("receipt") = {} \/ PushSlotFree

(* And there is no way back: within a run every step takes inputs off the  *)
(* list; or goes on to the next place with the same list; or, at the same  *)
(* place, finds paths or moves one path on.                                *)
Place == [filter |-> 0, prepare |-> 1, upload |-> 2, publish |-> 3, chunk |-> 4, ended |-> 5]

Onward == {<<"queued", "uploading">>, <<"uploading", "uploaded">>, <<"uploading", "failed">>,
           <<"receipt", "pushing">>, <<"pushing", "indexed">>, <<"pushing", "unpublished">>}

PathAdvances ==
  \E p \in Path : /\ <<stage[p], stage'[p]>> \in Onward
                 /\ \A q \in Path \ {p} : stage'[q] = stage[q]

RunAdvances ==
  \/ pc = "filter" /\ pc' # "filter"
  \/ /\ pc # "filter" /\ pc' # "filter"
     /\ \/ todo' \subseteq todo /\ todo' # todo
        \/ todo' = todo /\ Place[pc] < Place[pc']
        \/ todo' = todo /\ pc' = pc /\ visited \subseteq visited' /\ visited' # visited
        \/ todo' = todo /\ pc' = pc /\ visited' = visited /\ PathAdvances

RunMovesOn == [][run' = run + 1 \/ (run' = run /\ RunAdvances)]_vars

(* What a user of the command may rely on: PushContract.                   *)
Contract == INSTANCE PushContract WITH
  wanted <- {input[i] : i \in DOMAIN input}, served <- tags, WithRefs <- PrepareMissingRefs

ImplementsContract == Contract!Spec

-----------------------------------------------------------------------------
(* The inductive invariant behind the safety properties above.             *)

(* Which stages a path can be in at each point of a chunk; the tasks are   *)
(* the visited paths.                                                      *)
StageInv ==
  /\ outcome = "running" <=> pc # "ended"
  /\ pc \in {"filter", "prepare"} => \A p \in Path : stage[p] = "idle"
  /\ pc = "upload" => \A p \in Path :
       stage[p] \in {"idle", "queued", "uploading", "uploaded", "failed"}
  /\ pc = "publish" => \A p \in Path :
       stage[p] \in {"idle", "failed", "excluded"} \/ p \in Receipts
  /\ pc \in {"upload", "publish"} =>
       \A p \in Path : stage[p] # "idle" <=> p \in visited

(* What may be published hangs together; what was published is tagged.     *)
ReceiptInv ==
  /\ ClosedUnderAttached(Receipts)
  /\ InStage("indexed") \subseteq indexed /\ indexed \subseteq tags
  /\ pc = "chunk" \/ outcome \in {"ok", "partial"} => Receipts = InStage("indexed")

(* What is reported accounts for what was taken up.                        *)
AccountInv ==
  /\ NothingSilentlyDropped
  /\ pc = "filter" => handled = {} /\ failed = {}
  /\ pc \in {"chunk", "prepare"} => handled \subseteq indexed \cup failed \cup excluded
  /\ pc = "publish" => InStage("failed") \subseteq failed /\ InStage("excluded") \subseteq excluded
  /\ failed = {} => excluded = {}

(* What was taken up covers the inputs dealt with so far, and their needs. *)
CoverInv ==
  /\ visited \subseteq Contract!Needed
  /\ pc \in {"upload", "publish"} => visited \subseteq handled
  /\ PrepareMissingRefs => \A p \in handled : refs[p] \subseteq handled \cup Upstream
  /\ pc \in {"chunk", "prepare", "upload", "publish"} \/ outcome \in {"ok", "partial"} =>
       \A i \in DOMAIN input :
         \/ i \in todo
         \/ input[i] \in Upstream \cup handled
         \/ pc = "prepare" /\ input[i] \in roots

(* What may be published is what the walk over the uploads left, and stays *)
(* that until the next chunk, although the walk is only done once.         *)
Kept == CompleteReceipts(visited \ InStage("failed"))

KeptInv ==
  /\ pc = "filter" => visited = {}
  /\ Receipts \subseteq Kept
  /\ pc \in {"chunk", "publish"} \/ outcome \in {"ok", "partial"} => Receipts = Kept

PushInv ==
  TypeOK /\ PrepInv /\ StageInv /\ ReceiptInv /\ AccountInv /\ CoverInv /\ KeptInv

-----------------------------------------------------------------------------
(* A statement of the repository the code does not live up to.             *)

(* "Only index store paths whose full closure was uploaded": a path that   *)
(* may be published has every reference in the registry or upstream.       *)
IndexedClosureUploaded ==
  PrepareMissingRefs => \A p \in Receipts : refs[p] \subseteq blobs \cup Upstream

=============================================================================
