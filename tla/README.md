# Verification of aeroflare

aeroflare turns an OCI registry into a Nix binary cache. `aeroflare push` takes
store paths, works out which paths of their closure no upstream cache has,
uploads a compressed NAR of each as a blob and publishes an image per path
whose tag is the store hash. A local proxy or an edge worker serves narinfos
and NARs out of those images. `aeroflare-ci` builds a list of installables and
pushes the results to one or more caches.

This directory holds TLA+ modules translated from that code, the TLC
configurations that check them and theorems that TLAPS checks. Every
definition that models code is listed with its lines in `PROJECT.json` ("map").

## 1. The system

| Component | State | Operations | Talks to | What makes it hard | What makes it correct |
|---|---|---|---|---|---|
| Preparation, `pkg/prepare/prepare` | per batch: `visited`, the Results with `MissingRefs` and `MissingRefResults` | `Prepare`, `PrepareBatch`, `prepareRefsRecursive` | the Nix store, the upstream check | one level of references at a time, paths shared between branches, upstream asked again at every level with possibly other answers | ends; everything of the closure that upstream lacks is prepared once and can be found from the roots; the graph of Results has no cycle |
| Push, `pkg/push`, `internal/backend` | tasks, receipts, failed and excluded lists per chunk; registry | `RunPushTo`, `completeReceipts`, `PushReceipts`, `PushPath` | preparation, upstream check, registry client | two bounded pools of goroutines, chunks published before later chunks are tried, partial failures, crashes and retries by hand | what is indexed can be substituted; nothing is lost without being reported; a successful push means the closure is served |
| Prepared push, `pkg/push/prepared.go` | the prepared set, reused for several caches | `Prepare`, `PushPrepared`/`PushTo` | the same | the same set is pushed to caches in different states | as above, per cache |
| Registry client, `pkg/oci` | a pusher with its session | blobs, manifests, tags, authentication | the registry | requests that fail after they took effect | — |
| Upstream check, `pkg/prepare/cache` | results and in-flight table of each `Cache` | `Exists`, `ExistsBatch`, `Group.ExistsBatch` | HTTP | workers that wait for each other's request, early return on error, several members | never a hit that is not there; a member that answers counts in full; nobody waits for ever |
| CI run, `internal/ci` | builds, union of outputs, prepared set, results per cache | `Run`, `filterRoots`, `BuildInstallable` | nix, upstream check, push | partial builds, missing tokens, partial pushes in one run | a cache reported done serves the builds; green means all of them do |
| CI change detection, `internal/ci/changed.go` | — (but each diff relies on what earlier runs have cached) | choose a base, walk back to a commit that evaluates, diff derivations, missing-base policy | nix, git, CI run | pushes of several commits, forced pushes, shallow checkouts, runs that overlap or fail | what is not built is cached already, unless a run can be named that is to blame; a broken output is not passed over |
| Secrets, `internal/secrets` | OS keychain, fallback file, key index; per process whether the keychain answers | `Set`, `Get`, `List`, `Delete` | keychain, file system | two stores, an index beside the values, several processes, no lock between them | what was stored is found, what was deleted is gone, the list names what exists |
| NARs and narinfos, `writeNarAndNarinfo`, `pkg/prepare/store`, `compress` | a temporary directory, a job channel, a result channel | path infos, dump, compress, hash, write, collect, layer, clean up | nix, the registry client | workers that share a directory and outlive a failed batch, a path named twice, a dump that dies unnoticed | what the registry takes is the NAR of the store; nothing is left behind |
| Local proxy, `pkg/proxy` | none between requests; the server's life | narinfo, NAR, start, stop | registry, upstream caches | streams cut short, sources that fail in turn, manifests replaced between two requests, a process that ends under them | what looks complete is; one working source is enough; narinfo and NAR agree |
| Edge worker, `proxy/no-webui-native/worker.js` | manifest cache, bearer and challenge; edge cache | narinfo, NAR, public key | registry | caches with different lifetimes, shared tokens across awaits | as the proxy, for bounded staleness |
| Authentication, `internal/auth`, `pkg/cmd/auth` | saved credentials (Secrets), the environment | device flow, resolution, forms, set, import, remove, validation | GitHub, secrets | a ticker against a server that slows it down, late answers and a deadline; forms that are cancelled or left blank | the server's interval is kept; a token comes only from an answer that grants one |
| Provisioning and configuration, `internal/init`, `pkg/cmd/configure` | the run's answers; registry configuration, assets, worker, route | wizard, `init`, `configure` | authentication, registry, Cloudflare | several remote steps that are interrupted, repeated and overlap; read-modify-write with a form in between | "Setup complete!" means it is; no key is lost unnoticed |
| CI configuration, `internal/ci/config.go`, `discover.go` | the list of builds | choose, refuse, expand | nix, CI run | inputs replace the file, sentinels expand to lists that overlap | the list handed to the run |
| The rest | — | the run wrapper, flags, terminal output, hash and narinfo formats, build scripts | | | |

`PROJECT.json` "components" gives the status of each part, and "hazards" lists
the places where this code can go wrong in ways a test hardly reaches.

## 2. The modules

    PrepareClosure ──EXTENDS── PushPipeline ──INSTANCE (refines)── PushContract
          │                                                            │
          ├──────────EXTENDS── CIRun ─────INSTANCE, per cache (refines)┘
          └──────────EXTENDS── ReceiptWalk   (justifies CompleteReceipts, which the others take in one step)
    Changed           (many CI runs over a history; CIRun is one step of it)
    UpstreamCheck     (justifies PrepareClosure's assumption about upstream answers)
    NarWriter         (the files and layers PrepareClosure and PushPipeline take for granted)
    DeviceFlow ──EXTENDS── Provision
    BuildList ──EXTENDS── MCCIRun   (the lists CIRun may be started with)
    Secrets, EdgeWorker, LocalProxy   (stand alone)
    *Proofs           (theorems and proofs)     MC*  (instances for TLC)

**PrepareClosure** is `PrepareBatch` with `prepareRefsRecursive`. `visited`,
`missing` and `attached` are the map and the two Result fields of those names;
a level of the recursion is the step `PrepareRefs`, because its workers write
one NAR each and share nothing; `BeginPrepare` is the root level. An upstream
check may overlook hits (`Observed`), each time anew. The answers of a level
are chosen in the step that starts it. The module also defines what the push
does with the Results: the walk that collects tasks (`Reachable`) and the set
`completeReceipts` keeps (`CompleteReceipts`).

**ReceiptWalk** is `completeReceipts` call by call. `walks` and `asks` are the
stacks of its two recursive functions, `walk` and `complete`; what the loop of a
call has not come to is kept by path (`toWalk`, `toAsk`), since `seen` and the
memo let no path get as far as its loop twice. `spoiled` are the calls of
`complete` whose `ok` is false, `memo` has the entries and the in-progress mark.
Results and references are taken in any order. It runs on every graph of Results
that PrepareClosure leaves and shows what the other modules assume when they
take `CompleteReceipts` for its result.

**PushPipeline** is `RunPushTo` with `NativeBackend.PushReceipts`. `pc` is the
place in `RunPushTo`; `stage[p]` says how far the goroutine of path p is
(`queued → uploading → uploaded/failed`, then `receipt → pushing →
indexed/unpublished` or `excluded`). Every request is a step to begin and a
step to end it, and other goroutines move in between. A failed request may have
taken effect. `Crash` kills the process anywhere, `Rerun` starts the command
again with nothing but the registry (`blobs`, `tags`). `handled` and `indexed`
are history variables.

**PushContract** is the abstract specification: while a push runs, more paths
that its inputs need are served; if it ends "ok" a part of what is served makes
all inputs substitutable; any other end promises nothing except that nothing
served is withdrawn. Two modules implement it. `ImplementsContract` of
PushPipeline is the refinement of one push, with `served <- tags`.
`CIImplementsContract` of CIRun is that of a whole CI run, once for each cache:
what is wanted are the outputs of all builds of the list (`BuildOutputs`), what is
served is what that cache serves, and a green run is a push that succeeded
(`CacheOutcome`).

**UpstreamCheck** is one `Group.ExistsBatch`. `job[m][i]` is the worker that
handles hash i for member m. `Recall`, `Join` and `Lead` are the three ways out
of the critical section of `Exists`; `Answered`, `Failed` and `ReadAfterWait`
what follows. `BatchFails` is the early return of `ExistsBatch`, after which its
workers still run and nobody receives: `RoomForReply` is the capacity of the
result channel, which counts what was sent as if none of it had been received.

**CIRun** is `ci.Run`: build, filter, prepare (on PrepareClosure), push to each
cache. A push to one cache is a single step, since its interleavings are those
of PushPipeline and nothing in the run looks at a cache meanwhile;
`ChunkAlwaysOneStep` (section 5) says that a chunk there publishes what such a
step does.

**Changed** is `builds: changed` over the life of a branch. `flake` and `parent`
are the commits, in the order they were made; `runs` holds one record per CI
run with the locals of `newDiffer` (`have` is the checkout, `cand` and `tries`
the rest of the list of `baseAncestry`), `cache` the derivations that are
served. `Push` brings one or more commits and starts a run for the last, whose
`ref` is the branch's old commit; `Rewind` is a forced push to a commit that
exists; `Dispatch` a run without a push, where `ref` can only come from the
`base` setting. `VerifyBase` chooses the checkout: `git` sees only what is in
it. `TakeBase` and `SkipBase` are the loop of `firstEvaluatable`, `MissingBase`
the policy. `Build` is the rest of `ci.Run`, any part of which may fail;
GreenRunServesEverything of CIRun says why green means that all of the list is
served. `vouched` is a history variable: whether a run for the base had been
green when the diff was taken. Runs share nothing but the cache.

**Secrets** is `defaultManager`. `kcVal` and `kcKeys` are what the keychain
holds (values, and the index entry if there is one), `file` is
`secrets.json`, `available` the cached answer of the probe. `op[c]` is the call
of a goroutine with its locals: `at` is its place, `seen` the file as it read
it, `keys` the index it will write. Each keychain call, each read and each
rename is a step; the mutex is the condition of `Begin`. A corrupt file reads
as empty, and moving it away is a later step (`Discard`), which is where
callers without the mutex get in. `mine`, `gone` and `exposed` are history
variables, and so is `moved`. `Restart` ends a process, or kills it, and a new one may find the
keychain otherwise.

**EdgeWorker** is `worker.js`, one isolate and the edge cache in front of it.
`manifests`, `bearer` and `challenge` are `manifestCache`, `cachedBearer` and
`cachedChallenge`; `edge` is what Workers Cache holds on account of the
Cache-Control headers. An action runs from one await to the next: `Arrive`
answers from the manifest cache or calls `registryFetch`, `Mint` and `Minted`
are `mintToken` and what is done with the token, `Serve` is the registry,
`Receive` goes on with the answer, `Answer` passes the response to the edge. The
content behind a tag is a version number, counted up by `Publish`. `Bare` are the
versions whose manifest lacks what a URL asks for: the worker answers them with
`notFound` (`Has`), but keeps the manifest as it keeps any. The configuration
that init writes has no key, so it is one of them for the key. Time passes in
`Tick`; a request takes at most `Delay` ticks. `superseded` is a history
variable: for how long a version has been out of date.

**NarWriter** is what PrepareClosure does in one step. `worker[w]` is a
goroutine with the job it took from the channel and how much of the dump it has
copied; `nar` and `narinfo` are the files, a file being the sequence of chunks
written to it, so that two writers of one file overwrite each other where they
are. `good` and `bad` are the results in the channel; `BatchDone` and
`BatchFails` are the loop that collects them, which returns at the first error
while the workers go on. `EndOfDump` closes the pipe without looking at the
exit status. `Upload` is the layer made from the narinfo alone: the registry
takes the blob only if the file has the digest and size announced. `CleanUp` is
the deferred removal; a file that is open then is `linked` no more, and a worker
that takes its next job makes the directory anew. A short NAR is a history
variable (`cut`): a dump of its path ended early.

**LocalProxy** is a narinfo request and the NAR request that follows it.
`req[c]` is the request of a client with the locals of its handler, `at` where
it is: `lookup` (the manifest), `fields` (the narinfo fields, in its annotations
or in the config), `open` (the blob), `upstream` (the caches from `next` on),
`stream` (a copy under way). A body is the sequence of its parts, each marked
with its source. `sized` says whether the response has a Content-Length;
`AfterBreak` is the panic that takes the connection down, so that a client can
tell. `Publish` replaces the image between any two steps; `Stop` and `Exit` are
the interrupt and the return of the command, which does not wait for
`Shutdown`. `could`, `failed` and `shaken` are history: who could have answered,
who let the request down, and whether anything has changed since the narinfo.

**DeviceFlow** is `pollAccessToken`: a ticker (`due`, `ticked`: its channel
holds one tick), the interval that `slow_down` raises, a request that takes up
to its own timeout, and the deadline. Time passes in units; the goroutine runs
at once when it can.

**Provision** is `init` and `configure`, each run a record in `proc`: `at` is
where it is, `have` the credentials it has resolved. The credentials come first
(`ResolveCloudflare` to `FlowEnds`: environment, saved ones, forms, the device
flow of DeviceFlow), by the kind of registry; `AuthSet`, `AuthImport` and
`AuthRemove` change the saved ones meanwhile. Then init goes through the wizard's
last questions and the steps of `RunProvision` (`PushConfig`, `FindScript`,
`CollectAssets`, `OpenSession`, `UploadBucket`, `Deploy`, `EnableRoute`), and
configure reads the manifest, shows its form and writes it back (`Fetch`,
`KeyForm`, `PushConfig`). Every request may be carried out and its answer lost,
every run may end anywhere (`Exit`) and be begun again.

**BuildList** is how entries of the file, inputs and what the flake exposes
become the list that is built. MCCIRun starts CIRun from each list it yields.

Definitions marked FAULT are plausible slips in the code. The specifications do
not use them; `PROJECT.json` "mutants" names, for each property, the slip that
makes TLC report it violated.

## 3. The runs

| Run | Checks | Instance |
|---|---|---|
| prepare_closure | `ResultsAcyclic`, `ResultsReachable`, `ClosurePrepared`, `WalkFindsCompletePaths` | every Nix reference graph over four paths (acyclic but for self-references, which all paths have or none; three of the paths are alike), every sequence of batches; the walk for every set of uploaded paths, roots and references in every order |
| push_rerun | `TypeOK`, `NothingSilentlyDropped`, `SingleRootAllOrNothing`, `AttachedRefsIndexed`, `ImplementsContract`, `EveryRunEnds` | three paths, four shapes, lists up to four long with a repetition, two runs, two workers |
| upstream_check | `NoInventedHits`, `ReachableMembersCounted`, `SingleRequest`, `NoWorkerStranded`, `EveryWorkerEnds` | two members, two workers, lists with repeated hashes |
| ci_run | `CITypeOK`, `PushedCacheServesBuilds`, `CIImplementsContract` | three paths, two caches, three installables in every list that BuildList makes of four files and three inputs, sentinels and repetitions among them |
| changed | `TypeOK`, `HolesExplained`, `ThrowingNeverGreen` | three commits in pushes of one or two, three runs, one output with two derivations (symmetric) that may also be absent or fail to evaluate, a walk of two steps, any evaluation failing |
| secrets | `TypeOK`, `OwnWritesRead`, `DeletedIsGone`, `PlaintextOnlyWithWarning` | one process after another with two writers and a reader, two keys and two values (symmetric); refused keychain calls and file writes, crashes, a corrupt file |
| edge_worker | `TypeOK`, `MissesShort`, `KeysRotate`, `OnlyFaultsFail` | two requests (symmetric) for a NAR and the key, one push, a configuration without a key, then with one, then with another, all lifetimes one tick, tokens of two ticks; evictions, cold starts, failing requests |
| nar_writer | `TypeOK`, `UploadsExact`, `LeftoversExplained` | two workers, up to four jobs for two paths, one of them named up to three times, NARs of two chunks; dumps that stop early, files that fail |
| local_proxy | `TypeOK`, `CompleteIsWhole`, `NotFoundExplained`, `MismatchExplained` | a client that asks again and again; three upstreams, one of which names its NARs otherwise, any of them with the path; three images, without fields, with fields in the config and in the manifest; bodies of two parts; all failures, a push at any time |
| init | `TypeOK`, `CompleteMeansSetUp`, `IntervalKept`, `KeyLostExplained` | two runs (symmetric) of init or configure, at ghcr.io, registry.gitlab.com or another registry, a worker with no or two assets, one public key; saved credentials that change; the device flow with requests that outlast a tick |
| claim_closure, claim_list | one statement of the repository each | see section 4 |

*Bounds.* Four paths are the smallest store with a diamond and with a reference
that turns up on two levels, which is where sharing of Results matters. A chunk
of two stands for 100: the lists used are shorter than, equal to and longer
than one chunk, and one names a path twice. `MaxRuns` 2 is one crash or failure
and its retry; a third run starts from nothing the second could not start from,
a registry with any part of the paths in it. Two workers let two requests
overlap, one makes a goroutine wait for its slot. The theorems of section 5
need none of these bounds.

For Changed, three commits are one that was built, one in between and one that
is compared with the first; outputs are compared one by one, so one is enough
for what the diff leaves out. Three runs let one rely on another that relies on
a third. A walk of two steps can end at its limit, at the boundary of a shallow
checkout and at the root. The theorems need none of these bounds.

For Secrets, two keys are one that is touched and one that must not be; two
writers are enough for a lost update. Failing reads of the file are left out,
since `DeletedIsGone` does not survive them (section 4), and so is a second
process, whose copy of the file would bring deleted keys back. The theorem about
`PlaintextOnlyWithWarning` covers both. `OwnWritesRead` stops expecting
anything of a process that has seen a file with secrets moved away (section 4).

For EdgeWorker, a lifetime of one tick against a request of up to one tick lets
an answer expire before, while and after it is used, and a token that reaches
the worker late is reused for longer than it lives. Two requests share a token,
a challenge and a manifest. A narinfo is answered like the key (from the
manifest) and cached like the NAR, so the run leaves it out. The configuration is
that of init, which has no key, then two of configure: the first ends a miss, the
second replaces a key. Both bounds are reached: with one tick less TLC finds
MissesShort violated, with and without a manifest that was there before, and
KeysRotate. The theorems take any lifetimes and any manifest to lack anything;
their one assumption is that a token lives longer than a request takes.

For NarWriter, two workers let one finish, or go on, while the other fails, and
four jobs leave one in the channel at that moment; two chunks let a second
writer of a file be behind, beside or ahead of the first. For LocalProxy one
client is enough, since requests share no state but what a push, an upstream and
the process do to all of them; three upstreams put one before and one after the
kind that names NARs otherwise; three images cover the places the fields may be
in, and two pushes in one life. The theorems take any number of each.

For Provision, two runs are one and whoever comes in between; a run that is
begun again is a new one. Times are in units of about 3 s: a tick every two
units, 5 s of back-off as one, requests of up to three, and a life of seven
units, in which slow_down can come more than once and a request can outlast a
tick and the deadline. While a device flow runs the other process rests, since
the flow shares nothing. The account id is in the environment and the API token
is not, so that one half of a pair can be there; both halves can be saved and
removed. A flag or a value of the configuration file takes the environment's
place in the order of resolution and would only enlarge `Given`.

*Deadlock.* A command ends, and so do the models of commands: their
configurations switch the deadlock check off. `EveryRunEnds` and
`EveryWorkerEnds` say that they do not stop anywhere else. nar_writer and
local_proxy switch it off too: a push ends, and so does a proxy with its
clients. prepare_closure, secrets, edge_worker and init keep the check.

*Fairness.* Weak fairness of goroutine steps is Go's scheduler. That every
request ends is justified for upstream checks by the client's timeout of 10 s
(`cache.go:53`). For the registry it is an assumption: its transport has no
response timeout and its context is never cancelled. Crashes and reruns are
never assumed to happen.

## 4. Where the code and its documents differ

- **claim_closure** (`push.go:418`, "Only index store paths whose full closure
  was uploaded"). Let a reference b and c, and b reference c. Both are prepared
  on one level, so c is attached to a but not to b. When the upload of c fails,
  a is withheld and b is published with a reference nobody serves. What does
  hold is `SingleRootAllOrNothing` and `AttachedRefsIndexed`, and for pushes
  that report no failure, `ImplementsContract`.
- **claim_list** (`manager.go:141`, "Either way the key is recorded in the index
  so List can find it"). The index that is compared may be the file's while the
  keychain has none, and then none is written.

The following have no run of their own. Some are stated in a module, for whoever
wants to see the counterexample:

- `NoGoodFileMoved` of Secrets (`manager.go:74`, concurrent callers cannot
  clobber each other). A reader moves away the good file that has replaced a
  corrupt one.
- `NarMatchesNarinfo` of EdgeWorker (`worker.js:31`, "narinfo and NAR responses
  are keyed by the store hash, so their content never changes"). A second push
  replaces the image; the edge goes on answering with the narinfo of the first
  and takes the NAR, if it has not been asked for before, from the second.
- `WalkLeavesNoHole` of Changed (`docs/docs/explanation/aeroflare-ci.md:126`, the
  walk does not "leave a hole in the cache"; `changed.go:259` says the same). The
  commits the walk skips have nothing to cache, but the one it stops at may never
  have been the last commit of a push: it evaluates, no run was for it, and what
  it has in common with HEAD is not built. This needs no forced push, no failure
  and no policy but the default.
- `NotKilledMidRequest` of LocalProxy (`pkg/cmd/proxy/proxy.go:118`, the context
  is cancelled "so StartProxy can shut down its listener cleanly instead of the
  process being killed mid-request"). Shutdown waits for the requests under way,
  but `proxyRun` returns as soon as the context ends. `CompleteIsWhole` says that
  the client can tell.
- `provision.go:29`, "Each step is idempotent where possible". Running init again
  writes a manifest without annotations, so the public key is gone
  (`KeyLostExplained` has to allow for it), and a blank answer for the Worker's
  token deploys it without the one it had. The manifest is written before blank
  Cloudflare credentials are noticed.
- `wizard.go:152`, "prompt only for what's missing". RequireCloudflareToken asks
  for token and account again when one is missing, and goes on with what was
  entered, not with the half it had resolved.
- `shared.go:168`, "prompting interactively … if credentials aren't already
  saved". For registry.gitlab.com the service has no username, so configure, push
  and run find no pair and ask every time, and save what is entered where nobody
  reads it (`ResolvePair`, `OciForm`). RunInteractiveOCIAuth also saves blanks
  over a half that was saved.
- `configure.go:57`, "TokenForRegistry already fails when no credential can be
  found". A form left blank returns a blank token and no error.
- `github.go:107`, "honoring the server-specified interval … between requests".
  After a request that outlasted a tick the next one is sent at once, and the one
  after that at the next tick, sooner than the interval: the exception in
  `IntervalKept`.

More follows from the models but has no run of its own. The first push of a
branch is said to have no base (`docs/docs/reference/ci-configuration.md`,
`on-missing-base`: "a first push to a branch (whose reported base is the null
SHA)"), so that the default builds everything; `resolveBaseRef` takes HEAD~1,
and when the push has several commits only what its last one changed is built.
`HolesExplained` counts that hole among those of a base nobody had vouched for.
A second push uploads
what the first has indexed, since only upstream caches are asked (`push.go:153`
and `doc.go:5` speak of the cache index too): `ImplementsContract` and
`EveryRunEnds` are checked over such runs, and `NarMatchesNarinfo` fails by it. A chunk all of whose uploads fail aborts the run (`doc.go:8`: "A
per-path upload failure does not abort the run"): `FinishUploads`'s "aborted"
outcome. One failed read
of the index makes `Set` replace it by a single key, without an error: with
`Faults = {"keychain"}` that is what violates `ListFindsStored` first. `Delete`
skips a fallback file it cannot read and reports success (`manager.go:237`
against `manager.go:223`, "the fallback file is always cleaned up as well"):
`"file_read"` added to the faults of the run violates `DeletedIsGone`. And a
path skipped as a root can be prepared as a dependency (`ci/run.go:88` says it
is not), because preparation asks a group of its own again and may get another
answer.

## 5. The theorems

TLAPS proves these for every store, every reference graph, every worker limit,
chunk size, number of runs, and so on. The assumptions are those the modules
name: graphs are functions to sets of paths, input lists are sequences of
paths, the chunk size is a positive number.

- `PushProofs`, on the preparation. The inductive invariant `PrepInv` says: every
  set that holds the roots and is closed under `attached` holds all visited paths
  (so what is prepared is reachable); only visited paths that are not roots are
  attached; the Results of the deepest level have none attached yet; the graph
  has no cycle, stated as "every non-empty set of paths has a member with
  nothing attached in it"; what is missing from a finished level is visited.
  The last level is the reason for `frontier`: new Results are attached only to
  it and have none attached themselves, so no cycle can close. From it follow
  `ResultsNeverCyclic`, `ResultsAlwaysReachable`, `ClosureAlwaysPrepared`,
  `RootsNeverAttached` and `AnswersAlwaysDetermined`: what `complete` says of a
  path in terms of what it says of the attached ones has one solution,
  `CompleteReceipts`. Of two solutions, take what one has and the other lacks; a
  member with nothing attached in that set is decided alike by both.
- `PushProofs`, on `completeReceipts`. `AskStackInv` says that the calls of
  `complete` under way form a path in the graph of Results, and that each but
  the innermost waits for the next one alone; `MemoInv`, that a call's `ok` is
  what the memo says of the references its loop has come to, and that an entry
  whose call has returned is right: its path is in `CompleteReceipts`, or it is
  not; `SeenInv`, that what a walked path leads to is walked or still ahead of a
  `walk` under way. An answer is right when a loop is through, because by then
  every reference has an answer that is right, and there is one solution only.
  The step that needs `ResultsAcyclic` is that of a reference which is being
  decided itself: the calls from its own on would be a cycle, so the in-progress
  mark is never read (`InProgressIsNeverAsked`, which no run checks). It gives
  `WalkAlwaysFindsCompletePaths`, with `PrepInv` for the walk ending only when it
  has seen all that was prepared.
- `PushProofs`, on a push. `PushInv` adds five parts to it. `StageInv`: which
  stages occur at which place, and tasks are exactly the visited paths.
  `ReceiptInv`: what may be published is closed under `attached`.
  `AccountInv`: every path taken up is in one of the lists. `CoverInv`: the
  inputs dealt with so far and their references are taken up. `KeptInv`: what may
  be published is what `completeReceipts` makes of the uploads, from the walk to
  the next chunk. Each part has its step lemma. They give `SingleRootClosure`,
  `AttachedRefsAlwaysIndexed`, `NothingEverSilentlyDropped`,
  `ChunkAlwaysOneStep` (which no run checks) and the refinement
  `PushImplementsContract`, where the served part that makes the inputs
  substitutable is `handled`.
- `UpstreamCheckProofs`. `MemberInv` ties the tables of a member to what it
  holds. The clause on woken workers is the interesting one: a worker woken
  without an answer belongs to a batch that has already failed. It gives
  `HitsNeverInvented` (which is what `Observed` in PrepareClosure assumes),
  `ReachableMembersAlwaysCounted` and `RequestsAlwaysSingle`. `TableInv` says that
  the table of requests holds those under way and no others, and that whoever
  waits finds its hash there. It gives `NoWorkerEverStranded` and, as long as
  jobs are left, something to do for a worker (`PoolNeverGetsStuck`, which no run
  checks): if nobody makes a request and nobody has been woken then nobody waits,
  so the whole pool is free, whatever its limit; and as long as a job is left the
  result channel has room, whether or not anybody still receives. `TypeOK` is proved
  (`CheckTypeCorrect`) and in no run.
- `PushProofs`, on a CI run. `CIInv` on top of `PrepInv` gives
  `PushedCachesServe` and `GreenRunsServe` (`GreenRunServesEverything`: every cache
  serves all that was to be built). `NeededInv` adds that what is filtered out,
  prepared and pushed is part of what the builds need. With both, each step of a
  run is, for each cache, a step of the contract or none: PushTo serves more in
  one cache and changes nothing for the others, and the ways to return split into
  "ok", which `GreenRunServesEverything` allows, and giving up. That is
  `CIRunImplementsContract`. These theorems take for a hypothesis
  that references are prepared (`PrepareMissingRefs`), as `prepared.go:97` has
  it; a push may be told otherwise.
- `ChangedProofs`. `ChangedInv` adds to the properties that a list of builds is
  still the difference it was when it was made, and that whoever vouched for a
  base goes on doing so. When a run turns green, an output it left out and the
  cache lacks is the same at its base; either nobody had vouched for that base,
  or the green run that did has the same hole and, by the invariant, an
  explanation. It gives `HolesAlwaysExplained` and `ThrowingNeverGreenAlways`,
  for every history and any interleaving of runs. Forced pushes need no case of
  their own, since nothing is assumed of the order of base and HEAD.
- `SecretsProofs`. `PlainInv` extends `PlaintextOnlyWithWarning` from the file to
  every copy of it that some call has read and to what a call is about to write.
  It gives `PlaintextAlwaysWarned`, for any number of processes. The other two
  properties need what their theorems assume: one process (`Process = {p}`) and no
  failing read of the file. `SerialInv` says that the mutex leaves one call under
  way, and what that call may rely on (`Working`): the file is as it read it or
  has been moved away, what it read holds nothing of a deleted key, and the
  stores it has been through hold its value, or none. It gives
  `OwnWritesAlwaysRead` and `DeletedAlwaysGone`.
- `EdgeWorkerProofs`. `StaleInv` bounds the age of every copy of a version by
  where it is: read by a request, it is out of date for no longer than the
  request's age; in the manifest cache, by a request more than the time it has
  been there; in the edge, so that age and remaining lifetime add up to no more
  than `AnswerLag` and the lifetime of the answer: a request if nothing was
  tagged, and else two requests and a tick less than the manifest's lifetime,
  also for a miss, when the manifest lacks what is asked for. For tokens it says that one obtained after a 401
  and the age of its request add up to at least a token's life, so such a token
  is never refused. It gives `MissesAlwaysShort`, `KeysAlwaysRotate` and
  `OnlyFaultsEverFail`.
- `LocalProxyProofs`. `ProxyInv` is an invariant of each request: `CopyInv`
  (nothing is sent before a copy, and a copy is of one source), `SearchInv`
  (whoever could have answered and was passed over has failed, or has no narinfo
  fields), and, as long as nothing has shaken the client, `ChoiceInv`: the request
  goes by the current image, and the narinfo it follows came from the first source
  that has one (`First`). For the NAR, a source before that one does not have the
  path, so the second search ends where the first did. It gives
  `CompleteAlwaysWhole`, `NotFoundAlwaysExplained` and `MismatchAlwaysExplained`.
  `NamesAssumption` keeps the names of sources apart.

- `NarWriterProofs`. `UploadsExact` alone is not inductive: nothing in it says
  what the files hold that are still to be uploaded. `NarInv` adds that a job is
  handed out once and has one result (`JobInv`), that what is described is a
  whole NAR or one that was cut (`CutInv`), and, while no job has failed
  (`Undisturbed`; after a failure nothing is uploaded, and files may go under
  their writers), what every file holds. A file that several workers write
  because its path is named twice is whole, or the worker that emptied it last
  is still copying and its part is right (`SharedFile`): the others write the
  same bytes at the same places. That fails once a dump of the path is cut short,
  which is why only such files can be refused. The file of a path named once is
  what its worker has copied, then what its narinfo describes (`OwnFile`), cut
  or not. The lemma `WriteOver` is what one write at an offset does to either.
  It gives `UploadsAlwaysExact`, `LeftoversAlwaysExplained` and `NarTypeCorrect`,
  for any number of workers, jobs and chunks.
- `ProvisionProofs`, first the device flow. `FlowInv` relates two clocks: the time
  since the last request and the time to the next tick add up to an interval at
  least, unless that request was late; and by the time a tick waits, the first of
  them has. The ticker has been armed within the flow, which is what keeps this
  true where the count of the first ends, at `Lifetime`. `slow_down` restores it
  by arming the ticker with the interval it raised. It gives `IntervalAlwaysKept`.
- `ProvisionProofs`, then the runs. `RunInv` says, by the place a run is at, what
  it may rely on: the manifest is there, its assets are stored or still to be
  uploaded, the worker deployed is its own or another run's, the text of an
  untouched form is the key that was read. A step changes one run (`OneRun`), and
  to the others it only adds (`CloudGrows`, `OthersFind`): the manifest is
  replaced but never removed, assets stay, a worker is replaced by that of whoever
  deploys. It gives `CompleteAlwaysSetUp`, `ProvisionTypeCorrect` and the action
  property `KeyLostAlwaysExplained`. `NoneAssumption` says that a worker is not
  taken for the lack of one, `KeyAssumption` the same of keys.

Only model-checked, because the prover cannot reach them: liveness
(`EveryRunEnds`, `EveryWorkerEnds`), which takes fairness and ENABLED. Every
safety property that a run checks has its theorem.

What liveness rests on is proved, for all constants; no run checks these.

- Nothing gets stuck. `PushNeverGetsStuck`: in either pool a goroutine has a
  request to end, or a slot is free for one that has not begun, or all are
  through and the run goes on. The one hypothesis is that the limit is not 0,
  at which Go's errgroup blocks. `PoolNeverGetsStuck` says it of the workers of an
  upstream check.
- There is no way back. `RunAlwaysMovesOn`: after the filter every step of a run
  makes the list of inputs shorter, or goes on to a later `Place` with the same
  list, or stays there and adds to `visited`, or leaves that too and moves one
  path to a later stage. A chunk takes something off the list because it holds
  the first entry left (`ChunkTakesFirst`). With finitely many paths this order has
  no infinite descent, so that a run of infinitely many steps is out of the
  question. `CheckAlwaysMovesOn` says of an upstream check that each job moves
  three times at most, and each batch once.

What is left to TLC is the step from the two to "ends": that the fairness of
section 3 makes whoever can move do so.

## 6. Abstractions, and what is not modelled

- A path, its blob and its image are one name: compression is deterministic and
  the tag is the store hash. A second push of a path therefore writes the same
  blob again, which leaves out what a different compression or signature does.
- What members of an upstream group hold does not change during one check, and
  in PrepareClosure not during a run; they may be overlooked at any time.
- One `Cache` serves one batch at a time, as every caller has it.
- Cancelled contexts: all callers pass a background context.
- Runs without a terminal: where a form would be shown they end with an error,
  which is what a cancelled form does.
- Of the proxy: the requests answered without a source (public key, status,
  nix-cache-info) and the checks of what a hash or a URL looks like.
- Of authentication: validation of tokens, which changes nothing, and the order
  of flag, environment and configuration file, which are one place here
  (`Given`).
- Of init: the Worker token given as a flag, which asks nothing and works for any
  registry, and the note about the visibility of a package, which is only
  printed.
- Of the store: the formats (NAR, zstd, xz, narinfo, base32, ed25519 signatures)
  are conversions of bytes. NarWriter has what their results describe.
- The registry client's transport: retries, redirects and the authentication of
  a single request. A request either takes effect or not, and may fail both ways.
- The rest (run wrapper, terminal output, build and documentation scripts) does
  I/O or formatting; `PROJECT.json` "components" says so for each.

## 7. Plan

Done: preparation, push and its contract, the files between them, upstream
check, CI configuration and run, change detection, secrets, local proxy, edge
worker, device flow, init and configure; theorems for all of them, for every
property of a run but the two named at the end of section 5. What could
follow, in this order:

1. The goroutines of `PushTo` (`prepared.go`) on their own; they are those of a
   chunk of RunPushTo, about which `ChunkAlwaysOneStep` says what CIRun needs,
   but an upload stage that fails as a whole ends differently.
2. A composition of CI, push and serving over one registry. What it would add to
   Changed and LocalProxy is small, since each of them already lets the cache
   change under it in every way a push can.
