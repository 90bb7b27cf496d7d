----------------------------- MODULE NarWriter -----------------------------
(***************************************************************************)
(* The workers that write the NAR and the narinfo of every path of a batch *)
(* (PrepareBatch, writeNarsFromInfos and writeNarAndNarinfo), the layers   *)
(* made from what they left (NewLayerFast), and the temporary directory    *)
(* both live in.                                                           *)
(*                                                                         *)
(* PrepareClosure takes a level's files for granted; here they are written *)
(* chunk by chunk.  The workers share the directory and nothing else, and  *)
(* they do not stop when the batch has failed.  A list of paths is not     *)
(* deduplicated, so a path named twice has two writers for one file.       *)
(*                                                                         *)
(* All NARs have Size chunks and what a writer puts at a place depends on  *)
(* the path and the place only; the compressor's last block, written when  *)
(* it is closed, marks where the NAR ended.  A narinfo is the number of    *)
(* chunks its NarHash, NarSize, FileHash, FileSize and Sig describe: they  *)
(* come from the same read.                                                *)
(***************************************************************************)
EXTENDS Integers, Sequences, FiniteSets

CONSTANTS
  Path,
  Batches,    \* the lists a batch may be started with
  Workers,    \* Config.Workers
  Size,       \* chunks of a NAR
  KeepFiles,  \* PushConfig.KeepFiles
  DumpMayDie  \* whether nix-store --dump may stop early

ASSUME BatchesAssumption == Batches \subseteq Seq(Path) \ {<<>>}
ASSUME WorkersAssumption == Workers \in Int
ASSUME SizeAssumption == Size \in Nat \ {0}
ASSUME FlagsAssumption == KeepFiles \in BOOLEAN /\ DumpMayDie \in BOOLEAN

VARIABLES
  batch,    \* storePaths
  known,    \* the jobs whose path is described
  next,     \* the first job still in the channel
  worker,   \* each goroutine: where it is, its job, how much it has copied
  linked,   \* whether the file it has open is still in the directory
  good, bad,\* the jobs whose result is in resultCh, without and with an error
  dir,      \* whether the output directory is there
  nar,      \* its NAR files
  narinfo,  \* its narinfo files
  blob,     \* registry: how much of each path's NAR the blob it took holds
  refused,  \* the paths whose blob the registry did not take
  pc,       \* where the push is
  cut       \* history: the paths of which a dump stopped early

files == <<dir, nar, narinfo>>
results == <<good, bad>>
uploads == <<blob, refused>>
vars == <<batch, known, next, worker, linked, results, files, uploads, pc, cut>>

-----------------------------------------------------------------------------

None == -1   \* no such file
Torn == -2   \* a narinfo whose write failed

Jobs == DOMAIN batch

(* workers, for this many jobs *)
PoolSize(jobs) ==
  IF Workers <= 0 THEN (IF jobs < 50 THEN jobs ELSE 50)
  ELSE IF jobs < Workers THEN jobs ELSE Workers

Pool == 1..PoolSize(Len(batch))

Idle == [at |-> "idle", job |-> 0, off |-> 0]

PathOf(w) == batch[worker[w].job]

At(w, s) == w \in Pool /\ worker[w].at = s

NoFile == <<"none">>

(* The file compress.Writer makes of a NAR that ended after n chunks.      *)
Image(n) == [i \in 1..(n + 1) |-> IF i <= n THEN "data" ELSE "end"]

(* Writing x at place i of a file, which may lie behind its end.           *)
WriteAt(f, i, x) ==
  [j \in 1..(IF Len(f) < i THEN i ELSE Len(f)) |->
     IF j = i THEN x ELSE IF j <= Len(f) THEN f[j] ELSE "hole"]

(* The worker's file gets x where the worker is; once unlinked, nothing in *)
(* the directory changes.                                                  *)
Append1(w, x) ==
  nar' = IF linked[w] THEN [nar EXCEPT ![PathOf(w)] = WriteAt(@, worker[w].off + 1, x)]
         ELSE nar

Goto(w, s) == worker' = [worker EXCEPT ![w].at = s]

(* resultCh <- batchResult; the worker takes the next job.                 *)
Post(w, ok) ==
  /\ worker' = [worker EXCEPT ![w] = Idle]
  /\ linked' = [linked EXCEPT ![w] = FALSE]
  /\ IF ok THEN good' = good \cup {worker[w].job} /\ UNCHANGED bad
     ELSE bad' = bad \cup {worker[w].job} /\ UNCHANGED good

(* FAULT: a narinfo vouches for the NAR nix-store knows, not the one read. *)
DescribedByStore(w) == Size

(* FAULT: the compressor's last block is counted as one of the NAR.        *)
DescribedWithEnd(w) == worker[w].off + 1

(* narSize, narHasher and compWriter have seen what was read.              *)
Described(w) == worker[w].off

(* os.Create *)
Opened(p) == <<>>

(* FAULT: as many results are collected as there are workers.              *)
OnePerWorker == Cardinality(good) >= PoolSize(Len(batch))

AllWritten == good = Jobs

(* gatherPathInfos has an answer for every job, and none failed.           *)
Gathered == known = Jobs

-----------------------------------------------------------------------------

(* An answer of nix path-info or, where that fails, of the older queries.  *)
(* The answers come in any order, and no job is handed out before the last.*)
PathInfo(i) ==
  /\ pc = "infos" /\ i \notin known
  /\ known' = known \cup {i}
  /\ UNCHANGED <<batch, next, worker, linked, results, files, uploads, cut>>
  /\ pc' = IF Gathered' THEN "write" ELSE "infos"

(* nix path-info fails and so does the query for the references; or its    *)
(* output makes no sense.  The deriver alone may stay unknown.             *)
NoPathInfo ==
  /\ pc = "infos"
  /\ pc' = "failed" /\ next' = Len(batch) + 1
  /\ UNCHANGED <<batch, known, worker, linked, results, files, uploads, cut>>

(* The worker takes a job and makes the directory if it is not there.      *)
TakeJob(w) ==
  /\ Gathered
  /\ At(w, "idle") /\ next <= Len(batch)
  /\ worker' = [worker EXCEPT ![w] = [at |-> "create", job |-> next, off |-> 0]]
  /\ next' = next + 1
  /\ dir' = TRUE
  /\ UNCHANGED <<batch, known, linked, results, nar, narinfo, uploads, pc, cut>>

(* The file is opened and the dump started.                                *)
CreateNar(w) ==
  /\ At(w, "create") /\ dir
  /\ nar' = [nar EXCEPT ![PathOf(w)] = Opened(PathOf(w))]
  /\ linked' = [linked EXCEPT ![w] = TRUE]
  /\ Goto(w, "copy")
  /\ UNCHANGED <<batch, known, next, results, dir, narinfo, uploads, pc, cut>>

CopyChunk(w) ==
  /\ At(w, "copy") /\ worker[w].off < Size
  /\ Append1(w, "data")
  /\ worker' = [worker EXCEPT ![w].off = @ + 1]
  /\ UNCHANGED <<batch, known, next, linked, results, dir, narinfo, uploads, pc, cut>>

(* The pipe ends: the dump is complete, or nix-store stopped.  Its exit    *)
(* status is dropped by Close, so the loop ends the same way.              *)
EndOfDump(w) ==
  /\ At(w, "copy")
  /\ worker[w].off = Size \/ DumpMayDie
  /\ cut' = IF worker[w].off = Size THEN cut ELSE cut \cup {PathOf(w)}
  /\ Append1(w, "end")
  /\ Goto(w, "narinfo")
  /\ UNCHANGED <<batch, known, next, linked, results, dir, narinfo, uploads, pc>>

WriteNarinfo(w) ==
  /\ At(w, "narinfo") /\ dir
  /\ narinfo' = [narinfo EXCEPT ![PathOf(w)] = Described(w)]
  /\ Post(w, TRUE)
  /\ UNCHANGED <<batch, known, next, dir, nar, uploads, pc, cut>>

(* A file, the pipe or the compressor fails; what was written stays.       *)
JobFails(w) ==
  /\ w \in Pool /\ worker[w].at # "idle"
  /\ Post(w, FALSE)
  /\ narinfo' \in {narinfo} \cup
       IF At(w, "narinfo") /\ dir THEN {[narinfo EXCEPT ![PathOf(w)] = Torn]} ELSE {}
  /\ UNCHANGED <<batch, known, next, dir, nar, uploads, pc, cut>>

(* The loop over resultCh has a result of every job.                       *)
BatchDone ==
  /\ pc = "write" /\ AllWritten
  /\ pc' = "upload"
  /\ UNCHANGED <<batch, known, next, worker, linked, results, files, uploads, cut>>

(* It meets an error and returns at once.                                  *)
BatchFails ==
  /\ pc = "write" /\ bad # {}
  /\ pc' = "failed"
  /\ UNCHANGED <<batch, known, next, worker, linked, results, files, uploads, cut>>

(* The registry takes a blob that has the digest and size it is said to.   *)
Accepts(p) == narinfo[p] >= 0 /\ nar[p] = Image(narinfo[p])

(* The task of a path: the narinfo is read, the layer gets its digest and  *)
(* size from there, and the file is opened when the registry asks for it.  *)
Upload(p) ==
  /\ pc = "upload" /\ p \notin refused /\ blob[p] = None
  /\ \E i \in Jobs : batch[i] = p
  /\ IF Accepts(p)
     THEN blob' = [blob EXCEPT ![p] = narinfo[p]] /\ UNCHANGED refused
     ELSE refused' = refused \cup {p} /\ UNCHANGED blob
  /\ UNCHANGED <<batch, known, next, worker, linked, results, files, pc, cut>>

Uploaded == \A i \in Jobs : blob[batch[i]] # None \/ batch[i] \in refused

(* The deferred RemoveAll: open files live on unseen.                      *)
CleanUp ==
  /\ pc = "failed" \/ (pc = "upload" /\ Uploaded)
  /\ pc' = "ended"
  /\ IF KeepFiles THEN UNCHANGED <<files, linked>>
     ELSE /\ dir' = FALSE
          /\ nar' = [p \in Path |-> NoFile] /\ narinfo' = [p \in Path |-> None]
          /\ linked' = [w \in DOMAIN linked |-> FALSE]
  /\ UNCHANGED <<batch, known, next, worker, results, uploads, cut>>

Init ==
  /\ batch \in Batches
  /\ known = {} /\ next = 1
  /\ worker = [w \in Pool |-> Idle] /\ linked = [w \in Pool |-> FALSE]
  /\ good = {} /\ bad = {}
  /\ dir = TRUE /\ nar = [p \in Path |-> NoFile] /\ narinfo = [p \in Path |-> None]
  /\ blob = [p \in Path |-> None] /\ refused = {}
  /\ pc = "infos" /\ cut = {}

Work(w) ==
  \/ TakeJob(w) \/ CreateNar(w) \/ CopyChunk(w) \/ EndOfDump(w)
  \/ WriteNarinfo(w) \/ JobFails(w)

Next ==
  \/ NoPathInfo \/ BatchDone \/ BatchFails \/ CleanUp
  \/ \E i \in Jobs : PathInfo(i)
  \/ \E w \in Pool : Work(w)
  \/ \E p \in Path : Upload(p)

Spec == Init /\ [][Next]_vars

-----------------------------------------------------------------------------

(* Type invariant.                                                         *)
TypeOK ==
  /\ batch \in Batches /\ known \subseteq Jobs /\ next \in 1..(Len(batch) + 1)
  /\ worker \in [Pool -> [at : {"idle", "create", "copy", "narinfo"},
                          job : 0..Len(batch), off : 0..Size]]
  /\ linked \in [Pool -> BOOLEAN]
  /\ good \subseteq Jobs /\ bad \subseteq Jobs
  /\ dir \in BOOLEAN
  /\ nar \in [Path -> Seq({"none", "data", "end", "hole"})]
  /\ narinfo \in [Path -> {None, Torn} \cup 0..Size]
  /\ blob \in [Path -> {None} \cup 0..Size] /\ refused \subseteq Path
  /\ pc \in {"infos", "write", "upload", "failed", "ended"}
  /\ cut \subseteq Path

NamedTwice(p) == \E i, j \in Jobs : i # j /\ batch[i] = p /\ batch[j] = p

(* What the registry ends up with is the NAR of the store: a layer is made *)
(* without looking at the file, several workers may write one file, and    *)
(* Close drops the exit status of the dump, yet a blob is short only when  *)
(* a dump of its path stopped early, and a layer is refused only when, on  *)
(* top of that, the path was in the batch twice.                           *)
UploadsExact ==
  /\ \A p \in Path : blob[p] \in {None, Size} \/ p \in cut
  /\ \A p \in refused : p \in cut /\ NamedTwice(p)

(* A directory that was removed comes back (a worker makes it anew for its *)
(* next file) only when the batch has failed; a push that uploaded its     *)
(* files leaves nothing behind.                                            *)
LeftoversExplained == pc = "ended" /\ dir /\ ~KeepFiles => bad # {}

-----------------------------------------------------------------------------

(* The inductive invariant behind the two, in parts.                       *)

Busy(w) == w \in Pool /\ worker[w].at # "idle"

(* A job is handed out once and has one result.                            *)
JobInv ==
  /\ good \cup bad \subseteq 1..(next - 1) /\ good \cap bad = {}
  /\ \A w \in Pool : Busy(w) => worker[w].job \in (1..(next - 1)) \ (good \cup bad)
  /\ \A w \in Pool : At(w, "create") => worker[w].off = 0
  /\ \A v, w \in Pool : Busy(v) /\ Busy(w) /\ worker[v].job = worker[w].job => v = w

(* Layers are made of complete batches; a batch given up has failed jobs,  *)
(* or none that could still be begun.                                      *)
EndInv ==
  /\ pc = "upload" => AllWritten
  /\ pc \in {"failed", "ended"} => bad # {} \/ next > Len(batch)

(* What is described is a whole NAR or one that was cut.                   *)
CutInv ==
  /\ \A w \in Pool : At(w, "narinfo") => worker[w].off = Size \/ PathOf(w) \in cut
  /\ \A p \in Path : narinfo[p] \in {None, Torn, Size} \/ p \in cut

(* As long as nothing has failed all that was written is in the directory. *)
Undisturbed == bad = {} /\ pc \in {"infos", "write", "upload"}

Writes(w) == At(w, "copy") \/ At(w, "narinfo")

Begun(p) ==
  \/ \E i \in good : batch[i] = p
  \/ \E w \in Pool : Writes(w) /\ PathOf(w) = p

(* However many write it, a file none of them has cut short is whole, or   *)
(* the worker that emptied it last is still at it.                         *)
SharedFile(p) ==
  /\ Len(nar[p]) <= Size + 1
  /\ \/ nar[p] = Image(Size)
     \/ \E w \in Pool : /\ At(w, "copy") /\ PathOf(w) = p
                       /\ worker[w].off <= Len(nar[p])
                       /\ \A j \in 1..worker[w].off : nar[p][j] = "data"

(* A file that is still being written, by one worker.                      *)
Chunks(n) == [i \in 1..n |-> "data"]

(* The only writer of a file writes what it describes, cut short or not.   *)
OwnFile(i) ==
  /\ i \in good => nar[batch[i]] = Image(narinfo[batch[i]])
  /\ \A w \in Pool : worker[w].job = i =>
       /\ At(w, "copy") => nar[batch[i]] = Chunks(worker[w].off)
       /\ At(w, "narinfo") => nar[batch[i]] = Image(worker[w].off)

FileInv ==
  Undisturbed =>
    /\ \A w \in Pool : Writes(w) => linked[w]
    /\ \A i \in good : narinfo[batch[i]] >= 0
    /\ \A p \in Path \ cut : Begun(p) => SharedFile(p)
    /\ \A i \in Jobs : ~NamedTwice(batch[i]) => OwnFile(i)

NarInv ==
  /\ TypeOK /\ JobInv /\ EndInv /\ CutInv /\ FileInv
  /\ UploadsExact /\ LeftoversExplained

=============================================================================
