-------------------------- MODULE NarWriterProofs --------------------------
(***************************************************************************)
(* Theorems about NarWriter, for every list of paths, any number of        *)
(* workers and any size of the NARs, whether dumps may die or not.         *)
(***************************************************************************)
EXTENDS NarWriter, SequenceTheorems, TLAPS

-----------------------------------------------------------------------------
(* The files.                                                              *)

Content == {"none", "data", "end", "hole"}

(* Writing one place of a file.                                            *)
LEMMA WriteAtFile ==
  ASSUME NEW f \in Seq(Content), NEW i \in Nat \ {0}, NEW x \in Content
  PROVE  /\ WriteAt(f, i, x) \in Seq(Content)
         /\ Len(WriteAt(f, i, x)) = IF Len(f) < i THEN i ELSE Len(f)
         /\ \A j \in 1..Len(WriteAt(f, i, x)) :
              WriteAt(f, i, x)[j] = IF j = i THEN x ELSE IF j <= Len(f) THEN f[j] ELSE "hole"
<1> DEFINE n == IF Len(f) < i THEN i ELSE Len(f)
           g == [j \in 1..n |-> IF j = i THEN x ELSE IF j <= Len(f) THEN f[j] ELSE "hole"]
<1>1. Len(f) \in Nat /\ n \in Nat
  OBVIOUS
<1>2. \A j \in 1..n : (IF j = i THEN x ELSE IF j <= Len(f) THEN f[j] ELSE "hole") \in Content
  BY <1>1 DEF Content
<1>3. g \in Seq(Content) /\ Len(g) = n
  <2> HIDE DEF n
  <2>1. g \in [1..n -> Content]
    BY <1>2
  <2> QED BY <1>1, <2>1
<1>4. WriteAt(f, i, x) = g
  BY DEF WriteAt
<1> QED BY <1>3, <1>4

LEMMA ImageFile ==
  ASSUME NEW n \in Nat
  PROVE  /\ Image(n) \in Seq({"data", "end"}) /\ Len(Image(n)) = n + 1
         /\ \A i \in 1..n : Image(n)[i] = "data"
         /\ Image(n)[n + 1] = "end"
<1>1. Image(n) \in [1..(n + 1) -> {"data", "end"}]
  BY DEF Image
<1> QED BY <1>1 DEF Image

LEMMA ChunksFile ==
  ASSUME NEW n \in Nat
  PROVE  /\ Chunks(n) \in Seq({"data"}) /\ Len(Chunks(n)) = n
         /\ \A i \in 1..n : Chunks(n)[i] = "data"
<1>1. Chunks(n) \in [1..n -> {"data"}]
  BY DEF Chunks
<1> QED BY <1>1 DEF Chunks

(* A file with the chunks of a NAR and its last block is an image of it.   *)
LEMMA IsImage ==
  ASSUME NEW f \in Seq(Content), NEW n \in Nat, Len(f) = n + 1,
         \A i \in 1..n : f[i] = "data", f[n + 1] = "end"
  PROVE  f = Image(n)
<1>1. DOMAIN f = 1..(n + 1) /\ f = [i \in DOMAIN f |-> f[i]]
  OBVIOUS
<1>2. \A i \in 1..(n + 1) : f[i] = IF i <= n THEN "data" ELSE "end"
  OBVIOUS
<1> QED BY <1>1, <1>2 DEF Image

(* What writing place o + 1 of the file f, of a NAR of n chunks, makes of  *)
(* it: a whole file stays whole, a part that is right stays right, and     *)
(* grows when the place is the next one.                                   *)
Continues(n, o, f, g) ==
  /\ Len(g) <= n + 1
  /\ f = Image(n) => g = Image(n)
  /\ \A k \in 0..n :
       k <= Len(f) /\ (\A j \in 1..k : f[j] = "data") =>
         /\ k <= Len(g) /\ \A j \in 1..k : g[j] = "data"
         /\ k = o /\ o < n => o + 1 <= Len(g) /\ \A j \in 1..(o + 1) : g[j] = "data"
         /\ k = o /\ o = n => g = Image(n)

LEMMA WriteOver ==
  ASSUME NEW n \in Nat, NEW o \in 0..n, NEW f \in Seq(Content), Len(f) <= n + 1,
         NEW g, \/ o < n /\ g = WriteAt(f, o + 1, "data")
                \/ o = n /\ g = WriteAt(f, o + 1, "end")
  PROVE  Continues(n, o, f, g)
<1>0. PICK x \in Content : g = WriteAt(f, o + 1, x) /\ x = IF o < n THEN "data" ELSE "end"
  BY DEF Content
<1>1. /\ g \in Seq(Content)
      /\ Len(g) = IF Len(f) < o + 1 THEN o + 1 ELSE Len(f)
      /\ \A j \in 1..Len(g) : g[j] = IF j = o + 1 THEN x ELSE IF j <= Len(f) THEN f[j] ELSE "hole"
  <2>1. PICK i \in Nat \ {0} : i = o + 1
    OBVIOUS
  <2>2. g = WriteAt(f, i, x)
    BY <1>0, <2>1
  <2>3. g \in Seq(Content)
    BY <2>2, WriteAtFile
  <2>4. Len(g) = IF Len(f) < i THEN i ELSE Len(f)
    BY <2>2, WriteAtFile
  <2>5. \A j \in 1..Len(g) : g[j] = IF j = i THEN x ELSE IF j <= Len(f) THEN f[j] ELSE "hole"
    BY <2>2, <2>4 DEF WriteAt
  <2> QED BY <2>1, <2>3, <2>4, <2>5
<1>2. Len(f) \in Nat /\ Len(g) \in Nat /\ Len(g) <= n + 1
  BY <1>1
<1>3. ASSUME f = Image(n) PROVE g = Image(n)
  <2>1. Len(f) = n + 1 /\ f[n + 1] = "end" /\ \A j \in 1..n : f[j] = "data"
    BY <1>3, ImageFile
  <2>2. Len(g) = n + 1
    BY <1>1, <2>1
  <2>3. g[n + 1] = "end"
    BY <1>0, <1>1, <2>1, <2>2
  <2>4. \A j \in 1..n : g[j] = "data"
    BY <1>0, <1>1, <2>1, <2>2
  <2> QED BY <1>1, <2>2, <2>3, <2>4, IsImage
<1>4. ASSUME NEW k \in 0..n, k <= Len(f), \A j \in 1..k : f[j] = "data"
      PROVE  /\ k <= Len(g) /\ \A j \in 1..k : g[j] = "data"
             /\ k = o /\ o < n => o + 1 <= Len(g) /\ \A j \in 1..(o + 1) : g[j] = "data"
             /\ k = o /\ o = n => g = Image(n)
  <2>1. k <= Len(g) /\ Len(f) <= Len(g) /\ o + 1 <= Len(g)
    BY <1>1, <1>2, <1>4
  <2>2. ASSUME NEW j \in 1..k PROVE g[j] = "data"
    <3>1. j \in 1..Len(g) /\ j <= Len(f) /\ f[j] = "data"
      BY <1>2, <1>4, <2>1
    <3>2. j = o + 1 => x = "data"
      BY <1>0
    <3> QED BY <1>1, <3>1, <3>2
  <2>3. g[o + 1] = x
    BY <1>1, <1>2, <2>1
  <2>4. ASSUME k = o, o < n PROVE \A j \in 1..(o + 1) : g[j] = "data"
    BY <1>0, <2>2, <2>3, <2>4
  <2>5. ASSUME k = o, o = n PROVE g = Image(n)
    <3>1. Len(g) = n + 1
      BY <1>1, <1>2, <2>5
    <3> QED BY <1>0, <1>1, <2>2, <2>3, <2>5, <3>1, IsImage
  <2> QED BY <2>1, <2>2, <2>4, <2>5
<1> QED BY <1>2, <1>3, <1>4 DEF Continues

(* The only writer appends.                                                *)
LEMMA AppendChunk ==
  ASSUME NEW n \in Nat
  PROVE  /\ WriteAt(Chunks(n), n + 1, "data") = Chunks(n + 1)
         /\ WriteAt(Chunks(n), n + 1, "end") = Image(n)
  BY ChunksFile DEF WriteAt, Chunks, Image

-----------------------------------------------------------------------------
(* Type correctness.                                                       *)

LEMMA Domains ==
  ASSUME TypeOK
  PROVE  /\ batch \in Seq(Path) /\ Len(batch) \in Nat \ {0} /\ Jobs = 1..Len(batch)
         /\ \A i \in Jobs : batch[i] \in Path
         /\ Size \in Nat \ {0} /\ next \in 1..(Len(batch) + 1)
  BY BatchesAssumption, SizeAssumption, EmptySeq DEF TypeOK, Jobs

LEMMA BusyWorker ==
  ASSUME TypeOK, JobInv, NEW w \in Pool, Busy(w)
  PROVE  /\ worker[w].job \in Jobs \ (good \cup bad)
         /\ PathOf(w) \in Path
         /\ worker[w].off \in 0..Size
  BY Domains DEF TypeOK, JobInv, PathOf

LEMMA NarInitInv == Init => NarInv
<1> SUFFICES ASSUME Init PROVE NarInv
  OBVIOUS
<1>1. batch \in Seq(Path) /\ Len(batch) \in Nat \ {0}
  BY BatchesAssumption, SizeAssumption, EmptySeq DEF Init
<1>2. TypeOK
  <2>1. NoFile \in Seq({"none", "data", "end", "hole"})
    BY DEF NoFile
  <2>2. Idle \in [at : {"idle", "create", "copy", "narinfo"}, job : 0..Len(batch), off : 0..Size]
    BY <1>1, SizeAssumption DEF Idle
  <2>3. /\ worker \in [Pool -> [at : {"idle", "create", "copy", "narinfo"},
                               job : 0..Len(batch), off : 0..Size]]
        /\ linked \in [Pool -> BOOLEAN]
    BY <2>2 DEF Init
  <2>4. /\ nar \in [Path -> Seq({"none", "data", "end", "hole"})]
        /\ narinfo \in [Path -> {None, Torn} \cup 0..Size]
        /\ blob \in [Path -> {None} \cup 0..Size]
    BY <2>1 DEF Init
  <2> QED BY <1>1, <2>3, <2>4 DEF Init, TypeOK
<1>3. JobInv /\ EndInv
  BY <1>1 DEF Init, JobInv, EndInv, Busy, Idle
<1>4. CutInv /\ UploadsExact /\ LeftoversExplained
  BY DEF Init, CutInv, UploadsExact, LeftoversExplained, At, Idle
<1>5. FileInv
  BY DEF Init, FileInv, Writes, At, Begun, OwnFile, Idle
<1> QED BY <1>2, <1>3, <1>4, <1>5 DEF NarInv

(* No step changes the batch, and with it the pool.                        *)
LEMMA SameBatch == [Next]_vars => batch' = batch /\ Pool' = Pool /\ Jobs' = Jobs
<1> SUFFICES ASSUME [Next]_vars PROVE batch' = batch
  BY DEF Pool, Jobs
<1> QED
  BY DEF Next, vars, NoPathInfo, BatchDone, BatchFails, CleanUp, PathInfo, Work, TakeJob,
     CreateNar, CopyChunk, EndOfDump, WriteNarinfo, JobFails, Upload

(* What a worker appends keeps the files sequences.                        *)
LEMMA AppendType ==
  ASSUME TypeOK, JobInv, NEW w \in Pool, Writes(w), NEW x \in {"data", "end"}, Append1(w, x)
  PROVE  nar' \in [Path -> Seq(Content)]
<1>1. PathOf(w) \in Path /\ worker[w].off + 1 \in Nat \ {0}
  BY BusyWorker DEF Busy, Writes, At
<1>2. nar \in [Path -> Seq(Content)] /\ x \in Content /\ "hole" \in Content
  BY DEF TypeOK, Content
<1>3. nar[PathOf(w)] \in Seq(Content)
  BY <1>1, <1>2
<1>4. WriteAt(nar[PathOf(w)], worker[w].off + 1, x) \in Seq(Content)
  BY <1>1, <1>2, <1>3, WriteAtFile
<1> QED BY <1>1, <1>2, <1>4 DEF Append1

LEMMA NarTypeStep ==
  ASSUME TypeOK, JobInv, [Next]_vars
  PROVE  TypeOK'
<1>0. Jobs' = Jobs /\ Pool' = Pool /\ batch' = batch
  BY SameBatch
<1> USE <1>0, Domains DEF TypeOK, files, results, uploads, Goto
<1>b. ASSUME NEW w \in Pool, Busy(w), NEW ok \in BOOLEAN, Post(w, ok)
      PROVE  /\ worker' \in [Pool -> [at : {"idle", "create", "copy", "narinfo"},
                                     job : 0..Len(batch), off : 0..Size]]
             /\ linked' \in [Pool -> BOOLEAN] /\ good' \subseteq Jobs /\ bad' \subseteq Jobs
  <2>1. worker[w].job \in Jobs
    BY <1>b, BusyWorker
  <2>2. Idle \in [at : {"idle", "create", "copy", "narinfo"}, job : 0..Len(batch), off : 0..Size]
    BY DEF Idle
  <2> QED BY <1>b, <2>1, <2>2 DEF Post
<1>1. CASE NoPathInfo \/ BatchDone \/ BatchFails
  BY <1>1 DEF NoPathInfo, BatchDone, BatchFails
<1>2. CASE CleanUp
  <2>1. NoFile \in Seq(Content)
    BY DEF NoFile, Content
  <2> QED BY <1>2, <2>1 DEF CleanUp, Content
<1>3. ASSUME NEW i \in Jobs, PathInfo(i) PROVE TypeOK'
  BY <1>3 DEF PathInfo
<1>4. ASSUME NEW w \in Pool, TakeJob(w) PROVE TypeOK'
  BY <1>4 DEF TakeJob, At
<1>5. ASSUME NEW w \in Pool, CreateNar(w) PROVE TypeOK'
  <2>1. <<>> \in Seq(Content)
    OBVIOUS
  <2> QED BY <1>5, <2>1 DEF CreateNar, Opened, At, Content
<1>6. ASSUME NEW w \in Pool, CopyChunk(w) PROVE TypeOK'
  <2>1. nar' \in [Path -> Seq(Content)]
    BY <1>6, AppendType DEF CopyChunk, Writes
  <2>2. worker[w].off + 1 \in 0..Size
    BY <1>6 DEF CopyChunk
  <2> QED BY <1>6, <2>1, <2>2 DEF CopyChunk, At, Content
<1>7. ASSUME NEW w \in Pool, EndOfDump(w) PROVE TypeOK'
  <2>1. nar' \in [Path -> Seq(Content)]
    BY <1>7, AppendType DEF EndOfDump, Writes
  <2>2. PathOf(w) \in Path
    BY <1>7, BusyWorker DEF EndOfDump, Busy, At
  <2> QED BY <1>7, <2>1, <2>2 DEF EndOfDump, At, Content
<1>8. ASSUME NEW w \in Pool, WriteNarinfo(w) PROVE TypeOK'
  <2>1. Busy(w) /\ worker[w].off \in 0..Size
    BY <1>8, BusyWorker DEF WriteNarinfo, Busy, At
  <2> QED BY <1>8, <1>b, <2>1 DEF WriteNarinfo, Described
<1>9. ASSUME NEW w \in Pool, JobFails(w) PROVE TypeOK'
  <2>1. narinfo' \in [Path -> {None, Torn} \cup 0..Size]
    BY <1>9 DEF JobFails
  <2> QED BY <1>9, <1>b, <2>1 DEF JobFails, Busy
<1>10. ASSUME NEW p \in Path, Upload(p) PROVE TypeOK'
  <2>0. narinfo[p] \in {None, Torn} \cup 0..Size /\ ~(None >= 0) /\ ~(Torn >= 0)
    BY DEF None, Torn
  <2>1. Accepts(p) => narinfo[p] \in 0..Size
    BY <2>0 DEF Accepts
  <2>2. blob' \in [Path -> {None} \cup 0..Size] /\ refused' \subseteq Path
    BY <1>10, <2>1 DEF Upload
  <2> QED BY <1>10, <2>2 DEF Upload
<1>11. CASE UNCHANGED vars
  BY <1>11 DEF vars
<1> QED
  BY <1>1, <1>2, <1>3, <1>4, <1>5, <1>6, <1>7, <1>8, <1>9, <1>10, <1>11 DEF Next, Work

-----------------------------------------------------------------------------
(* Jobs, and what is described.                                            *)

LEMMA JobStep ==
  ASSUME TypeOK, JobInv, [Next]_vars
  PROVE  JobInv'
<1>0. Jobs' = Jobs /\ Pool' = Pool /\ batch' = batch
  BY SameBatch
<1> USE <1>0, Domains DEF TypeOK, JobInv, Busy, files, results, uploads, Goto, At
<1>1. CASE NoPathInfo \/ BatchDone \/ BatchFails \/ CleanUp
  BY <1>1 DEF NoPathInfo, BatchDone, BatchFails, CleanUp
<1>2. ASSUME NEW i \in Jobs, PathInfo(i) PROVE JobInv'
  BY <1>2 DEF PathInfo
<1>3. ASSUME NEW w \in Pool, TakeJob(w) PROVE JobInv'
  BY <1>3 DEF TakeJob
<1>4. ASSUME NEW w \in Pool, CreateNar(w) \/ CopyChunk(w) \/ EndOfDump(w) PROVE JobInv'
  <2>1. worker[w].at # "idle" /\ next' = next /\ good' = good /\ bad' = bad
    BY <1>4 DEF CreateNar, CopyChunk, EndOfDump
  <2>2. /\ worker'[w].job = worker[w].job /\ worker'[w].at \in {"copy", "narinfo"}
        /\ \A v \in Pool \ {w} : worker'[v] = worker[v]
    <3>1. CASE CreateNar(w)
      BY <3>1 DEF CreateNar
    <3>2. CASE CopyChunk(w)
      BY <3>2 DEF CopyChunk
    <3>3. CASE EndOfDump(w)
      BY <3>3 DEF EndOfDump
    <3> QED BY <1>4, <3>1, <3>2, <3>3
  <2>3. \A v \in Pool : /\ worker'[v].job = worker[v].job
                        /\ worker'[v].at # "idle" => worker[v].at # "idle"
                        /\ worker'[v].at = "create" => worker'[v] = worker[v]
    BY <2>1, <2>2
  <2> QED BY <2>1, <2>3
<1>5. ASSUME NEW w \in Pool, WriteNarinfo(w) \/ JobFails(w) PROVE JobInv'
  <2>1. /\ worker' = [worker EXCEPT ![w] = Idle] /\ worker[w].at # "idle" /\ next' = next
        /\ \/ good' = good \cup {worker[w].job} /\ bad' = bad
           \/ bad' = bad \cup {worker[w].job} /\ good' = good
    BY <1>5 DEF WriteNarinfo, JobFails, Post
  <2>2. \A v \in Pool : worker'[v].at # "idle" => v # w /\ worker'[v] = worker[v]
    BY <2>1 DEF Idle
  <2>3. \A v \in Pool : worker'[v].at # "idle" => worker[v].job # worker[w].job
    BY <2>1, <2>2
  <2> QED BY <2>1, <2>2, <2>3
<1>6. ASSUME NEW p \in Path, Upload(p) PROVE JobInv'
  BY <1>6 DEF Upload
<1>7. CASE UNCHANGED vars
  BY <1>7 DEF vars
<1> QED BY <1>1, <1>2, <1>3, <1>4, <1>5, <1>6, <1>7 DEF Next, Work

(* A batch given up has begun all its jobs, or one has failed.             *)
LEMMA EndStep ==
  ASSUME TypeOK, JobInv, EndInv, [Next]_vars
  PROVE  EndInv'
<1>0. Jobs' = Jobs /\ Pool' = Pool /\ batch' = batch
  BY SameBatch
<1> USE <1>0, Domains DEF TypeOK, JobInv, EndInv, AllWritten
<1>1. CASE NoPathInfo \/ BatchDone \/ BatchFails
  BY <1>1 DEF NoPathInfo, BatchDone, BatchFails, results
<1>2. CASE CleanUp
  <2>1. Len(batch) \in Jobs /\ next \in Int
    BY Domains
  <2>2. pc = "upload" => Len(batch) \in 1..(next - 1)
    BY <2>1
  <2>3. pc = "upload" => next > Len(batch)
    BY <2>1, <2>2
  <2> QED BY <1>2, <2>3 DEF CleanUp, results
<1>3. ASSUME NEW i \in Jobs, PathInfo(i) PROVE EndInv'
  BY <1>3 DEF PathInfo, results
<1>4. ASSUME NEW w \in Pool, TakeJob(w) PROVE EndInv'
  BY <1>4 DEF TakeJob, results
<1>5. ASSUME NEW w \in Pool, CreateNar(w) \/ CopyChunk(w) \/ EndOfDump(w) PROVE EndInv'
  BY <1>5 DEF CreateNar, CopyChunk, EndOfDump, results
<1>6. ASSUME NEW w \in Pool, WriteNarinfo(w) \/ JobFails(w) PROVE EndInv'
  <2>1. worker[w].job \in Jobs \ good
    BY <1>6, BusyWorker DEF WriteNarinfo, JobFails, At, Busy
  <2>2. /\ pc' = pc /\ next' = next /\ bad \subseteq bad' /\ pc # "upload"
    BY <1>6, <2>1 DEF WriteNarinfo, JobFails, Post
  <2> QED BY <2>2
<1>7. ASSUME NEW p \in Path, Upload(p) PROVE EndInv'
  BY <1>7 DEF Upload, results
<1>8. CASE UNCHANGED vars
  BY <1>8 DEF vars, results
<1> QED BY <1>1, <1>2, <1>3, <1>4, <1>5, <1>6, <1>7, <1>8 DEF Next, Work

(* What is described short has been cut.                                   *)
LEMMA CutStep ==
  ASSUME TypeOK, JobInv, CutInv, [Next]_vars
  PROVE  CutInv'
<1>0. Jobs' = Jobs /\ Pool' = Pool /\ batch' = batch
  BY SameBatch
<1> USE <1>0 DEF TypeOK, CutInv, At, PathOf, files
<1>1. CASE NoPathInfo \/ BatchDone \/ BatchFails \/ CleanUp
  BY <1>1 DEF NoPathInfo, BatchDone, BatchFails, CleanUp
<1>2. ASSUME NEW i \in Jobs, PathInfo(i) PROVE CutInv'
  BY <1>2 DEF PathInfo
<1>3. ASSUME NEW w \in Pool, TakeJob(w) PROVE CutInv'
  BY <1>3 DEF TakeJob
<1>4. ASSUME NEW w \in Pool, CreateNar(w) \/ CopyChunk(w) PROVE CutInv'
  <2>1. /\ narinfo' = narinfo /\ cut' = cut
        /\ \A v \in Pool : worker'[v].at = "narinfo" => worker'[v] = worker[v]
    BY <1>4 DEF CreateNar, CopyChunk, Goto
  <2> QED BY <2>1
<1>5. ASSUME NEW w \in Pool, EndOfDump(w) PROVE CutInv'
  BY <1>5 DEF EndOfDump, Goto
<1>6. ASSUME NEW w \in Pool, WriteNarinfo(w) PROVE CutInv'
  BY <1>6 DEF WriteNarinfo, Post, Idle, Described
<1>7. ASSUME NEW w \in Pool, JobFails(w) PROVE CutInv'
  BY <1>7 DEF JobFails, Post, Idle
<1>8. ASSUME NEW p \in Path, Upload(p) PROVE CutInv'
  BY <1>8 DEF Upload
<1>9. CASE UNCHANGED vars
  BY <1>9 DEF vars
<1> QED BY <1>1, <1>2, <1>3, <1>4, <1>5, <1>6, <1>7, <1>8, <1>9 DEF Next, Work

-----------------------------------------------------------------------------
(* The files of a batch in which nothing has failed.                       *)

(* What happened elsewhere leaves the files as they were.                  *)
LEMMA FileUnchanged ==
  ASSUME FileInv, Undisturbed, UNCHANGED <<batch, worker, linked, good, nar, narinfo, cut>>
  PROVE  FileInv'
  BY DEF FileInv, Writes, At, Pool, Jobs, Begun, PathOf, SharedFile, NamedTwice, OwnFile

(* Where a worker writes, it is the only one that has its job.             *)
LEMMA Writer ==
  ASSUME TypeOK, JobInv, NEW w \in Pool, Busy(w)
  PROVE  /\ worker[w].job \in Jobs \ good /\ batch[worker[w].job] = PathOf(w)
         /\ \A v \in Pool \ {w} : worker[v].at # "idle" => worker[v].job # worker[w].job
         /\ \A i \in Jobs : ~NamedTwice(batch[i]) /\ batch[i] = PathOf(w) => i = worker[w].job
<1>1. worker[w].job \in Jobs \ good /\ batch[worker[w].job] = PathOf(w)
  BY BusyWorker DEF PathOf
<1>2. \A v \in Pool \ {w} : worker[v].at # "idle" => worker[v].job # worker[w].job
  BY DEF JobInv, Busy
<1>3. \A i \in Jobs : ~NamedTwice(batch[i]) /\ batch[i] = PathOf(w) => i = worker[w].job
  BY <1>1 DEF NamedTwice
<1> QED BY <1>1, <1>2, <1>3

LEMMA FileTakeJob ==
  ASSUME TypeOK, FileInv, Undisturbed, NEW w \in Pool, TakeJob(w)
  PROVE  FileInv'
<1>1. /\ Jobs' = Jobs /\ Pool' = Pool /\ batch' = batch /\ good' = good /\ linked' = linked
      /\ nar' = nar /\ narinfo' = narinfo /\ cut' = cut
  BY SameBatch DEF TakeJob, Next, Work, results
<1>2. /\ worker[w].at = "idle" /\ worker'[w].at = "create"
      /\ \A v \in Pool \ {w} : worker'[v] = worker[v]
  BY DEF TakeJob, TypeOK, At
<1>3. \A v \in Pool : /\ Writes(v)' <=> Writes(v)
                      /\ At(v, "copy")' <=> At(v, "copy")
                      /\ At(v, "narinfo")' <=> At(v, "narinfo")
                      /\ Writes(v) => worker'[v] = worker[v] /\ PathOf(v)' = PathOf(v)
  BY <1>1, <1>2 DEF Writes, At, PathOf
<1>4. \A p \in Path : (Begun(p)' <=> Begun(p)) /\ (SharedFile(p)' <=> SharedFile(p))
  BY <1>1, <1>3 DEF Begun, SharedFile, Writes, At
<1>5. \A i \in Jobs : OwnFile(i) => OwnFile(i)'
  BY <1>1, <1>3 DEF OwnFile, Writes
<1>6. \A i \in Jobs : NamedTwice(batch[i])' <=> NamedTwice(batch[i])
  BY <1>1 DEF NamedTwice
<1> QED BY <1>1, <1>3, <1>4, <1>5, <1>6 DEF FileInv

(* A worker empties the file it is to write, if it was there.              *)
LEMMA FileCreate ==
  ASSUME TypeOK, JobInv, FileInv, Undisturbed, NEW w \in Pool, CreateNar(w)
  PROVE  FileInv'
<1> DEFINE p0 == PathOf(w)
<1>1. /\ Jobs' = Jobs /\ Pool' = Pool /\ batch' = batch /\ good' = good
      /\ narinfo' = narinfo /\ cut' = cut
  BY SameBatch DEF CreateNar, Next, Work, results
<1>2. Busy(w) /\ p0 \in Path /\ worker[w].off = 0 /\ worker[w].at = "create"
  BY BusyWorker DEF CreateNar, At, Busy, JobInv
<1>3. /\ worker'[w].at = "copy" /\ worker'[w].off = 0 /\ worker'[w].job = worker[w].job
      /\ linked'[w] = TRUE
      /\ \A v \in Pool \ {w} : worker'[v] = worker[v] /\ linked'[v] = linked[v]
  BY <1>2 DEF CreateNar, Goto, TypeOK
<1>4. /\ nar'[p0] = <<>>
      /\ \A p \in Path \ {p0} : nar'[p] = nar[p]
  BY <1>2 DEF CreateNar, Opened, TypeOK
<1>5. \A v \in Pool : PathOf(v)' = PathOf(v)
  BY <1>1, <1>3 DEF PathOf
<1>6. \A v \in Pool : Writes(v)' => linked'[v]
  BY <1>1, <1>3 DEF FileInv, Writes, At
<1>7. \A i \in good' : narinfo'[batch'[i]] >= 0
  BY <1>1 DEF FileInv
<1>8. ASSUME NEW p \in Path \ cut', Begun(p)' PROVE SharedFile(p)'
  <2>1. CASE p = p0
    <3>1. Len(nar'[p]) = 0
      BY <1>4, <2>1
    <3>2. At(w, "copy")' /\ PathOf(w)' = p /\ worker'[w].off <= Len(nar'[p])
      BY <1>1, <1>3, <1>5, <2>1, <3>1 DEF At
    <3>3. \A j \in 1..worker'[w].off : nar'[p][j] = "data"
      BY <1>3
    <3> QED BY <1>1, <3>1, <3>2, <3>3, SizeAssumption DEF SharedFile
  <2>2. CASE p # p0
    <3>1. Begun(p)
      BY <1>1, <1>3, <1>5, <1>8, <2>2 DEF Begun, Writes, At
    <3>2. SharedFile(p)
      BY <1>1, <1>8, <3>1 DEF FileInv
    <3> QED BY <1>1, <1>2, <1>3, <1>4, <1>5, <2>2, <3>2 DEF SharedFile, At
  <2> QED BY <2>1, <2>2
<1>9. ASSUME NEW i \in Jobs', ~NamedTwice(batch[i])' PROVE OwnFile(i)'
  <2>1. i \in Jobs /\ batch[i] \in Path /\ ~NamedTwice(batch[i])
    BY <1>1, <1>9, Domains DEF NamedTwice
  <2>2. OwnFile(i)
    BY <2>1 DEF FileInv
  <2>3. CASE batch[i] = p0
    <3>1. i = worker[w].job /\ i \notin good
      BY <1>2, <2>1, <2>3, Writer
    <3>2. \A v \in Pool \ {w} : worker[v].at # "idle" => worker[v].job # i
      BY <1>2, <3>1, Writer
    <3>3. nar'[batch[i]] = Chunks(0)
      BY <1>4, <2>3 DEF Chunks
    <3> QED BY <1>1, <1>3, <3>1, <3>2, <3>3 DEF OwnFile, At
  <2>4. CASE batch[i] # p0
    <3>1. i # worker[w].job /\ nar'[batch[i]] = nar[batch[i]]
      BY <1>2, <1>4, <2>1, <2>4, Writer
    <3> QED BY <1>1, <1>3, <2>2, <3>1 DEF OwnFile, At
  <2> QED BY <2>3, <2>4
<1> QED BY <1>1, <1>6, <1>7, <1>8, <1>9 DEF FileInv

(* A chunk, or the last block, of a file that others may write as well.    *)
(* What is added is what stands there in a file that is already whole, so  *)
(* it takes nothing away; the worker that emptied the file last goes on.   *)
LEMMA FileAppend ==
  ASSUME TypeOK, JobInv, FileInv, Undisturbed, NEW w \in Pool, CopyChunk(w) \/ EndOfDump(w),
         NEW p \in Path \ cut', p = PathOf(w)
  PROVE  SharedFile(p)'
<1> DEFINE o == worker[w].off
           f == nar[p]
           g == nar'[p]
<1>1. /\ Pool' = Pool /\ batch' = batch
      /\ Busy(w) /\ At(w, "copy") /\ Writes(w) /\ linked[w] /\ o \in 0..Size
  BY SameBatch, BusyWorker DEF CopyChunk, EndOfDump, Busy, At, Writes, FileInv, Next, Work
<1>2. Size \in Nat \ {0} /\ nar[p] \in Seq(Content) /\ p \notin cut
  BY SizeAssumption DEF TypeOK, Content, CopyChunk, EndOfDump
<1>3. SharedFile(p)
  BY <1>1, <1>2 DEF FileInv, Begun
<1>4. \/ o < Size /\ g = WriteAt(f, o + 1, "data") /\ worker'[w] = [worker[w] EXCEPT !.off = o + 1]
      \/ o = Size /\ g = WriteAt(f, o + 1, "end")
  <2>1. CASE CopyChunk(w)
    BY <1>1, <2>1 DEF CopyChunk, Append1, TypeOK
  <2>2. CASE EndOfDump(w)
    <3>1. o = Size
      BY <2>2 DEF EndOfDump
    <3> QED BY <1>1, <2>2, <3>1 DEF EndOfDump, Append1, TypeOK
  <2> QED BY <2>1, <2>2
<1>5. \A v \in Pool \ {w} : worker'[v] = worker[v]
  BY DEF CopyChunk, EndOfDump, Goto, TypeOK
<1>7. Continues(Size, o, f, g)
  <2>1. Len(f) <= Size + 1
    BY <1>3 DEF SharedFile
  <2> QED BY <1>1, <1>2, <1>4, <2>1, WriteOver
<1>8. CASE f = Image(Size)
  BY <1>7, <1>8 DEF SharedFile, Continues
<1>9. ASSUME NEW v \in Pool, At(v, "copy"), PathOf(v) = p, worker[v].off <= Len(f),
             \A j \in 1..worker[v].off : f[j] = "data"
      PROVE  SharedFile(p)'
  <2>1. worker[v].off \in 0..Size
    BY <1>9 DEF TypeOK
  <2>2. CASE v # w
    <3>1. At(v, "copy")' /\ PathOf(v)' = p /\ worker'[v].off = worker[v].off
      BY <1>1, <1>5, <1>9, <2>2 DEF At, PathOf
    <3>2. worker[v].off <= Len(g) /\ \A j \in 1..worker[v].off : g[j] = "data"
      BY <1>7, <1>9, <2>1 DEF Continues
    <3> QED BY <1>1, <1>7, <3>1, <3>2 DEF SharedFile, Continues
  <2>3. CASE v = w /\ o < Size
    <3>1. worker'[w] = [worker[w] EXCEPT !.off = o + 1]
      BY <1>1, <1>4, <2>3
    <3>2. At(w, "copy")' /\ PathOf(w)' = p /\ worker'[w].off = o + 1
      BY <1>1, <3>1 DEF At, PathOf, TypeOK
    <3>3. o + 1 <= Len(g) /\ \A j \in 1..(o + 1) : g[j] = "data"
      BY <1>7, <1>9, <2>1, <2>3 DEF Continues
    <3> QED BY <1>1, <1>7, <3>2, <3>3 DEF SharedFile, Continues
  <2>4. CASE v = w /\ o = Size
    BY <1>7, <1>9, <2>1, <2>4 DEF SharedFile, Continues
  <2> QED BY <1>1, <1>2, <2>2, <2>3, <2>4
<1> QED BY <1>3, <1>8, <1>9 DEF SharedFile

LEMMA FileWrite ==
  ASSUME TypeOK, JobInv, FileInv, Undisturbed, NEW w \in Pool, CopyChunk(w) \/ EndOfDump(w)
  PROVE  FileInv'
<1> DEFINE p0 == PathOf(w)
           o == worker[w].off
<1>1. /\ Jobs' = Jobs /\ Pool' = Pool /\ batch' = batch /\ good' = good /\ linked' = linked
      /\ narinfo' = narinfo /\ cut \subseteq cut'
  BY SameBatch DEF CopyChunk, EndOfDump, Next, Work, results
<1>2. /\ Busy(w) /\ worker[w].at = "copy" /\ linked[w]
      /\ p0 \in Path /\ o \in 0..Size
  BY BusyWorker DEF CopyChunk, EndOfDump, Busy, At, Writes, FileInv
<1>3. /\ worker'[w].at \in {"copy", "narinfo"} /\ worker'[w].job = worker[w].job
      /\ worker'[w].at = "copy" => /\ worker'[w].off = o + 1
                                   /\ nar'[p0] = WriteAt(nar[p0], o + 1, "data")
      /\ worker'[w].at = "narinfo" => /\ worker'[w].off = o
                                      /\ nar'[p0] = WriteAt(nar[p0], o + 1, "end")
  <2>1. CASE CopyChunk(w)
    BY <1>2, <2>1 DEF CopyChunk, Append1, TypeOK
  <2>2. CASE EndOfDump(w)
    BY <1>2, <2>2 DEF EndOfDump, Append1, TypeOK, Goto
  <2> QED BY <2>1, <2>2
<1>4. \A v \in Pool \ {w} : worker'[v] = worker[v]
  BY DEF CopyChunk, EndOfDump, Goto, TypeOK
<1>5. \A p \in Path \ {p0} : nar'[p] = nar[p]
  BY <1>2 DEF CopyChunk, EndOfDump, Append1, TypeOK
<1>6. \A v \in Pool : PathOf(v)' = PathOf(v) /\ (Writes(v)' <=> Writes(v))
  BY <1>1, <1>2, <1>3, <1>4 DEF PathOf, Writes, At
<1>7. \A v \in Pool : Writes(v) => linked'[v]
  BY <1>1 DEF FileInv
<1>8. \A i \in good' : narinfo'[batch'[i]] >= 0
  BY <1>1 DEF FileInv
<1>9. ASSUME NEW p \in Path \ cut', Begun(p)' PROVE SharedFile(p)'
  <2>1. Begun(p)
    BY <1>1, <1>6, <1>9 DEF Begun
  <2>2. SharedFile(p)
    BY <1>1, <2>1 DEF FileInv
  <2>3. CASE p # p0
    BY <1>1, <1>3, <1>4, <1>5, <1>6, <2>2, <2>3 DEF SharedFile, At
  <2> QED BY <2>3, FileAppend
<1>10. ASSUME NEW i \in Jobs', ~NamedTwice(batch[i])' PROVE OwnFile(i)'
  <2>1. i \in Jobs /\ batch[i] \in Path /\ ~NamedTwice(batch[i])
    BY <1>1, <1>10, Domains DEF NamedTwice
  <2>2. OwnFile(i)
    BY <2>1 DEF FileInv
  <2>3. CASE batch[i] = p0
    <3>1. i = worker[w].job /\ i \notin good
      BY <1>2, <2>1, <2>3, Writer
    <3>2. \A v \in Pool \ {w} : worker[v].at # "idle" => worker[v].job # i
      BY <1>2, <3>1, Writer
    <3>3. nar[p0] = Chunks(o)
      BY <1>2, <2>2, <2>3, <3>1 DEF OwnFile, At
    <3>4. /\ worker'[w].at = "copy" => nar'[p0] = Chunks(worker'[w].off)
          /\ worker'[w].at = "narinfo" => nar'[p0] = Image(worker'[w].off)
      BY <1>2, <1>3, <3>3, AppendChunk
    <3> QED BY <1>1, <1>4, <2>3, <3>1, <3>2, <3>4 DEF OwnFile, At
  <2>4. CASE batch[i] # p0
    <3>1. i # worker[w].job /\ nar'[batch[i]] = nar[batch[i]]
      BY <1>2, <1>5, <2>1, <2>4, Writer
    <3> QED BY <1>1, <1>3, <1>4, <2>2, <3>1 DEF OwnFile, At
  <2> QED BY <2>3, <2>4
<1> QED BY <1>1, <1>6, <1>7, <1>8, <1>9, <1>10 DEF FileInv

(* The last to describe a file is not the last to have written it; what it *)
(* says is right all the same.                                             *)
LEMMA FileDescribe ==
  ASSUME TypeOK, JobInv, FileInv, Undisturbed, NEW w \in Pool, WriteNarinfo(w)
  PROVE  FileInv'
<1> DEFINE p0 == PathOf(w)
           o == worker[w].off
<1>1. /\ Jobs' = Jobs /\ Pool' = Pool /\ batch' = batch /\ nar' = nar /\ cut' = cut
      /\ good' = good \cup {worker[w].job}
  BY SameBatch DEF WriteNarinfo, Post, Next, Work
<1>2. /\ Busy(w) /\ worker[w].at = "narinfo" /\ worker[w].job \in Jobs
      /\ batch[worker[w].job] = p0 /\ p0 \in Path /\ o \in 0..Size
  BY BusyWorker, Writer DEF WriteNarinfo, Busy, At
<1>3. worker'[w] = Idle /\ \A v \in Pool \ {w} : worker'[v] = worker[v] /\ linked'[v] = linked[v]
  BY DEF WriteNarinfo, Post, TypeOK
<1>4. narinfo'[p0] = o /\ \A p \in Path \ {p0} : narinfo'[p] = narinfo[p]
  BY <1>2 DEF WriteNarinfo, Described, TypeOK
<1>5. \A v \in Pool : At(v, "copy")' \/ Writes(v)' => v # w
  BY <1>3 DEF At, Writes, Idle
<1>6. \A v \in Pool \ {w} : /\ PathOf(v)' = PathOf(v) /\ (Writes(v)' <=> Writes(v))
                            /\ At(v, "copy")' <=> At(v, "copy")
                            /\ At(v, "narinfo")' <=> At(v, "narinfo")
  BY <1>1, <1>3 DEF PathOf, Writes, At
<1>7. \A v \in Pool : Writes(v)' => linked'[v]
  BY <1>3, <1>5, <1>6 DEF FileInv
<1>8. \A i \in good' : narinfo'[batch'[i]] >= 0
  <2>1. \A i \in good : batch[i] \in Path /\ narinfo[batch[i]] >= 0
    BY Domains DEF FileInv, TypeOK
  <2> QED BY <1>1, <1>2, <1>4, <2>1
<1>9. ASSUME NEW p \in Path \ cut', Begun(p)' PROVE SharedFile(p)'
  <2>1. Begun(p)
    BY <1>1, <1>2, <1>5, <1>6, <1>9 DEF Begun, Writes, At
  <2>2. SharedFile(p)
    BY <1>1, <2>1 DEF FileInv
  <2>3. \A v \in Pool : At(v, "copy") => v # w
    BY <1>2 DEF At
  <2> QED BY <1>1, <1>3, <1>6, <2>2, <2>3 DEF SharedFile
<1>10. ASSUME NEW i \in Jobs', ~NamedTwice(batch[i])' PROVE OwnFile(i)'
  <2>1. i \in Jobs /\ batch[i] \in Path /\ ~NamedTwice(batch[i])
    BY <1>1, <1>10, Domains DEF NamedTwice
  <2>2. OwnFile(i)
    BY <2>1 DEF FileInv
  <2>3. i \in good' => nar'[batch[i]] = Image(narinfo'[batch[i]])
    <3>1. CASE i = worker[w].job
      <4>1. nar[p0] = Image(o)
        BY <1>2, <2>2, <3>1 DEF OwnFile, At
      <4> QED BY <1>1, <1>2, <1>4, <3>1, <4>1
    <3>2. CASE i # worker[w].job
      <4>1. batch[i] # p0
        BY <1>2, <2>1, <3>2, Writer
      <4> QED BY <1>1, <1>4, <2>1, <2>2, <3>2, <4>1 DEF OwnFile
    <3> QED BY <3>1, <3>2
  <2>4. ASSUME NEW v \in Pool, worker'[v].job = i
        PROVE  /\ At(v, "copy")' => nar'[batch[i]] = Chunks(worker'[v].off)
               /\ At(v, "narinfo")' => nar'[batch[i]] = Image(worker'[v].off)
    <3>1. CASE v = w
      BY <1>3, <3>1 DEF At, Idle
    <3>2. CASE v # w
      BY <1>1, <1>3, <1>6, <2>2, <2>4, <3>2 DEF OwnFile
    <3> QED BY <3>1, <3>2
  <2> QED BY <1>1, <2>3, <2>4 DEF OwnFile
<1> QED BY <1>1, <1>7, <1>8, <1>9, <1>10 DEF FileInv

LEMMA FileStep ==
  ASSUME TypeOK, JobInv, FileInv, [Next]_vars
  PROVE  FileInv'
<1> SUFFICES ASSUME Undisturbed' PROVE FileInv'
  BY DEF FileInv
<1>0. batch' = batch
  BY SameBatch
<1>1. CASE NoPathInfo \/ BatchFails \/ CleanUp
  BY <1>1 DEF NoPathInfo, BatchFails, CleanUp, Undisturbed
<1>2. CASE BatchDone
  BY <1>0, <1>2, FileUnchanged DEF BatchDone, Undisturbed, results, files
<1>3. ASSUME NEW i \in Jobs, PathInfo(i) PROVE FileInv'
  BY <1>0, <1>3, FileUnchanged DEF PathInfo, Undisturbed, results, files
<1>4. ASSUME NEW w \in Pool, TakeJob(w) PROVE FileInv'
  BY <1>4, FileTakeJob DEF TakeJob, Undisturbed, results
<1>5. ASSUME NEW w \in Pool, CreateNar(w) PROVE FileInv'
  BY <1>5, FileCreate DEF CreateNar, Undisturbed, results
<1>6. ASSUME NEW w \in Pool, CopyChunk(w) \/ EndOfDump(w) PROVE FileInv'
  BY <1>6, FileWrite DEF CopyChunk, EndOfDump, Undisturbed, results
<1>7. ASSUME NEW w \in Pool, WriteNarinfo(w) PROVE FileInv'
  BY <1>7, FileDescribe DEF WriteNarinfo, Post, Undisturbed
<1>8. ASSUME NEW w \in Pool, JobFails(w) PROVE FileInv'
  BY <1>8 DEF JobFails, Post, Undisturbed
<1>9. ASSUME NEW p \in Path, Upload(p) PROVE FileInv'
  BY <1>0, <1>9, FileUnchanged DEF Upload, Undisturbed, results, files
<1>10. CASE UNCHANGED vars
  BY <1>10, FileUnchanged DEF vars, Undisturbed, results, files
<1> QED BY <1>1, <1>2, <1>3, <1>4, <1>5, <1>6, <1>7, <1>8, <1>9, <1>10 DEF Next, Work

-----------------------------------------------------------------------------
(* What the registry gets.                                                 *)

LEMMA UploadStep ==
  ASSUME NarInv, [Next]_vars
  PROVE  UploadsExact'
<1> USE DEF NarInv
<1>0. Jobs' = Jobs /\ batch' = batch
  BY SameBatch
<1>1. CASE UNCHANGED uploads /\ cut \subseteq cut'
  BY <1>0, <1>1 DEF UploadsExact, uploads, NamedTwice
<1>2. ASSUME NEW p \in Path, Upload(p) PROVE UploadsExact'
  <2>1. pc = "upload" /\ cut' = cut
    BY <1>2 DEF Upload
  <2>2. Undisturbed /\ good = Jobs
    BY <2>1 DEF EndInv, AllWritten, JobInv, TypeOK, Undisturbed
  <2>3. PICK i \in Jobs : batch[i] = p
    BY <1>2 DEF Upload
  <2>4. \A w \in Pool : ~At(w, "copy")
    BY <2>2, BusyWorker DEF At, Busy
  <2>5. narinfo[p] >= 0 /\ (narinfo[p] = Size \/ p \in cut)
    <3>1. narinfo[p] >= 0
      BY <2>2, <2>3 DEF FileInv
    <3>2. ~(None >= 0) /\ ~(Torn >= 0)
      BY DEF None, Torn
    <3> QED BY <3>1, <3>2 DEF CutInv
  <2>6. CASE Accepts(p)
    BY <1>0, <1>2, <2>1, <2>5, <2>6 DEF Upload, UploadsExact, NamedTwice, TypeOK
  <2>7. CASE ~Accepts(p)
    <3>1. p \in cut
      <4> SUFFICES ASSUME p \notin cut PROVE FALSE
        OBVIOUS
      <4>1. nar[p] = Image(Size)
        BY <2>2, <2>3, <2>4 DEF FileInv, Begun, SharedFile
      <4> QED BY <2>5, <2>7, <4>1 DEF Accepts
    <3>2. NamedTwice(p)
      <4> SUFFICES ASSUME ~NamedTwice(p) PROVE FALSE
        OBVIOUS
      <4>1. nar[p] = Image(narinfo[p])
        BY <2>2, <2>3 DEF FileInv, OwnFile
      <4> QED BY <2>5, <2>7, <4>1 DEF Accepts
    <3> QED BY <1>0, <1>2, <2>1, <2>7, <3>1, <3>2 DEF Upload, UploadsExact, NamedTwice, TypeOK
  <2> QED BY <2>6, <2>7
<1> QED
  BY <1>1, <1>2 DEF Next, Work, vars, NoPathInfo, BatchDone, BatchFails, CleanUp, PathInfo,
     TakeJob, CreateNar, CopyChunk, EndOfDump, WriteNarinfo, JobFails

LEMMA LeftoversStep ==
  ASSUME NarInv, [Next]_vars
  PROVE  LeftoversExplained'
<1> USE DEF NarInv, LeftoversExplained
<1>1. CASE NoPathInfo \/ BatchDone \/ BatchFails
  BY <1>1 DEF NoPathInfo, BatchDone, BatchFails
<1>2. CASE CleanUp
  BY <1>2 DEF CleanUp
<1>3. ASSUME NEW i \in Jobs, PathInfo(i) PROVE LeftoversExplained'
  BY <1>3 DEF PathInfo
<1>4. ASSUME NEW w \in Pool, TakeJob(w) PROVE LeftoversExplained'
  BY <1>4, Domains DEF TakeJob, EndInv, results
<1>5. ASSUME NEW w \in Pool, CreateNar(w) \/ CopyChunk(w) \/ EndOfDump(w) PROVE LeftoversExplained'
  BY <1>5 DEF CreateNar, CopyChunk, EndOfDump, results
<1>6. ASSUME NEW w \in Pool, WriteNarinfo(w) \/ JobFails(w) PROVE LeftoversExplained'
  BY <1>6 DEF WriteNarinfo, JobFails, Post
<1>7. ASSUME NEW p \in Path, Upload(p) PROVE LeftoversExplained'
  BY <1>7 DEF Upload, files, results
<1>8. CASE UNCHANGED vars
  BY <1>8 DEF vars, files, results
<1> QED BY <1>1, <1>2, <1>3, <1>4, <1>5, <1>6, <1>7, <1>8 DEF Next, Work

LEMMA NarInvStep == NarInv /\ [Next]_vars => NarInv'
  BY NarTypeStep, JobStep, EndStep, CutStep, FileStep, UploadStep, LeftoversStep DEF NarInv

(* The invariant holds in every reachable state.                           *)
THEOREM NarInvariant == Spec => []NarInv
  BY NarInitInv, NarInvStep, PTL DEF Spec

(* Type correctness.                                                       *)
THEOREM NarTypeCorrect == Spec => []TypeOK
<1>1. NarInv => TypeOK
  BY DEF NarInv
<1> QED BY NarInvariant, <1>1, PTL

(* The registry gets the NAR of the store, or a dump of it stopped early;  *)
(* and it refuses a layer only for a path named twice of which one did.    *)
THEOREM UploadsAlwaysExact == Spec => []UploadsExact
<1>1. NarInv => UploadsExact
  BY DEF NarInv
<1> QED BY NarInvariant, <1>1, PTL

(* Only a failed batch leaves files behind.                                *)
THEOREM LeftoversAlwaysExplained == Spec => []LeftoversExplained
<1>1. NarInv => LeftoversExplained
  BY DEF NarInv
<1> QED BY NarInvariant, <1>1, PTL

=============================================================================
