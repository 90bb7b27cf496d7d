---------------------------- MODULE UpstreamCheck ----------------------------
(***************************************************************************)
(* Asking the upstream caches which store hashes they hold                 *)
(* (pkg/prepare/cache): Group.ExistsBatch asks every member Cache; each    *)
(* runs its own pool of workers over the hashes, and Cache.Exists makes    *)
(* one HTTP request per hash however many workers want to know.            *)
(*                                                                         *)
(* A member is asked by one batch at a time, as all callers do.  What it   *)
(* serves does not change meanwhile.  Jobs are taken in any order.         *)
(***************************************************************************)
EXTENDS Integers, Sequences, FiniteSets

CONSTANTS
  Member,   \* the caches of the group
  Hash,     \* store hashes
  Batches,  \* the lists of hashes asked for; a hash may occur twice
  Workers   \* the workers argument

ASSUME BatchesAssumption == Batches \subseteq Seq(Hash)
ASSUME WorkersAssumption == Workers \in Int

VARIABLES
  hashes,    \* the argument of ExistsBatch
  held,      \* what each member serves
  job,       \* per member and index of hashes: where its worker is
  present,   \* Cache.results: the hashes known to exist ...
  absent,    \* ... and those known not to
  inflight,  \* Cache.inflight
  found,     \* the hashes that are TRUE in the map ExistsBatch builds
  erred,     \* whether an error is in its result channel
  batch,     \* how each member's ExistsBatch ended
  merged     \* the group's answer so far

known == <<present, absent, inflight>>
vars == <<hashes, held, job, known, found, erred, batch, merged>>

-----------------------------------------------------------------------------

Jobs == DOMAIN hashes

At(m, s) == {i \in Jobs : job[m][i] = s}

Busy(m) == UNION {At(m, s) : s \in {"waiting", "woken", "requesting"}}

WorkerFree(m) == Cardinality(Busy(m)) < IF Workers <= 0 THEN 50 ELSE Workers

(* FAULT: a hash that is being asked for is asked for again.               *)
JoinableNever(m, h) == FALSE

(* There is a request under way that this one can wait for.                *)
Joinable(m, h) == h \in inflight[m]

(* FAULT: the waiters are only told when the request went well.            *)
WokenIfAnswered(m, h, answered) ==
  IF answered THEN {i \in At(m, "waiting") : hashes[i] = h} ELSE {}

(* close(ch): every worker that waits for the request goes on.             *)
Woken(m, h, answered) == {i \in At(m, "waiting") : hashes[i] = h}

(* FAULT: a check that failed is left out of the answer.                   *)
BatchErredNever(m) == FALSE

BatchErred(m) == erred[m]

(* FAULT: what a member was asked counts as held.                          *)
HitsAllReplied(m) == {hashes[i] : i \in At(m, "done")}

Hits(m) == found[m]

(* FAULT: the result channel is unbuffered.                                *)
RoomForReplyWhileRead(m) == batch[m] = "running"

(* resultsCh takes as many results as there are hashes, received or not.   *)
RoomForReply(m) == Cardinality(At(m, "done")) < Len(hashes)

(* resultsCh <- result: the last reply about a hash stands.                *)
Reply(m, h, exists) ==
  /\ RoomForReply(m)
  /\ found' = [found EXCEPT ![m] = IF exists THEN @ \cup {h} ELSE @ \ {h}]
  /\ UNCHANGED erred

ReplyError(m) ==
  /\ RoomForReply(m)
  /\ erred' = [erred EXCEPT ![m] = TRUE]
  /\ UNCHANGED found

Move(m, i, s) == job' = [job EXCEPT ![m][i] = s]

-----------------------------------------------------------------------------

(* A worker takes a job and finds the answer in the results map ...        *)
Recall(m, i) ==
  /\ job[m][i] = "queued" /\ WorkerFree(m)
  /\ hashes[i] \in present[m] \cup absent[m]
  /\ Move(m, i, "done")
  /\ Reply(m, hashes[i], hashes[i] \in present[m])
  /\ UNCHANGED <<hashes, held, known, batch, merged>>

(* ... or a request under way ...                                          *)
Join(m, i) ==
  /\ job[m][i] = "queued" /\ WorkerFree(m)
  /\ hashes[i] \notin present[m] \cup absent[m]
  /\ Joinable(m, hashes[i])
  /\ Move(m, i, "waiting")
  /\ UNCHANGED <<hashes, held, known, found, erred, batch, merged>>

(* ... or nothing, and makes the request.                                  *)
Lead(m, i) ==
  /\ job[m][i] = "queued" /\ WorkerFree(m)
  /\ hashes[i] \notin present[m] \cup absent[m]
  /\ ~Joinable(m, hashes[i])
  /\ Move(m, i, "requesting")
  /\ inflight' = [inflight EXCEPT ![m] = @ \cup {hashes[i]}]
  /\ UNCHANGED <<hashes, held, present, absent, found, erred, batch, merged>>

(* The end of a request: its entry goes and its waiters are woken.         *)
EndRequest(m, i, answered) ==
  /\ job[m][i] = "requesting"
  /\ inflight' = [inflight EXCEPT ![m] = @ \ {hashes[i]}]
  /\ job' = [job EXCEPT ![m] =
               [j \in Jobs |-> IF j = i THEN "done"
                               ELSE IF j \in Woken(m, hashes[i], answered) THEN "woken"
                               ELSE @[j]]]
  /\ UNCHANGED <<hashes, held, batch, merged>>

Answered(m, i) ==
  /\ EndRequest(m, i, TRUE)
  /\ IF hashes[i] \in held[m]
     THEN present' = [present EXCEPT ![m] = @ \cup {hashes[i]}] /\ UNCHANGED absent
     ELSE absent' = [absent EXCEPT ![m] = @ \cup {hashes[i]}] /\ UNCHANGED present
  /\ Reply(m, hashes[i], hashes[i] \in held[m])

(* No connection, the client's timeout, or another status than 200 or 404. *)
Failed(m, i) ==
  /\ EndRequest(m, i, FALSE)
  /\ ReplyError(m)
  /\ UNCHANGED <<present, absent>>

(* A woken worker reads the results map; no entry there reads as false,    *)
(* and the error of the request it waited for is not passed on to it.      *)
ReadAfterWait(m, i) ==
  /\ job[m][i] = "woken"
  /\ Move(m, i, "done")
  /\ Reply(m, hashes[i], hashes[i] \in present[m])
  /\ UNCHANGED <<hashes, held, known, batch, merged>>

(* ExistsBatch returns at the first error it receives.  Its workers go on  *)
(* by themselves, and the member contributes nothing.                      *)
BatchFails(m) ==
  /\ batch[m] = "running" /\ BatchErred(m)
  /\ batch' = [batch EXCEPT ![m] = "failed"]
  /\ UNCHANGED <<hashes, held, job, known, found, erred, merged>>

(* All replies are in and none is an error.                                *)
BatchReturns(m) ==
  /\ batch[m] = "running" /\ ~BatchErred(m)
  /\ At(m, "done") = Jobs
  /\ batch' = [batch EXCEPT ![m] = "answered"]
  /\ merged' = merged \cup Hits(m)
  /\ UNCHANGED <<hashes, held, job, known, found, erred>>

Init ==
  /\ hashes \in Batches
  /\ held \in [Member -> SUBSET Hash]
  /\ job = [m \in Member |-> [i \in Jobs |-> "queued"]]
  /\ present = [m \in Member |-> {}] /\ absent = [m \in Member |-> {}]
  /\ inflight = [m \in Member |-> {}]
  /\ found = [m \in Member |-> {}] /\ erred = [m \in Member |-> FALSE]
  /\ batch = [m \in Member |-> "running"]
  /\ merged = {}

Check(m, i) ==
  \/ Recall(m, i) \/ Join(m, i) \/ Lead(m, i)
  \/ Answered(m, i) \/ Failed(m, i) \/ ReadAfterWait(m, i)

Next ==
  \E m \in Member :
    \/ BatchFails(m) \/ BatchReturns(m)
    \/ \E i \in Jobs : Check(m, i)

(* Goroutines that can run do, and the HTTP client has a timeout of 10 s.  *)
Fairness ==
  \A m \in Member :
    /\ WF_vars(BatchFails(m)) /\ WF_vars(BatchReturns(m))
    /\ WF_vars(\E i \in Jobs : Check(m, i))

Spec == Init /\ [][Next]_vars

FairSpec == Spec /\ Fairness

-----------------------------------------------------------------------------

Returned == \A m \in Member : batch[m] # "running"

Asked == {hashes[i] : i \in Jobs}

JobStates == {"queued", "waiting", "woken", "requesting", "done"}

(* Type invariant.                                                         *)
TypeOK ==
  /\ hashes \in Seq(Hash)
  /\ held \in [Member -> SUBSET Hash]
  /\ job \in [Member -> [Jobs -> JobStates]]
  /\ present \in [Member -> SUBSET Hash] /\ absent \in [Member -> SUBSET Hash]
  /\ inflight \in [Member -> SUBSET Hash]
  /\ found \in [Member -> SUBSET Hash]
  /\ erred \in [Member -> BOOLEAN]
  /\ batch \in [Member -> {"running", "answered", "failed"}]
  /\ merged \in SUBSET Hash

(* "The group therefore under-reports presence": whatever fails and in     *)
(* whatever order the answers come, only hashes that some member holds are *)
(* reported.  This is what a push relies on when it leaves a path out.     *)
NoInventedHits == merged \subseteq Asked \cap UNION {held[m] : m \in Member}

(* "A hash absent from the returned map is held by no reachable member":   *)
(* a member that answered has all its hits in the group's answer.  The     *)
(* worker that waited for a failed request replies `absent'; that is only  *)
(* harmless because the error of that request fails the batch.             *)
ReachableMembersCounted ==
  \A m \in Member : batch[m] = "answered" => held[m] \cap Asked \subseteq merged

(* "Concurrent calls for the same hash are deduplicated to a single HTTP   *)
(* request", and none is made for a hash whose answer is known.            *)
SingleRequest ==
  \A m \in Member : \A i, j \in At(m, "requesting") :
    /\ hashes[i] = hashes[j] => i = j
    /\ hashes[i] \notin present[m] \cup absent[m]

(* The check ends and leaves no worker behind: also after an error, when   *)
(* ExistsBatch has returned and receives no more, nobody waits for an      *)
(* answer that no request will bring or blocks on a full channel.          *)
EveryWorkerEnds == <>(Returned /\ \A m \in Member : At(m, "done") = Jobs)

(* What it takes for that: whoever waits, waits for a request under way,   *)
(* also when the request that was under way before failed.                 *)
NoWorkerStranded ==
  \A m \in Member : \A i \in At(m, "waiting") :
    \E j \in At(m, "requesting") : hashes[j] = hashes[i]

(* Until every job is done a worker has something to do: a request to end, *)
(* an answer to read, or a job to take; and there is room for its reply.   *)
PoolNeverStuck ==
  \A m \in Member : At(m, "done") # Jobs =>
    /\ RoomForReply(m)
    /\ \E i \in Jobs : \/ job[m][i] \in {"requesting", "woken"}
                       \/ job[m][i] = "queued" /\ WorkerFree(m)

(* And they come to an end of it: no step but brings a job or a batch      *)
(* nearer to its end, and none puts a job back.  Each job can move three   *)
(* times at most and each batch once.                                      *)
Onward == {<<"queued", "waiting">>, <<"queued", "requesting">>, <<"queued", "done">>,
           <<"waiting", "woken">>, <<"woken", "done">>, <<"requesting", "done">>}

JobsAdvance ==
  /\ \E m \in Member : \E i \in Jobs : <<job[m][i], job'[m][i]>> \in Onward
  /\ \A m \in Member : \A i \in Jobs :
       job'[m][i] # job[m][i] => <<job[m][i], job'[m][i]>> \in Onward

BatchAdvances ==
  /\ \E m \in Member : batch[m] = "running" /\ batch'[m] # "running"
  /\ job' = job

CheckMovesOn ==
  [][ /\ UNCHANGED <<hashes, held>>
      /\ (JobsAdvance /\ batch' = batch) \/ BatchAdvances ]_vars

(* The inductive invariant behind the safety properties above.  A worker   *)
(* that was woken without an answer belongs to a batch that has failed.    *)
MemberInv(m) ==
  /\ present[m] \subseteq held[m] /\ absent[m] \cap held[m] = {}
  /\ found[m] \subseteq held[m] /\ found[m] \subseteq Asked
  /\ \A i \in Jobs :
       /\ job[m][i] = "requesting" =>
            /\ hashes[i] \in inflight[m] \ (present[m] \cup absent[m])
            /\ \A j \in Jobs : job[m][j] = "requesting" /\ hashes[j] = hashes[i] => i = j
       /\ job[m][i] = "woken" => hashes[i] \in present[m] \cup absent[m] \/ erred[m]
       /\ job[m][i] = "done" /\ hashes[i] \in held[m] => hashes[i] \in found[m] \/ erred[m]
       /\ batch[m] = "answered" => job[m][i] = "done"

(* The table of requests holds those under way and no others.              *)
TableInv(m) ==
  /\ \A h \in inflight[m] : \E i \in At(m, "requesting") : hashes[i] = h
  /\ \A i \in At(m, "waiting") : hashes[i] \in inflight[m]

CheckInv ==
  /\ TypeOK /\ NoInventedHits /\ ReachableMembersCounted
  /\ \A m \in Member : MemberInv(m) /\ TableInv(m)

=============================================================================
