------------------------ MODULE UpstreamCheckProofs ------------------------
(***************************************************************************)
(* Theorems about UpstreamCheck, for every group of caches, every list of  *)
(* hashes and every number of workers.                                     *)
(***************************************************************************)
EXTENDS UpstreamCheck, FiniteSetTheorems, TLAPS

LEMMA CheckInitInv == Init => CheckInv
<1> SUFFICES ASSUME Init PROVE CheckInv
  OBVIOUS
<1>1. TypeOK
  BY BatchesAssumption DEF Init, TypeOK, Jobs, JobStates
<1> QED
  BY <1>1 DEF Init, CheckInv, NoInventedHits, ReachableMembersCounted, MemberInv, TableInv, At

(* A worker moves on; the others stay where they are.                      *)
LEMMA MoveJob ==
  ASSUME job \in [Member -> [Jobs -> JobStates]], NEW m \in Member, NEW i \in Jobs,
         NEW s \in JobStates, Move(m, i, s)
  PROVE  /\ job' \in [Member -> [Jobs -> JobStates]]
         /\ \A n \in Member : n # m => job'[n] = job[n]
         /\ \A j \in Jobs : job'[m][j] = IF j = i THEN s ELSE job[m][j]
<1>1. job' = [job EXCEPT ![m] = [job[m] EXCEPT ![i] = s]]
  BY DEF Move
<1>2. [job[m] EXCEPT ![i] = s] \in [Jobs -> JobStates]
  OBVIOUS
<1> QED BY <1>1, <1>2

(* The end of a request moves its worker and those that wait for it.       *)
LEMMA EndRequestJob ==
  ASSUME job \in [Member -> [Jobs -> JobStates]], NEW m \in Member, NEW i \in Jobs,
         NEW answered, EndRequest(m, i, answered)
  PROVE  /\ job' \in [Member -> [Jobs -> JobStates]]
         /\ \A n \in Member : n # m => job'[n] = job[n]
         /\ \A j \in Jobs : job'[m][j] = IF j = i THEN "done"
                                         ELSE IF job[m][j] = "waiting" /\ hashes[j] = hashes[i]
                                         THEN "woken" ELSE job[m][j]
<1> DEFINE after == [j \in Jobs |-> IF j = i THEN "done"
                                    ELSE IF j \in Woken(m, hashes[i], answered) THEN "woken"
                                    ELSE job[m][j]]
<1>1. job' = [job EXCEPT ![m] = after]
  BY DEF EndRequest
<1>2. after \in [Jobs -> JobStates]
  BY DEF JobStates
<1>3. \A j \in Jobs : after[j] = IF j = i THEN "done"
                                 ELSE IF job[m][j] = "waiting" /\ hashes[j] = hashes[i]
                                 THEN "woken" ELSE job[m][j]
  BY DEF Woken, At
<1> HIDE DEF after
<1> QED BY <1>1, <1>2, <1>3

LEMMA CheckTypeStep ==
  ASSUME TypeOK, [Next]_vars
  PROVE  TypeOK'
<1> USE DEF TypeOK
<1>1. ASSUME NEW m \in Member, BatchFails(m) \/ BatchReturns(m) PROVE TypeOK'
  BY <1>1 DEF BatchFails, BatchReturns, Hits, known, Jobs
<1>2. ASSUME NEW m \in Member, NEW i \in Jobs, Check(m, i) PROVE TypeOK'
  <2> USE DEF known
  <2>0. UNCHANGED <<hashes, held, batch, merged>>
    BY <1>2 DEF Check, Recall, Join, Lead, Answered, Failed, EndRequest, ReadAfterWait
  <2>1. hashes[i] \in Hash /\ Jobs' = Jobs
    BY <2>0 DEF Jobs
  <2>2. CASE Recall(m, i) \/ ReadAfterWait(m, i)
    <3>1. job' \in [Member -> [Jobs -> JobStates]]
      BY <2>2, MoveJob DEF Recall, ReadAfterWait, JobStates
    <3>2. found' \in [Member -> SUBSET Hash]
      BY <2>1, <2>2 DEF Recall, ReadAfterWait, Reply
    <3> QED BY <2>0, <2>1, <2>2, <3>1, <3>2 DEF Recall, ReadAfterWait, Reply
  <2>3. CASE Join(m, i)
    <3>1. job' \in [Member -> [Jobs -> JobStates]]
      BY <2>3, MoveJob DEF Join, JobStates
    <3> QED BY <2>0, <2>1, <2>3, <3>1 DEF Join
  <2>4. CASE Lead(m, i)
    <3>1. job' \in [Member -> [Jobs -> JobStates]]
      BY <2>4, MoveJob DEF Lead, JobStates
    <3>2. inflight' \in [Member -> SUBSET Hash]
      BY <2>1, <2>4 DEF Lead
    <3> QED BY <2>0, <2>1, <2>4, <3>1, <3>2 DEF Lead
  <2>5. CASE Answered(m, i)
    <3>1. job' \in [Member -> [Jobs -> JobStates]]
      BY <2>5, EndRequestJob DEF Answered
    <3>4. inflight' \in [Member -> SUBSET Hash]
      BY <2>5 DEF Answered, EndRequest
    <3>2. found' \in [Member -> SUBSET Hash]
      BY <2>1, <2>5 DEF Answered, Reply
    <3>3. present' \in [Member -> SUBSET Hash] /\ absent' \in [Member -> SUBSET Hash]
      <4>1. \/ present' = [present EXCEPT ![m] = @ \cup {hashes[i]}] /\ absent' = absent
            \/ absent' = [absent EXCEPT ![m] = @ \cup {hashes[i]}] /\ present' = present
        BY <2>5 DEF Answered
      <4>2. \A S \in [Member -> SUBSET Hash] :
              [S EXCEPT ![m] = @ \cup {hashes[i]}] \in [Member -> SUBSET Hash]
        BY <2>1
      <4> QED BY <4>1, <4>2
    <3> QED BY <2>0, <2>1, <2>5, <3>1, <3>2, <3>3, <3>4 DEF Answered, Reply
  <2>6. CASE Failed(m, i)
    <3>1. job' \in [Member -> [Jobs -> JobStates]] /\ inflight' \in [Member -> SUBSET Hash]
      BY <2>1, <2>6, EndRequestJob DEF Failed, EndRequest
    <3> QED BY <2>0, <2>1, <2>6, <3>1 DEF Failed, ReplyError
  <2> QED BY <1>2, <2>2, <2>3, <2>4, <2>5, <2>6 DEF Check
<1>3. CASE UNCHANGED vars
  BY <1>3 DEF vars, known, Jobs
<1> QED BY <1>1, <1>2, <1>3 DEF Next

(* The members share nothing but the answer.                               *)
LEMMA OtherMember ==
  ASSUME NEW n \in Member, MemberInv(n), hashes' = hashes, held' = held,
         batch'[n] = "answered" =>
           batch[n] = "answered" \/ \A i \in Jobs : job[n][i] = "done",
         job'[n] = job[n], present'[n] = present[n], absent'[n] = absent[n],
         inflight'[n] = inflight[n], found'[n] = found[n], erred'[n] = erred[n]
  PROVE  MemberInv(n)' /\ (TableInv(n) => TableInv(n)')
  BY DEF MemberInv, TableInv, At, Asked, Jobs

(* A reply about a hash whose answer is known, or of a failed batch.       *)
LEMMA ReplyInv ==
  ASSUME TypeOK, NEW m \in Member, NEW i \in Jobs, MemberInv(m),
         job[m][i] \in {"queued", "woken"},
         hashes[i] \in present[m] \cup absent[m] \/ erred[m],
         Move(m, i, "done"), Reply(m, hashes[i], hashes[i] \in present[m]),
         UNCHANGED <<hashes, held, known, batch>>
  PROVE  MemberInv(m)'
<1> USE DEF Jobs
<1>1. /\ found'[m] = IF hashes[i] \in present[m] THEN found[m] \cup {hashes[i]}
                     ELSE found[m] \ {hashes[i]}
      /\ erred' = erred /\ hashes' = hashes /\ held' = held /\ batch' = batch
      /\ present' = present /\ absent' = absent /\ inflight' = inflight
  BY DEF Reply, TypeOK, known
<1>2. \A j \in Jobs : job'[m][j] = IF j = i THEN "done" ELSE job[m][j]
  BY MoveJob DEF TypeOK, JobStates
<1>3. \A j \in Jobs : job'[m][j] = "done" =>
        (hashes[j] \in held[m] => hashes[j] \in found'[m] \/ erred[m])
  BY <1>1, <1>2 DEF MemberInv
<1>4. found'[m] \subseteq held[m] \cap Asked
  BY <1>1 DEF MemberInv, Asked
<1> QED BY <1>1, <1>2, <1>3, <1>4 DEF MemberInv, Asked

(* The end of a request, with an answer or without.                        *)
LEMMA EndRequestInv ==
  ASSUME TypeOK, NEW m \in Member, NEW i \in Jobs, MemberInv(m),
         Answered(m, i) \/ Failed(m, i)
  PROVE  MemberInv(m)'
<1> USE DEF Jobs
<1> DEFINE h == hashes[i]
<1>0. /\ job[m] \in [Jobs -> JobStates]
      /\ job[m][i] = "requesting" /\ h \notin present[m] \cup absent[m]
      /\ hashes' = hashes /\ held' = held /\ batch' = batch
      /\ inflight'[m] = inflight[m] \ {h}
  BY DEF TypeOK, Answered, Failed, EndRequest, MemberInv
<1>1. \A j \in Jobs : job'[m][j] = IF j = i THEN "done"
                                   ELSE IF job[m][j] = "waiting" /\ hashes[j] = h THEN "woken"
                                   ELSE job[m][j]
  BY EndRequestJob DEF TypeOK, Answered, Failed
<1>2. CASE Answered(m, i)
  <2>1. /\ present'[m] = IF h \in held[m] THEN present[m] \cup {h} ELSE present[m]
        /\ absent'[m] = IF h \in held[m] THEN absent[m] ELSE absent[m] \cup {h}
        /\ found'[m] = IF h \in held[m] THEN found[m] \cup {h} ELSE found[m] \ {h}
        /\ erred' = erred
    BY <1>2 DEF Answered, Reply, TypeOK
  <2> QED BY <1>0, <1>1, <2>1 DEF MemberInv, Asked
<1>3. CASE Failed(m, i)
  <2>1. erred'[m] = TRUE /\ found' = found /\ present' = present /\ absent' = absent
    BY <1>3 DEF Failed, ReplyError, TypeOK
  <2> QED BY <1>0, <1>1, <2>1 DEF MemberInv, Asked
<1> QED BY <1>2, <1>3

(* A request leaves the table when it ends and takes its waiters along.     *)
LEMMA TableInvStep ==
  ASSUME TypeOK, NEW m \in Member, NEW i \in Jobs, TableInv(m),
         hashes' = hashes, Check(m, i)
  PROVE  TableInv(m)'
<1>0. job[m] \in [Jobs -> JobStates] /\ Jobs' = Jobs
  BY DEF TypeOK, Jobs
<1>1. CASE Recall(m, i) \/ ReadAfterWait(m, i)
  <2>1. \A j \in Jobs : job'[m][j] = IF j = i THEN "done" ELSE job[m][j]
    BY <1>1, MoveJob DEF Recall, ReadAfterWait, TypeOK, JobStates
  <2>2. inflight' = inflight /\ job[m][i] \in {"queued", "woken"}
    BY <1>1 DEF Recall, ReadAfterWait, known
  <2> QED BY <1>0, <2>1, <2>2 DEF TableInv, At
<1>2. CASE Join(m, i)
  <2>1. \A j \in Jobs : job'[m][j] = IF j = i THEN "waiting" ELSE job[m][j]
    BY <1>2, MoveJob DEF Join, TypeOK, JobStates
  <2>2. inflight' = inflight /\ job[m][i] = "queued" /\ hashes[i] \in inflight[m]
    BY <1>2 DEF Join, Joinable, known
  <2> QED BY <1>0, <2>1, <2>2 DEF TableInv, At
<1>3. CASE Lead(m, i)
  <2>1. \A j \in Jobs : job'[m][j] = IF j = i THEN "requesting" ELSE job[m][j]
    BY <1>3, MoveJob DEF Lead, TypeOK, JobStates
  <2>2. inflight'[m] = inflight[m] \cup {hashes[i]} /\ job[m][i] = "queued"
    BY <1>3 DEF Lead, TypeOK
  <2> QED BY <1>0, <2>1, <2>2 DEF TableInv, At
<1>4. CASE Answered(m, i) \/ Failed(m, i)
  <2>1. \A j \in Jobs : job'[m][j] = IF j = i THEN "done"
                                     ELSE IF job[m][j] = "waiting" /\ hashes[j] = hashes[i]
                                     THEN "woken" ELSE job[m][j]
    BY <1>4, EndRequestJob DEF TypeOK, Answered, Failed
  <2>2. inflight'[m] = inflight[m] \ {hashes[i]} /\ job[m][i] = "requesting"
    BY <1>4 DEF Answered, Failed, EndRequest, TypeOK
  <2> QED BY <1>0, <2>1, <2>2 DEF TableInv, At
<1> QED BY <1>1, <1>2, <1>3, <1>4 DEF Check

LEMMA CheckInvStep ==
  ASSUME CheckInv, [Next]_vars
  PROVE  CheckInv'
<1>0. TypeOK'
  BY CheckTypeStep DEF CheckInv
<1> USE DEF CheckInv
<1>1. ASSUME NEW m \in Member, BatchFails(m) PROVE CheckInv'
  <2>1. /\ batch' = [batch EXCEPT ![m] = "failed"]
        /\ UNCHANGED <<hashes, held, job, known, found, erred, merged>>
    BY <1>1 DEF BatchFails
  <2>2. \A n \in Member : MemberInv(n)' /\ TableInv(n)'
    BY <2>1, OtherMember DEF known, TypeOK
  <2>3. NoInventedHits' /\ ReachableMembersCounted'
    BY <2>1 DEF NoInventedHits, ReachableMembersCounted, Asked, Jobs, TypeOK
  <2> QED BY <1>0, <2>2, <2>3
<1>2. ASSUME NEW m \in Member, BatchReturns(m) PROVE CheckInv'
  <2>1. /\ merged' = merged \cup found[m] /\ batch' = [batch EXCEPT ![m] = "answered"]
        /\ ~erred[m] /\ \A i \in Jobs : job[m][i] = "done"
        /\ UNCHANGED <<hashes, held, job, known, found, erred>>
    BY <1>2 DEF BatchReturns, BatchErred, Hits, At
  <2>2. NoInventedHits'
    BY <2>1 DEF NoInventedHits, MemberInv, Asked, Jobs
  <2>3. ReachableMembersCounted'
    BY <2>1 DEF ReachableMembersCounted, MemberInv, Asked, Jobs, TypeOK
  <2>4. \A n \in Member : MemberInv(n)' /\ TableInv(n)'
    BY <2>1, OtherMember DEF known, TypeOK
  <2> QED BY <1>0, <2>2, <2>3, <2>4
<1>3. ASSUME NEW m \in Member, NEW i \in Jobs, Check(m, i) PROVE CheckInv'
  <2> USE DEF known
  <2>1. UNCHANGED <<hashes, held, batch, merged>>
    BY <1>3 DEF Check, Recall, Join, Lead, Answered, Failed, EndRequest, ReadAfterWait
  <2>2. NoInventedHits' /\ ReachableMembersCounted'
    BY <2>1 DEF NoInventedHits, ReachableMembersCounted, Asked, Jobs
  <2>3. ASSUME NEW n \in Member, n # m PROVE MemberInv(n)' /\ TableInv(n)'
    <3>1. /\ job'[n] = job[n] /\ present'[n] = present[n] /\ absent'[n] = absent[n]
          /\ inflight'[n] = inflight[n] /\ found'[n] = found[n] /\ erred'[n] = erred[n]
      BY <1>3, <2>3 DEF Check, Recall, Join, Lead, Answered, Failed, EndRequest,
                        ReadAfterWait, Move, Reply, ReplyError, TypeOK
    <3> QED BY <2>1, <3>1, OtherMember
  <2>4. TableInv(m)'
    BY <1>3, <2>1, TableInvStep
  <2>5. MemberInv(m)'
    <3>1. CASE Recall(m, i)
      BY <3>1, ReplyInv DEF Recall
    <3>2. CASE ReadAfterWait(m, i)
      BY <3>2, ReplyInv DEF ReadAfterWait, MemberInv
    <3>3. CASE Answered(m, i) \/ Failed(m, i)
      BY <3>3, EndRequestInv
    <3>4. CASE Join(m, i)
      <4>1. \A j \in Jobs : job'[m][j] = IF j = i THEN "waiting" ELSE job[m][j]
        BY <3>4, MoveJob DEF Join, TypeOK, JobStates
      <4> QED BY <2>1, <3>4, <4>1 DEF Join, MemberInv, Asked, Jobs
    <3>5. CASE Lead(m, i)
      <4>1. \A j \in Jobs : job'[m][j] = IF j = i THEN "requesting" ELSE job[m][j]
        BY <3>5, MoveJob DEF Lead, TypeOK, JobStates
      <4>2. /\ inflight'[m] = inflight[m] \cup {hashes[i]}
            /\ hashes[i] \notin inflight[m] \cup present[m] \cup absent[m]
            /\ UNCHANGED <<present, absent, found, erred>>
        BY <3>5 DEF Lead, Joinable, TypeOK
      <4> QED BY <2>1, <3>5, <4>1, <4>2 DEF Lead, MemberInv, Asked, Jobs
    <3> QED BY <1>3, <3>1, <3>2, <3>3, <3>4, <3>5 DEF Check
  <2> QED BY <1>0, <2>2, <2>3, <2>4, <2>5
<1>4. CASE UNCHANGED vars
  <2>1. \A n \in Member : MemberInv(n)' /\ TableInv(n)'
    BY <1>4, OtherMember DEF vars, known
  <2> QED BY <1>0, <1>4, <2>1 DEF vars, Asked, Jobs, NoInventedHits, ReachableMembersCounted
<1> QED BY <1>1, <1>2, <1>3, <1>4 DEF Next

(* The invariant holds in every reachable state.                           *)
THEOREM CheckInvariant == Spec => []CheckInv
  BY CheckInitInv, CheckInvStep, PTL DEF Spec

(* Type correctness.                                                       *)
THEOREM CheckTypeCorrect == Spec => []TypeOK
<1>1. CheckInv => TypeOK
  BY DEF CheckInv
<1> QED BY CheckInvariant, <1>1, PTL

(* The answer of the group is the `hits' PrepareClosure assumes: a part of *)
(* what was asked for and is held.                                         *)
THEOREM HitsNeverInvented == Spec => []NoInventedHits
<1>1. CheckInv => NoInventedHits
  BY DEF CheckInv
<1> QED BY CheckInvariant, <1>1, PTL

(* A member that answers is counted in full.                               *)
THEOREM ReachableMembersAlwaysCounted == Spec => []ReachableMembersCounted
<1>1. CheckInv => ReachableMembersCounted
  BY DEF CheckInv
<1> QED BY CheckInvariant, <1>1, PTL

(* One request per hash and member.                                        *)
THEOREM RequestsAlwaysSingle == Spec => []SingleRequest
<1>1. CheckInv => SingleRequest
  BY DEF CheckInv, MemberInv, SingleRequest, At
<1> QED BY CheckInvariant, <1>1, PTL

(* Whoever waits for a request waits for one that is under way.            *)
THEOREM NoWorkerEverStranded == Spec => []NoWorkerStranded
<1>1. CheckInv => NoWorkerStranded
  BY DEF CheckInv, TableInv, NoWorkerStranded
<1> QED BY CheckInvariant, <1>1, PTL

(* The workers of a member never all wait for each other: as long as jobs  *)
(* are left there is one to end, one to read the answer of or one to take, *)
(* and room in the result channel, whether or not anybody still reads it.  *)
THEOREM PoolNeverGetsStuck == Spec => []PoolNeverStuck
<1>1. ASSUME CheckInv PROVE PoolNeverStuck
  <2>1. ASSUME NEW m \in Member, At(m, "done") # Jobs,
               \A i \in Jobs : job[m][i] \notin {"requesting", "woken"}
        PROVE  \E i \in Jobs : job[m][i] = "queued" /\ WorkerFree(m)
    <3>1. \A i \in Jobs : job[m][i] # "waiting"
      BY <1>1, <2>1 DEF CheckInv, TableInv, At
    <3>2. PICK i \in Jobs : job[m][i] # "done"
      BY <2>1 DEF At
    <3>3. job[m][i] = "queued"
      BY <1>1, <2>1, <3>1, <3>2 DEF CheckInv, TypeOK, JobStates
    <3>4. Busy(m) = {}
      BY <2>1, <3>1 DEF Busy, At
    <3>5. WorkerFree(m)
      BY <3>4, FS_EmptySet, WorkersAssumption DEF WorkerFree
    <3> QED BY <3>3, <3>5
  <2>2. ASSUME NEW m \in Member, At(m, "done") # Jobs
        PROVE  RoomForReply(m)
    <3>1. Len(hashes) \in Nat /\ Jobs = 1..Len(hashes)
      BY <1>1 DEF CheckInv, TypeOK, Jobs
    <3>2. IsFiniteSet(Jobs) /\ Cardinality(Jobs) = Len(hashes)
      BY <3>1, FS_Interval
    <3>3. At(m, "done") \subseteq Jobs
      BY DEF At
    <3>4. /\ Cardinality(At(m, "done")) \in Nat
          /\ Cardinality(At(m, "done")) < Cardinality(Jobs)
      BY <2>2, <3>2, <3>3, FS_Subset, FS_CardinalityType
    <3> QED BY <3>2, <3>4 DEF RoomForReply
  <2> QED BY <2>1, <2>2 DEF PoolNeverStuck
<1> QED BY CheckInvariant, <1>1, PTL

(* Every step of a worker moves its job on, and with it only jobs that     *)
(* wait for it.                                                            *)
LEMMA JobsAdvanceStep ==
  ASSUME TypeOK, NEW m \in Member, NEW i \in Jobs, Check(m, i)
  PROVE  JobsAdvance
<1>0. job[m] \in [Jobs -> JobStates]
  BY DEF TypeOK
<1>1. ASSUME NEW s \in JobStates, Move(m, i, s), <<job[m][i], s>> \in Onward
      PROVE  JobsAdvance
  <2>1. /\ job'[m][i] = s
        /\ \A n \in Member : \A j \in Jobs : n # m \/ j # i => job'[n][j] = job[n][j]
    BY <1>1, MoveJob DEF TypeOK
  <2> QED BY <1>1, <2>1 DEF JobsAdvance
<1>2. CASE Recall(m, i) \/ ReadAfterWait(m, i)
  BY <1>1, <1>2 DEF Recall, ReadAfterWait, Onward, JobStates
<1>3. CASE Join(m, i) \/ Lead(m, i)
  BY <1>1, <1>3 DEF Join, Lead, Onward, JobStates
<1>4. CASE Answered(m, i) \/ Failed(m, i)
  <2>1. job[m][i] = "requesting"
    BY <1>4 DEF Answered, Failed, EndRequest
  <2>2. /\ \A n \in Member : n # m => job'[n] = job[n]
        /\ \A j \in Jobs : job'[m][j] = IF j = i THEN "done"
                                        ELSE IF job[m][j] = "waiting" /\ hashes[j] = hashes[i]
                                        THEN "woken" ELSE job[m][j]
    BY <1>4, EndRequestJob DEF TypeOK, Answered, Failed
  <2>3. <<job[m][i], job'[m][i]>> \in Onward
    BY <2>1, <2>2 DEF Onward
  <2>4. ASSUME NEW n \in Member, NEW j \in Jobs, job'[n][j] # job[n][j]
        PROVE  <<job[n][j], job'[n][j]>> \in Onward
    BY <2>1, <2>2, <2>4 DEF Onward
  <2> QED BY <2>3, <2>4 DEF JobsAdvance
<1> QED BY <1>2, <1>3, <1>4 DEF Check

(* No step of a check leaves it where it is or takes it back.              *)
THEOREM CheckAlwaysMovesOn == Spec => CheckMovesOn
<1> DEFINE Advances == /\ UNCHANGED <<hashes, held>>
                       /\ (JobsAdvance /\ batch' = batch) \/ BatchAdvances
<1>1. ASSUME TypeOK, Next PROVE Advances
  <2>1. ASSUME NEW m \in Member, BatchFails(m) \/ BatchReturns(m) PROVE Advances
    BY <1>1, <2>1 DEF BatchFails, BatchReturns, BatchAdvances, TypeOK
  <2>2. ASSUME NEW m \in Member, NEW i \in Jobs, Check(m, i) PROVE Advances
    <3>1. UNCHANGED <<hashes, held, batch>>
      BY <2>2 DEF Check, Recall, Join, Lead, Answered, Failed, EndRequest, ReadAfterWait
    <3> QED BY <1>1, <2>2, <3>1, JobsAdvanceStep
  <2> QED BY <1>1, <2>1, <2>2 DEF Next
<1>2. TypeOK /\ [Next]_vars => [Advances]_vars
  BY <1>1
<1> QED BY CheckTypeCorrect, <1>2, PTL DEF Spec, CheckMovesOn

=============================================================================
