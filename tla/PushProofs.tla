----------------------------- MODULE PushProofs -----------------------------
(***************************************************************************)
(* Theorems about the preparation of a closure, about the two programs     *)
(* that prepare one, PushPipeline and CIRun, and about what the first      *)
(* promises: for every store, every reference graph, every list of inputs  *)
(* or builds and every number of workers and caches.                       *)
(*                                                                         *)
(* Both programs keep the invariant PrepInv of their preparation by the    *)
(* step lemmas of the first part.                                          *)
(***************************************************************************)
EXTENDS PushPipeline, CIRun, ReceiptWalk, SequenceTheorems, FiniteSetTheorems,
        WellFoundedInduction, TLAPS

-----------------------------------------------------------------------------
(***************************************************************************)
(* The preparation of a closure                                            *)
(***************************************************************************)

(* A store whose batch has not begun satisfies the invariant.              *)
LEMMA PrepInitInv == PrepInit => PrepInv
  BY GraphAssumption
  DEF PrepInit, PrepInv, PrepTypeOK, ResultsAcyclic, ClosedUnderAttached

(* A new batch: its paths are the roots and nothing is attached yet.       *)
LEMMA BeginPrepareInv ==
  ASSUME PrepInv, NEW batch \in SUBSET Path, BeginPrepare(batch)
  PROVE  PrepInv'
<1>1. PICK hits \in Observed(batch) : missing' = MissingRefs(batch, hits)
  BY DEF BeginPrepare
<1>2. hits \subseteq Upstream
  BY DEF Observed
<1>3. PrepTypeOK'
  BY <1>1 DEF BeginPrepare, PrepInv, PrepTypeOK, MissingRefs
<1>4. ResultsAcyclic'
  BY DEF BeginPrepare, ResultsAcyclic
<1>5. \A p \in batch : missing'[p] = refs[p] \ hits
  BY <1>1 DEF MissingRefs
<1>6. QED
  BY <1>2, <1>3, <1>4, <1>5 DEF BeginPrepare, PrepInv, ClosedUnderAttached

(* A deeper level: its paths are new, and each has a referrer above.       *)
LEMMA PrepareRefsInv ==
  ASSUME PrepInv, PrepareRefs
  PROVE  PrepInv'
<1> DEFINE new == NewPaths
<1> USE DEF PrepInv
<1>1. PICK hits \in Observed(new) : missing' = MissingRefs(new, hits)
  BY DEF PrepareRefs
<1>2. hits \subseteq Upstream
  BY DEF Observed
<1>3. /\ visited' = visited \cup new /\ frontier' = new
      /\ refs' = refs /\ roots' = roots
      /\ \A p \in Path : attached'[p] = IF p \in frontier THEN missing[p] \cap new
                                        ELSE attached[p]
  BY DEF PrepareRefs, AttachRefs
<1>4. new \subseteq Path /\ new \cap visited = {}
  BY DEF NewPaths, PrepTypeOK
<1>5. PrepTypeOK'
  BY <1>1, <1>4 DEF PrepareRefs, PrepTypeOK, MissingRefs, AttachRefs
<1>6. /\ \A p \in visited : missing'[p] = missing[p]
      /\ \A p \in new : missing'[p] = refs[p] \ hits
  BY <1>1, <1>4 DEF MissingRefs, PrepTypeOK
<1>7. ASSUME NEW p \in Path PROVE attached'[p] \subseteq visited' \ roots'
  <2>1. new \cap roots = {}
    BY <1>4
  <2>2. CASE p \in frontier
    BY <2>1, <2>2, <1>3
  <2>3. CASE p \notin frontier
    BY <2>3, <1>3
  <2> QED BY <2>2, <2>3
<1>8. \A p \in Path : p \notin visited' \ frontier' => attached'[p] = {}
  BY <1>3, <1>4
<1>9. \A p \in visited' \ frontier' : missing'[p] \subseteq visited'
  BY <1>3, <1>4, <1>6 DEF NewPaths
<1>10. /\ \A p \in visited' : refs'[p] \subseteq missing'[p] \cup Upstream
       /\ \A p \in visited' : missing'[p] \subseteq refs'[p]
  BY <1>2, <1>3, <1>6
<1>11. ResultsAcyclic'
  <2> SUFFICES ASSUME NEW S \in (SUBSET Path) \ {{}}
               PROVE  \E p \in S : attached'[p] \cap S = {}
    BY DEF ResultsAcyclic
  <2>1. CASE S \cap new # {}
    <3>1. PICK p \in S : p \in new
      BY <2>1
    <3>2. attached'[p] = {}
      BY <3>1, <1>3, <1>4
    <3> QED BY <3>2
  <2>2. CASE S \cap new = {}
    <3>1. PICK p \in S : attached[p] \cap S = {}
      BY DEF ResultsAcyclic
    <3>2. attached'[p] \cap S = {}
      BY <2>2, <3>1, <1>3
    <3> QED BY <3>2
  <2> QED BY <2>1, <2>2
<1>12. ASSUME NEW S \in SUBSET Path, roots' \subseteq S, ClosedUnderAttached(S)'
       PROVE  visited' \subseteq S
  <2>1. ClosedUnderAttached(S)
    BY <1>3, <1>12 DEF ClosedUnderAttached
  <2>2. visited \subseteq S
    BY <2>1, <1>3, <1>12
  <2>3. ASSUME NEW q \in new PROVE q \in S
    <3>1. PICK p \in frontier : q \in missing[p]
      BY DEF NewPaths
    <3>2. p \in S /\ p \in Path
      BY <2>2 DEF PrepTypeOK
    <3>3. q \in attached'[p]
      BY <3>1, <3>2, <1>3
    <3> QED BY <3>2, <3>3, <1>12 DEF ClosedUnderAttached
  <2> QED BY <2>2, <2>3, <1>3
<1>13. roots' \subseteq visited' /\ frontier' \subseteq visited'
  BY <1>3
<1> QED BY <1>5, <1>7, <1>8, <1>9, <1>10, <1>11, <1>12, <1>13

(* The invariant only depends on the variables of this module.             *)
LEMMA PrepUnchangedInv ==
  ASSUME PrepInv, UNCHANGED prepVars
  PROVE  PrepInv'
  BY DEF prepVars, PrepInv, PrepTypeOK, ResultsAcyclic, ClosedUnderAttached

(* The invariant holds in every reachable state.                           *)
THEOREM PrepInvariant == PrepSpec => []PrepInv
<1>1. PrepInv /\ [PrepNext]_prepVars => PrepInv'
  BY BeginPrepareInv, PrepareRefsInv, PrepUnchangedInv DEF PrepNext, NextBatch
<1> QED BY PrepInitInv, <1>1, PTL DEF PrepSpec

(* From the roots' Results the walk over MissingRefResults finds exactly   *)
(* the paths whose artifacts were generated.                               *)
LEMMA VisitedIsReachable == PrepInv => ResultsReachable
<1> SUFFICES ASSUME PrepInv PROVE visited = Reachable
  BY DEF ResultsReachable
<1>1. visited \subseteq Path /\ ClosedUnderAttached(visited) /\ roots \subseteq visited
  BY DEF PrepInv, PrepTypeOK, ClosedUnderAttached
<1>2. Reachable \subseteq visited
  BY <1>1 DEF Reachable
<1>3. visited \subseteq Reachable
  BY <1>1 DEF Reachable, PrepInv
<1> QED BY <1>2, <1>3

(* When the descent is over every reference is prepared or upstream.       *)
LEMMA DoneIsClosed == PrepInv => ClosurePrepared
<1> SUFFICES ASSUME PrepInv, PrepareMissingRefs, PrepareDone, NEW p \in visited
             PROVE  refs[p] \subseteq visited \cup Upstream
  BY DEF ClosurePrepared
<1>1. missing[p] \subseteq visited
  BY DEF PrepInv, PrepareDone, NewPaths
<1> QED BY <1>1 DEF PrepInv

(* completeReceipts: what it keeps was uploaded, and so was all it leads   *)
(* to.                                                                     *)
LEMMA CompleteReceiptsClosed ==
  ASSUME NEW up \in SUBSET Path
  PROVE  /\ CompleteReceipts(up) \subseteq up
         /\ ClosedUnderAttached(CompleteReceipts(up))
         /\ ClosedUnderAttached(up) => CompleteReceipts(up) = up
  BY DEF CompleteReceipts, ClosedUnderAttached

(* Type correctness.                                                       *)
THEOREM PrepTypeCorrect == PrepSpec => []PrepTypeOK
<1>1. PrepInv => PrepTypeOK
  BY DEF PrepInv
<1> QED BY PrepInvariant, <1>1, PTL

(* completeReceipts is never given a cycle.                                *)
THEOREM ResultsNeverCyclic == PrepSpec => []ResultsAcyclic
<1>1. PrepInv => ResultsAcyclic
  BY DEF PrepInv
<1> QED BY PrepInvariant, <1>1, PTL

(* No artifact is generated that no upload task is made for.               *)
THEOREM ResultsAlwaysReachable == PrepSpec => []ResultsReachable
  BY PrepInvariant, VisitedIsReachable, PTL

(* A finished descent leaves no reference behind.                          *)
THEOREM ClosureAlwaysPrepared == PrepSpec => []ClosurePrepared
  BY PrepInvariant, DoneIsClosed, PTL

(* What complete(r) answers for each path when `up' were uploaded: its own *)
(* upload and the answers for its MissingRefResults decide.                *)
AnswersRecursively(up, good) ==
  \A p \in Path : p \in good <=> p \in up /\ attached[p] \subseteq good

(* CompleteReceipts answers for each path as complete does.                *)
LEMMA CompleteIsRecursive ==
  ASSUME PrepInv, NEW up \in SUBSET Path
  PROVE  AnswersRecursively(up, CompleteReceipts(up))
<1> DEFINE whole == CompleteReceipts(up)
<1>1. whole \subseteq up /\ \A p \in whole : attached[p] \subseteq whole
  BY CompleteReceiptsClosed DEF ClosedUnderAttached
<1>2. ASSUME NEW p \in up, attached[p] \subseteq whole
      PROVE  p \in whole
  <2>1. whole \cup {p} \in SUBSET up
    BY <1>1
  <2>2. ClosedUnderAttached(whole \cup {p})
    BY <1>1, <1>2 DEF ClosedUnderAttached
  <2> QED BY <2>1, <2>2 DEF CompleteReceipts
<1> HIDE DEF whole
<1>3. AnswersRecursively(up, whole)
  BY <1>1, <1>2 DEF AnswersRecursively
<1> QED BY <1>3 DEF whole

(* The recursion of completeReceipts has CompleteReceipts for its only     *)
(* result.  On a cycle it would have several, and the in-progress mark in  *)
(* the memo would choose one.                                              *)
AnswersDetermined ==
  \A up \in SUBSET Path, good \in SUBSET Path :
    AnswersRecursively(up, good) <=> good = CompleteReceipts(up)

(* That is so whatever the upstream caches answered, level by level.       *)
THEOREM AnswersAlwaysDetermined == PrepSpec => []AnswersDetermined
<1>1. ASSUME PrepInv, NEW up \in SUBSET Path, NEW good \in SUBSET Path,
             AnswersRecursively(up, good)
      PROVE  good = CompleteReceipts(up)
  <2> DEFINE whole == CompleteReceipts(up)
  <2>1. whole \subseteq up /\ \A p \in whole : attached[p] \subseteq whole
    BY CompleteReceiptsClosed DEF ClosedUnderAttached
  <2>2. good \subseteq whole
    <3>1. good \in SUBSET up /\ ClosedUnderAttached(good)
      BY <1>1 DEF AnswersRecursively, ClosedUnderAttached
    <3> QED BY <3>1 DEF CompleteReceipts
  <2> HIDE DEF whole
  <2>3. whole \ good = {}
    <3> SUFFICES ASSUME whole \ good # {} PROVE FALSE
      OBVIOUS
    <3>1. whole \ good \in (SUBSET Path) \ {{}}
      BY <2>1
    <3>2. PICK p \in whole \ good : attached[p] \cap (whole \ good) = {}
      BY <1>1, <3>1 DEF PrepInv, ResultsAcyclic
    <3>3. attached[p] \subseteq good /\ p \in up /\ p \in Path
      BY <2>1, <3>2
    <3> QED BY <1>1, <3>2, <3>3 DEF AnswersRecursively
  <2> QED BY <2>2, <2>3 DEF whole
<1>2. PrepInv => AnswersDetermined
  BY CompleteIsRecursive, <1>1 DEF AnswersDetermined
<1> QED BY PrepInvariant, <1>2, PTL

(* Roots are tasks of their own and nobody's MissingRefResults.            *)
THEOREM RootsNeverAttached == PrepSpec => []RootsNotAttached
<1>1. PrepInv => RootsNotAttached
  BY DEF PrepInv, RootsNotAttached
<1> QED BY PrepInvariant, <1>1, PTL

-----------------------------------------------------------------------------
(***************************************************************************)
(* completeReceipts, call by call                                          *)
(***************************************************************************)

(* A call is entered, for either stack.                                    *)
LEMMA CallEntered ==
  ASSUME NEW stack \in Seq(Path), NEW p \in Path
  PROVE  /\ Append(stack, p) \in Seq(Path) /\ Append(stack, p) # <<>>
         /\ Len(stack) \in Nat /\ Len(Append(stack, p)) = Len(stack) + 1
         /\ \A i \in 1..Len(stack) : Append(stack, p)[i] = stack[i]
         /\ Append(stack, p)[Len(stack) + 1] = p
         /\ Last(Append(stack, p)) = p
  BY AppendProperties, LenProperties DEF Last

(* A call is left.                                                         *)
LEMMA CallLeft ==
  ASSUME NEW stack \in Seq(Path), stack # <<>>
  PROVE  /\ Len(stack) \in Nat \ {0} /\ Last(stack) = stack[Len(stack)]
         /\ \A i \in 1..Len(stack) : stack[i] \in Path
         /\ Last(stack) \in Path
         /\ Front(stack) \in Seq(Path) /\ Len(Front(stack)) = Len(stack) - 1
         /\ \A i \in 1..(Len(stack) - 1) : Front(stack)[i] = stack[i]
         /\ Front(stack) = <<>> <=> Len(stack) = 1
<1>1. Len(stack) \in Nat \ {0} /\ \A i \in 1..Len(stack) : stack[i] \in Path
  BY ElementOfSeq, LenProperties, EmptySeq
<1>2. /\ Front(stack) \in Seq(Path) /\ Len(Front(stack)) = Len(stack) - 1
      /\ \A i \in 1..(Len(stack) - 1) : Front(stack)[i] = stack[i]
  <2>1. /\ SubSeq(stack, 1, Len(stack) - 1) \in Seq(Path)
        /\ Len(SubSeq(stack, 1, Len(stack) - 1)) = Len(stack) - 1
        /\ \A i \in 1..(Len(stack) - 1) :
             SubSeq(stack, 1, Len(stack) - 1)[i] = stack[i]
    <3> DEFINE n == Len(stack) - 1
    <3>1. ASSUME NEW m \in Int, NEW k \in Int, \A i \in m..k : stack[i] \in Path
          PROVE  Len(SubSeq(stack, m, k)) = IF m <= k THEN k - m + 1 ELSE 0
      BY <3>1, SubSeqProperties, Zenon
    <3>2. n \in Nat /\ 1 \in Int /\ \A i \in 1..n : stack[i] \in Path
      BY <1>1
    <3>3. Len(SubSeq(stack, 1, n)) = IF 1 <= n THEN n - 1 + 1 ELSE 0
      <4> HIDE DEF n
      <4>1. n \in Int
        BY <3>2
      <4> QED BY <3>1, <3>2, <4>1, Zenon
    <3>4. Len(SubSeq(stack, 1, n)) = n
      <4> HIDE DEF n
      <4> QED BY <3>2, <3>3
    <3> QED BY <3>4, SMT
  <2> QED BY <2>1 DEF Front
<1>3. Front(stack) = <<>> <=> Len(Front(stack)) = 0
  BY <1>2, EmptySeq
<1> QED BY <1>1, <1>2, <1>3 DEF Last

(* complete is not asked about a path that is being decided: the calls     *)
(* from there on would be a cycle.                                         *)
LEMMA AskedIsUndecided ==
  ASSUME PrepInv, WalkTypeOK, AskStackInv, MemoInv, asks # <<>>,
         NEW q \in toAsk[Last(asks)]
  PROVE  q \in Path /\ q \notin Asking
<1>1. /\ Len(asks) \in Nat \ {0} /\ Last(asks) = asks[Len(asks)] /\ Last(asks) \in Path
      /\ \A i \in 1..Len(asks) : asks[i] \in Path
  BY CallLeft DEF WalkTypeOK
<1>2. q \in Path
  BY <1>1 DEF WalkTypeOK
<1>3. ASSUME q \in Asking PROVE FALSE
  <2>1. PICK j \in 1..Len(asks) : asks[j] = q
    BY <1>3 DEF Asking
  <2> DEFINE cycle == {asks[i] : i \in j..Len(asks)}
  <2>2. \A i \in j..Len(asks) : attached[asks[i]] \cap cycle # {}
    <3> TAKE i \in j..Len(asks)
    <3>1. CASE i = Len(asks)
      <4>1. q \in attached[asks[i]]
        BY <3>1, <1>1 DEF MemoInv
      <4>2. q \in cycle
        BY <2>1, <1>1
      <4> QED BY <4>1, <4>2
    <3>2. CASE i # Len(asks)
      <4>1. i \in 1..(Len(asks) - 1) /\ i + 1 \in j..Len(asks)
        BY <3>2, <1>1
      <4>2. asks[i + 1] \in attached[asks[i]]
        BY <4>1 DEF AskStackInv
      <4> QED BY <4>1, <4>2
    <3> QED BY <3>1, <3>2
  <2>3. cycle \in (SUBSET Path) \ {{}}
    <3>1. j \in j..Len(asks) /\ \A i \in j..Len(asks) : asks[i] \in Path
      BY <1>1
    <3>2. asks[j] \in cycle
      BY <3>1
    <3>3. cycle \subseteq Path
      BY <3>1
    <3> QED BY <3>2, <3>3
  <2> HIDE DEF cycle
  <2>4. PICK p \in cycle : attached[p] \cap cycle = {}
    BY <2>3 DEF PrepInv, ResultsAcyclic
  <2>5. PICK i \in j..Len(asks) : p = asks[i]
    BY <2>4 DEF cycle
  <2> QED BY <2>2, <2>4, <2>5
<1> QED BY <1>2, <1>3

(* The set of complete paths depends on nothing that walk or complete      *)
(* changes.                                                                *)
LEMMA CompleteUnchanged ==
  ASSUME UNCHANGED <<attached, uploaded>>
  PROVE  CompleteReceipts(uploaded)' = CompleteReceipts(uploaded)
  BY DEF CompleteReceipts, ClosedUnderAttached

(* complete begins to decide a path, asked by walk or by complete.         *)
LEMMA BeginCompleteInv ==
  ASSUME WalkTypeOK, AskStackInv, MemoInv, NEW q \in Path, BeginComplete(q),
         UNCHANGED <<attached, uploaded, spoiled>>,
         \/ asks = <<>> /\ toAsk' = toAsk
         \/ /\ asks # <<>> /\ q \in toAsk[Last(asks)]
            /\ toAsk' = [toAsk EXCEPT ![Last(asks)] = @ \ {q}]
  PROVE  /\ AskStackInv' /\ MemoInv'
         /\ asks' \in Seq(Path) /\ toAsk' \in [Path -> SUBSET Path]
         /\ memo' \in [Path -> {"absent", "complete", "incomplete"}]
         /\ asks' # <<>> /\ asks'[1] = IF asks = <<>> THEN q ELSE asks[1]
<1> DEFINE n == Len(asks)
<1> DEFINE top == Last(asks)
<1>1. /\ asks' \in Seq(Path) /\ asks' # <<>> /\ n \in Nat /\ Len(asks') = n + 1
      /\ \A i \in 1..n : asks'[i] = asks[i]
      /\ asks'[n + 1] = q
  BY CallEntered DEF BeginComplete, WalkTypeOK
<1>2. asks = <<>> => n = 0
  BY EmptySeq
<1>3. asks # <<>> => /\ n # 0 /\ top = asks[n] /\ top \in Path
                     /\ top \in Asking /\ memo[top] = "complete"
  <2> SUFFICES ASSUME asks # <<>>
               PROVE  /\ n # 0 /\ top = asks[n] /\ top \in Path
                      /\ top \in Asking /\ memo[top] = "complete"
    OBVIOUS
  <2>1. n # 0 /\ top = asks[n] /\ top \in Path
    BY CallLeft DEF WalkTypeOK
  <2> QED BY <2>1, <1>1 DEF Asking, AskStackInv
<1>4. /\ memo[q] = "absent" /\ memo'[q] = "complete"
      /\ \A p \in Path : p # q => memo'[p] = memo[p]
      /\ memo' \in [Path -> {"absent", "complete", "incomplete"}]
  BY DEF BeginComplete, WalkTypeOK
<1>5. /\ toAsk' \in [Path -> SUBSET Path]
      /\ \A p \in Path : toAsk'[p] = IF asks # <<>> /\ p = top THEN toAsk[p] \ {q}
                                     ELSE toAsk[p]
  BY <1>3 DEF WalkTypeOK
<1>6. /\ Asking' = Asking \cup {q} /\ Asking \subseteq Path /\ q \notin Asking
  <2>1. Asking' = Asking \cup {q}
    BY <1>1 DEF Asking
  <2>2. Asking \subseteq Path
    BY <1>1, ElementOfSeq DEF Asking, WalkTypeOK
  <2>3. q \notin Asking
    BY <1>4 DEF AskStackInv
  <2> QED BY <2>1, <2>2, <2>3
<1>7. \A i \in 1..n : asks[i] \in Asking
  BY DEF Asking
<1>8. toAsk[q] = attached[q] /\ (q \in spoiled <=> q \notin uploaded)
  BY <1>4 DEF MemoInv
<1>9. asks # <<>> => q \in attached[top]
  BY <1>3 DEF MemoInv
<1> HIDE DEF n, top
<1>10. \A i, j \in 1..Len(asks') : asks'[i] = asks'[j] => i = j
  BY <1>1, <1>6, <1>7 DEF AskStackInv, n
<1>11. ASSUME NEW i \in 1..(Len(asks') - 1)
       PROVE  asks'[i + 1] \in attached'[asks'[i]] \ toAsk'[asks'[i]]
  <2>1. CASE i = n
    BY <2>1, <1>1, <1>2, <1>3, <1>5, <1>9
  <2>2. CASE i # n
    <3>1. i \in 1..(n - 1) /\ asks'[i] = asks[i] /\ asks'[i + 1] = asks[i + 1]
      BY <2>2, <1>1
    <3>2. asks[i + 1] \in attached[asks[i]] \ toAsk[asks[i]]
      BY <3>1 DEF AskStackInv, n
    <3>3. asks[i] \in Path
      BY <3>1, <1>1, <1>6, <1>7
    <3> QED BY <3>1, <3>2, <3>3, <1>5
  <2> QED BY <2>1, <2>2
<1>12. ASSUME NEW i \in 1..Len(asks'), NEW j \in 1..Len(asks'),
              asks'[j] \in attached'[asks'[i]] \ toAsk'[asks'[i]]
       PROVE  j = i + 1
  <2>1. CASE i = n + 1
    <3>1. toAsk'[q] = attached'[q]
      BY <1>3, <1>4, <1>5, <1>8
    <3> QED BY <2>1, <3>1, <1>1, <1>12
  <2>2. CASE i # n + 1 /\ j # n + 1
    <3>1. i \in 1..n /\ j \in 1..n /\ asks'[i] = asks[i] /\ asks'[j] = asks[j]
      BY <2>2, <1>1
    <3>2. asks[j] # q /\ asks[i] \in Path
      BY <3>1, <1>6, <1>7
    <3>3. asks[j] \in attached[asks[i]] \ toAsk[asks[i]]
      BY <3>1, <3>2, <1>5, <1>12
    <3> QED BY <3>1, <3>3 DEF AskStackInv, n
  <2>3. CASE i # n + 1 /\ j = n + 1
    <3>1. i \in 1..n /\ asks'[i] = asks[i] /\ asks[i] \in Asking
      BY <2>3, <1>1, <1>7
    <3>2. \A r \in attached[asks[i]] \ toAsk[asks[i]] : memo[r] # "absent"
      BY <3>1 DEF MemoInv
    <3>3. asks # <<>> /\ asks[i] = top
      BY <3>1, <3>2, <2>3, <1>1, <1>4, <1>5, <1>6, <1>12
    <3>4. i = n
      BY <3>1, <3>3, <1>1, <1>3 DEF AskStackInv, n
    <3> QED BY <3>4, <2>3
  <2> QED BY <2>1, <2>2, <2>3
<1>13. AskStackInv'
  BY <1>4, <1>6, <1>10, <1>11, <1>12 DEF AskStackInv
<1>14. ASSUME NEW p \in Path
       PROVE  /\ toAsk'[p] \subseteq attached'[p]
              /\ memo'[p] = "absent" =>
                   /\ toAsk'[p] = attached'[p]
                   /\ p \in spoiled' <=> p \notin uploaded'
  BY <1>3, <1>4, <1>5 DEF MemoInv
<1>15. ASSUME NEW p \in Asking'
       PROVE  /\ \A r \in attached'[p] \ toAsk'[p] : memo'[r] # "absent"
              /\ p \in spoiled' <=>
                   \/ p \notin uploaded'
                   \/ \E r \in attached'[p] \ toAsk'[p] : memo'[r] = "incomplete"
  <2>0. p \in Path /\ attached[p] \cup toAsk[p] \subseteq attached[p]
    BY <1>6 DEF MemoInv
  <2>1. CASE p = q
    <3>1. attached'[p] \ toAsk'[p] = {}
      BY <2>1, <1>3, <1>4, <1>5, <1>8
    <3> QED BY <3>1, <2>1, <1>8
  <2>2. CASE p # q
    <3>1. /\ p \in Asking
          /\ \A r \in attached[p] \ toAsk[p] : memo[r] # "absent"
          /\ p \in spoiled <=>
               p \notin uploaded \/ \E r \in attached[p] \ toAsk[p] : memo[r] = "incomplete"
      BY <2>2, <1>6 DEF MemoInv
    <3>2. \/ attached'[p] \ toAsk'[p] = attached[p] \ toAsk[p]
          \/ attached'[p] \ toAsk'[p] = (attached[p] \ toAsk[p]) \cup {q}
      BY <2>0, <1>5, <1>9
    <3>3. ASSUME NEW r \in attached[p] \ toAsk[p] PROVE memo'[r] = memo[r]
      BY <3>1, <3>3, <1>4 DEF BeginComplete
    <3> QED BY <3>1, <3>2, <3>3, <1>4
  <2> QED BY <2>1, <2>2
<1>16. ASSUME NEW p \in Path \ Asking', memo'[p] # "absent"
       PROVE  memo'[p] = "complete" <=> p \in CompleteReceipts(uploaded)'
  BY <1>4, <1>6, <1>16, CompleteUnchanged DEF MemoInv
<1>17. MemoInv'
  BY <1>14, <1>15, <1>16 DEF MemoInv
<1>18. asks'[1] = IF asks = <<>> THEN q ELSE asks[1]
  BY <1>1, <1>2, <1>3, EmptySeq DEF n
<1> QED BY <1>1, <1>4, <1>5, <1>13, <1>17, <1>18

(* Nothing of complete's changes.                                          *)
LEMMA AskUnchanged ==
  ASSUME AskStackInv, MemoInv, UNCHANGED <<attached, uploaded, memo, asks, toAsk, spoiled>>
  PROVE  AskStackInv' /\ MemoInv'
<1>1. Asking' = Asking
  BY DEF Asking
<1> QED BY <1>1, CompleteUnchanged DEF AskStackInv, MemoInv

(* walk is called with a path.  Its caller is the loop over the results or *)
(* that of another walk, which now has everything ahead but this path.     *)
LEMMA BeginWalkInv ==
  ASSUME WalkInv, place = "walking", asks = <<>>, NEW p \in Path, BeginWalk(p),
         UNCHANGED <<prepVars, place, uploaded, toAsk, spoiled>>,
         rest' \in SUBSET Path, rest \ {p} \subseteq rest',
         toWalk' \in [Path -> SUBSET Path],
         \A r \in Path : toWalk[r] \ {p} \subseteq toWalk'[r],
         \A r \in Path \ seen : toWalk'[r] = toWalk[r]
  PROVE  WalkInv'
<1>1. PrepInv' /\ uploaded' \subseteq visited'
  BY PrepUnchangedInv DEF WalkInv, prepVars
<1>2. WalkTypeOK /\ AskStackInv /\ MemoInv /\ SeenInv
  BY DEF WalkInv
<1>3. /\ attached' = attached /\ roots' = roots
      /\ CompleteReceipts(uploaded)' = CompleteReceipts(uploaded)
  BY CompleteUnchanged DEF prepVars
<1>4. Asking = {}
  BY EmptySeq DEF Asking
<1>5. /\ AskStackInv' /\ MemoInv'
      /\ asks' \in Seq(Path) /\ toAsk' \in [Path -> SUBSET Path]
      /\ memo' \in [Path -> {"absent", "complete", "incomplete"}]
      /\ asks' # <<>> => asks'[1] = p /\ p \notin seen /\ p \in uploaded
  <2>1. CASE UNCHANGED <<memo, asks>>
    BY <2>1, <1>2, <1>3, AskUnchanged DEF WalkTypeOK
  <2>2. CASE p \notin seen /\ p \in uploaded /\ BeginComplete(p)
    BY <2>2, <1>2, <1>3, BeginCompleteInv
  <2> QED BY <2>1, <2>2 DEF BeginWalk
<1>6. CASE p \in seen
  <2>1. UNCHANGED <<seen, walks, memo, asks, receipts, withheld>>
    BY <1>6 DEF BeginWalk, answers
  <2>2. Walking' = Walking
    BY <2>1 DEF Walking
  <2>3. WalkTypeOK'
    BY <2>1, <1>2 DEF WalkTypeOK
  <2>4. SeenInv'
    BY <1>2, <1>3, <1>6, <2>1, <2>2 DEF SeenInv, WalkTypeOK
  <2> QED BY <1>1, <1>5, <2>3, <2>4 DEF WalkInv
<1>7. CASE p \notin seen
  <2>1. seen' = seen \cup {p} /\ walks' = Append(walks, p)
    BY <1>7 DEF BeginWalk
  <2>2. /\ walks' \in Seq(Path) /\ walks' # <<>> /\ Last(walks') = p
        /\ Walking' = Walking \cup {p}
    BY <2>1, <1>2, CallEntered DEF WalkTypeOK, Walking
  <2>3. /\ \A r \in Path \ seen' : toWalk'[r] = attached'[r]
        /\ \A r \in seen' : \A q \in attached'[r] \ seen' :
             r \in Walking' /\ q \in toWalk'[r]
    BY <1>2, <1>3, <1>7, <2>1, <2>2 DEF SeenInv, WalkTypeOK
  <2>4. /\ receipts' \in SUBSET Path /\ withheld' \in SUBSET Path
        /\ receipts' \cup withheld' =
             {r \in seen' \cap uploaded' : asks' # <<>> => r # asks'[1]}
        /\ receipts' \subseteq CompleteReceipts(uploaded)
        /\ withheld' \cap CompleteReceipts(uploaded) = {}
    <3>1. CASE p \notin uploaded /\ UNCHANGED <<memo, asks, answers>>
      BY <3>1, <1>2, <2>1 DEF SeenInv, WalkTypeOK, answers
    <3>2. CASE p \in uploaded /\ BeginComplete(p) /\ UNCHANGED answers
      <4>1. asks' # <<>> /\ asks'[1] = p
        BY <3>2, <1>2, <1>3, BeginCompleteInv
      <4> QED BY <4>1, <3>2, <1>2, <1>7, <2>1 DEF SeenInv, WalkTypeOK, answers
    <3>3. CASE /\ p \in uploaded /\ memo[p] # "absent"
               /\ Answered(p, memo[p] = "complete")
               /\ UNCHANGED <<memo, asks>>
      <4>1. memo[p] = "complete" <=> p \in CompleteReceipts(uploaded)
        BY <3>3, <1>2, <1>4 DEF MemoInv
      <4> QED BY <4>1, <3>3, <1>2, <2>1 DEF SeenInv, WalkTypeOK, Answered
    <3> QED BY <1>7, <3>1, <3>2, <3>3 DEF BeginWalk
  <2>5. WalkTypeOK'
    BY <1>2, <1>5, <2>1, <2>2, <2>4 DEF WalkTypeOK
  <2>6. SeenInv'
    BY <1>2, <1>3, <1>5, <2>1, <2>2, <2>3, <2>4 DEF SeenInv
  <2> QED BY <1>1, <1>5, <2>5, <2>6 DEF WalkInv
<1> QED BY <1>6, <1>7

(* A call is under way only while the walk is.                             *)
LEMMA CallsWhileWalking ==
  ASSUME WalkInv, walks # <<>> \/ asks # <<>>
  PROVE  place = "walking"
  BY DEF WalkInv, WalkTypeOK, SeenInv

(* completeReceipts is called: nothing is asked or seen yet.               *)
LEMMA BeginReceiptsInv ==
  ASSUME WalkInv, BeginReceipts, UNCHANGED prepVars
  PROVE  WalkInv'
<1>1. PrepInv' /\ attached' = attached /\ roots' = roots /\ visited' = visited
  BY PrepUnchangedInv DEF WalkInv, prepVars
<1>2. /\ WalkTypeOK /\ seen = {} /\ walks = <<>> /\ asks = <<>>
      /\ memo = NoMemo /\ receipts = {} /\ withheld = {}
  BY DEF WalkInv, BeginReceipts
<1>3. /\ seen' = {} /\ walks' = <<>> /\ asks' = <<>>
      /\ memo' = NoMemo /\ receipts' = {} /\ withheld' = {}
  BY <1>2 DEF BeginReceipts, answers
<1>4. /\ place' = "walking" /\ uploaded' \in SUBSET visited /\ rest' = roots
      /\ toWalk' = attached /\ toAsk' = attached /\ spoiled' = Path \ uploaded'
  BY DEF BeginReceipts
<1>5. visited \subseteq Path /\ roots \subseteq Path /\ attached \in [Path -> SUBSET Path]
  BY DEF WalkInv, PrepInv, PrepTypeOK
<1>6. WalkTypeOK'
  BY <1>2, <1>3, <1>4, <1>5 DEF WalkTypeOK
<1>7. Asking' = {} /\ Walking' = {} /\ Len(asks') = 0
  BY <1>3, EmptySeq DEF Asking, Walking
<1>8. AskStackInv'
  BY <1>7 DEF AskStackInv
<1>9. MemoInv'
  BY <1>1, <1>3, <1>4, <1>7 DEF MemoInv, NoMemo
<1>10. SeenInv'
  BY <1>1, <1>3, <1>4, <1>7 DEF SeenInv
<1> QED BY <1>1, <1>4, <1>6, <1>8, <1>9, <1>10 DEF WalkInv

(* The loop over the results calls walk.                                   *)
LEMMA NextResultInv ==
  ASSUME WalkInv, NextResult, UNCHANGED prepVars
  PROVE  WalkInv'
<1>1. PICK r \in rest : rest' = rest \ {r} /\ BeginWalk(r)
  BY DEF NextResult
<1>2. place = "walking" /\ asks = <<>> /\ WalkTypeOK
  BY DEF NextResult, WalkInv, SeenInv
<1>3. r \in Path /\ rest' \in SUBSET Path /\ toWalk \in [Path -> SUBSET Path]
  BY <1>1, <1>2 DEF WalkTypeOK
<1>4. UNCHANGED <<place, uploaded, toWalk, toAsk, spoiled>>
  BY DEF NextResult
<1> QED BY <1>1, <1>2, <1>3, <1>4, BeginWalkInv

(* The loop of walk calls walk for a reference.                            *)
LEMMA NextWalkRefInv ==
  ASSUME WalkInv, NextWalkRef, UNCHANGED prepVars
  PROVE  WalkInv'
<1> DEFINE top == Last(walks)
<1>1. /\ place = "walking" /\ asks = <<>> /\ WalkTypeOK /\ SeenInv /\ walks # <<>>
  BY CallsWhileWalking DEF NextWalkRef, WalkInv
<1>2. top \in Path /\ top \in seen
  BY <1>1, CallLeft DEF WalkTypeOK, SeenInv, Walking
<1>3. PICK q \in toWalk[top] : /\ toWalk' = [toWalk EXCEPT ![top] = @ \ {q}]
                               /\ BeginWalk(q)
  BY DEF NextWalkRef
<1>4. /\ q \in Path /\ toWalk' \in [Path -> SUBSET Path]
      /\ \A r \in Path : toWalk[r] \ {q} \subseteq toWalk'[r]
      /\ \A r \in Path \ seen : toWalk'[r] = toWalk[r]
  BY <1>1, <1>2, <1>3 DEF WalkTypeOK
<1>5. UNCHANGED <<place, uploaded, rest, toAsk, spoiled>>
  BY DEF NextWalkRef
<1>6. rest' \in SUBSET Path /\ rest \ {q} \subseteq rest'
  BY <1>1, <1>5 DEF WalkTypeOK
<1> HIDE DEF top
<1> QED BY <1>1, <1>3, <1>4, <1>5, <1>6, BeginWalkInv

(* walk returns with nothing left below its path.                          *)
LEMMA WalkReturnsInv ==
  ASSUME WalkInv, WalkReturns, UNCHANGED prepVars
  PROVE  WalkInv'
<1>1. /\ place = "walking" /\ asks = <<>> /\ walks # <<>>
      /\ WalkTypeOK /\ AskStackInv /\ MemoInv /\ SeenInv
  BY CallsWhileWalking DEF WalkReturns, WalkInv
<1>2. /\ UNCHANGED <<place, uploaded, rest, seen, toWalk, receipts, withheld>>
      /\ UNCHANGED <<memo, asks, toAsk, spoiled, attached, roots, visited>>
      /\ toWalk[Last(walks)] = {} /\ walks' = Front(walks)
  BY DEF WalkReturns, askData, answers, prepVars
<1>3. PrepInv' /\ AskStackInv' /\ MemoInv'
  BY <1>1, <1>2, PrepUnchangedInv, AskUnchanged DEF WalkInv
<1>4. /\ walks' \in Seq(Path) /\ Walking' \subseteq Walking
      /\ \A p \in Walking : p \in Walking' \/ p = Last(walks)
  <2>1. /\ Len(walks) \in Nat \ {0} /\ Last(walks) = walks[Len(walks)]
        /\ walks' \in Seq(Path) /\ Len(walks') = Len(walks) - 1
        /\ \A i \in 1..(Len(walks) - 1) : walks'[i] = walks[i]
    BY <1>1, <1>2, CallLeft DEF WalkTypeOK
  <2> QED BY <2>1 DEF Walking
<1>5. WalkTypeOK'
  BY <1>1, <1>2, <1>4 DEF WalkTypeOK
<1>6. CompleteReceipts(uploaded)' = CompleteReceipts(uploaded)
  BY <1>2, CompleteUnchanged
<1>7. SeenInv'
  BY <1>1, <1>2, <1>4, <1>6 DEF SeenInv
<1> QED BY <1>1, <1>2, <1>3, <1>5, <1>7 DEF WalkInv

(* The loop over the results is through.                                   *)
LEMMA ReceiptsReturnedInv ==
  ASSUME WalkInv, ReceiptsReturned, UNCHANGED prepVars
  PROVE  WalkInv'
<1>1. /\ WalkTypeOK /\ AskStackInv /\ MemoInv /\ SeenInv
      /\ walks = <<>> /\ rest = {} /\ place' = "returned"
      /\ UNCHANGED <<walkData, askData, answers>>
  BY DEF WalkInv, ReceiptsReturned
<1>2. /\ UNCHANGED <<uploaded, rest, seen, walks, toWalk, receipts, withheld>>
      /\ UNCHANGED <<memo, asks, toAsk, spoiled, attached, roots, visited>>
  BY <1>1 DEF walkData, askData, answers, prepVars
<1>3. PrepInv' /\ AskStackInv' /\ MemoInv'
  BY <1>1, <1>2, PrepUnchangedInv, AskUnchanged DEF WalkInv
<1>4. WalkTypeOK'
  BY <1>1, <1>2 DEF WalkTypeOK
<1>5. SeenInv'
  BY <1>1, <1>2, CompleteUnchanged DEF SeenInv, Walking
<1> QED BY <1>1, <1>2, <1>3, <1>4, <1>5 DEF WalkInv

(* What walk has found does not depend on what complete is doing.          *)
LEMMA SeenUnchanged ==
  ASSUME SeenInv, UNCHANGED <<walkData, answers, prepVars>>,
         asks # <<>>, asks' # <<>>, asks'[1] = asks[1]
  PROVE  SeenInv'
<1>1. /\ UNCHANGED <<uploaded, rest, seen, walks, toWalk, receipts, withheld>>
      /\ UNCHANGED <<attached, roots>>
  BY DEF walkData, answers, prepVars
<1> QED BY <1>1, CompleteUnchanged DEF SeenInv, Walking

(* The loop of complete asks about a reference.                            *)
LEMMA NextAskRefInv ==
  ASSUME WalkInv, NextAskRef, UNCHANGED prepVars
  PROVE  WalkInv'
<1> DEFINE top == Last(asks)
<1>1. /\ place = "walking" /\ asks # <<>> /\ PrepInv /\ WalkTypeOK
      /\ AskStackInv /\ MemoInv /\ SeenInv
  BY CallsWhileWalking DEF NextAskRef, WalkInv
<1>2. /\ UNCHANGED <<place, walkData, answers, prepVars>>
      /\ UNCHANGED <<uploaded, rest, seen, walks, toWalk, receipts, withheld>>
      /\ UNCHANGED <<attached, visited>>
  BY DEF NextAskRef, walkData, answers, prepVars
<1>3. PICK q \in toAsk[top] :
        /\ toAsk' = [toAsk EXCEPT ![top] = @ \ {q}]
        /\ \/ BeginComplete(q) /\ UNCHANGED spoiled
           \/ /\ memo[q] # "absent"
              /\ Hear(top, memo[q] = "complete")
              /\ UNCHANGED <<memo, asks>>
  BY DEF NextAskRef
<1>4. q \in Path /\ q \notin Asking
  BY <1>1, AskedIsUndecided
<1>5. /\ AskStackInv' /\ MemoInv'
      /\ asks' \in Seq(Path) /\ toAsk' \in [Path -> SUBSET Path]
      /\ memo' \in [Path -> {"absent", "complete", "incomplete"}]
      /\ spoiled' \in SUBSET Path
      /\ asks' # <<>> /\ asks'[1] = asks[1]
  <2>1. CASE BeginComplete(q) /\ UNCHANGED spoiled
    BY <2>1, <1>1, <1>2, <1>3, <1>4, BeginCompleteInv DEF WalkTypeOK
  <2>2. CASE /\ memo[q] # "absent"
             /\ Hear(top, memo[q] = "complete")
             /\ UNCHANGED <<memo, asks>>
    <3>1. /\ Len(asks) \in Nat \ {0} /\ top = asks[Len(asks)] /\ top \in Path
          /\ top \in Asking /\ memo[top] = "complete"
      <4>1. Len(asks) \in Nat \ {0} /\ top = asks[Len(asks)] /\ top \in Path
        BY <1>1, CallLeft DEF WalkTypeOK
      <4> QED BY <4>1, <1>1 DEF Asking, AskStackInv
    <3> HIDE DEF top
    <3>2. /\ toAsk' \in [Path -> SUBSET Path]
          /\ \A p \in Path : toAsk'[p] = IF p = top THEN toAsk[p] \ {q} ELSE toAsk[p]
      BY <1>1, <1>3, <3>1 DEF WalkTypeOK
    <3>3. /\ spoiled' = IF memo[q] = "complete" THEN spoiled ELSE spoiled \cup {top}
          /\ spoiled' \in SUBSET Path
      BY <2>2, <3>1, <1>1 DEF Hear, WalkTypeOK
    <3>4. Asking' = Asking /\ Asking \subseteq Path
      BY <2>2, <1>1, ElementOfSeq DEF Asking, WalkTypeOK
    <3>5. \A i \in 1..Len(asks) : asks[i] \in Asking
      BY DEF Asking
    <3>6. q \in attached[top]
      BY <3>1 , <1>1 DEF MemoInv, top
    <3>7. AskStackInv'
      <4>1. ASSUME NEW i \in 1..(Len(asks) - 1)
            PROVE  asks[i + 1] \in attached[asks[i]] \ toAsk'[asks[i]]
        BY <1>1, <3>1, <3>2, <3>4, <3>5 DEF AskStackInv
      <4>2. ASSUME NEW i \in 1..Len(asks), NEW j \in 1..Len(asks),
                   asks[j] \in attached[asks[i]] \ toAsk'[asks[i]]
            PROVE  j = i + 1
        <5>1. asks[j] # q /\ asks[i] \in Path
          BY <1>4, <3>4, <3>5
        <5>2. asks[j] \in attached[asks[i]] \ toAsk[asks[i]]
          BY <5>1, <4>2, <3>2
        <5> QED BY <5>2, <1>1 DEF AskStackInv
      <4> QED BY <4>1, <4>2, <2>2, <3>4, <1>1, <1>2 DEF AskStackInv
    <3>8. MemoInv'
      <4>1. ASSUME NEW p \in Path
            PROVE  /\ toAsk'[p] \subseteq attached'[p]
                   /\ memo'[p] = "absent" =>
                        /\ toAsk'[p] = attached'[p]
                        /\ p \in spoiled' <=> p \notin uploaded'
        BY <1>1, <1>2, <2>2, <3>1, <3>2, <3>3 DEF MemoInv
      <4>2. ASSUME NEW p \in Asking
            PROVE  /\ \A r \in attached'[p] \ toAsk'[p] : memo'[r] # "absent"
                   /\ p \in spoiled' <=>
                        \/ p \notin uploaded'
                        \/ \E r \in attached'[p] \ toAsk'[p] : memo'[r] = "incomplete"
        <5>1. /\ p \in Path /\ memo' = memo /\ attached' = attached /\ uploaded' = uploaded
              /\ \A r \in attached[p] \ toAsk[p] : memo[r] # "absent"
              /\ p \in spoiled <=>
                   p \notin uploaded \/ \E r \in attached[p] \ toAsk[p] : memo[r] = "incomplete"
          BY <1>1, <1>2, <2>2, <3>4 DEF MemoInv
        <5>2. CASE p = top
          <6>1. attached[p] \ toAsk'[p] = (attached[p] \ toAsk[p]) \cup {q}
            BY <5>2, <3>1, <3>2, <3>6
          <6>2. memo[q] \in {"complete", "incomplete"}
            BY <2>2, <1>1, <1>4 DEF WalkTypeOK
          <6> QED BY <5>1, <5>2, <6>1, <6>2, <3>3
        <5>3. CASE p # top
          BY <5>1, <5>3, <3>2, <3>3
        <5> QED BY <5>2, <5>3
      <4> QED BY <4>1, <4>2, <1>1, <1>2, <2>2, <3>4, CompleteUnchanged DEF MemoInv
    <3> QED BY <2>2, <3>2, <3>3, <3>7, <3>8, <1>1 DEF WalkTypeOK
  <2> QED BY <2>1, <2>2, <1>3
<1>6. SeenInv'
  BY <1>1, <1>2, <1>5, SeenUnchanged
<1>7. WalkTypeOK'
  BY <1>1, <1>2, <1>5 DEF WalkTypeOK
<1>8. PrepInv' /\ uploaded' \subseteq visited'
  BY <1>2, PrepUnchangedInv DEF WalkInv
<1> QED BY <1>1, <1>2, <1>5, <1>6, <1>7, <1>8 DEF WalkInv

(* When the loop of complete(p) is through, ok is whether p is complete.   *)
LEMMA OkIsComplete ==
  ASSUME PrepInv, WalkTypeOK, AskStackInv, MemoInv, uploaded \in SUBSET Path,
         asks # <<>>, toAsk[Last(asks)] = {}
  PROVE  Last(asks) \notin spoiled <=> Last(asks) \in CompleteReceipts(uploaded)
<1> DEFINE top == Last(asks)
<1>1. /\ Len(asks) \in Nat \ {0} /\ top = asks[Len(asks)] /\ top \in Path
  BY CallLeft DEF WalkTypeOK
<1>2. top \in Asking
  BY <1>1 DEF Asking
<1>3. attached[top] \subseteq Path
  BY <1>1 DEF PrepInv, PrepTypeOK
<1> HIDE DEF top
<1>4. ASSUME NEW q \in attached[top]
      PROVE  memo[q] # "incomplete" <=> q \in CompleteReceipts(uploaded)
  <2>1. q \notin Asking
    <3> SUFFICES ASSUME NEW j \in 1..Len(asks), q = asks[j] PROVE FALSE
      BY DEF Asking
    <3>1. asks[j] \in attached[asks[Len(asks)]] \ toAsk[asks[Len(asks)]]
      BY <1>1 DEF top
    <3>2. j = Len(asks) + 1
      BY <3>1, <1>1 DEF AskStackInv
    <3> QED BY <3>2, <1>1
  <2>2. memo[q] # "absent"
    BY <1>2 DEF MemoInv, top
  <2>3. memo[q] = "complete" <=> q \in CompleteReceipts(uploaded)
    BY <2>1, <2>2, <1>3 DEF MemoInv
  <2> QED BY <2>2, <2>3, <1>3 DEF WalkTypeOK
<1>5. top \in spoiled <=>
        top \notin uploaded \/ \E q \in attached[top] : memo[q] = "incomplete"
  BY <1>2 DEF MemoInv, top
<1>6. top \in CompleteReceipts(uploaded) <=>
        top \in uploaded /\ attached[top] \subseteq CompleteReceipts(uploaded)
  BY <1>1, CompleteIsRecursive DEF AnswersRecursively
<1> QED BY <1>4, <1>5, <1>6 DEF top

(* complete returns, to the one that asked.                                *)
LEMMA CompleteReturnsInv ==
  ASSUME WalkInv, CompleteReturns, UNCHANGED prepVars
  PROVE  WalkInv'
<1> DEFINE n == Len(asks)
<1> DEFINE top == Last(asks)
<1> DEFINE good == top \notin spoiled
<1>1. /\ place = "walking" /\ asks # <<>> /\ PrepInv /\ WalkTypeOK
      /\ AskStackInv /\ MemoInv /\ SeenInv /\ toAsk[top] = {}
  BY CallsWhileWalking DEF CompleteReturns, WalkInv
<1>2. /\ UNCHANGED <<place, uploaded, rest, seen, walks, toWalk, toAsk>>
      /\ UNCHANGED <<attached, roots, visited, prepVars>>
      /\ CompleteReceipts(uploaded)' = CompleteReceipts(uploaded)
  BY CompleteUnchanged DEF CompleteReturns, walkData, prepVars
<1>3. /\ n \in Nat \ {0} /\ top = asks[n] /\ top \in Path
      /\ asks' \in Seq(Path) /\ Len(asks') = n - 1
      /\ \A i \in 1..(n - 1) : asks'[i] = asks[i]
      /\ asks' = <<>> <=> n = 1
  BY <1>1, CallLeft DEF CompleteReturns, WalkTypeOK
<1>4. /\ memo'[top] = IF good THEN "complete" ELSE "incomplete"
      /\ \A p \in Path : p # top => memo'[p] = memo[p]
      /\ memo' \in [Path -> {"absent", "complete", "incomplete"}]
  BY <1>1, <1>3 DEF CompleteReturns, Decide, WalkTypeOK
<1>5. good <=> top \in CompleteReceipts(uploaded)
  BY <1>1, OkIsComplete DEF WalkTypeOK
<1>6. \/ /\ n = 1
         /\ Answered(top, good) /\ UNCHANGED spoiled
      \/ /\ n > 1
         /\ Hear(asks[n - 1], good) /\ UNCHANGED <<receipts, withheld>>
  BY DEF CompleteReturns, answers
<1>7. /\ Asking \subseteq Path /\ top \in Asking
      /\ Asking' = Asking \ {top}
      /\ \A i \in 1..n : asks[i] \in Asking
  <2>1. Asking \subseteq Path /\ top \in Asking /\ \A i \in 1..n : asks[i] \in Asking
    BY <1>1, <1>3, ElementOfSeq DEF Asking, WalkTypeOK
  <2>2. \A i \in 1..n : asks[i] = top => i = n
    BY <1>1, <1>3 DEF AskStackInv
  <2>3. Asking' = Asking \ {top}
    BY <2>2, <1>3 DEF Asking
  <2> QED BY <2>1, <2>3
<1> HIDE DEF n, top, good
<1>8. spoiled' \in SUBSET Path /\ \A p \in Path : p \in spoiled => p \in spoiled'
  <2>1. n > 1 => asks[n - 1] \in Path
    BY <1>3, <1>7
  <2> QED BY <2>1, <1>1, <1>6 DEF Hear, WalkTypeOK
<1>9. AskStackInv'
  <2>1. \A i, j \in 1..Len(asks') : asks'[i] = asks'[j] => i = j
    BY <1>1, <1>3 DEF AskStackInv, n
  <2>2. \A i \in 1..(Len(asks') - 1) :
          asks'[i + 1] \in attached'[asks'[i]] \ toAsk'[asks'[i]]
    BY <1>1, <1>2, <1>3 DEF AskStackInv, n
  <2>3. \A i, j \in 1..Len(asks') :
          asks'[j] \in attached'[asks'[i]] \ toAsk'[asks'[i]] => j = i + 1
    BY <1>1, <1>2, <1>3 DEF AskStackInv, n
  <2>4. \A p \in Asking' : memo'[p] = "complete"
    BY <1>1, <1>4, <1>7 DEF AskStackInv
  <2> QED BY <2>1, <2>2, <2>3, <2>4 DEF AskStackInv
<1>10. ASSUME NEW p \in Asking'
       PROVE  /\ \A q \in attached[p] \ toAsk[p] : memo'[q] # "absent"
              /\ p \in spoiled' <=>
                   \/ p \notin uploaded
                   \/ \E q \in attached[p] \ toAsk[p] : memo'[q] = "incomplete"
  <2>1. PICK i \in 1..(n - 1) : p = asks[i]
    BY <1>3 DEF Asking
  <2>2. /\ p \in Asking /\ p \in Path /\ attached[p] \subseteq Path
        /\ \A q \in attached[p] \ toAsk[p] : memo[q] # "absent"
        /\ p \in spoiled <=>
             p \notin uploaded \/ \E q \in attached[p] \ toAsk[p] : memo[q] = "incomplete"
    BY <1>1, <1>7 DEF MemoInv, PrepInv, PrepTypeOK
  <2>3. memo[top] = "complete" /\ n > 1
    BY <1>1, <1>3, <1>7, <2>1 DEF AskStackInv
  <2>4. spoiled' = IF good THEN spoiled ELSE spoiled \cup {asks[n - 1]}
    BY <1>6, <2>3 DEF Hear
  <2>5. CASE i = n - 1
    <3>1. top \in attached[p] \ toAsk[p]
      BY <2>1, <2>5, <1>1, <1>3 DEF AskStackInv, n
    <3> QED BY <2>1, <2>2, <2>3, <2>4, <2>5, <3>1, <1>4
  <2>6. CASE i # n - 1
    <3>1. top \notin attached[p] \ toAsk[p]
      BY <2>1, <2>6, <1>1, <1>3 DEF AskStackInv, n
    <3>2. p # asks[n - 1]
      BY <2>1, <2>3, <2>6, <1>1, <1>3 DEF AskStackInv, n
    <3> QED BY <2>2, <2>4, <3>1, <3>2, <1>4
  <2> QED BY <2>5, <2>6
<1>11. ASSUME NEW p \in Path
       PROVE  /\ toAsk[p] \subseteq attached[p]
              /\ memo'[p] = "absent" =>
                   /\ toAsk[p] = attached[p]
                   /\ p \in spoiled' <=> p \notin uploaded
  <2>1. CASE memo'[p] = "absent"
    <3>1. memo[p] = "absent" /\ p \notin Asking
      BY <2>1, <1>1, <1>4 DEF AskStackInv
    <3>2. p \in spoiled' <=> p \in spoiled
      <4>1. n > 1 => asks[n - 1] # p
        BY <3>1, <1>3, <1>7
      <4> QED BY <4>1, <1>6 DEF Hear
    <3> QED BY <3>1, <3>2, <1>1 DEF MemoInv
  <2>2. CASE memo'[p] # "absent"
    BY <2>2, <1>1 DEF MemoInv
  <2> QED BY <2>1, <2>2
<1>12. ASSUME NEW p \in Path \ Asking', memo'[p] # "absent"
       PROVE  memo'[p] = "complete" <=> p \in CompleteReceipts(uploaded)
  <2>1. CASE p = top
    BY <2>1, <1>4, <1>5
  <2>2. CASE p # top
    BY <2>2, <1>1, <1>4, <1>7, <1>12 DEF MemoInv
  <2> QED BY <2>1, <2>2
<1>13. MemoInv'
  BY <1>2, <1>10, <1>11, <1>12 DEF MemoInv
<1>14. /\ SeenInv' /\ receipts' \in SUBSET Path /\ withheld' \in SUBSET Path
  <2>1. CASE n = 1 /\ Answered(top, good)
    <3>1. /\ asks' = <<>> /\ top = asks[1]
          /\ top \in seen /\ top \in uploaded
      <4>1. asks' = <<>> /\ top = asks[1]
        BY <2>1, <1>3
      <4>2. walks # <<>> /\ asks[1] = Last(walks) /\ asks[1] \in uploaded
        BY <1>1 DEF SeenInv
      <4>3. Last(walks) \in Walking
        BY <4>2, <1>1, CallLeft DEF WalkTypeOK, Walking
      <4> QED BY <4>1, <4>2, <4>3, <1>1 DEF SeenInv
    <3>2. /\ receipts' = IF good THEN receipts \cup {top} ELSE receipts
          /\ withheld' = IF good THEN withheld ELSE withheld \cup {top}
      BY <2>1 DEF Answered
    <3>3. /\ receipts' \subseteq CompleteReceipts(uploaded)
          /\ withheld' \cap CompleteReceipts(uploaded) = {}
      BY <3>2, <1>1, <1>5 DEF SeenInv
    <3>4. receipts' \cup withheld' = {p \in seen \cap uploaded : TRUE}
      BY <3>1, <3>2, <1>1 DEF SeenInv
    <3>5. Walking' = Walking
      BY <1>2 DEF Walking
    <3>6. SeenInv'
      BY <3>1, <3>3, <3>4, <3>5, <1>1, <1>2 DEF SeenInv
    <3> QED BY <3>2, <3>6, <1>1, <1>3 DEF WalkTypeOK
  <2>2. CASE n > 1 /\ UNCHANGED <<receipts, withheld>>
    <3>1. asks' # <<>> /\ asks'[1] = asks[1]
      BY <2>2, <1>3
    <3>2. UNCHANGED <<walkData, answers, prepVars>>
      BY <2>2, <1>2 DEF walkData, answers
    <3> QED BY <3>1, <3>2, <2>2, <1>1, SeenUnchanged DEF WalkTypeOK
  <2> QED BY <2>1, <2>2, <1>6
<1>15. WalkTypeOK'
  BY <1>1, <1>2, <1>3, <1>4, <1>8, <1>14 DEF WalkTypeOK
<1>16. PrepInv' /\ uploaded' \subseteq visited'
  BY <1>1, <1>2, PrepUnchangedInv DEF WalkInv
<1> QED BY <1>1, <1>2, <1>9, <1>13, <1>14, <1>15, <1>16 DEF WalkInv

(* The next batch is prepared, and nothing walked yet.                     *)
LEMMA NextBatchBeginsInv ==
  ASSUME WalkInv, NextBatchBegins
  PROVE  WalkInv'
<1>1. PrepInv'
  BY BeginPrepareInv DEF NextBatchBegins, NextBatch, WalkInv
<1>2. /\ place' = "outside" /\ uploaded' = {} /\ rest' = {} /\ seen' = {}
      /\ walks' = <<>> /\ asks' = <<>> /\ spoiled' = {}
      /\ toWalk' = NoneLeft /\ toAsk' = NoneLeft /\ memo' = NoMemo
      /\ receipts' = {} /\ withheld' = {}
  BY DEF NextBatchBegins
<1>3. NoneLeft \in [Path -> SUBSET Path] /\ <<>> \in Seq(Path)
      /\ NoMemo \in [Path -> {"absent", "complete", "incomplete"}]
  BY EmptySeq DEF NoneLeft, NoMemo
<1>4. WalkTypeOK'
  BY <1>2, <1>3 DEF WalkTypeOK
<1> QED BY <1>1, <1>2, <1>4 DEF WalkInv

(* A deeper level is prepared only before the call.                        *)
LEMMA PrepareRefsWalkInv ==
  ASSUME WalkInv, place = "outside", PrepareRefs, UNCHANGED walkVars
  PROVE  WalkInv'
<1>1. PrepInv' /\ visited \subseteq visited'
  BY PrepareRefsInv DEF WalkInv, PrepareRefs
<1>2. /\ UNCHANGED <<place, uploaded, rest, seen, walks, toWalk>>
      /\ UNCHANGED <<memo, asks, toAsk, spoiled, receipts, withheld>>
  BY DEF walkVars, walkData, askData, answers
<1>3. WalkTypeOK'
  BY <1>2 DEF WalkInv, WalkTypeOK
<1> QED BY <1>1, <1>2, <1>3 DEF WalkInv

(* Every step of completeReceipts keeps the invariant.                     *)
LEMMA WalkStepInv ==
  ASSUME WalkInv, WalkStep, UNCHANGED prepVars
  PROVE  WalkInv'
  BY BeginReceiptsInv, NextResultInv, NextWalkRefInv, WalkReturnsInv,
     NextAskRefInv, CompleteReturnsInv, ReceiptsReturnedInv
  DEF WalkStep

(* A step that changes nothing of it does too.                             *)
LEMMA WalkUnchangedInv ==
  ASSUME WalkInv, UNCHANGED <<prepVars, walkVars>>
  PROVE  WalkInv'
<1>1. /\ UNCHANGED <<place, uploaded, rest, seen, walks, toWalk>>
      /\ UNCHANGED <<memo, asks, toAsk, spoiled, receipts, withheld>>
      /\ UNCHANGED <<prepVars, attached, roots, visited>>
  BY DEF walkVars, walkData, askData, answers, prepVars
<1>2. PrepInv' /\ WalkTypeOK'
  BY <1>1, PrepUnchangedInv DEF WalkInv, WalkTypeOK
<1>3. place # "outside" => AskStackInv' /\ MemoInv' /\ SeenInv'
  <2>1. SeenInv => SeenInv'
    BY <1>1, CompleteUnchanged DEF SeenInv, Walking
  <2> QED BY <2>1, <1>1, AskUnchanged DEF WalkInv
<1> QED BY <1>1, <1>2, <1>3 DEF WalkInv

(* The inductive invariant of completeReceipts.                            *)
THEOREM WalkInvariant == WalkSpec => []WalkInv
<1>1. WalkInit => WalkInv
  <2> SUFFICES ASSUME WalkInit PROVE WalkInv
    OBVIOUS
  <2>1. PrepInv
    BY PrepInitInv DEF WalkInit
  <2>2. NoneLeft \in [Path -> SUBSET Path] /\ <<>> \in Seq(Path)
        /\ NoMemo \in [Path -> {"absent", "complete", "incomplete"}]
    BY EmptySeq DEF NoneLeft, NoMemo
  <2>3. WalkTypeOK
    BY <2>2 DEF WalkInit, WalkTypeOK
  <2> QED BY <2>1, <2>3 DEF WalkInit, WalkInv
<1>2. WalkInv /\ [WalkNext]_<<prepVars, walkVars>> => WalkInv'
  BY NextBatchBeginsInv, PrepareRefsWalkInv, WalkStepInv, WalkUnchangedInv
  DEF WalkNext
<1> QED BY <1>1, <1>2, PTL DEF WalkSpec

(* Type correctness of the walk.                                           *)
THEOREM WalkTypeCorrect == WalkSpec => []WalkTypeOK
<1>1. WalkInv => WalkTypeOK
  BY DEF WalkInv
<1> QED BY WalkInvariant, <1>1, PTL

(* completeReceipts returns the set that the push and the CI run take      *)
(* for its result, in whatever order it comes to roots and references.     *)
THEOREM WalkAlwaysFindsCompletePaths == WalkSpec => []WalkFindsCompletePaths
<1>1. ASSUME WalkInv, place = "returned"
      PROVE  /\ receipts = CompleteReceipts(uploaded)
             /\ withheld = uploaded \ receipts
  <2>1. /\ PrepInv /\ SeenInv /\ uploaded \subseteq visited
        /\ walks = <<>> /\ rest = {} /\ seen \in SUBSET Path
    BY <1>1 DEF WalkInv, WalkTypeOK
  <2>2. asks = <<>> /\ Walking = {}
    BY <2>1, EmptySeq DEF SeenInv, Walking
  <2>3. roots \subseteq seen /\ ClosedUnderAttached(seen)
    BY <2>1, <2>2 DEF SeenInv, ClosedUnderAttached
  <2>4. visited \subseteq seen
    BY <2>1, <2>3 DEF PrepInv
  <2>5. receipts \cup withheld = uploaded
    BY <2>1, <2>2, <2>4 DEF SeenInv
  <2>6. CompleteReceipts(uploaded) \subseteq uploaded
    BY DEF CompleteReceipts
  <2> QED BY <2>1, <2>5, <2>6 DEF SeenInv
<1>2. WalkInv => WalkFindsCompletePaths
  BY <1>1 DEF WalkFindsCompletePaths
<1> QED BY WalkInvariant, <1>2, PTL

(* The mark of a path in progress is never read, so what complete answers  *)
(* does not depend on where the walk began.                                *)
THEOREM InProgressIsNeverAsked == WalkSpec => []InProgressNeverAsked
<1>1. ASSUME WalkInv, asks # <<>>
      PROVE  toAsk[Last(asks)] \cap Asking = {}
  <2>1. PrepInv /\ WalkTypeOK /\ AskStackInv /\ MemoInv
    BY <1>1, CallsWhileWalking DEF WalkInv
  <2> QED BY <1>1, <2>1, AskedIsUndecided
<1>2. WalkInv => InProgressNeverAsked
  BY <1>1 DEF InProgressNeverAsked
<1> QED BY WalkInvariant, <1>2, PTL

-----------------------------------------------------------------------------
(***************************************************************************)
(* A push                                                                  *)
(***************************************************************************)

(* The preparation keeps its invariant within a push.                      *)
LEMMA PushPrepInv ==
  ASSUME TypeOK, PrepInv, [Next]_vars
  PROVE  PrepInv'
<1>1. CASE PrepareChunk
  <2>1. Chunk \subseteq DOMAIN input
    BY DEF TypeOK, Chunk
  <2>2. InputPaths(Chunk) \in SUBSET Path
    BY <2>1 DEF TypeOK, InputPaths
  <2> QED BY <1>1, <2>2, BeginPrepareInv DEF PrepareChunk
<1>2. CASE PrepareLevel
  BY <1>2, PrepareRefsInv DEF PrepareLevel
<1>3. CASE Rerun
  <2>1. PrepTypeOK'
    BY <1>3 DEF Rerun, PrepInv, PrepTypeOK
  <2>2. ResultsAcyclic'
    BY <1>3 DEF Rerun, ResultsAcyclic
  <2> QED BY <1>3, <2>1, <2>2 DEF Rerun, PrepInv
<1>4. CASE UNCHANGED prepVars
  BY <1>4, PrepUnchangedInv
<1> QED
  BY <1>1, <1>2, <1>3, <1>4
  DEF Next, vars, Step, Move, SetupFails, FilterUpstream, PrepareFails, CollectTasks,
      BeginUpload, UploadDone, UploadFails, FinishUploads, BeginPush, PushDone,
      PushFails, PusherFails, FinishPublish, Crash

(* Every step keeps the types.                                             *)
LEMMA PushTypeStep ==
  ASSUME TypeOK, PrepInv, [Next]_vars
  PROVE  TypeOK'
<1> USE DEF TypeOK, Stages, Return, NextChunk, setup, report, history, registry
<1>0. PrepTypeOK'
  BY PushPrepInv DEF PrepInv
<1>1. CASE SetupFails
  BY <1>0, <1>1 DEF SetupFails
<1>2. CASE FilterUpstream
  <2>1. todo' \subseteq DOMAIN input
    BY <1>2 DEF FilterUpstream, InputsWithout
  <2> QED BY <1>0, <1>2, <2>1 DEF FilterUpstream
<1>3. CASE PrepareChunk
  BY <1>0, <1>3 DEF PrepareChunk
<1>4. CASE PrepareLevel
  BY <1>0, <1>4 DEF PrepareLevel
<1>5. CASE PrepareFails \/ PusherFails
  BY <1>0, <1>5 DEF PrepareFails, PusherFails
<1>6. CASE CollectTasks
  BY <1>0, <1>6 DEF CollectTasks, Reachable
<1>7. CASE FinishUploads
  <2>1. stage' \in [Path -> Stages]
    BY <1>7 DEF FinishUploads
  <2>2. failed' \subseteq Path /\ excluded' \subseteq Path
    BY <1>7 DEF FinishUploads, FailedSoFar, InStage
  <2> QED BY <1>0, <1>7, <2>1, <2>2 DEF FinishUploads
<1>8. CASE FinishPublish
  BY <1>0, <1>8 DEF FinishPublish
<1>9. ASSUME NEW p \in Path, Step(p) PROVE TypeOK'
  <2>1. CASE BeginUpload(p)
    BY <1>0, <2>1 DEF BeginUpload, Move
  <2>2. CASE UploadDone(p)
    BY <1>0, <2>2 DEF UploadDone, Move
  <2>3. CASE UploadFails(p)
    BY <1>0, <2>3 DEF UploadFails, Move
  <2>4. CASE BeginPush(p)
    BY <1>0, <2>4 DEF BeginPush, Move
  <2>5. CASE PushDone(p)
    BY <1>0, <2>5 DEF PushDone, Move
  <2>6. CASE PushFails(p)
    BY <1>0, <2>6 DEF PushFails, Move
  <2> QED BY <1>9, <2>1, <2>2, <2>3, <2>4, <2>5, <2>6 DEF Step
<1>10. CASE Crash
  BY <1>0, <1>10 DEF Crash, InStage
<1>11. CASE Rerun
  BY <1>0, <1>11, MaxRunsAssumption DEF Rerun
<1>12. CASE UNCHANGED vars
  BY <1>0, <1>12 DEF vars
<1> QED
  BY <1>1, <1>2, <1>3, <1>4, <1>5, <1>6, <1>7, <1>8, <1>9, <1>10, <1>11, <1>12 DEF Next


-----------------------------------------------------------------------------
(* The stages of a chunk.                                                  *)

LEMMA PushStageStep ==
  ASSUME PushInv, [Next]_vars
  PROVE  StageInv'
<1> USE DEF PushInv, StageInv, Return, NextChunk, setup, report, history, registry, prepVars
<1> DEFINE ended == outcome = "running" <=> pc # "ended"
<1>1. CASE SetupFails
  BY <1>1 DEF SetupFails
<1>2. CASE FilterUpstream
  BY <1>2 DEF FilterUpstream
<1>3. CASE PrepareChunk
  BY <1>3 DEF PrepareChunk
<1>4. CASE PrepareLevel
  BY <1>4 DEF PrepareLevel
<1>5. CASE PrepareFails \/ PusherFails
  BY <1>5 DEF PrepareFails, PusherFails
<1>6. CASE CollectTasks
  <2>1. visited = Reachable
    BY VisitedIsReachable DEF ResultsReachable
  <2> QED BY <1>6, <2>1 DEF CollectTasks
<1>7. CASE FinishUploads
  <2>1. ended'
    BY <1>7 DEF FinishUploads
  <2>2. pc' \in {"ended", "chunk", "publish"} /\ visited' = visited
    BY <1>7 DEF FinishUploads
  <2>3. ASSUME pc' = "publish", NEW p \in Path
        PROVE  /\ stage'[p] \in {"idle", "failed", "excluded", "receipt"}
               /\ stage'[p] # "idle" <=> p \in visited
    BY <1>7, <2>3 DEF FinishUploads, InStage, CompleteReceipts
  <2> QED BY <2>1, <2>2, <2>3 DEF Receipts
<1>8. CASE FinishPublish
  BY <1>8 DEF FinishPublish
<1>9. ASSUME NEW q \in Path, Step(q) PROVE StageInv'
  <2> USE DEF TypeOK
  <2>1. CASE BeginUpload(q)
    BY <2>1 DEF BeginUpload, Move
  <2>2. CASE UploadDone(q)
    BY <2>2 DEF UploadDone, Move
  <2>3. CASE UploadFails(q)
    BY <2>3 DEF UploadFails, Move
  <2>4. CASE BeginPush(q)
    BY <2>4 DEF BeginPush, Move, Receipts
  <2>5. CASE PushDone(q)
    BY <2>5 DEF PushDone, Move, Receipts
  <2>6. CASE PushFails(q)
    BY <2>6 DEF PushFails, Move, Receipts
  <2> QED BY <1>9, <2>1, <2>2, <2>3, <2>4, <2>5, <2>6 DEF Step
<1>10. CASE Crash
  BY <1>10 DEF Crash
<1>11. CASE Rerun
  BY <1>11 DEF Rerun
<1>12. CASE UNCHANGED vars
  BY <1>12 DEF vars, Receipts
<1> QED
  BY <1>1, <1>2, <1>3, <1>4, <1>5, <1>6, <1>7, <1>8, <1>9, <1>10, <1>11, <1>12 DEF Next

-----------------------------------------------------------------------------
(* What may be published.                                                  *)

LEMMA PushReceiptStep ==
  ASSUME PushInv, [Next]_vars
  PROVE  ReceiptInv'
<1> USE DEF PushInv, StageInv, ReceiptInv, Return, NextChunk, setup, report, history,
            registry, prepVars, InStage, Receipts, ClosedUnderAttached
<1>1. CASE SetupFails
  BY <1>1 DEF SetupFails
<1>2. CASE FilterUpstream
  BY <1>2 DEF FilterUpstream
<1>3. CASE PrepareChunk
  BY <1>3 DEF PrepareChunk
<1>4. CASE PrepareLevel
  BY <1>4 DEF PrepareLevel
<1>5. CASE PrepareFails \/ PusherFails
  BY <1>5 DEF PrepareFails, PusherFails
<1>6. CASE CollectTasks
  BY <1>6 DEF CollectTasks
<1>7. CASE FinishUploads
  <2>1. CASE InStage("uploaded") = {}
    BY <1>7, <2>1 DEF FinishUploads
  <2>2. CASE InStage("uploaded") # {}
    <3> DEFINE up == InStage("uploaded")
               left == CompleteReceipts(up)
    <3>1. left \subseteq up /\ \A p \in left : attached[p] \subseteq left
      BY CompleteReceiptsClosed
    <3>2. \A p \in Path : stage'[p] = IF p \in left THEN "receipt"
                                      ELSE IF p \in up THEN "excluded" ELSE stage[p]
      BY <1>7, <2>2 DEF FinishUploads
    <3>3. Receipts' = left /\ InStage("indexed")' = {}
      BY <1>7, <3>1, <3>2 DEF FinishUploads
    <3>4. pc' = "chunk" \/ outcome' \in {"ok", "partial"} => left = {}
      BY <1>7, <2>2 DEF FinishUploads
    <3> QED BY <1>7, <3>1, <3>3, <3>4 DEF FinishUploads
  <2> QED BY <2>1, <2>2
<1>8. CASE FinishPublish
  BY <1>8 DEF FinishPublish, PublishError
<1>9. ASSUME NEW q \in Path, Step(q) PROVE ReceiptInv'
  <2> USE DEF TypeOK
  <2>1. CASE BeginUpload(q)
    BY <2>1 DEF BeginUpload, Move
  <2>2. CASE UploadDone(q)
    BY <2>2 DEF UploadDone, Move
  <2>3. CASE UploadFails(q)
    BY <2>3 DEF UploadFails, Move
  <2>4. CASE BeginPush(q)
    BY <2>4 DEF BeginPush, Move
  <2>5. CASE PushDone(q)
    BY <2>5 DEF PushDone, Move
  <2>6. CASE PushFails(q)
    BY <2>6 DEF PushFails, Move
  <2> QED BY <1>9, <2>1, <2>2, <2>3, <2>4, <2>5, <2>6 DEF Step
<1>10. CASE Crash
  BY <1>10 DEF Crash
<1>11. CASE Rerun
  BY <1>11 DEF Rerun
<1>12. CASE UNCHANGED vars
  BY <1>12 DEF vars
<1> QED
  BY <1>1, <1>2, <1>3, <1>4, <1>5, <1>6, <1>7, <1>8, <1>9, <1>10, <1>11, <1>12 DEF Next

-----------------------------------------------------------------------------
(* What is reported.                                                       *)

LEMMA PushAccountStep ==
  ASSUME PushInv, [Next]_vars
  PROVE  AccountInv'
<1> USE DEF PushInv, StageInv, AccountInv, NothingSilentlyDropped, Return, NextChunk, setup,
            report, history, registry, prepVars, InStage, Receipts
<1>1. CASE SetupFails
  BY <1>1 DEF SetupFails
<1>2. CASE FilterUpstream
  BY <1>2 DEF FilterUpstream
<1>3. CASE PrepareChunk
  BY <1>3 DEF PrepareChunk, TypeOK
<1>4. CASE PrepareLevel
  BY <1>4 DEF PrepareLevel
<1>5. CASE PrepareFails \/ PusherFails
  BY <1>5 DEF PrepareFails, PusherFails
<1>6. CASE CollectTasks
  BY <1>6 DEF CollectTasks, TypeOK, Reachable
<1>7. CASE FinishUploads
  <2> DEFINE up == InStage("uploaded")
             left == CompleteReceipts(up)
  <2>1. failed' = failed \cup InStage("failed")
    BY <1>7 DEF FinishUploads, FailedSoFar
  <2>2. handled' = handled /\ indexed' = indexed /\ handled \subseteq Path
    BY <1>7 DEF FinishUploads, TypeOK
  <2>3. \A p \in Path : stage[p] \in {"idle", "uploaded", "failed"}
    BY <1>7 DEF FinishUploads
  <2>4. CASE up = {}
    <3>1. pc' = "ended" /\ outcome' = "aborted" /\ stage' = stage /\ excluded' = excluded
      BY <1>7, <2>4 DEF FinishUploads
    <3>2. failed' = {} => excluded' = {}
      BY <2>1, <3>1
    <3> QED BY <2>1, <2>2, <3>1, <3>2
  <2>5. CASE up # {}
    <3>1. left \subseteq up
      BY CompleteReceiptsClosed
    <3>2. \A p \in Path : stage'[p] = IF p \in left THEN "receipt"
                                      ELSE IF p \in up THEN "excluded" ELSE stage[p]
      BY <1>7, <2>5 DEF FinishUploads
    <3>3. excluded' = excluded \cup (up \ left)
      BY <1>7, <2>5 DEF FinishUploads
    <3>4. failed' = {} => up \ left = {}
      <4> SUFFICES ASSUME failed' = {} PROVE ClosedUnderAttached(up)
        BY CompleteReceiptsClosed
      <4>1. up = visited
        BY <1>7, <2>1, <2>3 DEF FinishUploads, TypeOK, PrepTypeOK
      <4> QED BY <4>1 DEF ClosedUnderAttached, PrepInv, PrepTypeOK
    <3>5. \A p \in handled : p \in indexed \cup failed' \cup excluded' \/ stage'[p] = "receipt"
      BY <2>1, <2>2, <2>3, <3>1, <3>2, <3>3, <1>7 DEF FinishUploads
    <3>6. left = {} => \A p \in handled : p \in indexed \cup failed' \cup excluded'
      BY <3>5, <3>2, <2>2, <2>3
    <3>7. left # {} => pc' = "publish" /\ outcome' = "running"
      BY <1>7, <2>5 DEF FinishUploads
    <3>8. left = {} => \/ pc' = "chunk" /\ outcome' = "running"
                       \/ pc' = "ended" /\ outcome' = IF failed' = {} THEN "ok" ELSE "partial"
      BY <1>7, <2>5 DEF FinishUploads
    <3>9. pc' = "publish" =>
            InStage("failed")' \subseteq failed' /\ InStage("excluded")' \subseteq excluded'
      BY <2>1, <3>2, <2>3, <3>3
    <3> QED BY <2>1, <2>2, <3>3, <3>4, <3>5, <3>6, <3>7, <3>8, <3>9
  <2> QED BY <2>4, <2>5
<1>8. CASE FinishPublish
  BY <1>8 DEF FinishPublish, PublishError, ReceiptInv, TypeOK
<1>9. ASSUME NEW q \in Path, Step(q) PROVE AccountInv'
  <2> USE DEF TypeOK
  <2>1. CASE BeginUpload(q)
    BY <2>1 DEF BeginUpload, Move
  <2>2. CASE UploadDone(q)
    BY <2>2 DEF UploadDone, Move
  <2>3. CASE UploadFails(q)
    BY <2>3 DEF UploadFails, Move
  <2>4. CASE BeginPush(q)
    BY <2>4 DEF BeginPush, Move
  <2>5. CASE PushDone(q)
    BY <2>5 DEF PushDone, Move
  <2>6. CASE PushFails(q)
    BY <2>6 DEF PushFails, Move
  <2> QED BY <1>9, <2>1, <2>2, <2>3, <2>4, <2>5, <2>6 DEF Step
<1>10. CASE Crash
  BY <1>10 DEF Crash
<1>11. CASE Rerun
  BY <1>11 DEF Rerun
<1>12. CASE UNCHANGED vars
  BY <1>12 DEF vars
<1> QED
  BY <1>1, <1>2, <1>3, <1>4, <1>5, <1>6, <1>7, <1>8, <1>9, <1>10, <1>11, <1>12 DEF Next

-----------------------------------------------------------------------------
(* What is covered.                                                        *)

(* The inputs are needed, and with a path its references are.              *)
LEMMA NeededClosed ==
  ASSUME TypeOK
  PROVE  /\ \A i \in DOMAIN input : input[i] \in Contract!Needed
         /\ \A p \in Contract!Needed : refs[p] \subseteq Contract!Needed
         /\ Contract!Needed \subseteq Path
<1>1. /\ \A i \in DOMAIN input : input[i] \in Path
      /\ \A p \in Path : refs[p] \subseteq Path
  BY DEF TypeOK, PrepTypeOK
<1> QED BY <1>1 DEF Contract!Needed

LEMMA NeededUnchanged ==
  ASSUME UNCHANGED <<refs, input>>
  PROVE  Contract!Needed' = Contract!Needed
  BY DEF Contract!Needed

(* No step changes the inputs or the store.                                *)
LEMMA InputsUnchanged ==
  ASSUME [Next]_vars
  PROVE  UNCHANGED <<refs, input>>
  BY DEF Next, vars, Step, Move, SetupFails, FilterUpstream, PrepareChunk, BeginPrepare,
         PrepareLevel, PrepareRefs, PrepareFails, CollectTasks, BeginUpload, UploadDone,
         UploadFails, FinishUploads, BeginPush, PushDone, PushFails, PusherFails,
         FinishPublish, Crash, Rerun, prepVars, setup

LEMMA PushCoverStep ==
  ASSUME PushInv, [Next]_vars
  PROVE  CoverInv'
<1> USE DEF PushInv, CoverInv, Return, NextChunk, setup, report, history, registry, prepVars
<1>0. UNCHANGED <<refs, input>> /\ Contract!Needed' = Contract!Needed
  BY InputsUnchanged, NeededUnchanged
<1>1. CASE SetupFails
  BY <1>0, <1>1 DEF SetupFails
<1>2. CASE FilterUpstream
  <2>1. PICK hits \in SUBSET Upstream : todo' = InputsWithout(hits)
    BY <1>2 DEF FilterUpstream, UpstreamHits
  <2>2. \A i \in DOMAIN input : i \in todo' \/ input[i] \in Upstream
    BY <2>1 DEF InputsWithout
  <2> QED BY <1>0, <1>2, <2>2 DEF FilterUpstream
<1>3. CASE PrepareChunk
  <2>1. Chunk \subseteq DOMAIN input
    BY DEF TypeOK, Chunk
  <2>2. roots' = InputPaths(Chunk) /\ visited' = InputPaths(Chunk)
    BY <1>3 DEF PrepareChunk, BeginPrepare
  <2>3. visited' \subseteq Contract!Needed
    BY <2>1, <2>2, NeededClosed DEF InputPaths
  <2>4. \A i \in DOMAIN input : i \in todo => i \in todo' \/ input[i] \in roots'
    BY <1>3, <2>1, <2>2 DEF PrepareChunk, InputPaths
  <2> QED BY <1>0, <1>3, <2>3, <2>4 DEF PrepareChunk
<1>4. CASE PrepareLevel
  <2>1. NewPaths \subseteq Contract!Needed
    <3>1. \A p \in frontier : missing[p] \subseteq refs[p] /\ p \in Contract!Needed
      BY DEF PrepInv
    <3> QED BY <3>1, NeededClosed DEF NewPaths
  <2> QED BY <1>0, <1>4, <2>1 DEF PrepareLevel, PrepareRefs
<1>5. CASE PrepareFails \/ PusherFails
  BY <1>0, <1>5 DEF PrepareFails, PusherFails
<1>6. CASE CollectTasks
  <2>1. handled' = handled \cup visited
    BY <1>6, VisitedIsReachable DEF CollectTasks, ResultsReachable
  <2>2. PrepareMissingRefs => \A p \in visited : refs[p] \subseteq visited \cup Upstream
    BY <1>6, DoneIsClosed DEF CollectTasks, ClosurePrepared
  <2>3. roots \subseteq visited
    BY DEF PrepInv
  <2> QED BY <1>0, <1>6, <2>1, <2>2, <2>3 DEF CollectTasks
<1>7. CASE FinishUploads
  BY <1>0, <1>7 DEF FinishUploads
<1>8. CASE FinishPublish
  BY <1>0, <1>8 DEF FinishPublish
<1>9. ASSUME NEW q \in Path, Step(q) PROVE CoverInv'
  BY <1>0, <1>9 DEF Step, Move, BeginUpload, UploadDone, UploadFails, BeginPush, PushDone,
                    PushFails
<1>10. CASE Crash
  BY <1>0, <1>10 DEF Crash
<1>11. CASE Rerun
  BY <1>0, <1>11 DEF Rerun
<1>12. CASE UNCHANGED vars
  BY <1>0, <1>12 DEF vars
<1> QED
  BY <1>1, <1>2, <1>3, <1>4, <1>5, <1>6, <1>7, <1>8, <1>9, <1>10, <1>11, <1>12 DEF Next

-----------------------------------------------------------------------------
(* What is kept.                                                           *)

LEMMA KeptUnchanged ==
  ASSUME UNCHANGED <<visited, attached>>, InStage("failed")' = InStage("failed")
  PROVE  Kept' = Kept
  BY DEF Kept, CompleteReceipts, ClosedUnderAttached

LEMMA NothingKept ==
  ASSUME visited = {}
  PROVE  Kept = {}
  BY DEF Kept, CompleteReceipts

LEMMA PushKeptStep ==
  ASSUME PushInv, [Next]_vars
  PROVE  KeptInv'
<1> USE DEF PushInv, StageInv, KeptInv, Return, NextChunk, setup, report, history, registry,
            prepVars, InStage, Receipts
<1>1. CASE SetupFails
  BY <1>1, KeptUnchanged DEF SetupFails
<1>2. CASE FilterUpstream
  <2>1. Kept' = Kept /\ Kept = {} /\ Receipts' = {}
    BY <1>2, KeptUnchanged, NothingKept DEF FilterUpstream
  <2>2. pc' # "filter"
    BY <1>2 DEF FilterUpstream
  <2> QED BY <2>1, <2>2
<1>3. CASE PrepareChunk
  BY <1>3 DEF PrepareChunk
<1>4. CASE PrepareLevel
  BY <1>4 DEF PrepareLevel
<1>5. CASE PrepareFails \/ PusherFails
  BY <1>5, KeptUnchanged DEF PrepareFails, PusherFails
<1>6. CASE CollectTasks
  BY <1>6 DEF CollectTasks
<1>7. CASE FinishUploads
  <2> DEFINE up == InStage("uploaded")
             left == CompleteReceipts(up)
  <2>1. CASE up = {}
    BY <1>7, <2>1 DEF FinishUploads
  <2>2. CASE up # {}
    <3>1. left \subseteq up
      BY CompleteReceiptsClosed
    <3>2. \A p \in Path : stage'[p] = IF p \in left THEN "receipt"
                                      ELSE IF p \in up THEN "excluded" ELSE stage[p]
      BY <1>7, <2>2 DEF FinishUploads
    <3>3. \A p \in Path : stage[p] \in {"idle", "uploaded", "failed"}
      BY <1>7 DEF FinishUploads
    <3>4. Receipts' = left /\ InStage("failed")' = InStage("failed")
      BY <3>1, <3>2, <3>3
    <3>5. visited \ InStage("failed") = up
      BY <1>7, <3>3 DEF FinishUploads, TypeOK, PrepTypeOK
    <3>6. Kept' = left
      BY <1>7, <3>4, <3>5, KeptUnchanged DEF FinishUploads, Kept
    <3>7. pc' # "filter"
      BY <1>7 DEF FinishUploads
    <3> HIDE DEF left
    <3> QED BY <3>4, <3>6, <3>7
  <2> QED BY <2>1, <2>2
<1>8. CASE FinishPublish
  BY <1>8, KeptUnchanged DEF FinishPublish
<1>9. ASSUME NEW q \in Path, Step(q) PROVE KeptInv'
  <2> USE DEF TypeOK
  <2>1. CASE BeginUpload(q) \/ UploadDone(q) \/ UploadFails(q)
    BY <2>1 DEF BeginUpload, UploadDone, UploadFails, Move
  <2>2. CASE BeginPush(q) \/ PushDone(q) \/ PushFails(q)
    <3>1. Receipts' = Receipts /\ InStage("failed")' = InStage("failed")
      BY <2>2 DEF BeginPush, PushDone, PushFails, Move
    <3> QED BY <2>2, <3>1, KeptUnchanged DEF BeginPush, PushDone, PushFails, Move
  <2> QED BY <1>9, <2>1, <2>2 DEF Step
<1>10. CASE Crash
  BY <1>10, KeptUnchanged DEF Crash
<1>11. CASE Rerun
  BY <1>11 DEF Rerun
<1>12. CASE UNCHANGED vars
  BY <1>12, KeptUnchanged DEF vars
<1> QED
  BY <1>1, <1>2, <1>3, <1>4, <1>5, <1>6, <1>7, <1>8, <1>9, <1>10, <1>11, <1>12 DEF Next

-----------------------------------------------------------------------------
(* The invariant and what follows from it.                                 *)

LEMMA PushInitInv == Init => PushInv
<1> SUFFICES ASSUME Init PROVE PushInv
  OBVIOUS
<1> USE DEF Init
<1>1. PrepInv
  BY PrepInitInv
<1>2. TypeOK
  BY <1>1, InputsAssumption, MaxRunsAssumption DEF TypeOK, Stages, PrepInv
<1>3. StageInv /\ ReceiptInv
  BY DEF StageInv, ReceiptInv, Receipts, InStage, ClosedUnderAttached
<1>4. AccountInv /\ CoverInv
  BY DEF AccountInv, NothingSilentlyDropped, InStage, CoverInv, PrepInit
<1>5. KeptInv
  BY DEF KeptInv, Receipts, PrepInit
<1> QED BY <1>1, <1>2, <1>3, <1>4, <1>5 DEF PushInv

LEMMA PushInvStep == PushInv /\ [Next]_vars => PushInv'
<1> SUFFICES ASSUME PushInv, [Next]_vars PROVE PushInv'
  OBVIOUS
<1>1. TypeOK' /\ PrepInv'
  BY PushTypeStep, PushPrepInv DEF PushInv
<1> QED
  BY <1>1, PushStageStep, PushReceiptStep, PushAccountStep, PushCoverStep, PushKeptStep
  DEF PushInv

(* The invariant holds in every reachable state.                           *)
THEOREM PushInvariant == Spec => []PushInv
  BY PushInitInv, PushInvStep, PTL DEF Spec

(* Type correctness.                                                       *)
THEOREM PushTypeCorrect == Spec => []TypeOK
<1>1. PushInv => TypeOK
  BY DEF PushInv
<1> QED BY PushInvariant, <1>1, PTL

(* A lone root is published only with everything prepared for it uploaded. *)
THEOREM SingleRootClosure == Spec => []SingleRootAllOrNothing
<1>1. PushInv => SingleRootAllOrNothing
  <2> SUFFICES ASSUME PushInv, NEW r \in Path, roots = {r}, r \in Receipts
               PROVE  visited \subseteq Receipts
    BY DEF SingleRootAllOrNothing
  <2>1. Receipts \in SUBSET Path /\ ClosedUnderAttached(Receipts) /\ roots \subseteq Receipts
    BY DEF PushInv, ReceiptInv, Receipts
  <2> QED BY <2>1 DEF PushInv, PrepInv
<1> QED BY PushInvariant, <1>1, PTL

(* A finished chunk leaves no published path without its prepared          *)
(* references.                                                             *)
THEOREM AttachedRefsAlwaysIndexed == Spec => []AttachedRefsIndexed
<1>1. PushInv => AttachedRefsIndexed
  BY DEF PushInv, ReceiptInv, AttachedRefsIndexed, ClosedUnderAttached, InStage
<1> QED BY PushInvariant, <1>1, PTL

(* A chunk publishes what completeReceipts makes of its uploads, as if it  *)
(* were one step: that of CIRun.                                           *)
THEOREM ChunkAlwaysOneStep == Spec => []ChunkIsOneStep
<1>1. PushInv => ChunkIsOneStep
  <2> SUFFICES ASSUME PushInv PROVE ChunkIsOneStep
    OBVIOUS
  <2>1. Kept = CompleteReceipts(Reachable \ InStage("failed"))
    BY VisitedIsReachable DEF PushInv, ResultsReachable, Kept
  <2>2. InStage("indexed") \subseteq Receipts
    BY DEF InStage, Receipts
  <2>3. pc = "chunk" \/ outcome \in {"ok", "partial"} => Receipts = InStage("indexed")
    BY DEF PushInv, ReceiptInv
  <2> QED BY <2>1, <2>2, <2>3 DEF PushInv, KeptInv, ChunkIsOneStep
<1> QED BY PushInvariant, <1>1, PTL

(* Every path taken up is published or reported.                           *)
THEOREM NothingEverSilentlyDropped == Spec => []NothingSilentlyDropped
<1>1. PushInv => NothingSilentlyDropped
  BY DEF PushInv, AccountInv
<1> QED BY PushInvariant, <1>1, PTL

-----------------------------------------------------------------------------
(* A push goes on and comes to an end.                                     *)

(* While it runs there is something to do, unless no upload may run.       *)
THEOREM PushNeverGetsStuck ==
  ASSUME Workers # 0
  PROVE  Spec => []PushNeverStuck
<1>1. ASSUME PushInv PROVE PushNeverStuck
  <2>1. outcome = "running" => pc \in {"filter", "chunk", "prepare", "upload", "publish"}
    BY <1>1 DEF PushInv, StageInv, TypeOK
  <2>2. InStage("uploading") = {} => UploadSlotFree
    BY FS_EmptySet, WorkersAssumption DEF UploadSlotFree
  <2>3. InStage("pushing") = {} => PushSlotFree
    BY FS_EmptySet, WorkersAssumption DEF PushSlotFree
  <2> QED BY <2>1, <2>2, <2>3 DEF PushNeverStuck
<1> QED BY PushInvariant, <1>1, PTL

(* A chunk takes something off the list: its first entry.                  *)
LEMMA ChunkTakesFirst ==
  ASSUME todo \subseteq Nat, todo # {}
  PROVE  Chunk # {}
<1> DEFINE less == OpToRel(<, Nat)
<1>1. PICK i \in todo : \A j \in todo : <<j, i>> \notin less
  BY NatLessThanWellFounded, WFMin
<1>2. {j \in todo : j < i} = {}
  BY <1>1 DEF OpToRel
<1>3. Cardinality({j \in todo : j < i}) < ChunkSize
  BY <1>2, FS_EmptySet, ChunkSizeAssumption
<1> QED BY <1>3 DEF Chunk

(* A run that is about to take a chunk has inputs left.                    *)
ChunkLeft == pc = "chunk" => todo # {}

LEMMA ChunkLeftStep == ChunkLeft /\ [Next]_vars => ChunkLeft'
  BY DEF ChunkLeft, Next, vars, Step, Move, SetupFails, FilterUpstream, PrepareChunk,
         PrepareLevel, PrepareFails, CollectTasks, BeginUpload, UploadDone, UploadFails,
         FinishUploads, BeginPush, PushDone, PushFails, PusherFails, FinishPublish, Crash,
         Rerun, Return, NextChunk

LEMMA RunAdvancesStep ==
  ASSUME PushInv, ChunkLeft, Next
  PROVE  run' = run + 1 \/ (run' = run /\ RunAdvances)
<1> USE DEF RunAdvances, Return, NextChunk, setup, Place
<1>0. TypeOK /\ (outcome = "running" => pc # "ended")
  BY DEF PushInv, StageInv
<1>1. CASE SetupFails \/ FilterUpstream
  BY <1>1 DEF SetupFails, FilterUpstream
<1>2. CASE PrepareChunk
  <2>1. Chunk # {} /\ Chunk \subseteq todo
    <3>1. todo \subseteq Nat /\ todo # {}
      BY <1>0, <1>2 DEF TypeOK, ChunkLeft, PrepareChunk
    <3> QED BY <3>1, ChunkTakesFirst DEF Chunk
  <2> QED BY <1>2, <2>1 DEF PrepareChunk
<1>3. CASE PrepareLevel
  <2>1. visited' = visited \cup NewPaths /\ NewPaths # {} /\ NewPaths \cap visited = {}
    BY <1>3 DEF PrepareLevel, PrepareRefs, NewPaths
  <2> QED BY <1>3, <2>1 DEF PrepareLevel
<1>4. CASE PrepareFails \/ CollectTasks
  BY <1>4 DEF PrepareFails, CollectTasks
<1>5. CASE FinishUploads
  <2>1. pc = "upload" /\ todo' = todo /\ run' = run /\ pc' \in {"ended", "publish", "chunk"}
    BY <1>5 DEF FinishUploads
  <2> QED BY <2>1
<1>6. CASE PusherFails \/ FinishPublish
  BY <1>6 DEF PusherFails, FinishPublish
<1>7. ASSUME NEW p \in Path, Step(p) PROVE run' = run /\ RunAdvances
  <2>1. ASSUME NEW a, NEW b, Move(p, a, b), <<a, b>> \in Onward PROVE PathAdvances
    BY <1>0, <2>1 DEF Move, TypeOK, PathAdvances
  <2>2. PathAdvances
    BY <1>7, <2>1 DEF Step, BeginUpload, UploadDone, UploadFails, BeginPush, PushDone,
                      PushFails, Onward
  <2>3. UNCHANGED <<todo, pc, run, visited>> /\ pc \in {"upload", "publish"}
    BY <1>7 DEF Step, BeginUpload, UploadDone, UploadFails, BeginPush, PushDone, PushFails,
                Move, prepVars
  <2> QED BY <2>2, <2>3
<1>8. CASE Crash
  <2>1. pc # "ended" /\ pc' = "ended" /\ todo' = todo /\ run' = run
    BY <1>0, <1>8 DEF Crash
  <2> QED BY <1>0, <2>1 DEF TypeOK
<1>9. CASE Rerun
  BY <1>9 DEF Rerun
<1> QED BY <1>1, <1>2, <1>3, <1>4, <1>5, <1>6, <1>7, <1>8, <1>9 DEF Next

(* No step of a run takes it back or leaves it where it is.                *)
THEOREM RunAlwaysMovesOn == Spec => RunMovesOn
<1>1. Init => ChunkLeft
  BY DEF Init, ChunkLeft
<1>2. Spec => []ChunkLeft
  BY <1>1, ChunkLeftStep, PTL DEF Spec
<1>3. PushInv /\ ChunkLeft /\ [Next]_vars
        => [run' = run + 1 \/ (run' = run /\ RunAdvances)]_vars
  BY RunAdvancesStep
<1> QED BY PushInvariant, <1>2, <1>3, PTL DEF Spec, RunMovesOn

-----------------------------------------------------------------------------
(* The push implements its contract.                                       *)

(* What is being published is needed.                                      *)
LEMMA PushingIsNeeded ==
  ASSUME PushInv, NEW p \in Path, stage[p] = "pushing", outcome = "running"
  PROVE  p \in Contract!Needed
<1>1. pc = "publish"
  BY DEF PushInv, StageInv, ReceiptInv, Receipts, InStage, TypeOK
<1> QED BY <1>1 DEF PushInv, StageInv, CoverInv

(* A run that returns without an error has gone through all inputs.        *)
LEMMA SuccessIsSubstitutable ==
  ASSUME PushInv', outcome' = "ok", todo' = {}, tags' = tags, UNCHANGED <<refs, input>>
  PROVE  \E S \in SUBSET tags : Contract!Substitutable(S)
<1>1. handled' \subseteq tags
  BY DEF PushInv, AccountInv, NothingSilentlyDropped, ReceiptInv
<1>2. \A i \in DOMAIN input : input[i] \in Upstream \cup handled'
  BY DEF PushInv, CoverInv, StageInv
<1>3. Contract!Substitutable(handled')
  BY <1>2 DEF Contract!Substitutable, PushInv, CoverInv
<1> QED BY <1>1, <1>3

(* A step of the push is a step of the contract, or none.                  *)
LEMMA PushStepsContract ==
  ASSUME PushInv, PushInv', [Next]_vars
  PROVE  [Contract!Next]_(Contract!contractVars)
<1> USE DEF Contract!contractVars
<1>0. UNCHANGED <<refs, input>>
  BY InputsUnchanged
<1>a. ASSUME outcome = "running", outcome' \in {"partial", "aborted"}, tags' = tags
      PROVE  Contract!Next
  <2>1. {} \in SUBSET Contract!Needed /\ tags' = tags \cup {}
    BY <1>a
  <2> QED BY <1>0, <1>a, <2>1 DEF Contract!Next, Contract!GiveUp
<1>b. ASSUME outcome = "running", outcome' = "ok", todo' = {}, tags' = tags
      PROVE  Contract!Next
  BY <1>0, <1>b, SuccessIsSubstitutable DEF Contract!Next, Contract!Succeed
<1>c. ASSUME NEW p \in Path, stage[p] = "pushing", pc = "publish",
             outcome' = outcome, tags' \in {tags, tags \cup {p}}
      PROVE  [Contract!Next]_(Contract!contractVars)
  <2>1. outcome = "running" /\ p \in Contract!Needed
    BY <1>c, PushingIsNeeded DEF PushInv, StageInv
  <2> QED BY <1>0, <1>c, <2>1 DEF Contract!Next, Contract!Serve
<1> USE DEF Return, NextChunk, registry, report, history, setup
<1>1. CASE SetupFails
  BY <1>1, <1>a DEF SetupFails, PushInv, StageInv
<1>2. CASE FilterUpstream
  BY <1>0, <1>2, <1>b DEF FilterUpstream, PushInv, StageInv
<1>3. CASE PrepareChunk \/ PrepareLevel \/ CollectTasks
  BY <1>0, <1>3 DEF PrepareChunk, PrepareLevel, CollectTasks
<1>4. CASE PrepareFails \/ PusherFails
  BY <1>4, <1>a DEF PrepareFails, PusherFails, PushInv, StageInv
<1>5. CASE FinishUploads
  BY <1>0, <1>5, <1>a, <1>b DEF FinishUploads, PushInv, StageInv
<1>6. CASE FinishPublish
  BY <1>0, <1>6, <1>a, <1>b DEF FinishPublish, PushInv, StageInv
<1>7. ASSUME NEW p \in Path, Step(p) PROVE [Contract!Next]_(Contract!contractVars)
  <2>1. CASE BeginUpload(p) \/ UploadDone(p) \/ UploadFails(p) \/ BeginPush(p)
    BY <1>0, <2>1 DEF BeginUpload, UploadDone, UploadFails, BeginPush, Move
  <2>2. CASE PushDone(p) \/ PushFails(p)
    BY <2>2, <1>c DEF PushDone, PushFails, Move
  <2> QED BY <1>7, <2>1, <2>2 DEF Step
<1>8. CASE Crash
  <2>1. InStage("pushing") \subseteq Contract!Needed
    BY <1>8, PushingIsNeeded DEF Crash, InStage
  <2> QED BY <1>0, <1>8, <2>1 DEF Crash, Contract!Next, Contract!GiveUp
<1>9. CASE Rerun
  BY <1>0, <1>9 DEF Rerun, Contract!Next, Contract!TryAgain, PushInv, StageInv
<1>10. CASE UNCHANGED vars
  BY <1>10 DEF vars, prepVars
<1> QED BY <1>1, <1>2, <1>3, <1>4, <1>5, <1>6, <1>7, <1>8, <1>9, <1>10 DEF Next

(* What the command promises holds of the code, whatever fails or crashes  *)
(* and however often it is run.                                            *)
THEOREM PushImplementsContract == Spec => ImplementsContract
<1>1. Init => Contract!Init
  BY InputsAssumption DEF Init, PrepInit, Contract!Init
<1> QED BY <1>1, PushInvariant, PushStepsContract, PTL DEF Spec, ImplementsContract, Contract!Spec

-----------------------------------------------------------------------------
(***************************************************************************)
(* A CI run                                                                *)
(***************************************************************************)

(* A cache serves what it served when it is given more.                    *)
LEMMA ServesMore ==
  ASSUME NEW c, NEW ps, NEW qs, Serves(c, ps), qs \subseteq ps,
         served[c] \subseteq served'[c], refs' = refs
  PROVE  Serves(c, qs) /\ Serves(c, qs)'
  BY DEF Serves

(* What upstream serves every cache can substitute.                        *)
LEMMA UpstreamServes ==
  ASSUME NEW c, NEW ps, ps \subseteq Upstream
  PROVE  Serves(c, ps) /\ Serves(c, ps)'
<1>1. {} \in SUBSET served[c] /\ {} \in SUBSET served'[c] /\ ps \subseteq {} \cup Upstream
  OBVIOUS
<1> QED BY <1>1 DEF Serves

LEMMA CIInitInv == CIInit => CIInv
<1> SUFFICES ASSUME CIInit PROVE CIInv
  OBVIOUS
<1>1. PrepInv
  BY PrepInitInv DEF CIInit
<1>2. CITypeOK
  BY <1>1, BuildListsAssumption DEF CIInit, CITypeOK, PrepInv
<1> QED BY <1>1, <1>2 DEF CIInit, CIInv, PushedCacheServesBuilds, GreenRunServesEverything

(* The preparation keeps its invariant within a run.                       *)
LEMMA CIPrepInv ==
  ASSUME CIInv, [CINext]_ciVars
  PROVE  PrepInv'
<1> USE DEF CIInv
<1>1. CASE BeginPrepareRoots
  BY <1>1, BeginPrepareInv DEF BeginPrepareRoots, CITypeOK
<1>2. CASE PrepareRootsLevel
  BY <1>2, PrepareRefsInv DEF PrepareRootsLevel
<1>3. CASE UNCHANGED prepVars
  BY <1>3, PrepUnchangedInv
<1> QED
  BY <1>1, <1>2, <1>3 DEF CINext, ciVars, StartFails, Start, BuildInstallable, FilterRoots,
     PrepareRootsFails, PrepareEnds, NoToken, PushTo, Finish

LEMMA CITypeStep ==
  ASSUME CIInv, [CINext]_ciVars
  PROVE  CITypeOK'
<1>0. PrepTypeOK'
  BY CIPrepInv DEF PrepInv
<1> USE <1>0 DEF CIInv, CITypeOK, RunReturns
<1>1. CASE StartFails \/ Start
  BY <1>1 DEF StartFails, Start
<1>2. CASE BuildInstallable
  BY <1>2, OutputsAssumption DEF BuildInstallable
<1>3. CASE FilterRoots
  <2>1. kept' \subseteq Path
    BY <1>3 DEF FilterRoots
  <2> QED BY <1>3, <2>1 DEF FilterRoots
<1>4. CASE BeginPrepareRoots \/ PrepareRootsFails \/ PrepareRootsLevel
  BY <1>4 DEF BeginPrepareRoots, PrepareRootsFails, PrepareRootsLevel, runVars
<1>5. CASE PrepareEnds \/ NoToken \/ Finish
  <2>1. turn' \in Nat \ {0}
    BY <1>5 DEF PrepareEnds, NoToken, Finish, FirstCache
  <2> QED BY <1>5, <2>1 DEF PrepareEnds, NoToken, Finish
<1>6. CASE PushTo
  <2>1. turn \in 1..Caches
    BY <1>6, CachesAssumption DEF PushTo
  <2>2. PICK up \in SUBSET Reachable :
          \E published \in SUBSET CompleteReceipts(up) :
            /\ served' = [served EXCEPT ![turn] = @ \cup published]
            /\ pushed' \in {pushed, pushed \cup {turn}}
    BY <1>6 DEF PushTo
  <2>3. CompleteReceipts(up) \subseteq Path
    BY CompleteReceiptsClosed DEF Reachable
  <2>4. served' \in [1..Caches -> SUBSET Path]
    BY <2>1, <2>2, <2>3
  <2>5. pushed' \subseteq 1..Caches
    BY <2>1, <2>2
  <2> QED BY <1>6, <2>4, <2>5 DEF PushTo
<1>7. CASE UNCHANGED ciVars
  BY <1>7 DEF ciVars, runVars
<1> QED BY <1>1, <1>2, <1>3, <1>4, <1>5, <1>6, <1>7 DEF CINext

(* A push that succeeds leaves all that was prepared in its cache.         *)
LEMMA PushToServes ==
  ASSUME CIInv, PushTo
  PROVE  /\ \A c \in 1..Caches : served[c] \subseteq served'[c]
         /\ \A c \in pushed' : c \in pushed \/ Serves(c, union)'
<1> USE DEF CIInv, CITypeOK
<1>1. turn \in 1..Caches
  BY CachesAssumption DEF PushTo
<1> DEFINE Ends(up, published, erred) ==
             /\ published # CompleteReceipts(up) => erred
             /\ served' = [served EXCEPT ![turn] = @ \cup published]
             /\ pushed' = IF PushSucceeded(up, erred) THEN pushed \cup {turn} ELSE pushed
<1>5. PICK up \in SUBSET Reachable :
        \E published \in SUBSET CompleteReceipts(up), erred \in BOOLEAN : Ends(up, published, erred)
  BY DEF PushTo
<1>2. PICK published \in SUBSET CompleteReceipts(up), erred \in BOOLEAN : Ends(up, published, erred)
  BY <1>5
<1>3. \A c \in 1..Caches : served[c] \subseteq served'[c]
  BY <1>2
<1>4. ASSUME NEW c \in pushed', c \notin pushed PROVE Serves(c, union)'
  <2>1. up = Reachable /\ published = CompleteReceipts(up) /\ c = turn
    BY <1>2, <1>4 DEF PushSucceeded
  <2>2. visited = Reachable /\ visited \subseteq Path /\ ClosedUnderAttached(visited)
    BY VisitedIsReachable DEF ResultsReachable, PrepInv, PrepTypeOK, ClosedUnderAttached
  <2>3. published = visited
    BY <2>1, <2>2, CompleteReceiptsClosed
  <2>4. visited \in SUBSET served'[c]
    BY <1>1, <1>2, <2>1, <2>3
  <2>5. /\ union \subseteq visited \cup Upstream
        /\ \A p \in visited : refs[p] \subseteq visited \cup Upstream
    BY DEF PushTo
  <2>6. union' = union /\ refs' = refs
    BY DEF PushTo, prepVars
  <2> QED BY <2>4, <2>5, <2>6 DEF Serves
<1> QED BY <1>3, <1>4

LEMMA CIInvStep ==
  ASSUME CIInv, [CINext]_ciVars, PrepareMissingRefs
  PROVE  CIInv'
<1>0. CITypeOK' /\ PrepInv'
  BY CITypeStep, CIPrepInv
<1> USE <1>0 DEF CIInv, RunReturns, prepVars
<1>a. ASSUME refs' = refs, pushed' = pushed, served' = served, union' = union
      PROVE  PushedCacheServesBuilds'
  BY <1>a, ServesMore DEF PushedCacheServesBuilds
<1>1. CASE StartFails
  BY <1>1, <1>a DEF StartFails, GreenRunServesEverything
<1>2. CASE Start
  <2>1. ASSUME builds = <<>> PROVE GreenRunServesEverything'
    <3>1. BuildOutputs \subseteq Upstream /\ builds' = builds
      BY <1>2, <2>1 DEF Start, BuildOutputs
    <3> QED BY <3>1, UpstreamServes DEF GreenRunServesEverything, BuildOutputs
  <2> QED BY <1>2, <2>1, <1>a DEF Start, GreenRunServesEverything
<1>3. CASE BuildInstallable
  BY <1>3 DEF BuildInstallable, PushedCacheServesBuilds, GreenRunServesEverything
<1>4. CASE FilterRoots
  <2>1. union \subseteq kept' \cup Upstream
    BY <1>4 DEF FilterRoots
  <2>2. ASSUME kept' = {}, AllBuilt PROVE GreenRunServesEverything'
    <3>1. BuildOutputs \subseteq Upstream /\ builds' = builds
      BY <1>4, <2>1, <2>2 DEF AllBuilt, FilterRoots, BuildOutputs
    <3> QED BY <3>1, UpstreamServes DEF GreenRunServesEverything, BuildOutputs
  <2> QED BY <1>4, <1>a, <2>1, <2>2 DEF FilterRoots, GreenRunServesEverything
<1>5. CASE BeginPrepareRoots
  <2>1. visited' = kept /\ refs' = refs
    BY <1>5 DEF BeginPrepareRoots, BeginPrepare
  <2> QED BY <1>5, <1>a, <2>1 DEF BeginPrepareRoots, GreenRunServesEverything
<1>6. CASE PrepareRootsLevel
  <2>1. visited \subseteq visited' /\ refs' = refs
    BY <1>6 DEF PrepareRootsLevel, PrepareRefs
  <2> QED BY <1>6, <1>a, <2>1 DEF PrepareRootsLevel, runVars, GreenRunServesEverything
<1>7. CASE PrepareRootsFails
  BY <1>7, <1>a DEF PrepareRootsFails, GreenRunServesEverything
<1>8. CASE PrepareEnds
  <2>1. \A p \in visited : refs[p] \subseteq visited \cup Upstream
    BY <1>8, DoneIsClosed DEF PrepareEnds, ClosurePrepared
  <2> QED BY <1>8, <1>a, <2>1 DEF PrepareEnds, GreenRunServesEverything
<1>9. CASE NoToken
  BY <1>9, <1>a DEF NoToken, GreenRunServesEverything
<1>10. CASE PushTo
  <2>1. ASSUME NEW c \in pushed PROVE Serves(c, union)'
    <3>1. c \in 1..Caches /\ Serves(c, union) /\ union' = union /\ refs' = refs
      BY <1>10 DEF CITypeOK, PushedCacheServesBuilds, PushTo
    <3> QED BY <1>10, <3>1, PushToServes, ServesMore
  <2>2. PushedCacheServesBuilds'
    BY <1>10, <2>1, PushToServes DEF PushedCacheServesBuilds
  <2> QED BY <1>10, <2>2 DEF PushTo, GreenRunServesEverything
<1>11. CASE Finish
  <2>1. ASSUME Verdict(1..Caches) PROVE GreenRunServesEverything'
    <3>1. BuildOutputs \subseteq union /\ builds' = builds /\ served' = served /\ refs' = refs
      BY <1>11, <2>1 DEF Finish, Verdict, AllBuilt, BuildOutputs
    <3>2. \A c \in 1..Caches : Serves(c, union)
      BY <2>1 DEF Verdict, PushedCacheServesBuilds
    <3>3. \A c \in 1..Caches : Serves(c, BuildOutputs)'
      BY <3>1, <3>2, ServesMore DEF BuildOutputs
    <3> QED BY <3>1, <3>3 DEF GreenRunServesEverything, BuildOutputs
  <2> QED BY <1>11, <1>a, <2>1 DEF Finish, GreenRunServesEverything
<1>12. CASE UNCHANGED ciVars
  BY <1>12, <1>a DEF ciVars, runVars, GreenRunServesEverything, BuildOutputs, Serves
<1> QED
  BY <1>1, <1>2, <1>3, <1>4, <1>5, <1>6, <1>7, <1>8, <1>9, <1>10, <1>11, <1>12 DEF CINext

(* The invariant holds in every reachable state of a run that prepares     *)
(* missing references, which is how Prepare of prepared.go sets it.        *)
THEOREM CIInvariant ==
  ASSUME PrepareMissingRefs
  PROVE  CISpec => []CIInv
<1>1. CIInv /\ [CINext]_ciVars => CIInv'
  BY CIInvStep
<1> QED BY CIInitInv, <1>1, PTL DEF CISpec

(* Type correctness.                                                       *)
THEOREM CITypeCorrect ==
  ASSUME PrepareMissingRefs
  PROVE  CISpec => []CITypeOK
<1>1. CIInv => CITypeOK
  BY DEF CIInv
<1> QED BY CIInvariant, <1>1, PTL

(* A push reported done has left the cache complete.                       *)
THEOREM PushedCachesServe ==
  ASSUME PrepareMissingRefs
  PROVE  CISpec => []PushedCacheServesBuilds
<1>1. CIInv => PushedCacheServesBuilds
  BY DEF CIInv
<1> QED BY CIInvariant, <1>1, PTL

(* A green run has done its job in every cache.                            *)
THEOREM GreenRunsServe ==
  ASSUME PrepareMissingRefs
  PROVE  CISpec => []GreenRunServesEverything
<1>1. CIInv => GreenRunServesEverything
  BY DEF CIInv
<1> QED BY CIInvariant, <1>1, PTL

-----------------------------------------------------------------------------
(* A CI run implements the contract of each of its caches.                 *)

(* The outputs of the builds are needed, and with a path its references.   *)
LEMMA CINeededClosed ==
  ASSUME CITypeOK, NEW c \in 1..Caches
  PROVE  /\ BuildOutputs \subseteq CacheContract(c)!Needed
         /\ \A p \in CacheContract(c)!Needed : refs[p] \subseteq CacheContract(c)!Needed
<1>1. BuildOutputs \subseteq Path
  BY OutputsAssumption DEF CITypeOK, BuildOutputs
<1>2. \A p \in Path : refs[p] \subseteq Path
  BY DEF CITypeOK, PrepTypeOK
<1> QED BY <1>1, <1>2 DEF CacheContract!Needed

LEMMA CINeededUnchanged ==
  ASSUME UNCHANGED <<refs, builds>>, NEW c
  PROVE  BuildOutputs' = BuildOutputs /\ CacheContract(c)!Needed' = CacheContract(c)!Needed
  BY DEF CacheContract!Needed, BuildOutputs

(* No step changes the builds or the store.                                *)
LEMMA BuildsUnchanged ==
  ASSUME [CINext]_ciVars
  PROVE  UNCHANGED <<refs, builds>>
  BY DEF CINext, ciVars, runVars, prepVars, StartFails, Start, BuildInstallable, FilterRoots,
         BeginPrepareRoots, BeginPrepare, PrepareRootsLevel, PrepareRefs, PrepareRootsFails,
         PrepareEnds, NoToken, PushTo, Finish

LEMMA NeededInitInv == CIInit => NeededInv
  BY DEF CIInit, PrepInit, NeededInv

LEMMA NeededStepInv ==
  ASSUME CIInv, NeededInv, [CINext]_ciVars
  PROVE  NeededInv'
<1> USE DEF NeededInv
<1>0. /\ BuildOutputs' = BuildOutputs /\ refs' = refs /\ builds' = builds
      /\ \A c \in 1..Caches : CacheContract(c)!Needed' = CacheContract(c)!Needed
  BY BuildsUnchanged, CINeededUnchanged
<1>1. CASE BuildInstallable
  <2>1. union' \subseteq BuildOutputs
    BY <1>1 DEF BuildInstallable, BuildOutputs
  <2>2. kept' = kept /\ union \subseteq union' /\ visited' = visited
    BY <1>1 DEF BuildInstallable, prepVars
  <2> QED BY <1>0, <2>1, <2>2
<1>2. CASE FilterRoots
  <2>1. kept' \subseteq union /\ union' = union /\ visited' = visited
    BY <1>2 DEF FilterRoots, prepVars
  <2> QED BY <1>0, <2>1
<1>3. CASE BeginPrepareRoots
  <2>1. visited' = kept /\ kept' = kept /\ union' = union
    BY <1>3 DEF BeginPrepareRoots, BeginPrepare
  <2>2. \A c \in 1..Caches : kept \subseteq CacheContract(c)!Needed
    BY CINeededClosed DEF CIInv
  <2> QED BY <1>0, <2>1, <2>2
<1>4. CASE PrepareRootsLevel
  <2>1. visited' = visited \cup NewPaths /\ kept' = kept /\ union' = union
    BY <1>4 DEF PrepareRootsLevel, PrepareRefs, runVars
  <2>2. \A p \in frontier : missing[p] \subseteq refs[p] /\ p \in visited
    BY DEF CIInv, PrepInv
  <2>3. \A c \in 1..Caches : NewPaths \subseteq CacheContract(c)!Needed
    <3> SUFFICES ASSUME NEW c \in 1..Caches PROVE NewPaths \subseteq CacheContract(c)!Needed
      OBVIOUS
    <3>1. visited \subseteq CacheContract(c)!Needed
      OBVIOUS
    <3> HIDE DEF NeededInv
    <3> QED BY <2>2, <3>1, CINeededClosed DEF NewPaths, CIInv
  <2> QED BY <1>0, <2>1, <2>3
<1>5. CASE UNCHANGED <<visited, kept, union>>
  BY <1>0, <1>5
<1> QED
  BY <1>1, <1>2, <1>3, <1>4, <1>5 DEF CINext, ciVars, runVars, prepVars, StartFails, Start,
     PrepareRootsFails, PrepareEnds, NoToken, PushTo, Finish

(* What is pushed is prepared, so the builds need it.                      *)
LEMMA PushToServesNeeded ==
  ASSUME CIInv, NeededInv, PushTo, NEW c \in 1..Caches
  PROVE  \E more \in SUBSET CacheContract(c)!Needed : served'[c] = served[c] \cup more
<1>1. PICK up \in SUBSET Reachable :
        \E published \in SUBSET CompleteReceipts(up) :
          served' = [served EXCEPT ![turn] = @ \cup published]
  BY DEF PushTo
<1>2. PICK published \in SUBSET CompleteReceipts(up) :
        served' = [served EXCEPT ![turn] = @ \cup published]
  BY <1>1
<1>3. published \subseteq visited
  <2>1. up \subseteq visited
    BY VisitedIsReachable DEF CIInv, ResultsReachable
  <2> QED BY <2>1 DEF CompleteReceipts
<1>4. published \subseteq CacheContract(c)!Needed
  BY <1>3 DEF NeededInv
<1>5. served'[c] = served[c] \cup published \/ served'[c] = served[c] \cup {}
  BY <1>2 DEF CIInv, CITypeOK
<1> QED BY <1>4, <1>5

(* A step of the run is a step of the contract of each cache, or none.     *)
LEMMA CIStepsContract ==
  ASSUME CIInv, CIInv', NeededInv, [CINext]_ciVars, PrepareMissingRefs, NEW c \in 1..Caches
  PROVE  [CacheContract(c)!Next]_(CacheContract(c)!contractVars)
<1> USE DEF CacheContract!contractVars
<1>0. refs' = refs /\ BuildOutputs' = BuildOutputs
  BY BuildsUnchanged, CINeededUnchanged
<1>a. ASSUME phase # "ended", RunReturns(FALSE), served' = served
      PROVE  CacheContract(c)!Next
  <2>1. {} \in SUBSET CacheContract(c)!Needed /\ served'[c] = served[c] \cup {}
    BY <1>a
  <2>2. CacheOutcome = "running" /\ CacheOutcome' = "partial"
    BY <1>a DEF CIInv, CITypeOK, RunReturns, CacheOutcome
  <2> QED BY <1>0, <2>1, <2>2 DEF CacheContract!Next, CacheContract!GiveUp
<1>b. ASSUME phase # "ended", RunReturns(TRUE), served' = served
      PROVE  CacheContract(c)!Next
  <2>1. CacheOutcome = "running" /\ CacheOutcome' = "ok"
    BY <1>b DEF CIInv, CITypeOK, RunReturns, CacheOutcome
  <2>2. Serves(c, BuildOutputs)'
    BY <1>b DEF CIInv, GreenRunServesEverything, RunReturns
  <2>3. \E S \in SUBSET served[c] : CacheContract(c)!Substitutable(S)
    BY <1>0, <1>b, <2>2 DEF Serves, CacheContract!Substitutable
  <2> QED BY <1>0, <1>b, <2>1, <2>3 DEF CacheContract!Next, CacheContract!Succeed
<1>c. ASSUME verdict' = verdict, served' = served
      PROVE  UNCHANGED CacheContract(c)!contractVars
  BY <1>0, <1>c DEF CacheOutcome
<1>1. CASE StartFails \/ PrepareRootsFails
  BY <1>1, <1>a DEF StartFails, PrepareRootsFails
<1>2. CASE Start
  BY <1>2, <1>b, <1>c DEF Start
<1>3. CASE BuildInstallable \/ BeginPrepareRoots \/ PrepareEnds \/ NoToken
  BY <1>3, <1>c DEF BuildInstallable, BeginPrepareRoots, PrepareEnds, NoToken
<1>4. CASE FilterRoots
  BY <1>4, <1>a, <1>b, <1>c DEF FilterRoots, AllBuilt
<1>5. CASE PrepareRootsLevel \/ UNCHANGED ciVars
  BY <1>5, <1>c DEF PrepareRootsLevel, ciVars, runVars
<1>6. CASE PushTo
  <2>1. CacheOutcome = "running" /\ CacheOutcome' = CacheOutcome
    BY <1>6 DEF PushTo, CIInv, CITypeOK, CacheOutcome
  <2> QED BY <1>0, <1>6, <2>1, PushToServesNeeded DEF CacheContract!Next, CacheContract!Serve
<1>7. CASE Finish
  BY <1>7, <1>a, <1>b DEF Finish, Verdict, AllBuilt
<1> QED BY <1>1, <1>2, <1>3, <1>4, <1>5, <1>6, <1>7 DEF CINext

(* What a run prepares and what it may push its builds need.               *)
THEOREM OnlyNeededPrepared ==
  ASSUME PrepareMissingRefs
  PROVE  CISpec => []NeededInv
<1>1. CIInv /\ NeededInv /\ [CINext]_ciVars => NeededInv'
  BY NeededStepInv
<1> QED BY CIInvariant, NeededInitInv, <1>1, PTL DEF CISpec

(* A run of aeroflare-ci promises of every configured cache what `push'    *)
(* promises of one, whatever fails and however many caches there are.      *)
THEOREM CIRunImplementsContract ==
  ASSUME PrepareMissingRefs
  PROVE  CISpec => CIImplementsContract
<1> DEFINE Steps == \A c \in 1..Caches :
                      [CacheContract(c)!Next]_(CacheContract(c)!contractVars)
<1>1. CIInit => \A c \in 1..Caches : CacheContract(c)!Init
  <2> SUFFICES ASSUME CIInit, NEW c \in 1..Caches PROVE CacheContract(c)!Init
    OBVIOUS
  <2>1. BuildOutputs \subseteq Path
    BY OutputsAssumption, BuildListsAssumption DEF CIInit, BuildOutputs
  <2> QED BY <2>1 DEF CIInit, PrepInit, CacheContract!Init, CacheOutcome
<1>2. CIInv /\ CIInv' /\ NeededInv /\ [CINext]_ciVars => Steps
  BY CIStepsContract
<1> HIDE DEF Steps
<1>3. CISpec => [][Steps]_ciVars
  BY CIInvariant, OnlyNeededPrepared, <1>2, PTL DEF CISpec
<1> QED BY <1>1, <1>3, PTL DEF CISpec, CIImplementsContract, Steps

=============================================================================
