----------------------------- MODULE ReceiptWalk -----------------------------
(***************************************************************************)
(* completeReceipts (pkg/push/complete.go) as it is written: walk visits   *)
(* the Results of a batch and asks complete about each uploaded one, and   *)
(* complete asks about the MissingRefResults of a path with a memo that    *)
(* says TRUE of a path still being decided.  Both are recursive, and here  *)
(* a machine with a stack for each: a call and a return is a step.         *)
(*                                                                         *)
(* PrepareClosure defines the set that comes out, and the push and the CI  *)
(* run take it in one step.  The order in which the code takes results and *)
(* references is that of a list; here it is any.                           *)
(***************************************************************************)
EXTENDS PrepareClosure, Integers, SequencesExt

VARIABLES
  place,     \* where completeReceipts is: "outside", "walking", "returned"
  uploaded,  \* the keys of byPath
  rest,      \* results the last loop has not come to
  seen,      \* the map of that name
  walks,     \* the calls of walk under way, the innermost last
  toWalk,    \* what the loop of walk(p) has not come to
  memo,      \* the map of that name, "absent" without an entry
  asks,      \* the calls of complete under way, the innermost last
  toAsk,     \* what the loop of complete(p) has not come to
  spoiled,   \* the paths p for which ok is false in complete(p)
  receipts,  \* the paths of the receipts to be returned
  withheld   \* `excluded' of completeReceipts

walkData == <<uploaded, rest, seen, walks, toWalk>>
askData == <<memo, asks, toAsk, spoiled>>
answers == <<receipts, withheld>>
walkVars == <<place, walkData, askData, answers>>

-----------------------------------------------------------------------------

(* FAULT: the answer is returned but the in-progress mark stays.           *)
DecideWithoutMemo(p) == memo

(* memo[r] = ok, at the end of complete(p).                                *)
Decide(p) ==
  [memo EXCEPT ![p] = IF p \in spoiled THEN "incomplete" ELSE "complete"]

(* What walk(p) does with the answer to complete(p).                       *)
Answered(p, good) ==
  /\ receipts' = IF good THEN receipts \cup {p} ELSE receipts
  /\ withheld' = IF good THEN withheld ELSE withheld \cup {p}

(* What the loop of complete(p) does with an answer.                       *)
Hear(p, good) == spoiled' = IF good THEN spoiled ELSE spoiled \cup {p}

(* complete(p) finds no entry: it marks p and begins.                      *)
BeginComplete(p) ==
  /\ memo[p] = "absent"
  /\ memo' = [memo EXCEPT ![p] = "complete"]
  /\ asks' = Append(asks, p)

(* walk(p), up to its loop or the call of complete(p).                     *)
BeginWalk(p) ==
  \/ /\ p \in seen
     /\ UNCHANGED <<seen, walks, memo, asks, answers>>
  \/ /\ p \notin seen
     /\ seen' = seen \cup {p}
     /\ walks' = Append(walks, p)
     /\ \/ p \notin uploaded /\ UNCHANGED <<memo, asks, answers>>
        \/ p \in uploaded /\ BeginComplete(p) /\ UNCHANGED answers
        \/ /\ p \in uploaded /\ memo[p] # "absent"
           /\ Answered(p, memo[p] = "complete")
           /\ UNCHANGED <<memo, asks>>

(* completeReceipts is called for the batch, whatever was uploaded of it.  *)
(* What a call of walk or of complete starts with is set here for each     *)
(* path, since there is at most one call that gets that far.               *)
BeginReceipts ==
  /\ place = "outside" /\ PrepareDone
  /\ place' = "walking"
  /\ uploaded' \in SUBSET visited
  /\ rest' = roots
  /\ toWalk' = attached /\ toAsk' = attached
  /\ spoiled' = Path \ uploaded'
  /\ UNCHANGED <<seen, walks, memo, asks, answers>>

(* The loop over the results.                                              *)
NextResult ==
  /\ place = "walking" /\ walks = <<>>
  /\ \E r \in rest : rest' = rest \ {r} /\ BeginWalk(r)
  /\ UNCHANGED <<place, uploaded, toWalk, toAsk, spoiled>>

(* The loop of walk, when complete has answered.                           *)
NextWalkRef ==
  /\ asks = <<>> /\ walks # <<>>
  /\ \E q \in toWalk[Last(walks)] :
       /\ toWalk' = [toWalk EXCEPT ![Last(walks)] = @ \ {q}]
       /\ BeginWalk(q)
  /\ UNCHANGED <<place, uploaded, rest, toAsk, spoiled>>

WalkReturns ==
  /\ asks = <<>> /\ walks # <<>>
  /\ toWalk[Last(walks)] = {}
  /\ walks' = Front(walks)
  /\ UNCHANGED <<place, uploaded, rest, seen, toWalk, askData, answers>>

(* The loop of complete: it asks about a reference, and has an answer at   *)
(* once when there is an entry for it.                                     *)
NextAskRef ==
  /\ asks # <<>>
  /\ \E q \in toAsk[Last(asks)] :
       /\ toAsk' = [toAsk EXCEPT ![Last(asks)] = @ \ {q}]
       /\ \/ BeginComplete(q) /\ UNCHANGED spoiled
          \/ /\ memo[q] # "absent"
             /\ Hear(Last(asks), memo[q] = "complete")
             /\ UNCHANGED <<memo, asks>>
  /\ UNCHANGED <<place, walkData, answers>>

(* complete(p) returns to the complete that asked, or to walk(p).          *)
CompleteReturns ==
  /\ asks # <<>>
  /\ toAsk[Last(asks)] = {}
  /\ memo' = Decide(Last(asks))
  /\ asks' = Front(asks)
  /\ LET good == Last(asks) \notin spoiled
     IN  \/ /\ Len(asks) = 1
            /\ Answered(Last(asks), good) /\ UNCHANGED spoiled
         \/ /\ Len(asks) > 1
            /\ Hear(asks[Len(asks) - 1], good) /\ UNCHANGED answers
  /\ UNCHANGED <<place, walkData, toAsk>>

ReceiptsReturned ==
  /\ place = "walking" /\ walks = <<>> /\ rest = {}
  /\ place' = "returned"
  /\ UNCHANGED <<walkData, askData, answers>>

WalkStep ==
  \/ BeginReceipts \/ NextResult \/ NextWalkRef \/ WalkReturns
  \/ NextAskRef \/ CompleteReturns \/ ReceiptsReturned

NoneLeft == [p \in Path |-> {}]
NoMemo == [p \in Path |-> "absent"]

WalkInit ==
  /\ PrepInit
  /\ place = "outside" /\ uploaded = {} /\ rest = {} /\ seen = {}
  /\ walks = <<>> /\ asks = <<>> /\ spoiled = {}
  /\ toWalk = NoneLeft /\ toAsk = NoneLeft /\ memo = NoMemo
  /\ receipts = {} /\ withheld = {}

(* The next batch begins; the locals of the last call are gone.            *)
NextBatchBegins ==
  /\ place # "walking" /\ NextBatch
  /\ place' = "outside" /\ uploaded' = {} /\ rest' = {} /\ seen' = {}
  /\ walks' = <<>> /\ asks' = <<>> /\ spoiled' = {}
  /\ toWalk' = NoneLeft /\ toAsk' = NoneLeft /\ memo' = NoMemo
  /\ receipts' = {} /\ withheld' = {}

(* A batch is prepared, its receipts are sorted out, the next one follows. *)
WalkNext ==
  \/ place = "outside" /\ PrepareRefs /\ UNCHANGED walkVars
  \/ NextBatchBegins
  \/ WalkStep /\ UNCHANGED prepVars

WalkSpec == WalkInit /\ [][WalkNext]_<<prepVars, walkVars>>

-----------------------------------------------------------------------------

(* On the Results a preparation leaves, completeReceipts returns exactly   *)
(* the paths whose whole prepared closure was uploaded and excludes the    *)
(* other uploaded ones, whatever failed to upload and in whatever order    *)
(* roots and references come.                                              *)
WalkFindsCompletePaths ==
  place = "returned" =>
    /\ receipts = CompleteReceipts(uploaded)
    /\ withheld = uploaded \ receipts

-----------------------------------------------------------------------------

(* The calls under way.                                                    *)
Walking == {walks[i] : i \in 1..Len(walks)}
Asking == {asks[i] : i \in 1..Len(asks)}

(* complete is never asked about a path that it is deciding: the mark that *)
(* is to "terminate on reference cycles" is never read.                    *)
InProgressNeverAsked ==
  asks # <<>> => toAsk[Last(asks)] \cap Asking = {}

(* Type invariant.                                                         *)
WalkTypeOK ==
  /\ place \in {"outside", "walking", "returned"}
  /\ uploaded \in SUBSET Path /\ rest \in SUBSET Path /\ seen \in SUBSET Path
  /\ walks \in Seq(Path) /\ asks \in Seq(Path)
  /\ toWalk \in [Path -> SUBSET Path] /\ toAsk \in [Path -> SUBSET Path]
  /\ memo \in [Path -> {"absent", "complete", "incomplete"}]
  /\ spoiled \in SUBSET Path
  /\ receipts \in SUBSET Path /\ withheld \in SUBSET Path

(* The calls of complete form a path in the graph of Results, and each but *)
(* the innermost waits for the next alone.                                 *)
AskStackInv ==
  /\ \A i, j \in 1..Len(asks) : asks[i] = asks[j] => i = j
  /\ \A i \in 1..(Len(asks) - 1) :
       asks[i + 1] \in attached[asks[i]] \ toAsk[asks[i]]
  /\ \A i, j \in 1..Len(asks) :
       asks[j] \in attached[asks[i]] \ toAsk[asks[i]] => j = i + 1
  /\ \A p \in Asking : memo[p] = "complete"

(* What complete(p) knows of the references its loop has come to, and what *)
(* it has said once it has returned.                                       *)
MemoInv ==
  /\ \A p \in Path :
       /\ toAsk[p] \subseteq attached[p]
       /\ memo[p] = "absent" =>
            toAsk[p] = attached[p] /\ (p \in spoiled <=> p \notin uploaded)
  /\ \A p \in Asking :
       /\ \A q \in attached[p] \ toAsk[p] : memo[q] # "absent"
       /\ p \in spoiled <=>
            \/ p \notin uploaded
            \/ \E q \in attached[p] \ toAsk[p] : memo[q] = "incomplete"
  /\ \A p \in Path \ Asking :
       memo[p] # "absent" =>
         (memo[p] = "complete" <=> p \in CompleteReceipts(uploaded))

(* The paths walk has come to: what they lead to is walked or will be, and *)
(* the uploaded ones are sorted by what is true of them.                   *)
SeenInv ==
  /\ Walking \subseteq seen
  /\ roots \subseteq seen \cup rest
  /\ \A p \in Path \ seen : toWalk[p] = attached[p]
  /\ \A p \in seen : \A q \in attached[p] \ seen : p \in Walking /\ q \in toWalk[p]
  /\ asks # <<>> =>
       walks # <<>> /\ asks[1] = Last(walks) /\ asks[1] \in uploaded
  /\ receipts \cup withheld =
       {p \in seen \cap uploaded : asks # <<>> => p # asks[1]}
  /\ receipts \subseteq CompleteReceipts(uploaded)
  /\ withheld \cap CompleteReceipts(uploaded) = {}

(* The inductive invariant behind them.                                    *)
WalkInv ==
  /\ PrepInv /\ WalkTypeOK
  /\ uploaded \subseteq visited
  /\ place = "outside" =>
       /\ walks = <<>> /\ asks = <<>> /\ seen = {}
       /\ memo = NoMemo /\ receipts = {} /\ withheld = {}
  /\ place = "returned" => walks = <<>> /\ rest = {}
  /\ place # "outside" => AskStackInv /\ MemoInv /\ SeenInv

=============================================================================
