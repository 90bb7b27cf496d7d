--------------------------- MODULE SecretsProofs ---------------------------
(***************************************************************************)
(* Theorems about Secrets, for any number of callers, keys and values: one *)
(* for any number of processes, whatever goes wrong, and two for a process *)
(* alone, when no read of the file fails.                                  *)
(***************************************************************************)
EXTENDS Secrets, TLAPS

CallsOK == op \in [Caller -> CallType] /\ \A c \in Caller : CallWarned(op[c])

LEMMA PlainInitInv == Init => PlainInv
<1> SUFFICES ASSUME Init PROVE PlainInv
  OBVIOUS
<1>1. Blank \in FileType /\ NoCall \in CallType
  BY DEF Blank, NoValues, FileType, NoCall, CallType, Stages
<1>2. Warned(Blank.vals)
  BY DEF Warned, Blank, NoValues
<1>3. CallWarned(NoCall)
  BY <1>2 DEF CallWarned, NoCall
<1>4. TypeOK
  <2>1. kcVal \in [Key -> Val \cup {None}]
    BY DEF Init, NoValues
  <2>2. garbled \in BOOLEAN
    BY FaultsAssumption DEF Init
  <2>3. mine \in [Process -> [Key -> Val \cup {None, Unknown}]]
    BY DEF Init
  <2> QED BY <1>1, <2>1, <2>2, <2>3 DEF Init, TypeOK
<1> QED BY <1>2, <1>3, <1>4 DEF Init, PlainInv

(* A caller moves on; the others stay where they are, and what has been    *)
(* warned about stays warned about.                                        *)
LEMMA OneCall ==
  ASSUME CallsOK, NEW c \in Caller, NEW call \in CallType,
         op' = [op EXCEPT ![c] = call], exposed \subseteq exposed', CallWarned(call)'
  PROVE  CallsOK'
<1>1. \A d \in Caller : CallWarned(op[d])'
  <2> TAKE d \in Caller
  <2>1. CASE d = c
    BY <2>1 DEF CallsOK, CallWarned, Warned
  <2>2. CASE d # c
    BY <2>2 DEF CallsOK, CallWarned, Warned
  <2> QED BY <2>1, <2>2
<1> QED BY <1>1 DEF CallsOK

LEMMA GotoCall ==
  ASSUME CallsOK, NEW c \in Caller, NEW s \in Stages, Goto(c, s), UNCHANGED <<exposed, moved>>,
         op[c].at # "idle",
         s \in {"file", "write"} /\ Setting(c) => <<op[c].key, op[c].val>> \in exposed
  PROVE  CallsOK'
<1>1. CASE s = "idle"
  <2>1. NoCall \in CallType
    BY DEF Blank, NoValues, FileType, NoCall, CallType, Stages
  <2>2. CallWarned(NoCall)'
    BY DEF CallWarned, NoCall, Warned, Blank, NoValues
  <2>3. op' = [op EXCEPT ![c] = NoCall]
    BY <1>1 DEF Goto
  <2> QED BY <2>1, <2>2, <2>3, OneCall
<1>2. CASE s # "idle"
  <2> DEFINE call == [op[c] EXCEPT !.at = s]
  <2>1. call \in CallType
    BY DEF CallsOK, CallType
  <2>2. CallWarned(op[c]) /\ op[c] \in CallType
    BY DEF CallsOK
  <2>3. /\ call.at = s /\ call.key = op[c].key /\ call.val = op[c].val
        /\ call.seen = op[c].seen
    BY <2>2 DEF CallType
  <2>4. op' = [op EXCEPT ![c] = call]
    BY <1>2 DEF Goto
  <2>5. ASSUME NEW r \in CallType, r = call PROVE CallWarned(r)'
    BY <2>2, <2>3, <2>5 DEF CallWarned, Warned, Setting
  <2> HIDE DEF call
  <2>6. PICK r \in CallType : r = call
    BY <2>1
  <2> QED BY <2>4, <2>5, <2>6, OneCall
<1> QED BY <1>1, <1>2

LEMMA LoadCall ==
  ASSUME PlainInv, NEW c \in Caller, NEW s \in Stages, Load(c, s), UNCHANGED <<exposed, moved>>,
         op[c].at # "idle",
         s \in {"file", "write"} /\ Setting(c) => <<op[c].key, op[c].val>> \in exposed
  PROVE  CallsOK' /\ discard' \in [Caller -> BOOLEAN]
<1> DEFINE call == [op[c] EXCEPT !.at = s, !.seen = file]
<1>1. CallsOK /\ op[c] \in CallType /\ CallWarned(op[c])
  BY DEF CallsOK, PlainInv, TypeOK
<1>2. call \in CallType
  BY <1>1 DEF CallType, PlainInv, TypeOK
<1>3. /\ call.at = s /\ call.key = op[c].key /\ call.val = op[c].val
      /\ call.seen = file
  BY <1>1 DEF CallType
<1>4. op' = [op EXCEPT ![c] = call]
  BY DEF Load
<1>5. ASSUME NEW r \in CallType, r = call PROVE CallWarned(r)'
  BY <1>1, <1>3, <1>5 DEF CallWarned, Warned, Setting, PlainInv
<1>6. discard' \in [Caller -> BOOLEAN]
  BY DEF Load, PlainInv, TypeOK
<1> HIDE DEF call
<1>7. PICK r \in CallType : r = call
  BY <1>2
<1> QED BY <1>1, <1>4, <1>5, <1>6, <1>7, OneCall

LEMMA ReturnCall ==
  ASSUME PlainInv, NEW c \in Caller, Return(c), op[c].at # "idle"
  PROVE  /\ CallsOK' /\ UNCHANGED <<exposed, moved>>
         /\ mine' \in [Process -> [Key -> Val \cup {None, Unknown}]]
         /\ gone' \in SUBSET Key
<1>1. UNCHANGED <<exposed, moved>> /\ Goto(c, "idle")
  BY DEF Return
<1>2. CallsOK /\ "idle" \in Stages
  BY DEF PlainInv, TypeOK, CallsOK, Stages
<1>3. CallsOK'
  BY <1>1, <1>2, GotoCall
<1>4. op[c].key \in Key /\ op[c].val \in Val \cup {None}
  BY DEF PlainInv, TypeOK, CallWarned, CallType
<1>5. gone' \in SUBSET Key
  BY <1>4 DEF Return, PlainInv, TypeOK
<1>6. mine' \in [Process -> [Key -> Val \cup {None, Unknown}]]
  <2>1. Home[c] \in Process
    BY HomeAssumption
  <2>2. mine' = [mine EXCEPT ![Home[c]] = [mine[Home[c]] EXCEPT ![op[c].key] = op[c].val]]
    BY DEF Return
  <2>3. [mine[Home[c]] EXCEPT ![op[c].key] = op[c].val] \in [Key -> Val \cup {None, Unknown}]
    BY <1>4, <2>1 DEF PlainInv, TypeOK
  <2> QED BY <2>1, <2>2, <2>3 DEF PlainInv, TypeOK
<1> QED BY <1>1, <1>3, <1>5, <1>6

LEMMA TakeIndexCall ==
  ASSUME PlainInv, NEW c \in Caller, NEW idx \in SUBSET Key, TakeIndex(c, idx),
         op[c].at # "idle"
  PROVE  /\ CallsOK' /\ UNCHANGED <<exposed, moved>>
         /\ mine' \in [Process -> [Key -> Val \cup {None, Unknown}]]
         /\ gone' \in SUBSET Key
<1>1. CASE IndexAfter(c, idx) = idx
  BY <1>1, ReturnCall DEF TakeIndex
<1>2. CASE IndexAfter(c, idx) # idx
  <2> DEFINE call == [op[c] EXCEPT !.at = "update", !.keys = IndexAfter(c, idx)]
  <2>1. CallsOK /\ op[c] \in CallType /\ CallWarned(op[c])
    BY DEF CallsOK, PlainInv, TypeOK
  <2>2. IndexAfter(c, idx) \in SUBSET Key
    BY <2>1 DEF IndexAfter, CallWarned
  <2>3. call \in CallType
    BY <2>1, <2>2 DEF CallType, Stages
  <2>4. call.at = "update" /\ call.key = op[c].key /\ call.seen = op[c].seen
    BY <2>1 DEF CallType
  <2>5. op' = [op EXCEPT ![c] = call] /\ UNCHANGED history
    BY <1>2 DEF TakeIndex
  <2>6. ASSUME NEW r \in CallType, r = call PROVE CallWarned(r)'
    BY <2>1, <2>4, <2>5, <2>6 DEF CallWarned, Warned, history
  <2> HIDE DEF call
  <2>7. PICK r \in CallType : r = call
    BY <2>3
  <2>8. CallsOK'
    BY <2>1, <2>5, <2>6, <2>7, OneCall DEF history
  <2> QED BY <2>5, <2>8 DEF history, PlainInv, TypeOK
<1> QED BY <1>1, <1>2

(* Every step of a caller, and the end of a process, keep the invariant.   *)
LEMMA PlainStepInv == PlainInv /\ [Next]_vars => PlainInv'
<1> SUFFICES ASSUME PlainInv, [Next]_vars PROVE PlainInv'
  OBVIOUS
<1>0. CallsOK
  BY DEF PlainInv, TypeOK, CallsOK
<1>1. ASSUME NEW c \in Caller, NEW k \in Key, NEW v \in Val \cup {None}, Begin(c, k, v)
      PROVE  PlainInv'
  <2> DEFINE s == IF available[Home[c]] THEN "keychain" ELSE "file"
             call == [at |-> s, key |-> k, val |-> v, seen |-> Blank, keys |-> {}]
  <2>1. /\ call.at = s /\ call.key = k /\ call.val = v
        /\ call.seen.vals = NoValues
    BY DEF Blank
  <2>2. call \in CallType
    BY DEF CallType, Stages, FileType, Blank, NoValues
  <2>3. exposed \subseteq exposed' /\ exposed' \in SUBSET (Key \X Val)
    BY <1>1 DEF Begin, PlainInv, TypeOK
  <2>4. ASSUME NEW r \in CallType, r = call PROVE CallWarned(r)'
    <3>1. Warned(r.seen.vals)'
      BY <2>1, <2>4 DEF Warned, NoValues
    <3>2. r.at \in {"file", "write"} /\ r.val # None => <<r.key, r.val>> \in exposed'
      BY <1>1, <2>1, <2>4 DEF Begin
    <3> QED BY <2>1, <2>4, <3>1, <3>2 DEF CallWarned
  <2>5. op' = [op EXCEPT ![c] = call]
    BY <1>1 DEF Begin
  <2> HIDE DEF call
  <2>6. PICK r \in CallType : r = call
    BY <2>2
  <2>7. CallsOK'
    BY <1>0, <2>3, <2>4, <2>5, <2>6, OneCall
  <2>8. mine' \in [Process -> [Key -> Val \cup {None, Unknown}]] /\ gone' \in SUBSET Key
    BY <1>1 DEF Begin, PlainInv, TypeOK
  <2>9. Warned(file.vals)'
    BY <1>1, <2>3 DEF Begin, disk, Warned, PlainInv
  <2> QED BY <1>1, <2>3, <2>7, <2>8, <2>9 DEF Begin, keychain, disk, CallsOK, PlainInv, TypeOK
<1>2. ASSUME NEW c \in Caller, CallKeychain(c) PROVE PlainInv'
  <2>1. op[c].at = "keychain" /\ op[c].key \in Key /\ op[c].val \in Val \cup {None}
    BY <1>0, <1>2 DEF CallKeychain, At, CallsOK, CallWarned, CallType
  <2>2. kcVal' \in [Key -> Val \cup {None}]
    BY <1>2, <2>1 DEF CallKeychain, Put, PlainInv, TypeOK
  <2>3. UNCHANGED <<exposed, moved>>
    BY <1>2 DEF CallKeychain, history
  <2>4. CallsOK'
    <3>1. CASE Goto(c, AfterKeychain(c))
      BY <1>0, <2>1, <2>3, <3>1, GotoCall DEF AfterKeychain, Stages
    <3>2. CASE Goto(c, AfterRefusal(c))
      BY <1>0, <2>1, <2>3, <3>2, GotoCall DEF AfterRefusal, Stages
    <3> QED BY <1>2, <3>1, <3>2 DEF CallKeychain
  <2> QED BY <1>2, <2>2, <2>3, <2>4 DEF CallKeychain, disk, history, CallsOK, PlainInv, TypeOK, Warned
<1>3. ASSUME NEW c \in Caller, ReadFile(c) PROVE PlainInv'
  <2>1. op[c].at = "file" /\ (Setting(c) => <<op[c].key, op[c].val>> \in exposed)
    BY <1>0, <1>3 DEF ReadFile, At, CallsOK, CallWarned, Setting
  <2>2. UNCHANGED <<exposed, moved>>
    BY <1>3 DEF ReadFile, history
  <2>3. CallsOK' /\ discard' \in [Caller -> BOOLEAN]
    <3>1. CASE Load(c, "write")
      BY <2>1, <2>2, <3>1, LoadCall DEF Stages
    <3>2. CASE Goto(c, IF Setting(c) THEN "idle" ELSE "index") /\ UNCHANGED discard
      BY <1>0, <2>1, <2>2, <3>2, GotoCall DEF Stages, PlainInv, TypeOK
    <3> QED BY <1>3, <3>1, <3>2 DEF ReadFile
  <2> QED BY <1>3, <2>2, <2>3 DEF ReadFile, keychain, disk, history, CallsOK, PlainInv, TypeOK, Warned
<1>4. ASSUME NEW c \in Caller, NothingToRemove(c) PROVE PlainInv'
  <2>1. UNCHANGED <<exposed, moved>>
    BY <1>4 DEF NothingToRemove, history
  <2>2. CallsOK'
    BY <1>0, <1>4, <2>1, GotoCall DEF NothingToRemove, At, Stages
  <2> QED BY <1>4, <2>1, <2>2 DEF NothingToRemove, keychain, disk, history, CallsOK, PlainInv, TypeOK, Warned
<1>5. ASSUME NEW c \in Caller, WriteFile(c) PROVE PlainInv'
  <2>1. /\ op[c] \in CallType /\ op[c].key \in Key /\ Warned(op[c].seen.vals)
        /\ op[c].at = "write"
        /\ Setting(c) => <<op[c].key, op[c].val>> \in exposed
    BY <1>0, <1>5 DEF WriteFile, At, CallsOK, CallWarned, Setting
  <2>2. UNCHANGED <<exposed, moved>>
    BY <1>5 DEF WriteFile, history
  <2>3. Merged(c) \in [Key -> Val \cup {None}]
    BY <2>1 DEF Merged, Put, CallType, FileType
  <2>4. Warned(Merged(c))
    BY <2>1 DEF Merged, Put, Warned, Setting, CallType, FileType
  <2>5. file' \in FileType /\ garbled' \in BOOLEAN /\ Warned(file.vals)'
    <3>1. CASE UNCHANGED disk
      BY <2>2, <3>1 DEF disk, PlainInv, TypeOK, Warned
    <3>2. CASE file' = [op[c].seen EXCEPT !.vals = Merged(c)] /\ garbled' = FALSE
      <4>1. file' \in FileType /\ file'.vals = Merged(c)
        BY <2>1, <2>3, <3>2 DEF CallType, FileType
      <4>2. \A k \in Key : file'.vals[k] = Merged(c)[k]
        BY <4>1
      <4>3. Warned(file.vals)'
        BY <2>2, <2>4, <4>2 DEF Warned
      <4> QED BY <3>2, <4>1, <4>3
    <3> QED BY <1>5, <3>1, <3>2 DEF WriteFile
  <2>6. CallsOK'
    BY <1>0, <1>5, <2>1, <2>2, GotoCall DEF WriteFile, Stages
  <2> QED BY <1>5, <2>2, <2>5, <2>6 DEF WriteFile, keychain, history, CallsOK, PlainInv, TypeOK
<1>6. ASSUME NEW c \in Caller, ReadIndex(c) PROVE PlainInv'
  <2>1. op[c].at = "index" /\ kcKeys \in (SUBSET Key) \cup {NoIndex}
    BY <1>6 DEF ReadIndex, At, PlainInv, TypeOK
  <2>2. /\ CallsOK' /\ UNCHANGED <<exposed, moved>>
        /\ mine' \in [Process -> [Key -> Val \cup {None, Unknown}]]
        /\ gone' \in SUBSET Key
    <3>1. CASE kcKeys # NoIndex /\ TakeIndex(c, kcKeys)
      BY <2>1, <3>1, TakeIndexCall
    <3>2. CASE TakeIndex(c, {})
      BY <2>1, <3>2, TakeIndexCall
    <3>3. CASE Goto(c, "file_index") /\ UNCHANGED history
      BY <1>0, <2>1, <3>3, GotoCall DEF history, Stages, PlainInv, TypeOK
    <3> QED BY <1>6, <3>1, <3>2, <3>3 DEF ReadIndex
  <2> QED BY <1>6, <2>2 DEF ReadIndex, keychain, disk, CallsOK, PlainInv, TypeOK, Warned
<1>7. ASSUME NEW c \in Caller, ReadFileIndex(c) PROVE PlainInv'
  <2>1. op[c].at = "file_index" /\ file.keys \in SUBSET Key
    BY <1>7 DEF ReadFileIndex, At, PlainInv, TypeOK, FileType
  <2>2. /\ CallsOK' /\ UNCHANGED <<exposed, moved>>
        /\ mine' \in [Process -> [Key -> Val \cup {None, Unknown}]]
        /\ gone' \in SUBSET Key
    <3>1. CASE TakeIndex(c, file.keys)
      BY <2>1, <3>1, TakeIndexCall
    <3>2. CASE TakeIndex(c, {})
      BY <2>1, <3>2, TakeIndexCall
    <3> QED BY <1>7, <3>1, <3>2 DEF ReadFileIndex
  <2>3. discard' \in [Caller -> BOOLEAN]
    BY <1>7 DEF ReadFileIndex, PlainInv, TypeOK
  <2> QED BY <1>7, <2>2, <2>3 DEF ReadFileIndex, keychain, disk, CallsOK, PlainInv, TypeOK, Warned
<1>8. ASSUME NEW c \in Caller, UpdateKeychainIndex(c) PROVE PlainInv'
  <2>1. op[c].at = "update" /\ op[c] \in CallType
    BY <1>0, <1>8 DEF UpdateKeychainIndex, At, CallsOK
  <2>2. kcKeys' \in (SUBSET Key) \cup {NoIndex}
    BY <1>8, <2>1 DEF UpdateKeychainIndex, CallType, PlainInv, TypeOK
  <2>3. /\ CallsOK' /\ UNCHANGED <<exposed, moved>>
        /\ mine' \in [Process -> [Key -> Val \cup {None, Unknown}]]
        /\ gone' \in SUBSET Key
    BY <1>8, <2>1, ReturnCall DEF UpdateKeychainIndex
  <2> QED BY <1>8, <2>2, <2>3 DEF UpdateKeychainIndex, disk, CallsOK, PlainInv, TypeOK, Warned
<1>9. ASSUME NEW c \in Caller, UpdateFileIndex(c) PROVE PlainInv'
  <2>1. op[c].at = "update"
    BY <1>9 DEF UpdateFileIndex, At
  <2>2. /\ CallsOK' /\ UNCHANGED <<exposed, moved>> /\ discard' \in [Caller -> BOOLEAN]
        /\ mine' \in [Process -> [Key -> Val \cup {None, Unknown}]]
        /\ gone' \in SUBSET Key
    <3>1. CASE Load(c, "rewrite") /\ UNCHANGED history
      BY <2>1, <3>1, LoadCall DEF history, Stages, PlainInv, TypeOK
    <3>2. CASE Return(c) /\ UNCHANGED discard
      BY <2>1, <3>2, ReturnCall DEF PlainInv, TypeOK
    <3> QED BY <1>9, <3>1, <3>2 DEF UpdateFileIndex
  <2> QED BY <1>9, <2>2 DEF UpdateFileIndex, keychain, disk, CallsOK, PlainInv, TypeOK, Warned
<1>10. ASSUME NEW c \in Caller, RewriteFile(c) PROVE PlainInv'
  <2>1. op[c].at = "rewrite" /\ op[c] \in CallType /\ Warned(op[c].seen.vals)
    BY <1>0, <1>10 DEF RewriteFile, At, CallsOK, CallWarned
  <2>2. /\ CallsOK' /\ UNCHANGED <<exposed, moved>>
        /\ mine' \in [Process -> [Key -> Val \cup {None, Unknown}]]
        /\ gone' \in SUBSET Key
    BY <1>10, <2>1, ReturnCall DEF RewriteFile
  <2>3. file' \in FileType /\ garbled' \in BOOLEAN /\ Warned(file.vals)'
    <3>1. CASE UNCHANGED disk
      BY <2>2, <3>1 DEF disk, PlainInv, TypeOK, Warned
    <3>2. CASE file' = [op[c].seen EXCEPT !.keys = op[c].keys] /\ garbled' = FALSE
      <4>1. file' \in FileType /\ file'.vals = op[c].seen.vals
        BY <2>1, <3>2 DEF CallType, FileType
      <4>2. \A k \in Key : file'.vals[k] = op[c].seen.vals[k]
        BY <4>1
      <4>3. Warned(file.vals)'
        BY <2>1, <2>2, <4>2 DEF Warned
      <4> QED BY <3>2, <4>1, <4>3
    <3> QED BY <1>10, <3>1, <3>2 DEF RewriteFile
  <2> QED BY <1>10, <2>2, <2>3 DEF RewriteFile, keychain, CallsOK, PlainInv, TypeOK
<1>11. ASSUME NEW c \in Caller, ReaderFindsGarbled(c) PROVE PlainInv'
  BY <1>11 DEF ReaderFindsGarbled, keychain, disk, history, PlainInv, TypeOK, Warned, CallWarned
<1>12. ASSUME NEW c \in Caller, Discard(c) PROVE PlainInv'
  <2>1. Blank \in FileType /\ Warned(Blank.vals)'
    BY DEF Blank, NoValues, FileType, Warned
  <2>2. discard' \in [Caller -> BOOLEAN] /\ garbled' \in BOOLEAN
    BY <1>12 DEF Discard, PlainInv, TypeOK
  <2>3. moved' \in SUBSET Process
    BY <1>12 DEF Discard, PlainInv, TypeOK
  <2> QED BY <1>12, <2>1, <2>2, <2>3 DEF Discard, keychain, PlainInv, TypeOK, Warned, CallWarned
<1>13. ASSUME NEW p \in Process, Restart(p) PROVE PlainInv'
  <2>1. NoCall \in CallType /\ CallWarned(NoCall)'
    BY DEF Blank, NoValues, FileType, NoCall, CallType, Stages, CallWarned, Warned
  <2>2. UNCHANGED <<keychain, disk, gone, exposed>> /\ moved' \in SUBSET Process
    BY <1>13 DEF Restart, PlainInv, TypeOK
  <2>3. op' = [c \in Caller |-> IF Home[c] = p THEN NoCall ELSE op[c]]
    BY <1>13 DEF Restart
  <2>4. op' \in [Caller -> CallType]
    BY <2>1, <2>3 DEF PlainInv, TypeOK
  <2>5. \A c \in Caller : CallWarned(op[c])'
    <3> TAKE c \in Caller
    <3>1. CASE Home[c] = p
      BY <2>1, <2>3, <3>1 DEF CallWarned, Warned
    <3>2. CASE Home[c] # p
      BY <2>2, <2>3, <3>2 DEF CallWarned, Warned, PlainInv
    <3> QED BY <3>1, <3>2
  <2>6. discard' \in [Caller -> BOOLEAN] /\ available' \in [Process -> BOOLEAN]
    BY <1>13 DEF Restart, PlainInv, TypeOK
  <2>7. mine' \in [Process -> [Key -> Val \cup {None, Unknown}]]
    BY <1>13 DEF Restart, PlainInv, TypeOK
  <2> QED BY <2>2, <2>4, <2>5, <2>6, <2>7 DEF keychain, disk, PlainInv, TypeOK, Warned
<1>14. CASE UNCHANGED vars
  BY <1>14 DEF vars, keychain, disk, history, PlainInv, TypeOK, Warned, CallWarned
<1> QED
  BY <1>1, <1>2, <1>3, <1>4, <1>5, <1>6, <1>7, <1>8, <1>9, <1>10, <1>11, <1>12, <1>13, <1>14
  DEF Next, Step

(* The inductive invariant holds in every reachable state.                 *)
THEOREM PlainInvariant == Spec => []PlainInv
<1> QED BY PlainInitInv, PlainStepInv, PTL DEF Spec

(* The secrets, the locals of the calls and the histories keep their types.*)
THEOREM SecretsTypeCorrect == Spec => []TypeOK
<1>1. PlainInv => TypeOK
  BY DEF PlainInv
<1> QED BY <1>1, PlainInvariant, PTL

(* Whatever fails, crashes or is interleaved, and however many processes   *)
(* write their copies of the file over each other: what secrets.json holds *)
(* was stored by a process that saw no keychain and has warned about it.   *)
THEOREM PlaintextAlwaysWarned == Spec => []PlaintextOnlyWithWarning
<1>1. PlainInv => PlaintextOnlyWithWarning
  BY DEF PlainInv, Warned, PlaintextOnlyWithWarning
<1> QED BY <1>1, PlainInvariant, PTL

-----------------------------------------------------------------------------
(* One process p alone: its mutex leaves one call at a time, which finds   *)
(* the file as it has read it, or moved away by a reader.                  *)

Late == {"index", "file_index", "update", "rewrite"}

Busy(c) == c \notin Reader /\ (op[c].at # "idle" \/ discard[c])

(* What a call r knows of the stores: where they have been changed for it, *)
(* and that a copy of the file brings nothing deleted back.                *)
Working(p, r) ==
  /\ r.key \in Key /\ mine[p][r.key] = Unknown
  /\ r.val # None => r.key \notin gone
  /\ \A k \in gone : r.seen.vals[k] = None
  /\ IF available[p]
     THEN r.at # "rewrite" /\ (r.val # None => r.at \notin {"file", "write"})
     ELSE r.at # "keychain"
  /\ r.at \in {"write", "rewrite"} =>
       /\ \A k \in Key : file.vals[k] \in {None, r.seen.vals[k]}
       /\ p \notin moved => file.vals = r.seen.vals
  /\ r.val = None /\ available[p] /\ r.at # "keychain" => kcVal[r.key] = None
  /\ r.val = None /\ r.at \in Late => file.vals[r.key] = None
  /\ r.val # None /\ r.at \in Late /\ available[p] => kcVal[r.key] = r.val
  /\ r.val # None /\ r.at \in Late /\ ~available[p] /\ p \notin moved =>
       file.vals[r.key] = r.val

SerialInv(p) ==
  /\ \A c \in Reader : op[c].at = "idle"
  /\ \A c, d \in Caller : Busy(c) /\ Busy(d) => c = d
  /\ \A c \in Caller : op[c].at # "idle" => Working(p, op[c])
  /\ DeletedIsGone
  /\ OwnWritesRead

Alone(p) == Process = {p} /\ "file_read" \notin Faults

LEMMA AloneHome ==
  ASSUME NEW p, Alone(p)
  PROVE  p \in Process /\ \A c \in Caller : Home[c] = p
BY HomeAssumption DEF Alone

LEMMA SerialInitInv ==
  ASSUME NEW p, Init
  PROVE  SerialInv(p)
<1>1. \A c \in Caller : op[c].at = "idle" /\ ~discard[c]
  BY DEF Init, NoCall
<1>2. OwnWritesRead
  BY DEF Init, OwnWritesRead
<1>3. DeletedIsGone
  BY DEF Init, DeletedIsGone
<1> QED BY <1>1, <1>2, <1>3, HomeAssumption DEF SerialInv, Busy

(* The one call under way takes a step.                                    *)
LEMMA OneWorks ==
  ASSUME PlainInv, NEW p, SerialInv(p), NEW c \in Caller, op[c].at # "idle", NEW r,
         op' = [op EXCEPT ![c] = r], \A d \in Caller \ {c} : discard'[d] = discard[d],
         r.at # "idle" => Working(p, r)', DeletedIsGone', OwnWritesRead'
  PROVE  SerialInv(p)'
<1>1. c \notin Reader /\ Busy(c)
  BY DEF SerialInv, Busy
<1>2. op'[c] = r /\ \A d \in Caller \ {c} : op'[d] = op[d]
  BY DEF PlainInv, TypeOK
<1>3. \A d \in Caller \ {c} : op[d].at = "idle" /\ ~Busy(d)
  BY <1>1 DEF SerialInv, Busy
<1>4. \A d \in Caller : op'[d].at # "idle" => Working(p, op[d])'
  BY <1>2, <1>3 DEF Working
<1>5. \A d \in Caller \ {c} : ~Busy(d)'
  BY <1>2, <1>3 DEF Busy
<1>6. \A d \in Reader : op'[d].at = "idle"
  BY <1>1, <1>2, <1>3, HomeAssumption DEF SerialInv
<1> QED BY <1>4, <1>5, <1>6 DEF SerialInv

(* It goes on without having changed anything.                             *)
LEMMA GoesOn ==
  ASSUME PlainInv, NEW p, SerialInv(p), NEW c \in Caller, op[c].at # "idle", Alone(p),
         UNCHANGED <<kcVal, file, available, history>>, NEW s \in Stages, Goto(c, s),
         \A d \in Caller \ {c} : discard'[d] = discard[d],
         \/ s = "idle"
         \/ op[c].at \in Late \ {"rewrite"} /\ s \in Late \ {"rewrite"}
         \/ op[c].at = "write" /\ s = "index" /\ op[c].val = None /\ op[c].seen.vals[op[c].key] = None
  PROVE  SerialInv(p)'
<1>1. PICK w : w = op[c]
  OBVIOUS
<1>2. w \in CallType /\ Working(p, w) /\ DeletedIsGone /\ OwnWritesRead
  BY <1>1 DEF PlainInv, TypeOK, SerialInv
<1>3. DeletedIsGone' /\ OwnWritesRead'
  BY <1>2 DEF DeletedIsGone, OwnWritesRead, Found, history
<1>4. PICK r : r = IF s = "idle" THEN NoCall ELSE [w EXCEPT !.at = s]
  OBVIOUS
<1>5. op' = [op EXCEPT ![c] = r]
  BY <1>1, <1>4 DEF Goto
<1>6. ASSUME r.at # "idle"
      PROVE  Working(p, r)'
  <2>1. s # "idle"
    BY <1>4, <1>6 DEF NoCall
  <2>2. r.at = s /\ r.key = w.key /\ r.val = w.val /\ r.seen = w.seen
    BY <1>2, <1>4, <2>1 DEF CallType
  <2> QED BY <1>1, <1>2, <2>1, <2>2 DEF Working, Late, history
<1> QED BY <1>3, <1>5, <1>6, OneWorks

(* It returns without an error.                                            *)
LEMMA Returns ==
  ASSUME PlainInv, NEW p, SerialInv(p), NEW c \in Caller, op[c].at \in Late, Alone(p),
         Return(c), UNCHANGED <<kcVal, available>>,
         \A d \in Caller \ {c} : discard'[d] = discard[d],
         p \notin moved \/ available[p] => file'.vals = file.vals,
         \A k \in gone : file'.vals[k] = None
  PROVE  SerialInv(p)'
<1>1. PICK w : w = op[c]
  OBVIOUS
<1>2. /\ w \in CallType /\ Working(p, w) /\ DeletedIsGone /\ OwnWritesRead
      /\ w.at \in Late /\ w.at # "idle" /\ w.key \in Key
  BY <1>1 DEF PlainInv, TypeOK, SerialInv, Late, Working
<1>3. /\ mine' = [mine EXCEPT ![p][w.key] = w.val] /\ moved' = moved
      /\ gone' = IF w.val # None \/ ~available[p] THEN gone ELSE gone \cup {w.key}
      /\ op' = [op EXCEPT ![c] = NoCall]
  BY <1>1, AloneHome DEF Return, Setting, Goto
<1>4. DeletedIsGone'
  <2>1. \A k \in gone : kcVal'[k] = None /\ file'.vals[k] = None
    BY <1>2 DEF DeletedIsGone
  <2>2. CASE w.val = None /\ available[p]
    <3>1. kcVal'[w.key] = None /\ file'.vals[w.key] = None
      BY <1>2, <2>2 DEF Working, Late
    <3> QED BY <1>3, <2>1, <3>1 DEF DeletedIsGone
  <2>3. CASE ~(w.val = None /\ available[p])
    BY <1>3, <2>1, <2>3 DEF DeletedIsGone
  <2> QED BY <2>2, <2>3
<1>5. OwnWritesRead'
  <2> SUFFICES ASSUME p \notin moved, NEW k \in Key, mine'[p][k] # Unknown
               PROVE  Found(p, k)' = mine'[p][k]
    BY <1>3 DEF OwnWritesRead, Alone
  <2>1. CASE k = w.key
    <3>1. mine'[p][k] = w.val
      BY <1>3, <2>1, AloneHome DEF PlainInv, TypeOK
    <3>2. file'.vals[k] = file.vals[k] /\ kcVal'[k] = kcVal[k]
      OBVIOUS
    <3> QED BY <1>2, <2>1, <3>1, <3>2 DEF Working, Found, Late
  <2>2. CASE k # w.key
    <3>1. mine'[p][k] = mine[p][k]
      BY <1>3, <2>2, AloneHome DEF PlainInv, TypeOK
    <3> QED BY <1>2, <3>1, AloneHome DEF OwnWritesRead, Found
  <2> QED BY <2>1, <2>2
<1>6. NoCall.at = "idle"
  BY DEF NoCall
<1> QED BY <1>1, <1>2, <1>3, <1>4, <1>5, <1>6, OneWorks

(* With the new index, or without a change of it.                          *)
LEMMA TakesIndex ==
  ASSUME PlainInv, NEW p, SerialInv(p), NEW c \in Caller, op[c].at \in {"index", "file_index"},
         Alone(p), NEW idx, TakeIndex(c, idx), UNCHANGED <<kcVal, file, available>>,
         \A d \in Caller \ {c} : discard'[d] = discard[d]
  PROVE  SerialInv(p)'
<1>1. CASE Return(c)
  <2>1. op[c].at \in Late /\ \A k \in gone : file'.vals[k] = None
    BY DEF Late, SerialInv, DeletedIsGone
  <2> QED BY <1>1, <2>1, Returns
<1>2. CASE ~Return(c)
  <2>1. PICK w, r : w = op[c] /\ r = [w EXCEPT !.at = "update", !.keys = IndexAfter(c, idx)]
    OBVIOUS
  <2>2. /\ w \in CallType /\ Working(p, w) /\ DeletedIsGone /\ OwnWritesRead
        /\ w.at \in Late \ {"rewrite"}
    BY <2>1 DEF PlainInv, TypeOK, SerialInv, Late
  <2>3. op' = [op EXCEPT ![c] = r] /\ UNCHANGED history
    BY <1>2, <2>1 DEF TakeIndex
  <2>4. DeletedIsGone' /\ OwnWritesRead'
    BY <2>2, <2>3 DEF DeletedIsGone, OwnWritesRead, Found, history
  <2>5. r.at = "update" /\ r.key = w.key /\ r.val = w.val /\ r.seen = w.seen
    BY <2>1, <2>2 DEF CallType
  <2>6. Working(p, r)'
    BY <2>2, <2>3, <2>5 DEF Working, Late, history
  <2> QED BY <2>1, <2>3, <2>4, <2>6, OneWorks
<1> QED BY <1>1, <1>2

(* It reads the file.                                                      *)
LEMMA Loads ==
  ASSUME PlainInv, NEW p, SerialInv(p), NEW c \in Caller, Alone(p), NEW s, Load(c, s),
         \/ op[c].at = "file" /\ s = "write"
         \/ op[c].at = "update" /\ s = "rewrite" /\ ~available[p],
         UNCHANGED <<kcVal, file, available, history>>
  PROVE  SerialInv(p)'
<1>1. PICK w, r : w = op[c] /\ r = [w EXCEPT !.at = s, !.seen = file]
  OBVIOUS
<1>2. w \in CallType /\ Working(p, w) /\ DeletedIsGone /\ OwnWritesRead
  BY <1>1 DEF PlainInv, TypeOK, SerialInv
<1>3. op' = [op EXCEPT ![c] = r] /\ \A d \in Caller \ {c} : discard'[d] = discard[d]
  BY <1>1 DEF Load, PlainInv, TypeOK
<1>4. DeletedIsGone' /\ OwnWritesRead'
  BY <1>2 DEF DeletedIsGone, OwnWritesRead, Found, history
<1>5. r.at = s /\ r.key = w.key /\ r.val = w.val /\ r.seen = file
  BY <1>1, <1>2 DEF CallType
<1>6. Working(p, r)'
  BY <1>1, <1>2, <1>5 DEF Working, Late, history, DeletedIsGone
<1> QED BY <1>1, <1>3, <1>4, <1>6, OneWorks

(* A call begins when the mutex is free.                                   *)
LEMMA Begins ==
  ASSUME PlainInv, NEW p, SerialInv(p), Alone(p), NEW c \in Caller,
         NEW k \in Key, NEW v \in Val \cup {None}, Begin(c, k, v)
  PROVE  SerialInv(p)'
<1>1. PICK r : r = [at |-> IF available[p] THEN "keychain" ELSE "file",
                    key |-> k, val |-> v, seen |-> Blank, keys |-> {}]
  OBVIOUS
<1>2. op' = [op EXCEPT ![c] = r]
  BY <1>1, AloneHome DEF Begin
<1>3. /\ r.at = (IF available[p] THEN "keychain" ELSE "file") /\ r.key = k /\ r.val = v
      /\ r.seen.vals = NoValues
  BY <1>1 DEF Blank
<1>4. mine' = [q \in Process |-> [mine[q] EXCEPT ![k] = Unknown]]
  BY DEF Begin
<1>5. /\ gone' \subseteq gone /\ (v # None => k \notin gone')
      /\ UNCHANGED <<kcVal, file, available, moved, discard>>
  BY DEF Begin, keychain, disk
<1>6. mine'[p][k] = Unknown /\ \A l \in Key \ {k} : mine'[p][l] = mine[p][l]
  BY <1>4, AloneHome DEF PlainInv, TypeOK
<1>7. Working(p, r)'
  BY <1>3, <1>5, <1>6, AloneHome DEF Working, Late, NoValues, PlainInv, TypeOK
<1>8. DeletedIsGone'
  BY <1>5 DEF SerialInv, DeletedIsGone
<1>9. OwnWritesRead'
  <2> SUFFICES ASSUME p \notin moved, NEW l \in Key, mine'[p][l] # Unknown
               PROVE  Found(p, l)' = mine'[p][l]
    BY <1>5 DEF OwnWritesRead, Alone
  <2> QED BY <1>5, <1>6, AloneHome DEF SerialInv, OwnWritesRead, Found
<1>10. \A d \in Caller : ~Busy(d)
  BY AloneHome DEF Begin, LockFree, At, Busy
<1>11. op'[c] = r /\ \A d \in Caller \ {c} : op'[d] = op[d] /\ op[d].at = "idle"
  BY <1>2, <1>10 DEF PlainInv, TypeOK, Busy, SerialInv
<1>12. \A d \in Caller \ {c} : ~Busy(d)'
  BY <1>5, <1>10, <1>11 DEF Busy
<1>13. \A d \in Reader : op'[d].at = "idle"
  BY <1>11, HomeAssumption DEF Begin, SerialInv
<1> QED BY <1>7, <1>8, <1>9, <1>11, <1>12, <1>13 DEF SerialInv

(* The keychain is asked first, for one key only.                          *)
LEMMA CallsKeychain ==
  ASSUME PlainInv, NEW p, SerialInv(p), Alone(p), NEW c \in Caller, CallKeychain(c)
  PROVE  SerialInv(p)'
<1>1. PICK w : w = op[c]
  OBVIOUS
<1>2. /\ w \in CallType /\ Working(p, w) /\ DeletedIsGone /\ OwnWritesRead
      /\ w.at = "keychain" /\ available[p] /\ w.key \in Key
  BY <1>1 DEF CallKeychain, At, PlainInv, TypeOK, SerialInv, Working
<1>3. UNCHANGED <<file, available, discard, history>>
  BY DEF CallKeychain, disk
<1>4. CASE Goto(c, AfterRefusal(c)) /\ UNCHANGED kcVal
  <2>1. PICK t \in Stages : t = "idle"
    BY DEF Stages
  <2> QED BY <1>1, <1>2, <1>3, <1>4, <2>1, GoesOn DEF AfterRefusal
<1>5. CASE kcVal' = Put(kcVal, c) /\ Goto(c, AfterKeychain(c))
  <2>1. PICK r : r = [w EXCEPT !.at = IF w.val # None THEN "index" ELSE "file"]
    OBVIOUS
  <2>2. /\ r.at = (IF w.val # None THEN "index" ELSE "file")
        /\ r.key = w.key /\ r.val = w.val /\ r.seen = w.seen
    BY <1>2, <2>1 DEF CallType
  <2>3. op' = [op EXCEPT ![c] = r]
    BY <1>1, <1>5, <2>1 DEF Goto, AfterKeychain, Setting
  <2>4. kcVal'[w.key] = w.val /\ \A k \in Key \ {w.key} : kcVal'[k] = kcVal[k]
    BY <1>1, <1>2, <1>5 DEF Put, PlainInv, TypeOK
  <2>5. DeletedIsGone'
    BY <1>2, <1>3, <2>4 DEF DeletedIsGone, Working, history, PlainInv, TypeOK
  <2>6. OwnWritesRead'
    <3> SUFFICES ASSUME p \notin moved, NEW k \in Key, mine[p][k] # Unknown
                 PROVE  Found(p, k)' = mine[p][k]
      BY <1>3 DEF OwnWritesRead, Alone, history
    <3>1. k # w.key
      BY <1>2 DEF Working
    <3> QED BY <1>2, <1>3, <2>4, <3>1, AloneHome DEF OwnWritesRead, Found
  <2>7. Working(p, r)'
    BY <1>2, <1>3, <2>2, <2>4 DEF Working, Late, history
  <2>8. op[c].at # "idle"
    BY <1>1, <1>2
  <2> QED BY <1>3, <2>3, <2>5, <2>6, <2>7, <2>8, OneWorks
<1> QED BY <1>4, <1>5 DEF CallKeychain

(* What is written is the file as it is, but for the one key; or the file  *)
(* has been moved away.                                                    *)
LEMMA WritesFile ==
  ASSUME PlainInv, NEW p, SerialInv(p), Alone(p), NEW c \in Caller, WriteFile(c)
  PROVE  SerialInv(p)'
<1>1. PICK w : w = op[c]
  OBVIOUS
<1>2. /\ w \in CallType /\ Working(p, w) /\ DeletedIsGone /\ OwnWritesRead
      /\ w.at = "write" /\ w.key \in Key
  BY <1>1 DEF WriteFile, At, PlainInv, TypeOK, SerialInv, Working
<1>3. UNCHANGED <<kcVal, available, discard, history>>
  BY DEF WriteFile, keychain
<1>4. CASE Goto(c, "idle") /\ UNCHANGED disk
  <2>1. PICK t \in Stages : t = "idle"
    BY DEF Stages
  <2> QED BY <1>1, <1>2, <1>3, <1>4, <2>1, GoesOn DEF disk
<1>5. CASE file' = [op[c].seen EXCEPT !.vals = Merged(c)] /\ Goto(c, "index")
  <2>1. PICK r : r = [w EXCEPT !.at = "index"]
    OBVIOUS
  <2>2. r.at = "index" /\ r.key = w.key /\ r.val = w.val /\ r.seen = w.seen
    BY <1>2, <2>1 DEF CallType
  <2>3. op' = [op EXCEPT ![c] = r]
    BY <1>1, <1>5, <2>1 DEF Goto
  <2>4. file'.vals = [w.seen.vals EXCEPT ![w.key] = w.val]
    BY <1>1, <1>2, <1>5 DEF Merged, Put, CallType, FileType
  <2>5. /\ file'.vals[w.key] = w.val
        /\ \A k \in Key \ {w.key} : file'.vals[k] = w.seen.vals[k]
    BY <1>2, <2>4 DEF CallType, FileType
  <2>6. DeletedIsGone'
    BY <1>2, <1>3, <2>5 DEF DeletedIsGone, Working, history, PlainInv, TypeOK
  <2>7. OwnWritesRead'
    <3> SUFFICES ASSUME p \notin moved, NEW k \in Key, mine[p][k] # Unknown
                 PROVE  Found(p, k)' = mine[p][k]
      BY <1>3 DEF OwnWritesRead, Alone, history
    <3>1. k # w.key /\ w.seen.vals = file.vals
      BY <1>2 DEF Working
    <3>2. file'.vals[k] = file.vals[k]
      BY <2>5, <3>1
    <3> QED BY <1>2, <1>3, <3>2, AloneHome DEF OwnWritesRead, Found
  <2>8. Working(p, r)'
    BY <1>2, <1>3, <2>2, <2>5 DEF Working, Late, history
  <2>9. op[c].at # "idle"
    BY <1>1, <1>2
  <2> QED BY <1>3, <2>3, <2>6, <2>7, <2>8, <2>9, OneWorks
<1> QED BY <1>4, <1>5 DEF WriteFile

LEMMA Updates ==
  ASSUME PlainInv, NEW p, SerialInv(p), Alone(p), NEW c \in Caller,
         UpdateKeychainIndex(c) \/ UpdateFileIndex(c) \/ RewriteFile(c)
  PROVE  SerialInv(p)'
<1>1. PICK w : w = op[c]
  OBVIOUS
<1>2. /\ w \in CallType /\ w.at \in {"update", "rewrite"} /\ Working(p, w)
      /\ op[c].at \in Late
  BY <1>1 DEF UpdateKeychainIndex, UpdateFileIndex, RewriteFile, At, PlainInv, TypeOK,
     SerialInv, Late
<1>3. \A k \in gone : file.vals[k] = None
  BY DEF SerialInv, DeletedIsGone
<1>4. CASE UpdateKeychainIndex(c)
  BY <1>2, <1>3, <1>4, Returns DEF UpdateKeychainIndex, disk
<1>5. CASE UpdateFileIndex(c)
  <2>1. Load(c, "rewrite") /\ op[c].at = "update" /\ ~available[p]
        /\ UNCHANGED <<kcVal, file, available, history>>
    BY <1>5, AloneHome DEF UpdateFileIndex, At, Alone, keychain, disk
  <2> QED BY <2>1, Loads
<1>6. CASE RewriteFile(c)
  <2>1. UNCHANGED <<kcVal, available, discard>> /\ Return(c) /\ w.at = "rewrite"
    BY <1>1, <1>6 DEF RewriteFile, keychain, At
  <2>2. CASE UNCHANGED disk
    BY <1>2, <1>3, <2>1, <2>2, Returns DEF disk
  <2>3. CASE file' = [op[c].seen EXCEPT !.keys = op[c].keys]
    <3>1. file'.vals = w.seen.vals
      BY <1>1, <1>2, <2>3 DEF CallType, FileType
    <3>2. ~available[p] /\ (p \notin moved => w.seen.vals = file.vals)
      BY <1>2, <2>1 DEF Working
    <3>3. \A k \in gone : file'.vals[k] = None
      BY <1>2, <3>1 DEF Working
    <3> QED BY <1>2, <2>1, <3>1, <3>2, <3>3, Returns
  <2> QED BY <1>6, <2>2, <2>3 DEF RewriteFile
<1> QED BY <1>4, <1>5, <1>6

(* A corrupt file, or a good one that has replaced it, is moved away.      *)
LEMMA Discards ==
  ASSUME PlainInv, NEW p, SerialInv(p), Alone(p), NEW c \in Caller, Discard(c)
  PROVE  SerialInv(p)'
<1>1. /\ UNCHANGED <<kcVal, available, op, mine, gone>>
      /\ moved' = IF file.vals = NoValues THEN moved ELSE Process
      /\ discard' = [discard EXCEPT ![c] = FALSE]
  BY DEF Discard, keychain
<1>2. file'.vals = NoValues /\ \A k \in Key : file'.vals[k] = None
  BY DEF Discard, Blank, NoValues
<1>3. p \notin moved' => p \notin moved /\ file'.vals = file.vals
  BY <1>1, <1>2 DEF Alone
<1>4. DeletedIsGone'
  BY <1>1, <1>2 DEF SerialInv, DeletedIsGone, PlainInv, TypeOK
<1>5. OwnWritesRead'
  <2> SUFFICES ASSUME p \notin moved', NEW k \in Key, mine[p][k] # Unknown
               PROVE  Found(p, k)' = mine[p][k]
    BY <1>1 DEF OwnWritesRead, Alone
  <2> QED BY <1>1, <1>3, AloneHome DEF SerialInv, OwnWritesRead, Found
<1>6. ASSUME NEW d \in Caller, op[d].at # "idle"
      PROVE  Working(p, op[d])'
  <2>1. PICK w : w = op[d]
    OBVIOUS
  <2>2. Working(p, w)
    BY <1>6, <2>1 DEF SerialInv
  <2>3. Working(p, w)'
    BY <1>1, <1>2, <1>3, <2>2 DEF Working
  <2> QED BY <1>1, <2>1, <2>3
<1>7. \A d \in Caller : Busy(d)' => Busy(d)
  BY <1>1 DEF Busy, PlainInv, TypeOK
<1> QED BY <1>1, <1>4, <1>5, <1>6, <1>7 DEF SerialInv

LEMMA Restarts ==
  ASSUME PlainInv, NEW p, SerialInv(p), Alone(p), NEW q \in Process, Restart(q)
  PROVE  SerialInv(p)'
<1>1. q = p
  BY DEF Alone
<1>2. UNCHANGED <<kcVal, file, gone>> /\ mine'[p] = [k \in Key |-> Unknown]
  BY <1>1 DEF Restart, keychain, disk, PlainInv, TypeOK
<1>3. \A c \in Caller : op'[c].at = "idle" /\ ~discard'[c]
  BY <1>1, AloneHome DEF Restart, NoCall
<1>4. DeletedIsGone'
  BY <1>2 DEF SerialInv, DeletedIsGone
<1>5. OwnWritesRead'
  BY <1>2 DEF OwnWritesRead, Alone
<1> QED BY <1>3, <1>4, <1>5, HomeAssumption DEF SerialInv, Busy

LEMMA SerialUnchanged ==
  ASSUME PlainInv, NEW p, SerialInv(p),
         UNCHANGED <<kcVal, file, available, op, history>>,
         \A c \in Caller \ Reader : discard'[c] = discard[c]
  PROVE  SerialInv(p)'
<1>1. DeletedIsGone' /\ OwnWritesRead'
  BY DEF SerialInv, DeletedIsGone, OwnWritesRead, Found, history
<1>2. \A c \in Caller : op[c].at # "idle" => Working(p, op[c])'
  BY DEF SerialInv, Working, history
<1>3. \A c \in Caller : Busy(c)' => Busy(c)
  BY DEF Busy
<1> QED BY <1>1, <1>2, <1>3 DEF SerialInv

LEMMA SerialStepInv ==
  ASSUME PlainInv, NEW p, SerialInv(p), Alone(p), [Next]_vars
  PROVE  SerialInv(p)'
<1>1. ASSUME NEW c \in Caller, ReadFile(c) PROVE SerialInv(p)'
  <2>1. Load(c, "write") /\ op[c].at = "file" /\ UNCHANGED <<kcVal, file, available, history>>
    BY <1>1 DEF ReadFile, At, Alone, keychain, disk
  <2> QED BY <2>1, Loads
<1>2. ASSUME NEW c \in Caller, NothingToRemove(c) PROVE SerialInv(p)'
  <2>1. PICK t \in Stages : t = "index"
    BY DEF Stages
  <2>2. op[c].at = "write" /\ op[c].val = None /\ Put(op[c].seen.vals, c) = op[c].seen.vals
        /\ Goto(c, t) /\ UNCHANGED <<kcVal, file, available, discard, history>>
    BY <1>2, <2>1 DEF NothingToRemove, At, Setting, Merged, keychain, disk
  <2>3. op[c].seen.vals[op[c].key] = None
    <3>1. PICK w, u : w = op[c] /\ u = w.seen.vals
      OBVIOUS
    <3>2. w.key \in Key /\ u \in [Key -> Val \cup {None}]
      BY <2>2, <3>1 DEF SerialInv, Working, PlainInv, TypeOK, CallType, FileType
    <3> QED BY <2>2, <3>1, <3>2 DEF Put
  <2> QED BY <2>1, <2>2, <2>3, GoesOn
<1>3. ASSUME NEW c \in Caller, ReadIndex(c) PROVE SerialInv(p)'
  <2>1. op[c].at = "index" /\ UNCHANGED <<kcVal, file, available, discard>>
    BY <1>3 DEF ReadIndex, At, keychain, disk
  <2>2. CASE Goto(c, "file_index") /\ UNCHANGED history
    <3>1. PICK t \in Stages : t = "file_index"
      BY DEF Stages
    <3> QED BY <2>1, <2>2, <3>1, GoesOn DEF Late
  <2>3. CASE \E idx : TakeIndex(c, idx)
    BY <2>1, <2>3, TakesIndex
  <2> QED BY <1>3, <2>2, <2>3 DEF ReadIndex
<1>4. ASSUME NEW c \in Caller, ReadFileIndex(c) PROVE SerialInv(p)'
  <2>1. /\ op[c].at = "file_index" /\ UNCHANGED <<kcVal, file, available>>
        /\ \A d \in Caller \ {c} : discard'[d] = discard[d]
        /\ \E idx : TakeIndex(c, idx)
    BY <1>4 DEF ReadFileIndex, At, keychain, disk, PlainInv, TypeOK
  <2> QED BY <2>1, TakesIndex
<1>5. ASSUME NEW c \in Caller, ReaderFindsGarbled(c) PROVE SerialInv(p)'
  BY <1>5, SerialUnchanged DEF ReaderFindsGarbled, keychain, disk, PlainInv, TypeOK
<1>6. CASE UNCHANGED vars
  BY <1>6, SerialUnchanged DEF vars, keychain, disk
<1>7. ASSUME NEW c \in Caller, Step(c) PROVE SerialInv(p)'
  BY <1>1, <1>2, <1>3, <1>4, <1>5, <1>7, Begins, CallsKeychain, WritesFile, Updates, Discards
  DEF Step
<1> QED BY <1>6, <1>7, Restarts DEF Next

(* When only one process uses the secrets and no read of the file fails,   *)
(* the inductive invariant of its one call at a time holds.                *)
THEOREM SerialInvariant ==
  ASSUME NEW p, Alone(p)
  PROVE  Spec => []SerialInv(p)
<1>1. PlainInv /\ SerialInv(p) /\ [Next]_vars => SerialInv(p)'
  BY SerialStepInv
<1> QED BY <1>1, SerialInitInv, PlainInvariant, PTL DEF Spec

(* A process alone finds what it stored or deleted, for any number of      *)
(* callers, whatever of its other calls fails or is cut off, as long as no *)
(* file with secrets was moved away.                                       *)
THEOREM OwnWritesAlwaysRead ==
  ASSUME NEW p, Process = {p}, "file_read" \notin Faults
  PROVE  Spec => []OwnWritesRead
<1>1. SerialInv(p) => OwnWritesRead
  BY DEF SerialInv
<1> QED BY <1>1, SerialInvariant, PTL DEF Alone

(* A deletion reported done holds for every process to come, if only one   *)
(* runs at a time and no read of the file fails.                           *)
THEOREM DeletedAlwaysGone ==
  ASSUME NEW p, Process = {p}, "file_read" \notin Faults
  PROVE  Spec => []DeletedIsGone
<1>1. SerialInv(p) => DeletedIsGone
  BY DEF SerialInv
<1> QED BY <1>1, SerialInvariant, PTL DEF Alone

=============================================================================
