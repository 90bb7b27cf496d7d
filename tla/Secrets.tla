------------------------------ MODULE Secrets ------------------------------
(***************************************************************************)
(* Where aeroflare keeps credentials (internal/secrets/manager.go).        *)
(*                                                                         *)
(* A process asks the OS keychain once whether it is there.  If so it is   *)
(* the place secrets go to, and a plain JSON file is still read for what   *)
(* it lacks; if not, the file is all there is.  Beside the values each     *)
(* place may hold an index of the keys.  Set and Delete hold the mutex of  *)
(* their process; Get and List do not, and processes share no lock.        *)
(*                                                                         *)
(* Every keychain call and every read or rename of the file is a step.  A  *)
(* keychain call that fails changes nothing.  Deleting a key is storing    *)
(* None for it.                                                            *)
(***************************************************************************)
EXTENDS FiniteSets

CONSTANTS
  Process, Caller,  \* aeroflare processes and the goroutines that call
  Home,             \* the process of each caller
  Reader,           \* the callers that only call Get and List
  Key, Val,
  None, Unknown,    \* no value; a value nobody can tell
  Faults,           \* what may go wrong
  MayBeGarbled      \* whether the file may be corrupt at first

FaultKinds == {"keychain", "file_read", "file_write", "crash"}

ASSUME HomeAssumption == Home \in [Caller -> Process] /\ Reader \subseteq Caller
ASSUME ValAssumption == None \notin Val /\ Unknown \notin Val \cup {None}
ASSUME FaultsAssumption == Faults \subseteq FaultKinds /\ MayBeGarbled \in BOOLEAN

VARIABLES
  kcVal, kcKeys,    \* keychain: the values, and the index if there is one
  file,             \* secrets.json: its values and its index
  garbled,          \* whether secrets.json is corrupt; it then reads as Blank
  available,        \* defaultManager.available of each process
  op,               \* the call of each caller: where it is, and its locals
  discard,          \* a caller found the file corrupt and will move it away
  mine,             \* history: what each process has stored and not touched since
  gone,             \* history: keys whose deletion was reported done
  exposed,          \* history: what a warning about plain text was printed for
  moved             \* history: processes that have seen a file with secrets moved away

keychain == <<kcVal, kcKeys>>
disk == <<file, garbled>>
history == <<mine, gone, exposed, moved>>
vars == <<keychain, disk, available, op, discard, history>>

-----------------------------------------------------------------------------

NoValues == [k \in Key |-> None]
Blank == [vals |-> NoValues, keys |-> {}]

(* The index entry is missing; an empty index is a value.                  *)
NoIndex == {None}

(* seen: the file as it was read; keys: the new index.                     *)
NoCall == [at |-> "idle", key |-> None, val |-> None, seen |-> Blank, keys |-> {}]

Put(vals, c) == [vals EXCEPT ![op[c].key] = op[c].val]

Setting(c) == op[c].val # None

(* FAULT: Set and Delete take no lock.                                     *)
LockFreeAlways(c) == TRUE

(* m.mu *)
LockFree(c) ==
  \A d \in Caller \ Reader : Home[d] = Home[c] => op[d].at = "idle" /\ ~discard[d]

(* FAULT: a Set the keychain refuses goes to the file.                     *)
AfterRefusalDowngrade(c) == "file"

(* "a failure is returned rather than silently written to plaintext"       *)
AfterRefusal(c) == "idle"

(* FAULT: what the keychain deleted is not looked for in the file.         *)
AfterKeychainSkipsFile(c) == "index"

AfterKeychain(c) == IF Setting(c) THEN "index" ELSE "file"

(* writeFallback and Delete change one key of what was read.               *)
Merged(c) == Put(op[c].seen.vals, c)

(* FAULT: the index lists its own entry.                                   *)
IndexAfterItself(c, idx) == idx \cup {op[c].key, None}

(* updateIndexLocked *)
IndexAfter(c, idx) ==
  IF Setting(c) THEN idx \cup {op[c].key} ELSE idx \ {op[c].key}

(* The next step of the call; its locals go with it.                       *)
Goto(c, s) ==
  op' = [op EXCEPT ![c] = IF s = "idle" THEN NoCall ELSE [@ EXCEPT !.at = s]]

(* readFallback, then on to s: a corrupt file reads as empty and is moved  *)
(* away next.                                                              *)
Load(c, s) ==
  /\ op' = [op EXCEPT ![c].at = s, ![c].seen = file]
  /\ discard' = [discard EXCEPT ![c] = garbled]

(* The call returns without an error.                                      *)
Return(c) ==
  /\ Goto(c, "idle")
  /\ mine' = [mine EXCEPT ![Home[c]][op[c].key] = op[c].val]
  /\ gone' = IF Setting(c) \/ ~available[Home[c]] THEN gone ELSE gone \cup {op[c].key}
  /\ UNCHANGED <<exposed, moved>>

At(c, s) == op[c].at = s /\ ~discard[c]

-----------------------------------------------------------------------------

(* Set(k, v), or Delete(k) with v = None, gets the mutex.                  *)
Begin(c, k, v) ==
  /\ c \notin Reader /\ At(c, "idle") /\ LockFree(c)
  /\ op' = [op EXCEPT ![c] =
               [at |-> IF available[Home[c]] THEN "keychain" ELSE "file",
                key |-> k, val |-> v, seen |-> Blank, keys |-> {}]]
  /\ mine' = [p \in Process |-> [mine[p] EXCEPT ![k] = Unknown]]
  /\ gone' = IF v = None THEN gone ELSE gone \ {k}
  /\ exposed' = IF v = None \/ available[Home[c]] THEN exposed ELSE exposed \cup {<<k, v>>}
  /\ UNCHANGED <<keychain, disk, available, discard, moved>>

(* kc.Set or kc.Delete; deleting what is not there is no error.            *)
CallKeychain(c) ==
  /\ At(c, "keychain")
  /\ \/ kcVal' = Put(kcVal, c) /\ Goto(c, AfterKeychain(c))
     \/ "keychain" \in Faults /\ Goto(c, AfterRefusal(c)) /\ UNCHANGED kcVal
  /\ UNCHANGED <<kcKeys, disk, available, discard, history>>

(* Set gives up when the file cannot be read; Delete goes on.              *)
ReadFile(c) ==
  /\ At(c, "file")
  /\ \/ Load(c, "write")
     \/ "file_read" \in Faults /\ Goto(c, IF Setting(c) THEN "idle" ELSE "index")
        /\ UNCHANGED discard
  /\ UNCHANGED <<keychain, disk, available, history>>

(* Delete finds nothing to remove in the file.                             *)
NothingToRemove(c) ==
  /\ At(c, "write") /\ Merged(c) = op[c].seen.vals /\ ~Setting(c)
  /\ Goto(c, "index")
  /\ UNCHANGED <<keychain, disk, available, discard, history>>

(* A temporary file is written and renamed into place.                     *)
WriteFile(c) ==
  /\ At(c, "write") /\ (Setting(c) \/ Merged(c) # op[c].seen.vals)
  /\ \/ file' = [op[c].seen EXCEPT !.vals = Merged(c)] /\ garbled' = FALSE
        /\ Goto(c, "index")
     \/ "file_write" \in Faults /\ Goto(c, "idle") /\ UNCHANGED disk
  /\ UNCHANGED <<keychain, available, discard, history>>

(* The new index, or nothing more to do.                                   *)
TakeIndex(c, idx) ==
  IF IndexAfter(c, idx) = idx THEN Return(c)
  ELSE /\ op' = [op EXCEPT ![c].at = "update", ![c].keys = IndexAfter(c, idx)]
       /\ UNCHANGED history

(* getRaw: an error reads as an empty index, no entry leads to the file.   *)
ReadIndex(c) ==
  /\ At(c, "index")
  /\ IF available[Home[c]]
     THEN \/ kcKeys # NoIndex /\ TakeIndex(c, kcKeys)
          \/ kcKeys = NoIndex /\ Goto(c, "file_index") /\ UNCHANGED history
          \/ "keychain" \in Faults /\ TakeIndex(c, {})
     ELSE Goto(c, "file_index") /\ UNCHANGED history
  /\ UNCHANGED <<keychain, disk, available, discard>>

ReadFileIndex(c) ==
  /\ At(c, "file_index")
  /\ \/ TakeIndex(c, file.keys) /\ discard' = [discard EXCEPT ![c] = garbled]
     \/ "file_read" \in Faults /\ TakeIndex(c, {}) /\ UNCHANGED discard
  /\ UNCHANGED <<keychain, disk, available>>

(* setRaw into the keychain: an error is not reported.                     *)
UpdateKeychainIndex(c) ==
  /\ At(c, "update") /\ available[Home[c]]
  /\ \/ kcKeys' = op[c].keys
     \/ "keychain" \in Faults /\ UNCHANGED kcKeys
  /\ Return(c)
  /\ UNCHANGED <<kcVal, disk, available, discard>>

(* setRaw into the file reads it once more and writes it, errors dropped.  *)
UpdateFileIndex(c) ==
  /\ At(c, "update") /\ ~available[Home[c]]
  /\ \/ Load(c, "rewrite") /\ UNCHANGED history
     \/ "file_read" \in Faults /\ Return(c) /\ UNCHANGED discard
  /\ UNCHANGED <<keychain, disk, available>>

RewriteFile(c) ==
  /\ At(c, "rewrite")
  /\ \/ file' = [op[c].seen EXCEPT !.keys = op[c].keys] /\ garbled' = FALSE
     \/ "file_write" \in Faults /\ UNCHANGED disk
  /\ Return(c)
  /\ UNCHANGED <<keychain, available, discard>>

(* Get and List read the file without the mutex.                           *)
ReaderFindsGarbled(c) ==
  /\ c \in Reader /\ At(c, "idle") /\ garbled
  /\ discard' = [discard EXCEPT ![c] = TRUE]
  /\ UNCHANGED <<keychain, disk, available, op, history>>

(* os.Rename(file, backup): whatever the file holds by now.                *)
Discard(c) ==
  /\ discard[c]
  /\ file' = Blank /\ garbled' = FALSE
  /\ discard' = [discard EXCEPT ![c] = FALSE]
  /\ moved' = IF file.vals = NoValues THEN moved ELSE Process
  /\ UNCHANGED <<keychain, available, op, mine, gone, exposed>>

(* The process ends or is killed, and another one probes the keychain.     *)
Restart(p) ==
  LET own == {c \in Caller : Home[c] = p} IN
  /\ "crash" \in Faults \/ \A c \in own : At(c, "idle")
  /\ \E found \in BOOLEAN : available' = [available EXCEPT ![p] = found]
  /\ op' = [c \in Caller |-> IF c \in own THEN NoCall ELSE op[c]]
  /\ discard' = [c \in Caller |-> c \notin own /\ discard[c]]
  /\ mine' = [mine EXCEPT ![p] = [k \in Key |-> Unknown]]
  /\ moved' = moved \ {p}
  /\ UNCHANGED <<keychain, disk, gone, exposed>>

Init ==
  /\ kcVal = NoValues /\ kcKeys = NoIndex
  /\ file = Blank /\ garbled \in {FALSE, MayBeGarbled}
  /\ available \in [Process -> BOOLEAN]
  /\ op = [c \in Caller |-> NoCall]
  /\ discard = [c \in Caller |-> FALSE]
  /\ mine = [p \in Process |-> [k \in Key |-> Unknown]]
  /\ gone = {} /\ exposed = {} /\ moved = {}

Step(c) ==
  \/ \E k \in Key, v \in Val \cup {None} : Begin(c, k, v)
  \/ CallKeychain(c) \/ ReadFile(c) \/ NothingToRemove(c) \/ WriteFile(c)
  \/ ReadIndex(c) \/ ReadFileIndex(c)
  \/ UpdateKeychainIndex(c) \/ UpdateFileIndex(c) \/ RewriteFile(c)
  \/ ReaderFindsGarbled(c) \/ Discard(c)

Next == (\E c \in Caller : Step(c)) \/ \E p \in Process : Restart(p)

Spec == Init /\ [][Next]_vars

-----------------------------------------------------------------------------

(* What Get(k) answers when process p calls it now, and List.              *)
Found(p, k) ==
  IF available[p] /\ kcVal[k] # None THEN kcVal[k] ELSE file.vals[k]

Listed(p) ==
  (IF available[p] /\ kcKeys # NoIndex THEN kcKeys ELSE file.keys)
    \cup {k \in Key : file.vals[k] # None}

Stages == {"idle", "keychain", "file", "write", "index", "file_index", "update", "rewrite"}

FileType == [vals : [Key -> Val \cup {None}], keys : SUBSET Key]

CallType == [at : Stages, key : Key \cup {None}, val : Val \cup {None},
             seen : FileType, keys : SUBSET Key]

(* Type invariant.                                                         *)
TypeOK ==
  /\ kcVal \in [Key -> Val \cup {None}] /\ kcKeys \in (SUBSET Key) \cup {NoIndex}
  /\ file \in FileType /\ garbled \in BOOLEAN
  /\ available \in [Process -> BOOLEAN]
  /\ op \in [Caller -> CallType]
  /\ discard \in [Caller -> BOOLEAN]
  /\ mine \in [Process -> [Key -> Val \cup {None, Unknown}]]
  /\ gone \in SUBSET Key /\ exposed \in SUBSET (Key \X Val)
  /\ moved \in SUBSET Process

(* A secret is in the plain text file only if a process without keychain   *)
(* was asked to store just that and has warned about it; also after files  *)
(* read by one process are written back over those of another.             *)
PlaintextOnlyWithWarning ==
  \A k \in Key : file.vals[k] # None => <<k, file.vals[k]>> \in exposed

(* What a process has stored, or deleted, it finds so, whatever it does to *)
(* other keys, and whatever part of those calls fails: "A single mutex     *)
(* serializes the read-modify-write of the key index and the fallback file *)
(* so concurrent callers can't clobber each other".  It holds as long as   *)
(* no file with secrets in it was moved away (see NoGoodFileMoved).        *)
OwnWritesRead ==
  \A p \in Process \ moved, k \in Key : mine[p][k] # Unknown => Found(p, k) = mine[p][k]

(* A deletion that a process with keychain has reported done holds for     *)
(* every process to come, with or without keychain: "a credential the      *)
(* caller believes is gone cannot silently persist".                       *)
DeletedIsGone ==
  \A k \in gone : kcVal[k] = None /\ file.vals[k] = None

(* The inductive invariant behind PlaintextOnlyWithWarning: it also holds   *)
(* for every copy of the file, and for what is on its way there.           *)
Warned(vals) == \A k \in Key : vals[k] # None => <<k, vals[k]>> \in exposed

CallWarned(call) ==
  /\ Warned(call.seen.vals)
  /\ call.at # "idle" => call.key \in Key
  /\ call.at \in {"file", "write"} /\ call.val # None => <<call.key, call.val>> \in exposed

PlainInv ==
  /\ TypeOK
  /\ Warned(file.vals)
  /\ \A c \in Caller : CallWarned(op[c])

-----------------------------------------------------------------------------
(* Statements of the repository the code does not live up to.               *)

(* "Either way the key is recorded in the index so List can find it": when *)
(* no call is under way List names every key Get finds.                    *)
ListFindsStored ==
  \A p \in Process :
    (\A c \in Caller : op[c].at = "idle") =>
      \A k \in Key : Found(p, k) # None => k \in Listed(p)

(* "concurrent callers can't clobber each other": the file that is moved   *)
(* away because it was corrupt holds nothing another caller has stored.    *)
NoGoodFileMoved == moved = {}

=============================================================================
