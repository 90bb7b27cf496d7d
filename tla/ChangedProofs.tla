---------------------------- MODULE ChangedProofs ----------------------------
(***************************************************************************)
(* Theorems about Changed, for every set of outputs and derivations, every *)
(* history, every limit of the walk and any number of runs.                *)
(***************************************************************************)
EXTENDS Changed, SequenceTheorems, TLAPS

LEMMA Domains ==
  ASSUME TypeOK
  PROVE  /\ Len(flake) \in Nat /\ Commits = 1..Len(flake)
         /\ Len(runs) \in Nat /\ DOMAIN runs = 1..Len(runs)
         /\ \A c \in Commits : flake[c] \in Tree \cup {Broken}
         /\ \A c \in Commits : parent[c] \in Commits \cup {0}
         /\ \A r \in DOMAIN runs : runs[r] \in RunType
<1>1. /\ Len(flake) \in Nat /\ Commits = 1..Len(flake)
      /\ Len(runs) \in Nat /\ DOMAIN runs = 1..Len(runs)
      /\ \A c \in Commits : flake[c] \in Tree \cup {Broken}
      /\ \A r \in DOMAIN runs : runs[r] \in RunType
  BY DEF TypeOK, Commits
<1>2. \A c \in Commits : parent[c] \in Nat /\ parent[c] < c
  BY <1>1 DEF TypeOK
<1> QED BY <1>1, <1>2

(* A run that starts, a list that is made, a run that fails.               *)
LEMMA NewRunType ==
  ASSUME NEW head \in Commits, NEW ref \in Commits \cup {0}
  PROVE  NewRun(head, ref) \in RunType
  BY LimitAssumption DEF NewRun, RunType

LEMMA RedType ==
  ASSUME NEW run \in RunType
  PROVE  Red(run) \in RunType
<1>1. run.head \in Commits
  BY DEF RunType
<1>2. NewRun(run.head, 0) \in RunType
  BY <1>1, NewRunType
<1>3. ASSUME NEW e \in RunType PROVE [e EXCEPT !.at = "ended"] \in RunType
  BY DEF RunType
<1> QED BY <1>2, <1>3 DEF Red
-----------------------------------------------------------------------------

(* What must hold of the run e, which takes the place of a run that is not *)
(* green: its part of the invariant after the step.                        *)
Explains(e) ==
  e.green =>
    \A o \in Output :
      /\ flake[e.head][o] \in Drv \ cache' =>
           \/ TookForGranted(e, o, flake[e.head][o])
           \/ \E s \in DOMAIN runs : TookForGranted(runs[s], o, flake[e.head][o])
      /\ flake[e.head][o] = Throws => e.base = 0 /\ onMissingBase = "none"

(* A step of one run, which was not green before.                          *)
LEMMA GoInv ==
  ASSUME ChangedInv, NEW r \in DOMAIN runs, NEW e \in RunType,
         ~runs[r].green, Go(r, e),
         UNCHANGED <<onMissingBase, flake, parent, tip>>,
         cache \subseteq cache', cache' \in SUBSET Drv,
         e.at = "walk" => e.cand \in e.have /\ e.tries # 0,
         DiffInv(e), Explains(e)
  PROVE  ChangedInv'
<1>1. /\ DOMAIN runs' = DOMAIN runs /\ runs'[r] = e
      /\ \A s \in DOMAIN runs : s # r => runs'[s] = runs[s]
      /\ runs' \in Seq(RunType)
  BY Domains DEF ChangedInv, TypeOK, Go
<1>2. Commits' = Commits /\ RunType' = RunType
  BY DEF Commits, RunType
<1>3. TypeOK'
  BY <1>1, <1>2 DEF ChangedInv, TypeOK, Commits
<1>4. \A s \in DOMAIN runs : runs[s].green => runs'[s] = runs[s]
  BY <1>1
<1>5. ASSUME NEW c, GreenRunFor(c) PROVE GreenRunFor(c)'
  BY <1>1, <1>4, <1>5 DEF GreenRunFor
<1>6. ASSUME NEW run, DiffInv(run) PROVE DiffInv(run)'
  BY <1>5, <1>6 DEF DiffInv, ChangedOutputs, Exposes
<1>7. \A s \in DOMAIN runs' : DiffInv(runs[s])'
  <2> TAKE s \in DOMAIN runs'
  <2>1. PICK run : run = runs'[s]
    OBVIOUS
  <2>2. DiffInv(run)
    BY <1>1, <2>1 DEF ChangedInv
  <2>3. DiffInv(run)'
    BY <1>6, <2>2
  <2> QED BY <2>1, <2>3
<1>8. ASSUME NEW run, NEW o, NEW d, TookForGranted(run, o, d) PROVE TookForGranted(run, o, d)'
  BY <1>8 DEF TookForGranted
<1>9. HolesExplained'
  <2> SUFFICES ASSUME NEW s \in DOMAIN runs, runs'[s].green, NEW o \in Output,
                      NEW d, d = flake[runs'[s].head][o], d \in Drv \ cache'
               PROVE  \E t \in DOMAIN runs' : TookForGranted(runs[t], o, d)'
    BY <1>1 DEF HolesExplained
  <2>1. CASE \E t \in DOMAIN runs : TookForGranted(runs[t], o, d)
    <3>1. PICK t \in DOMAIN runs : TookForGranted(runs[t], o, d)
      BY <2>1
    <3>2. PICK run : run = runs[t]
      OBVIOUS
    <3>3. run = runs'[t] /\ TookForGranted(run, o, d)
      BY <1>4, <3>1, <3>2 DEF TookForGranted
    <3> QED BY <1>1, <1>8, <3>3
  <2>2. CASE s = r /\ TookForGranted(e, o, d)
    BY <1>1, <1>8, <2>2
  <2>3. CASE s # r
    BY <1>1, <2>1, <2>3 DEF ChangedInv, HolesExplained
  <2> QED BY <1>1, <2>1, <2>2, <2>3 DEF Explains
<1>10. ThrowingNeverGreen'
  BY <1>1 DEF ThrowingNeverGreen, ChangedInv, Explains
<1> QED BY <1>3, <1>7, <1>9, <1>10 DEF ChangedInv

(* A run that is added, for a history that may have grown at its end.      *)
LEMMA NewRunInv ==
  ASSUME ChangedInv, TypeOK', UNCHANGED <<onMissingBase, cache>>,
         \A c \in Commits : c \in Commits' /\ flake'[c] = flake[c],
         NEW head, NEW ref, runs' = Append(runs, NewRun(head, ref))
  PROVE  ChangedInv'
<1>1. /\ Len(runs) \in Nat /\ DOMAIN runs = 1..Len(runs)
      /\ \A s \in DOMAIN runs : runs[s] \in RunType
  BY Domains DEF ChangedInv
<1>2. /\ DOMAIN runs' = DOMAIN runs \cup {Len(runs) + 1}
      /\ \A s \in DOMAIN runs : runs'[s] = runs[s]
      /\ runs'[Len(runs) + 1] = NewRun(head, ref)
  BY <1>1 DEF ChangedInv, TypeOK
<1>3. ~NewRun(head, ref).green /\ ~NewRun(head, ref).vouched /\ NewRun(head, ref).at = "start"
  BY DEF NewRun
<1>4. \A s \in DOMAIN runs : runs[s].head \in Commits /\ runs[s].base \in Commits \cup {0}
  BY <1>1 DEF RunType
<1>5. \A s \in DOMAIN runs' : s \in DOMAIN runs \/ runs'[s] = NewRun(head, ref)
  BY <1>2
<1>6. ASSUME NEW c, GreenRunFor(c) PROVE GreenRunFor(c)'
  BY <1>2, <1>6 DEF GreenRunFor
<1>7. ASSUME NEW s \in DOMAIN runs PROVE DiffInv(runs[s])'
  BY <1>2, <1>4, <1>6 DEF ChangedInv, DiffInv, ChangedOutputs, Exposes
<1>8. ASSUME NEW s \in DOMAIN runs', s = Len(runs) + 1 PROVE DiffInv(runs[s])'
  BY <1>2, <1>3, <1>8 DEF DiffInv
<1>9. ASSUME NEW s \in DOMAIN runs, NEW o, NEW d, TookForGranted(runs[s], o, d)
      PROVE  TookForGranted(runs[s], o, d)'
  BY <1>2, <1>4, <1>9 DEF TookForGranted
<1>10. HolesExplained'
  <2> SUFFICES ASSUME NEW s \in DOMAIN runs', runs'[s].green, NEW o \in Output,
                      NEW d, d = flake'[runs'[s].head][o], d \in Drv \ cache'
               PROVE  \E t \in DOMAIN runs' : TookForGranted(runs[t], o, d)'
    BY DEF HolesExplained
  <2>1. s \in DOMAIN runs
    BY <1>3, <1>5
  <2>2. d = flake[runs[s].head][o] /\ d \in Drv \ cache /\ runs[s].green
    BY <1>2, <1>4, <2>1
  <2>3. PICK t \in DOMAIN runs : TookForGranted(runs[t], o, d)
    BY <2>1, <2>2 DEF ChangedInv, HolesExplained
  <2> QED BY <1>2, <1>9, <2>3
<1>11. ThrowingNeverGreen'
  <2> SUFFICES ASSUME NEW s \in DOMAIN runs', runs'[s].green,
                      NEW o \in Output, flake'[runs'[s].head][o] = Throws
               PROVE  runs'[s].base = 0 /\ onMissingBase' = "none"
    BY DEF ThrowingNeverGreen
  <2>1. s \in DOMAIN runs
    BY <1>3, <1>5
  <2>2. flake[runs[s].head][o] = Throws /\ runs[s].green
    BY <1>2, <1>4, <2>1
  <2> QED BY <1>2, <2>1, <2>2 DEF ChangedInv, ThrowingNeverGreen
<1> QED BY <1>2, <1>7, <1>8, <1>10, <1>11 DEF ChangedInv
-----------------------------------------------------------------------------

(* Starting runs.                                                          *)

LEMMA RunTypeGrows ==
  ASSUME Commits \subseteq Commits'
  PROVE  RunType \subseteq RunType'
  BY DEF RunType

(* A run that is added, of type.                                           *)
LEMMA AppendType ==
  ASSUME TypeOK, Commits \subseteq Commits',
         NEW head \in Commits', NEW ref \in Commits \cup {0},
         runs' = Append(runs, NewRun(head, ref))
  PROVE  /\ runs' \in Seq(RunType')
         /\ \A r \in DOMAIN runs' :
              runs'[r].at = "walk" => runs'[r].cand \in runs'[r].have /\ runs'[r].tries # 0
<1>1. runs \in Seq(RunType')
  BY RunTypeGrows DEF TypeOK
<1>2. NewRun(head, ref) \in RunType'
  BY LimitAssumption DEF NewRun, RunType
<1>3. NewRun(head, ref).at = "start"
  BY DEF NewRun
<1>4. /\ Len(runs) \in Nat /\ DOMAIN runs = 1..Len(runs)
  BY Domains
<1>5. /\ DOMAIN runs' = 1..(Len(runs) + 1)
      /\ \A s \in DOMAIN runs : runs'[s] = runs[s]
      /\ runs'[Len(runs) + 1] = NewRun(head, ref)
      /\ runs' \in Seq(RunType')
  BY <1>1, <1>2, <1>4
<1>6. \A r \in DOMAIN runs' : r \in DOMAIN runs \/ runs'[r] = NewRun(head, ref)
  BY <1>4, <1>5
<1> QED BY <1>3, <1>5, <1>6 DEF TypeOK

LEMMA PushInv ==
  ASSUME ChangedInv, Push
  PROVE  ChangedInv'
<1>0. TypeOK /\ Len(flake) \in Nat /\ Commits = 1..Len(flake)
  BY Domains DEF ChangedInv
<1>1. PICK n \in 1..MaxPushed, from \in Commits \cup {0} :
        /\ \E new \in [1..n -> Tree \cup {Broken}] : flake' = flake \o new
        /\ parent' = parent \o [i \in 1..n |-> IF i = 1 THEN from ELSE Len(flake) + i - 1]
        /\ tip' = Len(flake) + n
        /\ runs' = Append(runs, NewRun(Len(flake) + n, tip))
  BY DEF Push
<1>2. PICK new \in [1..n -> Tree \cup {Broken}] : flake' = flake \o new
  BY <1>1
<1> DEFINE top == [i \in 1..n |-> IF i = 1 THEN from ELSE Len(flake) + i - 1]
<1>3. n \in Nat \ {0} /\ n >= 1
  BY BoundsAssumption
<1>4. new \in Seq(Tree \cup {Broken}) /\ Len(new) = n
  BY <1>3
<1>5. flake \in Seq(Tree \cup {Broken})
  BY <1>0 DEF TypeOK
<1>6. /\ flake' \in Seq(Tree \cup {Broken}) /\ Len(flake') = Len(flake) + n
      /\ \A c \in 1..Len(flake) : flake'[c] = flake[c]
  BY <1>0, <1>2, <1>3, <1>4, <1>5
<1>7. Commits' = 1..(Len(flake) + n)
  BY <1>6 DEF Commits
<1>8. \A i \in 1..n : top[i] \in Nat /\ top[i] < Len(flake) + i
  BY <1>0, <1>3
<1>9. top \in Seq(Nat) /\ Len(top) = n
  BY <1>3, <1>8
<1>10. parent \in Seq(Nat) /\ Len(parent) = Len(flake) /\ \A c \in Commits : parent[c] < c
  BY <1>0 DEF TypeOK
<1>11. /\ parent' \in Seq(Nat) /\ Len(parent') = Len(flake) + n
       /\ \A c \in Commits' : parent'[c] < c
  <2> HIDE DEF top
  <2>1. parent' = parent \o top
    BY <1>1 DEF top
  <2>2. parent' \in Seq(Nat) /\ Len(parent') = Len(flake) + n
    <3>1. \A s, t \in Seq(Nat) : s \o t \in Seq(Nat) /\ Len(s \o t) = Len(s) + Len(t)
      BY ConcatProperties
    <3> QED BY <2>1, <3>1, <1>9, <1>10
  <2>3. \A c \in Commits' : parent'[c] = IF c <= Len(flake) THEN parent[c] ELSE top[c - Len(flake)]
    <3>1. \A c \in 1..(Len(parent) + Len(top)) :
            (parent \o top)[c] = IF c <= Len(parent) THEN parent[c] ELSE top[c - Len(parent)]
      BY <1>9, <1>10, ConcatProperties
    <3> QED BY <2>1, <3>1, <1>7, <1>9, <1>10
  <2>4. ASSUME NEW c \in Commits' PROVE parent'[c] < c
    <3>1. CASE c <= Len(flake)
      BY <3>1, <2>3, <1>0, <1>7, <1>10
    <3>2. CASE c > Len(flake)
      <4>1. c - Len(flake) \in 1..n /\ Len(flake) + (c - Len(flake)) = c
        BY <3>2, <1>0, <1>3, <1>7
      <4> QED BY <4>1, <3>2, <2>3, <1>0, <1>7, <1>8
    <3> QED BY <3>1, <3>2, <1>0, <1>7
  <2> QED BY <2>2, <2>4
<1>12. Commits \subseteq Commits' /\ Len(flake) + n \in Commits'
  BY <1>0, <1>3, <1>7
<1>13. tip \in Commits \cup {0}
  BY <1>0 DEF TypeOK
<1>14. TypeOK'
  <2>1. /\ runs' \in Seq(RunType')
        /\ \A r \in DOMAIN runs' :
             runs'[r].at = "walk" => runs'[r].cand \in runs'[r].have /\ runs'[r].tries # 0
    BY <1>0, <1>1, <1>12, <1>13, AppendType
  <2> QED BY <2>1, <1>0, <1>1, <1>6, <1>11, <1>12 DEF TypeOK, Push
<1> QED BY <1>0, <1>1, <1>6, <1>12, <1>14, NewRunInv DEF Push

LEMMA RewindDispatchInv ==
  ASSUME ChangedInv, Rewind \/ Dispatch
  PROVE  ChangedInv'
<1>1. PICK head \in Commits, ref \in Commits \cup {0} :
        runs' = Append(runs, NewRun(head, ref)) /\ tip' \in Commits
  BY DEF Rewind, Dispatch, ChangedInv, TypeOK
<1>2. UNCHANGED <<onMissingBase, flake, parent, cache>> /\ Commits' = Commits
  BY DEF Rewind, Dispatch, Commits
<1>3. /\ runs' \in Seq(RunType')
      /\ \A r \in DOMAIN runs' :
           runs'[r].at = "walk" => runs'[r].cand \in runs'[r].have /\ runs'[r].tries # 0
  BY <1>1, <1>2, AppendType DEF ChangedInv
<1>4. TypeOK'
  BY <1>1, <1>2, <1>3 DEF ChangedInv, TypeOK
<1> QED BY <1>1, <1>2, <1>4, NewRunInv
-----------------------------------------------------------------------------

(* The steps of a run.                                                     *)

LEMMA RedInv ==
  ASSUME ChangedInv, NEW r \in DOMAIN runs, runs[r].at # "ended", Go(r, Red(runs[r])),
         UNCHANGED <<onMissingBase, flake, parent, tip>>,
         cache \subseteq cache', cache' \in SUBSET Drv
  PROVE  ChangedInv'
<1>1. runs[r] \in RunType /\ ~runs[r].green
  BY Domains DEF ChangedInv, DiffInv
<1>2. Red(runs[r]) \in RunType
  BY <1>1, RedType
<1>3. /\ Red(runs[r]).at = "ended" /\ ~Red(runs[r]).green /\ ~Red(runs[r]).vouched
  BY DEF Red, NewRun
<1> DEFINE e == Red(runs[r])
<1>4. DiffInv(e) /\ Explains(e)
  BY <1>3 DEF DiffInv, Explains
<1> QED BY <1>1, <1>2, <1>3, <1>4, GoInv

LEMMA ChooseInv ==
  ASSUME ChangedInv, NEW r \in DOMAIN runs, runs[r].at # "ended", flake[runs[r].head] # Broken,
         NEW base \in Commits \cup {0}, NEW outputs \in SUBSET Output,
         Choose(r, runs[r], base, outputs),
         IF base # 0 THEN outputs = ChangedOutputs(base, runs[r].head)
         ELSE outputs = Exposes(runs[r].head) \/ (outputs = {} /\ onMissingBase = "none"),
         UNCHANGED <<onMissingBase, flake, parent, tip, cache>>
  PROVE  ChangedInv'
<1>1. /\ runs[r] \in RunType /\ ~runs[r].green
      /\ runs[r].head \in Commits /\ runs[r].ref \in Commits \cup {0}
  BY Domains DEF ChangedInv, DiffInv, RunType
<1>2. PICK vouched \in BOOLEAN : vouched <=> base # 0 /\ GreenRunFor(base)
  OBVIOUS
<1>3. PICK e : e = [NewRun(runs[r].head, runs[r].ref) EXCEPT
                      !.at = "build", !.base = base, !.chosen = outputs, !.vouched = vouched]
  OBVIOUS
<1>4. e = [ head |-> runs[r].head, ref |-> runs[r].ref, at |-> "build", have |-> {},
            cand |-> 0, tries |-> 0, base |-> base, vouched |-> vouched,
            chosen |-> outputs, green |-> FALSE ]
  BY <1>3 DEF NewRun
<1>5. e \in RunType
  BY <1>1, <1>4, LimitAssumption DEF RunType
<1>6. (base # 0 /\ GreenRunFor(base)) = vouched
  BY <1>2
<1>7. Go(r, e)
  BY <1>3, <1>6 DEF Choose
<1>8. /\ e.at = "build" /\ ~e.green /\ e.head = runs[r].head
      /\ e.base = base /\ e.chosen = outputs /\ e.vouched = vouched
  BY <1>4
<1>9. DiffInv(e) /\ Explains(e)
  BY <1>2, <1>8 DEF DiffInv, Explains
<1>10. cache \subseteq cache' /\ cache' \in SUBSET Drv
  BY DEF ChangedInv, TypeOK
<1> QED BY <1>1, <1>5, <1>7, <1>8, <1>9, <1>10, GoInv

LEMMA MissingBaseInv ==
  ASSUME ChangedInv, NEW r \in DOMAIN runs, runs[r].at # "ended", flake[runs[r].head] # Broken,
         MissingBase(r, runs[r]), UNCHANGED <<onMissingBase, flake, parent, tip, cache>>
  PROVE  ChangedInv'
<1>1. cache \subseteq cache' /\ cache' \in SUBSET Drv
  BY DEF ChangedInv, TypeOK
<1>2. Exposes(runs[r].head) \in SUBSET Output
  BY DEF Exposes
<1>3. CASE onMissingBase = "error"
  BY <1>1, <1>3, RedInv DEF MissingBase
<1>4. CASE onMissingBase = "none"
  BY <1>4, ChooseInv DEF MissingBase
<1>5. CASE onMissingBase \notin {"error", "none"}
  BY <1>2, <1>5, ChooseInv DEF MissingBase
<1> QED BY <1>3, <1>4, <1>5

LEMMA VerifyBaseInv ==
  ASSUME ChangedInv, NEW r \in DOMAIN runs, VerifyBase(r)
  PROVE  ChangedInv'
<1>1. /\ runs[r] \in RunType /\ ~runs[r].green
      /\ runs[r].at = "start" /\ flake[runs[r].head] # Broken
  BY Domains DEF ChangedInv, DiffInv, VerifyBase
<1>2. CASE MissingBase(r, runs[r])
  BY <1>1, <1>2, MissingBaseInv DEF VerifyBase
<1>3. ASSUME NEW have \in Checkouts(runs[r].head), NEW base \in have,
             Go(r, [runs[r] EXCEPT !.at = "walk", !.have = have,
                                   !.cand = base, !.tries = AncestryLimit])
      PROVE  ChangedInv'
  <2>1. have \in SUBSET Commits
    BY DEF Checkouts
  <2>2. PICK run : run = runs[r]
    OBVIOUS
  <2>3. PICK e : e = [run EXCEPT !.at = "walk", !.have = have, !.cand = base, !.tries = AncestryLimit]
    OBVIOUS
  <2>4. e \in RunType
    <3>1. base \in Commits /\ AncestryLimit \in 0..AncestryLimit /\ run \in RunType
      BY <1>1, <2>1, <2>2, LimitAssumption
    <3> QED BY <2>1, <2>3, <3>1 DEF RunType
  <2>5. /\ e.at = "walk" /\ e.cand = base /\ e.have = have /\ e.tries = AncestryLimit
        /\ e.green = run.green /\ e.vouched = run.vouched /\ e.base = run.base
        /\ e.head = run.head
    BY <1>1, <2>2, <2>3 DEF RunType
  <2>6. DiffInv(e) /\ Explains(e)
    BY <1>1, <2>2, <2>5 DEF ChangedInv, DiffInv, Explains
  <2>7. cache \subseteq cache' /\ cache' \in SUBSET Drv
    BY DEF ChangedInv, TypeOK, VerifyBase
  <2> QED BY <1>1, <1>3, <2>2, <2>3, <2>4, <2>5, <2>6, <2>7, LimitAssumption, GoInv DEF VerifyBase
<1> QED BY <1>2, <1>3 DEF VerifyBase

LEMMA TakeBaseInv ==
  ASSUME ChangedInv, NEW r \in DOMAIN runs, TakeBase(r)
  PROVE  ChangedInv'
<1>1. /\ runs[r] \in RunType /\ runs[r].cand \in Commits
      /\ flake[runs[r].head] # Broken
  <2>1. runs[r] \in RunType /\ runs[r].cand \in runs[r].have
    BY Domains DEF ChangedInv, TypeOK, TakeBase
  <2>2. runs[r].have \subseteq Commits
    BY <2>1 DEF RunType
  <2> QED BY <2>1, <2>2 DEF ChangedInv, DiffInv, TakeBase
<1>2. 0 \notin Commits
  BY Domains DEF ChangedInv
<1>3. ChangedOutputs(runs[r].cand, runs[r].head) \in SUBSET Output
  BY DEF ChangedOutputs, Exposes
<1> QED BY <1>1, <1>2, <1>3, ChooseInv DEF TakeBase

LEMMA SkipBaseInv ==
  ASSUME ChangedInv, NEW r \in DOMAIN runs, SkipBase(r)
  PROVE  ChangedInv'
<1>1. /\ runs[r] \in RunType /\ ~runs[r].green /\ runs[r].at = "walk"
      /\ runs[r].cand \in runs[r].have /\ runs[r].tries # 0
      /\ flake[runs[r].head] # Broken
  BY Domains DEF ChangedInv, TypeOK, DiffInv, SkipBase
<1>2. CASE MissingBase(r, runs[r])
  BY <1>1, <1>2, MissingBaseInv DEF SkipBase
<1>3. CASE ~WalkEnds(runs[r]) /\ Go(r, NextCandidate(runs[r]))
  <2>1. PICK run : run = runs[r]
    OBVIOUS
  <2>2. PICK e : e = [run EXCEPT !.cand = parent[run.cand], !.tries = run.tries - 1]
    OBVIOUS
  <2>3. /\ run.tries \in 1..AncestryLimit /\ run.tries # 1
        /\ run.have \in SUBSET Commits /\ parent[run.cand] \in run.have
    BY <1>1, <1>3, <2>1, LimitAssumption DEF RunType, WalkEnds
  <2>4. run.tries - 1 \in 0..AncestryLimit /\ run.tries - 1 # 0
    BY <2>3, LimitAssumption
  <2>5. e \in RunType
    BY <1>1, <2>1, <2>2, <2>3, <2>4 DEF RunType
  <2>6. /\ e.at = "walk" /\ e.cand = parent[run.cand] /\ e.have = run.have
        /\ e.tries = run.tries - 1 /\ e.green = run.green /\ e.vouched = run.vouched
        /\ e.base = run.base /\ e.head = run.head
    BY <1>1, <2>1, <2>2 DEF RunType
  <2>7. DiffInv(e) /\ Explains(e)
    BY <1>1, <2>1, <2>6 DEF ChangedInv, DiffInv, Explains
  <2>8. cache \subseteq cache' /\ cache' \in SUBSET Drv
    BY DEF ChangedInv, TypeOK, SkipBase
  <2>9. Go(r, e)
    BY <1>3, <2>1, <2>2 DEF NextCandidate
  <2> QED BY <1>1, <2>1, <2>3, <2>4, <2>5, <2>6, <2>7, <2>8, <2>9, GoInv DEF SkipBase
<1> QED BY <1>2, <1>3 DEF SkipBase

(* An output that was not built was the same at the base (or nobody asked  *)
(* for it), and if the base was vouched for, its run has the explanation.  *)
LEMMA BuildInv ==
  ASSUME ChangedInv, NEW r \in DOMAIN runs, Build(r)
  PROVE  ChangedInv'
<1> DEFINE run == runs[r]
           drv == flake[run.head]
<1>1. /\ run \in RunType /\ ~run.green /\ run.at = "build"
      /\ run.head \in Commits /\ drv \in Tree
      /\ run.chosen \subseteq Exposes(run.head)
  <2>1. run \in RunType /\ run.at = "build" /\ DiffInv(run)
    BY Domains DEF ChangedInv, Build
  <2>2. run.head \in Commits
    BY <2>1 DEF RunType
  <2> QED BY <2>1, <2>2, Domains DEF ChangedInv, DiffInv, ChangedOutputs
<1>2. PICK done \in SUBSET {o \in run.chosen : drv[o] # Throws}, ok \in BOOLEAN :
        /\ ok => done = run.chosen
        /\ cache' = cache \cup {drv[o] : o \in done}
        /\ Go(r, IF ok THEN [run EXCEPT !.at = "ended", !.chosen = {}, !.green = TRUE]
                  ELSE Red(run))
  BY DEF Build
<1>3. \A o \in Exposes(run.head) : drv[o] # Throws => drv[o] \in Drv
  BY <1>1, TreeAssumption DEF Exposes
<1>4. cache \subseteq cache' /\ cache' \in SUBSET Drv
  BY <1>1, <1>2, <1>3 DEF ChangedInv, TypeOK
<1>5. CASE ~ok
  BY <1>1, <1>2, <1>4, <1>5, RedInv DEF Build
<1>6. CASE ok
  <2>1. PICK e : e = [run EXCEPT !.at = "ended", !.chosen = {}, !.green = TRUE]
    OBVIOUS
  <2>2. e \in RunType
    BY <1>1, <2>1 DEF RunType
  <2>3. /\ e.at = "ended" /\ e.green /\ e.head = run.head /\ e.base = run.base
        /\ e.vouched = run.vouched
    BY <1>1, <2>1 DEF RunType
  <2>4. DiffInv(run)
    BY DEF ChangedInv
  <2>5. DiffInv(e)
    BY <1>1, <2>3, <2>4 DEF DiffInv
  <2>6. \A o \in run.chosen : drv[o] # Throws /\ drv[o] \in cache'
    BY <1>2, <1>6
  <2>7. ASSUME NEW o \in Output, drv[o] = Throws
        PROVE  run.base = 0 /\ onMissingBase = "none"
    BY <1>1, <2>4, <2>6, <2>7, MarksAssumption DEF DiffInv, ChangedOutputs, Exposes
  <2>8. ASSUME NEW o \in Output, NEW d, d = drv[o], d \in Drv \ cache'
        PROVE  \/ TookForGranted(e, o, d)
               \/ \E s \in DOMAIN runs : TookForGranted(runs[s], o, d)
    <3>1. o \in Exposes(run.head) /\ o \notin run.chosen /\ d # Throws
      BY <2>6, <2>8, MarksAssumption DEF Exposes
    <3>2. CASE run.base = 0
      BY <1>1, <2>3, <2>4, <2>8, <3>1, <3>2 DEF DiffInv, TookForGranted
    <3>3. CASE run.base # 0
      <4>1. flake[run.base][o] = d
        BY <1>1, <2>4, <2>8, <3>1, <3>3 DEF DiffInv, ChangedOutputs
      <4>2. CASE ~run.vouched
        BY <2>3, <2>8, <3>3, <4>1, <4>2 DEF TookForGranted
      <4>3. CASE run.vouched
        <5>1. PICK s \in DOMAIN runs : runs[s].green /\ runs[s].head = run.base
          BY <2>4, <4>3 DEF DiffInv, GreenRunFor
        <5>2. flake[runs[s].head][o] = d /\ d \in Drv \ cache
          BY <1>4, <2>8, <4>1, <5>1
        <5> QED BY <5>1, <5>2 DEF ChangedInv, HolesExplained
      <4> QED BY <4>2, <4>3
    <3> QED BY <3>2, <3>3
  <2>9. Explains(e)
    BY <2>3, <2>7, <2>8 DEF Explains
  <2>10. Go(r, e)
    BY <1>2, <1>6, <2>1
  <2> QED BY <1>1, <1>4, <2>2, <2>3, <2>5, <2>9, <2>10, GoInv DEF Build
<1> QED BY <1>5, <1>6

-----------------------------------------------------------------------------

LEMMA ChangedInitInv == Init => ChangedInv
<1> SUFFICES ASSUME Init PROVE ChangedInv
  OBVIOUS
<1>1. DOMAIN runs = {} /\ Commits = {} /\ runs = <<>> /\ flake = <<>> /\ parent = <<>>
  BY DEF Init, Commits
<1> QED BY <1>1 DEF Init, ChangedInv, TypeOK, HolesExplained, ThrowingNeverGreen

LEMMA ChangedStepInv ==
  ASSUME ChangedInv, [Next]_vars
  PROVE  ChangedInv'
<1>1. CASE Push
  BY <1>1, PushInv
<1>2. CASE Rewind \/ Dispatch
  BY <1>2, RewindDispatchInv
<1>3. ASSUME NEW r \in DOMAIN runs, HeadFails(r) \/ RunFails(r)
      PROVE  ChangedInv'
  <2>1. cache \subseteq cache' /\ cache' \in SUBSET Drv /\ runs[r].at # "ended"
    BY <1>3 DEF ChangedInv, TypeOK, HeadFails, RunFails
  <2> QED BY <1>3, <2>1, RedInv DEF HeadFails, RunFails
<1>4. ASSUME NEW r \in DOMAIN runs, RunStep(r)
      PROVE  ChangedInv'
  BY <1>3, <1>4, VerifyBaseInv, TakeBaseInv, SkipBaseInv, BuildInv DEF RunStep
<1>5. CASE UNCHANGED vars
  BY <1>5 DEF vars, ChangedInv, TypeOK, DiffInv, HolesExplained, ThrowingNeverGreen, Commits,
     RunType, ChangedOutputs, Exposes, GreenRunFor, TookForGranted
<1> QED BY <1>1, <1>2, <1>4, <1>5 DEF Next

(* The invariant holds of every history and every order of runs.           *)
THEOREM ChangedInvariant == Spec => []ChangedInv
<1>1. ChangedInv /\ [Next]_vars => ChangedInv'
  BY ChangedStepInv
<1> QED BY <1>1, ChangedInitInv, PTL DEF Spec

(* Type correctness, and that a walk never leaves its checkout.            *)
THEOREM ChangedTypeCorrect == Spec => []TypeOK
<1>1. ChangedInv => TypeOK
  BY DEF ChangedInv
<1> QED BY <1>1, ChangedInvariant, PTL

(* Whatever an output of a green run is missing from the cache for, some   *)
(* green run took a commit for granted that no run had succeeded for, or   *)
(* was told to build nothing.                                              *)
THEOREM HolesAlwaysExplained == Spec => []HolesExplained
<1>1. ChangedInv => HolesExplained
  BY DEF ChangedInv
<1> QED BY <1>1, ChangedInvariant, PTL

(* A run with an output that throws is not green.                          *)
THEOREM ThrowingNeverGreenAlways == Spec => []ThrowingNeverGreen
<1>1. ChangedInv => ThrowingNeverGreen
  BY DEF ChangedInv
<1> QED BY <1>1, ChangedInvariant, PTL
=============================================================================
