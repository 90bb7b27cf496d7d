-------------------------- MODULE ProvisionProofs --------------------------
(***************************************************************************)
(* Theorems about Provision and the device flow in it, for any number of   *)
(* runs, any keys, assets and registries, and any times.                   *)
(*                                                                         *)
(* First the flow, which no other part of a step touches.  Then the runs:  *)
(* a step changes one of them, r, and adds to what the others rely on, so  *)
(* what an invariant says of a run is stated of r, the configuration c,    *)
(* the assets stored s and the worker w.                                   *)
(***************************************************************************)
EXTENDS Provision, TLAPS

-----------------------------------------------------------------------------
(* The device flow                                                         *)

FlowType ==
  [at : {"off", "wait", "asking"}, interval : Nat \ {0}, due : Nat \ {0},
   ticked : BOOLEAN, left : 0..Lifetime, busy : 0..ReqTimeout,
   gap : 0..Lifetime, late : BOOLEAN, apart : 0..Lifetime, after : BOOLEAN]

LEMMA Times ==
  /\ Interval \in Nat \ {0} /\ BackOff \in Nat \ {0}
  /\ ReqTimeout \in Nat \ {0} /\ Lifetime \in Nat \ {0}
  /\ 0 \in 0..ReqTimeout /\ 0 \in 0..Lifetime /\ Lifetime \in 0..Lifetime
BY TimesAssumption

LEMMA FlowHasType == FlowInv => flow \in FlowType /\ flow.due <= flow.interval
BY DEF FlowInv, FlowTypeOK, FlowType

LEMMA NoFlowInv ==
  ASSUME \/ flow' = NoFlow
         \/ flow' = [NoFlow EXCEPT !.at = "wait"]
  PROVE  FlowInv'
<1> USE Times
<1>1. flow' \in FlowType
  <2>1. NoFlow \in FlowType
    BY DEF NoFlow, FlowType
  <2> QED BY <2>1 DEF FlowType
<1>2. /\ flow'.at # "asking" /\ flow'.interval = Interval /\ flow'.due = Interval
      /\ flow'.gap = Lifetime /\ flow'.left = Lifetime /\ ~flow'.ticked
  BY DEF NoFlow
<1> QED
  BY <1>1, <1>2 DEF FlowInv, FlowTypeOK, FlowType, IntervalKept

LEMMA AskInv ==
  ASSUME FlowInv, Ask
  PROVE  FlowInv'
<1> USE Times
<1>1. flow \in FlowType /\ flow.due <= flow.interval
  BY FlowHasType
<1>2. flow' = [flow EXCEPT !.at = "asking", !.ticked = FALSE, !.busy = 0, !.gap = 0,
                           !.late = flow.due < flow.interval,
                           !.apart = flow.gap, !.after = flow.late]
  BY DEF Ask
<1>20. PICK l \in BOOLEAN : l <=> flow.due < flow.interval
  OBVIOUS
<1>21. flow' = [flow EXCEPT !.at = "asking", !.ticked = FALSE, !.busy = 0, !.gap = 0,
                           !.late = l, !.apart = flow.gap, !.after = flow.late]
  <2>1. (flow.due < flow.interval) = l
    BY <1>20
  <2> QED BY <1>2, <2>1
<1>3. flow' \in FlowType
  BY <1>1, <1>21 DEF FlowType
<1>4. /\ flow'.interval = flow.interval /\ flow'.due = flow.due /\ flow'.left = flow.left
      /\ flow'.gap = 0 /\ flow'.ticked = FALSE
      /\ flow'.late = l
      /\ flow'.apart = flow.gap /\ flow'.after = flow.late
  BY <1>1, <1>21 DEF FlowType
<1>5. flow.gap >= flow.interval \/ flow.late
  BY <1>1 DEF FlowInv, Ask, FlowType
<1>6. flow.interval \in Nat /\ flow.due \in Nat /\ flow.left \in 0..Lifetime
  BY <1>1 DEF FlowType
<1>7. IntervalKept'
  BY <1>4, <1>5 DEF IntervalKept
<1>8. ~flow'.late => flow.interval = flow.due
  BY <1>1, <1>4, <1>6, <1>20
<1> QED
  BY <1>1, <1>3, <1>4, <1>6, <1>7, <1>8 DEF FlowInv, FlowTypeOK, FlowType

LEMMA AskAgainInv ==
  ASSUME FlowInv, AskAgain
  PROVE  FlowInv'
<1> USE Times
<1>1. flow \in FlowType /\ flow.due <= flow.interval
  BY FlowHasType
<1>2. flow' = [flow EXCEPT !.at = "wait", !.busy = 0]
  BY DEF AskAgain
<1>3. flow' \in FlowType /\ flow'.at = "wait"
  BY <1>1, <1>2 DEF FlowType
<1>4. /\ flow'.interval = flow.interval /\ flow'.due = flow.due /\ flow'.left = flow.left
      /\ flow'.gap = flow.gap /\ flow'.ticked = flow.ticked /\ flow'.late = flow.late
  BY <1>1, <1>2 DEF FlowType
<1> QED
  BY <1>1, <1>3, <1>4 DEF FlowInv, FlowTypeOK, FlowType, IntervalKept

(* slow_down arms the ticker with the interval it raised.                  *)
LEMMA SlowDownInv ==
  ASSUME FlowInv, SlowDown
  PROVE  FlowInv'
<1> USE Times
<1>1. flow \in FlowType
  BY FlowHasType
<1>2. flow' = [flow EXCEPT !.at = "wait", !.interval = @ + BackOff,
                           !.due = flow.interval + BackOff,
                           !.ticked = FALSE, !.late = FALSE, !.busy = 0]
  BY <1>1 DEF SlowDown, Widened, FlowType
<1>20. flow.interval + BackOff \in Nat \ {0}
  BY <1>1 DEF FlowType
<1>3. flow' \in FlowType /\ flow'.at = "wait"
  BY <1>1, <1>2, <1>20 DEF FlowType
<1>4. /\ flow'.interval = flow.interval + BackOff /\ flow'.due = flow.interval + BackOff
      /\ flow'.left = flow.left /\ flow'.gap = flow.gap /\ ~flow'.ticked
  BY <1>1, <1>2 DEF FlowType
<1>5. /\ flow.interval + BackOff \in Nat /\ flow.left \in 0..Lifetime
      /\ flow.gap \in 0..Lifetime
  BY <1>1 DEF FlowType
<1> QED
  BY <1>3, <1>4, <1>5 DEF FlowInv, FlowTypeOK, FlowType, IntervalKept

LEMMA TimePassesInv ==
  ASSUME FlowInv, TimePasses
  PROVE  FlowInv'
<1> USE Times
<1>1. flow \in FlowType /\ flow.due <= flow.interval
  BY FlowHasType
<1>2. flow' = [flow EXCEPT
                 !.left = @ - 1, !.due = Due, !.ticked = @ \/ flow.due = 1,
                 !.busy = IF flow.at = "asking" THEN @ + 1 ELSE @,
                 !.gap = IF @ < Lifetime THEN @ + 1 ELSE @]
  BY DEF TimePasses
<1>3. PICK d : d = Due
  OBVIOUS
<1>4. d \in Nat \ {0} /\ d <= flow.interval
      /\ d = IF flow.due = 1 THEN flow.interval ELSE flow.due - 1
  BY <1>1, <1>3 DEF Due, FlowType
<1>5. PICK b : b = IF flow.at = "asking" THEN flow.busy + 1 ELSE flow.busy
  OBVIOUS
<1>6. b \in 0..ReqTimeout
  BY <1>1, <1>5 DEF FlowType, TimePasses
<1>7. PICK g : g = IF flow.gap < Lifetime THEN flow.gap + 1 ELSE flow.gap
  OBVIOUS
<1>8. g \in 0..Lifetime
  BY <1>1, <1>7 DEF FlowType
<1>9. flow.left - 1 \in 0..Lifetime
  BY <1>1 DEF FlowType, TimePasses
<1>10. flow' = [flow EXCEPT !.left = flow.left - 1, !.due = d,
                            !.ticked = flow.ticked \/ flow.due = 1, !.busy = b, !.gap = g]
  BY <1>1, <1>2, <1>3, <1>5, <1>7 DEF FlowType
<1>11. flow' \in FlowType
  BY <1>1, <1>4, <1>6, <1>8, <1>9, <1>10 DEF FlowType
<1>12. /\ flow'.at = flow.at /\ flow'.interval = flow.interval /\ flow'.due = d
       /\ flow'.left = flow.left - 1 /\ flow'.gap = g /\ flow'.late = flow.late
       /\ flow'.ticked = (flow.ticked \/ flow.due = 1)
       /\ flow'.apart = flow.apart /\ flow'.after = flow.after
  BY <1>1, <1>10 DEF FlowType
<1>13. /\ flow.interval \in Nat /\ flow.due \in Nat \ {0} /\ flow.left \in 1..Lifetime
       /\ flow.gap \in 0..Lifetime
  BY <1>1 DEF FlowType, TimePasses
<1>14. flow.interval <= d + (Lifetime - (flow.left - 1))
  BY <1>4, <1>13 DEF FlowInv
<1>15. ASSUME ~flow.late
       PROVE  flow.interval <= g + d
  BY <1>4, <1>7, <1>13, <1>15 DEF FlowInv
<1>16. ASSUME ~flow.late, flow.ticked \/ flow.due = 1
       PROVE  flow.interval <= g
  BY <1>7, <1>13, <1>16 DEF FlowInv
<1>17. IntervalKept'
  BY <1>12 DEF IntervalKept, FlowInv
<1> QED
  BY <1>4, <1>11, <1>12, <1>14, <1>15, <1>16, <1>17 DEF FlowInv, FlowTypeOK, FlowType

LEMMA FlowStepsInv ==
  ASSUME FlowInv, FlowSteps
  PROVE  FlowInv' /\ (flow'.at = "off" <=> flow.at = "off")
<1>1. flow \in FlowType
  BY FlowHasType
<1>2. FlowInv'
  BY AskInv, AskAgainInv, SlowDownInv, TimePassesInv DEF FlowSteps
<1>3. flow.at # "off"
  BY DEF FlowSteps, Ask, AskAgain, SlowDown, TimePasses
<1>4. flow'.at # "off"
  BY <1>1, <1>3 DEF FlowSteps, Ask, AskAgain, SlowDown, Widened, TimePasses, FlowType
<1> QED BY <1>2, <1>3, <1>4

-----------------------------------------------------------------------------
(* Runs                                                                    *)

RunType ==
  [cmd : Commands \cup {"none"}, at : Places, have : SUBSET Field, token : BOOLEAN,
   seen : Key \cup {None, Blank}, text : Key \cup {Blank}, typed : BOOLEAN,
   bundle : Bundles \cup {{}}, todo : SUBSET UNION Bundles]

WorkerType == [by : Proc, assets : Bundles, token : BOOLEAN]

(* What a run is by itself.                                                *)
RunShape(r) ==
  /\ r \in RunType
  /\ r.cmd = "none" <=> r = Off
  /\ r.at = "off" <=> r = Off
  /\ r.todo \subseteq r.bundle
  /\ r.at = "bucket" <=> r.todo # {}
  /\ r.at \in {"wtoken", "confirm"} => r.cmd = "init"
  /\ r.at \in {"form", "push"} /\ r.cmd = "configure" /\ ~r.typed => r.text = Prefill(r.seen)
  /\ r.at \in Deploying \ {"script", "assets"} => r.bundle \in Bundles

(* What the run r of p relies on.                                          *)
RunFinds(p, r, c, s, w) ==
  /\ r.at \in Deploying => c # None
  /\ r.at \in {"bucket", "deploy"} => r.bundle \subseteq s \cup r.todo
  /\ r.at \in {"route", "complete"} =>
       w # None /\ (w.by = p => w = [by |-> p, assets |-> r.bundle, token |-> r.token])

(* What a step may do to the cloud as far as the others are concerned.     *)
CloudGrows(p) ==
  /\ host' \in Hosts /\ route' \in BOOLEAN /\ saved' \subseteq Field
  /\ config' \in Key \cup {None, Blank} /\ (config # None => config' # None)
  /\ stored \subseteq stored' /\ stored' \subseteq UNION Bundles
  /\ worker' = worker \/ (worker' \in WorkerType /\ worker'.by = p /\ worker'.assets \subseteq stored')

LEMMA RunParts ==
  ASSUME ProvInv, NEW p \in Proc
  PROVE  RunShape(proc[p]) /\ RunFinds(p, proc[p], config, stored, worker)
BY DEF ProvInv, TypeOK, RunInv, RunType, RunShape, RunFinds, Deployed, At

LEMMA OffShape == RunShape(Off)
<1>1. Off \in RunType
  BY DEF Off, RunType, Places
<1> QED
  BY <1>1 DEF Off, RunShape, Deploying

(* The others keep what they rely on.                                      *)
LEMMA OthersFind ==
  ASSUME NEW p \in Proc, NEW q \in Proc \ {p}, CloudGrows(p), NEW r,
         RunFinds(q, r, config, stored, worker)
  PROVE  RunFinds(q, r, config', stored', worker')
<1>1. /\ config # None => config' # None
      /\ stored \subseteq stored'
      /\ worker' = worker \/ (worker' # None /\ worker'.by # q)
  BY NoneAssumption DEF CloudGrows, WorkerType
<1> QED BY <1>1 DEF RunFinds

(* One run moves on to r.                                                  *)
LEMMA OneRun ==
  ASSUME ProvInv, FlowInv', NEW p \in Proc, NEW r,
         proc' = [proc EXCEPT ![p] = r], CloudGrows(p),
         RunShape(r), RunFinds(p, r, config', stored', worker'),
         r.at = "flow" => \A q \in Proc \ {p} : proc[q] = Off,
         r # Off => \A q \in Proc \ {p} : ~At(q, "flow"),
         flow'.at # "off" <=> (r.at = "flow" \/ \E q \in Proc \ {p} : At(q, "flow"))
  PROVE  ProvInv'
<1>1. proc \in [Proc -> RunType]
  BY DEF ProvInv, TypeOK, RunType
<1>2. proc'[p] = r /\ \A q \in Proc \ {p} : proc'[q] = proc[q]
  BY <1>1
<1>3. ASSUME NEW q \in Proc
      PROVE  RunShape(proc'[q]) /\ RunFinds(q, proc'[q], config', stored', worker')
  BY <1>2, RunParts, OthersFind
<1>4. worker' # None => worker'.assets \subseteq stored'
  BY DEF CloudGrows, ProvInv
<1>5. ASSUME NEW q \in Proc
      PROVE  At(q, "flow")' => \A o \in Proc \ {q} : proc'[o] = Off
  <2>1. CASE q = p
    BY <2>1, <1>2 DEF At
  <2>2. CASE q # p
    <3>1. ASSUME At(q, "flow")'
          PROVE  At(q, "flow") /\ r = Off
      BY <2>2, <3>1, <1>2 DEF At
    <3> QED BY <2>2, <3>1, <1>2 DEF ProvInv, RunInv
  <2> QED BY <2>1, <2>2
<1>6. (flow'.at # "off") <=> (\E q \in Proc : At(q, "flow")')
  BY <1>2 DEF At
<1>7. TypeOK'
  <2>1. FlowTypeOK'
    BY DEF FlowInv
  <2>2. proc' \in [Proc -> RunType]
    BY <1>1 DEF RunShape
  <2>3. worker' = None \/ worker' \in WorkerType
    BY DEF CloudGrows, ProvInv, TypeOK, WorkerType
  <2> QED
    BY <1>3, <1>6, <2>1, <2>2, <2>3 DEF TypeOK, CloudGrows, RunType, RunShape, WorkerType, At
<1>8. ASSUME NEW q \in Proc
      PROVE  RunInv(q)'
  BY <1>3, <1>5 DEF RunInv, RunShape, RunFinds, Deployed, Deploying, Prefill, At
<1> QED BY <1>4, <1>7, <1>8 DEF ProvInv

(* The same, for a step that has nothing to do with the device flow.       *)
LEMMA QuietRun ==
  ASSUME ProvInv, NEW p \in Proc, NEW r,
         proc' = [proc EXCEPT ![p] = r], UNCHANGED flow, CloudGrows(p),
         RunShape(r), RunFinds(p, r, config', stored', worker'),
         proc[p] # Off \/ flow.at = "off",
         ~At(p, "flow"), r.at # "flow"
  PROVE  ProvInv'
<1>1. FlowInv'
  BY DEF ProvInv, FlowInv, FlowTypeOK, IntervalKept
<1>2. \A q \in Proc \ {p} : ~At(q, "flow")
  BY DEF ProvInv, TypeOK, RunInv
<1>3. flow'.at # "off" <=> (r.at = "flow" \/ \E q \in Proc \ {p} : At(q, "flow"))
  BY DEF ProvInv, TypeOK
<1> QED BY <1>1, <1>2, <1>3, OneRun

LEMMA CloudStays ==
  ASSUME ProvInv, NEW p \in Proc, UNCHANGED cloud, saved' \subseteq Field
  PROVE  CloudGrows(p)
BY DEF ProvInv, TypeOK, CloudGrows, cloud

LEMMA SavedTypes ==
  ASSUME ProvInv, NEW e \in SUBSET Field
  PROVE  Saves(e) \subseteq Field
BY DEF ProvInv, TypeOK, Saves

LEMMA SavedStays ==
  ASSUME ProvInv, UNCHANGED saved
  PROVE  saved' \subseteq Field
BY DEF ProvInv, TypeOK

LEMMA HostFieldTypes ==
  /\ HostField \subseteq Field /\ OciField \subseteq Field /\ CfField \subseteq Field
  /\ "github-token" \in Field
BY DEF HostField, OciField, CfField, Field

(* A run that is not off.                                                  *)
LEMMA Underway ==
  ASSUME ProvInv, NEW p \in Proc, proc[p] # Off
  PROVE  /\ proc[p] \in RunType /\ proc[p].at # "off"
         /\ proc[p].cmd # "none" /\ proc[p].cmd \in {"init", "configure"}
         /\ ~At(p, "bucket") => proc[p].todo = {}
BY RunParts, CommandsAssumption DEF RunShape, RunType, At

LEMMA NotOff ==
  ASSUME NEW p, NEW s, At(p, s), s # "off"
  PROVE  proc[p] # Off
BY DEF At, Off

LEMMA EndsInv ==
  ASSUME ProvInv, NEW p \in Proc, Ends(p), proc[p] # Off, ~At(p, "flow"),
         CloudGrows(p), UNCHANGED flow
  PROVE  ProvInv'
<1>1. RunShape(Off) /\ Off.at = "off"
  BY OffShape DEF Off
<1>2. RunFinds(p, Off, config', stored', worker')
  BY <1>1 DEF RunFinds, Deploying
<1> QED BY <1>1, <1>2, QuietRun DEF Ends, Put

(* Before anything is read or pushed a run relies on nothing.              *)
Asking ==
  {"cloudflare", "cfform", "registry", "tokenform", "ociform", "wtoken", "confirm", "fetch"}

LEMMA AskingInv ==
  ASSUME ProvInv, NEW p \in Proc, NEW r \in RunType, Put(p, r), ~At(p, "flow"),
         proc[p] # Off \/ flow.at = "off",
         r.at \in Asking, r.cmd # "none", r.todo = {},
         r.at \in {"wtoken", "confirm"} => r.cmd = "init",
         UNCHANGED <<cloud, flow>>, saved' \subseteq Field
  PROVE  ProvInv'
<1>1. r # Off /\ r.at # "off"
  BY DEF Off, Asking
<1>2. RunShape(r)
  BY <1>1 DEF RunShape, Asking, Deploying
<1>3. RunFinds(p, r, config', stored', worker')
  BY DEF RunFinds, Asking, Deploying
<1> QED BY <1>2, <1>3, CloudStays, QuietRun DEF Put, Asking

LEMMA GotoAsking ==
  ASSUME ProvInv, NEW p \in Proc, NEW s \in Asking \ {"wtoken", "confirm"}, Goto(p, s), proc[p] # Off,
         ~At(p, "flow"), ~At(p, "bucket"),
         UNCHANGED <<cloud, flow>>, saved' \subseteq Field
  PROVE  ProvInv'
<1>1. proc[p] \in RunType /\ proc[p].cmd # "none" /\ proc[p].todo = {}
  BY Underway
<1>2. PICK r : r = [proc[p] EXCEPT !.at = s]
  OBVIOUS
<1>3. r \in RunType
  BY <1>1, <1>2 DEF RunType, Asking, Places
<1>4. r.at = s /\ r.cmd # "none" /\ r.todo = {}
  BY <1>1, <1>2 DEF RunType
<1>5. Put(p, r)
  BY <1>2 DEF Goto, Put
<1> QED BY <1>3, <1>4, <1>5, AskingInv

LEMMA LoggedInInv ==
  ASSUME ProvInv, NEW p \in Proc, NEW e \in SUBSET Field, LoggedIn(p, e), proc[p] # Off,
         ~At(p, "flow"), ~At(p, "bucket"),
         UNCHANGED <<cloud, flow>>, saved' \subseteq Field
  PROVE  ProvInv'
<1>1. proc[p] \in RunType /\ proc[p].cmd # "none" /\ proc[p].todo = {}
  BY Underway
<1>2. PICK s : s = IF proc[p].cmd = "init" THEN "wtoken" ELSE "fetch"
  OBVIOUS
<1>3. PICK h : h = proc[p].have \cup (e \ {"oci-username"})
  OBVIOUS
<1>4. s \in Places /\ s \in Asking /\ h \in SUBSET Field
  BY <1>1, <1>2, <1>3 DEF RunType, Places, Asking
<1>5. PICK r : r = [proc[p] EXCEPT !.at = s, !.have = h]
  OBVIOUS
<1>6. r \in RunType
  BY <1>1, <1>4, <1>5 DEF RunType
<1>7. r.at = s /\ r.cmd = proc[p].cmd /\ r.todo = {}
  BY <1>1, <1>5 DEF RunType
<1>8. Put(p, r)
  BY <1>1, <1>2, <1>3, <1>5 DEF LoggedIn, Put, RunType
<1> QED BY <1>1, <1>2, <1>4, <1>6, <1>7, <1>8, AskingInv

-----------------------------------------------------------------------------
(* The steps that gather credentials                                       *)

LEMMA StartInv ==
  ASSUME ProvInv, NEW p \in Proc, Start(p)
  PROVE  ProvInv'
<1>1. PICK c \in Commands :
        Put(p, [Off EXCEPT !.cmd = c, !.at = IF c = "init" THEN "cloudflare" ELSE "registry"])
  BY DEF Start
<1>2. PICK r : r = [Off EXCEPT !.cmd = c, !.at = IF c = "init" THEN "cloudflare" ELSE "registry"]
  OBVIOUS
<1>3. Off \in RunType /\ Off.at = "off" /\ Off.todo = {}
  BY OffShape DEF RunShape, Off
<1>4. r \in RunType /\ r.at \in Asking /\ r.cmd = c /\ r.todo = {}
  BY <1>2, <1>3 DEF RunType, Asking, Places
<1>5. r.at \in {"cloudflare", "registry"} /\ ~At(p, "flow")
  BY <1>2, <1>3 DEF RunType, Start, At
<1> QED
  BY <1>1, <1>2, <1>4, <1>5, AskingInv, SavedStays, CommandsAssumption DEF Start

LEMMA ResolveCloudflareInv ==
  ASSUME ProvInv, NEW p \in Proc, ResolveCloudflare(p)
  PROVE  ProvInv'
<1>1. /\ proc[p] # Off /\ ~At(p, "flow") /\ ~At(p, "bucket")
      /\ UNCHANGED <<cloud, flow>> /\ saved' \subseteq Field
  BY NotOff, SavedStays DEF ResolveCloudflare, At
<1>2. CASE Put(p, [proc[p] EXCEPT !.at = "registry", !.have = CfField])
  <2>1. proc[p] \in RunType /\ proc[p].cmd # "none" /\ proc[p].todo = {}
    BY <1>1, Underway
  <2>2. PICK r : r = [proc[p] EXCEPT !.at = "registry", !.have = CfField]
    OBVIOUS
  <2>3. r \in RunType /\ r.at = "registry" /\ r.cmd # "none" /\ r.todo = {}
    BY <2>1, <2>2, HostFieldTypes DEF RunType, Asking, Places
  <2> QED BY <1>1, <1>2, <2>2, <2>3, AskingInv DEF Asking
<1>3. CASE Goto(p, "cfform")
  BY <1>1, <1>3, GotoAsking DEF Asking
<1> QED BY <1>2, <1>3 DEF ResolveCloudflare

LEMMA CloudflareFormInv ==
  ASSUME ProvInv, NEW p \in Proc, CloudflareForm(p)
  PROVE  ProvInv'
<1>1. /\ proc[p] # Off /\ ~At(p, "flow") /\ ~At(p, "bucket")
      /\ UNCHANGED <<cloud, flow>>
  BY NotOff DEF CloudflareForm, At
<1>2. ASSUME NEW e \in SUBSET CfField, saved' = Saves(e),
             Put(p, [proc[p] EXCEPT !.at = "registry", !.have = IF e = CfField THEN e ELSE {}])
      PROVE  ProvInv'
  <2>1. proc[p] \in RunType /\ proc[p].cmd # "none" /\ proc[p].todo = {}
    BY <1>1, Underway
  <2>2. PICK r : r = [proc[p] EXCEPT !.at = "registry", !.have = IF e = CfField THEN e ELSE {}]
    OBVIOUS
  <2>3. r \in RunType /\ r.at = "registry" /\ r.cmd # "none" /\ r.todo = {}
    BY <2>1, <2>2, HostFieldTypes DEF RunType, Asking, Places
  <2>4. saved' \subseteq Field
    BY <1>2, HostFieldTypes, SavedTypes
  <2> QED BY <1>1, <1>2, <2>2, <2>3, <2>4, AskingInv DEF Asking
<1>3. ASSUME NEW e \in {{}, {"cf-token"}}, saved' = Saves(e), Ends(p)
      PROVE  ProvInv'
  <2>1. saved' \subseteq Field
    BY <1>3, SavedTypes DEF Field, CfField
  <2> QED BY <1>1, <1>3, <2>1, CloudStays, EndsInv
<1> QED BY <1>2, <1>3 DEF CloudflareForm

LEMMA ResolveTokenInv ==
  ASSUME ProvInv, NEW p \in Proc, ResolveToken(p)
  PROVE  ProvInv'
<1>1. /\ proc[p] # Off /\ ~At(p, "flow") /\ ~At(p, "bucket")
      /\ UNCHANGED <<cloud, flow>> /\ saved' \subseteq Field
  BY NotOff, SavedStays DEF ResolveToken, At
<1>2. CASE LoggedIn(p, HostField)
  BY <1>1, <1>2, LoggedInInv, HostFieldTypes
<1>3. CASE Goto(p, "tokenform")
  BY <1>1, <1>3, GotoAsking DEF Asking
<1> QED BY <1>2, <1>3 DEF ResolveToken

LEMMA ResolvePairInv ==
  ASSUME ProvInv, NEW p \in Proc, ResolvePair(p)
  PROVE  ProvInv'
<1>1. /\ proc[p] # Off /\ ~At(p, "flow") /\ ~At(p, "bucket")
      /\ UNCHANGED <<cloud, flow>> /\ saved' \subseteq Field
  BY NotOff, SavedStays DEF ResolvePair, At
<1>2. CASE LoggedIn(p, OciField)
  BY <1>1, <1>2, LoggedInInv, HostFieldTypes
<1>3. CASE Goto(p, "ociform")
  BY <1>1, <1>3, GotoAsking DEF Asking
<1> QED BY <1>2, <1>3 DEF ResolvePair

LEMMA TokenFormInv ==
  ASSUME ProvInv, NEW p \in Proc, TokenForm(p)
  PROVE  ProvInv'
<1>1. /\ proc[p] # Off /\ ~At(p, "flow") /\ ~At(p, "bucket")
      /\ UNCHANGED <<cloud, flow>>
  BY NotOff DEF TokenForm, At
<1>2. ASSUME NEW e \in SUBSET HostField, saved' = Saves(e), LoggedIn(p, e)
      PROVE  ProvInv'
  BY <1>1, <1>2, LoggedInInv, SavedTypes, HostFieldTypes
<1>3. CASE Ends(p) /\ UNCHANGED saved
  BY <1>1, <1>3, EndsInv, CloudStays, SavedStays
<1> QED BY <1>2, <1>3 DEF TokenForm

LEMMA OciFormInv ==
  ASSUME ProvInv, NEW p \in Proc, OciForm(p)
  PROVE  ProvInv'
<1>1. /\ proc[p] # Off /\ ~At(p, "flow") /\ ~At(p, "bucket")
      /\ UNCHANGED <<cloud, flow>>
  BY NotOff DEF OciForm, At
<1>2. PICK e \in SUBSET OciField, done \in {{}, {"oci-username"}, OciField} :
        /\ saved' = Saves(e \cap done \cap HostField) \ (done \ e)
        /\ IF done = OciField THEN LoggedIn(p, e) ELSE Ends(p)
  BY DEF OciForm
<1>3. saved' \subseteq Field
  <2>1. e \cap done \cap HostField \in SUBSET Field
    BY HostFieldTypes
  <2> QED BY <1>2, <2>1, SavedTypes
<1>4. CASE LoggedIn(p, e)
  BY <1>1, <1>3, <1>4, LoggedInInv, HostFieldTypes
<1>5. CASE Ends(p)
  BY <1>1, <1>3, <1>5, EndsInv, CloudStays
<1> QED BY <1>2, <1>4, <1>5

LEMMA WorkerTokenInv ==
  ASSUME ProvInv, NEW p \in Proc, WorkerToken(p)
  PROVE  ProvInv'
<1>1. /\ proc[p] # Off /\ ~At(p, "flow") /\ ~At(p, "bucket")
      /\ UNCHANGED <<cloud, flow>> /\ saved' \subseteq Field
  BY NotOff, SavedStays DEF WorkerToken, At
<1>2. PICK t \in {FALSE, host = Ghcr} : Put(p, [proc[p] EXCEPT !.at = "confirm", !.token = t])
  BY DEF WorkerToken
<1>3. proc[p] \in RunType /\ proc[p].cmd # "none" /\ proc[p].todo = {}
  BY <1>1, Underway
<1>4. PICK r : r = [proc[p] EXCEPT !.at = "confirm", !.token = t]
  OBVIOUS
<1>5. t \in BOOLEAN
  OBVIOUS
<1>6. r \in RunType /\ r.at \in Asking /\ r.cmd = "init" /\ r.todo = {}
  BY <1>1, <1>3, <1>4, <1>5, RunParts DEF WorkerToken, At, RunShape, RunType, Asking, Places
<1> QED BY <1>1, <1>2, <1>4, <1>6, AskingInv

-----------------------------------------------------------------------------
(* The device flow, which one run has to itself                            *)

LEMMA FlowRunsInv ==
  ASSUME ProvInv, FlowRuns
  PROVE  ProvInv'
<1>1. FlowInv' /\ (flow'.at = "off" <=> flow.at = "off")
  BY FlowStepsInv DEF ProvInv, FlowRuns
<1>2. TypeOK'
  BY <1>1 DEF ProvInv, TypeOK, FlowInv, FlowRuns, cloud, At
<1>3. ASSUME NEW p \in Proc
      PROVE  RunInv(p)'
  BY DEF ProvInv, RunInv, FlowRuns, cloud, At, Deployed, Prefill
<1> QED BY <1>1, <1>2, <1>3 DEF ProvInv, FlowRuns, cloud

LEMMA DeviceFormInv ==
  ASSUME ProvInv, NEW p \in Proc, DeviceForm(p)
  PROVE  ProvInv'
<1>1. proc[p] # Off /\ ~At(p, "bucket")
  BY NotOff DEF DeviceForm, At
<1>2. proc[p] \in RunType /\ proc[p].cmd # "none" /\ proc[p].todo = {}
  BY <1>1, Underway
<1>3. PICK r : r = [proc[p] EXCEPT !.at = "flow"]
  OBVIOUS
<1>4. r \in RunType /\ r.at = "flow" /\ r.cmd = proc[p].cmd /\ r.todo = {}
  BY <1>2, <1>3 DEF RunType, Places
<1>5. RunShape(r)
  BY <1>2, <1>4 DEF RunShape, Deploying, Off
<1>6. RunFinds(p, r, config', stored', worker')
  BY <1>4 DEF RunFinds, Deploying
<1>7. FlowInv' /\ flow'.at # "off"
  BY NoFlowInv DEF DeviceForm, FlowBegins, NoFlow
<1>8. CloudGrows(p)
  BY CloudStays, SavedStays DEF DeviceForm
<1>9. \A q \in Proc \ {p} : proc[q] = Off /\ ~At(q, "flow")
  <2>1. Off.at = "off"
    BY DEF Off
  <2> QED BY <2>1 DEF DeviceForm, At
<1>10. proc' = [proc EXCEPT ![p] = r]
  BY <1>3 DEF DeviceForm, Goto
<1> QED BY <1>4, <1>5, <1>6, <1>7, <1>8, <1>9, <1>10, OneRun

(* The flow is over, and the run off or one that has logged in.            *)
LEMMA FlowOverInv ==
  ASSUME ProvInv, NEW p \in Proc, At(p, "flow"), flow' = NoFlow, NEW r, Put(p, r),
         r = Off \/ (RunShape(r) /\ r.at \in Asking), UNCHANGED cloud, saved' \subseteq Field
  PROVE  ProvInv'
<1>1. FlowInv' /\ flow'.at = "off"
  BY NoFlowInv DEF NoFlow
<1>20. Off.at = "off"
  BY DEF Off
<1>2. \A q \in Proc \ {p} : proc[q] = Off /\ ~At(q, "flow")
  BY <1>20 DEF ProvInv, RunInv, At
<1>3. RunShape(r) /\ r.at \notin Deploying /\ r.at # "flow"
  BY <1>20, OffShape DEF Asking, Deploying
<1>4. RunFinds(p, r, config', stored', worker')
  BY <1>3 DEF RunFinds, Deploying
<1> QED BY <1>1, <1>2, <1>3, <1>4, CloudStays, OneRun DEF Put

LEMMA FlowEndsInv ==
  ASSUME ProvInv, NEW p \in Proc, FlowEnds(p)
  PROVE  ProvInv'
<1>1. At(p, "flow") /\ UNCHANGED cloud /\ flow' = NoFlow
  BY DEF FlowEnds, FlowToken, FlowError
<1>2. CASE saved' = Saves({"github-token"}) /\ LoggedIn(p, {"github-token"})
  <2>1. /\ proc[p] \in RunType /\ proc[p].cmd # "none" /\ proc[p].todo = {}
        /\ proc[p].cmd \in {"init", "configure"}
    BY <1>1, NotOff, Underway DEF At
  <2>2. PICK s : s = IF proc[p].cmd = "init" THEN "wtoken" ELSE "fetch"
    OBVIOUS
  <2>3. PICK h : h = proc[p].have \cup ({"github-token"} \ {"oci-username"})
    OBVIOUS
  <2>4. s \in Places /\ s \in Asking /\ h \in SUBSET Field
    BY <2>1, <2>2, <2>3, HostFieldTypes DEF RunType, Places, Asking
  <2>5. PICK r : r = [proc[p] EXCEPT !.at = s, !.have = h]
    OBVIOUS
  <2>6. r \in RunType
    BY <2>1, <2>4, <2>5 DEF RunType
  <2>7. r.at = s /\ r.cmd = proc[p].cmd /\ r.todo = {}
    BY <2>1, <2>5 DEF RunType
  <2>8. RunShape(r)
    BY <2>1, <2>2, <2>4, <2>6, <2>7 DEF RunShape, Asking, Deploying, Off
  <2>9. Put(p, r)
    BY <1>2, <2>1, <2>2, <2>3, <2>5 DEF LoggedIn, Put, RunType
  <2> QED BY <1>1, <1>2, <2>4, <2>7, <2>8, <2>9, FlowOverInv, SavedTypes, HostFieldTypes
<1>3. CASE Ends(p) /\ UNCHANGED saved
  BY <1>1, <1>3, FlowOverInv, SavedStays DEF Ends
<1> QED BY <1>2, <1>3 DEF FlowEnds

LEMMA ExitInv ==
  ASSUME ProvInv, NEW p \in Proc, Exit(p)
  PROVE  ProvInv'
<1>1. saved' \subseteq Field /\ UNCHANGED cloud
  BY SavedStays DEF Exit
<1>2. CASE At(p, "flow")
  BY <1>1, <1>2, FlowOverInv DEF Exit, Ends
<1>3. CASE ~At(p, "flow")
  BY <1>1, <1>3, EndsInv, CloudStays DEF Exit
<1> QED BY <1>2, <1>3

(* `aeroflare auth` changes what is saved and nothing else.                *)
LEMMA AuthInv ==
  ASSUME ProvInv, AuthSet \/ AuthImport \/ AuthRemove
  PROVE  ProvInv'
<1>1. saved' \subseteq Field
  <2>1. CASE AuthSet
    BY <2>1, SavedTypes, HostFieldTypes DEF AuthSet
  <2>2. CASE AuthImport
    BY <2>2, SavedTypes, HostFieldTypes DEF AuthImport
  <2>3. CASE AuthRemove
    BY <2>3 DEF AuthRemove, ProvInv, TypeOK
  <2> QED BY <2>1, <2>2, <2>3
<1>2. UNCHANGED <<cloud, proc, flow>>
  BY DEF AuthSet, AuthImport, AuthRemove
<1>3. FlowInv'
  BY <1>2 DEF ProvInv, FlowInv, FlowTypeOK, IntervalKept
<1>4. TypeOK'
  BY <1>1, <1>2, <1>3 DEF ProvInv, TypeOK, FlowInv, cloud, At
<1>5. ASSUME NEW p \in Proc
      PROVE  RunInv(p)'
  BY <1>2 DEF ProvInv, RunInv, cloud, At, Deployed, Prefill
<1> QED BY <1>2, <1>3, <1>4, <1>5 DEF ProvInv, cloud

-----------------------------------------------------------------------------
(* The steps that read the manifest and write it                           *)

LEMMA ConfirmInv ==
  ASSUME ProvInv, NEW p \in Proc, Confirm(p)
  PROVE  ProvInv'
<1>1. /\ proc[p] # Off /\ ~At(p, "flow") /\ ~At(p, "bucket")
      /\ UNCHANGED <<cloud, flow>> /\ saved' \subseteq Field /\ CloudGrows(p)
  BY NotOff, SavedStays, CloudStays DEF Confirm, At
<1>2. CASE Goto(p, "push")
  <2>1. proc[p] \in RunType /\ proc[p].cmd = "init" /\ proc[p].todo = {}
    BY <1>1, Underway, RunParts DEF Confirm, At, RunShape
  <2>2. PICK r : r = [proc[p] EXCEPT !.at = "push"]
    OBVIOUS
  <2>3. r \in RunType /\ r.at = "push" /\ r.cmd = "init" /\ r.todo = {}
    BY <2>1, <2>2 DEF RunType, Places
  <2>4. RunShape(r)
    BY <2>3 DEF RunShape, Deploying, Off
  <2>5. RunFinds(p, r, config', stored', worker')
    BY <2>3 DEF RunFinds, Deploying
  <2> QED BY <1>1, <1>2, <2>2, <2>3, <2>4, <2>5, QuietRun DEF Goto
<1>3. CASE Ends(p)
  BY <1>1, <1>3, EndsInv
<1> QED BY <1>2, <1>3 DEF Confirm

LEMMA FetchInv ==
  ASSUME ProvInv, NEW p \in Proc, Fetch(p)
  PROVE  ProvInv'
<1>1. /\ proc[p] # Off /\ ~At(p, "flow") /\ ~At(p, "bucket")
      /\ UNCHANGED <<cloud, flow>> /\ saved' \subseteq Field /\ CloudGrows(p)
  BY NotOff, SavedStays, CloudStays DEF Fetch, At
<1>2. PICK k \in Annotations :
        Put(p, [proc[p] EXCEPT !.at = "form", !.seen = k, !.text = Prefill(k)])
  BY DEF Fetch
<1>3. k \in Key \cup {None, Blank} /\ Prefill(k) \in Key \cup {Blank}
  BY DEF Annotations, Prefill, ProvInv, TypeOK
<1>4. proc[p] \in RunType /\ proc[p].cmd # "none" /\ proc[p].todo = {}
  BY <1>1, Underway
<1>5. PICK t : t = Prefill(k)
  OBVIOUS
<1>6. PICK r : r = [proc[p] EXCEPT !.at = "form", !.seen = k, !.text = t]
  OBVIOUS
<1>7. r \in RunType
  BY <1>3, <1>4, <1>5, <1>6 DEF RunType, Places
<1>8. r.at = "form" /\ r.cmd # "none" /\ r.todo = {} /\ r.text = Prefill(r.seen)
  BY <1>4, <1>5, <1>6 DEF RunType
<1>9. RunShape(r)
  BY <1>7, <1>8 DEF RunShape, Deploying, Off
<1>10. RunFinds(p, r, config', stored', worker')
  BY <1>8 DEF RunFinds, Deploying
<1> QED BY <1>1, <1>2, <1>5, <1>6, <1>8, <1>9, <1>10, QuietRun DEF Put

LEMMA KeyFormInv ==
  ASSUME ProvInv, NEW p \in Proc, KeyForm(p)
  PROVE  ProvInv'
<1>1. /\ proc[p] # Off /\ ~At(p, "flow") /\ ~At(p, "bucket")
      /\ UNCHANGED <<cloud, flow>> /\ saved' \subseteq Field /\ CloudGrows(p)
  BY NotOff, SavedStays, CloudStays DEF KeyForm, At
<1>2. proc[p] \in RunType /\ proc[p].cmd # "none" /\ proc[p].todo = {}
  BY <1>1, Underway
<1>3. CASE Goto(p, "push")
  <2>1. PICK r : r = [proc[p] EXCEPT !.at = "push"]
    OBVIOUS
  <2>2. r \in RunType
    BY <1>2, <2>1 DEF RunType, Places
  <2>3. /\ r.at = "push" /\ r.cmd = proc[p].cmd /\ r.todo = {}
        /\ r.typed = proc[p].typed /\ r.text = proc[p].text /\ r.seen = proc[p].seen
    BY <1>2, <2>1 DEF RunType
  <2>4. proc[p].cmd = "configure" /\ ~proc[p].typed => proc[p].text = Prefill(proc[p].seen)
    BY RunParts DEF RunShape, KeyForm, At
  <2>5. RunShape(r)
    BY <1>2, <2>2, <2>3, <2>4 DEF RunShape, Deploying, Off
  <2>6. RunFinds(p, r, config', stored', worker')
    BY <2>3 DEF RunFinds, Deploying
  <2> QED BY <1>1, <1>3, <2>1, <2>3, <2>5, <2>6, QuietRun DEF Goto
<1>4. ASSUME NEW k \in Key \cup {Blank},
             Put(p, [proc[p] EXCEPT !.at = "push", !.text = k, !.typed = TRUE])
      PROVE  ProvInv'
  <2>1. PICK r : r = [proc[p] EXCEPT !.at = "push", !.text = k, !.typed = TRUE]
    OBVIOUS
  <2>2. r \in RunType
    BY <1>2, <2>1 DEF RunType, Places
  <2>3. r.at = "push" /\ r.cmd = proc[p].cmd /\ r.todo = {} /\ r.typed
    BY <1>2, <2>1 DEF RunType
  <2>4. RunShape(r)
    BY <1>2, <2>2, <2>3 DEF RunShape, Deploying, Off
  <2>5. RunFinds(p, r, config', stored', worker')
    BY <2>3 DEF RunFinds, Deploying
  <2> QED BY <1>1, <1>4, <2>1, <2>3, <2>4, <2>5, QuietRun DEF Put
<1>5. CASE Ends(p)
  BY <1>1, <1>5, EndsInv
<1> QED BY <1>3, <1>4, <1>5 DEF KeyForm

LEMMA WrittenTypes ==
  ASSUME ProvInv, NEW p \in Proc
  PROVE  Written(p) \in Key \cup {Blank} /\ Written(p) # None
BY KeyAssumption DEF ProvInv, TypeOK, Written

LEMMA PushConfigInv ==
  ASSUME ProvInv, NEW p \in Proc, PushConfig(p)
  PROVE  ProvInv'
<1>1. /\ proc[p] # Off /\ ~At(p, "flow") /\ ~At(p, "bucket")
      /\ UNCHANGED <<host, stored, worker, route, saved, flow>>
  BY NotOff DEF PushConfig, At
<1>2. config' = config \/ config' = Written(p)
  BY DEF PushConfig
<1>3. CloudGrows(p)
  BY <1>1, <1>2, WrittenTypes DEF CloudGrows, ProvInv, TypeOK
<1>4. CASE config' = Written(p) /\ Goto(p, "script")
  <2>1. proc[p] \in RunType /\ proc[p].cmd # "none" /\ proc[p].todo = {}
    BY <1>1, Underway
  <2>2. PICK r : r = [proc[p] EXCEPT !.at = "script"]
    OBVIOUS
  <2>3. r \in RunType
    BY <2>1, <2>2 DEF RunType, Places
  <2>4. r.at = "script" /\ r.cmd # "none" /\ r.todo = {}
    BY <2>1, <2>2 DEF RunType
  <2>5. RunShape(r)
    BY <2>3, <2>4 DEF RunShape, Deploying, Off
  <2>6. RunFinds(p, r, config', stored', worker')
    BY <1>4, <2>4, WrittenTypes DEF RunFinds, Deploying
  <2> QED BY <1>1, <1>3, <1>4, <2>2, <2>4, <2>5, <2>6, QuietRun DEF Goto
<1>5. CASE Ends(p)
  BY <1>1, <1>3, <1>5, EndsInv
<1> QED BY <1>4, <1>5 DEF PushConfig

-----------------------------------------------------------------------------
(* The steps that deploy                                                   *)

LEMMA FindScriptInv ==
  ASSUME ProvInv, NEW p \in Proc, FindScript(p)
  PROVE  ProvInv'
<1>1. /\ proc[p] # Off /\ ~At(p, "flow") /\ ~At(p, "bucket")
      /\ UNCHANGED <<cloud, flow>> /\ saved' \subseteq Field /\ CloudGrows(p)
  BY NotOff, SavedStays, CloudStays DEF FindScript, At
<1>2. CASE Goto(p, "assets")
  <2>1. proc[p] \in RunType /\ proc[p].cmd # "none" /\ proc[p].todo = {} /\ config # None
    BY <1>1, Underway, RunParts DEF FindScript, At, RunFinds, Deploying
  <2>2. PICK r : r = [proc[p] EXCEPT !.at = "assets"]
    OBVIOUS
  <2>3. r \in RunType
    BY <2>1, <2>2 DEF RunType, Places
  <2>4. r.at = "assets" /\ r.cmd # "none" /\ r.todo = {}
    BY <2>1, <2>2 DEF RunType
  <2>5. RunShape(r)
    BY <2>3, <2>4 DEF RunShape, Deploying, Off
  <2>6. RunFinds(p, r, config', stored', worker')
    BY <1>1, <2>1, <2>4 DEF RunFinds, Deploying, cloud
  <2> QED BY <1>1, <1>2, <2>2, <2>4, <2>5, <2>6, QuietRun DEF Goto
<1>3. CASE Ends(p)
  BY <1>1, <1>3, EndsInv
<1> QED BY <1>2, <1>3 DEF FindScript

LEMMA CollectAssetsInv ==
  ASSUME ProvInv, NEW p \in Proc, CollectAssets(p)
  PROVE  ProvInv'
<1>1. /\ proc[p] # Off /\ ~At(p, "flow") /\ ~At(p, "bucket")
      /\ UNCHANGED <<cloud, flow>> /\ saved' \subseteq Field /\ CloudGrows(p)
  BY NotOff, SavedStays, CloudStays DEF CollectAssets, At
<1>2. ASSUME NEW b \in Bundles, Put(p, [proc[p] EXCEPT !.bundle = b, !.at = "session"])
      PROVE  ProvInv'
  <2>1. proc[p] \in RunType /\ proc[p].cmd # "none" /\ proc[p].todo = {} /\ config # None
    BY <1>1, Underway, RunParts DEF CollectAssets, At, RunFinds, Deploying
  <2>2. PICK r : r = [proc[p] EXCEPT !.bundle = b, !.at = "session"]
    OBVIOUS
  <2>3. r \in RunType
    BY <2>1, <2>2 DEF RunType, Places
  <2>4. r.at = "session" /\ r.cmd # "none" /\ r.todo = {} /\ r.bundle = b
    BY <2>1, <2>2 DEF RunType
  <2>5. RunShape(r)
    BY <2>3, <2>4 DEF RunShape, Deploying, Off
  <2>6. RunFinds(p, r, config', stored', worker')
    BY <1>1, <2>1, <2>4 DEF RunFinds, Deploying, cloud
  <2> QED BY <1>1, <1>2, <2>2, <2>4, <2>5, <2>6, QuietRun DEF Put
<1>3. CASE Ends(p)
  BY <1>1, <1>3, EndsInv
<1> QED BY <1>2, <1>3 DEF CollectAssets

LEMMA OpenSessionInv ==
  ASSUME ProvInv, NEW p \in Proc, OpenSession(p)
  PROVE  ProvInv'
<1>1. /\ proc[p] # Off /\ ~At(p, "flow") /\ ~At(p, "bucket")
      /\ UNCHANGED <<cloud, flow>> /\ saved' \subseteq Field /\ CloudGrows(p)
  BY NotOff, SavedStays, CloudStays DEF OpenSession, At
<1>2. PICK t : t = proc[p].bundle \ stored
  OBVIOUS
<1>3. PICK s : s = IF proc[p].bundle \subseteq stored THEN "deploy" ELSE "bucket"
  OBVIOUS
<1>4. CASE Put(p, [proc[p] EXCEPT !.todo = t, !.at = s])
  <2>1. /\ proc[p] \in RunType /\ proc[p].cmd # "none" /\ config # None
        /\ proc[p].bundle \in Bundles
    BY <1>1, Underway, RunParts DEF OpenSession, At, RunShape, RunFinds, Deploying
  <2>2. /\ t \in SUBSET UNION Bundles /\ t \subseteq proc[p].bundle
        /\ s \in {"bucket", "deploy"} /\ (s = "bucket" <=> t # {})
    BY <1>2, <1>3, <2>1
  <2>3. PICK r : r = [proc[p] EXCEPT !.todo = t, !.at = s]
    OBVIOUS
  <2>4. r \in RunType
    BY <2>1, <2>2, <2>3 DEF RunType, Places
  <2>5. r.at = s /\ r.cmd # "none" /\ r.todo = t /\ r.bundle = proc[p].bundle
    BY <2>1, <2>3 DEF RunType
  <2>6. RunShape(r)
    BY <2>1, <2>2, <2>4, <2>5 DEF RunShape, Deploying, Off
  <2>7. r.bundle \subseteq stored \cup r.todo
    BY <1>2, <2>5
  <2>8. RunFinds(p, r, config', stored', worker')
    BY <1>1, <2>1, <2>2, <2>5, <2>7 DEF RunFinds, Deploying, cloud
  <2> QED BY <1>1, <1>4, <2>2, <2>3, <2>5, <2>6, <2>8, QuietRun DEF Put
<1>5. CASE Ends(p)
  BY <1>1, <1>5, EndsInv
<1> QED BY <1>2, <1>3, <1>4, <1>5 DEF OpenSession

LEMMA UploadBucketInv ==
  ASSUME ProvInv, NEW p \in Proc, UploadBucket(p)
  PROVE  ProvInv'
<1>1. /\ proc[p] # Off /\ ~At(p, "flow")
      /\ UNCHANGED <<host, config, worker, route, saved, flow>>
  BY NotOff DEF UploadBucket, At
<1>2. /\ proc[p] \in RunType /\ proc[p].cmd # "none" /\ config # None
      /\ proc[p].bundle \in Bundles /\ proc[p].todo \subseteq proc[p].bundle
      /\ proc[p].bundle \subseteq stored \cup proc[p].todo
  BY <1>1, Underway, RunParts DEF UploadBucket, At, RunShape, RunFinds, Deploying
<1>3. PICK b \in SUBSET proc[p].todo :
        \/ /\ stored' = stored \cup b
           /\ Put(p, [proc[p] EXCEPT !.todo = proc[p].todo \ b,
                                     !.at = IF proc[p].todo \subseteq b THEN "deploy" ELSE "bucket"])
        \/ stored' \in {stored, stored \cup b} /\ Ends(p)
  BY <1>2 DEF UploadBucket, Put, RunType
<1>4. CloudGrows(p)
  BY <1>1, <1>2, <1>3 DEF CloudGrows, ProvInv, TypeOK
<1>5. PICK t : t = proc[p].todo \ b
  OBVIOUS
<1>6. PICK s : s = IF proc[p].todo \subseteq b THEN "deploy" ELSE "bucket"
  OBVIOUS
<1>7. CASE stored' = stored \cup b /\ Put(p, [proc[p] EXCEPT !.todo = t, !.at = s])
  <2>1. /\ t \in SUBSET UNION Bundles /\ t \subseteq proc[p].bundle
        /\ s \in {"bucket", "deploy"} /\ (s = "bucket" <=> t # {})
    BY <1>2, <1>5, <1>6
  <2>2. PICK r : r = [proc[p] EXCEPT !.todo = t, !.at = s]
    OBVIOUS
  <2>3. r \in RunType
    BY <1>2, <2>1, <2>2 DEF RunType, Places
  <2>4. r.at = s /\ r.cmd # "none" /\ r.todo = t /\ r.bundle = proc[p].bundle
    BY <1>2, <2>2 DEF RunType
  <2>5. RunShape(r)
    BY <1>2, <2>1, <2>3, <2>4 DEF RunShape, Deploying, Off
  <2>6. r.bundle \subseteq stored' \cup r.todo
    BY <1>2, <1>5, <1>7, <2>4
  <2>7. RunFinds(p, r, config', stored', worker')
    BY <1>1, <1>2, <2>1, <2>4, <2>6 DEF RunFinds, Deploying
  <2> QED BY <1>1, <1>4, <1>7, <2>1, <2>2, <2>4, <2>5, <2>7, QuietRun DEF Put
<1>8. CASE Ends(p)
  BY <1>1, <1>4, <1>8, EndsInv
<1> QED BY <1>3, <1>5, <1>6, <1>7, <1>8

LEMMA DeployInv ==
  ASSUME ProvInv, NEW p \in Proc, Deploy(p)
  PROVE  ProvInv'
<1>1. /\ proc[p] # Off /\ ~At(p, "flow") /\ ~At(p, "bucket")
      /\ UNCHANGED <<host, config, stored, route, saved, flow>>
  BY NotOff DEF Deploy, At
<1>2. /\ proc[p] \in RunType /\ proc[p].cmd # "none" /\ proc[p].todo = {} /\ config # None
      /\ proc[p].bundle \in Bundles /\ proc[p].bundle \subseteq stored
  BY <1>1, Underway, RunParts DEF Deploy, At, RunShape, RunFinds, Deploying
<1>3. /\ Deployed(p) \in WorkerType /\ Deployed(p) # None
      /\ Deployed(p).by = p /\ Deployed(p).assets \subseteq stored
  BY <1>2, NoneAssumption DEF Deployed, WorkerType, RunType
<1>4. worker' = worker \/ worker' = Deployed(p)
  BY DEF Deploy
<1>5. CloudGrows(p)
  BY <1>1, <1>3, <1>4, SavedStays DEF CloudGrows, ProvInv, TypeOK
<1>6. CASE worker' = Deployed(p) /\ Put(p, [proc[p] EXCEPT !.at = "route", !.have = {}])
  <2>1. PICK r : r = [proc[p] EXCEPT !.at = "route", !.have = {}]
    OBVIOUS
  <2>2. r \in RunType
    BY <1>2, <2>1 DEF RunType, Places
  <2>3. /\ r.at = "route" /\ r.cmd # "none" /\ r.todo = {}
        /\ r.bundle = proc[p].bundle /\ r.token = proc[p].token
    BY <1>2, <2>1 DEF RunType
  <2>4. RunShape(r)
    BY <1>2, <2>2, <2>3 DEF RunShape, Deploying, Off
  <2>5. RunFinds(p, r, config', stored', worker')
    BY <1>1, <1>2, <1>3, <1>6, <2>3 DEF RunFinds, Deploying, Deployed
  <2> QED BY <1>1, <1>5, <1>6, <2>1, <2>3, <2>4, <2>5, QuietRun DEF Put
<1>7. CASE DeployFailed(p)
  BY <1>1, <1>5, <1>7, EndsInv DEF DeployFailed
<1> QED BY <1>6, <1>7 DEF Deploy

LEMMA EnableRouteInv ==
  ASSUME ProvInv, NEW p \in Proc, EnableRoute(p)
  PROVE  ProvInv'
<1>1. /\ proc[p] # Off /\ ~At(p, "flow") /\ ~At(p, "bucket")
      /\ UNCHANGED <<host, config, stored, worker, saved, flow>>
      /\ route' \in {route, TRUE} /\ Goto(p, "complete")
  BY NotOff DEF EnableRoute, At
<1>2. CloudGrows(p)
  BY <1>1 DEF CloudGrows, ProvInv, TypeOK
<1>3. /\ proc[p] \in RunType /\ proc[p].cmd # "none" /\ proc[p].todo = {} /\ config # None
      /\ proc[p].bundle \in Bundles /\ worker # None
      /\ worker.by = p => worker = Deployed(p)
  BY <1>1, Underway, RunParts
  DEF EnableRoute, At, RunShape, RunFinds, Deploying, Deployed
<1>4. PICK r : r = [proc[p] EXCEPT !.at = "complete"]
  OBVIOUS
<1>5. r \in RunType
  BY <1>3, <1>4 DEF RunType, Places
<1>6. /\ r.at = "complete" /\ r.cmd # "none" /\ r.todo = {}
      /\ r.bundle = proc[p].bundle /\ r.token = proc[p].token
  BY <1>3, <1>4 DEF RunType
<1>7. RunShape(r)
  BY <1>3, <1>5, <1>6 DEF RunShape, Deploying, Off
<1>8. RunFinds(p, r, config', stored', worker')
  BY <1>1, <1>3, <1>6 DEF RunFinds, Deploying, Deployed
<1> QED BY <1>1, <1>2, <1>4, <1>6, <1>7, <1>8, QuietRun DEF Goto

-----------------------------------------------------------------------------
(* The theorems                                                            *)

LEMMA InitInv == Init => ProvInv
<1> SUFFICES ASSUME Init PROVE ProvInv
  OBVIOUS
<1>1. FlowInv
  BY Times DEF Init, NoFlow, FlowInv, FlowTypeOK, IntervalKept
<1>2. \A p \in Proc : proc[p] = Off
  BY DEF Init
<1>3. RunShape(Off) /\ Off.at = "off"
  BY OffShape DEF Off
<1>4. \A p \in Proc : RunFinds(p, Off, config, stored, worker)
  BY <1>3 DEF RunFinds, Deploying
<1>5. proc \in [Proc -> RunType]
  BY <1>3 DEF Init, RunShape
<1>6. flow.at = "off"
  BY DEF Init, NoFlow
<1>7. TypeOK
  BY <1>1, <1>2, <1>3, <1>5, <1>6 DEF Init, FlowInv, TypeOK, RunType, RunShape, At
<1>8. ASSUME NEW p \in Proc
      PROVE  RunInv(p)
  BY <1>2, <1>3, <1>4 DEF RunInv, RunShape, RunFinds, Deployed, Deploying, Prefill, At
<1> QED BY <1>1, <1>7, <1>8 DEF ProvInv, Init

LEMMA NextInv == ProvInv /\ [Next]_vars => ProvInv'
<1> SUFFICES ASSUME ProvInv, [Next]_vars PROVE ProvInv'
  OBVIOUS
<1>1. CASE FlowRuns
  BY <1>1, FlowRunsInv
<1>2. CASE AuthSet \/ AuthImport \/ AuthRemove
  BY <1>2, AuthInv
<1>3. ASSUME NEW p \in Proc,
             \/ Start(p) \/ ResolveCloudflare(p) \/ CloudflareForm(p) \/ ResolveToken(p)
             \/ ResolvePair(p) \/ TokenForm(p) \/ DeviceForm(p) \/ OciForm(p) \/ FlowEnds(p)
             \/ WorkerToken(p) \/ Exit(p)
      PROVE  ProvInv'
  BY <1>3, StartInv, ResolveCloudflareInv, CloudflareFormInv, ResolveTokenInv, ResolvePairInv,
     TokenFormInv, DeviceFormInv, OciFormInv, FlowEndsInv, WorkerTokenInv, ExitInv
<1>4. ASSUME NEW p \in Proc,
             \/ Confirm(p) \/ Fetch(p) \/ KeyForm(p) \/ PushConfig(p) \/ FindScript(p)
             \/ CollectAssets(p) \/ OpenSession(p) \/ UploadBucket(p) \/ Deploy(p)
             \/ EnableRoute(p)
      PROVE  ProvInv'
  BY <1>4, ConfirmInv, FetchInv, KeyFormInv, PushConfigInv, FindScriptInv, CollectAssetsInv,
     OpenSessionInv, UploadBucketInv, DeployInv, EnableRouteInv
<1>5. CASE UNCHANGED vars
  <2>1. UNCHANGED <<host, config, stored, worker, route, saved, proc, flow>>
    BY <1>5 DEF vars, cloud
  <2> QED
    BY <2>1 DEF ProvInv, TypeOK, FlowInv, FlowTypeOK, IntervalKept, RunInv, Deployed, Prefill, At
<1> QED BY <1>1, <1>2, <1>3, <1>4, <1>5 DEF Next

(* What a run relies on where it is, however runs overlap and wherever     *)
(* they are interrupted; and how far the next tick of the device flow is.  *)
THEOREM ProvisionInvariant == Spec => []ProvInv
BY InitInv, NextInv, PTL DEF Spec

(* Types, and that only a run under way has something to upload.           *)
THEOREM ProvisionTypeCorrect == Spec => []TypeOK
<1>1. ProvInv => TypeOK
  BY DEF ProvInv
<1> QED BY <1>1, ProvisionInvariant, PTL

(* A run that reports "Setup complete!" has left a manifest and a worker,  *)
(* all assets that worker needs, and its own worker or another run's.      *)
THEOREM CompleteAlwaysSetUp == Spec => []CompleteMeansSetUp
<1>1. ProvInv => CompleteMeansSetUp
  BY DEF ProvInv, RunInv, CompleteMeansSetUp, Deploying, At
<1> QED BY <1>1, ProvisionInvariant, PTL

(* Two polls are as far apart as the server asked for last, but for a tick *)
(* that had waited for a slow request, whatever the times are.             *)
THEOREM IntervalAlwaysKept == Spec => []IntervalKept
<1>1. ProvInv => IntervalKept
  BY DEF ProvInv, FlowInv
<1> QED BY <1>1, ProvisionInvariant, PTL

(* A public key leaves the manifest by an init run, by a user who changed  *)
(* it, or by a configure run that did not read it; never because it was    *)
(* left as it stood.                                                       *)
THEOREM KeyLostAlwaysExplained == Spec => KeyLostExplained
<1>1. ASSUME ProvInv, [Next]_vars, NEW k \in Key, config = k, config' # k
      PROVE  \E p \in Proc :
               /\ At(p, "push") /\ ~At(p, "push")'
               /\ \/ proc[p].cmd = "init"
                  \/ proc[p].cmd = "configure" /\ (proc[p].typed \/ proc[p].seen # k)
  <2>1. PICK p \in Proc : PushConfig(p)
    BY <1>1 DEF Next, vars, cloud, FlowRuns, AuthSet, AuthImport, AuthRemove,
       Start, ResolveCloudflare, CloudflareForm, ResolveToken, ResolvePair, TokenForm,
       DeviceForm, OciForm, FlowEnds, WorkerToken, Confirm, Fetch, KeyForm, FindScript,
       CollectAssets, OpenSession, UploadBucket, Deploy, EnableRoute, Exit
  <2>2. At(p, "push") /\ config' = Written(p)
    BY <1>1, <2>1 DEF PushConfig
  <2>3. ~At(p, "push")'
    BY <1>1, <2>1 DEF PushConfig, Goto, Ends, Put, Off, At, ProvInv, TypeOK
  <2>4. proc[p].cmd \in {"init", "configure"}
    BY <1>1, <2>2, NotOff, Underway
  <2>5. ASSUME proc[p].cmd = "configure", ~proc[p].typed, proc[p].seen = k
        PROVE  FALSE
    <3>1. proc[p].text = Prefill(k)
      BY <1>1, <2>2, <2>5, RunParts DEF RunShape, At
    <3> QED BY <1>1, <2>2, <2>5, <3>1 DEF Written, Prefill
  <2> QED BY <2>2, <2>3, <2>4, <2>5
<1>2. ProvInv /\ [Next]_vars =>
        [\A k \in Key : config = k /\ config' # k =>
           \E p \in Proc :
             /\ At(p, "push") /\ ~At(p, "push")'
             /\ \/ proc[p].cmd = "init"
                \/ proc[p].cmd = "configure" /\ (proc[p].typed \/ proc[p].seen # k)]_vars
  BY <1>1
<1> QED BY <1>2, ProvisionInvariant, PTL DEF Spec, KeyLostExplained

=============================================================================
