-------------------------- MODULE EdgeWorkerProofs --------------------------
(***************************************************************************)
(* How stale an answer of the edge worker can be, for every choice of      *)
(* lifetimes, any number of requests and of versions, and every fault.     *)
(***************************************************************************)
EXTENDS EdgeWorker, TLAPS

(* What the assumptions say of each constant.                              *)
LEMMA Lifetimes ==
  /\ ManifestTTL \in Nat /\ MissTTL \in Nat /\ KeyTTL \in Nat /\ TokenTTL \in Nat
  /\ ManifestTTL >= 1 /\ MissTTL >= 1 /\ KeyTTL >= 1 /\ TokenTTL >= 1
  /\ Delay \in Nat /\ TokenLife \in Nat /\ Delay < TokenLife
  /\ \A t \in Tag : First[t] \in Nat /\ MaxChanges[t] \in Nat
BY TTLAssumption, TimeAssumption, VersionAssumption

LEMMA Tags == \A u \in Url \cup {"none"} : TagOf(u) \in Tag
BY DEF TagOf, Tag

LEMMA VersionsCounted ==
  /\ \A t \in Tag : Version(t) \subseteq Nat /\ 0 \in Version(t) /\ Version(t) \subseteq Versions
  /\ Answers \subseteq Int /\ Failed \in Answers /\ Failed = -1 /\ Versions \subseteq Nat
  /\ Versions \subseteq Answers
BY Lifetimes DEF Version, Versions, Answers, Failed

LEMMA Lags ==
  /\ AnswerLag(0) = Delay
  /\ \A v \in Nat \ {0} : AnswerLag(v) = 2 * Delay + ManifestTTL - 1
  /\ \A v \in Nat : AnswerLag(v) \in Nat
  /\ \A t \in Tag, v \in Nat : Horizon(t, v) \in Nat
<1>1. /\ AnswerLag(0) = Delay
      /\ \A v \in Nat \ {0} : AnswerLag(v) = 2 * Delay + ManifestTTL - 1
      /\ \A v \in Nat : AnswerLag(v) \in Nat
  BY Lifetimes DEF AnswerLag
<1>2. ASSUME NEW t \in Tag, NEW v \in Nat PROVE Horizon(t, v) \in Nat
  <2>1. AnswerLag(v) \in Nat
    BY <1>1
  <2> QED BY <2>1, Lifetimes DEF Horizon
<1> QED BY <1>1, <1>2

(* What the edge cache answers: a hit has a version, a miss may have one.  *)
LEMMA HitsAndMisses ==
  ASSUME NEW u \in Url, NEW v \in Answers
  PROVE  /\ v \in Int /\ (v # Failed => v \in Nat)
         /\ Has(u, v) => v \in Nat \ {0} /\ v # Failed
         /\ ~Has(u, v) => MaxAge(v, u) = MissTTL
         /\ Has(u, v) => MaxAge(v, u) = IF u = "key" THEN KeyTTL ELSE Year
BY VersionsCounted DEF Has, MaxAge, Answers

LEMMA IdleRequest == Idle \in RequestType /\ Idle.at = "idle"
BY Lifetimes, VersionsCounted DEF Idle, RequestType, Places, Statuses

(* The invariant starts out true.                                          *)
LEMMA StaleInitInv == Init => StaleInv
<1> SUFFICES ASSUME Init PROVE StaleInv
  OBVIOUS
<1>1. Nothing \in [ver : Answers, left : 0..ManifestTTL] /\ ~Fresh(Nothing)
  BY Lifetimes, VersionsCounted DEF Nothing, Fresh
<1>2. Nothing \in [ver : Answers, left : Nat \cup {Year}]
  BY Lifetimes, VersionsCounted DEF Nothing
<1>3. NoToken \in [left : 0..TokenTTL, life : 0..TokenLife]
  BY Lifetimes DEF NoToken
<1>4. ASSUME NEW t \in Tag
      PROVE  /\ current[t] \in Version(t) /\ superseded[t] \in [Version(t) -> Nat]
             /\ \A v \in Version(t) : superseded[t][v] <= Horizon(t, v)
  <2>1. \A v \in Version(t) : Horizon(t, v) \in Nat
    BY Lags, VersionsCounted
  <2> QED BY <2>1, Lifetimes DEF Init, Version
<1>5. TypeOK
  BY <1>1, <1>2, <1>3, <1>4, IdleRequest DEF Init, TypeOK
<1>6. \A r \in Request : RequestInv(req[r])
  BY DEF Init, RequestInv, Idle
<1>7. \A t \in Tag : \A v \in Version(t) : v >= current[t] => superseded[t][v] = 0
  BY Lifetimes DEF Init, Version
<1> QED BY <1>1, <1>5, <1>6, <1>7 DEF Init, StaleInv, KeptInv, EdgeInv, MissesShort, KeysRotate

(* One request changes and the registry stands still.                      *)
LEMMA OneRequest ==
  ASSUME StaleInv, NEW r \in Request, NEW q \in RequestType,
         req' = [req EXCEPT ![r] = q], RequestInv(q), UNCHANGED <<current, superseded>>
  PROVE  req' \in [Request -> RequestType] /\ \A s \in Request : RequestInv(req[s])'
<1>1. req' \in [Request -> RequestType]
  BY DEF StaleInv, TypeOK
<1>2. ASSUME NEW s \in Request PROVE RequestInv(req[s])'
  <2>1. RequestInv(req'[s])
    BY DEF StaleInv, TypeOK
  <2> QED BY <2>1 DEF RequestInv
<1> QED BY <1>1, <1>2

(* Nothing else has to be shown where edge cache and manifests stay.       *)
LEMMA OnlyRequests ==
  ASSUME StaleInv, req' \in [Request -> RequestType],
         \A s \in Request : RequestInv(req[s])',
         UNCHANGED <<current, superseded, edge, manifests>>,
         bearer' \in [left : 0..TokenTTL, life : 0..TokenLife], challenge' \in BOOLEAN
  PROVE  StaleInv'
BY DEF StaleInv, TypeOK, KeptInv, EdgeInv, MissesShort, KeysRotate, Fresh

(* A fetch keeps what a request knows.                                     *)
LEMMA FetchKeeps ==
  ASSUME StaleInv, NEW q \in RequestType, q.url \in Url, q.ver # 0,
         q.ver # Failed => /\ q.ver \in Version(TagOf(q.url))
                           /\ superseded[TagOf(q.url)][q.ver] <= q.age + Delay + ManifestTTL - 1
  PROVE  Fetch(q) \in RequestType /\ RequestInv(Fetch(q))
<1>1. CurrentBearer.at \in {"send", "mint"} /\ CurrentBearer.token \in 0..TokenLife
  BY Lifetimes DEF CurrentBearer, StaleInv, TypeOK
<1> DEFINE f == Fetch(q)
<1>2. f \in RequestType
  BY <1>1 DEF Fetch, RequestType, Places, Statuses
<1>3. /\ f.at \in {"send", "mint"} /\ f.url = q.url /\ f.ver = q.ver /\ f.age = q.age
      /\ f.retry = FALSE
  BY <1>1 DEF Fetch, RequestType
<1> HIDE DEF f
<1>4. RequestInv(f)
  BY <1>3 DEF RequestInv
<1> QED BY <1>2, <1>4 DEF f

(* A response carries a version as old as the request knew it to be.       *)
LEMMA ResponseKeeps ==
  ASSUME NEW q \in RequestType, NEW v \in Answers, q.url \in Url,
         v = Failed => q.hurt,
         v # Failed => /\ v \in Version(TagOf(q.url))
                       /\ superseded[TagOf(q.url)][v] <= q.age + Delay + ManifestTTL - 1,
         v = 0 => superseded[TagOf(q.url)][0] <= q.age
  PROVE  Respond(q, v) \in RequestType /\ RequestInv(Respond(q, v))
<1> DEFINE a == Respond(q, v)
<1>1. a = [at |-> "answer", url |-> q.url, ver |-> v, token |-> 0, status |-> "none",
           retry |-> FALSE, hurt |-> q.hurt, age |-> q.age]
  BY DEF Respond
<1>2. a \in RequestType
  BY <1>1, Lifetimes DEF RequestType, Places, Statuses
<1>3. a.at = "answer" /\ a.url = q.url /\ a.ver = v /\ a.hurt = q.hurt /\ a.age = q.age
  BY <1>1
<1> HIDE DEF a
<1>4. RequestInv(a)
  BY <1>3 DEF RequestInv
<1> QED BY <1>2, <1>4 DEF a

(* A request arrives: what the isolate keeps is as old as KeptInv says.      *)
LEMMA ArriveStep ==
  ASSUME StaleInv, NEW r \in Request, NEW u \in Url, Arrive(r, u)
  PROVE  StaleInv'
<1> DEFINE t == TagOf(u)
           kept == manifests[t]
           q == [Idle EXCEPT !.url = u]
           p == [q EXCEPT !.ver = kept.ver]
<1>1. t \in Tag
  BY Tags
<1>2. kept \in [ver : Answers, left : 0..ManifestTTL]
  BY <1>1 DEF StaleInv, TypeOK
<1>3. Fresh(kept) =>
        kept.ver \in Version(t) /\ kept.ver > 0 /\ superseded[t][kept.ver] <= Delay + ManifestTTL - 1
  <2>1. Fresh(kept) => /\ kept.ver \in Version(t) /\ kept.ver > 0
                       /\ superseded[t][kept.ver] + kept.left <= Delay + ManifestTTL
    BY <1>1 DEF StaleInv, KeptInv
  <2>2. Fresh(kept) => kept.left >= 1 /\ kept.left \in Nat
    BY <1>2, Lifetimes DEF Fresh
  <2>3. kept.ver \in Version(t) => superseded[t][kept.ver] \in Nat
    BY <1>1, Lags DEF StaleInv, TypeOK
  <2> HIDE DEF kept, t
  <2> QED BY <2>1, <2>2, <2>3, Lifetimes
<1>4. /\ q \in RequestType /\ q.url = u /\ q.ver = Failed /\ q.age = 0
      /\ p \in RequestType /\ p.url = u /\ p.ver = kept.ver /\ p.age = 0
  BY <1>2, IdleRequest, Lifetimes, VersionsCounted DEF Idle, RequestType, Places, Statuses
<1>5. PICK n \in RequestType : RequestInv(n) /\ req' = [req EXCEPT ![r] = n]
  <2>1. Fetch(q) \in RequestType /\ RequestInv(Fetch(q))
    <3> HIDE DEF q, p, kept, t
    <3> QED BY <1>4, FetchKeeps, VersionsCounted
  <2>2. Fresh(kept) => Fetch(p) \in RequestType /\ RequestInv(Fetch(p))
    <3> SUFFICES ASSUME Fresh(kept) PROVE Fetch(p) \in RequestType /\ RequestInv(Fetch(p))
      OBVIOUS
    <3>1. p.ver # 0 /\ p.ver \in Version(TagOf(p.url))
          /\ superseded[TagOf(p.url)][p.ver] <= p.age + Delay + ManifestTTL - 1
      <4>1. TagOf(p.url) = t
        BY <1>4
      <4> HIDE DEF q, p, kept, t
      <4> QED BY <1>3, <1>4, <4>1, Lifetimes
    <3>2. p.url \in Url
      BY <1>4
    <3> HIDE DEF q, p, kept, t
    <3> QED BY <3>1, <3>2, <1>4, FetchKeeps
  <2>3. Fresh(kept) => Respond(q, kept.ver) \in RequestType /\ RequestInv(Respond(q, kept.ver))
    <3> SUFFICES ASSUME Fresh(kept)
                 PROVE  Respond(q, kept.ver) \in RequestType /\ RequestInv(Respond(q, kept.ver))
      OBVIOUS
    <3>1. kept.ver \in Answers /\ kept.ver # Failed /\ kept.ver # 0
      BY <1>2, <1>3 DEF Failed
    <3>2. q.url \in Url /\ TagOf(q.url) = t /\ q.age = 0
      BY <1>4
    <3> HIDE DEF q, p, kept, t
    <3>3. superseded[TagOf(q.url)][kept.ver] <= q.age + Delay + ManifestTTL - 1
      BY <1>3, <3>2, Lifetimes
    <3> QED BY <1>3, <1>4, <3>1, <3>2, <3>3, ResponseKeeps
  <2>4. req' = [req EXCEPT ![r] = IF ~Fresh(kept) THEN Fetch(q)
                                  ELSE IF u = "nar" /\ Has(u, kept.ver) THEN Fetch(p) ELSE Respond(q, kept.ver)]
    BY DEF Arrive
  <2> HIDE DEF q, p, kept, t
  <2> QED BY <2>1, <2>2, <2>3, <2>4
<1>6. UNCHANGED <<current, edge, isolate, superseded>>
  BY DEF Arrive
<1>7. req' \in [Request -> RequestType] /\ \A s \in Request : RequestInv(req[s])'
  BY <1>5, <1>6, OneRequest
<1>8. bearer' \in [left : 0..TokenTTL, life : 0..TokenLife] /\ challenge' \in BOOLEAN
  BY <1>6 DEF isolate, StaleInv, TypeOK
<1> QED BY <1>6, <1>7, <1>8, OnlyRequests DEF isolate

(* A token is asked for.                                                   *)
LEMMA MintStep ==
  ASSUME StaleInv, NEW r \in Request, Mint(r)
  PROVE  StaleInv'
<1>1. req[r] \in RequestType /\ RequestInv(req[r])
  BY DEF StaleInv, TypeOK
<1>2. ASSUME NEW q \in RequestType, RequestInv(q), q.at = "mint", NEW k \in 0..TokenLife,
             NEW h \in BOOLEAN, k = TokenLife \/ h, q.hurt => h
      PROVE  LET n == [q EXCEPT !.at = "minted", !.token = k, !.hurt = h]
             IN  n \in RequestType /\ RequestInv(n)
  <2> DEFINE n == [q EXCEPT !.at = "minted", !.token = k, !.hurt = h]
  <2>1. /\ n \in RequestType /\ n.at = "minted" /\ n.token = k /\ n.hurt = h
        /\ n.url = q.url /\ n.ver = q.ver /\ n.age = q.age
    BY <1>2 DEF RequestType, Places
  <2>2. q.age \in Nat
    BY <1>2, Lifetimes DEF RequestType
  <2> HIDE DEF n
  <2>3. RequestInv(n)
    BY <1>2, <2>1, <2>2, Lifetimes DEF RequestInv
  <2> QED BY <2>1, <2>3 DEF n
<1>3. PICK n \in RequestType : RequestInv(n) /\ req' = [req EXCEPT ![r] = n]
  <2>1. req[r].at = "mint" /\ TokenLife \in 0..TokenLife /\ 0 \in 0..TokenLife /\ req[r].hurt \in BOOLEAN
    BY <1>1, Lifetimes DEF Mint, RequestType
  <2>2. CASE req' = [req EXCEPT ![r].at = "minted", ![r].token = TokenLife]
    <3>1. req' = [req EXCEPT ![r] = [req[r] EXCEPT !.at = "minted", !.token = TokenLife, !.hurt = req[r].hurt]]
      BY <2>2, <1>1 DEF RequestType
    <3> QED BY <3>1, <1>1, <1>2, <2>1
  <2>3. CASE req' = [req EXCEPT ![r].at = "minted", ![r].token = 0, ![r].hurt = TRUE]
    <3>1. req' = [req EXCEPT ![r] = [req[r] EXCEPT !.at = "minted", !.token = 0, !.hurt = TRUE]]
      BY <2>3
    <3> QED BY <3>1, <1>1, <1>2, <2>1
  <2> QED BY <2>2, <2>3 DEF Mint
<1>4. UNCHANGED <<current, edge, isolate, superseded>>
  BY DEF Mint
<1>5. req' \in [Request -> RequestType] /\ \A s \in Request : RequestInv(req[s])'
  BY <1>3, <1>4, OneRequest
<1>6. bearer' \in [left : 0..TokenTTL, life : 0..TokenLife] /\ challenge' \in BOOLEAN
  BY <1>4 DEF isolate, StaleInv, TypeOK
<1> QED BY <1>4, <1>5, <1>6, OnlyRequests DEF isolate

(* A token is there, or none: without one after a 401, the age of the      *)
(* request shows that a fault has hit it.                                  *)
LEMMA MintedStep ==
  ASSUME StaleInv, NEW r \in Request, Minted(r)
  PROVE  StaleInv'
<1>1. req[r] \in RequestType /\ RequestInv(req[r]) /\ req[r].at = "minted"
  BY DEF StaleInv, TypeOK, Minted
<1>2. ASSUME NEW q \in RequestType, RequestInv(q), q.at = "minted"
      PROVE  /\ q.retry /\ q.token = 0 =>
                  Respond(q, Failed) \in RequestType /\ RequestInv(Respond(q, Failed))
             /\ [q EXCEPT !.at = "send"] \in RequestType /\ RequestInv([q EXCEPT !.at = "send"])
  <2> DEFINE n == [q EXCEPT !.at = "send"]
  <2>1. q.url \in Url /\ q.age \in 0..Delay /\ q.token \in 0..TokenLife
    BY <1>2 DEF RequestInv, RequestType
  <2>2. q.retry /\ q.token = 0 => q.hurt
    BY <1>2, <2>1, Lifetimes DEF RequestInv
  <2>3. q.retry /\ q.token = 0 =>
           Respond(q, Failed) \in RequestType /\ RequestInv(Respond(q, Failed))
    BY <2>1, <2>2, ResponseKeeps, VersionsCounted
  <2>4. /\ n \in RequestType /\ n.at = "send" /\ n.token = q.token /\ n.hurt = q.hurt
        /\ n.url = q.url /\ n.ver = q.ver /\ n.age = q.age /\ n.retry = q.retry
    BY <1>2 DEF RequestType, Places
  <2> HIDE DEF n
  <2>5. RequestInv(n)
    BY <1>2, <2>4 DEF RequestInv
  <2> QED BY <2>3, <2>4, <2>5 DEF n
<1>3. PICK n \in RequestType : RequestInv(n) /\ req' = [req EXCEPT ![r] = n]
  BY <1>1, <1>2 DEF Minted
<1>4. UNCHANGED <<current, edge, manifests, superseded>>
  BY DEF Minted
<1>5. req' \in [Request -> RequestType] /\ \A s \in Request : RequestInv(req[s])'
  BY <1>3, <1>4, OneRequest
<1>6. bearer' \in [left : 0..TokenTTL, life : 0..TokenLife]
  <2>1. req[r].token \in 0..TokenLife
    BY <1>1 DEF RequestType
  <2>2. bearer \in [left : 0..TokenTTL, life : 0..TokenLife]
    BY DEF StaleInv, TypeOK
  <2> QED BY <2>1, <2>2, Lifetimes DEF Minted, KeptBearer
<1>7. challenge' \in BOOLEAN
  BY DEF Minted, StaleInv, TypeOK
<1> QED BY <1>4, <1>5, <1>6, <1>7, OnlyRequests

(* A request with the registry's answer.                                   *)
Got(q, s, v, h) == [q EXCEPT !.at = "got", !.status = s, !.ver = v, !.hurt = h]

(* What an answer of the registry may be.                                  *)
LEMMA GotKeeps ==
  ASSUME NEW q \in RequestType, q.url \in Url, NEW s \in Statuses, NEW v \in Answers,
         NEW h \in BOOLEAN,
         v # Failed => /\ v \in Version(TagOf(q.url))
                       /\ superseded[TagOf(q.url)][v] <= q.age + Delay + ManifestTTL - 1,
         v = 0 => superseded[TagOf(q.url)][0] <= q.age,
         s = "ok" => v > 0 /\ superseded[TagOf(q.url)][v] <= q.age,
         s \in {"missing", "blob"} => v >= 0,
         s = "error" \/ (s = "refused" /\ q.retry) => h,
         s # "none"
  PROVE  Got(q, s, v, h) \in RequestType /\ RequestInv(Got(q, s, v, h))
<1> DEFINE n == Got(q, s, v, h)
<1>1. /\ n \in RequestType /\ n.at = "got" /\ n.status = s /\ n.ver = v /\ n.hurt = h
      /\ n.url = q.url /\ n.age = q.age /\ n.retry = q.retry
  BY DEF Got, RequestType, Places
<1> HIDE DEF n
<1>2. RequestInv(n)
  BY <1>1 DEF RequestInv
<1> QED BY <1>1, <1>2 DEF n

(* The registry answers a request.                                         *)
LEMMA ServeStep ==
  ASSUME StaleInv, NEW r \in Request, Serve(r)
  PROVE  StaleInv'
<1>1. req[r] \in RequestType /\ RequestInv(req[r]) /\ req[r].at = "send"
  BY DEF StaleInv, TypeOK, Serve
<1>3. PICK n \in RequestType : RequestInv(n) /\ req' = [req EXCEPT ![r] = n]
  <2> DEFINE q == req[r]
             t == TagOf(q.url)
  <2>1. /\ q.url \in Url /\ t \in Tag /\ q.ver \in Answers /\ q.hurt \in BOOLEAN
        /\ q.age \in Nat /\ q.token \in Nat /\ q.retry \in BOOLEAN /\ q.age <= Delay
    BY <1>1, Tags, Lifetimes DEF RequestInv, RequestType
  <2>2. /\ q.ver # Failed => /\ q.ver \in Version(t)
                             /\ superseded[t][q.ver] <= q.age + Delay + ManifestTTL - 1
        /\ q.ver = 0 => superseded[t][0] <= q.age
        /\ q.retry => q.hurt \/ q.token + q.age >= TokenLife
    BY <1>1 DEF RequestInv
  <2>3. current[t] \in Version(t) /\ current[t] \in Answers /\ superseded[t][current[t]] = 0
        /\ current[t] \in Nat
    <3>1. current[t] \in Version(t) /\ Version(t) \subseteq Nat /\ Version(t) \subseteq Answers
      BY <2>1, VersionsCounted DEF StaleInv, TypeOK
    <3>2. \A v \in Version(t) : v >= current[t] => superseded[t][v] = 0
      BY <2>1 DEF StaleInv
    <3> HIDE DEF t, q
    <3> QED BY <3>1, <3>2
  <2>4. \A s, v : req' = [req EXCEPT ![r].at = "got", ![r].status = s, ![r].ver = v]
                     => req' = [req EXCEPT ![r] = Got(q, s, v, q.hurt)]
    BY <1>1 DEF RequestType, Got
  <2>5. \/ q.token = 0 /\ req' = [req EXCEPT ![r] = Got(q, "refused", q.ver, q.hurt)]
        \/ q.ver > 0 /\ req' = [req EXCEPT ![r] = Got(q, "blob", q.ver, q.hurt)]
        \/ current[t] = 0 /\ req' = [req EXCEPT ![r] = Got(q, "missing", 0, q.hurt)]
        \/ current[t] # 0 /\ req' = [req EXCEPT ![r] = Got(q, "ok", current[t], q.hurt)]
        \/ req' = [req EXCEPT ![r] = Got(q, "error", Failed, TRUE)]
    <3>1. CASE "registry" \in Faults
               /\ req' = [req EXCEPT ![r].at = "got", ![r].status = "error",
                                     ![r].ver = Failed, ![r].hurt = TRUE]
      BY <3>1 DEF Got
    <3> DEFINE got(s, v) == req' = [req EXCEPT ![r].at = "got", ![r].status = s, ![r].ver = v]
    <3>2. CASE q.token = 0 /\ got("refused", q.ver)
      BY <3>2, <2>4
    <3>3. CASE q.token > 0 /\ WantsBlob(q) /\ got("blob", q.ver)
      BY <3>3, <2>4 DEF WantsBlob, Has
    <3>4. CASE q.token > 0 /\ ~WantsBlob(q)
               /\ got(IF current[t] = 0 THEN "missing" ELSE "ok", current[t])
      <4>1. CASE current[t] = 0
        BY <3>4, <4>1, <2>4
      <4>2. CASE current[t] # 0
        BY <3>4, <4>2, <2>4
      <4> QED BY <4>1, <4>2
    <3> QED BY <3>1, <3>2, <3>3, <3>4 DEF Serve
  <2> SUFFICES \E n \in RequestType : RequestInv(n) /\ req' = [req EXCEPT ![r] = n]
    OBVIOUS
  <2>6. q \in RequestType
    BY <1>1
  <2> HIDE DEF q, t
  <2>t. t = TagOf(q.url)
    BY DEF t
  <2>7. CASE q.token = 0 /\ req' = [req EXCEPT ![r] = Got(q, "refused", q.ver, q.hurt)]
    <3>1. q.retry => q.hurt
      BY <2>1, <2>2, <2>7, Lifetimes
    <3>2. Got(q, "refused", q.ver, q.hurt) \in RequestType /\ RequestInv(Got(q, "refused", q.ver, q.hurt))
      BY GotKeeps, <2>1, <2>2, <2>6, <2>t, <3>1 DEF Statuses
    <3> QED BY <2>7, <3>2
  <2>8. CASE q.ver > 0 /\ req' = [req EXCEPT ![r] = Got(q, "blob", q.ver, q.hurt)]
    <3>1. Got(q, "blob", q.ver, q.hurt) \in RequestType /\ RequestInv(Got(q, "blob", q.ver, q.hurt))
      BY GotKeeps, <2>1, <2>2, <2>6, <2>8, <2>t, VersionsCounted DEF Statuses
    <3> QED BY <2>8, <3>1
  <2>9. CASE current[t] = 0 /\ req' = [req EXCEPT ![r] = Got(q, "missing", 0, q.hurt)]
    <3>1. 0 \in Answers /\ 0 \in Version(t) /\ superseded[t][0] = 0
      BY <2>3, <2>9
    <3>2. Got(q, "missing", 0, q.hurt) \in RequestType /\ RequestInv(Got(q, "missing", 0, q.hurt))
      BY GotKeeps, <2>1, <2>6, <3>1, <2>t, Lifetimes DEF Statuses
    <3> QED BY <2>9, <3>2
  <2>10. CASE current[t] # 0 /\ req' = [req EXCEPT ![r] = Got(q, "ok", current[t], q.hurt)]
    <3> DEFINE v == current[t]
    <3>1. v > 0 /\ v \in Answers /\ v \in Version(t)
          /\ superseded[t][v] <= q.age /\ superseded[t][v] <= q.age + Delay + ManifestTTL - 1
      BY <2>1, <2>3, <2>10, Lifetimes
    <3> HIDE DEF v
    <3>2. Got(q, "ok", v, q.hurt) \in RequestType /\ RequestInv(Got(q, "ok", v, q.hurt))
      BY GotKeeps, <2>1, <2>6, <3>1, <2>t DEF Statuses
    <3> QED BY <2>10, <3>2 DEF v
  <2>11. CASE req' = [req EXCEPT ![r] = Got(q, "error", Failed, TRUE)]
    <3>1. Failed \in Answers /\ Failed # 0
      BY VersionsCounted
    <3>2. Got(q, "error", Failed, TRUE) \in RequestType /\ RequestInv(Got(q, "error", Failed, TRUE))
      BY GotKeeps, <2>1, <2>6, <2>t, <3>1 DEF Statuses
    <3> QED BY <2>11, <3>2
  <2> QED BY <2>5, <2>7, <2>8, <2>9, <2>10, <2>11
<1>4. UNCHANGED <<current, edge, isolate, superseded>>
  BY DEF Serve
<1>5. req' \in [Request -> RequestType] /\ \A s \in Request : RequestInv(req[s])'
  BY <1>3, <1>4, OneRequest
<1>6. bearer' \in [left : 0..TokenTTL, life : 0..TokenLife] /\ challenge' \in BOOLEAN
  BY <1>4 DEF isolate, StaleInv, TypeOK
<1> QED BY <1>4, <1>5, <1>6, OnlyRequests DEF isolate

(* An answer arrives: a manifest is kept when it is as old as the request. *)
LEMMA ReceiveStep ==
  ASSUME StaleInv, NEW r \in Request, Receive(r)
  PROVE  StaleInv'
<1> DEFINE q == req[r]
           t == TagOf(q.url)
<1>1. q \in RequestType /\ RequestInv(q) /\ q.at = "got" /\ q.url \in Url /\ t \in Tag
  BY Tags DEF StaleInv, TypeOK, Receive, RequestInv
<1>2. /\ q.ver \in Answers /\ q.hurt \in BOOLEAN /\ q.retry \in BOOLEAN /\ q.age \in 0..Delay
      /\ q.status \in Statuses /\ q.status # "none"
  BY <1>1 DEF RequestType, RequestInv
<1>3. /\ q.ver # Failed => /\ q.ver \in Version(t)
                           /\ superseded[t][q.ver] <= q.age + Delay + ManifestTTL - 1
      /\ q.ver = 0 => superseded[t][0] <= q.age
      /\ q.status = "ok" => q.ver > 0 /\ superseded[t][q.ver] <= q.age
      /\ q.status \in {"missing", "blob"} => q.ver >= 0
      /\ q.status = "error" \/ (q.status = "refused" /\ q.retry) => q.hurt
  BY <1>1 DEF RequestInv
<1>4. UNCHANGED <<current, edge, bearer, challenge, superseded>>
  BY DEF Receive
<1>t. t = TagOf(q.url)
  OBVIOUS
<1>5. q.status = "refused" /\ q.retry =>
        Respond(q, Failed) \in RequestType /\ RequestInv(Respond(q, Failed))
  <2> HIDE DEF q, t
  <2> QED BY <1>1, <1>3, ResponseKeeps, VersionsCounted
<1>6. [q EXCEPT !.at = "mint", !.retry = TRUE] \in RequestType
      /\ RequestInv([q EXCEPT !.at = "mint", !.retry = TRUE])
  <2> DEFINE n == [q EXCEPT !.at = "mint", !.retry = TRUE]
  <2> HIDE DEF q, t
  <2>1. n \in RequestType /\ n.at = "mint" /\ n.url = q.url /\ n.ver = q.ver /\ n.age = q.age
    BY <1>1 DEF RequestType, Places
  <2> HIDE DEF n
  <2>2. RequestInv(n)
    BY <1>1, <1>3, <1>t, <2>1 DEF RequestInv
  <2> QED BY <2>1, <2>2 DEF n
<1>7. q.status = "ok" => Fetch(q) \in RequestType /\ RequestInv(Fetch(q))
  <2> HIDE DEF q, t
  <2> QED BY <1>1, <1>2, <1>3, <1>t, FetchKeeps
<1>8. q.status # "refused" => Respond(q, q.ver) \in RequestType /\ RequestInv(Respond(q, q.ver))
  <2> HIDE DEF q, t
  <2>1. q.ver = Failed /\ q.status # "refused" => q.hurt
    BY <1>2, <1>3, VersionsCounted DEF Statuses
  <2>2. SUFFICES ASSUME q.status # "refused"
                 PROVE  Respond(q, q.ver) \in RequestType /\ RequestInv(Respond(q, q.ver))
    OBVIOUS
  <2> QED BY <1>1, <1>2, <1>3, <1>t, <2>1, <2>2, ResponseKeeps
<1>9. PICK n \in RequestType : RequestInv(n) /\ req' = [req EXCEPT ![r] = n]
  <2>1. \/ q.status = "refused" /\ q.retry /\ req' = [req EXCEPT ![r] = Respond(q, Failed)]
        \/ req' = [req EXCEPT ![r] = [q EXCEPT !.at = "mint", !.retry = TRUE]]
        \/ q.status = "ok" /\ req' = [req EXCEPT ![r] = Fetch(q)]
        \/ q.status # "refused" /\ req' = [req EXCEPT ![r] = Respond(q, q.ver)]
    BY DEF Receive, AfterRefusal
  <2> HIDE DEF q, t
  <2> QED BY <1>5, <1>6, <1>7, <1>8, <2>1
<1>10. req' \in [Request -> RequestType] /\ \A s \in Request : RequestInv(req[s])'
  BY <1>4, <1>9, OneRequest
<1>11. \/ manifests' = manifests
       \/ q.status = "ok" /\ manifests' = [manifests EXCEPT ![t] = [ver |-> q.ver, left |-> ManifestTTL]]
  BY DEF Receive, KeptManifest
<1>12. manifests' \in [Tag -> [ver : Answers, left : 0..ManifestTTL]]
  <2> HIDE DEF q, t
  <2> QED BY <1>1, <1>2, <1>11, Lifetimes DEF StaleInv, TypeOK
<1>13. ASSUME NEW w \in Tag PROVE KeptInv(w)'
  <2> HIDE DEF q, t
  <2>1. CASE manifests'[w] = manifests[w]
    BY <2>1, <1>4 DEF StaleInv, KeptInv
  <2>2. CASE q.status = "ok" /\ w = t /\ manifests'[w] = [ver |-> q.ver, left |-> ManifestTTL]
    <3>1. q.ver \in Version(t) /\ q.ver > 0 /\ superseded[t][q.ver] <= q.age
      BY <1>2, <1>3, <2>2, VersionsCounted
    <3>2. superseded[t][q.ver] \in Nat
      BY <1>1, <3>1, Lags DEF StaleInv, TypeOK
    <3> QED BY <1>2, <1>4, <2>2, <3>1, <3>2, Lifetimes DEF KeptInv
  <2>3. manifests \in [Tag -> [ver : Answers, left : 0..ManifestTTL]]
    BY DEF StaleInv, TypeOK
  <2> QED BY <1>1, <1>11, <2>1, <2>2, <2>3
<1> QED
  BY <1>4, <1>10, <1>12, <1>13 DEF StaleInv, TypeOK, EdgeInv, MissesShort, KeysRotate, Fresh

(* A response passes the edge cache: its max-age counts on from what the   *)
(* request already knew to be out of date.                                 *)
LEMMA AnswerStep ==
  ASSUME StaleInv, NEW r \in Request, Answer(r)
  PROVE  StaleInv'
<1> DEFINE u == req[r].url
           v == req[r].ver
           e == [ver |-> v, left |-> MaxAge(v, u)]
           t == TagOf(u)
<1>1. req[r] \in RequestType /\ RequestInv(req[r]) /\ req[r].at = "answer"
  BY DEF StaleInv, TypeOK, Answer
<1>2. u \in Url /\ t \in Tag /\ v \in Answers /\ req[r].age \in 0..Delay
  BY <1>1, Tags DEF RequestInv, RequestType
<1>3. /\ v # Failed => /\ v \in Version(t)
                       /\ superseded[t][v] <= req[r].age + Delay + ManifestTTL - 1
      /\ v = 0 => superseded[t][0] <= req[r].age
  BY <1>1 DEF RequestInv
<1>4. edge' = [edge EXCEPT ![u] = e] /\ UNCHANGED <<current, isolate, superseded>>
  BY DEF Answer
<1>5. MaxAge(v, u) \in Nat \cup {Year}
  BY Lifetimes DEF MaxAge
<1>6. req' \in [Request -> RequestType] /\ \A s \in Request : RequestInv(req[s])'
  <2>1. RequestInv(Idle) /\ Idle \in RequestType
    BY IdleRequest DEF RequestInv, Idle
  <2> QED BY <1>4, <2>1, OneRequest DEF Answer
<1>7. edge' \in [Url -> [ver : Answers, left : Nat \cup {Year}]]
  BY <1>2, <1>4, <1>5 DEF StaleInv, TypeOK
<1>8. ASSUME NEW w \in Url PROVE edge'[w] = IF w = u THEN e ELSE edge[w]
  BY <1>2, <1>4 DEF StaleInv, TypeOK
<1>9. v # Failed => superseded[t][v] \in Nat
  BY <1>2, <1>3, Lags DEF StaleInv, TypeOK
<1>10. ~Has(u, v) =>
         /\ MaxAge(v, u) # Year /\ MaxAge(v, u) <= MissTTL
         /\ v # Failed => superseded[t][v] + MaxAge(v, u) <= AnswerLag(v) + MissTTL
  <2> SUFFICES ASSUME ~Has(u, v)
               PROVE  /\ MaxAge(v, u) # Year /\ MaxAge(v, u) <= MissTTL
                      /\ v # Failed => superseded[t][v] + MaxAge(v, u) <= AnswerLag(v) + MissTTL
    OBVIOUS
  <2> HIDE DEF u, v, t
  <2>1. MaxAge(v, u) = MissTTL /\ (v # Failed => v \in Nat)
    BY <1>2, HitsAndMisses
  <2>2. v # Failed => superseded[t][v] <= AnswerLag(v)
    <3>1. v = 0 => superseded[t][v] <= AnswerLag(v)
      BY <1>2, <1>3, <1>9, Lags, Lifetimes DEF Failed
    <3>2. v # Failed /\ v # 0 => superseded[t][v] <= AnswerLag(v)
      <4>1. v # Failed => superseded[t][v] <= 2 * Delay + ManifestTTL - 1
        BY <1>2, <1>3, <1>9, Lifetimes
      <4>2. v # Failed /\ v # 0 => v \in Nat \ {0}
        BY <2>1
      <4> QED BY <4>1, <4>2, Lags
    <3> QED BY <3>1, <3>2
  <2> QED BY <1>9, <2>1, <2>2, Lags, Lifetimes DEF Year
<1>11. u = "key" /\ Has(u, v) =>
         MaxAge(v, u) # Year /\ superseded["config"][v] + MaxAge(v, u) <= AnswerLag(v) + KeyTTL
  <2>1. u = "key" => t = "config"
    BY DEF TagOf
  <2> HIDE DEF u, v, t
  <2> SUFFICES ASSUME u = "key", Has(u, v)
               PROVE  /\ MaxAge(v, u) # Year
                      /\ superseded["config"][v] + MaxAge(v, u) <= AnswerLag(v) + KeyTTL
    OBVIOUS
  <2>2. MaxAge(v, u) = KeyTTL /\ v \in Nat \ {0} /\ v # Failed
    BY <1>2, HitsAndMisses
  <2>3. superseded[t][v] \in Nat /\ superseded[t][v] <= AnswerLag(v)
    BY <1>2, <1>3, <1>9, <2>2, Lags, Lifetimes
  <2> QED BY <2>1, <2>2, <2>3, Lags, Lifetimes DEF Year
<1> HIDE DEF u, v
<1>12. \A w \in Url : EdgeInv(w)'
  BY <1>3, <1>4, <1>8 DEF EdgeInv, StaleInv, Fresh
<1>13. MissesShort'
  <2>1. ASSUME NEW w \in Url, Fresh(edge'[w]), ~Has(w, edge'[w].ver)
        PROVE  /\ edge'[w].left # Year /\ edge'[w].left <= MissTTL
               /\ edge'[w].ver # Failed =>
                    superseded[TagOf(w)][edge'[w].ver] + edge'[w].left
                      <= AnswerLag(edge'[w].ver) + MissTTL
    <3>1. CASE w = u
      BY <2>1, <3>1, <1>8, <1>10
    <3>2. CASE w # u
      BY <2>1, <3>2, <1>8 DEF StaleInv, MissesShort
    <3> QED BY <3>1, <3>2
  <2> QED BY <2>1, <1>4 DEF MissesShort, Fresh
<1>14. KeysRotate'
  <2>1. ASSUME NEW w \in Url \cap {"key"}, Fresh(edge'[w]), Has(w, edge'[w].ver)
        PROVE  /\ edge'[w].left # Year
               /\ superseded["config"][edge'[w].ver] + edge'[w].left
                    <= AnswerLag(edge'[w].ver) + KeyTTL
    <3>1. CASE w = u
      BY <2>1, <3>1, <1>8, <1>11
    <3>2. CASE w # u
      BY <2>1, <3>2, <1>8 DEF StaleInv, KeysRotate
    <3> QED BY <3>1, <3>2
  <2> QED BY <2>1, <1>4 DEF KeysRotate, Fresh
<1> QED
  BY <1>4, <1>6, <1>7, <1>12, <1>13, <1>14
  DEF isolate, StaleInv, TypeOK, KeptInv, Fresh

(* A new version makes none older than it was.                             *)
LEMMA PublishStep ==
  ASSUME StaleInv, NEW t \in Tag, Publish(t)
  PROVE  StaleInv'
<1>1. UNCHANGED <<edge, isolate, req, superseded>>
  BY DEF Publish
<1>2. \A s \in Tag : current'[s] \in Version(s) /\ current'[s] >= current[s]
  <2>1. \A s \in Tag : current'[s] = current[s] \/ (s = t /\ current'[s] = current[s] + 1)
    BY DEF Publish
  <2>2. \A s \in Tag : current[s] \in Version(s)
    BY DEF StaleInv, TypeOK
  <2>3. current[t] < First[t] + MaxChanges[t]
    BY DEF Publish
  <2> QED BY <2>1, <2>2, <2>3, Lifetimes DEF Version
<1>3. \A s \in Tag : \A v \in Version(s) : v >= current'[s] => superseded[s][v] = 0
  <2>1. \A s \in Tag : Version(s) \subseteq Nat /\ current[s] \in Nat /\ current'[s] \in Nat
    BY <1>2, VersionsCounted DEF StaleInv, TypeOK
  <2>2. \A s \in Tag : \A v \in Version(s) : v >= current[s] => superseded[s][v] = 0
    BY DEF StaleInv
  <2> QED BY <1>2, <2>1, <2>2
<1>4. TypeOK'
  BY <1>1, <1>2 DEF StaleInv, TypeOK, isolate
<1> QED
  BY <1>1, <1>3, <1>4
  DEF isolate, StaleInv, RequestInv, KeptInv, EdgeInv, MissesShort, KeysRotate, Fresh

(* What is dropped needs no promise.                                       *)
LEMMA EvictStep ==
  ASSUME StaleInv, NEW u \in Url, Evict(u)
  PROVE  StaleInv'
<1>1. UNCHANGED <<current, isolate, req, superseded>> /\ edge' = [edge EXCEPT ![u] = Nothing]
  BY DEF Evict
<1>2. Nothing \in [ver : Answers, left : Nat \cup {Year}] /\ Nothing.left = 0
  BY VersionsCounted DEF Nothing
<1>3. edge' \in [Url -> [ver : Answers, left : Nat \cup {Year}]]
  BY <1>1, <1>2 DEF StaleInv, TypeOK
<1>4. \A w \in Url : edge'[w] = edge[w] \/ ~Fresh(edge'[w])
  BY <1>1, <1>2 DEF StaleInv, TypeOK, Fresh
<1>5. TypeOK'
  BY <1>1, <1>3 DEF StaleInv, TypeOK, isolate
<1>6. (\A w \in Url : EdgeInv(w)') /\ MissesShort' /\ KeysRotate'
  BY <1>1, <1>4 DEF StaleInv, EdgeInv, MissesShort, KeysRotate, Fresh
<1> QED BY <1>1, <1>5, <1>6 DEF isolate, StaleInv, RequestInv, KeptInv, Fresh

LEMMA ColdStartStep ==
  ASSUME StaleInv, ColdStart
  PROVE  StaleInv'
<1>1. UNCHANGED <<current, edge, superseded>>
  BY DEF ColdStart
<1>2. Nothing \in [ver : Answers, left : 0..ManifestTTL] /\ Nothing.left = 0
      /\ NoToken \in [left : 0..TokenTTL, life : 0..TokenLife]
  BY Lifetimes, VersionsCounted DEF Nothing, NoToken
<1>3. TypeOK'
  BY <1>1, <1>2, IdleRequest DEF ColdStart, StaleInv, TypeOK
<1>4. \A r \in Request : RequestInv(req[r])'
  BY DEF ColdStart, RequestInv, Idle
<1>5. \A t \in Tag : KeptInv(t)'
  BY <1>2 DEF ColdStart, KeptInv, Fresh
<1> QED BY <1>1, <1>3, <1>4, <1>5 DEF StaleInv, EdgeInv, MissesShort, KeysRotate, Fresh

(* In a tick a version ages by one at most, and only once it is replaced.  *)
LEMMA TickAges ==
  ASSUME StaleInv, Tick
  PROVE  /\ \A t \in Tag : /\ superseded'[t] \in [Version(t) -> Nat]
                            /\ \A v \in Version(t) : superseded'[t][v] <= Horizon(t, v)
         /\ \A t \in Tag : \A v \in Version(t) : superseded'[t][v] <= superseded[t][v] + 1
         /\ \A t \in Tag : \A v \in Version(t) : v >= current'[t] => superseded'[t][v] = 0
<1>1. ASSUME NEW t \in Tag, NEW v \in Version(t)
      PROVE  /\ superseded'[t][v] \in Nat /\ superseded'[t][v] <= Horizon(t, v)
             /\ superseded'[t][v] <= superseded[t][v] + 1
             /\ v >= current'[t] => superseded'[t][v] = 0
  <2>1. superseded'[t][v] = IF v >= current[t] \/ superseded[t][v] = Horizon(t, v)
                            THEN superseded[t][v] ELSE superseded[t][v] + 1
    BY <1>1 DEF Tick
  <2>2. superseded[t][v] \in Nat /\ superseded[t][v] <= Horizon(t, v) /\ Horizon(t, v) \in Nat
    BY Lags, VersionsCounted DEF StaleInv, TypeOK
  <2>3. v >= current[t] => superseded[t][v] = 0
    BY <1>1 DEF StaleInv
  <2>4. current' = current
    BY DEF Tick
  <2> QED BY <2>1, <2>2, <2>3, <2>4
<1>2. \A t \in Tag : superseded'[t] = [v \in Version(t) |-> superseded'[t][v]]
  BY DEF Tick
<1> QED BY <1>1, <1>2

(* A request ages with what it knows, and loses as much of its token.      *)
LEMMA TickRequests ==
  ASSUME StaleInv, Tick
  PROVE  req' \in [Request -> RequestType] /\ \A r \in Request : RequestInv(req[r])'
<1>1. ASSUME NEW r \in Request
      PROVE  req'[r] \in RequestType /\ RequestInv(req[r])'
  <2>1. req[r] \in RequestType /\ RequestInv(req[r])
    BY DEF StaleInv, TypeOK
  <2>2. CASE req[r].at = "idle"
    <3>1. req'[r] = Idle
      BY <2>2 DEF Tick
    <3> QED BY <3>1, IdleRequest DEF RequestInv, Idle
  <2>3. CASE req[r].at # "idle"
    <3> DEFINE q == req[r]
               n == req'[r]
               t == TagOf(q.url)
    <3>1. n = [q EXCEPT !.age = @ + 1, !.token = Less(@)]
      BY <2>3 DEF Tick
    <3>2. q.age \in Nat /\ q.age < Delay /\ q.token \in 0..TokenLife
      <4>1. q.age \in 0..Delay /\ q.token \in 0..TokenLife
        BY <2>1 DEF RequestType
      <4>2. q.age < Delay
        BY <2>3 DEF Tick
      <4> QED BY <4>1, <4>2, Lifetimes
    <3>3. Less(q.token) \in 0..TokenLife /\ Less(q.token) >= q.token - 1
      BY <3>2, Lifetimes DEF Less
    <3>4. n \in RequestType
      <4>1. q.age + 1 \in 0..Delay
        BY <3>2, Lifetimes
      <4> QED BY <2>1, <3>1, <3>3, <4>1 DEF RequestType
    <3>5. /\ n.at = q.at /\ n.url = q.url /\ n.ver = q.ver /\ n.status = q.status
          /\ n.retry = q.retry /\ n.hurt = q.hurt /\ n.age = q.age + 1 /\ n.token = Less(q.token)
      BY <2>1, <3>1 DEF RequestType
    <3>6. t \in Tag /\ q.url \in Url
      BY <2>1, <2>3, Tags DEF RequestInv
    <3>7. \A v \in Version(t) : superseded[t][v] \in Nat /\ superseded'[t][v] \in Nat
                                /\ superseded'[t][v] <= superseded[t][v] + 1
      BY <3>6, TickAges, Lags DEF StaleInv, TypeOK
    <3>8. q.ver # Failed => q.ver \in Version(t)
                            /\ superseded[t][q.ver] <= q.age + Delay + ManifestTTL - 1
      BY <2>1, <2>3 DEF RequestInv
    <3>9. q.ver # Failed => superseded'[t][q.ver] <= n.age + Delay + ManifestTTL - 1
      <4> HIDE DEF q, n, t
      <4> QED BY <3>2, <3>5, <3>7, <3>8, Lifetimes
    <3>10. q.ver = 0 => superseded'[t][0] <= n.age
      <4>1. q.ver = 0 => superseded[t][0] <= q.age
        BY <2>1, <2>3 DEF RequestInv
      <4>2. 0 \in Version(t)
        BY <3>6, VersionsCounted
      <4> HIDE DEF q, n, t
      <4> QED BY <3>2, <3>5, <3>7, <4>1, <4>2
    <3>11. q.at = "got" =>
             /\ q.status = "ok" => q.ver > 0 /\ superseded'[t][q.ver] <= n.age
             /\ q.status \in {"missing", "blob"} => q.ver >= 0
             /\ q.status = "error" \/ (q.status = "refused" /\ q.retry) => q.hurt
             /\ q.status # "none"
      <4>1. q.at = "got" =>
              /\ q.status = "ok" => q.ver > 0 /\ superseded[t][q.ver] <= q.age
              /\ q.status \in {"missing", "blob"} => q.ver >= 0
              /\ q.status = "error" \/ (q.status = "refused" /\ q.retry) => q.hurt
              /\ q.status # "none"
        BY <2>1 DEF RequestInv
      <4>2. q.ver > 0 => q.ver # Failed
        BY DEF Failed
      <4> HIDE DEF q, n, t
      <4> QED BY <3>2, <3>5, <3>7, <3>8, <4>1, <4>2
    <3>12. q.at \in {"minted", "send"} /\ q.retry => q.hurt \/ n.token + n.age >= TokenLife
      <4>1. q.at \in {"minted", "send"} /\ q.retry => q.hurt \/ q.token + q.age >= TokenLife
        BY <2>1 DEF RequestInv
      <4> HIDE DEF q, n, t
      <4> QED BY <3>2, <3>3, <3>5, <4>1, Lifetimes
    <3>13. q.at = "answer" /\ q.ver = Failed => q.hurt
      BY <2>1 DEF RequestInv
    <3>14. n.url \in Url /\ TagOf(n.url) = t
      BY <3>5, <3>6
    <3>15. RequestInv(req[r])'
      <4> HIDE DEF t
      <4> QED BY <3>5, <3>8, <3>9, <3>10, <3>11, <3>12, <3>13, <3>14 DEF RequestInv
    <3> QED BY <3>4, <3>15
  <2> QED BY <2>2, <2>3
<1>2. req' = [r \in Request |-> req'[r]]
  BY DEF Tick
<1> QED BY <1>1, <1>2

(* What is kept for longer than a tick stays, with one tick less.          *)
LEMMA OlderKeeps ==
  ASSUME NEW e \in [ver : Answers, left : Nat \cup {Year}]
  PROVE  /\ Older(e) \in [ver : Answers, left : Nat \cup {Year}]
         /\ Fresh(Older(e)) => /\ Fresh(e) /\ Older(e).ver = e.ver
                               /\ Older(e).left = Year <=> e.left = Year
                               /\ e.left # Year => Older(e).left = e.left - 1
         /\ e.left \in Nat => Older(e).left \in Nat /\ Older(e).left <= e.left
<1>1. CASE e.left = 1
  <2>1. Older(e) = [ver |-> Failed, left |-> 0]
    BY <1>1 DEF Older, Nothing
  <2> QED BY <1>1, <2>1, VersionsCounted DEF Fresh
<1>2. CASE e.left # 1
  <2>1. Older(e) = [e EXCEPT !.left = Less(e.left)]
    BY <1>2 DEF Older
  <2>2. /\ e.left \in Nat \cup {Year} /\ Less(e.left) \in Nat \cup {Year}
        /\ Less(e.left) = Year <=> e.left = Year
        /\ Less(e.left) # 0 => e.left # 0 /\ (e.left # Year => Less(e.left) = e.left - 1)
        /\ e.left \in Nat => Less(e.left) \in Nat /\ Less(e.left) <= e.left
    BY <1>2 DEF Less, Year
  <2>3. /\ Older(e).ver = e.ver /\ Older(e).left = Less(e.left)
        /\ Older(e) \in [ver : Answers, left : Nat \cup {Year}]
    BY <2>1, <2>2
  <2> QED BY <2>2, <2>3 DEF Fresh
<1> QED BY <1>1, <1>2

(* What is kept gets older and its lifetime shorter by the same tick.      *)
LEMMA TickCaches ==
  ASSUME StaleInv, Tick
  PROVE  /\ edge' \in [Url -> [ver : Answers, left : Nat \cup {Year}]]
         /\ manifests' \in [Tag -> [ver : Answers, left : 0..ManifestTTL]]
         /\ bearer' \in [left : 0..TokenTTL, life : 0..TokenLife]
         /\ \A u \in Url : EdgeInv(u)'
         /\ \A t \in Tag : KeptInv(t)'
         /\ MissesShort' /\ KeysRotate'
<1>1. ASSUME NEW u \in Url
      PROVE  edge'[u] = Older(edge[u]) /\ edge[u] \in [ver : Answers, left : Nat \cup {Year}]
  BY DEF Tick, StaleInv, TypeOK
<1>2. ASSUME NEW t \in Tag
      PROVE  /\ manifests'[t] = Older(manifests[t])
             /\ manifests[t] \in [ver : Answers, left : Nat \cup {Year}]
             /\ manifests[t].left \in 0..ManifestTTL
  <2>1. manifests[t] \in [ver : Answers, left : 0..ManifestTTL]
    BY DEF StaleInv, TypeOK
  <2>2. manifests[t].left \in Nat
    BY <2>1, Lifetimes
  <2>3. manifests'[t] = Older(manifests[t])
    BY DEF Tick
  <2> QED BY <2>1, <2>2, <2>3
<1>5. edge' \in [Url -> [ver : Answers, left : Nat \cup {Year}]]
  <2>1. \A u \in Url : edge'[u] \in [ver : Answers, left : Nat \cup {Year}]
    BY <1>1, OlderKeeps
  <2> QED BY <2>1 DEF Tick
<1>6. manifests' \in [Tag -> [ver : Answers, left : 0..ManifestTTL]]
  <2>1. ASSUME NEW t \in Tag PROVE manifests'[t] \in [ver : Answers, left : 0..ManifestTTL]
    <3>1. /\ manifests'[t] \in [ver : Answers, left : Nat \cup {Year}]
          /\ manifests'[t].left \in Nat /\ manifests'[t].left <= manifests[t].left
      BY <1>2, OlderKeeps, Lifetimes
    <3>2. manifests'[t].left \in 0..ManifestTTL
      BY <1>2, <3>1, Lifetimes
    <3> QED BY <3>1, <3>2
  <2> QED BY <2>1 DEF Tick
<1>7. bearer' \in [left : 0..TokenTTL, life : 0..TokenLife]
  <2>1. bearer \in [left : 0..TokenTTL, life : 0..TokenLife]
    BY DEF StaleInv, TypeOK
  <2>2. \A n \in Nat : Less(n) \in Nat /\ Less(n) <= n
    BY DEF Less
  <2>3. bearer.left \in 0..TokenTTL /\ bearer.life \in 0..TokenLife
    BY <2>1
  <2>4. Less(bearer.left) \in 0..TokenTTL /\ Less(bearer.life) \in 0..TokenLife
    BY <2>2, <2>3, Lifetimes
  <2>5. bearer' = NoToken \/ bearer' = [left |-> Less(bearer.left), life |-> Less(bearer.life)]
    BY DEF Tick
  <2>6. NoToken \in [left : 0..TokenTTL, life : 0..TokenLife]
    BY Lifetimes DEF NoToken
  <2> QED BY <2>4, <2>5, <2>6
<1>8. ASSUME NEW u \in Url PROVE EdgeInv(u)'
  <2>1. Fresh(edge'[u]) => Fresh(edge[u]) /\ edge'[u].ver = edge[u].ver
    BY <1>1, OlderKeeps
  <2> QED BY <2>1 DEF StaleInv, EdgeInv, Fresh
<1>9. ASSUME NEW t \in Tag, NEW v \in Version(t)
      PROVE  superseded[t][v] \in Nat /\ superseded'[t][v] \in Nat
             /\ superseded'[t][v] <= superseded[t][v] + 1
  BY TickAges, Lags DEF StaleInv, TypeOK
<1>10. ASSUME NEW t \in Tag PROVE KeptInv(t)'
  <2> DEFINE e == manifests[t]
             f == manifests'[t]
  <2> SUFFICES ASSUME Fresh(f)
               PROVE  /\ f.ver \in Version(t) /\ f.ver > 0
                      /\ superseded'[t][f.ver] + f.left <= Delay + ManifestTTL
    BY DEF KeptInv, Fresh
  <2>1. e.left \in Nat /\ e.left # Year
    BY <1>2, Lifetimes DEF Year
  <2>2. Fresh(e) /\ f.ver = e.ver /\ f.left = e.left - 1
    BY <1>2, <2>1, OlderKeeps
  <2>3. /\ e.ver \in Version(t) /\ e.ver > 0
        /\ superseded[t][e.ver] + e.left <= Delay + ManifestTTL
    BY <2>2 DEF StaleInv, KeptInv
  <2>4. superseded[t][e.ver] \in Nat /\ superseded'[t][e.ver] \in Nat
        /\ superseded'[t][e.ver] <= superseded[t][e.ver] + 1
    BY <1>9, <2>3
  <2> HIDE DEF e, f
  <2> QED BY <2>1, <2>2, <2>3, <2>4, Lifetimes
<1>11. MissesShort'
  <2>1. ASSUME NEW u \in Url, Fresh(edge'[u]), ~Has(u, edge'[u].ver)
        PROVE  /\ edge'[u].left # Year /\ edge'[u].left <= MissTTL
               /\ edge'[u].ver # Failed =>
                    superseded'[TagOf(u)][edge'[u].ver] + edge'[u].left
                      <= AnswerLag(edge'[u].ver) + MissTTL
    <3> DEFINE k == edge[u].left
               l == edge'[u].left
               v == edge[u].ver
               t == TagOf(u)
    <3>1. /\ Fresh(edge[u]) /\ edge'[u].ver = v /\ v \in Answers
          /\ (l = Year <=> k = Year) /\ (k # Year => l = k - 1) /\ k \in Nat \cup {Year}
      BY <1>1, <2>1, OlderKeeps
    <3>2. /\ k # Year /\ k <= MissTTL
          /\ v # Failed => superseded[t][v] + k <= AnswerLag(v) + MissTTL
      BY <2>1, <3>1 DEF StaleInv, MissesShort
    <3>3. t \in Tag /\ (v # Failed => v \in Version(t) /\ AnswerLag(v) \in Nat)
      BY <3>1, Tags, HitsAndMisses, Lags DEF StaleInv, EdgeInv
    <3>4. v # Failed => /\ superseded[t][v] \in Nat /\ superseded'[t][v] \in Nat
                        /\ superseded'[t][v] <= superseded[t][v] + 1
      BY <1>9, <3>3
    <3> HIDE DEF k, l, v, t
    <3>5. /\ l # Year /\ l <= MissTTL
          /\ v # Failed => superseded'[t][v] + l <= AnswerLag(v) + MissTTL
      BY <3>1, <3>2, <3>3, <3>4, Lifetimes
    <3> QED BY <3>1, <3>5 DEF l, t
  <2> QED BY <2>1 DEF MissesShort, Fresh
<1>12. KeysRotate'
  <2>1. ASSUME NEW u \in Url \cap {"key"}, Fresh(edge'[u]), Has(u, edge'[u].ver)
        PROVE  /\ edge'[u].left # Year
               /\ superseded'["config"][edge'[u].ver] + edge'[u].left
                    <= AnswerLag(edge'[u].ver) + KeyTTL
    <3> DEFINE k == edge[u].left
               l == edge'[u].left
               v == edge[u].ver
    <3>1. /\ Fresh(edge[u]) /\ edge'[u].ver = v /\ v \in Answers
          /\ (l = Year <=> k = Year) /\ (k # Year => l = k - 1) /\ k \in Nat \cup {Year}
      BY <1>1, <2>1, OlderKeeps
    <3>2. k # Year /\ superseded["config"][v] + k <= AnswerLag(v) + KeyTTL
      BY <2>1, <3>1 DEF StaleInv, KeysRotate
    <3>3. "config" \in Tag /\ v \in Version("config") /\ AnswerLag(v) \in Nat
      <4>1. v # Failed /\ v \in Nat
        BY <2>1, <3>1, HitsAndMisses
      <4> QED BY <3>1, <4>1, Lags DEF StaleInv, EdgeInv, TagOf, Tag
    <3>4. superseded["config"][v] \in Nat /\ superseded'["config"][v] \in Nat
          /\ superseded'["config"][v] <= superseded["config"][v] + 1
      BY <1>9, <3>3
    <3> HIDE DEF k, l, v
    <3>5. l # Year /\ superseded'["config"][v] + l <= AnswerLag(v) + KeyTTL
      BY <3>1, <3>2, <3>3, <3>4, Lifetimes
    <3> QED BY <3>1, <3>5 DEF l
  <2> QED BY <2>1 DEF KeysRotate, Fresh
<1> QED BY <1>5, <1>6, <1>7, <1>8, <1>10, <1>11, <1>12

LEMMA TickStep ==
  ASSUME StaleInv, Tick
  PROVE  StaleInv'
<1>1. UNCHANGED <<current, challenge>>
  BY DEF Tick
<1>2. TypeOK'
  BY <1>1, TickAges, TickRequests, TickCaches DEF StaleInv, TypeOK
<1> QED BY <1>2, TickAges, TickRequests, TickCaches DEF StaleInv

-----------------------------------------------------------------------------

(* Each step keeps the invariant.                                          *)
LEMMA StaleStepInv == StaleInv /\ [Next]_vars => StaleInv'
<1> SUFFICES ASSUME StaleInv, [Next]_vars PROVE StaleInv'
  OBVIOUS
<1>1. ASSUME NEW r \in Request, NEW u \in Url, Arrive(r, u) PROVE StaleInv'
  BY <1>1, ArriveStep
<1>2. ASSUME NEW r \in Request, Mint(r) \/ Minted(r) \/ Serve(r) \/ Receive(r) \/ Answer(r)
      PROVE  StaleInv'
  BY <1>2, MintStep, MintedStep, ServeStep, ReceiveStep, AnswerStep
<1>3. ASSUME NEW t \in Tag, Publish(t) PROVE StaleInv'
  BY <1>3, PublishStep
<1>4. ASSUME NEW u \in Url, Evict(u) PROVE StaleInv'
  BY <1>4, EvictStep
<1>5. CASE ColdStart
  BY <1>5, ColdStartStep
<1>6. CASE Tick
  BY <1>6, TickStep
<1>7. CASE UNCHANGED vars
  BY <1>7 DEF vars, isolate, StaleInv, TypeOK, RequestInv, KeptInv, EdgeInv, MissesShort,
              KeysRotate, Fresh
<1> QED BY <1>1, <1>2, <1>3, <1>4, <1>5, <1>6, <1>7 DEF Next

(* What the worker and the edge cache hold is never older than the         *)
(* lifetimes in worker.js, and the time of the requests, account for.      *)
THEOREM StaleInvariant == Spec => []StaleInv
<1> QED BY StaleInitInv, StaleStepInv, PTL DEF Spec

(* Every variable keeps its type, for every lifetime and number of requests. *)
THEOREM EdgeTypeCorrect == Spec => []TypeOK
<1>1. StaleInv => TypeOK
  BY DEF StaleInv
<1> QED BY <1>1, StaleInvariant, PTL

(* A path pushed after the first lookup is not reported missing for longer *)
(* than one request and one CACHE_NOT_FOUND take, nor what an earlier      *)
(* manifest lacked for longer than these, another request and              *)
(* MANIFEST_TTL.                                                           *)
THEOREM MissesAlwaysShort == Spec => []MissesShort
<1>1. StaleInv => MissesShort
  BY DEF StaleInv
<1> QED BY <1>1, StaleInvariant, PTL

(* A key that `configure` replaced is gone after the sum of the lifetimes  *)
(* of the two caches and the time of two requests.                         *)
THEOREM KeysAlwaysRotate == Spec => []KeysRotate
<1>1. StaleInv => KeysRotate
  BY DEF StaleInv
<1> QED BY <1>1, StaleInvariant, PTL

(* However tokens expire, a request answered as failed has met a fault.    *)
THEOREM OnlyFaultsEverFail == Spec => []OnlyFaultsFail
<1>1. StaleInv => OnlyFaultsFail
  BY DEF StaleInv, RequestInv, OnlyFaultsFail
<1> QED BY <1>1, StaleInvariant, PTL

=============================================================================
