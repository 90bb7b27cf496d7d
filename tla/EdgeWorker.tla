----------------------------- MODULE EdgeWorker -----------------------------
(***************************************************************************)
(* The edge worker (proxy/no-webui-native/worker.js): it answers narinfo,  *)
(* NAR and public key requests from the image manifests of the registry.   *)
(*                                                                         *)
(* Four things go stale at their own pace: the edge cache in front of the  *)
(* worker, which keeps answers as long as their Cache-Control says, and in *)
(* the isolate the manifests, the bearer token and the challenge.  The     *)
(* requests of an isolate take turns: an action is the code from one await *)
(* to the next, or what the registry does in between.                      *)
(*                                                                         *)
(* What a tag stands for is counted in versions: 0 before its first push.  *)
(* One store path and the configuration manifest are modelled; isolates    *)
(* share only the edge cache.  Time passes in ticks.                       *)
(***************************************************************************)
EXTENDS Integers

CONSTANTS
  Url,                          \* what is asked for
  Request,                      \* requests the isolate has under way
  ManifestTTL, MissTTL, KeyTTL, \* ticks an answer is kept
  TokenTTL,                     \* ticks a token is reused
  TokenLife,                    \* ticks the registry accepts a token
  Delay,                        \* bound: ticks a request takes at most
  First,                        \* the version of each tag at first
  MaxChanges,                   \* bound: how often each tag is replaced
  Bare,                         \* for each URL, versions that lack what it asks for
  Faults                        \* what may go wrong

Urls == {"narinfo", "nar", "key"}
Tag == {"path", "config"}
TagOf(u) == IF u = "key" THEN "config" ELSE "path"

FaultKinds == {"registry", "token"}

ASSUME UrlAssumption == Url \subseteq Urls
ASSUME TTLAssumption == {ManifestTTL, MissTTL, KeyTTL, TokenTTL} \subseteq Nat \ {0}
ASSUME TimeAssumption == Delay \in Nat /\ TokenLife \in Nat /\ Delay < TokenLife
ASSUME VersionAssumption == First \in [Tag -> Nat] /\ MaxChanges \in [Tag -> Nat]
ASSUME BareAssumption == Bare \in [Urls -> SUBSET Nat]
ASSUME EdgeFaultsAssumption == Faults \subseteq FaultKinds

Version(t) == 0..(First[t] + MaxChanges[t])
Versions == UNION {Version(t) : t \in Tag}

(* An answer that is no version: a 404 because something failed.           *)
Failed == -1

(* max-age=31536000 is longer than anything here.                          *)
Year == -1

VARIABLES
  current,   \* registry: the version of each tag
  edge,      \* edge cache: the answer kept for each URL, and for how long
  manifests, \* manifestCache
  bearer,    \* cachedBearer: for how long it is reused and accepted
  challenge, \* whether cachedChallenge is known
  req,       \* the requests: where each is, and its locals
  superseded \* history: ticks since a tag stopped to stand for a version

isolate == <<manifests, bearer, challenge>>
vars == <<current, edge, isolate, req, superseded>>

-----------------------------------------------------------------------------

Nothing == [ver |-> Failed, left |-> 0]
NoToken == [left |-> 0, life |-> 0]

(* token: how long the registry accepts the token at hand; retry: after a  *)
(* 401; hurt (history): whether a fault has hit this request; age: ticks.  *)
Idle == [at |-> "idle", url |-> "none", ver |-> Failed, token |-> 0,
         status |-> "none", retry |-> FALSE, hurt |-> FALSE, age |-> 0]

Fresh(e) == e.left # 0

(* currentBearer: a token that may still do, a new one, or the raw secret, *)
(* which no registry modelled here accepts.                                *)
CurrentBearer ==
  IF Fresh(bearer) THEN [at |-> "send", token |-> bearer.life]
  ELSE [at |-> IF challenge THEN "mint" ELSE "send", token |-> 0]

(* A manifest there is, and in it the key, the annotations or a layer: the *)
(* configuration `init` pushes has no key yet.                             *)
Has(u, v) == v > 0 /\ v \notin Bare[u]

(* The response: notFound without a manifest, without what the URL asks    *)
(* for in it, or without the blob.                                         *)
Respond(q, v) ==
  [at |-> "answer", url |-> q.url, ver |-> v, token |-> 0, status |-> "none",
   retry |-> FALSE, hurt |-> q.hurt, age |-> q.age]

(* registryFetch begins.                                                   *)
Fetch(q) == [q EXCEPT !.at = CurrentBearer.at, !.token = CurrentBearer.token,
                      !.status = "none", !.retry = FALSE]

(* FAULT: a manifest in use is not fetched again.                          *)
KeptManifestRenewed(t, q) ==
  IF q.status = "ok" THEN [manifests EXCEPT ![t] = [ver |-> q.ver, left |-> ManifestTTL + KeyTTL]]
  ELSE manifests

(* manifestCache.set, only "if (res.ok)".                                  *)
KeptManifest(t, q) ==
  IF q.status = "ok" THEN [manifests EXCEPT ![t] = [ver |-> q.ver, left |-> ManifestTTL]]
  ELSE manifests

(* FAULT: misses are cached as long as hits.                               *)
MaxAgeAlways(v, u) == IF u = "key" THEN KeyTTL ELSE Year

(* CACHE_NOT_FOUND, CACHE_PUBLIC_KEY, CACHE_IMMUTABLE                      *)
MaxAge(v, u) ==
  IF ~Has(u, v) THEN MissTTL ELSE IF u = "key" THEN KeyTTL ELSE Year

(* FAULT: once the challenge is known a 401 is final.                      *)
AfterRefusalGiveUp(q) == IF challenge THEN "answer" ELSE "mint"

(* A 401 leads to a new token and one retry.                               *)
AfterRefusal(q) == "mint"

(* FAULT: a new token is kept as long as the old one was.                  *)
KeptBearerForLong(life) == [left |-> TokenTTL + TokenLife, life |-> life]

KeptBearer(life) == [left |-> TokenTTL, life |-> life]

-----------------------------------------------------------------------------

(* A request the edge cache cannot answer reaches the worker.              *)
Arrive(r, u) ==
  LET q == [Idle EXCEPT !.url = u]
      kept == manifests[TagOf(u)]
  IN  /\ req[r].at = "idle" /\ ~Fresh(edge[u])
      /\ req' = [req EXCEPT ![r] =
           IF ~Fresh(kept) THEN Fetch(q)
           ELSE IF u = "nar" /\ Has(u, kept.ver) THEN Fetch([q EXCEPT !.ver = kept.ver])
           ELSE Respond(q, kept.ver)]
      /\ UNCHANGED <<current, edge, isolate, superseded>>

(* mintToken asks the realm; no answer leaves the request without a token. *)
Mint(r) ==
  /\ req[r].at = "mint"
  /\ \/ req' = [req EXCEPT ![r].at = "minted", ![r].token = TokenLife]
     \/ "token" \in Faults
        /\ req' = [req EXCEPT ![r].at = "minted", ![r].token = 0, ![r].hurt = TRUE]
  /\ UNCHANGED <<current, edge, isolate, superseded>>

(* A token is kept and used.  Without one currentBearer goes on with the   *)
(* raw secret, registryFetch returns the 401.                              *)
Minted(r) ==
  LET q == req[r] IN
  /\ q.at = "minted"
  /\ req' = [req EXCEPT ![r] = IF q.retry /\ q.token = 0 THEN Respond(q, Failed)
                               ELSE [q EXCEPT !.at = "send"]]
  /\ bearer' = IF q.token > 0 THEN KeptBearer(q.token) ELSE bearer
  /\ challenge' = (challenge \/ (q.retry /\ q.token > 0))
  /\ UNCHANGED <<current, edge, manifests, superseded>>

(* What is asked for: the manifest, or the blob it names.                  *)
WantsBlob(q) == q.url = "nar" /\ Has(q.url, q.ver)

(* The registry answers as things are now.  Blobs stay (push uploads them  *)
(* before it tags).                                                        *)
Serve(r) ==
  LET q == req[r]
      got(s, v) == req' = [req EXCEPT ![r].at = "got", ![r].status = s, ![r].ver = v]
  IN  /\ q.at = "send"
      /\ \/ q.token = 0 /\ got("refused", q.ver)
         \/ q.token > 0 /\ WantsBlob(q) /\ got("blob", q.ver)
         \/ q.token > 0 /\ ~WantsBlob(q)
            /\ got(IF current[TagOf(q.url)] = 0 THEN "missing" ELSE "ok", current[TagOf(q.url)])
         \/ "registry" \in Faults
            /\ req' = [req EXCEPT ![r].at = "got", ![r].status = "error",
                                  ![r].ver = Failed, ![r].hurt = TRUE]
      /\ UNCHANGED <<current, edge, isolate, superseded>>

(* The answer arrives: a refused request is tried once more, a manifest is *)
(* kept, whatever it lacks, and a NAR's blob asked for.                    *)
Receive(r) ==
  LET q == req[r] IN
  /\ q.at = "got"
  /\ IF q.status = "refused"
     THEN /\ req' = [req EXCEPT ![r] =
               IF q.retry \/ AfterRefusal(q) = "answer"
               THEN Respond(q, Failed)
               ELSE [q EXCEPT !.at = "mint", !.retry = TRUE]]
          /\ UNCHANGED manifests
     ELSE /\ manifests' = IF q.status = "blob" THEN manifests
                          ELSE KeptManifest(TagOf(q.url), q)
          /\ req' = [req EXCEPT ![r] = IF q.status = "ok" /\ WantsBlob(q) THEN Fetch(q)
                                       ELSE Respond(q, q.ver)]
  /\ UNCHANGED <<current, edge, bearer, challenge, superseded>>

(* The response passes the edge cache.                                     *)
Answer(r) ==
  LET u == req[r].url  v == req[r].ver IN
  /\ req[r].at = "answer"
  /\ edge' = [edge EXCEPT ![u] = [ver |-> v, left |-> MaxAge(v, u)]]
  /\ req' = [req EXCEPT ![r] = Idle]
  /\ UNCHANGED <<current, isolate, superseded>>

-----------------------------------------------------------------------------

(* A push replaces the image of the path, `configure` the configuration.   *)
Publish(t) ==
  /\ current[t] < First[t] + MaxChanges[t]
  /\ current' = [current EXCEPT ![t] = @ + 1]
  /\ UNCHANGED <<edge, isolate, req, superseded>>

(* The edge cache may drop anything, and the platform an isolate.          *)
Evict(u) ==
  /\ edge' = [edge EXCEPT ![u] = Nothing]
  /\ UNCHANGED <<current, isolate, req, superseded>>

ColdStart ==
  /\ manifests' = [t \in Tag |-> Nothing]
  /\ bearer' = NoToken /\ challenge' = FALSE
  /\ req' = [r \in Request |-> Idle]
  /\ UNCHANGED <<current, edge, superseded>>

Less(n) == IF n > 0 THEN n - 1 ELSE n

Older(e) == IF e.left = 1 THEN Nothing ELSE [e EXCEPT !.left = Less(@)]

(* How old a version may be when a request answers with it: one the        *)
(* registry has is kept by the isolate as well.                            *)
AnswerLag(v) == IF v = 0 THEN Delay ELSE 2 * Delay + ManifestTTL - 1

(* bound: superseded counts no further; by then no answer may be left.     *)
Horizon(t, v) ==
  AnswerLag(v) + IF t = "path" \/ KeyTTL < MissTTL THEN MissTTL ELSE KeyTTL

(* One tick; no request may have taken too long already.                   *)
Tick ==
  /\ \A r \in Request : req[r].at = "idle" \/ req[r].age < Delay
  /\ req' = [r \in Request |->
               IF req[r].at = "idle" THEN Idle
               ELSE [req[r] EXCEPT !.age = @ + 1, !.token = Less(@)]]
  /\ edge' = [u \in Url |-> Older(edge[u])]
  /\ manifests' = [t \in Tag |-> Older(manifests[t])]
  /\ bearer' = IF bearer.left = 1 THEN NoToken
               ELSE [left |-> Less(bearer.left), life |-> Less(bearer.life)]
  /\ superseded' = [t \in Tag |-> [v \in Version(t) |->
                      IF v >= current[t] \/ superseded[t][v] = Horizon(t, v) THEN superseded[t][v]
                      ELSE superseded[t][v] + 1]]
  /\ UNCHANGED <<current, challenge>>

Init ==
  /\ current = First
  /\ edge = [u \in Url |-> Nothing]
  /\ manifests = [t \in Tag |-> Nothing]
  /\ bearer = NoToken /\ challenge = FALSE
  /\ req = [r \in Request |-> Idle]
  /\ superseded = [t \in Tag |-> [v \in Version(t) |-> IF v < First[t] THEN Horizon(t, v) ELSE 0]]

Next ==
  \/ \E r \in Request :
       \/ \E u \in Url : Arrive(r, u)
       \/ Mint(r) \/ Minted(r) \/ Serve(r) \/ Receive(r) \/ Answer(r)
  \/ \E t \in Tag : Publish(t)
  \/ \E u \in Url : Evict(u)
  \/ ColdStart \/ Tick

Spec == Init /\ [][Next]_vars

-----------------------------------------------------------------------------

Places == {"idle", "send", "mint", "minted", "got", "answer"}
Statuses == {"none", "ok", "missing", "blob", "refused", "error"}

Answers == Versions \cup {Failed}

RequestType ==
  [at : Places, url : Url \cup {"none"}, ver : Answers, token : 0..TokenLife,
   status : Statuses, retry : BOOLEAN, hurt : BOOLEAN, age : 0..Delay]

(* Type invariant.                                                         *)
TypeOK ==
  /\ \A t \in Tag : current[t] \in Version(t)
  /\ edge \in [Url -> [ver : Answers, left : Nat \cup {Year}]]
  /\ manifests \in [Tag -> [ver : Answers, left : 0..ManifestTTL]]
  /\ bearer \in [left : 0..TokenTTL, life : 0..TokenLife]
  /\ challenge \in BOOLEAN
  /\ req \in [Request -> RequestType]
  /\ \A t \in Tag : /\ superseded[t] \in [Version(t) -> Nat]
                     /\ \A v \in Version(t) : superseded[t][v] <= Horizon(t, v)

(* "Misses must stay short, or a path pushed after the first lookup would  *)
(* be reported missing": while a miss is in the edge cache, what is asked  *)
(* for has been in the registry for no longer than the miss's own lifetime *)
(* and the request take, and, where a manifest without it was there before *)
(* (the configuration of `init`), one more request and the manifest cache. *)
(* A miss for a failure is as short.                                       *)
MissesShort ==
  \A u \in Url :
  LET e == edge[u] IN
  Fresh(e) /\ ~Has(u, e.ver) =>
    /\ e.left # Year /\ e.left <= MissTTL
    /\ e.ver # Failed =>
         superseded[TagOf(u)][e.ver] + e.left <= AnswerLag(e.ver) + MissTTL

(* "The public key can be rotated by `configure`, so it gets a short TTL": *)
(* a key the edge cache answers with was replaced no longer ago than two   *)
(* requests and the lifetimes of both caches take.                         *)
KeysRotate ==
  \A u \in Url \cap {"key"} :
  LET e == edge[u] IN
  Fresh(e) /\ Has(u, e.ver) =>
    e.left # Year /\ superseded["config"][e.ver] + e.left <= AnswerLag(e.ver) + KeyTTL

(* The worker's tokens expire, sometimes while a request is on its way and *)
(* before the worker expects it.  No request fails for that: one that is   *)
(* answered with a failure has met a fault of the registry or the realm.   *)
OnlyFaultsFail ==
  \A r \in Request :
    req[r].at = "answer" /\ req[r].ver = Failed => req[r].hurt

(* The inductive invariant behind these.  A version read from the registry *)
(* is out of date by no more than the request's age, one kept by the       *)
(* isolate by no more than a request and the manifest's lifetime.          *)
RequestInv(q) ==
  LET t == TagOf(q.url) IN
  /\ q.at # "idle" => q.url \in Url
  /\ q.at # "idle" /\ q.ver # Failed =>
       q.ver \in Version(t) /\ superseded[t][q.ver] <= q.age + Delay + ManifestTTL - 1
  /\ q.at # "idle" /\ q.ver = 0 => superseded[t][0] <= q.age
  /\ q.at = "got" =>
       /\ q.status = "ok" => q.ver > 0 /\ superseded[t][q.ver] <= q.age
       /\ q.status \in {"missing", "blob"} => q.ver >= 0
       /\ q.status = "error" \/ (q.status = "refused" /\ q.retry) => q.hurt
       /\ q.status # "none"
  /\ q.at \in {"minted", "send"} /\ q.retry => q.hurt \/ q.token + q.age >= TokenLife
  /\ q.at = "answer" /\ q.ver = Failed => q.hurt

KeptInv(t) ==
  Fresh(manifests[t]) =>
    /\ manifests[t].ver \in Version(t) /\ manifests[t].ver > 0
    /\ superseded[t][manifests[t].ver] + manifests[t].left <= Delay + ManifestTTL

EdgeInv(u) ==
  LET e == edge[u] IN
  Fresh(e) /\ e.ver # Failed => e.ver \in Version(TagOf(u))

StaleInv ==
  /\ TypeOK
  /\ \A t \in Tag : \A v \in Version(t) : v >= current[t] => superseded[t][v] = 0
  /\ \A r \in Request : RequestInv(req[r])
  /\ \A t \in Tag : KeptInv(t)
  /\ \A u \in Url : EdgeInv(u)
  /\ MissesShort /\ KeysRotate

-----------------------------------------------------------------------------
(* A statement of the code it does not live up to.                         *)

(* "narinfo and NAR responses are keyed by the store hash, so their        *)
(* content never changes: cache them for a year": the narinfo and the NAR  *)
(* the edge cache answers with belong together.                            *)
NarMatchesNarinfo ==
  \A u, w \in Url \ {"key"} :
    Fresh(edge[u]) /\ Fresh(edge[w]) /\ Has(u, edge[u].ver) /\ Has(w, edge[w].ver)
      => edge[u].ver = edge[w].ver

=============================================================================
