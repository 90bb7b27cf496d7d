-------------------------- MODULE LocalProxyProofs --------------------------
(***************************************************************************)
(* Theorems about LocalProxy, for any clients, upstreams, images and       *)
(* lengths of a body, with a push at any time.                             *)
(*                                                                         *)
(* A step changes one request, so the invariant is one of a request r,     *)
(* with the source i of its client's narinfo and whether that is shaken.   *)
(***************************************************************************)
EXTENDS LocalProxy, TLAPS

SourceOf(r) == IF r.image # 0 THEN r.image ELSE Upstreams[r.next]

Copying(r) == r.at \in {"stream", "returned"}

(* Nothing is sent before a copy, and a copy is of one source.             *)
CopyInv(r) ==
  /\ r.at \in {"lookup", "fields", "open", "upstream"} => r.sent = <<>>
  /\ Copying(r) =>
       /\ SourceOf(r) \in Image \cup Upstream
       /\ r.image = 0 => r.next <= Len(Upstreams)
       /\ Len(r.sent) <= Size
       /\ \A k \in 1..Len(r.sent) : r.sent[k] = SourceOf(r)
  /\ r.at = "returned" => Len(r.sent) = Size

(* Whoever could have answered and was passed over has failed.             *)
SearchInv(r) ==
  /\ \A k \in DOMAIN Upstreams : k < r.next => Upstreams[k] \in r.failed
  /\ "registry" \in r.could => r.name = StoreHash /\ tag # 0
  /\ r.at \in {"upstream", "notfound"} /\ "registry" \in r.could =>
       \/ "registry" \in r.failed
       \/ r.kind = "narinfo" /\ r.image # 0 /\ ~HasFields(r.image)
  /\ r.at = "notfound" => r.next > Len(Upstreams)

(* A source with a narinfo that comes before the others.                   *)
First(i) ==
  \/ i \in Image /\ i = tag /\ HasFields(tag)
  \/ /\ i \in Upstream /\ i \in has
     /\ tag = 0 \/ ~HasFields(tag)
     /\ \E k \in DOMAIN Upstreams :
          Upstreams[k] = i /\ \A j \in DOMAIN Upstreams : j < k => Upstreams[j] \notin has

(* As long as no push has come between and no source has failed, a request *)
(* goes by what the tag names and by the first upstream that answers.      *)
ChoiceInv(r, i) ==
  /\ r.kind # None => r.could = Could(r.kind, r.name)
  /\ r.kind = "narinfo" => r.name = StoreHash
  /\ r.image # 0 => r.image = tag /\ r.name = StoreHash
  /\ Copying(r) /\ r.image = 0 => Answers(Upstreams[r.next], r.kind, r.name)
  /\ Copying(r) /\ r.image = 0 /\ "registry" \in r.could => "registry" \in r.failed
  /\ Copying(r) /\ r.image # 0 /\ r.kind = "narinfo" => HasFields(r.image)
  /\ r.kind = "nar" => r.name = NarName(i) /\ First(i)

RequestInv(r, i, s) ==
  /\ r.at # "none" => r.kind # None
  /\ r.at = "fields" => r.kind = "narinfo"
  /\ r.at = "open" => r.kind = "nar"
  /\ r.at = "lookup" => r.image = 0
  /\ r.at \in {"fields", "open"} => r.image # 0
  /\ CopyInv(r)
  /\ SearchInv(r)
  /\ ~s => ChoiceInv(r, i)

ProxyInv ==
  /\ TypeOK
  /\ \A c \in Client : RequestInv(req[c], info[c], shaken[c])

-----------------------------------------------------------------------------
(* What every request is, whatever it is for.                              *)

LEMMA UpstreamTypes ==
  /\ \A k \in DOMAIN Upstreams : Upstreams[k] \in Upstream
  /\ DOMAIN Upstreams = 1..Len(Upstreams) /\ Len(Upstreams) \in Nat
BY UpstreamsAssumption DEF Upstream

LEMMA NarNameTypes ==
  ASSUME NEW i \in Image \cup Upstream
  PROVE  NarName(i) \in {StoreHash} \cup Upstream
BY DEF NarName

(* The request of one client moves on and nothing else does.               *)
LEMMA OneRequest ==
  ASSUME ProxyInv, NEW c \in Client, NEW r \in RequestType,
         req' = [req EXCEPT ![c] = r], RequestInv(r, info[c], shaken[c]),
         UNCHANGED <<tag, has, server, info, shaken>>
  PROVE  ProxyInv'
<1>1. TypeOK'
  BY DEF ProxyInv, TypeOK
<1>2. ASSUME NEW d \in Client
      PROVE  RequestInv(req[d], info[d], shaken[d])'
  <2>1. PICK q : q = IF d = c THEN r ELSE req[d]
    OBVIOUS
  <2>2. req'[d] = q
    BY <2>1 DEF ProxyInv, TypeOK
  <2>3. PICK i, t : i = info[d] /\ t = shaken[d]
    OBVIOUS
  <2>4. RequestInv(q, i, t)
    BY <2>1, <2>3 DEF ProxyInv
  <2>5. info'[d] = i /\ shaken'[d] = t
    BY <2>3
  <2> QED
    BY <2>2, <2>4, <2>5 DEF RequestInv, CopyInv, SearchInv, ChoiceInv, Copying, SourceOf,
       First, Could, Answers
<1> QED BY <1>1, <1>2 DEF ProxyInv

-----------------------------------------------------------------------------
(* What each step makes of the request it changes.                         *)

LEMMA NoRequestInv ==
  ASSUME NEW i, NEW s
  PROVE  NoRequest \in RequestType /\ RequestInv(NoRequest, i, s)
<1>1. NoRequest \in RequestType
  BY UpstreamTypes DEF NoRequest, RequestType
<1>2. /\ NoRequest.at = "none" /\ NoRequest.kind = None /\ NoRequest.next = 1
      /\ NoRequest.could = {} /\ NoRequest.image = 0
  BY DEF NoRequest
<1> QED
  BY <1>1, <1>2, UpstreamTypes, NamesAssumption
  DEF RequestInv, CopyInv, SearchInv, ChoiceInv, Copying

LEMMA TheRequest ==
  ASSUME ProxyInv, NEW c \in Client
  PROVE  req[c] \in RequestType /\ RequestInv(req[c], info[c], shaken[c])
BY DEF ProxyInv, TypeOK

(* On to the upstreams, with nothing sent and the registry accounted for.  *)
LEMMA FallThroughInv ==
  ASSUME ProxyInv, NEW c \in Client, NEW f \in SUBSET {"registry"}, FallThrough(c, f),
         UNCHANGED <<tag, has, server, info, shaken>>,
         req[c].at \in {"lookup", "fields", "open"},
         "registry" \in req[c].could =>
           \/ "registry" \in f
           \/ req[c].kind = "narinfo" /\ req[c].image # 0 /\ ~HasFields(req[c].image)
  PROVE  ProxyInv'
<1>1. PICK r, i, s : r = req[c] /\ i = info[c] /\ s = shaken[c]
  OBVIOUS
<1>2. r \in RequestType /\ RequestInv(r, i, s)
  BY <1>1, TheRequest
<1>3. PICK q : q = [r EXCEPT !.at = "upstream", !.failed = @ \cup f]
  OBVIOUS
<1>4. q \in RequestType
  BY <1>2, <1>3 DEF RequestType
<1>5. /\ q.at = "upstream" /\ q.failed = r.failed \cup f /\ q.kind = r.kind
      /\ q.name = r.name /\ q.image = r.image /\ q.next = r.next /\ q.sent = r.sent
      /\ q.could = r.could
  BY <1>2, <1>3 DEF RequestType
<1>6. r.kind # None /\ CopyInv(q) /\ SearchInv(q)
  BY <1>1, <1>2, <1>5 DEF RequestInv, CopyInv, SearchInv, Copying
<1>7. ~s => ChoiceInv(q, i)
  BY <1>2, <1>5 DEF RequestInv, ChoiceInv, Copying
<1>8. RequestInv(q, i, s)
  BY <1>5, <1>6, <1>7 DEF RequestInv
<1>9. req' = [req EXCEPT ![c] = q]
  BY <1>1, <1>3 DEF FallThrough
<1> QED BY <1>1, <1>4, <1>8, <1>9, OneRequest

(* Found in the registry: what the tag names now.                          *)
LEMMA FetchPackageInv ==
  ASSUME ProxyInv, NEW c \in Client, FetchPackage(c)
  PROVE  ProxyInv'
<1>1. PICK r, i, s : r = req[c] /\ i = info[c] /\ s = shaken[c]
  OBVIOUS
<1>2. r \in RequestType /\ RequestInv(r, i, s)
  BY <1>1, TheRequest
<1>3. r.at = "lookup" /\ r.name = StoreHash /\ tag # 0 /\ tag \in Image /\ LookedUp(c) = tag
  BY <1>1 DEF FetchPackage, At, LookedUp, ProxyInv, TypeOK
<1>4. PICK q : q = [r EXCEPT !.image = tag, !.at = IF r.kind = "nar" THEN "open" ELSE "fields"]
  OBVIOUS
<1>5. q \in RequestType
  BY <1>2, <1>3, <1>4 DEF RequestType
<1>6. /\ q.at = (IF r.kind = "nar" THEN "open" ELSE "fields") /\ q.failed = r.failed
      /\ q.kind = r.kind /\ q.name = r.name /\ q.image = tag /\ q.next = r.next
      /\ q.sent = r.sent /\ q.could = r.could
  BY <1>2, <1>4 DEF RequestType
<1>7. r.kind \in {"narinfo", "nar"}
  BY <1>2, <1>3 DEF RequestInv, RequestType
<1>8. CopyInv(q) /\ SearchInv(q)
  BY <1>2, <1>3, <1>6 DEF RequestInv, CopyInv, SearchInv, Copying
<1>9. ~s => ChoiceInv(q, i)
  BY <1>2, <1>3, <1>6 DEF RequestInv, ChoiceInv, Copying
<1>10. RequestInv(q, i, s)
  BY <1>3, <1>6, <1>7, <1>8, <1>9, NamesAssumption DEF RequestInv
<1>11. req' = [req EXCEPT ![c] = q]
  BY <1>1, <1>3, <1>4 DEF FetchPackage
<1> QED BY <1>1, <1>5, <1>10, <1>11, OneRequest DEF FetchPackage

LEMMA NoPackageInv ==
  ASSUME ProxyInv, NEW c \in Client, NoPackage(c)
  PROVE  ProxyInv'
<1>1. req[c].at = "lookup" /\ "registry" \notin req[c].could
  BY TheRequest DEF NoPackage, At, LookedUp, RequestInv, SearchInv
<1> QED BY <1>1, FallThroughInv DEF NoPackage

LEMMA RegistryFailsInv ==
  ASSUME ProxyInv, NEW c \in Client, RegistryFails(c)
  PROVE  ProxyInv'
<1>1. req[c].at \in {"lookup", "fields", "open"}
  BY DEF RegistryFails, At
<1> QED BY <1>1, FallThroughInv DEF RegistryFails

(* The fields of the image, or on to the upstreams if it has none.         *)
LEMMA ServeNarinfoInv ==
  ASSUME ProxyInv, NEW c \in Client, ServeNarinfo(c)
  PROVE  ProxyInv'
<1>1. PICK r, i, s : r = req[c] /\ i = info[c] /\ s = shaken[c]
  OBVIOUS
<1>2. r \in RequestType /\ RequestInv(r, i, s)
  BY <1>1, TheRequest
<1>3. r.at = "fields" /\ r.kind = "narinfo" /\ r.image # 0 /\ r.image \in Image
  BY <1>1, <1>2 DEF ServeNarinfo, At, RequestInv, RequestType
<1>4. CASE ~HasFields(r.image)
  BY <1>1, <1>3, <1>4, FallThroughInv DEF ServeNarinfo
<1>5. CASE HasFields(r.image)
  <2>1. PICK b : b = [k \in 1..Size |-> r.image]
    OBVIOUS
  <2>2. /\ b \in Seq(Image \cup Upstream) /\ Len(b) = Size
        /\ \A k \in 1..Len(b) : b[k] = r.image
    BY <1>3, <2>1, SizeAssumption
  <2>3. PICK q : q = [r EXCEPT !.at = "returned", !.sized = TRUE, !.sent = b]
    OBVIOUS
  <2>4. q \in RequestType
    BY <1>2, <2>2, <2>3 DEF RequestType
  <2>5. /\ q.at = "returned" /\ q.failed = r.failed /\ q.kind = r.kind
        /\ q.name = r.name /\ q.image = r.image /\ q.next = r.next /\ q.sent = b
        /\ q.could = r.could
    BY <1>2, <2>3 DEF RequestType
  <2>6. CopyInv(q) /\ SearchInv(q)
    BY <1>2, <1>3, <2>2, <2>5, SizeAssumption
    DEF RequestInv, CopyInv, SearchInv, Copying, SourceOf
  <2>7. ~s => ChoiceInv(q, i)
    BY <1>2, <1>3, <1>5, <2>5 DEF RequestInv, ChoiceInv, Copying
  <2>8. RequestInv(q, i, s)
    BY <1>2, <1>3, <2>5, <2>6, <2>7 DEF RequestInv
  <2>9. req' = [req EXCEPT ![c] = q]
    BY <1>1, <1>5, <2>1, <2>3 DEF ServeNarinfo
  <2> QED BY <1>1, <2>4, <2>8, <2>9, OneRequest DEF ServeNarinfo
<1> QED BY <1>4, <1>5

LEMMA OpenBlobInv ==
  ASSUME ProxyInv, NEW c \in Client, OpenBlob(c)
  PROVE  ProxyInv'
<1>1. PICK r, i, s : r = req[c] /\ i = info[c] /\ s = shaken[c]
  OBVIOUS
<1>2. r \in RequestType /\ RequestInv(r, i, s)
  BY <1>1, TheRequest
<1>3. r.at = "open" /\ r.kind = "nar" /\ r.image # 0 /\ r.image \in Image /\ r.sent = <<>>
  BY <1>1, <1>2 DEF OpenBlob, At, RequestInv, RequestType, CopyInv
<1>4. PICK q : q = [r EXCEPT !.at = "stream", !.sized = TRUE]
  OBVIOUS
<1>5. q \in RequestType
  BY <1>2, <1>4 DEF RequestType
<1>6. /\ q.at = "stream" /\ q.failed = r.failed /\ q.kind = r.kind
      /\ q.name = r.name /\ q.image = r.image /\ q.next = r.next /\ q.sent = r.sent
      /\ q.could = r.could
  BY <1>2, <1>4 DEF RequestType
<1>7. CopyInv(q) /\ SearchInv(q)
  BY <1>2, <1>3, <1>6, SizeAssumption
  DEF RequestInv, CopyInv, SearchInv, Copying, SourceOf
<1>8. ~s => ChoiceInv(q, i)
  BY <1>2, <1>3, <1>6 DEF RequestInv, ChoiceInv, Copying
<1>9. RequestInv(q, i, s)
  BY <1>2, <1>3, <1>6, <1>7, <1>8 DEF RequestInv
<1>10. req' = [req EXCEPT ![c] = q]
  BY <1>1, <1>4 DEF OpenBlob
<1> QED BY <1>1, <1>5, <1>9, <1>10, OneRequest DEF OpenBlob

(* Whoever comes before this upstream has failed.                          *)
LEMMA UpstreamAnswersInv ==
  ASSUME ProxyInv, NEW c \in Client, UpstreamAnswers(c)
  PROVE  ProxyInv'
<1>1. PICK r, i, s : r = req[c] /\ i = info[c] /\ s = shaken[c]
  OBVIOUS
<1>2. r \in RequestType /\ RequestInv(r, i, s)
  BY <1>1, TheRequest
<1>3. /\ r.at = "upstream" /\ r.sent = <<>> /\ r.next \in 1..Len(Upstreams)
      /\ Answers(Upstreams[r.next], r.kind, r.name)
  BY <1>1, <1>2 DEF UpstreamAnswers, At, RequestInv, RequestType, CopyInv
<1>4. PICK z \in BOOLEAN :
        req' = [req EXCEPT ![c].at = "stream", ![c].image = 0, ![c].sized = z]
  BY DEF UpstreamAnswers
<1>5. PICK q : q = [r EXCEPT !.at = "stream", !.image = 0, !.sized = z]
  OBVIOUS
<1>6. q \in RequestType
  BY <1>2, <1>5 DEF RequestType
<1>7. /\ q.at = "stream" /\ q.failed = r.failed /\ q.kind = r.kind
      /\ q.name = r.name /\ q.image = 0 /\ q.next = r.next /\ q.sent = r.sent
      /\ q.could = r.could
  BY <1>2, <1>5 DEF RequestType
<1>8. CopyInv(q) /\ SearchInv(q)
  BY <1>2, <1>3, <1>7, SizeAssumption, UpstreamTypes
  DEF RequestInv, CopyInv, SearchInv, Copying, SourceOf
<1>9. ASSUME ~s
      PROVE  ChoiceInv(q, i)
  <2>1. ChoiceInv(r, i)
    BY <1>2, <1>9 DEF RequestInv
  <2>2. "registry" \in r.could => "registry" \in r.failed
    <3> SUFFICES ASSUME "registry" \in r.could, "registry" \notin r.failed PROVE FALSE
      OBVIOUS
    <3>1. r.kind = "narinfo" /\ r.image # 0 /\ ~HasFields(r.image)
      BY <1>2, <1>3 DEF RequestInv, SearchInv
    <3>2. r.image = tag /\ r.could = Could(r.kind, r.name)
      BY <2>1, <3>1, NamesAssumption DEF ChoiceInv
    <3>3. HasFields(tag)
      BY <3>1, <3>2, NamesAssumption DEF Could
    <3> QED BY <3>1, <3>2, <3>3
  <2> QED BY <1>3, <1>7, <2>1, <2>2 DEF ChoiceInv, Copying
<1>10. RequestInv(q, i, s)
  BY <1>2, <1>3, <1>7, <1>8, <1>9 DEF RequestInv
<1>11. req' = [req EXCEPT ![c] = q]
  BY <1>1, <1>4, <1>5
<1> QED BY <1>1, <1>6, <1>10, <1>11, OneRequest DEF UpstreamAnswers

LEMMA UpstreamDoesNotInv ==
  ASSUME ProxyInv, NEW c \in Client, UpstreamDoesNot(c)
  PROVE  ProxyInv'
<1>1. PICK r, i, s : r = req[c] /\ i = info[c] /\ s = shaken[c]
  OBVIOUS
<1>2. r \in RequestType /\ RequestInv(r, i, s)
  BY <1>1, TheRequest
<1>3. r.at = "upstream" /\ r.next \in 1..Len(Upstreams)
  BY <1>1, <1>2 DEF UpstreamDoesNot, At, RequestType
<1>4. PICK q : q = [r EXCEPT !.next = r.next + 1, !.failed = @ \cup {Upstreams[r.next]}]
  OBVIOUS
<1>5. q \in RequestType
  <2>1. r.next + 1 \in 1..(Len(Upstreams) + 1)
    BY <1>3, UpstreamTypes
  <2>2. r.failed \cup {Upstreams[r.next]} \in SUBSET ({"registry"} \cup Upstream)
    BY <1>2, <1>3, UpstreamTypes DEF RequestType
  <2> QED BY <1>2, <1>4, <2>1, <2>2 DEF RequestType
<1>6. /\ q.at = r.at /\ q.failed = r.failed \cup {Upstreams[r.next]} /\ q.kind = r.kind
      /\ q.name = r.name /\ q.image = r.image /\ q.next = r.next + 1 /\ q.sent = r.sent
      /\ q.could = r.could
  BY <1>2, <1>4 DEF RequestType
<1>7. CopyInv(q) /\ SearchInv(q)
  BY <1>2, <1>3, <1>6, UpstreamTypes DEF RequestInv, CopyInv, SearchInv, Copying
<1>8. ~s => ChoiceInv(q, i)
  BY <1>2, <1>3, <1>6 DEF RequestInv, ChoiceInv, Copying
<1>9. RequestInv(q, i, s)
  BY <1>2, <1>3, <1>6, <1>7, <1>8 DEF RequestInv
<1>10. req' = [req EXCEPT ![c] = q]
  BY <1>1, <1>4 DEF UpstreamDoesNot, AfterUpstream
<1> QED BY <1>1, <1>5, <1>9, <1>10, OneRequest DEF UpstreamDoesNot

(* Ends: not found, all copied, or broken off.                             *)
LEMMA EndInv ==
  ASSUME ProxyInv, NEW c \in Client, NEW s2 \in {"notfound", "returned", "aborted"},
         Goto(c, s2), UNCHANGED <<tag, has, server, info, shaken>>,
         s2 = "notfound" => req[c].at = "upstream" /\ req[c].next > Len(Upstreams),
         s2 # "notfound" => req[c].at = "stream",
         s2 = "returned" => Len(req[c].sent) = Size
  PROVE  ProxyInv'
<1>1. PICK r, i, s : r = req[c] /\ i = info[c] /\ s = shaken[c]
  OBVIOUS
<1>2. r \in RequestType /\ RequestInv(r, i, s)
  BY <1>1, TheRequest
<1>3. PICK q : q = [r EXCEPT !.at = s2]
  OBVIOUS
<1>4. q \in RequestType
  BY <1>2, <1>3 DEF RequestType
<1>5. /\ q.at = s2 /\ q.failed = r.failed /\ q.kind = r.kind
      /\ q.name = r.name /\ q.image = r.image /\ q.next = r.next /\ q.sent = r.sent
      /\ q.could = r.could
  BY <1>2, <1>3 DEF RequestType
<1>6. CopyInv(q) /\ SearchInv(q)
  BY <1>1, <1>2, <1>5 DEF RequestInv, CopyInv, SearchInv, Copying, SourceOf
<1>7. ~s => ChoiceInv(q, i)
  BY <1>1, <1>2, <1>5 DEF RequestInv, ChoiceInv, Copying
<1>8. RequestInv(q, i, s)
  BY <1>1, <1>2, <1>5, <1>6, <1>7 DEF RequestInv
<1>9. req' = [req EXCEPT ![c] = q]
  BY <1>1, <1>3 DEF Goto
<1> QED BY <1>1, <1>4, <1>8, <1>9, OneRequest

(* One more part of the same source.                                       *)
LEMMA CopyPartInv ==
  ASSUME ProxyInv, NEW c \in Client, CopyPart(c)
  PROVE  ProxyInv'
<1>1. PICK r, i, s : r = req[c] /\ i = info[c] /\ s = shaken[c]
  OBVIOUS
<1>2. r \in RequestType /\ RequestInv(r, i, s)
  BY <1>1, TheRequest
<1>3. r.at = "stream" /\ Len(r.sent) < Size /\ SourceOf(r) \in Image \cup Upstream
  BY <1>1, <1>2 DEF CopyPart, At, RequestInv, CopyInv, Copying
<1>4. PICK b : b = Append(r.sent, SourceOf(r))
  OBVIOUS
<1>5. /\ b \in Seq(Image \cup Upstream) /\ Len(b) <= Size
      /\ \A k \in 1..Len(b) : b[k] = SourceOf(r)
  <2>1. r.sent \in Seq(Image \cup Upstream) /\ \A k \in 1..Len(r.sent) : r.sent[k] = SourceOf(r)
    BY <1>2, <1>3 DEF RequestInv, CopyInv, Copying, RequestType
  <2>2. PICK t, v : t = r.sent /\ v = SourceOf(r)
    OBVIOUS
  <2> QED BY <1>3, <1>4, <2>1, <2>2, SizeAssumption
<1>6. PICK q : q = [r EXCEPT !.sent = b]
  OBVIOUS
<1>7. q \in RequestType
  BY <1>2, <1>5, <1>6 DEF RequestType
<1>8. /\ q.at = "stream" /\ q.failed = r.failed /\ q.kind = r.kind
      /\ q.name = r.name /\ q.image = r.image /\ q.next = r.next /\ q.sent = b
      /\ q.could = r.could
  BY <1>2, <1>3, <1>6 DEF RequestType
<1>9. CopyInv(q) /\ SearchInv(q)
  BY <1>2, <1>3, <1>5, <1>8 DEF RequestInv, CopyInv, SearchInv, Copying, SourceOf
<1>10. ~s => ChoiceInv(q, i)
  BY <1>2, <1>3, <1>8 DEF RequestInv, ChoiceInv, Copying
<1>11. RequestInv(q, i, s)
  BY <1>2, <1>3, <1>8, <1>9, <1>10 DEF RequestInv
<1>12. req' = [req EXCEPT ![c] = q]
  BY <1>1, <1>4, <1>6 DEF CopyPart, Source, SourceOf
<1> QED BY <1>1, <1>7, <1>11, <1>12, OneRequest DEF CopyPart

LEMMA ServeInv ==
  ASSUME ProxyInv, NEW c \in Client, Serve(c)
  PROVE  ProxyInv'
<1>1. CASE AnswerHead(c)
  <2>1. PICK i, s : i = info[c] /\ s = shaken[c]
    OBVIOUS
  <2>2. NoRequest \in RequestType /\ RequestInv(NoRequest, i, s)
    BY NoRequestInv
  <2> QED BY <1>1, <2>1, <2>2, OneRequest DEF AnswerHead
<1>2. CASE NotFound(c)
  BY <1>2, EndInv DEF NotFound, At
<1>3. CASE CopyEnds(c)
  BY <1>3, EndInv DEF CopyEnds, At
<1>4. CASE CopyBreaks(c)
  BY <1>4, EndInv DEF CopyBreaks, At, AfterBreak
<1> QED
  BY <1>1, <1>2, <1>3, <1>4, FetchPackageInv, NoPackageInv, ServeNarinfoInv, OpenBlobInv,
     RegistryFailsInv, UpstreamAnswersInv, UpstreamDoesNotInv, CopyPartInv DEF Serve

-----------------------------------------------------------------------------
(* A client asks.                                                          *)

LEMMA NewRequestInv ==
  ASSUME ProxyInv, NEW c \in Client, NEW i \in AnySource, NEW s \in BOOLEAN,
         NEW kind \in {"narinfo", "nar"}, NEW name \in {StoreHash} \cup Upstream,
         Request(c, kind, name), kind = "narinfo" => name = StoreHash,
         kind = "nar" /\ ~s => name = NarName(i) /\ First(i),
         info' = [info EXCEPT ![c] = i], shaken' = [shaken EXCEPT ![c] = s],
         UNCHANGED <<tag, has, server>>
  PROVE  ProxyInv'
<1>1. PICK q : q = [NoRequest EXCEPT !.kind = kind, !.name = name,
                      !.at = IF server = "up" THEN "lookup" ELSE "refused",
                      !.could = Could(kind, name)]
  OBVIOUS
<1>2. Could(kind, name) \in SUBSET ({"registry"} \cup Upstream)
  BY DEF Could
<1>3. /\ q.at \in {"lookup", "refused"} /\ q.failed = {} /\ q.kind = kind
      /\ q.name = name /\ q.image = 0 /\ q.next = 1 /\ q.sent = <<>>
      /\ q.could = Could(kind, name)
  BY <1>1 DEF NoRequest
<1>4. q \in RequestType
  <2>1. 1 \in 1..(Len(Upstreams) + 1)
    BY UpstreamTypes
  <2>2. NoRequest \in RequestType
    BY NoRequestInv
  <2> QED BY <1>1, <1>2, <2>2 DEF RequestType
<1>5. SearchInv(q)
  <2>1. \A k \in DOMAIN Upstreams : ~(k < q.next)
    BY <1>3, UpstreamTypes
  <2>2. "registry" \in Could(kind, name) => name = StoreHash /\ tag # 0
    BY NamesAssumption DEF Could
  <2> QED BY <1>3, <2>1, <2>2 DEF SearchInv
<1>6. CopyInv(q)
  BY <1>3 DEF CopyInv, Copying
<1>7. ~s => ChoiceInv(q, i)
  BY <1>3 DEF ChoiceInv, Copying
<1>8. RequestInv(q, i, s)
  BY <1>3, <1>5, <1>6, <1>7, NamesAssumption DEF RequestInv
<1>9. req' = [req EXCEPT ![c] = q]
  BY <1>1 DEF Request
<1>10. TypeOK'
  BY <1>4, <1>9 DEF ProxyInv, TypeOK
<1>11. ASSUME NEW d \in Client
       PROVE  RequestInv(req[d], info[d], shaken[d])'
  <2>1. PICK r, j, t : /\ r = IF d = c THEN q ELSE req[d]
                       /\ j = IF d = c THEN i ELSE info[d]
                       /\ t = IF d = c THEN s ELSE shaken[d]
    OBVIOUS
  <2>2. req'[d] = r /\ info'[d] = j /\ shaken'[d] = t
    BY <1>9, <2>1 DEF ProxyInv, TypeOK
  <2>3. RequestInv(r, j, t)
    BY <1>8, <2>1 DEF ProxyInv
  <2> QED
    BY <2>2, <2>3 DEF RequestInv, CopyInv, SearchInv, ChoiceInv, Copying, SourceOf,
       First, Could, Answers
<1> QED BY <1>10, <1>11 DEF ProxyInv

LEMMA AskNarinfoInv ==
  ASSUME ProxyInv, NEW c \in Client, AskNarinfo(c)
  PROVE  ProxyInv'
<1>1. None \in AnySource
  BY DEF AnySource
<1> QED BY <1>1, NewRequestInv DEF AskNarinfo

(* A narinfo no source was let down for comes from the first that has one. *)
LEMMA NarinfoFirst ==
  ASSUME TypeOK, NEW r \in RequestType, NEW i, RequestInv(r, i, FALSE),
         r.kind = "narinfo", r.at = "returned", r.could \cap r.failed = {}
  PROVE  First(r.sent[1])
<1>1. ChoiceInv(r, i) /\ CopyInv(r) /\ SearchInv(r)
  BY DEF RequestInv
<1>2. r.sent[1] = SourceOf(r) /\ SourceOf(r) \in Image \cup Upstream
  BY <1>1, SizeAssumption DEF CopyInv, Copying
<1>3. r.name = StoreHash /\ r.could = Could("narinfo", StoreHash)
  BY <1>1, NamesAssumption DEF ChoiceInv
<1>4. CASE r.image # 0
  <2>1. r.image = tag /\ HasFields(tag) /\ r.image \in Image
    BY <1>1, <1>4 DEF ChoiceInv, Copying, RequestType
  <2> QED BY <1>2, <1>4, <2>1 DEF First, SourceOf
<1>5. CASE r.image = 0
  <2>1. PICK u : u = Upstreams[r.next]
    OBVIOUS
  <2>2. r.sent[1] = u
    BY <1>2, <1>5, <2>1 DEF SourceOf
  <2>3. u \in has /\ u \in Upstream
    BY <1>1, <1>5, <2>1 DEF ChoiceInv, Copying, Answers, TypeOK
  <2>4. \A j \in DOMAIN Upstreams : j < r.next => Upstreams[j] \notin has
    BY <1>1, <1>3, UpstreamTypes DEF SearchInv, Could, Answers
  <2>5. "registry" \notin r.could
    BY <1>1, <1>5 DEF ChoiceInv, Copying
  <2>6. tag = 0 \/ ~HasFields(tag)
    BY <1>3, <2>5 DEF Could
  <2>7. r.next \in DOMAIN Upstreams
    BY <1>1, <1>5, UpstreamTypes DEF CopyInv, Copying, RequestType
  <2> QED BY <2>1, <2>2, <2>3, <2>4, <2>6, <2>7 DEF First
<1> QED BY <1>2, <1>4, <1>5 DEF RequestType

LEMMA AskNarInv ==
  ASSUME ProxyInv, NEW c \in Client, AskNar(c)
  PROVE  ProxyInv'
<1>1. PICK r, i, s, j : /\ r = req[c] /\ i = info[c] /\ j = r.sent[1]
                        /\ s = (shaken[c] \/ LetDown(c))
  OBVIOUS
<1>2. r \in RequestType /\ RequestInv(r, i, shaken[c])
  BY <1>1, TheRequest
<1>3. r.kind = "narinfo" /\ r.at = "returned"
  BY <1>1 DEF AskNar, LooksComplete
<1>4. j \in Image \cup Upstream
  BY <1>1, <1>2, <1>3, SizeAssumption DEF RequestInv, CopyInv, Copying
<1>5. ASSUME ~s
      PROVE  First(j)
  <2>1. ~shaken[c] /\ r.could \cap r.failed = {}
    BY <1>1, <1>5 DEF LetDown
  <2>2. RequestInv(r, i, FALSE)
    BY <1>2, <2>1 DEF RequestInv
  <2> QED BY <1>1, <1>2, <1>3, <2>1, <2>2, NarinfoFirst DEF ProxyInv
<1>6. PICK n : n = NarName(j)
  OBVIOUS
<1>7. n \in {StoreHash} \cup Upstream
  BY <1>4, <1>6, NarNameTypes
<1>8. Request(c, "nar", n) /\ info' = [info EXCEPT ![c] = j] /\ UNCHANGED <<tag, has, server>>
  BY <1>1, <1>6 DEF AskNar
<1>9. s \in BOOLEAN /\ shaken' = [shaken EXCEPT ![c] = s]
  BY <1>1 DEF AskNar, ProxyInv, TypeOK, LetDown
<1>10. j \in AnySource
  BY <1>4 DEF AnySource
<1> QED BY <1>5, <1>6, <1>7, <1>8, <1>9, <1>10, NewRequestInv

-----------------------------------------------------------------------------
(* A push replaces the image: every client is shaken.                      *)
LEMMA PublishInv ==
  ASSUME ProxyInv, Publish
  PROVE  ProxyInv'
<1>1. tag' \in Image /\ tag' # 0
  BY ImageAssumption DEF Publish
<1>2. TypeOK'
  BY <1>1 DEF Publish, ProxyInv, TypeOK
<1>3. ASSUME NEW c \in Client
      PROVE  RequestInv(req[c], info[c], shaken[c])'
  <2>1. PICK r, i : r = req[c] /\ i = info[c]
    OBVIOUS
  <2>2. RequestInv(r, i, shaken[c])
    BY <2>1, TheRequest
  <2>3. req'[c] = r /\ info'[c] = i /\ shaken'[c] = TRUE
    BY <2>1 DEF Publish
  <2> QED
    BY <1>1, <2>2, <2>3 DEF RequestInv, CopyInv, SearchInv, Copying, SourceOf
<1> QED BY <1>2, <1>3 DEF ProxyInv

(* What is under way when the process ends is broken off.                  *)
LEMMA ExitInv ==
  ASSUME ProxyInv, Exit
  PROVE  ProxyInv'
<1>1. ASSUME NEW c \in Client
      PROVE  req'[c] \in RequestType /\ RequestInv(req[c], info[c], shaken[c])'
  <2>1. PICK r, i, s : r = req[c] /\ i = info[c] /\ s = shaken[c]
    OBVIOUS
  <2>2. r \in RequestType /\ RequestInv(r, i, s)
    BY <2>1, TheRequest
  <2>3. PICK q : q = IF Ended(c) THEN r ELSE [r EXCEPT !.at = "aborted"]
    OBVIOUS
  <2>4. q \in RequestType
    BY <2>2, <2>3 DEF RequestType
  <2>5. RequestInv(q, i, s)
    <3>1. CASE Ended(c)
      BY <2>2, <2>3, <3>1
    <3>2. CASE ~Ended(c)
      <4>1. /\ q.at = "aborted" /\ q.failed = r.failed /\ q.kind = r.kind
            /\ q.name = r.name /\ q.image = r.image /\ q.next = r.next
            /\ q.sent = r.sent /\ q.could = r.could
        BY <2>2, <2>3, <3>2 DEF RequestType
      <4>2. r.at # "none"
        BY <2>1, <3>2 DEF Ended
      <4> QED
        BY <2>2, <4>1, <4>2 DEF RequestInv, CopyInv, SearchInv, ChoiceInv, Copying
    <3> QED BY <3>1, <3>2
  <2>6. req'[c] = q
    BY <2>1, <2>3 DEF Exit
  <2>7. info'[c] = i /\ shaken'[c] = s
    BY <2>1 DEF Exit
  <2>8. UNCHANGED <<tag, has>>
    BY DEF Exit
  <2>9. RequestInv(req[c], info[c], shaken[c])'
    BY <2>5, <2>6, <2>7, <2>8 DEF RequestInv, CopyInv, SearchInv, ChoiceInv,
       Copying, SourceOf, First, Could, Answers
  <2> QED BY <2>4, <2>6, <2>9
<1>2. TypeOK'
  BY <1>1 DEF Exit, ProxyInv, TypeOK
<1> QED BY <1>1, <1>2 DEF ProxyInv

LEMMA UnchangedInv ==
  ASSUME ProxyInv, UNCHANGED <<tag, has, req, info, shaken>>,
         server' \in {"off", "up", "stopping", "exited"}
  PROVE  ProxyInv'
<1>1. TypeOK'
  BY DEF ProxyInv, TypeOK
<1>2. ASSUME NEW c \in Client
      PROVE  RequestInv(req[c], info[c], shaken[c])'
  <2>1. PICK r, i, s : r = req[c] /\ i = info[c] /\ s = shaken[c]
    OBVIOUS
  <2>2. RequestInv(r, i, s)
    BY <2>1, TheRequest
  <2>3. req'[c] = r /\ info'[c] = i /\ shaken'[c] = s
    BY <2>1
  <2> QED
    BY <2>2, <2>3 DEF RequestInv, CopyInv, SearchInv, ChoiceInv, Copying, SourceOf,
       First, Could, Answers
<1> QED BY <1>1, <1>2 DEF ProxyInv

LEMMA InitInv == Init => ProxyInv
<1> SUFFICES ASSUME Init PROVE ProxyInv
  OBVIOUS
<1>1. TypeOK
  BY NoRequestInv DEF Init, TypeOK, AnySource
<1>2. ASSUME NEW c \in Client
      PROVE  RequestInv(req[c], info[c], shaken[c])
  <2>1. PICK i, s : i = info[c] /\ s = shaken[c]
    OBVIOUS
  <2>2. RequestInv(NoRequest, i, s)
    BY NoRequestInv
  <2> QED BY <2>1, <2>2 DEF Init
<1> QED BY <1>1, <1>2 DEF ProxyInv

LEMMA StepInv == ProxyInv /\ [Next]_vars => ProxyInv'
<1> SUFFICES ASSUME ProxyInv, [Next]_vars PROVE ProxyInv'
  OBVIOUS
<1>1. CASE Start
  BY <1>1, UnchangedInv DEF Start
<1>2. CASE Stop
  BY <1>2, UnchangedInv DEF Stop
<1>3. CASE UNCHANGED vars
  BY <1>3, UnchangedInv DEF vars, ProxyInv, TypeOK
<1>4. CASE \E c \in Client : AskNarinfo(c) \/ AskNar(c) \/ Serve(c)
  BY <1>4, AskNarinfoInv, AskNarInv, ServeInv
<1> QED BY <1>1, <1>2, <1>3, <1>4, ExitInv, PublishInv DEF Next

LEMMA Invariance == Spec => []ProxyInv
BY InitInv, StepInv, PTL DEF Spec

-----------------------------------------------------------------------------

(* Every variable keeps its type.                                          *)
THEOREM ProxyTypes == Spec => []TypeOK
<1>1. ProxyInv => TypeOK
  BY DEF ProxyInv
<1> QED BY Invariance, <1>1, PTL

(* What looks like a complete body to a client has all its parts, of one   *)
(* image or upstream, wherever a copy, a source or the process breaks off. *)
THEOREM CompleteAlwaysWhole == Spec => []CompleteIsWhole
<1>1. ProxyInv => CompleteIsWhole
  <2> SUFFICES ASSUME ProxyInv, NEW c \in Client, LooksComplete(c)
               PROVE  \E s \in Image \cup Upstream : req[c].sent = [i \in 1..Size |-> s]
    BY DEF CompleteIsWhole
  <2>1. PICK r : r = req[c]
    OBVIOUS
  <2>2. r \in RequestType /\ CopyInv(r) /\ r.at = "returned"
    BY <2>1, TheRequest DEF RequestInv, LooksComplete
  <2>3. PICK v : v = SourceOf(r)
    OBVIOUS
  <2>4. /\ v \in Image \cup Upstream /\ r.sent \in Seq(Image \cup Upstream)
        /\ Len(r.sent) = Size /\ \A i \in 1..Size : r.sent[i] = v
    BY <2>2, <2>3 DEF CopyInv, Copying, RequestType
  <2>5. r.sent = [i \in 1..Size |-> v]
    BY <2>4
  <2> QED BY <2>1, <2>4, <2>5
<1> QED BY Invariance, <1>1, PTL

(* A client is told that a path is not there only when every source that   *)
(* had it let it down, or an image without narinfo fields was in the way.  *)
THEOREM NotFoundAlwaysExplained == Spec => []NotFoundExplained
<1>1. ProxyInv => NotFoundExplained
  <2> SUFFICES ASSUME ProxyInv, NEW c \in Client, req[c].at = "notfound", NEW s \in req[c].could
               PROVE  \/ s \in req[c].failed
                      \/ s = "registry" /\ req[c].image # 0 /\ ~HasFields(req[c].image)
    BY DEF NotFoundExplained
  <2>1. PICK r : r = req[c]
    OBVIOUS
  <2>2. r \in RequestType /\ SearchInv(r)
    BY <2>1, TheRequest DEF RequestInv
  <2>3. CASE s = "registry"
    BY <2>1, <2>2, <2>3 DEF SearchInv
  <2>4. CASE s # "registry"
    <3>1. s \in Upstream
      BY <2>1, <2>2, <2>4 DEF RequestType
    <3>2. PICK k \in DOMAIN Upstreams : s = Upstreams[k]
      BY <3>1 DEF Upstream
    <3>3. k < r.next
      BY <2>1, <2>2, <3>2, UpstreamTypes DEF SearchInv, RequestType
    <3> QED BY <2>1, <2>2, <3>2, <3>3 DEF SearchInv
  <2> QED BY <2>3, <2>4
<1> QED BY Invariance, <1>1, PTL

(* The NAR a client gets is the one its narinfo describes, unless a push   *)
(* came between, a source failed or the image has no narinfo fields.       *)
THEOREM MismatchAlwaysExplained == Spec => []MismatchExplained
<1>1. ProxyInv => MismatchExplained
  <2> SUFFICES ASSUME ProxyInv, NEW c \in Client, req[c].kind = "nar", LooksComplete(c),
                      ~shaken[c], ~LetDown(c),
                      ~(req[c].image # 0 /\ ~HasFields(req[c].image))
               PROVE  req[c].sent[1] = info[c]
    BY DEF MismatchExplained
  <2>1. PICK r, i : r = req[c] /\ i = info[c]
    OBVIOUS
  <2>2. /\ r \in RequestType /\ CopyInv(r) /\ SearchInv(r) /\ ChoiceInv(r, i)
        /\ r.at = "returned" /\ r.kind = "nar"
    BY <2>1, TheRequest DEF RequestInv, LooksComplete
  <2>3. r.sent[1] = SourceOf(r)
    BY <2>2, SizeAssumption DEF CopyInv, Copying
  <2>4. r.name = NarName(i) /\ First(i) /\ r.could = Could("nar", r.name)
    BY <2>2, NamesAssumption DEF ChoiceInv
  <2>5. r.could \cap r.failed = {}
    BY <2>1 DEF LetDown
  <2>6. CASE r.image # 0
    <3>1. r.image = tag /\ HasFields(tag)
      BY <2>1, <2>2, <2>6 DEF ChoiceInv
    <3> QED BY <2>1, <2>3, <2>4, <2>6, <3>1 DEF First, SourceOf
  <2>7. CASE r.image = 0
    <3>1. PICK u, n : u = Upstreams[r.next] /\ n = r.next
      OBVIOUS
    <3>2. n \in DOMAIN Upstreams /\ n \in Nat
      BY <2>2, <2>7, <3>1, UpstreamTypes DEF CopyInv, Copying, RequestType
    <3>3. u \in has /\ r.name = NarName(u) /\ u \in Upstream
      BY <2>2, <2>7, <3>1, <3>2, NamesAssumption, UpstreamTypes DEF ChoiceInv, Copying, Answers
    <3>4. "registry" \notin r.could
      BY <2>2, <2>5, <2>7 DEF ChoiceInv, Copying
    <3>5. ~(i \in Image /\ i = tag)
      <4> SUFFICES ASSUME i \in Image, i = tag PROVE FALSE
        OBVIOUS
      <4>1. r.name = StoreHash
        BY <2>4, NamesAssumption DEF NarName
      <4>2. tag # 0
        BY ImageAssumption
      <4> QED BY <2>4, <3>4, <4>1, <4>2, NamesAssumption DEF Could
    <3>6. i \in Upstream /\ i \in has
      BY <2>4, <3>5 DEF First
    <3>7. PICK k \in DOMAIN Upstreams :
            Upstreams[k] = i /\ \A j \in DOMAIN Upstreams : j < k => Upstreams[j] \notin has
      BY <2>4, <3>5 DEF First
    <3>8. i \in r.could
      BY <2>4, <3>6 DEF Could, Answers
    <3>9. ~(k < n)
      BY <2>2, <2>5, <3>1, <3>7, <3>8 DEF SearchInv
    <3>10. ~(n < k)
      BY <3>1, <3>2, <3>3, <3>7
    <3>11. n = k
      BY <3>2, <3>7, <3>9, <3>10, UpstreamTypes
    <3> QED BY <2>1, <2>3, <2>7, <3>1, <3>7, <3>11 DEF SourceOf
  <2> QED BY <2>6, <2>7
<1> QED BY Invariance, <1>1, PTL

=============================================================================
