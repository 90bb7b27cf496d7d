----------------------------- MODULE LocalProxy -----------------------------
(***************************************************************************)
(* The proxy on the user's machine (pkg/proxy), that `aeroflare proxy' and *)
(* `aeroflare run' start: it answers for one store path from the image the *)
(* registry has under the path's hash, and from upstream caches for what   *)
(* the registry does not give it.                                          *)
(*                                                                         *)
(* A client asks for the narinfo and then for the NAR the narinfo names.   *)
(* The proxy keeps nothing between requests: each reads the manifest anew, *)
(* while a push may replace the image.  Requests share no state, so one    *)
(* action is one step of one request.  A body is the sequence of its parts,*)
(* each marked with where it came from: an image, by its number, or an     *)
(* upstream.                                                               *)
(***************************************************************************)
EXTENDS Integers, Sequences, FiniteSets

CONSTANTS
  Client,
  None,        \* no request, no source
  Upstreams,   \* UpstreamCaches, in order
  ByHash,      \* those that name NARs by the store hash, as aeroflare does
  Image,       \* 1..n: the images pushed for the path, one after the other
  FieldsIn,    \* where each image has the narinfo fields
  Size,        \* parts of a body
  MayFail      \* whether requests to registry and upstreams may fail

Upstream == {Upstreams[i] : i \in DOMAIN Upstreams}
Places == {"manifest", "config", "nowhere"}

ASSUME UpstreamsAssumption == Upstreams \in Seq(Upstream) /\ ByHash \subseteq Upstream
ASSUME ImageAssumption == Image \subseteq Nat \ {0} /\ FieldsIn \in [Image -> Places]
ASSUME SizeAssumption == Size \in Nat \ {0} /\ MayFail \in BOOLEAN

VARIABLES
  tag,      \* registry: the image the store hash names, 0 if none
  has,      \* the upstreams that have the path
  server,   \* the process: "off", "up", "stopping", "exited"
  req,      \* the request of each client
  info,     \* where the narinfo a client goes by came from
  shaken    \* history: since the client asked for a narinfo, the tag moved or
            \* a source that could answer failed

vars == <<tag, has, server, req, info, shaken>>

-----------------------------------------------------------------------------

StoreHash == "hash"

(* The sources and names of a request are told apart.                      *)
ASSUME NamesAssumption ==
  /\ \A u \in Upstream : u \notin Image /\ u \notin {"registry", StoreHash}
  /\ None \notin Upstream \cup Image
  /\ None \notin {"narinfo", "nar", StoreHash}

(* name: the NAR asked for; image: what fetchPackage found; next: the      *)
(* upstream to try; sized: the response has a Content-Length.              *)
(* History: could, the sources that could answer when the request came,    *)
(* and failed, those that let it down.                                     *)
NoRequest == [kind |-> None, at |-> "none", name |-> None, image |-> 0, next |-> 1,
              sent |-> <<>>, sized |-> FALSE, could |-> {}, failed |-> {}]

(* URL: nar/<hash>.nar.<ext>, or what the upstream calls it.               *)
NarName(src) == IF src \in Upstream \ ByHash THEN src ELSE StoreHash

Answers(u, kind, name) ==
  u \in has /\ (kind = "narinfo" \/ name = NarName(u))

(* narinfoLabels, configLabels: the annotations, or the config's labels.   *)
InManifest(i) == FieldsIn[i] = "manifest"
InConfig(i) == FieldsIn[i] = "config"
HasFields(i) == InManifest(i) \/ InConfig(i)

Could(kind, name) ==
  {u \in Upstream : Answers(u, kind, name)} \cup
  (IF /\ tag # 0 /\ name = StoreHash
      /\ kind = "narinfo" => HasFields(tag)
   THEN {"registry"} ELSE {})

Ended(c) == req[c].at \in {"none", "returned", "aborted", "notfound", "refused"}

(* HTTP tells a client how long the body is, or marks its end.             *)
LooksComplete(c) ==
  req[c].at = "returned" /\ (req[c].sized => Len(req[c].sent) = Size)

LetDown(c) == req[c].could \cap req[c].failed # {}

At(c, s) == server # "exited" /\ req[c].at = s

Goto(c, s) == req' = [req EXCEPT ![c].at = s]

(* On to the upstreams; with src, because that one has failed.             *)
FallThrough(c, src) ==
  req' = [req EXCEPT ![c].at = "upstream", ![c].failed = @ \cup src]

(* FAULT: a failing upstream ends the search.                              *)
AfterUpstreamGiveUp(c) == Len(Upstreams) + 1

(* FAULT: the upstream after one that fails is passed over.                *)
AfterUpstreamSkips(c) == req[c].next + 2

(* continue // Try next upstream *)
AfterUpstream(c) == req[c].next + 1

(* FAULT: a copy that breaks off returns from the handler.                 *)
AfterBreakReturn(c) == "returned"

(* panic(http.ErrAbortHandler) *)
AfterBreak(c) == "aborted"

(* FAULT: the tag of a NAR keeps the extension of its name.                *)
LookedUpWithExtension(c) == IF req[c].kind = "narinfo" THEN tag ELSE 0

(* puller.Get(tag): what the store hash names now.                         *)
LookedUp(c) == IF req[c].name = StoreHash THEN tag ELSE 0

-----------------------------------------------------------------------------

(* StartProxy, unless an upstream's URL is not one or the port is taken:   *)
(* the socket listens before it returns.                                   *)
Start ==
  /\ server = "off"
  /\ server' \in {"up", "exited"}
  /\ UNCHANGED <<tag, has, req, info, shaken>>

Request(c, kind, name) ==
  /\ Ended(c) /\ server # "off"
  /\ req' = [req EXCEPT ![c] =
       [NoRequest EXCEPT !.kind = kind, !.name = name,
          !.at = IF server = "up" THEN "lookup" ELSE "refused",
          !.could = Could(kind, name)]]

AskNarinfo(c) ==
  /\ Request(c, "narinfo", StoreHash)
  /\ info' = [info EXCEPT ![c] = None]
  /\ shaken' = [shaken EXCEPT ![c] = FALSE]
  /\ UNCHANGED <<tag, has, server>>

AskNar(c) ==
  /\ req[c].kind = "narinfo" /\ LooksComplete(c)
  /\ Request(c, "nar", NarName(req[c].sent[1]))
  /\ info' = [info EXCEPT ![c] = req[c].sent[1]]
  /\ shaken' = [shaken EXCEPT ![c] = @ \/ LetDown(c)]
  /\ UNCHANGED <<tag, has, server>>

(* A HEAD is answered from the manifest, or by an upstream, without body.  *)
AnswerHead(c) ==
  /\ At(c, "lookup") /\ req[c].kind = "nar" /\ LookedUp(c) # 0
  /\ req' = [req EXCEPT ![c] = NoRequest]
  /\ UNCHANGED <<tag, has, server, info, shaken>>

(* fetchPackage; the fields may be in the manifest.                        *)
FetchPackage(c) ==
  /\ At(c, "lookup") /\ LookedUp(c) # 0
  /\ req' = [req EXCEPT ![c].image = LookedUp(c),
                        ![c].at = IF req[c].kind = "nar" THEN "open" ELSE "fields"]
  /\ UNCHANGED <<tag, has, server, info, shaken>>

NoPackage(c) ==
  /\ At(c, "lookup") /\ LookedUp(c) = 0
  /\ FallThrough(c, {})
  /\ UNCHANGED <<tag, has, server, info, shaken>>

(* narinfoLabels: the config costs a second request.                       *)
ServeNarinfo(c) ==
  /\ At(c, "fields")
  /\ IF ~HasFields(req[c].image) THEN FallThrough(c, {})
     ELSE req' = [req EXCEPT ![c].at = "returned", ![c].sized = TRUE,
                             ![c].sent = [i \in 1..Size |-> req[c].image]]
  /\ UNCHANGED <<tag, has, server, info, shaken>>

(* The blob is opened before any header is written.                        *)
OpenBlob(c) ==
  /\ At(c, "open")
  /\ req' = [req EXCEPT ![c].at = "stream", ![c].sized = TRUE]
  /\ UNCHANGED <<tag, has, server, info, shaken>>

(* The manifest, the config or the blob cannot be had.                     *)
RegistryFails(c) ==
  /\ MayFail
  /\ \/ At(c, "lookup") \/ At(c, "open")
     \/ At(c, "fields") /\ ~InManifest(req[c].image)
  /\ FallThrough(c, {"registry"})
  /\ UNCHANGED <<tag, has, server, info, shaken>>

(* proxyUpstream: the first upstream that says 200 is the answer.          *)
UpstreamAnswers(c) ==
  /\ At(c, "upstream") /\ req[c].next <= Len(Upstreams)
  /\ Answers(Upstreams[req[c].next], req[c].kind, req[c].name)
  /\ \E sized \in BOOLEAN :
       req' = [req EXCEPT ![c].at = "stream", ![c].image = 0, ![c].sized = sized]
  /\ UNCHANGED <<tag, has, server, info, shaken>>

(* A network error, or a status that is not 200.                           *)
UpstreamDoesNot(c) ==
  /\ At(c, "upstream") /\ req[c].next <= Len(Upstreams)
  /\ MayFail \/ ~Answers(Upstreams[req[c].next], req[c].kind, req[c].name)
  /\ req' = [req EXCEPT ![c].next = AfterUpstream(c),
                        ![c].failed = @ \cup {Upstreams[req[c].next]}]
  /\ UNCHANGED <<tag, has, server, info, shaken>>

NotFound(c) ==
  /\ At(c, "upstream") /\ req[c].next > Len(Upstreams)
  /\ Goto(c, "notfound")
  /\ UNCHANGED <<tag, has, server, info, shaken>>

Source(c) == IF req[c].image # 0 THEN req[c].image ELSE Upstreams[req[c].next]

(* io.Copy *)
CopyPart(c) ==
  /\ At(c, "stream") /\ Len(req[c].sent) < Size
  /\ req' = [req EXCEPT ![c].sent = Append(@, Source(c))]
  /\ UNCHANGED <<tag, has, server, info, shaken>>

CopyEnds(c) ==
  /\ At(c, "stream") /\ Len(req[c].sent) = Size
  /\ Goto(c, "returned")
  /\ UNCHANGED <<tag, has, server, info, shaken>>

CopyBreaks(c) ==
  /\ MayFail
  /\ At(c, "stream") /\ Len(req[c].sent) < Size
  /\ Goto(c, AfterBreak(c))
  /\ UNCHANGED <<tag, has, server, info, shaken>>

(* push, on this machine or another, tags the next image.                  *)
Publish ==
  /\ tag + 1 \in Image
  /\ tag' = tag + 1
  /\ shaken' = [c \in Client |-> TRUE]
  /\ UNCHANGED <<has, server, req, info>>

(* An interrupt, or the end of the wrapped command: ctx is cancelled, and  *)
(* Shutdown closes the socket and waits for the requests under way.        *)
Stop ==
  /\ server = "up"
  /\ server' = "stopping"
  /\ UNCHANGED <<tag, has, req, info, shaken>>

(* proxyRun waits for ctx, not for Shutdown; run goes on to push and then  *)
(* ends.  The requests still under way lose their connections.             *)
Exit ==
  /\ server = "stopping"
  /\ server' = "exited"
  /\ req' = [c \in Client |-> IF Ended(c) THEN req[c] ELSE [req[c] EXCEPT !.at = "aborted"]]
  /\ UNCHANGED <<tag, has, info, shaken>>

Init ==
  /\ tag \in {0} \cup Image
  /\ has \in SUBSET Upstream
  /\ server = "off"
  /\ req = [c \in Client |-> NoRequest]
  /\ info = [c \in Client |-> None]
  /\ shaken = [c \in Client |-> FALSE]

Serve(c) ==
  \/ AnswerHead(c) \/ FetchPackage(c) \/ NoPackage(c) \/ ServeNarinfo(c)
  \/ OpenBlob(c) \/ RegistryFails(c) \/ UpstreamAnswers(c) \/ UpstreamDoesNot(c)
  \/ NotFound(c) \/ CopyPart(c) \/ CopyEnds(c) \/ CopyBreaks(c)

Next ==
  \/ Start \/ Stop \/ Exit \/ Publish
  \/ \E c \in Client : AskNarinfo(c) \/ AskNar(c) \/ Serve(c)

Spec == Init /\ [][Next]_vars

-----------------------------------------------------------------------------

AnySource == {None} \cup Image \cup Upstream

RequestType ==
  [kind : {None, "narinfo", "nar"},
   at : {"none", "lookup", "fields", "open", "upstream", "stream",
         "returned", "aborted", "notfound", "refused"},
   name : {None, StoreHash} \cup Upstream,
   image : {0} \cup Image, next : 1..(Len(Upstreams) + 1),
   sent : Seq(Image \cup Upstream), sized : BOOLEAN,
   could : SUBSET ({"registry"} \cup Upstream),
   failed : SUBSET ({"registry"} \cup Upstream)]

(* Type invariant.                                                         *)
TypeOK ==
  /\ tag \in {0} \cup Image /\ has \subseteq Upstream
  /\ server \in {"off", "up", "stopping", "exited"}
  /\ req \in [Client -> RequestType]
  /\ info \in [Client -> AnySource]
  /\ shaken \in [Client -> BOOLEAN]

(* What looks like a complete body to a client is one: all the parts, and  *)
(* of one image or upstream, although a copy may break off when the header *)
(* is out, the process may exit, the search goes from source to source and *)
(* a body without a Content-Length is ended by closing it.                 *)
CompleteIsWhole ==
  \A c \in Client : LooksComplete(c) /\ req[c].kind # None =>
    \E s \in Image \cup Upstream : req[c].sent = [i \in 1..Size |-> s]

(* A client is told that a path is not there only when every source that   *)
(* had it when it asked let it down, or an image without narinfo fields    *)
(* was in the way: one working source is enough.                           *)
NotFoundExplained ==
  \A c \in Client : req[c].at = "notfound" => \A s \in req[c].could :
    \/ s \in req[c].failed
    \/ s = "registry" /\ req[c].image # 0 /\ ~HasFields(req[c].image)

(* The NAR a client gets is the one its narinfo describes, although the    *)
(* two are separate requests that choose their source anew: except when a  *)
(* push replaced the image between them, a source failed for one of them,  *)
(* or the image has a NAR and no narinfo fields.                           *)
MismatchExplained ==
  \A c \in Client : req[c].kind = "nar" /\ LooksComplete(c) =>
    \/ req[c].sent[1] = info[c]
    \/ shaken[c] \/ LetDown(c)
    \/ req[c].image # 0 /\ ~HasFields(req[c].image)

-----------------------------------------------------------------------------
(* A statement of the repository the code does not live up to.             *)

(* "so StartProxy can shut down its listener cleanly instead of the        *)
(* process being killed mid-request" (cmd/proxy): when nothing fails, no   *)
(* request is broken off.                                                  *)
NotKilledMidRequest == ~MayFail => \A c \in Client : req[c].at # "aborted"

=============================================================================
