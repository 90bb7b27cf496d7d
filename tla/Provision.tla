----------------------------- MODULE Provision -----------------------------
(***************************************************************************)
(* `aeroflare init` and `aeroflare configure`: the credentials a run needs *)
(* and how it gets them (pkg/cmd/auth/shared), the wizard's confirmation,  *)
(* the four steps of RunProvision against the registry and Cloudflare, and *)
(* configure's reading, changing and writing back of the same manifest.    *)
(*                                                                         *)
(* Runs may overlap, on one machine, against one cache at one registry;    *)
(* each may be killed anywhere and begun again, and `aeroflare auth` may   *)
(* change the saved credentials under them.  A service may do what it was  *)
(* asked and the answer be lost.  The manifest is abstracted to the public *)
(* key it holds: None before the first push, Blank for an empty one.       *)
(***************************************************************************)
EXTENDS DeviceFlow

CONSTANTS
  Proc,
  Key, None, Blank,
  Given,     \* credentials in the environment
  Hosts,     \* the registries the cache may be at
  Bundles,   \* the sets of assets a worker script may come with
  Commands   \* what users run

Ghcr == "ghcr.io"
Gitlab == "registry.gitlab.com"

(* serviceDefinitions: the fields of the services, a generic OCI registry's *)
(* for the host the cache is at, if it is one.                              *)
CfField == {"cf-token", "cf-account-id"}
OciField == {"oci-username", "oci-token"}
Field == CfField \cup OciField \cup {"github-token", "gitlab-token"}

ASSUME KeyAssumption == None \notin Key \cup {Blank} /\ Blank \notin Key
ASSUME NoneAssumption == None \notin [by : Proc, assets : Bundles, token : BOOLEAN]
ASSUME GivenAssumption == Given \subseteq Field
ASSUME CommandsAssumption == Commands \subseteq {"init", "configure"}

VARIABLES
  host,     \* the registry of the cache
  config,   \* the cache-config manifest at the registry
  stored,   \* the assets Cloudflare holds
  worker,   \* the worker deployed
  route,    \* whether workers.dev leads to it
  saved,    \* the credentials the secrets manager holds
  proc      \* each run

cloud == <<host, config, stored, worker, route>>
vars == <<cloud, saved, proc, flow>>

-----------------------------------------------------------------------------

(* have: the credentials resolved; token: the Worker is to have one; seen  *)
(* and text: the key that configure read and the one it will write, typed: *)
(* the user changed it; bundle: the assets, todo: those to upload.         *)
Off == [cmd |-> "none", at |-> "off", have |-> {}, token |-> FALSE,
        seen |-> None, text |-> Blank, typed |-> FALSE, bundle |-> {}, todo |-> {}]

Put(p, r) == proc' = [proc EXCEPT ![p] = r]
Goto(p, s) == proc' = [proc EXCEPT ![p].at = s]
Ends(p) == Put(p, Off)
At(p, s) == proc[p].at = s

(* Resolve: the environment, then the secrets manager, which may fail to   *)
(* read a field; that counts as unset.                                     *)
Resolves(fields) == fields \subseteq Given \cup saved
MayMiss(fields) == ~(fields \subseteq Given)

(* The Set of each; what the environment gives need not be remembered.     *)
Saves(fields) == saved \cup (fields \ Given)

(* ServiceForRegistry: the fields of the host's own service, and among     *)
(* them the token's.                                                       *)
HostField ==
  CASE host = Ghcr -> {"github-token"}
    [] host = Gitlab -> {"gitlab-token"}
    [] OTHER -> OciField

HostToken == HostField \ {"oci-username"}

(* What a run asks for: promptCredentials knows GitLab's own token;        *)
(* TokenForRegistry wants a username and a token of every host but ghcr.io.*)
Wanted(p) ==
  IF host = Ghcr \/ (host = Gitlab /\ proc[p].cmd = "init") THEN HostField ELSE OciField

(* Where RunWizard and configureRun go on, with a token for the registry   *)
(* or a blank one.                                                         *)
LoggedIn(p, got) ==
  Put(p, [proc[p] EXCEPT !.at = IF proc[p].cmd = "init" THEN "wtoken" ELSE "fetch",
                         !.have = @ \cup (got \ {"oci-username"})])

(* RegistryAuth: a token of the run, or whatever can be resolved by now.   *)
CanPush(p) == proc[p].have \ CfField # {} \/ Resolves(HostToken)

CanDeploy(p) == CfField \subseteq proc[p].have

(* FAULT: the form starts empty.                                           *)
PrefillNothing(k) == Blank

(* existingPublicKey *)
Prefill(k) == IF k \in Key THEN k ELSE Blank

(* init has no annotations to push.                                        *)
Written(p) == IF proc[p].cmd = "init" THEN Blank ELSE proc[p].text

Deployed(p) == [by |-> p, assets |-> proc[p].bundle, token |-> proc[p].token]

(* FAULT: an error of the deploy is warned of, as one of the route is.     *)
DeployWarned(p) == Goto(p, "route")

DeployFailed(p) == Ends(p)

-----------------------------------------------------------------------------

(* promptCoreSettings, or what configure needs: a cache name, a registry.  *)
(* The device flow shares nothing with other runs: they wait for it.       *)
Start(p) ==
  /\ proc[p] = Off /\ flow.at = "off"
  /\ \E c \in Commands :
       Put(p, [Off EXCEPT !.cmd = c, !.at = IF c = "init" THEN "cloudflare" ELSE "registry"])
  /\ UNCHANGED <<cloud, saved, flow>>

(* RequireCloudflareToken                                                  *)
ResolveCloudflare(p) ==
  /\ At(p, "cloudflare")
  /\ \/ Resolves(CfField) /\ Put(p, [proc[p] EXCEPT !.at = "registry", !.have = CfField])
     \/ MayMiss(CfField) /\ Goto(p, "cfform")
  /\ UNCHANGED <<cloud, saved, flow>>

(* RunInteractiveCloudflareAuth asks for both, whatever was resolved, and  *)
(* returns what was entered, blanks too; the token is saved first.  One    *)
(* without the other deploys nothing.                                      *)
CloudflareForm(p) ==
  /\ At(p, "cfform")
  /\ \/ \E e \in SUBSET CfField :
          /\ saved' = Saves(e)
          /\ Put(p, [proc[p] EXCEPT !.at = "registry", !.have = IF e = CfField THEN e ELSE {}])
     \/ \E e \in {{}, {"cf-token"}} : saved' = Saves(e) /\ Ends(p)
  /\ UNCHANGED <<cloud, flow>>

(* RequireGithubToken, RequireGitlabToken                                  *)
ResolveToken(p) ==
  /\ At(p, "registry") /\ Wanted(p) # OciField
  /\ \/ Resolves(HostField) /\ LoggedIn(p, HostField)
     \/ MayMiss(HostField) /\ Goto(p, "tokenform")
  /\ UNCHANGED <<cloud, saved, flow>>

(* RequireOCIToken: GitLab's service declares no username to be found.     *)
ResolvePair(p) ==
  /\ At(p, "registry") /\ Wanted(p) = OciField
  /\ \/ HostField = OciField /\ Resolves(OciField) /\ LoggedIn(p, OciField)
     \/ (HostField # OciField \/ MayMiss(OciField)) /\ Goto(p, "ociform")
  /\ UNCHANGED <<cloud, saved, flow>>

(* RunInteractiveGithubAuth, RunInteractiveGitlabAuth: the token entered,  *)
(* which may be left blank; cancelled, or it could not be saved.           *)
TokenForm(p) ==
  /\ At(p, "tokenform")
  /\ (\E e \in SUBSET HostField : saved' = Saves(e) /\ LoggedIn(p, e))
     \/ (Ends(p) /\ UNCHANGED saved)
  /\ UNCHANGED <<cloud, flow>>

(* The other choice, the device flow.                                      *)
DeviceForm(p) ==
  /\ At(p, "tokenform") /\ host = Ghcr
  /\ \A q \in Proc \ {p} : proc[q] = Off
  /\ FlowBegins /\ Goto(p, "flow") /\ UNCHANGED <<cloud, saved>>

(* RunInteractiveOCIAuth saves what was entered, a blank too, username     *)
(* first; under keys nobody reads if the host has a service of its own.    *)
OciForm(p) ==
  /\ At(p, "ociform")
  /\ \E e \in SUBSET OciField, done \in {{}, {"oci-username"}, OciField} :
       /\ saved' = Saves(e \cap done \cap HostField) \ (done \ e)
       /\ IF done = OciField THEN LoggedIn(p, e) ELSE Ends(p)
  /\ UNCHANGED <<cloud, flow>>

FlowRuns == FlowSteps /\ UNCHANGED <<cloud, saved, proc>>

FlowEnds(p) ==
  /\ At(p, "flow")
  /\ \/ FlowToken /\ saved' = Saves({"github-token"}) /\ LoggedIn(p, {"github-token"})
     \/ (FlowToken \/ FlowError) /\ Ends(p) /\ UNCHANGED saved
  /\ UNCHANGED cloud

(* `aeroflare auth`: set and login save fields one by one, import what the *)
(* other CLIs have, remove deletes those of a service one by one.          *)
AuthSet ==
  /\ flow.at = "off"
  /\ \E f \in CfField \cup HostField : saved' = Saves({f})
  /\ UNCHANGED <<cloud, proc, flow>>

AuthImport ==
  /\ flow.at = "off"
  /\ \E e \in SUBSET HostField : saved' = Saves(e)
  /\ UNCHANGED <<cloud, proc, flow>>

AuthRemove ==
  /\ flow.at = "off"
  /\ \E f \in saved : saved' = saved \ {f}
  /\ UNCHANGED <<cloud, proc, flow>>

(* promptWorkerToken asks on ghcr.io; cancelling, or a blank, is none.     *)
WorkerToken(p) ==
  /\ At(p, "wtoken")
  /\ \E t \in {FALSE, host = Ghcr} : Put(p, [proc[p] EXCEPT !.at = "confirm", !.token = t])
  /\ UNCHANGED <<cloud, saved, flow>>

(* DisplaySummary *)
Confirm(p) ==
  /\ At(p, "confirm")
  /\ Goto(p, "push") \/ Ends(p)
  /\ UNCHANGED <<cloud, saved, flow>>

(* FetchAeroflareAnnotations: what the manifest holds, or an error.        *)
Annotations == {config, None}

(* BootstrapConfigWithAnnotations, its error dropped.                      *)
Fetch(p) ==
  /\ At(p, "fetch")
  /\ \E k \in Annotations :
       Put(p, [proc[p] EXCEPT !.at = "form", !.seen = k, !.text = Prefill(k)])
  /\ UNCHANGED <<cloud, saved, flow>>

KeyForm(p) ==
  /\ At(p, "form")
  /\ \/ Goto(p, "push")
     \/ \E k \in Key \cup {Blank} :
          Put(p, [proc[p] EXCEPT !.at = "push", !.text = k, !.typed = TRUE])
     \/ Ends(p)
  /\ UNCHANGED <<cloud, saved, flow>>

(* PushConfigManifest, as createOCIRepository's first step of init and as  *)
(* configure's last.                                                       *)
PushConfig(p) ==
  /\ At(p, "push")
  /\ \/ /\ CanPush(p) /\ config' = Written(p)
        /\ IF proc[p].cmd = "init" THEN Goto(p, "script") ELSE Ends(p)
     \/ /\ config' = config \/ (CanPush(p) /\ config' = Written(p))
        /\ Ends(p)
  /\ UNCHANGED <<host, stored, worker, route, saved, flow>>

(* resolveWorkerScript, from a checkout or the latest release.             *)
FindScript(p) ==
  /\ At(p, "script")
  /\ Goto(p, "assets") \/ Ends(p)
  /\ UNCHANGED <<cloud, saved, flow>>

(* What lies in public/ beside it, read anew by every run.                 *)
CollectAssets(p) ==
  /\ At(p, "assets")
  /\ (\E b \in Bundles : Put(p, [proc[p] EXCEPT !.bundle = b, !.at = "session"])) \/ Ends(p)
  /\ UNCHANGED <<cloud, saved, flow>>

(* The session names the assets Cloudflare lacks; without assets no one    *)
(* is asked for.                                                           *)
OpenSession(p) ==
  /\ At(p, "session")
  /\ \/ /\ proc[p].bundle = {} \/ CanDeploy(p)
        /\ Put(p, [proc[p] EXCEPT !.todo = proc[p].bundle \ stored,
                     !.at = IF proc[p].bundle \subseteq stored THEN "deploy" ELSE "bucket"])
     \/ Ends(p)
  /\ UNCHANGED <<cloud, saved, flow>>

(* The next bucket, in one request.                                        *)
UploadBucket(p) ==
  /\ At(p, "bucket")
  /\ \E b \in SUBSET proc[p].todo \ {{}} :
       \/ /\ stored' = stored \cup b
          /\ Put(p, [proc[p] EXCEPT !.todo = @ \ b, !.at = IF proc[p].todo \subseteq b THEN "deploy" ELSE "bucket"])
       \/ stored' \in {stored, stored \cup b} /\ Ends(p)
  /\ UNCHANGED <<host, config, worker, route, saved, flow>>

(* deployWorkerViaAPI *)
Deploy(p) ==
  /\ At(p, "deploy")
  /\ \/ /\ CanDeploy(p) /\ worker' = Deployed(p)
        /\ Put(p, [proc[p] EXCEPT !.at = "route", !.have = {}])
     \/ /\ worker' = worker \/ (CanDeploy(p) /\ worker' = Deployed(p))
        /\ DeployFailed(p)
  /\ UNCHANGED <<host, config, stored, route, saved, flow>>

(* enableWorkerRoute, its answer not looked at, its error a warning.       *)
EnableRoute(p) ==
  /\ At(p, "route")
  /\ route' \in {route, TRUE}
  /\ Goto(p, "complete")
  /\ UNCHANGED <<host, config, stored, worker, saved, flow>>

(* The process ends, in the end or before.                                 *)
Exit(p) ==
  /\ proc[p] # Off
  /\ Ends(p)
  /\ flow' = IF At(p, "flow") THEN NoFlow ELSE flow
  /\ UNCHANGED <<cloud, saved>>

-----------------------------------------------------------------------------

Init ==
  /\ host \in Hosts
  /\ config = None /\ stored = {} /\ worker = None /\ route = FALSE
  /\ saved = {} /\ proc = [p \in Proc |-> Off] /\ flow = NoFlow

Next ==
  \/ FlowRuns \/ AuthSet \/ AuthImport \/ AuthRemove
  \/ \E p \in Proc :
       \/ Start(p) \/ ResolveCloudflare(p) \/ CloudflareForm(p) \/ ResolveToken(p) \/ ResolvePair(p)
       \/ TokenForm(p) \/ DeviceForm(p) \/ OciForm(p) \/ FlowEnds(p) \/ WorkerToken(p) \/ Confirm(p)
       \/ Fetch(p) \/ KeyForm(p) \/ PushConfig(p) \/ FindScript(p) \/ CollectAssets(p)
       \/ OpenSession(p) \/ UploadBucket(p) \/ Deploy(p) \/ EnableRoute(p) \/ Exit(p)

Spec == Init /\ [][Next]_vars

-----------------------------------------------------------------------------

Places ==
  {"off", "cloudflare", "cfform", "registry", "tokenform", "ociform", "flow", "wtoken", "confirm",
   "fetch", "form", "push", "script", "assets", "session", "bucket", "deploy", "route", "complete"}

(* Types, and that only a run under way has something to upload.           *)
TypeOK ==
  /\ FlowTypeOK /\ host \in Hosts
  /\ config \in Key \cup {None, Blank} /\ stored \subseteq UNION Bundles
  /\ worker = None \/ worker \in [by : Proc, assets : Bundles, token : BOOLEAN]
  /\ (flow.at # "off") <=> (\E p \in Proc : At(p, "flow"))
  /\ route \in BOOLEAN /\ saved \subseteq Field
  /\ proc \in [Proc -> [cmd : Commands \cup {"none"}, at : Places, have : SUBSET Field,
                       token : BOOLEAN, seen : Key \cup {None, Blank}, text : Key \cup {Blank},
                       typed : BOOLEAN, bundle : Bundles \cup {{}}, todo : SUBSET UNION Bundles]]
  /\ \A p \in Proc :
       /\ proc[p].cmd = "none" <=> proc[p] = Off
       /\ proc[p].todo \subseteq proc[p].bundle
       /\ At(p, "bucket") <=> proc[p].todo # {}

(* A public key leaves the manifest by an init run or by a configure run   *)
(* whose user changed it, which could not read it, or which read the       *)
(* manifest when it held another; never because it was left as it stood.   *)
KeyLostExplained ==
  [][\A k \in Key : config = k /\ config' # k =>
       \E p \in Proc :
         /\ At(p, "push") /\ ~At(p, "push")'
         /\ \/ proc[p].cmd = "init"
            \/ proc[p].cmd = "configure" /\ (proc[p].typed \/ proc[p].seen # k)]_vars

(* However often it was interrupted before and whoever else provisions, a  *)
(* run that reports "Setup complete!" leaves a manifest and a worker, all  *)
(* assets that worker needs, and the worker the run itself set out to      *)
(* deploy, unless another run deployed since.                              *)
CompleteMeansSetUp ==
  \A p \in Proc : At(p, "complete") =>
    /\ config # None /\ worker # None
    /\ worker.assets \subseteq stored
    /\ worker.by = p => worker = Deployed(p)

-----------------------------------------------------------------------------

(* The inductive invariant behind the two.  What a run relies on is where  *)
(* it has put it, for others only add to it; the worker it deployed may    *)
(* have been replaced, but only by that of another.                        *)
Deploying == {"script", "assets", "session", "bucket", "deploy", "route", "complete"}

RunInv(p) ==
  /\ At(p, "off") <=> proc[p] = Off
  /\ At(p, "flow") => \A q \in Proc \ {p} : proc[q] = Off
  /\ proc[p].at \in {"wtoken", "confirm"} => proc[p].cmd = "init"
  /\ proc[p].at \in {"form", "push"} /\ proc[p].cmd = "configure" /\ ~proc[p].typed =>
       proc[p].text = Prefill(proc[p].seen)
  /\ proc[p].at \in Deploying => config # None
  /\ proc[p].at \in Deploying \ {"script", "assets"} => proc[p].bundle \in Bundles
  /\ proc[p].at \in {"bucket", "deploy"} => proc[p].bundle \subseteq stored \cup proc[p].todo
  /\ proc[p].at \in {"route", "complete"} =>
       worker # None /\ (worker.by = p => worker = Deployed(p))

ProvInv ==
  /\ TypeOK /\ FlowInv
  /\ \A p \in Proc : RunInv(p)
  /\ worker # None => worker.assets \subseteq stored

=============================================================================
