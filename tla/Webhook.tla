------------------------------- MODULE Webhook -------------------------------
(***************************************************************************)
(* The webhook sources: the HTTP server (internal/server) calls the        *)
(* handler a source returned from GetWebhook; the handler checks the       *)
(* request and starts a goroutine that may fetch more data from the API of *)
(* the source and sends on the results channel; the server answers once    *)
(* the handler has returned, while the goroutine is on its way.            *)
(* The pipeline that receives is modelled in Pipeline, with these          *)
(* goroutines as its detached producers.                                   *)
(*                                                                         *)
(* All events are about one object.  The n-th event takes it to version n  *)
(* and carries the stamp of its instant; an API returns the current        *)
(* version.  What a goroutine does is a sequence of steps: requests to the *)
(* API, a reading of the clock, and the types of the data it sends.        *)
(***************************************************************************)
EXTENDS Naturals, Sequences, FiniteSets

CONSTANTS
    Sources, Requests,
    OddRequests,    \* bound on the variety of events
    None,
    MaxClock        \* bound on the clock

ASSUME RequestsAssumption == None \notin Requests /\ OddRequests \subseteq Requests
ASSUME ClockAssumption == MaxClock \in Nat

VARIABLES
    source, types,
    secret,     \* a secret (user and password, token) is configured
    serving,    \* no, yes, or refused by GetWebhook
    crashed,    \* a goroutine panicked
    clock,
    version,    \* of the object
    ev,         \* ev[r]: the event behind request r
    wire,       \* the request the server has read last
    pc, status,
    body,       \* body[r]: what the goroutine of r works on
    todo,       \* todo[r]: its remaining steps
    content,    \* content[r]: version it has got hold of
    now,        \* now[r]: its reading of the clock, None before
    cut,        \* history: requests whose goroutine gave up (see Fetch, Branch)
    out         \* data sent

vars == <<source, types, secret, serving, crashed, clock, version, ev, wire, pc, status,
          body, todo, content, now, cut, out>>
config == <<source, types, secret>>

-----------------------------------------------------------------------------
(* What the sources know. *)

KnownTypes(s) ==
    CASE s = "github"    -> {"repository", "workflow_run", "workflow_dispatch", "pat_request"}
      [] s = "gitlab"    -> {"project", "pipeline"}
      [] s = "bitbucket" -> {"repository"}
      [] s = "nexus"     -> {"dockerimage"}
      [] s = "sysdig"    -> {"vulnerability"}
      [] s = "devops"    -> {"gitrepository", "team"}
      [] s = "console"   -> {"project", "revision", "service"}

\* Event keys; "unknown" stands for the ones no processor is registered for.  For devops
\* an event name listed under one type, or under both ("shared"); for nexus a component
\* that is a Docker image, or of another format.
Kinds(s) ==
    CASE s = "github"    -> {"repository", "push", "workflow_run", "workflow_dispatch", "pat_request"}
      [] s = "gitlab"    -> {"pipeline", "push"}
      [] s = "bitbucket" -> {"repo:push"}
      [] s = "nexus"     -> {"component", "other format"}
      [] s = "sysdig"    -> {"vulnerability"}
      [] s = "devops"    -> {"gitrepository", "team", "shared"}
      [] s = "console"   -> {"project", "configuration"}

\* action: of the payload; dated: the payload has a usable time, where one is read
AllEvents(s, stamps) ==
    [kind : Kinds(s) \cup {"unknown"}, action : {"upsert", "delete", "other"},
     auth : {"none", "valid", "wrong"}, wellFormed : BOOLEAN,
     dated : IF s \in {"devops", "gitlab", "bitbucket"} THEN BOOLEAN ELSE {TRUE}, stamp : stamps]

\* Only the events of OddRequests are out of the ordinary, each in at most one respect.
Oddities(e) ==
    {o \in {"kind", "action", "auth", "form", "time"} :
        \/ o = "kind"   /\ e.kind = "unknown"
        \/ o = "action" /\ e.action # "upsert"
        \/ o = "auth"   /\ e.auth # (IF secret THEN "valid" ELSE "none")
        \/ o = "form"   /\ ~e.wellFormed
        \/ o = "time"   /\ ~e.dated}
Events(r) ==
    {e \in AllEvents(source, {clock + 1}) :
        Cardinality(Oddities(e)) <= IF r \in OddRequests THEN 1 ELSE 0}

Wants(t) == t \in types
If(condition, steps) == IF condition THEN steps ELSE <<>>

GithubRepository(e) == If(Wants("repository") /\ e.action # "other", <<"languages", "now", "repository">>)
GithubPush(e) == If(Wants("repository"), <<"languages", "now", "repository">>)
GithubWorkflowRun(e) == If(Wants("workflow_run") /\ e.action = "upsert", <<"now", "workflow_run">>)
GithubWorkflowDispatch(e) == If(Wants("workflow_dispatch"), <<"now", "workflow_dispatch">>)
GithubPatRequest(e) == If(Wants("pat_request") /\ e.action # "other", <<"now", "pat_request">>)

\* The event is enriched before the types are looked at; both types or nothing.
GitlabPipeline(e) ==
    <<"fetch">> \o If(Wants("project") /\ Wants("pipeline"),
                      If(~e.dated, <<"now">>) \o <<"project", "pipeline">>)
GitlabPush(e) == <<"fetch">> \o If(Wants("project"), <<"now", "project">>)

BitbucketRepository(e) == 
    If(Wants("repository"), <<"refresh">> \o If(~e.dated, <<"now">>) \o <<"repository">>)

NexusComponent(e) ==
    If(Wants("dockerimage") /\ e.kind = "component" /\ e.action # "other",
       If(e.action = "upsert", <<"fetch">>) \o <<"dockerimage">>)

\* Two vulnerabilities of one image.
SysdigVulnerability(e) == If(Wants("vulnerability"), <<"fetch", "vulnerability", "vulnerability">>)

\* typesToStream is a map: any of the types that list the event name may be met first, and
\* takes the event.
DevopsTakers(e) == IF e.kind = "shared" THEN types ELSE {e.kind}
DevopsResource(e, t) == If(Wants(t), If(~e.dated, <<"now">>) \o <<t>>)

\* service stands for services and custom resources
ConsoleProject(e) == <<"project">>
ConsoleConfiguration(e) ==
    <<"fetch">> \o If(Wants("project"), <<"project">>) \o If(Wants("revision"), <<"revision">>)
    \o If(Wants("service"), <<"branch", "fetch", "services", "service">>)

Takers(e) == IF source = "devops" THEN DevopsTakers(e) ELSE {e.kind}

\* t: the type that takes the event
Process(e, t) ==
    IF ~e.wellFormed \/ e.kind = "unknown" THEN <<>>
    ELSE
    CASE source = "github" /\ e.kind = "repository"   -> GithubRepository(e)
      [] source = "github" /\ e.kind = "push"         -> GithubPush(e)
      [] source = "github" /\ e.kind = "workflow_run" -> GithubWorkflowRun(e)
      [] source = "github" /\ e.kind = "workflow_dispatch" -> GithubWorkflowDispatch(e)
      [] source = "github" /\ e.kind = "pat_request"  -> GithubPatRequest(e)
      [] source = "gitlab" /\ e.kind = "pipeline"     -> GitlabPipeline(e)
      [] source = "gitlab" /\ e.kind = "push"         -> GitlabPush(e)
      [] source = "bitbucket" -> BitbucketRepository(e)
      [] source = "nexus"     -> NexusComponent(e)
      [] source = "sysdig"    -> SysdigVulnerability(e)
      [] source = "devops"    -> DevopsResource(e, t)
      [] source = "console" /\ e.kind = "project"       -> ConsoleProject(e)
      [] source = "console" /\ e.kind = "configuration" -> ConsoleConfiguration(e)

\* Only some event kinds can delete.
Operation(e) ==
    IF e.action = "delete"
         /\ source \notin {"gitlab", "bitbucket", "sysdig"}
         /\ e.kind \notin {"push", "workflow_run", "workflow_dispatch"}
    THEN "delete" ELSE "upsert"

-----------------------------------------------------------------------------
(* The checks of the handlers. *)

\* GetWebhook fails without a secret.
NeedsSecret == source \in {"github", "gitlab", "bitbucket", "console", "sysdig"}

SignatureValid(e) == e.auth = "valid"
NexusSignature(e) == IF secret THEN SignatureValid(e) ELSE e.auth = "none"
DevopsCredentials(e) == SignatureValid(e) \/ (e.auth = "none" /\ ~secret)

\* The Sysdig handler reads no header.
Verified(e) ==
    CASE source = "nexus"  -> NexusSignature(e)
      [] source = "devops" -> DevopsCredentials(e)
      [] source = "sysdig" -> TRUE
      [] OTHER             -> SignatureValid(e)

\* console and sysdig decode the body before they answer.
Refused(e) == ~Verified(e) \/ (source \in {"console", "sysdig"} /\ ~e.wellFormed)
\* They also drop there what nobody asked for.
Dropped(e) ==
    \/ source = "sysdig" /\ e.kind = "unknown"
    \/ /\ source = "console"
       /\ ~(e.kind = "project" /\ Wants("project"))
       /\ ~(e.kind = "configuration" /\ types \cap {"revision", "service"} # {})

-----------------------------------------------------------------------------
Init ==
    /\ source \in Sources
    /\ types \in {KnownTypes(source)} \cup {{t} : t \in KnownTypes(source)}
    /\ secret \in BOOLEAN /\ serving = "no" /\ crashed = FALSE
    /\ clock = 0 /\ version = 0 /\ wire = None
    /\ ev = [r \in Requests |-> None] /\ body = [r \in Requests |-> None]
    /\ pc = [r \in Requests |-> "idle"] /\ status = [r \in Requests |-> 0]
    /\ todo = [r \in Requests |-> <<>>] /\ content = [r \in Requests |-> 0]
    /\ now = [r \in Requests |-> None] /\ cut = {} /\ out = <<>>

GetWebhook ==
    /\ serving = "no"
    /\ serving' = IF NeedsSecret /\ ~secret THEN "refused" ELSE "yes"
    /\ UNCHANGED <<config, crashed, clock, version, ev, wire, pc, status, body, todo, content,
                   now, cut, out>>

\* Something happens to the object; its notification is on the way.
Occur(r) ==
    /\ serving = "yes" /\ pc[r] = "idle" /\ clock < MaxClock
    /\ clock' = clock + 1 /\ version' = clock + 1
    /\ \E e \in Events(r) : ev' = [ev EXCEPT ![r] = e]
    /\ pc' = [pc EXCEPT ![r] = "sent"]
    /\ UNCHANGED <<config, serving, crashed, wire, status, body, todo, content, now, cut, out>>

Tick ==
    /\ serving = "yes" /\ clock < MaxClock /\ clock' = clock + 1
    /\ UNCHANGED <<config, serving, crashed, version, ev, wire, pc, status, body, todo, content,
                   now, cut, out>>

\* Variant: the handler logs a refusal and goes on.
HandleRefused(r) ==
    /\ pc[r] = "sent" /\ wire' = ev[r]
    /\ pc' = [pc EXCEPT ![r] = IF Dropped(ev[r]) THEN "done" ELSE "go"]
    /\ UNCHANGED <<config, serving, crashed, clock, version, ev, status, body, todo, content, now,
                   cut, out>>
\* The handler: it refuses or drops the request, or starts the goroutine.
Handle(r) ==
    /\ pc[r] = "sent" /\ wire' = ev[r]
    /\ pc' = [pc EXCEPT ![r] = IF Refused(ev[r]) \/ Dropped(ev[r]) THEN "done" ELSE "go"]
    /\ UNCHANGED <<config, serving, crashed, clock, version, ev, status, body, todo, content, now,
                   cut, out>>

\* The handler has returned: AddRoute turns its error into 500 and its nil into 204.
Answer(r) ==
    /\ pc[r] \in {"go", "run", "done"} /\ status[r] = 0
    /\ status' = [status EXCEPT ![r] = IF Refused(ev[r]) THEN 500 ELSE 204]
    /\ UNCHANGED <<config, serving, crashed, clock, version, ev, wire, pc, body, todo, content, now,
                   cut, out>>

\* Variant: without Immutable the body is a view of the request buffer, which the server
\* reads the next request into once this one is answered.
SharedBody(r) == IF status[r] = 0 THEN ev[r] ELSE wire
\* Immutable: the body the handler got is a copy that outlives the request.
OwnBody(r) == ev[r]

\* The goroutine looks up the processor and decodes the body.
Decode(r) ==
    /\ pc[r] = "go"
    /\ pc' = [pc EXCEPT ![r] = "run"]
    /\ body' = [body EXCEPT ![r] = OwnBody(r)]
    /\ \E t \in Takers(OwnBody(r)) : todo' = [todo EXCEPT ![r] = Process(OwnBody(r), t)]
    /\ content' = [content EXCEPT ![r] = OwnBody(r).stamp]
    /\ UNCHANGED <<config, serving, crashed, clock, version, ev, wire, status, now, cut, out>>

At(r, step) == pc[r] = "run" /\ todo[r] # <<>> /\ Head(todo[r]) = step
GoOn(r) == todo' = [todo EXCEPT ![r] = Tail(@)]
GiveUp(r) == todo' = [todo EXCEPT ![r] = <<>>]

\* The requests a processor makes in a row are one step.  It gives up when one fails, which
\* is logged, or when the answer holds nothing to send: a component without assets, a scan
\* that did not fail.  Checks of single payload fields are part of this failure.
Fetch(r) ==
    /\ At(r, "fetch")
    /\ \/ GoOn(r) /\ content' = [content EXCEPT ![r] = version] /\ UNCHANGED cut
       \/ GiveUp(r) /\ cut' = cut \cup {r} /\ UNCHANGED content
    /\ UNCHANGED <<config, serving, crashed, clock, version, ev, wire, pc, status, body, now, out>>

\* Variant: a failed request drops the event.
RefreshOrDrop(r) ==
    /\ At(r, "refresh")
    /\ \/ GoOn(r) /\ content' = [content EXCEPT ![r] = version]
       \/ GiveUp(r) /\ UNCHANGED content
    /\ UNCHANGED <<config, serving, crashed, clock, version, ev, wire, pc, status, body, now, cut, out>>
\* The repository of the API, or the one of the payload when the request fails.
Refresh(r) ==
    /\ At(r, "refresh")
    /\ GoOn(r) /\ content' \in {content, [content EXCEPT ![r] = version]}
    /\ UNCHANGED <<config, serving, crashed, clock, version, ev, wire, pc, status, body, now, cut, out>>

\* Languages are added when the request succeeds; the rest is the payload's.
Languages(r) ==
    /\ At(r, "languages") /\ GoOn(r)
    /\ UNCHANGED <<config, serving, crashed, clock, version, ev, wire, pc, status, body, content,
                   now, cut, out>>

ReadClock(r) ==
    /\ At(r, "now") /\ GoOn(r) /\ now' = [now EXCEPT ![r] = clock]
    /\ UNCHANGED <<config, serving, crashed, clock, version, ev, wire, pc, status, body, content,
                   cut, out>>

\* Services are sent for the default branch only.  A project without one:
\* project["defaultBranch"].(string) panics.
Branch(r) ==
    /\ At(r, "branch")
    /\ \/ GoOn(r) /\ UNCHANGED <<cut, crashed>>
       \/ GiveUp(r) /\ cut' = cut \cup {r} /\ UNCHANGED crashed
       \/ crashed' = TRUE /\ UNCHANGED <<todo, cut>>
    /\ UNCHANGED <<config, serving, clock, version, ev, wire, pc, status, body, content, now, out>>

\* The services of a configuration are iterated: type assertions on a configuration
\* without services, a service that is no object or one with a type that is no string
\* panic.
Services(r) ==
    /\ At(r, "services")
    /\ \/ GoOn(r) /\ UNCHANGED crashed
       \/ crashed' = TRUE /\ UNCHANGED todo
    /\ UNCHANGED <<config, serving, clock, version, ev, wire, pc, status, body, content, now, cut, out>>

\* Variant: a deletion is built without a time.
NoTimeOnDelete(r) == IF Operation(body[r]) = "delete" THEN 0 ELSE body[r].stamp
\* Data.Time: read from the clock, from the fetched or sent repository
\* (Bitbucket's updated_on), or from the payload.
Time(r) ==
    IF now[r] # None THEN now[r]
    ELSE IF source = "bitbucket" THEN content[r] ELSE body[r].stamp

Datum(r) ==
    [req |-> r, type |-> Head(todo[r]), op |-> Operation(body[r]), of |-> body[r],
     version |-> content[r], time |-> Time(r), clocked |-> now[r] # None]

\* results <- d
Send(r) ==
    /\ pc[r] = "run" /\ todo[r] # <<>> /\ Head(todo[r]) \in KnownTypes(source)
    /\ GoOn(r) /\ out' = Append(out, Datum(r))
    /\ UNCHANGED <<config, serving, crashed, clock, version, ev, wire, pc, status, body, content,
                   now, cut>>

Finish(r) ==
    /\ pc[r] = "run" /\ todo[r] = <<>>
    /\ pc' = [pc EXCEPT ![r] = "done"]
    /\ UNCHANGED <<config, serving, crashed, clock, version, ev, wire, status, body, todo, content,
                   now, cut, out>>

Goroutine(r) ==
    \/ Decode(r) \/ Fetch(r) \/ Refresh(r) \/ Languages(r) \/ ReadClock(r) \/ Branch(r)
    \/ Services(r) \/ Send(r) \/ Finish(r)

Next ==
    /\ ~crashed
    /\ \/ GetWebhook \/ Tick
       \/ \E r \in Requests : Occur(r) \/ Handle(r) \/ Answer(r) \/ Goroutine(r)

Spec == Init /\ [][Next]_vars

\* The server answers, and the goroutines of the handlers are scheduled.
FairSpec ==
    /\ Spec
    /\ \A r \in Requests :
        WF_vars(~crashed /\ (Handle(r) \/ Answer(r))) /\ WF_vars(~crashed /\ Goroutine(r))

-----------------------------------------------------------------------------
(* Properties. *)

\* The variables have their types; only handled requests are answered, and none that is
\* answered with 500 has a goroutine.
TypeOK ==
    /\ serving \in {"no", "yes", "refused"} /\ crashed \in BOOLEAN /\ secret \in BOOLEAN
    /\ clock \in 0..MaxClock /\ version \in 0..clock
    /\ \A r \in Requests :
        /\ pc[r] \in {"idle", "sent", "go", "run", "done"} /\ content[r] \in 0..MaxClock
        /\ (ev[r] # None => ev[r] \in AllEvents(source, 1..clock))
        /\ status[r] \in {0, 204, 500}
        /\ status[r] # 0 => pc[r] \in {"go", "run", "done"}
        /\ status[r] = 500 => pc[r] = "done"
    /\ cut \subseteq Requests

\* What a goroutine sends is made from the request it was started for, although the
\* handler has returned and the server has read other requests into its buffers since.
\* With a secret configured nothing is sent for a request without a valid signature;
\* nothing is ever sent for a request answered with 500.  Sysdig checks no signature.
\* However many types list a devops event, it becomes one datum.
OwnAndVerified ==
    \A n \in 1..Len(out) :
        /\ out[n].of = ev[out[n].req]
        /\ status[out[n].req] # 500
        /\ secret /\ source # "sysdig" => ev[out[n].req].auth = "valid"
        /\ source = "devops" => \A m \in 1..Len(out) : out[m].req = out[n].req => m = n

\* Of two data of a type whose time comes from the source (its payload or its API), the
\* one with the later time shows the object at least as late as the event behind the
\* other, in whatever order the goroutines send: a destination that keeps the latest time
\* keeps the latest state.
SourceTimeIsSafe ==
    \A m, n \in 1..Len(out) :
        out[m].type = out[n].type /\ ~out[m].clocked /\ ~out[n].clocked /\ out[m].time > out[n].time
            => out[m].version >= ev[out[n].req].stamp

\* The types of the data an event has to lead to.
Promised(e) ==
    IF e = None \/ ~e.wellFormed \/ e.kind = "unknown" THEN {}
    ELSE CASE source = "github" ->
                IF e.kind = "push" THEN types \cap {"repository"}
                ELSE IF e.kind = "workflow_dispatch" THEN types \cap {"workflow_dispatch"}
                ELSE IF e.action = "other" \/ <<e.kind, e.action>> = <<"workflow_run", "delete">>
                     THEN {} ELSE types \cap {e.kind}
           [] source = "gitlab" ->
                IF e.kind = "push" THEN types \cap {"project"}
                ELSE IF types = {"project", "pipeline"} THEN types ELSE {}
           [] source = "nexus" ->
                IF e.kind # "component" \/ e.action = "other" THEN {} ELSE types
           [] source = "devops" -> (types \cup {"shared"}) \cap {e.kind}
           [] source = "console" ->
                IF e.kind = "project" THEN types \cap {"project"}
                ELSE IF types = {"project"} THEN {} ELSE types
           [] OTHER -> types

\* Any one type answers a shared event.
Answers(n, r, t) == out[n].req = r /\ (t = "shared" \/ out[n].type = t)

\* An event answered with 204 is handed over with every type it was asked for, unless its
\* goroutine gave up on an API request, or the process crashed: nobody sends it again.
AcceptedLands ==
    \A r \in Requests :
        status[r] = 204 ~>
            \/ crashed \/ r \in cut
            \/ \A t \in Promised(ev[r]) : \E n \in 1..Len(out) : Answers(n, r, t)
===============================================================================
