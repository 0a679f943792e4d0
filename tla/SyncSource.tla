------------------------------ MODULE SyncSource ------------------------------
(***************************************************************************)
(* StartSyncProcess of the sources: one walk, page by page, over nested    *)
(* listings of a remote API (internal/source/<source>).  The control of    *)
(* the walk is the same in all of them; what differs is recorded per       *)
(* listing: how the next page is found, where the context is checked, what *)
(* a failed request does, which request completes an item and what an item *)
(* without identifier means.                                               *)
(*                                                                         *)
(* The remote data do not change during a sync.  A slot of a page is       *)
(* [role, page, k], an item the sequence of slots that leads to it.  The   *)
(* services and custom resources of a console revision, the relationships  *)
(* of a cluster and the assets of a Docker component travel with their     *)
(* item and are not told apart from it.                                    *)
(***************************************************************************)
EXTENDS Naturals, Sequences, FiniteSets

CONSTANTS
    Sources,   \* sources to consider, a subset of DOMAIN Swallows
    Shapes,    \* Shape[d]: sizes of the pages of a listing at depth d
    Uncounted, \* GitLab may omit x-total-pages
    MaxCalls,  \* bound on the calls of StartSyncProcess
    MaxPages   \* bound on the pages asked of one listing

\* An API answers with an empty page only behind its last item: most iterators take one
\* for the end of the listing.
ASSUME ShapesAssumption ==
    \A s \in Shapes : \A d \in 1..3 :
        /\ s[d] \in Seq(Nat)
        /\ \A p, q \in 1..Len(s[d]) : p < q /\ s[d][p] = 0 => s[d][q] = 0

ASSUME BoundsAssumption == MaxCalls \in Nat /\ MaxPages \in Nat /\ Uncounted \in BOOLEAN

VARIABLES
    source, shape,
    odd,        \* depth at which the first slot has no identifier, 0 for none
    lock,       \* syncLock
    running,
    cancelled,  \* the context of the call
    types,      \* typesToSync
    roots,      \* listings still to walk
    stack,      \* listings being walked, innermost last
    buffer,     \* console: what listAssets has collected
    sent,       \* items sent on the results channel by this call
    outcome,    \* none, nil, error or panic (the process is gone)
    plan,       \* history: the listings the call set out to walk
    gaps,       \* history: parts of listings that were skipped and logged
    hidden,     \* history: a timeout swallowed, a listing without x-total-pages, or a
                \* refusal read as an empty page
    calls

vars == <<source, shape, odd, lock, running, cancelled, types, roots, stack, buffer,
          sent, outcome, plan, gaps, hidden, calls>>

Failures == {"canceled", "timeout", "denied", "other"}

-----------------------------------------------------------------------------
(* The listings. *)

\* subs: listings under an item, each with the type that asks for it
Listing(type, scheme, detail, skips, unit, checks, anon, subs) ==
    [type |-> type, scheme |-> scheme, detail |-> detail, skips |-> skips, unit |-> unit,
     checks |-> checks, anon |-> anon, subs |-> subs]

GithubRepositories ==
    Listing("repository", "link", "optional", {}, "call", {"page", "item"}, "leaf",
            <<[role |-> "github.runs", type |-> "workflow_run"]>>)
GithubWorkflowRuns ==
    Listing("workflow_run", "wrapped", "none", {}, "call", {"page"}, "keep", <<>>)

GitlabProjects ==
    Listing("project", "total", "required", {}, "call", {}, "skip",
            <<[role |-> "gitlab.projectTokens", type |-> "accesstoken"],
              [role |-> "gitlab.pipelines", type |-> "pipeline"]>>)
GitlabProjectTokens ==
    Listing("accesstoken", "total", "none", {"denied"}, "page", {}, "keep", <<>>)
GitlabPipelines ==
    Listing("pipeline", "total", "required", {}, "call", {}, "keep", <<>>)
GitlabGroups ==
    Listing("none", "total", "none", {}, "call", {}, "skip",
            <<[role |-> "gitlab.groupTokens", type |-> "accesstoken"]>>)
GitlabGroupTokens ==
    Listing("accesstoken", "total", "none", {"denied"}, "page", {}, "keep", <<>>)

BitbucketWorkspaces ==
    Listing("none", "next", "none", {}, "call", {"page", "item"}, "skip",
            <<[role |-> "bitbucket.repositories", type |-> "any"]>>)
BitbucketRepositories ==
    Listing("repository", "next", "none", {}, "call", {"page", "item"}, "leaf",
            <<[role |-> "bitbucket.pipelines", type |-> "pipeline"]>>)
BitbucketPipelines ==
    Listing("pipeline", "next", "none", Failures, "listing", {"page"}, "keep", <<>>)

NexusRepositories ==
    Listing("none", "once", "none", {}, "call", {"item"}, "keep",
            <<[role |-> "nexus.components", type |-> "dockerimage"]>>)
\* anon: a component that is not a Docker image, or has no assets
NexusComponents ==
    Listing("dockerimage", "token", "none", Failures, "listing", {"page"}, "skip", <<>>)

SysdigVulnerabilities ==
    Listing("vulnerability", "offset", "none", {"other"}, "listing",
            {"page", "send"}, "keep", <<>>)

\* anon: an element of response.Data that is not a map
AzureResources(type) ==
    Listing(type, "token", "none", {}, "call", {}, "skip", <<>>)
\* a type the source does not know is asked of the root of the organisation
DevopsResources(type) ==
    Listing(type, "token", "none", {}, "call", {}, "keep", <<>>)
GcpAssets ==
    Listing("asset", "token", "none", {}, "call", {}, "keep", <<>>)

\* service.doRequest returns (nil, nil) for a cancelled request: an empty listing.
\* anon: a project without _id, a revision without name or services, for which an
\* unchecked type assertion panics
ConsoleProjects ==
    Listing("project", "once", "none", {"canceled"}, "listing", {}, "panic",
            <<[role |-> "console.revisions", type |-> "any"]>>)
ConsoleRevisions ==
    Listing("revision", "once", "required", {"canceled"}, "listing", {}, "panic", <<>>)
ConsoleTenants ==
    Listing("none", "once", "none", {"canceled"}, "listing", {}, "skip",
            <<[role |-> "console.clusters", type |-> "any"]>>)
ConsoleClusters ==
    Listing("cluster", "once", "none", {"canceled"}, "listing", {}, "keep", <<>>)

Role(r) ==
    CASE r = "github.repositories"    -> GithubRepositories
      [] r = "github.runs"            -> GithubWorkflowRuns
      [] r = "gitlab.projects"        -> GitlabProjects
      [] r = "gitlab.projectTokens"   -> GitlabProjectTokens
      [] r = "gitlab.pipelines"       -> GitlabPipelines
      [] r = "gitlab.groups"          -> GitlabGroups
      [] r = "gitlab.groupTokens"     -> GitlabGroupTokens
      [] r = "bitbucket.workspaces"   -> BitbucketWorkspaces
      [] r = "bitbucket.repositories" -> BitbucketRepositories
      [] r = "bitbucket.pipelines"    -> BitbucketPipelines
      [] r = "nexus.repositories"     -> NexusRepositories
      [] r = "nexus.components"       -> NexusComponents
      [] r = "sysdig.vulnerabilities" -> SysdigVulnerabilities
      [] r = "azure.vm"               -> AzureResources("vm")
      [] r = "azure.group"            -> AzureResources("group")
      [] r = "devops.repositories"    -> DevopsResources("gitrepository")
      [] r = "devops.teams"           -> DevopsResources("team")
      [] r = "devops.root"            -> DevopsResources("unknown")
      [] r = "gcp.assets"             -> GcpAssets
      [] r = "console.projects"       -> ConsoleProjects
      [] r = "console.revisions"      -> ConsoleRevisions
      [] r = "console.tenants"        -> ConsoleTenants
      [] r = "console.clusters"       -> ConsoleClusters

-----------------------------------------------------------------------------
(* The sources. *)

KnownTypes(s) ==
    CASE s = "github"    -> {"repository", "workflow_run"}
      [] s = "gitlab"    -> {"project", "pipeline", "accesstoken"}
      [] s = "bitbucket" -> {"repository", "pipeline"}
      [] s = "nexus"     -> {"dockerimage"}
      [] s = "sysdig"    -> {"vulnerability"}
      [] s = "azure"     -> {"vm", "group"}
      [] s = "devops"    -> {"gitrepository", "team", "unknown"}
      [] s = "gcp"       -> {"asset"}
      [] s = "console"   -> {"project", "revision", "cluster"}

\* A listing, when one of its types is requested.
Listings(role, wanted, ts) == IF wanted \cap ts # {} THEN <<role>> ELSE <<>>

GithubPlans(ts) == {Listings("github.repositories", {"repository", "workflow_run"}, ts)}
GitlabPlans(ts) == {Listings("gitlab.projects", {"project"}, ts)
                       \o Listings("gitlab.groups", {"accesstoken"}, ts)}
\* BITBUCKET_WORKSPACE names the only workspace to walk
BitbucketPlans(ts) == {Listings(r, {"repository", "pipeline"}, ts) :
                         r \in {"bitbucket.workspaces", "bitbucket.repositories"}}
NexusPlans(ts) == {Listings("nexus.repositories", {"dockerimage"}, ts)}
SysdigPlans(ts) == {Listings("sysdig.vulnerabilities", {"vulnerability"}, ts)}
\* Go iterates typesToFilter in any order.
AzurePlans(ts) ==
    LET vms == Listings("azure.vm", {"vm"}, ts)
        groups == Listings("azure.group", {"group"}, ts)
    IN {vms \o groups, groups \o vms}
DevopsPlans(ts) ==
    LET repos == Listings("devops.repositories", {"gitrepository"}, ts)
        teams == Listings("devops.teams", {"team"}, ts)
        root == Listings("devops.root", {"unknown"}, ts)
    IN {repos \o teams \o root, repos \o root \o teams, root \o repos \o teams,
        teams \o repos \o root, teams \o root \o repos, root \o teams \o repos}
GcpPlans(ts) == {<<"gcp.assets">>}
ConsolePlans(ts) == {Listings("console.projects", {"project", "revision"}, ts)
                        \o Listings("console.tenants", {"cluster"}, ts)}

Plans(s, ts) ==
    CASE s = "github"    -> GithubPlans(ts)
      [] s = "gitlab"    -> GitlabPlans(ts)
      [] s = "bitbucket" -> BitbucketPlans(ts)
      [] s = "nexus"     -> NexusPlans(ts)
      [] s = "sysdig"    -> SysdigPlans(ts)
      [] s = "azure"     -> AzurePlans(ts)
      [] s = "devops"    -> DevopsPlans(ts)
      [] s = "gcp"       -> GcpPlans(ts)
      [] s = "console"   -> ConsolePlans(ts)

\* How a request of each client can fail.  "timeout" is the Timeout of its http.Client,
\* "denied" the status 401 or 403 where the client tells it from the others; any other
\* status, a broken connection and a body that cannot be decoded are "other".  The client
\* of devops does not look at the status: see ReadRefusal.
GithubRequest    == {"canceled", "timeout", "other"}
GitlabRequest    == {"canceled", "timeout", "denied", "other"}
BitbucketRequest == {"canceled", "timeout", "other"}
NexusRequest     == {"canceled", "timeout", "other"}
SysdigRequest    == {"canceled", "timeout", "other"}
AzureRequest     == {"canceled", "other"}
DevopsRequest    == {"canceled", "other"}
GcpRequest       == {"canceled", "other"}
ConsoleRequest   == {"canceled", "other"}

RequestFailures ==
    [github |-> GithubRequest, gitlab |-> GitlabRequest, bitbucket |-> BitbucketRequest,
     nexus |-> NexusRequest, sysdig |-> SysdigRequest, azure |-> AzureRequest,
     devops |-> DevopsRequest, gcp |-> GcpRequest, console |-> ConsoleRequest]

\* Failures that StartSyncProcess turns into a nil return.
Swallows ==
    [github |-> {"canceled", "timeout"}, gitlab |-> {}, bitbucket |-> {"canceled", "timeout"},
     nexus |-> {"canceled"}, sysdig |-> {"canceled", "timeout"}, azure |-> {"canceled"},
     devops |-> {"canceled"}, gcp |-> {}, console |-> {}]

ASSUME SourcesAssumption == Sources \subseteq DOMAIN Swallows

\* Every source defers syncLock.Unlock(), console does not.
Unlocks == source # "console"
\* Only console collects everything before it sends.
Buffers == source = "console"
\* azure and devops validate their settings, gcp creates its client.
HasSetup == source \in {"azure", "devops", "gcp"}
\* Close cancels the context derived for the call.
Cancellable == source \in {"azure", "devops"}

-----------------------------------------------------------------------------
(* Pages.  Of a listing with n pages, page p carries size items. *)

LinkEnds(p, n, size) == size = 0 \/ p = n
WrappedLinkEnds(p, n, size) == size = 0 \/ p = n
TotalEnds(p, total, size) == size = 0 \/ p >= total
\* Variant: a failed page ends the listing.
AnyErrorEnds(p, total) == TRUE
TotalEndsOnError(p, total) == p >= total
NextEnds(p, n, size) == size = 0 \/ p = n
ContinuationEnds(p, n) == p = n
\* Variant: an empty page is a page like the others.
OffsetNeverEnds(size) == FALSE
OffsetEnds(size) == size = 0

Ends(scheme, p, n, size, total) ==
    CASE scheme = "link"    -> LinkEnds(p, n, size)
      [] scheme = "wrapped" -> WrappedLinkEnds(p, n, size)
      [] scheme = "total"   -> TotalEnds(p, total, size)
      [] scheme = "next"    -> NextEnds(p, n, size)
      [] scheme = "token"   -> ContinuationEnds(p, n)
      [] scheme = "offset"  -> OffsetEnds(size)
      [] scheme = "once"    -> TRUE

\* A listing the server answers in one piece has one page with all its items.
AllItems(pages) == Cardinality(UNION {{p} \X (1..pages[p]) : p \in 1..Len(pages)})
Pages(role, depth) ==
    IF Role(role).scheme = "once" THEN <<AllItems(shape[depth])>> ELSE shape[depth]
SizeOf(pages, p) == IF p \in 1..Len(pages) THEN pages[p] ELSE 0

-----------------------------------------------------------------------------
(* Items. *)

Unidentified(item) ==
    Len(item) = odd /\ item[odd].page = 1 /\ item[odd].k = 1
RoleOf(item) == Role(item[Len(item)].role)
Skipped(item) == Unidentified(item) /\ RoleOf(item).anon = "skip"
Fatal(item) == Unidentified(item) /\ RoleOf(item).anon = "panic"
Requested(type) == type = "any" \/ type \in types
\* The listings to walk under an item, of which there are at most two.
Sub(item, n) ==
    LET subs == RoleOf(item).subs
    IN IF n \in 1..Len(subs) /\ Requested(subs[n].type) THEN <<subs[n].role>> ELSE <<>>
Subs(item) ==
    IF Unidentified(item) /\ RoleOf(item).anon = "leaf" THEN <<>>
    ELSE Sub(item, 1) \o Sub(item, 2)

-----------------------------------------------------------------------------
(* The walk. *)

Init ==
    /\ source \in Sources /\ shape \in Shapes /\ odd \in 0..2
    /\ lock = FALSE /\ running = FALSE /\ cancelled = FALSE
    /\ types = {} /\ roots = <<>> /\ stack = <<>> /\ buffer = <<>> /\ sent = <<>>
    /\ outcome = "none" /\ plan = <<>> /\ gaps = {} /\ hidden = FALSE
    /\ calls = 0

World == <<source, shape, odd>>
Call == <<lock, running, types, plan, outcome, calls>>

StartSyncProcess(ts, order) ==
    /\ ~running /\ ~lock /\ calls < MaxCalls
    /\ calls' = calls + 1 /\ lock' = TRUE /\ running' = TRUE
    /\ types' = ts /\ plan' = order /\ roots' = order
    /\ sent' = <<>> /\ gaps' = {} /\ hidden' = FALSE /\ cancelled' = FALSE
    /\ outcome' = "none"
    /\ UNCHANGED <<World, stack, buffer>>

\* The lock is taken: the call returns nil and does nothing.
TurnAway ==
    /\ lock /\ outcome # "panic" /\ calls < MaxCalls
    /\ calls' = calls + 1
    /\ UNCHANGED <<World, lock, running, cancelled, types, roots, stack, buffer, sent,
                   outcome, plan, gaps, hidden>>

Leave(result) ==
    /\ running' = FALSE /\ lock' = ~Unlocks /\ outcome' = result
    /\ stack' = <<>> /\ roots' = <<>> /\ buffer' = <<>>
    /\ UNCHANGED <<World, cancelled, types, sent, plan, calls>>

\* A request failed and the failure is not one the listing copes with.
LeaveOn(failure) ==
    /\ Leave(IF failure \in Swallows[source] THEN "nil" ELSE "error")
    /\ hidden' = (hidden \/ (failure = "timeout" /\ failure \in Swallows[source]))

\* The call fails before its first request.
SetupFails ==
    /\ HasSetup /\ ~running /\ ~lock /\ calls < MaxCalls
    /\ calls' = calls + 1 /\ outcome' = "error"
    /\ types' = {} /\ plan' = <<>> /\ sent' = <<>> /\ gaps' = {}
    /\ hidden' = FALSE /\ cancelled' = FALSE
    /\ UNCHANGED <<World, lock, running, roots, stack, buffer>>

Cancel ==
    /\ running /\ ~cancelled /\ cancelled' = TRUE
    /\ UNCHANGED <<World, Call, roots, stack, buffer, sent, gaps, hidden>>

Close ==
    /\ Cancellable /\ Cancel

Top == stack[Len(stack)]
Below == SubSeq(stack, 1, Len(stack) - 1)
Frame(at, role) ==
    [at |-> at, role |-> role, page |-> 0, size |-> 0, k |-> 0, total |-> 0, done |-> FALSE,
     subs |-> <<>>]
Walking == running /\ stack # <<>>
Replace(frame) == stack' = Append(Below, frame)
AtPageEnd == Walking /\ Top.k = Top.size /\ Top.subs = <<>>
\* A walk that has asked for MaxPages pages of a listing asks for ever: it is stuck.
Asking == AtPageEnd /\ ~Top.done /\ Top.page < MaxPages
AtItem == Walking /\ Top.k < Top.size /\ Top.subs = <<>>
Item == Append(Top.at, [role |-> Top.role, page |-> Top.page, k |-> Top.k + 1])
TopPages == Pages(Top.role, Len(Top.at) + 1)
Possible(failure) ==
    failure \in RequestFailures[source] /\ (failure = "canceled") = cancelled

\* Variant: the page number is not advanced after the first page.
SamePage == IF Top.page = 0 THEN 1 ELSE Top.page
NextPage == Top.page + 1

NextRoot ==
    /\ running /\ stack = <<>> /\ roots # <<>>
    /\ roots' = Tail(roots) /\ stack' = <<Frame(<<>>, Head(roots))>>
    /\ UNCHANGED <<World, Call, cancelled, buffer, sent, gaps, hidden>>

PageArrives(counted) ==
    /\ Asking /\ ~cancelled
    /\ counted \/ (Uncounted /\ Role(Top.role).scheme = "total")
    /\ LET p == NextPage
           n == Len(TopPages)
           size == SizeOf(TopPages, p)
           total == IF counted THEN n ELSE 0
       IN /\ Replace([Top EXCEPT !.page = p, !.size = size, !.k = 0, !.total = total,
                                 !.done = Ends(Role(Top.role).scheme, p, n, size, total)])
          /\ hidden' = (hidden \/ (~counted /\ p < n))
    /\ UNCHANGED <<World, Call, cancelled, roots, buffer, sent, gaps>>

\* A listing at the failed page and after it, or that page only.
Gap(unit) == [at |-> Top.at, role |-> Top.role, page |-> NextPage, unit |-> unit]

PageFails(failure) ==
    /\ Asking /\ Possible(failure)
    /\ failure \notin Role(Top.role).skips
    /\ LeaveOn(failure)
    /\ UNCHANGED gaps

\* Refused at its first page, when the number of pages is unknown, a listing is skipped.
SkipPage(failure) ==
    /\ Asking /\ Possible(failure)
    /\ failure \in Role(Top.role).skips /\ Role(Top.role).unit = "page"
    /\ Replace([Top EXCEPT !.page = NextPage, !.size = 0, !.k = 0,
                           !.done = TotalEndsOnError(NextPage, Top.total)])
    /\ gaps' = gaps \cup {Gap(IF Top.total = 0 THEN "listing" ELSE "page")}
    /\ UNCHANGED <<World, Call, cancelled, roots, buffer, sent, hidden>>

SkipListing(failure) ==
    /\ Asking /\ Possible(failure)
    /\ failure \in Role(Top.role).skips /\ Role(Top.role).unit = "listing"
    /\ stack' = Below
    /\ gaps' = gaps \cup {Gap("listing")}
    /\ UNCHANGED <<World, Call, cancelled, roots, buffer, sent, hidden>>

\* devops decodes the body of a refusal like any other: a JSON object without value and
\* without continuation token is the last page, with nothing on it.
ReadRefusal ==
    /\ source = "devops" /\ Asking /\ ~cancelled
    /\ stack' = Below
    /\ hidden' = TRUE
    /\ UNCHANGED <<World, Call, cancelled, roots, buffer, sent, gaps>>

\* ctx.Err() before a page or an item, ctx.Done() in the select around a send.
StopOnCancel ==
    /\ cancelled
    /\ \/ Asking /\ "page" \in Role(Top.role).checks
       \/ AtItem /\ Role(Top.role).checks \cap {"item", "send"} # {}
    /\ Leave("nil")
    /\ UNCHANGED <<gaps, hidden>>

\* Variant: an item without identifier is sent like the others.
HandleAnyItem ==
    /\ AtItem /\ ~(cancelled /\ "item" \in Role(Top.role).checks)
    /\ Replace([Top EXCEPT !.k = @ + 1])
    /\ sent' = IF Role(Top.role).type \in types THEN Append(sent, Item) ELSE sent
    /\ UNCHANGED <<World, Call, cancelled, roots, gaps, hidden, buffer>>

\* A required detail was fetched, an optional one fetched or given up.
HandleItem ==
    /\ AtItem /\ ~(cancelled /\ "item" \in Role(Top.role).checks) /\ ~Fatal(Item)
    /\ (Role(Top.role).detail = "required" /\ cancelled /\ ~Skipped(Item))
         => "canceled" \in Role(Top.role).skips
    /\ IF Skipped(Item)
       THEN /\ Replace([Top EXCEPT !.k = @ + 1])
            /\ UNCHANGED <<buffer, sent>>
       ELSE /\ Replace([Top EXCEPT !.k = @ + 1, !.subs = Subs(Item)])
            /\ LET out == IF Role(Top.role).type \in types THEN <<Item>> ELSE <<>>
               IN IF Buffers
                  THEN buffer' = buffer \o out /\ UNCHANGED sent
                  ELSE sent' = sent \o out /\ UNCHANGED buffer
    /\ UNCHANGED <<World, Call, cancelled, roots, gaps, hidden>>

DetailFails(failure) ==
    /\ AtItem /\ Role(Top.role).detail = "required" /\ ~Skipped(Item) /\ ~Fatal(Item)
    /\ Possible(failure) /\ failure \notin Role(Top.role).skips
    /\ LeaveOn(failure)
    /\ UNCHANGED gaps

\* A failed type assertion ends the process.  The nil configuration of a cancelled
\* request has no services either: the assertion fails if services are asked for.
Panics ==
    /\ AtItem
    /\ \/ Fatal(Item)
       \/ Role(Top.role).anon = "panic" /\ Role(Top.role).detail = "required" /\ cancelled
    /\ Leave("panic")
    /\ UNCHANGED <<gaps, hidden>>

EnterSub ==
    /\ Walking /\ Top.subs # <<>>
    /\ LET item == Append(Top.at, [role |-> Top.role, page |-> Top.page, k |-> Top.k])
       IN stack' = Append(Append(Below, [Top EXCEPT !.subs = Tail(@)]),
                          Frame(item, Head(Top.subs)))
    /\ UNCHANGED <<World, Call, cancelled, roots, buffer, sent, gaps, hidden>>

ListingDone ==
    /\ AtPageEnd /\ Top.done /\ stack' = Below
    /\ UNCHANGED <<World, Call, cancelled, roots, buffer, sent, gaps, hidden>>

Flush ==
    /\ running /\ stack = <<>> /\ roots = <<>> /\ buffer # <<>>
    /\ sent' = Append(sent, Head(buffer)) /\ buffer' = Tail(buffer)
    /\ UNCHANGED <<World, Call, cancelled, roots, stack, gaps, hidden>>

Return ==
    /\ running /\ stack = <<>> /\ roots = <<>> /\ buffer = <<>>
    /\ Leave("nil")
    /\ UNCHANGED <<gaps, hidden>>

Step ==
    \/ NextRoot \/ StopOnCancel \/ HandleItem \/ Panics \/ EnterSub \/ ListingDone
    \/ ReadRefusal \/ Flush \/ Return
    \/ \E counted \in BOOLEAN : PageArrives(counted)
    \/ \E f \in Failures : PageFails(f) \/ SkipPage(f) \/ SkipListing(f) \/ DetailFails(f)

Next ==
    \/ \E ts \in SUBSET KnownTypes(source) : \E order \in Plans(source, ts) :
          StartSyncProcess(ts, order)
    \/ TurnAway \/ SetupFails \/ Cancel \/ Close \/ Step

Spec == Init /\ [][Next]_vars

\* At a plain send after the cancellation: the mapper has left, and the send blocks unless
\* it was only Close that cancelled the call.  A check of the context does not help when
\* the cancellation comes between the check and the send.
AtLateSend ==
    /\ running /\ cancelled
    /\ \/ /\ AtItem /\ ~Buffers /\ Role(Top.role).type \in types /\ ~Skipped(Item)
          /\ "send" \notin Role(Top.role).checks
       \/ stack = <<>> /\ roots = <<>> /\ buffer # <<>>

\* A request is answered or fails, and the pipeline receives what is sent until the
\* context is cancelled.
FairSpec == Spec /\ WF_vars(Step /\ ~AtLateSend)

-----------------------------------------------------------------------------
(* Properties. *)

Slots(role, depth) ==
    LET pages == Pages(role, depth)
    IN UNION {{[role |-> role, page |-> p, k |-> k] : k \in 1..pages[p]} : p \in 1..Len(pages)}
Below1(item) ==
    IF Skipped(item) THEN {}
    ELSE UNION {{Append(item, s) : s \in Slots(Subs(item)[n], Len(item) + 1)} :
                n \in 1..Len(Subs(item))}
\* The items the call has to send, to the deepest nesting there is (three).
Due ==
    LET one == UNION {{<<s>> : s \in Slots(plan[n], 1)} : n \in 1..Len(plan)}
        two == UNION {Below1(i) : i \in one}
        three == UNION {Below1(i) : i \in two}
    IN {i \in one \cup two \cup three : RoleOf(i).type \in types /\ ~Skipped(i)}

Lies(item, gap) ==
    LET d == Len(gap.at)
    IN /\ Len(item) > d /\ SubSeq(item, 1, d) = gap.at /\ item[d + 1].role = gap.role
       /\ IF gap.unit = "page" THEN item[d + 1].page = gap.page
          ELSE item[d + 1].page >= gap.page
Missing == {i \in Due : \A n \in 1..Len(sent) : sent[n] # i}
Ended == ~running /\ outcome # "none"

\* Types: what is sent is what was asked for, and the walk stays inside its listings.
TypeOK ==
    /\ lock \in BOOLEAN /\ running \in BOOLEAN /\ cancelled \in BOOLEAN /\ hidden \in BOOLEAN
    /\ outcome \in {"none", "nil", "error", "panic"} /\ calls \in 0..MaxCalls
    /\ types \subseteq KnownTypes(source)
    /\ sent \in Seq(Due) /\ buffer \in Seq(Due)
    /\ \A n \in 1..Len(stack) : stack[n].k <= stack[n].size /\ Len(stack[n].at) = n - 1

\* A sync that returns nil, was not cancelled and met neither a swallowed timeout, a
\* missing x-total-pages nor (devops) a refusal with a JSON body has sent everything,
\* except for the pages and listings it has logged as skipped: a failure costs exactly the
\* listing or page it hit, and no iterator ends early.
NoSilentGap ==
    Ended /\ outcome = "nil" /\ ~cancelled /\ ~hidden
        => \A i \in Missing : \E g \in gaps : Lies(i, g)

\* The console source collects before it sends: a sync that fails or panics has sent
\* nothing.
AllOrNothing == source = "console" /\ outcome \in {"error", "panic"} => sent = <<>>

\* A cancelled sync is not reported as a failure, wherever the cancellation hits it.
\* gitlab and gcp return the error of the cancelled request.
CancelIsNotAnError ==
    Ended /\ cancelled /\ outcome = "error" => source \in {"gitlab", "gcp"}

\* What StartSyncProcess returns tells what it did: outside the three named cases nil means
\* that everything was sent or logged as skipped, an error is never a mere cancellation
\* (but for gitlab and gcp), and after an error of the console source nothing was sent.
OutcomeIsHonest == NoSilentGap /\ AllOrNothing /\ CancelIsNotAnError

\* No item is sent twice, and none after an item that was listed under it: the pipelines
\* of a repository follow the repository.
ParentFirstOnce ==
    \A m, n \in 1..Len(sent) :
        m < n /\ Len(sent[m]) >= Len(sent[n]) => SubSeq(sent[m], 1, Len(sent[n])) # sent[n]

\* Whatever the requests answer, the walk ends and gives syncLock back: no failed page is
\* asked for for ever, and no later call is turned away, with nil and nothing sent, for a
\* sync that has ended.  console alone never gives its lock back, and a walk that the
\* cancellation finds at a plain send stays there with the lock.
EverySyncReturns ==
    lock ~> \/ ~lock
            \/ source = "console" /\ ~running
            \/ []AtLateSend

\* A sync that returns nil and was not cancelled has sent everything it did not log as
\* skipped ("performs a full synchronisation of the requested resource types").
FullSync ==
    Ended /\ outcome = "nil" /\ ~cancelled
        => \A i \in Missing : \E g \in gaps : Lies(i, g)
===============================================================================
