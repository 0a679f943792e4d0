------------------------------ MODULE Command -------------------------------
(***************************************************************************)
(* One process from its command line to its exit code: ibdm run NAME or    *)
(* ibdm sync NAME.  The flags are turned into options (mapping files and   *)
(* destination), the name is checked, the mappers are loaded, the source   *)
(* is built, the pipeline is started, and events go through Mapping to the *)
(* destination until the pipeline returns.                                 *)
(*                                                                         *)
(* The inputs (arguments, files, environment) are chosen by the step that  *)
(* reads them and forgotten when no later step does.                       *)
(***************************************************************************)
EXTENDS Mapping, Settings

CONSTANT PathLists      \* values of the -f flags, with the files behind them

(* What the files behind the -f flags may hold: lists of finite length, in *)
(* which a document that decodes as a mapping has a name for its type and  *)
(* templates that render one of the outcomes told apart above.             *)
IsList(s) == Len(s) \in Nat /\ DOMAIN s = 1..Len(s)

(* The body of an extra is the YAML of a map with the literal keys         *)
(* sourceRef, targetRef and typeRef (validateExtra, mapper.New), so it     *)
(* renders a map or fails; unlike spec it is never nothing, and never nil. *)
IsExtra(x) ==
    \A v \in Values : /\ x.createIf[v] \in {"always", "true", "false", "error"}
                      /\ x.body[v] \in {"object", "error"}

IsDocument(d) ==
    d.form = "mapping" =>
        /\ d.type \in Types \cup {"none"}
        /\ \A v \in Values : {d.spec[v], d.metadata[v]} \subseteq {"object", "nothing", "error"}
        /\ IsList(d.extras) /\ \A i \in DOMAIN d.extras : IsExtra(d.extras[i])

IsFileContent(f) == IsList(f.docs) /\ \A k \in DOMAIN f.docs : IsDocument(f.docs[k])

ASSUME PathsAssumption ==
    \A ps \in PathLists :
        /\ IsList(ps)
        /\ \A i \in DOMAIN ps :
              /\ IsFileContent(ps[i]) /\ IsList(ps[i].entries)
              /\ \A j \in DOMAIN ps[i].entries : IsFileContent(ps[i].entries[j])

ASSUME BoundAssumption == MaxEvents \in Nat

VARIABLES
    phase,      \* "flags", "options", "validated", "mapped", "built",
                \* "running" or "exited"
    paths,      \* options.mappingPaths
    dest,       \* "none", "writer" or "catalog"
    creds,      \* endpoint and credentials of the catalogDestination
    transport,  \* the client getClient keeps: "none" until it is built
    sentAs,     \* how the last request to the Catalog was authenticated
    name,       \* options.integrationName, until the pipeline runs, or "none"
    mode,       \* "none", "run" or "sync"
    settings,   \* what the source read of the environment
    documented, \* the settings hold what the docs require
    code        \* exit code, -1 while the process lives

commandVars == <<phase, paths, dest, creds, transport, sentAs, name, mode,
                 settings, documented, code>>
vars == <<mappingVars, commandVars>>

NoCreds == [endpoint |-> "unset", id |-> FALSE, secret |-> FALSE, keys |-> FALSE]

TypeOK ==
    /\ phase \in {"flags", "options", "validated", "mapped", "built", "running",
                  "exited"}
    /\ dest \in {"none", "writer", "catalog"}
    /\ creds \in [endpoint : {"unset", "empty", "url"}, id : BOOLEAN,
                  secret : BOOLEAN, keys : BOOLEAN]
    /\ transport \in {"none", "anonymous", "clientCredentials", "jwt"}
    /\ sentAs \in {"none", "anonymous", "clientCredentials", "jwt"}
    /\ name \in SourceNames \cup {"none"} /\ mode \in {"none", "run", "sync"}
    /\ documented \in BOOLEAN /\ code \in {-1, 0, 1}
    /\ DOMAIN mappers \subseteq Types
    /\ event \in Events \cup {NoEvent}
    /\ \A i \in DOMAIN pending : pending[i].entry \in Entries
    /\ DOMAIN store \subseteq Entries
    /\ \A x \in DOMAIN store : store[x] \in Events
    /\ gone \subseteq Types \X Keys /\ events \in 0..MaxEvents
    /\ whole \in BOOLEAN

Init ==
    /\ MappingInit
    /\ phase = "flags" /\ paths = <<>> /\ dest = "none" /\ creds = NoCreds
    /\ transport = "none" /\ sentAs = "none" /\ name = "none" /\ mode = "none"
    /\ settings = {} /\ documented = TRUE /\ code = -1

(* main: an error of the command is exit code 1, nil is 0.  handleError    *)
(* turns errNoArguments into nil after printing the usage.                 *)
Exit(c) ==
    /\ phase' = "exited" /\ code' = c
    /\ UNCHANGED <<mappingVars, paths, dest, creds, transport, sentAs, name, mode,
                   settings, documented>>

-----------------------------------------------------------------------------
(* flags.toOptions: the files are collected first, then the destination is *)
(* built, before the integration name is looked at.                        *)
ToOptions(ps) ==
    /\ phase = "flags"
    /\ IF CollectFails(ps) THEN Exit(1)
       ELSE \/ /\ phase' = "options" /\ paths' = ps /\ dest' = "writer"
               /\ UNCHANGED <<mappingVars, creds, transport, sentAs, name, mode,
                              settings, documented, code>>
            \/ \E env \in CatalogEnvironments :
                 IF NewDestinationFails(env) THEN Exit(1)
                 ELSE /\ phase' = "options" /\ paths' = ps /\ dest' = "catalog"
                      /\ creds' = [endpoint |-> env.endpoint, id |-> env.id,
                                   secret |-> env.secret, keys |-> env.key = "pem"]
                      /\ UNCHANGED <<mappingVars, transport, sentAs, name, mode,
                                     settings, documented, code>>

(* options.validate: both commands offer the same nine names.  Then        *)
(* executeEventStream or executeSync takes the lock of the options, which  *)
(* nobody else holds.                                                      *)
Validate(n, m) ==
    /\ phase = "options"
    /\ IF n = "none" THEN Exit(0)
       ELSE IF n \notin SourceNames THEN Exit(1)
       ELSE /\ phase' = "validated" /\ name' = n /\ mode' = m
            /\ UNCHANGED <<mappingVars, paths, dest, creds, transport, sentAs,
                           settings, documented, code>>

(* The first half of options.pipeline. *)
Load ==
    /\ phase = "validated"
    /\ IF LoadFails(paths) THEN Exit(1)
       ELSE /\ phase' = "mapped"
            /\ mappers' = LoadMappers(paths)
            /\ paths' = <<>>
            /\ UNCHANGED <<event, pending, whole, store, gone, events, dest, creds,
                           transport, sentAs, name, mode, settings, documented, code>>

(* The second half: sourceFromIntegrationName. *)
NewSource(env) ==
    /\ phase = "mapped"
    /\ IF NewSourceFails(name, env) THEN Exit(1)
       ELSE /\ phase' = "built" /\ settings' = env
            /\ UNCHANGED <<mappingVars, paths, dest, creds, transport, sentAs, name,
                           mode, documented, code>>

(* Pipeline.Start builds the server (the port must be in range) and starts *)
(* the stream or the webhook; Pipeline.Sync starts the sync process.       *)
StartPipeline(port) ==
    /\ phase = "built"
    /\ IF \/ mode = "run" /\ (PortFails(port) \/ StreamFails(name, settings))
          \/ mode = "sync" /\ SyncFails(name, settings)
         THEN Exit(1)
         ELSE /\ phase' = "running"
              /\ documented' = Documented(name, mode, settings)
              /\ name' = "none" /\ mode' = "none" /\ settings' = {}
              /\ UNCHANGED <<mappingVars, paths, dest, creds, transport, sentAs, code>>

-----------------------------------------------------------------------------
ReceiveEvent(e) == phase = "running" /\ Receive(e) /\ UNCHANGED commandVars

(* getClient: the transport is built by the first request and kept; a      *)
(* request that cannot build it fails and leaves it to the next one.       *)
GetClient(t) ==
    IF transport # "none" THEN t = transport
    ELSE t \in NewTransport(creds)

(* SendData and DeleteData of the destination: the Catalog posts with the  *)
(* client's authentication, the writer prints.                             *)
Send ==
    /\ phase = "running" /\ DOMAIN pending # {}
    /\ \/ /\ dest = "writer"
          /\ Accepted \/ Rejected(store)
          /\ UNCHANGED <<transport, sentAs>>
       \/ /\ dest = "catalog"
          /\ \E t \in {"anonymous", "clientCredentials", "jwt", "error"} :
                /\ GetClient(t)
                /\ IF t = "error" THEN Rejected(store) /\ UNCHANGED <<transport, sentAs>>
                   ELSE /\ transport' = t
                        /\ IF creds.endpoint = "empty"
                             THEN Rejected(store) /\ UNCHANGED sentAs
                             ELSE /\ sentAs' = t
                                  /\ \/ Accepted
                                     \/ Rejected(store)
                                     \/ Rejected(Apply(store, pending[First], event))
    /\ UNCHANGED <<phase, paths, dest, creds, name, mode, settings, documented, code>>

(* The pipeline returns once the mapper has finished with its event.       *)
PipelineReturns ==
    /\ phase = "running" /\ DOMAIN pending = {}
    /\ \E c \in {0, 1} : Exit(c)

Next ==
    \/ \E ps \in PathLists : ToOptions(ps)
    \/ \E n \in SourceNames \cup {"none", "unknown"}, m \in {"run", "sync"} : Validate(n, m)
    \/ Load
    \/ phase = "mapped" /\ \E env \in SUBSET Facts(name) : NewSource(env)
    \/ \E port \in {-1, 0, 3000, 65536} : StartPipeline(port)
    \/ \E e \in Events : ReceiveEvent(e)
    \/ Send
    \/ PipelineReturns

Spec == Init /\ [][Next]_vars

-----------------------------------------------------------------------------
(* Every request reaches the Catalog with exactly the authentication the   *)
(* environment asked for, and anonymously only when it named no credential *)
(* at all: validateAuthConfig, jwk.LoadKeys and the lazily built transport *)
(* of getClient agree on which of the three it is.                         *)
AuthAsConfigured ==
    /\ sentAs = "clientCredentials" => creds.id /\ creds.secret /\ ~creds.keys
    /\ sentAs = "jwt" => creds.id /\ creds.keys /\ ~creds.secret
    /\ sentAs = "anonymous" => ~creds.id /\ ~creds.secret /\ ~creds.keys

(* A pipeline runs only with the settings docs/how-to lists as required    *)
(* for its source and mode, although three of the sources validate them    *)
(* not when they are built but when they start, and others in two places.  *)
RunsOnlyConfigured == phase = "running" => documented

-----------------------------------------------------------------------------
(* The entries the mapping of an event's type names for its values, from   *)
(* the configuration alone.                                                *)
Names(x, v) == {<<"relationships", x.id[v].text>>}

Written(e) ==
    LET m == mappers[e.type] IN
    {<<m.type, m.id[e.values].text>>} \cup
    UNION {IF (e.op = "upsert" /\ m.extras[i].createIf[e.values] # "false")
              \/ (e.op = "delete" /\ m.extras[i].policy = "cascade")
           THEN Names(m.extras[i], e.values) ELSE {} : i \in DOMAIN m.extras}

(* A template that rendered an identifier, without an error before or      *)
(* after the text.                                                         *)
Rendered(t, v) == ~t[v].fails /\ t[v].text \in Identifiers

(* Every template an event needs rendered: for an upsert the identifier,   *)
(* metadata and spec of the item, every createIf, and the identifier and   *)
(* body of each extra that createIf wants; for a deletion the identifiers  *)
(* of the item and of its cascading extras.                                *)
Clean(e) ==
    LET m == mappers[e.type]
        v == e.values
    IN  /\ Rendered(m.id, v)
        /\ e.op = "upsert" => m.spec[v] # "error" /\ m.metadata[v] # "error"
        /\ \A i \in DOMAIN m.extras :
              LET x == m.extras[i] IN
              /\ e.op = "upsert" =>
                    /\ x.createIf[v] # "error"
                    /\ x.createIf[v] # "false" => Rendered(x.id, v) /\ x.body[v] # "error"
              /\ e.op = "delete" /\ x.policy = "cascade" => Rendered(x.id, v)

(* The Catalog changes only as its events say: an upsert never removes an  *)
(* entry and a deletion never adds one (although the request is the same   *)
(* POST and the operation is derived from a nil map), only entries named   *)
(* by the event's own values change, and nothing changes for an event one  *)
(* of whose templates failed or rendered no valid name, be it the last     *)
(* createIf or body of its extras, however far the mapper had got.         *)
StoreFollowsEvents ==
    [][store' # store =>
          /\ Clean(event)
          /\ \A x \in DOMAIN store \cup DOMAIN store' :
                (x \in DOMAIN store /\ x \in DOMAIN store' => store'[x] = store[x])
                \/ x \in Written(event)
          /\ event.op = "upsert" => DOMAIN store \subseteq DOMAIN store'
          /\ event.op = "delete" => DOMAIN store' \subseteq DOMAIN store]_store

(* The identifiers of an object and of its cascading relationships do not  *)
(* depend on its version.                                                  *)
StableNames(t, k) ==
    LET m == mappers[t]
        stable(f) == \A v, w \in {u \in Values : u.key = k} :
                        f[v].text = f[w].text
    IN  stable(m.id) /\ \A i \in DOMAIN m.extras :
                           m.extras[i].policy = "cascade" => stable(m.extras[i].id)

(* The relationships with deletePolicy none.                               *)
Kept(t, k) ==
    LET m == mappers[t] IN
    UNION {UNION {Names(m.extras[i], v) : v \in {u \in Values : u.key = k}} :
              i \in {j \in DOMAIN m.extras : m.extras[j].policy = "none"}}

(* Once the deletion of an object has been delivered whole, the Catalog    *)
(* holds neither the object nor any relationship with deletePolicy cascade *)
(* that an earlier version of it created, whatever createIf said of each   *)
(* version; provided that the identifiers do not depend on the version (a  *)
(* deletion names only what the deleted version renders).                  *)
NoOrphans ==
    \A x \in DOMAIN store :
        LET e == store[x]
        IN  <<e.type, e.values.key>> \in gone /\ StableNames(e.type, e.values.key)
            => x \in Kept(e.type, e.values.key)
=============================================================================
