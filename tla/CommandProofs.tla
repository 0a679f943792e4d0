--------------------------- MODULE CommandProofs ----------------------------
(***************************************************************************)
(* Two results about a whole process, for every set of mapping files, of   *)
(* types, objects and versions and for any number of events: how requests  *)
(* to the Catalog are authenticated, and with which settings a pipeline    *)
(* runs.                                                                   *)
(***************************************************************************)
EXTENDS Command, WellFoundedInduction, TLAPS

-----------------------------------------------------------------------------
(* The three ways to authenticate, as NewDestination accepts them.         *)
Anonymous(c) == ~c.id /\ ~c.secret /\ ~c.keys
ClientCredentials(c) == c.id /\ c.secret /\ ~c.keys
PrivateKey(c) == c.id /\ ~c.secret /\ c.keys

Fits(t, c) ==
    /\ t = "clientCredentials" => ClientCredentials(c)
    /\ t = "jwt" => PrivateKey(c)
    /\ t = "anonymous" => Anonymous(c)

(* Nothing is built from the credentials before they are read, and what is *)
(* built from them fits them: without the first part the credentials could *)
(* change under a transport that is already there.                         *)
AuthInv ==
    /\ phase = "flags" => transport = "none" /\ sentAs = "none"
    /\ Anonymous(creds) \/ ClientCredentials(creds) \/ PrivateKey(creds)
    /\ Fits(transport, creds)
    /\ Fits(sentAs, creds)

(* validateAuthConfig and LoadKeys leave exactly the three ways.           *)
LEMMA AcceptedCredentials ==
    ASSUME NEW env \in CatalogEnvironments, ~NewDestinationFails(env)
    PROVE  LET c == [endpoint |-> env.endpoint, id |-> env.id,
                     secret |-> env.secret, keys |-> env.key = "pem"]
           IN  Anonymous(c) \/ ClientCredentials(c) \/ PrivateKey(c)
<1> env.id \in BOOLEAN /\ env.secret \in BOOLEAN /\ env.key \in {"unset", "pem", "bad"}
    BY DEF CatalogEnvironments
<1>1. CASE env.key = "unset"
    BY <1>1 DEF NewDestinationFails, AuthConfigFails, Anonymous, ClientCredentials
<1>2. CASE env.key = "pem"
    BY <1>2 DEF NewDestinationFails, AuthConfigFails, PrivateKeyAuthFails, PrivateKey
<1>3. CASE env.key = "bad"
    BY <1>3 DEF NewDestinationFails, LoadKeysFails
<1> QED
    BY <1>1, <1>2, <1>3

(* NewTransport picks the way the credentials are in.                      *)
LEMMA TransportFits ==
    ASSUME NEW c, NEW t \in NewTransport(c),
           Anonymous(c) \/ ClientCredentials(c) \/ PrivateKey(c)
    PROVE  Fits(t, c)
BY DEF NewTransport, Anonymous, ClientCredentials, PrivateKey, Fits

(* Before the flags are read there are no credentials and no transport. *)
LEMMA AuthInit == Init => AuthInv
<1>1. Anonymous(NoCreds)
    BY Zenon DEF NoCreds, Anonymous
<1> QED
    BY <1>1 DEF Init, AuthInv, Fits

(* What a successful toOptions does to the credentials.                    *)
Reads(env) ==
    /\ phase = "flags" /\ phase' = "options"
    /\ ~NewDestinationFails(env)
    /\ creds' = [endpoint |-> env.endpoint, id |-> env.id,
                 secret |-> env.secret, keys |-> env.key = "pem"]
    /\ UNCHANGED <<transport, sentAs>>

Leaves == phase' # "flags" /\ UNCHANGED <<creds, transport, sentAs>>

(* toOptions leaves the credentials alone or reads them from an environment. *)
LEMMA ToOptionsCases ==
    ASSUME NEW ps, ToOptions(ps)
    PROVE  Leaves \/ \E env \in CatalogEnvironments : Reads(env)
<1>1. CASE CollectFails(ps)
    BY <1>1 DEF ToOptions, Exit, Leaves
<1>2. CASE ~CollectFails(ps)
    <2>1. CASE phase' = "options" /\ UNCHANGED <<creds, transport, sentAs>>
        BY <2>1 DEF Leaves
    <2>2. CASE \E env \in CatalogEnvironments :
                  IF NewDestinationFails(env) THEN Exit(1)
                  ELSE /\ phase' = "options"
                       /\ creds' = [endpoint |-> env.endpoint, id |-> env.id,
                                    secret |-> env.secret, keys |-> env.key = "pem"]
                       /\ UNCHANGED <<transport, sentAs>>
        <3>1. PICK env \in CatalogEnvironments :
                  IF NewDestinationFails(env) THEN Exit(1)
                  ELSE /\ phase' = "options"
                       /\ creds' = [endpoint |-> env.endpoint, id |-> env.id,
                                    secret |-> env.secret, keys |-> env.key = "pem"]
                       /\ UNCHANGED <<transport, sentAs>>
            BY <2>2, Zenon
        <3>2. CASE NewDestinationFails(env)
            BY <3>1, <3>2 DEF Exit, Leaves
        <3>3. CASE ~NewDestinationFails(env)
            BY <3>1, <3>3, Zenon DEF ToOptions, Reads
        <3> QED
            BY <3>2, <3>3
    <2> QED
        BY <1>2, <2>1, <2>2, Zenon DEF ToOptions
<1> QED
    BY <1>1, <1>2

(* Every step of the command keeps the credentials and the transport in      *)
(* agreement. *)
LEMMA AuthStep == AuthInv /\ [Next]_vars => AuthInv'
<1> SUFFICES ASSUME AuthInv, [Next]_vars PROVE AuthInv'
    OBVIOUS
<1>0. ASSUME Leaves PROVE AuthInv'
    BY <1>0 DEF Leaves, AuthInv, Fits, Anonymous, ClientCredentials, PrivateKey
<1>1. ASSUME NEW ps, ToOptions(ps) PROVE AuthInv'
    <2>1. ASSUME NEW env \in CatalogEnvironments, Reads(env) PROVE AuthInv'
        <3>1. Anonymous(creds') \/ ClientCredentials(creds') \/ PrivateKey(creds')
            BY <2>1, AcceptedCredentials, Zenon DEF Reads
        <3>2. transport' = "none" /\ sentAs' = "none" /\ phase' # "flags"
            BY <2>1 DEF AuthInv, Reads
        <3> QED
            BY <3>1, <3>2 DEF AuthInv, Fits, Anonymous, ClientCredentials, PrivateKey
    <2> QED
        BY <1>0, <1>1, <2>1, ToOptionsCases
<1>2. ASSUME NEW n, NEW m, Validate(n, m) PROVE AuthInv'
    BY <1>2, <1>0 DEF Validate, Exit, Leaves
<1>3. CASE Load
    BY <1>3, <1>0 DEF Load, Exit, Leaves
<1>4. ASSUME NEW env, NewSource(env) PROVE AuthInv'
    BY <1>4, <1>0 DEF NewSource, Exit, Leaves
<1>5. ASSUME NEW port, StartPipeline(port) PROVE AuthInv'
    <2> Leaves
        BY <1>5 DEF StartPipeline, Exit, Leaves
    <2> QED
        BY <1>0
<1>6. ASSUME NEW e, ReceiveEvent(e) PROVE AuthInv'
    BY <1>6 DEF ReceiveEvent, commandVars, AuthInv, Fits, Anonymous, ClientCredentials, PrivateKey
<1>7. CASE Send
    <2>1. CASE UNCHANGED <<transport, sentAs>>
        BY <2>1, <1>7, <1>0 DEF Send, Leaves
    <2>2. CASE \E t : t # "error" /\ GetClient(t) /\ transport' = t /\ sentAs' \in {t, sentAs}
        <3>1. PICK t : t # "error" /\ GetClient(t) /\ transport' = t /\ sentAs' \in {t, sentAs}
            BY <2>2
        <3>2. Fits(t, creds)
            BY <3>1, TransportFits DEF GetClient, AuthInv
        <3> QED
            BY <3>1, <3>2, <1>7 DEF AuthInv, Send, Fits, Anonymous, ClientCredentials, PrivateKey
    <2> QED
        BY <1>7, <2>1, <2>2 DEF Send
<1>8. CASE PipelineReturns
    BY <1>8, <1>0 DEF PipelineReturns, Exit, Leaves
<1>9. CASE UNCHANGED vars
    BY <1>9 DEF vars, commandVars, AuthInv, Fits, Anonymous, ClientCredentials, PrivateKey
<1> QED
    BY <1>1, <1>2, <1>3, <1>4, <1>5, <1>6, <1>7, <1>8, <1>9 DEF Next

(* Every request reaches the Catalog with exactly the authentication the   *)
(* environment asked for, whatever the process did before.                 *)
THEOREM RequestsAuthenticated == Spec => []AuthAsConfigured
<1>1. AuthInv => AuthAsConfigured
    BY DEF AuthInv, AuthAsConfigured, Fits, Anonymous, ClientCredentials, PrivateKey
<1> QED
    BY AuthInit, AuthStep, <1>1, PTL DEF Spec

-----------------------------------------------------------------------------
(* A source that could be built and started has what the pages of          *)
(* docs/how-to require of it in that mode.                                 *)
LEMMA StartedIsDocumented ==
    ASSUME NEW n \in SourceNames, NEW m \in {"run", "sync"}, NEW env,
           ~NewSourceFails(n, env),
           m = "run" => ~StreamFails(n, env),
           m = "sync" => ~SyncFails(n, env)
    PROVE  Documented(n, m, env)
<1>1. CASE n = "azure"
    BY <1>1 DEF Documented, StreamFails, AzureStreamFails, SyncFails
<1>2. CASE n = "azure-devops"
    BY <1>2 DEF Documented, StreamFails, SyncFails
<1>3. CASE n = "bitbucket"
    BY <1>3 DEF Documented, StreamFails, NewSourceFails, BitbucketAccepts
<1>4. CASE n = "console"
    BY <1>4 DEF Documented, StreamFails, NewSourceFails, ConsoleAccepts
<1>5. CASE n = "gcp"
    BY <1>5 DEF Documented, StreamFails, SyncFails
<1>6. CASE n = "github"
    BY <1>6 DEF Documented, StreamFails, NewSourceFails, GithubAccepts
<1>7. CASE n = "gitlab"
    BY <1>7 DEF Documented, StreamFails, NewSourceFails, GitlabAccepts
<1>8. CASE n = "nexus"
    BY <1>8 DEF Documented, NewSourceFails, NexusAccepts
<1>9. CASE n = "sysdig"
    BY <1>9 DEF Documented, StreamFails, NewSourceFails, SysdigAccepts
<1> QED
    BY <1>1, <1>2, <1>3, <1>4, <1>5, <1>6, <1>7, <1>8, <1>9 DEF SourceNames

(* The name, the mode and the settings survive from the step that checked  *)
(* them to the step that starts the pipeline.                              *)
SettingsInv ==
    /\ phase \in {"validated", "mapped", "built"} =>
          name \in SourceNames /\ mode \in {"run", "sync"}
    /\ phase = "built" => ~NewSourceFails(name, settings)
    /\ phase = "running" => documented

(* Every step of the command keeps what was checked of name, mode and settings. *)
LEMMA SettingsStep == SettingsInv /\ [Next]_vars => SettingsInv'
<1> SUFFICES ASSUME SettingsInv, [Next]_vars PROVE SettingsInv'
    OBVIOUS
<1>0. ASSUME NEW c, Exit(c) PROVE SettingsInv'
    BY <1>0 DEF Exit, SettingsInv
<1>1. ASSUME NEW ps, ToOptions(ps) PROVE SettingsInv'
    <2> phase' \in {"options", "exited"}
        BY <1>1 DEF ToOptions, Exit
    <2> QED
        BY DEF SettingsInv
<1>2. ASSUME NEW n, NEW m \in {"run", "sync"}, Validate(n, m) PROVE SettingsInv'
    BY <1>0, <1>2 DEF Validate, SettingsInv
<1>3. CASE Load
    BY <1>0, <1>3 DEF Load, SettingsInv
<1>4. ASSUME NEW env, NewSource(env) PROVE SettingsInv'
    BY <1>0, <1>4 DEF NewSource, SettingsInv
<1>5. ASSUME NEW port, StartPipeline(port) PROVE SettingsInv'
    <2>1. CASE phase' = "running"
        <3>1. /\ mode = "run" => ~StreamFails(name, settings)
              /\ mode = "sync" => ~SyncFails(name, settings)
              /\ documented' = Documented(name, mode, settings)
            BY <1>5, <2>1 DEF StartPipeline, Exit
        <3>2. Documented(name, mode, settings)
            BY <1>5, <3>1, StartedIsDocumented DEF SettingsInv, StartPipeline
        <3> QED
            BY <2>1, <3>1, <3>2 DEF SettingsInv
    <2>2. CASE phase' # "running"
        BY <1>0, <1>5, <2>2 DEF StartPipeline
    <2> QED
        BY <2>1, <2>2
<1>6. ASSUME NEW e, ReceiveEvent(e) PROVE SettingsInv'
    BY <1>6 DEF ReceiveEvent, commandVars, SettingsInv
<1>7. CASE Send
    BY <1>7 DEF Send, SettingsInv
<1>8. CASE PipelineReturns
    BY <1>0, <1>8 DEF PipelineReturns
<1>9. CASE UNCHANGED vars
    BY <1>9 DEF vars, commandVars, SettingsInv
<1> QED
    BY <1>1, <1>2, <1>3, <1>4, <1>5, <1>6, <1>7, <1>8, <1>9 DEF Next

(* No pipeline runs without the settings the documentation requires for    *)
(* its source and mode; the argument does not depend on which variables    *)
(* and defects Facts lists.                                                *)
THEOREM RunsAreConfigured == Spec => []RunsOnlyConfigured
<1>1. Init => SettingsInv
    BY DEF Init, SettingsInv
<1>2. SettingsInv => RunsOnlyConfigured
    BY DEF SettingsInv, RunsOnlyConfigured
<1> QED
    BY <1>1, <1>2, SettingsStep, PTL DEF Spec

-----------------------------------------------------------------------------
(* Sets of numbers have a first element, and bounded ones a last.          *)
LEMMA LeastElement ==
    ASSUME NEW T, T \subseteq Nat, T # {}
    PROVE  \E x \in T : \A y \in T : x <= y
<1> DEFINE R == OpToRel(<, Nat)
<1>1. IsWellFoundedOn(R, Nat)
    BY NatLessThanWellFounded
<1>2. \A x, y \in Nat : y < x => <<y, x>> \in R
    BY DEF OpToRel
<1> HIDE DEF R
<1>3. PICK x \in T : \A y \in T : ~ (<<y, x>> \in R)
    BY <1>1, WFMin
<1>4. ASSUME NEW y \in T PROVE x <= y
    <2>1. ~(y < x)
        BY <1>2, <1>3
    <2>2. x \in Nat /\ y \in Nat
        OBVIOUS
    <2> QED
        BY ONLY <2>1, <2>2, SMT
<1> QED
    BY <1>4

(* A non-empty set of naturals with a bound has a greatest element. *)
LEMMA GreatestElement ==
    ASSUME NEW n \in Nat, NEW T, T \subseteq 0..n, T # {}
    PROVE  \E x \in T : \A y \in T : y <= x
<1> DEFINE U == {z \in Nat : n - z \in T}
<1>1. \A x \in T : n - x \in U
    OBVIOUS
<1>2. PICK z \in U : \A y \in U : z <= y
    BY <1>1, LeastElement, U # {}
<1>3. ASSUME NEW y \in T PROVE y <= n - z
    <2>1. n - y \in U
        BY <1>1
    <2>2. z <= n - y
        BY <1>2, <2>1, Zenon
    <2>3. z \in Nat /\ y \in Nat
        OBVIOUS
    <2> QED
        BY ONLY <2>2, <2>3, n \in Nat, SMT
<1> QED
    BY <1>2, <1>3

(* The payload sent next is one of those that wait.                        *)
LEMMA FirstIsPending ==
    ASSUME DOMAIN pending # {}, DOMAIN pending \subseteq Nat
    PROVE  First \in DOMAIN pending /\ \A i \in DOMAIN pending : First <= i
<1>1. \E x \in DOMAIN pending : \A y \in DOMAIN pending : x <= y
    BY LeastElement
<1> QED
    BY <1>1 DEF First, Min

-----------------------------------------------------------------------------
(* The places of the documents are bounded in each of their three parts.   *)
LEMMA DocumentPlaces ==
    ASSUME NEW ps \in PathLists, NEW d \in Documents(ps)
    PROVE  /\ d = <<d[1], d[2], d[3]>>
           /\ d[1] \in 0..Len(ps) /\ d[2] \in 0..Len(ps[d[1]].entries)
           /\ d[3] \in 0..Len(FileAt(ps, d[1], d[2]).docs)
           /\ Len(ps) \in Nat /\ Len(ps[d[1]].entries) \in Nat
           /\ Len(FileAt(ps, d[1], d[2]).docs) \in Nat
           /\ IsDocument(DocumentAt(ps, d))
<1>1. PICK f \in CollectPaths(ps) :
            \E k \in DOMAIN FileAt(ps, f[1], f[2]).docs : d = <<f[1], f[2], k>>
    BY DEF Documents
<1>2. PICK k \in DOMAIN FileAt(ps, f[1], f[2]).docs : d = <<f[1], f[2], k>>
    BY <1>1
<1>3. PICK i \in DOMAIN ps : \E j \in FilesOf(ps[i]) : f = <<i, j>>
    BY DEF CollectPaths
<1>4. PICK j \in FilesOf(ps[i]) : f = <<i, j>>
    BY <1>3
<1>5. /\ IsList(ps) /\ IsFileContent(ps[i]) /\ IsList(ps[i].entries)
      /\ \A h \in DOMAIN ps[i].entries : IsFileContent(ps[i].entries[h])
    BY PathsAssumption
<1>6. i \in 0..Len(ps) /\ Len(ps) \in Nat /\ Len(ps[i].entries) \in Nat
    BY <1>5 DEF IsList
<1>7. j = 0 \/ j \in DOMAIN ps[i].entries
    BY <1>4 DEF FilesOf
<1>8. j \in 0..Len(ps[i].entries) /\ IsFileContent(FileAt(ps, i, j))
    <2>1. CASE j = 0
        BY <1>5, <1>6, <2>1 DEF FileAt
    <2>2. CASE j # 0
        BY <1>5, <1>6, <1>7, <2>2 DEF FileAt, IsList
    <2> QED
        BY <2>1, <2>2
<1>9. d = <<i, j, k>> /\ k \in DOMAIN FileAt(ps, i, j).docs
    BY <1>2, <1>4
<1>10. Len(FileAt(ps, i, j).docs) \in Nat /\ k \in 0..Len(FileAt(ps, i, j).docs)
    BY <1>8, <1>9 DEF IsFileContent, IsList
<1>11. IsDocument(DocumentAt(ps, d))
    BY <1>8, <1>9 DEF IsFileContent, DocumentAt
<1> QED
    BY <1>6, <1>8, <1>9, <1>10, <1>11

(* Of documents that were read, one was read last: the loop over them has  *)
(* a result for every type it met.                                         *)
LEMMA LastIsRead ==
    ASSUME NEW ps \in PathLists, NEW S, S \subseteq Documents(ps), S # {}
    PROVE  LastOf(S) \in S
<1> DEFINE A == {d[1] : d \in S}
<1>1. A \subseteq 0..Len(ps) /\ Len(ps) \in Nat /\ A # {}
    BY DocumentPlaces
<1>2. PICK a \in A : \A y \in A : y <= a
    BY <1>1, GreatestElement
<1> DEFINE B == {d[2] : d \in {e \in S : e[1] = a}}
<1>3. B \subseteq 0..Len(ps[a].entries) /\ Len(ps[a].entries) \in Nat /\ B # {}
    BY <1>2, DocumentPlaces
<1>4. PICK b \in B : \A y \in B : y <= b
    BY <1>3, GreatestElement
<1> DEFINE C == {d[3] : d \in {e \in S : e[1] = a /\ e[2] = b}}
<1>5. /\ C \subseteq 0..Len(FileAt(ps, a, b).docs)
      /\ Len(FileAt(ps, a, b).docs) \in Nat /\ C # {}
    BY <1>4, DocumentPlaces
<1>6. PICK c \in C : \A y \in C : y <= c
    BY <1>5, GreatestElement
<1>7. PICK d \in S : d[1] = a /\ d[2] = b /\ d[3] = c
    BY <1>6
<1>8. ASSUME NEW e \in S PROVE d = e \/ ReadBefore(e, d)
    <2>1. /\ e = <<e[1], e[2], e[3]>> /\ d = <<d[1], d[2], d[3]>>
          /\ e[1] \in Nat /\ e[2] \in Nat /\ e[3] \in Nat
          /\ d[1] \in Nat /\ d[2] \in Nat /\ d[3] \in Nat
        BY DocumentPlaces
    <2>2. e[1] <= d[1]
        BY <1>2, <1>7
    <2>3. e[1] = d[1] => e[2] <= d[2]
        BY <1>4, <1>7
    <2>4. e[1] = d[1] /\ e[2] = d[2] => e[3] <= d[3]
        BY <1>6, <1>7
    <2>5. e[1] = d[1] /\ e[2] = d[2] /\ e[3] = d[3] => d = e
        BY ONLY <2>1
    <2> QED
        BY ONLY <2>1, <2>2, <2>3, <2>4, <2>5 DEF ReadBefore
<1> QED
    BY <1>8, Zenon DEF LastOf

-----------------------------------------------------------------------------
(* The properties speak of the mapping of an event's type; here the        *)
(* mapping is a parameter, so that a step that keeps the mappers keeps     *)
(* what is said about them.                                                *)
UsedBy(m, e, i) ==
    \/ e.op = "upsert" /\ m.extras[i].createIf[e.values] # "false"
    \/ e.op = "delete" /\ m.extras[i].policy = "cascade"

Writes(m, e, x) ==
    \/ x = <<m.type, m.id[e.values].text>>
    \/ \E i \in DOMAIN m.extras :
          UsedBy(m, e, i) /\ x = <<"relationships", m.extras[i].id[e.values].text>>

Renders(m, e) ==
    /\ Rendered(m.id, e.values)
    /\ e.op = "upsert" => m.spec[e.values] # "error" /\ m.metadata[e.values] # "error"
    /\ \A i \in DOMAIN m.extras :
          /\ UsedBy(m, e, i) => Rendered(m.extras[i].id, e.values)
          /\ e.op = "upsert" =>
                /\ m.extras[i].createIf[e.values] # "error"
                /\ UsedBy(m, e, i) => m.extras[i].body[e.values] # "error"

Stable(m, k) ==
    \A v, w \in Values : v.key = k /\ w.key = k =>
        /\ m.id[v].text = m.id[w].text
        /\ \A i \in DOMAIN m.extras : m.extras[i].policy = "cascade" =>
              m.extras[i].id[v].text = m.extras[i].id[w].text

Keeps(m, k, x) ==
    \E i \in DOMAIN m.extras, v \in Values :
        /\ m.extras[i].policy = "none" /\ v.key = k
        /\ x = <<"relationships", m.extras[i].id[v].text>>

(* What an event may write, by the mapper of its type. *)
LEMMA WrittenIsWrites ==
    ASSUME NEW e, NEW x
    PROVE  x \in Written(e) <=> Writes(mappers[e.type], e, x)
<1> DEFINE m == mappers[e.type]
           N(i) == IF (e.op = "upsert" /\ m.extras[i].createIf[e.values] # "false")
                      \/ (e.op = "delete" /\ m.extras[i].policy = "cascade")
                   THEN Names(m.extras[i], e.values) ELSE {}
<1>1. x \in Written(e) <=> \/ x = <<m.type, m.id[e.values].text>>
                           \/ \E i \in DOMAIN m.extras : x \in N(i)
    BY Zenon DEF Written
<1>2. ASSUME NEW i
      PROVE  x \in N(i) <=>
                UsedBy(m, e, i) /\ x = <<"relationships", m.extras[i].id[e.values].text>>
    BY Zenon DEF UsedBy, Names
<1> HIDE DEF N
<1> QED
    BY <1>1, <1>2, Zenon DEF Writes

(* An event whose templates all render, by the mapper of its type. *)
LEMMA RenderedIsClean ==
    ASSUME NEW e, Renders(mappers[e.type], e) PROVE Clean(e)
<1> DEFINE m == mappers[e.type]
           v == e.values
<1>1. /\ Rendered(m.id, v)
      /\ e.op = "upsert" => m.spec[v] # "error" /\ m.metadata[v] # "error"
    BY Zenon DEF Renders
<1>2. ASSUME NEW i \in DOMAIN m.extras
      PROVE  /\ e.op = "upsert" =>
                   /\ m.extras[i].createIf[v] # "error"
                   /\ m.extras[i].createIf[v] # "false" =>
                         Rendered(m.extras[i].id, v) /\ m.extras[i].body[v] # "error"
             /\ e.op = "delete" /\ m.extras[i].policy = "cascade" =>
                   Rendered(m.extras[i].id, v)
    BY Zenon DEF Renders, UsedBy
<1> HIDE DEF m, v
<1> QED
    BY <1>1, <1>2, Zenon DEF Clean, m, v

(* A key whose names do not depend on the other values, by the mapper. *)
LEMMA StableNamesIsStable ==
    ASSUME NEW t, NEW k, StableNames(t, k) PROVE Stable(mappers[t], k)
<1> DEFINE m == mappers[t]
           U == {u \in Values : u.key = k}
<1>1. /\ \A v, w \in U : m.id[v].text = m.id[w].text
      /\ \A i \in DOMAIN m.extras : m.extras[i].policy = "cascade" =>
            \A v, w \in U : m.extras[i].id[v].text = m.extras[i].id[w].text
    BY DEF StableNames
<1>2. \A v \in Values : v.key = k => v \in U
    OBVIOUS
<1> HIDE DEF U, m
<1>3. \A v, w \in Values : v.key = k /\ w.key = k =>
        /\ m.id[v].text = m.id[w].text
        /\ \A i \in DOMAIN m.extras : m.extras[i].policy = "cascade" =>
              m.extras[i].id[v].text = m.extras[i].id[w].text
    BY <1>1, <1>2, Zenon
<1> QED
    BY <1>3, Zenon DEF Stable, m

(* The relationships a deletion leaves in the catalog, by the mapper. *)
LEMMA KeptIsKeeps ==
    ASSUME NEW t, NEW k, NEW x, Keeps(mappers[t], k, x) PROVE x \in Kept(t, k)
<1> DEFINE m == mappers[t]
<1>1. PICK i \in DOMAIN m.extras, v \in Values :
            /\ m.extras[i].policy = "none" /\ v.key = k
            /\ x = <<"relationships", m.extras[i].id[v].text>>
    BY Zenon DEF Keeps
<1>2. x \in Names(m.extras[i], v)
    BY <1>1, Zenon DEF Names
<1>3. v \in {u \in Values : u.key = k} /\ i \in {j \in DOMAIN m.extras : m.extras[j].policy = "none"}
    BY <1>1, Zenon
<1>4. x \in UNION {Names(m.extras[i], u) : u \in {u \in Values : u.key = k}}
    BY <1>2, <1>3, Zenon
<1> QED
    BY <1>3, <1>4 DEF Kept

-----------------------------------------------------------------------------
(* What loading leaves behind: for each type a mapping of that type, with  *)
(* one of the two delete policies for each extra.                          *)
IsMapper(m, t) ==
    /\ m.type = t /\ t \in Types
    /\ \A v \in Values : {m.spec[v], m.metadata[v]} \subseteq {"object", "nothing", "error"}
    /\ DOMAIN m.extras \subseteq Nat \ {0}
    /\ \A i \in DOMAIN m.extras : IsExtra(m.extras[i])
    /\ \A i \in DOMAIN m.extras : m.extras[i].policy \in {"none", "cascade"}

(* A mapper that was loaded is one the configuration may hold. *)
LEMMA LoadedMappers ==
    ASSUME NEW ps \in PathLists, ~LoadFails(ps), NEW t \in DOMAIN LoadMappers(ps)
    PROVE  IsMapper(LoadMappers(ps)[t], t)
<1> DEFINE S == ConfigsOf(ps, t)
           d == DocumentAt(ps, LastOf(S))
<1>1. t \in {DocumentAt(ps, q).type : q \in Configs(ps)} /\ LoadMappers(ps)[t] = d
    BY DEF LoadMappers
<1>2. S # {} /\ S \subseteq Documents(ps)
    BY <1>1 DEF ConfigsOf, Configs
<1>3. LastOf(S) \in S
    BY <1>2, LastIsRead
<1>4. d.type = t /\ d.form = "mapping" /\ LastOf(S) \in Documents(ps)
    BY <1>3 DEF ConfigsOf, Configs, IsMapping
<1>5. ~DocumentFails(d)
    BY <1>4 DEF LoadFails
<1>6. IsDocument(d)
    BY <1>4, DocumentPlaces
<1>7. t \in Types
    BY <1>4, <1>5, <1>6 DEF IsDocument, DocumentFails
<1>8. \A i \in DOMAIN d.extras : d.extras[i].policy \in {"none", "cascade"}
    BY <1>4, <1>5 DEF DocumentFails, ExtraValid
<1>9. DOMAIN d.extras \subseteq Nat \ {0}
    BY <1>4, <1>6 DEF IsDocument, IsList
<1>10. /\ \A v \in Values : {d.spec[v], d.metadata[v]} \subseteq {"object", "nothing", "error"}
       /\ \A i \in DOMAIN d.extras : IsExtra(d.extras[i])
    BY <1>4, <1>6 DEF IsDocument
<1> HIDE DEF d
<1> QED
    BY <1>1, <1>4, <1>7, <1>8, <1>9, <1>10 DEF IsMapper

-----------------------------------------------------------------------------
(* The inductive invariant of the delivery, in the parts the properties    *)
(* need of each other.  Nothing is delivered before the mappers are there, *)
(* and they stay.                                                          *)
LoadedInv ==
    /\ phase \in {"flags", "options", "validated"} =>
          DOMAIN pending = {} /\ DOMAIN store = {} /\ gone = {}
    /\ phase \in {"options", "validated"} => paths \in PathLists
    /\ \A t \in DOMAIN mappers : IsMapper(mappers[t], t)

(* What waits to be sent was rendered, without an error, from the event    *)
(* that is being delivered, and means what the event means.                *)
EventInv ==
    DOMAIN pending # {} =>
        /\ event \in Events /\ event.type \in DOMAIN mappers
        /\ Renders(mappers[event.type], event)
        /\ <<event.type, event.values.key>> \notin gone
        /\ DOMAIN pending \subseteq Nat
        /\ \A i \in DOMAIN pending :
              /\ pending[i].entry \in Entries
              /\ Writes(mappers[event.type], event, pending[i].entry)
              /\ pending[i].data = "nil" <=> event.op = "delete"

(* Each entry of the Catalog was written by an upsert that names it.       *)
StoreInv ==
    \A x \in DOMAIN store :
        /\ x \in Entries /\ store[x] \in Events /\ store[x].op = "upsert"
        /\ store[x].type \in DOMAIN mappers
        /\ Writes(mappers[store[x].type], store[x], x)

(* An entry of the object (t, k) that a deletion of it has to remove.      *)
Cascading(t, k, x) ==
    /\ store[x].type = t /\ store[x].values.key = k
    /\ Stable(mappers[t], k) /\ ~Keeps(mappers[t], k, x)

OrphansInv ==
    \A x \in DOMAIN store, t \in Types, k \in Keys :
        <<t, k>> \in gone => ~Cascading(t, k, x)

(* While a deletion goes through, what it still has to remove waits to be  *)
(* sent: this is what OrphansInv needs when the last payload is accepted.  *)
DeletionInv ==
    DOMAIN pending # {} /\ event.op = "delete" /\ whole =>
        \A x \in DOMAIN store : Cascading(event.type, event.values.key, x) =>
            \E i \in DOMAIN pending : pending[i].entry = x

DeliveryInv ==
    /\ LoadedInv /\ EventInv /\ StoreInv /\ OrphansInv /\ DeletionInv
    /\ gone \subseteq Types \X Keys

-----------------------------------------------------------------------------
(* Templates that rendered: the payloads of an upsert.                     *)
LEMMA UpsertPayloads ==
    ASSUME NEW m, NEW t, IsMapper(m, t), NEW e \in Events, e.op = "upsert",
           ~ApplyTemplatesFails(m, e.values)
    PROVE  /\ Renders(m, e)
           /\ DOMAIN ApplyTemplates(m, e.values) \subseteq Nat
           /\ \A i \in DOMAIN ApplyTemplates(m, e.values) :
                 LET p == ApplyTemplates(m, e.values)[i] IN
                 p.entry \in Entries /\ Writes(m, e, p.entry) /\ p.data # "nil"
<1> DEFINE v == e.values
           P == ApplyTemplates(m, v)
           S == {Item} \cup {j \in DOMAIN m.extras : CreateIf(m.extras[j], v)}
<1>1. v \in Values
    BY DEF Events
<1>2. /\ ~m.id[v].fails /\ m.id[v].text \in Identifiers
      /\ m.spec[v] \in {"object", "nothing"} /\ m.metadata[v] # "error"
    BY <1>1 DEF ApplyTemplatesFails, IdentifierFails, RenderMap, IsMapper
<1>3. ASSUME NEW i \in DOMAIN m.extras
      PROVE  /\ m.extras[i].createIf[v] # "error"
             /\ UsedBy(m, e, i) => CreateIf(m.extras[i], v)
             /\ CreateIf(m.extras[i], v) =>
                   /\ UsedBy(m, e, i)
                   /\ ~m.extras[i].id[v].fails /\ m.extras[i].id[v].text \in Identifiers
                   /\ m.extras[i].body[v] = "object"
    <2>1. ~ExtraFails(m.extras[i], v) /\ IsExtra(m.extras[i])
        BY DEF ApplyTemplatesFails, IsMapper
    <2>2. /\ m.extras[i].createIf[v] \in {"always", "true", "false"}
          /\ m.extras[i].body[v] \in {"object", "error"}
        BY <1>1, <2>1 DEF ExtraFails, IsExtra
    <2>3. CreateIf(m.extras[i], v) <=> UsedBy(m, e, i)
        BY <2>2 DEF CreateIf, UsedBy
    <2> QED
        BY <2>1, <2>2, <2>3 DEF ExtraFails, IdentifierFails
<1>4. Renders(m, e)
    BY <1>2, <1>3 DEF Renders, Rendered
<1>5. /\ DOMAIN P = S
      /\ \A i \in S : P[i].entry = EntryOf(m, v, i) /\ P[i].data = DataOf(m, v, i)
    BY DEF ApplyTemplates
<1> HIDE DEF P
<1>6. S \subseteq Nat
    BY DEF IsMapper, Item
<1>7. ASSUME NEW i \in S
      PROVE  P[i].entry \in Entries /\ Writes(m, e, P[i].entry) /\ P[i].data # "nil"
    <2>1. P[i].entry = EntryOf(m, v, i) /\ P[i].data = DataOf(m, v, i)
        BY <1>5
    <2>2. CASE i = Item
        <3>1. EntryOf(m, v, i) = <<m.type, m.id[v].text>> /\ DataOf(m, v, i) # "nil"
            BY <1>2, <2>2 DEF EntryOf, DataOf, Identifier, RenderMap
        <3>2. m.type \in Types
            BY DEF IsMapper
        <3> QED
            BY <1>2, <2>1, <3>1, <3>2 DEF Writes, Entries
    <2>3. CASE i # Item
        <3>1. i \in DOMAIN m.extras /\ CreateIf(m.extras[i], v)
            BY <2>3
        <3>2. /\ EntryOf(m, v, i) = <<"relationships", m.extras[i].id[v].text>>
              /\ DataOf(m, v, i) = "object"
            BY <1>3, <2>3, <3>1 DEF EntryOf, DataOf, Identifier
        <3> QED
            BY <1>3, <2>1, <3>1, <3>2 DEF Writes, Entries
    <2> QED
        BY <2>2, <2>3
<1> QED
    BY <1>4, <1>5, <1>6, <1>7 DEF P

(* The payloads of a deletion. *)
LEMMA DeletePayloads ==
    ASSUME NEW m, NEW t, IsMapper(m, t), NEW e \in Events, e.op = "delete",
           ~ApplyIdentifierFails(m, e.values)
    PROVE  /\ Renders(m, e)
           /\ DOMAIN ApplyIdentifierTemplate(m, e.values) \subseteq Nat
           /\ \A i \in DOMAIN ApplyIdentifierTemplate(m, e.values) :
                 LET p == ApplyIdentifierTemplate(m, e.values)[i] IN
                 p.entry \in Entries /\ Writes(m, e, p.entry) /\ p.data = "nil"
           /\ \A f \in Events : \A x :
                 /\ f.op = "upsert" /\ f.values.key = e.values.key /\ Writes(m, f, x)
                 /\ Stable(m, e.values.key) /\ ~Keeps(m, e.values.key, x)
                 => \E i \in DOMAIN ApplyIdentifierTemplate(m, e.values) :
                       ApplyIdentifierTemplate(m, e.values)[i].entry = x
<1> DEFINE v == e.values
           P == ApplyIdentifierTemplate(m, v)
           S == {Item} \cup {j \in DOMAIN m.extras : Cascades(m.extras[j])}
<1>1. v \in Values
    BY DEF Events
<1>2. ~m.id[v].fails /\ m.id[v].text \in Identifiers
    BY DEF ApplyIdentifierFails, IdentifierFails
<1>3. ASSUME NEW i \in DOMAIN m.extras
      PROVE  /\ UsedBy(m, e, i) <=> Cascades(m.extras[i])
             /\ Cascades(m.extras[i]) => m.extras[i].policy = "cascade"
             /\ Cascades(m.extras[i]) =>
                   ~m.extras[i].id[v].fails /\ m.extras[i].id[v].text \in Identifiers
    <2>1. m.extras[i].policy \in {"none", "cascade"}
        BY DEF IsMapper
    <2> QED
        BY <2>1 DEF Cascades, UsedBy, ApplyIdentifierFails, IdentifierFails
<1>4. Renders(m, e)
    BY <1>2, <1>3 DEF Renders, Rendered
<1>5. /\ DOMAIN P = S
      /\ \A i \in S : P[i].entry = EntryOf(m, v, i) /\ P[i].data = "nil"
    BY DEF ApplyIdentifierTemplate
<1> HIDE DEF P
<1>6. S \subseteq Nat
    BY DEF IsMapper, Item
<1>7. ASSUME NEW i \in DOMAIN m.extras, Cascades(m.extras[i])
      PROVE  i \in S /\ P[i].entry = <<"relationships", m.extras[i].id[v].text>>
    <2>1. i # Item
        BY DEF IsMapper, Item
    <2> QED
        BY <1>3, <1>5, <1>7, <2>1 DEF EntryOf, Identifier
<1>8. Item \in S /\ P[Item].entry = <<m.type, m.id[v].text>>
    BY <1>2, <1>5 DEF EntryOf, Identifier
<1>9. ASSUME NEW i \in S
      PROVE  P[i].entry \in Entries /\ Writes(m, e, P[i].entry) /\ P[i].data = "nil"
    <2>1. P[i].data = "nil"
        BY <1>5
    <2>2. CASE i = Item
        <3>1. m.type \in Types
            BY DEF IsMapper
        <3> QED
            BY <1>2, <1>8, <2>1, <2>2, <3>1 DEF Writes, Entries
    <2>3. CASE i # Item
        <3>1. i \in DOMAIN m.extras /\ Cascades(m.extras[i])
            BY <2>3
        <3>2. P[i].entry = <<"relationships", m.extras[i].id[v].text>>
            BY <1>7, <3>1
        <3>3. UsedBy(m, e, i) /\ m.extras[i].id[v].text \in Identifiers
            BY <1>3, <3>1
        <3>4. P[i].entry \in Entries
            BY <3>2, <3>3 DEF Entries
        <3>5. Writes(m, e, P[i].entry)
            BY <3>1, <3>2, <3>3, Zenon DEF Writes
        <3> QED
            BY <2>1, <3>4, <3>5
    <2> QED
        BY <2>2, <2>3
<1>10. ASSUME NEW f \in Events, NEW x,
              f.op = "upsert", f.values.key = v.key, Writes(m, f, x),
              Stable(m, v.key), ~Keeps(m, v.key, x)
       PROVE  \E i \in S : P[i].entry = x
    <2>1. f.values \in Values
        BY DEF Events
    <2>2. CASE x = <<m.type, m.id[f.values].text>>
        <3>1. m.id[f.values].text = m.id[v].text
            BY <1>1, <1>10, <2>1 DEF Stable
        <3> QED
            BY <1>8, <2>2, <3>1
    <2>3. CASE \E i \in DOMAIN m.extras : x = <<"relationships", m.extras[i].id[f.values].text>>
        <3>1. PICK i \in DOMAIN m.extras : x = <<"relationships", m.extras[i].id[f.values].text>>
            BY <2>3
        <3>2. m.extras[i].policy # "none"
            BY <1>10, <2>1, <3>1 DEF Keeps
        <3>3. Cascades(m.extras[i]) /\ m.extras[i].policy = "cascade"
            BY <1>3, <3>2 DEF Cascades
        <3>4. m.extras[i].id[f.values].text = m.extras[i].id[v].text
            BY <1>1, <1>10, <2>1, <3>3 DEF Stable
        <3> QED
            BY <1>7, <3>1, <3>3, <3>4
    <2> QED
        BY <1>10, <2>2, <2>3 DEF Writes
<1> QED
    BY <1>4, <1>5, <1>6, <1>9, <1>10 DEF P

-----------------------------------------------------------------------------
(* The Catalog after one request that was answered, refused or lost.       *)
LEMMA AfterSend ==
    ASSUME EventInv, DOMAIN pending # {}, NEW p, p = pending[First],
           store' \in {store, Apply(store, p, event)}
    PROVE  /\ \A x \in DOMAIN store' :
                 \/ x \in DOMAIN store /\ store'[x] = store[x]
                 \/ x = p.entry /\ event.op = "upsert" /\ store'[x] = event
           /\ \A x \in DOMAIN store : x # p.entry => x \in DOMAIN store'
           /\ event.op = "upsert" => DOMAIN store \subseteq DOMAIN store'
           /\ event.op = "delete" => DOMAIN store' \subseteq DOMAIN store
           /\ event.op = "delete" /\ store' = Apply(store, p, event) =>
                 p.entry \notin DOMAIN store'
           /\ First \in DOMAIN pending /\ p.entry \in Entries
           /\ Writes(mappers[event.type], event, p.entry)
<1>1. First \in DOMAIN pending
    BY FirstIsPending DEF EventInv
<1>2. /\ p.entry \in Entries /\ Writes(mappers[event.type], event, p.entry)
      /\ p.data = "nil" <=> event.op = "delete"
      /\ event.op \in {"upsert", "delete"}
    BY <1>1 DEF EventInv, Events
<1>3. CASE store' = store
    <2>1. CASE event.op = "upsert"
        BY <1>1, <1>2, <1>3, <2>1
    <2>2. CASE event.op = "delete" /\ store # Apply(store, p, event)
        BY <1>1, <1>2, <1>3, <2>2
    <2>3. CASE event.op = "delete" /\ store = Apply(store, p, event)
        <3>1. store = [x \in DOMAIN store \ {p.entry} |-> store[x]]
            BY <1>2, <2>3 DEF Apply, Operation
        <3>2. p.entry \notin DOMAIN store
            BY <3>1
        <3> QED
            BY <1>1, <1>2, <1>3, <2>3, <3>2
    <2> QED
        BY <1>2, <2>1, <2>2, <2>3
<1>4. CASE store' = Apply(store, p, event) /\ event.op = "delete"
    <2>1. store' = [x \in DOMAIN store \ {p.entry} |-> store[x]]
        BY <1>2, <1>4 DEF Apply, Operation
    <2> QED
        BY <1>1, <1>2, <1>4, <2>1
<1>5. CASE store' = Apply(store, p, event) /\ event.op = "upsert"
    <2>1. store' = [x \in DOMAIN store \cup {p.entry} |-> IF x = p.entry THEN event ELSE store[x]]
        BY <1>2, <1>5 DEF Apply, Operation
    <2> QED
        BY <1>1, <1>2, <1>5, <2>1
<1> QED
    BY <1>2, <1>3, <1>4, <1>5

(* The two outcomes of a request, together: what the rest of the event and *)
(* the set of deleted objects become.                                      *)
Answered ==
    /\ phase = "running" /\ DOMAIN pending # {}
    /\ \/ /\ store' = Apply(store, pending[First], event)
          /\ pending' = Rest /\ whole' = whole
          /\ gone' = IF DOMAIN Rest = {} /\ event.op = "delete" /\ whole
                       THEN gone \cup {<<event.type, event.values.key>>} ELSE gone
       \/ /\ store' \in {store, Apply(store, pending[First], event)}
          /\ pending' \in {<<>>, Rest}
          /\ whole' = FALSE /\ gone' = gone
    /\ UNCHANGED <<mappers, event, events, phase, paths>>

(* Send applies the part, or not, and keeps or drops what is left of the     *)
(* event. *)
LEMMA SendIsAnswered == Send => Answered
<1> SUFFICES ASSUME Send PROVE Answered
    OBVIOUS
<1>1. Accepted \/ Rejected(store) \/ Rejected(Apply(store, pending[First], event))
    BY DEF Send
<1>2. phase = "running" /\ DOMAIN pending # {} /\ UNCHANGED <<phase, paths>>
    BY DEF Send
<1>3. CASE Accepted
    BY <1>2, <1>3 DEF Accepted, Answered
<1>4. CASE Rejected(store)
    BY <1>2, <1>4 DEF Rejected, Answered
<1>5. CASE Rejected(Apply(store, pending[First], event))
    BY <1>2, <1>5 DEF Rejected, Answered
<1> QED
    BY <1>1, <1>3, <1>4, <1>5

(* An answer of the destination keeps the delivery invariant. *)
LEMMA AnsweredStep ==
    ASSUME DeliveryInv, Answered PROVE DeliveryInv'
<1>1. /\ LoadedInv /\ EventInv /\ StoreInv /\ OrphansInv /\ DeletionInv
      /\ gone \subseteq Types \X Keys
    BY DEF DeliveryInv
<1>2. /\ phase = "running" /\ phase' = "running" /\ DOMAIN pending # {}
      /\ mappers' = mappers /\ event' = event
      /\ store' \in {store, Apply(store, pending[First], event)}
      /\ pending' \in {<<>>, Rest}
      /\ gone' \in {gone, gone \cup {<<event.type, event.values.key>>}}
    BY DEF Answered
<1> PICK p : p = pending[First]
    OBVIOUS
<1>3. /\ \A x \in DOMAIN store' :
            \/ x \in DOMAIN store /\ store'[x] = store[x]
            \/ x = p.entry /\ event.op = "upsert" /\ store'[x] = event
      /\ First \in DOMAIN pending /\ p.entry \in Entries
      /\ Writes(mappers[event.type], event, p.entry)
    BY <1>1, <1>2, AfterSend
<1>4. /\ event \in Events /\ event.type \in DOMAIN mappers
      /\ Renders(mappers[event.type], event)
      /\ <<event.type, event.values.key>> \notin gone
      /\ event.type \in Types /\ event.values.key \in Keys
    BY <1>1, <1>2 DEF EventInv, Events, Values
<1>5. DOMAIN pending' \subseteq DOMAIN pending /\ \A i \in DOMAIN pending' : pending'[i] = pending[i]
    BY <1>2 DEF Rest
<1>6. LoadedInv'
    BY <1>1, <1>2 DEF LoadedInv
<1>7. EventInv'
    <2> SUFFICES ASSUME DOMAIN pending' # {} PROVE EventInv'
        BY DEF EventInv
    <2>1. gone' = gone
        BY DEF Answered
    <2>2. DOMAIN pending' \subseteq Nat
        BY <1>1, <1>2, <1>5 DEF EventInv
    <2>3. \A i \in DOMAIN pending' :
              /\ pending'[i].entry \in Entries
              /\ Writes(mappers[event.type], event, pending'[i].entry)
              /\ pending'[i].data = "nil" <=> event.op = "delete"
        BY <1>1, <1>2, <1>5 DEF EventInv
    <2> QED
        BY <1>2, <1>4, <2>1, <2>2, <2>3 DEF EventInv
<1>8. StoreInv'
    <2> SUFFICES ASSUME NEW x \in DOMAIN store'
                 PROVE  /\ x \in Entries /\ store'[x] \in Events /\ store'[x].op = "upsert"
                        /\ store'[x].type \in DOMAIN mappers'
                        /\ Writes(mappers'[store'[x].type], store'[x], x)
        BY DEF StoreInv
    <2>1. CASE x \in DOMAIN store /\ store'[x] = store[x]
        BY <1>1, <1>2, <2>1 DEF StoreInv
    <2>2. CASE x = p.entry /\ event.op = "upsert" /\ store'[x] = event
        BY <1>2, <1>3, <1>4, <2>2
    <2> QED
        BY <1>3, <2>1, <2>2
<1>9. OrphansInv'
    <2> SUFFICES ASSUME NEW x \in DOMAIN store', NEW t \in Types, NEW k \in Keys,
                        <<t, k>> \in gone', Cascading(t, k, x)'
                 PROVE  FALSE
        BY DEF OrphansInv
    <2>1. /\ store'[x].type = t /\ store'[x].values.key = k
          /\ Stable(mappers[t], k) /\ ~Keeps(mappers[t], k, x)
        BY <1>2 DEF Cascading
    <2>2. CASE x \in DOMAIN store /\ store'[x] = store[x]
        <3>1. Cascading(t, k, x)
            BY <2>1, <2>2 DEF Cascading
        <3>2. <<t, k>> \notin gone
            BY <1>1, <2>2, <3>1 DEF OrphansInv
        <3>3. t = event.type /\ k = event.values.key /\ gone' # gone
            BY <1>2, <3>2
        <3>4. /\ DOMAIN Rest = {} /\ event.op = "delete" /\ whole
              /\ store' = Apply(store, p, event)
            BY <3>3 DEF Answered
        <3>5. \E i \in DOMAIN pending : pending[i].entry = x
            BY <1>1, <1>2, <2>2, <3>1, <3>3, <3>4 DEF DeletionInv
        <3>6. DOMAIN pending \ {First} = {}
            BY <3>4 DEF Rest
        <3>7. x = p.entry
            BY <3>5, <3>6
        <3> QED
            BY <1>1, <1>2, <3>4, <3>7, AfterSend
    <2>3. CASE x = p.entry /\ event.op = "upsert" /\ store'[x] = event
        <3>1. t = event.type /\ k = event.values.key /\ gone' = gone
            BY <2>1, <2>3 DEF Answered
        <3> QED
            BY <1>4, <3>1
    <2> QED
        BY <1>3, <2>2, <2>3
<1>10. DeletionInv'
    <2> SUFFICES ASSUME DOMAIN pending' # {}, event'.op = "delete", whole',
                        NEW x \in DOMAIN store',
                        Cascading(event.type, event.values.key, x)'
                 PROVE  \E i \in DOMAIN pending' : pending'[i].entry = x
        BY DEF DeletionInv
    <2>1. store' = Apply(store, p, event) /\ pending' = Rest /\ whole
        BY DEF Answered
    <2>2. event.op = "delete"
        BY <1>2
    <2>3. x \in DOMAIN store /\ store'[x] = store[x]
        BY <1>3, <2>2
    <2>4. x # p.entry
        BY <1>1, <1>2, <2>1, <2>2, AfterSend
    <2>5. Cascading(event.type, event.values.key, x)
        BY <1>2, <2>3 DEF Cascading
    <2>6. PICK i \in DOMAIN pending : pending[i].entry = x
        BY <1>1, <1>2, <2>1, <2>2, <2>3, <2>5 DEF DeletionInv
    <2>7. i # First
        BY <2>4, <2>6
    <2> QED
        BY <2>1, <2>6, <2>7 DEF Rest
<1>11. gone' \subseteq Types \X Keys
    BY <1>1, <1>2, <1>4
<1> QED
    BY <1>6, <1>7, <1>8, <1>9, <1>10, <1>11 DEF DeliveryInv

-----------------------------------------------------------------------------
(* An event that is dropped leaves no payload behind.                      *)
LEMMA DroppedStep ==
    ASSUME DeliveryInv, DOMAIN pending' = {},
           UNCHANGED <<mappers, store, gone, phase, paths>>
    PROVE  DeliveryInv'
<1>1. LoadedInv' /\ StoreInv' /\ gone' \subseteq Types \X Keys
    BY DEF DeliveryInv, LoadedInv, StoreInv
<1>2. OrphansInv'
    BY DEF DeliveryInv, OrphansInv, Cascading
<1>3. EventInv' /\ DeletionInv'
    BY DEF EventInv, DeletionInv
<1> QED
    BY <1>1, <1>2, <1>3 DEF DeliveryInv

(* An event that renders: its object is no longer one that is gone.        *)
LEMMA TakenStep ==
    ASSUME DeliveryInv, phase = "running", NEW e \in Events,
           e.type \in DOMAIN mappers, event' = e,
           gone' = gone \ {<<e.type, e.values.key>>},
           \/ /\ e.op = "upsert" /\ ~ApplyTemplatesFails(mappers[e.type], e.values)
              /\ pending' = ApplyTemplates(mappers[e.type], e.values)
           \/ /\ e.op = "delete" /\ ~ApplyIdentifierFails(mappers[e.type], e.values)
              /\ pending' = ApplyIdentifierTemplate(mappers[e.type], e.values),
           UNCHANGED <<mappers, store, phase, paths>>
    PROVE  DeliveryInv'
<1> DEFINE m == mappers[e.type]
<1>1. IsMapper(m, e.type)
    BY DEF DeliveryInv, LoadedInv
<1>2. LoadedInv' /\ StoreInv' /\ gone' \subseteq Types \X Keys
    BY DEF DeliveryInv, LoadedInv, StoreInv
<1>3. OrphansInv'
    BY DEF DeliveryInv, OrphansInv, Cascading
<1>4. /\ Renders(m, e) /\ DOMAIN pending' \subseteq Nat
      /\ \A i \in DOMAIN pending' :
            /\ pending'[i].entry \in Entries /\ Writes(m, e, pending'[i].entry)
            /\ pending'[i].data = "nil" <=> e.op = "delete"
    <2>1. CASE e.op = "upsert"
        BY <1>1, <2>1, UpsertPayloads
    <2>2. CASE e.op = "delete"
        BY <1>1, <2>2, DeletePayloads
    <2> QED
        BY <2>1, <2>2
<1>5. EventInv'
    BY <1>4 DEF EventInv
<1>6. DeletionInv'
    <2> SUFFICES ASSUME e.op = "delete", NEW x \in DOMAIN store,
                        Cascading(e.type, e.values.key, x)'
                 PROVE  \E i \in DOMAIN pending' : pending'[i].entry = x
        BY DEF DeletionInv
    <2>1. /\ store[x].type = e.type /\ store[x].values.key = e.values.key
          /\ Stable(m, e.values.key) /\ ~Keeps(m, e.values.key, x)
        BY DEF Cascading
    <2>2. store[x] \in Events /\ store[x].op = "upsert" /\ Writes(m, store[x], x)
        BY <2>1 DEF DeliveryInv, StoreInv
    <2>3. PICK f : f = store[x]
        OBVIOUS
    <2>4. f \in Events /\ f.op = "upsert" /\ f.values.key = e.values.key /\ Writes(m, f, x)
        BY <2>1, <2>2, <2>3
    <2> QED
        BY <1>1, <2>1, <2>4, DeletePayloads
<1> QED
    BY <1>2, <1>3, <1>5, <1>6 DEF DeliveryInv

(* Receiving an event, mapped or dropped, keeps the delivery invariant. *)
LEMMA ReceiveStep ==
    ASSUME DeliveryInv, NEW e \in Events, ReceiveEvent(e) PROVE DeliveryInv'
<1> DEFINE m == mappers[e.type]
           drops == \/ e.type \notin DOMAIN mappers
                    \/ e.op = "upsert" /\ ApplyTemplatesFails(m, e.values)
                    \/ e.op = "delete" /\ ApplyIdentifierFails(m, e.values)
<1>1. phase = "running" /\ UNCHANGED <<mappers, store, phase, paths>>
    BY DEF ReceiveEvent, Receive, commandVars
<1>2. CASE drops
    <2>1. pending' = <<>> /\ gone' = gone
        BY <1>2 DEF ReceiveEvent, Receive
    <2> QED
        BY <1>1, <2>1, DroppedStep
<1>3. CASE ~drops
    <2>1. /\ event' = e /\ gone' = gone \ {<<e.type, e.values.key>>}
          /\ pending' = IF e.op = "upsert" THEN ApplyTemplates(m, e.values)
                        ELSE ApplyIdentifierTemplate(m, e.values)
        BY <1>3 DEF ReceiveEvent, Receive
    <2>2. e.op \in {"upsert", "delete"}
        BY DEF Events
    <2> QED
        BY <1>1, <1>3, <2>1, <2>2, TakenStep
<1> QED
    BY <1>2, <1>3

(* Before the pipeline runs, and when it ends.                             *)
LEMMA OutsideStep ==
    ASSUME DeliveryInv, UNCHANGED <<mappers, event, pending, whole, store, gone>>,
           phase' \in {"flags", "options", "validated"} =>
              phase \in {"flags", "options", "validated"},
           phase' \in {"options", "validated"} => paths' \in PathLists
    PROVE  DeliveryInv'
<1>1. LoadedInv' /\ StoreInv' /\ gone' \subseteq Types \X Keys
    BY DEF DeliveryInv, LoadedInv, StoreInv
<1>2. OrphansInv'
    BY DEF DeliveryInv, OrphansInv, Cascading
<1>3. EventInv'
    BY DEF DeliveryInv, EventInv
<1>4. DeletionInv'
    BY DEF DeliveryInv, DeletionInv, Cascading
<1> QED
    BY <1>1, <1>2, <1>3, <1>4 DEF DeliveryInv

(* The end of the command keeps the delivery invariant. *)
LEMMA ExitStep == ASSUME DeliveryInv, NEW c, Exit(c) PROVE DeliveryInv'
<1>1. phase' = "exited" /\ UNCHANGED <<mappers, event, pending, whole, store, gone>>
    BY DEF Exit, mappingVars
<1> QED
    BY <1>1, OutsideStep

(* Loading the mappers keeps the delivery invariant. *)
LEMMA LoadStep == ASSUME DeliveryInv, Load PROVE DeliveryInv'
<1>1. CASE LoadFails(paths)
    BY <1>1, ExitStep DEF Load
<1>2. CASE ~LoadFails(paths)
    <2>1. /\ phase = "validated" /\ phase' = "mapped" /\ mappers' = LoadMappers(paths)
          /\ UNCHANGED <<pending, store, gone>>
        BY <1>2 DEF Load
    <2>2. /\ paths \in PathLists
          /\ DOMAIN pending = {} /\ DOMAIN store = {} /\ gone = {}
        BY <2>1 DEF DeliveryInv, LoadedInv
    <2>3. PICK ps \in PathLists : ps = paths
        BY <2>2
    <2>4. \A t \in DOMAIN mappers' : IsMapper(mappers'[t], t)
        BY <1>2, <2>1, <2>3, LoadedMappers
    <2>5. LoadedInv'
        BY <2>1, <2>4 DEF LoadedInv
    <2>6. EventInv' /\ DeletionInv'
        BY <2>1, <2>2 DEF EventInv, DeletionInv
    <2>7. StoreInv' /\ OrphansInv'
        BY <2>1, <2>2 DEF StoreInv, OrphansInv
    <2> QED
        BY <2>1, <2>2, <2>5, <2>6, <2>7 DEF DeliveryInv
<1> QED
    BY <1>1, <1>2

(* Every step of the command keeps the delivery invariant. *)
LEMMA DeliveryStep == DeliveryInv /\ [Next]_vars => DeliveryInv'
<1> SUFFICES ASSUME DeliveryInv, [Next]_vars PROVE DeliveryInv'
    OBVIOUS
<1>1. ASSUME NEW ps \in PathLists, ToOptions(ps) PROVE DeliveryInv'
    <2>1. CASE \E c : Exit(c)
        BY <2>1, ExitStep
    <2>2. CASE ~\E c : Exit(c)
        <3>1. /\ phase = "flags" /\ phase' = "options" /\ paths' = ps
              /\ UNCHANGED mappingVars
            BY <1>1, <2>2, Zenon DEF ToOptions
        <3> QED
            BY <3>1, OutsideStep DEF mappingVars
    <2> QED
        BY <2>1, <2>2
<1>2. ASSUME NEW n, NEW m, Validate(n, m) PROVE DeliveryInv'
    <2>1. CASE \E c : Exit(c)
        BY <2>1, ExitStep
    <2>2. CASE ~\E c : Exit(c)
        <3>1. /\ phase = "options" /\ phase' = "validated" /\ paths' = paths
              /\ UNCHANGED mappingVars
            BY <1>2, <2>2, Zenon DEF Validate
        <3>2. paths \in PathLists
            BY <3>1 DEF DeliveryInv, LoadedInv
        <3> QED
            BY <3>1, <3>2, OutsideStep DEF mappingVars
    <2> QED
        BY <2>1, <2>2
<1>3. CASE Load
    BY <1>3, LoadStep
<1>4. ASSUME NEW env, NewSource(env) PROVE DeliveryInv'
    <2>1. phase' \in {"built", "exited"} /\ UNCHANGED mappingVars
        BY <1>4 DEF NewSource, Exit
    <2> QED
        BY <2>1, OutsideStep DEF mappingVars
<1>5. ASSUME NEW port, StartPipeline(port) PROVE DeliveryInv'
    <2>1. phase' \in {"running", "exited"} /\ UNCHANGED mappingVars
        BY <1>5 DEF StartPipeline, Exit
    <2> QED
        BY <2>1, OutsideStep DEF mappingVars
<1>6. ASSUME NEW e \in Events, ReceiveEvent(e) PROVE DeliveryInv'
    BY <1>6, ReceiveStep
<1>7. CASE Send
    BY <1>7, SendIsAnswered, AnsweredStep
<1>8. CASE PipelineReturns
    BY <1>8, ExitStep DEF PipelineReturns
<1>9. CASE UNCHANGED vars
    <2>1. UNCHANGED <<mappers, event, pending, whole, store, gone, phase, paths>>
        BY <1>9 DEF vars, mappingVars, commandVars
    <2>2. phase \in {"options", "validated"} => paths \in PathLists
        BY DEF DeliveryInv, LoadedInv
    <2> QED
        BY <2>1, <2>2, OutsideStep
<1> QED
    BY <1>1, <1>2, <1>3, <1>4, <1>5, <1>6, <1>7, <1>8, <1>9 DEF Next

(* A command that has not loaded its mappers has delivered nothing. *)
LEMMA DeliveryInit == Init => DeliveryInv
<1> SUFFICES ASSUME Init PROVE DeliveryInv
    OBVIOUS
<1>1. /\ mappers = <<>> /\ pending = <<>> /\ store = <<>> /\ gone = {}
      /\ phase = "flags"
    BY DEF Init, MappingInit
<1>2. DOMAIN mappers = {} /\ DOMAIN pending = {} /\ DOMAIN store = {}
    BY <1>1
<1> QED
    BY <1>1, <1>2 DEF DeliveryInv, LoadedInv, EventInv, StoreInv, OrphansInv, DeletionInv

(* The invariant of the delivery holds in every state of every process.    *)
THEOREM DeliveryInvariant == Spec => []DeliveryInv
BY DeliveryInit, DeliveryStep, PTL DEF Spec

(* A deletion that was delivered whole leaves nothing of its object, for   *)
(* every set of mapping files, any number of objects and versions, and     *)
(* requests that fail, or fail after they were applied, anywhere before.   *)
THEOREM DeletionsLeaveNoOrphans == Spec => []NoOrphans
<1>1. DeliveryInv => NoOrphans
    <2> SUFFICES ASSUME DeliveryInv, NEW x \in DOMAIN store,
                        <<store[x].type, store[x].values.key>> \in gone,
                        StableNames(store[x].type, store[x].values.key)
                 PROVE  x \in Kept(store[x].type, store[x].values.key)
        BY DEF NoOrphans
    <2>1. PICK t, k : t = store[x].type /\ k = store[x].values.key
        OBVIOUS
    <2>2. <<t, k>> \in gone /\ StableNames(t, k)
        BY <2>1
    <2>3. t \in Types /\ k \in Keys
        BY <2>2 DEF DeliveryInv
    <2>4. ~Cascading(t, k, x)
        BY <2>2, <2>3 DEF DeliveryInv, OrphansInv
    <2>5. Stable(mappers[t], k)
        BY <2>2, StableNamesIsStable
    <2>6. Keeps(mappers[t], k, x)
        BY <2>1, <2>4, <2>5 DEF Cascading
    <2>7. x \in Kept(t, k)
        BY <2>6, KeptIsKeeps
    <2> QED
        BY <2>1, <2>7
<1> QED
    BY <1>1, DeliveryInvariant, PTL

(* A step changes the Catalog only for an event all of whose templates     *)
(* rendered, only at entries that event names, an upsert without removing  *)
(* and a deletion without adding one.                                      *)
THEOREM CatalogFollowsEvents == Spec => StoreFollowsEvents
<1> DEFINE A == store' # store =>
          /\ Clean(event)
          /\ \A x \in DOMAIN store \cup DOMAIN store' :
                (x \in DOMAIN store /\ x \in DOMAIN store' => store'[x] = store[x])
                \/ x \in Written(event)
          /\ event.op = "upsert" => DOMAIN store \subseteq DOMAIN store'
          /\ event.op = "delete" => DOMAIN store' \subseteq DOMAIN store
<1>1. ASSUME DeliveryInv, Answered PROVE A
    <2>1. /\ EventInv /\ DOMAIN pending # {}
          /\ store' \in {store, Apply(store, pending[First], event)}
        BY <1>1 DEF DeliveryInv, Answered
    <2>2. Clean(event)
        BY <2>1, RenderedIsClean DEF EventInv
    <2>3. PICK p : p = pending[First]
        OBVIOUS
    <2>4. /\ \A x \in DOMAIN store' :
                \/ x \in DOMAIN store /\ store'[x] = store[x]
                \/ x = p.entry /\ event.op = "upsert" /\ store'[x] = event
          /\ event.op = "upsert" => DOMAIN store \subseteq DOMAIN store'
          /\ event.op = "delete" => DOMAIN store' \subseteq DOMAIN store
          /\ Writes(mappers[event.type], event, p.entry)
        BY <2>1, <2>3, AfterSend
    <2>5. p.entry \in Written(event)
        BY <2>4, WrittenIsWrites
    <2> QED
        BY <2>2, <2>4, <2>5
<1>2. ASSUME [Next]_vars, ~Send PROVE UNCHANGED store
    <2>1. ASSUME NEW ps, ToOptions(ps) PROVE UNCHANGED store
        BY <2>1 DEF ToOptions, Exit, mappingVars
    <2>2. ASSUME NEW n, NEW m, Validate(n, m) PROVE UNCHANGED store
        BY <2>2 DEF Validate, Exit, mappingVars
    <2>3. CASE Load
        BY <2>3 DEF Load, Exit, mappingVars
    <2>4. ASSUME NEW env, NewSource(env) PROVE UNCHANGED store
        BY <2>4 DEF NewSource, Exit, mappingVars
    <2>5. ASSUME NEW port, StartPipeline(port) PROVE UNCHANGED store
        BY <2>5 DEF StartPipeline, Exit, mappingVars
    <2>6. ASSUME NEW e, ReceiveEvent(e) PROVE UNCHANGED store
        BY <2>6 DEF ReceiveEvent, Receive
    <2>7. CASE PipelineReturns
        BY <2>7 DEF PipelineReturns, Exit, mappingVars
    <2>8. CASE UNCHANGED vars
        BY <2>8 DEF vars, mappingVars
    <2> QED
        BY <1>2, <2>1, <2>2, <2>3, <2>4, <2>5, <2>6, <2>7, <2>8 DEF Next
<1>3. DeliveryInv /\ [Next]_vars => [A]_store
    BY <1>1, <1>2, SendIsAnswered
<1> HIDE DEF A
<1>4. Spec => [][A]_store
    BY <1>3, DeliveryInvariant, PTL DEF Spec
<1> QED
    BY <1>4 DEF A, StoreFollowsEvents

-----------------------------------------------------------------------------
(* The variables of the command line that the invariants above leave out.  *)
CommandTypes ==
    /\ phase \in {"flags", "options", "validated", "mapped", "built", "running", "exited"}
    /\ dest \in {"none", "writer", "catalog"}
    /\ creds \in [endpoint : {"unset", "empty", "url"}, id : BOOLEAN,
                  secret : BOOLEAN, keys : BOOLEAN]
    /\ transport \in {"none", "anonymous", "clientCredentials", "jwt"}
    /\ sentAs \in {"none", "anonymous", "clientCredentials", "jwt"}
    /\ name \in SourceNames \cup {"none"} /\ mode \in {"none", "run", "sync"}
    /\ documented \in BOOLEAN /\ code \in {-1, 0, 1}
    /\ event \in Events \cup {NoEvent}
    /\ events \in 0..MaxEvents
    /\ whole \in BOOLEAN

(* The credentials NewDestination reads have their types. *)
LEMMA ReadCredentials ==
    ASSUME NEW env \in CatalogEnvironments, ~NewDestinationFails(env)
    PROVE  [endpoint |-> env.endpoint, id |-> env.id, secret |-> env.secret,
            keys |-> env.key = "pem"]
              \in [endpoint : {"unset", "empty", "url"}, id : BOOLEAN,
                   secret : BOOLEAN, keys : BOOLEAN]
<1>1. env.endpoint \in {"unset", "empty", "url"}
    BY DEF CatalogEnvironments, NewDestinationFails
<1>2. env.id \in BOOLEAN /\ env.secret \in BOOLEAN /\ (env.key = "pem") \in BOOLEAN
    BY Zenon DEF CatalogEnvironments
<1> QED
    BY <1>1, <1>2, Zenon

(* toOptions keeps the types. *)
LEMMA ToOptionsTypes ==
    ASSUME CommandTypes, NEW ps, ToOptions(ps) PROVE CommandTypes'
<1>1. /\ phase' \in {"options", "exited"} /\ code' \in {-1, 0, 1}
      /\ dest' \in {"none", "writer", "catalog"}
      /\ UNCHANGED <<transport, sentAs, name, mode, documented, event, events, whole>>
    BY DEF CommandTypes, ToOptions, Exit, mappingVars
<1>2. CASE Leaves
    BY <1>1, <1>2 DEF Leaves, CommandTypes
<1>3. ASSUME NEW env \in CatalogEnvironments, Reads(env) PROVE CommandTypes'
    <2>1. creds' \in [endpoint : {"unset", "empty", "url"}, id : BOOLEAN,
                      secret : BOOLEAN, keys : BOOLEAN]
        BY <1>3, ReadCredentials, Zenon DEF Reads
    <2> QED
        BY <1>1, <2>1 DEF CommandTypes
<1> QED
    BY <1>2, <1>3, ToOptionsCases

(* Whether the settings are as documented is a truth value. *)
LEMMA DocumentedIsBoolean ==
    ASSUME NEW n, NEW m, NEW env, documented' = Documented(n, m, env)
    PROVE  documented' \in BOOLEAN
<1>1. Documented(n, m, env) \in BOOLEAN
    BY DEF Documented
<1> QED
    BY <1>1, Zenon

(* StartPipeline keeps the types. *)
LEMMA StartTypes ==
    ASSUME CommandTypes, NEW port, StartPipeline(port) PROVE CommandTypes'
<1>1. /\ phase' \in {"running", "exited"} /\ code' \in {-1, 0, 1}
      /\ name' \in SourceNames \cup {"none"} /\ mode' \in {"none", "run", "sync"}
      /\ UNCHANGED <<dest, creds, transport, sentAs, event, events, whole>>
    BY DEF CommandTypes, StartPipeline, Exit, mappingVars
<1>2. CASE phase' = "exited"
    <2>1. documented' = documented
        BY <1>2 DEF StartPipeline, Exit
    <2> QED
        BY <1>1, <2>1 DEF CommandTypes
<1>3. CASE phase' = "running"
    <2>1. documented' = Documented(name, mode, settings)
        BY <1>3 DEF StartPipeline, Exit
    <2>2. documented' \in BOOLEAN
        BY <2>1, DocumentedIsBoolean, Zenon
    <2> QED
        BY <1>1, <2>2 DEF CommandTypes
<1> QED
    BY <1>1, <1>2, <1>3

(* Send keeps the types. *)
LEMMA SendTypes == ASSUME CommandTypes, Send PROVE CommandTypes'
<1>1. UNCHANGED <<phase, dest, creds, name, mode, documented, code, event, events>>
    BY DEF Send, Accepted, Rejected
<1>2. /\ transport' \in {"none", "anonymous", "clientCredentials", "jwt"}
      /\ sentAs' \in {"none", "anonymous", "clientCredentials", "jwt"}
    BY DEF CommandTypes, Send
<1>3. whole' \in {whole, FALSE}
    BY Zenon DEF Send, Accepted, Rejected
<1>4. whole' \in BOOLEAN
    BY <1>3, Zenon DEF CommandTypes
<1> QED
    BY <1>1, <1>2, <1>4 DEF CommandTypes

(* Every step of the command keeps the types. *)
LEMMA CommandTypesStep ==
    ASSUME CommandTypes, [Next]_vars PROVE CommandTypes'
<1>0. ASSUME NEW c \in {0, 1}, Exit(c) PROVE CommandTypes'
    BY <1>0 DEF Exit, mappingVars, CommandTypes
<1>1. ASSUME NEW ps, ToOptions(ps) PROVE CommandTypes'
    BY <1>1, ToOptionsTypes
<1>2. ASSUME NEW n, NEW m \in {"run", "sync"}, Validate(n, m) PROVE CommandTypes'
    BY <1>0, <1>2 DEF Validate, CommandTypes, mappingVars
<1>3. CASE Load
    BY <1>0, <1>3 DEF Load, CommandTypes
<1>4. ASSUME NEW env, NewSource(env) PROVE CommandTypes'
    BY <1>0, <1>4 DEF NewSource, CommandTypes, mappingVars
<1>5. ASSUME NEW port, StartPipeline(port) PROVE CommandTypes'
    BY <1>5, StartTypes
<1>6. ASSUME NEW e \in Events, ReceiveEvent(e) PROVE CommandTypes'
    <2>1. UNCHANGED commandVars /\ event' \in {e, NoEvent}
        BY <1>6 DEF ReceiveEvent, Receive
    <2>2. events' \in 0..MaxEvents
        BY <1>6, BoundAssumption DEF ReceiveEvent, Receive, CommandTypes
    <2>3. whole' \in BOOLEAN
        BY <1>6, Zenon DEF ReceiveEvent, Receive
    <2> QED
        BY <2>1, <2>2, <2>3 DEF CommandTypes, commandVars
<1>7. CASE Send
    BY <1>7, SendTypes
<1>8. CASE PipelineReturns
    BY <1>0, <1>8 DEF PipelineReturns
<1>9. CASE UNCHANGED vars
    BY <1>9 DEF vars, commandVars, mappingVars, CommandTypes
<1> QED
    BY <1>1, <1>2, <1>3, <1>4, <1>5, <1>6, <1>7, <1>8, <1>9 DEF Next

(* Every variable keeps its type; in particular what is sent to the        *)
(* Catalog is named by a valid identifier.                                 *)
THEOREM TypeCorrect == Spec => []TypeOK
<1>1. Init => CommandTypes
    <2> SUFFICES ASSUME Init PROVE CommandTypes
        OBVIOUS
    <2>1. creds \in [endpoint : {"unset", "empty", "url"}, id : BOOLEAN,
                     secret : BOOLEAN, keys : BOOLEAN]
        BY Zenon DEF Init, NoCreds
    <2>2. documented \in BOOLEAN /\ whole \in BOOLEAN
        BY Zenon DEF Init, MappingInit
    <2> QED
        BY <2>1, <2>2, BoundAssumption DEF Init, MappingInit, CommandTypes
<1>2. DeliveryInv /\ CommandTypes => TypeOK
    <2> SUFFICES ASSUME DeliveryInv, CommandTypes PROVE TypeOK
        OBVIOUS
    <2>1. DOMAIN mappers \subseteq Types
        BY DEF DeliveryInv, LoadedInv, IsMapper
    <2>2. \A i \in DOMAIN pending : pending[i].entry \in Entries
        BY DEF DeliveryInv, EventInv
    <2>3. DOMAIN store \subseteq Entries /\ \A x \in DOMAIN store : store[x] \in Events
        BY DEF DeliveryInv, StoreInv
    <2>4. gone \subseteq Types \X Keys
        BY DEF DeliveryInv
    <2> QED
        BY <2>1, <2>2, <2>3, <2>4 DEF TypeOK, CommandTypes
<1> QED
    BY <1>1, <1>2, CommandTypesStep, DeliveryInvariant, PTL DEF Spec
=============================================================================
