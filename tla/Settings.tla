------------------------------ MODULE Settings ------------------------------
(***************************************************************************)
(* What the process accepts of its environment: the Catalog destination,   *)
(* the nine sources and the HTTP server.                                   *)
(*                                                                         *)
(* The environment of a source is the set of its variables that hold a     *)
(* non-empty value, without their common prefix, plus the defects a value  *)
(* may have: "unparsable" (a duration or number env.Parse refuses),        *)
(* "badPath", "badURL", "badParent", "badPageSize", "emptyTOKEN" (set to   *)
(* the empty string).                                                      *)
(***************************************************************************)
EXTENDS Integers

SourceNames == {"azure", "azure-devops", "bitbucket", "console", "gcp",
                "github", "gitlab", "nexus", "sysdig"}

-----------------------------------------------------------------------------
(* The Catalog destination.  A URL variable is unset, empty, a url or      *)
(* unparsable; the key file is unset, a pem or unreadable.                 *)
OptionalURL == {"unset", "url", "bad"}

CatalogEnvironments ==
    [endpoint : {"unset", "empty", "url", "bad"}, id : BOOLEAN, secret : BOOLEAN,
     key : {"unset", "pem", "bad"}, auth : OptionalURL, issuer : OptionalURL,
     metadata : OptionalURL, token : OptionalURL]

(* validatePrivateKeyAuth. *)
PrivateKeyAuthFails(env) ==
    \/ env.secret
    \/ ~env.id
    \/ env.issuer = "unset" /\ env.metadata = "unset" /\ env.token = "unset"

(* Variant with a plausible bug: an ID without a secret is let through.    *)
AuthConfigFailsLenient(env) == env.key # "unset" /\ PrivateKeyAuthFails(env)

(* validateAuthConfig. *)
AuthConfigFails(env) ==
    IF env.key # "unset" THEN PrivateKeyAuthFails(env)
    ELSE env.id # env.secret

(* jwk.LoadKeys: the file is read, parsed as PEM and given a key ID.       *)
LoadKeysFails(env) == env.key = "bad"

NewDestinationFails(env) ==
    \/ env.endpoint \in {"unset", "bad"}
    \/ AuthConfigFails(env)
    \/ LoadKeysFails(env)
    \/ "bad" \in {env.auth, env.issuer, env.metadata, env.token}

(* NewTransport, from what getClient passes to it.  Loading the settings   *)
(* of the JWT source may fail.                                             *)
NewTransport(c) ==
    IF c.id /\ c.secret THEN {"clientCredentials"}
    ELSE IF c.id /\ c.keys THEN {"jwt", "error"}
    ELSE {"anonymous"}

-----------------------------------------------------------------------------
(* The variables and defects that can occur for each source.               *)
Facts(name) ==
    CASE name = "azure" ->
           {"SUBSCRIPTION_ID", "EVENT_HUB_CONNECTION_STRING", "EVENT_HUB_NAMESPACE",
            "EVENT_HUB_NAME", "STORAGE_BLOB_CONNECTION_STRING",
            "STORAGE_BLOB_ACCOUNT_NAME", "STORAGE_BLOB_CONTAINER_NAME"}
      [] name = "azure-devops" ->
           {"ORGANIZATION_URL", "PERSONAL_TOKEN", "WEBHOOK_USER", "WEBHOOK_PASSWORD",
            "badURL"}
      [] name = "bitbucket" ->
           {"ACCESS_TOKEN", "API_USERNAME", "API_TOKEN", "WEBHOOK_SECRET", "unparsable"}
      [] name = "console" ->
           {"ENDPOINT", "CLIENT_ID", "CLIENT_SECRET", "WEBHOOK_SECRET", "badURL",
            "badPath"}
      [] name = "gcp" ->
           {"PUBSUB_PROJECT", "PUBSUB_SUBSCRIPTION", "SYNC_PARENT", "badParent"}
      [] name = "github" -> {"TOKEN", "ORG", "WEBHOOK_SECRET", "badPageSize", "unparsable"}
      [] name = "gitlab" ->
           {"TOKEN", "emptyTOKEN", "BASE_URL", "WEBHOOK_TOKEN", "badPath"}
      [] name = "nexus" ->
           {"URL_SCHEMA", "URL_HOST", "TOKEN_NAME", "TOKEN_PASSCODE", "badURL", "unparsable"}
      [] name = "sysdig" ->
           {"URL", "API_TOKEN", "BASE_URL", "BEARER_TOKEN", "badPageSize", "unparsable"}

(* NewSource of the sources that look at their environment at once.        *)
BitbucketAccepts(env) ==
    LET basic == {"API_USERNAME", "API_TOKEN"}
    IN  IF "ACCESS_TOKEN" \in env THEN basic \cap env = {} ELSE basic \subseteq env

ConsoleAccepts(env) ==
    /\ "ENDPOINT" \in env
    /\ "badURL" \notin env /\ "badPath" \notin env
    /\ "CLIENT_ID" \in env <=> "CLIENT_SECRET" \in env

GithubAccepts(env) == {"TOKEN", "ORG"} \subseteq env /\ "badPageSize" \notin env

GitlabAccepts(env) ==
    /\ "BASE_URL" \in env /\ "badPath" \notin env
    /\ "TOKEN" \in env \/ "emptyTOKEN" \in env

NexusAccepts(env) ==
    /\ {"URL_SCHEMA", "URL_HOST", "TOKEN_NAME", "TOKEN_PASSCODE"} \subseteq env
    /\ "badURL" \notin env

SysdigAccepts(env) == {"URL", "API_TOKEN"} \subseteq env /\ "badPageSize" \notin env

(* sourceFromIntegrationName: the azure, azure-devops and gcp sources only *)
(* parse here and validate when they start.                                *)
NewSourceFails(name, env) ==
    \/ "unparsable" \in env
    \/ name = "bitbucket" /\ ~BitbucketAccepts(env)
    \/ name = "console" /\ ~ConsoleAccepts(env)
    \/ name = "github" /\ ~GithubAccepts(env)
    \/ name = "gitlab" /\ ~GitlabAccepts(env)
    \/ name = "nexus" /\ ~NexusAccepts(env)
    \/ name = "sysdig" /\ ~SysdigAccepts(env)

(* validateForSync of azure and azure-devops, checkAssetConfig of gcp.     *)
SyncFails(name, env) ==
    \/ name = "azure" /\ "SUBSCRIPTION_ID" \notin env
    \/ /\ name = "azure-devops"
       /\ ~({"ORGANIZATION_URL", "PERSONAL_TOKEN"} \subseteq env) \/ "badURL" \in env
    \/ name = "gcp" /\ ("SYNC_PARENT" \notin env \/ "badParent" \in env)

(* Variant with a plausible bug: a namespace or account is taken for       *)
(* enough.                                                                 *)
AzureStreamFailsEither(env) ==
    \/ "SUBSCRIPTION_ID" \notin env
    \/ env \cap {"EVENT_HUB_CONNECTION_STRING", "EVENT_HUB_NAMESPACE"} = {}
    \/ env \cap {"STORAGE_BLOB_CONNECTION_STRING", "STORAGE_BLOB_ACCOUNT_NAME"} = {}

(* validateForEventStream of azure, one case per line.                     *)
AzureStreamFails(env) ==
    \/ "SUBSCRIPTION_ID" \notin env
    \/ env \cap {"EVENT_HUB_CONNECTION_STRING", "EVENT_HUB_NAMESPACE"} = {}
    \/ "EVENT_HUB_NAMESPACE" \in env /\ "EVENT_HUB_NAME" \notin env
    \/ env \cap {"STORAGE_BLOB_CONNECTION_STRING", "STORAGE_BLOB_ACCOUNT_NAME"} = {}
    \/ "STORAGE_BLOB_ACCOUNT_NAME" \in env /\ "STORAGE_BLOB_CONTAINER_NAME" \notin env

(* StartEventStream of azure and gcp, GetWebhook of the others.  Nexus     *)
(* needs nothing more to listen.                                           *)
StreamFails(name, env) ==
    \/ name = "azure" /\ AzureStreamFails(env)
    \/ name = "gcp" /\ ~({"PUBSUB_PROJECT", "PUBSUB_SUBSCRIPTION"} \subseteq env)
    \/ name = "azure-devops" /\ "WEBHOOK_USER" \in env /\ "WEBHOOK_PASSWORD" \notin env
    \/ name \in {"bitbucket", "console", "github"} /\ "WEBHOOK_SECRET" \notin env
    \/ name = "gitlab" /\ "WEBHOOK_TOKEN" \notin env
    \/ name = "sysdig" /\ ~({"BASE_URL", "BEARER_TOKEN"} \subseteq env)

(* validateEnvironmentVariables of the HTTP server.                        *)
PortFails(port) == port \notin 0..65535

-----------------------------------------------------------------------------
(* What docs/how-to lists as required for a source in a mode, written from *)
(* the pages: the reference the checks above are compared with.  The page  *)
(* of the console calls the webhook secret supported, and only its tests   *)
(* say that it is required (console_test.go:64).                           *)
Documented(name, mode, env) ==
    /\ name = "azure" =>
          /\ "SUBSCRIPTION_ID" \in env
          /\ mode = "run" =>
               /\ \/ "EVENT_HUB_CONNECTION_STRING" \in env
                  \/ {"EVENT_HUB_NAMESPACE", "EVENT_HUB_NAME"} \subseteq env
               /\ \/ "STORAGE_BLOB_CONNECTION_STRING" \in env
                  \/ {"STORAGE_BLOB_ACCOUNT_NAME", "STORAGE_BLOB_CONTAINER_NAME"}
                        \subseteq env
    /\ name = "azure-devops" =>
          /\ mode = "sync" => {"ORGANIZATION_URL", "PERSONAL_TOKEN"} \subseteq env
          /\ mode = "run" /\ "WEBHOOK_USER" \in env => "WEBHOOK_PASSWORD" \in env
    /\ name = "bitbucket" =>
          /\ \/ "ACCESS_TOKEN" \in env
             \/ {"API_USERNAME", "API_TOKEN"} \subseteq env
          /\ mode = "run" => "WEBHOOK_SECRET" \in env
    /\ name = "console" =>
          /\ mode = "sync" => "ENDPOINT" \in env
          /\ mode = "run" => "WEBHOOK_SECRET" \in env
    /\ name = "gcp" =>
          /\ mode = "sync" => "SYNC_PARENT" \in env
          /\ mode = "run" => {"PUBSUB_PROJECT", "PUBSUB_SUBSCRIPTION"} \subseteq env
    /\ name = "github" =>
          {"TOKEN", "ORG"} \subseteq env /\ (mode = "run" => "WEBHOOK_SECRET" \in env)
    /\ name = "gitlab" =>
          /\ "BASE_URL" \in env /\ {"TOKEN", "emptyTOKEN"} \cap env # {}
          /\ mode = "run" => "WEBHOOK_TOKEN" \in env
    /\ name = "nexus" =>
          {"URL_SCHEMA", "URL_HOST", "TOKEN_NAME", "TOKEN_PASSCODE"} \subseteq env
    /\ name = "sysdig" =>
          /\ mode = "sync" => {"URL", "API_TOKEN"} \subseteq env
          /\ mode = "run" => {"BASE_URL", "BEARER_TOKEN"} \subseteq env
=============================================================================
