------------------------------ MODULE TokenSource ------------------------------
(***************************************************************************)
(* The private-key JWT token source of the Catalog destination and of the  *)
(* Console source (internal/tokensource/oauth2source): Token() resolves    *)
(* the token endpoint through OIDC discovery, once, and exchanges a signed *)
(* assertion for an access token.  NewSource wraps it in                   *)
(* oauth2.ReuseTokenSource (external), whose mutex serialises the callers  *)
(* and which returns the last token until ExpiryDelta before its expiry.   *)
(*                                                                         *)
(* Time is in seconds of one clock; only requests take time.               *)
(***************************************************************************)
EXTENDS Naturals

CONSTANTS
    Callers,            \* goroutines that need a token
    Endpoints,          \* token endpoints discovery documents advertise
    Override,           \* tokenEndpoint given to NewSource, None when empty
    HasIssuer,          \* issuerURL is configured
    None,
    Lifetimes,          \* expires_in values the server answers
    RequestTimeout,     \* tokenRequestTimeout (30 s)
    AssertionLifetime,  \* jwtAssertionLifetime (5 min)
    ExpiryDelta,        \* early-expiry margin of ReuseTokenSource (10 s)
    MaxTime             \* bound: the clock stops here

ASSUME EndpointAssumption == /\ None \notin Endpoints
                             /\ Override \in Endpoints \cup {None}
                             /\ HasIssuer \in BOOLEAN
ASSUME CallersAssumption == None \notin Callers
ASSUME TimeAssumption == /\ RequestTimeout \in Nat /\ AssertionLifetime \in Nat
                         /\ ExpiryDelta \in Nat /\ MaxTime \in Nat
                         /\ Lifetimes \subseteq Nat
                         /\ 2 * RequestTimeout < AssertionLifetime

VARIABLES
    time,
    pc,        \* pc[c]: idle, waiting (for the mutex), discover, exchange, minted
    holder,    \* caller inside ReuseTokenSource.Token, None if nobody is
    endpoint,  \* cached tokenEndpoint, None while unresolved
    vetted,    \* history: the cached endpoint was given, or its document passed the issuer check
    now,       \* time.Now() at the start of source.Token
    sentAt,    \* when the request in flight was sent
    minted,    \* the token the server has created for the request in flight
    token,     \* token kept by ReuseTokenSource
    handed     \* history: last token handed out, when, and whether it was a reused one

vars == <<time, pc, holder, endpoint, vetted, now, sentAt, minted, token, handed>>

Documents == [issuerMatches : BOOLEAN, endpoint : Endpoints \cup {None}]
\* The server's answer carries expires_in; the client turns it into Expiry.
Minted == [life : Nat, serverExpiry : Nat]
Tokens == [expiry : Nat, serverExpiry : Nat]

Init ==
    /\ time = 0 /\ pc = [c \in Callers |-> "idle"] /\ holder = None
    /\ endpoint = Override /\ vetted = (Override # None)
    /\ now = 0 /\ sentAt = 0
    /\ minted = None /\ token = None /\ handed = None

\* Token.Valid of the oauth2 package (external).
Valid(t) == t # None /\ t.expiry >= time + ExpiryDelta

\* A goroutine asks for a token and waits for the mutex of ReuseTokenSource.
Call(c) ==
    /\ pc[c] = "idle" /\ pc' = [pc EXCEPT ![c] = "waiting"]
    /\ UNCHANGED <<time, holder, endpoint, vetted, now, sentAt, minted, token, handed>>

\* The kept token is still good.
Reuse(c) ==
    /\ pc[c] = "waiting" /\ holder = None /\ Valid(token)
    /\ pc' = [pc EXCEPT ![c] = "idle"]
    /\ handed' = [at |-> time, reused |-> TRUE, serverExpiry |-> token.serverExpiry]
    /\ UNCHANGED <<time, holder, endpoint, vetted, now, sentAt, minted, token>>

\* Variant: the exchange runs without the mutex.
StartUnlocked(c) ==
    /\ pc[c] = "waiting" /\ holder = None /\ ~Valid(token)
    /\ now' = time /\ sentAt' = time
    /\ pc' = [pc EXCEPT ![c] = IF endpoint = None THEN "discover" ELSE "exchange"]
    /\ UNCHANGED <<time, holder, endpoint, vetted, minted, token, handed>>

\* source.Token: read the clock, then resolve the endpoint: a cached one is
\* used at once, otherwise the discovery document is requested.
StartToken(c) ==
    /\ pc[c] = "waiting" /\ holder = None /\ ~Valid(token)
    /\ holder' = c
    /\ now' = time /\ sentAt' = time
    /\ pc' = [pc EXCEPT ![c] = IF endpoint = None THEN "discover" ELSE "exchange"]
    /\ UNCHANGED <<time, endpoint, vetted, minted, token, handed>>

\* Variant: an error return without the deferred unlock.
ErrorKeepsLock(c) ==
    /\ pc' = [pc EXCEPT ![c] = "idle"]
    /\ UNCHANGED holder

\* An error return: the deferred unlocks release the caller's mutexes.
ReturnError(c) ==
    /\ pc' = [pc EXCEPT ![c] = "idle"]
    /\ holder' = None

\* Transport error, refused status, bad JSON or the client's timeout.
DiscoveryFails(c) ==
    /\ pc[c] = "discover" /\ ReturnError(c)
    /\ UNCHANGED <<time, endpoint, vetted, now, sentAt, minted, token, handed>>

\* Variant: the issuer of the document is not compared.
AnyIssuer(doc) == doc.endpoint # None

\* The document is usable.
Acceptable(doc) == (HasIssuer => doc.issuerMatches) /\ doc.endpoint # None

\* The document arrives: checked, cached and followed by the exchange, or
\* refused without leaving a trace.
DiscoveryReplies(c, doc) ==
    /\ pc[c] = "discover"
    /\ \/ /\ Acceptable(doc)
          /\ endpoint' = doc.endpoint
          /\ vetted' = (HasIssuer => doc.issuerMatches)
          /\ pc' = [pc EXCEPT ![c] = "exchange"]
          /\ sentAt' = time
          /\ UNCHANGED holder
       \/ /\ ~Acceptable(doc)
          /\ ReturnError(c)
          /\ UNCHANGED <<endpoint, vetted, sentAt>>
    /\ UNCHANGED <<time, now, minted, token, handed>>

\* The server receives the assertion and creates a token that it accepts for
\* expires_in seconds from then on (external).
ServerMints(c, life) ==
    /\ pc[c] = "exchange"
    /\ pc' = [pc EXCEPT ![c] = "minted"]
    /\ minted' = [life |-> life, serverExpiry |-> time + life]
    /\ UNCHANGED <<time, holder, endpoint, vetted, now, sentAt, token, handed>>

\* Variant: the clock is read when the answer arrives.
ExpiryFromReply(life) == time + life

\* Expiry: now.Add(expires_in).
Expiry(life) == now + life

\* 200 OK: the new token is kept and returned, whatever its lifetime.
ExchangeReplies(c) ==
    /\ pc[c] = "minted"
    /\ token' = [expiry |-> Expiry(minted.life), serverExpiry |-> minted.serverExpiry]
    /\ minted' = None
    /\ handed' = [at |-> time, reused |-> FALSE, serverExpiry |-> minted.serverExpiry]
    /\ pc' = [pc EXCEPT ![c] = "idle"] /\ holder' = None
    /\ UNCHANGED <<time, endpoint, vetted, now, sentAt>>

\* Signing error, transport error, refused status, bad JSON or the timeout,
\* before or after the server created a token; the kept token stays.
ExchangeFails(c) ==
    /\ pc[c] \in {"exchange", "minted"} /\ ReturnError(c)
    /\ minted' = None
    /\ UNCHANGED <<time, endpoint, vetted, now, sentAt, token, handed>>

\* Variant: a client without a timeout.
TickForever ==
    /\ time < MaxTime /\ time' = time + 1
    /\ UNCHANGED <<pc, holder, endpoint, vetted, now, sentAt, minted, token, handed>>

\* The HTTP client gives up after RequestTimeout: the clock cannot pass the
\* deadline of the request in flight.
Tick ==
    /\ time < MaxTime
    /\ holder # None => time < sentAt + RequestTimeout
    /\ time' = time + 1
    /\ UNCHANGED <<pc, holder, endpoint, vetted, now, sentAt, minted, token, handed>>

TokenStep(c) ==
    \/ Reuse(c) \/ StartToken(c) \/ DiscoveryFails(c) \/ ExchangeReplies(c) \/ ExchangeFails(c)
    \/ \E doc \in Documents : DiscoveryReplies(c, doc)
    \/ \E life \in Lifetimes : ServerMints(c, life)

Next == Tick \/ \E c \in Callers : Call(c) \/ TokenStep(c)

Spec == Init /\ [][Next]_vars

\* A request ends by its timeout at the latest, and sync.Mutex hands itself
\* to a goroutine that has waited too long.
Fairness ==
    \A c \in Callers :
        /\ SF_vars(Reuse(c) \/ StartToken(c))
        /\ WF_vars(DiscoveryFails(c) \/ \E doc \in Documents : DiscoveryReplies(c, doc))
        /\ WF_vars(ExchangeReplies(c) \/ ExchangeFails(c))

FairSpec == Spec /\ Fairness

(***************************************************************************)
(* Properties.                                                             *)
(***************************************************************************)

\* The variables have their types and at most the holder is inside.
TypeOK ==
    /\ time \in Nat /\ now \in Nat /\ sentAt \in Nat
    /\ pc \in [Callers -> {"idle", "waiting", "discover", "exchange", "minted"}]
    /\ holder \in Callers \cup {None}
    /\ \A c \in Callers : pc[c] \in {"discover", "exchange", "minted"} <=> holder = c
    /\ endpoint \in Endpoints \cup {None} /\ vetted \in BOOLEAN
    /\ minted \in Minted \cup {None} /\ token \in Tokens \cup {None}
    /\ \A c \in Callers : pc[c] = "minted" => minted \in Minted
    /\ handed \in [at : Nat, reused : BOOLEAN, serverExpiry : Nat] \cup {None}

\* The client never believes a token lives longer than the server grants:
\* Token reads the clock before discovery and exchange, not after them.
ExpiryIsConservative == token # None => token.expiry <= token.serverExpiry

\* A reused token has at least the early-expiry margin left on the server
\* when it is handed out.
ReusedTokenIsLive ==
    handed # None => (handed.reused => handed.serverExpiry >= handed.at + ExpiryDelta)

\* The assertion is still valid whenever it can reach the server, although
\* its lifetime starts before a discovery request that may use up its timeout.
AssertionIsFresh ==
    \A c \in Callers : pc[c] \in {"exchange", "minted"} => time < now + AssertionLifetime

\* An assertion is only ever sent to the endpoint given by the operator or to
\* one from a document that passed the issuer check, and a resolved endpoint
\* is final: a failed discovery leaves nothing behind.
ExchangeOnlyWithVetted ==
    \A c \in Callers : pc[c] \in {"exchange", "minted"} => endpoint # None /\ vetted

\* Every call returns, with a token or an error, whatever fails: no error
\* path keeps a mutex.
EveryCallReturns == \A c \in Callers : pc[c] # "idle" ~> pc[c] = "idle"
===============================================================================
