--------------------------- MODULE TokenSourceProofs ---------------------------
(***************************************************************************)
(* Proofs about TokenSource, for any callers, lifetimes and timeouts that  *)
(* satisfy TimeAssumption.                                                 *)
(***************************************************************************)
EXTENDS TokenSource, TLAPS

\* How far the clock can be from the time Token read and from the request in
\* flight; a discovery request, if any, was sent when Token started.
ClockInv ==
    /\ holder # None => now <= sentAt /\ sentAt <= time /\ time <= sentAt + RequestTimeout
    /\ \A c \in Callers : pc[c] = "discover" => sentAt = now
    /\ \A c \in Callers : pc[c] \in {"exchange", "minted"} => sentAt <= now + RequestTimeout

\* A token the server has created but not yet delivered.
MintedInv ==
    \A c \in Callers : pc[c] = "minted" => now + minted.life <= minted.serverExpiry

\* The inductive invariant.
TokenInv ==
    /\ TypeOK /\ ClockInv /\ MintedInv
    /\ ExpiryIsConservative /\ ReusedTokenIsLive /\ ExchangeOnlyWithVetted
    /\ endpoint # None => vetted

\* Every step keeps the types and the mutual exclusion of the callers.
LEMMA TypeStep == TypeOK /\ [Next]_vars => TypeOK'
<1> SUFFICES ASSUME TypeOK, [Next]_vars PROVE TypeOK'
  OBVIOUS
<1> USE CallersAssumption, EndpointAssumption, TimeAssumption DEF TypeOK
<1>1. CASE UNCHANGED vars
  BY <1>1 DEF vars
<1>2. CASE Tick
  BY <1>2 DEF Tick
<1>3. ASSUME NEW c \in Callers, Call(c) PROVE TypeOK'
  BY <1>3 DEF Call
<1>4. ASSUME NEW c \in Callers, Reuse(c) PROVE TypeOK'
  <2>1. token \in Tokens
    BY <1>4 DEF Reuse, Valid
  <2>2. handed' \in [at : Nat, reused : BOOLEAN, serverExpiry : Nat]
    BY <1>4, <2>1 DEF Reuse, Tokens
  <2> QED
    BY <1>4, <2>2 DEF Reuse
<1>5. ASSUME NEW c \in Callers, StartToken(c) PROVE TypeOK'
  BY <1>5 DEF StartToken
<1>6. ASSUME NEW c \in Callers, DiscoveryFails(c) PROVE TypeOK'
  BY <1>6 DEF DiscoveryFails, ReturnError
<1>7. ASSUME NEW c \in Callers, NEW doc \in Documents, DiscoveryReplies(c, doc) PROVE TypeOK'
  BY <1>7 DEF DiscoveryReplies, ReturnError, Acceptable, Documents
<1>8. ASSUME NEW c \in Callers, NEW life \in Lifetimes, ServerMints(c, life) PROVE TypeOK'
  <2>1. minted' \in Minted
    BY <1>8 DEF ServerMints, Minted
  <2> QED
    BY <1>8, <2>1 DEF ServerMints
<1>9. ASSUME NEW c \in Callers, ExchangeReplies(c) PROVE TypeOK'
  <2>1. minted \in Minted
    BY <1>9 DEF ExchangeReplies
  <2>2. token' \in Tokens /\ handed' \in [at : Nat, reused : BOOLEAN, serverExpiry : Nat]
    BY <1>9, <2>1 DEF ExchangeReplies, Expiry, Minted, Tokens
  <2> QED
    BY <1>9, <2>2 DEF ExchangeReplies
<1>10. ASSUME NEW c \in Callers, ExchangeFails(c) PROVE TypeOK'
  BY <1>10 DEF ExchangeFails, ReturnError
<1> QED
  BY <1>1, <1>2, <1>3, <1>4, <1>5, <1>6, <1>7, <1>8, <1>9, <1>10 DEF Next, TokenStep

\* Two different callers are never inside ReuseTokenSource.Token together.
LEMMA OneInside ==
    ASSUME TypeOK, NEW c \in Callers, NEW d \in Callers,
           pc[c] \in {"discover", "exchange", "minted"}, pc[d] \in {"discover", "exchange", "minted"}
    PROVE  c = d /\ holder = c /\ holder # None
BY CallersAssumption DEF TypeOK

\* TokenInv is inductive.
LEMMA TokenStepInv == TokenInv /\ [Next]_vars => TokenInv'
<1> SUFFICES ASSUME TokenInv, [Next]_vars PROVE TokenInv'
  OBVIOUS
<1> USE CallersAssumption, EndpointAssumption, TimeAssumption
<1>0. TypeOK' /\ TypeOK
  BY TypeStep DEF TokenInv
<1> DEFINE Rest == /\ ClockInv /\ MintedInv
                   /\ ExpiryIsConservative /\ ReusedTokenIsLive /\ ExchangeOnlyWithVetted
                   /\ endpoint # None => vetted
<1> SUFFICES Rest'
  BY <1>0 DEF TokenInv
<1> USE DEF TokenInv, ClockInv, MintedInv, ExpiryIsConservative, ReusedTokenIsLive, ExchangeOnlyWithVetted
<1>1. CASE UNCHANGED vars
  BY <1>1 DEF vars
<1>2. CASE Tick
  BY <1>0, <1>2 DEF Tick, TypeOK
<1>3. ASSUME NEW c \in Callers, Call(c) PROVE Rest'
  BY <1>0, <1>3 DEF Call, TypeOK
<1>4. ASSUME NEW c \in Callers, Reuse(c) PROVE Rest'
  <2>1. token \in Tokens /\ token.expiry >= time + ExpiryDelta /\ token.expiry <= token.serverExpiry
    BY <1>0, <1>4 DEF Reuse, Valid, TypeOK
  <2>2. token.expiry \in Nat /\ token.serverExpiry \in Nat
    BY <2>1 DEF Tokens
  <2>3. ReusedTokenIsLive'
    BY <1>0, <1>4, <2>1, <2>2 DEF Reuse, TypeOK
  <2> QED
    BY <1>0, <1>4, <2>3 DEF Reuse, TypeOK
<1>5. ASSUME NEW c \in Callers, StartToken(c) PROVE Rest'
  BY <1>0, <1>5, OneInside DEF StartToken, TypeOK
<1>6. ASSUME NEW c \in Callers, DiscoveryFails(c) PROVE Rest'
  BY <1>0, <1>6, OneInside DEF DiscoveryFails, ReturnError, TypeOK
<1>7. ASSUME NEW c \in Callers, NEW doc \in Documents, DiscoveryReplies(c, doc) PROVE Rest'
  <2>1. CASE Acceptable(doc)
    <3>1. /\ pc[c] = "discover" /\ pc' = [pc EXCEPT ![c] = "exchange"]
          /\ vetted' /\ sentAt' = time /\ endpoint' # None
          /\ UNCHANGED <<time, holder, now, minted, token, handed>>
      BY <1>7, <2>1 DEF DiscoveryReplies, Acceptable
    <3>2. holder = c /\ sentAt = now /\ time <= now + RequestTimeout /\ now <= time
      BY <1>0, <3>1 DEF TypeOK
    <3>3. \A d \in Callers : d # c => pc[d] \notin {"discover", "exchange", "minted"}
      BY <1>0, <3>2 DEF TypeOK
    <3> QED
      BY <1>0, <3>1, <3>2, <3>3 DEF TypeOK
  <2>2. CASE ~Acceptable(doc)
    BY <1>0, <1>7, <2>2, OneInside DEF DiscoveryReplies, ReturnError, TypeOK
  <2> QED
    BY <1>7, <2>1, <2>2 DEF DiscoveryReplies
<1>8. ASSUME NEW c \in Callers, NEW life \in Lifetimes, ServerMints(c, life) PROVE Rest'
  <2>1. holder = c /\ now <= time /\ life \in Nat
    BY <1>0, <1>8 DEF ServerMints, TypeOK
  <2>2. MintedInv'
    BY <1>0, <1>8, <2>1 DEF ServerMints, TypeOK
  <2> QED
    BY <1>0, <1>8, <2>1, <2>2 DEF ServerMints, TypeOK
<1>9. ASSUME NEW c \in Callers, ExchangeReplies(c) PROVE Rest'
  <2>1. ExpiryIsConservative'
    BY <1>9 DEF ExchangeReplies, Expiry
  <2> QED
    BY <1>0, <1>9, <2>1, OneInside DEF ExchangeReplies, TypeOK
<1>10. ASSUME NEW c \in Callers, ExchangeFails(c) PROVE Rest'
  BY <1>0, <1>10, OneInside DEF ExchangeFails, ReturnError, TypeOK
<1> QED
  BY <1>1, <1>2, <1>3, <1>4, <1>5, <1>6, <1>7, <1>8, <1>9, <1>10 DEF Next, TokenStep

\* TokenInv holds in every reachable state.
THEOREM TokenInvariant == Spec => []TokenInv
<1>1. Init => TokenInv
  <2> SUFFICES ASSUME Init PROVE TokenInv
    OBVIOUS
  <2>1. TypeOK
    BY CallersAssumption, EndpointAssumption DEF Init, TypeOK
  <2>2. ClockInv /\ MintedInv /\ ExchangeOnlyWithVetted
    BY DEF Init, ClockInv, MintedInv, ExchangeOnlyWithVetted
  <2>3. ExpiryIsConservative /\ ReusedTokenIsLive /\ (endpoint # None => vetted)
    BY DEF Init, ExpiryIsConservative, ReusedTokenIsLive
  <2> QED
    BY <2>1, <2>2, <2>3 DEF TokenInv
<1> QED
  BY <1>1, TokenStepInv, PTL DEF Spec

\* A token handed out again is accepted by the server for at least the
\* early-expiry margin (see ReusedTokenIsLive).
THEOREM ReusedTokensAreLive == Spec => []ReusedTokenIsLive
<1>1. TokenInv => ReusedTokenIsLive
  BY DEF TokenInv
<1> QED
  BY <1>1, TokenInvariant, PTL

\* Assertions go to vetted endpoints only (see ExchangeOnlyWithVetted).
THEOREM ExchangesAreVetted == Spec => []ExchangeOnlyWithVetted
<1>1. TokenInv => ExchangeOnlyWithVetted
  BY DEF TokenInv
<1> QED
  BY <1>1, TokenInvariant, PTL

\* Two request timeouts fit into the assertion's lifetime, so an assertion
\* never expires on its way (see AssertionIsFresh).
THEOREM AssertionsAreFresh == Spec => []AssertionIsFresh
<1>1. TokenInv => AssertionIsFresh
  BY TimeAssumption, CallersAssumption DEF TokenInv, TypeOK, ClockInv, AssertionIsFresh
<1> QED
  BY <1>1, TokenInvariant, PTL

\* The types, and mutual exclusion: exactly the holder of the mutex is between
\* the start and the end of source.Token.
THEOREM TypeCorrect == Spec => []TypeOK
<1>1. TokenInv => TypeOK
  BY DEF TokenInv
<1> QED
  BY <1>1, TokenInvariant, PTL
===============================================================================
