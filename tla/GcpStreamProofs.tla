---------------------------- MODULE GcpStreamProofs ----------------------------
(***************************************************************************)
(* Proofs about GcpStream, for any set of messages, of any kinds, any      *)
(* number of concurrent callbacks and any number of restarts.              *)
(*                                                                         *)
(* The loss bound is not inductive over acked: an acknowledgement may      *)
(* arrive long after the hand-off, even after a crash took the message.    *)
(* What is inductive is a bound on the messages handed over, not settled,  *)
(* not dropped by a cancelled write and no longer held (Lost).             *)
(***************************************************************************)
EXTENDS GcpStream, FiniteSetTheorems, TLAPS

\* A callback acknowledges a message after its hand-off, or because nobody
\* wants its type.
AckingInv ==
    \A c \in Callbacks :
        cpc[c] = "acking" => Kind[msg[c]] = "other" \/ (Kind[msg[c]] = "good" /\ msg[c] \in handed)

Lost == (handed \ (settled \cup dropped)) \ {held}

\* Processes of the past: those restarted and the one that has just died.
Ended == restarts + (IF run = "dead" THEN 1 ELSE 0)

LossInv ==
    /\ IsFiniteSet(Lost) /\ Cardinality(Lost) <= Ended
    /\ run = "dead" => held = None
    /\ None \notin handed

\* The client is made before it is stored, and a missing pointer means that
\* nothing is left to close.
ClientInv ==
    /\ opened \in 0 .. 1 /\ closed \in 0 .. 1
    /\ run \in {"idle", "dead"} => opened = 0 /\ closed = 0 /\ client = "nil"
    /\ run = "dead" => \A c \in Callbacks : cpc[c] = "idle"
    /\ run = "init" => opened = 1 /\ closed = 0 /\ client = "nil"
    /\ client = "set" => opened = 1 /\ closed = 0 /\ run \in {"receiving", "stopping"}
    /\ client = "nil" /\ run \in {"receiving", "stopping"} => opened = 1 /\ closed = 1
    /\ run = "returned" => closed = opened

IInv == TypeOK /\ AckingInv /\ AckAfterHandOff /\ LossInv /\ ClientInv

\* Every step keeps the types.
LEMMA TypeStep == TypeOK /\ [Next]_vars => TypeOK'
  <1> SUFFICES ASSUME TypeOK, [Next]_vars PROVE TypeOK'
    OBVIOUS
  <1> USE KindAssumption, NoneAssumption, BoundAssumption
          DEF TypeOK, clientVars, mapperVars, callbackVars
  <1>1. CASE InitClient
    BY <1>1 DEF InitClient
  <1>2. CASE StoreClient
    BY <1>2 DEF StoreClient
  <1>3. CASE Close
    BY <1>3 DEF Close, SwapAndClose
  <1>4. CASE ReceiveStops
    BY <1>4 DEF ReceiveStops
  <1>5. CASE ReceiveReturns
    BY <1>5 DEF ReceiveReturns, SwapAndClose
  <1>6. CASE Cancel
    BY <1>6 DEF Cancel
  <1>7. CASE Restart
    <2>1. /\ restarts' \in 0 .. MaxRestarts
          /\ cpc' \in [Callbacks -> {"idle", "handling", "sending", "acking"}]
          /\ msg' \in [Callbacks -> Messages \cup {None}]
          /\ \A c \in Callbacks : cpc'[c] = "idle" /\ msg'[c] = None
      BY <1>7 DEF Restart, ProcessEnds
    <2> QED
      BY <1>7, <2>1 DEF Restart, ProcessEnds
  <1>8. CASE MapperSettles
    BY <1>8 DEF MapperSettles
  <1>9. CASE MapperExits
    BY <1>9 DEF MapperExits
  <1>10. ASSUME NEW c \in Callbacks, NEW m \in Messages, Deliver(c, m) PROVE TypeOK'
    BY <1>10 DEF Deliver
  <1>11. ASSUME NEW c \in Callbacks, Refuse(c) PROVE TypeOK'
    BY <1>11 DEF Refuse, Finish
  <1>12. ASSUME NEW c \in Callbacks, Accept(c) PROVE TypeOK'
    BY <1>12 DEF Accept
  <1>13. ASSUME NEW c \in Callbacks, Skip(c) PROVE TypeOK'
    BY <1>13 DEF Skip
  <1>14. ASSUME NEW c \in Callbacks, Send(c) PROVE TypeOK'
    <2>1. msg[c] \in Messages
      BY <1>14 DEF Send
    <2> QED
      BY <1>14, <2>1 DEF Send
  <1>15. ASSUME NEW c \in Callbacks, Ack(c) PROVE TypeOK'
    <2>1. msg[c] \in Messages
      BY <1>15 DEF Ack
    <2> QED
      BY <1>15, <2>1 DEF Ack, Finish
  <1>16. CASE UNCHANGED vars
    BY <1>16 DEF vars
  <1>17. CASE MapperDrops
    BY <1>17 DEF MapperDrops
  <1>18. ASSUME NEW c \in Callbacks, Panics(c) PROVE TypeOK'
    <2>1. /\ cpc' \in [Callbacks -> {"idle", "handling", "sending", "acking"}]
          /\ msg' \in [Callbacks -> Messages \cup {None}]
          /\ \A d \in Callbacks : cpc'[d] = "idle" /\ msg'[d] = None
      BY <1>18 DEF Panics, ProcessEnds
    <2> QED
      BY <1>18, <2>1 DEF Panics, ProcessEnds
  <1> QED
    BY <1>1, <1>2, <1>3, <1>4, <1>5, <1>6, <1>7, <1>8, <1>9, <1>10, <1>11, <1>12, <1>13, <1>14,
       <1>15, <1>16, <1>17, <1>18 DEF Next, CallbackStep

\* Every step keeps the acknowledgements justified.
LEMMA AckStep ==
    TypeOK /\ AckingInv /\ AckAfterHandOff /\ [Next]_vars => AckingInv' /\ AckAfterHandOff'
  <1> SUFFICES ASSUME TypeOK, AckingInv, AckAfterHandOff, [Next]_vars
               PROVE  AckingInv' /\ AckAfterHandOff'
    OBVIOUS
  <1> USE DEF TypeOK, AckingInv, AckAfterHandOff, clientVars, mapperVars, callbackVars
  <1>1. CASE UNCHANGED <<cpc, msg, handed, acked>>
    BY <1>1
  <1>2. CASE Restart \/ \E c \in Callbacks : Panics(c)
    BY <1>2 DEF Restart, Panics, ProcessEnds
  <1>3. ASSUME NEW c \in Callbacks, NEW m \in Messages, Deliver(c, m)
        PROVE  AckingInv' /\ AckAfterHandOff'
    BY <1>3 DEF Deliver
  <1>4. ASSUME NEW c \in Callbacks, Refuse(c) \/ Accept(c) PROVE AckingInv' /\ AckAfterHandOff'
    BY <1>4 DEF Refuse, Accept, Finish
  <1>5. ASSUME NEW c \in Callbacks, Skip(c) PROVE AckingInv' /\ AckAfterHandOff'
    BY <1>5 DEF Skip
  <1>6. ASSUME NEW c \in Callbacks, Send(c) PROVE AckingInv' /\ AckAfterHandOff'
    BY <1>6 DEF Send
  <1>7. ASSUME NEW c \in Callbacks, Ack(c) PROVE AckingInv' /\ AckAfterHandOff'
    BY <1>7 DEF Ack, Finish
  <1>8. UNCHANGED <<cpc, msg, handed, acked>> \/ Restart \/ \E c \in Callbacks :
          CallbackStep(c) \/ \E m \in Messages : Deliver(c, m)
    BY DEF Next, InitClient, StoreClient, Close, ReceiveStops, ReceiveReturns, Cancel,
       MapperSettles, MapperDrops, MapperExits, vars
  <1> QED
    BY <1>1, <1>2, <1>3, <1>4, <1>5, <1>6, <1>7, <1>8 DEF CallbackStep

\* Every step keeps the bound on what the end of a process has lost: only one
\* that finds the mapper busy adds to it.
LEMMA LossStep == TypeOK /\ LossInv /\ ClientInv /\ [Next]_vars => LossInv'
  <1> SUFFICES ASSUME TypeOK, LossInv, ClientInv, [Next]_vars PROVE LossInv'
    OBVIOUS
  <1> USE NoneAssumption DEF clientVars, mapperVars, callbackVars
  <1>0. restarts \in Nat /\ Ended \in Nat
    BY BoundAssumption DEF TypeOK, Ended
  <1>1. ASSUME Lost' \subseteq Lost, Ended' = Ended PROVE IsFiniteSet(Lost') /\ Cardinality(Lost') <= Ended'
    <2>1. IsFiniteSet(Lost') /\ Cardinality(Lost') <= Cardinality(Lost)
      BY <1>1, FS_Subset DEF LossInv
    <2>2. Cardinality(Lost) \in Nat /\ Cardinality(Lost') \in Nat
      BY <2>1, FS_CardinalityType DEF LossInv
    <2> QED
      BY <1>0, <1>1, <2>1, <2>2 DEF LossInv
  <1>2. CASE UNCHANGED <<handed, settled, dropped, held, restarts>> /\ (run' = "dead" <=> run = "dead")
    <2>1. Lost' = Lost /\ Ended' = Ended
      BY <1>2 DEF Lost, Ended
    <2> QED
      BY <1>1, <1>2, <2>1 DEF LossInv
  <1>3. ASSUME UNCHANGED <<handed, settled, dropped>>, held' = None, run # "dead", Ended' = Ended + 1
        PROVE  LossInv'
    <2>1. Lost' \subseteq Lost \cup {held}
      BY <1>3 DEF Lost
    <2>2. /\ IsFiniteSet(Lost \cup {held}) /\ Cardinality(Lost) \in Nat
          /\ Cardinality(Lost \cup {held}) <= Cardinality(Lost) + 1
      <3>1. IsFiniteSet(Lost) /\ Cardinality(Lost) \in Nat
        BY FS_CardinalityType DEF LossInv
      <3>2. /\ IsFiniteSet(Lost \cup {held})
            /\ Cardinality(Lost \cup {held}) =
                 IF held \in Lost THEN Cardinality(Lost) ELSE Cardinality(Lost) + 1
        BY <3>1, FS_AddElement, Zenon
      <3> QED
        BY <3>1, <3>2, SMT
    <2>3. IsFiniteSet(Lost') /\ Cardinality(Lost') <= Cardinality(Lost \cup {held})
      BY <2>1, <2>2, FS_Subset
    <2>4. Cardinality(Lost') \in Nat /\ Cardinality(Lost \cup {held}) \in Nat
      BY <2>2, <2>3, FS_CardinalityType
    <2>5. Cardinality(Lost') <= Ended'
      BY <1>0, <1>3, <2>2, <2>3, <2>4 DEF LossInv
    <2> QED
      BY <1>3, <2>3, <2>5 DEF LossInv
  <1>4. CASE Restart
    <2>1. /\ UNCHANGED <<handed, settled, dropped>> /\ held' = None
          /\ run' = "idle" /\ restarts' = restarts + 1
      BY <1>4 DEF Restart, ProcessEnds
    <2>2. CASE run = "dead"
      <3>1. Lost' = Lost /\ Ended' = Ended
        BY <1>0, <2>1, <2>2 DEF Lost, Ended, LossInv
      <3> QED
        BY <1>1, <2>1, <3>1 DEF LossInv
    <2>3. CASE run # "dead"
      <3>1. Ended' = Ended + 1
        BY <1>0, <2>1, <2>3 DEF Ended
      <3> QED
        BY <1>3, <2>1, <2>3, <3>1
    <2> QED
      BY <2>2, <2>3
  <1>5. ASSUME NEW c \in Callbacks, Panics(c) PROVE LossInv'
    <2>1. /\ UNCHANGED <<handed, settled, dropped, restarts>> /\ held' = None
          /\ run' = "dead" /\ run # "dead"
      BY <1>5 DEF Panics, ProcessEnds, ClientInv
    <2>2. Ended' = Ended + 1
      BY <1>0, <2>1 DEF Ended
    <2> QED
      BY <1>3, <2>1, <2>2
  <1>6. CASE MapperSettles \/ MapperDrops
    <2>1. /\ Lost' \subseteq Lost /\ UNCHANGED <<run, restarts, handed>> /\ held' = None
      BY <1>6 DEF MapperSettles, MapperDrops, Lost, LossInv
    <2>2. Ended' = Ended
      BY <2>1 DEF Ended
    <2> QED
      BY <1>1, <2>1, <2>2 DEF LossInv
  <1>7. ASSUME NEW c \in Callbacks, Send(c) PROVE LossInv'
    <2>1. msg[c] \in Messages /\ run # "dead"
      BY <1>7 DEF Send, TypeOK, ClientInv
    <2>2. Lost' \subseteq Lost /\ UNCHANGED <<run, restarts>> /\ None \notin handed'
      BY <1>7, <2>1 DEF Send, Lost, LossInv
    <2>3. Ended' = Ended
      BY <2>2 DEF Ended
    <2> QED
      BY <1>1, <2>1, <2>2, <2>3 DEF LossInv
  <1>8. \/ UNCHANGED <<handed, settled, dropped, held, restarts>> /\ (run' = "dead" <=> run = "dead")
        \/ Restart \/ MapperSettles \/ MapperDrops
        \/ \E c \in Callbacks : Send(c) \/ Panics(c)
    BY DEF Next, CallbackStep, InitClient, StoreClient, Close, ReceiveStops, ReceiveReturns,
       Cancel, MapperExits, Deliver, Refuse, Accept, Skip, Ack, vars
  <1> QED
    BY <1>2, <1>4, <1>5, <1>6, <1>7, <1>8

\* Every step keeps the account of opened and closed clients.
LEMMA ClientStep == TypeOK /\ ClientInv /\ [Next]_vars => ClientInv'
  <1> SUFFICES ASSUME TypeOK, ClientInv, [Next]_vars PROVE ClientInv'
    OBVIOUS
  <1> USE DEF ClientInv, TypeOK, clientVars, callbackVars
  <1>1. CASE InitClient
    BY <1>1 DEF InitClient
  <1>2. CASE StoreClient
    BY <1>2 DEF StoreClient
  <1>3. CASE Close
    BY <1>3 DEF Close, SwapAndClose
  <1>4. CASE ReceiveStops
    BY <1>4 DEF ReceiveStops
  <1>5. CASE ReceiveReturns
    BY <1>5 DEF ReceiveReturns, SwapAndClose
  <1>6. CASE Restart \/ \E c \in Callbacks : Panics(c)
    BY <1>6 DEF Restart, Panics, ProcessEnds
  <1>7. CASE UNCHANGED <<run, client, opened, closed>> /\ (run = "dead" => UNCHANGED cpc)
    BY <1>7
  <1>8. \/ InitClient \/ StoreClient \/ Close \/ ReceiveStops \/ ReceiveReturns \/ Restart
        \/ \E c \in Callbacks : Panics(c)
        \/ UNCHANGED <<run, client, opened, closed>> /\ (run = "dead" => UNCHANGED cpc)
    BY DEF Next, CallbackStep, Cancel, MapperSettles, MapperDrops, MapperExits, Deliver, Refuse, Accept, Skip,
       Send, Ack, vars
  <1> QED
    BY <1>1, <1>2, <1>3, <1>4, <1>5, <1>6, <1>7, <1>8

\* The strengthened invariant holds in every reachable state.
THEOREM StreamInvariant == Spec => []IInv
  <1>1. Init => IInv
    <2> SUFFICES ASSUME Init PROVE IInv
      OBVIOUS
    <2>1. TypeOK
      <3>1. /\ restarts \in 0 .. MaxRestarts
            /\ cpc \in [Callbacks -> {"idle", "handling", "sending", "acking"}]
            /\ msg \in [Callbacks -> Messages \cup {None}]
            /\ \A c \in Callbacks : cpc[c] = "idle" /\ msg[c] = None
        BY BoundAssumption DEF Init
      <3> QED
        BY <3>1 DEF Init, TypeOK
    <2>2. AckingInv /\ AckAfterHandOff /\ ClientInv
      BY DEF Init, AckingInv, AckAfterHandOff, ClientInv
    <2>3. LossInv
      <3>1. Lost = {}
        BY DEF Init, Lost
      <3> QED
        BY <3>1, FS_EmptySet, BoundAssumption DEF Init, LossInv, Ended
    <2> QED
      BY <2>1, <2>2, <2>3 DEF IInv
  <1>2. IInv /\ [Next]_vars => IInv'
    BY TypeStep, AckStep, LossStep, ClientStep DEF IInv
  <1> QED
    BY <1>1, <1>2, PTL DEF Spec

\* Pub/Sub is told to forget a message only after the mapper has received it
\* or because its type is not requested.
THEOREM AcksAreJustified == Spec => []AckAfterHandOff
  <1>1. IInv => AckAfterHandOff
    BY DEF IInv
  <1> QED
    BY StreamInvariant, <1>1, PTL

\* The end of a process loses at most the one message in the mapper's hands,
\* however many callbacks run concurrently; only cancelled writes add to it.
THEOREM LossIsBounded == Spec => []OneLossPerCrash
  <1>1. IInv => OneLossPerCrash
    <2> SUFFICES ASSUME IInv PROVE OneLossPerCrash
      OBVIOUS
    <2> DEFINE S == {m \in acked : Kind[m] = "good" /\ m \notin settled \cup dropped}
    <2>0. restarts \in Nat
      BY BoundAssumption DEF IInv, TypeOK
    <2>1. S \subseteq Lost \cup {held}
      BY DEF IInv, AckAfterHandOff, Lost
    <2>2. /\ IsFiniteSet(Lost) /\ Cardinality(Lost) \in Nat /\ Cardinality(Lost) <= Ended
      BY FS_CardinalityType DEF IInv, LossInv
    <2>3. CASE run = "dead"
      <3>1. S \subseteq Lost
        BY <2>1, <2>3, NoneAssumption DEF IInv, LossInv, TypeOK
      <3>2. IsFiniteSet(S) /\ Cardinality(S) <= Cardinality(Lost)
        BY <2>2, <3>1, FS_Subset
      <3>3. Cardinality(S) \in Nat
        BY <3>2, FS_CardinalityType
      <3>4. Cardinality(S) <= 1 + restarts
        BY <2>0, <2>2, <2>3, <3>2, <3>3 DEF Ended
      <3> QED
        BY <3>4 DEF OneLossPerCrash
    <2>4. CASE run # "dead"
      <3>1. /\ IsFiniteSet(Lost \cup {held})
            /\ Cardinality(Lost \cup {held}) <= Cardinality(Lost) + 1
        BY <2>2, FS_AddElement
      <3>2. IsFiniteSet(S) /\ Cardinality(S) <= Cardinality(Lost \cup {held})
        BY <2>1, <3>1, FS_Subset
      <3>3. Cardinality(S) \in Nat /\ Cardinality(Lost \cup {held}) \in Nat
        BY <3>1, <3>2, FS_CardinalityType
      <3>4. Cardinality(S) <= 1 + restarts
        BY <2>0, <2>2, <2>4, <3>1, <3>2, <3>3 DEF Ended
      <3> QED
        BY <3>4 DEF OneLossPerCrash
    <2> QED
      BY <2>3, <2>4
  <1> QED
    BY StreamInvariant, <1>1, PTL

\* However Close and the deferred close interleave, a client is closed once
\* and none outlives the stream.
THEOREM ClientsAreClosed == Spec => []ClientClosedOnce
  <1>1. IInv => ClientClosedOnce
    BY DEF IInv, TypeOK, ClientInv, ClientClosedOnce
  <1> QED
    BY StreamInvariant, <1>1, PTL

\* The types; a callback holds a message exactly while it is busy, and only a
\* good one is sent.
THEOREM TypeCorrect == Spec => []TypeOK
  <1>1. IInv => TypeOK
    BY DEF IInv
  <1> QED
    BY StreamInvariant, <1>1, PTL
===============================================================================
