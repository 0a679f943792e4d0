------------------------------- MODULE GcpStream -------------------------------
(***************************************************************************)
(* The Pub/Sub stream of the GCP source (internal/source/gcp) together     *)
(* with the mapper that receives from it.  Receive runs callbacks          *)
(* concurrently; a callback decodes its message, hands it to the mapper    *)
(* over the unbuffered channel and acknowledges it.  Pub/Sub (external)    *)
(* delivers a message again until an acknowledgement reaches it.           *)
(*                                                                         *)
(* Kinds of messages:                                                      *)
(*   "good"      a requested asset                                         *)
(*   "other"     an asset of a type nobody requested: acknowledged, dropped*)
(*   "bad"       not JSON: refused, so it comes back                       *)
(*   "empty"     a deletion without prior asset: refused too               *)
(*   "typeless"  no asset, or one without a type: IsTypeIn panics          *)
(***************************************************************************)
EXTENDS Naturals, FiniteSets

CONSTANTS
    Messages,
    Kind,        \* Kind[m]
    Callbacks,   \* callbacks Receive runs at the same time
    None,
    MaxRestarts  \* bound: process restarts

ASSUME KindAssumption == Kind \in [Messages -> {"good", "other", "bad", "empty", "typeless"}]
ASSUME NoneAssumption == None \notin Messages
ASSUME BoundAssumption == MaxRestarts \in Nat

VARIABLES
    run,        \* StartEventStream: idle, init (client made, not stored), receiving, stopping, returned, dead
    client,     \* the atomic client pointer: "nil" or "set"
    opened,     \* history: clients made by this process
    closed,     \* history: client.Close calls of this process
    cancelled,  \* the context is cancelled
    mapperGone, \* the mapper goroutine has seen it
    cpc,        \* cpc[c]: idle, handling, sending, acking
    msg,        \* msg[c]: message of callback c
    held,       \* item the mapper works on, None when it is ready to receive
    handed,     \* history: messages the mapper has received
    settled,    \* history: messages stored by the destination or dropped with a logged error
    dropped,    \* history: messages whose write was cancelled: neither stored nor logged
    acked,      \* messages Pub/Sub knows to be acknowledged
    restarts

vars == <<run, client, opened, closed, cancelled, mapperGone, cpc, msg, held, handed, settled,
          dropped, acked, restarts>>
clientVars == <<client, opened, closed>>
mapperVars == <<mapperGone, held, handed, settled, dropped>>
callbackVars == <<cpc, msg>>

Init ==
    /\ run = "idle" /\ client = "nil" /\ opened = 0 /\ closed = 0
    /\ cancelled = FALSE /\ mapperGone = FALSE
    /\ cpc = [c \in Callbacks |-> "idle"] /\ msg = [c \in Callbacks |-> None]
    /\ held = None /\ handed = {} /\ settled = {} /\ dropped = {} /\ acked = {}
    /\ restarts = 0

(***************************************************************************)
(* StartEventStream and Close.                                             *)
(***************************************************************************)

\* initPubSubClient: missing settings or a failed NewClient end the call.
InitClient ==
    /\ run = "idle"
    /\ \/ run' = "init" /\ opened' = opened + 1
       \/ run' = "returned" /\ UNCHANGED opened
    /\ UNCHANGED <<client, closed, cancelled, callbackVars, mapperVars, acked, restarts>>

\* p.c.Store(client), then Receive starts.
StoreClient ==
    /\ run = "init"
    /\ run' = "receiving" /\ client' = "set"
    /\ UNCHANGED <<opened, closed, cancelled, callbackVars, mapperVars, acked, restarts>>

\* Variant: the pointer is loaded, not swapped.
LoadAndClose ==
    /\ closed' = IF client = "set" THEN closed + 1 ELSE closed
    /\ UNCHANGED client

\* closePubSubClient: whoever swaps the pointer closes the client.
SwapAndClose ==
    /\ client' = "nil"
    /\ closed' = IF client = "set" THEN closed + 1 ELSE closed

\* Close, through Pipeline.Stop, ends a Receive that uses the client.
Close ==
    /\ SwapAndClose
    /\ run' = IF client = "set" /\ run = "receiving" THEN "stopping" ELSE run
    /\ UNCHANGED <<opened, cancelled, callbackVars, mapperVars, acked, restarts>>

\* Receive fails, or sees that the context is cancelled, and stops pulling.
ReceiveStops ==
    /\ run = "receiving" /\ run' = "stopping"
    /\ UNCHANGED <<clientVars, cancelled, callbackVars, mapperVars, acked, restarts>>

\* Receive returns when its callbacks have, and the deferred close runs.
ReceiveReturns ==
    /\ run = "stopping" /\ \A c \in Callbacks : cpc[c] = "idle"
    /\ run' = "returned"
    /\ SwapAndClose
    /\ UNCHANGED <<opened, cancelled, callbackVars, mapperVars, acked, restarts>>

Cancel ==
    /\ ~cancelled /\ run \notin {"idle", "dead"}
    /\ cancelled' = TRUE
    /\ UNCHANGED <<run, clientVars, callbackVars, mapperVars, acked, restarts>>

\* The process ends: what the callbacks and the mapper hold is gone, Pub/Sub
\* and the destination keep what they have.
ProcessEnds ==
    /\ client' = "nil" /\ opened' = 0 /\ closed' = 0
    /\ cancelled' = FALSE /\ mapperGone' = FALSE /\ held' = None
    /\ cpc' = [c \in Callbacks |-> "idle"] /\ msg' = [c \in Callbacks |-> None]
    /\ UNCHANGED <<handed, settled, dropped, acked>>

\* The process dies at any point, or is dead already, and is started again.
Restart ==
    /\ restarts < MaxRestarts /\ run # "idle"
    /\ restarts' = restarts + 1
    /\ run' = "idle"
    /\ ProcessEnds

(***************************************************************************)
(* A callback of Receive.                                                  *)
(***************************************************************************)

\* Pub/Sub delivers a message it has no acknowledgement for; an expired lease
\* makes it deliver one that another callback still works on.
Deliver(c, m) ==
    /\ run = "receiving" /\ cpc[c] = "idle" /\ m \notin acked
    /\ cpc' = [cpc EXCEPT ![c] = "handling"]
    /\ msg' = [msg EXCEPT ![c] = m]
    /\ UNCHANGED <<run, clientVars, cancelled, mapperVars, acked, restarts>>

Finish(c) ==
    /\ cpc' = [cpc EXCEPT ![c] = "idle"]
    /\ msg' = [msg EXCEPT ![c] = None]

\* Variant: no return after msg.Nack().
RefuseAndGoOn(c) ==
    /\ cpc[c] = "handling" /\ Kind[msg[c]] \in {"bad", "empty"}
    /\ cpc' = [cpc EXCEPT ![c] = "sending"]
    /\ UNCHANGED <<run, clientVars, cancelled, msg, mapperVars, acked, restarts>>

\* msg.Nack(): the message cannot be decoded, or its deletion has no prior asset.
Refuse(c) ==
    /\ cpc[c] = "handling" /\ Kind[msg[c]] \in {"bad", "empty"}
    /\ Finish(c)
    /\ UNCHANGED <<run, clientVars, cancelled, mapperVars, acked, restarts>>

\* e.Asset["assetType"].(string) panics for a message without an asset type:
\* the process ends, and Pub/Sub will deliver the message to the next one.
Panics(c) ==
    /\ cpc[c] = "handling" /\ Kind[msg[c]] = "typeless"
    /\ run' = "dead"
    /\ ProcessEnds
    /\ UNCHANGED restarts

\* Variant: msg.Ack() before results <- data.
AckFirst(c) ==
    /\ cpc[c] = "handling" /\ Kind[msg[c]] = "good"
    /\ cpc' = [cpc EXCEPT ![c] = "acking"]
    /\ UNCHANGED <<run, clientVars, cancelled, msg, mapperVars, acked, restarts>>

\* The callback reaches results <- data.
Accept(c) ==
    /\ cpc[c] = "handling" /\ Kind[msg[c]] = "good"
    /\ cpc' = [cpc EXCEPT ![c] = "sending"]
    /\ UNCHANGED <<run, clientVars, cancelled, msg, mapperVars, acked, restarts>>

\* An unrequested type goes straight to msg.Ack().
Skip(c) ==
    /\ cpc[c] = "handling" /\ Kind[msg[c]] = "other"
    /\ cpc' = [cpc EXCEPT ![c] = "acking"]
    /\ UNCHANGED <<run, clientVars, cancelled, msg, mapperVars, acked, restarts>>

\* Variant: a buffered channel, which completes the send while the mapper is
\* still busy with another message.
BufferedSend(c) ==
    /\ cpc[c] = "sending" /\ ~mapperGone
    /\ held' = msg[c] /\ handed' = handed \cup {msg[c]}
    /\ cpc' = [cpc EXCEPT ![c] = "acking"]
    /\ UNCHANGED <<run, clientVars, cancelled, msg, mapperGone, settled, dropped, acked, restarts>>

\* results <- data: the mapper takes the message from a blocked callback.
Send(c) ==
    /\ cpc[c] = "sending" /\ held = None /\ ~mapperGone
    /\ held' = msg[c] /\ handed' = handed \cup {msg[c]}
    /\ cpc' = [cpc EXCEPT ![c] = "acking"]
    /\ UNCHANGED <<run, clientVars, cancelled, msg, mapperGone, settled, dropped, acked, restarts>>

\* msg.Ack() reaches Pub/Sub, or is lost on the way.
Ack(c) ==
    /\ cpc[c] = "acking"
    /\ acked' \in {acked, acked \cup {msg[c]}}
    /\ Finish(c)
    /\ UNCHANGED <<run, clientVars, cancelled, mapperVars, restarts>>

(***************************************************************************)
(* The mapper (mappingData, see Pipeline).                                 *)
(***************************************************************************)

\* The message is stored, or refused with a logged error, or has no mapping.
MapperSettles ==
    /\ held # None
    /\ settled' = settled \cup {held} /\ held' = None
    /\ UNCHANGED <<run, clientVars, cancelled, callbackVars, mapperGone, handed, dropped, acked, restarts>>

\* The write is cancelled and handleError makes it nil: no log, and nothing
\* stored (or only later, see Pipeline).  The select may then still take
\* further messages from blocked callbacks.
MapperDrops ==
    /\ held # None /\ cancelled
    /\ dropped' = dropped \cup {held} /\ held' = None
    /\ UNCHANGED <<run, clientVars, cancelled, callbackVars, mapperGone, handed, settled, acked, restarts>>

\* Variant: the mapper ends without a cancelled context.
MapperExitsEarly ==
    /\ held = None /\ ~mapperGone
    /\ mapperGone' = TRUE
    /\ UNCHANGED <<run, clientVars, cancelled, callbackVars, held, handed, settled, dropped, acked, restarts>>

\* The select of mappingData sees ctx.Done().
MapperExits ==
    /\ held = None /\ cancelled /\ ~mapperGone
    /\ mapperGone' = TRUE
    /\ UNCHANGED <<run, clientVars, cancelled, callbackVars, held, handed, settled, dropped, acked, restarts>>

CallbackStep(c) == Refuse(c) \/ Panics(c) \/ Accept(c) \/ Skip(c) \/ Send(c) \/ Ack(c)

Next ==
    \/ InitClient \/ StoreClient \/ Close \/ ReceiveStops \/ ReceiveReturns \/ Cancel \/ Restart
    \/ MapperSettles \/ MapperDrops \/ MapperExits
    \/ \E c \in Callbacks : CallbackStep(c) \/ \E m \in Messages : Deliver(c, m)

Spec == Init /\ [][Next]_vars

\* Goroutines are scheduled, a blocked sender is served in turn, Pub/Sub
\* delivers every message that is not acknowledged again and again.  Nothing
\* obliges anybody to publish a message without an asset type.
Fairness ==
    /\ WF_vars(InitClient) /\ WF_vars(StoreClient) /\ WF_vars(MapperSettles)
    /\ \A c \in Callbacks : WF_vars(Refuse(c) \/ Panics(c) \/ Accept(c) \/ Skip(c) \/ Ack(c)) /\ SF_vars(Send(c))
    /\ \A m \in Messages : Kind[m] # "typeless" => SF_vars(\E c \in Callbacks : Deliver(c, m))

FairSpec == Spec /\ Fairness

(***************************************************************************)
(* Properties.                                                             *)
(***************************************************************************)

\* The variables have their types.
TypeOK ==
    /\ run \in {"idle", "init", "receiving", "stopping", "returned", "dead"}
    /\ client \in {"nil", "set"} /\ opened \in Nat /\ closed \in Nat
    /\ cancelled \in BOOLEAN /\ mapperGone \in BOOLEAN
    /\ cpc \in [Callbacks -> {"idle", "handling", "sending", "acking"}]
    /\ msg \in [Callbacks -> Messages \cup {None}]
    /\ \A c \in Callbacks :
         /\ cpc[c] = "idle" <=> msg[c] = None
         /\ cpc[c] = "sending" => Kind[msg[c]] = "good"
    /\ held \in Messages \cup {None}
    /\ handed \subseteq Messages /\ settled \subseteq Messages /\ dropped \subseteq Messages
    /\ acked \subseteq Messages
    /\ restarts \in 0 .. MaxRestarts

\* Pub/Sub forgets a message only after the mapper has received it, or when
\* nobody wants its type; what cannot be decoded is never acknowledged.
AckAfterHandOff ==
    \A m \in acked : Kind[m] = "other" \/ (Kind[m] = "good" /\ m \in handed)

\* The acknowledgement does not wait for the destination, but the channel has
\* no buffer: apart from the messages whose write was cancelled, at most the
\* one in the mapper's hands is acknowledged and unsettled, so a crash loses at
\* most one message.
OneLossPerCrash ==
    Cardinality({m \in acked : Kind[m] = "good" /\ m \notin settled \cup dropped}) <= 1 + restarts

\* Close, the deferred close and the start of the stream may race: a client
\* is closed at most once, and none is left open when the stream has ended.
ClientClosedOnce ==
    /\ closed <= opened
    /\ client = "set" => closed < opened
    /\ run = "returned" => closed = opened

\* As long as the stream goes on, every requested message is settled, whatever
\* other messages are refused and come back and however many acknowledgements
\* are lost; only the end of a process can lose one, and only after its
\* acknowledgement, or a cancelled write.  (A message without an asset type
\* ends the process whenever it is delivered: no stream goes on that meets it
\* again and again.)
GoodMessagesSettle ==
    \A m \in Messages :
        Kind[m] = "good" /\ <>[](run = "receiving" /\ ~cancelled)
            => <>(m \in settled \/ (restarts > 0 /\ m \in acked))
===============================================================================
