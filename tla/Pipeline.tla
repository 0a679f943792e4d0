------------------------------- MODULE Pipeline -------------------------------
(***************************************************************************)
(* One run of the data pipeline (internal/pipeline/pipeline.go): Start or  *)
(* Sync creates an unbuffered channel, starts the mapper goroutine, runs   *)
(* the source, closes the channel when the source returns and waits for    *)
(* the mapper.                                                             *)
(*                                                                         *)
(* Producers are the goroutines that execute `results <- data`.  The       *)
(* source call waits for some of them (a sync loop, the callbacks of a     *)
(* Pub/Sub Receive) and leaves the Detached ones behind (the goroutine of  *)
(* a webhook request, of an Event Hub partition).  Nearly every send is a  *)
(* plain one; only a Selecting producer, the Sysdig sync, also watches     *)
(* ctx.Done().                                                             *)
(*                                                                         *)
(* An item <<p, n>> is the n-th source.Data value of producer p.  Part 0   *)
(* of an item is the item itself, parts 1..NumExtras[i] are the extras     *)
(* (relationships) its mapping yields, in the order they are sent.         *)
(***************************************************************************)
EXTENDS Naturals, Sequences, FiniteSets

CONSTANTS
    Mode,         \* which interface the pipeline drives: "sync", "stream" or "webhook"
    Producers,    \* the goroutines that send on the channel
    Detached,     \* those the source call does not wait for
    Selecting,    \* those whose send selects on ctx.Done()
    Count,        \* Count[p]: how many items p has to send
    Fate,         \* Fate[i]: "unmapped" (no mapper for its type), "broken" (a template fails), "mapped"
    NumExtras,    \* NumExtras[i]: how many extras the mapping of i yields
    Catalog       \* the destination is the Catalog API; the writer otherwise

Items == UNION {{p} \X (1 .. Count[p]) : p \in Producers}

ASSUME ModeAssumption == /\ Mode \in {"sync", "stream", "webhook"}
                         /\ Catalog \in BOOLEAN
ASSUME ProducersAssumption == /\ Detached \subseteq Producers
                              /\ Selecting \subseteq Producers
                              /\ Count \in [Producers -> Nat]
\* A sync loop runs in the goroutine of the source call, a webhook handler
\* never does; no stream or webhook source selects on the context.
ASSUME SourceAssumption == /\ Mode = "sync" => Detached = {}
                           /\ Mode # "sync" => Selecting = {}
                           /\ Mode = "webhook" => Detached = Producers
ASSUME MappingAssumption == /\ Fate \in [Items -> {"unmapped", "broken", "mapped"}]
                            /\ NumExtras \in [Items -> Nat]

VARIABLES
    main,       \* the goroutine of Start/Sync: idle, running (the source), draining, returned
    err,        \* the error Start/Sync returns
    cancelled,  \* ctx.Done() is closed
    ppc,        \* producer: idle, busy (fetching), sending (at results <- data), done, failed
    pos,        \* pos[p]: items of p received by the mapper
    mpc,        \* mapper: select, call, wire (request sent), applied (stored, no reply yet), done
    cur,        \* item the mapper holds
    part,       \* part of cur being sent
    taken,      \* history: items in the order the mapper received them
    applied,    \* history: writes in the order the destination stored them
    failed,     \* history: writes whose error was logged
    given,      \* history: writes given up on while their request was on the wire
    panicked    \* a send on the closed channel killed the process

vars == <<main, err, cancelled, ppc, pos, mpc, cur, part, taken, applied, failed, given, panicked>>
producerVars == <<ppc, pos>>
mapperVars == <<mpc, cur, part, taken, applied, failed, given>>

Foreground == Producers \ Detached
Write(i, k) == [item |-> i, part |-> k]
Writes == [item : Items, part : Nat]
Range(s) == {s[k] : k \in DOMAIN s}

Init ==
    /\ main = "idle" /\ err = FALSE /\ cancelled = FALSE
    /\ ppc = [p \in Producers |-> "idle"]
    /\ pos = [p \in Producers |-> 0]
    /\ mpc = "select" /\ cur = <<>> /\ part = 0
    /\ taken = <<>> /\ applied = <<>> /\ failed = {} /\ given = {}
    /\ panicked = FALSE

(***************************************************************************)
(* The goroutine of Start and Sync.                                        *)
(***************************************************************************)

\* Sync: a source without StartSyncProcess is an error; otherwise the sync
\* loop runs here.
Sync ==
    /\ main = "idle" /\ Mode = "sync"
    /\ \/ main' = "returned" /\ err' = TRUE /\ UNCHANGED ppc
       \/ main' = "running" /\ ppc' = [p \in Producers |-> "busy"] /\ UNCHANGED err
    /\ UNCHANGED <<cancelled, pos, mapperVars, panicked>>

\* Start: the server cannot be created, or the source neither streams nor
\* serves a webhook; otherwise runDataPipeline calls the source.
Start ==
    /\ main = "idle" /\ Mode # "sync"
    /\ \/ main' = "returned" /\ err' = TRUE
       \/ main' = "running" /\ UNCHANGED err
    /\ UNCHANGED <<cancelled, producerVars, mapperVars, panicked>>

\* Variant: the error of the sync loop is dropped.
SourceErrorDropped ==
    /\ main = "running"
    /\ \A p \in Foreground : ppc[p] \notin {"busy", "sending"}
    /\ main' = "draining" /\ UNCHANGED err
    /\ UNCHANGED <<cancelled, producerVars, mapperVars, panicked>>

\* The dataPipeline function returns and close(channel) follows: a sync loop
\* has ended; Receive has waited for its callbacks; GetWebhook or the HTTP
\* server has failed.
SourceReturns ==
    /\ main = "running"
    /\ \A p \in Foreground : ppc[p] \notin {"busy", "sending"}
    /\ main' = "draining"
    /\ IF Mode = "sync"
         THEN err' = (\E p \in Foreground : ppc[p] = "failed")
         ELSE err' \in BOOLEAN
    /\ UNCHANGED <<cancelled, producerVars, mapperVars, panicked>>

\* Variant: return err without <-mappingDone.
MapperNotAwaited ==
    /\ main = "draining"
    /\ main' = "returned"
    /\ UNCHANGED <<err, cancelled, producerVars, mapperVars, panicked>>

\* <-mappingDone, then return err.
RunReturns ==
    /\ main = "draining" /\ mpc = "done"
    /\ main' = "returned"
    /\ UNCHANGED <<err, cancelled, producerVars, mapperVars, panicked>>

Cancel ==
    /\ ~cancelled
    /\ cancelled' = TRUE
    /\ UNCHANGED <<main, err, producerVars, mapperVars, panicked>>

(***************************************************************************)
(* Producers.                                                              *)
(***************************************************************************)

\* A webhook request or a stream callback starts a producer.
Spawn(p) ==
    /\ main = "running" /\ ppc[p] = "idle"
    /\ ppc' = [ppc EXCEPT ![p] = "busy"]
    /\ UNCHANGED <<main, err, cancelled, pos, mapperVars, panicked>>

\* The next value is ready: the producer reaches results <- data.
Produce(p) ==
    /\ ppc[p] = "busy" /\ pos[p] < Count[p]
    /\ ppc' = [ppc EXCEPT ![p] = "sending"]
    /\ UNCHANGED <<main, err, cancelled, pos, mapperVars, panicked>>

\* The producer ends without an error: nothing is left to send, ctx.Err() is
\* seen between two values, or what is left is skipped with a log line or
\* given up at a timeout that is taken for a cancellation.
Finish(p) ==
    /\ ppc[p] = "busy"
    /\ ppc' = [ppc EXCEPT ![p] = "done"]
    /\ UNCHANGED <<main, err, cancelled, pos, mapperVars, panicked>>

\* The remote API fails while the next value is fetched.
Fail(p) ==
    /\ ppc[p] = "busy"
    /\ ppc' = [ppc EXCEPT ![p] = "failed"]
    /\ UNCHANGED <<main, err, cancelled, pos, mapperVars, panicked>>

\* Variant: a plain results <- data.
NeverGivesUp(p) == FALSE

\* select { case results <- data: case <-ctx.Done(): return }
GiveUp(p) ==
    /\ p \in Selecting /\ ppc[p] = "sending" /\ cancelled
    /\ ppc' = [ppc EXCEPT ![p] = "done"]
    /\ UNCHANGED <<main, err, cancelled, pos, mapperVars, panicked>>

\* The request nobody will wait for any more.
OnWire == IF mpc = "wire" THEN {Write(cur, part)} ELSE {}

\* A sender, blocked or not, panics once the channel is closed: the process
\* ends, the mapper with it.
SendOnClosed(p) ==
    /\ main \in {"draining", "returned"} /\ ppc[p] = "sending"
    /\ panicked' = TRUE
    /\ mpc' = "done" /\ given' = given \cup OnWire
    /\ UNCHANGED <<main, err, cancelled, producerVars, cur, part, taken, applied, failed>>

(***************************************************************************)
(* The mapper goroutine (mappingData).                                     *)
(***************************************************************************)

\* One rendezvous on the unbuffered channel: p's send completes and the
\* mapper holds the item.  An unmapped or broken item is dropped at once.
HandOff(p) ==
    LET i == <<p, pos[p] + 1>> IN
    /\ main = "running" /\ ppc[p] = "sending" /\ mpc = "select"
    /\ ppc' = [ppc EXCEPT ![p] = "busy"]
    /\ pos' = [pos EXCEPT ![p] = @ + 1]
    /\ taken' = Append(taken, i)
    /\ IF Fate[i] = "mapped"
         THEN mpc' = "call" /\ cur' = i /\ part' = 0
         ELSE UNCHANGED <<mpc, cur, part>>
    /\ UNCHANGED <<main, err, cancelled, applied, failed, given, panicked>>

\* Variant: the mapper only watches ctx.Done().
MapperIgnoresClose ==
    /\ mpc = "select" /\ main # "idle" /\ cancelled
    /\ mpc' = "done"
    /\ UNCHANGED <<main, err, cancelled, producerVars, cur, part, taken, applied, failed, given, panicked>>

\* The select of mappingData sees ctx.Done() or the closed channel.
MapperExits ==
    /\ mpc = "select"
    /\ (main = "running" /\ cancelled) \/ main = "draining"
    /\ mpc' = "done"
    /\ UNCHANGED <<main, err, cancelled, producerVars, cur, part, taken, applied, failed, given, panicked>>

\* Variant: one extra too many.
AdvanceTooFar ==
    IF part <= NumExtras[cur]
      THEN mpc' = "call" /\ part' = part + 1
      ELSE mpc' = "select" /\ UNCHANGED part

\* Variants: the same part is sent again; the mapper returns after an item.
AdvanceAgain == mpc' = "call" /\ UNCHANGED part
AdvanceThenExit ==
    IF part < NumExtras[cur]
      THEN mpc' = "call" /\ part' = part + 1
      ELSE mpc' = "done" /\ UNCHANGED part

\* SendData or DeleteData returned nil: go on with the next extra, or with
\* the next item after the last one.
Advance ==
    IF part < NumExtras[cur]
      THEN mpc' = "call" /\ part' = part + 1
      ELSE mpc' = "select" /\ UNCHANGED part

\* Variant: the extras of a failed parent are sent too.
ExtrasDespiteError == Advance

\* SendData or DeleteData returned an error, which is logged: without its
\* parent no extra is sent, but a failed extra does not stop the others.
AfterError == IF part = 0 THEN mpc' = "select" /\ UNCHANGED part ELSE Advance

\* The writer prints the value under its lock and never fails.
WriterStores ==
    /\ ~Catalog /\ mpc = "call"
    /\ applied' = Append(applied, Write(cur, part))
    /\ Advance
    /\ UNCHANGED <<main, err, cancelled, producerVars, cur, taken, failed, given, panicked>>

\* handleRequest sends the POST; with a cancelled context Do fails at once.
CatalogRequest ==
    /\ Catalog /\ mpc = "call" /\ ~cancelled
    /\ mpc' = "wire"
    /\ UNCHANGED <<main, err, cancelled, producerVars, cur, part, taken, applied, failed, given, panicked>>

\* The Catalog stores the value of a request on the wire.
CatalogStores ==
    /\ mpc = "wire"
    /\ applied' = Append(applied, Write(cur, part))
    /\ mpc' = "applied"
    /\ UNCHANGED <<main, err, cancelled, producerVars, cur, part, taken, failed, given, panicked>>

\* 204 No Content; or context.Canceled, which handleError turns into nil
\* whether or not the request was sent or stored.
CatalogReturnsNil ==
    /\ Catalog
    /\ \/ mpc = "applied"
       \/ mpc \in {"call", "wire"} /\ cancelled
    /\ given' = given \cup OnWire
    /\ Advance
    /\ UNCHANGED <<main, err, cancelled, producerVars, cur, taken, applied, failed, panicked>>

\* Any other outcome: no client or token, transport error, refused status,
\* expired deadline, or a reply lost after the value was stored.
CatalogReturnsError ==
    /\ Catalog /\ mpc \in {"call", "wire", "applied"}
    /\ failed' = failed \cup {Write(cur, part)}
    /\ given' = given \cup OnWire
    /\ AfterError
    /\ UNCHANGED <<main, err, cancelled, producerVars, cur, taken, applied, panicked>>

\* Nobody takes a request back: the Catalog may store the value of one that
\* was cancelled or ran into an error at any later time, after the run has
\* returned or the process has ended too.
CatalogStoresLate ==
    \E w \in given \ Range(applied) :
        /\ applied' = Append(applied, w)
        /\ UNCHANGED <<main, err, cancelled, producerVars, mpc, cur, part, taken, failed, given, panicked>>

(***************************************************************************)
(* The specification.                                                      *)
(***************************************************************************)
MainStep == Sync \/ Start \/ SourceReturns \/ RunReturns
ProducerStep(p) ==
    Spawn(p) \/ Produce(p) \/ Finish(p) \/ Fail(p) \/ GiveUp(p) \/ SendOnClosed(p) \/ HandOff(p)
MapperStep ==
    \/ MapperExits \/ WriterStores
    \/ CatalogRequest \/ CatalogStores \/ CatalogReturnsNil \/ CatalogReturnsError

\* A panic ends the process, but not the Catalog.
Next ==
    \/ /\ ~panicked
       /\ MainStep \/ Cancel \/ MapperStep \/ \E p \in Producers : ProducerStep(p)
    \/ CatalogStoresLate

Spec == Init /\ [][Next]_vars

\* Go schedules every runnable goroutine and the Catalog answers or fails.
\* Nothing obliges a client to call a webhook, an API to fail, or the
\* context to be cancelled; a stream ends only when it is cancelled.
Fairness ==
    /\ WF_vars(~panicked /\ (Sync \/ RunReturns))
    /\ WF_vars(~panicked /\ (Mode = "sync" \/ (Mode = "stream" /\ cancelled)) /\ SourceReturns)
    /\ WF_vars(~panicked /\ MapperStep)
    /\ \A p \in Producers :
         /\ WF_vars(~panicked /\ (Produce(p) \/ Finish(p) \/ GiveUp(p) \/ SendOnClosed(p)))
         /\ SF_vars(~panicked /\ HandOff(p))

FairSpec == Spec /\ Fairness

(***************************************************************************)
(* Properties.                                                             *)
(***************************************************************************)

\* The variables have their types.
TypeOK ==
    /\ main \in {"idle", "running", "draining", "returned"}
    /\ err \in BOOLEAN /\ cancelled \in BOOLEAN /\ panicked \in BOOLEAN
    /\ ppc \in [Producers -> {"idle", "busy", "sending", "done", "failed"}]
    /\ pos \in [Producers -> Nat]
    /\ \A p \in Producers : pos[p] <= Count[p] /\ (ppc[p] = "sending" => pos[p] < Count[p])
    /\ mpc \in {"select", "call", "wire", "applied", "done"}
    /\ part \in Nat
    /\ mpc \in {"call", "wire", "applied"} => cur \in Items /\ part <= NumExtras[cur]
    /\ taken \in Seq(Items)
    /\ applied \in Seq(Writes)
    /\ failed \subseteq Writes /\ given \subseteq Writes

\* A relationship reaches the destination only after the item it belongs to:
\* neither a failed parent (the `continue` after SendData) nor a cancelled
\* one, which handleError reports as sent, lets its extras through.
ExtraAfterParent ==
    \A m \in DOMAIN applied : applied[m].part > 0 =>
        \E k \in 1 .. m - 1 : applied[k] = Write(applied[m].item, 0)

\* The destination stores every part at most once: the mapper is the only
\* sender and never retries.  It stores them in the order in which the mapper
\* received the items and built the extras, except that a request given up
\* on may be overtaken.
OnceInOrder ==
    \A m, n \in DOMAIN applied : m < n =>
        /\ applied[m] # applied[n]
        /\ applied[n] \notin given =>
             \A a, b \in DOMAIN taken :
                applied[m].item = taken[a] /\ applied[n].item = taken[b] =>
                    a < b \/ (a = b /\ applied[m].part < applied[n].part)

\* What a run makes of an item: dropped by the mapper, refused by the
\* destination, or stored with each of its extras stored or refused.
Settled(i) ==
    \/ Fate[i] # "mapped"
    \/ Write(i, 0) \in failed
    \/ /\ Write(i, 0) \in Range(applied)
       /\ \A k \in 1 .. NumExtras[i] : Write(i, k) \in Range(applied) \cup failed

\* When a run that was not cancelled returns, the mapper has drained the
\* channel: no part of an item it received is lost without a logged error.
NoSilentLoss ==
    main = "returned" /\ ~cancelled => \A i \in Range(taken) : Settled(i)

\* A sync that returns nil and was not cancelled dropped no error of the
\* source, left no send behind, and settled every value the source sent.
\* (That the source had everything to send is its own promise: OutcomeIsHonest
\* of SyncSource.)
CleanSyncIsSettled ==
    Mode = "sync" /\ main = "returned" /\ ~err /\ ~cancelled =>
        \A p \in Producers : ppc[p] = "done" /\ \A n \in 1 .. pos[p] : Settled(<<p, n>>)

\* A producer the source call waits for never meets the closed channel.
WaitedSendsEndBeforeClose ==
    main \in {"draining", "returned"} => \A p \in Foreground : ppc[p] # "sending"

\* No goroutine sends on the closed channel, which would end the process.
NoPanic == ~panicked

\* Once Start or Sync has returned no write is in progress, so the process can
\* exit: nothing is received, logged or sent afterwards, and the only thing
\* that can still reach the destination is a request given up on before.
ReturnIsFinal ==
    [][main = "returned" =>
         /\ UNCHANGED <<taken, failed, given>>
         /\ \/ UNCHANGED applied
            \/ \E w \in given : applied' = Append(applied, w)]_vars

\* Whatever the interleaving of goroutines, cancellation and Catalog
\* failures, the run implements the delivery it promises.
D == INSTANCE Delivery WITH
        Items <- Items,
        Storable <- {i \in Items : Fate[i] = "mapped"},
        NumExtras <- NumExtras,
        accepted <- taken,
        stored <- applied,
        abandoned <- given,
        ended <- main = "returned"
ImplementsDelivery == D!Spec

\* A run that is never cancelled returns (the sync command ends).
UncancelledReturns == []~cancelled => <>(main = "returned")

\* A run that is cancelled returns, unless a detached goroutine has ended the process.
CancelledReturns == cancelled /\ main # "idle" ~> main = "returned" \/ panicked

\* While the pipeline runs, every value a goroutine is blocked on is
\* eventually received by the mapper.
EverySendIsReceived ==
    \A p \in Producers : ppc[p] = "sending" ~>
        ppc[p] # "sending" \/ cancelled \/ main # "running"
===============================================================================
