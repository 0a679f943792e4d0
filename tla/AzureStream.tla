------------------------------ MODULE AzureStream ------------------------------
(***************************************************************************)
(* The Event Hub stream of the Azure source (internal/source/azure):       *)
(* StartEventStream starts one goroutine per partition and waits for the   *)
(* processor only.  A partition goroutine receives a batch, handles every  *)
(* event of it and stores a checkpoint after each; whoever claims the      *)
(* partition next resumes from the stored checkpoint.  The pipeline closes *)
(* the channel as soon as StartEventStream returns.                        *)
(*                                                                         *)
(* Several processes share the hub and its checkpoint store.  Which one    *)
(* owns a partition is settled between them behind the processor (an       *)
(* external library): a process may claim a partition at any time, and the *)
(* former owner finds out only when it receives again, so that it may be   *)
(* handling a batch, and storing checkpoints, late.                        *)
(*                                                                         *)
(* An event is a sequence of CloudEvent kinds:                             *)
(*   "write"   resource written: its current state is fetched by id        *)
(*   "delete"  resource deleted: forwarded as it is                        *)
(*   "untimed" either of them without a time, which the code dereferences  *)
(*   "skip"    unparsable subject, type not requested, no apiVersion, or   *)
(*             any other event type                                        *)
(* A body that is not JSON is the empty sequence.                          *)
(***************************************************************************)
EXTENDS Naturals, Sequences, FiniteSets

CONSTANTS
    Processes,    \* replicas of the command
    Partitions,
    Log,          \* Log[p]: the events of partition p, in order
    BatchSize     \* events per ReceiveEvents call (10)

ASSUME LogAssumption ==
    Log \in [Partitions -> Seq(Seq({"write", "delete", "untimed", "skip"}))]
ASSUME BatchAssumption == BatchSize \in Nat \ {0}

\* A client is the goroutine of a process for a partition.
Clients == Processes \X Partitions
Proc(c) == c[1]
Part(c) == c[2]

VARIABLES
    run,         \* run[r]: idle, running, returned (and the channel closed), dead (a panic)
    cancelled,   \* cancelled[r]: the derived context of the run is cancelled
    deaf,        \* deaf[r]: the parent context is cancelled: the mapper no longer receives
    gpc,         \* gpc[c]: none, receiving, handling, fetching, sending, stopped
    event,       \* event[c]: index of the event being handled, or of the last one handled
    last,        \* last[c]: index of the last event of the batch
    item,        \* item[c]: index of the CloudEvent in the event
    checkpoint,  \* checkpoint[p]: index of the event in the checkpoint store (survives a crash)
    handed,      \* history: <<p, event, item>> received by a mapper
    failed,      \* history: <<p, event, item>> whose fetch failed, logged as an error
    dropped      \* history: <<p, event, item>> whose fetch was cancelled

vars == <<run, cancelled, deaf, gpc, event, last, item, checkpoint, handed, failed, dropped>>
runVars == <<run, cancelled, deaf>>
history == <<handed, failed, dropped>>

Init ==
    /\ run = [r \in Processes |-> "idle"]
    /\ cancelled = [r \in Processes |-> FALSE]
    /\ deaf = [r \in Processes |-> FALSE]
    /\ gpc = [c \in Clients |-> "none"]
    /\ event = [c \in Clients |-> 0]
    /\ last = [c \in Clients |-> 0]
    /\ item = [c \in Clients |-> 0]
    /\ checkpoint = [p \in Partitions |-> 0]
    /\ handed = {} /\ failed = {} /\ dropped = {}

(***************************************************************************)
(* StartEventStream, Close and the process.                                *)
(***************************************************************************)

\* Missing settings or a client that cannot be built end the call at once.
StartEventStream(r) ==
    /\ run[r] = "idle"
    /\ \E next \in {"running", "returned"} : run' = [run EXCEPT ![r] = next]
    /\ UNCHANGED <<cancelled, deaf, gpc, event, last, item, checkpoint, history>>

\* processor.Run ends, on an error or because its context is cancelled; the
\* deferred cancel follows, and the pipeline closes the channel.
RunReturns(r) ==
    /\ run[r] = "running"
    /\ run' = [run EXCEPT ![r] = "returned"]
    /\ cancelled' = [cancelled EXCEPT ![r] = TRUE]
    /\ UNCHANGED <<deaf, gpc, event, last, item, checkpoint, history>>

\* Close, through Pipeline.Stop: cancels the context of the run in progress
\* (eventStreamContext holds its cancel function, and gives it away once).
Close(r) ==
    /\ run[r] = "running" /\ ~cancelled[r]
    /\ cancelled' = [cancelled EXCEPT ![r] = TRUE]
    /\ UNCHANGED <<run, deaf, gpc, event, last, item, checkpoint, history>>

\* The pipeline's own context is cancelled: the derived one too, and the
\* mapper goroutine stops receiving.
CancelParent(r) ==
    /\ run[r] = "running" /\ ~deaf[r]
    /\ deaf' = [deaf EXCEPT ![r] = TRUE]
    /\ cancelled' = [cancelled EXCEPT ![r] = TRUE]
    /\ UNCHANGED <<run, gpc, event, last, item, checkpoint, history>>

\* The memory of a process is gone; only the checkpoint store is left.
Loses(r, next) ==
    /\ run' = [run EXCEPT ![r] = next]
    /\ cancelled' = [cancelled EXCEPT ![r] = FALSE]
    /\ deaf' = [deaf EXCEPT ![r] = FALSE]
    /\ gpc' = [c \in Clients |-> IF Proc(c) = r THEN "none" ELSE gpc[c]]
    /\ event' = [c \in Clients |-> IF Proc(c) = r THEN 0 ELSE event[c]]
    /\ last' = [c \in Clients |-> IF Proc(c) = r THEN 0 ELSE last[c]]
    /\ item' = [c \in Clients |-> IF Proc(c) = r THEN 0 ELSE item[c]]
    /\ UNCHANGED <<checkpoint, handed, failed, dropped>>

\* The process dies, at any point, and is started again.
Restart(r) ==
    /\ run[r] # "idle"
    /\ Loses(r, "idle")

(***************************************************************************)
(* A partition goroutine (startPartitionClients).                          *)
(***************************************************************************)

\* NextPartitionClient yields a partition, positioned after its checkpoint; a
\* client of another process may still be at work on it.
Claim(c) ==
    /\ run[Proc(c)] = "running" /\ ~cancelled[Proc(c)] /\ gpc[c] = "none"
    /\ gpc' = [gpc EXCEPT ![c] = "receiving"]
    /\ event' = [event EXCEPT ![c] = checkpoint[Part(c)]]
    /\ last' = [last EXCEPT ![c] = checkpoint[Part(c)]]
    /\ UNCHANGED <<runVars, item, checkpoint, history>>

\* ReceiveEvents returns a batch of 1..BatchSize events.
Receive(c) ==
    /\ gpc[c] = "receiving" /\ event[c] < Len(Log[Part(c)])
    /\ \E n \in 1 .. BatchSize :
         /\ event[c] + n <= Len(Log[Part(c)])
         /\ last' = [last EXCEPT ![c] = event[c] + n]
    /\ event' = [event EXCEPT ![c] = @ + 1]
    /\ item' = [item EXCEPT ![c] = 1]
    /\ gpc' = [gpc EXCEPT ![c] = "handling"]
    /\ UNCHANGED <<runVars, checkpoint, history>>

\* ReceiveEvents fails: a cancelled context, a lost ownership or any other
\* error end the goroutine; the partition can be claimed again.
ReceiveFails(c) ==
    /\ gpc[c] = "receiving"
    /\ gpc' = [gpc EXCEPT ![c] = IF cancelled[Proc(c)] THEN "stopped" ELSE "none"]
    /\ event' = [event EXCEPT ![c] = 0]
    /\ last' = [last EXCEPT ![c] = 0]
    /\ item' = [item EXCEPT ![c] = 0]
    /\ UNCHANGED <<runVars, checkpoint, history>>

Body(c) == Log[Part(c)][event[c]]
Here(c) == <<Part(c), event[c], item[c]>>
HasItem(c) == gpc[c] = "handling" /\ item[c] <= Len(Body(c))
Kind(c) == Body(c)[item[c]]
NextItem(c) ==
    /\ item' = [item EXCEPT ![c] = @ + 1]
    /\ gpc' = [gpc EXCEPT ![c] = "handling"]

SkipItem(c) ==
    /\ HasItem(c) /\ Kind(c) = "skip"
    /\ NextItem(c)
    /\ UNCHANGED <<runVars, event, last, checkpoint, history>>

\* A written resource is fetched by id ...
Fetch(c) ==
    /\ HasItem(c) /\ Kind(c) \in {"write", "untimed"} /\ ~cancelled[Proc(c)]
    /\ gpc' = [gpc EXCEPT ![c] = "fetching"]
    /\ UNCHANGED <<runVars, event, last, item, checkpoint, history>>

\* ... and sent when the answer can be used.
Fetched(c) ==
    /\ gpc[c] = "fetching" /\ Kind(c) = "write"
    /\ gpc' = [gpc EXCEPT ![c] = "sending"]
    /\ UNCHANGED <<runVars, event, last, item, checkpoint, history>>

\* Variant: the handler returns on the first failed fetch.
FetchFailureEndsEvent(c) ==
    /\ gpc[c] = "fetching"
    /\ failed' = failed \cup {Here(c)}
    /\ item' = [item EXCEPT ![c] = Len(Body(c)) + 1]
    /\ gpc' = [gpc EXCEPT ![c] = "handling"]
    /\ UNCHANGED <<runVars, event, last, checkpoint, handed, dropped>>

\* GetByID fails or its answer cannot be decoded: the handler goes on with the
\* next CloudEvent, and the event will be checkpointed like any other.
FetchFails(c) ==
    /\ gpc[c] = "fetching"
    /\ failed' = failed \cup {Here(c)}
    /\ NextItem(c)
    /\ UNCHANGED <<runVars, event, last, checkpoint, handed, dropped>>

\* GetByID returns context.Canceled: the handler goes on here too.
FetchCancelled(c) ==
    /\ cancelled[Proc(c)]
    /\ gpc[c] = "fetching" \/ (HasItem(c) /\ Kind(c) \in {"write", "untimed"})
    /\ dropped' = dropped \cup {Here(c)}
    /\ NextItem(c)
    /\ UNCHANGED <<runVars, event, last, checkpoint, handed, failed>>

\* A deletion is sent without looking at the context.
ForwardDelete(c) ==
    /\ HasItem(c) /\ Kind(c) = "delete"
    /\ gpc' = [gpc EXCEPT ![c] = "sending"]
    /\ UNCHANGED <<runVars, event, last, item, checkpoint, history>>

\* The time of a CloudEvent is dereferenced to build the data of a deletion, or
\* of a write once it is fetched: without one the process dies.
Panics(c) ==
    /\ gpc[c] = "fetching" \/ HasItem(c)
    /\ Kind(c) = "untimed"
    /\ Loses(Proc(c), "dead")

\* dataChannel <- data, received by the mapper ...
Send(c) ==
    /\ gpc[c] = "sending" /\ run[Proc(c)] = "running" /\ ~deaf[Proc(c)]
    /\ handed' = handed \cup {Here(c)}
    /\ NextItem(c)
    /\ UNCHANGED <<runVars, event, last, checkpoint, failed, dropped>>

\* ... or executed after the channel was closed, which panics.
SendOnClosed(c) ==
    /\ gpc[c] = "sending" /\ run[Proc(c)] = "returned"
    /\ Loses(Proc(c), "dead")

\* Variants: one event past the batch; the goroutine ends with its first batch.
NextEventTooFar(c) ==
    IF event[c] <= last[c]
      THEN /\ event' = [event EXCEPT ![c] = @ + 1]
           /\ item' = [item EXCEPT ![c] = 1]
           /\ UNCHANGED gpc
      ELSE /\ gpc' = [gpc EXCEPT ![c] = "receiving"]
           /\ item' = [item EXCEPT ![c] = 0]
           /\ UNCHANGED event
OneBatchOnly(c) ==
    IF event[c] < last[c]
      THEN /\ event' = [event EXCEPT ![c] = @ + 1]
           /\ item' = [item EXCEPT ![c] = 1]
           /\ UNCHANGED gpc
      ELSE /\ gpc' = [gpc EXCEPT ![c] = "stopped"]
           /\ UNCHANGED <<event, item>>

\* Past the last CloudEvent: on to the next event of the batch, or receive.
NextEvent(c) ==
    IF event[c] < last[c]
      THEN /\ event' = [event EXCEPT ![c] = @ + 1]
           /\ item' = [item EXCEPT ![c] = 1]
           /\ UNCHANGED gpc
      ELSE /\ gpc' = [gpc EXCEPT ![c] = "receiving"]
           /\ item' = [item EXCEPT ![c] = 0]
           /\ UNCHANGED event

Handled(c) == gpc[c] = "handling" /\ item[c] > Len(Body(c))

\* Variant: the checkpoint outlives the cancelled context.
CheckpointAnyway(c) ==
    /\ Handled(c)
    /\ checkpoint' = [checkpoint EXCEPT ![Part(c)] = event[c]]
    /\ NextEvent(c)
    /\ UNCHANGED <<runVars, last, history>>

\* UpdateCheckpoint succeeds ...
UpdateCheckpoint(c) ==
    /\ Handled(c) /\ ~cancelled[Proc(c)]
    /\ checkpoint' = [checkpoint EXCEPT ![Part(c)] = event[c]]
    /\ NextEvent(c)
    /\ UNCHANGED <<runVars, last, history>>

\* ... or fails, which is logged, or ignored when the context is cancelled.
CheckpointFails(c) ==
    /\ Handled(c)
    /\ NextEvent(c)
    /\ UNCHANGED <<runVars, last, checkpoint, history>>

(***************************************************************************)
(* The specification.                                                      *)
(***************************************************************************)
ClientStep(c) ==
    \/ Claim(c) \/ Receive(c) \/ SkipItem(c) \/ Fetch(c) \/ Fetched(c)
    \/ FetchFails(c) \/ FetchCancelled(c) \/ ForwardDelete(c) \/ Panics(c)
    \/ Send(c) \/ SendOnClosed(c) \/ UpdateCheckpoint(c) \/ CheckpointFails(c)

Next ==
    \/ \E r \in Processes :
         StartEventStream(r) \/ RunReturns(r) \/ Close(r) \/ CancelParent(r) \/ Restart(r)
    \/ \E c \in Clients : ClientStep(c) \/ ReceiveFails(c)

Spec == Init /\ [][Next]_vars

\* The goroutines are scheduled and requests end; processor.Run returns once
\* its context is cancelled.  Nothing is assumed of errors, Close or crashes.
Fairness ==
    /\ \A r \in Processes :
         /\ WF_vars(StartEventStream(r))
         /\ WF_vars(cancelled[r] /\ RunReturns(r))
    /\ \A c \in Clients : WF_vars(ClientStep(c))

FairSpec == Spec /\ Fairness

(***************************************************************************)
(* Properties.                                                             *)
(***************************************************************************)

\* The variables have their types, and a client stays inside its batch and
\* inside the event it handles.
TypeOK ==
    /\ run \in [Processes -> {"idle", "running", "returned", "dead"}]
    /\ cancelled \in [Processes -> BOOLEAN] /\ deaf \in [Processes -> BOOLEAN]
    /\ gpc \in [Clients -> {"none", "receiving", "handling", "fetching", "sending", "stopped"}]
    /\ event \in [Clients -> Nat] /\ last \in [Clients -> Nat] /\ item \in [Clients -> Nat]
    /\ checkpoint \in [Partitions -> Nat]
    /\ \A p \in Partitions : checkpoint[p] <= Len(Log[p])
    /\ \A c \in Clients :
         /\ event[c] <= last[c] /\ last[c] <= Len(Log[Part(c)])
         /\ gpc[c] \in {"handling", "fetching", "sending"} => event[c] > 0 /\ item[c] > 0
         /\ gpc[c] \in {"fetching", "sending"} => item[c] <= Len(Log[Part(c)][event[c]])

\* The handler is done with a CloudEvent, and not because of a shutdown.
Dealt(p, n, j) == Log[p][n][j] = "skip" \/ <<p, n, j>> \in handed \cup failed

\* The stored checkpoint never passes a CloudEvent that was neither handed to
\* a mapper nor reported as failed: a crash, a shutdown in the middle of a
\* batch, a partition lost to another process and the late checkpoint of its
\* former owner repeat events and lose none, and a deletion is always handed
\* over.
CheckpointCoversDealt ==
    \A p \in Partitions : \A n \in 1 .. checkpoint[p] : \A j \in 1 .. Len(Log[p][n]) :
        Dealt(p, n, j) /\ (Log[p][n][j] = "delete" => <<p, n, j>> \in handed)

\* Within a partition nothing is handed over for the first time before what
\* precedes it, except for writes that failed or that a shutdown cancelled.
PartitionOrder ==
    \A p \in Partitions : \A n \in 1 .. Len(Log[p]) : \A j \in 1 .. Len(Log[p][n]) :
        <<p, n, j>> \in handed =>
            \A m \in 1 .. n : \A k \in 1 .. Len(Log[p][m]) :
                m < n \/ k < j => Dealt(p, m, k) \/ <<p, m, k>> \in dropped

\* A partition whose client stays in a stream that is neither ended nor
\* cancelled has all its deletions handed over, whatever its other events are.
DeletionsArrive ==
    \A c \in Clients : \A n \in 1 .. Len(Log[Part(c)]) : \A j \in 1 .. Len(Log[Part(c)][n]) :
        (/\ Log[Part(c)][n][j] = "delete"
         /\ <>[](run[Proc(c)] = "running" /\ ~cancelled[Proc(c)] /\ gpc[c] # "none"))
            => <>(<<Part(c), n, j>> \in handed)

\* No goroutine sends on the channel after StartEventStream has returned (in a
\* log whose CloudEvents all have a time, that is the only way to die).
NoPanic == \A r \in Processes : run[r] # "dead"
===============================================================================
