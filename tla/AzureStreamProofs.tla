--------------------------- MODULE AzureStreamProofs ---------------------------
(***************************************************************************)
(* Proofs about AzureStream, for every log, batch size and number of       *)
(* processes and partitions: what the checkpoint store promises, and in    *)
(* which order the CloudEvents of a partition are handed over.             *)
(*                                                                         *)
(* CheckpointCoversDealt is not inductive: UpdateCheckpoint is right only  *)
(* because everything up to the event at hand has been dealt with, by this *)
(* client since it claimed the partition or by whoever stored the          *)
(* checkpoint it started from (Progress).  That holds only as long as the  *)
(* context is not cancelled, for a cancelled fetch is passed over.  It     *)
(* needs no agreement on who owns the partition.                           *)
(***************************************************************************)
EXTENDS AzureStream, TLAPS

Covered(p, n, j) == Dealt(p, n, j) /\ (Log[p][n][j] = "delete" => <<p, n, j>> \in handed)
EventCovered(p, n) == \A j \in 1 .. Len(Log[p][n]) : Covered(p, n, j)

Active == {"handling", "fetching", "sending"}

\* Only a write, or what has no time, is fetched; what is sent was fetched or
\* is a deletion.
Kinds ==
    \A c \in Clients :
        /\ gpc[c] = "fetching" => Kind(c) \in {"write", "untimed"}
        /\ gpc[c] = "sending" => Kind(c) \in {"write", "delete"}

\* Everything before the CloudEvent at hand is dealt with.
ProgressOf(c) ==
    ~cancelled[Proc(c)] =>
        /\ gpc[c] = "receiving" => \A n \in 1 .. event[c] : EventCovered(Part(c), n)
        /\ gpc[c] \in Active =>
             /\ \A n \in 1 .. event[c] - 1 : EventCovered(Part(c), n)
             /\ \A j \in 1 .. item[c] - 1 :
                    j <= Len(Body(c)) => Covered(Part(c), event[c], j)
Progress == \A c \in Clients : ProgressOf(c)

IInv == TypeOK /\ Kinds /\ CheckpointCoversDealt /\ Progress

\* A client belongs to a process and to a partition.
LEMMA ClientShape ==
    ASSUME NEW c \in Clients
    PROVE  Proc(c) \in Processes /\ Part(c) \in Partitions
  BY DEF Clients, Proc, Part

\* The events of a log are sequences.
LEMMA LogShape ==
    ASSUME NEW p \in Partitions
    PROVE  /\ Len(Log[p]) \in Nat
           /\ \A n \in 1 .. Len(Log[p]) :
                /\ Len(Log[p][n]) \in Nat
                /\ \A j \in 1 .. Len(Log[p][n]) :
                       Log[p][n][j] \in {"write", "delete", "untimed", "skip"}
  BY LogAssumption

\* What is dealt with stays so: the histories only grow.
LEMMA Grows ==
    ASSUME handed \subseteq handed', failed \subseteq failed'
    PROVE  /\ \A p, n, j : Covered(p, n, j) => Covered(p, n, j)'
           /\ \A p, n : EventCovered(p, n) => EventCovered(p, n)'
  <1>1. \A p, n, j : Covered(p, n, j) => Covered(p, n, j)'
    BY DEF Covered, Dealt
  <1> QED
    BY <1>1 DEF EventCovered

\* No step forgets what was handed over, failed or dropped.
LEMMA HistoriesGrow ==
    ASSUME [Next]_vars
    PROVE  handed \subseteq handed' /\ failed \subseteq failed' /\ dropped \subseteq dropped'
  BY DEF Next, ClientStep, StartEventStream, RunReturns, Close, CancelParent, Restart, Loses,
     Claim, Receive, ReceiveFails, SkipItem, Fetch, Fetched, FetchFails, FetchCancelled,
     ForwardDelete, Panics, Send, SendOnClosed, UpdateCheckpoint, CheckpointFails, history, vars

\* The initial states satisfy the inductive invariant.
LEMMA InitIInv == Init => IInv
  <1> SUFFICES ASSUME Init PROVE IInv
    OBVIOUS
  <1>1. TypeOK
    <2>1. \A p \in Partitions : 0 <= Len(Log[p])
      BY LogShape
    <2>2. \A c \in Clients : 0 <= Len(Log[Part(c)])
      BY <2>1, ClientShape
    <2>3. gpc \in [Clients -> {"none", "receiving", "handling", "fetching", "sending", "stopped"}]
      BY DEF Init
    <2>4. /\ event \in [Clients -> Nat] /\ last \in [Clients -> Nat]
          /\ item \in [Clients -> Nat] /\ checkpoint \in [Partitions -> Nat]
      BY DEF Init
    <2>5. /\ \A c \in Clients : gpc[c] = "none" /\ event[c] = 0 /\ last[c] = 0
          /\ \A p \in Partitions : checkpoint[p] = 0
      BY DEF Init
    <2>6. /\ run \in [Processes -> {"idle", "running", "returned", "dead"}]
          /\ cancelled \in [Processes -> BOOLEAN] /\ deaf \in [Processes -> BOOLEAN]
      BY DEF Init
    <2> QED
      BY <2>1, <2>2, <2>3, <2>4, <2>5, <2>6 DEF TypeOK
  <1>2. Kinds /\ CheckpointCoversDealt /\ Progress
    BY DEF Init, Kinds, CheckpointCoversDealt, Progress, ProgressOf, Active
  <1> QED
    BY <1>1, <1>2 DEF IInv

\* The loss of the memory of a process keeps the types.
LEMMA LosesType ==
    ASSUME TypeOK, NEW r \in Processes, NEW s \in {"idle", "dead"}, Loses(r, s)
    PROVE  TypeOK'
  <1>1. /\ run' \in [Processes -> {"idle", "running", "returned", "dead"}]
        /\ cancelled' \in [Processes -> BOOLEAN] /\ deaf' \in [Processes -> BOOLEAN]
    BY DEF TypeOK, Loses
  <1>2. /\ gpc' \in [Clients -> {"none", "receiving", "handling", "fetching", "sending", "stopped"}]
        /\ event' \in [Clients -> Nat] /\ last' \in [Clients -> Nat] /\ item' \in [Clients -> Nat]
    BY DEF TypeOK, Loses
  <1>3. ASSUME NEW c \in Clients
        PROVE  /\ event'[c] <= last'[c] /\ last'[c] <= Len(Log[Part(c)])
               /\ gpc'[c] \in {"handling", "fetching", "sending"} => event'[c] > 0 /\ item'[c] > 0
               /\ gpc'[c] \in {"fetching", "sending"} => item'[c] <= Len(Log[Part(c)][event'[c]])
    <2>1. CASE Proc(c) = r
      <3>1. gpc'[c] = "none" /\ event'[c] = 0 /\ last'[c] = 0
        BY <2>1 DEF Loses
      <3>2. 0 <= Len(Log[Part(c)])
        BY ClientShape, LogShape
      <3> QED
        BY <3>1, <3>2
    <2>2. CASE Proc(c) # r
      <3>1. /\ gpc'[c] = gpc[c] /\ event'[c] = event[c] /\ last'[c] = last[c]
            /\ item'[c] = item[c]
        BY <2>2 DEF Loses
      <3> QED
        BY <3>1 DEF TypeOK
    <2> QED
      BY <2>1, <2>2
  <1>4. /\ checkpoint' \in [Partitions -> Nat]
        /\ \A p \in Partitions : checkpoint'[p] <= Len(Log[p])
    BY DEF TypeOK, Loses
  <1> QED
    BY <1>1, <1>2, <1>3, <1>4 DEF TypeOK

\* Going on after the last CloudEvent keeps the types, whatever becomes of the
\* checkpoint.
LEMMA NextEventType ==
    ASSUME TypeOK, NEW c \in Clients, Handled(c), NextEvent(c), UNCHANGED <<runVars, last>>,
           checkpoint' \in [Partitions -> Nat],
           \A p \in Partitions : checkpoint'[p] <= Len(Log[p])
    PROVE  TypeOK'
  <1> USE DEF TypeOK, runVars
  <1>1. CASE event[c] < last[c]
    <2>1. /\ event' = [event EXCEPT ![c] = event[c] + 1] /\ item' = [item EXCEPT ![c] = 1]
          /\ gpc[c] = "handling" /\ UNCHANGED gpc
      BY <1>1 DEF Handled, NextEvent
    <2>2. event[c] + 1 \in Nat /\ event[c] + 1 <= last[c]
      BY <1>1
    <2> QED
      BY <2>1, <2>2
  <1>2. CASE ~(event[c] < last[c])
    <2>1. /\ gpc' = [gpc EXCEPT ![c] = "receiving"] /\ item' = [item EXCEPT ![c] = 0]
          /\ UNCHANGED event
      BY <1>2 DEF NextEvent
    <2> QED
      BY <2>1
  <1> QED
    BY <1>1, <1>2

\* Every step keeps the types.
LEMMA TypeStep == TypeOK /\ [Next]_vars => TypeOK'
  <1> SUFFICES ASSUME TypeOK, [Next]_vars PROVE TypeOK'
    OBVIOUS
  <1>1. ASSUME NEW r \in Processes, StartEventStream(r) PROVE TypeOK'
    BY <1>1 DEF StartEventStream, TypeOK, history
  <1>2. ASSUME NEW r \in Processes, RunReturns(r) PROVE TypeOK'
    BY <1>2 DEF RunReturns, TypeOK, history
  <1>3. ASSUME NEW r \in Processes, Close(r) PROVE TypeOK'
    BY <1>3 DEF Close, TypeOK, history
  <1>4. ASSUME NEW r \in Processes, CancelParent(r) PROVE TypeOK'
    BY <1>4 DEF CancelParent, TypeOK, history
  <1>5. ASSUME NEW r \in Processes, Restart(r) PROVE TypeOK'
    BY <1>5, LosesType DEF Restart
  <1>6. ASSUME NEW c \in Clients, Claim(c) PROVE TypeOK'
    <2>1. Part(c) \in Partitions
      BY ClientShape
    <2> QED
      BY <1>6, <2>1 DEF Claim, TypeOK, runVars, history
  <1>7. ASSUME NEW c \in Clients, Receive(c) PROVE TypeOK'
    BY <1>7, BatchAssumption DEF Receive, TypeOK, runVars, history
  <1>8. ASSUME NEW c \in Clients, ReceiveFails(c) PROVE TypeOK'
    <2>1. 0 <= Len(Log[Part(c)])
      BY ClientShape, LogShape
    <2> QED
      BY <1>8, <2>1 DEF ReceiveFails, TypeOK, runVars, history
  <1>9. ASSUME NEW c \in Clients, SkipItem(c) PROVE TypeOK'
    BY <1>9 DEF SkipItem, HasItem, NextItem, TypeOK, runVars, history
  <1>10. ASSUME NEW c \in Clients, Fetch(c) PROVE TypeOK'
    BY <1>10 DEF Fetch, HasItem, Body, TypeOK, runVars, history
  <1>11. ASSUME NEW c \in Clients, Fetched(c) PROVE TypeOK'
    BY <1>11 DEF Fetched, TypeOK, runVars, history
  <1>12. ASSUME NEW c \in Clients, FetchFails(c) PROVE TypeOK'
    BY <1>12 DEF FetchFails, NextItem, TypeOK, runVars
  <1>13. ASSUME NEW c \in Clients, FetchCancelled(c) PROVE TypeOK'
    BY <1>13 DEF FetchCancelled, HasItem, NextItem, TypeOK, runVars
  <1>14. ASSUME NEW c \in Clients, ForwardDelete(c) PROVE TypeOK'
    BY <1>14 DEF ForwardDelete, HasItem, Body, TypeOK, runVars, history
  <1>15. ASSUME NEW c \in Clients, Send(c) PROVE TypeOK'
    BY <1>15 DEF Send, NextItem, TypeOK, runVars
  <1>16. ASSUME NEW c \in Clients, Panics(c) \/ SendOnClosed(c) PROVE TypeOK'
    BY <1>16, ClientShape, LosesType DEF Panics, SendOnClosed
  <1>17. ASSUME NEW c \in Clients, UpdateCheckpoint(c) PROVE TypeOK'
    <2>1. Part(c) \in Partitions /\ event[c] \in Nat /\ event[c] <= Len(Log[Part(c)])
      BY ClientShape, LogShape DEF TypeOK
    <2>2. /\ checkpoint' \in [Partitions -> Nat]
          /\ \A p \in Partitions : checkpoint'[p] <= Len(Log[p])
      BY <1>17, <2>1 DEF UpdateCheckpoint, TypeOK
    <2> QED
      BY <1>17, <2>2, NextEventType DEF UpdateCheckpoint
  <1>18. ASSUME NEW c \in Clients, CheckpointFails(c) PROVE TypeOK'
    <2>1. /\ checkpoint' \in [Partitions -> Nat]
          /\ \A p \in Partitions : checkpoint'[p] <= Len(Log[p])
      BY <1>18 DEF CheckpointFails, TypeOK
    <2> QED
      BY <1>18, <2>1, NextEventType DEF CheckpointFails
  <1>19. CASE UNCHANGED vars
    BY <1>19 DEF vars, TypeOK
  <1> QED
    BY <1>1, <1>2, <1>3, <1>4, <1>5, <1>6, <1>7, <1>8, <1>9, <1>10, <1>11, <1>12, <1>13, <1>14,
       <1>15, <1>16, <1>17, <1>18, <1>19 DEF Next, ClientStep

-----------------------------------------------------------------------------
(***************************************************************************)
(* What a step does to one client, whoever takes it.                       *)
(***************************************************************************)

\* The client does not move, or moves within the CloudEvent at hand; its
\* context may be cancelled.
Stays(q) ==
    /\ event'[q] = event[q] /\ item'[q] = item[q]
    /\ gpc'[q] = gpc[q] \/ (gpc[q] \in Active /\ gpc'[q] \in Active)
    /\ ~cancelled'[Proc(q)] => ~cancelled[Proc(q)]

\* The client is gone.
Gone(q) == gpc'[q] \in {"none", "stopped"}

\* The client is done with the CloudEvent at hand.
Advances(q) ==
    /\ SkipItem(q) \/ FetchFails(q) \/ FetchCancelled(q) \/ Send(q)
    /\ gpc[q] \in Active /\ NextItem(q) /\ event'[q] = event[q]
    /\ cancelled'[Proc(q)] = cancelled[Proc(q)]

\* The client is done with the event at hand.
Finishes(q) == Handled(q) /\ NextEvent(q) /\ cancelled'[Proc(q)] = cancelled[Proc(q)]

\* A process that loses its memory leaves the clients of the others alone.
LEMMA LosesMoves ==
    ASSUME TypeOK, NEW r \in Processes, NEW s, Loses(r, s), NEW q \in Clients
    PROVE  Stays(q) \/ Gone(q)
  <1>1. CASE Proc(q) = r
    BY <1>1 DEF Loses, Gone
  <1>2. CASE Proc(q) # r
    <2>1. gpc'[q] = gpc[q] /\ event'[q] = event[q] /\ item'[q] = item[q]
      BY <1>2 DEF Loses
    <2>2. cancelled'[Proc(q)] = cancelled[Proc(q)]
      BY <1>2, ClientShape DEF Loses, TypeOK
    <2> QED
      BY <2>1, <2>2 DEF Stays
  <1> QED
    BY <1>1, <1>2

\* A step leaves a client alone, ends it, or is one of its own.
LEMMA Moves ==
    ASSUME TypeOK, [Next]_vars, NEW q \in Clients
    PROVE  Stays(q) \/ Gone(q) \/ Claim(q) \/ Receive(q) \/ Advances(q) \/ Finishes(q)
  <1>1. CASE UNCHANGED vars
    BY <1>1 DEF vars, Stays
  <1>2. ASSUME NEW r \in Processes,
               StartEventStream(r) \/ RunReturns(r) \/ Close(r) \/ CancelParent(r)
        PROVE  Stays(q)
    <2>1. UNCHANGED <<gpc, event, item>>
      BY <1>2 DEF StartEventStream, RunReturns, Close, CancelParent
    <2>2. \/ UNCHANGED cancelled
          \/ cancelled' = [cancelled EXCEPT ![r] = TRUE]
      BY <1>2 DEF StartEventStream, RunReturns, Close, CancelParent
    <2>3. ~cancelled'[Proc(q)] => ~cancelled[Proc(q)]
      <3>1. CASE Proc(q) = r
        BY <2>2, <3>1 DEF TypeOK
      <3>2. CASE Proc(q) # r
        BY <2>2, <3>2, ClientShape DEF TypeOK
      <3> QED
        BY <3>1, <3>2
    <2> QED
      BY <2>1, <2>3 DEF Stays
  <1>3. ASSUME NEW r \in Processes, Restart(r) PROVE Stays(q) \/ Gone(q)
    BY <1>3, LosesMoves DEF Restart
  <1>4. ASSUME NEW c \in Clients, Panics(c) \/ SendOnClosed(c) PROVE Stays(q) \/ Gone(q)
    BY <1>4, LosesMoves, ClientShape DEF Panics, SendOnClosed
  <1>5. ASSUME NEW c \in Clients, c # q,
               \/ ReceiveFails(c) \/ Claim(c) \/ Receive(c) \/ SkipItem(c) \/ Fetch(c)
               \/ Fetched(c) \/ FetchFails(c) \/ FetchCancelled(c) \/ ForwardDelete(c)
               \/ Send(c) \/ UpdateCheckpoint(c) \/ CheckpointFails(c)
        PROVE  Stays(q)
    <2>1. gpc'[q] = gpc[q] /\ event'[q] = event[q] /\ item'[q] = item[q]
      BY <1>5 DEF Claim, Receive, ReceiveFails, SkipItem, Fetch, Fetched, FetchFails,
         FetchCancelled, ForwardDelete, Send, UpdateCheckpoint, CheckpointFails,
         NextItem, NextEvent, TypeOK
    <2>2. UNCHANGED cancelled
      BY <1>5 DEF Claim, Receive, ReceiveFails, SkipItem, Fetch, Fetched, FetchFails,
         FetchCancelled, ForwardDelete, Send, UpdateCheckpoint, CheckpointFails, runVars
    <2> QED
      BY <2>1, <2>2 DEF Stays
  <1>6. CASE ReceiveFails(q)
    BY <1>6 DEF ReceiveFails, Gone, TypeOK
  <1>7. CASE Fetch(q) \/ Fetched(q) \/ ForwardDelete(q)
    BY <1>7 DEF Fetch, Fetched, ForwardDelete, HasItem, Active, Stays, TypeOK, runVars
  <1>8. CASE SkipItem(q) \/ FetchFails(q) \/ FetchCancelled(q) \/ Send(q)
    BY <1>8 DEF SkipItem, FetchFails, FetchCancelled, Send, HasItem, Active, Advances, runVars
  <1>9. CASE UpdateCheckpoint(q) \/ CheckpointFails(q)
    BY <1>9 DEF UpdateCheckpoint, CheckpointFails, Finishes, runVars
  <1> QED
    BY <1>1, <1>2, <1>3, <1>4, <1>5, <1>6, <1>7, <1>8, <1>9 DEF Next, ClientStep

\* Every step keeps the kinds of what is fetched and sent.
LEMMA KindsStep == TypeOK /\ Kinds /\ [Next]_vars => Kinds'
  <1> SUFFICES ASSUME TypeOK, Kinds, [Next]_vars, NEW q \in Clients
               PROVE  /\ gpc'[q] = "fetching" => Kind(q)' \in {"write", "untimed"}
                      /\ gpc'[q] = "sending" => Kind(q)' \in {"write", "delete"}
    BY DEF Kinds
  <1>1. CASE gpc'[q] \notin {"fetching", "sending"}
    BY <1>1
  <1>2. CASE gpc'[q] \in {"fetching", "sending"} /\ Stays(q) /\ gpc'[q] = gpc[q]
    BY <1>2 DEF Stays, Kinds, Kind, Body
  <1>3. CASE Fetch(q) \/ Fetched(q) \/ ForwardDelete(q)
    BY <1>3 DEF Fetch, Fetched, ForwardDelete, Kind, Body, TypeOK
  <1>4. \/ gpc'[q] \notin {"fetching", "sending"}
        \/ Stays(q) /\ gpc'[q] = gpc[q]
        \/ Fetch(q) \/ Fetched(q) \/ ForwardDelete(q)
    <2>1. CASE gpc'[q] = gpc[q]
      <3>1. CASE Claim(q) \/ Receive(q) \/ Advances(q) \/ Finishes(q)
        BY <3>1, <2>1 DEF Claim, Receive, Advances, NextItem, Finishes, Handled, TypeOK
      <3> QED
        BY <2>1, <3>1, Moves DEF Gone
    <2>2. CASE gpc'[q] # gpc[q]
      BY <2>2 DEF Next, ClientStep, StartEventStream, RunReturns, Close, CancelParent, Restart,
         Loses, Claim, Receive, ReceiveFails, SkipItem, FetchFails, FetchCancelled,
         Panics, Send, SendOnClosed, UpdateCheckpoint, CheckpointFails, NextItem, NextEvent,
         Fetch, Fetched, ForwardDelete, vars, TypeOK
    <2> QED
      BY <2>1, <2>2
  <1> QED
    BY <1>1, <1>2, <1>3, <1>4

-----------------------------------------------------------------------------
(***************************************************************************)
(* What is dealt with.                                                     *)
(***************************************************************************)

\* Going on after the CloudEvent at hand keeps the progress, provided that it
\* is covered or the context is cancelled.
LEMMA AdvanceProgress ==
    ASSUME IInv, [Next]_vars, NEW c \in Clients, Advances(c)
    PROVE  ProgressOf(c)'
  <1> SUFFICES ASSUME ~cancelled'[Proc(c)] PROVE ProgressOf(c)'
    BY DEF ProgressOf
  <1>1. ~cancelled[Proc(c)]
    BY DEF Advances
  <1>2. gpc'[c] = "handling" /\ event'[c] = event[c] /\ item'[c] = item[c] + 1 /\ item[c] \in Nat
    BY DEF Advances, NextItem, IInv, TypeOK
  <1>3. PICK k, n : k = item[c] /\ n = event[c]
    OBVIOUS
  <1>4. Covered(Part(c), n, k)'
    <2>1. CASE SkipItem(c)
      BY <1>3, <2>1 DEF SkipItem, Kind, Body, Covered, Dealt
    <2>2. CASE FetchFails(c)
      <3>1. Log[Part(c)][n][k] \in {"write", "untimed"}
        BY <1>3, <2>2 DEF FetchFails, IInv, Kinds, Kind, Body
      <3> QED
        BY <1>3, <2>2, <3>1 DEF FetchFails, Here, Covered, Dealt
    <2>3. CASE FetchCancelled(c)
      BY <1>1, <2>3 DEF FetchCancelled
    <2>4. CASE Send(c)
      BY <1>3, <2>4 DEF Send, Here, Covered, Dealt
    <2> QED
      BY <2>1, <2>2, <2>3, <2>4 DEF Advances
  <1>5. ProgressOf(c) /\ gpc[c] \in Active
    BY DEF IInv, Progress, Advances
  <1>6. \A m \in 1 .. event[c] - 1 : EventCovered(Part(c), m)'
    BY <1>1, <1>5, HistoriesGrow, Grows DEF ProgressOf
  <1>7. ASSUME NEW j \in 1 .. item[c], j <= Len(Log[Part(c)][n])
        PROVE  Covered(Part(c), n, j)'
    <2>1. CASE j = k
      BY <1>4, <2>1
    <2>2. CASE j # k
      BY <1>1, <1>2, <1>3, <1>5, <1>7, <2>2, HistoriesGrow, Grows DEF ProgressOf, Body
    <2> QED
      BY <2>1, <2>2
  <1> QED
    BY <1>2, <1>3, <1>6, <1>7 DEF ProgressOf, Body

\* Once the last CloudEvent is handled without a cancellation, the event and
\* all before it are covered.
LEMMA HandledCovered ==
    ASSUME IInv, NEW c \in Clients, Handled(c), ~cancelled[Proc(c)]
    PROVE  \A n \in 1 .. event[c] : EventCovered(Part(c), n)
  <1>1. /\ event[c] \in 1 .. Len(Log[Part(c)]) /\ item[c] \in Nat
        /\ Len(Log[Part(c)][event[c]]) \in Nat
    BY ClientShape, LogShape DEF IInv, TypeOK, Handled
  <1>2. ProgressOf(c) /\ gpc[c] \in Active
    BY DEF IInv, Progress, Handled, Active
  <1>3. \A n \in 1 .. event[c] - 1 : EventCovered(Part(c), n)
    BY <1>2 DEF ProgressOf
  <1>4. ASSUME NEW j \in 1 .. Len(Log[Part(c)][event[c]]) PROVE Covered(Part(c), event[c], j)
    <2>1. j \in 1 .. item[c] - 1
      BY <1>1 DEF Handled, Body
    <2> QED
      BY <2>1, <1>1, <1>2 DEF ProgressOf, Body
  <1> QED
    BY <1>1, <1>3, <1>4 DEF EventCovered

\* Going on to the next event, or to the next batch, keeps the progress.
LEMMA FinishProgress ==
    ASSUME IInv, [Next]_vars, NEW c \in Clients, Finishes(c)
    PROVE  ProgressOf(c)'
  <1> SUFFICES ASSUME ~cancelled'[Proc(c)] PROVE ProgressOf(c)'
    BY DEF ProgressOf
  <1>1. \A n \in 1 .. event[c] : EventCovered(Part(c), n)'
    BY HandledCovered, HistoriesGrow, Grows DEF Finishes
  <1>2. CASE event[c] < last[c]
    <2>1. gpc'[c] = "handling" /\ event'[c] = event[c] + 1 /\ item'[c] = 1 /\ event[c] \in Nat
      BY <1>2 DEF Finishes, NextEvent, Handled, IInv, TypeOK
    <2> QED
      BY <1>1, <2>1 DEF ProgressOf
  <1>3. CASE ~(event[c] < last[c])
    <2>1. gpc'[c] = "receiving" /\ event'[c] = event[c]
      BY <1>3 DEF Finishes, NextEvent, IInv, TypeOK
    <2> QED
      BY <1>1, <2>1 DEF ProgressOf, Active
  <1> QED
    BY <1>2, <1>3

\* Every step keeps the progress of every client.
LEMMA ProgressStep == IInv /\ [Next]_vars => Progress'
  <1> SUFFICES ASSUME IInv, [Next]_vars, NEW c \in Clients PROVE ProgressOf(c)'
    BY DEF Progress
  <1> TypeOK /\ ProgressOf(c)
    BY DEF IInv, Progress
  <1>1. CASE Stays(c)
    BY <1>1, HistoriesGrow, Grows DEF Stays, ProgressOf, Body, Active
  <1>2. CASE Gone(c)
    BY <1>2 DEF Gone, ProgressOf, Active
  <1>3. CASE Claim(c)
    <2>1. gpc'[c] = "receiving" /\ event'[c] = checkpoint[Part(c)]
      BY <1>3 DEF Claim, TypeOK
    <2>2. \A n \in 1 .. checkpoint[Part(c)] : EventCovered(Part(c), n)
      BY ClientShape DEF IInv, CheckpointCoversDealt, EventCovered, Covered
    <2> QED
      BY <2>1, <2>2, HistoriesGrow, Grows DEF ProgressOf, Active
  <1>4. CASE Receive(c)
    <2>1. gpc'[c] = "handling" /\ event'[c] = event[c] + 1 /\ item'[c] = 1 /\ event[c] \in Nat
      BY <1>4 DEF Receive, TypeOK
    <2>2. cancelled' = cancelled /\ gpc[c] = "receiving"
      BY <1>4 DEF Receive, runVars
    <2>3. ~cancelled[Proc(c)] => \A n \in 1 .. event[c] : EventCovered(Part(c), n)'
      BY <2>2, HistoriesGrow, Grows DEF ProgressOf
    <2> QED
      BY <2>1, <2>2, <2>3 DEF ProgressOf
  <1>5. CASE Advances(c)
    BY <1>5, AdvanceProgress
  <1>6. CASE Finishes(c)
    BY <1>6, FinishProgress
  <1> QED
    BY <1>1, <1>2, <1>3, <1>4, <1>5, <1>6, Moves

\* Every step keeps the coverage of the checkpoint: UpdateCheckpoint is the
\* only one that moves it.
LEMMA CoverStep == IInv /\ [Next]_vars => CheckpointCoversDealt'
  <1> SUFFICES ASSUME IInv, [Next]_vars PROVE CheckpointCoversDealt'
    OBVIOUS
  <1>1. CASE UNCHANGED checkpoint
    BY <1>1, HistoriesGrow, Grows DEF IInv, CheckpointCoversDealt, Covered
  <1>2. ASSUME NEW c \in Clients, UpdateCheckpoint(c) PROVE CheckpointCoversDealt'
    <2>1. /\ Handled(c) /\ ~cancelled[Proc(c)]
          /\ checkpoint' = [checkpoint EXCEPT ![Part(c)] = event[c]]
      BY <1>2 DEF UpdateCheckpoint
    <2>2. \A n \in 1 .. event[c] : EventCovered(Part(c), n)'
      BY <2>1, HandledCovered, HistoriesGrow, Grows
    <2>3. \A p \in Partitions : \A n \in 1 .. checkpoint[p] : EventCovered(p, n)'
      BY HistoriesGrow, Grows DEF IInv, CheckpointCoversDealt, EventCovered, Covered
    <2>4. \A p \in Partitions : \A n \in 1 .. checkpoint'[p] : EventCovered(p, n)'
      BY <2>1, <2>2, <2>3 DEF IInv, TypeOK
    <2> QED
      BY <2>4 DEF CheckpointCoversDealt, EventCovered, Covered
  <1>3. UNCHANGED checkpoint \/ \E c \in Clients : UpdateCheckpoint(c)
    BY DEF Next, ClientStep, StartEventStream, RunReturns, Close, CancelParent, Restart, Loses,
       Claim, Receive, ReceiveFails, SkipItem, Fetch, Fetched, FetchFails, FetchCancelled,
       ForwardDelete, Panics, Send, SendOnClosed, CheckpointFails, vars
  <1> QED
    BY <1>1, <1>2, <1>3

\* The strengthened invariant holds in every reachable state.
THEOREM StreamInvariant == Spec => []IInv
  <1>1. IInv /\ [Next]_vars => IInv'
    BY TypeStep, KindsStep, CoverStep, ProgressStep DEF IInv
  <1> QED
    BY InitIInv, <1>1, PTL DEF Spec

\* No crash, shutdown, lost partition or late checkpoint of a former owner
\* makes the checkpoint pass an event that was neither handed to a mapper nor
\* reported as failed.
THEOREM CheckpointsCover == Spec => []CheckpointCoversDealt
  <1>1. IInv => CheckpointCoversDealt
    BY DEF IInv
  <1> QED
    BY StreamInvariant, <1>1, PTL

\* The types, and the positions in the logs that go with them, are those of
\* every reachable state.
THEOREM TypeCorrect == Spec => []TypeOK
  <1>1. IInv => TypeOK
    BY DEF IInv
  <1> QED
    BY StreamInvariant, <1>1, PTL

-----------------------------------------------------------------------------
(***************************************************************************)
(* The order within a partition.  PartitionOrder speaks of what was handed *)
(* over; a step adds to it what a client holds, so the position of the     *)
(* client has to be part of the invariant (Behind).  Unlike Progress it    *)
(* does not depend on the context: a cancelled fetch is passed over, and   *)
(* recorded as dropped.  A partition that is claimed starts at its         *)
(* checkpoint, where CheckpointCoversDealt takes over.                     *)
(***************************************************************************)
Passed(p, n, j) == Dealt(p, n, j) \/ <<p, n, j>> \in dropped
EventPassed(p, n) == \A j \in 1 .. Len(Log[p][n]) : Passed(p, n, j)

\* Everything before the CloudEvent at hand is dealt with or dropped.
BehindOf(c) ==
    /\ gpc[c] = "receiving" => \A n \in 1 .. event[c] : EventPassed(Part(c), n)
    /\ gpc[c] \in Active =>
         /\ \A n \in 1 .. event[c] - 1 : EventPassed(Part(c), n)
         /\ \A j \in 1 .. item[c] - 1 :
                j <= Len(Body(c)) => Passed(Part(c), event[c], j)
Behind == \A c \in Clients : BehindOf(c)

\* What was passed stays so.
LEMMA PassedGrows ==
    ASSUME handed \subseteq handed', failed \subseteq failed', dropped \subseteq dropped'
    PROVE  /\ \A p, n, j : Passed(p, n, j) => Passed(p, n, j)'
           /\ \A p, n : EventPassed(p, n) => EventPassed(p, n)'
  <1>1. \A p, n, j : Passed(p, n, j) => Passed(p, n, j)'
    BY DEF Passed, Dealt
  <1> QED
    BY <1>1 DEF EventPassed

\* Going on after a CloudEvent: it is passed.
LEMMA AdvanceBehind ==
    ASSUME TypeOK, [Next]_vars, NEW c \in Clients, BehindOf(c), Advances(c)
    PROVE  BehindOf(c)'
  <1>1. gpc'[c] = "handling" /\ event'[c] = event[c] /\ item'[c] = item[c] + 1 /\ item[c] \in Nat
    BY DEF Advances, NextItem, TypeOK
  <1>2. PICK k, n : k = item[c] /\ n = event[c]
    OBVIOUS
  <1>3. Passed(Part(c), n, k)'
    BY <1>2 DEF Advances, SkipItem, FetchFails, FetchCancelled, Send, Kind, Body, Here, Passed, Dealt
  <1>4. \A m \in 1 .. event[c] - 1 : EventPassed(Part(c), m)'
    BY HistoriesGrow, PassedGrows DEF BehindOf, Advances
  <1>5. ASSUME NEW j \in 1 .. item[c], j <= Len(Log[Part(c)][n])
        PROVE  Passed(Part(c), n, j)'
    <2>1. CASE j = k
      BY <1>3, <2>1
    <2>2. CASE j # k
      BY <1>1, <1>2, <1>5, <2>2, HistoriesGrow, PassedGrows DEF BehindOf, Body, Advances
    <2> QED
      BY <2>1, <2>2
  <1> QED
    BY <1>1, <1>2, <1>4, <1>5 DEF BehindOf, Body

\* Going on after the last CloudEvent of an event, to the next event of the
\* batch or to the next batch.
LEMMA FinishBehind ==
    ASSUME TypeOK, [Next]_vars, NEW c \in Clients, BehindOf(c), Finishes(c)
    PROVE  BehindOf(c)'
  <1>1. /\ event[c] \in 1 .. Len(Log[Part(c)]) /\ item[c] \in Nat
        /\ Len(Log[Part(c)][event[c]]) \in Nat
    BY ClientShape, LogShape DEF TypeOK, Finishes, Handled
  <1>2. EventPassed(Part(c), event[c])
    <2>1. ASSUME NEW j \in 1 .. Len(Log[Part(c)][event[c]]) PROVE Passed(Part(c), event[c], j)
      <3>1. j \in 1 .. item[c] - 1
        BY <1>1 DEF Finishes, Handled, Body
      <3> QED
        BY <1>1, <3>1 DEF BehindOf, Finishes, Handled, Body, Active
    <2> QED
      BY <2>1 DEF EventPassed
  <1>3. \A n \in 1 .. event[c] : EventPassed(Part(c), n)'
    BY <1>1, <1>2, HistoriesGrow, PassedGrows DEF BehindOf, Finishes, Handled, Active
  <1>4. CASE event[c] < last[c]
    <2>1. gpc'[c] = "handling" /\ event'[c] = event[c] + 1 /\ item'[c] = 1
      BY <1>4 DEF Finishes, NextEvent, Handled, TypeOK
    <2> QED
      BY <1>1, <1>3, <2>1 DEF BehindOf
  <1>5. CASE ~(event[c] < last[c])
    <2>1. gpc'[c] = "receiving" /\ event'[c] = event[c]
      BY <1>5 DEF Finishes, NextEvent, TypeOK
    <2> QED
      BY <1>3, <2>1 DEF BehindOf, Active
  <1> QED
    BY <1>4, <1>5

\* Every step keeps the positions of the clients.
LEMMA BehindStep == IInv /\ Behind /\ [Next]_vars => Behind'
  <1> SUFFICES ASSUME IInv, Behind, [Next]_vars, NEW c \in Clients PROVE BehindOf(c)'
    BY DEF Behind
  <1> TypeOK /\ BehindOf(c)
    BY DEF IInv, Behind
  <1>1. CASE Stays(c)
    BY <1>1, HistoriesGrow, PassedGrows DEF Stays, BehindOf, Body, Active
  <1>2. CASE Gone(c)
    BY <1>2 DEF Gone, BehindOf, Active
  <1>3. CASE Claim(c)
    <2>1. gpc'[c] = "receiving" /\ event'[c] = checkpoint[Part(c)]
      BY <1>3 DEF Claim, TypeOK
    <2>2. \A n \in 1 .. checkpoint[Part(c)] : EventPassed(Part(c), n)
      BY ClientShape DEF IInv, CheckpointCoversDealt, EventPassed, Passed
    <2> QED
      BY <2>1, <2>2, HistoriesGrow, PassedGrows DEF BehindOf, Active
  <1>4. CASE Receive(c)
    <2>1. gpc'[c] = "handling" /\ event'[c] = event[c] + 1 /\ item'[c] = 1 /\ event[c] \in Nat
      BY <1>4 DEF Receive, TypeOK
    <2>2. \A n \in 1 .. event[c] : EventPassed(Part(c), n)'
      BY <1>4, HistoriesGrow, PassedGrows DEF Receive, BehindOf
    <2> QED
      BY <2>1, <2>2 DEF BehindOf
  <1>5. CASE Advances(c)
    BY <1>5, AdvanceBehind
  <1>6. CASE Finishes(c)
    BY <1>6, FinishBehind
  <1> QED
    BY <1>1, <1>2, <1>3, <1>4, <1>5, <1>6, Moves

\* Only Send hands a CloudEvent over, and it is the one the client holds.
LEMMA HandedBySend ==
    ASSUME [Next]_vars
    PROVE  \/ handed' = handed
           \/ \E c \in Clients : gpc[c] = "sending" /\ handed' = handed \cup {Here(c)}
  BY DEF Next, ClientStep, StartEventStream, RunReturns, Close, CancelParent, Restart, Loses,
     Claim, Receive, ReceiveFails, SkipItem, Fetch, Fetched, FetchFails, FetchCancelled,
     ForwardDelete, Panics, Send, SendOnClosed, UpdateCheckpoint, CheckpointFails, history, vars

\* Everything up to a CloudEvent is passed.
Preceded(p, n, j) ==
    \A m \in 1 .. n : \A k \in 1 .. Len(Log[p][m]) : m < n \/ k < j => Passed(p, m, k)

\* Every step keeps the order.
LEMMA OrderStep == IInv /\ Behind /\ PartitionOrder /\ [Next]_vars => PartitionOrder'
  <1> SUFFICES ASSUME IInv, Behind, PartitionOrder, [Next]_vars,
                      NEW p \in Partitions, NEW n \in 1 .. Len(Log[p]),
                      NEW j \in 1 .. Len(Log[p][n]), <<p, n, j>> \in handed'
               PROVE  Preceded(p, n, j)'
    BY DEF PartitionOrder, Preceded, Passed
  <1>1. Preceded(p, n, j)
    <2>1. CASE <<p, n, j>> \in handed
      BY <2>1 DEF PartitionOrder, Preceded, Passed
    <2>2. CASE <<p, n, j>> \notin handed
      <3>1. PICK c \in Clients : gpc[c] = "sending" /\ p = Part(c) /\ n = event[c] /\ j = item[c]
        BY <2>2, HandedBySend DEF Here
      <3>2. BehindOf(c)
        BY DEF Behind
      <3>3. ASSUME NEW m \in 1 .. n, NEW k \in 1 .. Len(Log[p][m]), m < n \/ k < j
            PROVE  Passed(p, m, k)
        <4>1. /\ n \in Nat /\ Len(Log[p]) \in Nat /\ m \in 1 .. Len(Log[p])
              /\ Len(Log[p][m]) \in Nat
          BY LogShape
        <4>2. CASE m < n
          <5>1. EventPassed(p, m)
            BY <3>1, <3>2, <4>1, <4>2 DEF BehindOf, Active
          <5> QED
            BY <5>1 DEF EventPassed
        <4>3. CASE m = n /\ k < j
          <5>1. k \in 1 .. item[c] - 1 /\ k <= Len(Body(c))
            BY <3>1, <4>1, <4>3, LogShape DEF Body
          <5> QED
            BY <3>1, <3>2, <4>3, <5>1 DEF BehindOf, Active
        <4> QED
          BY <3>3, <4>1, <4>2, <4>3
      <3> QED
        BY <3>3 DEF Preceded
    <2> QED
      BY <2>1, <2>2
  <1> QED
    BY <1>1, HistoriesGrow, PassedGrows DEF Preceded

\* Whatever is interrupted, cancelled, lost and claimed by another process,
\* nothing is handed over within a partition for the first time before what
\* precedes it was handed over, reported as failed, or dropped by a shutdown.
THEOREM OrderWithinPartitions == Spec => []PartitionOrder
  <1>1. Init => Behind /\ PartitionOrder
    BY DEF Init, Behind, BehindOf, PartitionOrder, Active
  <1>2. IInv /\ Behind /\ PartitionOrder /\ [Next]_vars => Behind' /\ PartitionOrder'
    BY BehindStep, OrderStep
  <1> QED
    BY StreamInvariant, <1>1, <1>2, PTL DEF Spec
===============================================================================
