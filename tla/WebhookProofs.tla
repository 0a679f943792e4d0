---------------------------- MODULE WebhookProofs ----------------------------
(***************************************************************************)
(* Proofs about Webhook, for any requests, any of the sources and any      *)
(* bound on the clock: whose body a goroutine works on, which requests may *)
(* lead to data, and how the time of a datum relates to its content.       *)
(*                                                                         *)
(* OwnAndVerified and SourceTimeIsSafe speak of data that was sent.  What  *)
(* makes them inductive is what holds of a goroutine until it sends        *)
(* (GoroutineInv): its request was not refused, answered yet or not, its   *)
(* body is the one of its request, and the version it holds is never older *)
(* than its event, because an API returns the current version and no event *)
(* is later than that.                                                     *)
(***************************************************************************)
EXTENDS Webhook, SequenceTheorems, TLAPS

Steps == {"idle", "sent", "go", "run", "done"}
Data == [req : Requests, type : KnownTypes(source), op : {"upsert", "delete"},
         of : AllEvents(source, 1..MaxClock), version : 0..MaxClock, time : 0..MaxClock,
         clocked : BOOLEAN]

\* The types, including those TypeOK leaves open; no event is later than the
\* version of the object.
Shape ==
    /\ serving \in {"no", "yes", "refused"} /\ crashed \in BOOLEAN /\ secret \in BOOLEAN
    /\ clock \in 0..MaxClock /\ version \in 0..clock
    /\ pc \in [Requests -> Steps] /\ status \in [Requests -> {0, 204, 500}]
    /\ content \in [Requests -> 0..MaxClock]
    /\ now \in [Requests -> (0..MaxClock) \cup {None}]
    /\ DOMAIN ev = Requests /\ DOMAIN body = Requests /\ DOMAIN todo = Requests
    /\ \A r \in Requests :
        /\ pc[r] = "idle" => ev[r] = None
        /\ pc[r] # "idle" => ev[r] \in AllEvents(source, 1..version)
        /\ status[r] # 0 => pc[r] \in {"go", "run", "done"}
    /\ cut \subseteq Requests

\* What holds of a goroutine between its start and its end, and of a request
\* answered with 500.
GoroutineInv ==
    \A r \in Requests :
        /\ pc[r] \in {"go", "run"} => ~Refused(ev[r])
        /\ status[r] = 500 => Refused(ev[r])
        /\ pc[r] = "run" => body[r] = ev[r] /\ content[r] >= ev[r].stamp

\* What holds of a datum that was sent.
Sound(d) ==
    /\ pc[d.req] \in {"run", "done"} /\ ~Refused(ev[d.req])
    /\ d.of = ev[d.req]
    /\ ~d.clocked => d.version >= d.time /\ d.time >= ev[d.req].stamp
OutInv == out \in Seq(Data) /\ \A n \in 1..Len(out) : Sound(out[n])

\* A devops goroutine has at most one datum to send, and nothing left to do
\* once it has sent it.
Short(steps) == \/ steps = <<>>
                \/ \E t : steps = <<t>>
                \/ \E t : steps = <<"now", t>>
SingleInv ==
    source = "devops" =>
        /\ \A r \in Requests : pc[r] = "run" => Short(todo[r])
        /\ \A n \in 1..Len(out) :
            /\ pc[out[n].req] = "run" => todo[out[n].req] = <<>>
            /\ \A m \in 1..Len(out) : out[m].req = out[n].req => m = n

WInv == Shape /\ GoroutineInv /\ OutInv /\ SingleInv

-----------------------------------------------------------------------------
(* Events. *)

\* An event stays one as time goes by, and its stamp is one of those allowed.
LEMMA EventStamps ==
    ASSUME NEW s, NEW S, NEW T, S \subseteq T, NEW e \in AllEvents(s, S)
    PROVE  e \in AllEvents(s, T) /\ e.stamp \in S
  BY Zenon DEF AllEvents

\* An event that occurs carries the next instant.
LEMMA EventOccurs ==
    ASSUME NEW r, NEW e \in Events(r)
    PROVE  e \in AllEvents(source, {clock + 1})
  BY Zenon DEF Events

\* What passes the checks with a secret configured has a valid signature; the
\* Sysdig handler is the exception.
LEMMA VerifiedIsSigned ==
    ASSUME NEW e, ~Refused(e), secret, source # "sysdig"
    PROVE  e.auth = "valid"
  BY DEF Refused, Verified, NexusSignature, DevopsCredentials, SignatureValid

\* The steps of a devops event are at most a reading of the clock and a datum.
LEMMA DevopsIsShort ==
    ASSUME NEW e, NEW t, source = "devops"
    PROVE  Short(Process(e, t))
  <1>1. CASE ~e.wellFormed \/ e.kind = "unknown"
    BY <1>1 DEF Process, Short
  <1>2. CASE ~(~e.wellFormed \/ e.kind = "unknown")
    <2>1. Process(e, t) = DevopsResource(e, t)
      BY <1>2 DEF Process
    <2> DEFINE S == {"now", t}
    <2>2. /\ <<"now">> \in Seq(S) /\ <<t>> \in Seq(S) /\ <<"now", t>> \in Seq(S)
          /\ <<>> \o <<t>> = <<t>>
      BY ConcatEmptySeq
    <2>3. /\ <<"now">> \o <<t>> \in Seq(S) /\ Len(<<"now">> \o <<t>>) = 2
          /\ (<<"now">> \o <<t>>)[1] = "now" /\ (<<"now">> \o <<t>>)[2] = t
      <3> HIDE DEF S
      <3> QED
        BY <2>2, ConcatProperties
    <2>4. <<"now">> \o <<t>> = <<"now", t>>
      <3>1. Len(<<"now", t>>) = 2 /\ <<"now", t>>[1] = "now" /\ <<"now", t>>[2] = t
        OBVIOUS
      <3>2. \A i \in 1 .. 2 : (<<"now">> \o <<t>>)[i] = <<"now", t>>[i]
        BY <2>3, <3>1
      <3> HIDE DEF S
      <3> QED
        BY <2>2, <2>3, <3>1, <3>2, SeqEqual
    <2> QED
      BY <2>1, <2>2, <2>4 DEF DevopsResource, If, Short
  <1> QED
    BY <1>1, <1>2

-----------------------------------------------------------------------------
(* One step. *)

\* The steps of a goroutine that neither start nor end it nor send.
Working(r) == Fetch(r) \/ Refresh(r) \/ Languages(r) \/ ReadClock(r) \/ Branch(r)
              \/ Services(r)

(* A step of the webhook server is one of these. *)
LEMMA StepCases ==
    ASSUME [Next]_vars
    PROVE  \/ GetWebhook \/ Tick \/ UNCHANGED vars
           \/ \E r \in Requests :
                \/ Occur(r) \/ Handle(r) \/ Answer(r) \/ Decode(r) \/ Working(r) \/ Send(r)
                \/ Finish(r)
  BY DEF Next, Goroutine, Working

\* What a working goroutine may change: its own steps, version and clock
\* reading.
LEMMA WorkingFrame ==
    ASSUME NEW r \in Requests, Working(r)
    PROVE  /\ pc[r] = "run" /\ todo[r] # <<>> /\ (UNCHANGED crashed \/ crashed' = TRUE)
           /\ \/ todo' = todo
              \/ todo' = [todo EXCEPT ![r] = Tail(todo[r])]
              \/ todo' = [todo EXCEPT ![r] = <<>>]
           /\ content' = content \/ content' = [content EXCEPT ![r] = version]
           /\ now' = now \/ now' = [now EXCEPT ![r] = clock]
           /\ cut' = cut \/ cut' = cut \cup {r}
           /\ UNCHANGED <<config, serving, clock, version, ev, wire, pc, status, body, out>>
  <1> USE DEF At, GoOn, GiveUp
  <1>1. CASE Fetch(r)
    BY <1>1 DEF Fetch
  <1>2. CASE Refresh(r)
    BY <1>2 DEF Refresh
  <1>3. CASE Languages(r)
    BY <1>3 DEF Languages
  <1>4. CASE ReadClock(r)
    BY <1>4 DEF ReadClock
  <1>5. CASE Branch(r)
    BY <1>5 DEF Branch
  <1>6. CASE Services(r)
    BY <1>6 DEF Services
  <1> QED
    BY <1>1, <1>2, <1>3, <1>4, <1>5, <1>6 DEF Working

\* Every step keeps the types.
LEMMA ShapeStep == Shape /\ [Next]_vars => Shape'
  <1> SUFFICES ASSUME Shape, [Next]_vars PROVE Shape'
    OBVIOUS
  <1> USE ClockAssumption DEF Shape, Steps, config
  <1>1. CASE GetWebhook
    BY <1>1 DEF GetWebhook
  <1>2. CASE Tick
    BY <1>2 DEF Tick
  <1>3. CASE UNCHANGED vars
    BY <1>3 DEF vars
  <1>4. ASSUME NEW r \in Requests, Occur(r) PROVE Shape'
    <2>1. PICK e \in Events(r) : ev' = [ev EXCEPT ![r] = e]
      BY <1>4 DEF Occur
    <2>2. /\ clock' = clock + 1 /\ version' = clock + 1 /\ clock < MaxClock
          /\ pc[r] = "idle" /\ pc' = [pc EXCEPT ![r] = "sent"]
          /\ UNCHANGED <<config, serving, crashed, status, body, todo, content, now, cut>>
      BY <1>4 DEF Occur
    <2>3. e \in AllEvents(source, {clock + 1})
      BY EventOccurs
    <2>4. {clock + 1} \subseteq 1..version' /\ 1..version \subseteq 1..version'
      BY <2>2
    <2>5. e \in AllEvents(source, 1..version')
      BY <2>3, <2>4, EventStamps
    <2>6. \A q \in Requests : pc[q] # "idle" => ev[q] \in AllEvents(source, 1..version')
      BY <2>4, EventStamps
    <2>7. /\ clock' \in 0..MaxClock /\ version' \in 0..clock'
          /\ pc' \in [Requests -> Steps] /\ DOMAIN ev' = Requests
      BY <2>1, <2>2
    <2>8. \A q \in Requests :
            /\ pc'[q] = "idle" => ev'[q] = None
            /\ pc'[q] # "idle" => ev'[q] \in AllEvents(source, 1..version')
            /\ status[q] # 0 => pc'[q] \in {"go", "run", "done"}
      BY <2>1, <2>2, <2>5, <2>6
    <2> QED
      BY <2>2, <2>7, <2>8
  <1>5. ASSUME NEW r \in Requests, Handle(r) PROVE Shape'
    BY <1>5 DEF Handle
  <1>6. ASSUME NEW r \in Requests, Decode(r) PROVE Shape'
    <2>1. /\ pc[r] = "go" /\ pc' = [pc EXCEPT ![r] = "run"]
          /\ DOMAIN body' = Requests /\ DOMAIN todo' = Requests
          /\ content' = [content EXCEPT ![r] = ev[r].stamp]
          /\ UNCHANGED <<config, serving, crashed, clock, version, ev, status, now, cut>>
      BY <1>6 DEF Decode, OwnBody
    <2>2. ev[r].stamp \in 0..MaxClock
      <3>1. ev[r] \in AllEvents(source, 1..version) /\ 1..version \subseteq 0..MaxClock
        BY <2>1
      <3> QED
        BY <3>1, EventStamps
    <2> QED
      BY <2>1, <2>2
  <1>7. ASSUME NEW r \in Requests, Working(r) PROVE Shape'
    <2>0. UNCHANGED crashed \/ crashed' = TRUE
      BY ONLY <1>7, WorkingFrame
    <2>1. /\ \/ todo' = todo
             \/ todo' = [todo EXCEPT ![r] = Tail(todo[r])]
             \/ todo' = [todo EXCEPT ![r] = <<>>]
          /\ content' = content \/ content' = [content EXCEPT ![r] = version]
          /\ now' = now \/ now' = [now EXCEPT ![r] = clock]
          /\ cut' = cut \/ cut' = cut \cup {r}
          /\ UNCHANGED <<config, serving, clock, version, ev, pc, status, body>>
      BY ONLY <1>7, WorkingFrame
    <2>2. crashed' \in BOOLEAN
      BY <2>0, Zenon
    <2>6. DOMAIN todo' = Requests /\ cut' \subseteq Requests
      BY <2>1
    <2>7. version \in 0..MaxClock /\ clock \in 0..MaxClock
      OBVIOUS
    <2>3. content' \in [Requests -> 0..MaxClock]
      BY ONLY <2>1, <2>7, content \in [Requests -> 0..MaxClock]
    <2>4. now' \in [Requests -> (0..MaxClock) \cup {None}]
      BY ONLY <2>1, <2>7, now \in [Requests -> (0..MaxClock) \cup {None}]
    <2>5. UNCHANGED <<source, secret, serving, clock, version, ev, pc, status, body>>
      BY <2>1
    <2> QED
      BY <2>2, <2>3, <2>4, <2>5, <2>6
  <1>8. ASSUME NEW r \in Requests, Send(r) PROVE Shape'
    BY <1>8 DEF Send, GoOn
  <1>9. ASSUME NEW r \in Requests, Finish(r) PROVE Shape'
    BY <1>9 DEF Finish
  <1>10. ASSUME NEW r \in Requests, Answer(r) PROVE Shape'
    BY <1>10 DEF Answer
  <1> QED
    BY <1>1, <1>2, <1>3, <1>4, <1>5, <1>6, <1>7, <1>8, <1>9, <1>10, StepCases

\* The checks of a handler depend on the event and on the configuration only.
LEMMA SameChecks ==
    ASSUME UNCHANGED config, NEW e
    PROVE  Refused(e)' <=> Refused(e)
  BY DEF config, Refused, Verified, NexusSignature, DevopsCredentials, SignatureValid

\* Every step keeps what holds of the goroutines.
LEMMA GoroutineStep == Shape /\ GoroutineInv /\ [Next]_vars => GoroutineInv'
  <1> DEFINE G(r) == /\ pc[r] \in {"go", "run"} => ~Refused(ev[r])
                     /\ status[r] = 500 => Refused(ev[r])
                     /\ pc[r] = "run" => body[r] = ev[r] /\ content[r] >= ev[r].stamp
  <1> SUFFICES ASSUME Shape, GoroutineInv, [Next]_vars, NEW q \in Requests PROVE G(q)'
    BY DEF GoroutineInv
  <1>0. G(q) /\ UNCHANGED config
    BY DEF GoroutineInv, Next, Goroutine, GetWebhook, Tick, Occur, Handle, Answer, Decode, Fetch, Refresh,
       Languages, ReadClock, Branch, Services, Send, Finish, vars, config
  <1>1. ASSUME pc'[q] = pc[q], status'[q] = status[q], ev'[q] = ev[q], body'[q] = body[q],
               content'[q] = content[q]
        PROVE  G(q)'
    BY <1>0, <1>1, SameChecks
  <1>2. ASSUME pc'[q] \notin {"go", "run"}, status'[q] # 500 \/ (status'[q] = status[q] /\ ev'[q] = ev[q])
        PROVE  G(q)'
    BY <1>0, <1>2, SameChecks
  <1>3. CASE GetWebhook \/ Tick \/ UNCHANGED vars
    BY <1>1, <1>3 DEF GetWebhook, Tick, vars
  <1>4. ASSUME NEW r \in Requests, Occur(r) PROVE G(q)'
    <2>1. CASE r = q
      BY <1>2, <1>4, <2>1 DEF Occur, Shape
    <2>2. CASE r # q
      BY <1>1, <1>4, <2>2 DEF Occur, Shape
    <2> QED
      BY <2>1, <2>2
  <1>5. ASSUME NEW r \in Requests, Handle(r) PROVE G(q)'
    <2>1. CASE r = q
      <3>1. /\ pc[q] = "sent" /\ pc'[q] = IF Refused(ev[q]) \/ Dropped(ev[q]) THEN "done" ELSE "go"
            /\ UNCHANGED <<ev, status>>
        BY <1>5, <2>1 DEF Handle, Shape
      <3>2. pc'[q] \in {"go", "run"} => ~Refused(ev[q])
        BY <3>1
      <3>3. pc'[q] # "run"
        BY <3>1
      <3>4. Refused(ev[q])' <=> Refused(ev[q])
        BY <1>0, <3>1, SameChecks
      <3> QED
        BY <1>0, <3>1, <3>2, <3>3, <3>4
    <2>2. CASE r # q
      BY <1>1, <1>5, <2>2 DEF Handle, Shape
    <2> QED
      BY <2>1, <2>2
  <1>6. ASSUME NEW r \in Requests, Decode(r) PROVE G(q)'
    <2>1. CASE r = q
      <3>1. /\ pc[q] = "go" /\ body'[q] = ev[q] /\ content'[q] = ev[q].stamp
            /\ UNCHANGED <<status, ev, version>>
        BY <1>6, <2>1 DEF Decode, OwnBody, Shape
      <3>2. Refused(ev[q])' <=> Refused(ev[q])
        BY <1>0, <3>1, SameChecks
      <3>3. ev[q].stamp \in 1..version
        BY <3>1, EventStamps DEF Shape
      <3> QED
        BY <1>0, <3>1, <3>2, <3>3 DEF Shape
    <2>2. CASE r # q
      BY <1>1, <1>6, <2>2 DEF Decode, Shape
    <2> QED
      BY <2>1, <2>2
  <1>7. ASSUME NEW r \in Requests, Working(r) PROVE G(q)'
    <2>1. CASE r = q
      <3>1. /\ pc[q] = "run" /\ content'[q] \in {content[q], version}
            /\ UNCHANGED <<pc, status, ev, body, version>>
        <4>1. /\ content' = content \/ content' = [content EXCEPT ![r] = version]
              /\ pc[r] = "run" /\ UNCHANGED <<pc, status, ev, body, version>>
          BY ONLY <1>7, WorkingFrame
        <4> QED
          BY <2>1, <4>1 DEF Shape
      <3>2. Refused(ev[q])' <=> Refused(ev[q])
        BY <1>0, <3>1, SameChecks
      <3>3. ev[q].stamp \in 1..version
        BY <3>1, EventStamps DEF Shape
      <3> QED
        BY <1>0, <3>1, <3>2, <3>3 DEF Shape
    <2>2. CASE r # q
      <3>1. content'[q] = content[q] /\ UNCHANGED <<pc, status, ev, body>>
        <4>1. /\ content' = content \/ content' = [content EXCEPT ![r] = version]
              /\ UNCHANGED <<pc, status, ev, body>>
          BY ONLY <1>7, WorkingFrame
        <4> QED
          BY <2>2, <4>1 DEF Shape
      <3> QED
        BY <1>1, <3>1
    <2> QED
      BY <2>1, <2>2
  <1>8. ASSUME NEW r \in Requests, Send(r) PROVE G(q)'
    BY <1>1, <1>8 DEF Send
  <1>9. ASSUME NEW r \in Requests, Finish(r) PROVE G(q)'
    <2>1. CASE r = q
      BY <1>2, <1>9, <2>1 DEF Finish, Shape
    <2>2. CASE r # q
      BY <1>1, <1>9, <2>2 DEF Finish, Shape
    <2> QED
      BY <2>1, <2>2
  <1>10. ASSUME NEW r \in Requests, Answer(r) PROVE G(q)'
    <2>1. CASE r = q
      <3>1. /\ status'[q] = IF Refused(ev[q]) THEN 500 ELSE 204
            /\ UNCHANGED <<pc, ev, body, content>>
        BY <1>10, <2>1 DEF Answer, Shape
      <3>2. Refused(ev[q])' <=> Refused(ev[q])
        BY <1>0, <3>1, SameChecks
      <3> QED
        BY <1>0, <3>1, <3>2
    <2>2. CASE r # q
      BY <1>1, <1>10, <2>2 DEF Answer, Shape
    <2> QED
      BY <2>1, <2>2
  <1> QED
    BY <1>3, <1>4, <1>5, <1>6, <1>7, <1>8, <1>9, <1>10, StepCases

\* Every step keeps what holds of the data sent: of a datum that is already
\* out because its request is past the answer, of a new one because of what
\* holds of the goroutine that sends it.
LEMMA OutStep == Shape /\ GoroutineInv /\ OutInv /\ [Next]_vars => OutInv'
  <1> SUFFICES ASSUME Shape, GoroutineInv, OutInv, [Next]_vars PROVE OutInv'
    OBVIOUS
  <1>1. UNCHANGED config
    BY DEF Next, Goroutine, GetWebhook, Tick, Occur, Handle, Answer, Decode, Fetch, Refresh,
       Languages, ReadClock, Branch, Services, Send, Finish, vars, config
  <1>2. \A q \in Requests : pc[q] \in {"run", "done"} =>
          pc'[q] \in {"run", "done"} /\ ev'[q] = ev[q]
    BY DEF Shape, Steps, Next, Goroutine, GetWebhook, Tick, Occur, Handle, Answer, Decode, Fetch, Refresh,
       Languages, ReadClock, Branch, Services, Send, Finish, vars
  <1>3. Data' = Data
    BY <1>1 DEF config, Data, KnownTypes, AllEvents, Kinds
  <1>4. ASSUME NEW d \in Data, Sound(d) PROVE Sound(d)'
    <2>1. d.req \in Requests
      BY DEF Data
    <2>2. ~Refused(ev[d.req])'
      BY <1>1, <1>2, <1>4, <2>1, SameChecks DEF Sound
    <2> QED
      BY <1>2, <1>4, <2>1, <2>2 DEF Sound
  <1>5. CASE UNCHANGED out
    <2>1. \A n \in 1..Len(out) : out[n] \in Data
      BY LenProperties DEF OutInv
    <2> QED
      BY <1>3, <1>4, <1>5, <2>1 DEF OutInv
  <1>6. ASSUME NEW r \in Requests, Send(r) PROVE OutInv'
    <2>1. /\ pc[r] = "run" /\ Head(todo[r]) \in KnownTypes(source) /\ out' = Append(out, Datum(r))
          /\ UNCHANGED <<pc, status, ev, content, now, body>>
      BY <1>6 DEF Send
    <2>2. /\ ~Refused(ev[r]) /\ body[r] = ev[r]
          /\ content[r] >= ev[r].stamp /\ ev[r] \in AllEvents(source, 1..version)
      BY <2>1 DEF GoroutineInv, Shape
    <2>3. ev[r] \in AllEvents(source, 1..MaxClock) /\ ev[r].stamp \in 1..MaxClock
      <3>1. 1..version \subseteq 1..MaxClock
        BY ClockAssumption DEF Shape
      <3>2. ev[r] \in AllEvents(source, 1..version)
        BY <2>2
      <3>3. ev[r] \in AllEvents(source, 1..MaxClock) /\ ev[r].stamp \in 1..version
        BY ONLY <3>1, <3>2, EventStamps, Zenon
      <3> QED
        BY <3>1, <3>3
    <2>4. /\ content[r] \in 0..MaxClock /\ Time(r) \in 0..MaxClock
          /\ now[r] = None => content[r] >= Time(r) /\ Time(r) >= ev[r].stamp
      BY <2>2, <2>3, ClockAssumption DEF Time, Shape
    <2>5. Operation(body[r]) \in {"upsert", "delete"} /\ (now[r] # None) \in BOOLEAN
      BY DEF Operation
    <2>6. Datum(r) \in Data
      BY <2>1, <2>2, <2>3, <2>4, <2>5, Zenon DEF Datum, Data
    <2>7. Sound(Datum(r))
      BY <2>1, <2>2, <2>4, Zenon DEF Datum, Sound
    <2>8. PICK d : d = Datum(r)
      OBVIOUS
    <2>9. d \in Data /\ Sound(d)' /\ out' = Append(out, d)
      BY <1>4, <2>1, <2>6, <2>7, <2>8
    <2>10. out \in Seq(Data) /\ \A n \in 1..Len(out) : out[n] \in Data /\ Sound(out[n])
      BY LenProperties DEF OutInv
    <2>11. /\ out' \in Seq(Data) /\ Len(out') = Len(out) + 1 /\ Len(out) \in Nat
           /\ \A n \in 1..Len(out) : out'[n] = out[n]
           /\ out'[Len(out) + 1] = d
      BY <2>9, <2>10, AppendProperties, LenProperties
    <2>12. ASSUME NEW n \in 1..Len(out') PROVE Sound(out[n])'
      <3>1. CASE n = Len(out) + 1
        BY <2>9, <2>11, <3>1
      <3>2. CASE n # Len(out) + 1
        <4>1. n \in 1..Len(out)
          BY <2>11, <3>2
        <4>2. PICK o : o = out[n]
          OBVIOUS
        <4>3. o \in Data /\ Sound(o) /\ out'[n] = o
          BY <2>10, <2>11, <4>1, <4>2
        <4>4. Sound(o)'
          BY <1>4, <4>3
        <4> QED
          BY <4>3, <4>4
      <3> QED
        BY <3>1, <3>2
    <2> QED
      BY <1>3, <2>11, <2>12 DEF OutInv
  <1>7. UNCHANGED out \/ \E r \in Requests : Send(r)
    BY DEF Next, Goroutine, GetWebhook, Tick, Occur, Handle, Answer, Decode, Fetch, Refresh,
       Languages, ReadClock, Branch, Services, Finish, vars
  <1> QED
    BY <1>5, <1>6, <1>7

\* Steps of a devops goroutine that are short stay so as it goes on; the one
\* that sends has nothing left.
LEMMA ShortTail ==
    ASSUME NEW steps, Short(steps), steps # <<>>
    PROVE  /\ Short(Tail(steps))
           /\ source = "devops" /\ Head(steps) \in KnownTypes(source) => Tail(steps) = <<>>
  <1>1. ASSUME NEW t, steps = <<t>> PROVE Tail(steps) = <<>>
    BY <1>1
  <1>2. ASSUME NEW t, steps = <<"now", t>> PROVE Tail(steps) = <<t>> /\ Head(steps) = "now"
    BY <1>2
  <1>3. source = "devops" => "now" \notin KnownTypes(source)
    BY DEF KnownTypes
  <1> QED
    BY <1>1, <1>2, <1>3 DEF Short

\* Every step keeps devops goroutines to one datum each.
LEMMA SingleStep == Shape /\ OutInv /\ SingleInv /\ [Next]_vars => SingleInv'
  <1> SUFFICES ASSUME Shape, OutInv, SingleInv, [Next]_vars, source' = "devops" PROVE SingleInv'
    BY DEF SingleInv
  <1> DEFINE Idle(q) == \A n \in 1..Len(out) : out[n].req # q
             Done(n) == pc[out[n].req] = "run" => todo[out[n].req] = <<>>
             Only(n) == \A m \in 1..Len(out) : out[m].req = out[n].req => m = n
  <1>0. source = "devops"
    BY DEF Next, Goroutine, GetWebhook, Tick, Occur, Handle, Answer, Decode, Fetch, Refresh,
       Languages, ReadClock, Branch, Services, Send, Finish, vars, config
  <1>1. /\ \A q \in Requests : pc[q] = "run" => Short(todo[q])
        /\ \A n \in 1..Len(out) : Done(n) /\ Only(n)
    BY <1>0 DEF SingleInv
  <1>2. \A n \in 1..Len(out) : out[n].req \in Requests /\ pc[out[n].req] \in {"run", "done"}
    <2>1. \A n \in 1..Len(out) : out[n] \in Data /\ Sound(out[n])
      BY LenProperties DEF OutInv
    <2>2. \A d \in Data : d.req \in Requests
      BY DEF Data
    <2> QED
      BY <2>1, <2>2 DEF Sound
  <1>3. \A q \in Requests : pc[q] \in {"idle", "sent", "go"} => Idle(q)
    BY <1>2
  <1>4. \A q \in Requests : pc[q] = "run" /\ todo[q] # <<>> => Idle(q)
    BY <1>1
  <1>5. ASSUME UNCHANGED out,
               \A q \in Requests : pc'[q] = "run" => Short(todo'[q]),
               \A q \in Requests : Idle(q) \/ pc'[q] # "run" \/ (pc'[q] = pc[q] /\ todo'[q] = todo[q])
        PROVE  SingleInv'
    <2>1. ASSUME NEW n \in 1..Len(out') PROVE Done(n)' /\ Only(n)'
      BY <1>1, <1>2, <1>5, <2>1
    <2> QED
      BY <1>5, <2>1 DEF SingleInv
  <1>6. CASE GetWebhook \/ Tick \/ UNCHANGED vars
    BY <1>1, <1>5, <1>6 DEF GetWebhook, Tick, vars
  <1>7. ASSUME NEW r \in Requests, Occur(r) \/ Handle(r) \/ Finish(r) PROVE SingleInv'
    <2>1. /\ UNCHANGED <<out, todo>> /\ pc'[r] # "run"
          /\ \A q \in Requests : q # r => pc'[q] = pc[q]
      BY <1>7 DEF Occur, Handle, Finish, Shape
    <2> QED
      BY <1>1, <1>5, <2>1
  <1>8. ASSUME NEW r \in Requests, Decode(r) PROVE SingleInv'
    <2>1. PICK t \in Takers(ev[r]) : todo' = [todo EXCEPT ![r] = Process(ev[r], t)]
      BY <1>8 DEF Decode, OwnBody
    <2>2. Short(Process(ev[r], t))
      BY <1>0, DevopsIsShort
    <2>3. /\ UNCHANGED out /\ Idle(r) /\ Short(todo'[r])
          /\ \A q \in Requests : q # r => pc'[q] = pc[q] /\ todo'[q] = todo[q]
      BY <1>3, <1>8, <2>1, <2>2 DEF Decode, Shape
    <2> QED
      BY <1>1, <1>5, <2>3
  <1>9. ASSUME NEW r \in Requests, Working(r) PROVE SingleInv'
    <2>1. /\ pc[r] = "run" /\ todo[r] # <<>>
          /\ \/ todo' = todo
             \/ todo' = [todo EXCEPT ![r] = Tail(todo[r])]
             \/ todo' = [todo EXCEPT ![r] = <<>>]
          /\ UNCHANGED <<pc, out>>
      BY ONLY <1>9, WorkingFrame
    <2>2. Short(todo[r]) /\ Short(Tail(todo[r])) /\ Short(<<>>) /\ Idle(r)
      BY <1>1, <1>4, <2>1, ShortTail DEF Short
    <2>3. Short(todo'[r]) /\ \A q \in Requests : q # r => todo'[q] = todo[q]
      BY <2>1, <2>2 DEF Shape
    <2> QED
      BY <1>1, <1>5, <2>1, <2>2, <2>3
  <1>10. ASSUME NEW r \in Requests, Send(r) PROVE SingleInv'
    <2>1. /\ pc[r] = "run" /\ todo[r] # <<>> /\ Head(todo[r]) \in KnownTypes(source)
          /\ todo' = [todo EXCEPT ![r] = Tail(todo[r])] /\ UNCHANGED pc
          /\ out' = Append(out, Datum(r))
      BY <1>10 DEF Send, GoOn
    <2>2. Tail(todo[r]) = <<>> /\ Idle(r)
      BY <1>0, <1>1, <1>4, <2>1, ShortTail
    <2>3. todo'[r] = <<>> /\ \A q \in Requests : q # r => todo'[q] = todo[q]
      BY <2>1, <2>2 DEF Shape
    <2>4. /\ Len(out) \in Nat /\ Len(out') = Len(out) + 1
          /\ \A n \in 1..Len(out) : out'[n] = out[n]
          /\ out'[Len(out) + 1].req = r
      <3>1. Datum(r).req = r
        BY Zenon DEF Datum
      <3>2. PICK d : d = Datum(r)
        OBVIOUS
      <3> QED
        BY <2>1, <3>1, <3>2, LenProperties, AppendProperties DEF OutInv
    <2>5. \A q \in Requests : pc'[q] = "run" => Short(todo'[q])
      BY <1>1, <2>1, <2>3 DEF Short
    <2>6. ASSUME NEW n \in 1..Len(out') PROVE Done(n)' /\ Only(n)'
      <3>1. CASE n = Len(out) + 1
        BY <1>2, <2>2, <2>3, <2>4, <3>1
      <3>2. CASE n \in 1..Len(out)
        <4>1. out'[n] = out[n] /\ out[n].req # r /\ out[n].req \in Requests
          BY <1>2, <2>2, <2>4, <3>2
        <4>2. Done(n)'
          BY <1>1, <2>1, <2>3, <3>2, <4>1
        <4>3. ASSUME NEW m \in 1..Len(out'), out'[m].req = out'[n].req PROVE m = n
          <5>1. CASE m = Len(out) + 1
            BY <2>4, <4>1, <4>3, <5>1
          <5>2. CASE m \in 1..Len(out)
            BY <1>1, <2>4, <3>2, <4>1, <4>3, <5>2
          <5> QED
            BY <2>4, <5>1, <5>2
        <4> QED
          BY <4>2, <4>3
      <3> QED
        BY <2>4, <3>1, <3>2
    <2> QED
      BY <2>5, <2>6 DEF SingleInv
  <1>11. ASSUME NEW r \in Requests, Answer(r) PROVE SingleInv'
    BY <1>1, <1>5, <1>11 DEF Answer
  <1> QED
    BY <1>6, <1>7, <1>8, <1>9, <1>10, <1>11, StepCases

-----------------------------------------------------------------------------
(* Results. *)

\* The strengthened invariant holds in every reachable state.
THEOREM WebhookInvariant == Spec => []WInv
  <1>1. Init => WInv
    <2> SUFFICES ASSUME Init PROVE WInv
      OBVIOUS
    <2>1. Shape
      <3>1. /\ serving = "no" /\ crashed = FALSE /\ secret \in BOOLEAN
            /\ clock \in 0..MaxClock /\ version \in 0..clock /\ cut = {}
        BY ClockAssumption DEF Init
      <3>2. /\ pc \in [Requests -> Steps] /\ status \in [Requests -> {0, 204, 500}]
            /\ content \in [Requests -> 0..MaxClock]
            /\ now \in [Requests -> (0..MaxClock) \cup {None}]
        BY ClockAssumption DEF Init, Steps
      <3>3. /\ DOMAIN ev = Requests /\ DOMAIN body = Requests /\ DOMAIN todo = Requests
            /\ \A r \in Requests : pc[r] = "idle" /\ ev[r] = None /\ status[r] = 0
        BY DEF Init
      <3> QED
        BY <3>1, <3>2, <3>3 DEF Shape
    <2>2. out = <<>> /\ \A r \in Requests : pc[r] = "idle" /\ status[r] = 0
      BY DEF Init
    <2>3. OutInv
      BY <2>2, EmptySeq DEF OutInv
    <2> QED
      BY <2>1, <2>2, <2>3 DEF WInv, GoroutineInv, SingleInv
  <1>2. WInv /\ [Next]_vars => WInv'
    BY ShapeStep, GoroutineStep, OutStep, SingleStep DEF WInv
  <1> QED
    BY <1>1, <1>2, PTL DEF Spec

\* The types; only handled requests are answered, one with a goroutine never
\* with 500, and an event never carries a stamp from the future.
THEOREM TypeCorrect == Spec => []TypeOK
  <1>1. ASSUME WInv PROVE TypeOK
    <2>1. \A r \in Requests : ev[r] # None => ev[r] \in AllEvents(source, 1..clock)
      <3>1. 1..version \subseteq 1..clock
        BY <1>1, ClockAssumption DEF WInv, Shape
      <3>2. \A r \in Requests : ev[r] # None => ev[r] \in AllEvents(source, 1..version)
        BY <1>1 DEF WInv, Shape
      <3> QED
        BY <3>1, <3>2, EventStamps
    <2>2. \A r \in Requests :
            /\ status[r] \in {0, 204, 500} /\ (status[r] # 0 => pc[r] \in {"go", "run", "done"})
            /\ status[r] = 500 => pc[r] = "done"
      BY <1>1 DEF WInv, Shape, GoroutineInv
    <2>3. \A r \in Requests : pc[r] \in Steps /\ content[r] \in 0..MaxClock
      BY <1>1 DEF WInv, Shape
    <2> QED
      BY <1>1, <2>1, <2>2, <2>3 DEF WInv, Shape, TypeOK, Steps
  <1> QED
    BY <1>1, WebhookInvariant, PTL

\* Whatever the server has read since and however the goroutines interleave,
\* a datum is made from its own request, and that request was verified and is
\* not answered with 500, before the datum is sent or after.
THEOREM DataAreOwnAndVerified == Spec => []OwnAndVerified
  <1>1. ASSUME WInv PROVE OwnAndVerified
    <2>1. ASSUME NEW n \in 1..Len(out)
          PROVE  /\ out[n].of = ev[out[n].req]
                 /\ status[out[n].req] # 500
                 /\ secret /\ source # "sysdig" => ev[out[n].req].auth = "valid"
      <3>0. Sound(out[n]) /\ out[n] \in Data
        BY <1>1, LenProperties DEF WInv, OutInv
      <3>1. Sound(out[n]) /\ out[n].req \in Requests
        BY <3>0 DEF Data
      <3> QED
        BY <1>1, <3>1, VerifiedIsSigned DEF WInv, GoroutineInv, Sound
    <2>2. source = "devops" =>
            \A n \in 1..Len(out) : \A m \in 1..Len(out) : out[m].req = out[n].req => m = n
      BY <1>1 DEF WInv, SingleInv
    <2> QED
      BY <2>1, <2>2 DEF OwnAndVerified
  <1> QED
    BY <1>1, WebhookInvariant, PTL

\* In whatever order goroutines send: between two data whose time comes from
\* the source, the one with the later time is never older than the event
\* behind the other.
THEOREM SourceTimesAreSafe == Spec => []SourceTimeIsSafe
  <1>1. ASSUME WInv, NEW m \in 1..Len(out), NEW n \in 1..Len(out),
               ~out[m].clocked, ~out[n].clocked, out[m].time > out[n].time
        PROVE  out[m].version >= ev[out[n].req].stamp
    <2>1. /\ out[m].version >= out[m].time /\ out[n].time >= ev[out[n].req].stamp
      BY <1>1 DEF WInv, OutInv, Sound
    <2>2. out[m] \in Data /\ out[n] \in Data
      BY <1>1, LenProperties DEF WInv, OutInv
    <2>3. /\ out[m].version \in 0..MaxClock /\ out[m].time \in 0..MaxClock
          /\ out[n].time \in 0..MaxClock /\ out[n].req \in Requests
      BY <2>2 DEF Data
    <2>4. ev[out[n].req].stamp \in 1..version
      <3>1. pc[out[n].req] # "idle"
        BY <1>1 DEF WInv, OutInv, Sound
      <3>2. ev[out[n].req] \in AllEvents(source, 1..version)
        BY <1>1, <2>3, <3>1 DEF WInv, Shape
      <3> QED
        BY <3>2, EventStamps
    <2>5. version \in 0..MaxClock
      BY <1>1, ClockAssumption DEF WInv, Shape
    <2> QED
      BY <1>1, <2>1, <2>3, <2>4, <2>5, ClockAssumption
  <1>2. WInv => SourceTimeIsSafe
    BY <1>1 DEF SourceTimeIsSafe
  <1> QED
    BY <1>2, WebhookInvariant, PTL
===============================================================================
