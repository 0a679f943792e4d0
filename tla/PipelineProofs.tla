---------------------------- MODULE PipelineProofs ----------------------------
(***************************************************************************)
(* Proofs about Pipeline, for any set of producers, any number of items    *)
(* and extras, and both destinations.                                      *)
(***************************************************************************)
EXTENDS Pipeline, TLAPS

Busy == mpc \in {"call", "wire", "applied"}

\* Each item is received once, and exactly the first pos[p] items of p are.
TakenInv ==
    /\ \A a \in DOMAIN taken : taken[a][2] <= pos[taken[a][1]]
    /\ \A a, b \in DOMAIN taken : a # b => taken[a] # taken[b]
    /\ \A p \in Producers : \A n \in 1 .. pos[p] : \E a \in DOMAIN taken : taken[a] = <<p, n>>

\* A busy mapper works on the item it received last.
MapperInv ==
    /\ Busy => /\ taken # <<>>
               /\ cur = taken[Len(taken)]
               /\ Fate[cur] = "mapped"
    /\ mpc \in {"wire", "applied"} => Catalog
    /\ main \in {"idle", "returned"} => ~Busy

\* Only received items are stored, and of the current one only parts the
\* mapper has got to.
StoredInv ==
    /\ \A m \in DOMAIN applied : \E a \in DOMAIN taken : applied[m].item = taken[a]
    /\ Busy => \A m \in DOMAIN applied :
                 applied[m].item = cur => \/ applied[m].part < part
                                          \/ mpc = "applied" /\ applied[m].part = part
    /\ mpc = "applied" => \E m \in DOMAIN applied : applied[m] = Write(cur, part)

\* A request given up on belongs to a received item, is behind the mapper's
\* position, and went out only after the parent of its item was stored.
GivenInv ==
    /\ \A w \in given : \E a \in DOMAIN taken : w.item = taken[a]
    /\ Busy => \A w \in given : w.item = cur => w.part < part
    /\ \A w \in given : w.part > 0 => \E m \in DOMAIN applied : applied[m] = Write(w.item, 0)

\* When an extra can still be stored, its parent has been.  The parent of an
\* extra reached by a swallowed cancellation may be missing, but then the
\* context is cancelled and the extra never gets on the wire.
ParentInv ==
    Busy /\ part > 0 /\ (mpc = "call" /\ Catalog => ~cancelled) =>
        \E m \in DOMAIN applied : applied[m] = Write(cur, 0)

\* The inductive invariant behind the order and parent properties.
DeliveryInv ==
    /\ TypeOK /\ TakenInv /\ MapperInv /\ StoredInv /\ GivenInv /\ ParentInv
    /\ OnceInOrder /\ ExtraAfterParent

(***************************************************************************)
(* Items and the constants.                                                *)
(***************************************************************************)

\* An item is a producer and a position in what it has to send.
LEMMA ItemsDef ==
    /\ \A p \in Producers : \A n \in 1 .. Count[p] : <<p, n>> \in Items
    /\ \A i \in Items : i[1] \in Producers /\ i[2] \in 1 .. Count[i[1]] /\ i = <<i[1], i[2]>>
BY ProducersAssumption DEF Items

\* The number of extras of an item is a natural number.
LEMMA ExtrasNat == \A i \in Items : NumExtras[i] \in Nat
BY MappingAssumption

(***************************************************************************)
(* Type correctness.                                                       *)
(***************************************************************************)

\* Every step of the pipeline keeps the types, the bound Count[p] on what
\* producer p sends and the bound NumExtras on the part being sent.
LEMMA TypeStep == TypeOK /\ [Next]_vars => TypeOK'
<1> SUFFICES ASSUME TypeOK, [Next]_vars PROVE TypeOK'
  OBVIOUS
<1> USE ProducersAssumption
<1>1. CASE UNCHANGED vars
  BY <1>1 DEF TypeOK, vars
<1>2. CASE Sync
  BY <1>2 DEF TypeOK, Sync, mapperVars
<1>3. CASE Start
  BY <1>3 DEF TypeOK, Start, producerVars, mapperVars
<1>4. CASE SourceReturns
  BY <1>4 DEF TypeOK, SourceReturns, producerVars, mapperVars
<1>5. CASE RunReturns
  BY <1>5 DEF TypeOK, RunReturns, producerVars, mapperVars
<1>6. CASE Cancel
  BY <1>6 DEF TypeOK, Cancel, producerVars, mapperVars
<1>7. CASE MapperExits
  BY <1>7 DEF TypeOK, MapperExits, producerVars
<1>8. CASE WriterStores
  <2>1. cur \in Items /\ NumExtras[cur] \in Nat
    BY <1>8, ExtrasNat DEF TypeOK, WriterStores
  <2> QED
    BY <1>8, <2>1 DEF TypeOK, WriterStores, Advance, Write, Writes, producerVars
<1>9. CASE CatalogRequest
  BY <1>9 DEF TypeOK, CatalogRequest, producerVars
<1>10. CASE CatalogStores
  <2>1. cur \in Items
    BY <1>10 DEF TypeOK, CatalogStores
  <2> QED
    BY <1>10, <2>1 DEF TypeOK, CatalogStores, Write, Writes, producerVars
<1>11. CASE CatalogReturnsNil
  <2>1. cur \in Items /\ NumExtras[cur] \in Nat
    BY <1>11, ExtrasNat DEF TypeOK, CatalogReturnsNil
  <2> QED
    BY <1>11, <2>1 DEF TypeOK, CatalogReturnsNil, Advance, OnWire, Write, Writes, producerVars
<1>12. CASE CatalogReturnsError
  <2>1. cur \in Items /\ NumExtras[cur] \in Nat
    BY <1>12, ExtrasNat DEF TypeOK, CatalogReturnsError
  <2> QED
    BY <1>12, <2>1 DEF TypeOK, CatalogReturnsError, AfterError, Advance, OnWire, Write, Writes, producerVars
<1>13. ASSUME NEW p \in Producers, Spawn(p) PROVE TypeOK'
  BY <1>13 DEF TypeOK, Spawn, mapperVars
<1>14. ASSUME NEW p \in Producers, Produce(p) PROVE TypeOK'
  BY <1>14 DEF TypeOK, Produce, mapperVars
<1>15. ASSUME NEW p \in Producers, Finish(p) PROVE TypeOK'
  BY <1>15 DEF TypeOK, Finish, mapperVars
<1>16. ASSUME NEW p \in Producers, Fail(p) PROVE TypeOK'
  BY <1>16 DEF TypeOK, Fail, mapperVars
<1>17. ASSUME NEW p \in Producers, GiveUp(p) PROVE TypeOK'
  BY <1>17 DEF TypeOK, GiveUp, mapperVars
<1>18. ASSUME NEW p \in Producers, SendOnClosed(p) PROVE TypeOK'
  BY <1>18 DEF TypeOK, SendOnClosed, OnWire, Write, Writes, producerVars
<1>19. ASSUME NEW p \in Producers, HandOff(p) PROVE TypeOK'
  <2> DEFINE i == <<p, pos[p] + 1>>
  <2>1. pos[p] + 1 \in 1 .. Count[p]
    BY <1>19 DEF TypeOK, HandOff
  <2>2. i \in Items
    BY <2>1, ItemsDef
  <2>3. NumExtras[i] \in Nat
    BY <2>2, ExtrasNat
  <2>4. /\ pos' \in [Producers -> Nat] /\ ppc' \in [Producers -> {"idle", "busy", "sending", "done", "failed"}]
        /\ \A q \in Producers : pos'[q] <= Count[q] /\ (ppc'[q] = "sending" => pos'[q] < Count[q])
    BY <1>19 DEF TypeOK, HandOff
  <2>5. /\ taken' = Append(taken, i)
        /\ (mpc' = "call" /\ cur' = i /\ part' = 0) \/ (mpc' = mpc /\ part' = part /\ mpc = "select")
        /\ UNCHANGED <<main, err, cancelled, applied, failed, given, panicked>>
    BY <1>19 DEF HandOff
  <2> HIDE DEF i
  <2>6. taken' \in Seq(Items)
    BY <2>2, <2>5 DEF TypeOK
  <2>7. /\ mpc' \in {"select", "call", "wire", "applied", "done"}
        /\ part' \in Nat
        /\ mpc' \in {"call", "wire", "applied"} => cur' \in Items /\ part' <= NumExtras[cur']
    BY <2>2, <2>3, <2>5 DEF TypeOK
  <2> QED
    BY <2>4, <2>5, <2>6, <2>7 DEF TypeOK
<1>20. CASE CatalogStoresLate
  <2>1. PICK w \in given : applied' = Append(applied, w)
    BY <1>20 DEF CatalogStoresLate
  <2>2. applied' \in Seq(Writes)
    BY <2>1 DEF TypeOK
  <2> QED
    BY <1>20, <2>2 DEF TypeOK, CatalogStoresLate, producerVars
<1> QED
  BY <1>1, <1>2, <1>3, <1>4, <1>5, <1>6, <1>7, <1>8, <1>9, <1>10, <1>11, <1>12, <1>13,
     <1>14, <1>15, <1>16, <1>17, <1>18, <1>19, <1>20 DEF Next, MainStep, MapperStep, ProducerStep

\* The initial state is typed.
LEMMA TypeInit == Init => TypeOK
<1> SUFFICES ASSUME Init PROVE TypeOK
  OBVIOUS
<1>1. /\ ppc \in [Producers -> {"idle", "busy", "sending", "done", "failed"}] /\ pos \in [Producers -> Nat]
      /\ \A p \in Producers : pos[p] <= Count[p] /\ ppc[p] # "sending"
  BY ProducersAssumption DEF Init
<1>2. taken \in Seq(Items) /\ applied \in Seq(Writes)
  BY DEF Init
<1> QED
  BY <1>1, <1>2 DEF Init, TypeOK

\* No reachable state of a run breaks the types, the bound Count[p] or the
\* bound NumExtras[cur].
THEOREM TypeCorrect == Spec => []TypeOK
BY TypeInit, TypeStep, PTL DEF Spec

\* The elements of the destination's history are typed.
LEMMA WritesTyped ==
    ASSUME TypeOK PROVE \A m \in DOMAIN applied : applied[m].item \in Items /\ applied[m].part \in Nat
<1>1. \A m \in DOMAIN applied : applied[m] \in Writes
  BY DEF TypeOK
<1> QED
  BY <1>1 DEF Writes

\* So are the requests given up on.
LEMMA GivenTyped ==
    ASSUME TypeOK PROVE \A w \in given : w \in Writes /\ w.item \in Items /\ w.part \in Nat
BY DEF TypeOK, Writes

(***************************************************************************)
(* Order, at-most-once and parent-before-extra.                            *)
(***************************************************************************)

\* Steps that leave the mapper and the positions alone keep the invariant.
LEMMA Frame ==
    ASSUME DeliveryInv, TypeOK',
           UNCHANGED <<pos, mapperVars>>,
           cancelled => cancelled',
           main' \in {"idle", "returned"} => ~Busy
    PROVE  DeliveryInv'
<1> USE DEF mapperVars
<1>1. TakenInv' /\ StoredInv' /\ GivenInv' /\ OnceInOrder' /\ ExtraAfterParent'
  BY DEF DeliveryInv, TakenInv, StoredInv, GivenInv, OnceInOrder, ExtraAfterParent, Busy, Write
<1>2. MapperInv'
  BY DEF DeliveryInv, MapperInv, Busy
<1>3. ParentInv'
  BY DEF DeliveryInv, ParentInv, Busy, Write
<1> QED
  BY <1>1, <1>2, <1>3 DEF DeliveryInv

\* What storing the current part does to the history of the destination.
LEMMA StoreEffect ==
    ASSUME DeliveryInv, mpc \in {"call", "wire"},
           part > 0 => \E m \in DOMAIN applied : applied[m] = Write(cur, 0),
           applied' = Append(applied, Write(cur, part)), UNCHANGED <<taken, given>>
    PROVE  /\ OnceInOrder' /\ ExtraAfterParent'
           /\ \A m \in DOMAIN applied' : \E a \in DOMAIN taken : applied'[m].item = taken[a]
           /\ \A m \in DOMAIN applied' : applied'[m].item = cur => applied'[m].part <= part
           /\ \E m \in DOMAIN applied' : applied'[m] = Write(cur, 0)
           /\ \E m \in DOMAIN applied' : applied'[m] = Write(cur, part)
<1> DEFINE L == Len(applied)
           w == Write(cur, part)
<1>1. /\ cur \in Items /\ part \in Nat /\ taken \in Seq(Items)
      /\ applied \in Seq(Writes)
  BY DEF DeliveryInv, TypeOK
<1>2. w \in Writes /\ w.item = cur /\ w.part = part
  BY <1>1 DEF Write, Writes
<1> HIDE DEF w
<1>3. applied' = Append(applied, w)
  BY DEF w
<1>4. /\ L \in Nat /\ DOMAIN applied = 1 .. L /\ DOMAIN applied' = 1 .. L + 1
      /\ \A m \in 1 .. L : applied'[m] = applied[m]
      /\ applied'[L + 1] = w
  BY <1>1, <1>2, <1>3
<1>5. /\ taken # <<>> /\ cur = taken[Len(taken)]
      /\ \A m \in 1 .. L : applied[m].item = cur => applied[m].part < part
      /\ \A m \in 1 .. L : \E a \in DOMAIN taken : applied[m].item = taken[a]
      /\ \A a, b \in DOMAIN taken : a # b => taken[a] # taken[b]
  BY <1>4 DEF DeliveryInv, MapperInv, StoredInv, TakenInv, Busy
<1>6. Len(taken) \in DOMAIN taken /\ DOMAIN taken = 1 .. Len(taken)
  BY <1>1, <1>5
<1> HIDE DEF L
<1>13. \A m, n \in 1 .. L + 1 : m < n => applied'[m] # applied'[n]
  <2> SUFFICES ASSUME NEW m \in 1 .. L + 1, NEW n \in 1 .. L + 1, m < n PROVE applied'[m] # applied'[n]
    OBVIOUS
  <2>1. CASE n \in 1 .. L
    BY <1>4, <2>1 DEF DeliveryInv, OnceInOrder
  <2>2. CASE n = L + 1
    <3>1. m \in 1 .. L /\ applied'[m] = applied[m] /\ applied'[n] = w
      BY <1>4, <2>2
    <3>2. applied[m].item = cur => applied[m].part < part
      BY <1>5, <3>1
    <3> QED
      BY <1>1, <1>2, <3>1, <3>2
  <2> QED
    BY <1>4, <2>1, <2>2
<1>7. OnceInOrder'
  <2> SUFFICES ASSUME NEW m \in 1 .. L + 1, NEW n \in 1 .. L + 1, m < n, applied'[n] \notin given,
                      NEW a \in DOMAIN taken, NEW b \in DOMAIN taken,
                      applied'[m].item = taken[a], applied'[n].item = taken[b]
               PROVE  a < b \/ (a = b /\ applied'[m].part < applied'[n].part)
    BY <1>4, <1>13 DEF OnceInOrder
  <2>1. m \in 1 .. L /\ applied'[m] = applied[m]
    BY <1>4
  <2>2. CASE n \in 1 .. L
    BY <1>4, <2>1, <2>2 DEF DeliveryInv, OnceInOrder
  <2>3. CASE n = L + 1
    <3>1. applied'[n] = w
      BY <1>4, <2>3
    <3>2. b = Len(taken)
      BY <1>2, <1>5, <1>6, <3>1
    <3>3. a < b \/ a = b
      BY <1>1, <1>6, <3>2
    <3> QED
      BY <1>2, <1>5, <2>1, <3>1, <3>2, <3>3
  <2> QED
    BY <1>4, <2>2, <2>3
<1>8. ExtraAfterParent'
  <2> SUFFICES ASSUME NEW m \in 1 .. L + 1, applied'[m].part > 0
               PROVE  \E k \in 1 .. m - 1 : applied'[k] = Write(applied'[m].item, 0)
    BY <1>4 DEF ExtraAfterParent, Write
  <2>1. CASE m \in 1 .. L
    <3>1. PICK k \in 1 .. m - 1 : applied[k] = Write(applied[m].item, 0)
      BY <1>4, <2>1 DEF DeliveryInv, ExtraAfterParent
    <3>2. k \in 1 .. L /\ applied'[k] = applied[k] /\ applied'[m] = applied[m]
      BY <1>4, <2>1, <3>1
    <3> QED
      BY <3>1, <3>2
  <2>2. CASE m = L + 1
    <3>1. applied'[m] = w
      BY <1>4, <2>2
    <3>2. PICK k \in 1 .. L : applied[k] = Write(cur, 0)
      BY <1>2, <1>4, <3>1
    <3>3. k \in 1 .. m - 1 /\ applied'[k] = applied[k]
      BY <1>4, <2>2, <3>2
    <3> QED
      BY <1>2, <3>1, <3>2, <3>3
  <2> QED
    BY <1>4, <2>1, <2>2
<1>9. \A m \in DOMAIN applied' : \E a \in DOMAIN taken : applied'[m].item = taken[a]
  <2> TAKE m \in DOMAIN applied'
  <2>1. CASE m \in 1 .. L
    BY <1>4, <1>5, <2>1
  <2>2. CASE m = L + 1
    BY <1>2, <1>4, <1>5, <1>6, <2>2
  <2> QED
    BY <1>4, <2>1, <2>2
<1>10. \A m \in DOMAIN applied' : applied'[m].item = cur => applied'[m].part <= part
  <2> SUFFICES ASSUME NEW m \in 1 .. L + 1, applied'[m].item = cur
               PROVE  applied'[m].part <= part
    BY <1>4
  <2>1. CASE m \in 1 .. L
    <3>1. applied[m].part \in Nat
      BY <1>4, <2>1, WritesTyped DEF DeliveryInv
    <3> QED
      BY <1>1, <1>4, <1>5, <2>1, <3>1
  <2>2. CASE m = L + 1
    BY <1>1, <1>2, <1>4, <2>2
  <2> QED
    BY <1>4, <2>1, <2>2
<1>11. \E m \in DOMAIN applied' : applied'[m] = Write(cur, 0)
  <2>1. CASE part = 0
    BY <1>4, <2>1 DEF w
  <2>2. CASE part > 0
    BY <1>4, <2>2
  <2> QED
    BY <1>1, <2>1, <2>2
<1>12. \E m \in DOMAIN applied' : applied'[m] = Write(cur, part)
  BY <1>4 DEF w
<1> QED
  BY <1>7, <1>8, <1>9, <1>10, <1>11, <1>12

\* The invariant after the current part has been stored.
LEMMA StoreStep ==
    ASSUME DeliveryInv, TypeOK', mpc \in {"call", "wire"}, mpc = "call" => ~Catalog,
           applied' = Append(applied, Write(cur, part)),
           UNCHANGED <<main, cancelled, pos, cur, taken, given>>,
           \/ mpc = "wire" /\ mpc' = "applied" /\ part' = part
           \/ mpc = "call" /\ mpc' = "call" /\ part' = part + 1
           \/ mpc = "call" /\ mpc' = "select" /\ part' = part
    PROVE  DeliveryInv'
<1>1. part > 0 => \E m \in DOMAIN applied : applied[m] = Write(cur, 0)
  BY DEF DeliveryInv, ParentInv, Busy
<1>2. /\ OnceInOrder' /\ ExtraAfterParent'
      /\ \A m \in DOMAIN applied' : \E a \in DOMAIN taken : applied'[m].item = taken[a]
      /\ \A m \in DOMAIN applied' : applied'[m].item = cur => applied'[m].part <= part
      /\ \E m \in DOMAIN applied' : applied'[m] = Write(cur, 0)
      /\ \E m \in DOMAIN applied' : applied'[m] = Write(cur, part)
  BY <1>1, StoreEffect
<1>3. TakenInv'
  BY DEF DeliveryInv, TakenInv
<1>4. MapperInv'
  BY DEF DeliveryInv, MapperInv, Busy
<1>5. \A m \in DOMAIN applied' : applied'[m].part \in Nat
  <2>1. \A m \in DOMAIN applied' : applied'[m] \in Writes
    BY DEF TypeOK
  <2> QED
    BY <2>1 DEF Writes
<1>6. StoredInv'
  <2> part \in Nat
    BY DEF DeliveryInv, TypeOK
  <2> QED
    BY <1>2, <1>5 DEF StoredInv, Busy, Write
<1>7. ParentInv'
  BY <1>2 DEF ParentInv, Write
<1>8. GivenInv'
  <2>1. part \in Nat /\ \A w \in given : w.part \in Nat
    BY GivenTyped DEF DeliveryInv, TypeOK
  <2>2. /\ \A w \in given : \E a \in DOMAIN taken : w.item = taken[a]
        /\ \A w \in given : w.item = cur => w.part < part
        /\ \A w \in given : w.part > 0 => \E m \in DOMAIN applied : applied[m] = Write(w.item, 0)
    BY DEF DeliveryInv, GivenInv, Busy
  <2>3. \A m \in DOMAIN applied : m \in DOMAIN applied' /\ applied'[m] = applied[m]
    BY DEF DeliveryInv, TypeOK, Write, Writes
  <2>4. \A w \in given : w.part > 0 => \E m \in DOMAIN applied' : applied'[m] = Write(w.item, 0)
    BY <2>2, <2>3
  <2>5. \A w \in given : w.item = cur => w.part < part'
    BY <2>1, <2>2
  <2> QED
    BY <2>2, <2>4, <2>5 DEF GivenInv, Write
<1> QED
  BY <1>2, <1>3, <1>4, <1>6, <1>7, <1>8 DEF DeliveryInv

\* The invariant after the Catalog has stored a request given up on.
LEMMA LateStep ==
    ASSUME DeliveryInv, TypeOK', CatalogStoresLate
    PROVE  DeliveryInv'
<1> DEFINE L == Len(applied)
<1>1. PICK w \in given : w \notin Range(applied) /\ applied' = Append(applied, w)
  BY DEF CatalogStoresLate
<1>2. UNCHANGED <<main, cancelled, pos, mpc, cur, part, taken, given>>
  BY DEF CatalogStoresLate, producerVars
<1>3. w \in Writes /\ applied \in Seq(Writes) /\ w.part \in Nat
  BY GivenTyped DEF DeliveryInv, TypeOK
<1>4. /\ L \in Nat /\ DOMAIN applied = 1 .. L /\ DOMAIN applied' = 1 .. L + 1
      /\ \A m \in 1 .. L : applied'[m] = applied[m]
      /\ applied'[L + 1] = w
  BY <1>1, <1>3
<1>5. \A m \in 1 .. L : applied[m] # w
  BY <1>1, <1>4 DEF Range
<1> HIDE DEF L
<1>6. TakenInv' /\ MapperInv'
  BY <1>2 DEF DeliveryInv, TakenInv, MapperInv, Busy
<1>7. StoredInv'
  <2>1. \A m \in 1 .. L + 1 : \E a \in DOMAIN taken : applied'[m].item = taken[a]
    BY <1>4 DEF DeliveryInv, StoredInv, GivenInv
  <2>2. Busy => \A m \in 1 .. L + 1 : applied'[m].item = cur =>
                  \/ applied'[m].part < part
                  \/ mpc = "applied" /\ applied'[m].part = part
    BY <1>4 DEF DeliveryInv, StoredInv, GivenInv
  <2>3. mpc = "applied" => \E m \in 1 .. L + 1 : applied'[m] = Write(cur, part)
    BY <1>4 DEF DeliveryInv, StoredInv
  <2> QED
    BY <1>2, <1>4, <2>1, <2>2, <2>3 DEF StoredInv, Busy, Write
<1>8. GivenInv'
  <2>1. \A v \in given : v.part > 0 => \E m \in 1 .. L + 1 : applied'[m] = Write(v.item, 0)
    BY <1>4 DEF DeliveryInv, GivenInv
  <2> QED
    BY <1>2, <1>4, <2>1 DEF DeliveryInv, GivenInv, Busy, Write
<1>9. ParentInv'
  <2>1. (\E m \in DOMAIN applied : applied[m] = Write(cur, 0)) => \E m \in DOMAIN applied' : applied'[m] = Write(cur, 0)
    BY <1>4
  <2> QED
    BY <1>2, <2>1 DEF DeliveryInv, ParentInv, Busy, Write
<1>10. OnceInOrder'
  <2> SUFFICES ASSUME NEW m \in 1 .. L + 1, NEW n \in 1 .. L + 1, m < n
               PROVE  /\ applied'[m] # applied'[n]
                      /\ applied'[n] \notin given =>
                           \A a, b \in DOMAIN taken :
                              applied'[m].item = taken[a] /\ applied'[n].item = taken[b] =>
                                  a < b \/ (a = b /\ applied'[m].part < applied'[n].part)
    BY <1>2, <1>4 DEF OnceInOrder
  <2>1. m \in 1 .. L /\ applied'[m] = applied[m]
    BY <1>4
  <2>2. CASE n \in 1 .. L
    BY <1>4, <2>1, <2>2 DEF DeliveryInv, OnceInOrder
  <2>3. CASE n = L + 1
    BY <1>4, <1>5, <2>1, <2>3
  <2> QED
    BY <1>4, <2>2, <2>3
<1>11. ExtraAfterParent'
  <2> SUFFICES ASSUME NEW m \in 1 .. L + 1, applied'[m].part > 0
               PROVE  \E k \in 1 .. m - 1 : applied'[k] = Write(applied'[m].item, 0)
    BY <1>4 DEF ExtraAfterParent, Write
  <2>1. CASE m \in 1 .. L
    <3>1. PICK k \in 1 .. m - 1 : applied[k] = Write(applied[m].item, 0)
      BY <1>4, <2>1 DEF DeliveryInv, ExtraAfterParent
    <3>2. k \in 1 .. L /\ applied'[k] = applied[k] /\ applied'[m] = applied[m]
      BY <1>4, <2>1, <3>1
    <3> QED
      BY <3>1, <3>2
  <2>2. CASE m = L + 1
    <3>1. PICK k \in 1 .. L : applied[k] = Write(w.item, 0)
      BY <1>4, <2>2 DEF DeliveryInv, GivenInv
    <3>2. k \in 1 .. m - 1 /\ applied'[k] = applied[k]
      BY <1>4, <2>2, <3>1
    <3> QED
      BY <1>4, <2>2, <3>1, <3>2
  <2> QED
    BY <1>4, <2>1, <2>2
<1> QED
  BY <1>6, <1>7, <1>8, <1>9, <1>10, <1>11 DEF DeliveryInv

\* The invariant after the mapper has moved on without storing anything; a
\* request on the wire is given up on.
\* An extra is reached past its parent only when the parent was stored or
\* the context is cancelled.
LEMMA MoveStep ==
    ASSUME DeliveryInv, TypeOK', Busy, Catalog,
           UNCHANGED <<main, cancelled, pos, cur, taken, applied>>,
           given' = given \/ (mpc = "wire" /\ given' = given \cup {Write(cur, part)}),
           \/ mpc = "call" /\ mpc' = "wire" /\ part' = part /\ ~cancelled
           \/ mpc' = "call" /\ part' = part + 1 /\ (part > 0 \/ mpc = "applied" \/ cancelled)
           \/ mpc' = "select" /\ part' = part
    PROVE  DeliveryInv'
<1>1. TakenInv' /\ OnceInOrder' /\ ExtraAfterParent'
  BY DEF DeliveryInv, TakenInv, OnceInOrder, ExtraAfterParent, Write
<1>5. GivenInv'
  <2> DEFINE w == Write(cur, part)
  <2>1. /\ part \in Nat /\ \A v \in given : v.part \in Nat
        /\ taken \in Seq(Items) /\ taken # <<>> /\ cur = taken[Len(taken)]
    BY GivenTyped DEF DeliveryInv, TypeOK, MapperInv
  <2>2. Len(taken) \in DOMAIN taken
    BY <2>1
  <2>3. w.item = cur /\ w.part = part
    BY DEF Write
  <2>4. mpc = "wire" /\ part > 0 => \E m \in DOMAIN applied : applied[m] = Write(cur, 0)
    BY DEF DeliveryInv, ParentInv, Busy
  <2>5. \A v \in given' : v \in given \/ (mpc = "wire" /\ v = w)
    OBVIOUS
  <2> HIDE DEF w
  <2>6. \A v \in given' : \E a \in DOMAIN taken : v.item = taken[a]
    BY <2>1, <2>2, <2>3, <2>5 DEF DeliveryInv, GivenInv
  <2>7. Busy' => \A v \in given' : v.item = cur => v.part < part'
    <3> SUFFICES ASSUME Busy', NEW v \in given', v.item = cur PROVE v.part < part'
      OBVIOUS
    <3>1. CASE v \in given
      BY <2>1, <3>1 DEF DeliveryInv, GivenInv, Busy
    <3>2. CASE mpc = "wire" /\ v = w
      BY <2>1, <2>3, <3>2 DEF Busy
    <3> QED
      BY <2>5, <3>1, <3>2
  <2>8. \A v \in given' : v.part > 0 => \E m \in DOMAIN applied : applied[m] = Write(v.item, 0)
    BY <2>3, <2>4, <2>5 DEF DeliveryInv, GivenInv
  <2> QED
    BY <2>6, <2>7, <2>8 DEF GivenInv, Write
<1>2. MapperInv'
  BY DEF DeliveryInv, MapperInv, Busy
<1>3. StoredInv'
  <2> part \in Nat /\ \A m \in DOMAIN applied : applied[m].part \in Nat
    BY WritesTyped DEF DeliveryInv, TypeOK
  <2> QED
    BY DEF DeliveryInv, StoredInv, Busy
<1>4. ParentInv'
  <2> part \in Nat
    BY DEF DeliveryInv, TypeOK
  <2> QED
    BY DEF DeliveryInv, ParentInv, StoredInv, Busy, Write
<1> QED
  BY <1>1, <1>2, <1>3, <1>4, <1>5 DEF DeliveryInv

\* The invariant after the mapper has received the next item of p: it is new
\* because its position exceeds that of every item received from p.
LEMMA TakeStep ==
    ASSUME DeliveryInv, TypeOK', NEW p \in Producers, HandOff(p)
    PROVE  DeliveryInv'
<1> DEFINE i == <<p, pos[p] + 1>>
           T == Len(taken)
<1>1. /\ mpc = "select" /\ main = "running"
      /\ pos' = [pos EXCEPT ![p] = @ + 1]
      /\ taken' = Append(taken, i)
      /\ (mpc' = "call" /\ cur' = i /\ part' = 0 /\ Fate[i] = "mapped") \/ mpc' = "select"
      /\ UNCHANGED <<main, cancelled, applied, given>>
  BY DEF HandOff
<1>2. /\ taken \in Seq(Items) /\ pos \in [Producers -> Nat] /\ taken' \in Seq(Items)
      /\ pos[p] \in Nat /\ i[1] = p /\ i[2] = pos[p] + 1
  BY DEF DeliveryInv, TypeOK
<1>3. i \in Items
  <2>1. pos[p] + 1 \in 1 .. Count[p]
    BY ProducersAssumption DEF DeliveryInv, TypeOK, HandOff
  <2> QED
    BY <2>1, ItemsDef
<1> HIDE DEF i
<1>4. /\ T \in Nat /\ DOMAIN taken = 1 .. T /\ DOMAIN taken' = 1 .. T + 1 /\ Len(taken') = T + 1
      /\ \A a \in 1 .. T : taken'[a] = taken[a]
      /\ taken'[T + 1] = i
  BY <1>1, <1>2, <1>3
<1>5. \A a \in 1 .. T : taken[a] \in Items
  BY <1>2
<1> HIDE DEF T
<1>6. \A a \in 1 .. T : taken[a] # i
  <2> SUFFICES ASSUME NEW a \in 1 .. T, taken[a] = i PROVE FALSE
    OBVIOUS
  <2>1. taken[a][2] <= pos[taken[a][1]]
    BY <1>4 DEF DeliveryInv, TakenInv
  <2> QED
    BY <1>2, <2>1
<1>7. TakenInv'
  <2>1. \A a \in DOMAIN taken' : taken'[a][2] <= pos'[taken'[a][1]]
    <3> SUFFICES ASSUME NEW a \in 1 .. T + 1 PROVE taken'[a][2] <= pos'[taken'[a][1]]
      BY <1>4
    <3>1. CASE a \in 1 .. T
      <4>1. taken[a][1] \in Producers /\ taken[a][2] \in Nat /\ taken[a][2] <= pos[taken[a][1]]
        BY <1>4, <1>5, <3>1, ItemsDef, ProducersAssumption DEF DeliveryInv, TakenInv
      <4> QED
        BY <1>1, <1>2, <1>4, <3>1, <4>1
    <3>2. CASE a = T + 1
      BY <1>1, <1>2, <1>4, <3>2
    <3> QED
      BY <1>4, <3>1, <3>2
  <2>2. \A a, b \in DOMAIN taken' : a # b => taken'[a] # taken'[b]
    BY <1>4, <1>6 DEF DeliveryInv, TakenInv
  <2>3. \A q \in Producers : \A n \in 1 .. pos'[q] : \E a \in DOMAIN taken' : taken'[a] = <<q, n>>
    <3> SUFFICES ASSUME NEW q \in Producers, NEW n \in 1 .. pos'[q]
                 PROVE  \E a \in 1 .. T + 1 : taken'[a] = <<q, n>>
      BY <1>4
    <3>1. CASE n \in 1 .. pos[q]
      <4>1. PICK a \in 1 .. T : taken[a] = <<q, n>>
        BY <1>4, <3>1 DEF DeliveryInv, TakenInv
      <4> QED
        BY <1>4, <4>1
    <3>2. CASE n \notin 1 .. pos[q]
      <4>1. q = p /\ n = pos[p] + 1
        BY <1>1, <1>2, <3>2
      <4>2. <<q, n>> = i
        BY <4>1 DEF i
      <4> QED
        BY <1>4, <4>2
    <3> QED
      BY <3>1, <3>2
  <2> QED
    BY <2>1, <2>2, <2>3 DEF TakenInv
<1>8. \A m \in DOMAIN applied : \E a \in 1 .. T : applied[m].item = taken[a] /\ taken'[a] = taken[a]
  BY <1>4 DEF DeliveryInv, StoredInv
<1>9. \A m \in DOMAIN applied : applied[m].item # i
  BY <1>6, <1>8
<1>10. MapperInv'
  <2>1. taken' # <<>>
    BY <1>4
  <2> QED
    BY <1>1, <1>4, <2>1 DEF DeliveryInv, MapperInv, Busy
<1>11. StoredInv'
  BY <1>1, <1>4, <1>8, <1>9 DEF StoredInv, Busy
<1>12. ParentInv'
  BY <1>1 DEF ParentInv, Busy
<1>13. OnceInOrder'
  <2> SUFFICES ASSUME NEW m \in DOMAIN applied, NEW n \in DOMAIN applied, m < n, applied[n] \notin given,
                      NEW a \in 1 .. T + 1, NEW b \in 1 .. T + 1,
                      applied[m].item = taken'[a], applied[n].item = taken'[b]
               PROVE  a < b \/ (a = b /\ applied[m].part < applied[n].part)
    BY <1>1, <1>4 DEF DeliveryInv, OnceInOrder
  <2>1. a \in 1 .. T /\ b \in 1 .. T
    BY <1>4, <1>9
  <2> QED
    BY <1>4, <2>1 DEF DeliveryInv, OnceInOrder
<1>14. ExtraAfterParent'
  BY <1>1 DEF DeliveryInv, ExtraAfterParent, Write
<1>15. GivenInv'
  <2>1. \A w \in given : \E a \in 1 .. T : w.item = taken[a] /\ taken'[a] = taken[a]
    BY <1>4 DEF DeliveryInv, GivenInv
  <2>2. \A w \in given : w.item # i
    BY <1>6, <2>1
  <2>3. \A w \in given : \E a \in DOMAIN taken' : w.item = taken'[a]
    BY <1>4, <2>1
  <2> QED
    BY <1>1, <2>2, <2>3 DEF DeliveryInv, GivenInv, Busy, Write
<1> QED
  BY <1>7, <1>10, <1>11, <1>12, <1>13, <1>14, <1>15 DEF DeliveryInv

\* The request on the wire, if any, is for a received item whose parent is
\* stored when it is an extra.
LEMMA WireIsCovered ==
    ASSUME DeliveryInv
    PROVE  \A w \in OnWire : /\ \E a \in DOMAIN taken : w.item = taken[a]
                             /\ w.part > 0 => \E m \in DOMAIN applied : applied[m] = Write(w.item, 0)
<1> SUFFICES ASSUME mpc = "wire"
             PROVE  /\ \E a \in DOMAIN taken : Write(cur, part).item = taken[a]
                    /\ Write(cur, part).part > 0 =>
                         \E m \in DOMAIN applied : applied[m] = Write(Write(cur, part).item, 0)
  BY DEF OnWire
<1>1. taken \in Seq(Items) /\ taken # <<>> /\ cur = taken[Len(taken)]
  BY DEF DeliveryInv, TypeOK, MapperInv, Busy
<1>2. Len(taken) \in DOMAIN taken
  BY <1>1
<1>3. part > 0 => \E m \in DOMAIN applied : applied[m] = Write(cur, 0)
  BY DEF DeliveryInv, ParentInv, Busy
<1>4. Write(cur, part).item = cur /\ Write(cur, part).part = part
  BY DEF Write
<1> QED
  BY <1>1, <1>2, <1>3, <1>4

\* DeliveryInv is inductive.
LEMMA DeliveryStep == DeliveryInv /\ [Next]_vars => DeliveryInv'
<1> SUFFICES ASSUME DeliveryInv, [Next]_vars PROVE DeliveryInv'
  OBVIOUS
<1>1. TypeOK'
  BY TypeStep DEF DeliveryInv
<1>2. CASE UNCHANGED vars
  BY <1>1, <1>2, Frame DEF vars, mapperVars, DeliveryInv, MapperInv
<1>3. CASE Sync
  BY <1>1, <1>3, Frame DEF Sync, DeliveryInv, MapperInv
<1>4. CASE Start
  BY <1>1, <1>4, Frame DEF Start, producerVars, DeliveryInv, MapperInv
<1>5. CASE SourceReturns
  BY <1>1, <1>5, Frame DEF SourceReturns, producerVars
<1>6. CASE RunReturns
  BY <1>1, <1>6, Frame DEF RunReturns, producerVars, Busy
<1>7. CASE Cancel
  BY <1>1, <1>7, Frame DEF Cancel, producerVars, DeliveryInv, MapperInv
<1>8. CASE MapperExits
  <2>1. TakenInv' /\ OnceInOrder' /\ ExtraAfterParent'
    BY <1>8 DEF MapperExits, producerVars, DeliveryInv, TakenInv, OnceInOrder, ExtraAfterParent, Write
  <2>2. MapperInv' /\ StoredInv' /\ GivenInv' /\ ParentInv'
    BY <1>8 DEF MapperExits, DeliveryInv, MapperInv, StoredInv, GivenInv, ParentInv, Busy, Write
  <2> QED
    BY <1>1, <2>1, <2>2 DEF DeliveryInv
<1>9. CASE WriterStores
  BY <1>1, <1>9, StoreStep DEF WriterStores, Advance, producerVars
<1>10. CASE CatalogRequest
  BY <1>1, <1>10, MoveStep DEF CatalogRequest, producerVars, Busy
<1>11. CASE CatalogStores
  BY <1>1, <1>11, StoreStep DEF CatalogStores, producerVars
<1>12. CASE CatalogReturnsNil
  BY <1>1, <1>12, MoveStep DEF CatalogReturnsNil, Advance, OnWire, producerVars, Busy
<1>13. CASE CatalogReturnsError
  <2> part \in Nat
    BY DEF DeliveryInv, TypeOK
  <2> QED
    BY <1>1, <1>13, MoveStep DEF CatalogReturnsError, AfterError, Advance, OnWire, producerVars, Busy
<1>14. ASSUME NEW p \in Producers, ProducerStep(p) PROVE DeliveryInv'
  <2>1. CASE HandOff(p)
    BY <1>1, <2>1, TakeStep
  <2>2. CASE Spawn(p) \/ Produce(p) \/ Finish(p) \/ Fail(p) \/ GiveUp(p)
    BY <1>1, <2>2, Frame DEF Spawn, Produce, Finish, Fail, GiveUp, DeliveryInv, MapperInv
  <2>3. CASE SendOnClosed(p)
    <3>1. /\ ~Busy' /\ mpc' = "done" /\ given' = given \cup OnWire
          /\ UNCHANGED <<main, cancelled, pos, cur, part, taken, applied>>
      BY <2>3 DEF SendOnClosed, Busy, producerVars
    <3>2. TakenInv' /\ MapperInv' /\ StoredInv' /\ ParentInv' /\ ExtraAfterParent'
      BY <3>1 DEF DeliveryInv, TakenInv, MapperInv, StoredInv, ParentInv, ExtraAfterParent, Write
    <3>3. OnceInOrder'
      BY <3>1 DEF DeliveryInv, OnceInOrder
    <3>4. GivenInv'
      BY <3>1, WireIsCovered DEF DeliveryInv, GivenInv, Write
    <3> QED
      BY <1>1, <3>2, <3>3, <3>4 DEF DeliveryInv
  <2> QED
    BY <1>14, <2>1, <2>2, <2>3 DEF ProducerStep
<1>15. CASE CatalogStoresLate
  BY <1>1, <1>15, LateStep
<1> QED
  BY <1>2, <1>3, <1>4, <1>5, <1>6, <1>7, <1>8, <1>9, <1>10, <1>11, <1>12, <1>13, <1>14, <1>15
     DEF Next, MainStep, MapperStep

\* DeliveryInv holds in every reachable state.
THEOREM DeliveryInvariant == Spec => []DeliveryInv
<1>1. Init => DeliveryInv
  <2> SUFFICES ASSUME Init PROVE DeliveryInv
    OBVIOUS
  <2>1. TypeOK
    BY TypeInit
  <2>2. TakenInv
    BY DEF Init, TakenInv
  <2>3. MapperInv /\ StoredInv /\ GivenInv /\ ParentInv
    BY DEF Init, MapperInv, StoredInv, GivenInv, ParentInv, Busy
  <2>4. OnceInOrder /\ ExtraAfterParent
    BY DEF Init, OnceInOrder, ExtraAfterParent
  <2> QED
    BY <2>1, <2>2, <2>3, <2>4 DEF DeliveryInv
<1> QED
  BY <1>1, DeliveryStep, PTL DEF Spec

\* The parent is stored before its extras (see ExtraAfterParent).
THEOREM ParentFirst == Spec => []ExtraAfterParent
<1>1. DeliveryInv => ExtraAfterParent
  BY DEF DeliveryInv
<1> QED
  BY <1>1, DeliveryInvariant, PTL

\* Each part is stored at most once, and in order unless its request was
\* given up on (see OnceInOrder).
THEOREM StoredOnceInOrder == Spec => []OnceInOrder
<1>1. DeliveryInv => OnceInOrder
  BY DEF DeliveryInv
<1> QED
  BY <1>1, DeliveryInvariant, PTL

\* After Start or Sync has returned nothing is received, logged or sent, and
\* only a request given up on before can still be stored (see ReturnIsFinal).
THEOREM NothingAfterReturn == Spec => ReturnIsFinal
<1> DEFINE Final == /\ UNCHANGED <<taken, failed, given>>
                    /\ \/ UNCHANGED applied
                       \/ \E w \in given : applied' = Append(applied, w)
<1>1. DeliveryInv /\ [Next]_vars => [main = "returned" => Final]_vars
  <2> SUFFICES ASSUME DeliveryInv, Next, main = "returned" PROVE Final
    OBVIOUS
  <2>1. mpc \notin {"call", "wire", "applied"}
    BY DEF DeliveryInv, MapperInv, Busy
  <2>2. CASE MainStep \/ Cancel
    BY <2>2 DEF MainStep, Cancel, Sync, Start, SourceReturns, RunReturns, mapperVars
  <2>3. CASE MapperStep
    BY <2>1, <2>3 DEF MapperStep, MapperExits, WriterStores, CatalogRequest, CatalogStores,
       CatalogReturnsNil, CatalogReturnsError
  <2>4. ASSUME NEW p \in Producers, ProducerStep(p) PROVE Final
    BY <2>1, <2>4 DEF ProducerStep, Spawn, Produce, Finish, Fail, GiveUp, SendOnClosed, OnWire, HandOff, mapperVars
  <2>5. CASE CatalogStoresLate
    BY <2>5 DEF CatalogStoresLate
  <2> QED
    BY <2>2, <2>3, <2>4, <2>5 DEF Next
<1> QED
  BY <1>1, DeliveryInvariant, PTL DEF Spec, ReturnIsFinal

(***************************************************************************)
(* Nothing is lost silently.                                               *)
(***************************************************************************)

\* Without a cancellation, and unless a panic has cut the run short, every
\* item received is settled, except the current one, whose parts before `part`
\* are.
LossInv ==
    ~cancelled /\ (panicked => main = "returned") =>
        /\ \A a \in DOMAIN taken : Settled(taken[a]) \/ (Busy /\ a = Len(taken))
        /\ Busy => \A k \in 1 .. part - 1 : Write(cur, k) \in Range(applied) \cup failed

\* Appending to a history adds one element to its range.
LEMMA RangeAppend ==
    ASSUME NEW s \in Seq(Writes), NEW w \in Writes
    PROVE  Range(Append(s, w)) = Range(s) \cup {w}
<1>1. /\ DOMAIN s = 1 .. Len(s) /\ DOMAIN Append(s, w) = 1 .. Len(s) + 1 /\ Len(s) \in Nat
      /\ \A k \in 1 .. Len(s) : Append(s, w)[k] = s[k]
      /\ Append(s, w)[Len(s) + 1] = w
  OBVIOUS
<1> QED
  BY <1>1 DEF Range

\* What is settled stays settled as the histories grow.
LEMMA SettledGrows ==
    ASSUME NEW i \in Items, Settled(i), Range(applied) \subseteq Range(applied)', failed \subseteq failed'
    PROVE  Settled(i)'
BY DEF Settled, Write

\* One step of the mapper on the current item: it stays on the part, or it
\* goes on once the part is stored or its error logged, or it drops the item
\* because its parent failed.
LEMMA ProgressStep ==
    ASSUME DeliveryInv, LossInv, Busy, ~cancelled, ~panicked, UNCHANGED <<taken, cur>>,
           Range(applied) \subseteq Range(applied)', failed \subseteq failed',
           \/ mpc' \in {"wire", "applied"} /\ part' = part
           \/ /\ Write(cur, part) \in Range(applied)' \cup failed'
              /\ part = 0 => Write(cur, 0) \in Range(applied)'
              /\ \/ mpc' = "call" /\ part' = part + 1
                 \/ mpc' = "select" /\ part = NumExtras[cur]
           \/ mpc' = "select" /\ part = 0 /\ Write(cur, 0) \in failed'
    PROVE  LossInv'
<1>1. /\ cur \in Items /\ part \in Nat /\ NumExtras[cur] \in Nat
      /\ taken \in Seq(Items) /\ taken # <<>> /\ cur = taken[Len(taken)]
  BY ExtrasNat DEF DeliveryInv, TypeOK, MapperInv, Busy
<1>2. Len(taken) \in DOMAIN taken /\ \A a \in DOMAIN taken : taken[a] \in Items
  BY <1>1
<1>3. \A a \in DOMAIN taken : a # Len(taken) => Settled(taken[a])'
  <2> SUFFICES ASSUME NEW a \in DOMAIN taken, a # Len(taken) PROVE Settled(taken[a])'
    OBVIOUS
  <2>1. Settled(taken[a])
    BY DEF LossInv
  <2> QED
    BY <1>2, <2>1 DEF Settled, Write
<1>4. part > 0 => Write(cur, 0) \in Range(applied)'
  <2>1. part > 0 => Write(cur, 0) \in Range(applied)
    BY DEF DeliveryInv, ParentInv, Range
  <2> QED
    BY <2>1
<1>5. \A k \in 1 .. part - 1 : Write(cur, k) \in Range(applied)' \cup failed'
  BY DEF LossInv
<1>6. CASE mpc' \in {"wire", "applied"} /\ part' = part
  BY <1>3, <1>5, <1>6 DEF LossInv, Busy, Write
<1>7. CASE /\ Write(cur, part) \in Range(applied)' \cup failed'
           /\ part = 0 => Write(cur, 0) \in Range(applied)'
           /\ mpc' = "call" /\ part' = part + 1
  <2>1. \A k \in 1 .. part : Write(cur, k) \in Range(applied)' \cup failed'
    <3> TAKE k \in 1 .. part
    <3>1. k \in 1 .. part - 1 \/ k = part
      BY <1>1
    <3> QED
      BY <1>5, <1>7, <3>1
  <2> QED
    BY <1>1, <1>3, <1>7, <2>1 DEF LossInv, Busy, Write
<1>8. CASE /\ Write(cur, part) \in Range(applied)' \cup failed'
           /\ part = 0 => Write(cur, 0) \in Range(applied)'
           /\ mpc' = "select" /\ part = NumExtras[cur]
  <2>1. Write(cur, 0) \in Range(applied)'
    BY <1>1, <1>4, <1>8
  <2>2. \A k \in 1 .. NumExtras[cur] : Write(cur, k) \in Range(applied)' \cup failed'
    <3> TAKE k \in 1 .. NumExtras[cur]
    <3>1. k \in 1 .. part - 1 \/ k = part
      BY <1>1, <1>8
    <3> QED
      BY <1>5, <1>8, <3>1
  <2>3. Settled(cur)'
    BY <2>1, <2>2 DEF Settled, Write
  <2> QED
    BY <1>1, <1>3, <1>8, <2>3 DEF LossInv, Busy
<1>9. CASE mpc' = "select" /\ part = 0 /\ Write(cur, 0) \in failed'
  <2>1. Settled(cur)'
    BY <1>9 DEF Settled, Write
  <2> QED
    BY <1>1, <1>3, <1>9, <2>1 DEF LossInv, Busy
<1> QED
  BY <1>6, <1>7, <1>8, <1>9

\* LossInv is inductive relative to DeliveryInv.
LEMMA LossStep == DeliveryInv /\ LossInv /\ [Next]_vars => LossInv'
<1> SUFFICES ASSUME DeliveryInv, LossInv, [Next]_vars, ~cancelled', panicked' => main' = "returned" PROVE LossInv'
  BY DEF LossInv
<1>1. ~cancelled /\ (panicked => main = "returned")
  <2>1. CASE UNCHANGED vars \/ CatalogStoresLate
    <3>1. UNCHANGED <<main, cancelled, panicked>>
      BY <2>1 DEF vars, CatalogStoresLate
    <3> QED
      BY <3>1
  <2>2. CASE ~panicked /\ (MainStep \/ Cancel \/ MapperStep \/ \E p \in Producers : ProducerStep(p))
    <3>1. cancelled' \/ UNCHANGED cancelled
      BY <2>2 DEF MainStep, MapperStep, ProducerStep, Sync, Start, SourceReturns, RunReturns, Cancel,
         MapperExits, WriterStores, CatalogRequest, CatalogStores, CatalogReturnsNil, CatalogReturnsError,
         Spawn, Produce, Finish, Fail, GiveUp, SendOnClosed, HandOff
    <3> QED
      BY <2>2, <3>1
  <2> QED
    BY <2>1, <2>2 DEF Next
<1>2. ASSUME UNCHANGED <<taken, applied, failed, cur, part>>, mpc' = mpc \/ (~Busy /\ ~Busy')
      PROVE  LossInv'
  BY <1>2, <1>1 DEF LossInv, Busy, Settled, Write, Range
<1>3. CASE UNCHANGED vars
  BY <1>2, <1>3 DEF vars
<1>4. CASE MainStep \/ Cancel
  BY <1>2, <1>4 DEF MainStep, Sync, Start, SourceReturns, RunReturns, Cancel, mapperVars
<1>5. CASE MapperExits
  BY <1>2, <1>5 DEF MapperExits, Busy
<1>6. ASSUME Busy PROVE /\ cur \in Items /\ part \in Nat /\ NumExtras[cur] \in Nat /\ part <= NumExtras[cur]
                        /\ Write(cur, part) \in Writes /\ applied \in Seq(Writes)
                        /\ ~panicked
  BY <1>1, <1>6, ExtrasNat DEF Busy, DeliveryInv, MapperInv, TypeOK, Write, Writes
<1>7. CASE WriterStores
  <2>1. Busy
    BY <1>7 DEF WriterStores, Busy
  <2>2. Range(applied)' = Range(applied) \cup {Write(cur, part)}
    <3>1. Range(Append(applied, Write(cur, part))) = Range(applied) \cup {Write(cur, part)}
      BY <1>6, <2>1, RangeAppend
    <3> QED
      BY <1>7, <3>1 DEF WriterStores, Range
  <2> QED
    BY <1>1, <1>6, <1>7, <2>1, <2>2, ProgressStep DEF WriterStores, Advance
<1>8. CASE CatalogRequest
  BY <1>1, <1>6, <1>8, ProgressStep DEF CatalogRequest, Busy, Range
<1>9. CASE CatalogStores
  <2>1. Busy
    BY <1>9 DEF CatalogStores, Busy
  <2>2. Range(applied)' = Range(applied) \cup {Write(cur, part)}
    <3>1. Range(Append(applied, Write(cur, part))) = Range(applied) \cup {Write(cur, part)}
      BY <1>6, <2>1, RangeAppend
    <3> QED
      BY <1>9, <3>1 DEF CatalogStores, Range
  <2> QED
    BY <1>1, <1>6, <1>9, <2>1, <2>2, ProgressStep DEF CatalogStores
<1>10. CASE CatalogReturnsNil
  <2>1. Busy /\ mpc = "applied"
    BY <1>1, <1>10 DEF CatalogReturnsNil, Busy
  <2>2. Range(applied)' = Range(applied) /\ Write(cur, part) \in Range(applied)
    BY <1>10, <2>1 DEF CatalogReturnsNil, DeliveryInv, StoredInv, Range
  <2> QED
    BY <1>1, <1>6, <1>10, <2>1, <2>2, ProgressStep DEF CatalogReturnsNil, Advance
<1>11. CASE CatalogReturnsError
  <2>1. Busy /\ Range(applied)' = Range(applied)
    BY <1>11 DEF CatalogReturnsError, Busy, Range
  <2> QED
    BY <1>1, <1>6, <1>11, <2>1, ProgressStep DEF CatalogReturnsError, AfterError, Advance
<1>12. ASSUME NEW p \in Producers, ProducerStep(p) PROVE LossInv'
  <2>1. CASE Spawn(p) \/ Produce(p) \/ Finish(p) \/ Fail(p) \/ GiveUp(p)
    BY <1>2, <2>1 DEF Spawn, Produce, Finish, Fail, GiveUp, mapperVars
  <2>3. CASE SendOnClosed(p)
    <3>1. main = "returned"
      BY <2>3 DEF SendOnClosed
    <3> QED
      BY <1>2, <2>3, <3>1 DEF SendOnClosed, DeliveryInv, MapperInv, Busy
  <2>2. CASE HandOff(p)
    <3> DEFINE i == <<p, pos[p] + 1>>
               T == Len(taken)
    <3>1. /\ mpc = "select" /\ taken' = Append(taken, i)
          /\ (mpc' = "call" /\ part' = 0) \/ (mpc' = mpc /\ Fate[i] # "mapped")
          /\ UNCHANGED <<applied, failed>>
      BY <2>2 DEF HandOff
    <3>2. taken \in Seq(Items) /\ taken' \in Seq(Items)
      BY TypeStep DEF DeliveryInv, TypeOK
    <3> HIDE DEF i
    <3>3. /\ T \in Nat /\ DOMAIN taken = 1 .. T /\ DOMAIN taken' = 1 .. T + 1 /\ Len(taken') = T + 1
          /\ \A a \in 1 .. T : taken'[a] = taken[a]
          /\ taken'[T + 1] = i
      BY <3>1, <3>2
    <3> HIDE DEF T
    <3>4. \A a \in 1 .. T : Settled(taken[a])
      BY <1>1, <3>1, <3>3 DEF LossInv, Busy
    <3>5. Busy' \/ Fate[i] # "mapped"
      BY <3>1 DEF Busy
    <3>6. \A a \in DOMAIN taken' : Settled(taken[a])' \/ (Busy' /\ a = Len(taken'))
      <4> SUFFICES ASSUME NEW a \in DOMAIN taken' PROVE Settled(taken[a])' \/ (Busy' /\ a = Len(taken'))
        OBVIOUS
      <4>1. CASE a \in 1 .. T
        <5>1. Settled(taken[a]) /\ taken'[a] = taken[a]
          BY <3>3, <3>4, <4>1
        <5> QED
          BY <3>1, <5>1 DEF Settled, Write, Range
      <4>2. CASE a = T + 1
        BY <3>3, <3>5, <4>2 DEF Settled
      <4> QED
        BY <3>3, <4>1, <4>2
    <3>7. Busy' => part' = 0
      BY <3>1 DEF Busy
    <3> QED
      BY <3>6, <3>7 DEF LossInv
  <2> QED
    BY <1>12, <2>1, <2>2, <2>3 DEF ProducerStep
<1>13. CASE CatalogStoresLate
  <2>1. PICK w \in given : applied' = Append(applied, w)
    BY <1>13 DEF CatalogStoresLate
  <2>2. w \in Writes /\ applied \in Seq(Writes) /\ taken \in Seq(Items)
    BY GivenTyped DEF DeliveryInv, TypeOK
  <2>3. Range(applied)' = Range(applied) \cup {w}
    <3>1. Range(Append(applied, w)) = Range(applied) \cup {w}
      BY <2>2, RangeAppend
    <3> QED
      BY <2>1, <3>1 DEF Range
  <2>4. UNCHANGED <<taken, failed, cur, part, mpc>>
    BY <1>13 DEF CatalogStoresLate
  <2>5. ASSUME NEW a \in DOMAIN taken, Settled(taken[a]) PROVE Settled(taken[a])'
    <3>1. taken[a] \in Items
      BY <2>2
    <3> QED
      BY <2>3, <2>4, <2>5, <3>1 DEF Settled, Write
  <2> QED
    BY <1>1, <2>3, <2>4, <2>5 DEF LossInv, Busy, Write
<1> QED
  BY <1>3, <1>4, <1>5, <1>7, <1>8, <1>9, <1>10, <1>11, <1>12, <1>13 DEF Next, MapperStep

\* LossInv holds in every reachable state.
LEMMA LossInvariant == Spec => []LossInv
<1>1. Init => LossInv
  BY DEF Init, LossInv, Busy
<1> QED
  BY <1>1, LossStep, DeliveryInvariant, PTL DEF Spec

\* A run that returns without having been cancelled has settled every item
\* it received (see NoSilentLoss).
THEOREM NothingLostSilently == Spec => []NoSilentLoss
<1>1. DeliveryInv /\ LossInv => NoSilentLoss
  BY DEF DeliveryInv, MapperInv, LossInv, NoSilentLoss, Range
<1> QED
  BY <1>1, LossInvariant, DeliveryInvariant, PTL

(***************************************************************************)
(* Producers: what the source call waits for.                              *)
(***************************************************************************)

\* Producers run only after Start or Sync has called the source, and those
\* the source waits for have stopped when the channel is closed; those of a
\* sync that has no error to return have ended without one.
ProducerInv ==
    /\ main = "idle" => \A p \in Producers : ppc[p] = "idle"
    /\ main \in {"draining", "returned"} => \A p \in Foreground : ppc[p] \notin {"busy", "sending"}
    /\ Mode = "sync" /\ main \in {"running", "draining"} => \A p \in Producers : ppc[p] # "idle"
    /\ Mode = "sync" /\ main \in {"draining", "returned"} /\ ~err => \A p \in Producers : ppc[p] = "done"
    /\ panicked => Detached # {}

\* ProducerInv is inductive relative to TypeOK.
LEMMA ProducerInvStep == TypeOK /\ ProducerInv /\ [Next]_vars => ProducerInv'
<1> SUFFICES ASSUME TypeOK, ProducerInv, [Next]_vars PROVE ProducerInv'
  OBVIOUS
<1> USE ProducersAssumption, SourceAssumption DEF Foreground
<1>1. CASE UNCHANGED vars
  BY <1>1 DEF ProducerInv, vars
<1>2. CASE Sync
  BY <1>2 DEF ProducerInv, TypeOK, Sync
<1>3. CASE Start
  BY <1>3 DEF ProducerInv, Start, producerVars
<1>4. CASE SourceReturns
  <2>1. Mode = "sync" /\ ~err' => \A p \in Producers : ppc[p] = "done"
    BY <1>4 DEF ProducerInv, TypeOK, SourceReturns
  <2> QED
    BY <1>4, <2>1 DEF ProducerInv, SourceReturns, producerVars
<1>5. CASE RunReturns
  BY <1>5 DEF ProducerInv, RunReturns, producerVars
<1>6. CASE Cancel
  BY <1>6 DEF ProducerInv, Cancel, producerVars
<1>7. CASE MapperStep
  BY <1>7 DEF ProducerInv, MapperStep, MapperExits, WriterStores, CatalogRequest, CatalogStores,
     CatalogReturnsNil, CatalogReturnsError, producerVars
<1>8. ASSUME NEW p \in Producers, ProducerStep(p) PROVE ProducerInv'
  <2>1. CASE Spawn(p)
    BY <2>1 DEF ProducerInv, TypeOK, Spawn
  <2>2. CASE Produce(p)
    BY <2>2 DEF ProducerInv, TypeOK, Produce
  <2>3. CASE Finish(p)
    BY <2>3 DEF ProducerInv, TypeOK, Finish
  <2>4. CASE Fail(p)
    BY <2>4 DEF ProducerInv, TypeOK, Fail
  <2>5. CASE GiveUp(p)
    BY <2>5 DEF ProducerInv, TypeOK, GiveUp
  <2>6. CASE SendOnClosed(p)
    BY <2>6 DEF ProducerInv, TypeOK, SendOnClosed, producerVars
  <2>7. CASE HandOff(p)
    BY <2>7 DEF ProducerInv, TypeOK, HandOff
  <2> QED
    BY <1>8, <2>1, <2>2, <2>3, <2>4, <2>5, <2>6, <2>7 DEF ProducerStep
<1>9. CASE CatalogStoresLate
  BY <1>9 DEF ProducerInv, CatalogStoresLate, producerVars
<1> QED
  BY <1>1, <1>2, <1>3, <1>4, <1>5, <1>6, <1>7, <1>8, <1>9 DEF Next, MainStep

\* ProducerInv holds in every reachable state.
LEMMA ProducerInvariant == Spec => []ProducerInv
<1>1. Init => ProducerInv
  BY DEF Init, ProducerInv
<1> QED
  BY <1>1, ProducerInvStep, TypeCorrect, PTL DEF Spec

\* A producer the source waits for never sends on the closed channel (see
\* WaitedSendsEndBeforeClose).
THEOREM WaitedSendsEnd == Spec => []WaitedSendsEndBeforeClose
<1>1. ProducerInv => WaitedSendsEndBeforeClose
  BY DEF ProducerInv, WaitedSendsEndBeforeClose
<1> QED
  BY <1>1, ProducerInvariant, PTL

\* A source that leaves no goroutine behind never panics the process (see
\* NoPanic): this covers every sync.
THEOREM NoDetachedNoPanic == ASSUME Detached = {} PROVE Spec => []NoPanic
<1>1. ProducerInv => NoPanic
  BY DEF ProducerInv, NoPanic
<1> QED
  BY <1>1, ProducerInvariant, PTL

\* A sync that returns nil and was not cancelled dropped no error of the
\* source and has settled every value the source sent (see
\* CleanSyncIsSettled).
THEOREM CleanSyncSettled == Spec => []CleanSyncIsSettled
<1>1. DeliveryInv /\ LossInv /\ ProducerInv => CleanSyncIsSettled
  <2> SUFFICES ASSUME DeliveryInv, LossInv, ProducerInv, Mode = "sync", main = "returned", ~err, ~cancelled,
                      NEW p \in Producers
               PROVE  ppc[p] = "done" /\ \A n \in 1 .. pos[p] : Settled(<<p, n>>)
    BY DEF CleanSyncIsSettled
  <2>1. ppc[p] = "done"
    BY DEF ProducerInv
  <2>2. \A a \in DOMAIN taken : Settled(taken[a])
    BY DEF DeliveryInv, MapperInv, LossInv
  <2>3. ASSUME NEW n \in 1 .. pos[p] PROVE Settled(<<p, n>>)
    <3>1. PICK a \in DOMAIN taken : taken[a] = <<p, n>>
      BY DEF DeliveryInv, TakenInv
    <3> QED
      BY <2>2, <3>1
  <2> QED
    BY <2>1, <2>3
<1> QED
  BY <1>1, DeliveryInvariant, LossInvariant, ProducerInvariant, PTL

(***************************************************************************)
(* The run implements Delivery.                                            *)
(***************************************************************************)

\* Every step of the run is a step of Delivery or leaves its variables alone.
LEMMA DeliveryRefinement == DeliveryInv /\ [Next]_vars => [D!Next]_(D!vars)
<1> SUFFICES ASSUME DeliveryInv, [Next]_vars PROVE D!Next \/ UNCHANGED D!vars
  OBVIOUS
<1> DEFINE returned == main = "returned"
<1>1. ASSUME UNCHANGED <<taken, applied, given, returned>> PROVE UNCHANGED D!vars
  BY <1>1 DEF D!vars
<1>2. ASSUME UNCHANGED <<taken, applied, given>>, main # "returned", main' = "returned" PROVE D!End
  BY <1>2 DEF D!End
<1>0. ASSUME mpc \in {"call", "wire"}, mpc = "call" => ~Catalog
      PROVE  D!Due(cur, part) /\ cur \in Items /\ part \in 0 .. NumExtras[cur]
  <2>1. /\ cur \in Items /\ Fate[cur] = "mapped" /\ main # "returned"
        /\ taken # <<>> /\ cur = taken[Len(taken)]
        /\ part \in 0 .. NumExtras[cur]
    BY <1>0, ExtrasNat DEF DeliveryInv, TypeOK, MapperInv, Busy
  <2>2. /\ \A m \in DOMAIN applied : applied[m].item = cur => applied[m].part < part
        /\ \A w \in given : w.item = cur => w.part < part
        /\ part > 0 => \E m \in DOMAIN applied : applied[m] = [item |-> cur, part |-> 0]
    BY <1>0 DEF DeliveryInv, StoredInv, GivenInv, ParentInv, Busy, Write
  <2> QED
    BY <2>1, <2>2 DEF D!Due
<1>3. ASSUME mpc \in {"call", "wire"}, mpc = "call" => ~Catalog, UNCHANGED <<main, taken, given>>,
             applied' = Append(applied, Write(cur, part))
      PROVE  D!Next
  <2>1. D!Store(cur, part)
    BY <1>0, <1>3 DEF D!Store, Write
  <2> QED
    BY <1>0, <1>3, <2>1 DEF D!Next
<1>9. ASSUME UNCHANGED <<main, taken, applied>>, given' = given \cup OnWire
      PROVE  D!Next \/ UNCHANGED D!vars
  <2>1. CASE mpc = "wire"
    <3>1. D!Abandon(cur, part)
      BY <1>0, <1>9, <2>1 DEF D!Abandon, OnWire, Write
    <3> QED
      BY <1>0, <2>1, <3>1 DEF D!Next
  <2>2. CASE mpc # "wire"
    BY <1>1, <1>9, <2>2 DEF OnWire
  <2> QED
    BY <2>1, <2>2
<1>4. CASE UNCHANGED vars
  BY <1>1, <1>4 DEF vars
<1>5. CASE MainStep \/ Cancel
  BY <1>1, <1>2, <1>5 DEF MainStep, Cancel, Sync, Start, SourceReturns, RunReturns, mapperVars, D!Next
<1>6. CASE WriterStores \/ CatalogStores
  BY <1>3, <1>6 DEF WriterStores, CatalogStores
<1>7. CASE MapperExits \/ CatalogRequest
  BY <1>1, <1>7 DEF MapperExits, CatalogRequest
<1>10. CASE CatalogReturnsNil \/ CatalogReturnsError
  BY <1>9, <1>10 DEF CatalogReturnsNil, CatalogReturnsError
<1>11. CASE CatalogStoresLate
  <2>1. PICK w \in given : w \notin Range(applied) /\ applied' = Append(applied, w)
    BY <1>11 DEF CatalogStoresLate
  <2>2. \A m \in DOMAIN applied : applied[m] # w
    BY <2>1 DEF Range
  <2>3. UNCHANGED <<main, taken, given>>
    BY <1>11 DEF CatalogStoresLate
  <2>4. D!StoreLate(w)
    BY <2>1, <2>2, <2>3 DEF D!StoreLate
  <2> QED
    BY <2>4 DEF D!Next
<1>8. ASSUME NEW p \in Producers, ProducerStep(p) PROVE D!Next \/ UNCHANGED D!vars
  <2>1. CASE HandOff(p)
    <3> DEFINE i == <<p, pos[p] + 1>>
    <3>1. pos[p] \in Nat /\ pos[p] + 1 \in 1 .. Count[p]
      <4>1. ppc[p] = "sending"
        BY <2>1 DEF HandOff
      <4>2. pos[p] \in Nat /\ Count[p] \in Nat /\ pos[p] < Count[p]
        BY <4>1, ProducersAssumption DEF DeliveryInv, TypeOK
      <4> QED
        BY <4>2
    <3>2. i \in Items
      BY <3>1, ItemsDef
    <3>3. \A a \in DOMAIN taken : taken[a] # i
      <4> SUFFICES ASSUME NEW a \in DOMAIN taken, taken[a] = i PROVE FALSE
        OBVIOUS
      <4>1. i[1] = p /\ i[2] = pos[p] + 1
        OBVIOUS
      <4>2. taken[a][2] <= pos[taken[a][1]]
        BY DEF DeliveryInv, TakenInv
      <4> HIDE DEF i
      <4> QED
        BY <3>1, <4>1, <4>2
    <3>4. taken' = Append(taken, i) /\ main = "running" /\ UNCHANGED <<applied, given, main>>
      BY <2>1 DEF HandOff
    <3>5. D!Accept(i)
      BY <3>3, <3>4 DEF D!Accept
    <3> QED
      BY <3>2, <3>5 DEF D!Next
  <2>2. CASE Spawn(p) \/ Produce(p) \/ Finish(p) \/ Fail(p) \/ GiveUp(p)
    BY <1>1, <2>2 DEF Spawn, Produce, Finish, Fail, GiveUp, mapperVars
  <2>3. CASE SendOnClosed(p)
    BY <1>9, <2>3 DEF SendOnClosed
  <2> QED
    BY <1>8, <2>1, <2>2, <2>3 DEF ProducerStep
<1> QED
  BY <1>4, <1>5, <1>6, <1>7, <1>8, <1>10, <1>11 DEF Next, MapperStep

\* The pipeline run implements the delivery it promises (see
\* ImplementsDelivery).
THEOREM Refinement == Spec => ImplementsDelivery
<1>1. Init => D!Init
  BY DEF Init, D!Init
<1> QED
  BY <1>1, DeliveryRefinement, DeliveryInvariant, PTL DEF Spec, ImplementsDelivery, D!Spec
===============================================================================
