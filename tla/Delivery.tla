------------------------------- MODULE Delivery -------------------------------
(***************************************************************************)
(* What one pipeline run promises to its destination, without goroutines,  *)
(* channel, context or HTTP: items are accepted one at a time; before the  *)
(* next one is accepted the parts of the last one may be stored, the item  *)
(* itself first and each part at most once; a part may be left out; a part *)
(* may be abandoned, and then the destination may store it at any later    *)
(* time, once; but for those, nothing is accepted or stored after the run  *)
(* has ended.                                                              *)
(***************************************************************************)
EXTENDS Naturals, Sequences

CONSTANTS
    Items,      \* the source.Data values a run can meet
    Storable,   \* the items that have a mapping
    NumExtras   \* NumExtras[i]: number of extras of a storable item

VARIABLES
    accepted,   \* items, in the order they were accepted
    stored,     \* [item, part] records, in the order they were stored
    abandoned,  \* [item, part] records that were given up on
    ended

vars == <<accepted, stored, abandoned, ended>>

Init == accepted = <<>> /\ stored = <<>> /\ abandoned = {} /\ ended = FALSE

Accept(i) ==
    /\ ~ended
    /\ \A a \in DOMAIN accepted : accepted[a] # i
    /\ accepted' = Append(accepted, i)
    /\ UNCHANGED <<stored, abandoned, ended>>

\* It is the turn of part k of the last accepted item i.
Due(i, k) ==
    /\ ~ended
    /\ accepted # <<>> /\ i = accepted[Len(accepted)] /\ i \in Storable
    /\ k \in 0 .. NumExtras[i]
    /\ \A m \in DOMAIN stored : stored[m].item = i => stored[m].part < k
    /\ \A w \in abandoned : w.item = i => w.part < k
    /\ k > 0 => \E m \in DOMAIN stored : stored[m] = [item |-> i, part |-> 0]

Store(i, k) ==
    /\ Due(i, k)
    /\ stored' = Append(stored, [item |-> i, part |-> k])
    /\ UNCHANGED <<accepted, abandoned, ended>>

Abandon(i, k) ==
    /\ Due(i, k)
    /\ abandoned' = abandoned \cup {[item |-> i, part |-> k]}
    /\ UNCHANGED <<accepted, stored, ended>>

StoreLate(w) ==
    /\ \A m \in DOMAIN stored : stored[m] # w
    /\ stored' = Append(stored, w)
    /\ UNCHANGED <<accepted, abandoned, ended>>

End ==
    /\ ~ended /\ ended' = TRUE
    /\ UNCHANGED <<accepted, stored, abandoned>>

Next ==
    \/ \E i \in Items : Accept(i)
    \/ \E i \in Items : \E k \in 0 .. NumExtras[i] : Store(i, k) \/ Abandon(i, k)
    \/ \E w \in abandoned : StoreLate(w)
    \/ End

Spec == Init /\ [][Next]_vars
===============================================================================
