------------------------------ MODULE Mapping -------------------------------
(***************************************************************************)
(* How an event becomes entries of the Catalog: the templates of the       *)
(* mapping of its type are rendered over its values, and the results are   *)
(* sent one by one, the item first and then its relationships.             *)
(*                                                                         *)
(* Pipeline models when the mapper goroutine runs and stops; this module   *)
(* models what it renders, and is composed with the loading of the         *)
(* mappings and with the destination in Command.                           *)
(***************************************************************************)
EXTENDS MappingConfig

CONSTANTS
    Types,          \* data types of the events and of the mappings
    Keys,           \* objects of the outside system
    Versions,       \* states an object goes through
    Identifiers,    \* texts that match identifierRegex and are short enough
    MaxEvents       \* bound: events in one run

(* An entry of the Catalog has the identity (apiVersion, itemFamily, name);*)
(* the data type stands for the first two, which its mapping fixes.        *)
Values == [key : Keys, version : Versions]
Events == [op : {"upsert", "delete"}, type : Types, values : Values]
Entries == (Types \cup {"relationships"}) \X Identifiers
NoEvent == [op |-> "none"]

VARIABLES
    mappers,    \* the document that maps each loaded type
    event,      \* the event being delivered
    pending,    \* its payloads that have not been sent yet, by their place
    whole,      \* all payloads of event sent so far were accepted
    store,      \* the entries of the Catalog, with the event that wrote each
    gone,       \* objects whose last event was a deletion delivered whole
    events      \* number of events taken so far

mappingVars == <<mappers, event, pending, whole, store, gone, events>>

-----------------------------------------------------------------------------
(* Variant with a plausible bug: the rendered text is not matched with     *)
(* identifierRegex.                                                        *)
IdentifierFailsUnchecked(t, v) == t[v].fails

(* executeIdentifierTemplate: text written before a failing execution may  *)
(* be a valid identifier, and is returned together with the error.         *)
IdentifierFails(t, v) == t[v].fails \/ t[v].text \notin Identifiers

Identifier(t, v) == IF t[v].text \in Identifiers THEN t[v].text ELSE "none"

(* executeTemplatesMap starts from an empty map: a template that renders   *)
(* nothing gives an empty map, never a nil one.                            *)
RenderMap(t, v) == IF t[v] = "nothing" THEN "empty" ELSE t[v]

(* executeExtraCreateIfTemplate; an extra without createIf is "always".    *)
CreateIf(x, v) == x.createIf[v] \in {"always", "true"}

(* Variant with a plausible bug: an extra whose createIf fails is left out *)
(* and one whose body fails is sent, instead of failing the event.         *)
ExtraFailsLenient(x, v) == CreateIf(x, v) /\ IdentifierFails(x.id, v)

(* executeExtraMappings.  One extra that fails fails the event.            *)
ExtraFails(x, v) ==
    \/ x.createIf[v] = "error"
    \/ CreateIf(x, v) /\ (IdentifierFails(x.id, v) \/ x.body[v] = "error")

(* The payloads of an event, by the order they are sent in: the item, then *)
(* the extras of the mapping.                                              *)
Item == 0

EntryOf(m, v, i) == IF i = Item THEN <<m.type, Identifier(m.id, v)>>
                    ELSE <<"relationships", Identifier(m.extras[i].id, v)>>

DataOf(m, v, i) == IF i = Item THEN RenderMap(m.spec, v) ELSE m.extras[i].body[v]

ApplyTemplatesFails(m, v) ==
    \/ IdentifierFails(m.id, v)
    \/ RenderMap(m.metadata, v) = "error" \/ RenderMap(m.spec, v) = "error"
    \/ \E i \in DOMAIN m.extras : ExtraFails(m.extras[i], v)

ApplyTemplates(m, v) ==
    [i \in {Item} \cup {j \in DOMAIN m.extras : CreateIf(m.extras[j], v)} |->
        [entry |-> EntryOf(m, v, i), data |-> DataOf(m, v, i)]]

(* An extra with deletePolicy none is left alone by a deletion.            *)
Cascades(x) == x.policy # "none"

ApplyIdentifierFails(m, v) ==
    \/ IdentifierFails(m.id, v)
    \/ \E i \in DOMAIN m.extras :
          Cascades(m.extras[i]) /\ IdentifierFails(m.extras[i].id, v)

(* Variant with a plausible bug: createIf decides about deletions too.     *)
ApplyIdentifierTemplateCreateIf(m, v) ==
    [i \in {Item} \cup {j \in DOMAIN m.extras :
                          Cascades(m.extras[j]) /\ CreateIf(m.extras[j], v)} |->
        [entry |-> EntryOf(m, v, i), data |-> "nil"]]

(* ApplyIdentifierTemplate: createIf is not looked at.                     *)
ApplyIdentifierTemplate(m, v) ==
    [i \in {Item} \cup {j \in DOMAIN m.extras : Cascades(m.extras[j])} |->
        [entry |-> EntryOf(m, v, i), data |-> "nil"]]

-----------------------------------------------------------------------------
MappingInit ==
    /\ mappers = <<>> /\ event = NoEvent /\ pending = <<>> /\ whole = TRUE
    /\ store = <<>> /\ gone = {} /\ events = 0

(* mappingData receives an event: a type without a mapper and an event     *)
(* whose templates fail are logged and dropped.                            *)
Receive(e) ==
    /\ DOMAIN pending = {} /\ events < MaxEvents
    /\ events' = events + 1
    /\ IF \/ e.type \notin DOMAIN mappers
          \/ e.op = "upsert" /\ ApplyTemplatesFails(mappers[e.type], e.values)
          \/ e.op = "delete" /\ ApplyIdentifierFails(mappers[e.type], e.values)
         THEN event' = NoEvent /\ pending' = <<>> /\ gone' = gone
         ELSE /\ event' = e
              /\ gone' = gone \ {<<e.type, e.values.key>>}
              /\ pending' = IF e.op = "upsert"
                              THEN ApplyTemplates(mappers[e.type], e.values)
                              ELSE ApplyIdentifierTemplate(mappers[e.type], e.values)
    /\ whole' = TRUE
    /\ UNCHANGED <<mappers, store>>

(* Data.MarshalJSON derives the operation from the payload.                *)
Operation(p) == IF p.data = "nil" THEN "delete" ELSE "upsert"

(* What the Catalog does with an accepted payload.                         *)
Apply(s, p, e) ==
    IF Operation(p) = "delete"
      THEN [x \in DOMAIN s \ {p.entry} |-> s[x]]
      ELSE [x \in DOMAIN s \cup {p.entry} |-> IF x = p.entry THEN e ELSE s[x]]

(* The payload that is sent next, and those that stay. *)
First == Min(DOMAIN pending)
Rest == [i \in DOMAIN pending \ {First} |-> pending[i]]

(* SendData or DeleteData returns nil.  SendData also does when its        *)
(* context is cancelled, but the command runs with context.Background():   *)
(* what a cancelled run loses is the subject of Pipeline.                  *)
Accepted ==
    /\ DOMAIN pending # {}
    /\ store' = Apply(store, pending[First], event)
    /\ pending' = Rest
    /\ gone' = IF DOMAIN Rest = {} /\ event.op = "delete" /\ whole
                 THEN gone \cup {<<event.type, event.values.key>>} ELSE gone
    /\ UNCHANGED <<mappers, event, whole, events>>

(* The call returns an error: without the item its relationships are not   *)
(* sent, a relationship that fails does not stop the others.  after is the *)
(* Catalog after the call: a request whose answer is lost was applied.     *)
Rejected(after) ==
    /\ DOMAIN pending # {}
    /\ store' = after
    /\ pending' = IF First = Item THEN <<>> ELSE Rest
    /\ whole' = FALSE
    /\ UNCHANGED <<mappers, event, gone, events>>
=============================================================================
