------------------------------ MODULE MCPipeline ------------------------------
(***************************************************************************)
(* Small instances of Pipeline.  The first item of every producer is       *)
(* mapped with Extras extras, the second one is broken, the third          *)
(* unmapped and the fourth mapped without extras; SyncSteps bounds a sync  *)
(* loop, StreamSteps a callback.                                           *)
(***************************************************************************)
EXTENDS Pipeline

CONSTANTS SyncSteps, StreamSteps, Extras

MCCount == [p \in Producers |-> IF Mode = "sync" THEN SyncSteps ELSE StreamSteps]
MCItems == UNION {{p} \X (1 .. MCCount[p]) : p \in Producers}
MCFate == [i \in MCItems |-> CASE i[2] = 2 -> "broken" [] i[2] = 3 -> "unmapped" [] OTHER -> "mapped"]
MCNumExtras == [i \in MCItems |-> IF i[2] = 1 THEN Extras ELSE 0]
===============================================================================
