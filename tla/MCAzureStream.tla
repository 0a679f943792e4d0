---------------------------- MODULE MCAzureStream ----------------------------
(***************************************************************************)
(* Two processes share a partition whose log mixes the kinds within and    *)
(* across events.                                                          *)
(***************************************************************************)
EXTENDS AzureStream, TLC

CONSTANTS r1, r2, p1

MCLog == p1 :> <<<<"write", "untimed">>, <<"delete", "skip">>>>
StopLog == p1 :> <<<<"write", "delete">>, <<"delete">>>>
===============================================================================
