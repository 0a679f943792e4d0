------------------------------ MODULE MCWebhook ------------------------------
(***************************************************************************)
(* Two requests, one of them out of the ordinary, and two instants: both   *)
(* events may occur, or one with the clock running on.                     *)
(***************************************************************************)
EXTENDS Webhook
===============================================================================
