---------------------------- MODULE MCTokenSource ----------------------------
(***************************************************************************)
(* Small instances of TokenSource: the clock runs to MaxTime seconds.      *)
(***************************************************************************)
EXTENDS TokenSource
===============================================================================
