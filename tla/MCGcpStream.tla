----------------------------- MODULE MCGcpStream -----------------------------
(***************************************************************************)
(* Two requested messages, one of each other kind that matters, and two    *)
(* callbacks.                                                              *)
(***************************************************************************)
EXTENDS GcpStream, TLC

CONSTANTS g1, g2, o1, b1, n1

MCKind == (g1 :> "good") @@ (g2 :> "good") @@ (o1 :> "other") @@ (b1 :> "bad") @@
          (n1 :> "typeless")
===============================================================================
