----------------------------- MODULE MCSyncSource -----------------------------
(***************************************************************************)
(* Small worlds for SyncSource.  The sizes of the pages at each depth: two *)
(* pages over two, a full and a short page over one, one item over three   *)
(* pages, and a listing without items.                                     *)
(***************************************************************************)
EXTENDS SyncSource

MCShapes == {<< <<1, 1>>, <<1, 1>>, <<1>> >>,
             << <<2, 1>>, <<1>>, <<1>> >>,
             << <<1>>, <<1, 1, 1>>, <<1>> >>,
             << <<0>>, <<1>>, <<1>> >>}
===============================================================================
