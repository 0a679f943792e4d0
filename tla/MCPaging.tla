------------------------------ MODULE MCPaging ------------------------------
(* Small instance of Paging: two full pages and a fifth item that may open a  *)
(* third; a change can fall before, inside and after the page being read.  *)
EXTENDS Paging

MCInitial == {"a", "b", "c", "d"}
MCItems == MCInitial \cup {"e"}
=============================================================================
