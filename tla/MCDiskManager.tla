--------------------------- MODULE MCDiskManager ----------------------------
(* Callers write one page, whose first word happens to be a page id. *)
EXTENDS DiskManager

MCData == {[first |-> 2, rest |-> "data", header |-> NoHeader]}
=============================================================================
