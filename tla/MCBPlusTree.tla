----------------------------- MODULE MCBPlusTree ----------------------------
(* The tree, for TLC.  After an exception nothing more happens, and that is *)
(* no deadlock; a pending call without a step of its own would be one.      *)
EXTENDS BPlusTree

Stopped == todo = <<Threw>> /\ UNCHANGED vars

MCSpec == Init /\ [][Next \/ Stopped]_vars
=============================================================================
