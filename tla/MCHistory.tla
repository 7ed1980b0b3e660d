------------------------------ MODULE MCHistory ------------------------------
(* Small instances of History for TLC.  Results are large.                 *)
EXTENDS History

MCCost == [user |-> 1, call |-> 1, result |-> 2, text |-> 1]
=============================================================================
