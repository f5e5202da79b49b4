----------------------------- MODULE MCJournal ------------------------------
(* Journal for TLC: two keys, one of which two callers use for two           *)
(* different operations.                                                     *)
EXTENDS Journal

MCOperations ==
    {[key |-> "k1", intent |-> "a"], [key |-> "k1", intent |-> "b"],
     [key |-> "k2", intent |-> "a"]}
=============================================================================
