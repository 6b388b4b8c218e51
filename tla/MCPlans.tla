------------------------------ MODULE MCPlans ------------------------------
(* Small instances of Plans for TLC.                                       *)
EXTENDS Plans, TLC
=============================================================================
