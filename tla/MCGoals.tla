------------------------------ MODULE MCGoals ------------------------------
(* Small instances of Goals for TLC.                                       *)
EXTENDS Goals, TLC
=============================================================================
