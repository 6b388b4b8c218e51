--------------------------- MODULE MCCronService ---------------------------
(* Small instances of CronService for TLC.                                 *)
EXTENDS CronService, TLC

\* Jobs are interchangeable.
Symmetry == Permutations(Jobs)
=============================================================================
