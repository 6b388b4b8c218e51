---------------------------- MODULE MCBoardStore ----------------------------
(* Small instances of BoardStore for TLC.                                  *)
EXTENDS BoardStore, TLC

\* Cards of one mode are interchangeable.
Symmetry == Permutations(BgCards) \cup Permutations(VoiceCards)
=============================================================================
