------------------------ MODULE MCBoardOrchestrator -------------------------
(* Small instances of BoardOrchestrator for TLC.                           *)
EXTENDS BoardOrchestrator, TLC

\* Cards of one mode are interchangeable (safety runs only).
Symmetry == Permutations(BgCards) \cup Permutations(VoiceCards)
=============================================================================
