--------------------------- MODULE MCAgendaService ---------------------------
(* Small instances of AgendaService for TLC.                               *)
EXTENDS AgendaService, TLC

CONSTANTS a1, a2, k1, k2, w1, w2, w3

\* Two agents that share the budget: the first has a goal to check on and a
\* follow-up in one conversation, the second a follow-up.
Apart        == k1 :> a1 @@ k2 :> a2
ApartSession == w1 :> k1 @@ w2 :> k2 @@ w3 :> k1

\* An edit and a step with calls that get no lock come together only at the end
\* of a behaviour, or in one step.
EditOrFail == edits + fails <= 1
=============================================================================
