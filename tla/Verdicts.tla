------------------------------ MODULE Verdicts ------------------------------
(***************************************************************************)
(* What a caller that asks the user to decide may rely on, whatever the    *)
(* surfaces, the clock and the event loop do: a surface that was told its  *)
(* answer counts is the only one, and the caller is given that answer,     *)
(* never a timeout; only a caller that is itself torn down hears nothing.  *)
(***************************************************************************)
CONSTANTS
    Requests,          \* the requests for a decision
    Answers            \* what a user can decide

VARIABLES
    answer,            \* the answer that was accepted, if any
    outcome            \* what the caller has of it

vars == <<answer, outcome>>

Unanswered == "unanswered"

Init ==
    /\ answer = [r \in Requests |-> Unanswered]
    /\ outcome = [r \in Requests |-> "unasked"]

Open(r) ==
    /\ outcome[r] = "unasked"
    /\ outcome' = [outcome EXCEPT ![r] = "open"]
    /\ UNCHANGED answer

\* A scheduled run has nobody to ask: its policy decides at once.
Decree(r, d) ==
    /\ outcome[r] = "unasked"
    /\ outcome' = [outcome EXCEPT ![r] = d]
    /\ UNCHANGED answer

Accept(r, d) ==
    /\ outcome[r] = "open" /\ answer[r] = Unanswered
    /\ answer' = [answer EXCEPT ![r] = d]
    /\ UNCHANGED outcome

Return(r) ==
    /\ outcome[r] = "open"
    /\ outcome' = [outcome EXCEPT ![r] = IF answer[r] = Unanswered THEN "timeout" ELSE answer[r]]
    /\ UNCHANGED answer

TearDown(r) ==
    /\ outcome[r] = "open"
    /\ outcome' = [outcome EXCEPT ![r] = "cancelled"]
    /\ UNCHANGED answer

\* The caller has its outcome, or is gone with its process; the next request
\* is a new one.
Forget(r) ==
    /\ outcome[r] # "unasked"
    /\ outcome' = [outcome EXCEPT ![r] = "unasked"]
    /\ answer' = [answer EXCEPT ![r] = Unanswered]

Next ==
    \E r \in Requests :
        \/ Open(r) \/ Return(r) \/ TearDown(r) \/ Forget(r)
        \/ \E d \in Answers : Decree(r, d) \/ Accept(r, d)

Safety == Init /\ [][Next]_vars

\* A caller is never kept waiting for ever.
Spec == Safety /\ \A r \in Requests : WF_vars(Return(r) \/ TearDown(r))
=============================================================================
