----------------------------- MODULE Orderings ------------------------------
(***************************************************************************)
(* Queues and recency as orders: a set of pairs <<earlier, later>>.  What  *)
(* counts in a queue is who is before whom, and an order says just that.   *)
(***************************************************************************)

\* The strict total orders of S.
Orders(S) ==
    {R \in SUBSET (S \X S) :
        /\ \A p \in S : <<p, p>> \notin R
        /\ \A p, q \in S : p # q => (<<p, q>> \in R \/ <<q, p>> \in R)
        /\ \A p, q, r \in S : <<p, q>> \in R /\ <<q, r>> \in R => <<p, r>> \in R}

\* Order R once those of S have left it.
Without(R, S) == {l \in R : l[1] \notin S /\ l[2] \notin S}
=============================================================================
