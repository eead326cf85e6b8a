----------------------------- MODULE DnsService -----------------------------
(***************************************************************************)
(* What the DNS proxy promises the clients that query it: a query it takes  *)
(* is settled once, by a response or by being given up, a settled query     *)
(* stays settled, and no query waits for ever.                              *)
(***************************************************************************)
CONSTANT Reqs

VARIABLE phase    \* Reqs -> "idle" | "pending" | "answered" | "dropped"

Phases == {"idle", "pending", "answered", "dropped"}

Init == phase = [r \in Reqs |-> "idle"]

\* A query arrives and is answered at once, from the cache or with an error, or
\* waits for the name servers; one without a header is dropped.
Ask(r) ==
    /\ phase[r] = "idle"
    /\ \E p \in {"pending", "answered", "dropped"} : phase' = [phase EXCEPT ![r] = p]

\* One event may settle several waiting queries, each in its own way.
Settle(R) ==
    /\ R # {} /\ \A r \in R : phase[r] = "pending"
    /\ \E out \in [R -> {"answered", "dropped"}] :
           phase' = [r \in Reqs |-> IF r \in R THEN out[r] ELSE phase[r]]

Next == (\E r \in Reqs : Ask(r)) \/ (\E R \in SUBSET Reqs : Settle(R))

\* Every waiting query is settled.
Live == \A r \in Reqs : phase[r] = "pending" ~> phase[r] # "pending"

\* What it does at all, and that it does not leave anybody waiting.
Safe == Init /\ [][Next]_phase
Spec == Safe /\ Live
=============================================================================
