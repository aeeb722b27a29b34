--------------------------- MODULE MC_ProviderBudget ---------------------------
(***************************************************************************)
(* The budget on a small instance: three runs that need the second of two  *)
(* providers, one of them the first as well; one slot at each, a limit of  *)
(* two reservations, calls that may cost twice the estimate, a midnight.   *)
(* The first provider is only reserved, so that a refusal at the second    *)
(* finds something to give back.                                           *)
(***************************************************************************)
EXTENDS ProviderBudget, TLC

CONSTANTS a, b, r1, r2, r3

MCProviders == {a, b}
MCRank == (a :> 1) @@ (b :> 2)
MCRuns == {r1, r2, r3}
MCNeeds == [r \in MCRuns |-> IF r = r1 THEN MCProviders ELSE {b}]

\* States that differ only in what nothing asks for any more are one: the age of a
\* reservation that is no longer open, the lease of a run without one, what the thread of
\* an ended run knew, and of the calls: once reconciled, whether there were any and what
\* is counted of them, otherwise once ended only whether there were any (the estimate
\* is one), and the cost alone from the first without a price.
Aging == {x \in Pairs : status[x] = "reserved" /\ aged[x]}
Owning == {r \in Runs : lease[r] = "active" /\ \E p \in Providers : status[<<r, p>>] = "reserved"}
Ended(r) == thread[r] \in {"over", "broken", "dead"}
Known == [r \in Runs |-> IF Ended(r) THEN <<>> ELSE <<held[r], todo[r]>>]
Called == [x \in Pairs |-> CASE status[x] = "reconciled" -> <<cost[x] > 0, Counted(x)>>
                             [] status[x] # "reconciled" /\ Ended(x[1]) -> <<cost[x] > 0>>
                             [] status[x] # "reconciled" /\ ~Ended(x[1]) /\ unpriced[x] -> <<cost[x]>>
                             [] OTHER -> <<ledger[x], lost[x], cost[x]>>]
MCView == <<status, day, Aging, actual, Owning, thread, Known, Called, today>>
MCSymmetry == Permutations({r2, r3})

MCCalls == \A r \in MCRuns : cost[<<r, a>>] = 0

=============================================================================
