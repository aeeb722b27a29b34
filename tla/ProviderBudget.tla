----------------------------- MODULE ProviderBudget ----------------------------
(***************************************************************************)
(* The admission of runs against a daily budget per provider               *)
(* (src/database/provider_admission.py) and how process_episode uses it:   *)
(* a reservation per provider the run is routed to, taken before the first *)
(* call, and settled from the ledger of calls when the run ends, or at its *)
(* estimate when it does not end well.  Every transaction is one action; a *)
(* process may die, or the database fail, between any two.                 *)
(***************************************************************************)
EXTENDS Naturals, FiniteSets, Functions

CONSTANTS
  Providers,
  Rank,              \* the order the provider keys are sorted in
  Runs,
  Needs,             \* the providers the phases of a run are routed to
  Limit,             \* provider_budget_daily_limit_microusd, 0 for none
  MaxReservations,   \* provider_budget_max_reservations
  UnknownCost,       \* provider_budget_unknown_cost: "deny", "allow" or "reserve"
  Fallback,          \* provider_budget_unknown_reserve_microusd
  MaxCost,           \* bound on what the calls of a run may cost at a provider
  MaxDay             \* bound on the days

ASSUME BudgetAssumption ==
  /\ Rank \in [Providers -> Nat]
  /\ \A p, q \in Providers : Rank[p] = Rank[q] => p = q
  /\ IsFiniteSet(Runs)
  /\ Needs \in [Runs -> SUBSET Providers]
  /\ Limit \in Nat
  /\ MaxReservations \in Nat \ {0}
  /\ UnknownCost \in {"deny", "allow", "reserve"}
  /\ Fallback \in Nat
  /\ MaxCost \in Nat
  /\ MaxDay \in Nat

VARIABLES
  status,    \* the reservation a run made at a provider
  day,       \* the day it was created
  aged,      \* its two hours have passed
  actual,    \* actual_microusd once reconciled
  lease,     \* processing_runs: "none", "active" (running, cancel_requested), "ended"
  thread,    \* the worker thread of the run
  held,      \* acquired, then provider_reservations: what the thread knows of
  todo,      \* those its current loop has not come to yet
  ledger,    \* priced llm_call_usage rows of the run at the provider, summed
  unpriced,  \* and whether there are any without a price
  lost,      \* history: what its calls without a response have cost
  cost,      \* history: what the run has really cost there, lost calls included
  today

rows == <<status, day, aged, actual>>
calls == <<ledger, unpriced, lost, cost>>
vars == <<status, day, aged, actual, lease, thread, held, todo, ledger, unpriced,
          lost, cost, today>>

Pairs == Runs \X Providers
Statuses == {"none", "reserved", "uncertain", "reconciled", "released"}
Threads == {"new", "reserving", "refused", "working", "reconciling", "settling",
            "over", "broken", "dead"}
Open == {"reserved", "uncertain"}

\* The pipeline asks with no estimate: the amount is that of an unknown cost.
Amount == IF UnknownCost = "reserve" THEN Fallback ELSE 0
CostRefused == UnknownCost = "deny" \/ (UnknownCost = "reserve" /\ Fallback = 0)

Init ==
  /\ status = [x \in Pairs |-> "none"]
  /\ day = [x \in Pairs |-> 0]
  /\ aged = [x \in Pairs |-> FALSE]
  /\ actual = [x \in Pairs |-> 0]
  /\ lease = [r \in Runs |-> "none"]
  /\ thread = [r \in Runs |-> "new"]
  /\ held = [r \in Runs |-> {}]
  /\ todo = [r \in Runs |-> {}]
  /\ ledger = [x \in Pairs |-> 0]
  /\ unpriced = [x \in Pairs |-> FALSE]
  /\ lost = [x \in Pairs |-> 0]
  /\ cost = [x \in Pairs |-> 0]
  /\ today = 0

-----------------------------------------------------------------------------
(* reserve_provider_spend *)

\* Mutants: expiry looks at the clock alone; what was left uncertain is not charged.
Mut_Swept == [x \in Pairs |-> IF status[x] = "reserved" /\ aged[x] THEN "uncertain" ELSE status[x]]
Mut_Charge(st, x) == CASE st[x] = "reserved" -> Amount
                       [] st[x] = "reconciled" /\ day[x] = today -> actual[x]
                       [] OTHER -> 0

\* Expired reservations of runs that are no longer active lose their slot, not their
\* charge.
Swept ==
  [x \in Pairs |-> IF status[x] = "reserved" /\ aged[x] /\ lease[x[1]] # "active"
                   THEN "uncertain" ELSE status[x]]

\* What reservation x counts towards today: its amount while open, of whatever day,
\* and what it came to if it was made today.
Charge(st, x) ==
  CASE st[x] \in Open -> Amount
    [] st[x] = "reconciled" /\ day[x] = today -> actual[x]
    [] OTHER -> 0

At(p) == Runs \X {p}
Charged(st, p) == SumFunctionOnSet([x \in Pairs |-> Charge(st, x)], At(p))
Reservations(st, p) == {x \in At(p) : st[x] = "reserved"}

Admits(st, p) ==
  /\ ~CostRefused
  /\ Cardinality(Reservations(st, p)) < MaxReservations
  /\ Limit > 0 => Charged(st, p) + Amount <= Limit

\* Mutant: whatever provider comes first is asked for.
Mut_Asks(r, p) == p \in Providers \ held[r] /\ \A q \in Providers \ held[r] : Rank[p] <= Rank[q]

\* The run asks for p next: the keys are asked for in sorted order.
Asks(r, p) == p \in Needs[r] \ held[r] /\ \A q \in Needs[r] \ held[r] : Rank[p] <= Rank[q]

\* The run has its lease, and has come to its first LLM phase.
Begin(r) ==
  /\ thread[r] = "new"
  /\ thread' = [thread EXCEPT ![r] = IF Needs[r] = {} THEN "working" ELSE "reserving"]
  /\ lease' = [lease EXCEPT ![r] = "active"]
  /\ UNCHANGED <<rows, held, todo, calls, today>>

Grant(r, p) ==
  /\ thread[r] = "reserving"
  /\ Asks(r, p)
  /\ Admits(Swept, p)
  /\ status' = [Swept EXCEPT ![<<r, p>>] = "reserved"]
  /\ day' = [day EXCEPT ![<<r, p>>] = today]
  /\ held' = [held EXCEPT ![r] = @ \cup {p}]
  /\ thread' = [thread EXCEPT ![r] = IF held[r] \cup {p} = Needs[r] THEN "working" ELSE @]
  /\ UNCHANGED <<aged, actual, lease, todo, calls, today>>

\* Mutant: a refused run keeps what it had.
Mut_Refuse(r, p) ==
  /\ thread[r] = "reserving"
  /\ Asks(r, p)
  /\ ~Admits(Swept, p)
  /\ status' = IF CostRefused THEN status ELSE Swept
  /\ thread' = [thread EXCEPT ![r] = "over"]
  /\ UNCHANGED <<day, aged, actual, lease, held, todo, calls, today>>

\* Refused, before the transaction or in it, where the sweep is committed all the same;
\* what the run already had is to be released.
Refuse(r, p) ==
  /\ thread[r] = "reserving"
  /\ Asks(r, p)
  /\ ~Admits(Swept, p)
  /\ status' = IF CostRefused THEN status ELSE Swept
  /\ todo' = [todo EXCEPT ![r] = held[r]]
  /\ thread' = [thread EXCEPT ![r] = IF held[r] = {} THEN "over" ELSE "refused"]
  /\ UNCHANGED <<day, aged, actual, lease, held, calls, today>>

\* release_provider_spend, for one of them.
GiveBack(r, p) ==
  /\ thread[r] = "refused"
  /\ p \in todo[r]
  /\ status' = [status EXCEPT ![<<r, p>>] = IF @ = "reserved" THEN "released" ELSE @]
  /\ todo' = [todo EXCEPT ![r] = @ \ {p}]
  /\ thread' = [thread EXCEPT ![r] = IF todo[r] \ {p} = {} THEN "over" ELSE @]
  /\ UNCHANGED <<day, aged, actual, lease, held, calls, today>>

-----------------------------------------------------------------------------
(* The run *)

\* A call, and its row in the ledger: with a price; or with usage, or a success, but no
\* price; or without any usage (timed out, its response lost, cancelled, not finalized
\* yet), which is not billable and looked for neither by get_run_provider_spend nor by
\* run_provider_spend_is_incomplete.
Call(r, p) ==
  /\ thread[r] = "working"
  /\ p \in Needs[r]
  /\ cost[<<r, p>>] < MaxCost
  /\ cost' = [cost EXCEPT ![<<r, p>>] = @ + 1]
  /\ \/ ledger' = [ledger EXCEPT ![<<r, p>>] = @ + 1] /\ UNCHANGED <<unpriced, lost>>
     \/ unpriced' = [unpriced EXCEPT ![<<r, p>>] = TRUE] /\ UNCHANGED <<ledger, lost>>
     \/ lost' = [lost EXCEPT ![<<r, p>>] = @ + 1] /\ UNCHANGED <<ledger, unpriced>>
  /\ UNCHANGED <<rows, lease, thread, held, todo, today>>

\* The run has published, and reconciles; or has failed or been cancelled, also while
\* it reconciles, and settles all of its reservations, attempted as they are.
Finish(r) ==
  /\ thread[r] = "working"
  /\ todo' = [todo EXCEPT ![r] = held[r]]
  /\ thread' = [thread EXCEPT ![r] = IF held[r] = {} THEN "over" ELSE "reconciling"]
  /\ UNCHANGED <<rows, lease, held, calls, today>>

Fail(r) ==
  /\ thread[r] \in {"working", "reconciling"}
  /\ todo' = [todo EXCEPT ![r] = held[r]]
  /\ thread' = [thread EXCEPT ![r] = IF held[r] = {} THEN "over" ELSE "settling"]
  /\ UNCHANGED <<rows, lease, held, calls, today>>

\* Mutant: the priced calls are taken for all of them.
Mut_Verdict(x) == "reconciled"

\* _reconcile_provider_actuals: a run with an unpriced call is settled at the estimate;
\* one with a lost call at what the others came to.
Verdict(x) == IF unpriced[x] THEN "uncertain" ELSE "reconciled"

\* reconcile_provider_spend touches open reservations only.
Settled(r, p, verdict) ==
  /\ p \in todo[r]
  /\ IF status[<<r, p>>] \in Open
     THEN /\ status' = [status EXCEPT ![<<r, p>>] = verdict]
          /\ actual' = [actual EXCEPT ![<<r, p>>] =
                          IF verdict = "reconciled" THEN ledger[<<r, p>>] ELSE 0]
     ELSE UNCHANGED <<status, actual>>
  /\ todo' = [todo EXCEPT ![r] = @ \ {p}]
  /\ thread' = [thread EXCEPT ![r] = IF todo[r] \ {p} = {} THEN "over" ELSE @]
  /\ UNCHANGED <<day, aged, lease, held, calls, today>>

Reconcile(r, p) == thread[r] = "reconciling" /\ Settled(r, p, Verdict(<<r, p>>))

Settle(r, p) == thread[r] = "settling" /\ Settled(r, p, "uncertain")

\* The database refuses one of these writes.  While it reconciles, that is one more
\* failure to settle; anywhere else nobody looks at the reservations again.
Breaks(r) ==
  /\ thread[r] \in {"reserving", "refused", "settling"}
  /\ thread' = [thread EXCEPT ![r] = "broken"]
  /\ UNCHANGED <<rows, lease, held, todo, calls, today>>

\* The wrapper's finally block releases the lease.
End(r) ==
  /\ thread[r] \in {"over", "broken"}
  /\ lease[r] = "active"
  /\ lease' = [lease EXCEPT ![r] = "ended"]
  /\ UNCHANGED <<rows, thread, held, todo, calls, today>>

\* The process dies; some time later the lease of the dead owner is recovered.
Dies(r) ==
  /\ thread[r] \notin {"new", "over", "broken", "dead"}
  /\ thread' = [thread EXCEPT ![r] = "dead"]
  /\ UNCHANGED <<rows, lease, held, todo, calls, today>>

Recover(r) ==
  /\ thread[r] = "dead"
  /\ lease[r] = "active"
  /\ lease' = [lease EXCEPT ![r] = "ended"]
  /\ UNCHANGED <<rows, thread, held, todo, calls, today>>

-----------------------------------------------------------------------------
(* Time, and the status page *)

Age(x) ==
  /\ status[x] = "reserved"
  /\ ~aged[x]
  /\ aged' = [aged EXCEPT ![x] = TRUE]
  /\ UNCHANGED <<status, day, actual, lease, thread, held, todo, calls, today>>

NextDay ==
  /\ today < MaxDay
  /\ today' = today + 1
  /\ UNCHANGED <<rows, lease, thread, held, todo, calls>>

\* provider_budget_status sweeps like an admission.
StatusRead ==
  /\ Swept # status
  /\ status' = Swept
  /\ UNCHANGED <<day, aged, actual, lease, thread, held, todo, calls, today>>

RunStep(r) ==
  \/ Begin(r) \/ Finish(r) \/ Fail(r)
  \/ Breaks(r) \/ End(r) \/ Dies(r) \/ Recover(r)

SpendStep(r, p) ==
  \/ Grant(r, p) \/ Refuse(r, p) \/ GiveBack(r, p)
  \/ Call(r, p) \/ Reconcile(r, p) \/ Settle(r, p)

Next ==
  \/ \E r \in Runs : RunStep(r) \/ \E p \in Providers : SpendStep(r, p)
  \/ \E x \in Pairs : Age(x)
  \/ NextDay
  \/ StatusRead

Spec == Init /\ [][Next]_vars

-----------------------------------------------------------------------------
(* Properties *)

BudgetTypeOK ==
  /\ held \in [Runs -> SUBSET Providers] /\ todo \in [Runs -> SUBSET Providers]
  /\ status \in [Pairs -> Statuses]
  /\ day \in [Pairs -> 0..MaxDay]
  /\ aged \in [Pairs -> BOOLEAN]
  /\ actual \in [Pairs -> 0..MaxCost]
  /\ lease \in [Runs -> {"none", "active", "ended"}]
  /\ thread \in [Runs -> Threads]
  /\ \A r \in Runs : todo[r] \subseteq held[r] /\ held[r] \subseteq Needs[r]
  /\ ledger \in [Pairs -> 0..MaxCost]
  /\ unpriced \in [Pairs -> BOOLEAN]
  /\ lost \in [Pairs -> 0..MaxCost]
  /\ cost \in [Pairs -> 0..MaxCost]
  /\ today \in 0..MaxDay

\* No more runs are at work on a provider than it has slots, however long they take:
\* an expired reservation keeps its slot while its run is active
\* (docs/security-and-storage.md, "an expired lease still holds its concurrency slot
\* while that run has a live owner").
SlotsHold ==
  \A p \in Providers :
    Cardinality({r \in Runs : thread[r] = "working" /\ p \in held[r]}) <= MaxReservations

\* What a run has cost stays charged: its reservation is open, at the estimate, or it
\* came to exactly what its calls cost but for those without a response, which its
\* reconciliation forgets (LostCallsStayCharged).  No failure, crash, unpriced call or
\* expiry turns it into less, and while it is open the lost calls are covered too.
CostsStayCharged ==
  \A x \in Pairs :
    cost[x] > 0 =>
      status[x] \in Open \/ (status[x] = "reconciled" /\ actual[x] = cost[x] - lost[x])

\* "A timed-out or lost response stays charged as uncertain until a later result
\* reconciles it" (docs/security-and-storage.md:130): a run with such a call is left at
\* its estimate, or comes to no less than it cost.
LostCallsStayCharged ==
  \A x \in Pairs :
    lost[x] > 0 => status[x] \in Open \/ (status[x] = "reconciled" /\ actual[x] >= cost[x])

\* The runs admitted on one day cost a provider no more than the limit, but for what
\* single runs cost over the amount they were admitted with, and for the calls without a
\* response of a run that was reconciled: admissions do not overcommit a day across
\* crashes, expiries and midnight (docs/security-and-storage.md, "an admission limit,
\* not a guaranteed provider spending cap, because a final charge can exceed its
\* estimate").
Counted(x) == IF status[x] = "reconciled" THEN cost[x] - lost[x] ELSE cost[x]

Spent(d, x) ==
  IF status[x] = "none" \/ day[x] # d THEN 0
  ELSE IF Counted(x) < Amount THEN Counted(x) ELSE Amount

WithinDailyLimit ==
  Limit > 0 =>
    \A p \in Providers, d \in 0..MaxDay :
      SumFunctionOnSet([x \in Pairs |-> Spent(d, x)], At(p)) <= Limit

\* A run that ended by itself leaves no slot taken; only a death or a failing database
\* does, and then until the two hours are over.
NothingLeaks ==
  \A r \in Runs : thread[r] = "over" => \A p \in Providers : status[<<r, p>>] # "reserved"

=============================================================================
