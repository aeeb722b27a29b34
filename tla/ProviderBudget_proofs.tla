------------------------ MODULE ProviderBudget_proofs ------------------------
(***************************************************************************)
(* Proofs about ProviderBudget, for every set of providers and finite set  *)
(* of runs, every limit and policy.  BudgetInv is the inductive invariant: *)
(* the types, the ledger, what each thread knows (ThreadInv), and what the *)
(* reservation of each run at each provider is (PairInv).  The proof that  *)
(* it is kept goes by what a step may do to one reservation (StatusStep),  *)
(* to one cost (CostStep) and to one thread (ThreadStep).  The number of   *)
(* slots taken is proved on top of it, and so is the daily limit: what the *)
(* admissions of a day still count for (Granted) is kept within the limit, *)
(* and what their runs have spent is no more than that.                    *)
(***************************************************************************)
EXTENDS ProviderBudget, SumTheorems, TLAPS

\* The threads that hold the lease of their run.
AtWork == {"reserving", "refused", "working", "reconciling", "settling"}

\* The ledger tells what the calls with a response have cost, unless one of them has no
\* price.
LedgerCounts ==
  \A x \in Pairs :
    /\ ledger[x] + lost[x] <= cost[x]
    /\ ~unpriced[x] => ledger[x] + lost[x] = cost[x]

\* What the thread of a run knows.
ThreadInv(r) ==
  /\ thread[r] \in AtWork => lease[r] = "active"
  /\ thread[r] = "new" => held[r] = {}
  /\ thread[r] = "working" => held[r] = Needs[r]

\* What the reservation of a run at a provider is, told by where its thread is.
PairInv(r, p) ==
  LET x == <<r, p>> IN
  /\ status[x] # "none" => p \in held[r]
  /\ p \in held[r] /\ thread[r] \in {"reserving", "working"} => status[x] = "reserved"
  /\ p \notin todo[r] /\ thread[r] \in {"refused", "reconciling", "settling"}
       => status[x] # "reserved"
  /\ thread[r] = "over" => status[x] # "reserved"
  /\ thread[r] \in {"new", "reserving", "refused"} => cost[x] = 0
  /\ cost[x] > 0 =>
       status[x] \in Open \/ (status[x] = "reconciled" /\ actual[x] + lost[x] = cost[x])

\* The inductive invariant.
BudgetInv ==
  /\ BudgetTypeOK
  /\ LedgerCounts
  /\ \A r \in Runs : ThreadInv(r) /\ \A p \in Providers : PairInv(r, p)

\* Expiring what is overdue leaves statuses statuses.
LEMMA SweptType ==
  ASSUME BudgetTypeOK
  PROVE  Swept \in [Pairs -> Statuses]
BY DEF BudgetTypeOK, Swept, Statuses, Pairs

\* The invariant holds before any run.
LEMMA BudgetInit == Init => BudgetInv
BY BudgetAssumption DEF Init, BudgetInv, BudgetTypeOK, LedgerCounts, ThreadInv, PairInv, AtWork,
   BudgetAssumption, Pairs, Statuses, Threads

\* Every step keeps the types.
LEMMA TypeStep ==
  ASSUME BudgetInv, [Next]_vars
  PROVE  BudgetTypeOK'
<1> USE DEF BudgetTypeOK, BudgetAssumption, Statuses, Threads, calls, rows
<1>0. BudgetTypeOK /\ LedgerCounts /\ Swept \in [Pairs -> Statuses]
  BY SweptType DEF BudgetInv
<1>1. ASSUME NEW r \in Runs, RunStep(r) PROVE BudgetTypeOK'
  BY <1>0, <1>1, BudgetAssumption DEF RunStep, Begin, Finish, Fail, Breaks, End, Dies, Recover
<1>2. ASSUME NEW r \in Runs, NEW p \in Providers, SpendStep(r, p) PROVE BudgetTypeOK'
  <2>0. <<r, p>> \in Pairs BY DEF Pairs
  <2>1. CASE Grant(r, p)
    BY <1>0, <2>0, <2>1, BudgetAssumption DEF Grant, Asks
  <2>2. CASE Refuse(r, p)
    BY <1>0, <2>2, BudgetAssumption DEF Refuse, Asks
  <2>3. CASE GiveBack(r, p)
    BY <1>0, <2>0, <2>3, BudgetAssumption DEF GiveBack
  <2>4. CASE Call(r, p)
    <3>1. /\ cost[<<r, p>>] + 1 \in 0..MaxCost
          /\ ledger[<<r, p>>] + 1 \in 0..MaxCost
          /\ lost[<<r, p>>] + 1 \in 0..MaxCost
      BY <1>0, <2>0, <2>4, BudgetAssumption DEF Call, LedgerCounts
    <3>2. /\ cost' \in [Pairs -> 0..MaxCost]
          /\ ledger' \in [Pairs -> 0..MaxCost]
          /\ lost' \in [Pairs -> 0..MaxCost]
          /\ unpriced' \in [Pairs -> BOOLEAN]
      BY <1>0, <2>0, <2>4, <3>1 DEF Call
    <3> QED BY <1>0, <2>4, <3>2 DEF Call
  <2>5. ASSUME NEW v \in {"uncertain", "reconciled"}, Settled(r, p, v) PROVE BudgetTypeOK'
    <3>1. status' \in [Pairs -> Statuses] /\ actual' \in [Pairs -> 0..MaxCost]
      <4>1. CASE status[<<r, p>>] \in Open
        <5>1. ledger[<<r, p>>] \in 0..MaxCost /\ 0 \in 0..MaxCost
          BY <1>0, <2>0, BudgetAssumption
        <5> QED BY <1>0, <2>0, <2>5, <4>1, <5>1 DEF Settled
      <4> QED BY <1>0, <2>5, <4>1 DEF Settled
    <3>2. thread' \in [Runs -> Threads] /\ todo' \in [Runs -> SUBSET Providers]
      BY <1>0, <2>5 DEF Settled
    <3>3. \A q \in Runs : todo'[q] \subseteq todo[q]
      BY <1>0, <2>5 DEF Settled
    <3> QED BY <1>0, <2>5, <3>1, <3>2, <3>3 DEF Settled
  <2>6. CASE Reconcile(r, p) \/ Settle(r, p)
    BY <2>5, <2>6 DEF Reconcile, Settle, Verdict
  <2> QED BY <1>2, <2>1, <2>2, <2>3, <2>4, <2>6 DEF SpendStep
<1>3. ASSUME NEW x \in Pairs, Age(x) PROVE BudgetTypeOK'
  BY <1>0, <1>3 DEF Age
<1>4. CASE NextDay
  BY <1>0, <1>4, BudgetAssumption DEF NextDay
<1>5. CASE StatusRead
  BY <1>0, <1>5 DEF StatusRead
<1>6. CASE UNCHANGED vars
  BY <1>0, <1>6 DEF vars
<1> QED BY <1>1, <1>2, <1>3, <1>4, <1>5, <1>6 DEF Next

\* What a step does to the reservation of a run at a provider, told by the place its
\* thread leaves.
StatusMoves(r, p) ==
  LET x == <<r, p>> IN
  \/ status'[x] = status[x]
  \/ status[x] = "reserved" /\ status'[x] = "uncertain" /\ lease[r] # "active"
  \/ thread[r] = "reserving" /\ p \notin held[r] /\ status'[x] = "reserved"
       /\ held'[r] = held[r] \cup {p} /\ thread'[r] \in {"reserving", "working"}
  \/ thread[r] = "refused" /\ status[x] = "reserved" /\ status'[x] = "released"
  \/ /\ thread[r] \in {"reconciling", "settling"}
     /\ p \in held[r] /\ status[x] \in Open
     /\ \/ status'[x] = "uncertain"
        \/ status'[x] = "reconciled" /\ actual'[x] = ledger[x] /\ ~unpriced[x]

\* Every step does to a reservation one of these, and writes actual_microusd only
\* where it reconciles.
LEMMA StatusStep ==
  ASSUME BudgetInv, [Next]_vars, NEW r \in Runs, NEW p \in Providers
  PROVE  /\ StatusMoves(r, p)
         /\ actual'[<<r, p>>] # actual[<<r, p>>] =>
              status[<<r, p>>] = "uncertain" \/ status'[<<r, p>>] # status[<<r, p>>]
<1> DEFINE x == <<r, p>>
<1> DEFINE P == /\ StatusMoves(r, p)
                /\ actual'[x] # actual[x] => status[x] = "uncertain" \/ status'[x] # status[x]
<1>0. BudgetTypeOK /\ x \in Pairs /\ ThreadInv(r) /\ PairInv(r, p)
  BY DEF BudgetInv, Pairs
<1>1. status' = Swept => 
        \/ status'[x] = status[x]
        \/ status[x] = "reserved" /\ status'[x] = "uncertain" /\ lease[r] # "active"
  BY <1>0 DEF Swept
<1>2. ASSUME NEW q \in Runs, RunStep(q) PROVE P
  BY <1>2 DEF RunStep, Begin, Finish, Fail, Breaks, End, Dies, Recover, rows, StatusMoves
<1>3. ASSUME NEW q \in Runs, NEW k \in Providers, SpendStep(q, k) PROVE P
  <2>0. <<q, k>> \in Pairs /\ (q = r /\ k = p <=> <<q, k>> = x) BY DEF Pairs
  <2>1. CASE Grant(q, k)
    <3>1. CASE q = r /\ k = p
      BY <1>0, <2>0, <2>1, <3>1, SweptType DEF Grant, Asks, StatusMoves, BudgetTypeOK
    <3>2. CASE ~(q = r /\ k = p)
      <4>1. status'[x] = Swept[x]
        BY <1>0, <2>0, <2>1, <3>2, SweptType DEF Grant
      <4> QED BY <1>0, <2>1, <4>1 DEF Grant, Swept, StatusMoves
    <3> QED BY <3>1, <3>2
  <2>2. CASE Refuse(q, k)
    <3>1. status' = status \/ status' = Swept
      BY <2>2 DEF Refuse
    <3> QED BY <1>1, <2>2, <3>1 DEF Refuse, StatusMoves
  <2>3. CASE GiveBack(q, k)
    BY <1>0, <2>0, <2>3 DEF GiveBack, StatusMoves, BudgetTypeOK
  <2>4. CASE Call(q, k)
    BY <2>4 DEF Call, rows, StatusMoves
  <2>5. CASE Reconcile(q, k) \/ Settle(q, k)
    <3>1. PICK v \in {"uncertain", "reconciled"} :
            /\ v \in {"uncertain", "reconciled"}
            /\ Settled(q, k, v) /\ thread[q] \in {"reconciling", "settling"}
            /\ v = "reconciled" => ~unpriced[<<q, k>>]
      BY <2>5 DEF Reconcile, Settle, Verdict
    <3>2. CASE q = r /\ k = p /\ status[x] \in Open
      <4>1. status'[x] = v /\ (v = "reconciled" => actual'[x] = ledger[x])
        BY <1>0, <3>1, <3>2 DEF Settled, BudgetTypeOK
      <4>2. status'[x] # status[x] \/ (v = "uncertain" /\ status[x] = "uncertain")
        BY <3>1, <3>2, <4>1 DEF Open
      <4>3. p \in held[r]
        BY <1>0, <3>1, <3>2 DEF Settled, BudgetTypeOK
      <4> QED BY <3>1, <3>2, <4>1, <4>2, <4>3 DEF StatusMoves
    <3>3. CASE ~(q = r /\ k = p /\ status[x] \in Open)
      <4>1. status'[x] = status[x] /\ actual'[x] = actual[x]
        BY <1>0, <2>0, <3>1, <3>3 DEF Settled, BudgetTypeOK
      <4> QED BY <4>1 DEF StatusMoves
    <3> QED BY <3>2, <3>3
  <2> QED BY <1>3, <2>1, <2>2, <2>3, <2>4, <2>5 DEF SpendStep
<1>4. ASSUME NEW y \in Pairs, Age(y) PROVE P
  BY <1>4 DEF Age, StatusMoves
<1>5. CASE NextDay \/ StatusRead \/ UNCHANGED vars
  BY <1>1, <1>5 DEF NextDay, StatusRead, rows, vars, StatusMoves
<1>6. P
  BY <1>2, <1>3, <1>4, <1>5 DEF Next
<1> QED BY <1>6

\* A call adds to the ledger what it adds to the cost, or leaves a row without a price, or
\* is lost.
LEMMA LedgerStep ==
  ASSUME BudgetInv, [Next]_vars
  PROVE  LedgerCounts'
<1>0. BudgetTypeOK /\ LedgerCounts
  BY DEF BudgetInv
<1>1. ASSUME NEW r \in Runs, NEW p \in Providers, Call(r, p) PROVE LedgerCounts'
  <2>1. SUFFICES ASSUME NEW x \in Pairs
                 PROVE  /\ ledger'[x] + lost'[x] <= cost'[x]
                        /\ ~unpriced'[x] => ledger'[x] + lost'[x] = cost'[x]
    BY DEF LedgerCounts
  <2>2. ledger[x] \in Nat /\ lost[x] \in Nat /\ cost[x] \in Nat
    BY <1>0, BudgetAssumption DEF BudgetTypeOK, BudgetAssumption
  <2>3. CASE x = <<r, p>>
    BY <1>0, <1>1, <2>2, <2>3 DEF Call, LedgerCounts, BudgetTypeOK
  <2>4. CASE x # <<r, p>>
    BY <1>0, <1>1, <2>4 DEF Call, LedgerCounts, BudgetTypeOK
  <2> QED BY <2>3, <2>4
<1>2. CASE UNCHANGED calls
  BY <1>0, <1>2 DEF calls, LedgerCounts
<1>3. ASSUME NEW r \in Runs, RunStep(r) PROVE UNCHANGED calls
  BY <1>3 DEF RunStep, Begin, Finish, Fail, Breaks, End, Dies, Recover
<1>4. ASSUME NEW r \in Runs, NEW p \in Providers, SpendStep(r, p)
      PROVE  UNCHANGED calls \/ Call(r, p)
  BY <1>4 DEF SpendStep, Grant, Refuse, GiveBack, Reconcile, Settle, Settled
<1>5. ASSUME (\E x \in Pairs : Age(x)) \/ NextDay \/ StatusRead \/ UNCHANGED vars
      PROVE  UNCHANGED calls
  BY <1>5 DEF Age, NextDay, StatusRead, vars, calls
<1> QED BY <1>1, <1>2, <1>3, <1>4, <1>5 DEF Next

\* A run's thread, what it knows and its lease are moved by its own steps only.
LEMMA ThreadStep ==
  ASSUME BudgetInv, [Next]_vars, NEW r \in Runs
  PROVE  \/ /\ thread'[r] = thread[r] /\ held'[r] = held[r]
            /\ todo'[r] = todo[r] /\ lease'[r] = lease[r]
         \/ RunStep(r)
         \/ \E p \in Providers : SpendStep(r, p)
<1>0. BudgetTypeOK
  BY DEF BudgetInv
<1>1. ASSUME NEW q \in Runs, q # r, RunStep(q)
      PROVE  /\ thread'[r] = thread[r] /\ held'[r] = held[r]
             /\ lease'[r] = lease[r] /\ todo'[r] = todo[r]
  BY <1>0, <1>1 DEF RunStep, Begin, Finish, Fail, Breaks, End, Dies, Recover, BudgetTypeOK
<1>2. ASSUME NEW q \in Runs, NEW p \in Providers, q # r, SpendStep(q, p)
      PROVE  /\ thread'[r] = thread[r] /\ held'[r] = held[r]
             /\ lease'[r] = lease[r] /\ todo'[r] = todo[r]
  BY <1>0, <1>2 DEF SpendStep, Grant, Refuse, GiveBack, Call, Reconcile, Settle, Settled,
     BudgetTypeOK
<1>3. CASE (\E x \in Pairs : Age(x)) \/ NextDay \/ StatusRead \/ UNCHANGED vars
  BY <1>3 DEF Age, NextDay, StatusRead, vars
<1> QED BY <1>1, <1>2, <1>3 DEF Next

\* What a run costs grows only at work.
LEMMA CostStep ==
  ASSUME BudgetInv, [Next]_vars, NEW r \in Runs, NEW p \in Providers
  PROVE  \/ cost'[<<r, p>>] = cost[<<r, p>>] /\ lost'[<<r, p>>] = lost[<<r, p>>]
         \/ /\ thread[r] = "working" /\ thread'[r] = "working" /\ p \in Needs[r]
            /\ status' = status
<1>0. BudgetTypeOK /\ <<r, p>> \in Pairs
  BY DEF BudgetInv, Pairs
<1>1. ASSUME NEW q \in Runs, RunStep(q) PROVE cost' = cost /\ lost' = lost
  BY <1>1 DEF RunStep, Begin, Finish, Fail, Breaks, End, Dies, Recover, calls
<1>2. ASSUME NEW q \in Runs, NEW k \in Providers, SpendStep(q, k)
      PROVE  (cost' = cost /\ lost' = lost) \/ Call(q, k)
  BY <1>2 DEF SpendStep, Grant, Refuse, GiveBack, Reconcile, Settle, Settled, calls
<1>3. ASSUME NEW q \in Runs, NEW k \in Providers, Call(q, k), <<q, k>> # <<r, p>>
      PROVE  cost'[<<r, p>>] = cost[<<r, p>>] /\ lost'[<<r, p>>] = lost[<<r, p>>]
  BY <1>0, <1>3 DEF Call, BudgetTypeOK
<1>4. ASSUME Call(r, p)
      PROVE  thread[r] = "working" /\ thread'[r] = "working" /\ p \in Needs[r] /\ status' = status
  BY <1>4 DEF Call, rows
<1>5. ASSUME (\E x \in Pairs : Age(x)) \/ NextDay \/ StatusRead \/ UNCHANGED vars
      PROVE  cost' = cost /\ lost' = lost
  BY <1>5 DEF Age, NextDay, StatusRead, vars, calls
<1> QED BY <1>1, <1>2, <1>3, <1>4, <1>5 DEF Next

\* ThreadInv is kept by every step.
LEMMA ThreadInvStep ==
  ASSUME BudgetInv, [Next]_vars, NEW r \in Runs
  PROVE  ThreadInv(r)'
<1>0. BudgetTypeOK /\ ThreadInv(r)
  BY DEF BudgetInv
<1>1. CASE /\ thread'[r] = thread[r] /\ held'[r] = held[r]
           /\ todo'[r] = todo[r] /\ lease'[r] = lease[r]
  BY <1>0, <1>1 DEF ThreadInv
<1>2. CASE RunStep(r)
  BY <1>0, <1>2 DEF RunStep, Begin, Finish, Fail, Breaks, End, Dies, Recover, ThreadInv, AtWork,
     BudgetTypeOK
<1>3. ASSUME NEW p \in Providers, SpendStep(r, p) PROVE ThreadInv(r)'
  BY <1>0, <1>3 DEF SpendStep, Grant, Refuse, GiveBack, Call, Reconcile, Settle, Settled,
     ThreadInv, AtWork, BudgetTypeOK
<1> QED BY <1>1, <1>2, <1>3, ThreadStep

\* PairInv is kept by every step.
LEMMA PairInvStep ==
  ASSUME BudgetInv, [Next]_vars, NEW r \in Runs, NEW p \in Providers
  PROVE  PairInv(r, p)'
<1> DEFINE x == <<r, p>>
<1>0. /\ BudgetTypeOK /\ BudgetTypeOK' /\ ThreadInv(r) /\ PairInv(r, p) /\ x \in Pairs
      /\ ~unpriced[x] => ledger[x] + lost[x] = cost[x]
  BY TypeStep DEF BudgetInv, LedgerCounts, Pairs
<1>1. /\ StatusMoves(r, p)
      /\ actual'[x] # actual[x] => status[x] = "uncertain" \/ status'[x] # status[x]
  BY StatusStep
<1>2. \/ cost'[x] = cost[x] /\ lost'[x] = lost[x]
      \/ thread[r] = "working" /\ thread'[r] = "working" /\ p \in Needs[r] /\ status' = status
  BY CostStep
<1>3. CASE /\ thread'[r] = thread[r] /\ held'[r] = held[r]
           /\ todo'[r] = todo[r] /\ lease'[r] = lease[r]
  BY <1>0, <1>1, <1>2, <1>3 DEF StatusMoves, PairInv, ThreadInv, AtWork, Open
<1>4. CASE RunStep(r)
  BY <1>0, <1>1, <1>2, <1>4 DEF RunStep, Begin, Finish, Fail, Breaks, End, Dies, Recover, rows,
     calls, PairInv, ThreadInv, AtWork, Open, BudgetTypeOK
<1>5. ASSUME NEW k \in Providers, SpendStep(r, k) PROVE PairInv(r, p)'
  <2>1. CASE Grant(r, k)
    BY <1>0, <1>1, <2>1 DEF Grant, Asks, calls, StatusMoves, PairInv, ThreadInv, AtWork, Open,
       BudgetTypeOK
  <2>2. CASE Refuse(r, k)
    BY <1>0, <1>1, <2>2 DEF Refuse, calls, StatusMoves, PairInv, ThreadInv, AtWork, Open,
       BudgetTypeOK
  <2>3. CASE GiveBack(r, k)
    BY <1>0, <1>1, <2>3 DEF GiveBack, calls, StatusMoves, PairInv, ThreadInv, AtWork, Open,
       BudgetTypeOK
  <2>4. CASE Call(r, k)
    BY <1>0, <1>2, <1>3, <2>4 DEF Call
  <2>5. CASE Reconcile(r, k) \/ Settle(r, k)
    <3> DEFINE Told == cost[x] > 0 => \/ status[x] \in Open
                                      \/ status[x] = "reconciled" /\ actual[x] + lost[x] = cost[x]
    <3>1. cost'[x] = cost[x] /\ lost'[x] = lost[x] /\ thread[r] \in {"reconciling", "settling"}
      BY <2>5 DEF Reconcile, Settle, Settled, calls
    <3>2. lease[r] = "active" /\ Told
      BY <1>0, <3>1 DEF ThreadInv, PairInv, AtWork
    <3>3. Told'
      BY <1>0, <1>1, <3>1, <3>2 DEF StatusMoves, Open
    <3>4. thread'[r] \in {thread[r], "over"} /\ held' = held
          /\ (thread'[r] # thread[r] => todo[r] \ {k} = {})
      BY <1>0, <2>5 DEF Reconcile, Settle, Settled, BudgetTypeOK
    <3>5. p = k => status'[x] # "reserved"
      BY <1>0, <2>5 DEF Reconcile, Settle, Settled, Verdict, Open, BudgetTypeOK
    <3>6. todo'[r] = todo[r] \ {k}
      BY <1>0, <2>5 DEF Reconcile, Settle, Settled, BudgetTypeOK
    <3>7. status'[x] = "reserved" => status[x] = "reserved"
      BY <1>1, <3>1 DEF StatusMoves, Open
    <3>8. status[x] = "none" => status'[x] = "none"
      BY <1>1, <3>1 DEF StatusMoves, Open
    <3> HIDE DEF Told
    <3>9. /\ status'[x] # "none" => p \in held'[r]
          /\ p \notin todo'[r] => status'[x] # "reserved"
          /\ thread'[r] = "over" => status'[x] # "reserved"
          /\ thread'[r] \notin {"new", "reserving", "refused", "working"}
      BY <1>0, <3>1, <3>4, <3>5, <3>6, <3>7, <3>8 DEF PairInv
    <3> QED BY <3>3, <3>9 DEF PairInv, Told
  <2> QED BY <1>5, <2>1, <2>2, <2>3, <2>4, <2>5 DEF SpendStep
<1> QED BY <1>3, <1>4, <1>5, ThreadStep

\* The invariant is inductive.
THEOREM BudgetInvariant == Spec => []BudgetInv
<1>1. BudgetInv /\ [Next]_vars => BudgetInv'
  <2> SUFFICES ASSUME BudgetInv, [Next]_vars PROVE BudgetInv'
    OBVIOUS
  <2>1. \A r \in Runs : ThreadInv(r)'
    BY ThreadInvStep
  <2>2. \A r \in Runs, p \in Providers : PairInv(r, p)'
    BY PairInvStep
  <2> QED BY <2>1, <2>2, TypeStep, LedgerStep DEF BudgetInv
<1> QED BY <1>1, BudgetInit, PTL DEF Spec

\* Type correctness of the admission of runs.
THEOREM BudgetTypeCorrect == Spec => []BudgetTypeOK
BY BudgetInvariant, PTL DEF BudgetInv

\* reconcile_provider_spend, release_provider_spend and the expiry of leases never lose
\* what a run has cost, whatever fails in whatever order, but for the calls without a
\* response: those the reconciliation does not see.
THEOREM CostsAreKept == Spec => []CostsStayCharged
<1>1. BudgetInv => CostsStayCharged
  <2> SUFFICES ASSUME BudgetInv, NEW r \in Runs, NEW p \in Providers, cost[<<r, p>>] > 0
               PROVE  \/ status[<<r, p>>] \in Open
                      \/ /\ status[<<r, p>>] = "reconciled"
                         /\ actual[<<r, p>>] = cost[<<r, p>>] - lost[<<r, p>>]
    BY DEF CostsStayCharged, Pairs
  <2> DEFINE x == <<r, p>>
  <2>1. x \in Pairs /\ PairInv(r, p)
    BY DEF BudgetInv, Pairs
  <2>2. actual[x] \in Nat /\ lost[x] \in Nat /\ cost[x] \in Nat
    BY <2>1, BudgetAssumption DEF BudgetInv, BudgetAssumption, BudgetTypeOK
  <2>3. actual[x] + lost[x] = cost[x] => actual[x] = cost[x] - lost[x]
    BY <2>2
  <2> QED BY <2>1, <2>3 DEF PairInv
<1> QED BY <1>1, BudgetInvariant, PTL

\* A run that was refused, settled or reconciled to its end leaves no slot taken.
THEOREM NothingIsLeaked == Spec => []NothingLeaks
<1>1. BudgetInv => NothingLeaks
  BY DEF BudgetInv, PairInv, NothingLeaks
<1> QED BY <1>1, BudgetInvariant, PTL

-----------------------------------------------------------------------------
(* Slots *)

\* What reserve_provider_spend counts never exceeds provider_budget_max_reservations.
SlotsTaken == \A p \in Providers : Cardinality(Reservations(status, p)) <= MaxReservations

\* A provider has one reservation of each of finitely many runs.
LEMMA AtFinite ==
  ASSUME NEW p
  PROVE  IsFiniteSet(At(p))
<1> DEFINE f == [r \in Runs |-> <<r, p>>]
<1>1. f \in Surjection(Runs, At(p))
  BY DEF Surjection, At
<1> QED BY <1>1, FS_Surjection, BudgetAssumption DEF BudgetAssumption

\* The reservations of finitely many runs are finitely many.
LEMMA ReservationsFinite ==
  ASSUME NEW st, NEW p
  PROVE  /\ IsFiniteSet(Reservations(st, p))
         /\ Cardinality(Reservations(st, p)) \in Nat
<1>1. Reservations(st, p) \in SUBSET At(p)
  BY DEF Reservations
<1> QED BY <1>1, AtFinite, FS_Subset, FS_CardinalityType

\* A slot is taken by an admission, and only when there is one.
LEMMA SlotStep ==
  ASSUME BudgetInv, SlotsTaken, [Next]_vars
  PROVE  SlotsTaken'
<1>0. BudgetTypeOK
  BY DEF BudgetInv
<1>1. ASSUME NEW p \in Providers, Reservations(status', p) \subseteq Reservations(status, p)
      PROVE  Cardinality(Reservations(status', p)) <= MaxReservations
  <2>1. Cardinality(Reservations(status', p)) <= Cardinality(Reservations(status, p))
    BY <1>1, ReservationsFinite, FS_Subset
  <2> QED BY <2>1, ReservationsFinite, BudgetAssumption DEF SlotsTaken, BudgetAssumption
<1>2. \A p \in Providers : Reservations(Swept, p) \subseteq Reservations(status, p)
  BY DEF Reservations, At, Swept, Pairs
<1>3. ASSUME NEW r \in Runs, NEW k \in Providers, Grant(r, k), NEW p \in Providers
      PROVE  Cardinality(Reservations(status', p)) <= MaxReservations
  <2>1. status' = [Swept EXCEPT ![<<r, k>>] = "reserved"] /\ Swept \in [Pairs -> Statuses]
        /\ <<r, k>> \in Pairs
    BY <1>0, <1>3, SweptType DEF Grant, Pairs
  <2>2. CASE p # k
    <3>1. Reservations(status', p) \subseteq Reservations(Swept, p)
      BY <2>1, <2>2 DEF Reservations, At, Pairs
    <3> QED BY <3>1, <1>1, <1>2
  <2>3. CASE p = k
    <3> DEFINE S == Reservations(Swept, p)
    <3>1. Reservations(status', p) = S \cup {<<r, p>>}
      BY <2>1, <2>3 DEF Reservations, At, Pairs
    <3>2. Cardinality(S) < MaxReservations
      BY <1>3, <2>3 DEF Grant, Admits
    <3>3. Cardinality(S \cup {<<r, p>>}) <= Cardinality(S) + 1
      <4>1. IsFiniteSet(S) /\ Cardinality(S) \in Nat
        BY ReservationsFinite
      <4> HIDE DEF S
      <4> QED BY <4>1, FS_AddElement
    <3>4. Cardinality(S) \in Nat /\ Cardinality(S \cup {<<r, p>>}) \in Nat
      BY <3>1, ReservationsFinite
    <3> HIDE DEF S
    <3> QED BY <3>1, <3>2, <3>3, <3>4, BudgetAssumption DEF BudgetAssumption
  <2> QED BY <2>2, <2>3
<1>4. ASSUME NEW r \in Runs, NEW k \in Providers, ~Grant(r, k), SpendStep(r, k),
             NEW p \in Providers
      PROVE  Reservations(status', p) \subseteq Reservations(status, p)
  <2>1. CASE Refuse(r, k)
    <3>1. status' = status \/ status' = Swept
      BY <2>1 DEF Refuse
    <3> QED BY <1>2, <3>1
  <2>2. CASE GiveBack(r, k)
    BY <1>0, <2>2 DEF GiveBack, Reservations, At, Pairs, BudgetTypeOK
  <2>3. CASE Call(r, k)
    BY <2>3 DEF Call, rows
  <2>4. ASSUME NEW v \in {"uncertain", "reconciled"}, Settled(r, k, v)
        PROVE  Reservations(status', p) \subseteq Reservations(status, p)
    <3>1. status' = status \/ status' = [status EXCEPT ![<<r, k>>] = v]
      BY <2>4 DEF Settled
    <3>2. \A x \in Pairs : status'[x] = "reserved" => status[x] = "reserved"
      BY <1>0, <2>4, <3>1 DEF BudgetTypeOK
    <3> QED BY <3>2 DEF Reservations, At, Pairs
  <2>5. CASE Reconcile(r, k) \/ Settle(r, k)
    BY <2>4, <2>5 DEF Reconcile, Settle, Verdict
  <2> QED BY <1>4, <2>1, <2>2, <2>3, <2>5 DEF SpendStep
<1>5. ASSUME NEW r \in Runs, RunStep(r) PROVE status' = status
  BY <1>5 DEF RunStep, Begin, Finish, Fail, Breaks, End, Dies, Recover, rows
<1>6. ASSUME (\E x \in Pairs : Age(x)) \/ NextDay \/ StatusRead \/ UNCHANGED vars
      PROVE  status' = status \/ status' = Swept
  BY <1>6 DEF Age, NextDay, StatusRead, vars, rows
<1>7. \A p \in Providers : Cardinality(Reservations(status', p)) <= MaxReservations
  <2> TAKE p \in Providers
  <2>1. CASE \E r \in Runs, k \in Providers : Grant(r, k)
    BY <1>3, <2>1
  <2>2. CASE ~\E r \in Runs, k \in Providers : Grant(r, k)
    <3>1. Reservations(status', p) \subseteq Reservations(status, p)
      BY <1>2, <1>4, <1>5, <1>6, <2>2 DEF Next
    <3> QED BY <3>1, <1>1
  <2> QED BY <2>1, <2>2
<1> QED BY <1>7 DEF SlotsTaken, Reservations, At

\* A run at work has a slot of its own.
LEMMA WorkTakesSlots ==
  ASSUME BudgetInv, SlotsTaken
  PROVE  SlotsHold
<1> SUFFICES ASSUME NEW p \in Providers
             PROVE  Cardinality({r \in Runs : thread[r] = "working" /\ p \in held[r]})
                      <= MaxReservations
  BY DEF SlotsHold
<1> DEFINE S == {r \in Runs : thread[r] = "working" /\ p \in held[r]}
           T == Reservations(status, p)
           f == [r \in S |-> <<r, p>>]
<1>1. \A r \in S : <<r, p>> \in T
  BY DEF BudgetInv, PairInv, Reservations, At
<1>2. f \in Injection(S, T)
  BY <1>1 DEF Injection, IsInjective
<1>3. IsFiniteSet(T) /\ Cardinality(T) \in Nat /\ Cardinality(T) <= MaxReservations
  BY ReservationsFinite DEF SlotsTaken
<1> HIDE DEF S, T, f
<1>4. IsFiniteSet(S) /\ Cardinality(S) <= Cardinality(T)
  BY <1>2, <1>3, FS_Injection
<1>5. Cardinality(S) \in Nat
  BY <1>4, FS_CardinalityType
<1>6. Cardinality(S) <= MaxReservations
  BY <1>3, <1>4, <1>5, BudgetAssumption DEF BudgetAssumption
<1> QED BY <1>6 DEF S

\* No more runs are at work on a provider than it has slots.
THEOREM SlotsAreHeld == Spec => []SlotsHold
<1>1. Init => SlotsTaken
  <2> SUFFICES ASSUME Init, NEW p \in Providers
               PROVE  Cardinality(Reservations(status, p)) <= MaxReservations
    BY DEF SlotsTaken
  <2>1. Reservations(status, p) = {}
    BY DEF Init, Reservations, At, Pairs
  <2> QED BY <2>1, FS_EmptySet, BudgetAssumption DEF BudgetAssumption
<1>2. BudgetInv /\ SlotsTaken /\ [Next]_vars => SlotsTaken'
  BY SlotStep
<1>3. BudgetInv /\ SlotsTaken => SlotsHold
  BY WorkTakesSlots
<1> QED BY <1>1, <1>2, <1>3, BudgetInvariant, PTL DEF Spec

-----------------------------------------------------------------------------
(* The daily limit *)

\* What the admission of x on day d still counts for: its amount while the reservation is
\* open, and no more than that once it is reconciled.
Granted(d, x) ==
  IF day[x] # d THEN 0
  ELSE IF status[x] \in Open THEN Amount
  ELSE IF status[x] = "reconciled" /\ actual[x] < Amount THEN actual[x]
  ELSE IF status[x] = "reconciled" THEN Amount ELSE 0

\* No day has granted more than the limit.
DayKept ==
  Limit > 0 =>
    \A p \in Providers, d \in 0..MaxDay :
      SumFunctionOnSet([x \in Pairs |-> Granted(d, x)], At(p)) <= Limit

\* The amounts are naturals.
LEMMA Amounts ==
  ASSUME BudgetTypeOK
  PROVE  /\ Amount \in Nat
         /\ \A d, x : x \in Pairs => Granted(d, x) \in Nat /\ Granted(d, x) <= Amount
         /\ \A st, x : x \in Pairs => Charge(st, x) \in Nat
<1>1. Amount \in Nat
  BY BudgetAssumption DEF BudgetAssumption, Amount
<1>2. \A x \in Pairs : actual[x] \in Nat
  BY BudgetAssumption DEF BudgetAssumption, BudgetTypeOK
<1> HIDE DEF Amount
<1> QED BY <1>1, <1>2 DEF Granted, Charge

\* What a run has lost is part of what it has cost, so what it spent is a natural.
LEMMA SpentType ==
  ASSUME BudgetInv
  PROVE  \A d, x : x \in Pairs => Spent(d, x) \in Nat
<1> SUFFICES ASSUME NEW d, NEW x \in Pairs PROVE Spent(d, x) \in Nat
  OBVIOUS
<1>1. Amount \in Nat
  BY Amounts DEF BudgetInv
<1>2. cost[x] \in Nat /\ lost[x] \in Nat /\ ledger[x] \in Nat
  BY BudgetAssumption DEF BudgetInv, BudgetAssumption, BudgetTypeOK
<1>3. cost[x] - lost[x] \in Nat
  BY <1>2 DEF BudgetInv, LedgerCounts
<1> HIDE DEF Amount
<1> QED BY <1>1, <1>2, <1>3 DEF Spent, Counted

\* Only a new reservation is granted anything.
LEMMA GrantedStep ==
  ASSUME BudgetInv, [Next]_vars, NEW r \in Runs, NEW p \in Providers, NEW d, ~Grant(r, p)
  PROVE  Granted(d, <<r, p>>)' <= Granted(d, <<r, p>>)
<1> DEFINE x == <<r, p>>
<1>0. BudgetTypeOK /\ BudgetTypeOK' /\ x \in Pairs /\ PairInv(r, p)
  BY TypeStep DEF BudgetInv, Pairs
<1>1. StatusMoves(r, p) /\
      (actual'[x] # actual[x] => status[x] = "uncertain" \/ status'[x] # status[x])
  BY StatusStep
<1>2. day'[x] = day[x]
  <2>1. ASSUME NEW q \in Runs, RunStep(q) PROVE day' = day
    BY <2>1 DEF RunStep, Begin, Finish, Fail, Breaks, End, Dies, Recover, rows
  <2>2. ASSUME NEW q \in Runs, NEW k \in Providers, SpendStep(q, k) PROVE day'[x] = day[x]
    <3>1. CASE Grant(q, k)
      <4>1. <<q, k>> # x /\ <<q, k>> \in Pairs
        BY <3>1 DEF Pairs
      <4> QED BY <1>0, <3>1, <4>1 DEF Grant, BudgetTypeOK
    <3> QED BY <2>2, <3>1
            DEF SpendStep, Refuse, GiveBack, Call, Reconcile, Settle, Settled, rows
  <2> QED BY <2>1, <2>2 DEF Next, Age, NextDay, StatusRead, rows, vars
<1>3. held'[r] = held[r] \/ \E k \in Providers : Grant(r, k) /\ held'[r] = held[r] \cup {k}
  <2>1. ASSUME NEW q \in Runs, RunStep(q) PROVE held' = held
    BY <2>1 DEF RunStep, Begin, Finish, Fail, Breaks, End, Dies, Recover
  <2>2. ASSUME NEW q \in Runs, NEW k \in Providers, SpendStep(q, k)
        PROVE  held' = held \/ (Grant(q, k) /\ held' = [held EXCEPT ![q] = @ \cup {k}])
    BY <2>2 DEF SpendStep, Grant, Refuse, GiveBack, Call, Reconcile, Settle, Settled
  <2>3. ASSUME NEW y \in Pairs, Age(y) PROVE held' = held
    BY <2>3 DEF Age
  <2>4. NextDay \/ StatusRead \/ UNCHANGED vars => held' = held
    BY DEF NextDay, StatusRead, vars
  <2> DEFINE Grows == \E q \in Runs, k \in Providers :
                        Grant(q, k) /\ held' = [held EXCEPT ![q] = @ \cup {k}]
  <2>5. held' = held \/ Grows
    <3>1. CASE \E q \in Runs, k \in Providers : SpendStep(q, k)
      BY <2>2, <3>1
    <3>2. CASE \E q \in Runs : RunStep(q)
      BY <2>1, <3>2
    <3>3. CASE \E y \in Pairs : Age(y)
      BY <2>3, <3>3
    <3>4. \/ \E q \in Runs, k \in Providers : SpendStep(q, k)
          \/ \E q \in Runs : RunStep(q)
          \/ \E y \in Pairs : Age(y)
          \/ NextDay \/ StatusRead \/ UNCHANGED vars
      BY DEF Next
    <3> HIDE DEF Grows
    <3> QED BY <2>4, <3>1, <3>2, <3>3, <3>4
  <2> QED BY <1>0, <2>5 DEF BudgetTypeOK
<1>4. ~(p \notin held[r] /\ held'[r] = held[r] \cup {p})
  BY <1>3
<1>5. /\ status'[x] \in Open => status[x] \in Open
      /\ status'[x] = "reconciled" => status[x] \in Open \/ (status[x] = "reconciled" /\ actual'[x] = actual[x])
  BY <1>1, <1>4 DEF StatusMoves, Open
<1>6. /\ Amount \in Nat /\ actual[x] \in Nat /\ actual'[x] \in Nat
      /\ Granted(d, x) \in Nat /\ Granted(d, x) <= Amount
  BY <1>0, Amounts, BudgetAssumption DEF BudgetTypeOK, BudgetAssumption
<1>7. Granted(d, x)' = IF day[x] # d THEN 0
                       ELSE IF status'[x] \in Open THEN Amount
                       ELSE IF status'[x] = "reconciled" /\ actual'[x] < Amount THEN actual'[x]
                       ELSE IF status'[x] = "reconciled" THEN Amount ELSE 0
  BY <1>2 DEF Granted, Amount
<1> HIDE DEF Amount
<1> QED BY <1>2, <1>5, <1>6, <1>7 DEF Granted, Open

\* Every step keeps within the limit of each day.
LEMMA DayStep ==
  ASSUME BudgetInv, DayKept, [Next]_vars
  PROVE  DayKept'
<1> SUFFICES ASSUME Limit > 0, NEW p \in Providers, NEW d \in 0..MaxDay
             PROVE  SumFunctionOnSet([x \in Pairs |-> Granted(d, x)'], At(p)) <= Limit
  BY DEF DayKept, At
<1>0. BudgetTypeOK /\ BudgetTypeOK' /\ At(p) \subseteq Pairs /\ IsFiniteSet(At(p))
  BY TypeStep, AtFinite DEF BudgetInv, At, Pairs
<1> DEFINE f == [x \in Pairs |-> Granted(d, x)]
           f1 == [x \in Pairs |-> Granted(d, x)']
           h == [x \in Pairs |-> Charge(Swept, x)]
           Before == SumFunctionOnSet(f, At(p))
           After == SumFunctionOnSet(f1, At(p))
           Due == SumFunctionOnSet(h, At(p))
<1>1. \A x \in Pairs : Granted(d, x)' \in Nat
  <2>1. Amount \in Nat /\ \A x \in Pairs : actual'[x] \in Nat
    BY <1>0, Amounts, BudgetAssumption DEF BudgetTypeOK, BudgetAssumption
  <2>2. \A x \in Pairs : Granted(d, x)' \in {0, Amount, actual'[x]}
    BY DEF Granted, Amount
  <2> QED BY <2>1, <2>2
<1>2. Weights(f, At(p)) /\ Weights(f1, At(p)) /\ Weights(h, At(p))
  BY <1>0, <1>1, Amounts DEF Weights
<1>3. Before \in Nat /\ After \in Nat /\ Due \in Nat /\ Limit \in Nat
  BY <1>2, SumType, BudgetAssumption DEF BudgetAssumption
<1>4. Before <= Limit
  BY DEF DayKept
<1>5. CASE \A r \in Runs : ~Grant(r, p) \/ d # today
  <2>1. \A x \in At(p) : f1[x] <= f[x]
    <3> SUFFICES ASSUME NEW r \in Runs PROVE f1[<<r, p>>] <= f[<<r, p>>]
      BY DEF At
    <3>1. CASE ~Grant(r, p)
      BY <1>0, <3>1, GrantedStep DEF Pairs
    <3>2. CASE Grant(r, p)
      <4>1. <<r, p>> \in Pairs /\ day'[<<r, p>>] = today
        BY <1>0, <3>2 DEF Grant, BudgetTypeOK, Pairs
      <4>2. f1[<<r, p>>] = 0
        BY <1>5, <3>2, <4>1 DEF Granted
      <4>3. f[<<r, p>>] \in Nat
        BY <1>0, <4>1, Amounts
      <4> QED BY <4>2, <4>3
    <3> QED BY <3>1, <3>2
  <2>2. After <= Before
    <3> HIDE DEF f, f1, h
    <3> QED BY <1>2, <2>1, SumMonotone
  <2> QED BY <1>3, <1>4, <2>2
<1>6. ASSUME NEW r \in Runs, Grant(r, p), d = today PROVE After <= Limit
  <2> DEFINE y == <<r, p>>
  <2>1. y \in Pairs /\ y \in At(p) /\ PairInv(r, p)
    BY DEF BudgetInv, Pairs, At
  <2>2. status[y] = "none" /\ h[y] = 0
    BY <1>6, <2>1 DEF Grant, Asks, PairInv, Swept, Charge, Open
  <2>3. f1[y] <= Amount /\ f1[y] \in Nat /\ Amount \in Nat
    BY <1>0, <1>1, <2>1, Amounts DEF Granted
  <2>4. \A x \in At(p) \ {y} : f1[x] <= h[x]
    <3> SUFFICES ASSUME NEW q \in Runs, q # r PROVE f1[<<q, p>>] <= h[<<q, p>>]
      BY DEF At
    <3> DEFINE x == <<q, p>>
    <3>1. x \in Pairs /\ ~Grant(q, p)
      <4>1. p \notin held[r] /\ held' = [held EXCEPT ![r] = @ \cup {p}]
        BY <1>6 DEF Grant, Asks
      <4>2. held'[r] = held[r] \cup {p}
        BY <1>0, <4>1 DEF BudgetTypeOK
      <4>3. ASSUME Grant(q, p) PROVE held'[r] = held[r]
        BY <1>0, <4>3 DEF Grant, BudgetTypeOK
      <4> QED BY <4>1, <4>2, <4>3 DEF Pairs
    <3>2. f1[x] <= f[x]
      BY <3>1, GrantedStep
    <3>3. f[x] <= h[x]
      BY <1>0, <1>6, <3>1, Amounts DEF Granted, Charge, Swept, Open
    <3> QED BY <1>0, <1>1, <3>1, <3>2, <3>3, Amounts
  <2>5. Due + Amount <= Limit
    BY <1>6 DEF Grant, Admits, Charged
  <2>6. After + h[y] <= Due + f1[y]
    <3> HIDE DEF f, f1, h, y
    <3> QED BY <1>2, <2>1, <2>4, SumButOne
  <2> HIDE DEF f, f1, h, Amount
  <2> QED BY <1>3, <2>2, <2>3, <2>5, <2>6
<1> QED BY <1>5, <1>6

\* What the runs admitted on a day have spent, up to their amounts, is still granted.
LEMMA SpentWasGranted ==
  ASSUME BudgetInv, DayKept
  PROVE  WithinDailyLimit
<1> SUFFICES ASSUME Limit > 0, NEW p \in Providers, NEW d \in 0..MaxDay
             PROVE  SumFunctionOnSet([x \in Pairs |-> Spent(d, x)], At(p)) <= Limit
  BY DEF WithinDailyLimit
<1> DEFINE f == [x \in Pairs |-> Spent(d, x)]
           h == [x \in Pairs |-> Granted(d, x)]
<1>1. BudgetTypeOK /\ At(p) \subseteq Pairs /\ IsFiniteSet(At(p))
  BY AtFinite DEF BudgetInv, At, Pairs
<1>2. Weights(f, At(p)) /\ Weights(h, At(p))
  BY <1>1, Amounts, SpentType DEF Weights
<1>3. \A x \in At(p) : f[x] <= h[x]
  <2> SUFFICES ASSUME NEW r \in Runs PROVE Spent(d, <<r, p>>) <= Granted(d, <<r, p>>)
    BY <1>1 DEF At
  <2> DEFINE x == <<r, p>>
  <2>1. x \in Pairs /\ PairInv(r, p)
    BY DEF BudgetInv, Pairs
  <2>2. /\ Amount \in Nat /\ cost[x] \in Nat /\ actual[x] \in Nat /\ lost[x] \in Nat
        /\ status[x] \in Statuses
    BY <1>1, <2>1, Amounts, BudgetAssumption DEF BudgetTypeOK, BudgetAssumption
  <2>3. cost[x] > 0 => status[x] \in Open \/ (status[x] = "reconciled" /\ actual[x] = cost[x] - lost[x])
    BY <2>1, <2>2 DEF PairInv
  <2> HIDE DEF x, Amount
  <2>4. Spent(d, x) <= Granted(d, x)
    BY <2>2, <2>3 DEF Spent, Counted, Granted, Open, Statuses
  <2> QED BY <2>4 DEF x
<1>4. SumFunctionOnSet(h, At(p)) <= Limit
  BY DEF DayKept
<1>5. /\ SumFunctionOnSet(f, At(p)) \in Nat /\ SumFunctionOnSet(h, At(p)) \in Nat
      /\ SumFunctionOnSet(f, At(p)) <= SumFunctionOnSet(h, At(p))
  <2> HIDE DEF f, h
  <2> QED BY <1>2, <1>3, SumType, SumMonotone
<1> HIDE DEF f, h
<1>6. SumFunctionOnSet(f, At(p)) <= Limit
  BY <1>4, <1>5, BudgetAssumption DEF BudgetAssumption
<1> QED BY <1>6 DEF f

\* The runs admitted on one day cost a provider no more than the limit, but for what single
\* runs cost over the amount they were admitted with, and for the lost calls of reconciled
\* runs.
THEOREM LimitIsKept == Spec => []WithinDailyLimit
<1>1. Init => DayKept
  <2> SUFFICES ASSUME Init, NEW p \in Providers, NEW d \in 0..MaxDay
               PROVE  SumFunctionOnSet([x \in Pairs |-> Granted(d, x)], At(p)) <= Limit
    BY DEF DayKept
  <2>1. \A x \in Pairs : Granted(d, x) = 0
    BY DEF Init, Granted, Open
  <2> DEFINE f == [x \in Pairs |-> Granted(d, x)]
  <2>2. At(p) \subseteq Pairs /\ IsFiniteSet(At(p))
    BY AtFinite DEF At, Pairs
  <2>3. Weights(f, At(p)) /\ \A x \in At(p) : f[x] = 0
    BY <2>1, <2>2 DEF Weights
  <2> HIDE DEF f
  <2>4. SumFunctionOnSet(f, At(p)) = 0
    BY <2>3, SumOfNothing
  <2> QED BY <2>4, BudgetAssumption DEF f, BudgetAssumption
<1>2. BudgetInv /\ DayKept /\ [Next]_vars => DayKept'
  BY DayStep
<1>3. BudgetInv /\ DayKept => WithinDailyLimit
  BY SpentWasGranted
<1> QED BY <1>1, <1>2, <1>3, BudgetInvariant, PTL DEF Spec
==============================================================================
