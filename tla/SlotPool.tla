------------------------------- MODULE SlotPool --------------------------------
(***************************************************************************)
(* What ProcessingQueue promises its callers, without processes, tables or *)
(* transactions: a pool of at most MaxSlots slots, each held under a fresh *)
(* ticket for one key.  A ticket is handed out once, holds its slot alone, *)
(* and once dropped never holds a slot again.                              *)
(***************************************************************************)
EXTENDS Integers, FiniteSets

CONSTANTS Tickets, Keys, MaxSlots, NoKey

VARIABLES
  held,    \* the key each ticket holds a slot for, NoKey when it holds none
  spent    \* the tickets ever handed out

poolVars == <<held, spent>>

Holders == {t \in Tickets : held[t] # NoKey}

PoolInit ==
  /\ held = [t \in Tickets |-> NoKey]
  /\ spent = {}

\* The slots of D are recovered, and t gets one for k if the key and a slot are
\* free among those left.
Admit(t, k, D) ==
  /\ t \notin spent
  /\ \A u \in Holders \ D : held[u] # k
  /\ Cardinality(Holders \ D) < MaxSlots
  /\ held' = [u \in Tickets |-> IF u = t THEN k ELSE IF u \in D THEN NoKey ELSE held[u]]
  /\ spent' = spent \cup {t}

\* Slots are given back by their holders, or recovered.
Drop(D) ==
  /\ held' = [u \in Tickets |-> IF u \in D THEN NoKey ELSE held[u]]
  /\ UNCHANGED spent

PoolNext ==
  \E D \in SUBSET Holders :
    \/ Drop(D)
    \/ \E t \in Tickets, k \in Keys : Admit(t, k, D)

PoolSpec == PoolInit /\ [][PoolNext]_poolVars

=============================================================================
