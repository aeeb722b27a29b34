-------------------------- MODULE CutTimeline_proofs --------------------------
(***************************************************************************)
(* Proofs about CutTimeline, for every length of audio, every threshold    *)
(* and every list of requests.  CutInv is the inductive invariant: the     *)
(* cuts of the original are a row, those of the second render lie in the   *)
(* original, and the file plays, in order, what neither has taken          *)
(* (FileOf).                                                               *)
(*                                                                         *)
(* The way there: what a render applies is explained by the parts of the   *)
(* requests outside the walls, narrow gaps between them and the end        *)
(* (Explains); what it plays is laid out between the cuts (Laid); and as   *)
(* long as no filler is longer than its cut, places of the file map back   *)
(* to the original in order, ticks to themselves (Exact).  The folds the   *)
(* model is built from are unrolled to functions on 0 .. n once each.      *)
(*                                                                         *)
(* Kept audio stays on the air because what is kept is mapped to a span    *)
(* that holds the place where it is played (KeptMaps: adjust_timestamp     *)
(* finds that place exactly, group by group of the cuts), and no cut that  *)
(* is explained by its requests reaches into a wall (WallsStay).           *)
(* By the same places, what is held is only lost to a request (HeldInv,    *)
(* HeldIsRequested).                                                       *)
(***************************************************************************)
EXTENDS CutTimeline, SumTheorems, SequenceTheorems

-----------------------------------------------------------------------------
(* Counting up, and folds as iterations.                                     *)

\* What holds of 0, and of k when it holds of k - 1, holds of all that are counted.
LEMMA CountUp ==
  ASSUME NEW n \in Nat, NEW G, 0 \in G, \A k \in 1 .. n : k - 1 \in G => k \in G
  PROVE  \A k \in 0 .. n : k \in G
<1> DEFINE B == {k \in 0 .. n : k \notin G}
<1> SUFFICES ASSUME B # {} PROVE FALSE
  OBVIOUS
<1>1. B \subseteq Nat
  OBVIOUS
<1>2. PICK k \in B : \A l \in B : k <= l
  <2> HIDE DEF B
  <2> QED BY <1>1, LeastMember
<1>3. k \in 1 .. n /\ k - 1 \in 0 .. n
  OBVIOUS
<1>4. k - 1 \in G
  <2>1. CASE k - 1 \in B
    <3>1. k <= k - 1
      BY <1>2, <2>1
    <3> QED BY <1>3, <3>1
  <2>2. CASE k - 1 \notin B
    BY <1>3, <2>2
  <2> QED BY <2>1, <2>2
<1> QED BY <1>3, <1>4

\* The largest is what the library calls Max.
LEMMA MaxIs ==
  ASSUME NEW s, NEW x \in s, s \subseteq Int, \A y \in s : y <= x
  PROVE  Max(s) = x
<1>1. \A y \in s : x >= y
  OBVIOUS
<1>2. Max(s) \in s /\ \A y \in s : Max(s) >= y
  BY <1>1 DEF Max
<1>3. Max(s) \in Int /\ x \in Int /\ Max(s) >= x /\ Max(s) <= x
  BY <1>2
<1> QED BY <1>3

\* op has a step for each place, and g works a set of places off from the highest.
Steps(op, n, T) == op \in [1 .. n -> [T -> T]]
Works(g, op, b, n, T) ==
  /\ g \in [SUBSET (1 .. n) -> T]
  /\ \A s \in SUBSET (1 .. n) :
       /\ s = {} => g[s] = b
       /\ s # {} => Max(s) \in 1 .. n /\ g[s] = op[Max(s)][g[s \ {Max(s)}]]

\* A set of places is worked off from the highest by some function.
LEMMA FoldExists ==
  ASSUME NEW n \in Nat, NEW T, NEW b \in T, NEW op, Steps(op, n, T)
  PROVE  \E g : Works(g, op, b, n, T)
<1> DEFINE G == {k \in 0 .. n : \E g : Works(g, op, b, k, T)}
<1>0. op \in [1 .. n -> [T -> T]]
  BY DEF Steps
<1>1. 0 \in G
  <2>1. 1 .. 0 = {}
    OBVIOUS
  <2>2. Works([s \in SUBSET (1 .. 0) |-> b], op, b, 0, T)
    BY <2>1 DEF Works
  <2> QED BY <2>2
<1>2. ASSUME NEW k \in 1 .. n, k - 1 \in G PROVE k \in G
  <2>1. PICK g : Works(g, op, b, k - 1, T)
    BY <1>2
  <2> DEFINE h == [s \in SUBSET (1 .. k) |-> IF k \in s THEN op[k][g[s \ {k}]] ELSE g[s]]
  <2>2. /\ g \in [SUBSET (1 .. k - 1) -> T]
        /\ \A s \in SUBSET (1 .. k - 1) :
             /\ s = {} => g[s] = b
             /\ s # {} => Max(s) \in 1 .. k - 1 /\ g[s] = op[Max(s)][g[s \ {Max(s)}]]
    BY <2>1 DEF Works
  <2>3. \A s \in SUBSET (1 .. k) : s \ {k} \in SUBSET (1 .. k - 1)
    OBVIOUS
  <2>4. h \in [SUBSET (1 .. k) -> T]
    <3> SUFFICES ASSUME NEW s \in SUBSET (1 .. k)
                 PROVE  (IF k \in s THEN op[k][g[s \ {k}]] ELSE g[s]) \in T
      OBVIOUS
    <3>1. s \ {k} \in SUBSET (1 .. k - 1) /\ (k \notin s => s = s \ {k})
      BY <2>3
    <3>2. g[s \ {k}] \in T
      BY <2>2, <3>1
    <3>3. op[k][g[s \ {k}]] \in T
      BY <1>0, <3>2
    <3> QED BY <3>1, <3>2, <3>3
  <2>5. ASSUME NEW s \in SUBSET (1 .. k)
        PROVE  /\ s = {} => h[s] = b
               /\ s # {} => Max(s) \in 1 .. k /\ h[s] = op[Max(s)][h[s \ {Max(s)}]]
    <3>1. CASE k \in s
      <4>1. Max(s) = k
        <5>1. s \subseteq Int /\ \A y \in s : y <= k
          OBVIOUS
        <5> QED BY <3>1, <5>1, MaxIs
      <4>2. h[s] = op[k][g[s \ {k}]] /\ h[s \ {k}] = g[s \ {k}]
        BY <2>3, <3>1
      <4> HIDE DEF h
      <4> QED BY <3>1, <4>1, <4>2
    <3>2. CASE k \notin s
      <4>1. s \in SUBSET (1 .. k - 1) /\ h[s] = g[s]
        BY <2>3, <3>2
      <4>2. s # {} => /\ Max(s) \in 1 .. k - 1
                      /\ h[s \ {Max(s)}] = g[s \ {Max(s)}]
        <5>1. s # {} => Max(s) \in 1 .. k - 1
          BY <2>2, <4>1
        <5>2. s \ {Max(s)} \in SUBSET (1 .. k) /\ k \notin s \ {Max(s)}
          BY <3>2
        <5> QED BY <5>1, <5>2
      <4>3. /\ s = {} => g[s] = b
            /\ s # {} => Max(s) \in 1 .. k - 1 /\ g[s] = op[Max(s)][g[s \ {Max(s)}]]
        BY <2>2, <4>1
      <4>4. Max(s) \in 1 .. k - 1 => Max(s) \in 1 .. k
        OBVIOUS
      <4> HIDE DEF h
      <4> QED BY <4>1, <4>2, <4>3, <4>4
    <3> QED BY <3>1, <3>2
  <2> HIDE DEF h
  <2>6. Works(h, op, b, k, T)
    BY <2>4, <2>5 DEF Works
  <2> QED BY <2>6
<1>3. n \in G
  <2> HIDE DEF G
  <2>1. \A k \in 0 .. n : k \in G
    BY <1>1, <1>2, CountUp
  <2> QED BY <2>1
<1> QED BY <1>3

\* g counts up from b by those steps.
Iterates(g, op, b, n, T) ==
  g \in [0 .. n -> T] /\ g[0] = b /\ \A k \in 1 .. n : g[k] = op[k][g[k - 1]]

\* So is a recursion that counts up.
LEMMA IterationExists ==
  ASSUME NEW n \in Nat, NEW T, NEW b \in T, NEW op, Steps(op, n, T)
  PROVE  \E g : Iterates(g, op, b, n, T)
<1>1. PICK f \in [SUBSET (1 .. n) -> T] :
           \A s \in SUBSET (1 .. n) :
             /\ s = {} => f[s] = b
             /\ s # {} => Max(s) \in 1 .. n /\ f[s] = op[Max(s)][f[s \ {Max(s)}]]
  <2>1. PICK f : Works(f, op, b, n, T)
    BY FoldExists
  <2> QED BY <2>1 DEF Works
<1> DEFINE g == [k \in 0 .. n |-> f[1 .. k]]
<1>2. g \in [0 .. n -> T]
  OBVIOUS
<1>3. g[0] = b
  <2>1. 1 .. 0 = {}
    OBVIOUS
  <2>2. 1 .. 0 \in SUBSET (1 .. n) /\ 0 \in 0 .. n
    BY <2>1
  <2>3. f[1 .. 0] = b
    BY <1>1, <2>1, <2>2
  <2> QED BY <2>2, <2>3
<1>4. ASSUME NEW k \in 1 .. n PROVE g[k] = op[k][g[k - 1]]
  <2>1. Max(1 .. k) = k
    <3>1. k \in 1 .. k /\ 1 .. k \subseteq Int /\ \A y \in 1 .. k : y <= k
      OBVIOUS
    <3> QED BY <3>1, MaxIs
  <2>2. (1 .. k) \ {k} = 1 .. k - 1 /\ k \in 1 .. k /\ 1 .. k \in SUBSET (1 .. n)
    OBVIOUS
  <2>3. f[1 .. k] = op[k][f[1 .. k - 1]]
    BY <1>1, <2>1, <2>2
  <2> QED BY <2>3
<1> HIDE DEF g
<1> QED BY <1>2, <1>3, <1>4 DEF Iterates
-----------------------------------------------------------------------------
(* Lists in order.                                                           *)

\* i comes before j when sorted by key, which is stable.
Earlier(key, i, j) == key[i] < key[j] \/ (key[i] = key[j] /\ i < j)

\* p lists the members of I in that order.
Sorting(p, I, key) ==
  /\ p \in [1 .. Cardinality(I) -> I]
  /\ \A i \in I : \E k \in 1 .. Cardinality(I) : p[k] = i
  /\ \A k, l \in 1 .. Cardinality(I) : k < l => Earlier(key, p[k], p[l])

Keyed(I, key) == I \subseteq Nat /\ IsFiniteSet(I) /\ \A i \in I : key[i] \in Nat
Lists(p, I, key) ==
  Sorting(p, I, key) /\ \A s : InOrder(s, I, key) = [k \in 1 .. Cardinality(I) |-> s[p[k]]]

\* A finite set of places is listed in order by InOrder.
LEMMA InOrderSorts ==
  ASSUME NEW I, NEW key, Keyed(I, key)
  PROVE  \E p : Lists(p, I, key)
<1> DEFINE n == Cardinality(I)
           B(i) == {j \in I : key[j] < key[i] \/ (key[j] = key[i] /\ j < i)}
           r == [i \in I |-> Cardinality(B(i)) + 1]
           p == [k \in 1 .. n |-> CHOOSE i \in I : Cardinality(B(i)) = k - 1]
<1> USE DEF Keyed
<1>1. n \in Nat
  BY FS_CardinalityType
<1>2. ASSUME NEW i \in I PROVE IsFiniteSet(B(i)) /\ Cardinality(B(i)) \in 0 .. n - 1
  <2>1. IsFiniteSet(I \ {i}) /\ Cardinality(I \ {i}) = n - 1
    BY FS_RemoveElement
  <2>2. B(i) \in SUBSET (I \ {i})
    <3>1. i \in Nat /\ key[i] \in Nat
      OBVIOUS
    <3> QED BY <3>1
  <2> HIDE DEF B, n
  <2>3. IsFiniteSet(B(i)) /\ Cardinality(B(i)) <= n - 1
    BY <2>1, <2>2, FS_Subset
  <2> QED BY <2>3, FS_CardinalityType, <1>1
<1>3. ASSUME NEW i \in I, NEW j \in I, Earlier(key, i, j)
      PROVE  Cardinality(B(i)) < Cardinality(B(j))
  <2>1. ASSUME NEW x \in B(i) PROVE x \in B(j)
    <3>1. x \in Nat /\ i \in Nat /\ j \in Nat /\ key[x] \in Nat /\ key[i] \in Nat /\ key[j] \in Nat
      OBVIOUS
    <3>2. key[x] < key[i] \/ (key[x] = key[i] /\ x < i)
      OBVIOUS
    <3>3. key[i] < key[j] \/ (key[i] = key[j] /\ i < j)
      BY <1>3 DEF Earlier
    <3>4. key[x] < key[j] \/ (key[x] = key[j] /\ x < j)
      BY <3>1, <3>2, <3>3
    <3> QED BY <3>4
  <2>2. i \in B(j) /\ i \notin B(i)
    <3>1. i \in Nat /\ key[i] \in Nat
      OBVIOUS
    <3> QED BY <1>3, <3>1 DEF Earlier
  <2>3. IsFiniteSet(B(i)) /\ IsFiniteSet(B(j)) /\ Cardinality(B(i)) \in Nat /\ Cardinality(B(j)) \in Nat
    BY <1>1, <1>2
  <2> HIDE DEF B
  <2>4. Cardinality(B(i)) <= Cardinality(B(j)) /\ Cardinality(B(i)) # Cardinality(B(j))
    BY <2>1, <2>2, <2>3, FS_Subset
  <2> QED BY <2>3, <2>4
<1>4. \A i, j \in I : i # j => Earlier(key, i, j) \/ Earlier(key, j, i)
  BY DEF Earlier
<1> HIDE DEF B
<1>5. r \in Injection(I, 1 .. n)
  <2>1. r \in [I -> 1 .. n]
    BY <1>1, <1>2
  <2>2. ASSUME NEW i \in I, NEW j \in I, r[i] = r[j] PROVE i = j
    BY <1>2, <1>3, <1>4, <2>2
  <2> QED BY <2>1, <2>2 DEF Injection, IsInjective
<1>6. r \in Surjection(I, 1 .. n)
  <2>1. IsFiniteSet(1 .. n) /\ Cardinality(1 .. n) = n
    BY <1>1, FS_Interval
  <2> HIDE DEF r
  <2> QED BY <1>5, <2>1, FS_Injection
<1>7. \A k \in 1 .. n : \E i \in I : Cardinality(B(i)) = k - 1
  <2> TAKE k \in 1 .. n
  <2>1. PICK i \in I : r[i] = k
    BY <1>6 DEF Surjection
  <2> QED BY <2>1, <1>1, <1>2
<1>8. \A k \in 1 .. n : p[k] \in I /\ Cardinality(B(p[k])) = k - 1
  BY <1>7
<1>0. p \in [1 .. n -> I]
  BY <1>7
<1> HIDE DEF p
<1>9. \A i \in I : \E k \in 1 .. n : p[k] = i
  <2> TAKE i \in I
  <2>1. r[i] \in 1 .. n
    BY <1>1, <1>2
  <2>2. p[r[i]] \in I /\ Cardinality(B(p[r[i]])) = Cardinality(B(i))
    BY <1>2, <1>8, <2>1
  <2>3. p[r[i]] = i
    <3> DEFINE j == p[r[i]]
    <3> HIDE DEF j
    <3>1. j \in I /\ Cardinality(B(j)) = Cardinality(B(i)) /\ Cardinality(B(i)) \in Nat
      BY <1>1, <1>2, <2>2 DEF j
    <3>2. j = i
      BY <1>3, <1>4, <3>1
    <3> QED BY <3>2 DEF j
  <2> QED BY <2>1, <2>3
<1>10. \A k, l \in 1 .. n : k < l => Earlier(key, p[k], p[l])
  <2> TAKE k, l \in 1 .. n
  <2> HAVE k < l
  <2>1. p[k] \in I /\ p[l] \in I /\ Cardinality(B(p[k])) = k - 1 /\ Cardinality(B(p[l])) = l - 1
    BY <1>8
  <2>2. ~ (Cardinality(B(p[l])) <= Cardinality(B(p[k])))
    BY <1>1, <2>1
  <2>3. p[k] # p[l]
    BY <1>1, <2>1
  <2>4. ~ Earlier(key, p[l], p[k])
    <3>1. ASSUME Earlier(key, p[l], p[k]) PROVE FALSE
      <4>1. Cardinality(B(p[l])) < Cardinality(B(p[k]))
        BY <1>3, <2>1, <3>1
      <4> QED BY <1>1, <2>1, <4>1
    <3> QED BY <3>1
  <2> QED BY <1>4, <2>1, <2>3, <2>4
<1>11. Sorting(p, I, key)
  BY <1>0, <1>9, <1>10 DEF Sorting
<1>12. ASSUME NEW s PROVE InOrder(s, I, key) = [k \in 1 .. Cardinality(I) |-> s[p[k]]]
  BY DEF InOrder, B, p
<1> QED BY <1>11, <1>12 DEF Lists

\* A sequence sorted by start is a list of the same members, in that order.
Rearranged(t, s, p, key) ==
  /\ Sorting(p, DOMAIN s, key)
  /\ t = [k \in 1 .. Len(s) |-> s[p[k]]]

\* ByStart has what the list has, in the order of their starts.
LEMMA ByStartSorts ==
  ASSUME NEW S, NEW s \in Seq(S), \A i \in 1 .. Len(s) : s[i].start \in Nat
  PROVE  /\ ByStart(s) \in Seq(S)
         /\ Len(ByStart(s)) = Len(s)
         /\ \A k \in 1 .. Len(s) : \E i \in 1 .. Len(s) : ByStart(s)[k] = s[i]
         /\ \A i \in 1 .. Len(s) : \E k \in 1 .. Len(s) : ByStart(s)[k] = s[i]
         /\ \A k, l \in 1 .. Len(s) : k < l => ByStart(s)[k].start <= ByStart(s)[l].start
<1> DEFINE n == Len(s)
           key == [i \in 1 .. n |-> s[i].start]
<1>0. n \in Nat /\ DOMAIN s = 1 .. n
  OBVIOUS
<1>1. n \in Nat /\ DOMAIN s = 1 .. n /\ IsFiniteSet(1 .. n) /\ Cardinality(1 .. n) = n
  <2> HIDE DEF n
  <2> QED BY <1>0, FS_Interval
<1>2. \A i \in 1 .. n : key[i] \in Nat
  OBVIOUS
<1>3. PICK p : Sorting(p, 1 .. n, key) /\ InOrder(s, 1 .. n, key) = [k \in 1 .. n |-> s[p[k]]]
  <2> HIDE DEF key, n
  <2>1. Keyed(1 .. n, key)
    BY <1>1, <1>2 DEF Keyed
  <2>2. PICK p : Lists(p, 1 .. n, key)
    BY <2>1, InOrderSorts
  <2>3. /\ Sorting(p, 1 .. n, key)
        /\ \A z : InOrder(z, 1 .. n, key) = [k \in 1 .. Cardinality(1 .. n) |-> z[p[k]]]
    BY <2>2 DEF Lists
  <2>4. InOrder(s, 1 .. n, key) = [k \in 1 .. Cardinality(1 .. n) |-> s[p[k]]]
    BY <2>3
  <2>5. Cardinality(1 .. n) = n
    BY <1>1
  <2>6. InOrder(s, 1 .. n, key) = [k \in 1 .. n |-> s[p[k]]]
    BY <2>4, <2>5
  <2> QED BY <2>3, <2>6
<1>4. ByStart(s) = [k \in 1 .. n |-> s[p[k]]]
  BY <1>1, <1>3 DEF ByStart
<1>5. /\ p \in [1 .. n -> 1 .. n]
      /\ \A i \in 1 .. n : \E k \in 1 .. n : p[k] = i
      /\ \A k, l \in 1 .. n : k < l => Earlier(key, p[k], p[l])
  BY <1>1, <1>3 DEF Sorting
<1>6. \A k \in 1 .. n : p[k] \in 1 .. n /\ s[p[k]] \in S
  BY <1>1, <1>5
<1>7. ByStart(s) \in Seq(S) /\ Len(ByStart(s)) = n
  BY <1>1, <1>4, <1>6
<1>8. \A k, l \in 1 .. n : k < l => s[p[k]].start <= s[p[l]].start
  <2> TAKE k, l \in 1 .. n
  <2> HAVE k < l
  <2>1. Earlier(key, p[k], p[l])
    BY <1>5
  <2>2. p[k] \in 1 .. n /\ p[l] \in 1 .. n
    BY <1>6
  <2>3. key[p[k]] = s[p[k]].start /\ key[p[l]] = s[p[l]].start
    BY <2>2
  <2> HIDE DEF key, n
  <2>4. key[p[k]] \in Nat /\ key[p[l]] \in Nat
    BY <1>2, <2>2
  <2>5. key[p[k]] <= key[p[l]]
    BY <2>1, <2>4 DEF Earlier
  <2> QED BY <2>3, <2>5
<1>9. \A k \in 1 .. n : \E i \in 1 .. n : ByStart(s)[k] = s[i]
  BY <1>4, <1>6
<1>10. \A i \in 1 .. n : \E k \in 1 .. n : ByStart(s)[k] = s[i]
  <2> TAKE i \in 1 .. n
  <2>1. PICK k \in 1 .. n : p[k] = i
    BY <1>5
  <2> QED BY <1>4, <2>1
<1>11. \A k, l \in 1 .. n : k < l => ByStart(s)[k].start <= ByStart(s)[l].start
  BY <1>4, <1>8
<1> QED BY <1>7, <1>9, <1>10, <1>11

\* t lists what s has at the places I, in order: p says where each comes from.
Chosen(p, t, s, I) ==
  /\ DOMAIN t = 1 .. Cardinality(I) /\ Len(t) = Cardinality(I) /\ Cardinality(I) \in Nat
  /\ p \in [1 .. Cardinality(I) -> I]
  /\ \A k \in 1 .. Cardinality(I) : t[k] = s[p[k]]
  /\ \A i \in I : \E k \in 1 .. Cardinality(I) : p[k] = i
  /\ \A k, l \in 1 .. Cardinality(I) : k < l => p[k] < p[l]

\* The chosen members of a sequence, in the order they had.
LEMMA ThoseInOrder ==
  ASSUME NEW S, NEW s \in Seq(S), NEW I, I \subseteq 1 .. Len(s)
  PROVE  /\ Those(s, I) \in Seq(S)
         /\ \E p : Chosen(p, Those(s, I), s, I)
<1> DEFINE n == Cardinality(I)
           key == [i \in I |-> i]
<1>1. IsFiniteSet(I) /\ n \in Nat /\ I \subseteq Nat
  <2>1. IsFiniteSet(1 .. Len(s))
    BY FS_Interval
  <2>2. IsFiniteSet(I)
    BY <2>1, FS_Subset
  <2> QED BY <2>2, FS_CardinalityType
<1>2. \A i \in I : key[i] \in Nat /\ key[i] = i
  BY <1>1
<1>3. PICK p : Sorting(p, I, key) /\ InOrder(s, I, key) = [k \in 1 .. n |-> s[p[k]]]
  <2> HIDE DEF key
  <2>1. Keyed(I, key)
    BY <1>1, <1>2 DEF Keyed
  <2>2. PICK p : Lists(p, I, key)
    BY <2>1, InOrderSorts
  <2> QED BY <2>2 DEF Lists
<1>4. Those(s, I) = [k \in 1 .. n |-> s[p[k]]]
  BY <1>1, <1>3 DEF Those
<1>5. /\ p \in [1 .. n -> I]
      /\ \A i \in I : \E k \in 1 .. n : p[k] = i
      /\ \A k, l \in 1 .. n : k < l => Earlier(key, p[k], p[l])
  BY <1>1, <1>3 DEF Sorting
<1>6. \A k \in 1 .. n : p[k] \in I /\ s[p[k]] \in S
  <2>1. \A i \in I : s[i] \in S
    OBVIOUS
  <2> QED BY <1>5, <2>1
<1>7. Those(s, I) \in Seq(S) /\ Len(Those(s, I)) = n
  BY <1>1, <1>4, <1>6
<1>8. \A k, l \in 1 .. n : k < l => p[k] < p[l]
  BY <1>1, <1>2, <1>5, <1>6 DEF Earlier
<1>9. Chosen(p, Those(s, I), s, I)
  BY <1>1, <1>4, <1>5, <1>7, <1>8 DEF Chosen
<1> QED BY <1>7, <1>9

\* A sequence and another have the members of both.
LEMMA JoinedSets ==
  ASSUME NEW S, NEW s \in Seq(S), NEW t \in Seq(S)
  PROVE  s \o t \in Seq(S) /\ ToSet(s \o t) = ToSet(s) \cup ToSet(t)
<1>1. /\ s \o t \in Seq(S) /\ DOMAIN s = 1 .. Len(s) /\ DOMAIN t = 1 .. Len(t)
      /\ DOMAIN (s \o t) = 1 .. Len(s) + Len(t) /\ Len(s) \in Nat /\ Len(t) \in Nat
  OBVIOUS
<1>2. ASSUME NEW x \in ToSet(s \o t) PROVE x \in ToSet(s) \cup ToSet(t)
  <2>1. PICK i \in 1 .. Len(s) + Len(t) : x = (s \o t)[i]
    BY <1>1 DEF ToSet
  <2>2. CASE i <= Len(s)
    BY <1>1, <2>1, <2>2 DEF ToSet
  <2>3. CASE i > Len(s)
    <3>1. i - Len(s) \in 1 .. Len(t) /\ x = t[i - Len(s)]
      BY <1>1, <2>1, <2>3
    <3> QED BY <1>1, <3>1 DEF ToSet
  <2> QED BY <1>1, <2>2, <2>3
<1>3. ASSUME NEW x \in ToSet(s) PROVE x \in ToSet(s \o t)
  <2>1. PICK i \in 1 .. Len(s) : x = s[i]
    BY <1>1 DEF ToSet
  <2>2. i \in 1 .. Len(s) + Len(t) /\ (s \o t)[i] = x
    BY <1>1, <2>1
  <2> QED BY <1>1, <2>2 DEF ToSet
<1>4. ASSUME NEW x \in ToSet(t) PROVE x \in ToSet(s \o t)
  <2>1. PICK i \in 1 .. Len(t) : x = t[i]
    BY <1>1 DEF ToSet
  <2>2. Len(s) + i \in 1 .. Len(s) + Len(t) /\ (s \o t)[Len(s) + i] = x
    BY <1>1, <2>1
  <2> QED BY <1>1, <2>2 DEF ToSet
<1> QED BY <1>1, <1>2, <1>3, <1>4

\* What a sequence of sequences comes to has their members and no others.
LEMMA Flattened ==
  ASSUME NEW S, NEW ss \in Seq(Seq(S))
  PROVE  /\ FlattenSeq(ss) \in Seq(S)
         /\ \A x : x \in ToSet(FlattenSeq(ss)) <=> \E i \in 1 .. Len(ss) : x \in ToSet(ss[i])
<1> DEFINE n == Len(ss)
           Body(f) == [i \in 1 .. n |-> IF i = 1 THEN ss[i] ELSE f[i - 1] \o ss[i]]
           f == CHOOSE g : g = Body(g)
           op == [k \in 1 .. n |-> [t \in Seq(S) |-> IF k = 1 THEN ss[k] ELSE t \o ss[k]]]
<1>1. n \in Nat /\ (\A i \in 1 .. n : ss[i] \in Seq(S)) /\ <<>> \in Seq(S)
  OBVIOUS
<1>2. CASE n = 0
  <2>1. FlattenSeq(ss) = ss /\ ss = <<>>
    BY <1>2 DEF FlattenSeq
  <2> QED BY <1>1, <1>2, <2>1 DEF ToSet
<1>3. CASE n # 0
  <2>1. FlattenSeq(ss) = f[n]
    BY <1>3 DEF FlattenSeq
  <2>2. Steps(op, n, Seq(S))
    <3>1. \A k \in 1 .. n, t \in Seq(S) : (IF k = 1 THEN ss[k] ELSE t \o ss[k]) \in Seq(S)
      BY <1>1
    <3> QED BY <3>1 DEF Steps
  <2>3. PICK g \in [0 .. n -> Seq(S)] : g[0] = <<>> /\ \A k \in 1 .. n : g[k] = op[k][g[k - 1]]
    <3> HIDE DEF op, n
    <3>1. PICK g : Iterates(g, op, <<>>, n, Seq(S))
      BY <1>1, <2>2, IterationExists
    <3> QED BY <3>1 DEF Iterates
  <2> DEFINE h == [k \in 1 .. n |-> g[k]]
  <2>4. h = Body(h)
    <3>1. ASSUME NEW k \in 1 .. n PROVE g[k] = IF k = 1 THEN ss[k] ELSE h[k - 1] \o ss[k]
      <4>1. k - 1 \in 0 .. n /\ g[k - 1] \in Seq(S)
        <5> HIDE DEF n, op
        <5> QED BY <1>1, <2>3
      <4>2. k # 1 => h[k - 1] = g[k - 1]
        BY <1>1
      <4>3. g[k] = IF k = 1 THEN ss[k] ELSE g[k - 1] \o ss[k]
        BY <2>3, <4>1
      <4> QED BY <4>2, <4>3
    <3> QED BY <3>1
  <2>5. f = Body(f)
    <3> HIDE DEF Body, h
    <3> QED BY <2>4
  <2>6. \A i \in 1 .. n : f[i] = IF i = 1 THEN ss[i] ELSE f[i - 1] \o ss[i]
    BY <2>5
  <2> HIDE DEF f
  <2> DEFINE Good(k) == f[k] \in Seq(S) /\ \A x : x \in ToSet(f[k]) <=> \E i \in 1 .. k : x \in ToSet(ss[i])
             G == {k \in 0 .. n : k = 0 \/ Good(k)}
  <2>7. ASSUME NEW k \in 1 .. n, k - 1 \in G PROVE k \in G
    <3>1. CASE k = 1
      <4>1. f[k] = ss[1] /\ 1 .. k = {1} /\ ss[1] \in Seq(S)
        BY <1>1, <2>6, <3>1
      <4>2. \A x : (\E i \in 1 .. k : x \in ToSet(ss[i])) <=> x \in ToSet(ss[1])
        BY <4>1
      <4>3. Good(k)
        BY <4>1, <4>2
      <4> HIDE DEF n, Good
      <4> QED BY <4>3
    <3>2. CASE k # 1
      <4>1. f[k - 1] \in Seq(S) /\ \A x : x \in ToSet(f[k - 1]) <=> \E i \in 1 .. k - 1 : x \in ToSet(ss[i])
        BY <2>7, <3>2
      <4>2. f[k] = f[k - 1] \o ss[k] /\ ss[k] \in Seq(S)
        BY <1>1, <2>6, <3>2
      <4>3. f[k] \in Seq(S) /\ ToSet(f[k]) = ToSet(f[k - 1]) \cup ToSet(ss[k])
        BY <4>1, <4>2, JoinedSets
      <4>4. 1 .. k = (1 .. k - 1) \cup {k}
        OBVIOUS
      <4>5. \A x : (\E i \in 1 .. k : x \in ToSet(ss[i])) <=>
                   (\E i \in 1 .. k - 1 : x \in ToSet(ss[i])) \/ x \in ToSet(ss[k])
        BY <4>4
      <4> HIDE DEF n
      <4> QED BY <4>1, <4>3, <4>5
    <3> QED BY <3>1, <3>2
  <2>8. n \in G
    <3>1. 0 \in G
      BY <1>1
    <3> HIDE DEF G
    <3>2. \A k \in 0 .. n : k \in G
      BY <1>1, <2>7, <3>1, CountUp
    <3> QED BY <1>1, <3>2
  <2>9. Good(n)
    BY <1>3, <2>8
  <2> QED BY <2>1, <2>9
<1> QED BY <1>2, <1>3
-----------------------------------------------------------------------------
(* Folds over sets.                                                          *)

\* Those of a sequence of spans that are not empty.
LEMMA NonemptyKeeps ==
  ASSUME NEW S, NEW s \in Seq(S)
  PROVE  /\ Nonempty(s) \in Seq(S)
         /\ \A x : x \in ToSet(Nonempty(s)) <=> x \in ToSet(s) /\ x.start < x.end
<1> DEFINE I == {i \in DOMAIN s : s[i].start < s[i].end}
<1>1. I \subseteq 1 .. Len(s) /\ DOMAIN s = 1 .. Len(s) /\ Nonempty(s) = Those(s, I)
  BY DEF Nonempty
<1>2. Those(s, I) \in Seq(S) /\ \E p : Chosen(p, Those(s, I), s, I)
  <2> HIDE DEF I
  <2> QED BY <1>1, ThoseInOrder
<1>3. PICK p : Chosen(p, Those(s, I), s, I)
  BY <1>2
<1> USE <1>3 DEF Chosen
<1>4. ASSUME NEW x, x \in ToSet(Those(s, I)) PROVE x \in ToSet(s) /\ x.start < x.end
  <2>1. PICK k \in 1 .. Cardinality(I) : x = Those(s, I)[k]
    BY <1>3, <1>4 DEF ToSet
  <2>2. p[k] \in I /\ x = s[p[k]]
    BY <1>2, <2>1
  <2> QED BY <2>2 DEF ToSet
<1>5. ASSUME NEW x, x \in ToSet(s), x.start < x.end PROVE x \in ToSet(Those(s, I))
  <2>1. PICK i \in DOMAIN s : x = s[i]
    BY <1>5 DEF ToSet
  <2>2. i \in I
    BY <1>5, <2>1
  <2>3. PICK k \in 1 .. Cardinality(I) : p[k] = i
    BY <1>2, <2>2
  <2>4. Those(s, I)[k] = x
    BY <1>2, <2>1, <2>3
  <2> QED BY <1>3, <2>4 DEF ToSet
<1> QED BY <1>1, <1>2, <1>4, <1>5

\* What holds of {}, and of a set when it holds of what is left of it, holds of all.
LEMMA SubsetsUp ==
  ASSUME NEW W, IsFiniteSet(W), NEW G, {} \in G,
         \A s \in SUBSET W : s # {} /\ s \ {CHOOSE x \in s : TRUE} \in G => s \in G
  PROVE  \A s \in SUBSET W : s \in G
<1> DEFINE B == {s \in SUBSET W : s \notin G}
<1> SUFFICES ASSUME B # {} PROVE FALSE
  OBVIOUS
<1>1. PICK s \in B : \A u \in B : u \subseteq s => u = s
  <2>1. B \in SUBSET (SUBSET W)
    OBVIOUS
  <2> HIDE DEF B
  <2> QED BY <2>1, SmallestSubset
<1>2. s \in SUBSET W /\ s # {}
  OBVIOUS
<1>3. (CHOOSE x \in s : TRUE) \in s
  BY <1>2
<1> DEFINE u == s \ {CHOOSE x \in s : TRUE}
<1>4. u \in SUBSET W /\ u \subseteq s /\ u # s
  BY <1>2, <1>3
<1>5. u \in G
  BY <1>1, <1>4
<1> QED BY <1>2, <1>5

\* op has a step for each member, and g takes the members of a set in some order.
Takes(op, W, T) == op \in [W -> [T -> T]]
Empties(g, op, b, W, T) ==
  /\ g \in [SUBSET W -> T]
  /\ \A s \in SUBSET W :
       g[s] = IF s = {} THEN b ELSE op[CHOOSE x \in s : TRUE][g[s \ {CHOOSE x \in s : TRUE}]]

\* There is a function that empties every subset.
LEMMA EmptiesExists ==
  ASSUME NEW W, IsFiniteSet(W), NEW T, NEW b \in T, NEW op, Takes(op, W, T)
  PROVE  \E g : Empties(g, op, b, W, T)
<1> DEFINE x(s) == CHOOSE x \in s : TRUE
           Does(g, s) == g[s] = IF s = {} THEN b ELSE op[x(s)][g[s \ {x(s)}]]
           Good(k) == \E g \in [SUBSET W -> T] : \A s \in SUBSET W : Cardinality(s) <= k => Does(g, s)
           n == Cardinality(W)
           G == {k \in 0 .. n : Good(k)}
<1>0. op \in [W -> [T -> T]]
  BY DEF Takes
<1>1. \A s \in SUBSET W : IsFiniteSet(s) /\ Cardinality(s) \in Nat /\ Cardinality(s) <= n
  BY FS_Subset, FS_CardinalityType
<1>2. \A s \in SUBSET W : s # {} =>
        x(s) \in s /\ s \ {x(s)} \in SUBSET W /\ Cardinality(s \ {x(s)}) = Cardinality(s) - 1
  BY <1>1, FS_RemoveElement
<1>3. n \in Nat
  BY FS_CardinalityType
<1>4. 0 \in G
  <2> DEFINE g == [s \in SUBSET W |-> b]
  <2>1. g \in [SUBSET W -> T]
    OBVIOUS
  <2>2. ASSUME NEW s \in SUBSET W, Cardinality(s) <= 0 PROVE Does(g, s)
    <3>1. s = {}
      BY <1>1, <2>2, FS_EmptySet
    <3> QED BY <3>1
  <2> HIDE DEF g, Does
  <2>3. Good(0)
    BY <2>1, <2>2
  <2> HIDE DEF Good
  <2> QED BY <1>3, <2>3
<1>5. ASSUME NEW k \in 1 .. n, k - 1 \in G PROVE k \in G
  <2>1. PICK g \in [SUBSET W -> T] : \A s \in SUBSET W : Cardinality(s) <= k - 1 => Does(g, s)
    BY <1>5
  <2> DEFINE h == [s \in SUBSET W |-> IF s = {} THEN b ELSE op[x(s)][g[s \ {x(s)}]]]
  <2>2. h \in [SUBSET W -> T]
    <3> SUFFICES ASSUME NEW s \in SUBSET W
                 PROVE  (IF s = {} THEN b ELSE op[x(s)][g[s \ {x(s)}]]) \in T
      OBVIOUS
    <3>1. CASE s = {}
      BY <3>1
    <3>2. CASE s # {}
      <4>1. x(s) \in W /\ g[s \ {x(s)}] \in T
        BY <1>2, <3>2
      <4> HIDE DEF x
      <4> QED BY <1>0, <3>2, <4>1
    <3> QED BY <3>1, <3>2
  <2>3. \A s \in SUBSET W : Cardinality(s) <= k - 1 => h[s] = g[s]
    BY <2>1
  <2>4. ASSUME NEW s \in SUBSET W, Cardinality(s) <= k PROVE Does(h, s)
    <3>1. CASE s = {}
      BY <3>1
    <3>2. CASE s # {}
      <4>1. s \ {x(s)} \in SUBSET W /\ Cardinality(s \ {x(s)}) <= k - 1
        BY <1>1, <1>2, <2>4, <3>2
      <4>2. h[s \ {x(s)}] = g[s \ {x(s)}]
        <5> HIDE DEF h, x
        <5> QED BY <2>3, <4>1
      <4>3. h[s] = op[x(s)][g[s \ {x(s)}]]
        BY <3>2
      <4> HIDE DEF h, x
      <4> QED BY <3>2, <4>2, <4>3
    <3> QED BY <3>1, <3>2
  <2> HIDE DEF h, Does
  <2>5. Good(k)
    BY <2>2, <2>4
  <2> HIDE DEF Good
  <2> QED BY <2>5
<1>6. n \in G
  <2> HIDE DEF G, n
  <2>1. \A k \in 0 .. n : k \in G
    BY <1>3, <1>4, <1>5, CountUp
  <2> QED BY <1>3, <2>1
<1> QED BY <1>1, <1>6 DEF Empties
-----------------------------------------------------------------------------
(* What walls leave of a span.                                               *)

SpanT == [start : Nat, end : Nat]
RealSpans(W) == W \subseteq SpanT /\ \A w \in W : w.start < w.end

\* ps are the parts of a span outside the walls W.
Carves(ps, span, W) ==
  /\ ps \in Seq(SpanT)
  /\ \A p \in ToSet(ps) :
       /\ span.start <= p.start /\ p.start < p.end /\ p.end <= span.end
       /\ \A w \in W : p.end <= w.start \/ w.end <= p.start
       /\ p.start = span.start \/ \E w \in W : w.end = p.start
       /\ p.end = span.end \/ \E w \in W : w.start = p.end
  /\ \A t \in Nat : span.start <= t /\ t < span.end /\ (\A w \in W : ~ (w.start <= t /\ t < w.end))
                    => \E p \in ToSet(ps) : p.start <= t /\ t < p.end

\* What one wall leaves of parts.
LeftOf(s, w) == [s EXCEPT !.end = Lesser(@, w.start)]
RightOf(s, w) == [s EXCEPT !.start = Larger(@, w.end)]
CutAt(w, ps) == Nonempty(FlattenSeq([i \in DOMAIN ps |-> <<LeftOf(ps[i], w), RightOf(ps[i], w)>>]))

\* What one wall leaves of one part: the side before and the side after.
LEMMA SidesAre ==
  ASSUME NEW s \in SpanT, NEW w \in SpanT
  PROVE  /\ LeftOf(s, w) \in SpanT /\ RightOf(s, w) \in SpanT
         /\ LeftOf(s, w).start = s.start /\ RightOf(s, w).end = s.end
         /\ LeftOf(s, w).end = IF s.end < w.start THEN s.end ELSE w.start
         /\ RightOf(s, w).start = IF s.start > w.end THEN s.start ELSE w.end
BY DEF LeftOf, RightOf, Lesser, Larger, SpanT

\* What one wall leaves of a list of parts.
LEMMA CutAtDoes ==
  ASSUME NEW ps \in Seq(SpanT), NEW w \in SpanT
  PROVE  /\ CutAt(w, ps) \in Seq(SpanT)
         /\ \A x : x \in ToSet(CutAt(w, ps)) <=>
              x.start < x.end /\ \E p \in ToSet(ps) : x = LeftOf(p, w) \/ x = RightOf(p, w)
<1> DEFINE ss == [i \in DOMAIN ps |-> <<LeftOf(ps[i], w), RightOf(ps[i], w)>>]
<1>1. DOMAIN ps = 1 .. Len(ps) /\ \A i \in 1 .. Len(ps) : ps[i] \in SpanT
  OBVIOUS
<1>2. \A i \in 1 .. Len(ps) : LeftOf(ps[i], w) \in SpanT /\ RightOf(ps[i], w) \in SpanT
  BY <1>1, SidesAre
<1>3. ss \in Seq(Seq(SpanT)) /\ Len(ss) = Len(ps)
  <2>1. \A i \in 1 .. Len(ps) : ss[i] \in Seq(SpanT)
    BY <1>1, <1>2
  <2> QED BY <1>1, <2>1
<1>4. /\ FlattenSeq(ss) \in Seq(SpanT)
      /\ \A x : x \in ToSet(FlattenSeq(ss)) <=> \E i \in 1 .. Len(ps) : x \in ToSet(ss[i])
  <2> HIDE DEF ss
  <2> QED BY <1>3, Flattened
<1>5. \A i \in 1 .. Len(ps) : ToSet(ss[i]) = {LeftOf(ps[i], w), RightOf(ps[i], w)}
  <2> TAKE i \in 1 .. Len(ps)
  <2>1. ss[i] = <<LeftOf(ps[i], w), RightOf(ps[i], w)>>
    BY <1>1
  <2>2. \A a, b : ToSet(<<a, b>>) = {a, b}
    BY DEF ToSet
  <2> HIDE DEF ss
  <2> QED BY <2>1, <2>2
<1>6. \A x : x \in ToSet(FlattenSeq(ss)) <=> \E p \in ToSet(ps) : x = LeftOf(p, w) \/ x = RightOf(p, w)
  <2>1. \A p : p \in ToSet(ps) <=> \E i \in 1 .. Len(ps) : p = ps[i]
    BY <1>1 DEF ToSet
  <2> HIDE DEF ss
  <2>2. \A x : x \in ToSet(FlattenSeq(ss)) <=> \E i \in 1 .. Len(ps) : x = LeftOf(ps[i], w) \/ x = RightOf(ps[i], w)
    <3>1. ASSUME NEW x, NEW i \in 1 .. Len(ps)
          PROVE  x \in ToSet(ss[i]) <=> x = LeftOf(ps[i], w) \/ x = RightOf(ps[i], w)
      <4>1. ToSet(ss[i]) = {LeftOf(ps[i], w), RightOf(ps[i], w)}
        BY <1>5
      <4> QED BY <4>1
    <3>2. ASSUME NEW x PROVE x \in ToSet(FlattenSeq(ss)) <=> \E i \in 1 .. Len(ps) : x \in ToSet(ss[i])
      BY <1>4
    <3> QED BY <3>1, <3>2
  <2> QED BY <2>1, <2>2
<1>7. CutAt(w, ps) = Nonempty(FlattenSeq(ss))
  BY DEF CutAt
<1> HIDE DEF ss
<1> QED BY <1>4, <1>6, <1>7, NonemptyKeeps

\* Parts outside some walls, cut at one more, are the parts outside all of them.
LEMMA CutAtCarves ==
  ASSUME NEW span \in SpanT, NEW W, RealSpans(W), NEW w \in SpanT, w.start < w.end,
         NEW ps, Carves(ps, span, W)
  PROVE  Carves(CutAt(w, ps), span, W \cup {w})
<1>1. /\ ps \in Seq(SpanT)
      /\ \A p \in ToSet(ps) : p \in SpanT
      /\ \A x : x \in ToSet(CutAt(w, ps)) <=>
              x.start < x.end /\ \E p \in ToSet(ps) : x = LeftOf(p, w) \/ x = RightOf(p, w)
      /\ CutAt(w, ps) \in Seq(SpanT)
  <2>1. ps \in Seq(SpanT)
    BY DEF Carves
  <2>2. \A p \in ToSet(ps) : p \in SpanT
    BY <2>1 DEF ToSet
  <2> QED BY <2>1, <2>2, CutAtDoes
<1>2. \A u \in W \cup {w} : u \in SpanT /\ u.start \in Nat /\ u.end \in Nat /\ u.start < u.end
  BY DEF RealSpans, SpanT
<1>3. ASSUME NEW x \in ToSet(CutAt(w, ps))
      PROVE  /\ span.start <= x.start /\ x.start < x.end /\ x.end <= span.end
             /\ \A u \in W \cup {w} : x.end <= u.start \/ u.end <= x.start
             /\ x.start = span.start \/ \E u \in W \cup {w} : u.end = x.start
             /\ x.end = span.end \/ \E u \in W \cup {w} : u.start = x.end
  <2>1. PICK p \in ToSet(ps) : x.start < x.end /\ (x = LeftOf(p, w) \/ x = RightOf(p, w))
    BY <1>1
  <2>2. /\ p \in SpanT
        /\ span.start <= p.start /\ p.start < p.end /\ p.end <= span.end
        /\ \A u \in W : p.end <= u.start \/ u.end <= p.start
        /\ p.start = span.start \/ \E u \in W : u.end = p.start
        /\ p.end = span.end \/ \E u \in W : u.start = p.end
    BY <1>1 DEF Carves
  <2>3. /\ p.start \in Nat /\ p.end \in Nat /\ w.start \in Nat /\ w.end \in Nat
        /\ span.start \in Nat /\ span.end \in Nat
    BY <2>2 DEF SpanT
  <2>4. \/ /\ x.start = p.start /\ x.end <= p.end /\ x.end <= w.start
           /\ x.end = p.end \/ x.end = w.start
        \/ /\ x.end = p.end /\ p.start <= x.start /\ w.end <= x.start
           /\ x.start = p.start \/ x.start = w.end
    BY <2>1, <2>2, <2>3, SidesAre
  <2>5. x.start \in Nat /\ x.end \in Nat
    BY <2>3, <2>4
  <2>6. \A u \in W \cup {w} : x.end <= u.start \/ u.end <= x.start
    <3> TAKE u \in W \cup {w}
    <3>1. CASE u = w
      BY <2>4, <3>1
    <3>2. CASE u \in W
      <4>1. p.end <= u.start \/ u.end <= p.start
        BY <2>2, <3>2
      <4> QED BY <1>2, <2>3, <2>4, <2>5, <4>1
    <3> QED BY <3>1, <3>2
  <2>7. span.start <= x.start /\ x.start < x.end /\ x.end <= span.end
    BY <2>1, <2>2, <2>3, <2>4, <2>5
  <2>8. /\ x.start = span.start \/ \E u \in W \cup {w} : u.end = x.start
        /\ x.end = span.end \/ \E u \in W \cup {w} : u.start = x.end
    BY <2>2, <2>4
  <2> QED BY <2>6, <2>7, <2>8
<1>4. ASSUME NEW t \in Nat, span.start <= t /\ t < span.end,
             \A u \in W \cup {w} : ~ (u.start <= t /\ t < u.end)
      PROVE  \E x \in ToSet(CutAt(w, ps)) : x.start <= t /\ t < x.end
  <2>1. PICK p \in ToSet(ps) : p.start <= t /\ t < p.end
    BY <1>4 DEF Carves
  <2>2. p \in SpanT /\ p.start \in Nat /\ p.end \in Nat /\ w.start \in Nat /\ w.end \in Nat
    BY <1>1 DEF SpanT
  <2>3. t < w.start \/ w.end <= t
    BY <1>4, <2>2
  <2>4. CASE t < w.start
    <3>1. LeftOf(p, w).start <= t /\ t < LeftOf(p, w).end
      BY <2>1, <2>2, <2>4, SidesAre
    <3>2. LeftOf(p, w).start \in Nat /\ LeftOf(p, w).end \in Nat
      BY <2>2, SidesAre DEF SpanT
    <3>3. LeftOf(p, w) \in ToSet(CutAt(w, ps))
      BY <1>1, <2>1, <3>1, <3>2
    <3> QED BY <3>1, <3>3
  <2>5. CASE w.end <= t
    <3>1. RightOf(p, w).start <= t /\ t < RightOf(p, w).end
      BY <2>1, <2>2, <2>5, SidesAre
    <3>2. RightOf(p, w).start \in Nat /\ RightOf(p, w).end \in Nat
      BY <2>2, SidesAre DEF SpanT
    <3>3. RightOf(p, w) \in ToSet(CutAt(w, ps))
      BY <1>1, <2>1, <3>1, <3>2
    <3> QED BY <3>1, <3>3
  <2> QED BY <2>3, <2>4, <2>5
<1> QED BY <1>1, <1>3, <1>4 DEF Carves

\* subtract_spans, wall by wall in any order, gives the parts outside them all.
LEMMA PiecesCarve ==
  ASSUME NEW span, span.start \in Nat, span.end \in Nat, span.start < span.end,
         NEW W, IsFiniteSet(W), RealSpans(W)
  PROVE  Carves(Pieces(span, W), span, W)
<1> DEFINE T == Seq(SpanT)
           b == <<[start |-> span.start, end |-> span.end]>>
           x(s) == CHOOSE w \in s : TRUE
           Body(g) == [s \in SUBSET W |-> IF s = {} THEN b ELSE CutAt(x(s), g[s \ {x(s)}])]
           f == CHOOSE g : g = Body(g)
           op == [w \in W |-> [ps \in T |-> CutAt(w, ps)]]
<1>1. Pieces(span, W) = f[W]
  BY DEF Pieces, FoldSet, MapThenFoldSet, CutAt, LeftOf, RightOf
<1>2. Takes(op, W, T)
  <2>1. \A w \in W, ps \in T : CutAt(w, ps) \in T
    BY CutAtDoes DEF RealSpans
  <2> HIDE DEF T
  <2> QED BY <2>1 DEF Takes
<1>3. b \in T
  BY DEF SpanT
<1>4. PICK g : Empties(g, op, b, W, T)
  <2> HIDE DEF T, b, op
  <2> QED BY <1>2, <1>3, EmptiesExists
<1>5. g = Body(g)
  <2>1. ASSUME NEW s \in SUBSET W PROVE g[s] = IF s = {} THEN b ELSE CutAt(x(s), g[s \ {x(s)}])
    <3>1. g[s] = IF s = {} THEN b ELSE op[x(s)][g[s \ {x(s)}]]
      BY <1>4 DEF Empties
    <3>2. s # {} => x(s) \in W /\ g[s \ {x(s)}] \in T
      BY <1>4 DEF Empties
    <3>3. s # {} => op[x(s)][g[s \ {x(s)}]] = CutAt(x(s), g[s \ {x(s)}])
      <4> HIDE DEF x, T
      <4> QED BY <3>2
    <3> QED BY <3>1, <3>3
  <2>2. g = [s \in SUBSET W |-> g[s]]
    BY <1>4 DEF Empties
  <2> HIDE DEF x, b
  <2> QED BY <2>1, <2>2
<1>6. f = Body(f)
  <2> HIDE DEF Body
  <2> QED BY <1>5
<1> HIDE DEF f
<1>7. \A s \in SUBSET W : f[s] = IF s = {} THEN b ELSE CutAt(x(s), f[s \ {x(s)}])
  <2> HIDE DEF x, b
  <2> QED BY <1>6
<1> DEFINE G == {s \in SUBSET W : Carves(f[s], span, s)}
<1>8. {} \in G
  <2>1. f[{}] = b
    BY <1>7
  <2>2. ToSet(b) = {[start |-> span.start, end |-> span.end]}
    BY DEF ToSet
  <2>3. Carves(b, span, {})
    <3> HIDE DEF b
    <3> QED BY <1>3, <2>2 DEF Carves
  <2> HIDE DEF b
  <2> QED BY <2>1, <2>3
<1>9. ASSUME NEW s \in SUBSET W, s # {}, s \ {x(s)} \in G PROVE s \in G
  <2>1. x(s) \in s /\ f[s] = CutAt(x(s), f[s \ {x(s)}])
    BY <1>7, <1>9
  <2>2. Carves(f[s \ {x(s)}], span, s \ {x(s)})
    BY <1>9
  <2> HIDE DEF x
  <2>3. x(s) \in SpanT /\ x(s).start < x(s).end /\ RealSpans(s \ {x(s)})
    BY <2>1 DEF RealSpans
  <2>4. (s \ {x(s)}) \cup {x(s)} = s
    BY <2>1
  <2> DEFINE sp == [start |-> span.start, end |-> span.end]
  <2>5. sp \in SpanT /\ sp.start = span.start /\ sp.end = span.end
    BY DEF SpanT
  <2>6. \A ps, V : Carves(ps, span, V) <=> Carves(ps, sp, V)
    BY <2>5 DEF Carves
  <2> HIDE DEF sp
  <2>7. Carves(CutAt(x(s), f[s \ {x(s)}]), sp, (s \ {x(s)}) \cup {x(s)})
    BY <2>2, <2>3, <2>5, <2>6, CutAtCarves
  <2> QED BY <2>1, <2>4, <2>6, <2>7
<1>10. W \in G
  <2> HIDE DEF G
  <2> QED BY <1>8, <1>9, SubsetsUp
<1> QED BY <1>1, <1>10
-----------------------------------------------------------------------------
(* What the end of the audio and the walls leave of the requests.            *)

AdT == [start : Nat, end : Nat, beep : BOOLEAN, trusted : BOOLEAN, confirmed : BOOLEAN,
        pins : SUBSET {"start", "end"}]

\* x is what the walls and the end of the audio leave of some part of the request a.
PartOf(x, a, total, W) ==
  /\ x \in AdT
  /\ x.beep = a.beep /\ x.trusted = a.trusted /\ x.confirmed = a.confirmed
  /\ a.start <= x.start /\ x.start < x.end /\ x.end <= a.end /\ x.end <= total
  /\ \A w \in W : x.end <= w.start \/ w.end <= x.start
  /\ x.start = a.start \/ \E w \in W : w.end = x.start
  /\ x.end = a.end \/ x.end = total \/ \E w \in W : w.start = x.end
  /\ "start" \in x.pins <=> "start" \in a.pins /\ x.start = a.start
  /\ "end" \in x.pins <=> "end" \in a.pins /\ x.end = Lesser(a.end, total)

\* A piece of a request is a request, and keeps the pin of an edge it did not lose.
LEMMA PieceIs ==
  ASSUME NEW ad \in AdT, NEW p \in SpanT
  PROVE  /\ Piece(ad, p) \in AdT
         /\ Piece(ad, p).start = p.start /\ Piece(ad, p).end = p.end
         /\ Piece(ad, p).beep = ad.beep /\ Piece(ad, p).trusted = ad.trusted
         /\ Piece(ad, p).confirmed = ad.confirmed
         /\ "start" \in Piece(ad, p).pins <=> "start" \in ad.pins /\ p.start = ad.start
         /\ "end" \in Piece(ad, p).pins <=> "end" \in ad.pins /\ p.end = ad.end
<1>1. /\ Piece(ad, p) \in AdT
      /\ Piece(ad, p).start = p.start /\ Piece(ad, p).end = p.end
      /\ Piece(ad, p).beep = ad.beep /\ Piece(ad, p).trusted = ad.trusted
      /\ Piece(ad, p).confirmed = ad.confirmed
      /\ Piece(ad, p).pins = {e \in ad.pins : ad[e] = p[e]}
  BY DEF Piece, AdT, SpanT
<1>2. ad["start"] = ad.start /\ ad["end"] = ad.end /\ p["start"] = p.start /\ p["end"] = p.end
  BY DEF AdT, SpanT
<1> QED BY <1>1, <1>2

\* What the end of the audio leaves of the requests.
LEMMA ClippedAre ==
  ASSUME NEW ads \in Seq(AdT), NEW total \in Nat
  PROVE  /\ Clipped(ads, total) \in Seq(AdT)
         /\ \A x : x \in ToSet(Clipped(ads, total)) <=>
              x.start < x.end /\ \E a \in ToSet(ads) : x = [a EXCEPT !.end = Lesser(@, total)]
<1> DEFINE s == [i \in DOMAIN ads |-> [ads[i] EXCEPT !.end = Lesser(@, total)]]
<1>1. DOMAIN ads = 1 .. Len(ads) /\ \A i \in 1 .. Len(ads) : ads[i] \in AdT
  OBVIOUS
<1>2. \A a \in AdT : [a EXCEPT !.end = Lesser(@, total)] \in AdT
  BY DEF AdT, Lesser
<1>3. s \in Seq(AdT)
  BY <1>1, <1>2
<1>4. \A x : x \in ToSet(s) <=> \E a \in ToSet(ads) : x = [a EXCEPT !.end = Lesser(@, total)]
  BY <1>1 DEF ToSet
<1>5. Clipped(ads, total) = Nonempty(s)
  BY DEF Clipped
<1> HIDE DEF s
<1> QED BY <1>3, <1>4, <1>5, NonemptyKeeps

\* What the walls leave of the requests.
LEMMA CarvedAre ==
  ASSUME NEW ads \in Seq(AdT), \A a \in ToSet(ads) : a.start < a.end,
         NEW W, IsFiniteSet(W), RealSpans(W)
  PROVE  /\ Carved(ads, W) \in Seq(AdT)
         /\ \A x : x \in ToSet(Carved(ads, W)) <=>
              \E a \in ToSet(ads) : \E p \in ToSet(Pieces(a, W)) : x = Piece(a, p)
<1> DEFINE One(a) == [j \in DOMAIN Pieces(a, W) |-> Piece(a, Pieces(a, W)[j])]
           ss == [i \in DOMAIN ads |-> One(ads[i])]
<1>1. DOMAIN ads = 1 .. Len(ads) /\ \A i \in 1 .. Len(ads) : ads[i] \in AdT /\ ads[i] \in ToSet(ads)
  BY DEF ToSet
<1>2. ASSUME NEW a \in ToSet(ads)
      PROVE  /\ One(a) \in Seq(AdT)
             /\ \A x : x \in ToSet(One(a)) <=> \E p \in ToSet(Pieces(a, W)) : x = Piece(a, p)
  <2>1. a \in AdT /\ a.start \in Nat /\ a.end \in Nat /\ a.start < a.end
    BY <1>1 DEF ToSet, AdT
  <2>2. Carves(Pieces(a, W), a, W)
    BY <2>1, PiecesCarve
  <2> DEFINE ps == Pieces(a, W)
  <2>3. ps \in Seq(SpanT)
    BY <2>2 DEF Carves
  <2> HIDE DEF ps
  <2>4. DOMAIN ps = 1 .. Len(ps) /\ Len(ps) \in Nat /\ \A j \in 1 .. Len(ps) : Piece(a, ps[j]) \in AdT
    BY <2>1, <2>3, PieceIs
  <2>5. [j \in DOMAIN ps |-> Piece(a, ps[j])] \in Seq(AdT)
    BY <2>4
  <2>6. \A x : x \in ToSet([j \in DOMAIN ps |-> Piece(a, ps[j])]) <=> \E p \in ToSet(ps) : x = Piece(a, p)
    BY DEF ToSet
  <2> QED BY <2>5, <2>6 DEF ps
<1> HIDE DEF One
<1>3. ss \in Seq(Seq(AdT)) /\ Len(ss) = Len(ads)
  BY <1>1, <1>2
<1>4. /\ FlattenSeq(ss) \in Seq(AdT)
      /\ \A x : x \in ToSet(FlattenSeq(ss)) <=> \E i \in 1 .. Len(ads) : x \in ToSet(ss[i])
  <2> HIDE DEF ss
  <2> QED BY <1>3, Flattened
<1>5. \A i \in 1 .. Len(ads) : ss[i] = One(ads[i])
  BY <1>1
<1>6. Carved(ads, W) = FlattenSeq(ss)
  BY DEF Carved, One
<1> HIDE DEF ss
<1>7. ASSUME NEW x
      PROVE  (\E i \in 1 .. Len(ads) : x \in ToSet(ss[i])) <=>
             \E a \in ToSet(ads) : \E p \in ToSet(Pieces(a, W)) : x = Piece(a, p)
  <2>1. \A a : a \in ToSet(ads) <=> \E i \in 1 .. Len(ads) : a = ads[i]
    BY <1>1 DEF ToSet
  <2>2. (\E i \in 1 .. Len(ads) : x \in ToSet(ss[i])) <=> \E a \in ToSet(ads) : x \in ToSet(One(a))
    BY <1>5, <2>1
  <2> QED BY <1>2, <2>2
<1> QED BY <1>4, <1>6, <1>7

\* Clipping and carving leaves parts of the requests, and of each all that is inside
\* the audio and outside the walls.
LEMMA TrimmedAre ==
  ASSUME NEW ads \in Seq(AdT), NEW total \in Nat, NEW W, IsFiniteSet(W), RealSpans(W)
  PROVE  /\ Carved(Clipped(ads, total), W) \in Seq(AdT)
         /\ \A x \in ToSet(Carved(Clipped(ads, total), W)) :
              \E a \in ToSet(ads) : PartOf(x, a, total, W)
         /\ \A a \in ToSet(ads), t \in Nat :
              a.start <= t /\ t < a.end /\ t < total /\ (\A w \in W : ~ (w.start <= t /\ t < w.end))
              => \E x \in ToSet(Carved(Clipped(ads, total), W)) :
                   PartOf(x, a, total, W) /\ x.start <= t /\ t < x.end
<1> DEFINE cl == Clipped(ads, total)
           out == Carved(cl, W)
           C(a) == [a EXCEPT !.end = Lesser(@, total)]
<1>0. \A a \in ToSet(ads) : a \in AdT
  BY DEF ToSet
<1>1. /\ cl \in Seq(AdT)
      /\ \A x : x \in ToSet(cl) <=> x.start < x.end /\ \E a \in ToSet(ads) : x = C(a)
  BY ClippedAre
<1>2. \A a \in AdT : /\ C(a) \in AdT /\ C(a).start = a.start /\ C(a).end = Lesser(a.end, total)
                     /\ C(a).beep = a.beep /\ C(a).trusted = a.trusted
                     /\ C(a).confirmed = a.confirmed /\ C(a).pins = a.pins
  BY DEF AdT, Lesser
<1> HIDE DEF cl, C
<1>3. /\ out \in Seq(AdT)
      /\ \A x : x \in ToSet(out) <=> \E c \in ToSet(cl) : \E p \in ToSet(Pieces(c, W)) : x = Piece(c, p)
  <2>1. \A c \in ToSet(cl) : c.start < c.end
    BY <1>1
  <2> QED BY <1>1, <2>1, CarvedAre
<1> HIDE DEF out
<1>4. ASSUME NEW a \in ToSet(ads), C(a) \in ToSet(cl), NEW p \in ToSet(Pieces(C(a), W))
      PROVE  PartOf(Piece(C(a), p), a, total, W) /\ p \in SpanT
  <2>1. a \in AdT /\ C(a) \in AdT /\ C(a).start < C(a).end
    BY <1>0, <1>1, <1>2, <1>4
  <2>2. C(a).start \in Nat /\ C(a).end \in Nat /\ a.start \in Nat /\ a.end \in Nat
    BY <2>1 DEF AdT
  <2>3. Carves(Pieces(C(a), W), C(a), W)
    BY <2>1, <2>2, PiecesCarve
  <2>4. p \in SpanT
    BY <2>3 DEF Carves, ToSet
  <2>5. p.start \in Nat /\ p.end \in Nat
    BY <2>4 DEF SpanT
  <2>6. /\ C(a).start <= p.start /\ p.start < p.end /\ p.end <= C(a).end
        /\ \A w \in W : p.end <= w.start \/ w.end <= p.start
        /\ p.start = C(a).start \/ \E w \in W : w.end = p.start
        /\ p.end = C(a).end \/ \E w \in W : w.start = p.end
    BY <2>3 DEF Carves
  <2>7. C(a).start = a.start /\ C(a).end = Lesser(a.end, total) /\ C(a).beep = a.beep
        /\ C(a).trusted = a.trusted /\ C(a).confirmed = a.confirmed /\ C(a).pins = a.pins
    BY <1>2, <2>1
  <2>8. /\ Lesser(a.end, total) <= a.end /\ Lesser(a.end, total) <= total
        /\ Lesser(a.end, total) \in {a.end, total}
    BY <2>2 DEF Lesser
  <2> DEFINE x == Piece(C(a), p)
  <2>9. /\ x \in AdT /\ x.start = p.start /\ x.end = p.end
        /\ x.beep = C(a).beep /\ x.trusted = C(a).trusted /\ x.confirmed = C(a).confirmed
        /\ "start" \in x.pins <=> "start" \in C(a).pins /\ p.start = C(a).start
        /\ "end" \in x.pins <=> "end" \in C(a).pins /\ p.end = C(a).end
    BY <2>1, <2>4, PieceIs
  <2> HIDE DEF x
  <2>10. a.start <= x.start /\ x.start < x.end /\ x.end <= a.end /\ x.end <= total
    BY <2>2, <2>5, <2>6, <2>7, <2>8, <2>9
  <2>11. /\ \A w \in W : x.end <= w.start \/ w.end <= x.start
         /\ x.start = a.start \/ \E w \in W : w.end = x.start
         /\ x.end = a.end \/ x.end = total \/ \E w \in W : w.start = x.end
    BY <2>6, <2>7, <2>8, <2>9
  <2>12. PartOf(x, a, total, W)
    BY <2>7, <2>9, <2>10, <2>11 DEF PartOf
  <2> QED BY <2>4, <2>12 DEF x
<1>5. ASSUME NEW x \in ToSet(out) PROVE \E a \in ToSet(ads) : PartOf(x, a, total, W)
  <2>1. PICK c \in ToSet(cl) : \E p \in ToSet(Pieces(c, W)) : x = Piece(c, p)
    BY <1>3
  <2>2. PICK p \in ToSet(Pieces(c, W)) : x = Piece(c, p)
    BY <2>1
  <2>3. PICK a \in ToSet(ads) : c = C(a)
    BY <1>1
  <2> QED BY <1>4, <2>2, <2>3
<1>6. ASSUME NEW a \in ToSet(ads), NEW t \in Nat, a.start <= t /\ t < a.end /\ t < total,
             \A w \in W : ~ (w.start <= t /\ t < w.end)
      PROVE  \E x \in ToSet(out) : PartOf(x, a, total, W) /\ x.start <= t /\ t < x.end
  <2>1. a \in AdT /\ C(a) \in AdT /\ a.start \in Nat /\ a.end \in Nat
    BY <1>0, <1>2 DEF AdT
  <2>2. C(a).start = a.start /\ C(a).end = Lesser(a.end, total)
    BY <1>2, <2>1
  <2>3. C(a).start <= t /\ t < C(a).end /\ C(a).start < C(a).end
    BY <1>6, <2>1, <2>2 DEF Lesser
  <2>4. C(a) \in ToSet(cl)
    BY <1>1, <2>3
  <2>5. C(a).start \in Nat /\ C(a).end \in Nat
    BY <2>1 DEF AdT
  <2>6. Carves(Pieces(C(a), W), C(a), W)
    BY <2>3, <2>5, PiecesCarve
  <2>7. PICK p \in ToSet(Pieces(C(a), W)) : p.start <= t /\ t < p.end
    BY <1>6, <2>3, <2>6 DEF Carves
  <2>8. PartOf(Piece(C(a), p), a, total, W) /\ p \in SpanT
    BY <1>4, <2>4
  <2>9. Piece(C(a), p).start = p.start /\ Piece(C(a), p).end = p.end
    BY <2>1, <2>8, PieceIs
  <2>10. Piece(C(a), p) \in ToSet(out)
    BY <1>3, <2>4
  <2> QED BY <2>7, <2>8, <2>9, <2>10
<1> QED BY <1>3, <1>5, <1>6 DEF out, cl
-----------------------------------------------------------------------------
(* Joining cuts, one at a time.                                              *)

CutT == [start : Nat, end : Nat, beep : BOOLEAN, trusted : BOOLEAN, confirmed : BOOLEAN,
         pinned : BOOLEAN]

\* One request joined to the cuts so far, or a cut of its own.
TakeIn(done, ad, walls) ==
  IF done # <<>> /\ Joins(Last(done), ad, walls)
  THEN Append(Front(done), Joined(Last(done), ad))
  ELSE Append(done, Opened(ad))

\* A cut of one request.
LEMMA OpenedIs ==
  ASSUME NEW ad \in AdT
  PROVE  /\ Opened(ad) \in CutT
         /\ Opened(ad).start = ad.start /\ Opened(ad).end = ad.end /\ Opened(ad).beep = ad.beep
         /\ Opened(ad).trusted = ad.trusted /\ Opened(ad).confirmed = ad.confirmed
         /\ Opened(ad).pinned = ("end" \in ad.pins)
BY DEF Opened, AdT, CutT

\* A cut joined with a request has the end, and the edge, of the one that ends later.
LEMMA JoinedIs ==
  ASSUME NEW cut \in CutT, NEW ad \in AdT, ad.beep = cut.beep
  PROVE  /\ Joined(cut, ad) \in CutT
         /\ Joined(cut, ad).start = cut.start /\ Joined(cut, ad).beep = cut.beep
         /\ Joined(cut, ad).trusted = (ad.trusted \/ cut.trusted)
         /\ ad.end > cut.end => /\ Joined(cut, ad).end = ad.end
                                /\ Joined(cut, ad).confirmed = ad.confirmed
                                /\ Joined(cut, ad).pinned = ("end" \in ad.pins)
         /\ ~ (ad.end > cut.end) => /\ Joined(cut, ad).end = cut.end
                                    /\ Joined(cut, ad).confirmed = cut.confirmed
                                    /\ Joined(cut, ad).pinned = cut.pinned
<1>1. CASE ad.end > cut.end
  <2>1. Joined(cut, ad) = [Opened(ad) EXCEPT !.start = cut.start, !.trusted = @ \/ cut.trusted]
    BY <1>1 DEF Joined
  <2> DEFINE o == Opened(ad)
  <2>2. /\ o \in CutT /\ o.start = ad.start /\ o.end = ad.end /\ o.beep = ad.beep
        /\ o.trusted = ad.trusted /\ o.confirmed = ad.confirmed
        /\ o.pinned = ("end" \in ad.pins)
    BY OpenedIs
  <2> HIDE DEF o
  <2>3. Joined(cut, ad) = [[o EXCEPT !.start = cut.start] EXCEPT !.trusted = o.trusted \/ cut.trusted]
    BY <2>1, <2>2 DEF o, CutT
  <2> DEFINE m == [o EXCEPT !.start = cut.start]
             v == o.trusted \/ cut.trusted
  <2>4. /\ m \in CutT /\ m.start = cut.start /\ m.end = o.end /\ m.beep = o.beep
        /\ m.trusted = o.trusted /\ m.confirmed = o.confirmed /\ m.pinned = o.pinned
    BY <2>2 DEF CutT
  <2> HIDE DEF m
  <2>5. v \in BOOLEAN
    OBVIOUS
  <2> HIDE DEF v
  <2> DEFINE j == [m EXCEPT !.trusted = v]
  <2>6. /\ j \in CutT /\ j.start = m.start /\ j.end = m.end /\ j.beep = m.beep
        /\ j.trusted = v /\ j.confirmed = m.confirmed /\ j.pinned = m.pinned
    BY <2>4, <2>5 DEF CutT
  <2> HIDE DEF j
  <2>7. Joined(cut, ad) = j
    BY <2>3 DEF j, m, v
  <2>8. v = (ad.trusted \/ cut.trusted)
    BY <2>2 DEF v
  <2> QED BY <1>1, <2>2, <2>4, <2>6, <2>7, <2>8
<1>2. CASE ~ (ad.end > cut.end)
  <2>1. Joined(cut, ad) = [cut EXCEPT !.trusted = @ \/ ad.trusted]
    BY <1>2 DEF Joined
  <2> QED BY <1>2, <2>1 DEF CutT
<1> QED BY <1>1, <1>2

\* What a step does to a sequence: the last is replaced, or one is added.
LEMMA LastReplaced ==
  ASSUME NEW S, NEW s \in Seq(S), s # <<>>, NEW x \in S
  PROVE  /\ Append(Front(s), x) \in Seq(S) /\ Len(Append(Front(s), x)) = Len(s)
         /\ Append(Front(s), x)[Len(s)] = x
         /\ \A i \in 1 .. Len(s) - 1 : Append(Front(s), x)[i] = s[i]
         /\ Len(s) \in Nat \ {0} /\ Last(s) = s[Len(s)] /\ Last(s) \in S
<1>1. Len(s) \in Nat \ {0} /\ \A i \in 1 .. Len(s) : s[i] \in S
  OBVIOUS
<1>2. /\ Front(s) \in Seq(S) /\ Len(Front(s)) = Len(s) - 1
      /\ \A i \in 1 .. Len(s) - 1 : Front(s)[i] = s[i]
  <2> DEFINE n == Len(s) - 1
  <2>1. n \in Nat /\ 1 \in Int /\ n \in Int /\ \A i \in 1 .. n : s[i] \in S
    BY <1>1
  <2> HIDE DEF n
  <2>2. /\ SubSeq(s, 1, n) \in Seq(S)
        /\ Len(SubSeq(s, 1, n)) = IF 1 <= n THEN n - 1 + 1 ELSE 0
        /\ \A i \in 1 .. n - 1 + 1 : SubSeq(s, 1, n)[i] = s[1 + i - 1]
    BY <2>1, SubSeqProperties
  <2>3. Len(SubSeq(s, 1, n)) = n
    BY <2>1, <2>2
  <2>4. \A i \in 1 .. n : SubSeq(s, 1, n)[i] = s[i]
    BY <2>1, <2>2
  <2> QED BY <2>2, <2>3, <2>4 DEF n, Front
<1>3. Last(s) = s[Len(s)] /\ Last(s) \in S
  BY <1>1 DEF Last
<1> HIDE DEF Front
<1> DEFINE f == Front(s)
<1> HIDE DEF f
<1>4. Append(f, x) \in Seq(S) /\ Len(Append(f, x)) = Len(s) /\ Append(f, x)[Len(s)] = x
  BY <1>1, <1>2 DEF f
<1>5. \A i \in 1 .. Len(s) - 1 : Append(f, x)[i] = s[i]
  BY <1>1, <1>2 DEF f
<1> QED BY <1>1, <1>3, <1>4, <1>5 DEF f

\* A list with one more at its end.
LEMMA OneAdded ==
  ASSUME NEW S, NEW s \in Seq(S), NEW x \in S
  PROVE  /\ Append(s, x) \in Seq(S) /\ Len(Append(s, x)) = Len(s) + 1
         /\ Append(s, x)[Len(s) + 1] = x
         /\ \A i \in 1 .. Len(s) : Append(s, x)[i] = s[i]
         /\ Len(s) \in Nat
OBVIOUS

\* Joining gives lists of cuts.
LEMMA TakeInType ==
  ASSUME NEW done \in Seq(CutT), NEW ad \in AdT, NEW walls
  PROVE  TakeIn(done, ad, walls) \in Seq(CutT)
<1>1. CASE done # <<>> /\ Joins(Last(done), ad, walls)
  <2>1. Last(done) \in CutT
    BY <1>1, LastReplaced, OpenedIs
  <2>2. Joined(Last(done), ad) \in CutT
    BY <1>1, <2>1, JoinedIs DEF Joins
  <2> QED BY <1>1, <2>2, LastReplaced DEF TakeIn
<1>2. CASE ~ (done # <<>> /\ Joins(Last(done), ad, walls))
  BY <1>2, OpenedIs, OneAdded DEF TakeIn
<1> QED BY <1>1, <1>2

\* f runs through the requests, and comes to what Merged does.
MergeRun(f, ads, walls) ==
  /\ f \in [0 .. Len(ads) -> Seq(CutT)] /\ f[0] = <<>>
  /\ \A k \in 1 .. Len(ads) : f[k] = TakeIn(f[k - 1], ads[k], walls)
  /\ Merged(ads, walls) = f[Len(ads)]

\* Merged takes the requests in one after the other.
LEMMA MergedRuns ==
  ASSUME NEW ads \in Seq(AdT), NEW walls
  PROVE  \E f : MergeRun(f, ads, walls)
<1> DEFINE n == Len(ads)
           T == Seq(CutT)
           D == DOMAIN ads
           Body(g) == [s \in SUBSET D |->
                         IF s = {} THEN <<>> ELSE TakeIn(g[s \ {Max(s)}], ads[Max(s)], walls)]
           f == CHOOSE g : g = Body(g)
           op == [k \in 1 .. n |-> [t \in T |-> TakeIn(t, ads[k], walls)]]
<1>0. n \in Nat /\ D = 1 .. n /\ \A k \in 1 .. n : ads[k] \in AdT
  OBVIOUS
<1>1. Merged(ads, walls) = f[D]
  BY DEF Merged, FoldLeft, MapThenFoldSet, TakeIn
<1> HIDE DEF D, n
<1>2. Steps(op, n, T)
  <2>1. \A k \in 1 .. n, t \in T : TakeIn(t, ads[k], walls) \in T
    BY <1>0, TakeInType
  <2> HIDE DEF T
  <2> QED BY <2>1 DEF Steps
<1>3. <<>> \in T
  OBVIOUS
<1>4. PICK g : Works(g, op, <<>>, n, T)
  <2> HIDE DEF T, op
  <2> QED BY <1>0, <1>2, <1>3, FoldExists
<1>5. g = Body(g)
  <2>1. ASSUME NEW s \in SUBSET D
        PROVE  g[s] = IF s = {} THEN <<>> ELSE TakeIn(g[s \ {Max(s)}], ads[Max(s)], walls)
    <3>1. /\ s = {} => g[s] = <<>>
          /\ s # {} => Max(s) \in 1 .. n /\ g[s] = op[Max(s)][g[s \ {Max(s)}]]
      BY <1>0, <1>4 DEF Works
    <3>2. g[s \ {Max(s)}] \in T
      BY <1>0, <1>4 DEF Works
    <3>3. s # {} => op[Max(s)][g[s \ {Max(s)}]] = TakeIn(g[s \ {Max(s)}], ads[Max(s)], walls)
      <4> HIDE DEF T
      <4> QED BY <3>1, <3>2
    <3> QED BY <3>1, <3>3
  <2>2. g = [s \in SUBSET D |-> g[s]]
    BY <1>0, <1>4 DEF Works
  <2> QED BY <2>1, <2>2
<1>6. f = Body(f)
  <2> HIDE DEF Body
  <2> QED BY <1>5
<1> HIDE DEF f
<1>7. \A s \in SUBSET D : f[s] = IF s = {} THEN <<>> ELSE TakeIn(f[s \ {Max(s)}], ads[Max(s)], walls)
  BY <1>6
<1> DEFINE h == [k \in 0 .. n |-> f[1 .. k]]
<1>8. h[0] = <<>>
  <2>1. 1 .. 0 = {} /\ {} \in SUBSET D /\ 0 \in 0 .. n
    BY <1>0
  <2>2. f[{}] = <<>>
    BY <1>7, <2>1
  <2> QED BY <2>1, <2>2
<1>9. ASSUME NEW k \in 1 .. n PROVE h[k] = TakeIn(h[k - 1], ads[k], walls)
  <2>1. Max(1 .. k) = k
    <3>1. k \in 1 .. k /\ 1 .. k \subseteq Int /\ \A y \in 1 .. k : y <= k
      BY <1>0
    <3> QED BY <3>1, MaxIs
  <2>2. (1 .. k) \ {k} = 1 .. k - 1 /\ k \in 1 .. k /\ 1 .. k \in SUBSET D /\ k - 1 \in 0 .. n /\ k \in 0 .. n
    BY <1>0
  <2>3. f[1 .. k] = TakeIn(f[1 .. k - 1], ads[k], walls)
    BY <1>7, <2>1, <2>2
  <2> QED BY <2>2, <2>3
<1>10. \A k \in 0 .. n : h[k] \in T
  <2> DEFINE G == {k \in 0 .. n : h[k] \in T}
  <2>1. 0 \in G
    <3> HIDE DEF h, T
    <3> QED BY <1>0, <1>3, <1>8
  <2>2. ASSUME NEW k \in 1 .. n, k - 1 \in G PROVE k \in G
    <3>0. h[k - 1] \in T /\ ads[k] \in AdT /\ k \in 0 .. n
      <4> HIDE DEF h, T
      <4> QED BY <1>0, <2>2
    <3>1. h[k] \in T
      <4> HIDE DEF h
      <4> QED BY <1>9, <3>0, TakeInType
    <3> HIDE DEF h, T
    <3> QED BY <3>0, <3>1
  <2> HIDE DEF G
  <2>3. \A k \in 0 .. n : k \in G
    BY <1>0, <2>1, <2>2, CountUp
  <2> HIDE DEF h, T
  <2> QED BY <2>3 DEF G
<1>11. Merged(ads, walls) = h[n]
  BY <1>0, <1>1
<1>12. h \in [0 .. n -> T]
  <2> HIDE DEF T
  <2> QED BY <1>10
<1> HIDE DEF h
<1>13. MergeRun(h, ads, walls)
  BY <1>8, <1>9, <1>11, <1>12 DEF MergeRun, n
<1> QED BY <1>13
-----------------------------------------------------------------------------
(* What joined cuts have to do with the requests.                            *)

\* Cuts in order, none of which begins before the one before it has ended.
InARow(M) ==
  /\ M \in Seq(CutT)
  /\ \A i \in 1 .. Len(M) : M[i].start < M[i].end
  /\ \A i, j \in 1 .. Len(M) : i < j => M[i].end <= M[j].start

\* The narrow gap between two requests that a join takes, and all that it has to spare.
Gap(a, b, R, V) ==
  /\ a.end < b.start /\ b.start - a.end < MergeGap /\ a.beep = b.beep
  /\ ~ a.confirmed /\ "end" \notin a.pins
  /\ ~ b.confirmed /\ "start" \notin b.pins
  /\ \A w \in V : w.end <= a.end \/ b.start <= w.start
  /\ \A x \in R : x.end <= a.end \/ b.start <= x.start

Edged(c, R) ==
  /\ \E a \in R : c.start = a.start /\ c.beep = a.beep
  /\ \E a \in R : /\ c.end = a.end /\ c.beep = a.beep /\ c.confirmed = a.confirmed
                  /\ c.pinned = ("end" \in a.pins)

MadeOf(c, R, V) ==
  \A t \in Nat : c.start <= t /\ t < c.end =>
    \/ \E a \in R : a.start <= t /\ t < a.end /\ a.beep = c.beep
    \/ \E a, b \in R : Gap(a, b, R, V) /\ a.end <= t /\ t < b.start

Within(a, c) ==
  c.start <= a.start /\ a.end <= c.end /\ c.beep = a.beep /\ (a.trusted => c.trusted)

\* No other request touches this one.
Apart(a, R) == \A x \in R : x = a \/ x.end < a.start \/ a.end < x.start
Itself(a, c) == c.start = a.start /\ c.end = a.end /\ c.confirmed

\* What the joined cuts M have to do with the requests R they were made of.
MergeInv(M, R, V) ==
  /\ InARow(M)
  /\ \A i \in 1 .. Len(M) : Edged(M[i], R) /\ MadeOf(M[i], R, V)
  /\ \A a \in R : \E i \in 1 .. Len(M) : Within(a, M[i])
  /\ \A a \in R : a.confirmed /\ Apart(a, R) => \E i \in 1 .. Len(M) : Itself(a, M[i])

\* ad comes after all of R, and what it meets of them has the same action.
Comes(ad, R) ==
  /\ R \subseteq AdT /\ ad \in AdT /\ ad.start < ad.end
  /\ \A a \in R : /\ a.start < a.end /\ a.start <= ad.start
                  /\ a.beep = ad.beep \/ ~ Meet(a, ad)

\* A later request changes nothing about a gap, and more to choose from does no harm.
LEMMA GapStays ==
  ASSUME NEW R, NEW ad, Comes(ad, R), NEW V, NEW a \in R, NEW b \in R, Gap(a, b, R, V)
  PROVE  Gap(a, b, R \cup {ad}, V)
<1>1. b.start <= ad.start
  BY DEF Comes
<1> QED BY <1>1 DEF Gap

\* What holds of a cut and its requests holds when requests come that begin later.
LEMMA MoreRequests ==
  ASSUME NEW R, NEW ad, Comes(ad, R), NEW V, NEW c
  PROVE  /\ Edged(c, R) => Edged(c, R \cup {ad})
         /\ MadeOf(c, R, V) => MadeOf(c, R \cup {ad}, V)
<1>1. Edged(c, R) => Edged(c, R \cup {ad})
  BY DEF Edged
<1>2. ASSUME MadeOf(c, R, V) PROVE MadeOf(c, R \cup {ad}, V)
  <2> SUFFICES ASSUME NEW t \in Nat, c.start <= t, t < c.end
               PROVE  \/ \E a \in R \cup {ad} : a.start <= t /\ t < a.end /\ a.beep = c.beep
                      \/ \E a, b \in R \cup {ad} : /\ Gap(a, b, R \cup {ad}, V)
                                                   /\ a.end <= t /\ t < b.start
    BY DEF MadeOf
  <2>1. CASE \E a \in R : a.start <= t /\ t < a.end /\ a.beep = c.beep
    BY <2>1
  <2>2. CASE \E a, b \in R : Gap(a, b, R, V) /\ a.end <= t /\ t < b.start
    BY <2>2, GapStays
  <2> QED BY <1>2, <2>1, <2>2 DEF MadeOf
<1> QED BY <1>1, <1>2

\* A request that is not joined begins where the last cut has ended, or later.
LEMMA NotJoinedAfter ==
  ASSUME NEW R, NEW ad, Comes(ad, R), NEW V, NEW c \in CutT, c.start < c.end, Edged(c, R),
         MergeGap \in Nat \ {0}, ~ Joins(c, ad, V)
  PROVE  c.end <= ad.start
<1>1. /\ c.start \in Nat /\ c.end \in Nat /\ ad.start \in Nat /\ ad.end \in Nat
      /\ ad.start < ad.end /\ \A a \in R : a.start \in Nat /\ a.end \in Nat
  BY DEF CutT, AdT, Comes
<1>2. CASE ad.beep = c.beep
  <2>1. SUFFICES ASSUME ~ (c.end <= ad.start) PROVE FALSE
    OBVIOUS
  <2>2. ad.start - c.end < MergeGap /\ ad.start <= c.end /\ ~ (c.end < ad.start)
    BY <1>1, <2>1
  <2> QED BY <1>2, <2>2 DEF Joins, Crosses
<1>3. CASE ad.beep # c.beep
  <2>1. PICK a \in R : c.end = a.end /\ c.beep = a.beep
    BY DEF Edged
  <2>2. ~ (a.start < ad.end /\ ad.start < a.end) /\ a.start <= ad.start
    BY <1>3, <2>1 DEF Comes, Meet
  <2> QED BY <1>1, <2>1, <2>2
<1> QED BY <1>2, <1>3

\* A request joined to a cut of R: what the cut is then made of.
LEMMA JoinedCut ==
  ASSUME NEW R, NEW ad, Comes(ad, R), NEW V, NEW c \in CutT, c.start < c.end,
         RealSpans(V), Edged(c, R), MadeOf(c, R, V), \A a \in R : a.end <= c.end, Joins(c, ad, V)
  PROVE  /\ Joined(c, ad) \in CutT
         /\ Joined(c, ad).start = c.start /\ c.end <= Joined(c, ad).end
         /\ Joined(c, ad).start < Joined(c, ad).end
         /\ Within(ad, Joined(c, ad))
         /\ \A a \in R : Within(a, c) => Within(a, Joined(c, ad))
         /\ Edged(Joined(c, ad), R \cup {ad})
         /\ MadeOf(Joined(c, ad), R \cup {ad}, V)
<1> DEFINE j == Joined(c, ad)
<1>1. /\ c.start \in Nat /\ c.end \in Nat /\ ad.start \in Nat /\ ad.end \in Nat
      /\ ad \in AdT /\ ad.start < ad.end /\ c.beep = ad.beep
      /\ \A a \in R : a.start \in Nat /\ a.end \in Nat /\ a.start <= ad.start
  BY DEF CutT, AdT, Comes, Joins
<1>2. /\ j \in CutT
      /\ j.start = c.start /\ j.beep = c.beep /\ j.trusted = (ad.trusted \/ c.trusted)
      /\ ad.end > c.end => /\ j.end = ad.end /\ j.confirmed = ad.confirmed
                           /\ j.pinned = ("end" \in ad.pins)
      /\ ~ (ad.end > c.end) => /\ j.end = c.end /\ j.confirmed = c.confirmed
                               /\ j.pinned = c.pinned
  BY <1>1, JoinedIs
<1> HIDE DEF j
<1>3. c.start <= ad.start
  BY <1>1 DEF Edged
<1>4. c.end <= j.end /\ ad.end <= j.end /\ j.start < j.end /\ j.end \in Nat
  BY <1>1, <1>2
<1>5. Within(ad, j) /\ \A a \in R : Within(a, c) => Within(a, j)
  <2>1. (ad.trusted => j.trusted) /\ (c.trusted => j.trusted)
    BY <1>2
  <2>2. Within(ad, j)
    BY <1>1, <1>2, <1>3, <1>4, <2>1 DEF Within
  <2>3. ASSUME NEW a \in R, Within(a, c) PROVE Within(a, j)
    <3>1. a.trusted => j.trusted
      BY <2>1, <2>3 DEF Within
    <3> QED BY <1>1, <1>2, <1>4, <2>3, <3>1 DEF Within
  <2> QED BY <2>2, <2>3
<1>6. Edged(j, R \cup {ad})
  <2>1. \E a \in R \cup {ad} : j.start = a.start /\ j.beep = a.beep
    BY <1>2 DEF Edged
  <2>2. CASE ad.end > c.end
    BY <1>1, <1>2, <2>1, <2>2 DEF Edged
  <2>3. CASE ~ (ad.end > c.end)
    <3>1. PICK a \in R : /\ c.end = a.end /\ c.beep = a.beep /\ c.confirmed = a.confirmed
                         /\ c.pinned = ("end" \in a.pins)
      BY DEF Edged
    <3>2. /\ j.end = a.end /\ j.beep = a.beep /\ j.confirmed = a.confirmed
          /\ j.pinned = ("end" \in a.pins)
      BY <1>2, <2>3, <3>1
    <3> QED BY <2>1, <3>2 DEF Edged
  <2> QED BY <2>2, <2>3
<1>7. MadeOf(j, R \cup {ad}, V)
  <2> SUFFICES ASSUME NEW t \in Nat, j.start <= t, t < j.end
               PROVE  \/ \E a \in R \cup {ad} : a.start <= t /\ t < a.end /\ a.beep = j.beep
                      \/ \E a, b \in R \cup {ad} : /\ Gap(a, b, R \cup {ad}, V)
                                                   /\ a.end <= t /\ t < b.start
    BY DEF MadeOf
  <2>1. CASE t < c.end
    <3>1. \/ \E a \in R : a.start <= t /\ t < a.end /\ a.beep = c.beep
          \/ \E a, b \in R : Gap(a, b, R, V) /\ a.end <= t /\ t < b.start
      BY <1>2, <2>1 DEF MadeOf
    <3>2. CASE \E a \in R : a.start <= t /\ t < a.end /\ a.beep = c.beep
      BY <1>2, <3>2
    <3>3. CASE \E a, b \in R : Gap(a, b, R, V) /\ a.end <= t /\ t < b.start
      <4>1. PICK a \in R, b \in R : Gap(a, b, R, V) /\ a.end <= t /\ t < b.start
        BY <3>3
      <4>2. Gap(a, b, R \cup {ad}, V)
        BY <4>1, GapStays
      <4> QED BY <4>1, <4>2
    <3> QED BY <3>1, <3>2, <3>3
  <2>2. CASE c.end <= t /\ ad.start <= t
    <3>1. t < ad.end
      BY <1>1, <1>2, <2>2
    <3> QED BY <1>1, <1>2, <2>2, <3>1
  <2>3. CASE c.end <= t /\ t < ad.start
    <3>1. PICK a \in R : /\ c.end = a.end /\ c.beep = a.beep /\ c.confirmed = a.confirmed
                         /\ c.pinned = ("end" \in a.pins)
      BY DEF Edged
    <3>2. c.end < ad.start
      BY <1>1, <2>3
    <3>3. /\ ad.start - c.end < MergeGap /\ ~ ad.confirmed /\ ~ c.confirmed /\ ~ c.pinned
          /\ "start" \notin ad.pins
          /\ \A w \in V : ~ (w.start < ad.start /\ c.end < w.end)
      <4>1. ~ (ad.start <= c.end)
        BY <1>1, <3>2
      <4> QED BY <3>2, <4>1 DEF Joins, Crosses, Meet
    <3>4. \A w \in V : w.end <= a.end \/ ad.start <= w.start
      BY <1>1, <3>1, <3>3 DEF RealSpans, SpanT
    <3>5. \A x \in R \cup {ad} : x.end <= a.end \/ ad.start <= x.start
      BY <1>1, <3>1
    <3>6. Gap(a, ad, R \cup {ad}, V)
      BY <1>1, <3>1, <3>2, <3>3, <3>4, <3>5 DEF Gap
    <3> QED BY <2>3, <3>1, <3>6
  <2>4. t < c.end \/ (c.end <= t /\ ad.start <= t) \/ (c.end <= t /\ t < ad.start)
    BY <1>1
  <2> QED BY <2>1, <2>2, <2>3, <2>4
<1> QED BY <1>2, <1>4, <1>5, <1>6, <1>7 DEF j

\* One more cut in the row, or a longer one at its end.
LEMMA RowGrows ==
  ASSUME NEW M, InARow(M), NEW c \in CutT, c.start < c.end
  PROVE  /\ (\A i \in 1 .. Len(M) : M[i].end <= c.start) => InARow(Append(M, c))
         /\ M # <<>> /\ c.start = Last(M).start => InARow(Append(Front(M), c))
<1>1. /\ M \in Seq(CutT) /\ Len(M) \in Nat
      /\ \A i \in 1 .. Len(M) : M[i] \in CutT /\ M[i].start < M[i].end
      /\ \A i, j \in 1 .. Len(M) : i < j => M[i].end <= M[j].start
  BY DEF InARow
<1>2. ASSUME \A i \in 1 .. Len(M) : M[i].end <= c.start PROVE InARow(Append(M, c))
  <2> DEFINE N == Append(M, c)
  <2>1. /\ N \in Seq(CutT) /\ Len(N) = Len(M) + 1 /\ N[Len(M) + 1] = c
        /\ \A i \in 1 .. Len(M) : N[i] = M[i]
    BY <1>1, OneAdded
  <2> HIDE DEF N
  <2>2. \A i \in 1 .. Len(N) : i \in 1 .. Len(M) \/ i = Len(M) + 1
    BY <1>1, <2>1
  <2>3. \A i \in 1 .. Len(N) : N[i].start < N[i].end
    BY <1>1, <2>1, <2>2
  <2>4. ASSUME NEW i \in 1 .. Len(N), NEW j \in 1 .. Len(N), i < j PROVE N[i].end <= N[j].start
    <3>1. i \in 1 .. Len(M) /\ N[i] = M[i]
      BY <1>1, <2>1, <2>4
    <3> QED BY <1>1, <1>2, <2>1, <2>2, <2>4, <3>1
  <2> QED BY <2>1, <2>3, <2>4 DEF InARow, N
<1>3. ASSUME M # <<>>, c.start = Last(M).start PROVE InARow(Append(Front(M), c))
  <2> DEFINE N == Append(Front(M), c)
  <2>1. /\ N \in Seq(CutT) /\ Len(N) = Len(M) /\ N[Len(M)] = c
        /\ \A i \in 1 .. Len(M) - 1 : N[i] = M[i]
        /\ Last(M) = M[Len(M)] /\ Len(M) \in Nat \ {0}
    <3>1. M \in Seq(CutT) /\ M # <<>>
      BY <1>1, <1>3
    <3> QED BY <3>1, LastReplaced
  <2> HIDE DEF N
  <2>2. \A i \in 1 .. Len(N) : i \in 1 .. Len(M) - 1 \/ i = Len(M)
    BY <1>1, <2>1
  <2>3. \A i \in 1 .. Len(N) : N[i].start < N[i].end
    BY <1>1, <2>1, <2>2
  <2>4. ASSUME NEW i \in 1 .. Len(N), NEW j \in 1 .. Len(N), i < j PROVE N[i].end <= N[j].start
    <3>1. i \in 1 .. Len(M) - 1 /\ N[i] = M[i] /\ N[j].start = M[j].start
      BY <1>1, <1>3, <2>1, <2>2, <2>4
    <3>2. i \in 1 .. Len(M) /\ j \in 1 .. Len(M)
      BY <2>1
    <3> QED BY <1>1, <2>4, <3>1, <3>2
  <2> QED BY <2>1, <2>3, <2>4 DEF InARow, N
<1> QED BY <1>2, <1>3

\* The last of a row ends last, and begins last.
LEMMA LastIsLast ==
  ASSUME NEW M, InARow(M), M # <<>>
  PROVE  /\ Len(M) \in Nat \ {0} /\ Last(M) = M[Len(M)] /\ Last(M) \in CutT
         /\ Last(M).start < Last(M).end
         /\ \A i \in 1 .. Len(M) : M[i].end <= Last(M).end
         /\ \A i \in 1 .. Len(M) - 1 : M[i].end <= Last(M).start
<1>1. /\ M \in Seq(CutT) /\ Len(M) \in Nat /\ (M = <<>> <=> Len(M) = 0)
      /\ \A i \in 1 .. Len(M) : M[i] \in CutT /\ M[i].start < M[i].end
      /\ \A i, j \in 1 .. Len(M) : i < j => M[i].end <= M[j].start
  BY DEF InARow
<1>2. Len(M) \in Nat \ {0} /\ Last(M) = M[Len(M)] /\ Len(M) \in 1 .. Len(M)
  BY <1>1 DEF Last
<1>3. \A i \in 1 .. Len(M) : M[i].start \in Nat /\ M[i].end \in Nat
  BY <1>1 DEF CutT
<1>4. ASSUME NEW i \in 1 .. Len(M) - 1 PROVE M[i].end <= M[Len(M)].start
  BY <1>1, <1>2, <1>4
<1>5. ASSUME NEW i \in 1 .. Len(M) PROVE M[i].end <= M[Len(M)].end
  <2>1. i \in 1 .. Len(M) - 1 \/ i = Len(M)
    BY <1>1
  <2> QED BY <1>1, <1>2, <1>3, <1>4, <2>1
<1> QED BY <1>1, <1>2, <1>4, <1>5

\* A request that goes its own way is a cut of its own.
LEMMA OpenedCut ==
  ASSUME NEW R, NEW ad, Comes(ad, R), NEW V
  PROVE  /\ Opened(ad) \in CutT /\ Opened(ad).start < Opened(ad).end
         /\ Within(ad, Opened(ad))
         /\ Edged(Opened(ad), R \cup {ad}) /\ MadeOf(Opened(ad), R \cup {ad}, V)
         /\ ad.confirmed => Itself(ad, Opened(ad))
<1>1. /\ Opened(ad) \in CutT
      /\ Opened(ad).start = ad.start /\ Opened(ad).end = ad.end /\ Opened(ad).beep = ad.beep
      /\ Opened(ad).trusted = ad.trusted /\ Opened(ad).confirmed = ad.confirmed
      /\ Opened(ad).pinned = ("end" \in ad.pins)
  BY OpenedIs DEF Comes
<1>2. ad.start \in Nat /\ ad.end \in Nat /\ ad.start < ad.end
  BY DEF Comes, AdT
<1>3. Within(ad, Opened(ad))
  BY <1>1, <1>2 DEF Within
<1>4. Edged(Opened(ad), R \cup {ad})
  BY <1>1 DEF Edged
<1>5. MadeOf(Opened(ad), R \cup {ad}, V)
  BY <1>1 DEF MadeOf
<1>6. ad.confirmed => Itself(ad, Opened(ad))
  BY <1>1 DEF Itself
<1> QED BY <1>1, <1>2, <1>3, <1>4, <1>5, <1>6

\* A confirmed request that nothing touches is joined with nothing.
LEMMA ApartStays ==
  ASSUME NEW R, NEW ad, Comes(ad, R), NEW V, NEW c \in CutT, Joins(c, ad, V),
         NEW a \in R, a.confirmed, Apart(a, R \cup {ad}), Itself(a, c)
  PROVE  Itself(a, Joined(c, ad))
<1>1. /\ c.start \in Nat /\ c.end \in Nat /\ ad.start \in Nat /\ ad.end \in Nat
      /\ a.start \in Nat /\ a.end \in Nat /\ a.start <= ad.start /\ ad.start < ad.end
      /\ ad \in AdT
  BY DEF Comes, AdT, CutT
<1>2. c.start = a.start /\ c.end = a.end /\ c.confirmed
  BY DEF Itself
<1>3. ad.start <= c.end
  BY <1>2 DEF Joins
<1>4. ad = a \/ ad.end < a.start \/ a.end < ad.start
  BY DEF Apart
<1>5. ad = a
  BY <1>1, <1>2, <1>3, <1>4
<1>6. ~ (ad.end > c.end) /\ ad.beep = c.beep
  BY <1>1, <1>2, <1>5 DEF Joins
<1>7. Joined(c, ad).start = c.start /\ Joined(c, ad).end = c.end /\ Joined(c, ad).confirmed = c.confirmed
  BY <1>1, <1>6, JoinedIs
<1> QED BY <1>2, <1>7 DEF Itself

\* One more request, joined or not, keeps what the cuts have to do with the requests.
LEMMA TakeInKeeps ==
  ASSUME NEW R, NEW ad, Comes(ad, R), NEW V, RealSpans(V), MergeGap \in Nat \ {0},
         NEW M, MergeInv(M, R, V)
  PROVE  MergeInv(TakeIn(M, ad, V), R \cup {ad}, V)
<1> DEFINE Q == R \cup {ad}
<1>1. /\ InARow(M) /\ M \in Seq(CutT) /\ Len(M) \in Nat
      /\ \A i \in 1 .. Len(M) : Edged(M[i], R) /\ MadeOf(M[i], R, V)
      /\ \A a \in R : \E i \in 1 .. Len(M) : Within(a, M[i])
      /\ \A a \in R : a.confirmed /\ Apart(a, R) => \E i \in 1 .. Len(M) : Itself(a, M[i])
      /\ \A i \in 1 .. Len(M) : M[i] \in CutT
  BY DEF MergeInv, InARow
<1>2. \A i \in 1 .. Len(M) : Edged(M[i], Q) /\ MadeOf(M[i], Q, V)
  BY <1>1, MoreRequests
<1>3. \A a \in R : Apart(a, Q) => Apart(a, R)
  BY DEF Apart
<1>4. CASE M # <<>> /\ Joins(Last(M), ad, V)
  <2> DEFINE l == Last(M)
             j == Joined(l, ad)
             N == Append(Front(M), j)
  <2>1. /\ l = M[Len(M)] /\ l \in CutT /\ l.start < l.end /\ Len(M) \in 1 .. Len(M)
        /\ \A i \in 1 .. Len(M) : M[i].end <= l.end
    BY <1>1, <1>4, LastIsLast
  <2> HIDE DEF l
  <2>2. Edged(l, R) /\ MadeOf(l, R, V) /\ Joins(l, ad, V)
    BY <1>1, <1>4, <2>1 DEF l
  <2>3. \A a \in R : a.end <= l.end
    <3> TAKE a \in R
    <3>1. PICK i \in 1 .. Len(M) : Within(a, M[i])
      BY <1>1
    <3>2. a.end \in Nat /\ M[i].end \in Nat /\ l.end \in Nat /\ a.end <= M[i].end /\ M[i].end <= l.end
      BY <1>1, <2>1, <3>1 DEF Within, Comes, AdT, CutT
    <3> QED BY <3>2
  <2>4. /\ j \in CutT /\ j.start = l.start /\ j.start < j.end
        /\ Within(ad, j) /\ \A a \in R : Within(a, l) => Within(a, j)
        /\ Edged(j, Q) /\ MadeOf(j, Q, V)
    <3>1. \A a \in R : Within(a, l) => Within(a, j)
      BY <2>1, <2>2, <2>3, JoinedCut
    <3> HIDE DEF Q
    <3>2. j \in CutT /\ j.start = l.start
      BY <2>1, <2>2, JoinedIs DEF Joins, Comes
    <3>5. j.start < j.end
      BY <2>1, <2>2, <2>3, JoinedCut
    <3>4. Within(ad, j)
      BY <2>1, <2>2, <2>3, JoinedCut
    <3>3. Edged(j, R \cup {ad}) /\ MadeOf(j, R \cup {ad}, V)
      BY <2>1, <2>2, <2>3, JoinedCut
    <3> QED BY <3>1, <3>2, <3>3, <3>4, <3>5 DEF Q
  <2>5. \A a \in R : a.confirmed /\ Apart(a, Q) /\ Itself(a, l) => Itself(a, j)
    BY <2>1, <2>2, ApartStays
  <2> HIDE DEF j
  <2>6. InARow(N)
    BY <1>1, <1>4, <2>4, RowGrows DEF l
  <2>7. /\ Len(N) = Len(M) /\ N[Len(M)] = j
        /\ \A i \in 1 .. Len(M) - 1 : N[i] = M[i]
    BY <1>1, <1>4, <2>4, LastReplaced
  <2>8. \A i \in 1 .. Len(M) : i \in 1 .. Len(M) - 1 \/ i = Len(M)
    BY <1>1
  <2> HIDE DEF N, Q
  <2>9. \A i \in 1 .. Len(N) : Edged(N[i], Q) /\ MadeOf(N[i], Q, V)
    BY <1>2, <2>4, <2>7, <2>8
  <2>10. \A a \in Q : \E i \in 1 .. Len(N) : Within(a, N[i])
    <3> TAKE a \in Q
    <3>1. CASE a = ad
      BY <2>1, <2>4, <2>7, <3>1
    <3>2. CASE a \in R
      <4>1. PICK i \in 1 .. Len(M) : Within(a, M[i])
        BY <1>1, <3>2
      <4>2. Within(a, N[i])
        BY <2>1, <2>4, <2>7, <2>8, <3>2, <4>1
      <4> QED BY <2>7, <4>2
    <3> QED BY <3>1, <3>2 DEF Q
  <2>11. ASSUME NEW a \in Q, a.confirmed, Apart(a, Q) PROVE \E i \in 1 .. Len(N) : Itself(a, N[i])
    <3>1. CASE a \in R
      <4>1. PICK i \in 1 .. Len(M) : Itself(a, M[i])
        BY <1>1, <1>3, <2>11, <3>1 DEF Q
      <4>2. Itself(a, N[i])
        BY <2>1, <2>5, <2>7, <2>8, <2>11, <3>1, <4>1
      <4> QED BY <2>7, <4>2
    <3>2. CASE a = ad /\ a \notin R
      <4>1. PICK b \in R : l.end = b.end
        BY <2>2 DEF Edged
      <4>2. /\ b.end \in Nat /\ b.start \in Nat /\ ad.start \in Nat /\ ad.end \in Nat
            /\ b.start <= ad.start /\ ad.start < ad.end
        BY DEF Comes, AdT
      <4>3. b # a /\ b \in Q
        BY <3>2 DEF Q
      <4>4. b.end < ad.start \/ ad.end < b.start
        BY <2>11, <3>2, <4>3 DEF Apart
      <4>5. ad.start <= l.end
        BY <2>2, <2>11, <3>2 DEF Joins
      <4> QED BY <4>1, <4>2, <4>4, <4>5
    <3> QED BY <3>1, <3>2 DEF Q
  <2>12. MergeInv(N, Q, V)
    BY <2>6, <2>9, <2>10, <2>11 DEF MergeInv
  <2> QED BY <1>4, <2>12 DEF TakeIn, N, Q, j, l
<1>5. CASE ~ (M # <<>> /\ Joins(Last(M), ad, V))
  <2> DEFINE o == Opened(ad)
             N == Append(M, o)
  <2>1. /\ o \in CutT /\ o.start < o.end /\ Within(ad, o)
        /\ Edged(o, Q) /\ MadeOf(o, Q, V) /\ (ad.confirmed => Itself(ad, o))
    BY OpenedCut
  <2>2. o.start = ad.start
    BY OpenedIs DEF Comes
  <2>3. \A i \in 1 .. Len(M) : M[i].end <= o.start
    <3> TAKE i \in 1 .. Len(M)
    <3>1. M # <<>>
      BY <1>1
    <3>2. /\ Last(M) = M[Len(M)] /\ Last(M) \in CutT /\ Last(M).start < Last(M).end
          /\ M[i].end <= Last(M).end /\ Len(M) \in 1 .. Len(M)
      BY <1>1, <3>1, LastIsLast
    <3>3. Last(M).end <= ad.start
      BY <1>1, <1>5, <3>1, <3>2, NotJoinedAfter
    <3>4. M[i].end \in Nat /\ Last(M).end \in Nat /\ ad.start \in Nat
      BY <1>1, <3>2 DEF Comes, AdT, CutT
    <3> QED BY <2>2, <3>2, <3>3, <3>4
  <2> HIDE DEF o
  <2>4. InARow(N)
    BY <1>1, <2>1, <2>3, RowGrows
  <2>5. /\ Len(N) = Len(M) + 1 /\ N[Len(M) + 1] = o
        /\ \A i \in 1 .. Len(M) : N[i] = M[i]
    BY <1>1, <2>1, OneAdded
  <2>6. /\ \A i \in 1 .. Len(N) : i \in 1 .. Len(M) \/ i = Len(M) + 1
        /\ 1 .. Len(M) \subseteq 1 .. Len(N) /\ Len(M) + 1 \in 1 .. Len(N)
    BY <1>1, <2>5
  <2> HIDE DEF N, Q
  <2>7. \A i \in 1 .. Len(N) : Edged(N[i], Q) /\ MadeOf(N[i], Q, V)
    BY <1>2, <2>1, <2>5, <2>6
  <2>8. \A a \in Q : \E i \in 1 .. Len(N) : Within(a, N[i])
    <3> TAKE a \in Q
    <3>1. CASE a = ad
      BY <2>1, <2>5, <2>6, <3>1
    <3>2. CASE a \in R
      <4>1. PICK i \in 1 .. Len(M) : Within(a, M[i])
        BY <1>1, <3>2
      <4> QED BY <2>5, <2>6, <4>1
    <3> QED BY <3>1, <3>2 DEF Q
  <2>9. ASSUME NEW a \in Q, a.confirmed, Apart(a, Q) PROVE \E i \in 1 .. Len(N) : Itself(a, N[i])
    <3>1. CASE a = ad
      BY <2>1, <2>5, <2>6, <2>9, <3>1
    <3>2. CASE a \in R
      <4>1. PICK i \in 1 .. Len(M) : Itself(a, M[i])
        BY <1>1, <1>3, <2>9, <3>2 DEF Q
      <4> QED BY <2>5, <2>6, <4>1
    <3> QED BY <3>1, <3>2 DEF Q
  <2>10. MergeInv(N, Q, V)
    BY <2>4, <2>7, <2>8, <2>9 DEF MergeInv
  <2> QED BY <1>5, <2>10 DEF TakeIn, N, Q, o
<1> QED BY <1>4, <1>5

\* What merging makes of requests in order, different actions of which do not meet.
Separate(ads) == \A i, j \in 1 .. Len(ads) : ads[i].beep = ads[j].beep \/ ~ Meet(ads[i], ads[j])

\* So it is of all the requests.
LEMMA MergedDoes ==
  ASSUME NEW ads \in Seq(AdT), Separate(ads), NEW V, RealSpans(V), MergeGap \in Nat \ {0},
         \A i \in 1 .. Len(ads) : ads[i].start < ads[i].end,
         \A i, j \in 1 .. Len(ads) : i < j => ads[i].start <= ads[j].start
  PROVE  MergeInv(Merged(ads, V), ToSet(ads), V)
<1> DEFINE n == Len(ads)
           R(k) == {ads[i] : i \in 1 .. k}
<1>1. n \in Nat /\ (\A i \in 1 .. n : ads[i] \in AdT) /\ ToSet(ads) = R(n)
  BY DEF ToSet
<1>2. PICK f : MergeRun(f, ads, V)
  BY MergedRuns
<1>3. /\ f[0] = <<>> /\ \A k \in 1 .. n : f[k] = TakeIn(f[k - 1], ads[k], V)
      /\ Merged(ads, V) = f[n]
  BY <1>2 DEF MergeRun
<1> DEFINE G == {k \in 0 .. n : MergeInv(f[k], R(k), V)}
<1>4. 0 \in G
  <2>1. R(0) = {} /\ 0 \in 0 .. n
    BY <1>1
  <2>2. MergeInv(<<>>, {}, V)
    BY DEF MergeInv, InARow
  <2> QED BY <1>3, <2>1, <2>2
<1>5. ASSUME NEW k \in 1 .. n, k - 1 \in G PROVE k \in G
  <2>1. R(k) = R(k - 1) \cup {ads[k]} /\ k \in 0 .. n
    BY <1>1
  <2>2. Comes(ads[k], R(k - 1))
    <3>1. ASSUME NEW a \in R(k - 1)
          PROVE  /\ a \in AdT /\ a.start < a.end /\ a.start <= ads[k].start
                 /\ a.beep = ads[k].beep \/ ~ Meet(a, ads[k])
      <4>1. PICK i \in 1 .. k - 1 : a = ads[i]
        OBVIOUS
      <4>2. i \in 1 .. n /\ k \in 1 .. n /\ i < k
        BY <1>1
      <4> QED BY <1>1, <4>1, <4>2 DEF Separate
    <3>2. ads[k] \in AdT /\ ads[k].start < ads[k].end
      BY <1>1
    <3> HIDE DEF R
    <3> QED BY <3>1, <3>2 DEF Comes
  <2>3. MergeInv(f[k - 1], R(k - 1), V)
    BY <1>5
  <2> HIDE DEF R
  <2>4. MergeInv(TakeIn(f[k - 1], ads[k], V), R(k - 1) \cup {ads[k]}, V)
    BY <2>2, <2>3, TakeInKeeps
  <2> QED BY <1>3, <2>1, <2>4
<1>6. n \in G
  <2> HIDE DEF G
  <2>1. \A k \in 0 .. n : k \in G
    BY <1>1, <1>4, <1>5, CountUp
  <2> QED BY <1>1, <2>1
<1> QED BY <1>1, <1>3, <1>6
-----------------------------------------------------------------------------
(* What is applied of the joined cuts, and why.                              *)

\* The members of a sequence and their places.
LEMMA Places ==
  ASSUME NEW S, NEW s \in Seq(S)
  PROVE  /\ Len(s) \in Nat /\ DOMAIN s = 1 .. Len(s)
         /\ \A i \in 1 .. Len(s) : s[i] \in S /\ s[i] \in ToSet(s)
         /\ \A x \in ToSet(s) : x \in S /\ \E i \in 1 .. Len(s) : x = s[i]
BY DEF ToSet

StampT == [start : Nat, end : Nat, beep : BOOLEAN, fill : Nat]

\* Applied cuts lie in the audio one after the other.
Row(c, total) ==
  /\ c \in Seq(StampT)
  /\ \A i \in 1 .. Len(c) : c[i].start < c[i].end /\ c[i].end <= total
  /\ \A i, j \in 1 .. Len(c) : i < j => c[i].end <= c[j].start

\* P is what the end of the audio and the walls leave of the requests.
Parts(P, ads, total, W) ==
  /\ P \subseteq AdT
  /\ \A x \in P : x.start < x.end /\ \E a \in ToSet(ads) : PartOf(x, a, total, W)
  /\ \A a \in ToSet(ads), t \in Nat :
       a.start <= t /\ t < a.end /\ t < total /\ (\A w \in W : ~ (w.start <= t /\ t < w.end))
       => \E x \in P : PartOf(x, a, total, W) /\ x.start <= t /\ t < x.end

\* A part that is applied whatever its neighbours are.
SurePart(x, P) == Length(x) >= MinAd \/ x.trusted \/ (x.confirmed /\ Apart(x, P))

\* L are the joined cuts that are long enough, or trusted.
Kept(L, P) ==
  /\ InARow(L)
  /\ \A i \in 1 .. Len(L) : Edged(L[i], P)
  /\ \A x \in P : SurePart(x, P) =>
       \E i \in 1 .. Len(L) : L[i].start <= x.start /\ x.end <= L[i].end
  /\ \A x \in P : \A i \in 1 .. Len(L) :
       x.start < L[i].end /\ L[i].start < x.end => L[i].start <= x.start /\ x.end <= L[i].end

InPart(t, P) == \E x \in P : x.start <= t /\ t < x.end
InGap(t, P, V) == \E a, b \in P : Gap(a, b, P, V) /\ a.end <= t /\ t < b.start

\* What is left after the last cut, which may go when it is short.
InTail(t, L, total, V) ==
  \E i \in 1 .. Len(L) :
    /\ \A j \in 1 .. Len(L) : L[j].end <= L[i].end
    /\ ~ L[i].confirmed /\ ~ L[i].pinned
    /\ L[i].end <= t /\ t < total /\ total - L[i].end < PostRoll
    /\ \A w \in V : w.end <= L[i].end \/ total <= w.start

Explained(c, L, P, total, V) ==
  \A i \in 1 .. Len(c), t \in Nat : c[i].start <= t /\ t < c[i].end =>
    InPart(t, P) \/ InGap(t, P, V) \/ InTail(t, L, total, V)

\* Parts of requests that do not meet do not meet.
LEMMA PartsOfSeparate ==
  ASSUME NEW ads \in Seq(AdT), Separate(ads), NEW total \in Nat, NEW W, NEW x, NEW y,
         NEW a \in ToSet(ads), PartOf(x, a, total, W),
         NEW b \in ToSet(ads), PartOf(y, b, total, W)
  PROVE  x.beep = y.beep \/ ~ Meet(x, y)
<1>1. a.beep = b.beep \/ ~ Meet(a, b)
  BY DEF Separate, ToSet
<1>2. a \in AdT /\ b \in AdT
  BY DEF ToSet
<1>3. /\ x.start \in Nat /\ x.end \in Nat /\ y.start \in Nat /\ y.end \in Nat
      /\ a.start \in Nat /\ a.end \in Nat /\ b.start \in Nat /\ b.end \in Nat
  BY <1>2 DEF PartOf, AdT
<1>4. /\ x.beep = a.beep /\ a.start <= x.start /\ x.end <= a.end
      /\ y.beep = b.beep /\ b.start <= y.start /\ y.end <= b.end
  BY DEF PartOf
<1> QED BY <1>1, <1>3, <1>4 DEF Meet

\* The list of parts, in order.
LEMMA PartsInOrder ==
  ASSUME NEW ads \in Seq(AdT), Separate(ads), NEW total \in Nat,
         NEW W, IsFiniteSet(W), RealSpans(W)
  PROVE  LET s == ByStart(Carved(Clipped(ads, total), W))
         IN  /\ s \in Seq(AdT) /\ Separate(s)
             /\ \A i \in 1 .. Len(s) : s[i].start < s[i].end
             /\ \A i, j \in 1 .. Len(s) : i < j => s[i].start <= s[j].start
             /\ Parts(ToSet(s), ads, total, W)
<1> DEFINE r == Carved(Clipped(ads, total), W)
           s == ByStart(r)
<1>1. /\ r \in Seq(AdT)
      /\ \A x \in ToSet(r) : \E a \in ToSet(ads) : PartOf(x, a, total, W)
      /\ \A a \in ToSet(ads), t \in Nat :
              a.start <= t /\ t < a.end /\ t < total /\ (\A w \in W : ~ (w.start <= t /\ t < w.end))
              => \E x \in ToSet(r) : PartOf(x, a, total, W) /\ x.start <= t /\ t < x.end
  BY TrimmedAre
<1> HIDE DEF r
<1>2. \A i \in 1 .. Len(r) : r[i] \in AdT /\ r[i].start \in Nat
  <2>1. \A i \in 1 .. Len(r) : r[i] \in AdT
    BY <1>1, Places
  <2> QED BY <2>1 DEF AdT
<1>3. /\ s \in Seq(AdT) /\ Len(s) = Len(r)
      /\ \A k \in 1 .. Len(r) : \E i \in 1 .. Len(r) : s[k] = r[i]
      /\ \A i \in 1 .. Len(r) : \E k \in 1 .. Len(r) : s[k] = r[i]
      /\ \A k, l \in 1 .. Len(r) : k < l => s[k].start <= s[l].start
  BY <1>1, <1>2, ByStartSorts
<1> HIDE DEF s
<1>4. ToSet(s) = ToSet(r)
  <2>1. /\ \A i \in 1 .. Len(r) : r[i] \in ToSet(r)
        /\ \A x \in ToSet(r) : \E i \in 1 .. Len(r) : x = r[i]
    BY <1>1, Places
  <2>2. /\ \A i \in 1 .. Len(s) : s[i] \in ToSet(s)
        /\ \A x \in ToSet(s) : \E i \in 1 .. Len(s) : x = s[i]
    <3>1. s \in Seq(AdT)
      BY <1>3
    <3> QED BY <3>1, Places
  <2>3. ASSUME NEW x \in ToSet(s) PROVE x \in ToSet(r)
    <3>1. PICK k \in 1 .. Len(r) : x = s[k]
      BY <1>3, <2>2
    <3>2. PICK i \in 1 .. Len(r) : s[k] = r[i]
      BY <1>3
    <3> QED BY <2>1, <3>1, <3>2
  <2>4. ASSUME NEW x \in ToSet(r) PROVE x \in ToSet(s)
    <3>1. PICK i \in 1 .. Len(r) : x = r[i]
      BY <2>1
    <3>2. PICK k \in 1 .. Len(r) : s[k] = r[i]
      BY <1>3
    <3>3. k \in 1 .. Len(s)
      BY <1>3
    <3> QED BY <2>2, <3>1, <3>2, <3>3
  <2> QED BY <2>3, <2>4
<1>5. \A i \in 1 .. Len(s) : s[i] \in ToSet(s)
  BY <1>3, Places
<1>6. \A i \in 1 .. Len(s) : s[i].start < s[i].end
  BY <1>1, <1>4, <1>5 DEF PartOf
<1>7. Separate(s)
  BY <1>1, <1>4, <1>5, PartsOfSeparate DEF Separate
<1>8. Parts(ToSet(s), ads, total, W)
  <2>1. \A x \in ToSet(s) : x \in AdT
    BY <1>3 DEF ToSet
  <2>2. \A x \in ToSet(s) : x.start < x.end /\ \E a \in ToSet(ads) : PartOf(x, a, total, W)
    BY <1>1, <1>4 DEF PartOf
  <2> QED BY <1>1, <1>4, <2>1, <2>2 DEF Parts
<1> QED BY <1>3, <1>6, <1>7, <1>8 DEF s, r

\* Dropping what is short and not trusted.
LEMMA LongAreKept ==
  ASSUME NEW M, NEW P, P \subseteq AdT, NEW V, MergeInv(M, P, V), MinAd \in Nat
  PROVE  LET L == Those(M, {i \in DOMAIN M : LongEnough(M[i])})
         IN  Kept(L, P) /\ \A k \in 1 .. Len(L) : \E i \in 1 .. Len(M) : L[k] = M[i]
<1> DEFINE I == {i \in DOMAIN M : LongEnough(M[i])}
           L == Those(M, I)
<1>1. /\ InARow(M) /\ M \in Seq(CutT) /\ Len(M) \in Nat /\ DOMAIN M = 1 .. Len(M)
      /\ \A i \in 1 .. Len(M) : M[i] \in CutT /\ M[i].start < M[i].end
      /\ \A i, j \in 1 .. Len(M) : i < j => M[i].end <= M[j].start
      /\ \A i \in 1 .. Len(M) : Edged(M[i], P)
      /\ \A a \in P : \E i \in 1 .. Len(M) : Within(a, M[i])
      /\ \A a \in P : a.confirmed /\ Apart(a, P) => \E i \in 1 .. Len(M) : Itself(a, M[i])
  BY DEF MergeInv, InARow
<1>2. I \subseteq 1 .. Len(M) /\ \A i \in 1 .. Len(M) : LongEnough(M[i]) => i \in I
  BY <1>1
<1> HIDE DEF I
<1>3. L \in Seq(CutT) /\ \E p : Chosen(p, L, M, I)
  BY <1>1, <1>2, ThoseInOrder
<1>4. PICK p : Chosen(p, L, M, I)
  BY <1>3
<1> HIDE DEF L
<1>5. /\ Len(L) \in Nat /\ p \in [1 .. Len(L) -> I]
      /\ \A k \in 1 .. Len(L) : L[k] = M[p[k]]
      /\ \A i \in I : \E k \in 1 .. Len(L) : p[k] = i
      /\ \A k, l \in 1 .. Len(L) : k < l => p[k] < p[l]
  BY <1>4 DEF Chosen
<1>6. \A k \in 1 .. Len(L) : p[k] \in 1 .. Len(M) /\ L[k] = M[p[k]]
  BY <1>2, <1>5
<1>7. \A i \in 1 .. Len(M) : LongEnough(M[i]) => \E k \in 1 .. Len(L) : L[k] = M[i]
  BY <1>2, <1>5
<1>8. InARow(L)
  <2>1. \A k \in 1 .. Len(L) : L[k].start < L[k].end
    BY <1>1, <1>6
  <2>2. \A k, l \in 1 .. Len(L) : k < l => L[k].end <= L[l].start
    BY <1>1, <1>5, <1>6
  <2> QED BY <1>3, <2>1, <2>2 DEF InARow
<1>9. \A k \in 1 .. Len(L) : Edged(L[k], P)
  BY <1>1, <1>6
<1>10. ASSUME NEW x \in P, SurePart(x, P)
       PROVE  \E k \in 1 .. Len(L) : L[k].start <= x.start /\ x.end <= L[k].end
  <2>1. \E i \in 1 .. Len(M) : LongEnough(M[i]) /\ M[i].start <= x.start /\ x.end <= M[i].end
    <3>1. PICK i \in 1 .. Len(M) : Within(x, M[i])
      BY <1>1
    <3>2. /\ x.start \in Nat /\ x.end \in Nat /\ M[i].start \in Nat /\ M[i].end \in Nat
      BY <1>1 DEF AdT, CutT
    <3>3. CASE x.trusted
      BY <3>1, <3>3 DEF LongEnough, Within
    <3>4. CASE Length(x) >= MinAd
      <4>1. Length(M[i]) >= MinAd
        BY <3>1, <3>2, <3>4 DEF Within, Length
      <4> QED BY <3>1, <4>1 DEF LongEnough, Within
    <3>5. CASE x.confirmed /\ Apart(x, P)
      <4>1. PICK j \in 1 .. Len(M) : Itself(x, M[j])
        BY <1>1, <3>5
      <4>2. M[j].start = x.start /\ M[j].end = x.end /\ LongEnough(M[j])
        BY <4>1 DEF Itself, LongEnough
      <4> QED BY <3>2, <4>2
    <3> QED BY <1>10, <3>3, <3>4, <3>5 DEF SurePart
  <2> QED BY <1>7, <2>1
<1>12. ASSUME NEW x \in P, NEW k \in 1 .. Len(L), x.start < L[k].end, L[k].start < x.end
       PROVE  L[k].start <= x.start /\ x.end <= L[k].end
  <2>1. PICK i \in 1 .. Len(M) : Within(x, M[i])
    BY <1>1
  <2>2. PICK j \in 1 .. Len(M) : L[k] = M[j]
    BY <1>6
  <2>3. /\ x.start \in Nat /\ x.end \in Nat /\ M[i].start \in Nat /\ M[i].end \in Nat
        /\ M[j].start \in Nat /\ M[j].end \in Nat
    BY <1>1 DEF AdT, CutT
  <2>4. M[i].start <= x.start /\ x.end <= M[i].end
    BY <2>1 DEF Within
  <2>7. x.start < M[j].end /\ M[j].start < x.end
    BY <1>12, <2>2
  <2>8. (i < j => M[i].end <= M[j].start) /\ (j < i => M[j].end <= M[i].start)
    BY <1>1
  <2>5. ~ i < j /\ ~ j < i
    BY <2>3, <2>4, <2>7, <2>8
  <2>6. i = j
    BY <2>5, <1>1
  <2> QED BY <2>2, <2>4, <2>6
<1>11. Kept(L, P)
  BY <1>8, <1>9, <1>10, <1>12 DEF Kept
<1> QED BY <1>6, <1>11 DEF L, I

\* A stamp has the cut's edges and action.
LEMMA StampedIs ==
  ASSUME NEW c \in CutT, Beep \in Nat
  PROVE  /\ Stamped(c) \in StampT
         /\ Stamped(c).start = c.start /\ Stamped(c).end = c.end /\ Stamped(c).beep = c.beep
<1>1. c.start \in Nat /\ c.end \in Nat /\ c.beep \in BOOLEAN
  BY DEF CutT
<1>2. Fill(c) \in Nat
  <2>1. Larger(Length(c), Beep) \in Nat
    BY <1>1 DEF Larger, Length
  <2> QED BY <2>1 DEF Fill
<1> QED BY <1>1, <1>2 DEF Stamped, StampT

\* D is the row L, but that the last cut may take what is left after it.
Stretched(D, L, total, V) ==
  /\ InARow(D) /\ Len(D) = Len(L)
  /\ \A i \in 1 .. Len(D) : D[i].end <= total
  /\ \A i \in 1 .. Len(D), t \in Nat : D[i].start <= t /\ t < D[i].end =>
       (L[i].start <= t /\ t < L[i].end) \/ InTail(t, L, total, V)

\* The last cut is stretched to the end of the audio, or nothing is done.
LEMMA ExtendedDoes ==
  ASSUME NEW L, InARow(L), NEW total \in Nat, \A i \in 1 .. Len(L) : L[i].end <= total,
         NEW V, RealSpans(V), PostRoll \in Nat
  PROVE  Stretched(Extended(L, total, V), L, total, V)
<1> DEFINE l == Last(L)
           D == Extended(L, total, V)
<1>1. /\ L \in Seq(CutT) /\ Len(L) \in Nat
      /\ \A i \in 1 .. Len(L) : L[i] \in CutT
  BY DEF InARow
<1>2. CASE \/ L = <<>> \/ Crosses(l.end, total, V) \/ l.confirmed \/ l.pinned
           \/ total - l.end >= PostRoll
  <2>1. D = L
    BY <1>2 DEF Extended
  <2> HIDE DEF D
  <2> QED BY <2>1 DEF Stretched, D
<1>3. CASE ~ (\/ L = <<>> \/ Crosses(l.end, total, V) \/ l.confirmed \/ l.pinned
              \/ total - l.end >= PostRoll)
  <2>1. D = Append(Front(L), [l EXCEPT !.end = total])
    BY <1>3 DEF Extended
  <2>2. /\ l = L[Len(L)] /\ l \in CutT /\ l.start < l.end /\ Len(L) \in 1 .. Len(L)
        /\ \A i \in 1 .. Len(L) : L[i].end <= l.end
    BY <1>1, <1>3, LastIsLast
  <2>3. l.start = Last(L).start /\ L # <<>>
    BY <1>3
  <2> HIDE DEF l, D
  <2> DEFINE e == [l EXCEPT !.end = total]
  <2>4. /\ l.start \in Nat /\ l.end \in Nat /\ l.end <= total
        /\ e \in CutT /\ e.start = l.start /\ e.end = total /\ e.start < e.end
    BY <2>2 DEF CutT
  <2> HIDE DEF e
  <2>5. D = Append(Front(L), e)
    BY <2>1 DEF e
  <2>6. InARow(D)
    BY <2>3, <2>4, <2>5, RowGrows
  <2>7. /\ Len(D) = Len(L) /\ D[Len(L)] = e
        /\ \A i \in 1 .. Len(L) - 1 : D[i] = L[i]
    <3>1. L \in Seq(CutT) /\ L # <<>> /\ e \in CutT
      BY <1>1, <2>3, <2>4
    <3>2. /\ Len(Append(Front(L), e)) = Len(L) /\ Append(Front(L), e)[Len(L)] = e
          /\ \A i \in 1 .. Len(L) - 1 : Append(Front(L), e)[i] = L[i]
      BY <3>1, LastReplaced
    <3> QED BY <2>5, <3>2
  <2>8. \A i \in 1 .. Len(L) : i \in 1 .. Len(L) - 1 \/ i = Len(L)
    BY <1>1
  <2>9. \A i \in 1 .. Len(D) : D[i].end <= total
    BY <2>4, <2>7, <2>8
  <2>10. ASSUME NEW t \in Nat, e.start <= t, t < e.end
         PROVE  (l.start <= t /\ t < l.end) \/ InTail(t, L, total, V)
    <3>1. CASE t < l.end
      BY <2>4, <2>10, <3>1
    <3>2. CASE ~ (t < l.end)
      <4>1. ~ l.confirmed /\ ~ l.pinned /\ total - l.end < PostRoll
        BY <1>3, <2>4 DEF l
      <4>2. l.end <= t /\ t < total
        BY <2>4, <2>10, <3>2
      <4>3. \A w \in V : w.end <= l.end \/ total <= w.start
        <5>1. ~ Crosses(l.end, total, V)
          BY <1>3 DEF l
        <5>2. l.end < total
          BY <2>4, <4>2
        <5>3. \A w \in V : ~ (w.start < total /\ l.end < w.end)
          BY <5>1, <5>2 DEF Crosses, Meet
        <5> QED BY <2>4, <5>3 DEF RealSpans, SpanT
      <4> QED BY <2>2, <4>1, <4>2, <4>3 DEF InTail
    <3> QED BY <3>1, <3>2
  <2>11. ASSUME NEW i \in 1 .. Len(D), NEW t \in Nat, D[i].start <= t, t < D[i].end
         PROVE  (L[i].start <= t /\ t < L[i].end) \/ InTail(t, L, total, V)
    <3>1. CASE i \in 1 .. Len(L) - 1
      BY <2>7, <2>11, <3>1
    <3>2. CASE i = Len(L)
      BY <2>2, <2>7, <2>10, <2>11, <3>2
    <3> QED BY <2>7, <2>8, <3>1, <3>2
  <2> QED BY <2>6, <2>7, <2>9, <2>11 DEF Stretched, D
<1> QED BY <1>2, <1>3

\* What is to be said of the cuts a render applies.
Explains(c, L, P, ads, total, B, W) ==
  /\ Row(c, total)
  /\ Parts(P, ads, total, W)
  /\ Kept(L, P)
  /\ \A i \in 1 .. Len(L) : L[i].end <= total
  /\ Explained(c, L, P, total, B \cup W)

\* The applied cuts come from parts of the requests, narrow gaps between, and a tail.
LEMMA AppliedDoes ==
  ASSUME NEW ads \in Seq(AdT), Separate(ads), NEW total \in Nat,
         NEW B, RealSpans(B), NEW W, IsFiniteSet(W), RealSpans(W),
         MergeGap \in Nat \ {0}, MinAd \in Nat, PostRoll \in Nat, Beep \in Nat
  PROVE  \E L, P : Explains(Applied(ads, total, B, W), L, P, ads, total, B, W)
<1> DEFINE V == B \cup W
           s == ByStart(Carved(Clipped(ads, total), W))
           P == ToSet(s)
           M == Merged(s, V)
           L == Those(M, {i \in DOMAIN M : LongEnough(M[i])})
           D == Extended(L, total, V)
           c == [i \in DOMAIN D |-> Stamped(D[i])]
<1>1. c = Applied(ads, total, B, W)
  BY DEF Applied
<1>2. RealSpans(V)
  BY DEF RealSpans
<1>3. /\ s \in Seq(AdT) /\ Separate(s)
      /\ \A i \in 1 .. Len(s) : s[i].start < s[i].end
      /\ \A i, j \in 1 .. Len(s) : i < j => s[i].start <= s[j].start
      /\ Parts(P, ads, total, W)
  BY PartsInOrder
<1> HIDE DEF s, V
<1>4. MergeInv(M, P, V)
  BY <1>2, <1>3, MergedDoes
<1>5. P \subseteq AdT
  BY <1>3 DEF Parts
<1> HIDE DEF P, M
<1>6. Kept(L, P) /\ \A k \in 1 .. Len(L) : \E i \in 1 .. Len(M) : L[k] = M[i]
  BY <1>4, <1>5, LongAreKept
<1> HIDE DEF L
<1>7. InARow(L)
  BY <1>6 DEF Kept
<1>8. \A i \in 1 .. Len(L) : L[i].end <= total
  <2> TAKE i \in 1 .. Len(L)
  <2>1. PICK x \in P : L[i].end = x.end
    BY <1>6 DEF Kept, Edged
  <2>2. x.end <= total
    BY <1>3, <2>1 DEF Parts, PartOf
  <2> QED BY <2>1, <2>2
<1>9. Stretched(D, L, total, V)
  BY <1>2, <1>7, <1>8, ExtendedDoes
<1> HIDE DEF D
<1>10. /\ D \in Seq(CutT) /\ Len(D) \in Nat /\ DOMAIN D = 1 .. Len(D)
       /\ \A i \in 1 .. Len(D) : D[i] \in CutT /\ D[i].start < D[i].end /\ D[i].end <= total
       /\ \A i, j \in 1 .. Len(D) : i < j => D[i].end <= D[j].start
       /\ Len(D) = Len(L)
  BY <1>9 DEF Stretched, InARow
<1>11. \A i \in 1 .. Len(D) : c[i] \in StampT /\ c[i].start = D[i].start /\ c[i].end = D[i].end
  BY <1>10, StampedIs
<1>12. c \in Seq(StampT) /\ Len(c) = Len(D)
  BY <1>10, <1>11
<1> HIDE DEF c
<1>13. Row(c, total)
  BY <1>10, <1>11, <1>12 DEF Row
<1>14. Explained(c, L, P, total, V)
  <2> SUFFICES ASSUME NEW i \in 1 .. Len(c), NEW t \in Nat, c[i].start <= t, t < c[i].end
               PROVE  InPart(t, P) \/ InGap(t, P, V) \/ InTail(t, L, total, V)
    BY DEF Explained
  <2>1. i \in 1 .. Len(L) /\ ((L[i].start <= t /\ t < L[i].end) \/ InTail(t, L, total, V))
    BY <1>9, <1>10, <1>11, <1>12 DEF Stretched
  <2>2. CASE L[i].start <= t /\ t < L[i].end
    <3>1. PICK j \in 1 .. Len(M) : L[i] = M[j]
      BY <1>6, <2>1
    <3>2. MadeOf(M[j], P, V)
      BY <1>4, <3>1 DEF MergeInv
    <3> QED BY <2>2, <3>1, <3>2 DEF MadeOf, InPart, InGap
  <2> QED BY <2>1, <2>2
<1>15. Explains(c, L, P, ads, total, B, W)
  BY <1>3, <1>6, <1>8, <1>13, <1>14 DEF Explains, V
<1> QED BY <1>1, <1>15
-----------------------------------------------------------------------------
(* Rendering.                                                                *)

\* The file so far: up to where in the audio it has come, and what it plays.
Reel(S) == [at : Nat, out : Seq(S)]
SpliceIn(r, cut, a) ==
  [at  |-> cut.end,
   out |-> r.out \o SubSeq(a, r.at + 1, cut.start) \o [i \in 1 .. cut.fill |-> Filler]]

\* Two lists in one.
LEMMA Concats ==
  ASSUME NEW S, NEW s \in Seq(S), NEW t \in Seq(S)
  PROVE  /\ s \o t \in Seq(S) /\ Len(s \o t) = Len(s) + Len(t)
         /\ Len(s) \in Nat /\ Len(t) \in Nat
         /\ \A i \in 1 .. Len(s) : (s \o t)[i] = s[i]
         /\ \A i \in Len(s) + 1 .. Len(s) + Len(t) : (s \o t)[i] = t[i - Len(s)]
<1>1. /\ s \o t \in Seq(S) /\ Len(s \o t) = Len(s) + Len(t)
      /\ \A i \in 1 .. Len(s) + Len(t) : (s \o t)[i] = IF i <= Len(s) THEN s[i] ELSE t[i - Len(s)]
      /\ Len(s) \in Nat /\ Len(t) \in Nat
  BY ConcatProperties
<1>2. ASSUME NEW i \in 1 .. Len(s) PROVE (s \o t)[i] = s[i]
  BY <1>1
<1>3. ASSUME NEW i \in Len(s) + 1 .. Len(s) + Len(t) PROVE (s \o t)[i] = t[i - Len(s)]
  BY <1>1
<1> QED BY <1>1, <1>2, <1>3

\* A sequence with a stretch of another and a filler after it.
LEMMA SplicedIs ==
  ASSUME NEW S, NEW o \in Seq(S), NEW m \in Nat, NEW n \in Nat, NEW f \in Nat, NEW a,
         \A i \in Nat : a[i] \in S, Filler \in S
  PROVE  LET q == o \o SubSeq(a, m + 1, n) \o [i \in 1 .. f |-> Filler]
         IN  /\ q \in Seq(S)
             /\ m <= n => /\ Len(q) = Len(o) + (n - m) + f
                          /\ \A i \in 1 .. Len(o) : q[i] = o[i]
                          /\ \A i \in Len(o) + 1 .. Len(o) + (n - m) : q[i] = a[i - Len(o) + m]
                          /\ \A i \in Len(o) + (n - m) + 1 .. Len(q) : q[i] = Filler
<1> DEFINE u == SubSeq(a, m + 1, n)
           v == [i \in 1 .. f |-> Filler]
<1>1. /\ u \in Seq(S)
      /\ Len(u) = IF m + 1 <= n THEN n - (m + 1) + 1 ELSE 0
      /\ \A i \in 1 .. n - (m + 1) + 1 : u[i] = a[(m + 1) + i - 1]
  <2> DEFINE k == m + 1
  <2>1. k \in Int /\ n \in Int /\ \A i \in k .. n : a[i] \in S
    OBVIOUS
  <2> HIDE DEF k
  <2>2. /\ SubSeq(a, k, n) \in Seq(S)
        /\ Len(SubSeq(a, k, n)) = IF k <= n THEN n - k + 1 ELSE 0
        /\ \A i \in 1 .. n - k + 1 : SubSeq(a, k, n)[i] = a[k + i - 1]
    BY <2>1, SubSeqProperties
  <2> QED BY <2>2 DEF k
<1>2. v \in Seq(S) /\ Len(v) = f /\ \A i \in 1 .. f : v[i] = Filler
  OBVIOUS
<1> HIDE DEF u, v
<1>3. m <= n => Len(u) = n - m
  BY <1>1
<1>4. \A i \in 1 .. n - m : u[i] = a[m + i]
  <2> TAKE i \in 1 .. n - m
  <2>1. i \in 1 .. n - (m + 1) + 1 /\ (m + 1) + i - 1 = m + i
    OBVIOUS
  <2> QED BY <1>1, <2>1
<1> DEFINE p == o \o u
<1>5. /\ p \in Seq(S) /\ Len(p) = Len(o) + Len(u) /\ Len(o) \in Nat /\ Len(u) \in Nat
      /\ \A i \in 1 .. Len(o) : p[i] = o[i]
      /\ \A i \in Len(o) + 1 .. Len(o) + Len(u) : p[i] = u[i - Len(o)]
  BY <1>1, Concats
<1> HIDE DEF p
<1> DEFINE q == p \o v
<1>6. /\ q \in Seq(S) /\ Len(q) = Len(p) + f
      /\ \A i \in 1 .. Len(p) : q[i] = p[i]
      /\ \A i \in Len(p) + 1 .. Len(p) + f : q[i] = v[i - Len(p)]
  <2>1. p \in Seq(S)
    BY <1>5
  <2> QED BY <1>2, <2>1, Concats
<1> HIDE DEF q
<1>7. ASSUME m <= n
      PROVE  /\ Len(q) = Len(o) + (n - m) + f
             /\ \A i \in 1 .. Len(o) : q[i] = o[i]
             /\ \A i \in Len(o) + 1 .. Len(o) + (n - m) : q[i] = a[i - Len(o) + m]
             /\ \A i \in Len(o) + (n - m) + 1 .. Len(q) : q[i] = Filler
  <2>1. Len(p) = Len(o) + (n - m) /\ Len(q) = Len(o) + (n - m) + f
    BY <1>3, <1>5, <1>6, <1>7
  <2>2. \A i \in 1 .. Len(o) : q[i] = o[i]
    BY <1>5, <1>6, <1>7, <2>1
  <2>3. \A i \in Len(o) + 1 .. Len(o) + (n - m) : q[i] = a[i - Len(o) + m]
    <3> TAKE i \in Len(o) + 1 .. Len(o) + (n - m)
    <3>0. i \in 1 .. Len(p) /\ i \in Len(o) + 1 .. Len(o) + Len(u)
      BY <1>3, <1>5, <1>7, <2>1
    <3>1. q[i] = u[i - Len(o)]
      BY <1>5, <1>6, <3>0
    <3>2. i - Len(o) \in 1 .. n - m /\ m + (i - Len(o)) = i - Len(o) + m
      BY <1>5
    <3> QED BY <1>4, <3>1, <3>2
  <2>4. \A i \in Len(o) + (n - m) + 1 .. Len(q) : q[i] = Filler
    <3> TAKE i \in Len(o) + (n - m) + 1 .. Len(q)
    <3>1. q[i] = v[i - Len(p)] /\ i - Len(p) \in 1 .. f
      BY <1>5, <1>6, <1>7, <2>1
    <3> QED BY <1>2, <3>1
  <2> QED BY <2>1, <2>2, <2>3, <2>4
<1> QED BY <1>6, <1>7 DEF q, p, u, v

\* A splice is a reel again.
LEMMA SpliceInType ==
  ASSUME NEW S, NEW r \in Reel(S), NEW cut \in StampT, NEW a, \A i \in Nat : a[i] \in S, Filler \in S
  PROVE  SpliceIn(r, cut, a) \in Reel(S)
<1>1. /\ r.out \in Seq(S) /\ r.at \in Nat /\ cut.start \in Nat /\ cut.end \in Nat /\ cut.fill \in Nat
  BY DEF Reel, StampT
<1>2. r.out \o SubSeq(a, r.at + 1, cut.start) \o [i \in 1 .. cut.fill |-> Filler] \in Seq(S)
  BY <1>1, SplicedIs
<1> QED BY <1>1, <1>2 DEF SpliceIn, Reel

\* h runs through the cuts, and comes to what Render does.
RenderRun(h, a, c) ==
  /\ h[0] = [at |-> 0, out |-> <<>>]
  /\ \A k \in 1 .. Len(c) : h[k] = SpliceIn(h[k - 1], c[k], a)
  /\ Render(a, c) = h[Len(c)].out \o SubSeq(a, h[Len(c)].at + 1, Len(a))
  /\ \A k \in 0 .. Len(c) : h[k] \in Reel({a[i] : i \in Nat} \cup {Filler})

\* Render splices the cuts in one after the other.
LEMMA RenderRuns ==
  ASSUME NEW c \in Seq(StampT), NEW a
  PROVE  \E h : RenderRun(h, a, c)
<1> DEFINE n == Len(c)
           S == {a[i] : i \in Nat} \cup {Filler}
           T == Reel(S)
           D == DOMAIN c
           b == [at |-> 0, out |-> <<>>]
           Body(g) == [s \in SUBSET D |->
                         IF s = {} THEN b ELSE SpliceIn(g[s \ {Max(s)}], c[Max(s)], a)]
           f == CHOOSE g : g = Body(g)
           op == [k \in 1 .. n |-> [t \in T |-> SpliceIn(t, c[k], a)]]
<1>0. n \in Nat /\ D = 1 .. n /\ \A k \in 1 .. n : c[k] \in StampT
  OBVIOUS
<1>00. (\A i \in Nat : a[i] \in S) /\ Filler \in S
  OBVIOUS
<1>1. Render(a, c) = f[D].out \o SubSeq(a, f[D].at + 1, Len(a))
  BY DEF Render, FoldLeft, MapThenFoldSet, SpliceIn
<1> HIDE DEF D, n, S
<1>01. \A t \in T, k \in 1 .. n : SpliceIn(t, c[k], a) \in T
  BY <1>0, <1>00, SpliceInType
<1>3. b \in T
  BY DEF Reel
<1> HIDE DEF T
<1>2. Steps(op, n, T)
  BY <1>01 DEF Steps
<1>4. PICK g : Works(g, op, b, n, T)
  <2> HIDE DEF op, b
  <2> QED BY <1>0, <1>2, <1>3, FoldExists
<1>5. g = Body(g)
  <2>1. ASSUME NEW s \in SUBSET D
        PROVE  g[s] = IF s = {} THEN b ELSE SpliceIn(g[s \ {Max(s)}], c[Max(s)], a)
    <3> HIDE DEF b
    <3>1. /\ s = {} => g[s] = b
          /\ s # {} => Max(s) \in 1 .. n /\ g[s] = op[Max(s)][g[s \ {Max(s)}]]
      BY <1>0, <1>4 DEF Works
    <3>2. g[s \ {Max(s)}] \in T
      BY <1>0, <1>4 DEF Works
    <3>3. s # {} => op[Max(s)][g[s \ {Max(s)}]] = SpliceIn(g[s \ {Max(s)}], c[Max(s)], a)
      BY <3>1, <3>2
    <3> QED BY <3>1, <3>3
  <2>2. g = [s \in SUBSET D |-> g[s]]
    BY <1>0, <1>4 DEF Works
  <2> HIDE DEF b
  <2> QED BY <2>1, <2>2
<1>6. f = Body(f)
  <2> HIDE DEF Body
  <2> QED BY <1>5
<1> HIDE DEF f
<1>7. \A s \in SUBSET D : f[s] = IF s = {} THEN b ELSE SpliceIn(f[s \ {Max(s)}], c[Max(s)], a)
  <2> HIDE DEF b
  <2> QED BY <1>6
<1> HIDE DEF b
<1> DEFINE h == [k \in 0 .. n |-> f[1 .. k]]
<1>8. h[0] = b
  <2>1. 1 .. 0 = {} /\ {} \in SUBSET D /\ 0 \in 0 .. n
    BY <1>0
  <2>2. f[{}] = b
    BY <1>7, <2>1
  <2> QED BY <2>1, <2>2
<1>9. ASSUME NEW k \in 1 .. n PROVE h[k] = SpliceIn(h[k - 1], c[k], a)
  <2>1. Max(1 .. k) = k
    <3>1. k \in 1 .. k /\ 1 .. k \subseteq Int /\ \A y \in 1 .. k : y <= k
      BY <1>0
    <3> QED BY <3>1, MaxIs
  <2>2. (1 .. k) \ {k} = 1 .. k - 1 /\ k \in 1 .. k /\ 1 .. k \in SUBSET D /\ k - 1 \in 0 .. n /\ k \in 0 .. n
    BY <1>0
  <2>3. f[1 .. k] = SpliceIn(f[1 .. k - 1], c[k], a)
    BY <1>7, <2>1, <2>2
  <2> QED BY <2>2, <2>3
<1>11. h[n] = f[D]
  BY <1>0
<1> HIDE DEF h
<1>10. \A k \in 0 .. n : h[k] \in T
  <2> DEFINE G == {k \in 0 .. n : h[k] \in T}
  <2>1. 0 \in G
    BY <1>0, <1>3, <1>8
  <2>2. ASSUME NEW k \in 1 .. n, k - 1 \in G PROVE k \in G
    <3>0. h[k - 1] \in T /\ k \in 0 .. n
      BY <1>0, <2>2
    <3>1. h[k] \in T
      BY <1>01, <1>9, <3>0
    <3> QED BY <3>0, <3>1
  <2> HIDE DEF G
  <2>3. \A k \in 0 .. n : k \in G
    BY <1>0, <2>1, <2>2, CountUp
  <2> QED BY <2>3 DEF G
<1>12. RenderRun(h, a, c)
  BY <1>1, <1>8, <1>9, <1>10, <1>11 DEF RenderRun, n, b, T, S
<1> QED BY <1>12

\* off[k]: how much shorter the file is for the first k cuts.
Offs(off, c) ==
  /\ off \in [0 .. Len(c) -> Int] /\ off[0] = 0
  /\ \A k \in 1 .. Len(c) : off[k] = off[k - 1] + (c[k].end - c[k].start) - c[k].fill

\* There is such a count.
LEMMA OffsExist ==
  ASSUME NEW c \in Seq(StampT)
  PROVE  \E off : Offs(off, c)
<1> DEFINE n == Len(c)
           op == [k \in 1 .. n |-> [t \in Int |-> t + (c[k].end - c[k].start) - c[k].fill]]
<1>1. n \in Nat /\ \A k \in 1 .. n : c[k].end \in Nat /\ c[k].start \in Nat /\ c[k].fill \in Nat
  <2>1. n \in Nat /\ \A k \in 1 .. n : c[k] \in StampT
    OBVIOUS
  <2> HIDE DEF n
  <2> QED BY <2>1 DEF StampT
<1>2. Steps(op, n, Int)
  BY <1>1 DEF Steps
<1>3. PICK off : Iterates(off, op, 0, n, Int)
  <2>1. n \in Nat /\ 0 \in Int
    BY <1>1
  <2> HIDE DEF op, n
  <2> QED BY <1>2, <2>1, IterationExists
<1>4. off \in [0 .. n -> Int] /\ off[0] = 0 /\ \A k \in 1 .. n : off[k] = op[k][off[k - 1]]
  BY <1>3 DEF Iterates
<1>5. \A k \in 1 .. n : off[k] = off[k - 1] + (c[k].end - c[k].start) - c[k].fill
  <2> TAKE k \in 1 .. n
  <2>1. k - 1 \in 0 .. n
    BY <1>1
  <2> HIDE DEF n
  <2>2. off[k - 1] \in Int
    BY <1>4, <2>1
  <2> QED BY <1>4, <2>2
<1> QED BY <1>4, <1>5 DEF Offs

\* Up to where the audio is behind j cuts, and where the next begins.
After(c, j) == IF j = 0 THEN 0 ELSE c[j].end
Until(c, j, total) == IF j = Len(c) THEN total ELSE c[j + 1].start

\* The places of the file where it plays what is between two cuts, and its fillers.
Plays(p, c, off, j, total) == After(c, j) - off[j] < p /\ p <= Until(c, j, total) - off[j]
Fills(p, c, off, j) == c[j].start - off[j - 1] < p /\ p <= c[j].end - off[j]

\* The file is laid out up to the k-th cut.
LaidOut(o, a, c, off, k, total) ==
  /\ Len(o) = After(c, k) - off[k]
  /\ \A j \in 0 .. k - 1, p \in Int : Plays(p, c, off, j, total) => p \in 1 .. Len(o) /\ o[p] = a[p + off[j]]
  /\ \A j \in 1 .. k, p \in Int : Fills(p, c, off, j) => p \in 1 .. Len(o) /\ o[p] = Filler
  /\ \A p \in 1 .. Len(o) : \/ \E j \in 0 .. k - 1 : Plays(p, c, off, j, total)
                            \/ \E j \in 1 .. k : Fills(p, c, off, j)

\* A row of cuts in numbers.
LEMMA RowIs ==
  ASSUME NEW total \in Nat, NEW c, Row(c, total), NEW off, Offs(off, c)
  PROVE  /\ Len(c) \in Nat
         /\ \A k \in 1 .. Len(c) : /\ c[k] \in StampT
                                   /\ c[k].start \in Nat /\ c[k].end \in Nat /\ c[k].fill \in Nat
                                   /\ c[k].start < c[k].end /\ c[k].end <= total
                                   /\ off[k] = off[k - 1] + (c[k].end - c[k].start) - c[k].fill
         /\ \A k \in 0 .. Len(c) : /\ off[k] \in Int
                                   /\ After(c, k) \in Nat /\ Until(c, k, total) \in Nat
                                   /\ After(c, k) <= Until(c, k, total)
         /\ \A k \in 1 .. Len(c) : Until(c, k - 1, total) = c[k].start /\ After(c, k) = c[k].end
         /\ off[0] = 0 /\ After(c, 0) = 0 /\ Until(c, Len(c), total) = total
<1>1. /\ Len(c) \in Nat
      /\ \A k \in 1 .. Len(c) : /\ c[k] \in StampT
                                /\ c[k].start < c[k].end /\ c[k].end <= total
      /\ \A i, j \in 1 .. Len(c) : i < j => c[i].end <= c[j].start
  BY DEF Row
<1>2. \A k \in 1 .. Len(c) : c[k].start \in Nat /\ c[k].end \in Nat /\ c[k].fill \in Nat
  BY <1>1 DEF StampT
<1>3. off[0] = 0 /\ After(c, 0) = 0 /\ Until(c, Len(c), total) = total
  BY DEF Offs, After, Until
<1>4. /\ \A k \in 1 .. Len(c) : off[k] = off[k - 1] + (c[k].end - c[k].start) - c[k].fill
      /\ \A k \in 0 .. Len(c) : off[k] \in Int
  BY DEF Offs
<1>5. \A k \in 1 .. Len(c) : Until(c, k - 1, total) = c[k].start /\ After(c, k) = c[k].end
  BY <1>1 DEF After, Until
<1>6. ASSUME NEW k \in 0 .. Len(c)
      PROVE  /\ After(c, k) \in Nat /\ Until(c, k, total) \in Nat
             /\ After(c, k) <= Until(c, k, total)
  <2>1. k \in 1 .. Len(c) => c[k].end \in Nat /\ c[k].end <= total
    BY <1>1, <1>2
  <2>2. k # Len(c) => k + 1 \in 1 .. Len(c)
    BY <1>1
  <2>3. k # Len(c) => c[k + 1].start \in Nat
    BY <1>2, <2>2
  <2>4. k # Len(c) /\ k # 0 => c[k].end <= c[k + 1].start
    BY <1>1, <2>2
  <2>5. k = 0 \/ k \in 1 .. Len(c)
    BY <1>1
  <2>6. CASE k = 0
    BY <2>3, <2>6 DEF After, Until
  <2>7. CASE k # 0
    BY <2>1, <2>3, <2>4, <2>5, <2>7 DEF After, Until
  <2> QED BY <2>6, <2>7
<1> QED BY <1>1, <1>2, <1>3, <1>4, <1>5, <1>6

Holds(S, a) == Filler \in S /\ \A i \in Nat : a[i] \in S

\* One more cut is laid out.
LEMMA NextLaidOut ==
  ASSUME NEW total \in Nat, NEW c, Row(c, total), NEW off, Offs(off, c),
         NEW S, NEW a, Holds(S, a),
         NEW k \in 1 .. Len(c), NEW r \in Reel(S), r.at = After(c, k - 1),
         LaidOut(r.out, a, c, off, k - 1, total)
  PROVE  /\ SpliceIn(r, c[k], a) \in Reel(S)
         /\ SpliceIn(r, c[k], a).at = After(c, k)
         /\ LaidOut(SpliceIn(r, c[k], a).out, a, c, off, k, total)
<1> DEFINE q == SpliceIn(r, c[k], a).out
           o == r.out
           A == After(c, k - 1)
           B == c[k].start
           E == c[k].end
           F == c[k].fill
           x == off[k - 1]
           y == off[k]
<1>1. /\ Len(c) \in Nat /\ k \in Nat /\ A \in Nat /\ B \in Nat /\ E \in Nat /\ F \in Nat
      /\ A <= B /\ B < E /\ x \in Int /\ y \in Int /\ y = x + (E - B) - F
      /\ Until(c, k - 1, total) = B /\ After(c, k) = E /\ c[k] \in StampT
  BY RowIs
<1>2. o \in Seq(S) /\ r.at = A
  BY DEF Reel
<1>3. /\ Len(o) = A - x
      /\ \A j \in 0 .. k - 2, p \in Int : Plays(p, c, off, j, total) => p \in 1 .. Len(o) /\ o[p] = a[p + off[j]]
      /\ \A j \in 1 .. k - 1, p \in Int : Fills(p, c, off, j) => p \in 1 .. Len(o) /\ o[p] = Filler
      /\ \A p \in 1 .. Len(o) : \/ \E j \in 0 .. k - 2 : Plays(p, c, off, j, total)
                                \/ \E j \in 1 .. k - 1 : Fills(p, c, off, j)
  <2>1. (k - 1) - 1 = k - 2
    BY <1>1
  <2> QED BY <2>1 DEF LaidOut
<1>4. /\ SpliceIn(r, c[k], a) \in Reel(S) /\ SpliceIn(r, c[k], a).at = After(c, k)
  BY <1>1, SpliceInType DEF SpliceIn, Holds
<1>5. q = o \o SubSeq(a, A + 1, B) \o [i \in 1 .. F |-> Filler]
  BY <1>2 DEF SpliceIn
<1>6. \A p : Plays(p, c, off, k - 1, total) <=> A - x < p /\ p <= B - x
  BY <1>1 DEF Plays
<1>7. \A p : Fills(p, c, off, k) <=> B - x < p /\ p <= E - y
  BY DEF Fills
<1> HIDE DEF q, o, A, B, E, F, x, y
<1>8. /\ Len(q) = Len(o) + (B - A) + F /\ Len(o) \in Nat
      /\ \A i \in 1 .. Len(o) : q[i] = o[i]
      /\ \A i \in Len(o) + 1 .. Len(o) + (B - A) : q[i] = a[i - Len(o) + A]
      /\ \A i \in Len(o) + (B - A) + 1 .. Len(q) : q[i] = Filler
  <2>1. \A i \in Nat : a[i] \in S /\ Filler \in S
    BY DEF Holds
  <2>2. A \in Nat /\ B \in Nat /\ F \in Nat /\ A <= B /\ o \in Seq(S)
    BY <1>1, <1>2
  <2> DEFINE w == o \o SubSeq(a, A + 1, B) \o [i \in 1 .. F |-> Filler]
  <2>3. /\ Len(w) = Len(o) + (B - A) + F
        /\ \A i \in 1 .. Len(o) : w[i] = o[i]
        /\ \A i \in Len(o) + 1 .. Len(o) + (B - A) : w[i] = a[i - Len(o) + A]
        /\ \A i \in Len(o) + (B - A) + 1 .. Len(w) : w[i] = Filler
    BY <2>1, <2>2, SplicedIs
  <2> HIDE DEF w
  <2> QED BY <1>5, <2>2, <2>3 DEF w
<1>9. Len(q) = E - y /\ Len(o) + (B - A) = B - x /\ Len(q) \in Nat /\ Len(o) <= B - x /\ B - x <= Len(q) /\ Len(o) \in Nat
  BY <1>1, <1>3, <1>8
<1>10. ASSUME NEW j \in 0 .. k - 1, NEW p \in Int, Plays(p, c, off, j, total)
       PROVE  p \in 1 .. Len(q) /\ q[p] = a[p + off[j]]
  <2>1. CASE j = k - 1
    <3>1. p \in Len(o) + 1 .. Len(o) + (B - A)
      BY <1>1, <1>3, <1>6, <1>9, <1>10, <2>1
    <3>2. q[p] = a[p - Len(o) + A] /\ p - Len(o) + A = p + x
      BY <1>1, <1>3, <1>8, <3>1
    <3>3. p \in 1 .. Len(q)
      BY <1>1, <1>9, <3>1
    <3> QED BY <2>1, <3>2, <3>3 DEF x
  <2>2. CASE j \in 0 .. k - 2
    <3>1. p \in 1 .. Len(o) /\ o[p] = a[p + off[j]]
      BY <1>3, <1>10, <2>2
    <3>2. p \in 1 .. Len(q)
      BY <1>1, <1>9, <3>1
    <3> QED BY <1>8, <3>1, <3>2
  <2>3. j = k - 1 \/ j \in 0 .. k - 2
    BY <1>1
  <2> QED BY <2>1, <2>2, <2>3
<1>11. ASSUME NEW j \in 1 .. k, NEW p \in Int, Fills(p, c, off, j)
       PROVE  p \in 1 .. Len(q) /\ q[p] = Filler
  <2>1. CASE j = k
    <3>1. p \in Len(o) + (B - A) + 1 .. Len(q)
      BY <1>1, <1>7, <1>9, <1>11, <2>1
    <3>2. p \in 1 .. Len(q)
      BY <1>1, <1>9, <3>1
    <3> QED BY <1>8, <3>1, <3>2
  <2>2. CASE j \in 1 .. k - 1
    <3>1. p \in 1 .. Len(o) /\ o[p] = Filler
      BY <1>3, <1>11, <2>2
    <3>2. p \in 1 .. Len(q)
      BY <1>1, <1>9, <3>1
    <3> QED BY <1>8, <3>1, <3>2
  <2>3. j = k \/ j \in 1 .. k - 1
    BY <1>1
  <2> QED BY <2>1, <2>2, <2>3
<1>12. ASSUME NEW p \in 1 .. Len(q)
       PROVE  \/ \E j \in 0 .. k - 1 : Plays(p, c, off, j, total)
              \/ \E j \in 1 .. k : Fills(p, c, off, j)
  <2>1. CASE p \in 1 .. Len(o)
    <3>1. 0 .. k - 2 \subseteq 0 .. k - 1 /\ 1 .. k - 1 \subseteq 1 .. k
      BY <1>1
    <3> QED BY <1>3, <2>1, <3>1
  <2>2. CASE Len(o) < p /\ p <= B - x
    <3>1. Plays(p, c, off, k - 1, total)
      BY <1>3, <1>6, <2>2
    <3> QED BY <1>1, <3>1
  <2>3. CASE B - x < p
    <3>1. Fills(p, c, off, k)
      BY <1>7, <1>9, <2>3
    <3> QED BY <1>1, <3>1
  <2>4. p \in 1 .. Len(o) \/ (Len(o) < p /\ p <= B - x) \/ B - x < p
    BY <1>1, <1>8
  <2> QED BY <2>1, <2>2, <2>3, <2>4
<1>13. LaidOut(q, a, c, off, k, total)
  <2>1. Len(q) = After(c, k) - off[k]
    BY <1>1, <1>9 DEF y
  <2> QED BY <2>1, <1>10, <1>11, <1>12 DEF LaidOut
<1> QED BY <1>4, <1>13 DEF q

\* The file o is the audio a with the cuts c taken out and their fillers put in.
Laid(o, a, c, off) ==
  /\ o \in Seq(ToSet(a) \cup {Filler})
  /\ Len(o) = Len(a) - off[Len(c)]
  /\ \A j \in 0 .. Len(c), p \in Int : Plays(p, c, off, j, Len(a)) => p \in 1 .. Len(o) /\ o[p] = a[p + off[j]]
  /\ \A j \in 1 .. Len(c), p \in Int : Fills(p, c, off, j) => p \in 1 .. Len(o) /\ o[p] = Filler
  /\ \A p \in 1 .. Len(o) : \/ \E j \in 0 .. Len(c) : Plays(p, c, off, j, Len(a))
                            \/ \E j \in 1 .. Len(c) : Fills(p, c, off, j)

\* Between the cuts the file plays what the audio has.
LEMMA PlaysInside ==
  ASSUME NEW total \in Nat, NEW c, Row(c, total), NEW off, Offs(off, c),
         NEW j \in 0 .. Len(c), NEW p \in Int, Plays(p, c, off, j, total)
  PROVE  /\ p + off[j] \in 1 .. total
         /\ After(c, j) < p + off[j] /\ p + off[j] <= Until(c, j, total)
<1>1. /\ off[j] \in Int /\ After(c, j) \in Nat /\ Until(c, j, total) \in Nat
  BY RowIs
<1>2. Until(c, j, total) <= total
  <2>1. CASE j = Len(c)
    BY <2>1 DEF Until
  <2>2. CASE j # Len(c)
    <3>1. Len(c) \in Nat
      BY RowIs
    <3>2. j + 1 \in 1 .. Len(c)
      BY <2>2, <3>1
    <3>3. c[j + 1].end <= total /\ c[j + 1].start < c[j + 1].end /\ c[j + 1].start \in Nat /\ c[j + 1].end \in Nat
      BY <3>2, RowIs
    <3> QED BY <2>2, <3>3 DEF Until
  <2> QED BY <2>1, <2>2
<1>3. After(c, j) < p + off[j] /\ p + off[j] <= Until(c, j, total)
  BY <1>1 DEF Plays
<1> QED BY <1>1, <1>2, <1>3

\* Render lays the file out.
LEMMA RenderDoes ==
  ASSUME NEW S, NEW a \in Seq(S), NEW c, Row(c, Len(a)), NEW off, Offs(off, c)
  PROVE  Laid(Render(a, c), a, c, off)
<1> DEFINE n == Len(c)
           U == {a[i] : i \in Nat} \cup {Filler}
           N == Len(a)
<1>1. c \in Seq(StampT) /\ n \in Nat /\ N \in Nat
  BY DEF Row
<1>2. PICK h : RenderRun(h, a, c)
  BY <1>1, RenderRuns
<1>3. Holds(U, a)
  BY DEF Holds
<1> HIDE DEF U
<1>4. /\ h[0] = [at |-> 0, out |-> <<>>]
      /\ \A k \in 1 .. n : h[k] = SpliceIn(h[k - 1], c[k], a)
      /\ Render(a, c) = h[n].out \o SubSeq(a, h[n].at + 1, N)
      /\ \A k \in 0 .. n : h[k] \in Reel(U)
  BY <1>2 DEF RenderRun, U
<1> DEFINE G == {k \in 0 .. n : h[k].at = After(c, k) /\ LaidOut(h[k].out, a, c, off, k, N)}
<1>5. 0 \in G
  <2>1. h[0].at = 0 /\ h[0].out = <<>> /\ 0 \in 0 .. n
    BY <1>1, <1>4
  <2>2. After(c, 0) = 0 /\ off[0] = 0
    BY <1>1, RowIs
  <2>3. LaidOut(<<>>, a, c, off, 0, N)
    <3>1. \A j : j \notin 0 .. 0 - 1 /\ j \notin 1 .. 0
      OBVIOUS
    <3> QED BY <2>2, <3>1 DEF LaidOut
  <2> QED BY <2>1, <2>2, <2>3
<1>6. ASSUME NEW k \in 1 .. n, k - 1 \in G PROVE k \in G
  <2>1. h[k - 1].at = After(c, k - 1) /\ LaidOut(h[k - 1].out, a, c, off, k - 1, N) /\ h[k - 1] \in Reel(U)
    BY <1>4, <1>6
  <2>2. h[k] = SpliceIn(h[k - 1], c[k], a) /\ k \in 0 .. n
    BY <1>1, <1>4
  <2>3. /\ SpliceIn(h[k - 1], c[k], a).at = After(c, k)
        /\ LaidOut(SpliceIn(h[k - 1], c[k], a).out, a, c, off, k, N)
    BY <1>1, <1>3, <2>1, NextLaidOut
  <2> QED BY <2>2, <2>3
<1>7. n \in G
  <2> HIDE DEF G
  <2>1. \A k \in 0 .. n : k \in G
    BY <1>1, <1>5, <1>6, CountUp
  <2> QED BY <1>1, <2>1
<1> DEFINE o == h[n].out
           A == After(c, n)
           u == SubSeq(a, A + 1, N)
           q == o \o u
           x == off[n]
<1>8. /\ o \in Seq(U) /\ Render(a, c) = q /\ A \in Nat /\ x \in Int /\ A <= N
      /\ Until(c, n, N) = N
  <2>1. h[n] \in Reel(U) /\ h[n].at = A
    BY <1>1, <1>4, <1>7
  <2>2. o \in Seq(U)
    BY <2>1 DEF Reel
  <2> QED BY <1>1, <1>4, <2>1, <2>2, RowIs
<1>9. /\ Len(o) = A - x
      /\ \A j \in 0 .. n - 1, p \in Int : Plays(p, c, off, j, N) => p \in 1 .. Len(o) /\ o[p] = a[p + off[j]]
      /\ \A j \in 1 .. n, p \in Int : Fills(p, c, off, j) => p \in 1 .. Len(o) /\ o[p] = Filler
      /\ \A p \in 1 .. Len(o) : \/ \E j \in 0 .. n - 1 : Plays(p, c, off, j, N)
                                \/ \E j \in 1 .. n : Fills(p, c, off, j)
  BY <1>7 DEF LaidOut
<1>10. \A p : Plays(p, c, off, n, N) <=> A - x < p /\ p <= N - x
  BY <1>8 DEF Plays
<1> HIDE DEF o, n, A, N, x
<1>11. /\ u \in Seq(U) /\ Len(u) = N - A
       /\ \A i \in 1 .. N - A : u[i] = a[A + i]
  <2> DEFINE k == A + 1
  <2>1. k \in Int /\ N \in Int /\ \A i \in k .. N : a[i] \in U
    BY <1>1, <1>3, <1>8 DEF Holds
  <2>2. k = A + 1
    OBVIOUS
  <2> HIDE DEF k
  <2>3. /\ SubSeq(a, k, N) \in Seq(U)
        /\ Len(SubSeq(a, k, N)) = IF k <= N THEN N - k + 1 ELSE 0
        /\ \A i \in 1 .. N - k + 1 : SubSeq(a, k, N)[i] = a[k + i - 1]
    BY <2>1, SubSeqProperties
  <2>4. Len(SubSeq(a, k, N)) = N - A
    BY <1>1, <1>8, <2>2, <2>3
  <2>5. ASSUME NEW i \in 1 .. N - A PROVE SubSeq(a, k, N)[i] = a[A + i]
    <3>1. i \in 1 .. N - k + 1 /\ k + i - 1 = A + i
      BY <1>1, <1>8, <2>2
    <3> QED BY <2>3, <3>1
  <2> QED BY <2>3, <2>4, <2>5 DEF k
<1> HIDE DEF u
<1>12. /\ Len(q) = Len(o) + Len(u) /\ Len(o) \in Nat /\ Len(u) \in Nat
       /\ \A i \in 1 .. Len(o) : q[i] = o[i]
       /\ \A i \in Len(o) + 1 .. Len(o) + Len(u) : q[i] = u[i - Len(o)]
  BY <1>8, <1>11, Concats
<1> HIDE DEF q
<1>13. Len(q) = N - x /\ Len(o) = A - x /\ Len(o) \in Nat /\ Len(q) \in Nat /\ Len(o) <= Len(q)
  BY <1>1, <1>8, <1>9, <1>11, <1>12
<1>14. ASSUME NEW j \in 0 .. n, NEW p \in Int, Plays(p, c, off, j, N)
       PROVE  p \in 1 .. Len(q) /\ q[p] = a[p + off[j]]
  <2>1. CASE j = n
    <3>1. p \in Len(o) + 1 .. Len(o) + Len(u) /\ p \in 1 .. Len(q)
      BY <1>1, <1>8, <1>10, <1>11, <1>13, <1>14, <2>1
    <3>2. p - Len(o) \in 1 .. N - A /\ A + (p - Len(o)) = p + x
      BY <1>1, <1>8, <1>11, <1>13, <3>1
    <3>3. q[p] = u[p - Len(o)] /\ u[p - Len(o)] = a[A + (p - Len(o))]
      BY <1>11, <1>12, <3>1, <3>2
    <3> QED BY <2>1, <3>1, <3>2, <3>3 DEF x
  <2>2. CASE j \in 0 .. n - 1
    <3>1. p \in 1 .. Len(o) /\ o[p] = a[p + off[j]]
      BY <1>9, <1>14, <2>2
    <3>2. p \in 1 .. Len(q)
      BY <1>13, <3>1
    <3> QED BY <1>12, <3>1, <3>2
  <2>3. j = n \/ j \in 0 .. n - 1
    BY <1>1
  <2> QED BY <2>1, <2>2, <2>3
<1>15. ASSUME NEW j \in 1 .. n, NEW p \in Int, Fills(p, c, off, j)
       PROVE  p \in 1 .. Len(q) /\ q[p] = Filler
  <2>1. p \in 1 .. Len(o) /\ o[p] = Filler
    BY <1>9, <1>15
  <2>2. p \in 1 .. Len(q)
    BY <1>13, <2>1
  <2> QED BY <1>12, <2>1, <2>2
<1>16. ASSUME NEW p \in 1 .. Len(q)
       PROVE  \/ \E j \in 0 .. n : Plays(p, c, off, j, N)
              \/ \E j \in 1 .. n : Fills(p, c, off, j)
  <2>1. CASE p \in 1 .. Len(o)
    <3>1. 0 .. n - 1 \subseteq 0 .. n
      BY <1>1
    <3> QED BY <1>9, <2>1, <3>1
  <2>2. CASE p \notin 1 .. Len(o)
    <3>1. Plays(p, c, off, n, N)
      BY <1>1, <1>8, <1>10, <1>13, <2>2
    <3> QED BY <1>1, <3>1
  <2> QED BY <2>1, <2>2
<1>17. q \in Seq(ToSet(a) \cup {Filler})
  <2>1. ASSUME NEW p \in 1 .. Len(q) PROVE q[p] \in ToSet(a) \cup {Filler}
    <3>1. CASE \E j \in 0 .. n : Plays(p, c, off, j, N)
      <4>1. PICK j \in 0 .. n : Plays(p, c, off, j, N)
        BY <3>1
      <4>2. p \in Int /\ N \in Nat
        BY <1>1
      <4>3. p + off[j] \in 1 .. N
        BY <4>1, <4>2, PlaysInside DEF n, N
      <4>4. a[p + off[j]] \in ToSet(a)
        BY <4>3, Places DEF N
      <4> QED BY <1>14, <4>1, <4>2, <4>4
    <3>2. CASE \E j \in 1 .. n : Fills(p, c, off, j)
      BY <1>15, <3>2
    <3> QED BY <1>16, <3>1, <3>2
  <2>2. q \in Seq(U)
    BY <1>8, <1>11, Concats DEF q
  <2> QED BY <2>1, <2>2, <1>13
<1>18. Laid(q, a, c, off)
  BY <1>13, <1>14, <1>15, <1>16, <1>17 DEF Laid, n, N, x
<1> QED BY <1>8, <1>18 DEF n, A, N, u
-----------------------------------------------------------------------------
(* What the file plays.                                                      *)

Cutout(c, t) == \E i \in 1 .. Len(c) : c[i].start <= t /\ t < c[i].end
Between(c, j, t, total) == After(c, j) <= t /\ t < Until(c, j, total)

\* A tick is in a cut, or between two.
LEMMA TickIs ==
  ASSUME NEW total \in Nat, NEW c, Row(c, total), NEW t \in Nat, t < total, ~ Cutout(c, t)
  PROVE  \E j \in 0 .. Len(c) : Between(c, j, t, total)
<1> DEFINE n == Len(c)
           Some == \E j \in 0 .. n : Between(c, j, t, total)
           G == {k \in 0 .. n : Some \/ After(c, k) <= t}
<1>0. PICK off : Offs(off, c)
  BY OffsExist DEF Row
<1>1. /\ n \in Nat /\ After(c, 0) = 0 /\ Until(c, n, total) = total
      /\ \A k \in 1 .. n : /\ Until(c, k - 1, total) = c[k].start /\ After(c, k) = c[k].end
                           /\ c[k].start \in Nat /\ c[k].end \in Nat
  BY <1>0, RowIs
<1> HIDE DEF n
<1>2. 0 \in G
  BY <1>1
<1>3. ASSUME NEW k \in 1 .. n, k - 1 \in G PROVE k \in G
  <2>1. CASE Some
    BY <1>1, <2>1
  <2>2. CASE ~ Some
    <3>1. After(c, k - 1) <= t /\ k - 1 \in 0 .. n /\ k \in 0 .. n
      BY <1>1, <1>3, <2>2
    <3>2. ~ Between(c, k - 1, t, total)
      BY <2>2, <3>1
    <3>3. c[k].start <= t
      BY <1>1, <3>1, <3>2 DEF Between
    <3>4. ~ (t < c[k].end)
      BY <3>3 DEF Cutout, n
    <3> QED BY <1>1, <3>1, <3>4
  <2> QED BY <2>1, <2>2
<1>4. n \in G
  <2> HIDE DEF G
  <2>1. \A k \in 0 .. n : k \in G
    BY <1>1, <1>2, <1>3, CountUp
  <2> QED BY <1>1, <2>1
<1>5. Some
  <2>1. CASE After(c, n) <= t
    <3>1. Between(c, n, t, total) /\ n \in 0 .. n
      BY <1>1, <2>1 DEF Between
    <3> QED BY <3>1
  <2> QED BY <1>4, <2>1
<1> QED BY <1>5 DEF n

\* What is between two cuts is in none.
LEMMA BetweenIsKept ==
  ASSUME NEW total \in Nat, NEW c, Row(c, total), NEW t \in Nat,
         NEW j \in 0 .. Len(c), Between(c, j, t, total)
  PROVE  ~ Cutout(c, t)
<1>1. SUFFICES ASSUME NEW i \in 1 .. Len(c), c[i].start <= t, t < c[i].end PROVE FALSE
  BY DEF Cutout
<1>2. /\ Len(c) \in Nat /\ \A k \in 1 .. Len(c) : c[k] \in StampT
      /\ \A k, l \in 1 .. Len(c) : k < l => c[k].end <= c[l].start
      /\ \A k \in 1 .. Len(c) : c[k].start < c[k].end
  BY DEF Row
<1>3. \A k \in 1 .. Len(c) : c[k].start \in Nat /\ c[k].end \in Nat
  BY <1>2 DEF StampT
<1>4. CASE i <= j
  <2>1. After(c, j) = c[j].end /\ j \in 1 .. Len(c)
    BY <1>2, <1>4 DEF After
  <2>2. c[i].end <= c[j].end
    <3>1. i = j \/ i < j
      BY <1>2, <1>4
    <3>2. i < j => c[i].end <= c[j].start /\ c[j].start < c[j].end
      BY <1>2, <2>1
    <3> QED BY <1>3, <2>1, <3>1, <3>2
  <2> QED BY <1>1, <1>3, <2>1, <2>2 DEF Between
<1>5. CASE j < i
  <2>1. j # Len(c) /\ j + 1 \in 1 .. Len(c)
    BY <1>2, <1>5
  <2>2. Until(c, j, total) = c[j + 1].start
    BY <2>1 DEF Until
  <2>3. c[j + 1].start <= c[i].start
    <3>1. i = j + 1 \/ j + 1 < i
      BY <1>2, <1>5
    <3>2. j + 1 < i => c[j + 1].end <= c[i].start /\ c[j + 1].start < c[j + 1].end
      BY <1>2, <2>1
    <3> QED BY <1>3, <2>1, <3>1, <3>2
  <2>4. c[i].start \in Nat /\ c[j + 1].start \in Nat
    BY <1>3, <2>1
  <2> QED BY <1>1, <2>2, <2>3, <2>4 DEF Between
<1> QED BY <1>2, <1>4, <1>5

\* What is between later cuts comes later, in the audio and in the file.
LEMMA LaterIsLater ==
  ASSUME NEW total \in Nat, NEW c, Row(c, total), NEW off, Offs(off, c),
         NEW i \in 0 .. Len(c), NEW j \in 0 .. Len(c), i < j
  PROVE  /\ Until(c, i, total) <= After(c, j)
         /\ Until(c, i, total) - off[i] <= After(c, j) - off[j]
<1> DEFINE n == Len(c)
           U(k) == Until(c, k, total)
           A(k) == After(c, k)
           G == {k \in 0 .. n : i < k => U(i) <= A(k) /\ U(i) - off[i] <= A(k) - off[k]}
<1>1. /\ n \in Nat
      /\ \A k \in 1 .. n : /\ c[k].start \in Nat /\ c[k].end \in Nat /\ c[k].fill \in Nat
                           /\ c[k].start < c[k].end
                           /\ off[k] = off[k - 1] + (c[k].end - c[k].start) - c[k].fill
                           /\ U(k - 1) = c[k].start /\ A(k) = c[k].end
      /\ \A k \in 0 .. n : off[k] \in Int /\ A(k) \in Nat /\ U(k) \in Nat /\ A(k) <= U(k)
  <2>1. n \in Nat
    BY RowIs
  <2>2. ASSUME NEW k \in 1 .. n
        PROVE  /\ c[k].start \in Nat /\ c[k].end \in Nat /\ c[k].fill \in Nat
               /\ c[k].start < c[k].end
               /\ off[k] = off[k - 1] + (c[k].end - c[k].start) - c[k].fill
               /\ U(k - 1) = c[k].start /\ A(k) = c[k].end
    <3>1. /\ c[k].start \in Nat /\ c[k].end \in Nat /\ c[k].fill \in Nat
          /\ c[k].start < c[k].end
      BY RowIs
    <3>2. off[k] = off[k - 1] + (c[k].end - c[k].start) - c[k].fill
      BY RowIs
    <3>3. Until(c, k - 1, total) = c[k].start /\ After(c, k) = c[k].end
      BY RowIs
    <3> QED BY <3>1, <3>2, <3>3
  <2>3. ASSUME NEW k \in 0 .. n
        PROVE  off[k] \in Int /\ A(k) \in Nat /\ U(k) \in Nat /\ A(k) <= U(k)
    BY RowIs
  <2> HIDE DEF n, U, A
  <2> QED BY <2>1, <2>2, <2>3
<1> HIDE DEF n, U, A
<1>2. 0 \in G
  BY <1>1
<1>3. ASSUME NEW k \in 1 .. n, k - 1 \in G PROVE k \in G
  <2> DEFINE x == off[k - 1]
             y == off[k]
             z == off[i]
             Uk == U(k - 1)
             Ak == A(k)
             Ap == A(k - 1)
             Ui == U(i)
  <2>1. /\ k \in 0 .. n /\ k - 1 \in 0 .. n /\ i \in 0 .. n
    BY <1>1 DEF n
  <2>2. /\ x \in Int /\ y \in Int /\ z \in Int
        /\ Ap \in Nat /\ Uk \in Nat /\ Ap <= Uk /\ Ak \in Nat /\ Ui \in Nat
    BY <1>1, <2>1
  <2>3. \E s, e, f \in Nat : Uk = s /\ Ak = e /\ s < e /\ y = x + (e - s) - f
    BY <1>1
  <2>4. i < k - 1 => Ui <= Ap /\ Ui - z <= Ap - x
    BY <1>3
  <2>5. i = k - 1 => Ui = Uk /\ z = x
    OBVIOUS
  <2> HIDE DEF x, y, z, Uk, Ak, Ap, Ui
  <2>6. Uk <= Ak /\ Uk - x <= Ak - y
    BY <2>2, <2>3
  <2>7. i < k => Ui <= Ak /\ Ui - z <= Ak - y
    <3>1. i \in Int /\ k \in Int
      OBVIOUS
    <3>2. i < k => i = k - 1 \/ i < k - 1
      BY <3>1
    <3>3. i = k - 1 => Ui <= Ak /\ Ui - z <= Ak - y
      BY <2>5, <2>6
    <3>4. i < k - 1 => Ui <= Ak /\ Ui - z <= Ak - y
      BY <2>2, <2>4, <2>6
    <3> QED BY <3>2, <3>3, <3>4
  <2> QED BY <2>1, <2>7 DEF Ui, Ak, z, y
<1>4. j \in G
  <2> HIDE DEF G
  <2>1. \A k \in 0 .. n : k \in G
    BY <1>1, <1>2, <1>3, CountUp
  <2> QED BY <2>1 DEF n
<1> QED BY <1>4 DEF U, A

\* What is played is what is not cut.
PlaysTheKept(o, a, c) ==
  /\ \A p \in 1 .. Len(o) :
       \/ o[p] = Filler
       \/ \E i \in 1 .. Len(a) : o[p] = a[i] /\ ~ Cutout(c, i - 1)
  /\ \A i \in 1 .. Len(a) : ~ Cutout(c, i - 1) => \E p \in 1 .. Len(o) : o[p] = a[i]

\* The file plays what is in no cut, and only that.
LEMMA PlayedIsKept ==
  ASSUME NEW S, NEW a \in Seq(S), NEW c, Row(c, Len(a)), NEW off, Offs(off, c),
         NEW o, Laid(o, a, c, off)
  PROVE  PlaysTheKept(o, a, c)
<1> DEFINE n == Len(c)
           N == Len(a)
<1>1. N \in Nat
  OBVIOUS
<1>2. /\ Len(o) \in Nat
      /\ \A j \in 0 .. n, p \in Int : Plays(p, c, off, j, N) => p \in 1 .. Len(o) /\ o[p] = a[p + off[j]]
      /\ \A j \in 1 .. n, p \in Int : Fills(p, c, off, j) => p \in 1 .. Len(o) /\ o[p] = Filler
      /\ \A p \in 1 .. Len(o) : \/ \E j \in 0 .. n : Plays(p, c, off, j, N)
                                \/ \E j \in 1 .. n : Fills(p, c, off, j)
  BY DEF Laid
<1> HIDE DEF N
<1>3. ASSUME NEW p \in 1 .. Len(o), o[p] # Filler
      PROVE  \E i \in 1 .. N : o[p] = a[i] /\ ~ Cutout(c, i - 1)
  <2>0. p \in Int
    OBVIOUS
  <2>1. PICK j \in 0 .. n : Plays(p, c, off, j, N)
    BY <1>2, <1>3, <2>0
  <2> DEFINE i == p + off[j]
  <2>2. o[p] = a[i]
    BY <1>2, <2>0, <2>1
  <2>3. i \in 1 .. N /\ After(c, j) < i /\ i <= Until(c, j, N)
    BY <1>1, <2>0, <2>1, PlaysInside DEF N
  <2>4. After(c, j) \in Nat /\ Until(c, j, N) \in Nat
    BY <1>1, RowIs DEF N
  <2> HIDE DEF i
  <2>5. i - 1 \in Nat /\ Between(c, j, i - 1, N)
    BY <1>1, <2>3, <2>4 DEF Between
  <2>6. ~ Cutout(c, i - 1)
    BY <1>1, <2>5, BetweenIsKept DEF N
  <2> QED BY <2>2, <2>3, <2>6
<1>4. ASSUME NEW i \in 1 .. N, ~ Cutout(c, i - 1)
      PROVE  \E p \in 1 .. Len(o) : o[p] = a[i]
  <2>1. i - 1 \in Nat /\ i - 1 < N
    BY <1>1
  <2>2. PICK j \in 0 .. n : Between(c, j, i - 1, N)
    BY <1>1, <1>4, <2>1, TickIs DEF N
  <2>3. off[j] \in Int /\ After(c, j) \in Nat /\ Until(c, j, N) \in Nat
    BY <1>1, RowIs DEF N
  <2>4. i - off[j] \in Int /\ Plays(i - off[j], c, off, j, N)
    BY <2>1, <2>2, <2>3 DEF Between, Plays
  <2>5. i - off[j] + off[j] = i
    BY <2>3
  <2> QED BY <1>2, <2>4, <2>5
<1> QED BY <1>3, <1>4 DEF N, PlaysTheKept

\* Of ticks in order.
Rising(a) == \A i, j \in 1 .. Len(a) : i < j /\ a[i] # Filler /\ a[j] # Filler => a[i] < a[j]

\* The file plays in the order of the audio.
LEMMA OrderIsKept ==
  ASSUME NEW S, NEW a \in Seq(S), NEW c, Row(c, Len(a)), NEW off, Offs(off, c),
         NEW o, Laid(o, a, c, off), Rising(a)
  PROVE  Rising(o)
<1> DEFINE n == Len(c)
           N == Len(a)
<1>1. N \in Nat
  OBVIOUS
<1>2. /\ Len(o) \in Nat
      /\ \A j \in 0 .. n, p \in Int : Plays(p, c, off, j, N) => p \in 1 .. Len(o) /\ o[p] = a[p + off[j]]
      /\ \A j \in 1 .. n, p \in Int : Fills(p, c, off, j) => p \in 1 .. Len(o) /\ o[p] = Filler
      /\ \A p \in 1 .. Len(o) : \/ \E j \in 0 .. n : Plays(p, c, off, j, N)
                                \/ \E j \in 1 .. n : Fills(p, c, off, j)
  BY DEF Laid
<1> HIDE DEF N
<1>3. SUFFICES ASSUME NEW p \in 1 .. Len(o), NEW q \in 1 .. Len(o), p < q,
                      o[p] # Filler, o[q] # Filler
               PROVE  o[p] < o[q]
  BY DEF Rising
<1>4. p \in Int /\ q \in Int
  OBVIOUS
<1>5. PICK i \in 0 .. n : Plays(p, c, off, i, N)
  BY <1>2, <1>3, <1>4
<1>6. PICK j \in 0 .. n : Plays(q, c, off, j, N)
  BY <1>2, <1>3, <1>4
<1>7. o[p] = a[p + off[i]] /\ o[q] = a[q + off[j]]
  BY <1>2, <1>4, <1>5, <1>6
<1>8. /\ p + off[i] \in 1 .. N /\ After(c, i) < p + off[i] /\ p + off[i] <= Until(c, i, N)
      /\ q + off[j] \in 1 .. N /\ After(c, j) < q + off[j] /\ q + off[j] <= Until(c, j, N)
  BY <1>1, <1>4, <1>5, <1>6, PlaysInside DEF N
<1>9. /\ off[i] \in Int /\ After(c, i) \in Nat /\ Until(c, i, N) \in Nat
      /\ off[j] \in Int /\ After(c, j) \in Nat /\ Until(c, j, N) \in Nat
  BY <1>1, RowIs DEF N
<1>10. p + off[i] < q + off[j]
  <2> DEFINE x == off[i]
             y == off[j]
             Ui == Until(c, i, N)
             Uj == Until(c, j, N)
             Ai == After(c, i)
             Aj == After(c, j)
  <2>1. /\ x \in Int /\ y \in Int /\ Ui \in Int /\ Uj \in Int /\ Ai \in Int /\ Aj \in Int
        /\ p + x <= Ui /\ Aj < q + y
    BY <1>8, <1>9
  <2>2. q <= Uj - y /\ Ai - x < p
    BY <1>5, <1>6 DEF Plays
  <2>3. i = j => x = y
    OBVIOUS
  <2>4. i < j => Ui <= Aj
    BY <1>1, LaterIsLater DEF N
  <2>5. j < i => Uj - y <= Ai - x
    BY <1>1, LaterIsLater DEF N
  <2>6. i = j \/ i < j \/ j < i
    <3>1. i \in Int /\ j \in Int
      OBVIOUS
    <3> QED BY <3>1
  <2>7. p < q
    BY <1>3
  <2> HIDE DEF x, y, Ui, Uj, Ai, Aj
  <2>8. p + x < q + y
    BY <1>4, <2>1, <2>2, <2>3, <2>4, <2>5, <2>6, <2>7
  <2> QED BY <2>8 DEF x, y
<1> QED BY <1>3, <1>7, <1>8, <1>10 DEF Rising, N
-----------------------------------------------------------------------------
(* Back from the file to the original.                                       *)

\* How far the search for a place has come.
SearchT == [done : BOOLEAN, offset : Int]
Seek(m, cut, t) ==
  IF m.done \/ t < cut.start - m.offset + cut.fill THEN [m EXCEPT !.done = TRUE]
  ELSE [m EXCEPT !.offset = @ + Length(cut) - cut.fill]

\* One step of the search for the last filler before a place.
LEMMA SeekIs ==
  ASSUME NEW m \in SearchT, NEW cut \in StampT, NEW t
  PROVE  /\ Seek(m, cut, t) \in SearchT
         /\ m.done \/ t < cut.start - m.offset + cut.fill
            => Seek(m, cut, t).done = TRUE /\ Seek(m, cut, t).offset = m.offset
         /\ ~ (m.done \/ t < cut.start - m.offset + cut.fill)
            => Seek(m, cut, t).done = m.done
               /\ Seek(m, cut, t).offset = m.offset + (cut.end - cut.start) - cut.fill
<1>1. m = [done |-> m.done, offset |-> m.offset] /\ m.done \in BOOLEAN /\ m.offset \in Int
  BY DEF SearchT
<1>2. cut.start \in Int /\ cut.end \in Int /\ cut.fill \in Int
  BY DEF StampT
<1> DEFINE stop == m.done \/ t < cut.start - m.offset + cut.fill
           here == m.offset + Length(cut) - cut.fill
<1>3. here \in Int /\ here = m.offset + (cut.end - cut.start) - cut.fill
  BY <1>1, <1>2 DEF Length
<1>4. CASE stop
  <2>1. Seek(m, cut, t) = [m EXCEPT !.done = TRUE]
    BY <1>4 DEF Seek
  <2>2. Seek(m, cut, t) = [done |-> TRUE, offset |-> m.offset]
    <3> HIDE DEF stop, here
    <3> QED BY <1>1, <2>1
  <2>3. Seek(m, cut, t) \in SearchT
    <3> HIDE DEF stop, here
    <3> QED BY <1>1, <2>2 DEF SearchT
  <2>4. Seek(m, cut, t).done = TRUE /\ Seek(m, cut, t).offset = m.offset
    <3> HIDE DEF stop, here
    <3> QED BY <2>2
  <2> HIDE DEF here
  <2> QED BY <1>4, <2>3, <2>4
<1>5. CASE ~ stop
  <2>1. Seek(m, cut, t) = [m EXCEPT !.offset = here]
    BY <1>5 DEF Seek
  <2> HIDE DEF here
  <2>2. Seek(m, cut, t) = [done |-> m.done, offset |-> here]
    <3> HIDE DEF stop
    <3> QED BY <1>1, <2>1
  <2>3. Seek(m, cut, t) \in SearchT
    <3> HIDE DEF stop
    <3> QED BY <1>1, <1>3, <2>2 DEF SearchT
  <2>4. Seek(m, cut, t).done = m.done /\ Seek(m, cut, t).offset = here
    <3> HIDE DEF stop
    <3> QED BY <2>2
  <2> QED BY <1>3, <1>5, <2>3, <2>4
<1> QED BY <1>4, <1>5

SeekRun(h, t, c) ==
  /\ h[0] = [done |-> FALSE, offset |-> 0]
  /\ \A k \in 1 .. Len(c) : h[k] = Seek(h[k - 1], c[k], t)
  /\ MapToOriginal(t, c) = t + h[Len(c)].offset
  /\ \A k \in 0 .. Len(c) : h[k] \in SearchT

\* MapToOriginal looks at the cuts one after the other.
LEMMA SeekRuns ==
  ASSUME NEW c \in Seq(StampT), NEW t
  PROVE  \E h : SeekRun(h, t, c)
<1> DEFINE n == Len(c)
           T == SearchT
           D == DOMAIN c
           b == [done |-> FALSE, offset |-> 0]
           Body(g) == [s \in SUBSET D |->
                         IF s = {} THEN b ELSE Seek(g[s \ {Max(s)}], c[Max(s)], t)]
           f == CHOOSE g : g = Body(g)
           op == [k \in 1 .. n |-> [m \in T |-> Seek(m, c[k], t)]]
<1>0. n \in Nat /\ D = 1 .. n /\ \A k \in 1 .. n : c[k] \in StampT
  OBVIOUS
<1>1. MapToOriginal(t, c) = t + f[D].offset
  BY DEF MapToOriginal, FoldLeft, MapThenFoldSet, Seek
<1> HIDE DEF D, n
<1>01. \A m \in T, k \in 1 .. n : Seek(m, c[k], t) \in T
  BY <1>0, SeekIs
<1>3. b \in T
  BY DEF SearchT
<1> HIDE DEF T
<1>2. Steps(op, n, T)
  BY <1>01 DEF Steps
<1>4. PICK g : Works(g, op, b, n, T)
  <2> HIDE DEF op, b
  <2> QED BY <1>0, <1>2, <1>3, FoldExists
<1>5. g = Body(g)
  <2>1. ASSUME NEW s \in SUBSET D
        PROVE  g[s] = IF s = {} THEN b ELSE Seek(g[s \ {Max(s)}], c[Max(s)], t)
    <3> HIDE DEF b
    <3>1. /\ s = {} => g[s] = b
          /\ s # {} => Max(s) \in 1 .. n /\ g[s] = op[Max(s)][g[s \ {Max(s)}]]
      BY <1>0, <1>4 DEF Works
    <3>2. g[s \ {Max(s)}] \in T
      BY <1>0, <1>4 DEF Works
    <3>3. s # {} => op[Max(s)][g[s \ {Max(s)}]] = Seek(g[s \ {Max(s)}], c[Max(s)], t)
      BY <3>1, <3>2
    <3> QED BY <3>1, <3>3
  <2>2. g = [s \in SUBSET D |-> g[s]]
    BY <1>0, <1>4 DEF Works
  <2> HIDE DEF b
  <2> QED BY <2>1, <2>2
<1>6. f = Body(f)
  <2> HIDE DEF Body
  <2> QED BY <1>5
<1> HIDE DEF f
<1>7. \A s \in SUBSET D : f[s] = IF s = {} THEN b ELSE Seek(f[s \ {Max(s)}], c[Max(s)], t)
  <2> HIDE DEF b
  <2> QED BY <1>6
<1> HIDE DEF b
<1> DEFINE h == [k \in 0 .. n |-> f[1 .. k]]
<1>8. h[0] = b
  <2>1. 1 .. 0 = {} /\ {} \in SUBSET D /\ 0 \in 0 .. n
    BY <1>0
  <2>2. f[{}] = b
    BY <1>7, <2>1
  <2> QED BY <2>1, <2>2
<1>9. ASSUME NEW k \in 1 .. n PROVE h[k] = Seek(h[k - 1], c[k], t)
  <2>1. Max(1 .. k) = k
    <3>1. k \in 1 .. k /\ 1 .. k \subseteq Int /\ \A y \in 1 .. k : y <= k
      BY <1>0
    <3> QED BY <3>1, MaxIs
  <2>2. (1 .. k) \ {k} = 1 .. k - 1 /\ k \in 1 .. k /\ 1 .. k \in SUBSET D /\ k - 1 \in 0 .. n /\ k \in 0 .. n
    BY <1>0
  <2>3. f[1 .. k] = Seek(f[1 .. k - 1], c[k], t)
    BY <1>7, <2>1, <2>2
  <2> QED BY <2>2, <2>3
<1>11. h[n] = f[D]
  BY <1>0
<1> HIDE DEF h
<1>10. \A k \in 0 .. n : h[k] \in T
  <2> DEFINE G == {k \in 0 .. n : h[k] \in T}
  <2>1. 0 \in G
    BY <1>0, <1>3, <1>8
  <2>2. ASSUME NEW k \in 1 .. n, k - 1 \in G PROVE k \in G
    <3>0. h[k - 1] \in T /\ k \in 0 .. n
      BY <1>0, <2>2
    <3>1. h[k] \in T
      BY <1>01, <1>9, <3>0
    <3> QED BY <3>0, <3>1
  <2> HIDE DEF G
  <2>3. \A k \in 0 .. n : k \in G
    BY <1>0, <2>1, <2>2, CountUp
  <2> QED BY <2>3 DEF G
<1>12. SeekRun(h, t, c)
  BY <1>1, <1>8, <1>9, <1>10, <1>11 DEF SeekRun, n, b, T
<1> QED BY <1>12

\* The place t of the file is behind j cuts and their fillers, and no more.
Zone(c, off, t, j) ==
  /\ After(c, j) - off[j] <= t
  /\ j # Len(c) => t < After(c, j + 1) - off[j + 1]

Searched(c, off, t) == \E j \in 0 .. Len(c) : Zone(c, off, t, j) /\ MapToOriginal(t, c) = t + off[j]

\* It stops at the zone the place is in.
LEMMA ZoneSearched ==
  ASSUME NEW total \in Nat, NEW c, Row(c, total), NEW off, Offs(off, c), NEW t \in Nat
  PROVE  Searched(c, off, t)
<1> DEFINE n == Len(c)
           A(k) == After(c, k) - off[k]
<1>1. /\ n \in Nat /\ off[0] = 0 /\ A(0) = 0 /\ c \in Seq(StampT)
  <2>1. n \in Nat /\ off[0] = 0 /\ After(c, 0) = 0
    BY RowIs
  <2>2. c \in Seq(StampT)
    BY DEF Row
  <2> QED BY <2>1, <2>2
<1>2. ASSUME NEW k \in 1 .. n
      PROVE  /\ c[k] \in StampT /\ k - 1 \in 0 .. n /\ k \in 0 .. n /\ (k - 1) + 1 = k /\ k - 1 # n
             /\ off[k] = off[k - 1] + (c[k].end - c[k].start) - c[k].fill
             /\ A(k) = c[k].start - off[k - 1] + c[k].fill /\ A(k) \in Int
  <2>1. /\ c[k] \in StampT /\ c[k].start \in Nat /\ c[k].end \in Nat /\ c[k].fill \in Nat
        /\ off[k] = off[k - 1] + (c[k].end - c[k].start) - c[k].fill
        /\ After(c, k) = c[k].end
    BY RowIs
  <2>2. k - 1 \in 0 .. n /\ k \in 0 .. n /\ (k - 1) + 1 = k /\ k - 1 # n
    BY <1>1
  <2>3. off[k - 1] \in Int
    BY <2>2, RowIs
  <2> DEFINE x == off[k - 1]
             y == off[k]
             ss == c[k].start
             ee == c[k].end
             ff == c[k].fill
  <2>4. x \in Int /\ y = x + (ee - ss) - ff /\ ss \in Nat /\ ee \in Nat /\ ff \in Nat
    BY <2>1, <2>3
  <2> HIDE DEF x, y, ss, ee, ff
  <2>5. ee - y = ss - x + ff /\ ee - y \in Int
    BY <2>4
  <2>6. A(k) = ss - x + ff /\ A(k) \in Int
    BY <2>1, <2>5 DEF x, y, ss, ee, ff
  <2> HIDE DEF A
  <2> QED BY <2>1, <2>2, <2>6 DEF x, y, ss, ee, ff
<1>3. PICK h : SeekRun(h, t, c)
  BY <1>1, SeekRuns
<1>4. /\ h[0].done = FALSE /\ h[0].offset = 0
      /\ \A k \in 1 .. n : h[k] = Seek(h[k - 1], c[k], t)
      /\ MapToOriginal(t, c) = t + h[n].offset
      /\ \A k \in 0 .. n : h[k] \in SearchT
  BY <1>3 DEF SeekRun
<1> HIDE DEF n
<1> DEFINE Found(k) == \E j \in 0 .. n : Zone(c, off, t, j) /\ h[k].offset = off[j]
           Going(k) == h[k].done = FALSE /\ h[k].offset = off[k] /\ A(k) <= t
           G == {k \in 0 .. n : (h[k].done = TRUE /\ Found(k)) \/ Going(k)}
<1>5. 0 \in G
  BY <1>1, <1>4
<1>6. ASSUME NEW k \in 1 .. n, k - 1 \in G PROVE k \in G
  <2>1. /\ c[k] \in StampT /\ k - 1 \in 0 .. n /\ k \in 0 .. n /\ (k - 1) + 1 = k /\ k - 1 # n
        /\ off[k] = off[k - 1] + (c[k].end - c[k].start) - c[k].fill
        /\ A(k) = c[k].start - off[k - 1] + c[k].fill /\ A(k) \in Int
    BY <1>2
  <2> HIDE DEF A
  <2> DEFINE hh == h[k - 1]
             cc == c[k]
             go == hh.done \/ t < cc.start - hh.offset + cc.fill
  <2>2. hh \in SearchT /\ h[k] = Seek(hh, cc, t) /\ cc \in StampT
    BY <1>4, <2>1
  <2>7. /\ go => Seek(hh, cc, t).done = TRUE /\ Seek(hh, cc, t).offset = hh.offset
        /\ ~ go => /\ Seek(hh, cc, t).done = hh.done
                   /\ Seek(hh, cc, t).offset = hh.offset + (cc.end - cc.start) - cc.fill
    <3> HIDE DEF hh, cc
    <3> QED BY <2>2, SeekIs
  <2>8. /\ go => h[k].done = TRUE /\ h[k].offset = hh.offset
        /\ ~ go => /\ h[k].done = hh.done
                   /\ h[k].offset = hh.offset + (cc.end - cc.start) - cc.fill
    <3> HIDE DEF go
    <3> QED BY <2>2, <2>7
  <2>9. h[k - 1].offset = off[k - 1] => (t < A(k) <=> t < cc.start - hh.offset + cc.fill)
    BY <2>1
  <2>3. CASE h[k - 1].done = TRUE /\ Found(k - 1)
    <3>1. h[k].done = TRUE /\ h[k].offset = h[k - 1].offset
      BY <2>3, <2>8
    <3> QED BY <2>1, <2>3, <3>1
  <2>4. CASE Going(k - 1) /\ t < A(k)
    <3>1. h[k].done = TRUE /\ h[k].offset = h[k - 1].offset
      <4>1. go
        BY <2>4, <2>9
      <4> QED BY <2>8, <4>1
    <3>2. Zone(c, off, t, k - 1)
      BY <2>1, <2>4 DEF Zone, A, n
    <3>3. Found(k)
      BY <2>1, <2>4, <3>1, <3>2
    <3> HIDE DEF Found
    <3> QED BY <2>1, <3>1, <3>3
  <2>5. CASE Going(k - 1) /\ ~ (t < A(k))
    <3>1. /\ h[k].done = h[k - 1].done
          /\ h[k].offset = h[k - 1].offset + (c[k].end - c[k].start) - c[k].fill
      <4>1. ~ go
        BY <2>5, <2>9
      <4> QED BY <2>8, <4>1
    <3>2. Going(k)
      <4>1. h[k].done = FALSE
        BY <2>5, <3>1
      <4>2. h[k].offset = off[k]
        BY <2>1, <2>5, <3>1
      <4>3. A(k) <= t
        BY <2>1, <2>5
      <4> QED BY <4>1, <4>2, <4>3
    <3> HIDE DEF Going
    <3> QED BY <2>1, <3>2
  <2>6. (h[k - 1].done = TRUE /\ Found(k - 1)) \/ Going(k - 1)
    BY <1>6
  <2> QED BY <2>3, <2>4, <2>5, <2>6
<1>7. n \in G
  <2> HIDE DEF G
  <2>1. \A k \in 0 .. n : k \in G
    BY <1>1, <1>5, <1>6, CountUp
  <2> QED BY <1>1, <2>1
<1>8. Found(n)
  <2>1. CASE Going(n)
    <3>1. Zone(c, off, t, n) /\ n \in 0 .. n
      BY <1>1, <2>1 DEF Zone, n
    <3> QED BY <2>1, <3>1
  <2> HIDE DEF Going, Found
  <2> QED BY <1>7, <2>1
<1>9. PICK j \in 0 .. n : Zone(c, off, t, j) /\ h[n].offset = off[j]
  BY <1>8
<1> QED BY <1>4, <1>9 DEF n, Searched

\* No filler is longer than the cut it stands for.
Fits(c) == \A i \in 1 .. Len(c) : c[i].fill <= c[i].end - c[i].start

\* Then what is missing from the file grows with every cut.
LEMMA OffsUp ==
  ASSUME NEW total \in Nat, NEW c, Row(c, total), Fits(c), NEW off, Offs(off, c)
  PROVE  \A i, j \in 0 .. Len(c) : i <= j => off[i] <= off[j]
<1> DEFINE n == Len(c)
<1>1. /\ n \in Nat
      /\ \A k \in 0 .. n : off[k] \in Int
  BY RowIs
<1>2. \A k \in 1 .. n : off[k - 1] <= off[k]
  <2>1. SUFFICES ASSUME NEW k \in 1 .. n PROVE off[k - 1] <= off[k]
    OBVIOUS
  <2>2. /\ c[k].start \in Nat /\ c[k].end \in Nat /\ c[k].fill \in Nat
        /\ off[k] = off[k - 1] + (c[k].end - c[k].start) - c[k].fill
    BY RowIs
  <2>3. c[k].fill <= c[k].end - c[k].start
    BY DEF Fits
  <2>4. k - 1 \in 0 .. n
    BY <1>1
  <2>5. off[k - 1] \in Int
    BY <1>1, <2>4
  <2> DEFINE x == off[k - 1]
             y == off[k]
             ss == c[k].start
             ee == c[k].end
             ff == c[k].fill
  <2>6. x \in Int /\ y = x + (ee - ss) - ff /\ ss \in Nat /\ ee \in Nat /\ ff \in Nat /\ ff <= ee - ss
    BY <2>2, <2>3, <2>5
  <2> HIDE DEF x, y, ss, ee, ff
  <2>7. x <= y
    BY <2>6
  <2> QED BY <2>7 DEF x, y
<1>3. SUFFICES ASSUME NEW i \in 0 .. n, NEW j \in 0 .. n, i <= j PROVE off[i] <= off[j]
  OBVIOUS
<1> HIDE DEF n
<1> DEFINE G == {k \in 0 .. n : i <= k => off[i] <= off[k]}
<1>4. 0 \in G
  BY <1>1
<1>5. ASSUME NEW k \in 1 .. n, k - 1 \in G PROVE k \in G
  <2>1. k - 1 \in 0 .. n /\ k \in 0 .. n
    BY <1>1
  <2>2. off[k - 1] \in Int /\ off[k] \in Int /\ off[i] \in Int /\ off[k - 1] <= off[k]
    BY <1>1, <1>2, <2>1
  <2>3. i <= k - 1 => off[i] <= off[k - 1]
    BY <1>5
  <2>4. i <= k => off[i] <= off[k]
    <3> DEFINE x == off[i]
               y == off[k - 1]
               z == off[k]
    <3>1. CASE i = k
      <4>1. off[i] = off[k]
        BY <3>1
      <4> QED BY <2>2, <4>1
    <3>2. CASE i # k
      <4>1. i <= k => i <= k - 1
        BY <1>1, <3>2
      <4>2. x <= y /\ y <= z => x <= z
        <5>1. x \in Int /\ y \in Int /\ z \in Int
          BY <2>2
        <5> HIDE DEF x, y, z
        <5> QED BY <5>1
      <4> QED BY <2>2, <2>3, <4>1, <4>2
    <3> QED BY <3>1, <3>2
  <2> QED BY <2>1, <2>4
<1>6. j \in G
  <2> HIDE DEF G
  <2>1. \A k \in 0 .. n : k \in G
    BY <1>1, <1>4, <1>5, CountUp
  <2> QED BY <2>1
<1> QED BY <1>3, <1>6

\* Where the pieces of the file begin, one after the other.
LEMMA ZonesUp ==
  ASSUME NEW total \in Nat, NEW c, Row(c, total), NEW off, Offs(off, c),
         NEW i \in 0 .. Len(c), NEW j \in 0 .. Len(c), i <= j
  PROVE  After(c, i) - off[i] <= After(c, j) - off[j]
<1>1. CASE i = j
  <2>1. After(c, j) \in Nat /\ off[j] \in Int
    BY RowIs
  <2> QED BY <1>1, <2>1
<1>2. CASE i # j
  <2>1. i < j
    BY <1>2
  <2> DEFINE u == Until(c, i, total)
             a == After(c, i)
             o == off[i]
             b == After(c, j)
             p == off[j]
  <2>2. u - o <= b - p
    BY <2>1, LaterIsLater
  <2>3. u \in Nat /\ a \in Nat /\ o \in Int /\ b \in Nat /\ p \in Int /\ a <= u
    BY RowIs
  <2> HIDE DEF u, a, o, b, p
  <2>4. a - o <= b - p
    BY <2>2, <2>3
  <2> QED BY <2>4 DEF a, o, b, p
<1> QED BY <1>1, <1>2

\* Of two places the one behind more cuts is later.
LEMMA ZonesApart ==
  ASSUME NEW total \in Nat, NEW c, Row(c, total), NEW off, Offs(off, c),
         NEW s \in Nat, NEW t \in Nat, s <= t,
         NEW i \in 0 .. Len(c), Zone(c, off, s, i), NEW j \in 0 .. Len(c), Zone(c, off, t, j)
  PROVE  i <= j
<1>1. SUFFICES ASSUME j < i PROVE FALSE
  OBVIOUS
<1>2. Len(c) \in Nat /\ j # Len(c) /\ j + 1 \in 0 .. Len(c) /\ j + 1 <= i
  <2>1. Len(c) \in Nat
    BY RowIs
  <2> QED BY <1>1, <2>1
<1>3. After(c, j + 1) - off[j + 1] <= After(c, i) - off[i]
  BY <1>2, ZonesUp
<1>4. After(c, i) - off[i] <= s /\ t < After(c, j + 1) - off[j + 1]
  BY <1>2 DEF Zone
<1> DEFINE x == After(c, j + 1) - off[j + 1]
           y == After(c, i) - off[i]
<1>5. x \in Int /\ y \in Int
  <2>1. /\ After(c, j + 1) \in Nat /\ off[j + 1] \in Int
        /\ After(c, i) \in Nat /\ off[i] \in Int
    BY <1>2, RowIs
  <2> QED BY <2>1
<1>6. x <= y /\ y <= s /\ t < x
  BY <1>3, <1>4
<1> HIDE DEF x, y
<1> QED BY <1>5, <1>6

Rises(c) == \A s, t \in Nat : s < t => MapToOriginal(s, c) < MapToOriginal(t, c)

\* The second pass's map to the original keeps the order, stays inside, and is exact
\* for what is on the air.
LEMMA MapsBack ==
  ASSUME NEW total \in Nat, NEW c, Row(c, total), Fits(c), NEW off, Offs(off, c)
  PROVE  /\ \A t \in Nat : MapToOriginal(t, c) \in Nat
         /\ Rises(c)
         /\ \A t \in Nat : t <= total - off[Len(c)] => MapToOriginal(t, c) <= total
         /\ \A p \in Nat \ {0}, j \in 0 .. Len(c) :
              Plays(p, c, off, j, total) => MapToOriginal(p - 1, c) = p - 1 + off[j]
<1> DEFINE n == Len(c)
<1>1. /\ n \in Nat /\ off[0] = 0
      /\ \A k \in 0 .. n : off[k] \in Int
      /\ \A i, j \in 0 .. n : i <= j => off[i] <= off[j]
  BY RowIs, OffsUp
<1>2. \A k \in 0 .. n : off[k] \in Nat /\ off[k] <= off[n]
  <2>1. SUFFICES ASSUME NEW k \in 0 .. n PROVE off[k] \in Nat /\ off[k] <= off[n]
    OBVIOUS
  <2>2. 0 \in 0 .. n /\ n \in 0 .. n /\ 0 <= k /\ k <= n
    BY <1>1
  <2>3. off[0] <= off[k] /\ off[k] <= off[n]
    BY <1>1, <2>2
  <2>4. off[k] \in Int /\ 0 <= off[k]
    BY <1>1, <2>3
  <2> QED BY <2>3, <2>4
<1>3. \A t \in Nat : \E j \in 0 .. n : Zone(c, off, t, j) /\ MapToOriginal(t, c) = t + off[j]
  <2>1. SUFFICES ASSUME NEW t \in Nat
                 PROVE  \E j \in 0 .. n : Zone(c, off, t, j) /\ MapToOriginal(t, c) = t + off[j]
    OBVIOUS
  <2>2. Searched(c, off, t)
    BY ZoneSearched
  <2> QED BY <2>2 DEF Searched
<1>4. \A t \in Nat : MapToOriginal(t, c) \in Nat
  <2>1. SUFFICES ASSUME NEW t \in Nat PROVE MapToOriginal(t, c) \in Nat
    OBVIOUS
  <2>2. PICK j \in 0 .. n : MapToOriginal(t, c) = t + off[j]
    BY <1>3
  <2>3. off[j] \in Nat
    BY <1>2
  <2> QED BY <2>2, <2>3
<1>5. ASSUME NEW s \in Nat, NEW t \in Nat, s < t
      PROVE  MapToOriginal(s, c) < MapToOriginal(t, c)
  <2>1. PICK i \in 0 .. n : Zone(c, off, s, i) /\ MapToOriginal(s, c) = s + off[i]
    BY <1>3
  <2>2. PICK j \in 0 .. n : Zone(c, off, t, j) /\ MapToOriginal(t, c) = t + off[j]
    BY <1>3
  <2>3. i <= j
    BY <1>5, <2>1, <2>2, ZonesApart
  <2> DEFINE x == off[i]
             y == off[j]
  <2>4. x \in Nat /\ y \in Nat /\ x <= y
    BY <1>1, <1>2, <2>3
  <2>5. MapToOriginal(s, c) = s + x /\ MapToOriginal(t, c) = t + y
    BY <2>1, <2>2
  <2> HIDE DEF x, y
  <2>6. s + x < t + y
    BY <1>5, <2>4
  <2> QED BY <2>5, <2>6
<1>6. ASSUME NEW t \in Nat, t <= total - off[n]
      PROVE  MapToOriginal(t, c) <= total
  <2>1. PICK j \in 0 .. n : MapToOriginal(t, c) = t + off[j]
    BY <1>3
  <2> DEFINE x == off[j]
             y == off[n]
  <2>2. x \in Nat /\ y \in Nat /\ x <= y /\ t <= total - y /\ MapToOriginal(t, c) = t + x
    <3>1. n \in 0 .. n
      BY <1>1
    <3> QED BY <1>2, <1>6, <2>1, <3>1
  <2> HIDE DEF x, y
  <2>3. t + x <= total
    BY <2>2
  <2> QED BY <2>2, <2>3
<1>7. ASSUME NEW p \in Nat \ {0}, NEW j \in 0 .. n, Plays(p, c, off, j, total)
      PROVE  MapToOriginal(p - 1, c) = p - 1 + off[j]
  <2>0. p - 1 \in Nat
    OBVIOUS
  <2>1. PICK i \in 0 .. n : Zone(c, off, p - 1, i) /\ MapToOriginal(p - 1, c) = p - 1 + off[i]
    BY <1>3, <2>0
  <2>2. Zone(c, off, p - 1, j)
    <3> DEFINE a == After(c, j)
               o == off[j]
               u == Until(c, j, total)
    <3>1. a - o < p /\ p <= u - o
      BY <1>7 DEF Plays
    <3>2. a \in Nat /\ o \in Int /\ u \in Nat
      BY RowIs
    <3>3. ASSUME j # n PROVE p - 1 < After(c, j + 1) - off[j + 1]
      <4>1. j + 1 \in 0 .. n /\ j < j + 1
        BY <1>1, <3>3
      <4>2. u - o <= After(c, j + 1) - off[j + 1]
        BY <4>1, LaterIsLater
      <4> DEFINE b == After(c, j + 1) - off[j + 1]
      <4>3. b \in Int
        <5>1. After(c, j + 1) \in Nat /\ off[j + 1] \in Int
          BY <4>1, RowIs
        <5> QED BY <5>1
      <4> HIDE DEF u, o
      <4>4. u - o <= b
        BY <4>2
      <4> HIDE DEF b, a
      <4>5. p - 1 < b
        BY <3>1, <3>2, <4>3, <4>4
      <4> QED BY <4>5 DEF b
    <3>4. a - o <= p - 1
      <4> HIDE DEF a, o, u
      <4> QED BY <3>1, <3>2
    <3> QED BY <3>3, <3>4 DEF Zone
  <2>3. i <= j /\ j <= i
    BY <2>0, <2>1, <2>2, ZonesApart
  <2>4. i = j
    BY <2>3
  <2> QED BY <2>1, <2>4
<1>8. Rises(c)
  BY <1>5 DEF Rises
<1> QED BY <1>4, <1>6, <1>7, <1>8

\* The original plays its ticks in order.
LEMMA OriginalIs ==
  ASSUME Duration \in Nat
  PROVE  /\ Original \in Seq(0 .. Duration - 1) /\ Len(Original) = Duration
         /\ \A i \in 1 .. Duration : Original[i] = i - 1
         /\ Rising(Original)
<1>1. /\ Original \in Seq(0 .. Duration - 1) /\ Len(Original) = Duration
      /\ \A i \in 1 .. Duration : Original[i] = i - 1
  BY DEF Original
<1>2. \A i, j \in 1 .. Duration : i < j => Original[i] < Original[j]
  BY <1>1
<1> HIDE DEF Original
<1>3. Rising(Original)
  BY <1>1, <1>2 DEF Rising
<1> QED BY <1>1, <1>3

\* What a render from the original plays: all that is not cut, in order.
PlaysTheRest(o, c) ==
  /\ o \in Seq(0 .. Duration - 1 \cup {Filler}) /\ Len(o) \in Nat
  /\ Rising(o)
  /\ \A t \in 0 .. Duration - 1 : (\E p \in 1 .. Len(o) : o[p] = t) <=> ~ Cutout(c, t)

\* The file of the first render plays what was not cut, in order.
LEMMA FileIs ==
  ASSUME Duration \in Nat, NEW c, Row(c, Duration)
  PROVE  PlaysTheRest(Render(Original, c), c)
<1> DEFINE o == Render(Original, c)
           S == 0 .. Duration - 1
<1>1. /\ Original \in Seq(S) /\ Len(Original) = Duration
      /\ \A i \in 1 .. Duration : Original[i] = i - 1
      /\ Rising(Original)
  BY OriginalIs
<1>2. PICK off : Offs(off, c)
  BY OffsExist DEF Row
<1>3. Row(c, Len(Original))
  BY <1>1
<1> HIDE DEF S
<1>4. Laid(o, Original, c, off)
  BY <1>1, <1>2, <1>3, RenderDoes
<1>5. Rising(o)
  <2> HIDE DEF o
  <2> QED BY <1>1, <1>2, <1>3, <1>4, OrderIsKept
<1>6. o \in Seq(S \cup {Filler}) /\ Len(o) \in Nat
  <2>1. o \in Seq(ToSet(Original) \cup {Filler})
    BY <1>4 DEF Laid
  <2>2. ToSet(Original) \subseteq S
    BY <1>1, Places
  <2> HIDE DEF o
  <2> QED BY <2>1, <2>2
<1>7. /\ \A p \in 1 .. Len(o) :
           \/ o[p] = Filler
           \/ \E i \in 1 .. Len(Original) : o[p] = Original[i] /\ ~ Cutout(c, i - 1)
      /\ \A i \in 1 .. Len(Original) : ~ Cutout(c, i - 1) => \E p \in 1 .. Len(o) : o[p] = Original[i]
  <2> HIDE DEF o
  <2>1. PlaysTheKept(o, Original, c)
    BY <1>1, <1>2, <1>3, <1>4, PlayedIsKept
  <2> QED BY <2>1 DEF PlaysTheKept
<1> HIDE DEF o
<1>8. ASSUME NEW t \in S
      PROVE  (\E p \in 1 .. Len(o) : o[p] = t) <=> ~ Cutout(c, t)
  <2>1. t \in Nat /\ t # Filler /\ t + 1 \in 1 .. Duration /\ (t + 1) - 1 = t
    BY DEF S, Filler
  <2>2. Original[t + 1] = t
    BY <1>1, <2>1
  <2>3. ASSUME ~ Cutout(c, t) PROVE \E p \in 1 .. Len(o) : o[p] = t
    BY <1>1, <1>7, <2>1, <2>2, <2>3
  <2>4. ASSUME NEW p \in 1 .. Len(o), o[p] = t PROVE ~ Cutout(c, t)
    <3>1. PICK i \in 1 .. Len(Original) : o[p] = Original[i] /\ ~ Cutout(c, i - 1)
      BY <1>7, <2>1, <2>4
    <3>2. i - 1 = t
      BY <1>1, <2>4, <3>1
    <3> QED BY <3>1, <3>2
  <2> QED BY <2>3, <2>4
<1> QED BY <1>5, <1>6, <1>8 DEF PlaysTheRest, o, S

\* The map back from such a file is exact, keeps the order and stays inside.
Exact(o, c) ==
  /\ Rises(c)
  /\ \A t \in Nat : MapToOriginal(t, c) \in Nat
  /\ \A t \in 0 .. Len(o) : MapToOriginal(t, c) <= Duration
  /\ \A p \in 1 .. Len(o) : o[p] # Filler => MapToOriginal(p - 1, c) = o[p]

\* MapToOriginal maps the file of one render into the original, and every tick to itself.
LEMMA FileIsExact ==
  ASSUME Duration \in Nat, NEW c, Row(c, Duration), Fits(c)
  PROVE  Exact(Render(Original, c), c)
<1> DEFINE o == Render(Original, c)
           S == 0 .. Duration - 1
           n == Len(c)
<1>1. /\ Original \in Seq(S) /\ Len(Original) = Duration
      /\ \A i \in 1 .. Duration : Original[i] = i - 1
  BY OriginalIs
<1>2. PICK off : Offs(off, c)
  BY OffsExist DEF Row
<1>3. Row(c, Len(Original))
  BY <1>1
<1> HIDE DEF S
<1>4. Laid(o, Original, c, off)
  BY <1>1, <1>2, <1>3, RenderDoes
<1>5. /\ \A t \in Nat : MapToOriginal(t, c) \in Nat
      /\ Rises(c)
      /\ \A t \in Nat : t <= Duration - off[Len(c)] => MapToOriginal(t, c) <= Duration
      /\ \A p \in Nat \ {0}, j \in 0 .. Len(c) :
              Plays(p, c, off, j, Duration) => MapToOriginal(p - 1, c) = p - 1 + off[j]
  BY <1>2, MapsBack
<1>6. /\ Len(o) = Duration - off[Len(c)]
      /\ \A j \in 0 .. n, p \in Int : Plays(p, c, off, j, Duration) => p \in 1 .. Len(o) /\ o[p] = Original[p + off[j]]
      /\ \A j \in 1 .. n, p \in Int : Fills(p, c, off, j) => p \in 1 .. Len(o) /\ o[p] = Filler
      /\ \A p \in 1 .. Len(o) : \/ \E j \in 0 .. n : Plays(p, c, off, j, Duration)
                                \/ \E j \in 1 .. n : Fills(p, c, off, j)
  BY <1>1, <1>4 DEF Laid
<1>9. o \in Seq(ToSet(Original) \cup {Filler}) /\ Len(o) \in Nat
  <2>1. o \in Seq(ToSet(Original) \cup {Filler})
    BY <1>4 DEF Laid
  <2> HIDE DEF o
  <2> QED BY <2>1
<1> HIDE DEF o, n
<1>7. \A t \in 0 .. Len(o) : MapToOriginal(t, c) <= Duration
  <2>1. SUFFICES ASSUME NEW t \in 0 .. Len(o) PROVE MapToOriginal(t, c) <= Duration
    OBVIOUS
  <2>2. t \in Nat /\ t <= Duration - off[Len(c)]
    BY <1>6, <1>9
  <2> QED BY <1>5, <2>2
<1>8. ASSUME NEW p \in 1 .. Len(o), o[p] # Filler PROVE MapToOriginal(p - 1, c) = o[p]
  <2>1. p \in Nat \ {0} /\ p \in Int
    BY <1>9
  <2>2. PICK j \in 0 .. n : Plays(p, c, off, j, Duration)
    BY <1>6, <1>8, <2>1
  <2>3. o[p] = Original[p + off[j]]
    BY <1>6, <2>1, <2>2
  <2>4. p + off[j] \in 1 .. Duration
    <3> QED BY <1>2, <2>1, <2>2, PlaysInside DEF n
  <2>5. MapToOriginal(p - 1, c) = p - 1 + off[j]
    BY <1>5, <2>1, <2>2 DEF n
  <2>6. off[j] \in Int
    BY <1>2, RowIs DEF n
  <2>7. o[p] = (p + off[j]) - 1
    BY <1>1, <2>3, <2>4
  <2> DEFINE x == off[j]
  <2>8. p - 1 + x = (p + x) - 1
    <3>1. x \in Int
      BY <2>6
    <3> HIDE DEF x
    <3> QED BY <2>1, <3>1
  <2> QED BY <2>5, <2>7, <2>8
<1> QED BY <1>5, <1>7, <1>8 DEF Exact, o
-----------------------------------------------------------------------------
(* Spans of the original on the processed timeline.                          *)

\* f does what a fold over the places 1 .. n does, as long as it stays in T.
Unrolled(f, op, b, n, T) ==
  \A s \in SUBSET (1 .. n) :
    /\ s = {} => f[s] = b
    /\ s # {} /\ Max(s) \in 1 .. n /\ f[s \ {Max(s)}] \in T => f[s] = op[Max(s)][f[s \ {Max(s)}]]

\* A fold over places in order is its iteration.
LEMMA FoldUnrolls ==
  ASSUME NEW n \in Nat, NEW T, NEW b \in T, NEW op, Steps(op, n, T), NEW f, Unrolled(f, op, b, n, T)
  PROVE  Iterates([k \in 0 .. n |-> f[1 .. k]], op, b, n, T)
<1> DEFINE h == [k \in 0 .. n |-> f[1 .. k]]
<1>0. op \in [1 .. n -> [T -> T]]
  BY DEF Steps
<1>1. h[0] = b
  <2>1. 1 .. 0 = {} /\ {} \in SUBSET (1 .. n) /\ 0 \in 0 .. n
    OBVIOUS
  <2>2. f[{}] = b
    BY <2>1 DEF Unrolled
  <2> QED BY <2>1, <2>2
<1>2. ASSUME NEW k \in 1 .. n, h[k - 1] \in T PROVE h[k] = op[k][h[k - 1]]
  <2>1. Max(1 .. k) = k
    <3>1. k \in 1 .. k /\ 1 .. k \subseteq Int /\ \A y \in 1 .. k : y <= k
      OBVIOUS
    <3> QED BY <3>1, MaxIs
  <2>2. (1 .. k) \ {k} = 1 .. k - 1 /\ k \in 1 .. k /\ 1 .. k \in SUBSET (1 .. n) /\ k - 1 \in 0 .. n /\ k \in 0 .. n
    OBVIOUS
  <2>3. h[k - 1] = f[1 .. k - 1] /\ h[k] = f[1 .. k]
    BY <2>2
  <2>4. f[1 .. k] = op[k][f[1 .. k - 1]]
    BY <1>2, <2>1, <2>2, <2>3 DEF Unrolled
  <2> QED BY <2>3, <2>4
<1> DEFINE G == {k \in 0 .. n : h[k] \in T}
<1>3. 0 \in G
  BY <1>1
<1> HIDE DEF h
<1>4. ASSUME NEW k \in 1 .. n, k - 1 \in G PROVE k \in G
  <2>1. h[k - 1] \in T
    BY <1>4
  <2>2. h[k] = op[k][h[k - 1]]
    BY <1>2, <2>1
  <2>3. h[k] \in T
    BY <1>0, <2>1, <2>2
  <2> QED BY <2>3
<1>5. \A k \in 0 .. n : k \in G
  <2> HIDE DEF G
  <2> QED BY <1>3, <1>4, CountUp
<1>6. \A k \in 0 .. n : h[k] \in T
  BY <1>5
<1>7. \A k \in 1 .. n : h[k] = op[k][h[k - 1]]
  <2>1. \A k \in 1 .. n : h[k - 1] \in T
    <3>1. \A k \in 1 .. n : k - 1 \in 0 .. n
      OBVIOUS
    <3> QED BY <1>6, <3>1
  <2> QED BY <1>2, <2>1
<1>8. h \in [0 .. n -> T]
  BY <1>6 DEF h
<1> QED BY <1>1, <1>7, <1>8 DEF Iterates, h

\* What a wall, in the original, becomes beside a cut.
SnapTo(s, c) ==
  [start |-> IF c.start <= s.start /\ s.start < c.end THEN c.end ELSE s.start,
   end   |-> IF c.start < s.end /\ s.end <= c.end THEN c.start ELSE s.end]
Snapped(span, c) == FoldLeft(SnapTo, span, c)

\* Moving the ends of a span out of one cut.
LEMMA SnapIs ==
  ASSUME NEW s \in SpanT, NEW c \in StampT
  PROVE  SnapTo(s, c) \in SpanT
<1>1. s.start \in Nat /\ s.end \in Nat /\ c.start \in Nat /\ c.end \in Nat
  BY DEF SpanT, StampT
<1> QED BY <1>1 DEF SnapTo, SpanT

SnapRun(h, s, c) ==
  /\ h \in [0 .. Len(c) -> SpanT] /\ h[0] = s
  /\ \A k \in 1 .. Len(c) : h[k] = SnapTo(h[k - 1], c[k])
  /\ Snapped(s, c) = h[Len(c)]

\* The span is moved out of the cuts one after the other.
LEMMA SnapRuns ==
  ASSUME NEW c \in Seq(StampT), NEW s \in SpanT
  PROVE  \E h : SnapRun(h, s, c)
<1> DEFINE n == Len(c)
           T == SpanT
           D == DOMAIN c
           Body(g) == [u \in SUBSET D |-> IF u = {} THEN s ELSE SnapTo(g[u \ {Max(u)}], c[Max(u)])]
           f == CHOOSE g : g = Body(g)
           op == [k \in 1 .. n |-> [m \in T |-> SnapTo(m, c[k])]]
           h == [k \in 0 .. n |-> f[1 .. k]]
<1>0. n \in Nat /\ D = 1 .. n /\ \A k \in 1 .. n : c[k] \in StampT
  OBVIOUS
<1>1. Snapped(s, c) = f[D]
  BY DEF Snapped, FoldLeft, MapThenFoldSet
<1> HIDE DEF D, n
<1>01. \A m \in T, k \in 1 .. n : SnapTo(m, c[k]) \in T
  BY <1>0, SnapIs
<1> HIDE DEF T
<1>2. Steps(op, n, T)
  BY <1>01 DEF Steps
<1>3. s \in T
  BY DEF T
<1>4. PICK g : Works(g, op, s, n, T)
  <2> HIDE DEF op
  <2> QED BY <1>0, <1>2, <1>3, FoldExists
<1>5. g = Body(g)
  <2>1. ASSUME NEW u \in SUBSET D
        PROVE  g[u] = IF u = {} THEN s ELSE SnapTo(g[u \ {Max(u)}], c[Max(u)])
    <3>1. /\ u = {} => g[u] = s
          /\ u # {} => Max(u) \in 1 .. n /\ g[u] = op[Max(u)][g[u \ {Max(u)}]]
      BY <1>0, <1>4 DEF Works
    <3>2. g[u \ {Max(u)}] \in T
      BY <1>0, <1>4 DEF Works
    <3>3. u # {} => op[Max(u)][g[u \ {Max(u)}]] = SnapTo(g[u \ {Max(u)}], c[Max(u)])
      BY <3>1, <3>2
    <3> QED BY <3>1, <3>3
  <2>2. g = [u \in SUBSET D |-> g[u]]
    BY <1>0, <1>4 DEF Works
  <2> QED BY <2>1, <2>2
<1>6. f = Body(f)
  <2> HIDE DEF Body
  <2> QED BY <1>5
<1> HIDE DEF f
<1>7. Unrolled(f, op, s, n, T)
  <2>1. \A u \in SUBSET D : f[u] = IF u = {} THEN s ELSE SnapTo(f[u \ {Max(u)}], c[Max(u)])
    BY <1>6
  <2> QED BY <1>0, <2>1 DEF Unrolled
<1>8. Iterates(h, op, s, n, T)
  <2> HIDE DEF op
  <2> QED BY <1>0, <1>2, <1>3, <1>7, FoldUnrolls
<1>9. h[n] = f[D]
  BY <1>0
<1> HIDE DEF h
<1>10. h \in [0 .. n -> T] /\ h[0] = s /\ \A k \in 1 .. n : h[k] = op[k][h[k - 1]]
  <2> HIDE DEF op
  <2> QED BY <1>8 DEF Iterates
<1>11. ASSUME NEW k \in 1 .. n PROVE h[k] = SnapTo(h[k - 1], c[k])
  <2>1. h[k - 1] \in T
    <3>1. k - 1 \in 0 .. n
      BY <1>0
    <3> QED BY <1>10, <3>1
  <2> QED BY <1>10, <2>1
<1>12. SnapRun(h, s, c)
  BY <1>1, <1>9, <1>10, <1>11 DEF SnapRun, n, T
<1> QED BY <1>12

\* Touching cuts as one.
GroupT == [start : Nat, end : Nat, fill : Nat]
GroupIn(gs, c) ==
  IF gs # <<>> /\ c.start <= Last(gs).end
  THEN Append(Front(gs), [Last(gs) EXCEPT !.end = Larger(@, c.end), !.fill = @ + c.fill])
  ELSE Append(gs, [start |-> c.start, end |-> c.end, fill |-> c.fill])

\* Grouping gives lists of groups.
LEMMA GroupInType ==
  ASSUME NEW gs \in Seq(GroupT), NEW c \in StampT
  PROVE  GroupIn(gs, c) \in Seq(GroupT)
<1>1. c.start \in Nat /\ c.end \in Nat /\ c.fill \in Nat
  BY DEF StampT
<1>2. CASE gs # <<>> /\ c.start <= Last(gs).end
  <2> DEFINE l == Last(gs)
             g == [l EXCEPT !.end = Larger(@, c.end), !.fill = @ + c.fill]
  <2>1. Front(gs) \in Seq(GroupT) /\ l \in GroupT
    BY <1>2, LastReplaced
  <2> HIDE DEF l
  <2>2. l.end \in Nat /\ l.fill \in Nat
    BY <2>1 DEF GroupT
  <2>3. Larger(l.end, c.end) \in Nat /\ l.fill + c.fill \in Nat
    BY <1>1, <2>2 DEF Larger
  <2>4. g \in GroupT
    BY <2>1, <2>3 DEF GroupT
  <2>5. GroupIn(gs, c) = Append(Front(gs), g)
    BY <1>2 DEF GroupIn, l
  <2> HIDE DEF g
  <2> QED BY <2>1, <2>4, <2>5
<1>3. CASE ~ (gs # <<>> /\ c.start <= Last(gs).end)
  <2>1. [start |-> c.start, end |-> c.end, fill |-> c.fill] \in GroupT
    BY <1>1 DEF GroupT
  <2>2. GroupIn(gs, c) = Append(gs, [start |-> c.start, end |-> c.end, fill |-> c.fill])
    BY <1>3 DEF GroupIn
  <2> QED BY <2>1, <2>2
<1> QED BY <1>2, <1>3

GroupRun(h, c) ==
  /\ h \in [0 .. Len(c) -> Seq(GroupT)] /\ h[0] = <<>>
  /\ \A k \in 1 .. Len(c) : h[k] = GroupIn(h[k - 1], c[k])
Grouped(c) == FoldLeft(GroupIn, <<>>, c)

\* The cuts are grouped one after the other.
LEMMA GroupRuns ==
  ASSUME NEW c \in Seq(StampT)
  PROVE  \E h : GroupRun(h, c) /\ Grouped(c) = h[Len(c)]
<1> DEFINE n == Len(c)
           T == Seq(GroupT)
           D == DOMAIN c
           b == <<>>
           Body(g) == [u \in SUBSET D |-> IF u = {} THEN b ELSE GroupIn(g[u \ {Max(u)}], c[Max(u)])]
           f == CHOOSE g : g = Body(g)
           op == [k \in 1 .. n |-> [m \in T |-> GroupIn(m, c[k])]]
           h == [k \in 0 .. n |-> f[1 .. k]]
<1>0. n \in Nat /\ D = 1 .. n /\ \A k \in 1 .. n : c[k] \in StampT
  OBVIOUS
<1>1. Grouped(c) = f[D]
  BY DEF Grouped, FoldLeft, MapThenFoldSet
<1> HIDE DEF D, n
<1>01. \A m \in T, k \in 1 .. n : GroupIn(m, c[k]) \in T
  BY <1>0, GroupInType
<1>3. b \in T
  OBVIOUS
<1> HIDE DEF T, b
<1>2. Steps(op, n, T)
  BY <1>01 DEF Steps
<1>4. PICK g : Works(g, op, b, n, T)
  <2> HIDE DEF op
  <2> QED BY <1>0, <1>2, <1>3, FoldExists
<1>5. g = Body(g)
  <2>1. ASSUME NEW u \in SUBSET D
        PROVE  g[u] = IF u = {} THEN b ELSE GroupIn(g[u \ {Max(u)}], c[Max(u)])
    <3>1. /\ u = {} => g[u] = b
          /\ u # {} => Max(u) \in 1 .. n /\ g[u] = op[Max(u)][g[u \ {Max(u)}]]
      BY <1>0, <1>4 DEF Works
    <3>2. g[u \ {Max(u)}] \in T
      BY <1>0, <1>4 DEF Works
    <3>3. u # {} => op[Max(u)][g[u \ {Max(u)}]] = GroupIn(g[u \ {Max(u)}], c[Max(u)])
      BY <3>1, <3>2
    <3> QED BY <3>1, <3>3
  <2>2. g = [u \in SUBSET D |-> g[u]]
    BY <1>0, <1>4 DEF Works
  <2> QED BY <2>1, <2>2
<1>6. f = Body(f)
  <2> HIDE DEF Body
  <2> QED BY <1>5
<1> HIDE DEF f
<1>7. Unrolled(f, op, b, n, T)
  <2>1. \A u \in SUBSET D : f[u] = IF u = {} THEN b ELSE GroupIn(f[u \ {Max(u)}], c[Max(u)])
    BY <1>6
  <2> QED BY <1>0, <2>1 DEF Unrolled
<1>8. Iterates(h, op, b, n, T)
  <2> HIDE DEF op
  <2> QED BY <1>0, <1>2, <1>3, <1>7, FoldUnrolls
<1>9. h[n] = f[D]
  BY <1>0
<1> HIDE DEF h
<1>10. h \in [0 .. n -> T] /\ h[0] = b /\ \A k \in 1 .. n : h[k] = op[k][h[k - 1]]
  <2> HIDE DEF op
  <2> QED BY <1>8 DEF Iterates
<1>11. ASSUME NEW k \in 1 .. n PROVE h[k] = GroupIn(h[k - 1], c[k])
  <2>1. h[k - 1] \in T
    <3>1. k - 1 \in 0 .. n
      BY <1>0
    <3> QED BY <1>10, <3>1
  <2> QED BY <1>10, <2>1
<1>12. GroupRun(h, c)
  BY <1>10, <1>11 DEF GroupRun, n, T, b
<1> QED BY <1>1, <1>9, <1>12 DEF n

\* Groups is that, over the cuts that are not empty, in order.
LEMMA GroupsAre ==
  ASSUME NEW c \in Seq(StampT)
  PROVE  /\ Nonempty(ByStart(c)) \in Seq(StampT)
         /\ Groups(c) = Grouped(Nonempty(ByStart(c)))
         /\ Groups(c) \in Seq(GroupT)
<1> DEFINE s == Nonempty(ByStart(c))
<1>1. s \in Seq(StampT)
  <2>1. \A i \in 1 .. Len(c) : c[i].start \in Nat
    <3>1. \A i \in 1 .. Len(c) : c[i] \in StampT
      OBVIOUS
    <3> QED BY <3>1 DEF StampT
  <2>2. ByStart(c) \in Seq(StampT)
    BY <2>1, ByStartSorts
  <2> QED BY <2>2, NonemptyKeeps
<1>2. Groups(c) = Grouped(s)
  BY DEF Groups, Grouped, FoldLeft, MapThenFoldSet, GroupIn
<1> HIDE DEF s
<1>3. PICK h : GroupRun(h, s) /\ Grouped(s) = h[Len(s)]
  BY <1>1, GroupRuns
<1>4. Len(s) \in 0 .. Len(s) /\ h \in [0 .. Len(s) -> Seq(GroupT)]
  BY <1>1, <1>3 DEF GroupRun
<1>5. h[Len(s)] \in Seq(GroupT)
  BY <1>4
<1> QED BY <1>1, <1>2, <1>3, <1>5 DEF s

\* What a set of groups takes out, and puts in, is a number.
LEMMA ShiftIs ==
  ASSUME NEW gs \in Seq(GroupT), NEW W, W \subseteq DOMAIN gs
  PROVE  Shift(gs, W) \in Int
<1> DEFINE w(i) == Length(gs[i]) - gs[i].fill
           x(s) == CHOOSE y \in s : TRUE
           Body(g) == [s \in SUBSET W |-> IF s = {} THEN 0 ELSE w(x(s)) + g[s \ {x(s)}]]
           f == CHOOSE g : g = Body(g)
           op == [i \in W |-> [m \in Int |-> w(i) + m]]
<1>0. IsFiniteSet(W) /\ \A i \in W : w(i) \in Int
  <2>1. DOMAIN gs = 1 .. Len(gs) /\ Len(gs) \in Nat /\ \A i \in 1 .. Len(gs) : gs[i] \in GroupT
    OBVIOUS
  <2>2. IsFiniteSet(W)
    <3>1. IsFiniteSet(1 .. Len(gs))
      BY <2>1, FS_Interval
    <3> QED BY <2>1, <3>1, FS_Subset
  <2>3. ASSUME NEW i \in W PROVE w(i) \in Int
    <3>1. gs[i] \in GroupT
      BY <2>1
    <3>2. gs[i].start \in Nat /\ gs[i].end \in Nat /\ gs[i].fill \in Nat
      BY <3>1 DEF GroupT
    <3> QED BY <3>2 DEF Length
  <2> QED BY <2>2, <2>3
<1>1. Shift(gs, W) = f[W]
  BY DEF Shift, MapThenSumSet, MapThenFoldSet
<1> HIDE DEF w
<1>2. Takes(op, W, Int)
  BY <1>0 DEF Takes
<1>4. PICK g : Empties(g, op, 0, W, Int)
  <2> HIDE DEF op
  <2>1. 0 \in Int /\ IsFiniteSet(W)
    BY <1>0
  <2> DEFINE T == Int
  <2>2. Takes(op, W, T) /\ 0 \in T
    BY <1>2, <2>1
  <2> HIDE DEF T
  <2>3. \E g : Empties(g, op, 0, W, T)
    BY <2>1, <2>2, EmptiesExists
  <2> QED BY <2>3 DEF T
<1>5. g = Body(g)
  <2>1. ASSUME NEW s \in SUBSET W
        PROVE  g[s] = IF s = {} THEN 0 ELSE w(x(s)) + g[s \ {x(s)}]
    <3>1. g[s] = IF s = {} THEN 0 ELSE op[x(s)][g[s \ {x(s)}]]
      BY <1>4 DEF Empties
    <3>2. s # {} => x(s) \in W
      OBVIOUS
    <3>3. g[s \ {x(s)}] \in Int
      BY <1>4 DEF Empties
    <3> HIDE DEF x
    <3> QED BY <3>1, <3>2, <3>3
  <2>2. g = [s \in SUBSET W |-> g[s]]
    BY <1>4 DEF Empties
  <2> HIDE DEF x
  <2> QED BY <2>1, <2>2
<1>6. f = Body(f)
  <2> HIDE DEF Body
  <2> QED BY <1>5
<1> HIDE DEF f
<1>7. \A s \in SUBSET W : f[s] = IF s = {} THEN 0 ELSE w(x(s)) + f[s \ {x(s)}]
  <2> HIDE DEF x
  <2> QED BY <1>6
<1> DEFINE G == {s \in SUBSET W : f[s] \in Int}
<1>8. {} \in G
  <2>1. f[{}] = 0
    <3> HIDE DEF x
    <3> QED BY <1>7
  <2> QED BY <2>1
<1>9. ASSUME NEW s \in SUBSET W, s # {}, s \ {CHOOSE y \in s : TRUE} \in G PROVE s \in G
  <2>1. x(s) \in W /\ f[s \ {x(s)}] \in Int
    BY <1>9
  <2> HIDE DEF x
  <2> QED BY <1>0, <1>7, <1>9, <2>1
<1>10. W \in G
  <2> HIDE DEF G
  <2>1. \A s \in SUBSET W : s \in G
    BY <1>0, <1>8, <1>9, SubsetsUp
  <2> QED BY <2>1
<1> QED BY <1>1, <1>10

\* adjust_timestamp gives a place.
LEMMA AdjustIs ==
  ASSUME NEW c \in Seq(StampT), NEW t \in Nat
  PROVE  Adjust(t, c) \in Nat
<1> DEFINE gs == Groups(c)
           around == {i \in DOMAIN gs : gs[i].start < t /\ t < gs[i].end}
           base == IF around = {} THEN t ELSE gs[CHOOSE i \in around : TRUE].start
           W == {i \in DOMAIN gs : gs[i].end <= t}
<1>1. gs \in Seq(GroupT)
  BY GroupsAre
<1>2. Adjust(t, c) = Larger(0, base - Shift(gs, W))
  BY DEF Adjust, Adjusted
<1> HIDE DEF gs
<1>3. Shift(gs, W) \in Int
  <2> HIDE DEF W
  <2>1. W \subseteq DOMAIN gs
    BY DEF W
  <2> QED BY <1>1, <2>1, ShiftIs
<1>4. base \in Nat
  <2>1. ASSUME around # {} PROVE gs[CHOOSE i \in around : TRUE].start \in Nat
    <3> DEFINE j == CHOOSE i \in around : TRUE
    <3>1. j \in around
      BY <2>1
    <3> HIDE DEF j
    <3>2. j \in 1 .. Len(gs)
      BY <1>1, <3>1
    <3>3. gs[j] \in GroupT
      BY <1>1, <3>2
    <3>4. gs[j].start \in Nat
      BY <3>3 DEF GroupT
    <3> QED BY <3>4 DEF j
  <2> HIDE DEF around
  <2> QED BY <2>1
<1> HIDE DEF base, W
<1>5. Larger(0, base - Shift(gs, W)) \in Nat
  BY <1>3, <1>4 DEF Larger
<1> QED BY <1>2, <1>5

\* What is left of a kept span on the processed timeline is one span, or nothing.
LEMMA MappedIs ==
  ASSUME NEW c \in Seq(StampT), NEW span \in SpanT
  PROVE  LET s == Snapped(span, c)
             t == [start |-> Adjust(s.start, c), end |-> Adjust(s.end, c)]
         IN  /\ s \in SpanT /\ t \in SpanT
             /\ MapToProcessed(span, c) = IF s.start < s.end /\ t.start < t.end THEN {t} ELSE {}
<1> DEFINE s == Snapped(span, c)
           t(x) == [start |-> Adjust(x.start, c), end |-> Adjust(x.end, c)]
<1>1. MapToProcessed(span, c) = {y \in {t(x) : x \in {x \in {s} : x.start < x.end}} : y.start < y.end}
  BY DEF MapToProcessed, Snapped, SnapTo, FoldLeft, MapThenFoldSet
<1>2. s \in SpanT
  <2>1. PICK h : SnapRun(h, span, c)
    BY SnapRuns
  <2>2. Len(c) \in 0 .. Len(c)
    OBVIOUS
  <2>3. h \in [0 .. Len(c) -> SpanT] /\ s = h[Len(c)]
    BY <2>1 DEF SnapRun
  <2> HIDE DEF s
  <2> QED BY <2>2, <2>3
<1> HIDE DEF s
<1>3. t(s) \in SpanT
  <2>1. s.start \in Nat /\ s.end \in Nat
    BY <1>2 DEF SpanT
  <2>2. Adjust(s.start, c) \in Nat /\ Adjust(s.end, c) \in Nat
    BY <2>1, AdjustIs
  <2> QED BY <2>2 DEF SpanT
<1>4. MapToProcessed(span, c) = IF s.start < s.end /\ t(s).start < t(s).end THEN {t(s)} ELSE {}
  <2>1. {x \in {s} : x.start < x.end} = IF s.start < s.end THEN {s} ELSE {}
    OBVIOUS
  <2>2. CASE s.start < s.end
    <3>1. {t(x) : x \in {x \in {s} : x.start < x.end}} = {t(s)}
      BY <2>1, <2>2
    <3> HIDE DEF t
    <3> QED BY <1>1, <2>2, <3>1
  <2>3. CASE ~ (s.start < s.end)
    <3>1. {t(x) : x \in {x \in {s} : x.start < x.end}} = {}
      BY <2>1, <2>3
    <3> HIDE DEF t
    <3> QED BY <1>1, <2>3, <3>1
  <2> QED BY <2>2, <2>3
<1> QED BY <1>2, <1>3, <1>4 DEF s

\* What is kept or held maps to spans of the processed audio.
LEMMA ProcessedAre ==
  ASSUME NEW c \in Seq(StampT), NEW S, IsFiniteSet(S), RealSpans(S)
  PROVE  IsFiniteSet(InProcessed(S, c)) /\ RealSpans(InProcessed(S, c))
<1>1. \A w \in S : w \in SpanT
  BY DEF RealSpans
<1>2. ASSUME NEW w \in S
      PROVE  /\ IsFiniteSet(MapToProcessed(w, c))
             /\ \A t \in MapToProcessed(w, c) : t \in SpanT /\ t.start < t.end
  <2> DEFINE s == Snapped(w, c)
             t == [start |-> Adjust(s.start, c), end |-> Adjust(s.end, c)]
  <2>1. /\ t \in SpanT
        /\ MapToProcessed(w, c) = IF s.start < s.end /\ t.start < t.end THEN {t} ELSE {}
    BY <1>1, MappedIs
  <2> HIDE DEF t
  <2>2. IsFiniteSet({}) /\ IsFiniteSet({t})
    BY FS_EmptySet, FS_Singleton
  <2> QED BY <2>1, <2>2
<1>3. InProcessed(S, c) = UNION {MapToProcessed(w, c) : w \in S}
  BY DEF InProcessed
<1> DEFINE I == {MapToProcessed(w, c) : w \in S}
<1>4. IsFiniteSet(I)
  <2> DEFINE f == [w \in S |-> MapToProcessed(w, c)]
  <2>1. f \in Surjection(S, I)
    BY DEF Surjection
  <2> HIDE DEF f, I
  <2> QED BY <2>1, FS_Surjection
<1>5. IsFiniteSet(UNION I)
  BY <1>2, <1>4, FS_UNION
<1>6. RealSpans(UNION I)
  BY <1>2 DEF RealSpans
<1> QED BY <1>3, <1>5, <1>6
-----------------------------------------------------------------------------
(* The candidates of the second pass.                                        *)

ChosenFrom(t, s, I, S) == t \in Seq(S) /\ \A x \in ToSet(t) : \E i \in I : x = s[i]

\* Those has what the list has at the places, and nothing else.
LEMMA ThoseAre ==
  ASSUME NEW S, NEW s \in Seq(S), NEW I, I \subseteq 1 .. Len(s)
  PROVE  ChosenFrom(Those(s, I), s, I, S)
<1> DEFINE t == Those(s, I)
           n == Cardinality(I)
<1>1. t \in Seq(S) /\ \E p : Chosen(p, t, s, I)
  BY ThoseInOrder
<1>2. PICK p : Chosen(p, t, s, I)
  BY <1>1
<1> HIDE DEF t
<1>3. /\ DOMAIN t = 1 .. n /\ p \in [1 .. n -> I]
      /\ \A k \in 1 .. n : t[k] = s[p[k]]
  BY <1>2 DEF Chosen
<1>4. ASSUME NEW x \in ToSet(t) PROVE \E i \in I : x = s[i]
  <2>1. PICK k \in 1 .. n : x = t[k]
    BY <1>3 DEF ToSet
  <2>2. p[k] \in I /\ x = s[p[k]]
    BY <1>3, <2>1
  <2> QED BY <2>2
<1> QED BY <1>1, <1>4 DEF t, ChosenFrom

\* A sorted list of candidates has the same candidates.
LEMMA SortedAre ==
  ASSUME NEW S, NEW s \in Seq(S), NEW key, \A i \in 1 .. Len(s) : key[i] \in Nat
  PROVE  /\ InOrder(s, DOMAIN s, key) \in Seq(S)
         /\ \A x \in ToSet(InOrder(s, DOMAIN s, key)) : x \in ToSet(s)
<1> DEFINE n == Len(s)
           t == InOrder(s, DOMAIN s, key)
<1>0. n \in Nat /\ DOMAIN s = 1 .. n
  OBVIOUS
<1>1. n \in Nat /\ DOMAIN s = 1 .. n /\ IsFiniteSet(1 .. n) /\ Cardinality(1 .. n) = n
  <2> HIDE DEF n
  <2> QED BY <1>0, FS_Interval
<1>3. PICK p : Sorting(p, 1 .. n, key) /\ InOrder(s, 1 .. n, key) = [k \in 1 .. n |-> s[p[k]]]
  <2> HIDE DEF n
  <2>1. Keyed(1 .. n, key)
    BY <1>1 DEF Keyed, n
  <2>2. PICK p : Lists(p, 1 .. n, key)
    BY <2>1, InOrderSorts
  <2>3. /\ Sorting(p, 1 .. n, key)
        /\ \A z : InOrder(z, 1 .. n, key) = [k \in 1 .. Cardinality(1 .. n) |-> z[p[k]]]
    BY <2>2 DEF Lists
  <2>4. InOrder(s, 1 .. n, key) = [k \in 1 .. Cardinality(1 .. n) |-> s[p[k]]]
    BY <2>3
  <2>5. Cardinality(1 .. n) = n
    BY <1>1
  <2>6. InOrder(s, 1 .. n, key) = [k \in 1 .. n |-> s[p[k]]]
    BY <2>4, <2>5
  <2> QED BY <2>3, <2>6
<1>4. t = [k \in 1 .. n |-> s[p[k]]]
  BY <1>1, <1>3
<1>5. p \in [1 .. n -> 1 .. n]
  BY <1>1, <1>3 DEF Sorting
<1>6. \A k \in 1 .. n : p[k] \in 1 .. n /\ s[p[k]] \in S /\ s[p[k]] \in ToSet(s)
  BY <1>1, <1>5 DEF ToSet
<1>7. t \in Seq(S) /\ DOMAIN t = 1 .. n /\ \A k \in 1 .. n : t[k] = s[p[k]]
  BY <1>1, <1>4, <1>6
<1> HIDE DEF t
<1>8. \A x \in ToSet(t) : x \in ToSet(s)
  BY <1>6, <1>7 DEF ToSet
<1> QED BY <1>7, <1>8 DEF t

\* Candidates of the second pass, with their twins in the original.
CandT == [ad : AdT, from : Nat, to : Nat]
FoundIn(x, F, c) ==
  /\ x \in CandT /\ x.ad.start < x.ad.end
  /\ x.from = MapToOriginal(x.ad.start, c) /\ x.to = MapToOriginal(x.ad.end, c)
  /\ \E a \in F : /\ a \in AdT /\ x.ad.beep = a.beep
                  /\ a.start <= x.ad.start /\ x.ad.end <= a.end
Back(c) == Rises(c) /\ \A t \in Nat : MapToOriginal(t, c) \in Nat
Candids(s, F, c) == s \in Seq(CandT) /\ \A x \in ToSet(s) : FoundIn(x, F, c)

\* A candidate has its twin's edges by MapToOriginal.
LEMMA PairedIs ==
  ASSUME NEW c, Back(c), NEW ad \in AdT
  PROVE  /\ Paired(ad, c) \in CandT /\ Paired(ad, c).ad = ad
         /\ Paired(ad, c).from = MapToOriginal(ad.start, c)
         /\ Paired(ad, c).to = MapToOriginal(ad.end, c)
<1>1. ad.start \in Nat /\ ad.end \in Nat
  BY DEF AdT
<1>2. MapToOriginal(ad.start, c) \in Nat /\ MapToOriginal(ad.end, c) \in Nat
  BY <1>1 DEF Back
<1> QED BY <1>2 DEF Paired, CandT

\* One fragment of a candidate.
FragmentOf(x, p, c) == Paired([Piece(x.ad, p) EXCEPT !.trusted = @ \/ Length(x.ad) >= MinAd], c)

\* A fragment of a candidate is a candidate.
LEMMA FragmentIs ==
  ASSUME NEW c, Back(c), NEW F, NEW x, FoundIn(x, F, c), NEW p \in SpanT,
         x.ad.start <= p.start, p.start < p.end, p.end <= x.ad.end
  PROVE  FoundIn(FragmentOf(x, p, c), F, c)
<1> DEFINE q == Piece(x.ad, p)
           r == [q EXCEPT !.trusted = @ \/ Length(x.ad) >= MinAd]
<1>1. x \in CandT /\ x.ad \in AdT
  BY DEF FoundIn, CandT
<1>2. q \in AdT /\ q.start = p.start /\ q.end = p.end /\ q.beep = x.ad.beep
  BY <1>1, PieceIs
<1> HIDE DEF q
<1>3. r \in AdT /\ r.start = p.start /\ r.end = p.end /\ r.beep = x.ad.beep
  <2> DEFINE b == q.trusted \/ Length(x.ad) >= MinAd
  <2>1. b \in BOOLEAN
    BY <1>2 DEF AdT
  <2>2. r = [q EXCEPT !.trusted = b]
    OBVIOUS
  <2> HIDE DEF b, r
  <2>3. r = [start |-> q.start, end |-> q.end, beep |-> q.beep, trusted |-> b,
             confirmed |-> q.confirmed, pins |-> q.pins]
    BY <1>2, <2>2 DEF AdT
  <2> QED BY <1>2, <2>1, <2>3 DEF AdT
<1>4. FragmentOf(x, p, c) = Paired(r, c)
  BY DEF FragmentOf, q
<1> HIDE DEF r
<1>5. /\ Paired(r, c) \in CandT /\ Paired(r, c).ad = r
      /\ Paired(r, c).from = MapToOriginal(r.start, c)
      /\ Paired(r, c).to = MapToOriginal(r.end, c)
  BY <1>3, PairedIs
<1>6. PICK a \in F : /\ a \in AdT /\ x.ad.beep = a.beep
                     /\ a.start <= x.ad.start /\ x.ad.end <= a.end
  BY DEF FoundIn
<1>7. a.start <= p.start /\ p.end <= a.end
  <2>1. x.ad.start \in Nat /\ x.ad.end \in Nat /\ p.start \in Nat /\ p.end \in Nat
        /\ a.start \in Nat /\ a.end \in Nat
    BY <1>1, <1>6 DEF AdT, SpanT
  <2> QED BY <1>6, <2>1
<1>8. /\ Paired(r, c).ad.start < Paired(r, c).ad.end
      /\ Paired(r, c).ad.beep = a.beep
      /\ a.start <= Paired(r, c).ad.start /\ Paired(r, c).ad.end <= a.end
  BY <1>3, <1>5, <1>6, <1>7
<1> DEFINE y == Paired(r, c)
<1>9. /\ y \in CandT /\ y.ad.start < y.ad.end
      /\ y.from = MapToOriginal(y.ad.start, c) /\ y.to = MapToOriginal(y.ad.end, c)
  BY <1>5, <1>8
<1>10. a \in AdT /\ y.ad.beep = a.beep /\ a.start <= y.ad.start /\ y.ad.end <= a.end
  BY <1>6, <1>8
<1> HIDE DEF y
<1>11. FoundIn(y, F, c)
  BY <1>9, <1>10 DEF FoundIn
<1> QED BY <1>4, <1>11 DEF y

\* Going around walls leaves parts of candidates.
PartsOf(x, W, c) ==
  IF Whole(x, Pieces(x.ad, W)) THEN <<x>>
  ELSE LET fs == [j \in DOMAIN Pieces(x.ad, W) |-> FragmentOf(x, Pieces(x.ad, W)[j], c)]
       IN  Those(fs, {j \in DOMAIN fs : Length(fs[j].ad) >= MinFragment /\ fs[j].to - fs[j].from >= MinFragment})

\* So is all that the walls leave of it.
LEMMA PartsOfOne ==
  ASSUME NEW c, Back(c), NEW F, NEW x, FoundIn(x, F, c), NEW W, IsFiniteSet(W), RealSpans(W)
  PROVE  Candids(PartsOf(x, W, c), F, c)
<1> DEFINE ps == Pieces(x.ad, W)
           fs == [j \in DOMAIN ps |-> FragmentOf(x, ps[j], c)]
           I == {j \in DOMAIN fs : Length(fs[j].ad) >= MinFragment /\ fs[j].to - fs[j].from >= MinFragment}
<1>1. x \in CandT /\ x.ad \in AdT /\ x.ad.start \in Nat /\ x.ad.end \in Nat /\ x.ad.start < x.ad.end
  BY DEF FoundIn, CandT, AdT
<1>2. CASE Whole(x, ps)
  <2>1. PartsOf(x, W, c) = <<x>>
    BY <1>2 DEF PartsOf
  <2>2. <<x>> \in Seq(CandT) /\ ToSet(<<x>>) = {x}
    BY <1>1 DEF ToSet
  <2> QED BY <2>1, <2>2 DEF Candids
<1>3. CASE ~ Whole(x, ps)
  <2>1. PartsOf(x, W, c) = Those(fs, I)
    BY <1>3 DEF PartsOf
  <2>2. Carves(ps, x.ad, W)
    BY <1>1, PiecesCarve
  <2> HIDE DEF ps
  <2>3. ps \in Seq(SpanT) /\ DOMAIN ps = 1 .. Len(ps) /\ Len(ps) \in Nat
    BY <2>2 DEF Carves
  <2>4. \A j \in 1 .. Len(ps) : /\ ps[j] \in SpanT
                                /\ x.ad.start <= ps[j].start /\ ps[j].start < ps[j].end /\ ps[j].end <= x.ad.end
    BY <2>2, <2>3 DEF Carves, ToSet
  <2>5. \A j \in 1 .. Len(ps) : FoundIn(FragmentOf(x, ps[j], c), F, c)
    BY <2>4, FragmentIs
  <2>6. \A j \in 1 .. Len(ps) : FragmentOf(x, ps[j], c) \in CandT
    BY <2>5 DEF FoundIn
  <2>7. fs \in Seq(CandT) /\ Len(fs) = Len(ps) /\ \A j \in 1 .. Len(ps) : FoundIn(fs[j], F, c)
    BY <2>3, <2>5, <2>6
  <2>8. I \subseteq 1 .. Len(fs)
    BY <2>3, <2>7
  <2> HIDE DEF fs, I
  <2>9. Those(fs, I) \in Seq(CandT) /\ \A y \in ToSet(Those(fs, I)) : \E j \in I : y = fs[j]
    <3>1. ChosenFrom(Those(fs, I), fs, I, CandT)
      BY <2>7, <2>8, ThoseAre
    <3> QED BY <3>1 DEF ChosenFrom
  <2> QED BY <2>1, <2>7, <2>8, <2>9 DEF Candids
<1> QED BY <1>2, <1>3

\* Candidates split around walls are candidates still.
LEMMA SplitAre ==
  ASSUME NEW c, Back(c), NEW F, NEW s, Candids(s, F, c), NEW W, IsFiniteSet(W), RealSpans(W)
  PROVE  Candids(SplitAround(s, W, c), F, c)
<1> DEFINE ss == [i \in DOMAIN s |-> PartsOf(s[i], W, c)]
<1>1. SplitAround(s, W, c) = FlattenSeq(ss)
  BY DEF SplitAround, PartsOf, FragmentOf
<1>2. s \in Seq(CandT) /\ DOMAIN s = 1 .. Len(s) /\ Len(s) \in Nat /\ \A i \in 1 .. Len(s) : FoundIn(s[i], F, c)
  BY DEF Candids, ToSet
<1>3. \A i \in 1 .. Len(s) : Candids(PartsOf(s[i], W, c), F, c)
  BY <1>2, PartsOfOne
<1>4. \A i \in 1 .. Len(s) : /\ PartsOf(s[i], W, c) \in Seq(CandT)
                             /\ \A x \in ToSet(PartsOf(s[i], W, c)) : FoundIn(x, F, c)
  BY <1>3 DEF Candids
<1>5. ss \in Seq(Seq(CandT)) /\ Len(ss) = Len(s) /\ \A i \in 1 .. Len(s) : ss[i] = PartsOf(s[i], W, c)
  BY <1>2, <1>4
<1> HIDE DEF ss
<1>6. /\ FlattenSeq(ss) \in Seq(CandT)
      /\ \A x : x \in ToSet(FlattenSeq(ss)) <=> \E i \in 1 .. Len(ss) : x \in ToSet(ss[i])
  BY <1>5, Flattened
<1>7. \A x \in ToSet(FlattenSeq(ss)) : FoundIn(x, F, c)
  BY <1>4, <1>5, <1>6
<1> QED BY <1>1, <1>6, <1>7 DEF Candids

\* Some candidates of many.
LEMMA SomeCandids ==
  ASSUME NEW s, NEW F, NEW c, Candids(s, F, c), NEW I, I \subseteq 1 .. Len(s)
  PROVE  Candids(Those(s, I), F, c)
<1>1. s \in Seq(CandT) /\ DOMAIN s = 1 .. Len(s)
  BY DEF Candids
<1>2. Those(s, I) \in Seq(CandT) /\ \A x \in ToSet(Those(s, I)) : \E i \in I : x = s[i]
  <2>1. ChosenFrom(Those(s, I), s, I, CandT)
    BY <1>1, ThoseAre
  <2> QED BY <2>1 DEF ChosenFrom
<1>3. \A i \in I : s[i] \in ToSet(s)
  BY <1>1 DEF ToSet
<1>4. \A x \in ToSet(Those(s, I)) : FoundIn(x, F, c)
  BY <1>2, <1>3 DEF Candids
<1> QED BY <1>2, <1>4 DEF Candids

\* Trust is not what a candidate is known by.
LEMMA TrustedIs ==
  ASSUME NEW F, NEW c, NEW x, FoundIn(x, F, c)
  PROVE  FoundIn([x EXCEPT !.ad.trusted = TRUE], F, c)
<1> DEFINE y == [x EXCEPT !.ad.trusted = TRUE]
           b == [x.ad EXCEPT !.trusted = TRUE]
<1>1. x \in CandT /\ x = [ad |-> x.ad, from |-> x.from, to |-> x.to] /\ x.ad \in AdT
  BY DEF FoundIn, CandT
<1>2. b \in AdT /\ b.start = x.ad.start /\ b.end = x.ad.end /\ b.beep = x.ad.beep
  BY <1>1 DEF AdT
<1>3. y = [ad |-> b, from |-> x.from, to |-> x.to]
  <2>1. y = [x EXCEPT !.ad = b]
    OBVIOUS
  <2> HIDE DEF y, b
  <2> QED BY <1>1, <2>1
<1> HIDE DEF b
<1>4. y \in CandT /\ y.ad = b /\ y.from = x.from /\ y.to = x.to
  BY <1>1, <1>2, <1>3 DEF CandT
<1> HIDE DEF y
<1>5. FoundIn(y, F, c)
  BY <1>2, <1>4 DEF FoundIn
<1> QED BY <1>5 DEF y

\* Beeps and the removals around them are still parts of what was found.
LEMMA ReconciledAre ==
  ASSUME NEW c, Back(c), NEW F, NEW s, Candids(s, F, c)
  PROVE  Candids(Reconciled(s, c), F, c)
<1> DEFINE removes == Those(s, {i \in DOMAIN s : ~ s[i].ad.beep})
           sel == Those(s, {i \in DOMAIN s : s[i].ad.beep})
           Contested(x) == \E i \in DOMAIN removes : Meet(x.ad, removes[i].ad)
           beeps == [i \in DOMAIN sel |-> IF Contested(sel[i])
                                          THEN [sel[i] EXCEPT !.ad.trusted = TRUE] ELSE sel[i]]
           around == {[start |-> beeps[i].ad.start, end |-> beeps[i].ad.end] : i \in DOMAIN beeps}
           both == beeps \o SplitAround(removes, around, c)
           key == [i \in DOMAIN both |-> both[i].ad.start]
<1>1. Reconciled(s, c) = IF beeps = <<>> THEN s ELSE InOrder(both, DOMAIN both, key)
  BY DEF Reconciled
<1>2. s \in Seq(CandT) /\ DOMAIN s = 1 .. Len(s)
  BY DEF Candids
<1>3. Candids(removes, F, c) /\ Candids(sel, F, c)
  <2> DEFINE I == {i \in DOMAIN s : ~ s[i].ad.beep}
             J == {i \in DOMAIN s : s[i].ad.beep}
  <2>1. I \subseteq 1 .. Len(s) /\ J \subseteq 1 .. Len(s)
    BY <1>2
  <2> HIDE DEF I, J
  <2>2. Candids(Those(s, I), F, c) /\ Candids(Those(s, J), F, c)
    BY <2>1, SomeCandids
  <2> QED BY <2>2 DEF I, J
<1> HIDE DEF removes, sel
<1>4. sel \in Seq(CandT) /\ DOMAIN sel = 1 .. Len(sel) /\ Len(sel) \in Nat
      /\ \A i \in 1 .. Len(sel) : sel[i] \in CandT /\ FoundIn(sel[i], F, c)
  BY <1>3 DEF Candids, ToSet
<1>5. /\ DOMAIN beeps = 1 .. Len(sel)
      /\ \A i \in 1 .. Len(sel) : FoundIn(beeps[i], F, c)
  <2> HIDE DEF Contested
  <2>1. \A i \in 1 .. Len(sel) : FoundIn([sel[i] EXCEPT !.ad.trusted = TRUE], F, c)
    BY <1>4, TrustedIs
  <2> QED BY <1>4, <2>1
<1>6. beeps \in Seq(CandT) /\ Len(beeps) = Len(sel)
  <2>1. \A i \in 1 .. Len(sel) : beeps[i] \in CandT
    <3> HIDE DEF beeps
    <3> QED BY <1>5 DEF FoundIn
  <2>2. beeps = [i \in 1 .. Len(sel) |-> beeps[i]]
    BY <1>4
  <2> HIDE DEF beeps
  <2> QED BY <1>4, <2>1, <2>2
<1> HIDE DEF beeps
<1>7. Candids(beeps, F, c)
  BY <1>5, <1>6 DEF Candids, ToSet
<1>8. IsFiniteSet(around) /\ RealSpans(around)
  <2> DEFINE f == [i \in 1 .. Len(sel) |-> [start |-> beeps[i].ad.start, end |-> beeps[i].ad.end]]
  <2>1. f \in Surjection(1 .. Len(sel), around)
    BY <1>5 DEF Surjection
  <2>2. IsFiniteSet(1 .. Len(sel))
    BY <1>4, FS_Interval
  <2>3. IsFiniteSet(around)
    <3> HIDE DEF f, around
    <3> QED BY <2>1, <2>2, FS_Surjection
  <2>4. \A i \in 1 .. Len(sel) : /\ beeps[i].ad.start \in Nat /\ beeps[i].ad.end \in Nat
                                 /\ beeps[i].ad.start < beeps[i].ad.end
    BY <1>5 DEF FoundIn, CandT, AdT
  <2>5. RealSpans(around)
    BY <1>5, <2>4 DEF RealSpans, SpanT
  <2> QED BY <2>3, <2>5
<1> HIDE DEF around
<1>9. Candids(SplitAround(removes, around, c), F, c)
  BY <1>3, <1>8, SplitAre
<1>10. Candids(both, F, c)
  <2> DEFINE t == SplitAround(removes, around, c)
  <2>1. /\ beeps \in Seq(CandT) /\ t \in Seq(CandT)
        /\ \A x \in ToSet(beeps) : FoundIn(x, F, c)
        /\ \A x \in ToSet(t) : FoundIn(x, F, c)
    BY <1>7, <1>9 DEF Candids
  <2> HIDE DEF t
  <2>2. beeps \o t \in Seq(CandT) /\ ToSet(beeps \o t) = ToSet(beeps) \cup ToSet(t)
    BY <2>1, JoinedSets
  <2>3. Candids(beeps \o t, F, c)
    BY <2>1, <2>2 DEF Candids
  <2> QED BY <2>3 DEF t
<1> HIDE DEF both
<1>11. Candids(InOrder(both, DOMAIN both, key), F, c)
  <2>1. both \in Seq(CandT) /\ DOMAIN both = 1 .. Len(both) /\ \A i \in 1 .. Len(both) : both[i] \in CandT
    BY <1>10 DEF Candids
  <2>2. \A i \in 1 .. Len(both) : key[i] \in Nat
    BY <2>1 DEF CandT, AdT
  <2> HIDE DEF key
  <2>3. /\ InOrder(both, DOMAIN both, key) \in Seq(CandT)
        /\ \A x \in ToSet(InOrder(both, DOMAIN both, key)) : x \in ToSet(both)
    BY <2>1, <2>2, SortedAre
  <2> QED BY <1>10, <2>3 DEF Candids
<1> HIDE DEF key
<1> QED BY <1>1, <1>11

\* So are the candidates that the second pass goes by.
LEMMA CandidatesAre ==
  ASSUME NEW c \in Seq(StampT), Back(c), NEW found \in Seq(AdT),
         \A i \in 1 .. Len(found) : found[i].start < found[i].end,
         NEW W, IsFiniteSet(W), RealSpans(W)
  PROVE  Candids(Candidates(found, W, c), ToSet(found), c)
<1> DEFINE s == [i \in DOMAIN found |-> Paired(found[i], c)]
           F == ToSet(found)
<1>1. DOMAIN found = 1 .. Len(found) /\ Len(found) \in Nat
      /\ \A i \in 1 .. Len(found) : found[i] \in AdT /\ found[i] \in F
  BY DEF ToSet
<1> HIDE DEF F
<1>2. \A i \in 1 .. Len(found) : FoundIn(Paired(found[i], c), F, c)
  <2> TAKE i \in 1 .. Len(found)
  <2> DEFINE x == Paired(found[i], c)
  <2>1. found[i] \in AdT /\ found[i] \in F /\ found[i].start < found[i].end
        /\ found[i].start \in Nat /\ found[i].end \in Nat
    BY <1>1 DEF AdT
  <2>2. /\ x \in CandT /\ x.ad = found[i]
        /\ x.from = MapToOriginal(found[i].start, c)
        /\ x.to = MapToOriginal(found[i].end, c)
    BY <2>1, PairedIs
  <2> HIDE DEF x
  <2>3. FoundIn(x, F, c)
    BY <2>1, <2>2 DEF FoundIn
  <2> QED BY <2>3 DEF x
<1>3. \A i \in 1 .. Len(found) : Paired(found[i], c) \in CandT
  BY <1>2 DEF FoundIn
<1>4. s \in Seq(CandT) /\ DOMAIN s = 1 .. Len(found) /\ \A i \in 1 .. Len(found) : s[i] = Paired(found[i], c)
  BY <1>1, <1>3
<1>5. Candidates(found, W, c) = SplitAround(Reconciled(s, c), InProcessed(W, c), c)
  BY DEF Candidates
<1> HIDE DEF s
<1>6. Candids(s, F, c)
  BY <1>2, <1>4 DEF Candids, ToSet
<1>7. Candids(Reconciled(s, c), F, c)
  BY <1>6, ReconciledAre
<1>8. IsFiniteSet(InProcessed(W, c)) /\ RealSpans(InProcessed(W, c))
  BY ProcessedAre
<1>9. Candids(SplitAround(Reconciled(s, c), InProcessed(W, c), c), F, c)
  BY <1>7, <1>8, SplitAre
<1> QED BY <1>5, <1>9 DEF F
-----------------------------------------------------------------------------
(* The plan of both passes.                                                  *)

\* Cuts of both passes, and what they are united to.
PlanT == [start : Nat, end : Nat, beep : BOOLEAN, trusted : BOOLEAN, confirmed : BOOLEAN,
          pins : SUBSET {"start", "end"}, passes : SUBSET {1, 2}]
UniteIn(plan, ad, protected, locked) ==
  IF plan # <<>> /\ MayUnite(Last(plan), ad, protected, locked)
  THEN Append(Front(plan), Union(Last(plan), ad))
  ELSE Append(plan, ad)
United(ads, protected, locked) == FoldLeft(LAMBDA p, a : UniteIn(p, a, protected, locked), <<>>, ads)

\* The union of two cuts has the start of the one and the later end.
LEMMA UnionIs ==
  ASSUME NEW x \in PlanT, NEW y \in PlanT
  PROVE  /\ Union(x, y) \in PlanT
         /\ Union(x, y).start = x.start /\ Union(x, y).beep = x.beep
         /\ Union(x, y).end = Larger(x.end, y.end)
<1> DEFINE e == Larger(x.end, y.end)
           p == x.passes \cup y.passes
           t == x.trusted \/ y.trusted
<1>1. /\ x.end \in Nat /\ y.end \in Nat /\ x.passes \in SUBSET {1, 2} /\ y.passes \in SUBSET {1, 2}
      /\ x.trusted \in BOOLEAN /\ y.trusted \in BOOLEAN
  BY DEF PlanT
<1>2. e \in Nat /\ p \in SUBSET {1, 2} /\ t \in BOOLEAN
  BY <1>1 DEF Larger
<1>3. Union(x, y) = [x EXCEPT !.end = e, !.passes = p, !.trusted = t]
  BY DEF Union
<1> HIDE DEF e, p, t
<1>4. Union(x, y) = [start |-> x.start, end |-> e, beep |-> x.beep, trusted |-> t,
                     confirmed |-> x.confirmed, pins |-> x.pins, passes |-> p]
  BY <1>3 DEF PlanT
<1>5. Union(x, y) \in PlanT
  BY <1>2, <1>4 DEF PlanT
<1>6. Union(x, y).end = e /\ Union(x, y).start = x.start /\ Union(x, y).beep = x.beep
  BY <1>4
<1> QED BY <1>5, <1>6 DEF e

\* Uniting gives plans.
LEMMA UniteInType ==
  ASSUME NEW plan \in Seq(PlanT), NEW ad \in PlanT, NEW V, NEW L
  PROVE  UniteIn(plan, ad, V, L) \in Seq(PlanT)
<1>1. CASE plan # <<>> /\ MayUnite(Last(plan), ad, V, L)
  <2> DEFINE u == Union(Last(plan), ad)
  <2>1. Front(plan) \in Seq(PlanT) /\ Last(plan) \in PlanT
    BY <1>1, LastReplaced
  <2>2. u \in PlanT
    BY <2>1, UnionIs
  <2>3. UniteIn(plan, ad, V, L) = Append(Front(plan), u)
    BY <1>1 DEF UniteIn
  <2> HIDE DEF u
  <2> QED BY <2>1, <2>2, <2>3
<1>2. CASE ~ (plan # <<>> /\ MayUnite(Last(plan), ad, V, L))
  <2>1. UniteIn(plan, ad, V, L) = Append(plan, ad)
    BY <1>2 DEF UniteIn
  <2> QED BY <2>1
<1> QED BY <1>1, <1>2

UniteRun(h, c, V, L) ==
  /\ h \in [0 .. Len(c) -> Seq(PlanT)] /\ h[0] = <<>>
  /\ \A k \in 1 .. Len(c) : h[k] = UniteIn(h[k - 1], c[k], V, L)

\* CrossPlan unites the cuts one after the other.
LEMMA UniteRuns ==
  ASSUME NEW c \in Seq(PlanT), NEW V, NEW L
  PROVE  \E h : UniteRun(h, c, V, L) /\ United(c, V, L) = h[Len(c)]
<1> DEFINE n == Len(c)
           T == Seq(PlanT)
           D == DOMAIN c
           b == <<>>
           Body(g) == [u \in SUBSET D |-> IF u = {} THEN b ELSE UniteIn(g[u \ {Max(u)}], c[Max(u)], V, L)]
           f == CHOOSE g : g = Body(g)
           op == [k \in 1 .. n |-> [m \in T |-> UniteIn(m, c[k], V, L)]]
           h == [k \in 0 .. n |-> f[1 .. k]]
<1>0. n \in Nat /\ D = 1 .. n /\ \A k \in 1 .. n : c[k] \in PlanT
  OBVIOUS
<1>1. United(c, V, L) = f[D]
  BY DEF United, FoldLeft, MapThenFoldSet
<1> HIDE DEF D, n
<1>01. \A m \in T, k \in 1 .. n : UniteIn(m, c[k], V, L) \in T
  BY <1>0, UniteInType
<1>3. b \in T
  OBVIOUS
<1> HIDE DEF T, b
<1>2. Steps(op, n, T)
  BY <1>01 DEF Steps
<1>4. PICK g : Works(g, op, b, n, T)
  <2> HIDE DEF op
  <2> QED BY <1>0, <1>2, <1>3, FoldExists
<1>5. g = Body(g)
  <2>1. ASSUME NEW u \in SUBSET D
        PROVE  g[u] = IF u = {} THEN b ELSE UniteIn(g[u \ {Max(u)}], c[Max(u)], V, L)
    <3>1. /\ u = {} => g[u] = b
          /\ u # {} => Max(u) \in 1 .. n /\ g[u] = op[Max(u)][g[u \ {Max(u)}]]
      BY <1>0, <1>4 DEF Works
    <3>2. g[u \ {Max(u)}] \in T
      BY <1>0, <1>4 DEF Works
    <3>3. u # {} => op[Max(u)][g[u \ {Max(u)}]] = UniteIn(g[u \ {Max(u)}], c[Max(u)], V, L)
      BY <3>1, <3>2
    <3> QED BY <3>1, <3>3
  <2>2. g = [u \in SUBSET D |-> g[u]]
    BY <1>0, <1>4 DEF Works
  <2> QED BY <2>1, <2>2
<1>6. f = Body(f)
  <2> HIDE DEF Body
  <2> QED BY <1>5
<1> HIDE DEF f
<1>7. Unrolled(f, op, b, n, T)
  <2>1. \A u \in SUBSET D : f[u] = IF u = {} THEN b ELSE UniteIn(f[u \ {Max(u)}], c[Max(u)], V, L)
    BY <1>6
  <2> QED BY <1>0, <2>1 DEF Unrolled
<1>8. Iterates(h, op, b, n, T)
  <2> HIDE DEF op
  <2> QED BY <1>0, <1>2, <1>3, <1>7, FoldUnrolls
<1>9. h[n] = f[D]
  BY <1>0
<1> HIDE DEF h
<1>10. h \in [0 .. n -> T] /\ h[0] = b /\ \A k \in 1 .. n : h[k] = op[k][h[k - 1]]
  <2> HIDE DEF op
  <2> QED BY <1>8 DEF Iterates
<1>11. ASSUME NEW k \in 1 .. n PROVE h[k] = UniteIn(h[k - 1], c[k], V, L)
  <2>1. h[k - 1] \in T
    <3>1. k - 1 \in 0 .. n
      BY <1>0
    <3> QED BY <1>10, <3>1
  <2> QED BY <1>10, <2>1
<1>12. UniteRun(h, c, V, L)
  BY <1>10, <1>11 DEF UniteRun, n, T, b
<1> QED BY <1>1, <1>9, <1>12 DEF n

\* What is united of the spans A: each begins and ends where one of them does, and what
\* has another action is passed before it begins.
PlanInv(p, A) ==
  /\ p \in Seq(PlanT)
  /\ \A i \in 1 .. Len(p) : /\ p[i].start < p[i].end
                            /\ \E x \in A : x.end = p[i].end /\ x.beep = p[i].beep
  /\ \A i, j \in 1 .. Len(p) : i < j /\ p[i].beep # p[j].beep => p[i].end <= p[j].start

\* ad follows A, and meets nothing of another action.
Follows(ad, A) ==
  /\ A \subseteq PlanT /\ ad \in PlanT /\ ad.start < ad.end
  /\ \A x \in A : x.start <= ad.start /\ (x.beep = ad.beep \/ ~ Meet(x, ad))

\* One more cut, united or not, keeps the plan in order and its actions apart.
LEMMA UniteKeeps ==
  ASSUME NEW A, NEW ad, Follows(ad, A), NEW p, PlanInv(p, A), NEW V, NEW L
  PROVE  PlanInv(UniteIn(p, ad, V, L), A \cup {ad})
<1> DEFINE n == Len(p)
           B == A \cup {ad}
<1>1. /\ p \in Seq(PlanT) /\ n \in Nat /\ ad \in PlanT /\ ad.start < ad.end
      /\ ad.start \in Nat /\ ad.end \in Nat
      /\ \A i \in 1 .. n : p[i] \in PlanT /\ p[i].start < p[i].end /\ p[i].start \in Nat /\ p[i].end \in Nat
  <2>1. p \in Seq(PlanT) /\ n \in Nat /\ ad \in PlanT /\ ad.start < ad.end
    BY DEF PlanInv, Follows
  <2>2. \A i \in 1 .. n : p[i] \in PlanT /\ p[i].start < p[i].end
    BY <2>1 DEF PlanInv
  <2> QED BY <2>1, <2>2 DEF PlanT
<1>2. /\ \A i \in 1 .. n : \E x \in A : x.end = p[i].end /\ x.beep = p[i].beep
      /\ \A i, j \in 1 .. n : i < j /\ p[i].beep # p[j].beep => p[i].end <= p[j].start
  BY DEF PlanInv
<1>3. CASE p # <<>> /\ MayUnite(Last(p), ad, V, L)
  <2> DEFINE l == Last(p)
             u == Union(l, ad)
             q == Append(Front(p), u)
  <2>1. Front(p) \in Seq(PlanT) /\ l \in PlanT /\ n \in Nat \ {0} /\ l = p[n] /\ Len(Front(p)) = n - 1
        /\ \A i \in 1 .. n - 1 : Front(p)[i] = p[i]
    BY <1>1, <1>3, LastReplaced
  <2>2. u \in PlanT /\ u.start = l.start /\ u.beep = l.beep /\ u.end = Larger(l.end, ad.end)
    BY <1>1, <2>1, UnionIs
  <2>3. l.beep = ad.beep
    BY <1>3 DEF MayUnite
  <2>4. UniteIn(p, ad, V, L) = q
    BY <1>3 DEF UniteIn
  <2> HIDE DEF l, u, n
  <2>5. /\ q \in Seq(PlanT) /\ Len(q) = n /\ q[n] = u
        /\ \A i \in 1 .. n - 1 : q[i] = p[i]
    BY <2>1, <2>2
  <2> HIDE DEF q
  <2>6. u.start < u.end /\ \E x \in B : x.end = u.end /\ x.beep = u.beep
    <3>1. n \in 1 .. n
      BY <2>1
    <3>2. l.start \in Nat /\ l.end \in Nat /\ l.start < l.end
      BY <1>1, <2>1, <3>1
    <3>3. PICK x \in A : x.end = l.end /\ x.beep = l.beep
      BY <1>2, <2>1, <3>1
    <3>4. u.end = l.end \/ u.end = ad.end
      BY <2>2 DEF Larger
    <3>5. u.start < u.end
      BY <1>1, <2>2, <3>2 DEF Larger
    <3> QED BY <2>2, <2>3, <3>3, <3>4, <3>5
  <2>7. \A i \in 1 .. n : q[i].start < q[i].end /\ \E x \in B : x.end = q[i].end /\ x.beep = q[i].beep
    <3> TAKE i \in 1 .. n
    <3>1. CASE i = n
      BY <2>5, <2>6, <3>1
    <3>2. CASE i # n
      <4>1. q[i] = p[i]
        BY <2>1, <2>5, <3>2
      <4>2. p[i].start < p[i].end /\ \E x \in A : x.end = p[i].end /\ x.beep = p[i].beep
        BY <1>1, <1>2
      <4> QED BY <4>1, <4>2
    <3> QED BY <3>1, <3>2
  <2>8. \A i, j \in 1 .. n : i < j /\ q[i].beep # q[j].beep => q[i].end <= q[j].start
    <3> TAKE i, j \in 1 .. n
    <3> HAVE i < j /\ q[i].beep # q[j].beep
    <3>1. q[i] = p[i]
      BY <2>1, <2>5
    <3>2. q[j].beep = p[j].beep /\ q[j].start = p[j].start
      <4>1. CASE j = n
        BY <2>1, <2>2, <2>5, <4>1
      <4>2. CASE j # n
        BY <2>1, <2>5, <4>2
      <4> QED BY <4>1, <4>2
    <3> QED BY <1>2, <3>1, <3>2
  <2>9. PlanInv(q, B)
    BY <2>5, <2>7, <2>8 DEF PlanInv
  <2> QED BY <2>4, <2>9
<1>4. CASE ~ (p # <<>> /\ MayUnite(Last(p), ad, V, L))
  <2> DEFINE q == Append(p, ad)
  <2>1. UniteIn(p, ad, V, L) = q
    BY <1>4 DEF UniteIn
  <2> HIDE DEF n
  <2>2. /\ q \in Seq(PlanT) /\ Len(q) = n + 1 /\ q[n + 1] = ad
        /\ \A i \in 1 .. n : q[i] = p[i]
    BY <1>1 DEF n
  <2> HIDE DEF q
  <2>3. \A i \in 1 .. n : p[i].beep # ad.beep => p[i].end <= ad.start
    <3> TAKE i \in 1 .. n
    <3> HAVE p[i].beep # ad.beep
    <3>1. PICK x \in A : x.end = p[i].end /\ x.beep = p[i].beep
      BY <1>2
    <3>2. x.start <= ad.start /\ ~ Meet(x, ad) /\ x \in PlanT
      BY <3>1 DEF Follows
    <3>3. x.start \in Nat /\ x.end \in Nat
      BY <3>2 DEF PlanT
    <3>4. x.end <= ad.start
      BY <1>1, <3>2, <3>3 DEF Meet
    <3> QED BY <3>1, <3>4
  <2>4. \A i \in 1 .. n + 1 : q[i].start < q[i].end /\ \E x \in B : x.end = q[i].end /\ x.beep = q[i].beep
    <3> TAKE i \in 1 .. n + 1
    <3>1. CASE i = n + 1
      BY <1>1, <2>2, <3>1
    <3>2. CASE i # n + 1
      <4>1. i \in 1 .. n /\ q[i] = p[i]
        BY <1>1, <2>2, <3>2
      <4>2. p[i].start < p[i].end /\ \E x \in A : x.end = p[i].end /\ x.beep = p[i].beep
        BY <1>1, <1>2, <4>1
      <4> QED BY <4>1, <4>2
    <3> QED BY <3>1, <3>2
  <2>5. \A i, j \in 1 .. n + 1 : i < j /\ q[i].beep # q[j].beep => q[i].end <= q[j].start
    <3> TAKE i, j \in 1 .. n + 1
    <3> HAVE i < j /\ q[i].beep # q[j].beep
    <3>1. i \in 1 .. n /\ q[i] = p[i]
      BY <1>1, <2>2
    <3>2. CASE j = n + 1
      BY <2>2, <2>3, <3>1, <3>2
    <3>3. CASE j # n + 1
      <4>1. j \in 1 .. n /\ q[j] = p[j]
        BY <1>1, <2>2, <3>3
      <4> QED BY <1>2, <3>1, <4>1
    <3> QED BY <3>2, <3>3
  <2>6. PlanInv(q, B)
    BY <2>2, <2>4, <2>5 DEF PlanInv
  <2> QED BY <2>1, <2>6
<1> QED BY <1>3, <1>4

\* Cuts of the two passes, in the original: none is empty, and actions do not mix.
Ready(ads, total) ==
  /\ ads \in Seq(PlanT)
  /\ \A i \in 1 .. Len(ads) : ads[i].start < ads[i].end /\ ads[i].end <= total
  /\ \A i, j \in 1 .. Len(ads) : ads[i].beep = ads[j].beep \/ ~ Meet(ads[i], ads[j])

\* So it is of all the cuts.
LEMMA UnitedDoes ==
  ASSUME NEW ads, NEW total, Ready(ads, total), NEW V, NEW L,
         \A i, j \in 1 .. Len(ads) : i < j => ads[i].start <= ads[j].start
  PROVE  PlanInv(United(ads, V, L), ToSet(ads))
<1> DEFINE n == Len(ads)
           R(k) == {ads[i] : i \in 1 .. k}
<1>0. ads \in Seq(PlanT) /\ n \in Nat /\ (\A i \in 1 .. n : ads[i] \in PlanT) /\ ToSet(ads) = R(n)
  BY DEF Ready, ToSet
<1>1. PICK f : UniteRun(f, ads, V, L) /\ United(ads, V, L) = f[Len(ads)]
  BY <1>0, UniteRuns
<1>2. /\ f[0] = <<>> /\ United(ads, V, L) = f[n]
      /\ \A k \in 1 .. n : f[k] = UniteIn(f[k - 1], ads[k], V, L)
  BY <1>1 DEF UniteRun
<1>3. /\ \A i \in 1 .. n : ads[i].start < ads[i].end
      /\ \A i, j \in 1 .. n : ads[i].beep = ads[j].beep \/ ~ Meet(ads[i], ads[j])
      /\ \A i, j \in 1 .. n : i < j => ads[i].start <= ads[j].start
  BY DEF Ready
<1> DEFINE G == {k \in 0 .. n : PlanInv(f[k], R(k))}
<1> HIDE DEF n
<1>4. 0 \in G
  <2>1. PlanInv(<<>>, R(0))
    BY DEF PlanInv
  <2> QED BY <1>0, <1>2, <2>1
<1>5. ASSUME NEW k \in 1 .. n, k - 1 \in G PROVE k \in G
  <2>1. PlanInv(f[k - 1], R(k - 1)) /\ k \in 0 .. n
    BY <1>0, <1>5
  <2>2. R(k) = R(k - 1) \cup {ads[k]}
    <3>1. 1 .. k = (1 .. k - 1) \cup {k}
      BY <1>0
    <3> QED BY <3>1
  <2>3. Follows(ads[k], R(k - 1))
    <3>1. \A i \in 1 .. k - 1 : i \in 1 .. n /\ i < k
      BY <1>0
    <3> QED BY <1>0, <1>3, <3>1 DEF Follows
  <2> HIDE DEF R
  <2>4. PlanInv(UniteIn(f[k - 1], ads[k], V, L), R(k - 1) \cup {ads[k]})
    BY <2>1, <2>3, UniteKeeps
  <2> QED BY <1>2, <2>1, <2>2, <2>4
<1> HIDE DEF G, R
<1>6. \A k \in 0 .. n : k \in G
  BY <1>0, <1>4, <1>5, CountUp
<1>7. PlanInv(f[n], R(n))
  BY <1>0, <1>6 DEF G
<1> QED BY <1>0, <1>2, <1>7

\* What a plan hands to the render from the original.
Planned(plan, total) ==
  /\ Restore(plan) \in Seq(AdT) /\ Separate(Restore(plan))
  /\ \A i \in DOMAIN plan : /\ plan[i].start \in Nat /\ plan[i].end \in Nat
                             /\ plan[i].start < plan[i].end /\ plan[i].end <= total

\* What the plan asks for is a list of requests that do not meet across actions.
LEMMA CrossPlanDoes ==
  ASSUME NEW total \in Nat, NEW first, Row(first, total), NEW second \in Seq(CandT),
         \A i \in 1 .. Len(second) : second[i].from < second[i].to /\ second[i].to <= total,
         NEW V, NEW L
  PROVE  Planned(CrossPlan(first, second, V, L), total)
<1> DEFINE fs == [i \in DOMAIN first |-> FromFirst(first[i])]
           ss == [i \in DOMAIN second |-> FromSecond(second[i])]
           ads == fs \o ss
           clash == \E i, j \in DOMAIN ads : ads[i].beep # ads[j].beep /\ Meet(ads[i], ads[j])
           s == ByStart(ads)
           p == United(s, V, L)
           plan == CrossPlan(first, second, V, L)
           Fine(x) == x \in PlanT /\ x.start < x.end /\ x.end <= total
<1>1. plan = IF clash \/ \A i \in DOMAIN p : p[i].passes # {1, 2} THEN <<>> ELSE p
  BY DEF CrossPlan, United, FoldLeft, MapThenFoldSet, UniteIn
<1>2. fs \in Seq(PlanT) /\ Len(fs) = Len(first) /\ \A i \in 1 .. Len(first) : Fine(fs[i])
  <2>1. first \in Seq(StampT) /\ DOMAIN first = 1 .. Len(first) /\ Len(first) \in Nat
        /\ \A i \in 1 .. Len(first) : first[i] \in StampT /\ first[i].start < first[i].end /\ first[i].end <= total
    BY DEF Row
  <2>2. \A i \in 1 .. Len(first) : Fine(FromFirst(first[i]))
    BY <2>1 DEF FromFirst, PlanT, StampT
  <2>3. fs = [i \in 1 .. Len(first) |-> FromFirst(first[i])]
    BY <2>1
  <2> HIDE DEF fs
  <2> QED BY <2>1, <2>2, <2>3
<1>3. ss \in Seq(PlanT) /\ Len(ss) = Len(second) /\ \A i \in 1 .. Len(second) : Fine(ss[i])
  <2>1. DOMAIN second = 1 .. Len(second) /\ Len(second) \in Nat /\ \A i \in 1 .. Len(second) : second[i] \in CandT
    OBVIOUS
  <2>2. \A i \in 1 .. Len(second) : Fine(FromSecond(second[i]))
    <3>1. \A i \in 1 .. Len(second) : /\ second[i].from \in Nat /\ second[i].to \in Nat
                                      /\ second[i].ad.beep \in BOOLEAN /\ second[i].ad.trusted \in BOOLEAN
      BY <2>1 DEF CandT, AdT
    <3> QED BY <3>1 DEF FromSecond, PlanT
  <2>3. ss = [i \in 1 .. Len(second) |-> FromSecond(second[i])]
    BY <2>1
  <2> HIDE DEF ss
  <2> QED BY <2>1, <2>2, <2>3
<1> HIDE DEF fs, ss
<1>4. ads \in Seq(PlanT) /\ Len(ads) \in Nat /\ DOMAIN ads = 1 .. Len(ads) /\ \A i \in 1 .. Len(ads) : Fine(ads[i])
  <2>1. /\ ads \in Seq(PlanT) /\ Len(ads) = Len(fs) + Len(ss) /\ Len(fs) \in Nat /\ Len(ss) \in Nat
        /\ \A i \in 1 .. Len(fs) : ads[i] = fs[i]
        /\ \A i \in Len(fs) + 1 .. Len(fs) + Len(ss) : ads[i] = ss[i - Len(fs)] /\ i - Len(fs) \in 1 .. Len(ss)
    <3>1. fs \in Seq(PlanT) /\ ss \in Seq(PlanT)
      BY <1>2, <1>3
    <3> HIDE DEF Fine
    <3>2. /\ ads \in Seq(PlanT) /\ Len(ads) = Len(fs) + Len(ss) /\ Len(fs) \in Nat /\ Len(ss) \in Nat
      BY <3>1
    <3>3. \A i \in 1 .. Len(fs) : ads[i] = fs[i]
      BY <3>1
    <3>4. \A i \in Len(fs) + 1 .. Len(fs) + Len(ss) : ads[i] = ss[i - Len(fs)]
      BY <3>1
    <3>5. \A i \in Len(fs) + 1 .. Len(fs) + Len(ss) : i - Len(fs) \in 1 .. Len(ss)
      <4> HIDE DEF ads
      <4> QED BY <3>2
    <3> QED BY <3>2, <3>3, <3>4, <3>5
  <2> HIDE DEF ads, Fine
  <2>2. ASSUME NEW i \in 1 .. Len(ads) PROVE Fine(ads[i])
    <3>1. CASE i <= Len(fs)
      <4>1. i \in 1 .. Len(fs)
        BY <2>1, <3>1
      <4> QED BY <1>2, <2>1, <4>1
    <3>2. CASE ~ (i <= Len(fs))
      <4>1. i \in Len(fs) + 1 .. Len(fs) + Len(ss)
        BY <2>1, <3>2
      <4> QED BY <1>3, <2>1, <4>1
    <3> QED BY <3>1, <3>2
  <2> QED BY <2>1, <2>2
<1> HIDE DEF ads
<1>5. ASSUME ~ clash
      PROVE  Ready(s, total) /\ (\A i, j \in 1 .. Len(s) : i < j => s[i].start <= s[j].start)
  <2>1. \A i \in 1 .. Len(ads) : ads[i].start \in Nat
    BY <1>4 DEF PlanT
  <2>2. /\ s \in Seq(PlanT) /\ Len(s) = Len(ads)
        /\ \A k \in 1 .. Len(ads) : \E i \in 1 .. Len(ads) : s[k] = ads[i]
        /\ \A k, l \in 1 .. Len(ads) : k < l => s[k].start <= s[l].start
    BY <1>4, <2>1, ByStartSorts
  <2> HIDE DEF s
  <2>3. \A k \in 1 .. Len(s) : s[k].start < s[k].end /\ s[k].end <= total
    BY <1>4, <2>2
  <2>4. \A k, l \in 1 .. Len(s) : s[k].beep = s[l].beep \/ ~ Meet(s[k], s[l])
    <3> TAKE k, l \in 1 .. Len(s)
    <3>1. PICK i \in 1 .. Len(ads) : s[k] = ads[i]
      BY <2>2
    <3>2. PICK j \in 1 .. Len(ads) : s[l] = ads[j]
      BY <2>2
    <3> QED BY <1>4, <1>5, <3>1, <3>2
  <2> QED BY <2>2, <2>3, <2>4 DEF Ready
<1>6. CASE plan = <<>>
  <2>1. Restore(<<>>) = <<>>
    BY DEF Restore
  <2>2. Planned(<<>>, total)
    <3>1. <<>> \in Seq(AdT) /\ Separate(<<>>)
      BY DEF Separate
    <3>2. \A i \in DOMAIN <<>> : FALSE
      OBVIOUS
    <3> QED BY <2>1, <3>1, <3>2 DEF Planned
  <2> QED BY <1>6, <2>2
<1>7. CASE plan # <<>>
  <2>1. plan = p /\ ~ clash
    BY <1>1, <1>7
  <2>2. Ready(s, total) /\ (\A i, j \in 1 .. Len(s) : i < j => s[i].start <= s[j].start)
    BY <1>5, <2>1
  <2> HIDE DEF s
  <2>3. PlanInv(p, ToSet(s))
    BY <2>2, UnitedDoes
  <2> HIDE DEF p
  <2>4. \A x \in ToSet(s) : x.end <= total
    BY <2>2 DEF Ready, ToSet
  <2>5. /\ p \in Seq(PlanT) /\ DOMAIN p = 1 .. Len(p) /\ Len(p) \in Nat
        /\ \A i \in 1 .. Len(p) : p[i] \in PlanT /\ p[i].start < p[i].end /\ p[i].end <= total
        /\ \A i, j \in 1 .. Len(p) : i < j /\ p[i].beep # p[j].beep => p[i].end <= p[j].start
    <3>1. p \in Seq(PlanT)
      BY <2>3 DEF PlanInv
    <3>2. \A i \in 1 .. Len(p) : p[i].start < p[i].end /\ p[i].end <= total
      BY <2>3, <2>4 DEF PlanInv
    <3>3. \A i, j \in 1 .. Len(p) : i < j /\ p[i].beep # p[j].beep => p[i].end <= p[j].start
      BY <2>3 DEF PlanInv
    <3> QED BY <3>1, <3>2, <3>3
  <2>6. \A i \in 1 .. Len(p) : p[i].start \in Nat /\ p[i].end \in Nat /\ p[i].beep \in BOOLEAN /\ p[i].trusted \in BOOLEAN
    BY <2>5 DEF PlanT
  <2> DEFINE r == Restore(p)
  <2>7. /\ r \in Seq(AdT) /\ Len(r) = Len(p)
        /\ \A i \in 1 .. Len(p) : r[i].start = p[i].start /\ r[i].end = p[i].end /\ r[i].beep = p[i].beep
    BY <2>5, <2>6 DEF Restore, AdT
  <2> HIDE DEF r
  <2>8. Separate(r)
    <3>1. SUFFICES ASSUME NEW i \in 1 .. Len(p), NEW j \in 1 .. Len(p), r[i].beep # r[j].beep
                   PROVE  ~ Meet(r[i], r[j])
      BY <2>7 DEF Separate
    <3>2. i # j /\ p[i].beep # p[j].beep
      BY <2>7, <3>1
    <3>3. p[i].end <= p[j].start \/ p[j].end <= p[i].start
      <4>1. i < j \/ j < i
        BY <2>5, <3>2
      <4> QED BY <2>5, <3>2, <4>1
    <3>4. ~ (p[i].start < p[j].end /\ p[j].start < p[i].end)
      BY <2>6, <3>3
    <3> QED BY <2>7, <3>4 DEF Meet
  <2>9. Planned(p, total)
    BY <2>5, <2>6, <2>7, <2>8 DEF Planned, r
  <2> QED BY <2>1, <2>9
<1> QED BY <1>6, <1>7
-----------------------------------------------------------------------------
(* Files of one and of two renders.                                          *)

\* What a file plays: what neither list has cut, in order.
FileOf(o, c, v) ==
  /\ o \in Seq(0 .. Duration - 1 \cup {Filler}) /\ Len(o) \in Nat
  /\ Rising(o)
  /\ \A t \in 0 .. Duration - 1 : (\E p \in 1 .. Len(o) : o[p] = t) <=> ~ Cutout(c, t) /\ ~ Cutout(v, t)

\* The file of one render.
LEMMA OneRender ==
  ASSUME Duration \in Nat, NEW c, Row(c, Duration)
  PROVE  FileOf(Render(Original, c), c, <<>>)
<1>1. PlaysTheRest(Render(Original, c), c)
  BY FileIs
<1>2. \A t : ~ Cutout(<<>>, t)
  BY DEF Cutout
<1> QED BY <1>1, <1>2 DEF PlaysTheRest, FileOf

\* The second list, mapped to the original.
MappedBack(d, c) == [i \in DOMAIN d |-> [d[i] EXCEPT !.start = MapToOriginal(@, c), !.end = MapToOriginal(@, c)]]

\* The second list has its edges by MapToOriginal.
LEMMA MappedBackIs ==
  ASSUME NEW c, Back(c), NEW total \in Nat, NEW d, Row(d, total)
  PROVE  /\ MappedBack(d, c) \in Seq(StampT) /\ Len(MappedBack(d, c)) = Len(d) /\ Len(d) \in Nat
         /\ \A i \in 1 .. Len(d) : /\ MappedBack(d, c)[i].start = MapToOriginal(d[i].start, c)
                                   /\ MappedBack(d, c)[i].end = MapToOriginal(d[i].end, c)
                                   /\ d[i].start \in Nat /\ d[i].end \in Nat
                                   /\ MappedBack(d, c)[i].fill = d[i].fill
<1> DEFINE One(x) == [x EXCEPT !.start = MapToOriginal(@, c), !.end = MapToOriginal(@, c)]
<1>1. d \in Seq(StampT) /\ DOMAIN d = 1 .. Len(d) /\ Len(d) \in Nat /\ \A i \in 1 .. Len(d) : d[i] \in StampT
  BY DEF Row
<1>2. ASSUME NEW x \in StampT
      PROVE  /\ One(x) \in StampT
             /\ One(x).start = MapToOriginal(x.start, c) /\ One(x).end = MapToOriginal(x.end, c)
             /\ One(x).fill = x.fill
             /\ x.start \in Nat /\ x.end \in Nat
  <2>1. x.start \in Nat /\ x.end \in Nat
    BY DEF StampT
  <2> DEFINE s == MapToOriginal(x.start, c)
             e == MapToOriginal(x.end, c)
  <2>2. s \in Nat /\ e \in Nat
    BY <2>1 DEF Back
  <2>3. One(x) = [x EXCEPT !.start = s, !.end = e]
    OBVIOUS
  <2> HIDE DEF s, e, One
  <2>6. x = [start |-> x.start, end |-> x.end, beep |-> x.beep, fill |-> x.fill] /\ x.beep \in BOOLEAN /\ x.fill \in Nat
    BY DEF StampT
  <2> DEFINE y == [x EXCEPT !.start = s]
  <2>8. /\ y \in StampT /\ y.start = s /\ y.end = x.end /\ y.beep = x.beep /\ y.fill = x.fill
    BY <2>2 DEF StampT
  <2>9. [x EXCEPT !.start = s, !.end = e] = [y EXCEPT !.end = e]
    OBVIOUS
  <2> HIDE DEF y
  <2>10. [y EXCEPT !.end = e] = [start |-> y.start, end |-> e, beep |-> y.beep, fill |-> y.fill]
    BY <2>8 DEF StampT
  <2>7. [x EXCEPT !.start = s, !.end = e] = [start |-> s, end |-> e, beep |-> x.beep, fill |-> x.fill]
    BY <2>8, <2>9, <2>10
  <2>4. One(x) = [start |-> s, end |-> e, beep |-> x.beep, fill |-> x.fill]
    BY <2>3, <2>7
  <2>5. One(x) \in StampT /\ One(x).start = s /\ One(x).end = e /\ One(x).fill = x.fill
    BY <2>2, <2>4, <2>6 DEF StampT
  <2> QED BY <2>1, <2>5 DEF s, e
<1>3. MappedBack(d, c) = [i \in 1 .. Len(d) |-> One(d[i])]
  BY <1>1 DEF MappedBack
<1> HIDE DEF One
<1>4. \A i \in 1 .. Len(d) : MappedBack(d, c)[i] = One(d[i]) /\ One(d[i]) \in StampT
  BY <1>1, <1>2, <1>3
<1>5. MappedBack(d, c) \in Seq(StampT) /\ Len(MappedBack(d, c)) = Len(d)
  BY <1>1, <1>3, <1>4
<1> QED BY <1>1, <1>2, <1>4, <1>5

\* A place is cut just when what it is mapped to is.
LEMMA CutoutMaps ==
  ASSUME NEW c, Back(c), NEW total \in Nat, NEW d, Row(d, total), NEW x \in Nat
  PROVE  Cutout(d, x) <=> Cutout(MappedBack(d, c), MapToOriginal(x, c))
<1> DEFINE v == MappedBack(d, c)
           y == MapToOriginal(x, c)
<1>1. /\ Len(v) = Len(d) /\ Len(d) \in Nat
      /\ \A i \in 1 .. Len(d) : /\ v[i].start = MapToOriginal(d[i].start, c)
                                /\ v[i].end = MapToOriginal(d[i].end, c)
                                /\ d[i].start \in Nat /\ d[i].end \in Nat
  BY MappedBackIs
<1> HIDE DEF v
<1>2. ASSUME NEW s \in Nat PROVE s <= x <=> MapToOriginal(s, c) <= y
  <2>1. MapToOriginal(s, c) \in Nat /\ y \in Nat
    BY DEF Back
  <2>2. s < x => MapToOriginal(s, c) < y
    BY DEF Back, Rises
  <2>3. x < s => y < MapToOriginal(s, c)
    BY DEF Back, Rises
  <2>4. s = x => MapToOriginal(s, c) = y
    OBVIOUS
  <2> HIDE DEF y
  <2>5. CASE s < x
    BY <2>1, <2>2, <2>5
  <2>6. CASE x < s
    BY <2>1, <2>3, <2>6
  <2>7. CASE s = x
    BY <2>1, <2>4, <2>7
  <2> QED BY <2>5, <2>6, <2>7
<1>3. ASSUME NEW s \in Nat PROVE x < s <=> y < MapToOriginal(s, c)
  <2>1. MapToOriginal(s, c) \in Nat /\ y \in Nat
    BY DEF Back
  <2>2. x < s <=> ~ (s <= x)
    OBVIOUS
  <2>3. y < MapToOriginal(s, c) <=> ~ (MapToOriginal(s, c) <= y)
    <3> DEFINE z == MapToOriginal(s, c)
    <3>1. z \in Nat /\ y \in Nat
      BY <2>1
    <3> HIDE DEF y, z
    <3>2. y < z <=> ~ (z <= y)
      BY <3>1
    <3> QED BY <3>2 DEF z
  <2> QED BY <1>2, <2>2, <2>3
<1> HIDE DEF y
<1>4. \A i \in 1 .. Len(d) : d[i].start <= x /\ x < d[i].end <=> v[i].start <= y /\ y < v[i].end
  BY <1>1, <1>2, <1>3
<1>5. Cutout(d, x) <=> Cutout(v, y)
  BY <1>1, <1>4 DEF Cutout
<1> QED BY <1>5 DEF v, y

\* A second render, of the file that a render from the original left.
LEMMA TwoRenders ==
  ASSUME Duration \in Nat, NEW c, Row(c, Duration), Fits(c),
         NEW d, Row(d, Len(Render(Original, c)))
  PROVE  /\ FileOf(Render(Render(Original, c), d), c, MappedBack(d, c))
         /\ MappedBack(d, c) \in Seq(StampT)
         /\ \A i \in 1 .. Len(MappedBack(d, c)) :
              MappedBack(d, c)[i].start < MappedBack(d, c)[i].end /\ MappedBack(d, c)[i].end <= Duration
<1> DEFINE o == Render(Original, c)
           r == Render(o, d)
           v == MappedBack(d, c)
           S == 0 .. Duration - 1 \cup {Filler}
<1>1. /\ o \in Seq(S) /\ Len(o) \in Nat /\ Rising(o)
      /\ \A t \in 0 .. Duration - 1 : (\E p \in 1 .. Len(o) : o[p] = t) <=> ~ Cutout(c, t)
  BY FileIs DEF PlaysTheRest
<1>2. /\ Back(c)
      /\ \A t \in 0 .. Len(o) : MapToOriginal(t, c) <= Duration
      /\ \A p \in 1 .. Len(o) : o[p] # Filler => MapToOriginal(p - 1, c) = o[p]
  BY FileIsExact DEF Exact, Back
<1> HIDE DEF S
<1>3. Row(d, Len(o))
  OBVIOUS
<1> HIDE DEF o
<1>4. PICK off : Offs(off, d)
  BY <1>3, OffsExist DEF Row
<1>5. Laid(r, o, d, off)
  BY <1>1, <1>3, <1>4, RenderDoes
<1>6. Rising(r)
  <2> HIDE DEF r
  <2> QED BY <1>1, <1>3, <1>4, <1>5, OrderIsKept
<1>7. PlaysTheKept(r, o, d)
  <2> HIDE DEF r
  <2> QED BY <1>1, <1>3, <1>4, <1>5, PlayedIsKept
<1>8. r \in Seq(S) /\ Len(r) \in Nat
  <2>1. r \in Seq(ToSet(o) \cup {Filler})
    BY <1>5 DEF Laid
  <2>2. ToSet(o) \cup {Filler} \subseteq S
    BY <1>1, Places DEF S
  <2> HIDE DEF r
  <2> QED BY <2>1, <2>2
<1> HIDE DEF r
<1>9. \A x \in Nat : Cutout(d, x) <=> Cutout(v, MapToOriginal(x, c))
  BY <1>1, <1>2, <1>3, CutoutMaps
<1>10. /\ v \in Seq(StampT) /\ Len(v) = Len(d) /\ Len(d) \in Nat
       /\ \A i \in 1 .. Len(d) : /\ v[i].start = MapToOriginal(d[i].start, c)
                                 /\ v[i].end = MapToOriginal(d[i].end, c)
                                 /\ d[i].start \in Nat /\ d[i].end \in Nat
  BY <1>1, <1>2, <1>3, MappedBackIs
<1> HIDE DEF v
<1>11. ASSUME NEW i \in 1 .. Len(d) PROVE v[i].start < v[i].end /\ v[i].end <= Duration
  <2>1. d[i].start < d[i].end /\ d[i].end <= Len(o)
    BY <1>3 DEF Row
  <2>2. d[i].end \in 0 .. Len(o)
    BY <1>1, <1>10, <2>1
  <2>3. MapToOriginal(d[i].start, c) < MapToOriginal(d[i].end, c)
    BY <1>2, <1>10, <2>1 DEF Back, Rises
  <2>4. MapToOriginal(d[i].end, c) <= Duration
    BY <1>2, <2>2
  <2> QED BY <1>10, <2>3, <2>4
<1>12. ASSUME NEW t \in 0 .. Duration - 1
       PROVE  (\E p \in 1 .. Len(r) : r[p] = t) <=> ~ Cutout(c, t) /\ ~ Cutout(v, t)
  <2>0. t # Filler
    BY DEF Filler
  <2>1. ASSUME NEW i \in 1 .. Len(o), o[i] = t PROVE Cutout(d, i - 1) <=> Cutout(v, t)
    <3>1. i - 1 \in Nat
      BY <1>1
    <3>2. MapToOriginal(i - 1, c) = t
      BY <1>2, <2>0, <2>1
    <3> QED BY <1>9, <3>1, <3>2
  <2>2. ASSUME NEW p \in 1 .. Len(r), r[p] = t PROVE ~ Cutout(c, t) /\ ~ Cutout(v, t)
    <3>1. PICK i \in 1 .. Len(o) : r[p] = o[i] /\ ~ Cutout(d, i - 1)
      BY <1>7, <2>0, <2>2 DEF PlaysTheKept
    <3> QED BY <1>1, <2>1, <2>2, <3>1
  <2>3. ASSUME ~ Cutout(c, t), ~ Cutout(v, t) PROVE \E p \in 1 .. Len(r) : r[p] = t
    <3>1. PICK i \in 1 .. Len(o) : o[i] = t
      BY <1>1, <2>3
    <3>2. ~ Cutout(d, i - 1)
      BY <2>1, <2>3, <3>1
    <3>3. PICK p \in 1 .. Len(r) : r[p] = o[i]
      BY <1>7, <3>2 DEF PlaysTheKept
    <3> QED BY <3>1, <3>3
  <2> QED BY <2>2, <2>3
<1>13. FileOf(r, c, v)
  BY <1>6, <1>8, <1>12 DEF FileOf, S
<1>14. \A i \in 1 .. Len(v) : v[i].start < v[i].end /\ v[i].end <= Duration
  BY <1>10, <1>11
<1> QED BY <1>10, <1>13, <1>14 DEF r, o, v
-----------------------------------------------------------------------------
(* The inductive invariant.                                                  *)

\* There are finitely many spans.
LEMMA SpansFinite ==
  ASSUME NEW n \in Nat
  PROVE  IsFiniteSet(Spans(n))
<1> DEFINE R == [start : 0 .. n, end : 0 .. n]
           P == (0 .. n) \X (0 .. n)
           f == [p \in P |-> [start |-> p[1], end |-> p[2]]]
<1>1. IsFiniteSet(0 .. n)
  BY FS_Interval
<1>2. IsFiniteSet(P)
  BY <1>1, FS_Product
<1>3. f \in Surjection(P, R)
  <2>1. f \in [P -> R]
    OBVIOUS
  <2>2. ASSUME NEW r \in R PROVE \E p \in P : f[p] = r
    <3>1. <<r.start, r.end>> \in P /\ f[<<r.start, r.end>>] = r
      OBVIOUS
    <3> QED BY <3>1
  <2> QED BY <2>1, <2>2 DEF Surjection
<1> HIDE DEF f, P, R
<1>4. IsFiniteSet(R)
  BY <1>2, <1>3, FS_Surjection
<1>5. Spans(n) \subseteq R
  BY DEF Spans, R
<1> QED BY <1>4, <1>5, FS_Subset

\* Spans of the original can be walls.
LEMMA SpansAreReal ==
  ASSUME NEW n \in Nat, NEW W, W \subseteq Spans(n)
  PROVE  IsFiniteSet(W) /\ RealSpans(W)
<1>1. IsFiniteSet(W)
  BY SpansFinite, FS_Subset
<1>2. \A w \in Spans(n) : w \in SpanT /\ w.start < w.end
  BY DEF Spans, SpanT
<1> QED BY <1>1, <1>2 DEF RealSpans

\* Requests: typed, inside, not empty; actions do not mix.
Asked(ads, n) ==
  /\ ads \in Seq(AdT) /\ Len(ads) \in Nat
  /\ \A i \in 1 .. Len(ads) : ads[i].start < ads[i].end /\ ads[i].end <= n

\* What Requests yields is typed, in order, inside the audio and within the bound.
LEMMA RequestsAre ==
  ASSUME NEW n \in Nat, NEW kinds, kinds \subseteq AdKinds, NEW others \in Nat,
         items \in Nat, MaxItems \in Nat, NEW ads \in Requests(n, kinds, others)
  PROVE  /\ Asked(ads, n)
         /\ Compatible(ads)
         /\ items + Len(ads) + others <= MaxItems
<1>1. PICK k \in {m \in 0 .. MaxItems : m + others + items <= MaxItems} : ads \in [1 .. k -> Ads(n, kinds)]
  BY DEF Requests
<1>2. Compatible(ads)
  BY DEF Requests
<1>3. k \in Nat /\ k + others + items <= MaxItems
  BY <1>1
<1>4. \A a \in Ads(n, kinds) : a \in AdT /\ a.start < a.end /\ a.end <= n
  <2>1. SUFFICES ASSUME NEW s \in Spans(n), NEW g \in kinds
                 PROVE  LET a == [start |-> s.start, end |-> s.end, beep |-> g.beep, trusted |-> g.trusted,
                                  confirmed |-> g.confirmed, pins |-> g.pins]
                        IN  a \in AdT /\ a.start < a.end /\ a.end <= n
    BY DEF Ads
  <2>2. s.start \in Nat /\ s.end \in Nat /\ s.start < s.end /\ s.end <= n
    BY DEF Spans
  <2>3. /\ g.beep \in BOOLEAN /\ g.trusted \in BOOLEAN /\ g.confirmed \in BOOLEAN
        /\ g.pins \in SUBSET {"start", "end"}
    BY DEF AdKinds
  <2> QED BY <2>2, <2>3 DEF AdT
<1> HIDE DEF Ads
<1>5. ads \in Seq(AdT) /\ Len(ads) = k /\ \A i \in 1 .. k : ads[i] \in Ads(n, kinds)
  BY <1>1, <1>3, <1>4
<1>6. Asked(ads, n)
  BY <1>3, <1>4, <1>5 DEF Asked
<1> QED BY <1>2, <1>3, <1>5, <1>6

\* Requests of different actions do not meet when Overlaps is off.
LEMMA CompatibleSeparate ==
  ASSUME NEW ads, Len(ads) \in Nat, ads \in Seq(AdT), Compatible(ads), ~ Overlaps
  PROVE  Separate(ads)
<1>1. \A i, j \in 1 .. Len(ads) : i < j => ads[i].beep = ads[j].beep \/ ~ Meet(ads[i], ads[j])
  BY DEF Compatible
<1>2. \A i, j \in 1 .. Len(ads) : Meet(ads[i], ads[j]) <=> Meet(ads[j], ads[i])
  BY DEF Meet
<1> SUFFICES ASSUME NEW i \in 1 .. Len(ads), NEW j \in 1 .. Len(ads)
             PROVE  ads[i].beep = ads[j].beep \/ ~ Meet(ads[i], ads[j])
  BY DEF Separate
<1>3. i < j \/ j < i \/ i = j
  OBVIOUS
<1> QED BY <1>1, <1>2, <1>3

\* So what is applied of them is a row of cuts.
LEMMA AppliedRow ==
  ASSUME NEW ads \in Seq(AdT), Separate(ads), NEW total \in Nat,
         NEW B, RealSpans(B), NEW W, IsFiniteSet(W), RealSpans(W), CutAssumption
  PROVE  Row(Applied(ads, total, B, W), total)
<1>1. MergeGap \in Nat \ {0} /\ MinAd \in Nat /\ PostRoll \in Nat /\ Beep \in Nat
  BY DEF CutAssumption
<1>2. \E L, P : Explains(Applied(ads, total, B, W), L, P, ads, total, B, W)
  BY <1>1, AppliedDoes
<1> QED BY <1>2 DEF Explains

\* The ticks of spans inside the audio are inside.
LEMMA TicksInside ==
  ASSUME NEW n \in Nat, NEW S, \A s \in S : s.start \in Nat /\ s.end \in Nat /\ s.end <= n
  PROVE  Ticks(S) \subseteq 0 .. n - 1
<1> SUFFICES ASSUME NEW s \in S, NEW t \in s.start .. s.end - 1 PROVE t \in 0 .. n - 1
  BY DEF Ticks
<1> QED OBVIOUS

\* So are the ticks that are asked for.
LEMMA AskedInside ==
  ASSUME NEW n \in Nat, NEW ads, Asked(ads, n)
  PROVE  Ticks(ToSet(ads)) \subseteq 0 .. n - 1
<1>1. \A x \in ToSet(ads) : x \in AdT /\ x.end <= n
  BY DEF Asked, ToSet
<1>2. \A x \in ToSet(ads) : x.start \in Nat /\ x.end \in Nat /\ x.end <= n
  BY <1>1 DEF AdT
<1> QED BY <1>2, TicksInside

\* Everything the runs keep, and what ties it together.
CutInv ==
  /\ phase \in {"new", "first", "published"}
  /\ Row(cuts, Duration)
  /\ vcuts \in Seq(StampT)
  /\ \A i \in 1 .. Len(vcuts) : vcuts[i].start < vcuts[i].end /\ vcuts[i].end <= Duration
  /\ FileOf(audio, cuts, vcuts)
  /\ phase # "published" => vcuts = <<>> /\ chapters = {} /\ audio = Render(Original, cuts)
  /\ hard \subseteq Spans(Duration) /\ holds \subseteq Spans(Duration)
  /\ chapters \subseteq 0 .. Len(audio) - 1
  /\ asked \cup firm \cup bridged \subseteq 0 .. Duration - 1
  /\ items \in 0 .. MaxItems

\* No filler is longer than its cut.
FillersFit == \A i \in DOMAIN cuts : cuts[i].fill <= Length(cuts[i])

\* A list of members of T is a list of T.
LEMMA SeqIn ==
  ASSUME NEW S, NEW T, NEW s \in Seq(S), \A i \in 1 .. Len(s) : s[i] \in T
  PROVE  s \in Seq(T)
<1>1. Len(s) \in Nat /\ s = [i \in 1 .. Len(s) |-> s[i]]
  OBVIOUS
<1> QED BY <1>1

\* The invariant gives the types.
LEMMA CutInvTypes == CutAssumption /\ CutInv => CutTypeOK
<1> SUFFICES ASSUME CutAssumption, CutInv PROVE CutTypeOK
  OBVIOUS
<1> USE DEF CutInv
<1>1. Duration \in Nat
  BY DEF CutAssumption
<1>2. AppliedCuts(cuts)
  <2>1. /\ cuts \in Seq(StampT) /\ DOMAIN cuts = 1 .. Len(cuts)
        /\ \A i \in 1 .. Len(cuts) : cuts[i] \in StampT /\ cuts[i].start < cuts[i].end /\ cuts[i].end <= Duration
    BY DEF Row
  <2>2. \A i \in 1 .. Len(cuts) :
          cuts[i] \in [start : 0 .. Duration, end : 0 .. Duration, beep : BOOLEAN, fill : Nat]
    BY <1>1, <2>1 DEF StampT
  <2>3. cuts \in Seq([start : 0 .. Duration, end : 0 .. Duration, beep : BOOLEAN, fill : Nat])
    BY <2>1, <2>2, SeqIn
  <2> QED BY <2>1, <2>3 DEF AppliedCuts
<1>3. AppliedCuts(vcuts)
  <2>1. /\ vcuts \in Seq(StampT) /\ DOMAIN vcuts = 1 .. Len(vcuts)
        /\ \A i \in 1 .. Len(vcuts) : vcuts[i] \in StampT /\ vcuts[i].start < vcuts[i].end /\ vcuts[i].end <= Duration
    OBVIOUS
  <2>2. \A i \in 1 .. Len(vcuts) :
          vcuts[i] \in [start : 0 .. Duration, end : 0 .. Duration, beep : BOOLEAN, fill : Nat]
    BY <1>1, <2>1 DEF StampT
  <2>3. vcuts \in Seq([start : 0 .. Duration, end : 0 .. Duration, beep : BOOLEAN, fill : Nat])
    BY <2>1, <2>2, SeqIn
  <2> QED BY <2>1, <2>3 DEF AppliedCuts
<1>4. audio \in Seq(0 .. Duration - 1 \cup {Filler})
  BY DEF FileOf
<1> QED BY <1>2, <1>3, <1>4 DEF CutTypeOK

\* Both lists as one.
LEMMA TicksOfBoth ==
  ASSUME NEW c \in Seq(StampT), NEW v \in Seq(StampT), NEW t \in Nat
  PROVE  t \in Ticks(ToSet(c \o v)) <=> Cutout(c, t) \/ Cutout(v, t)
<1>1. ToSet(c \o v) = ToSet(c) \cup ToSet(v)
  BY JoinedSets
<1>2. /\ \A x \in ToSet(c) : x \in StampT /\ \E i \in 1 .. Len(c) : x = c[i]
      /\ \A i \in 1 .. Len(c) : c[i] \in ToSet(c)
      /\ \A x \in ToSet(v) : x \in StampT /\ \E i \in 1 .. Len(v) : x = v[i]
      /\ \A i \in 1 .. Len(v) : v[i] \in ToSet(v)
  BY Places
<1>3. \A x \in StampT : t \in x.start .. x.end - 1 <=> x.start <= t /\ t < x.end
  BY DEF StampT
<1>4. t \in Ticks(ToSet(c \o v)) <=> \E x \in ToSet(c) \cup ToSet(v) : t \in x.start .. x.end - 1
  BY <1>1 DEF Ticks
<1>5. t \in Ticks(ToSet(c \o v)) <=> \E x \in ToSet(c) \cup ToSet(v) : x.start <= t /\ t < x.end
  BY <1>2, <1>3, <1>4
<1>6. (\E x \in ToSet(c) : x.start <= t /\ t < x.end) <=> Cutout(c, t)
  BY <1>2 DEF Cutout
<1>7. (\E x \in ToSet(v) : x.start <= t /\ t < x.end) <=> Cutout(v, t)
  BY <1>2 DEF Cutout
<1> QED BY <1>5, <1>6, <1>7

\* The invariant says that the list of cuts is what is off the air.
LEMMA CutInvCuts == CutAssumption /\ CutInv => CutsAreCut
<1> SUFFICES ASSUME CutAssumption, CutInv PROVE CutsAreCut
  OBVIOUS
<1> USE DEF CutInv
<1>1. Duration \in Nat
  BY DEF CutAssumption
<1>2. /\ audio \in Seq(0 .. Duration - 1 \cup {Filler}) /\ Len(audio) \in Nat
      /\ Rising(audio)
      /\ \A t \in 0 .. Duration - 1 :
           (\E p \in 1 .. Len(audio) : audio[p] = t) <=> ~ Cutout(cuts, t) /\ ~ Cutout(vcuts, t)
  BY DEF FileOf
<1>3. cuts \in Seq(StampT) /\ vcuts \in Seq(StampT)
  BY DEF Row
<1>4. \A t \in 0 .. Duration - 1 : t \in Ticks(ToSet(AllCuts)) <=> Cutout(cuts, t) \/ Cutout(vcuts, t)
  BY <1>1, <1>3, TicksOfBoth DEF AllCuts
<1>5. \A t : t \in OnAir(audio) <=> t # Filler /\ \E p \in 1 .. Len(audio) : audio[p] = t
  BY <1>2 DEF OnAir, ToSet
<1>6. \A t \in OnAir(audio) : t \in 0 .. Duration - 1
  BY <1>2, <1>5
<1>7. \A t \in 0 .. Duration - 1 : t # Filler
  BY DEF Filler
<1>8. \A t \in 0 .. Duration - 1 : t \in OnAir(audio) <=> t \notin Ticks(ToSet(AllCuts))
  BY <1>2, <1>4, <1>5, <1>7
<1>9. OnAir(audio) = (0 .. Duration - 1) \ Ticks(ToSet(AllCuts))
  BY <1>6, <1>8
<1>10. \A i, j \in DOMAIN audio :
         i < j /\ Filler \notin {audio[i], audio[j]} => audio[i] < audio[j]
  <2>1. DOMAIN audio = 1 .. Len(audio)
    BY <1>2
  <2> SUFFICES ASSUME NEW i \in 1 .. Len(audio), NEW j \in 1 .. Len(audio),
                      i < j, audio[i] # Filler, audio[j] # Filler
               PROVE  audio[i] < audio[j]
    BY <2>1
  <2> QED BY <1>2 DEF Rising
<1> QED BY <1>9, <1>10 DEF CutsAreCut
-----------------------------------------------------------------------------
(* The steps.                                                                *)

\* What may be kept or held are spans of the original.
LEMMA WallsAre ==
  ASSUME CutAssumption, NEW w \in Walls
  PROVE  w \subseteq Spans(Duration) /\ Cardinality(w) \in Nat
<1>1. Duration \in Nat /\ Keepable \subseteq [start : 0 .. Duration, end : 0 .. Duration]
      /\ \A s \in Keepable : s.start < s.end
  BY DEF CutAssumption
<1>2. Keepable \subseteq Spans(Duration)
  BY <1>1 DEF Spans
<1>3. w \subseteq Spans(Duration)
  BY <1>2 DEF Walls
<1>4. IsFiniteSet(w)
  BY <1>1, <1>3, SpansFinite, FS_Subset
<1> QED BY <1>3, <1>4, FS_CardinalityType

\* A render from the original starts over.
LEMMA FromOriginalDoes ==
  ASSUME CutAssumption, NEW ads \in Seq(AdT), Separate(ads),
         NEW B, B \subseteq Spans(Duration), NEW W, W \subseteq Spans(Duration),
         FromOriginal(ads, B, W)
  PROVE  /\ Row(cuts', Duration) /\ vcuts' = <<>>
         /\ FileOf(audio', cuts', vcuts') /\ audio' = Render(Original, cuts')
<1>1. Duration \in Nat
  BY DEF CutAssumption
<1>2. cuts' = Applied(ads, Duration, B, W) /\ vcuts' = <<>> /\ audio' = Render(Original, cuts')
  BY DEF FromOriginal
<1>3. RealSpans(B) /\ RealSpans(W) /\ IsFiniteSet(W)
  BY <1>1, SpansAreReal
<1>4. Row(cuts', Duration)
  BY <1>1, <1>2, <1>3, AppliedRow
<1>5. FileOf(audio', cuts', vcuts')
  BY <1>1, <1>2, <1>4, OneRender
<1> QED BY <1>2, <1>4, <1>5

\* The candidates of the second pass are requests, and their twins lie in the original.
LEMMA SecondIs ==
  ASSUME NEW c, Back(c), NEW n \in Nat, NEW found, Asked(found, n), Separate(found),
         NEW second, Candids(second, ToSet(found), c),
         \A t \in 0 .. n : MapToOriginal(t, c) <= Duration
  PROVE  /\ second \in Seq(CandT)
         /\ [i \in DOMAIN second |-> second[i].ad] \in Seq(AdT)
         /\ Separate([i \in DOMAIN second |-> second[i].ad])
         /\ \A i \in 1 .. Len(second) : second[i].from < second[i].to /\ second[i].to <= Duration
<1> DEFINE ads == [i \in DOMAIN second |-> second[i].ad]
           F == ToSet(found)
<1>1. second \in Seq(CandT) /\ DOMAIN second = 1 .. Len(second) /\ Len(second) \in Nat
      /\ \A i \in 1 .. Len(second) : second[i] \in CandT /\ FoundIn(second[i], F, c)
  BY DEF Candids, ToSet
<1>2. \A a \in F : a \in AdT /\ a.start < a.end /\ a.end <= n /\ a.start \in Nat /\ a.end \in Nat
  <2>1. \A a \in F : a \in AdT /\ a.start < a.end /\ a.end <= n
    BY DEF Asked, ToSet
  <2>2. \A a \in AdT : a.start \in Nat /\ a.end \in Nat
    BY DEF AdT
  <2> QED BY <2>1, <2>2
<1>3. \A a, b \in F : a.beep = b.beep \/ ~ Meet(a, b)
  BY DEF Asked, ToSet, Separate
<1> HIDE DEF F
<1>4. ads \in Seq(AdT) /\ Len(ads) = Len(second) /\ \A i \in 1 .. Len(second) : ads[i] = second[i].ad
  <2>1. \A i \in 1 .. Len(second) : second[i].ad \in AdT
    BY <1>1 DEF CandT
  <2> QED BY <1>1, <2>1
<1> HIDE DEF ads
<1>5. ASSUME NEW i \in 1 .. Len(second)
      PROVE  /\ ads[i].start \in Nat /\ ads[i].end \in Nat /\ ads[i].start < ads[i].end
             /\ second[i].from = MapToOriginal(ads[i].start, c)
             /\ second[i].to = MapToOriginal(ads[i].end, c)
             /\ \E a \in F : ads[i].beep = a.beep /\ a.start <= ads[i].start /\ ads[i].end <= a.end
  <2>1. FoundIn(second[i], F, c) /\ ads[i] = second[i].ad /\ ads[i] \in AdT
    BY <1>1, <1>4
  <2> QED BY <2>1 DEF FoundIn, AdT
<1>6. Separate(ads)
  <2>1. SUFFICES ASSUME NEW i \in 1 .. Len(second), NEW j \in 1 .. Len(second), ads[i].beep # ads[j].beep
                 PROVE  ~ Meet(ads[i], ads[j])
    BY <1>4 DEF Separate
  <2>2. PICK a \in F : ads[i].beep = a.beep /\ a.start <= ads[i].start /\ ads[i].end <= a.end
    BY <1>5
  <2>3. PICK b \in F : ads[j].beep = b.beep /\ b.start <= ads[j].start /\ ads[j].end <= b.end
    BY <1>5
  <2>4. ~ (a.start < b.end /\ b.start < a.end)
    BY <1>3, <2>1, <2>2, <2>3 DEF Meet
  <2>5. ~ (ads[i].start < ads[j].end /\ ads[j].start < ads[i].end)
    BY <1>2, <1>5, <2>2, <2>3, <2>4
  <2> QED BY <2>5 DEF Meet
<1>7. ASSUME NEW i \in 1 .. Len(second) PROVE second[i].from < second[i].to /\ second[i].to <= Duration
  <2>1. PICK a \in F : ads[i].end <= a.end
    BY <1>5
  <2>2. ads[i].end \in 0 .. n
    BY <1>2, <1>5, <2>1
  <2>3. MapToOriginal(ads[i].end, c) <= Duration
    BY <2>2
  <2>4. MapToOriginal(ads[i].start, c) < MapToOriginal(ads[i].end, c)
    BY <1>5 DEF Back, Rises
  <2> QED BY <1>5, <2>3, <2>4
<1> QED BY <1>1, <1>4, <1>6, <1>7 DEF ads

\* A pass that renders the processed file once more.
LEMMA RecutProcessedDoes ==
  ASSUME CutAssumption, CutInv, FillersFit, phase = "first",
         NEW second, [i \in DOMAIN second |-> second[i].ad] \in Seq(AdT),
         Separate([i \in DOMAIN second |-> second[i].ad]),
         NEW W, W \subseteq Spans(Duration), RecutProcessed(second, W)
  PROVE  /\ cuts' = cuts /\ vcuts' \in Seq(StampT)
         /\ \A i \in 1 .. Len(vcuts') : vcuts'[i].start < vcuts'[i].end /\ vcuts'[i].end <= Duration
         /\ FileOf(audio', cuts', vcuts')
         /\ bridged' = bridged
<1> DEFINE ads == [i \in DOMAIN second |-> second[i].ad]
           B == InProcessed(holds, cuts)
           V == InProcessed(W, cuts)
<1>1. PICK d \in {Applied(ads, Len(audio), B, V)} :
           /\ audio' = Render(audio, d) /\ cuts' = cuts /\ bridged' = bridged
           /\ vcuts' = [i \in DOMAIN d |-> [d[i] EXCEPT !.start = MapToOriginal(@, cuts), !.end = MapToOriginal(@, cuts)]]
  BY DEF RecutProcessed
<1>2. vcuts' = MappedBack(d, cuts) /\ d = Applied(ads, Len(audio), B, V)
  BY <1>1 DEF MappedBack
<1>3. /\ Row(cuts, Duration) /\ cuts \in Seq(StampT) /\ Len(cuts) \in Nat /\ DOMAIN cuts = 1 .. Len(cuts)
      /\ audio = Render(Original, cuts) /\ Len(audio) \in Nat
      /\ holds \subseteq Spans(Duration)
      /\ Duration \in Nat
  BY DEF CutInv, Row, FileOf, CutAssumption
<1>4. Fits(cuts)
  BY <1>3 DEF FillersFit, Fits, Length
<1>5. /\ IsFiniteSet(V) /\ RealSpans(V) /\ RealSpans(B)
  <2>1. /\ IsFiniteSet(W) /\ RealSpans(W) /\ IsFiniteSet(holds) /\ RealSpans(holds)
    BY <1>3, SpansAreReal
  <2> QED BY <1>3, <2>1, ProcessedAre
<1> HIDE DEF ads, B, V
<1>6. Row(d, Len(audio))
  <2>1. ads \in Seq(AdT) /\ Separate(ads)
    BY DEF ads
  <2>2. Row(Applied(ads, Len(audio), B, V), Len(audio))
    BY <1>3, <1>5, <2>1, AppliedRow
  <2> QED BY <1>2, <2>2
<1>7. /\ FileOf(Render(audio, d), cuts, MappedBack(d, cuts))
      /\ MappedBack(d, cuts) \in Seq(StampT)
      /\ \A i \in 1 .. Len(MappedBack(d, cuts)) :
           MappedBack(d, cuts)[i].start < MappedBack(d, cuts)[i].end /\ MappedBack(d, cuts)[i].end <= Duration
  BY <1>3, <1>4, <1>6, TwoRenders
<1> QED BY <1>1, <1>2, <1>7

\* A pass that renders the plan of both from the original.
LEMMA RerenderDoes ==
  ASSUME CutAssumption, CutInv, NEW plan, Planned(plan, Duration), NEW second,
         NEW W, W \subseteq Spans(Duration), Rerender(plan, second, W)
  PROVE  /\ Row(cuts', Duration) /\ vcuts' = <<>>
         /\ FileOf(audio', cuts', vcuts')
         /\ bridged' \subseteq 0 .. Duration - 1
<1>1. holds \subseteq Spans(Duration) /\ Duration \in Nat
  BY DEF CutInv, CutAssumption
<1>2. Restore(plan) \in Seq(AdT) /\ Separate(Restore(plan))
  BY DEF Planned
<1>3. FromOriginal(Restore(plan), holds, W)
  BY DEF Rerender
<1>4. Row(cuts', Duration) /\ vcuts' = <<>> /\ FileOf(audio', cuts', vcuts')
  BY <1>1, <1>2, <1>3, FromOriginalDoes
<1>5. bridged' \subseteq Ticks(ToSet(plan))
  BY DEF Rerender
<1>6. Ticks(ToSet(plan)) \subseteq 0 .. Duration - 1
  <2>1. \A s \in ToSet(plan) : s.start \in Nat /\ s.end \in Nat /\ s.end <= Duration
    BY DEF Planned, ToSet
  <2> QED BY <1>1, <2>1, TicksInside
<1> QED BY <1>4, <1>5, <1>6

\* The original without cuts is such a file.
LEMMA CutInvInit == CutAssumption /\ Init => CutInv
<1> SUFFICES ASSUME CutAssumption, Init PROVE CutInv
  OBVIOUS
<1>1. Duration \in Nat /\ MaxItems \in Nat
  BY DEF CutAssumption
<1>2. /\ phase = "new" /\ audio = Original /\ cuts = <<>> /\ vcuts = <<>>
      /\ hard = {} /\ holds = {} /\ chapters = {} /\ asked = {} /\ firm = {} /\ bridged = {}
      /\ items = 0
  BY DEF Init
<1>3. Row(<<>>, Duration)
  BY DEF Row
<1>4. /\ Original \in Seq(0 .. Duration - 1) /\ Len(Original) = Duration
      /\ \A i \in 1 .. Duration : Original[i] = i - 1
      /\ Rising(Original)
  BY <1>1, OriginalIs
<1>5. Render(Original, <<>>) = Original
  <2> DEFINE D == DOMAIN <<>>
  <2>1. <<>> \in Seq(StampT) /\ Len(<<>>) = 0
    OBVIOUS
  <2>2. PICK h : RenderRun(h, Original, <<>>)
    BY <2>1, RenderRuns
  <2>3. Render(Original, <<>>) = h[0].out \o SubSeq(Original, h[0].at + 1, Len(Original))
        /\ h[0] = [at |-> 0, out |-> <<>>]
    BY <2>1, <2>2 DEF RenderRun
  <2>4. Render(Original, <<>>) = <<>> \o SubSeq(Original, 1, Len(Original))
    BY <2>3
  <2> HIDE DEF Original
  <2>5. <<>> \o SubSeq(Original, 1, Len(Original)) = Original
    BY <1>1, <1>4
  <2> QED BY <2>4, <2>5
<1>6. FileOf(Original, <<>>, <<>>)
  BY <1>1, <1>3, <1>5, OneRender
<1>7. vcuts \in Seq(StampT) /\ \A i \in 1 .. Len(vcuts) : FALSE
  BY <1>2
<1> QED BY <1>1, <1>2, <1>3, <1>5, <1>6, <1>7 DEF CutInv

\* Chapters are placed inside the file.
LEMMA RemappedInside ==
  ASSUME NEW S, NEW c, NEW total
  PROVE  Remapped(S, c, total) \subseteq 0 .. total - 1
BY DEF Remapped

\* The first pass keeps the invariant: it renders a row of cuts from the original.
LEMMA FirstPassKeeps ==
  ASSUME CutAssumption, ~ Overlaps, CutInv, FirstPass
  PROVE  CutInv'
<1>1. Duration \in Nat /\ MaxItems \in Nat /\ Kinds \subseteq AdKinds
  BY DEF CutAssumption
<1>2. items \in 0 .. MaxItems /\ chapters \subseteq 0 .. Len(audio) - 1 /\ bridged \subseteq 0 .. Duration - 1
  BY DEF CutInv
<1>3. PICK W \in Walls, B \in Walls :
        \E ads \in Requests(Duration, Kinds, Cardinality(W) + Cardinality(B)) :
           /\ FromOriginal(ads, B, W)
           /\ hard' = W /\ holds' = B
           /\ asked' = Ticks(ToSet(ads)) /\ firm' = Beside(ads)
           /\ items' = Len(ads) + Cardinality(W) + Cardinality(B)
  BY DEF FirstPass
<1>4. PICK ads \in Requests(Duration, Kinds, Cardinality(W) + Cardinality(B)) :
           /\ FromOriginal(ads, B, W)
           /\ hard' = W /\ holds' = B
           /\ asked' = Ticks(ToSet(ads)) /\ firm' = Beside(ads)
           /\ items' = Len(ads) + Cardinality(W) + Cardinality(B)
  BY <1>3
<1>5. /\ W \subseteq Spans(Duration) /\ B \subseteq Spans(Duration)
      /\ Cardinality(W) \in Nat /\ Cardinality(B) \in Nat
  BY WallsAre
<1> DEFINE others == Cardinality(W) + Cardinality(B)
<1>6. Asked(ads, Duration) /\ Compatible(ads) /\ items + Len(ads) + others <= MaxItems
  <2>1. others \in Nat /\ items \in Nat /\ ads \in Requests(Duration, Kinds, others)
    BY <1>1, <1>2, <1>4, <1>5
  <2> HIDE DEF others
  <2> QED BY <1>1, <2>1, RequestsAre
<1>7. ads \in Seq(AdT) /\ Len(ads) \in Nat /\ Separate(ads)
  <2>1. ads \in Seq(AdT) /\ Len(ads) \in Nat
    BY <1>6 DEF Asked
  <2> QED BY <1>6, <2>1, CompatibleSeparate
<1>8. /\ Row(cuts', Duration) /\ vcuts' = <<>>
      /\ FileOf(audio', cuts', vcuts') /\ audio' = Render(Original, cuts')
  BY <1>4, <1>5, <1>7, FromOriginalDoes
<1>9. phase' = "first" /\ chapters' = chapters /\ bridged' = bridged /\ phase = "new"
  BY DEF FirstPass
<1>10. chapters = {}
  BY <1>9 DEF CutInv
<1>11. items' \in 0 .. MaxItems
  BY <1>1, <1>2, <1>4, <1>5, <1>6, <1>7
<1>12. asked' \cup firm' \cup bridged' \subseteq 0 .. Duration - 1
  <2>1. asked' \subseteq 0 .. Duration - 1
    BY <1>1, <1>4, <1>6, AskedInside
  <2>2. firm' \subseteq 0 .. Duration - 1
    BY <1>4 DEF Beside
  <2> QED BY <1>2, <1>9, <2>1, <2>2
<1>13. vcuts' \in Seq(StampT) /\ \A i \in 1 .. Len(vcuts') : FALSE
  BY <1>8
<1> QED BY <1>4, <1>5, <1>8, <1>9, <1>10, <1>11, <1>12, <1>13 DEF CutInv

\* The requests of a recut, and the room the bound leaves for them.
LEMMA RecutKeeps ==
  ASSUME CutAssumption, ~ Overlaps, CutInv, Recut
  PROVE  CutInv'
<1>1. Duration \in Nat /\ MaxItems \in Nat /\ Kinds \subseteq AdKinds
  BY DEF CutAssumption
<1>2. items \in 0 .. MaxItems /\ hard \subseteq Spans(Duration) /\ holds \subseteq Spans(Duration)
  BY DEF CutInv
<1>3. PICK W \in Walls :
        \E ads \in Requests(Duration, Kinds, Cardinality(W)) :
           /\ FromOriginal(ads, holds, hard \cup W)
           /\ hard' = hard \cup W
           /\ asked' = Ticks(ToSet(ads)) /\ firm' = Beside(ads)
           /\ items' = items + Len(ads) + Cardinality(W)
  BY DEF Recut
<1>4. PICK ads \in Requests(Duration, Kinds, Cardinality(W)) :
           /\ FromOriginal(ads, holds, hard \cup W)
           /\ hard' = hard \cup W
           /\ asked' = Ticks(ToSet(ads)) /\ firm' = Beside(ads)
           /\ items' = items + Len(ads) + Cardinality(W)
  BY <1>3
<1>5. W \subseteq Spans(Duration) /\ Cardinality(W) \in Nat
  BY WallsAre
<1>6. Asked(ads, Duration) /\ Compatible(ads) /\ items + Len(ads) + Cardinality(W) <= MaxItems
  BY <1>1, <1>2, <1>5, RequestsAre
<1>7. ads \in Seq(AdT) /\ Len(ads) \in Nat /\ Separate(ads)
  <2>1. ads \in Seq(AdT) /\ Len(ads) \in Nat
    BY <1>6 DEF Asked
  <2> QED BY <1>6, <2>1, CompatibleSeparate
<1> DEFINE all == hard \cup W
<1>8. all \subseteq Spans(Duration)
  BY <1>2, <1>5
<1>9. /\ Row(cuts', Duration) /\ vcuts' = <<>>
      /\ FileOf(audio', cuts', vcuts')
  <2>1. FromOriginal(ads, holds, all)
    BY <1>4
  <2> HIDE DEF all
  <2> QED BY <1>2, <1>7, <1>8, <2>1, FromOriginalDoes
<1>10. phase' = "published" /\ bridged' = {} /\ holds' = holds /\ hard' \subseteq Spans(Duration)
  BY <1>4, <1>8 DEF Recut, CutInv
<1>11. chapters' \subseteq 0 .. Len(audio') - 1
  BY RemappedInside DEF Recut, RecutChapters
<1>12. items' \in 0 .. MaxItems
  BY <1>1, <1>2, <1>4, <1>5, <1>6, <1>7
<1>13. asked' \cup firm' \cup bridged' \subseteq 0 .. Duration - 1
  <2>1. asked' \subseteq 0 .. Duration - 1
    BY <1>1, <1>4, <1>6, AskedInside
  <2>2. firm' \subseteq 0 .. Duration - 1
    BY <1>4 DEF Beside
  <2> QED BY <1>10, <2>1, <2>2
<1>14. vcuts' \in Seq(StampT) /\ \A i \in 1 .. Len(vcuts') : FALSE
  BY <1>9
<1> QED BY <1>2, <1>9, <1>10, <1>11, <1>12, <1>13, <1>14 DEF CutInv

\* Publishing the first pass keeps it.
LEMMA KeepFirstKeeps ==
  ASSUME CutInv, KeepFirst
  PROVE  CutInv'
<1>1. /\ phase' = "published" /\ audio' = audio
      /\ cuts' = cuts /\ vcuts' = vcuts /\ hard' = hard /\ holds' = holds
      /\ asked' = asked /\ firm' = firm /\ bridged' = bridged /\ items' = items
  BY DEF KeepFirst, Publish
<1>2. chapters' \subseteq 0 .. Len(audio') - 1
  BY RemappedInside DEF KeepFirst, Publish
<1> QED BY <1>1, <1>2 DEF CutInv

\* So does a stutter.
LEMMA CutStutter ==
  ASSUME CutInv, UNCHANGED vars
  PROVE  CutInv'
BY DEF CutInv, vars, FileOf, AllCuts

\* What the second pass plays of what it asks for lies in the original.
LEMMA PlayedInside ==
  ASSUME NEW a, a \in Seq(0 .. Duration - 1 \cup {Filler}), NEW n, n = Len(a), n \in Nat,
         NEW ad, ad.start \in Nat, ad.end \in Nat, ad.end <= n
  PROVE  ToSet(SubSeq(a, ad.start + 1, ad.end)) \ {Filler} \subseteq 0 .. Duration - 1
<1> DEFINE p == ad.start + 1
           q == ad.end
<1>1. p \in Nat /\ q \in Nat /\ q <= Len(a) /\ p >= 1
  OBVIOUS
<1> HIDE DEF p, q
<1>2. SubSeq(a, p, q) \in Seq(0 .. Duration - 1 \cup {Filler})
  BY <1>1
<1> DEFINE b == SubSeq(a, p, q)
<1> HIDE DEF b
<1>3. \A i \in DOMAIN b : b[i] \in 0 .. Duration - 1 \cup {Filler}
  BY <1>2 DEF b
<1>4. ToSet(b) \ {Filler} \subseteq 0 .. Duration - 1
  BY <1>3 DEF ToSet
<1> QED BY <1>4 DEF b, p, q

\* What a render of the second pass leaves alone.
LEMMA SecondPassKeeps ==
  ASSUME CutAssumption, ~ Overlaps, CutInv, FillersFit, SecondPass
  PROVE  CutInv'
<1> DEFINE n == Len(audio)
<1>1. /\ Duration \in Nat /\ MaxItems \in Nat /\ Kinds \subseteq AdKinds
      /\ FoundKinds \subseteq AdKinds
  BY DEF CutAssumption, FoundKinds
<1>2. /\ items \in 0 .. MaxItems /\ hard \subseteq Spans(Duration) /\ holds \subseteq Spans(Duration)
      /\ phase = "first" /\ audio = Render(Original, cuts)
      /\ Row(cuts, Duration) /\ cuts \in Seq(StampT)
      /\ n \in Nat /\ audio \in Seq(0 .. Duration - 1 \cup {Filler})
      /\ asked \cup firm \cup bridged \subseteq 0 .. Duration - 1
  BY DEF SecondPass, CutInv, FileOf, Row
<1>3. Exact(audio, cuts) /\ Back(cuts)
  <2>1. Fits(cuts)
    BY <1>2 DEF FillersFit, Fits, Length, Row
  <2>2. Exact(audio, cuts)
    BY <1>1, <1>2, <2>1, FileIsExact
  <2> QED BY <2>2 DEF Exact, Back
<1>3a. PICK more \in Walls : \E found \in Requests(n, FoundKinds, Cardinality(more)) :
       LET walls == hard \cup more
           played == UNION {ToSet(SubSeq(audio, ad.start + 1, ad.end)) : ad \in ToSet(found)}
       IN  /\ \E second \in {Candidates(found, walls, cuts)} \ {<<>>} :
                \E plan \in {CrossPlan(cuts, second, walls \cup holds, locks)} :
                  \/ plan = <<>> /\ RecutProcessed(second, walls)
                  \/ plan # <<>> /\ Rerender(plan, second, walls)
           /\ hard' = walls
           /\ asked' = asked \cup (played \ {Filler})
           /\ items' = items + Len(found) + Cardinality(more)
  BY DEF SecondPass
<1>4. PICK found \in Requests(n, FoundKinds, Cardinality(more)) :
       LET walls == hard \cup more
           played == UNION {ToSet(SubSeq(audio, ad.start + 1, ad.end)) : ad \in ToSet(found)}
       IN  /\ \E second \in {Candidates(found, walls, cuts)} \ {<<>>} :
                \E plan \in {CrossPlan(cuts, second, walls \cup holds, locks)} :
                  \/ plan = <<>> /\ RecutProcessed(second, walls)
                  \/ plan # <<>> /\ Rerender(plan, second, walls)
           /\ hard' = walls
           /\ asked' = asked \cup (played \ {Filler})
           /\ items' = items + Len(found) + Cardinality(more)
  BY <1>3a
<1> DEFINE W == hard \cup more
           played == UNION {ToSet(SubSeq(audio, ad.start + 1, ad.end)) : ad \in ToSet(found)}
           second == Candidates(found, W, cuts)
           plan == CrossPlan(cuts, second, W \cup holds, locks)
<1>5. /\ \/ RecutProcessed(second, W)
         \/ Rerender(plan, second, W)
      /\ hard' = W
      /\ asked' = asked \cup (played \ {Filler})
      /\ items' = items + Len(found) + Cardinality(more)
  BY <1>4
<1>6. more \subseteq Spans(Duration) /\ Cardinality(more) \in Nat
  BY WallsAre
<1>7. Asked(found, n) /\ Compatible(found) /\ items + Len(found) + Cardinality(more) <= MaxItems
  <2>1. found \in Requests(n, FoundKinds, Cardinality(more)) /\ items \in Nat
    BY <1>2, <1>4
  <2> HIDE DEF n
  <2> QED BY <1>1, <1>2, <1>6, <2>1, RequestsAre
<1>8. found \in Seq(AdT) /\ Len(found) \in Nat /\ Separate(found)
      /\ \A i \in 1 .. Len(found) : found[i].start < found[i].end
  <2>1. found \in Seq(AdT) /\ Len(found) \in Nat /\ \A i \in 1 .. Len(found) : found[i].start < found[i].end
    BY <1>7 DEF Asked
  <2> QED BY <1>7, <2>1, CompatibleSeparate
<1>9. W \subseteq Spans(Duration) /\ IsFiniteSet(W) /\ RealSpans(W)
  <2>1. W \subseteq Spans(Duration)
    BY <1>2, <1>6
  <2> QED BY <1>1, <2>1, SpansAreReal
<1> HIDE DEF W
<1>10. Candids(second, ToSet(found), cuts)
  BY <1>2, <1>3, <1>8, <1>9, CandidatesAre
<1> HIDE DEF second
<1>11. /\ second \in Seq(CandT)
       /\ [i \in DOMAIN second |-> second[i].ad] \in Seq(AdT)
       /\ Separate([i \in DOMAIN second |-> second[i].ad])
       /\ \A i \in 1 .. Len(second) : second[i].from < second[i].to /\ second[i].to <= Duration
  <2>1. \A t \in 0 .. n : MapToOriginal(t, cuts) <= Duration
    BY <1>3 DEF Exact
  <2> HIDE DEF n
  <2> QED BY <1>2, <1>3, <1>7, <1>8, <1>10, <2>1, SecondIs
<1>12. Planned(plan, Duration)
  BY <1>1, <1>2, <1>11, CrossPlanDoes
<1> HIDE DEF plan
<1>13. /\ Row(cuts', Duration) /\ vcuts' \in Seq(StampT)
       /\ \A i \in 1 .. Len(vcuts') : vcuts'[i].start < vcuts'[i].end /\ vcuts'[i].end <= Duration
       /\ FileOf(audio', cuts', vcuts')
       /\ bridged' \subseteq 0 .. Duration - 1
  <2>1. CASE RecutProcessed(second, W)
    <3>1. /\ cuts' = cuts /\ vcuts' \in Seq(StampT)
          /\ \A i \in 1 .. Len(vcuts') : vcuts'[i].start < vcuts'[i].end /\ vcuts'[i].end <= Duration
          /\ FileOf(audio', cuts', vcuts')
          /\ bridged' = bridged
      BY <1>2, <1>9, <1>11, <2>1, RecutProcessedDoes
    <3> QED BY <1>2, <3>1
  <2>2. CASE Rerender(plan, second, W)
    <3>1. /\ Row(cuts', Duration) /\ vcuts' = <<>>
          /\ FileOf(audio', cuts', vcuts')
          /\ bridged' \subseteq 0 .. Duration - 1
      BY <1>9, <1>12, <2>2, RerenderDoes
    <3>2. vcuts' \in Seq(StampT) /\ \A i \in 1 .. Len(vcuts') : FALSE
      BY <3>1
    <3> QED BY <3>1, <3>2
  <2> QED BY <1>5, <2>1, <2>2
<1>14. phase' = "published" /\ chapters' \subseteq 0 .. Len(audio') - 1
  <2>1. \E c : Publish(c)
    BY <1>5 DEF RecutProcessed, Rerender
  <2> QED BY <2>1, RemappedInside DEF Publish
<1>15. holds' = holds /\ firm' = firm
  BY DEF SecondPass
<1>16. asked' \subseteq 0 .. Duration - 1
  <2>1. ASSUME NEW ad \in ToSet(found)
        PROVE  ToSet(SubSeq(audio, ad.start + 1, ad.end)) \ {Filler} \subseteq 0 .. Duration - 1
    <3>1. ad \in AdT /\ ad.end <= n
      BY <1>7 DEF Asked, ToSet
    <3>2. ad.start \in Nat /\ ad.end \in Nat
      BY <3>1 DEF AdT
    <3> QED BY <1>2, <3>1, <3>2, PlayedInside
  <2>2. played \ {Filler} \subseteq 0 .. Duration - 1
    BY <2>1
  <2> QED BY <1>2, <1>5, <2>2
<1>17. items' \in 0 .. MaxItems
  BY <1>1, <1>2, <1>5, <1>6, <1>7, <1>8
<1>18. hard' \subseteq Spans(Duration)
  BY <1>5, <1>9
<1> QED BY <1>2, <1>13, <1>14, <1>15, <1>16, <1>17, <1>18 DEF CutInv

\* CutInv is inductive where requests of different actions do not overlap and no
\* filler is longer than its cut.
LEMMA CutInvNext ==
  ASSUME CutAssumption, ~ Overlaps, CutInv, FillersFit, [Next]_vars
  PROVE  CutInv'
<1>1. CASE FirstPass
  BY <1>1, FirstPassKeeps
<1>2. CASE KeepFirst
  BY <1>2, KeepFirstKeeps
<1>3. CASE SecondPass
  BY <1>3, SecondPassKeeps
<1>4. CASE Recut
  BY <1>4, RecutKeeps
<1>5. CASE UNCHANGED vars
  BY <1>5, CutStutter
<1> QED BY <1>1, <1>2, <1>3, <1>4, <1>5 DEF Next

\* CutInv holds of every run in which requests of different actions do not overlap and
\* no filler is longer than its cut.
THEOREM CutInvHolds ==
  ASSUME ~ Overlaps
  PROVE  Spec /\ []FillersFit => []CutInv
<1>1. Init => CutInv
  BY CutAssumption, CutInvInit
<1>2. CutInv /\ FillersFit /\ [Next]_vars => CutInv'
  BY CutAssumption, CutInvNext
<1> QED BY <1>1, <1>2, PTL DEF Spec

\* CutTypeOK: the cuts of both passes lie in the original and are not empty, chapters
\* lie in the file.
THEOREM CutTypes ==
  ASSUME ~ Overlaps
  PROVE  Spec /\ []FillersFit => []CutTypeOK
<1>1. CutInv => CutTypeOK
  BY CutAssumption, CutInvTypes
<1> QED BY <1>1, CutInvHolds, PTL

\* CutsAreCut: cuts and v_cuts together say what the file plays, in order and once,
\* however many renders it took.
THEOREM CutsAreCutHolds ==
  ASSUME ~ Overlaps
  PROVE  Spec /\ []FillersFit => []CutsAreCut
<1>1. CutInv => CutsAreCut
  BY CutAssumption, CutInvCuts
<1> QED BY <1>1, CutInvHolds, PTL

\* A filler of one tick is never longer than its cut.
LEMMA ShortFillersFit ==
  ASSUME CutAssumption, Beep = 1, NEW ads, NEW B, NEW W, FromOriginal(ads, B, W),
         Row(cuts', Duration)
  PROVE  FillersFit'
<1> DEFINE done == Extended(Those(Merged(ByStart(Carved(Clipped(ads, Duration), W)), B \cup W),
                                  {i \in DOMAIN Merged(ByStart(Carved(Clipped(ads, Duration), W)), B \cup W) :
                                     LongEnough(Merged(ByStart(Carved(Clipped(ads, Duration), W)), B \cup W)[i])}),
                            Duration, B \cup W)
<1>1. cuts' = [i \in DOMAIN done |-> Stamped(done[i])]
  BY DEF FromOriginal, Applied
<1> HIDE DEF done
<1>2. ASSUME NEW i \in DOMAIN cuts'
      PROVE  cuts'[i].fill <= cuts'[i].end - cuts'[i].start
  <2> DEFINE x == cuts'[i]
             k == done[i].end - done[i].start
  <2>1. /\ i \in 1 .. Len(cuts') /\ cuts' \in Seq(StampT)
        /\ x \in StampT /\ x.start < x.end
    BY DEF Row
  <2>2. x = Stamped(done[i])
    BY <1>1
  <2>3. x.start = done[i].start /\ x.end = done[i].end /\ x.fill = Fill(done[i])
    BY <2>2 DEF Stamped
  <2>4. x.start \in Nat /\ x.end \in Nat
    BY <2>1 DEF StampT
  <2>5. k \in Nat /\ k >= 1 /\ k = x.end - x.start
    BY <2>1, <2>3, <2>4
  <2>6. Fill(done[i]) = (IF done[i].beep THEN Larger(k, 1) ELSE IF Sound THEN 1 ELSE 0)
    BY DEF Fill, Length
  <2> HIDE DEF k, x
  <2>7. Fill(done[i]) <= k
    BY <2>5, <2>6 DEF Larger
  <2> QED BY <2>3, <2>5, <2>7 DEF x
<1>3. \A i \in DOMAIN cuts' : cuts'[i].fill <= cuts'[i].end - cuts'[i].start
  BY <1>2
<1> QED BY <1>3 DEF FillersFit, Length

\* So every step keeps the fillers as short.
LEMMA ShortFillersNext ==
  ASSUME CutAssumption, ~ Overlaps, Beep = 1, CutInv, FillersFit, [Next]_vars
  PROVE  FillersFit'
<1>1. CutInv'
  BY CutInvNext
<1>2. Row(cuts', Duration)
  BY <1>1 DEF CutInv
<1>3. (\E ads, B, W : FromOriginal(ads, B, W)) \/ cuts' = cuts
  BY DEF Next, FirstPass, KeepFirst, SecondPass, Recut, RecutProcessed, Rerender, vars
<1>4. CASE \E ads, B, W : FromOriginal(ads, B, W)
  BY <1>2, <1>4, ShortFillersFit
<1>5. CASE cuts' = cuts
  BY <1>5 DEF FillersFit, Length
<1> QED BY <1>3, <1>4, <1>5

\* With a filler of one tick the assumption about the fillers is no assumption.
THEOREM ShortFillersHold ==
  ASSUME ~ Overlaps, Beep = 1
  PROVE  Spec => [](CutInv /\ FillersFit)
<1>1. Init => CutInv
  BY CutAssumption, CutInvInit
<1>2. Init => FillersFit
  BY DEF Init, FillersFit
<1>3. CutInv /\ FillersFit /\ [Next]_vars => CutInv' /\ FillersFit'
  BY CutAssumption, CutInvNext, ShortFillersNext
<1> QED BY <1>1, <1>2, <1>3, PTL DEF Spec

\* CutTypeOK holds with such fillers, without more.
THEOREM ShortFillersCutTypes ==
  ASSUME ~ Overlaps, Beep = 1
  PROVE  Spec => []CutTypeOK
<1>1. CutInv => CutTypeOK
  BY CutAssumption, CutInvTypes
<1> QED BY <1>1, ShortFillersHold, PTL

\* And so does CutsAreCut.
THEOREM ShortFillersCutsAreCut ==
  ASSUME ~ Overlaps, Beep = 1
  PROVE  Spec => []CutsAreCut
<1>1. CutInv => CutsAreCut
  BY CutAssumption, CutInvCuts
<1> QED BY <1>1, ShortFillersHold, PTL
-----------------------------------------------------------------------------
(* Firm edges.                                                               *)

FirmAt(ad, e, ads) == Sure(ad, ads) /\ (ad.confirmed \/ e \in ad.pins)
EndFirm(t, ads) ==
  /\ \E ad \in ToSet(ads) : ad.end = t
  /\ \A ad \in ToSet(ads) : ad.end = t => FirmAt(ad, "end", ads)
StartFirm(t, ads) ==
  /\ \E ad \in ToSet(ads) : ad.start = t + 1
  /\ \A ad \in ToSet(ads) : ad.start = t + 1 => FirmAt(ad, "start", ads)

\* What lies beside the firm edges of requests.
LEMMA BesideIs ==
  ASSUME NEW n, NEW ads, Asked(ads, n), Duration \in Nat, NEW t \in Beside(ads)
  PROVE  t \in 0 .. Duration - 1 /\ (EndFirm(t, ads) \/ StartFirm(t, ads))
<1> DEFINE Firm(ad, e) == Sure(ad, ads) /\ (ad.confirmed \/ e \in ad.pins)
           S == ToSet(ads)
           At(e) == {ad[e] : ad \in S} \ {ad[e] : ad \in {a \in S : ~ Firm(a, e)}}
<1>1. t \in (At("end") \cup {u - 1 : u \in At("start")}) \cap 0 .. Duration - 1
  BY DEF Beside
<1>2. \A ad \in S : ad \in AdT /\ ad["start"] = ad.start /\ ad["end"] = ad.end /\ ad.start \in Nat
  <2>1. \A ad \in S : ad \in AdT
    BY DEF Asked, ToSet
  <2> QED BY <2>1 DEF AdT
<1>3. CASE t \in At("end")
  <2>1. PICK ad \in S : t = ad["end"]
    BY <1>3
  <2>2. \A a \in S : a["end"] = t => Firm(a, "end")
    BY <1>3
  <2>3. ad.end = t /\ \A a \in S : a.end = t => Firm(a, "end")
    BY <1>2, <2>1, <2>2
  <2>4. EndFirm(t, ads)
    BY <2>3 DEF EndFirm, FirmAt
  <2> QED BY <1>1, <2>4
<1>4. CASE t \in {u - 1 : u \in At("start")}
  <2>1. PICK u \in At("start") : t = u - 1
    BY <1>4
  <2>2. PICK ad \in S : u = ad["start"]
    BY <2>1
  <2>3. \A a \in S : a["start"] = u => Firm(a, "start")
    BY <2>1
  <2>4. u \in Nat /\ u = t + 1
    BY <1>2, <2>1, <2>2
  <2>5. ad.start = t + 1 /\ \A a \in S : a.start = t + 1 => Firm(a, "start")
    BY <1>2, <2>2, <2>3, <2>4
  <2>6. StartFirm(t, ads)
    BY <2>5 DEF StartFirm, FirmAt
  <2> QED BY <1>1, <2>6
<1> QED BY <1>1, <1>3, <1>4

\* The numbers of a request, and the tick of a part.
LEMMA AskedIs ==
  ASSUME NEW n \in Nat, NEW ads, Asked(ads, n), NEW ad \in ToSet(ads)
  PROVE  ad \in AdT /\ ad.start \in Nat /\ ad.end \in Nat /\ ad.start < ad.end /\ ad.end <= n
<1>1. ad \in AdT /\ ad.start < ad.end /\ ad.end <= n
  BY DEF Asked, ToSet
<1> QED BY <1>1 DEF AdT

\* A tick of a request that is in no wall is in a part of it.
LEMMA PartAt ==
  ASSUME NEW n \in Nat, NEW ads, Asked(ads, n), NEW P, NEW W, RealSpans(W),
         Parts(P, ads, n, W), NEW ad \in ToSet(ads), NEW t \in Nat, ad.start <= t, t < ad.end,
         \A w \in W : ~ (w.start <= t /\ t < w.end)
  PROVE  \E x \in P : /\ PartOf(x, ad, n, W) /\ x.start <= t /\ t < x.end
                      /\ x.start \in Nat /\ x.end \in Nat
<1>1. t < n
  BY AskedIs
<1>2. PICK x \in P : PartOf(x, ad, n, W) /\ x.start <= t /\ t < x.end
  BY <1>1 DEF Parts
<1>3. x.start \in Nat /\ x.end \in Nat
  BY <1>2 DEF PartOf, AdT
<1> QED BY <1>2, <1>3

\* Beside a firm edge no narrow gap is taken.
LEMMA NoGapBeside ==
  ASSUME NEW n \in Nat, NEW ads, Asked(ads, n), NEW P, NEW W, RealSpans(W),
         Parts(P, ads, n, W), NEW V, W \subseteq V, NEW t \in Nat, t < n, InGap(t, P, V)
  PROVE  ~ EndFirm(t, ads) /\ ~ StartFirm(t, ads)
<1>1. PICK a \in P, b \in P : Gap(a, b, P, V) /\ a.end <= t /\ t < b.start
  BY DEF InGap
<1>2. /\ ~ a.confirmed /\ "end" \notin a.pins
      /\ ~ b.confirmed /\ "start" \notin b.pins
      /\ \A w \in W : w.end <= a.end \/ b.start <= w.start
      /\ \A x \in P : x.end <= a.end \/ b.start <= x.start
  BY <1>1 DEF Gap
<1>3. \A w \in W : w.start \in Nat /\ w.end \in Nat /\ w.start < w.end
  BY DEF RealSpans, SpanT
<1>4. PICK p \in ToSet(ads) : PartOf(a, p, n, W)
  BY <1>1 DEF Parts
<1>5. PICK q \in ToSet(ads) : PartOf(b, q, n, W)
  BY <1>1 DEF Parts
<1>6. /\ a.start \in Nat /\ a.end \in Nat /\ a.start < a.end
      /\ b.start \in Nat /\ b.end \in Nat /\ b.start < b.end /\ b.end <= n
      /\ p.end \in Nat /\ p.end <= n /\ q.start \in Nat
  <2>1. a \in AdT /\ b \in AdT /\ a.start < a.end /\ b.start < b.end /\ b.end <= n
    BY <1>4, <1>5 DEF PartOf
  <2> QED BY <2>1, AskedIs DEF AdT
<1>7. p.end = a.end
  <2>1. a.end = p.end \/ a.end = n \/ \E w \in W : w.start = a.end
    BY <1>4 DEF PartOf
  <2>2. \A w \in W : w.start # a.end
    BY <1>1, <1>2, <1>3, <1>6
  <2>3. a.end # n
    BY <1>1, <1>6
  <2> QED BY <2>1, <2>2, <2>3
<1>8. q.start = b.start
  <2>1. b.start = q.start \/ \E w \in W : w.end = b.start
    BY <1>5 DEF PartOf
  <2>2. \A w \in W : w.end # b.start
    BY <1>1, <1>2, <1>3, <1>6
  <2> QED BY <2>1, <2>2
<1>9. ~ p.confirmed /\ "end" \notin p.pins
  <2>1. a.end = Lesser(p.end, n)
    BY <1>6, <1>7 DEF Lesser
  <2> QED BY <1>2, <1>4, <2>1 DEF PartOf
<1>10. ~ q.confirmed /\ "start" \notin q.pins
  BY <1>2, <1>5, <1>8 DEF PartOf
<1>11. ASSUME NEW u \in Nat, a.end <= u, u < b.start, NEW ad \in ToSet(ads), ad.start <= u, u < ad.end
       PROVE  FALSE
  <2>1. \A w \in W : ~ (w.start <= u /\ u < w.end)
    BY <1>2, <1>3, <1>6, <1>11
  <2>2. PICK x \in P : x.start <= u /\ u < x.end /\ x.start \in Nat /\ x.end \in Nat
    BY <1>11, <2>1, PartAt
  <2> QED BY <1>2, <1>6, <1>11, <2>2
<1>12. ~ EndFirm(t, ads)
  <2> SUFFICES ASSUME EndFirm(t, ads) PROVE FALSE
    OBVIOUS
  <2>1. PICK ad \in ToSet(ads) : ad.end = t
    BY DEF EndFirm
  <2>2. ad.start \in Nat /\ ad.start < ad.end
    BY AskedIs
  <2>3. CASE t = a.end
    <3>1. FirmAt(p, "end", ads)
      BY <1>7, <2>3 DEF EndFirm
    <3> QED BY <1>9, <3>1 DEF FirmAt
  <2>4. CASE t # a.end
    <3>1. t - 1 \in Nat /\ a.end <= t - 1 /\ t - 1 < b.start /\ ad.start <= t - 1 /\ t - 1 < ad.end
      BY <1>1, <1>6, <2>1, <2>2, <2>4
    <3> QED BY <1>11, <3>1
  <2> QED BY <2>3, <2>4
<1>13. ~ StartFirm(t, ads)
  <2> SUFFICES ASSUME StartFirm(t, ads) PROVE FALSE
    OBVIOUS
  <2>1. PICK ad \in ToSet(ads) : ad.start = t + 1
    BY DEF StartFirm
  <2>2. ad.start \in Nat /\ ad.end \in Nat /\ ad.start < ad.end
    BY AskedIs
  <2>3. CASE t + 1 = b.start
    <3>1. FirmAt(q, "start", ads)
      BY <1>8, <2>3 DEF StartFirm
    <3> QED BY <1>10, <3>1 DEF FirmAt
  <2>4. CASE t + 1 # b.start
    <3>1. t + 1 \in Nat /\ a.end <= t + 1 /\ t + 1 < b.start /\ ad.start <= t + 1 /\ t + 1 < ad.end
      BY <1>1, <1>6, <2>1, <2>2, <2>4
    <3> QED BY <1>11, <3>1
  <2> QED BY <2>3, <2>4
<1> QED BY <1>12, <1>13

\* A request of which no wall takes anything is a part itself, and it stays what it was.
LEMMA WholeIsSure ==
  ASSUME NEW n \in Nat, NEW ads, Asked(ads, n), NEW P, NEW W, RealSpans(W),
         Parts(P, ads, n, W), NEW ad \in ToSet(ads), Sure(ad, ads),
         NEW x \in P, PartOf(x, ad, n, W), x.start = ad.start, x.end = ad.end
  PROVE  SurePart(x, P)
<1>1. /\ x \in AdT /\ x.trusted = ad.trusted /\ x.confirmed = ad.confirmed
      /\ \A w \in W : x.end <= w.start \/ w.end <= x.start
      /\ ("start" \in x.pins <=> "start" \in ad.pins)
      /\ ("end" \in x.pins <=> "end" \in ad.pins /\ x.end = Lesser(ad.end, n))
  BY DEF PartOf
<1>2. ad.start \in Nat /\ ad.end \in Nat /\ ad.start < ad.end /\ ad.end <= n
  BY AskedIs
<1>3. Length(x) = Length(ad)
  BY DEF Length
<1>4. ASSUME ad.confirmed, \A y \in ToSet(ads) \ {ad} : y.end < ad.start \/ ad.end < y.start
      PROVE  Apart(x, P)
  <2> SUFFICES ASSUME NEW z \in P PROVE z = x \/ z.end < x.start \/ x.end < z.start
    BY DEF Apart
  <2>1. PICK a \in ToSet(ads) : PartOf(z, a, n, W)
    BY DEF Parts
  <2>2. z \in AdT /\ z.start \in Nat /\ z.end \in Nat /\ a.start \in Nat /\ a.end \in Nat
        /\ a.start <= z.start /\ z.start < z.end /\ z.end <= a.end
    BY <2>1, AskedIs DEF PartOf, AdT
  <2>3. CASE a # ad
    <3>1. a.end < ad.start \/ ad.end < a.start
      BY <1>4, <2>3
    <3> QED BY <1>2, <2>2, <3>1
  <2>4. CASE a = ad
    <3>1. \A w \in W : w.start \in Nat /\ w.end \in Nat /\ w.start < w.end
      BY DEF RealSpans, SpanT
    <3>2. z.start = ad.start
      <4>1. z.start = ad.start \/ \E w \in W : w.end = z.start
        BY <2>1, <2>4 DEF PartOf
      <4> QED BY <1>1, <1>2, <2>2, <2>4, <3>1, <4>1
    <3>3. z.end = ad.end
      <4>1. z.end = ad.end \/ z.end = n \/ \E w \in W : w.start = z.end
        BY <2>1, <2>4 DEF PartOf
      <4> QED BY <1>1, <1>2, <2>2, <2>4, <3>1, <4>1
    <3>4. z.beep = x.beep /\ z.trusted = x.trusted /\ z.confirmed = x.confirmed
      BY <2>1, <2>4 DEF PartOf
    <3>5. ("start" \in z.pins <=> "start" \in x.pins) /\ ("end" \in z.pins <=> "end" \in x.pins)
      BY <1>1, <2>1, <2>4, <3>2, <3>3 DEF PartOf
    <3>6. z.pins = x.pins
      BY <1>1, <2>2, <3>5 DEF AdT
    <3>7. z = x
      BY <1>1, <2>2, <3>2, <3>3, <3>4, <3>6 DEF AdT
    <3> QED BY <3>7
  <2> QED BY <2>3, <2>4
<1> QED BY <1>1, <1>3, <1>4 DEF Sure, SurePart

\* Beside a firm edge the end is not trimmed.
LEMMA NoTailBeside ==
  ASSUME NEW n \in Nat, NEW ads, Asked(ads, n), NEW P, NEW W, RealSpans(W),
         Parts(P, ads, n, W), NEW V, W \subseteq V, NEW L, Kept(L, P),
         NEW t \in Nat, InTail(t, L, n, V)
  PROVE  ~ EndFirm(t, ads) /\ ~ StartFirm(t, ads)
<1>1. PICK i \in 1 .. Len(L) :
        /\ \A j \in 1 .. Len(L) : L[j].end <= L[i].end
        /\ ~ L[i].confirmed /\ ~ L[i].pinned
        /\ L[i].end <= t /\ t < n
        /\ \A w \in V : w.end <= L[i].end \/ n <= w.start
  BY DEF InTail
<1> DEFINE e == L[i].end
<1>2. /\ \A x \in P : SurePart(x, P) =>
            \E j \in 1 .. Len(L) : L[j].start <= x.start /\ x.end <= L[j].end
      /\ \A x \in P : x.start < e /\ L[i].start < x.end => x.end <= e
      /\ L[i] \in CutT /\ L[i].start < e
      /\ \A j \in 1 .. Len(L) : L[j] \in CutT
      /\ Edged(L[i], P)
  BY DEF Kept, InARow
<1>3. e \in Nat /\ L[i].start \in Nat /\ \A j \in 1 .. Len(L) : L[j].end \in Nat
  BY <1>2 DEF CutT
<1>4. PICK y \in P : y.end = e /\ L[i].confirmed = y.confirmed /\ L[i].pinned = ("end" \in y.pins)
  BY <1>2 DEF Edged
<1>5. PICK p \in ToSet(ads) : PartOf(y, p, n, W)
  BY DEF Parts
<1>6. \A w \in W : w.start \in Nat /\ w.end \in Nat /\ w.start < w.end /\ (w.end <= e \/ n <= w.start)
  BY <1>1 DEF RealSpans, SpanT
<1>7. /\ y.start \in Nat /\ y.end \in Nat /\ y.start < y.end
      /\ \A w \in W : y.end <= w.start \/ w.end <= y.start
      /\ p.end \in Nat /\ p.end <= n
  <2>1. y \in AdT /\ y.start < y.end /\ \A w \in W : y.end <= w.start \/ w.end <= y.start
    BY <1>5 DEF PartOf
  <2> QED BY <2>1, AskedIs DEF AdT
<1> HIDE DEF e
<1>8. \A w \in W : w.end < e \/ n <= w.start
  BY <1>4, <1>6, <1>7
<1>9. p.end = e
  <2>1. y.end = p.end \/ y.end = n \/ \E w \in W : w.start = y.end
    BY <1>5 DEF PartOf
  <2>2. e # n
    BY <1>1, <1>3 DEF e
  <2>3. \A w \in W : w.start # e
    BY <1>6, <1>3, <1>8, <2>2, <1>1 DEF e
  <2> QED BY <1>4, <2>1, <2>2, <2>3
<1>10. ~ p.confirmed /\ "end" \notin p.pins
  <2>1. y.end = Lesser(p.end, n)
    BY <1>4, <1>7, <1>9 DEF Lesser
  <2> QED BY <1>1, <1>4, <1>5, <2>1 DEF PartOf
\* No request that is sure reaches beyond the last cut and has nothing before it.
<1>11. ASSUME NEW ad \in ToSet(ads), Sure(ad, ads), NEW u \in Nat, e <= u, ad.start <= u, u < ad.end
       PROVE  FALSE
  <2>1. ad.start \in Nat /\ ad.end \in Nat /\ ad.start < ad.end /\ ad.end <= n
    BY AskedIs
  <2>2. \A w \in W : ~ (w.start <= u /\ u < w.end)
    BY <1>3, <1>6, <1>8, <1>11, <2>1
  <2>3. PICK x \in P : /\ PartOf(x, ad, n, W) /\ x.start <= u /\ u < x.end
                       /\ x.start \in Nat /\ x.end \in Nat
    BY <1>11, <2>2, PartAt
  <2>4. x.end > e /\ ~ (x.start < e)
    BY <1>2, <1>3, <1>11, <2>3 DEF e
  <2>5. x.start = ad.start
    <3>1. x.start = ad.start \/ \E w \in W : w.end = x.start
      BY <2>3 DEF PartOf
    <3> QED BY <1>3, <1>6, <1>8, <1>11, <2>1, <2>3, <2>4, <3>1
  <2>6. x.end = ad.end
    <3>1. /\ x.end = ad.end \/ x.end = n \/ \E w \in W : w.start = x.end
          /\ x.end <= ad.end
      BY <2>3 DEF PartOf
    <3> QED BY <1>3, <1>6, <1>8, <2>1, <2>3, <2>4, <3>1
  <2>7. SurePart(x, P)
    BY <1>11, <2>3, <2>5, <2>6, WholeIsSure
  <2>8. PICK j \in 1 .. Len(L) : x.end <= L[j].end
    BY <1>2, <2>7
  <2> QED BY <1>1, <1>3, <2>3, <2>4, <2>8 DEF e
<1>12. ~ EndFirm(t, ads)
  <2> SUFFICES ASSUME EndFirm(t, ads) PROVE FALSE
    OBVIOUS
  <2>1. PICK ad \in ToSet(ads) : ad.end = t
    BY DEF EndFirm
  <2>2. ad.start \in Nat /\ ad.start < ad.end
    BY AskedIs
  <2>3. CASE t = e
    <3>1. FirmAt(p, "end", ads)
      BY <1>9, <2>3 DEF EndFirm
    <3> QED BY <1>10, <3>1 DEF FirmAt
  <2>4. CASE t # e
    <3>1. t - 1 \in Nat /\ e <= t - 1 /\ ad.start <= t - 1 /\ t - 1 < ad.end
      BY <1>1, <1>3, <2>1, <2>2, <2>4 DEF e
    <3>2. Sure(ad, ads)
      BY <2>1 DEF EndFirm, FirmAt
    <3> QED BY <1>11, <3>1, <3>2
  <2> QED BY <2>3, <2>4
<1>13. ~ StartFirm(t, ads)
  <2> SUFFICES ASSUME StartFirm(t, ads) PROVE FALSE
    OBVIOUS
  <2>1. PICK ad \in ToSet(ads) : ad.start = t + 1
    BY DEF StartFirm
  <2>2. ad.start \in Nat /\ ad.end \in Nat /\ ad.start < ad.end
    BY AskedIs
  <2>3. t + 1 \in Nat /\ e <= t + 1 /\ ad.start <= t + 1 /\ t + 1 < ad.end
    BY <1>1, <1>3, <2>1, <2>2 DEF e
  <2>4. Sure(ad, ads)
    BY <2>1 DEF StartFirm, FirmAt
  <2> QED BY <1>11, <2>3, <2>4
<1> QED BY <1>12, <1>13

\* What a render from the original leaves beside the firm edges of its requests.
LEMMA FirmStays ==
  ASSUME CutAssumption, NEW ads, Asked(ads, Duration), Separate(ads),
         NEW B, B \subseteq Spans(Duration), NEW W, W \subseteq Spans(Duration),
         FromOriginal(ads, B, W), NEW t \in Beside(ads)
  PROVE  t \in OnAir(audio') \cup Ticks(ToSet(ads))
<1>1. Duration \in Nat /\ MergeGap \in Nat \ {0} /\ MinAd \in Nat /\ PostRoll \in Nat /\ Beep \in Nat
  BY DEF CutAssumption
<1>2. ads \in Seq(AdT)
  BY DEF Asked
<1>3. RealSpans(B) /\ RealSpans(W) /\ IsFiniteSet(W)
  BY <1>1, SpansAreReal
<1>4. t \in 0 .. Duration - 1 /\ (EndFirm(t, ads) \/ StartFirm(t, ads))
  BY <1>1, BesideIs
<1>5. cuts' = Applied(ads, Duration, B, W)
  BY DEF FromOriginal
<1>6. PICK L, P : Explains(cuts', L, P, ads, Duration, B, W)
  <2>1. \E L, P : Explains(Applied(ads, Duration, B, W), L, P, ads, Duration, B, W)
    BY <1>1, <1>2, <1>3, AppliedDoes
  <2> QED BY <1>5, <2>1
<1>7. Parts(P, ads, Duration, W) /\ Kept(L, P) /\ Explained(cuts', L, P, Duration, B \cup W)
  BY <1>6 DEF Explains
<1>8. ~ InGap(t, P, B \cup W)
  <2> DEFINE V == B \cup W
  <2>1. W \subseteq V /\ t < Duration /\ t \in Nat
    BY <1>4
  <2> HIDE DEF V
  <2>2. InGap(t, P, V) => ~ EndFirm(t, ads) /\ ~ StartFirm(t, ads)
    BY <1>1, <1>3, <1>7, <2>1, NoGapBeside
  <2> QED BY <1>4, <2>2 DEF V
<1>9. ~ InTail(t, L, Duration, B \cup W)
  <2> DEFINE V == B \cup W
  <2>1. W \subseteq V /\ t \in Nat
    BY <1>4
  <2> HIDE DEF V
  <2>2. InTail(t, L, Duration, V) => ~ EndFirm(t, ads) /\ ~ StartFirm(t, ads)
    BY <1>1, <1>3, <1>7, <2>1, NoTailBeside
  <2> QED BY <1>4, <2>2 DEF V
<1>10. CASE Cutout(cuts', t)
  <2>1. InPart(t, P)
    BY <1>4, <1>7, <1>8, <1>9, <1>10 DEF Explained, Cutout
  <2>2. PICK x \in P : x.start <= t /\ t < x.end
    BY <2>1 DEF InPart
  <2>3. PICK a \in ToSet(ads) : PartOf(x, a, Duration, W)
    BY <1>7 DEF Parts
  <2>4. /\ x.start \in Nat /\ x.end \in Nat /\ a.start \in Nat /\ a.end \in Nat
        /\ a.start <= x.start /\ x.end <= a.end
    BY <1>1, <2>3, AskedIs DEF PartOf, AdT
  <2>5. t \in a.start .. a.end - 1
    BY <1>4, <2>2, <2>4
  <2> QED BY <2>5 DEF Ticks
<1>11. CASE ~ Cutout(cuts', t)
  <2>1. FileOf(audio', cuts', vcuts') /\ vcuts' = <<>>
    BY <1>2, FromOriginalDoes
  <2>4. ~ Cutout(vcuts', t)
    BY <2>1 DEF Cutout
  <2>2. \E p \in 1 .. Len(audio') : audio'[p] = t
    BY <1>4, <1>11, <2>1, <2>4 DEF FileOf
  <2>3. t # Filler /\ DOMAIN audio' = 1 .. Len(audio')
    BY <1>4, <2>1 DEF Filler, FileOf
  <2> QED BY <2>2, <2>3 DEF OnAir, ToSet
<1> QED BY <1>10, <1>11

\* The bound has room for what is asked.
LEMMA RequestsFit ==
  ASSUME NEW n, NEW kinds, NEW others \in Nat, items \in Nat, MaxItems \in Nat,
         NEW ads \in Requests(n, kinds, others)
  PROVE  Len(ads) \in Nat /\ items + Len(ads) + others <= MaxItems
<1>1. PICK k \in {m \in 0 .. MaxItems : m + others + items <= MaxItems} : ads \in [1 .. k -> Ads(n, kinds)]
  BY DEF Requests
<1>2. k \in Nat /\ k + others + items <= MaxItems
  BY <1>1
<1> HIDE DEF Ads
<1>3. Len(ads) = k
  BY <1>1, <1>2
<1> QED BY <1>2, <1>3

\* What is kept and held are spans of the original, within the bound.
WallInv ==
  /\ hard \subseteq Spans(Duration) /\ holds \subseteq Spans(Duration)
  /\ items \in 0 .. MaxItems

\* Nothing is kept at first.
LEMMA WallInvInit == CutAssumption /\ Init => WallInv
BY DEF CutAssumption, Init, WallInv

\* And whatever is kept later is a span of the original.
LEMMA WallInvNext ==
  ASSUME CutAssumption, WallInv, [Next]_vars
  PROVE  WallInv'
<1>1. MaxItems \in Nat /\ items \in Nat /\ items \in 0 .. MaxItems
  BY DEF CutAssumption, WallInv
<1>2. CASE FirstPass
  <2>1. PICK W \in Walls, B \in Walls :
          \E ads \in Requests(Duration, Kinds, Cardinality(W) + Cardinality(B)) :
             /\ hard' = W /\ holds' = B
             /\ items' = Len(ads) + Cardinality(W) + Cardinality(B)
    BY <1>2 DEF FirstPass
  <2>2. PICK ads \in Requests(Duration, Kinds, Cardinality(W) + Cardinality(B)) :
             /\ hard' = W /\ holds' = B
             /\ items' = Len(ads) + Cardinality(W) + Cardinality(B)
    BY <2>1
  <2>3. /\ W \subseteq Spans(Duration) /\ Cardinality(W) \in Nat
        /\ B \subseteq Spans(Duration) /\ Cardinality(B) \in Nat
    BY WallsAre
  <2> DEFINE others == Cardinality(W) + Cardinality(B)
  <2>4. others \in Nat /\ ads \in Requests(Duration, Kinds, others)
    BY <2>2, <2>3
  <2> HIDE DEF others
  <2>5. Len(ads) \in Nat /\ items + Len(ads) + others <= MaxItems
    BY <1>1, <2>4, RequestsFit
  <2>6. items' \in 0 .. MaxItems
    BY <1>1, <2>2, <2>3, <2>5 DEF others
  <2> QED BY <2>2, <2>3, <2>6 DEF WallInv
<1>3. CASE KeepFirst
  BY <1>3 DEF KeepFirst, WallInv
<1>4. CASE SecondPass
  <2>1. PICK W \in Walls : \E found \in Requests(Len(audio), FoundKinds, Cardinality(W)) :
          hard' = hard \cup W /\ items' = items + Len(found) + Cardinality(W)
    BY <1>4 DEF SecondPass
  <2>2. PICK found \in Requests(Len(audio), FoundKinds, Cardinality(W)) :
          hard' = hard \cup W /\ items' = items + Len(found) + Cardinality(W)
    BY <2>1
  <2>3. W \subseteq Spans(Duration) /\ Cardinality(W) \in Nat /\ holds' = holds
    BY <1>4, WallsAre DEF SecondPass
  <2>4. Len(found) \in Nat /\ items + Len(found) + Cardinality(W) <= MaxItems
    BY <1>1, <2>2, <2>3, RequestsFit
  <2>5. items' \in 0 .. MaxItems
    BY <1>1, <2>2, <2>3, <2>4
  <2> QED BY <2>2, <2>3, <2>5 DEF WallInv
<1>5. CASE Recut
  <2>1. PICK W \in Walls : \E ads \in Requests(Duration, Kinds, Cardinality(W)) :
          hard' = hard \cup W /\ items' = items + Len(ads) + Cardinality(W)
    BY <1>5 DEF Recut
  <2>2. PICK ads \in Requests(Duration, Kinds, Cardinality(W)) :
          hard' = hard \cup W /\ items' = items + Len(ads) + Cardinality(W)
    BY <2>1
  <2>3. W \subseteq Spans(Duration) /\ Cardinality(W) \in Nat /\ holds' = holds
    BY <1>5, WallsAre DEF Recut
  <2>4. Len(ads) \in Nat /\ items + Len(ads) + Cardinality(W) <= MaxItems
    BY <1>1, <2>2, <2>3, RequestsFit
  <2>5. items' \in 0 .. MaxItems
    BY <1>1, <2>2, <2>3, <2>4
  <2> QED BY <2>2, <2>3, <2>5 DEF WallInv
<1>6. CASE UNCHANGED vars
  BY <1>6 DEF vars, WallInv
<1> QED BY <1>2, <1>3, <1>4, <1>5, <1>6 DEF Next

\* The requests of one render.
LEMMA RequestsSeparate ==
  ASSUME CutAssumption, ~ Overlaps, WallInv, NEW others \in Nat,
         NEW ads \in Requests(Duration, Kinds, others)
  PROVE  Asked(ads, Duration) /\ Separate(ads)
<1>1. Duration \in Nat /\ MaxItems \in Nat /\ Kinds \subseteq AdKinds /\ items \in Nat
  BY DEF CutAssumption, WallInv
<1>2. Asked(ads, Duration) /\ Compatible(ads)
  BY <1>1, RequestsAre
<1>3. ads \in Seq(AdT) /\ Len(ads) \in Nat
  BY <1>2 DEF Asked
<1> QED BY <1>2, <1>3, CompatibleSeparate

\* The first pass and a recut leave what is beside the firm edges of their requests.
LEMMA FirmEdgesStep ==
  ASSUME CutAssumption, ~ Overlaps, WallInv, Next, phase # "first"
  PROVE  FirmEdges'
<1>1. CASE FirstPass
  <2>1. PICK W \in Walls, B \in Walls :
          \E ads \in Requests(Duration, Kinds, Cardinality(W) + Cardinality(B)) :
             /\ FromOriginal(ads, B, W)
             /\ asked' = Ticks(ToSet(ads)) /\ firm' = Beside(ads)
    BY <1>1 DEF FirstPass
  <2>2. PICK ads \in Requests(Duration, Kinds, Cardinality(W) + Cardinality(B)) :
             /\ FromOriginal(ads, B, W)
             /\ asked' = Ticks(ToSet(ads)) /\ firm' = Beside(ads)
    BY <2>1
  <2>3. /\ W \subseteq Spans(Duration) /\ Cardinality(W) \in Nat
        /\ B \subseteq Spans(Duration) /\ Cardinality(B) \in Nat
    BY WallsAre
  <2>4. Asked(ads, Duration) /\ Separate(ads)
    <3> DEFINE others == Cardinality(W) + Cardinality(B)
    <3>1. others \in Nat /\ ads \in Requests(Duration, Kinds, others)
      BY <2>2, <2>3
    <3> HIDE DEF others
    <3> QED BY <3>1, RequestsSeparate
  <2>5. \A t \in Beside(ads) : t \in OnAir(audio') \cup Ticks(ToSet(ads))
    BY <2>2, <2>3, <2>4, FirmStays
  <2> QED BY <2>2, <2>5 DEF FirmEdges
<1>2. CASE Recut
  <2>1. PICK W \in Walls : \E ads \in Requests(Duration, Kinds, Cardinality(W)) :
             /\ FromOriginal(ads, holds, hard \cup W)
             /\ asked' = Ticks(ToSet(ads)) /\ firm' = Beside(ads)
    BY <1>2 DEF Recut
  <2>2. PICK ads \in Requests(Duration, Kinds, Cardinality(W)) :
             /\ FromOriginal(ads, holds, hard \cup W)
             /\ asked' = Ticks(ToSet(ads)) /\ firm' = Beside(ads)
    BY <2>1
  <2> DEFINE all == hard \cup W
  <2>3. Cardinality(W) \in Nat /\ all \subseteq Spans(Duration) /\ holds \subseteq Spans(Duration)
    BY WallsAre DEF WallInv
  <2>4. Asked(ads, Duration) /\ Separate(ads)
    BY <2>2, <2>3, RequestsSeparate
  <2>5. FromOriginal(ads, holds, all)
    BY <2>2
  <2> HIDE DEF all
  <2>6. \A t \in Beside(ads) : t \in OnAir(audio') \cup Ticks(ToSet(ads))
    BY <2>3, <2>4, <2>5, FirmStays
  <2> QED BY <2>2, <2>6 DEF FirmEdges
<1>3. ~ KeepFirst /\ ~ SecondPass
  BY DEF KeepFirst, SecondPass
<1> QED BY <1>1, <1>2, <1>3 DEF Next

\* FirmEdgesHold: what lies right beside an edge the user confirmed or a reviewer or the
\* transcript pinned is not cut by a render that is given the edge.
THEOREM FirmEdgesHolds ==
  ASSUME ~ Overlaps
  PROVE  Spec => FirmEdgesHold
<1>1. Init => WallInv
  BY CutAssumption, WallInvInit
<1>2. WallInv /\ [Next]_vars => WallInv'
  BY CutAssumption, WallInvNext
<1>3. WallInv /\ [Next]_vars => [phase # "first" => FirmEdges']_vars
  BY CutAssumption, FirmEdgesStep
<1> QED BY <1>1, <1>2, <1>3, PTL DEF Spec, FirmEdgesHold
-----------------------------------------------------------------------------
(* Groups of cuts.                                                           *)

\* A list whose keys never fall is as InOrder leaves it.
LEMMA InOrderIs ==
  ASSUME NEW n \in Nat, NEW key, \A i \in 1 .. n : key[i] \in Nat,
         \A i, j \in 1 .. n : i < j => key[i] <= key[j], NEW s
  PROVE  InOrder(s, 1 .. n, key) = [k \in 1 .. n |-> s[k]]
<1> DEFINE I == 1 .. n
           B(i) == {j \in I : key[j] < key[i] \/ (key[j] = key[i] /\ j < i)}
<1>1. ASSUME NEW i \in I PROVE Cardinality(B(i)) = i - 1
  <2>1. B(i) = 1 .. i - 1
    <3>1. ASSUME NEW j \in I PROVE (key[j] < key[i] \/ (key[j] = key[i] /\ j < i)) <=> j < i
      <4>1. key[i] \in Nat /\ key[j] \in Nat /\ i \in Nat /\ j \in Nat
        OBVIOUS
      <4>2. i < j => key[i] <= key[j]
        OBVIOUS
      <4>3. j < i => key[j] <= key[i]
        OBVIOUS
      <4>4. CASE j < i
        BY <4>1, <4>3, <4>4
      <4>5. CASE ~ (j < i)
        <5>1. i = j \/ i < j
          BY <4>1, <4>5
        <5>2. key[i] <= key[j]
          BY <4>1, <4>2, <5>1
        <5> QED BY <4>1, <4>5, <5>2
      <4> QED BY <4>4, <4>5
    <3>2. \A j : j \in B(i) <=> j \in I /\ j < i
      BY <3>1
    <3> HIDE DEF B
    <3>3. \A j : j \in B(i) <=> j \in 1 .. i - 1
      BY <3>2
    <3> QED BY <3>3
  <2>2. i \in Nat /\ i >= 1
    OBVIOUS
  <2>3. Cardinality(1 .. i - 1) = i - 1
    BY <2>2, FS_Interval
  <2> HIDE DEF B
  <2> QED BY <2>1, <2>3
<1>2. InOrder(s, I, key) = [k \in 1 .. Cardinality(I) |-> s[CHOOSE i \in I : Cardinality(B(i)) = k - 1]]
  BY DEF InOrder
<1>3. Cardinality(I) = n
  BY FS_Interval
<1> HIDE DEF B
<1>4. ASSUME NEW k \in 1 .. n PROVE (CHOOSE i \in I : Cardinality(B(i)) = k - 1) = k
  <2>1. k \in I /\ Cardinality(B(k)) = k - 1
    BY <1>1
  <2>2. \A i \in I : Cardinality(B(i)) = k - 1 => i = k
    <3> TAKE i \in I
    <3>1. Cardinality(B(i)) = i - 1 /\ i \in Nat /\ k \in Nat
      BY <1>1
    <3> QED BY <3>1
  <2> DEFINE x == CHOOSE i \in I : Cardinality(B(i)) = k - 1
  <2>3. x \in I /\ Cardinality(B(x)) = k - 1
    BY <2>1
  <2> HIDE DEF x
  <2>4. x = k
    BY <2>2, <2>3
  <2> QED BY <2>4 DEF x
<1>5. InOrder(s, I, key) = [k \in 1 .. n |-> s[CHOOSE i \in I : Cardinality(B(i)) = k - 1]]
  BY <1>2, <1>3
<1> QED BY <1>4, <1>5

\* Cuts that are not empty, by their starts.
Lined(c) ==
  /\ c \in Seq(StampT)
  /\ \A i \in 1 .. Len(c) : c[i].start < c[i].end
  /\ \A i, j \in 1 .. Len(c) : i < j => c[i].start <= c[j].start

\* Such a list is as sorting and dropping the empty leave it.
LEMMA LinedIs ==
  ASSUME NEW c, Lined(c)
  PROVE  Nonempty(ByStart(c)) = c
<1>1. /\ c \in Seq(StampT) /\ Len(c) \in Nat /\ DOMAIN c = 1 .. Len(c)
      /\ c = [k \in 1 .. Len(c) |-> c[k]]
      /\ \A i \in 1 .. Len(c) : c[i] \in StampT /\ c[i].start < c[i].end
      /\ \A i, j \in 1 .. Len(c) : i < j => c[i].start <= c[j].start
  BY DEF Lined
<1> DEFINE n == Len(c)
           key == [i \in 1 .. n |-> c[i].start]
           I == {i \in DOMAIN c : c[i].start < c[i].end}
           own == [i \in 1 .. n |-> i]
<1>2. ByStart(c) = InOrder(c, 1 .. n, key)
  BY <1>1 DEF ByStart
<1>3. ByStart(c) = c
  <2>1. \A i \in 1 .. n : key[i] \in Nat /\ key[i] = c[i].start
    BY <1>1 DEF StampT
  <2>2. \A i, j \in 1 .. n : i < j => key[i] <= key[j]
    BY <1>1
  <2> HIDE DEF key, n
  <2>3. n \in Nat /\ \A i \in 1 .. n : key[i] \in Nat
    BY <1>1, <2>1 DEF n
  <2>4. InOrder(c, 1 .. n, key) = [k \in 1 .. n |-> c[k]]
    BY <2>2, <2>3, InOrderIs
  <2> QED BY <1>1, <1>2, <2>4 DEF n
<1>4. I = 1 .. n
  BY <1>1
<1>5. Nonempty(c) = InOrder(c, 1 .. n, own)
  <2>1. Nonempty(c) = Those(c, I)
    BY DEF Nonempty
  <2> QED BY <1>4, <2>1 DEF Those
<1>6. InOrder(c, 1 .. n, own) = [k \in 1 .. n |-> c[k]]
  <2>1. \A i \in 1 .. n : own[i] = i /\ i \in Nat
    OBVIOUS
  <2> HIDE DEF own, n
  <2>2. n \in Nat /\ (\A i \in 1 .. n : own[i] \in Nat) /\ \A i, j \in 1 .. n : i < j => own[i] <= own[j]
    BY <1>1, <2>1 DEF n
  <2> QED BY <2>2, InOrderIs
<1> QED BY <1>1, <1>3, <1>5, <1>6

\* A row is such a list.
LEMMA RowIsLined ==
  ASSUME NEW total \in Nat, NEW c, Row(c, total)
  PROVE  Lined(c)
<1>1. /\ c \in Seq(StampT) /\ \A i \in 1 .. Len(c) : c[i] \in StampT /\ c[i].start < c[i].end
      /\ \A i, j \in 1 .. Len(c) : i < j => c[i].end <= c[j].start
  BY DEF Row
<1>2. \A i \in 1 .. Len(c) : c[i].start \in Nat /\ c[i].end \in Nat
  BY <1>1 DEF StampT
<1>3. \A i, j \in 1 .. Len(c) : i < j => c[i].start <= c[j].start
  BY <1>1, <1>2
<1> QED BY <1>1, <1>3 DEF Lined

\* f adds up w over the subsets of W, in some order.
AddsUp(f, w, W) ==
  \A s \in SUBSET W :
    f[s] = IF s = {} THEN 0 ELSE w[CHOOSE x \in s : TRUE] + f[s \ {CHOOSE x \in s : TRUE}]

\* Each member of W has a weight; q counts them up over places.
Weighs(w, W) == IsFiniteSet(W) /\ w \in [W -> Int]
CountsUp(q, w, n) ==
  /\ w \in [1 .. n -> Int] /\ q \in [0 .. n -> Int] /\ q[0] = 0
  /\ \A k \in 1 .. n : q[k] = q[k - 1] + w[k]

\* There is a function that does.
LEMMA AddsUpExists ==
  ASSUME NEW W, NEW w, Weighs(w, W)
  PROVE  \E f : f \in [SUBSET W -> Int] /\ AddsUp(f, w, W)
<1> USE DEF Weighs
<1> DEFINE op == [i \in W |-> [m \in Int |-> w[i] + m]]
           T == Int
           x(s) == CHOOSE y \in s : TRUE
<1>1. Takes(op, W, T) /\ 0 \in T
  BY DEF Takes
<1>2. PICK f : Empties(f, op, 0, W, T)
  <2> HIDE DEF op, T
  <2> QED BY <1>1, EmptiesExists
<1>3. ASSUME NEW s \in SUBSET W
      PROVE  f[s] = IF s = {} THEN 0 ELSE w[x(s)] + f[s \ {x(s)}]
  <2>1. f[s] = IF s = {} THEN 0 ELSE op[x(s)][f[s \ {x(s)}]]
    BY <1>2 DEF Empties
  <2>2. s # {} => x(s) \in W
    OBVIOUS
  <2>3. f[s \ {x(s)}] \in Int
    BY <1>2 DEF Empties
  <2> HIDE DEF x
  <2> QED BY <2>1, <2>2, <2>3
<1> QED BY <1>2, <1>3 DEF Empties, AddsUp

\* Whatever the order, any member may be the last.
LEMMA AddsUpSplits ==
  ASSUME NEW W, NEW w, Weighs(w, W), NEW f, AddsUp(f, w, W)
  PROVE  /\ f[{}] = 0
         /\ \A s \in SUBSET W : f[s] \in Int
         /\ \A s \in SUBSET W : \A y \in s : f[s] = w[y] + f[s \ {y}]
<1> USE DEF Weighs
<1> DEFINE x(s) == CHOOSE y \in s : TRUE
<1>1. f[{}] = 0
  <2>1. {} \in SUBSET W
    OBVIOUS
  <2> QED BY <2>1 DEF AddsUp
<1>2. \A s \in SUBSET W : s # {} => x(s) \in s /\ f[s] = w[x(s)] + f[s \ {x(s)}]
  BY DEF AddsUp
<1> DEFINE G == {s \in SUBSET W : f[s] \in Int}
<1>3. \A s \in SUBSET W : s \in G
  <2>1. {} \in G
    BY <1>1
  <2>2. ASSUME NEW s \in SUBSET W, s # {}, s \ {CHOOSE y \in s : TRUE} \in G PROVE s \in G
    <3>1. x(s) \in W /\ f[s \ {x(s)}] \in Int /\ f[s] = w[x(s)] + f[s \ {x(s)}]
      BY <1>2, <2>2
    <3> HIDE DEF x
    <3> QED BY <3>1
  <2> HIDE DEF G
  <2> QED BY <2>1, <2>2, SubsetsUp
<1>4. \A s \in SUBSET W : f[s] \in Int
  BY <1>3
<1> DEFINE Bad == {s \in SUBSET W : \E y \in s : f[s] # w[y] + f[s \ {y}]}
<1>5. Bad = {}
  <2> SUFFICES ASSUME Bad # {} PROVE FALSE
    OBVIOUS
  <2>1. Bad \in SUBSET (SUBSET W)
    OBVIOUS
  <2>2. PICK T \in Bad : \A U \in Bad : U \subseteq T => U = T
    <3> HIDE DEF Bad
    <3> QED BY <2>1, SmallestSubset
  <2>3. PICK y \in T : f[T] # w[y] + f[T \ {y}]
    BY <2>2
  <2>4. T \in SUBSET W /\ T # {}
    BY <2>2, <2>3
  <2> DEFINE c == x(T)
  <2>5. c \in T /\ f[T] = w[c] + f[T \ {c}]
    BY <1>2, <2>4
  <2> HIDE DEF x, c
  <2>6. c # y
    BY <2>3, <2>5
  <2> DEFINE Tc == T \ {c}
             Ty == T \ {y}
  <2>7. Tc \in SUBSET W /\ Tc \notin Bad /\ y \in Tc
    BY <2>2, <2>3, <2>4, <2>5, <2>6
  <2>8. Ty \in SUBSET W /\ Ty \notin Bad /\ c \in Ty
    BY <2>2, <2>3, <2>4, <2>5, <2>6
  <2>9. f[Tc] = w[y] + f[Tc \ {y}]
    BY <2>7
  <2>10. f[Ty] = w[c] + f[Ty \ {c}]
    BY <2>8
  <2>11. Tc \ {y} = Ty \ {c} /\ Tc \ {y} \in SUBSET W
    BY <2>7
  <2>12. f[Tc \ {y}] \in Int /\ w[y] \in Int /\ w[c] \in Int /\ f[Tc] \in Int /\ f[Ty] \in Int
    BY <1>4, <2>3, <2>4, <2>5, <2>7, <2>8, <2>11
  <2>13. f[T] = w[c] + (w[y] + f[Tc \ {y}]) /\ f[Ty] = w[c] + f[Tc \ {y}]
    BY <2>5, <2>9, <2>10, <2>11
  <2> HIDE DEF Tc
  <2>14. f[T] = w[y] + f[Ty]
    BY <2>12, <2>13
  <2> QED BY <2>3, <2>14
<1> QED BY <1>1, <1>4, <1>5

\* So over the first places it is what counting up comes to.
LEMMA AddsUpTo ==
  ASSUME NEW n \in Nat, NEW w, NEW f, AddsUp(f, w, 1 .. n), NEW q, CountsUp(q, w, n)
  PROVE  \A k \in 0 .. n : f[1 .. k] = q[k]
<1> DEFINE W == 1 .. n
           G == {k \in 0 .. n : f[1 .. k] = q[k]}
<1>0. /\ w \in [1 .. n -> Int] /\ q \in [0 .. n -> Int] /\ q[0] = 0
      /\ \A k \in 1 .. n : q[k] = q[k - 1] + w[k]
  BY DEF CountsUp
<1>1. /\ f[{}] = 0
      /\ \A s \in SUBSET W : f[s] \in Int
      /\ \A s \in SUBSET W : \A y \in s : f[s] = w[y] + f[s \ {y}]
  <2>1. IsFiniteSet(W)
    BY FS_Interval
  <2>2. Weighs(w, W)
    BY <1>0, <2>1 DEF Weighs
  <2>3. AddsUp(f, w, W)
    OBVIOUS
  <2> HIDE DEF W
  <2> QED BY <2>2, <2>3, AddsUpSplits
<1>2. 0 \in G
  <2>1. 1 .. 0 = {} /\ 0 \in 0 .. n
    OBVIOUS
  <2> QED BY <1>0, <1>1, <2>1
<1>3. ASSUME NEW k \in 1 .. n, k - 1 \in G PROVE k \in G
  <2> DEFINE u == 1 .. k
             v == 1 .. k - 1
  <2>1. u \in SUBSET W /\ v \in SUBSET W
    OBVIOUS
  <2>2. k \in u /\ u \ {k} = v /\ k \in 0 .. n /\ k \in 1 .. n
    OBVIOUS
  <2>3. f[v] = q[k - 1] /\ w[k] \in Int /\ q[k] = q[k - 1] + w[k]
    BY <1>0, <1>3
  <2> HIDE DEF u, v, W
  <2>4. f[u] = w[k] + f[v] /\ f[v] \in Int
    BY <1>1, <2>1, <2>2
  <2>5. f[u] = q[k]
    BY <2>3, <2>4
  <2> QED BY <2>2, <2>5 DEF u
<1> HIDE DEF G
<1>4. \A k \in 0 .. n : k \in G
  BY <1>2, <1>3, CountUp
<1> QED BY <1>4 DEF G

\* What the first m groups take out and put in.
LEMMA ShiftTo ==
  ASSUME NEW gs \in Seq(GroupT), NEW q, q \in [0 .. Len(gs) -> Int], q[0] = 0,
         \A k \in 1 .. Len(gs) : q[k] = q[k - 1] + (gs[k].end - gs[k].start) - gs[k].fill,
         NEW m \in 0 .. Len(gs)
  PROVE  Shift(gs, 1 .. m) = q[m]
<1> DEFINE W == 1 .. m
           w == [i \in W |-> (gs[i].end - gs[i].start) - gs[i].fill]
           v(i) == Length(gs[i]) - gs[i].fill
           x(s) == CHOOSE y \in s : TRUE
           Body(g) == [s \in SUBSET W |-> IF s = {} THEN 0 ELSE v(x(s)) + g[s \ {x(s)}]]
           f == CHOOSE g : g = Body(g)
<1>1. m \in Nat /\ IsFiniteSet(W) /\ \A i \in W : i \in 1 .. Len(gs)
  <2>1. Len(gs) \in Nat
    OBVIOUS
  <2>2. m \in Nat
    BY <2>1
  <2> QED BY <2>1, <2>2, FS_Interval
<1>2. \A i \in W : gs[i].start \in Nat /\ gs[i].end \in Nat /\ gs[i].fill \in Nat
  <2>1. \A i \in W : gs[i] \in GroupT
    BY <1>1
  <2> QED BY <2>1 DEF GroupT
<1>3. w \in [W -> Int] /\ \A i \in W : w[i] = v(i)
  BY <1>2 DEF Length
<1>4. Shift(gs, W) = f[W]
  BY DEF Shift, MapThenSumSet, MapThenFoldSet
<1> HIDE DEF w, v, W
<1>5. PICK g : g \in [SUBSET W -> Int] /\ AddsUp(g, w, W)
  <2>1. Weighs(w, W)
    BY <1>1, <1>3 DEF Weighs
  <2> QED BY <2>1, AddsUpExists
<1>6. g = Body(g)
  <2>1. ASSUME NEW s \in SUBSET W
        PROVE  g[s] = IF s = {} THEN 0 ELSE v(x(s)) + g[s \ {x(s)}]
    <3>1. g[s] = IF s = {} THEN 0 ELSE w[x(s)] + g[s \ {x(s)}]
      BY <1>5 DEF AddsUp
    <3>2. s # {} => x(s) \in W
      OBVIOUS
    <3> HIDE DEF x
    <3> QED BY <1>3, <3>1, <3>2
  <2>2. g = [s \in SUBSET W |-> g[s]]
    BY <1>5
  <2> HIDE DEF x
  <2> QED BY <2>1, <2>2
<1>7. f = Body(f)
  <2> HIDE DEF Body
  <2> QED BY <1>6
<1> HIDE DEF f
<1>8. AddsUp(f, w, W)
  <2>1. ASSUME NEW s \in SUBSET W
        PROVE  f[s] = IF s = {} THEN 0 ELSE w[x(s)] + f[s \ {x(s)}]
    <3>1. f[s] = IF s = {} THEN 0 ELSE v(x(s)) + f[s \ {x(s)}]
      <4> HIDE DEF x
      <4> QED BY <1>7
    <3>2. s # {} => x(s) \in W
      OBVIOUS
    <3> HIDE DEF x
    <3> QED BY <1>3, <3>1, <3>2
  <2> QED BY <2>1 DEF AddsUp
<1> DEFINE p == [k \in 0 .. m |-> q[k]]
<1>9. p \in [0 .. m -> Int] /\ p[0] = 0 /\ p[m] = q[m] /\ \A k \in 1 .. m : p[k] = p[k - 1] + w[k]
  <2>1. \A k \in 0 .. m : k \in 0 .. Len(gs) /\ q[k] \in Int
    BY <1>1
  <2>2. 0 \in 0 .. m /\ m \in 0 .. m
    BY <1>1
  <2>3. ASSUME NEW k \in 1 .. m PROVE p[k] = p[k - 1] + w[k]
    <3>1. k \in W /\ k \in 1 .. Len(gs) /\ k - 1 \in 0 .. m /\ k \in 0 .. m
      BY <1>1 DEF W
    <3>2. w[k] = (gs[k].end - gs[k].start) - gs[k].fill
      BY <3>1 DEF w
    <3>3. q[k] = q[k - 1] + (gs[k].end - gs[k].start) - gs[k].fill /\ q[k - 1] \in Int
      BY <2>1, <3>1
    <3>4. gs[k].start \in Nat /\ gs[k].end \in Nat /\ gs[k].fill \in Nat
      BY <1>2, <3>1
    <3>5. q[k] = q[k - 1] + w[k]
      BY <3>2, <3>3, <3>4
    <3> QED BY <3>1, <3>5
  <2> QED BY <2>1, <2>2, <2>3
<1> HIDE DEF p
<1>10. \A k \in 0 .. m : f[1 .. k] = p[k]
  <2>1. w \in [1 .. m -> Int] /\ AddsUp(f, w, 1 .. m)
    BY <1>3, <1>8 DEF W
  <2>2. CountsUp(p, w, m)
    BY <1>9, <2>1 DEF CountsUp
  <2> QED BY <1>1, <2>1, <2>2, AddsUpTo
<1> QED BY <1>1, <1>4, <1>9, <1>10 DEF W

\* E[k]: how far the first k cuts reach; off[k]: how much shorter the file is for them.
Reaches(E, c) ==
  /\ E \in [0 .. Len(c) -> Nat] /\ E[0] = 0
  /\ \A k \in 1 .. Len(c) : E[k] = Larger(E[k - 1], c[k].end)
Takings(off, E, c) ==
  /\ off \in [0 .. Len(c) -> Int] /\ off[0] = 0
  /\ \A k \in 1 .. Len(c) : off[k] = off[k - 1] + (E[k] - Larger(E[k - 1], c[k].start)) - c[k].fill

\* Groups apart from each other, and what they take.
Grouping(gs, q) ==
  /\ gs \in Seq(GroupT)
  /\ \A m \in 1 .. Len(gs) : gs[m].start < gs[m].end
  /\ \A l, m \in 1 .. Len(gs) : l < m => gs[l].end < gs[m].start
  /\ q \in [0 .. Len(gs) -> Int] /\ q[0] = 0
  /\ \A m \in 1 .. Len(gs) : q[m] = q[m - 1] + (gs[m].end - gs[m].start) - gs[m].fill

\* The first j cuts are in the first m groups.
Covers(gs, q, c, E, off, k, j, m) ==
  /\ q[m] = off[j]
  /\ m >= 1 => gs[m].end = E[j]
  /\ j = k => m = Len(gs)
  /\ j < k => m < Len(gs) /\ gs[m + 1].start = c[j + 1].start

GroupsUpTo(gs, q, c, E, off, k) ==
  /\ Grouping(gs, q)
  /\ k = 0 => Len(gs) = 0
  /\ k > 0 => Len(gs) > 0 /\ gs[Len(gs)].end = E[k]
  /\ \A j \in 0 .. k : j = k \/ E[j] < c[j + 1].start =>
       \E m \in 0 .. Len(gs) : Covers(gs, q, c, E, off, k, j, m)

\* The cuts in numbers.
LEMMA LinedNumbers ==
  ASSUME NEW c, Lined(c), NEW E, Reaches(E, c), NEW off, Takings(off, E, c)
  PROVE  /\ c \in Seq(StampT) /\ Len(c) \in Nat
         /\ \A k \in 1 .. Len(c) :
              /\ c[k] \in StampT
              /\ c[k].start \in Nat /\ c[k].end \in Nat /\ c[k].fill \in Nat /\ c[k].start < c[k].end
              /\ E[k] = Larger(E[k - 1], c[k].end)
              /\ off[k] = off[k - 1] + (E[k] - Larger(E[k - 1], c[k].start)) - c[k].fill
         /\ \A k \in 0 .. Len(c) : E[k] \in Nat /\ off[k] \in Int
<1>1. c \in Seq(StampT) /\ Len(c) \in Nat /\ \A k \in 1 .. Len(c) : c[k] \in StampT /\ c[k].start < c[k].end
  BY DEF Lined
<1>2. \A k \in 1 .. Len(c) : c[k].start \in Nat /\ c[k].end \in Nat /\ c[k].fill \in Nat
  BY <1>1 DEF StampT
<1> QED BY <1>1, <1>2 DEF Reaches, Takings

\* Groups in numbers.
LEMMA GroupNumbers ==
  ASSUME NEW gs, NEW q, Grouping(gs, q)
  PROVE  /\ gs \in Seq(GroupT) /\ Len(gs) \in Nat
         /\ \A m \in 1 .. Len(gs) :
              /\ gs[m] \in GroupT
              /\ gs[m].start \in Nat /\ gs[m].end \in Nat /\ gs[m].fill \in Nat /\ gs[m].start < gs[m].end
              /\ q[m] = q[m - 1] + (gs[m].end - gs[m].start) - gs[m].fill
         /\ \A l, m \in 1 .. Len(gs) : l < m => gs[l].end < gs[m].start
         /\ \A m \in 0 .. Len(gs) : q[m] \in Int
         /\ q[0] = 0
<1>1. gs \in Seq(GroupT) /\ Len(gs) \in Nat /\ \A m \in 1 .. Len(gs) : gs[m] \in GroupT
  BY DEF Grouping
<1>2. \A m \in 1 .. Len(gs) : gs[m].start \in Nat /\ gs[m].end \in Nat /\ gs[m].fill \in Nat
  BY <1>1 DEF GroupT
<1> QED BY <1>1, <1>2 DEF Grouping

\* The cut begins where the last group is, or just behind it.
Touches(gs, cut) == gs # <<>> /\ cut.start <= Last(gs).end

\* A cut that touches the last group becomes part of it.
LEMMA GroupJoins ==
  ASSUME NEW c, Lined(c), NEW E, Reaches(E, c), NEW off, Takings(off, E, c),
         NEW k \in 1 .. Len(c), NEW gs, NEW q, GroupsUpTo(gs, q, c, E, off, k - 1),
         Touches(gs, c[k])
  PROVE  \E p : GroupsUpTo(GroupIn(gs, c[k]), p, c, E, off, k)
<1> DEFINE n == Len(gs)
           g == [Last(gs) EXCEPT !.end = Larger(@, c[k].end), !.fill = @ + c[k].fill]
           r == GroupIn(gs, c[k])
<1>1. /\ k \in Nat /\ k >= 1 /\ k - 1 \in 0 .. Len(c) /\ k \in 0 .. Len(c)
      /\ c[k].start \in Nat /\ c[k].end \in Nat /\ c[k].fill \in Nat /\ c[k].start < c[k].end
      /\ E[k] = Larger(E[k - 1], c[k].end) /\ E[k] \in Nat /\ E[k - 1] \in Nat
      /\ off[k] = off[k - 1] + (E[k] - Larger(E[k - 1], c[k].start)) - c[k].fill
      /\ off[k - 1] \in Int /\ off[k] \in Int
  <2>1. Len(c) \in Nat
    BY LinedNumbers
  <2>2. k \in Nat /\ k >= 1 /\ k - 1 \in 0 .. Len(c) /\ k \in 0 .. Len(c)
    BY <2>1
  <2> QED BY <2>2, LinedNumbers
<1>2. /\ gs \in Seq(GroupT) /\ n \in Nat
      /\ \A m \in 1 .. n :
           /\ gs[m] \in GroupT
           /\ gs[m].start \in Nat /\ gs[m].end \in Nat /\ gs[m].fill \in Nat /\ gs[m].start < gs[m].end
           /\ q[m] = q[m - 1] + (gs[m].end - gs[m].start) - gs[m].fill
      /\ \A l, m \in 1 .. n : l < m => gs[l].end < gs[m].start
      /\ \A m \in 0 .. n : q[m] \in Int
      /\ q[0] = 0 /\ q \in [0 .. n -> Int]
  BY GroupNumbers DEF GroupsUpTo, Grouping
<1>2a. gs # <<>> /\ c[k].start <= Last(gs).end
  BY DEF Touches
<1>3. n >= 1 /\ n \in 1 .. n /\ Last(gs) = gs[n] /\ n \in 0 .. n /\ n - 1 \in 0 .. n
  BY <1>2, <1>2a DEF Last
<1>4. k - 1 > 0 /\ gs[n].end = E[k - 1] /\ c[k].start <= E[k - 1]
  <2>1. k - 1 # 0
    BY <1>3 DEF GroupsUpTo
  <2>2. k - 1 > 0
    BY <1>1, <2>1
  <2> QED BY <1>2a, <1>3, <2>2 DEF GroupsUpTo
<1>5. /\ g \in GroupT /\ g.start = gs[n].start /\ g.end = E[k] /\ g.fill = gs[n].fill + c[k].fill
      /\ E[k - 1] <= E[k]
  <2> DEFINE l == gs[n]
  <2>1. l \in GroupT /\ l.start \in Nat /\ l.end \in Nat /\ l.fill \in Nat
    BY <1>2, <1>3
  <2>2. g = [l EXCEPT !.end = Larger(@, c[k].end), !.fill = @ + c[k].fill]
    BY <1>3
  <2>3. l.end = E[k - 1]
    BY <1>4
  <2> HIDE DEF l, g
  <2>4. Larger(l.end, c[k].end) = E[k] /\ E[k] \in Nat /\ l.fill + c[k].fill \in Nat
    BY <1>1, <2>1, <2>3
  <2>5. /\ g \in GroupT /\ g.start = l.start /\ g.end = E[k] /\ g.fill = l.fill + c[k].fill
    BY <2>1, <2>2, <2>4 DEF GroupT
  <2>6. E[k - 1] <= E[k]
    BY <1>1 DEF Larger
  <2> QED BY <2>5, <2>6 DEF l
<1>6. r = Append(Front(gs), g)
  BY <1>2a DEF GroupIn
<1> HIDE DEF g
<1>7. /\ r \in Seq(GroupT) /\ Len(r) = n /\ r[n] = g /\ \A i \in 1 .. n - 1 : r[i] = gs[i]
  <2>0. gs \in Seq(GroupT) /\ gs # <<>> /\ g \in GroupT
    BY <1>2, <1>2a, <1>5
  <2> HIDE DEF r, n
  <2>1. /\ Append(Front(gs), g) \in Seq(GroupT) /\ Len(Append(Front(gs), g)) = Len(gs)
        /\ Append(Front(gs), g)[Len(gs)] = g
        /\ \A i \in 1 .. Len(gs) - 1 : Append(Front(gs), g)[i] = gs[i]
    BY <2>0, LastReplaced
  <2> QED BY <1>6, <2>1 DEF r, n
<1> HIDE DEF r, n
<1>7a. g.start \in Nat /\ g.end \in Nat /\ g.fill \in Nat /\ q[n - 1] \in Int
  BY <1>2, <1>3, <1>5 DEF GroupT
<1> DEFINE p == [q EXCEPT ![n] = q[n - 1] + (g.end - g.start) - g.fill]
<1>8. /\ p \in [0 .. n -> Int] /\ p[n] = q[n - 1] + (g.end - g.start) - g.fill
      /\ \A m \in 0 .. n - 1 : p[m] = q[m]
  <2>1. q[n - 1] + (g.end - g.start) - g.fill \in Int
    BY <1>7a
  <2> QED BY <1>2, <1>3, <2>1
<1> HIDE DEF p
<1>9. p[n] = off[k]
  <2>1. \E m \in 0 .. n : Covers(gs, q, c, E, off, k - 1, k - 1, m)
    <3>1. k - 1 \in 0 .. k - 1
      BY <1>1
    <3> QED BY <3>1 DEF GroupsUpTo, n
  <2>2. q[n] = off[k - 1]
    BY <2>1 DEF Covers, n
  <2>3. Larger(E[k - 1], c[k].start) = E[k - 1]
    BY <1>1, <1>4 DEF Larger
  <2>4. off[k] = off[k - 1] + (E[k] - E[k - 1]) - c[k].fill
    BY <1>1, <2>3
  <2>5. q[n] = q[n - 1] + (gs[n].end - gs[n].start) - gs[n].fill
        /\ gs[n].start \in Nat /\ gs[n].fill \in Nat /\ q[n - 1] \in Int
    BY <1>2, <1>3
  <2>6. p[n] = q[n - 1] + (E[k] - gs[n].start) - (gs[n].fill + c[k].fill)
    BY <1>5, <1>8
  <2>9. /\ q[n - 1] \in Int /\ E[k - 1] \in Int /\ gs[n].start \in Int /\ gs[n].fill \in Int
        /\ E[k] \in Int /\ c[k].fill \in Int /\ off[k - 1] \in Int
    BY <1>1, <2>5
  <2>10. off[k - 1] = q[n - 1] + (E[k - 1] - gs[n].start) - gs[n].fill
    BY <1>4, <2>2, <2>5
  <2> DEFINE x == q[n - 1]
             y == E[k - 1]
             z == gs[n].start
             u == gs[n].fill
             v == E[k]
             w == c[k].fill
             o == off[k - 1]
             a == p[n]
             b == off[k]
  <2>11. x \in Int /\ y \in Int /\ z \in Int /\ u \in Int /\ v \in Int /\ w \in Int /\ o \in Int
    BY <2>9
  <2>12. o = x + (y - z) - u
    BY <2>10
  <2>13. a = x + (v - z) - (u + w)
    BY <2>6
  <2>14. b = o + (v - y) - w
    BY <2>4
  <2> HIDE DEF x, y, z, u, v, w, o, a, b
  <2>15. a = b
    BY <2>11, <2>12, <2>13, <2>14
  <2> QED BY <2>15 DEF a, b
<1>10. Grouping(r, p)
  <2>1. ASSUME NEW m \in 1 .. n PROVE r[m].start < r[m].end /\ p[m] = p[m - 1] + (r[m].end - r[m].start) - r[m].fill
    <3>1. CASE m = n
      <4>1. p[n - 1] = q[n - 1]
        BY <1>2, <1>3, <1>8
      <4>2. gs[n].start < gs[n].end /\ gs[n].start \in Nat /\ gs[n].end \in Nat
        BY <1>2, <1>3
      <4>3. g.start < g.end
        BY <1>1, <1>4, <1>5, <4>2
      <4> QED BY <1>7, <1>8, <3>1, <4>1, <4>3
    <3>2. CASE m # n
      <4>1. m \in 1 .. n - 1 /\ m \in 0 .. n - 1 /\ m - 1 \in 0 .. n - 1
        BY <1>2, <3>2
      <4> QED BY <1>2, <1>7, <1>8, <4>1
    <3> QED BY <3>1, <3>2
  <2>2. ASSUME NEW l \in 1 .. n, NEW m \in 1 .. n, l < m PROVE r[l].end < r[m].start
    <3>1. l \in 1 .. n - 1 /\ (m = n \/ m \in 1 .. n - 1)
      BY <1>2, <2>2
    <3>2. r[m].start = gs[m].start
      BY <1>5, <1>7, <3>1
    <3> QED BY <1>2, <1>7, <2>2, <3>1, <3>2
  <2>3. p[0] = 0
    BY <1>2, <1>3, <1>8
  <2> QED BY <1>7, <1>8, <2>1, <2>2, <2>3 DEF Grouping
<1>11. ASSUME NEW j \in 0 .. k, j = k \/ E[j] < c[j + 1].start
       PROVE  \E m \in 0 .. Len(r) : Covers(r, p, c, E, off, k, j, m)
  <2>1. CASE j = k
    <3>1. Covers(r, p, c, E, off, k, j, n)
      BY <1>5, <1>7, <1>9, <2>1 DEF Covers
    <3> QED BY <1>3, <1>7, <3>1
  <2>2. CASE j # k
    <3>1. j # k - 1
      <4>1. ASSUME j = k - 1 PROVE FALSE
        <5>1. E[k - 1] < c[k].start
          BY <1>1, <1>11, <2>2, <4>1
        <5> QED BY <1>1, <1>4, <5>1
      <4> QED BY <4>1
    <3>2. j \in 0 .. k - 1 /\ j < k - 1 /\ j < k
      BY <1>1, <2>2, <3>1
    <3>3. PICK m \in 0 .. n : Covers(gs, q, c, E, off, k - 1, j, m)
      BY <1>11, <2>2, <3>2 DEF GroupsUpTo, n
    <3>4. m < n /\ q[m] = off[j] /\ (m >= 1 => gs[m].end = E[j]) /\ gs[m + 1].start = c[j + 1].start
      BY <3>2, <3>3 DEF Covers, n
    <3>5. m \in 0 .. n - 1 /\ (m >= 1 => m \in 1 .. n - 1) /\ (m + 1 = n \/ m + 1 \in 1 .. n - 1)
      BY <1>2, <3>4
    <3>6. r[m + 1].start = gs[m + 1].start
      BY <1>5, <1>7, <3>5
    <3>7. Covers(r, p, c, E, off, k, j, m)
      BY <1>7, <1>8, <2>2, <3>4, <3>5, <3>6 DEF Covers
    <3> QED BY <1>7, <3>7
  <2> QED BY <2>1, <2>2
<1>12. k # 0 /\ k > 0 /\ Len(r) > 0 /\ r[Len(r)].end = E[k]
  BY <1>1, <1>3, <1>5, <1>7
<1>13. GroupsUpTo(r, p, c, E, off, k)
  BY <1>10, <1>11, <1>12 DEF GroupsUpTo
<1> QED BY <1>13 DEF r

\* Any other begins a group.
LEMMA GroupOpens ==
  ASSUME NEW c, Lined(c), NEW E, Reaches(E, c), NEW off, Takings(off, E, c),
         NEW k \in 1 .. Len(c), NEW gs, NEW q, GroupsUpTo(gs, q, c, E, off, k - 1),
         ~ Touches(gs, c[k])
  PROVE  \E p : GroupsUpTo(GroupIn(gs, c[k]), p, c, E, off, k)
<1> DEFINE n == Len(gs)
           g == [start |-> c[k].start, end |-> c[k].end, fill |-> c[k].fill]
           r == GroupIn(gs, c[k])
<1>1. /\ k \in Nat /\ k >= 1 /\ k - 1 \in 0 .. Len(c) /\ k \in 0 .. Len(c)
      /\ c[k].start \in Nat /\ c[k].end \in Nat /\ c[k].fill \in Nat /\ c[k].start < c[k].end
      /\ E[k] = Larger(E[k - 1], c[k].end) /\ E[k] \in Nat /\ E[k - 1] \in Nat
      /\ off[k] = off[k - 1] + (E[k] - Larger(E[k - 1], c[k].start)) - c[k].fill
      /\ off[k - 1] \in Int /\ off[k] \in Int
  <2>1. Len(c) \in Nat
    BY LinedNumbers
  <2>2. k \in Nat /\ k >= 1 /\ k - 1 \in 0 .. Len(c) /\ k \in 0 .. Len(c)
    BY <2>1
  <2> QED BY <2>2, LinedNumbers
<1>2. /\ gs \in Seq(GroupT) /\ n \in Nat
      /\ \A m \in 1 .. n :
           /\ gs[m] \in GroupT
           /\ gs[m].start \in Nat /\ gs[m].end \in Nat /\ gs[m].fill \in Nat /\ gs[m].start < gs[m].end
           /\ q[m] = q[m - 1] + (gs[m].end - gs[m].start) - gs[m].fill
      /\ \A l, m \in 1 .. n : l < m => gs[l].end < gs[m].start
      /\ \A m \in 0 .. n : q[m] \in Int
      /\ q[0] = 0 /\ q \in [0 .. n -> Int]
  BY GroupNumbers DEF GroupsUpTo, Grouping
<1>3. /\ n >= 1 => gs[n].end = E[k - 1] /\ E[k - 1] < c[k].start
      /\ n = 0 => E[k - 1] = 0 /\ k - 1 = 0
  <2>1. CASE n >= 1
    <3>1. gs # <<>> /\ Last(gs) = gs[n] /\ n \in 1 .. n
      BY <1>2, <2>1 DEF Last
    <3>2. k - 1 # 0
      BY <1>1, <2>1 DEF GroupsUpTo
    <3>3. k - 1 > 0
      BY <1>1, <3>2
    <3>4. gs[n].end = E[k - 1]
      BY <3>3 DEF GroupsUpTo
    <3>5. ~ (c[k].start <= E[k - 1])
      BY <3>1, <3>4 DEF Touches
    <3> QED BY <1>1, <2>1, <3>4, <3>5
  <2>2. CASE n = 0
    <3>1. ~ (k - 1 > 0)
      BY <2>2 DEF GroupsUpTo
    <3>2. k - 1 = 0
      BY <1>1, <3>1
    <3> QED BY <2>2, <3>2 DEF Reaches
  <2> QED BY <1>2, <2>1, <2>2
<1>4. E[k] = c[k].end /\ off[k] = off[k - 1] + (c[k].end - c[k].start) - c[k].fill
  <2>1. E[k - 1] <= c[k].start
    BY <1>1, <1>2, <1>3
  <2>2. Larger(E[k - 1], c[k].start) = c[k].start /\ Larger(E[k - 1], c[k].end) = c[k].end
    BY <1>1, <2>1 DEF Larger
  <2> QED BY <1>1, <2>2
<1>5. g \in GroupT /\ g.start = c[k].start /\ g.end = c[k].end /\ g.fill = c[k].fill
  BY <1>1 DEF GroupT
<1>6. r = Append(gs, g)
  BY DEF GroupIn, Touches
<1> HIDE DEF g
<1>7. /\ r \in Seq(GroupT) /\ Len(r) = n + 1 /\ r[n + 1] = g /\ \A i \in 1 .. n : r[i] = gs[i]
  BY <1>2, <1>5, <1>6, OneAdded
<1> HIDE DEF r, n
<1>7a. g.start \in Nat /\ g.end \in Nat /\ g.fill \in Nat /\ n \in 0 .. n /\ q[n] \in Int
  BY <1>2, <1>5 DEF GroupT
<1> DEFINE N == n + 1
           p == [m \in 0 .. N |-> IF m = N THEN q[n] + (g.end - g.start) - g.fill ELSE q[m]]
<1>8. /\ p \in [0 .. N -> Int] /\ p[N] = q[n] + (g.end - g.start) - g.fill
      /\ \A m \in 0 .. n : p[m] = q[m]
  <2>1. q[n] + (g.end - g.start) - g.fill \in Int
    BY <1>7a
  <2>2. \A m \in 0 .. N : m # N => m \in 0 .. n
    BY <1>2
  <2>3. \A m \in 0 .. n : m \in 0 .. N /\ m # N
    BY <1>2
  <2>4. N \in 0 .. N
    BY <1>2
  <2> HIDE DEF N
  <2> QED BY <1>2, <2>1, <2>2, <2>3, <2>4
<1> HIDE DEF p
<1>9. p[N] = off[k]
  <2>1. \E m \in 0 .. n : Covers(gs, q, c, E, off, k - 1, k - 1, m)
    <3>1. k - 1 \in 0 .. k - 1
      BY <1>1
    <3> QED BY <3>1 DEF GroupsUpTo, n
  <2>2. q[n] = off[k - 1]
    BY <2>1 DEF Covers, n
  <2> QED BY <1>4, <1>5, <1>8, <2>2
<1>10. Grouping(r, p)
  <2>1. ASSUME NEW m \in 1 .. N PROVE r[m].start < r[m].end /\ p[m] = p[m - 1] + (r[m].end - r[m].start) - r[m].fill
    <3>1. CASE m = N
      <4>1. p[m - 1] = q[n]
        BY <1>2, <1>8, <3>1
      <4> QED BY <1>1, <1>5, <1>7, <1>8, <3>1, <4>1
    <3>2. CASE m # N
      <4>1. m \in 1 .. n /\ m \in 0 .. n /\ m - 1 \in 0 .. n
        BY <1>2, <3>2
      <4> QED BY <1>2, <1>7, <1>8, <4>1
    <3> QED BY <3>1, <3>2
  <2>2. ASSUME NEW l \in 1 .. N, NEW m \in 1 .. N, l < m PROVE r[l].end < r[m].start
    <3>1. l \in 1 .. n /\ (m = N \/ m \in 1 .. n)
      BY <1>2, <2>2
    <3>2. CASE m = N
      <4>1. n >= 1 /\ n \in 1 .. n
        BY <1>2, <3>1
      <4>2. gs[l].end <= gs[n].end
        <5>1. l = n \/ l < n
          BY <1>2, <3>1
        <5>2. l < n => gs[l].end < gs[n].start
          BY <1>2, <3>1, <4>1
        <5>3. gs[n].start < gs[n].end /\ gs[n].start \in Nat /\ gs[n].end \in Nat /\ gs[l].end \in Nat
          BY <1>2, <3>1, <4>1
        <5> QED BY <5>1, <5>2, <5>3
      <4>3. gs[n].end < c[k].start /\ gs[n].end \in Nat /\ gs[l].end \in Nat
        BY <1>2, <1>3, <3>1, <4>1
      <4>4. gs[l].end < c[k].start
        BY <1>1, <4>2, <4>3
      <4> QED BY <1>5, <1>7, <3>1, <3>2, <4>4
    <3>3. CASE m \in 1 .. n
      BY <1>2, <1>7, <2>2, <3>1, <3>3
    <3> QED BY <3>1, <3>2, <3>3
  <2>3. p[0] = 0
    BY <1>2, <1>8
  <2>4. Len(r) = N
    BY <1>7
  <2> HIDE DEF N
  <2> QED BY <1>7, <1>8, <2>1, <2>2, <2>3, <2>4 DEF Grouping
<1>11. ASSUME NEW j \in 0 .. k, j = k \/ E[j] < c[j + 1].start
       PROVE  \E m \in 0 .. Len(r) : Covers(r, p, c, E, off, k, j, m)
  <2>1. CASE j = k
    <3>1. N \in 0 .. Len(r) /\ N = Len(r) /\ ~ (j < k)
      BY <1>1, <1>2, <1>7, <2>1
    <3>2. Covers(r, p, c, E, off, k, j, N)
      BY <1>4, <1>5, <1>7, <1>9, <2>1, <3>1 DEF Covers
    <3> QED BY <3>1, <3>2
  <2>2. CASE j # k
    <3>1. j \in 0 .. k - 1 /\ j < k
      BY <1>1, <2>2
    <3>2. PICK m \in 0 .. n : Covers(gs, q, c, E, off, k - 1, j, m)
      BY <1>11, <2>2, <3>1 DEF GroupsUpTo, n
    <3>3. q[m] = off[j] /\ (m >= 1 => gs[m].end = E[j])
      BY <3>2 DEF Covers
    <3>4. m \in 0 .. Len(r) /\ m < Len(r) /\ (m >= 1 => m \in 1 .. n)
      BY <1>2, <1>7
    <3>5. r[m + 1].start = c[j + 1].start
      <4>1. CASE j = k - 1
        <5>1. m = n /\ j + 1 = k
          BY <1>1, <3>2, <4>1 DEF Covers, n
        <5> QED BY <1>5, <1>7, <5>1
      <4>2. CASE j # k - 1
        <5>1. j < k - 1
          BY <1>1, <3>1, <4>2
        <5>2. m < n /\ gs[m + 1].start = c[j + 1].start
          BY <3>2, <5>1 DEF Covers, n
        <5>3. m + 1 \in 1 .. n
          BY <1>2, <5>2
        <5> QED BY <1>7, <5>2, <5>3
      <4> QED BY <4>1, <4>2
    <3>6. Covers(r, p, c, E, off, k, j, m)
      BY <1>7, <1>8, <2>2, <3>3, <3>4, <3>5 DEF Covers
    <3> QED BY <3>4, <3>6
  <2> QED BY <2>1, <2>2
<1>12. k # 0 /\ k > 0 /\ Len(r) > 0 /\ r[Len(r)].end = E[k]
  BY <1>1, <1>2, <1>4, <1>5, <1>7
<1>13. GroupsUpTo(r, p, c, E, off, k)
  BY <1>10, <1>11, <1>12 DEF GroupsUpTo
<1> QED BY <1>13 DEF r

\* Groups gives them, for cuts by their starts.
LEMMA GroupsUpToAll ==
  ASSUME NEW c, Lined(c), NEW E, Reaches(E, c), NEW off, Takings(off, E, c)
  PROVE  \E q : GroupsUpTo(Groups(c), q, c, E, off, Len(c))
<1> DEFINE n == Len(c)
<1>1. c \in Seq(StampT) /\ n \in Nat /\ \A k \in 1 .. n : c[k] \in StampT
  BY LinedNumbers
<1>2. Groups(c) = Grouped(c)
  BY <1>1, GroupsAre, LinedIs
<1>3. PICK h : GroupRun(h, c) /\ Grouped(c) = h[n]
  BY <1>1, GroupRuns
<1>4. h \in [0 .. n -> Seq(GroupT)] /\ h[0] = <<>> /\ \A k \in 1 .. n : h[k] = GroupIn(h[k - 1], c[k])
  BY <1>3 DEF GroupRun
<1> DEFINE G == {k \in 0 .. n : \E q : GroupsUpTo(h[k], q, c, E, off, k)}
<1>5. 0 \in G
  <2> DEFINE q == [i \in 0 .. 0 |-> 0]
  <2>1. q \in [0 .. 0 -> Int] /\ q[0] = 0
    OBVIOUS
  <2>2. h[0] \in Seq(GroupT) /\ Len(h[0]) = 0 /\ \A m \in 1 .. 0 : FALSE
    BY <1>1, <1>4
  <2> HIDE DEF q
  <2>3. Grouping(h[0], q)
    BY <2>1, <2>2 DEF Grouping
  <2>4. E[0] = 0 /\ off[0] = 0
    BY DEF Reaches, Takings
  <2>5. Covers(h[0], q, c, E, off, 0, 0, 0)
    BY <2>1, <2>2, <2>4 DEF Covers
  <2>6. \A j \in 0 .. 0 : j = 0
    OBVIOUS
  <2>7. GroupsUpTo(h[0], q, c, E, off, 0)
    BY <2>2, <2>3, <2>5, <2>6 DEF GroupsUpTo
  <2> QED BY <1>1, <2>7
<1>6. ASSUME NEW k \in 1 .. n, k - 1 \in G PROVE k \in G
  <2>1. PICK q : GroupsUpTo(h[k - 1], q, c, E, off, k - 1)
    BY <1>6
  <2>2. h[k] = GroupIn(h[k - 1], c[k]) /\ k \in 0 .. n
    BY <1>1, <1>4
  <2>3. \E p : GroupsUpTo(GroupIn(h[k - 1], c[k]), p, c, E, off, k)
    <3>1. CASE Touches(h[k - 1], c[k])
      BY <2>1, <3>1, GroupJoins
    <3>2. CASE ~ Touches(h[k - 1], c[k])
      BY <2>1, <3>2, GroupOpens
    <3> QED BY <3>1, <3>2
  <2> QED BY <2>2, <2>3
<1> HIDE DEF G
<1>7. \A k \in 0 .. n : k \in G
  BY <1>1, <1>5, <1>6, CountUp
<1>8. n \in G
  BY <1>1, <1>7
<1> QED BY <1>2, <1>3, <1>8 DEF G

\* What is known of the groups of cuts that lie in a row.
GroupsOfRow(gs, q, c, off, total) ==
  /\ Grouping(gs, q)
  /\ \A j \in 0 .. Len(c) : j = Len(c) \/ After(c, j) < Until(c, j, total) =>
       \E m \in 0 .. Len(gs) :
         /\ q[m] = off[j]
         /\ m >= 1 => gs[m].end = After(c, j)
         /\ j = Len(c) => m = Len(gs)
         /\ j < Len(c) => m < Len(gs) /\ gs[m + 1].start = Until(c, j, total)

\* Such cuts are grouped so.
LEMMA RowGroups ==
  ASSUME NEW total \in Nat, NEW c, Row(c, total), NEW off, Offs(off, c)
  PROVE  \E q : GroupsOfRow(Groups(c), q, c, off, total)
<1> DEFINE n == Len(c)
           E == [k \in 0 .. n |-> After(c, k)]
<1>1. /\ n \in Nat
      /\ \A k \in 1 .. n : /\ c[k].start \in Nat /\ c[k].end \in Nat /\ c[k].start < c[k].end
                           /\ off[k] = off[k - 1] + (c[k].end - c[k].start) - c[k].fill
      /\ \A k \in 0 .. n : After(c, k) \in Nat /\ After(c, k) <= Until(c, k, total)
  BY RowIs
<1>2. ASSUME NEW k \in 1 .. n
      PROVE  /\ k - 1 \in 0 .. n /\ k \in 0 .. n /\ After(c, k) = c[k].end
             /\ After(c, k - 1) <= c[k].start /\ After(c, k - 1) \in Nat
  <2>1. k - 1 \in 0 .. n /\ k \in 0 .. n /\ k - 1 # n /\ k - 1 + 1 = k /\ k # 0
    BY <1>1
  <2>2. Until(c, k - 1, total) = c[k].start
    BY <2>1 DEF Until
  <2> QED BY <1>1, <2>1, <2>2 DEF After
<1>3. Lined(c)
  BY RowIsLined
<1>4. \A k \in 0 .. n : E[k] = After(c, k)
  OBVIOUS
<1>5. E \in [0 .. n -> Nat]
  BY <1>1
<1> HIDE DEF E
<1>6. Reaches(E, c)
  <2>1. E[0] = 0
    BY <1>1, <1>4 DEF After
  <2>2. ASSUME NEW k \in 1 .. n PROVE E[k] = Larger(E[k - 1], c[k].end)
    <3>0. c[k].start \in Nat /\ c[k].end \in Nat /\ c[k].start < c[k].end
      BY <1>1
    <3>1. E[k] = c[k].end /\ E[k - 1] \in Nat /\ E[k - 1] <= c[k].start
      BY <1>2, <1>4
    <3>2. E[k - 1] < c[k].end
      BY <3>0, <3>1
    <3> QED BY <3>0, <3>1, <3>2 DEF Larger
  <2> QED BY <1>5, <2>1, <2>2 DEF Reaches
<1>7. Takings(off, E, c)
  <2>1. off \in [0 .. n -> Int] /\ off[0] = 0
    BY DEF Offs
  <2>2. ASSUME NEW k \in 1 .. n
        PROVE  off[k] = off[k - 1] + (E[k] - Larger(E[k - 1], c[k].start)) - c[k].fill
    <3>1. E[k] = c[k].end /\ E[k - 1] \in Nat /\ E[k - 1] <= c[k].start /\ c[k].start \in Nat
      BY <1>1, <1>2, <1>4
    <3>2. Larger(E[k - 1], c[k].start) = c[k].start
      BY <3>1 DEF Larger
    <3> QED BY <1>1, <3>1, <3>2
  <2> QED BY <2>1, <2>2 DEF Takings
<1> DEFINE gs == Groups(c)
<1>8. PICK q : GroupsUpTo(gs, q, c, E, off, n)
  BY <1>3, <1>6, <1>7, GroupsUpToAll
<1> HIDE DEF gs
<1>9. Grouping(gs, q)
  BY <1>8 DEF GroupsUpTo
<1>10. ASSUME NEW j \in 0 .. n, j = n \/ After(c, j) < Until(c, j, total)
       PROVE  \E m \in 0 .. Len(gs) :
                /\ q[m] = off[j]
                /\ m >= 1 => gs[m].end = After(c, j)
                /\ j = n => m = Len(gs)
                /\ j < n => m < Len(gs) /\ gs[m + 1].start = Until(c, j, total)
  <2>1. j # n => Until(c, j, total) = c[j + 1].start
    BY DEF Until
  <2>2. j = n \/ E[j] < c[j + 1].start
    BY <1>4, <1>10, <2>1
  <2>3. PICK m \in 0 .. Len(gs) : Covers(gs, q, c, E, off, n, j, m)
    BY <1>8, <2>2 DEF GroupsUpTo
  <2>4. j < n => j # n
    BY <1>1
  <2> QED BY <1>4, <2>1, <2>3, <2>4 DEF Covers
<1>11. GroupsOfRow(gs, q, c, off, total)
  BY <1>9, <1>10 DEF GroupsOfRow
<1> QED BY <1>11 DEF gs
-----------------------------------------------------------------------------
(* Where adjust_timestamp finds a tick.                                      *)

\* t lies after m groups and not inside the next.
Stands(gs, m, t) ==
  /\ m \in 0 .. Len(gs)
  /\ \A i \in 1 .. m : gs[i].end <= t
  /\ \A i \in m + 1 .. Len(gs) : t <= gs[i].start

\* adjust_timestamp takes off what the groups before take.
LEMMA StandsAt ==
  ASSUME NEW gs, NEW q, Grouping(gs, q), NEW m, NEW t \in Nat, Stands(gs, m, t)
  PROVE  Adjusted(t, gs) = Larger(0, t - q[m])
<1> DEFINE n == Len(gs)
           around == {i \in DOMAIN gs : gs[i].start < t /\ t < gs[i].end}
           W == {i \in DOMAIN gs : gs[i].end <= t}
<1>1. /\ gs \in Seq(GroupT) /\ n \in Nat /\ DOMAIN gs = 1 .. n
      /\ \A i \in 1 .. n : gs[i].start \in Nat /\ gs[i].end \in Nat /\ gs[i].start < gs[i].end
  BY GroupNumbers
<1>2. m \in 0 .. n /\ (\A i \in 1 .. m : gs[i].end <= t) /\ \A i \in m + 1 .. n : t <= gs[i].start
  BY DEF Stands
<1>3. ASSUME NEW i \in 1 .. n
      PROVE  (gs[i].end <= t <=> i \in 1 .. m) /\ ~ (gs[i].start < t /\ t < gs[i].end)
  <2>1. i \in 1 .. m \/ i \in m + 1 .. n
    BY <1>1, <1>2
  <2>2. CASE i \in 1 .. m
    BY <1>1, <1>2, <2>2
  <2>3. CASE i \in m + 1 .. n
    <3>1. t <= gs[i].start /\ i \notin 1 .. m
      BY <1>1, <1>2, <2>3
    <3> QED BY <1>1, <3>1
  <2> QED BY <2>1, <2>2, <2>3
<1>4. \A i \in 1 .. m : i \in 1 .. n
  BY <1>1, <1>2
<1>5. around = {} /\ W = 1 .. m
  BY <1>1, <1>3, <1>4
<1>6. Shift(gs, 1 .. m) = q[m]
  <2>1. /\ q \in [0 .. n -> Int] /\ q[0] = 0
        /\ \A k \in 1 .. n : q[k] = q[k - 1] + (gs[k].end - gs[k].start) - gs[k].fill
    BY DEF Grouping
  <2> QED BY <1>1, <1>2, <2>1, ShiftTo
<1>7. Adjusted(t, gs) = Larger(0, (IF around = {} THEN t ELSE gs[CHOOSE i \in around : TRUE].start) - Shift(gs, W))
  BY DEF Adjusted
<1> HIDE DEF around, W
<1> QED BY <1>5, <1>6, <1>7

\* What is inside a group is taken for where the group begins.
Stood(gs, m, t, b) ==
  /\ Stands(gs, m, b) /\ b \in Nat /\ b <= t
  /\ m < Len(gs) => b <= gs[m + 1].start /\ t < gs[m + 1].end
  /\ b < t => m < Len(gs) /\ b = gs[m + 1].start

\* A tick that ended so many groups.
LEMMA SomeGroups ==
  ASSUME NEW gs, NEW q, Grouping(gs, q), NEW t \in Nat
  PROVE  \E m \in 0 .. Len(gs) : /\ \A i \in 1 .. m : gs[i].end <= t
                                 /\ m < Len(gs) => t < gs[m + 1].end
<1> DEFINE n == Len(gs)
           Zoned(m) == (\A i \in 1 .. m : gs[i].end <= t) /\ (m < n => t < gs[m + 1].end)
           G == {k \in 0 .. n : (\A i \in 1 .. k : gs[i].end <= t) \/ \E m \in 0 .. n : Zoned(m)}
<1>1. /\ n \in Nat
      /\ \A i \in 1 .. n : gs[i].start \in Nat /\ gs[i].end \in Nat
  BY GroupNumbers
<1>2. 0 \in G
  BY <1>1
<1>3. ASSUME NEW k \in 1 .. n, k - 1 \in G PROVE k \in G
  <2>1. k \in 0 .. n /\ k - 1 \in 0 .. n /\ k - 1 < n /\ k - 1 + 1 = k
    BY <1>1
  <2>2. CASE \E m \in 0 .. n : Zoned(m)
    BY <2>1, <2>2
  <2>3. CASE ~ \E m \in 0 .. n : Zoned(m)
    <3>1. \A i \in 1 .. k - 1 : gs[i].end <= t
      BY <1>3, <2>3
    <3>2. ~ (t < gs[k].end)
      BY <2>1, <2>3, <3>1
    <3>3. gs[k].end <= t
      BY <1>1, <3>2
    <3>4. \A i \in 1 .. k : i = k \/ i \in 1 .. k - 1
      BY <2>1
    <3> QED BY <2>1, <3>1, <3>3, <3>4
  <2> QED BY <2>2, <2>3
<1> HIDE DEF G
<1>4. \A k \in 0 .. n : k \in G
  BY <1>1, <1>2, <1>3, CountUp
<1>5. n \in G
  BY <1>1, <1>4
<1>6. \E m \in 0 .. n : Zoned(m)
  <2>1. CASE \A i \in 1 .. n : gs[i].end <= t
    <3>1. Zoned(n) /\ n \in 0 .. n
      BY <1>1, <2>1
    <3> QED BY <3>1
  <2>2. CASE ~ \A i \in 1 .. n : gs[i].end <= t
    BY <1>5, <2>2 DEF G
  <2> QED BY <2>1, <2>2
<1> QED BY <1>6

\* So it is of every tick.
LEMMA StoodAt ==
  ASSUME NEW gs, NEW q, Grouping(gs, q), NEW t \in Nat
  PROVE  \E m \in 0 .. Len(gs), b \in Nat : Stood(gs, m, t, b) /\ Adjusted(t, gs) = Larger(0, b - q[m])
<1> DEFINE n == Len(gs)
<1>1. /\ gs \in Seq(GroupT) /\ n \in Nat /\ DOMAIN gs = 1 .. n
      /\ \A i \in 1 .. n : gs[i].start \in Nat /\ gs[i].end \in Nat /\ gs[i].start < gs[i].end
      /\ \A l, i \in 1 .. n : l < i => gs[l].end < gs[i].start
  BY GroupNumbers
<1>2. PICK m \in 0 .. n : (\A i \in 1 .. m : gs[i].end <= t) /\ (m < n => t < gs[m + 1].end)
  BY SomeGroups
<1>3. m \in Nat /\ n \in Nat /\ m <= n /\ t <= t
  BY <1>1
<1>4. CASE m = n \/ t <= gs[m + 1].start
  <2>1. ASSUME NEW i \in m + 1 .. n PROVE t <= gs[i].start
    <3>1. m < n /\ m + 1 \in 1 .. n /\ i \in 1 .. n /\ (i = m + 1 \/ m + 1 < i)
      BY <1>1, <1>3
    <3>2. t <= gs[m + 1].start
      BY <1>4, <3>1
    <3>3. gs[m + 1].start <= gs[i].start
      <4>1. m + 1 < i => gs[m + 1].end < gs[i].start
        BY <1>1, <3>1
      <4> QED BY <1>1, <3>1, <4>1
    <3> QED BY <1>1, <3>1, <3>2, <3>3
  <2>2. Stands(gs, m, t)
    BY <1>2, <2>1 DEF Stands
  <2>3. Stood(gs, m, t, t)
    <3>1. m < Len(gs) => t <= gs[m + 1].start /\ t < gs[m + 1].end
      <4> SUFFICES ASSUME m < n PROVE t <= gs[m + 1].start /\ t < gs[m + 1].end
        OBVIOUS
      <4>1. m # n
        BY <1>3
      <4> QED BY <1>2, <1>4, <4>1
    <3>2. Stands(gs, m, t) /\ t \in Nat /\ t <= t /\ ~ (t < t)
      BY <1>3, <2>2
    <3> HIDE DEF n
    <3> QED BY <3>1, <3>2 DEF Stood
  <2>4. Adjusted(t, gs) = Larger(0, t - q[m])
    BY <2>2, StandsAt
  <2> QED BY <2>3, <2>4
<1>5. CASE ~ (m = n \/ t <= gs[m + 1].start)
  <2> DEFINE l == m + 1
             b == gs[l].start
             around == {i \in DOMAIN gs : gs[i].start < t /\ t < gs[i].end}
             W == {i \in DOMAIN gs : gs[i].end <= t}
             V == {i \in DOMAIN gs : gs[i].end <= b}
  <2>1. m < n /\ l \in 1 .. n
    BY <1>3, <1>5
  <2>2. b \in Nat /\ b < t /\ t < gs[l].end
    <3>1. b \in Nat
      BY <1>1, <2>1
    <3>2. ~ (t <= b)
      BY <1>5
    <3>3. t < gs[l].end
      BY <1>2, <2>1
    <3> QED BY <3>1, <3>2, <3>3
  <2>3. ASSUME NEW i \in 1 .. m PROVE gs[i].end <= t /\ gs[i].end <= b /\ i \in 1 .. n
    <3>1. i \in 1 .. n /\ i < l
      BY <1>3
    <3>2. gs[i].end < gs[l].start
      BY <1>1, <2>1, <3>1
    <3> QED BY <1>1, <1>2, <2>2, <3>1, <3>2
  <2>4. ASSUME NEW i \in 1 .. n, i \notin 1 .. m
        PROVE  gs[i].start >= b /\ gs[i].end > t /\ (i # l => gs[i].start > t)
    <3>1. i = l \/ l < i
      BY <1>1, <1>3, <2>4
    <3>2. l < i => gs[l].end < gs[i].start
      BY <1>1, <2>1
    <3> QED BY <1>1, <2>1, <2>2, <3>1, <3>2
  <2> HIDE DEF b
  <2>5. Stands(gs, m, b)
    <3>1. \A i \in m + 1 .. n : i \in 1 .. n /\ i \notin 1 .. m
      BY <1>3
    <3>2. \A i \in m + 1 .. n : b <= gs[i].start
      BY <1>1, <2>2, <2>4, <3>1
    <3> QED BY <2>3, <3>2 DEF Stands
  <2>6. Stood(gs, m, t, b)
    BY <2>1, <2>2, <2>5 DEF Stood, b
  <2>7. around = {l} /\ W = 1 .. m
    <3>1. l \notin 1 .. m
      BY <1>3
    <3>2. \A i \in 1 .. n : i \in around <=> i = l
      <4> TAKE i \in 1 .. n
      <4>1. CASE i \in 1 .. m
        BY <1>1, <2>3, <3>1, <4>1
      <4>2. CASE i \notin 1 .. m
        BY <1>1, <2>2, <2>4, <4>2 DEF b
      <4> QED BY <4>1, <4>2
    <3>3. \A i \in 1 .. n : i \in W <=> i \in 1 .. m
      <4> TAKE i \in 1 .. n
      <4>1. CASE i \in 1 .. m
        BY <1>1, <2>3, <4>1
      <4>2. CASE i \notin 1 .. m
        BY <1>1, <2>4, <4>2
      <4> QED BY <4>1, <4>2
    <3>4. around \subseteq 1 .. n /\ W \subseteq 1 .. n
      BY <1>1
    <3>5. \A i \in 1 .. m : i \in 1 .. n
      BY <2>3
    <3> HIDE DEF around, W
    <3> QED BY <2>1, <3>2, <3>3, <3>4, <3>5
  <2>8. Shift(gs, 1 .. m) = q[m]
    <3>1. /\ q \in [0 .. n -> Int] /\ q[0] = 0
          /\ \A k \in 1 .. n : q[k] = q[k - 1] + (gs[k].end - gs[k].start) - gs[k].fill
      BY DEF Grouping
    <3> QED BY <1>1, <3>1, ShiftTo
  <2>9. Adjusted(t, gs) = Larger(0, (IF around = {} THEN t ELSE gs[CHOOSE i \in around : TRUE].start) - Shift(gs, W))
    BY DEF Adjusted
  <2>10. around # {} /\ (CHOOSE i \in around : TRUE) = l
    <3> HIDE DEF around, W
    <3> QED BY <2>7
  <2> HIDE DEF around, W
  <2>11. Adjusted(t, gs) = Larger(0, b - q[m])
    BY <2>7, <2>8, <2>9, <2>10 DEF b
  <2> QED BY <2>2, <2>6, <2>11
<1> QED BY <1>4, <1>5

\* A later group is placed no earlier.
LEMMA GroupsLater ==
  ASSUME NEW gs, NEW q, Grouping(gs, q), NEW k \in 0 .. Len(gs), NEW l \in 0 .. Len(gs), k < l
  PROVE  gs[k + 1].start - q[k] <= gs[l].end - q[l]
<1> DEFINE n == Len(gs)
           x == gs[k + 1].start - q[k]
           G == {i \in 0 .. n : k < i => x <= gs[i].end - q[i]}
<1>1. /\ n \in Nat
      /\ \A i \in 1 .. n : /\ gs[i].start \in Nat /\ gs[i].end \in Nat /\ gs[i].fill \in Nat
                           /\ q[i] = q[i - 1] + (gs[i].end - gs[i].start) - gs[i].fill
      /\ \A i, j \in 1 .. n : i < j => gs[i].end < gs[j].start
      /\ \A i \in 0 .. n : q[i] \in Int
  BY GroupNumbers
<1>2. k \in Nat /\ l \in Nat /\ k + 1 \in 1 .. n /\ x \in Int
  <2>1. k \in Nat /\ l \in Nat /\ k + 1 \in 1 .. n
    BY <1>1
  <2>2. gs[k + 1].start \in Nat /\ q[k] \in Int
    BY <1>1, <2>1
  <2> QED BY <2>1, <2>2
<1>3. 0 \in G
  BY <1>1, <1>2
<1>4. ASSUME NEW i \in 1 .. n, i - 1 \in G PROVE i \in G
  <2>1. i \in 0 .. n /\ i - 1 \in 0 .. n /\ i \in Nat
    BY <1>1
  <2>2. gs[i].end - q[i] = gs[i].start + gs[i].fill - q[i - 1]
    <3>1. q[i] = q[i - 1] + (gs[i].end - gs[i].start) - gs[i].fill
      BY <1>1
    <3>2. gs[i].start \in Int /\ gs[i].end \in Int /\ gs[i].fill \in Int /\ q[i - 1] \in Int
      BY <1>1, <2>1
    <3> QED BY <3>1, <3>2
  <2>3. gs[i].start - q[i - 1] <= gs[i].end - q[i]
    <3>1. gs[i].start \in Nat /\ gs[i].fill \in Nat /\ q[i - 1] \in Int
      BY <1>1, <2>1
    <3> QED BY <2>2, <3>1
  <2>4. ASSUME k = i - 1 PROVE x <= gs[i].end - q[i]
    <3>1. k + 1 = i
      BY <2>1, <2>4
    <3> QED BY <2>3, <2>4, <3>1
  <2>5. ASSUME k < i - 1 PROVE x <= gs[i].end - q[i]
    <3>1. i - 1 \in 1 .. n /\ i - 1 < i
      BY <1>1, <1>2, <2>1, <2>5
    <3>2. gs[i - 1].end < gs[i].start
      BY <1>1, <3>1
    <3>3. x <= gs[i - 1].end - q[i - 1]
      BY <1>4, <2>5
    <3>4. gs[i - 1].end \in Int /\ gs[i].start \in Int /\ q[i - 1] \in Int /\ gs[i].end \in Int /\ q[i] \in Int
      BY <1>1, <2>1, <3>1
    <3> HIDE DEF x
    <3>5. x <= gs[i].start - q[i - 1]
      BY <1>2, <3>2, <3>3, <3>4
    <3> QED BY <1>2, <2>3, <3>4, <3>5
  <2>6. k < i => k = i - 1 \/ k < i - 1
    BY <1>2, <2>1
  <2> HIDE DEF x
  <2> QED BY <2>1, <2>4, <2>5, <2>6
<1> HIDE DEF G, x
<1>5. \A i \in 0 .. n : i \in G
  BY <1>1, <1>3, <1>4, CountUp
<1>6. l \in G
  BY <1>5
<1> QED BY <1>6 DEF G, x

\* adjust_timestamp keeps the order.
LEMMA AdjustedUp ==
  ASSUME NEW gs, NEW q, Grouping(gs, q), NEW s \in Nat, NEW t \in Nat, s <= t
  PROVE  Adjusted(s, gs) <= Adjusted(t, gs)
<1> DEFINE n == Len(gs)
<1>1. /\ n \in Nat
      /\ \A i \in 1 .. n : gs[i].start \in Nat /\ gs[i].end \in Nat
      /\ \A i, j \in 1 .. n : i < j => gs[i].end < gs[j].start
      /\ \A i \in 0 .. n : q[i] \in Int
  BY GroupNumbers
<1>2. PICK k \in 0 .. n, b \in Nat : Stood(gs, k, s, b) /\ Adjusted(s, gs) = Larger(0, b - q[k])
  BY StoodAt
<1>3. PICK l \in 0 .. n, d \in Nat : Stood(gs, l, t, d) /\ Adjusted(t, gs) = Larger(0, d - q[l])
  BY StoodAt
<1>4. /\ \A i \in 1 .. k : gs[i].end <= b
      /\ b <= s
      /\ k < n => b <= gs[k + 1].start
  BY <1>2 DEF Stood, Stands
<1>5. /\ \A i \in 1 .. l : gs[i].end <= d
      /\ d <= t
      /\ l < n => t < gs[l + 1].end
      /\ d < t => l < n /\ d = gs[l + 1].start
  BY <1>3 DEF Stood, Stands
<1>6. k \in Nat /\ l \in Nat /\ q[k] \in Int /\ q[l] \in Int
  BY <1>1
<1>7. b - q[k] <= d - q[l]
  <2>1. CASE k = l
    <3>1. b <= d
      <4>1. CASE d < t
        BY <1>4, <1>5, <2>1, <4>1
      <4>2. CASE ~ (d < t)
        BY <1>4, <1>5, <4>2
      <4> QED BY <4>1, <4>2
    <3> QED BY <1>6, <2>1, <3>1
  <2>2. CASE k < l
    <3>1. k < n /\ k + 1 \in 1 .. n /\ l \in 1 .. l /\ l \in 1 .. n
      BY <1>1, <1>6, <2>2
    <3>2. gs[k + 1].start - q[k] <= gs[l].end - q[l]
      BY <2>2, GroupsLater
    <3>3. b <= gs[k + 1].start /\ gs[l].end <= d /\ gs[k + 1].start \in Nat /\ gs[l].end \in Nat
      BY <1>1, <1>4, <1>5, <3>1
    <3>4. b - q[k] <= gs[k + 1].start - q[k]
      BY <1>6, <3>3
    <3>5. gs[l].end - q[l] <= d - q[l]
      BY <1>6, <3>3
    <3> DEFINE v == b - q[k]
               w == gs[k + 1].start - q[k]
               x == gs[l].end - q[l]
               y == d - q[l]
    <3>6. v \in Int /\ w \in Int /\ x \in Int /\ y \in Int
      <4>1. v \in Int /\ y \in Int
        BY <1>6
      <4> DEFINE g == gs[k + 1].start
                 h == gs[l].end
      <4>2. g \in Nat /\ h \in Nat /\ q[k] \in Int /\ q[l] \in Int
        BY <1>6, <3>3
      <4>3. w = g - q[k] /\ x = h - q[l]
        OBVIOUS
      <4> HIDE DEF g, h, w, x
      <4>4. w \in Int /\ x \in Int
        BY ONLY <4>2, <4>3
      <4> QED BY <4>1, <4>4
    <3>7. v <= w /\ w <= x /\ x <= y
      BY <3>2, <3>4, <3>5
    <3> HIDE DEF v, w, x, y
    <3>8. v <= y
      BY <3>6, <3>7
    <3> QED BY <3>8 DEF v, y
  <2>3. CASE l < k
    <3>1. l < n /\ l + 1 \in 1 .. k /\ l + 1 \in 1 .. n
      BY <1>1, <1>6, <2>3
    <3>2. gs[l + 1].end <= b /\ t < gs[l + 1].end /\ gs[l + 1].end \in Nat
      BY <1>1, <1>4, <1>5, <3>1
    <3> QED BY <1>4, <3>2
  <2> QED BY <1>6, <2>1, <2>2, <2>3
<1> DEFINE x == b - q[k]
           y == d - q[l]
<1>8. x \in Int /\ y \in Int /\ x <= y
  BY <1>6, <1>7
<1>9. Adjusted(s, gs) = Larger(0, x) /\ Adjusted(t, gs) = Larger(0, y)
  BY <1>2, <1>3
<1> HIDE DEF x, y
<1> QED BY <1>8, <1>9 DEF Larger

\* What is between two cuts of a row goes where it is played; what is before it goes
\* there or before, what is behind it behind it.
LEMMA AdjustOver ==
  ASSUME NEW total \in Nat, NEW c, Row(c, total), NEW off, Offs(off, c),
         NEW j \in 0 .. Len(c), NEW t \in Nat, Between(c, j, t, total)
  PROVE  /\ t - off[j] \in Nat /\ Adjust(t, c) = t - off[j]
         /\ \A u \in Nat : u <= t => Adjust(u, c) <= t - off[j]
         /\ \A u \in Nat : t < u => t - off[j] < Adjust(u, c)
<1> DEFINE gs == Groups(c)
           n == Len(gs)
<1>1. PICK q : GroupsOfRow(gs, q, c, off, total)
  BY RowGroups
<1> HIDE DEF gs
<1>2. Grouping(gs, q)
  BY <1>1 DEF GroupsOfRow
<1>3. /\ n \in Nat
      /\ \A i \in 1 .. n : gs[i].start \in Nat /\ gs[i].end \in Nat /\ gs[i].start < gs[i].end
      /\ \A i, l \in 1 .. n : i < l => gs[i].end < gs[l].start
      /\ \A i \in 0 .. n : q[i] \in Int
  BY <1>2, GroupNumbers
<1>4. /\ Len(c) \in Nat /\ j <= Len(c) /\ off[j] \in Int
      /\ After(c, j) \in Nat /\ Until(c, j, total) \in Nat
      /\ After(c, j) <= t /\ t < Until(c, j, total)
  BY RowIs DEF Between
<1>5. PICK m \in 0 .. n :
        /\ q[m] = off[j]
        /\ m >= 1 => gs[m].end = After(c, j)
        /\ j = Len(c) => m = n
        /\ j < Len(c) => m < n /\ gs[m + 1].start = Until(c, j, total)
  <2>1. After(c, j) < Until(c, j, total)
    BY <1>4
  <2> QED BY <1>1, <2>1 DEF GroupsOfRow
<1>6. m \in Nat /\ m <= n
  BY <1>3
<1>7. ASSUME NEW i \in 1 .. m PROVE gs[i].end <= t /\ gs[i].end <= t + 1
  <2>1. m >= 1 /\ m \in 1 .. n /\ i \in 1 .. n /\ (i = m \/ i < m)
    BY <1>3, <1>6
  <2>2. gs[m].end <= t
    BY <1>4, <1>5, <2>1
  <2>3. i < m => gs[i].end < gs[m].start
    BY <1>3, <2>1
  <2>4. gs[i].end \in Nat /\ gs[m].end \in Nat /\ gs[m].start \in Nat /\ gs[m].start < gs[m].end
    BY <1>3, <2>1
  <2> QED BY <2>1, <2>2, <2>3, <2>4
<1>8. ASSUME NEW i \in m + 1 .. n PROVE t <= gs[i].start /\ t + 1 <= gs[i].start
  <2>1. m < n /\ m + 1 \in 1 .. n /\ i \in 1 .. n /\ (i = m + 1 \/ m + 1 < i)
    BY <1>3, <1>6
  <2>2. t < gs[m + 1].start
    <3>1. j # Len(c)
      BY <1>5, <1>6, <2>1
    <3>2. j < Len(c)
      BY <1>4, <3>1
    <3> QED BY <1>4, <1>5, <3>2
  <2>3. m + 1 < i => gs[m + 1].end < gs[i].start
    BY <1>3, <2>1
  <2>4. gs[m + 1].end \in Nat /\ gs[m + 1].start \in Nat /\ gs[i].start \in Nat /\ gs[m + 1].start < gs[m + 1].end
    BY <1>3, <2>1
  <2>5. t < gs[i].start
    <3>1. CASE i = m + 1
      BY <2>2, <3>1
    <3>2. CASE m + 1 < i
      BY <2>2, <2>3, <2>4, <3>2
    <3> QED BY <2>1, <3>1, <3>2
  <2> QED BY <2>4, <2>5
<1>9. Stands(gs, m, t) /\ Stands(gs, m, t + 1)
  BY <1>7, <1>8 DEF Stands
<1>10. t - off[j] \in Nat
  <2>1. 0 \in 0 .. Len(c) /\ 0 <= j
    BY <1>4
  <2>2. After(c, 0) - off[0] <= After(c, j) - off[j]
    BY <2>1, ZonesUp
  <2>3. After(c, 0) = 0 /\ off[0] = 0
    BY DEF After, Offs
  <2> QED BY <1>4, <2>2, <2>3
<1> DEFINE p == t - off[j]
<1>11. Adjusted(t, gs) = p
  <2>1. Adjusted(t, gs) = Larger(0, p)
    BY <1>2, <1>5, <1>9, StandsAt
  <2> HIDE DEF p
  <2>2. p \in Nat
    BY <1>10 DEF p
  <2> QED BY <2>1, <2>2 DEF Larger
<1>12. Adjusted(t + 1, gs) = p + 1
  <2>1. Adjusted(t + 1, gs) = Larger(0, (t + 1) - off[j])
    BY <1>2, <1>5, <1>9, StandsAt
  <2>2. (t + 1) - off[j] = p + 1
    BY <1>4
  <2> HIDE DEF p
  <2>3. p \in Nat
    BY <1>10 DEF p
  <2> QED BY <2>1, <2>2, <2>3 DEF Larger
<1>13. \A u : Adjust(u, c) = Adjusted(u, gs)
  BY DEF Adjust, gs
<1>14. c \in Seq(StampT)
  BY DEF Row
<1> HIDE DEF p
<1>15. ASSUME NEW u \in Nat, u <= t PROVE Adjust(u, c) <= p
  BY <1>2, <1>11, <1>13, <1>15, AdjustedUp
<1>16. ASSUME NEW u \in Nat, t < u PROVE p < Adjust(u, c)
  <2>1. t + 1 \in Nat /\ t + 1 <= u
    BY <1>16
  <2>2. Adjusted(t + 1, gs) <= Adjusted(u, gs)
    BY <1>2, <2>1, AdjustedUp
  <2>3. Adjust(u, c) \in Nat
    BY <1>14, AdjustIs
  <2>4. p \in Nat
    BY <1>10 DEF p
  <2> QED BY <1>12, <1>13, <2>2, <2>3, <2>4
<1> QED BY <1>10, <1>11, <1>13, <1>15, <1>16 DEF p
-----------------------------------------------------------------------------
(* Kept audio.                                                               *)

\* A tick of a kept span that is in no cut is not lost when the span is moved out of one.
LEMMA SnapKeeps ==
  ASSUME NEW c \in Seq(StampT), NEW s \in SpanT, NEW t \in Nat, s.start <= t, t < s.end, ~ Cutout(c, t)
  PROVE  Snapped(s, c) \in SpanT /\ Snapped(s, c).start <= t /\ t < Snapped(s, c).end
<1> DEFINE n == Len(c)
<1>1. PICK h : SnapRun(h, s, c)
  BY SnapRuns
<1>2. /\ h \in [0 .. n -> SpanT] /\ h[0] = s
      /\ \A k \in 1 .. n : h[k] = SnapTo(h[k - 1], c[k])
      /\ Snapped(s, c) = h[n]
  BY <1>1 DEF SnapRun
<1>3. n \in Nat /\ \A k \in 1 .. n : c[k] \in StampT /\ ~ (c[k].start <= t /\ t < c[k].end)
  BY DEF Cutout
<1> DEFINE G == {k \in 0 .. n : h[k].start <= t /\ t < h[k].end}
<1>4. 0 \in G
  BY <1>2, <1>3
<1>5. ASSUME NEW k \in 1 .. n, k - 1 \in G PROVE k \in G
  <2> DEFINE m == h[k - 1]
             x == c[k]
  <2>1. k - 1 \in 0 .. n /\ k \in 0 .. n
    BY <1>3
  <2>2. m \in SpanT /\ x \in StampT /\ m.start <= t /\ t < m.end /\ h[k] = SnapTo(m, x)
        /\ ~ (x.start <= t /\ t < x.end)
    BY <1>2, <1>3, <1>5, <2>1
  <2> HIDE DEF m, x
  <2>3. m.start \in Nat /\ m.end \in Nat /\ x.start \in Nat /\ x.end \in Nat
    BY <2>2 DEF SpanT, StampT
  <2>4. /\ SnapTo(m, x).start = IF x.start <= m.start /\ m.start < x.end THEN x.end ELSE m.start
        /\ SnapTo(m, x).end = IF x.start < m.end /\ m.end <= x.end THEN x.start ELSE m.end
    BY DEF SnapTo
  <2>5. SnapTo(m, x).start <= t /\ t < SnapTo(m, x).end
    BY <2>2, <2>3, <2>4
  <2> QED BY <2>1, <2>2, <2>5
<1> HIDE DEF G
<1>6. \A k \in 0 .. n : k \in G
  BY <1>3, <1>4, <1>5, CountUp
<1>7. n \in 0 .. n
  BY <1>3
<1>8. n \in G /\ h[n] \in SpanT
  BY <1>2, <1>6, <1>7
<1> QED BY <1>2, <1>8 DEF G

\* So what is kept maps to a span that holds the place where the tick is played.
LEMMA KeptMaps ==
  ASSUME NEW total \in Nat, NEW c, Row(c, total), NEW off, Offs(off, c),
         NEW j \in 0 .. Len(c), NEW t \in Nat, Between(c, j, t, total),
         NEW w \in SpanT, w.start <= t, t < w.end
  PROVE  \E y \in MapToProcessed(w, c) : y.start <= t - off[j] /\ t - off[j] < y.end
<1>1. c \in Seq(StampT)
  BY DEF Row
<1>2. ~ Cutout(c, t)
  BY BetweenIsKept
<1> DEFINE s == Snapped(w, c)
           y == [start |-> Adjust(s.start, c), end |-> Adjust(s.end, c)]
           p == t - off[j]
<1>3. s \in SpanT /\ s.start <= t /\ t < s.end
  BY <1>1, <1>2, SnapKeeps
<1>4. MapToProcessed(w, c) = (IF s.start < s.end /\ y.start < y.end THEN {y} ELSE {}) /\ y \in SpanT
  BY <1>1, MappedIs
<1> HIDE DEF s
<1>5. s.start \in Nat /\ s.end \in Nat
  BY <1>3 DEF SpanT
<1>6. p \in Nat /\ Adjust(s.start, c) <= p /\ p < Adjust(s.end, c)
  BY <1>3, <1>5, AdjustOver
<1>7. y.start <= p /\ p < y.end
  BY <1>6
<1> HIDE DEF y, p
<1>8. s.start < s.end
  BY <1>3, <1>5
<1>9. y.start < y.end
  <2>1. y.start \in Nat /\ y.end \in Nat
    BY <1>4 DEF SpanT
  <2> QED BY <1>6, <1>7, <2>1
<1>10. y \in MapToProcessed(w, c)
  BY <1>4, <1>8, <1>9
<1> QED BY <1>7, <1>10 DEF p

\* No cut that is explained by its requests reaches into a wall.
LEMMA WallsStay ==
  ASSUME NEW total \in Nat, NEW B, NEW W, RealSpans(W), NEW c, NEW L, NEW P, NEW ads,
         Explains(c, L, P, ads, total, B, W),
         NEW w \in W, NEW t \in Nat, w.start <= t, t < w.end, t < total
  PROVE  ~ Cutout(c, t)
<1> SUFFICES ASSUME Cutout(c, t) PROVE FALSE
  OBVIOUS
<1>1. InPart(t, P) \/ InGap(t, P, B \cup W) \/ InTail(t, L, total, B \cup W)
  BY DEF Explains, Explained, Cutout
<1>2. w.start \in Nat /\ w.end \in Nat
  BY DEF RealSpans, SpanT
<1>3. Parts(P, ads, total, W) /\ Kept(L, P)
  BY DEF Explains
<1>4. P \subseteq AdT /\ \A x \in P : x.start \in Nat /\ x.end \in Nat
  <2>1. P \subseteq AdT
    BY <1>3 DEF Parts
  <2> QED BY <2>1 DEF AdT
<1>5. w \in B \cup W
  OBVIOUS
<1>6. CASE InPart(t, P)
  <2>1. PICK x \in P : x.start <= t /\ t < x.end
    BY <1>6 DEF InPart
  <2>2. x.end <= w.start \/ w.end <= x.start
    BY <1>3, <2>1 DEF Parts, PartOf
  <2> QED BY <1>2, <1>4, <2>1, <2>2
<1>7. CASE InGap(t, P, B \cup W)
  <2>1. PICK a \in P, b \in P : Gap(a, b, P, B \cup W) /\ a.end <= t /\ t < b.start
    BY <1>7 DEF InGap
  <2>2. w.end <= a.end \/ b.start <= w.start
    BY <1>5, <2>1 DEF Gap
  <2> QED BY <1>2, <1>4, <2>1, <2>2
<1>8. CASE InTail(t, L, total, B \cup W)
  <2>1. PICK i \in 1 .. Len(L) : /\ L[i].end <= t
                                 /\ \A v \in B \cup W : v.end <= L[i].end \/ total <= v.start
    BY <1>8 DEF InTail
  <2>2. w.end <= L[i].end \/ total <= w.start
    BY <1>5, <2>1
  <2>3. L[i].end \in Nat
    <3>1. L[i] \in CutT
      BY <1>3 DEF Kept, InARow
    <3> QED BY <3>1 DEF CutT
  <2> QED BY <1>2, <2>1, <2>2, <2>3
<1> QED BY <1>1, <1>6, <1>7, <1>8

\* A tick that is kept is a tick of the original in one of the spans.
LEMMA KeptTick ==
  ASSUME CutAssumption, NEW W, W \subseteq Spans(Duration), NEW t \in Ticks(W)
  PROVE  \E w \in W : t \in Nat /\ t \in 0 .. Duration - 1 /\ w.start <= t /\ t < w.end /\ w \in SpanT
<1>1. Duration \in Nat
  BY DEF CutAssumption
<1>2. PICK w \in W : t \in w.start .. w.end - 1
  BY DEF Ticks
<1>3. w.start \in Nat /\ w.end \in Nat /\ w.end <= Duration /\ w \in SpanT
  BY <1>1 DEF Spans, SpanT
<1> QED BY <1>1, <1>2, <1>3

\* A render from the original plays all that is kept.
LEMMA KeptFromOriginal ==
  ASSUME CutAssumption, NEW ads \in Seq(AdT), Separate(ads),
         NEW B, B \subseteq Spans(Duration), NEW W, W \subseteq Spans(Duration),
         FromOriginal(ads, B, W), NEW t \in Ticks(W)
  PROVE  t \in OnAir(audio')
<1>1. Duration \in Nat /\ MergeGap \in Nat \ {0} /\ MinAd \in Nat /\ PostRoll \in Nat /\ Beep \in Nat
  BY DEF CutAssumption
<1>2. RealSpans(B) /\ RealSpans(W) /\ IsFiniteSet(W)
  BY <1>1, SpansAreReal
<1>3. PICK w \in W : t \in Nat /\ t \in 0 .. Duration - 1 /\ w.start <= t /\ t < w.end
  BY KeptTick
<1>4. cuts' = Applied(ads, Duration, B, W)
  BY DEF FromOriginal
<1>5. PICK L, P : Explains(cuts', L, P, ads, Duration, B, W)
  <2>1. \E L, P : Explains(Applied(ads, Duration, B, W), L, P, ads, Duration, B, W)
    BY <1>1, <1>2, AppliedDoes
  <2> QED BY <1>4, <2>1
<1>6. t < Duration
  BY <1>1, <1>3
<1>7. ~ Cutout(cuts', t)
  BY <1>1, <1>2, <1>3, <1>5, <1>6, WallsStay
<1>8. FileOf(audio', cuts', vcuts') /\ vcuts' = <<>>
  BY FromOriginalDoes
<1>9. ~ Cutout(vcuts', t)
  BY <1>8 DEF Cutout
<1>10. \E p \in 1 .. Len(audio') : audio'[p] = t
  BY <1>3, <1>7, <1>8, <1>9 DEF FileOf
<1>11. t # Filler /\ DOMAIN audio' = 1 .. Len(audio')
  BY <1>3, <1>8 DEF Filler, FileOf
<1> QED BY <1>10, <1>11 DEF OnAir, ToSet

\* A tick on the air that some spans hold is played at a place that they hold when they
\* are mapped to the processed timeline.
LEMMA KeptPlace ==
  ASSUME CutAssumption, CutInv, phase = "first",
         NEW W, W \subseteq Spans(Duration), NEW t \in Ticks(W), t \in OnAir(audio)
  PROVE  \E p \in Nat : /\ p + 1 \in 1 .. Len(audio) /\ audio[p + 1] = t
                        /\ \E y \in InProcessed(W, cuts) : y.start <= p /\ p < y.end
<1> DEFINE N == Len(audio)
           S == 0 .. Duration - 1
           T == S \cup {Filler}
<1>1. /\ Row(cuts, Duration) /\ cuts \in Seq(StampT) /\ vcuts = <<>>
      /\ FileOf(audio, cuts, vcuts) /\ audio = Render(Original, cuts)
  BY DEF CutInv, Row
<1>2. Duration \in Nat
  BY DEF CutAssumption
<1>3. audio \in Seq(T) /\ N \in Nat
  BY <1>1 DEF FileOf
<1>4. PICK w \in W : t \in Nat /\ t \in S /\ w.start <= t /\ t < w.end /\ w \in SpanT
  BY KeptTick
<1>5. ~ Cutout(cuts, t)
  <2>1. DOMAIN audio = 1 .. N
    BY <1>3
  <2>2. \E p \in 1 .. N : audio[p] = t
    BY <2>1 DEF OnAir, ToSet
  <2> QED BY <1>1, <1>4, <2>2 DEF FileOf
<1>6. PICK j \in 0 .. Len(cuts) : Between(cuts, j, t, Duration)
  <2>1. t < Duration
    BY <1>2, <1>4
  <2> QED BY <1>1, <1>2, <1>4, <1>5, <2>1, TickIs
<1>7. PICK off : Offs(off, cuts)
  BY <1>1, OffsExist
<1> DEFINE p == t - off[j]
<1>8. p \in Nat
  BY <1>1, <1>2, <1>4, <1>6, <1>7, AdjustOver
<1>9. PICK y \in InProcessed(W, cuts) : y.start <= p /\ p < y.end
  <2>1. \E y \in MapToProcessed(w, cuts) : y.start <= t - off[j] /\ t - off[j] < y.end
    BY <1>1, <1>2, <1>4, <1>6, <1>7, KeptMaps
  <2> QED BY <2>1 DEF InProcessed
<1>10. p + 1 \in 1 .. N /\ audio[p + 1] = t
  <2>1. /\ Original \in Seq(S) /\ Len(Original) = Duration
        /\ \A i \in 1 .. Duration : Original[i] = i - 1
    BY <1>2, OriginalIs
  <2>2. Row(cuts, Len(Original))
    BY <1>1, <2>1
  <2> HIDE DEF S
  <2>3. Laid(audio, Original, cuts, off)
    BY <1>1, <1>7, <2>1, <2>2, RenderDoes
  <2>4. off[j] \in Int /\ After(cuts, j) \in Nat /\ Until(cuts, j, Duration) \in Nat
    BY <1>1, <1>2, <1>7, RowIs
  <2>5. Plays(p + 1, cuts, off, j, Duration)
    <3>1. After(cuts, j) <= t /\ t < Until(cuts, j, Duration)
      BY <1>6 DEF Between
    <3> DEFINE a == After(cuts, j)
               u == Until(cuts, j, Duration)
               f == off[j]
    <3>2. /\ a \in Nat /\ u \in Nat /\ f \in Int /\ t \in Nat
          /\ a <= t /\ t < u /\ p = t - f
      BY <1>4, <2>4, <3>1
    <3> HIDE DEF a, u, f, p
    <3>3. a - f < p + 1 /\ p + 1 <= u - f
      BY ONLY <3>2
    <3> QED BY <3>3 DEF Plays, a, u, f
  <2>6. p + 1 \in Int /\ (p + 1) + off[j] = t + 1
    <3> DEFINE f == off[j]
    <3>1. f \in Int /\ t \in Nat /\ p = t - f
      BY <1>4, <2>4
    <3> HIDE DEF f, p
    <3>2. p + 1 \in Int /\ (p + 1) + f = t + 1
      BY ONLY <3>1
    <3> QED BY <3>2 DEF f
  <2> HIDE DEF p
  <2>7. p + 1 \in 1 .. N /\ audio[p + 1] = Original[(p + 1) + off[j]]
    BY <2>1, <2>3, <2>5, <2>6 DEF Laid
  <2>8. t + 1 \in 1 .. Duration
    BY <1>2, <1>4 DEF S
  <2>9. Original[t + 1] = (t + 1) - 1
    BY <2>1, <2>8
  <2>10. (t + 1) - 1 = t
    BY <1>4
  <2> QED BY <2>6, <2>7, <2>9, <2>10
<1> HIDE DEF p
<1> QED BY <1>8, <1>9, <1>10

\* What is not in a cut of the render of the processed file is on the air after it.
LEMMA PlaceIsPlayed ==
  ASSUME CutAssumption, CutInv, NEW t \in Nat, NEW p \in Nat,
         p + 1 \in 1 .. Len(audio), audio[p + 1] = t,
         NEW d, Row(d, Len(audio)), audio' = Render(audio, d), ~ Cutout(d, p)
  PROVE  t \in OnAir(audio')
<1> DEFINE T == 0 .. Duration - 1 \cup {Filler}
<1>1. audio \in Seq(T) /\ Len(audio) \in Nat
  BY DEF CutInv, FileOf
<1>2. d \in Seq(StampT)
  BY DEF Row
<1>3. PICK r : Offs(r, d)
  BY <1>2, OffsExist
<1> HIDE DEF T
<1>4. Laid(Render(audio, d), audio, d, r)
  BY <1>1, <1>3, RenderDoes
<1>5. PlaysTheKept(Render(audio, d), audio, d)
  BY <1>1, <1>3, <1>4, PlayedIsKept
<1>6. PICK i \in 1 .. Len(audio') : audio'[i] = t
  <2>1. (p + 1) - 1 = p
    OBVIOUS
  <2>2. \E i \in 1 .. Len(Render(audio, d)) : Render(audio, d)[i] = audio[p + 1]
    BY <1>5, <2>1 DEF PlaysTheKept
  <2> QED BY <2>2
<1>7. DOMAIN audio' = 1 .. Len(audio')
  <2>1. Render(audio, d) \in Seq(ToSet(audio) \cup {Filler})
    BY <1>4 DEF Laid
  <2> QED BY <2>1
<1>8. t # Filler
  BY DEF Filler
<1> QED BY <1>6, <1>7, <1>8 DEF OnAir, ToSet

\* A render of the processed file does what Explains says.
LEMMA RecutExplained ==
  ASSUME CutAssumption, CutInv,
         NEW second, [i \in DOMAIN second |-> second[i].ad] \in Seq(AdT),
         Separate([i \in DOMAIN second |-> second[i].ad]),
         NEW W, W \subseteq Spans(Duration), RecutProcessed(second, W)
  PROVE  \E d, L, P :
           /\ audio' = Render(audio, d)
           /\ Explains(d, L, P, [i \in DOMAIN second |-> second[i].ad], Len(audio),
                       InProcessed(holds, cuts), InProcessed(W, cuts))
<1> DEFINE ads == [i \in DOMAIN second |-> second[i].ad]
           B == InProcessed(holds, cuts)
           V == InProcessed(W, cuts)
           N == Len(audio)
<1>1. PICK d \in {Applied(ads, N, B, V)} : audio' = Render(audio, d)
  BY DEF RecutProcessed
<1>2. d = Applied(ads, N, B, V)
  BY <1>1
<1>3. Duration \in Nat /\ cuts \in Seq(StampT) /\ holds \subseteq Spans(Duration) /\ N \in Nat
  BY DEF CutAssumption, CutInv, Row, FileOf
<1>4. /\ MergeGap \in Nat \ {0} /\ MinAd \in Nat /\ PostRoll \in Nat /\ Beep \in Nat
  BY DEF CutAssumption
<1>5. IsFiniteSet(V) /\ RealSpans(V) /\ RealSpans(B)
  <2>1. IsFiniteSet(W) /\ RealSpans(W) /\ IsFiniteSet(holds) /\ RealSpans(holds)
    BY <1>3, SpansAreReal
  <2> QED BY <1>3, <2>1, ProcessedAre
<1>6. ads \in Seq(AdT) /\ Separate(ads)
  OBVIOUS
<1> HIDE DEF ads, B, V, N
<1>7. \E L, P : Explains(Applied(ads, N, B, V), L, P, ads, N, B, V)
  BY <1>3, <1>4, <1>5, <1>6, AppliedDoes
<1>8. PICK L, P : Explains(d, L, P, ads, N, B, V)
  BY <1>2, <1>7
<1> QED BY <1>1, <1>8 DEF ads, B, V, N

\* It plays what was kept of the file.
LEMMA KeptInProcessed ==
  ASSUME CutAssumption, CutInv, phase = "first",
         NEW second, [i \in DOMAIN second |-> second[i].ad] \in Seq(AdT),
         Separate([i \in DOMAIN second |-> second[i].ad]),
         NEW W, W \subseteq Spans(Duration), RecutProcessed(second, W),
         NEW t \in Ticks(W), t \in OnAir(audio)
  PROVE  t \in OnAir(audio')
<1> DEFINE ads == [i \in DOMAIN second |-> second[i].ad]
           B == InProcessed(holds, cuts)
           V == InProcessed(W, cuts)
           N == Len(audio)
<1>1. PICK d, L, P : audio' = Render(audio, d) /\ Explains(d, L, P, ads, N, B, V)
  BY RecutExplained
<1>2. PICK p \in Nat : /\ p + 1 \in 1 .. N /\ audio[p + 1] = t
                       /\ \E y \in V : y.start <= p /\ p < y.end
  BY KeptPlace
<1>3. Duration \in Nat /\ cuts \in Seq(StampT) /\ N \in Nat
  BY DEF CutAssumption, CutInv, Row, FileOf
<1>4. RealSpans(V)
  <2>1. IsFiniteSet(W) /\ RealSpans(W)
    BY <1>3, SpansAreReal
  <2> QED BY <1>3, <2>1, ProcessedAre
<1>5. t \in Nat
  BY KeptTick
<1> HIDE DEF ads, B, V
<1>6. Row(d, N)
  BY <1>1 DEF Explains
<1>7. ~ Cutout(d, p)
  <2>1. p < N
    BY <1>2, <1>3
  <2> QED BY <1>1, <1>2, <1>3, <1>4, <2>1, WallsStay
<1> QED BY <1>1, <1>2, <1>5, <1>6, <1>7, PlaceIsPlayed
-----------------------------------------------------------------------------
(* What is held, and what is asked for.                                      *)

\* What is cut of a held span is requested.
LEMMA HeldIsRequested ==
  ASSUME NEW total \in Nat, NEW B, RealSpans(B), NEW W, NEW c, NEW L, NEW P, NEW ads \in Seq(AdT),
         Explains(c, L, P, ads, total, B, W),
         NEW w \in B, NEW t \in Nat, w.start <= t, t < w.end, t < total, Cutout(c, t)
  PROVE  \E a \in ToSet(ads) : a \in AdT /\ a.start <= t /\ t < a.end
<1>1. InPart(t, P) \/ InGap(t, P, B \cup W) \/ InTail(t, L, total, B \cup W)
  BY DEF Explains, Explained, Cutout
<1>2. w.start \in Nat /\ w.end \in Nat
  BY DEF RealSpans, SpanT
<1>3. Parts(P, ads, total, W) /\ Kept(L, P)
  BY DEF Explains
<1>4. P \subseteq AdT /\ \A x \in P : x.start \in Nat /\ x.end \in Nat
  <2>1. P \subseteq AdT
    BY <1>3 DEF Parts
  <2> QED BY <2>1 DEF AdT
<1>5. w \in B \cup W
  OBVIOUS
<1>6. CASE InPart(t, P)
  <2>1. PICK x \in P : x.start <= t /\ t < x.end
    BY <1>6 DEF InPart
  <2>2. PICK a \in ToSet(ads) : PartOf(x, a, total, W)
    BY <1>3, <2>1 DEF Parts
  <2>3. a.start <= x.start /\ x.end <= a.end
    BY <2>2 DEF PartOf
  <2>4. a \in AdT
    BY DEF ToSet
  <2>5. a.start \in Nat /\ a.end \in Nat /\ x.start \in Nat /\ x.end \in Nat
    BY <1>4, <2>1, <2>4 DEF AdT
  <2>6. a.start <= t /\ t < a.end
    BY <2>1, <2>3, <2>5
  <2> QED BY <2>4, <2>6
<1>7. CASE InGap(t, P, B \cup W)
  <2>1. PICK a \in P, b \in P : Gap(a, b, P, B \cup W) /\ a.end <= t /\ t < b.start
    BY <1>7 DEF InGap
  <2>2. w.end <= a.end \/ b.start <= w.start
    BY <1>5, <2>1 DEF Gap
  <2> QED BY <1>2, <1>4, <2>1, <2>2
<1>8. CASE InTail(t, L, total, B \cup W)
  <2>1. PICK i \in 1 .. Len(L) : /\ L[i].end <= t
                                 /\ \A v \in B \cup W : v.end <= L[i].end \/ total <= v.start
    BY <1>8 DEF InTail
  <2>2. w.end <= L[i].end \/ total <= w.start
    BY <1>5, <2>1
  <2>3. L[i].end \in Nat
    <3>1. L[i] \in CutT
      BY <1>3 DEF Kept, InARow
    <3> QED BY <3>1 DEF CutT
  <2> QED BY <1>2, <2>1, <2>2, <2>3
<1> QED BY <1>1, <1>6, <1>7, <1>8

\* So what a render from the original takes of it was requested.
LEMMA HeldFromOriginal ==
  ASSUME CutAssumption, NEW ads \in Seq(AdT), Separate(ads),
         NEW B, B \subseteq Spans(Duration), NEW W, W \subseteq Spans(Duration),
         FromOriginal(ads, B, W), NEW t \in Ticks(B), t \notin OnAir(audio')
  PROVE  t \in Ticks(ToSet(ads))
<1>1. Duration \in Nat /\ MergeGap \in Nat \ {0} /\ MinAd \in Nat /\ PostRoll \in Nat /\ Beep \in Nat
  BY DEF CutAssumption
<1>2. RealSpans(B) /\ RealSpans(W) /\ IsFiniteSet(W)
  BY <1>1, SpansAreReal
<1>3. PICK w \in B : t \in Nat /\ t \in 0 .. Duration - 1 /\ w.start <= t /\ t < w.end
  BY KeptTick
<1>4. cuts' = Applied(ads, Duration, B, W)
  BY DEF FromOriginal
<1>5. PICK L, P : Explains(cuts', L, P, ads, Duration, B, W)
  <2>1. \E L, P : Explains(Applied(ads, Duration, B, W), L, P, ads, Duration, B, W)
    BY <1>1, <1>2, AppliedDoes
  <2> QED BY <1>4, <2>1
<1>6. t < Duration
  BY <1>1, <1>3
<1>7. FileOf(audio', cuts', vcuts') /\ vcuts' = <<>>
  BY FromOriginalDoes
<1>8. ~ Cutout(vcuts', t)
  BY <1>7 DEF Cutout
<1>9. t # Filler /\ DOMAIN audio' = 1 .. Len(audio')
  BY <1>3, <1>7 DEF Filler, FileOf
<1>10. ~ \E p \in 1 .. Len(audio') : audio'[p] = t
  BY <1>9 DEF OnAir, ToSet
<1>11. Cutout(cuts', t)
  BY <1>3, <1>7, <1>8, <1>10 DEF FileOf
<1>12. PICK a \in ToSet(ads) : a \in AdT /\ a.start <= t /\ t < a.end
  BY <1>1, <1>2, <1>3, <1>5, <1>6, <1>11, HeldIsRequested
<1>13. t \in a.start .. a.end - 1
  BY <1>3, <1>12 DEF AdT
<1> QED BY <1>12, <1>13 DEF Ticks

\* The ticks that the places of some spans play.
Played(F) == UNION {ToSet(SubSeq(audio, ad.start + 1, ad.end)) : ad \in F}

\* A place in a span found by the second pass is asked for.
LEMMA PlaceIsAsked ==
  ASSUME NEW N \in Nat, Len(audio) = N, NEW found, Asked(found, N), NEW a \in ToSet(found),
         NEW p \in Nat, a.start <= p, p < a.end
  PROVE  audio[p + 1] \in Played(ToSet(found))
<1>1. a.start \in Nat /\ a.end \in Nat /\ a.end <= N
  <2>1. a \in AdT /\ a.end <= N
    BY DEF Asked, ToSet
  <2> QED BY <2>1 DEF AdT
<1> DEFINE s == SubSeq(audio, a.start + 1, a.end)
           k == p + 1 - a.start
<1>2. s = [i \in 1 .. a.end - a.start |-> audio[i + (a.start + 1) - 1]]
  BY <1>1
<1>3. k \in 1 .. a.end - a.start /\ k + (a.start + 1) - 1 = p + 1
  BY <1>1
<1> HIDE DEF s, k
<1>4. k \in DOMAIN s /\ s[k] = audio[p + 1]
  BY <1>2, <1>3
<1>5. audio[p + 1] \in ToSet(s)
  BY <1>4 DEF ToSet
<1> QED BY <1>5 DEF Played, s

\* What the second pass finds, and asks for.
SecondFor(found, second) ==
  /\ Asked(found, Len(audio)) /\ Exact(audio, cuts)
  /\ Candids(second, ToSet(found), cuts)
  /\ asked' = asked \cup (Played(ToSet(found)) \ {Filler})

\* A tick played at a place in one of its candidates is asked for.
LEMMA CandidateIsAsked ==
  ASSUME CutAssumption, CutInv, NEW found, NEW second, SecondFor(found, second),
         NEW x \in ToSet(second), NEW p \in Nat, x.ad.start <= p, p < x.ad.end,
         NEW t \in Nat, p + 1 \in 1 .. Len(audio), audio[p + 1] = t
  PROVE  t \in asked'
<1>1. PICK a \in ToSet(found) : a \in AdT /\ a.start <= x.ad.start /\ x.ad.end <= a.end
  BY DEF SecondFor, Candids, FoundIn
<1>2. x.ad.start \in Nat /\ x.ad.end \in Nat /\ a.start \in Nat /\ a.end \in Nat
  <2>1. x.ad \in AdT
    BY DEF SecondFor, Candids, FoundIn, CandT
  <2> QED BY <1>1, <2>1 DEF AdT
<1>3. a.start <= p /\ p < a.end
  <2> DEFINE f == x.ad.start
             g == x.ad.end
             b == a.start
             e == a.end
  <2>1. /\ f \in Nat /\ g \in Nat /\ b \in Nat /\ e \in Nat /\ p \in Nat
        /\ b <= f /\ f <= p /\ p < g /\ g <= e
    BY <1>1, <1>2
  <2> HIDE DEF f, g, b, e
  <2>2. b <= p /\ p < e
    BY ONLY <2>1
  <2> QED BY <2>2 DEF b, e
<1>4. Len(audio) \in Nat
  BY DEF CutInv, FileOf
<1>5. Asked(found, Len(audio))
  BY DEF SecondFor
<1>6. audio[p + 1] \in Played(ToSet(found))
  BY <1>3, <1>4, <1>5, PlaceIsAsked
<1>7. t # Filler
  BY DEF Filler
<1> QED BY <1>6, <1>7 DEF SecondFor

\* A tick on the air in the twin of one of them is played at a place in it.
LEMMA TwinIsAsked ==
  ASSUME CutAssumption, CutInv, NEW found, NEW second, SecondFor(found, second),
         NEW x \in ToSet(second), NEW t \in Nat, x.from <= t, t < x.to, t \in OnAir(audio)
  PROVE  t \in asked'
<1>1. Len(audio) \in Nat /\ DOMAIN audio = 1 .. Len(audio)
  BY DEF CutInv, FileOf
<1>2. PICK q \in 1 .. Len(audio) : audio[q] = t
  BY <1>1 DEF OnAir, ToSet
<1> DEFINE p == q - 1
<1>3. p \in Nat /\ p + 1 = q
  BY <1>1
<1>4. t # Filler
  BY DEF Filler
<1>5. MapToOriginal(p, cuts) = t /\ Rises(cuts) /\ \A s \in Nat : MapToOriginal(s, cuts) \in Nat
  BY <1>2, <1>4 DEF SecondFor, Exact
<1>6. /\ x.from = MapToOriginal(x.ad.start, cuts) /\ x.to = MapToOriginal(x.ad.end, cuts)
      /\ x.ad \in AdT
  BY DEF SecondFor, Candids, FoundIn, CandT
<1>7. x.ad.start \in Nat /\ x.ad.end \in Nat
  BY <1>6 DEF AdT
<1> HIDE DEF p
<1>8. x.ad.start <= p
  <2>1. ASSUME p < x.ad.start PROVE FALSE
    <3>1. MapToOriginal(p, cuts) < MapToOriginal(x.ad.start, cuts)
      BY <1>3, <1>5, <1>7, <2>1 DEF Rises
    <3>2. MapToOriginal(x.ad.start, cuts) \in Nat /\ MapToOriginal(x.ad.start, cuts) <= t
      BY <1>5, <1>6, <1>7
    <3> QED BY <1>5, <3>1, <3>2
  <2> QED BY <1>3, <1>7, <2>1
<1>9. p < x.ad.end
  <2>1. ASSUME x.ad.end <= p PROVE FALSE
    <3>1. x.ad.end = p \/ MapToOriginal(x.ad.end, cuts) < MapToOriginal(p, cuts)
      <4>1. x.ad.end = p \/ x.ad.end < p
        BY <1>3, <1>7, <2>1
      <4>2. \A r, s \in Nat : r < s => MapToOriginal(r, cuts) < MapToOriginal(s, cuts)
        BY <1>5 DEF Rises
      <4> QED BY <1>3, <1>7, <4>1, <4>2
    <3>2. MapToOriginal(x.ad.end, cuts) \in Nat /\ t < MapToOriginal(x.ad.end, cuts)
      BY <1>5, <1>6, <1>7
    <3> QED BY <1>5, <3>1, <3>2
  <2> QED BY <1>3, <1>7, <2>1
<1> QED BY <1>2, <1>3, <1>8, <1>9, CandidateIsAsked
-----------------------------------------------------------------------------
(* The second pass.                                                          *)

\* What the second pass does, with what it asks for.
SecondDone(W, second, plan) ==
  /\ W \subseteq Spans(Duration) /\ hard' = W
  /\ [i \in DOMAIN second |-> second[i].ad] \in Seq(AdT)
  /\ Separate([i \in DOMAIN second |-> second[i].ad])
  /\ Planned(plan, Duration)
  /\ RecutProcessed(second, W) \/ Rerender(plan, second, W)

\* Its candidates are requests of the processed file, and its plan of the original.
LEMMA SecondPassIs ==
  ASSUME CutAssumption, ~ Overlaps, CutInv, FillersFit, SecondPass
  PROVE  \E W, second, plan, found : SecondDone(W, second, plan) /\ SecondFor(found, second)
<1> DEFINE n == Len(audio)
<1>1. /\ Duration \in Nat /\ MaxItems \in Nat /\ Kinds \subseteq AdKinds
      /\ FoundKinds \subseteq AdKinds
  BY DEF CutAssumption, FoundKinds
<1>2. /\ items \in 0 .. MaxItems /\ hard \subseteq Spans(Duration) /\ holds \subseteq Spans(Duration)
      /\ phase = "first" /\ audio = Render(Original, cuts)
      /\ Row(cuts, Duration) /\ cuts \in Seq(StampT)
      /\ n \in Nat
  BY DEF SecondPass, CutInv, FileOf, Row
<1>3. Exact(audio, cuts) /\ Back(cuts)
  <2>1. Fits(cuts)
    BY <1>2 DEF FillersFit, Fits, Length, Row
  <2>2. Exact(audio, cuts)
    BY <1>1, <1>2, <2>1, FileIsExact
  <2> QED BY <2>2 DEF Exact, Back
<1>4. PICK more \in Walls : \E found \in Requests(n, FoundKinds, Cardinality(more)) :
       LET walls == hard \cup more
       IN  /\ \E second \in {Candidates(found, walls, cuts)} \ {<<>>} :
                \E plan \in {CrossPlan(cuts, second, walls \cup holds, locks)} :
                  \/ plan = <<>> /\ RecutProcessed(second, walls)
                  \/ plan # <<>> /\ Rerender(plan, second, walls)
           /\ hard' = walls
           /\ asked' = asked \cup (Played(ToSet(found)) \ {Filler})
  BY DEF SecondPass, Played
<1>5. PICK found \in Requests(n, FoundKinds, Cardinality(more)) :
       LET walls == hard \cup more
       IN  /\ \E second \in {Candidates(found, walls, cuts)} \ {<<>>} :
                \E plan \in {CrossPlan(cuts, second, walls \cup holds, locks)} :
                  \/ plan = <<>> /\ RecutProcessed(second, walls)
                  \/ plan # <<>> /\ Rerender(plan, second, walls)
           /\ hard' = walls
           /\ asked' = asked \cup (Played(ToSet(found)) \ {Filler})
  BY <1>4
<1> DEFINE W == hard \cup more
           second == Candidates(found, W, cuts)
           plan == CrossPlan(cuts, second, W \cup holds, locks)
<1>6. /\ \/ RecutProcessed(second, W)
         \/ Rerender(plan, second, W)
      /\ hard' = W
      /\ asked' = asked \cup (Played(ToSet(found)) \ {Filler})
  BY <1>5
<1>7. more \subseteq Spans(Duration) /\ Cardinality(more) \in Nat
  BY WallsAre
<1>8. Asked(found, n) /\ Compatible(found)
  <2>1. found \in Requests(n, FoundKinds, Cardinality(more)) /\ items \in Nat
    BY <1>2, <1>5
  <2> HIDE DEF n
  <2> QED BY <1>1, <1>2, <1>7, <2>1, RequestsAre
<1>9. found \in Seq(AdT) /\ Len(found) \in Nat /\ Separate(found)
      /\ \A i \in 1 .. Len(found) : found[i].start < found[i].end
  <2>1. found \in Seq(AdT) /\ Len(found) \in Nat /\ \A i \in 1 .. Len(found) : found[i].start < found[i].end
    BY <1>8 DEF Asked
  <2> QED BY <1>8, <2>1, CompatibleSeparate
<1>10. W \subseteq Spans(Duration) /\ IsFiniteSet(W) /\ RealSpans(W)
  <2>1. W \subseteq Spans(Duration)
    BY <1>2, <1>7
  <2> QED BY <1>1, <2>1, SpansAreReal
<1> HIDE DEF W
<1>11. Candids(second, ToSet(found), cuts)
  BY <1>2, <1>3, <1>9, <1>10, CandidatesAre
<1> HIDE DEF second
<1>12. /\ second \in Seq(CandT)
       /\ [i \in DOMAIN second |-> second[i].ad] \in Seq(AdT)
       /\ Separate([i \in DOMAIN second |-> second[i].ad])
       /\ \A i \in 1 .. Len(second) : second[i].from < second[i].to /\ second[i].to <= Duration
  <2>1. \A t \in 0 .. n : MapToOriginal(t, cuts) <= Duration
    BY <1>3 DEF Exact
  <2> HIDE DEF n
  <2> QED BY <1>2, <1>3, <1>8, <1>9, <1>11, <2>1, SecondIs
<1>13. Planned(plan, Duration)
  BY <1>1, <1>2, <1>12, CrossPlanDoes
<1> HIDE DEF plan
<1>14. SecondDone(W, second, plan)
  BY <1>6, <1>10, <1>12, <1>13 DEF SecondDone
<1>15. SecondFor(found, second)
  BY <1>3, <1>6, <1>8, <1>11 DEF SecondFor
<1> QED BY <1>14, <1>15

\* No step takes what is kept off the air.
LEMMA KeptStep ==
  ASSUME CutAssumption, ~ Overlaps, CutInv, FillersFit, Next,
         NEW t \in Ticks(hard'), phase # "first" \/ t \in OnAir(audio)
  PROVE  t \in OnAir(audio')
<1>1. /\ hard \subseteq Spans(Duration) /\ holds \subseteq Spans(Duration)
      /\ WallInv
  BY DEF CutInv, WallInv
<1>2. CASE FirstPass
  <2>1. PICK W \in Walls, B \in Walls :
          \E ads \in Requests(Duration, Kinds, Cardinality(W) + Cardinality(B)) :
             FromOriginal(ads, B, W) /\ hard' = W
    BY <1>2 DEF FirstPass
  <2>2. PICK ads \in Requests(Duration, Kinds, Cardinality(W) + Cardinality(B)) :
             FromOriginal(ads, B, W) /\ hard' = W
    BY <2>1
  <2>3. /\ W \subseteq Spans(Duration) /\ Cardinality(W) \in Nat
        /\ B \subseteq Spans(Duration) /\ Cardinality(B) \in Nat
    BY WallsAre
  <2>4. ads \in Seq(AdT) /\ Separate(ads)
    <3> DEFINE others == Cardinality(W) + Cardinality(B)
    <3>1. others \in Nat /\ ads \in Requests(Duration, Kinds, others)
      BY <2>2, <2>3
    <3> HIDE DEF others
    <3>2. Asked(ads, Duration) /\ Separate(ads)
      BY <1>1, <3>1, RequestsSeparate
    <3> QED BY <3>2 DEF Asked
  <2>5. t \in Ticks(W) /\ FromOriginal(ads, B, W)
    BY <2>2
  <2> QED BY <2>3, <2>4, <2>5, KeptFromOriginal
<1>3. CASE Recut
  <2>1. PICK W \in Walls : \E ads \in Requests(Duration, Kinds, Cardinality(W)) :
             FromOriginal(ads, holds, hard \cup W) /\ hard' = hard \cup W
    BY <1>3 DEF Recut
  <2>2. PICK ads \in Requests(Duration, Kinds, Cardinality(W)) :
             FromOriginal(ads, holds, hard \cup W) /\ hard' = hard \cup W
    BY <2>1
  <2> DEFINE all == hard \cup W
  <2>3. Cardinality(W) \in Nat /\ all \subseteq Spans(Duration)
    BY <1>1, WallsAre
  <2>4. ads \in Seq(AdT) /\ Separate(ads)
    <3>1. Asked(ads, Duration) /\ Separate(ads)
      BY <1>1, <2>2, <2>3, RequestsSeparate
    <3> QED BY <3>1 DEF Asked
  <2>5. t \in Ticks(all) /\ FromOriginal(ads, holds, all)
    BY <2>2
  <2> HIDE DEF all
  <2> QED BY <1>1, <2>3, <2>4, <2>5, KeptFromOriginal
<1>4. CASE SecondPass
  <2>1. PICK W, second, plan, found : SecondDone(W, second, plan) /\ SecondFor(found, second)
    BY <1>4, SecondPassIs
  <2>2. /\ W \subseteq Spans(Duration) /\ t \in Ticks(W)
        /\ phase = "first" /\ t \in OnAir(audio)
    BY <1>4, <2>1 DEF SecondDone, SecondPass
  <2>3. CASE RecutProcessed(second, W)
    BY <2>1, <2>2, <2>3, KeptInProcessed DEF SecondDone
  <2>4. CASE Rerender(plan, second, W)
    <3>1. Restore(plan) \in Seq(AdT) /\ Separate(Restore(plan))
      BY <2>1 DEF SecondDone, Planned
    <3>2. FromOriginal(Restore(plan), holds, W)
      BY <2>4 DEF Rerender
    <3> QED BY <1>1, <2>2, <3>1, <3>2, KeptFromOriginal
  <2> QED BY <2>1, <2>3, <2>4 DEF SecondDone
<1>5. CASE KeepFirst
  BY <1>5 DEF KeepFirst
<1> QED BY <1>2, <1>3, <1>4, <1>5 DEF Next

\* KeptStaysOnAir: kept audio is never cut, and what was on the air when it came to be
\* kept stays there, whichever pass has to go around it, on whichever timeline.
THEOREM KeptStays ==
  ASSUME ~ Overlaps
  PROVE  Spec /\ []FillersFit => KeptStaysOnAir
<1> DEFINE Stays == \A t \in Ticks(hard') :
                      phase # "first" \/ t \in OnAir(audio) => t \in OnAir(audio')
<1>1. CutInv /\ FillersFit /\ [Next]_vars => [Stays]_vars
  BY CutAssumption, KeptStep
<1> QED BY <1>1, CutInvHolds, PTL DEF Spec, KeptStaysOnAir

\* With fillers of one tick the assumption about them is no assumption.
THEOREM ShortFillersKeptStays ==
  ASSUME ~ Overlaps, Beep = 1
  PROVE  Spec => KeptStaysOnAir
<1> DEFINE Stays == \A t \in Ticks(hard') :
                      phase # "first" \/ t \in OnAir(audio) => t \in OnAir(audio')
<1>1. CutInv /\ FillersFit /\ [Next]_vars => [Stays]_vars
  BY CutAssumption, KeptStep
<1> QED BY <1>1, ShortFillersHold, PTL DEF Spec, KeptStaysOnAir
-----------------------------------------------------------------------------
(* Held audio.                                                               *)

\* HeldIsAsked, tick by tick; only a second pass bridges silence.
HeldInv ==
  /\ \A t \in Ticks(holds) : t \in OnAir(audio) \cup asked \cup bridged
  /\ phase # "published" => bridged = {}

\* The second pass takes of what is held only what it asks for.
LEMMA HeldSecond ==
  ASSUME CutAssumption, CutInv, HeldInv, phase = "first",
         NEW W, NEW second, NEW plan, NEW found, SecondDone(W, second, plan), SecondFor(found, second),
         NEW t \in Ticks(holds)
  PROVE  t \in OnAir(audio') \cup asked' \cup bridged'
<1>1. bridged = {} /\ holds \subseteq Spans(Duration)
  BY DEF HeldInv, CutInv
<1>2. PICK w \in holds : t \in Nat /\ t \in 0 .. Duration - 1 /\ w.start <= t /\ t < w.end
  BY <1>1, KeptTick
<1>3. asked \subseteq asked'
  BY DEF SecondFor
<1>4. CASE t \notin OnAir(audio)
  BY <1>1, <1>3, <1>4 DEF HeldInv
<1>5. CASE t \in OnAir(audio) /\ RecutProcessed(second, W)
  <2> DEFINE ads == [i \in DOMAIN second |-> second[i].ad]
             B == InProcessed(holds, cuts)
             V == InProcessed(W, cuts)
             N == Len(audio)
  <2>1. ads \in Seq(AdT) /\ Separate(ads) /\ W \subseteq Spans(Duration)
    BY DEF SecondDone
  <2>2. PICK d, L, P : audio' = Render(audio, d) /\ Explains(d, L, P, ads, N, B, V)
    BY <1>5, <2>1, RecutExplained
  <2>3. PICK p \in Nat : /\ p + 1 \in 1 .. N /\ audio[p + 1] = t
                         /\ \E y \in B : y.start <= p /\ p < y.end
    BY <1>1, <1>5, KeptPlace
  <2>4. Duration \in Nat /\ cuts \in Seq(StampT) /\ N \in Nat
    BY DEF CutAssumption, CutInv, Row, FileOf
  <2>5. RealSpans(B)
    <3>1. IsFiniteSet(holds) /\ RealSpans(holds)
      BY <1>1, <2>4, SpansAreReal
    <3> QED BY <2>4, <3>1, ProcessedAre
  <2>6. second \in Seq(CandT)
    BY DEF SecondFor, Candids
  <2> HIDE DEF B, V
  <2>7. CASE Cutout(d, p)
    <3>1. p < N
      BY <2>3, <2>4
    <3>2. PICK a \in ToSet(ads) : a.start <= p /\ p < a.end
      <4> HIDE DEF ads
      <4> QED BY <2>1, <2>2, <2>3, <2>4, <2>5, <2>7, <3>1, HeldIsRequested
    <3>3. PICK i \in DOMAIN second : a = second[i].ad
      BY <3>2 DEF ToSet
    <3>4. second[i] \in ToSet(second) /\ second[i].ad.start <= p /\ p < second[i].ad.end
      BY <3>2, <3>3 DEF ToSet
    <3>5. t \in asked'
      BY <1>2, <2>3, <3>4, CandidateIsAsked
    <3> QED BY <3>5
  <2>8. CASE ~ Cutout(d, p)
    <3>1. Row(d, N)
      BY <2>2 DEF Explains
    <3>2. t \in OnAir(audio')
      <4> HIDE DEF ads
      <4> QED BY <1>2, <2>2, <2>3, <2>8, <3>1, PlaceIsPlayed
    <3> QED BY <3>2
  <2> QED BY <2>7, <2>8
<1>6. CASE t \in OnAir(audio) /\ Rerender(plan, second, W) /\ t \notin OnAir(audio')
  <2> DEFINE twins == {[start |-> second[i].from, end |-> second[i].to] : i \in DOMAIN second}
  <2>1. /\ FromOriginal(Restore(plan), holds, W)
        /\ bridged' = Ticks(ToSet(plan)) \ (Ticks(ToSet(cuts)) \cup Ticks(twins))
    BY <1>6 DEF Rerender
  <2>2. Restore(plan) \in Seq(AdT) /\ Separate(Restore(plan)) /\ W \subseteq Spans(Duration)
    BY DEF SecondDone, Planned
  <2>3. t \in Ticks(ToSet(Restore(plan)))
    BY <1>1, <1>6, <2>1, <2>2, HeldFromOriginal
  <2>4. t \in Ticks(ToSet(plan))
    <3>1. PICK a \in ToSet(Restore(plan)) : t \in a.start .. a.end - 1
      BY <2>3 DEF Ticks
    <3>2. PICK i \in DOMAIN plan : a.start = plan[i].start /\ a.end = plan[i].end
      BY <3>1 DEF Restore, ToSet
    <3>3. plan[i] \in ToSet(plan) /\ t \in plan[i].start .. plan[i].end - 1
      BY <3>1, <3>2 DEF ToSet
    <3> QED BY <3>3 DEF Ticks
  <2>5. t \notin Ticks(ToSet(cuts))
    <3>1. ASSUME t \in Ticks(ToSet(cuts)) PROVE FALSE
      <4>1. PICK k \in DOMAIN cuts : t \in cuts[k].start .. cuts[k].end - 1
        BY <3>1 DEF Ticks, ToSet
      <4>2. FileOf(audio, cuts, vcuts) /\ cuts \in Seq(StampT)
        BY DEF CutInv, Row
      <4>3. k \in 1 .. Len(cuts) /\ cuts[k] \in StampT
        BY <4>2
      <4>4. Cutout(cuts, t)
        <5>1. cuts[k].start \in Nat /\ cuts[k].end \in Nat
          BY <4>3 DEF StampT
        <5>2. cuts[k].start <= t /\ t < cuts[k].end
          BY <1>2, <4>1, <5>1
        <5> QED BY <4>3, <5>2 DEF Cutout
      <4>5. DOMAIN audio = 1 .. Len(audio)
        BY <4>2 DEF FileOf
      <4>6. \E q \in 1 .. Len(audio) : audio[q] = t
        BY <1>6, <4>5 DEF OnAir, ToSet
      <4> QED BY <1>2, <4>2, <4>4, <4>6 DEF FileOf
    <3> QED BY <3>1
  <2>6. CASE t \in Ticks(twins)
    <3>1. PICK i \in DOMAIN second : t \in second[i].from .. second[i].to - 1
      BY <2>6 DEF Ticks
    <3>2. second[i] \in ToSet(second) /\ second[i] \in CandT
      BY <3>1 DEF SecondFor, Candids, ToSet
    <3>3. second[i].from <= t /\ t < second[i].to
      <4>1. second[i].from \in Nat /\ second[i].to \in Nat
        BY <3>2 DEF CandT
      <4> QED BY <1>2, <3>1, <4>1
    <3>4. t \in asked'
      BY <1>2, <1>6, <3>2, <3>3, TwinIsAsked
    <3> QED BY <3>4
  <2>7. CASE t \notin Ticks(twins)
    <3> HIDE DEF twins
    <3> QED BY <2>1, <2>4, <2>5, <2>7
  <2> QED BY <2>6, <2>7
<1> QED BY <1>4, <1>5, <1>6 DEF SecondDone

\* No step takes what is held without a request for it.
LEMMA HeldStep ==
  ASSUME CutAssumption, ~ Overlaps, CutInv, FillersFit, HeldInv, Next
  PROVE  HeldInv'
<1>1. hard \subseteq Spans(Duration) /\ holds \subseteq Spans(Duration) /\ WallInv
  BY DEF CutInv, WallInv
<1>2. CASE FirstPass
  <2>1. PICK W \in Walls, B \in Walls :
          \E ads \in Requests(Duration, Kinds, Cardinality(W) + Cardinality(B)) :
             FromOriginal(ads, B, W) /\ holds' = B /\ asked' = Ticks(ToSet(ads))
    BY <1>2 DEF FirstPass
  <2>2. PICK ads \in Requests(Duration, Kinds, Cardinality(W) + Cardinality(B)) :
             FromOriginal(ads, B, W) /\ holds' = B /\ asked' = Ticks(ToSet(ads))
    BY <2>1
  <2>3. /\ W \subseteq Spans(Duration) /\ Cardinality(W) \in Nat
        /\ B \subseteq Spans(Duration) /\ Cardinality(B) \in Nat
    BY WallsAre
  <2>4. ads \in Seq(AdT) /\ Separate(ads)
    <3> DEFINE others == Cardinality(W) + Cardinality(B)
    <3>1. others \in Nat /\ ads \in Requests(Duration, Kinds, others)
      BY <2>2, <2>3
    <3> HIDE DEF others
    <3>2. Asked(ads, Duration) /\ Separate(ads)
      BY <1>1, <3>1, RequestsSeparate
    <3> QED BY <3>2 DEF Asked
  <2>5. \A t \in Ticks(B) : t \in OnAir(audio') \cup Ticks(ToSet(ads))
    BY <2>2, <2>3, <2>4, HeldFromOriginal
  <2>6. phase' = "first" /\ bridged' = bridged /\ phase = "new"
    BY <1>2 DEF FirstPass
  <2> QED BY <2>2, <2>5, <2>6 DEF HeldInv
<1>3. CASE Recut
  <2>1. PICK W \in Walls : \E ads \in Requests(Duration, Kinds, Cardinality(W)) :
             FromOriginal(ads, holds, hard \cup W) /\ asked' = Ticks(ToSet(ads))
    BY <1>3 DEF Recut
  <2>2. PICK ads \in Requests(Duration, Kinds, Cardinality(W)) :
             FromOriginal(ads, holds, hard \cup W) /\ asked' = Ticks(ToSet(ads))
    BY <2>1
  <2> DEFINE all == hard \cup W
  <2>3. Cardinality(W) \in Nat /\ all \subseteq Spans(Duration)
    BY <1>1, WallsAre
  <2>4. ads \in Seq(AdT) /\ Separate(ads)
    <3>1. Asked(ads, Duration) /\ Separate(ads)
      BY <1>1, <2>2, <2>3, RequestsSeparate
    <3> QED BY <3>1 DEF Asked
  <2>5. FromOriginal(ads, holds, all)
    BY <2>2
  <2> HIDE DEF all
  <2>6. \A t \in Ticks(holds) : t \in OnAir(audio') \cup Ticks(ToSet(ads))
    BY <1>1, <2>3, <2>4, <2>5, HeldFromOriginal
  <2>7. holds' = holds /\ phase' = "published"
    BY <1>3 DEF Recut
  <2> QED BY <2>2, <2>6, <2>7 DEF HeldInv
<1>4. CASE SecondPass
  <2>1. PICK W, second, plan, found : SecondDone(W, second, plan) /\ SecondFor(found, second)
    BY <1>4, SecondPassIs
  <2>2. phase = "first" /\ holds' = holds
    BY <1>4 DEF SecondPass
  <2>3. \A t \in Ticks(holds) : t \in OnAir(audio') \cup asked' \cup bridged'
    BY <2>1, <2>2, HeldSecond
  <2>4. phase' = "published"
    BY <2>1 DEF SecondDone, RecutProcessed, Rerender, Publish
  <2> QED BY <2>2, <2>3, <2>4 DEF HeldInv
<1>5. CASE KeepFirst
  BY <1>5 DEF KeepFirst, Publish, HeldInv, OnAir
<1> QED BY <1>2, <1>3, <1>4, <1>5 DEF Next

\* Nor does a stutter.
LEMMA HeldStutter ==
  ASSUME HeldInv, UNCHANGED vars
  PROVE  HeldInv'
<1>1. /\ holds' = holds /\ audio' = audio /\ asked' = asked /\ bridged' = bridged
      /\ phase' = phase
  BY DEF vars
<1> QED BY <1>1 DEF HeldInv, OnAir

\* Nothing is held at first.
LEMMA HeldInit ==
  ASSUME Init
  PROVE  HeldInv
<1>1. Ticks({}) = {}
  BY DEF Ticks
<1> QED BY <1>1 DEF Init, HeldInv

\* HeldIsAsked: of what is held, no render takes anything that no request covers, nor
\* closes a gap over it or trims the end over it, on either timeline.
THEOREM HeldIsKept ==
  ASSUME ~ Overlaps
  PROVE  Spec /\ []FillersFit => []HeldIsAsked
<1>1. Init => HeldInv
  BY HeldInit
<1>2. CutInv /\ FillersFit /\ HeldInv /\ [Next]_vars => HeldInv'
  BY CutAssumption, HeldStep, HeldStutter
<1>3. HeldInv => HeldIsAsked
  BY DEF HeldInv, HeldIsAsked, Unasked
<1> QED BY <1>1, <1>2, <1>3, CutInvHolds, PTL DEF Spec

\* With fillers of one tick the assumption about them is no assumption.
THEOREM ShortFillersHeldIsKept ==
  ASSUME ~ Overlaps, Beep = 1
  PROVE  Spec => []HeldIsAsked
<1> QED BY HeldIsKept, ShortFillersHold, PTL
=============================================================================
