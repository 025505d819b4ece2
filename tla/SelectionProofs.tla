-------------------------- MODULE SelectionProofs --------------------------
(***************************************************************************)
(* What Selected returns: a subsequence, found by an increasing map of its *)
(* positions into those of the sequence, that leaves out nothing of what   *)
(* is selected.                                                            *)
(***************************************************************************)
EXTENDS Selections, WellFoundedInduction, TLAPS

-----------------------------------------------------------------------------
(* Induction, over a set of numbers                                          *)

LEMMA Least ==
  ASSUME NEW N \in SUBSET Nat, N # {}
  PROVE  \E n \in N : \A k \in N : n <= k
<1>1. PICK n \in N : \A k \in N : ~(<<k, n>> \in OpToRel(<, Nat))
  BY NatLessThanWellFounded, WFMin
<1>2. \A k \in N : ~(k < n)
  BY <1>1 DEF OpToRel
<1> QED BY <1>2

\* What holds at the start and goes on holds everywhere.
LEMMA GoesOnUpTo ==
  ASSUME NEW m \in Nat, NEW N, 0 \in N, \A n \in 0..m : n + 1 \in 0..m /\ n \in N => n + 1 \in N
  PROVE  0..m \subseteq N
<1> DEFINE W == {n \in 0..m : n \notin N}
<1> SUFFICES ASSUME W # {} PROVE FALSE
  OBVIOUS
<1>1. W \in SUBSET Nat
  OBVIOUS
<1> HIDE DEF W
<1>2. PICK n \in W : \A k \in W : n <= k
  BY <1>1, Least
<1>3. n \in 0..m /\ n \notin N /\ n - 1 \notin W
  BY <1>1, <1>2 DEF W
<1>4. n - 1 \in 0..m /\ n - 1 \in N
  BY <1>3 DEF W
<1> QED BY <1>3, <1>4

-----------------------------------------------------------------------------
(* The recursive function exists                                             *)

\* F is what Selected defines, for the first n elements.
Selects(F, n, s, S) ==
  F = [i \in 0..n |-> IF i = 0 THEN <<>>
                      ELSE IF s[i] \in S THEN Append(F[i - 1], s[i]) ELSE F[i - 1]]

LEMMA SelectsMore ==
  ASSUME NEW n \in Nat, NEW s, NEW S, NEW F, Selects(F, n, s, S)
  PROVE  \E G : Selects(G, n + 1, s, S)
<1> DEFINE last == IF s[n + 1] \in S THEN Append(F[n], s[n + 1]) ELSE F[n]
           G == [i \in 0..(n + 1) |-> IF i = n + 1 THEN last ELSE F[i]]
<1>1. DOMAIN F = 0..n
  BY DEF Selects
<1>2. \A i \in 0..(n + 1) : i = n + 1 \/ i \in 0..n
  OBVIOUS
<1>3. ASSUME NEW i \in 0..(n + 1)
      PROVE  G[i] = IF i = 0 THEN <<>>
                    ELSE IF s[i] \in S THEN Append(G[i - 1], s[i]) ELSE G[i - 1]
  <2>1. CASE i = n + 1
    BY <2>1
  <2>2. CASE i \in 0..n
    <3>1. G[i] = F[i] /\ (i # 0 => i - 1 \in 0..n /\ G[i - 1] = F[i - 1])
      BY <2>2
    <3>2. F[i] = IF i = 0 THEN <<>>
                 ELSE IF s[i] \in S THEN Append(F[i - 1], s[i]) ELSE F[i - 1]
      BY <2>2 DEF Selects
    <3> HIDE DEF G
    <3> QED BY <3>1, <3>2
  <2> QED BY <1>2, <2>1, <2>2
<1>4. G = [i \in 0..(n + 1) |-> G[i]]
  OBVIOUS
<1> HIDE DEF G
<1>5. Selects(G, n + 1, s, S)
  BY <1>3, <1>4 DEF Selects
<1> QED BY <1>5

LEMMA SelectedIs ==
  ASSUME NEW T, NEW s \in Seq(T), NEW S
  PROVE  \E F : Selects(F, Len(s), s, S) /\ Selected(s, S) = F[Len(s)]
<1> DEFINE N == {n \in Nat : \E F : Selects(F, n, s, S)}
<1>1. 0 \in N
  <2>1. Selects([i \in 0..0 |-> <<>>], 0, s, S)
    BY DEF Selects
  <2> QED BY <2>1
<1>2. \A n \in 0..Len(s) : n + 1 \in 0..Len(s) /\ n \in N => n + 1 \in N
  BY SelectsMore
<1>3. Len(s) \in Nat /\ Len(s) \in 0..Len(s)
  OBVIOUS
<1> HIDE DEF N
<1>4. 0..Len(s) \subseteq N
  BY <1>1, <1>2, <1>3, GoesOnUpTo
<1>5. \E F : Selects(F, Len(s), s, S)
  BY <1>3, <1>4 DEF N
<1> DEFINE C == CHOOSE F : Selects(F, Len(s), s, S)
<1>6. Selects(C, Len(s), s, S)
  BY <1>5
<1>7. Selected(s, S) = C[Len(s)]
  BY DEF Selected, Selects
<1> HIDE DEF C
<1> QED BY <1>6, <1>7

-----------------------------------------------------------------------------
(* What it returns                                                           *)

\* f takes the positions of r to those of the elements of the first n of s that are in S.
Finds(f, r, n, s, S) ==
  /\ f \in [1..Len(r) -> 1..n]
  /\ \A a \in 1..Len(r) : r[a] = s[f[a]] /\ s[f[a]] \in S
  /\ \A a, b \in 1..Len(r) : a < b => f[a] < f[b]
  /\ \A i \in 1..n : s[i] \in S => \E a \in 1..Len(r) : f[a] = i

LEMMA FindsMore ==
  ASSUME NEW T, NEW s \in Seq(T), NEW S, NEW n \in Nat, n + 1 <= Len(s),
         NEW r \in Seq(T), NEW f, Finds(f, r, n, s, S),
         NEW q, q = IF s[n + 1] \in S THEN Append(r, s[n + 1]) ELSE r
  PROVE  q \in Seq(T) /\ \E g : Finds(g, q, n + 1, s, S)
<1>0. Len(r) \in Nat /\ s[n + 1] \in T
  OBVIOUS
<1>1. CASE s[n + 1] \notin S
  <2>1. q = r /\ \A i \in 1..(n + 1) : s[i] \in S => i \in 1..n
    BY <1>1
  <2>2. Finds(f, q, n + 1, s, S)
    <3>1. f \in [1..Len(r) -> 1..(n + 1)]
      BY DEF Finds
    <3> QED BY <2>1, <3>1 DEF Finds
  <2> QED BY <2>1, <2>2
<1>2. CASE s[n + 1] \in S
  <2> DEFINE m == Len(r) + 1
             g == [a \in 1..m |-> IF a = m THEN n + 1 ELSE f[a]]
  <2>1. /\ q \in Seq(T) /\ Len(q) = m /\ q[m] = s[n + 1] /\ \A a \in 1..Len(r) : q[a] = r[a]
        /\ \A a \in 1..m : a = m \/ a \in 1..Len(r)
    BY <1>0, <1>2
  <2>2. /\ \A a \in 1..Len(r) : g[a] = f[a] /\ f[a] \in 1..n /\ a \in 1..m
        /\ g[m] = n + 1 /\ m \in 1..m /\ DOMAIN g = 1..m
    BY <1>0 DEF Finds
  <2>3. g \in [1..m -> 1..(n + 1)]
    <3>1. ASSUME NEW a \in 1..m PROVE (IF a = m THEN n + 1 ELSE f[a]) \in 1..(n + 1)
      <4>1. CASE a = m
        BY <4>1
      <4>2. CASE a # m
        <5>1. a \in 1..Len(r)
          BY <1>0, <4>2
        <5>2. f[a] \in 1..n
          BY <5>1 DEF Finds
        <5> QED BY <4>2, <5>2
      <4> QED BY <4>1, <4>2
    <3> QED BY <3>1
  <2> HIDE DEF g
  <2>4. \A a \in 1..m : q[a] = s[g[a]] /\ s[g[a]] \in S
    BY <1>2, <2>1, <2>2 DEF Finds
  <2>5. \A a, b \in 1..m : a < b => g[a] < g[b]
    <3> SUFFICES ASSUME NEW a \in 1..m, NEW b \in 1..m, a < b PROVE g[a] < g[b]
      OBVIOUS
    <3>1. a \in 1..Len(r)
      BY <1>0
    <3>2. CASE b = m
      BY <2>2, <3>1, <3>2
    <3>3. CASE b \in 1..Len(r)
      BY <2>2, <3>1, <3>3 DEF Finds
    <3> QED BY <2>1, <3>2, <3>3
  <2>6. \A i \in 1..(n + 1) : s[i] \in S => \E a \in 1..m : g[a] = i
    <3> SUFFICES ASSUME NEW i \in 1..(n + 1), s[i] \in S PROVE \E a \in 1..m : g[a] = i
      OBVIOUS
    <3>1. CASE i = n + 1
      BY <2>2, <3>1
    <3>2. CASE i \in 1..n
      <4>1. PICK a \in 1..Len(r) : f[a] = i
        BY <3>2 DEF Finds
      <4> QED BY <2>2, <4>1
    <3> QED BY <3>1, <3>2
  <2>7. Finds(g, q, n + 1, s, S)
    BY <2>1, <2>3, <2>4, <2>5, <2>6 DEF Finds
  <2> QED BY <2>1, <2>7
<1> QED BY <1>1, <1>2

\* The selection is a sequence of the same kind, and there is a map into the
\* sequence that finds it.
LEMMA SelectedFound ==
  ASSUME NEW T, NEW s \in Seq(T), NEW S
  PROVE  Selected(s, S) \in Seq(T) /\ \E f : Finds(f, Selected(s, S), Len(s), s, S)
<1>1. PICK F : Selects(F, Len(s), s, S) /\ Selected(s, S) = F[Len(s)]
  BY SelectedIs
<1> DEFINE N == {n \in 0..Len(s) : F[n] \in Seq(T) /\ \E f : Finds(f, F[n], n, s, S)}
<1>2. /\ Len(s) \in Nat /\ F[0] = <<>>
      /\ \A n \in 1..Len(s) : F[n] = IF s[n] \in S THEN Append(F[n - 1], s[n]) ELSE F[n - 1]
  <2>1. \A n \in 0..Len(s) : F[n] = IF n = 0 THEN <<>>
                                   ELSE IF s[n] \in S THEN Append(F[n - 1], s[n]) ELSE F[n - 1]
    BY <1>1 DEF Selects
  <2>2. Len(s) \in Nat /\ 0 \in 0..Len(s) /\ \A n \in 1..Len(s) : n \in 0..Len(s) /\ n # 0
    OBVIOUS
  <2>3. F[0] = <<>>
    BY <2>1, <2>2
  <2>4. ASSUME NEW n \in 1..Len(s)
        PROVE  F[n] = IF s[n] \in S THEN Append(F[n - 1], s[n]) ELSE F[n - 1]
    <3>1. n \in 0..Len(s) /\ n # 0
      BY <2>2
    <3> QED BY <2>1, <3>1
  <2> QED BY <2>2, <2>3, <2>4
<1>3. 0 \in N
  <2>1. Finds([a \in {} |-> 0], <<>>, 0, s, S)
    BY DEF Finds
  <2>2. <<>> \in Seq(T)
    OBVIOUS
  <2>3. F[0] \in Seq(T) /\ \E f : Finds(f, F[0], 0, s, S)
    BY <1>2, <2>1, <2>2
  <2>4. 0 \in 0..Len(s)
    BY <1>2
  <2> HIDE DEF N
  <2> QED BY <2>3, <2>4 DEF N
<1>4. ASSUME NEW n \in 0..Len(s), n + 1 \in 0..Len(s), n \in N PROVE n + 1 \in N
  <2>1. /\ n \in Nat /\ n + 1 <= Len(s) /\ n + 1 \in 1..Len(s)
        /\ F[n] \in Seq(T) /\ \E f : Finds(f, F[n], n, s, S)
    BY <1>2, <1>4
  <2>2. F[n + 1] = IF s[n + 1] \in S THEN Append(F[n], s[n + 1]) ELSE F[n]
    BY <1>2, <2>1
  <2>3. F[n + 1] \in Seq(T) /\ \E f : Finds(f, F[n + 1], n + 1, s, S)
    BY <2>1, <2>2, FindsMore
  <2> QED BY <1>4, <2>3
<1> HIDE DEF N
<1>5. 0..Len(s) \subseteq N
  BY <1>2, <1>3, <1>4, GoesOnUpTo
<1>6. Len(s) \in N
  BY <1>2, <1>5
<1> QED BY <1>1, <1>6 DEF N

\* Its elements are those of the sequence that are selected.
LEMMA SelectedElements ==
  ASSUME NEW T, NEW s \in Seq(T), NEW S, NEW r, r = Selected(s, S)
  PROVE  /\ r \in Seq(T)
         /\ \A a \in 1..Len(r) : r[a] \in S /\ \E i \in 1..Len(s) : s[i] = r[a]
         /\ \A i \in 1..Len(s) : s[i] \in S => \E a \in 1..Len(r) : r[a] = s[i]
<1>1. r \in Seq(T) /\ \E f : Finds(f, r, Len(s), s, S)
  BY SelectedFound
<1>2. PICK f : Finds(f, r, Len(s), s, S)
  BY <1>1
<1>3. ASSUME NEW a \in 1..Len(r) PROVE f[a] \in 1..Len(s) /\ r[a] = s[f[a]] /\ r[a] \in S
  BY <1>2 DEF Finds
<1>4. ASSUME NEW i \in 1..Len(s), s[i] \in S PROVE \E a \in 1..Len(r) : r[a] = s[i]
  BY <1>2, <1>4 DEF Finds
<1> QED BY <1>1, <1>3, <1>4

\* The order of what is selected is that of the sequence.
LEMMA SelectedOrder ==
  ASSUME NEW T, NEW s \in Seq(T), NEW S, NEW r, r = Selected(s, S),
         NEW a \in 1..Len(r), NEW b \in 1..Len(r), a < b
  PROVE  \E i, j \in 1..Len(s) : i < j /\ s[i] = r[a] /\ s[j] = r[b]
<1>1. PICK f : Finds(f, r, Len(s), s, S)
  BY SelectedFound
<1>2. /\ f[a] \in 1..Len(s) /\ f[b] \in 1..Len(s) /\ f[a] < f[b]
      /\ s[f[a]] = r[a] /\ s[f[b]] = r[b]
  BY <1>1 DEF Finds
<1> QED BY <1>2
=============================================================================
