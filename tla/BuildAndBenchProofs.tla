------------------------ MODULE BuildAndBenchProofs ------------------------
(***************************************************************************)
(* Proofs about the driver, for every list of runtimes and benchmarks,     *)
(* every machine and every sequence of builds and runs that fail.          *)
(***************************************************************************)
EXTENDS BuildAndBench, FiniteSetTheorems, FunctionTheorems, WellFoundedInduction, TLAPS

(* Every set of numbers that is not empty has a least one.                 *)
LEMMA Least ==
  ASSUME NEW T, T \subseteq Nat, T # {}
  PROVE  \E n \in T : \A m \in T : n =< m
<1>1. IsWellFoundedOn(OpToRel(<, Nat), Nat)
  BY NatLessThanWellFounded
<1>2. PICK n \in T : \A m \in T : ~ (<<m, n>> \in OpToRel(<, Nat))
  BY <1>1, WFMin
<1>3. \A m \in T : ~ (m < n)
  BY <1>2 DEF OpToRel
<1> QED BY <1>3

(* The minimum of a set of numbers is its least member.                    *)
LEMMA MinFacts ==
  ASSUME NEW T, T \subseteq Nat, T # {}
  PROVE  Min(T) \in T /\ \A m \in T : Min(T) =< m
BY Least DEF Min

(* A member that no other exceeds is the maximum.                          *)
LEMMA MaxFacts ==
  ASSUME NEW T, T \subseteq Nat, NEW n \in T, \A m \in T : m =< n
  PROVE  Max(T) = n
<1>1. \A x \in T : x \in Nat /\ ((\A y \in T : x >= y) <=> x = n)
  OBVIOUS
<1> QED BY <1>1 DEF Max

-----------------------------------------------------------------------------
(* A function that is defined from what it is for the number before.       *)
Recursive(S, base, step, n) ==
  \E f \in [0 .. n -> S] :
    f[0] = base /\ \A i \in 1 .. n : f[i] = step[<<i, f[i-1]>>]

(* There is such a function, whatever the step: Folds defines by one.      *)
LEMMA Recursion ==
  ASSUME NEW S, NEW base \in S, NEW step \in [Nat \X S -> S], NEW n \in Nat
  PROVE  Recursive(S, base, step, n)
<1> DEFINE Is(f, m) == f[0] = base /\ \A i \in 1 .. m : f[i] = step[<<i, f[i-1]>>]
           Bad == {m \in Nat : ~ \E f \in [0 .. m -> S] : Is(f, m)}
<1>1. SUFFICES ASSUME Bad # {} PROVE FALSE
  BY DEF Recursive
<1>2. PICK m \in Bad : \A k \in Bad : m =< k
  <2>1. Bad \subseteq Nat
    OBVIOUS
  <2> HIDE DEF Bad
  <2> QED BY <1>1, <2>1, Least
<1>3. m # 0
  <2>1. [i \in 0 .. 0 |-> base] \in [0 .. 0 -> S] /\ Is([i \in 0 .. 0 |-> base], 0)
    OBVIOUS
  <2> QED BY <2>1
<1>4. m - 1 \in Nat /\ m - 1 \notin Bad
  BY <1>2, <1>3
<1>5. PICK g \in [0 .. m-1 -> S] : Is(g, m-1)
  BY <1>4
<1> DEFINE f == [i \in 0 .. m |-> IF i = m THEN step[<<m, g[m-1]>>] ELSE g[i]]
<1>6. f \in [0 .. m -> S]
  <2>1. \A i \in 0 .. m : i # m => i \in 0 .. m-1
    BY <1>4
  <2>2. m-1 \in 0 .. m-1 /\ m \in Nat \ {0}
    BY <1>3, <1>4
  <2>3. step[<<m, g[m-1]>>] \in S
    BY <1>5, <2>2
  <2> QED BY <1>5, <2>1, <2>3
<1>7. f[0] = base
  BY <1>3, <1>5
<1>8. ASSUME NEW i \in 1 .. m PROVE f[i] = step[<<i, f[i-1]>>]
  <2>1. CASE i = m
    <3>1. i-1 \in 0 .. m /\ i-1 # m /\ i \in 0 .. m
      BY <1>4, <2>1
    <3>2. f[i] = step[<<m, g[m-1]>>] /\ f[i-1] = g[i-1]
      BY <2>1, <3>1
    <3> QED BY <2>1, <3>2
  <2>2. CASE i # m
    <3>1. i \in 1 .. m-1 /\ i - 1 \in 0 .. m-1 /\ i - 1 # m /\ i - 1 \in 0 .. m /\ i \in 0 .. m
      BY <1>4, <2>2
    <3>2. g[i] = step[<<i, g[i-1]>>]
      BY <1>5, <3>1
    <3> QED BY <2>2, <3>1, <3>2
  <2> QED BY <2>1, <2>2
<1>9. Is(f, m)
  BY <1>7, <1>8
<1> QED
  <2> HIDE DEF f, Is
  <2> QED BY <1>2, <1>6, <1>9

(* The elements of FlattenSeq(seqs) are those of its sequences, in order:  *)
(* the k-th is the v[k]-th of the u[k]-th.                                 *)
Come(flat, seqs, n) ==
  \E u, v \in [1 .. Len(flat) -> Nat] :
    /\ \A k \in 1 .. Len(flat) :
         /\ u[k] \in 1 .. n /\ v[k] \in 1 .. Len(seqs[u[k]])
         /\ flat[k] = seqs[u[k]][v[k]]
    /\ \A k, l \in 1 .. Len(flat) :
         k < l => u[k] < u[l] \/ (u[k] = u[l] /\ v[k] < v[l])

(* Flattening keeps the sequences' members, in their order.                *)
LEMMA FlattenFacts ==
  ASSUME NEW S, NEW seqs \in Seq(Seq(S))
  PROVE  FlattenSeq(seqs) \in Seq(S) /\ Come(FlattenSeq(seqs), seqs, Len(seqs))
<1>1. CASE Len(seqs) = 0
  <2>1. FlattenSeq(seqs) = seqs /\ seqs = <<>>
    BY <1>1 DEF FlattenSeq
  <2>2. Come(<<>>, seqs, Len(seqs))
    <3> DEFINE e == [k \in 1 .. Len(<<>>) |-> 0]
    <3>1. 1 .. Len(<<>>) = {} /\ e \in [1 .. Len(<<>>) -> Nat]
      OBVIOUS
    <3> HIDE DEF e
    <3> QED BY <3>1 DEF Come
  <2> QED BY <2>1, <2>2
<1>2. CASE Len(seqs) # 0
  <2> DEFINE L == Len(seqs)
             Turn(g) == [i \in 1 .. L |-> IF i = 1 THEN seqs[i] ELSE g[i-1] \o seqs[i]]
             glue == [p \in Nat \X Seq(S) |->
                        IF p[1] \in 1 .. L THEN p[2] \o seqs[p[1]] ELSE p[2]]
  <2>1. L \in Nat /\ L > 0 /\ \A i \in 1 .. L : seqs[i] \in Seq(S)
    BY <1>2
  <2>2. \E g : g = Turn(g)
    <3>1. glue \in [Nat \X Seq(S) -> Seq(S)]
      BY <2>1
    <3>2. <<>> \in Seq(S)
      OBVIOUS
    <3>3. PICK f \in [0 .. L -> Seq(S)] :
            f[0] = <<>> /\ \A i \in 1 .. L : f[i] = glue[<<i, f[i-1]>>]
      <4> DEFINE T == Seq(S)
                 none == <<>>
      <4>1. glue \in [Nat \X T -> T] /\ none \in T /\ L \in Nat
        BY <2>1, <3>1, <3>2
      <4>2. Recursive(T, none, glue, L)
        <5> HIDE DEF glue, L, T, none
        <5> QED BY <4>1, Recursion
      <4> HIDE DEF glue, L
      <4> QED BY <4>2 DEF Recursive
    <3> DEFINE g == [i \in 1 .. L |-> f[i]]
    <3>4. ASSUME NEW i \in 1 .. L PROVE g[i] = Turn(g)[i]
      <4> HIDE DEF glue, L
      <4>0. i - 1 \in 0 .. L /\ i \in Nat
        BY <2>1
      <4>1. i - 1 \in 0 .. L /\ i \in Nat /\ f[i-1] \in Seq(S) /\ seqs[i] \in Seq(S)
        BY <2>1, <3>3, <4>0
      <4> USE DEF glue
      <4>2. f[i] = f[i-1] \o seqs[i]
        BY <3>3, <4>1
      <4>3. CASE i = 1
        <5>1. f[i-1] = <<>>
          BY <3>3, <4>3
        <5>2. f[i] = seqs[i]
          BY <4>1, <4>2, <5>1
        <5> QED BY <4>3, <5>2
      <4>4. CASE i # 1
        <5>1. i - 1 \in 1 .. L
          BY <4>1, <4>4
        <5> QED BY <4>2, <4>4, <5>1
      <4> QED BY <4>3, <4>4
    <3>5. g = Turn(g)
      <4> HIDE DEF L
      <4> QED BY <3>4
    <3> QED BY <3>5
  <2>3. PICK g : g = Turn(g) /\ FlattenSeq(seqs) = g[L]
    BY <1>2, <2>2 DEF FlattenSeq
  <2> DEFINE Good(n) == g[n] \in Seq(S) /\ Come(g[n], seqs, n)
             Bad == {n \in 1 .. L : ~ Good(n)}
  <2>4. SUFFICES Bad = {}
    <3>1. L \in 1 .. L
      BY <2>1
    <3>2. Good(L)
      BY <3>1, <2>4
    <3> QED BY <3>2, <2>3
  <2>5. SUFFICES ASSUME Bad # {} PROVE FALSE
    OBVIOUS
  <2>6. PICK n \in Bad : \A m \in Bad : n =< m
    <3>1. Bad \subseteq Nat
      BY <2>1
    <3> HIDE DEF Bad
    <3> QED BY <2>5, <3>1, Least
  <2>7. n \in 1 .. L /\ n \in Nat /\ seqs[n] \in Seq(S)
        /\ g[n] = IF n = 1 THEN seqs[n] ELSE g[n-1] \o seqs[n]
    <3>1. n \in 1 .. L
      BY <2>6
    <3>2. Turn(g)[n] = IF n = 1 THEN seqs[n] ELSE g[n-1] \o seqs[n]
      BY <3>1
    <3> HIDE DEF L, Turn, Bad
    <3> QED BY <2>1, <2>3, <3>1, <3>2
  <2> HIDE DEF Turn, L
  <2>8. CASE n = 1
    <3>1. g[n] = seqs[1] /\ seqs[1] \in Seq(S)
      BY <2>7, <2>8
    <3> DEFINE u == [k \in 1 .. Len(g[n]) |-> 1]
               v == [k \in 1 .. Len(g[n]) |-> k]
    <3>2. u \in [1 .. Len(g[n]) -> Nat] /\ v \in [1 .. Len(g[n]) -> Nat]
      BY <3>1
    <3>3. \A k \in 1 .. Len(g[n]) : u[k] = 1 /\ v[k] = k
      OBVIOUS
    <3> HIDE DEF Bad, u, v
    <3>4. \A k \in 1 .. Len(g[n]) : k \in Nat /\ u[k] \in 1 .. n /\ v[k] \in 1 .. Len(seqs[u[k]])
                /\ g[n][k] = seqs[u[k]][v[k]]
      BY <2>8, <3>1, <3>3
    <3>5. \A k, l \in 1 .. Len(g[n]) : k < l => u[k] = u[l] /\ v[k] < v[l]
      BY <3>3, <3>4
    <3>6. Come(g[n], seqs, n)
      BY <3>2, <3>4, <3>5 DEF Come
    <3>7. Good(n)
      BY <3>1, <3>6
    <3> HIDE DEF Good
    <3> QED BY <2>6, <3>7 DEF Bad
  <2>9. CASE n # 1
    <3>1. n - 1 \in 1 .. L /\ n - 1 \notin Bad
      <4>1. n - 1 \in 1 .. L /\ n - 1 < n
        BY <2>1, <2>7, <2>9
      <4> HIDE DEF Bad
      <4> QED BY <2>6, <2>7, <4>1
    <3>2. Good(n-1)
      BY <3>1
    <3> HIDE DEF Bad
    <3> DEFINE old == g[n-1]
               new == g[n]
    <3>3. old \in Seq(S) /\ Len(old) \in Nat /\ Come(old, seqs, n-1)
          /\ new = old \o seqs[n] /\ new \in Seq(S)
          /\ Len(seqs[n]) \in Nat /\ Len(new) = Len(old) + Len(seqs[n])
          /\ \A k \in 1 .. Len(new) :
               new[k] = IF k =< Len(old) THEN old[k] ELSE seqs[n][k - Len(old)]
      <4>1. old \in Seq(S) /\ Come(old, seqs, n-1) /\ new = old \o seqs[n] /\ seqs[n] \in Seq(S)
        BY <2>7, <2>9, <3>2
      <4> HIDE DEF old, new
      <4> QED BY <4>1
    <3> HIDE DEF old, new
    <3>4. PICK u, v \in [1 .. Len(old) -> Nat] :
            /\ \A k \in 1 .. Len(old) :
                 /\ u[k] \in 1 .. n-1 /\ v[k] \in 1 .. Len(seqs[u[k]])
                 /\ old[k] = seqs[u[k]][v[k]]
            /\ \A k, l \in 1 .. Len(old) :
                 k < l => u[k] < u[l] \/ (u[k] = u[l] /\ v[k] < v[l])
      BY <3>3 DEF Come
    <3> DEFINE uu == [k \in 1 .. Len(new) |-> IF k =< Len(old) THEN u[k] ELSE n]
               vv == [k \in 1 .. Len(new) |-> IF k =< Len(old) THEN v[k] ELSE k - Len(old)]
    <3>5. /\ uu \in [1 .. Len(new) -> Nat] /\ vv \in [1 .. Len(new) -> Nat]
          /\ \A k \in 1 .. Len(new) :
               /\ uu[k] = IF k =< Len(old) THEN u[k] ELSE n
               /\ vv[k] = IF k =< Len(old) THEN v[k] ELSE k - Len(old)
      BY <2>7, <3>3
    <3> HIDE DEF uu, vv
    <3>6. ASSUME NEW k \in 1 .. Len(new)
          PROVE  /\ uu[k] \in 1 .. n /\ vv[k] \in 1 .. Len(seqs[uu[k]])
                 /\ new[k] = seqs[uu[k]][vv[k]]
      <4>1. CASE k =< Len(old)
        BY <2>7, <3>3, <3>4, <3>5, <4>1, SMTT(30)
      <4>2. CASE ~ (k =< Len(old))
        BY <2>7, <3>3, <3>5, <4>2, SMTT(30)
      <4> QED BY <4>1, <4>2
    <3>7. ASSUME NEW k \in 1 .. Len(new), NEW l \in 1 .. Len(new), k < l
          PROVE  uu[k] < uu[l] \/ (uu[k] = uu[l] /\ vv[k] < vv[l])
      <4>1. CASE l =< Len(old)
        BY <3>3, <3>4, <3>5, <3>7, <4>1
      <4>2. CASE k =< Len(old) /\ ~ (l =< Len(old))
        BY <2>7, <3>3, <3>4, <3>5, <4>2
      <4>3. CASE ~ (k =< Len(old)) /\ ~ (l =< Len(old))
        BY <3>3, <3>5, <3>7, <4>3
      <4> QED BY <3>3, <3>7, <4>1, <4>2, <4>3
    <3>8. Come(new, seqs, n)
      BY <3>5, <3>6, <3>7 DEF Come
    <3>9. Good(n)
      BY <3>3, <3>8 DEF new
    <3> HIDE DEF Good
    <3> QED BY <2>6, <3>9 DEF Bad
  <2> QED BY <2>8, <2>9
<1> QED BY <1>1, <1>2
-----------------------------------------------------------------------------
(* InOrder(set) has the members of a finite set of numbers, each once, and *)
(* the lower ones first: the number of members below tells them apart.     *)
Rank(set, n) == Cardinality({m \in set : m < n})

(* Ranks number the members of a finite set from 0, in their order.        *)
LEMMA Ranks ==
  ASSUME NEW set, set \subseteq Nat, IsFiniteSet(set)
  PROVE  /\ Cardinality(set) \in Nat
         /\ \A n \in set : Rank(set, n) \in 0 .. Cardinality(set) - 1
         /\ \A n, m \in set : n < m => Rank(set, n) < Rank(set, m)
         /\ \A r \in 0 .. Cardinality(set) - 1 : \E n \in set : Rank(set, n) = r
<1> DEFINE C == Cardinality(set)
           Below(n) == {m \in set : m < n}
<1>1. C \in Nat
  BY FS_CardinalityType
<1>2. ASSUME NEW n \in set PROVE IsFiniteSet(Below(n)) /\ Rank(set, n) \in 0 .. C - 1
  <2>1. Below(n) \in SUBSET set /\ Below(n) # set
    OBVIOUS
  <2>2. IsFiniteSet(Below(n)) /\ Cardinality(Below(n)) =< C /\ Cardinality(Below(n)) # C
    <3> HIDE DEF Below
    <3> QED BY <2>1, FS_Subset
  <2>3. Cardinality(Below(n)) \in Nat
    <3> HIDE DEF Below
    <3> QED BY <2>2, FS_CardinalityType
  <2>4. Cardinality(Below(n)) \in 0 .. C - 1
    <3> HIDE DEF Below, C
    <3> QED BY <1>1, <2>2, <2>3
  <2> QED BY <2>2, <2>4 DEF Rank
<1>r. \A n \in set : Rank(set, n) \in Nat /\ Rank(set, n) \in 0 .. C - 1
  <2>1. \A n \in set : Rank(set, n) \in 0 .. C - 1
    BY <1>2
  <2> HIDE DEF C
  <2> QED BY <1>1, <2>1
<1>3. ASSUME NEW n \in set, NEW m \in set, n < m PROVE Rank(set, n) < Rank(set, m)
  <2>1. Below(n) \in SUBSET Below(m) /\ n \in Below(m) /\ n \notin Below(n)
    <3>1. \A k \in set : k \in Nat
      OBVIOUS
    <3>2. \A k \in set : k < n => k < m
      BY <1>3, <3>1
    <3>3. Below(n) \in SUBSET Below(m)
      BY <3>2
    <3>4. n \in Below(m) /\ n \notin Below(n)
      BY <1>3, <3>1
    <3> QED BY <3>3, <3>4
  <2>2. Cardinality(Below(n)) =< Cardinality(Below(m))
        /\ Cardinality(Below(n)) # Cardinality(Below(m))
    <3>1. IsFiniteSet(Below(m))
      BY <1>2
    <3> HIDE DEF Below
    <3> QED BY <2>1, <3>1, FS_Subset
  <2>3. Rank(set, n) =< Rank(set, m) /\ Rank(set, n) # Rank(set, m)
    BY <2>2 DEF Rank
  <2>4. Rank(set, n) \in Nat /\ Rank(set, m) \in Nat
    BY <1>r
  <2> QED BY <2>3, <2>4
<1>4. ASSUME NEW r \in 0 .. C - 1 PROVE \E n \in set : Rank(set, n) = r
  <2> DEFINE f == [n \in set |-> Rank(set, n)]
  <2>1. f \in [set -> 0 .. C - 1]
    BY <1>2
  <2>2. \A n, m \in set : f[n] = f[m] => n = m
    <3> SUFFICES ASSUME NEW n \in set, NEW m \in set, n # m PROVE f[n] # f[m]
      OBVIOUS
    <3>1. n < m \/ m < n
      OBVIOUS
    <3>2. Rank(set, n) \in Nat /\ Rank(set, m) \in Nat
      BY <1>r
    <3> QED BY <1>3, <3>1, <3>2
  <2>3. f \in Injection(set, 0 .. C - 1)
    BY <2>1, <2>2, Fun_IsInj
  <2>4. IsFiniteSet(0 .. C - 1) /\ Cardinality(0 .. C - 1) = C
    <3> HIDE DEF C
    <3>1. C - 1 \in Int /\ 0 \in Int
      BY <1>1
    <3>2. IsFiniteSet(0 .. C - 1) /\ Cardinality(0 .. C - 1) = IF 0 > C - 1 THEN 0 ELSE C - 1 - 0 + 1
      BY <3>1, FS_Interval
    <3> QED BY <1>1, <3>2
  <2>5. f \in Surjection(set, 0 .. C - 1)
    <3> HIDE DEF f
    <3>1. Cardinality(set) = Cardinality(0 .. C - 1)
      BY <2>4
    <3> HIDE DEF C
    <3> QED BY <2>3, <2>4, <3>1, FS_Injection
  <2>6. PICK n \in set : f[n] = r
    <3>1. \A t \in 0 .. C - 1 : \E n \in set : f[n] = t
      <4> HIDE DEF f, C
      <4> QED BY <2>5 DEF Surjection
    <3> QED BY <3>1
  <2> QED BY <2>6
<1> QED BY <1>1, <1>2, <1>3, <1>4

Ordered(list) == \A i, j \in DOMAIN list : i < j => list[i] < list[j]

(* The member at position i is the one that has i - 1 below it.            *)
LEMMA InOrderFacts ==
  ASSUME NEW set, set \subseteq Nat, IsFiniteSet(set)
  PROVE  /\ Cardinality(set) \in Nat
         /\ InOrder(set) \in [1 .. Cardinality(set) -> set]
         /\ \A i \in 1 .. Cardinality(set) : Rank(set, InOrder(set)[i]) = i - 1
         /\ Ordered(InOrder(set))
         /\ \A n \in set : \E i \in 1 .. Cardinality(set) : InOrder(set)[i] = n
<1> DEFINE C == Cardinality(set)
           list == InOrder(set)
<1>1. C \in Nat
  BY Ranks
<1>2. ASSUME NEW i \in 1 .. C PROVE list[i] \in set /\ Rank(set, list[i]) = i - 1
  <2>1. i - 1 \in 0 .. C - 1
    BY <1>1
  <2>2. PICK n \in set : Rank(set, n) = i - 1
    BY <2>1, Ranks
  <2>3. list[i] = CHOOSE m \in set : Rank(set, m) = i - 1
    BY DEF InOrder, Rank
  <2> QED BY <2>2, <2>3
<1>3. list = [i \in 1 .. C |-> list[i]]
  <2> DEFINE F(i) == CHOOSE m \in set : Cardinality({k \in set : k < m}) = i - 1
  <2>1. list = [i \in 1 .. C |-> F(i)]
    BY DEF InOrder
  <2> HIDE DEF list, C, F
  <2> QED BY <2>1
<1>4. list \in [1 .. C -> set]
  <2> HIDE DEF list, C
  <2> QED BY <1>2, <1>3
<1>5. ASSUME NEW i \in 1 .. C, NEW j \in 1 .. C, i < j PROVE list[i] < list[j]
  <2>1. list[i] \in Nat /\ list[j] \in Nat
    BY <1>2
  <2>2. ~ (list[j] < list[i]) /\ list[i] # list[j]
    <3>1. Rank(set, list[i]) = i - 1 /\ Rank(set, list[j]) = j - 1 /\ i - 1 < j - 1
      BY <1>1, <1>2, <1>5
    <3>2. i - 1 \in Nat /\ j - 1 \in Nat /\ ~ (j - 1 < i - 1) /\ i - 1 # j - 1
      BY <1>1, <1>5
    <3> HIDE DEF list
    <3> QED BY <1>2, <3>1, <3>2, Ranks
  <2> QED BY <2>1, <2>2
<1>6. ASSUME NEW n \in set PROVE \E i \in 1 .. C : list[i] = n
  <2>1. Rank(set, n) \in 0 .. C - 1
    BY Ranks
  <2> DEFINE i == Rank(set, n) + 1
  <2>2. i \in 1 .. C /\ i - 1 = Rank(set, n)
    <3> HIDE DEF C
    <3> QED BY <1>1, <2>1
  <2>3. Rank(set, list[i]) = Rank(set, n) /\ list[i] \in set
    <3> HIDE DEF i, list, C
    <3> QED BY <1>2, <2>2
  <2>4. list[i] = n
    <3> HIDE DEF i, list
    <3>1. list[i] \in Nat /\ n \in Nat /\ Rank(set, n) \in Nat
      <4>1. list[i] \in Nat /\ n \in Nat
        BY <2>3
      <4> HIDE DEF C
      <4> QED BY <1>1, <2>1, <4>1
    <3>2. ~ (list[i] < n) /\ ~ (n < list[i])
      <4>1. list[i] < n => Rank(set, list[i]) < Rank(set, n)
        BY <2>3, Ranks
      <4>2. n < list[i] => Rank(set, n) < Rank(set, list[i])
        BY <2>3, Ranks
      <4> QED BY <2>3, <3>1, <4>1, <4>2
    <3> QED BY <3>1, <3>2
  <2> HIDE DEF i, list
  <2> QED BY <2>2, <2>4
<1>7. Ordered(list)
  <2>1. DOMAIN list = 1 .. C
    BY <1>4
  <2> HIDE DEF list, C
  <2> QED BY <1>5, <2>1 DEF Ordered
<1> QED BY <1>1, <1>2, <1>4, <1>6, <1>7
-----------------------------------------------------------------------------
(* How many cores the first kinds have.                                    *)
Sums(g, kinds) ==
  /\ g \in [0 .. Len(kinds) -> Nat] /\ g[0] = 0
  /\ \A k \in 1 .. Len(kinds) : g[k] = g[k-1] + kinds[k]

(* The cores are counted kind by kind.                                     *)
LEMMA CountFacts ==
  ASSUME NEW kinds \in Seq(Nat)
  PROVE  \E g : Sums(g, kinds) /\ core_count(kinds) = g[Len(kinds)]
<1> DEFINE L == Len(kinds)
           step == [p \in Nat \X Nat |-> IF p[1] \in 1 .. L THEN p[2] + kinds[p[1]] ELSE p[2]]
           Turn(g) == [k \in 0 .. L |-> IF k = 0 THEN 0 ELSE g[k-1] + kinds[k]]
<1>1. L \in Nat /\ \A k \in 1 .. L : kinds[k] \in Nat
  OBVIOUS
<1>2. step \in [Nat \X Nat -> Nat]
  BY <1>1
<1>3. Recursive(Nat, 0, step, L)
  <2> HIDE DEF step, L
  <2> QED BY <1>1, <1>2, Recursion
<1>4. PICK f \in [0 .. L -> Nat] :
        f[0] = 0 /\ \A k \in 1 .. L : f[k] = step[<<k, f[k-1]>>]
  BY <1>3 DEF Recursive
<1>5. ASSUME NEW k \in 0 .. L PROVE f[k] = Turn(f)[k]
  <2>1. CASE k = 0
    BY <1>1, <1>4, <2>1
  <2>2. CASE k # 0
    <3>1. k \in 1 .. L /\ k - 1 \in 0 .. L /\ k \in Nat
      <4> HIDE DEF L
      <4> QED BY <1>1, <2>2
    <3>2. f[k-1] \in Nat
      BY <1>4, <3>1
    <3>3. f[k] = step[<<k, f[k-1]>>]
      <4> HIDE DEF step, L
      <4> QED BY <1>4, <3>1
    <3>4. f[k] = f[k-1] + kinds[k]
      BY <3>1, <3>2, <3>3
    <3> QED BY <2>2, <3>1, <3>4
  <2> QED BY <2>1, <2>2
<1>6. f = Turn(f)
  <2> HIDE DEF L
  <2> QED BY <1>5
<1>7. PICK g : g = Turn(g) /\ core_count(kinds) = g[L]
  BY <1>6 DEF core_count
<1> DEFINE Bad == {k \in 0 .. L : g[k] \notin Nat}
<1>8. ASSUME Bad # {} PROVE FALSE
  <2>1. PICK k \in Bad : \A m \in Bad : k =< m
    <3>1. Bad \subseteq Nat
      OBVIOUS
    <3> HIDE DEF Bad
    <3> QED BY <1>8, <3>1, Least
  <2>2. k \in 0 .. L /\ g[k] = IF k = 0 THEN 0 ELSE g[k-1] + kinds[k]
    <3>1. Turn(g)[k] = IF k = 0 THEN 0 ELSE g[k-1] + kinds[k]
      OBVIOUS
    <3> HIDE DEF Turn
    <3> QED BY <1>7, <3>1
  <2>3. k # 0 /\ g[k] \notin Nat
    BY <2>2
  <2>4. k - 1 \in 0 .. L /\ k - 1 < k /\ k \in 1 .. L
    <3> HIDE DEF L
    <3> QED BY <1>1, <2>2, <2>3
  <2>5. g[k-1] \in Nat
    <3>1. k - 1 \notin Bad
      <4>1. k \in Nat /\ k - 1 \in Nat
        BY <2>4
      <4> HIDE DEF Bad
      <4> QED BY <2>1, <2>4, <4>1
    <3> QED BY <2>4, <3>1
  <2>6. kinds[k] \in Nat
    BY <1>1, <2>4
  <2> QED BY <2>2, <2>3, <2>5, <2>6
<1>9. \A k \in 0 .. L : g[k] = IF k = 0 THEN 0 ELSE g[k-1] + kinds[k]
  <2>1. \A k \in 0 .. L : Turn(g)[k] = IF k = 0 THEN 0 ELSE g[k-1] + kinds[k]
    OBVIOUS
  <2> HIDE DEF Turn
  <2> QED BY <1>7, <2>1
<1>10. g \in [0 .. L -> Nat]
  <2>1. g = [k \in 0 .. L |-> g[k]]
    BY <1>7
  <2>2. \A k \in 0 .. L : g[k] \in Nat
    BY <1>8
  <2> HIDE DEF L, Turn, Bad
  <2> QED BY <2>1, <2>2
<1>11. 0 \in 0 .. L /\ \A k \in 1 .. L : k \in 0 .. L /\ k # 0
  BY <1>1
<1> HIDE DEF Turn, Bad
<1>12. g[0] = 0 /\ \A k \in 1 .. L : g[k] = g[k-1] + kinds[k]
  BY <1>9, <1>11
<1> QED BY <1>7, <1>10, <1>12 DEF Sums

(* There is one way to count them.                                         *)
LEMMA SumsAgree ==
  ASSUME NEW kinds \in Seq(Nat), NEW k \in 0 .. Len(kinds), NEW g, Sums(g, kinds),
         NEW h, Sums(h, SubSeq(kinds, 1, k))
  PROVE  h[k] = g[k]
<1> DEFINE L == Len(kinds)
           first == SubSeq(kinds, 1, k)
           Bad == {i \in 0 .. k : h[i] # g[i]}
<1>1. L \in Nat /\ k \in Nat /\ k =< L /\ Len(first) = k
      /\ \A i \in 1 .. k : first[i] = kinds[i] /\ i \in 1 .. L
  OBVIOUS
<1>2. /\ h[0] = 0 /\ \A i \in 1 .. k : h[i] = h[i-1] + kinds[i]
      /\ g[0] = 0 /\ \A i \in 1 .. k : g[i] = g[i-1] + kinds[i]
  <2> HIDE DEF first
  <2> QED BY <1>1 DEF Sums, first
<1>3. ASSUME Bad # {} PROVE FALSE
  <2>1. PICK i \in Bad : \A m \in Bad : i =< m
    <3>1. Bad \subseteq Nat
      OBVIOUS
    <3> HIDE DEF Bad
    <3> QED BY <1>3, <3>1, Least
  <2>2. i \in 0 .. k /\ h[i] # g[i] /\ i # 0
    BY <1>2, <2>1
  <2>3. i \in 1 .. k /\ i - 1 \in 0 .. k /\ i \in Nat /\ i - 1 < i
    BY <1>1, <2>2
  <2>4. i - 1 \notin Bad
    <3>1. ~ (i =< i - 1)
      BY <2>3
    <3> HIDE DEF Bad
    <3> QED BY <2>1, <3>1
  <2>5. h[i-1] = g[i-1]
    BY <2>3, <2>4
  <2> QED BY <1>2, <2>2, <2>3, <2>5
<1>4. k \in 0 .. k
  BY <1>1
<1> QED BY <1>3, <1>4

(* The number of cores is a number.                                        *)
LEMMA CoreCount ==
  ASSUME NEW kinds \in Seq(Nat)
  PROVE  core_count(kinds) \in Nat
<1>1. PICK g : Sums(g, kinds) /\ core_count(kinds) = g[Len(kinds)]
  BY CountFacts
<1>2. Len(kinds) \in 0 .. Len(kinds)
  OBVIOUS
<1> QED BY <1>1, <1>2 DEF Sums

(* The breakpoints of a machine grow: the kinds all have cores, and there  *)
(* are no fewer hardware threads than cores.                               *)
LEMMA Breakpoints ==
  ASSUME NEW kinds, NEW pus, IsMachine(kinds, pus)
  PROVE  Ordered(breakpoints(kinds, pus))
<1> DEFINE L == Len(kinds)
           cores == [k \in DOMAIN kinds |-> core_count(SubSeq(kinds, 1, k))]
<1>1. kinds \in Seq(Nat) /\ kinds # <<>> /\ pus \in Nat /\ core_count(kinds) =< pus
      /\ L \in Nat \ {0} /\ DOMAIN kinds = 1 .. L /\ \A k \in 1 .. L : kinds[k] \in Nat \ {0}
  <2>1. kinds \in Seq(Nat \ {0}) /\ kinds # <<>>
    BY DEF IsMachine
  <2> QED BY <2>1 DEF IsMachine
<1>2. PICK g : Sums(g, kinds) /\ core_count(kinds) = g[L]
  BY <1>1, CountFacts
<1>3. ASSUME NEW k \in 1 .. L PROVE cores[k] = g[k]
  <2> DEFINE first == SubSeq(kinds, 1, k)
  <2>1. first \in Seq(Nat) /\ Len(first) = k /\ k \in 0 .. L
    BY <1>1
  <2>2. cores[k] = core_count(first)
    BY <1>1
  <2> HIDE DEF cores, first, L
  <2>3. PICK h : Sums(h, first) /\ core_count(first) = h[Len(first)]
    BY <2>1, CountFacts
  <2>4. h[k] = g[k]
    BY <1>1, <1>2, <2>1, <2>3, SumsAgree DEF first, L
  <2> QED BY <2>1, <2>2, <2>3, <2>4
<1>4. \A k \in 0 .. L : g[k] \in Nat
  BY <1>2 DEF Sums
<1>5. ASSUME NEW i \in 0 .. L, NEW j \in 0 .. L, i < j PROVE g[i] < g[j]
  <2> DEFINE Bad == {k \in 0 .. L : i < k /\ ~ (g[i] < g[k])}
  <2>1. ASSUME Bad # {} PROVE FALSE
    <3>1. PICK k \in Bad : \A m \in Bad : k =< m
      <4>1. Bad \subseteq Nat
        OBVIOUS
      <4> HIDE DEF Bad
      <4> QED BY <2>1, <4>1, Least
    <3>2. k \in 0 .. L /\ i < k /\ ~ (g[i] < g[k])
      BY <3>1
    <3>3. k \in 1 .. L /\ k - 1 \in 0 .. L /\ i =< k - 1 /\ ~ (k =< k - 1)
      <4> HIDE DEF L
      <4> QED BY <1>1, <3>2
    <3>4. k - 1 \notin Bad
      <4> HIDE DEF Bad
      <4> QED BY <3>1, <3>3
    <3>5. i = k - 1 \/ g[i] < g[k-1]
      <4>1. i # k - 1 => i < k - 1
        <5> HIDE DEF L
        <5> QED BY <1>1, <3>3
      <4> QED BY <3>3, <3>4, <4>1
    <3>6. g[k] = g[k-1] + kinds[k] /\ kinds[k] \in Nat \ {0}
      BY <1>1, <1>2, <3>3 DEF Sums
    <3>7. g[i] \in Nat /\ g[k-1] \in Nat /\ g[k] \in Nat
      BY <1>4, <3>2, <3>3
    <3> QED BY <3>2, <3>5, <3>6, <3>7
  <2> QED BY <1>5, <2>1
<1>6. Ordered(cores)
  <2>1. DOMAIN cores = 1 .. L /\ \A k \in 1 .. L : k \in 0 .. L
    BY <1>1
  <2> HIDE DEF cores, L
  <2> QED BY <1>3, <1>5, <2>1 DEF Ordered
<1>7. cores \in Seq(Nat) /\ Len(cores) = L
  <2>1. cores = [k \in 1 .. L |-> cores[k]]
    BY <1>1
  <2>2. \A k \in 1 .. L : cores[k] \in Nat
    <3>1. \A k \in 1 .. L : k \in 0 .. L
      BY <1>1
    <3> HIDE DEF cores
    <3> QED BY <1>3, <1>4, <3>1
  <2> HIDE DEF cores, L
  <2>3. cores \in [1 .. L -> Nat]
    BY <2>1, <2>2
  <2> QED BY <1>1, <2>3
<1>8. breakpoints(kinds, pus) = IF Last(cores) # pus THEN Append(cores, pus) ELSE cores
  BY DEF breakpoints
<1> HIDE DEF cores
<1>9. Last(cores) = g[L]
  <2>1. L \in 1 .. L
    BY <1>1
  <2> QED BY <1>3, <1>7, <2>1 DEF Last
<1>10. ASSUME g[L] # pus PROVE Ordered(Append(cores, pus))
  <2> DEFINE new == Append(cores, pus)
  <2>1. /\ DOMAIN new = 1 .. L + 1 /\ new[L+1] = pus
        /\ \A k \in 1 .. L : new[k] = g[k]
    <3>1. /\ DOMAIN new = 1 .. L + 1 /\ new[L+1] = pus
          /\ \A k \in 1 .. L : new[k] = cores[k]
      <4> HIDE DEF L
      <4> QED BY <1>1, <1>7
    <3> HIDE DEF new
    <3> QED BY <1>3, <3>1
  <2> HIDE DEF new, L
  <2>2. \A k \in 1 .. L : k \in 0 .. L /\ (k < L \/ k = L)
    BY <1>1
  <2>3. g[L] < pus /\ g[L] \in Nat /\ L \in 0 .. L
    <3>1. L \in 0 .. L
      BY <1>1
    <3> QED BY <1>1, <1>2, <1>4, <1>10, <3>1
  <2>4. \A k \in 1 .. L : g[k] < pus
    <3>1. \A k \in 1 .. L : g[k] \in Nat /\ (g[k] < g[L] \/ g[k] = g[L])
      BY <1>4, <1>5, <2>2, <2>3
    <3> QED BY <1>1, <2>3, <3>1
  <2>5. ASSUME NEW i \in 1 .. L + 1, NEW j \in 1 .. L + 1, i < j PROVE new[i] < new[j]
    <3>1. i \in 1 .. L /\ (j = L + 1 \/ j \in 1 .. L)
      BY <1>1, <2>5
    <3> QED BY <1>5, <2>1, <2>2, <2>4, <2>5, <3>1
  <2> QED BY <2>1, <2>5 DEF Ordered, new
<1> QED BY <1>6, <1>8, <1>9, <1>10

(* The doubling stops, whatever the number of cores.                       *)
LEMMA DoublingFacts ==
  ASSUME NEW n \in Int
  PROVE  doubling(n) \subseteq Nat /\ IsFiniteSet(doubling(n))
<1> DEFINE Powers == {2^k : k \in 0 .. n}
<1>1. doubling(n) = Powers \cap 1 .. n
  BY DEF doubling
<1> HIDE DEF Powers
<1>2. doubling(n) \in SUBSET (1 .. n)
  BY <1>1
<1>3. IsFiniteSet(1 .. n)
  BY FS_Interval
<1> QED BY <1>2, <1>3, FS_Subset

(* A sequence has finitely many members.                                   *)
LEMMA ToSetFacts ==
  ASSUME NEW S, NEW s \in Seq(S)
  PROVE  ToSet(s) \subseteq S /\ IsFiniteSet(ToSet(s))
<1>1. Len(s) \in Nat /\ DOMAIN s = 1 .. Len(s) /\ s \in [1 .. Len(s) -> S]
  OBVIOUS
<1>2. s \in [1 .. Len(s) -> ToSet(s)] /\ \A e \in ToSet(s) : \E i \in 1 .. Len(s) : s[i] = e
  BY <1>1 DEF ToSet
<1>3. s \in Surjection(1 .. Len(s), ToSet(s))
  BY <1>2 DEF Surjection
<1>4. IsFiniteSet(1 .. Len(s))
  BY <1>1, FS_Interval
<1>5. IsFiniteSet(ToSet(s))
  BY <1>3, <1>4, FS_Surjection
<1> QED BY <1>1, <1>5 DEF ToSet

SweepSet(kinds, pus) == doubling(core_count(kinds)) \cup ToSet(breakpoints(kinds, pus))

(* Before it is cut, the sweep is the doubling and the breakpoints.        *)
LEMMA MergedSweep ==
  ASSUME NEW kinds \in Seq(Nat), kinds # <<>>, NEW pus \in Nat
  PROVE  /\ merged(kinds, pus) \in Seq(Nat) /\ merged(kinds, pus) # <<>>
         /\ Ordered(merged(kinds, pus)) /\ ToSet(merged(kinds, pus)) = SweepSet(kinds, pus)
<1> DEFINE ends == breakpoints(kinds, pus)
           set == doubling(core_count(kinds)) \cup ToSet(ends)
           sweep == merged(kinds, pus)
<1>1. ends \in Seq(Nat) /\ ends # <<>>
  <2> DEFINE cores == [k \in DOMAIN kinds |-> core_count(SubSeq(kinds, 1, k))]
  <2>1. \A k \in DOMAIN kinds : SubSeq(kinds, 1, k) \in Seq(Nat)
    OBVIOUS
  <2>2. \A k \in DOMAIN kinds : core_count(SubSeq(kinds, 1, k)) \in Nat
    BY <2>1, CoreCount
  <2>3. cores \in Seq(Nat) /\ cores # <<>>
    BY <2>2
  <2>4. ends = cores \/ ends = Append(cores, pus)
    BY DEF breakpoints
  <2> HIDE DEF cores, ends
  <2>5. Append(cores, pus) \in Seq(Nat) /\ Append(cores, pus) # <<>>
    BY <2>3
  <2> QED BY <2>3, <2>4, <2>5
<1>2. set \subseteq Nat /\ IsFiniteSet(set) /\ set # {}
  <2>1. core_count(kinds) \in Int
    BY CoreCount
  <2>2. doubling(core_count(kinds)) \subseteq Nat /\ IsFiniteSet(doubling(core_count(kinds)))
    BY <2>1, DoublingFacts
  <2>3. ToSet(ends) \subseteq Nat /\ IsFiniteSet(ToSet(ends))
    <3> HIDE DEF ends
    <3> QED BY <1>1, ToSetFacts
  <2>4. ends[1] \in ToSet(ends)
    <3> HIDE DEF ends
    <3> QED BY <1>1 DEF ToSet
  <2> HIDE DEF ends
  <2> QED BY <2>2, <2>3, <2>4, FS_Union
<1>3. sweep = InOrder(set)
  BY DEF merged
<1>4. /\ Cardinality(set) \in Nat /\ sweep \in [1 .. Cardinality(set) -> set]
      /\ Ordered(sweep) /\ \E i \in 1 .. Cardinality(set) : TRUE
      /\ ToSet(sweep) = set
  <2> DEFINE C == Cardinality(set)
  <2> HIDE DEF sweep, set
  <2>1. /\ C \in Nat /\ sweep \in [1 .. C -> set] /\ Ordered(sweep)
        /\ \A n \in set : \E i \in 1 .. C : sweep[i] = n
    BY <1>2, <1>3, InOrderFacts
  <2> HIDE DEF C
  <2>2. DOMAIN sweep = 1 .. C /\ \A i \in 1 .. C : sweep[i] \in set
    BY <2>1
  <2>3. ToSet(sweep) = set
    BY <2>1, <2>2 DEF ToSet
  <2>4. \E i \in 1 .. C : TRUE
    BY <1>2, <2>1
  <2> QED BY <2>1, <2>3, <2>4 DEF C
<1>5. sweep \in Seq(Nat) /\ sweep # <<>> /\ DOMAIN sweep = 1 .. Len(sweep) /\ Len(sweep) \in Nat
  <2> DEFINE C == Cardinality(set)
  <2>1. C \in Nat /\ sweep \in [1 .. C -> Nat] /\ 1 .. C # {}
    <3> HIDE DEF sweep, set
    <3> QED BY <1>2, <1>4
  <2> HIDE DEF sweep, C
  <2>2. sweep \in Seq(Nat) /\ Len(sweep) = C
    BY <2>1
  <2> QED BY <2>1, <2>2
<1> QED BY <1>4, <1>5 DEF SweepSet

(* prefix ends before the first number, but the very first, that is beyond *)
(* MaxThreads.                                                             *)
Cut(prefix, sweep) ==
  /\ prefix \in Seq(Nat) /\ prefix # <<>>
  /\ \A i \in DOMAIN prefix : i \in DOMAIN sweep /\ prefix[i] = sweep[i]
  /\ \A i \in DOMAIN prefix : i > 1 => sweep[i] =< MaxThreads
  /\ \A i \in DOMAIN sweep : sweep[i] =< MaxThreads => i \in DOMAIN prefix

LEMMA SweepCut ==
  ASSUME NEW kinds \in Seq(Nat), kinds # <<>>, NEW pus \in Nat
  PROVE  Cut(threads_sweep(kinds, pus), merged(kinds, pus))
<1> DEFINE sweep == merged(kinds, pus)
           prefix == threads_sweep(kinds, pus)
           far == {i \in 2 .. Len(sweep) : sweep[i] > MaxThreads}
           m == Min(far) - 1
<1>1. /\ sweep \in Seq(Nat) /\ sweep # <<>> /\ Ordered(sweep)
      /\ Len(sweep) \in Nat /\ DOMAIN sweep = 1 .. Len(sweep)
  <2>1. sweep \in Seq(Nat) /\ sweep # <<>> /\ Ordered(sweep)
    BY MergedSweep
  <2> HIDE DEF sweep
  <2> QED BY <2>1
<1>2. prefix = IF far = {} THEN sweep ELSE SubSeq(sweep, 1, m)
  BY DEF threads_sweep
<1>3. /\ far \subseteq Nat
      /\ \A i \in Nat : i \in far <=> i \in 2 .. Len(sweep) /\ sweep[i] > MaxThreads
  <2> HIDE DEF sweep
  <2> QED BY <1>1
<1>4. MaxThreads \in Nat
  BY MaxThreadsAssumption
<1> HIDE DEF sweep, far, prefix
<1>5. CASE far = {}
  <2>1. ASSUME NEW i \in DOMAIN sweep, i > 1 PROVE sweep[i] =< MaxThreads
    <3>1. i \in 2 .. Len(sweep) /\ i \in Nat /\ sweep[i] \in Nat
      BY <1>1, <2>1
    <3> QED BY <1>3, <1>4, <1>5, <3>1
  <2>2. prefix = sweep
    BY <1>2, <1>5
  <2>3. Cut(prefix, sweep)
    BY <1>1, <2>1, <2>2 DEF Cut
  <2> QED BY <2>3 DEF prefix, sweep
<1>6. CASE far # {}
  <2>1. Min(far) \in far /\ \A i \in far : Min(far) =< i
    BY <1>3, <1>6, MinFacts
  <2>2. Min(far) \in 2 .. Len(sweep) /\ sweep[Min(far)] > MaxThreads
    BY <1>3, <2>1
  <2>3. m \in Nat /\ m >= 1 /\ m =< Len(sweep) /\ Min(far) = m + 1 /\ Min(far) \in Nat
    BY <1>1, <2>2
  <2> HIDE DEF m
  <2>4. prefix \in Seq(Nat) /\ Len(prefix) = m /\ DOMAIN prefix = 1 .. m
        /\ \A i \in 1 .. m : prefix[i] = sweep[i] /\ i \in DOMAIN sweep
    <3>1. prefix = SubSeq(sweep, 1, m)
      BY <1>2, <1>6
    <3> QED BY <1>1, <2>3, <3>1
  <2>5. ASSUME NEW i \in 1 .. m, i > 1 PROVE sweep[i] =< MaxThreads
    <3>1. i \in 2 .. Len(sweep) /\ i \in Nat /\ sweep[i] \in Nat /\ ~ (Min(far) =< i)
      BY <1>1, <2>3, <2>5
    <3>2. ~ (sweep[i] > MaxThreads)
      BY <1>3, <2>1, <3>1
    <3> QED BY <1>4, <3>1, <3>2
  <2>6. ASSUME NEW i \in DOMAIN sweep, sweep[i] =< MaxThreads PROVE i \in 1 .. m
    <3>1. i \in Nat /\ i >= 1 /\ sweep[i] \in Nat /\ sweep[Min(far)] \in Nat
          /\ Min(far) \in DOMAIN sweep
      BY <1>1, <2>2
    <3>2. sweep[i] < sweep[Min(far)]
      BY <1>4, <2>2, <2>6, <3>1
    <3>3. ~ (Min(far) < i) /\ Min(far) # i
      <4>1. Min(far) < i => sweep[Min(far)] < sweep[i]
        BY <1>1, <3>1 DEF Ordered
      <4> QED BY <3>1, <3>2, <4>1
    <3> QED BY <2>3, <3>1, <3>3
  <2>7. prefix # <<>>
    BY <2>3, <2>4
  <2>8. Cut(prefix, sweep)
    BY <2>4, <2>5, <2>6, <2>7 DEF Cut
  <2> QED BY <2>8 DEF prefix, sweep
<1> QED BY <1>5, <1>6 DEF sweep, prefix

(* threads_sweep.cpp prints one number at least, and they grow.            *)
LEMMA SweepOrdered ==
  ASSUME NEW kinds \in Seq(Nat), kinds # <<>>, NEW pus \in Nat
  PROVE  /\ threads_sweep(kinds, pus) \in Seq(Nat)
         /\ threads_sweep(kinds, pus) # <<>>
         /\ Ordered(threads_sweep(kinds, pus))
<1>1. Cut(threads_sweep(kinds, pus), merged(kinds, pus)) /\ Ordered(merged(kinds, pus))
  BY SweepCut, MergedSweep
<1> QED BY <1>1 DEF Cut, Ordered

(* So do those that the driver makes up without the program.               *)
LEMMA FallbackOrdered ==
  ASSUME NEW proc \in Nat
  PROVE  /\ get_threads_sweep_fallback(proc) \in Seq(Nat)
         /\ Ordered(get_threads_sweep_fallback(proc))
<1> DEFINE below == {n \in doubling(MaxThreads) : n < proc}
           last == IF proc > MaxThreads THEN {} ELSE {proc}
           set == below \cup last
<1>1. set \subseteq Nat /\ IsFiniteSet(set)
  <2>1. doubling(MaxThreads) \subseteq Nat /\ IsFiniteSet(doubling(MaxThreads))
    BY MaxThreadsAssumption, DoublingFacts
  <2>2. below \subseteq Nat /\ IsFiniteSet(below)
    BY <2>1, FS_Subset
  <2>3. set = below \/ set = below \cup {proc}
    OBVIOUS
  <2> HIDE DEF below, set
  <2> QED BY <2>2, <2>3, FS_AddElement
<1>2. get_threads_sweep_fallback(proc) = InOrder(set)
  BY DEF get_threads_sweep_fallback
<1> HIDE DEF set
<1>3. Cardinality(set) \in Nat /\ InOrder(set) \in [1 .. Cardinality(set) -> set]
      /\ Ordered(InOrder(set))
  BY <1>1, InOrderFacts
<1>4. InOrder(set) \in [1 .. Cardinality(set) -> Nat]
  BY <1>1, <1>3
<1>5. InOrder(set) \in Seq(Nat)
  BY <1>3, <1>4
<1> QED BY <1>2, <1>3, <1>5
-----------------------------------------------------------------------------
(* What a list of runs is, and what scaling does to it.                    *)
LEMMA ListFacts ==
  ASSUME NEW list, IsList(list)
  PROVE  /\ list \in Seq(OneRun) /\ Len(list) \in Nat /\ Len(list) > 0
         /\ DOMAIN list = 1 .. Len(list) /\ 1 \in DOMAIN list /\ Len(list) \in DOMAIN list
         /\ \A i \in DOMAIN list : list[i] \in OneRun
         /\ \A i \in DOMAIN list : list[i].threads \in Nat /\ list[i].duration \in Nat
         /\ \A i, j \in DOMAIN list : i < j => list[i].threads < list[j].threads
<1>1. list \in Seq(OneRun) /\ list # <<>>
      /\ \A i, j \in DOMAIN list : i < j => list[i].threads < list[j].threads
  BY DEF IsList
<1>2. Len(list) \in Nat /\ Len(list) > 0 /\ DOMAIN list = 1 .. Len(list)
      /\ \A i \in DOMAIN list : list[i] \in OneRun
  <2> HIDE DEF OneRun
  <2> QED BY <1>1
<1>3. \A r \in OneRun : r.threads \in Nat /\ r.duration \in Nat
  BY DEF OneRun
<1> QED BY <1>1, <1>2, <1>3

(* Scaling keeps the runs of a list and relates each to best and first.    *)
LEMMA ScaledRunsFacts ==
  ASSUME NEW list, IsList(list), NEW best \in Nat
  PROVE  /\ IsList(ScaledRuns(list, best))
         /\ DOMAIN ScaledRuns(list, best) = DOMAIN list
         /\ \A i \in DOMAIN list :
              LET r == ScaledRuns(list, best)[i] IN
              /\ r.threads = list[i].threads /\ r.duration = list[i].duration
              /\ r.job = list[i].job /\ r.ref = list[i].ref
              /\ r.scaled = <<list[i].duration, best>>
              /\ r.speedup = <<list[1].duration, list[i].duration>>
<1> DEFINE new == ScaledRuns(list, best)
           With(r, s, u) == [r EXCEPT !.scaled = s, !.speedup = u]
<1>1. ASSUME NEW r \in OneRun, NEW s \in Seq(Nat), NEW u \in Seq(Nat)
      PROVE  /\ With(r, s, u) \in OneRun
             /\ With(r, s, u).threads = r.threads /\ With(r, s, u).duration = r.duration
             /\ With(r, s, u).job = r.job /\ With(r, s, u).ref = r.ref
             /\ With(r, s, u).scaled = s /\ With(r, s, u).speedup = u
  BY DEF OneRun
<1>2. \A i \in DOMAIN list :
        new[i] = With(list[i], <<list[i].duration, best>>,
                      <<list[1].duration, list[i].duration>>)
  BY DEF ScaledRuns
<1>d. DOMAIN new = DOMAIN list
  BY DEF ScaledRuns
<1> HIDE DEF With
<1>3. ASSUME NEW i \in DOMAIN list
      PROVE  /\ new[i] \in OneRun
             /\ new[i].threads = list[i].threads /\ new[i].duration = list[i].duration
             /\ new[i].job = list[i].job /\ new[i].ref = list[i].ref
             /\ new[i].scaled = <<list[i].duration, best>>
             /\ new[i].speedup = <<list[1].duration, list[i].duration>>
  <2> DEFINE s == <<list[i].duration, best>>
             u == <<list[1].duration, list[i].duration>>
  <2>1. s \in Seq(Nat) /\ u \in Seq(Nat) /\ list[i] \in OneRun
    BY ListFacts
  <2>2. new[i] = With(list[i], s, u)
    BY <1>2
  <2> HIDE DEF s, u, new
  <2>3. /\ new[i] \in OneRun
        /\ new[i].threads = list[i].threads /\ new[i].duration = list[i].duration
        /\ new[i].job = list[i].job /\ new[i].ref = list[i].ref
        /\ new[i].scaled = s /\ new[i].speedup = u
    BY <1>1, <2>1, <2>2
  <2> QED BY <2>3 DEF s, u
<1>4. new \in [1 .. Len(list) -> OneRun]
  <2>1. new = [i \in DOMAIN list |-> new[i]]
    BY DEF ScaledRuns
  <2> HIDE DEF new
  <2> QED BY <1>3, <2>1, ListFacts
<1>5. IsList(new)
  <2> HIDE DEF new
  <2>1. new \in Seq(OneRun) /\ new # <<>>
    BY <1>4, ListFacts
  <2>2. \A i, j \in DOMAIN new : i < j => new[i].threads < new[j].threads
    <3>1. \A i \in DOMAIN list : new[i].threads = list[i].threads
      BY <1>3
    <3> QED BY <1>d, <3>1, ListFacts
  <2> QED BY <2>1, <2>2 DEF IsList
<1> QED BY <1>d, <1>3, <1>5

(* A duration of benchmark b is that of one of its runs.                   *)
LEMMA DurationFacts ==
  ASSUME NEW results, IsResults(results), NEW b
  PROVE  /\ DurationsOf(results, b) \subseteq Nat
         /\ \A d : d \in DurationsOf(results, b) <=>
              \E k \in DOMAIN results : b \in DOMAIN results[k].runs /\
                \E i \in DOMAIN results[k].runs[b] : d = results[k].runs[b][i].duration
<1>1. ASSUME NEW d
      PROVE d \in DurationsOf(results, b) <=>
              \E k \in DOMAIN results : b \in DOMAIN results[k].runs /\
                \E i \in DOMAIN results[k].runs[b] : d = results[k].runs[b][i].duration
  <2> DEFINE Of(k) == {r.duration : r \in ToSet(results[k].runs[b])}
             K == {j \in DOMAIN results : b \in DOMAIN results[j].runs}
  <2>1. DurationsOf(results, b) = UNION {Of(k) : k \in K}
    BY DEF DurationsOf
  <2>2. \A k : d \in Of(k) <=>
          \E i \in DOMAIN results[k].runs[b] : d = results[k].runs[b][i].duration
    BY DEF ToSet
  <2> HIDE DEF Of
  <2> QED BY <2>1, <2>2
<1>2. ASSUME NEW k \in DOMAIN results, b \in DOMAIN results[k].runs,
             NEW i \in DOMAIN results[k].runs[b]
      PROVE  results[k].runs[b][i].duration \in Nat
  <2>1. IsList(results[k].runs[b])
    BY <1>2 DEF IsResults
  <2> QED BY <2>1, ListFacts
<1> QED BY <1>1, <1>2

(* lowest_dur is a duration that was measured, and no other is lower.      *)
LEMMA BestFacts ==
  ASSUME NEW results, IsResults(results), NEW b,
         NEW k \in DOMAIN results, b \in DOMAIN results[k].runs
  PROVE  /\ lowest_dur(results, b) \in DurationsOf(results, b)
         /\ lowest_dur(results, b) \in Nat
         /\ \A d \in DurationsOf(results, b) : lowest_dur(results, b) =< d
<1>1. IsList(results[k].runs[b])
  BY DEF IsResults
<1>2. results[k].runs[b][1].duration \in DurationsOf(results, b)
  BY <1>1, ListFacts, DurationFacts
<1>3. DurationsOf(results, b) \subseteq Nat
  BY DurationFacts
<1> QED BY <1>2, <1>3, MinFacts DEF lowest_dur

(* The first run of a list is the one with the fewest threads.             *)
LEMMA FewestFirst ==
  ASSUME NEW list, IsList(list)
  PROVE  Min({r.threads : r \in ToSet(list)}) = list[1].threads
<1> DEFINE T == {r.threads : r \in ToSet(list)}
<1>1. \A t : t \in T <=> \E i \in DOMAIN list : t = list[i].threads
  BY DEF ToSet
<1>2. \A i \in DOMAIN list : list[1].threads =< list[i].threads
  <2>1. ASSUME NEW i \in DOMAIN list PROVE list[1].threads =< list[i].threads
    <3>1. i = 1 \/ 1 < i
      BY ListFacts
    <3> QED BY <3>1, ListFacts
  <2> QED BY <2>1
<1>3. T \subseteq Nat /\ list[1].threads \in T /\ \A t \in T : list[1].threads =< t
  <2> HIDE DEF T
  <2> QED BY <1>1, <1>2, ListFacts
<1> HIDE DEF T
<1>4. Min(T) \in T /\ \A t \in T : Min(T) =< t
  BY <1>3, MinFacts
<1>5. Min(T) =< list[1].threads /\ list[1].threads =< Min(T) /\ Min(T) \in Nat
      /\ list[1].threads \in Nat
  BY <1>3, <1>4
<1> QED BY <1>5 DEF T
(* Scaling leaves what was measured, and relates the runs as it should.    *)
SameRuns(new, old) ==
  /\ DOMAIN new = DOMAIN old
  /\ \A k \in DOMAIN old :
       /\ new[k].name = old[k].name
       /\ DOMAIN new[k].runs = DOMAIN old[k].runs
       /\ \A b \in DOMAIN old[k].runs :
            /\ DOMAIN new[k].runs[b] = DOMAIN old[k].runs[b]
            /\ \A i \in DOMAIN old[k].runs[b] :
                 LET n == new[k].runs[b][i]
                     o == old[k].runs[b][i]
                 IN  n.threads = o.threads /\ n.duration = o.duration
                     /\ n.job = o.job /\ n.ref = o.ref

(* Results that differ in figures alone have the same durations.           *)
LEMMA SameDurations ==
  ASSUME NEW new, IsResults(new), NEW old, IsResults(old), SameRuns(new, old), NEW b
  PROVE  DurationsOf(new, b) = DurationsOf(old, b)
<1>1. ASSUME NEW d PROVE d \in DurationsOf(new, b) <=> d \in DurationsOf(old, b)
  BY DurationFacts DEF SameRuns
<1> QED BY <1>1

(* All runs of the benchmarks are related to the best afterwards.          *)
LEMMA ScaledFacts ==
  ASSUME NEW results, IsResults(results), NEW bs
  PROVE  /\ IsResults(Scaled(results, bs))
         /\ Len(Scaled(results, bs)) = Len(results)
         /\ SameRuns(Scaled(results, bs), results)
         /\ \A b \in bs : Related(Scaled(results, bs), b)
<1> DEFINE new == Scaled(results, bs)
           L == Len(results)
           R(k) == [b \in DOMAIN results[k].runs |->
                      IF b \in bs THEN ScaledRuns(results[k].runs[b], lowest_dur(results, b))
                      ELSE results[k].runs[b]]
<1>1. L \in Nat /\ DOMAIN results = 1 .. L
  <2>1. L \in Nat /\ results = [k \in 1 .. L |-> results[k]]
    BY DEF IsResults
  <2> HIDE DEF L
  <2> QED BY <2>1
<1>2. new = [k \in DOMAIN results |-> [results[k] EXCEPT !.runs = R(k)]]
  BY DEF Scaled
<1>3. ASSUME NEW k \in DOMAIN results
      PROVE  new[k] = [name |-> results[k].name, runs |-> R(k)]
  <2>1. results[k] = [name |-> results[k].name, runs |-> results[k].runs]
    BY DEF IsResults
  <2>2. new[k] = [results[k] EXCEPT !.runs = R(k)]
    BY <1>2
  <2> HIDE DEF new, R
  <2> QED BY <2>1, <2>2
<1>r. ASSUME NEW e, NEW x, NEW y, e = [name |-> x, runs |-> y]
      PROVE  e.name = x /\ e.runs = y /\ e = [name |-> e.name, runs |-> e.runs]
  BY <1>r
<1>4. ASSUME NEW k \in DOMAIN results, NEW b \in DOMAIN results[k].runs
      PROVE  /\ IsList(results[k].runs[b])
             /\ lowest_dur(results, b) \in Nat
             /\ new[k].runs[b] =
                  IF b \in bs THEN ScaledRuns(results[k].runs[b], lowest_dur(results, b))
                  ELSE results[k].runs[b]
  <2>1. IsList(results[k].runs[b])
    BY DEF IsResults
  <2>2. new[k].runs = R(k)
    <3> DEFINE y == R(k)
    <3>1. new[k] = [name |-> results[k].name, runs |-> y]
      BY <1>3
    <3> HIDE DEF new, R, y
    <3>2. QED BY <3>1, <1>r DEF y
  <2> HIDE DEF new
  <2> QED BY <2>1, <2>2, BestFacts
<1>5. DOMAIN new = DOMAIN results /\ new = [k \in 1 .. L |-> new[k]] /\ Len(new) = L
  <2>1. new = [k \in 1 .. L |-> new[k]]
    BY <1>1, <1>2
  <2> HIDE DEF new, L
  <2> QED BY <1>1, <2>1
<1>6. ASSUME NEW k \in DOMAIN results
      PROVE  new[k].name = results[k].name /\ DOMAIN new[k].runs = DOMAIN results[k].runs
             /\ new[k] = [name |-> new[k].name, runs |-> new[k].runs]
             /\ new[k].runs = [b \in DOMAIN new[k].runs |-> new[k].runs[b]]
  <2>1. new[k].name = results[k].name /\ new[k].runs = R(k)
        /\ new[k] = [name |-> new[k].name, runs |-> new[k].runs]
    <3> DEFINE y == R(k)
    <3>1. new[k] = [name |-> results[k].name, runs |-> y]
      BY <1>3
    <3> HIDE DEF new, R, y
    <3>2. QED BY <3>1, <1>r DEF y
  <2>2. DOMAIN R(k) = DOMAIN results[k].runs /\ R(k) = [b \in DOMAIN R(k) |-> R(k)[b]]
    OBVIOUS
  <2> HIDE DEF new, R
  <2> QED BY <2>1, <2>2
<1> HIDE DEF new, L, R
<1>7. IsResults(new)
  <2>1. ASSUME NEW k \in DOMAIN new, NEW b \in DOMAIN new[k].runs PROVE IsList(new[k].runs[b])
    <3>1. k \in DOMAIN results /\ b \in DOMAIN results[k].runs
      BY <1>5, <1>6
    <3> QED BY <1>4, <3>1, ScaledRunsFacts
  <2>2. \A k \in DOMAIN new : new[k].name \in Seq(Text)
    BY <1>5, <1>6 DEF IsResults
  <2> QED BY <1>1, <1>5, <1>6, <2>1, <2>2 DEF IsResults
<1>8. SameRuns(new, results)
  <2>1. ASSUME NEW k \in DOMAIN results, NEW b \in DOMAIN results[k].runs
        PROVE  /\ DOMAIN new[k].runs[b] = DOMAIN results[k].runs[b]
               /\ \A i \in DOMAIN results[k].runs[b] :
                    LET n == new[k].runs[b][i]
                        o == results[k].runs[b][i]
                    IN  n.threads = o.threads /\ n.duration = o.duration
                        /\ n.job = o.job /\ n.ref = o.ref
    <3>1. CASE b \in bs
      <4> DEFINE list == results[k].runs[b]
                 best == lowest_dur(results, b)
      <4>1. IsList(list) /\ best \in Nat /\ new[k].runs[b] = ScaledRuns(list, best)
        BY <1>4, <3>1
      <4> HIDE DEF list, best
      <4>2. DOMAIN new[k].runs[b] = DOMAIN list
            /\ \A i \in DOMAIN list :
                    LET n == new[k].runs[b][i]
                    IN  n.threads = list[i].threads /\ n.duration = list[i].duration
                        /\ n.job = list[i].job /\ n.ref = list[i].ref
        BY <4>1, ScaledRunsFacts
      <4> QED BY <4>2 DEF list
    <3>2. CASE b \notin bs
      BY <1>4, <3>2
    <3> QED BY <3>1, <3>2
  <2> QED BY <1>5, <1>6, <2>1 DEF SameRuns
<1>9. ASSUME NEW b \in bs PROVE Related(new, b)
  <2>1. SUFFICES ASSUME NEW k \in DOMAIN new, b \in DOMAIN new[k].runs,
                        NEW r \in ToSet(new[k].runs[b])
                 PROVE  LET list == new[k].runs[b]
                            fewest == Min({q.threads : q \in ToSet(list)})
                        IN /\ r.scaled # <<>> /\ r.scaled[2] \in DurationsOf(new, b)
                           /\ \A d \in DurationsOf(new, b) : r.scaled[2] =< d
                           /\ \E s \in ToSet(list) : s.threads = fewest
                                /\ r.speedup[1] = s.duration
    BY DEF Related
  <2> DEFINE list == results[k].runs[b]
             best == lowest_dur(results, b)
             mine == new[k].runs[b]
  <2>2. k \in DOMAIN results /\ b \in DOMAIN results[k].runs
    BY <1>5, <1>6, <2>1
  <2>3. IsList(list) /\ best \in Nat /\ mine = ScaledRuns(list, best)
    BY <1>4, <2>2
  <2>4. best \in DurationsOf(new, b) /\ \A d \in DurationsOf(new, b) : best =< d
    <3>1. DurationsOf(new, b) = DurationsOf(results, b)
      BY <1>7, <1>8, SameDurations
    <3> QED BY <2>2, <3>1, BestFacts
  <2>5. PICK i \in DOMAIN mine : r = mine[i]
    BY <2>1 DEF ToSet
  <2> HIDE DEF list, best, mine
  <2>a. IsList(mine) /\ DOMAIN mine = DOMAIN list
    BY <2>3, ScaledRunsFacts
  <2>b. 1 \in DOMAIN list /\ i \in DOMAIN list
    BY <2>3, <2>5, <2>a, ListFacts
  <2>6. IsList(mine) /\ DOMAIN mine = DOMAIN list
        /\ r.scaled = <<list[i].duration, best>>
        /\ r.speedup = <<list[1].duration, list[i].duration>>
    BY <2>3, <2>5, <2>a, <2>b, ScaledRunsFacts
  <2>7. 1 \in DOMAIN list /\ mine[1].duration = list[1].duration
    BY <2>3, <2>b, ScaledRunsFacts
  <2>8. mine[1] \in ToSet(mine) /\ mine[1].threads = Min({q.threads : q \in ToSet(mine)})
    <3>1. mine[1] \in ToSet(mine)
      BY <2>6, <2>7 DEF ToSet
    <3> QED BY <2>6, <3>1, FewestFirst
  <2>9. r.scaled # <<>> /\ r.scaled[2] = best /\ r.speedup[1] = mine[1].duration
    BY <2>6, <2>7
  <2> QED BY <2>4, <2>8, <2>9 DEF mine
<1> QED BY <1>5, <1>7, <1>8, <1>9 DEF new, L
-----------------------------------------------------------------------------
(* Steps, and how much is to be done when a step is its head.              *)
LEMMA StepFacts ==
  ASSUME NEW s \in Steps
  PROVE  /\ s.do \in {"threads", "scale", "collate", "json", "md", "build", "bench", "run"}
         /\ HasJob(s) => s.job \in Jobs
         /\ s.do = "run" => s.bench \in Text /\ s.config \in Text /\ s.threads \in Nat
BY DEF Steps, HasJob

(* What a job has.                                                         *)
LEMMA JobFacts ==
  ASSUME NEW j \in Jobs
  PROVE  /\ j.of \in Text /\ j.name \in Seq(Text) /\ j.ref \in Text
         /\ j.clean \in BOOLEAN /\ j.alone \in BOOLEAN
BY DEF Jobs

(* c has the elements of s, then those of t.                               *)
IsConcat(c, s, t) ==
  /\ Len(s) \in Nat /\ Len(t) \in Nat /\ Len(c) = Len(s) + Len(t)
  /\ \A i \in 1 .. Len(s) : c[i] = s[i]
  /\ \A i \in 1 .. Len(t) : c[Len(s) + i] = t[i]

(* Concatenation, by its positions.                                        *)
LEMMA ConcatFacts ==
  ASSUME NEW S, NEW s \in Seq(S), NEW t \in Seq(S)
  PROVE  s \o t \in Seq(S) /\ IsConcat(s \o t, s, t)
<1>1. s \o t \in Seq(S) /\ Len(s) \in Nat /\ Len(t) \in Nat
      /\ Len(s \o t) = Len(s) + Len(t)
  OBVIOUS
<1>2. ASSUME NEW i \in 1 .. Len(s) PROVE (s \o t)[i] = s[i]
  BY <1>1
<1>3. ASSUME NEW i \in 1 .. Len(t) PROVE (s \o t)[Len(s) + i] = t[i]
  <2>1. i \in Nat /\ Len(s) + i \in 1 .. Len(s) + Len(t) /\ ~ (Len(s) + i =< Len(s))
        /\ Len(s) + i - Len(s) = i
    BY <1>1
  <2> QED BY <1>1, <2>1
<1> DEFINE c == s \o t
<1> HIDE DEF c
<1> QED BY <1>1, <1>2, <1>3 DEF IsConcat, c

(* What main() does at the end, with and without --full-sweep.             *)
LEMMA EndingFacts ==
  ASSUME NEW full \in BOOLEAN
  PROVE  /\ Ending(full) \in Seq(Steps)
         /\ Len(Ending(full)) = IF full THEN 4 ELSE 3
         /\ Ending(full)[1].do = "scale" /\ Ending(full)[2].do = "collate"
         /\ Ending(full)[3].do = IF full THEN "json" ELSE "md"
         /\ full => Ending(full)[4].do = "md"
<1> DEFINE E(do) == [do |-> do]
<1>1. E("scale") \in Steps /\ E("collate") \in Steps /\ E("json") \in Steps /\ E("md") \in Steps
  BY DEF Steps
<1>2. E("scale").do = "scale" /\ E("collate").do = "collate"
      /\ E("json").do = "json" /\ E("md").do = "md"
  OBVIOUS
<1> DEFINE x == <<E("scale"), E("collate")>>
           y == IF full THEN <<E("json")>> ELSE <<>>
           z == <<E("md")>>
<1>3. Ending(full) = x \o y \o z
  BY DEF Ending
<1>4. x \in Seq(Steps) /\ Len(x) = 2 /\ x[1] = E("scale") /\ x[2] = E("collate")
  BY <1>1
<1>5. y \in Seq(Steps) /\ Len(y) = (IF full THEN 1 ELSE 0) /\ (full => y[1] = E("json"))
  BY <1>1
<1>6. z \in Seq(Steps) /\ Len(z) = 1 /\ z[1] = E("md")
  BY <1>1
<1> HIDE DEF x, y, z, E
<1>7. x \o y \in Seq(Steps) /\ Len(x \o y) = (IF full THEN 3 ELSE 2)
      /\ (x \o y)[1] = E("scale") /\ (x \o y)[2] = E("collate")
      /\ (full => (x \o y)[3] = E("json"))
  <2> HIDE DEF x, y
  <2>1. x \o y \in Seq(Steps) /\ IsConcat(x \o y, x, y)
    BY <1>4, <1>5, ConcatFacts
  <2> DEFINE c == x \o y
  <2> HIDE DEF c
  <2>2. 1 \in 1 .. Len(x) /\ 2 \in 1 .. Len(x) /\ (full => 1 \in 1 .. Len(y)) /\ Len(x) + 1 = 3
    BY <1>4, <1>5
  <2>3. c[1] = x[1] /\ c[2] = x[2] /\ (full => c[3] = y[1]) /\ Len(c) = Len(x) + Len(y)
        /\ c \in Seq(Steps)
    BY <2>1, <2>2 DEF IsConcat, c
  <2>4. c[1] = E("scale") /\ c[2] = E("collate") /\ (full => c[3] = E("json"))
        /\ Len(c) = (IF full THEN 3 ELSE 2)
    BY <1>4, <1>5, <2>3
  <2> QED BY <2>3, <2>4 DEF c
<1> DEFINE w == x \o y
<1> HIDE DEF w
<1>8. w \o z \in Seq(Steps) /\ Len(w \o z) = (IF full THEN 4 ELSE 3)
      /\ (w \o z)[1] = E("scale") /\ (w \o z)[2] = E("collate")
      /\ (w \o z)[3] = (IF full THEN E("json") ELSE E("md"))
      /\ (full => (w \o z)[4] = E("md"))
  <2>1. w \in Seq(Steps) /\ Len(w) = (IF full THEN 3 ELSE 2)
    BY <1>7 DEF w
  <2>2. w \o z \in Seq(Steps) /\ IsConcat(w \o z, w, z)
    BY <1>6, <2>1, ConcatFacts
  <2> DEFINE c == w \o z
  <2> HIDE DEF c
  <2>3. 1 \in 1 .. Len(w) /\ 2 \in 1 .. Len(w) /\ (full => 3 \in 1 .. Len(w))
        /\ 1 \in 1 .. Len(z) /\ Len(w) + 1 = (IF full THEN 4 ELSE 3)
    BY <1>6, <2>1
  <2>4. /\ c[1] = w[1] /\ c[2] = w[2] /\ (full => c[3] = w[3])
        /\ (full => c[4] = z[1]) /\ (~ full => c[3] = z[1])
        /\ Len(c) = Len(w) + Len(z) /\ c \in Seq(Steps)
    BY <2>2, <2>3 DEF IsConcat, c
  <2>5. w[1] = E("scale") /\ w[2] = E("collate") /\ (full => w[3] = E("json"))
    BY <1>7 DEF w
  <2>6. c[1] = E("scale") /\ c[2] = E("collate") /\ (full => c[4] = E("md"))
        /\ c[3] = (IF full THEN E("json") ELSE E("md")) /\ Len(c) = IF full THEN 4 ELSE 3
    BY <1>6, <2>1, <2>4, <2>5
  <2> QED BY <2>4, <2>6 DEF c
<1> QED BY <1>2, <1>3, <1>8 DEF w

(* The end of what is to be done.                                          *)
Ends(list, ending) ==
  \A k \in DOMAIN list :
    IF Len(list) - k < Len(ending) THEN list[k] = ending[Len(ending) - (Len(list) - k)]
    ELSE list[k].do \in {"threads", "build", "bench", "run"}

(* What is left to do tells what comes next.                               *)
LEMMA HeadFacts ==
  ASSUME IInv, NEW do, Doing(do)
  PROVE  /\ Len(todo) \in Nat \ {0} /\ DOMAIN todo = 1 .. Len(todo) /\ 1 \in DOMAIN todo
         /\ Head(todo) = todo[1] /\ todo[1].do = do /\ todo[1] \in Steps
         /\ full_sweep \in BOOLEAN
         /\ do \in {"threads", "build", "bench", "run"} => Len(todo) > Len(Ending(full_sweep))
         /\ do = "scale" => Len(todo) = Len(Ending(full_sweep))
         /\ do = "collate" => Len(todo) = Len(Ending(full_sweep)) - 1
         /\ do = "json" => full_sweep = TRUE /\ Len(todo) = 2
         /\ do = "md" => Len(todo) = 1
<1> DEFINE L == Len(todo)
           ending == Ending(full_sweep)
           N == Len(ending)
<1>1. todo \in Seq(Steps) /\ todo # <<>> /\ full_sweep \in BOOLEAN
  BY DEF IInv, TypeOK, Doing
<1>2. L \in Nat \ {0} /\ DOMAIN todo = 1 .. L /\ 1 \in DOMAIN todo
      /\ Head(todo) = todo[1] /\ todo[1] \in Steps
  BY <1>1
<1>3. todo[1].do = do
  BY <1>2 DEF Doing
<1>4. IF L - 1 < N THEN todo[1] = ending[N - (L - 1)]
      ELSE todo[1].do \in {"threads", "build", "bench", "run"}
  <2>1. Ends(todo, ending)
    BY DEF IInv, EndInv, Ends
  <2> HIDE DEF ending
  <2> QED BY <1>2, <2>1 DEF Ends
<1>5. /\ N = IF full_sweep THEN 4 ELSE 3
      /\ ending[1].do = "scale" /\ ending[2].do = "collate"
      /\ ending[3].do = IF full_sweep THEN "json" ELSE "md"
      /\ full_sweep => ending[4].do = "md"
  <2>1. full_sweep \in BOOLEAN
    BY <1>1
  <2> QED BY <2>1, EndingFacts
<1> HIDE DEF L, ending, N
<1>6. ~ (L - 1 < N) => L > N
  BY <1>2, <1>5
<1>7. CASE ~ (L - 1 < N)
  BY <1>1, <1>2, <1>3, <1>4, <1>6, <1>7 DEF L, N, ending
<1>8. CASE L - 1 < N
  <2>1. L \in 1 .. N /\ N \in {3, 4} /\ todo[1] = ending[N - (L - 1)]
    BY <1>2, <1>4, <1>5, <1>8
  <2>2. CASE full_sweep
    <3>1. L = 4 \/ L = 3 \/ L = 2 \/ L = 1
      BY <1>5, <2>1, <2>2
    <3>2. do = IF L = 4 THEN "scale" ELSE IF L = 3 THEN "collate" ELSE IF L = 2 THEN "json" ELSE "md"
      BY <1>3, <1>5, <2>1, <2>2, <3>1
    <3> QED BY <1>1, <1>2, <1>3, <1>5, <2>2, <3>1, <3>2 DEF L, N, ending
  <2>3. CASE ~ full_sweep
    <3>1. L = 3 \/ L = 2 \/ L = 1
      BY <1>5, <2>1, <2>3
    <3>2. do = IF L = 3 THEN "scale" ELSE IF L = 2 THEN "collate" ELSE "md"
      BY <1>3, <1>5, <2>1, <2>3, <3>1
    <3> QED BY <1>1, <1>2, <1>3, <1>5, <2>3, <3>1, <3>2 DEF L, N, ending
  <2> QED BY <2>2, <2>3
<1> QED BY <1>7, <1>8
-----------------------------------------------------------------------------
(* The parts of the invariant, of any list of steps and any results.       *)
BuiltBy(e, job) == \A b \in Sources[job.of] : e[job.of][b] \in {job.ref, NotBuilt}

Builds(list, e) ==
  /\ \A k \in DOMAIN list : HasJob(list[k]) =>
       list[k].job.of \in ToSet(Runtimes) /\ (list[k].job.clean => list[k].job.alone)
  /\ \A k \in DOMAIN list : list[k].do = "build" /\ list[k].job.alone =>
       k + 1 \in DOMAIN list /\ list[k+1] = Step("bench", list[k].job)
  /\ \A k \in DOMAIN list : list[k].do = "bench" /\ list[k].job.clean =>
       \/ k > 1 /\ list[k-1] = Step("build", list[k].job)
       \/ BuiltBy(e, list[k].job) /\ \A j \in 1 .. k-1 : list[j].do # "build"
  /\ \A k \in DOMAIN list : list[k].do = "run" =>
       /\ list[k].bench \in Sources[list[k].job.of] \cap ToSet(Benchmarks)
       /\ \A j \in 1 .. k-1 : list[j].do # "build"
       /\ list[k].job.clean => e[list[k].job.of][list[k].bench] = list[k].job.ref

Orders(list, results) ==
  /\ \A j, k \in DOMAIN list : list[k].do = "bench" =>
       /\ list[j].do = "bench" /\ j # k => list[j].job.name # list[k].job.name
       /\ list[j].do = "run" => list[j].job.name # list[k].job.name
  /\ \A j, k \in DOMAIN list :
       /\ list[j].do = "run" /\ list[k].do = "run" /\ j < k
       /\ NameOf(list[j]) = NameOf(list[k]) /\ list[j].bench = list[k].bench
       => list[j].threads < list[k].threads
  /\ \A i, j \in DOMAIN results : results[i].name = results[j].name => i = j
  /\ \A i \in DOMAIN results : \A k \in DOMAIN list :
       /\ list[k].do = "bench" => Front(results[i].name) # list[k].job.name
       /\ /\ list[k].do = "run" /\ results[i].name = NameOf(list[k])
          /\ list[k].bench \in DOMAIN results[i].runs
          => \A r \in ToSet(results[i].runs[list[k].bench]) : r.threads < list[k].threads

Clean(results) ==
  \A e \in ToSet(results) : \A b \in DOMAIN e.runs : \A r \in ToSet(e.runs[b]) :
    r.job.clean => r.ref = r.job.ref

(* The parts of the invariant are these, of the variables.                 *)
LEMMA Parts ==
  /\ BuildInv <=> Builds(todo, exe)
  /\ OrderInv <=> Ordered(threads) /\ Orders(todo, full_results)
  /\ OfThisBuild <=> Clean(full_results)
<1>1. BuildInv <=> Builds(todo, exe)
  BY DEF BuildInv, Builds, IsBuilt, BuiltBy
<1>2. OrderInv <=> Ordered(threads) /\ Orders(todo, full_results)
  BY DEF OrderInv, Orders, Ordered
<1>3. OfThisBuild <=> Clean(full_results)
  BY DEF OfThisBuild, Clean
<1> QED BY <1>1, <1>2, <1>3

(* The list new has n runs, and then what is left of old without its first *)
(* d steps.                                                                *)
Shifted(new, old, n, d) ==
  /\ new \in Seq(Steps) /\ old \in Seq(Steps) /\ n \in Nat /\ d \in Nat
  /\ Len(new) = n + Len(old) - d
  /\ \A k \in 1 .. n : k \in DOMAIN new /\ new[k].do = "run"
  /\ \A k \in DOMAIN new : k > n => k - n + d \in DOMAIN old /\ new[k] = old[k - n + d]

(* To finish a step is to shift the list by one.                           *)
LEMMA TailShift ==
  ASSUME NEW list \in Seq(Steps), list # <<>>
  PROVE  Shifted(Tail(list), list, 0, 1)
<1>1. Tail(list) \in Seq(Steps) /\ Len(list) \in Nat /\ Len(Tail(list)) = Len(list) - 1
      /\ DOMAIN list = 1 .. Len(list) /\ DOMAIN Tail(list) = 1 .. Len(list) - 1
      /\ \A k \in 1 .. Len(list) - 1 : Tail(list)[k] = list[k+1]
  OBVIOUS
<1>2. \A k \in 1 .. Len(list) - 1 : k - 0 + 1 = k + 1 /\ k + 1 \in 1 .. Len(list)
  BY <1>1
<1>3. 1 .. 0 = {}
  OBVIOUS
<1> QED BY <1>1, <1>2, <1>3 DEF Shifted

(* A shifted list ends as before.                                          *)
LEMMA EndsShift ==
  ASSUME NEW new, NEW old, NEW n, NEW d, Shifted(new, old, n, d),
         NEW ending, Len(ending) \in Nat, Ends(old, ending),
         n > 0 => Len(old) - d >= Len(ending)
  PROVE  Ends(new, ending)
<1>1. /\ Len(new) \in Nat /\ Len(old) \in Nat /\ n \in Nat /\ d \in Nat
      /\ DOMAIN new = 1 .. Len(new) /\ DOMAIN old = 1 .. Len(old)
      /\ Len(new) = n + Len(old) - d
  BY DEF Shifted
<1>2. ASSUME NEW k \in DOMAIN new
      PROVE IF Len(new) - k < Len(ending) THEN new[k] = ending[Len(ending) - (Len(new) - k)]
            ELSE new[k].do \in {"threads", "build", "bench", "run"}
  <2>1. CASE k > n
    <3> DEFINE m == k - n + d
    <3>1. m \in DOMAIN old /\ new[k] = old[m]
      BY <2>1 DEF Shifted
    <3>2. Len(new) - k = Len(old) - m
      BY <1>1
    <3> HIDE DEF m
    <3> QED BY <3>1, <3>2 DEF Ends
  <2>2. CASE ~ (k > n)
    <3>1. k \in 1 .. n
      BY <1>1, <2>2
    <3>2. ~ (Len(new) - k < Len(ending))
      BY <1>1, <3>1
    <3> QED BY <3>1, <3>2 DEF Shifted
  <2> QED BY <2>1, <2>2
<1> QED BY <1>2 DEF Ends

(* Steps that are dropped leave the order as it is.                        *)
SameThreads(new, old) ==
  /\ DOMAIN new = DOMAIN old
  /\ \A k \in DOMAIN old :
       /\ new[k].name = old[k].name
       /\ DOMAIN new[k].runs = DOMAIN old[k].runs
       /\ \A b \in DOMAIN old[k].runs :
            /\ DOMAIN new[k].runs[b] = DOMAIN old[k].runs[b]
            /\ \A i \in DOMAIN old[k].runs[b] :
                 new[k].runs[b][i].threads = old[k].runs[b][i].threads

(* Fewer steps keep the order of what is to be run.                        *)
LEMMA OrdersDrop ==
  ASSUME NEW new, NEW old, NEW d, Shifted(new, old, 0, d),
         NEW results, NEW before, SameThreads(results, before), Orders(old, before)
  PROVE  Orders(new, results)
<1> DEFINE at(k) == k - 0 + d
<1>1. \A k \in DOMAIN new : at(k) \in DOMAIN old /\ new[k] = old[at(k)]
  <2>1. \A k \in DOMAIN new : k > 0
    BY DEF Shifted
  <2> QED BY <2>1 DEF Shifted
<1>2. \A j, k \in DOMAIN new : (at(j) < at(k) <=> j < k) /\ (at(j) = at(k) <=> j = k)
  BY DEF Shifted
<1> HIDE DEF at
<1>3. ASSUME NEW j \in DOMAIN new, NEW k \in DOMAIN new, new[k].do = "bench"
      PROVE  /\ new[j].do = "bench" /\ j # k => new[j].job.name # new[k].job.name
             /\ new[j].do = "run" => new[j].job.name # new[k].job.name
  BY <1>1, <1>2, <1>3 DEF Orders
<1>4. ASSUME NEW j \in DOMAIN new, NEW k \in DOMAIN new,
             new[j].do = "run", new[k].do = "run", j < k,
             NameOf(new[j]) = NameOf(new[k]), new[j].bench = new[k].bench
      PROVE  new[j].threads < new[k].threads
  <2> DEFINE u == at(j)
             v == at(k)
  <2>1. u \in DOMAIN old /\ v \in DOMAIN old /\ u < v /\ new[j] = old[u] /\ new[k] = old[v]
    BY <1>1, <1>2, <1>4
  <2> HIDE DEF u, v
  <2> QED BY <1>4, <2>1 DEF Orders
<1>5. ASSUME NEW i \in DOMAIN results, NEW j \in DOMAIN results, results[i].name = results[j].name
      PROVE  i = j
  BY <1>5 DEF Orders, SameThreads
<1>6. ASSUME NEW i \in DOMAIN results, NEW k \in DOMAIN new
      PROVE  /\ new[k].do = "bench" => Front(results[i].name) # new[k].job.name
             /\ /\ new[k].do = "run" /\ results[i].name = NameOf(new[k])
                /\ new[k].bench \in DOMAIN results[i].runs
                => \A r \in ToSet(results[i].runs[new[k].bench]) : r.threads < new[k].threads
  <2> DEFINE v == at(k)
  <2>1. v \in DOMAIN old /\ new[k] = old[v]
    BY <1>1
  <2>2. i \in DOMAIN before /\ results[i].name = before[i].name
        /\ DOMAIN results[i].runs = DOMAIN before[i].runs
    BY DEF SameThreads
  <2> HIDE DEF v
  <2>3. new[k].do = "bench" => Front(results[i].name) # new[k].job.name
    BY <2>1, <2>2 DEF Orders
  <2>4. ASSUME new[k].do = "run", results[i].name = NameOf(new[k]),
               new[k].bench \in DOMAIN results[i].runs,
               NEW r \in ToSet(results[i].runs[new[k].bench])
        PROVE  r.threads < new[k].threads
    <3> DEFINE b == new[k].bench
    <3>1. PICK x \in DOMAIN results[i].runs[b] : r = results[i].runs[b][x]
      BY <2>4 DEF ToSet
    <3>2. x \in DOMAIN before[i].runs[b] /\ r.threads = before[i].runs[b][x].threads
      BY <2>2, <2>4, <3>1 DEF SameThreads
    <3>3. before[i].runs[b][x] \in ToSet(before[i].runs[b])
      BY <3>2 DEF ToSet
    <3>4. \A q \in ToSet(before[i].runs[b]) : q.threads < new[k].threads
      BY <2>1, <2>2, <2>4 DEF Orders
    <3> QED BY <3>2, <3>3, <3>4
  <2> QED BY <2>3, <2>4
<1> QED BY <1>3, <1>4, <1>5, <1>6 DEF Orders

(* What scaling keeps includes the numbers of threads.                     *)
LEMMA SameIsSame ==
  /\ \A new, old : SameRuns(new, old) => SameThreads(new, old)
  /\ \A old : SameThreads(old, old)
BY DEF SameRuns, SameThreads

(* If no build is dropped, what is built remains so.                       *)
LEMMA BuildsDrop ==
  ASSUME NEW new, NEW old, Shifted(new, old, 0, 1), NEW e, Builds(old, e),
         old # <<>>, old[1].do # "build"
  PROVE  Builds(new, e)
<1>1. /\ Len(new) \in Nat /\ Len(old) \in Nat
      /\ DOMAIN new = 1 .. Len(new) /\ DOMAIN old = 1 .. Len(old)
      /\ Len(new) = Len(old) - 1
  BY DEF Shifted
<1>2. \A k \in DOMAIN new : k + 1 \in DOMAIN old /\ new[k] = old[k+1]
  <2>1. \A k \in DOMAIN new : k > 0 /\ k - 0 + 1 = k + 1
    BY <1>1
  <2> QED BY <2>1 DEF Shifted
<1>3. \A k \in DOMAIN new : HasJob(new[k]) =>
        new[k].job.of \in ToSet(Runtimes) /\ (new[k].job.clean => new[k].job.alone)
  BY <1>2 DEF Builds
<1>4. ASSUME NEW k \in DOMAIN new, new[k].do = "build", new[k].job.alone
      PROVE  k + 1 \in DOMAIN new /\ new[k+1] = Step("bench", new[k].job)
  <2> DEFINE m == k + 1
  <2>1. m \in DOMAIN old /\ new[k] = old[m]
    BY <1>2
  <2> HIDE DEF m
  <2>2. m + 1 \in DOMAIN old /\ old[m+1] = Step("bench", new[k].job)
    BY <1>4, <2>1 DEF Builds
  <2>3. k + 1 \in DOMAIN new
    BY <1>1, <2>2 DEF m
  <2> QED BY <1>2, <2>2, <2>3 DEF m
<1>a. ASSUME NEW k \in DOMAIN new, \A j \in 1 .. k : old[j].do # "build"
      PROVE  \A j \in 1 .. k-1 : new[j].do # "build"
  <2>1. ASSUME NEW j \in 1 .. k-1 PROVE new[j].do # "build"
    <3>1. j \in DOMAIN new /\ j + 1 \in 1 .. k
      BY <1>1
    <3> QED BY <1>2, <1>a, <3>1
  <2> QED BY <2>1
<1>5. ASSUME NEW k \in DOMAIN new, new[k].do = "bench", new[k].job.clean
      PROVE  \/ k > 1 /\ new[k-1] = Step("build", new[k].job)
             \/ BuiltBy(e, new[k].job) /\ \A j \in 1 .. k-1 : new[j].do # "build"
  <2> DEFINE m == k + 1
  <2>1. m \in DOMAIN old /\ new[k] = old[m] /\ k \in Nat /\ m - 1 = k
    BY <1>1, <1>2
  <2> HIDE DEF m
  <2>2. \/ m > 1 /\ old[m-1] = Step("build", new[k].job)
        \/ BuiltBy(e, new[k].job) /\ \A j \in 1 .. m-1 : old[j].do # "build"
    BY <1>5, <2>1 DEF Builds
  <2>3. CASE old[m-1] = Step("build", new[k].job)
    <3>1. old[k].do = "build"
      BY <2>1, <2>3 DEF Step
    <3>2. k # 1
      BY <3>1
    <3>3. k > 1 /\ k - 1 \in DOMAIN new /\ k - 1 + 1 = k
      BY <1>1, <2>1, <3>2
    <3>4. new[k-1] = old[k]
      <4> DEFINE p == k - 1
      <4>1. p \in DOMAIN new /\ p + 1 = k
        BY <3>3
      <4> HIDE DEF p
      <4>2. new[p] = old[k]
        BY <1>2, <4>1
      <4> QED BY <4>2 DEF p
    <3> QED BY <2>1, <2>3, <3>3, <3>4
  <2>4. CASE BuiltBy(e, new[k].job) /\ \A j \in 1 .. m-1 : old[j].do # "build"
    BY <1>a, <2>1, <2>4
  <2> QED BY <2>2, <2>3, <2>4
<1>6. ASSUME NEW k \in DOMAIN new, new[k].do = "run"
      PROVE  /\ new[k].bench \in Sources[new[k].job.of] \cap ToSet(Benchmarks)
             /\ \A j \in 1 .. k-1 : new[j].do # "build"
             /\ new[k].job.clean => e[new[k].job.of][new[k].bench] = new[k].job.ref
  <2> DEFINE m == k + 1
  <2>1. m \in DOMAIN old /\ new[k] = old[m] /\ m - 1 = k
    BY <1>1, <1>2
  <2> HIDE DEF m
  <2>2. /\ new[k].bench \in Sources[new[k].job.of] \cap ToSet(Benchmarks)
        /\ \A j \in 1 .. m-1 : old[j].do # "build"
        /\ new[k].job.clean => e[new[k].job.of][new[k].bench] = new[k].job.ref
    BY <1>6, <2>1 DEF Builds
  <2> QED BY <1>a, <2>1, <2>2
<1> QED BY <1>3, <1>4, <1>5, <1>6 DEF Builds

(* And in the next state.                                                  *)
LEMMA PartsPrimed ==
  /\ BuildInv' <=> Builds(todo', exe')
  /\ OrderInv' <=> Ordered(threads') /\ Orders(todo', full_results')
  /\ OfThisBuild' <=> Clean(full_results')
<1>1. BuildInv' <=> Builds(todo', exe')
  BY DEF BuildInv, Builds, IsBuilt, BuiltBy
<1>2. OrderInv' <=> Ordered(threads') /\ Orders(todo', full_results')
  BY DEF OrderInv, Orders, Ordered
<1>3. OfThisBuild' <=> Clean(full_results')
  BY DEF OfThisBuild, Clean
<1> QED BY <1>1, <1>2, <1>3

(* Done finishes the step at the head, and the ending stays.               *)
LEMMA DoneShift ==
  ASSUME IInv, NEW do, Doing(do), Done
  PROVE  /\ Shifted(todo', todo, 0, 1) /\ todo # <<>>
         /\ Len(todo') = Len(todo) - 1 /\ Len(todo) \in Nat
         /\ Ends(todo', Ending(full_sweep)) /\ Len(Ending(full_sweep)) \in {3, 4}
<1>1. todo \in Seq(Steps) /\ todo # <<>> /\ todo' = Tail(todo) /\ full_sweep \in BOOLEAN
  BY DEF IInv, TypeOK, Doing, Done
<1>2. Shifted(todo', todo, 0, 1)
  BY <1>1, TailShift
<1>3. Len(todo') = Len(todo) - 1 /\ Len(todo) \in Nat
  BY <1>1
<1>4. Len(Ending(full_sweep)) = IF full_sweep THEN 4 ELSE 3
  BY <1>1, EndingFacts
<1>5. Ends(todo, Ending(full_sweep))
  BY DEF IInv, EndInv, Ends
<1>6. Ends(todo', Ending(full_sweep))
  BY <1>2, <1>4, <1>5, EndsShift
<1> QED BY <1>1, <1>2, <1>3, <1>4, <1>6

(* While there is more to do than the end, the files are those before.     *)
LEMMA EarlyEnd ==
  ASSUME IInv, Ends(todo', Ending(full_sweep)), todo' \in Seq(Steps),
         Len(todo) >= Len(Ending(full_sweep)), Len(todo') >= Len(Ending(full_sweep)),
         UNCHANGED <<full_sweep, files>>
  PROVE  EndInv'
<1> DEFINE N == Len(Ending(full_sweep))
<1>1. N \in {3, 4}
  <2>1. full_sweep \in BOOLEAN
    BY DEF IInv, TypeOK
  <2> QED BY <2>1, EndingFacts
<1>2. Len(todo) \in Nat /\ Len(todo') \in Nat /\ Len(todo) >= N /\ Len(todo') >= N
  BY DEF IInv, TypeOK
<1>3. ~ (Len(todo') < N) /\ ~ (Len(todo') < N - 1) /\ ~ (Len(todo') < 2)
      /\ ~ (Len(todo) < 2) /\ todo' # <<>>
  <2> HIDE DEF N
  <2> QED BY <1>1, <1>2
<1>4. ("RESULTS.json" \in DOMAIN files) <=> (full_sweep /\ Len(todo) < 2)
  BY DEF IInv, EndInv
<1> QED BY <1>3, <1>4 DEF EndInv, Ends

(* One lemma for each action: it preserves the invariant.                  *)
LEMMA build_runtime_IInv ==
  ASSUME IInv, build_runtime
  PROVE  IInv'
<1> DEFINE job == todo[1].job
           L == Len(todo)
           N == Len(Ending(full_sweep))
<1>1. /\ L \in Nat \ {0} /\ DOMAIN todo = 1 .. L /\ 1 \in DOMAIN todo
      /\ Head(todo) = todo[1] /\ todo[1].do = "build" /\ todo[1] \in Steps
      /\ full_sweep \in BOOLEAN /\ L > N /\ Doing("build")
  BY HeadFacts DEF build_runtime
<1>2. N \in {3, 4} /\ Len(Ending(full_sweep)) \in Nat
  BY <1>1, EndingFacts
<1> DEFINE Result(configured, built) == [b \in Sources[job.of] |->
             IF b \notin built THEN Removed(job, b)
             ELSE IF configured THEN job.ref ELSE Before]
<1>3. PICK configured \in BOOLEAN, built \in SUBSET Sources[job.of] :
        /\ job.clean /\ ~ configured => built = {}
        /\ exe' = [exe EXCEPT ![job.of] = Result(configured, built)]
        /\ Done \/ AfterFailure(job)
  BY <1>1, ZenonT(60) DEF build_runtime
<1>4. UNCHANGED <<full_sweep, threads, full_results, collated, files>>
  BY DEF build_runtime
<1>5. todo \in Seq(Steps) /\ todo # <<>> /\ Builds(todo, exe) /\ Ends(todo, Ending(full_sweep))
      /\ Orders(todo, full_results) /\ TypeOK
  BY <1>1, Parts DEF IInv, TypeOK, EndInv, Ends
<1>6. job \in Jobs /\ job.ref \in Text /\ job.of \in ToSet(Runtimes)
  BY <1>1, <1>5, StepFacts, JobFacts DEF Builds, HasJob
<1> HIDE DEF job, L, N
<1>7. /\ DOMAIN exe' = ToSet(Runtimes)
      /\ \A r \in ToSet(Runtimes) : exe'[r] \in [Sources[r] -> Text]
  <2> DEFINE new == Result(configured, built)
  <2>1. DOMAIN exe = ToSet(Runtimes) /\ \A r \in ToSet(Runtimes) : exe[r] \in [Sources[r] -> Text]
    BY <1>5 DEF TypeOK
  <2>2. new \in [Sources[job.of] -> Text]
    <3> DEFINE old == exe[job.of]
               S == Sources[job.of]
    <3>1. old \in [S -> Text] /\ {NotBuilt, Before, job.ref} \subseteq Text
      <4>1. exe[job.of] \in [Sources[job.of] -> Text]
        BY <1>6, <2>1
      <4>2. {NotBuilt, Before} \subseteq Text
        BY DEF NotBuilt, Before, Text
      <4> QED BY <1>6, <4>1, <4>2
    <3>2. \A b \in S : Removed(job, b) \in {NotBuilt, old[b]}
      BY DEF Removed
    <3> HIDE DEF old, S
    <3>3. \A b \in S : (IF b \notin built THEN Removed(job, b)
                       ELSE IF configured THEN job.ref ELSE Before) \in Text
      BY <3>1, <3>2
    <3> QED BY <3>3 DEF old, S
  <2>3. exe' = [exe EXCEPT ![job.of] = new]
    BY <1>3
  <2> HIDE DEF new
  <2> QED BY <2>1, <2>2, <2>3, <1>6
<1>9. job.clean => BuiltBy(exe', job)
  <2>1. \A b \in Sources[job.of] : job.clean =>
          Result(configured, built)[b] \in {job.ref, NotBuilt}
    BY <1>3 DEF Removed
  <2>2. exe'[job.of] = Result(configured, built)
    BY <1>3, <1>5, <1>6 DEF TypeOK
  <2> HIDE DEF Result
  <2> QED BY <2>1, <2>2 DEF BuiltBy
<1>r. \A k \in DOMAIN todo : todo[k].do # "run"
  <2>1. ASSUME NEW k \in DOMAIN todo, todo[k].do = "run" PROVE FALSE
    <3>1. k # 1 /\ 1 \in 1 .. k-1
      BY <1>1, <2>1
    <3> QED BY <1>1, <1>5, <2>1, <3>1 DEF Builds
  <2> QED BY <2>1
<1> HIDE DEF Result
<1>10. CASE todo' = Tail(todo)
  <2>1. /\ Shifted(todo', todo, 0, 1) /\ Len(todo') = L - 1 /\ Len(todo') >= N
        /\ Ends(todo', Ending(full_sweep))
    BY <1>1, <1>10, DoneShift DEF Done, L, N
  <2>2. TypeOK'
    BY <1>4, <1>5, <1>7, <2>1 DEF TypeOK, Shifted
  <2>3. EndInv'
    BY <1>1, <1>4, <2>1, EarlyEnd DEF L, N, Shifted
  <2>4. Orders(todo', full_results')
    BY <1>4, <1>5, <2>1, OrdersDrop, SameIsSame
  <2>5. Builds(todo', exe')
    <3> DEFINE new == todo'
               e == exe'
    <3>1. /\ L \in Nat /\ DOMAIN new = 1 .. L - 1 /\ DOMAIN todo = 1 .. L
          /\ \A k \in DOMAIN new : k \in Nat /\ k + 1 \in DOMAIN todo /\ new[k] = todo[k+1]
      BY <1>1, <1>5, <1>10 DEF L
    <3> HIDE DEF new, e
    <3>2. \A k \in DOMAIN new : HasJob(new[k]) =>
            new[k].job.of \in ToSet(Runtimes) /\ (new[k].job.clean => new[k].job.alone)
      BY <1>5, <3>1 DEF Builds
    <3>3. \A k \in DOMAIN new : new[k].do # "run"
      BY <1>r, <3>1
    <3>4. ASSUME NEW k \in DOMAIN new, new[k].do = "build", new[k].job.alone
          PROVE  k + 1 \in DOMAIN new /\ new[k+1] = Step("bench", new[k].job)
      <4> DEFINE m == k + 1
      <4>1. m \in DOMAIN todo /\ new[k] = todo[m]
        BY <3>1
      <4> HIDE DEF m
      <4>2. m + 1 \in DOMAIN todo /\ todo[m+1] = Step("bench", new[k].job)
        BY <1>5, <3>4, <4>1 DEF Builds
      <4>3. k + 1 \in DOMAIN new
        BY <3>1, <4>2 DEF m
      <4> QED BY <3>1, <4>2, <4>3 DEF m
    <3>5. ASSUME NEW k \in DOMAIN new, new[k].do = "bench", new[k].job.clean
          PROVE  \/ k > 1 /\ new[k-1] = Step("build", new[k].job)
                 \/ BuiltBy(e, new[k].job) /\ \A j \in 1 .. k-1 : new[j].do # "build"
      <4> DEFINE m == k + 1
      <4>1. m \in DOMAIN todo /\ new[k] = todo[m] /\ k \in Nat /\ m - 1 = k
            /\ 1 \in 1 .. m-1 /\ k \in 1 .. L - 1
        BY <3>1
      <4> HIDE DEF m
      <4>2. todo[m-1] = Step("build", new[k].job)
        BY <1>1, <1>5, <3>5, <4>1 DEF Builds
      <4>3. todo[k] = Step("build", new[k].job)
        BY <4>1, <4>2
      <4>4. CASE k = 1
        <5>1. new[k].job = job
          BY <4>3, <4>4 DEF Step, job
        <5>2. BuiltBy(e, new[k].job)
          BY <1>9, <1>10, <3>5, <5>1 DEF e
        <5>3. 1 .. k - 1 = {}
          BY <4>4
        <5> QED BY <5>2, <5>3
      <4>5. CASE k # 1
        <5> DEFINE p == k - 1
        <5>1. k > 1 /\ p \in DOMAIN new /\ p + 1 = k
          BY <3>1, <4>1, <4>5
        <5> HIDE DEF p
        <5>2. new[p] = todo[k]
          BY <3>1, <5>1
        <5> QED BY <4>3, <5>1, <5>2 DEF p
      <4> QED BY <4>4, <4>5
    <3> QED BY <3>2, <3>3, <3>4, <3>5 DEF Builds, new, e
  <2>6. OfThisBuild' /\ Ordered(threads') /\ DatasetInv'
    BY <1>4, PartsPrimed, Parts DEF IInv, DatasetInv
  <2> QED BY <2>2, <2>3, <2>4, <2>5, <2>6, PartsPrimed DEF IInv
<1>11. CASE todo' = Tail(Tail(todo)) /\ job.alone
  <2>1. 1 + 1 \in DOMAIN todo /\ todo[1+1] = Step("bench", job)
    BY <1>1, <1>5, <1>11 DEF Builds, job
  <2>2. 2 \in DOMAIN todo /\ todo[2].do = "bench"
    BY <2>1 DEF Step
  <2>3. L \in Nat /\ L - 2 >= N
    <3>1. Ends(todo, Ending(full_sweep))
      BY <1>5
    <3>2. ASSUME L - 2 < N PROVE FALSE
      <4> DEFINE ending == Ending(full_sweep)
                 i == N - (L - 2)
      <4>1. todo[2] = ending[i]
        BY <2>2, <3>1, <3>2 DEF Ends, L, N
      <4>2. i = 1
        BY <1>1, <1>2, <3>2
      <4>3. ending[1].do = "scale"
        BY <1>1, EndingFacts
      <4> QED BY <2>2, <4>1, <4>2, <4>3
    <3> QED BY <1>1, <1>2, <3>2
  <2>4. /\ todo' \in Seq(Steps) /\ Len(todo') = L - 2 /\ DOMAIN todo' = 1 .. L - 2
        /\ \A k \in 1 .. L - 2 : k \in Nat /\ k + 2 \in DOMAIN todo /\ todo'[k] = todo[k+2]
    <3> DEFINE tail == Tail(todo)
    <3>1. tail \in Seq(Steps) /\ Len(tail) = L - 1 /\ DOMAIN todo = 1 .. L
          /\ \A k \in 1 .. L - 1 : tail[k] = todo[k+1]
      BY <1>1, <1>5 DEF L
    <3> HIDE DEF tail
    <3>2. tail # <<>> /\ L - 1 \in Nat
      <4>1. L - 1 \in Nat /\ L - 1 > 0
        BY <1>2, <2>3
      <4> QED BY <3>1, <4>1
    <3>3. todo' \in Seq(Steps) /\ Len(todo') = L - 2
          /\ \A k \in 1 .. L - 2 : todo'[k] = tail[k+1]
      <4>1. todo' = Tail(tail)
        BY <1>11 DEF tail
      <4>2. Len(tail) - 1 = L - 2
        BY <2>3, <3>1
      <4> QED BY <3>1, <3>2, <4>1, <4>2
    <3>4. \A k \in 1 .. L - 2 : k \in Nat /\ k + 1 \in 1 .. L - 1 /\ k + 2 \in 1 .. L
                               /\ k + 1 + 1 = k + 2
      BY <2>3
    <3>5. ASSUME NEW k \in 1 .. L - 2
          PROVE  k \in Nat /\ k + 2 \in DOMAIN todo /\ todo'[k] = todo[k+2]
      <4>1. todo'[k] = tail[k+1] /\ tail[k+1] = todo[k+1+1]
        BY <3>1, <3>3, <3>4
      <4> QED BY <3>1, <3>4, <4>1
    <3>6. DOMAIN todo' = 1 .. L - 2
      BY <2>3, <3>3
    <3> QED BY <3>3, <3>5, <3>6
  <2>5. Shifted(todo', todo, 0, 2)
    <3>1. 1 .. 0 = {} /\ \A k \in 1 .. L - 2 : k - 0 + 2 = k + 2
      BY <2>3
    <3>2. Len(todo') = 0 + Len(todo) - 2
      BY <2>3, <2>4 DEF L
    <3> QED BY <1>5, <2>4, <3>1, <3>2 DEF Shifted
  <2>6. Ends(todo', Ending(full_sweep))
    BY <1>2, <1>5, <2>5, EndsShift
  <2>7. TypeOK'
    BY <1>4, <1>5, <1>7, <2>4 DEF TypeOK
  <2>8. EndInv'
    BY <1>1, <1>4, <2>3, <2>4, <2>6, EarlyEnd DEF L, N
  <2>9. Orders(todo', full_results')
    BY <1>4, <1>5, <2>5, OrdersDrop, SameIsSame
  <2>10. Builds(todo', exe')
    <3> DEFINE new == todo'
               e == exe'
    <3>1. /\ L \in Nat /\ DOMAIN new = 1 .. L - 2 /\ DOMAIN todo = 1 .. L
          /\ \A k \in DOMAIN new : k \in Nat /\ k + 2 \in DOMAIN todo /\ new[k] = todo[k+2]
      BY <1>1, <2>4 DEF L
    <3> HIDE DEF new, e
    <3>2. \A k \in DOMAIN new : HasJob(new[k]) =>
            new[k].job.of \in ToSet(Runtimes) /\ (new[k].job.clean => new[k].job.alone)
      BY <1>5, <3>1 DEF Builds
    <3>3. \A k \in DOMAIN new : new[k].do # "run"
      BY <1>r, <3>1
    <3>4. ASSUME NEW k \in DOMAIN new, new[k].do = "build", new[k].job.alone
          PROVE  k + 1 \in DOMAIN new /\ new[k+1] = Step("bench", new[k].job)
      <4> DEFINE m == k + 2
      <4>1. m \in DOMAIN todo /\ new[k] = todo[m]
        BY <3>1
      <4> HIDE DEF m
      <4>2. m + 1 \in DOMAIN todo /\ todo[m+1] = Step("bench", new[k].job)
        BY <1>5, <3>4, <4>1 DEF Builds
      <4>3. k + 1 \in DOMAIN new /\ k + 1 + 2 = m + 1
        BY <3>1, <4>2 DEF m
      <4>4. new[k+1] = todo[m+1]
        <5> DEFINE p == k + 1
        <5>1. p \in DOMAIN new /\ p + 2 = m + 1
          BY <4>3
        <5> HIDE DEF p
        <5>2. new[p] = todo[m+1]
          BY <3>1, <5>1
        <5> QED BY <5>2 DEF p
      <4> QED BY <4>2, <4>3, <4>4
    <3>5. ASSUME NEW k \in DOMAIN new, new[k].do = "bench", new[k].job.clean
          PROVE  \/ k > 1 /\ new[k-1] = Step("build", new[k].job)
                 \/ BuiltBy(e, new[k].job) /\ \A j \in 1 .. k-1 : new[j].do # "build"
      <4> DEFINE m == k + 2
      <4>1. m \in DOMAIN todo /\ new[k] = todo[m] /\ k \in Nat /\ m - 1 = k + 1
            /\ 1 \in 1 .. m-1 /\ k \in 1 .. L - 2
        BY <3>1
      <4> HIDE DEF m
      <4>2. todo[m-1] = Step("build", new[k].job)
        BY <1>1, <1>5, <3>5, <4>1 DEF Builds
      <4>3. todo[k+1] = Step("build", new[k].job) /\ todo[k+1].do = "build"
        BY <4>1, <4>2 DEF Step
      <4>4. k # 1
        BY <2>1, <4>3 DEF Step
      <4> DEFINE p == k - 1
      <4>5. k > 1 /\ p \in DOMAIN new /\ p + 2 = k + 1
        BY <3>1, <4>1, <4>4
      <4> HIDE DEF p
      <4>6. new[p] = todo[k+1]
        BY <3>1, <4>5
      <4> QED BY <4>3, <4>5, <4>6 DEF p
    <3> QED BY <3>2, <3>3, <3>4, <3>5 DEF Builds, new, e
  <2>11. OfThisBuild' /\ Ordered(threads') /\ DatasetInv'
    BY <1>4, PartsPrimed, Parts DEF IInv, DatasetInv
  <2> QED BY <2>7, <2>8, <2>9, <2>10, <2>11, PartsPrimed DEF IInv
<1>12. todo' = Tail(todo) \/ (todo' = Tail(Tail(todo)) /\ job.alone)
  <2>1. job.alone \in BOOLEAN
    BY <1>6, JobFacts
  <2> QED BY <1>3, <2>1 DEF Done, AfterFailure
<1> QED BY <1>10, <1>11, <1>12

(* If a step is done and nothing else is, the parts that depend on what is *)
(* to be done hold again.                                                  *)
LEMMA DoneParts ==
  ASSUME IInv, NEW do, Doing(do), Done, do # "build"
  PROVE  /\ todo' \in Seq(Steps) /\ Len(todo') = Len(todo) - 1 /\ Len(todo) \in Nat
         /\ Ends(todo', Ending(full_sweep)) /\ Len(Ending(full_sweep)) \in {3, 4}
         /\ Builds(todo', exe)
         /\ \A results : SameThreads(results, full_results) => Orders(todo', results)
<1>1. /\ Shifted(todo', todo, 0, 1) /\ todo # <<>>
      /\ Len(todo') = Len(todo) - 1 /\ Len(todo) \in Nat
      /\ Ends(todo', Ending(full_sweep)) /\ Len(Ending(full_sweep)) \in {3, 4}
  BY DoneShift
<1>2. todo[1].do # "build"
  BY HeadFacts
<1>3. Builds(todo, exe) /\ Orders(todo, full_results)
  BY Parts DEF IInv
<1>4. Builds(todo', exe)
  BY <1>1, <1>2, <1>3, BuildsDrop
<1>5. \A results : SameThreads(results, full_results) => Orders(todo', results)
  BY <1>1, <1>3, OrdersDrop
<1> QED BY <1>1, <1>4, <1>5 DEF Shifted

LEMMA get_threads_sweep_IInv ==
  ASSUME IInv, get_threads_sweep
  PROVE  IInv'
<1>1. Doing("threads") /\ Done
      /\ UNCHANGED <<full_sweep, exe, full_results, collated, files>>
  BY DEF get_threads_sweep
<1>2. threads' \in Seq(Nat) /\ Ordered(threads')
  <2>1. PICK m \in Machines :
          \/ LET sweep == threads_sweep(m.kinds, m.pus)
             IN  threads' = IF full_sweep THEN sweep ELSE <<Last(sweep)>>
          \/ \E proc \in get_nproc_fallback(m.kinds) :
               threads' = IF full_sweep THEN get_threads_sweep_fallback(proc)
                          ELSE <<proc>>
    BY DEF get_threads_sweep
  <2>2. m.kinds \in Seq(Nat) /\ m.kinds # <<>> /\ m.pus \in Nat
    <3>1. m.kinds \in Seq(Nat \ {0}) /\ m.kinds # <<>> /\ m.pus \in Nat
      BY DriverAssumption DEF IsMachine
    <3> QED BY <3>1
  <2>3. \A n \in Nat : <<n>> \in Seq(Nat) /\ Ordered(<<n>>)
    BY DEF Ordered
  <2>4. CASE LET sweep == threads_sweep(m.kinds, m.pus)
             IN  threads' = IF full_sweep THEN sweep ELSE <<Last(sweep)>>
    <3> DEFINE sweep == threads_sweep(m.kinds, m.pus)
    <3>1. sweep \in Seq(Nat) /\ sweep # <<>> /\ Ordered(sweep)
      BY <2>2, SweepOrdered
    <3>2. threads' = sweep \/ threads' = <<Last(sweep)>>
      BY <2>4
    <3> HIDE DEF sweep
    <3>3. Last(sweep) \in Nat
      BY <3>1 DEF Last
    <3> QED BY <2>3, <3>1, <3>2, <3>3
  <2>5. CASE \E proc \in get_nproc_fallback(m.kinds) :
               threads' = IF full_sweep THEN get_threads_sweep_fallback(proc)
                          ELSE <<proc>>
    <3>1. PICK proc \in get_nproc_fallback(m.kinds) :
            threads' = get_threads_sweep_fallback(proc) \/ threads' = <<proc>>
      BY <2>5
    <3>2. proc \in Nat
      BY <2>2, <3>1, CoreCount DEF get_nproc_fallback, get_nproc
    <3> QED BY <2>3, <3>1, <3>2, FallbackOrdered
  <2> QED BY <2>1, <2>4, <2>5
<1>3. /\ todo' \in Seq(Steps) /\ Len(todo') = Len(todo) - 1 /\ Len(todo) \in Nat
      /\ Ends(todo', Ending(full_sweep)) /\ Len(Ending(full_sweep)) \in {3, 4}
      /\ Builds(todo', exe) /\ Orders(todo', full_results)
  BY <1>1, DoneParts, SameIsSame
<1>4. Len(todo) > Len(Ending(full_sweep))
  BY <1>1, HeadFacts
<1>5. EndInv'
  BY <1>1, <1>3, <1>4, EarlyEnd
<1>6. TypeOK'
  BY <1>1, <1>2, <1>3 DEF IInv, TypeOK
<1>7. OfThisBuild' /\ BuildInv' /\ OrderInv' /\ DatasetInv'
  BY <1>1, <1>2, <1>3, Parts, PartsPrimed DEF IInv, DatasetInv
<1> QED BY <1>5, <1>6, <1>7 DEF IInv

LEMMA scale_IInv ==
  ASSUME IInv, scale
  PROVE  IInv'
<1> DEFINE N == Len(Ending(full_sweep))
<1>1. Doing("scale") /\ Done /\ full_results' = Scaled(full_results, ToSet(Benchmarks))
      /\ UNCHANGED <<full_sweep, threads, exe, collated, files>>
  BY DEF scale
<1>2. IsResults(full_results)
  BY DEF IInv, TypeOK
<1>3. /\ IsResults(full_results') /\ SameRuns(full_results', full_results)
      /\ \A b \in ToSet(Benchmarks) : Related(full_results', b)
  BY <1>1, <1>2, ScaledFacts
<1>4. SameThreads(full_results', full_results)
  BY <1>3, SameIsSame
<1>5. /\ todo' \in Seq(Steps) /\ Len(todo') = Len(todo) - 1 /\ Len(todo) \in Nat
      /\ Ends(todo', Ending(full_sweep)) /\ Len(Ending(full_sweep)) \in {3, 4}
      /\ Builds(todo', exe) /\ Orders(todo', full_results')
  BY <1>1, <1>4, DoneParts
<1>6. Len(todo) = N
  BY <1>1, HeadFacts
<1>7. Clean(full_results')
  <2>1. ASSUME NEW e \in ToSet(full_results'), NEW b \in DOMAIN e.runs, NEW r \in ToSet(e.runs[b]),
               r.job.clean
        PROVE  r.ref = r.job.ref
    <3>1. PICK k \in DOMAIN full_results' : e = full_results'[k]
      BY DEF ToSet
    <3>2. PICK i \in DOMAIN e.runs[b] : r = e.runs[b][i]
      BY DEF ToSet
    <3> DEFINE d == full_results[k]
    <3>3. k \in DOMAIN full_results /\ b \in DOMAIN d.runs /\ i \in DOMAIN d.runs[b]
          /\ r.job = d.runs[b][i].job /\ r.ref = d.runs[b][i].ref
      BY <1>3, <3>1, <3>2 DEF SameRuns
    <3>4. d \in ToSet(full_results) /\ d.runs[b][i] \in ToSet(d.runs[b])
      BY <3>3 DEF ToSet
    <3>5. Clean(full_results)
      BY Parts DEF IInv
    <3> HIDE DEF d
    <3> QED BY <2>1, <3>3, <3>4, <3>5 DEF Clean
  <2> QED BY <2>1 DEF Clean
<1>8. EndInv'
  <2>1. ("RESULTS.json" \in DOMAIN files) <=> (full_sweep /\ Len(todo) < 2)
    BY DEF IInv, EndInv
  <2>2. ~ (Len(todo) < 2) /\ ~ (Len(todo') < 2) /\ todo' # <<>> /\ ~ (Len(todo') < N - 1)
    <3> HIDE DEF N
    <3> QED BY <1>5, <1>6, SMTT(30) DEF N
  <2> QED BY <1>1, <1>3, <1>5, <2>1, <2>2 DEF EndInv, Ends
<1>9. TypeOK'
  BY <1>1, <1>3, <1>5 DEF IInv, TypeOK
<1>10. OfThisBuild' /\ BuildInv' /\ OrderInv' /\ DatasetInv'
  BY <1>1, <1>5, <1>7, Parts, PartsPrimed DEF IInv, DatasetInv
<1> QED BY <1>8, <1>9, <1>10 DEF IInv

LEMMA collate_IInv ==
  ASSUME IInv, collate
  PROVE  IInv'
<1> DEFINE N == Len(Ending(full_sweep))
<1>1. Doing("collate") /\ Done /\ collated' = Collated(full_results)
      /\ UNCHANGED <<full_sweep, threads, exe, full_results, files>>
  BY DEF collate
<1>2. /\ todo' \in Seq(Steps) /\ Len(todo') = Len(todo) - 1 /\ Len(todo) \in Nat
      /\ Ends(todo', Ending(full_sweep)) /\ Builds(todo', exe) /\ Orders(todo', full_results)
  BY <1>1, DoneParts, SameIsSame
<1>3. Len(todo) = N - 1 /\ full_sweep \in BOOLEAN
  BY <1>1, HeadFacts
<1>4. N = IF full_sweep THEN 4 ELSE 3
  BY <1>3, EndingFacts
<1>5. EndInv'
  <2>1. /\ ("RESULTS.json" \in DOMAIN files) <=> (full_sweep /\ Len(todo) < 2)
        /\ Len(todo) < N => \A b \in ToSet(Benchmarks) : Related(full_results, b)
    BY DEF IInv, EndInv
  <2>2. Len(todo) < N /\ todo' # <<>> /\ ~ (full_sweep /\ Len(todo) < 2)
        /\ ~ (full_sweep /\ Len(todo') < 2)
    <3> HIDE DEF N
    <3> QED BY <1>2, <1>3, <1>4
  <2> QED BY <1>1, <1>2, <2>1, <2>2 DEF EndInv, Ends
<1>6. TypeOK'
  BY <1>1, <1>2 DEF IInv, TypeOK
<1>7. OfThisBuild' /\ BuildInv' /\ OrderInv' /\ DatasetInv'
  BY <1>1, <1>2, Parts, PartsPrimed DEF IInv, DatasetInv
<1> QED BY <1>5, <1>6, <1>7 DEF IInv

(* A file that is written has its content, and the others theirs.          *)
LEMMA WriteFacts ==
  ASSUME NEW file, NEW content, Write(file, content)
  PROVE  /\ files' = [f \in DOMAIN files' |-> files'[f]]
         /\ DOMAIN files' = DOMAIN files \cup {file}
         /\ files'[file] = content
         /\ \A f \in DOMAIN files : f # file => files'[f] = files[f]
BY DEF Write

LEMMA write_json_IInv ==
  ASSUME IInv, write_json
  PROVE  IInv'
<1> DEFINE N == Len(Ending(full_sweep))
<1>1. Doing("json") /\ Done /\ Write("RESULTS.json", full_results)
      /\ UNCHANGED <<full_sweep, threads, exe, full_results, collated>>
  BY DEF write_json
<1>2. /\ todo' \in Seq(Steps) /\ Len(todo') = Len(todo) - 1 /\ Len(todo) \in Nat
      /\ Ends(todo', Ending(full_sweep)) /\ Builds(todo', exe) /\ Orders(todo', full_results)
  BY <1>1, DoneParts, SameIsSame
<1>3. full_sweep = TRUE /\ Len(todo) = 2
  BY <1>1, HeadFacts
<1>4. N = 4
  BY <1>3, EndingFacts
<1>5. /\ files' = [f \in DOMAIN files' |-> files'[f]]
      /\ DOMAIN files' = DOMAIN files \cup {"RESULTS.json"}
      /\ files'["RESULTS.json"] = full_results
      /\ \A f \in DOMAIN files : f # "RESULTS.json" => files'[f] = files[f]
  BY <1>1, WriteFacts
<1>6. EndInv'
  <2>1. /\ Len(todo) < N => \A b \in ToSet(Benchmarks) : Related(full_results, b)
        /\ Len(todo) < N - 1 => collated = Collated(full_results)
    BY DEF IInv, EndInv
  <2>2. Len(todo) < N /\ Len(todo) < N - 1 /\ todo' # <<>> /\ Len(todo') < 2
    <3> HIDE DEF N
    <3> QED BY <1>2, <1>3, <1>4
  <2> QED BY <1>1, <1>2, <1>3, <1>5, <2>1, <2>2 DEF EndInv, Ends
<1>7. TypeOK'
  BY <1>1, <1>2, <1>5 DEF IInv, TypeOK
<1>8. DatasetInv'
  BY <1>5 DEF IInv, DatasetInv
<1>9. OfThisBuild' /\ BuildInv' /\ OrderInv'
  BY <1>1, <1>2, Parts, PartsPrimed DEF IInv
<1> QED BY <1>6, <1>7, <1>8, <1>9 DEF IInv

LEMMA write_md_IInv ==
  ASSUME IInv, write_md
  PROVE  IInv'
<1> DEFINE N == Len(Ending(full_sweep))
<1> DEFINE md == [tables |-> Tables(collated), memory |-> Memory(full_results)]
<1>1. Doing("md") /\ Done /\ Write("RESULTS.md", md)
      /\ UNCHANGED <<full_sweep, threads, exe, full_results, collated>>
  BY DEF write_md
<1>m. md.tables = Tables(collated)
  OBVIOUS
<1> HIDE DEF md
<1>2. /\ todo' \in Seq(Steps) /\ Len(todo') = Len(todo) - 1 /\ Len(todo) \in Nat
      /\ Ends(todo', Ending(full_sweep)) /\ N \in {3, 4}
      /\ Builds(todo', exe) /\ Orders(todo', full_results)
  BY <1>1, DoneParts, SameIsSame
<1>3. Len(todo) = 1
  BY <1>1, HeadFacts
<1>4. /\ files' = [f \in DOMAIN files' |-> files'[f]]
      /\ DOMAIN files' = DOMAIN files \cup {"RESULTS.md"}
      /\ files'["RESULTS.md"] = md
      /\ \A f \in DOMAIN files : f # "RESULTS.md" => files'[f] = files[f]
  BY <1>1, WriteFacts
<1>5. EndInv'
  <2>1. /\ Len(todo) < N => \A b \in ToSet(Benchmarks) : Related(full_results, b)
        /\ Len(todo) < N - 1 => collated = Collated(full_results)
        /\ ("RESULTS.json" \in DOMAIN files) <=> (full_sweep /\ Len(todo) < 2)
        /\ "RESULTS.json" \in DOMAIN files => files["RESULTS.json"] = full_results
    BY DEF IInv, EndInv
  <2>2. Len(todo) < N /\ Len(todo) < N - 1 /\ Len(todo) < 2 /\ Len(todo') < 2
    <3> HIDE DEF N
    <3> QED BY <1>2, <1>3
  <2> QED BY <1>1, <1>2, <1>m, <1>4, <2>1, <2>2 DEF EndInv, Ends
<1>6. TypeOK'
  BY <1>1, <1>2, <1>4 DEF IInv, TypeOK
<1>7. DatasetInv'
  BY <1>4 DEF IInv, DatasetInv
<1>8. OfThisBuild' /\ BuildInv' /\ OrderInv'
  BY <1>1, <1>2, Parts, PartsPrimed DEF IInv
<1> QED BY <1>5, <1>6, <1>7, <1>8 DEF IInv
-----------------------------------------------------------------------------
(* The two summaries: the run with most threads is the last of its list.   *)
LEMMA HighestIsLast ==
  ASSUME NEW list, IsList(list)
  PROVE  get_highest_thread_result(list) = Last(list)
<1> DEFINE L == Len(list)
           T == {r.threads : r \in ToSet(list)}
           I == {i \in DOMAIN list : list[i].threads = list[L].threads}
<1>1. L \in Nat /\ L \in DOMAIN list /\ DOMAIN list = 1 .. L
  BY ListFacts
<1>2. \A t : t \in T <=> \E i \in DOMAIN list : t = list[i].threads
  BY DEF ToSet
<1>3. \A i \in DOMAIN list : i # L => list[i].threads < list[L].threads
  <2>1. \A i \in DOMAIN list : i # L => i < L
    BY <1>1
  <2> QED BY <1>1, <2>1, ListFacts
<1>4. Max(T) = list[L].threads
  <2>1. T \subseteq Nat /\ list[L].threads \in T
    <3> HIDE DEF T
    <3> QED BY <1>1, <1>2, ListFacts
  <2>2. \A t \in T : t =< list[L].threads
    <3> HIDE DEF T
    <3> QED BY <1>1, <1>2, <1>3, ListFacts
  <2> DEFINE n == list[L].threads
  <2> HIDE DEF T, n
  <2>3. T \subseteq Nat /\ n \in T /\ \A t \in T : t =< n
    BY <2>1, <2>2 DEF n
  <2>4. Max(T) = n
    BY <2>3, MaxFacts
  <2> QED BY <2>4 DEF n
<1>5. I = {L}
  <2>1. \A i \in DOMAIN list : list[i].threads = list[L].threads <=> i = L
    BY <1>1, <1>3, ListFacts
  <2> QED BY <1>1, <2>1
<1>6. Min(I) = L
  <2>1. I \subseteq Nat /\ I # {}
    BY <1>1, <1>5
  <2> HIDE DEF I, L
  <2> QED BY <1>5, <2>1, MinFacts
<1>7. get_highest_thread_result(list) = list[Min(I)]
  BY <1>4 DEF get_highest_thread_result
<1> QED BY <1>6, <1>7 DEF Last

(* The lists of results with different names do not overlap.               *)
LEMMA ListsFacts ==
  ASSUME NEW results, IsResults(results),
         \A i, j \in DOMAIN results : results[i].name = results[j].name => i = j,
         NEW c \in DOMAIN Lists(results)
  PROVE  c = <<c[1], c[2]>> /\ IsList(Lists(results)[c])
<1> DEFINE Entry(name) == CHOOSE e \in ToSet(results) : e.name = name
           Pairs == UNION {{e.name} \X DOMAIN e.runs : e \in ToSet(results)}
<1>1. Lists(results) = [d \in Pairs |-> Entry(d[1]).runs[d[2]]]
  BY DEF Lists
<1>2. PICK e \in ToSet(results) : c \in {e.name} \X DOMAIN e.runs
  BY <1>1
<1>3. c = <<c[1], c[2]>> /\ c[1] = e.name /\ c[2] \in DOMAIN e.runs
  BY <1>2
<1>4. Entry(c[1]) = e
  <2>1. \A d \in ToSet(results) : d.name = e.name => d = e
    <3>1. SUFFICES ASSUME NEW d \in ToSet(results), d.name = e.name PROVE d = e
      OBVIOUS
    <3>2. PICK i \in DOMAIN results : d = results[i]
      BY DEF ToSet
    <3>3. PICK j \in DOMAIN results : e = results[j]
      BY DEF ToSet
    <3> QED BY <3>1, <3>2, <3>3
  <2> QED BY <1>3, <2>1
<1>5. Lists(results)[c] = e.runs[c[2]]
  <2>1. c \in Pairs
    BY <1>1
  <2> HIDE DEF Entry, Pairs
  <2> QED BY <1>1, <1>4, <2>1
<1>6. PICK k \in DOMAIN results : e = results[k]
  BY DEF ToSet
<1>7. IsList(e.runs[c[2]])
  BY <1>3, <1>6 DEF IsResults
<1> QED BY <1>3, <1>5, <1>7

(* The best duration of a benchmark among all that have it.                *)
BestOf(figure, b) == Min({figure[c] : c \in {d \in DOMAIN figure : d[2] = b}})
Cell(figure, c) == <<c[1], c[2], <<figure[c], BestOf(figure, c[2])>>>>

IsFigure(figure) == \A c \in DOMAIN figure : c = <<c[1], c[2]>>

(* A table with all names of its benchmarks has each benchmark's best.     *)
LEMMA TableFacts ==
  ASSUME NEW figure, IsFigure(figure), NEW names, NEW bs,
         \A b \in bs : Named(figure, b) \subseteq names
  PROVE  LET table == Table(figure, names, bs) IN
         /\ DOMAIN table = names
         /\ \A n \in names :
              /\ DOMAIN table[n] = {b \in bs : <<n, b>> \in DOMAIN figure}
              /\ \A b \in DOMAIN table[n] :
                   <<n, b, table[n][b]>> = Cell(figure, <<n, b>>)
<1> DEFINE table == Table(figure, names, bs)
           Benches(n) == {b \in bs : <<n, b>> \in DOMAIN figure}
<1>1. table = [n \in names |-> [b \in Benches(n) |->
                 <<figure[<<n, b>>], Best(figure, names, b)>>]]
  BY DEF Table
<1>2. ASSUME NEW b \in bs PROVE Best(figure, names, b) = BestOf(figure, b)
  <2> DEFINE D == {d \in DOMAIN figure : d[2] = b}
             E == {d \in DOMAIN figure : d[1] \in names /\ d[2] = b}
  <2>1. \A d \in D : d[1] \in names
    BY DEF Named
  <2>2. D = E
    BY <2>1
  <2>3. {figure[c] : c \in D} = {figure[c] : c \in E}
    BY <2>2
  <2> QED BY <2>3 DEF Best, BestOf
<1>3. DOMAIN table = names
  BY <1>1
<1>4. ASSUME NEW n \in names
      PROVE  /\ DOMAIN table[n] = Benches(n)
             /\ \A b \in DOMAIN table[n] : <<n, b, table[n][b]>> = Cell(figure, <<n, b>>)
  <2>1. table[n] = [b \in Benches(n) |-> <<figure[<<n, b>>], Best(figure, names, b)>>]
    BY <1>1
  <2>2. DOMAIN table[n] = Benches(n)
    BY <2>1
  <2>3. ASSUME NEW b \in Benches(n)
        PROVE  <<n, b, table[n][b]>> = Cell(figure, <<n, b>>)
    <3>1. table[n][b] = <<figure[<<n, b>>], Best(figure, names, b)>>
      BY <2>1
    <3>2. Best(figure, names, b) = BestOf(figure, b)
      BY <1>2
    <3>3. Cell(figure, <<n, b>>) = <<n, b, <<figure[<<n, b>>], BestOf(figure, b)>>>>
      BY DEF Cell
    <3> HIDE DEF table
    <3> QED BY <3>1, <3>2, <3>3
  <2> QED BY <2>2, <2>3
<1> QED BY <1>3, <1>4

(* What is in the cells of a file, by its tables.                          *)
LEMMA CellsFacts ==
  ASSUME NEW md, NEW x
  PROVE  x \in Cells(md) <=>
           \E table \in md.tables : \E n \in DOMAIN table : \E b \in DOMAIN table[n] :
             x = <<n, b, table[n][b]>>
BY DEF Cells

(* Both files have one cell for each name and benchmark.                   *)
LEMMA OneCells ==
  ASSUME NEW figure, IsFigure(figure), NEW md, md.tables = {OneTable(figure)}
  PROVE  Cells(md) = {Cell(figure, c) : c \in DOMAIN figure}
<1> DEFINE names == {c[1] : c \in DOMAIN figure}
           bs == {c[2] : c \in DOMAIN figure}
           table == Table(figure, names, bs)
<1>1. md.tables = {table}
  BY DEF OneTable
<1>2. \A b \in bs : Named(figure, b) \subseteq names
  BY DEF Named
<1>3. /\ DOMAIN table = names
      /\ \A n \in names :
           /\ DOMAIN table[n] = {b \in bs : <<n, b>> \in DOMAIN figure}
           /\ \A b \in DOMAIN table[n] : <<n, b, table[n][b]>> = Cell(figure, <<n, b>>)
  <2> HIDE DEF names, bs
  <2> QED BY <1>2, TableFacts
<1> HIDE DEF table
<1>4. ASSUME NEW x \in Cells(md) PROVE x \in {Cell(figure, c) : c \in DOMAIN figure}
  <2>1. PICK n \in DOMAIN table : \E b \in DOMAIN table[n] : x = <<n, b, table[n][b]>>
    BY <1>1, <1>4, CellsFacts
  <2>2. PICK b \in DOMAIN table[n] : x = <<n, b, table[n][b]>>
    BY <2>1
  <2> HIDE DEF names, bs
  <2>3. <<n, b>> \in DOMAIN figure /\ x = Cell(figure, <<n, b>>)
    BY <1>3, <2>1, <2>2
  <2> QED BY <2>3
<1>5. ASSUME NEW c \in DOMAIN figure PROVE Cell(figure, c) \in Cells(md)
  <2> DEFINE n == c[1]
             b == c[2]
  <2>1. n \in names /\ b \in bs /\ <<n, b>> = c
    BY DEF IsFigure
  <2> HIDE DEF n, b, names, bs
  <2>2. n \in DOMAIN table /\ b \in DOMAIN table[n] /\ Cell(figure, c) = <<n, b, table[n][b]>>
    BY <1>3, <2>1
  <2> QED BY <1>1, <2>2, CellsFacts
<1> QED BY <1>4, <1>5

(* A driver's table has the names of one of its benchmarks, and of all.    *)
LEMMA GroupFacts ==
  ASSUME NEW figure, IsFigure(figure), NEW c \in DOMAIN figure
  PROVE  LET names == Named(figure, c[2])
             bs    == Group(figure, c[2])
             table == Table(figure, names, bs)
         IN  /\ c[1] \in names /\ c[2] \in bs
             /\ \A b \in bs : Named(figure, b) = names
             /\ DOMAIN table = names
             /\ \A n \in names :
                  /\ DOMAIN table[n] = {b \in bs : <<n, b>> \in DOMAIN figure}
                  /\ \A b \in DOMAIN table[n] :
                       <<n, b, table[n][b]>> = Cell(figure, <<n, b>>)
<1> DEFINE names == Named(figure, c[2])
           bs == Group(figure, c[2])
<1>1. c[1] \in names
  BY DEF Named
<1>2. c[2] \in bs /\ \A b \in bs : Named(figure, b) = names
  BY DEF Group
<1>3. \A b \in bs : Named(figure, b) \subseteq names
  BY <1>2
<1> HIDE DEF names, bs
<1>4. LET table == Table(figure, names, bs) IN
      /\ DOMAIN table = names
      /\ \A n \in names :
           /\ DOMAIN table[n] = {b \in bs : <<n, b>> \in DOMAIN figure}
           /\ \A b \in DOMAIN table[n] : <<n, b, table[n][b]>> = Cell(figure, <<n, b>>)
  BY <1>3, TableFacts
<1> QED BY <1>1, <1>2, <1>4 DEF names, bs

LEMMA GroupCells ==
  ASSUME NEW figure, IsFigure(figure), NEW md, md.tables = Tables(figure)
  PROVE  Cells(md) = {Cell(figure, c) : c \in DOMAIN figure}
<1> DEFINE Of(c) == Table(figure, Named(figure, c[2]), Group(figure, c[2]))
<1>1. md.tables = {Of(c) : c \in DOMAIN figure}
  BY DEF Tables
<1>2. ASSUME NEW x \in Cells(md) PROVE x \in {Cell(figure, c) : c \in DOMAIN figure}
  <2>1. PICK table \in md.tables :
          \E n \in DOMAIN table : \E b \in DOMAIN table[n] : x = <<n, b, table[n][b]>>
    BY <1>2, CellsFacts
  <2>2. PICK n \in DOMAIN table : \E b \in DOMAIN table[n] : x = <<n, b, table[n][b]>>
    BY <2>1
  <2>3. PICK b \in DOMAIN table[n] : x = <<n, b, table[n][b]>>
    BY <2>2
  <2>4. PICK c \in DOMAIN figure : table = Of(c)
    BY <1>1
  <2>5. <<n, b>> \in DOMAIN figure /\ x = Cell(figure, <<n, b>>)
    BY <2>2, <2>3, <2>4, GroupFacts
  <2> QED BY <2>5
<1>3. ASSUME NEW c \in DOMAIN figure PROVE Cell(figure, c) \in Cells(md)
  <2> DEFINE n == c[1]
             b == c[2]
             table == Of(c)
  <2>1. <<n, b>> = c /\ table \in md.tables
    BY <1>1 DEF IsFigure
  <2>2. n \in DOMAIN table /\ b \in DOMAIN table[n]
        /\ <<n, b, table[n][b]>> = Cell(figure, <<n, b>>)
    BY <2>1, GroupFacts
  <2> HIDE DEF n, b, table
  <2> QED BY <2>1, <2>2, CellsFacts
<1> QED BY <1>2, <1>3

(* If the driver wrote one table, it has all names and benchmarks.         *)
LEMMA OneGroup ==
  ASSUME NEW figure, IsFigure(figure), NEW t, Tables(figure) = {t}
  PROVE  t = OneTable(figure)
<1> DEFINE Of(c) == Table(figure, Named(figure, c[2]), Group(figure, c[2]))
           D == DOMAIN figure
<1>1. Tables(figure) = {Of(c) : c \in D}
  BY DEF Tables
<1> HIDE DEF Of
<1>2. PICK c \in D : t = Of(c)
  BY <1>1
<1>3. ASSUME NEW d \in D PROVE Named(figure, d[2]) = Named(figure, c[2])
  <2>1. Of(d) = t
    BY <1>1
  <2>2. DOMAIN Of(d) = Named(figure, d[2]) /\ DOMAIN Of(c) = Named(figure, c[2])
    BY GroupFacts DEF Of
  <2> QED BY <1>2, <2>1, <2>2
<1>4. Named(figure, c[2]) = {d[1] : d \in D}
  <2>1. \A d \in D : d[1] \in Named(figure, d[2])
    BY DEF Named
  <2>2. \A d \in D : d[1] \in Named(figure, c[2])
    BY <1>3, <2>1
  <2>3. \A n \in Named(figure, c[2]) : \E d \in D : n = d[1]
    BY DEF Named
  <2> QED BY <2>2, <2>3
<1>5. Group(figure, c[2]) = {d[2] : d \in D}
  BY <1>3 DEF Group
<1> QED BY <1>2, <1>4, <1>5 DEF Of, OneTable

(* What generate_results_md.py writes: the figures of the driver.          *)
LEMMA SameFigures ==
  ASSUME IInv, generate_results_md
  PROVE  /\ Highest(files["RESULTS.json"]) = collated /\ IsFigure(collated)
         /\ "RESULTS.md" \in DOMAIN files
         /\ files["RESULTS.md"].tables \in {Tables(collated), {OneTable(collated)}}
         /\ Write("RESULTS.md", [tables |-> {OneTable(collated)}, memory |-> <<>>])
<1> DEFINE lists == Lists(full_results)
<1>1. todo = <<>> /\ "RESULTS.json" \in DOMAIN files
  BY DEF generate_results_md
<1>2. /\ files["RESULTS.json"] = full_results
      /\ "RESULTS.md" \in DOMAIN files
      /\ files["RESULTS.md"].tables \in {Tables(collated), {OneTable(collated)}}
      /\ Len(todo) < Len(Ending(full_sweep)) - 1 => collated = Collated(full_results)
  BY <1>1 DEF IInv, EndInv
<1>3. collated = Collated(full_results)
  <2>1. full_sweep \in BOOLEAN
    BY DEF IInv, TypeOK
  <2>2. Len(Ending(full_sweep)) \in {3, 4}
    BY <2>1, EndingFacts
  <2>3. Len(todo) = 0
    BY <1>1
  <2>4. Len(todo) < Len(Ending(full_sweep)) - 1
    BY <2>2, <2>3
  <2> QED BY <1>2, <2>4
<1>4. \A c \in DOMAIN lists : c = <<c[1], c[2]>> /\ IsList(lists[c])
  <2>1. IsResults(full_results)
        /\ \A i, j \in DOMAIN full_results : full_results[i].name = full_results[j].name => i = j
    BY DEF IInv, TypeOK, OrderInv
  <2> QED BY <2>1, ListsFacts
<1>5. Collated(full_results) = [c \in DOMAIN lists |-> Last(lists[c]).duration]
  BY DEF Collated
<1>6. Highest(full_results) = Collated(full_results)
  <2>1. \A c \in DOMAIN lists : get_highest_thread_result(lists[c]) = Last(lists[c])
    BY <1>4, HighestIsLast
  <2>2. Highest(full_results) = [c \in DOMAIN lists |-> get_highest_thread_result(lists[c]).duration]
    BY DEF Highest
  <2> HIDE DEF lists
  <2> QED BY <1>5, <2>1, <2>2
<1>7. IsFigure(Collated(full_results))
  <2>1. DOMAIN Collated(full_results) = DOMAIN lists
    BY <1>5
  <2> QED BY <1>4, <2>1 DEF IsFigure
<1> HIDE DEF lists
<1>8. Highest(files["RESULTS.json"]) = collated
  BY <1>2, <1>3, <1>6
<1> QED BY <1>2, <1>3, <1>7, <1>8 DEF generate_results_md

(* The script's summary agrees with the one that is there.                 *)
LEMMA Agreement ==
  ASSUME IInv, generate_results_md
  PROVE  Agree(files["RESULTS.md"], files'["RESULTS.md"])
<1> DEFINE old == files["RESULTS.md"]
           new == files'["RESULTS.md"]
           one == OneTable(collated)
           md == [tables |-> {one}, memory |-> <<>>]
<1>1. IsFigure(collated) /\ old.tables \in {Tables(collated), {one}} /\ Write("RESULTS.md", md)
  BY SameFigures
<1>2. md.tables = {one}
  OBVIOUS
<1> HIDE DEF md
<1>3. new.tables = {one}
  BY <1>1, <1>2, WriteFacts
<1> HIDE DEF old, new
<1>4. Cells(new) = {Cell(collated, c) : c \in DOMAIN collated}
  BY <1>1, <1>3, OneCells
<1>5. Cells(old) = {Cell(collated, c) : c \in DOMAIN collated}
  BY <1>1, OneCells, GroupCells
<1>6. ASSUME NEW table \in old.tables, old.tables = {table}
      PROVE  new.tables = {table}
  <2>1. CASE old.tables = Tables(collated)
    <3>1. table = one
      BY <1>1, <1>6, <2>1, OneGroup
    <3> QED BY <1>3, <3>1
  <2>2. CASE old.tables = {one}
    BY <1>3, <1>6, <2>2
  <2> QED BY <1>1, <2>1, <2>2
<1> QED BY <1>4, <1>5, <1>6 DEF Agree, old, new

LEMMA generate_results_md_IInv ==
  ASSUME IInv, generate_results_md
  PROVE  IInv'
<1> DEFINE md == [tables |-> {OneTable(collated)}, memory |-> <<>>]
<1>1. UNCHANGED <<full_sweep, todo, threads, exe, full_results, collated>>
  BY DEF generate_results_md
<1>2. "RESULTS.md" \in DOMAIN files /\ Write("RESULTS.md", md)
  BY SameFigures
<1>m. md.tables = {OneTable(collated)}
  OBVIOUS
<1> HIDE DEF md
<1>3. /\ files' = [f \in DOMAIN files' |-> files'[f]]
      /\ DOMAIN files' = DOMAIN files
      /\ files'["RESULTS.md"] = md
      /\ \A f \in DOMAIN files : f # "RESULTS.md" => files'[f] = files[f]
  BY <1>2, WriteFacts
<1>4. TypeOK' /\ OfThisBuild' /\ OrderInv' /\ BuildInv'
  BY <1>1, <1>3, Parts, PartsPrimed DEF IInv, TypeOK
<1>5. EndInv'
  BY <1>1, <1>m, <1>3 DEF IInv, EndInv
<1>6. DatasetInv'
  BY <1>3 DEF IInv, DatasetInv
<1> QED BY <1>4, <1>5, <1>6 DEF IInv
-----------------------------------------------------------------------------
(* What merging makes is a list of results again.                          *)
IsEntry(e) ==
  /\ e = [name |-> e.name, runs |-> e.runs]
  /\ e.name \in Seq(Text)
  /\ e.runs = [b \in DOMAIN e.runs |-> e.runs[b]]
  /\ \A b \in DOMAIN e.runs : IsList(e.runs[b])

(* Results are a sequence of entries.                                      *)
LEMMA ResultsAreEntries ==
  ASSUME NEW results
  PROVE  IsResults(results) <=>
           \E S : results \in Seq(S) /\ \A e \in S : IsEntry(e)
<1>1. ASSUME IsResults(results)
      PROVE  /\ results \in Seq(ToSet(results)) /\ \A e \in ToSet(results) : IsEntry(e)
             /\ DOMAIN results = 1 .. Len(results)
  <2> DEFINE L == Len(results)
             S == ToSet(results)
  <2>1. L \in Nat /\ results = [k \in 1 .. L |-> results[k]]
        /\ \A k \in DOMAIN results : IsEntry(results[k])
    BY <1>1 DEF IsResults, IsEntry
  <2>2. \A e \in S : IsEntry(e)
    BY <2>1 DEF ToSet
  <2> HIDE DEF L
  <2>3. DOMAIN results = 1 .. L
    BY <2>1
  <2>4. \A k \in 1 .. L : results[k] \in S
    BY <2>3 DEF ToSet
  <2> HIDE DEF S
  <2>5. results \in [1 .. L -> S]
    BY <2>1, <2>4
  <2>6. results \in Seq(S)
    BY <2>1, <2>5
  <2> QED BY <2>2, <2>3, <2>6 DEF S, L
<1>2. ASSUME NEW S, results \in Seq(S), \A e \in S : IsEntry(e) PROVE IsResults(results)
  <2>1. Len(results) \in Nat /\ results = [k \in 1 .. Len(results) |-> results[k]]
        /\ \A k \in DOMAIN results : results[k] \in S
    BY <1>2
  <2>2. \A k \in DOMAIN results : IsEntry(results[k])
    BY <1>2, <2>1
  <2> QED BY <2>1, <2>2 DEF IsResults, IsEntry
<1> QED BY <1>1, <1>2

(* And of their own entries.                                               *)
LEMMA SeqOfResults ==
  ASSUME NEW results, IsResults(results)
  PROVE  /\ results \in Seq(ToSet(results)) /\ \A e \in ToSet(results) : IsEntry(e)
         /\ Len(results) \in Nat /\ DOMAIN results = 1 .. Len(results)
         /\ \A k \in 1 .. Len(results) : results[k] \in ToSet(results)
<1>1. PICK S : results \in Seq(S) /\ \A e \in S : IsEntry(e)
  BY ResultsAreEntries
<1>2. Len(results) \in Nat /\ DOMAIN results = 1 .. Len(results)
      /\ results \in [1 .. Len(results) -> S]
  BY <1>1
<1>3. \A k \in 1 .. Len(results) : results[k] \in ToSet(results)
  BY <1>2 DEF ToSet
<1>4. ToSet(results) \subseteq S
  BY <1>2 DEF ToSet
<1>5. results \in Seq(ToSet(results))
  <2> DEFINE T == ToSet(results)
             L == Len(results)
  <2>1. results = [k \in 1 .. L |-> results[k]] /\ L \in Nat /\ \A k \in 1 .. L : results[k] \in T
    BY <1>2, <1>3
  <2> HIDE DEF T, L
  <2>2. results \in [1 .. L -> T]
    BY <2>1
  <2>3. results \in Seq(T)
    BY <2>1, <2>2
  <2> QED BY <2>3 DEF T
<1> QED BY <1>1, <1>2, <1>3, <1>4, <1>5

(* Merging results gives results, and loses no runtime of dest.            *)
LEMMA MergedFacts ==
  ASSUME NEW dest, IsResults(dest), dest # <<>>, NEW source, IsResults(source)
  PROVE  IsResults(Merged(dest, source)) /\ Merged(dest, source) # <<>>
<1> DEFINE Has(results, e) == \E d \in ToSet(results) : d.name = e.name
           New(e) == CHOOSE s \in ToSet(source) : s.name = e.name
           K == {k \in DOMAIN source : ~ Has(dest, source[k])}
           behind == InOrder(K)
           left == [k \in DOMAIN dest |-> IF Has(source, dest[k]) THEN New(dest[k]) ELSE dest[k]]
           right == [i \in DOMAIN behind |-> source[behind[i]]]
           S == ToSet(dest) \cup ToSet(source)
<1>1. Merged(dest, source) = left \o right
  BY DEF Merged
<1>2. /\ Len(dest) \in Nat /\ DOMAIN dest = 1 .. Len(dest) /\ Len(dest) > 0
      /\ \A k \in 1 .. Len(dest) : dest[k] \in ToSet(dest)
      /\ Len(source) \in Nat /\ DOMAIN source = 1 .. Len(source)
      /\ \A k \in 1 .. Len(source) : source[k] \in ToSet(source)
      /\ \A e \in S : IsEntry(e)
  <2>1. Len(dest) > 0
    <3>1. dest \in Seq(ToSet(dest))
      BY SeqOfResults
    <3> QED BY <3>1
  <2> QED BY <2>1, SeqOfResults
<1>3. left \in Seq(S) /\ Len(left) = Len(dest)
  <2>1. ASSUME NEW k \in 1 .. Len(dest) PROVE left[k] \in S
    <3>1. CASE Has(source, dest[k])
      <4>1. New(dest[k]) \in ToSet(source)
        BY <3>1
      <4>2. left[k] = New(dest[k])
        BY <1>2, <3>1
      <4> QED BY <4>1, <4>2
    <3>2. CASE ~ Has(source, dest[k])
      BY <1>2, <3>2
    <3> QED BY <3>1, <3>2
  <2>2. left = [k \in 1 .. Len(dest) |-> left[k]]
    BY <1>2
  <2> HIDE DEF left, S
  <2>3. left \in [1 .. Len(dest) -> S]
    BY <2>1, <2>2
  <2> QED BY <1>2, <2>3
<1>4. right \in Seq(S)
  <2>1. K \subseteq 1 .. Len(source) /\ K \subseteq Nat
    BY <1>2
  <2>2. IsFiniteSet(K)
    <3>1. IsFiniteSet(1 .. Len(source))
      BY <1>2, FS_Interval
    <3>2. K \in SUBSET (1 .. Len(source))
      BY <2>1
    <3> HIDE DEF K
    <3> QED BY <3>1, <3>2, FS_Subset
  <2> DEFINE C == Cardinality(K)
  <2>3. C \in Nat /\ behind \in [1 .. C -> K]
    <3> HIDE DEF K
    <3> QED BY <2>1, <2>2, InOrderFacts
  <2>4. right = [i \in 1 .. C |-> source[behind[i]]]
    <3>1. DOMAIN behind = 1 .. C
      BY <2>3
    <3> HIDE DEF behind, C
    <3> QED BY <3>1
  <2>5. ASSUME NEW i \in 1 .. C PROVE source[behind[i]] \in S
    <3>1. behind[i] \in 1 .. Len(source)
      <4> HIDE DEF behind, K, C
      <4> QED BY <2>1, <2>3
    <3> HIDE DEF behind
    <3> QED BY <1>2, <3>1
  <2> HIDE DEF right, behind, C, S
  <2>6. right \in [1 .. C -> S]
    BY <2>4, <2>5
  <2> QED BY <2>3, <2>6
<1> DEFINE both == left \o right
<1>5. both \in Seq(S) /\ both # <<>>
  <2> HIDE DEF left, right, S
  <2>1. both \in Seq(S) /\ IsConcat(both, left, right)
    <3>1. left \in Seq(S) /\ right \in Seq(S)
      BY <1>3, <1>4
    <3> QED BY <3>1, ConcatFacts
  <2> HIDE DEF both
  <2>2. Len(both) > 0
    BY <1>2, <1>3, <2>1 DEF IsConcat
  <2> QED BY <2>1, <2>2
<1>6. IsResults(both)
  <2> HIDE DEF both, S
  <2> QED BY <1>2, <1>5, ResultsAreEntries
<1> HIDE DEF left, right
<1> QED BY <1>1, <1>5, <1>6

LEMMA merge_results_IInv ==
  ASSUME IInv, merge_results
  PROVE  IInv'
<1> DEFINE results == Merged(files["dataset"], files["RESULTS.json"])
           bs == DOMAIN results[1].runs
           scaled == Scaled(results, bs)
<1>1. /\ todo = <<>> /\ "RESULTS.json" \in DOMAIN files
      /\ Write("dataset", scaled)
      /\ UNCHANGED <<full_sweep, todo, threads, exe, full_results, collated>>
  BY DEF merge_results
<1>2. IsResults(files["dataset"]) /\ files["dataset"] # <<>>
      /\ IsResults(files["RESULTS.json"])
  BY <1>1 DEF IInv, TypeOK, EndInv, DatasetInv
<1>3. IsResults(results) /\ results # <<>>
  BY <1>2, MergedFacts
<1> HIDE DEF results
<1>4. /\ IsResults(scaled) /\ Len(scaled) = Len(results) /\ SameRuns(scaled, results)
      /\ \A b \in bs : Related(scaled, b)
  <2> HIDE DEF bs
  <2> QED BY <1>3, ScaledFacts
<1>5. scaled # <<>> /\ DOMAIN scaled[1].runs = bs
  <2>1. results \in Seq(ToSet(results)) /\ scaled \in Seq(ToSet(scaled))
    BY <1>3, <1>4, SeqOfResults
  <2>2. 1 \in DOMAIN results /\ Len(results) > 0
    BY <1>3, <2>1
  <2> HIDE DEF scaled
  <2>3. scaled # <<>>
    BY <1>4, <2>1, <2>2
  <2> QED BY <1>4, <2>2, <2>3 DEF SameRuns
<1>6. /\ files' = [f \in DOMAIN files' |-> files'[f]]
      /\ DOMAIN files' = DOMAIN files \cup {"dataset"}
      /\ files'["dataset"] = scaled
      /\ \A f \in DOMAIN files : f # "dataset" => files'[f] = files[f]
  <2> HIDE DEF scaled
  <2> QED BY <1>1, WriteFacts
<1>7. DatasetInv'
  <2> HIDE DEF scaled, bs
  <2> QED BY <1>4, <1>5, <1>6 DEF DatasetInv
<1>8. EndInv'
  <2> HIDE DEF scaled
  <2> QED BY <1>1, <1>6 DEF IInv, EndInv
<1>9. TypeOK'
  <2> HIDE DEF scaled
  <2> QED BY <1>1, <1>6 DEF IInv, TypeOK
<1>10. OfThisBuild' /\ OrderInv' /\ BuildInv'
  BY <1>1, Parts, PartsPrimed DEF IInv
<1> QED BY <1>7, <1>8, <1>9, <1>10 DEF IInv
-----------------------------------------------------------------------------
(* What collecting a run makes: the runs from before, and that one.        *)
LEMMA AppendList ==
  ASSUME NEW list, IsList(list), NEW one \in OneRun,
         \A r \in ToSet(list) : r.threads < one.threads
  PROVE  /\ IsList(Append(list, one))
         /\ \A r \in ToSet(Append(list, one)) : r = one \/ r \in ToSet(list)
<1> DEFINE new == Append(list, one)
           L == Len(list)
<1>1. /\ new \in Seq(OneRun) /\ L \in Nat /\ Len(new) = L + 1 /\ DOMAIN new = 1 .. L + 1
      /\ DOMAIN list = 1 .. L
      /\ \A i \in 1 .. L : new[i] = list[i] /\ list[i] \in ToSet(list)
      /\ new[L+1] = one
  <2>1. list \in Seq(OneRun)
    BY DEF IsList
  <2> HIDE DEF OneRun
  <2>2. \A i \in 1 .. L : list[i] \in ToSet(list)
    BY <2>1 DEF ToSet
  <2> QED BY <2>1, <2>2
<1> HIDE DEF new, L
<1>2. ASSUME NEW i \in DOMAIN new, NEW j \in DOMAIN new, i < j
      PROVE  new[i].threads < new[j].threads
  <2>1. CASE j = L + 1
    <3>1. i \in 1 .. L
      BY <1>1, <1>2, <2>1
    <3> QED BY <1>1, <2>1, <3>1
  <2>2. CASE j # L + 1
    <3>1. i \in 1 .. L /\ j \in 1 .. L
      BY <1>1, <1>2, <2>2
    <3> QED BY <1>1, <1>2, <3>1 DEF IsList
  <2> QED BY <2>1, <2>2
<1>3. new # <<>>
  BY <1>1
<1>4. \A r \in ToSet(new) : r = one \/ r \in ToSet(list)
  <2>1. ASSUME NEW i \in DOMAIN new PROVE new[i] = one \/ new[i] \in ToSet(list)
    <3>1. i = L + 1 \/ i \in 1 .. L
      BY <1>1
    <3> QED BY <1>1, <3>1
  <2> QED BY <2>1 DEF ToSet
<1> QED BY <1>1, <1>2, <1>3, <1>4 DEF IsList, new

(* A run alone is a list of runs.                                          *)
LEMMA OneList ==
  ASSUME NEW one \in OneRun
  PROVE  IsList(<<one>>) /\ ToSet(<<one>>) = {one}
<1>1. <<one>> \in Seq(OneRun) /\ <<one>> # <<>> /\ DOMAIN <<one>> = {1} /\ <<one>>[1] = one
  <2> HIDE DEF OneRun
  <2> QED OBVIOUS
<1> DEFINE list == <<one>>
<1>2. \A i, j \in DOMAIN list : ~ (i < j)
  BY <1>1
<1> HIDE DEF list
<1> QED BY <1>1, <1>2 DEF IsList, ToSet, list

Collected(new, results, name, b, one) ==
  /\ IsResults(new)
  /\ \A i, j \in DOMAIN new : new[i].name = new[j].name => i = j
  /\ \A k \in DOMAIN new :
       new[k].name = name \/ (k \in DOMAIN results /\ new[k].name = results[k].name)
  /\ \A k \in DOMAIN new : \A c \in DOMAIN new[k].runs : \A r \in ToSet(new[k].runs[c]) :
       \/ r = one /\ c = b /\ new[k].name = name
       \/ /\ k \in DOMAIN results /\ new[k].name = results[k].name
          /\ c \in DOMAIN results[k].runs /\ r \in ToSet(results[k].runs[c])

(* Collect adds a run to the list of its name, or begins one.              *)
LEMMA CollectFacts ==
  ASSUME NEW results, IsResults(results),
         \A i, j \in DOMAIN results : results[i].name = results[j].name => i = j,
         NEW name \in Seq(Text), NEW b, NEW one \in OneRun,
         \A k \in DOMAIN results : results[k].name = name /\ b \in DOMAIN results[k].runs =>
           \A r \in ToSet(results[k].runs[b]) : r.threads < one.threads
  PROVE  Collected(Collect(results, name, b, one), results, name, b, one)
<1> DEFINE new == Collect(results, name, b, one)
           Added(runs) == [c \in DOMAIN runs \cup {b} |->
             IF c # b THEN runs[c] ELSE IF b \in DOMAIN runs THEN Append(runs[b], one)
             ELSE <<one>>]
           L == Len(results)
           T == ToSet(results)
<1>1. /\ results \in Seq(T) /\ \A e \in T : IsEntry(e)
      /\ L \in Nat /\ DOMAIN results = 1 .. L /\ \A k \in 1 .. L : results[k] \in T
  BY SeqOfResults
<1>2. CASE \A k \in DOMAIN results : results[k].name # name
  <2> DEFINE runs == [c \in {b} |-> <<one>>]
             e == [name |-> name, runs |-> runs]
             S == T \cup {e}
  <2>1. new = Append(results, e)
    BY <1>2 DEF Collect
  <2>2. e.name = name /\ e.runs = runs /\ e = [name |-> e.name, runs |-> e.runs]
    <3> HIDE DEF runs
    <3> QED OBVIOUS
  <2>3. DOMAIN runs = {b} /\ runs[b] = <<one>> /\ runs = [c \in DOMAIN runs |-> runs[c]]
    OBVIOUS
  <2> HIDE DEF e, runs, T
  <2>4. IsEntry(e)
    BY <2>2, <2>3, OneList DEF IsEntry
  <2>5. results \in Seq(S) /\ \A d \in S : IsEntry(d)
    <3>1. results \in [1 .. L -> S]
      BY <1>1
    <3> HIDE DEF S
    <3>2. results \in Seq(S)
      BY <1>1, <3>1
    <3> QED BY <1>1, <2>4, <3>2 DEF S
  <2>6. /\ new \in Seq(S) /\ Len(new) = L + 1 /\ DOMAIN new = 1 .. L + 1
        /\ \A k \in 1 .. L : new[k] = results[k]
        /\ new[L+1] = e
    <3>1. e \in S
      OBVIOUS
    <3> HIDE DEF S, new
    <3> QED BY <1>1, <2>1, <2>5, <3>1
  <2> HIDE DEF new, S, L
  <2>7. IsResults(new)
    BY <2>5, <2>6, ResultsAreEntries
  <2>8. \A k \in DOMAIN new : k = L + 1 \/ k \in 1 .. L
    BY <1>1, <2>6
  <2>9. \A i, j \in DOMAIN new : new[i].name = new[j].name => i = j
    <3>1. ASSUME NEW i \in DOMAIN new, NEW j \in DOMAIN new, new[i].name = new[j].name
          PROVE  i = j
      <4>1. CASE i \in 1 .. L /\ j \in 1 .. L
        BY <1>1, <2>6, <3>1, <4>1
      <4>2. CASE i = L + 1 /\ j \in 1 .. L
        BY <1>1, <1>2, <2>2, <2>6, <3>1, <4>2
      <4>3. CASE i \in 1 .. L /\ j = L + 1
        BY <1>1, <1>2, <2>2, <2>6, <3>1, <4>3
      <4> QED BY <2>8, <4>1, <4>2, <4>3
    <3> QED BY <3>1
  <2>10. \A k \in DOMAIN new :
           new[k].name = name \/ (k \in DOMAIN results /\ new[k].name = results[k].name)
    BY <1>1, <2>2, <2>6, <2>8
  <2>11. ASSUME NEW k \in DOMAIN new, NEW c \in DOMAIN new[k].runs,
                NEW r \in ToSet(new[k].runs[c])
         PROVE  \/ r = one /\ c = b /\ new[k].name = name
                \/ /\ k \in DOMAIN results /\ new[k].name = results[k].name
                   /\ c \in DOMAIN results[k].runs /\ r \in ToSet(results[k].runs[c])
    <3>1. CASE k = L + 1
      <4>1. new[k].runs = runs /\ new[k].name = name
        BY <2>2, <2>6, <3>1
      <4>2. c = b /\ new[k].runs[c] = <<one>>
        BY <2>3, <2>11, <4>1
      <4> QED BY <2>11, <4>1, <4>2, OneList
    <3>2. CASE k \in 1 .. L
      BY <1>1, <2>6, <2>11, <3>2
    <3> QED BY <2>8, <3>1, <3>2
  <2> QED BY <2>7, <2>9, <2>10, <2>11 DEF Collected, new
<1>3. CASE ~ \A k \in DOMAIN results : results[k].name # name
  <2>1. new = [k \in DOMAIN results |->
                 IF results[k].name # name THEN results[k]
                 ELSE [name |-> name, runs |-> Added(results[k].runs)]]
    BY <1>3 DEF Collect
  <2>2. DOMAIN new = DOMAIN results
        /\ \A k \in DOMAIN results :
             new[k] = IF results[k].name # name THEN results[k]
                      ELSE [name |-> name, runs |-> Added(results[k].runs)]
    <3> HIDE DEF new, Added
    <3> QED BY <2>1
  <2>3. new = [k \in 1 .. L |-> new[k]]
    <3> HIDE DEF Added, L
    <3> QED BY <1>1, <2>1
  <2>4. ASSUME NEW k \in DOMAIN results, results[k].name = name
        PROVE  /\ new[k].name = name /\ IsEntry(new[k])
               /\ \A c \in DOMAIN new[k].runs : \A r \in ToSet(new[k].runs[c]) :
                    \/ r = one /\ c = b
                    \/ c \in DOMAIN results[k].runs /\ r \in ToSet(results[k].runs[c])
    <3> DEFINE runs == results[k].runs
               added == Added(runs)
    <3>1. new[k] = [name |-> name, runs |-> added]
      <4> HIDE DEF new, Added
      <4> QED BY <2>2, <2>4
    <3>2. DOMAIN added = DOMAIN runs \cup {b} /\ added = [c \in DOMAIN added |-> added[c]]
          /\ \A c \in DOMAIN added : added[c] = IF c # b THEN runs[c]
               ELSE IF b \in DOMAIN runs THEN Append(runs[b], one) ELSE <<one>>
      OBVIOUS
    <3> HIDE DEF added, new
    <3>3. new[k].name = name /\ new[k].runs = added
          /\ new[k] = [name |-> new[k].name, runs |-> new[k].runs]
      BY <3>1
    <3>4. IsEntry(results[k])
      BY <1>1
    <3>5. \A c \in DOMAIN runs : IsList(runs[c])
      BY <3>4 DEF IsEntry
    <3>6. ASSUME NEW c \in DOMAIN added
          PROVE  /\ IsList(added[c])
                 /\ \A r \in ToSet(added[c]) :
                      \/ r = one /\ c = b
                      \/ c \in DOMAIN runs /\ r \in ToSet(runs[c])
      <4>1. CASE c # b
        BY <3>2, <3>5, <4>1
      <4>2. CASE c = b /\ b \in DOMAIN runs
        <5>1. IsList(runs[b]) /\ \A r \in ToSet(runs[b]) : r.threads < one.threads
          BY <2>4, <3>5, <4>2
        <5>2. added[c] = Append(runs[b], one)
          BY <3>2, <4>2
        <5> HIDE DEF runs
        <5> QED BY <4>2, <5>1, <5>2, AppendList
      <4>3. CASE c = b /\ b \notin DOMAIN runs
        BY <3>2, <4>3, OneList
      <4> QED BY <4>1, <4>2, <4>3
    <3>7. IsEntry(new[k])
      BY <3>2, <3>3, <3>6 DEF IsEntry
    <3> QED BY <3>3, <3>6, <3>7
  <2> HIDE DEF new, Added
  <2>5. \A k \in DOMAIN new : new[k].name = results[k].name /\ IsEntry(new[k])
    <3>1. ASSUME NEW k \in DOMAIN new PROVE new[k].name = results[k].name /\ IsEntry(new[k])
      <4>1. CASE results[k].name = name
        BY <2>2, <2>4, <4>1
      <4>2. CASE results[k].name # name
        <5>1. new[k] = results[k]
          BY <2>2, <4>2
        <5> QED BY <1>1, <2>2, <5>1
      <4> QED BY <4>1, <4>2
    <3> QED BY <3>1
  <2>6. IsResults(new)
    <3> DEFINE S == ToSet(new)
    <3>1. \A e \in S : IsEntry(e)
      BY <2>5 DEF ToSet
    <3>2. \A k \in 1 .. L : new[k] \in S
      BY <1>1, <2>2 DEF ToSet
    <3> HIDE DEF S, L
    <3>3. new \in [1 .. L -> S]
      BY <2>3, <3>2
    <3>4. new \in Seq(S)
      BY <1>1, <3>3
    <3> QED BY <3>1, <3>4, ResultsAreEntries
  <2>7. ASSUME NEW k \in DOMAIN new, NEW c \in DOMAIN new[k].runs,
               NEW r \in ToSet(new[k].runs[c])
        PROVE  \/ r = one /\ c = b /\ new[k].name = name
               \/ /\ k \in DOMAIN results /\ new[k].name = results[k].name
                  /\ c \in DOMAIN results[k].runs /\ r \in ToSet(results[k].runs[c])
    <3>1. CASE results[k].name = name
      BY <2>2, <2>4, <2>5, <2>7, <3>1
    <3>2. CASE results[k].name # name
      <4>1. new[k] = results[k]
        BY <2>2, <3>2
      <4> QED BY <2>2, <2>7, <4>1
    <3> QED BY <3>1, <3>2
  <2>8. \A i, j \in DOMAIN new : new[i].name = new[j].name => i = j
    BY <2>2, <2>5
  <2> QED BY <2>2, <2>5, <2>6, <2>7, <2>8 DEF Collected, new
<1> QED BY <1>2, <1>3

(* A job's name is that of the runtime without the configuration.          *)
LEMMA FrontOfAppend ==
  ASSUME NEW S, NEW s \in Seq(S), NEW c \in S
  PROVE  Append(s, c) \in Seq(S) /\ Front(Append(s, c)) = s
<1> DEFINE a == Append(s, c)
           L == Len(s)
<1>1. L \in Nat /\ a \in Seq(S) /\ Len(a) = L + 1 /\ \A i \in 1 .. L : a[i] = s[i]
  OBVIOUS
<1> DEFINE f == SubSeq(a, 1, L)
<1>2. f \in Seq(S) /\ Len(f) = L /\ \A i \in 1 .. L : f[i] = a[i]
  <2> HIDE DEF a, L
  <2> QED BY <1>1
<1>3. f = s
  <2> HIDE DEF f, a
  <2>1. \A i \in 1 .. L : f[i] = s[i]
    BY <1>1, <1>2
  <2> QED BY <1>2, <2>1
<1>4. Front(a) = SubSeq(a, 1, Len(a) - 1)
  BY DEF Front
<1>5. Len(a) - 1 = L
  BY <1>1
<1> HIDE DEF a, L
<1> QED BY <1>1, <1>3, <1>4, <1>5 DEF a, L

(* A run has the threads and the job of its step, and the executable's ref. *)
LEMMA MeasuredFacts ==
  ASSUME NEW step, step.job \in Jobs, step.config \in Text, step.threads \in Nat,
         exe[step.job.of][step.bench] \in Text, NEW d \in Nat,
         NEW rss \in Text
  PROVE  /\ Measured(step, d, rss) \in OneRun
         /\ Measured(step, d, rss).threads = step.threads
         /\ Measured(step, d, rss).job = step.job
         /\ Measured(step, d, rss).ref = exe[step.job.of][step.bench]
<1> DEFINE asio == /\ step.job.of = "TooManyCooks" /\ step.bench = "channel"
                   /\ use_asio(Argv(step.bench, step.threads, step.config))
           kind == IF asio THEN "asio" ELSE "pool"
           ref == exe[step.job.of][step.bench]
<1>1. kind \in Text
  <2> HIDE DEF asio
  <2> QED BY DEF Text
<1>2. Measured(step, d, rss) =
        [threads |-> step.threads, duration |-> d, max_rss |-> rss,
         scaled |-> <<>>, speedup |-> <<>>,
         job |-> step.job, config |-> step.config, ref |-> ref, executor |-> kind]
  BY DEF Measured
<1>3. <<>> \in Seq(Nat)
  OBVIOUS
<1> HIDE DEF kind, ref
<1>4. ref \in Text
  BY DEF ref
<1> QED BY <1>1, <1>2, <1>3, <1>4 DEF OneRun, ref

LEMMA run_IInv ==
  ASSUME IInv, run
  PROVE  IInv'
<1> DEFINE step == todo[1]
           name == NameOf(step)
           b == step.bench
<1>1. Doing("run") /\ Done /\ UNCHANGED <<full_sweep, threads, exe, collated, files>>
  BY DEF run
<1>2. /\ step \in Steps /\ step.do = "run" /\ Head(todo) = step /\ 1 \in DOMAIN todo
      /\ Len(todo) > Len(Ending(full_sweep))
      /\ Len(todo) \in Nat /\ DOMAIN todo = 1 .. Len(todo)
  BY <1>1, HeadFacts
<1>3. /\ todo' \in Seq(Steps) /\ Len(todo') = Len(todo) - 1
      /\ Ends(todo', Ending(full_sweep)) /\ Len(Ending(full_sweep)) \in {3, 4}
      /\ Builds(todo', exe) /\ Orders(todo', full_results)
  BY <1>1, DoneParts, SameIsSame
<1>4. TypeOK /\ Builds(todo, exe) /\ Orders(todo, full_results) /\ Clean(full_results)
      /\ Ordered(threads) /\ IsResults(full_results)
  BY Parts DEF IInv, TypeOK
<1>5. \A k \in DOMAIN todo' : k \in Nat /\ k + 1 \in DOMAIN todo /\ 1 < k + 1 /\ todo'[k] = todo[k+1]
  <2>1. todo' = Tail(todo) /\ todo \in Seq(Steps) /\ todo # <<>>
    BY <1>1, <1>4 DEF Doing, Done, TypeOK
  <2> QED BY <2>1
<1>6. EndInv'
  BY <1>1, <1>2, <1>3, EarlyEnd
<1>7. /\ step.job \in Jobs /\ step.config \in Text /\ step.threads \in Nat
      /\ step.job.name \in Seq(Text) /\ step.job.of \in ToSet(Runtimes)
      /\ b \in Sources[step.job.of] /\ b \in ToSet(Benchmarks)
      /\ step.job.clean => exe[step.job.of][b] = step.job.ref
  <2>1. HasJob(step)
    BY <1>2 DEF HasJob
  <2>2. step.job \in Jobs /\ step.config \in Text /\ step.threads \in Nat
    BY <1>2, <2>1, StepFacts
  <2> QED BY <1>2, <1>4, <2>1, <2>2, JobFacts DEF Builds
<1>8. name \in Seq(Text) /\ Front(name) = step.job.name
  BY <1>7, FrontOfAppend DEF NameOf
<1>9. exe[step.job.of][b] \in Text
  <2>1. exe[step.job.of] \in [Sources[step.job.of] -> Text]
    BY <1>4, <1>7 DEF TypeOK
  <2> QED BY <1>7, <2>1
<1>11. CASE UNCHANGED full_results
  <2>1. TypeOK'
    BY <1>1, <1>3, <1>4, <1>11 DEF TypeOK
  <2>2. OfThisBuild' /\ BuildInv' /\ OrderInv' /\ DatasetInv'
    BY <1>1, <1>3, <1>4, <1>11, PartsPrimed DEF IInv, DatasetInv
  <2> QED BY <1>6, <2>1, <2>2 DEF IInv
<1>12. ASSUME NEW d \in Durations[b], NEW rss \in MaxRss,
              full_results' = Collect(full_results, name, b, Measured(step, d, rss))
       PROVE  IInv'
  <2> DEFINE one == Measured(step, d, rss)
             new == full_results'
  <2>1. d \in Nat /\ rss \in Text
    <3>1. Durations[b] \subseteq Nat /\ MaxRss \subseteq STRING
      BY <1>7, DriverAssumption
    <3> QED BY <3>1 DEF Text
  <2>2. one \in OneRun /\ one.threads = step.threads /\ one.job = step.job
        /\ one.ref = exe[step.job.of][b]
    BY <1>7, <1>9, <2>1, MeasuredFacts
  <2> HIDE DEF one
  <2>3. \A i, j \in DOMAIN full_results : full_results[i].name = full_results[j].name => i = j
    BY <1>4 DEF Orders
  <2>4. \A k \in DOMAIN full_results :
          full_results[k].name = name /\ b \in DOMAIN full_results[k].runs =>
            \A r \in ToSet(full_results[k].runs[b]) : r.threads < one.threads
    <3> HIDE DEF step, name
    <3>1. step = todo[1] /\ name = NameOf(todo[1])
      BY DEF step, name
    <3> QED BY <1>2, <1>4, <2>2, <3>1 DEF Orders
  <2>5. full_results' = Collect(full_results, name, b, one)
    BY <1>12 DEF one
  <2>6. /\ IsResults(new)
        /\ \A i, j \in DOMAIN new : new[i].name = new[j].name => i = j
        /\ \A k \in DOMAIN new :
             new[k].name = name \/ (k \in DOMAIN full_results /\ new[k].name = full_results[k].name)
        /\ \A k \in DOMAIN new : \A c \in DOMAIN new[k].runs : \A r \in ToSet(new[k].runs[c]) :
             \/ r = one /\ c = b /\ new[k].name = name
             \/ /\ k \in DOMAIN full_results /\ new[k].name = full_results[k].name
                /\ c \in DOMAIN full_results[k].runs /\ r \in ToSet(full_results[k].runs[c])
    <3>1. Collected(new, full_results, name, b, one)
      <4> HIDE DEF step, name, b
      <4> QED BY <1>4, <1>8, <2>2, <2>3, <2>4, <2>5, CollectFacts
    <3> HIDE DEF step, name, b, new
    <3> QED BY <3>1 DEF Collected
  <2> HIDE DEF new
  <2>7. Clean(new)
    <3>1. ASSUME NEW e \in ToSet(new), NEW c \in DOMAIN e.runs, NEW r \in ToSet(e.runs[c]),
                 r.job.clean
          PROVE  r.ref = r.job.ref
      <4>1. PICK k \in DOMAIN new : e = new[k]
        BY DEF ToSet
      <4>2. CASE r = one
        BY <1>7, <2>2, <3>1, <4>2
      <4>3. CASE /\ k \in DOMAIN full_results /\ c \in DOMAIN full_results[k].runs
                 /\ r \in ToSet(full_results[k].runs[c])
        <5>1. full_results[k] \in ToSet(full_results)
          BY <4>3 DEF ToSet
        <5> QED BY <1>4, <3>1, <4>3, <5>1 DEF Clean
      <4> QED BY <2>6, <4>1, <4>2, <4>3
    <3> QED BY <3>1 DEF Clean
  <2>8. Orders(todo', new)
    <3> DEFINE rest == todo'
    <3> HIDE DEF rest, step, name, b
    <3>0. \A k \in DOMAIN rest : k + 1 \in DOMAIN todo /\ 1 < k + 1 /\ k + 1 # 1 /\ rest[k] = todo[k+1]
      BY <1>5 DEF rest
    <3>1. ASSUME NEW i \in DOMAIN new, NEW k \in DOMAIN rest, rest[k].do = "bench"
          PROVE  Front(new[i].name) # rest[k].job.name
      <4>1. CASE new[i].name = name
        <5> DEFINE m == k + 1
        <5>1. m \in DOMAIN todo /\ rest[k] = todo[m]
          BY <3>0
        <5> HIDE DEF m
        <5>2. todo[1].job.name # todo[m].job.name
          BY <1>2, <1>4, <3>1, <5>1 DEF Orders, step
        <5> QED BY <1>8, <4>1, <5>1, <5>2 DEF step
      <4>2. CASE i \in DOMAIN full_results /\ new[i].name = full_results[i].name
        BY <1>3, <3>1, <4>2 DEF Orders, rest
      <4> QED BY <2>6, <4>1, <4>2
    <3>2. ASSUME NEW i \in DOMAIN new, NEW k \in DOMAIN rest, rest[k].do = "run",
                 new[i].name = NameOf(rest[k]), rest[k].bench \in DOMAIN new[i].runs,
                 NEW r \in ToSet(new[i].runs[rest[k].bench])
          PROVE  r.threads < rest[k].threads
      <4>1. CASE r = one /\ rest[k].bench = b /\ new[i].name = name
        <5> DEFINE m == k + 1
        <5>1. m \in DOMAIN todo /\ 1 < m /\ rest[k] = todo[m]
          BY <3>0
        <5> HIDE DEF m
        <5>2. NameOf(todo[1]) = NameOf(todo[m]) /\ todo[1].bench = todo[m].bench
              /\ todo[1].do = "run" /\ todo[m].do = "run"
          BY <1>2, <3>2, <4>1, <5>1 DEF name, step, b
        <5>3. todo[1].threads < todo[m].threads
          BY <1>2, <1>4, <5>1, <5>2 DEF Orders
        <5> QED BY <2>2, <4>1, <5>1, <5>3 DEF step
      <4>2. CASE /\ i \in DOMAIN full_results /\ new[i].name = full_results[i].name
                 /\ rest[k].bench \in DOMAIN full_results[i].runs
                 /\ r \in ToSet(full_results[i].runs[rest[k].bench])
        BY <1>3, <3>2, <4>2 DEF Orders, rest
      <4> QED BY <2>6, <3>2, <4>1, <4>2
    <3>3. /\ \A j, k \in DOMAIN rest : rest[k].do = "bench" =>
               /\ rest[j].do = "bench" /\ j # k => rest[j].job.name # rest[k].job.name
               /\ rest[j].do = "run" => rest[j].job.name # rest[k].job.name
          /\ \A j, k \in DOMAIN rest :
               /\ rest[j].do = "run" /\ rest[k].do = "run" /\ j < k
               /\ NameOf(rest[j]) = NameOf(rest[k]) /\ rest[j].bench = rest[k].bench
               => rest[j].threads < rest[k].threads
      BY <1>3 DEF Orders, rest
    <3> QED BY <2>6, <3>1, <3>2, <3>3 DEF Orders, rest
  <2>9. TypeOK'
    BY <1>1, <1>3, <1>4, <2>6 DEF TypeOK, new
  <2>10. OfThisBuild' /\ BuildInv' /\ OrderInv' /\ DatasetInv'
    BY <1>1, <1>3, <1>4, <2>7, <2>8, PartsPrimed DEF IInv, DatasetInv, new
  <2> QED BY <1>6, <2>9, <2>10 DEF IInv
<1>13. \/ \E d \in Durations[b], rss \in MaxRss :
            full_results' = Collect(full_results, name, b, Measured(step, d, rss))
       \/ UNCHANGED full_results
  <2>1. name = Append(step.job.name, step.config)
    BY DEF NameOf
  <2> HIDE DEF name
  <2> QED BY <1>2, <2>1 DEF run
<1> QED
  <2> HIDE DEF name, step, b
  <2> QED BY <1>11, <1>12, <1>13
-----------------------------------------------------------------------------
(* The runs that the loops make: those of one configuration of a benchmark *)
(* have numbers of threads that grow.                                      *)
RunSteps(list, job) ==
  /\ list \in Seq(Steps)
  /\ \A k \in DOMAIN list :
       /\ list[k].do = "run" /\ list[k].job = job
       /\ list[k].bench \in Sources[job.of] \cap ToSet(Benchmarks)
       /\ exe[job.of][list[k].bench] # NotBuilt
  /\ \A j, k \in DOMAIN list :
       j < k /\ list[j].config = list[k].config /\ list[j].bench = list[k].bench =>
         list[j].threads < list[k].threads

(* The runs of one benchmark: configurations, and then threads, in order.  *)
LEMMA RunsOfFacts ==
  ASSUME TypeOK, Ordered(threads), NEW job \in Jobs, job.of \in ToSet(Runtimes),
         NEW b \in ToSet(Benchmarks)
  PROVE  RunSteps(RunsOf(job, b), job)
         /\ \A k \in DOMAIN RunsOf(job, b) : RunsOf(job, b)[k].bench = b
<1>1. CASE b \notin Sources[job.of] \/ exe[job.of][b] = NotBuilt
  <2>1. RunsOf(job, b) = <<>>
    BY <1>1 DEF RunsOf
  <2>2. <<>> \in Seq(Steps) /\ DOMAIN <<>> = {}
    OBVIOUS
  <2> QED BY <2>1, <2>2 DEF RunSteps
<1>2. CASE ~ (b \notin Sources[job.of] \/ exe[job.of][b] = NotBuilt)
  <2> DEFINE cs == Configs[job.of][b]
             S(c, t) == [do |-> "run", job |-> job, bench |-> b,
                         config |-> cs[c], threads |-> threads[t]]
             seqs == [c \in DOMAIN cs |-> [t \in DOMAIN threads |-> S(c, t)]]
             flat == FlattenSeq(seqs)
  <2>1. RunsOf(job, b) = flat
    BY <1>2 DEF RunsOf
  <2>2. /\ cs \in Seq(STRING) /\ Distinct(cs) /\ threads \in Seq(Nat) /\ b \in STRING
    BY <1>2, DriverAssumption, ToSetFacts DEF TypeOK
  <2>3. /\ Len(cs) \in Nat /\ DOMAIN cs = 1 .. Len(cs) /\ \A c \in DOMAIN cs : cs[c] \in Text
        /\ Len(threads) \in Nat /\ DOMAIN threads = 1 .. Len(threads)
        /\ \A t \in DOMAIN threads : threads[t] \in Nat
    <3>1. \A c \in DOMAIN cs : cs[c] \in STRING
      <4> HIDE DEF cs
      <4> QED BY <2>2
    <3>2. \A x \in STRING : x \in Text
      BY DEF Text
    <3> HIDE DEF cs
    <3>3. Len(cs) \in Nat /\ DOMAIN cs = 1 .. Len(cs)
      BY <2>2
    <3>4. Len(threads) \in Nat /\ DOMAIN threads = 1 .. Len(threads)
          /\ \A t \in DOMAIN threads : threads[t] \in Nat
      BY <2>2
    <3> QED BY <3>1, <3>2, <3>3, <3>4
  <2>4. ASSUME NEW c \in DOMAIN cs, NEW t \in DOMAIN threads
        PROVE  /\ S(c, t) \in Steps /\ S(c, t).do = "run" /\ S(c, t).job = job
               /\ S(c, t).bench = b /\ S(c, t).config = cs[c] /\ S(c, t).threads = threads[t]
    <3>1. b \in Text /\ cs[c] \in Text /\ threads[t] \in Nat
      BY <2>2, <2>3 DEF Text
    <3> DEFINE config == cs[c]
    <3> HIDE DEF cs
    <3> QED BY <3>1 DEF Steps
  <2> HIDE DEF S, cs
  <2>5. /\ seqs \in Seq(Seq(Steps)) /\ Len(seqs) = Len(cs)
        /\ \A c \in 1 .. Len(cs) : Len(seqs[c]) = Len(threads)
        /\ \A c \in 1 .. Len(cs) : \A t \in 1 .. Len(threads) : seqs[c][t] = S(c, t)
    <3> DEFINE row(c) == [t \in DOMAIN threads |-> S(c, t)]
    <3>1. ASSUME NEW c \in DOMAIN cs
          PROVE  row(c) \in Seq(Steps) /\ Len(row(c)) = Len(threads)
                 /\ \A t \in 1 .. Len(threads) : row(c)[t] = S(c, t)
      <4>1. row(c) \in [1 .. Len(threads) -> Steps]
        BY <2>3, <2>4
      <4>2. \A t \in 1 .. Len(threads) : row(c)[t] = S(c, t)
        BY <2>3
      <4> HIDE DEF row
      <4>3. row(c) \in Seq(Steps) /\ Len(row(c)) = Len(threads)
        BY <2>3, <4>1
      <4> QED BY <4>2, <4>3
    <3>2. seqs = [c \in DOMAIN cs |-> row(c)]
      OBVIOUS
    <3> HIDE DEF row, seqs
    <3>3. seqs \in [1 .. Len(cs) -> Seq(Steps)]
      BY <2>3, <3>1, <3>2
    <3>4. seqs \in Seq(Seq(Steps)) /\ Len(seqs) = Len(cs)
      BY <2>3, <3>3
    <3> QED BY <2>3, <3>1, <3>2, <3>4
  <2> HIDE DEF seqs
  <2>6. flat \in Seq(Steps) /\ Come(flat, seqs, Len(seqs))
    BY <2>5, FlattenFacts
  <2> HIDE DEF flat
  <2>7. PICK u, v \in [1 .. Len(flat) -> Nat] :
          /\ \A k \in 1 .. Len(flat) :
               /\ u[k] \in 1 .. Len(seqs) /\ v[k] \in 1 .. Len(seqs[u[k]])
               /\ flat[k] = seqs[u[k]][v[k]]
          /\ \A k, l \in 1 .. Len(flat) :
               k < l => u[k] < u[l] \/ (u[k] = u[l] /\ v[k] < v[l])
    BY <2>6 DEF Come
  <2>8. ASSUME NEW k \in 1 .. Len(flat)
        PROVE  /\ u[k] \in DOMAIN cs /\ v[k] \in DOMAIN threads
               /\ flat[k].do = "run" /\ flat[k].job = job /\ flat[k].bench = b
               /\ flat[k].config = cs[u[k]] /\ flat[k].threads = threads[v[k]]
    <3>1. u[k] \in 1 .. Len(cs) /\ v[k] \in 1 .. Len(threads)
      BY <2>5, <2>7
    <3>2. flat[k] = S(u[k], v[k])
      BY <2>5, <2>7, <3>1
    <3>3. u[k] \in DOMAIN cs /\ v[k] \in DOMAIN threads
      BY <2>3, <3>1
    <3> QED BY <2>4, <3>2, <3>3
  <2>9. DOMAIN flat = 1 .. Len(flat)
    BY <2>6
  <2>10. ASSUME NEW j \in 1 .. Len(flat), NEW k \in 1 .. Len(flat), j < k,
                flat[j].config = flat[k].config
         PROVE  flat[j].threads < flat[k].threads
    <3>1. u[j] = u[k]
      <4>1. cs[u[j]] = cs[u[k]] /\ u[j] \in DOMAIN cs /\ u[k] \in DOMAIN cs
        BY <2>8, <2>10
      <4> QED BY <2>2, <4>1 DEF Distinct
    <3>2. u[j] \in Nat /\ u[k] \in Nat
      BY <2>7
    <3>3. v[j] < v[k]
      BY <2>7, <2>10, <3>1, <3>2
    <3> QED BY <2>8, <3>3 DEF Ordered
  <2>11. b \in Sources[job.of] \cap ToSet(Benchmarks) /\ exe[job.of][b] # NotBuilt
    BY <1>2
  <2>12. RunSteps(flat, job) /\ \A k \in DOMAIN flat : flat[k].bench = b
    BY <2>6, <2>8, <2>9, <2>10, <2>11 DEF RunSteps
  <2> QED BY <2>1, <2>12
<1> QED BY <1>1, <1>2

AllRuns(job) == FlattenSeq([i \in DOMAIN Benchmarks |-> RunsOf(job, Benchmarks[i])])

(* The runs of all benchmarks.                                             *)
LEMMA AllRunsFacts ==
  ASSUME TypeOK, Ordered(threads), NEW job \in Jobs, job.of \in ToSet(Runtimes)
  PROVE  RunSteps(AllRuns(job), job)
<1> DEFINE seqs == [i \in DOMAIN Benchmarks |-> RunsOf(job, Benchmarks[i])]
           flat == AllRuns(job)
           L == Len(Benchmarks)
<1>1. L \in Nat /\ DOMAIN Benchmarks = 1 .. L /\ Distinct(Benchmarks)
      /\ \A i \in 1 .. L : Benchmarks[i] \in ToSet(Benchmarks)
  <2>1. Benchmarks \in Seq(STRING) /\ Distinct(Benchmarks)
    BY DriverAssumption
  <2>2. L \in Nat /\ DOMAIN Benchmarks = 1 .. L
    BY <2>1
  <2> QED BY <2>1, <2>2 DEF ToSet
<1>2. \A i \in 1 .. L : /\ RunSteps(seqs[i], job)
                        /\ \A k \in DOMAIN seqs[i] : seqs[i][k].bench = Benchmarks[i]
  <2>1. ASSUME NEW i \in 1 .. L
        PROVE  /\ RunSteps(seqs[i], job)
               /\ \A k \in DOMAIN seqs[i] : seqs[i][k].bench = Benchmarks[i]
    <3>1. seqs[i] = RunsOf(job, Benchmarks[i])
      BY <1>1
    <3> HIDE DEF seqs
    <3> QED BY <1>1, <3>1, RunsOfFacts
  <2> QED BY <2>1
<1>3. seqs \in Seq(Seq(Steps)) /\ Len(seqs) = L
  <2>1. seqs = [i \in 1 .. L |-> seqs[i]]
    BY <1>1
  <2>2. \A i \in 1 .. L : seqs[i] \in Seq(Steps)
    BY <1>2 DEF RunSteps
  <2> HIDE DEF seqs, L
  <2>3. seqs \in [1 .. L -> Seq(Steps)]
    BY <2>1, <2>2
  <2> QED BY <1>1, <2>3
<1>4. flat = FlattenSeq(seqs)
  BY DEF AllRuns
<1> HIDE DEF seqs, flat, L
<1>5. flat \in Seq(Steps) /\ Come(flat, seqs, L)
  <2>1. flat \in Seq(Steps) /\ Come(flat, seqs, Len(seqs))
    BY <1>3, <1>4, FlattenFacts
  <2> QED BY <1>3, <2>1
<1>6. PICK u, v \in [1 .. Len(flat) -> Nat] :
        /\ \A k \in 1 .. Len(flat) :
             /\ u[k] \in 1 .. L /\ v[k] \in 1 .. Len(seqs[u[k]])
             /\ flat[k] = seqs[u[k]][v[k]]
        /\ \A k, l \in 1 .. Len(flat) :
             k < l => u[k] < u[l] \/ (u[k] = u[l] /\ v[k] < v[l])
  BY <1>5 DEF Come
<1>7. ASSUME NEW k \in 1 .. Len(flat)
      PROVE  /\ u[k] \in 1 .. L /\ v[k] \in DOMAIN seqs[u[k]]
             /\ flat[k].do = "run" /\ flat[k].job = job
             /\ flat[k].bench = Benchmarks[u[k]]
             /\ flat[k].bench \in Sources[job.of] \cap ToSet(Benchmarks)
             /\ exe[job.of][flat[k].bench] # NotBuilt
  <2> DEFINE row == seqs[u[k]]
             i == v[k]
  <2>1. u[k] \in 1 .. L /\ i \in 1 .. Len(row) /\ flat[k] = row[i]
    BY <1>6
  <2>2. RunSteps(row, job) /\ \A n \in DOMAIN row : row[n].bench = Benchmarks[u[k]]
    BY <1>2, <2>1
  <2> HIDE DEF row, i
  <2>3. i \in DOMAIN row
    BY <2>1, <2>2 DEF RunSteps
  <2>4. /\ row[i].do = "run" /\ row[i].job = job /\ row[i].bench = Benchmarks[u[k]]
        /\ row[i].bench \in Sources[job.of] \cap ToSet(Benchmarks)
        /\ exe[job.of][row[i].bench] # NotBuilt
    BY <2>2, <2>3 DEF RunSteps
  <2> QED BY <2>1, <2>3, <2>4 DEF row, i
<1>8. DOMAIN flat = 1 .. Len(flat)
  BY <1>5
<1>9. ASSUME NEW j \in 1 .. Len(flat), NEW k \in 1 .. Len(flat), j < k,
             flat[j].config = flat[k].config, flat[j].bench = flat[k].bench
      PROVE  flat[j].threads < flat[k].threads
  <2>1. u[j] = u[k]
    BY <1>1, <1>7, <1>9 DEF Distinct
  <2>2. u[j] \in Nat /\ u[k] \in Nat
    BY <1>6
  <2>3. v[j] < v[k]
    BY <1>6, <1>9, <2>1, <2>2
  <2> DEFINE row == seqs[u[k]]
  <2>4. RunSteps(row, job)
    BY <1>2, <1>7
  <2>5. flat[j] = row[v[j]] /\ flat[k] = row[v[k]] /\ v[j] \in DOMAIN row /\ v[k] \in DOMAIN row
    BY <1>6, <1>7, <2>1
  <2> HIDE DEF row
  <2> QED BY <1>9, <2>3, <2>4, <2>5 DEF RunSteps
<1>10. RunSteps(flat, job)
  BY <1>5, <1>7, <1>8, <1>9 DEF RunSteps
<1> QED BY <1>10 DEF flat

LEMMA run_runtime_benchmarks_IInv ==
  ASSUME IInv, run_runtime_benchmarks
  PROVE  IInv'
<1> DEFINE step == todo[1]
           job == step.job
           flat == AllRuns(job)
           tail == Tail(todo)
           n == Len(flat)
           L == Len(todo)
           N == Len(Ending(full_sweep))
           new == todo'
           at(k) == k - n + 1
<1>1. /\ Doing("bench") /\ UNCHANGED <<full_sweep, threads, exe, full_results, collated, files>>
      /\ todo' = AllRuns(Head(todo).job) \o Tail(todo)
  BY DEF run_runtime_benchmarks, AllRuns
<1>2. /\ step \in Steps /\ step.do = "bench" /\ Head(todo) = step /\ 1 \in DOMAIN todo
      /\ L > N /\ L \in Nat \ {0} /\ DOMAIN todo = 1 .. L
  BY <1>1, HeadFacts
<1>3. TypeOK /\ Builds(todo, exe) /\ Orders(todo, full_results) /\ Clean(full_results)
      /\ Ordered(threads) /\ Ends(todo, Ending(full_sweep)) /\ todo \in Seq(Steps)
      /\ full_sweep \in BOOLEAN
  BY Parts DEF IInv, TypeOK, EndInv, Ends
<1>4. N \in {3, 4}
  BY <1>3, EndingFacts
<1>5. job \in Jobs /\ job.of \in ToSet(Runtimes) /\ job.name \in Seq(Text)
  <2>1. HasJob(step)
    BY <1>2 DEF HasJob
  <2> QED BY <1>2, <1>3, <2>1, StepFacts, JobFacts DEF Builds
<1>6. RunSteps(flat, job)
  <2> HIDE DEF job
  <2> QED BY <1>3, <1>5, AllRunsFacts
<1>7. tail \in Seq(Steps) /\ Len(tail) = L - 1 /\ \A i \in 1 .. L - 1 : tail[i] = todo[i+1]
  <2>1. todo # <<>>
    BY <1>1 DEF Doing
  <2> QED BY <1>3, <2>1
<1>8. new = flat \o tail
  BY <1>1, <1>2
<1>9. flat \in Seq(Steps) /\ n \in Nat /\ DOMAIN flat = 1 .. n
  <2>1. flat \in Seq(Steps)
    BY <1>6 DEF RunSteps
  <2> HIDE DEF flat
  <2> QED BY <2>1
<1> HIDE DEF step, job, flat, tail, n, L, N, new
<1>10. new \in Seq(Steps) /\ IsConcat(new, flat, tail)
  BY <1>7, <1>8, <1>9, ConcatFacts
<1>11. Len(new) = n + L - 1 /\ DOMAIN new = 1 .. n + L - 1
  <2>1. Len(new) = n + (L - 1)
    BY <1>7, <1>10 DEF IsConcat, n
  <2>2. Len(new) = n + L - 1
    BY <1>2, <1>9, <2>1
  <2> QED BY <1>10, <2>2
<1>12. \A k \in 1 .. n : k \in DOMAIN new /\ new[k] = flat[k] /\ new[k].do = "run"
                         /\ new[k].job = job
                         /\ new[k].bench \in Sources[job.of] \cap ToSet(Benchmarks)
                         /\ exe[job.of][new[k].bench] # NotBuilt
  <2>1. \A k \in 1 .. n : new[k] = flat[k]
    BY <1>10 DEF IsConcat, n
  <2>2. \A k \in 1 .. n : k \in 1 .. n + L - 1
    BY <1>2, <1>9
  <2> QED BY <1>6, <1>9, <1>11, <2>1, <2>2 DEF RunSteps
<1>13. ASSUME NEW k \in DOMAIN new, k > n
       PROVE  at(k) \in DOMAIN todo /\ at(k) > 1 /\ new[k] = todo[at(k)]
  <2> DEFINE i == k - n
  <2>1. i \in 1 .. L - 1 /\ n + i = k /\ at(k) = i + 1 /\ i + 1 \in 1 .. L
    BY <1>2, <1>9, <1>11, <1>13
  <2> HIDE DEF i, at
  <2>2. new[n+i] = tail[i]
    BY <1>7, <1>10, <2>1 DEF IsConcat, n
  <2>3. new[k] = todo[i+1]
    BY <1>7, <2>1, <2>2
  <2>4. i + 1 > 1
    BY <2>1
  <2> QED BY <1>2, <2>1, <2>3, <2>4
<1>14. \A k \in DOMAIN new : k \in Nat /\ (k > n \/ k \in 1 .. n)
  BY <1>2, <1>9, <1>11
<1>15. \A j, k \in DOMAIN new : (at(j) < at(k) <=> j < k) /\ (at(j) = at(k) <=> j = k)
  BY <1>9, <1>14
<1>16. Ends(new, Ending(full_sweep))
  <2>1. Shifted(new, todo, n, 1)
    <3>1. Len(new) = n + Len(todo) - 1
      BY <1>11 DEF L
    <3> QED BY <1>3, <1>9, <1>10, <1>12, <1>13, <3>1 DEF Shifted
  <2>2. Len(todo) - 1 >= Len(Ending(full_sweep)) /\ Len(Ending(full_sweep)) \in Nat
    BY <1>2, <1>4 DEF L, N
  <2> QED BY <1>3, <2>1, <2>2, EndsShift
<1>17. EndInv'
  <2>1. Len(new) >= N /\ L >= N
    BY <1>2, <1>4, <1>9, <1>11
  <2> QED BY <1>1, <1>10, <1>16, <2>1, EarlyEnd DEF new, L, N
<1> HIDE DEF at
<1>18. Builds(new, exe)
  <2>1. \A k \in DOMAIN new : HasJob(new[k]) =>
          new[k].job.of \in ToSet(Runtimes) /\ (new[k].job.clean => new[k].job.alone)
    <3>1. job.clean => job.alone
      BY <1>2, <1>3 DEF Builds, HasJob, job
    <3> QED BY <1>3, <1>5, <1>12, <1>13, <1>14, <3>1 DEF Builds
  <2>b. ASSUME NEW k \in DOMAIN new, k > n, \A j \in 1 .. at(k) - 1 : todo[j].do # "build"
        PROVE  \A j \in 1 .. k-1 : new[j].do # "build"
    <3> DEFINE m == at(k)
    <3>1. m \in DOMAIN todo
      BY <1>13, <2>b
    <3>2. ASSUME NEW j \in 1 .. k-1 PROVE new[j].do # "build"
      <4>1. j \in DOMAIN new /\ j < k
        BY <1>11, <1>14
      <4>2. CASE j \in 1 .. n
        BY <1>12, <4>2
      <4>3. CASE j > n
        <5>1. at(j) \in DOMAIN todo /\ at(j) > 1 /\ new[j] = todo[at(j)]
          BY <1>13, <4>1, <4>3
        <5>2. at(j) < m
          BY <1>15, <4>1
        <5>3. at(j) \in 1 .. m-1
          <6> HIDE DEF m
          <6> QED BY <1>2, <3>1, <5>1, <5>2
        <5> QED BY <2>b, <5>1, <5>3
      <4> QED BY <1>14, <4>1, <4>2, <4>3
    <3> QED BY <3>2
  <2>2. ASSUME NEW k \in DOMAIN new, new[k].do = "run"
        PROVE  /\ new[k].bench \in Sources[new[k].job.of] \cap ToSet(Benchmarks)
               /\ \A j \in 1 .. k-1 : new[j].do # "build"
               /\ new[k].job.clean => exe[new[k].job.of][new[k].bench] = new[k].job.ref
    <3>1. CASE k \in 1 .. n
      <4>1. job.clean => BuiltBy(exe, job)
        BY <1>2, <1>3 DEF Builds, step, job
      <4>2. \A j \in 1 .. k-1 : j \in 1 .. n
        BY <1>9, <3>1
      <4>3. /\ new[k].job = job /\ new[k].bench \in Sources[job.of] \cap ToSet(Benchmarks)
            /\ exe[job.of][new[k].bench] # NotBuilt
        BY <1>12, <3>1
      <4>4. \A j \in 1 .. k-1 : new[j].do # "build"
        BY <1>12, <4>2
      <4>5. job.clean => exe[job.of][new[k].bench] = job.ref
        BY <4>1, <4>3 DEF BuiltBy
      <4> QED BY <4>3, <4>4, <4>5
    <3>2. CASE k > n
      <4> DEFINE m == at(k)
      <4>1. m \in DOMAIN todo /\ new[k] = todo[m]
        BY <1>13, <3>2
      <4>2. /\ new[k].bench \in Sources[new[k].job.of] \cap ToSet(Benchmarks)
            /\ \A j \in 1 .. m-1 : todo[j].do # "build"
            /\ new[k].job.clean => exe[new[k].job.of][new[k].bench] = new[k].job.ref
        <5> HIDE DEF m
        <5> QED BY <1>3, <2>2, <4>1 DEF Builds
      <4> QED BY <2>b, <3>2, <4>2
    <3> QED BY <1>14, <3>1, <3>2
  <2>3. ASSUME NEW k \in DOMAIN new, new[k].do = "build", new[k].job.alone
        PROVE  k + 1 \in DOMAIN new /\ new[k+1] = Step("bench", new[k].job)
    <3> DEFINE m == at(k)
    <3>1. k > n
      BY <1>12, <1>14, <2>3
    <3>2. m \in DOMAIN todo /\ new[k] = todo[m]
      BY <1>13, <3>1
    <3>3. m + 1 \in DOMAIN todo /\ todo[m+1] = Step("bench", new[k].job)
      <4> HIDE DEF m
      <4> QED BY <1>3, <2>3, <3>2 DEF Builds
    <3> DEFINE p == k + 1
    <3>4. p \in DOMAIN new /\ p > n /\ at(p) = m + 1
      BY <1>2, <1>9, <1>11, <1>14, <3>1, <3>3 DEF at
    <3> HIDE DEF m, p
    <3>5. new[p] = todo[m+1]
      BY <1>13, <3>4
    <3> QED BY <3>3, <3>4, <3>5 DEF p
  <2>4. ASSUME NEW k \in DOMAIN new, new[k].do = "bench", new[k].job.clean
        PROVE  \/ k > 1 /\ new[k-1] = Step("build", new[k].job)
               \/ BuiltBy(exe, new[k].job) /\ \A j \in 1 .. k-1 : new[j].do # "build"
    <3>1. ~ (k \in 1 .. n)
      BY <1>12, <2>4
    <3>2. CASE k > n
      <4> DEFINE m == at(k)
      <4>1. m \in DOMAIN todo /\ m > 1 /\ new[k] = todo[m]
        BY <1>13, <3>2
      <4>2. \/ m > 1 /\ todo[m-1] = Step("build", new[k].job)
            \/ BuiltBy(exe, new[k].job) /\ \A j \in 1 .. m-1 : todo[j].do # "build"
        <5> HIDE DEF m
        <5> QED BY <1>3, <2>4, <4>1 DEF Builds
      <4>3. CASE todo[m-1] = Step("build", new[k].job)
        <5>1. todo[m-1].do = "build"
          BY <4>3 DEF Step
        <5>2. m - 1 # 1
          BY <1>2, <5>1 DEF step
        <5> DEFINE p == k - 1
        <5>3. m = k - n + 1 /\ m \in Nat /\ k \in Nat
          BY <1>2, <1>14, <4>1 DEF at
        <5>4. k > 1 /\ p \in DOMAIN new /\ p > n /\ at(p) = m - 1
          <6> HIDE DEF m
          <6>1. k > n + 1
            BY <1>9, <4>1, <5>2, <5>3
          <6> QED BY <1>9, <1>11, <5>3, <6>1 DEF at
        <5> HIDE DEF m, p
        <5>5. new[p] = todo[m-1]
          BY <1>13, <5>4
        <5> QED BY <4>3, <5>4, <5>5 DEF p
      <4>4. CASE BuiltBy(exe, new[k].job) /\ \A j \in 1 .. m-1 : todo[j].do # "build"
        <5>1. \A j \in 1 .. k-1 : new[j].do # "build"
          BY <2>b, <3>2, <4>4
        <5> QED BY <4>4, <5>1
      <4> QED BY <4>2, <4>3, <4>4
    <3> QED BY <1>14, <3>1, <3>2
  <2> QED BY <2>1, <2>2, <2>3, <2>4 DEF Builds
<1>19. Orders(new, full_results)
  <2>1. ASSUME NEW j \in DOMAIN new, NEW k \in DOMAIN new, new[k].do = "bench"
        PROVE  /\ new[j].do = "bench" /\ j # k => new[j].job.name # new[k].job.name
               /\ new[j].do = "run" => new[j].job.name # new[k].job.name
    <3> DEFINE m == at(k)
    <3>1. k > n
      BY <1>12, <1>14, <2>1
    <3>2. m \in DOMAIN todo /\ m > 1 /\ new[k] = todo[m]
      BY <1>13, <3>1
    <3> HIDE DEF m
    <3>3. CASE j \in 1 .. n
      <4>1. todo[1].job.name # todo[m].job.name
        BY <1>2, <1>3, <2>1, <3>2 DEF Orders, step
      <4> QED BY <1>12, <3>2, <3>3, <4>1 DEF step, job
    <3>4. CASE j > n
      <4> DEFINE i == at(j)
      <4>1. i \in DOMAIN todo /\ new[j] = todo[i] /\ (j # k => i # m)
        BY <1>13, <1>15, <3>4 DEF m
      <4> HIDE DEF i
      <4> QED BY <1>3, <2>1, <3>2, <4>1 DEF Orders
    <3> QED BY <1>14, <3>3, <3>4
  <2>2. ASSUME NEW j \in DOMAIN new, NEW k \in DOMAIN new,
               new[j].do = "run", new[k].do = "run", j < k,
               NameOf(new[j]) = NameOf(new[k]), new[j].bench = new[k].bench
        PROVE  new[j].threads < new[k].threads
    <3>1. new[j] \in Steps /\ new[k] \in Steps
      BY <1>10
    <3>2. /\ new[j].job \in Jobs /\ new[j].job.name \in Seq(Text) /\ new[j].config \in Text
          /\ new[k].job \in Jobs /\ new[k].job.name \in Seq(Text) /\ new[k].config \in Text
      BY <2>2, <3>1, StepFacts, JobFacts DEF HasJob
    <3>3. new[j].job.name = new[k].job.name
      BY <2>2, <3>2, FrontOfAppend DEF NameOf
    <3>4. new[j].config = new[k].config
      <4> DEFINE s == new[j].job.name
                 c == new[j].config
                 d == new[k].config
      <4>1. Append(s, c) = Append(s, d) /\ s \in Seq(Text) /\ c \in Text /\ d \in Text
        BY <2>2, <3>2, <3>3 DEF NameOf
      <4> HIDE DEF s, c, d
      <4>2. Append(s, c)[Len(s)+1] = c /\ Append(s, d)[Len(s)+1] = d
        BY <4>1
      <4>3. c = d
        BY <4>1, <4>2
      <4> QED BY <4>3 DEF c, d
    <3>5. CASE j \in 1 .. n /\ k \in 1 .. n
      BY <1>6, <1>9, <1>12, <2>2, <3>4, <3>5 DEF RunSteps
    <3>6. CASE j \in 1 .. n /\ k > n
      <4> DEFINE m == at(k)
      <4>1. m \in DOMAIN todo /\ new[k] = todo[m]
        BY <1>13, <3>6
      <4> HIDE DEF m
      <4>2. todo[m].job.name # todo[1].job.name
        BY <1>2, <1>3, <2>2, <4>1 DEF Orders, step
      <4> QED BY <1>12, <3>3, <3>6, <4>1, <4>2 DEF step, job
    <3>7. CASE j > n /\ k > n
      <4> DEFINE i == at(j)
                 m == at(k)
      <4>1. i \in DOMAIN todo /\ m \in DOMAIN todo /\ i < m /\ new[j] = todo[i] /\ new[k] = todo[m]
        BY <1>13, <1>15, <2>2, <3>7
      <4> HIDE DEF i, m
      <4> QED BY <1>3, <2>2, <4>1 DEF Orders
    <3>8. ~ (j > n /\ k \in 1 .. n)
      BY <1>9, <1>14, <2>2
    <3> QED BY <1>14, <3>5, <3>6, <3>7, <3>8
  <2>3. \A i, j \in DOMAIN full_results : full_results[i].name = full_results[j].name => i = j
    BY <1>3 DEF Orders
  <2>4. ASSUME NEW i \in DOMAIN full_results, NEW k \in DOMAIN new
        PROVE  LET e == full_results[i] IN
               /\ new[k].do = "bench" => Front(e.name) # new[k].job.name
               /\ /\ new[k].do = "run" /\ e.name = NameOf(new[k])
                  /\ new[k].bench \in DOMAIN e.runs
                  => \A r \in ToSet(e.runs[new[k].bench]) : r.threads < new[k].threads
    <3>1. CASE k \in 1 .. n
      <4>1. Front(full_results[i].name) # todo[1].job.name
        BY <1>2, <1>3 DEF Orders, step
      <4>2. new[k] \in Steps /\ new[k].do = "run" /\ new[k].job = job
        BY <1>10, <1>12, <3>1
      <4>3. Front(NameOf(new[k])) = new[k].job.name
        BY <4>2, StepFacts, JobFacts, FrontOfAppend DEF NameOf, HasJob
      <4> QED BY <4>1, <4>2, <4>3 DEF job, step
    <3>2. CASE k > n
      <4> DEFINE m == at(k)
      <4>1. m \in DOMAIN todo /\ new[k] = todo[m]
        BY <1>13, <3>2
      <4> HIDE DEF m
      <4> QED BY <1>3, <4>1 DEF Orders
    <3> QED BY <1>14, <3>1, <3>2
  <2> QED BY <2>1, <2>2, <2>3, <2>4 DEF Orders
<1>20. TypeOK'
  BY <1>1, <1>3, <1>10 DEF TypeOK, new
<1>21. OfThisBuild' /\ BuildInv' /\ OrderInv' /\ DatasetInv'
  BY <1>1, <1>3, <1>18, <1>19, PartsPrimed DEF IInv, DatasetInv, new
<1> QED BY <1>17, <1>20, <1>21 DEF IInv
-----------------------------------------------------------------------------
(* What is to be done at first: each build comes before its runs, and no   *)
(* two benches have a name.                                                *)
IsPlan(list) ==
  /\ list \in Seq(Steps)
  /\ \A k \in DOMAIN list :
       \/ list[k].do = "threads"
       \/ /\ list[k].do \in {"build", "bench"} /\ list[k].job.of \in ToSet(Runtimes)
          /\ list[k].job.clean => list[k].job.alone
  /\ \A k \in DOMAIN list : list[k].do = "build" /\ list[k].job.alone =>
       k + 1 \in DOMAIN list /\ list[k+1] = Step("bench", list[k].job)
  /\ \A k \in DOMAIN list : list[k].do = "bench" /\ list[k].job.alone =>
       k > 1 /\ list[k-1] = Step("build", list[k].job)
  /\ \A j, k \in DOMAIN list : list[j].do = "bench" /\ list[k].do = "bench" /\ j # k =>
       list[j].job.name # list[k].job.name

(* A plan that is well formed establishes the parts of the invariant.      *)
LEMMA PlanParts ==
  ASSUME NEW plan, IsPlan(plan), NEW full \in BOOLEAN, NEW e, NEW list,
         list = plan \o Ending(full)
  PROVE  /\ list \in Seq(Steps) /\ Len(list) >= Len(Ending(full))
         /\ Ends(list, Ending(full)) /\ Builds(list, e) /\ Orders(list, <<>>)
<1> DEFINE ending == Ending(full)
           n == Len(plan)
           N == Len(ending)
<1>1. plan \in Seq(Steps) /\ n \in Nat /\ DOMAIN plan = 1 .. n
  BY DEF IsPlan
<1>2. /\ ending \in Seq(Steps) /\ N \in {3, 4}
      /\ \A k \in 1 .. N : ending[k].do \in {"scale", "collate", "json", "md"}
  <2>1. /\ ending \in Seq(Steps) /\ N = IF full THEN 4 ELSE 3
        /\ ending[1].do = "scale" /\ ending[2].do = "collate"
        /\ ending[3].do = IF full THEN "json" ELSE "md"
        /\ full => ending[4].do = "md"
    BY EndingFacts
  <2> HIDE DEF ending, N
  <2>2. ASSUME NEW k \in 1 .. N PROVE ending[k].do \in {"scale", "collate", "json", "md"}
    <3>1. k = 1 \/ k = 2 \/ k = 3 \/ (k = 4 /\ full)
      BY <2>1
    <3> QED BY <2>1, <3>1
  <2> QED BY <2>1, <2>2
<1>3. list \in Seq(Steps) /\ IsConcat(list, plan, ending)
  <2> HIDE DEF ending, n, N
  <2> QED BY <1>1, <1>2, ConcatFacts DEF ending
<1>4. /\ Len(list) = n + N /\ DOMAIN list = 1 .. n + N
      /\ \A k \in 1 .. n : list[k] = plan[k]
      /\ \A k \in 1 .. N : list[n + k] = ending[k]
  <2>1. Len(list) = n + N
    BY <1>3 DEF IsConcat
  <2> QED BY <1>3, <2>1 DEF IsConcat
<1> HIDE DEF ending, n, N
<1>5. ASSUME NEW k \in DOMAIN list, ~ (k =< n)
      PROVE  k - n \in 1 .. N /\ list[k] = ending[k - n]
             /\ list[k].do \in {"scale", "collate", "json", "md"}
  <2> DEFINE i == k - n
  <2>1. i \in 1 .. N /\ n + i = k
    BY <1>1, <1>2, <1>4, <1>5
  <2> HIDE DEF i
  <2>2. list[n + i] = ending[i]
    BY <1>4, <2>1
  <2> QED BY <1>2, <2>1, <2>2 DEF i
<1>6. ASSUME NEW k \in DOMAIN list, list[k].do \in {"threads", "build", "bench", "run"}
      PROVE  /\ k \in DOMAIN plan /\ list[k] = plan[k] /\ list[k].do # "run"
             /\ list[k].do # "threads" => list[k].job.of \in ToSet(Runtimes)
                                         /\ (list[k].job.clean => list[k].job.alone)
  <2>1. k =< n
    BY <1>5, <1>6
  <2>2. k \in 1 .. n
    BY <1>1, <1>2, <1>4, <2>1
  <2> QED BY <1>1, <1>4, <2>2 DEF IsPlan
<1>7. Ends(list, ending)
  <2>1. ASSUME NEW k \in DOMAIN list
        PROVE  IF Len(list) - k < N THEN list[k] = ending[N - (Len(list) - k)]
               ELSE list[k].do \in {"threads", "build", "bench", "run"}
    <3>1. CASE k =< n
      <4>1. ~ (Len(list) - k < N) /\ k \in 1 .. n
        BY <1>1, <1>2, <1>4, <3>1
      <4>2. plan[k].do \in {"threads", "build", "bench", "run"}
        BY <1>1, <4>1 DEF IsPlan
      <4> QED BY <1>4, <4>1, <4>2
    <3>2. CASE ~ (k =< n)
      <4>1. Len(list) - k < N /\ N - (Len(list) - k) = k - n
        BY <1>1, <1>2, <1>4, <3>2
      <4> QED BY <1>5, <3>2, <4>1
    <3> QED BY <3>1, <3>2
  <2> QED BY <2>1 DEF Ends, N
<1>8. Builds(list, e)
  <2>1. \A k \in DOMAIN list : HasJob(list[k]) =>
          list[k].job.of \in ToSet(Runtimes) /\ (list[k].job.clean => list[k].job.alone)
    BY <1>6 DEF HasJob
  <2>2. \A k \in DOMAIN list : list[k].do # "run"
    BY <1>6
  <2>3. ASSUME NEW k \in DOMAIN list, list[k].do = "build", list[k].job.alone
        PROVE  k + 1 \in DOMAIN list /\ list[k+1] = Step("bench", list[k].job)
    <3>1. k \in DOMAIN plan /\ list[k] = plan[k]
      BY <1>6, <2>3
    <3>2. k + 1 \in 1 .. n /\ plan[k+1] = Step("bench", list[k].job)
      BY <1>1, <2>3, <3>1 DEF IsPlan
    <3>3. k + 1 \in 1 .. n + N
      BY <1>1, <1>2, <3>2
    <3> QED BY <1>4, <3>2, <3>3
  <2>4. ASSUME NEW k \in DOMAIN list, list[k].do = "bench", list[k].job.clean
        PROVE  k > 1 /\ list[k-1] = Step("build", list[k].job)
    <3>1. k \in DOMAIN plan /\ list[k] = plan[k] /\ list[k].job.alone
      BY <1>6, <2>4
    <3>2. k > 1 /\ plan[k-1] = Step("build", list[k].job)
      BY <2>4, <3>1 DEF IsPlan
    <3>3. k - 1 \in 1 .. n
      BY <1>1, <3>1, <3>2
    <3> QED BY <1>4, <3>2, <3>3
  <2> QED BY <2>1, <2>2, <2>3, <2>4 DEF Builds
<1>9. Orders(list, <<>>)
  <2>1. \A k \in DOMAIN list : list[k].do # "run"
    BY <1>6
  <2>2. DOMAIN <<>> = {}
    OBVIOUS
  <2>3. ASSUME NEW j \in DOMAIN list, NEW k \in DOMAIN list,
               list[j].do = "bench", list[k].do = "bench", j # k
        PROVE  list[j].job.name # list[k].job.name
    BY <1>6, <2>3 DEF IsPlan
  <2> QED BY <2>1, <2>2, <2>3 DEF Orders
<1>10. Len(list) >= N
  BY <1>1, <1>2, <1>4
<1> QED BY <1>3, <1>7, <1>8, <1>9, <1>10 DEF ending, N

JobSteps(r, tag, ref, clean, alone) ==
  LET job == Job(r, <<r, tag>>, ref, clean, alone)
      b == Step("build", job)
      c == Step("bench", job)
  IN  /\ b \in Steps /\ b.do = "build" /\ b.job = job
      /\ c \in Steps /\ c.do = "bench" /\ c.job = job
      /\ job.of = r /\ job.name = <<r, tag>> /\ job.clean = clean /\ job.alone = alone

(* One job is built, and then benched.                                     *)
LEMMA JobStepsFacts ==
  ASSUME NEW r \in ToSet(Runtimes), NEW ref \in Text, NEW tag \in Text,
         NEW clean \in BOOLEAN, NEW alone \in BOOLEAN
  PROVE  JobSteps(r, tag, ref, clean, alone)
<1> DEFINE job == Job(r, <<r, tag>>, ref, clean, alone)
<1>1. r \in Text
  <2>1. Runtimes \in Seq(STRING)
    BY DriverAssumption
  <2>2. r \in STRING
    BY <2>1, ToSetFacts
  <2> QED BY <2>2 DEF Text
<1>2. <<r, tag>> \in Seq(Text)
  BY <1>1
<1>3. /\ job \in Jobs /\ job.of = r /\ job.name = <<r, tag>>
      /\ job.clean = clean /\ job.alone = alone
  BY <1>1, <1>2 DEF Job, Jobs
<1> HIDE DEF job
<1>4. /\ Step("build", job) \in Steps /\ Step("build", job).do = "build"
      /\ Step("build", job).job = job
      /\ Step("bench", job) \in Steps /\ Step("bench", job).do = "bench"
      /\ Step("bench", job).job = job
  BY <1>3 DEF Step, Steps
<1> QED BY <1>3, <1>4 DEF JobSteps, job

(* The sweep comes first, in all invocations.                              *)
LEMMA SweepPlan ==
  Sweep \in Seq(Steps) /\ Len(Sweep) = 1 /\ Sweep[1].do = "threads"
<1> DEFINE x == [do |-> "threads"]
<1>1. x \in Steps /\ x.do = "threads"
  BY DEF Steps
<1>2. Sweep = <<x>>
  BY DEF Sweep
<1> HIDE DEF x
<1> QED BY <1>1, <1>2

(* --runtime.                                                              *)
LEMMA SinglePlan ==
  ASSUME NEW r \in ToSet(Runtimes), NEW ref \in Text
  PROVE  IsPlan(Single(r, ref))
<1> DEFINE job == Job(r, <<r, "">>, ref, ref # Default, TRUE)
           b == Step("build", job)
           c == Step("bench", job)
           plan == Single(r, ref)
<1>1. /\ b \in Steps /\ b.do = "build" /\ b.job = job
      /\ c \in Steps /\ c.do = "bench" /\ c.job = job
      /\ job.of = r /\ job.alone = TRUE
  <2> DEFINE clean == ref # Default
  <2>1. "" \in Text /\ clean \in BOOLEAN /\ TRUE \in BOOLEAN
    BY DEF Text
  <2> HIDE DEF clean
  <2>2. JobSteps(r, "", ref, clean, TRUE)
    BY <2>1, JobStepsFacts
  <2> QED BY <2>2 DEF JobSteps, clean
<1>2. plan = Sweep \o <<b, c>>
  BY DEF Single
<1>3. c = Step("bench", job) /\ b = Step("build", job)
  OBVIOUS
<1> HIDE DEF job, b, c, plan
<1>4. /\ <<b, c>> \in Seq(Steps) /\ Len(<<b, c>>) = 2
      /\ <<b, c>>[1] = b /\ <<b, c>>[2] = c
  BY <1>1
<1>5. plan \in Seq(Steps) /\ IsConcat(plan, Sweep, <<b, c>>)
  BY <1>2, <1>4, SweepPlan, ConcatFacts
<1>6. /\ Len(plan) = 3 /\ DOMAIN plan = 1 .. 3
      /\ plan[1].do = "threads" /\ plan[2] = b /\ plan[3] = c
  <2> DEFINE s == <<b, c>>
  <2>1. Len(s) = 2 /\ s[1] = b /\ s[2] = c
    BY <1>4
  <2> HIDE DEF s
  <2>2. IsConcat(plan, Sweep, s)
    BY <1>5 DEF s
  <2>3. 1 \in 1 .. Len(Sweep) /\ 1 \in 1 .. Len(s) /\ 2 \in 1 .. Len(s)
        /\ Len(Sweep) + 1 = 2 /\ Len(Sweep) + 2 = 3
    BY <2>1, SweepPlan
  <2>4. plan[1] = Sweep[1] /\ plan[2] = s[1] /\ plan[3] = s[2] /\ Len(plan) = 3
    BY <2>1, <2>2, <2>3, SweepPlan DEF IsConcat
  <2> QED BY <1>5, <2>1, <2>4, SweepPlan
<1>7. \A k \in DOMAIN plan : k = 1 \/ k = 2 \/ k = 3
  BY <1>6
<1>8. /\ \A k \in DOMAIN plan : plan[k].do = "build" => k = 2
      /\ \A k \in DOMAIN plan : plan[k].do = "bench" => k = 3
      /\ 2 + 1 \in DOMAIN plan /\ plan[2 + 1] = c /\ 3 > 1 /\ plan[3 - 1] = b
  BY <1>1, <1>6, <1>7
<1>9. \A k \in DOMAIN plan :
        \/ plan[k].do = "threads"
        \/ /\ plan[k].do \in {"build", "bench"} /\ plan[k].job.of \in ToSet(Runtimes)
           /\ plan[k].job.clean => plan[k].job.alone
  BY <1>1, <1>6, <1>7
<1>10. \A k \in DOMAIN plan : plan[k].do = "build" =>
         k + 1 \in DOMAIN plan /\ plan[k+1] = Step("bench", plan[k].job)
  BY <1>1, <1>3, <1>6, <1>8
<1>11. \A k \in DOMAIN plan : plan[k].do = "bench" =>
         k > 1 /\ plan[k-1] = Step("build", plan[k].job)
  BY <1>1, <1>3, <1>6, <1>8
<1>12. /\ \A k \in DOMAIN plan : plan[k].do = "build" /\ plan[k].job.alone =>
           k + 1 \in DOMAIN plan /\ plan[k+1] = Step("bench", plan[k].job)
       /\ \A k \in DOMAIN plan : plan[k].do = "bench" /\ plan[k].job.alone =>
            k > 1 /\ plan[k-1] = Step("build", plan[k].job)
  BY <1>10, <1>11
<1>13. \A j, k \in DOMAIN plan : plan[j].do = "bench" /\ plan[k].do = "bench" /\ j # k =>
        plan[j].job.name # plan[k].job.name
  BY <1>8
<1> QED BY <1>5, <1>9, <1>12, <1>13 DEF IsPlan, plan

(* --runtime --compare, of two different refs.                             *)
LEMMA ComparePlan ==
  ASSUME NEW r \in ToSet(Runtimes), NEW new_ref \in Text, NEW baseline_ref \in Text,
         new_ref # baseline_ref
  PROVE  IsPlan(Compare(r, new_ref, baseline_ref))
<1> DEFINE Of(ref) == Job(r, <<r, ref>>, ref, TRUE, TRUE)
           new == Of(new_ref)
           base == Of(baseline_ref)
           b == Step("build", new)
           c == Step("bench", new)
           d == Step("build", base)
           e == Step("bench", base)
           plan == Compare(r, new_ref, baseline_ref)
<1>1. /\ b \in Steps /\ b.do = "build" /\ b.job = new
      /\ c \in Steps /\ c.do = "bench" /\ c.job = new
      /\ new.of = r /\ new.alone = TRUE /\ new.name = <<r, new_ref>>
  <2>1. JobSteps(r, new_ref, new_ref, TRUE, TRUE)
    BY JobStepsFacts
  <2> QED BY <2>1 DEF JobSteps
<1>2. /\ d \in Steps /\ d.do = "build" /\ d.job = base
      /\ e \in Steps /\ e.do = "bench" /\ e.job = base
      /\ base.of = r /\ base.alone = TRUE /\ base.name = <<r, baseline_ref>>
  <2>1. JobSteps(r, baseline_ref, baseline_ref, TRUE, TRUE)
    BY JobStepsFacts
  <2> QED BY <2>1 DEF JobSteps
<1>3. plan = Sweep \o <<b, c, d, e>>
  BY DEF Compare
<1>4. c = Step("bench", new) /\ b = Step("build", new)
      /\ e = Step("bench", base) /\ d = Step("build", base)
  OBVIOUS
<1>5. new.name # base.name
  <2> HIDE DEF new, base
  <2>1. new.name[2] = new_ref /\ base.name[2] = baseline_ref
    BY <1>1, <1>2
  <2> QED BY <2>1
<1> HIDE DEF Of, new, base, b, c, d, e, plan
<1> DEFINE s == <<b, c, d, e>>
<1>6. s \in Seq(Steps) /\ Len(s) = 4 /\ s[1] = b /\ s[2] = c /\ s[3] = d /\ s[4] = e
  BY <1>1, <1>2
<1> HIDE DEF s
<1>7. plan \in Seq(Steps) /\ IsConcat(plan, Sweep, s)
  BY <1>3, <1>6, SweepPlan, ConcatFacts DEF s
<1>8. /\ Len(plan) = 5 /\ DOMAIN plan = 1 .. 5
      /\ plan[1].do = "threads" /\ plan[2] = b /\ plan[3] = c /\ plan[4] = d /\ plan[5] = e
  <2>1. /\ 1 \in 1 .. Len(Sweep) /\ \A i \in 1 .. 4 : i \in 1 .. Len(s)
        /\ Len(Sweep) + 1 = 2 /\ Len(Sweep) + 2 = 3 /\ Len(Sweep) + 3 = 4 /\ Len(Sweep) + 4 = 5
        /\ 1 \in 1 .. 4 /\ 2 \in 1 .. 4 /\ 3 \in 1 .. 4 /\ 4 \in 1 .. 4
    BY <1>6, SweepPlan
  <2>2. Len(plan) = 5
    BY <1>6, <1>7, SweepPlan DEF IsConcat
  <2>3. plan[1] = Sweep[1] /\ plan[2] = s[1] /\ plan[3] = s[2] /\ plan[4] = s[3] /\ plan[5] = s[4]
    BY <1>7, <2>1 DEF IsConcat
  <2> QED BY <1>6, <1>7, <2>2, <2>3, SweepPlan
<1>9. \A k \in DOMAIN plan : k = 1 \/ k = 2 \/ k = 3 \/ k = 4 \/ k = 5
  BY <1>8
<1>10. /\ \A k \in DOMAIN plan : plan[k].do = "build" => k = 2 \/ k = 4
       /\ \A k \in DOMAIN plan : plan[k].do = "bench" => k = 3 \/ k = 5
       /\ 2 + 1 \in DOMAIN plan /\ plan[2 + 1] = c /\ 3 > 1 /\ plan[3 - 1] = b
       /\ 4 + 1 \in DOMAIN plan /\ plan[4 + 1] = e /\ 5 > 1 /\ plan[5 - 1] = d
  BY <1>1, <1>2, <1>8, <1>9
<1>11. \A k \in DOMAIN plan :
         \/ plan[k].do = "threads"
         \/ /\ plan[k].do \in {"build", "bench"} /\ plan[k].job.of \in ToSet(Runtimes)
            /\ plan[k].job.clean => plan[k].job.alone
  BY <1>1, <1>2, <1>8, <1>9
<1>12. ASSUME NEW k \in DOMAIN plan, plan[k].do = "build"
       PROVE  k + 1 \in DOMAIN plan /\ plan[k+1] = Step("bench", plan[k].job)
  <2>1. CASE k = 2
    BY <1>1, <1>4, <1>8, <1>10, <2>1
  <2>2. CASE k = 4
    BY <1>2, <1>4, <1>8, <1>10, <2>2
  <2> QED BY <1>10, <1>12, <2>1, <2>2
<1>13. ASSUME NEW k \in DOMAIN plan, plan[k].do = "bench"
       PROVE  k > 1 /\ plan[k-1] = Step("build", plan[k].job)
  <2>1. CASE k = 3
    BY <1>1, <1>4, <1>8, <1>10, <2>1
  <2>2. CASE k = 5
    BY <1>2, <1>4, <1>8, <1>10, <2>2
  <2> QED BY <1>10, <1>13, <2>1, <2>2
<1>14. ASSUME NEW j \in DOMAIN plan, NEW k \in DOMAIN plan,
              plan[j].do = "bench", plan[k].do = "bench", j # k
       PROVE  plan[j].job.name # plan[k].job.name
  <2>1. (j = 3 /\ k = 5) \/ (j = 5 /\ k = 3)
    BY <1>10, <1>14
  <2> QED BY <1>1, <1>2, <1>5, <1>8, <2>1
<1>15. /\ \A k \in DOMAIN plan : plan[k].do = "build" /\ plan[k].job.alone =>
           k + 1 \in DOMAIN plan /\ plan[k+1] = Step("bench", plan[k].job)
       /\ \A k \in DOMAIN plan : plan[k].do = "bench" /\ plan[k].job.alone =>
            k > 1 /\ plan[k-1] = Step("build", plan[k].job)
  BY <1>12, <1>13
<1>16. \A j, k \in DOMAIN plan : plan[j].do = "bench" /\ plan[k].do = "bench" /\ j # k =>
        plan[j].job.name # plan[k].job.name
  BY <1>14
<1> QED BY <1>7, <1>11, <1>15, <1>16 DEF IsPlan, plan

(* All runtimes: everything is built before anything is benched.           *)
LEMMA AllPlan ==
  ASSUME NEW ref \in Text
  PROVE  IsPlan(All(ref))
<1> DEFINE J(i) == Job(Runtimes[i], <<Runtimes[i], "">>, ref, FALSE, FALSE)
           Each(do) == [i \in DOMAIN Runtimes |-> Step(do, J(i))]
           n == Len(Runtimes)
           plan == All(ref)
<1>1. Runtimes \in Seq(STRING) /\ n \in Nat /\ DOMAIN Runtimes = 1 .. n
      /\ \A i, j \in 1 .. n : Runtimes[i] = Runtimes[j] => i = j
  BY DriverAssumption DEF Distinct
<1>2. ASSUME NEW i \in 1 .. n
      PROVE  /\ Runtimes[i] \in ToSet(Runtimes)
             /\ J(i).of = Runtimes[i] /\ J(i).name = <<Runtimes[i], "">>
             /\ J(i).clean = FALSE /\ J(i).alone = FALSE
             /\ Step("build", J(i)) \in Steps /\ Step("bench", J(i)) \in Steps
             /\ Step("build", J(i)).do = "build" /\ Step("build", J(i)).job = J(i)
             /\ Step("bench", J(i)).do = "bench" /\ Step("bench", J(i)).job = J(i)
  <2>1. Runtimes[i] \in ToSet(Runtimes)
    BY <1>1 DEF ToSet
  <2>2. "" \in Text /\ FALSE \in BOOLEAN
    BY DEF Text
  <2>3. JobSteps(Runtimes[i], "", ref, FALSE, FALSE)
    BY <2>1, <2>2, JobStepsFacts
  <2> QED BY <2>1, <2>3 DEF JobSteps
<1>3. plan = Each("build") \o Sweep \o Each("bench")
  BY DEF All
<1> HIDE DEF J
<1>4. ASSUME NEW do \in {"build", "bench"}
      PROVE  Each(do) \in Seq(Steps) /\ Len(Each(do)) = n
             /\ \A i \in 1 .. n : Each(do)[i] = Step(do, J(i))
  <2>1. Each(do) \in [1 .. n -> Steps]
    BY <1>1, <1>2
  <2> QED BY <1>1, <2>1
<1> DEFINE x == Each("build")
           y == Each("bench")
<1>5. /\ x \in Seq(Steps) /\ Len(x) = n /\ \A i \in 1 .. n : x[i] = Step("build", J(i))
      /\ y \in Seq(Steps) /\ Len(y) = n /\ \A i \in 1 .. n : y[i] = Step("bench", J(i))
  BY <1>4
<1> DEFINE w == x \o Sweep
<1>6. plan = w \o y
  BY <1>3
<1> HIDE DEF n, x, y, plan, w, Each
<1>7. w \in Seq(Steps) /\ IsConcat(w, x, Sweep)
  BY <1>5, SweepPlan, ConcatFacts DEF w
<1>8. /\ Len(w) = n + 1
      /\ \A i \in 1 .. n : w[i] = Step("build", J(i))
      /\ w[n + 1] = Sweep[1]
  <2>1. 1 \in 1 .. Len(Sweep)
    BY SweepPlan
  <2> QED BY <1>5, <1>7, <2>1, SweepPlan DEF IsConcat
<1>9. plan \in Seq(Steps) /\ IsConcat(plan, w, y)
  BY <1>5, <1>6, <1>7, ConcatFacts
<1>10. /\ Len(plan) = n + 1 + n
       /\ \A k \in 1 .. n + 1 : plan[k] = w[k]
       /\ \A i \in 1 .. n : plan[n + 1 + i] = y[i]
  BY <1>5, <1>8, <1>9 DEF IsConcat
<1>11. DOMAIN plan = 1 .. n + 1 + n
  BY <1>9, <1>10
<1> DEFINE at(k) == k - (n + 1)
<1>12. ASSUME NEW k \in DOMAIN plan
       PROVE  \/ k \in 1 .. n /\ plan[k] = Step("build", J(k))
              \/ k = n + 1 /\ plan[k].do = "threads"
              \/ at(k) \in 1 .. n /\ n + 1 + at(k) = k /\ plan[k] = Step("bench", J(at(k)))
  <2>1. n \in Nat /\ (k \in 1 .. n \/ k = n + 1 \/ (at(k) \in 1 .. n /\ n + 1 + at(k) = k))
    BY <1>1, <1>11
  <2>2. CASE k \in 1 .. n
    <3>1. k \in 1 .. n + 1
      BY <2>1, <2>2
    <3> QED BY <1>8, <1>10, <2>2, <3>1
  <2>3. CASE k = n + 1
    <3>1. n + 1 \in 1 .. n + 1
      BY <2>1
    <3> QED BY <1>8, <1>10, <2>3, <3>1, SweepPlan
  <2>4. CASE at(k) \in 1 .. n /\ n + 1 + at(k) = k
    <3> DEFINE i == at(k)
    <3>1. i \in 1 .. n /\ n + 1 + i = k
      BY <2>4
    <3> HIDE DEF i, at
    <3>2. plan[n + 1 + i] = y[i] /\ y[i] = Step("bench", J(i))
      BY <1>5, <1>10, <3>1
    <3> QED BY <3>1, <3>2 DEF i
  <2> QED BY <2>1, <2>2, <2>3, <2>4
<1> HIDE DEF at
<1>13. ASSUME NEW k \in DOMAIN plan
       PROVE  \/ plan[k].do = "threads"
              \/ /\ plan[k].do \in {"build", "bench"} /\ plan[k].job.of \in ToSet(Runtimes)
                 /\ plan[k].job.clean = FALSE /\ plan[k].job.alone = FALSE
  <2>1. CASE k \in 1 .. n /\ plan[k] = Step("build", J(k))
    BY <1>2, <2>1
  <2>2. CASE at(k) \in 1 .. n /\ plan[k] = Step("bench", J(at(k)))
    <3> DEFINE i == at(k)
    <3>1. i \in 1 .. n /\ plan[k] = Step("bench", J(i))
      BY <2>2
    <3> HIDE DEF i
    <3> QED BY <1>2, <3>1
  <2> QED BY <1>12, <2>1, <2>2
<1>14. ASSUME NEW j \in DOMAIN plan, NEW k \in DOMAIN plan,
              plan[j].do = "bench", plan[k].do = "bench", j # k
       PROVE  plan[j].job.name # plan[k].job.name
  <2>1. at(j) \in 1 .. n /\ n + 1 + at(j) = j /\ plan[j] = Step("bench", J(at(j)))
    BY <1>2, <1>12, <1>14
  <2>2. at(k) \in 1 .. n /\ n + 1 + at(k) = k /\ plan[k] = Step("bench", J(at(k)))
    BY <1>2, <1>12, <1>14
  <2> DEFINE u == at(j)
             v == at(k)
  <2>3. u \in 1 .. n /\ v \in 1 .. n /\ u # v
    BY <1>14, <2>1, <2>2
  <2>4. plan[j].job.name = <<Runtimes[u], "">> /\ plan[k].job.name = <<Runtimes[v], "">>
    BY <1>2, <2>1, <2>2
  <2> HIDE DEF u, v
  <2>5. Runtimes[u] # Runtimes[v]
    BY <1>1, <2>3 DEF n
  <2>6. <<Runtimes[u], "">>[1] = Runtimes[u] /\ <<Runtimes[v], "">>[1] = Runtimes[v]
    OBVIOUS
  <2> QED BY <2>4, <2>5, <2>6
<1>15. \A k \in DOMAIN plan :
         \/ plan[k].do = "threads"
         \/ /\ plan[k].do \in {"build", "bench"} /\ plan[k].job.of \in ToSet(Runtimes)
            /\ plan[k].job.clean => plan[k].job.alone
  BY <1>13
<1>16. /\ \A k \in DOMAIN plan : plan[k].do = "build" /\ plan[k].job.alone =>
           k + 1 \in DOMAIN plan /\ plan[k+1] = Step("bench", plan[k].job)
       /\ \A k \in DOMAIN plan : plan[k].do = "bench" /\ plan[k].job.alone =>
            k > 1 /\ plan[k-1] = Step("build", plan[k].job)
  BY <1>13
<1>17. \A j, k \in DOMAIN plan : plan[j].do = "bench" /\ plan[k].do = "bench" /\ j # k =>
        plan[j].job.name # plan[k].job.name
  BY <1>14
<1> QED BY <1>9, <1>15, <1>16, <1>17 DEF IsPlan, plan

(* Whatever the arguments are, what is to be done is a plan and its end.   *)
LEMMA InitPlan ==
  ASSUME Init
  PROVE  full_sweep \in BOOLEAN /\ \E plan : IsPlan(plan) /\ todo = plan \o Ending(full_sweep)
<1>1. PICK args \in parse_args :
        full_sweep = args.full /\ todo = args.steps \o Ending(args.full)
  BY DEF Init
<1>2. \A ref \in Refs \cup {Default} : ref \in Text
  BY DriverAssumption DEF Text
<1>3. ASSUME NEW r \in ToSet(Runtimes), NEW steps \in OfOne(r)
      PROVE  IsPlan(steps)
  <2>1. CASE steps \in {Single(r, ref) : ref \in Refs \cup {Default}}
    BY <1>2, <2>1, SinglePlan
  <2> DEFINE Of(ref) == {Compare(r, ref, base) : base \in (Refs \cup {Default}) \ {ref}}
  <2>2. ASSUME NEW ref \in Refs, steps \in Of(ref)
        PROVE  IsPlan(steps)
    BY <1>2, <2>2, ComparePlan
  <2>3. CASE steps \in UNION {Of(ref) : ref \in Refs}
    <3> HIDE DEF Of
    <3> QED BY <2>2, <2>3
  <2> QED BY <2>1, <2>3 DEF OfOne
<1>4. \A steps \in OfAll : IsPlan(steps)
  BY <1>2, AllPlan DEF OfAll
<1>5. IsPlan(args.steps) /\ args.full \in BOOLEAN
  BY <1>3, <1>4 DEF parse_args
<1> QED BY <1>1, <1>5

(* parse_args() and main() establish the invariant.                        *)
LEMMA Init_IInv ==
  ASSUME Init
  PROVE  IInv
<1>1. full_sweep \in BOOLEAN /\ \E plan : IsPlan(plan) /\ todo = plan \o Ending(full_sweep)
  BY InitPlan
<1>2. /\ threads = <<>> /\ full_results = <<>> /\ collated = <<>>
      /\ \E e \in {NotBuilt, Before} : exe = [r \in ToSet(Runtimes) |-> [b \in Sources[r] |-> e]]
      /\ \E d \in Datasets : files = [f \in {"dataset"} |-> d]
  BY DEF Init
<1>3. /\ todo \in Seq(Steps) /\ Len(todo) >= Len(Ending(full_sweep))
      /\ Ends(todo, Ending(full_sweep)) /\ Builds(todo, exe) /\ Orders(todo, <<>>)
  BY <1>1, PlanParts
<1>4. Len(Ending(full_sweep)) \in {3, 4}
  BY <1>1, EndingFacts
<1>5. TypeOK
  <2>1. threads \in Seq(Nat) /\ IsResults(full_results)
    <3>1. <<>> \in Seq(Nat) /\ Len(<<>>) = 0 /\ 1 .. 0 = {} /\ DOMAIN <<>> = {}
          /\ <<>> = [k \in 1 .. 0 |-> <<>>[k]]
      OBVIOUS
    <3> QED BY <1>2, <3>1 DEF IsResults
  <2>2. DOMAIN exe = ToSet(Runtimes) /\ \A r \in ToSet(Runtimes) : exe[r] \in [Sources[r] -> Text]
    <3>1. NotBuilt \in Text /\ Before \in Text
      BY DEF Text
    <3> QED BY <1>2, <3>1
  <2>3. files = [f \in DOMAIN files |-> files[f]]
    BY <1>2
  <2> QED BY <1>1, <1>3, <2>1, <2>2, <2>3 DEF TypeOK
<1>6. BuildInv /\ OrderInv /\ OfThisBuild
  <2>1. DOMAIN <<>> = {} /\ ToSet(<<>>) = {}
    BY DEF ToSet
  <2>2. Ordered(threads) /\ Clean(full_results)
    BY <1>2, <2>1 DEF Ordered, Clean
  <2> QED BY <1>2, <1>3, <2>2, Parts
<1>7. EndInv
  <2> DEFINE N == Len(Ending(full_sweep))
  <2>1. Len(todo) \in Nat /\ Len(todo) >= N /\ N \in {3, 4}
    BY <1>3, <1>4
  <2>2. ~ (Len(todo) < N) /\ ~ (Len(todo) < N - 1) /\ ~ (Len(todo) < 2) /\ todo # <<>>
    <3> HIDE DEF N
    <3> QED BY <2>1
  <2>3. "RESULTS.json" \notin DOMAIN files
    BY <1>2
  <2> QED BY <1>3, <2>2, <2>3 DEF EndInv, Ends
<1>8. DatasetInv
  BY <1>2, DatasetsAssumption DEF DatasetInv
<1> QED BY <1>5, <1>6, <1>7, <1>8 DEF IInv

(* Every action preserves it, and so does doing nothing.                   *)
LEMMA Next_IInv ==
  ASSUME IInv, [Next]_vars
  PROVE  IInv'
<1>1. CASE UNCHANGED vars
  <2>1. UNCHANGED <<full_sweep, todo, threads, exe, full_results, collated, files>>
    BY <1>1 DEF vars
  <2>2. TypeOK' /\ OfThisBuild' /\ OrderInv' /\ EndInv' /\ DatasetInv'
    BY <2>1 DEF IInv, TypeOK, OfThisBuild, OrderInv, EndInv, DatasetInv
  <2>3. BuildInv'
    BY <2>1 DEF IInv, BuildInv, IsBuilt
  <2> QED BY <2>2, <2>3 DEF IInv
<1>2. CASE build_runtime
  BY <1>2, build_runtime_IInv
<1>3. CASE get_threads_sweep
  BY <1>3, get_threads_sweep_IInv
<1>4. CASE run_runtime_benchmarks
  BY <1>4, run_runtime_benchmarks_IInv
<1>5. CASE run
  BY <1>5, run_IInv
<1>6. CASE scale
  BY <1>6, scale_IInv
<1>7. CASE collate
  BY <1>7, collate_IInv
<1>8. CASE write_json
  BY <1>8, write_json_IInv
<1>9. CASE write_md
  BY <1>9, write_md_IInv
<1>10. CASE generate_results_md
  BY <1>10, generate_results_md_IInv
<1>11. CASE merge_results
  BY <1>11, merge_results_IInv
<1>12. CASE Stopped
  BY <1>1, <1>12 DEF Stopped
<1> QED BY <1>1, <1>2, <1>3, <1>4, <1>5, <1>6, <1>7, <1>8, <1>9, <1>10, <1>11, <1>12 DEF Next
-----------------------------------------------------------------------------
(* Whatever is built, whichever builds and runs fail, noticed or not, in    *)
(* every invocation: the lists of what is to be done, of what was measured *)
(* and of what was written go together as the inductive invariant says.    *)
THEOREM Invariance == Spec => []IInv
<1>1. Init => IInv
  BY Init_IInv
<1>2. IInv /\ [Next]_vars => IInv'
  BY Next_IInv
<1> QED BY <1>1, <1>2, PTL DEF Spec

(* The variables have their types: in each list of results that a script   *)
(* reads the numbers of threads grow.                                      *)
THEOREM TypeCorrect == Spec => []TypeOK
<1>1. IInv => TypeOK
  BY DEF IInv
<1> QED BY <1>1, Invariance, PTL

(* run_runtime_benchmarks() after build_runtime() with a build directory   *)
(* that is removed first: a result that has the name of a ref is that of   *)
(* an executable built from this ref, however many runtimes, benchmarks    *)
(* and refs there are, and whatever the failed builds leave and return.    *)
THEOREM ResultsOfThisBuild == Spec => []OfThisBuild
<1>1. IInv => OfThisBuild
  BY DEF IInv
<1> QED BY <1>1, Invariance, PTL

(* The scaled durations and speedups of all benchmarks in RESULTS.json,    *)
(* and of those that the first entry has in the file that it is merged     *)
(* into: each relates a run to the best run of its benchmark, and to that  *)
(* with the fewest threads among the runs of its list that were kept.      *)
THEOREM ScaledCorrect == Spec => []ScaledToBest
<1>1. ASSUME IInv PROVE ScaledToBest
  <2>1. ASSUME "RESULTS.json" \in DOMAIN files, NEW b \in ToSet(Benchmarks)
        PROVE  Related(files["RESULTS.json"], b)
    <3>1. Len(todo) < 2 /\ files["RESULTS.json"] = full_results /\ full_sweep \in BOOLEAN
          /\ Len(todo) \in Nat
      BY <1>1, <2>1 DEF IInv, EndInv, TypeOK
    <3>2. Len(Ending(full_sweep)) \in {3, 4}
      BY <3>1, EndingFacts
    <3> DEFINE L == Len(todo)
               N == Len(Ending(full_sweep))
    <3>3. L < N
      <4>1. L \in Nat /\ L < 2 /\ N \in {3, 4}
        BY <3>1, <3>2
      <4> HIDE DEF L, N
      <4> QED BY <4>1
    <3> QED BY <1>1, <2>1, <3>1, <3>3 DEF IInv, EndInv
  <2>2. \A b \in DOMAIN files["dataset"][1].runs : Related(files["dataset"], b)
    BY <1>1 DEF IInv, DatasetInv
  <2> QED BY <2>1, <2>2 DEF ScaledToBest
<1> QED BY <1>1, Invariance, PTL

(* generate_results_md.py gives each name and benchmark the duration and   *)
(* the best one that build_and_bench_all.py gave it in RESULTS.md: the     *)
(* last run of a list is the one with most threads, and a benchmark's best *)
(* among the names of its table is its best.  If the driver wrote one      *)
(* table, the script's has the same columns.  (The memory is not kept.)    *)
THEOREM SummariesCorrect == Spec => SummariesAgree
<1>1. ASSUME IInv, [Next]_vars
      PROVE  [generate_results_md => Agree(files["RESULTS.md"], files'["RESULTS.md"])]_vars
  BY <1>1, Agreement
<1> QED BY <1>1, Invariance, PTL DEF Spec, SummariesAgree

(* cpp/TooManyCooks/threads_sweep.cpp prints numbers that grow: those of   *)
(* the doubling and of the breakpoints that are at most MaxThreads, all of *)
(* them, and no other but for the first.  The two lists that it makes one  *)
(* of by std::set_union are sorted, as this requires.                      *)
THEOREM SweepCorrect ==
  ASSUME NEW kinds, NEW pus, IsMachine(kinds, pus)
  PROVE  LET sweep == threads_sweep(kinds, pus)
             numbers == doubling(core_count(kinds)) \cup ToSet(breakpoints(kinds, pus))
         IN  /\ \A i, j \in DOMAIN sweep : i < j => sweep[i] < sweep[j]
             /\ ToSet(sweep) = {sweep[1]} \cup {n \in numbers : n =< MaxThreads}
             /\ \A list \in {InOrder(doubling(core_count(kinds))), breakpoints(kinds, pus)} :
                  \A i, j \in DOMAIN list : i < j => list[i] < list[j]
<1> DEFINE sweep == threads_sweep(kinds, pus)
           all == merged(kinds, pus)
           numbers == doubling(core_count(kinds)) \cup ToSet(breakpoints(kinds, pus))
<1>k. kinds \in Seq(Nat) /\ kinds # <<>> /\ pus \in Nat
  <2>1. kinds \in Seq(Nat \ {0}) /\ kinds # <<>> /\ pus \in Nat
    BY DEF IsMachine
  <2> QED BY <2>1
<1>1. sweep \in Seq(Nat) /\ sweep # <<>> /\ Ordered(sweep)
  BY <1>k, SweepOrdered
<1>2. Cut(sweep, all) /\ ToSet(all) = numbers
  BY <1>k, SweepCut, MergedSweep DEF SweepSet
<1> HIDE DEF sweep, all, numbers
<1>3. DOMAIN sweep = 1 .. Len(sweep) /\ 1 \in DOMAIN sweep
  BY <1>1
<1>4. ASSUME NEW n \in ToSet(sweep)
      PROVE  n = sweep[1] \/ (n \in numbers /\ n =< MaxThreads)
  <2>1. PICK i \in DOMAIN sweep : n = sweep[i]
    BY DEF ToSet
  <2>2. i \in DOMAIN all /\ n = all[i] /\ (i > 1 => n =< MaxThreads) /\ i \in Nat /\ i >= 1
    <3>1. i \in Nat /\ i >= 1
      BY <1>3, <2>1
    <3>2. i \in DOMAIN all /\ sweep[i] = all[i] /\ (i > 1 => all[i] =< MaxThreads)
      BY <1>2, <2>1 DEF Cut
    <3> QED BY <2>1, <3>1, <3>2
  <2>3. n \in numbers
    BY <1>2, <2>2 DEF ToSet
  <2>4. CASE i = 1
    BY <2>1, <2>4
  <2>5. CASE i # 1
    <3>1. i > 1
      BY <2>2, <2>5
    <3> QED BY <2>2, <2>3, <3>1
  <2> QED BY <2>4, <2>5
<1>5. ASSUME NEW n \in numbers, n =< MaxThreads PROVE n \in ToSet(sweep)
  <2>1. PICK i \in DOMAIN all : n = all[i]
    BY <1>2 DEF ToSet
  <2>2. i \in DOMAIN sweep /\ n = sweep[i]
    BY <1>2, <1>5, <2>1 DEF Cut
  <2> QED BY <2>2 DEF ToSet
<1>6. sweep[1] \in ToSet(sweep)
  BY <1>3 DEF ToSet
<1>7. ToSet(sweep) = {sweep[1]} \cup {n \in numbers : n =< MaxThreads}
  BY <1>4, <1>5, <1>6
<1>8. Ordered(InOrder(doubling(core_count(kinds))))
  <2>1. core_count(kinds) \in Int
    BY <1>k, CoreCount
  <2>2. doubling(core_count(kinds)) \subseteq Nat /\ IsFiniteSet(doubling(core_count(kinds)))
    BY <2>1, DoublingFacts
  <2> QED BY <2>2, InOrderFacts
<1>9. Ordered(breakpoints(kinds, pus))
  BY Breakpoints
<1> QED BY <1>1, <1>7, <1>8, <1>9 DEF Ordered, sweep, numbers
=============================================================================
