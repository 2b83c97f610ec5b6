---------------------------- MODULE MatmulProofs ----------------------------
(***************************************************************************)
(* Every matmul.cpp program is correct for every size of the matrices, of  *)
(* the base case, and every depth of recursion.  The proofs first show     *)
(* what a call passes to its eight children and what the eleven bodies     *)
(* have in common, then that each action keeps the tree of calls, the      *)
(* loops and the sums in order.                                            *)
(***************************************************************************)
EXTENDS Matmul, FiniteSetTheorems, TLAPS

-----------------------------------------------------------------------------
(* Sizes, and the cubes that calls stand for.                              *)
LEMMA SizeFacts ==
  /\ N \in Nat /\ N > 0 /\ BaseCase \in Nat /\ BaseCase > 0
  /\ \A n \in Sizes : n \in Nat /\ n > 0
  /\ \A n \in Sizes : n > BaseCase =>
       n \div 2 \in Sizes /\ n \div 2 \in Nat /\ n \div 2 > 0 /\ n = 2 * (n \div 2)
BY SizesAssumption

LEMMA TaskFacts ==
  ASSUME NEW t \in Task
  PROVE  /\ t.n \in Sizes /\ t.n \in Nat /\ t.n > 0
         /\ t.a \in Cells /\ t.b \in Cells /\ t.c \in Cells
         /\ t.a[1] \in Nat /\ t.a[2] \in Nat /\ t.b[1] \in Nat /\ t.b[2] \in Nat
         /\ t.c[1] \in Nat /\ t.c[2] \in Nat
         /\ t.a = <<t.a[1], t.a[2]>> /\ t.b = <<t.b[1], t.b[2]>>
         /\ t.c = <<t.c[1], t.c[2]>>
         /\ t = [a |-> t.a, b |-> t.b, c |-> t.c, n |-> t.n]
<1>1. t.n \in Sizes /\ t.a \in Cells /\ t.b \in Cells /\ t.c \in Cells
  BY DEF Task
<1>2. t.n \in Nat /\ t.n > 0
  BY <1>1, SizeFacts
<1>3. t = [a |-> t.a, b |-> t.b, c |-> t.c, n |-> t.n]
  BY DEF Task
<1> QED BY <1>1, <1>2, <1>3, SizeFacts DEF Cells

LEMMA RootFacts == Root \in Task /\ Aligned(Root)
<1>1. Root \in Task
  BY SizeFacts, SizesAssumption DEF Root, Task, Cells
<1> QED BY <1>1, SizeFacts DEF Aligned, Within, Root

(* The octants: call q goes to the low or the high half of the rows, the   *)
(* inner indices and the columns.                                          *)
HighRows    == {3, 4, 7, 8}
HighInner   == {5, 6, 7, 8}
HighColumns == {2, 4, 6, 8}
Bit(q, high) == IF q \in high THEN 1 ELSE 0

LEMMA SiteFacts ==
  ASSUME NEW q \in 1 .. 8
  PROVE  Site(q) = [a |-> <<Bit(q, HighRows), Bit(q, HighInner)>>,
                    b |-> <<Bit(q, HighInner), Bit(q, HighColumns)>>,
                    c |-> <<Bit(q, HighRows), Bit(q, HighColumns)>>]
<1> USE DEF Here, Right, Down, Diagonal, Args, Bit, HighRows, HighInner, HighColumns
<1>1. CASE q = 1 BY <1>1 DEF Site, FirstSection
<1>2. CASE q = 2 BY <1>2 DEF Site, FirstSection
<1>3. CASE q = 3 BY <1>3 DEF Site, FirstSection
<1>4. CASE q = 4 BY <1>4 DEF Site, FirstSection
<1>5. CASE q = 5 BY <1>5 DEF Site, SecondSection
<1>6. CASE q = 6 BY <1>6 DEF Site, SecondSection
<1>7. CASE q = 7 BY <1>7 DEF Site, SecondSection
<1>8. CASE q = 8 BY <1>8 DEF Site, SecondSection
<1>9. q = 1 \/ q = 2 \/ q = 3 \/ q = 4 \/ q = 5 \/ q = 6 \/ q = 7 \/ q = 8
  OBVIOUS
<1> HIDE DEF Here, Right, Down, Diagonal, Args, Bit, HighRows, HighInner, HighColumns
<1> QED BY <1>1, <1>2, <1>3, <1>4, <1>5, <1>6, <1>7, <1>8, <1>9

Low(q, k, high) == IF q \in high THEN k ELSE 0

LEMMA ChildPlace ==
  ASSUME NEW t \in Task, ~ Leaf(t), NEW q \in 1 .. 8
  PROVE  LET k == t.n \div 2 IN
         /\ k \in Sizes /\ k \in Nat /\ k > 0 /\ t.n = 2 * k
         /\ Child(t, q).n = k
         /\ Child(t, q).c[1] = t.c[1] + Low(q, k, HighRows)
         /\ Child(t, q).c[2] = t.c[2] + Low(q, k, HighColumns)
         /\ Child(t, q).a[1] = t.a[1] + Low(q, k, HighRows)
         /\ Child(t, q).a[2] = t.a[2] + Low(q, k, HighInner)
         /\ Child(t, q).b[1] = t.b[1] + Low(q, k, HighInner)
         /\ Child(t, q).b[2] = t.b[2] + Low(q, k, HighColumns)
<1> DEFINE k == t.n \div 2
<1>1. k \in Sizes /\ k \in Nat /\ k > 0 /\ t.n = 2 * k
  BY TaskFacts, SizeFacts DEF Leaf
<1>2. Child(t, q) = [a |-> Plus(t.a, Site(q).a, k), b |-> Plus(t.b, Site(q).b, k),
                     c |-> Plus(t.c, Site(q).c, k), n |-> k]
  BY DEF Child
<1> HIDE DEF k
<1>3. \A high : Bit(q, high) * k = Low(q, k, high)
  BY <1>1 DEF Bit, Low
<1>4. ASSUME NEW p, NEW h1, NEW h2
      PROVE  LET e == Plus(p, <<Bit(q, h1), Bit(q, h2)>>, k)
             IN  e[1] = p[1] + Low(q, k, h1) /\ e[2] = p[2] + Low(q, k, h2)
  BY <1>3 DEF Plus
<1>5. /\ Site(q).a = <<Bit(q, HighRows), Bit(q, HighInner)>>
      /\ Site(q).b = <<Bit(q, HighInner), Bit(q, HighColumns)>>
      /\ Site(q).c = <<Bit(q, HighRows), Bit(q, HighColumns)>>
  BY SiteFacts
<1>6. /\ Child(t, q).n = k
      /\ Child(t, q).a = Plus(t.a, <<Bit(q, HighRows), Bit(q, HighInner)>>, k)
      /\ Child(t, q).b = Plus(t.b, <<Bit(q, HighInner), Bit(q, HighColumns)>>, k)
      /\ Child(t, q).c = Plus(t.c, <<Bit(q, HighRows), Bit(q, HighColumns)>>, k)
  BY <1>2, <1>5
<1> HIDE DEF HighRows, HighInner, HighColumns
<1> QED BY <1>1, <1>4, <1>6 DEF k

(* A child stays inside its parent and is a call the program can make.     *)
LEMMA ChildFacts ==
  ASSUME NEW t \in Task, ~ Leaf(t), Aligned(t), NEW q \in 1 .. 8
  PROVE  /\ Child(t, q) \in Task
         /\ Aligned(Child(t, q))
         /\ Within(Child(t, q), t)
         /\ Child(t, q).n < t.n
<1> DEFINE u == Child(t, q)
           k == t.n \div 2
<1>1. /\ k \in Sizes /\ k \in Nat /\ k > 0 /\ t.n = 2 * k
      /\ u.n = k
      /\ u.c[1] = t.c[1] + Low(q, k, HighRows)
      /\ u.c[2] = t.c[2] + Low(q, k, HighColumns)
      /\ u.a[1] = t.a[1] + Low(q, k, HighRows)
      /\ u.a[2] = t.a[2] + Low(q, k, HighInner)
      /\ u.b[1] = t.b[1] + Low(q, k, HighInner)
      /\ u.b[2] = t.b[2] + Low(q, k, HighColumns)
  BY ChildPlace
<1>2. \A S : Low(q, k, S) \in {0, k}
  BY DEF Low
<1>3. u = [a |-> <<u.a[1], u.a[2]>>, b |-> <<u.b[1], u.b[2]>>,
           c |-> <<u.c[1], u.c[2]>>, n |-> u.n]
  BY DEF Child, Plus
<1> HIDE DEF u, k
<1>4. Within(u, t) /\ u.n < t.n
  BY <1>1, <1>2, TaskFacts DEF Within
<1>5. u.a[1] = u.c[1] /\ u.b[1] = u.a[2] /\ u.b[2] = u.c[2]
  BY <1>1 DEF Aligned
<1>6. Within(u, Root)
  BY <1>1, <1>2, TaskFacts, SizeFacts DEF Aligned, Within, Root
<1>7. <<u.a[1], u.a[2]>> \in Cells /\ <<u.b[1], u.b[2]>> \in Cells
        /\ <<u.c[1], u.c[2]>> \in Cells
  BY <1>1, <1>2, <1>5, <1>6, TaskFacts, SizeFacts DEF Within, Root, Cells
<1>8. u \in Task
  BY <1>1, <1>3, <1>7 DEF Task
<1> QED BY <1>4, <1>5, <1>6, <1>8 DEF Aligned, u

(* Two children do not share work; those of one section do not even share  *)
(* elements of c.                                                          *)
LEMMA ChildrenSeparate ==
  ASSUME NEW t \in Task, ~ Leaf(t), NEW p \in 1 .. 8, NEW q \in 1 .. 8, p # q
  PROVE  /\ Separate(Child(t, p), Child(t, q))
         /\ (p =< 4 <=> q =< 4) => Apart(Child(t, p), Child(t, q))
<1> DEFINE k == t.n \div 2
           u == Child(t, p)
           v == Child(t, q)
<1>1. /\ k \in Nat /\ k > 0
      /\ u.n = k
      /\ u.c[1] = t.c[1] + Low(p, k, HighRows)
      /\ u.c[2] = t.c[2] + Low(p, k, HighColumns)
      /\ u.a[2] = t.a[2] + Low(p, k, HighInner)
  BY ChildPlace
<1>2. /\ v.n = k
      /\ v.c[1] = t.c[1] + Low(q, k, HighRows)
      /\ v.c[2] = t.c[2] + Low(q, k, HighColumns)
      /\ v.a[2] = t.a[2] + Low(q, k, HighInner)
  BY ChildPlace
<1> HIDE DEF k, u, v
<1>3. \/ p \in HighRows /\ q \notin HighRows
      \/ q \in HighRows /\ p \notin HighRows
      \/ p \in HighColumns /\ q \notin HighColumns
      \/ q \in HighColumns /\ p \notin HighColumns
      \/ p \in HighInner /\ q \notin HighInner /\ ~ (p =< 4 <=> q =< 4)
      \/ q \in HighInner /\ p \notin HighInner /\ ~ (p =< 4 <=> q =< 4)
  BY DEF HighRows, HighInner, HighColumns
<1>4. Separate(u, v) /\ ((p =< 4 <=> q =< 4) => Apart(u, v))
  BY <1>1, <1>2, <1>3, TaskFacts DEF Separate, Apart, Low
<1> QED BY <1>4 DEF u, v

(* The children of a call share out its work.                              *)
LEMMA ChildrenCover ==
  ASSUME NEW t \in Task, ~ Leaf(t), Aligned(t),
         NEW r \in Rows(t), NEW x \in Inner(t), NEW s \in Columns(t)
  PROVE  \E q \in 1 .. 8 :
           r \in Rows(Child(t, q)) /\ x \in Inner(Child(t, q)) /\ s \in Columns(Child(t, q))
<1> DEFINE k == t.n \div 2
<1>1. k \in Nat /\ k > 0 /\ t.n = 2 * k
  BY ChildPlace
<1>2. \A q \in 1 .. 8 :
        /\ Child(t, q).n = k
        /\ Child(t, q).c[1] = t.c[1] + Low(q, k, HighRows)
        /\ Child(t, q).c[2] = t.c[2] + Low(q, k, HighColumns)
        /\ Child(t, q).a[2] = t.a[2] + Low(q, k, HighInner)
  BY ChildPlace
<1> HIDE DEF k
<1>3. \E q \in 1 .. 8 :
        /\ q \in HighRows    <=> r >= t.c[1] + k
        /\ q \in HighInner   <=> x >= t.a[2] + k
        /\ q \in HighColumns <=> s >= t.c[2] + k
  <2> DEFINE q == 1 + (IF r >= t.c[1] + k THEN 2 ELSE 0)
                    + (IF x >= t.a[2] + k THEN 4 ELSE 0)
                    + (IF s >= t.c[2] + k THEN 1 ELSE 0)
  <2>1. q \in 1 .. 8
    OBVIOUS
  <2>2. /\ q \in HighRows    <=> r >= t.c[1] + k
        /\ q \in HighInner   <=> x >= t.a[2] + k
        /\ q \in HighColumns <=> s >= t.c[2] + k
    BY DEF HighRows, HighInner, HighColumns
  <2> QED BY <2>1, <2>2
<1>4. PICK q \in 1 .. 8 :
        /\ q \in HighRows    <=> r >= t.c[1] + k
        /\ q \in HighInner   <=> x >= t.a[2] + k
        /\ q \in HighColumns <=> s >= t.c[2] + k
  BY <1>3
<1>5. /\ t.c[1] =< r /\ r < t.c[1] + 2 * k /\ r \in Int
      /\ t.a[2] =< x /\ x < t.a[2] + 2 * k /\ x \in Int
      /\ t.c[2] =< s /\ s < t.c[2] + 2 * k /\ s \in Int
  BY <1>1, TaskFacts DEF Rows, Inner, Columns
<1>6. r \in Rows(Child(t, q))
  BY <1>1, <1>2, <1>4, <1>5, TaskFacts DEF Rows, Low
<1>7. x \in Inner(Child(t, q))
  BY <1>1, <1>2, <1>4, <1>5, TaskFacts DEF Inner, Low
<1>8. s \in Columns(Child(t, q))
  BY <1>1, <1>2, <1>4, <1>5, TaskFacts DEF Columns, Low
<1> QED BY <1>6, <1>7, <1>8

(* The order of the cubes.                                                 *)
LEMMA WithinTransitive ==
  ASSUME NEW t \in Task, NEW u \in Task, NEW v \in Task, Within(v, u), Within(u, t)
  PROVE  Within(v, t)
BY TaskFacts DEF Within

LEMMA WithinReflexive ==
  ASSUME NEW t \in Task
  PROVE  Within(t, t)
BY TaskFacts DEF Within

LEMMA WithinAntisymmetric ==
  ASSUME NEW t \in Task, NEW u \in Task, Aligned(t), Aligned(u),
         Within(t, u), Within(u, t)
  PROVE  t = u
<1>1. /\ t.n = u.n /\ t.c[1] = u.c[1] /\ t.c[2] = u.c[2] /\ t.a[2] = u.a[2]
  BY TaskFacts DEF Within
<1>2. /\ t.a[1] = u.a[1] /\ t.b[1] = u.b[1] /\ t.b[2] = u.b[2]
  BY <1>1 DEF Aligned
<1>3. t.a = u.a /\ t.b = u.b /\ t.c = u.c
  BY <1>1, <1>2, TaskFacts
<1> QED BY <1>1, <1>3, TaskFacts

LEMMA WithinApart ==
  ASSUME NEW t \in Task, NEW u \in Task, NEW v \in Task, Within(v, t)
  PROVE  /\ Apart(t, u) => Apart(v, u)
         /\ Apart(u, t) => Apart(u, v)
         /\ Separate(t, u) => Separate(v, u)
         /\ Separate(u, t) => Separate(u, v)
BY TaskFacts DEF Within, Apart, Separate

LEMMA NotBoth ==
  ASSUME NEW t \in Task, NEW u \in Task, NEW v \in Task,
         Within(v, t), Within(v, u), Separate(t, u)
  PROVE  FALSE
BY TaskFacts DEF Within, Apart, Separate

(* Inside, of the properties, and Within are the same.                     *)
LEMMA InsideWithin ==
  ASSUME NEW t \in Task, NEW u \in Task
  PROVE  Inside(u, t) <=> Within(u, t)
<1>1. /\ t.n > 0 /\ u.n > 0 /\ t.n \in Nat /\ u.n \in Nat
      /\ t.c[1] \in Nat /\ t.c[2] \in Nat /\ t.a[2] \in Nat
      /\ u.c[1] \in Nat /\ u.c[2] \in Nat /\ u.a[2] \in Nat
  BY TaskFacts
<1>2. \A x, y \in Nat : x .. x + u.n - 1 \subseteq y .. y + t.n - 1
                          <=> y =< x /\ x + u.n =< y + t.n
  <2> SUFFICES ASSUME NEW x \in Nat, NEW y \in Nat
               PROVE  x .. x + u.n - 1 \subseteq y .. y + t.n - 1
                        <=> y =< x /\ x + u.n =< y + t.n
    OBVIOUS
  <2>1. x \in x .. x + u.n - 1 /\ x + u.n - 1 \in x .. x + u.n - 1
    BY <1>1
  <2> QED BY <1>1, <2>1
<1> QED BY <1>1, <1>2 DEF Inside, Within, Rows, Columns, Inner

-----------------------------------------------------------------------------
(***************************************************************************)
(* What the bodies of the eleven programs have in common.  No call is made *)
(* twice; the calls made and not waited for are of one section; the last   *)
(* statement is an await, after which every call has been waited for.      *)
(***************************************************************************)
Sound(B) ==
  /\ Len(B) \in Nat /\ Len(B) > 0
  /\ \A p \in 1 .. Len(B) :
       /\ B[p].op \in {"fork", "await"}
       /\ B[p].sites \subseteq 1 .. 8
       /\ B[p].op = "fork" =>
            /\ p < Len(B)
            /\ \A q \in B[p].sites :
                 /\ q \notin Before(B, p, "fork")
                 /\ \A y \in B[p].sites \cup (Before(B, p, "fork") \ Before(B, p, "await")) :
                      y =< 4 <=> q =< 4
  /\ \A q \in 1 .. 8 : q \in Before(B, Len(B) + 1, "await")

LEMMA TupleSound == Sound(Tuple)
<1> DEFINE B == Tuple
<1>1. /\ Len(B) = 4
      /\ B[1].op = "fork"  /\ B[1].sites = 1 .. 4
      /\ B[2].op = "await" /\ B[2].sites = 1 .. 4
      /\ B[3].op = "fork"  /\ B[3].sites = 5 .. 8
      /\ B[4].op = "await" /\ B[4].sites = 5 .. 8
  BY DEF Tuple, Fork, Await
<1> HIDE DEF B
<1>2. Sound(B)
  BY <1>1 DEF Sound, Before
<1> QED BY <1>2 DEF B

LEMMA ConcurrencppSound == Sound(concurrencpp)
<1> DEFINE B == concurrencpp
<1>1. /\ Len(B) = 10
      /\ \A p \in 1 .. 4 : B[p].op = "fork" /\ B[p].sites = {p}
      /\ B[5].op = "await" /\ B[5].sites = 1 .. 4
      /\ \A p \in 6 .. 9 : B[p].op = "fork" /\ B[p].sites = {p - 1}
      /\ B[10].op = "await" /\ B[10].sites = 5 .. 8
  BY DEF concurrencpp, Fork, Await
<1> HIDE DEF B
<1>2. Sound(B)
  BY <1>1 DEF Sound, Before
<1> QED BY <1>2 DEF B

LEMMA GroupSound == Sound(Group)
<1> DEFINE B == Group
<1>1. /\ Len(B) = 12
      /\ \A p \in 1 .. 4 : B[p].op = "fork" /\ B[p].sites = {p}
      /\ B[5].op = "await" /\ B[5].sites = {4}
      /\ B[6].op = "await" /\ B[6].sites = {1, 2, 3}
      /\ \A p \in 7 .. 10 : B[p].op = "fork" /\ B[p].sites = {p - 2}
      /\ B[11].op = "await" /\ B[11].sites = {8}
      /\ B[12].op = "await" /\ B[12].sites = {5, 6, 7}
  BY DEF Group, Fork, Await
<1> HIDE DEF B
<1>2. Sound(B)
  BY <1>1 DEF Sound, Before
<1> QED BY <1>2 DEF B

LEMMA ProgramsSound ==
  ASSUME NEW r \in Runtimes
  PROVE  Sound(Body[r])
<1>1. Body[r] \in {Tuple, concurrencpp, Group}
  BY RuntimesAssumption
  DEF Body, TooManyCooks, citor, coros, cppcoro, folly, libcoro, HPX, libfork,
      taskflow, tbb
<1> QED BY <1>1, TupleSound, ConcurrencppSound, GroupSound

LEMMA BeforeNext ==
  ASSUME NEW B, NEW p \in Nat, p > 0, NEW op
  PROVE  Before(B, p + 1, op)
           = Before(B, p, op) \cup (IF B[p].op = op THEN B[p].sites \cap 1 .. 8 ELSE {})
BY DEF Before

LEMMA BeforeNone == \A B, op : Before(B, 1, op) = {}
BY DEF Before

-----------------------------------------------------------------------------
LEMMA BodySound ==
  ASSUME TypeOK
  PROVE  Sound(Body[runtime]) /\ Len(Body[runtime]) \in Nat /\ Len(Body[runtime]) > 0
BY ProgramsSound DEF TypeOK, Sound

LEMMA InitInv == Init => IInv
<1> SUFFICES ASSUME Init PROVE IInv
  OBVIOUS
<1> USE DEF Init
<1>1. TypeOK
  BY RootFacts, SizeFacts DEF TypeOK, Loop, LoopStart, Turn
<1>2. /\ calls = {Root} /\ pc[Root] = 1 /\ loop[Root] = LoopStart
      /\ Root \in Task /\ Aligned(Root) /\ Root.n > 0 /\ Root.n \in Nat
      /\ Len(Body[runtime]) \in Nat /\ Len(Body[runtime]) > 0
  BY <1>1, RootFacts, TaskFacts, BodySound
<1>3. Made(Root) = {} /\ Waited(Root) = {}
  BY <1>2, BeforeNone DEF Made, Waited
<1>4. ~ Returned(Root)
  BY <1>2 DEF Returned, LoopStart, Turn
<1>5. ProgramInv
  BY <1>2, <1>3 DEF ProgramInv
<1>6. TreeInv
  BY <1>2, <1>4, WithinReflexive DEF TreeInv
<1>7. LoopInv
  BY <1>2, <1>4 DEF LoopInv, LoopStart, Turn, InLoop
<1>8. SumInv
  <2>1. NothingLost
    BY FS_EmptySet DEF NothingLost
  <2>2. \A r, x, s \in 0 .. N-1 : ~ \E t \in calls : Added(t, r, x, s)
    BY SMTT(30), <1>2, TaskFacts DEF Added, LoopStart, Turn, Rows, Columns, Inner
  <2>3. \A r, x, s \in 0 .. N-1 : Promise!Product(r, x, s) \notin summed[<<r, s>>]
    BY DEF Cells
  <2> QED BY <1>2, <1>4, <2>1, <2>2, <2>3 DEF SumInv
<1>9. VerdictInv
  BY DEF VerdictInv
<1> QED BY <1>1, <1>5, <1>6, <1>7, <1>8, <1>9 DEF IInv

-----------------------------------------------------------------------------
(***************************************************************************)
(* ForkCalls.                                                              *)
(***************************************************************************)
LEMMA ForkFacts ==
  ASSUME TypeOK, ProgramInv, TreeInv, NEW t \in calls, ForkCalls(t)
  PROVE  LET B     == Body[runtime]
             sites == Statement(t).sites
             new   == {Child(t, q) : q \in sites}
         IN
         /\ t \in Task /\ ~ Leaf(t) /\ Aligned(t) /\ ~ Returned(t) /\ ~ Returned(t)'
         /\ sites \subseteq 1 .. 8
         /\ \A q \in sites :
              /\ Child(t, q) \in Task /\ Child(t, q) \notin calls
              /\ Aligned(Child(t, q)) /\ Within(Child(t, q), t)
              /\ q \notin Made(t)
              /\ \A y \in sites \cup (Made(t) \ Waited(t)) : y =< 4 <=> q =< 4
         /\ calls' = calls \cup new
         /\ \A u \in calls : /\ loop'[u] = loop[u]
                             /\ Returned(u)' <=> Returned(u)
                             /\ Waited(u)' = Waited(u)
                             /\ u # t => pc'[u] = pc[u] /\ Made(u)' = Made(u)
         /\ pc'[t] = pc[t] + 1 /\ pc'[t] \in 1 .. Len(B) /\ Made(t)' = Made(t) \cup sites
         /\ \A u \in new : /\ pc'[u] = 1 /\ loop'[u] = LoopStart /\ ~ Returned(u)'
                           /\ Made(u)' = {} /\ Waited(u)' = {}
         /\ pc' \in [calls' -> Nat] /\ loop' \in [calls' -> Loop]
<1> DEFINE B     == Body[runtime]
           sites == Statement(t).sites
           new   == {Child(t, q) : q \in sites}
           p     == pc[t]
<1>1. /\ t \in Task /\ ~ Leaf(t) /\ Aligned(t) /\ ~ Returned(t)
      /\ p \in Nat /\ p > 0 /\ p =< Len(B) /\ Len(B) \in Nat
  BY BodySound DEF TypeOK, ProgramInv, Returned, ForkCalls, Recursive
<1>2. /\ Statement(t) = B[p] /\ B[p].op = "fork" /\ sites = B[p].sites
      /\ sites \subseteq 1 .. 8 /\ p < Len(B)
      /\ \A q \in sites :
           /\ q \notin Made(t)
           /\ \A y \in sites \cup (Made(t) \ Waited(t)) : y =< 4 <=> q =< 4
  BY <1>1, BodySound DEF Sound, Statement, Made, Waited, ForkCalls
<1>3. ASSUME NEW q \in sites
      PROVE  /\ Child(t, q) \in Task /\ Aligned(Child(t, q)) /\ Within(Child(t, q), t)
             /\ Child(t, q).n < t.n /\ Child(t, q) \notin calls
  <2>1. /\ Child(t, q) \in Task /\ Aligned(Child(t, q)) /\ Within(Child(t, q), t)
        /\ Child(t, q).n < t.n
    BY <1>1, <1>2, ChildFacts
  <2>2. SUFFICES ASSUME Child(t, q) \in calls PROVE FALSE
    BY <2>1
  <2>3. Child(t, q) # t
    BY <2>1, TaskFacts
  <2>4. PICK y \in Made(t) : Within(Child(t, q), Child(t, y))
    BY <2>1, <2>2, <2>3 DEF TreeInv
  <2>5. y \in 1 .. 8 /\ y # q
    BY <1>2 DEF Made, Before
  <2>6. Child(t, y) \in Task /\ Separate(Child(t, q), Child(t, y))
    BY <1>1, <1>2, <2>5, ChildFacts, ChildrenSeparate
  <2>7. Within(Child(t, q), Child(t, q))
    BY <2>1, WithinReflexive
  <2> QED BY <2>1, <2>4, <2>6, <2>7, NotBoth
<1>4. calls' = calls \cup new /\ runtime' = runtime
  BY DEF ForkCalls
<1>5. /\ \A u \in calls : loop'[u] = loop[u] /\ (u # t => pc'[u] = pc[u])
      /\ pc'[t] = p + 1
      /\ \A u \in new : pc'[u] = 1 /\ loop'[u] = LoopStart
      /\ pc' \in [calls' -> Nat] /\ loop' \in [calls' -> Loop]
  <2>1. pc' = [u \in calls' |-> IF u \in calls THEN [pc EXCEPT ![t] = @ + 1][u] ELSE 1]
    BY DEF TypeOK, Extend, ForkCalls
  <2>2. loop' = [u \in calls' |-> IF u \in calls THEN loop[u] ELSE LoopStart]
    BY DEF TypeOK, Extend, ForkCalls
  <2>3. LoopStart \in Loop
    BY DEF LoopStart, Turn, Loop
  <2>4. \A u \in new : u \notin calls /\ u \in calls'
    BY <1>3, <1>4
  <2> HIDE DEF new
  <2>5. \A u \in calls : u \in calls' /\ pc[u] \in Nat /\ loop[u] \in Loop
    BY <1>4 DEF TypeOK
  <2>6. /\ \A u \in calls : pc'[u] = [pc EXCEPT ![t] = @ + 1][u] /\ loop'[u] = loop[u]
        /\ \A u \in new : pc'[u] = 1 /\ loop'[u] = LoopStart
    BY <2>1, <2>2, <2>4, <2>5
  <2>7. /\ \A u \in calls : u # t => pc'[u] = pc[u]
        /\ pc'[t] = p + 1
    BY <2>6 DEF TypeOK
  <2>8. \A u \in calls' : u \in calls \/ u \in new
    BY <1>4
  <2>9. \A u \in calls' : pc'[u] \in Nat
    <3>1. \A u \in calls : pc'[u] \in Nat
      BY <1>1, <2>5, <2>7
    <3> QED BY <2>6, <2>8, <3>1
  <2>10. \A u \in calls' : loop'[u] \in Loop
    BY <2>3, <2>5, <2>6, <2>8
  <2>11. pc' \in [calls' -> Nat]
    BY <2>1, <2>9
  <2>12. loop' \in [calls' -> Loop]
    BY <2>2, <2>10
  <2> QED BY <2>6, <2>7, <2>11, <2>12
<1>6. /\ \A u \in calls : Waited(u)' = Waited(u) /\ (u # t => Made(u)' = Made(u))
      /\ Made(t)' = Made(t) \cup sites
      /\ \A u \in new : Made(u)' = {} /\ Waited(u)' = {}
  <2> HIDE DEF new, B, p, sites
  <2>1. Before(B, p + 1, "fork") = Before(B, p, "fork") \cup (sites \cap 1 .. 8)
    <3>1. Before(B, p + 1, "fork")
            = Before(B, p, "fork") \cup (IF B[p].op = "fork" THEN B[p].sites \cap 1 .. 8 ELSE {})
      BY <1>1, BeforeNext
    <3> QED BY <1>2, <3>1
  <2>2. Before(B, p + 1, "await") = Before(B, p, "await")
    <3>1. Before(B, p + 1, "await")
            = Before(B, p, "await") \cup (IF B[p].op = "await" THEN B[p].sites \cap 1 .. 8 ELSE {})
      BY <1>1, BeforeNext
    <3> QED BY <1>2, <3>1
  <2>3. sites \cap 1 .. 8 = sites
    BY <1>2
  <2>4. \A u : /\ Made(u)' = Before(B, pc'[u], "fork") /\ Made(u) = Before(B, pc[u], "fork")
               /\ Waited(u)' = Before(B, pc'[u], "await")
               /\ Waited(u) = Before(B, pc[u], "await")
    BY <1>4 DEF Made, Waited, B
  <2>5. pc[t] = p
    BY DEF p
  <2> QED BY <1>5, <2>1, <2>2, <2>3, <2>4, <2>5, BeforeNone
<1>7. \A u \in calls : Returned(u)' <=> Returned(u)
  <2>1. ~ Returned(t)'
    <3>1. pc'[t] = p + 1 /\ Body[runtime'] = B /\ p + 1 =< Len(B)
      BY <1>1, <1>2, <1>4, <1>5
    <3>2. ~ pc'[t] > Len(Body[runtime'])
      BY <1>1, <3>1
    <3> QED BY <1>1, <3>2 DEF Returned, Leaf
  <2>2. ASSUME NEW u \in calls, u # t PROVE Returned(u)' <=> Returned(u)
    BY <1>4, <1>5, <2>2 DEF Returned, Leaf
  <2> QED BY <1>1, <2>1, <2>2
<1>8. \A u \in new : ~ Returned(u)'
  <2>1. \A u \in new : u.n \in Nat /\ u.n > 0
    BY <1>3, TaskFacts
  <2> HIDE DEF new
  <2> SUFFICES ASSUME NEW u \in new PROVE ~ Returned(u)'
    OBVIOUS
  <2>2. pc'[u] = 1 /\ loop'[u].i = 0
    <3>1. pc'[u] = 1 /\ loop'[u] = LoopStart
      BY <1>5
    <3> QED BY <3>1 DEF LoopStart, Turn
  <2>3. ~ pc'[u] > Len(Body[runtime'])
    BY <1>4, <2>2, BodySound
  <2>4. loop'[u].i # u.n
    BY <2>1, <2>2
  <2> QED BY <2>3, <2>4 DEF Returned, Leaf
<1>9. ~ Returned(t)' /\ pc'[t] = pc[t] + 1 /\ pc'[t] \in 1 .. Len(B)
  <2>1. p \in Nat /\ p + 1 =< Len(B) /\ Len(B) \in Nat
    BY <1>1, <1>2
  <2> QED BY <1>1, <1>5, <1>7, <2>1
<1> HIDE DEF sites, new, B, p
<1>10. \A u \in calls : /\ loop'[u] = loop[u] /\ (Returned(u)' <=> Returned(u))
                        /\ Waited(u)' = Waited(u)
                        /\ u # t => pc'[u] = pc[u] /\ Made(u)' = Made(u)
  BY <1>5, <1>6, <1>7
<1>11. \A u \in new : /\ pc'[u] = 1 /\ loop'[u] = LoopStart /\ ~ Returned(u)'
                      /\ Made(u)' = {} /\ Waited(u)' = {}
  BY <1>5, <1>6, <1>8
<1>12. \A q \in sites :
         /\ Child(t, q) \in Task /\ Child(t, q) \notin calls
         /\ Aligned(Child(t, q)) /\ Within(Child(t, q), t)
         /\ q \notin Made(t)
         /\ \A y \in sites \cup (Made(t) \ Waited(t)) : y =< 4 <=> q =< 4
  BY <1>2, <1>3
<1>13. Made(t)' = Made(t) \cup sites /\ pc' \in [calls' -> Nat] /\ loop' \in [calls' -> Loop]
  BY <1>5, <1>6
<1>14. sites \subseteq 1 .. 8 /\ t \in Task /\ ~ Leaf(t) /\ Aligned(t) /\ ~ Returned(t)
         /\ calls' = calls \cup new
  BY <1>1, <1>2, <1>4
<1> QED BY <1>9, <1>10, <1>11, <1>12, <1>13, <1>14, Zenon DEF sites, new, B

LEMMA ForkInv == IInv /\ (\E t \in calls : ForkCalls(t)) => IInv'
<1> SUFFICES ASSUME IInv, NEW t \in calls, ForkCalls(t) PROVE IInv'
  OBVIOUS
<1> USE DEF IInv
<1> DEFINE sites == Statement(t).sites
           new   == {Child(t, q) : q \in sites}
<1>1. /\ t \in Task /\ ~ Leaf(t) /\ Aligned(t) /\ ~ Returned(t) /\ ~ Returned(t)'
      /\ sites \subseteq 1 .. 8
      /\ pc'[t] = pc[t] + 1 /\ pc'[t] \in 1 .. Len(Body[runtime])
      /\ Made(t)' = Made(t) \cup sites
      /\ pc' \in [calls' -> Nat] /\ loop' \in [calls' -> Loop]
  BY ForkFacts
<1>2. \A q \in sites :
        /\ Child(t, q) \in Task /\ Child(t, q) \notin calls
        /\ Aligned(Child(t, q)) /\ Within(Child(t, q), t)
        /\ q \notin Made(t)
        /\ \A y \in sites \cup (Made(t) \ Waited(t)) : y =< 4 <=> q =< 4
  BY ForkFacts
<1>3. \A u \in calls : /\ loop'[u] = loop[u] /\ (Returned(u)' <=> Returned(u))
                       /\ Waited(u)' = Waited(u)
                       /\ u # t => pc'[u] = pc[u] /\ Made(u)' = Made(u)
  BY ForkFacts
<1>4. \A u \in new : /\ pc'[u] = 1 /\ loop'[u] = LoopStart /\ ~ Returned(u)'
                     /\ Made(u)' = {} /\ Waited(u)' = {}
  BY ForkFacts
<1>5. /\ calls' = calls \cup new /\ runtime' = runtime /\ c' = c /\ summed' = summed
      /\ verdict' = verdict
  BY DEF ForkCalls, matrixVars
<1>6. calls \subseteq Task /\ \A u \in calls : Aligned(u)
  BY DEF TypeOK, ProgramInv
<1>7. /\ \A q \in sites : Child(t, q) \in calls'
      /\ \A u \in calls' : u \in calls \/ \E q \in sites : u = Child(t, q)
  BY <1>5
<1> HIDE DEF new, sites
<1>8. TypeOK'
  <2>1. calls' \subseteq Task
    BY <1>2, <1>6, <1>7
  <2> QED BY <1>1, <1>5, <2>1 DEF TypeOK
<1>9. ProgramInv'
  <2>1. Root \in calls'
    BY <1>5 DEF ProgramInv
  <2>2. ASSUME NEW u \in calls
        PROVE  /\ Aligned(u) /\ pc'[u] \in 1 .. Len(Body[runtime']) + 1
               /\ ~ Leaf(u) =>
                    /\ \A q \in Made(u)' : Child(u, q) \in calls'
                    /\ \A q \in Waited(u)' : Returned(Child(u, q))'
    <3>1. pc'[u] \in 1 .. Len(Body[runtime']) + 1
      BY <1>1, <1>3, <1>5, BodySound DEF ProgramInv
    <3>2. ASSUME ~ Leaf(u), NEW q \in Made(u)' PROVE Child(u, q) \in calls'
      BY <1>1, <1>3, <1>5, <1>7, <3>2 DEF ProgramInv
    <3>3. ASSUME ~ Leaf(u), NEW q \in Waited(u)' PROVE Returned(Child(u, q))'
      <4>1. Returned(Child(u, q))
        BY <1>3, <3>3 DEF ProgramInv
      <4>2. Child(u, q) \in calls
        BY <4>1 DEF Returned
      <4> QED BY <1>3, <4>1, <4>2
    <3> QED BY <1>6, <3>1, <3>2, <3>3
  <2>3. ASSUME NEW u \in new
        PROVE  /\ Aligned(u) /\ pc'[u] \in 1 .. Len(Body[runtime']) + 1
               /\ Made(u)' = {} /\ Waited(u)' = {}
    BY <1>2, <1>4, <1>5, BodySound DEF new
  <2> QED BY <1>5, <2>1, <2>2, <2>3 DEF ProgramInv
<1>10. TreeInv'
  (* Where a call made earlier can be, seen from a child that is new.      *)
  <2>1. ASSUME NEW q \in sites, NEW u \in calls
        PROVE  /\ Separate(u, Child(t, q)) \/ (Within(t, u) /\ Within(Child(t, q), u))
               /\ Returned(u) \/ Apart(u, Child(t, q)) \/ Within(Child(t, q), u)
    <3> DEFINE x == Child(t, q)
    <3>1. x \in Task /\ u \in Task /\ Within(x, t)
      BY <1>2, <1>6
    <3>2. CASE Within(t, u)
      BY <1>1, <3>1, <3>2, WithinTransitive
    <3>3. CASE Within(u, t) /\ u # t
      <4>1. PICK y \in Made(t) : Within(u, Child(t, y))
        BY <3>3 DEF TreeInv
      <4>2. y \in 1 .. 8 /\ q \in 1 .. 8 /\ y # q /\ Child(t, y) \in Task
        BY <1>1, <1>2, ChildFacts DEF Made, Before
      <4>3. Separate(u, x)
        BY <1>1, <3>1, <4>1, <4>2, ChildrenSeparate, WithinApart
      <4>4. ASSUME ~ Returned(u) PROVE Apart(u, x)
        <5>1. Child(t, y) \in calls
          BY <1>1, <4>1 DEF ProgramInv
        <5>2. ~ Returned(Child(t, y))
          BY <4>1, <4>4, <5>1 DEF TreeInv
        <5>3. y \notin Waited(t)
          BY <1>1, <5>2 DEF ProgramInv
        <5>4. Apart(Child(t, y), x)
          BY <1>1, <1>2, <4>1, <4>2, <5>3, ChildrenSeparate
        <5> QED BY <3>1, <4>1, <4>2, <5>4, WithinApart
      <4> QED BY <4>3, <4>4
    <3>4. CASE u = t
      BY <1>1, <3>1, <3>4, WithinReflexive
    <3>5. CASE ~ Within(t, u) /\ ~ Within(u, t)
      <4>1. Separate(t, u) /\ Separate(u, t)
        BY <3>5 DEF TreeInv
      <4>2. Returned(u) \/ Apart(u, t)
        BY <1>1, <3>5 DEF TreeInv
      <4> QED BY <1>1, <3>1, <4>1, <4>2, WithinApart
    <3> QED BY <3>2, <3>3, <3>4, <3>5
  <2>2. ASSUME NEW p \in sites, NEW q \in sites, p # q
        PROVE  Apart(Child(t, p), Child(t, q))
    BY <1>1, <1>2, <2>2, ChildrenSeparate
  <2>3. ASSUME NEW p \in sites, NEW q \in sites, Within(Child(t, p), Child(t, q))
        PROVE  Child(t, p) = Child(t, q)
    <3>1. CASE p = q BY <3>1
    <3>2. CASE p # q
      <4>1. Separate(Child(t, p), Child(t, q))
        BY <2>2, <3>2 DEF Separate
      <4> QED BY <1>2, <2>3, <4>1, WithinReflexive, NotBoth
    <3> QED BY <3>1, <3>2
  <2>4. ASSUME NEW q \in sites, NEW u \in calls PROVE ~ Within(u, Child(t, q))
    <3>1. SUFFICES ASSUME Within(u, Child(t, q)) PROVE FALSE
      OBVIOUS
    <3>2. u \in Task /\ Child(t, q) \in Task /\ Within(u, u)
      BY <1>2, <1>6, WithinReflexive
    <3>3. CASE Separate(u, Child(t, q))
      BY <3>1, <3>2, <3>3, NotBoth
    <3>4. CASE Within(Child(t, q), u)
      BY <1>2, <1>6, <3>1, <3>2, <3>4, WithinAntisymmetric
    <3> QED BY <2>1, <3>3, <3>4
  <2>5. ASSUME NEW u \in calls', NEW v \in calls'
        PROVE  Separate(u, v) \/ Within(v, u) \/ Within(u, v)
    <3>1. CASE u \in calls /\ v \in calls
      BY <3>1 DEF TreeInv
    <3>2. ASSUME NEW q \in sites, v = Child(t, q), u \in calls
          PROVE  Separate(u, v) \/ Within(v, u)
      BY <2>1, <3>2
    <3>3. ASSUME NEW q \in sites, u = Child(t, q), v \in calls
          PROVE  Separate(u, v) \/ Within(u, v)
      <4>1. Separate(v, u) \/ Within(u, v)
        BY <2>1, <3>3
      <4> QED BY <4>1 DEF Separate, Apart
    <3>4. ASSUME NEW p \in sites, NEW q \in sites, u = Child(t, p), v = Child(t, q)
          PROVE  Separate(u, v) \/ Within(v, u)
      <4>1. CASE p = q
        BY <1>2, <3>4, <4>1, WithinReflexive
      <4>2. CASE p # q
        BY <2>2, <3>4, <4>2 DEF Separate
      <4> QED BY <4>1, <4>2
    <3> QED BY <1>7, <3>1, <3>2, <3>3, <3>4
  <2>6. ASSUME NEW u \in calls', NEW v \in calls', Within(v, u), v # u
        PROVE  ~ Leaf(u) /\ \E q \in Made(u)' : Within(v, Child(u, q))
    <3>1. u \in calls
      BY <1>7, <2>3, <2>4, <2>6
    <3>2. CASE v \in calls
      <4>1. ~ Leaf(u) /\ \E q \in Made(u) : Within(v, Child(u, q))
        BY <2>6, <3>1, <3>2 DEF TreeInv
      <4> QED BY <1>1, <1>3, <3>1, <4>1
    <3>3. ASSUME NEW q \in sites, v = Child(t, q)
          PROVE  ~ Leaf(u) /\ \E y \in Made(u)' : Within(v, Child(u, y))
      <4>1. v \in Task /\ u \in Task /\ Within(v, t) /\ Within(v, v) /\ Aligned(u)
        BY <1>2, <1>6, <3>1, <3>3, WithinReflexive
      <4>2. CASE u = t
        BY <1>1, <3>3, <4>1, <4>2
      <4>3. CASE u # t /\ Within(t, u)
        <5>1. ~ Leaf(u)
          BY <3>1, <4>3 DEF TreeInv
        <5>2. PICK y \in Made(u) : Within(t, Child(u, y))
          BY <3>1, <4>3 DEF TreeInv
        <5>3. Child(u, y) \in Task
          BY <4>1, <5>1, <5>2, ChildFacts DEF Made, Before
        <5>4. Within(v, Child(u, y))
          BY <1>1, <4>1, <5>2, <5>3, WithinTransitive
        <5> QED BY <1>3, <3>1, <4>3, <5>1, <5>2, <5>4
      <4>4. CASE ~ Within(t, u)
        <5>1. Separate(u, v)
          BY <2>1, <3>1, <3>3, <4>4
        <5> QED BY <2>6, <4>1, <5>1, NotBoth
      <4> QED BY <4>2, <4>3, <4>4
    <3> QED BY <1>7, <3>2, <3>3
  <2>7. ASSUME NEW u \in calls', NEW v \in calls', Within(v, u), Returned(u)'
        PROVE  Returned(v)'
    <3>1. u \in calls /\ Returned(u)
      BY <1>3, <1>4, <1>5, <2>7
    <3>2. CASE v \in calls
      BY <1>3, <2>7, <3>1, <3>2 DEF TreeInv
    <3>3. ASSUME NEW q \in sites, v = Child(t, q) PROVE FALSE
      <4>1. v \in Task /\ u \in Task /\ Within(v, v)
        BY <1>2, <1>6, <3>1, <3>3, WithinReflexive
      <4>2. ~ Separate(u, v)
        BY <2>7, <4>1, NotBoth
      <4>3. Within(t, u)
        BY <2>1, <3>1, <3>3, <4>2
      <4> QED BY <1>1, <3>1, <4>3 DEF TreeInv
    <3> QED BY <1>7, <3>2, <3>3
  <2>8. ASSUME NEW u \in calls', NEW v \in calls'
        PROVE  Returned(u)' \/ Returned(v)' \/ Apart(u, v) \/ Within(u, v) \/ Within(v, u)
    <3>1. CASE u \in calls /\ v \in calls
      BY <1>3, <3>1 DEF TreeInv
    <3>2. ASSUME NEW q \in sites, v = Child(t, q), u \in calls
          PROVE  Returned(u)' \/ Apart(u, v) \/ Within(v, u)
      BY <1>3, <2>1, <3>2
    <3>3. ASSUME NEW q \in sites, u = Child(t, q), v \in calls
          PROVE  Returned(v)' \/ Apart(u, v) \/ Within(u, v)
      <4>1. Returned(v)' \/ Apart(v, u) \/ Within(u, v)
        BY <1>3, <2>1, <3>3
      <4> QED BY <4>1 DEF Apart
    <3>4. ASSUME NEW p \in sites, NEW q \in sites, u = Child(t, p), v = Child(t, q)
          PROVE  Apart(u, v) \/ Within(v, u)
      <4>1. CASE p = q
        BY <1>2, <3>4, <4>1, WithinReflexive
      <4>2. CASE p # q
        BY <2>2, <3>4, <4>2
      <4> QED BY <4>1, <4>2
    <3> QED BY <1>7, <3>1, <3>2, <3>3, <3>4
  <2> QED BY <2>5, <2>6, <2>7, <2>8 DEF TreeInv
<1>11. LoopInv'
  <2>1. ASSUME NEW u \in calls
        PROVE  /\ InLoop(u)' <=> InLoop(u)
               /\ Target(u)' = Target(u)
    BY <1>3, <1>5 DEF InLoop, Target, Leaf
  <2>2. ASSUME NEW u \in new
        PROVE  /\ loop'[u].i < u.n /\ loop'[u].k < u.n /\ loop'[u].j < u.n
               /\ loop'[u].reg = NotLoaded
    <3>1. u.n \in Nat /\ u.n > 0
      BY <1>2, TaskFacts DEF new
    <3> QED BY <1>4, <3>1 DEF LoopStart, Turn
  <2> QED BY <1>3, <1>5, <2>1, <2>2 DEF LoopInv
<1>12. SumInv'
  <2>1. ASSUME NEW u \in calls, NEW r, NEW x, NEW s
        PROVE  Added(u, r, x, s)' <=> Added(u, r, x, s)
    BY <1>3, <1>5 DEF Added, Leaf, Rows, Inner, Columns
  <2>2. ASSUME NEW u \in new, NEW r, NEW x, NEW s
        PROVE  ~ Added(u, r, x, s)'
    <3>1. u \in Task
      BY <1>2 DEF new
    <3> QED BY <1>4, <3>1, TaskFacts DEF Added, LoopStart, Turn, Rows, Inner, Columns
  <2>3. \A r, x, s : (\E u \in calls' : Added(u, r, x, s)') <=> \E u \in calls : Added(u, r, x, s)
    BY <1>5, <2>1, <2>2
  <2>4. NothingLost'
    BY <1>5 DEF SumInv, NothingLost
  <2>5. \A u \in calls' : Returned(u)' => ShareDone(u)'
    BY <1>3, <1>4, <1>5 DEF SumInv, ShareDone
  <2> QED BY <1>5, <2>3, <2>4, <2>5 DEF SumInv
<1>13. VerdictInv'
  BY <1>3, <1>5 DEF VerdictInv, ProgramInv
<1> QED BY <1>8, <1>9, <1>10, <1>11, <1>12, <1>13

-----------------------------------------------------------------------------
(***************************************************************************)
(* The other actions make no calls.  The tree stays as it is when calls    *)
(* only return, each after the calls inside it.                            *)
(***************************************************************************)
LEMMA TreeKept ==
  ASSUME TreeInv, calls' = calls,
         \A u \in calls : Returned(u) => Returned(u)',
         \A u \in calls : Made(u)' = Made(u),
         \A u, v \in calls : Within(v, u) /\ ~ Returned(u) /\ Returned(u)' => Returned(v)'
  PROVE  TreeInv'
<1>1. ASSUME NEW u \in calls, NEW v \in calls
      PROVE  /\ Separate(u, v) \/ Within(u, v) \/ Within(v, u)
             /\ Within(v, u) /\ v # u =>
                  ~ Leaf(u) /\ \E q \in Made(u)' : Within(v, Child(u, q))
             /\ Within(v, u) /\ Returned(u)' => Returned(v)'
             /\ Returned(u)' \/ Returned(v)' \/ Apart(u, v) \/ Within(u, v) \/ Within(v, u)
  <2>1. /\ Separate(u, v) \/ Within(u, v) \/ Within(v, u)
        /\ Within(v, u) /\ v # u => ~ Leaf(u) /\ \E q \in Made(u) : Within(v, Child(u, q))
        /\ Within(v, u) /\ Returned(u) => Returned(v)
        /\ Returned(u) \/ Returned(v) \/ Apart(u, v) \/ Within(u, v) \/ Within(v, u)
    BY DEF TreeInv
  <2>2. Within(v, u) /\ Returned(u)' => Returned(v)'
    BY <2>1
  <2> QED BY <2>1, <2>2
<1> QED BY <1>1 DEF TreeInv

LEMMA AwaitInv == IInv /\ (\E t \in calls : AwaitCalls(t)) => IInv'
<1> SUFFICES ASSUME IInv, NEW t \in calls, AwaitCalls(t) PROVE IInv'
  OBVIOUS
<1> USE DEF IInv
<1> DEFINE B     == Body[runtime]
           sites == Statement(t).sites
<1>1. /\ t \in Task /\ ~ Leaf(t) /\ Aligned(t) /\ ~ Returned(t)
      /\ pc[t] \in Nat /\ pc[t] > 0 /\ pc[t] =< Len(B) /\ Len(B) \in Nat
      /\ B[pc[t]].op = "await" /\ B[pc[t]].sites = sites /\ sites \subseteq 1 .. 8
      /\ \A q \in sites : Returned(Child(t, q))
  BY SMTT(30), BodySound
  DEF TypeOK, ProgramInv, Returned, AwaitCalls, Recursive, Statement, AllReturned, Sound
<1>2. /\ calls' = calls /\ runtime' = runtime /\ loop' = loop /\ c' = c
      /\ summed' = summed /\ verdict' = verdict
      /\ pc' = [pc EXCEPT ![t] = @ + 1]
  BY DEF AwaitCalls, matrixVars
<1>3. /\ pc'[t] = pc[t] + 1 /\ \A u \in calls : u # t => pc'[u] = pc[u]
      /\ pc' \in [calls -> Nat]
  BY <1>1, <1>2 DEF TypeOK
<1>4. \A u \in calls : u # t =>
        Made(u)' = Made(u) /\ Waited(u)' = Waited(u) /\ (Returned(u)' <=> Returned(u))
  BY <1>2, <1>3 DEF Made, Waited, Returned, Leaf
<1>5. Made(t)' = Made(t) /\ Waited(t)' = Waited(t) \cup sites
  <2> HIDE DEF B, sites
  <2>1. Before(B, pc[t] + 1, "fork")
          = Before(B, pc[t], "fork") \cup (IF B[pc[t]].op = "fork" THEN B[pc[t]].sites \cap 1 .. 8 ELSE {})
    BY <1>1, BeforeNext
  <2>2. Before(B, pc[t] + 1, "await")
          = Before(B, pc[t], "await") \cup (IF B[pc[t]].op = "await" THEN B[pc[t]].sites \cap 1 .. 8 ELSE {})
    BY <1>1, BeforeNext
  <2>3. Before(B, pc[t] + 1, "fork") = Before(B, pc[t], "fork")
    BY <1>1, <2>1
  <2>4. Before(B, pc[t] + 1, "await") = Before(B, pc[t], "await") \cup sites
    BY <1>1, <2>2
  <2> QED BY <1>2, <1>3, <2>3, <2>4 DEF Made, Waited, B
<1>6. Returned(t)' =>
        \A q \in 1 .. 8 : Child(t, q) \in calls /\ Returned(Child(t, q))
  <2>1. SUFFICES ASSUME Returned(t)', NEW q \in 1 .. 8
                 PROVE  Child(t, q) \in calls /\ Returned(Child(t, q))
    OBVIOUS
  <2>2. pc'[t] = Len(B) + 1
    BY <1>1, <1>2, <1>3, <2>1 DEF Returned, Leaf
  <2>3. q \in Waited(t)'
    BY <1>2, <2>2, BodySound DEF Waited, Sound
  <2>4. Returned(Child(t, q))
    BY <1>1, <1>5, <2>3 DEF ProgramInv
  <2> QED BY <2>4 DEF Returned
<1>7. \A u \in calls : Returned(u) => Returned(u)'
  BY <1>1, <1>4
<1>8. TypeOK'
  BY <1>2, <1>3 DEF TypeOK
<1>9. ProgramInv'
  <2>1. ASSUME NEW u \in calls
        PROVE  /\ Aligned(u) /\ pc'[u] \in 1 .. Len(Body[runtime']) + 1
               /\ ~ Leaf(u) =>
                    /\ \A q \in Made(u)' : Child(u, q) \in calls'
                    /\ \A q \in Waited(u)' : Returned(Child(u, q))'
    <3>1. Aligned(u) /\ pc'[u] \in 1 .. Len(Body[runtime']) + 1
      BY <1>1, <1>2, <1>3 DEF ProgramInv
    <3>2. ASSUME ~ Leaf(u), NEW q \in Made(u)' PROVE Child(u, q) \in calls'
      BY <1>2, <1>4, <1>5, <3>2 DEF ProgramInv
    <3>3. ASSUME ~ Leaf(u), NEW q \in Waited(u)' PROVE Returned(Child(u, q))'
      <4>1. Returned(Child(u, q))
        BY <1>1, <1>4, <1>5, <3>3 DEF ProgramInv
      <4>2. Child(u, q) \in calls
        BY <4>1 DEF Returned
      <4> QED BY <1>7, <4>1, <4>2
    <3> QED BY <3>1, <3>2, <3>3
  <2> QED BY <1>2, <2>1 DEF ProgramInv
<1>10. TreeInv'
  <2>1. ASSUME NEW u \in calls, NEW v \in calls,
               Within(v, u), ~ Returned(u), Returned(u)'
        PROVE  Returned(v)'
    <3>1. u = t
      BY <1>4, <2>1
    <3>2. CASE v = t
      BY <2>1, <3>1, <3>2
    <3>3. CASE v # t
      <4>1. PICK q \in Made(t) : Within(v, Child(t, q))
        BY <2>1, <3>1, <3>3 DEF TreeInv
      <4>2. Child(t, q) \in calls /\ Returned(Child(t, q))
        BY <1>6, <2>1, <3>1 DEF Made, Before
      <4>3. Returned(v)
        BY <4>1, <4>2 DEF TreeInv
      <4> QED BY <1>7, <4>3
    <3> QED BY <3>2, <3>3
  <2> QED BY <1>2, <1>4, <1>5, <1>7, <2>1, TreeKept
<1>11. LoopInv'
  BY <1>2 DEF LoopInv, InLoop, Returned, Target, Leaf
<1>12. SumInv'
  <2>1. \A u, r, x, s : Added(u, r, x, s)' <=> Added(u, r, x, s)
    BY <1>2 DEF Added, Leaf, Rows, Inner, Columns
  <2>2. NothingLost'
    BY <1>2 DEF SumInv, NothingLost
  <2>3. \A u \in calls : ShareDone(u)' <=> ShareDone(u)
    BY <1>2 DEF ShareDone
  <2>4. ASSUME Returned(t)' PROVE ShareDone(t)
    <3>1. SUFFICES ASSUME NEW r \in Rows(t), NEW x \in Inner(t), NEW s \in Columns(t)
                   PROVE  Promise!Product(r, x, s) \in summed[<<r, s>>]
      BY DEF ShareDone
    <3>2. PICK q \in 1 .. 8 : r \in Rows(Child(t, q)) /\ x \in Inner(Child(t, q))
                                /\ s \in Columns(Child(t, q))
      BY <1>1, ChildrenCover
    <3>3. ShareDone(Child(t, q))
      BY <1>6, <2>4 DEF SumInv
    <3> QED BY <3>2, <3>3 DEF ShareDone
  <2>5. \A u \in calls : Returned(u)' => ShareDone(u)'
    BY <1>4, <2>3, <2>4 DEF SumInv
  <2> QED BY <1>2, <2>1, <2>2, <2>5 DEF SumInv
<1>13. VerdictInv'
  BY <1>2, <1>7 DEF VerdictInv, ProgramInv
<1> QED BY <1>8, <1>9, <1>10, <1>11, <1>12, <1>13

-----------------------------------------------------------------------------
(***************************************************************************)
(* matmul_small().                                                         *)
(***************************************************************************)
(* The element and the product that a call in its loops is at.             *)
LEMMA PlaceFacts ==
  ASSUME IInv, NEW t \in calls, InLoop(t)
  PROVE  LET r == t.c[1] + loop[t].i
             x == t.a[2] + loop[t].k
             s == t.c[2] + loop[t].j
         IN  /\ r \in 0 .. N-1 /\ x \in 0 .. N-1 /\ s \in 0 .. N-1
             /\ r \in Rows(t) /\ x \in Inner(t) /\ s \in Columns(t)
             /\ Target(t) = <<r, s>> /\ Target(t) \in Cells
             /\ Factors(t) = Promise!Product(r, x, s)
<1> USE DEF IInv
<1>1. t \in Task /\ Aligned(t) /\ loop[t] \in Loop
      /\ loop[t].i < t.n /\ loop[t].k < t.n /\ loop[t].j < t.n
  BY DEF TypeOK, ProgramInv, LoopInv
<1>2. loop[t].i \in Nat /\ loop[t].k \in Nat /\ loop[t].j \in Nat
  BY <1>1 DEF Loop
<1>3. /\ t.c[1] + t.n =< N /\ t.c[2] + t.n =< N /\ t.a[2] + t.n =< N
      /\ t.a[1] = t.c[1] /\ t.b[1] = t.a[2] /\ t.b[2] = t.c[2]
  BY <1>1, SizeFacts DEF Aligned, Within, Root
<1>4. /\ t.c[1] + loop[t].i \in 0 .. N-1 /\ t.c[1] + loop[t].i \in Rows(t)
      /\ t.a[2] + loop[t].k \in 0 .. N-1 /\ t.a[2] + loop[t].k \in Inner(t)
      /\ t.c[2] + loop[t].j \in 0 .. N-1 /\ t.c[2] + loop[t].j \in Columns(t)
  BY <1>1, <1>2, <1>3, TaskFacts, SizeFacts DEF Rows, Inner, Columns
<1>5. Target(t) = <<t.c[1] + loop[t].i, t.c[2] + loop[t].j>>
  BY DEF Target, Element
<1>6. Factors(t) = Promise!Product(t.c[1] + loop[t].i, t.a[2] + loop[t].k, t.c[2] + loop[t].j)
  BY <1>3 DEF Factors, Element, Promise!Product
<1> QED BY <1>4, <1>5, <1>6 DEF Cells

(* Two calls in their loops write different elements of c.                 *)
LEMMA OneWriterInv ==
  ASSUME IInv, NEW t \in calls, NEW u \in calls, InLoop(t), InLoop(u), t # u
  PROVE  Apart(t, u) /\ Target(t) # Target(u)
<1> USE DEF IInv
<1>1. t \in Task /\ u \in Task
  BY DEF TypeOK
<1>2. Leaf(t) /\ Leaf(u) /\ ~ Returned(t) /\ ~ Returned(u)
  BY DEF InLoop
<1>3. ~ Within(t, u) /\ ~ Within(u, t)
  BY <1>2 DEF TreeInv
<1>4. Apart(t, u)
  BY <1>2, <1>3 DEF TreeInv
<1>5. /\ Target(t) = <<t.c[1] + loop[t].i, t.c[2] + loop[t].j>>
      /\ Target(u) = <<u.c[1] + loop[u].i, u.c[2] + loop[u].j>>
  BY PlaceFacts
<1>6. /\ loop[t].i \in Nat /\ loop[t].j \in Nat /\ loop[u].i \in Nat /\ loop[u].j \in Nat
      /\ loop[t].i < t.n /\ loop[t].j < t.n /\ loop[u].i < u.n /\ loop[u].j < u.n
  BY DEF TypeOK, Loop, LoopInv
<1>7. Target(t) # Target(u)
  BY <1>1, <1>4, <1>5, <1>6, TaskFacts DEF Apart
<1> QED BY <1>4, <1>7

LEMMA LoadInv == IInv /\ (\E t \in calls : Load(t)) => IInv'
<1> SUFFICES ASSUME IInv, NEW t \in calls, Load(t) PROVE IInv'
  OBVIOUS
<1> USE DEF IInv
<1>1. /\ calls' = calls /\ runtime' = runtime /\ pc' = pc /\ c' = c
      /\ summed' = summed /\ verdict' = verdict
      /\ loop' = [loop EXCEPT ![t].reg = c[Target(t)]] /\ InLoop(t)
  BY DEF Load, matrixVars
<1>2. c[Target(t)] \in Nat
  BY <1>1, PlaceFacts DEF TypeOK
<1>3. /\ loop' \in [calls -> Loop]
      /\ \A u \in calls : /\ loop'[u].i = loop[u].i /\ loop'[u].k = loop[u].k
                          /\ loop'[u].j = loop[u].j
                          /\ u # t => loop'[u] = loop[u]
      /\ loop'[t].reg = c[Target(t)]
  BY <1>1, <1>2 DEF TypeOK, Loop
<1>4. /\ \A u \in calls : (Returned(u)' <=> Returned(u)) /\ (InLoop(u)' <=> InLoop(u))
      /\ \A u \in calls : Target(u)' = Target(u)
      /\ \A u : Made(u)' = Made(u) /\ Waited(u)' = Waited(u)
  BY <1>1, <1>3 DEF Returned, InLoop, Leaf, Target, Made, Waited
<1>5. TypeOK'
  BY <1>1, <1>3 DEF TypeOK
<1>6. ProgramInv'
  <2>1. ASSUME NEW u \in calls, ~ Leaf(u), NEW q \in Waited(u) PROVE Returned(Child(u, q))'
    <3>1. Returned(Child(u, q))
      BY <2>1 DEF ProgramInv
    <3>2. Child(u, q) \in calls
      BY <3>1 DEF Returned
    <3> QED BY <1>4, <3>1, <3>2
  <2> QED BY <1>1, <1>4, <2>1 DEF ProgramInv
<1>7. TreeInv'
  BY <1>1, <1>4, TreeKept
<1>8. LoopInv'
  <2>1. ASSUME NEW u \in calls
        PROVE  /\ InLoop(u)' => loop'[u].i < u.n /\ loop'[u].k < u.n /\ loop'[u].j < u.n
               /\ loop'[u].reg # NotLoaded => InLoop(u)' /\ loop'[u].reg = c'[Target(u)']
    <3>1. CASE u = t
      BY <1>1, <1>3, <1>4, <3>1 DEF LoopInv
    <3>2. CASE u # t
      BY <1>1, <1>3, <1>4, <3>2 DEF LoopInv
    <3> QED BY <3>1, <3>2
  <2> QED BY <1>1, <2>1 DEF LoopInv
<1>9. SumInv'
  <2>1. \A u, r, x, s : Added(u, r, x, s)' <=> Added(u, r, x, s)
    BY <1>1, <1>3 DEF Added, Leaf, Rows, Inner, Columns
  <2>2. NothingLost'
    BY <1>1 DEF SumInv, NothingLost
  <2>3. \A u \in calls : Returned(u)' => ShareDone(u)'
    BY <1>1, <1>4 DEF SumInv, ShareDone
  <2> QED BY <1>1, <2>1, <2>2, <2>3 DEF SumInv
<1>10. VerdictInv'
  BY <1>1, <1>4 DEF VerdictInv, ProgramInv
<1> QED BY <1>5, <1>6, <1>7, <1>8, <1>9, <1>10

(* What a call in its loops is about to add is not in c yet: no other call *)
(* has added it, and its own loops have not been there.                    *)
LEMMA NewProduct ==
  ASSUME IInv, NEW t \in calls, InLoop(t)
  PROVE  Factors(t) \notin summed[Target(t)]
<1> DEFINE r == t.c[1] + loop[t].i
           x == t.a[2] + loop[t].k
           s == t.c[2] + loop[t].j
<1>1. /\ r \in 0 .. N-1 /\ x \in 0 .. N-1 /\ s \in 0 .. N-1
      /\ r \in Rows(t) /\ x \in Inner(t) /\ s \in Columns(t)
      /\ Target(t) = <<r, s>> /\ Factors(t) = Promise!Product(r, x, s)
  BY PlaceFacts
<1>2. SUFFICES ASSUME Promise!Product(r, x, s) \in summed[<<r, s>>] PROVE FALSE
  BY <1>1
<1> USE DEF IInv
<1>3. /\ t \in Task /\ Leaf(t) /\ ~ Returned(t)
      /\ loop[t].i \in Nat /\ loop[t].k \in Nat /\ loop[t].j \in Nat
  BY DEF TypeOK, InLoop, Loop
<1> HIDE DEF r, x, s
<1>4. PICK u \in calls : Added(u, r, x, s)
  BY <1>1, <1>2 DEF SumInv
<1>5. u \in Task /\ Leaf(u) /\ r \in Rows(u) /\ x \in Inner(u) /\ s \in Columns(u)
  BY <1>4 DEF Added, TypeOK
<1>6. u # t
  BY <1>3, <1>4, TaskFacts DEF Added, r, x, s
<1>7. ~ Separate(t, u)
  BY <1>1, <1>3, <1>5, TaskFacts DEF Separate, Apart, Rows, Inner, Columns
<1> QED BY <1>3, <1>5, <1>6, <1>7 DEF TreeInv

(* The three loops go through every turn once, in lexicographic order.     *)
Earlier(i, k, j, l) ==
  \/ i < l.i
  \/ i = l.i /\ k < l.k
  \/ i = l.i /\ k = l.k /\ j < l.j

LEMMA AdvanceFacts ==
  ASSUME NEW l \in Loop, NEW n \in Nat, l.i < n, l.k < n, l.j < n
  PROVE  LET m == Advance(l, n) IN
         /\ m \in Loop /\ m.reg = NotLoaded
         /\ m.i =< n /\ (m.i < n => m.k < n /\ m.j < n)
         /\ \A i, k, j \in 0 .. n-1 :
              Earlier(i, k, j, m)
                <=> Earlier(i, k, j, l) \/ (i = l.i /\ k = l.k /\ j = l.j)
<1> DEFINE m == Advance(l, n)
<1>1. l.i \in Nat /\ l.k \in Nat /\ l.j \in Nat
  BY DEF Loop
<1>2. \A i, k, j \in Nat : Turn(i, k, j) \in Loop
  BY DEF Loop, Turn
<1>3. CASE l.j + 1 < n
  <2>1. m = Turn(l.i, l.k, l.j + 1)
    BY <1>3 DEF Advance
  <2> QED BY <1>1, <1>2, <1>3, <2>1 DEF Earlier, Turn
<1>4. CASE l.j + 1 = n /\ l.k + 1 < n
  <2>1. m = Turn(l.i, l.k + 1, 0)
    BY <1>1, <1>4 DEF Advance
  <2> QED BY <1>1, <1>2, <1>4, <2>1 DEF Earlier, Turn
<1>5. CASE l.j + 1 = n /\ l.k + 1 = n
  <2>1. m = Turn(l.i + 1, 0, 0)
    BY <1>1, <1>5 DEF Advance
  <2> QED BY <1>1, <1>2, <1>5, <2>1 DEF Earlier, Turn
<1> QED BY <1>1, <1>3, <1>4, <1>5

LEMMA ProductsCount ==
  ASSUME NEW e \in Cells
  PROVE  IsFiniteSet(Promise!ProductsOf(e)) /\ Cardinality(Promise!ProductsOf(e)) = N
<1> DEFINE S == 0 .. N-1
           f == [x \in S |-> Promise!Product(e[1], x, e[2])]
<1>1. IsFiniteSet(S) /\ Cardinality(S) = N
  BY FS_Interval, SizeFacts
<1>2. f \in Surjection(S, Promise!ProductsOf(e))
  BY DEF Surjection, Promise!ProductsOf
<1>3. \A x, y \in S : f[x] = f[y] => x = y
  BY DEF Promise!Product
<1>4. f \in Injection(S, Promise!ProductsOf(e))
  BY <1>2, <1>3 DEF Surjection, Injection, IsInjective
<1> QED BY <1>1, <1>2, <1>4, FS_Surjection

LEMMA StoreInv == IInv /\ (\E t \in calls : Store(t)) => IInv'
<1> SUFFICES ASSUME IInv, NEW t \in calls, Store(t) PROVE IInv'
  OBVIOUS
<1> USE DEF IInv
<1> DEFINE l == loop[t]
           m == Advance(l, t.n)
           e == Target(t)
           r == t.c[1] + l.i
           x == t.a[2] + l.k
           s == t.c[2] + l.j
           f == Promise!Product(r, x, s)
<1>1. /\ calls' = calls /\ runtime' = runtime /\ pc' = pc /\ verdict' = verdict
      /\ loop' = [loop EXCEPT ![t] = m] /\ InLoop(t) /\ l.reg # NotLoaded
      /\ c' = [c EXCEPT ![e] = l.reg + 1]
      /\ summed' = [summed EXCEPT ![e] = @ \cup {Factors(t)}]
  BY DEF Store
<1>2. /\ r \in 0 .. N-1 /\ x \in 0 .. N-1 /\ s \in 0 .. N-1
      /\ r \in Rows(t) /\ x \in Inner(t) /\ s \in Columns(t)
      /\ e = <<r, s>> /\ e \in Cells /\ Factors(t) = f
  BY <1>1, PlaceFacts
<1>3. /\ t \in Task /\ Leaf(t) /\ ~ Returned(t) /\ l \in Loop
      /\ l.i \in Nat /\ l.k \in Nat /\ l.j \in Nat
      /\ l.i < t.n /\ l.k < t.n /\ l.j < t.n /\ l.reg = c[e] /\ t.n \in Nat
  BY <1>1, TaskFacts DEF TypeOK, LoopInv, InLoop, Loop
<1>4. /\ m \in Loop /\ m.reg = NotLoaded
      /\ m.i =< t.n /\ (m.i < t.n => m.k < t.n /\ m.j < t.n)
      /\ \A i, k, j \in 0 .. t.n-1 :
           Earlier(i, k, j, m) <=> Earlier(i, k, j, l) \/ (i = l.i /\ k = l.k /\ j = l.j)
  BY <1>3, AdvanceFacts
<1> HIDE DEF l, m, e, r, x, s, f
<1>5. /\ loop' \in [calls -> Loop] /\ loop'[t] = m
      /\ \A u \in calls : u # t => loop'[u] = loop[u]
  BY <1>1, <1>4 DEF TypeOK
<1>6. /\ c' \in [Cells -> Nat] /\ c'[e] = c[e] + 1
      /\ \A g \in Cells : g # e => c'[g] = c[g]
  BY <1>1, <1>2, <1>3 DEF TypeOK
<1>7. /\ summed'[e] = summed[e] \cup {f}
      /\ \A g \in Cells : g # e => summed'[g] = summed[g]
      /\ \A g \in Cells : summed[g] \subseteq summed'[g]
  BY <1>1, <1>2 DEF TypeOK
<1>8. /\ \A u \in calls : u # t =>
           (Returned(u)' <=> Returned(u)) /\ (InLoop(u)' <=> InLoop(u)) /\ Target(u)' = Target(u)
      /\ \A u : Made(u)' = Made(u) /\ Waited(u)' = Waited(u)
      /\ Returned(t)' <=> m.i = t.n
      /\ InLoop(t)' <=> m.i # t.n
  BY <1>1, <1>3, <1>5 DEF Returned, InLoop, Leaf, Target, Made, Waited
<1>9. \A u \in calls : Returned(u) => Returned(u)'
  BY <1>3, <1>8
<1>10. f \in Promise!ProductsOf(e)
  BY <1>2 DEF f, Promise!ProductsOf
<1>11. f \notin summed[e]
  BY <1>1, <1>2, NewProduct DEF e
<1>12. TypeOK'
  <2>1. \A g \in Cells : summed[g] \in SUBSET [a : Cells, b : Cells]
    BY DEF TypeOK
  <2>2. f \in [a : Cells, b : Cells]
    BY <1>2 DEF f, Promise!Product, Cells
  <2>3. summed' \in [Cells -> SUBSET [a : Cells, b : Cells]]
    BY <1>1, <1>2, <2>1, <2>2 DEF TypeOK
  <2> QED BY <1>1, <1>5, <1>6, <2>3 DEF TypeOK
<1>13. ProgramInv'
  <2>1. ASSUME NEW u \in calls, ~ Leaf(u), NEW q \in Waited(u) PROVE Returned(Child(u, q))'
    <3>1. Returned(Child(u, q))
      BY <2>1 DEF ProgramInv
    <3>2. Child(u, q) \in calls
      BY <3>1 DEF Returned
    <3> QED BY <1>9, <3>1, <3>2
  <2> QED BY <1>1, <1>8, <2>1 DEF ProgramInv
<1>14. TreeInv'
  <2>1. ASSUME NEW u \in calls, NEW v \in calls,
               Within(v, u), ~ Returned(u), Returned(u)'
        PROVE  Returned(v)'
    <3>1. u = t
      BY <1>8, <2>1
    <3>2. v = t
      BY <1>3, <2>1, <3>1 DEF TreeInv
    <3> QED BY <2>1, <3>1, <3>2
  <2> QED BY <1>1, <1>8, <1>9, <2>1, TreeKept
<1>15. LoopInv'
  <2>1. ASSUME NEW u \in calls
        PROVE  /\ InLoop(u)' => loop'[u].i < u.n /\ loop'[u].k < u.n /\ loop'[u].j < u.n
               /\ loop'[u].reg # NotLoaded => InLoop(u)' /\ loop'[u].reg = c'[Target(u)']
    <3>1. CASE u = t
      <4>1. m.i \in Nat
        BY <1>4 DEF Loop
      <4> QED BY <1>3, <1>4, <1>5, <1>8, <3>1, <4>1
    <3>2. CASE u # t
      <4>1. loop'[u] = loop[u] /\ (InLoop(u)' <=> InLoop(u)) /\ Target(u)' = Target(u)
        BY <1>5, <1>8, <3>2
      <4>2. ASSUME loop[u].reg # NotLoaded
            PROVE  InLoop(u) /\ loop[u].reg = c'[Target(u)]
        <5>1. InLoop(u) /\ loop[u].reg = c[Target(u)]
          BY <4>2 DEF LoopInv
        <5>2. Target(u) \in Cells /\ Target(u) # e
          BY <1>1, <3>2, <5>1, PlaceFacts, OneWriterInv DEF e
        <5> QED BY <1>6, <5>1, <5>2
      <4> QED BY <4>1, <4>2 DEF LoopInv
    <3> QED BY <3>1, <3>2
  <2> QED BY <1>1, <2>1 DEF LoopInv
<1>16. ASSUME NEW y \in 0 .. N-1, NEW z \in 0 .. N-1, NEW w \in 0 .. N-1
       PROVE  Promise!Product(y, z, w) \in summed'[<<y, w>>]
                <=> \E u \in calls' : Added(u, y, z, w)'
  <2>1. \A u \in calls : u # t => (Added(u, y, z, w)' <=> Added(u, y, z, w))
    BY <1>1, <1>5 DEF Added, Leaf, Rows, Inner, Columns
  <2>2. Added(t, y, z, w)' <=> Added(t, y, z, w) \/ (y = r /\ z = x /\ w = s)
    <3>1. CASE y \in Rows(t) /\ z \in Inner(t) /\ w \in Columns(t)
      <4>1. /\ y - t.c[1] \in 0 .. t.n-1 /\ z - t.a[2] \in 0 .. t.n-1
            /\ w - t.c[2] \in 0 .. t.n-1
        BY <1>3, <3>1, TaskFacts DEF Rows, Inner, Columns
      <4>2. Added(t, y, z, w) <=> Earlier(y - t.c[1], z - t.a[2], w - t.c[2], l)
        BY <1>3, <3>1 DEF Added, Earlier, l
      <4>3. Added(t, y, z, w)' <=> Earlier(y - t.c[1], z - t.a[2], w - t.c[2], m)
        BY <1>1, <1>3, <1>5, <3>1 DEF Added, Earlier, Leaf, Rows, Inner, Columns
      <4>4. /\ y - t.c[1] = l.i <=> y = r
            /\ z - t.a[2] = l.k <=> z = x
            /\ w - t.c[2] = l.j <=> w = s
        BY <1>3, TaskFacts DEF r, x, s
      <4> QED BY <1>4, <4>1, <4>2, <4>3, <4>4
    <3>2. CASE ~ (y \in Rows(t) /\ z \in Inner(t) /\ w \in Columns(t))
      BY <1>2, <3>2 DEF Added, Rows, Inner, Columns
    <3> QED BY <3>1, <3>2
  <2>3. (\E u \in calls' : Added(u, y, z, w)')
          <=> (\E u \in calls : Added(u, y, z, w)) \/ (y = r /\ z = x /\ w = s)
    BY <1>1, <2>1, <2>2
  <2>4. Promise!Product(y, z, w) \in summed'[<<y, w>>]
          <=> Promise!Product(y, z, w) \in summed[<<y, w>>] \/ (y = r /\ z = x /\ w = s)
    <3>1. <<y, w>> \in Cells
      BY DEF Cells
    <3>2. <<y, w>> = e <=> y = r /\ w = s
      BY <1>2
    <3>3. Promise!Product(y, z, w) = f <=> y = r /\ z = x /\ w = s
      BY DEF f, Promise!Product
    <3> QED BY <1>7, <3>1, <3>2, <3>3
  <2> QED BY <2>3, <2>4 DEF SumInv
<1>17. SumInv'
  <2>1. \A g \in Cells : summed'[g] \subseteq Promise!ProductsOf(g)
    BY <1>2, <1>7, <1>10 DEF SumInv
  <2>2. NothingLost'
    <3>1. IsFiniteSet(summed[e])
      BY <1>2, ProductsCount, FS_Subset DEF SumInv
    <3>2. Cardinality(summed'[e]) = Cardinality(summed[e]) + 1
      BY <1>7, <1>11, <3>1, FS_AddElement
    <3> QED BY <1>2, <1>6, <1>7, <3>2 DEF SumInv, NothingLost
  <2>3. ASSUME NEW u \in calls, Returned(u)' PROVE ShareDone(u)'
    <3>1. SUFFICES ASSUME NEW y \in Rows(u), NEW z \in Inner(u), NEW w \in Columns(u)
                   PROVE  Promise!Product(y, z, w) \in summed'[<<y, w>>]
      BY DEF ShareDone, Rows, Inner, Columns
    <3>2. y \in 0 .. N-1 /\ z \in 0 .. N-1 /\ w \in 0 .. N-1
      <4>1. u \in Task /\ Within(u, Root)
        BY DEF TypeOK, ProgramInv, Aligned
      <4>2. /\ u.c[1] + u.n =< N /\ u.c[2] + u.n =< N /\ u.a[2] + u.n =< N
        BY <4>1, SizeFacts, TaskFacts DEF Within, Root
      <4> QED BY <4>1, <4>2, TaskFacts, SizeFacts DEF Rows, Inner, Columns
    <3>3. CASE Returned(u)
      <4>1. Promise!Product(y, z, w) \in summed[<<y, w>>] /\ <<y, w>> \in Cells
        BY <3>2, <3>3 DEF SumInv, ShareDone, Cells
      <4> QED BY <1>7, <4>1
    <3>4. CASE ~ Returned(u)
      <4>1. u = t /\ m.i = t.n
        BY <1>8, <2>3, <3>4
      <4>2. Added(u, y, z, w)'
        BY <1>1, <1>3, <1>5, <3>1, <4>1, TaskFacts DEF Added, Leaf, Rows, Inner, Columns
      <4> QED BY <1>1, <1>16, <3>2, <4>2
    <3> QED BY <3>3, <3>4
  <2> QED BY <1>1, <1>16, <2>1, <2>2, <2>3 DEF SumInv
<1>18. VerdictInv'
  BY <1>1, <1>9 DEF VerdictInv, ProgramInv
<1> QED BY <1>12, <1>13, <1>14, <1>15, <1>17, <1>18

-----------------------------------------------------------------------------
(* When matmul() has returned to run_matmul(), every element is right.     *)
LEMMA RootDone ==
  ASSUME IInv, Returned(Root), NEW e \in Cells
  PROVE  summed[e] = Promise!ProductsOf(e) /\ c[e] = N
<1> USE DEF IInv
<1>1. ShareDone(Root)
  BY DEF ProgramInv, SumInv
<1>2. Rows(Root) = 0 .. N-1 /\ Inner(Root) = 0 .. N-1 /\ Columns(Root) = 0 .. N-1
  BY SizeFacts DEF Rows, Inner, Columns, Root
<1>3. e[1] \in 0 .. N-1 /\ e[2] \in 0 .. N-1 /\ e = <<e[1], e[2]>>
  BY DEF Cells
<1>4. \A x \in 0 .. N-1 : Promise!Product(e[1], x, e[2]) \in summed[e]
  BY <1>1, <1>2, <1>3 DEF ShareDone
<1>5. summed[e] = Promise!ProductsOf(e)
  BY <1>4 DEF SumInv, Promise!ProductsOf
<1> QED BY <1>5, ProductsCount DEF SumInv, NothingLost

LEMMA ValidateInv == IInv /\ Validate => IInv'
<1> SUFFICES ASSUME IInv, Validate PROVE IInv'
  OBVIOUS
<1> USE DEF IInv
<1>1. /\ calls' = calls /\ pc' = pc /\ loop' = loop /\ runtime' = runtime
      /\ c' = c /\ summed' = summed /\ Returned(Root)
  BY DEF Validate, callVars, matrixVars
<1>2. verdict' = "correct"
  BY <1>1, RootDone DEF Validate
<1>3. /\ \A u : (Returned(u)' <=> Returned(u)) /\ (InLoop(u)' <=> InLoop(u))
      /\ \A u : Target(u)' = Target(u) /\ Made(u)' = Made(u) /\ Waited(u)' = Waited(u)
      /\ \A u, r, x, s : Added(u, r, x, s)' <=> Added(u, r, x, s)
      /\ \A u : ShareDone(u)' <=> ShareDone(u)
  BY <1>1 DEF Returned, InLoop, Leaf, Target, Made, Waited, Added, ShareDone, Rows,
              Inner, Columns
<1>4. TypeOK'
  BY <1>1, <1>2 DEF TypeOK
<1>5. ProgramInv'
  BY <1>1, <1>3 DEF ProgramInv
<1>6. TreeInv'
  BY <1>1, <1>3, TreeKept
<1>7. LoopInv'
  BY <1>1, <1>3 DEF LoopInv
<1>8. SumInv'
  BY <1>1, <1>3 DEF SumInv, NothingLost
<1>9. VerdictInv'
  BY <1>1, <1>2, <1>3 DEF VerdictInv
<1> QED BY <1>4, <1>5, <1>6, <1>7, <1>8, <1>9

LEMMA StutterInv == IInv /\ UNCHANGED vars => IInv'
<1> SUFFICES ASSUME IInv, UNCHANGED vars PROVE IInv'
  OBVIOUS
<1> USE DEF IInv
<1>1. /\ calls' = calls /\ pc' = pc /\ loop' = loop /\ runtime' = runtime
      /\ c' = c /\ summed' = summed /\ verdict' = verdict
  BY DEF vars, callVars, matrixVars
<1>2. /\ \A u : (Returned(u)' <=> Returned(u)) /\ (InLoop(u)' <=> InLoop(u))
      /\ \A u : Target(u)' = Target(u) /\ Made(u)' = Made(u) /\ Waited(u)' = Waited(u)
      /\ \A u, r, x, s : Added(u, r, x, s)' <=> Added(u, r, x, s)
      /\ \A u : ShareDone(u)' <=> ShareDone(u)
  BY <1>1 DEF Returned, InLoop, Leaf, Target, Made, Waited, Added, ShareDone, Rows,
              Inner, Columns
<1>3. TypeOK'
  BY <1>1 DEF TypeOK
<1>4. ProgramInv'
  BY <1>1, <1>2 DEF ProgramInv
<1>5. TreeInv'
  BY <1>1, <1>2, TreeKept
<1>6. LoopInv'
  BY <1>1, <1>2 DEF LoopInv
<1>7. SumInv'
  BY <1>1, <1>2 DEF SumInv, NothingLost
<1>8. VerdictInv'
  BY <1>1, <1>2 DEF VerdictInv
<1> QED BY <1>3, <1>4, <1>5, <1>6, <1>7, <1>8

LEMMA NextInv == IInv /\ [Next]_vars => IInv'
<1> SUFFICES ASSUME IInv, [Next]_vars PROVE IInv'
  OBVIOUS
<1>1. CASE \E t \in calls : Step(t)
  BY <1>1, ForkInv, AwaitInv, LoadInv, StoreInv DEF Step
<1>2. CASE Validate
  BY <1>2, ValidateInv
<1>3. CASE UNCHANGED vars
  BY <1>3, StutterInv
<1> QED BY <1>1, <1>2, <1>3 DEF Next, Stopped

(* The inductive invariant holds in every reachable state, for every size  *)
(* of the matrices and of the base case and in each of the programs.       *)
THEOREM Invariance == Spec => []IInv
BY InitInv, NextInv, PTL DEF Spec

-----------------------------------------------------------------------------
(* Every variable keeps its type: no pointer leaves its matrix, whatever   *)
(* the depth of the recursion.                                             *)
THEOREM TypeCorrect == Spec => []TypeOK
<1>1. IInv => TypeOK
  BY DEF IInv
<1> QED BY <1>1, Invariance, PTL

(* The sections suffice: no two calls in matmul_small() share an element   *)
(* of c.                                                                   *)
THEOREM SectionsSuffice == Spec => []OneWriter
<1>1. IInv => OneWriter
  <2> SUFFICES ASSUME IInv, NEW t \in calls, NEW u \in calls,
                      InLoop(t), InLoop(u), t # u
               PROVE  Rows(t) \cap Rows(u) = {} \/ Columns(t) \cap Columns(u) = {}
    BY DEF OneWriter
  <2>1. t \in Task /\ u \in Task
    BY DEF IInv, TypeOK
  <2>2. Apart(t, u)
    BY OneWriterInv
  <2> QED BY <2>1, <2>2, TaskFacts DEF Apart, Rows, Columns
<1> QED BY <1>1, Invariance, PTL

(* No addition to an element of c is lost, though it is a load and a store *)
(* with nothing to keep other threads out between them.                    *)
THEOREM NoLostUpdate == Spec => []NothingLost
<1>1. IInv => NothingLost
  BY DEF IInv, SumInv
<1> QED BY <1>1, Invariance, PTL

(* Each element sums products of its own row and column only, and when the *)
(* result is validated, all of them.                                       *)
THEOREM ProductsAreRight == Spec => []RightProducts
<1>1. IInv => RightProducts
  <2> SUFFICES ASSUME IInv, NEW e \in Cells
               PROVE  /\ summed[e] \subseteq Promise!ProductsOf(e)
                      /\ verdict # "running" => summed[e] = Promise!ProductsOf(e)
    BY DEF RightProducts
  <2>1. summed[e] \subseteq Promise!ProductsOf(e)
    BY DEF IInv, SumInv
  <2>2. verdict # "running" => Returned(Root)
    BY DEF IInv, VerdictInv
  <2> QED BY <2>1, <2>2, RootDone
<1> QED BY <1>1, Invariance, PTL

(* When a call of matmul() returns, its part of the result is complete and *)
(* no call below it still runs.                                            *)
THEOREM ReturnsWhenDone == Spec => []ReturnMeansDone
<1>1. IInv => ReturnMeansDone
  <2> SUFFICES ASSUME IInv, NEW t \in calls, Returned(t)
               PROVE  ShareDone(t) /\ \A u \in calls : Inside(u, t) => Returned(u)
    BY DEF ReturnMeansDone
  <2>1. ShareDone(t)
    BY DEF IInv, SumInv
  <2>2. ASSUME NEW u \in calls, Inside(u, t) PROVE Returned(u)
    <3>1. t \in Task /\ u \in Task
      BY DEF IInv, TypeOK
    <3>2. Within(u, t)
      BY <2>2, <3>1, InsideWithin
    <3> QED BY <3>2 DEF IInv, TreeInv
  <2> QED BY <2>1, <2>2
<1> QED BY <1>1, Invariance, PTL

(* validate_result() never ends the program: c is N in every element.      *)
THEOREM ResultIsRight == Spec => []NoWrongResult
<1>1. IInv => NoWrongResult
  BY DEF IInv, VerdictInv, NoWrongResult
<1> QED BY <1>1, Invariance, PTL

-----------------------------------------------------------------------------
(* The promise speaks of the same elements.                                *)
LEMMA SameCells == Promise!Cells = Cells
BY DEF Promise!Cells, Cells

(* While a call is in its loops, matmul() has not returned to              *)
(* run_matmul(), and nothing has been validated.                           *)
LEMMA StillRunning ==
  ASSUME IInv, NEW t \in calls, InLoop(t)
  PROVE  verdict = "running"
<1>1. Root \in calls /\ Within(t, Root) /\ ~ Returned(t)
  BY DEF IInv, ProgramInv, Aligned, InLoop
<1>2. ~ Returned(Root)
  BY <1>1 DEF IInv, TreeInv
<1> QED BY <1>2 DEF IInv, VerdictInv

(* A store adds a product to the promise's sums, the validation is the     *)
(* promise's, and no other step changes what the promise speaks of.        *)
LEMMA StepRefines == IInv /\ [Next]_vars => [Promise!Next]_(Promise!promiseVars)
<1> SUFFICES ASSUME IInv, [Next]_vars
             PROVE  Promise!Next \/ UNCHANGED <<summed, verdict>>
  BY DEF Promise!promiseVars
<1>1. CASE UNCHANGED vars
  BY <1>1 DEF vars, matrixVars
<1>2. ASSUME NEW t \in calls, ForkCalls(t) \/ AwaitCalls(t) \/ Load(t)
      PROVE  UNCHANGED <<summed, verdict>>
  BY <1>2 DEF ForkCalls, AwaitCalls, Load, matrixVars
<1>3. ASSUME NEW t \in calls, Store(t) PROVE Promise!Next
  <2> DEFINE e == Target(t)
             f == Factors(t)
  <2>1. /\ InLoop(t) /\ verdict' = verdict
        /\ summed' = [summed EXCEPT ![e] = @ \cup {f}]
    BY <1>3 DEF Store
  <2>2. e \in Cells /\ f \notin summed[e] /\ verdict = "running"
    BY <2>1, PlaceFacts, NewProduct, StillRunning
  <2>3. f \in Promise!ProductsOf(e)
    BY <2>1, PlaceFacts DEF Promise!ProductsOf
  <2> HIDE DEF e, f
  <2>4. Promise!Add(e)
    BY <2>1, <2>2, <2>3 DEF Promise!Add
  <2> QED BY <2>2, <2>4, SameCells DEF Promise!Next
<1>4. CASE Validate
  <2>1. verdict = "running" /\ Returned(Root) /\ summed' = summed
    BY <1>4 DEF Validate, matrixVars
  <2>2. \A e \in Cells : summed[e] = Promise!ProductsOf(e) /\ c[e] = N
    BY <2>1, RootDone
  <2>3. verdict' = "correct"
    BY <1>4, <2>2 DEF Validate
  <2>4. Promise!Validate
    BY <2>1, <2>2, <2>3, SameCells DEF Promise!Validate
  <2> QED BY <2>4 DEF Promise!Next
<1> QED BY <1>1, <1>2, <1>3, <1>4 DEF Next, Step, Stopped

(* Every program implements the promise of a matrix multiplication.        *)
THEOREM Refinement == Spec => PromiseSpec
<1>1. Init => Promise!Init
  BY SameCells DEF Init, Promise!Init
<1> QED BY <1>1, StepRefines, Invariance, PTL DEF Spec, PromiseSpec, Promise!Spec
=============================================================================
