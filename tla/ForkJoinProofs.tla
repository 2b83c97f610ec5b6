---------------------------- MODULE ForkJoinProofs ----------------------------
(***************************************************************************)
(* In each of the eleven nqueens.cpp programs, and for every number of     *)
(* queens, each call searches the board it was made for, no call outlives  *)
(* the one that made it, and all solutions have been found when main() has *)
(* its result.  In every fib.cpp and skynet.cpp program, for any number of *)
(* calls that a call makes, no call outlives the frame that its result     *)
(* goes to, and every result delivered is the right one.                   *)
(***************************************************************************)
EXTENDS NQueens, FiniteSetTheorems, WellFoundedInduction, TLAPS

-----------------------------------------------------------------------------
(* Names of calls.                                                         *)
LEMMA NFacts == N \in Nat /\ N > 0
BY NAssumption

LEMMA ChildName ==
  ASSUME NEW t \in Seq(Columns), NEW y \in Columns
  PROVE  /\ Append(t, y) \in Seq(Columns)
         /\ Len(t) \in Nat
         /\ Len(Append(t, y)) = Len(t) + 1
         /\ Append(t, y) # Root /\ Append(t, y) # t
         /\ Parent(Append(t, y)) = t
         /\ Append(t, y)[Len(t) + 1] = y
         /\ \A i \in 1 .. Len(t) : Append(t, y)[i] = t[i]
<1>1. /\ Append(t, y) \in Seq(Columns) /\ Len(t) \in Nat
      /\ Len(Append(t, y)) = Len(t) + 1
      /\ Append(t, y)[Len(t) + 1] = y
      /\ \A i \in 1 .. Len(t) : Append(t, y)[i] = t[i]
  OBVIOUS
<1>2. Append(t, y) # t /\ Append(t, y) # Root
  BY <1>1 DEF Root
<1>3. SubSeq(Append(t, y), 1, Len(t)) = t
  BY <1>1
<1>4. Len(Append(t, y)) - 1 = Len(t)
  BY <1>1
<1>5. Parent(Append(t, y)) = t
  BY <1>3, <1>4 DEF Parent
<1> QED BY <1>1, <1>2, <1>5

LEMMA ParentName ==
  ASSUME NEW t \in Seq(Columns), t # Root
  PROVE  /\ Len(t) \in Nat /\ Len(t) > 0 /\ t[Len(t)] \in Columns
         /\ Parent(t) \in Seq(Columns) /\ Parent(t) # t
         /\ Len(Parent(t)) = Len(t) - 1
         /\ \A i \in 1 .. Len(t) - 1 : Parent(t)[i] = t[i]
         /\ t = Append(Parent(t), t[Len(t)])
<1>1. Len(t) \in Nat /\ Len(t) > 0
  BY DEF Root
<1>2. /\ Parent(t) \in Seq(Columns) /\ Len(Parent(t)) = Len(t) - 1
      /\ \A i \in 1 .. Len(t) - 1 : Parent(t)[i] = t[i]
  <2> DEFINE n == Len(t) - 1
  <2>1. n \in Nat /\ n =< Len(t)
    BY <1>1
  <2>2. /\ SubSeq(t, 1, n) \in Seq(Columns) /\ Len(SubSeq(t, 1, n)) = n
        /\ \A i \in 1 .. n : SubSeq(t, 1, n)[i] = t[i]
    <3> HIDE DEF n
    <3> QED BY <2>1
  <2> QED BY <2>2 DEF Parent
<1>3. t[Len(t)] \in Columns
  BY <1>1
<1>4. t = Append(Parent(t), t[Len(t)])
  BY <1>1, <1>2, <1>3
<1> QED BY <1>1, <1>2, <1>3, <1>4

(* A call for which the board is not copied at once lists its columns.     *)
LEMMA Kinds ==
  ASSUME program \in Programs
  PROVE  how.copy = "made" \/ how.columns = "listed"
<1>1. program \in DOMAIN How
  BY ProgramsAssumption
<1>2. DOMAIN How = {"TooManyCooks", "coros", "cppcoro", "folly", "libcoro", "HPX",
                    "concurrencpp", "libfork", "taskflow", "tbb", "citor"}
  BY DEF How
<1> USE DEF how, How, Program
<1>3. CASE program \in {"TooManyCooks", "coros", "cppcoro", "folly", "libcoro"}
  BY <1>3 DEF TooManyCooks, coros, cppcoro, folly, libcoro
<1>4. CASE program \in {"HPX", "concurrencpp", "libfork", "taskflow"}
  BY <1>4 DEF HPX, concurrencpp, libfork, taskflow
<1>5. CASE program = "tbb"
  BY <1>5 DEF tbb
<1>6. CASE program = "citor"
  BY <1>6 DEF citor
<1> QED BY <1>1, <1>2, <1>3, <1>4, <1>5, <1>6
-----------------------------------------------------------------------------
(* Boards.                                                                 *)

(* A queen that is legal in the next row makes a legal board.              *)
LEMMA LegalStep ==
  ASSUME NEW b \in Boards, NEW t \in Seq(Columns), Len(t) < N, NEW y \in Columns,
         \A x \in 0 .. Len(t) - 1 : b[x] = t[x + 1],
         LegalInv(t),
         Legal(b, Len(t), y)
  PROVE  LegalInv(Append(t, y))
<1> DEFINE u == Append(t, y)
<1>0. Len(u) = Len(t) + 1 /\ Len(t) \in Nat /\ u[Len(t) + 1] = y
      /\ \A i \in 1 .. Len(t) : u[i] = t[i]
  BY ChildName
<1> SUFFICES ASSUME NEW i \in 1 .. Len(u), NEW j \in 1 .. Len(u), i < j
             PROVE  ~ Attacks(u, i, j)
  BY DEF LegalInv
<1> HIDE DEF u
<1>1. CASE j =< Len(t)
  <2>1. i \in 1 .. Len(t) /\ j \in 1 .. Len(t)
    BY <1>0, <1>1
  <2>2. u[i] = t[i] /\ u[j] = t[j] /\ ~ Attacks(t, i, j)
    BY <1>0, <2>1 DEF LegalInv
  <2> QED BY <2>2 DEF Attacks
<1>2. CASE j = Len(t) + 1
  <2>1. i \in 1 .. Len(t) /\ i - 1 \in 0 .. Len(t) - 1
    BY <1>0, <1>2
  <2>2. b[i - 1] = t[i] /\ u[i] = t[i] /\ u[j] = y
    BY <1>0, <1>2, <2>1
  <2>3. y # b[i - 1] /\ y # b[i - 1] - (Len(t) - (i - 1)) /\ y # b[i - 1] + (Len(t) - (i - 1))
    BY <2>1 DEF Legal
  <2>4. t[i] \in Int
    BY <2>1, NFacts DEF Columns
  <2> QED BY <1>0, <1>2, <2>1, <2>2, <2>3, <2>4 DEF Attacks
<1> QED BY <1>0, <1>1, <1>2

(* What a loop tests depends on the rows above only.                       *)
LEMMA LegalSame ==
  ASSUME NEW b, NEW c, NEW n \in Nat, NEW y,
         \A x \in 0 .. n-1 : b[x] = c[x]
  PROVE  Legal(b, n, y) <=> Legal(c, n, y)
BY DEF Legal

LEMMA SolutionFacts ==
  ASSUME NEW b
  PROVE  b \in Solutions <=> b \in Boards /\ queens_ok(N, b)
BY DEF Solutions

(* The solutions below a call have their next queen in a column that its   *)
(* loop accepts.                                                           *)
LEMMA SolutionStep ==
  ASSUME NEW b \in Boards, NEW t \in Seq(Columns), Len(t) < N,
         \A x \in 0 .. Len(t) - 1 : b[x] = t[x + 1],
         NEW s \in SolutionsBelow(t)
  PROVE  /\ s[Len(t)] \in Columns
         /\ Legal(b, Len(t), s[Len(t)])
         /\ s \in SolutionsBelow(Append(t, s[Len(t)]))
<1>0. Len(t) \in Nat /\ N \in Nat /\ N > 0
  BY NFacts
<1>1. s \in Boards /\ queens_ok(N, s) /\ s \in Solutions
  BY SolutionFacts DEF SolutionsBelow
<1>2. \A x \in 0 .. Len(t) - 1 : s[x] = t[x + 1]
  BY DEF SolutionsBelow
<1>3. s[Len(t)] \in Columns
  BY <1>0, <1>1 DEF Boards, Rows
<1>4. ASSUME NEW x \in 0 .. Len(t) - 1
      PROVE  LET y == s[Len(t)]
             IN  y # b[x] /\ y # b[x] - (Len(t) - x) /\ y # b[x] + (Len(t) - x)
  <2>1. x \in 0 .. N-1 /\ Len(t) \in 0 .. N-1 /\ x < Len(t)
    BY <1>0
  <2>2. ~ Attacks(s, x, Len(t))
    BY <1>1, <2>1 DEF queens_ok
  <2>3. s[x] = b[x]
    BY <1>2
  <2> QED BY <2>2, <2>3 DEF Attacks
<1>5. Legal(b, Len(t), s[Len(t)])
  BY <1>4 DEF Legal
<1>6. s \in SolutionsBelow(Append(t, s[Len(t)]))
  <2> DEFINE u == Append(t, s[Len(t)])
  <2>1. Len(u) = Len(t) + 1 /\ u[Len(t) + 1] = s[Len(t)]
        /\ \A i \in 1 .. Len(t) : u[i] = t[i]
    BY <1>3, ChildName
  <2> HIDE DEF u
  <2>2. ASSUME NEW x \in 0 .. Len(u) - 1
        PROVE  s[x] = u[x + 1]
    <3>1. CASE x = Len(t)
      BY <2>1, <3>1
    <3>2. CASE x # Len(t)
      <4>1. x \in 0 .. Len(t) - 1 /\ x + 1 \in 1 .. Len(t)
        BY <1>0, <2>1, <3>2
      <4> QED BY <1>2, <2>1, <4>1
    <3> QED BY <3>1, <3>2
  <2>3. s \in SolutionsBelow(u)
    BY <1>1, <2>2 DEF SolutionsBelow
  <2> QED BY <2>3 DEF u
<1> QED BY <1>3, <1>5, <1>6

(* The board of a call that has placed all queens is the only solution     *)
(* below it.                                                               *)
LEMMA SolutionLeaf ==
  ASSUME NEW b \in Boards, NEW t \in Seq(Columns), Len(t) = N,
         \A x \in 0 .. Len(t) - 1 : b[x] = t[x + 1],
         LegalInv(t)
  PROVE  b \in Solutions /\ SolutionsBelow(t) \subseteq {b}
<1>0. N \in Nat /\ N > 0
  BY NFacts
<1>1. ASSUME NEW i \in 0 .. N-1, NEW j \in 0 .. N-1, i < j
      PROVE  ~ Attacks(b, i, j)
  <2>1. i + 1 \in 1 .. Len(t) /\ j + 1 \in 1 .. Len(t) /\ i + 1 < j + 1
    BY <1>0, <1>1
  <2>2. ~ Attacks(t, i + 1, j + 1)
    BY <2>1 DEF LegalInv
  <2>3. b[i] = t[i + 1] /\ b[j] = t[j + 1] /\ (j + 1) - (i + 1) = j - i
    OBVIOUS
  <2> QED BY <2>2, <2>3 DEF Attacks
<1>2. b \in Solutions
  BY <1>1, SolutionFacts DEF queens_ok
<1>3. ASSUME NEW s \in SolutionsBelow(t)
      PROVE  s = b
  <2>1. s \in Boards /\ \A x \in 0 .. N-1 : s[x] = t[x + 1]
    BY SolutionFacts DEF SolutionsBelow
  <2>2. \A x \in Rows : s[x] = b[x]
    BY <2>1 DEF Rows
  <2> QED BY <2>1, <2>2 DEF Boards
<1> QED BY <1>2, <1>3
-----------------------------------------------------------------------------
(* The inductive invariant holds initially and is kept by each action.     *)

LEMMA CallFacts ==
  ASSUME SearchInv, NEW t \in calls
  PROVE  /\ t \in Seq(Columns) /\ Len(t) \in Nat /\ Len(t) =< N
         /\ frame[t] \in Frame
         /\ CallInv(t) /\ LegalInv(t) /\ BoardInv(t) /\ LoopInv(t) /\ FoundInv(t)
BY DEF SearchInv, TypeOK

LEMMA InitSearch == Init => SearchInv
<1> SUFFICES ASSUME Init PROVE SearchInv
  OBVIOUS
<1>0. N \in Nat /\ N > 0
  BY NFacts
<1>1. calls = {Root} /\ frame[Root] = NewFrame(Blank, 0) /\ Len(Root) = 0 /\ Root \in Seq(Columns)
  BY DEF Init, calls, Root
<1>2. Blank \in Boards /\ 0 \in Columns
  BY <1>0 DEF Blank, Boards, Rows, Columns
<1>3. frame[Root] \in Frame
  BY <1>0, <1>1, <1>2 DEF NewFrame, Frame
<1>4. frame[Root].phase # "returned" /\ frame[Root].ys = Columns /\ frame[Root].taskCount = 0
  BY <1>1 DEF NewFrame
<1>5. TypeOK
  BY <1>0, <1>1, <1>3 DEF TypeOK, Init
<1>6. CallInv(Root) /\ LegalInv(Root) /\ BoardInv(Root) /\ FoundInv(Root)
  BY <1>1, <1>4 DEF CallInv, LegalInv, BoardInv, FoundInv, Returned
<1>7. LoopInv(Root)
  BY <1>4 DEF LoopInv, Columns
<1>8. found \subseteq Solutions /\ FramesOutlive
  BY <1>1, <1>4 DEF found, Returned, FramesOutlive
<1> QED BY <1>1, <1>5, <1>6, <1>7, <1>8 DEF SearchInv

(* A call that begins has its own board.                                   *)
LEMMA OwnStart ==
  ASSUME SearchInv, NEW t \in calls
  PROVE  /\ StartBoard(t) \in Boards
         /\ \A x \in 0 .. Len(t) - 1 : how.copy = "made" \/ frame[t].phase = "made" =>
              StartBoard(t)[x] = t[x + 1]
<1>0. t \in Seq(Columns) /\ Len(t) \in Nat /\ Len(t) =< N /\ frame[t] \in Frame /\ N \in Nat
  BY CallFacts, NFacts
<1>1. frame[t].buf \in Boards
  BY <1>0 DEF Frame
<1>2. CASE how.copy = "made"
  <2>1. StartBoard(t) = frame[t].buf
    BY <1>2 DEF StartBoard
  <2>2. BoardInv(t)
    BY CallFacts
  <2> QED BY <1>1, <1>2, <2>1, <2>2 DEF BoardInv
<1>3. CASE t = Root
  BY <1>1, <1>3 DEF StartBoard, Root
<1>4. CASE how.copy # "made" /\ t # Root
  <2> DEFINE p == Parent(t)
  <2>1. /\ Len(t) > 0 /\ t[Len(t)] \in Columns /\ p \in Seq(Columns)
        /\ Len(p) = Len(t) - 1 /\ \A i \in 1 .. Len(t) - 1 : p[i] = t[i]
    BY <1>0, <1>4, ParentName
  <2>2. p \in calls /\ frame[p].phase # "made"
    BY <1>4, CallFacts DEF CallInv
  <2> HIDE DEF p
  <2>3. BoardInv(p) /\ frame[p] \in Frame
    BY <2>2, CallFacts
  <2>4. \A x \in 0 .. Len(p) - 1 : frame[p].buf[x] = p[x + 1]
    BY <2>2, <2>3 DEF BoardInv
  <2>5. frame[p].buf \in [Rows -> Columns]
    BY <2>3 DEF Frame, Boards
  <2>6. StartBoard(t) = [frame[p].buf EXCEPT ![Len(t) - 1] = t[Len(t)]]
    BY <1>4 DEF StartBoard, p
  <2>7. Len(t) - 1 \in Rows
    BY <1>0, <2>1 DEF Rows
  <2>8. StartBoard(t) \in Boards
    BY <2>1, <2>5, <2>6, <2>7 DEF Boards
  <2>9. ASSUME NEW x \in 0 .. Len(t) - 1
        PROVE  StartBoard(t)[x] = t[x + 1]
    <3>1. CASE x = Len(t) - 1
      <4>1. StartBoard(t)[Len(t) - 1] = t[Len(t)]
        BY <2>5, <2>6, <2>7
      <4>2. (Len(t) - 1) + 1 = Len(t)
        BY <1>0
      <4> QED BY <3>1, <4>1, <4>2
    <3>2. CASE x # Len(t) - 1
      <4>1. x \in 0 .. Len(p) - 1 /\ x \in Rows /\ x + 1 \in 1 .. Len(t) - 1
        BY <1>0, <2>1, <3>2 DEF Rows
      <4>2. StartBoard(t)[x] = frame[p].buf[x]
        BY <2>5, <2>6, <3>2, <4>1
      <4> QED BY <2>1, <2>4, <4>1, <4>2
    <3> QED BY <3>1, <3>2
  <2> QED BY <2>8, <2>9
<1> QED BY <1>2, <1>3, <1>4

LEMMA ListColumnsStep ==
  ASSUME SearchInv, NEW t, ListColumns(t)
  PROVE  SearchInv'
<1>0. N \in Nat /\ N > 0
  BY NFacts
<1> DEFINE b == StartBoard(t)
<1>1. /\ t \in calls /\ frame[t].phase = "made" /\ program' = program /\ values' = values
      /\ frame' = [frame EXCEPT ![t].phase = "loop", ![t].buf = b,
                                ![t].ys = LegalColumns(b, Len(t))]
      /\ verdict' = verdict
  BY DEF ListColumns
<1>2. /\ t \in Seq(Columns) /\ Len(t) \in Nat /\ Len(t) =< N
      /\ frame[t] \in Frame /\ CallInv(t) /\ LegalInv(t) /\ LoopInv(t)
  BY <1>1, CallFacts
<1>3. b \in Boards /\ \A x \in 0 .. Len(t) - 1 : b[x] = t[x + 1]
  BY <1>1, OwnStart
<1> HIDE DEF b
<1>4. calls' = calls /\ how' = how
  BY <1>1 DEF calls, how
<1>5. /\ \A v \in calls : v # t => frame'[v] = frame[v]
      /\ frame'[t] = [phase |-> "loop", buf |-> b, ys |-> LegalColumns(b, Len(t)),
                      taskCount |-> frame[t].taskCount, idx |-> frame[t].idx]
  BY <1>1, <1>2 DEF calls, Frame
<1>6. LegalColumns(b, Len(t)) \subseteq Columns
  BY DEF LegalColumns
<1>7. frame'[t] \in Frame
  BY <1>2, <1>3, <1>5, <1>6 DEF Frame
<1>8. TypeOK'
  BY <1>1, <1>4, <1>5, <1>7 DEF SearchInv, TypeOK
<1>9. \A v \in calls : Returned(v)' <=> Returned(v)
  <2> SUFFICES ASSUME NEW v \in calls PROVE Returned(v)' <=> Returned(v)
    OBVIOUS
  <2>1. CASE v = t
    BY <1>1, <1>4, <1>5, <2>1 DEF Returned
  <2>2. CASE v # t
    BY <1>4, <1>5, <2>2 DEF Returned
  <2> QED BY <2>1, <2>2
<1>10. \A v \in calls : Returned(v) => frame'[v] = frame[v]
  BY <1>1, <1>5 DEF Returned
<1>11. found' = found
  BY <1>4, <1>9, <1>10 DEF found, Leaf
<1>12. ASSUME NEW v \in calls
       PROVE  /\ CallInv(v)' /\ LegalInv(v)' /\ BoardInv(v)' /\ LoopInv(v)' /\ FoundInv(v)'
  <2>0. /\ CallInv(v) /\ LegalInv(v) /\ BoardInv(v) /\ LoopInv(v) /\ FoundInv(v)
    BY CallFacts
  <2>1. CallInv(v)'
    <3>1. v # Root => Parent(v) # t
      BY <1>1, <2>0 DEF CallInv
    <3> QED BY <1>4, <1>5, <2>0, <3>1 DEF CallInv
  <2>2. LegalInv(v)'
    BY <2>0 DEF LegalInv
  <2>3. CASE v = t
    <3>1. BoardInv(v)'
      BY <1>3, <1>5, <2>3 DEF BoardInv
    <3>2. LoopInv(v)'
      <4>1. frame'[t].buf = b /\ frame'[t].ys = LegalColumns(b, Len(t))
            /\ frame'[t].taskCount = 0 /\ frame'[t].phase # "made"
        BY <1>1, <1>2, <1>5 DEF LoopInv
      <4>2. \A y \in frame'[t].ys : frame'[t].taskCount =< y
        BY <1>6, <4>1 DEF Columns
      <4>3. \A y \in Columns \ frame'[t].ys : ~ Legal(frame'[t].buf, Len(t), y)
        BY <4>1 DEF LegalColumns
      <4> QED BY <2>3, <4>1, <4>2, <4>3 DEF LoopInv
    <3>3. FoundInv(v)'
      BY <1>5, <2>3 DEF FoundInv, Returned
    <3> QED BY <2>1, <2>2, <3>1, <3>2, <3>3
  <2>4. CASE v # t
    <3>1. frame'[v] = frame[v]
      BY <1>5, <2>4
    <3>2. BoardInv(v)'
      BY <1>4, <2>0, <3>1 DEF BoardInv
    <3>3. LoopInv(v)'
      BY <1>4, <2>0, <3>1 DEF LoopInv
    <3>4. FoundInv(v)'
      BY <1>9, <1>11, <2>0 DEF FoundInv, SolutionsBelow
    <3> QED BY <2>1, <2>2, <3>2, <3>3, <3>4
  <2> QED BY <2>3, <2>4
<1>13. FramesOutlive'
  <2>1. \A v \in calls : v # Root => Parent(v) \in calls
    BY CallFacts DEF CallInv
  <2> QED BY <1>4, <1>9, <2>1 DEF FramesOutlive, SearchInv
<1> QED BY <1>4, <1>8, <1>11, <1>12, <1>13 DEF SearchInv

LEMMA MakeCallStep ==
  ASSUME SearchInv, NEW t, MakeCall(t)
  PROVE  SearchInv'
<1>0. N \in Nat /\ N > 0
  BY NFacts
<1>1. t \in calls /\ frame[t].phase = "loop" /\ ~ Leaf(t)
  BY DEF MakeCall, Looping
<1>2. PICK y \in Remaining(t) :
        (\A z \in Remaining(t) : y =< z) /\ MakeCallFor(t, y)
  BY DEF MakeCall
<1>3. /\ t \in Seq(Columns) /\ Len(t) \in Nat /\ Len(t) < N /\ Len(t) \in Rows
      /\ frame[t] \in Frame /\ CallInv(t) /\ LegalInv(t) /\ BoardInv(t) /\ LoopInv(t)
  BY <1>0, <1>1, CallFacts DEF Leaf, Rows
<1>4. y \in Columns /\ y \in frame[t].ys /\ Legal(frame[t].buf, Len(t), y)
  BY DEF Remaining, LegalColumns
<1> DEFINE u == Append(t, y)
           b == IF how.copy = "made" THEN [frame[t].buf EXCEPT ![Len(t)] = y]
                                     ELSE frame[t].buf
<1>5. /\ u \in Seq(Columns) /\ Len(u) = Len(t) + 1 /\ u # Root /\ u # t /\ Parent(u) = t
      /\ u[Len(u)] = y /\ \A i \in 1 .. Len(t) : u[i] = t[i]
  BY <1>3, <1>4, ChildName
<1>6. /\ frame' = [v \in calls \cup {u} |->
           CASE v = t -> [frame[t] EXCEPT !.buf = b,
                                          !.ys = {z \in @ : z > y},
                                          !.taskCount = @ + 1]
             [] v = u -> NewFrame(b, Place(frame[t]))
             [] OTHER -> frame[v]]
      /\ values' = [v \in calls \cup {u} |-> IF v = u THEN NewValues ELSE values[v]]
      /\ program' = program /\ verdict' = verdict
  BY <1>2 DEF MakeCallFor
<1>7. /\ b \in Boards
      /\ \A x \in 0 .. Len(t) - 1 : b[x] = frame[t].buf[x]
      /\ how.copy = "made" => b[Len(t)] = y
  <2>1. frame[t].buf \in [Rows -> Columns]
    BY <1>3 DEF Frame, Boards
  <2>2. \A x \in 0 .. Len(t) - 1 : x # Len(t) /\ x \in Rows
    BY <1>0, <1>3 DEF Rows
  <2> QED BY <1>3, <1>4, <2>1, <2>2 DEF Boards
<1> HIDE DEF u, b
<1>8. u \notin calls
  <2>1. SUFFICES ASSUME u \in calls PROVE FALSE
    OBVIOUS
  <2>2. CallInv(u)
    BY <2>1, CallFacts
  <2> QED BY <1>4, <1>5, <2>2 DEF CallInv
<1>9. calls' = calls \cup {u} /\ how' = how
  BY <1>6 DEF calls, how
<1>10. /\ \A v \in calls : v # t => frame'[v] = frame[v]
       /\ frame'[u] = NewFrame(b, frame[t].taskCount)
       /\ frame'[t] = [phase |-> "loop", buf |-> b, ys |-> {z \in frame[t].ys : z > y},
                       taskCount |-> frame[t].taskCount + 1, idx |-> frame[t].idx]
  <2>1. /\ frame'[u] = NewFrame(b, Place(frame[t]))
        /\ frame'[t] = [frame[t] EXCEPT !.buf = b, !.ys = {z \in @ : z > y},
                                        !.taskCount = @ + 1]
    BY <1>1, <1>5, <1>6
  <2>2. \A v \in calls : v # t => frame'[v] = frame[v]
    BY <1>6, <1>8
  <2> QED BY <1>1, <1>3, <2>1, <2>2 DEF Place, Frame
<1>11. /\ frame[t].taskCount \in Nat /\ frame[t].taskCount =< y /\ y < N /\ y \in Nat
       /\ frame[t].ys \subseteq Columns /\ frame[t].idx \in Columns
  BY <1>0, <1>3, <1>4 DEF LoopInv, Frame, Columns
<1>12. frame'[t] \in Frame
  BY <1>0, <1>7, <1>10, <1>11 DEF Frame
<1>13. frame'[u] \in Frame
  BY <1>0, <1>7, <1>10, <1>11 DEF Frame, NewFrame, Columns
<1>14. TypeOK'
  <2>1. ASSUME NEW v \in calls'
        PROVE  v \in Seq(Columns) /\ Len(v) =< N /\ frame'[v] \in Frame
    <3>1. CASE v = u
      <4>1. Len(u) =< N
        BY <1>0, <1>3, <1>5
      <4> QED BY <1>5, <1>13, <3>1, <4>1
    <3>2. CASE v = t
      BY <1>0, <1>3, <1>12, <3>2
    <3>3. CASE v \in calls /\ v # t
      <4>1. v \in Seq(Columns) /\ Len(v) =< N /\ frame[v] \in Frame
        BY <3>3, CallFacts
      <4> QED BY <1>10, <3>3, <4>1
    <3> QED BY <1>9, <3>1, <3>2, <3>3
  <2> QED BY <1>6, <1>9, <2>1 DEF SearchInv, TypeOK
<1>15. /\ ~ Returned(u)'
       /\ \A v \in calls : Returned(v)' <=> Returned(v)
       /\ \A v \in calls : Returned(v) => frame'[v] = frame[v]
  <2>1. ~ Returned(u)'
    BY <1>10 DEF Returned, NewFrame
  <2>2. ~ Returned(t) /\ ~ Returned(t)'
    BY <1>1, <1>10 DEF Returned
  <2>3. \A v \in calls : v # t => (Returned(v)' <=> Returned(v)) /\ frame'[v] = frame[v]
    BY <1>9, <1>10 DEF Returned
  <2> QED BY <2>1, <2>2, <2>3
<1>16. found' = found
  BY <1>9, <1>15 DEF found, Leaf
<1>17. ASSUME NEW v \in calls, v # t
       PROVE  CallInv(v)' /\ LegalInv(v)' /\ BoardInv(v)' /\ LoopInv(v)' /\ FoundInv(v)'
  <2>0. /\ CallInv(v) /\ LegalInv(v) /\ BoardInv(v) /\ LoopInv(v) /\ FoundInv(v)
        /\ frame'[v] = frame[v]
    BY <1>10, <1>17, CallFacts
  <2>1. CallInv(v)'
    <3>1. ASSUME v # Root
          PROVE  /\ Parent(v) \in calls'
                 /\ frame'[Parent(v)].phase # "made"
                 /\ v[Len(v)] \notin frame'[Parent(v)].ys
      <4>1. Parent(v) \in calls /\ frame[Parent(v)].phase # "made"
            /\ v[Len(v)] \notin frame[Parent(v)].ys
        BY <2>0, <3>1 DEF CallInv
      <4>2. CASE Parent(v) = t
        BY <1>9, <1>10, <4>1, <4>2
      <4>3. CASE Parent(v) # t
        BY <1>9, <1>10, <4>1, <4>3
      <4> QED BY <4>2, <4>3
    <3> QED BY <3>1 DEF CallInv
  <2>2. LegalInv(v)'
    BY <2>0 DEF LegalInv
  <2>3. BoardInv(v)'
    BY <1>9, <2>0 DEF BoardInv
  <2>4. LoopInv(v)'
    BY <1>9, <2>0 DEF LoopInv
  <2>5. FoundInv(v)'
    BY <1>15, <1>16, <2>0 DEF FoundInv, SolutionsBelow
  <2> QED BY <2>1, <2>2, <2>3, <2>4, <2>5
<1>18. CallInv(t)' /\ LegalInv(t)' /\ BoardInv(t)' /\ FoundInv(t)'
  <2>1. CallInv(t)'
    <3>1. ASSUME t # Root PROVE Parent(t) # t
      BY <1>3, <3>1, ParentName
    <3>2. t # Root => Parent(t) \in calls /\ frame'[Parent(t)] = frame[Parent(t)]
      BY <1>3, <1>10, <3>1 DEF CallInv
    <3> QED BY <1>3, <1>9, <3>2 DEF CallInv
  <2>2. LegalInv(t)'
    BY <1>3 DEF LegalInv
  <2>3. BoardInv(t)'
    BY <1>1, <1>3, <1>7, <1>10 DEF BoardInv
  <2>4. FoundInv(t)'
    BY <1>10 DEF FoundInv, Returned
  <2> QED BY <2>1, <2>2, <2>3, <2>4
<1>19. LoopInv(t)'
  <2>1. ASSUME NEW z \in frame'[t].ys
        PROVE  frame'[t].taskCount =< z
    <3>1. z \in Columns /\ z > y
      BY <1>10, <1>11, <2>1
    <3>2. z \in Nat
      BY <1>0, <3>1 DEF Columns
    <3> QED BY <1>10, <1>11, <3>1, <3>2
  <2>2. ASSUME NEW z \in Columns \ frame'[t].ys, Legal(frame'[t].buf, Len(t), z)
        PROVE  Append(t, z) \in calls'
    <3>1. Legal(frame[t].buf, Len(t), z)
      BY <1>3, <1>7, <1>10, <2>2 DEF Legal
    <3>2. CASE z = y
      BY <1>9, <3>2 DEF u
    <3>3. CASE z \notin frame[t].ys
      BY <1>1, <1>3, <1>9, <3>1, <3>3 DEF LoopInv
    <3>4. CASE z \in frame[t].ys /\ z # y
      <4>1. z \in Remaining(t)
        BY <3>1, <3>4 DEF Remaining, LegalColumns
      <4>2. y =< z /\ ~ (z > y)
        BY <1>2, <1>10, <3>4, <4>1
      <4>3. z \in Nat
        BY <1>0 DEF Columns
      <4> QED BY <1>11, <3>4, <4>2, <4>3
    <3> QED BY <3>2, <3>3, <3>4
  <2> QED BY <1>10, <2>1, <2>2 DEF LoopInv
<1>20. CallInv(u)'
  BY <1>1, <1>5, <1>9, <1>10, <1>11 DEF CallInv
<1>21. LegalInv(u)'
  <2>1. LegalInv(u)
    <3>1. frame[t].buf \in Boards /\ \A x \in 0 .. Len(t) - 1 : frame[t].buf[x] = t[x + 1]
      BY <1>1, <1>3 DEF BoardInv, Frame
    <3> QED BY <1>3, <1>4, <3>1, LegalStep DEF u
  <2> QED BY <2>1 DEF LegalInv
<1>22. BoardInv(u)'
  <2>1. CASE how.copy = "made"
    <3>1. ASSUME NEW x \in 0 .. Len(u) - 1
          PROVE  b[x] = u[x + 1]
      <4>1. CASE x = Len(t)
        BY <1>5, <1>7, <2>1, <4>1
      <4>2. CASE x # Len(t)
        <5>1. x \in 0 .. Len(t) - 1 /\ x + 1 \in 1 .. Len(t)
          BY <1>3, <1>5, <4>2
        <5>2. frame[t].buf[x] = t[x + 1]
          BY <1>1, <1>3, <5>1 DEF BoardInv
        <5> QED BY <1>5, <1>7, <5>1, <5>2
      <4> QED BY <4>1, <4>2
    <3> QED BY <1>10, <3>1 DEF BoardInv, NewFrame
  <2>2. CASE how.copy # "made"
    <3>1. how.columns = "listed"
      BY <2>2, Kinds DEF SearchInv, TypeOK
    <3>2. frame'[u].phase = "made"
      BY <1>10, <3>1 DEF NewFrame
    <3> QED BY <1>9, <2>2, <3>2 DEF BoardInv
  <2> QED BY <2>1, <2>2
<1>23. LoopInv(u)' /\ FoundInv(u)'
  <2>1. frame'[u].ys = Columns /\ frame'[u].taskCount = 0
    BY <1>10 DEF NewFrame
  <2>2. LoopInv(u)'
    BY <2>1 DEF LoopInv, Columns
  <2>3. FoundInv(u)'
    BY <1>15 DEF FoundInv
  <2> QED BY <2>2, <2>3
<1>24. FramesOutlive'
  <2>1. ASSUME NEW v \in calls', v # Root, Returned(Parent(v))'
        PROVE  Returned(v)'
    <3>1. CASE v = u
      BY <1>5, <1>10, <2>1, <3>1 DEF Returned
    <3>2. CASE v \in calls
      <4>1. Parent(v) \in calls
        BY <2>1, <3>2, CallFacts DEF CallInv
      <4> QED BY <1>15, <2>1, <3>2, <4>1 DEF FramesOutlive, SearchInv
    <3> QED BY <1>9, <3>1, <3>2
  <2> QED BY <2>1 DEF FramesOutlive
<1>25. \A v \in calls' :
         CallInv(v)' /\ LegalInv(v)' /\ BoardInv(v)' /\ LoopInv(v)' /\ FoundInv(v)'
  BY <1>9, <1>17, <1>18, <1>19, <1>20, <1>21, <1>22, <1>23
<1> QED BY <1>14, <1>16, <1>24, <1>25 DEF SearchInv

LEMMA ReturnStep ==
  ASSUME SearchInv, NEW t, Return(t)
  PROVE  SearchInv'
<1>0. N \in Nat /\ N > 0
  BY NFacts
<1>1. /\ t \in calls /\ frame[t].phase = "loop"
      /\ Leaf(t) \/ (Remaining(t) = {} /\ Joined(t))
      /\ frame' = [frame EXCEPT ![t].phase = "returned"]
      /\ program' = program /\ verdict' = verdict
  BY DEF Return
<1>2. /\ t \in Seq(Columns) /\ Len(t) \in Nat /\ Len(t) =< N /\ frame[t] \in Frame
      /\ CallInv(t) /\ LegalInv(t) /\ BoardInv(t) /\ LoopInv(t)
  BY <1>1, CallFacts
<1>3. calls' = calls /\ how' = how
  BY <1>1 DEF calls, how
<1>4. /\ \A v \in calls : v # t => frame'[v] = frame[v]
      /\ frame'[t] = [phase |-> "returned", buf |-> frame[t].buf, ys |-> frame[t].ys,
                      taskCount |-> frame[t].taskCount, idx |-> frame[t].idx]
  BY <1>1, <1>2 DEF calls, Frame
<1>5. frame'[t] \in Frame
  BY <1>2, <1>4 DEF Frame
<1>6. DOMAIN values' = calls'
  <2>1. values' = values \/ values' = [values EXCEPT ![Parent(t)][frame[t].idx] = Result(t)]
    BY DEF Return
  <2> QED BY <1>3, <2>1 DEF SearchInv, TypeOK
<1>7. TypeOK'
  BY <1>1, <1>3, <1>4, <1>5, <1>6 DEF SearchInv, TypeOK
<1>8. /\ Returned(t)' /\ ~ Returned(t)
      /\ \A v \in calls : v # t => (Returned(v)' <=> Returned(v))
      /\ \A v \in calls : frame'[v].buf = frame[v].buf
  <2>1. Returned(t)' /\ ~ Returned(t) /\ frame'[t].buf = frame[t].buf
    BY <1>1, <1>3, <1>4 DEF Returned
  <2>2. \A v \in calls : v # t => (Returned(v)' <=> Returned(v)) /\ frame'[v].buf = frame[v].buf
    BY <1>3, <1>4 DEF Returned
  <2> QED BY <2>1, <2>2
<1>9. /\ found \subseteq found'
      /\ Leaf(t) => frame[t].buf \in found'
      /\ found' \subseteq found \cup {b \in {frame[t].buf} : Leaf(t)}
  <2> DEFINE done  == {v \in calls : Leaf(v) /\ Returned(v)}
             done1 == {v \in calls : Leaf(v) /\ Returned(v)'}
  <2>1. found = {frame[v].buf : v \in done} /\ found' = {frame'[v].buf : v \in done1}
    BY <1>3 DEF found, Leaf
  <2>2. done \subseteq done1 /\ (Leaf(t) => t \in done1) /\ \A v \in done1 : v \in done \/ v = t
    BY <1>1, <1>8
  <2>3. \A v \in done1 : v \in calls /\ Leaf(v)
    OBVIOUS
  <2> HIDE DEF done, done1
  <2> QED BY <1>8, <2>1, <2>2, <2>3
<1>10. \A x \in 0 .. Len(t) - 1 : frame[t].buf[x] = t[x + 1]
  BY <1>1, <1>2 DEF BoardInv
<1>11. frame[t].buf \in Boards
  BY <1>2 DEF Frame
<1>12. SolutionsBelow(t) \subseteq found' /\ found' \subseteq Solutions
  <2>1. CASE Leaf(t)
    <3>1. frame[t].buf \in Solutions /\ SolutionsBelow(t) \subseteq {frame[t].buf}
      BY <1>2, <1>10, <1>11, <2>1, SolutionLeaf DEF Leaf
    <3> QED BY <1>9, <2>1, <3>1 DEF SearchInv
  <2>2. CASE ~ Leaf(t)
    <3>1. found' = found
      BY <1>9, <2>2
    <3>2. ASSUME NEW s \in SolutionsBelow(t)
          PROVE  s \in found
      <4> DEFINE y == s[Len(t)]
                 u == Append(t, y)
      <4>0. Len(t) < N
        BY <1>0, <1>2, <2>2 DEF Leaf
      <4>1. y \in Columns /\ Legal(frame[t].buf, Len(t), y) /\ s \in SolutionsBelow(u)
        BY <1>2, <1>10, <1>11, <4>0, SolutionStep
      <4>2. u # Root /\ Parent(u) = t
        BY <1>2, <4>1, ChildName
      <4> HIDE DEF y
      <4>3. y \notin frame[t].ys
        BY <1>1, <2>2, <4>1 DEF Remaining, LegalColumns
      <4>4. u \in calls
        BY <1>1, <1>2, <4>1, <4>3 DEF LoopInv
      <4> HIDE DEF u
      <4>5. Returned(u)
        BY <1>1, <2>2, <4>2, <4>4 DEF Joined, Children
      <4>6. FoundInv(u)
        BY <4>4, CallFacts
      <4> QED BY <4>1, <4>5, <4>6 DEF FoundInv
    <3> QED BY <3>1, <3>2 DEF SearchInv
  <2> QED BY <2>1, <2>2
<1>13. ASSUME NEW v \in calls
       PROVE  CallInv(v)' /\ LegalInv(v)' /\ BoardInv(v)' /\ LoopInv(v)' /\ FoundInv(v)'
  <2>0. CallInv(v) /\ LegalInv(v) /\ BoardInv(v) /\ LoopInv(v) /\ FoundInv(v)
    BY CallFacts
  <2>1. /\ frame'[v].buf = frame[v].buf /\ frame'[v].ys = frame[v].ys
        /\ frame'[v].taskCount = frame[v].taskCount
        /\ frame'[v].phase = "made" <=> frame[v].phase = "made"
    BY <1>1, <1>4
  <2>2. CallInv(v)'
    <3>1. ASSUME NEW p \in calls
          PROVE  frame'[p].ys = frame[p].ys /\ (frame'[p].phase = "made" <=> frame[p].phase = "made")
      BY <1>1, <1>4
    <3>2. v # Root => Parent(v) \in calls /\ frame[Parent(v)].phase # "made"
                      /\ v[Len(v)] \notin frame[Parent(v)].ys
      BY <2>0 DEF CallInv
    <3>3. v # Root => Parent(v) \in calls' /\ frame'[Parent(v)].phase # "made"
                      /\ v[Len(v)] \notin frame'[Parent(v)].ys
      BY <1>3, <3>1, <3>2
    <3> QED BY <3>3 DEF CallInv
  <2>3. LegalInv(v)'
    BY <2>0 DEF LegalInv
  <2>4. BoardInv(v)'
    BY <1>3, <2>0, <2>1 DEF BoardInv
  <2>5. LoopInv(v)'
    BY <1>3, <2>0, <2>1 DEF LoopInv
  <2>6. FoundInv(v)'
    <3>1. SolutionsBelow(v)' = SolutionsBelow(v)
      BY DEF SolutionsBelow
    <3>2. CASE v = t
      BY <1>12, <3>1, <3>2 DEF FoundInv
    <3>3. CASE v # t
      BY <1>8, <1>9, <2>0, <3>1, <3>3 DEF FoundInv
    <3> QED BY <3>2, <3>3
  <2> QED BY <2>2, <2>3, <2>4, <2>5, <2>6
<1>14. FramesOutlive'
  <2>1. ASSUME NEW v \in calls, v # Root, Returned(Parent(v))'
        PROVE  Returned(v)'
    <3>1. Parent(v) \in calls
      BY <2>1, CallFacts DEF CallInv
    <3>2. CASE Parent(v) = t
      <4>1. v \in Children(t)
        BY <2>1, <3>2 DEF Children
      <4>2. ~ Leaf(t)
        <5>1. v \in Seq(Columns) /\ Len(v) =< N
          BY CallFacts
        <5>2. Len(t) = Len(v) - 1 /\ Len(v) \in Nat
          BY <2>1, <3>2, <5>1, ParentName
        <5> QED BY <1>0, <5>1, <5>2 DEF Leaf
      <4>3. Returned(v)
        BY <1>1, <4>1, <4>2 DEF Joined
      <4> QED BY <1>8, <4>3
    <3>3. CASE Parent(v) # t
      <4>1. Returned(v)
        BY <1>8, <2>1, <3>1, <3>3 DEF FramesOutlive, SearchInv
      <4> QED BY <1>8, <4>1
    <3> QED BY <3>2, <3>3
  <2> QED BY <1>3, <2>1 DEF FramesOutlive
<1> QED BY <1>3, <1>7, <1>12, <1>13, <1>14 DEF SearchInv

LEMMA UnchangedStep ==
  ASSUME SearchInv, UNCHANGED <<program, frame, values>>,
         verdict' \in {"running", "correct", "wrong"}
  PROVE  SearchInv'
<1>1. calls' = calls /\ how' = how
  BY DEF calls, how
<1>2. TypeOK'
  BY <1>1 DEF SearchInv, TypeOK
<1>3. \A v : Returned(v)' <=> Returned(v)
  BY <1>1 DEF Returned
<1>4. found' = found
  BY <1>1, <1>3 DEF found, Leaf
<1>5. ASSUME NEW v \in calls
      PROVE  CallInv(v)' /\ LegalInv(v)' /\ BoardInv(v)' /\ LoopInv(v)' /\ FoundInv(v)'
  <2>0. CallInv(v) /\ LegalInv(v) /\ BoardInv(v) /\ LoopInv(v) /\ FoundInv(v)
    BY CallFacts
  <2>1. CallInv(v)' /\ LegalInv(v)'
    BY <1>1, <2>0 DEF CallInv, LegalInv
  <2>2. BoardInv(v)' /\ LoopInv(v)'
    BY <1>1, <2>0 DEF BoardInv, LoopInv
  <2>3. FoundInv(v)'
    BY <1>3, <1>4, <2>0 DEF FoundInv, SolutionsBelow
  <2> QED BY <2>1, <2>2, <2>3
<1>6. FramesOutlive'
  BY <1>1, <1>3 DEF FramesOutlive, SearchInv
<1> QED BY <1>1, <1>2, <1>4, <1>5, <1>6 DEF SearchInv

LEMMA StepSearch == SearchInv /\ [Next]_vars => SearchInv'
<1> SUFFICES ASSUME SearchInv, [Next]_vars PROVE SearchInv'
  OBVIOUS
<1>1. ASSUME NEW t \in calls, ListColumns(t) PROVE SearchInv'
  BY <1>1, ListColumnsStep
<1>2. ASSUME NEW t \in calls, MakeCall(t) PROVE SearchInv'
  BY <1>2, MakeCallStep
<1>3. ASSUME NEW t \in calls, Return(t) PROVE SearchInv'
  BY <1>3, ReturnStep
<1>4. CASE check_answer
  BY <1>4, UnchangedStep DEF check_answer
<1>5. CASE UNCHANGED vars
  <2>1. verdict' = verdict /\ UNCHANGED <<program, frame, values>>
    BY <1>5 DEF vars
  <2> QED BY <2>1, UnchangedStep DEF SearchInv, TypeOK
<1>6. CASE Stopped
  BY <1>5, <1>6 DEF Stopped
<1> QED BY <1>1, <1>2, <1>3, <1>4, <1>5, <1>6 DEF Next, Step
-----------------------------------------------------------------------------
(* Finite sets and sums.                                                   *)

(* Every set of finite sets has a smallest one.                            *)
LEMMA MinimalSubset ==
  ASSUME NEW S, NEW T, T # {}, T \subseteq FiniteSubsetsOf(S)
  PROVE  \E U \in T : \A V \in T : V \subseteq U => V = U
<1>1. IsWellFoundedOn(StrictSubsetOrdering(S), FiniteSubsetsOf(S))
  BY FS_StrictSubsetOrderingWellFounded
<1>2. PICK U \in T : \A V \in T : ~ (<<V, U>> \in StrictSubsetOrdering(S))
  BY <1>1, WFMin
<1> QED BY <1>2 DEF StrictSubsetOrdering, FiniteSubsetsOf

(* There are finitely many boards.                                         *)
LEMMA FiniteBoards == IsFiniteSet(Boards)
<1> DEFINE Bad == {0 .. n : n \in {m \in Nat : ~ IsFiniteSet([0 .. m -> Columns])}}
<1>0. IsFiniteSet(Columns)
  BY FS_Interval, NFacts DEF Columns
<1>1. IsFiniteSet([0 .. 0 -> Columns])
  <2> DEFINE f == [y \in Columns |-> [x \in 0 .. 0 |-> y]]
  <2>1. f \in Surjection(Columns, [0 .. 0 -> Columns])
    <3>1. \A b \in [0 .. 0 -> Columns] : b[0] \in Columns /\ b = f[b[0]]
      OBVIOUS
    <3>2. f \in [Columns -> [0 .. 0 -> Columns]]
      OBVIOUS
    <3> HIDE DEF f
    <3> QED BY <3>1, <3>2 DEF Surjection
  <2> QED BY <1>0, <2>1, FS_Surjection
<1>2. ASSUME NEW n \in Nat, IsFiniteSet([0 .. n -> Columns])
      PROVE  IsFiniteSet([0 .. n + 1 -> Columns])
  <2> DEFINE P == [0 .. n -> Columns] \X Columns
             f == [p \in P |-> [x \in 0 .. n + 1 |-> IF x = n + 1 THEN p[2] ELSE p[1][x]]]
  <2>1. IsFiniteSet(P)
    BY <1>0, <1>2, FS_Product
  <2>2. f \in Surjection(P, [0 .. n + 1 -> Columns])
    <3>1. ASSUME NEW b \in [0 .. n + 1 -> Columns]
          PROVE  \E p \in P : f[p] = b
      <4> DEFINE q == <<[x \in 0 .. n |-> b[x]], b[n + 1]>>
      <4>1. q \in P
        OBVIOUS
      <4>2. \A x \in 0 .. n + 1 : x # n + 1 => x \in 0 .. n
        OBVIOUS
      <4>3. f[q] = [x \in 0 .. n + 1 |-> b[x]]
        BY <4>1, <4>2
      <4> QED BY <4>1, <4>3
    <3>2. f \in [P -> [0 .. n + 1 -> Columns]]
      <4>1. \A x \in 0 .. n + 1 : x # n + 1 => x \in 0 .. n
        OBVIOUS
      <4> QED BY <4>1
    <3> HIDE DEF f, P
    <3> QED BY <3>1, <3>2 DEF Surjection
  <2> HIDE DEF f, P
  <2> QED BY <2>1, <2>2, FS_Surjection
<1>3. Bad = {}
  <2>1. SUFFICES ASSUME Bad # {} PROVE FALSE
    OBVIOUS
  <2>2. Bad \subseteq FiniteSubsetsOf(Nat)
    <3>1. \A n \in Nat : IsFiniteSet(0 .. n) /\ 0 .. n \subseteq Nat
      BY FS_Interval
    <3> QED BY <3>1 DEF FiniteSubsetsOf
  <2>3. PICK U \in Bad : \A V \in Bad : V \subseteq U => V = U
    <3> HIDE DEF Bad
    <3> QED BY <2>1, <2>2, MinimalSubset
  <2>4. PICK n \in Nat : ~ IsFiniteSet([0 .. n -> Columns]) /\ U = 0 .. n
    OBVIOUS
  <2>5. n # 0
    BY <1>1, <2>4
  <2>6. n - 1 \in Nat /\ (n - 1) + 1 = n
    BY <2>5
  <2>7. ~ IsFiniteSet([0 .. n - 1 -> Columns])
    BY <1>2, <2>4, <2>6
  <2>8. 0 .. n - 1 \in Bad
    BY <2>6, <2>7
  <2>9. 0 .. n - 1 \subseteq U /\ n \in U /\ n \notin 0 .. n - 1
    BY <2>4
  <2> QED BY <2>3, <2>8, <2>9
<1>4. N - 1 \in Nat
  BY NFacts
<1> QED BY <1>3, <1>4 DEF Boards, Rows

(* One unfolding of the fold behind SumFunctionOnSet, which is defined as  *)
(* some function that unfolds to itself.                                   *)
Unfold(f, S, h) ==
  [s \in SUBSET S |-> IF s = {} THEN 0
     ELSE f[CHOOSE x \in s : TRUE] + h[s \ {CHOOSE x \in s : TRUE}]]

LEMMA SumUnfolds ==
  ASSUME NEW f, NEW S, NEW g, g = Unfold(f, S, g)
  PROVE  \E h : h = Unfold(f, S, h) /\ SumFunctionOnSet(f, S) = h[S]
BY DEF Unfold, SumFunctionOnSet, FoldFunctionOnSet, MapThenFoldSet

(* The sum of the sizes of disjoint sets is the size of their union.       *)
LEMMA SumOfSizes ==
  ASSUME NEW S, IsFiniteSet(S), NEW f, NEW part,
         \A x \in S : IsFiniteSet(part[x]) /\ f[x] = Cardinality(part[x]),
         \A x, y \in S : x # y => part[x] \cap part[y] = {}
  PROVE  SumFunctionOnSet(f, S) = Cardinality(UNION {part[x] : x \in S})
<1> DEFINE All(s)  == UNION {part[x] : x \in s}
           Pick(s) == CHOOSE x \in s : TRUE
           g       == [s \in SUBSET S |-> Cardinality(All(s))]
<1>1. g[{}] = 0
  <2>1. All({}) = {}
    OBVIOUS
  <2> HIDE DEF All
  <2> QED BY <2>1, FS_EmptySet
<1>2. ASSUME NEW s \in SUBSET S, s # {}
      PROVE  /\ Pick(s) \in s
             /\ g[s] = f[Pick(s)] + g[s \ {Pick(s)}]
  <2> DEFINE x == Pick(s)
             r == s \ {x}
  <2>1. x \in s
    BY <1>2
  <2> HIDE DEF x
  <2>2. All(s) = part[x] \cup All(r) /\ part[x] \cap All(r) = {}
    BY <2>1
  <2>3. IsFiniteSet(All(r))
    <3>1. IsFiniteSet(r)
      BY FS_Subset
    <3>2. IsFiniteSet({part[y] : y \in r})
      <4>1. [y \in r |-> part[y]] \in Surjection(r, {part[y] : y \in r})
        BY DEF Surjection
      <4> QED BY <3>1, <4>1, FS_Surjection
    <3>3. \A p \in {part[y] : y \in r} : IsFiniteSet(p)
      OBVIOUS
    <3> QED BY <3>2, <3>3, FS_UNION
  <2>4. IsFiniteSet(part[x]) /\ f[x] = Cardinality(part[x])
    BY <2>1
  <2>5. Cardinality(part[x] \cup All(r))
          = Cardinality(part[x]) + Cardinality(All(r)) - Cardinality(part[x] \cap All(r))
    <3> HIDE DEF All, r
    <3> QED BY <2>3, <2>4, FS_Union
  <2>6. Cardinality(part[x] \cap All(r)) = 0
    <3> HIDE DEF All, r
    <3> QED BY <2>2, FS_EmptySet
  <2>7. Cardinality(part[x]) \in Nat /\ Cardinality(All(r)) \in Nat
    <3> HIDE DEF All, r
    <3> QED BY <2>3, <2>4, FS_CardinalityType
  <2>8. Cardinality(All(s)) = f[x] + Cardinality(All(r))
    <3> HIDE DEF All, r
    <3> QED BY <2>2, <2>4, <2>5, <2>6, <2>7
  <2>9. g[s] = Cardinality(All(s)) /\ g[r] = Cardinality(All(r))
    <3> HIDE DEF All
    <3> QED OBVIOUS
  <2> QED BY <2>1, <2>8, <2>9 DEF x
<1>3. g = Unfold(f, S, g)
  <2>1. \A s \in SUBSET S : g[s] = Unfold(f, S, g)[s]
    <3> HIDE DEF g
    <3> QED BY <1>1, <1>2 DEF Unfold
  <2> HIDE DEF All
  <2> QED BY <2>1 DEF Unfold
<1> HIDE DEF g
<1>4. PICK h : h = Unfold(f, S, h) /\ SumFunctionOnSet(f, S) = h[S]
  BY <1>3, SumUnfolds
<1>5. \A s \in SUBSET S : h[s] = g[s]
  <2> DEFINE Bad == {s \in SUBSET S : h[s] # g[s]}
  <2>1. SUFFICES ASSUME Bad # {} PROVE FALSE
    OBVIOUS
  <2>2. Bad \subseteq FiniteSubsetsOf(S)
    BY FS_Subset DEF FiniteSubsetsOf
  <2>3. PICK s \in Bad : \A r \in Bad : r \subseteq s => r = s
    <3> HIDE DEF Bad
    <3> QED BY <2>1, <2>2, MinimalSubset
  <2>4. s # {}
    BY <1>1, <1>4 DEF Unfold
  <2>5. Pick(s) \in s /\ g[s] = f[Pick(s)] + g[s \ {Pick(s)}]
    BY <1>2, <2>4
  <2>6. h[s \ {Pick(s)}] = g[s \ {Pick(s)}]
    <3>1. s \ {Pick(s)} \subseteq s /\ s \ {Pick(s)} # s /\ s \ {Pick(s)} \in SUBSET S
      BY <2>5
    <3>2. s \ {Pick(s)} \notin Bad
      <4> HIDE DEF Bad
      <4> QED BY <2>3, <3>1
    <3> QED BY <3>1, <3>2
  <2>7. h[s] = f[Pick(s)] + h[s \ {Pick(s)}]
    BY <1>4, <2>4 DEF Unfold
  <2> QED BY <2>5, <2>6, <2>7
<1>6. S \in SUBSET S
  OBVIOUS
<1>7. SumFunctionOnSet(f, S) = g[S]
  BY <1>4, <1>5, <1>6
<1> QED BY <1>6, <1>7 DEF g

-----------------------------------------------------------------------------
(* The results on their way up.                                            *)
LEMMA FiniteBelow ==
  ASSUME NEW t
  PROVE  IsFiniteSet(SolutionsBelow(t)) /\ Cardinality(SolutionsBelow(t)) \in Nat
<1>1. SolutionsBelow(t) \in SUBSET Boards
  BY SolutionFacts DEF SolutionsBelow
<1> QED BY <1>1, FiniteBoards, FS_Subset, FS_CardinalityType

(* A step that touches no result, no place and makes no call.              *)
LEMMA ResultsSame ==
  ASSUME ResultInv, calls' = calls, values' = values, result' = result,
         \A v \in calls : /\ frame'[v].idx = frame[v].idx
                          /\ frame'[v].taskCount = frame[v].taskCount
                          /\ Returned(v)' <=> Returned(v),
         Root \in calls, \A v \in calls : v # Root => Parent(v) \in calls,
         verdict' # "running" => Returned(Root)
  PROVE  ResultInv'
<1>1. ASSUME NEW v \in calls PROVE PlaceInv(v)'
  <2>1. PlaceInv(v) /\ Children(v)' = Children(v) /\ Children(v) \subseteq calls
    BY DEF ResultInv, Children
  <2>2. {frame'[u].idx : u \in Children(v)} = {frame[u].idx : u \in Children(v)}
    BY <2>1
  <2> QED BY <2>1, <2>2 DEF PlaceInv
<1>2. ResultsDelivered'
  BY DEF ResultInv, ResultsDelivered, SolutionsBelow
<1> QED BY <1>1, <1>2 DEF ResultInv

LEMMA ListColumnsResults ==
  ASSUME SearchInv, ResultInv, NEW t, ListColumns(t)
  PROVE  ResultInv'
<1> DEFINE b == StartBoard(t)
<1>1. /\ t \in calls /\ frame[t].phase = "made" /\ values' = values /\ result' = result
      /\ frame' = [frame EXCEPT ![t].phase = "loop", ![t].buf = b,
                                ![t].ys = LegalColumns(b, Len(t))]
      /\ verdict' = verdict
  BY DEF ListColumns
<1> HIDE DEF b
<1>2. calls' = calls /\ frame[t] \in Frame
  BY <1>1, CallFacts DEF calls
<1>3. /\ \A v \in calls : v # t => frame'[v] = frame[v]
      /\ frame'[t] = [phase |-> "loop", buf |-> b, ys |-> LegalColumns(b, Len(t)),
                      taskCount |-> frame[t].taskCount, idx |-> frame[t].idx]
  BY <1>1, <1>2 DEF calls, Frame
<1>4. ASSUME NEW v \in calls
      PROVE  /\ frame'[v].idx = frame[v].idx /\ frame'[v].taskCount = frame[v].taskCount
             /\ Returned(v)' <=> Returned(v)
  <2>1. CASE v = t
    BY <1>1, <1>2, <1>3, <2>1 DEF Returned
  <2>2. CASE v # t
    BY <1>2, <1>3, <2>2 DEF Returned
  <2> QED BY <2>1, <2>2
<1>5. Root \in calls /\ \A v \in calls : v # Root => Parent(v) \in calls
  BY CallFacts DEF SearchInv, TypeOK, CallInv
<1> QED BY <1>1, <1>2, <1>4, <1>5, ResultsSame DEF ResultInv

(* The new call has the next place, and no other call has its name.        *)
LEMMA MakeCallResults ==
  ASSUME SearchInv, ResultInv, NEW t, MakeCall(t)
  PROVE  ResultInv'
<1>0. N \in Nat /\ N > 0
  BY NFacts
<1>1. t \in calls /\ frame[t].phase = "loop"
  BY DEF MakeCall, Looping
<1>2. PICK y \in Remaining(t) : MakeCallFor(t, y)
  BY DEF MakeCall
<1>3. /\ t \in Seq(Columns) /\ frame[t] \in Frame /\ y \in Columns /\ y \in frame[t].ys
  BY <1>1, CallFacts DEF Remaining, LegalColumns
<1> DEFINE u == Append(t, y)
           b == IF how.copy = "made" THEN [frame[t].buf EXCEPT ![Len(t)] = y]
                                     ELSE frame[t].buf
<1>4. u # Root /\ u # t /\ Parent(u) = t /\ u[Len(u)] = y
  BY <1>3, ChildName
<1>5. /\ frame' = [v \in calls \cup {u} |->
           CASE v = t -> [frame[t] EXCEPT !.buf = b,
                                          !.ys = {z \in @ : z > y},
                                          !.taskCount = @ + 1]
             [] v = u -> NewFrame(b, Place(frame[t]))
             [] OTHER -> frame[v]]
      /\ values' = [v \in calls \cup {u} |-> IF v = u THEN NewValues ELSE values[v]]
      /\ result' = result /\ verdict' = verdict
  BY <1>2 DEF MakeCallFor
<1> HIDE DEF u, b
<1>6. u \notin calls
  <2>1. SUFFICES ASSUME u \in calls PROVE FALSE
    OBVIOUS
  <2>2. CallInv(u)
    BY <2>1, CallFacts
  <2> QED BY <1>3, <1>4, <2>2 DEF CallInv
<1>7. calls' = calls \cup {u}
  BY <1>5 DEF calls
<1>8. /\ \A v \in calls : v # t => frame'[v] = frame[v]
      /\ frame'[u].idx = frame[t].taskCount /\ frame'[u].taskCount = 0
      /\ frame'[u].phase # "returned"
      /\ frame'[t].taskCount = frame[t].taskCount + 1
      /\ frame'[t].idx = frame[t].idx /\ frame'[t].phase = frame[t].phase
      /\ frame[t].taskCount \in Nat
  <2>1. /\ frame'[u] = NewFrame(b, Place(frame[t]))
        /\ frame'[t] = [frame[t] EXCEPT !.buf = b, !.ys = {z \in @ : z > y},
                                        !.taskCount = @ + 1]
    BY <1>1, <1>4, <1>5
  <2>2. \A v \in calls : v # t => frame'[v] = frame[v]
    BY <1>5, <1>6
  <2> QED BY <1>0, <1>3, <2>1, <2>2 DEF Place, Frame, NewFrame
<1>9. /\ \A v \in calls : frame'[v].idx = frame[v].idx /\ (Returned(v)' <=> Returned(v))
      /\ ~ Returned(u)'
  <2>1. ~ Returned(t) /\ ~ Returned(t)'
    BY <1>1, <1>8 DEF Returned
  <2>2. ASSUME NEW v \in calls, v # t
        PROVE  frame'[v].idx = frame[v].idx /\ (Returned(v)' <=> Returned(v))
    BY <1>7, <1>8, <2>2 DEF Returned
  <2> QED BY <1>8, <2>1, <2>2 DEF Returned
<1>10. /\ \A v \in calls : values'[v] = values[v]
       /\ values'[u] = NewValues
  BY <1>5, <1>6
<1>11. Root \in calls /\ \A v \in calls : v # Root => Parent(v) \in calls
  BY CallFacts DEF SearchInv, TypeOK, CallInv
<1>12. /\ Children(t)' = Children(t) \cup {u} /\ Children(u)' = {}
       /\ \A v \in calls : v # t => Children(v)' = Children(v)
       /\ \A v \in calls : Children(v) \subseteq calls
  <2>1. \A v : Children(v)' = {w \in calls \cup {u} : w # Root /\ Parent(w) = v}
    BY <1>7 DEF Children
  <2>2. Children(t)' = Children(t) \cup {u}
    BY <1>4, <2>1 DEF Children
  <2>3. ASSUME NEW v, v # t PROVE Children(v)' = Children(v)
    BY <1>4, <2>1, <2>3 DEF Children
  <2>4. Children(u) = {}
    BY <1>6, <1>11 DEF Children
  <2>5. \A v \in calls : Children(v) \subseteq calls
    BY DEF Children
  <2> QED BY <1>4, <2>2, <2>3, <2>4, <2>5
<1>13. PlaceInv(t)'
  <2> DEFINE n == frame[t].taskCount
  <2>1. PlaceInv(t)
    BY <1>1 DEF ResultInv
  <2>2. values'[t] \in [Columns -> Int]
    BY <1>1, <1>10, <2>1 DEF PlaceInv
  <2>3. {frame'[v].idx : v \in Children(t)} = 0 .. n - 1
    BY <1>1, <1>9, <1>12, <2>1 DEF PlaceInv
  <2>4. {frame'[v].idx : v \in Children(t) \cup {u}} = (0 .. n - 1) \cup {n}
    BY <1>8, <2>3
  <2>5. (0 .. n - 1) \cup {n} = 0 .. (n + 1) - 1
    BY <1>8
  <2>6. ASSUME NEW v \in Children(t) \cup {u}, NEW w \in Children(t) \cup {u},
               frame'[v].idx = frame'[w].idx
        PROVE  v = w
    <3>1. \A x \in Children(t) : frame'[x].idx # n
      BY <1>8, <2>3
    <3>2. CASE v = u
      BY <1>8, <2>6, <3>1, <3>2
    <3>3. CASE w = u
      BY <1>8, <2>6, <3>1, <3>3
    <3>4. CASE v \in Children(t) /\ w \in Children(t)
      BY <1>1, <1>9, <1>12, <2>1, <2>6, <3>4 DEF PlaceInv
    <3> QED BY <3>2, <3>3, <3>4
  <2> QED BY <1>8, <1>12, <2>2, <2>4, <2>5, <2>6 DEF PlaceInv
<1>14. PlaceInv(u)'
  <2>1. NewValues \in [Columns -> Int]
    BY DEF NewValues, Unwritten
  <2>2. {frame'[v].idx : v \in {}} = 0 .. 0 - 1
    OBVIOUS
  <2> QED BY <1>8, <1>10, <1>12, <2>1, <2>2 DEF PlaceInv
<1>15. ASSUME NEW v \in calls, v # t PROVE PlaceInv(v)'
  <2>1. PlaceInv(v) /\ Children(v)' = Children(v) /\ Children(v) \subseteq calls
    BY <1>12, <1>15 DEF ResultInv
  <2>2. {frame'[w].idx : w \in Children(v)} = {frame[w].idx : w \in Children(v)}
    BY <1>9, <2>1
  <2>3. \A w \in Children(v) : frame'[w].idx = frame[w].idx
    BY <1>9, <2>1
  <2> QED BY <1>8, <1>10, <1>15, <2>1, <2>2, <2>3 DEF PlaceInv
<1>16. ResultsDelivered'
  <2>1. ASSUME NEW v \in calls, Returned(v)
        PROVE  Cardinality(SolutionsBelow(v))
                 = IF v = Root THEN result' ELSE values'[Parent(v)][frame'[v].idx]
    <3>1. v # Root => values'[Parent(v)] = values[Parent(v)]
      BY <1>10, <1>11
    <3> QED BY <1>5, <1>9, <2>1, <3>1 DEF ResultInv, ResultsDelivered
  <2>2. \A v : SolutionsBelow(v)' = SolutionsBelow(v)
    BY DEF SolutionsBelow
  <2>3. ASSUME NEW v \in calls', Returned(v)'
        PROVE  v \in calls /\ Returned(v)
    BY <1>7, <1>9, <2>3
  <2> QED BY <2>1, <2>2, <2>3 DEF ResultsDelivered
<1>17. verdict' # "running" => Returned(Root)'
  BY <1>5, <1>9, <1>11 DEF ResultInv
<1> QED BY <1>7, <1>13, <1>14, <1>15, <1>16, <1>17 DEF ResultInv

(* What a call that returns hands up is the number of solutions below it:  *)
(* they are those below the calls that it made, each below one of them.    *)
LEMMA ResultIsRight ==
  ASSUME SearchInv, ResultInv, NEW t, Return(t)
  PROVE  Result(t) = Cardinality(SolutionsBelow(t))
<1>0. N \in Nat /\ N > 0
  BY NFacts
<1>1. /\ t \in calls /\ frame[t].phase = "loop"
      /\ Leaf(t) \/ (Remaining(t) = {} /\ Joined(t))
  BY DEF Return
<1>2. /\ t \in Seq(Columns) /\ Len(t) \in Nat /\ Len(t) =< N /\ frame[t] \in Frame
      /\ LegalInv(t) /\ BoardInv(t) /\ LoopInv(t)
  BY <1>1, CallFacts
<1>3. /\ \A x \in 0 .. Len(t) - 1 : frame[t].buf[x] = t[x + 1]
      /\ frame[t].buf \in Boards
  BY <1>1, <1>2 DEF BoardInv, Frame
<1>4. CASE Leaf(t)
  <2>1. SolutionsBelow(t) = {frame[t].buf}
    <3>1. frame[t].buf \in Solutions /\ SolutionsBelow(t) \subseteq {frame[t].buf}
      BY <1>2, <1>3, <1>4, SolutionLeaf DEF Leaf
    <3>2. frame[t].buf \in SolutionsBelow(t)
      BY <1>3, <3>1 DEF SolutionsBelow
    <3> QED BY <3>1, <3>2
  <2> QED BY <1>4, <2>1, FS_Singleton DEF Result
<1>5. CASE ~ Leaf(t)
  <2> DEFINE n == frame[t].taskCount
             C == Children(t)
             child == [k \in 0 .. n - 1 |-> CHOOSE u \in C : frame[u].idx = k]
             below == [k \in 0 .. n - 1 |-> SolutionsBelow(child[k])]
  <2>0. Len(t) < N /\ Remaining(t) = {} /\ Joined(t)
    BY <1>0, <1>1, <1>2, <1>5 DEF Leaf
  <2>1. PlaceInv(t) /\ n \in 0 .. N
    BY <1>1, <1>2 DEF ResultInv, Frame
  <2>2. ASSUME NEW k \in 0 .. n - 1
        PROVE  child[k] \in C /\ frame[child[k]].idx = k
    <3>1. \E u \in C : frame[u].idx = k
      BY <2>1 DEF PlaceInv
    <3> QED BY <3>1
  <2>3. ASSUME NEW u \in C
        PROVE  /\ u \in calls /\ u # Root /\ Parent(u) = t /\ Returned(u)
               /\ frame[u].idx \in 0 .. n - 1 /\ child[frame[u].idx] = u
    <3>1. u \in calls /\ u # Root /\ Parent(u) = t
      BY DEF Children
    <3>2. frame[u].idx \in 0 .. n - 1
      BY <2>1 DEF PlaceInv
    <3>3. child[frame[u].idx] = u
      BY <2>1, <2>2, <3>2 DEF PlaceInv
    <3> QED BY <2>0, <3>1, <3>2, <3>3 DEF Joined
  <2>4. ASSUME NEW u \in C
        PROVE  /\ u \in Seq(Columns) /\ Len(u) = Len(t) + 1
               /\ \A s \in SolutionsBelow(u) : s \in SolutionsBelow(t) /\ s[Len(t)] = u[Len(t) + 1]
               /\ u = Append(t, u[Len(t) + 1])
    <3>1. u \in Seq(Columns) /\ u # Root /\ Parent(u) = t
      BY <2>3, CallFacts
    <3>2. /\ Len(u) \in Nat /\ Len(t) = Len(u) - 1
          /\ \A i \in 1 .. Len(u) - 1 : t[i] = u[i]
          /\ u = Append(t, u[Len(u)])
      BY <3>1, ParentName
    <3>3. Len(u) = Len(t) + 1
      BY <1>2, <3>2
    <3>4. ASSUME NEW s \in SolutionsBelow(u)
          PROVE  s \in SolutionsBelow(t) /\ s[Len(t)] = u[Len(t) + 1]
      <4>1. s \in Solutions /\ \A x \in 0 .. Len(t) : s[x] = u[x + 1]
        BY <1>2, <3>3 DEF SolutionsBelow
      <4>2. \A x \in 0 .. Len(t) - 1 : x \in 0 .. Len(t) /\ x + 1 \in 1 .. Len(u) - 1
        BY <1>2, <3>3
      <4>3. Len(t) \in 0 .. Len(t)
        BY <1>2
      <4> QED BY <3>2, <4>1, <4>2, <4>3 DEF SolutionsBelow
    <3> QED BY <3>1, <3>2, <3>3, <3>4
  <2> HIDE DEF child, C
  <2>5. ASSUME NEW k \in 0 .. n - 1
        PROVE  /\ IsFiniteSet(below[k])
               /\ values[t][k] = Cardinality(below[k])
    <3>1. /\ child[k] \in calls /\ child[k] # Root /\ Parent(child[k]) = t
          /\ Returned(child[k]) /\ frame[child[k]].idx = k
      BY <2>2, <2>3
    <3>2. Cardinality(SolutionsBelow(child[k])) = values[t][k]
      BY <3>1 DEF ResultInv, ResultsDelivered
    <3>3. IsFiniteSet(SolutionsBelow(child[k]))
      BY FiniteBelow
    <3>4. below[k] = SolutionsBelow(child[k])
      OBVIOUS
    <3> QED BY <3>2, <3>3, <3>4
  <2>6. ASSUME NEW k \in 0 .. n - 1, NEW j \in 0 .. n - 1, k # j
        PROVE  below[k] \cap below[j] = {}
    <3>1. child[k] \in C /\ child[j] \in C /\ child[k] # child[j]
      BY <2>2, <2>6
    <3>2. child[k][Len(t) + 1] # child[j][Len(t) + 1]
      BY <2>4, <3>1
    <3>3. SolutionsBelow(child[k]) \cap SolutionsBelow(child[j]) = {}
      BY <2>4, <3>1, <3>2
    <3> QED BY <3>3
  <2>7. UNION {below[k] : k \in 0 .. n - 1} = SolutionsBelow(t)
    <3>1. ASSUME NEW k \in 0 .. n - 1 PROVE below[k] \subseteq SolutionsBelow(t)
      <4>1. child[k] \in C /\ below[k] = SolutionsBelow(child[k])
        BY <2>2
      <4> QED BY <2>4, <4>1
    <3>2. ASSUME NEW s \in SolutionsBelow(t)
          PROVE  \E k \in 0 .. n - 1 : s \in below[k]
      <4> DEFINE y == s[Len(t)]
                 u == Append(t, y)
      <4>1. y \in Columns /\ Legal(frame[t].buf, Len(t), y) /\ s \in SolutionsBelow(u)
        BY <1>2, <1>3, <2>0, SolutionStep
      <4>2. u # Root /\ Parent(u) = t
        BY <1>2, <4>1, ChildName
      <4> HIDE DEF y
      <4>3. y \notin frame[t].ys
        BY <2>0, <4>1 DEF Remaining, LegalColumns
      <4>4. u \in calls
        BY <1>1, <1>2, <4>1, <4>3 DEF LoopInv
      <4> HIDE DEF u
      <4>5. u \in C
        BY <4>2, <4>4 DEF Children, C
      <4>6. frame[u].idx \in 0 .. n - 1 /\ below[frame[u].idx] = SolutionsBelow(u)
        BY <2>3, <4>5
      <4> QED BY <4>1, <4>6
    <3> HIDE DEF below
    <3> QED BY <3>1, <3>2
  <2>8. IsFiniteSet(0 .. n - 1)
    BY <1>0, <2>1, FS_Interval
  <2> HIDE DEF below
  <2>9. SumFunctionOnSet(values[t], 0 .. n - 1)
          = Cardinality(UNION {below[k] : k \in 0 .. n - 1})
    <3> DEFINE S == 0 .. n - 1
               f == values[t]
    <3>1. IsFiniteSet(S)
      BY <2>8
    <3>2. \A k \in S : IsFiniteSet(below[k]) /\ f[k] = Cardinality(below[k])
      BY <2>5
    <3>3. \A k, j \in S : k # j => below[k] \cap below[j] = {}
      BY <2>6
    <3> HIDE DEF S, f
    <3>4. SumFunctionOnSet(f, S) = Cardinality(UNION {below[k] : k \in S})
      BY <3>1, <3>2, <3>3, SumOfSizes
    <3> QED BY <3>4 DEF S, f
  <2> QED BY <1>5, <2>7, <2>9 DEF Result, Sum
<1> QED BY <1>4, <1>5

LEMMA ReturnResults ==
  ASSUME SearchInv, ResultInv, NEW t, Return(t)
  PROVE  ResultInv'
<1>1. /\ t \in calls /\ frame[t].phase = "loop"
      /\ frame' = [frame EXCEPT ![t].phase = "returned"]
      /\ verdict' = verdict
  BY DEF Return
<1>2. Result(t) = Cardinality(SolutionsBelow(t)) /\ Result(t) \in Nat
  BY ResultIsRight, FiniteBelow
<1>3. calls' = calls /\ frame[t] \in Frame /\ frame[t].idx \in Columns
  BY <1>1, CallFacts DEF calls, Frame
<1>4. /\ \A v \in calls : frame'[v].idx = frame[v].idx
      /\ \A v \in calls : frame'[v].taskCount = frame[v].taskCount
      /\ \A v \in calls : v # t => (Returned(v)' <=> Returned(v))
      /\ Returned(t)' /\ ~ Returned(t)
  BY <1>1, <1>3 DEF calls, Frame, Returned
<1>5. Root \in calls /\ \A v \in calls : v # Root => Parent(v) \in calls
  BY CallFacts DEF SearchInv, TypeOK, CallInv
<1>6. \A v : Children(v)' = Children(v) /\ Children(v) \subseteq calls
  BY <1>3 DEF Children
<1>7. DOMAIN values = calls /\ \A v \in calls : values[v] \in [Columns -> Int]
  BY DEF SearchInv, TypeOK, ResultInv, PlaceInv
<1>8. CASE t = Root
  <2>1. result' = Result(t) /\ values' = values
    BY <1>8 DEF Return
  <2>2. ResultsDelivered'
    <3>1. ASSUME NEW v \in calls, v # Root, Returned(v)
          PROVE  Cardinality(SolutionsBelow(v)) = values[Parent(v)][frame[v].idx]
      BY <3>1 DEF ResultInv, ResultsDelivered
    <3>2. \A v : SolutionsBelow(v)' = SolutionsBelow(v)
      BY DEF SolutionsBelow
    <3> QED BY <1>2, <1>3, <1>4, <1>8, <2>1, <3>1, <3>2 DEF ResultsDelivered
  <2>3. \A v \in calls : PlaceInv(v)'
    <3> SUFFICES ASSUME NEW v \in calls PROVE PlaceInv(v)'
      OBVIOUS
    <3>1. {frame'[u].idx : u \in Children(v)} = {frame[u].idx : u \in Children(v)}
      BY <1>4, <1>6
    <3>2. \A u \in Children(v) : frame'[u].idx = frame[u].idx
      BY <1>4, <1>6
    <3> QED BY <1>4, <1>6, <2>1, <3>1, <3>2 DEF ResultInv, PlaceInv
  <2> QED BY <1>1, <1>3, <1>4, <1>8, <2>2, <2>3 DEF ResultInv
<1>9. CASE t # Root
  <2> DEFINE p == Parent(t)
             i == frame[t].idx
  <2>1. /\ result' = result
        /\ values' = [values EXCEPT ![p][i] = Result(t)]
    BY <1>9 DEF Return
  <2>2. p \in calls /\ t \in Children(p)
    BY <1>1, <1>5, <1>9 DEF Children
  <2> HIDE DEF p, i
  <2>3. /\ \A v \in calls : v # p => values'[v] = values[v]
        /\ values'[p] = [values[p] EXCEPT ![i] = Result(t)]
    BY <1>7, <2>1, <2>2
  <2>4. /\ values'[p] \in [Columns -> Int]
        /\ values'[p][i] = Result(t)
        /\ \A k \in Columns : k # i => values'[p][k] = values[p][k]
    BY <1>2, <1>3, <1>7, <2>2, <2>3 DEF i
  <2>5. ResultsDelivered'
    <3>1. ASSUME NEW v \in calls, v # Root, v # t, Returned(v)
          PROVE  Cardinality(SolutionsBelow(v)) = values'[Parent(v)][frame[v].idx]
      <4>1. Cardinality(SolutionsBelow(v)) = values[Parent(v)][frame[v].idx]
        BY <3>1 DEF ResultInv, ResultsDelivered
      <4>2. CASE Parent(v) = p
        <5>1. v \in Children(p)
          BY <3>1, <4>2 DEF Children
        <5>2. frame[v].idx # i
          BY <2>2, <3>1, <5>1 DEF ResultInv, PlaceInv, i
        <5>3. frame[v].idx \in Columns
          BY CallFacts DEF Frame
        <5> QED BY <2>4, <4>1, <4>2, <5>2, <5>3
      <4>3. CASE Parent(v) # p
        BY <1>5, <2>3, <3>1, <4>1, <4>3
      <4> QED BY <4>2, <4>3
    <3>2. Returned(Root) => Cardinality(SolutionsBelow(Root)) = result
      BY <1>5 DEF ResultInv, ResultsDelivered
    <3>3. Cardinality(SolutionsBelow(t)) = values'[p][frame[t].idx]
      BY <1>2, <2>4 DEF i
    <3>4. \A v : SolutionsBelow(v)' = SolutionsBelow(v)
      BY DEF SolutionsBelow
    <3> QED BY <1>3, <1>4, <1>9, <2>1, <3>1, <3>2, <3>3, <3>4 DEF ResultsDelivered, p
  <2>6. ASSUME NEW v \in calls PROVE PlaceInv(v)'
    <3>1. {frame'[u].idx : u \in Children(v)} = {frame[u].idx : u \in Children(v)}
      BY <1>4, <1>6
    <3>2. \A u \in Children(v) : frame'[u].idx = frame[u].idx
      BY <1>4, <1>6
    <3>3. values'[v] \in [Columns -> Int]
      BY <1>7, <2>3, <2>4
    <3> QED BY <1>4, <1>6, <3>1, <3>2, <3>3 DEF ResultInv, PlaceInv
  <2> QED BY <1>1, <1>3, <1>4, <1>5, <1>9, <2>5, <2>6 DEF ResultInv
<1> QED BY <1>8, <1>9

LEMMA InitResults == Init => ResultInv
<1> SUFFICES ASSUME Init PROVE ResultInv
  OBVIOUS
<1>1. /\ calls = {Root} /\ frame[Root] = NewFrame(Blank, 0)
      /\ values[Root] = NewValues /\ verdict = "running"
  BY DEF Init, calls
<1>2. frame[Root].phase # "returned" /\ frame[Root].taskCount = 0 /\ Children(Root) = {}
  BY <1>1 DEF NewFrame, Children
<1>3. NewValues \in [Columns -> Int]
  BY DEF NewValues, Unwritten
<1>4. {frame[u].idx : u \in {}} = 0 .. 0 - 1
  OBVIOUS
<1>5. PlaceInv(Root)
  BY <1>1, <1>2, <1>3, <1>4 DEF PlaceInv
<1> QED BY <1>1, <1>2, <1>5 DEF ResultInv, ResultsDelivered, Returned

LEMMA StepResults == SearchInv /\ ResultInv /\ [Next]_vars => ResultInv'
<1> SUFFICES ASSUME SearchInv, ResultInv, [Next]_vars PROVE ResultInv'
  OBVIOUS
<1>1. ASSUME NEW t \in calls, ListColumns(t) PROVE ResultInv'
  BY <1>1, ListColumnsResults
<1>2. ASSUME NEW t \in calls, MakeCall(t) PROVE ResultInv'
  BY <1>2, MakeCallResults
<1>3. ASSUME NEW t \in calls, Return(t) PROVE ResultInv'
  BY <1>3, ReturnResults
<1>4. CASE check_answer \/ UNCHANGED vars
  <2>1. /\ frame' = frame /\ values' = values /\ result' = result
        /\ verdict' # "running" => Returned(Root)
    BY <1>4 DEF check_answer, vars, ResultInv
  <2>2. calls' = calls /\ \A v \in calls : Returned(v)' <=> Returned(v)
    BY <2>1 DEF calls, Returned
  <2>3. Root \in calls /\ \A v \in calls : v # Root => Parent(v) \in calls
    BY CallFacts DEF SearchInv, TypeOK, CallInv
  <2> QED BY <2>1, <2>2, <2>3, ResultsSame
<1>5. CASE Stopped
  BY <1>4, <1>5 DEF Stopped
<1> QED BY <1>1, <1>2, <1>3, <1>4, <1>5 DEF Next, Step
-----------------------------------------------------------------------------
(* The inductive invariant holds in every reachable state.                 *)
THEOREM Invariance == Spec => []IInv
<1>1. Init => IInv
  BY InitSearch, InitResults DEF IInv
<1>2. IInv /\ [Next]_vars => IInv'
  BY StepSearch, StepResults DEF IInv
<1> QED BY <1>1, <1>2, PTL DEF Spec

(* The board in a call's frame is the one it was made for, although its    *)
(* parent changes the board it was copied from.                            *)
THEOREM BoardsAreOwn == Spec => []OwnBoard
<1>1. IInv => OwnBoard
  BY CallFacts DEF OwnBoard, BoardInv, IInv
<1> QED BY <1>1, Invariance, PTL

(* A call that stores its result finds its parent's frame: no call returns *)
(* before those it has made.                                               *)
THEOREM NoDanglingResult == Spec => []FramesOutlive
<1>1. IInv => FramesOutlive
  BY DEF IInv, SearchInv
<1> QED BY <1>1, Invariance, PTL

(* When main() has a result, the search has been through every solution,   *)
(* and never through anything else.                                        *)
LEMMA RootDone ==
  ASSUME SearchInv, Returned(Root)
  PROVE  found = Solutions
<1>1. FoundInv(Root)
  BY CallFacts DEF SearchInv, TypeOK
<1>2. SolutionsBelow(Root) = Solutions
  BY DEF SolutionsBelow, Root
<1> QED BY <1>1, <1>2 DEF FoundInv, SearchInv

THEOREM SearchIsComplete == Spec => []AllFound
<1>1. IInv => AllFound
  BY RootDone DEF AllFound, IInv, SearchInv
<1> QED BY <1>1, Invariance, PTL

(* Each call that has returned has put the number of solutions below it in *)
(* the place that its parent adds up, and main() has the number of all.    *)
THEOREM ResultsAreRight ==
  Spec => [](ResultsDelivered /\ (Returned(Root) => result = Cardinality(Solutions)))
<1>1. ASSUME IInv
      PROVE  ResultsDelivered /\ (Returned(Root) => result = Cardinality(Solutions))
  <2>1. Root \in calls /\ ResultsDelivered
    BY <1>1 DEF IInv, SearchInv, TypeOK, ResultInv
  <2>2. SolutionsBelow(Root) = Solutions
    BY DEF SolutionsBelow, Root
  <2> QED BY <2>1, <2>2 DEF ResultsDelivered
<1> QED BY <1>1, Invariance, PTL

-----------------------------------------------------------------------------
(* A leaf that returns has a board that no call has found before.          *)
LEMMA LeafFinds ==
  ASSUME SearchInv, NEW t, Return(t), Leaf(t)
  PROVE  /\ frame[t].buf \in Solutions \ found
         /\ found' = found \cup {frame[t].buf}
<1>1. /\ t \in calls /\ frame[t].phase = "loop"
      /\ frame' = [frame EXCEPT ![t].phase = "returned"]
  BY DEF Return
<1>2. /\ t \in Seq(Columns) /\ Len(t) = N /\ frame[t] \in Frame
      /\ LegalInv(t) /\ BoardInv(t)
  BY <1>1, CallFacts DEF Leaf
<1>3. \A x \in 0 .. Len(t) - 1 : frame[t].buf[x] = t[x + 1]
  BY <1>1, <1>2 DEF BoardInv
<1>4. frame[t].buf \in Solutions
  BY <1>2, <1>3, SolutionLeaf DEF Frame
<1>5. ASSUME frame[t].buf \in found PROVE FALSE
  <2>1. PICK v \in calls : Leaf(v) /\ Returned(v) /\ frame[v].buf = frame[t].buf
    BY <1>5 DEF found
  <2>2. v \in Seq(Columns) /\ Len(v) = N /\ BoardInv(v)
    BY <2>1, CallFacts DEF Leaf
  <2>3. \A x \in 0 .. N - 1 : v[x + 1] = t[x + 1]
    BY <1>2, <1>3, <2>1, <2>2 DEF BoardInv, Returned
  <2>4. \A i \in 1 .. N : v[i] = t[i]
    <3>1. \A i \in 1 .. N : i - 1 \in 0 .. N - 1 /\ (i - 1) + 1 = i
      BY NFacts
    <3> QED BY <2>3, <3>1
  <2>5. v = t
    BY <1>2, <2>2, <2>4
  <2> QED BY <1>1, <2>1, <2>5 DEF Returned
<1>6. found' = found \cup {frame[t].buf}
  <2> DEFINE done  == {v \in calls : Leaf(v) /\ Returned(v)}
             done1 == {v \in calls : Leaf(v) /\ Returned(v)'}
  <2>1. calls' = calls /\ \A v \in calls : frame'[v].buf = frame[v].buf
    BY <1>1, <1>2 DEF calls, Frame
  <2>2. done1 = done \cup {t}
    BY <1>1, <1>2, <2>1 DEF calls, Frame, Returned
  <2>3. found = {frame[v].buf : v \in done} /\ found' = {frame'[v].buf : v \in done1}
    BY <2>1 DEF found, Leaf
  <2>4. done1 \subseteq calls
    OBVIOUS
  <2>5. found' = {frame[v].buf : v \in done1}
    <3> HIDE DEF done, done1
    <3> QED BY <2>1, <2>3, <2>4
  <2> HIDE DEF done, done1
  <2> QED BY <2>2, <2>3, <2>5
<1> QED BY <1>4, <1>5, <1>6

(* Any other step finds nothing.                                           *)
LEMMA NothingFound ==
  ASSUME SearchInv, NEW t,
         ListColumns(t) \/ MakeCall(t) \/ (Return(t) /\ ~ Leaf(t))
  PROVE  found' = found
<1>1. CASE ListColumns(t)
  <2>1. /\ t \in calls /\ frame[t].phase = "made"
        /\ frame' = [frame EXCEPT ![t].phase = "loop", ![t].buf = StartBoard(t),
                       ![t].ys = LegalColumns(StartBoard(t), Len(t))]
    BY <1>1 DEF ListColumns
  <2>2. calls' = calls /\ frame[t] \in Frame
    BY <2>1, CallFacts DEF calls
  <2>3. frame'[t].phase = "loop" /\ \A v \in calls : v # t => frame'[v] = frame[v]
    BY <2>1, <2>2 DEF calls, Frame
  <2> DEFINE done  == {v \in calls : Leaf(v) /\ Returned(v)}
             done1 == {v \in calls : Leaf(v) /\ Returned(v)'}
  <2>4. done1 = done /\ \A v \in done : frame'[v] = frame[v]
    BY <2>1, <2>2, <2>3 DEF Returned, Frame
  <2>5. found = {frame[v].buf : v \in done} /\ found' = {frame'[v].buf : v \in done1}
    BY <2>2 DEF found, Leaf
  <2> HIDE DEF done, done1
  <2> QED BY <2>4, <2>5
<1>2. CASE MakeCall(t)
  <2>1. PICK y \in Remaining(t) : MakeCallFor(t, y)
    BY <1>2 DEF MakeCall
  <2> DEFINE u == Append(t, y)
  <2>2. t \in calls /\ frame[t].phase = "loop"
    BY <1>2 DEF MakeCall, Looping
  <2>3. t \in Seq(Columns) /\ frame[t] \in Frame /\ y \in Columns /\ y \in frame[t].ys
    BY <2>2, CallFacts DEF Remaining, LegalColumns
  <2>4. u # Root /\ u # t /\ Parent(u) = t /\ u[Len(u)] = y
    BY <2>3, ChildName
  <2>5. u \notin calls
    <3>1. u \in calls => CallInv(u)
      BY CallFacts
    <3> QED BY <2>3, <2>4, <3>1 DEF CallInv
  <2>6. /\ calls' = calls \cup {u}
        /\ \A v \in calls : v # t => frame'[v] = frame[v]
        /\ frame'[t].phase = "loop" /\ frame'[u].phase # "returned"
    <3> DEFINE b == IF how.copy = "made" THEN [frame[t].buf EXCEPT ![Len(t)] = y]
                                         ELSE frame[t].buf
    <3>1. frame' = [v \in calls \cup {u} |->
             CASE v = t -> [frame[t] EXCEPT !.buf = b,
                                            !.ys = {z \in @ : z > y},
                                            !.taskCount = @ + 1]
               [] v = u -> NewFrame(b, Place(frame[t]))
               [] OTHER -> frame[v]]
      BY <2>1 DEF MakeCallFor
    <3> HIDE DEF b, u
    <3>2. calls' = calls \cup {u}
      BY <3>1 DEF calls
    <3>3. /\ frame'[u] = NewFrame(b, Place(frame[t]))
          /\ frame'[t] = [frame[t] EXCEPT !.buf = b, !.ys = {z \in @ : z > y},
                                          !.taskCount = @ + 1]
          /\ \A v \in calls : v # t => frame'[v] = frame[v]
      BY <2>2, <2>4, <2>5, <3>1
    <3> QED BY <2>2, <2>3, <3>2, <3>3 DEF NewFrame, Frame
  <2> HIDE DEF u
  <2> DEFINE done  == {v \in calls : Leaf(v) /\ Returned(v)}
             done1 == {v \in calls' : Leaf(v) /\ Returned(v)'}
  <2>7. done1 = done /\ \A v \in done : frame'[v] = frame[v]
    BY <2>2, <2>6 DEF Returned
  <2>8. found = {frame[v].buf : v \in done} /\ found' = {frame'[v].buf : v \in done1}
    BY DEF found, Leaf
  <2> HIDE DEF done, done1
  <2> QED BY <2>7, <2>8
<1>3. CASE Return(t) /\ ~ Leaf(t)
  <2>1. /\ t \in calls /\ frame[t].phase = "loop" /\ frame[t] \in Frame
        /\ frame' = [frame EXCEPT ![t].phase = "returned"]
    BY <1>3, CallFacts DEF Return
  <2>2. calls' = calls /\ \A v \in calls : v # t => frame'[v] = frame[v]
    BY <2>1 DEF calls
  <2> DEFINE done  == {v \in calls : Leaf(v) /\ Returned(v)}
             done1 == {v \in calls : Leaf(v) /\ Returned(v)'}
  <2>3. done1 = done /\ \A v \in done : frame'[v] = frame[v]
    BY <1>3, <2>1, <2>2 DEF Returned
  <2>4. found = {frame[v].buf : v \in done} /\ found' = {frame'[v].buf : v \in done1}
    BY <2>2 DEF found, Leaf
  <2> HIDE DEF done, done1
  <2> QED BY <2>3, <2>4
<1> QED BY <1>1, <1>2, <1>3

(* Where the table of answers has the number of solutions, the programs    *)
(* implement the promise of a search: each solution is found once, by one  *)
(* call, and check_answer() accepts the number after all of them.          *)
THEOREM Refinement ==
  ASSUME answers[N + 1] = Cardinality(Solutions)
  PROVE  Spec => PromiseKept
<1>1. Init => Promise!Init
  BY DEF Init, Promise!Init, found, Returned, calls, NewFrame
<1>2. IInv /\ [Next]_vars => [Promise!Next]_(Promise!promiseVars)
  <2> SUFFICES ASSUME IInv, [Next]_vars
               PROVE  Promise!Next \/ UNCHANGED <<found, verdict>>
    BY DEF Promise!promiseVars
  <2>0. SearchInv /\ ResultInv
    BY DEF IInv
  <2>1. ASSUME NEW t \in calls, Step(t)
        PROVE  Promise!Find \/ UNCHANGED <<found, verdict>>
    <3>1. verdict' = verdict
      BY <2>1 DEF Step, ListColumns, MakeCall, MakeCallFor, Return
    <3>2. CASE Return(t) /\ Leaf(t)
      <4>1. frame[t].buf \in Solutions \ found /\ found' = found \cup {frame[t].buf}
        BY <2>0, <3>2, LeafFinds
      <4>2. verdict = "running"
        BY <2>0, <4>1, RootDone DEF ResultInv
      <4> QED BY <3>1, <4>1, <4>2 DEF Promise!Find
    <3>3. CASE ~ (Return(t) /\ Leaf(t))
      BY <2>0, <2>1, <3>1, <3>3, NothingFound DEF Step
    <3> QED BY <3>2, <3>3
  <2>2. CASE check_answer
    <3>1. /\ verdict = "running" /\ Returned(Root) /\ frame' = frame
          /\ verdict' = IF result = answers[N + 1] THEN "correct" ELSE "wrong"
      BY <2>2 DEF check_answer
    <3>2. found = Solutions
      BY <2>0, <3>1, RootDone
    <3>3. result = Cardinality(Solutions)
      <4>1. SolutionsBelow(Root) = Solutions
        BY DEF SolutionsBelow, Root
      <4>2. Root \in calls
        BY <2>0 DEF SearchInv, TypeOK
      <4> QED BY <2>0, <3>1, <4>1, <4>2 DEF ResultInv, ResultsDelivered
    <3>4. found' = found
      BY <3>1 DEF found, calls, Returned, Leaf
    <3> QED BY <3>1, <3>2, <3>3, <3>4 DEF Promise!Next, Promise!Check
  <2>3. CASE UNCHANGED vars
    BY <2>3 DEF vars, found, calls, Returned, Leaf
  <2> QED BY <2>1, <2>2, <2>3 DEF Next, Stopped, Promise!Next
<1> QED BY <1>1, <1>2, Invariance, PTL DEF Spec, PromiseKept, Promise!Spec
-----------------------------------------------------------------------------
(* The recursion of the fib.cpp and skynet.cpp programs, module ForkJoin.  *)
(* Any programs, ways to make calls and arguments will do if the recursion *)
(* is right, as its module assumes.                                        *)
CONSTANTS Recursions, Ways, Threads, Arity, RootArg(_), IsLeaf(_), LeafValue(_),
          ChildArg(_, _), Args, Total(_)
VARIABLE stack

Rec == INSTANCE ForkJoin WITH Programs <- Recursions, How <- Ways

RightRec == Rec!ForkJoinAssumption /\ Rec!TotalAssumption

CallNames == Seq(1 .. Arity)

-----------------------------------------------------------------------------
(* Names of calls.                                                         *)
LEMMA ChildOfName ==
  ASSUME NEW t \in CallNames, NEW k \in 1 .. Arity
  PROVE  /\ Append(t, k) \in CallNames
         /\ Append(t, k) # Rec!Root /\ Append(t, k) # t
         /\ Rec!Front(Append(t, k)) = t /\ Rec!Last(Append(t, k)) = k
<1>1. /\ Append(t, k) \in CallNames /\ Len(t) \in Nat
      /\ Len(Append(t, k)) = Len(t) + 1
      /\ Append(t, k)[Len(t) + 1] = k
  BY DEF CallNames
<1>2. Append(t, k) # t /\ Append(t, k) # Rec!Root
  BY <1>1 DEF Rec!Root, CallNames
<1>3. SubSeq(Append(t, k), 1, Len(t)) = t
  BY <1>1 DEF CallNames
<1>4. Len(Append(t, k)) - 1 = Len(t)
  BY <1>1
<1>5. Rec!Front(Append(t, k)) = t /\ Rec!Last(Append(t, k)) = k
  BY <1>1, <1>3, <1>4 DEF Rec!Front, Rec!Last
<1> QED BY <1>1, <1>2, <1>5

LEMMA FrontAndLast ==
  ASSUME NEW S, NEW t \in Seq(S), t # <<>>
  PROVE  /\ Rec!Front(t) \in Seq(S) /\ Rec!Last(t) \in S
         /\ Rec!Front(t) # t /\ t = Append(Rec!Front(t), Rec!Last(t))
<1>1. Len(t) \in Nat /\ Len(t) > 0
  OBVIOUS
<1>2. /\ Rec!Front(t) \in Seq(S) /\ Len(Rec!Front(t)) = Len(t) - 1
      /\ \A i \in 1 .. Len(t) - 1 : Rec!Front(t)[i] = t[i]
  <2> DEFINE n == Len(t) - 1
  <2>1. n \in Nat /\ n =< Len(t)
    BY <1>1
  <2>2. /\ SubSeq(t, 1, n) \in Seq(S) /\ Len(SubSeq(t, 1, n)) = n
        /\ \A i \in 1 .. n : SubSeq(t, 1, n)[i] = t[i]
    <3> HIDE DEF n
    <3> QED BY <2>1
  <2> QED BY <2>2 DEF Rec!Front
<1>3. Rec!Last(t) \in S
  BY <1>1 DEF Rec!Last
<1>4. t = Append(Rec!Front(t), Rec!Last(t))
  BY <1>1, <1>2 DEF Rec!Last
<1> QED BY <1>1, <1>2, <1>3, <1>4

LEMMA CallerOfName ==
  ASSUME NEW t \in CallNames, t # Rec!Root
  PROVE  /\ Rec!Front(t) \in CallNames /\ Rec!Last(t) \in 1 .. Arity
         /\ Rec!Front(t) # t /\ t = Append(Rec!Front(t), Rec!Last(t))
BY FrontAndLast DEF CallNames, Rec!Root

(* What the invariant says of the types of one call.                       *)
LEMMA CallTyped ==
  ASSUME RightRec, Rec!IInv, NEW t \in Rec!calls
  PROVE  /\ t \in CallNames /\ Arity \in Nat /\ Arity > 0
         /\ frame[t] \in Rec!Frame
         /\ frame[t].made \in 0 .. Arity /\ frame[t].arg \in Args
         /\ frame[t].at \in {"making", "joining", "returned"}
         /\ frame[t].results \in [1 .. Arity -> Rec!Values]
         /\ Rec!CallInv(t) /\ Rec!ChildInv(t) /\ Rec!MadeInv(t) /\ Rec!ReturnInv(t)
<1>1. /\ t \in CallNames /\ frame[t] \in Rec!Frame
  BY DEF Rec!IInv, Rec!TypeOK, CallNames
<1>2. Arity \in Nat /\ Arity > 0
  BY DEF RightRec, Rec!ForkJoinAssumption
<1> QED BY <1>1, <1>2 DEF Rec!IInv, Rec!Frame

LEMMA ForkedFacts ==
  ASSUME RightRec
  PROVE  Arity \in Nat /\ Arity > 0 /\ Rec!Forked \in Nat /\ Rec!Forked =< Arity
BY DEF RightRec, Rec!ForkJoinAssumption, Rec!Forked

LEMMA InitRecInv ==
  ASSUME RightRec, Rec!Init
  PROVE  Rec!IInv
<1>1. Arity \in Nat /\ Arity > 0
  BY DEF RightRec, Rec!ForkJoinAssumption
<1>2. /\ Rec!calls = {Rec!Root} /\ frame[Rec!Root] = Rec!NewFrame(RootArg(program))
      /\ program \in Recursions
  BY DEF Rec!Init, Rec!calls
<1>3. RootArg(program) \in Args
  BY <1>2 DEF RightRec, Rec!TotalAssumption
<1>4. Rec!NewFrame(RootArg(program)) \in Rec!Frame
  BY <1>1, <1>3 DEF Rec!NewFrame, Rec!Frame, Rec!Values
<1>5. Rec!Root \in CallNames
  BY DEF Rec!Root, CallNames
<1>6. \A w \in Rec!pool : stack[w] \in Seq(Rec!calls)
  <2>1. \A w \in Rec!pool : stack[w] = <<>>
    BY DEF Rec!Init, Rec!pool
  <2>2. <<>> \in Seq(Rec!calls)
    OBVIOUS
  <2> QED BY <2>1, <2>2
<1>7. Rec!TypeOK
  BY <1>2, <1>4, <1>5, <1>6 DEF Rec!TypeOK, Rec!Init, Rec!Values, CallNames
<1>8. /\ frame[Rec!Root].made = 0 /\ frame[Rec!Root].at = "making"
  BY <1>2 DEF Rec!NewFrame
<1>9. \A t \in Rec!calls : Rec!CallInv(t) /\ Rec!ChildInv(t) /\ Rec!MadeInv(t) /\ Rec!ReturnInv(t)
  BY <1>2, <1>8 DEF Rec!CallInv, Rec!ChildInv, Rec!MadeInv, Rec!ReturnInv
<1>10. Rec!RootInv
  BY <1>8 DEF Rec!RootInv, Rec!Returned
<1> QED BY <1>7, <1>9, <1>10 DEF Rec!IInv

(* Making calls preserves the invariant.                                   *)
LEMMA MakeInv ==
  ASSUME RightRec, Rec!IInv, NEW t \in Rec!calls, frame[t].at = "making", ~ IsLeaf(frame[t].arg),
         NEW k \in 1 .. Arity, frame[t].made < k,
         NEW at \in {"making", "joining"}, at = "joining" => k = Arity,
         frame' = Rec!WithCalls(t, k, at),
         UNCHANGED <<program, result>>,
         \A w \in Rec!pool' : stack'[w] \in Seq(Rec!calls')
  PROVE  Rec!IInv'
<1> DEFINE new == {Append(t, j) : j \in frame[t].made + 1 .. k}
<1>1. /\ t \in CallNames /\ Arity \in Nat /\ frame[t] \in Rec!Frame
      /\ frame[t].made \in 0 .. Arity /\ frame[t].arg \in Args
  BY CallTyped
<1>2. Rec!calls' = Rec!calls \cup new
  BY DEF Rec!WithCalls, Rec!calls
<1>3. frame'[t] = [frame[t] EXCEPT !.made = k, !.at = at]
  <2>1. t \in Rec!calls \cup {Append(t, j) : j \in frame[t].made + 1 .. k}
    OBVIOUS
  <2> QED BY <2>1 DEF Rec!WithCalls, Rec!calls
<1>4. \A u \in Rec!calls : u # t => frame'[u] = frame[u]
  BY DEF Rec!WithCalls, Rec!calls
<1>5. \A u \in new \ Rec!calls : frame'[u] = Rec!NewFrame(ChildArg(frame[t].arg, Rec!Last(u)))
  BY DEF Rec!WithCalls, Rec!calls
<1>6. /\ frame'[t].made = k /\ frame'[t].at = at /\ frame'[t].arg = frame[t].arg
      /\ frame'[t].results = frame[t].results /\ frame'[t] \in Rec!Frame
  <2>1. k \in 0 .. Arity /\ at \in {"making", "joining", "returned"}
    BY <1>1
  <2> QED BY <1>1, <1>3, <2>1 DEF Rec!Frame
<1>7. \A u \in new : \E j \in frame[t].made + 1 .. k :
        u = Append(t, j) /\ u \in CallNames /\ u # Rec!Root /\ Rec!Front(u) = t /\ Rec!Last(u) = j
              /\ j \in 1 .. Arity
  <2>1. \A j \in frame[t].made + 1 .. k : j \in 1 .. Arity
    BY <1>1
  <2>2. \A j \in 1 .. Arity :
          /\ Append(t, j) \in CallNames /\ Append(t, j) # Rec!Root
          /\ Rec!Front(Append(t, j)) = t /\ Rec!Last(Append(t, j)) = j
    BY <1>1, ChildOfName
  <2> QED BY <2>1, <2>2
<1>8. \A u \in new \ Rec!calls :
        /\ frame'[u] \in Rec!Frame /\ frame'[u].made = 0 /\ frame'[u].at = "making"
        /\ frame'[u].arg = ChildArg(frame[t].arg, Rec!Last(u))
  <2> SUFFICES ASSUME NEW u \in new \ Rec!calls
               PROVE  /\ frame'[u] \in Rec!Frame /\ frame'[u].made = 0
                      /\ frame'[u].at = "making"
                      /\ frame'[u].arg = ChildArg(frame[t].arg, Rec!Last(u))
    OBVIOUS
  <2>1. ChildArg(frame[t].arg, Rec!Last(u)) \in Args
    BY <1>1, <1>7 DEF RightRec, Rec!TotalAssumption
  <2>2. Rec!NewFrame(ChildArg(frame[t].arg, Rec!Last(u))) \in Rec!Frame
    BY <1>1, <2>1 DEF Rec!NewFrame, Rec!Frame, Rec!Values
  <2> QED BY <1>5, <2>2 DEF Rec!NewFrame
<1>9. \A u \in Rec!calls : /\ frame'[u].arg = frame[u].arg
                           /\ frame'[u].results = frame[u].results
                           /\ frame[u].made =< frame'[u].made
                           /\ Rec!Returned(u)' <=> Rec!Returned(u)
  <2> SUFFICES ASSUME NEW u \in Rec!calls
               PROVE  /\ frame'[u].arg = frame[u].arg
                      /\ frame'[u].results = frame[u].results
                      /\ frame[u].made =< frame'[u].made
                      /\ Rec!Returned(u)' <=> Rec!Returned(u)
    OBVIOUS
  <2>1. CASE u = t
    BY <2>1, <1>1, <1>6 DEF Rec!Returned
  <2>2. CASE u # t
    <3>1. frame[u].made \in 0 .. Arity
      BY CallTyped
    <3> QED BY <2>2, <3>1, <1>4 DEF Rec!Returned
  <2> QED BY <2>1, <2>2
<1>10. Rec!TypeOK'
  <2>1. \A u \in Rec!calls' : u \in CallNames /\ frame'[u] \in Rec!Frame
    <3> SUFFICES ASSUME NEW u \in Rec!calls' PROVE u \in CallNames /\ frame'[u] \in Rec!Frame
      OBVIOUS
    <3>1. CASE u \in Rec!calls
      <4>1. u \in CallNames /\ frame[u] \in Rec!Frame
        BY <3>1, CallTyped
      <4> QED BY <4>1, <3>1, <1>4, <1>6
    <3>2. CASE u \in new \ Rec!calls
      BY <3>2, <1>7, <1>8
    <3> QED BY <3>1, <3>2, <1>2
  <2>2. program' \in Recursions /\ Rec!Root \in Rec!calls' /\ result' \in Rec!Values
    BY <1>2 DEF Rec!IInv, Rec!TypeOK
  <2> QED BY <2>1, <2>2 DEF Rec!TypeOK, CallNames, Rec!Frame, Rec!Values
<1>11. ASSUME NEW u \in Rec!calls' PROVE Rec!CallInv(u)'
  <2> SUFFICES ASSUME u # Rec!Root
               PROVE  Rec!Front(u) \in Rec!calls' /\ Rec!Last(u) =< frame'[Rec!Front(u)].made
    BY DEF Rec!CallInv
  <2>1. CASE u \in Rec!calls
    <3>1. Rec!Front(u) \in Rec!calls /\ Rec!Last(u) =< frame[Rec!Front(u)].made
      BY <2>1, CallTyped DEF Rec!CallInv
    <3>2. Rec!Last(u) \in Int /\ frame[Rec!Front(u)].made \in Int
      BY <2>1, <3>1, CallTyped, CallerOfName
    <3>3. Rec!Front(u) \in Rec!calls' /\ frame[Rec!Front(u)].made =< frame'[Rec!Front(u)].made
      BY <3>1, <1>2, <1>9
    <3>4. frame'[Rec!Front(u)].made \in Int
      BY <3>3, <1>10 DEF Rec!TypeOK, Rec!Frame
    <3> QED BY <3>1, <3>2, <3>3, <3>4
  <2>2. CASE u \in new
    BY <2>2, <1>1, <1>2, <1>6, <1>7
  <2> QED BY <2>1, <2>2, <1>2
<1>12. ASSUME NEW u \in Rec!calls' PROVE Rec!ChildInv(u)' /\ Rec!ReturnInv(u)'
  <2>1. CASE u \in Rec!calls /\ u # t
    <3>1. frame'[u] = frame[u] /\ Rec!ChildInv(u) /\ Rec!ReturnInv(u)
      BY <2>1, <1>4, CallTyped
    <3>2. ASSUME NEW j \in 1 .. frame'[u].made
          PROVE  /\ Append(u, j) \in Rec!calls'
                 /\ frame'[Append(u, j)].arg = ChildArg(frame'[u].arg, j)
                 /\ Rec!Returned(u)' => Rec!Returned(Append(u, j))'
                 /\ Rec!Returned(Append(u, j))' =>
                      frame'[u].results[j] = Total(ChildArg(frame'[u].arg, j))
      <4>1. /\ Append(u, j) \in Rec!calls
            /\ frame[Append(u, j)].arg = ChildArg(frame[u].arg, j)
            /\ Rec!Returned(u) => Rec!Returned(Append(u, j))
            /\ Rec!Returned(Append(u, j)) =>
                 frame[u].results[j] = Total(ChildArg(frame[u].arg, j))
        BY <3>1, <3>2 DEF Rec!ChildInv, Rec!ReturnInv
      <4>2. /\ frame'[Append(u, j)].arg = frame[Append(u, j)].arg
            /\ Rec!Returned(Append(u, j))' <=> Rec!Returned(Append(u, j))
            /\ Rec!Returned(u)' <=> Rec!Returned(u)
        BY <4>1, <2>1, <1>9
      <4> QED BY <4>1, <4>2, <3>1, <1>2
    <3> QED BY <3>2 DEF Rec!ChildInv, Rec!ReturnInv
  <2>2. CASE u = t
    <3>1. ~ Rec!Returned(t) /\ ~ Rec!Returned(t)'
      BY <1>6 DEF Rec!Returned
    <3>2. ASSUME NEW j \in 1 .. k
          PROVE  /\ Append(t, j) \in Rec!calls'
                 /\ frame'[Append(t, j)].arg = ChildArg(frame'[t].arg, j)
                 /\ Rec!Returned(Append(t, j))' =>
                      frame'[t].results[j] = Total(ChildArg(frame'[t].arg, j))
      <4>1. CASE j =< frame[t].made
        <5>1. j \in 1 .. frame[t].made
          BY <4>1, <1>1
        <5>2. /\ Append(t, j) \in Rec!calls
              /\ frame[Append(t, j)].arg = ChildArg(frame[t].arg, j)
              /\ Rec!Returned(Append(t, j)) =>
                   frame[t].results[j] = Total(ChildArg(frame[t].arg, j))
          BY <5>1, CallTyped DEF Rec!ChildInv, Rec!ReturnInv
        <5>3. /\ frame'[Append(t, j)].arg = frame[Append(t, j)].arg
              /\ Rec!Returned(Append(t, j))' <=> Rec!Returned(Append(t, j))
          BY <5>2, <1>9
        <5> QED BY <5>2, <5>3, <1>2, <1>6
      <4>2. CASE ~ (j =< frame[t].made)
        <5>1. Append(t, j) \in new
          BY <4>2, <1>1
        <5>2. j \in 1 .. Arity
          BY <1>1
        <5>3. Rec!Last(Append(t, j)) = j /\ Rec!Front(Append(t, j)) = t /\ Append(t, j) # Rec!Root
          BY <1>1, <5>2, ChildOfName
        <5>4. Append(t, j) \notin Rec!calls
          <6> SUFFICES ASSUME Append(t, j) \in Rec!calls PROVE FALSE
            OBVIOUS
          <6>1. j =< frame[t].made
            BY <5>3, CallTyped DEF Rec!CallInv
          <6> QED BY <6>1, <4>2
        <5>5. /\ frame'[Append(t, j)].arg = ChildArg(frame[t].arg, j)
              /\ frame'[Append(t, j)].at = "making"
          BY <5>1, <5>3, <5>4, <1>8
        <5> QED BY <5>1, <5>5, <1>2, <1>6 DEF Rec!Returned
      <4> QED BY <4>1, <4>2
    <3> QED BY <2>2, <3>1, <3>2, <1>6 DEF Rec!ChildInv, Rec!ReturnInv
  <2>3. CASE u \in new \ Rec!calls
    BY <2>3, <1>8 DEF Rec!ChildInv, Rec!ReturnInv
  <2> QED BY <2>1, <2>2, <2>3, <1>2
<1>13. ASSUME NEW u \in Rec!calls' PROVE Rec!MadeInv(u)'
  <2>1. CASE u \in Rec!calls /\ u # t
    BY <2>1, <1>4, CallTyped DEF Rec!MadeInv
  <2>2. CASE u = t
    BY <2>2, <1>6 DEF Rec!MadeInv
  <2>3. CASE u \in new \ Rec!calls
    BY <2>3, <1>8 DEF Rec!MadeInv
  <2> QED BY <2>1, <2>2, <2>3, <1>2
<1>14. Rec!RootInv'
  <2>1. Rec!Root \in Rec!calls /\ Rec!RootInv
    BY DEF Rec!IInv, Rec!TypeOK
  <2>2. /\ frame'[Rec!Root].arg = frame[Rec!Root].arg
        /\ Rec!Returned(Rec!Root)' <=> Rec!Returned(Rec!Root)
    BY <2>1, <1>9
  <2> QED BY <2>1, <2>2 DEF Rec!RootInv
<1> QED BY <1>10, <1>11, <1>12, <1>13, <1>14 DEF Rec!IInv

LEMMA ForkStep ==
  ASSUME RightRec, Rec!IInv, NEW t \in Rec!calls, Rec!Fork(t)
  PROVE  Rec!IInv'
<1> DEFINE k == IF Rec!how.start = "held" THEN Rec!Forked ELSE frame[t].made + 1
<1> DEFINE at == IF k = Arity THEN "joining" ELSE "making"
<1>1. /\ Rec!Forked \in Nat /\ Rec!Forked =< Arity /\ Arity \in Nat
      /\ frame[t].made \in 0 .. Arity
  BY CallTyped, ForkedFacts
<1>2. frame[t].made < Rec!Forked /\ frame[t].at = "making" /\ ~ IsLeaf(frame[t].arg)
  BY DEF Rec!Fork
<1>3. k \in 1 .. Arity /\ frame[t].made < k
  BY <1>1, <1>2
<1>4. frame' = Rec!WithCalls(t, k, at) /\ UNCHANGED <<program, stack, result>>
  BY DEF Rec!Fork
<1>5. at \in {"making", "joining"} /\ (at = "joining" => k = Arity)
  OBVIOUS
<1>6. \A w \in Rec!pool' : stack'[w] \in Seq(Rec!calls')
  <2>1. Rec!calls \subseteq Rec!calls'
    BY <1>4 DEF Rec!WithCalls, Rec!calls
  <2>2. \A w \in Rec!pool : stack[w] \in Seq(Rec!calls)
    BY DEF Rec!IInv, Rec!TypeOK
  <2>3. \A w \in Rec!pool : stack[w] \in Seq(Rec!calls')
    BY <2>1, <2>2
  <2> QED BY <2>3, <1>4 DEF Rec!pool
<1> HIDE DEF k, at
<1> QED BY <1>2, <1>3, <1>4, <1>5, <1>6, MakeInv

LEMMA CallStep ==
  ASSUME RightRec, Rec!IInv, NEW t \in Rec!calls, Rec!Call(t)
  PROVE  Rec!IInv'
<1>1. /\ Arity \in 1 .. Arity /\ frame[t].made < Arity
      /\ frame[t].at = "making" /\ ~ IsLeaf(frame[t].arg)
  BY CallTyped, ForkedFacts DEF Rec!Call
<1>2. frame' = Rec!WithCalls(t, Arity, "joining") /\ UNCHANGED <<program, result>>
  BY DEF Rec!Call
<1>3. \A w \in Rec!pool' : stack'[w] \in Seq(Rec!calls')
  <2>1. Rec!calls \subseteq Rec!calls'
    BY <1>2 DEF Rec!WithCalls, Rec!calls
  <2>2. frame[t].made + 1 =< Arity /\ frame[t].made \in Nat /\ Arity \in Nat
    BY <1>1, CallTyped
  <2>3. Append(t, Arity) \in Rec!calls'
    BY <1>2, <2>2 DEF Rec!WithCalls, Rec!calls
  <2>4. \A w \in Rec!pool : stack[w] \in Seq(Rec!calls')
    BY <2>1 DEF Rec!IInv, Rec!TypeOK
  <2>5. /\ Rec!pool' = Rec!pool
        /\ \A w \in Rec!pool : stack'[w] = stack[w] \/ stack'[w] = Append(stack[w], Append(t, Arity))
    BY DEF Rec!Call, Rec!pool
  <2>6. \A w \in Rec!pool : Append(stack[w], Append(t, Arity)) \in Seq(Rec!calls')
    BY <2>3, <2>4
  <2> QED BY <2>4, <2>5, <2>6
<1> QED BY <1>1, <1>2, <1>3, MakeInv

(* A call that returns has its total.                                      *)
LEMMA ValueIsTotal ==
  ASSUME RightRec, Rec!IInv, NEW t \in Rec!calls, Rec!Return(t)
  PROVE  Rec!Value(t) = Total(frame[t].arg)
<1>1. /\ frame[t].arg \in Args /\ frame[t].results \in [1 .. Arity -> Rec!Values]
      /\ Arity \in Nat /\ Arity > 0 /\ frame[t].made \in 0 .. Arity
      /\ Rec!MadeInv(t) /\ Rec!ReturnInv(t)
  BY CallTyped
<1>2. CASE IsLeaf(frame[t].arg)
  BY <1>1, <1>2 DEF RightRec, Rec!TotalAssumption, Rec!Value
<1>3. CASE ~ IsLeaf(frame[t].arg)
  <2>1. frame[t].at = "joining" /\ Rec!Joined(t)
    BY <1>3 DEF Rec!Return
  <2>2. frame[t].made = Arity
    BY <2>1, <1>1 DEF Rec!MadeInv
  <2>3. \A k \in 1 .. Arity : frame[t].results[k] = Total(ChildArg(frame[t].arg, k))
    BY <2>1, <2>2, <1>1 DEF Rec!ReturnInv, Rec!Joined
  <2>4. frame[t].results = [k \in 1 .. Arity |-> Total(ChildArg(frame[t].arg, k))]
    BY <2>3, <1>1
  <2>5. Rec!SumFunction([k \in 1 .. Arity |-> Total(ChildArg(frame[t].arg, k))])
          = Total(frame[t].arg)
    BY <1>1, <1>3 DEF RightRec, Rec!TotalAssumption
  <2> QED BY <1>3, <2>4, <2>5 DEF Rec!Value
<1> QED BY <1>2, <1>3

LEMMA CallReturns ==
  ASSUME RightRec, Rec!IInv, NEW t \in Rec!calls, Rec!Return(t)
  PROVE  Rec!IInv'
<1> DEFINE p == Rec!Front(t)
<1>1. /\ t \in CallNames /\ Arity \in Nat /\ frame[t] \in Rec!Frame
      /\ frame[t].made \in 0 .. Arity /\ frame[t].arg \in Args
      /\ Rec!CallInv(t) /\ Rec!ChildInv(t) /\ Rec!MadeInv(t)
  BY CallTyped
<1>2. Rec!Value(t) = Total(frame[t].arg) /\ Rec!Value(t) \in Rec!Values
  BY <1>1, ValueIsTotal DEF Rec!Values
<1>3. Rec!calls' = Rec!calls /\ program' = program
  BY DEF Rec!Return, Rec!calls
<1>4. frame'[t] = [frame[t] EXCEPT !.at = "returned"]
  <2>1. t # Rec!Root => Rec!Front(t) # t
    BY <1>1, CallerOfName
  <2> QED BY <2>1 DEF Rec!Return
<1>5. t # Rec!Root => /\ p \in Rec!calls /\ p # t /\ Rec!Last(t) \in 1 .. frame[p].made
                      /\ Rec!Last(t) \in 1 .. Arity /\ t = Append(p, Rec!Last(t))
                      /\ frame[p] \in Rec!Frame
                      /\ frame[t].arg = ChildArg(frame[p].arg, Rec!Last(t))
                      /\ frame'[p] = [frame[p] EXCEPT !.results[Rec!Last(t)] = Rec!Value(t)]
  <2> SUFFICES ASSUME t # Rec!Root
               PROVE  /\ p \in Rec!calls /\ p # t /\ Rec!Last(t) \in 1 .. frame[p].made
                      /\ Rec!Last(t) \in 1 .. Arity /\ t = Append(p, Rec!Last(t))
                      /\ frame[p] \in Rec!Frame
                      /\ frame[t].arg = ChildArg(frame[p].arg, Rec!Last(t))
                      /\ frame'[p] = [frame[p] EXCEPT !.results[Rec!Last(t)] = Rec!Value(t)]
    OBVIOUS
  <2>1. /\ p \in Rec!calls /\ Rec!Last(t) =< frame[p].made /\ p # t
        /\ Rec!Last(t) \in 1 .. Arity /\ t = Append(p, Rec!Last(t))
    BY <1>1, CallerOfName DEF Rec!CallInv
  <2>2. frame[p] \in Rec!Frame /\ Rec!ChildInv(p) /\ frame[p].made \in 0 .. Arity
    BY <2>1, CallTyped
  <2>3. Rec!Last(t) \in 1 .. frame[p].made
    BY <2>1, <2>2
  <2>4. frame[t].arg = ChildArg(frame[p].arg, Rec!Last(t))
    BY <2>1, <2>2, <2>3 DEF Rec!ChildInv
  <2>5. frame'[p] = [frame[p] EXCEPT !.results[Rec!Last(t)] = Rec!Value(t)]
    BY <2>1 DEF Rec!Return, Rec!Place
  <2> QED BY <2>1, <2>2, <2>3, <2>4, <2>5
<1>6. \A u \in Rec!calls : u # t /\ (t = Rec!Root \/ u # p) => frame'[u] = frame[u]
  BY DEF Rec!Return
<1>7. \A u \in Rec!calls :
        /\ frame'[u] \in Rec!Frame
        /\ frame'[u].arg = frame[u].arg /\ frame'[u].made = frame[u].made
        /\ u # t => frame'[u].at = frame[u].at
        /\ \A k \in 1 .. Arity : Append(u, k) # t => frame'[u].results[k] = frame[u].results[k]
  <2> SUFFICES ASSUME NEW u \in Rec!calls
               PROVE  /\ frame'[u] \in Rec!Frame
                      /\ frame'[u].arg = frame[u].arg /\ frame'[u].made = frame[u].made
                      /\ u # t => frame'[u].at = frame[u].at
                      /\ \A k \in 1 .. Arity :
                           Append(u, k) # t => frame'[u].results[k] = frame[u].results[k]
    OBVIOUS
  <2>1. CASE u = t
    BY <2>1, <1>1, <1>4 DEF Rec!Frame
  <2>2. CASE u # t /\ t # Rec!Root /\ u = p
    <3>1. /\ frame[u] \in Rec!Frame /\ Rec!Last(t) \in 1 .. Arity
          /\ frame'[u] = [frame[u] EXCEPT !.results[Rec!Last(t)] = Rec!Value(t)]
      BY <2>2, <1>5
    <3>2. \A k \in 1 .. Arity : Append(u, k) # t => k # Rec!Last(t)
      BY <2>2, <1>5
    <3>3. /\ frame'[u] \in Rec!Frame
          /\ frame'[u].arg = frame[u].arg /\ frame'[u].made = frame[u].made
          /\ frame'[u].at = frame[u].at
      <4> DEFINE r == [frame[u].results EXCEPT ![Rec!Last(t)] = Rec!Value(t)]
      <4>1. r \in [1 .. Arity -> Rec!Values]
        BY <3>1, <1>2 DEF Rec!Frame
      <4>2. frame'[u] = [frame[u] EXCEPT !.results = r]
        BY <3>1
      <4> HIDE DEF r
      <4> QED BY <3>1, <4>1, <4>2 DEF Rec!Frame
    <3>4. frame'[u].results = [frame[u].results EXCEPT ![Rec!Last(t)] = Rec!Value(t)]
      BY <3>1 DEF Rec!Frame
    <3>5. \A k \in 1 .. Arity : k # Rec!Last(t) => frame'[u].results[k] = frame[u].results[k]
      BY <3>1, <3>4 DEF Rec!Frame
    <3> QED BY <3>2, <3>3, <3>5
  <2>3. CASE u # t /\ (t = Rec!Root \/ u # p)
    BY <2>3, <1>6, CallTyped
  <2> QED BY <2>1, <2>2, <2>3
<1>8. frame'[t].at = "returned" /\ frame[t].at # "returned"
  BY <1>1, <1>4 DEF Rec!Frame, Rec!Return
<1>9. \A u \in Rec!calls : Rec!Returned(u)' <=> Rec!Returned(u) \/ u = t
  BY <1>7, <1>8 DEF Rec!Returned
<1>10. Rec!TypeOK'
  <2>1. \A w \in Rec!pool' : stack'[w] \in Seq(Rec!calls')
    <3>1. /\ Rec!pool' = Rec!pool
          /\ \A w \in Rec!pool : \/ stack'[w] = stack[w]
                                 \/ stack[w] # <<>> /\ stack'[w] = Rec!Front(stack[w])
      BY DEF Rec!Return, Rec!pool, Rec!OnTop
    <3>2. \A w \in Rec!pool : stack[w] \in Seq(Rec!calls)
      BY DEF Rec!IInv, Rec!TypeOK
    <3>3. \A w \in Rec!pool : stack[w] # <<>> => Rec!Front(stack[w]) \in Seq(Rec!calls)
      BY <3>2, FrontAndLast
    <3> QED BY <3>1, <3>2, <3>3, <1>3
  <2>2. result' \in Rec!Values
    BY <1>2 DEF Rec!Return, Rec!IInv, Rec!TypeOK
  <2>3. /\ program \in Recursions /\ Rec!Root \in Rec!calls
        /\ \A u \in Rec!calls : u \in Seq(1 .. Arity)
    BY DEF Rec!IInv, Rec!TypeOK
  <2> QED BY <2>1, <2>2, <2>3, <1>3, <1>7 DEF Rec!TypeOK, Rec!Frame, Rec!Values
<1>11. ASSUME NEW u \in Rec!calls PROVE Rec!CallInv(u)' /\ Rec!ChildInv(u)' /\ Rec!MadeInv(u)'
  <2>1. Rec!CallInv(u) /\ Rec!ChildInv(u) /\ Rec!MadeInv(u)
    BY CallTyped
  <2>2. Rec!CallInv(u)'
    BY <2>1, <1>3, <1>7 DEF Rec!CallInv
  <2>3. Rec!ChildInv(u)'
    BY <2>1, <1>3, <1>7 DEF Rec!ChildInv
  <2>4. Rec!MadeInv(u)'
    BY <2>1, <1>3, <1>7, <1>8 DEF Rec!MadeInv
  <2> QED BY <2>2, <2>3, <2>4
<1>12. ASSUME NEW u \in Rec!calls PROVE Rec!ReturnInv(u)'
  <2> SUFFICES ASSUME NEW k \in 1 .. frame[u].made
               PROVE  /\ Rec!Returned(u)' => Rec!Returned(Append(u, k))'
                      /\ Rec!Returned(Append(u, k))' =>
                           frame'[u].results[k] = Total(ChildArg(frame[u].arg, k))
    BY <1>7 DEF Rec!ReturnInv
  <2>1. /\ u \in CallNames /\ frame[u].made \in 0 .. Arity /\ Arity \in Nat
        /\ Rec!ChildInv(u) /\ Rec!ReturnInv(u)
    BY CallTyped
  <2>2. k \in 1 .. Arity
    BY <2>1
  <2>3. Append(u, k) \in Rec!calls
    BY <2>1 DEF Rec!ChildInv
  <2>4. Rec!Returned(u)' => Rec!Returned(Append(u, k))'
    <3>1. CASE u = t
      <4>1. \/ frame[t].at = "joining" /\ Rec!Joined(t)
            \/ IsLeaf(frame[t].arg)
        BY DEF Rec!Return
      <4>2. Rec!Returned(Append(u, k))
        <5>1. ~ IsLeaf(frame[t].arg)
          BY <3>1, <2>1, <1>1 DEF Rec!MadeInv
        <5> QED BY <4>1, <5>1, <3>1, <2>2 DEF Rec!Joined
      <4> QED BY <4>2, <2>3, <1>9
    <3>2. CASE u # t
      BY <3>2, <2>1, <2>3, <1>9 DEF Rec!ReturnInv
    <3> QED BY <3>1, <3>2
  <2>5. Rec!Returned(Append(u, k))' => frame'[u].results[k] = Total(ChildArg(frame[u].arg, k))
    <3>1. CASE Append(u, k) = t
      <4>1. t # Rec!Root /\ p = u /\ Rec!Last(t) = k
        BY <3>1, <2>1, <2>2, ChildOfName
      <4>2. frame'[u] = [frame[u] EXCEPT !.results[k] = Rec!Value(t)]
            /\ frame[t].arg = ChildArg(frame[u].arg, k) /\ frame[u] \in Rec!Frame
        BY <4>1, <1>5
      <4>3. frame'[u].results[k] = Rec!Value(t)
        BY <4>2, <2>2 DEF Rec!Frame
      <4> QED BY <4>2, <4>3, <1>2
    <3>2. CASE Append(u, k) # t
      BY <3>2, <2>1, <2>2, <2>3, <1>7, <1>9 DEF Rec!ReturnInv
    <3> QED BY <3>1, <3>2
  <2> QED BY <2>4, <2>5
<1>13. Rec!RootInv'
  <2>1. Rec!Root \in Rec!calls /\ Rec!RootInv
    BY DEF Rec!IInv, Rec!TypeOK
  <2>2. CASE t = Rec!Root
    <3>1. result' = Rec!Value(t)
      BY <2>2 DEF Rec!Return
    <3> QED BY <3>1, <2>1, <2>2, <1>2, <1>7 DEF Rec!RootInv
  <2>3. CASE t # Rec!Root
    <3>1. result' = result
      BY <2>3 DEF Rec!Return
    <3>2. Rec!Returned(Rec!Root)' <=> Rec!Returned(Rec!Root)
      BY <2>1, <2>3, <1>9
    <3> QED BY <3>1, <3>2, <2>1, <1>7 DEF Rec!RootInv
  <2> QED BY <2>2, <2>3
<1> QED BY <1>3, <1>10, <1>11, <1>12, <1>13 DEF Rec!IInv

LEMMA Unchanged ==
  ASSUME RightRec, Rec!IInv, UNCHANGED <<program, frame, result>>,
         \A w \in Rec!pool' : stack'[w] \in Seq(Rec!calls)
  PROVE  Rec!IInv'
<1>1. Rec!calls' = Rec!calls
  BY DEF Rec!calls
<1>2. Rec!TypeOK'
  BY <1>1 DEF Rec!IInv, Rec!TypeOK, Rec!Frame, Rec!Values
<1>3. \A t \in Rec!calls :
        (Rec!CallInv(t) /\ Rec!ChildInv(t) /\ Rec!MadeInv(t) /\ Rec!ReturnInv(t))'
  BY <1>1 DEF Rec!IInv, Rec!CallInv, Rec!ChildInv, Rec!MadeInv, Rec!ReturnInv, Rec!Returned
<1>4. Rec!RootInv'
  BY DEF Rec!IInv, Rec!RootInv, Rec!Returned
<1> QED BY <1>1, <1>2, <1>3, <1>4 DEF Rec!IInv

LEMMA TakeStep ==
  ASSUME RightRec, Rec!IInv, NEW t \in Rec!calls, NEW w \in Rec!pool, Rec!Take(w, t)
  PROVE  Rec!IInv'
<1>1. \A v \in Rec!pool : stack[v] \in Seq(Rec!calls)
  BY DEF Rec!IInv, Rec!TypeOK
<1>2. stack' = [stack EXCEPT ![w] = Append(@, t)] /\ UNCHANGED <<program, frame, result>>
  BY DEF Rec!Take
<1>3. /\ Rec!pool' = Rec!pool
      /\ \A v \in Rec!pool : stack'[v] = stack[v] \/ stack'[v] = Append(stack[v], t)
  BY <1>2 DEF Rec!pool
<1>4. \A v \in Rec!pool : Append(stack[v], t) \in Seq(Rec!calls)
  BY <1>1
<1>5. \A v \in Rec!pool' : stack'[v] \in Seq(Rec!calls)
  BY <1>1, <1>3, <1>4
<1> QED BY <1>2, <1>5, Unchanged

LEMMA NextRecInv ==
  ASSUME RightRec, Rec!IInv, [Rec!Next]_Rec!vars
  PROVE  Rec!IInv'
<1>1. CASE Rec!Step
  <2>1. PICK t \in Rec!calls :
          \/ Rec!Fork(t) \/ Rec!Call(t) \/ Rec!Return(t)
          \/ \E w \in Rec!pool : Rec!Take(w, t)
    BY <1>1 DEF Rec!Step
  <2> QED BY <2>1, ForkStep, CallStep, CallReturns, TakeStep
<1>2. CASE UNCHANGED Rec!vars
  <2>1. UNCHANGED <<program, frame, result, stack>> /\ Rec!pool' = Rec!pool
    BY <1>2 DEF Rec!vars, Rec!pool
  <2>2. \A w \in Rec!pool' : stack'[w] \in Seq(Rec!calls)
    BY <2>1 DEF Rec!IInv, Rec!TypeOK
  <2> QED BY <2>1, <2>2, Unchanged
<1> QED BY <1>1, <1>2 DEF Rec!Next, Rec!Stopped
-----------------------------------------------------------------------------
(* In each fib.cpp and skynet.cpp program the invariant holds, in whatever *)
(* way the program makes its calls.                                        *)
THEOREM RecInvariance ==
  ASSUME RightRec
  PROVE  Rec!Spec => []Rec!IInv
<1>1. Rec!Init => Rec!IInv
  BY InitRecInv
<1>2. Rec!IInv /\ [Rec!Next]_Rec!vars => Rec!IInv'
  BY NextRecInv
<1> QED BY <1>1, <1>2, PTL DEF Rec!Spec

(* Joining in fib.cpp and skynet.cpp: no call writes its result into the   *)
(* frame of a caller that has returned, which would be gone.               *)
THEOREM FramesAreThere ==
  ASSUME RightRec
  PROVE  Rec!Spec => []Rec!FramesOutlive
<1>1. Rec!IInv => Rec!FramesOutlive
  <2> SUFFICES ASSUME Rec!IInv, NEW t \in Rec!calls, t # Rec!Root, Rec!Returned(Rec!Front(t))
               PROVE  Rec!Returned(t)
    BY DEF Rec!FramesOutlive
  <2>1. /\ Rec!Front(t) \in Rec!calls /\ Rec!Last(t) =< frame[Rec!Front(t)].made
        /\ Rec!Last(t) \in 1 .. Arity /\ t = Append(Rec!Front(t), Rec!Last(t))
    BY CallTyped, CallerOfName DEF Rec!CallInv
  <2>2. Rec!ReturnInv(Rec!Front(t)) /\ frame[Rec!Front(t)].made \in 0 .. Arity
    BY <2>1, CallTyped
  <2>3. Rec!Last(t) \in 1 .. frame[Rec!Front(t)].made
    BY <2>1, <2>2
  <2> QED BY <2>1, <2>2, <2>3 DEF Rec!ReturnInv
<1> QED BY <1>1, RecInvariance, PTL

(* The results in fib.cpp and skynet.cpp: every call that has returned,    *)
(* main()'s included, has put its total into the place that its caller     *)
(* adds up.                                                                *)
THEOREM CallsAreRight ==
  ASSUME RightRec
  PROVE  Rec!Spec => []Rec!ResultsDelivered
<1>1. Rec!IInv => Rec!ResultsDelivered
  <2> SUFFICES ASSUME Rec!IInv, NEW t \in Rec!calls, Rec!Returned(t)
               PROVE  (IF t = Rec!Root THEN result ELSE frame[Rec!Front(t)].results[Rec!Last(t)])
                        = Total(frame[t].arg)
    BY DEF Rec!ResultsDelivered
  <2>1. CASE t = Rec!Root
    BY <2>1 DEF Rec!IInv, Rec!RootInv
  <2>2. CASE t # Rec!Root
    <3>1. /\ Rec!Front(t) \in Rec!calls /\ Rec!Last(t) =< frame[Rec!Front(t)].made
          /\ Rec!Last(t) \in 1 .. Arity /\ t = Append(Rec!Front(t), Rec!Last(t))
      BY <2>2, CallTyped, CallerOfName DEF Rec!CallInv
    <3>2. /\ Rec!ReturnInv(Rec!Front(t)) /\ Rec!ChildInv(Rec!Front(t))
          /\ frame[Rec!Front(t)].made \in 0 .. Arity
      BY <3>1, CallTyped
    <3>3. Rec!Last(t) \in 1 .. frame[Rec!Front(t)].made
      BY <3>1, <3>2
    <3>4. frame[t].arg = ChildArg(frame[Rec!Front(t)].arg, Rec!Last(t))
      BY <3>1, <3>2, <3>3 DEF Rec!ChildInv
    <3>5. frame[Rec!Front(t)].results[Rec!Last(t)]
            = Total(ChildArg(frame[Rec!Front(t)].arg, Rec!Last(t)))
      BY <3>1, <3>2, <3>3 DEF Rec!ReturnInv
    <3> QED BY <2>2, <3>4, <3>5
  <2> QED BY <2>1, <2>2
<1> QED BY <1>1, RecInvariance, PTL
=============================================================================
