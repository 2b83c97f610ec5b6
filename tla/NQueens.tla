------------------------------- MODULE NQueens -------------------------------
(***************************************************************************)
(* One call of nqueens() from main() and check_answer(), in any of the     *)
(* eleven nqueens.cpp programs.  Each call places the queen of one row     *)
(* more, in every column that is not attacked, and a call for the next     *)
(* row runs in parallel for each of them.                                  *)
(*                                                                         *)
(* A call is named by the columns that the calls above it chose for it: it *)
(* has the first Len(t) queens.  What board it has in its own frame is     *)
(* another matter.                                                         *)
(***************************************************************************)
EXTENDS Queens, Sequences, FiniteSets, Functions

CONSTANT Programs   (* the programs *)

(***************************************************************************)
(* How the programs differ.                                                *)
(*   columns  "filtered": a filter over the columns runs with the loop     *)
(*            that makes the calls; "listed": the columns are listed first *)
(*   start    "hot": a call may run as soon as it is made; "held": it runs *)
(*            when its parent waits for it                                 *)
(*   copy     the board is copied from the parent's frame when the call is *)
(*            "made", or when it is "run"                                  *)
(***************************************************************************)
Program(columns, start, copy) == [columns |-> columns, start |-> start, copy |-> copy]

TooManyCooks == Program("filtered", "held", "made")   (* tmc::spawn_many()          *)
coros        == Program("filtered", "held", "made")   (* coros::wait_tasks_async()  *)
cppcoro      == Program("filtered", "held", "made")   (* cppcoro::when_all()        *)
folly        == Program("filtered", "held", "made")   (* collectAllRange()          *)
libcoro      == Program("filtered", "held", "made")   (* coro::when_all()           *)
HPX          == Program("filtered", "hot", "made")    (* hpx::async(), when_all()   *)
concurrencpp == Program("filtered", "hot", "made")    (* executor_tag, when_all()   *)
libfork      == Program("filtered", "hot", "made")    (* lf::fork, lf::join         *)
taskflow     == Program("filtered", "hot", "made")    (* silent_async(), corun()    *)
tbb          == Program("listed", "hot", "made")      (* run(), run_and_wait()      *)
citor        == Program("listed", "held", "run")      (* pool.forkJoinAll()         *)

How ==
  [TooManyCooks |-> TooManyCooks, coros |-> coros, cppcoro |-> cppcoro,
   folly |-> folly, libcoro |-> libcoro, HPX |-> HPX,
   concurrencpp |-> concurrencpp, libfork |-> libfork, taskflow |-> taskflow,
   tbb |-> tbb, citor |-> citor]

ASSUME ProgramsAssumption == Programs \subseteq DOMAIN How

VARIABLES
  program,  (* the name of the program                                     *)
  frame,    (* frame[t]: the variables of call t, and where it is          *)
  values,   (* values[t]: the places for the results of the calls t makes, *)
            (* which some programs leave uninitialised                     *)
  result,   (* what nqueens() returned to main()                           *)
  verdict   (* of check_answer()                                           *)

vars == <<program, frame, values, result, verdict>>

how   == How[program]
calls == DOMAIN frame

Root == <<>>
Parent(t) == SubSeq(t, 1, Len(t) - 1)
Leaf(t) == Len(t) = N

Blank   == [x \in Rows |-> 0]

Unwritten == -1

(* A call that is made: buf is its board, ys the columns that its loop has *)
(* not come to, taskCount the number of calls that it has made, and idx    *)
(* the place for its own result.                                           *)
NewFrame(b, place) ==
  [phase     |-> IF how.columns = "listed" THEN "made" ELSE "loop",
   buf       |-> b,
   ys        |-> Columns,
   taskCount |-> 0,
   idx       |-> place]

NewValues == [x \in Columns |-> Unwritten]

Init ==
  /\ program \in Programs
  /\ frame = [t \in {Root} |-> NewFrame(Blank, 0)]
  /\ values = [t \in {Root} |-> NewValues]
  /\ result = Unwritten
  /\ verdict = "running"
-----------------------------------------------------------------------------
(* The test of a column against the queens of the first xMax rows; slips:  *)
(* one of the diagonals is forgotten, or one row too many is looked at.    *)
LegalOneDiagonal(b, xMax, y) ==
  \A x \in 0 .. xMax-1 : y # b[x] /\ y # b[x] - (xMax - x)
LegalOneRowMore(b, xMax, y) ==
  \A x \in (0 .. xMax) \cap Rows :
    y # b[x] /\ y # b[x] - (xMax - x) /\ y # b[x] + (xMax - x)
Legal(b, xMax, y) ==
  \A x \in 0 .. xMax-1 :
    y # b[x] /\ y # b[x] - (xMax - x) /\ y # b[x] + (xMax - x)

LegalColumns(b, xMax) == {y \in Columns : Legal(b, xMax, y)}

(* The columns that the loop has still to make a call for; when there are  *)
(* none, the call waits for those it has made.                             *)
Remaining(t) == frame[t].ys \cap LegalColumns(frame[t].buf, Len(t))

Running(t) ==
  \/ t = Root
  \/ how.start = "hot"
  \/ Remaining(Parent(t)) = {}

(* The board that a call starts from: its own copy of its parent's, made   *)
(* with it, or made now; a slip: the parent's, as it is now.               *)
BoardNow(t) ==
  IF t = Root THEN frame[t].buf ELSE frame[Parent(t)].buf
StartBoard(t) ==
  IF how.copy = "made" \/ t = Root
  THEN frame[t].buf
  ELSE [frame[Parent(t)].buf EXCEPT ![Len(t) - 1] = t[Len(t)]]

(* The call has its board, and lists its columns before it makes any call. *)
ListColumns(t) ==
  /\ t \in calls /\ Running(t)
  /\ frame[t].phase = "made"
  /\ frame' = [frame EXCEPT ![t].phase = "loop",
                            ![t].buf   = StartBoard(t),
                            ![t].ys    = LegalColumns(StartBoard(t), Len(t))]
  /\ UNCHANGED <<program, values, result, verdict>>

Looping(t) == t \in calls /\ Running(t) /\ frame[t].phase = "loop" /\ ~ Leaf(t)

(* Where the new call is to put its result; a slip: one place further.     *)
PlaceAfter(f) == f.taskCount + 1
Place(f) == f.taskCount

(* The next queen goes on the board, and a call is made for the next row.  *)
MakeCallFor(t, y) ==
  LET u == Append(t, y)
      b == IF how.copy = "made" THEN [frame[t].buf EXCEPT ![Len(t)] = y]
                                ELSE frame[t].buf
  IN  /\ frame' = [v \in calls \cup {u} |->
           CASE v = t -> [frame[t] EXCEPT !.buf = b,
                                          !.ys = {z \in @ : z > y},
                                          !.taskCount = @ + 1]
             [] v = u -> NewFrame(b, Place(frame[t]))
             [] OTHER -> frame[v]]
      /\ values' = [v \in calls \cup {u} |-> IF v = u THEN NewValues ELSE values[v]]
      /\ UNCHANGED <<program, result, verdict>>

MakeCall(t) ==
  /\ Looping(t)
  /\ \E y \in Remaining(t) :
       /\ \A z \in Remaining(t) : y =< z
       /\ MakeCallFor(t, y)

Children(t) == {u \in calls : u # Root /\ Parent(u) = t}
Returned(t) == t \in calls /\ frame[t].phase = "returned"

(* The calls that t has made have returned; a slip: one of them has.       *)
OneJoined(t) == Children(t) # {} => \E u \in Children(t) : Returned(u)
Joined(t) == \A u \in Children(t) : Returned(u)

Sum(t) == SumFunctionOnSet(values[t], 0 .. frame[t].taskCount - 1)

Result(t) == IF Leaf(t) THEN 1 ELSE Sum(t)

(* The call puts its result where its parent or main() wants it.           *)
Return(t) ==
  /\ t \in calls /\ Running(t)
  /\ frame[t].phase = "loop"
  /\ Leaf(t) \/ (Remaining(t) = {} /\ Joined(t))
  /\ frame' = [frame EXCEPT ![t].phase = "returned"]
  /\ IF t = Root
     THEN result' = Result(t) /\ UNCHANGED values
     ELSE /\ values' = [values EXCEPT ![Parent(t)][frame[t].idx] = Result(t)]
          /\ UNCHANGED result
  /\ UNCHANGED <<program, verdict>>

(* The number of solutions for 0, 1, 2, ... queens.                        *)
answers == <<0, 1, 0, 0, 2, 10, 4, 40, 92, 352, 724, 2680, 14200, 73712,
             365596, 2279184, 14772512, 95815104, 666090624>>

check_answer ==
  /\ verdict = "running"
  /\ Returned(Root)
  /\ verdict' = IF result = answers[N + 1] THEN "correct" ELSE "wrong"
  /\ UNCHANGED <<program, frame, values, result>>

Stopped == verdict # "running" /\ UNCHANGED vars

Step(t) == ListColumns(t) \/ MakeCall(t) \/ Return(t)

Next == (\E t \in calls : Step(t)) \/ check_answer \/ Stopped

Spec == Init /\ [][Next]_vars

(* The threads of the pool run any call that can take a step.              *)
FairSpec == Spec /\ WF_vars(check_answer \/ \E t \in calls : Step(t))
-----------------------------------------------------------------------------
(* The types: no call has a place beyond the array.  The numbers in values *)
(* and result are the subject of ResultsDelivered.                         *)
Frame ==
  [phase : {"made", "loop", "returned"}, buf : Boards, ys : SUBSET Columns,
   taskCount : 0 .. N, idx : Columns]

TypeOK ==
  /\ program \in Programs
  /\ Root \in calls
  /\ \A t \in calls : t \in Seq(Columns) /\ Len(t) =< N /\ frame[t] \in Frame
  /\ DOMAIN values = calls
  /\ verdict \in {"running", "correct", "wrong"}

(* The boards of the calls that have placed all queens.                    *)
found == {frame[t].buf : t \in {u \in calls : Leaf(u) /\ Returned(u)}}

Promise == INSTANCE NQueensPromise

(* Every call that runs has the queens that it was made for, though the    *)
(* parent goes on to put others in the same row of its own board.          *)
OwnBoard ==
  \A t \in calls : frame[t].phase # "made" =>
    \A x \in 0 .. Len(t) - 1 : frame[t].buf[x] = t[x + 1]

(* When main() has a result, each solution has been found, and no other    *)
(* board.                                                                  *)
AllFound ==
  /\ found \subseteq Solutions
  /\ Returned(Root) => found = Solutions

(* When a call has returned, its parent has the number of solutions below  *)
(* it in the place that is for it.                                         *)
SolutionsBelow(t) ==
  {b \in Solutions : \A x \in 0 .. Len(t) - 1 : b[x] = t[x + 1]}

ResultsDelivered ==
  \A t \in calls : Returned(t) =>
    Cardinality(SolutionsBelow(t))
      = IF t = Root THEN result ELSE values[Parent(t)][frame[t].idx]

(* No call runs when one above it has returned: it would write its result  *)
(* into a frame that is gone.                                              *)
FramesOutlive ==
  \A t \in calls : t # Root /\ Returned(Parent(t)) => Returned(t)

(* The programs implement the promise of a search: each solution is found  *)
(* once, and the number is checked when all have been.                     *)
PromiseKept == Promise!Spec

(* check_answer() is reached, and finds the right number.                  *)
AnswerChecked == <>(verdict = "correct")
-----------------------------------------------------------------------------
(* The inductive invariant: of the search, and of the results on their     *)
(* way up.  A call is made below one that has its board, by a loop that is *)
(* past its column.                                                        *)
CallInv(t) ==
  t # Root =>
    /\ Parent(t) \in calls
    /\ frame[Parent(t)].phase # "made"
    /\ t[Len(t)] \notin frame[Parent(t)].ys

(* Call t was made with queens that do not attack one another, and has     *)
(* them on its board.                                                      *)
LegalInv(t) ==
  \A i \in 1 .. Len(t), j \in 1 .. Len(t) : i < j => ~ Attacks(t, i, j)

BoardInv(t) ==
  how.copy = "made" \/ frame[t].phase # "made" =>
    \A x \in 0 .. Len(t) - 1 : frame[t].buf[x] = t[x + 1]

(* The loop of t has made a call for each legal column it is past, and has *)
(* used as many places at most.                                            *)
LoopInv(t) ==
  /\ \A y \in frame[t].ys : frame[t].taskCount =< y
  /\ frame[t].phase = "made" => frame[t].taskCount = 0
  /\ frame[t].phase # "made" =>
       \A y \in Columns \ frame[t].ys :
         Legal(frame[t].buf, Len(t), y) => Append(t, y) \in calls

FoundInv(t) == Returned(t) => SolutionsBelow(t) \subseteq found

SearchInv ==
  /\ TypeOK
  /\ \A t \in calls :
       CallInv(t) /\ LegalInv(t) /\ BoardInv(t) /\ LoopInv(t) /\ FoundInv(t)
  /\ FramesOutlive
  /\ found \subseteq Solutions

(* The calls that t has made have the places 0, 1, ... for their results,  *)
(* each its own.                                                           *)
PlaceInv(t) ==
  /\ values[t] \in [Columns -> Int]
  /\ \A u, v \in Children(t) : frame[u].idx = frame[v].idx => u = v
  /\ {frame[u].idx : u \in Children(t)} = 0 .. frame[t].taskCount - 1

ResultInv ==
  /\ \A t \in calls : PlaceInv(t)
  /\ ResultsDelivered
  /\ verdict # "running" => Returned(Root)

IInv == SearchInv /\ ResultInv
=============================================================================
