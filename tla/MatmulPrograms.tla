--------------------------- MODULE MatmulPrograms ---------------------------
(***************************************************************************)
(* The recursive case of matmul() in the eleven matmul.cpp programs: which *)
(* of its eight recursive calls it starts, and which it waits for, in the  *)
(* order of the code.  Calls 1-4 are the first section, calls 5-8 the      *)
(* second; their arguments are in module Matmul.                           *)
(***************************************************************************)
EXTENDS Integers, Sequences

Fork(sites)  == [op |-> "fork",  sites |-> sites]
Await(sites) == [op |-> "await", sites |-> sites]

(* A tuple of children that are started together and waited for; and two   *)
(* slips of it: the sections are not separated, and the second is not      *)
(* waited for.                                                             *)
TupleUnseparated == <<Fork(1 .. 4), Fork(5 .. 8), Await(1 .. 4), Await(5 .. 8)>>
TupleDetached    == <<Fork(1 .. 4), Await(1 .. 4), Fork(5 .. 8)>>
Tuple            == <<Fork(1 .. 4), Await(1 .. 4), Fork(5 .. 8), Await(5 .. 8)>>

TooManyCooks == Tuple    (* co_await tmc::spawn_tuple()        *)
citor        == Tuple    (* pool.forkJoin()                    *)
coros        == Tuple    (* co_await coros::wait_tasks()       *)
cppcoro      == Tuple    (* co_await cppcoro::when_all()       *)
folly        == Tuple    (* co_await folly::coro::collectAll() *)
libcoro      == Tuple    (* co_await coro::when_all()          *)

(* Each child runs from the moment matmul() is called; when_all() waits.   *)
concurrencpp ==
  <<Fork({1}), Fork({2}), Fork({3}), Fork({4}), Await(1 .. 4),
    Fork({5}), Fork({6}), Fork({7}), Fork({8}), Await(5 .. 8)>>

(* Three children of a task group are forked, the fourth is called in the  *)
(* parent's own thread, then the group is waited for; and a slip of it:    *)
(* only the call is waited for.                                            *)
GroupNotJoined ==
  <<Fork({1}), Fork({2}), Fork({3}), Fork({4}), Await({4}),
    Fork({5}), Fork({6}), Fork({7}), Fork({8}), Await({8}), Await({5, 6, 7})>>
Group ==
  <<Fork({1}), Fork({2}), Fork({3}), Fork({4}), Await({4}), Await({1, 2, 3}),
    Fork({5}), Fork({6}), Fork({7}), Fork({8}), Await({8}), Await({5, 6, 7})>>

HPX      == Group    (* tg.run(), matmul(), tg.wait()           *)
libfork  == Group    (* lf::fork, lf::call, lf::join            *)
taskflow == Group    (* tg.silent_async(), matmul(), tg.corun() *)
tbb      == Group    (* tg.run(), tg.run_and_wait()             *)

Body ==
  [TooManyCooks |-> TooManyCooks, citor |-> citor, coros |-> coros,
   cppcoro |-> cppcoro, folly |-> folly, libcoro |-> libcoro,
   concurrencpp |-> concurrencpp, HPX |-> HPX, libfork |-> libfork,
   taskflow |-> taskflow, tbb |-> tbb]
=============================================================================
