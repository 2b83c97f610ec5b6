---------------------------- MODULE ThreadsSweep ----------------------------
(***************************************************************************)
(* The numbers of threads that the benchmarks are run with: those printed  *)
(* by cpp/TooManyCooks/threads_sweep.cpp, and those that the driver        *)
(* (build_and_bench_all.py) uses when that program is not there.           *)
(***************************************************************************)
EXTENDS Naturals, SequencesExt, FiniteSetsExt

CONSTANT MaxThreads    (* no sweep goes further; 64 in both programs       *)

ASSUME MaxThreadsAssumption == MaxThreads \in Nat \ {0}

(* A machine has kinds[1], kinds[2], ... cores of its kinds (performance   *)
(* cores before efficiency cores), and pus hardware threads.               *)
core_count(kinds) ==
  LET count[k \in 0 .. Len(kinds)] == IF k = 0 THEN 0 ELSE count[k-1] + kinds[k]
  IN  count[Len(kinds)]

(* Every kind has cores and every core a hardware thread.  So neither list *)
(* of threads_sweep.cpp has doubles, and both are sorted.                  *)
IsMachine(kinds, pus) ==
  /\ kinds \in Seq(Nat \ {0}) /\ kinds # <<>>
  /\ pus \in Nat /\ core_count(kinds) =< pus

(* Each kind of core ends at a breakpoint, and so do the hardware threads. *)
breakpoints(kinds, pus) ==
  LET cores == [k \in DOMAIN kinds |-> core_count(SubSeq(kinds, 1, k))]
  IN  IF Last(cores) # pus THEN Append(cores, pus) ELSE cores

doubling(n) == {2^k : k \in 0 .. n} \cap 1 .. n

(* The members of a set of numbers in order: the i-th has i-1 below it.     *)
InOrder(set) ==
  [i \in 1 .. Cardinality(set) |->
     CHOOSE n \in set : Cardinality({m \in set : m < n}) = i - 1]

(* The two lists become one; a slip: one is put behind the other.          *)
Appended(kinds, pus) ==
  InOrder(doubling(core_count(kinds))) \o breakpoints(kinds, pus)
merged(kinds, pus) ==
  InOrder(doubling(core_count(kinds)) \cup ToSet(breakpoints(kinds, pus)))

(* The first number is printed, and the next ones up to MaxThreads.        *)
threads_sweep(kinds, pus) ==
  LET sweep == merged(kinds, pus)
      far   == {i \in 2 .. Len(sweep) : sweep[i] > MaxThreads}
  IN  IF far = {} THEN sweep ELSE SubSeq(sweep, 1, Min(far) - 1)

(* get_nproc.sh counts the lines of lscpu: there are none if lscpu is not  *)
(* there.  The driver has a number of its own, if the script fails.        *)
get_nproc(kinds) == {core_count(kinds), 0}
get_nproc_fallback(kinds) == get_nproc(kinds) \cup {8}

(* The numbers of the driver's list before proc, and proc if the list goes *)
(* that far.                                                               *)
get_threads_sweep_fallback(proc) ==
  InOrder({n \in doubling(MaxThreads) : n < proc}
            \cup IF proc > MaxThreads THEN {} ELSE {proc})
=============================================================================
