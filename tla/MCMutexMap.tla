---- MODULE MCMutexMap ----
(***************************************************************************)
(* Instances of MutexMap for TLC.                                          *)
(***************************************************************************)
EXTENDS MutexMap, TLC

CONSTANTS a, b        \* two paths

Ordered == {<<a, b>>}     \* renames take the locks in one order

Symmetric == Permutations(Threads)
====
