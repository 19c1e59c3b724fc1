---- MODULE MCNamespace ----
(***************************************************************************)
(* Instances of Namespace for TLC.                                         *)
(***************************************************************************)
EXTENDS Namespace, TLC

CONSTANTS d, e, c1, c2

\* A directory or file, and one inside it.
TwoNames == {<<d>>, <<d, e>>}

Symmetric == Permutations(Threads)
====
