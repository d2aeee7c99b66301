----------------------------- MODULE MCNamespace -----------------------------
(* Instances of Namespace for TLC: one name is as good as another.             *)
EXTENDS Namespace

SymmetricNames == Permutations(Names)
=============================================================================
