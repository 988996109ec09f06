---------------------------- MODULE MCLifecycle ----------------------------
(* Instances of Lifecycle for TLC.                                         *)
EXTENDS Lifecycle, TLC

CONSTANTS o1, o2, o3

TwoOps == {o1, o2}
ThreeOps == {o1, o2, o3}
SymmetryThree == Permutations(ThreeOps)

Overlapping == {"recreate", "rotate", "purge", "start"}

\* Overlapping operations of which one may be a rotation, along with at most one
\* recreate: a rotation goes through the whole of recreate itself, so that more of
\* them together show little that three recreates do not.
OverlapInit ==
  LET Asked(k) == Cardinality({o \in Ops : kind[o] = k})
  IN Init /\ (Asked("rotate") = 0 \/ (Asked("rotate") = 1 /\ Asked("recreate") <= 1))

OverlapSpec == OverlapInit /\ [][Next]_vars

\* Every call may fail, and the manager may crash.
AllCalls == Points \cup {"crash"}
OnlyRename == {"rename"}
OnlyRetire == {"retire"}
=============================================================================
