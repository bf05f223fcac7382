----------------------------- MODULE Hierarchy -----------------------------
(* The tree of States that nested calls of WithContext build: State.parent *)
(* links a State to the one it was created under, nil at the top level.    *)
EXTENDS Integers, Sequences, FiniteSets

CONSTANTS
  States,      \* the *State values of one hierarchy
  Path,        \* Path[s]: the States from the top-level one down to s
  Tasks,       \* pairs of calls Apply(1) ... Apply(-1), as made by Go and Call
  Home         \* Home[t]: the State that task t is started on

Depth(s) == Len(Path[s])
HasParent(s) == Depth(s) > 1
Parent(s) == Path[s][Depth(s) - 1]
\* s is d or one of the ancestors of d.
Covers(s, d) == Depth(s) <= Depth(d) /\ Path[d][Depth(s)] = s

ASSUME PathAssumption ==
  /\ Path \in [States -> Seq(States)]
  /\ \A s \in States : Depth(s) > 0 /\ Path[s][Depth(s)] = s
  /\ \A s \in States : \A i \in 1 .. Depth(s) :
        Path[Path[s][i]] = SubSeq(Path[s], 1, i)

ASSUME TaskAssumption == IsFiniteSet(Tasks) /\ Home \in [Tasks -> States]
=============================================================================
