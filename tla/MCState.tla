------------------------------ MODULE MCState ------------------------------
(* Instances of State for TLC. *)
EXTENDS StateProps, TLC

CONSTANTS root, mid, leaf, side, t1, t2, t3, p1, p2, p3

\* A chain of two, a chain of three, a parent with two children.
PairPath  == root :> <<root>> @@ mid :> <<root, mid>>
ChainPath == PairPath @@ leaf :> <<root, mid, leaf>>
ForkPath  == PairPath @@ side :> <<root, side>>

\* Grace periods of the stop hooks: none for root, it has no parent.
HookGrace == [s \in States |-> IF s = mid THEN 2 ELSE 1]

\* One task at each of the ends of the path, or all of them on the child.
SpreadHome == [t \in Tasks |-> IF t = t1 THEN root ELSE mid]
MidHome    == [t \in Tasks |-> mid]
LeafHome   == [t \in Tasks |-> leaf]

\* The deferred callbacks are interchangeable.
CallbackSymmetry == Permutations(Callbacks)
=============================================================================
