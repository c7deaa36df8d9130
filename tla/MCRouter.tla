------------------------------ MODULE MCRouter ------------------------------
(* An instance of Router: a and b share a swap group; c is alone in a      *)
(* group that is not exclusive and that exclusive groups may evict. In the *)
(* matrix any two of them may run together, and b is dear to evict.        *)
EXTENDS Router, TLC
CONSTANTS a, b, c, g1, g2

MCGroup == (a :> g1 @@ b :> g1 @@ c :> g2)
MCLimit == (a :> 1 @@ b :> 2 @@ c :> 1)
MCSets == <<{a, b}, {b, c}, {a, c}>>
MCAlone == <<{a}, {b}>>
MCCost == [m \in Models |-> IF m = b THEN 2 ELSE 1]
Symmetry == Permutations(Requests)
=============================================================================
