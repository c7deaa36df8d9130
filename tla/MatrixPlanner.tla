---------------------------- MODULE MatrixPlanner ----------------------------
(***************************************************************************)
(* The swap matrix (internal/router/matrix_solver.go): which running       *)
(* models must stop so that the target can run. What may run together is   *)
(* given by the expanded sets of the config. A set says nothing of the     *)
(* models outside it: three models can be permitted two by two and not all *)
(* together.                                                               *)
(***************************************************************************)
EXTENDS Integers, Sequences, FiniteSets

CONSTANTS
    Models,
    Sets,       \* expandedSets, in the order of their definition
    EvictCost   \* evictCost of each model

ASSUME ModelsAssumption == IsFiniteSet(Models)
ASSUME SetsAssumption == Sets \in Seq(SUBSET Models)
ASSUME CostAssumption == EvictCost \in [Models -> Nat \ {0}]

(* modelToSets                                                             *)
Candidates(t) == {i \in DOMAIN Sets : t \in Sets[i]}

(* What it costs to make room for set i: every running model outside of it *)
(* counts as often as its cost says.                                       *)
Cost(i, running) == Cardinality(UNION {{m} \X (1..EvictCost[m]) : m \in running \ Sets[i]})

(* The lowest cost wins, and the first set among equals.                   *)
NoWorse(i, j, running) ==
    \/ Cost(i, running) < Cost(j, running)
    \/ Cost(i, running) = Cost(j, running) /\ i <= j

Chosen(t, running) ==
    CHOOSE i \in Candidates(t) : \A j \in Candidates(t) : NoWorse(i, j, running)

(* Solve: whom to evict. Nobody for a target that is running already, and  *)
(* everybody for one that is in no set.                                    *)
Solve(t, running) ==
    IF t \in running THEN {}
    ELSE IF Candidates(t) = {} THEN running
    ELSE running \ Sets[Chosen(t, running)]
=============================================================================
