--------------------------- MODULE MCNestedLoopJoin ---------------------------
EXTENDS NestedLoopJoin

(* Conjuncts of a filter over one-column inputs of up to two rows: l = 1, *)
(* l IS NULL, r = 1, r IS NULL, l = r and the constant 1 = 0.             *)
Ids == 0..MaxRows
MCConjuncts ==
  { [op |-> "Leaf", cols |-> {"L"}, acc |-> {1} \X Ids],
    [op |-> "Leaf", cols |-> {"L"}, acc |-> {0} \X Ids],
    [op |-> "Leaf", cols |-> {"R"}, acc |-> Ids \X {1}],
    [op |-> "Leaf", cols |-> {"R"}, acc |-> Ids \X {0}],
    [op |-> "Leaf", cols |-> {"L", "R"}, acc |-> { <<k, k>> : k \in 1..MaxRows }],
    [op |-> "Leaf", cols |-> {}, acc |-> {}] }

PJ == INSTANCE PushdownJoin WITH Conjuncts <- MCConjuncts

(* Spec 4.5: Filter over Join and its rewrite by PushPredicateThroughJoin *)
(* produce the same rows, for the join the executor runs.                 *)
PushdownPreserves == PJ!PushdownPreserves
================================================================================
