------------------------- MODULE MCPlanningPeriods -------------------------
(* Small instances of PlanningPeriods for TLC.                             *)
EXTENDS PlanningPeriods, TLC

CONSTANTS w1, w2, f1, f2, second

Record(f, p, status) == [factory |-> f, period |-> p, status |-> status]

(* No file; a file from before automatic activation, with a draft; a file  *)
(* in which the first period gave way to a second one.                     *)
AnyFile ==
  { Missing, {Record(f1, Initial, "DRAFT")},
    { Record(f1, Initial, "APPROVED_INACTIVE"), Record(f1, second, "ACTIVE")} }

Symmetry == Permutations(Workers)
=============================================================================
