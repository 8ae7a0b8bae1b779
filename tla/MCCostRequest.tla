--------------------------- MODULE MCCostRequest ---------------------------
(* Small instances of CostRequest for TLC.                                 *)
EXTENDS CostRequest, TLC

CONSTANTS r1, r2, p1, p2, pool1

Alike == Permutations(Requests)
OwnNames == [p \in {p1, p2} |-> p]

Ready(v) == [value |-> v, marks |-> {}]
Predicted == [value |-> p1 :> 1 @@ p2 :> 1, marks |-> {}]
Complete ==
  "materials" :> Ready(1) @@ "weights" :> Ready(1) @@ "predictions" :> Predicted
    @@ pool1 :> Ready(1) @@ p1 :> Ready(1) @@ p2 :> Ready(1)
ReadingOrder ==
  "materials" :> 1 @@ p1 :> 2 @@ p2 :> 3 @@ "weights" :> 4 @@ "predictions" :> 5
    @@ pool1 :> 6

(* All there; a product whose BOM is missing; a product nobody knows; what *)
(* the activation generates for a factory without legacy files.            *)
Cases ==
  { Complete, [Complete EXCEPT ![p2] = Absent], [Complete EXCEPT ![p1] = Absent],
    [Complete EXCEPT ![pool1] = [value |-> Blank, marks |-> {"status", "migration"}],
                     !["weights"] = [value |-> Blank, marks |-> {"status"}]] }

(* The activation found no legacy shares.                                  *)
SharesGenerated ==
  {[Complete EXCEPT !["weights"] = [value |-> Blank, marks |-> {"status"}]]}
=============================================================================
