------------------------- MODULE DashboardAnalysis -------------------------
(***************************************************************************)
(* The report of a cost analysis over the products that are selected: the  *)
(* answer for each, the totals of those that can be calculated, and what   *)
(* drives them.  There is no state here.                                   *)
(***************************************************************************)
EXTENDS CostFormula

CONSTANT None

Percentage(part, whole) == Fraction(part * 100, whole)

StateOf(code) ==
  CASE code \in {"MISSING_NUMERIC_INPUT", "MISSING_PRODUCT_PREDICTION"} ->
         "MISSING_INPUT"
    [] code \in {"BOM_ROW_ID_NOT_UNIQUE", "AMBIGUOUS_FX_MAPPING",
                 "MATERIAL_PRICE_NOT_UNIQUE", "CATEGORY_SHARE_NOT_UNIQUE",
                 "PREDICTION_NOT_UNIQUE"} -> "AMBIGUOUS_INPUT"
    [] code \in {"INVALID_NUMBER", "INVALID_PERCENTAGE", "INVALID_FX_RATE",
                 "INVALID_CATEGORY_SHARE", "INVALID_PREDICTION_DENOMINATOR"} ->
         "INVALID_INPUT"

(* Here answers[p] is the answer for p and inputs[p], where there is an    *)
(* answer, what it was calculated from.                                    *)
CalculatedOf(answers) == {p \in DOMAIN answers : answers[p].code = "OK"}
ReportState(answers) ==
  LET calculated == CalculatedOf(answers)
      states == {StateOf(answers[p].code) : p \in DOMAIN answers \ calculated}
  IN  IF DOMAIN answers = {} THEN "NO_MATCH"
      ELSE IF calculated = DOMAIN answers THEN "OK"
      ELSE IF calculated # {} THEN "PARTIAL"
      ELSE IF Cardinality(states) = 1 THEN CHOOSE s \in states : TRUE
                                      ELSE "UNAVAILABLE"

Prediction(in) == in.predictions[in.product]
Projected(in, cost) == Times(cost, Whole(Prediction(in)))

(* Mutant: every product that is selected counts.                          *)
QuantityOf_Selected(answers, inputs) ==
  Total([p \in DOMAIN answers |->
           Whole(IF answers[p].code = "OK" THEN Prediction(inputs[p]) ELSE 1)])
QuantityOf(answers, inputs) ==
  Total([p \in CalculatedOf(answers) |-> Whole(Prediction(inputs[p]))])

DriverOf(inputs, calculated, driver) ==
  Total([p \in calculated |->
           IF driver = "BOM" THEN Projected(inputs[p], BomTotal(inputs[p]))
                             ELSE Contribution(inputs[p], driver)])
Coverage(answers) ==
  LET n == Cardinality(DOMAIN answers)
      k == Cardinality(CalculatedOf(answers))
  IN  [configured |-> n, calculated |-> k, excluded |-> n - k,
       percentage |-> IF n = 0 THEN None ELSE Percentage(k, n)]

(* A pool: what it holds, what the selected products take of it and what   *)
(* their categories take.                                                  *)
PoolOf(inputs, calculated, categoryOf, pool) ==
  LET OneOfEach == {CHOOSE p \in calculated : categoryOf[p] = c :
                      c \in {categoryOf[p] : p \in calculated}}
  IN  [raw |-> inputs[CHOOSE p \in calculated : TRUE].pools[pool],
       selected |-> DriverOf(inputs, calculated, pool),
       category |-> Total([p \in OneOfEach |-> AdjustedPool(inputs[p], pool)])]

Report(answers, inputs, categoryOf, pools) ==
  LET calculated == CalculatedOf(answers)
      state == ReportState(answers)
      total == Total([p \in calculated |-> Projected(inputs[p], answers[p].cost)])
      quantity == QuantityOf(answers, inputs)
      drivers == [d \in pools \cup {"BOM"} |-> DriverOf(inputs, calculated, d)]
      largest == {d \in DOMAIN drivers :
                    \A e \in DOMAIN drivers :
                      Minus(drivers[d], drivers[e]).num >= 0}
  IN  [state |-> state, coverage |-> Coverage(answers),
       projected_total |-> IF state = "OK" THEN total ELSE None,
       partial_total |-> IF state = "PARTIAL" THEN total ELSE None,
       average |-> IF calculated = {} \/ quantity = Zero THEN None
                   ELSE Times(total, Fraction(quantity.den, quantity.num)),
       drivers |-> IF calculated = {} THEN <<>> ELSE drivers,
       top |-> IF calculated = {} THEN {} ELSE largest,
       pools |-> [pool \in IF calculated = {} THEN {} ELSE pools |->
                    PoolOf(inputs, calculated, categoryOf, pool)]]
=============================================================================
