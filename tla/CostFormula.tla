---------------------------- MODULE CostFormula ----------------------------
(***************************************************************************)
(* What a product costs: the documents a calculation reads, the inputs it  *)
(* takes from them, the overrides of a scenario and the V1 formula.  There *)
(* is no state here: CostRequest says when the documents are read, and     *)
(* Dashboard what is asked of them.                                        *)
(*                                                                         *)
(* A document is a function from row numbers to rows, records with one     *)
(* field per column; its columns have one length.  Money is exact: a       *)
(* Decimal is a fraction in lowest terms, whose rounding at 28 digits is   *)
(* left out.                                                               *)
(***************************************************************************)
EXTENDS Integers, Sequences, FiniteSets, Functions

CONSTANTS
  Rial,   \* the currency that needs no rate
  Blank,  \* a cell without a value
  NameOf  \* the name of a product; the predictions know it by nothing else

-----------------------------------------------------------------------------
(* Fractions.                                                              *)

Gcd[pair \in Nat \X Nat] ==
  IF pair[2] = 0 THEN pair[1] ELSE Gcd[<<pair[2], pair[1] % pair[2]>>]
Fraction(num, den) ==
  LET g == Gcd[<<IF num < 0 THEN -num ELSE num, den>>]
  IN  [num |-> num \div g, den |-> den \div g]
Whole(n) == Fraction(n, 1)
Plus(a, b) == Fraction(a.num * b.den + b.num * a.den, a.den * b.den)
Minus(a, b) == Fraction(a.num * b.den - b.num * a.den, a.den * b.den)
Times(a, b) == Fraction(a.num * b.num, a.den * b.den)
Zero == Whole(0)
Total(f) == FoldFunction(Plus, Zero, f)

-----------------------------------------------------------------------------
(* Reading documents.  A code is "OK" or says what is wrong; the first     *)
(* check that fails is the one that is reported.                           *)

FirstProblem(codes) ==
  LET failed == {i \in DOMAIN codes : codes[i] # "OK"}
  IN  IF failed = {} THEN "OK"
      ELSE codes[CHOOSE i \in failed : \A j \in failed : i <= j]
OneOf(code, codes) == IF codes \subseteq {"OK"} THEN code ELSE
                      CHOOSE c \in codes : c # "OK"

Number(value) ==
  CASE value = Blank -> "MISSING_NUMERIC_INPUT"
    [] value # Blank -> IF value < 0 THEN "INVALID_NUMBER" ELSE "OK"

Matching(rows, column, name) == {i \in DOMAIN rows : rows[i][column] = name}
The(rows, column, name) == rows[CHOOSE i \in Matching(rows, column, name) : TRUE]
Unique(rows, column, name) == Cardinality(Matching(rows, column, name)) = 1

(* The rate of a currency is the price of the one row that bears its name, *)
(* in Rial.                                                                *)
RateProblem(materials, currency) ==
  IF currency = Rial THEN "OK"
  ELSE IF /\ Unique(materials, "material", currency)
          /\ The(materials, "material", currency).currency = Rial
       THEN Number(The(materials, "material", currency).price)
       ELSE "AMBIGUOUS_FX_MAPPING"
Rate(materials, currency) ==
  IF currency = Rial THEN 1 ELSE The(materials, "material", currency).price

LineProblem(materials, row) ==
  IF ~Unique(materials, "material", row.material)
  THEN "MATERIAL_PRICE_NOT_UNIQUE"
  ELSE LET current == The(materials, "material", row.material)
       IN  FirstProblem(<<RateProblem(materials, current.currency),
                          Number(row.usage), Number(row.loss),
                          Number(row.recyclability), Number(current.price)>>)
Line(materials, row) ==
  LET current == The(materials, "material", row.material)
  IN  [row |-> row.id, material |-> row.material, currency |-> current.currency,
       price |-> current.price, fx |-> Rate(materials, current.currency),
       usage |-> row.usage, loss |-> row.loss,
       recyclability |-> row.recyclability]

RowProblem(rows, column, name, value, code) ==
  IF Unique(rows, column, name) THEN Number(The(rows, column, name)[value])
                                ELSE code
PredictionProblem(predictions, population) ==
  LET problems == {RowProblem(predictions, "product", NameOf[p], "quantity",
                              "PREDICTION_NOT_UNIQUE") : p \in population}
  IN  OneOf("OK", problems)
PoolProblem(pools) ==
  OneOf("OK", UNION {{Number(pools[pool][i]) : i \in DOMAIN pools[pool]} :
                       pool \in DOMAIN pools})
RawPool(rows) == FoldFunction(+, 0, rows)
RowsAreDistinct(bom) == \A i, j \in DOMAIN bom : bom[i].id = bom[j].id => i = j

(* What keeps a product of the category from being calculated, given the   *)
(* population its costs are spread over, in the order of CostInputLoader.  *)
LoadProblem(docs, category, population) ==
  FirstProblem(
    [i \in DOMAIN docs.bom |-> LineProblem(docs.materials, docs.bom[i])] \o
    << IF RowsAreDistinct(docs.bom) THEN "OK" ELSE "BOM_ROW_ID_NOT_UNIQUE",
       RowProblem(docs.weights, "category", category, "share",
                  "CATEGORY_SHARE_NOT_UNIQUE"),
       PredictionProblem(docs.predictions, population), PoolProblem(docs.pools) >>)

(* Immutable inputs of one product.                                        *)
Inputs(docs, product, category, population) ==
  [product |-> product,
   lines |-> [i \in DOMAIN docs.bom |-> Line(docs.materials, docs.bom[i])],
   share |-> The(docs.weights, "category", category).share,
   predictions |->
     [p \in population |-> The(docs.predictions, "product", NameOf[p]).quantity],
   pools |-> [pool \in DOMAIN docs.pools |-> RawPool(docs.pools[pool])]]

-----------------------------------------------------------------------------
(* The formula.  Overrides are partial functions: prices by row, rates by  *)
(* currency, amounts by pool, the share, predictions by product.           *)

NoOverrides == [prices |-> <<>>, rates |-> <<>>, pools |-> <<>>,
                share |-> <<>>, predictions |-> <<>>]
Overridden(override, key, value) ==
  IF key \in DOMAIN override THEN override[key] ELSE value

LineWith(line, o) ==
  [line EXCEPT !.price = Overridden(o.prices, line.row, @),
               !.fx = Overridden(o.rates, line.currency, @)]
WithOverrides(inputs, o) ==
  [product |-> inputs.product,
   lines |-> [i \in DOMAIN inputs.lines |-> LineWith(inputs.lines[i], o)],
   share |-> Overridden(o.share, "share", inputs.share),
   predictions |-> [p \in DOMAIN inputs.predictions |->
                      Overridden(o.predictions, p, inputs.predictions[p])],
   pools |-> [pool \in DOMAIN inputs.pools |->
                Overridden(o.pools, pool, inputs.pools[pool])]]

(* One BOM line: usage times price times rate, less what is recycled of    *)
(* what is lost.                                                           *)
LiveProblem(line) ==
  IF line.loss > 100 \/ line.recyclability > 100 THEN "INVALID_PERCENTAGE"
  ELSE IF line.fx <= 0 THEN "INVALID_FX_RATE" ELSE "OK"
LiveCost(line) ==
  Times(Whole(line.usage * line.price * line.fx),
        Fraction(10000 - line.loss * line.recyclability, 10000))

PredictionTotal(in) == FoldFunction(+, 0, in.predictions)
CostProblem(in) ==
  FirstProblem(
    << IF in.share \in 1 .. 100 THEN "OK" ELSE "INVALID_CATEGORY_SHARE",
       IF in.product \in DOMAIN in.predictions THEN "OK"
                                      ELSE "MISSING_PRODUCT_PREDICTION",
       IF PredictionTotal(in) > 0 THEN "OK"
                                  ELSE "INVALID_PREDICTION_DENOMINATOR" >> \o
    [i \in DOMAIN in.lines |-> LiveProblem(in.lines[i])])

(* A factory-wide pool, scaled up by the category's share and spread over  *)
(* the category's predicted production.                                    *)
AdjustedPool(in, pool) == Fraction(in.pools[pool] * 100, in.share)
PerUnit(in, pool) ==
  Times(AdjustedPool(in, pool), Fraction(1, PredictionTotal(in)))
Contribution(in, pool) ==
  Times(PerUnit(in, pool), Whole(in.predictions[in.product]))

BomTotal(in) == Total([i \in DOMAIN in.lines |-> LiveCost(in.lines[i])])
DriverTotal(in) == Total([pool \in DOMAIN in.pools |-> PerUnit(in, pool)])
UnitCost(in) == Plus(BomTotal(in), DriverTotal(in))

(* The answer of a calculation on inputs that were loaded.                 *)
Cost(inputs, overrides) ==
  LET in == WithOverrides(inputs, overrides)
      code == CostProblem(in)
  IN  IF code = "OK" THEN [code |-> "OK", cost |-> UnitCost(in)]
                     ELSE [code |-> code]

(* The answer of a calculation on documents.                               *)
CostFrom(docs, product, category, population) ==
  LET code == LoadProblem(docs, category, population)
  IN  IF code = "OK"
        THEN Cost(Inputs(docs, product, category, population), NoOverrides)
        ELSE [code |-> code]

(* save_bom takes a bill of materials only when it can be calculated with  *)
(* the prices of the moment.                                               *)
BomProblem(materials, bom) ==
  FirstProblem([i \in DOMAIN bom |->
    LET problem == LineProblem(materials, bom[i])
    IN  IF problem = "OK" THEN LiveProblem(Line(materials, bom[i])) ELSE problem])
=============================================================================
