---------------------------- MODULE Sensitivity ----------------------------
(***************************************************************************)
(* The sensitivity service: which parameters of a product a user may vary, *)
(* and what the product costs when some of them are.  There is no state    *)
(* here; Dashboard says when and for whom it is asked.                     *)
(*                                                                         *)
(* A parameter is [kind, name].  A draft gives parameters a mode and a     *)
(* value.  Everything is computed from the inputs of one capture.          *)
(***************************************************************************)
EXTENDS CostFormula, AccessPolicy

GroupOf(kind) ==
  IF kind \in {"material", "fx"} THEN "general_parameters"
                                 ELSE "factory_parameters"

Permissions(user, factory) ==
  (IF HasAccess(user, "general_parameters", Levels.READ, NoFactory, "GLOBAL")
   THEN {"general_parameters"} ELSE {}) \cup
  (IF HasAccess(user, "factory_parameters", Levels.READ, factory, "FACTORY")
   THEN {"factory_parameters"} ELSE {})

-----------------------------------------------------------------------------
(* The registry.                                                           *)

Parameter(kind, names) == {[kind |-> kind, name |-> n] : n \in names}
LinesOf(in, column, name) == {i \in DOMAIN in.lines : in.lines[i][column] = name}
Column(in, column) == {in.lines[i][column] : i \in DOMAIN in.lines}
Currencies(in) == Column(in, "currency") \ {Rial}

(* Products of one name share one cell of the predictions, whatever their  *)
(* categories: it is nobody's own.                                         *)
OwnPrediction(product, catalog) ==
  {p \in {product} : \A q \in catalog : NameOf[q] = NameOf[p] => q = p}

Registry(in, category, catalog, permissions) ==
  {param \in Parameter("material", Column(in, "material"))
               \cup Parameter("fx", Currencies(in))
               \cup Parameter("pool", DOMAIN in.pools)
               \cup Parameter("share", {category})
               \cup Parameter("prediction",
                      {NameOf[p] : p \in OwnPrediction(in.product, catalog)}) :
     GroupOf(param.kind) \in permissions}

(* The cell of the documents that a parameter stands for.  A currency is a *)
(* row of the materials: as a material and as a rate it has one cell.      *)
CellOf(param) ==
  [source |-> CASE param.kind \in {"material", "fx"} -> "materials"
                [] param.kind = "pool" -> "pools"
                [] param.kind = "share" -> "weights"
                [] param.kind = "prediction" -> "predictions",
   name |-> param.name]

Baseline(in, param) ==
  CASE param.kind = "material" ->
         in.lines[CHOOSE i \in LinesOf(in, "material", param.name) : TRUE].price
    [] param.kind = "fx" ->
         in.lines[CHOOSE i \in LinesOf(in, "currency", param.name) : TRUE].fx
    [] param.kind = "pool" -> in.pools[param.name]
    [] param.kind = "share" -> in.share
    [] param.kind = "prediction" -> in.predictions[in.product]

(* What a parameter changes: the price of every line of the material, and  *)
(* the rate of every line in the currency, whichever it is offered as.     *)
PricedBy(in, param) ==
  IF GroupOf(param.kind) = "general_parameters"
    THEN LinesOf(in, "material", param.name) ELSE {}
(* Mutant: only a rate changes the lines in that currency.                 *)
RatedBy_OwnKind(in, param) ==
  IF param.kind = "fx" THEN {param.name} \cap Currencies(in) ELSE {}
RatedBy(in, param) ==
  IF GroupOf(param.kind) = "general_parameters"
    THEN {param.name} \cap Currencies(in) ELSE {}

(* The value proposed: given, or so many percent more than the baseline's. *)
Final(in, param, change) ==
  IF change.mode = "absolute" THEN change.value
  ELSE (Baseline(in, param) * (100 + change.value)) \div 100

(* Smallest and largest value; only rates and shares may not be zero.      *)
InDomain(in, param, value) ==
  /\ value >= 0
  /\ param.kind = "share" \/ RatedBy(in, param) # {} => value > 0
  /\ param.kind = "share" => value <= 100

-----------------------------------------------------------------------------
(* A scenario.                                                             *)

ByKey(pairs) == [k \in {pair[1] : pair \in pairs} |->
                   (CHOOSE pair \in pairs : pair[1] = k)[2]]
Of(draft, kind) == {param \in DOMAIN draft : param.kind = kind}
Overrides(in, draft) ==
  LET Value(param) == Final(in, param, draft[param])
  IN  [prices |-> ByKey(UNION {{<<in.lines[i].row, Value(param)>> :
                                  i \in PricedBy(in, param)} : param \in DOMAIN draft}),
       rates |-> ByKey(UNION {{<<c, Value(param)>> :
                                  c \in RatedBy(in, param)} : param \in DOMAIN draft}),
       pools |-> ByKey({<<param.name, Value(param)>> : param \in Of(draft, "pool")}),
       share |-> ByKey({<<"share", Value(param)>> : param \in Of(draft, "share")}),
       predictions |-> ByKey({<<in.product, Value(param)>> :
                                param \in Of(draft, "prediction")})]

(* What keeps a draft from being evaluated.  Which of several problems is  *)
(* reported is left out.                                                   *)
Conflicting(draft) ==
  \E a, b \in DOMAIN draft : a # b /\ CellOf(a) = CellOf(b)
DraftProblem(in, draft, registry) ==
  IF ~DOMAIN draft \subseteq registry THEN "UNKNOWN_OR_UNAVAILABLE_PARAMETER"
  ELSE IF Conflicting(draft) THEN "CONFLICTING_SOURCE_OVERRIDES" ELSE "OK"
ValueProblem(in, draft) ==
  FirstProblem(
    << IF \A param \in DOMAIN draft :
            InDomain(in, param, Final(in, param, draft[param]))
         THEN "OK" ELSE "FINAL_VALUE_OUT_OF_DOMAIN",
       IF PredictionTotal(WithOverrides(in, Overrides(in, draft))) > 0
         THEN "OK" ELSE "INVALID_PREDICTION_DENOMINATOR" >>)

Scenario(in, draft, registry) ==
  IF DraftProblem(in, draft, registry) # "OK"
    THEN [code |-> DraftProblem(in, draft, registry)]
  ELSE IF ValueProblem(in, draft) # "OK" THEN [code |-> ValueProblem(in, draft)]
  ELSE Cost(in, Overrides(in, draft))

(* Refused before anything is read: a group the user may not use.          *)
Forbidden(draft, permissions) ==
  \E param \in DOMAIN draft : GroupOf(param.kind) \notin permissions
=============================================================================
