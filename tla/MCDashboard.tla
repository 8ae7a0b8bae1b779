---------------------------- MODULE MCDashboard ----------------------------
(* A small instance of Dashboard for TLC.                                  *)
EXTENDS Dashboard, TLC

CONSTANTS f1, f2, p1, p2, p3, steel, usd, pool1, cat

(* Steel is priced in dollars, and the first product also holds dollars as *)
(* a material.  The third product has the second one's name.               *)
Boms == p1 :> <<steel, usd>> @@ p2 :> <<usd>> @@ p3 :> <<usd>>
PricedIn == steel :> usd @@ usd :> Rial
Names == p1 :> p1 @@ p2 :> p2 @@ p3 :> p2
OneCategory == [p \in {p1, p2, p3} |-> cat]

Price(m) == [source |-> "materials", name |-> m]
Share == [source |-> "weights", name |-> cat]
Quantity(p) == [source |-> "predictions", name |-> p]
Pool == [source |-> "pools", name |-> pool1]
AtFirst == Price(steel) :> 1 @@ Price(usd) :> 2 @@ Share :> 50
             @@ Quantity(p1) :> 1 @@ Quantity(p2) :> 2 @@ Pool :> 3

Edited == {[cell |-> Price(usd), value |-> 3], [cell |-> Price(steel), value |-> Blank]}

Grant(module, f, scope) ==
  [scope |-> scope, factory |-> f, module |-> module, level |-> 1]
Who(grants) == [factories |-> f1 :> TRUE @@ f2 :> TRUE,
                user |-> [role |-> "USER", active |-> TRUE, grants |-> grants]]
Dashboards == {Grant("dashboard", f1, "FACTORY"), Grant("dashboard", f2, "FACTORY")}
General == {Grant("general_parameters", NoFactory, "GLOBAL")}
OfPlant == {Grant("factory_parameters", f1, "FACTORY")}
Accesses ==
  {Who(Dashboards \cup General \cup OfPlant), Who(Dashboards \cup OfPlant),
   Who(General \cup OfPlant)}

P(kind, name) == [kind |-> kind, name |-> name]
Together ==
  {{P("material", usd)}, {P("fx", usd)}, {P("material", usd), P("share", cat)},
   {P("share", cat), P("pool", pool1)}, {P("pool", pool1)},
   {P("prediction", p1)}, {P("prediction", p2)}}
Entered ==
  {[mode |-> "absolute", value |-> 4], [mode |-> "percent_change", value |-> -100],
   [mode |-> "percent_change", value |-> 200]}
=============================================================================
