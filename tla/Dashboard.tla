----------------------------- MODULE Dashboard -----------------------------
(***************************************************************************)
(* The dashboard in a user's browser and the server that answers it, while *)
(* others edit the sources and an administrator changes the user's access. *)
(* The page works in one of two tabs that share nothing: "sensitivity"     *)
(* varies the parameters of one product, "cost" analyses one or all.       *)
(*                                                                         *)
(* A request is answered from one capture of the sources (CostRequest has  *)
(* the reading file by file).  An aborted request may be answered all the  *)
(* same, and answers arrive in any order.                                  *)
(*                                                                         *)
(* The selects for category and subcategory work as the one for products   *)
(* does and are left out, as is the period; so are draft B, which is       *)
(* edited and sent as draft A is, and the experiments.                     *)
(***************************************************************************)
EXTENDS Sensitivity, DashboardAnalysis

CONSTANTS
  Factories,
  Plant,          \* the factory that has products
  Products, Materials, Pools,
  CategoryOf,     \* of each product
  BomOf,          \* the materials in a product, one unit of each
  CurrencyOf,     \* of each material
  InitialCells, InitiallyMade,
  Changes,        \* what editors may write: [cell, value]
  Directories,    \* the users and factories an administrator may leave
  Combinations,   \* the sets of parameters that are varied together
  Entries,        \* the changes that are entered: [mode, value]
  MaxEdits,       \* bound on edits of sources and of access
  MaxClicks,      \* bound on what the user does
  MaxFlights,     \* bound on requests under way
  All, Lost

Categories == {CategoryOf[p] : p \in Products}
Cells ==
  {[source |-> "materials", name |-> m] : m \in Materials}
    \cup {[source |-> "weights", name |-> c] : c \in Categories}
    \cup {[source |-> "predictions", name |-> NameOf[p]] : p \in Products}
    \cup {[source |-> "pools", name |-> pool] : pool \in Pools}
Contents == Int \cup {Blank}
Parameters ==
  [kind: {"material", "fx"}, name: Materials] \cup [kind: {"pool"}, name: Pools]
    \cup [kind: {"share"}, name: Categories]
    \cup [kind: {"prediction"}, name: {NameOf[p] : p \in Products}]
Tabs == {"sensitivity", "cost"}
Kinds == {"options", "registry", "scenario", "analysis"}

DashboardAssumption ==
  /\ Plant \in Factories /\ InitiallyMade \subseteq Products
  /\ IsFiniteSet(Products) /\ IsFiniteSet(Pools) /\ "BOM" \notin Pools
  /\ InitialCells \in [Cells -> Contents] /\ DOMAIN NameOf = Products
  /\ CategoryOf \in [Products -> Categories]
  /\ BomOf \in [Products -> Seq(Materials)]
  /\ CurrencyOf \in [Materials -> Materials \cup {Rial}]
  /\ \A change \in Changes : change.cell \in Cells /\ change.value \in Contents
  /\ \A d \in Directories : DOMAIN d.factories \subseteq Factories
  /\ Combinations \subseteq (SUBSET Parameters) \ {{}}
  /\ \A e \in Entries : e.mode \in {"absolute", "percent_change"} /\ e.value \in Int
  /\ MaxEdits \in Nat /\ MaxClicks \in Nat /\ MaxFlights \in Nat
  /\ {All, None} \cap Products = {} /\ Blank \notin Int /\ None # Lost
ASSUME DashboardAssumption

VARIABLES
  cells,      \* what each cell of the documents holds
  made,       \* the products there are
  directory,  \* the user's access
  tab,
  listed,     \* the factories on the page
  factory, product,  \* what is selected
  offered,    \* the products to select from; None while the select is off
  draft,      \* the changes proposed, Blank until a value is entered
  context,    \* the snapshot the registry and the baseline are shown from
  accepted,   \* the comparison or the report shown, which can be exported
  status,     \* how the last request ended
  flights,    \* the requests under way
  edits, clicks

server == <<cells, made, directory, edits>>
selects == <<tab, listed, factory, product, offered>>
shown == <<draft, context, accepted, status>>
vars == <<server, selects, shown, flights, clicks>>

-----------------------------------------------------------------------------
(* What the server computes from a capture, [cells, made, directory].      *)

BomRows(p) == [i \in DOMAIN BomOf[p] |->
                 [id |-> i, material |-> BomOf[p][i], usage |-> 1, loss |-> 0,
                  recyclability |-> 0]]
Predicted(c) == {n \in {NameOf[p] : p \in Products} :
                   c[[source |-> "predictions", name |-> n]] # Blank}
Documents(c, p) ==
  [materials |-> [m \in Materials |->
                    [material |-> m, currency |-> CurrencyOf[m],
                     price |-> c[[source |-> "materials", name |-> m]]]],
   bom |-> BomRows(p),
   weights |-> [k \in Categories |->
                  [category |-> k, share |-> c[[source |-> "weights", name |-> k]]]],
   predictions |-> [n \in Predicted(c) |->
                      [product |-> n,
                       quantity |-> c[[source |-> "predictions", name |-> n]]]],
   pools |-> [pool \in Pools |-> <<c[[source |-> "pools", name |-> pool]]>>]]
Population(all, p) == {q \in all : CategoryOf[q] = CategoryOf[p]}

CostWith(c, all, p) == CostFrom(Documents(c, p), p, CategoryOf[p], Population(all, p))
InputsFrom(a, p) == Inputs(Documents(a.cells, p), p, CategoryOf[p],
                           Population(a.made, p))
BaselineOf(a, p) == CostWith(a.cells, a.made, p)
GroupsOf(a) == Permissions(a.directory.user, Plant)
RegistryOf(a, p) ==
  IF BaselineOf(a, p).code # "OK" THEN {}
  ELSE Registry(InputsFrom(a, p), CategoryOf[p], a.made, GroupsOf(a))
ScenarioOf(a, p, d) == Scenario(InputsFrom(a, p), d, RegistryOf(a, p))

ProductsOf(all, f) == IF f = Plant THEN all ELSE {}
Access(a, f) == RequireAccess(a.directory, f, "dashboard")

(* What the sensitivity requests are answered.  A draft that cannot be     *)
(* evaluated is refused without the snapshot it was held against.          *)
SensitivityStatus(a, f, p, d) ==
  IF Access(a, f) # "OK" \/ Forbidden(d, GroupsOf(a)) THEN "refused"
  ELSE IF p \notin ProductsOf(a.made, f) THEN "invalid"
  ELSE IF BaselineOf(a, p).code # "OK" THEN "unavailable"
  ELSE IF ScenarioOf(a, p, d).code # "OK" THEN "invalid" ELSE "ok"

(* What a cost analysis is answered.                                       *)
Selected(a, fl) == IF fl.product = All THEN ProductsOf(a.made, fl.factory)
                                       ELSE {fl.product}
Answers(a, fl) == [p \in Selected(a, fl) |-> BaselineOf(a, p)]
ReportOf(a, fl) ==
  LET answers == Answers(a, fl)
  IN  Report(answers, [p \in CalculatedOf(answers) |-> InputsFrom(a, p)],
             CategoryOf, Pools)
AnalysisStatus(a, fl) ==
  IF Access(a, fl.factory) # "OK" THEN "refused"
  ELSE IF ~Selected(a, fl) \subseteq ProductsOf(a.made, fl.factory) THEN "invalid"
  ELSE IF ReportOf(a, fl).state \in {"OK", "PARTIAL", "NO_MATCH"} THEN "ok"
                                                             ELSE "unavailable"

-----------------------------------------------------------------------------
(* The client's bookkeeping of its requests.                               *)

(* A generation is out of date once its request has been cancelled or      *)
(* superseded.                                                             *)
Loading(kind) == \E fl \in flights : fl.kind = kind /\ fl.current
Cancelled(kinds, S) ==
  {IF fl.kind \in kinds THEN [fl EXCEPT !.current = FALSE] ELSE fl : fl \in S}
Sent(kind, f, p, d) ==
  {[kind |-> kind, factory |-> f, product |-> p, draft |-> d, answer |-> None,
    current |-> TRUE]}

Complete == offered # None /\ product # None

(* invalidateComparison is told by the requests it cancels.  Mutant: an    *)
(* edit leaves the request under way.                                      *)
Invalidated_Kept(S) == S
Invalidated(S) == Cancelled({"scenario", "analysis"}, S)
NothingShown == draft' = <<>> /\ context' = None /\ accepted' = None

Click == clicks < MaxClicks /\ clicks' = clicks + 1
MaySend == Cardinality(flights) < MaxFlights

-----------------------------------------------------------------------------
Init ==
  /\ cells = InitialCells /\ made = InitiallyMade
  /\ directory \in {d \in Directories : Accessible(d, "dashboard") # {}}
  /\ tab \in Tabs /\ listed = Accessible(directory, "dashboard")
  /\ factory = None /\ product = None /\ offered = None
  /\ draft = <<>> /\ context = None /\ accepted = None /\ status = "none"
  /\ flights = {} /\ edits = 0 /\ clicks = 0

(* A factory is chosen, again after a failure, and its products are asked  *)
(* for.                                                                    *)
ChooseFactory(f) ==
  /\ Click /\ MaySend /\ f \in listed
  /\ factory' = f /\ product' = None /\ offered' = None
  /\ NothingShown /\ status' = "none"
  /\ flights' = Cancelled({"options", "registry"}, Invalidated(flights))
                  \cup Sent("options", f, None, <<>>)
  /\ UNCHANGED <<server, tab, listed>>

(* A product is chosen: its baseline and registry are asked for.           *)
ChooseProduct(p) ==
  /\ Click /\ MaySend /\ offered # None
  /\ p \in offered \/ (p = All /\ tab = "cost")
  /\ product' = p /\ NothingShown /\ status' = "none"
  /\ flights' = Cancelled({"registry"}, Invalidated(flights))
                  \cup (IF tab = "sensitivity" THEN Sent("registry", factory, p, <<>>)
                                               ELSE {})
  /\ UNCHANGED <<server, tab, listed, factory, offered>>

Refresh ==
  /\ Click /\ MaySend /\ tab = "sensitivity"
  /\ Complete /\ ~Loading("options") /\ ~Loading("registry")
  /\ NothingShown /\ status' = "none"
  /\ flights' = Cancelled({"registry"}, Invalidated(flights))
                  \cup Sent("registry", factory, product, <<>>)
  /\ UNCHANGED <<server, selects>>

-----------------------------------------------------------------------------
(* The draft.  Every change invalidates the comparison.                    *)

Offered == IF context = None THEN {} ELSE RegistryOf(context, product)
Drafted(d) ==
  /\ Click /\ draft' = d
  /\ accepted' = None /\ status' = "none" /\ flights' = Invalidated(flights)
  /\ UNCHANGED <<server, selects, context>>

AddDraft(param) ==
  /\ param \in Offered \ DOMAIN draft
  /\ DOMAIN draft \cup {param} \in Combinations
  /\ Drafted([x \in DOMAIN draft \cup {param} |->
                IF x = param THEN Blank ELSE draft[x]])
EditDraft(param, entry) ==
  /\ param \in DOMAIN draft /\ entry # draft[param]
  /\ Drafted([draft EXCEPT ![param] = entry])
RemoveDraft(param) ==
  /\ param \in DOMAIN draft
  /\ Drafted([x \in DOMAIN draft \ {param} |-> draft[x]])
Reset ==
  /\ tab = "sensitivity"
  /\ draft # <<>> \/ accepted # None \/ Loading("scenario")
  /\ Drafted(<<>>)

(* The client checks what is absolute; it calculates nothing.              *)
Acceptable(param, change) ==
  /\ change # Blank
  /\ change.mode = "absolute" =>
       InDomain(InputsFrom(context, product), param, change.value)
Run ==
  /\ Click /\ MaySend /\ tab = "sensitivity"
  /\ ~\E k \in Kinds : Loading(k)
  /\ Complete /\ context # None /\ BaselineOf(context, product).code = "OK"
  /\ \A param \in DOMAIN draft : Acceptable(param, draft[param])
  /\ accepted' = None /\ status' = "none"
  /\ flights' = Cancelled({"registry"}, Invalidated(flights))
                  \cup Sent("scenario", factory, product, draft)
  /\ UNCHANGED <<server, selects, draft, context>>

Analyze ==
  /\ Click /\ MaySend /\ tab = "cost"
  /\ Complete /\ ~\E k \in Kinds : Loading(k)
  /\ accepted' = None /\ status' = "none"
  /\ flights' = Invalidated(flights) \cup Sent("analysis", factory, product, <<>>)
  /\ UNCHANGED <<server, selects, draft, context>>

-----------------------------------------------------------------------------
(* Answers.                                                                *)

Answer(fl) ==
  /\ fl.answer = None
  /\ flights' = (flights \ {fl}) \cup
       {[fl EXCEPT !.answer = [cells |-> cells, made |-> made, directory |-> directory]]}
  /\ UNCHANGED <<server, selects, shown, clicks>>

(* The session has ended, the connection is lost, the answer is no JSON.   *)
Fail(fl) ==
  /\ fl.answer = None
  /\ flights' = (flights \ {fl}) \cup {[fl EXCEPT !.answer = Lost]}
  /\ UNCHANGED <<server, selects, shown, clicks>>

IsAwaited(fl) == fl.current /\ fl.factory = factory

(* Superseded: dropped.                                                    *)
Ignore(fl) ==
  /\ fl.answer # None /\ ~(IsAwaited(fl) /\ (fl.kind = "options" \/ fl.product = product))
  /\ flights' = flights \ {fl} /\ UNCHANGED <<server, selects, shown, clicks>>

ArriveOptions(fl) ==
  /\ fl.kind = "options" /\ fl.answer # None /\ IsAwaited(fl)
  /\ flights' = flights \ {fl} /\ product' = None
  /\ IF fl.answer # Lost /\ Access(fl.answer, fl.factory) = "OK"
       THEN /\ offered' = ProductsOf(fl.answer.made, fl.factory) /\ status' = "ok"
            /\ UNCHANGED <<draft, context, accepted>>
       ELSE /\ offered' = None /\ status' = "failed"
            /\ IF tab = "sensitivity" THEN NothingShown
                                      ELSE UNCHANGED <<draft, context, accepted>>
  /\ UNCHANGED <<server, tab, listed, factory, clicks>>

(* Mutant: the draft survives a change of permissions.                     *)
Kept_All(d, registry) == d
Kept(d, registry) == [param \in DOMAIN d \cap registry |-> d[param]]
(* Mutants: a refusal leaves what is shown; a baseline that could not be   *)
(* calculated leaves nothing.                                              *)
Forgets_Lost(outcome) == outcome \in {"failed", "invalid"}
Forgets_Unavailable(outcome) == outcome # "ok"
Forgets(outcome) == outcome \in {"failed", "refused", "invalid"}

(* A snapshot replaces the context and takes from the draft what it does   *)
(* not offer; a failure without one clears everything.                     *)
ArriveSensitivity(fl) ==
  LET outcome == IF fl.answer = Lost THEN "failed"
                 ELSE SensitivityStatus(fl.answer, fl.factory, fl.product, fl.draft)
  IN  /\ fl.kind \in {"registry", "scenario"} /\ fl.answer # None
      /\ IsAwaited(fl) /\ fl.product = product
      /\ flights' = flights \ {fl} /\ status' = outcome
      /\ IF Forgets(outcome) THEN NothingShown
         ELSE /\ context' = IF fl.answer = Lost THEN context ELSE fl.answer
              /\ draft' = Kept(draft, RegistryOf(context', product))
              /\ accepted' = IF fl.kind = "scenario" /\ outcome = "ok"
                               THEN fl ELSE accepted
      /\ UNCHANGED <<server, selects, clicks>>

ArriveReport(fl) ==
  LET outcome == IF fl.answer = Lost THEN "failed" ELSE AnalysisStatus(fl.answer, fl)
  IN  /\ fl.kind = "analysis" /\ fl.answer # None
      /\ IsAwaited(fl) /\ fl.product = product
      /\ flights' = flights \ {fl} /\ status' = outcome
      /\ accepted' = IF outcome = "ok" \/ (outcome = "unavailable"
                                            /\ Selected(fl.answer, fl) # {})
                       THEN fl ELSE IF outcome = "failed" THEN None ELSE accepted
      /\ UNCHANGED <<server, selects, draft, context, clicks>>

Arrive(fl) == ArriveOptions(fl) \/ ArriveSensitivity(fl) \/ ArriveReport(fl)
                \/ Ignore(fl)

-----------------------------------------------------------------------------
(* Everybody else.                                                         *)

Edit(change) ==
  /\ edits < MaxEdits /\ edits' = edits + 1
  /\ cells' = [cells EXCEPT ![change.cell] = change.value]
  /\ UNCHANGED <<made, directory, selects, shown, flights, clicks>>
Make(p) ==
  /\ edits < MaxEdits /\ edits' = edits + 1
  /\ p \notin made /\ made' = made \cup {p}
  /\ UNCHANGED <<cells, directory, selects, shown, flights, clicks>>
ChangeAccess(d) ==
  /\ edits < MaxEdits /\ edits' = edits + 1
  /\ directory' = [d EXCEPT !.user.grants = Canonical(@)]
  /\ UNCHANGED <<cells, made, selects, shown, flights, clicks>>

User ==
  \/ \E f \in Factories : ChooseFactory(f)
  \/ \E p \in Products \cup {All} : ChooseProduct(p)
  \/ Refresh \/ Run \/ Analyze \/ Reset
  \/ \E param \in Parameters : \/ AddDraft(param) \/ RemoveDraft(param)
                               \/ \E e \in Entries : EditDraft(param, e)
Next ==
  \/ User
  \/ \E fl \in flights : Answer(fl) \/ Fail(fl) \/ Arrive(fl)
  \/ \E change \in Changes : Edit(change)
  \/ \E p \in Products : Make(p)
  \/ \E d \in Directories : ChangeAccess(d)

Spec == Init /\ [][Next]_vars

-----------------------------------------------------------------------------
(* Whatever is shown, and could be exported, is of the product that is     *)
(* selected and of the draft as it stands, whichever answers are late.     *)
ShownIsCurrent ==
  /\ accepted # None =>
       /\ accepted.factory = factory /\ accepted.product = product
       /\ tab = "sensitivity" => accepted.draft = draft /\ context = accepted.answer
  /\ context # None => product \in ProductsOf(context.made, factory)

(* A draft holds nothing that the registry on the page does not offer.     *)
DraftsAreOffered == DOMAIN draft \subseteq Offered

(* Varying parameters is editing their cells: with every snapshot that is  *)
(* awaited and every draft it accepts, a scenario costs what the           *)
(* product would cost if the cells the parameters stand for held the final *)
(* values, and is refused when that could not be calculated.               *)
Drafts == UNION {[S -> Entries] : S \in Combinations}
Varied(a, p, d) ==
  LET in == InputsFrom(a, p)
  IN  [c \in Cells |->
         IF \E param \in DOMAIN d : CellOf(param) = c
           THEN LET param == CHOOSE x \in DOMAIN d : CellOf(x) = c
                IN  Final(in, param, d[param])
           ELSE a.cells[c]]
ScenarioIsAnEdit ==
  \A fl \in flights :
    fl.kind = "registry" /\ fl.current /\ fl.answer \notin {None, Lost} =>
      LET a == fl.answer
          p == fl.product
          registry == RegistryOf(a, p)
      IN  \A d \in Drafts :
            DraftProblem(InputsFrom(a, p), d, registry) = "OK" =>
              LET edited == CostWith(Varied(a, p, d), a.made, p)
                  answer == ScenarioOf(a, p, d)
              IN  IF edited.code = "OK" THEN answer = edited ELSE answer.code # "OK"

(* A report adds up: the costs of what could be calculated are what their  *)
(* drivers come to, their average is one of them or lies between them, and *)
(* a total of part of the selection is never shown as that of the whole.   *)
AtMost(x, y) == Minus(y, x).num >= 0
ReportAddsUp ==
  tab = "cost" /\ accepted # None =>
    LET a == accepted.answer
        answers == Answers(a, accepted)
        report == ReportOf(a, accepted)
        costs == {answers[p].cost : p \in CalculatedOf(answers)}
    IN  /\ costs # {} => Total(report.drivers) =
             IF report.state = "OK" THEN report.projected_total
                                    ELSE report.partial_total
        /\ report.average # None =>
             \E low, high \in costs :
               AtMost(low, report.average) /\ AtMost(report.average, high)
        /\ report.projected_total # None => DOMAIN answers = CalculatedOf(answers)
        /\ report.coverage.excluded = 0 <=> report.state \in {"OK", "NO_MATCH"}

(* A refusal leaves nothing on the page that it protects.                  *)
RefusalClears ==
  status = "refused" => context = None /\ accepted = None /\ draft = <<>>

(* A complete selection is never left without an answer or a message.      *)
NoSilentSelection ==
  tab = "sensitivity" /\ Complete =>
    Loading("registry") \/ context # None \/ status \in {"failed", "refused", "invalid"}
=============================================================================
