---------------------------- MODULE CostRequest ----------------------------
(***************************************************************************)
(* Requests that calculate the costs of one factory while its sources are  *)
(* edited: single and bulk cost calculations, which install a missing bill *)
(* of materials, and the dashboard's analyses, which never write.  A       *)
(* request reads file after file; one CostInputLoader keeps what it read.  *)
(*                                                                         *)
(* The planning period is bound (PlanningPeriods has the requests that     *)
(* bind it) and the configuration is activated (FactoryConfiguration has   *)
(* the requests that do it, and the saves of a pool step by step).  All    *)
(* products are of one category.                                           *)
(***************************************************************************)
EXTENDS CostFormula

CONSTANTS
  Requests, Products, Pools,
  Category,
  Values,         \* what a cell may hold
  Entered,        \* what editors enter
  InitialFiles,
  Order,          \* the place of each source in the order of reading
  Known,          \* the products with a capacity file
  Summarised,     \* the pools with a total in the legacy Factory_Data.json
  Conflicting,    \* those whose legacy detail file has another total
  InitialLegacy,  \* the legacy files there are
  MaxSaves,       \* bound on saves
  MaxRequests,    \* bound on requests
  Absent, Torn,   \* no file, a file in the middle of being written
  Unread, None

Shared == {"materials", "weights", "predictions"} \cup Pools
Sources == Shared \cup Products

(* Where these sources were before the configuration was activated; no     *)
(* calculation reads them.                                                 *)
LegacyFiles == {"weights", "predictions"} \cup Pools

(* A source is reduced to what one cell of it says, in the predictions one *)
(* cell per row, and to the marks of a generated document.                 *)
Cells == Values \cup {Blank}
Cell(s) ==
  IF s = "predictions" THEN UNION {[names -> Cells] : names \in SUBSET Products}
                       ELSE Cells
Document(s) == [value: Cell(s), marks: SUBSET {"status", "migration"}]
Contents(s) == Document(s) \cup {Absent, Torn}

(* When the model starts nothing is being written, and the activation has  *)
(* taken over the shares and the predictions or marked them by status only.*)
RequestAssumption ==
  /\ \A f \in InitialFiles :
       /\ f = [s \in Sources |-> f[s]]
       /\ \A s \in Sources : f[s] \in Document(s) \cup {Absent}
       /\ \A s \in {"weights", "predictions"} :
            f[s] # Absent => "migration" \notin f[s].marks
  /\ \A s \in Sources : {Absent, Torn, Unread} \cap Document(s) = {}
  /\ Absent # Torn /\ Unread \notin {Absent, Torn}
  /\ None \notin Products \cup [source: Sources, value: Values]
  /\ (Products \cup Pools) \cap {"materials", "weights", "predictions"} = {}
  /\ Products \cap Pools = {} /\ Blank \notin Values /\ IsFiniteSet(Products)
  /\ Order \in [Sources -> Nat]
  /\ Values \subseteq Nat /\ Entered \subseteq Values
  /\ Known \subseteq Products /\ NameOf \in [Products -> Products]
  /\ Conflicting \subseteq Summarised \cap InitialLegacy
  /\ Summarised \subseteq Pools /\ InitialLegacy \subseteq LegacyFiles
  /\ MaxSaves \in Nat /\ MaxRequests \in Nat
ASSUME RequestAssumption

VARIABLES
  file,       \* what each source holds
  legacy,     \* the legacy files that exist
  saving,     \* the source that is being saved in place, with its value
  kind,       \* of each request: "cost" of one or several, "analysis"
  pc,         \* where it is
  todo,       \* the products it has still to calculate
  product,    \* the product it is at
  population, \* the products an analysis has captured
  toRead,     \* the sources it still has to read
  toInstall,  \* what its migration still has to install
  cache,      \* what its loader has read
  used,       \* per product: a refusal, or what the cost was calculated from
  saves, started,
  since       \* history: what each source has held since the request began

files == <<file, legacy, saving, saves>>
loader == <<population, toRead, toInstall, cache>>
vars == <<files, kind, pc, todo, product, loader, used, started, since>>

NothingRead == [s \in Sources |-> Unread]

(* The catalogue is whatever bills of materials there are.                 *)
Catalog == {p \in Products : file[p] # Absent}

-----------------------------------------------------------------------------
(* The documents of the formula.  A generated bill of materials or pool    *)
(* has no rows.                                                            *)

Generated(content) == "migration" \in content.marks
Documents(sources, p) ==
  [materials |-> <<[material |-> "m", currency |-> Rial,
                    price |-> sources["materials"].value]>>,
   bom |-> IF Generated(sources[p]) THEN <<>>
           ELSE <<[id |-> 1, material |-> "m", usage |-> sources[p].value,
                   loss |-> 0, recyclability |-> 0]>>,
   weights |-> <<[category |-> Category, share |-> sources["weights"].value]>>,
   predictions |-> [q \in DOMAIN sources["predictions"].value |->
                      [product |-> NameOf[q],
                       quantity |-> sources["predictions"].value[q]]],
   pools |-> [pool \in Pools |-> IF Generated(sources[pool]) THEN <<>>
                                 ELSE <<sources[pool].value>>]]

ReadBy(p) == Shared \cup {p}
IsFirst(s, S) == s \in S /\ \A t \in S : Order[s] <= Order[t]

(* What a request answers for a product.                                   *)
Basis(sources, products) == [sources |-> sources, population |-> products]
Refusal(code) == [code |-> code]
Calculated(r) == {p \in DOMAIN used[r] : "sources" \in DOMAIN used[r][p]}
Answer(r, p) ==
  IF p \in Calculated(r)
    THEN CostFrom(Documents(used[r][p].sources, p), p, Category,
                  used[r][p].population)
    ELSE used[r][p]
Costed(r) == {p \in Calculated(r) : Answer(r, p).code = "OK"}

-----------------------------------------------------------------------------
Init ==
  /\ file \in InitialFiles /\ legacy = InitialLegacy
  /\ saving = None
  /\ kind = [r \in Requests |-> None] /\ pc = [r \in Requests |-> "idle"]
  /\ todo = [r \in Requests |-> {}] /\ product = [r \in Requests |-> None]
  /\ population = [r \in Requests |-> {}]
  /\ toRead = [r \in Requests |-> {}]
  /\ toInstall = [r \in Requests |-> {}]
  /\ cache = [r \in Requests |-> NothingRead]
  /\ used = [r \in Requests |-> <<>>]
  /\ since = [r \in Requests |-> [s \in Sources |-> {}]]
  /\ saves = 0 /\ started = 0

Goto(r, phase) == pc' = [pc EXCEPT ![r] = phase]

(* Mutant: one loader serves all requests.                                 *)
NewLoader_Kept(r) == UNCHANGED cache
NewLoader(r) == cache' = [cache EXCEPT ![r] = NothingRead]

Start(r, k, products) ==
  /\ pc[r] = "idle" /\ started < MaxRequests /\ started' = started + 1
  /\ kind' = [kind EXCEPT ![r] = k]
  /\ todo' = [todo EXCEPT ![r] = products]
  /\ since' = [since EXCEPT ![r] = [s \in Sources |-> {file[s]}]]
  /\ NewLoader(r)
  /\ UNCHANGED <<files, product, population, toRead, toInstall, used>>

(* The product is answered; the next one, if any, is taken up.             *)
Settle(r, p, outcome) ==
  /\ used' = [used EXCEPT ![r] = [q \in DOMAIN @ \cup {p} |->
                                    IF q = p THEN outcome ELSE @[q]]]
  /\ todo' = [todo EXCEPT ![r] = @ \ {p}]
  /\ product' = [product EXCEPT ![r] = None]
  /\ Goto(r, "next")

-----------------------------------------------------------------------------
(* Cost calculation: one product after the other, in the order given.      *)

AskCosts(r, products) ==
  products # {} /\ Start(r, "cost", products) /\ Goto(r, "next")

Take(r, p) ==
  /\ pc[r] = "next" /\ kind[r] = "cost" /\ p \in todo[r]
  /\ product' = [product EXCEPT ![r] = p] /\ Goto(r, "diagnose")
  /\ UNCHANGED <<files, kind, todo, loader, used, started, since>>

MissingOf(p) == {s \in ReadBy(p) : file[s] = Absent}

(* Mutant: a document that still needs its values is as good as any.       *)
IncompleteOf_None(p) == {}
IncompleteOf(p) ==
  {s \in ReadBy(p) : file[s] \notin {Absent, Torn} /\ Generated(file[s])}

Diagnose(r) ==
  LET p == product[r] IN
  /\ pc[r] \in {"diagnose", "again"}
  /\ \/ /\ MissingOf(p) = {} /\ IncompleteOf(p) = {} /\ Goto(r, "reading")
        /\ toRead' = [toRead EXCEPT ![r] = ReadBy(p)]
        /\ UNCHANGED <<todo, product, toInstall, used>>
     \/ /\ MissingOf(p) # {} /\ pc[r] = "diagnose" /\ Goto(r, "migrating")
        /\ toInstall' = [toInstall EXCEPT ![r] =
             ({p} \cap Known \cap MissingOf(p)) \cup {<<s>> : s \in
                (LegacyFiles \ legacy) \cap (Summarised \cup {"weights", "predictions"})}]
        /\ UNCHANGED <<todo, product, toRead, used>>
     \/ /\ MissingOf(p) # {} /\ pc[r] = "again"
        /\ Settle(r, p, Refusal("SOURCE_UNAVAILABLE"))
        /\ UNCHANGED <<toRead, toInstall>>
     \/ /\ MissingOf(p) = {} /\ IncompleteOf(p) # {}
        /\ Settle(r, p, Refusal("LEGACY_SOURCE_NEEDS_INPUT"))
        /\ UNCHANGED <<toRead, toInstall>>
  /\ UNCHANGED <<files, kind, population, cache, started, since>>

(* A link to a complete document, which fails when the name is taken.      *)
(* Mutant: the document is renamed into place.                             *)
Link_Renames(p) == TRUE
Link(p) == file[p] = Absent
(* Mutant: a value is made up for what nobody has entered.                 *)
Placeholder_Zero == [value |-> 0, marks |-> {"migration"}]
Placeholder == [value |-> Blank, marks |-> {"migration"}]

(* Legacy files, given as <<s>>, are installed the same way.               *)
Seen(after) ==
  since' = [r \in Requests |-> IF pc[r] = "idle" THEN since[r]
                               ELSE [s \in Sources |-> since[r][s] \cup {after[s]}]]
Install(r) ==
  /\ pc[r] = "migrating"
  /\ \E item \in toInstall[r] :
       /\ toInstall' = [toInstall EXCEPT ![r] = @ \ {item}]
       /\ \/ /\ item \in Products
             /\ file' = IF Link(item) THEN [file EXCEPT ![item] = Placeholder]
                                      ELSE file
             /\ UNCHANGED legacy
          \/ /\ item \notin Products
             /\ legacy' = legacy \cup {item[1]} /\ UNCHANGED file
  /\ Seen(file')
  /\ UNCHANGED <<saving, saves, kind, pc, todo, product, population, toRead, cache,
                 used, started>>

EndMigration(r) ==
  /\ pc[r] = "migrating" /\ toInstall[r] = {}
  /\ IF Conflicting = {} THEN Goto(r, "again") /\ UNCHANGED <<todo, product, used>>
     ELSE Settle(r, product[r], Refusal("LEGACY_SOURCE_CONFLICT"))
  /\ UNCHANGED <<files, kind, loader, started, since>>

(* Mutant: every product's sources are read again.                         *)
Content_Fresh(r, s) == file[s]
Content(r, s) == IF cache[r][s] # Unread THEN cache[r][s] ELSE file[s]
Failure(content) ==
  IF content = Absent THEN "SOURCE_UNAVAILABLE" ELSE "SOURCE_PARSE_ERROR"

(* A cost calculation keeps what it could read; an analysis keeps failures *)
(* too.                                                                    *)
Read(r, s) ==
  LET content == Content(r, s)
  IN  /\ pc[r] = "reading" /\ IsFirst(s, toRead[r])
      /\ IF content \in {Absent, Torn} /\ kind[r] = "cost"
           THEN /\ Settle(r, product[r], Refusal(Failure(content)))
                /\ toRead' = [toRead EXCEPT ![r] = {}] /\ UNCHANGED cache
           ELSE /\ cache' = [cache EXCEPT ![r][s] = content]
                /\ toRead' = [toRead EXCEPT ![r] = @ \ {s}]
                /\ UNCHANGED <<pc, todo, product, used>>
      /\ UNCHANGED <<files, kind, population, toInstall, started, since>>

ReadSoFar(r, p) == [s \in ReadBy(p) |-> cache[r][s]]

(* The population of the category is the catalogue of this very moment.    *)
Calculate(r) ==
  /\ pc[r] = "reading" /\ kind[r] = "cost" /\ toRead[r] = {}
  /\ Settle(r, product[r], Basis(ReadSoFar(r, product[r]), Catalog))
  /\ UNCHANGED <<files, kind, loader, started, since>>

-----------------------------------------------------------------------------
(* Analyses: the population first, then everything once.                   *)

AskAnalysis(r) ==
  /\ pc[r] = "idle" /\ started < MaxRequests /\ started' = started + 1
  /\ kind' = [kind EXCEPT ![r] = "analysis"] /\ Goto(r, "reading")
  /\ population' = [population EXCEPT ![r] = Catalog]
  /\ todo' = [todo EXCEPT ![r] = Catalog]
  /\ toRead' = [toRead EXCEPT ![r] = Shared \cup Catalog]
  /\ since' = [since EXCEPT ![r] = [s \in Sources |-> {file[s]}]]
  /\ NewLoader(r)
  /\ UNCHANGED <<files, product, toInstall, used>>

Captured(r) ==
  /\ pc[r] = "reading" /\ kind[r] = "analysis" /\ toRead[r] = {}
  /\ Goto(r, "next")
  /\ UNCHANGED <<files, kind, todo, product, loader, used, started, since>>

Unusable(r, p) == {s \in ReadBy(p) : cache[r][s] \in {Absent, Torn}}
Marked(r, p) == {s \in ReadBy(p) \ Unusable(r, p) : cache[r][s].marks # {}}
Objection(r, p) ==
  LET bad == Unusable(r, p) \cup Marked(r, p)
      s == CHOOSE t \in bad : IsFirst(t, bad)
  IN  IF s \in Unusable(r, p) THEN Failure(cache[r][s])
                              ELSE "LEGACY_SOURCE_NEEDS_INPUT"

(* Mutant: the population is looked up again.                              *)
Spread_Live(r) == Catalog
Spread(r) == population[r]

Analyse(r, p) ==
  /\ pc[r] = "next" /\ kind[r] = "analysis" /\ p \in todo[r]
  /\ Settle(r, p, IF Unusable(r, p) \cup Marked(r, p) = {}
                    THEN Basis(ReadSoFar(r, p), Spread(r))
                    ELSE Refusal(Objection(r, p)))
  /\ UNCHANGED <<files, kind, loader, started, since>>

(* Everything is answered; the response is on its way.                     *)
Reply(r) ==
  /\ pc[r] = "next" /\ todo[r] = {} /\ Goto(r, "answered")
  /\ UNCHANGED <<files, kind, todo, product, loader, used, started, since>>

Finish(r) ==
  /\ pc[r] = "answered" /\ Goto(r, "idle")
  /\ kind' = [kind EXCEPT ![r] = None] /\ used' = [used EXCEPT ![r] = <<>>]
  /\ population' = [population EXCEPT ![r] = {}]
  /\ since' = [since EXCEPT ![r] = [s \in Sources |-> {}]]
  /\ UNCHANGED <<files, todo, product, toRead, toInstall, cache, started>>

-----------------------------------------------------------------------------
(* Editors.  The factory's page puts the whole of the shares or            *)
(* predictions, marks included, with a row for every product there is; a   *)
(* pool and a bill of materials are written without marks.                 *)

Put(s, content) ==
  /\ saves < MaxSaves /\ saves' = saves + 1
  /\ file' = [file EXCEPT ![s] = content] /\ Seen(file')
  /\ UNCHANGED <<legacy, saving, kind, pc, todo, product, loader, used, started>>

SaveShare(v) ==
  file["weights"] # Absent /\ Put("weights", [file["weights"] EXCEPT !.value = v])

(* One cell is filled or changed; rows that were missing stay blank.       *)
SavePrediction(q, v) ==
  LET rows == file["predictions"].value
      names == DOMAIN rows \cup Catalog
  IN  /\ file["predictions"] # Absent /\ q \in names
      /\ Put("predictions", [file["predictions"] EXCEPT !.value =
           [n \in names |-> IF n = q THEN v
                            ELSE IF n \in DOMAIN rows THEN rows[n] ELSE Blank]])

SavePool(pool, v) ==
  file[pool] # Absent /\ Put(pool, [value |-> v, marks |-> {}])

(* Prices and bills of materials are written in place, one save at a time  *)
(* here: the file is truncated, then filled.  A bill of materials has to   *)
(* be calculable with the prices of the moment.                            *)
StartSave(s, v) ==
  /\ saving = None /\ file[s] \notin {Absent, Torn}
  /\ s = "materials" \/ (s \in Products /\ file["materials"] \notin {Absent, Torn}
       /\ BomProblem(Documents(file, s).materials,
            <<[id |-> 1, material |-> "m", usage |-> v, loss |-> 0,
               recyclability |-> 0]>>) = "OK")
  /\ saves < MaxSaves /\ saves' = saves + 1
  /\ saving' = [source |-> s, value |-> v]
  /\ file' = [file EXCEPT ![s] = Torn] /\ Seen(file')
  /\ UNCHANGED <<legacy, kind, pc, todo, product, loader, used, started>>

FinishSave ==
  /\ saving # None /\ saving' = None
  /\ file' = [file EXCEPT ![saving.source] = [value |-> saving.value, marks |-> {}]]
  /\ Seen(file')
  /\ UNCHANGED <<legacy, saves, kind, pc, todo, product, loader, used, started>>

-----------------------------------------------------------------------------
Proceed(r) ==
  \/ \E p \in Products : Take(r, p) \/ Analyse(r, p)
  \/ \E s \in Sources : Read(r, s)
  \/ Diagnose(r) \/ Install(r) \/ EndMigration(r) \/ Calculate(r) \/ Captured(r)
  \/ Reply(r)

Edit ==
  \/ \E v \in Entered :
       \/ SaveShare(v) \/ \E q \in Products : SavePrediction(q, v)
       \/ \E pool \in Pools : SavePool(pool, v)
       \/ \E s \in {"materials"} \cup Products : StartSave(s, v)
  \/ FinishSave

Next ==
  \/ \E r \in Requests :
       \/ \E products \in SUBSET Products : AskCosts(r, products)
       \/ AskAnalysis(r) \/ Proceed(r) \/ Finish(r)
  \/ Edit

Spec == Init /\ [][Next]_vars

-----------------------------------------------------------------------------
TypeOK ==
  /\ \A s \in Sources : file[s] \in Contents(s)
  /\ legacy \subseteq LegacyFiles
  /\ saving \in [source: Sources, value: Values] \cup {None}
  /\ kind \in [Requests -> {"cost", "analysis", None}]
  /\ pc \in [Requests -> {"idle", "next", "diagnose", "migrating", "again",
                          "reading", "answered"}]
  /\ todo \in [Requests -> SUBSET Products]
  /\ product \in [Requests -> Products \cup {None}]
  /\ population \in [Requests -> SUBSET Products]
  /\ \A r \in Requests :
       /\ toRead[r] \subseteq Sources
       /\ toInstall[r] \subseteq Products \cup {<<s>> : s \in LegacyFiles}
       /\ \A s \in Sources : cache[r][s] \in Contents(s) \cup {Unread}
       /\ DOMAIN used[r] \subseteq Products
       /\ \A s \in Sources : since[r][s] \subseteq Contents(s)
  /\ saves \in 0 .. MaxSaves /\ started \in 0 .. MaxRequests

(* A cost rests on nothing older than its request: whatever it was         *)
(* calculated from was in its file at some moment since the request began  *)
(* (one loader per request; nothing is kept between requests).             *)
CostsAreCurrent ==
  \A r \in Requests : \A p \in Calculated(r) :
    \A s \in ReadBy(p) : used[r][p].sources[s] \in since[r][s]

(* All costs of one answer rest on the same prices, shares, predictions    *)
(* and pools, whatever is saved while they are calculated one by one.      *)
OneAnswerOneSource ==
  \A r \in Requests : \A p, q \in Calculated(r) :
    \A s \in Shared : used[r][p].sources[s] = used[r][q].sources[s]

(* What an analysis spreads over the products of a category, each with its *)
(* own calculation, is the whole adjusted pool: no more and no less, even  *)
(* when products come and go meanwhile.                                    *)
AllocationIsComplete ==
  \A r \in Requests :
    pc[r] = "answered" /\ kind[r] = "analysis" /\ population[r] # {}
      /\ Costed(r) = population[r] =>
      LET in == [p \in population[r] |->
                   Inputs(Documents(used[r][p].sources, p), p, Category,
                          used[r][p].population)]
      IN  \A pool \in Pools : \A p \in population[r] :
            Total([q \in population[r] |-> Contribution(in[q], pool)])
              = AdjustedPool(in[p], pool)

(* No cost is calculated from a generated document, whose missing rows     *)
(* would count as zero: not even when it is installed or filled in while   *)
(* the request is under way.                                               *)
PlaceholderNeverUsed ==
  \A r \in Requests : \A p \in Calculated(r) :
    \A s \in ReadBy(p) : ~Generated(used[r][p].sources[s])

(* A source that exists is never replaced by a generated one, although     *)
(* several requests find it missing and an editor may save it meanwhile.   *)
MigrationNeverReplaces ==
  [][\A s \in Sources :
       file[s] # Absent /\ file'[s] # file[s] /\ file'[s] \notin {Absent, Torn}
         => ~Generated(file'[s])]_vars

(* "installed source requires business input" (CostInputLoader.load): an   *)
(* analysis that says so has met a document with something left to enter.  *)
Incomplete(s, content) ==
  \/ Generated(content) \/ content.value = Blank
  \/ s = "predictions" /\ \E q \in DOMAIN content.value : content.value[q] = Blank
FilledIsUsable ==
  \A r \in Requests : \A p \in DOMAIN used[r] :
    kind[r] = "analysis" /\ Answer(r, p).code = "LEGACY_SOURCE_NEEDS_INPUT" =>
      \E s \in ReadBy(p) : /\ cache[r][s] \notin {Absent, Torn}
                           /\ Incomplete(s, cache[r][s])
=============================================================================
