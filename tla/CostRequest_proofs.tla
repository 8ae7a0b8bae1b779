------------------------- MODULE CostRequest_proofs -------------------------
(***************************************************************************)
(* Proofs about CostRequest, for any number of requests, products, pools   *)
(* and saves: one loader per request, read once, and the look at the       *)
(* sources before they are read make its answers consistent, current and   *)
(* free of generated documents.  At the end, what the answers come to: the *)
(* products of a category take the whole of every pool.                    *)
(***************************************************************************)
EXTENDS CostRequest, CostFormula_proofs

AnyContent == UNION {Contents(s) : s \in Sources}
Items == Products \cup {<<s>> : s \in LegacyFiles}

(* TypeOK, with the domains of the functions.                              *)
Shapes ==
  /\ file = [s \in Sources |-> file[s]]
  /\ toRead \in [Requests -> SUBSET Sources]
  /\ toInstall \in [Requests -> SUBSET Items]
  /\ cache = [r \in Requests |-> [s \in Sources |-> cache[r][s]]]
  /\ used = [r \in Requests |-> used[r]]
  /\ since = [r \in Requests |-> [s \in Sources |-> since[r][s]]]

(* A source that an activated factory may answer a cost from.              *)
Clean(content) == content # Absent /\ (content = Torn \/ ~Generated(content))

FilesOK ==
  /\ \A s \in {"weights", "predictions"} :
       file[s] # Torn /\ (file[s] # Absent => ~Generated(file[s]))
  /\ saving # None => saving.source \in {"materials"} \cup Products

(* Where a request is.                                                     *)
PlaceOK(r) ==
  /\ pc[r] = "idle" => used[r] = <<>>
  /\ pc[r] # "idle" => kind[r] \in {"cost", "analysis"}
  /\ pc[r] \in {"diagnose", "migrating", "again"} => kind[r] = "cost"
  /\ pc[r] \in {"diagnose", "migrating", "again", "reading"} /\ kind[r] = "cost" =>
       product[r] \in Products

(* What it has read, and what it will.                                     *)
ReadingOK(r) ==
  /\ pc[r] = "reading" /\ kind[r] = "cost" =>
       /\ toRead[r] \subseteq ReadBy(product[r])
       /\ \A s \in ReadBy(product[r]) :
            Clean(file[s]) /\ (s \in toRead[r] \/ cache[r][s] # Unread)
  /\ pc[r] \in {"reading", "next"} /\ kind[r] = "analysis" =>
       /\ todo[r] \subseteq population[r]
       /\ \A s \in Shared \cup population[r] :
            (pc[r] = "reading" /\ s \in toRead[r]) \/ cache[r][s] # Unread

LoaderOK(r) ==
  pc[r] # "idle" =>
    \A s \in Sources :
      /\ file[s] \in since[r][s]
      /\ cache[r][s] # Unread =>
           /\ cache[r][s] \in since[r][s]
           /\ kind[r] = "cost" => cache[r][s] # Torn /\ Clean(cache[r][s])

AnswersOK(r) ==
  \A p \in Calculated(r) : \A s \in ReadBy(p) :
    /\ cache[r][s] # Unread /\ used[r][p].sources[s] = cache[r][s]
    /\ ~Generated(cache[r][s])

RequestOK(r) == PlaceOK(r) /\ ReadingOK(r) /\ LoaderOK(r) /\ AnswersOK(r)
RequestInv ==
  TypeOK /\ Shapes /\ FilesOK /\ \A r \in Requests : RequestOK(r)

-----------------------------------------------------------------------------
(* Facts about contents.                                                   *)

LEMMA ContentFacts ==
  ASSUME NEW s \in Sources
  PROVE  /\ Document(s) \subseteq Contents(s) /\ {Absent, Torn} \subseteq Contents(s)
         /\ Unread \notin Contents(s)
         /\ \A c \in Contents(s) : c \notin {Absent, Torn} <=> c \in Document(s)
         /\ Absent # Torn
  BY RequestAssumption DEF RequestAssumption, Contents

LEMMA MadeDocument ==
  ASSUME NEW s \in Sources, NEW v \in Cell(s),
         NEW marks \in SUBSET {"status", "migration"}
  PROVE  [value |-> v, marks |-> marks] \in Document(s)
  BY DEF Document

LEMMA SourceFacts ==
  /\ {"materials", "weights", "predictions"} \subseteq Sources
  /\ Pools \subseteq Sources /\ Products \subseteq Sources
  /\ \A s \in Sources \ {"predictions"} : Cell(s) = Cells
  /\ \A p \in Products \cup Pools : p \notin {"materials", "weights", "predictions"}
  /\ Entered \subseteq Values /\ Values \subseteq Cells /\ Blank \in Cells
  BY RequestAssumption DEF RequestAssumption, Sources, Shared, Cell, Cells

-----------------------------------------------------------------------------
(* Steps of one request.                                                   *)

LEMMA OwnStep ==
  ASSUME RequestInv, NEW r \in Requests, UNCHANGED <<file, saving>>,
         TypeOK', Shapes', RequestOK(r)',
         \A v \in Requests \ {r} :
           /\ pc'[v] = pc[v] /\ kind'[v] = kind[v] /\ todo'[v] = todo[v]
           /\ product'[v] = product[v] /\ population'[v] = population[v]
           /\ toRead'[v] = toRead[v] /\ cache'[v] = cache[v] /\ used'[v] = used[v]
           /\ since'[v] = since[v]
  PROVE  RequestInv'
  <1>1. FilesOK'
    BY DEF RequestInv, FilesOK
  <1>2. ASSUME NEW v \in Requests \ {r} PROVE RequestOK(v)'
    <2>1. PlaceOK(v)' /\ ReadingOK(v)' /\ LoaderOK(v)'
      BY DEF RequestInv, RequestOK, PlaceOK, ReadingOK, LoaderOK
    <2>2. AnswersOK(v)'
      BY DEF RequestInv, RequestOK, AnswersOK, Calculated
    <2>. QED
      BY <2>1, <2>2 DEF RequestOK
  <1>. QED
    BY <1>1, <1>2 DEF RequestInv

(* What was answered stays answered from what was read.                    *)
LEMMA AnswersStay ==
  ASSUME NEW r \in Requests, AnswersOK(r),
         \A s \in Sources : cache[r][s] # Unread => cache'[r][s] = cache[r][s],
         Calculated(r)' \subseteq Calculated(r),
         \A p \in Calculated(r)' : used'[r][p] = used[r][p],
         Calculated(r) \subseteq Products
  PROVE  AnswersOK(r)'
  <1>1. \A p \in Products : ReadBy(p) \subseteq Sources
    BY DEF ReadBy, Sources
  <1>. QED
    BY <1>1 DEF AnswersOK

LEMMA CalculatedProducts ==
  ASSUME RequestInv, NEW r \in Requests
  PROVE  Calculated(r) \subseteq Products
  BY DEF RequestInv, TypeOK, Calculated

LEMMA SettleFacts ==
  ASSUME RequestInv, NEW r \in Requests, NEW p \in Products, NEW outcome,
         Settle(r, p, outcome)
  PROVE  /\ pc' = [pc EXCEPT ![r] = "next"] /\ pc'[r] = "next"
         /\ todo' \in [Requests -> SUBSET Products] /\ todo'[r] \subseteq todo[r]
         /\ product' \in [Requests -> Products \cup {None}]
         /\ used' = [v \in Requests |-> used'[v]]
         /\ used'[r] = [q \in DOMAIN used[r] \cup {p} |->
                          IF q = p THEN outcome ELSE used[r][q]]
         /\ \A v \in Requests : DOMAIN used'[v] \subseteq Products
         /\ \A v \in Requests \ {r} :
              /\ pc'[v] = pc[v] /\ todo'[v] = todo[v] /\ product'[v] = product[v]
              /\ used'[v] = used[v]
  BY DEF RequestInv, TypeOK, Shapes, Settle, Goto

LEMMA RefusedAnswers ==
  ASSUME RequestInv, NEW r \in Requests, NEW p \in Products, NEW code,
         Settle(r, p, Refusal(code)),
         \A s \in Sources : cache[r][s] # Unread => cache'[r][s] = cache[r][s]
  PROVE  AnswersOK(r)'
  <1>1. used'[r] = [q \in DOMAIN used[r] \cup {p} |->
                      IF q = p THEN Refusal(code) ELSE used[r][q]]
    BY SettleFacts
  <1>2. "sources" \notin DOMAIN Refusal(code)
    BY DEF Refusal
  <1>3. /\ Calculated(r)' \subseteq Calculated(r)
        /\ \A q \in Calculated(r)' : used'[r][q] = used[r][q]
    BY <1>1, <1>2 DEF Calculated
  <1>. QED
    BY <1>3, AnswersStay, CalculatedProducts DEF RequestInv, RequestOK

LEMMA GivenAnswers ==
  ASSUME RequestInv, NEW r \in Requests, NEW p \in Products, NEW products,
         Settle(r, p, Basis(ReadSoFar(r, p), products)), cache' = cache,
         \A s \in ReadBy(p) : cache[r][s] # Unread /\ ~Generated(cache[r][s])
  PROVE  AnswersOK(r)'
  <1> DEFINE basis == Basis(ReadSoFar(r, p), products)
  <1>1. used'[r] = [q \in DOMAIN used[r] \cup {p} |->
                      IF q = p THEN basis ELSE used[r][q]]
    BY SettleFacts
  <1>2. \A s \in ReadBy(p) : basis.sources[s] = cache[r][s]
    BY DEF Basis, ReadSoFar
  <1>3. \A q \in Calculated(r)' \ {p} : q \in Calculated(r) /\ used'[r][q] = used[r][q]
    BY <1>1 DEF Calculated
  <1>4. p \in Calculated(r)' => used'[r][p] = basis
    BY <1>1
  <1>5. ASSUME NEW q \in Calculated(r)', NEW s \in ReadBy(q)
        PROVE  /\ cache[r][s] # Unread /\ used'[r][q].sources[s] = cache[r][s]
               /\ ~Generated(cache[r][s])
    <2>1. CASE q = p
      BY <1>2, <1>4, <2>1
    <2>2. CASE q # p
      BY <1>3, <2>2 DEF RequestInv, RequestOK, AnswersOK
    <2>. QED
      BY <2>1, <2>2
  <1>. QED
    BY <1>5 DEF AnswersOK

-----------------------------------------------------------------------------
LEMMA InitRequests == Init => RequestInv
  <1> SUFFICES ASSUME Init PROVE RequestInv
    OBVIOUS
  <1>1. /\ \A s \in Sources : file[s] \in Document(s) \cup {Absent}
        /\ \A s \in {"weights", "predictions"} :
             file[s] # Absent => "migration" \notin file[s].marks
    BY RequestAssumption DEF Init, RequestAssumption
  <1>2. TypeOK
    BY <1>1, RequestAssumption
    DEF Init, TypeOK, RequestAssumption, Contents, NothingRead
  <1>3. file = [s \in Sources |-> file[s]]
    BY RequestAssumption DEF Init, RequestAssumption
  <1>4. Shapes
    BY <1>1, <1>3 DEF Init, Shapes, NothingRead
  <1>5. FilesOK
    BY <1>1, SourceFacts, ContentFacts DEF Init, FilesOK, Generated
  <1>6. \A r \in Requests : RequestOK(r)
    BY DEF Init, RequestOK, PlaceOK, ReadingOK, LoaderOK, AnswersOK, Calculated
  <1>. QED
    BY <1>2, <1>4, <1>5, <1>6 DEF RequestInv

LEMMA StartFacts ==
  ASSUME RequestInv, NEW r \in Requests, NEW k \in {"cost", "analysis"},
         started < MaxRequests, started' = started + 1,
         kind' = [kind EXCEPT ![r] = k],
         since' = [since EXCEPT ![r] = [s \in Sources |-> {file[s]}]],
         NewLoader(r), UNCHANGED file
  PROVE  /\ started' \in 0 .. MaxRequests /\ kind' \in [Requests -> {"cost", "analysis", None}]
         /\ cache' = [v \in Requests |-> [s \in Sources |-> cache'[v][s]]]
         /\ since' = [v \in Requests |-> [s \in Sources |-> since'[v][s]]]
         /\ \A v \in Requests : \A s \in Sources :
              /\ cache'[v][s] \in Contents(s) \cup {Unread}
              /\ since'[v][s] \subseteq Contents(s)
         /\ kind'[r] = k
         /\ \A s \in Sources : cache'[r][s] = Unread /\ since'[r][s] = {file[s]}
         /\ \A v \in Requests \ {r} :
              kind'[v] = kind[v] /\ cache'[v] = cache[v] /\ since'[v] = since[v]
  <1>1. started' \in 0 .. MaxRequests
    BY RequestAssumption DEF RequestAssumption, RequestInv, TypeOK
  <1>2. /\ kind' \in [Requests -> {"cost", "analysis", None}] /\ kind'[r] = k
        /\ \A v \in Requests \ {r} : kind'[v] = kind[v]
    BY DEF RequestInv, TypeOK
  <1>3. cache' = [cache EXCEPT ![r] = [s \in Sources |-> Unread]]
    BY DEF NewLoader, NothingRead
  <1>4. /\ cache' = [v \in Requests |-> [s \in Sources |-> cache'[v][s]]]
        /\ \A s \in Sources : cache'[r][s] = Unread
        /\ \A v \in Requests \ {r} : cache'[v] = cache[v]
    BY <1>3 DEF RequestInv, Shapes
  <1>5. /\ since' = [v \in Requests |-> [s \in Sources |-> since'[v][s]]]
        /\ \A s \in Sources : since'[r][s] = {file[s]}
        /\ \A v \in Requests \ {r} : since'[v] = since[v]
    BY DEF RequestInv, Shapes
  <1>6. ASSUME NEW v \in Requests, NEW s \in Sources
        PROVE  /\ cache'[v][s] \in Contents(s) \cup {Unread}
               /\ since'[v][s] \subseteq Contents(s)
    <2>1. file[s] \in Contents(s)
      BY DEF RequestInv, TypeOK
    <2>2. cache[v][s] \in Contents(s) \cup {Unread} /\ since[v][s] \subseteq Contents(s)
      BY DEF RequestInv, TypeOK
    <2>. QED
      BY <1>4, <1>5, <2>1, <2>2
  <1>. QED
    BY <1>1, <1>2, <1>4, <1>5, <1>6

LEMMA AskCostsInv ==
  ASSUME RequestInv, NEW r \in Requests, NEW products \in SUBSET Products,
         AskCosts(r, products)
  PROVE  RequestInv'
  <1>1. /\ pc[r] = "idle" /\ pc' = [pc EXCEPT ![r] = "next"]
        /\ todo' = [todo EXCEPT ![r] = products]
        /\ started < MaxRequests /\ started' = started + 1
        /\ kind' = [kind EXCEPT ![r] = "cost"]
        /\ since' = [since EXCEPT ![r] = [s \in Sources |-> {file[s]}]]
        /\ NewLoader(r)
        /\ UNCHANGED <<files, product, population, toRead, toInstall, used>>
    BY DEF AskCosts, Start, Goto
  <1>2. UNCHANGED <<file, legacy, saving, saves>>
    BY <1>1 DEF files
  <1>3. /\ started' \in 0 .. MaxRequests
        /\ kind' \in [Requests -> {"cost", "analysis", None}]
        /\ cache' = [v \in Requests |-> [s \in Sources |-> cache'[v][s]]]
        /\ since' = [v \in Requests |-> [s \in Sources |-> since'[v][s]]]
        /\ \A v \in Requests : \A s \in Sources :
             /\ cache'[v][s] \in Contents(s) \cup {Unread}
             /\ since'[v][s] \subseteq Contents(s)
        /\ kind'[r] = "cost"
        /\ \A s \in Sources : cache'[r][s] = Unread /\ since'[r][s] = {file[s]}
        /\ \A v \in Requests \ {r} :
             kind'[v] = kind[v] /\ cache'[v] = cache[v] /\ since'[v] = since[v]
    BY <1>1, <1>2, StartFacts
  <1>4. TypeOK' /\ Shapes'
    BY <1>1, <1>2, <1>3 DEF RequestInv, TypeOK, Shapes
  <1>5. pc'[r] = "next" /\ used'[r] = <<>>
    BY <1>1 DEF RequestInv, TypeOK, RequestOK, PlaceOK
  <1>6. RequestOK(r)'
    BY <1>2, <1>3, <1>5
    DEF RequestOK, PlaceOK, ReadingOK, LoaderOK, AnswersOK, Calculated
  <1>7. \A v \in Requests \ {r} : pc'[v] = pc[v] /\ todo'[v] = todo[v]
    BY <1>1 DEF RequestInv, TypeOK
  <1>. QED
    BY <1>1, <1>2, <1>3, <1>4, <1>6, <1>7, OwnStep

LEMMA CatalogIsProducts == Catalog \subseteq Products
  BY DEF Catalog

LEMMA AskAnalysisInv ==
  ASSUME RequestInv, NEW r \in Requests, AskAnalysis(r)
  PROVE  RequestInv'
  <1>1. /\ pc[r] = "idle" /\ pc' = [pc EXCEPT ![r] = "reading"]
        /\ population' = [population EXCEPT ![r] = Catalog]
        /\ todo' = [todo EXCEPT ![r] = Catalog]
        /\ toRead' = [toRead EXCEPT ![r] = Shared \cup Catalog]
        /\ started < MaxRequests /\ started' = started + 1
        /\ kind' = [kind EXCEPT ![r] = "analysis"]
        /\ since' = [since EXCEPT ![r] = [s \in Sources |-> {file[s]}]]
        /\ NewLoader(r)
        /\ UNCHANGED <<files, product, toInstall, used>>
    BY DEF AskAnalysis, Goto
  <1>2. UNCHANGED <<file, legacy, saving, saves>>
    BY <1>1 DEF files
  <1>3. /\ started' \in 0 .. MaxRequests
        /\ kind' \in [Requests -> {"cost", "analysis", None}]
        /\ cache' = [v \in Requests |-> [s \in Sources |-> cache'[v][s]]]
        /\ since' = [v \in Requests |-> [s \in Sources |-> since'[v][s]]]
        /\ \A v \in Requests : \A s \in Sources :
             /\ cache'[v][s] \in Contents(s) \cup {Unread}
             /\ since'[v][s] \subseteq Contents(s)
        /\ kind'[r] = "analysis"
        /\ \A s \in Sources : cache'[r][s] = Unread /\ since'[r][s] = {file[s]}
        /\ \A v \in Requests \ {r} :
             kind'[v] = kind[v] /\ cache'[v] = cache[v] /\ since'[v] = since[v]
    BY <1>1, <1>2, StartFacts
  <1>4. Shared \cup Catalog \subseteq Sources
    BY CatalogIsProducts DEF Sources
  <1>5. TypeOK' /\ Shapes'
    BY <1>1, <1>2, <1>3, <1>4, CatalogIsProducts DEF RequestInv, TypeOK, Shapes
  <1>6. /\ pc'[r] = "reading" /\ used'[r] = <<>> /\ todo'[r] = Catalog
        /\ population'[r] = Catalog /\ toRead'[r] = Shared \cup Catalog
    BY <1>1 DEF RequestInv, TypeOK, Shapes, RequestOK, PlaceOK
  <1>7. RequestOK(r)'
    BY <1>2, <1>3, <1>6
    DEF RequestOK, PlaceOK, ReadingOK, LoaderOK, AnswersOK, Calculated
  <1>8. \A v \in Requests \ {r} :
          /\ pc'[v] = pc[v] /\ todo'[v] = todo[v] /\ population'[v] = population[v]
          /\ toRead'[v] = toRead[v]
    BY <1>1 DEF RequestInv, TypeOK, Shapes
  <1>. QED
    BY <1>1, <1>2, <1>3, <1>5, <1>7, <1>8, OwnStep

LEMMA TakeInv ==
  ASSUME RequestInv, NEW r \in Requests, NEW p \in Products, Take(r, p)
  PROVE  RequestInv'
  <1>1. /\ pc[r] = "next" /\ kind[r] = "cost"
        /\ product' = [product EXCEPT ![r] = p] /\ pc' = [pc EXCEPT ![r] = "diagnose"]
        /\ UNCHANGED <<file, legacy, saving, saves, kind, todo, population, toRead,
                       toInstall, cache, used, started, since>>
    BY DEF Take, Goto, files, loader
  <1>2. TypeOK' /\ Shapes'
    BY <1>1 DEF RequestInv, TypeOK, Shapes
  <1>3. pc'[r] = "diagnose" /\ product'[r] = p
    BY <1>1 DEF RequestInv, TypeOK
  <1>4. AnswersOK(r)'
    BY <1>1 DEF RequestInv, RequestOK, AnswersOK, Calculated
  <1>5. RequestOK(r)'
    BY <1>1, <1>3, <1>4 DEF RequestInv, RequestOK, PlaceOK, ReadingOK, LoaderOK
  <1>6. \A v \in Requests \ {r} : pc'[v] = pc[v] /\ product'[v] = product[v]
    BY <1>1 DEF RequestInv, TypeOK
  <1>. QED
    BY <1>1, <1>2, <1>5, <1>6, OwnStep

(* A request refuses a product and goes on with the next.                  *)
LEMMA RefuseInv ==
  ASSUME RequestInv, NEW r \in Requests, NEW p \in Products, NEW code,
         pc[r] # "idle", Settle(r, p, Refusal(code)),
         kind[r] = "analysis" => pc[r] = "next",
         toRead' \in [Requests -> SUBSET Sources],
         \A v \in Requests \ {r} : toRead'[v] = toRead[v],
         UNCHANGED <<files, kind, population, toInstall, cache, started, since>>
  PROVE  RequestInv'
  <1>1. UNCHANGED <<file, legacy, saving, saves>>
    BY DEF files
  <1>2. TypeOK' /\ Shapes'
    <2>1. /\ pc' = [pc EXCEPT ![r] = "next"]
          /\ todo' \in [Requests -> SUBSET Products]
          /\ product' \in [Requests -> Products \cup {None}]
          /\ used' = [v \in Requests |-> used'[v]]
          /\ \A v \in Requests : DOMAIN used'[v] \subseteq Products
      BY SettleFacts
    <2>2. TypeOK'
      BY <1>1, <2>1 DEF RequestInv, TypeOK
    <2>3. Shapes'
      BY <1>1, <2>1 DEF RequestInv, Shapes
    <2>. QED
      BY <2>2, <2>3
  <1>3. AnswersOK(r)'
    BY RefusedAnswers
  <1>4. PlaceOK(r)' /\ ReadingOK(r)' /\ LoaderOK(r)'
    BY <1>1, SettleFacts DEF RequestInv, RequestOK, PlaceOK, ReadingOK, LoaderOK
  <1>5. RequestOK(r)'
    BY <1>3, <1>4 DEF RequestOK
  <1>. QED
    BY <1>1, <1>2, <1>5, SettleFacts, OwnStep

LEMMA ReadByIsSources ==
  ASSUME NEW p \in Products
  PROVE  ReadBy(p) \subseteq Sources
  BY DEF ReadBy, Sources

LEMMA DiagnoseInv ==
  ASSUME RequestInv, NEW r \in Requests, Diagnose(r)
  PROVE  RequestInv'
  <1> DEFINE p == product[r]
  <1>1. /\ pc[r] \in {"diagnose", "again"} /\ p \in Products /\ kind[r] = "cost"
        /\ UNCHANGED <<files, kind, population, cache, started, since>>
    BY DEF Diagnose, RequestInv, RequestOK, PlaceOK
  <1>2. UNCHANGED <<file, legacy, saving, saves>>
    BY <1>1 DEF files
  <1>3. CASE /\ MissingOf(p) = {} /\ IncompleteOf(p) = {} /\ Goto(r, "reading")
             /\ toRead' = [toRead EXCEPT ![r] = ReadBy(p)]
             /\ UNCHANGED <<todo, product, toInstall, used>>
    <2>1. pc' = [pc EXCEPT ![r] = "reading"] /\ pc'[r] = "reading"
      BY <1>3 DEF Goto, RequestInv, TypeOK
    <2>2. TypeOK' /\ Shapes'
      BY <1>1, <1>2, <1>3, <2>1, ReadByIsSources DEF RequestInv, TypeOK, Shapes
    <2>3. toRead'[r] = ReadBy(p)
      BY <1>3 DEF RequestInv, Shapes
    <2>4. \A s \in ReadBy(p) : Clean(file[s])
      BY <1>3 DEF MissingOf, IncompleteOf, Clean
    <2>5. AnswersOK(r)'
      BY <1>1, <1>3 DEF RequestInv, RequestOK, AnswersOK, Calculated
    <2>6. PlaceOK(r)' /\ ReadingOK(r)' /\ LoaderOK(r)'
      BY <1>1, <1>2, <1>3, <2>1, <2>3, <2>4
      DEF RequestInv, RequestOK, PlaceOK, ReadingOK, LoaderOK
    <2>7. \A v \in Requests \ {r} : pc'[v] = pc[v] /\ toRead'[v] = toRead[v]
      BY <1>3, <2>1 DEF RequestInv, TypeOK, Shapes
    <2>8. RequestOK(r)'
      BY <2>5, <2>6 DEF RequestOK
    <2>. QED
      BY <1>1, <1>2, <1>3, <2>2, <2>7, <2>8, OwnStep
  <1>4. CASE /\ Goto(r, "migrating")
             /\ toInstall' = [toInstall EXCEPT ![r] =
                  ({p} \cap Known \cap MissingOf(p)) \cup {<<s>> : s \in
                     (LegacyFiles \ legacy) \cap
                       (Summarised \cup {"weights", "predictions"})}]
             /\ UNCHANGED <<todo, product, toRead, used>>
    <2>1. pc' = [pc EXCEPT ![r] = "migrating"] /\ pc'[r] = "migrating"
      BY <1>4 DEF Goto, RequestInv, TypeOK
    <2>2. toInstall' \in [Requests -> SUBSET Items]
      BY <1>1, <1>4 DEF RequestInv, Shapes, Items
    <2>3. TypeOK' /\ Shapes'
      BY <1>1, <1>2, <1>4, <2>1, <2>2 DEF RequestInv, TypeOK, Shapes, Items
    <2>4. AnswersOK(r)'
      BY <1>1, <1>4 DEF RequestInv, RequestOK, AnswersOK, Calculated
    <2>5. PlaceOK(r)' /\ ReadingOK(r)' /\ LoaderOK(r)'
      BY <1>1, <1>2, <1>4, <2>1
      DEF RequestInv, RequestOK, PlaceOK, ReadingOK, LoaderOK
    <2>6. \A v \in Requests \ {r} : pc'[v] = pc[v]
      BY <2>1 DEF RequestInv, TypeOK
    <2>7. RequestOK(r)'
      BY <2>4, <2>5 DEF RequestOK
    <2>. QED
      BY <1>1, <1>2, <1>4, <2>3, <2>6, <2>7, OwnStep
  <1>5. ASSUME NEW code, Settle(r, p, Refusal(code)), UNCHANGED <<toRead, toInstall>>
        PROVE  RequestInv'
    BY <1>1, <1>5, RefuseInv DEF RequestInv, Shapes
  <1>. QED
    BY <1>3, <1>4, <1>5 DEF Diagnose

LEMMA EndMigrationInv ==
  ASSUME RequestInv, NEW r \in Requests, EndMigration(r)
  PROVE  RequestInv'
  <1>1. /\ pc[r] = "migrating" /\ product[r] \in Products /\ kind[r] = "cost"
        /\ UNCHANGED <<file, legacy, saving, saves, files, kind, population, toRead,
                       toInstall, cache, started, since>>
    BY DEF EndMigration, files, loader, RequestInv, RequestOK, PlaceOK
  <1>2. CASE Goto(r, "again") /\ UNCHANGED <<todo, product, used>>
    <2>1. pc' = [pc EXCEPT ![r] = "again"] /\ pc'[r] = "again"
      BY <1>2 DEF Goto, RequestInv, TypeOK
    <2>2. TypeOK' /\ Shapes'
      BY <1>1, <1>2, <2>1 DEF RequestInv, TypeOK, Shapes
    <2>3. AnswersOK(r)'
      BY <1>1, <1>2 DEF RequestInv, RequestOK, AnswersOK, Calculated
    <2>4. RequestOK(r)'
      BY <1>1, <1>2, <2>1, <2>3
      DEF RequestInv, RequestOK, PlaceOK, ReadingOK, LoaderOK
    <2>5. \A v \in Requests \ {r} : pc'[v] = pc[v]
      BY <2>1 DEF RequestInv, TypeOK
    <2>. QED
      BY <1>1, <1>2, <2>2, <2>4, <2>5, OwnStep
  <1>3. CASE Settle(r, product[r], Refusal("LEGACY_SOURCE_CONFLICT"))
    BY <1>1, <1>3, RefuseInv DEF RequestInv, Shapes
  <1>. QED
    BY <1>2, <1>3 DEF EndMigration

LEMMA ContentOK ==
  ASSUME RequestInv, NEW r \in Requests, NEW s \in Sources, pc[r] # "idle"
  PROVE  /\ Content(r, s) \in Contents(s) /\ Content(r, s) # Unread
         /\ Content(r, s) \in since[r][s]
         /\ cache[r][s] # Unread => Content(r, s) = cache[r][s]
  BY ContentFacts DEF RequestInv, TypeOK, RequestOK, LoaderOK, Content

LEMMA ReadInv ==
  ASSUME RequestInv, NEW r \in Requests, NEW s \in Sources, Read(r, s)
  PROVE  RequestInv'
  <1> DEFINE content == Content(r, s)
  <1>1. /\ pc[r] = "reading" /\ s \in toRead[r] /\ kind[r] \in {"cost", "analysis"}
        /\ UNCHANGED <<file, legacy, saving, saves, files, kind, population, toInstall,
                       started, since>>
    BY DEF Read, IsFirst, files, RequestInv, RequestOK, PlaceOK
  <1>2. CASE content \in {Absent, Torn} /\ kind[r] = "cost"
    <2>1. /\ Settle(r, product[r], Refusal(Failure(content)))
          /\ toRead' = [toRead EXCEPT ![r] = {}] /\ UNCHANGED cache
      BY <1>2 DEF Read
    <2>2. product[r] \in Products
      BY <1>1, <1>2 DEF RequestInv, RequestOK, PlaceOK
    <2>3. /\ toRead' \in [Requests -> SUBSET Sources]
          /\ \A v \in Requests \ {r} : toRead'[v] = toRead[v]
      BY <2>1 DEF RequestInv, Shapes
    <2>. QED
      BY <1>1, <1>2, <2>1, <2>2, <2>3, RefuseInv
  <1>3. CASE ~(content \in {Absent, Torn} /\ kind[r] = "cost")
    <2>1. /\ cache' = [cache EXCEPT ![r][s] = content]
          /\ toRead' = [toRead EXCEPT ![r] = @ \ {s}]
          /\ UNCHANGED <<pc, todo, product, used>>
      BY <1>3 DEF Read
    <2>2. /\ content \in Contents(s) /\ content # Unread /\ content \in since[r][s]
          /\ cache[r][s] # Unread => content = cache[r][s]
      BY <1>1, ContentOK
    <2>3. /\ cache' = [v \in Requests |-> [t \in Sources |-> cache'[v][t]]]
          /\ \A t \in Sources : cache'[r][t] = IF t = s THEN content ELSE cache[r][t]
          /\ \A v \in Requests \ {r} : cache'[v] = cache[v]
      <3>1. cache = [v \in Requests |-> [t \in Sources |-> cache[v][t]]]
        BY DEF RequestInv, Shapes
      <3>2. /\ \A v \in Requests \ {r} : cache'[v] = cache[v]
            /\ cache'[r] = [cache[r] EXCEPT ![s] = content]
            /\ DOMAIN cache' = Requests
        BY <2>1, <3>1
      <3>3. /\ cache'[r] = [t \in Sources |-> cache'[r][t]]
            /\ \A t \in Sources : cache'[r][t] = IF t = s THEN content ELSE cache[r][t]
        BY <3>1, <3>2
      <3>4. cache' = [v \in Requests |-> cache'[v]]
        BY <2>1, <3>1
      <3>5. \A v \in Requests : cache'[v] = [t \in Sources |-> cache'[v][t]]
        BY <3>1, <3>2, <3>3
      <3>. QED
        BY <3>2, <3>3, <3>4, <3>5
    <2>4. /\ toRead' \in [Requests -> SUBSET Sources] /\ toRead'[r] = toRead[r] \ {s}
          /\ \A v \in Requests \ {r} : toRead'[v] = toRead[v]
      BY <2>1 DEF RequestInv, Shapes
    <2>5. Shapes'
      BY <1>1, <2>1, <2>3, <2>4 DEF RequestInv, Shapes
    <2>6. ASSUME NEW v \in Requests, NEW t \in Sources
          PROVE  cache'[v][t] \in Contents(t) \cup {Unread}
      BY <2>2, <2>3 DEF RequestInv, TypeOK
    <2>7. TypeOK'
      BY <1>1, <2>1, <2>4, <2>6 DEF RequestInv, TypeOK
    <2>8. PlaceOK(r)' /\ ReadingOK(r)'
      <3>1. PlaceOK(r) /\ ReadingOK(r)
        BY DEF RequestInv, RequestOK
      <3>2. \A t \in Sources :
              cache[r][t] # Unread \/ t = s => cache'[r][t] # Unread
        BY <2>2, <2>3
      <3>3. Shared \cup population[r] \subseteq Sources
        BY DEF RequestInv, TypeOK, Sources
      <3>4. kind[r] = "cost" => ReadBy(product[r]) \subseteq Sources
        BY <1>1, <3>1, ReadByIsSources DEF PlaceOK
      <3>5. PlaceOK(r)'
        BY <1>1, <2>1, <3>1 DEF PlaceOK
      <3>. QED
        BY <1>1, <2>1, <2>4, <3>1, <3>2, <3>3, <3>4, <3>5 DEF ReadingOK
    <2>9. LoaderOK(r)'
      <3>1. kind[r] = "cost" => content # Torn /\ Clean(content)
        <4>1. CASE cache[r][s] # Unread
          BY <1>1, <1>3, <2>2, <4>1 DEF RequestInv, RequestOK, LoaderOK
        <4>2. CASE cache[r][s] = Unread
          BY <1>1, <1>3, <4>2 DEF Content, RequestInv, RequestOK, ReadingOK
        <4>. QED
          BY <4>1, <4>2
      <3>. QED
        BY <1>1, <2>1, <2>2, <2>3, <3>1 DEF RequestInv, RequestOK, LoaderOK
    <2>10. AnswersOK(r)'
      <3>1. \A t \in Sources : cache[r][t] # Unread => cache'[r][t] = cache[r][t]
        BY <2>2, <2>3
      <3>2. Calculated(r)' = Calculated(r)
        BY <2>1 DEF Calculated
      <3>. QED
        BY <2>1, <3>1, <3>2, AnswersStay, CalculatedProducts DEF RequestInv, RequestOK
    <2>11. RequestOK(r)'
      BY <2>8, <2>9, <2>10 DEF RequestOK
    <2>. QED
      BY <1>1, <2>1, <2>3, <2>4, <2>5, <2>7, <2>11, OwnStep
  <1>. QED
    BY <1>2, <1>3

(* A request answers a product from what it has read.                      *)
LEMMA GiveInv ==
  ASSUME RequestInv, NEW r \in Requests, NEW p \in Products, NEW products,
         pc[r] # "idle", Settle(r, p, Basis(ReadSoFar(r, p), products)),
         kind[r] = "analysis" => pc[r] = "next",
         \A s \in ReadBy(p) : cache[r][s] # Unread /\ ~Generated(cache[r][s]),
         UNCHANGED <<files, kind, population, toRead, toInstall, cache, started,
                     since>>
  PROVE  RequestInv'
  <1>1. UNCHANGED <<file, legacy, saving, saves>>
    BY DEF files
  <1>2. TypeOK' /\ Shapes'
    <2>1. /\ pc' = [pc EXCEPT ![r] = "next"]
          /\ todo' \in [Requests -> SUBSET Products]
          /\ product' \in [Requests -> Products \cup {None}]
          /\ used' = [v \in Requests |-> used'[v]]
          /\ \A v \in Requests : DOMAIN used'[v] \subseteq Products
      BY SettleFacts
    <2>2. TypeOK'
      BY <1>1, <2>1 DEF RequestInv, TypeOK
    <2>3. Shapes'
      BY <1>1, <2>1 DEF RequestInv, Shapes
    <2>. QED
      BY <2>2, <2>3
  <1>3. AnswersOK(r)'
    BY GivenAnswers
  <1>4. PlaceOK(r)' /\ ReadingOK(r)' /\ LoaderOK(r)'
    BY <1>1, SettleFacts DEF RequestInv, RequestOK, PlaceOK, ReadingOK, LoaderOK
  <1>5. RequestOK(r)'
    BY <1>3, <1>4 DEF RequestOK
  <1>. QED
    BY <1>1, <1>2, <1>5, SettleFacts, OwnStep

LEMMA CalculateInv ==
  ASSUME RequestInv, NEW r \in Requests, Calculate(r)
  PROVE  RequestInv'
  <1> DEFINE p == product[r]
  <1>1. /\ pc[r] = "reading" /\ kind[r] = "cost" /\ toRead[r] = {}
        /\ Settle(r, p, Basis(ReadSoFar(r, p), Catalog))
        /\ UNCHANGED <<files, kind, population, toRead, toInstall, cache, started,
                       since>>
    BY DEF Calculate, loader
  <1>2. p \in Products
    BY <1>1 DEF RequestInv, RequestOK, PlaceOK
  <1>3. ASSUME NEW s \in ReadBy(p)
        PROVE  cache[r][s] # Unread /\ ~Generated(cache[r][s])
    <2>1. s \in Sources /\ cache[r][s] # Unread
      BY <1>1, <1>2, ReadByIsSources DEF RequestInv, RequestOK, ReadingOK
    <2>. QED
      BY <1>1, <2>1 DEF RequestInv, RequestOK, LoaderOK, Clean
  <1>. QED
    BY <1>1, <1>2, <1>3, GiveInv

LEMMA AnalyseInv ==
  ASSUME RequestInv, NEW r \in Requests, NEW p \in Products, Analyse(r, p)
  PROVE  RequestInv'
  <1>1. /\ pc[r] = "next" /\ kind[r] = "analysis" /\ p \in todo[r]
        /\ UNCHANGED <<files, kind, population, toRead, toInstall, cache, started,
                       since>>
    BY DEF Analyse, loader
  <1>2. CASE Unusable(r, p) \cup Marked(r, p) = {}
    <2>1. Settle(r, p, Basis(ReadSoFar(r, p), Spread(r)))
      BY <1>2 DEF Analyse
    <2>2. ASSUME NEW s \in ReadBy(p)
          PROVE  cache[r][s] # Unread /\ ~Generated(cache[r][s])
      <3>1. s \in Shared \cup population[r]
        BY <1>1 DEF ReadBy, RequestInv, RequestOK, ReadingOK
      <3>2. cache[r][s] # Unread
        BY <1>1, <3>1 DEF RequestInv, RequestOK, ReadingOK
      <3>3. cache[r][s].marks = {}
        BY <1>2 DEF Unusable, Marked
      <3>. QED
        BY <3>2, <3>3 DEF Generated
    <2>. QED
      BY <1>1, <2>1, <2>2, GiveInv
  <1>3. CASE Unusable(r, p) \cup Marked(r, p) # {}
    <2>1. Settle(r, p, Refusal(Objection(r, p)))
      BY <1>3 DEF Analyse
    <2>. QED
      BY <1>1, <2>1, RefuseInv DEF RequestInv, Shapes
  <1>. QED
    BY <1>2, <1>3

(* A request that moves on without reading or answering.                   *)
LEMMA MoveInv ==
  ASSUME RequestInv, NEW r \in Requests, NEW phase \in {"next", "answered"},
         pc[r] # "idle", pc' = [pc EXCEPT ![r] = phase],
         phase = "next" => kind[r] = "analysis" /\ pc[r] = "reading" /\ toRead[r] = {},
         UNCHANGED <<files, kind, todo, product, loader, used, started, since>>
  PROVE  RequestInv'
  <1>1. UNCHANGED <<file, legacy, saving, saves, population, toRead, toInstall, cache>>
    BY DEF files, loader
  <1>2. TypeOK' /\ Shapes'
    BY <1>1 DEF RequestInv, TypeOK, Shapes
  <1>3. pc'[r] = phase /\ \A v \in Requests \ {r} : pc'[v] = pc[v]
    BY DEF RequestInv, TypeOK
  <1>4. AnswersOK(r)'
    BY <1>1 DEF RequestInv, RequestOK, AnswersOK, Calculated
  <1>5. RequestOK(r)'
    BY <1>1, <1>3, <1>4 DEF RequestInv, RequestOK, PlaceOK, ReadingOK, LoaderOK
  <1>. QED
    BY <1>1, <1>2, <1>3, <1>5, OwnStep

LEMMA FinishInv ==
  ASSUME RequestInv, NEW r \in Requests, Finish(r)
  PROVE  RequestInv'
  <1>1. /\ pc' = [pc EXCEPT ![r] = "idle"] /\ kind' = [kind EXCEPT ![r] = None]
        /\ used' = [used EXCEPT ![r] = <<>>]
        /\ population' = [population EXCEPT ![r] = {}]
        /\ since' = [since EXCEPT ![r] = [s \in Sources |-> {}]]
        /\ UNCHANGED <<file, legacy, saving, saves, todo, product, toRead, toInstall,
                       cache, started>>
    BY DEF Finish, Goto, files
  <1>2. TypeOK' /\ Shapes'
    <2>1. /\ since' = [v \in Requests |-> [s \in Sources |-> since'[v][s]]]
          /\ used' = [v \in Requests |-> used'[v]]
          /\ used'[r] = <<>> /\ \A s \in Sources : since'[r][s] = {}
          /\ \A v \in Requests \ {r} : used'[v] = used[v] /\ since'[v] = since[v]
      BY <1>1 DEF RequestInv, Shapes
    <2>2. Shapes'
      BY <1>1, <2>1 DEF RequestInv, Shapes
    <2>3. ASSUME NEW v \in Requests
          PROVE  /\ DOMAIN used'[v] \subseteq Products
                 /\ \A s \in Sources : since'[v][s] \subseteq Contents(s)
      <3>1. CASE v = r
        BY <2>1, <3>1
      <3>2. CASE v # r
        BY <2>1, <3>2 DEF RequestInv, TypeOK
      <3>. QED
        BY <3>1, <3>2
    <2>4. TypeOK'
      BY <1>1, <2>3 DEF RequestInv, TypeOK
    <2>. QED
      BY <2>2, <2>4
  <1>3. pc'[r] = "idle" /\ used'[r] = <<>>
    BY <1>1 DEF RequestInv, TypeOK, Shapes
  <1>4. RequestOK(r)'
    BY <1>3 DEF RequestOK, PlaceOK, ReadingOK, LoaderOK, AnswersOK, Calculated
  <1>5. \A v \in Requests \ {r} :
          /\ pc'[v] = pc[v] /\ kind'[v] = kind[v] /\ used'[v] = used[v]
          /\ population'[v] = population[v] /\ since'[v] = since[v]
    BY <1>1 DEF RequestInv, TypeOK, Shapes
  <1>. QED
    BY <1>1, <1>2, <1>4, <1>5, OwnStep

-----------------------------------------------------------------------------
(* Steps that write a file.  What was there is replaced by something that  *)
(* is not generated, or not at all.                                        *)

Replaced(s) == file[s] # Absent => file'[s] = file[s] \/ Clean(file'[s])

LEMMA FileStep ==
  ASSUME RequestInv, Seen(file'), TypeOK', FilesOK',
         file' = [s \in Sources |-> file'[s]], \A s \in Sources : Replaced(s),
         toInstall' \in [Requests -> SUBSET Items],
         UNCHANGED <<kind, pc, todo, product, population, toRead, cache, used>>
  PROVE  RequestInv'
  <1>1. since' = [r \in Requests |-> IF pc[r] = "idle" THEN since[r]
                    ELSE [s \in Sources |-> since[r][s] \cup {file'[s]}]]
    BY DEF Seen
  <1>2. Shapes'
    <2>1. since' = [r \in Requests |-> [s \in Sources |-> since'[r][s]]]
      BY <1>1 DEF RequestInv, Shapes
    <2>. QED
      BY <2>1 DEF RequestInv, Shapes
  <1>3. ASSUME NEW r \in Requests PROVE RequestOK(r)'
    <2>1. PlaceOK(r)'
      BY DEF RequestInv, RequestOK, PlaceOK
    <2>2. ReadingOK(r)'
      <3>1. ASSUME NEW s \in Sources, Clean(file[s]) PROVE Clean(file'[s])
        BY <3>1 DEF Replaced, Clean
      <3>2. PlaceOK(r) /\ ReadingOK(r)
        BY DEF RequestInv, RequestOK
      <3>3. pc[r] = "reading" /\ kind[r] = "cost" => ReadBy(product[r]) \subseteq Sources
        BY <3>2, ReadByIsSources DEF PlaceOK
      <3>. QED
        BY <3>1, <3>2, <3>3 DEF ReadingOK
    <2>3. LoaderOK(r)'
      BY <1>1 DEF RequestInv, RequestOK, LoaderOK
    <2>4. AnswersOK(r)'
      BY DEF RequestInv, RequestOK, AnswersOK, Calculated
    <2>. QED
      BY <2>1, <2>2, <2>3, <2>4 DEF RequestOK
  <1>. QED
    BY <1>2, <1>3 DEF RequestInv

LEMMA SeenTypes ==
  ASSUME RequestInv, Seen(file'), \A s \in Sources : file'[s] \in Contents(s)
  PROVE  \A r \in Requests : \A s \in Sources : since'[r][s] \subseteq Contents(s)
  BY DEF Seen, RequestInv, TypeOK

LEMMA InstallInv ==
  ASSUME RequestInv, NEW r \in Requests, Install(r)
  PROVE  RequestInv' /\ \A s \in Sources : Replaced(s)
  <1>1. PICK item \in toInstall[r] :
          /\ toInstall' = [toInstall EXCEPT ![r] = @ \ {item}]
          /\ \/ /\ item \in Products
                /\ file' = IF Link(item) THEN [file EXCEPT ![item] = Placeholder]
                                         ELSE file
                /\ UNCHANGED legacy
             \/ /\ item \notin Products
                /\ legacy' = legacy \cup {item[1]} /\ UNCHANGED file
    BY DEF Install
  <1>2. /\ Seen(file')
        /\ UNCHANGED <<saving, saves, kind, pc, todo, product, population, toRead,
                       cache, used, started>>
    BY DEF Install
  <1>3. item \in Items /\ toInstall' \in [Requests -> SUBSET Items]
    BY <1>1 DEF RequestInv, Shapes
  <1>4. legacy' \subseteq LegacyFiles
    BY <1>1, <1>3 DEF RequestInv, TypeOK, Items
  <1>5. /\ file' = [s \in Sources |-> file'[s]]
        /\ \A s \in Sources :
             \/ file'[s] = file[s]
             \/ s \in Products /\ file[s] = Absent /\ file'[s] = Placeholder
    BY <1>1, SourceFacts DEF RequestInv, Shapes, Link
  <1>6. ASSUME NEW s \in Sources PROVE file'[s] \in Contents(s)
    <2>1. s \in Products => Placeholder \in Document(s)
      BY SourceFacts, MadeDocument DEF Placeholder
    <2>. QED
      BY <1>5, <2>1, ContentFacts DEF RequestInv, TypeOK
  <1>7. TypeOK'
    BY <1>2, <1>3, <1>4, <1>6, SeenTypes DEF RequestInv, TypeOK, Items
  <1>8. FilesOK'
    <2>1. file'["weights"] = file["weights"] /\ file'["predictions"] = file["predictions"]
      BY <1>5, SourceFacts
    <2>. QED
      BY <1>2, <2>1 DEF RequestInv, FilesOK
  <1>9. \A s \in Sources : Replaced(s)
    BY <1>5 DEF Replaced
  <1>. QED
    BY <1>2, <1>3, <1>5, <1>7, <1>8, <1>9, FileStep

(* One source is written.                                                  *)
LEMMA WriteInv ==
  ASSUME RequestInv, NEW s \in Sources, NEW content \in Contents(s),
         Clean(content), content = Torn => s \notin {"weights", "predictions"},
         file' = [file EXCEPT ![s] = content], Seen(file'),
         saving' \in [source: {"materials"} \cup Products, value: Values] \cup {None},
         saves' \in 0 .. MaxSaves,
         UNCHANGED <<legacy, kind, pc, todo, product, population, toRead, toInstall,
                     cache, used, started>>
  PROVE  RequestInv' /\ \A t \in Sources : Replaced(t)
  <1>1. /\ file' = [t \in Sources |-> file'[t]]
        /\ \A t \in Sources : file'[t] = IF t = s THEN content ELSE file[t]
    BY DEF RequestInv, Shapes
  <1>2. \A t \in Sources : file'[t] \in Contents(t)
    BY <1>1 DEF RequestInv, TypeOK
  <1>3. saving' \in [source: Sources, value: Values] \cup {None}
    BY SourceFacts
  <1>4. TypeOK'
    BY <1>2, <1>3, SeenTypes DEF RequestInv, TypeOK
  <1>5. FilesOK'
    BY <1>1, SourceFacts DEF RequestInv, FilesOK, Clean
  <1>6. \A t \in Sources : Replaced(t)
    BY <1>1 DEF Replaced
  <1>7. toInstall' \in [Requests -> SUBSET Items]
    BY DEF RequestInv, Shapes
  <1>. QED
    BY <1>1, <1>4, <1>5, <1>6, <1>7, FileStep

LEMMA SavingTyped ==
  ASSUME RequestInv
  PROVE  saving \in [source: {"materials"} \cup Products, value: Values] \cup {None}
  BY DEF RequestInv, TypeOK, FilesOK

LEMMA MoreSaves ==
  ASSUME RequestInv, saves < MaxSaves, saves' = saves + 1
  PROVE  saves' \in 0 .. MaxSaves
  BY RequestAssumption DEF RequestAssumption, RequestInv, TypeOK

LEMMA PutInv ==
  ASSUME RequestInv, NEW s \in Sources, NEW content \in Document(s),
         ~Generated(content), Put(s, content)
  PROVE  RequestInv' /\ \A t \in Sources : Replaced(t)
  <1>1. content \in Contents(s) /\ Clean(content) /\ content # Torn
    BY ContentFacts DEF Clean
  <1>2. /\ file' = [file EXCEPT ![s] = content] /\ Seen(file')
        /\ saves < MaxSaves /\ saves' = saves + 1 /\ saving' = saving
        /\ UNCHANGED <<legacy, kind, pc, todo, product, population, toRead, toInstall,
                       cache, used, started>>
    BY DEF Put, loader
  <1>. QED
    BY <1>1, <1>2, SavingTyped, MoreSaves, WriteInv

LEMMA SaveShareInv ==
  ASSUME RequestInv, NEW v \in Entered, SaveShare(v)
  PROVE  RequestInv' /\ \A t \in Sources : Replaced(t)
  <1> DEFINE content == [file["weights"] EXCEPT !.value = v]
  <1>1. file["weights"] \in Document("weights") /\ ~Generated(file["weights"])
    BY SourceFacts, ContentFacts DEF SaveShare, RequestInv, TypeOK, FilesOK
  <1>2. v \in Cell("weights")
    BY SourceFacts
  <1>3. content \in Document("weights") /\ content.marks = file["weights"].marks
    BY <1>1, <1>2 DEF Document
  <1>. QED
    BY <1>1, <1>3, PutInv, SourceFacts DEF SaveShare, Generated

LEMMA SavePredictionInv ==
  ASSUME RequestInv, NEW q \in Products, NEW v \in Entered, SavePrediction(q, v)
  PROVE  RequestInv' /\ \A t \in Sources : Replaced(t)
  <1> DEFINE rows == file["predictions"].value
             names == DOMAIN rows \cup Catalog
             filled == [n \in names |-> IF n = q THEN v
                                        ELSE IF n \in DOMAIN rows THEN rows[n]
                                                                  ELSE Blank]
             content == [file["predictions"] EXCEPT !.value = filled]
  <1>1. file["predictions"] \in Document("predictions")
          /\ ~Generated(file["predictions"])
    BY SourceFacts, ContentFacts DEF SavePrediction, RequestInv, TypeOK, FilesOK
  <1>2. PICK known \in SUBSET Products : rows \in [known -> Cells]
    BY <1>1 DEF Document, Cell
  <1>3. names \in SUBSET Products
    BY <1>2, CatalogIsProducts
  <1>4. filled \in [names -> Cells]
    BY <1>2, SourceFacts
  <1>5. filled \in Cell("predictions")
    BY <1>3, <1>4 DEF Cell
  <1>6. content \in Document("predictions") /\ content.marks = file["predictions"].marks
    BY <1>1, <1>5 DEF Document
  <1>7. Put("predictions", content)
    BY DEF SavePrediction
  <1>. QED
    BY <1>1, <1>6, <1>7, PutInv, SourceFacts DEF Generated

LEMMA SavePoolInv ==
  ASSUME RequestInv, NEW pool \in Pools, NEW v \in Entered, SavePool(pool, v)
  PROVE  RequestInv' /\ \A t \in Sources : Replaced(t)
  <1>1. [value |-> v, marks |-> {}] \in Document(pool)
    BY SourceFacts, MadeDocument
  <1>. QED
    BY <1>1, PutInv, SourceFacts DEF SavePool, Generated

LEMMA StartSaveInv ==
  ASSUME RequestInv, NEW s \in {"materials"} \cup Products, NEW v \in Entered,
         StartSave(s, v)
  PROVE  RequestInv' /\ \A t \in Sources : Replaced(t)
  <1>1. /\ file' = [file EXCEPT ![s] = Torn] /\ Seen(file')
        /\ saves < MaxSaves /\ saves' = saves + 1
        /\ saving' = [source |-> s, value |-> v]
        /\ UNCHANGED <<legacy, kind, pc, todo, product, population, toRead, toInstall,
                       cache, used, started>>
    BY DEF StartSave, loader
  <1>2. s \in Sources /\ s \notin {"weights", "predictions"}
    BY SourceFacts
  <1>3. Torn \in Contents(s) /\ Clean(Torn)
    BY <1>2, ContentFacts DEF Clean
  <1>4. saving' \in [source: {"materials"} \cup Products, value: Values] \cup {None}
    BY <1>1, SourceFacts
  <1>. QED
    BY <1>1, <1>2, <1>3, <1>4, MoreSaves, WriteInv

LEMMA FinishSaveInv ==
  ASSUME RequestInv, FinishSave
  PROVE  RequestInv' /\ \A t \in Sources : Replaced(t)
  <1> DEFINE s == saving.source
             content == [value |-> saving.value, marks |-> {}]
  <1>1. /\ saving # None /\ saving' = None /\ file' = [file EXCEPT ![s] = content]
        /\ Seen(file')
        /\ UNCHANGED <<legacy, saves, kind, pc, todo, product, population, toRead,
                       toInstall, cache, used, started>>
    BY DEF FinishSave, loader
  <1>2. s \in {"materials"} \cup Products /\ saving.value \in Values
    BY <1>1, SavingTyped
  <1>3. s \in Sources /\ s \notin {"weights", "predictions"} /\ saving.value \in Cell(s)
    BY <1>2, SourceFacts
  <1>4. content \in Document(s)
    BY <1>3, MadeDocument
  <1>5. content \in Contents(s) /\ Clean(content)
    BY <1>3, <1>4, ContentFacts DEF Clean, Generated
  <1>6. saves' \in 0 .. MaxSaves
    BY <1>1 DEF RequestInv, TypeOK
  <1>. QED
    BY <1>1, <1>3, <1>5, <1>6, WriteInv

LEMMA EditInv ==
  ASSUME RequestInv, Edit
  PROVE  RequestInv' /\ \A t \in Sources : Replaced(t)
  BY SaveShareInv, SavePredictionInv, SavePoolInv, StartSaveInv, FinishSaveInv DEF Edit

-----------------------------------------------------------------------------
LEMMA ProceedInv ==
  ASSUME RequestInv, NEW r \in Requests, Proceed(r)
  PROVE  RequestInv' /\ \A t \in Sources : Replaced(t)
  <1>1. CASE Install(r)
    BY <1>1, InstallInv
  <1>2. CASE ~Install(r)
    <2>1. file' = file
      BY <1>2 DEF Proceed, Take, Analyse, Read, Diagnose, EndMigration, Calculate,
                  Captured, Reply, files
    <2>2. ASSUME Captured(r) PROVE RequestInv'
      BY <2>2, MoveInv DEF Captured, Goto
    <2>3. ASSUME Reply(r) PROVE RequestInv'
      BY <2>3, MoveInv DEF Reply, Goto
    <2>4. RequestInv'
      BY <1>2, <2>2, <2>3, TakeInv, AnalyseInv, ReadInv, DiagnoseInv, EndMigrationInv,
         CalculateInv DEF Proceed
    <2>. QED
      BY <2>1, <2>4 DEF Replaced
  <1>. QED
    BY <1>1, <1>2

LEMMA NextRequests ==
  ASSUME RequestInv, [Next]_vars
  PROVE  RequestInv' /\ \A t \in Sources : Replaced(t)
  <1>1. ASSUME NEW r \in Requests, NEW products \in SUBSET Products,
               AskCosts(r, products)
        PROVE  RequestInv' /\ file' = file
    BY <1>1, AskCostsInv DEF AskCosts, Start, files
  <1>2. ASSUME NEW r \in Requests, AskAnalysis(r) \/ Finish(r)
        PROVE  RequestInv' /\ file' = file
    BY <1>2, AskAnalysisInv, FinishInv DEF AskAnalysis, Finish, files
  <1>3. ASSUME NEW r \in Requests, Proceed(r)
        PROVE  RequestInv' /\ \A t \in Sources : Replaced(t)
    BY <1>3, ProceedInv
  <1>4. CASE UNCHANGED vars
    <2>1. UNCHANGED <<file, legacy, saving, saves, kind, pc, todo, product, population,
                      toRead, toInstall, cache, used, started, since>>
      BY <1>4 DEF vars, files, loader
    <2>2. TypeOK' /\ Shapes' /\ FilesOK'
      BY <2>1 DEF RequestInv, TypeOK, Shapes, FilesOK
    <2>3. \A r \in Requests : RequestOK(r)'
      BY <2>1 DEF RequestInv, RequestOK, PlaceOK, ReadingOK, LoaderOK, AnswersOK,
                  Calculated
    <2>. QED
      BY <2>1, <2>2, <2>3 DEF RequestInv, Replaced
  <1>. QED
    BY <1>1, <1>2, <1>3, <1>4, EditInv DEF Next, Replaced

(* The inductive invariant of the requests.                                *)
THEOREM RequestsAreInductive == Spec => []RequestInv
  <1>1. RequestInv /\ [Next]_vars => RequestInv'
    BY NextRequests
  <1>. QED
    BY <1>1, InitRequests, PTL DEF Spec

(* Every variable keeps its type (TypeOK).                                 *)
THEOREM RequestTypes == Spec => []TypeOK
  <1>1. RequestInv => TypeOK
    BY DEF RequestInv
  <1>. QED
    BY <1>1, RequestsAreInductive, PTL

(* A cost rests on nothing that was not in its file since its request      *)
(* began, for any number of saves meanwhile (CostInputLoader's cache).     *)
THEOREM CostsRestOnTheirRequest == Spec => []CostsAreCurrent
  <1>1. RequestInv => CostsAreCurrent
    <2> SUFFICES ASSUME RequestInv, NEW r \in Requests, NEW p \in Calculated(r),
                        NEW s \in ReadBy(p)
                 PROVE  used[r][p].sources[s] \in since[r][s]
      BY DEF CostsAreCurrent
    <2>1. cache[r][s] # Unread /\ used[r][p].sources[s] = cache[r][s]
      BY DEF RequestInv, RequestOK, AnswersOK
    <2>2. p \in Products /\ s \in Sources
      BY CalculatedProducts, ReadByIsSources
    <2>3. pc[r] # "idle"
      BY DEF RequestInv, RequestOK, PlaceOK, Calculated
    <2>. QED
      BY <2>1, <2>2, <2>3 DEF RequestInv, RequestOK, LoaderOK
  <1>. QED
    BY <1>1, RequestsAreInductive, PTL

(* All costs of one answer rest on the same shared sources.                *)
THEOREM AnswersAreConsistent == Spec => []OneAnswerOneSource
  <1>1. RequestInv => OneAnswerOneSource
    BY DEF RequestInv, RequestOK, AnswersOK, OneAnswerOneSource, ReadBy
  <1>. QED
    BY <1>1, RequestsAreInductive, PTL

(* No cost is calculated from a generated document, however many requests  *)
(* install them meanwhile (_diagnostic and the marks of an analysis).      *)
THEOREM NoPlaceholderIsCosted == Spec => []PlaceholderNeverUsed
  <1>1. RequestInv => PlaceholderNeverUsed
    BY DEF RequestInv, RequestOK, AnswersOK, PlaceholderNeverUsed
  <1>. QED
    BY <1>1, RequestsAreInductive, PTL

(* No step replaces what exists by a generated document (_atomic_create).  *)
THEOREM NothingIsReplaced == Spec => MigrationNeverReplaces
  <1> DEFINE Kept ==
        \A s \in Sources :
          file[s] # Absent /\ file'[s] # file[s] /\ file'[s] \notin {Absent, Torn}
            => ~Generated(file'[s])
  <1>1. RequestInv /\ [Next]_vars => [Kept]_vars
    BY NextRequests DEF Replaced, Clean
  <1>. QED
    BY <1>1, RequestsAreInductive, PTL DEF Spec, MigrationNeverReplaces

-----------------------------------------------------------------------------
(* What an analysis spreads.                                               *)

(* Its answers are for the products it has captured, from documents.       *)
SpreadOK(r) ==
  kind[r] = "analysis" =>
    \A p \in Calculated(r) :
      /\ used[r][p].population = population[r]
      /\ \A s \in ReadBy(p) : cache[r][s] \notin {Absent, Torn}
SpreadInv == \A r \in Requests : SpreadOK(r)

LEMMA SameSpread ==
  ASSUME NEW v, SpreadOK(v), kind'[v] = kind[v], used'[v] = used[v],
         population'[v] = population[v], cache'[v] = cache[v]
  PROVE  SpreadOK(v)'
  BY DEF SpreadOK, Calculated

LEMMA NothingSpread ==
  ASSUME NEW v, used'[v] = <<>>
  PROVE  SpreadOK(v)'
  BY DEF SpreadOK, Calculated

LEMMA AnalyseSpreads ==
  ASSUME RequestInv, SpreadInv, NEW r \in Requests, NEW p \in Products,
         Analyse(r, p)
  PROVE  SpreadInv'
  <1> DEFINE outcome == IF Unusable(r, p) \cup Marked(r, p) = {}
                          THEN Basis(ReadSoFar(r, p), Spread(r))
                          ELSE Refusal(Objection(r, p))
  <1>1. /\ Settle(r, p, outcome)
        /\ UNCHANGED <<kind, population, cache>>
    BY DEF Analyse, loader
  <1>2. /\ used'[r] = [q \in DOMAIN used[r] \cup {p} |->
                         IF q = p THEN outcome ELSE used[r][q]]
        /\ \A v \in Requests \ {r} : used'[v] = used[v]
    <2>. HIDE DEF outcome
    <2>. QED
      BY <1>1, SettleFacts
  <1>3. ASSUME NEW q \in Calculated(r)'
        PROVE  /\ used'[r][q].population = population[r]
               /\ \A s \in ReadBy(q) : cache[r][s] \notin {Absent, Torn}
    <2>1. CASE q = p
      <3>1. used'[r][p] = outcome /\ "sources" \in DOMAIN outcome
        BY <1>2, <1>3, <2>1 DEF Calculated
      <3>2. Unusable(r, p) = {}
        BY <3>1 DEF Refusal
      <3>3. outcome.population = population[r]
        BY <3>1 DEF Basis, Spread, Refusal
      <3>. QED
        BY <2>1, <3>1, <3>2, <3>3 DEF Unusable
    <2>2. CASE q # p
      <3>1. q \in Calculated(r) /\ used'[r][q] = used[r][q]
        BY <1>2, <1>3, <2>2 DEF Calculated
      <3>2. kind[r] = "analysis"
        BY DEF Analyse
      <3>. QED
        BY <3>1, <3>2 DEF SpreadInv, SpreadOK
    <2>. QED
      BY <2>1, <2>2
  <1>4. SpreadOK(r)'
    BY <1>1, <1>3 DEF SpreadOK
  <1>. QED
    BY <1>1, <1>2, <1>4, SameSpread DEF SpreadInv

LEMMA ReadSpreads ==
  ASSUME RequestInv, SpreadInv, NEW r \in Requests, NEW s \in Sources, Read(r, s)
  PROVE  SpreadInv'
  <1>1. UNCHANGED <<kind, population>>
    BY DEF Read
  <1>2. ASSUME NEW v \in Requests \ {r}
        PROVE  used'[v] = used[v] /\ cache'[v] = cache[v]
    BY DEF Read, Settle, RequestInv, Shapes
  <1>3. CASE kind[r] = "cost"
    BY <1>1, <1>2, <1>3, SameSpread DEF SpreadInv, SpreadOK
  <1>4. CASE kind[r] # "cost"
    <2> DEFINE content == Content(r, s)
    <2>1. cache' = [cache EXCEPT ![r][s] = content] /\ used' = used
      BY <1>4 DEF Read
    <2>2. /\ cache'[r][s] = content
          /\ \A t \in Sources \ {s} : cache'[r][t] = cache[r][t]
      BY <2>1 DEF RequestInv, Shapes
    <2>3. ASSUME NEW p \in Calculated(r), NEW t \in ReadBy(p)
          PROVE  cache'[r][t] = cache[r][t]
      <3>1. p \in Products /\ t \in Sources /\ cache[r][t] # Unread
        BY CalculatedProducts, ReadByIsSources DEF RequestInv, RequestOK, AnswersOK
      <3>. QED
        BY <2>2, <3>1 DEF Content
    <2>4. SpreadOK(r)'
      BY <1>1, <2>1, <2>3 DEF SpreadInv, SpreadOK, Calculated
    <2>. QED
      BY <1>1, <1>2, <2>4, SameSpread DEF SpreadInv
  <1>. QED
    BY <1>3, <1>4

(* A cost calculation settles a product.                                   *)
LEMMA CostSpreads ==
  ASSUME RequestInv, SpreadInv, NEW r \in Requests, kind[r] = "cost",
         UNCHANGED <<kind, population, cache>>,
         \A v \in Requests \ {r} : used'[v] = used[v]
  PROVE  SpreadInv'
  BY SameSpread DEF SpreadInv, SpreadOK

LEMMA NextSpreads ==
  ASSUME RequestInv, SpreadInv, [Next]_vars
  PROVE  SpreadInv'
  <1>1. ASSUME UNCHANGED <<kind, population, cache, used>> PROVE SpreadInv'
    BY <1>1, SameSpread DEF SpreadInv
  <1>2. ASSUME NEW r \in Requests, NEW products \in SUBSET Products,
               AskCosts(r, products)
        PROVE  SpreadInv'
    <2>1. /\ kind' = [kind EXCEPT ![r] = "cost"] /\ UNCHANGED <<population, used>>
          /\ cache' = [cache EXCEPT ![r] = NothingRead]
      BY <1>2 DEF AskCosts, Start, NewLoader
    <2>2. /\ kind'[r] = "cost"
          /\ \A v \in Requests \ {r} : kind'[v] = kind[v] /\ cache'[v] = cache[v]
      BY <2>1 DEF RequestInv, TypeOK, Shapes
    <2>3. SpreadOK(r)'
      BY <2>2 DEF SpreadOK
    <2>. QED
      BY <2>1, <2>2, <2>3, SameSpread DEF SpreadInv
  <1>3. ASSUME NEW r \in Requests, AskAnalysis(r) \/ Finish(r) PROVE SpreadInv'
    <2>1. CASE AskAnalysis(r)
      <3>1. /\ used[r] = <<>> /\ used' = used
            /\ kind' = [kind EXCEPT ![r] = "analysis"]
            /\ population' = [population EXCEPT ![r] = Catalog]
            /\ cache' = [cache EXCEPT ![r] = NothingRead]
        BY <2>1 DEF AskAnalysis, NewLoader, RequestInv, RequestOK, PlaceOK
      <3>2. \A v \in Requests \ {r} : /\ kind'[v] = kind[v] /\ cache'[v] = cache[v]
                                      /\ population'[v] = population[v]
        BY <3>1 DEF RequestInv, TypeOK, Shapes
      <3>. QED
        BY <3>1, <3>2, NothingSpread, SameSpread DEF SpreadInv
    <2>2. CASE Finish(r)
      <3>1. /\ kind' = [kind EXCEPT ![r] = None] /\ used' = [used EXCEPT ![r] = <<>>]
            /\ population' = [population EXCEPT ![r] = {}] /\ cache' = cache
        BY <2>2 DEF Finish
      <3>2. /\ used'[r] = <<>>
            /\ \A v \in Requests \ {r} : /\ kind'[v] = kind[v] /\ used'[v] = used[v]
                                         /\ population'[v] = population[v]
        BY <3>1 DEF RequestInv, TypeOK, Shapes
      <3>. QED
        BY <3>1, <3>2, NothingSpread, SameSpread DEF SpreadInv
    <2>. QED
      BY <1>3, <2>1, <2>2
  <1>4. ASSUME NEW r \in Requests, Proceed(r) PROVE SpreadInv'
    <2>1. CASE Diagnose(r) \/ EndMigration(r) \/ Calculate(r)
      <3>1. kind[r] = "cost"
        BY <2>1 DEF Diagnose, EndMigration, Calculate, RequestInv, RequestOK, PlaceOK
      <3>2. UNCHANGED <<kind, population, cache>>
        BY <2>1 DEF Diagnose, EndMigration, Calculate, loader
      <3>3. \A v \in Requests \ {r} : used'[v] = used[v]
        BY <2>1 DEF Diagnose, EndMigration, Calculate, Settle, RequestInv, Shapes
      <3>. QED
        BY <3>1, <3>2, <3>3, CostSpreads
    <2>2. ASSUME NEW p \in Products, Take(r, p) PROVE SpreadInv'
      BY <1>1, <2>2 DEF Take, loader
    <2>3. CASE Install(r) \/ Captured(r) \/ Reply(r)
      BY <1>1, <2>3 DEF Install, Captured, Reply, loader
    <2>. QED
      BY <1>4, <2>1, <2>2, <2>3, AnalyseSpreads, ReadSpreads DEF Proceed
  <1>5. CASE Edit
    BY <1>1, <1>5
    DEF Edit, SaveShare, SavePrediction, SavePool, StartSave, FinishSave, Put, loader
  <1>6. CASE UNCHANGED vars
    BY <1>1, <1>6 DEF vars, loader
  <1>. QED
    BY <1>2, <1>3, <1>4, <1>5, <1>6 DEF Next

(* The documents of an analysis, as its loader has them.                   *)
SharesOf(r) == <<[category |-> Category, share |-> cache[r]["weights"].value]>>
RowsOf(r) ==
  [q \in DOMAIN cache[r]["predictions"].value |->
     [product |-> NameOf[q], quantity |-> cache[r]["predictions"].value[q]]]
PoolsOf(r) == [pool \in Pools |-> <<cache[r][pool].value>>]

(* What it has calculated from them.                                       *)
Analysed(r, q) ==
  Inputs(Documents(used[r][q].sources, q), q, Category, used[r][q].population)
QuantitiesOf(r) ==
  [q \in population[r] |-> The(RowsOf(r), "product", NameOf[q]).quantity]

LEMMA AnalysisDocuments ==
  ASSUME RequestInv, SpreadInv, NEW r \in Requests, kind[r] = "analysis",
         NEW p \in Calculated(r)
  PROVE  LET docs == Documents(used[r][p].sources, p)
         IN  /\ docs.weights = SharesOf(r) /\ docs.predictions = RowsOf(r)
             /\ docs.pools = PoolsOf(r) /\ DOMAIN docs.bom = 1 .. 1
             /\ used[r][p].population = population[r]
             /\ \A s \in Shared : cache[r][s] \in Document(s)
  <1>1. p \in Products /\ \A s \in ReadBy(p) : s \in Sources
    BY CalculatedProducts, ReadByIsSources
  <1>2. \A s \in ReadBy(p) :
          /\ cache[r][s] # Unread /\ used[r][p].sources[s] = cache[r][s]
          /\ ~Generated(cache[r][s])
    BY DEF RequestInv, RequestOK, AnswersOK
  <1>3. /\ used[r][p].population = population[r]
        /\ \A s \in ReadBy(p) : cache[r][s] \notin {Absent, Torn}
    BY DEF SpreadInv, SpreadOK
  <1>4. \A s \in ReadBy(p) : cache[r][s] \in Document(s)
    BY <1>1, <1>2, <1>3, ContentFacts DEF RequestInv, TypeOK
  <1>5. Shared \subseteq ReadBy(p) /\ p \in ReadBy(p)
        /\ {"weights", "predictions"} \cup Pools \subseteq Shared
    BY DEF ReadBy, Shared
  <1> DEFINE sources == used[r][p].sources
             docs == Documents(sources, p)
  <1>6. /\ \A s \in Shared : sources[s] = cache[r][s]
        /\ ~Generated(sources[p])
        /\ \A pool \in Pools : ~Generated(sources[pool])
    BY <1>2, <1>5
  <1>. HIDE DEF sources
  <1>7. docs.weights = SharesOf(r) /\ docs.predictions = RowsOf(r)
    BY <1>5, <1>6 DEF Documents, SharesOf, RowsOf
  <1>8. docs.pools = PoolsOf(r)
    BY <1>5, <1>6 DEF Documents, PoolsOf
  <1>9. docs.bom = <<[id |-> 1, material |-> "m", usage |-> sources[p].value,
                      loss |-> 0, recyclability |-> 0]>>
    BY <1>6 DEF Documents
  <1>10. DOMAIN docs.bom = 1 .. 1
    <2>. HIDE DEF docs
    <2>. QED
      BY <1>9
  <1>. QED
    BY <1>3, <1>4, <1>5, <1>7, <1>8, <1>10 DEF sources

(* A number that was read is a natural number.                             *)
LEMMA CellNumber ==
  ASSUME NEW v \in Cells, Number(v) = "OK"
  PROVE  v \in Nat
  <1>1. CASE v = Blank
    BY <1>1 DEF Number
  <1>2. CASE v # Blank
    BY <1>2, RequestAssumption DEF RequestAssumption, Cells
  <1>. QED
    BY <1>1, <1>2

(* What a product that is costed was calculated from.                      *)
LEMMA AnalysedFrom ==
  ASSUME RequestInv, SpreadInv, NEW r \in Requests, kind[r] = "analysis",
         NEW p \in Costed(r)
  PROVE  /\ LoadProblem(Documents(used[r][p].sources, p), Category, population[r]) = "OK"
         /\ CostProblem(WithOverrides(Analysed(r, p), NoOverrides)) = "OK"
  <1> DEFINE docs == Documents(used[r][p].sources, p)
             P == population[r]
             in == Analysed(r, p)
             code == LoadProblem(docs, Category, P)
             problem == CostProblem(WithOverrides(in, NoOverrides))
  <1>1. p \in Calculated(r) /\ Answer(r, p).code = "OK"
    BY DEF Costed
  <1>2. used[r][p].population = P
    BY <1>1, AnalysisDocuments
  <1>3. Answer(r, p) = CostFrom(docs, p, Category, P)
    BY <1>1, <1>2 DEF Answer
  <1>4. in = Inputs(docs, p, Category, P)
    BY <1>2 DEF Analysed
  <1>. HIDE DEF docs, P, in
  <1>5. Answer(r, p) = IF code = "OK" THEN Cost(in, NoOverrides) ELSE [code |-> code]
    BY <1>3, <1>4 DEF CostFrom
  <1>. HIDE DEF code
  <1>6. code = "OK"
    BY <1>1, <1>5
  <1>7. Cost(in, NoOverrides) =
          IF problem = "OK"
            THEN [code |-> "OK", cost |-> UnitCost(WithOverrides(in, NoOverrides))]
            ELSE [code |-> problem]
    BY DEF Cost
  <1>. HIDE DEF problem
  <1>8. problem = "OK"
    BY <1>1, <1>5, <1>6, <1>7
  <1>. QED
    BY <1>6, <1>8 DEF code, problem, docs, P, in

LEMMA AnalysedFigures ==
  ASSUME RequestInv, SpreadInv, NEW r \in Requests, kind[r] = "analysis",
         NEW p \in Costed(r), p \in population[r]
  PROVE  LET in == Analysed(r, p)
         IN  /\ Figures(in) /\ in.product = p /\ in.predictions = QuantitiesOf(r)
             /\ in.share = The(SharesOf(r), "category", Category).share
             /\ DOMAIN in.pools = Pools
             /\ \A pool \in Pools : in.pools[pool] = RawPool(PoolsOf(r)[pool])
  <1> DEFINE docs == Documents(used[r][p].sources, p)
             P == population[r]
             in == Analysed(r, p)
             rows == RowsOf(r)
             n == QuantitiesOf(r)
             pools == PoolsOf(r)
  <1>1. p \in Calculated(r) /\ P \subseteq Products /\ IsFiniteSet(P)
    BY FS_Subset, RequestAssumption
    DEF RequestAssumption, Costed, RequestInv, TypeOK
  <1>2. /\ docs.weights = SharesOf(r) /\ docs.predictions = rows
        /\ docs.pools = pools /\ DOMAIN docs.bom = 1 .. 1
        /\ used[r][p].population = P
        /\ \A s \in Shared : cache[r][s] \in Document(s)
    BY <1>1, AnalysisDocuments
  <1>3. LoadProblem(docs, Category, P) = "OK"
        /\ CostProblem(WithOverrides(in, NoOverrides)) = "OK"
    BY AnalysedFrom
  <1>4. /\ in.product = p /\ DOMAIN in.lines = 1 .. 1
        /\ in.share = The(SharesOf(r), "category", Category).share
        /\ in.predictions = n /\ DOMAIN n = P
        /\ in.predictions = [q \in DOMAIN in.predictions |-> in.predictions[q]]
        /\ in.pools = [pool \in Pools |-> RawPool(pools[pool])]
    <2>1. in = Inputs(docs, p, Category, P)
      BY <1>2 DEF Analysed
    <2>2. DOMAIN pools = Pools
      BY DEF PoolsOf
    <2>3. n = [q \in P |-> The(rows, "product", NameOf[q]).quantity]
      BY DEF QuantitiesOf
    <2>. HIDE DEF in, docs, P, rows, n, pools
    <2>. QED
      BY <1>2, <2>1, <2>2, <2>3 DEF Inputs
  <1>. HIDE DEF in, docs, P, n
  <1>5. /\ \A q \in P : RowProblem(rows, "product", NameOf[q], "quantity",
                                   "PREDICTION_NOT_UNIQUE") = "OK"
        /\ PoolProblem(pools) = "OK"
    <2>. HIDE DEF rows, pools
    <2>1. \A category :
            LoadProblem(docs, category, P) = "OK" =>
              /\ \A q \in P : RowProblem(docs.predictions, "product", NameOf[q],
                                         "quantity", "PREDICTION_NOT_UNIQUE") = "OK"
              /\ PoolProblem(docs.pools) = "OK"
      <3>1. 1 \in Nat /\ DOMAIN docs.bom = 1 .. 1
        BY <1>2
      <3>. QED
        BY ONLY <3>1, LoadedFrom, Zenon
    <2>. QED
      BY <1>2, <1>3, <2>1
  <1>6. {"predictions"} \cup Pools \subseteq Shared
    BY DEF Shared
  <1>7. n \in [P -> Nat]
    <2> SUFFICES ASSUME NEW q \in P PROVE n[q] \in Nat
      BY <1>4 DEF n, QuantitiesOf, P
    <2> DEFINE found == Matching(rows, "product", NameOf[q])
               i == CHOOSE j \in found : TRUE
    <2>1. /\ Cardinality(found) = 1
          /\ Number(The(rows, "product", NameOf[q])["quantity"]) = "OK"
      <3>1. Number(The(rows, "product", NameOf[q])["quantity"]) # "PREDICTION_NOT_UNIQUE"
        BY DEF Number
      <3>. QED
        BY <1>5 DEF RowProblem, Unique
    <2>2. found # {}
      BY <2>1, FS_EmptySet
    <2>3. i \in found /\ found \subseteq DOMAIN rows
      BY <2>2 DEF Matching
    <2>4. The(rows, "product", NameOf[q]) = rows[i]
      BY DEF The
    <2>5. cache[r]["predictions"].value \in Cell("predictions")
      BY <1>2, <1>6 DEF Document
    <2>6. PICK names \in SUBSET Products :
            cache[r]["predictions"].value \in [names -> Cells]
      BY <2>5 DEF Cell
    <2>. HIDE DEF found, i
    <2>7. /\ rows[i]["quantity"] = cache[r]["predictions"].value[i]
          /\ cache[r]["predictions"].value[i] \in Cells
      BY <2>3, <2>6 DEF RowsOf
    <2>8. n[q] = rows[i]["quantity"]
      BY <2>4 DEF n, QuantitiesOf, P
    <2>. HIDE DEF rows
    <2>. QED
      BY <2>1, <2>4, <2>7, <2>8, CellNumber
  <1>8. \A pool \in Pools : RawPool(pools[pool]) \in Int
    <2> SUFFICES ASSUME NEW pool \in Pools PROVE RawPool(pools[pool]) \in Int
      OBVIOUS
    <2> DEFINE v == cache[r][pool].value
    <2>1. pools[pool] = <<v>> /\ DOMAIN pools = Pools
      BY DEF PoolsOf
    <2>2. v \in Cells
      <3>1. pool \in Sources /\ pool # "predictions"
        BY SourceFacts
      <3>2. v \in Cell(pool)
        BY <1>2, <1>6 DEF Document
      <3>. QED
        BY <3>1, <3>2, SourceFacts
    <2>. HIDE DEF v, pools
    <2>3. 1 \in DOMAIN pools[pool] /\ pools[pool][1] = v
      BY <2>1
    <2>4. Number(v) = "OK"
      BY <1>5, <2>1, <2>3, NoProblemInPools
    <2>5. v \in Int
      BY <2>2, <2>4, CellNumber
    <2>. QED
      BY <2>1, <2>5, PoolOfOneRow
  <1>9. /\ in.share \in 1 .. 100 /\ p \in DOMAIN n
        /\ PredictionTotal(in) > 0
    <2> DEFINE same == WithOverrides(in, NoOverrides)
    <2>1. /\ same.product = p /\ same.share = in.share /\ same.predictions = n
          /\ DOMAIN same.lines = 1 .. 1
      BY <1>4, NoOverridesKeep
    <2>. HIDE DEF same
    <2>2. /\ same.share \in 1 .. 100 /\ same.product \in DOMAIN same.predictions
          /\ PredictionTotal(same) > 0
      <3>1. CostProblem(same) = "OK" /\ 1 \in Nat
        BY <1>3 DEF same
      <3>. QED
        BY <2>1, <3>1, CalculatedFrom
    <2>3. PredictionTotal(same) = PredictionTotal(in)
      BY <1>4, <2>1, Zenon DEF PredictionTotal
    <2>. QED
      BY <2>1, <2>2, <2>3
  <1>10. PredictionTotal(in) \in Nat
    <2>1. PredictionTotal(in) = Sum(n)
      BY <1>4, Zenon DEF PredictionTotal, Sum
    <2>. QED
      BY <1>1, <1>7, <2>1, SumOfNats
  <1>11. Figures(in)
    BY <1>4, <1>7, <1>8, <1>9, <1>10 DEF Figures, Positive
  <1>. QED
    BY <1>4, <1>11 DEF in, n

LEMMA AllocationsAreComplete ==
  ASSUME RequestInv, SpreadInv
  PROVE  AllocationIsComplete
  <1> SUFFICES ASSUME NEW r \in Requests, kind[r] = "analysis", population[r] # {},
                      Costed(r) = population[r], NEW pool \in Pools,
                      NEW p \in population[r]
               PROVE  LET in == [q \in population[r] |-> Analysed(r, q)]
                      IN  Total([q \in population[r] |-> Contribution(in[q], pool)])
                            = AdjustedPool(in[p], pool)
    BY DEF AllocationIsComplete, Analysed
  <1> DEFINE S == population[r]
             in == [q \in S |-> Analysed(r, q)]
             R == RawPool(PoolsOf(r)[pool])
             w == The(SharesOf(r), "category", Category).share
             n == QuantitiesOf(r)
  <1>1. IsFiniteSet(S)
    BY FS_Subset, RequestAssumption DEF RequestAssumption, RequestInv, TypeOK
  <1>2. \A q \in S :
          /\ Figures(in[q]) /\ pool \in DOMAIN in[q].pools
          /\ in[q].product = q /\ in[q].predictions = n
          /\ in[q].pools[pool] = R /\ in[q].share = w
    BY AnalysedFigures
  <1>3. DOMAIN n = S
    BY DEF QuantitiesOf
  <1>4. in[p] = Analysed(r, p)
    OBVIOUS
  <1>. HIDE DEF in, R, w, n
  <1>5. Total([q \in S |-> Contribution(in[q], pool)]) = Fraction(R * 100, w)
    <2>. HIDE DEF S
    <2>1. S # {}
      BY DEF S
    <2>2. Alike(in, S, pool, R, w, n)
      BY <1>2, <1>3 DEF Alike
    <2>. QED
      BY <1>1, <2>1, <2>2, PoolIsSpread
  <1>6. AdjustedPool(in[p], pool) = Fraction(R * 100, w)
    BY <1>2 DEF AdjustedPool
  <1>. QED
    BY <1>5, <1>6 DEF in

(* What an analysis spreads over the products of a category is the whole   *)
(* adjusted pool, for any number of products, any pools, shares and        *)
(* predictions, and products that come and go while it reads               *)
(* (_category_population, captured once, and the contribution of each).    *)
THEOREM AllocationIsAlwaysComplete == Spec => []AllocationIsComplete
  <1>1. Init => SpreadInv
    BY DEF Init, SpreadInv, SpreadOK, Calculated
  <1>2. RequestInv /\ SpreadInv /\ [Next]_vars => SpreadInv'
    BY NextSpreads
  <1>. QED
    BY <1>1, <1>2, AllocationsAreComplete, RequestsAreInductive, PTL DEF Spec
=============================================================================
