-------------------------- MODULE PlanningPeriods --------------------------
(***************************************************************************)
(* The file of costing periods, and everything that reads or replaces it:  *)
(* calculations, which create a factory's first period when they find      *)
(* none, the discovery and approval of a first period, and the operator's  *)
(* command.  Every writer reads the whole file, decides on what it read    *)
(* and later renames a whole new file over it.  Nothing locks the file, so *)
(* that a writer may replace what it never saw.                            *)
(*                                                                         *)
(* A binding keeps its factory, its period and its status; its dates,      *)
(* sources and evidence are taken to be valid.                             *)
(***************************************************************************)
EXTENDS Integers, FiniteSets

CONSTANTS
  Workers,       \* requests and commands that may run at once
  Factories,     \* the factories of the registry
  WithData,      \* those with readable costing data on disk
  Periods,       \* period identifiers, with Initial
  Initial,       \* "INITIAL", the period created automatically
  AnyPeriod,     \* "", a calculation that asks for the active period
  InitialFiles,  \* what the file may be when the model starts
  MaxProducts,   \* bound on the products of one calculation request
  MaxRequests,   \* bound on all requests and commands
  Missing,       \* no file
  None

Binding ==
  [ factory: Factories, period: Periods,
    status: {"ACTIVE", "DRAFT", "APPROVED_INACTIVE"} ]

VARIABLES
  file,      \* the binding file
  pc,        \* where each worker is
  left,      \* the products its calculation still has to answer
  wanted,    \* the factory and the period it is working on
  cache,     \* the file as its first loader read it, once it did
  pending,   \* the bindings it is about to install
  answer,    \* the binding its last product was answered under
  seen,      \* history: the bindings in the file since its request began
  requests   \* bounded by MaxRequests

vars == <<file, pc, left, wanted, cache, pending, answer, seen, requests>>

Phases == {"idle", "load", "discover", "save", "reload"}
Wanted == [factory: Factories, period: Periods \cup {AnyPeriod}]

(* _read_bindings: an absent file has no bindings.                         *)
Records(document) == IF document = Missing THEN {} ELSE document
Of(document, f) == {b \in Records(document) : b.factory = f}
Actives(document, f) == {b \in Of(document, f) : b.status = "ACTIVE"}

(* What a file says must not contradict itself: one active period for a    *)
(* factory, one record for a period.                                       *)
OneActiveIn(document) ==
  \A f \in Factories : \A a, b \in Actives(document, f) : a = b
OnePerPeriodIn(document) ==
  \A a, b \in Records(document) :
    a.factory = b.factory /\ a.period = b.period => a = b

PeriodsAssumption ==
  /\ WithData \subseteq Factories
  /\ Initial \in Periods /\ AnyPeriod \notin Periods
  /\ InitialFiles \subseteq {Missing} \cup SUBSET Binding
  /\ \A document \in InitialFiles :
       OneActiveIn(document) /\ OnePerPeriodIn(document)
  /\ \A records \in SUBSET Binding : records \notin {Missing, None}
  /\ \A b \in Binding : b # None
  /\ None # Missing
  /\ MaxProducts \in Nat \ {0} /\ MaxRequests \in Nat
ASSUME PeriodsAssumption

Init ==
  /\ file \in InitialFiles
  /\ pc = [w \in Workers |-> "idle"]
  /\ left = [w \in Workers |-> 0]
  /\ wanted = [w \in Workers |-> None]
  /\ cache = [w \in Workers |-> None]
  /\ pending = [w \in Workers |-> None]
  /\ answer = [w \in Workers |-> None]
  /\ seen = [w \in Workers |-> {}]
  /\ requests = 0

-----------------------------------------------------------------------------
(* What readers make of a file.                                            *)

(* The bindings a calculation accepts; it wants exactly one.               *)
Matches(document, want) ==
  {b \in Actives(document, want.factory) :
     want.period = AnyPeriod \/ b.period = want.period}

-----------------------------------------------------------------------------
(* Requests.                                                               *)

Goto(w, phase) == pc' = [pc EXCEPT ![w] = phase]
Admit(w) ==
  /\ pc[w] = "idle" /\ requests < MaxRequests /\ requests' = requests + 1
  /\ seen' = [seen EXCEPT ![w] = Records(file)]
  /\ answer' = [answer EXCEPT ![w] = None]

(* Mutant: one loader serves every request.                                *)
NewLoader_Shared(w) == UNCHANGED cache
NewLoader(w) == cache' = [cache EXCEPT ![w] = None]

(* get_cost asks for one product, get_costs_bulk for several, all of them  *)
(* with one loader, which keeps the file it read.                          *)
StartCosts(w, n) ==
  /\ Admit(w) /\ NewLoader(w) /\ Goto(w, "load")
  /\ left' = [left EXCEPT ![w] = n]
  /\ UNCHANGED <<file, wanted, pending>>

(* The product has its answer, or its error: the next one, or the end.     *)
Finish(w, result) ==
  /\ answer' = [answer EXCEPT ![w] = result]
  /\ left' = [left EXCEPT ![w] = @ - 1]
  /\ pending' = [pending EXCEPT ![w] = None]
  /\ Goto(w, IF left[w] > 1 THEN "load" ELSE "idle")
  /\ UNCHANGED <<wanted, requests, seen>>

(* Under its one match a product is answered, unless another of its        *)
(* sources is unusable.                                                    *)
FinishUnder(w, matches) == \E b \in matches \cup {None} : Finish(w, b)

(* _period_binding reads the file once per loader; an absent file is not   *)
(* kept.  Without one match the first period may still be created.         *)
Load(w, want) ==
  LET document == IF cache[w] = None THEN file ELSE cache[w]
      matches == Matches(document, want)
  IN  /\ pc[w] = "load"
      /\ cache' = [cache EXCEPT ![w] = IF document = Missing THEN None
                                                              ELSE document]
      /\ IF Cardinality(matches) = 1
           THEN FinishUnder(w, matches)
         ELSE IF want.period \in {AnyPeriod, Initial}
           THEN /\ wanted' = [wanted EXCEPT ![w] = want] /\ Goto(w, "discover")
                /\ UNCHANGED <<left, pending, answer, seen, requests>>
         ELSE Finish(w, None)
      /\ UNCHANGED file

(* A request for, or a command of, discovery alone.                        *)
StartDiscovery(w, f) ==
  /\ Admit(w) /\ Goto(w, "discover")
  /\ wanted' = [wanted EXCEPT ![w] = [factory |-> f, period |-> Initial]]
  /\ UNCHANGED <<file, left, cache, pending>>

(* Where a calculation goes on after discovery, and where discovery alone  *)
(* ends.                                                                   *)
AfterDiscovery(w) == IF left[w] > 0 THEN "reload" ELSE "idle"

InitialBinding(f) == [factory |-> f, period |-> Initial, status |-> "ACTIVE"]

(* The error ends the product of a calculation, or the discovery.          *)
Refuse(w) ==
  IF left[w] > 0 THEN Finish(w, None)
  ELSE /\ Goto(w, "idle")
       /\ UNCHANGED <<left, wanted, pending, answer, seen, requests>>

(* discover_initial_period on the file as it is now: nothing to do when    *)
(* the active first period is all there is, an error when there is other   *)
(* history or no data, otherwise a file with the first period added.       *)
Discover(w) ==
  LET f == wanted[w].factory
      existing == Of(file, f)
  IN  /\ pc[w] = "discover"
      /\ IF existing = {InitialBinding(f)}
           THEN /\ Goto(w, AfterDiscovery(w))
                /\ UNCHANGED <<left, wanted, pending, answer, seen, requests>>
         ELSE IF existing = {} /\ f \in WithData
           THEN /\ pending' = [pending EXCEPT
                     ![w] = Records(file) \cup {InitialBinding(f)}]
                /\ Goto(w, "save")
                /\ UNCHANGED <<left, wanted, answer, seen, requests>>
         ELSE Refuse(w)
      /\ UNCHANGED <<file, cache>>

(* A fresh loader reads the file again.                                    *)
Reload(w) ==
  LET matches == Matches(file, wanted[w])
  IN  /\ pc[w] = "reload"
      /\ IF Cardinality(matches) = 1 THEN FinishUnder(w, matches)
                                     ELSE Finish(w, None)
      /\ UNCHANGED <<file, cache>>

(* approve_initial_period turns the one draft of a factory without an      *)
(* active binding into its active first period.                            *)
Approve(w, f) ==
  /\ Admit(w)
  /\ \E draft \in Of(file, f) :
       /\ {b \in Of(file, f) : b.period = Initial} = {draft}
       /\ draft.status = "DRAFT"
       /\ Actives(file, f) = {}
       /\ pending' = [pending EXCEPT
            ![w] = (Records(file) \ {draft}) \cup {InitialBinding(f)}]
  /\ Goto(w, "save")
  /\ wanted' = [wanted EXCEPT ![w] = None]
  /\ UNCHANGED <<file, left, cache>>

Candidate(f, p, active) ==
  [ factory |-> f, period |-> p,
    status |-> IF active THEN "ACTIVE" ELSE "APPROVED_INACTIVE" ]

(* Mutant: the command appends without removing the period's old record.   *)
WithCandidate_Appended(records, b) == records \cup {b}
(* The operator's binding replaces the one of the same period.             *)
WithCandidate(records, b) ==
  {r \in records : ~(r.factory = b.factory /\ r.period = b.period)} \cup {b}

(* Mutant: the uniqueness of the active binding is left to the operator.   *)
UniqueActive_Trusted(records, f) == TRUE
UniqueActive(records, f) == \E b \in records : Actives(records, f) = {b}

(* manage_costing_bindings --write.                                        *)
Bind(w, f, p, active) ==
  LET records == WithCandidate(Records(file), Candidate(f, p, active))
  IN  /\ Admit(w)
      /\ active => UniqueActive(records, f)
      /\ pending' = [pending EXCEPT ![w] = records]
      /\ Goto(w, "save")
      /\ wanted' = [wanted EXCEPT ![w] = None]
      /\ UNCHANGED <<file, left, cache>>

(* os.replace, whatever the file has become since it was read.             *)
Save(w) ==
  /\ pc[w] = "save"
  /\ file' = pending[w]
  /\ seen' = [v \in Workers |-> seen[v] \cup pending[w]]
  /\ pending' = [pending EXCEPT ![w] = None]
  /\ Goto(w, AfterDiscovery(w))
  /\ UNCHANGED <<left, wanted, cache, answer, requests>>

(* An error outside the period logic: it ends one product of a calculation.*)
FailProduct(w) ==
  /\ pc[w] # "idle" /\ left[w] > 0
  /\ Finish(w, None)
  /\ UNCHANGED <<file, cache>>

(* The write fails outside a calculation, or the process dies.             *)
Abandon(w) ==
  /\ pc[w] # "idle"
  /\ Goto(w, "idle")
  /\ left' = [left EXCEPT ![w] = 0]
  /\ pending' = [pending EXCEPT ![w] = None]
  /\ answer' = [answer EXCEPT ![w] = None]
  /\ UNCHANGED <<file, wanted, cache, seen, requests>>

-----------------------------------------------------------------------------
Step(w) ==
  \/ \E n \in 1..MaxProducts : StartCosts(w, n)
  \/ \E want \in Wanted : Load(w, want)
  \/ \E f \in Factories : StartDiscovery(w, f) \/ Approve(w, f)
  \/ Discover(w) \/ Reload(w) \/ Save(w) \/ FailProduct(w)
  \/ Abandon(w)
  \/ \E f \in Factories, p \in Periods, active \in BOOLEAN : Bind(w, f, p, active)

Next == \E w \in Workers : Step(w)

Spec == Init /\ [][Next]_vars

-----------------------------------------------------------------------------
(* Properties.                                                             *)

(* Although writers overwrite each other, the file never makes two periods *)
(* of a factory active: every file installed is a consistent change of     *)
(* some consistent file, if not of the last one.                           *)
OneActive == OneActiveIn(file)

(* Nor does it ever hold two records of one period, which every reader     *)
(* that counts records would refuse.                                       *)
OnePerPeriod == OnePerPeriodIn(file)

(* A product is answered under a binding that was in the file at some time *)
(* during the request: no loader serves a period that was gone before.     *)
AnswersAreCurrent ==
  \A w \in Workers : answer[w] # None => answer[w] \in seen[w]

(* docs/pr05-5-cost-calculation-runbook.md:79: when any period already     *)
(* exists for a factory, no other record is created or activated.  Writing *)
(* the same first period once more would not matter.                       *)
FirstPeriodOnly ==
  [][\A w \in Workers :
       LET f == wanted[w].factory
       IN  Save(w) /\ wanted[w] # None =>
             Of(file, f) \subseteq {InitialBinding(f)}]_vars
=============================================================================
