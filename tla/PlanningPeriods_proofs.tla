----------------------- MODULE PlanningPeriods_proofs -----------------------
(***************************************************************************)
(* Proofs about PlanningPeriods, for any number of requests, commands,     *)
(* factories and periods: whichever writer overwrites which, the file      *)
(* never contradicts itself.                                               *)
(***************************************************************************)
EXTENDS PlanningPeriods, TLAPS

Consistent(document) == OneActiveIn(document) /\ OnePerPeriodIn(document)

(* What a writer needs to know of its own state and of the file.           *)
FileType == file \in {Missing} \cup SUBSET Binding
WorkerType(w) ==
  /\ pc[w] = "save" => pending[w] \in SUBSET Binding
  /\ pc[w] = "discover" => wanted[w] \in Wanted

(* OneActive alone is not inductive: a step may install a file that was    *)
(* made long before.  Every file waiting to be installed is consistent.    *)
PeriodInv ==
  /\ FileType /\ Consistent(file)
  /\ DOMAIN pc = Workers /\ DOMAIN pending = Workers /\ DOMAIN wanted = Workers
  /\ \A w \in Workers : WorkerType(w)
  /\ \A w \in Workers : pc[w] = "save" => Consistent(pending[w])

-----------------------------------------------------------------------------
(* The three changes a writer makes to a consistent file.                  *)

LEMMA RecordsType ==
  ASSUME FileType
  PROVE  Records(file) \in SUBSET Binding
  BY DEF FileType, Records

(* A set of bindings is never the marker of an absent file.                *)
LEMMA RecordsOf ==
  ASSUME NEW records \in SUBSET Binding
  PROVE  Records(records) = records
  BY PeriodsAssumption DEF PeriodsAssumption, Records

LEMMA InitialIsBinding ==
  ASSUME NEW f \in Factories
  PROVE  InitialBinding(f) \in Binding
  BY PeriodsAssumption DEF PeriodsAssumption, InitialBinding, Binding

(* Discovery adds the first record of a factory.                           *)
LEMMA FirstRecord ==
  ASSUME FileType, Consistent(file), NEW f \in Factories, Of(file, f) = {}
  PROVE  LET new == Records(file) \cup {InitialBinding(f)}
         IN  new \in SUBSET Binding /\ Consistent(new)
  <1> DEFINE new == Records(file) \cup {InitialBinding(f)}
  <1>1. new \in SUBSET Binding
    BY RecordsType, InitialIsBinding
  <1>2. Records(new) = new
    BY <1>1, RecordsOf
  <1>3. \A b \in Records(file) : b.factory # f
    BY DEF Of
  <1>4. InitialBinding(f).factory = f
    BY DEF InitialBinding
  <1>5. OneActiveIn(new)
    BY <1>2, <1>3, <1>4 DEF Consistent, OneActiveIn, Actives, Of
  <1>6. OnePerPeriodIn(new)
    BY <1>2, <1>3, <1>4 DEF Consistent, OnePerPeriodIn
  <1>. QED
    BY <1>1, <1>5, <1>6 DEF Consistent

(* Approval turns the one first period of a factory without an active      *)
(* binding into an active one.                                             *)
LEMMA ApprovedRecord ==
  ASSUME FileType, Consistent(file), NEW f \in Factories,
         NEW draft \in Of(file, f), Actives(file, f) = {},
         {b \in Of(file, f) : b.period = Initial} = {draft}
  PROVE  LET new == (Records(file) \ {draft}) \cup {InitialBinding(f)}
         IN  new \in SUBSET Binding /\ Consistent(new)
  <1> DEFINE new == (Records(file) \ {draft}) \cup {InitialBinding(f)}
  <1>1. new \in SUBSET Binding
    BY RecordsType, InitialIsBinding
  <1>2. Records(new) = new
    BY <1>1, RecordsOf
  <1>3. InitialBinding(f).factory = f /\ InitialBinding(f).period = Initial
    BY DEF InitialBinding
  <1>4. \A b \in Records(file) \ {draft} :
          b.factory = f => b.period # Initial /\ b.status # "ACTIVE"
    BY DEF Of, Actives
  <1>5. OneActiveIn(new)
    BY <1>2, <1>3, <1>4 DEF Consistent, OneActiveIn, Actives, Of
  <1>6. OnePerPeriodIn(new)
    BY <1>2, <1>3, <1>4 DEF Consistent, OnePerPeriodIn
  <1>. QED
    BY <1>1, <1>5, <1>6 DEF Consistent

(* The operator's command replaces the record of one period, and checks    *)
(* that an active one is the only one.                                     *)
LEMMA BoundRecord ==
  ASSUME FileType, Consistent(file), NEW f \in Factories, NEW p \in Periods,
         NEW active \in BOOLEAN,
         active => UniqueActive(WithCandidate(Records(file),
                                              Candidate(f, p, active)), f)
  PROVE  LET new == WithCandidate(Records(file), Candidate(f, p, active))
         IN  new \in SUBSET Binding /\ Consistent(new)
  <1> DEFINE candidate == Candidate(f, p, active)
             new == WithCandidate(Records(file), candidate)
  <1>1. /\ candidate \in Binding /\ candidate.factory = f
        /\ candidate.period = p /\ (candidate.status = "ACTIVE" <=> active)
    BY DEF Candidate, Binding
  <1>2. new \in SUBSET Binding
    BY <1>1, RecordsType DEF WithCandidate
  <1>3. Records(new) = new
    BY <1>2, RecordsOf
  <1>4. \A b \in new : b # candidate =>
          b \in Records(file) /\ ~(b.factory = f /\ b.period = p)
    BY <1>1 DEF WithCandidate
  <1>5. OnePerPeriodIn(new)
    BY <1>1, <1>3, <1>4 DEF Consistent, OnePerPeriodIn
  <1>6. ASSUME NEW g \in Factories, NEW a \in Actives(new, g),
               NEW b \in Actives(new, g)
        PROVE  a = b
    <2>1. CASE active /\ g = f
      BY <1>6, <2>1 DEF UniqueActive
    <2>2. CASE ~(active /\ g = f)
      <3>1. a # candidate /\ b # candidate
        BY <1>1, <1>3, <1>6, <2>2 DEF Actives, Of
      <3>2. a \in Actives(file, g) /\ b \in Actives(file, g)
        BY <1>3, <1>4, <1>6, <3>1 DEF Actives, Of
      <3>. QED
        BY <3>2 DEF Consistent, OneActiveIn
    <2>. QED
      BY <2>1, <2>2
  <1>. QED
    BY <1>2, <1>5, <1>6 DEF Consistent, OneActiveIn

-----------------------------------------------------------------------------
(* The steps.                                                              *)

LEMMA InitPeriods == Init => PeriodInv
  BY PeriodsAssumption
  DEF Init, PeriodInv, FileType, WorkerType, Consistent, PeriodsAssumption

(* A step that leaves the file alone and makes no new file ready.          *)
LEMMA NothingPrepared ==
  ASSUME PeriodInv, NEW w \in Workers, NEW phase \in Phases \ {"save"},
         Goto(w, phase), file' = file,
         phase = "discover" => wanted'[w] \in Wanted,
         DOMAIN pending' = Workers, DOMAIN wanted' = Workers,
         \A v \in Workers : v # w =>
           pending'[v] = pending[v] /\ wanted'[v] = wanted[v]
  PROVE  PeriodInv'
  <1>1. DOMAIN pc' = Workers /\ pc'[w] = phase
    BY DEF PeriodInv, Goto
  <1>2. ASSUME NEW v \in Workers
        PROVE  WorkerType(v)' /\ (pc'[v] = "save" => Consistent(pending'[v]))
    <2>1. CASE v = w
      BY <1>1, <2>1 DEF WorkerType
    <2>2. CASE v # w
      BY <2>2 DEF PeriodInv, WorkerType, Goto
    <2>. QED
      BY <2>1, <2>2
  <1>3. FileType' /\ Consistent(file')
    BY DEF PeriodInv, FileType
  <1>. QED
    BY <1>1, <1>2, <1>3
    DEF PeriodInv, Consistent, OneActiveIn, OnePerPeriodIn, Actives, Of, Records

(* A step that makes a consistent file ready to be installed.              *)
LEMMA Prepared ==
  ASSUME PeriodInv, NEW w \in Workers, NEW new \in SUBSET Binding,
         Consistent(new), Goto(w, "save"),
         pending' = [pending EXCEPT ![w] = new], file' = file,
         DOMAIN wanted' = Workers,
         \A v \in Workers : v # w => wanted'[v] = wanted[v]
  PROVE  PeriodInv'
  <1>1. DOMAIN pc' = Workers /\ pc'[w] = "save" /\ pending'[w] = new
    BY DEF PeriodInv, Goto
  <1>2. ASSUME NEW v \in Workers
        PROVE  WorkerType(v)' /\ (pc'[v] = "save" => Consistent(pending'[v]))
    <2>1. CASE v = w
      BY <1>1, <2>1 DEF WorkerType
    <2>2. CASE v # w
      BY <2>2 DEF PeriodInv, WorkerType, Goto
    <2>. QED
      BY <2>1, <2>2
  <1>3. FileType' /\ Consistent(file')
    BY DEF PeriodInv, FileType
  <1>. QED
    BY <1>1, <1>2, <1>3
    DEF PeriodInv, Consistent, OneActiveIn, OnePerPeriodIn, Actives, Of, Records

LEMMA SaveInv ==
  ASSUME PeriodInv, NEW w \in Workers, Save(w)
  PROVE  PeriodInv'
  <1>1. pending[w] \in SUBSET Binding /\ Consistent(pending[w])
    BY DEF Save, PeriodInv, WorkerType
  <1>2. /\ file' = pending[w] /\ wanted' = wanted
        /\ pending' = [pending EXCEPT ![w] = None]
        /\ pc' = [pc EXCEPT ![w] = AfterDiscovery(w)]
    BY DEF Save, Goto
  <1>3. FileType' /\ Consistent(file')
    BY <1>1, <1>2 DEF FileType
  <1>4. ASSUME NEW v \in Workers
        PROVE  WorkerType(v)' /\ (pc'[v] = "save" => Consistent(pending'[v]))
    <2>1. CASE v = w
      BY <1>2, <2>1 DEF PeriodInv, WorkerType, AfterDiscovery
    <2>2. CASE v # w
      BY <1>2, <2>2 DEF PeriodInv, WorkerType
    <2>. QED
      BY <2>1, <2>2
  <1>. QED
    BY <1>2, <1>3, <1>4
    DEF PeriodInv, Consistent, OneActiveIn, OnePerPeriodIn, Actives, Of, Records

LEMMA FinishInv ==
  ASSUME PeriodInv, NEW w \in Workers, NEW result, Finish(w, result),
         file' = file
  PROVE  PeriodInv'
  <1>1. PICK phase \in {"load", "idle"} : Goto(w, phase)
    BY DEF Finish
  <1>2. /\ wanted' = wanted /\ pending' = [pending EXCEPT ![w] = None]
        /\ phase \in Phases \ {"save"} /\ phase # "discover"
    BY DEF Finish, Phases
  <1>. QED
    BY <1>1, <1>2, NothingPrepared DEF PeriodInv

LEMMA DiscoverInv ==
  ASSUME PeriodInv, NEW w \in Workers, Discover(w)
  PROVE  PeriodInv'
  <1> DEFINE f == wanted[w].factory
             new == Records(file) \cup {InitialBinding(f)}
  <1>1. file' = file /\ f \in Factories
    BY DEF Discover, PeriodInv, WorkerType, Wanted
  <1>2. CASE Goto(w, "save")
    <2>1. /\ Of(file, f) = {} /\ pending' = [pending EXCEPT ![w] = new]
          /\ wanted' = wanted
      BY <1>2 DEF Discover, Goto, AfterDiscovery, Refuse, Finish, PeriodInv
    <2>2. new \in SUBSET Binding /\ Consistent(new)
      BY <1>1, <2>1, FirstRecord DEF PeriodInv
    <2>. QED
      BY <1>1, <1>2, <2>1, <2>2, Prepared DEF PeriodInv
  <1>3. CASE /\ Goto(w, AfterDiscovery(w)) \/ Goto(w, "idle")
             /\ UNCHANGED <<wanted, pending>>
    <2>1. PICK phase \in {"reload", "idle"} : Goto(w, phase)
      BY <1>3 DEF AfterDiscovery
    <2>2. phase \in Phases \ {"save"} /\ phase # "discover"
      BY DEF Phases
    <2>. QED
      BY <1>1, <1>3, <2>1, <2>2, NothingPrepared DEF PeriodInv
  <1>4. CASE Finish(w, None)
    BY <1>1, <1>4, FinishInv
  <1>. QED
    BY <1>2, <1>3, <1>4 DEF Discover, Refuse

LEMMA StepInv ==
  ASSUME PeriodInv, NEW w \in Workers, Step(w)
  PROVE  PeriodInv'
  <1>1. ASSUME NEW n \in 1..MaxProducts, StartCosts(w, n) PROVE PeriodInv'
    BY <1>1, NothingPrepared DEF StartCosts, PeriodInv, Phases
  <1>2. ASSUME NEW want \in Wanted, Load(w, want) PROVE PeriodInv'
    <2>1. file' = file
      BY <1>2 DEF Load
    <2>2. CASE \E result : Finish(w, result)
      BY <2>1, <2>2, FinishInv
    <2>3. CASE /\ wanted' = [wanted EXCEPT ![w] = want] /\ Goto(w, "discover")
               /\ UNCHANGED pending
      BY <2>1, <2>3, NothingPrepared DEF PeriodInv, Phases
    <2>. QED
      BY <1>2, <2>2, <2>3 DEF Load, FinishUnder
  <1>3. ASSUME NEW f \in Factories, StartDiscovery(w, f) PROVE PeriodInv'
    <2>1. [factory |-> f, period |-> Initial] \in Wanted
      BY PeriodsAssumption DEF PeriodsAssumption, Wanted
    <2>. QED
      BY <1>3, <2>1, NothingPrepared DEF StartDiscovery, PeriodInv, Phases
  <1>4. ASSUME NEW f \in Factories, Approve(w, f) PROVE PeriodInv'
    <2>1. PICK draft \in Of(file, f) :
            /\ {b \in Of(file, f) : b.period = Initial} = {draft}
            /\ Actives(file, f) = {}
            /\ pending' = [pending EXCEPT ![w] =
                  (Records(file) \ {draft}) \cup {InitialBinding(f)}]
      BY <1>4 DEF Approve
    <2> DEFINE new == (Records(file) \ {draft}) \cup {InitialBinding(f)}
    <2>2. new \in SUBSET Binding /\ Consistent(new)
      BY <2>1, ApprovedRecord DEF PeriodInv
    <2>3. /\ Goto(w, "save") /\ file' = file
          /\ wanted' = [wanted EXCEPT ![w] = None]
      BY <1>4 DEF Approve
    <2>. QED
      BY <2>1, <2>2, <2>3, Prepared DEF PeriodInv
  <1>5. CASE Discover(w)
    BY <1>5, DiscoverInv
  <1>6. CASE Reload(w)
    <2>1. file' = file /\ \E result : Finish(w, result)
      BY <1>6 DEF Reload, FinishUnder
    <2>. QED
      BY <2>1, FinishInv
  <1>7. CASE Save(w)
    BY <1>7, SaveInv
  <1>8. CASE FailProduct(w)
    BY <1>8, FinishInv DEF FailProduct
  <1>9. CASE Abandon(w)
    BY <1>9, NothingPrepared DEF Abandon, PeriodInv, Phases
  <1>10. ASSUME NEW f \in Factories, NEW p \in Periods, NEW active \in BOOLEAN,
                Bind(w, f, p, active)
         PROVE  PeriodInv'
    <2> DEFINE new == WithCandidate(Records(file), Candidate(f, p, active))
    <2>1. /\ active => UniqueActive(new, f)
          /\ pending' = [pending EXCEPT ![w] = new]
          /\ Goto(w, "save") /\ file' = file
          /\ wanted' = [wanted EXCEPT ![w] = None]
      BY <1>10 DEF Bind
    <2>2. new \in SUBSET Binding /\ Consistent(new)
      BY <2>1, BoundRecord DEF PeriodInv
    <2>. QED
      BY <2>1, <2>2, Prepared DEF PeriodInv
  <1>. QED
    BY <1>1, <1>2, <1>3, <1>4, <1>5, <1>6, <1>7, <1>8, <1>9, <1>10 DEF Step

LEMMA PeriodsInductive == Spec => []PeriodInv
  <1>1. Init => PeriodInv
    BY InitPeriods
  <1>2. PeriodInv /\ [Next]_vars => PeriodInv'
    <2>1. PeriodInv /\ Next => PeriodInv'
      BY StepInv DEF Next
    <2>2. PeriodInv /\ UNCHANGED vars => PeriodInv'
      BY DEF vars, PeriodInv, FileType, WorkerType, Consistent, OneActiveIn,
             OnePerPeriodIn, Actives, Of, Records
    <2>. QED
      BY <2>1, <2>2
  <1>. QED
    BY <1>1, <1>2, PTL DEF Spec

(* However many requests and commands read and replace the binding file    *)
(* without a lock, and whoever is overwritten, no factory ever has two     *)
(* active periods.                                                         *)
THEOREM OneActivePeriod == Spec => []OneActive
  <1>1. PeriodInv => OneActive
    BY DEF PeriodInv, Consistent, OneActive
  <1>. QED
    BY <1>1, PeriodsInductive, PTL

(* Nor does the file ever hold two records of one period of a factory.     *)
THEOREM OneRecordPerPeriod == Spec => []OnePerPeriod
  <1>1. PeriodInv => OnePerPeriod
    BY DEF PeriodInv, Consistent, OnePerPeriod
  <1>. QED
    BY <1>1, PeriodsInductive, PTL

-----------------------------------------------------------------------------
(* Answers.  A request under way has seen all that is in the file now and  *)
(* all that its loader keeps; what a loader kept from an earlier request   *)
(* is out of reach, for only a new calculation has products left.          *)
Asking(w) ==
  /\ left[w] \in Nat
  /\ pc[w] = "idle" => left[w] = 0
  /\ pc[w] \in {"load", "reload"} => left[w] > 0
  /\ pc[w] # "idle" => Records(file) \subseteq seen[w]
  /\ left[w] > 0 /\ cache[w] # None =>
       cache[w] \in SUBSET Binding /\ cache[w] \subseteq seen[w]
  /\ answer[w] # None => answer[w] \in seen[w]

AskingInv ==
  /\ DOMAIN left = Workers /\ DOMAIN cache = Workers
  /\ DOMAIN answer = Workers /\ DOMAIN seen = Workers
  /\ \A w \in Workers : Asking(w)

(* A worker that leaves the file alone disturbs no other.                  *)
LEMMA OthersKeepAsking ==
  ASSUME PeriodInv, AskingInv, NEW w \in Workers, NEW phase, Goto(w, phase),
         file' = file, Asking(w)',
         DOMAIN left' = Workers, DOMAIN cache' = Workers,
         DOMAIN answer' = Workers, DOMAIN seen' = Workers,
         \A v \in Workers : v # w =>
           /\ left'[v] = left[v] /\ cache'[v] = cache[v]
           /\ answer'[v] = answer[v] /\ seen'[v] = seen[v]
  PROVE  AskingInv'
  <1>1. ASSUME NEW v \in Workers, v # w PROVE Asking(v)'
    <2>1. pc'[v] = pc[v]
      BY <1>1 DEF PeriodInv, Goto
    <2>2. Asking(v)
      BY <1>1 DEF AskingInv
    <2>. QED
      BY <1>1, <2>1, <2>2 DEF Asking, Records
  <1>. QED
    BY <1>1 DEF AskingInv

(* The end of a product, under a binding of the file or of the cache.      *)
LEMMA FinishAsking ==
  ASSUME PeriodInv, AskingInv, NEW w \in Workers, left[w] > 0, pc[w] # "idle",
         NEW result, result = None \/ result \in seen[w],
         Finish(w, result), file' = file, DOMAIN cache' = Workers,
         cache'[w] # None =>
           cache'[w] \in SUBSET Binding /\ cache'[w] \subseteq seen[w],
         \A v \in Workers : v # w => cache'[v] = cache[v]
  PROVE  AskingInv'
  <1> DEFINE phase == IF left[w] > 1 THEN "load" ELSE "idle"
  <1>1. /\ Goto(w, phase) /\ seen' = seen
        /\ answer' = [answer EXCEPT ![w] = result]
        /\ left' = [left EXCEPT ![w] = left[w] - 1]
    BY DEF Finish
  <1>2. /\ pc'[w] = phase /\ seen'[w] = seen[w] /\ answer'[w] = result
        /\ left'[w] = left[w] - 1
    BY <1>1 DEF PeriodInv, AskingInv, Goto
  <1>3. Asking(w) /\ Records(file)' = Records(file)
    BY DEF AskingInv, Records
  <1>4. Asking(w)'
    BY <1>2, <1>3 DEF Asking
  <1>. HIDE DEF phase
  <1>. QED
    BY <1>1, <1>4, OthersKeepAsking DEF AskingInv

(* A step to another phase alone.                                          *)
LEMMA GotoAsking ==
  ASSUME PeriodInv, AskingInv, NEW w \in Workers, NEW phase, Goto(w, phase),
         pc[w] # "idle", phase = "idle" => left[w] = 0,
         phase \in {"load", "reload"} => left[w] > 0,
         file' = file, UNCHANGED <<left, cache, answer, seen>>
  PROVE  AskingInv'
  <1>1. Asking(w) /\ Records(file)' = Records(file) /\ pc'[w] = phase
    BY DEF PeriodInv, AskingInv, Records, Goto
  <1>2. Asking(w)'
    BY <1>1 DEF Asking
  <1>. QED
    BY <1>2, OthersKeepAsking DEF AskingInv

(* A request admitted by a worker that was idle.                           *)
LEMMA AdmitAsking ==
  ASSUME PeriodInv, AskingInv, NEW w \in Workers, Admit(w),
         NEW phase \in {"discover", "save"}, Goto(w, phase),
         file' = file, UNCHANGED <<left, cache>>
  PROVE  AskingInv'
  <1>1. Asking(w) /\ Records(file)' = Records(file)
    BY DEF AskingInv, Records
  <1>2. /\ pc'[w] = phase /\ seen'[w] = Records(file) /\ answer'[w] = None
        /\ left'[w] = 0
    BY <1>1 DEF PeriodInv, AskingInv, Admit, Goto, Asking
  <1>3. Asking(w)'
    BY <1>1, <1>2 DEF Asking
  <1>. QED
    BY <1>3, OthersKeepAsking DEF AskingInv, Admit

(* The file is replaced by bindings that everyone is now said to have seen.*)
LEMMA SaveAsking ==
  ASSUME PeriodInv, AskingInv, NEW w \in Workers, Save(w)
  PROVE  AskingInv'
  <1>1. Records(file)' = pending[w]
    <2>1. pending[w] \in SUBSET Binding
      BY DEF Save, PeriodInv, WorkerType
    <2>. QED
      BY <2>1, RecordsOf DEF Save, Records
  <1>2. /\ UNCHANGED <<left, cache, answer>>
        /\ seen' = [v \in Workers |-> seen[v] \cup pending[w]]
        /\ pc' = [pc EXCEPT ![w] = AfterDiscovery(w)]
    BY DEF Save, Goto
  <1>3. ASSUME NEW v \in Workers PROVE Asking(v)'
    <2>1. Asking(v) /\ seen'[v] = seen[v] \cup pending[w]
      BY <1>2 DEF AskingInv
    <2>2. pc'[v] = pc[v] \/ (v = w /\ pc'[v] = AfterDiscovery(v))
      BY <1>2 DEF PeriodInv
    <2>3. pc'[v] = "idle" => left[v] = 0
      BY <2>1, <2>2 DEF Asking, AfterDiscovery
    <2>4. pc'[v] \in {"load", "reload"} => left[v] > 0
      BY <2>1, <2>2 DEF Asking, AfterDiscovery
    <2>. QED
      BY <1>1, <1>2, <2>1, <2>3, <2>4 DEF Asking
  <1>. QED
    BY <1>2, <1>3 DEF AskingInv


LEMMA StepAsking ==
  ASSUME PeriodInv, AskingInv, NEW w \in Workers, Step(w)
  PROVE  AskingInv'
  <1>. Asking(w)
    BY DEF AskingInv
  <1>1. ASSUME NEW n \in 1..MaxProducts, StartCosts(w, n) PROVE AskingInv'
    <2>1. /\ pc'[w] = "load" /\ left'[w] = n /\ cache'[w] = None
          /\ answer'[w] = None /\ seen'[w] = Records(file) /\ file' = file
      BY <1>1 DEF StartCosts, Admit, NewLoader, Goto, PeriodInv, AskingInv
    <2>2. n \in Nat /\ n > 0
      BY PeriodsAssumption DEF PeriodsAssumption
    <2>3. Asking(w)'
      BY <2>1, <2>2 DEF Asking, Records
    <2>. QED
      BY <1>1, <2>1, <2>3, OthersKeepAsking
      DEF StartCosts, Admit, NewLoader, AskingInv
  <1>2. ASSUME NEW want \in Wanted, Load(w, want) PROVE AskingInv'
    <2> DEFINE document == IF cache[w] = None THEN file ELSE cache[w]
               matches == Matches(document, want)
               kept == IF document = Missing THEN None ELSE document
    <2>1. /\ pc[w] = "load" /\ left[w] > 0 /\ file' = file
          /\ cache' = [cache EXCEPT ![w] = kept]
      BY <1>2 DEF Load, Asking
    <2>2. Records(document) \subseteq seen[w]
      <3>1. CASE cache[w] = None
        BY <2>1, <3>1 DEF Asking
      <3>2. CASE cache[w] # None
        BY <2>1, <3>2, RecordsOf DEF Asking
      <3>. QED
        BY <3>1, <3>2
    <2>3. kept # None => kept \in SUBSET Binding /\ kept = Records(document)
      BY <2>1 DEF Asking, Records, PeriodInv, FileType
    <2>4. matches \subseteq seen[w]
      BY <2>2 DEF Matches, Actives, Of
    <2>5. /\ cache'[w] = kept /\ DOMAIN cache' = Workers
          /\ \A v \in Workers : v # w => cache'[v] = cache[v]
      BY <2>1 DEF AskingInv
    <2>6. ASSUME NEW result \in matches \cup {None}, Finish(w, result)
          PROVE  AskingInv'
      BY <2>1, <2>2, <2>3, <2>4, <2>5, <2>6, FinishAsking
    <2>7. CASE Goto(w, "discover") /\ UNCHANGED <<left, answer, seen>>
      <3>1. /\ pc'[w] = "discover" /\ left'[w] = left[w]
            /\ answer'[w] = answer[w] /\ seen'[w] = seen[w]
        BY <2>7 DEF PeriodInv, Goto
      <3>2. Asking(w)'
        BY <2>1, <2>2, <2>3, <2>5, <3>1 DEF Asking, Records
      <3>. QED
        BY <2>1, <2>5, <2>7, <3>2, OthersKeepAsking DEF AskingInv
    <2>. QED
      BY <1>2, <2>6, <2>7 DEF Load, FinishUnder
  <1>3. ASSUME NEW f \in Factories, StartDiscovery(w, f) PROVE AskingInv'
    BY <1>3, AdmitAsking DEF StartDiscovery
  <1>4. ASSUME NEW f \in Factories, Approve(w, f) PROVE AskingInv'
    BY <1>4, AdmitAsking DEF Approve
  <1>5. CASE Discover(w)
    <2>1. pc[w] = "discover" /\ file' = file /\ cache' = cache
      BY <1>5 DEF Discover
    <2>2. CASE left[w] > 0 /\ Finish(w, None)
      BY <2>1, <2>2, FinishAsking DEF Asking, AskingInv
    <2>3. CASE /\ Goto(w, AfterDiscovery(w)) \/ Goto(w, "save")
               /\ UNCHANGED <<left, answer, seen>>
      <3>1. PICK phase \in {AfterDiscovery(w), "save"} : Goto(w, phase)
        BY <2>3
      <3>2. /\ phase = "idle" => left[w] = 0
            /\ phase \in {"load", "reload"} => left[w] > 0
        BY DEF AfterDiscovery, Asking
      <3>. QED
        BY <2>1, <2>3, <3>1, <3>2, GotoAsking
    <2>4. CASE /\ left[w] = 0 /\ Goto(w, "idle")
               /\ UNCHANGED <<left, answer, seen>>
      BY <2>1, <2>4, GotoAsking
    <2>. QED
      BY <1>5, <2>2, <2>3, <2>4 DEF Discover, Refuse, Asking
  <1>6. CASE Reload(w)
    <2>1. /\ pc[w] = "reload" /\ left[w] > 0 /\ file' = file /\ cache' = cache
      BY <1>6 DEF Reload, Asking
    <2>2. Matches(file, wanted[w]) \subseteq seen[w]
      BY <2>1 DEF Matches, Actives, Of, Asking
    <2>3. PICK result \in Matches(file, wanted[w]) \cup {None} : Finish(w, result)
      BY <1>6 DEF Reload, FinishUnder
    <2>. QED
      BY <2>1, <2>2, <2>3, FinishAsking DEF Asking, AskingInv
  <1>7. CASE Save(w)
    BY <1>7, SaveAsking
  <1>8. CASE FailProduct(w)
    BY <1>8, FinishAsking DEF FailProduct, Asking, AskingInv
  <1>9. CASE Abandon(w)
    <2>1. /\ pc'[w] = "idle" /\ left'[w] = 0 /\ answer'[w] = None
      BY <1>9 DEF Abandon, Goto, PeriodInv, AskingInv
    <2>2. Asking(w)'
      BY <2>1 DEF Asking
    <2>. QED
      BY <1>9, <2>2, OthersKeepAsking DEF Abandon, AskingInv
  <1>10. ASSUME NEW f \in Factories, NEW p \in Periods, NEW active \in BOOLEAN,
                Bind(w, f, p, active)
         PROVE  AskingInv'
    BY <1>10, AdmitAsking DEF Bind
  <1>. QED
    BY <1>1, <1>2, <1>3, <1>4, <1>5, <1>6, <1>7, <1>8, <1>9, <1>10 DEF Step

(* A calculation answers only under a binding that was in the file at some *)
(* time during the request: the file may be replaced while it runs, and    *)
(* its loader keeps what it read, but no loader outlives its request.      *)
THEOREM AnswersAlwaysCurrent == Spec => []AnswersAreCurrent
  <1>1. Init => AskingInv
    BY DEF Init, AskingInv, Asking
  <1>2. PeriodInv /\ AskingInv /\ [Next]_vars => AskingInv'
    <2>1. PeriodInv /\ AskingInv /\ Next => AskingInv'
      BY StepAsking DEF Next
    <2>2. AskingInv /\ UNCHANGED vars => AskingInv'
      BY DEF vars, AskingInv, Asking, Records
    <2>. QED
      BY <2>1, <2>2
  <1>3. AskingInv => AnswersAreCurrent
    BY DEF AskingInv, Asking, AnswersAreCurrent
  <1>. QED
    BY <1>1, <1>2, <1>3, PeriodsInductive, PTL DEF Spec
=============================================================================
