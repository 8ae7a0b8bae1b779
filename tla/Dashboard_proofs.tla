-------------------------- MODULE Dashboard_proofs --------------------------
(***************************************************************************)
(* Proofs about Dashboard, for any documents, users, drafts and number of  *)
(* requests under way: however late and out of order the answers come, the *)
(* page shows what it is asked for, a scenario costs what an edit of the   *)
(* documents would, and a report adds up.                                  *)
(***************************************************************************)
EXTENDS Dashboard, CostFormula_proofs

KindsOf(t) == IF t = "cost" THEN {"options", "analysis"}
                            ELSE {"options", "registry", "scenario"}
Shaped(fl) ==
  /\ DOMAIN fl = {"kind", "factory", "product", "draft", "answer", "current"}
  /\ fl.current \in BOOLEAN /\ fl.kind \in KindsOf(tab)

(* Everything that could invalidate an awaited request cancels it: it is   *)
(* for what is selected, and nothing is shown that its answer replaces.    *)
Awaited(fl) ==
  /\ accepted = None /\ fl.factory = factory
  /\ fl.kind # "options" => fl.product = product
  /\ fl.kind = "options" => offered = None /\ product = None /\ context = None
  /\ fl.kind = "scenario" => context # None /\ fl.draft = draft

(* At most one request is awaited, of all kinds together.                  *)
FlightsInv ==
  /\ \A fl \in flights : Shaped(fl) /\ (fl.current => Awaited(fl))
  /\ \A fl, gl \in flights : fl.current /\ gl.current => fl = gl

(* The invariants, with what a snapshot is needed for.                     *)
PageInv ==
  /\ tab = "cost" => context = None
  /\ draft = [x \in DOMAIN draft |-> draft[x]]
  /\ context = None => draft = <<>>
  /\ accepted # None => accepted.answer # None
  /\ ShownIsCurrent /\ DraftsAreOffered /\ RefusalClears /\ NoSilentSelection

DashboardInv == tab \in Tabs /\ FlightsInv /\ PageInv

-----------------------------------------------------------------------------
(* Requests.                                                               *)

(* Cancelling leaves the awaited requests of the other kinds.              *)
LEMMA CancelledFlights ==
  ASSUME NEW S, NEW kinds, \A fl \in S : Shaped(fl)
  PROVE  \A gl \in Cancelled(kinds, S) :
           Shaped(gl) /\ (gl.current => gl \in S /\ gl.kind \notin kinds)
  <1> SUFFICES ASSUME NEW fl \in S, NEW gl,
                      gl = IF fl.kind \in kinds THEN [fl EXCEPT !.current = FALSE]
                                                ELSE fl
               PROVE  Shaped(gl) /\ (gl.current => gl \in S /\ gl.kind \notin kinds)
    BY DEF Cancelled
  <1>1. CASE fl.kind \in kinds
    BY <1>1 DEF Shaped
  <1>2. CASE fl.kind \notin kinds
    BY <1>2
  <1>. QED
    BY <1>1, <1>2

LEMMA KeptFlights ==
  ASSUME NEW S, NEW kinds, NEW fl \in S, fl.kind \notin kinds
  PROVE  fl \in Cancelled(kinds, S)
  BY DEF Cancelled

(* No request of a set is awaited any more.                                *)
Quiet(S) == \A gl \in S : Shaped(gl) /\ ~gl.current

LEMMA QuietInvalidated ==
  ASSUME FlightsInv,
         \A fl \in flights : fl.current => fl.kind \in {"scenario", "analysis"}
  PROVE  Quiet(Invalidated(flights))
  BY CancelledFlights DEF FlightsInv, Quiet, Invalidated

LEMMA QuietCancelled ==
  ASSUME FlightsInv, NEW kinds,
         \A fl \in flights :
           fl.current => fl.kind \in kinds \cup {"scenario", "analysis"}
  PROVE  Quiet(Cancelled(kinds, Invalidated(flights)))
  <1>1. \A gl \in Invalidated(flights) :
          /\ Shaped(gl)
          /\ gl.current => gl \in flights /\ gl.kind \notin {"scenario", "analysis"}
    BY CancelledFlights DEF FlightsInv, Invalidated
  <1>2. \A gl \in Cancelled(kinds, Invalidated(flights)) :
          /\ Shaped(gl)
          /\ gl.current => gl \in Invalidated(flights) /\ gl.kind \notin kinds
    BY <1>1, CancelledFlights
  <1>. QED
    BY <1>1, <1>2 DEF Quiet

(* A request is sent when no other is awaited.                             *)
LEMMA SentFlight ==
  ASSUME NEW S, Quiet(S), tab' = tab, NEW kind \in KindsOf(tab),
         NEW f, NEW p, NEW d, flights' = S \cup Sent(kind, f, p, d),
         accepted' = None, f = factory', kind # "options" => p = product',
         kind = "options" => offered' = None /\ product' = None /\ context' = None,
         kind = "scenario" => context' # None /\ d = draft'
  PROVE  FlightsInv' /\ Loading(kind)'
  <1> DEFINE new == [kind |-> kind, factory |-> f, product |-> p, draft |-> d,
                     answer |-> None, current |-> TRUE]
  <1>1. Sent(kind, f, p, d) = {new}
    BY DEF Sent
  <1>2. Shaped(new)' /\ Awaited(new)' /\ new.current /\ new.kind = kind
    BY DEF Shaped, Awaited
  <1>3. \A gl \in S : Shaped(gl)' /\ ~gl.current
    BY DEF Quiet, Shaped
  <1>. QED
    BY <1>1, <1>2, <1>3 DEF FlightsInv, Loading

(* A set of requests none of which is awaited.                             *)
LEMMA QuietPage ==
  ASSUME NEW S, Quiet(S), tab' = tab, flights' = S
  PROVE  FlightsInv'
  BY DEF FlightsInv, Quiet, Shaped

(* Nobody's request: the awaited one stays, and what it is awaited for.    *)
LEMMA SamePage ==
  ASSUME DashboardInv, UNCHANGED <<selects, shown>>, FlightsInv',
         Loading("registry") => Loading("registry")'
  PROVE  DashboardInv'
  BY DEF DashboardInv, PageInv, selects, shown, ShownIsCurrent, DraftsAreOffered,
         Offered, RefusalClears, NoSilentSelection, Complete

LEMMA Answered ==
  ASSUME DashboardInv, NEW fl \in flights, NEW x,
         flights' = (flights \ {fl}) \cup {[fl EXCEPT !.answer = x]},
         UNCHANGED <<selects, shown>>
  PROVE  DashboardInv'
  <1> DEFINE gl == [fl EXCEPT !.answer = x]
  <1>1. /\ Shaped(gl)' /\ gl.current = fl.current /\ gl.kind = fl.kind
        /\ gl.factory = fl.factory /\ gl.product = fl.product
        /\ gl.draft = fl.draft
    BY DEF DashboardInv, FlightsInv, Shaped, selects
  <1>. HIDE DEF gl
  <1>2. gl.current => Awaited(gl)'
    BY <1>1 DEF DashboardInv, FlightsInv, Awaited, selects, shown
  <1>3. \A hl \in flights : Shaped(hl)' /\ (hl.current => Awaited(hl)')
    BY DEF DashboardInv, FlightsInv, Shaped, Awaited, selects, shown
  <1>4. flights' = (flights \ {fl}) \cup {gl}
    BY DEF gl
  <1>5. FlightsInv'
    BY <1>1, <1>2, <1>3, <1>4 DEF DashboardInv, FlightsInv
  <1>6. Loading("registry") => Loading("registry")'
    BY <1>1, <1>4 DEF Loading
  <1>. QED
    BY <1>5, <1>6, SamePage

(* What is dropped was not awaited.                                        *)
LEMMA IgnoreInv ==
  ASSUME DashboardInv, NEW fl \in flights, Ignore(fl)
  PROVE  DashboardInv'
  <1>1. ~fl.current
    BY DEF DashboardInv, FlightsInv, Awaited, Ignore, IsAwaited
  <1>2. flights' = flights \ {fl} /\ UNCHANGED <<selects, shown>>
    BY DEF Ignore
  <1>3. FlightsInv'
    BY <1>2 DEF DashboardInv, FlightsInv, Shaped, Awaited, selects, shown
  <1>. QED
    BY <1>1, <1>2, <1>3, SamePage DEF Loading

-----------------------------------------------------------------------------
(* What the user does.                                                     *)

(* Only the options request is awaited while there is nothing to select.   *)
LEMMA NoOptions ==
  ASSUME DashboardInv, offered # None
  PROVE  \A fl \in flights :
           fl.current => fl.kind \in {"registry"} \cup {"scenario", "analysis"}
  BY DEF DashboardInv, FlightsInv, Shaped, Awaited, KindsOf

LEMMA NothingIsShown ==
  ASSUME NothingShown, status' # "refused"
  PROVE  /\ draft' = [x \in DOMAIN draft' |-> draft'[x]]
         /\ context' = None => draft' = <<>>
         /\ accepted' # None => accepted'.answer # None
         /\ ShownIsCurrent' /\ DraftsAreOffered' /\ RefusalClears'
  <1>1. draft' = <<>> /\ context' = None /\ accepted' = None
    BY DEF NothingShown
  <1>2. DOMAIN draft' = {}
    BY <1>1
  <1>3. draft' = [x \in DOMAIN draft' |-> draft'[x]]
    BY <1>1
  <1>. QED
    BY <1>1, <1>2, <1>3 DEF ShownIsCurrent, DraftsAreOffered, RefusalClears

LEMMA ChooseFactoryInv ==
  ASSUME DashboardInv, NEW f \in Factories, ChooseFactory(f)
  PROVE  DashboardInv'
  <1>1. /\ tab' = tab /\ factory' = f /\ product' = None /\ offered' = None
        /\ NothingShown /\ status' = "none"
        /\ accepted' = None /\ context' = None
    BY DEF ChooseFactory, NothingShown
  <1>2. Quiet(Cancelled({"options", "registry"}, Invalidated(flights)))
    <2>1. \A fl \in flights : fl.kind \in
            {"options", "registry"} \cup {"scenario", "analysis"}
      BY DEF DashboardInv, FlightsInv, Shaped, KindsOf
    <2>. QED
      BY <2>1, QuietCancelled DEF DashboardInv
  <1>3. flights' = Cancelled({"options", "registry"}, Invalidated(flights))
                     \cup Sent("options", f, None, <<>>)
    BY DEF ChooseFactory
  <1>4. "options" \in KindsOf(tab)
    BY DEF KindsOf
  <1>5. FlightsInv'
    BY <1>1, <1>2, <1>3, <1>4, SentFlight
  <1>. QED
    BY <1>1, <1>5, NothingIsShown
    DEF DashboardInv, PageInv, NoSilentSelection, Complete

LEMMA ChooseProductInv ==
  ASSUME DashboardInv, NEW p \in Products \cup {All}, ChooseProduct(p)
  PROVE  DashboardInv'
  <1>1. /\ tab' = tab /\ factory' = factory /\ product' = p
        /\ NothingShown /\ status' = "none" /\ offered' = offered /\ offered # None
        /\ accepted' = None /\ context' = None
    BY DEF ChooseProduct, NothingShown
  <1> DEFINE S == Cancelled({"registry"}, Invalidated(flights))
  <1>2. Quiet(S)
    BY <1>1, NoOptions, QuietCancelled DEF DashboardInv
  <1>. HIDE DEF S
  <1>3. CASE tab = "sensitivity"
    <2>1. flights' = S \cup Sent("registry", factory, p, <<>>)
      BY <1>3 DEF ChooseProduct, S
    <2>2. "registry" \in KindsOf(tab)
      BY <1>3 DEF KindsOf
    <2>3. FlightsInv' /\ Loading("registry")'
      BY <1>1, <1>2, <2>1, <2>2, SentFlight
    <2>. QED
      BY <1>1, <1>3, <2>3, NothingIsShown
      DEF DashboardInv, PageInv, NoSilentSelection
  <1>4. CASE tab # "sensitivity"
    <2>1. flights' = S
      BY <1>4 DEF ChooseProduct, S
    <2>2. FlightsInv'
      BY <1>1, <1>2, <2>1, QuietPage
    <2>. QED
      BY <1>1, <1>4, <2>2, NothingIsShown
      DEF DashboardInv, PageInv, NoSilentSelection
  <1>. QED
    BY <1>3, <1>4

LEMMA RefreshInv ==
  ASSUME DashboardInv, Refresh
  PROVE  DashboardInv'
  <1>1. /\ UNCHANGED <<tab, factory, product, offered>> /\ tab = "sensitivity"
        /\ NothingShown /\ status' = "none" /\ offered # None
        /\ accepted' = None /\ context' = None
    BY DEF Refresh, NothingShown, Complete, selects
  <1>2. Quiet(Cancelled({"registry"}, Invalidated(flights)))
    BY <1>1, NoOptions, QuietCancelled DEF DashboardInv
  <1>3. flights' = Cancelled({"registry"}, Invalidated(flights))
                     \cup Sent("registry", factory, product, <<>>)
    BY DEF Refresh
  <1>4. "registry" \in KindsOf(tab)
    BY <1>1 DEF KindsOf
  <1>5. FlightsInv' /\ Loading("registry")'
    BY <1>1, <1>2, <1>3, <1>4, SentFlight
  <1>. QED
    BY <1>1, <1>5, NothingIsShown DEF DashboardInv, PageInv, NoSilentSelection

(* Nothing but what is loading is awaited.                                 *)
LEMMA NothingLoading ==
  ASSUME DashboardInv, ~\E k \in Kinds : Loading(k)
  PROVE  \A fl \in flights : ~fl.current
  BY DEF DashboardInv, FlightsInv, Shaped, KindsOf, Kinds, Loading

LEMMA RunInv ==
  ASSUME DashboardInv, Run
  PROVE  DashboardInv'
  <1>1. /\ UNCHANGED <<tab, factory, product, offered, draft, context>>
        /\ tab = "sensitivity" /\ context # None
        /\ accepted' = None /\ status' = "none"
    BY DEF Run, selects
  <1>2. Quiet(Cancelled({"registry"}, Invalidated(flights)))
    BY NothingLoading, QuietCancelled DEF DashboardInv, Run
  <1>3. flights' = Cancelled({"registry"}, Invalidated(flights))
                     \cup Sent("scenario", factory, product, draft)
    BY DEF Run
  <1>4. "scenario" \in KindsOf(tab)
    BY <1>1 DEF KindsOf
  <1>5. FlightsInv'
    BY <1>1, <1>2, <1>3, <1>4, SentFlight
  <1>. QED
    BY <1>1, <1>5
    DEF DashboardInv, PageInv, ShownIsCurrent, DraftsAreOffered, Offered,
        RefusalClears, NoSilentSelection

LEMMA AnalyzeInv ==
  ASSUME DashboardInv, Analyze
  PROVE  DashboardInv'
  <1>1. /\ UNCHANGED <<tab, factory, product, offered, draft, context>>
        /\ tab = "cost" /\ accepted' = None /\ status' = "none"
    BY DEF Analyze, selects
  <1>2. Quiet(Invalidated(flights))
    BY NothingLoading, QuietInvalidated DEF DashboardInv, Analyze
  <1>3. flights' = Invalidated(flights) \cup Sent("analysis", factory, product, <<>>)
    BY DEF Analyze
  <1>4. "analysis" \in KindsOf(tab)
    BY <1>1 DEF KindsOf
  <1>5. FlightsInv'
    BY <1>1, <1>2, <1>3, <1>4, SentFlight
  <1>. QED
    BY <1>1, <1>5
    DEF DashboardInv, PageInv, ShownIsCurrent, DraftsAreOffered, Offered,
        RefusalClears, NoSilentSelection

(* Every change of the draft needs a snapshot, and cancels what was asked  *)
(* for the draft as it was.                                                *)
LEMMA DraftedInv ==
  ASSUME DashboardInv, NEW d, Drafted(d), context # None,
         d = [x \in DOMAIN d |-> d[x]], DOMAIN d \subseteq Offered
  PROVE  DashboardInv'
  <1>1. /\ UNCHANGED <<tab, factory, product, offered, context>>
        /\ draft' = d /\ accepted' = None /\ status' = "none"
        /\ flights' = Invalidated(flights)
    BY DEF Drafted, selects
  <1>2. \A gl \in flights' :
          /\ Shaped(gl)
          /\ gl.current => gl \in flights /\ gl.kind \notin {"scenario", "analysis"}
    BY <1>1, CancelledFlights DEF DashboardInv, FlightsInv, Invalidated
  <1>3. FlightsInv'
    BY <1>1, <1>2 DEF DashboardInv, FlightsInv, Shaped, Awaited
  <1>. QED
    BY <1>1, <1>3
    DEF DashboardInv, PageInv, ShownIsCurrent, DraftsAreOffered, Offered,
        RefusalClears, NoSilentSelection

LEMMA EmptyDraft ==
  LET d == <<>> IN d = [x \in DOMAIN d |-> d[x]] /\ DOMAIN d = {}
  OBVIOUS

LEMMA DraftInv ==
  ASSUME DashboardInv,
         \/ Reset
         \/ \E param \in Parameters :
              \/ AddDraft(param) \/ RemoveDraft(param)
              \/ \E e \in Entries : EditDraft(param, e)
  PROVE  DashboardInv'
  <1>. DOMAIN draft \subseteq Offered
    BY DEF DashboardInv, PageInv, DraftsAreOffered
  <1>1. CASE Reset
    <2>1. context # None
      <3>1. ASSUME Loading("scenario") PROVE context # None
        BY <3>1 DEF DashboardInv, FlightsInv, Awaited, Loading
      <3>2. ASSUME accepted # None, tab = "sensitivity" PROVE context # None
        BY <3>2 DEF DashboardInv, PageInv, ShownIsCurrent
      <3>. QED
        BY <1>1, <3>1, <3>2 DEF Reset, DashboardInv, PageInv
    <2>. QED
      BY <1>1, <2>1, EmptyDraft, DraftedInv DEF Reset
  <1>2. ASSUME NEW param \in Parameters, AddDraft(param) PROVE DashboardInv'
    BY <1>2, DraftedInv DEF AddDraft, Offered
  <1>3. ASSUME NEW param \in Parameters, RemoveDraft(param) PROVE DashboardInv'
    BY <1>3, DraftedInv DEF RemoveDraft, Offered
  <1>4. ASSUME NEW param \in Parameters, NEW e \in Entries, EditDraft(param, e)
        PROVE  DashboardInv'
    BY <1>4, DraftedInv DEF EditDraft, Offered
  <1>. QED
    BY <1>1, <1>2, <1>3, <1>4

-----------------------------------------------------------------------------
(* What arrives.                                                           *)

(* The one awaited request is removed, so that none is.                    *)
LEMMA LastFlight ==
  ASSUME DashboardInv, NEW fl \in flights, fl.current,
         flights' = flights \ {fl}, tab' = tab
  PROVE  FlightsInv' /\ Awaited(fl) /\ Shaped(fl)
  BY DEF DashboardInv, FlightsInv, Shaped

LEMMA ArriveOptionsInv ==
  ASSUME DashboardInv, NEW fl \in flights, ArriveOptions(fl)
  PROVE  DashboardInv'
  <1>1. /\ fl.current /\ fl.kind = "options" /\ flights' = flights \ {fl}
        /\ tab' = tab /\ product' = None
        /\ status' \in {"ok", "failed"}
        /\ NothingShown \/ UNCHANGED <<draft, context, accepted>>
    BY DEF ArriveOptions, IsAwaited
  <1>2. FlightsInv' /\ accepted = None /\ context = None /\ draft = <<>>
    BY <1>1, LastFlight DEF Awaited, DashboardInv, PageInv
  <1>3. NothingShown
    BY <1>1, <1>2 DEF NothingShown
  <1>4. context' = None
    BY <1>3 DEF NothingShown
  <1>. QED
    BY <1>1, <1>2, <1>3, <1>4, NothingIsShown
    DEF DashboardInv, PageInv, NoSilentSelection, Complete

(* A scenario is only evaluated for parameters that the registry has.      *)
LEMMA EvaluatedIsOffered ==
  ASSUME NEW in, NEW d, NEW registry, Scenario(in, d, registry).code = "OK"
  PROVE  DOMAIN d \subseteq registry
  <1>1. DraftProblem(in, d, registry) = "OK"
    BY DEF Scenario
  <1>. QED
    BY <1>1 DEF DraftProblem

LEMMA StatusMeans ==
  ASSUME NEW a, NEW f, NEW p, NEW d,
         SensitivityStatus(a, f, p, d) \in {"ok", "unavailable"}
  PROVE  /\ p \in ProductsOf(a.made, f)
         /\ SensitivityStatus(a, f, p, d) = "ok" =>
              DOMAIN d \subseteq RegistryOf(a, p)
  <1>1. p \in ProductsOf(a.made, f)
    BY DEF SensitivityStatus
  <1>2. ASSUME SensitivityStatus(a, f, p, d) = "ok"
        PROVE  DOMAIN d \subseteq RegistryOf(a, p)
    <2>1. ScenarioOf(a, p, d).code = "OK"
      BY <1>2 DEF SensitivityStatus
    <2>. QED
      BY <2>1, EvaluatedIsOffered DEF ScenarioOf
  <1>. QED
    BY <1>1, <1>2

LEMMA StatusRange ==
  ASSUME NEW a, NEW f, NEW p, NEW d
  PROVE  SensitivityStatus(a, f, p, d) \in {"refused", "invalid", "unavailable", "ok"}
  BY DEF SensitivityStatus

LEMMA ArriveSensitivityInv ==
  ASSUME DashboardInv, NEW fl \in flights, ArriveSensitivity(fl)
  PROVE  DashboardInv'
  <1> DEFINE outcome == IF fl.answer = Lost THEN "failed"
                        ELSE SensitivityStatus(fl.answer, fl.factory, fl.product,
                                               fl.draft)
  <1>1. /\ fl.current /\ fl.kind \in {"registry", "scenario"}
        /\ fl.answer # None /\ fl.factory = factory /\ fl.product = product
        /\ flights' = flights \ {fl} /\ status' = outcome
        /\ UNCHANGED <<tab, factory, product, offered>>
    BY DEF ArriveSensitivity, IsAwaited, selects
  <1>2. FlightsInv' /\ Awaited(fl) /\ tab = "sensitivity"
    BY <1>1, LastFlight DEF Shaped, KindsOf, DashboardInv, Tabs
  <1>3. outcome \in {"failed", "refused", "invalid", "unavailable", "ok"}
    BY StatusRange
  <1>4. CASE Forgets(outcome)
    <2>1. draft' = <<>> /\ context' = None /\ accepted' = None
      BY <1>4 DEF ArriveSensitivity, NothingShown
    <2>2. outcome \in {"failed", "refused", "invalid"}
      BY <1>4 DEF Forgets
    <2>3. PageInv'
      BY <1>1, <1>2, <2>1, <2>2, EmptyDraft
      DEF PageInv, ShownIsCurrent, DraftsAreOffered, RefusalClears,
          NoSilentSelection
    <2>. QED
      BY <1>1, <1>2, <2>3 DEF DashboardInv
  <1>5. CASE ~Forgets(outcome)
    <2>1. fl.answer # Lost /\ outcome \in {"unavailable", "ok"}
      BY <1>3, <1>5 DEF Forgets
    <2>2. /\ context' = fl.answer /\ context' # None
          /\ draft' = Kept(draft, RegistryOf(context', product))
          /\ accepted' = IF fl.kind = "scenario" /\ outcome = "ok"
                           THEN fl ELSE accepted
      BY <1>1, <1>5, <2>1 DEF ArriveSensitivity
    <2>3. /\ draft' = [x \in DOMAIN draft' |-> draft'[x]]
          /\ DOMAIN draft' \subseteq RegistryOf(context', product')
      BY <1>1, <2>2 DEF Kept
    <2>4. product' \in ProductsOf(context'.made, factory')
      BY <1>1, <2>1, <2>2, StatusMeans
    <2>5. ASSUME accepted' # None
          PROVE  /\ accepted'.factory = factory' /\ accepted'.product = product'
                 /\ accepted'.draft = draft' /\ context' = accepted'.answer
      <3>1. accepted = None
        BY <1>2 DEF Awaited
      <3>2. accepted' = fl /\ fl.kind = "scenario" /\ outcome = "ok"
        BY <2>2, <2>5, <3>1
      <3>3. fl.draft = draft
        BY <1>2, <3>2 DEF Awaited
      <3>4. DOMAIN draft \subseteq RegistryOf(fl.answer, product)
        BY <1>1, <2>1, <3>2, <3>3, StatusMeans
      <3>5. draft' = draft
        <4>1. DOMAIN draft \cap RegistryOf(context', product) = DOMAIN draft
          BY <2>2, <3>4
        <4>2. draft = [x \in DOMAIN draft |-> draft[x]]
          BY DEF DashboardInv, PageInv
        <4>. QED
          BY <2>2, <4>1, <4>2 DEF Kept
      <3>. QED
        BY <1>1, <2>2, <3>2, <3>3, <3>5
    <2>6. ShownIsCurrent'
      BY <2>4, <2>5 DEF ShownIsCurrent
    <2>7. DraftsAreOffered'
      BY <2>2, <2>3 DEF DraftsAreOffered, Offered
    <2>8. RefusalClears' /\ NoSilentSelection'
      BY <1>1, <2>1, <2>2 DEF RefusalClears, NoSilentSelection
    <2>9. PageInv'
      BY <1>1, <1>2, <2>2, <2>3, <2>5, <2>6, <2>7, <2>8 DEF PageInv
    <2>. QED
      BY <1>1, <1>2, <2>9 DEF DashboardInv
  <1>. QED
    BY <1>4, <1>5

LEMMA ArriveReportInv ==
  ASSUME DashboardInv, NEW fl \in flights, ArriveReport(fl)
  PROVE  DashboardInv'
  <1>1. /\ fl.current /\ fl.kind = "analysis"
        /\ fl.answer # None /\ fl.factory = factory /\ fl.product = product
        /\ flights' = flights \ {fl}
        /\ accepted' \in {fl, None, accepted}
        /\ UNCHANGED <<tab, factory, product, offered, draft, context>>
    BY DEF ArriveReport, IsAwaited, selects
  <1>2. FlightsInv' /\ accepted = None /\ tab = "cost"
    BY <1>1, LastFlight DEF Shaped, KindsOf, Awaited, DashboardInv, Tabs
  <1>3. status' = "refused" => accepted' = None
    BY <1>2 DEF ArriveReport
  <1>4. context = None /\ draft = <<>>
    BY <1>2 DEF DashboardInv, PageInv
  <1>. QED
    BY <1>1, <1>2, <1>3, <1>4
    DEF DashboardInv, PageInv, ShownIsCurrent, DraftsAreOffered, Offered,
        RefusalClears, NoSilentSelection

-----------------------------------------------------------------------------
LEMMA InitDashboard == Init => DashboardInv
  <1> SUFFICES ASSUME Init PROVE DashboardInv
    OBVIOUS
  <1>1. /\ tab \in Tabs /\ product = None /\ offered = None /\ draft = <<>>
        /\ context = None /\ accepted = None /\ status = "none" /\ flights = {}
    BY DEF Init
  <1>. QED
    BY <1>1, EmptyDraft
    DEF DashboardInv, FlightsInv, PageInv, ShownIsCurrent, DraftsAreOffered,
        RefusalClears, NoSilentSelection, Complete

LEMMA NextInv ==
  ASSUME DashboardInv, Next
  PROVE  DashboardInv'
  <1>1. CASE User
    BY <1>1, ChooseFactoryInv, ChooseProductInv, RefreshInv, RunInv, AnalyzeInv,
       DraftInv
    DEF User
  <1>2. ASSUME NEW fl \in flights, Answer(fl) \/ Fail(fl) \/ Arrive(fl)
        PROVE  DashboardInv'
    <2>1. CASE Answer(fl)
      BY <2>1, Answered DEF Answer
    <2>2. CASE Fail(fl)
      BY <2>2, Answered DEF Fail
    <2>3. CASE Arrive(fl)
      BY <2>3, ArriveOptionsInv, ArriveSensitivityInv, ArriveReportInv, IgnoreInv
      DEF Arrive
    <2>. QED
      BY <1>2, <2>1, <2>2, <2>3
  <1>3. ASSUME UNCHANGED <<selects, shown, flights>> PROVE DashboardInv'
    BY <1>3, SamePage
    DEF DashboardInv, FlightsInv, Shaped, Awaited, Loading, selects, shown
  <1>. QED
    BY <1>1, <1>2, <1>3 DEF Next, Edit, Make, ChangeAccess

(* All of it together: the page's invariants and its one awaited request.  *)
THEOREM DashboardAlways == Spec => []DashboardInv
  <1>1. DashboardInv /\ UNCHANGED vars => DashboardInv'
    BY SamePage
    DEF DashboardInv, FlightsInv, Shaped, Awaited, Loading, selects, shown, vars
  <1>. QED
    BY <1>1, InitDashboard, NextInv, PTL DEF Spec

(* Whatever is shown, and could be exported, is of the product that is     *)
(* selected and of the draft as it stands, in whatever order answers come  *)
(* and whatever was cancelled.                                             *)
THEOREM ShownIsAlwaysCurrent == Spec => []ShownIsCurrent
  <1>1. DashboardInv => ShownIsCurrent
    BY DEF DashboardInv, PageInv
  <1>. QED
    BY <1>1, DashboardAlways, PTL

(* A draft never holds what the registry on the page does not offer, even  *)
(* when a late answer has brought another registry.                        *)
THEOREM DraftsAreAlwaysOffered == Spec => []DraftsAreOffered
  <1>1. DashboardInv => DraftsAreOffered
    BY DEF DashboardInv, PageInv
  <1>. QED
    BY <1>1, DashboardAlways, PTL

(* Once the server has refused the user, the page keeps nothing of what it *)
(* showed before.                                                          *)
THEOREM RefusalAlwaysClears == Spec => []RefusalClears
  <1>1. DashboardInv => RefusalClears
    BY DEF DashboardInv, PageInv
  <1>. QED
    BY <1>1, DashboardAlways, PTL

(* A complete selection always has a registry, a request for one that is   *)
(* still awaited, or a message.                                            *)
THEOREM SelectionIsNeverSilent == Spec => []NoSilentSelection
  <1>1. DashboardInv => NoSilentSelection
    BY DEF DashboardInv, PageInv
  <1>. QED
    BY <1>1, DashboardAlways, PTL

-----------------------------------------------------------------------------
(* What a scenario costs.  First what the operators of CostFormula do with *)
(* the documents of a capture: when they can be loaded, and what is read.  *)

(* The cells of a product.                                                 *)
PriceCell(m) == [source |-> "materials", name |-> m]
ShareCell(k) == [source |-> "weights", name |-> k]
PredictionCell(n) == [source |-> "predictions", name |-> n]
PoolCell(pool) == [source |-> "pools", name |-> pool]

LEMMA CellFacts ==
  /\ \A m \in Materials : PriceCell(m) \in Cells
  /\ \A k \in Categories : ShareCell(k) \in Cells
  /\ \A q \in Products : PredictionCell(NameOf[q]) \in Cells
  /\ \A pool \in Pools : PoolCell(pool) \in Cells
  BY DEF Cells, PriceCell, ShareCell, PredictionCell, PoolCell

(* What a calculation needs of the cells.                                  *)
Sound(v) == v \in Nat
Priced(c, m) ==
  /\ Sound(c[PriceCell(m)])
  /\ CurrencyOf[m] # Rial =>
       /\ CurrencyOf[CurrencyOf[m]] = Rial /\ Sound(c[PriceCell(CurrencyOf[m])])
Loads(c, p, P) ==
  /\ \A i \in DOMAIN BomOf[p] : Priced(c, BomOf[p][i])
  /\ Sound(c[ShareCell(CategoryOf[p])])
  /\ \A q \in P : Sound(c[PredictionCell(NameOf[q])])
  /\ \A pool \in Pools : Sound(c[PoolCell(pool)])

(* What it reads from them.                                                *)
LineRead(c, p, i) ==
  LET m == BomOf[p][i]
  IN  [row |-> i, material |-> m, currency |-> CurrencyOf[m],
       price |-> c[PriceCell(m)],
       fx |-> IF CurrencyOf[m] = Rial THEN 1 ELSE c[PriceCell(CurrencyOf[m])],
       usage |-> 1, loss |-> 0, recyclability |-> 0]
Reading(c, p, P) ==
  [product |-> p,
   lines |-> [i \in DOMAIN BomOf[p] |-> LineRead(c, p, i)],
   share |-> c[ShareCell(CategoryOf[p])],
   predictions |-> [q \in P |-> c[PredictionCell(NameOf[q])]],
   pools |-> [pool \in Pools |-> c[PoolCell(pool)]]]

LEMMA NumberOf ==
  ASSUME NEW v \in Contents
  PROVE  Number(v) = "OK" <=> Sound(v)
  <1>1. CASE v = Blank
    BY <1>1, DashboardAssumption DEF DashboardAssumption, Number, Sound
  <1>2. CASE v # Blank
    BY <1>2 DEF Number, Sound, Contents
  <1>. QED
    BY <1>1, <1>2

(* Where every key has a row of its own, that row is found.                *)
LEMMA OwnRow ==
  ASSUME NEW rows, NEW column, NEW name,
         \A k \in DOMAIN rows : rows[k][column] = k
  PROVE  /\ Unique(rows, column, name) <=> name \in DOMAIN rows
         /\ name \in DOMAIN rows => The(rows, column, name) = rows[name]
  <1>1. CASE name \in DOMAIN rows
    <2>1. Matching(rows, column, name) = {name}
      BY <1>1 DEF Matching
    <2>. QED
      BY <1>1, <2>1, FS_Singleton DEF Unique, The
  <1>2. CASE name \notin DOMAIN rows
    <2>1. Matching(rows, column, name) = {}
      BY <1>2 DEF Matching
    <2>. QED
      BY <1>2, <2>1, FS_EmptySet DEF Unique
  <1>. QED
    BY <1>1, <1>2

LEMMA MaterialRows ==
  ASSUME NEW c, NEW p, NEW name
  PROVE  LET rows == Documents(c, p).materials
         IN  /\ Unique(rows, "material", name) <=> name \in Materials
             /\ name \in Materials =>
                  The(rows, "material", name) =
                    [material |-> name, currency |-> CurrencyOf[name],
                     price |-> c[PriceCell(name)]]
  <1> DEFINE rows == Documents(c, p).materials
  <1>1. rows = [m \in Materials |-> [material |-> m, currency |-> CurrencyOf[m],
                                     price |-> c[PriceCell(m)]]]
    BY DEF Documents, PriceCell
  <1>. HIDE DEF rows
  <1>2. \A m \in DOMAIN rows : rows[m]["material"] = m
    BY <1>1
  <1>3. /\ Unique(rows, "material", name) <=> name \in DOMAIN rows
        /\ name \in DOMAIN rows => The(rows, "material", name) = rows[name]
    BY <1>2, OwnRow
  <1>. QED
    BY <1>1, <1>3 DEF rows

LEMMA RateOf ==
  ASSUME NEW c \in [Cells -> Contents], NEW p, NEW m \in Materials
  PROVE  LET rows == Documents(c, p).materials
             currency == CurrencyOf[m]
         IN  /\ RateProblem(rows, currency) = "OK" <=>
                  (currency # Rial => /\ CurrencyOf[currency] = Rial
                                      /\ Sound(c[PriceCell(currency)]))
             /\ Rate(rows, currency) =
                  IF currency = Rial THEN 1 ELSE c[PriceCell(currency)]
  <1> DEFINE rows == Documents(c, p).materials
             currency == CurrencyOf[m]
  <1>1. CASE currency = Rial
    BY <1>1 DEF RateProblem, Rate
  <1>2. CASE currency # Rial
    <2>1. currency \in Materials
      BY <1>2, DashboardAssumption DEF DashboardAssumption
    <2>2. /\ Unique(rows, "material", currency)
          /\ The(rows, "material", currency) =
               [material |-> currency, currency |-> CurrencyOf[currency],
                price |-> c[PriceCell(currency)]]
      BY <2>1, MaterialRows
    <2>3. Number(c[PriceCell(currency)]) = "OK" <=> Sound(c[PriceCell(currency)])
      BY <2>1, CellFacts, NumberOf
    <2>. HIDE DEF rows, currency
    <2>4. /\ The(rows, "material", currency).currency = CurrencyOf[currency]
          /\ The(rows, "material", currency).price = c[PriceCell(currency)]
      BY <2>2
    <2>. QED
      BY <1>2, <2>2, <2>3, <2>4 DEF RateProblem, Rate, rows, currency
  <1>. QED
    BY <1>1, <1>2

LEMMA LineOf ==
  ASSUME NEW c \in [Cells -> Contents], NEW p \in Products,
         NEW i \in DOMAIN BomOf[p]
  PROVE  LET docs == Documents(c, p)
         IN  /\ LineProblem(docs.materials, docs.bom[i]) = "OK" <=>
                  Priced(c, BomOf[p][i])
             /\ Line(docs.materials, docs.bom[i]) = LineRead(c, p, i)
             /\ docs.bom[i].id = i
  <1> DEFINE docs == Documents(c, p)
             rows == docs.materials
             row == docs.bom[i]
             m == BomOf[p][i]
             current == The(rows, "material", m)
             codes == <<RateProblem(rows, current.currency), Number(row.usage),
                        Number(row.loss), Number(row.recyclability),
                        Number(current.price)>>
  <1>1. m \in Materials
    BY DashboardAssumption DEF DashboardAssumption
  <1>2. row = [id |-> i, material |-> m, usage |-> 1, loss |-> 0, recyclability |-> 0]
    BY DEF Documents, BomRows
  <1>3. /\ Unique(rows, "material", m)
        /\ current = [material |-> m, currency |-> CurrencyOf[m],
                      price |-> c[PriceCell(m)]]
    BY <1>1, MaterialRows
  <1>4. /\ RateProblem(rows, CurrencyOf[m]) = "OK" <=>
             (CurrencyOf[m] # Rial =>
                /\ CurrencyOf[CurrencyOf[m]] = Rial
                /\ Sound(c[PriceCell(CurrencyOf[m])]))
        /\ Rate(rows, CurrencyOf[m]) =
             IF CurrencyOf[m] = Rial THEN 1 ELSE c[PriceCell(CurrencyOf[m])]
    BY <1>1, RateOf
  <1>5. Number(c[PriceCell(m)]) = "OK" <=> Sound(c[PriceCell(m)])
    BY <1>1, CellFacts, NumberOf
  <1>6. Number(1) = "OK" /\ Number(0) = "OK"
    BY NumberOf DEF Contents, Sound
  <1>. HIDE DEF docs, rows, row, m
  <1>7. FirstProblem(codes) = "OK" <=> \A n \in DOMAIN codes : codes[n] = "OK"
    BY NoFirstProblem
  <1>8. FirstProblem(codes) = "OK" <=> Priced(c, m)
    BY <1>2, <1>3, <1>4, <1>5, <1>6, <1>7 DEF Priced
  <1>9. LineProblem(rows, row) = FirstProblem(codes)
    BY <1>2, <1>3 DEF LineProblem
  <1>10. Line(rows, row) = LineRead(c, p, i)
    BY <1>2, <1>3, <1>4 DEF Line, LineRead, m
  <1>. QED
    BY <1>2, <1>8, <1>9, <1>10 DEF docs, rows, row, m

LEMMA ShareOf ==
  ASSUME NEW c \in [Cells -> Contents], NEW p, NEW k \in Categories
  PROVE  LET rows == Documents(c, p).weights
         IN  /\ RowProblem(rows, "category", k, "share",
                           "CATEGORY_SHARE_NOT_UNIQUE") = "OK" <=>
                  Sound(c[ShareCell(k)])
             /\ The(rows, "category", k).share = c[ShareCell(k)]
  <1> DEFINE rows == Documents(c, p).weights
  <1>1. rows = [n \in Categories |-> [category |-> n, share |-> c[ShareCell(n)]]]
    BY DEF Documents, ShareCell
  <1>. HIDE DEF rows
  <1>2. Unique(rows, "category", k) /\ The(rows, "category", k) = rows[k]
    BY <1>1, OwnRow
  <1>3. Number(c[ShareCell(k)]) = "OK" <=> Sound(c[ShareCell(k)])
    BY CellFacts, NumberOf
  <1>4. The(rows, "category", k)["share"] = c[ShareCell(k)]
    BY <1>1, <1>2
  <1>. QED
    BY <1>2, <1>3, <1>4 DEF RowProblem, rows

LEMMA PredictionOf ==
  ASSUME NEW c \in [Cells -> Contents], NEW p, NEW q \in Products
  PROVE  LET rows == Documents(c, p).predictions
             name == NameOf[q]
         IN  /\ RowProblem(rows, "product", name, "quantity",
                           "PREDICTION_NOT_UNIQUE") = "OK" <=>
                  Sound(c[PredictionCell(name)])
             /\ Sound(c[PredictionCell(name)]) =>
                  The(rows, "product", name).quantity = c[PredictionCell(name)]
  <1> DEFINE rows == Documents(c, p).predictions
             name == NameOf[q]
  <1>1. /\ rows = [n \in Predicted(c) |-> [product |-> n,
                                           quantity |-> c[PredictionCell(n)]]]
        /\ name \in Predicted(c) <=> c[PredictionCell(name)] # Blank
    BY DEF Documents, PredictionCell, Predicted
  <1>. HIDE DEF rows
  <1>2. /\ Unique(rows, "product", name) <=> name \in Predicted(c)
        /\ name \in Predicted(c) => The(rows, "product", name) = rows[name]
    BY <1>1, OwnRow
  <1>3. Number(c[PredictionCell(name)]) = "OK" <=> Sound(c[PredictionCell(name)])
    BY CellFacts, NumberOf
  <1>4. Sound(c[PredictionCell(name)]) => c[PredictionCell(name)] # Blank
    BY DashboardAssumption DEF DashboardAssumption, Sound
  <1>5. name \in Predicted(c) =>
          The(rows, "product", name)["quantity"] = c[PredictionCell(name)]
    BY <1>1, <1>2
  <1>. HIDE DEF name
  <1>6. RowProblem(rows, "product", name, "quantity", "PREDICTION_NOT_UNIQUE") = "OK"
          <=> Sound(c[PredictionCell(name)])
    BY <1>1, <1>2, <1>3, <1>4, <1>5 DEF RowProblem
  <1>. QED
    BY <1>1, <1>4, <1>5, <1>6 DEF rows, name

LEMMA SinglePools ==
  ASSUME NEW c \in [Cells -> Contents], NEW p
  PROVE  LET pools == Documents(c, p).pools
         IN  /\ PoolProblem(pools) = "OK" <=> \A pool \in Pools : Sound(c[PoolCell(pool)])
             /\ DOMAIN pools = Pools
             /\ \A pool \in Pools : Sound(c[PoolCell(pool)]) =>
                  RawPool(pools[pool]) = c[PoolCell(pool)]
  <1> DEFINE pools == Documents(c, p).pools
  <1>1. pools = [pool \in Pools |-> <<c[PoolCell(pool)]>>]
    BY DEF Documents, PoolCell
  <1>. HIDE DEF pools
  <1>2. PoolProblem(pools) = "OK" <=>
          \A pool \in Pools : Number(c[PoolCell(pool)]) = "OK"
    <2>1. \A pool \in Pools :
            DOMAIN pools[pool] = {1} /\ pools[pool][1] = c[PoolCell(pool)]
      BY <1>1
    <2>. QED
      BY <1>1, <2>1, NoProblemInPools
  <1>3. \A pool \in Pools :
          Number(c[PoolCell(pool)]) = "OK" <=> Sound(c[PoolCell(pool)])
    BY CellFacts, NumberOf
  <1>5. \A pool \in Pools : Sound(c[PoolCell(pool)]) =>
          RawPool(pools[pool]) = c[PoolCell(pool)]
    BY <1>1, PoolOfOneRow DEF Sound
  <1>6. PoolProblem(pools) = "OK" <=> \A pool \in Pools : Sound(c[PoolCell(pool)])
    BY <1>2, <1>3
  <1>7. DOMAIN pools = Pools
    BY <1>1
  <1>. QED
    BY <1>5, <1>6, <1>7 DEF pools

(* A product can be loaded when the cells it reads hold numbers, none of   *)
(* them negative.                                                          *)
LEMMA LoadsWhen ==
  ASSUME NEW c \in [Cells -> Contents], NEW p \in Products,
         NEW P \in SUBSET Products
  PROVE  LoadProblem(Documents(c, p), CategoryOf[p], P) = "OK" <=> Loads(c, p, P)
  <1> DEFINE docs == Documents(c, p)
             n == Len(BomOf[p])
  <1>1. BomOf[p] \in Seq(Materials) /\ CategoryOf[p] \in Categories
    BY DashboardAssumption DEF DashboardAssumption
  <1>2. DOMAIN docs.bom = 1 .. n /\ DOMAIN BomOf[p] = 1 .. n /\ n \in Nat
    BY <1>1 DEF Documents, BomRows
  <1>3. \A i \in 1 .. n :
          LineProblem(docs.materials, docs.bom[i]) = "OK" <=> Priced(c, BomOf[p][i])
    BY <1>2, LineOf
  <1>4. RowsAreDistinct(docs.bom)
    BY <1>2, LineOf DEF RowsAreDistinct
  <1>5. RowProblem(docs.weights, "category", CategoryOf[p], "share",
                   "CATEGORY_SHARE_NOT_UNIQUE") = "OK"
          <=> Sound(c[ShareCell(CategoryOf[p])])
    BY <1>1, ShareOf
  <1>6. \A q \in P : RowProblem(docs.predictions, "product", NameOf[q], "quantity",
                                "PREDICTION_NOT_UNIQUE") = "OK"
                     <=> Sound(c[PredictionCell(NameOf[q])])
    BY PredictionOf
  <1>7. PoolProblem(docs.pools) = "OK" <=> \A pool \in Pools : Sound(c[PoolCell(pool)])
    BY SinglePools
  <1>. HIDE DEF docs, n
  <1>8. LoadProblem(docs, CategoryOf[p], P) = "OK" <=>
          /\ \A i \in 1 .. n : LineProblem(docs.materials, docs.bom[i]) = "OK"
          /\ RowsAreDistinct(docs.bom)
          /\ RowProblem(docs.weights, "category", CategoryOf[p], "share",
                        "CATEGORY_SHARE_NOT_UNIQUE") = "OK"
          /\ \A q \in P : RowProblem(docs.predictions, "product", NameOf[q],
                                     "quantity", "PREDICTION_NOT_UNIQUE") = "OK"
          /\ PoolProblem(docs.pools) = "OK"
    BY <1>2, LoadedFrom
  <1>. QED
    BY <1>2, <1>3, <1>4, <1>5, <1>6, <1>7, <1>8 DEF Loads, docs

LEMMA InputsRead ==
  ASSUME NEW c \in [Cells -> Contents], NEW p \in Products,
         NEW P \in SUBSET Products, Loads(c, p, P)
  PROVE  Inputs(Documents(c, p), p, CategoryOf[p], P) = Reading(c, p, P)
  <1> DEFINE docs == Documents(c, p)
  <1>1. CategoryOf[p] \in Categories
    BY DashboardAssumption DEF DashboardAssumption
  <1>2. [i \in DOMAIN docs.bom |-> Line(docs.materials, docs.bom[i])]
          = [i \in DOMAIN BomOf[p] |-> LineRead(c, p, i)]
    <2>1. DOMAIN docs.bom = DOMAIN BomOf[p]
      BY DEF Documents, BomRows
    <2>. QED
      BY <2>1, LineOf
  <1>3. The(docs.weights, "category", CategoryOf[p]).share
          = c[ShareCell(CategoryOf[p])]
    BY <1>1, ShareOf
  <1>4. [q \in P |-> The(docs.predictions, "product", NameOf[q]).quantity]
          = [q \in P |-> c[PredictionCell(NameOf[q])]]
    BY PredictionOf DEF Loads
  <1>5. [pool \in DOMAIN docs.pools |-> RawPool(docs.pools[pool])]
          = [pool \in Pools |-> c[PoolCell(pool)]]
    BY SinglePools DEF Loads
  <1>. HIDE DEF docs
  <1>. QED
    BY <1>2, <1>3, <1>4, <1>5 DEF Inputs, Reading, docs

(* What a parameter of a product is called after.                          *)
Stands(param, all, p) ==
  /\ param = [kind |-> param.kind, name |-> param.name]
  /\ \/ /\ param.kind = "material"
        /\ \E i \in DOMAIN BomOf[p] : param.name = BomOf[p][i]
     \/ /\ param.kind = "fx" /\ param.name # Rial
        /\ \E i \in DOMAIN BomOf[p] : param.name = CurrencyOf[BomOf[p][i]]
     \/ param.kind = "pool" /\ param.name \in Pools
     \/ param.kind = "share" /\ param.name = CategoryOf[p]
     \/ /\ param.kind = "prediction" /\ param.name = NameOf[p]
        /\ \A q \in all : NameOf[q] = NameOf[p] => q = p

(* A capture, a product it can load and a draft of its parameters.         *)
PopulationOf(a, p) == Population(a.made, p)
Read(a, p) == Reading(a.cells, p, PopulationOf(a, p))
Evaluated(a, p, d) ==
  /\ a.cells \in [Cells -> Contents] /\ a.made \subseteq Products /\ p \in Products
  /\ Loads(a.cells, p, PopulationOf(a, p)) /\ p \in PopulationOf(a, p)
  /\ \A param \in DOMAIN d : Stands(param, a.made, p) /\ d[param] \in Entries
  /\ ~Conflicting(d)
Value(a, p, d, param) == Final(Read(a, p), param, d[param])

LEMMA RegistryStands ==
  ASSUME NEW a, NEW p \in Products, NEW groups,
         NEW param \in Registry(Read(a, p), CategoryOf[p], a.made, groups)
  PROVE  Stands(param, a.made, p)
  <1> DEFINE in == Read(a, p)
  <1>1. /\ DOMAIN in.lines = DOMAIN BomOf[p] /\ DOMAIN in.pools = Pools
        /\ in.product = p
        /\ \A i \in DOMAIN BomOf[p] :
             /\ in.lines[i]["material"] = BomOf[p][i]
             /\ in.lines[i]["currency"] = CurrencyOf[BomOf[p][i]]
    BY DEF Read, Reading, LineRead
  <1>2. CASE param \in Parameter("material", Column(in, "material"))
    BY <1>1, <1>2 DEF Parameter, Column, Stands
  <1>3. CASE param \in Parameter("fx", Currencies(in))
    BY <1>1, <1>3 DEF Parameter, Column, Currencies, Stands
  <1>4. CASE param \in Parameter("pool", DOMAIN in.pools)
    BY <1>1, <1>4 DEF Parameter, Stands
  <1>5. CASE param \in Parameter("share", {CategoryOf[p]})
    BY <1>5 DEF Parameter, Stands
  <1>6. CASE param \in Parameter("prediction",
                         {NameOf[q] : q \in OwnPrediction(in.product, a.made)})
    BY <1>1, <1>6 DEF Parameter, OwnPrediction, Stands
  <1>. HIDE DEF in
  <1>. QED
    BY <1>2, <1>3, <1>4, <1>5, <1>6 DEF Registry, in

(* The cell a parameter stands for, and of which document.                 *)
LEMMA StandsFor ==
  ASSUME NEW all, NEW p \in Products, NEW param, Stands(param, all, p)
  PROVE  /\ CellOf(param) \in Cells
         /\ param.kind \in {"material", "fx"} =>
              param.name \in Materials /\ CellOf(param) = PriceCell(param.name)
         /\ param.kind = "pool" => CellOf(param) = PoolCell(param.name)
         /\ param.kind = "share" => CellOf(param) = ShareCell(CategoryOf[p])
         /\ param.kind = "prediction" => CellOf(param) = PredictionCell(NameOf[p])
         /\ CellOf(param).source = "materials" <=> param.kind \in {"material", "fx"}
         /\ CellOf(param).source = "pools" <=> param.kind = "pool"
         /\ CellOf(param).source = "weights" <=> param.kind = "share"
         /\ CellOf(param).source = "predictions" <=> param.kind = "prediction"
  <1>1. BomOf[p] \in Seq(Materials) /\ CategoryOf[p] \in Categories
    BY DashboardAssumption DEF DashboardAssumption
  <1>2. /\ \A i \in DOMAIN BomOf[p] : BomOf[p][i] \in Materials
        /\ CurrencyOf \in [Materials -> Materials \cup {Rial}]
    BY <1>1, DashboardAssumption DEF DashboardAssumption
  <1>3. /\ param.kind \in {"material", "fx"} =>
             param.name \in Materials /\ CellOf(param) = PriceCell(param.name)
        /\ param.kind = "pool" => CellOf(param) = PoolCell(param.name)
        /\ param.kind = "share" => CellOf(param) = ShareCell(CategoryOf[p])
        /\ param.kind = "prediction" => CellOf(param) = PredictionCell(NameOf[p])
    BY <1>2 DEF Stands, CellOf, PriceCell, PoolCell, ShareCell, PredictionCell
  <1>4. param.kind \in {"material", "fx", "pool", "share", "prediction"}
    BY DEF Stands
  <1>5. /\ CellOf(param).source = "materials" <=> param.kind \in {"material", "fx"}
        /\ CellOf(param).source = "pools" <=> param.kind = "pool"
        /\ CellOf(param).source = "weights" <=> param.kind = "share"
        /\ CellOf(param).source = "predictions" <=> param.kind = "prediction"
    BY <1>4 DEF CellOf
  <1>. QED
    BY <1>1, <1>3, <1>5, CellFacts DEF Stands

LEMMA BaselineIsNat ==
  ASSUME NEW c, NEW p \in Products, NEW P, Loads(c, p, P), p \in P,
         NEW all, NEW param, Stands(param, all, p)
  PROVE  Baseline(Reading(c, p, P), param) \in Nat
  <1> DEFINE in == Reading(c, p, P)
  <1>1. /\ DOMAIN in.lines = DOMAIN BomOf[p] /\ in.product = p
        /\ \A i \in DOMAIN BomOf[p] :
             /\ in.lines[i]["material"] = BomOf[p][i]
             /\ in.lines[i]["currency"] = CurrencyOf[BomOf[p][i]]
             /\ in.lines[i].price \in Nat /\ in.lines[i].fx \in Nat
        /\ in.share \in Nat /\ in.predictions[p] \in Nat
        /\ \A pool \in Pools : in.pools[pool] \in Nat
    BY DEF Reading, LineRead, Loads, Priced, Sound
  <1>. HIDE DEF in
  <1>2. CASE param.kind = "material"
    <2>1. LinesOf(in, "material", param.name) # {}
      BY <1>1, <1>2 DEF Stands, LinesOf
    <2>. QED
      BY <1>1, <1>2, <2>1 DEF Baseline, LinesOf, in
  <1>3. CASE param.kind = "fx"
    <2>1. LinesOf(in, "currency", param.name) # {}
      BY <1>1, <1>3 DEF Stands, LinesOf
    <2>. QED
      BY <1>1, <1>3, <2>1 DEF Baseline, LinesOf, in
  <1>4. CASE param.kind = "pool"
    BY <1>1, <1>4 DEF Baseline, Stands, in
  <1>5. CASE param.kind \in {"share", "prediction"}
    BY <1>1, <1>5 DEF Baseline, in
  <1>. QED
    BY <1>2, <1>3, <1>4, <1>5 DEF Stands

LEMMA ValueIsInt ==
  ASSUME NEW a, NEW p, NEW d, Evaluated(a, p, d), NEW param \in DOMAIN d
  PROVE  Value(a, p, d, param) \in Int
  <1>1. Baseline(Read(a, p), param) \in Nat
    BY BaselineIsNat DEF Evaluated, Read
  <1>2. /\ d[param].mode \in {"absolute", "percent_change"}
        /\ d[param].value \in Int
    BY DashboardAssumption DEF DashboardAssumption, Evaluated
  <1> DEFINE base == Baseline(Read(a, p), param)
             change == d[param]
  <1>3. Value(a, p, d, param) = IF change.mode = "absolute" THEN change.value
                                ELSE (base * (100 + change.value)) \div 100
    BY DEF Value, Final
  <1>. HIDE DEF base
  <1>4. base * (100 + change.value) \in Int
    BY <1>1, <1>2 DEF base
  <1>5. (base * (100 + change.value)) \div 100 \in Int
    BY <1>4
  <1>. QED
    BY <1>2, <1>3, <1>5

(* The edited cells hold the values the draft comes to, the others what    *)
(* they held.                                                              *)
LEMMA VariedCells ==
  ASSUME NEW a, NEW p, NEW d, Evaluated(a, p, d)
  PROVE  LET v == Varied(a, p, d)
         IN  /\ v \in [Cells -> Contents]
             /\ \A param \in DOMAIN d : v[CellOf(param)] = Value(a, p, d, param)
             /\ \A c \in Cells : (\A param \in DOMAIN d : CellOf(param) # c) =>
                  v[c] = a.cells[c]
  <1> DEFINE v == Varied(a, p, d)
             Varies(c) == \E param \in DOMAIN d : CellOf(param) = c
             OfCell(c) == CHOOSE x \in DOMAIN d : CellOf(x) = c
  <1>1. InputsFrom(a, p) = Read(a, p)
    <2>1. PopulationOf(a, p) \in SUBSET Products
      BY DEF Evaluated, PopulationOf, Population
    <2>. QED
      BY <2>1, InputsRead DEF Evaluated, InputsFrom, Read, PopulationOf
  <1>2. v = [c \in Cells |-> IF Varies(c) THEN Value(a, p, d, OfCell(c))
                                          ELSE a.cells[c]]
    BY <1>1 DEF Varied, Value
  <1>. HIDE DEF v
  <1>3. \A c \in Cells : Varies(c) => OfCell(c) \in DOMAIN d /\ CellOf(OfCell(c)) = c
    OBVIOUS
  <1>4. \A param \in DOMAIN d : CellOf(param) \in Cells /\ Varies(CellOf(param))
    BY StandsFor DEF Evaluated
  <1>5. \A param \in DOMAIN d : OfCell(CellOf(param)) = param
    BY <1>3, <1>4 DEF Evaluated, Conflicting
  <1>. HIDE DEF OfCell
  <1>6. \A param \in DOMAIN d : Value(a, p, d, param) \in Contents
    BY ValueIsInt DEF Contents
  <1>7. v \in [Cells -> Contents]
    BY <1>2, <1>3, <1>6 DEF Evaluated
  <1>8. \A param \in DOMAIN d : v[CellOf(param)] = Value(a, p, d, param)
    BY <1>2, <1>4, <1>5
  <1>9. \A c \in Cells : (\A param \in DOMAIN d : CellOf(param) # c) =>
          v[c] = a.cells[c]
    BY <1>2
  <1>. QED
    BY <1>7, <1>8, <1>9 DEF v

(* Overrides by key: the one value given for a key, or none.               *)
LEMMA KeyOf ==
  ASSUME NEW pairs, NEW k, NEW v, <<k, v>> \in pairs,
         \A pair \in pairs : pair[1] = k => pair = <<k, v>>
  PROVE  \A other : Overridden(ByKey(pairs), k, other) = v
  <1>1. (CHOOSE pair \in pairs : pair[1] = k) = <<k, v>>
    OBVIOUS
  <1>2. k \in {pair[1] : pair \in pairs}
    OBVIOUS
  <1>3. ByKey(pairs)[k] = v /\ k \in DOMAIN ByKey(pairs)
    BY <1>1, <1>2 DEF ByKey
  <1>. QED
    BY <1>3 DEF Overridden

LEMMA NoKeyOf ==
  ASSUME NEW pairs, NEW k, \A pair \in pairs : pair[1] # k
  PROVE  \A other : Overridden(ByKey(pairs), k, other) = other
  BY DEF Overridden, ByKey

(* An override by key says what the cell it stands for says.               *)
Substitutes(pairs, a, p, d, k, cell) ==
  /\ \A pair \in pairs : pair[1] = k =>
       \E param \in DOMAIN d :
         CellOf(param) = cell /\ pair = <<k, Value(a, p, d, param)>>
  /\ \A param \in DOMAIN d :
       CellOf(param) = cell => <<k, Value(a, p, d, param)>> \in pairs

LEMMA Substituted ==
  ASSUME NEW a, NEW p, NEW d, Evaluated(a, p, d), NEW cell \in Cells,
         NEW pairs, NEW k, Substitutes(pairs, a, p, d, k, cell)
  PROVE  Overridden(ByKey(pairs), k, a.cells[cell]) = Varied(a, p, d)[cell]
  <1>1. CASE \E param \in DOMAIN d : CellOf(param) = cell
    <2>1. PICK param \in DOMAIN d : CellOf(param) = cell
      BY <1>1
    <2>2. \A other \in DOMAIN d : CellOf(other) = cell => other = param
      BY <2>1 DEF Evaluated, Conflicting
    <2>3. /\ <<k, Value(a, p, d, param)>> \in pairs
          /\ \A pair \in pairs : pair[1] = k => pair = <<k, Value(a, p, d, param)>>
      BY <2>1, <2>2 DEF Substitutes
    <2>4. Varied(a, p, d)[cell] = Value(a, p, d, param)
      BY <2>1, VariedCells
    <2>. QED
      BY <2>3, <2>4, KeyOf
  <1>2. CASE ~\E param \in DOMAIN d : CellOf(param) = cell
    BY <1>2, NoKeyOf, VariedCells DEF Substitutes
  <1>. QED
    BY <1>1, <1>2

(* What the inputs say of all lines, and what a parameter changes in them. *)
LEMMA ReadLines ==
  ASSUME NEW a, NEW p
  PROVE  LET in == Read(a, p)
         IN  /\ DOMAIN in.lines = DOMAIN BomOf[p] /\ in.product = p
             /\ \A i \in DOMAIN BomOf[p] :
                  /\ in.lines[i]["material"] = BomOf[p][i]
                  /\ in.lines[i]["currency"] = CurrencyOf[BomOf[p][i]]
                  /\ in.lines[i].row = i
             /\ \A param : PricedBy(in, param) =
                  IF GroupOf(param.kind) = "general_parameters"
                    THEN {i \in DOMAIN BomOf[p] : BomOf[p][i] = param.name} ELSE {}
             /\ Currencies(in) = {CurrencyOf[BomOf[p][i]] : i \in DOMAIN BomOf[p]}
                                   \ {Rial}
  <1> DEFINE in == Read(a, p)
  <1>1. /\ DOMAIN in.lines = DOMAIN BomOf[p] /\ in.product = p
        /\ \A i \in DOMAIN BomOf[p] :
             /\ in.lines[i]["material"] = BomOf[p][i]
             /\ in.lines[i]["currency"] = CurrencyOf[BomOf[p][i]]
             /\ in.lines[i].row = i
    BY DEF Read, Reading, LineRead
  <1>. HIDE DEF in
  <1>2. \A param : LinesOf(in, "material", param.name) =
                     {i \in DOMAIN BomOf[p] : BomOf[p][i] = param.name}
    BY <1>1 DEF LinesOf
  <1>3. Currencies(in) = {CurrencyOf[BomOf[p][i]] : i \in DOMAIN BomOf[p]} \ {Rial}
    BY <1>1 DEF Currencies, Column
  <1>. QED
    BY <1>1, <1>2, <1>3 DEF PricedBy, in

LEMMA PricesOf ==
  ASSUME NEW a, NEW p, NEW d, Evaluated(a, p, d), NEW i \in DOMAIN BomOf[p]
  PROVE  Overridden(Overrides(Read(a, p), d).prices, i, a.cells[PriceCell(BomOf[p][i])])
           = Varied(a, p, d)[PriceCell(BomOf[p][i])]
  <1> DEFINE in == Read(a, p)
             v == Varied(a, p, d)
             m == BomOf[p][i]
             PairsOf(param) == {<<in.lines[j].row, Value(a, p, d, param)>> :
                                  j \in PricedBy(in, param)}
             pairs == UNION {PairsOf(param) : param \in DOMAIN d}
  <1>1. Overrides(in, d).prices = ByKey(pairs)
    BY DEF Overrides, Value
  <1>2. m \in Materials /\ PriceCell(m) \in Cells
    BY CellFacts, DashboardAssumption DEF DashboardAssumption, Evaluated
  <1>3. \A param \in DOMAIN d :
          GroupOf(param.kind) = "general_parameters" /\ param.name = m <=>
            CellOf(param) = PriceCell(m)
    BY StandsFor DEF Evaluated, GroupOf, CellOf, PriceCell
  <1>4. ASSUME NEW pair \in pairs, pair[1] = i
        PROVE  \E param \in DOMAIN d :
                 CellOf(param) = PriceCell(m) /\ pair = <<i, Value(a, p, d, param)>>
    <2>1. PICK param \in DOMAIN d : pair \in PairsOf(param)
      OBVIOUS
    <2>2. PICK j \in PricedBy(in, param) :
            pair = <<in.lines[j].row, Value(a, p, d, param)>>
      BY <2>1
    <2>3. j \in DOMAIN BomOf[p] /\ BomOf[p][j] = param.name
            /\ GroupOf(param.kind) = "general_parameters" /\ in.lines[j].row = j
      BY <2>2, ReadLines
    <2>. HIDE DEF in
    <2>4. j = i
      BY <1>4, <2>2, <2>3
    <2>. QED
      BY <1>3, <2>2, <2>3, <2>4
  <1>5. ASSUME NEW param \in DOMAIN d, CellOf(param) = PriceCell(m)
        PROVE  <<i, Value(a, p, d, param)>> \in pairs
    <2>1. i \in PricedBy(in, param) /\ in.lines[i].row = i
      BY <1>3, <1>5, ReadLines
    <2>2. <<in.lines[i].row, Value(a, p, d, param)>> \in PairsOf(param)
      BY <2>1
    <2>. HIDE DEF PairsOf
    <2>. QED
      BY <2>1, <2>2
  <1>. HIDE DEF pairs
  <1>6. Substitutes(pairs, a, p, d, i, PriceCell(m))
    BY <1>4, <1>5 DEF Substitutes
  <1>. QED
    BY <1>1, <1>2, <1>6, Substituted

LEMMA RatesOf ==
  ASSUME NEW a, NEW p, NEW d, Evaluated(a, p, d), NEW i \in DOMAIN BomOf[p]
  PROVE  LET currency == CurrencyOf[BomOf[p][i]]
         IN  Overridden(Overrides(Read(a, p), d).rates, currency,
                        IF currency = Rial THEN 1 ELSE a.cells[PriceCell(currency)])
               = IF currency = Rial THEN 1 ELSE Varied(a, p, d)[PriceCell(currency)]
  <1> DEFINE in == Read(a, p)
             currency == CurrencyOf[BomOf[p][i]]
             PairsOf(param) == {<<c, Value(a, p, d, param)>> : c \in RatedBy(in, param)}
             pairs == UNION {PairsOf(param) : param \in DOMAIN d}
  <1>1. Overrides(in, d).rates = ByKey(pairs)
    BY DEF Overrides, Value
  <1>2. currency # Rial => currency \in Materials /\ PriceCell(currency) \in Cells
    BY CellFacts, DashboardAssumption DEF DashboardAssumption, Evaluated
  <1>3. currency # Rial <=> currency \in Currencies(in)
    BY ReadLines
  <1>. HIDE DEF in, currency
  <1>4. \A param \in DOMAIN d :
          GroupOf(param.kind) = "general_parameters" /\ param.name = currency <=>
            CellOf(param) = PriceCell(currency)
    BY StandsFor DEF Evaluated, GroupOf, CellOf, PriceCell
  <1>5. ASSUME NEW pair \in pairs, pair[1] = currency
        PROVE  /\ currency # Rial
               /\ \E param \in DOMAIN d :
                    /\ CellOf(param) = PriceCell(currency)
                    /\ pair = <<currency, Value(a, p, d, param)>>
    <2>1. PICK param \in DOMAIN d : pair \in PairsOf(param)
      OBVIOUS
    <2>2. PICK c \in RatedBy(in, param) : pair = <<c, Value(a, p, d, param)>>
      BY <2>1
    <2>3. c = currency
      BY <1>5, <2>2
    <2>. QED
      BY <1>3, <1>4, <2>2, <2>3 DEF RatedBy
  <1>6. ASSUME NEW param \in DOMAIN d, CellOf(param) = PriceCell(currency),
               currency # Rial
        PROVE  <<currency, Value(a, p, d, param)>> \in pairs
    <2>1. currency \in RatedBy(in, param)
      BY <1>3, <1>4, <1>6 DEF RatedBy
    <2>2. <<currency, Value(a, p, d, param)>> \in PairsOf(param)
      BY <2>1
    <2>. HIDE DEF PairsOf
    <2>. QED
      BY <2>2
  <1>. HIDE DEF pairs
  <1>7. CASE currency = Rial
    BY <1>1, <1>5, <1>7, NoKeyOf DEF in, currency
  <1>8. CASE currency # Rial
    <2>1. Substitutes(pairs, a, p, d, currency, PriceCell(currency))
      BY <1>5, <1>6, <1>8 DEF Substitutes
    <2>2. Overridden(ByKey(pairs), currency, a.cells[PriceCell(currency)])
            = Varied(a, p, d)[PriceCell(currency)]
      BY <1>2, <1>8, <2>1, Substituted
    <2>. QED
      BY <1>1, <1>8, <2>2 DEF in, currency
  <1>. QED
    BY <1>7, <1>8

LEMMA FactoryValuesOf ==
  ASSUME NEW a, NEW p, NEW d, Evaluated(a, p, d)
  PROVE  LET o == Overrides(Read(a, p), d)
             v == Varied(a, p, d)
         IN  /\ \A pool \in Pools :
                  Overridden(o.pools, pool, a.cells[PoolCell(pool)]) = v[PoolCell(pool)]
             /\ Overridden(o.share, "share", a.cells[ShareCell(CategoryOf[p])])
                  = v[ShareCell(CategoryOf[p])]
             /\ \A q \in PopulationOf(a, p) :
                  Overridden(o.predictions, q, a.cells[PredictionCell(NameOf[q])])
                    = v[PredictionCell(NameOf[q])]
  <1> DEFINE in == Read(a, p)
             o == Overrides(in, d)
             v == Varied(a, p, d)
             pools == {<<param.name, Value(a, p, d, param)>> : param \in Of(d, "pool")}
             shares == {<<"share", Value(a, p, d, param)>> : param \in Of(d, "share")}
             predictions == {<<p, Value(a, p, d, param)>> : param \in Of(d, "prediction")}
  <1>1. o.pools = ByKey(pools) /\ o.share = ByKey(shares)
    BY DEF Overrides, Value
  <1>2. o.predictions = ByKey(predictions)
    <2>1. in.product = p
      BY ReadLines
    <2>. QED
      BY <2>1 DEF Overrides, Value
  <1>3. CategoryOf[p] \in Categories /\ PopulationOf(a, p) \subseteq Products
    BY DashboardAssumption DEF DashboardAssumption, Evaluated, PopulationOf, Population
  <1>. HIDE DEF in, o, v
  <1>4. ASSUME NEW pool \in Pools
        PROVE  Overridden(o.pools, pool, a.cells[PoolCell(pool)]) = v[PoolCell(pool)]
    <2>1. \A param \in DOMAIN d :
            param.kind = "pool" /\ param.name = pool <=> CellOf(param) = PoolCell(pool)
      BY StandsFor DEF Evaluated, CellOf, PoolCell
    <2>2. \A pair \in pools : pair[1] = pool =>
            \E param \in DOMAIN d : /\ CellOf(param) = PoolCell(pool)
                                   /\ pair = <<pool, Value(a, p, d, param)>>
      BY <2>1 DEF Of
    <2>3. \A param \in DOMAIN d :
            CellOf(param) = PoolCell(pool) => <<pool, Value(a, p, d, param)>> \in pools
      BY <2>1 DEF Of
    <2>. HIDE DEF pools
    <2>4. Substitutes(pools, a, p, d, pool, PoolCell(pool))
      BY <2>2, <2>3 DEF Substitutes
    <2>. QED
      BY <1>1, <2>4, CellFacts, Substituted DEF v
  <1>5. Overridden(o.share, "share", a.cells[ShareCell(CategoryOf[p])])
          = v[ShareCell(CategoryOf[p])]
    <2>1. \A param \in DOMAIN d :
            param.kind = "share" <=> CellOf(param) = ShareCell(CategoryOf[p])
      <3>1. ShareCell(CategoryOf[p]).source = "weights"
        BY DEF ShareCell
      <3>2. \A param \in DOMAIN d :
              /\ param.kind = "share" => CellOf(param) = ShareCell(CategoryOf[p])
              /\ CellOf(param).source = "weights" <=> param.kind = "share"
        BY StandsFor DEF Evaluated
      <3>. QED
        BY <3>1, <3>2
    <2>2. \A pair \in shares :
            \E param \in DOMAIN d : /\ CellOf(param) = ShareCell(CategoryOf[p])
                                   /\ pair = <<"share", Value(a, p, d, param)>>
      BY <2>1 DEF Of
    <2>3. \A param \in DOMAIN d : CellOf(param) = ShareCell(CategoryOf[p]) =>
            <<"share", Value(a, p, d, param)>> \in shares
      BY <2>1 DEF Of
    <2>. HIDE DEF shares
    <2>4. Substitutes(shares, a, p, d, "share", ShareCell(CategoryOf[p]))
      BY <2>2, <2>3 DEF Substitutes
    <2>. QED
      BY <1>1, <1>3, <2>4, CellFacts, Substituted DEF v
  <1>6. ASSUME NEW q \in PopulationOf(a, p)
        PROVE  Overridden(o.predictions, q, a.cells[PredictionCell(NameOf[q])])
                 = v[PredictionCell(NameOf[q])]
    <2>1. q \in a.made /\ q \in Products
      BY <1>3 DEF PopulationOf, Population
    <2>2. \A param \in DOMAIN d :
            param.kind = "prediction" /\ q = p
              <=> CellOf(param) = PredictionCell(NameOf[q])
      BY <2>1, StandsFor DEF Evaluated, Stands, CellOf, PredictionCell
    <2>3. \A pair \in predictions : pair[1] = q =>
            \E param \in DOMAIN d : /\ CellOf(param) = PredictionCell(NameOf[q])
                                   /\ pair = <<q, Value(a, p, d, param)>>
      BY <2>2 DEF Of
    <2>4. \A param \in DOMAIN d : CellOf(param) = PredictionCell(NameOf[q]) =>
            <<q, Value(a, p, d, param)>> \in predictions
      BY <2>2 DEF Of
    <2>. HIDE DEF predictions
    <2>5. Substitutes(predictions, a, p, d, q, PredictionCell(NameOf[q]))
      BY <2>3, <2>4 DEF Substitutes
    <2>. QED
      BY <1>2, <2>1, <2>5, CellFacts, Substituted DEF v
  <1>. QED
    BY <1>4, <1>5, <1>6 DEF o, in, v

(* A line with overrides, field by field.                                  *)
LEMMA LineChanged ==
  ASSUME NEW c, NEW p, NEW i, NEW o
  PROVE  LET line == LineRead(c, p, i)
         IN  LineWith(line, o) =
               [row |-> i, material |-> line["material"], currency |-> line["currency"],
                price |-> Overridden(o.prices, i, line.price),
                fx |-> Overridden(o.rates, line["currency"], line.fx),
                usage |-> 1, loss |-> 0, recyclability |-> 0]
  <1> DEFINE line == LineRead(c, p, i)
             material == line["material"]
             currency == line["currency"]
             A == Overridden(o.prices, line.row, line.price)
             B == Overridden(o.rates, line.currency, line.fx)
  <1>1. LineWith(line, o) = [line EXCEPT !.price = A, !.fx = B]
    BY DEF LineWith
  <1>2. line = [row |-> i, material |-> material, currency |-> currency,
                price |-> line.price, fx |-> line.fx,
                usage |-> 1, loss |-> 0, recyclability |-> 0]
    BY DEF LineRead
  <1>3. line.row = i
    BY DEF LineRead
  <1>. HIDE DEF line, material, currency, A, B
  <1>4. PICK priced : priced = [line EXCEPT !.price = A]
    OBVIOUS
  <1>5. priced = [row |-> i, material |-> material, currency |-> currency,
                  price |-> A, fx |-> line.fx, usage |-> 1, loss |-> 0, recyclability |-> 0]
    BY <1>2, <1>4
  <1>6. [priced EXCEPT !.fx = B] =
          [row |-> i, material |-> material, currency |-> currency,
           price |-> A, fx |-> B, usage |-> 1, loss |-> 0, recyclability |-> 0]
    BY <1>5
  <1>7. [line EXCEPT !.price = A, !.fx = B] = [priced EXCEPT !.fx = B]
    BY <1>4
  <1>8. LineWith(line, o) =
          [row |-> i, material |-> material, currency |-> currency,
           price |-> A, fx |-> B, usage |-> 1, loss |-> 0, recyclability |-> 0]
    BY <1>1, <1>6, <1>7
  <1>. QED
    BY <1>3, <1>8 DEF A, B, material, currency, line

(* Inputs with a draft's overrides are those read from the edited cells.   *)
LEMMA OverridesAreEdits ==
  ASSUME NEW a, NEW p, NEW d, Evaluated(a, p, d)
  PROVE  WithOverrides(Read(a, p), Overrides(Read(a, p), d))
           = Reading(Varied(a, p, d), p, PopulationOf(a, p))
  <1> DEFINE in == Read(a, p)
             o == Overrides(in, d)
             v == Varied(a, p, d)
             P == PopulationOf(a, p)
  <1>1. /\ DOMAIN in.lines = DOMAIN BomOf[p] /\ in.product = p
        /\ \A i \in DOMAIN BomOf[p] : in.lines[i] = LineRead(a.cells, p, i)
        /\ in.share = a.cells[ShareCell(CategoryOf[p])]
        /\ in.predictions = [q \in P |-> a.cells[PredictionCell(NameOf[q])]]
        /\ in.pools = [pool \in Pools |-> a.cells[PoolCell(pool)]]
    BY DEF Read, Reading
  <1>2. ASSUME NEW i \in DOMAIN BomOf[p]
        PROVE  LineWith(LineRead(a.cells, p, i), o) = LineRead(v, p, i)
    <2> DEFINE m == BomOf[p][i]
               line == LineRead(a.cells, p, i)
    <2>1. /\ line["material"] = m /\ line["currency"] = CurrencyOf[m]
          /\ line.price = a.cells[PriceCell(m)]
          /\ line.fx = IF CurrencyOf[m] = Rial THEN 1
                                               ELSE a.cells[PriceCell(CurrencyOf[m])]
      BY DEF LineRead
    <2>2. Overridden(o.prices, i, a.cells[PriceCell(m)]) = v[PriceCell(m)]
      BY PricesOf
    <2>3. Overridden(o.rates, CurrencyOf[m],
                     IF CurrencyOf[m] = Rial THEN 1 ELSE a.cells[PriceCell(CurrencyOf[m])])
            = IF CurrencyOf[m] = Rial THEN 1 ELSE v[PriceCell(CurrencyOf[m])]
      BY RatesOf
    <2>4. LineWith(line, o) =
            [row |-> i, material |-> line["material"], currency |-> line["currency"],
             price |-> Overridden(o.prices, i, line.price),
             fx |-> Overridden(o.rates, line["currency"], line.fx),
             usage |-> 1, loss |-> 0, recyclability |-> 0]
      BY LineChanged
    <2>. HIDE DEF o, v, line
    <2>5. /\ Overridden(o.prices, i, line.price) = v[PriceCell(m)]
          /\ Overridden(o.rates, line["currency"], line.fx)
               = IF CurrencyOf[m] = Rial THEN 1 ELSE v[PriceCell(CurrencyOf[m])]
      BY <2>1, <2>2, <2>3
    <2>6. LineWith(line, o) = LineRead(v, p, i)
      BY <2>1, <2>4, <2>5 DEF LineRead
    <2>. QED
      BY <2>6 DEF line
  <1>3. /\ \A pool \in Pools :
             Overridden(o.pools, pool, a.cells[PoolCell(pool)]) = v[PoolCell(pool)]
        /\ Overridden(o.share, "share", a.cells[ShareCell(CategoryOf[p])])
             = v[ShareCell(CategoryOf[p])]
        /\ \A q \in P :
             Overridden(o.predictions, q, a.cells[PredictionCell(NameOf[q])])
               = v[PredictionCell(NameOf[q])]
    BY FactoryValuesOf
  <1>. HIDE DEF in, o, v, P
  <1>4. WithOverrides(in, o) = Reading(v, p, P)
    BY <1>1, <1>2, <1>3 DEF WithOverrides, Reading
  <1>. QED
    BY <1>4 DEF in, o, v, P

LEMMA NoOverridesAtAll ==
  ASSUME NEW c, NEW p, NEW P
  PROVE  WithOverrides(Reading(c, p, P), NoOverrides) = Reading(c, p, P)
  <1> DEFINE in == Reading(c, p, P)
  <1>1. \A k, x : /\ Overridden(NoOverrides.prices, k, x) = x
                  /\ Overridden(NoOverrides.rates, k, x) = x
                  /\ Overridden(NoOverrides.pools, k, x) = x
                  /\ Overridden(NoOverrides.share, k, x) = x
                  /\ Overridden(NoOverrides.predictions, k, x) = x
    BY DEF NoOverrides, Overridden
  <1>2. ASSUME NEW i \in DOMAIN BomOf[p]
        PROVE  LineWith(LineRead(c, p, i), NoOverrides) = LineRead(c, p, i)
    <2> DEFINE line == LineRead(c, p, i)
    <2>1. LineWith(line, NoOverrides) =
            [row |-> i, material |-> line["material"], currency |-> line["currency"],
             price |-> Overridden(NoOverrides.prices, i, line.price),
             fx |-> Overridden(NoOverrides.rates, line["currency"], line.fx),
             usage |-> 1, loss |-> 0, recyclability |-> 0]
      BY LineChanged
    <2>2. line = [row |-> i, material |-> line["material"], currency |-> line["currency"],
                  price |-> line.price, fx |-> line.fx,
                  usage |-> 1, loss |-> 0, recyclability |-> 0]
      BY DEF LineRead
    <2>. HIDE DEF line
    <2>3. LineWith(line, NoOverrides) = line
      BY <1>1, <2>1, <2>2
    <2>. QED
      BY <2>3 DEF line
  <1>3. in = [product |-> p,
              lines |-> [i \in DOMAIN BomOf[p] |-> LineRead(c, p, i)],
              share |-> c[ShareCell(CategoryOf[p])],
              predictions |-> [q \in P |-> c[PredictionCell(NameOf[q])]],
              pools |-> [pool \in Pools |-> c[PoolCell(pool)]]]
    BY DEF Reading
  <1>4. /\ in.product = p /\ DOMAIN in.lines = DOMAIN BomOf[p]
        /\ \A i \in DOMAIN BomOf[p] : in.lines[i] = LineRead(c, p, i)
        /\ in.lines = [i \in DOMAIN BomOf[p] |-> LineRead(c, p, i)]
        /\ in.share = c[ShareCell(CategoryOf[p])]
        /\ in.predictions = [q \in DOMAIN in.predictions |-> in.predictions[q]]
        /\ in.pools = [pool \in DOMAIN in.pools |-> in.pools[pool]]
        /\ in = [product |-> in.product, lines |-> in.lines, share |-> in.share,
                 predictions |-> in.predictions, pools |-> in.pools]
    BY <1>3
  <1>. HIDE DEF in
  <1>5. [i \in DOMAIN in.lines |-> LineWith(in.lines[i], NoOverrides)] = in.lines
    BY <1>2, <1>4
  <1>6. WithOverrides(in, NoOverrides) = in
    BY <1>1, <1>4, <1>5 DEF WithOverrides
  <1>. QED
    BY <1>6 DEF in

(* The edited cells can be loaded when no value proposed is negative.      *)
LEMMA EditsLoad ==
  ASSUME NEW a, NEW p, NEW d, Evaluated(a, p, d)
  PROVE  Loads(Varied(a, p, d), p, PopulationOf(a, p)) <=>
           \A param \in DOMAIN d : Value(a, p, d, param) >= 0
  <1> DEFINE v == Varied(a, p, d)
             P == PopulationOf(a, p)
  <1>1. /\ \A param \in DOMAIN d : v[CellOf(param)] = Value(a, p, d, param)
        /\ \A c \in Cells : (\A param \in DOMAIN d : CellOf(param) # c) =>
             v[c] = a.cells[c]
    BY VariedCells
  <1>2. \A param \in DOMAIN d : Value(a, p, d, param) \in Int
    BY ValueIsInt
  <1>3. \A param \in DOMAIN d :
          /\ CellOf(param) \in Cells /\ Stands(param, a.made, p)
          /\ param.kind \in {"material", "fx"} => CellOf(param) = PriceCell(param.name)
          /\ param.kind = "pool" => CellOf(param) = PoolCell(param.name)
          /\ param.kind = "share" => CellOf(param) = ShareCell(CategoryOf[p])
          /\ param.kind = "prediction" => CellOf(param) = PredictionCell(NameOf[p])
    BY StandsFor DEF Evaluated
  <1>. HIDE DEF v
  <1>4. ASSUME Loads(v, p, P), NEW param \in DOMAIN d
        PROVE  Value(a, p, d, param) >= 0
    <2>1. Sound(v[CellOf(param)])
      BY <1>3, <1>4 DEF Loads, Priced, Stands, Evaluated
    <2>. QED
      BY <1>1, <2>1 DEF Sound
  <1>5. ASSUME \A param \in DOMAIN d : Value(a, p, d, param) >= 0
        PROVE  Loads(v, p, P)
    <2>1. ASSUME NEW c \in Cells, Sound(a.cells[c])
          PROVE  Sound(v[c])
      <3>1. CASE \E param \in DOMAIN d : CellOf(param) = c
        BY <1>1, <1>2, <1>5, <3>1 DEF Sound
      <3>2. CASE \A param \in DOMAIN d : CellOf(param) # c
        BY <1>1, <2>1, <3>2
      <3>. QED
        BY <3>1, <3>2
    <2>2. Loads(a.cells, p, P) /\ P \subseteq Products /\ p \in Products
      BY DEF Evaluated, PopulationOf, Population
    <2>. HIDE DEF P
    <2>3. \A i \in DOMAIN BomOf[p] :
            LET m == BomOf[p][i]
            IN  /\ m \in Materials
                /\ CurrencyOf[m] # Rial => CurrencyOf[m] \in Materials
      BY <2>2, DashboardAssumption DEF DashboardAssumption
    <2>4. ASSUME NEW i \in DOMAIN BomOf[p]
          PROVE  Priced(v, BomOf[p][i])
      <3>1. Priced(a.cells, BomOf[p][i])
        BY <2>2 DEF Loads
      <3>. QED
        BY <2>1, <2>3, <3>1, CellFacts DEF Priced
    <2>5. CategoryOf[p] \in Categories
      BY <2>2, DashboardAssumption DEF DashboardAssumption
    <2>. QED
      BY <2>1, <2>2, <2>4, <2>5, CellFacts DEF Loads
  <1>. QED
    BY <1>4, <1>5 DEF v

(* What is calculated from cells.                                          *)
LEMMA CostOfCells ==
  ASSUME NEW c \in [Cells -> Contents], NEW p \in Products, NEW all \in SUBSET Products
  PROVE  LET P == Population(all, p)
             in == Reading(c, p, P)
         IN  /\ ~Loads(c, p, P) => CostWith(c, all, p).code # "OK"
             /\ Loads(c, p, P) => CostWith(c, all, p) =
                  IF CostProblem(in) = "OK"
                    THEN [code |-> "OK", cost |-> UnitCost(in)]
                    ELSE [code |-> CostProblem(in)]
  <1> DEFINE P == Population(all, p)
             in == Reading(c, p, P)
             code == LoadProblem(Documents(c, p), CategoryOf[p], P)
  <1>1. P \in SUBSET Products
    BY DEF Population
  <1>2. code = "OK" <=> Loads(c, p, P)
    BY <1>1, LoadsWhen
  <1>3. CostWith(c, all, p) =
          IF code = "OK"
            THEN Cost(Inputs(Documents(c, p), p, CategoryOf[p], P), NoOverrides)
            ELSE [code |-> code]
    BY DEF CostWith, CostFrom
  <1>. HIDE DEF code, P
  <1>4. CASE ~Loads(c, p, P)
    BY <1>2, <1>3, <1>4 DEF P
  <1>5. CASE Loads(c, p, P)
    <2>1. CostWith(c, all, p) = Cost(in, NoOverrides)
      BY <1>1, <1>2, <1>3, <1>5, InputsRead
    <2>2. WithOverrides(in, NoOverrides) = in
      BY NoOverridesAtAll
    <2>. HIDE DEF in
    <2>. QED
      BY <1>5, <2>1, <2>2 DEF Cost, P, in
  <1>. QED
    BY <1>4, <1>5 DEF P

(* What can be calculated after the edit had values in their domains.      *)
LEMMA EditedInDomain ==
  ASSUME NEW a, NEW p, NEW d, Evaluated(a, p, d),
         Loads(Varied(a, p, d), p, PopulationOf(a, p)),
         CostProblem(Reading(Varied(a, p, d), p, PopulationOf(a, p))) = "OK",
         NEW param \in DOMAIN d
  PROVE  InDomain(Read(a, p), param, Value(a, p, d, param))
  <1> DEFINE v == Varied(a, p, d)
             P == PopulationOf(a, p)
             new == Reading(v, p, P)
             value == Value(a, p, d, param)
             n == Len(BomOf[p])
  <1>1. value >= 0 /\ value \in Int /\ v[CellOf(param)] = value
    BY EditsLoad, ValueIsInt, VariedCells
  <1>2. n \in Nat /\ DOMAIN BomOf[p] = 1 .. n
    BY DashboardAssumption DEF DashboardAssumption, Evaluated
  <1>3. DOMAIN new.lines = 1 .. n /\ new.share = v[ShareCell(CategoryOf[p])]
        /\ \A i \in 1 .. n : new.lines[i] = LineRead(v, p, i)
    BY <1>2 DEF Reading
  <1>. HIDE DEF v, new, n, P, value
  <1>4. CostProblem(new) = "OK"
    BY DEF new, v, P
  <1>5. /\ new.share \in 1 .. 100
        /\ \A i \in 1 .. n : LiveProblem(new.lines[i]) = "OK"
    BY <1>2, <1>3, <1>4, CalculatedFrom
  <1>6. param.kind = "share" => value > 0 /\ value <= 100
    <2>1. param.kind = "share" => CellOf(param) = ShareCell(CategoryOf[p])
      BY StandsFor DEF Evaluated
    <2>2. param.kind = "share" => new.share = value
      BY <1>1, <1>3, <2>1
    <2>. QED
      BY <1>1, <1>5, <2>2
  <1>7. RatedBy(Read(a, p), param) # {} => value > 0
    <2> SUFFICES ASSUME RatedBy(Read(a, p), param) # {} PROVE value > 0
      OBVIOUS
    <2>1. param.kind \in {"material", "fx"} /\ param.name \in Currencies(Read(a, p))
      <3>1. param.kind \in {"material", "fx", "pool", "share", "prediction"}
        BY DEF Evaluated, Stands
      <3>. QED
        BY <3>1 DEF RatedBy, GroupOf
    <2>2. PICK i \in 1 .. n : CurrencyOf[BomOf[p][i]] = param.name /\ param.name # Rial
      BY <1>2, <2>1, ReadLines
    <2>3. CellOf(param) = PriceCell(param.name)
      BY <2>1, StandsFor DEF Evaluated
    <2>4. new.lines[i].fx = value
      <3>1. LineRead(v, p, i).fx = v[PriceCell(param.name)]
        BY <2>2 DEF LineRead
      <3>. QED
        BY <1>1, <1>3, <2>3, <3>1
    <2>5. ~(new.lines[i].fx <= 0)
      BY <1>5 DEF LiveProblem
    <2>. QED
      BY <1>1, <2>4, <2>5
  <1>8. InDomain(Read(a, p), param, value)
    BY <1>1, <1>6, <1>7 DEF InDomain
  <1>. QED
    BY <1>8 DEF value

LEMMA ValueProblemOf ==
  ASSUME NEW in, NEW d
  PROVE  ValueProblem(in, d) = "OK" <=>
           /\ \A param \in DOMAIN d : InDomain(in, param, Final(in, param, d[param]))
           /\ PredictionTotal(WithOverrides(in, Overrides(in, d))) > 0
  <1> DEFINE values == IF \A param \in DOMAIN d :
                            InDomain(in, param, Final(in, param, d[param]))
                         THEN "OK" ELSE "FINAL_VALUE_OUT_OF_DOMAIN"
             total == IF PredictionTotal(WithOverrides(in, Overrides(in, d))) > 0
                        THEN "OK" ELSE "INVALID_PREDICTION_DENOMINATOR"
             codes == <<values, total>>
  <1>1. ValueProblem(in, d) = FirstProblem(codes)
    BY DEF ValueProblem
  <1>. HIDE DEF values, total
  <1>2. DOMAIN codes = 1 .. 2 /\ codes[1] = values /\ codes[2] = total
    OBVIOUS
  <1>. HIDE DEF codes
  <1>3. FirstProblem(codes) = "OK" <=> values = "OK" /\ total = "OK"
    BY <1>2, NoFirstProblem
  <1>. QED
    BY <1>1, <1>3 DEF values, total

(* Varying parameters is editing their cells.                              *)
LEMMA EditedScenario ==
  ASSUME NEW a, NEW p, NEW d, Evaluated(a, p, d), NEW registry,
         DraftProblem(Read(a, p), d, registry) = "OK"
  PROVE  LET edited == CostWith(Varied(a, p, d), a.made, p)
             answer == Scenario(Read(a, p), d, registry)
         IN  IF edited.code = "OK" THEN answer = edited ELSE answer.code # "OK"
  <1> DEFINE in == Read(a, p)
             v == Varied(a, p, d)
             P == PopulationOf(a, p)
             new == Reading(v, p, P)
             o == Overrides(in, d)
             edited == CostWith(v, a.made, p)
             answer == Scenario(in, d, registry)
             cost == IF CostProblem(new) = "OK"
                       THEN [code |-> "OK", cost |-> UnitCost(new)]
                       ELSE [code |-> CostProblem(new)]
  <1>1. WithOverrides(in, o) = new
    BY OverridesAreEdits
  <1>2. /\ ~Loads(v, p, P) => edited.code # "OK"
        /\ Loads(v, p, P) => edited = cost
    <2>1. v \in [Cells -> Contents]
      BY VariedCells
    <2>2. a.made \in SUBSET Products /\ p \in Products
      BY DEF Evaluated
    <2>. HIDE DEF v
    <2>. QED
      BY <2>1, <2>2, CostOfCells DEF PopulationOf
  <1>3. ValueProblem(in, d) = "OK" <=>
          /\ \A param \in DOMAIN d : InDomain(in, param, Value(a, p, d, param))
          /\ PredictionTotal(new) > 0
    <2>. HIDE DEF in, o, new
    <2>. QED
      BY <1>1, ValueProblemOf DEF Value, o, in
  <1>4. Loads(v, p, P) <=> \A param \in DOMAIN d : Value(a, p, d, param) >= 0
    BY EditsLoad
  <1>5. Loads(v, p, P) /\ CostProblem(new) = "OK" =>
          \A param \in DOMAIN d : InDomain(in, param, Value(a, p, d, param))
    BY EditedInDomain
  <1>6. CostProblem(new) = "OK" => PredictionTotal(new) > 0
    <2> DEFINE n == Len(BomOf[p])
    <2>1. n \in Nat /\ DOMAIN BomOf[p] = 1 .. n
      BY DashboardAssumption DEF DashboardAssumption, Evaluated
    <2>2. DOMAIN new.lines = 1 .. n
      BY <2>1 DEF Reading
    <2>. HIDE DEF n, new
    <2>. QED
      BY <2>1, <2>2, CalculatedFrom
  <1>7. answer = IF ValueProblem(in, d) # "OK" THEN [code |-> ValueProblem(in, d)]
                 ELSE cost
    <2>. HIDE DEF in, o, new
    <2>1. Cost(in, o) = cost
      BY <1>1 DEF Cost
    <2>. QED
      BY <2>1 DEF Scenario, in, o
  <1>8. \A param \in DOMAIN d : InDomain(in, param, Value(a, p, d, param)) =>
          Value(a, p, d, param) >= 0
    BY DEF InDomain
  <1>9. cost.code = "OK" <=> CostProblem(new) = "OK"
    OBVIOUS
  <1>. HIDE DEF in, v, P, new, o, edited, answer, cost
  <1>10. CASE edited.code = "OK"
    <2>1. Loads(v, p, P) /\ edited = cost
      BY <1>2, <1>10
    <2>2. CostProblem(new) = "OK"
      BY <1>9, <1>10, <2>1
    <2>3. ValueProblem(in, d) = "OK"
      BY <1>3, <1>5, <1>6, <2>1, <2>2
    <2>. QED
      BY <1>7, <1>10, <2>1, <2>3 DEF edited, answer, in, v
  <1>11. CASE edited.code # "OK"
    <2>1. CASE ValueProblem(in, d) # "OK"
      <3>1. answer.code = ValueProblem(in, d)
        BY <1>7, <2>1
      <3>. QED
        BY <1>11, <2>1, <3>1 DEF edited, answer, in, v
    <2>2. CASE ValueProblem(in, d) = "OK"
      <3>1. Loads(v, p, P)
        BY <1>3, <1>4, <1>8, <2>2
      <3>2. answer = edited
        BY <1>2, <1>7, <2>2, <3>1
      <3>. QED
        BY <1>11, <3>2 DEF edited, answer, in, v
    <2>. QED
      BY <2>1, <2>2
  <1>. QED
    BY <1>10, <1>11

-----------------------------------------------------------------------------
(* The captures that requests are answered from.                           *)

Captured(a) == a.cells \in [Cells -> Contents] /\ a.made \subseteq Products
CaptureOK(fl) ==
  /\ fl.answer \notin {None, Lost} => Captured(fl.answer)
  /\ fl.kind = "registry" => fl.product \in Products
CapturesInv ==
  /\ cells \in [Cells -> Contents] /\ made \subseteq Products
  /\ offered # None => offered \subseteq Products
  /\ tab = "sensitivity" => product \in Products \cup {None}
  /\ \A fl \in flights : CaptureOK(fl)

LEMMA InitCaptures == Init => CapturesInv
  BY DashboardAssumption DEF DashboardAssumption, Init, CapturesInv

LEMMA CancelledCaptures ==
  ASSUME NEW S, NEW kinds, \A fl \in S : Shaped(fl) /\ CaptureOK(fl)
  PROVE  \A gl \in Cancelled(kinds, S) : Shaped(gl) /\ CaptureOK(gl)
  <1> SUFFICES ASSUME NEW fl \in S, fl.kind \in kinds
               PROVE  LET gl == [fl EXCEPT !.current = FALSE]
                      IN  Shaped(gl) /\ CaptureOK(gl)
    BY DEF Cancelled
  <1> DEFINE gl == [fl EXCEPT !.current = FALSE]
  <1>1. /\ Shaped(gl) /\ gl.answer = fl.answer /\ gl.kind = fl.kind
        /\ gl.product = fl.product
    BY DEF Shaped
  <1>. HIDE DEF gl
  <1>2. CaptureOK(gl)
    BY <1>1 DEF CaptureOK
  <1>. QED
    BY <1>1, <1>2 DEF gl

LEMMA SentCaptures ==
  ASSUME NEW kind, NEW f, NEW p, NEW d, kind = "registry" => p \in Products
  PROVE  \A gl \in Sent(kind, f, p, d) : CaptureOK(gl)
  BY DEF Sent, CaptureOK

LEMMA UserCaptures ==
  ASSUME DashboardInv, CapturesInv, User
  PROVE  CapturesInv'
  <1>1. \A fl \in flights : Shaped(fl) /\ CaptureOK(fl)
    BY DEF DashboardInv, FlightsInv, CapturesInv
  <1>2. \A gl \in Invalidated(flights) : Shaped(gl) /\ CaptureOK(gl)
    BY <1>1, CancelledCaptures DEF Invalidated
  <1>3. \A kinds : \A gl \in Cancelled(kinds, Invalidated(flights)) : CaptureOK(gl)
    BY <1>2, CancelledCaptures
  <1>4. ASSUME NEW f \in Factories, ChooseFactory(f) PROVE CapturesInv'
    <2>1. \A gl \in flights' : CaptureOK(gl)
      BY <1>3, <1>4, SentCaptures DEF ChooseFactory
    <2>. QED
      BY <1>4, <2>1 DEF ChooseFactory, CapturesInv, server, CaptureOK
  <1>5. ASSUME NEW p \in Products \cup {All}, ChooseProduct(p) PROVE CapturesInv'
    <2>1. tab = "sensitivity" => p \in Products
      BY <1>5 DEF ChooseProduct, CapturesInv
    <2>2. \A gl \in flights' : CaptureOK(gl)
      BY <1>3, <1>5, <2>1, SentCaptures DEF ChooseProduct
    <2>. QED
      BY <1>5, <2>1, <2>2 DEF ChooseProduct, CapturesInv, server, CaptureOK
  <1>6. CASE Refresh
    <2>1. product \in Products
      BY <1>6 DEF Refresh, Complete, CapturesInv
    <2>2. \A gl \in flights' : CaptureOK(gl)
      BY <1>3, <1>6, <2>1, SentCaptures DEF Refresh
    <2>. QED
      BY <1>6, <2>2 DEF Refresh, CapturesInv, server, selects, CaptureOK
  <1>7. CASE Run
    <2>1. \A gl \in flights' : CaptureOK(gl)
      BY <1>3, <1>7, SentCaptures DEF Run
    <2>. QED
      BY <1>7, <2>1 DEF Run, CapturesInv, server, selects, CaptureOK
  <1>8. CASE Analyze
    <2>1. \A gl \in flights' : CaptureOK(gl)
      BY <1>2, <1>8, SentCaptures DEF Analyze
    <2>. QED
      BY <1>8, <2>1 DEF Analyze, CapturesInv, server, selects, CaptureOK
  <1>9. ASSUME NEW d, Drafted(d) PROVE CapturesInv'
    <2>1. \A gl \in flights' : CaptureOK(gl)
      BY <1>2, <1>9 DEF Drafted
    <2>. QED
      BY <1>9, <2>1 DEF Drafted, CapturesInv, server, selects, CaptureOK
  <1>. QED
    BY <1>4, <1>5, <1>6, <1>7, <1>8, <1>9
    DEF User, AddDraft, EditDraft, RemoveDraft, Reset

LEMMA ArriveCaptures ==
  ASSUME CapturesInv, NEW fl \in flights, Arrive(fl)
  PROVE  CapturesInv'
  <1>1. flights' = flights \ {fl} /\ UNCHANGED <<server, tab>>
    BY DEF Arrive, ArriveOptions, ArriveSensitivity, ArriveReport, Ignore, selects
  <1>2. \/ UNCHANGED <<product, offered>>
        \/ /\ product' = None
           /\ offered' # None => offered' \subseteq Products
    <2>1. CASE ArriveOptions(fl)
      BY <2>1 DEF ArriveOptions, CapturesInv, CaptureOK, Captured, ProductsOf
    <2>2. CASE ArriveSensitivity(fl) \/ ArriveReport(fl) \/ Ignore(fl)
      BY <2>2 DEF ArriveSensitivity, ArriveReport, Ignore, selects
    <2>. QED
      BY <2>1, <2>2 DEF Arrive
  <1>. QED
    BY <1>1, <1>2 DEF CapturesInv, CaptureOK, server

LEMMA NextCaptures ==
  ASSUME DashboardInv, CapturesInv, Next
  PROVE  CapturesInv'
  <1>1. ASSUME NEW fl \in flights, NEW x, x \notin {None, Lost} => Captured(x),
               flights' = (flights \ {fl}) \cup {[fl EXCEPT !.answer = x]},
               UNCHANGED <<server, selects>>
        PROVE  CapturesInv'
    <2> DEFINE gl == [fl EXCEPT !.answer = x]
    <2>1. gl.answer = x /\ gl.kind = fl.kind /\ gl.product = fl.product
      BY DEF DashboardInv, FlightsInv, Shaped
    <2>. HIDE DEF gl
    <2>2. CaptureOK(gl)
      BY <1>1, <2>1 DEF CapturesInv, CaptureOK
    <2>3. flights' = (flights \ {fl}) \cup {gl}
      BY <1>1 DEF gl
    <2>. QED
      BY <1>1, <2>2, <2>3 DEF CapturesInv, server, selects, CaptureOK
  <1>2. ASSUME NEW fl \in flights, Answer(fl) PROVE CapturesInv'
    BY <1>1, <1>2 DEF Answer, CapturesInv, Captured
  <1>3. ASSUME NEW fl \in flights, Fail(fl) PROVE CapturesInv'
    BY <1>1, <1>3 DEF Fail
  <1>4. ASSUME NEW change \in Changes, Edit(change) PROVE CapturesInv'
    <2>1. cells' \in [Cells -> Contents]
      BY <1>4, DashboardAssumption DEF DashboardAssumption, Edit, CapturesInv
    <2>. QED
      BY <1>4, <2>1 DEF Edit, CapturesInv, selects, CaptureOK
  <1>5. ASSUME NEW p \in Products, Make(p) PROVE CapturesInv'
    BY <1>5 DEF Make, CapturesInv, selects, CaptureOK
  <1>6. ASSUME NEW d \in Directories, ChangeAccess(d) PROVE CapturesInv'
    BY <1>6 DEF ChangeAccess, CapturesInv, selects, CaptureOK
  <1>. QED
    BY <1>2, <1>3, <1>4, <1>5, <1>6, UserCaptures, ArriveCaptures DEF Next

(* A product that a capture can calculate: what was read, and the answer.  *)
LEMMA BaselineIs ==
  ASSUME NEW a, Captured(a), NEW p \in Products, BaselineOf(a, p).code = "OK"
  PROVE  LET P == PopulationOf(a, p)
             in == Read(a, p)
         IN  /\ P \in SUBSET Products /\ a.made \in SUBSET Products /\ p \in P
             /\ Loads(a.cells, p, P) /\ CostProblem(in) = "OK"
             /\ in.share \in 1 .. 100 /\ PredictionTotal(in) > 0
             /\ InputsFrom(a, p) = in /\ BaselineOf(a, p).cost = UnitCost(in)
  <1> DEFINE P == PopulationOf(a, p)
             in == Read(a, p)
             n == Len(BomOf[p])
  <1>1. P \in SUBSET Products /\ a.made \in SUBSET Products
    BY DEF PopulationOf, Population, Captured
  <1>2. /\ ~Loads(a.cells, p, P) => BaselineOf(a, p).code # "OK"
        /\ Loads(a.cells, p, P) => BaselineOf(a, p) =
             IF CostProblem(in) = "OK" THEN [code |-> "OK", cost |-> UnitCost(in)]
                                       ELSE [code |-> CostProblem(in)]
    BY <1>1, CostOfCells DEF Captured, BaselineOf, Read, PopulationOf
  <1>3. Loads(a.cells, p, P) /\ CostProblem(in) = "OK"
        /\ BaselineOf(a, p).cost = UnitCost(in)
    <2>. HIDE DEF P, in
    <2>. QED
      BY <1>2
  <1>4. InputsFrom(a, p) = in
    BY <1>1, <1>3, InputsRead DEF Captured, InputsFrom, Read, PopulationOf
  <1>5. n \in Nat /\ DOMAIN BomOf[p] = 1 .. n
    BY DashboardAssumption DEF DashboardAssumption
  <1>6. DOMAIN in.lines = 1 .. n /\ in.product = p /\ DOMAIN in.predictions = P
    BY <1>5 DEF Read, Reading
  <1>. HIDE DEF P, in, n
  <1>7. in.share \in 1 .. 100 /\ in.product \in DOMAIN in.predictions
        /\ PredictionTotal(in) > 0
    BY <1>3, <1>5, <1>6, CalculatedFrom
  <1>. QED
    BY <1>1, <1>3, <1>4, <1>6, <1>7 DEF P, in

(* Drafts of what the registry offers come from a product that can be      *)
(* calculated.                                                             *)
LEMMA DraftIsEvaluated ==
  ASSUME NEW a, Captured(a), NEW p \in Products, NEW d \in Drafts,
         DraftProblem(InputsFrom(a, p), d, RegistryOf(a, p)) = "OK"
  PROVE  Evaluated(a, p, d) /\ InputsFrom(a, p) = Read(a, p)
  <1>1. PICK S \in Combinations : d \in [S -> Entries]
    BY DEF Drafts
  <1>2. /\ DOMAIN d # {} /\ \A param \in DOMAIN d : d[param] \in Entries
    BY <1>1, DashboardAssumption DEF DashboardAssumption
  <1>3. DOMAIN d \subseteq RegistryOf(a, p) /\ ~Conflicting(d)
    BY DEF DraftProblem
  <1>4. BaselineOf(a, p).code = "OK"
    BY <1>2, <1>3 DEF RegistryOf
  <1>5. /\ Loads(a.cells, p, PopulationOf(a, p)) /\ p \in PopulationOf(a, p)
        /\ InputsFrom(a, p) = Read(a, p)
    BY <1>4, BaselineIs
  <1>6. \A param \in DOMAIN d : Stands(param, a.made, p)
    BY <1>3, <1>4, <1>5, RegistryStands DEF RegistryOf, Captured
  <1>. QED
    BY <1>2, <1>3, <1>5, <1>6 DEF Evaluated, Captured

LEMMA ScenariosAreEdits == CapturesInv => ScenarioIsAnEdit
  <1> SUFFICES ASSUME CapturesInv, NEW fl \in flights, fl.kind = "registry",
                      fl.answer \notin {None, Lost}, NEW d \in Drafts,
                      DraftProblem(InputsFrom(fl.answer, fl.product), d,
                                   RegistryOf(fl.answer, fl.product)) = "OK"
               PROVE  LET a == fl.answer
                          p == fl.product
                          edited == CostWith(Varied(a, p, d), a.made, p)
                          answer == ScenarioOf(a, p, d)
                      IN  IF edited.code = "OK" THEN answer = edited
                                                ELSE answer.code # "OK"
    BY DEF ScenarioIsAnEdit
  <1>1. Captured(fl.answer) /\ fl.product \in Products
    BY DEF CapturesInv, CaptureOK
  <1>2. /\ Evaluated(fl.answer, fl.product, d)
        /\ InputsFrom(fl.answer, fl.product) = Read(fl.answer, fl.product)
    BY <1>1, DraftIsEvaluated
  <1>. QED
    BY <1>2, EditedScenario DEF ScenarioOf

(* A scenario costs what the product would cost if the cells its           *)
(* parameters stand for held the final values, and is refused when that    *)
(* could not be calculated: for any documents, bills of materials, shared  *)
(* names and drafts, and although it is computed another way, by           *)
(* overriding the inputs that were read.                                   *)
THEOREM ScenarioIsAlwaysAnEdit == Spec => []ScenarioIsAnEdit
  <1>1. DashboardInv /\ CapturesInv /\ [Next]_vars => CapturesInv'
    <2>1. CapturesInv /\ UNCHANGED vars => CapturesInv'
      BY DEF CapturesInv, CaptureOK, vars, server, selects
    <2>. QED
      BY <2>1, NextCaptures
  <1>. QED
    BY <1>1, InitCaptures, ScenariosAreEdits, DashboardAlways, PTL DEF Spec

-----------------------------------------------------------------------------
(* What a report comes to.                                                 *)

(* The part of a driver in what a product's production costs.              *)
PartOf(in, driver) ==
  IF driver = "BOM" THEN Projected(in, BomTotal(in)) ELSE Contribution(in, driver)

(* What a product that was calculated is reported from.                    *)
Reported(in, pools) ==
  Figures(in) /\ DOMAIN in.pools = pools /\ BomTotal(in) \in Fractions

(* The drivers of one product add up to what its production costs.         *)
LEMMA PartsAddUp ==
  ASSUME NEW pools, IsFiniteSet(pools), "BOM" \notin pools,
         NEW in, Reported(in, pools)
  PROVE  /\ UnitCost(in) \in Fractions
         /\ \A d \in pools \cup {"BOM"} : PartOf(in, d) \in Fractions
         /\ Total([d \in pools \cup {"BOM"} |-> PartOf(in, d)])
              = Projected(in, UnitCost(in))
  <1> DEFINE z == Whole(Prediction(in))
             B == BomTotal(in)
             f == [pool \in pools |-> PerUnit(in, pool)]
             parts == [d \in pools \cup {"BOM"} |-> PartOf(in, d)]
  <1>1. z \in Fractions /\ B \in Fractions
    <2>1. Prediction(in) \in Int
      BY DEF Reported, Figures, Prediction
    <2>. QED
      BY <2>1, WholeParts DEF Reported
  <1>2. f \in [pools -> Fractions]
    <2>1. ASSUME NEW pool \in pools PROVE PerUnit(in, pool) \in Fractions
      <3>1. Figures(in) /\ pool \in DOMAIN in.pools
        BY DEF Reported
      <3>. QED
        BY <3>1, ContributionIs, FractionType
    <2>. QED
      BY <2>1
  <1>3. DriverTotal(in) = Total(f)
    BY DEF DriverTotal, Reported
  <1>4. PartOf(in, "BOM") = Times(B, z)
        /\ \A pool \in pools : PartOf(in, pool) = Times(f[pool], z)
    BY DEF PartOf, Projected, Contribution, Prediction
  <1>. HIDE DEF z, B, f
  <1>5. Total(f) \in Fractions
    BY <1>2, TotalType
  <1>6. UnitCost(in) = Plus(B, Total(f)) /\ UnitCost(in) \in Fractions
    BY <1>1, <1>3, <1>5, PlusType DEF UnitCost, B
  <1>7. Projected(in, UnitCost(in)) = Plus(Times(B, z), Times(Total(f), z))
    BY <1>1, <1>5, <1>6, TimesDistributes DEF Projected, z
  <1>8. Times(Total(f), z) = Total([pool \in pools |-> Times(f[pool], z)])
    BY <1>1, <1>2, TotalTimes
  <1>9. parts \in [pools \cup {"BOM"} -> Fractions]
    <2>1. ASSUME NEW d \in pools \cup {"BOM"} PROVE PartOf(in, d) \in Fractions
      BY <1>1, <1>2, <1>4, TimesType
    <2>. QED
      BY <2>1
  <1>10. /\ parts["BOM"] = Times(B, z)
         /\ [pool \in pools |-> parts[pool]] = [pool \in pools |-> Times(f[pool], z)]
    BY <1>4
  <1>11. \A d \in pools \cup {"BOM"} : PartOf(in, d) \in Fractions
    BY <1>9
  <1>. HIDE DEF parts
  <1>12. Total(parts) = Plus(parts["BOM"], Total([pool \in pools |-> parts[pool]]))
    BY <1>9, TotalAdds
  <1>. QED
    BY <1>6, <1>7, <1>8, <1>10, <1>11, <1>12 DEF parts

(* The drivers of a report add up to what the production of its products   *)
(* costs.                                                                  *)
LEMMA DriversAddUp ==
  ASSUME NEW pools, IsFiniteSet(pools), "BOM" \notin pools,
         NEW C, IsFiniteSet(C), NEW inputs, \A p \in C : Reported(inputs[p], pools)
  PROVE  Total([d \in pools \cup {"BOM"} |-> DriverOf(inputs, C, d)])
           = Total([p \in C |-> Projected(inputs[p], UnitCost(inputs[p]))])
  <1> DEFINE D == pools \cup {"BOM"}
             m == [d \in D |-> [p \in C |-> PartOf(inputs[p], d)]]
  <1>1. IsFiniteSet(D)
    BY FS_AddElement
  <1>2. \A p \in C : /\ \A d \in D : PartOf(inputs[p], d) \in Fractions
                     /\ Total([d \in D |-> PartOf(inputs[p], d)])
                          = Projected(inputs[p], UnitCost(inputs[p]))
    BY PartsAddUp
  <1>3. \A d \in D : DriverOf(inputs, C, d) = Total(m[d])
    BY DEF DriverOf, PartOf
  <1>4. m \in [D -> [C -> Fractions]]
    BY <1>2
  <1>5. \A p \in C : [d \in D |-> m[d][p]] = [d \in D |-> PartOf(inputs[p], d)]
    OBVIOUS
  <1>. HIDE DEF m, D
  <1>6. Total([d \in D |-> Total(m[d])])
          = Total([p \in C |-> Total([d \in D |-> m[d][p]])])
    BY <1>1, <1>4, TotalExchange
  <1>7. [p \in C |-> Total([d \in D |-> m[d][p]])]
          = [p \in C |-> Projected(inputs[p], UnitCost(inputs[p]))]
    BY <1>2, <1>5
  <1>8. [d \in D |-> DriverOf(inputs, C, d)] = [d \in D |-> Total(m[d])]
    BY <1>3
  <1>. QED
    BY <1>6, <1>7, <1>8 DEF D

(* What the state of a report says.                                        *)
LEMMA StateMeans ==
  ASSUME NEW answers, \A p \in DOMAIN answers : answers[p].code \in Codes
  PROVE  LET S == DOMAIN answers
             C == CalculatedOf(answers)
             state == ReportState(answers)
         IN  /\ state \in {"OK", "NO_MATCH"} <=> C = S
             /\ C # {} => state = IF C = S THEN "OK" ELSE "PARTIAL"
             /\ C \subseteq S
  <1> DEFINE S == DOMAIN answers
             C == CalculatedOf(answers)
             states == {StateOf(answers[p].code) : p \in S \ C}
             three == {"MISSING_INPUT", "AMBIGUOUS_INPUT", "INVALID_INPUT"}
  <1>1. C \subseteq S /\ \A p \in S \ C : answers[p].code # "OK"
    BY DEF CalculatedOf
  <1>2. \A p \in S \ C : StateOf(answers[p].code) \in three
    BY <1>1 DEF StateOf, Codes
  <1>3. states \subseteq three
    BY <1>2
  <1>4. ReportState(answers) = IF S = {} THEN "NO_MATCH" ELSE IF C = S THEN "OK"
          ELSE IF C # {} THEN "PARTIAL"
          ELSE IF Cardinality(states) = 1 THEN CHOOSE s \in states : TRUE
                                          ELSE "UNAVAILABLE"
    BY DEF ReportState
  <1>5. S # {} /\ C = {} => (CHOOSE s \in states : TRUE) \in three
    <2>1. S # {} /\ C = {} => states # {}
      OBVIOUS
    <2>. HIDE DEF states
    <2>. QED
      BY <1>3, <2>1
  <1>. HIDE DEF states, S, C
  <1>. QED
    BY <1>1, <1>4, <1>5 DEF S, C

(* A report adds up when the answers it is made of are costs of the inputs *)
(* it has, or codes.                                                       *)
LEMMA ReportsAddUp ==
  ASSUME NEW pools, IsFiniteSet(pools), "BOM" \notin pools, NEW categoryOf,
         NEW answers, IsFiniteSet(DOMAIN answers), NEW inputs,
         \A p \in DOMAIN answers : answers[p].code \in Codes,
         \A p \in CalculatedOf(answers) :
           Reported(inputs[p], pools) /\ answers[p].cost = UnitCost(inputs[p])
  PROVE  LET report == Report(answers, inputs, categoryOf, pools)
             costs == {answers[p].cost : p \in CalculatedOf(answers)}
         IN  /\ costs # {} => Total(report.drivers) =
                  IF report.state = "OK" THEN report.projected_total
                                         ELSE report.partial_total
             /\ report.average # None =>
                  \E low, high \in costs :
                    Below(low, report.average) /\ Below(report.average, high)
             /\ report.projected_total # None => DOMAIN answers = CalculatedOf(answers)
             /\ report.coverage.excluded = 0 <=> report.state \in {"OK", "NO_MATCH"}
  <1> DEFINE S == DOMAIN answers
             C == CalculatedOf(answers)
             report == Report(answers, inputs, categoryOf, pools)
             costs == {answers[p].cost : p \in C}
             total == Total([p \in C |-> Projected(inputs[p], answers[p].cost)])
             quantity == QuantityOf(answers, inputs)
             drivers == [d \in pools \cup {"BOM"} |-> DriverOf(inputs, C, d)]
             state == ReportState(answers)
  <1>1. C \subseteq S /\ IsFiniteSet(C)
    BY FS_Subset DEF CalculatedOf
  <1>2. /\ state \in {"OK", "NO_MATCH"} <=> C = S
        /\ C # {} => state = IF C = S THEN "OK" ELSE "PARTIAL"
    BY StateMeans
  <1>3. /\ report.state = state /\ report.coverage = Coverage(answers)
        /\ report.projected_total = IF state = "OK" THEN total ELSE None
        /\ report.partial_total = IF state = "PARTIAL" THEN total ELSE None
        /\ report.average = IF C = {} \/ quantity = Zero THEN None
                            ELSE Times(total, Fraction(quantity.den, quantity.num))
        /\ report.drivers = IF C = {} THEN <<>> ELSE drivers
    BY DEF Report
  <1>4. costs # {} <=> C # {}
    OBVIOUS
  <1>5. \A p \in C : Reported(inputs[p], pools) /\ answers[p].cost = UnitCost(inputs[p])
    OBVIOUS
  <1>6. \A p \in C : answers[p].cost \in costs
    OBVIOUS
  <1>. HIDE DEF report, C, S, state, costs, quantity
  <1>7. costs # {} => Total(report.drivers) =
          IF report.state = "OK" THEN report.projected_total ELSE report.partial_total
    <2>1. Total(drivers) = Total([p \in C |-> Projected(inputs[p], UnitCost(inputs[p]))])
      BY <1>1, <1>5, DriversAddUp
    <2>2. Total(drivers) = total
      BY <1>5, <2>1
    <2>. HIDE DEF drivers, total
    <2>. QED
      BY <1>2, <1>3, <1>4, <2>2
  <1>8. report.average # None =>
          \E low, high \in costs :
            Below(low, report.average) /\ Below(report.average, high)
    <2> SUFFICES ASSUME report.average # None
                 PROVE  \E low, high \in costs :
                          Below(low, report.average) /\ Below(report.average, high)
      OBVIOUS
    <2> DEFINE u == [p \in C |-> answers[p].cost]
               n == [p \in C |-> Prediction(inputs[p])]
               sum == Total([p \in C |-> Times(u[p], Whole(n[p]))])
    <2>1. C # {} /\ quantity # Zero
          /\ report.average = Times(total, Fraction(quantity.den, quantity.num))
      BY <1>3
    <2>2. u \in [C -> Fractions]
      BY <1>5, PartsAddUp
    <2>3. n \in [C -> Nat]
      BY <1>5 DEF Reported, Figures, Prediction
    <2>4. quantity = Total([p \in C |-> Whole(n[p])])
      BY DEF quantity, QuantityOf, C
    <2>5. total = sum
      BY DEF Projected
    <2>6. \A p \in C : u[p] \in costs
      BY <1>6
    <2>. HIDE DEF u, n, total, sum
    <2>7. \E l, h \in C :
            /\ Below(u[l], Times(sum, Fraction(quantity.den, quantity.num)))
            /\ Below(Times(sum, Fraction(quantity.den, quantity.num)), u[h])
      BY <1>1, <2>1, <2>2, <2>3, <2>4, AverageIsBetween DEF sum
    <2>. QED
      BY <2>1, <2>5, <2>6, <2>7
  <1>9. report.projected_total # None => S = C
    <2>. HIDE DEF total
    <2>. QED
      BY <1>2, <1>3
  <1>10. report.coverage.excluded = 0 <=> report.state \in {"OK", "NO_MATCH"}
    <2>1. report.coverage.excluded = Cardinality(S) - Cardinality(C)
      BY <1>3 DEF Coverage, S, C
    <2>2. Cardinality(S) \in Nat /\ Cardinality(C) \in Nat
      BY <1>1, FS_CardinalityType DEF S
    <2>3. Cardinality(S) = Cardinality(C) <=> S = C
      BY <1>1, FS_Subset DEF S
    <2>. QED
      BY <1>2, <1>3, <2>1, <2>2, <2>3
  <1>. QED
    BY <1>7, <1>8, <1>9, <1>10 DEF report, costs, S, C

(* What is read of a product has the figures of a report.                  *)
LEMMA BaselineReported ==
  ASSUME NEW a, Captured(a), NEW p \in Products, BaselineOf(a, p).code = "OK"
  PROVE  Reported(Read(a, p), Pools)
  <1> DEFINE P == PopulationOf(a, p)
             in == Read(a, p)
             n == Len(BomOf[p])
             live == [i \in DOMAIN in.lines |-> LiveCost(in.lines[i])]
  <1>1. /\ P \in SUBSET Products /\ p \in P /\ Loads(a.cells, p, P)
        /\ in.share \in 1 .. 100 /\ PredictionTotal(in) > 0
    BY BaselineIs
  <1>2. n \in Nat /\ DOMAIN BomOf[p] = 1 .. n
    BY DashboardAssumption DEF DashboardAssumption
  <1>3. /\ in.product = p /\ DOMAIN in.predictions = P /\ DOMAIN in.pools = Pools
        /\ in.predictions \in [P -> Nat] /\ in.pools \in [Pools -> Int]
        /\ DOMAIN in.lines = 1 .. n
        /\ \A i \in 1 .. n : in.lines[i] = LineRead(a.cells, p, i)
    BY <1>1, <1>2 DEF Read, Reading, PopulationOf, Loads, Sound
  <1>4. \A i \in 1 .. n : LiveCost(in.lines[i]) \in Fractions
    <2> SUFFICES ASSUME NEW i \in 1 .. n PROVE LiveCost(in.lines[i]) \in Fractions
      OBVIOUS
    <2> DEFINE line == LineRead(a.cells, p, i)
    <2>1. Priced(a.cells, BomOf[p][i])
      BY <1>1, <1>2 DEF Loads
    <2>2. /\ line.usage = 1 /\ line.loss = 0 /\ line.recyclability = 0
          /\ line.price \in Nat /\ line.fx \in Nat
      BY <2>1 DEF LineRead, Priced, Sound
    <2>. HIDE DEF line
    <2>3. line.usage * line.price * line.fx \in Int
          /\ 10000 - line.loss * line.recyclability \in Int /\ 10000 \in Positive
      BY <2>2 DEF Positive
    <2>4. /\ Whole(line.usage * line.price * line.fx) \in Fractions
          /\ Fraction(10000 - line.loss * line.recyclability, 10000) \in Fractions
      BY <2>3, WholeParts, FractionType
    <2>5. LiveCost(line) \in Fractions
      BY <2>4, TimesType DEF LiveCost
    <2>. QED
      BY <1>3, <2>5 DEF line
  <1>5. BomTotal(in) \in Fractions
    <2>1. live \in [1 .. n -> Fractions]
      BY <1>3, <1>4
    <2>. HIDE DEF live, n
    <2>2. IsFiniteSet(1 .. n)
      BY <1>2, FS_Interval
    <2>3. Total(live) \in Fractions
      BY <2>1, <2>2, TotalType
    <2>. QED
      BY <2>3 DEF BomTotal, live
  <1>6. PredictionTotal(in) \in Positive
    <2>1. IsFiniteSet(P)
      BY <1>1, FS_Subset, DashboardAssumption DEF DashboardAssumption
    <2>. HIDE DEF P, in
    <2>2. Sum(in.predictions) \in Nat
      BY <1>3, <2>1, SumOfNats
    <2>3. PredictionTotal(in) = Sum(in.predictions)
      BY Zenon DEF PredictionTotal, Sum
    <2>. QED
      BY <1>1, <2>2, <2>3 DEF Positive
  <1>. HIDE DEF in, P
  <1>7. Figures(in)
    <2>1. in.share \in Positive
      BY <1>1 DEF Positive
    <2>2. in.product \in DOMAIN in.predictions
      BY <1>1, <1>3
    <2>3. /\ in.predictions \in [DOMAIN in.predictions -> Nat]
          /\ in.pools \in [DOMAIN in.pools -> Int]
      BY <1>3, Zenon
    <2>. QED
      BY <1>6, <2>1, <2>2, <2>3 DEF Figures
  <1>. QED
    BY <1>3, <1>5, <1>7 DEF Reported, in

(* Every product of a capture has an answer or a code.                     *)
LEMMA BaselineCode ==
  ASSUME NEW a, Captured(a), NEW p \in Products
  PROVE  BaselineOf(a, p).code \in Codes
  <1> DEFINE P == PopulationOf(a, p)
             docs == Documents(a.cells, p)
             n == Len(BomOf[p])
             code == LoadProblem(docs, CategoryOf[p], P)
             in == Inputs(docs, p, CategoryOf[p], P)
             same == WithOverrides(in, NoOverrides)
  <1>1. n \in Nat /\ DOMAIN BomOf[p] = 1 .. n
    BY DashboardAssumption DEF DashboardAssumption
  <1>2. DOMAIN docs.bom = 1 .. n
    BY <1>1 DEF Documents, BomRows
  <1>3. BaselineOf(a, p) =
          IF code = "OK" THEN Cost(in, NoOverrides) ELSE [code |-> code]
    BY DEF BaselineOf, CostWith, CostFrom, PopulationOf
  <1>4. DOMAIN same.lines = 1 .. n
    <2>. HIDE DEF docs, P, n
    <2>. QED
      BY <1>2 DEF WithOverrides, Inputs
  <1>5. Cost(in, NoOverrides) = IF CostProblem(same) = "OK"
                                  THEN [code |-> "OK", cost |-> UnitCost(same)]
                                  ELSE [code |-> CostProblem(same)]
    BY DEF Cost
  <1>. HIDE DEF docs, P, n, in, same
  <1>6. code \in Codes /\ CostProblem(same) \in Codes
    BY <1>1, <1>2, <1>4, LoadCode, CostCode
  <1>. HIDE DEF code
  <1>. QED
    BY <1>3, <1>5, <1>6

(* The report of a capture adds up.                                        *)
Adds(a, fl) ==
  LET answers == Answers(a, fl)
      report == ReportOf(a, fl)
      costs == {answers[p].cost : p \in CalculatedOf(answers)}
  IN  /\ costs # {} => Total(report.drivers) =
           IF report.state = "OK" THEN report.projected_total
                                  ELSE report.partial_total
      /\ report.average # None =>
           \E low, high \in costs :
             AtMost(low, report.average) /\ AtMost(report.average, high)
      /\ report.projected_total # None => DOMAIN answers = CalculatedOf(answers)
      /\ report.coverage.excluded = 0 <=> report.state \in {"OK", "NO_MATCH"}

LEMMA ReportOfCapture ==
  ASSUME NEW a, Captured(a), NEW fl, Selected(a, fl) \subseteq Products
  PROVE  Adds(a, fl)
  <1> DEFINE answers == Answers(a, fl)
             C == CalculatedOf(answers)
             inputs == [p \in C |-> InputsFrom(a, p)]
  <1>1. DOMAIN answers = Selected(a, fl)
        /\ \A p \in DOMAIN answers : answers[p] = BaselineOf(a, p)
    BY DEF Answers
  <1>2. \A p \in C : p \in Selected(a, fl) /\ BaselineOf(a, p).code = "OK"
    BY <1>1 DEF CalculatedOf
  <1>3. IsFiniteSet(DOMAIN answers) /\ IsFiniteSet(Pools) /\ "BOM" \notin Pools
    BY <1>1, FS_Subset, DashboardAssumption DEF DashboardAssumption
  <1>4. \A p \in DOMAIN answers : answers[p].code \in Codes
    BY <1>1, BaselineCode
  <1>5. \A p \in C : inputs[p] = Read(a, p) /\ answers[p].cost = UnitCost(Read(a, p))
                     /\ Reported(Read(a, p), Pools)
    BY <1>1, <1>2, BaselineIs, BaselineReported
  <1>6. \A p \in C : Reported(inputs[p], Pools) /\ answers[p].cost = UnitCost(inputs[p])
    BY <1>5
  <1>7. ReportOf(a, fl) = Report(answers, inputs, CategoryOf, Pools)
    BY DEF ReportOf
  <1>. HIDE DEF answers, inputs
  <1>8. LET report == Report(answers, inputs, CategoryOf, Pools)
            costs == {answers[p].cost : p \in CalculatedOf(answers)}
        IN  /\ costs # {} => Total(report.drivers) =
                 IF report.state = "OK" THEN report.projected_total
                                        ELSE report.partial_total
            /\ report.average # None =>
                 \E low, high \in costs :
                   Below(low, report.average) /\ Below(report.average, high)
            /\ report.projected_total # None => DOMAIN answers = CalculatedOf(answers)
            /\ report.coverage.excluded = 0 <=> report.state \in {"OK", "NO_MATCH"}
    BY <1>3, <1>4, <1>6, ReportsAddUp
  <1>9. \A x, y : AtMost(x, y) <=> Below(x, y)
    BY DEF AtMost, Below
  <1>. QED
    BY <1>7, <1>8, <1>9 DEF Adds, answers

(* A report on the page is of a capture and of products it has.            *)
ReportsInv ==
  tab = "cost" /\ accepted # None =>
    Captured(accepted.answer) /\ Selected(accepted.answer, accepted) \subseteq Products

LEMMA ReportsAdd == ReportsInv => ReportAddsUp
  BY ReportOfCapture DEF ReportsInv, ReportAddsUp, Adds

LEMMA NextReports ==
  ASSUME DashboardInv, CapturesInv, ReportsInv, [Next]_vars
  PROVE  ReportsInv'
  <1>1. ASSUME tab' = tab, accepted' \in {accepted, None} PROVE ReportsInv'
    BY <1>1 DEF ReportsInv
  <1>2. ASSUME NEW fl \in flights, ArriveReport(fl) PROVE ReportsInv'
    <2>1. /\ tab' = tab /\ fl.answer # None
          /\ accepted' \in {accepted, None} \/
               /\ accepted' = fl /\ fl.answer # Lost
               /\ AnalysisStatus(fl.answer, fl) \in {"ok", "unavailable"}
      BY <1>2 DEF ArriveReport, selects
    <2>2. CASE accepted' \notin {accepted, None}
      <3>1. fl.answer # Lost /\ accepted' = fl
            /\ AnalysisStatus(fl.answer, fl) \in {"ok", "unavailable"}
        BY <2>1, <2>2
      <3>2. Captured(fl.answer)
        BY <2>1, <3>1 DEF CapturesInv, CaptureOK
      <3>3. Selected(fl.answer, fl) \subseteq ProductsOf(fl.answer.made, fl.factory)
        BY <3>1 DEF AnalysisStatus
      <3>4. Selected(fl.answer, fl) \subseteq Products
        BY <3>2, <3>3 DEF ProductsOf, Captured
      <3>. QED
        BY <3>1, <3>2, <3>4 DEF ReportsInv
    <2>. QED
      BY <1>1, <2>1, <2>2
  <1>3. ASSUME NEW fl \in flights, Arrive(fl) PROVE ReportsInv'
    <2>1. CASE ArriveOptions(fl)
      BY <1>1, <2>1 DEF ArriveOptions, NothingShown
    <2>2. CASE ArriveSensitivity(fl)
      <3>1. tab # "cost" /\ tab' = tab
        BY <2>2 DEF ArriveSensitivity, DashboardInv, FlightsInv, Shaped, KindsOf, selects
      <3>. QED
        BY <3>1 DEF ReportsInv
    <2>3. CASE Ignore(fl)
      BY <1>1, <2>3 DEF Ignore, selects, shown
    <2>. QED
      BY <1>2, <1>3, <2>1, <2>2, <2>3 DEF Arrive
  <1>4. CASE User
    <2>1. tab' = tab /\ accepted' = None
      BY <1>4
      DEF User, ChooseFactory, ChooseProduct, Refresh, Run, Analyze, Reset, AddDraft,
          RemoveDraft, EditDraft, Drafted, NothingShown, selects
    <2>. QED
      BY <1>1, <2>1
  <1>5. ASSUME UNCHANGED <<selects, shown>> PROVE ReportsInv'
    BY <1>1, <1>5 DEF selects, shown
  <1>. QED
    BY <1>3, <1>4, <1>5
    DEF Next, Answer, Fail, Edit, Make, ChangeAccess, vars

(* A report always adds up, however many products it is of: the drivers    *)
(* come to the total, the average lies between the least and the greatest  *)
(* cost, and a total of part of the selection is never shown as that of    *)
(* the whole.                                                              *)
THEOREM ReportAlwaysAddsUp == Spec => []ReportAddsUp
  <1>1. Init => ReportsInv
    BY DEF Init, ReportsInv
  <1>2. DashboardInv /\ CapturesInv /\ [Next]_vars => CapturesInv'
    <2>1. CapturesInv /\ UNCHANGED vars => CapturesInv'
      BY DEF CapturesInv, CaptureOK, vars, server, selects
    <2>. QED
      BY <2>1, NextCaptures
  <1>. QED
    BY <1>1, <1>2, InitCaptures, NextReports, ReportsAdd, DashboardAlways, PTL DEF Spec
=============================================================================
