------------------------ MODULE ProfileStore_proofs ------------------------
(***************************************************************************)
(* Proofs about ProfileStore, for every number of workers, mutations,      *)
(* incidents and limits.  First the type invariant, and that a section     *)
(* that may write runs alone.  Then what the store has committed, lost and *)
(* kept: which document a recovery can return to, that at most one         *)
(* answered mutation is lost per recovery, that the audit window is exact, *)
(* that the backup directory is bounded, and that the protocol implements  *)
(* the versioned document.                                                 *)
(***************************************************************************)
EXTENDS ProfileStore, FiniteSetTheorems, SequenceTheorems, TLAPS

Writing == {"drafted", "staged", "copying", "pruning", "replaced"}

(* What a worker's own state says, whatever the others do: a started       *)
(* request has a section, a mutation knows its transaction, and a worker   *)
(* on its way to the rename holds a candidate in an exclusive section.     *)
WorkerOK(w) ==
  /\ pc[w] # "idle" => plan[w] # <<>>
  /\ pc[w] # "idle" =>
       \A i \in 1..Len(plan[w]) : plan[w][i] = "mutate" => txn[w] \in Txns
  /\ pc[w] \in Writing => draft[w] \in Document /\ draft[w].rev >= 1
  /\ pc[w] \in Writing => Section(w) \notin SharedSections
  /\ pc[w] = "copying" => canon # Missing

TypeInv == TypeOK /\ \A w \in Workers : WorkerOK(w)

-----------------------------------------------------------------------------
(* Lemmas about the documents the sections build.                          *)

LEMMA RetainDocument ==
  ASSUME NEW doc \in Document
  PROVE  Retain(doc) \in Document /\ Retain(doc).rev = doc.rev
  <1> USE StoreAssumption DEF StoreAssumption
  <1> DEFINE overflow == Len(doc.events) - AuditLimit
  <1>1. doc.events \in Seq(Event) /\ doc.discarded \in Nat
    BY DEF Document
  <1>2. CASE overflow <= 0
    BY <1>2 DEF Retain
  <1>3. CASE overflow > 0
    <2>1. overflow \in Nat /\ overflow + 1 \in Nat
      BY <1>1, <1>3
    <2>2. SubSeq(doc.events, overflow + 1, Len(doc.events)) \in Seq(Event)
      BY <1>1, <2>1
    <2>3. doc.discarded + overflow \in Nat
      BY <1>1, <2>1
    <2>. QED
      BY <1>3, <2>2, <2>3 DEF Retain, Document
  <1>. QED
    BY <1>1, <1>2, <1>3

LEMMA MutatedDocument ==
  ASSUME NEW doc \in Document, NEW t \in Txns
  PROVE  Mutated(doc, t) \in Document /\ Mutated(doc, t).rev >= 1
  <1> USE StoreAssumption DEF StoreAssumption
  <1> DEFINE added == [i \in 1..EventsOf[t] |-> t]
  <1> DEFINE changed == [doc EXCEPT !.applied = @ \cup {t},
                                    !.events = @ \o added, !.log = @ \o added]
  <1>1. added \in Seq(Event)
    BY DEF Event
  <1>2. doc.events \o added \in Seq(Event) /\ doc.log \o added \in Seq(Event)
    BY <1>1 DEF Document
  <1>3. changed \in Document
    BY <1>2 DEF Document
  <1>4. Retain(changed) \in Document
    BY <1>3, RetainDocument
  <1>5. Mutated(doc, t) = [Retain(changed) EXCEPT !.rev = @ + 1]
    BY DEF Mutated
  <1>6. Retain(changed).rev \in Nat
    BY <1>4 DEF Document
  <1>7. [Retain(changed) EXCEPT !.rev = @ + 1] \in Document
    <2>1. Retain(changed).rev + 1 \in Nat
      BY <1>6
    <2>. QED
      BY <1>4, <2>1 DEF Document
  <1>8. [Retain(changed) EXCEPT !.rev = @ + 1].rev = Retain(changed).rev + 1
    BY <1>4 DEF Document
  <1>. QED
    BY <1>5, <1>6, <1>7, <1>8

(* The upgrades, a recovery, and the backup a recovery started from.       *)
LEMMA UpgradedDocument ==
  ASSUME NEW doc \in Document
  PROVE  WithoutOldIds(doc) \in Document /\ Migrated(doc) \in Document
  <1>1. NextRevision(doc.rev) \in Nat
    BY DEF Document, NextRevision
  <1> DEFINE next == NextRevision(doc.rev)
  <1> HIDE DEF next
  <1>2. /\ [doc EXCEPT !.ids = FALSE, !.rev = next] \in Document
        /\ [doc EXCEPT !.schema = 2, !.ids = FALSE, !.rev = next] \in Document
    BY <1>1 DEF Document, next
  <1>. QED
    BY <1>2 DEF WithoutOldIds, Migrated, next

LEMMA AuditedDocument ==
  ASSUME NEW doc \in Document
  PROVE  WithoutOldAudit(doc) \in Document
  <1>1. Retain(doc) \in Document /\ Retain(doc).rev + 1 \in Nat
    BY RetainDocument DEF Document
  <1> DEFINE kept == Retain(doc)
  <1> HIDE DEF kept
  <1>2. [kept EXCEPT !.audit = FALSE, !.rev = @ + 1] \in Document
    BY <1>1 DEF Document, kept
  <1>. QED
    BY <1>2 DEF WithoutOldAudit, kept

LEMMA RestoredDocument ==
  ASSUME NEW doc \in Document
  PROVE  Restored(doc) \in Document /\ Restored(doc).rev >= 1
  <1> DEFINE next == doc.rev + 1
  <1>1. next \in Nat /\ next >= 1
    BY DEF Document
  <1> HIDE DEF next
  <1>2. [doc EXCEPT !.rev = next] \in Document
    BY <1>1 DEF Document
  <1>3. [doc EXCEPT !.rev = next].rev = next
    BY DEF Document
  <1>4. Restored(doc) = [doc EXCEPT !.rev = next]
    BY DEF Restored, next
  <1>. QED
    BY <1>1, <1>2, <1>3, <1>4

LEMMA SourceDocument ==
  ASSUME NEW doc \in Document, doc.rev >= 1
  PROVE  Source(doc) \in Document
  <1>1. doc.rev - 1 \in Nat
    BY DEF Document
  <1>. QED
    BY <1>1 DEF Source, Document

LEMMA EmptyIsDocument == EmptyDocument \in Document /\ EmptyDocument.rev >= 1
  BY DEF EmptyDocument, Document

(* No document is one of the markers for what is not a document.           *)
LEMMA Markers ==
  /\ None \notin Document /\ Missing \notin Document /\ Corrupt \notin Document
  /\ Missing # Corrupt /\ NoTxn \notin Txns
  BY StoreAssumption DEF StoreAssumption

-----------------------------------------------------------------------------
(* The type invariant.                                                     *)

(* A step of one worker leaves what another worker's own state says alone. *)
LEMMA OthersKeep ==
  ASSUME TypeInv, NEW w \in Workers, NEW v \in Workers, v # w,
         pc'[v] = pc[v], plan'[v] = plan[v], txn'[v] = txn[v],
         draft'[v] = draft[v], canon # Missing => canon' # Missing
  PROVE  WorkerOK(v)'
  BY DEF TypeInv, WorkerOK, Section

LEMMA InitType == Init => TypeInv
  <1> SUFFICES ASSUME Init PROVE TypeInv
    OBVIOUS
  <1> USE StoreAssumption DEF StoreAssumption, Init
  <1>1. canon \in Document \cup {Missing} /\ last \in Document \cup {None}
    OBVIOUS
  <1>2. TypeOK
    BY <1>1 DEF TypeOK, Phases, Outcomes
  <1>3. \A w \in Workers : WorkerOK(w)
    BY DEF WorkerOK, Writing
  <1>. QED
    BY <1>2, <1>3 DEF TypeInv

LEMMA HappensType ==
  ASSUME TypeInv, NEW i \in Incidents, Happens(i)
  PROVE  incidents' \in [Incidents -> Nat]
  BY DEF TypeInv, TypeOK, Happens

LEMMA WriteType ==
  ASSUME TypeInv, NEW w \in Workers, NEW doc \in Document, Write(w, doc),
         pc[w] = "locked", Section(w) \notin SharedSections
  PROVE  TypeInv'
  <1>1. TypeOK'
    BY DEF TypeInv, TypeOK, Write, Goto, Phases, files, locks, history
  <1>2. WorkerOK(w)'
    BY DEF TypeInv, TypeOK, WorkerOK, Write, Valid, Goto, Section, Writing
  <1>3. ASSUME NEW v \in Workers, v # w PROVE WorkerOK(v)'
    <2>1. /\ pc'[v] = pc[v] /\ plan'[v] = plan[v] /\ txn'[v] = txn[v]
          /\ draft'[v] = draft[v] /\ canon' = canon
      BY <1>3 DEF TypeInv, TypeOK, Write, Goto, files
    <2>. QED
      BY <1>3, <2>1, OthersKeep
  <1>. QED
    BY <1>1, <1>2, <1>3 DEF TypeInv

(* Where a section ends without writing: a return or an exception.         *)
LEMMA LeaveType ==
  ASSUME TypeInv, NEW w \in Workers, pc[w] # "idle",
         Goto(w, "unlocking") \/ Goto(w, "unwinding"),
         incidents' \in [Incidents -> Nat],
         UNCHANGED <<files, locks, plan, txn, draft, outcome, last, prior>>
  PROVE  TypeInv'
  <1>1. TypeOK'
    BY DEF TypeInv, TypeOK, Goto, Phases, files, locks
  <1>2. WorkerOK(w)'
    BY DEF TypeInv, TypeOK, WorkerOK, Goto, Writing
  <1>3. ASSUME NEW v \in Workers, v # w PROVE WorkerOK(v)'
    <2>1. /\ pc'[v] = pc[v] /\ plan'[v] = plan[v] /\ txn'[v] = txn[v]
          /\ draft'[v] = draft[v] /\ canon' = canon
      BY <1>3 DEF TypeInv, TypeOK, Goto, files
    <2>. QED
      BY <1>3, <2>1, OthersKeep
  <1>. QED
    BY <1>1, <1>2, <1>3 DEF TypeInv

LEMMA RaiseType ==
  ASSUME TypeInv, NEW w \in Workers, pc[w] # "idle", Raise(w),
         incidents' \in [Incidents -> Nat]
  PROVE  TypeInv'
  BY LeaveType DEF Raise, TypeInv, TypeOK

LEMMA ReturnType ==
  ASSUME TypeInv, NEW w \in Workers, pc[w] # "idle", Return(w)
  PROVE  TypeInv'
  BY LeaveType DEF Return, history, TypeInv, TypeOK

LEMMA CloseType ==
  ASSUME TypeInv, NEW w \in Workers, NEW result \in Outcomes,
         Close(w, result),
         readers' \subseteq Workers, writer' \subseteq Workers,
         incidents' \in [Incidents -> Nat],
         UNCHANGED <<files, last, prior>>
  PROVE  TypeInv'
  <1>1. TypeOK'
    <2>1. /\ pc' \in [Workers -> Phases]
          /\ plan' \in [Workers -> Seq(Sections)]
          /\ txn' \in [Workers -> Txns \cup {NoTxn}]
          /\ draft' \in [Workers -> Document \cup {None}]
      BY DEF TypeInv, TypeOK, Close, Goto, Phases
    <2>2. outcome' \in [Txns -> Outcomes]
      BY DEF TypeInv, TypeOK, Close
    <2>. QED
      BY <2>1, <2>2 DEF TypeInv, TypeOK, files
  <1>2. WorkerOK(w)'
    BY DEF TypeInv, TypeOK, WorkerOK, Close, Goto, Writing
  <1>3. ASSUME NEW v \in Workers, v # w PROVE WorkerOK(v)'
    <2>1. /\ pc'[v] = pc[v] /\ plan'[v] = plan[v] /\ txn'[v] = txn[v]
          /\ draft'[v] = draft[v] /\ canon' = canon
      BY <1>3 DEF TypeInv, TypeOK, Close, Goto, files
    <2>. QED
      BY <1>3, <2>1, OthersKeep
  <1>. QED
    BY <1>1, <1>2, <1>3 DEF TypeInv

(* A step that moves a worker on in its section, perhaps changing files.   *)
LEMMA MoveType ==
  ASSUME TypeInv, NEW w \in Workers, NEW phase \in Phases, Goto(w, phase),
         pc[w] # "idle", phase = "copying" => canon' # Missing,
         phase \in Writing => pc[w] \in Writing,
         canon' \in Document \cup {Missing, Corrupt},
         canon # Missing => canon' # Missing,
         backups' \subseteq [stamp: Nat, bytes: Document \cup {Corrupt, Garbled}],
         clock' \in Nat \ {0}, quarantine' = quarantine,
         readers' \subseteq Workers, writer' \subseteq Workers,
         last' \in Document \cup {None}, prior' \in Document \cup {None},
         UNCHANGED <<plan, txn, draft, outcome, incidents>>
  PROVE  TypeInv'
  <1>1. TypeOK'
    BY DEF TypeInv, TypeOK, Goto
  <1>2. WorkerOK(w)'
    BY DEF TypeInv, TypeOK, WorkerOK, Goto, Section
  <1>3. ASSUME NEW v \in Workers, v # w PROVE WorkerOK(v)'
    <2>1. /\ pc'[v] = pc[v] /\ plan'[v] = plan[v] /\ txn'[v] = txn[v]
          /\ draft'[v] = draft[v]
      BY <1>3 DEF TypeInv, TypeOK, Goto
    <2>. QED
      BY <1>3, <2>1, OthersKeep
  <1>. QED
    BY <1>1, <1>2, <1>3 DEF TypeInv

LEMMA BeginType ==
  ASSUME TypeInv, NEW w \in Workers, NEW request \in Requests,
         NEW t \in Txns \cup {NoTxn}, Begin(w, request, t)
  PROVE  TypeInv'
  <1>1. incidents' \in [Incidents -> Nat]
    BY HappensType DEF Begin, Incidents, TypeInv, TypeOK
  <1>2. outcome' \in [Txns -> Outcomes]
    BY DEF Begin, Outcomes, TypeInv, TypeOK
  <1>3. /\ plan' \in [Workers -> Seq(Sections)] /\ plan'[w] # <<>>
        /\ \A i \in 1..Len(plan'[w]) : plan'[w][i] = "mutate" => t \in Txns
    <2>1. CASE request \in {"recover", "initialize"}
      BY <2>1 DEF Begin, Sections, Requests, TypeInv, TypeOK
    <2>2. CASE request \notin {"recover", "initialize"}
      <3>1. request = "mutate" => t \in Txns
        BY DEF Begin
      <3>2. plan' = [plan EXCEPT ![w] = <<"ensure", request>>]
        BY <2>2 DEF Begin
      <3>3. <<"ensure", request>> \in Seq(Sections)
        BY DEF Sections, Requests
      <3>4. plan' \in [Workers -> Seq(Sections)]
            /\ plan'[w] = <<"ensure", request>>
        BY <3>2, <3>3 DEF TypeInv, TypeOK
      <3>5. \A i \in 1..2 : <<"ensure", request>>[i] = "mutate" => t \in Txns
        BY <3>1
      <3>6. Len(<<"ensure", request>>) = 2 /\ <<"ensure", request>> # <<>>
        OBVIOUS
      <3>. QED
        BY <3>4, <3>5, <3>6
    <2>. QED
      BY <2>1, <2>2
  <1>4. TypeOK'
    BY <1>1, <1>2, <1>3
    DEF Begin, Goto, Phases, TypeInv, TypeOK, files, locks
  <1>5. WorkerOK(w)'
    BY <1>3 DEF Begin, Goto, Writing, WorkerOK, TypeInv, TypeOK
  <1>6. ASSUME NEW v \in Workers, v # w PROVE WorkerOK(v)'
    <2>1. /\ pc'[v] = pc[v] /\ plan'[v] = plan[v] /\ txn'[v] = txn[v]
          /\ draft'[v] = draft[v] /\ canon' = canon
      BY <1>6 DEF Begin, TypeInv, TypeOK, Goto, files
    <2>. QED
      BY <1>6, <2>1, OthersKeep
  <1>. QED
    BY <1>4, <1>5, <1>6 DEF TypeInv

LEMMA TailOfPlan ==
  ASSUME NEW s \in Seq(Sections), Len(s) > 1
  PROVE  /\ Tail(s) \in Seq(Sections) /\ Tail(s) # <<>>
         /\ \A i \in 1..Len(Tail(s)) : \E j \in 1..Len(s) : Tail(s)[i] = s[j]
  <1>1. s # <<>>
    OBVIOUS
  <1>2. /\ Tail(s) \in Seq(Sections) /\ Len(Tail(s)) = Len(s) - 1
        /\ \A i \in 1..Len(Tail(s)) : Tail(s)[i] = s[i + 1]
    BY <1>1, HeadTailProperties
  <1>3. Len(Tail(s)) > 0
    BY <1>2
  <1>4. Tail(s) # <<>>
    <2>1. Len(<<>>) = 0
      OBVIOUS
    <2>2. ~(0 > 0)
      OBVIOUS
    <2>. QED
      BY <1>3, <2>1, <2>2, Zenon
  <1>5. ASSUME NEW i \in 1..Len(Tail(s)) PROVE i + 1 \in 1..Len(s)
    BY <1>2
  <1>. QED
    BY <1>2, <1>4, <1>5

LEMMA UnlockType ==
  ASSUME TypeInv, NEW w \in Workers, Unlock(w)
  PROVE  TypeInv'
  <1>1. /\ readers' \subseteq Workers /\ writer' \subseteq Workers
        /\ incidents' \in [Incidents -> Nat]
        /\ UNCHANGED <<files, last, prior>>
    BY DEF Unlock, TypeInv, TypeOK, history
  <1>2. CASE Len(plan[w]) > 1
    <2>1. /\ plan' = [plan EXCEPT ![w] = Tail(@)]
          /\ draft' = [draft EXCEPT ![w] = None]
          /\ Goto(w, "waiting")
          /\ UNCHANGED <<txn, outcome>>
      BY <1>2 DEF Unlock
    <2>2. /\ plan[w] \in Seq(Sections) /\ plan'[w] = Tail(plan[w])
          /\ \A i \in 1..Len(plan[w]) : plan[w][i] = "mutate" => txn[w] \in Txns
      BY <2>1 DEF TypeInv, TypeOK, WorkerOK, Unlock
    <2>3. /\ Tail(plan[w]) \in Seq(Sections) /\ Tail(plan[w]) # <<>>
          /\ \A i \in 1..Len(Tail(plan[w])) :
               Tail(plan[w])[i] = "mutate" => txn[w] \in Txns
      <3>1. plan[w] # <<>>
        BY <1>2, <2>2
      <3>. QED
        BY <1>2, <2>2, <3>1, TailOfPlan
    <2>4. plan' \in [Workers -> Seq(Sections)]
      BY <2>1, <2>3 DEF TypeInv, TypeOK
    <2>5. TypeOK'
      BY <1>1, <2>1, <2>4 DEF Goto, Phases, TypeInv, TypeOK, files
    <2>6. WorkerOK(w)'
      BY <2>1, <2>2, <2>3 DEF Goto, Writing, WorkerOK, TypeInv, TypeOK
    <2>7. ASSUME NEW v \in Workers, v # w PROVE WorkerOK(v)'
      <3>1. /\ pc'[v] = pc[v] /\ plan'[v] = plan[v] /\ txn'[v] = txn[v]
            /\ draft'[v] = draft[v] /\ canon' = canon
        BY <1>1, <2>1, <2>7 DEF TypeInv, TypeOK, Goto, files
      <3>. QED
        BY <2>7, <3>1, OthersKeep
    <2>. QED
      BY <2>5, <2>6, <2>7 DEF TypeInv
  <1>3. CASE ~(Len(plan[w]) > 1)
    <2>1. PICK result \in Outcomes : Close(w, result)
      BY <1>3 DEF Unlock, Outcomes
    <2>. QED
      BY <1>1, <2>1, CloseType
  <1>. QED
    BY <1>2, <1>3

(* What a section that loaded the canonical document has in hand.          *)
LEMMA LoadedDocument ==
  ASSUME TypeInv, NEW w \in Workers, NEW section \in Sections,
         Loads(w, {section})
  PROVE  /\ canon \in Document /\ pc[w] = "locked" /\ Section(w) = section
         /\ pc[w] # "idle"
  BY DEF Loads, At, IsDocument, TypeInv, TypeOK

(* Joining plans in which every mutation knows its transaction.            *)
LEMMA JoinedPlan ==
  ASSUME NEW known, NEW s \in Seq(Sections), NEW t \in Seq(Sections),
         \A i \in 1..Len(s) : s[i] = "mutate" => known,
         \A i \in 1..Len(t) : t[i] = "mutate" => known
  PROVE  /\ s \o t \in Seq(Sections) /\ Len(s \o t) = Len(s) + Len(t)
         /\ \A i \in 1..Len(s \o t) : (s \o t)[i] = "mutate" => known
  <1>1. /\ s \o t \in Seq(Sections) /\ Len(s \o t) = Len(s) + Len(t)
        /\ \A i \in 1..Len(s) + Len(t) : (s \o t)[i] =
             IF i <= Len(s) THEN s[i] ELSE t[i - Len(s)]
    BY ConcatProperties
  <1>2. ASSUME NEW i \in 1..Len(s \o t), (s \o t)[i] = "mutate" PROVE known
    <2>1. CASE i <= Len(s)
      BY <1>1, <1>2, <2>1
    <2>2. CASE ~(i <= Len(s))
      <3>1. i - Len(s) \in 1..Len(t)
        BY <1>1, <2>2
      <3>. QED
        BY <1>1, <1>2, <2>2, <3>1
    <2>. QED
      BY <2>1, <2>2
  <1>. QED
    BY <1>1, <1>2

(* Inserting upgrades leaves a plan whose mutation knows its transaction.  *)
LEMMA PlanWithUpgrades ==
  ASSUME NEW doc, NEW rest \in Seq(Sections), rest # <<>>, NEW known,
         \A i \in 1..Len(rest) : rest[i] = "mutate" => known
  PROVE  LET new == <<"ensure">> \o UpgradesFor(doc) \o Tail(rest)
         IN  /\ new \in Seq(Sections) /\ new # <<>>
             /\ \A i \in 1..Len(new) : new[i] = "mutate" => known
  <1> DEFINE first == IF doc.schema = 2 /\ doc.ids THEN <<"ids">> ELSE <<>>
             second == IF doc.schema = 2 /\ doc.audit THEN <<"audit">>
                                                      ELSE <<"access">>
             head == <<"ensure">>
             upgrades == first \o second
             added == head \o upgrades
             new == added \o Tail(rest)
  <1>1. /\ first = <<>> \/ first = <<"ids">>
        /\ second = <<"audit">> \/ second = <<"access">>
    BY Zenon
  <1>2. UpgradesFor(doc) = first \o second
    BY DEF UpgradesFor
  <1> HIDE DEF first, second
  <1>3. /\ head \in Seq(Sections) /\ Len(head) = 1
        /\ \A i \in 1..Len(head) : head[i] = "mutate" => known
    BY DEF Sections
  <1>4. /\ first \in Seq(Sections)
        /\ \A i \in 1..Len(first) : first[i] = "mutate" => known
    <2>1. CASE first = <<>>
      BY <2>1
    <2>2. CASE first = <<"ids">>
      BY <2>2 DEF Sections, Upgrades
    <2>. QED
      BY <1>1, <2>1, <2>2
  <1>5. /\ second \in Seq(Sections)
        /\ \A i \in 1..Len(second) : second[i] = "mutate" => known
    <2>1. CASE second = <<"audit">>
      BY <2>1 DEF Sections, Upgrades
    <2>2. CASE second = <<"access">>
      BY <2>2 DEF Sections, Upgrades
    <2>. QED
      BY <1>1, <2>1, <2>2
  <1>6. /\ upgrades \in Seq(Sections)
        /\ \A i \in 1..Len(upgrades) : upgrades[i] = "mutate" => known
    BY <1>4, <1>5, JoinedPlan
  <1> HIDE DEF head, upgrades
  <1>7. /\ added \in Seq(Sections) /\ Len(added) = 1 + Len(upgrades)
        /\ \A i \in 1..Len(added) : added[i] = "mutate" => known
    <2>1. /\ head \o upgrades \in Seq(Sections)
          /\ Len(head \o upgrades) = Len(head) + Len(upgrades)
          /\ \A i \in 1..Len(head \o upgrades) :
               (head \o upgrades)[i] = "mutate" => known
      BY <1>3, <1>6, JoinedPlan, Zenon
    <2>. QED
      BY <1>3, <2>1, Zenon
  <1>8. /\ Tail(rest) \in Seq(Sections)
        /\ \A i \in 1..Len(Tail(rest)) : Tail(rest)[i] = "mutate" => known
    <2>1. /\ Tail(rest) \in Seq(Sections) /\ Len(Tail(rest)) = Len(rest) - 1
          /\ \A i \in 1..Len(Tail(rest)) : Tail(rest)[i] = rest[i + 1]
      BY HeadTailProperties
    <2>2. ASSUME NEW i \in 1..Len(Tail(rest)), Tail(rest)[i] = "mutate"
          PROVE  known
      <3>1. i + 1 \in 1..Len(rest)
        BY <2>1
      <3>. QED
        BY <2>1, <2>2, <3>1
    <2>. QED
      BY <2>1, <2>2
  <1> HIDE DEF added
  <1>9. /\ new \in Seq(Sections) /\ Len(new) = Len(added) + Len(Tail(rest))
        /\ \A i \in 1..Len(new) : new[i] = "mutate" => known
    BY <1>7, <1>8, JoinedPlan
  <1>10. new # <<>>
    <2>1. Len(new) > 0
      BY <1>6, <1>7, <1>8, <1>9
    <2>2. Len(<<>>) = 0 /\ ~(0 > 0)
      OBVIOUS
    <2>. QED
      BY <2>1, <2>2, Zenon
  <1>. QED
    BY <1>2, <1>9, <1>10 DEF added, upgrades, head

LEMMA RecoverType ==
  ASSUME TypeInv, NEW w \in Workers, Recover(w)
  PROVE  TypeInv'
  <1>1. pc[w] = "locked" /\ Section(w) \notin SharedSections
    BY DEF Recover, At, SharedSections
  <1>2. CASE Raise(w) /\ UNCHANGED incidents
    BY <1>1, <1>2, RaiseType DEF TypeInv, TypeOK
  <1>3. ASSUME NEW b \in ValidBackups,
               quarantine' = IF canon = Missing THEN quarantine
                             ELSE quarantine \cup {canon},
               draft' = [draft EXCEPT ![w] = Restored(b.bytes)],
               Goto(w, "drafted"),
               UNCHANGED <<canon, backups, clock, locks, plan, txn,
                           outcome, history>>
        PROVE  TypeInv'
    <2>1. b.bytes \in Document
      BY <1>3 DEF ValidBackups, IsDocument, TypeInv, TypeOK
    <2> DEFINE doc == Restored(b.bytes)
    <2>2. doc \in Document /\ doc.rev >= 1
      BY <2>1, RestoredDocument
    <2> HIDE DEF doc
    <2>3. draft' = [draft EXCEPT ![w] = doc]
      BY <1>3 DEF doc
    <2>4. quarantine' \subseteq Document \cup {Corrupt}
      BY <1>3 DEF TypeInv, TypeOK
    <2>5. TypeOK'
      BY <1>3, <2>2, <2>3, <2>4
      DEF TypeInv, TypeOK, Goto, Phases, locks, history
    <2>6. WorkerOK(w)'
      BY <1>1, <1>3, <2>2, <2>3
      DEF TypeInv, TypeOK, WorkerOK, Goto, Section, Writing
    <2>7. ASSUME NEW v \in Workers, v # w PROVE WorkerOK(v)'
      <3>1. /\ pc'[v] = pc[v] /\ plan'[v] = plan[v] /\ txn'[v] = txn[v]
            /\ draft'[v] = draft[v] /\ canon' = canon
        BY <1>3, <2>3, <2>7 DEF TypeInv, TypeOK, Goto
      <3>. QED
        BY <2>7, <3>1, OthersKeep
    <2>. QED
      BY <2>5, <2>6, <2>7 DEF TypeInv
  <1>. QED
    BY <1>2, <1>3 DEF Recover

LEMMA SectionType ==
  ASSUME TypeInv, NEW w \in Workers, SectionStep(w)
  PROVE  TypeInv'
  <1>1. CASE EnsureSchema(w)
    <2>1. canon \in Document /\ pc[w] = "locked" /\ plan[w] \in Seq(Sections)
      BY <1>1, LoadedDocument DEF EnsureSchema, Sections, TypeInv, TypeOK
    <2>2. plan[w] # <<>>
          /\ \A i \in 1..Len(plan[w]) : plan[w][i] = "mutate" => txn[w] \in Txns
      BY <2>1 DEF TypeInv, WorkerOK
    <2> DEFINE new == <<"ensure">> \o UpgradesFor(canon) \o Tail(plan[w])
    <2>3. new \in Seq(Sections) /\ new # <<>>
          /\ \A i \in 1..Len(new) : new[i] = "mutate" => txn[w] \in Txns
      BY <2>1, <2>2, PlanWithUpgrades
    <2> HIDE DEF new
    <2>4. /\ plan' \in [Workers -> Seq(Sections)] /\ plan'[w] # <<>>
          /\ \A i \in 1..Len(plan'[w]) : plan'[w][i] = "mutate" => txn[w] \in Txns
          /\ \A v \in Workers : v # w => plan'[v] = plan[v]
      <3>1. CASE plan' = [plan EXCEPT ![w] = new]
        BY <2>3, <3>1 DEF TypeInv, TypeOK
      <3>2. CASE plan' = plan
        BY <2>1, <2>2, <3>2 DEF TypeInv, TypeOK
      <3>. QED
        BY <1>1, <3>1, <3>2 DEF EnsureSchema, new
    <2>5. TypeOK'
      BY <1>1, <2>4 DEF EnsureSchema, Goto, Phases, TypeInv, TypeOK, files,
                        locks, history
    <2>6. WorkerOK(w)'
      BY <1>1, <2>4 DEF EnsureSchema, Goto, Writing, WorkerOK, TypeInv, TypeOK
    <2>7. ASSUME NEW v \in Workers, v # w PROVE WorkerOK(v)'
      <3>1. /\ pc'[v] = pc[v] /\ plan'[v] = plan[v] /\ txn'[v] = txn[v]
            /\ draft'[v] = draft[v] /\ canon' = canon
        BY <1>1, <2>4, <2>7 DEF EnsureSchema, TypeInv, TypeOK, Goto, files
      <3>. QED
        BY <2>7, <3>1, OthersKeep
    <2>. QED
      BY <2>5, <2>6, <2>7 DEF TypeInv
  <1>2. CASE NormalizeIds(w)
    <2>1. /\ canon \in Document /\ pc[w] = "locked" /\ Section(w) = "ids"
      BY <1>2, LoadedDocument DEF NormalizeIds, Sections, Upgrades
    <2>2. Return(w) \/ Write(w, WithoutOldIds(canon))
      BY <1>2 DEF NormalizeIds
    <2>. QED
      BY <2>1, <2>2, ReturnType, WriteType, UpgradedDocument DEF SharedSections
  <1>3. CASE NormalizeAudit(w)
    <2>1. /\ canon \in Document /\ pc[w] = "locked" /\ Section(w) = "audit"
      BY <1>3, LoadedDocument DEF NormalizeAudit, Sections, Upgrades
    <2>2. Return(w) \/ Write(w, WithoutOldAudit(canon))
      BY <1>3 DEF NormalizeAudit
    <2>. QED
      BY <2>1, <2>2, ReturnType, WriteType, AuditedDocument DEF SharedSections
  <1>4. CASE MigrateAccess(w)
    <2>1. /\ canon \in Document /\ pc[w] = "locked" /\ Section(w) = "access"
      BY <1>4, LoadedDocument DEF MigrateAccess, Sections, Upgrades
    <2>2. Return(w) \/ Write(w, Migrated(canon))
      BY <1>4 DEF MigrateAccess
    <2>. QED
      BY <2>1, <2>2, ReturnType, WriteType, UpgradedDocument DEF SharedSections
  <1>5. CASE ReadDocument(w)
    <2>1. canon \in Document /\ pc[w] # "idle"
      BY <1>5, LoadedDocument DEF ReadDocument, Sections, Requests
    <2>2. Return(w)
      BY <1>5 DEF ReadDocument
    <2>. QED
      BY <2>1, <2>2, ReturnType
  <1>6. CASE Mutate(w)
    <2>1. /\ canon \in Document /\ pc[w] = "locked" /\ Section(w) = "mutate"
      BY <1>6, LoadedDocument DEF Mutate, Sections, Requests
    <2>2. txn[w] \in Txns
      <3>1. plan[w] \in Seq(Sections) /\ plan[w] # <<>>
        BY <2>1 DEF TypeInv, TypeOK, WorkerOK
      <3>2. 1 \in 1..Len(plan[w]) /\ plan[w][1] = "mutate"
        BY <2>1, <3>1 DEF Section
      <3>. QED
        BY <2>1, <3>2 DEF TypeInv, WorkerOK
    <2>3. Return(w) \/ Write(w, Mutated(canon, txn[w]))
      BY <1>6 DEF Mutate
    <2>. QED
      BY <2>1, <2>2, <2>3, ReturnType, WriteType, MutatedDocument
      DEF SharedSections
  <1>7. CASE CallbackRejects(w) \/ LoadFails(w)
    BY <1>7, RaiseType DEF CallbackRejects, LoadFails, Loads, At, TypeInv, TypeOK
  <1>8. CASE Initialize(w)
    <2>1. pc[w] = "locked" /\ Section(w) \notin SharedSections
      BY <1>8 DEF Initialize, At, SharedSections
    <2>2. CASE Write(w, EmptyDocument)
      BY <2>1, <2>2, WriteType, EmptyIsDocument
    <2>3. CASE Raise(w) /\ UNCHANGED incidents
      BY <2>1, <2>3, RaiseType DEF TypeInv, TypeOK
    <2>. QED
      BY <1>8, <2>2, <2>3 DEF Initialize
  <1>9. CASE Recover(w)
    BY <1>9, RecoverType
  <1>. QED
    BY <1>1, <1>2, <1>3, <1>4, <1>5, <1>6, <1>7, <1>8, <1>9 DEF SectionStep

LEMMA AcquireType ==
  ASSUME TypeInv, NEW w \in Workers, Acquire(w)
  PROVE  TypeInv'
  <1>1. TypeOK'
    BY DEF Acquire, Goto, Phases, TypeInv, TypeOK, files, history
  <1>2. WorkerOK(w)'
    BY DEF Acquire, Goto, Writing, WorkerOK, TypeInv, TypeOK
  <1>3. ASSUME NEW v \in Workers, v # w PROVE WorkerOK(v)'
    <2>1. /\ pc'[v] = pc[v] /\ plan'[v] = plan[v] /\ txn'[v] = txn[v]
          /\ draft'[v] = draft[v] /\ canon' = canon
      BY <1>3 DEF Acquire, TypeInv, TypeOK, Goto, files
    <2>. QED
      BY <1>3, <2>1, OthersKeep
  <1>. QED
    BY <1>1, <1>2, <1>3 DEF TypeInv

LEMMA WriteStepType ==
  ASSUME TypeInv, NEW w \in Workers, WriteStep(w)
  PROVE  TypeInv'
  <1>1. CASE Stage(w)
    BY <1>1, MoveType
    DEF Stage, Writing, Phases, files, locks, history, TypeInv, TypeOK
  <1>2. CASE BeginBackup(w)
    <2>1. clock' \in Nat \ {0}
      BY <1>2 DEF BeginBackup, TypeInv, TypeOK
    <2>2. backups' \subseteq [stamp: Nat, bytes: Document \cup {Corrupt, Garbled}]
      BY <1>2 DEF BeginBackup, TypeInv, TypeOK
    <2>. QED
      BY <1>2, <2>1, <2>2, MoveType
      DEF BeginBackup, Writing, Phases, locks, history, TypeInv, TypeOK
  <1>3. CASE FinishBackup(w)
    <2>1. canon \in Document \cup {Corrupt}
      BY <1>3 DEF FinishBackup, TypeInv, TypeOK, WorkerOK
    <2>2. clock - 1 \in Nat
      BY DEF TypeInv, TypeOK
    <2>3. backups' \subseteq [stamp: Nat, bytes: Document \cup {Corrupt, Garbled}]
      BY <1>3, <2>1, <2>2 DEF FinishBackup, TypeInv, TypeOK
    <2>. QED
      BY <1>3, <2>3, MoveType
      DEF FinishBackup, Writing, Phases, locks, history, TypeInv, TypeOK
  <1>4. CASE Prune(w)
    <2>1. backups' \subseteq backups
      BY <1>4 DEF Prune
    <2>2. TypeOK'
      BY <1>4, <2>1 DEF Prune, TypeInv, TypeOK, locks, control, history
    <2>3. ASSUME NEW v \in Workers PROVE WorkerOK(v)'
      BY <1>4 DEF Prune, TypeInv, WorkerOK, Section, control
    <2>. QED
      BY <2>2, <2>3 DEF TypeInv
  <1>5. CASE Replace(w)
    <2>1. pc[w] \in {"staged", "pruning"}
      BY <1>5 DEF Replace, ReadyToReplace
    <2>2. draft[w] \in Document /\ draft[w].rev >= 1
      BY <2>1 DEF TypeInv, WorkerOK, Writing
    <2>3. prior' \in Document \cup {None}
      <3>1. Source(draft[w]) \in Document
        BY <2>2, SourceDocument
      <3>2. prior' = Source(draft[w]) \/ prior' = None
              \/ (prior' = canon /\ IsDocument(canon))
        BY <1>5 DEF Replace
      <3>. QED
        BY <3>1, <3>2 DEF IsDocument, TypeInv, TypeOK
    <2>4. canon' = draft[w] /\ last' = draft[w] /\ canon' # Missing
      BY <1>5, <2>2, Markers DEF Replace
    <2>5. Goto(w, "replaced")
      BY <1>5 DEF Replace
    <2>. QED
      BY <1>5, <2>1, <2>2, <2>3, <2>4, <2>5, MoveType
      DEF Replace, Writing, Phases, locks, TypeInv, TypeOK
  <1>6. CASE SyncParent(w)
    BY <1>6, LeaveType DEF SyncParent, history, TypeInv, TypeOK
  <1>. QED
    BY <1>1, <1>2, <1>3, <1>4, <1>5, <1>6 DEF WriteStep

LEMMA NextType == TypeInv /\ [Next]_vars => TypeInv'
  <1> SUFFICES ASSUME TypeInv, [Next]_vars PROVE TypeInv'
    OBVIOUS
  <1>1. ASSUME NEW w \in Workers, NEW request \in Requests,
               NEW t \in Txns \cup {NoTxn}, Begin(w, request, t)
        PROVE  TypeInv'
    BY <1>1, BeginType
  <1>2. ASSUME NEW w \in Workers, Progress(w) PROVE TypeInv'
    <2>1. CASE Acquire(w)
      BY <2>1, AcquireType
    <2>2. CASE TimeOut(w)
      BY <2>2, CloseType DEF TimeOut, Outcomes, locks, history, TypeInv, TypeOK
    <2>3. CASE Unlock(w)
      BY <2>3, UnlockType
    <2>4. CASE Unwind(w)
      <3>1. Close(w, "failed") /\ UNCHANGED <<files, last, prior, incidents>>
        BY <2>4 DEF Unwind, history
      <3>2. /\ readers' \subseteq Workers /\ writer' \subseteq Workers
            /\ incidents' \in [Incidents -> Nat]
        BY <2>4, <3>1 DEF Unwind, TypeInv, TypeOK
      <3>. QED
        BY <3>1, <3>2, CloseType DEF Outcomes
    <2>5. CASE SectionStep(w)
      BY <2>5, SectionType
    <2>6. CASE WriteStep(w)
      BY <2>6, WriteStepType
    <2>. QED
      BY <1>2, <2>1, <2>2, <2>3, <2>4, <2>5, <2>6 DEF Progress
  <1>3. ASSUME NEW w \in Workers, LockError(w) PROVE TypeInv'
    <2>1. incidents' \in [Incidents -> Nat]
      BY <1>3, HappensType DEF LockError, Incidents
    <2>. QED
      BY <1>3, <2>1, CloseType DEF LockError, Outcomes, locks, TypeInv, TypeOK
  <1>4. ASSUME NEW w \in Workers, Fault(w) PROVE TypeInv'
    <2>1. incidents' \in [Incidents -> Nat]
      BY <1>4, HappensType DEF Fault, Incidents
    <2>. QED
      BY <1>4, <2>1, RaiseType DEF Fault
  <1>5. ASSUME NEW w \in Workers, Crash(w) PROVE TypeInv'
    <2>1. incidents' \in [Incidents -> Nat]
      BY <1>5, HappensType DEF Crash, Incidents
    <2>2. readers' \subseteq Workers /\ writer' \subseteq Workers
      BY <1>5 DEF Crash, TypeInv, TypeOK
    <2>. QED
      BY <1>5, <2>1, <2>2, CloseType DEF Crash, Outcomes
  <1>6. CASE Damage
    <2>1. incidents' \in [Incidents -> Nat]
      BY <1>6, HappensType DEF Damage, Incidents
    <2>2. TypeOK'
      BY <1>6, <2>1 DEF Damage, TypeInv, TypeOK, locks, control
    <2>3. ASSUME NEW v \in Workers PROVE WorkerOK(v)'
      BY <1>6, Markers DEF Damage, TypeInv, WorkerOK, Section, control
    <2>. QED
      BY <2>2, <2>3 DEF TypeInv
  <1>7. CASE UNCHANGED vars
    BY <1>7 DEF vars, files, locks, control, history, TypeInv, TypeOK, WorkerOK,
                Section
  <1>. QED
    BY <1>1, <1>2, <1>3, <1>4, <1>5, <1>6, <1>7 DEF Next

(* Every reachable state has the shape the code gives it, for any number   *)
(* of workers, mutations and incidents: whatever interleaving of sections, *)
(* crashes and faults led to it, what a worker is about to rename over the *)
(* canonical path is a whole document.                                     *)
THEOREM TypeCorrect == Spec => []TypeOK
  <1>1. Init => TypeInv
    BY InitType
  <1>2. TypeInv /\ [Next]_vars => TypeInv'
    BY NextType
  <1>3. TypeInv => TypeOK
    BY DEF TypeInv
  <1>. QED
    BY <1>1, <1>2, <1>3, PTL DEF Spec

-----------------------------------------------------------------------------
(* Writers are alone.                                                      *)

(* A worker inside a section holds the lock that section takes, and a      *)
(* writer excludes everyone.  WritersAlone is not inductive by itself: it  *)
(* says nothing of the lock that keeps the next worker out.                *)
LockInv ==
  /\ \A w \in Workers : Held(w) =>
       IF Section(w) \in SharedSections THEN w \in readers ELSE w \in writer
  /\ \A w \in writer : readers = {} /\ writer = {w}

(* A worker that keeps its lock and its section may do anything else.      *)
LEMMA InsideKeepsLock ==
  ASSUME TypeInv, LockInv, NEW w \in Workers, Held(w),
         UNCHANGED <<locks, plan>>,
         \A v \in Workers : v # w => pc'[v] = pc[v]
  PROVE  LockInv'
  BY DEF LockInv, Held, Section, locks

(* A worker that is outside any section after its step holds no lock.      *)
LEMMA OutsideKeepsLock ==
  ASSUME TypeInv, LockInv, NEW w \in Workers, pc'[w] \in {"idle", "waiting"},
         readers \ {w} \subseteq readers', readers' \subseteq readers,
         writer \ {w} \subseteq writer', writer' \subseteq writer,
         \A v \in Workers : v # w => pc'[v] = pc[v] /\ plan'[v] = plan[v]
  PROVE  LockInv'
  <1>1. ASSUME NEW v \in Workers, Held(v)'
        PROVE  (IF Section(v) \in SharedSections THEN v \in readers
                                                 ELSE v \in writer)'
    <2>1. v # w
      BY <1>1 DEF Held
    <2>2. Held(v) /\ Section(v)' = Section(v)
      BY <1>1, <2>1 DEF Held, Section
    <2>. QED
      BY <2>1, <2>2 DEF LockInv
  <1>2. ASSUME NEW v \in writer' PROVE readers' = {} /\ writer' = {v}
    BY <1>2 DEF LockInv
  <1>. QED
    BY <1>1, <1>2 DEF LockInv

LEMMA HeadOfUpgrades ==
  ASSUME NEW doc, NEW rest \in Seq(Sections), rest # <<>>
  PROVE  Head(<<"ensure">> \o UpgradesFor(doc) \o Tail(rest)) = "ensure"
  OBVIOUS

LEMMA AcquireLock ==
  ASSUME TypeInv, LockInv, NEW w \in Workers, Acquire(w)
  PROVE  LockInv'
  <1>1. /\ pc' = [pc EXCEPT ![w] = "locked"] /\ plan' = plan
        /\ LockFree(w) /\ writer = {}
    BY DEF Acquire, Goto, LockFree
  <1>2. \A v \in Workers : Section(v)' = Section(v)
    BY <1>1 DEF Section
  <1>3. \A v \in Workers : v # w => (Held(v)' <=> Held(v))
    BY <1>1 DEF Held, TypeInv, TypeOK
  <1>4. CASE Section(w) \in SharedSections
    <2>1. readers' = readers \cup {w} /\ writer' = {}
      BY <1>1, <1>4 DEF Acquire
    <2>. QED
      BY <1>1, <1>2, <1>3, <1>4, <2>1 DEF LockInv
  <1>5. CASE Section(w) \notin SharedSections
    <2>1. readers = {} /\ readers' = {} /\ writer' = {w}
      BY <1>1, <1>5 DEF Acquire, LockFree
    <2>2. \A v \in Workers : v # w => ~Held(v)
      BY <1>1, <2>1 DEF LockInv
    <2>. QED
      BY <1>2, <1>3, <1>5, <2>1, <2>2 DEF LockInv
  <1>. QED
    BY <1>4, <1>5

LEMMA SectionLock ==
  ASSUME TypeInv, LockInv, NEW w \in Workers, SectionStep(w)
  PROVE  LockInv'
  <1>1. Held(w)
    BY DEF SectionStep, EnsureSchema, NormalizeIds, NormalizeAudit,
           MigrateAccess, ReadDocument, Mutate, CallbackRejects, LoadFails,
           Initialize, Recover, Loads, At, Held
  <1>2. UNCHANGED locks /\ \A v \in Workers : v # w => pc'[v] = pc[v]
    BY DEF SectionStep, EnsureSchema, NormalizeIds, NormalizeAudit,
           MigrateAccess, ReadDocument, Mutate, CallbackRejects, LoadFails,
           Initialize, Recover, Write, Return, Raise, Goto, TypeInv, TypeOK
  <1>3. CASE EnsureSchema(w)
    <2>1. /\ \A v \in Workers : v # w => plan'[v] = plan[v]
          /\ Section(w) = "ensure" /\ Section(w)' = "ensure"
      <3>1. Section(w) = "ensure" /\ plan[w] \in Seq(Sections) /\ plan[w] # <<>>
        BY <1>1, <1>3 DEF EnsureSchema, Loads, At, Held, TypeInv, TypeOK, WorkerOK
      <3>2. CASE UNCHANGED plan
        BY <3>1, <3>2 DEF Section
      <3>3. CASE plan' = [plan EXCEPT ![w] =
                            <<"ensure">> \o UpgradesFor(canon) \o Tail(@)]
        <4>1. Head(<<"ensure">> \o UpgradesFor(canon) \o Tail(plan[w])) = "ensure"
          BY <3>1, HeadOfUpgrades
        <4>. QED
          BY <3>1, <3>3, <4>1 DEF Section, TypeInv, TypeOK
      <3>. QED
        BY <1>3, <3>2, <3>3 DEF EnsureSchema
    <2>2. ASSUME NEW v \in Workers, Held(v)' PROVE Held(v) /\ Section(v)' = Section(v)
      <3>1. CASE v = w
        BY <1>1, <2>1, <3>1
      <3>2. CASE v # w
        BY <1>2, <2>1, <2>2, <3>2 DEF Held, Section
      <3>. QED
        BY <3>1, <3>2
    <2>. QED
      BY <1>2, <2>2 DEF LockInv, locks
  <1>4. CASE UNCHANGED plan
    BY <1>1, <1>2, <1>4, InsideKeepsLock
  <1>. QED
    BY <1>3, <1>4
    DEF SectionStep, NormalizeIds, NormalizeAudit, MigrateAccess, ReadDocument,
        Mutate, CallbackRejects, LoadFails, Initialize, Recover, Write, Return,
        Raise

LEMMA NextLock == TypeInv /\ LockInv /\ [Next]_vars => LockInv'
  <1> SUFFICES ASSUME TypeInv, LockInv, [Next]_vars PROVE LockInv'
    OBVIOUS
  <1>1. ASSUME NEW w \in Workers, NEW request \in Requests,
               NEW t \in Txns \cup {NoTxn}, Begin(w, request, t)
        PROVE  LockInv'
    BY <1>1, OutsideKeepsLock DEF Begin, Goto, locks, TypeInv, TypeOK
  <1>2. ASSUME NEW w \in Workers, Progress(w) PROVE LockInv'
    <2>1. CASE Acquire(w)
      BY <2>1, AcquireLock
    <2>2. CASE TimeOut(w)
      BY <2>2, OutsideKeepsLock DEF TimeOut, Close, Goto, locks, TypeInv, TypeOK
    <2>3. CASE Unlock(w)
      BY <2>3, OutsideKeepsLock DEF Unlock, Close, Goto, TypeInv, TypeOK
    <2>4. CASE Unwind(w)
      BY <2>4, OutsideKeepsLock DEF Unwind, Close, Goto, TypeInv, TypeOK
    <2>5. CASE SectionStep(w)
      BY <2>5, SectionLock
    <2>6. CASE WriteStep(w)
      <3>1. Held(w)
        BY <2>6 DEF WriteStep, Stage, BeginBackup, FinishBackup, Prune, Replace,
                    ReadyToReplace, SyncParent, Held
      <3>2. /\ UNCHANGED <<locks, plan>>
            /\ \A v \in Workers : v # w => pc'[v] = pc[v]
        BY <2>6 DEF WriteStep, Stage, BeginBackup, FinishBackup, Prune, Replace,
                    SyncParent, Goto, control, TypeInv, TypeOK
      <3>. QED
        BY <3>1, <3>2, InsideKeepsLock
    <2>. QED
      BY <1>2, <2>1, <2>2, <2>3, <2>4, <2>5, <2>6 DEF Progress
  <1>3. ASSUME NEW w \in Workers, LockError(w) PROVE LockInv'
    BY <1>3, OutsideKeepsLock DEF LockError, Close, Goto, locks, TypeInv, TypeOK
  <1>4. ASSUME NEW w \in Workers, Fault(w) PROVE LockInv'
    BY <1>4, InsideKeepsLock DEF Fault, Raise, Goto, Held, TypeInv, TypeOK
  <1>5. ASSUME NEW w \in Workers, Crash(w) PROVE LockInv'
    BY <1>5, OutsideKeepsLock DEF Crash, Close, Goto, TypeInv, TypeOK
  <1>6. CASE Damage \/ UNCHANGED vars
    BY <1>6 DEF Damage, vars, locks, control, LockInv, Held, Section
  <1>. QED
    BY <1>1, <1>2, <1>3, <1>4, <1>5, <1>6 DEF Next

(* For any number of requests in any number of processes, and whatever     *)
(* crashes, times out or fails, the load-check-replace of a section that   *)
(* may write is never interleaved with another locked section.             *)
THEOREM WritersAreAlone == Spec => []WritersAlone
  <1>1. Init => TypeInv /\ LockInv
    BY InitType DEF Init, LockInv, Held
  <1>2. TypeInv /\ LockInv /\ [Next]_vars => (TypeInv /\ LockInv)'
    BY NextType, NextLock
  <1>3. LockInv => WritersAlone
    <2> SUFFICES ASSUME LockInv, NEW v \in Workers, NEW w \in Workers, v # w,
                        MayWrite(v), Held(w)
                 PROVE  FALSE
      BY DEF WritersAlone
    <2>1. v \in writer
      BY DEF LockInv, MayWrite
    <2>2. w \in readers \/ w \in writer
      BY DEF LockInv
    <2>. QED
      BY <2>1, <2>2 DEF LockInv
  <1>. QED
    BY <1>1, <1>2, <1>3, PTL DEF Spec

-----------------------------------------------------------------------------
(* What is committed, lost and kept.                                       *)

Drafting == {"drafted", "staged", "copying", "pruning"}
Special == {"recover", "initialize"}
Middle == Upgrades \cup {"ensure"}

-----------------------------------------------------------------------------
(* The kinds of steps.  Twenty-seven actions move a worker in ten ways;    *)
(* the invariants below are proved once for each way.                      *)

(* A step of w touches no other worker.                                    *)
Only(w) ==
  \A v \in Workers : v # w =>
    /\ pc'[v] = pc[v] /\ plan'[v] = plan[v]
    /\ txn'[v] = txn[v] /\ draft'[v] = draft[v]

FilesKept == UNCHANGED <<canon, backups, clock, last, prior>>

(* Faults and crashes are counted, and only one of them takes a worker     *)
(* away from its backup before rotation.                                   *)
Counted(w) ==
  /\ \A i \in Incidents : incidents'[i] >= incidents[i]
  /\ incidents'["recovery"] = incidents["recovery"]
  /\ pc[w] \in {"copying", "pruning"} =>
       incidents'["crash"] + incidents'["fault"]
         >= incidents["crash"] + incidents["fault"] + 1

Starts(w, request, t) ==
  /\ pc[w] = "idle" /\ pc'[w] = "waiting" /\ draft'[w] = draft[w]
  /\ plan'[w] = (IF request \in Special THEN <<request>>
                                        ELSE <<"ensure", request>>)
  /\ txn'[w] = t /\ FilesKept
  /\ IF request = "mutate"
       THEN /\ t \in Txns /\ outcome[t] = "unused"
            /\ outcome' = [outcome EXCEPT ![t] = "running"]
       ELSE t = NoTxn /\ UNCHANGED outcome
  /\ incidents' = IF request = "recover"
                    THEN [incidents EXCEPT !["recovery"] = @ + 1]
                    ELSE incidents

Ends(w) ==
  /\ pc[w] # "idle" /\ pc'[w] = "idle" /\ plan'[w] = <<>>
  /\ txn'[w] = NoTxn /\ draft'[w] = None /\ FilesKept /\ Counted(w)
  /\ \E result \in Outcomes \ {"unused", "running"} :
       /\ outcome' = IF txn[w] = NoTxn THEN outcome
                     ELSE [outcome EXCEPT ![txn[w]] = result]
       /\ result = "done" => /\ pc[w] = "unlocking" /\ draft[w] # None
                             /\ ~(Len(plan[w]) > 1)

Turns(w) ==
  /\ pc[w] = "unlocking" /\ pc'[w] = "waiting"
  /\ Len(plan[w]) > 1 /\ plan'[w] = Tail(plan[w])
  /\ txn'[w] = txn[w] /\ draft'[w] = None
  /\ FilesKept /\ UNCHANGED <<outcome, incidents>>

Checks(w) ==
  /\ pc[w] = "locked" /\ pc'[w] = "unlocking" /\ Section(w) = "ensure"
  /\ plan'[w] \in {plan[w], <<"ensure">> \o UpgradesFor(canon) \o Tail(plan[w])}
  /\ txn'[w] = txn[w] /\ draft'[w] = draft[w]
  /\ FilesKept /\ UNCHANGED <<outcome, incidents>>

Moves(w) ==
  /\ \/ pc[w] = "waiting" /\ pc'[w] = "locked"
     \/ pc[w] = "locked" /\ pc'[w] = "unlocking"
     \/ pc[w] = "drafted" /\ pc'[w] = "staged"
     \/ pc[w] = "replaced" /\ pc'[w] = "unlocking"
     \/ pc[w] \notin {"idle", "waiting"} /\ pc'[w] = "unwinding"
  /\ plan'[w] = plan[w] /\ txn'[w] = txn[w] /\ draft'[w] = draft[w]
  /\ FilesKept /\ UNCHANGED outcome /\ Counted(w)

(* The document a section goes on to write, from what it has just loaded.  *)
Fits(w, doc) ==
  /\ Valid(doc) /\ Section(w) \notin SharedSections
  /\ Section(w) \notin Special => IsDocument(canon)
  /\ Section(w) = "mutate" => Valid(canon) /\ doc = Mutated(canon, txn[w])
  /\ Section(w) = "ids" => canon.ids /\ doc = WithoutOldIds(canon)
  /\ Section(w) = "audit" =>
       Valid(canon) /\ canon.audit /\ doc = WithoutOldAudit(canon)
  /\ Section(w) = "access" => canon.schema = 1 /\ doc = Migrated(canon)
  /\ Section(w) = "initialize" => canon = Missing /\ doc = EmptyDocument
  /\ Section(w) = "recover" =>
       \E b \in ValidBackups :
         Newest(b, ValidBackups) /\ doc = Restored(b.bytes)

Drafts(w) ==
  /\ pc[w] = "locked" /\ pc'[w] = "drafted" /\ Fits(w, draft'[w])
  /\ plan'[w] = plan[w] /\ txn'[w] = txn[w]
  /\ FilesKept /\ UNCHANGED <<outcome, incidents>>

Saves(w) == BeginBackup(w) \/ FinishBackup(w) \/ Prune(w) \/ Replace(w)

StepOf(w) ==
  /\ Only(w)
  /\ \/ \E request \in Requests, t \in Txns \cup {NoTxn} : Starts(w, request, t)
     \/ Ends(w) \/ Turns(w) \/ Checks(w) \/ Moves(w) \/ Drafts(w) \/ Saves(w)

(* How an incident is counted.                                             *)
LEMMA HappensCounted ==
  ASSUME TypeInv, NEW i \in {"crash", "fault"}, Happens(i), NEW w \in Workers
  PROVE  Counted(w)
  <1>1. incidents \in [Incidents -> Nat] /\ i \in Incidents
    BY DEF TypeInv, TypeOK, Incidents
  <1>2. incidents' = [incidents EXCEPT ![i] = @ + 1]
    BY DEF Happens
  <1>3. incidents'["recovery"] = incidents["recovery"]
    BY <1>1, <1>2
  <1>4. \A j \in Incidents : incidents'[j] >= incidents[j]
    BY <1>1, <1>2
  <1>5. incidents'["crash"] + incidents'["fault"]
          >= incidents["crash"] + incidents["fault"] + 1
    <2>1. {"crash", "fault"} \subseteq Incidents
      BY DEF Incidents
    <2>2. CASE i = "crash"
      BY <1>1, <1>2, <2>1, <2>2
    <2>3. CASE i = "fault"
      BY <1>1, <1>2, <2>1, <2>3
    <2>. QED
      BY <2>2, <2>3
  <1>. QED
    BY <1>3, <1>4, <1>5 DEF Counted

LEMMA SameCounted ==
  ASSUME TypeInv, UNCHANGED incidents, NEW w \in Workers,
         pc[w] \notin {"copying", "pruning"}
  PROVE  Counted(w)
  BY DEF Counted, TypeInv, TypeOK

LEMMA CloseEnds ==
  ASSUME TypeInv, NEW w \in Workers,
         NEW result \in Outcomes \ {"unused", "running"}, Close(w, result),
         result = "done" => /\ pc[w] = "unlocking" /\ draft[w] # None
                            /\ ~(Len(plan[w]) > 1),
         pc[w] # "idle", FilesKept, Counted(w)
  PROVE  StepOf(w)
  <1>1. /\ pc'[w] = "idle" /\ plan'[w] = <<>> /\ txn'[w] = NoTxn
        /\ draft'[w] = None /\ Only(w)
    BY DEF Close, Goto, Only, TypeInv, TypeOK
  <1>2. Ends(w)
    BY <1>1 DEF Ends, Close
  <1>. QED
    BY <1>1, <1>2 DEF StepOf

LEMMA RaiseMoves ==
  ASSUME TypeInv, NEW w \in Workers, Raise(w), pc[w] \notin {"idle", "waiting"},
         Counted(w)
  PROVE  StepOf(w)
  <1>1. Moves(w) /\ Only(w)
    BY DEF Raise, Goto, Moves, Only, FilesKept, files, TypeInv, TypeOK
  <1>. QED
    BY <1>1 DEF StepOf

LEMMA ReturnMoves ==
  ASSUME TypeInv, NEW w \in Workers, Return(w), pc[w] = "locked"
  PROVE  StepOf(w)
  <1>1. Counted(w)
    BY SameCounted DEF Return, history
  <1>2. Moves(w) /\ Only(w)
    BY <1>1 DEF Return, Goto, Moves, Only, FilesKept, files, history, TypeInv,
                TypeOK
  <1>. QED
    BY <1>2 DEF StepOf

LEMMA WriteDrafts ==
  ASSUME TypeInv, NEW w \in Workers, NEW doc \in Document, Write(w, doc),
         pc[w] = "locked", Fits(w, doc)
  PROVE  StepOf(w)
  <1>1. draft'[w] = doc /\ pc'[w] = "drafted" /\ Only(w)
    BY DEF Write, Goto, Only, TypeInv, TypeOK
  <1>2. Drafts(w)
    BY <1>1 DEF Write, Drafts, FilesKept, files, history
  <1>. QED
    BY <1>1, <1>2 DEF StepOf

LEMMA BeginStarts ==
  ASSUME TypeInv, NEW w \in Workers, NEW request \in Requests,
         NEW t \in Txns \cup {NoTxn}, Begin(w, request, t)
  PROVE  StepOf(w)
  <1>1. Only(w) /\ Starts(w, request, t)
    BY DEF Begin, Goto, Only, Starts, Special, Happens, FilesKept, files, TypeInv,
           TypeOK
  <1>. QED
    BY <1>1 DEF StepOf

LEMMA SectionSteps ==
  ASSUME TypeInv, NEW w \in Workers, SectionStep(w)
  PROVE  StepOf(w)
  <1>1. CASE EnsureSchema(w)
    <2>1. pc[w] = "locked" /\ Section(w) = "ensure"
      BY <1>1 DEF EnsureSchema, Loads, At
    <2>2. Checks(w) /\ Only(w)
      BY <1>1, <2>1 DEF EnsureSchema, Goto, Checks, Only, FilesKept, files,
                        history, TypeInv, TypeOK
    <2>. QED
      BY <2>2 DEF StepOf
  <1>2. CASE NormalizeIds(w)
    <2>1. canon \in Document /\ pc[w] = "locked" /\ Section(w) = "ids"
      BY <1>2, LoadedDocument DEF NormalizeIds, Sections, Upgrades
    <2>2. CASE Return(w)
      BY <2>1, <2>2, ReturnMoves
    <2>3. CASE canon.ids /\ Write(w, WithoutOldIds(canon))
      <3>1. Valid(WithoutOldIds(canon))
        BY <2>3 DEF Write
      <3>2. Fits(w, WithoutOldIds(canon))
        BY <1>2, <2>1, <2>3, <3>1 DEF Fits, SharedSections, NormalizeIds, Loads
      <3>. QED
        BY <2>1, <2>3, <3>2, WriteDrafts, UpgradedDocument
    <2>. QED
      BY <1>2, <2>2, <2>3 DEF NormalizeIds
  <1>3. CASE NormalizeAudit(w)
    <2>1. canon \in Document /\ pc[w] = "locked" /\ Section(w) = "audit"
      BY <1>3, LoadedDocument DEF NormalizeAudit, Sections, Upgrades
    <2>2. CASE Return(w)
      BY <2>1, <2>2, ReturnMoves
    <2>3. CASE canon.audit /\ Write(w, WithoutOldAudit(canon))
      <3>1. Valid(WithoutOldAudit(canon)) /\ IsDocument(canon) /\ Valid(canon)
        BY <1>3, <2>1, <2>3 DEF Write, NormalizeAudit, Loads, Accepts
      <3>2. Fits(w, WithoutOldAudit(canon))
        BY <2>1, <2>3, <3>1 DEF Fits, SharedSections
      <3>. QED
        BY <2>1, <2>3, <3>2, WriteDrafts, AuditedDocument
    <2>. QED
      BY <1>3, <2>2, <2>3 DEF NormalizeAudit
  <1>4. CASE MigrateAccess(w)
    <2>1. canon \in Document /\ pc[w] = "locked" /\ Section(w) = "access"
      BY <1>4, LoadedDocument DEF MigrateAccess, Sections, Upgrades
    <2>2. CASE Return(w)
      BY <2>1, <2>2, ReturnMoves
    <2>3. CASE canon.schema = 1 /\ Write(w, Migrated(canon))
      <3>1. Valid(Migrated(canon)) /\ IsDocument(canon)
        BY <1>4, <2>3 DEF Write, MigrateAccess, Loads
      <3>2. Fits(w, Migrated(canon))
        BY <2>1, <2>3, <3>1 DEF Fits, SharedSections
      <3>. QED
        BY <2>1, <2>3, <3>2, WriteDrafts, UpgradedDocument
    <2>. QED
      BY <1>4, <2>2, <2>3 DEF MigrateAccess
  <1>5. CASE ReadDocument(w)
    BY <1>5, ReturnMoves DEF ReadDocument, Loads, At
  <1>6. CASE Mutate(w)
    <2>1. canon \in Document /\ pc[w] = "locked" /\ Section(w) = "mutate"
      BY <1>6, LoadedDocument DEF Mutate, Sections, Requests
    <2>2. CASE Return(w)
      BY <2>1, <2>2, ReturnMoves
    <2>3. CASE Write(w, Mutated(canon, txn[w]))
      <3>1. txn[w] \in Txns
        <4>1. plan[w] \in Seq(Sections) /\ plan[w] # <<>>
          BY <2>1 DEF TypeInv, TypeOK, WorkerOK
        <4>2. 1 \in 1..Len(plan[w]) /\ plan[w][1] = "mutate"
          BY <2>1, <4>1 DEF Section
        <4>. QED
          BY <2>1, <4>2 DEF TypeInv, WorkerOK
      <3>2. /\ Valid(Mutated(canon, txn[w])) /\ IsDocument(canon)
            /\ Valid(canon)
        BY <1>6, <2>1, <2>3 DEF Write, Mutate, Loads, Accepts
      <3>3. Fits(w, Mutated(canon, txn[w]))
        BY <2>1, <3>2 DEF Fits, SharedSections
      <3>. QED
        BY <2>1, <2>3, <3>1, <3>3, WriteDrafts, MutatedDocument
    <2>. QED
      BY <1>6, <2>2, <2>3 DEF Mutate
  <1>7. CASE CallbackRejects(w) \/ LoadFails(w)
    <2>1. pc[w] = "locked" /\ Raise(w) /\ UNCHANGED incidents
      BY <1>7 DEF CallbackRejects, LoadFails, Loads, At
    <2>. QED
      BY <2>1, RaiseMoves, SameCounted
  <1>8. CASE Initialize(w)
    <2>1. pc[w] = "locked" /\ Section(w) = "initialize"
      BY <1>8 DEF Initialize, At
    <2>2. CASE canon = Missing /\ Write(w, EmptyDocument)
      <3>1. Fits(w, EmptyDocument)
        BY <2>1, <2>2 DEF Fits, Write, SharedSections, Special
      <3>. QED
        BY <2>1, <2>2, <3>1, WriteDrafts, EmptyIsDocument
    <2>3. CASE Raise(w) /\ UNCHANGED incidents
      BY <2>1, <2>3, RaiseMoves, SameCounted
    <2>. QED
      BY <1>8, <2>2, <2>3 DEF Initialize
  <1>9. CASE Recover(w)
    <2>1. pc[w] = "locked" /\ Section(w) = "recover"
      BY <1>9 DEF Recover, At
    <2>2. CASE Raise(w) /\ UNCHANGED incidents
      BY <2>1, <2>2, RaiseMoves, SameCounted
    <2>3. ASSUME NEW b \in ValidBackups, Newest(b, Stops),
                 draft' = [draft EXCEPT ![w] = Restored(b.bytes)],
                 Goto(w, "drafted"),
                 UNCHANGED <<canon, backups, clock, locks, plan, txn,
                             outcome, history>>
          PROVE  StepOf(w)
      <3>1. b.bytes \in Document /\ Valid(b.bytes)
        BY <2>3 DEF ValidBackups, IsDocument, TypeInv, TypeOK
      <3> DEFINE doc == Restored(b.bytes)
      <3>2. Valid(doc)
        BY <3>1 DEF Valid, Restored, Document
      <3>3. Newest(b, ValidBackups)
        BY <2>3 DEF Newest, Stops
      <3>4. Fits(w, doc)
        BY <2>1, <2>3, <3>2, <3>3 DEF Fits, SharedSections, Special
      <3> HIDE DEF doc
      <3>5. draft' = [draft EXCEPT ![w] = doc]
        BY <2>3 DEF doc
      <3>6. draft'[w] = doc /\ pc'[w] = "drafted" /\ Only(w)
        BY <2>3, <3>5 DEF Goto, Only, TypeInv, TypeOK
      <3>7. Drafts(w)
        BY <2>1, <2>3, <3>4, <3>6 DEF Drafts, FilesKept, history
      <3>. QED
        BY <3>6, <3>7 DEF StepOf
    <2>. QED
      BY <1>9, <2>2, <2>3 DEF Recover
  <1>. QED
    BY <1>1, <1>2, <1>3, <1>4, <1>5, <1>6, <1>7, <1>8, <1>9 DEF SectionStep

LEMMA WriteSteps ==
  ASSUME TypeInv, NEW w \in Workers, WriteStep(w)
  PROVE  StepOf(w)
  <1>1. CASE Stage(w) \/ SyncParent(w)
    <2>1. Counted(w)
      BY <1>1, SameCounted DEF Stage, SyncParent, history
    <2>2. Moves(w) /\ Only(w)
      BY <1>1, <2>1 DEF Stage, SyncParent, Goto, Moves, Only, FilesKept, files,
                        history, TypeInv, TypeOK
    <2>. QED
      BY <2>2 DEF StepOf
  <1>2. CASE BeginBackup(w) \/ FinishBackup(w) \/ Prune(w) \/ Replace(w)
    <2>1. Only(w)
      BY <1>2 DEF BeginBackup, FinishBackup, Prune, Replace, Goto, Only, control,
                  TypeInv, TypeOK
    <2>. QED
      BY <1>2, <2>1 DEF StepOf, Saves
  <1>. QED
    BY <1>1, <1>2 DEF WriteStep

LEMMA Steps ==
  ASSUME TypeInv, Next
  PROVE  (\E w \in Workers : StepOf(w)) \/ Damage
  <1>1. ASSUME NEW w \in Workers, NEW request \in Requests,
               NEW t \in Txns \cup {NoTxn}, Begin(w, request, t)
        PROVE  StepOf(w)
    BY <1>1, BeginStarts
  <1>2. ASSUME NEW w \in Workers, Progress(w) PROVE StepOf(w)
    <2>1. CASE Acquire(w)
      <3>1. Counted(w)
        BY <2>1, SameCounted DEF Acquire, history
      <3>2. Moves(w) /\ Only(w)
        BY <2>1, <3>1 DEF Acquire, Goto, Moves, Only, FilesKept, files, history,
                          TypeInv, TypeOK
      <3>. QED
        BY <3>2 DEF StepOf
    <2>2. CASE TimeOut(w)
      BY <2>2, CloseEnds, SameCounted
      DEF TimeOut, Outcomes, FilesKept, files, history
    <2>3. CASE Unlock(w)
      <3>1. FilesKept /\ UNCHANGED incidents /\ pc[w] = "unlocking" /\ Counted(w)
        BY <2>3, SameCounted DEF Unlock, FilesKept, files, history
      <3>2. CASE Len(plan[w]) > 1
        <4>1. Turns(w) /\ Only(w)
          BY <2>3, <3>1, <3>2 DEF Unlock, Turns, Only, Goto, TypeInv, TypeOK
        <4>. QED
          BY <4>1 DEF StepOf
      <3>3. CASE ~(Len(plan[w]) > 1)
        BY <2>3, <3>1, <3>3, CloseEnds DEF Unlock, Outcomes
      <3>. QED
        BY <3>2, <3>3
    <2>4. CASE Unwind(w)
      BY <2>4, CloseEnds, SameCounted
      DEF Unwind, Outcomes, FilesKept, files, history
    <2>5. CASE SectionStep(w)
      BY <2>5, SectionSteps
    <2>6. CASE WriteStep(w)
      BY <2>6, WriteSteps
    <2>. QED
      BY <1>2, <2>1, <2>2, <2>3, <2>4, <2>5, <2>6 DEF Progress
  <1>3. ASSUME NEW w \in Workers, LockError(w) PROVE StepOf(w)
    BY <1>3, CloseEnds, HappensCounted
    DEF LockError, Outcomes, FilesKept, files
  <1>4. ASSUME NEW w \in Workers, Fault(w) PROVE StepOf(w)
    BY <1>4, RaiseMoves, HappensCounted DEF Fault
  <1>5. ASSUME NEW w \in Workers, Crash(w) PROVE StepOf(w)
    BY <1>5, CloseEnds, HappensCounted DEF Crash, Outcomes, FilesKept, files
  <1>. QED
    BY <1>1, <1>2, <1>3, <1>4, <1>5 DEF Next

-----------------------------------------------------------------------------
(* The sections of a request, in order.                                    *)

(* Schema checks and upgrades first, then the section the request came     *)
(* for; a recovery and an initialisation have no other section.            *)
InOrder(p) ==
  /\ p # <<>>
  /\ \A i \in 1..(Len(p) - 1) : p[i] \in Middle
  /\ p[Len(p)] \in Requests
  /\ Len(p) > 1 => p[Len(p)] \notin Special

PlanOK(w) ==
  /\ pc[w] = "idle" => txn[w] = NoTxn
  /\ pc[w] \in {"idle", "waiting", "locked"} => draft[w] = None
  /\ pc[w] # "idle" =>
       /\ InOrder(plan[w])
       /\ txn[w] # NoTxn => plan[w][Len(plan[w])] = "mutate"
       /\ Section(w) = "recover" => incidents["recovery"] > 0

LEMMA NonEmptyPlan ==
  ASSUME NEW S, NEW p \in Seq(S), Len(p) > 0
  PROVE  p # <<>>
  <1>1. Len(<<>>) = 0 /\ ~(0 > 0)
    OBVIOUS
  <1>. QED
    BY <1>1, Zenon

LEMMA OrderedHead ==
  ASSUME NEW p \in Seq(Sections), InOrder(p)
  PROVE  /\ Len(p) \in Nat /\ Len(p) > 0
         /\ Len(p) > 1 => Head(p) \in Middle
         /\ ~(Len(p) > 1) => Len(p) = 1 /\ Head(p) = p[Len(p)]
  <1>1. p # <<>>
    BY DEF InOrder
  <1>2. Len(p) \in Nat /\ Len(p) > 0 /\ Head(p) = p[1]
    BY <1>1
  <1>3. ASSUME Len(p) > 1 PROVE Head(p) \in Middle
    <2>1. 1 \in 1..(Len(p) - 1)
      BY <1>2, <1>3
    <2>. QED
      BY <1>2, <2>1 DEF InOrder
  <1>4. ASSUME ~(Len(p) > 1) PROVE Len(p) = 1 /\ Head(p) = p[Len(p)]
    <2>1. \A n \in Nat : n > 0 /\ ~(n > 1) => n = 1
      OBVIOUS
    <2>2. Len(p) = 1
      BY <1>2, <1>4, <2>1, Zenon
    <2>. QED
      BY <1>2, <2>2, Zenon
  <1>. QED
    BY <1>2, <1>3, <1>4

LEMMA OrderedTail ==
  ASSUME NEW p \in Seq(Sections), InOrder(p), Len(p) > 1
  PROVE  InOrder(Tail(p)) /\ Tail(p)[Len(Tail(p))] = p[Len(p)]
  <1>1. p # <<>>
    BY DEF InOrder
  <1>2. /\ Tail(p) \in Seq(Sections) /\ Len(Tail(p)) = Len(p) - 1
        /\ \A i \in 1..Len(Tail(p)) : Tail(p)[i] = p[i + 1]
    BY <1>1, HeadTailProperties
  <1>3. Len(Tail(p)) \in 1..Len(Tail(p)) /\ Tail(p)[Len(Tail(p))] = p[Len(p)]
    BY <1>2
  <1>4. \A i \in 1..(Len(Tail(p)) - 1) : Tail(p)[i] \in Middle
    BY <1>2 DEF InOrder
  <1>5. Tail(p) # <<>>
    <2>1. Len(Tail(p)) > 0
      BY <1>2
    <2>. QED
      BY <1>2, <2>1, NonEmptyPlan, Zenon
  <1>. QED
    BY <1>3, <1>4, <1>5 DEF InOrder

LEMMA OrderedJoin ==
  ASSUME NEW s \in Seq(Middle), NEW p \in Seq(Sections), InOrder(p),
         p[Len(p)] \notin Special
  PROVE  InOrder(s \o p) /\ (s \o p)[Len(s \o p)] = p[Len(p)]
  <1> DEFINE new == s \o p
  <1>1. s \in Seq(Sections) /\ \A i \in 1..Len(s) : s[i] \in Middle
    BY DEF Middle, Sections
  <1>2. /\ new \in Seq(Sections) /\ Len(new) = Len(s) + Len(p)
        /\ \A i \in 1..Len(s) + Len(p) : new[i] =
             IF i <= Len(s) THEN s[i] ELSE p[i - Len(s)]
    BY <1>1, ConcatProperties
  <1>3. Len(p) \in Nat /\ Len(p) > 0 /\ Len(s) \in Nat
    BY <1>1, OrderedHead
  <1> HIDE DEF new
  <1>4. new[Len(new)] = p[Len(p)]
    BY <1>2, <1>3
  <1>5. ASSUME NEW i \in 1..(Len(new) - 1) PROVE new[i] \in Middle
    <2>1. CASE i <= Len(s)
      BY <1>1, <1>2, <1>3, <2>1
    <2>2. CASE ~(i <= Len(s))
      <3>1. i - Len(s) \in 1..(Len(p) - 1) /\ new[i] = p[i - Len(s)]
        BY <1>2, <1>3, <2>2
      <3>. QED
        BY <3>1 DEF InOrder
    <2>. QED
      BY <2>1, <2>2
  <1>6. new # <<>>
    BY <1>2, <1>3, NonEmptyPlan
  <1>7. InOrder(new)
    BY <1>4, <1>5, <1>6 DEF InOrder
  <1>. QED
    BY <1>4, <1>7 DEF new

LEMMA OrderedUpgrades ==
  ASSUME NEW doc, NEW p \in Seq(Sections), InOrder(p), Head(p) = "ensure"
  PROVE  LET new == <<"ensure">> \o UpgradesFor(doc) \o Tail(p)
         IN  InOrder(new) /\ new[Len(new)] = p[Len(p)] /\ Head(new) = "ensure"
  <1>1. Len(p) > 1
    BY OrderedHead DEF InOrder, Requests
  <1>2. Tail(p) \in Seq(Sections) /\ InOrder(Tail(p))
        /\ Tail(p)[Len(Tail(p))] = p[Len(p)] /\ p # <<>>
    BY <1>1, OrderedTail, HeadTailProperties DEF InOrder
  <1>3. <<"ensure">> \o UpgradesFor(doc) \in Seq(Middle)
    <2>1. UpgradesFor(doc) \in Seq(Middle)
      <3> DEFINE first == IF doc.schema = 2 /\ doc.ids THEN <<"ids">> ELSE <<>>
                 second == IF doc.schema = 2 /\ doc.audit THEN <<"audit">>
                                                          ELSE <<"access">>
      <3>1. first = <<>> \/ first = <<"ids">>
        BY Zenon
      <3>2. second = <<"audit">> \/ second = <<"access">>
        BY Zenon
      <3>3. UpgradesFor(doc) = first \o second
        BY DEF UpgradesFor
      <3> HIDE DEF first, second
      <3>4. /\ <<>> \in Seq(Middle) /\ <<"ids">> \in Seq(Middle)
            /\ <<"audit">> \in Seq(Middle) /\ <<"access">> \in Seq(Middle)
        BY DEF Middle, Upgrades
      <3>5. first \in Seq(Middle) /\ second \in Seq(Middle)
        BY <3>1, <3>2, <3>4, Zenon
      <3>. QED
        BY <3>3, <3>5
    <2>2. <<"ensure">> \o UpgradesFor(doc) \in Seq(Middle)
      <3>1. <<"ensure">> \in Seq(Middle)
        BY DEF Middle
      <3>. QED
        BY <2>1, <3>1
    <2>. QED
      BY <2>2
  <1>4. Tail(p)[Len(Tail(p))] \notin Special
    BY <1>1, <1>2 DEF InOrder
  <1>. QED
    BY <1>2, <1>3, <1>4, OrderedJoin, HeadOfUpgrades

LEMMA RecoveryGrows ==
  ASSUME TypeInv, NEW w \in Workers, StepOf(w)
  PROVE  incidents'["recovery"] >= incidents["recovery"]
  <1>1. incidents \in [Incidents -> Nat] /\ "recovery" \in Incidents
    BY DEF TypeInv, TypeOK, Incidents
  <1>2. CASE UNCHANGED incidents
    BY <1>1, <1>2
  <1>3. CASE Counted(w)
    BY <1>1, <1>3 DEF Counted
  <1>4. CASE \E request \in Requests, t \in Txns \cup {NoTxn} : Starts(w, request, t)
    BY <1>1, <1>4 DEF Starts
  <1>. QED
    BY <1>2, <1>3, <1>4
    DEF StepOf, Ends, Turns, Checks, Moves, Drafts, Saves, BeginBackup,
        FinishBackup, Prune, Replace, history

LEMMA OwnPlan ==
  ASSUME TypeInv, NEW w \in Workers, StepOf(w), PlanOK(w)
  PROVE  PlanOK(w)'
  <1> USE DEF PlanOK
  <1>1. plan[w] \in Seq(Sections)
    BY DEF TypeInv, TypeOK
  <1>2. ASSUME NEW request \in Requests, NEW t \in Txns \cup {NoTxn},
               Starts(w, request, t)
        PROVE  PlanOK(w)'
    <2>1. pc'[w] = "waiting" /\ draft'[w] = None /\ txn'[w] = t
      BY <1>2 DEF Starts
    <2>2. t # NoTxn => request = "mutate"
      BY <1>2 DEF Starts
    <2>3. request = "recover" => incidents'["recovery"] > 0
      BY <1>2 DEF Starts, TypeInv, TypeOK, Incidents
    <2>4. CASE request \in Special
      <3>1. /\ <<request>> # <<>> /\ Len(<<request>>) = 1
            /\ <<request>>[1] = request /\ Head(<<request>>) = request
        OBVIOUS
      <3>2. InOrder(<<request>>)
        BY <3>1 DEF InOrder
      <3>3. plan'[w] = <<request>>
        BY <1>2, <2>4 DEF Starts
      <3>. QED
        BY <2>1, <2>2, <2>3, <3>1, <3>2, <3>3 DEF Section
    <2>5. CASE request \notin Special
      <3> DEFINE p == <<"ensure", request>>
      <3>1. /\ p # <<>> /\ Len(p) = 2 /\ p[1] = "ensure" /\ p[2] = request
            /\ Head(p) = "ensure"
        OBVIOUS
      <3>2. plan'[w] = p
        BY <1>2, <2>5 DEF Starts
      <3> HIDE DEF p
      <3>3. \A i \in 1..(Len(p) - 1) : p[i] = "ensure"
        BY <3>1
      <3>4. InOrder(p)
        BY <2>5, <3>1, <3>3 DEF InOrder, Middle
      <3>. QED
        BY <2>1, <2>2, <3>1, <3>2, <3>4 DEF Section
    <2>. QED
      BY <2>4, <2>5
  <1>3. CASE Ends(w)
    BY <1>3 DEF Ends
  <1>4. CASE Turns(w)
    <2>1. /\ InOrder(plan[w]) /\ Len(plan[w]) > 1 /\ pc[w] # "idle"
          /\ plan'[w] = Tail(plan[w]) /\ pc'[w] = "waiting"
          /\ draft'[w] = None /\ txn'[w] = txn[w]
      BY <1>4 DEF Turns
    <2>2. /\ InOrder(plan'[w])
          /\ plan'[w][Len(plan'[w])] = plan[w][Len(plan[w])]
      BY <1>1, <2>1, OrderedTail
    <2>3. Section(w)' # "recover"
      <3>1. plan'[w] \in Seq(Sections)
        BY <1>1, <2>1, HeadTailProperties DEF InOrder
      <3>2. plan'[w][Len(plan'[w])] # "recover"
        BY <2>1, <2>2 DEF InOrder, Special
      <3>. QED
        BY <2>2, <3>1, <3>2, OrderedHead DEF Section, Middle, Upgrades
    <2>. QED
      BY <2>1, <2>2, <2>3
  <1>5. CASE Checks(w)
    <2>1. /\ InOrder(plan[w]) /\ Head(plan[w]) = "ensure" /\ pc[w] # "idle"
          /\ pc'[w] = "unlocking" /\ txn'[w] = txn[w]
      BY <1>5 DEF Checks, Section
    <2>2. /\ InOrder(plan'[w]) /\ Head(plan'[w]) = "ensure"
          /\ plan'[w][Len(plan'[w])] = plan[w][Len(plan[w])]
      <3> DEFINE new == <<"ensure">> \o UpgradesFor(canon) \o Tail(plan[w])
      <3>1. InOrder(new) /\ new[Len(new)] = plan[w][Len(plan[w])]
            /\ Head(new) = "ensure"
        BY <1>1, <2>1, OrderedUpgrades
      <3>2. plan'[w] = plan[w] \/ plan'[w] = new
        BY <1>5 DEF Checks
      <3> HIDE DEF new
      <3>. QED
        BY <2>1, <3>1, <3>2
    <2>. QED
      BY <2>1, <2>2 DEF Section
  <1>6. CASE Moves(w)
    BY <1>6, RecoveryGrows DEF Moves, Section, Counted
  <1>7. CASE Drafts(w)
    BY <1>7 DEF Drafts, Section
  <1>8. CASE Saves(w)
    <2>1. /\ pc[w] \in Drafting /\ pc'[w] \in Drafting \cup {"replaced"}
          /\ plan'[w] = plan[w] /\ txn'[w] = txn[w] /\ UNCHANGED incidents
      BY <1>8 DEF Saves, BeginBackup, FinishBackup, Prune, Replace,
                  ReadyToReplace, Drafting, Goto, control, history, TypeInv, TypeOK
    <2>. QED
      BY <2>1 DEF Section, Drafting
  <1>. QED
    BY <1>2, <1>3, <1>4, <1>5, <1>6, <1>7, <1>8 DEF StepOf

Plans == \A w \in Workers : PlanOK(w)

LEMMA NextPlans == TypeInv /\ Plans /\ [Next]_vars => Plans'
  <1> SUFFICES ASSUME TypeInv, Plans, [Next]_vars, NEW v \in Workers
               PROVE  PlanOK(v)'
    BY DEF Plans
  <1>1. PlanOK(v)
    BY DEF Plans
  <1>2. ASSUME NEW w \in Workers, StepOf(w) PROVE PlanOK(v)'
    <2>1. CASE v = w
      BY <1>1, <1>2, <2>1, OwnPlan
    <2>2. CASE v # w
      <3>1. /\ pc'[v] = pc[v] /\ plan'[v] = plan[v]
            /\ txn'[v] = txn[v] /\ draft'[v] = draft[v]
        BY <1>2, <2>2 DEF StepOf, Only
      <3>2. incidents["recovery"] > 0 => incidents'["recovery"] > 0
        <4>1. incidents["recovery"] \in Nat
          BY DEF TypeInv, TypeOK, Incidents
        <4>2. incidents'["recovery"] \in Nat
          BY NextType DEF TypeInv, TypeOK, Incidents
        <4>. QED
          BY <1>2, <4>1, <4>2, RecoveryGrows
      <3>. QED
        BY <1>1, <3>1, <3>2 DEF PlanOK, Section
    <2>. QED
      BY <2>1, <2>2
  <1>3. CASE Damage
    <2>1. UNCHANGED <<pc, plan, txn, draft>>
          /\ incidents'["recovery"] = incidents["recovery"]
      BY <1>3 DEF Damage, Happens, control, TypeInv, TypeOK, Incidents
    <2>. QED
      BY <1>1, <2>1 DEF PlanOK, Section
  <1>4. CASE UNCHANGED vars
    BY <1>1, <1>4 DEF vars, control, history, PlanOK, Section
  <1>. QED
    BY <1>2, <1>3, <1>4, Steps

-----------------------------------------------------------------------------
(* The canonical path, the backups and what can be restored.               *)

(* Names are unique and past; without a limit no backup is ever made.      *)
BackupsInv ==
  /\ IsFiniteSet(backups)
  /\ \A b \in backups : b.stamp < clock
  /\ \A b, c \in backups : b.stamp = c.stamp => b = c
  /\ BackupLimit = 0 => backups = {}

(* What the path holds is the newest committed document or damage, and     *)
(* only a valid document has a predecessor or a backup to go back to.      *)
CanonInv ==
  /\ canon = Missing => last = None /\ backups = {}
  /\ canon # Missing => last # None
  /\ IsDocument(canon) => canon = last
  /\ last = None => prior = None
  /\ last # None /\ ~Valid(last) => prior = None /\ ValidBackups = {}

(* A backup under way is still incomplete, then a copy of the document.    *)
BackupPhase(w) ==
  /\ pc[w] \in {"copying", "pruning"} => KeepsBackup(w)
  /\ pc[w] = "copying" =>
       \E b \in backups :
         b.stamp = clock - 1 /\ b.bytes \in {Corrupt, Garbled}
  /\ pc[w] = "pruning" => [stamp |-> clock - 1, bytes |-> canon] \in backups

WriterOK(w) ==
  /\ pc[w] \in Drafting => Fits(w, draft[w])
  /\ BackupPhase(w)

FilesInv ==
  /\ BackupsInv /\ CanonInv /\ BackupCoversPrior
  /\ \A w \in Workers : WriterOK(w)

LEMMA Documents ==
  /\ \A doc \in Document : IsDocument(doc)
  /\ ~IsDocument(Missing) /\ ~IsDocument(Corrupt) /\ ~IsDocument(Garbled)
  /\ ~IsDocument(None)
  BY StoreAssumption DEF StoreAssumption, IsDocument

LEMMA BackupFacts ==
  ASSUME TypeInv
  PROVE  /\ clock \in Nat /\ \A b \in backups : b.stamp \in Nat
         /\ \A b \in ValidBackups :
              b \in backups /\ b.bytes \in Document /\ Valid(b.bytes)
  BY DEF TypeInv, TypeOK, ValidBackups, IsDocument

(* While a candidate is on its way, the other workers are outside.         *)
LEMMA Alone ==
  ASSUME TypeInv, LockInv, NEW w \in Workers, pc[w] \in Drafting,
         NEW v \in Workers, v # w
  PROVE  pc[v] \in {"idle", "waiting"}
  <1>1. Held(w) /\ Section(w) \notin SharedSections
    BY DEF TypeInv, WorkerOK, Held, Drafting, Writing
  <1>2. writer = {w} /\ readers = {}
    BY <1>1 DEF LockInv
  <1>. QED
    BY <1>2 DEF LockInv, Held

(* The sections that write a document other than a restored or empty one.  *)
LEMMA WritingSections ==
  ASSUME TypeInv, NEW w \in Workers, pc[w] \in Drafting
  PROVE  Section(w) \in {"mutate", "ids", "audit", "access"} \cup Special
  <1>1. plan[w] \in Seq(Sections) /\ plan[w] # <<>> /\ Section(w) \notin SharedSections
    BY DEF TypeInv, TypeOK, WorkerOK, Drafting, Writing
  <1>2. Section(w) \in Sections
    BY <1>1 DEF Section
  <1>. QED
    BY <1>1, <1>2 DEF Sections, Requests, Upgrades, SharedSections, Special

(* A step that leaves the files alone.                                     *)
LEMMA KeptFiles ==
  ASSUME TypeInv, FilesInv, NEW w \in Workers, StepOf(w), FilesKept, ~Saves(w)
  PROVE  FilesInv'
  <1>1. /\ BackupsInv' /\ CanonInv' /\ BackupCoversPrior'
        /\ ValidBackups' = ValidBackups
    BY DEF FilesKept, FilesInv, BackupsInv, CanonInv, BackupCoversPrior,
           ValidBackups
  <1>2. ASSUME NEW v \in Workers, pc'[v] = pc[v], plan'[v] = plan[v],
               txn'[v] = txn[v], draft'[v] = draft[v]
        PROVE  WriterOK(v)'
    BY <1>1, <1>2 DEF FilesInv, WriterOK, Fits, BackupPhase, KeepsBackup, Section,
                      FilesKept
  <1>3. ASSUME NEW v \in Workers, v # w PROVE WriterOK(v)'
    BY <1>2, <1>3 DEF StepOf, Only
  <1>4. WriterOK(w)'
    <2>1. CASE pc'[w] \notin Drafting
      BY <2>1 DEF WriterOK, BackupPhase, Drafting
    <2>2. CASE pc'[w] = "staged"
      <3>1. pc[w] = "drafted" /\ plan'[w] = plan[w] /\ txn'[w] = txn[w]
            /\ draft'[w] = draft[w]
        BY <2>2 DEF StepOf, Starts, Ends, Turns, Checks, Moves, Drafts
      <3>. QED
        BY <1>1, <2>2, <3>1
        DEF FilesInv, WriterOK, Fits, BackupPhase, Section, FilesKept, Drafting
    <2>3. CASE pc'[w] = "drafted"
      <3>1. Drafts(w)
        BY <2>3 DEF StepOf, Starts, Ends, Turns, Checks, Moves
      <3>2. Fits(w, draft[w])'
        BY <1>1, <3>1 DEF Drafts, Fits, Section, FilesKept
      <3>. QED
        BY <2>3, <3>2 DEF WriterOK, BackupPhase
    <2>4. pc'[w] \notin {"copying", "pruning"}
      BY DEF StepOf, Starts, Ends, Turns, Checks, Moves, Drafts
    <2>. QED
      BY <2>1, <2>2, <2>3, <2>4 DEF Drafting
  <1>. QED
    BY <1>1, <1>3, <1>4 DEF FilesInv

(* A worker outside its section, whatever the files are.                   *)
LEMMA OutsideOK ==
  ASSUME NEW v \in Workers, pc'[v] \notin Drafting
  PROVE  WriterOK(v)'
  BY DEF WriterOK, BackupPhase, Drafting

(* The steps that change files all belong to a worker that is alone.       *)
LEMMA SavesAlone ==
  ASSUME TypeInv, LockInv, NEW w \in Workers, Saves(w),
         NEW v \in Workers, v # w
  PROVE  pc'[v] \in {"idle", "waiting"}
  <1>1. pc[w] \in Drafting /\ pc'[v] = pc[v]
    BY DEF Saves, BeginBackup, FinishBackup, Prune, Replace, ReadyToReplace,
           Drafting, Goto, control, TypeInv, TypeOK
  <1>. QED
    BY <1>1, Alone

LEMMA BeginBackupFiles ==
  ASSUME TypeInv, LockInv, FilesInv, NEW w \in Workers, BeginBackup(w)
  PROVE  FilesInv'
  <1>1. PICK cut \in {Corrupt, Garbled} :
           backups' = backups \cup {[stamp |-> clock, bytes |-> cut]}
    BY DEF BeginBackup
  <1> DEFINE new == [stamp |-> clock, bytes |-> cut]
  <1>2. /\ pc[w] = "staged" /\ pc'[w] = "copying" /\ KeepsBackup(w)
        /\ clock' = clock + 1 /\ UNCHANGED <<canon, last, prior, plan, txn, draft>>
    BY DEF BeginBackup, Goto, history, TypeInv, TypeOK
  <1>3. clock \in Nat /\ BackupLimit \in Nat
    BY BackupFacts, StoreAssumption DEF StoreAssumption
  <1>4. ValidBackups' = ValidBackups
    BY <1>1, Documents DEF ValidBackups
  <1>5. BackupsInv'
    <2>1. IsFiniteSet(backups')
      BY <1>1, FS_AddElement DEF FilesInv, BackupsInv
    <2>2. \A b \in backups : b.stamp \in Nat /\ b.stamp < clock
      BY BackupFacts DEF FilesInv, BackupsInv
    <2>3. new.stamp = clock
      OBVIOUS
    <2>4. BackupLimit # 0
      BY <1>2, <1>3 DEF KeepsBackup
    <2> HIDE DEF new
    <2>5. \A b \in backups' : b.stamp < clock'
      BY <1>1, <1>2, <1>3, <2>2, <2>3 DEF new
    <2>6. \A b, c \in backups' : b.stamp = c.stamp => b = c
      BY <1>1, <1>3, <2>2, <2>3 DEF FilesInv, BackupsInv, new
    <2>. QED
      BY <2>1, <2>4, <2>5, <2>6 DEF BackupsInv
  <1>6. CanonInv' /\ BackupCoversPrior'
    <2>1. canon # Missing
      BY DEF BeginBackup
    <2>. QED
      BY <1>2, <1>4, <2>1 DEF FilesInv, CanonInv, BackupCoversPrior
  <1>7. WriterOK(w)'
    <2>1. Fits(w, draft[w])
      BY <1>2 DEF FilesInv, WriterOK, Drafting
    <2>2. Fits(w, draft[w])'
      BY <1>2, <1>4, <2>1 DEF Fits, Section
    <2>3. KeepsBackup(w)'
      BY <1>2 DEF KeepsBackup, Section
    <2>4. new \in backups' /\ new.stamp = clock' - 1 /\ new.bytes \in {Corrupt, Garbled}
      BY <1>1, <1>2, <1>3
    <2>. QED
      BY <1>2, <2>2, <2>3, <2>4 DEF WriterOK, BackupPhase
  <1>8. \A v \in Workers : v # w => WriterOK(v)'
    <2> SUFFICES ASSUME NEW v \in Workers, v # w PROVE WriterOK(v)'
      OBVIOUS
    <2>1. pc'[v] \in {"idle", "waiting"}
      BY SavesAlone DEF Saves
    <2>. QED
      BY <2>1, OutsideOK DEF Drafting
  <1>. QED
    BY <1>5, <1>6, <1>7, <1>8 DEF FilesInv

LEMMA FinishBackupFiles ==
  ASSUME TypeInv, LockInv, FilesInv, NEW w \in Workers, FinishBackup(w)
  PROVE  FilesInv'
  <1> DEFINE new == [stamp |-> clock - 1, bytes |-> canon]
             kept == {b \in backups : b.stamp # clock - 1}
  <1>1. /\ pc[w] = "copying" /\ pc'[w] = "pruning" /\ KeepsBackup(w)
        /\ backups' = kept \cup {new}
        /\ UNCHANGED <<canon, clock, last, prior, plan, txn, draft>>
    BY DEF FinishBackup, Goto, history, TypeInv, TypeOK, FilesInv, WriterOK,
           BackupPhase
  <1>2. clock \in Nat /\ \A b \in backups : b.stamp \in Nat /\ b.stamp < clock
    BY BackupFacts DEF FilesInv, BackupsInv
  <1>3. canon # Missing
    BY <1>1 DEF TypeInv, WorkerOK
  <1>4. new.stamp = clock - 1 /\ new.bytes = canon
    OBVIOUS
  <1> HIDE DEF new
  <1>5. \A b \in ValidBackups : b \in kept
    <2> SUFFICES ASSUME NEW b \in ValidBackups, b.stamp = clock - 1 PROVE FALSE
      BY BackupFacts
    <2>1. PICK c \in backups : c.stamp = clock - 1 /\ c.bytes \in {Corrupt, Garbled}
      BY <1>1 DEF FilesInv, WriterOK, BackupPhase
    <2>2. b = c
      BY <2>1, BackupFacts DEF FilesInv, BackupsInv
    <2>. QED
      BY <2>1, <2>2, Documents DEF ValidBackups
  <1>6. ValidBackups' = ValidBackups \cup
          (IF IsDocument(canon) /\ Valid(canon) THEN {new} ELSE {})
    <2>1. ValidBackups' = {b \in kept \cup {new} :
                             IsDocument(b.bytes) /\ Valid(b.bytes)}
      BY <1>1 DEF ValidBackups
    <2>. QED
      BY <1>4, <1>5, <2>1 DEF ValidBackups
  <1>7. BackupsInv'
    <2>1. IsFiniteSet(backups')
      <3>1. kept \subseteq backups
        OBVIOUS
      <3>2. IsFiniteSet(kept)
        BY <3>1, FS_Subset DEF FilesInv, BackupsInv
      <3>. QED
        BY <1>1, <3>2, FS_AddElement
    <2>2. \A b \in backups' : b.stamp < clock'
      BY <1>1, <1>2, <1>4
    <2>3. \A b, c \in backups' : b.stamp = c.stamp => b = c
      BY <1>1, <1>4 DEF FilesInv, BackupsInv
    <2>4. BackupLimit # 0
      BY <1>1, StoreAssumption DEF StoreAssumption, KeepsBackup
    <2>. QED
      BY <2>1, <2>2, <2>3, <2>4 DEF BackupsInv
  <1>8. CanonInv'
    <2>1. last # None /\ ~Valid(last) => ValidBackups' = {} /\ prior = None
      BY <1>6 DEF FilesInv, CanonInv
    <2>. QED
      BY <1>1, <1>3, <2>1 DEF FilesInv, CanonInv
  <1>9. BackupCoversPrior'
    <2>1. ASSUME NEW b \in ValidBackups', Newest(b, ValidBackups')
          PROVE  b.bytes \in {prior, last}
      <3>1. CASE b = new
        BY <1>4, <1>6, <2>1, <3>1, <1>5 DEF FilesInv, CanonInv, BackupCoversPrior,
           Newest
      <3>2. CASE b # new
        BY <1>6, <2>1, <3>2 DEF FilesInv, BackupCoversPrior, Newest
      <3>. QED
        BY <3>1, <3>2
    <2>2. prior # None => ValidBackups' # {}
      BY <1>6 DEF FilesInv, BackupCoversPrior
    <2>. QED
      BY <1>1, <2>1, <2>2 DEF BackupCoversPrior
  <1>10. WriterOK(w)'
    <2>1. Fits(w, draft[w])
      BY <1>1 DEF FilesInv, WriterOK, Drafting
    <2>2. Section(w) # "recover"
      BY <1>1 DEF KeepsBackup
    <2>3. Fits(w, draft[w])'
      BY <1>1, <2>1, <2>2 DEF Fits, Section
    <2>4. KeepsBackup(w)'
      BY <1>1 DEF KeepsBackup, Section
    <2>5. [stamp |-> clock' - 1, bytes |-> canon'] \in backups'
      BY <1>1 DEF new
    <2>. QED
      BY <1>1, <2>3, <2>4, <2>5 DEF WriterOK, BackupPhase
  <1>11. \A v \in Workers : v # w => WriterOK(v)'
    <2> SUFFICES ASSUME NEW v \in Workers, v # w PROVE WriterOK(v)'
      OBVIOUS
    <2>1. pc'[v] \in {"idle", "waiting"}
      BY SavesAlone DEF Saves
    <2>. QED
      BY <2>1, OutsideOK DEF Drafting
  <1>. QED
    BY <1>7, <1>8, <1>9, <1>10, <1>11 DEF FilesInv

(* Rotation deletes the oldest name, valid or not: never the backup just   *)
(* made, which is the newest, because more than one is left.               *)
LEMMA PruneFiles ==
  ASSUME TypeInv, LockInv, FilesInv, NEW w \in Workers, Prune(w)
  PROVE  FilesInv'
  <1>1. PICK old \in backups : Oldest(old, backups) /\ backups' = backups \ {old}
    BY DEF Prune
  <1>2. /\ pc[w] = "pruning" /\ Cardinality(backups) > BackupLimit
        /\ UNCHANGED <<canon, clock, last, prior, pc, plan, txn, draft>>
    BY DEF Prune, history, control
  <1>3. KeepsBackup(w) /\ Fits(w, draft[w])
    BY <1>2 DEF FilesInv, WriterOK, BackupPhase, Drafting
  <1>4. clock \in Nat /\ \A b \in backups : b.stamp \in Nat /\ b.stamp < clock
    BY BackupFacts DEF FilesInv, BackupsInv
  <1> DEFINE new == [stamp |-> clock - 1, bytes |-> canon]
  <1>5. new \in backups /\ new.stamp = clock - 1 /\ new.bytes = canon
    BY <1>2 DEF FilesInv, WriterOK, BackupPhase
  <1> HIDE DEF new
  <1>6. old # new
    <2> SUFFICES ASSUME old = new PROVE FALSE
      OBVIOUS
    <2>1. \A c \in backups : c.stamp = new.stamp
      BY <1>1, <1>4, <1>5 DEF Oldest
    <2>2. backups = {new}
      BY <1>5, <2>1 DEF FilesInv, BackupsInv
    <2>3. Cardinality(backups) = 1
      BY <2>2, FS_Singleton
    <2>. QED
      BY <1>2, <1>3, <2>3, StoreAssumption DEF StoreAssumption, KeepsBackup
  <1>7. BackupsInv'
    <2>1. IsFiniteSet(backups')
      BY <1>1, FS_RemoveElement DEF FilesInv, BackupsInv
    <2>. QED
      BY <1>1, <1>2, <2>1 DEF FilesInv, BackupsInv
  <1>8. ValidBackups' = ValidBackups \ {old}
    BY <1>1 DEF ValidBackups
  <1>9. canon # Missing /\ IsDocument(canon) /\ canon = last
    <2>1. Section(w) \notin Special
      BY <1>3 DEF KeepsBackup, Special
    <2>. QED
      BY <1>3, <2>1, Documents DEF Fits, FilesInv, CanonInv
  <1>10. CanonInv'
    <2>1. last # None /\ ~Valid(last) => prior = None /\ ValidBackups' = {}
      BY <1>8 DEF FilesInv, CanonInv
    <2>. QED
      BY <1>2, <1>9, <2>1 DEF FilesInv, CanonInv
  <1>11. BackupCoversPrior'
    <2>1. CASE Valid(canon)
      <3>1. new \in ValidBackups'
        BY <1>5, <1>6, <1>8, <1>9, <2>1 DEF ValidBackups
      <3>2. ASSUME NEW b \in ValidBackups', Newest(b, ValidBackups')
            PROVE  b.bytes = last
        <4>1. new.stamp <= b.stamp /\ b \in backups
          BY <1>8, <3>1, <3>2, BackupFacts DEF Newest
        <4>2. b.stamp = new.stamp
          BY <1>4, <1>5, <4>1
        <4>3. b = new
          BY <1>5, <4>1, <4>2 DEF FilesInv, BackupsInv
        <4>. QED
          BY <1>5, <1>9, <4>3
      <3>. QED
        BY <1>2, <3>1, <3>2 DEF BackupCoversPrior
    <2>2. CASE ~Valid(canon)
      BY <1>2, <1>8, <1>9, <2>2 DEF FilesInv, CanonInv, BackupCoversPrior
    <2>. QED
      BY <2>1, <2>2
  <1>12. WriterOK(w)'
    <2>1. Section(w) # "recover"
      BY <1>3 DEF KeepsBackup
    <2>2. Fits(w, draft[w])'
      BY <1>2, <1>3, <2>1 DEF Fits, Section
    <2>3. KeepsBackup(w)' /\ new \in backups'
      BY <1>1, <1>2, <1>3, <1>5, <1>6 DEF KeepsBackup, Section
    <2>. QED
      BY <1>2, <2>2, <2>3 DEF WriterOK, BackupPhase, new
  <1>13. \A v \in Workers : v # w => WriterOK(v)'
    <2> SUFFICES ASSUME NEW v \in Workers, v # w PROVE WriterOK(v)'
      OBVIOUS
    <2>1. pc'[v] \in {"idle", "waiting"}
      BY SavesAlone DEF Saves
    <2>. QED
      BY <2>1, OutsideOK DEF Drafting
  <1>. QED
    BY <1>7, <1>10, <1>11, <1>12, <1>13 DEF FilesInv

(* What a restored document came from.                                     *)
LEMMA SourceOfRestored ==
  ASSUME NEW doc \in Document
  PROVE  Source(Restored(doc)) = doc
  <1> DEFINE next == doc.rev + 1
  <1>1. doc.rev \in Nat /\ next \in Nat /\ next - 1 = doc.rev
    BY DEF Document
  <1> HIDE DEF next
  <1> DEFINE new == [doc EXCEPT !.rev = next]
  <1>2. Restored(doc) = new
    BY DEF Restored, next
  <1>3. /\ new \in [ schema: {1, 2}, ids: BOOLEAN, audit: BOOLEAN, rev: Nat,
                     events: Seq(Event), discarded: Nat,
                     applied: SUBSET Txns, log: Seq(Event) ]
        /\ new.rev = next
    BY <1>1 DEF Document
  <1>4. [new EXCEPT !.rev = doc.rev] = doc
    BY <1>1 DEF Document
  <1> HIDE DEF new
  <1>5. Source(new) = [new EXCEPT !.rev = doc.rev]
    BY <1>1, <1>3 DEF Source
  <1>. QED
    BY <1>2, <1>4, <1>5

LEMMA ReplaceFacts ==
  ASSUME TypeInv, FilesInv, NEW w \in Workers, Replace(w)
  PROVE  /\ pc[w] \in {"staged", "pruning"} /\ pc'[w] = "replaced"
         /\ Fits(w, draft[w]) /\ draft[w] \in Document
         /\ canon' = draft[w] /\ last' = draft[w]
         /\ UNCHANGED <<backups, clock, plan, txn, draft, outcome, incidents>>
         /\ Section(w) # "recover" /\ prior' # None =>
              /\ prior' = canon /\ canon = last /\ Valid(canon)
              /\ canon \in Document /\ pc[w] = "pruning"
         /\ Section(w) = "recover" =>
              \E b \in ValidBackups :
                /\ Newest(b, ValidBackups) /\ draft[w] = Restored(b.bytes)
                /\ prior' = b.bytes /\ b.bytes \in {prior, last}
                /\ b.bytes \in Document
  <1>1. /\ pc[w] \in {"staged", "pruning"} /\ pc'[w] = "replaced"
        /\ canon' = draft[w] /\ last' = draft[w]
        /\ UNCHANGED <<backups, clock, plan, txn, draft, outcome, incidents>>
    BY DEF Replace, ReadyToReplace, Goto, TypeInv, TypeOK
  <1>2. Fits(w, draft[w]) /\ draft[w] \in Document
    BY <1>1 DEF FilesInv, WriterOK, Drafting, TypeInv, WorkerOK, Writing
  <1>3. ASSUME Section(w) # "recover", prior' # None
        PROVE  /\ prior' = canon /\ canon = last /\ Valid(canon)
               /\ canon \in Document /\ pc[w] = "pruning"
    <2>1. KeepsBackup(w) /\ IsDocument(canon) /\ Valid(canon) /\ prior' = canon
      BY <1>3 DEF Replace
    <2>2. canon = last /\ canon \in Document
      BY <2>1 DEF FilesInv, CanonInv, TypeInv, TypeOK, IsDocument
    <2>3. pc[w] = "pruning"
      BY <2>1, <2>2, Documents DEF Replace, ReadyToReplace
    <2>. QED
      BY <2>1, <2>2, <2>3
  <1>4. ASSUME Section(w) = "recover"
        PROVE  \E b \in ValidBackups :
                 /\ Newest(b, ValidBackups) /\ draft[w] = Restored(b.bytes)
                 /\ prior' = b.bytes /\ b.bytes \in {prior, last}
                 /\ b.bytes \in Document
    <2>1. PICK b \in ValidBackups :
             Newest(b, ValidBackups) /\ draft[w] = Restored(b.bytes)
      BY <1>2, <1>4 DEF Fits
    <2>2. b.bytes \in Document /\ b.bytes \in {prior, last}
      BY <2>1, BackupFacts DEF FilesInv, BackupCoversPrior
    <2>3. prior' = Source(draft[w])
      BY <1>4 DEF Replace, KeepsBackup
    <2>. QED
      BY <2>1, <2>2, <2>3, SourceOfRestored
  <1>. QED
    BY <1>1, <1>2, <1>3, <1>4

LEMMA ReplaceFiles ==
  ASSUME TypeInv, LockInv, FilesInv, NEW w \in Workers, Replace(w)
  PROVE  FilesInv'
  <1>1. /\ pc[w] \in {"staged", "pruning"} /\ pc'[w] = "replaced"
        /\ Fits(w, draft[w]) /\ draft[w] \in Document
        /\ canon' = draft[w] /\ last' = draft[w]
        /\ UNCHANGED <<backups, clock, plan, txn, draft, outcome, incidents>>
    BY ReplaceFacts
  <1>2. Valid(last') /\ last' # None /\ canon' # Missing
    BY <1>1, Markers DEF Fits
  <1>3. BackupsInv' /\ ValidBackups' = ValidBackups
    BY <1>1 DEF FilesInv, BackupsInv, ValidBackups
  <1>4. CanonInv'
    BY <1>1, <1>2 DEF CanonInv
  <1>5. BackupCoversPrior'
    <2>1. CASE Section(w) = "recover"
      <3>1. PICK b \in ValidBackups : Newest(b, ValidBackups) /\ prior' = b.bytes
        BY <2>1, ReplaceFacts
      <3>2. ASSUME NEW c \in ValidBackups, Newest(c, ValidBackups)
            PROVE  c.bytes = prior'
        <4>1. c.stamp = b.stamp
          BY <3>1, <3>2, BackupFacts DEF Newest
        <4>2. c = b
          BY <3>1, <3>2, <4>1, BackupFacts DEF FilesInv, BackupsInv
        <4>. QED
          BY <3>1, <4>2
      <3>. QED
        BY <1>3, <3>1, <3>2 DEF BackupCoversPrior
    <2>2. CASE Section(w) # "recover" /\ prior' # None
      <3>1. prior' = canon /\ Valid(canon) /\ canon \in Document /\ pc[w] = "pruning"
        BY <2>2, ReplaceFacts
      <3> DEFINE new == [stamp |-> clock - 1, bytes |-> canon]
      <3>2. new \in backups /\ new.stamp = clock - 1 /\ new.bytes = canon
        BY <3>1 DEF FilesInv, WriterOK, BackupPhase
      <3> HIDE DEF new
      <3>3. new \in ValidBackups
        BY <3>1, <3>2, Documents DEF ValidBackups
      <3>4. ASSUME NEW b \in ValidBackups, Newest(b, ValidBackups)
            PROVE  b.bytes = prior'
        <4>1. b.stamp >= new.stamp /\ b.stamp < clock /\ b \in backups
              /\ b.stamp \in Nat /\ clock \in Nat
          BY <3>3, <3>4, BackupFacts DEF Newest, FilesInv, BackupsInv
        <4>2. b.stamp = new.stamp
          BY <3>2, <4>1
        <4>3. b = new
          BY <3>2, <4>1, <4>2 DEF FilesInv, BackupsInv
        <4>. QED
          BY <3>1, <3>2, <4>3
      <3>. QED
        BY <1>3, <3>3, <3>4 DEF BackupCoversPrior
    <2>3. CASE Section(w) # "recover" /\ prior' = None
      <3>1. ValidBackups = {}
        <4>1. CASE Section(w) = "initialize"
          BY <1>1, <4>1 DEF Fits, FilesInv, CanonInv, ValidBackups
        <4>2. CASE Section(w) # "initialize"
          <5>1. IsDocument(canon)
            BY <1>1, <2>3, <4>2 DEF Fits, Special
          <5>2. CASE BackupLimit > 0
            <6>1. KeepsBackup(w)
              BY <2>3, <4>2, <5>2 DEF KeepsBackup
            <6>2. ~Valid(canon)
              BY <2>3, <5>1, <6>1, Documents DEF Replace
            <6>. QED
              BY <5>1, <6>2, Documents DEF FilesInv, CanonInv
          <5>3. CASE ~(BackupLimit > 0)
            <6>1. backups = {}
              BY <5>3, StoreAssumption DEF StoreAssumption, FilesInv, BackupsInv
            <6>. QED
              BY <6>1 DEF ValidBackups
          <5>. QED
            BY <5>2, <5>3
        <4>. QED
          BY <4>1, <4>2
      <3>. QED
        BY <1>3, <2>3, <3>1 DEF BackupCoversPrior
    <2>. QED
      BY <2>1, <2>2, <2>3
  <1>6. \A v \in Workers : WriterOK(v)'
    <2> SUFFICES ASSUME NEW v \in Workers PROVE WriterOK(v)'
      OBVIOUS
    <2>1. pc'[v] \in {"idle", "waiting", "replaced"}
      BY <1>1, SavesAlone DEF Saves
    <2>. QED
      BY <2>1, OutsideOK DEF Drafting
  <1>. QED
    BY <1>3, <1>4, <1>5, <1>6 DEF FilesInv

LEMMA DamageFiles ==
  ASSUME TypeInv, LockInv, FilesInv, Damage
  PROVE  FilesInv'
  <1>1. /\ IsDocument(canon) /\ writer = {} /\ canon' = Corrupt
        /\ UNCHANGED <<backups, clock, pc, plan, txn, draft, last, prior>>
    BY DEF Damage, control
  <1>2. BackupsInv' /\ ValidBackups' = ValidBackups /\ BackupCoversPrior'
    BY <1>1 DEF FilesInv, BackupsInv, ValidBackups, BackupCoversPrior
  <1>3. CanonInv'
    BY <1>1, <1>2, Documents, Markers DEF FilesInv, CanonInv
  <1>4. ASSUME NEW v \in Workers PROVE WriterOK(v)'
    <2>1. pc[v] \notin Drafting
      BY <1>1 DEF LockInv, Held, TypeInv, WorkerOK, Drafting, Writing
    <2>. QED
      BY <1>1, <2>1, OutsideOK
  <1>. QED
    BY <1>2, <1>3, <1>4 DEF FilesInv

LEMMA InitFiles == Init => FilesInv
  <1> SUFFICES ASSUME Init PROVE FilesInv
    OBVIOUS
  <1>1. BackupsInv
    BY FS_EmptySet DEF Init, BackupsInv
  <1>2. CanonInv /\ BackupCoversPrior
    BY Documents, StoreAssumption, Markers
    DEF Init, CanonInv, BackupCoversPrior, ValidBackups, StoreAssumption
  <1>3. \A w \in Workers : WriterOK(w)
    BY DEF Init, WriterOK, BackupPhase, Drafting
  <1>. QED
    BY <1>1, <1>2, <1>3 DEF FilesInv

LEMMA NextFiles == TypeInv /\ LockInv /\ FilesInv /\ [Next]_vars => FilesInv'
  <1> SUFFICES ASSUME TypeInv, LockInv, FilesInv, [Next]_vars PROVE FilesInv'
    OBVIOUS
  <1>1. ASSUME NEW w \in Workers, StepOf(w) PROVE FilesInv'
    <2>1. CASE Saves(w)
      BY <2>1, BeginBackupFiles, FinishBackupFiles, PruneFiles, ReplaceFiles
      DEF Saves
    <2>2. CASE ~Saves(w)
      <3>1. FilesKept
        BY <1>1, <2>2 DEF StepOf, Starts, Ends, Turns, Checks, Moves, Drafts
      <3>. QED
        BY <1>1, <2>2, <3>1, KeptFiles
    <2>. QED
      BY <2>1, <2>2
  <1>2. CASE Damage
    BY <1>2, DamageFiles
  <1>3. CASE UNCHANGED vars
    BY <1>3
    DEF vars, files, control, history, FilesInv, BackupsInv, CanonInv, BackupCoversPrior,
        ValidBackups, WriterOK, Fits, BackupPhase, KeepsBackup, Section
  <1>. QED
    BY <1>1, <1>2, <1>3, Steps

StoreInv == TypeInv /\ LockInv /\ Plans /\ FilesInv

LEMMA StoreAlways == Spec => []StoreInv
  <1>1. Init => StoreInv
    <2>1. Init => LockInv /\ Plans
      BY DEF Init, LockInv, Held, Plans, PlanOK
    <2>. QED
      BY <2>1, InitType, InitFiles DEF StoreInv
  <1>2. StoreInv /\ [Next]_vars => StoreInv'
    BY NextType, NextLock, NextPlans, NextFiles DEF StoreInv
  <1>. QED
    BY <1>1, <1>2, PTL DEF Spec

(* After any history of writes, crashes, faults, damage and rotation, the  *)
(* newest backup that validates is the newest committed document or the    *)
(* one it replaced, and it exists whenever that one could be restored:     *)
(* what restore_latest_valid_backup can return to.                         *)
THEOREM BackupsAlwaysCoverPrior == Spec => []BackupCoversPrior
  <1>1. StoreInv => BackupCoversPrior
    BY DEF StoreInv, FilesInv
  <1>. QED
    BY <1>1, StoreAlways, PTL

-----------------------------------------------------------------------------
(* Which mutations the documents contain.                                  *)

After == {"replaced", "unlocking", "unwinding"}
Contains(doc, t) == doc # None /\ t \in doc.applied
Absent(t) == ~Contains(last, t) /\ ~Contains(prior, t)

(* A mutation that is under way is nobody else's and is in no document     *)
(* before its own rename; after it, until the lock is released, it is in   *)
(* the newest one.                                                         *)
TxnOK(w) ==
  /\ txn[w] # NoTxn =>
       /\ outcome[txn[w]] = "running"
       /\ \A v \in Workers : v # w => txn[v] # txn[w]
       /\ ~(Section(w) = "mutate" /\ pc[w] \in After) => Absent(txn[w])
  /\ Section(w) = "mutate" /\ pc[w] \in {"replaced", "unlocking"}
       /\ draft[w] # None => Contains(last, txn[w])

(* One step of history adds at most one mutation.                          *)
OneApart ==
  last # None /\ prior # None =>
    \E t \in Txns \cup {NoTxn} : last.applied \subseteq prior.applied \cup {t}

TxnInv ==
  /\ \A w \in Workers : TxnOK(w)
  /\ \A t \in Txns : outcome[t] = "unused" => Absent(t)
  /\ OneApart

LEMMA WrittenApplied ==
  ASSUME NEW doc \in Document
  PROVE  /\ WithoutOldIds(doc).applied = doc.applied
         /\ WithoutOldAudit(doc).applied = doc.applied
         /\ Migrated(doc).applied = doc.applied
         /\ Restored(doc).applied = doc.applied
         /\ \A t \in Txns : Mutated(doc, t).applied = doc.applied \cup {t}
  <1>1. \A d \in Document : Retain(d) \in Document /\ Retain(d).applied = d.applied
    <2> SUFFICES ASSUME NEW d \in Document PROVE Retain(d).applied = d.applied
      BY RetainDocument
    <2> DEFINE kept == SubSeq(d.events, Len(d.events) - AuditLimit + 1, Len(d.events))
               count == d.discarded + (Len(d.events) - AuditLimit)
    <2>1. Retain(d) = d \/ Retain(d) = [d EXCEPT !.events = kept, !.discarded = count]
      BY DEF Retain
    <2> HIDE DEF kept, count
    <2>. QED
      BY <2>1 DEF Document
  <1>2. /\ WithoutOldIds(doc).applied = doc.applied
        /\ Migrated(doc).applied = doc.applied
        /\ Restored(doc).applied = doc.applied
    BY DEF WithoutOldIds, Migrated, Restored, Document
  <1>3. WithoutOldAudit(doc).applied = doc.applied
    <2> DEFINE kept == Retain(doc)
    <2>1. kept \in Document /\ kept.applied = doc.applied
      BY <1>1
    <2> HIDE DEF kept
    <2>2. [kept EXCEPT !.audit = FALSE, !.rev = @ + 1].applied = kept.applied
      BY <2>1 DEF Document
    <2>. QED
      BY <2>1, <2>2 DEF WithoutOldAudit, kept
  <1>4. ASSUME NEW t \in Txns
        PROVE  Mutated(doc, t).applied = doc.applied \cup {t}
    <2> DEFINE added == [i \in 1..EventsOf[t] |-> t]
               changed == [doc EXCEPT !.applied = @ \cup {t},
                                      !.events = @ \o added, !.log = @ \o added]
    <2>1. changed \in Document /\ changed.applied = doc.applied \cup {t}
      <3>1. added \in Seq(Event)
        BY StoreAssumption DEF StoreAssumption, Event
      <3>2. doc.events \o added \in Seq(Event) /\ doc.log \o added \in Seq(Event)
        BY <3>1 DEF Document
      <3>. QED
        BY <3>2 DEF Document
    <2> DEFINE kept == Retain(changed)
    <2>2. Mutated(doc, t) = [kept EXCEPT !.rev = @ + 1]
      BY DEF Mutated
    <2>3. kept \in Document /\ kept.applied = changed.applied
      BY <1>1, <2>1
    <2> HIDE DEF kept, changed
    <2>. QED
      BY <2>1, <2>2, <2>3 DEF Document
  <1>. QED
    BY <1>2, <1>3, <1>4

(* What a rename does to the history, section by section.                  *)
LEMMA ReplaceApplied ==
  ASSUME StoreInv, NEW w \in Workers, Replace(w)
  PROVE  /\ Section(w) \in {"mutate", "ids", "audit", "access"} \cup Special
         /\ last' # None
         /\ Section(w) = "mutate" =>
              /\ last # None /\ txn[w] \in Txns
              /\ last'.applied = last.applied \cup {txn[w]}
         /\ Section(w) \in {"ids", "audit", "access"} =>
              last # None /\ last'.applied = last.applied
         /\ Section(w) = "initialize" =>
              last = None /\ last'.applied = {} /\ prior' = None
         /\ Section(w) = "recover" =>
              /\ prior' # None /\ prior' \in {last, prior}
              /\ last'.applied = prior'.applied
         /\ Section(w) # "recover" => prior' \in {last, None}
  <1> USE DEF StoreInv
  <1>1. /\ Fits(w, draft[w]) /\ draft[w] \in Document /\ last' = draft[w]
        /\ pc[w] \in Drafting
    BY ReplaceFacts DEF Drafting
  <1>2. Section(w) \in {"mutate", "ids", "audit", "access"} \cup Special
    BY <1>1, WritingSections
  <1>3. Section(w) \in {"mutate", "ids", "audit", "access"} =>
          canon \in Document /\ canon = last
    BY <1>1 DEF Fits, Special, FilesInv, CanonInv, TypeInv, TypeOK, IsDocument
  <1>4. ASSUME Section(w) = "mutate" PROVE txn[w] \in Txns
    <2>1. plan[w] \in Seq(Sections) /\ plan[w] # <<>>
      BY <1>1 DEF TypeInv, TypeOK, WorkerOK, Drafting
    <2>2. 1 \in 1..Len(plan[w]) /\ plan[w][1] = "mutate"
      BY <1>4, <2>1 DEF Section
    <2>. QED
      BY <1>1, <2>2 DEF TypeInv, WorkerOK, Drafting
  <1>5. Section(w) = "mutate" =>
          last # None /\ last'.applied = last.applied \cup {txn[w]}
    BY <1>1, <1>3, <1>4, Markers, WrittenApplied DEF Fits
  <1>6. Section(w) \in {"ids", "audit", "access"} =>
          last # None /\ last'.applied = last.applied
    BY <1>1, <1>3, Markers, WrittenApplied DEF Fits
  <1>7. Section(w) = "initialize" =>
          last = None /\ last'.applied = {} /\ prior' = None
    <2>1. ASSUME Section(w) = "initialize"
          PROVE  last = None /\ last'.applied = {} /\ canon = Missing
      BY <1>1, <2>1 DEF Fits, FilesInv, CanonInv, EmptyDocument
    <2>2. ASSUME Section(w) = "initialize" PROVE prior' = None
      BY <2>1, <2>2, ReplaceFacts, Documents
    <2>. QED
      BY <2>1, <2>2
  <1>8. Section(w) = "recover" =>
          /\ prior' # None /\ prior' \in {last, prior}
          /\ last'.applied = prior'.applied
    BY <1>1, ReplaceFacts, Markers, WrittenApplied
  <1>9. Section(w) # "recover" => prior' \in {last, None}
    BY ReplaceFacts
  <1>. QED
    BY <1>1, <1>2, <1>4, <1>5, <1>6, <1>7, <1>8, <1>9, Markers

LEMMA LastSection ==
  ASSUME StoreInv, NEW w \in Workers, pc[w] # "idle"
  PROVE  /\ Len(plan[w]) > 1 => Section(w) \in Middle
         /\ ~(Len(plan[w]) > 1) /\ txn[w] # NoTxn => Section(w) = "mutate"
         /\ plan[w] # <<>>
  <1>1. plan[w] \in Seq(Sections) /\ PlanOK(w)
    BY DEF StoreInv, Plans, TypeInv, TypeOK
  <1>. QED
    BY <1>1, OrderedHead DEF PlanOK, Section, InOrder

(* Only a rename changes the history.                                      *)
LEMMA KeptHistory ==
  ASSUME NEW w \in Workers, StepOf(w), ~Replace(w)
  PROVE  UNCHANGED <<last, prior>>
  BY DEF StepOf, Starts, Ends, Turns, Checks, Moves, Drafts, Saves, BeginBackup,
         FinishBackup, Prune, FilesKept, history

LEMMA KeptTxn ==
  ASSUME StoreInv, TxnInv, NEW w \in Workers, StepOf(w), ~Replace(w)
  PROVE  TxnInv'
  <1> USE DEF StoreInv
  <1>0. UNCHANGED <<last, prior>>
    BY KeptHistory
  <1>1. \A t : Absent(t)' = Absent(t) /\ Contains(last, t)' = Contains(last, t)
    BY <1>0 DEF Absent, Contains
  <1>2. OneApart'
    BY <1>0 DEF TxnInv, OneApart
  <1>3. outcome \in [Txns -> Outcomes] /\ txn \in [Workers -> Txns \cup {NoTxn}]
    BY DEF TypeInv, TypeOK
  <1>4. ASSUME NEW v \in Workers, v # w, txn[v] # NoTxn
        PROVE  /\ outcome'[txn[v]] = "running" /\ txn'[w] # txn[v]
               /\ txn'[v] = txn[v]
    <2>1. outcome[txn[v]] = "running" /\ txn[w] # txn[v] /\ txn[v] \in Txns
      BY <1>3, <1>4 DEF TxnInv, TxnOK
    <2>2. txn'[v] = txn[v]
      BY <1>4 DEF StepOf, Only
    <2>3. CASE \E request \in Requests, t \in Txns \cup {NoTxn} : Starts(w, request, t)
      BY <1>3, <1>4, <2>1, <2>2, <2>3 DEF Starts
    <2>4. CASE Ends(w)
      BY <1>3, <1>4, <2>1, <2>2, <2>4 DEF Ends
    <2>5. CASE txn'[w] = txn[w] /\ UNCHANGED outcome
      BY <2>1, <2>2, <2>5
    <2>. QED
      BY <2>3, <2>4, <2>5
      DEF StepOf, Turns, Checks, Moves, Drafts, Saves, BeginBackup,
          FinishBackup, Prune, Replace, control
  <1>5. ASSUME NEW v \in Workers, v # w PROVE TxnOK(v)'
    <2>1. /\ pc'[v] = pc[v] /\ plan'[v] = plan[v]
          /\ txn'[v] = txn[v] /\ draft'[v] = draft[v]
      BY <1>5 DEF StepOf, Only
    <2>2. TxnOK(v) /\ Section(v)' = Section(v)
      BY <2>1 DEF TxnInv, Section
    <2>3. ASSUME txn[v] # NoTxn
          PROVE  /\ outcome'[txn[v]] = "running"
                 /\ \A u \in Workers : u # v => txn'[u] # txn[v]
      <3>1. ASSUME NEW u \in Workers, u # v, u # w PROVE txn'[u] # txn[v]
        BY <2>2, <2>3, <3>1 DEF StepOf, Only, TxnOK
      <3>. QED
        BY <1>4, <1>5, <2>3, <3>1
    <2>. QED
      BY <1>1, <2>1, <2>2, <2>3 DEF TxnOK
  <1>6. TxnOK(w) /\ PlanOK(w) /\ plan[w] \in Seq(Sections)
    BY DEF TxnInv, Plans, TypeInv, TypeOK
  <1>7. TxnOK(w)'
    <2>1. ASSUME NEW request \in Requests, NEW t \in Txns \cup {NoTxn},
                 Starts(w, request, t)
          PROVE  TxnOK(w)'
      <3>1. txn'[w] = t /\ pc'[w] = "waiting"
        BY <2>1 DEF Starts
      <3>2. ASSUME t # NoTxn
            PROVE  outcome'[t] = "running" /\ outcome[t] = "unused" /\ t \in Txns
        BY <1>3, <2>1, <3>2 DEF Starts
      <3>3. t # NoTxn => Absent(t)
        BY <3>2 DEF TxnInv
      <3>4. ASSUME t # NoTxn, NEW v \in Workers, v # w PROVE txn'[v] # t
        <4>1. txn'[v] = txn[v]
          BY <3>4 DEF StepOf, Only
        <4>2. txn[v] # NoTxn => outcome[txn[v]] = "running"
          BY DEF TxnInv, TxnOK
        <4>. QED
          BY <3>2, <3>4, <4>1, <4>2
      <3>. QED
        BY <1>1, <3>1, <3>2, <3>3, <3>4 DEF TxnOK, After
    <2>2. CASE Ends(w)
      BY <2>2 DEF Ends, TxnOK
    <2>3. ASSUME txn'[w] = txn[w], UNCHANGED outcome,
                 (Section(w)' = "mutate" /\ pc'[w] \in After)
                   \/ (txn[w] # NoTxn => Absent(txn[w])),
                 Section(w)' = "mutate" /\ pc'[w] \in {"replaced", "unlocking"}
                   /\ draft'[w] # None => Contains(last, txn[w])
          PROVE  TxnOK(w)'
      <3>1. ASSUME txn[w] # NoTxn
            PROVE  /\ outcome[txn[w]] = "running"
                   /\ \A v \in Workers : v # w => txn'[v] # txn[w]
        BY <1>6, <3>1 DEF TxnOK, StepOf, Only
      <3>. QED
        BY <1>1, <2>3, <3>1 DEF TxnOK
    <2>4. CASE Turns(w)
      <3>1. Section(w) \in Middle /\ "mutate" \notin Middle
        BY <2>4, LastSection DEF Turns, Middle, Upgrades
      <3>2. txn[w] # NoTxn => Absent(txn[w])
        BY <1>6, <3>1 DEF TxnOK
      <3>. QED
        BY <2>3, <2>4, <3>2 DEF Turns
    <2>5. CASE Checks(w)
      <3>1. txn[w] # NoTxn => Absent(txn[w])
        BY <1>6, <2>5 DEF TxnOK, Checks
      <3>2. draft'[w] = None
        BY <1>6, <2>5 DEF PlanOK, Checks
      <3>. QED
        BY <2>3, <2>5, <3>1, <3>2 DEF Checks
    <2>6. CASE Moves(w)
      <3>1. Section(w)' = Section(w) /\ txn'[w] = txn[w] /\ draft'[w] = draft[w]
        BY <2>6 DEF Moves, Section
      <3>2. (Section(w)' = "mutate" /\ pc'[w] \in After)
              \/ (txn[w] # NoTxn => Absent(txn[w]))
        BY <1>6, <2>6, <3>1 DEF TxnOK, Moves, After
      <3>3. Section(w)' = "mutate" /\ pc'[w] \in {"replaced", "unlocking"}
              /\ draft'[w] # None => Contains(last, txn[w])
        BY <1>6, <2>6, <3>1 DEF TxnOK, PlanOK, Moves
      <3>. QED
        BY <2>3, <2>6, <3>2, <3>3 DEF Moves
    <2>7. CASE Drafts(w)
      <3>1. txn[w] # NoTxn => Absent(txn[w])
        BY <1>6, <2>7 DEF TxnOK, Drafts, After
      <3>. QED
        BY <2>3, <2>7, <3>1 DEF Drafts
    <2>8. CASE Saves(w)
      <3>1. /\ pc[w] \in Drafting /\ pc'[w] \in Drafting
            /\ UNCHANGED <<plan, txn, draft, outcome>>
        BY <2>8 DEF Saves, BeginBackup, FinishBackup, Prune, Goto, control,
                    Drafting, TypeInv, TypeOK
      <3>2. txn[w] # NoTxn => Absent(txn[w])
        BY <1>6, <3>1 DEF TxnOK, Drafting, After
      <3>. QED
        BY <2>3, <3>1, <3>2 DEF Section, Drafting
    <2>. QED
      BY <2>1, <2>2, <2>4, <2>5, <2>6, <2>7, <2>8 DEF StepOf
  <1>8. ASSUME NEW t \in Txns, outcome'[t] = "unused" PROVE Absent(t)'
    <2>1. outcome[t] = "unused"
      BY <1>3, <1>8
      DEF StepOf, Starts, Ends, Turns, Checks, Moves, Drafts, Saves, BeginBackup,
          FinishBackup, Prune, Replace, control
    <2>. QED
      BY <1>1, <2>1 DEF TxnInv
  <1>. QED
    BY <1>2, <1>5, <1>7, <1>8 DEF TxnInv

LEMMA ReplaceTxn ==
  ASSUME StoreInv, TxnInv, NEW w \in Workers, StepOf(w), Replace(w)
  PROVE  TxnInv'
  <1>1. /\ pc[w] \in {"staged", "pruning"} /\ pc'[w] = "replaced"
        /\ UNCHANGED <<plan, txn, draft, outcome>>
    BY ReplaceFacts DEF StoreInv
  <1>2. \A t : Absent(t) /\ ~(Section(w) = "mutate" /\ t = txn[w]) => Absent(t)'
    BY ReplaceApplied DEF Absent, Contains, Special
  <1>3. TxnOK(w)'
    <2>1. TxnOK(w) /\ Section(w)' = Section(w)
      BY <1>1 DEF TxnInv, Section
    <2>2. ASSUME txn[w] # NoTxn, Section(w) # "mutate" PROVE Absent(txn[w])'
      <3>1. Absent(txn[w])
        BY <2>1, <2>2 DEF TxnOK
      <3>. QED
        BY <1>1, <1>2, <2>2, <3>1 DEF Absent, Contains
    <2>3. Section(w) = "mutate" => Contains(last, txn[w])'
      BY <1>1, ReplaceApplied DEF Contains
    <2>. QED
      BY <1>1, <2>1, <2>2, <2>3 DEF TxnOK, After
  <1>4. ASSUME NEW v \in Workers, v # w PROVE TxnOK(v)'
    <2>1. TxnOK(v) /\ Section(v)' = Section(v)
      BY <1>1 DEF TxnInv, Section
    <2>2. pc'[v] \in {"idle", "waiting"} /\ pc'[v] = pc[v]
      BY <1>4, SavesAlone DEF StoreInv, Saves, StepOf, Only
    <2>3. ASSUME txn[v] # NoTxn PROVE Absent(txn[v])'
      <3>1. Absent(txn[v]) /\ txn[v] # txn[w]
        BY <1>4, <2>1, <2>2, <2>3 DEF TxnOK, After
      <3>. QED
        BY <1>1, <1>2, <3>1 DEF Absent, Contains
    <2>. QED
      BY <1>1, <2>1, <2>2, <2>3 DEF TxnOK
  <1>5. ASSUME NEW t \in Txns, outcome'[t] = "unused" PROVE Absent(t)'
    <2>1. outcome[t] = "unused" /\ Absent(t)
      BY <1>1, <1>5 DEF TxnInv
    <2>2. ~(Section(w) = "mutate" /\ t = txn[w])
      <3>1. Section(w) = "mutate" => txn[w] # NoTxn
        BY ReplaceApplied, Markers
      <3>. QED
        BY <2>1, <3>1 DEF TxnInv, TxnOK
    <2>. QED
      BY <1>2, <2>1, <2>2
  <1>6. OneApart'
    <2>1. CASE Section(w) = "mutate"
      BY <2>1, ReplaceApplied DEF OneApart
    <2>2. CASE Section(w) \in {"ids", "audit", "access"}
      BY <2>2, ReplaceApplied DEF OneApart
    <2>3. CASE Section(w) \in Special
      BY <2>3, ReplaceApplied DEF OneApart, Special
    <2>. QED
      BY <2>1, <2>2, <2>3, ReplaceApplied
  <1>. QED
    BY <1>3, <1>4, <1>5, <1>6 DEF TxnInv

LEMMA InitTxn == Init => TxnInv
  <1> SUFFICES ASSUME Init PROVE TxnInv
    OBVIOUS
  <1>1. last # None => last \in InitialFiles \ {Missing}
    BY DEF Init
  <1>2. \A t : Absent(t)
    BY <1>1, StoreAssumption DEF StoreAssumption, Absent, Contains, Init
  <1>. QED
    BY <1>2 DEF Init, TxnInv, TxnOK, OneApart

LEMMA NextTxn == StoreInv /\ TxnInv /\ [Next]_vars => TxnInv'
  <1> SUFFICES ASSUME StoreInv, TxnInv, [Next]_vars PROVE TxnInv'
    OBVIOUS
  <1>1. ASSUME NEW w \in Workers, StepOf(w) PROVE TxnInv'
    BY <1>1, KeptTxn, ReplaceTxn
  <1>2. CASE Damage \/ UNCHANGED vars
    <2>1. UNCHANGED <<pc, plan, txn, draft, outcome, last, prior>>
      BY <1>2 DEF Damage, vars, control, history
    <2>. QED
      BY <2>1 DEF TxnInv, TxnOK, OneApart, Absent, Contains, Section
  <1>. QED
    BY <1>1, <1>2, Steps DEF StoreInv

-----------------------------------------------------------------------------
(* What a recovery can undo.                                               *)

(* The answered mutations the newest document lacks, and the recoveries    *)
(* that may still undo one.                                                *)
Lost == {t \in Txns : outcome[t] = "done" /\ ~Contains(last, t)}
Pending ==
  {w \in Workers : pc[w] \notin After \cup {"idle"} /\ Section(w) = "recover"}

(* Each recovery asked for has either lost its one mutation or may lose it *)
(* yet.                                                                    *)
LostInv ==
  /\ IsFiniteSet(Lost) /\ IsFiniteSet(Pending)
  /\ Cardinality(Lost) + Cardinality(Pending) <= incidents["recovery"]

LEMMA SmallerCount ==
  ASSUME NEW S, NEW T, IsFiniteSet(S), T \subseteq S
  PROVE  /\ IsFiniteSet(T) /\ Cardinality(T) <= Cardinality(S)
         /\ Cardinality(T) \in Nat /\ Cardinality(S) \in Nat
  BY FS_Subset, FS_CardinalityType

LEMMA OneMore ==
  ASSUME NEW S, NEW T, NEW x, IsFiniteSet(S), T \subseteq S \cup {x}
  PROVE  /\ IsFiniteSet(T) /\ Cardinality(T) <= Cardinality(S) + 1
         /\ Cardinality(T) \in Nat /\ Cardinality(S) \in Nat
  <1>1. /\ IsFiniteSet(S \cup {x}) /\ Cardinality(S) \in Nat
        /\ Cardinality(S \cup {x}) <= Cardinality(S) + 1
    <2>1. Cardinality(S) \in Nat
      BY FS_CardinalityType
    <2>2. IsFiniteSet(S \cup {x})
          /\ Cardinality(S \cup {x}) =
               IF x \in S THEN Cardinality(S) ELSE Cardinality(S) + 1
      BY FS_AddElement
    <2>. QED
      BY <2>1, <2>2
  <1>2. IsFiniteSet(T) /\ Cardinality(T) <= Cardinality(S \cup {x})
        /\ Cardinality(T) \in Nat /\ Cardinality(S \cup {x}) \in Nat
    BY <1>1, SmallerCount
  <1>. QED
    BY <1>1, <1>2

LEMMA OneLess ==
  ASSUME NEW S, NEW T, NEW x \in S, IsFiniteSet(S), T \subseteq S \ {x}
  PROVE  /\ IsFiniteSet(T) /\ Cardinality(T) + 1 <= Cardinality(S)
         /\ Cardinality(T) \in Nat /\ Cardinality(S) \in Nat
  <1>1. /\ IsFiniteSet(S \ {x}) /\ Cardinality(S) \in Nat
        /\ Cardinality(S \ {x}) = Cardinality(S) - 1
    BY FS_RemoveElement, FS_CardinalityType
  <1>2. IsFiniteSet(T) /\ Cardinality(T) <= Cardinality(S \ {x})
        /\ Cardinality(T) \in Nat
    BY <1>1, SmallerCount
  <1>. QED
    BY <1>1, <1>2

(* Nothing new is lost, and no new recovery is pending.                    *)
LEMMA FewerLost ==
  ASSUME TypeInv, LostInv, TypeInv', Lost' \subseteq Lost,
         Pending' \subseteq Pending,
         incidents'["recovery"] >= incidents["recovery"]
  PROVE  LostInv'
  <1>1. /\ IsFiniteSet(Lost') /\ Cardinality(Lost') <= Cardinality(Lost)
        /\ Cardinality(Lost') \in Nat /\ Cardinality(Lost) \in Nat
    BY SmallerCount DEF LostInv
  <1>2. /\ IsFiniteSet(Pending') /\ Cardinality(Pending') <= Cardinality(Pending)
        /\ Cardinality(Pending') \in Nat /\ Cardinality(Pending) \in Nat
    BY SmallerCount DEF LostInv
  <1>3. incidents["recovery"] \in Nat /\ incidents'["recovery"] \in Nat
    BY DEF TypeInv, TypeOK, Incidents
  <1>4. Cardinality(Lost') + Cardinality(Pending') <= incidents'["recovery"]
    BY <1>1, <1>2, <1>3 DEF LostInv
  <1>. QED
    BY <1>1, <1>2, <1>4 DEF LostInv

LEMMA TurnsOn ==
  ASSUME StoreInv, NEW w \in Workers, Turns(w)
  PROVE  Section(w)' # "recover"
  <1>1. /\ InOrder(plan[w]) /\ plan[w] \in Seq(Sections) /\ Len(plan[w]) > 1
        /\ plan'[w] = Tail(plan[w])
    BY DEF StoreInv, Plans, PlanOK, Turns, TypeInv, TypeOK
  <1>2. InOrder(plan'[w]) /\ plan'[w][Len(plan'[w])] = plan[w][Len(plan[w])]
    BY <1>1, OrderedTail
  <1>3. plan'[w] \in Seq(Sections)
    BY <1>1, HeadTailProperties DEF InOrder
  <1>4. plan'[w][Len(plan'[w])] # "recover"
    BY <1>1, <1>2 DEF InOrder, Special
  <1>. QED
    BY <1>2, <1>3, <1>4, OrderedHead DEF Section, Middle, Upgrades

(* Only a start makes a recovery pending.                                  *)
LEMMA NoNewPending ==
  ASSUME StoreInv, NEW w \in Workers, StepOf(w),
         ~(\E t \in Txns \cup {NoTxn} : Starts(w, "recover", t))
  PROVE  Pending' \subseteq Pending
  <1> SUFFICES ASSUME NEW v \in Workers, pc'[v] \notin After \cup {"idle"},
                      Section(v)' = "recover"
               PROVE  pc[v] \notin After \cup {"idle"} /\ Section(v) = "recover"
    BY DEF Pending
  <1>1. CASE v # w
    BY <1>1 DEF StepOf, Only, Section
  <1>2. CASE v = w
    <2>1. CASE \E request \in Requests, t \in Txns \cup {NoTxn} : Starts(w, request, t)
      <3>1. PICK request \in Requests, t \in Txns \cup {NoTxn} : Starts(w, request, t)
        BY <2>1
      <3>2. Head(<<request>>) = request /\ Head(<<"ensure", request>>) = "ensure"
        OBVIOUS
      <3>. QED
        BY <1>2, <3>1, <3>2 DEF Starts, Section
    <2>2. CASE Ends(w)
      BY <1>2, <2>2 DEF Ends
    <2>3. CASE Turns(w)
      BY <1>2, <2>3, TurnsOn
    <2>4. CASE Checks(w)
      BY <1>2, <2>4 DEF Checks, After
    <2>5. CASE Moves(w) \/ Drafts(w)
      BY <1>2, <2>5 DEF Moves, Drafts, After, Section
    <2>6. CASE Saves(w)
      BY <1>2, <2>6
      DEF Saves, BeginBackup, FinishBackup, Prune, Replace, ReadyToReplace, Goto,
          control, After, Section, StoreInv, TypeInv, TypeOK
    <2>. QED
      BY <2>1, <2>2, <2>3, <2>4, <2>5, <2>6 DEF StepOf
  <1>. QED
    BY <1>1, <1>2

(* Nothing is lost without a rename: a mutation answered as done is in the *)
(* newest document when its lock is released.                              *)
LEMMA KeptLost ==
  ASSUME StoreInv, TxnInv, NEW w \in Workers, StepOf(w), ~Replace(w)
  PROVE  Lost' \subseteq Lost
  <1>1. \A t : Contains(last, t)' = Contains(last, t)
    BY KeptHistory DEF Contains
  <1>2. ASSUME NEW t \in Txns, outcome'[t] = "done", ~Contains(last, t)
        PROVE  outcome[t] = "done"
    <2>1. outcome \in [Txns -> Outcomes]
      BY DEF StoreInv, TypeInv, TypeOK
    <2>2. CASE Ends(w)
      <3>1. PICK result \in Outcomes \ {"unused", "running"} :
               /\ outcome' = IF txn[w] = NoTxn THEN outcome
                             ELSE [outcome EXCEPT ![txn[w]] = result]
               /\ result = "done" => /\ pc[w] = "unlocking" /\ draft[w] # None
                                     /\ ~(Len(plan[w]) > 1)
        BY <2>2 DEF Ends
      <3>2. CASE t = txn[w] /\ txn[w] # NoTxn
        <4>1. result = "done"
          BY <1>2, <2>1, <3>1, <3>2
        <4>2. Section(w) = "mutate"
          BY <3>1, <3>2, <4>1, LastSection
        <4>3. Contains(last, txn[w])
          BY <3>1, <4>1, <4>2 DEF TxnInv, TxnOK
        <4>. QED
          BY <1>2, <3>2, <4>3
      <3>3. CASE ~(t = txn[w] /\ txn[w] # NoTxn)
        BY <1>2, <2>1, <3>1, <3>3
      <3>. QED
        BY <3>2, <3>3
    <2>3. CASE \E request \in Requests, u \in Txns \cup {NoTxn} : Starts(w, request, u)
      BY <1>2, <2>1, <2>3 DEF Starts
    <2>4. CASE UNCHANGED outcome
      BY <1>2, <2>4
    <2>. QED
      BY <2>2, <2>3, <2>4
      DEF StepOf, Turns, Checks, Moves, Drafts, Saves, BeginBackup, FinishBackup,
          Prune, control
  <1>. QED
    BY <1>1, <1>2 DEF Lost

LEMMA ReplaceLost ==
  ASSUME StoreInv, TxnInv, LostInv, NEW w \in Workers, StepOf(w), Replace(w),
         TypeInv'
  PROVE  LostInv'
  <1>1. /\ pc[w] \in {"staged", "pruning"} /\ pc'[w] = "replaced"
        /\ UNCHANGED <<plan, outcome, incidents>>
    BY ReplaceFacts DEF StoreInv
  <1>2. Pending' \subseteq Pending
    BY <1>1, NoNewPending DEF StepOf, Starts
  <1>3. CASE Section(w) # "recover"
    <2>1. \A t : Contains(last, t) => Contains(last, t)'
      BY <1>3, ReplaceApplied DEF Contains, Special
    <2>2. Lost' \subseteq Lost
      BY <1>1, <2>1 DEF Lost
    <2>. QED
      BY <1>1, <1>2, <2>2, FewerLost DEF StoreInv, TypeInv, TypeOK, Incidents
  <1>4. CASE Section(w) = "recover"
    <2>1. PICK t \in Txns \cup {NoTxn} :
             \A u : Contains(last, u) => Contains(last, u)' \/ u = t
      <3>1. /\ last' # None /\ prior' \in {last, prior} /\ prior' # None
            /\ last'.applied = prior'.applied
        BY <1>4, ReplaceApplied
      <3>2. CASE prior' = last
        BY <3>1, <3>2 DEF Contains
      <3>3. CASE prior' = prior
        BY <3>1, <3>3 DEF Contains, TxnInv, OneApart
      <3>. QED
        BY <3>1, <3>2, <3>3
    <2>2. Lost' \subseteq Lost \cup {t}
      BY <1>1, <2>1 DEF Lost
    <2>3. w \in Pending /\ Pending' \subseteq Pending \ {w}
      BY <1>1, <1>2, <1>4 DEF Pending, After
    <2>4. /\ IsFiniteSet(Lost') /\ Cardinality(Lost') <= Cardinality(Lost) + 1
          /\ Cardinality(Lost') \in Nat /\ Cardinality(Lost) \in Nat
      BY <2>2, OneMore DEF LostInv
    <2>5. /\ IsFiniteSet(Pending')
          /\ Cardinality(Pending') + 1 <= Cardinality(Pending)
          /\ Cardinality(Pending') \in Nat /\ Cardinality(Pending) \in Nat
      BY <2>3, OneLess DEF LostInv
    <2>6. incidents["recovery"] \in Nat
      BY DEF StoreInv, TypeInv, TypeOK, Incidents
    <2>7. Cardinality(Lost') + Cardinality(Pending') <= incidents["recovery"]
      BY <2>4, <2>5, <2>6 DEF LostInv
    <2>. QED
      BY <1>1, <2>4, <2>5, <2>7 DEF LostInv
  <1>. QED
    BY <1>3, <1>4

LEMMA StartLost ==
  ASSUME StoreInv, LostInv, NEW w \in Workers, StepOf(w),
         NEW t \in Txns \cup {NoTxn}, Starts(w, "recover", t)
  PROVE  LostInv'
  <1>1. /\ UNCHANGED <<outcome, last>>
        /\ incidents' = [incidents EXCEPT !["recovery"] = @ + 1]
    BY DEF Starts, FilesKept
  <1>2. Lost' = Lost
    BY <1>1 DEF Lost, Contains
  <1>3. Pending' \subseteq Pending \cup {w}
    BY DEF StepOf, Only, Pending, Section
  <1>4. /\ IsFiniteSet(Pending')
        /\ Cardinality(Pending') <= Cardinality(Pending) + 1
        /\ Cardinality(Pending') \in Nat /\ Cardinality(Pending) \in Nat
    BY <1>3, OneMore DEF LostInv
  <1>5. Cardinality(Lost) \in Nat
    BY FS_CardinalityType DEF LostInv
  <1>6. /\ incidents["recovery"] \in Nat
        /\ incidents'["recovery"] = incidents["recovery"] + 1
    BY <1>1 DEF StoreInv, TypeInv, TypeOK, Incidents
  <1>7. Cardinality(Lost) + Cardinality(Pending') <= incidents'["recovery"]
    BY <1>4, <1>5, <1>6 DEF LostInv
  <1>. QED
    BY <1>2, <1>4, <1>7 DEF LostInv

LEMMA NextLost == StoreInv /\ TxnInv /\ LostInv /\ [Next]_vars => LostInv'
  <1> SUFFICES ASSUME StoreInv, TxnInv, LostInv, [Next]_vars PROVE LostInv'
    OBVIOUS
  <1>1. TypeInv /\ TypeInv'
    BY NextType DEF StoreInv
  <1>2. ASSUME NEW w \in Workers, StepOf(w) PROVE LostInv'
    <2>1. CASE Replace(w)
      BY <1>1, <1>2, <2>1, ReplaceLost
    <2>2. CASE \E t \in Txns \cup {NoTxn} : Starts(w, "recover", t)
      BY <1>2, <2>2, StartLost
    <2>3. CASE /\ ~Replace(w)
               /\ ~(\E t \in Txns \cup {NoTxn} : Starts(w, "recover", t))
      <3>1. Lost' \subseteq Lost
        BY <1>2, <2>3, KeptLost
      <3>2. Pending' \subseteq Pending
        BY <1>2, <2>3, NoNewPending
      <3>3. incidents'["recovery"] >= incidents["recovery"]
        BY <1>1, <1>2, RecoveryGrows
      <3>. QED
        BY <1>1, <3>1, <3>2, <3>3, FewerLost
    <2>. QED
      BY <2>1, <2>2, <2>3
  <1>3. CASE Damage \/ UNCHANGED vars
    <2>1. UNCHANGED <<pc, plan, outcome, last>>
          /\ incidents'["recovery"] = incidents["recovery"]
      BY <1>1, <1>3
      DEF Damage, Happens, vars, control, history, TypeInv, TypeOK, Incidents
    <2>2. Lost' = Lost /\ Pending' = Pending
      BY <2>1 DEF Lost, Pending, Contains, Section
    <2>. QED
      BY <2>1, <2>2 DEF LostInv
  <1>. QED
    BY <1>1, <1>2, <1>3, Steps

LEMMA InitLost == Init => LostInv
  <1> SUFFICES ASSUME Init PROVE LostInv
    OBVIOUS
  <1>1. Lost = {} /\ Pending = {} /\ incidents["recovery"] = 0
    BY DEF Init, Lost, Pending, Incidents
  <1>. QED
    BY <1>1, FS_EmptySet DEF LostInv

LEMMA HistoryAlways == Spec => [](StoreInv /\ TxnInv)
  <1>1. Init => TxnInv
    BY InitTxn
  <1>2. StoreInv /\ TxnInv /\ [Next]_vars => TxnInv'
    BY NextTxn
  <1>. QED
    BY <1>1, <1>2, StoreAlways, PTL DEF Spec

(* A mutation its caller was told had succeeded stays in the document,     *)
(* through any interleaving of requests, crashes, faults and damage: only  *)
(* recoveries undo one, and each recovery at most one.                     *)
THEOREM DoneIsAlwaysDurable == Spec => []DoneIsDurable
  <1>1. Init => LostInv
    BY InitLost
  <1>2. StoreInv /\ TxnInv /\ LostInv /\ [Next]_vars => LostInv'
    BY NextLost
  <1>3. TypeInv /\ LostInv => DoneIsDurable
    <2> SUFFICES ASSUME TypeInv, LostInv PROVE DoneIsDurable
      OBVIOUS
    <2>1. Cardinality(Lost) \in Nat /\ Cardinality(Pending) \in Nat
          /\ incidents["recovery"] \in Nat
      BY FS_CardinalityType DEF LostInv, TypeInv, TypeOK, Incidents
    <2>2. Cardinality(Lost) <= incidents["recovery"]
      BY <2>1 DEF LostInv
    <2>. QED
      BY <2>2 DEF DoneIsDurable, Lost, Contains
  <1>4. StoreInv => TypeInv
    BY DEF StoreInv
  <1>. QED
    BY <1>1, <1>2, <1>3, <1>4, HistoryAlways, PTL DEF Spec

-----------------------------------------------------------------------------
(* The audit window.                                                       *)

(* A document's window, event by event.                                    *)
Aligned(doc) ==
  /\ doc.discarded + Len(doc.events) = Len(doc.log)
  /\ \A i \in 1..Len(doc.events) : doc.events[i] = doc.log[doc.discarded + i]

LEMMA WindowIsAligned ==
  ASSUME NEW doc \in Document
  PROVE  WindowOf(doc) <=> Aligned(doc)
  <1> DEFINE e == doc.events
             l == doc.log
             d == doc.discarded
             n == Len(l)
             s == SubSeq(l, d + 1, n)
  <1>1. e \in Seq(Event) /\ l \in Seq(Event) /\ d \in Nat
    BY DEF Document
  <1>2. n \in Nat /\ Len(e) \in Nat
    BY <1>1
  <1> SUFFICES ASSUME d + Len(e) = n
               PROVE  e = s <=> \A i \in 1..Len(e) : e[i] = l[d + i]
    BY DEF WindowOf, Aligned
  <1>3. s \in Seq(Event) /\ Len(s) = Len(e)
        /\ \A i \in 1..Len(e) : s[i] = l[d + i]
    <2>1. Len(s) = IF d + 1 <= n THEN n - (d + 1) + 1 ELSE 0
      BY <1>1, <1>2
    <2>2. Len(s) = Len(e)
      BY <1>1, <1>2, <2>1
    <2>3. s \in Seq(Event)
      BY <1>1, <1>2
    <2>4. ASSUME NEW i \in 1..Len(e) PROVE s[i] = l[d + i]
      <3> DEFINE m == d + 1
      <3>1. /\ m \in Int /\ n \in Int
            /\ \A j \in m..n : l[j] \in Event
        BY <1>1, <1>2
      <3> HIDE DEF m, n, l
      <3>2. /\ SubSeq(l, m, n) \in Seq(Event)
            /\ Len(SubSeq(l, m, n)) = IF m <= n THEN n - m + 1 ELSE 0
            /\ \A j \in 1..n - m + 1 : SubSeq(l, m, n)[j] = l[m + j - 1]
        BY <3>1, SubSeqProperties
      <3> USE DEF m
      <3>3. i \in 1..(n - (d + 1) + 1) /\ (d + 1) + i - 1 = d + i
        BY <1>1, <1>2
      <3>. QED
        BY <3>2, <3>3
    <2>. QED
      BY <2>2, <2>3, <2>4
  <1> HIDE DEF e, l, d, n, s
  <1>4. ASSUME \A i \in 1..Len(e) : e[i] = l[d + i] PROVE e = s
    <2>1. \A i \in 1..Len(e) : e[i] = s[i]
      BY <1>3, <1>4
    <2>. QED
      BY <1>1, <1>3, <2>1, SeqEqual
  <1>. QED
    BY <1>3, <1>4

(* An element of the end of a sequence.                                    *)
LEMMA TailElement ==
  ASSUME NEW S, NEW s \in Seq(S), NEW first \in Nat \ {0}, NEW i \in Nat \ {0},
         first + i - 1 <= Len(s)
  PROVE  SubSeq(s, first, Len(s))[i] = s[first + i - 1]
  OBVIOUS

(* Retention keeps the window and enforces the limit.                      *)
LEMMA RetainAligned ==
  ASSUME NEW doc \in Document, Aligned(doc)
  PROVE  Aligned(Retain(doc)) /\ Len(Retain(doc).events) <= AuditLimit
  <1> DEFINE e == doc.events
             over == Len(e) - AuditLimit
             kept == SubSeq(e, over + 1, Len(e))
             count == doc.discarded + over
  <1>1. /\ e \in Seq(Event) /\ doc.log \in Seq(Event) /\ doc.discarded \in Nat
        /\ Len(e) \in Nat /\ Len(doc.log) \in Nat
        /\ AuditLimit \in Nat /\ AuditLimit > 0
    BY StoreAssumption DEF StoreAssumption, Document
  <1>2. CASE over <= 0
    BY <1>1, <1>2 DEF Retain
  <1>3. CASE ~(over <= 0)
    <2>1. over \in Nat /\ over > 0 /\ over + AuditLimit = Len(e)
      BY <1>1, <1>3
    <2>2. kept \in Seq(Event) /\ Len(kept) = AuditLimit
      BY <1>1, <2>1
    <2>3. ASSUME NEW i \in 1..AuditLimit PROVE kept[i] = e[over + i]
      <3>1. over + 1 + i - 1 = over + i
        BY <2>1
      <3>2. /\ over + 1 \in Nat \ {0} /\ i \in Nat \ {0}
            /\ (over + 1) + i - 1 <= Len(e)
        BY <1>1, <2>1
      <3> HIDE DEF e, over
      <3>3. kept[i] = e[(over + 1) + i - 1]
        BY <1>1, <3>2, TailElement
      <3>. QED
        BY <3>1, <3>3
    <2>4. Retain(doc) = [doc EXCEPT !.events = kept, !.discarded = count]
      BY <1>3 DEF Retain
    <2>5. ASSUME NEW i \in 1..AuditLimit
          PROVE  e[over + i] = doc.log[doc.discarded + (over + i)]
      <3>1. over + i \in 1..Len(e)
        BY <1>1, <2>1
      <3>. QED
        BY <3>1 DEF Aligned
    <2>6. \A i \in 1..AuditLimit : doc.discarded + (over + i) = count + i
      BY <1>1, <2>1
    <2>7. count + AuditLimit = Len(doc.log) /\ count \in Nat
      <3> DEFINE n == Len(e)
                 l == Len(doc.log)
                 d == doc.discarded
      <3>1. /\ d \in Nat /\ n \in Nat /\ l \in Nat /\ d + n = l
            /\ over + AuditLimit = n
        BY <1>1, <2>1 DEF Aligned
      <3> HIDE DEF n, l, d, over
      <3>2. (d + over) + AuditLimit = l /\ d + over \in Nat
        BY <1>1, <2>1, <3>1
      <3>. QED
        BY <3>2 DEF n, l, d
    <2> HIDE DEF kept, count
    <2>8. /\ Retain(doc).events = kept /\ Retain(doc).discarded = count
          /\ Retain(doc).log = doc.log
      BY <2>4 DEF Document
    <2>9. \A i \in 1..AuditLimit : kept[i] = doc.log[count + i]
      BY <2>3, <2>5, <2>6
    <2>10. Aligned(Retain(doc))
      BY <2>2, <2>7, <2>8, <2>9, Zenon DEF Aligned
    <2>11. Len(Retain(doc).events) = AuditLimit
      BY <2>2, <2>8, Zenon
    <2>. QED
      BY <1>1, <2>10, <2>11
  <1>. QED
    BY <1>2, <1>3

(* Appending the same events to the window and to the log.                 *)
LEMMA AppendAligned ==
  ASSUME NEW doc \in Document, NEW new \in Document, NEW added \in Seq(Event),
         Aligned(doc), new.events = doc.events \o added,
         new.log = doc.log \o added, new.discarded = doc.discarded
  PROVE  Aligned(new)
  <1> DEFINE e == doc.events
             l == doc.log
             d == doc.discarded
  <1>1. /\ e \in Seq(Event) /\ l \in Seq(Event) /\ d \in Nat
        /\ Len(e) \in Nat /\ Len(l) \in Nat /\ Len(added) \in Nat
        /\ d + Len(e) = Len(l)
    BY DEF Document, Aligned
  <1>2. /\ Len(e \o added) = Len(e) + Len(added)
        /\ \A i \in 1..Len(e) + Len(added) : (e \o added)[i] =
              IF i <= Len(e) THEN e[i] ELSE added[i - Len(e)]
    BY <1>1, ConcatProperties
  <1>3. /\ Len(l \o added) = Len(l) + Len(added)
        /\ \A i \in 1..Len(l) + Len(added) : (l \o added)[i] =
              IF i <= Len(l) THEN l[i] ELSE added[i - Len(l)]
    BY <1>1, ConcatProperties
  <1>4. ASSUME NEW i \in 1..Len(e) + Len(added)
        PROVE  (e \o added)[i] = (l \o added)[d + i]
    <2>1. d + i \in 1..Len(l) + Len(added)
      <3> DEFINE many == Len(e)
                 all == Len(l)
                 more == Len(added)
      <3>1. /\ d \in Nat /\ many \in Nat /\ all \in Nat /\ more \in Nat
            /\ d + many = all /\ i \in 1..many + more
        BY <1>1
      <3> HIDE DEF d, many, all, more
      <3>2. d + i \in 1..all + more
        BY <3>1
      <3>. QED
        BY <3>2 DEF all, more
    <2>2. CASE i <= Len(e)
      <3>1. d + i <= Len(l) /\ e[i] = l[d + i]
        BY <1>1, <2>2 DEF Aligned
      <3> DEFINE both == e \o added
                 all == l \o added
                 k == d + i
      <3>2. both[i] = IF i <= Len(e) THEN e[i] ELSE added[i - Len(e)]
        BY <1>2, Zenon
      <3>3. all[k] = IF k <= Len(l) THEN l[k] ELSE added[k - Len(l)]
        BY <1>3, <2>1, Zenon
      <3> HIDE DEF both, all, k
      <3>4. both[i] = all[k]
        BY <2>2, <3>1, <3>2, <3>3, Zenon DEF k
      <3>. QED
        BY <3>4 DEF both, all, k
    <2>3. CASE ~(i <= Len(e))
      <3>1. ~(d + i <= Len(l)) /\ (d + i) - Len(l) = i - Len(e)
        BY <1>1, <2>3
      <3>. QED
        BY <1>2, <1>3, <2>1, <2>3, <3>1
    <2>. QED
      BY <2>2, <2>3
  <1>5. d + (Len(e) + Len(added)) = Len(l) + Len(added)
    <2> DEFINE n == Len(e)
               m == Len(l)
               k == Len(added)
    <2>1. d \in Nat /\ n \in Nat /\ m \in Nat /\ k \in Nat /\ d + n = m
      BY <1>1
    <2> HIDE DEF d, n, m, k
    <2>2. d + (n + k) = m + k
      BY <2>1
    <2>. QED
      BY <2>2 DEF n, m, k
  <1> HIDE DEF e, l, d
  <1>6. new.events = e \o added /\ new.log = l \o added /\ new.discarded = d
    BY DEF e, l, d
  <1>. QED
    BY <1>2, <1>3, <1>4, <1>5, <1>6 DEF Aligned

(* The documents that differ from doc in neither its events nor its log.   *)
LEMMA SameWindow ==
  ASSUME NEW doc \in Document, NEW new \in Document, Aligned(doc),
         new.events = doc.events, new.log = doc.log,
         new.discarded = doc.discarded
  PROVE  Aligned(new)
  BY DEF Aligned

LEMMA WrittenWindow ==
  ASSUME NEW doc \in Document, WindowOf(doc)
  PROVE  /\ WindowOf(WithoutOldIds(doc)) /\ WindowOf(Migrated(doc))
         /\ WindowOf(WithoutOldAudit(doc)) /\ WindowOf(Restored(doc))
         /\ \A t \in Txns : /\ WindowOf(Mutated(doc, t))
                            /\ Len(Mutated(doc, t).events) <= AuditLimit
  <1>1. Aligned(doc)
    BY WindowIsAligned
  <1>2. /\ WithoutOldIds(doc) \in Document /\ Migrated(doc) \in Document
        /\ WithoutOldAudit(doc) \in Document /\ Restored(doc) \in Document
        /\ \A t \in Txns : Mutated(doc, t) \in Document
    BY UpgradedDocument, AuditedDocument, RestoredDocument, MutatedDocument
  <1>3. /\ Aligned(WithoutOldIds(doc)) /\ Aligned(Migrated(doc))
        /\ Aligned(Restored(doc))
    <2>1. \A new \in {WithoutOldIds(doc), Migrated(doc), Restored(doc)} :
            /\ new.events = doc.events /\ new.log = doc.log
            /\ new.discarded = doc.discarded
      BY DEF WithoutOldIds, Migrated, Restored, Document
    <2>. QED
      BY <1>1, <1>2, <2>1, SameWindow
  <1>4. Aligned(WithoutOldAudit(doc))
    <2> DEFINE kept == Retain(doc)
    <2>1. kept \in Document /\ Aligned(kept)
      BY <1>1, RetainDocument, RetainAligned
    <2>2. WithoutOldAudit(doc) = [kept EXCEPT !.audit = FALSE, !.rev = @ + 1]
      BY DEF WithoutOldAudit
    <2> HIDE DEF kept
    <2>3. /\ WithoutOldAudit(doc).events = kept.events
          /\ WithoutOldAudit(doc).log = kept.log
          /\ WithoutOldAudit(doc).discarded = kept.discarded
      BY <2>1, <2>2 DEF Document
    <2>. QED
      BY <1>2, <2>1, <2>3, SameWindow
  <1>5. ASSUME NEW t \in Txns
        PROVE  Aligned(Mutated(doc, t)) /\ Len(Mutated(doc, t).events) <= AuditLimit
    <2> DEFINE added == [i \in 1..EventsOf[t] |-> t]
               changed == [doc EXCEPT !.applied = @ \cup {t},
                                      !.events = @ \o added, !.log = @ \o added]
               kept == Retain(changed)
    <2>1. added \in Seq(Event)
      BY StoreAssumption DEF StoreAssumption, Event
    <2>2. doc.events \o added \in Seq(Event) /\ doc.log \o added \in Seq(Event)
      BY <2>1 DEF Document
    <2>3. /\ changed \in Document /\ changed.events = doc.events \o added
          /\ changed.log = doc.log \o added /\ changed.discarded = doc.discarded
      BY <2>2 DEF Document
    <2>4. Mutated(doc, t) = [kept EXCEPT !.rev = @ + 1]
      BY DEF Mutated
    <2> HIDE DEF added, changed
    <2>5. Aligned(changed)
      BY <1>1, <2>1, <2>3, AppendAligned
    <2>6. kept \in Document /\ Aligned(kept) /\ Len(kept.events) <= AuditLimit
      BY <2>3, <2>5, RetainDocument, RetainAligned
    <2> HIDE DEF kept
    <2>7. /\ Mutated(doc, t).events = kept.events
          /\ Mutated(doc, t).log = kept.log
          /\ Mutated(doc, t).discarded = kept.discarded
      BY <2>4, <2>6 DEF Document
    <2>8. Aligned(Mutated(doc, t))
      BY <1>2, <2>6, <2>7, SameWindow
    <2>. QED
      BY <2>6, <2>7, <2>8
  <1>. QED
    BY <1>2, <1>3, <1>4, <1>5, WindowIsAligned

LEMMA EmptyWindow == WindowOf(EmptyDocument)
  <1>1. EmptyDocument \in Document
    BY EmptyIsDocument
  <1>2. Aligned(EmptyDocument)
    BY DEF Aligned, EmptyDocument
  <1>. QED
    BY <1>1, <1>2, WindowIsAligned

(* AuditWindow is inductive given what the sections write.                 *)
LEMMA ReplaceWindow ==
  ASSUME StoreInv, AuditWindow, NEW w \in Workers, Replace(w)
  PROVE  AuditWindow'
  <1>1. /\ Fits(w, draft[w]) /\ last' = draft[w] /\ backups' = backups
        /\ Section(w) \in {"mutate", "ids", "audit", "access"} \cup Special
    BY ReplaceFacts, ReplaceApplied DEF StoreInv
  <1>2. Section(w) \in {"mutate", "ids", "audit", "access"} =>
          canon \in Document /\ WindowOf(canon)
    BY <1>1, Markers DEF Fits, Special, AuditWindow, StoreInv, FilesInv, CanonInv,
                         TypeInv, TypeOK, IsDocument
  <1>3. Section(w) = "mutate" =>
          WindowOf(last') /\ Len(last'.events) <= AuditLimit
    <2>1. Section(w) = "mutate" => txn[w] \in Txns
      BY ReplaceApplied
    <2>. QED
      BY <1>1, <1>2, <2>1, WrittenWindow DEF Fits
  <1>4. Section(w) \in {"ids", "audit", "access"} => WindowOf(last')
    BY <1>1, <1>2, WrittenWindow DEF Fits
  <1>5. Section(w) = "initialize" => WindowOf(last')
    BY <1>1, EmptyWindow DEF Fits
  <1>6. Section(w) = "recover" => WindowOf(last')
    <2> SUFFICES ASSUME Section(w) = "recover" PROVE WindowOf(last')
      OBVIOUS
    <2>1. PICK b \in ValidBackups : last' = Restored(b.bytes)
      BY <1>1 DEF Fits
    <2>2. b.bytes \in Document /\ WindowOf(b.bytes)
      BY <2>1, BackupFacts, Documents DEF AuditWindow, StoreInv
    <2>. QED
      BY <2>1, <2>2, WrittenWindow
  <1>7. last'.applied # prior'.applied /\ prior' # None
          => Len(last'.events) <= AuditLimit
    <2> SUFFICES ASSUME last'.applied # prior'.applied, prior' # None
                 PROVE  Section(w) = "mutate"
      BY <1>3
    <2>. QED
      BY <1>1, ReplaceApplied DEF Special
  <1>. QED
    BY <1>1, <1>3, <1>4, <1>5, <1>6, <1>7 DEF AuditWindow, Special

LEMMA NextWindow == StoreInv /\ AuditWindow /\ [Next]_vars => AuditWindow'
  <1> SUFFICES ASSUME StoreInv, AuditWindow, [Next]_vars PROVE AuditWindow'
    OBVIOUS
  <1>1. ASSUME UNCHANGED <<last, prior>>,
               \A b \in backups' :
                 b \in backups \/ (IsDocument(b.bytes) => b.bytes = last)
        PROVE  AuditWindow'
    BY <1>1, Documents DEF AuditWindow
  <1>2. ASSUME NEW w \in Workers, StepOf(w) PROVE AuditWindow'
    <2>1. CASE Replace(w)
      BY <2>1, ReplaceWindow
    <2>2. CASE BeginBackup(w)
      BY <1>1, <2>2, Documents DEF BeginBackup, history
    <2>3. CASE FinishBackup(w)
      BY <1>1, <2>3 DEF FinishBackup, history, StoreInv, FilesInv, CanonInv
    <2>4. CASE Prune(w)
      BY <1>1, <2>4 DEF Prune, history
    <2>5. CASE FilesKept
      BY <1>1, <2>5 DEF FilesKept
    <2>. QED
      BY <1>2, <2>1, <2>2, <2>3, <2>4, <2>5
      DEF StepOf, Starts, Ends, Turns, Checks, Moves, Drafts, Saves
  <1>3. CASE Damage \/ UNCHANGED vars
    BY <1>1, <1>3 DEF Damage, vars, files, history
  <1>. QED
    BY <1>2, <1>3, Steps DEF StoreInv

(* The live window is always exactly the newest events, and the count of   *)
(* discarded ones is exact, through mutations, upgrades, backups, rotation *)
(* and recoveries, whatever the two limits are.                            *)
THEOREM AuditAlwaysWindow == Spec => []AuditWindow
  <1>1. Init => AuditWindow
    <2> SUFFICES ASSUME Init PROVE AuditWindow
      OBVIOUS
    <2>1. last # None => last \in InitialFiles \ {Missing}
      BY DEF Init
    <2>. QED
      BY <2>1, StoreAssumption DEF StoreAssumption, AuditWindow, Init
  <1>2. StoreInv /\ AuditWindow /\ [Next]_vars => AuditWindow'
    BY NextWindow
  <1>. QED
    BY <1>1, <1>2, StoreAlways, PTL DEF Spec

-----------------------------------------------------------------------------
(* The size of the backup directory.                                       *)

Rotating == \E w \in Workers : pc[w] \in {"copying", "pruning"}
Excess == IF Rotating THEN 1 ELSE 0
Interruptions == incidents["crash"] + incidents["fault"]

(* Beyond the limit there is the backup of the write under way, and one    *)
(* for each write that was interrupted before it had rotated.              *)
BoundInv == Cardinality(backups) <= BackupLimit + Interruptions + Excess

LEMMA BoundTypes ==
  ASSUME TypeInv
  PROVE  /\ incidents["crash"] \in Nat /\ incidents["fault"] \in Nat
         /\ Interruptions \in Nat /\ Excess \in {0, 1} /\ BackupLimit \in Nat
  <1>1. incidents["crash"] \in Nat /\ incidents["fault"] \in Nat
    BY DEF TypeInv, TypeOK, Incidents
  <1>. QED
    BY <1>1, StoreAssumption DEF StoreAssumption, Interruptions, Excess

LEMMA NextBoundTypes ==
  ASSUME TypeInv'
  PROVE  Interruptions' \in Nat /\ Excess' \in {0, 1}
  <1>1. incidents'["crash"] \in Nat /\ incidents'["fault"] \in Nat
    BY DEF TypeInv, TypeOK, Incidents
  <1>. QED
    BY <1>1 DEF Interruptions, Excess

LEMMA BackupsCounted ==
  ASSUME StoreInv
  PROVE  IsFiniteSet(backups) /\ Cardinality(backups) \in Nat
  BY FS_CardinalityType DEF StoreInv, FilesInv, BackupsInv

(* A writer at work before or after its backup is the only one.            *)
LEMMA RotatingAlone ==
  ASSUME TypeInv, LockInv, NEW w \in Workers, Saves(w), StepOf(w)
  PROVE  /\ Rotating => pc[w] \in {"copying", "pruning"}
         /\ Rotating' <=> pc'[w] \in {"copying", "pruning"}
  <1>1. \A v \in Workers : v # w => pc'[v] \in {"idle", "waiting"} /\ pc'[v] = pc[v]
    BY SavesAlone DEF StepOf, Only
  <1>. QED
    BY <1>1 DEF Rotating

LEMMA SavesBound ==
  ASSUME StoreInv, BoundInv, NEW w \in Workers, Saves(w), StepOf(w), TypeInv'
  PROVE  BoundInv'
  <1>1. /\ Interruptions \in Nat /\ Excess \in {0, 1} /\ BackupLimit \in Nat
        /\ Excess' \in {0, 1} /\ Interruptions' = Interruptions
        /\ IsFiniteSet(backups) /\ Cardinality(backups) \in Nat
    <2>1. UNCHANGED incidents
      BY DEF Saves, BeginBackup, FinishBackup, Prune, Replace, history
    <2>2. Interruptions' = Interruptions
      BY <2>1 DEF Interruptions
    <2>. QED
      BY <2>2, BoundTypes, NextBoundTypes, BackupsCounted DEF StoreInv
  <1>2. /\ Excess = 1 => pc[w] \in {"copying", "pruning"}
        /\ pc'[w] \in {"copying", "pruning"} => Excess' = 1
    BY RotatingAlone DEF StoreInv, Excess
  <1>3. CASE BeginBackup(w)
    <2>1. Excess = 0 /\ Excess' = 1
      BY <1>1, <1>2, <1>3 DEF BeginBackup, Goto, StoreInv, TypeInv, TypeOK
    <2>2. PICK new : backups' = backups \cup {new}
      BY <1>3 DEF BeginBackup
    <2>3. Cardinality(backups') <= Cardinality(backups) + 1
          /\ Cardinality(backups') \in Nat
      BY <1>1, <2>2, OneMore
    <2>. QED
      BY <1>1, <2>1, <2>3 DEF BoundInv
  <1>4. CASE FinishBackup(w)
    <2>1. pc[w] = "copying" /\ Excess' = 1
      BY <1>2, <1>4 DEF FinishBackup, Goto, StoreInv, TypeInv, TypeOK
    <2>2. PICK cut \in backups : cut.stamp = clock - 1
      BY <2>1 DEF StoreInv, FilesInv, WriterOK, BackupPhase
    <2>3. PICK new : backups' = {b \in backups : b.stamp # clock - 1} \cup {new}
      BY <1>4 DEF FinishBackup
    <2> DEFINE kept == {b \in backups : b.stamp # clock - 1}
    <2>4. kept \subseteq backups \ {cut}
      BY <2>2
    <2> HIDE DEF kept
    <2>5. /\ IsFiniteSet(kept) /\ Cardinality(kept) + 1 <= Cardinality(backups)
          /\ Cardinality(kept) \in Nat
      BY <1>1, <2>4, OneLess
    <2>6. /\ Cardinality(backups') <= Cardinality(kept) + 1
          /\ Cardinality(backups') \in Nat
      BY <2>3, <2>5, OneMore DEF kept
    <2>. QED
      BY <1>1, <2>1, <2>5, <2>6 DEF BoundInv
  <1>5. CASE Prune(w)
    <2>1. backups' \subseteq backups /\ UNCHANGED pc
      BY <1>5 DEF Prune, control
    <2>2. Cardinality(backups') <= Cardinality(backups)
          /\ Cardinality(backups') \in Nat
      BY <1>1, <2>1, SmallerCount
    <2>3. Excess' = Excess
      BY <2>1 DEF Excess, Rotating
    <2>. QED
      BY <1>1, <2>2, <2>3 DEF BoundInv
  <1>6. CASE Replace(w)
    <2>1. backups' = backups
      BY <1>6 DEF Replace
    <2>2. CASE pc[w] = "pruning"
      <3>1. Cardinality(backups) <= BackupLimit
        BY <1>6, <2>2 DEF Replace, ReadyToReplace
      <3>. QED
        BY <1>1, <2>1, <3>1 DEF BoundInv
    <2>3. CASE pc[w] # "pruning"
      <3>1. Excess = 0
        BY <1>1, <1>2, <1>6, <2>3 DEF Replace, ReadyToReplace
      <3>. QED
        BY <1>1, <2>1, <3>1 DEF BoundInv
    <2>. QED
      BY <2>2, <2>3
  <1>. QED
    BY <1>3, <1>4, <1>5, <1>6 DEF Saves

LEMMA KeptBound ==
  ASSUME StoreInv, BoundInv, NEW w \in Workers, StepOf(w), ~Saves(w), TypeInv'
  PROVE  BoundInv'
  <1>1. /\ Interruptions \in Nat /\ Excess \in {0, 1} /\ BackupLimit \in Nat
        /\ Excess' \in {0, 1} /\ Interruptions' \in Nat
        /\ Cardinality(backups) \in Nat
    BY BoundTypes, NextBoundTypes, BackupsCounted DEF StoreInv
  <1>2. backups' = backups
    BY DEF StepOf, Starts, Ends, Turns, Checks, Moves, Drafts, FilesKept
  <1>3. CASE pc[w] \in {"copying", "pruning"}
    <2>1. Counted(w)
      BY <1>3 DEF StepOf, Starts, Ends, Turns, Checks, Moves, Drafts
    <2>2. Interruptions' >= Interruptions + 1
      BY <1>3, <2>1 DEF Counted, Interruptions
    <2>. QED
      BY <1>1, <1>2, <2>2 DEF BoundInv
  <1>4. CASE pc[w] \notin {"copying", "pruning"}
    <2>1. Rotating => Rotating'
      BY <1>4 DEF Rotating, StepOf, Only
    <2>2. Interruptions' >= Interruptions
      <3>1. incidents \in [Incidents -> Nat] /\ incidents' \in [Incidents -> Nat]
            /\ {"crash", "fault", "recovery"} \subseteq Incidents
        BY DEF StoreInv, TypeInv, TypeOK, Incidents
      <3>2. \A i \in {"crash", "fault"} : incidents'[i] >= incidents[i]
        <4>1. CASE Counted(w)
          BY <3>1, <4>1 DEF Counted
        <4>2. CASE \/ UNCHANGED incidents
                   \/ incidents' = [incidents EXCEPT !["recovery"] = @ + 1]
          BY <3>1, <4>2
        <4>. QED
          BY <4>1, <4>2
          DEF StepOf, Starts, Ends, Turns, Checks, Moves, Drafts
      <3>. QED
        BY <3>1, <3>2 DEF Interruptions
    <2>. QED
      BY <1>1, <1>2, <2>1, <2>2 DEF BoundInv, Excess
  <1>. QED
    BY <1>3, <1>4

(* Rotation keeps the directory at its limit, but for the write under way  *)
(* and for one more file per write that a crash or a fault interrupted.    *)
THEOREM BackupsAlwaysBounded == Spec => []BackupsBounded
  <1>1. Init => BoundInv
    BY FS_EmptySet, StoreAssumption
    DEF Init, BoundInv, Interruptions, Excess, Rotating, Incidents, StoreAssumption
  <1>2. StoreInv /\ BoundInv /\ [Next]_vars => BoundInv'
    <2> SUFFICES ASSUME StoreInv, BoundInv, [Next]_vars PROVE BoundInv'
      OBVIOUS
    <2>1. TypeInv /\ TypeInv'
      BY NextType DEF StoreInv
    <2>2. ASSUME NEW w \in Workers, StepOf(w) PROVE BoundInv'
      BY <2>1, <2>2, SavesBound, KeptBound
    <2>3. CASE Damage \/ UNCHANGED vars
      <3>1. UNCHANGED <<backups, pc>>
            /\ incidents'["crash"] = incidents["crash"]
            /\ incidents'["fault"] = incidents["fault"]
        BY <2>1, <2>3
        DEF Damage, Happens, vars, files, control, history, TypeInv, TypeOK,
            Incidents
      <3>. QED
        BY <3>1 DEF BoundInv, Interruptions, Excess, Rotating
    <2>. QED
      BY <2>1, <2>2, <2>3, Steps
  <1>3. StoreInv /\ BoundInv => BackupsBounded
    <2> SUFFICES ASSUME StoreInv, BoundInv PROVE BackupsBounded
      OBVIOUS
    <2>1. /\ incidents["crash"] \in Nat /\ incidents["fault"] \in Nat
          /\ Excess \in {0, 1} /\ BackupLimit \in Nat
          /\ Cardinality(backups) \in Nat
      BY BoundTypes, BackupsCounted DEF StoreInv
    <2>. QED
      BY <2>1 DEF BoundInv, BackupsBounded, Interruptions
  <1>. QED
    BY <1>1, <1>2, <1>3, StoreAlways, PTL DEF Spec

-----------------------------------------------------------------------------
(* The store implements the versioned document.                            *)

(* The version a caller sees of a written document.                        *)
LEMMA RetainFields ==
  ASSUME NEW doc \in Document
  PROVE  /\ Retain(doc).schema = doc.schema /\ Retain(doc).ids = doc.ids
         /\ Retain(doc).audit = doc.audit /\ Retain(doc).log = doc.log
         /\ Retain(doc).applied = doc.applied /\ Retain(doc).rev = doc.rev
         /\ Retain(doc) \in Document
  <1> DEFINE kept == SubSeq(doc.events, Len(doc.events) - AuditLimit + 1,
                            Len(doc.events))
             count == doc.discarded + (Len(doc.events) - AuditLimit)
  <1>1. \/ Retain(doc) = doc
        \/ Retain(doc) = [doc EXCEPT !.events = kept, !.discarded = count]
    BY DEF Retain
  <1>2. Retain(doc) \in Document
    BY RetainDocument
  <1> HIDE DEF kept, count
  <1>. QED
    BY <1>1, <1>2 DEF Document

LEMMA VersionOfDocument ==
  ASSUME NEW doc \in Document
  PROVE  /\ VersionOf(doc) = [ rev |-> doc.rev, legacy |-> LegacyForms(doc),
                               applied |-> doc.applied, log |-> doc.log ]
         /\ VersionOf(doc) \in Version /\ VersionOf(doc) # None
  <1>1. VersionOf(doc) = [ rev |-> doc.rev, legacy |-> LegacyForms(doc),
                           applied |-> doc.applied, log |-> doc.log ]
    BY Markers DEF VersionOf
  <1>2. LegacyForms(doc) \in SUBSET {"access", "ids", "audit"}
    BY DEF LegacyForms
  <1>3. VersionOf(doc) \in Version
    BY <1>1, <1>2 DEF Version, Document
  <1>. QED
    BY <1>1, <1>3, StoreAssumption DEF StoreAssumption

LEMMA CommittedVersion ==
  ASSUME NEW old \in Version, NEW new \in Version, NEW t, NEW added,
         new.rev = old.rev + 1, new.applied = old.applied \cup {t},
         new.log = old.log \o added, new.legacy = old.legacy
  PROVE  new = [old EXCEPT !.rev = @ + 1, !.applied = @ \cup {t},
                           !.log = @ \o added]
  BY DEF Version

LEMMA UpgradeOfVersion ==
  ASSUME NEW old \in Version, NEW new \in Version, NEW rev, NEW legacy,
         new.rev = rev, new.legacy = legacy,
         new.applied = old.applied, new.log = old.log
  PROVE  new = [old EXCEPT !.rev = rev, !.legacy = legacy]
  BY DEF Version

LEMMA MutatedVersion ==
  ASSUME NEW doc \in Document, NEW t \in Txns
  PROVE  VersionOf(Mutated(doc, t)) =
           [VersionOf(doc) EXCEPT
              !.rev = @ + 1, !.applied = @ \cup {t},
              !.log = @ \o [i \in 1..EventsOf[t] |-> t]]
  <1> DEFINE added == [i \in 1..EventsOf[t] |-> t]
             changed == [doc EXCEPT !.applied = @ \cup {t},
                                    !.events = @ \o added, !.log = @ \o added]
             kept == Retain(changed)
             new == Mutated(doc, t)
  <1>1. added \in Seq(Event)
    BY StoreAssumption DEF StoreAssumption, Event
  <1>2. doc.events \o added \in Seq(Event) /\ doc.log \o added \in Seq(Event)
    BY <1>1 DEF Document
  <1>3. /\ changed \in Document /\ changed.log = doc.log \o added
        /\ changed.applied = doc.applied \cup {t} /\ changed.rev = doc.rev
        /\ changed.schema = doc.schema /\ changed.ids = doc.ids
        /\ changed.audit = doc.audit
    BY <1>2 DEF Document
  <1>4. new = [kept EXCEPT !.rev = @ + 1]
    BY DEF Mutated
  <1>5. VersionOf(doc) = [ rev |-> doc.rev, legacy |-> LegacyForms(doc),
                           applied |-> doc.applied, log |-> doc.log ]
    BY VersionOfDocument
  <1> HIDE DEF changed
  <1>6. /\ kept \in Document /\ kept.log = changed.log
        /\ kept.applied = changed.applied /\ kept.rev = changed.rev
        /\ kept.schema = changed.schema /\ kept.ids = changed.ids
        /\ kept.audit = changed.audit
    BY <1>3, RetainFields
  <1> HIDE DEF kept, added, new
  <1>7. /\ new.log = kept.log /\ new.applied = kept.applied
        /\ new.rev = kept.rev + 1 /\ new.schema = kept.schema
        /\ new.ids = kept.ids /\ new.audit = kept.audit
    BY <1>4, <1>6 DEF Document
  <1>8. LegacyForms(new) = LegacyForms(doc)
    BY <1>3, <1>6, <1>7 DEF LegacyForms
  <1>9. new \in Document
    BY MutatedDocument DEF new
  <1>10. VersionOf(new) = [ rev |-> doc.rev + 1, legacy |-> LegacyForms(doc),
                            applied |-> doc.applied \cup {t},
                            log |-> doc.log \o added ]
    BY <1>3, <1>6, <1>7, <1>8, <1>9, VersionOfDocument
  <1>11. /\ VersionOf(new).rev = VersionOf(doc).rev + 1
         /\ VersionOf(new).applied = VersionOf(doc).applied \cup {t}
         /\ VersionOf(new).log = VersionOf(doc).log \o added
         /\ VersionOf(new).legacy = VersionOf(doc).legacy
    BY <1>5, <1>10
  <1>12. VersionOf(new) = [VersionOf(doc) EXCEPT
                             !.rev = @ + 1, !.applied = @ \cup {t},
                             !.log = @ \o added]
    <2> DEFINE old == VersionOf(doc)
               next == VersionOf(new)
    <2>1. old \in Version /\ next \in Version
      <3>1. VersionOf(doc) \in Version
        BY VersionOfDocument, Zenon
      <3>2. VersionOf(new) \in Version
        BY <1>9, VersionOfDocument, Zenon
      <3>. QED
        BY <3>1, <3>2
    <2> HIDE DEF old, next
    <2>2. /\ next.rev = old.rev + 1 /\ next.applied = old.applied \cup {t}
          /\ next.log = old.log \o added /\ next.legacy = old.legacy
      BY <1>11 DEF old, next
    <2>3. next = [old EXCEPT !.rev = @ + 1, !.applied = @ \cup {t},
                             !.log = @ \o added]
      BY <2>1, <2>2, CommittedVersion, ZenonT(60)
    <2>. QED
      BY <2>3 DEF old, next
  <1>. QED
    BY <1>12 DEF new, added

LEMMA UpgradedVersion ==
  ASSUME NEW doc \in Document,
         NEW new,
         \/ new = WithoutOldIds(doc) /\ doc.ids
         \/ new = WithoutOldAudit(doc) /\ doc.audit
         \/ new = Migrated(doc) /\ doc.schema = 1
  PROVE  \E rev \in {doc.rev + 1, 2}, legacy \in SUBSET LegacyForms(doc) :
           /\ rev > doc.rev /\ legacy # LegacyForms(doc)
           /\ VersionOf(new) = [VersionOf(doc) EXCEPT !.rev = rev,
                                                      !.legacy = legacy]
  <1>1. new \in Document
    BY UpgradedDocument, AuditedDocument
  <1>2. new.log = doc.log /\ new.applied = doc.applied
    <2>1. \A other \in {WithoutOldIds(doc), Migrated(doc)} :
            other.log = doc.log /\ other.applied = doc.applied
      BY DEF WithoutOldIds, Migrated, Document
    <2>2. WithoutOldAudit(doc).log = doc.log
          /\ WithoutOldAudit(doc).applied = doc.applied
      BY RetainFields DEF WithoutOldAudit, Document
    <2>. QED
      BY <2>1, <2>2
  <1>3. new.rev \in {doc.rev + 1, 2} /\ new.rev > doc.rev
    <2>1. doc.rev \in Nat
      BY DEF Document
    <2>2. NextRevision(doc.rev) \in {doc.rev + 1, 2} /\ NextRevision(doc.rev) > doc.rev
      BY <2>1 DEF NextRevision
    <2>3. \A other \in {WithoutOldIds(doc), Migrated(doc)} :
            other.rev = NextRevision(doc.rev)
      BY DEF WithoutOldIds, Migrated, Document
    <2>4. WithoutOldAudit(doc).rev = doc.rev + 1
      BY RetainFields DEF WithoutOldAudit, Document
    <2>. QED
      BY <2>1, <2>2, <2>3, <2>4
  <1>4. LegacyForms(new) \subseteq LegacyForms(doc) /\ LegacyForms(new) # LegacyForms(doc)
    <2>1. CASE new = WithoutOldIds(doc) /\ doc.ids
      <3>1. new.schema = doc.schema /\ ~new.ids /\ new.audit = doc.audit /\ doc.ids
        BY <2>1 DEF WithoutOldIds, Document
      <3>. QED
        BY <3>1 DEF LegacyForms
    <2>2. CASE new = WithoutOldAudit(doc) /\ doc.audit
      <3>1. new.schema = doc.schema /\ new.ids = doc.ids /\ ~new.audit /\ doc.audit
        BY <2>2, RetainFields DEF WithoutOldAudit, Document
      <3>. QED
        BY <3>1 DEF LegacyForms
    <2>3. CASE new = Migrated(doc) /\ doc.schema = 1
      <3>1. /\ new.schema = 2 /\ ~new.ids /\ new.audit = doc.audit
            /\ doc.schema = 1
        BY <2>3 DEF Migrated, Document
      <3>. QED
        BY <3>1 DEF LegacyForms
    <2>. QED
      BY <2>1, <2>2, <2>3
  <1> DEFINE legacy == LegacyForms(new)
  <1>5. VersionOf(new) = [VersionOf(doc) EXCEPT !.rev = new.rev, !.legacy = legacy]
    <2>1. VersionOf(new) = [ rev |-> new.rev, legacy |-> legacy,
                             applied |-> doc.applied, log |-> doc.log ]
      BY <1>1, <1>2, VersionOfDocument
    <2>2. VersionOf(doc) = [ rev |-> doc.rev, legacy |-> LegacyForms(doc),
                             applied |-> doc.applied, log |-> doc.log ]
      BY VersionOfDocument
    <2>3. /\ VersionOf(new).rev = new.rev /\ VersionOf(new).legacy = legacy
          /\ VersionOf(new).applied = VersionOf(doc).applied
          /\ VersionOf(new).log = VersionOf(doc).log
      BY <2>1, <2>2
    <2> HIDE DEF legacy
    <2>. QED
      BY <1>1, <2>3, VersionOfDocument, UpgradeOfVersion
  <1> HIDE DEF legacy
  <1>. QED
    BY <1>3, <1>4, <1>5 DEF legacy

LEMMA RestoredVersion ==
  ASSUME NEW doc \in Document
  PROVE  VersionOf(Restored(doc)) = [VersionOf(doc) EXCEPT !.rev = @ + 1]
  <1> DEFINE new == Restored(doc)
  <1>1. new \in Document
    BY RestoredDocument
  <1>2. /\ new.rev = doc.rev + 1 /\ new.log = doc.log
        /\ new.applied = doc.applied /\ new.schema = doc.schema
        /\ new.ids = doc.ids /\ new.audit = doc.audit
    BY DEF Restored, Document
  <1> HIDE DEF new
  <1>3. VersionOf(new) = [ rev |-> doc.rev + 1, legacy |-> LegacyForms(doc),
                           applied |-> doc.applied, log |-> doc.log ]
    BY <1>1, <1>2, VersionOfDocument DEF LegacyForms
  <1>4. VersionOf(doc) = [ rev |-> doc.rev, legacy |-> LegacyForms(doc),
                           applied |-> doc.applied, log |-> doc.log ]
    BY VersionOfDocument
  <1>. QED
    BY <1>3, <1>4 DEF new

(* A step that commits, restores and damages nothing is invisible.         *)
LEMMA Invisible ==
  ASSUME UNCHANGED <<canon, last, prior>>,
         incidents'["recovery"] = incidents["recovery"]
  PROVE  UNCHANGED Register!vars
  BY DEF Register!vars, VersionOf, LegacyForms

LEMMA InitRegister == Init => Register!Init
  <1> SUFFICES ASSUME Init PROVE Register!Init
    OBVIOUS
  <1> DEFINE held == CASE canon = Missing -> "absent"
                       [] canon = Corrupt -> "damaged"
                       [] OTHER -> "whole"
             newest == VersionOf(last)
             former == VersionOf(prior)
             asks == incidents["recovery"] > 0
  <1>1. former = None /\ asks = FALSE
    BY DEF Init, VersionOf, Incidents
  <1>2. newest \in Version \cup {None}
        /\ held = IF newest = None THEN "absent" ELSE "whole"
    <2>1. CASE canon = Missing
      <3>1. newest = None
        BY <2>1 DEF Init, VersionOf
      <3>2. held = "absent"
        BY <2>1, Markers
      <3>. QED
        BY <3>1, <3>2
    <2>2. CASE canon # Missing
      <3>1. canon \in Document /\ last = canon
        BY <2>2, StoreAssumption DEF Init, StoreAssumption
      <3>2. newest \in Version /\ newest # None
        BY <3>1, VersionOfDocument
      <3>3. held = "whole"
        BY <2>2, <3>1, Markers
      <3>. QED
        BY <3>2, <3>3
    <2>. QED
      BY <2>1, <2>2
  <1>3. Version = Register!Version
    BY DEF Version, Register!Version, Register!Forms, Event
  <1> HIDE DEF held, newest, former, asks
  <1>4. /\ newest \in Register!Version \cup {None} /\ former = None
        /\ held = IF newest = None THEN "absent" ELSE "whole"
        /\ asks = FALSE
    BY <1>1, <1>2, <1>3
  <1>. QED
    BY <1>4 DEF held, newest, former, asks, Register!Init

LEMMA ReplaceRegister ==
  ASSUME StoreInv, TxnInv, NEW w \in Workers, Replace(w)
  PROVE  Register!Next
  <1>1. /\ pc[w] \in {"staged", "pruning"} /\ Fits(w, draft[w])
        /\ draft[w] \in Document /\ canon' = draft[w] /\ last' = draft[w]
        /\ UNCHANGED incidents
        /\ Section(w) \in {"mutate", "ids", "audit", "access"} \cup Special
    BY ReplaceFacts, ReplaceApplied DEF StoreInv
  <1>2. /\ canon' # Missing /\ canon' # Corrupt /\ Missing # Corrupt
        /\ last' \in Document
    BY <1>1, Markers
  <1>3. Section(w) \in {"mutate", "ids", "audit", "access"} =>
          /\ canon \in Document /\ canon = last /\ canon # Missing
          /\ canon # Corrupt /\ prior' \in {last, None}
    BY <1>1, Markers, ReplaceApplied
    DEF Fits, Special, StoreInv, FilesInv, CanonInv, TypeInv, TypeOK, IsDocument
  <1>4. VersionOf(None) = None
    BY DEF VersionOf
  <1>5. CASE Section(w) = "mutate"
    <2>1. txn[w] \in Txns /\ Valid(canon) /\ last' = Mutated(last, txn[w])
      BY <1>1, <1>3, <1>5, ReplaceApplied DEF Fits
    <2>2. Absent(txn[w])
      <3>1. txn[w] # NoTxn
        BY <2>1, Markers
      <3>. QED
        BY <1>1, <3>1 DEF TxnInv, TxnOK, After
    <2>3. /\ VersionOf(last).applied = last.applied
          /\ VersionOf(last).legacy = LegacyForms(last)
      BY <1>3, <1>5, VersionOfDocument
    <2>4. txn[w] \notin VersionOf(last).applied
          /\ VersionOf(last).legacy \subseteq {"audit"}
      BY <1>3, <1>5, <2>1, <2>2, <2>3, Markers
      DEF Absent, Contains, Valid, LegacyForms
    <2>5. VersionOf(last)' =
            [VersionOf(last) EXCEPT !.rev = @ + 1, !.applied = @ \cup {txn[w]},
               !.log = @ \o [i \in 1..EventsOf[txn[w]] |-> txn[w]]]
      <3>1. VersionOf(last)' = VersionOf(Mutated(last, txn[w]))
        BY <2>1 DEF VersionOf, LegacyForms
      <3>. QED
        BY <1>3, <1>5, <2>1, <3>1, MutatedVersion
    <2>6. VersionOf(prior)' \in {VersionOf(last), None}
      BY <1>3, <1>4, <1>5 DEF VersionOf, LegacyForms
    <2>7. Register!Commit(txn[w])
      BY <1>1, <1>2, <1>3, <1>5, <2>4, <2>5, <2>6
      DEF Register!Commit, Register!Replaces
    <2>. QED
      BY <2>1, <2>7 DEF Register!Next
  <1>6. CASE Section(w) \in {"ids", "audit", "access"}
    <2>1. \/ last' = WithoutOldIds(last) /\ last.ids
          \/ last' = WithoutOldAudit(last) /\ last.audit
          \/ last' = Migrated(last) /\ last.schema = 1
      BY <1>1, <1>3, <1>6 DEF Fits
    <2>2. \E rev \in {last.rev + 1, 2}, legacy \in SUBSET LegacyForms(last) :
            /\ rev > last.rev /\ legacy # LegacyForms(last)
            /\ VersionOf(last)' = [VersionOf(last) EXCEPT !.rev = rev,
                                                         !.legacy = legacy]
      <3> DEFINE new == last'
      <3>1. \E rev \in {last.rev + 1, 2}, legacy \in SUBSET LegacyForms(last) :
              /\ rev > last.rev /\ legacy # LegacyForms(last)
              /\ VersionOf(new) = [VersionOf(last) EXCEPT !.rev = rev,
                                                         !.legacy = legacy]
        BY <1>3, <1>6, <2>1, UpgradedVersion
      <3>2. VersionOf(new) = VersionOf(last)'
        BY DEF VersionOf, LegacyForms
      <3>. QED
        BY <3>1, <3>2
    <2>3. /\ VersionOf(last).rev = last.rev
          /\ VersionOf(last).legacy = LegacyForms(last)
      BY <1>3, <1>6, VersionOfDocument
    <2>4. VersionOf(prior)' \in {VersionOf(last), None}
      BY <1>3, <1>4, <1>6 DEF VersionOf, LegacyForms
    <2>5. Register!Upgrade
      BY <1>1, <1>2, <1>3, <1>6, <2>2, <2>3, <2>4
      DEF Register!Upgrade, Register!Replaces
    <2>. QED
      BY <2>5 DEF Register!Next
  <1>7. CASE Section(w) = "initialize"
    <2>1. canon = Missing /\ last' = EmptyDocument /\ prior' = None
      BY <1>1, <1>7, ReplaceApplied DEF Fits
    <2>2. VersionOf(last)' = [rev |-> 1, legacy |-> {}, applied |-> {}, log |-> <<>>]
      <3>1. VersionOf(last)' = VersionOf(EmptyDocument)
        BY <2>1 DEF VersionOf, LegacyForms
      <3>2. /\ EmptyDocument.rev = 1 /\ LegacyForms(EmptyDocument) = {}
            /\ EmptyDocument.applied = {} /\ EmptyDocument.log = <<>>
        BY DEF EmptyDocument, LegacyForms
      <3>. QED
        BY <3>1, <3>2, EmptyIsDocument, VersionOfDocument
    <2>3. VersionOf(prior)' = None
      BY <2>1 DEF VersionOf
    <2>4. Register!Create
      BY <1>1, <1>2, <2>1, <2>2, <2>3 DEF Register!Create
    <2>. QED
      BY <2>4 DEF Register!Next
  <1>8. CASE Section(w) = "recover"
    <2>1. PICK b \in ValidBackups :
             /\ last' = Restored(b.bytes) /\ prior' = b.bytes
             /\ b.bytes \in {prior, last} /\ b.bytes \in Document
      BY <1>1, <1>8, ReplaceFacts DEF StoreInv
    <2> DEFINE source == VersionOf(b.bytes)
    <2>2. source \in {VersionOf(last), VersionOf(prior)} \ {None}
      BY <2>1, VersionOfDocument
    <2>3. VersionOf(last)' = [source EXCEPT !.rev = @ + 1]
      <3>1. VersionOf(last)' = VersionOf(Restored(b.bytes))
        BY <2>1 DEF VersionOf, LegacyForms
      <3>. QED
        BY <2>1, <3>1, RestoredVersion
    <2>4. VersionOf(prior)' = source
      BY <2>1 DEF VersionOf, LegacyForms
    <2>5. incidents["recovery"] > 0
      BY <1>1, <1>8 DEF StoreInv, Plans, PlanOK
    <2>6. canon # Missing
      BY <2>1 DEF ValidBackups, StoreInv, FilesInv, CanonInv
    <2> HIDE DEF source
    <2>7. Register!Restore
      BY <1>1, <1>2, <2>2, <2>3, <2>4, <2>5, <2>6 DEF Register!Restore
    <2>. QED
      BY <2>7 DEF Register!Next
  <1>. QED
    BY <1>1, <1>5, <1>6, <1>7, <1>8 DEF Special

(* The other steps ask for a recovery, or change nothing a caller sees.    *)
LEMMA StepRegister ==
  ASSUME StoreInv, TxnInv, NEW w \in Workers, StepOf(w)
  PROVE  [Register!Next]_(Register!vars)
  <1>1. incidents \in [Incidents -> Nat] /\ "recovery" \in Incidents
    BY DEF StoreInv, TypeInv, TypeOK, Incidents
  <1>2. ASSUME NEW request \in Requests, NEW t \in Txns \cup {NoTxn},
               Starts(w, request, t)
        PROVE  [Register!Next]_(Register!vars)
    <2>1. UNCHANGED <<canon, last, prior>>
      BY <1>2 DEF Starts, FilesKept
    <2>2. CASE request = "recover"
      <3>1. incidents'["recovery"] > 0
        BY <1>1, <1>2, <2>2 DEF Starts
      <3>2. (incidents["recovery"] > 0)' = TRUE
        BY <3>1
      <3>3. Register!Ask
        BY <2>1, <3>2 DEF Register!Ask, VersionOf, LegacyForms
      <3>. QED
        BY <3>3 DEF Register!Next
    <2>3. CASE request # "recover"
      BY <1>2, <2>1, <2>3, Invisible DEF Starts
    <2>. QED
      BY <2>2, <2>3
  <1>3. CASE Ends(w) \/ Moves(w)
    <2>1. UNCHANGED <<canon, last, prior>>
          /\ incidents'["recovery"] = incidents["recovery"]
      BY <1>3 DEF Ends, Moves, FilesKept, Counted
    <2>. QED
      BY <2>1, Invisible
  <1>4. CASE Turns(w) \/ Checks(w) \/ Drafts(w)
    <2>1. UNCHANGED <<canon, last, prior>>
          /\ incidents'["recovery"] = incidents["recovery"]
      BY <1>4 DEF Turns, Checks, Drafts, FilesKept
    <2>. QED
      BY <2>1, Invisible
  <1>5. CASE BeginBackup(w) \/ FinishBackup(w) \/ Prune(w)
    <2>1. UNCHANGED <<canon, last, prior>>
          /\ incidents'["recovery"] = incidents["recovery"]
      BY <1>5 DEF BeginBackup, FinishBackup, Prune, history
    <2>. QED
      BY <2>1, Invisible
  <1>6. CASE Replace(w)
    BY <1>6, ReplaceRegister
  <1>. QED
    BY <1>2, <1>3, <1>4, <1>5, <1>6 DEF StepOf, Saves

LEMMA DamageRegister ==
  ASSUME StoreInv, Damage
  PROVE  Register!Next
  <1>1. /\ canon # Missing /\ canon # Corrupt /\ canon' = Corrupt
        /\ Corrupt # Missing /\ UNCHANGED <<last, prior>>
    BY Markers DEF Damage, IsDocument
  <1>2. incidents'["recovery"] = incidents["recovery"]
    BY DEF Damage, Happens, StoreInv, TypeInv, TypeOK, Incidents
  <1>3. Register!Damage
    BY <1>1, <1>2 DEF Register!Damage, VersionOf, LegacyForms
  <1>. QED
    BY <1>3 DEF Register!Next

LEMMA NextRegister ==
  StoreInv /\ TxnInv /\ [Next]_vars => [Register!Next]_(Register!vars)
  <1> SUFFICES ASSUME StoreInv, TxnInv, [Next]_vars
               PROVE  [Register!Next]_(Register!vars)
    OBVIOUS
  <1>1. TypeInv /\ TypeInv'
    BY NextType DEF StoreInv
  <1>2. CASE UNCHANGED vars
    <2>1. UNCHANGED <<canon, last, prior, incidents>>
      BY <1>2 DEF vars, files, history
    <2>. QED
      BY <2>1, Invisible
  <1>. QED
    BY <1>1, <1>2, Steps, StepRegister, DamageRegister

(* Whatever crashes, fails or is damaged, the store behaves as a versioned *)
(* document that only changes by whole committed versions: each mutation   *)
(* once, on the newest version, and back by a recovery no further than the *)
(* version it replaced.                                                    *)
THEOREM StoreImplementsRegister == Spec => ImplementsRegister
  BY InitRegister, NextRegister, HistoryAlways, PTL
  DEF Spec, ImplementsRegister, Register!Spec
=============================================================================
