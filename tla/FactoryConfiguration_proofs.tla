-------------------- MODULE FactoryConfiguration_proofs --------------------
(***************************************************************************)
(* Proofs about FactoryConfiguration, for any number of requests, pools    *)
(* and rows: the lock and the inspection under it are what makes the       *)
(* activation of a configuration final.                                    *)
(***************************************************************************)
EXTENDS FactoryConfiguration, TLAPS

After == {"ensured", "prepared", "opened", "written"}

Types ==
  /\ directory \in {Missing} \cup Directory
  /\ temporary \in [Pools -> Content]
  /\ pc \in [Workers -> Phases]
  /\ job \in [Workers -> Jobs \cup {None}]
  /\ draft \in [Workers -> Document \cup {None}]

(* What a worker's place says of its job, its draft, the lock and the      *)
(* configuration.                                                          *)
WorkerOK(w) ==
  /\ pc[w] # "idle" => job[w] \in Jobs
  /\ pc[w] \in {"prepared", "opened", "written"} =>
       job[w].pool \in Pools /\ draft[w] \in Document
  /\ pc[w] \in {"locked", "staged"} => lock = w
  /\ pc[w] = "staged" => ~Activated
  /\ pc[w] \in After => Activated

WholeIfActivated ==
  Activated => \A p \in Pools : directory.documents[p] # Missing

ConfigurationInv ==
  Types /\ WholeIfActivated /\ \A w \in Workers : WorkerOK(w)

-----------------------------------------------------------------------------
(* Operators.                                                              *)

LEMMA JobCases ==
  ASSUME NEW j \in Jobs, j # Look
  PROVE  /\ j.pool \in Pools
         /\ \/ j.kind = "pool" /\ j.document \in Document
            \/ j.kind = "item" /\ j.item \in Items /\ j.cost \in Costs
  BY DEF Jobs

(* A save means to leave a document.                                       *)
LEMMA ResultIsDocument ==
  ASSUME NEW j \in Jobs, j # Look, NEW content,
         j.kind = "item" => content \in Document
  PROVE  Result(j, content) \in Document
  <1>1. CASE j.kind = "pool"
    BY <1>1, JobCases DEF Result
  <1>2. CASE j.kind = "item" /\ j.item \in Items /\ j.cost \in Costs
    BY <1>2 DEF Result, Document
  <1>. QED
    BY <1>1, <1>2, JobCases

LEMMA DocumentIsContent ==
  /\ Document \subseteq Content /\ Garbled \in Content /\ Empty \in Content
  /\ Missing \notin Document /\ Garbled # Missing /\ Empty # Missing
  BY ConfigurationAssumption DEF ConfigurationAssumption, Content

LEMMA OverwrittenIsWhole ==
  ASSUME NEW content, NEW document \in Document,
         NEW result \in Overwritten(content, document)
  PROVE  result \in Content \ {Missing}
  BY DocumentIsContent DEF Overwritten

(* One document of an active directory is replaced by another file.        *)
LEMMA DocumentReplaced ==
  ASSUME directory \in Directory, Activated, WholeIfActivated,
         NEW p \in Pools, NEW content \in Content \ {Missing},
         directory' = [directory EXCEPT !.documents[p] = content]
  PROVE  /\ directory' \in Directory /\ Activated' /\ WholeIfActivated'
         /\ \A q \in Pools \ {p} : directory'.documents[q] = directory.documents[q]
  <1>1. directory' \in Directory /\ directory'.completed = directory.completed
    BY DEF Directory
  <1>2. directory' # Missing
    BY <1>1, ConfigurationAssumption DEF ConfigurationAssumption
  <1>3. \A q \in Pools : directory'.documents[q] =
          IF q = p THEN content ELSE directory.documents[q]
    BY DEF Directory
  <1>. QED
    BY <1>1, <1>2, <1>3 DEF Activated, WholeIfActivated

-----------------------------------------------------------------------------
(* The steps.                                                              *)

LEMMA InitConfiguration == Init => ConfigurationInv
  <1> SUFFICES ASSUME Init PROVE ConfigurationInv
    OBVIOUS
  <1>1. Types
    BY ConfigurationAssumption
    DEF Init, ConfigurationAssumption, Types, Content, Phases
  <1>2. WholeIfActivated
    <2>1. directory # Missing /\ directory.completed =>
            \A p \in Pools : directory.documents[p] \in Document
      BY ConfigurationAssumption DEF Init, ConfigurationAssumption
    <2>. QED
      BY <2>1, DocumentIsContent DEF WholeIfActivated, Activated
  <1>3. \A w \in Workers : WorkerOK(w)
    BY DEF Init, WorkerOK, After
  <1>. QED
    BY <1>1, <1>2, <1>3 DEF ConfigurationInv

(* A step that neither changes the directory nor takes the lock from       *)
(* another worker only has to answer for its own worker.                   *)
LEMMA OwnStep ==
  ASSUME ConfigurationInv, NEW w \in Workers, Types', WorkerOK(w)',
         directory' = directory,
         \A v \in Workers \ {w} :
           /\ pc'[v] = pc[v] /\ job'[v] = job[v] /\ draft'[v] = draft[v]
           /\ lock = v => lock' = v
  PROVE  ConfigurationInv'
  <1>1. WholeIfActivated' /\ Activated' = Activated
    BY DEF ConfigurationInv, WholeIfActivated, Activated
  <1>2. ASSUME NEW v \in Workers \ {w} PROVE WorkerOK(v)'
    BY <1>1 DEF ConfigurationInv, WorkerOK
  <1>. QED
    BY <1>1, <1>2 DEF ConfigurationInv

LEMMA EndInv ==
  ASSUME ConfigurationInv, NEW w \in Workers, End(w)
  PROVE  ConfigurationInv'
  <1>1. Types'
    BY DEF ConfigurationInv, Types, End, Finish, Goto, Phases
  <1>2. WorkerOK(w)'
    BY DEF ConfigurationInv, Types, End, Finish, Goto, WorkerOK, After
  <1>3. \A v \in Workers \ {w} :
           /\ pc'[v] = pc[v] /\ job'[v] = job[v] /\ draft'[v] = draft[v]
           /\ lock = v => lock' = v
    BY DEF ConfigurationInv, Types, End, Finish, Goto, Release
  <1>. QED
    BY <1>1, <1>2, <1>3, OwnStep DEF End

LEMMA BeginInv ==
  ASSUME ConfigurationInv, NEW w \in Workers, NEW j \in Jobs, Begin(w, j)
  PROVE  ConfigurationInv'
  <1>1. Types'
    BY DEF ConfigurationInv, Types, Begin, Goto, Phases
  <1>2. WorkerOK(w)'
    BY DEF ConfigurationInv, Types, Begin, Goto, WorkerOK, After
  <1>. QED
    BY <1>1, <1>2, OwnStep DEF ConfigurationInv, Types, Begin, Goto

(* Whoever is inside the locked section holds the lock, so that it is free *)
(* only when nobody is.                                                    *)
LEMMA LockInv ==
  ASSUME ConfigurationInv, NEW w \in Workers, Lock(w)
  PROVE  ConfigurationInv'
  <1>1. Types'
    BY DEF ConfigurationInv, Types, Lock, Goto, Phases
  <1>2. WorkerOK(w)'
    BY DEF ConfigurationInv, Types, Lock, Goto, WorkerOK, After
  <1>3. \A v \in Workers : lock # v
    BY ConfigurationAssumption DEF ConfigurationAssumption, Lock, LockFree
  <1>. QED
    BY <1>1, <1>2, <1>3, OwnStep DEF ConfigurationInv, Types, Lock, Goto

LEMMA InspectInv ==
  ASSUME ConfigurationInv, NEW w \in Workers, Inspect(w)
  PROVE  ConfigurationInv'
  <1>1. Types'
    BY DEF ConfigurationInv, Types, Inspect, Goto, Phases
  <1>2. WorkerOK(w)'
    <2>1. WorkerOK(w) /\ pc[w] = "locked" /\ directory' = directory /\ job' = job
      BY DEF ConfigurationInv, Inspect
    <2>2. CASE Activated /\ pc'[w] = "ensured"
      BY <2>1, <2>2 DEF WorkerOK, After, Activated
    <2>3. CASE ~Activated /\ pc'[w] = "staged" /\ lock' = lock
      BY <2>1, <2>3 DEF WorkerOK, After, Activated
    <2>. QED
      BY <2>2, <2>3 DEF Inspect, Goto, ConfigurationInv, Types
  <1>3. \A v \in Workers \ {w} : pc'[v] = pc[v] /\ (lock = v => lock' = v)
    BY DEF ConfigurationInv, Types, Inspect, Goto, Release
  <1>. QED
    BY <1>1, <1>2, <1>3, OwnStep DEF Inspect

(* While one worker has staged a directory, no other is past the lock.     *)
LEMMA NobodyElse ==
  ASSUME ConfigurationInv, NEW w \in Workers, pc[w] = "staged"
  PROVE  \A v \in Workers \ {w} : pc[v] \in {"idle", "waiting"}
  BY DEF ConfigurationInv, Types, WorkerOK, After, Phases

LEMMA ClearInv ==
  ASSUME ConfigurationInv, NEW w \in Workers, Clear(w)
  PROVE  ConfigurationInv'
  <1>1. ~Activated /\ directory \in Directory /\ ~directory.completed
    BY DEF ConfigurationInv, Types, WorkerOK, Clear, Activated
  <1>2. directory' \in {Missing} \cup Directory /\ ~Activated'
    <2>1. ASSUME NEW p \in Pools,
                 directory' = [directory EXCEPT !.documents[p] = Missing]
          PROVE  directory' \in Directory /\ ~directory'.completed
      BY <1>1, <2>1 DEF Directory, Content
    <2>. QED
      BY <2>1 DEF Clear, Activated
  <1>3. Types' /\ WholeIfActivated'
    BY <1>2 DEF ConfigurationInv, Types, WholeIfActivated, Clear
  <1>4. ASSUME NEW v \in Workers PROVE WorkerOK(v)'
    <2>1. pc[v] \notin After
      BY <1>1 DEF ConfigurationInv, WorkerOK
    <2>. QED
      BY <1>2, <2>1 DEF ConfigurationInv, WorkerOK, Clear, After
  <1>. QED
    BY <1>3, <1>4 DEF ConfigurationInv

LEMMA ActivateInv ==
  ASSUME ConfigurationInv, NEW w \in Workers, Activate(w)
  PROVE  ConfigurationInv'
  <1>1. directory' \in Directory /\ directory'.completed
        /\ \A p \in Pools : directory'.documents[p] \in Document
    BY ConfigurationAssumption, DocumentIsContent
    DEF ConfigurationAssumption, Activate, Migrated, Directory
  <1>2. Activated' /\ WholeIfActivated'
    BY <1>1, ConfigurationAssumption, DocumentIsContent
    DEF ConfigurationAssumption, Activated, WholeIfActivated
  <1>3. Types'
    BY <1>1 DEF ConfigurationInv, Types, Activate, Goto, Phases
  <1>4. ASSUME NEW v \in Workers PROVE WorkerOK(v)'
    <2>1. CASE v = w
      BY <1>2, <2>1 DEF ConfigurationInv, Types, WorkerOK, Activate, Goto, After
    <2>2. CASE v # w
      BY <2>2, NobodyElse
      DEF ConfigurationInv, Types, WorkerOK, Activate, Goto, After
    <2>. QED
      BY <2>1, <2>2
  <1>. QED
    BY <1>2, <1>3, <1>4 DEF ConfigurationInv

LEMMA PrepareInv ==
  ASSUME ConfigurationInv, NEW w \in Workers, Prepare(w)
  PROVE  ConfigurationInv'
  <1>1. job[w] \in Jobs /\ job[w] # Look /\ Activated
    BY DEF ConfigurationInv, WorkerOK, Prepare, After
  <1>2. PICK document \in Document : draft' = [draft EXCEPT ![w] = document]
    BY <1>1, ResultIsDocument DEF Prepare
  <1>3. Types'
    BY <1>2 DEF ConfigurationInv, Types, Prepare, Goto, Phases
  <1>4. WorkerOK(w)'
    BY <1>1, <1>2, JobCases
    DEF ConfigurationInv, Types, WorkerOK, Prepare, Goto, After, Activated
  <1>. QED
    BY <1>2, <1>3, <1>4, OwnStep DEF ConfigurationInv, Types, Prepare, Goto

LEMMA OpenInv ==
  ASSUME ConfigurationInv, NEW w \in Workers, OpenTemporary(w)
  PROVE  ConfigurationInv'
  <1>1. Types'
    BY DocumentIsContent
    DEF ConfigurationInv, Types, OpenTemporary, Truncated, Goto, Phases
  <1>2. WorkerOK(w)'
    BY DEF ConfigurationInv, Types, WorkerOK, OpenTemporary, Goto, After, Activated
  <1>. QED
    BY <1>1, <1>2, OwnStep DEF ConfigurationInv, Types, OpenTemporary, Goto

(* A save that replaces a document, by a rename or by writing to a file    *)
(* that another save has renamed.                                          *)
LEMMA SaveInv ==
  ASSUME ConfigurationInv, NEW w \in Workers, pc[w] \in After,
         directory' \in Directory, Activated', WholeIfActivated',
         Types', WorkerOK(w)', lock' = lock,
         \A v \in Workers \ {w} :
           pc'[v] = pc[v] /\ job'[v] = job[v] /\ draft'[v] = draft[v]
  PROVE  ConfigurationInv'
  <1>1. Activated
    BY DEF ConfigurationInv, WorkerOK
  <1>2. ASSUME NEW v \in Workers \ {w} PROVE WorkerOK(v)'
    BY <1>1 DEF ConfigurationInv, WorkerOK
  <1>. QED
    BY <1>2 DEF ConfigurationInv

LEMMA WriteChanges ==
  ASSUME ConfigurationInv, NEW w \in Workers, WriteTemporary(w)
  PROVE  /\ directory \in Directory /\ Activated /\ SavedPool(w) \in Pools
         /\ temporary' \in [Pools -> Content]
         /\ \/ directory' = directory
            \/ \E content \in Content \ {Missing} :
                 directory' =
                   [directory EXCEPT !.documents[SavedPool(w)] = content]
  <1>1. /\ directory \in Directory /\ Activated
        /\ SavedPool(w) \in Pools /\ draft[w] \in Document
        /\ temporary \in [Pools -> Content]
    BY DEF ConfigurationInv, Types, WorkerOK, After, Activated, WriteTemporary,
           SavedPool
  <1>2. CASE handle[w] = "temporary" /\ directory' = directory
    <2>1. PICK content \in Overwritten(temporary[SavedPool(w)], draft[w]) :
            temporary' = [temporary EXCEPT ![SavedPool(w)] = content]
      BY <1>2 DEF WriteTemporary
    <2>. QED
      BY <1>1, <1>2, <2>1, OverwrittenIsWhole
  <1>3. CASE handle[w] = "pool" /\ temporary' = temporary
    <2>1. PICK content \in
               Overwritten(directory.documents[SavedPool(w)], draft[w]) :
            directory' = [directory EXCEPT !.documents[SavedPool(w)] = content]
      BY <1>3 DEF WriteTemporary
    <2>. QED
      BY <1>1, <1>3, <2>1, OverwrittenIsWhole
  <1>4. CASE UNCHANGED <<directory, temporary>>
    BY <1>1, <1>4
  <1>. QED
    BY <1>2, <1>3, <1>4 DEF WriteTemporary

LEMMA WriteInv ==
  ASSUME ConfigurationInv, NEW w \in Workers, WriteTemporary(w)
  PROVE  ConfigurationInv'
  <1>1. directory' \in Directory /\ Activated' /\ WholeIfActivated'
    <2>1. CASE directory' = directory
      BY <2>1, WriteChanges DEF ConfigurationInv, Activated, WholeIfActivated
    <2>2. CASE directory' # directory
      BY <2>2, WriteChanges, DocumentReplaced DEF ConfigurationInv
    <2>. QED
      BY <2>1, <2>2
  <1>2. Types'
    BY <1>1, WriteChanges DEF ConfigurationInv, Types, WriteTemporary, Goto, Phases
  <1>3. WorkerOK(w)' /\ pc[w] \in After
    BY <1>1 DEF ConfigurationInv, Types, WorkerOK, WriteTemporary, Goto, After
  <1>. QED
    BY <1>1, <1>2, <1>3, SaveInv DEF ConfigurationInv, Types, WriteTemporary, Goto

LEMMA RenameChanges ==
  ASSUME ConfigurationInv, NEW w \in Workers, Rename(w)
  PROVE  /\ directory \in Directory /\ Activated /\ SavedPool(w) \in Pools
         /\ \E content \in Content \ {Missing} :
              directory' = [directory EXCEPT !.documents[SavedPool(w)] = content]
  <1>1. /\ directory \in Directory /\ Activated /\ SavedPool(w) \in Pools
        /\ temporary[SavedPool(w)] \in Content \ {Missing}
    BY DEF ConfigurationInv, Types, WorkerOK, After, Activated, Rename, SavedPool
  <1>. QED
    BY <1>1 DEF Rename

LEMMA RenameInv ==
  ASSUME ConfigurationInv, NEW w \in Workers, Rename(w)
  PROVE  ConfigurationInv'
  <1>1. directory' \in Directory /\ Activated' /\ WholeIfActivated'
    BY RenameChanges, DocumentReplaced DEF ConfigurationInv
  <1>2. Types'
    <2>1. temporary' \in [Pools -> Content]
      BY DEF ConfigurationInv, Types, Rename, Content
    <2>. QED
      BY <1>1, <2>1 DEF ConfigurationInv, Types, Rename, Goto, Phases
  <1>3. WorkerOK(w)' /\ pc[w] \in After
    BY DEF ConfigurationInv, Types, WorkerOK, Rename, Goto, After
  <1>. QED
    BY <1>1, <1>2, <1>3, SaveInv DEF ConfigurationInv, Types, Rename, Goto

LEMMA ConfigurationInductive == Spec => []ConfigurationInv
  <1>1. Init => ConfigurationInv
    BY InitConfiguration
  <1>2. ConfigurationInv /\ [Next]_vars => ConfigurationInv'
    <2>1. ASSUME ConfigurationInv, NEW w \in Workers, Step(w)
          PROVE  ConfigurationInv'
      BY <2>1, BeginInv, LockInv, InspectInv, ClearInv, ActivateInv, PrepareInv,
         OpenInv, WriteInv, RenameInv, EndInv
      DEF Step
    <2>2. ConfigurationInv /\ UNCHANGED vars => ConfigurationInv'
      BY DEF vars, ConfigurationInv, Types, WholeIfActivated, WorkerOK, Activated
    <2>. QED
      BY <2>1, <2>2 DEF Next
  <1>. QED
    BY <1>1, <1>2, PTL DEF Spec

(* Whoever went through ensure_factory_configuration_v2 finds an active    *)
(* configuration with every document, for any number of requests, pools    *)
(* and deaths.                                                             *)
THEOREM EnsuredConfigurationIsWhole == Spec => []EnsuredIsWhole
  <1>1. ConfigurationInv => EnsuredIsWhole
    BY DEF ConfigurationInv, WorkerOK, WholeIfActivated, After, EnsuredIsWhole
  <1>. QED
    BY <1>1, ConfigurationInductive, PTL

(* No migration undoes an activation or what was saved after it: an active *)
(* configuration stays active, and only a save of a pool changes it.       *)
THEOREM ActivationIsFinal == Spec => ActivatedForGood
  <1> DEFINE Kept ==
        Activated =>
          /\ Activated'
          /\ \A p \in Pools : directory'.documents[p] # directory.documents[p] =>
               \E w \in Workers : Saving(w, p)
  <1>1. ConfigurationInv /\ Next => Kept
    <2> SUFFICES ASSUME ConfigurationInv, Activated, NEW w \in Workers, Step(w)
                 PROVE  Kept
      BY DEF Next
    <2>1. CASE directory' = directory
      BY <2>1 DEF Activated
    <2>2. CASE WriteTemporary(w) /\ directory' # directory
      <3>1. Saving(w, SavedPool(w)) /\ Activated'
        BY <2>2, WriteChanges, DocumentReplaced
        DEF Saving, WriteTemporary, ConfigurationInv
      <3>2. \A q \in Pools \ {SavedPool(w)} :
              directory'.documents[q] = directory.documents[q]
        BY <2>2, WriteChanges, DocumentReplaced DEF ConfigurationInv
      <3>. QED
        BY <3>1, <3>2
    <2>3. CASE Rename(w)
      <3>1. Saving(w, SavedPool(w)) /\ Activated'
        BY <2>3, RenameChanges, DocumentReplaced
        DEF Saving, Rename, ConfigurationInv
      <3>2. \A q \in Pools \ {SavedPool(w)} :
              directory'.documents[q] = directory.documents[q]
        BY <2>3, RenameChanges, DocumentReplaced DEF ConfigurationInv
      <3>. QED
        BY <3>1, <3>2
    <2>4. ~Clear(w) /\ ~Activate(w)
      BY DEF ConfigurationInv, WorkerOK, Clear, Activate, Activated
    <2>. QED
      BY <2>1, <2>2, <2>3, <2>4
      DEF Step, Begin, Lock, Inspect, Prepare, OpenTemporary, End
  <1>2. UNCHANGED vars => Kept
    BY DEF vars, Activated
  <1>3. ConfigurationInv /\ [Next]_vars => [Kept]_vars
    BY <1>1, <1>2
  <1>. QED
    BY <1>3, ConfigurationInductive, PTL DEF Spec, ActivatedForGood

-----------------------------------------------------------------------------
(* Lone saves.  A save that has met no other of its pool is still the only *)
(* one, the pool is still as it found it, and what it has opened and       *)
(* written is its own.                                                     *)
Lone(w) ==
  LET p == SavedPool(w)
  IN  /\ Saving(w, p)
      /\ \A v \in Workers \ {w} : ~Saving(v, p)
      /\ draft[w] = Result(job[w], directory.documents[p])
      /\ pc[w] = "opened" => handle[w] = "temporary" /\ temporary[p] = Empty
      /\ pc[w] = "written" => temporary[p] = draft[w]

LoneInv ==
  /\ DOMAIN alone = Workers /\ DOMAIN handle = Workers
  /\ \A w \in Workers : alone[w] => Lone(w)

LEMMA SaverType ==
  ASSUME ConfigurationInv, NEW w \in Workers, NEW p, Saving(w, p)
  PROVE  /\ p \in Pools /\ p = SavedPool(w) /\ Activated
         /\ directory \in Directory /\ draft[w] \in Document
  BY DEF ConfigurationInv, Types, WorkerOK, Saving, SavedPool, After, Activated

(* A step of another worker, which neither joins nor touches the pool.     *)
LEMMA LoneKept ==
  ASSUME NEW w \in Workers, Lone(w), NEW v \in Workers \ {w},
         \A u \in Workers \ {v} :
           pc'[u] = pc[u] /\ job'[u] = job[u] /\ draft'[u] = draft[u],
         handle'[w] = handle[w],
         temporary'[SavedPool(w)] = temporary[SavedPool(w)],
         directory'.documents[SavedPool(w)] = directory.documents[SavedPool(w)],
         ~(pc'[v] \in {"prepared", "opened", "written"}
             /\ job'[v].pool = SavedPool(w))
  PROVE  Lone(w)'
  <1>1. pc'[w] = pc[w] /\ job'[w] = job[w] /\ draft'[w] = draft[w]
    OBVIOUS
  <1>2. SavedPool(w)' = SavedPool(w)
    BY <1>1 DEF SavedPool
  <1>3. ASSUME NEW u \in Workers \ {w} PROVE ~Saving(u, SavedPool(w))'
    BY <1>2 DEF Lone, Saving, SavedPool
  <1>4. Saving(w, SavedPool(w))'
    BY <1>1 DEF Lone, Saving, SavedPool
  <1>. QED
    BY <1>1, <1>2, <1>3, <1>4 DEF Lone

(* A step that makes no save, of a worker that is not saving.              *)
LEMMA LoneOutside ==
  ASSUME ConfigurationInv, LoneInv, NEW v \in Workers, NEW phase,
         Goto(v, phase), phase \notin {"prepared", "opened", "written"},
         pc[v] \notin {"prepared", "opened", "written"},
         UNCHANGED <<directory, temporary, draft, handle, alone>>,
         \A u \in Workers \ {v} : job'[u] = job[u]
  PROVE  LoneInv'
  <1>1. ASSUME NEW w \in Workers, alone'[w] PROVE Lone(w)'
    <2>1. Lone(w) /\ w # v
      BY <1>1 DEF LoneInv, Lone, Saving
    <2>2. /\ \A u \in Workers \ {v} : pc'[u] = pc[u]
          /\ pc'[v] = phase
      BY DEF ConfigurationInv, Types, Goto
    <2>. QED
      BY <2>1, <2>2, LoneKept
  <1>. QED
    BY <1>1 DEF LoneInv

LEMMA LonePrepare ==
  ASSUME ConfigurationInv, LoneInv, NEW v \in Workers, Prepare(v)
  PROVE  LoneInv'
  <1> DEFINE p == SavedPool(v)
             others == {u \in Workers \ {v} : Saving(u, p)}
  <1>1. /\ pc'[v] = "prepared" /\ job' = job
        /\ \A u \in Workers \ {v} : pc'[u] = pc[u] /\ draft'[u] = draft[u]
        /\ draft'[v] = Result(job[v], directory.documents[p])
        /\ UNCHANGED <<directory, temporary, handle>>
    BY DEF ConfigurationInv, Types, Prepare, Goto
  <1>2. alone' = [u \in Workers |-> IF u = v THEN others = {}
                                    ELSE alone[u] /\ u \notin others]
    BY DEF Prepare
  <1>3. ASSUME others = {} PROVE Lone(v)'
    <2>1. SavedPool(v)' = p /\ Saving(v, p)'
      BY <1>1 DEF SavedPool, Saving
    <2>2. \A u \in Workers \ {v} : ~Saving(u, p)'
      BY <1>1, <1>3 DEF SavedPool, Saving
    <2>. QED
      BY <1>1, <2>1, <2>2 DEF Lone, Saving, SavedPool
  <1>4. ASSUME NEW w \in Workers \ {v}, alone[w], w \notin others
        PROVE  Lone(w)'
    <2>1. Lone(w) /\ SavedPool(w) # p
      BY <1>4 DEF LoneInv, Lone, Saving
    <2>. QED
      BY <1>1, <2>1, LoneKept DEF SavedPool
  <1>. HIDE DEF others
  <1>. QED
    BY <1>2, <1>3, <1>4 DEF LoneInv, Prepare

(* What a save does to its own pool is nothing to a lone save of another.  *)
LEMMA LoneElsewhere ==
  ASSUME ConfigurationInv, LoneInv, NEW v \in Workers,
         Saving(v, SavedPool(v)), NEW w \in Workers \ {v}, Lone(w),
         \A u \in Workers \ {v} :
           pc'[u] = pc[u] /\ job'[u] = job[u] /\ draft'[u] = draft[u],
         handle'[w] = handle[w],
         pc'[v] \in {"opened", "written"} => job'[v] = job[v],
         pc'[v] # "prepared",
         \A q \in Pools \ {SavedPool(v)} :
           /\ temporary'[q] = temporary[q]
           /\ directory'.documents[q] = directory.documents[q]
  PROVE  Lone(w)'
  <1>1. SavedPool(w) \in Pools
    BY SaverType DEF Lone
  <1>2. SavedPool(w) # SavedPool(v)
    BY DEF Lone, Saving
  <1>. QED
    BY <1>1, <1>2, LoneKept DEF SavedPool

LEMMA LoneOpen ==
  ASSUME ConfigurationInv, LoneInv, NEW v \in Workers, OpenTemporary(v)
  PROVE  LoneInv'
  <1> DEFINE p == SavedPool(v)
  <1>1. Saving(v, p) /\ p \in Pools
    <2>1. Saving(v, p)
      BY DEF OpenTemporary, Saving
    <2>. QED
      BY <2>1, SaverType
  <1>2. /\ temporary' = [temporary EXCEPT ![p] = Empty]
        /\ handle' = [handle EXCEPT ![v] = "temporary"]
        /\ pc' = [pc EXCEPT ![v] = "opened"]
        /\ UNCHANGED <<directory, lock, job, draft, alone>>
    BY DEF OpenTemporary, Goto, Truncated
  <1>3. /\ temporary'[p] = Empty /\ handle'[v] = "temporary" /\ pc'[v] = "opened"
        /\ \A u \in Workers \ {v} : pc'[u] = pc[u] /\ handle'[u] = handle[u]
        /\ \A q \in Pools \ {p} : temporary'[q] = temporary[q]
    BY <1>1, <1>2 DEF ConfigurationInv, Types, LoneInv
  <1>4. ASSUME alone[v] PROVE Lone(v)'
    <2>1. Lone(v)
      BY <1>4 DEF LoneInv
    <2>2. SavedPool(v)' = p
      BY <1>2 DEF SavedPool
    <2>3. \A u \in Workers \ {v} : ~Saving(u, p)'
      BY <1>2, <1>3, <2>1 DEF Lone, Saving, SavedPool
    <2>4. Saving(v, p)'
      BY <1>3, <2>2 DEF Saving
    <2>. QED
      BY <1>2, <1>3, <2>1, <2>2, <2>3, <2>4 DEF Lone
  <1>5. ASSUME NEW w \in Workers \ {v}, alone[w] PROVE Lone(w)'
    BY <1>1, <1>2, <1>3, <1>5, LoneElsewhere DEF LoneInv
  <1>. QED
    BY <1>2, <1>4, <1>5 DEF LoneInv

(* A replaced document of a pool leaves those of the others.               *)
LEMMA OtherDocuments ==
  ASSUME ConfigurationInv, NEW p \in Pools, NEW content \in Content \ {Missing},
         Activated, directory \in Directory,
         directory' = [directory EXCEPT !.documents[p] = content]
  PROVE  \A q \in Pools \ {p} : directory'.documents[q] = directory.documents[q]
  BY DocumentReplaced DEF ConfigurationInv

LEMMA LoneWrite ==
  ASSUME ConfigurationInv, LoneInv, NEW v \in Workers, WriteTemporary(v)
  PROVE  LoneInv'
  <1> DEFINE p == SavedPool(v)
  <1>1. Saving(v, p) /\ p \in Pools
    BY WriteChanges DEF WriteTemporary, Saving
  <1>2. /\ handle' = [handle EXCEPT ![v] = None]
        /\ pc' = [pc EXCEPT ![v] = "written"]
        /\ UNCHANGED <<lock, job, draft, alone>>
    BY DEF WriteTemporary, Goto, Closed
  <1>3. /\ pc'[v] = "written"
        /\ \A u \in Workers \ {v} : pc'[u] = pc[u] /\ handle'[u] = handle[u]
    BY <1>2 DEF ConfigurationInv, Types, LoneInv
  <1>4. \A q \in Pools \ {p} :
          /\ temporary'[q] = temporary[q]
          /\ directory'.documents[q] = directory.documents[q]
    <2>1. \A q \in Pools \ {p} : temporary'[q] = temporary[q]
      BY DEF WriteTemporary, ConfigurationInv, Types
    <2>. QED
      BY <2>1, WriteChanges, OtherDocuments
  <1>5. ASSUME alone[v] PROVE Lone(v)'
    <2>1. Lone(v) /\ pc[v] = "opened"
      BY <1>5 DEF LoneInv, WriteTemporary
    <2>2. directory' = directory /\ temporary'[p] = draft[v]
      <3>1. /\ directory' = directory
            /\ \E content \in Overwritten(Empty, draft[v]) :
                 temporary' = [temporary EXCEPT ![p] = content]
        BY <2>1 DEF WriteTemporary, Lone
      <3>. QED
        BY <1>1, <3>1 DEF Overwritten, ConfigurationInv, Types
    <2>3. SavedPool(v)' = p
      BY <1>2 DEF SavedPool
    <2>4. \A u \in Workers \ {v} : ~Saving(u, p)'
      BY <1>2, <1>3, <2>1 DEF Lone, Saving, SavedPool
    <2>5. Saving(v, p)'
      BY <1>3, <2>3 DEF Saving
    <2>. QED
      BY <1>2, <1>3, <2>1, <2>2, <2>3, <2>4, <2>5 DEF Lone
  <1>6. ASSUME NEW w \in Workers \ {v}, alone[w] PROVE Lone(w)'
    BY <1>1, <1>2, <1>3, <1>4, <1>6, LoneElsewhere DEF LoneInv
  <1>. QED
    BY <1>2, <1>5, <1>6 DEF LoneInv

LEMMA LoneRename ==
  ASSUME ConfigurationInv, LoneInv, NEW v \in Workers, Rename(v)
  PROVE  LoneInv'
  <1> DEFINE p == SavedPool(v)
  <1>1. Saving(v, p) /\ p \in Pools
    BY RenameChanges DEF Rename, Saving
  <1>2. /\ handle' = [u \in Workers |-> Followed(u, p)]
        /\ pc' = [pc EXCEPT ![v] = "idle"] /\ job' = [job EXCEPT ![v] = None]
        /\ draft' = [draft EXCEPT ![v] = None]
        /\ alone' = [alone EXCEPT ![v] = FALSE]
    BY DEF Rename, Goto
  <1>3. /\ pc'[v] = "idle"
        /\ \A u \in Workers \ {v} :
             pc'[u] = pc[u] /\ job'[u] = job[u] /\ draft'[u] = draft[u]
    BY <1>2 DEF ConfigurationInv, Types
  <1>4. \A q \in Pools \ {p} :
          /\ temporary'[q] = temporary[q]
          /\ directory'.documents[q] = directory.documents[q]
    <2>1. \A q \in Pools \ {p} : temporary'[q] = temporary[q]
      BY DEF Rename, ConfigurationInv, Types
    <2>. QED
      BY <2>1, RenameChanges, OtherDocuments
  <1>5. ASSUME NEW w \in Workers \ {v}, alone[w] PROVE Lone(w)'
    <2>1. Lone(w) /\ SavedPool(w) # p
      BY <1>1, <1>5 DEF LoneInv, Lone
    <2>2. handle'[w] = handle[w]
      BY <1>2, <2>1 DEF Followed
    <2>. QED
      BY <1>1, <1>3, <1>4, <2>1, <2>2, LoneElsewhere
  <1>. QED
    BY <1>2, <1>5 DEF LoneInv

LEMMA LoneEnd ==
  ASSUME ConfigurationInv, LoneInv, NEW v \in Workers, End(v)
  PROVE  LoneInv'
  <1>1. /\ handle' = [handle EXCEPT ![v] = None]
        /\ alone' = [alone EXCEPT ![v] = FALSE]
        /\ pc'[v] = "idle" /\ UNCHANGED <<directory, temporary>>
        /\ \A u \in Workers \ {v} :
             pc'[u] = pc[u] /\ job'[u] = job[u] /\ draft'[u] = draft[u]
    BY DEF End, Finish, Goto, ConfigurationInv, Types
  <1>2. ASSUME NEW w \in Workers \ {v}, alone[w] PROVE Lone(w)'
    <2>1. Lone(w) /\ handle'[w] = handle[w]
      BY <1>1, <1>2 DEF LoneInv
    <2>. QED
      BY <1>1, <2>1, LoneKept
  <1>. QED
    BY <1>1, <1>2 DEF LoneInv

LEMMA StepLone ==
  ASSUME ConfigurationInv, LoneInv, NEW v \in Workers, Step(v)
  PROVE  LoneInv'
  <1>1. ASSUME NEW j \in Jobs, Begin(v, j) PROVE LoneInv'
    BY <1>1, LoneOutside DEF Begin, ConfigurationInv, Types
  <1>2. CASE Lock(v)
    BY <1>2, LoneOutside DEF Lock
  <1>3. CASE Inspect(v)
    <2>1. PICK phase \in {"ensured", "staged"} : Goto(v, phase)
      BY <1>3 DEF Inspect
    <2>. QED
      BY <1>3, <2>1, LoneOutside DEF Inspect
  <1>4. CASE Clear(v) \/ Activate(v)
    <2>1. ~Activated /\ alone' = alone /\ handle' = handle
      BY <1>4 DEF ConfigurationInv, WorkerOK, Clear, Activate
    <2>2. \A w \in Workers : ~alone[w]
      BY <2>1, SaverType DEF LoneInv, Lone
    <2>. QED
      BY <2>1, <2>2 DEF LoneInv
  <1>5. CASE Prepare(v)
    BY <1>5, LonePrepare
  <1>6. CASE OpenTemporary(v)
    BY <1>6, LoneOpen
  <1>7. CASE WriteTemporary(v)
    BY <1>7, LoneWrite
  <1>8. CASE Rename(v)
    BY <1>8, LoneRename
  <1>9. CASE End(v)
    BY <1>9, LoneEnd
  <1>. QED
    BY <1>1, <1>2, <1>3, <1>4, <1>5, <1>6, <1>7, <1>8, <1>9 DEF Step

(* A save of a pool that overlapped with no other of that pool leaves what *)
(* it meant to, though every save of the pool shares one temporary file    *)
(* and any number of them may have died over it.                           *)
THEOREM LoneSavesStayExact == Spec => LoneSavesAreExact
  <1> DEFINE Exact ==
        \A w \in Workers :
          Rename(w) /\ alone[w] =>
            directory'.documents[SavedPool(w)] =
              Result(job[w], directory.documents[SavedPool(w)])
  <1>1. Init => LoneInv
    BY DEF Init, LoneInv
  <1>2. ConfigurationInv /\ LoneInv /\ [Next]_vars => LoneInv'
    <2>1. ConfigurationInv /\ LoneInv /\ Next => LoneInv'
      BY StepLone DEF Next
    <2>2. LoneInv /\ UNCHANGED vars => LoneInv'
      BY DEF vars, LoneInv, Lone, Saving, SavedPool
    <2>. QED
      BY <2>1, <2>2
  <1>3. ConfigurationInv /\ LoneInv => Exact
    <2> SUFFICES ASSUME ConfigurationInv, LoneInv, NEW w \in Workers, Rename(w),
                        alone[w]
                 PROVE  directory'.documents[SavedPool(w)] =
                          Result(job[w], directory.documents[SavedPool(w)])
      OBVIOUS
    <2>1. /\ temporary[SavedPool(w)] = draft[w]
          /\ draft[w] = Result(job[w], directory.documents[SavedPool(w)])
      BY DEF LoneInv, Lone, Rename
    <2>2. directory \in Directory /\ SavedPool(w) \in Pools
      BY RenameChanges
    <2>3. directory'.documents[SavedPool(w)] = temporary[SavedPool(w)]
      BY <2>2 DEF Rename, Directory
    <2>. QED
      BY <2>1, <2>3
  <1>. QED
    BY <1>1, <1>2, <1>3, ConfigurationInductive, PTL DEF Spec, LoneSavesAreExact
=============================================================================
