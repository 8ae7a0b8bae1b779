----------------------- MODULE FactoryConfiguration -----------------------
(***************************************************************************)
(* The configuration/ directory of one factory.  Every request first makes *)
(* sure that it is there: under an inter-process lock, unless a completed  *)
(* manifest says so already, the directory is staged from the legacy files *)
(* and put in the place of whatever incomplete directory there is.  The    *)
(* cost pools are then read and saved without that lock: a save truncates  *)
(* and writes one temporary file per pool, shared by all saves of it, and  *)
(* renames it.                                                             *)
(***************************************************************************)
EXTENDS Integers

CONSTANTS
  Workers,      \* requests, startups and operators that may run at once
  Pools,        \* the documents that are saved one by one
  Items,        \* rows of a pool
  Costs,        \* what a row may cost
  Legacy,       \* what the legacy files give for each pool
  InitialDirectories,
  MaxRequests,  \* bound on all requests
  Missing,      \* no file, no directory
  Empty,        \* a truncated file
  Garbled,      \* two documents over each other
  None

Document == [Items -> Costs]
Content == Document \cup {Empty, Garbled, Missing}
Directory == [completed: BOOLEAN, documents: [Pools -> Content]]

(* What a request does once the directory is there: look (every GET, a     *)
(* startup, a calculation), save a pool, or change one item of it.         *)
Look == [kind |-> "look"]
Jobs ==
  {Look} \cup [kind: {"pool"}, pool: Pools, document: Document]
         \cup [kind: {"item"}, pool: Pools, item: Items, cost: Costs]

VARIABLES
  directory,  \* configuration/, with its manifest
  temporary,  \* <pool>.tmp
  lock,       \* the holder of .factory-configuration-v2.lock
  pc,         \* where each worker is
  job,        \* what it came for
  draft,      \* the document it is about to save
  handle,     \* where the file it opened for writing is by now
  alone,      \* history: no other save of the pool overlapped with its own
  requests    \* bounded by MaxRequests

vars == <<directory, temporary, lock, pc, job, draft, handle, alone, requests>>

Phases ==
  { "idle", "waiting", "locked", "staged",
    "ensured", "prepared", "opened", "written" }

ConfigurationAssumption ==
  /\ InitialDirectories \subseteq {Missing} \cup Directory
  /\ Legacy \in [Pools -> Document]
  /\ \A d \in InitialDirectories :
       d # Missing => ~d.completed \/ \A p \in Pools : d.documents[p] \in Document
  /\ Missing \notin Directory \cup Document
  /\ Missing \notin {Empty, Garbled}
  /\ {Empty, Garbled} \cap Document = {} /\ None \notin Document
  /\ None \notin Jobs /\ None \notin Workers
  /\ MaxRequests \in Nat
ASSUME ConfigurationAssumption

Init ==
  /\ directory \in InitialDirectories
  /\ temporary = [p \in Pools |-> Missing]
  /\ lock = None
  /\ pc = [w \in Workers |-> "idle"]
  /\ job = [w \in Workers |-> None]
  /\ draft = [w \in Workers |-> None]
  /\ handle = [w \in Workers |-> None]
  /\ alone = [w \in Workers |-> FALSE]
  /\ requests = 0

-----------------------------------------------------------------------------
(* Making sure of the configuration.                                       *)

Goto(w, phase) == pc' = [pc EXCEPT ![w] = phase]

Begin(w, j) ==
  /\ pc[w] = "idle" /\ requests < MaxRequests
  /\ requests' = requests + 1
  /\ job' = [job EXCEPT ![w] = j]
  /\ Goto(w, "waiting")
  /\ UNCHANGED <<directory, temporary, lock, draft, handle, alone>>

(* Mutant: the whole of the inspection and the migration is not locked.    *)
LockFree_Always == TRUE
LockFree == lock = None
Lock(w) ==
  /\ pc[w] = "waiting" /\ LockFree
  /\ lock' = w
  /\ Goto(w, "locked")
  /\ UNCHANGED <<directory, temporary, job, draft, handle, alone, requests>>

Release(w) == lock' = IF lock = w THEN None ELSE lock

(* Mutant: any directory counts as a configuration.                        *)
Activated_ByDirectory == directory # Missing
(* A completed manifest.                                                   *)
Activated == directory # Missing /\ directory.completed

(* With a completed manifest there is nothing to do.  Otherwise the legacy *)
(* files are read and a complete directory is staged, its manifest last.   *)
Inspect(w) ==
  /\ pc[w] = "locked"
  /\ IF Activated THEN Goto(w, "ensured") /\ Release(w)
                  ELSE Goto(w, "staged") /\ UNCHANGED lock
  /\ UNCHANGED <<directory, temporary, job, draft, handle, alone, requests>>

(* One step of rmtree on an incomplete directory, in any order.            *)
Clear(w) ==
  /\ pc[w] = "staged" /\ directory # Missing
  /\ \/ \E p \in Pools :
          /\ directory.documents[p] # Missing
          /\ directory' = [directory EXCEPT !.documents[p] = Missing]
     \/ /\ \A p \in Pools : directory.documents[p] = Missing
        /\ directory' = Missing
  /\ UNCHANGED <<temporary, lock, pc, job, draft, handle, alone, requests>>

Migrated == [completed |-> TRUE, documents |-> Legacy]

(* os.replace of the staged directory, and the lock is left.               *)
Activate(w) ==
  /\ pc[w] = "staged" /\ directory = Missing
  /\ directory' = Migrated
  /\ Goto(w, "ensured") /\ Release(w)
  /\ UNCHANGED <<temporary, job, draft, handle, alone, requests>>

-----------------------------------------------------------------------------
(* Using it.                                                               *)

SavedPool(w) == job[w].pool
Saving(w, p) ==
  pc[w] \in {"prepared", "opened", "written"} /\ SavedPool(w) = p

Finish(w) ==
  /\ Goto(w, "idle")
  /\ job' = [job EXCEPT ![w] = None]
  /\ draft' = [draft EXCEPT ![w] = None]
  /\ handle' = [handle EXCEPT ![w] = None]
  /\ alone' = [alone EXCEPT ![w] = FALSE]

(* The document a save means to leave, given the one it finds.             *)
Result(j, content) ==
  IF j.kind = "pool" THEN j.document ELSE [content EXCEPT ![j.item] = j.cost]

(* save_cost_item loads the whole pool and changes one item of it;         *)
(* save_cost_pool takes the document of the page.                          *)
Prepare(w) ==
  LET p == SavedPool(w)
      content == directory.documents[p]
      others == {v \in Workers \ {w} : Saving(v, p)}
  IN  /\ pc[w] = "ensured" /\ job[w] # Look
      /\ job[w].kind = "item" => content \in Document
      /\ draft' = [draft EXCEPT ![w] = Result(job[w], content)]
      /\ alone' = [v \in Workers |-> IF v = w THEN others = {}
                                     ELSE alone[v] /\ v \notin others]
      /\ Goto(w, "prepared")
      /\ UNCHANGED <<directory, temporary, lock, job, handle, requests>>

(* Mutant: what a save that died left in the file stays in it.             *)
Truncated_Appends(content) == IF content = Missing THEN Empty ELSE content
Truncated(content) == Empty

(* The temporary file is created, or truncated if there is one.            *)
OpenTemporary(w) ==
  /\ pc[w] = "prepared"
  /\ temporary' = [temporary EXCEPT ![SavedPool(w)] = Truncated(@)]
  /\ handle' = [handle EXCEPT ![w] = "temporary"]
  /\ Goto(w, "opened")
  /\ UNCHANGED <<directory, lock, job, draft, alone, requests>>

(* Over another document the shorter one leaves the end of the longer one. *)
Overwritten(content, document) ==
  IF content \in {Empty, document} THEN {document} ELSE {document, Garbled}

Closed(w) == handle' = [handle EXCEPT ![w] = None]

(* The bytes go to the file that was opened, which another save may have   *)
(* renamed, or replaced after that, in the meantime.                       *)
WriteTemporary(w) ==
  LET p == SavedPool(w)
  IN  /\ pc[w] = "opened"
      /\ \/ /\ handle[w] = "temporary"
            /\ \E content \in Overwritten(temporary[p], draft[w]) :
                 temporary' = [temporary EXCEPT ![p] = content]
            /\ UNCHANGED directory
         \/ /\ handle[w] = "pool"
            /\ \E content \in Overwritten(directory.documents[p], draft[w]) :
                 directory' = [directory EXCEPT !.documents[p] = content]
            /\ UNCHANGED temporary
         \/ handle[w] = "replaced" /\ UNCHANGED <<directory, temporary>>
      /\ Closed(w)
      /\ Goto(w, "written")
      /\ UNCHANGED <<lock, job, draft, alone, requests>>

(* Where the open files of a pool are after its temporary file was renamed.*)
Followed(v, p) ==
  IF pc[v] # "opened" \/ SavedPool(v) # p THEN handle[v]
  ELSE IF handle[v] = "temporary" THEN "pool" ELSE "replaced"

Rename(w) ==
  LET p == SavedPool(w)
  IN  /\ pc[w] = "written" /\ temporary[p] # Missing
      /\ directory' = [directory EXCEPT !.documents[p] = temporary[p]]
      /\ temporary' = [temporary EXCEPT ![p] = Missing]
      /\ handle' = [v \in Workers |-> Followed(v, p)]
      /\ Goto(w, "idle")
      /\ job' = [job EXCEPT ![w] = None]
      /\ draft' = [draft EXCEPT ![w] = None]
      /\ alone' = [alone EXCEPT ![w] = FALSE]
      /\ UNCHANGED <<lock, requests>>

(* A request that looks is answered.  Any request may be refused, fail on  *)
(* input or output, on the lock's deadline or on a temporary file another  *)
(* save took away, or die: it leaves its temporary file and no lock.       *)
End(w) ==
  /\ pc[w] # "idle"
  /\ Finish(w) /\ Release(w)
  /\ UNCHANGED <<directory, temporary, requests>>

-----------------------------------------------------------------------------
Step(w) ==
  \/ \E j \in Jobs : Begin(w, j)
  \/ Lock(w) \/ Inspect(w) \/ Clear(w) \/ Activate(w)
  \/ Prepare(w) \/ OpenTemporary(w) \/ WriteTemporary(w) \/ Rename(w)
  \/ End(w)

Next == \E w \in Workers : Step(w)

Spec == Init /\ [][Next]_vars

-----------------------------------------------------------------------------
(* Properties.                                                             *)

(* Whoever went through ensure_factory_configuration_v2 finds every        *)
(* document, whatever died at which step of an earlier migration.          *)
EnsuredIsWhole ==
  \A w \in Workers : pc[w] \in {"ensured", "prepared", "opened", "written"} =>
    Activated /\ \A p \in Pools : directory.documents[p] # Missing

(* Once the configuration is activated no migration, however late its      *)
(* worker runs, takes it away or puts back what was saved since: only      *)
(* saves of a pool change it.                                              *)
ActivatedForGood ==
  [][Activated =>
       /\ Activated'
       /\ \A p \in Pools : directory'.documents[p] # directory.documents[p] =>
            \E w \in Workers : Saving(w, p)]_vars

(* A save that overlaps with no other save of its pool leaves exactly what *)
(* it should: the page's document, or the present one with one item        *)
(* changed, whatever saves died before it.                                 *)
LoneSavesAreExact ==
  [][\A w \in Workers :
       Rename(w) /\ alone[w] =>
         directory'.documents[SavedPool(w)] =
           Result(job[w], directory.documents[SavedPool(w)])]_vars
=============================================================================
