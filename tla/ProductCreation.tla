-------------------------- MODULE ProductCreation --------------------------
(***************************************************************************)
(* The product tree of the factories: categories, subcategories and        *)
(* products are created under one lock, published file by file and         *)
(* withdrawn when the request fails; the hierarchy file is rebuilt from    *)
(* the tree under the same lock.  A product's page saves its bill of       *)
(* materials in place, without the lock, at the path the page was opened   *)
(* with.                                                                   *)
(*                                                                         *)
(* A target is a folder or a product with its place in the tree; targets   *)
(* of one parent whose names differ in case only have the same Fold.       *)
(***************************************************************************)
EXTENDS Naturals, FiniteSets

CONSTANTS
  Workers,         \* creation requests that may run at once
  Editors,         \* sessions with a product page
  Folders,         \* categories and subcategories
  Products,
  Root,            \* the factory's own folder, which nothing here removes
  ParentOf,        \* [Folders \cup Products -> Folders \cup {Root}]
  Fold,            \* the case-folded name of each target
  InitialFolders,  \* what exists when the model starts
  InitialProducts,
  MaxRequests,     \* bound on creation requests
  MaxFaults,       \* bound on failing system calls and dying processes
  None

Targets == Folders \cup Products
Contents == Editors \cup {"absent", "template", "needs", "empty", "torn"}

CreationAssumption ==
  /\ ParentOf \in [Targets -> Folders \cup {Root}] /\ Root \notin Targets
  /\ \A p \in Products : ParentOf[p] \in Folders
  /\ DOMAIN Fold = Targets /\ Folders \cap Products = {}
  /\ InitialFolders \subseteq Folders /\ InitialProducts \subseteq Products
  /\ \A t \in InitialFolders \cup InitialProducts :
       ParentOf[t] \in InitialFolders \cup {Root}
  /\ \A t, u \in InitialFolders \cup InitialProducts :
       ParentOf[t] = ParentOf[u] /\ Fold[t] = Fold[u] => t = u
  /\ Editors \cap {"absent", "template", "needs", "empty", "torn"} = {}
  /\ None \notin Workers \cup Targets
  /\ MaxRequests \in Nat /\ MaxFaults \in Nat
ASSUME CreationAssumption

VARIABLES
  folders,    \* the directories of the tree
  metadata,   \* the products with a file that holds their capacity
  bom,        \* what each product's bill of materials holds
  hierarchy,  \* the folders the hierarchy file lists
  lock,       \* the worker inside .product-creation.lock
  pc,         \* where each worker is
  target,     \* what it creates
  mine,       \* what it has published of it
  scan,       \* the tree as it read it for the hierarchy file
  session,    \* the product each editor's page was opened on
  edit,       \* where the editor's save is
  requests, faults,
  done,       \* history: targets answered as created
  residue,    \* history: targets a crash or a failed withdrawal left behind
  revived,    \* history: products brought back by a late save or a repair
  clashed     \* history: products whose saves overlapped or died

tree == <<folders, metadata, bom>>
creation == <<lock, pc, target, mine, scan, requests>>
editing == <<session, edit>>
history == <<done, residue, revived, clashed>>
vars == <<tree, hierarchy, creation, editing, faults, history>>

Siblings(t) == {u \in Targets : ParentOf[u] = ParentOf[t] /\ Fold[u] = Fold[t]}
Present(t) ==
  t \in folders \cup metadata \/ (t \in Products /\ bom[t] # "absent")

Init ==
  /\ folders = InitialFolders /\ metadata = InitialProducts
  /\ bom = [p \in Products |->
              IF p \in InitialProducts THEN "template" ELSE "absent"]
  /\ hierarchy = InitialFolders
  /\ lock = None /\ pc = [w \in Workers |-> "idle"]
  /\ target = [w \in Workers |-> None] /\ mine = [w \in Workers |-> {}]
  /\ scan = [w \in Workers |-> {}]
  /\ session = [e \in Editors |-> None] /\ edit = [e \in Editors |-> "idle"]
  /\ requests = 0 /\ faults = 0
  /\ done = {} /\ residue = {} /\ revived = {} /\ clashed = {}

Goto(w, phase) == pc' = [pc EXCEPT ![w] = phase]
Leave(w) ==
  /\ Goto(w, "idle") /\ target' = [target EXCEPT ![w] = None]
  /\ mine' = [mine EXCEPT ![w] = {}] /\ scan' = [scan EXCEPT ![w] = {}]
Incident == faults < MaxFaults /\ faults' = faults + 1

-----------------------------------------------------------------------------
(* One creation request.                                                   *)

(* _new: no entry of the parent, in any case, may have the name.           *)
NewFolderOrProduct(t) == \A u \in Siblings(t) : ~Present(u)
NewMetadata(t) == Siblings(t) \cap metadata = {}
NewBom(t) == \A u \in Siblings(t) \cap Products : bom[u] = "absent"

HasParent(t) == ParentOf[t] \in folders \cup {Root}
Creatable(t) == HasParent(t) /\ NewFolderOrProduct(t)

(* The preflight of create refuses before the lock is asked for.           *)
Request(w, t) ==
  /\ pc[w] = "idle" /\ requests < MaxRequests /\ requests' = requests + 1
  /\ Creatable(t)
  /\ target' = [target EXCEPT ![w] = t] /\ Goto(w, "waiting")
  /\ UNCHANGED <<tree, hierarchy, lock, mine, scan, editing, faults, history>>

TimeOut(w) ==
  /\ pc[w] = "waiting" /\ Leave(w)
  /\ UNCHANGED <<tree, hierarchy, lock, requests, editing, faults, history>>

(* Mutant: two workers may be inside.                                      *)
LockFree_Ignored == TRUE
LockFree == lock = None

(* Mutant: what was checked before the lock is not checked again.          *)
Recheck_Dropped(t) == HasParent(t)
Recheck(t) == Creatable(t)

Enter(w) ==
  /\ pc[w] = "waiting" /\ LockFree
  /\ IF Recheck(target[w])
       THEN /\ lock' = w
            /\ Goto(w, IF target[w] \in Folders THEN "making" ELSE "metadata")
            /\ UNCHANGED <<target, mine, scan>>
       ELSE Leave(w) /\ UNCHANGED lock
  /\ UNCHANGED <<tree, hierarchy, requests, editing, faults, history>>

Publish(w, part) == mine' = [mine EXCEPT ![w] = @ \cup {part}]

MakeFolder(w) ==
  /\ pc[w] = "making"
  /\ folders' = folders \cup {target[w]}
  /\ Publish(w, "folder") /\ Goto(w, "scanning")
  /\ UNCHANGED <<metadata, bom, hierarchy, lock, target, scan, requests, editing,
                 faults, history>>

(* Both files are staged by now; each is checked once more and renamed,    *)
(* the capacity first.                                                     *)
PublishMetadata(w) ==
  /\ pc[w] = "metadata"
  /\ IF NewMetadata(target[w])
       THEN /\ metadata' = metadata \cup {target[w]}
            /\ Publish(w, "metadata") /\ Goto(w, "bom")
       ELSE Goto(w, "withdrawing") /\ UNCHANGED <<metadata, mine>>
  /\ UNCHANGED <<folders, bom, hierarchy, lock, target, scan, requests, editing,
                 faults, history>>

PublishBom(w) ==
  /\ pc[w] = "bom"
  /\ IF NewBom(target[w])
       THEN /\ bom' = [bom EXCEPT ![target[w]] = "template"]
            /\ Publish(w, "bom") /\ Goto(w, "scanning")
       ELSE Goto(w, "withdrawing") /\ UNCHANGED <<bom, mine>>
  /\ UNCHANGED <<folders, metadata, hierarchy, lock, target, scan, requests,
                 editing, faults, history>>

(* directory_tracer reads the tree ...                                     *)
Scan(w) ==
  /\ pc[w] = "scanning" /\ Goto(w, "refreshing")
  /\ scan' = [scan EXCEPT ![w] = folders]
  /\ UNCHANGED <<tree, hierarchy, lock, target, mine, requests, editing, faults,
                 history>>

(* ... and renames a new hierarchy file into place.                        *)
(* Mutants: only the folder that was created is added; the factory itself  *)
(* is listed.                                                              *)
Refreshed_WithRoot(w) == scan[w] \cup {Root}
Refreshed_Adds(w) == hierarchy \cup ({target[w]} \cap Folders)
Refreshed(w) == scan[w]
Refresh(w) ==
  /\ pc[w] = "refreshing" /\ Goto(w, "created")
  /\ hierarchy' = Refreshed(w)
  /\ UNCHANGED <<tree, lock, target, mine, scan, requests, editing, faults,
                 history>>

(* A template that cannot be staged, a directory, a rename or a refresh    *)
(* that fails.                                                             *)
Raise(w) ==
  /\ pc[w] \in {"making", "metadata", "bom", "scanning", "refreshing"}
  /\ Incident /\ Goto(w, "withdrawing")
  /\ UNCHANGED <<tree, hierarchy, lock, target, mine, scan, requests, editing,
                 history>>

Unpublish(w, part) == mine' = [mine EXCEPT ![w] = @ \ {part}]

(* An unlinked file that an editor has open is written, but out of reach.  *)
WithdrawBom(w) ==
  /\ "bom" \in mine[w] /\ Unpublish(w, "bom")
  /\ bom' = [bom EXCEPT ![target[w]] = "absent"]
  /\ edit' = [e \in Editors |-> IF session[e] = target[w] /\ edit[e] = "writing"
                                  THEN "detached" ELSE edit[e]]
  /\ UNCHANGED <<folders, metadata>>

(* Mutant: the files go in the order in which they came.                   *)
WithdrawMetadata_First(w) ==
  /\ "metadata" \in mine[w] /\ Unpublish(w, "metadata")
  /\ metadata' = metadata \ {target[w]}
  /\ UNCHANGED <<folders, bom, edit>>
WithdrawMetadata(w) ==
  /\ mine[w] = {"metadata"} /\ Unpublish(w, "metadata")
  /\ metadata' = metadata \ {target[w]}
  /\ UNCHANGED <<folders, bom, edit>>

(* Mutant: a folder stays.                                                 *)
WithdrawFolder_Forgotten(w) ==
  mine[w] = {"folder"} /\ Unpublish(w, "folder") /\ UNCHANGED <<tree, edit>>
WithdrawFolder(w) ==
  /\ mine[w] = {"folder"} /\ Unpublish(w, "folder")
  /\ folders' = folders \ {target[w]}
  /\ UNCHANGED <<metadata, bom, edit>>

Withdraw(w) ==
  /\ pc[w] = "withdrawing"
  /\ WithdrawBom(w) \/ WithdrawMetadata(w) \/ WithdrawFolder(w)
  /\ UNCHANGED <<hierarchy, lock, pc, target, scan, requests, session, faults,
                 history>>

(* An unlink or rmdir that fails ends the withdrawal.                      *)
WithdrawFails(w) ==
  /\ pc[w] = "withdrawing" /\ mine[w] # {}
  /\ Incident /\ Goto(w, "failed")
  /\ residue' = residue \cup {target[w]}
  /\ UNCHANGED <<tree, hierarchy, lock, target, mine, scan, requests, editing,
                 done, revived, clashed>>

(* Mutant: only a creation that succeeds releases the lock.                *)
Over_Created(w) == pc[w] = "created"
Over(w) ==
  pc[w] \in {"created", "failed"} \/ (pc[w] = "withdrawing" /\ mine[w] = {})
Release(w) ==
  /\ Over(w) /\ lock' = None /\ Leave(w)
  /\ done' = IF pc[w] = "created" THEN done \cup {target[w]} ELSE done
  /\ UNCHANGED <<tree, hierarchy, requests, editing, faults, residue, revived,
                 clashed>>

(* The process dies and the system drops its lock.                         *)
Crash(w) ==
  /\ pc[w] # "idle" /\ Incident /\ Leave(w)
  /\ lock' = IF lock = w THEN None ELSE lock
  /\ residue' = IF mine[w] = {} THEN residue ELSE residue \cup {target[w]}
  /\ UNCHANGED <<tree, hierarchy, requests, editing, done, revived, clashed>>

-----------------------------------------------------------------------------
(* Bills of materials.                                                     *)

Readable == Editors \cup {"template", "needs"}

(* product_page keeps the path in the session.                             *)
OpenPage(e, p) ==
  /\ edit[e] = "idle" /\ bom[p] \in Readable
  /\ session' = [session EXCEPT ![e] = p]
  /\ UNCHANGED <<tree, hierarchy, creation, edit, faults, history>>

Writers(p) == {e \in Editors : session[e] = p /\ edit[e] = "writing"}

(* save_bom opens the path for writing: truncated, or made anew.           *)
(* Mutant: the file is opened without being truncated.                     *)
OpenBom_Update(e, p) ==
  IF bom[p] = "absent" THEN bom' = [bom EXCEPT ![p] = "empty"]
                       ELSE UNCHANGED bom
OpenBom(e, p) == bom' = [bom EXCEPT ![p] = "empty"]
StartSave(e) ==
  LET p == session[e] IN
  /\ edit[e] = "idle" /\ p # None
  /\ edit' = [edit EXCEPT ![e] = "writing"]
  /\ OpenBom(e, p)
  /\ revived' = IF bom[p] = "absent" THEN revived \cup {p} ELSE revived
  /\ clashed' = IF Writers(p) # {} THEN clashed \cup {p} ELSE clashed
  /\ UNCHANGED <<folders, metadata, hierarchy, creation, session, faults, done,
                 residue>>

(* What another editor wrote since is overwritten from the start, and its  *)
(* end may remain.                                                         *)
FinishSave(e) ==
  LET p == session[e] IN
  /\ edit[e] \in {"writing", "detached"} /\ edit' = [edit EXCEPT ![e] = "idle"]
  /\ IF edit[e] = "detached" THEN UNCHANGED bom
     ELSE \E result \in {e} \cup (IF bom[p] = "empty" THEN {} ELSE {"torn"}) :
            bom' = [bom EXCEPT ![p] = result]
  /\ UNCHANGED <<folders, metadata, hierarchy, creation, session, faults, history>>

SaveDies(e) ==
  LET p == session[e] IN
  /\ edit[e] = "writing" /\ Incident /\ edit' = [edit EXCEPT ![e] = "idle"]
  /\ bom' \in {bom, [bom EXCEPT ![p] = "torn"]}
  /\ clashed' = clashed \cup {p}
  /\ UNCHANGED <<folders, metadata, hierarchy, creation, session, done, residue,
                 revived>>

(* A cost request on a product that has its capacity and no BOM installs a *)
(* placeholder, whose rows have to be entered, and never replaces a file   *)
(* (CostRequest has the other sources of a calculation).                   *)
RepairBom(p) ==
  /\ p \in metadata /\ bom[p] = "absent"
  /\ bom' = [bom EXCEPT ![p] = "needs"]
  /\ revived' = IF \E w \in Workers : target[w] = p THEN revived \cup {p}
                                                     ELSE revived
  /\ UNCHANGED <<folders, metadata, hierarchy, creation, editing, faults, done,
                 residue, clashed>>

(* The dashboard's filters show the folders the hierarchy file lists under *)
(* folders it lists, and a product of the live catalogue in such a folder. *)
Listed(t) == t \in hierarchy /\ ParentOf[t] \in hierarchy \cup {Root}
Offered(p) == bom[p] # "absent" /\ Listed(ParentOf[p])

-----------------------------------------------------------------------------
Progress(w) ==
  \/ TimeOut(w) \/ Enter(w) \/ MakeFolder(w) \/ PublishMetadata(w)
  \/ PublishBom(w) \/ Scan(w) \/ Refresh(w) \/ Withdraw(w) \/ Release(w)

Next ==
  \/ \E w \in Workers :
       \/ \E t \in Targets : Request(w, t)
       \/ Progress(w) \/ Raise(w) \/ WithdrawFails(w) \/ Crash(w)
  \/ \E e \in Editors :
       \/ \E p \in Products : OpenPage(e, p)
       \/ StartSave(e) \/ FinishSave(e) \/ SaveDies(e)
  \/ \E p \in Products : RepairBom(p)

(* A request that was started is scheduled by its server.                  *)
Spec == Init /\ [][Next]_vars /\ \A w \in Workers : WF_vars(Progress(w))

-----------------------------------------------------------------------------
Inside == {w \in Workers : pc[w] \notin {"idle", "waiting"}}

TypeOK ==
  /\ folders \subseteq Folders /\ metadata \subseteq Products
  /\ bom \in [Products -> Contents] /\ hierarchy \subseteq Folders
  /\ lock \in Workers \cup {None}
  /\ pc \in [Workers -> {"idle", "waiting", "making", "metadata", "bom",
               "scanning", "refreshing", "withdrawing", "created", "failed"}]
  /\ target \in [Workers -> Targets \cup {None}]
  /\ mine \in [Workers -> SUBSET {"folder", "metadata", "bom"}]
  /\ scan \in [Workers -> SUBSET Folders]
  /\ session \in [Editors -> Products \cup {None}]
  /\ edit \in [Editors -> {"idle", "writing", "detached"}]
  /\ requests \in 0 .. MaxRequests /\ faults \in 0 .. MaxFaults
  /\ done \subseteq Targets /\ residue \subseteq Targets
  /\ revived \subseteq Products /\ clashed \subseteq Products

(* A bill of materials never appears without the product's capacity, not   *)
(* even after a crash between the two files or a withdrawal that fails     *)
(* half way (create publishes the BOM last and withdraws it first); only a *)
(* save from a page opened before a withdrawal brings one back alone, and  *)
(* a cost request that repairs the half of a creation under way.           *)
BomHasCapacity ==
  \A p \in Products \ revived : bom[p] # "absent" => p \in metadata

(* No two entries of a folder have names that differ in case only, however *)
(* requests for both interleave (_new is asked before and under the lock). *)
NoAliases ==
  \A t, u \in Targets \ revived :
    u \in Siblings(t) /\ Present(t) /\ Present(u) => t = u

(* The hierarchy file never lists a folder that is not there: a failed     *)
(* creation withdraws its folder before anybody else can have listed it.   *)
HierarchyExists == hierarchy \subseteq folders

(* What was answered as created stays, with its capacity, and is offered   *)
(* by the dashboard's filters (ProductHierarchyService.options), although  *)
(* every creation rewrites the hierarchy file from its own scan.           *)
CreatedIsOffered ==
  /\ \A t \in done \cap Folders : Listed(t)
  /\ \A p \in done \cap Products : p \in metadata /\ Offered(p)

(* Whatever exists was there before, was answered as created, belongs to   *)
(* the creation under way, or was left by a crash, a failed withdrawal, a  *)
(* late save or a repair: an ordinary failure compensates completely.      *)
FailureLeavesNothing ==
  \A t \in Targets : Present(t) =>
    \/ t \in InitialFolders \cup InitialProducts
    \/ t \in done \cup residue \cup revived
    \/ \E w \in Inside : lock = w /\ target[w] = t

(* A BOM is unreadable only while it is saved, or because two saves of it  *)
(* overlapped or one died: save_bom rewrites the file in place.            *)
SavedIsReadable ==
  \A p \in Products :
    bom[p] \in {"empty", "torn"} => Writers(p) # {} \/ p \in clashed

(* Every worker inside the lock leaves it, whatever fails.                 *)
LockIsReleased == \A w \in Workers : w \in Inside ~> w \notin Inside
=============================================================================
