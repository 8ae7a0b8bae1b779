----------------------- MODULE ProductCreation_proofs -----------------------
(***************************************************************************)
(* Proofs about ProductCreation, for any tree, any number of requests and  *)
(* editors and any number of failures: the lock, the check under it and    *)
(* the order of publication and withdrawal keep the hierarchy file and the *)
(* capacity files true to the tree.                                        *)
(***************************************************************************)
EXTENDS ProductCreation, TLAPS

Mutex == \A w \in Inside : lock = w

(* What a worker's place and what it has published say of the tree.        *)
Place(w) ==
  /\ pc[w] # "idle" => target[w] \in Targets
  /\ pc[w] = "making" => target[w] \in Folders \ folders
  /\ pc[w] \in {"metadata", "bom"} => target[w] \in Products
  /\ pc[w] = "bom" => mine[w] = {"metadata"} /\ target[w] \in metadata
  /\ pc[w] = "refreshing" => scan[w] \subseteq folders
Published(w) ==
  /\ pc[w] \in {"idle", "waiting", "making", "metadata"} => mine[w] = {}
  /\ "folder" \in mine[w] =>
       target[w] \in Folders /\ (pc[w] # "created" => target[w] \notin hierarchy)
  /\ "metadata" \in mine[w] \/ "bom" \in mine[w] => target[w] \in Products
  /\ "metadata" \in mine[w] /\ "bom" \notin mine[w] =>
       bom[target[w]] = "absent" \/ target[w] \in revived
Own(w) == Place(w) /\ Published(w)

(* A file that is being written is there.                                  *)
WriterOK(e) ==
  edit[e] = "writing" => session[e] \in Products /\ bom[session[e]] # "absent"

CreationInv ==
  /\ TypeOK /\ Mutex /\ HierarchyExists /\ BomHasCapacity
  /\ \A w \in Workers : Own(w)
  /\ \A e \in Editors : WriterOK(e)

-----------------------------------------------------------------------------
(* Facts about a state.                                                    *)

LEMMA OthersOutside ==
  ASSUME CreationInv, NEW w \in Workers, lock \in {w, None},
         NEW v \in Workers \ {w}
  PROVE  pc[v] \in {"idle", "waiting"} /\ mine[v] = {}
  <1>1. v # None
    BY CreationAssumption DEF CreationAssumption
  <1>2. pc[v] \in {"idle", "waiting"}
    BY <1>1 DEF CreationInv, Mutex, Inside
  <1>. QED
    BY <1>2 DEF CreationInv, Own, Published

LEMMA InsideHasLock ==
  ASSUME CreationInv, NEW w \in Workers, pc[w] \notin {"idle", "waiting"}
  PROVE  lock = w
  BY DEF CreationInv, Mutex, Inside

(* A step that leaves the tree and the hierarchy alone only has to answer  *)
(* for its own worker.                                                     *)
LEMMA QuietStep ==
  ASSUME CreationInv, NEW w \in Workers, UNCHANGED <<tree, hierarchy, revived>>,
         edit' = edit, session' = session,
         TypeOK', Own(w)', pc'[w] \notin {"idle", "waiting"} => lock' = w,
         \A v \in Workers \ {w} :
           /\ pc'[v] = pc[v] /\ target'[v] = target[v] /\ mine'[v] = mine[v]
           /\ scan'[v] = scan[v]
           /\ lock = v => lock' = v
  PROVE  CreationInv'
  <1>1. Mutex'
    BY DEF CreationInv, Mutex, Inside
  <1>2. HierarchyExists' /\ BomHasCapacity'
    BY DEF CreationInv, HierarchyExists, BomHasCapacity, tree
  <1>3. ASSUME NEW v \in Workers \ {w} PROVE Own(v)'
    BY DEF CreationInv, Own, Place, Published, tree
  <1>4. \A e \in Editors : WriterOK(e)'
    BY DEF CreationInv, WriterOK, tree
  <1>. QED
    BY <1>1, <1>2, <1>3, <1>4 DEF CreationInv

(* A worker inside the lock answers for the tree; nobody else is inside.   *)
LEMMA LockedStep ==
  ASSUME CreationInv, NEW w \in Workers, lock = w, lock' = lock,
         TypeOK', HierarchyExists', BomHasCapacity', Own(w)',
         \A e \in Editors : WriterOK(e)',
         \A v \in Workers \ {w} :
           pc'[v] = pc[v] /\ target'[v] = target[v] /\ mine'[v] = mine[v]
  PROVE  CreationInv'
  <1>1. \A v \in Workers \ {w} : pc'[v] \in {"idle", "waiting"} /\ mine'[v] = {}
    BY OthersOutside
  <1>2. Mutex'
    BY <1>1 DEF Mutex, Inside
  <1>3. ASSUME NEW v \in Workers \ {w} PROVE Own(v)'
    BY <1>1 DEF CreationInv, Own, Place, Published
  <1>. QED
    BY <1>2, <1>3 DEF CreationInv

-----------------------------------------------------------------------------
(* The steps.                                                              *)

LEMMA InitCreation == Init => CreationInv
  <1> SUFFICES ASSUME Init PROVE CreationInv
    OBVIOUS
  <1>1. TypeOK
    BY CreationAssumption DEF Init, TypeOK, CreationAssumption, Contents
  <1>2. Mutex
    BY DEF Init, Mutex, Inside
  <1>3. HierarchyExists /\ BomHasCapacity
    BY DEF Init, HierarchyExists, BomHasCapacity
  <1>4. \A w \in Workers : Own(w)
    BY DEF Init, Own, Place, Published
  <1>5. \A e \in Editors : WriterOK(e)
    BY DEF Init, WriterOK
  <1>. QED
    BY <1>1, <1>2, <1>3, <1>4, <1>5 DEF CreationInv

LEMMA RequestInv ==
  ASSUME CreationInv, NEW w \in Workers, NEW t \in Targets, Request(w, t)
  PROVE  CreationInv'
  <1>1. TypeOK'
    BY CreationAssumption
    DEF CreationAssumption, CreationInv, TypeOK, Request, Goto, tree, editing, history
  <1>2. Own(w)'
    BY DEF CreationInv, TypeOK, Request, Goto, Own, Place, Published
  <1>3. UNCHANGED <<tree, hierarchy, revived, lock, mine, scan, edit, session>>
    BY DEF Request, editing, history
  <1>4. \A v \in Workers \ {w} : pc'[v] = pc[v] /\ target'[v] = target[v]
    BY DEF CreationInv, TypeOK, Request, Goto
  <1>5. pc'[w] = "waiting"
    BY DEF CreationInv, TypeOK, Request, Goto
  <1>. QED
    BY <1>1, <1>2, <1>3, <1>4, <1>5, QuietStep

LEMMA LeaveFacts ==
  ASSUME TypeOK, NEW w \in Workers, Leave(w)
  PROVE  /\ pc' = [pc EXCEPT ![w] = "idle"] /\ pc'[w] = "idle" /\ mine'[w] = {}
         /\ target' = [target EXCEPT ![w] = None]
         /\ mine' = [mine EXCEPT ![w] = {}] /\ scan' = [scan EXCEPT ![w] = {}]
         /\ \A v \in Workers \ {w} :
              /\ pc'[v] = pc[v] /\ target'[v] = target[v]
              /\ mine'[v] = mine[v] /\ scan'[v] = scan[v]
  BY DEF TypeOK, Leave, Goto

LEMMA LeaveInv ==
  ASSUME CreationInv, NEW w \in Workers, Leave(w),
         UNCHANGED <<tree, hierarchy, revived, editing, requests, clashed>>,
         lock' \in {lock, None}, lock = w \/ lock' = lock,
         done' \subseteq Targets, residue' \subseteq Targets,
         faults' \in 0 .. MaxFaults
  PROVE  CreationInv'
  <1>. TypeOK
    BY DEF CreationInv
  <1>1. TypeOK'
    BY LeaveFacts DEF TypeOK, tree, editing
  <1>2. Own(w)'
    BY LeaveFacts DEF Own, Place, Published
  <1>3. \A v \in Workers \ {w} : lock = v => lock' = v
    OBVIOUS
  <1>. QED
    BY <1>1, <1>2, <1>3, LeaveFacts, QuietStep DEF editing

LEMMA TimeOutInv ==
  ASSUME CreationInv, NEW w \in Workers, TimeOut(w) PROVE CreationInv'
  <1>1. UNCHANGED <<tree, hierarchy, revived, editing, requests, clashed, lock,
                    done, residue, faults>> /\ Leave(w)
    BY DEF TimeOut, history
  <1>2. TypeOK
    BY DEF CreationInv
  <1>. QED
    BY <1>1, <1>2, LeaveInv DEF TypeOK

LEMMA ReleaseInv ==
  ASSUME CreationInv, NEW w \in Workers, Release(w) PROVE CreationInv'
  <1>1. UNCHANGED <<tree, hierarchy, revived, editing, requests, clashed,
                    residue, faults>> /\ Leave(w) /\ lock' = None
    BY DEF Release
  <1>2. lock = w
    BY InsideHasLock DEF Release, Over
  <1>3. pc[w] # "idle"
    BY DEF Release, Over
  <1>4. target[w] \in Targets /\ TypeOK
    BY <1>3 DEF CreationInv, Own, Place
  <1>5. done' \subseteq Targets
    BY <1>4 DEF Release, TypeOK
  <1>. QED
    BY <1>1, <1>2, <1>4, <1>5, LeaveInv DEF TypeOK

LEMMA CrashInv ==
  ASSUME CreationInv, NEW w \in Workers, Crash(w) PROVE CreationInv'
  <1>1. /\ UNCHANGED <<tree, hierarchy, revived, editing, requests, clashed, done>>
        /\ Leave(w) /\ lock' = IF lock = w THEN None ELSE lock
        /\ residue' \subseteq residue \cup {target[w]}
    BY DEF Crash
  <1>2. target[w] \in Targets /\ TypeOK
    BY DEF Crash, CreationInv, Own, Place
  <1>3. faults' \in 0 .. MaxFaults
    BY <1>2, CreationAssumption DEF Crash, Incident, TypeOK, CreationAssumption
  <1>4. residue' \subseteq Targets /\ done' \subseteq Targets
    BY <1>1, <1>2 DEF TypeOK
  <1>. QED
    BY <1>1, <1>3, <1>4, LeaveInv

(* What is free under the lock is not in the tree.                         *)
LEMMA CreatableIsAbsent ==
  ASSUME NEW t \in Targets, Creatable(t)
  PROVE  t \notin folders
  BY DEF Creatable, NewFolderOrProduct, Siblings, Present

LEMMA EnterInv ==
  ASSUME CreationInv, NEW w \in Workers, Enter(w) PROVE CreationInv'
  <1>1. CASE ~Recheck(target[w])
    <2>1. UNCHANGED <<tree, hierarchy, revived, editing, requests, clashed, lock,
                      done, residue, faults>> /\ Leave(w)
      BY <1>1 DEF Enter, history
    <2>2. TypeOK
      BY DEF CreationInv
    <2>. QED
      BY <2>1, <2>2, LeaveInv DEF TypeOK
  <1>2. CASE Recheck(target[w])
    <2>1. /\ pc[w] = "waiting" /\ lock = None /\ lock' = w
          /\ Goto(w, IF target[w] \in Folders THEN "making" ELSE "metadata")
          /\ UNCHANGED <<tree, hierarchy, requests, editing, faults, history,
                         target, mine, scan>>
      BY <1>2 DEF Enter, LockFree
    <2>2. target[w] \in Targets /\ TypeOK /\ mine[w] = {}
      BY <2>1 DEF CreationInv, Own, Place, Published
    <2>3. TypeOK'
      BY <2>1, <2>2 DEF TypeOK, Goto, tree, editing, history
    <2>4. target[w] \in Folders => target[w] \notin folders
      BY <1>2, <2>2, CreatableIsAbsent DEF Recheck
    <2>5. pc' = [pc EXCEPT ![w] =
                   IF target[w] \in Folders THEN "making" ELSE "metadata"]
      BY <2>1 DEF Goto
    <2>6. Own(w)'
      BY <2>1, <2>2, <2>4, <2>5 DEF TypeOK, Targets, Own, Place, Published, tree
    <2>7. \A v \in Workers \ {w} : lock # v /\ pc'[v] = pc[v]
      BY <2>1, <2>2, <2>5, CreationAssumption DEF CreationAssumption, TypeOK
    <2>. QED
      BY <2>1, <2>3, <2>6, <2>7, QuietStep DEF editing, history
  <1>. QED
    BY <1>1, <1>2

LEMMA MakeFolderInv ==
  ASSUME CreationInv, NEW w \in Workers, MakeFolder(w) PROVE CreationInv'
  <1>1. /\ pc[w] = "making" /\ folders' = folders \cup {target[w]}
        /\ mine' = [mine EXCEPT ![w] = @ \cup {"folder"}]
        /\ pc' = [pc EXCEPT ![w] = "scanning"]
        /\ UNCHANGED <<metadata, bom, hierarchy, lock, target, scan, requests,
                       editing, faults, history>>
    BY DEF MakeFolder, Publish, Goto
  <1>2. lock = w /\ TypeOK /\ target[w] \in Folders \ folders /\ mine[w] = {}
    BY <1>1, InsideHasLock DEF CreationInv, Own, Place, Published
  <1>3. TypeOK'
    BY <1>1, <1>2 DEF TypeOK, editing, history
  <1>4. HierarchyExists'
    BY <1>1 DEF CreationInv, HierarchyExists
  <1>5. BomHasCapacity' /\ \A e \in Editors : WriterOK(e)'
    BY <1>1 DEF CreationInv, BomHasCapacity, WriterOK, editing, history
  <1>6. mine'[w] = {"folder"} /\ pc'[w] = "scanning"
    BY <1>1, <1>2 DEF TypeOK
  <1>7. target[w] \notin hierarchy
    BY <1>2 DEF CreationInv, HierarchyExists
  <1>8. Own(w)'
    BY <1>1, <1>2, <1>6, <1>7 DEF Own, Place, Published, Targets
  <1>. QED
    BY <1>1, <1>2, <1>3, <1>4, <1>5, <1>8, LockedStep DEF TypeOK

LEMMA RaiseInv ==
  ASSUME CreationInv, NEW w \in Workers, Raise(w) PROVE CreationInv'
  <1>1. /\ pc[w] \notin {"idle", "waiting", "created"}
        /\ pc' = [pc EXCEPT ![w] = "withdrawing"]
        /\ UNCHANGED <<tree, hierarchy, lock, target, mine, scan, requests, editing,
                       history>>
    BY DEF Raise, Goto
  <1>2. lock = w /\ TypeOK
    BY <1>1, InsideHasLock DEF CreationInv
  <1>3. faults' \in 0 .. MaxFaults
    BY <1>2, CreationAssumption DEF Raise, Incident, TypeOK, CreationAssumption
  <1>4. TypeOK'
    BY <1>1, <1>2, <1>3 DEF TypeOK, tree, editing, history
  <1>5. pc'[w] = "withdrawing"
    BY <1>1, <1>2 DEF TypeOK
  <1>6. Own(w)'
    BY <1>1, <1>5 DEF CreationInv, Own, Place, Published, tree, history
  <1>7. HierarchyExists' /\ BomHasCapacity' /\ \A e \in Editors : WriterOK(e)'
    BY <1>1 DEF CreationInv, HierarchyExists, BomHasCapacity, WriterOK, tree,
                editing, history
  <1>. QED
    BY <1>1, <1>2, <1>4, <1>6, <1>7, LockedStep DEF TypeOK

LEMMA WithdrawFailsInv ==
  ASSUME CreationInv, NEW w \in Workers, WithdrawFails(w) PROVE CreationInv'
  <1>1. /\ pc[w] = "withdrawing" /\ pc' = [pc EXCEPT ![w] = "failed"]
        /\ residue' = residue \cup {target[w]}
        /\ UNCHANGED <<tree, hierarchy, lock, target, mine, scan, requests, editing,
                       done, revived, clashed>>
    BY DEF WithdrawFails, Goto
  <1>2. lock = w /\ TypeOK /\ target[w] \in Targets
    BY <1>1, InsideHasLock DEF CreationInv, Own, Place
  <1>3. faults' \in 0 .. MaxFaults
    BY <1>2, CreationAssumption
    DEF WithdrawFails, Incident, TypeOK, CreationAssumption
  <1>4. TypeOK'
    BY <1>1, <1>2, <1>3 DEF TypeOK, tree, editing
  <1>5. pc'[w] = "failed"
    BY <1>1, <1>2 DEF TypeOK
  <1>6. Own(w)'
    BY <1>1, <1>5 DEF CreationInv, Own, Place, Published, tree
  <1>7. HierarchyExists' /\ BomHasCapacity' /\ \A e \in Editors : WriterOK(e)'
    BY <1>1 DEF CreationInv, HierarchyExists, BomHasCapacity, WriterOK, tree, editing
  <1>. QED
    BY <1>1, <1>2, <1>4, <1>6, <1>7, LockedStep DEF TypeOK

LEMMA PublishMetadataInv ==
  ASSUME CreationInv, NEW w \in Workers, PublishMetadata(w) PROVE CreationInv'
  <1>1. /\ pc[w] = "metadata"
        /\ UNCHANGED <<folders, bom, hierarchy, lock, target, scan, requests,
                       editing, faults, history>>
    BY DEF PublishMetadata
  <1>2. lock = w /\ TypeOK /\ target[w] \in Products /\ mine[w] = {}
    BY <1>1, InsideHasLock DEF CreationInv, Own, Place, Published
  <1>3. HierarchyExists' /\ \A e \in Editors : WriterOK(e)'
    BY <1>1 DEF CreationInv, HierarchyExists, WriterOK, editing
  <1>4. \A v \in Workers \ {w} :
          pc'[v] = pc[v] /\ target'[v] = target[v] /\ mine'[v] = mine[v]
    BY <1>1, <1>2 DEF PublishMetadata, Goto, Publish, TypeOK
  <1>5. CASE NewMetadata(target[w])
    <2>1. /\ metadata' = metadata \cup {target[w]}
          /\ mine' = [mine EXCEPT ![w] = @ \cup {"metadata"}]
          /\ pc' = [pc EXCEPT ![w] = "bom"]
      BY <1>5 DEF PublishMetadata, Publish, Goto
    <2>2. TypeOK'
      BY <1>1, <1>2, <2>1 DEF TypeOK, editing, history
    <2>3. BomHasCapacity'
      BY <1>1, <2>1 DEF CreationInv, BomHasCapacity, history
    <2>4. bom[target[w]] = "absent" \/ target[w] \in revived
      <3>1. target[w] \notin metadata
        BY <1>2, <1>5 DEF NewMetadata, Siblings, Targets
      <3>. QED
        BY <1>2, <3>1 DEF CreationInv, BomHasCapacity
    <2>5. mine'[w] = {"metadata"} /\ pc'[w] = "bom" /\ target[w] \in metadata'
      BY <1>2, <2>1 DEF TypeOK
    <2>6. Own(w)'
      BY <1>1, <1>2, <2>4, <2>5 DEF Own, Place, Published, Targets, history
    <2>. QED
      BY <1>1, <1>2, <1>3, <1>4, <2>2, <2>3, <2>6, LockedStep
  <1>6. CASE ~NewMetadata(target[w])
    <2>1. /\ metadata' = metadata /\ mine' = mine
          /\ pc' = [pc EXCEPT ![w] = "withdrawing"]
      BY <1>6 DEF PublishMetadata, Goto
    <2>2. TypeOK'
      BY <1>1, <1>2, <2>1 DEF TypeOK, editing, history
    <2>3. BomHasCapacity'
      BY <1>1, <2>1 DEF CreationInv, BomHasCapacity, history
    <2>4. pc'[w] = "withdrawing" /\ mine'[w] = {}
      BY <1>2, <2>1 DEF TypeOK
    <2>5. Own(w)'
      BY <1>1, <1>2, <2>4 DEF Own, Place, Published, Targets
    <2>. QED
      BY <1>1, <1>2, <1>3, <1>4, <2>2, <2>3, <2>5, LockedStep
  <1>. QED
    BY <1>5, <1>6

LEMMA PublishBomInv ==
  ASSUME CreationInv, NEW w \in Workers, PublishBom(w) PROVE CreationInv'
  <1>1. /\ pc[w] = "bom"
        /\ UNCHANGED <<folders, metadata, hierarchy, lock, target, scan, requests,
                       editing, faults, history>>
    BY DEF PublishBom
  <1>2. /\ lock = w /\ TypeOK /\ target[w] \in Products
        /\ mine[w] = {"metadata"} /\ target[w] \in metadata
    BY <1>1, InsideHasLock DEF CreationInv, Own, Place, Published
  <1>3. HierarchyExists'
    BY <1>1 DEF CreationInv, HierarchyExists
  <1>4. \A v \in Workers \ {w} :
          pc'[v] = pc[v] /\ target'[v] = target[v] /\ mine'[v] = mine[v]
    BY <1>1, <1>2 DEF PublishBom, Goto, Publish, TypeOK
  <1>5. CASE NewBom(target[w])
    <2>1. /\ bom' = [bom EXCEPT ![target[w]] = "template"]
          /\ mine' = [mine EXCEPT ![w] = @ \cup {"bom"}]
          /\ pc' = [pc EXCEPT ![w] = "scanning"]
      BY <1>5 DEF PublishBom, Publish, Goto
    <2>2. TypeOK'
      BY <1>1, <1>2, <2>1 DEF TypeOK, Contents, editing, history
    <2>3. BomHasCapacity' /\ \A e \in Editors : WriterOK(e)'
      BY <1>1, <1>2, <2>1
      DEF CreationInv, TypeOK, BomHasCapacity, WriterOK, editing, history
    <2>4. mine'[w] = {"metadata", "bom"} /\ pc'[w] = "scanning"
      BY <1>2, <2>1 DEF TypeOK
    <2>5. Own(w)'
      BY <1>1, <1>2, <2>4 DEF Own, Place, Published, Targets
    <2>. QED
      BY <1>1, <1>2, <1>3, <1>4, <2>2, <2>3, <2>5, LockedStep
  <1>6. CASE ~NewBom(target[w])
    <2>1. /\ bom' = bom /\ mine' = mine /\ pc' = [pc EXCEPT ![w] = "withdrawing"]
      BY <1>6 DEF PublishBom, Goto
    <2>2. TypeOK'
      BY <1>1, <1>2, <2>1 DEF TypeOK, editing, history
    <2>3. BomHasCapacity' /\ \A e \in Editors : WriterOK(e)'
      BY <1>1, <2>1 DEF CreationInv, BomHasCapacity, WriterOK, editing, history
    <2>4. pc'[w] = "withdrawing"
      BY <1>2, <2>1 DEF TypeOK
    <2>5. Own(w)'
      BY <1>1, <1>2, <2>1, <2>4 DEF CreationInv, Own, Place, Published, history
    <2>. QED
      BY <1>1, <1>2, <1>3, <1>4, <2>2, <2>3, <2>5, LockedStep
  <1>. QED
    BY <1>5, <1>6

LEMMA ScanInv ==
  ASSUME CreationInv, NEW w \in Workers, Scan(w) PROVE CreationInv'
  <1>1. /\ pc[w] = "scanning" /\ pc' = [pc EXCEPT ![w] = "refreshing"]
        /\ scan' = [scan EXCEPT ![w] = folders]
        /\ UNCHANGED <<tree, hierarchy, lock, target, mine, requests, editing, faults,
                       history>>
    BY DEF Scan, Goto
  <1>2. lock = w /\ TypeOK
    BY <1>1, InsideHasLock DEF CreationInv
  <1>3. TypeOK'
    BY <1>1, <1>2 DEF TypeOK, tree, editing, history
  <1>4. pc'[w] = "refreshing" /\ scan'[w] = folders
    BY <1>1, <1>2 DEF TypeOK
  <1>5. Own(w)'
    BY <1>1, <1>4 DEF CreationInv, Own, Place, Published, tree, history
  <1>6. HierarchyExists' /\ BomHasCapacity' /\ \A e \in Editors : WriterOK(e)'
    BY <1>1 DEF CreationInv, HierarchyExists, BomHasCapacity, WriterOK, tree,
                editing, history
  <1>. QED
    BY <1>1, <1>2, <1>3, <1>5, <1>6, LockedStep DEF TypeOK

LEMMA RefreshInv ==
  ASSUME CreationInv, NEW w \in Workers, Refresh(w) PROVE CreationInv'
  <1>1. /\ pc[w] = "refreshing" /\ pc' = [pc EXCEPT ![w] = "created"]
        /\ hierarchy' = scan[w]
        /\ UNCHANGED <<tree, lock, target, mine, scan, requests, editing, faults,
                       history>>
    BY DEF Refresh, Refreshed, Goto
  <1>2. lock = w /\ TypeOK /\ scan[w] \subseteq folders
    BY <1>1, InsideHasLock DEF CreationInv, Own, Place
  <1>3. TypeOK'
    BY <1>1, <1>2 DEF TypeOK, tree, editing, history
  <1>4. pc'[w] = "created"
    BY <1>1, <1>2 DEF TypeOK
  <1>5. Own(w)'
    BY <1>1, <1>4 DEF CreationInv, Own, Place, Published, tree, history
  <1>6. HierarchyExists' /\ BomHasCapacity' /\ \A e \in Editors : WriterOK(e)'
    BY <1>1, <1>2 DEF CreationInv, HierarchyExists, BomHasCapacity, WriterOK, tree,
                      editing, history
  <1>. QED
    BY <1>1, <1>2, <1>3, <1>5, <1>6, LockedStep DEF TypeOK

LEMMA WithdrawInv ==
  ASSUME CreationInv, NEW w \in Workers, Withdraw(w) PROVE CreationInv'
  <1>1. /\ pc[w] = "withdrawing"
        /\ UNCHANGED <<hierarchy, lock, pc, target, scan, requests, session, faults,
                       history>>
    BY DEF Withdraw
  <1>2. lock = w /\ TypeOK
    BY <1>1, InsideHasLock DEF CreationInv
  <1>3. CASE WithdrawBom(w)
    <2>1. /\ "bom" \in mine[w] /\ mine' = [mine EXCEPT ![w] = @ \ {"bom"}]
          /\ bom' = [bom EXCEPT ![target[w]] = "absent"]
          /\ edit' = [e \in Editors |->
                        IF session[e] = target[w] /\ edit[e] = "writing"
                          THEN "detached" ELSE edit[e]]
          /\ UNCHANGED <<folders, metadata>>
      BY <1>3 DEF WithdrawBom, Unpublish
    <2>2. target[w] \in Products
      BY <2>1 DEF CreationInv, Own, Published
    <2>3. \A p \in Products :
            bom'[p] = IF p = target[w] THEN "absent" ELSE bom[p]
      BY <1>2, <2>1 DEF TypeOK
    <2>4. TypeOK'
      BY <1>1, <1>2, <2>1, <2>2 DEF TypeOK, Contents, history
    <2>5. HierarchyExists' /\ BomHasCapacity'
      BY <1>1, <2>1, <2>3 DEF CreationInv, HierarchyExists, BomHasCapacity, history
    <2>6. ASSUME NEW e \in Editors PROVE WriterOK(e)'
      BY <1>1, <1>2, <2>1, <2>3 DEF CreationInv, TypeOK, WriterOK
    <2>7. mine'[w] = mine[w] \ {"bom"}
      BY <1>2, <2>1 DEF TypeOK
    <2>8. Own(w)'
      BY <1>1, <2>1, <2>2, <2>3, <2>7 DEF CreationInv, Own, Place, Published, history
    <2>9. \A v \in Workers \ {w} : mine'[v] = mine[v]
      BY <1>2, <2>1 DEF TypeOK
    <2>. QED
      BY <1>1, <1>2, <2>4, <2>5, <2>6, <2>8, <2>9, LockedStep
  <1>4. CASE WithdrawMetadata(w)
    <2>1. /\ mine[w] = {"metadata"} /\ mine' = [mine EXCEPT ![w] = @ \ {"metadata"}]
          /\ metadata' = metadata \ {target[w]} /\ UNCHANGED <<folders, bom, edit>>
      BY <1>4 DEF WithdrawMetadata, Unpublish
    <2>2. bom[target[w]] = "absent" \/ target[w] \in revived
      BY <2>1 DEF CreationInv, Own, Published
    <2>3. TypeOK'
      BY <1>1, <1>2, <2>1 DEF TypeOK, history
    <2>4. HierarchyExists' /\ BomHasCapacity' /\ \A e \in Editors : WriterOK(e)'
      BY <1>1, <2>1, <2>2
      DEF CreationInv, HierarchyExists, BomHasCapacity, WriterOK, history
    <2>5. mine'[w] = {}
      BY <1>2, <2>1 DEF TypeOK
    <2>6. Own(w)'
      BY <1>1, <2>5 DEF CreationInv, Own, Place, Published
    <2>7. \A v \in Workers \ {w} : mine'[v] = mine[v]
      BY <1>2, <2>1 DEF TypeOK
    <2>. QED
      BY <1>1, <1>2, <2>3, <2>4, <2>6, <2>7, LockedStep
  <1>5. CASE WithdrawFolder(w)
    <2>1. /\ mine[w] = {"folder"} /\ mine' = [mine EXCEPT ![w] = @ \ {"folder"}]
          /\ folders' = folders \ {target[w]} /\ UNCHANGED <<metadata, bom, edit>>
      BY <1>5 DEF WithdrawFolder, Unpublish
    <2>2. target[w] \notin hierarchy
      BY <1>1, <2>1 DEF CreationInv, Own, Published
    <2>3. TypeOK'
      BY <1>1, <1>2, <2>1 DEF TypeOK, history
    <2>4. HierarchyExists' /\ BomHasCapacity' /\ \A e \in Editors : WriterOK(e)'
      BY <1>1, <2>1, <2>2
      DEF CreationInv, HierarchyExists, BomHasCapacity, WriterOK, history
    <2>5. mine'[w] = {}
      BY <1>2, <2>1 DEF TypeOK
    <2>6. Own(w)'
      BY <1>1, <2>5 DEF CreationInv, Own, Place, Published
    <2>7. \A v \in Workers \ {w} : mine'[v] = mine[v]
      BY <1>2, <2>1 DEF TypeOK
    <2>. QED
      BY <1>1, <1>2, <2>3, <2>4, <2>6, <2>7, LockedStep
  <1>. QED
    BY <1>3, <1>4, <1>5 DEF Withdraw

-----------------------------------------------------------------------------
(* Editors and repairs, which take no lock.                                *)

(* A step outside the lock may write bills of materials; one that appears  *)
(* is one that was there, is revived, or has its capacity.                 *)
LEMMA UnlockedStep ==
  ASSUME CreationInv, TypeOK',
         UNCHANGED <<folders, metadata, hierarchy, lock, pc, target, mine, scan>>,
         revived \subseteq revived',
         \A p \in Products \ revived' :
           bom[p] = "absent" /\ bom'[p] # "absent" =>
             p \in metadata /\ \A w \in Workers : target[w] # p,
         \A e \in Editors : WriterOK(e)'
  PROVE  CreationInv'
  <1>1. Mutex' /\ HierarchyExists'
    BY DEF CreationInv, Mutex, Inside, HierarchyExists
  <1>2. BomHasCapacity'
    BY DEF CreationInv, BomHasCapacity
  <1>3. ASSUME NEW w \in Workers PROVE Own(w)'
    <2>1. Place(w)'
      BY DEF CreationInv, Own, Place
    <2>2. Published(w)
      BY DEF CreationInv, Own
    <2>3. "metadata" \in mine[w] /\ "bom" \notin mine[w] =>
            bom'[target[w]] = "absent" \/ target[w] \in revived'
      BY <2>2 DEF Published
    <2>. QED
      BY <2>1, <2>2, <2>3 DEF Own, Published
  <1>. QED
    BY <1>1, <1>2, <1>3 DEF CreationInv

LEMMA OpenPageInv ==
  ASSUME CreationInv, NEW e \in Editors, NEW p \in Products, OpenPage(e, p)
  PROVE  CreationInv'
  <1>1. /\ edit[e] = "idle" /\ session' = [session EXCEPT ![e] = p]
        /\ UNCHANGED <<tree, hierarchy, creation, edit, faults, history>>
    BY DEF OpenPage
  <1>2. TypeOK'
    BY <1>1 DEF CreationInv, TypeOK, tree, creation, history
  <1>3. ASSUME NEW d \in Editors PROVE WriterOK(d)'
    BY <1>1 DEF CreationInv, TypeOK, WriterOK, tree
  <1>. QED
    BY <1>1, <1>2, <1>3, UnlockedStep DEF tree, creation, history

LEMMA StartSaveInv ==
  ASSUME CreationInv, NEW e \in Editors, StartSave(e) PROVE CreationInv'
  <1> DEFINE p == session[e]
  <1>1. /\ p # None /\ edit' = [edit EXCEPT ![e] = "writing"]
        /\ bom' = [bom EXCEPT ![p] = "empty"]
        /\ revived' = IF bom[p] = "absent" THEN revived \cup {p} ELSE revived
        /\ clashed' \subseteq clashed \cup {p}
        /\ UNCHANGED <<folders, metadata, hierarchy, creation, session, faults, done,
                       residue>>
    BY DEF StartSave, OpenBom
  <1>2. p \in Products /\ TypeOK
    BY <1>1 DEF CreationInv, TypeOK
  <1>3. TypeOK'
    BY <1>1, <1>2 DEF TypeOK, Contents, creation
  <1>4. \A q \in Products : bom'[q] = IF q = p THEN "empty" ELSE bom[q]
    BY <1>1, <1>2 DEF TypeOK
  <1>5. ASSUME NEW d \in Editors PROVE WriterOK(d)'
    BY <1>1, <1>2, <1>4 DEF CreationInv, TypeOK, WriterOK
  <1>. QED
    BY <1>1, <1>3, <1>4, <1>5, UnlockedStep DEF creation

(* Whoever has the file open leaves it in place.                           *)
LEMMA RewrittenInv ==
  ASSUME CreationInv, NEW e \in Editors, NEW p \in Products, p = session[e],
         bom[p] # "absent", NEW content \in Contents \ {"absent"},
         bom' = [bom EXCEPT ![p] = content],
         edit' = [edit EXCEPT ![e] = "idle"],
         faults' \in 0 .. MaxFaults, clashed' \subseteq Products,
         UNCHANGED <<folders, metadata, hierarchy, creation, session, done, residue,
                     revived>>
  PROVE  CreationInv'
  <1>1. TypeOK'
    BY DEF CreationInv, TypeOK, creation
  <1>2. \A q \in Products : bom'[q] = IF q = p THEN content ELSE bom[q]
    BY DEF CreationInv, TypeOK
  <1>3. ASSUME NEW d \in Editors PROVE WriterOK(d)'
    BY <1>2 DEF CreationInv, TypeOK, WriterOK
  <1>. QED
    BY <1>1, <1>2, <1>3, UnlockedStep DEF creation

LEMMA FinishSaveInv ==
  ASSUME CreationInv, NEW e \in Editors, FinishSave(e) PROVE CreationInv'
  <1>. TypeOK
    BY DEF CreationInv
  <1>1. /\ edit[e] \in {"writing", "detached"} /\ edit' = [edit EXCEPT ![e] = "idle"]
        /\ UNCHANGED <<folders, metadata, hierarchy, creation, session, faults,
                       history>>
    BY DEF FinishSave
  <1>2. CASE edit[e] = "detached"
    <2>1. bom' = bom
      BY <1>2 DEF FinishSave
    <2>2. TypeOK'
      BY <1>1, <2>1 DEF TypeOK, creation, history
    <2>3. ASSUME NEW d \in Editors PROVE WriterOK(d)'
      BY <1>1, <2>1 DEF CreationInv, TypeOK, WriterOK
    <2>. QED
      BY <1>1, <2>1, <2>2, <2>3, UnlockedStep DEF creation, history
  <1>3. CASE edit[e] = "writing"
    <2>1. PICK result \in {e, "torn"} : bom' = [bom EXCEPT ![session[e]] = result]
      BY <1>3 DEF FinishSave
    <2>2. result \in Contents \ {"absent"}
      BY CreationAssumption DEF CreationAssumption, Contents
    <2>3. session[e] \in Products /\ bom[session[e]] # "absent"
      BY <1>3 DEF CreationInv, WriterOK
    <2>4. faults' \in 0 .. MaxFaults /\ clashed' \subseteq Products
      BY <1>1 DEF TypeOK, history
    <2>. QED
      BY <1>1, <2>1, <2>2, <2>3, <2>4, RewrittenInv DEF history
  <1>. QED
    BY <1>1, <1>2, <1>3

LEMMA SaveDiesInv ==
  ASSUME CreationInv, NEW e \in Editors, SaveDies(e) PROVE CreationInv'
  <1> DEFINE p == session[e]
  <1>. TypeOK
    BY DEF CreationInv
  <1>1. /\ edit[e] = "writing" /\ edit' = [edit EXCEPT ![e] = "idle"]
        /\ bom' \in {bom, [bom EXCEPT ![p] = "torn"]}
        /\ clashed' = clashed \cup {p}
        /\ UNCHANGED <<folders, metadata, hierarchy, creation, session, done, residue,
                       revived>>
    BY DEF SaveDies
  <1>2. p \in Products /\ bom[p] # "absent"
    BY <1>1 DEF CreationInv, WriterOK
  <1>3. faults' \in 0 .. MaxFaults
    BY CreationAssumption DEF SaveDies, Incident, TypeOK, CreationAssumption
  <1>4. PICK content \in {bom[p], "torn"} : bom' = [bom EXCEPT ![p] = content]
    BY <1>1, <1>2 DEF TypeOK
  <1>5. content \in Contents \ {"absent"}
    BY <1>2 DEF TypeOK, Contents
  <1>6. clashed' \subseteq Products
    BY <1>1, <1>2 DEF TypeOK
  <1>. QED
    BY <1>1, <1>2, <1>3, <1>4, <1>5, <1>6, RewrittenInv

LEMMA RepairBomInv ==
  ASSUME CreationInv, NEW p \in Products, RepairBom(p) PROVE CreationInv'
  <1>. TypeOK
    BY DEF CreationInv
  <1>1. /\ p \in metadata /\ bom' = [bom EXCEPT ![p] = "needs"]
        /\ revived' = IF \E w \in Workers : target[w] = p THEN revived \cup {p}
                                                          ELSE revived
        /\ UNCHANGED <<folders, metadata, hierarchy, creation, editing, faults, done,
                       residue, clashed>>
    BY DEF RepairBom
  <1>2. TypeOK'
    BY <1>1 DEF TypeOK, Contents, creation, editing
  <1>3. \A q \in Products : bom'[q] = IF q = p THEN "needs" ELSE bom[q]
    BY <1>1 DEF TypeOK
  <1>4. ASSUME NEW d \in Editors PROVE WriterOK(d)'
    BY <1>1, <1>3 DEF CreationInv, WriterOK, editing
  <1>. QED
    BY <1>1, <1>2, <1>3, <1>4, UnlockedStep DEF creation

-----------------------------------------------------------------------------

LEMMA NextCreation == CreationInv /\ [Next]_vars => CreationInv'
  <1> SUFFICES ASSUME CreationInv, [Next]_vars PROVE CreationInv'
    OBVIOUS
  <1>1. ASSUME NEW w \in Workers, NEW t \in Targets, Request(w, t)
        PROVE  CreationInv'
    BY <1>1, RequestInv
  <1>2. ASSUME NEW w \in Workers, Progress(w) PROVE CreationInv'
    BY <1>2, TimeOutInv, EnterInv, MakeFolderInv, PublishMetadataInv, PublishBomInv,
       ScanInv, RefreshInv, WithdrawInv, ReleaseInv DEF Progress
  <1>3. ASSUME NEW w \in Workers, Raise(w) \/ WithdrawFails(w) \/ Crash(w)
        PROVE  CreationInv'
    BY <1>3, RaiseInv, WithdrawFailsInv, CrashInv
  <1>4. ASSUME NEW e \in Editors, NEW p \in Products, OpenPage(e, p)
        PROVE  CreationInv'
    BY <1>4, OpenPageInv
  <1>5. ASSUME NEW e \in Editors, StartSave(e) \/ FinishSave(e) \/ SaveDies(e)
        PROVE  CreationInv'
    BY <1>5, StartSaveInv, FinishSaveInv, SaveDiesInv
  <1>6. ASSUME NEW p \in Products, RepairBom(p) PROVE CreationInv'
    BY <1>6, RepairBomInv
  <1>7. CASE UNCHANGED vars
    BY <1>7 DEF CreationInv, TypeOK, Mutex, Inside, HierarchyExists, BomHasCapacity,
                Own, Place, Published, WriterOK, vars, tree, creation, editing,
                history
  <1>. QED
    BY <1>1, <1>2, <1>3, <1>4, <1>5, <1>6, <1>7 DEF Next

(* The inductive invariant of the product tree.                            *)
THEOREM CreationIsInductive == Spec => []CreationInv
  BY InitCreation, NextCreation, PTL DEF Spec

(* Every variable keeps its type (TypeOK), whatever fails or crashes.      *)
THEOREM CreationTypes == Spec => []TypeOK
  <1>1. CreationInv => TypeOK
    BY DEF CreationInv
  <1>. QED
    BY <1>1, CreationIsInductive, PTL

(* The hierarchy file never lists a folder that is not in the tree: the    *)
(* scan and the rename are one critical section with the creation.         *)
THEOREM HierarchyIsTrue == Spec => []HierarchyExists
  <1>1. CreationInv => HierarchyExists
    BY DEF CreationInv
  <1>. QED
    BY <1>1, CreationIsInductive, PTL

(* A bill of materials never appears without its product's capacity, for   *)
(* any number of crashes and failing withdrawals (create's two files).     *)
THEOREM BomNeedsCapacity == Spec => []BomHasCapacity
  <1>1. CreationInv => BomHasCapacity
    BY DEF CreationInv
  <1>. QED
    BY <1>1, CreationIsInductive, PTL

-----------------------------------------------------------------------------
(* Aliases, leftovers and what the filters offer.                          *)

(* Why a target may be there although no creation is under way.            *)
Explained(t) ==
  t \in InitialFolders \cup InitialProducts \/ t \in done \cup residue \cup revived

(* The names beside the target stay free until the target has its own.     *)
Alone(w) ==
  pc[w] \in {"making", "metadata", "bom"} =>
    \A u \in Siblings(target[w]) \ revived : Present(u) => u = target[w]

(* What is there of a target is what its creation published, and nothing   *)
(* lies in its folder.                                                     *)
OnlyMine(w) ==
  /\ w \in Inside /\ ~Explained(target[w]) =>
       /\ target[w] \in folders => "folder" \in mine[w]
       /\ target[w] \in metadata => "metadata" \in mine[w]
       /\ target[w] \in Products /\ bom[target[w]] # "absent" => "bom" \in mine[w]
  /\ "folder" \in mine[w] => \A t \in folders : ParentOf[t] # target[w]

(* What an answer would promise, as far as it is established.              *)
Shown(t) ==
  /\ t \in Folders => Listed(t)
  /\ t \in Products => t \in metadata /\ Offered(t)
Complete(t) ==
  /\ HasParent(t)
  /\ t \in Folders => t \in folders
  /\ t \in Products => t \in metadata /\ bom[t] # "absent"
Ready(w) ==
  /\ w \in Inside => target[w] \notin done
  /\ pc[w] \in {"making", "metadata", "bom"} => HasParent(target[w])
  /\ pc[w] \in {"scanning", "refreshing"} => Complete(target[w])
  /\ pc[w] = "refreshing" => scan[w] = folders
  /\ pc[w] = "created" => Shown(target[w])
  /\ pc[w] = "failed" => target[w] \in residue
Creating(w) == Alone(w) /\ OnlyMine(w) /\ Ready(w)

(* Every folder is in the factory or in a folder that is there.            *)
Closed == \A t \in folders : ParentOf[t] \in folders \cup {Root}

TreeInv ==
  /\ NoAliases /\ FailureLeavesNothing /\ CreatedIsOffered /\ Closed
  /\ \A w \in Workers : Creating(w)

LEMMA OutsideIsCreating ==
  ASSUME NEW v \in Workers, pc'[v] \in {"idle", "waiting"}, mine'[v] = {}
  PROVE  Creating(v)'
  BY DEF Creating, Alone, OnlyMine, Ready, Inside

LEMMA DoneIsPresent ==
  ASSUME CreationInv, TreeInv, NEW t \in done
  PROVE  Present(t)
  <1>1. t \in Targets
    BY DEF CreationInv, TypeOK
  <1>. QED
    BY <1>1 DEF TreeInv, CreatedIsOffered, Listed, CreationInv, HierarchyExists,
                Present, Targets

(* A step that touches neither the tree nor the hierarchy file.            *)
LEMMA QuietTree ==
  ASSUME CreationInv, CreationInv', TreeInv, NEW w \in Workers,
         UNCHANGED <<tree, hierarchy, revived>>,
         done \subseteq done', residue \subseteq residue',
         done' \subseteq done \cup {target[w]}, residue' \subseteq residue \cup {target[w]},
         target[w] \in done' \ done => Shown(target[w]),
         \A v \in Workers \ {w} :
           /\ pc'[v] = pc[v] /\ target'[v] = target[v] /\ mine'[v] = mine[v]
           /\ scan'[v] = scan[v] /\ (lock = v => lock' = v),
         \A v \in Workers \ {w} : v \in Inside => done' = done,
         Creating(w)',
         \A t : w \in Inside /\ t = target[w] /\ Present(t) =>
           Explained(t)' \/ (w \in Inside /\ lock = w /\ target[w] = t)'
  PROVE  TreeInv'
  <1>1. NoAliases' /\ Closed'
    BY DEF TreeInv, NoAliases, Closed, Siblings, Present, tree
  <1>2. FailureLeavesNothing'
    <2>1. SUFFICES ASSUME NEW t \in Targets, Present(t), ~Explained(t)'
                   PROVE  (\E v \in Inside : lock = v /\ target[v] = t)'
      BY DEF FailureLeavesNothing, Present, Explained, tree
    <2>2. ~Explained(t)
      BY <2>1 DEF Explained
    <2>3. PICK v \in Inside : lock = v /\ target[v] = t
      BY <2>1, <2>2 DEF TreeInv, FailureLeavesNothing, Explained
    <2>4. CASE v = w
      BY <2>1, <2>3, <2>4 DEF Inside
    <2>5. CASE v # w
      BY <2>3, <2>5 DEF Inside
    <2>. QED
      BY <2>4, <2>5
  <1>3. CreatedIsOffered'
    <2>1. \A t \in Targets : Shown(t)' <=> Shown(t)
      BY DEF Shown, Listed, Offered, tree
    <2>2. \A t \in done' : Shown(t)'
      BY <2>1 DEF TreeInv, CreatedIsOffered, Shown, Listed, Offered, tree
    <2>. QED
      BY <2>2 DEF CreatedIsOffered, Shown
  <1>4. ASSUME NEW v \in Workers \ {w} PROVE Creating(v)'
    <2>1. Creating(v)
      BY DEF TreeInv
    <2>2. Alone(v)'
      BY <2>1 DEF Creating, Alone, Siblings, Present, tree
    <2>3. OnlyMine(v)'
      BY <2>1 DEF Creating, OnlyMine, Inside, Explained, tree
    <2>4. Ready(v)'
      BY <2>1 DEF Creating, Ready, Inside, HasParent, Complete, Shown, Listed, Offered, tree
    <2>. QED
      BY <2>2, <2>3, <2>4 DEF Creating
  <1>. QED
    BY <1>1, <1>2, <1>3, <1>4 DEF TreeInv

(* A worker inside the lock writes the tree: nobody else is creating.      *)
LEMMA LockedTree ==
  ASSUME CreationInv, CreationInv', TreeInv, NEW w \in Workers, w \in Inside,
         lock' = lock, UNCHANGED <<target, done, residue, revived>>,
         pc'[w] \notin {"idle", "waiting"},
         \A v \in Workers \ {w} :
           pc'[v] = pc[v] /\ mine'[v] = mine[v] /\ scan'[v] = scan[v],
         NoAliases', CreatedIsOffered', Closed', Creating(w)',
         \A t \in Targets : Present(t)' => Present(t) \/ t = target[w]
  PROVE  TreeInv'
  <1>1. lock = w
    BY InsideHasLock DEF Inside
  <1>2. ASSUME NEW v \in Workers \ {w} PROVE Creating(v)'
    <2>1. pc[v] \in {"idle", "waiting"} /\ mine[v] = {}
      BY <1>1, OthersOutside
    <2>. QED
      BY <2>1, OutsideIsCreating
  <1>3. FailureLeavesNothing'
    <2>1. SUFFICES ASSUME NEW t \in Targets, Present(t)', ~Explained(t)
                   PROVE  (\E v \in Inside : lock = v /\ target[v] = t)'
      BY DEF FailureLeavesNothing, Explained
    <2>2. t = target[w]
      BY <1>1, <2>1 DEF TreeInv, FailureLeavesNothing, Explained
    <2>. QED
      BY <1>1, <2>2 DEF Inside
  <1>. QED
    BY <1>2, <1>3 DEF TreeInv

-----------------------------------------------------------------------------

LEMMA WaitTree ==
  ASSUME CreationInv, CreationInv', TreeInv, NEW w \in Workers,
         UNCHANGED <<tree, hierarchy, lock, history>>,
         pc[w] \in {"idle", "waiting"}, pc'[w] \in {"idle", "waiting"},
         \A v \in Workers \ {w} :
           /\ pc'[v] = pc[v] /\ target'[v] = target[v] /\ mine'[v] = mine[v]
           /\ scan'[v] = scan[v]
  PROVE  TreeInv'
  <1>1. mine'[w] = {}
    BY DEF CreationInv, Own, Published
  <1>2. Creating(w)'
    BY <1>1, OutsideIsCreating
  <1>3. w \notin Inside
    BY DEF Inside
  <1>. QED
    BY <1>2, <1>3, QuietTree DEF history

LEMMA RequestTree ==
  ASSUME CreationInv, CreationInv', TreeInv, NEW w \in Workers, NEW t \in Targets,
         Request(w, t)
  PROVE  TreeInv'
  <1>1. /\ UNCHANGED <<tree, hierarchy, lock, history>> /\ pc[w] = "idle"
        /\ pc'[w] = "waiting"
        /\ \A v \in Workers \ {w} :
             /\ pc'[v] = pc[v] /\ target'[v] = target[v] /\ mine'[v] = mine[v]
             /\ scan'[v] = scan[v]
    BY DEF CreationInv, TypeOK, Request, Goto
  <1>. QED
    BY <1>1, WaitTree

LEMMA TimeOutTree ==
  ASSUME CreationInv, CreationInv', TreeInv, NEW w \in Workers,
         pc[w] = "waiting", Leave(w), UNCHANGED <<tree, hierarchy, lock, history>>
  PROVE  TreeInv'
  <1>1. TypeOK
    BY DEF CreationInv
  <1>. QED
    BY <1>1, LeaveFacts, WaitTree

LEMMA EnterTree ==
  ASSUME CreationInv, CreationInv', TreeInv, NEW w \in Workers, Enter(w)
  PROVE  TreeInv'
  <1>1. /\ UNCHANGED <<tree, hierarchy, history>> /\ pc[w] = "waiting"
    BY DEF Enter
  <1>2. CASE ~Recheck(target[w])
    BY <1>1, <1>2, TimeOutTree DEF Enter
  <1>3. CASE Recheck(target[w])
    <2>1. /\ lock = None /\ lock' = w /\ UNCHANGED <<target, mine, scan>>
          /\ pc' = [pc EXCEPT ![w] =
                      IF target[w] \in Folders THEN "making" ELSE "metadata"]
      BY <1>3 DEF Enter, LockFree, Goto
    <2>2. target[w] \in Targets /\ mine[w] = {} /\ TypeOK
      BY <1>1 DEF CreationInv, Own, Place, Published
    <2>3. pc'[w] \in {"making", "metadata"} /\ \A v \in Workers \ {w} : pc'[v] = pc[v]
      BY <2>1, <2>2 DEF TypeOK
    <2>4. /\ HasParent(target[w])
          /\ \A u \in Siblings(target[w]) : ~Present(u)
          /\ target[w] \in Siblings(target[w])
      BY <1>3, <2>2 DEF Recheck, Creatable, NewFolderOrProduct, Siblings
    <2>5. ~Present(target[w]) /\ target[w] \notin done
      BY <2>4, DoneIsPresent
    <2>6. Alone(w)'
      BY <1>1, <2>1, <2>4 DEF Alone, Siblings, Present, tree
    <2>7. OnlyMine(w)'
      BY <1>1, <2>1, <2>2, <2>5 DEF OnlyMine, Present, tree
    <2>8. Ready(w)'
      BY <1>1, <2>1, <2>3, <2>4, <2>5 DEF Ready, HasParent, tree, history
    <2>9. \A v \in Workers \ {w} : lock # v
      BY <2>1, CreationAssumption DEF CreationAssumption
    <2>10. w \notin Inside
      BY <1>1 DEF Inside
    <2>. QED
      BY <1>1, <2>1, <2>3, <2>6, <2>7, <2>8, <2>9, <2>10, QuietTree DEF Creating, history
  <1>. QED
    BY <1>2, <1>3

LEMMA ScanTree ==
  ASSUME CreationInv, CreationInv', TreeInv, NEW w \in Workers, Scan(w)
  PROVE  TreeInv'
  <1>1. /\ pc[w] = "scanning" /\ pc' = [pc EXCEPT ![w] = "refreshing"]
        /\ scan' = [scan EXCEPT ![w] = folders]
        /\ UNCHANGED <<tree, hierarchy, lock, target, mine, history>>
    BY DEF Scan, Goto
  <1>2. /\ pc'[w] = "refreshing" /\ scan'[w] = folders
        /\ \A v \in Workers \ {w} : pc'[v] = pc[v] /\ scan'[v] = scan[v]
    BY <1>1 DEF CreationInv, TypeOK
  <1>3. Creating(w) /\ w \in Inside
    BY <1>1 DEF TreeInv, Inside
  <1>4. Alone(w)' /\ OnlyMine(w)'
    BY <1>1, <1>2, <1>3 DEF Creating, Alone, OnlyMine, Inside, Explained, tree, history
  <1>5. Ready(w)'
    BY <1>1, <1>2, <1>3 DEF Creating, Ready, Inside, Complete, HasParent, tree, history
  <1>6. w \in Inside' /\ (w \in Inside => lock = w)
    BY <1>2, InsideHasLock DEF Inside
  <1>. QED
    BY <1>1, <1>2, <1>4, <1>5, <1>6, QuietTree DEF Creating, history

LEMMA RaiseTree ==
  ASSUME CreationInv, CreationInv', TreeInv, NEW w \in Workers, Raise(w)
  PROVE  TreeInv'
  <1>1. /\ w \in Inside /\ pc' = [pc EXCEPT ![w] = "withdrawing"]
        /\ UNCHANGED <<tree, hierarchy, lock, target, mine, scan, history>>
    BY DEF Raise, Goto, Inside
  <1>2. /\ pc'[w] = "withdrawing" /\ \A v \in Workers \ {w} : pc'[v] = pc[v]
    BY <1>1 DEF CreationInv, TypeOK
  <1>3. Creating(w)
    BY DEF TreeInv
  <1>4. Alone(w)' /\ OnlyMine(w)' /\ Ready(w)'
    BY <1>1, <1>2, <1>3 DEF Creating, Alone, OnlyMine, Ready, Inside, Explained, tree, history
  <1>5. w \in Inside' /\ lock = w
    BY <1>1, <1>2, InsideHasLock DEF Inside
  <1>. QED
    BY <1>1, <1>2, <1>4, <1>5, QuietTree DEF Creating, history

LEMMA WithdrawFailsTree ==
  ASSUME CreationInv, CreationInv', TreeInv, NEW w \in Workers, WithdrawFails(w)
  PROVE  TreeInv'
  <1>1. /\ w \in Inside /\ pc' = [pc EXCEPT ![w] = "failed"]
        /\ residue' = residue \cup {target[w]}
        /\ UNCHANGED <<tree, hierarchy, lock, target, mine, scan, done, revived>>
    BY DEF WithdrawFails, Goto, Inside
  <1>2. /\ pc'[w] = "failed" /\ \A v \in Workers \ {w} : pc'[v] = pc[v]
    BY <1>1 DEF CreationInv, TypeOK
  <1>3. Creating(w)
    BY DEF TreeInv
  <1>4. Alone(w)' /\ OnlyMine(w)' /\ Ready(w)'
    BY <1>1, <1>2, <1>3 DEF Creating, Alone, OnlyMine, Ready, Inside, Explained, tree
  <1>5. w \in Inside' /\ lock = w
    BY <1>1, <1>2, InsideHasLock DEF Inside
  <1>. QED
    BY <1>1, <1>2, <1>4, <1>5, QuietTree DEF Creating

LEMMA ReleaseTree ==
  ASSUME CreationInv, CreationInv', TreeInv, NEW w \in Workers, Release(w)
  PROVE  TreeInv'
  <1>. TypeOK
    BY DEF CreationInv
  <1>1. /\ UNCHANGED <<tree, hierarchy, residue, revived>> /\ Leave(w) /\ lock' = None
        /\ done' = IF pc[w] = "created" THEN done \cup {target[w]} ELSE done
        /\ Over(w)
    BY DEF Release
  <1>2. w \in Inside /\ lock = w
    BY <1>1, InsideHasLock DEF Over, Inside
  <1>3. Creating(w)'
    BY <1>1, LeaveFacts, OutsideIsCreating
  <1>4. Creating(w)
    BY DEF TreeInv
  <1>5. target[w] \in done' \ done => Shown(target[w])
    BY <1>1, <1>4 DEF Creating, Ready
  <1>6. ASSUME NEW t, t = target[w], Present(t) PROVE Explained(t)'
    <2>1. CASE pc[w] = "created"
      BY <1>1, <1>6, <2>1 DEF Explained
    <2>2. CASE pc[w] = "failed"
      BY <1>1, <1>4, <1>6, <2>2 DEF Explained, Creating, Ready
    <2>3. CASE pc[w] = "withdrawing" /\ mine[w] = {}
      BY <1>1, <1>2, <1>4, <1>6, <2>3 DEF Creating, OnlyMine, Present, Explained
    <2>. QED
      BY <1>1, <2>1, <2>2, <2>3 DEF Over
  <1>7. \A v \in Workers \ {w} : v \notin Inside /\ lock # v
    BY <1>2, OthersOutside DEF Inside
  <1>. QED
    BY <1>1, <1>3, <1>5, <1>6, <1>7, LeaveFacts, QuietTree

LEMMA CrashTree ==
  ASSUME CreationInv, CreationInv', TreeInv, NEW w \in Workers, Crash(w)
  PROVE  TreeInv'
  <1>. TypeOK
    BY DEF CreationInv
  <1>1. /\ UNCHANGED <<tree, hierarchy, done, revived>> /\ Leave(w)
        /\ lock' = IF lock = w THEN None ELSE lock
        /\ residue' = IF mine[w] = {} THEN residue ELSE residue \cup {target[w]}
    BY DEF Crash
  <1>2. Creating(w)'
    BY <1>1, LeaveFacts, OutsideIsCreating
  <1>3. ASSUME w \in Inside, NEW t, t = target[w], Present(t) PROVE Explained(t)'
    <2>1. Creating(w)
      BY DEF TreeInv
    <2>. QED
      BY <1>1, <1>3, <2>1 DEF Creating, OnlyMine, Present, Explained
  <1>. QED
    BY <1>1, <1>2, <1>3, LeaveFacts, QuietTree

-----------------------------------------------------------------------------

LEMMA MakeFolderTree ==
  ASSUME CreationInv, CreationInv', TreeInv, NEW w \in Workers, MakeFolder(w)
  PROVE  TreeInv'
  <1> DEFINE t == target[w]
  <1>1. /\ pc[w] = "making" /\ folders' = folders \cup {t}
        /\ mine' = [mine EXCEPT ![w] = @ \cup {"folder"}]
        /\ pc' = [pc EXCEPT ![w] = "scanning"]
        /\ UNCHANGED <<metadata, bom, hierarchy, lock, target, scan, history>>
    BY DEF MakeFolder, Publish, Goto
  <1>2. /\ mine'[w] = mine[w] \cup {"folder"} /\ pc'[w] = "scanning" /\ mine[w] = {}
        /\ \A v \in Workers \ {w} : pc'[v] = pc[v] /\ mine'[v] = mine[v]
    BY <1>1 DEF CreationInv, TypeOK, Own, Published
  <1>3. w \in Inside /\ Creating(w) /\ t \in Folders \ folders /\ t \notin Products
    BY <1>1, CreationAssumption DEF Inside, TreeInv, CreationInv, Own, Place, CreationAssumption
  <1>5. HasParent(t) /\ t \notin done
    BY <1>1, <1>3 DEF Creating, Ready
  <1>6. \A u \in Targets : Present(u)' <=> Present(u) \/ u = t
    BY <1>1 DEF Present
  <1>7. NoAliases'
    <2>1. \A u \in Siblings(t) \ revived : Present(u) => u = t
      BY <1>1, <1>3 DEF Creating, Alone
    <2>2. SUFFICES ASSUME NEW a \in Targets \ revived, NEW b \in Targets \ revived,
                          b \in Siblings(a), Present(a)', Present(b)'
                   PROVE  a = b
      BY <1>1 DEF NoAliases, Siblings, history
    <2>3. CASE a = t
      BY <1>6, <2>1, <2>2, <2>3
    <2>4. CASE b = t
      <3>1. a \in Siblings(t)
        BY <2>2, <2>4 DEF Siblings
      <3>. QED
        BY <1>6, <2>1, <2>2, <2>4, <3>1
    <2>5. CASE a # t /\ b # t
      BY <1>6, <2>2, <2>5 DEF TreeInv, NoAliases
    <2>. QED
      BY <2>3, <2>4, <2>5
  <1>8. CreatedIsOffered'
    BY <1>1 DEF TreeInv, CreatedIsOffered, Listed, Offered, history
  <1>9. Closed' /\ \A a \in folders' : ParentOf[a] # t
    <2>1. t # Root
      BY <1>3, CreationAssumption DEF CreationAssumption, Targets
    <2>. QED
      BY <1>1, <1>3, <1>5, <2>1 DEF TreeInv, Closed, HasParent
  <1>10. Creating(w)'
    <2>1. OnlyMine(w)'
      BY <1>1, <1>2, <1>3, <1>9 DEF Creating, OnlyMine, Inside, Explained, history
    <2>2. Alone(w)' /\ Ready(w)'
      BY <1>1, <1>2, <1>3, <1>5 DEF Alone, Ready, Complete, HasParent, history
    <2>. QED
      BY <2>1, <2>2 DEF Creating
  <1>. QED
    BY <1>1, <1>2, <1>3, <1>6, <1>7, <1>8, <1>9, <1>10, LockedTree DEF history

LEMMA PublishMetadataTree ==
  ASSUME CreationInv, CreationInv', TreeInv, NEW w \in Workers, PublishMetadata(w)
  PROVE  TreeInv'
  <1> DEFINE t == target[w]
  <1>1. /\ pc[w] = "metadata"
        /\ UNCHANGED <<folders, bom, hierarchy, lock, target, scan, history>>
    BY DEF PublishMetadata
  <1>2. /\ w \in Inside /\ Creating(w) /\ t \in Products /\ t \notin Folders
        /\ t \notin done /\ HasParent(t) /\ mine[w] = {}
    BY <1>1, CreationAssumption
    DEF Inside, TreeInv, Creating, Ready, CreationInv, Own, Place, Published,
        CreationAssumption
  <1>3. \A u \in Siblings(t) \ revived : Present(u) => u = t
    BY <1>1, <1>2 DEF Creating, Alone
  <1>4. CASE NewMetadata(t)
    <2>1. /\ metadata' = metadata \cup {t}
          /\ mine' = [mine EXCEPT ![w] = @ \cup {"metadata"}]
          /\ pc' = [pc EXCEPT ![w] = "bom"]
      BY <1>4 DEF PublishMetadata, Publish, Goto
    <2>2. /\ mine'[w] = mine[w] \cup {"metadata"} /\ pc'[w] = "bom"
          /\ \A v \in Workers \ {w} : pc'[v] = pc[v] /\ mine'[v] = mine[v]
      BY <2>1 DEF CreationInv, TypeOK
    <2>3. \A u \in Targets : Present(u)' <=> Present(u) \/ u = t
      BY <1>1, <2>1 DEF Present
    <2>4. NoAliases'
      <3>1. SUFFICES ASSUME NEW a \in Targets \ revived, NEW b \in Targets \ revived,
                            b \in Siblings(a), Present(a)', Present(b)'
                     PROVE  a = b
        BY <1>1 DEF NoAliases, Siblings, history
      <3>2. CASE a = t
        BY <1>3, <2>3, <3>1, <3>2
      <3>3. CASE b = t
        <4>1. a \in Siblings(t)
          BY <3>1, <3>3 DEF Siblings
        <4>. QED
          BY <1>3, <2>3, <3>1, <3>3, <4>1
      <3>4. CASE a # t /\ b # t
        BY <2>3, <3>1, <3>4 DEF TreeInv, NoAliases
      <3>. QED
        BY <3>2, <3>3, <3>4
    <2>5. CreatedIsOffered' /\ Closed'
      BY <1>1, <2>1 DEF TreeInv, CreatedIsOffered, Closed, Listed, Offered, history
    <2>6. Alone(w)'
      <3>1. \A u \in Siblings(t) \ revived : Present(u)' => u = t
        BY <1>3, <2>3 DEF Siblings
      <3>. QED
        BY <1>1, <3>1 DEF Alone, Siblings, history
    <2>7. OnlyMine(w)'
      BY <1>1, <1>2, <2>1, <2>2 DEF Creating, OnlyMine, Inside, Explained, history
    <2>8. Ready(w)'
      BY <1>1, <1>2, <2>2 DEF Ready, HasParent, history
    <2>. QED
      BY <1>1, <1>2, <2>2, <2>3, <2>4, <2>5, <2>6, <2>7, <2>8, LockedTree
      DEF Creating, history
  <1>5. CASE ~NewMetadata(t)
    <2>1. /\ metadata' = metadata /\ mine' = mine
          /\ pc' = [pc EXCEPT ![w] = "withdrawing"]
      BY <1>5 DEF PublishMetadata, Goto
    <2>2. /\ pc'[w] = "withdrawing" /\ \A v \in Workers \ {w} : pc'[v] = pc[v]
      BY <2>1 DEF CreationInv, TypeOK
    <2>3. Creating(w)' /\ w \in Inside'
      BY <1>1, <1>2, <2>1, <2>2
      DEF Creating, Alone, OnlyMine, Ready, Inside, Explained, history
    <2>4. lock = w
      BY <1>2, InsideHasLock DEF Inside
    <2>. QED
      BY <1>1, <2>1, <2>2, <2>3, <2>4, QuietTree DEF tree, history
  <1>. QED
    BY <1>4, <1>5

LEMMA PublishBomTree ==
  ASSUME CreationInv, CreationInv', TreeInv, NEW w \in Workers, PublishBom(w)
  PROVE  TreeInv'
  <1> DEFINE t == target[w]
  <1>1. /\ pc[w] = "bom"
        /\ UNCHANGED <<folders, metadata, hierarchy, lock, target, scan, history>>
    BY DEF PublishBom
  <1>2. /\ w \in Inside /\ Creating(w) /\ t \in Products /\ t \notin Folders
        /\ t \notin done /\ HasParent(t) /\ mine[w] = {"metadata"} /\ t \in metadata
    BY <1>1, CreationAssumption
    DEF Inside, TreeInv, Creating, Ready, CreationInv, Own, Place, CreationAssumption
  <1>3. CASE NewBom(t)
    <2>1. /\ bom' = [bom EXCEPT ![t] = "template"]
          /\ mine' = [mine EXCEPT ![w] = @ \cup {"bom"}]
          /\ pc' = [pc EXCEPT ![w] = "scanning"]
      BY <1>3 DEF PublishBom, Publish, Goto
    <2>2. /\ mine'[w] = mine[w] \cup {"bom"} /\ pc'[w] = "scanning"
          /\ \A v \in Workers \ {w} : pc'[v] = pc[v] /\ mine'[v] = mine[v]
          /\ \A p \in Products : bom'[p] = IF p = t THEN "template" ELSE bom[p]
      BY <2>1 DEF CreationInv, TypeOK
    <2>3. \A u \in Targets : Present(u)' <=> Present(u)
      BY <1>1, <1>2, <2>2 DEF Present
    <2>4. NoAliases'
      BY <1>1, <2>3 DEF TreeInv, NoAliases, Siblings, history
    <2>5. CreatedIsOffered' /\ Closed'
      BY <1>1, <2>2 DEF TreeInv, CreatedIsOffered, Closed, Listed, Offered, history
    <2>6. OnlyMine(w)'
      BY <1>1, <1>2, <2>2 DEF Creating, OnlyMine, Inside, Explained, history
    <2>7. Alone(w)' /\ Ready(w)'
      BY <1>1, <1>2, <2>2 DEF Alone, Ready, Complete, HasParent, history
    <2>. QED
      BY <1>1, <1>2, <2>2, <2>3, <2>4, <2>5, <2>6, <2>7, LockedTree DEF Creating, history
  <1>4. CASE ~NewBom(t)
    <2>1. /\ bom' = bom /\ mine' = mine /\ pc' = [pc EXCEPT ![w] = "withdrawing"]
      BY <1>4 DEF PublishBom, Goto
    <2>2. /\ pc'[w] = "withdrawing" /\ \A v \in Workers \ {w} : pc'[v] = pc[v]
      BY <2>1 DEF CreationInv, TypeOK
    <2>3. Creating(w)' /\ w \in Inside'
      BY <1>1, <1>2, <2>1, <2>2
      DEF Creating, Alone, OnlyMine, Ready, Inside, Explained, history
    <2>4. lock = w
      BY <1>2, InsideHasLock DEF Inside
    <2>. QED
      BY <1>1, <2>1, <2>2, <2>3, <2>4, QuietTree DEF tree, history
  <1>. QED
    BY <1>3, <1>4

LEMMA RefreshTree ==
  ASSUME CreationInv, CreationInv', TreeInv, NEW w \in Workers, Refresh(w)
  PROVE  TreeInv'
  <1> DEFINE t == target[w]
  <1>1. /\ pc[w] = "refreshing" /\ pc' = [pc EXCEPT ![w] = "created"]
        /\ hierarchy' = scan[w]
        /\ UNCHANGED <<tree, lock, target, mine, scan, history>>
    BY DEF Refresh, Refreshed, Goto
  <1>2. /\ pc'[w] = "created" /\ \A v \in Workers \ {w} : pc'[v] = pc[v]
    BY <1>1 DEF CreationInv, TypeOK
  <1>3. /\ w \in Inside /\ Creating(w) /\ t \in Targets /\ t \notin done
        /\ Complete(t) /\ hierarchy' = folders
    BY <1>1 DEF Inside, TreeInv, Creating, Ready, CreationInv, Own, Place
  <1>4. \A f \in folders : Listed(f)'
    BY <1>3 DEF Listed, TreeInv, Closed
  <1>5. hierarchy \subseteq folders
    BY DEF CreationInv, HierarchyExists
  <1>6. CreatedIsOffered'
    BY <1>1, <1>4, <1>5 DEF TreeInv, CreatedIsOffered, Listed, Offered, tree, history
  <1>7. Shown(t)'
    <2>1. CASE t \in Folders
      BY <1>1, <1>3, <1>4, <2>1, CreationAssumption DEF CreationAssumption, Complete, Shown
    <2>2. CASE t \in Products
      <3>1. ParentOf[t] \in folders
        BY <1>3, <2>2, CreationAssumption
        DEF CreationAssumption, Complete, HasParent, Targets
      <3>. QED
        BY <1>1, <1>3, <1>4, <2>2, <3>1, CreationAssumption
        DEF CreationAssumption, Complete, Shown, Offered, tree
    <2>. QED
      BY <1>3, <2>1, <2>2 DEF Targets
  <1>8. NoAliases' /\ Closed' /\ \A u \in Targets : Present(u)' => Present(u)
    BY <1>1 DEF TreeInv, NoAliases, Closed, Siblings, Present, tree, history
  <1>9. OnlyMine(w)'
    BY <1>1, <1>3 DEF Creating, OnlyMine, Inside, Explained, tree, history
  <1>10. Alone(w)' /\ Ready(w)'
    BY <1>1, <1>2, <1>3, <1>7 DEF Alone, Ready, Shown, Listed, Offered, history
  <1>. QED
    BY <1>1, <1>2, <1>3, <1>6, <1>8, <1>9, <1>10, LockedTree DEF Creating, history

LEMMA WithdrawTree ==
  ASSUME CreationInv, CreationInv', TreeInv, NEW w \in Workers, Withdraw(w)
  PROVE  TreeInv'
  <1> DEFINE t == target[w]
  <1>1. /\ pc[w] = "withdrawing"
        /\ UNCHANGED <<hierarchy, lock, pc, target, scan, history>>
        /\ WithdrawBom(w) \/ WithdrawMetadata(w) \/ WithdrawFolder(w)
    BY DEF Withdraw
  <1>2. w \in Inside /\ Creating(w) /\ t \notin done
    BY <1>1 DEF Inside, TreeInv, Creating, Ready
  <1>3. Alone(w)' /\ Ready(w)'
    BY <1>1, <1>2 DEF Alone, Ready, history
  <1>4. CASE WithdrawBom(w)
    <2>1. /\ "bom" \in mine[w] /\ mine' = [mine EXCEPT ![w] = @ \ {"bom"}]
          /\ bom' = [bom EXCEPT ![t] = "absent"] /\ UNCHANGED <<folders, metadata>>
      BY <1>4 DEF WithdrawBom, Unpublish
    <2>2. /\ mine'[w] = mine[w] \ {"bom"} /\ \A v \in Workers \ {w} : mine'[v] = mine[v]
          /\ \A p \in Products : bom'[p] = IF p = t THEN "absent" ELSE bom[p]
      BY <2>1 DEF CreationInv, TypeOK
    <2>3. \A u \in Targets : Present(u)' => Present(u)
      BY <2>1, <2>2 DEF Present
    <2>4. NoAliases'
      BY <1>1, <2>3 DEF TreeInv, NoAliases, Siblings, history
    <2>5. CreatedIsOffered' /\ Closed'
      BY <1>1, <1>2, <2>1, <2>2
      DEF TreeInv, CreatedIsOffered, Closed, Listed, Offered, history
    <2>6. OnlyMine(w)'
      BY <1>1, <1>2, <2>1, <2>2 DEF Creating, OnlyMine, Inside, Explained, history
    <2>. QED
      BY <1>1, <1>2, <1>3, <2>2, <2>3, <2>4, <2>5, <2>6, LockedTree
      DEF Creating, history
  <1>5. CASE WithdrawMetadata(w)
    <2>1. /\ mine[w] = {"metadata"} /\ mine' = [mine EXCEPT ![w] = @ \ {"metadata"}]
          /\ metadata' = metadata \ {t} /\ UNCHANGED <<folders, bom>>
      BY <1>5 DEF WithdrawMetadata, Unpublish
    <2>2. /\ mine'[w] = {} /\ \A v \in Workers \ {w} : mine'[v] = mine[v]
      BY <2>1 DEF CreationInv, TypeOK
    <2>3. \A u \in Targets : Present(u)' => Present(u)
      BY <2>1 DEF Present
    <2>4. NoAliases'
      BY <1>1, <2>3 DEF TreeInv, NoAliases, Siblings, history
    <2>5. CreatedIsOffered' /\ Closed'
      BY <1>1, <1>2, <2>1 DEF TreeInv, CreatedIsOffered, Closed, Listed, Offered, history
    <2>6. OnlyMine(w)'
      BY <1>1, <1>2, <2>1, <2>2 DEF Creating, OnlyMine, Inside, Explained, history
    <2>. QED
      BY <1>1, <1>2, <1>3, <2>2, <2>3, <2>4, <2>5, <2>6, LockedTree
      DEF Creating, history
  <1>6. CASE WithdrawFolder(w)
    <2>1. /\ mine[w] = {"folder"} /\ mine' = [mine EXCEPT ![w] = @ \ {"folder"}]
          /\ folders' = folders \ {t} /\ UNCHANGED <<metadata, bom>>
      BY <1>6 DEF WithdrawFolder, Unpublish
    <2>2. /\ mine'[w] = {} /\ \A v \in Workers \ {w} : mine'[v] = mine[v]
      BY <2>1 DEF CreationInv, TypeOK
    <2>3. \A u \in Targets : Present(u)' => Present(u)
      BY <2>1 DEF Present
    <2>4. NoAliases'
      BY <1>1, <2>3 DEF TreeInv, NoAliases, Siblings, history
    <2>5. CreatedIsOffered'
      BY <1>1, <2>1 DEF TreeInv, CreatedIsOffered, Listed, Offered, history
    <2>6. Closed'
      BY <1>2, <2>1 DEF Creating, OnlyMine, TreeInv, Closed
    <2>7. OnlyMine(w)'
      BY <1>1, <1>2, <2>1, <2>2 DEF Creating, OnlyMine, Inside, Explained, history
    <2>. QED
      BY <1>1, <1>2, <1>3, <2>2, <2>3, <2>4, <2>5, <2>6, <2>7, LockedTree
      DEF Creating, history
  <1>. QED
    BY <1>1, <1>4, <1>5, <1>6

-----------------------------------------------------------------------------

(* What an editor or a repair does to the tree: a bill of materials that   *)
(* it makes appear is revived, or of a complete product nobody creates.    *)
OnlyBoms ==
  /\ UNCHANGED <<folders, metadata, hierarchy, lock, pc, target, mine, scan, done,
                 residue>>
  /\ revived \subseteq revived'
  /\ \A p \in Products :
       /\ bom[p] # "absent" => bom'[p] # "absent"
       /\ bom[p] = "absent" /\ bom'[p] # "absent" =>
            p \in revived' \/ (p \in metadata /\ \A w \in Workers : target[w] # p)

LEMMA OnlyBomsTree ==
  ASSUME CreationInv, TreeInv, OnlyBoms
  PROVE  TreeInv'
  <1>1. \A t \in Targets \ revived' : Present(t)' => Present(t)
    BY DEF OnlyBoms, Present
  <1>2. NoAliases' /\ Closed'
    BY <1>1 DEF OnlyBoms, TreeInv, NoAliases, Closed, Siblings
  <1>3. FailureLeavesNothing'
    BY <1>1 DEF OnlyBoms, TreeInv, FailureLeavesNothing, Inside
  <1>4. CreatedIsOffered'
    BY DEF OnlyBoms, TreeInv, CreatedIsOffered, Listed, Offered
  <1>5. ASSUME NEW w \in Workers PROVE Creating(w)'
    <2>1. Creating(w)
      BY DEF TreeInv
    <2>2. Alone(w)'
      BY <1>1, <2>1 DEF OnlyBoms, Creating, Alone, Siblings
    <2>3. OnlyMine(w)'
      BY <2>1 DEF OnlyBoms, Creating, OnlyMine, Inside, Explained
    <2>4. Ready(w)'
      BY <2>1 DEF OnlyBoms, Creating, Ready, Inside, HasParent, Complete, Shown, Listed,
                  Offered
    <2>. QED
      BY <2>2, <2>3, <2>4 DEF Creating
  <1>. QED
    BY <1>2, <1>3, <1>4, <1>5 DEF TreeInv

LEMMA EditorsTree ==
  ASSUME CreationInv, NEW e \in Editors,
         (\E p \in Products : OpenPage(e, p)) \/ StartSave(e) \/ FinishSave(e) \/ SaveDies(e)
  PROVE  OnlyBoms
  <1>. TypeOK
    BY DEF CreationInv
  <1>1. ASSUME NEW p \in Products, OpenPage(e, p) PROVE OnlyBoms
    BY <1>1 DEF OpenPage, OnlyBoms, tree, creation, history
  <1>2. CASE StartSave(e)
    <2>1. session[e] \in Products
      BY <1>2 DEF StartSave, TypeOK
    <2>. QED
      BY <1>2, <2>1 DEF StartSave, OpenBom, OnlyBoms, TypeOK, creation
  <1>3. CASE FinishSave(e)
    <2>1. CASE edit[e] = "detached"
      BY <1>3, <2>1 DEF FinishSave, OnlyBoms, creation, history
    <2>2. CASE edit[e] = "writing"
      <3>1. PICK result \in {e, "torn"} : bom' = [bom EXCEPT ![session[e]] = result]
        BY <1>3, <2>2 DEF FinishSave
      <3>2. result # "absent" /\ bom[session[e]] # "absent"
        BY <2>2, CreationAssumption DEF CreationAssumption, CreationInv, WriterOK
      <3>. QED
        BY <1>3, <3>1, <3>2 DEF FinishSave, OnlyBoms, TypeOK, creation, history
    <2>. QED
      BY <1>3, <2>1, <2>2 DEF FinishSave
  <1>4. CASE SaveDies(e)
    <2>1. bom[session[e]] # "absent"
      BY <1>4 DEF SaveDies, CreationInv, WriterOK
    <2>. QED
      BY <1>4, <2>1 DEF SaveDies, OnlyBoms, TypeOK, creation
  <1>. QED
    BY <1>1, <1>2, <1>3, <1>4

LEMMA RepairTree ==
  ASSUME CreationInv, NEW p \in Products, RepairBom(p)
  PROVE  OnlyBoms
  BY DEF CreationInv, TypeOK, RepairBom, OnlyBoms, creation

LEMMA InitTree == Init => TreeInv
  <1>. SUFFICES ASSUME Init PROVE TreeInv
    OBVIOUS
  <1>1. \A t \in Targets : Present(t) <=> t \in InitialFolders \cup InitialProducts
    BY CreationAssumption DEF Init, Present, CreationAssumption
  <1>2. NoAliases
    BY <1>1, CreationAssumption DEF NoAliases, Siblings, CreationAssumption
  <1>3. FailureLeavesNothing /\ CreatedIsOffered
    BY <1>1 DEF FailureLeavesNothing, CreatedIsOffered, Init
  <1>4. Closed
    BY CreationAssumption DEF Closed, Init, CreationAssumption
  <1>5. \A w \in Workers : Creating(w)
    BY DEF Init, Creating, Alone, OnlyMine, Ready, Inside
  <1>. QED
    BY <1>2, <1>3, <1>4, <1>5 DEF TreeInv

LEMMA NextTree == CreationInv /\ CreationInv' /\ TreeInv /\ [Next]_vars => TreeInv'
  <1> SUFFICES ASSUME CreationInv, CreationInv', TreeInv, [Next]_vars PROVE TreeInv'
    OBVIOUS
  <1>1. ASSUME NEW w \in Workers, NEW t \in Targets, Request(w, t) PROVE TreeInv'
    BY <1>1, RequestTree
  <1>2. ASSUME NEW w \in Workers, TimeOut(w) PROVE TreeInv'
    BY <1>2, TimeOutTree DEF TimeOut
  <1>3. ASSUME NEW w \in Workers, Progress(w) PROVE TreeInv'
    BY <1>2, <1>3, EnterTree, MakeFolderTree, PublishMetadataTree, PublishBomTree,
       ScanTree, RefreshTree, WithdrawTree, ReleaseTree DEF Progress
  <1>4. ASSUME NEW w \in Workers, Raise(w) \/ WithdrawFails(w) \/ Crash(w)
        PROVE  TreeInv'
    BY <1>4, RaiseTree, WithdrawFailsTree, CrashTree
  <1>5. ASSUME NEW e \in Editors,
               \/ \E p \in Products : OpenPage(e, p)
               \/ StartSave(e) \/ FinishSave(e) \/ SaveDies(e)
        PROVE  TreeInv'
    BY <1>5, EditorsTree, OnlyBomsTree
  <1>6. ASSUME NEW p \in Products, RepairBom(p) PROVE TreeInv'
    BY <1>6, RepairTree, OnlyBomsTree
  <1>7. CASE UNCHANGED vars
    <2>1. OnlyBoms
      BY <1>7 DEF OnlyBoms, vars, tree, creation, history
    <2>. QED
      BY <2>1, OnlyBomsTree
  <1>. QED
    BY <1>1, <1>3, <1>4, <1>5, <1>6, <1>7 DEF Next

(* Creations answer for everything that is in the tree.                    *)
THEOREM TreeIsInductive == Spec => []TreeInv
  BY InitTree, NextTree, CreationIsInductive, PTL DEF Spec

(* No two entries of a folder ever have names that differ in case only,    *)
(* unless a late save or a repair brought one of them back.                *)
THEOREM NeverAliases == Spec => []NoAliases
  <1>1. TreeInv => NoAliases
    BY DEF TreeInv
  <1>. QED
    BY <1>1, TreeIsInductive, PTL

(* A creation that fails in the ordinary way leaves nothing behind.        *)
THEOREM FailuresLeaveNothing == Spec => []FailureLeavesNothing
  <1>1. TreeInv => FailureLeavesNothing
    BY DEF TreeInv
  <1>. QED
    BY <1>1, TreeIsInductive, PTL

(* What was answered as created stays and is offered by the filters.       *)
THEOREM CreatedIsAlwaysOffered == Spec => []CreatedIsOffered
  <1>1. TreeInv => CreatedIsOffered
    BY DEF TreeInv
  <1>. QED
    BY <1>1, TreeIsInductive, PTL

-----------------------------------------------------------------------------
(* Bills of materials under their editors.                                 *)

(* Unless saves of it have clashed, a file has one writer at most, and     *)
(* nothing in it while it has one.                                         *)
SaveInv ==
  /\ SavedIsReadable
  /\ \A p \in Products : \A e \in Writers(p) :
       p \notin clashed => bom[p] = "empty" /\ Writers(p) = {e}

(* A step that saves nothing: a file changes only when nobody writes it.   *)
NoSave ==
  /\ clashed' = clashed
  /\ \A p \in Products :
       \/ Writers(p)' = Writers(p) /\ bom'[p] = bom[p]
       \/ Writers(p)' = {} /\ bom'[p] \in {"template", "needs", "absent"}

LEMMA NoSaveStep ==
  ASSUME SaveInv, NoSave
  PROVE  SaveInv'
  <1>1. SavedIsReadable'
    <2>1. SUFFICES ASSUME NEW p \in Products, bom'[p] \in {"empty", "torn"},
                          p \notin clashed
                   PROVE  Writers(p)' # {}
      BY DEF NoSave, SavedIsReadable
    <2>. QED
      BY <2>1 DEF NoSave, SaveInv, SavedIsReadable
  <1>2. ASSUME NEW p \in Products, p \notin clashed, NEW e \in Writers(p)'
        PROVE  bom'[p] = "empty" /\ Writers(p)' = {e}
    BY <1>2 DEF NoSave, SaveInv
  <1>. QED
    BY <1>1, <1>2 DEF NoSave, SaveInv

LEMMA WorkersDoNotSave ==
  ASSUME CreationInv, NEW w \in Workers,
         \/ \E t \in Targets : Request(w, t)
         \/ Progress(w) \/ Raise(w) \/ WithdrawFails(w) \/ Crash(w)
  PROVE  NoSave
  <1>1. CASE UNCHANGED <<bom, editing, clashed>>
    BY <1>1 DEF NoSave, Writers, editing
  <1>2. CASE PublishBom(w)
    <2>1. UNCHANGED <<editing, clashed>>
      BY <1>2 DEF PublishBom, history
    <2>2. CASE NewBom(target[w])
      <3>1. target[w] \in Products
        BY <1>2 DEF PublishBom, CreationInv, Own, Place
      <3>2. bom[target[w]] = "absent"
        BY <2>2, <3>1 DEF NewBom, Siblings, Targets
      <3>3. Writers(target[w]) = {}
        BY <3>2 DEF Writers, CreationInv, WriterOK
      <3>4. \A p \in Products : bom'[p] = IF p = target[w] THEN "template" ELSE bom[p]
        BY <1>2, <2>2 DEF PublishBom, CreationInv, TypeOK
      <3>5. \A p \in Products : Writers(p)' = Writers(p)
        BY <2>1 DEF Writers, editing
      <3>. QED
        BY <2>1, <3>3, <3>4, <3>5 DEF NoSave
    <2>3. CASE ~NewBom(target[w])
      BY <1>1, <1>2, <2>1, <2>3 DEF PublishBom
    <2>. QED
      BY <2>2, <2>3
  <1>3. CASE Withdraw(w) /\ WithdrawBom(w)
    <2>1. /\ bom' = [bom EXCEPT ![target[w]] = "absent"]
          /\ edit' = [e \in Editors |->
                        IF session[e] = target[w] /\ edit[e] = "writing"
                          THEN "detached" ELSE edit[e]]
          /\ session' = session /\ clashed' = clashed
      BY <1>3 DEF Withdraw, WithdrawBom, history
    <2>2. \A p \in Products : bom'[p] = IF p = target[w] THEN "absent" ELSE bom[p]
      BY <2>1 DEF CreationInv, TypeOK
    <2>3. \A p \in Products : Writers(p)' = IF p = target[w] THEN {} ELSE Writers(p)
      BY <2>1 DEF Writers
    <2>. QED
      BY <2>1, <2>2, <2>3 DEF NoSave
  <1>4. CASE Withdraw(w) /\ ~WithdrawBom(w)
    BY <1>1, <1>4 DEF Withdraw, WithdrawMetadata, WithdrawFolder, editing, history
  <1>. QED
    BY <1>1, <1>2, <1>3, <1>4
    DEF Request, Progress, TimeOut, Enter, MakeFolder, PublishMetadata, Scan, Refresh,
        Release, Raise, WithdrawFails, Crash, tree, history

LEMMA PagesDoNotSave ==
  ASSUME CreationInv,
         \/ \E e \in Editors, p \in Products : OpenPage(e, p)
         \/ \E p \in Products : RepairBom(p)
         \/ UNCHANGED vars
  PROVE  NoSave
  <1>1. ASSUME NEW e \in Editors, NEW p \in Products, OpenPage(e, p) PROVE NoSave
    <2>1. \A q \in Products : Writers(q)' = Writers(q)
      BY <1>1 DEF OpenPage, Writers, CreationInv, TypeOK
    <2>. QED
      BY <1>1, <2>1 DEF OpenPage, NoSave, tree, history
  <1>2. ASSUME NEW p \in Products, RepairBom(p) PROVE NoSave
    <2>1. Writers(p) = {} /\ \A q \in Products : Writers(q)' = Writers(q)
      BY <1>2 DEF RepairBom, Writers, editing, CreationInv, WriterOK
    <2>2. \A q \in Products : bom'[q] = IF q = p THEN "needs" ELSE bom[q]
      BY <1>2 DEF RepairBom, CreationInv, TypeOK
    <2>. QED
      BY <1>2, <2>1, <2>2 DEF RepairBom, NoSave
  <1>3. CASE UNCHANGED vars
    BY <1>3 DEF NoSave, Writers, vars, tree, editing, history
  <1>. QED
    BY <1>1, <1>2, <1>3

LEMMA StartSaveSaves ==
  ASSUME CreationInv, SaveInv, NEW e \in Editors, StartSave(e)
  PROVE  SaveInv'
  <1> DEFINE p == session[e]
  <1>1. /\ p # None /\ edit' = [edit EXCEPT ![e] = "writing"] /\ session' = session
        /\ bom' = [bom EXCEPT ![p] = "empty"]
        /\ clashed' = IF Writers(p) # {} THEN clashed \cup {p} ELSE clashed
    BY DEF StartSave, OpenBom
  <1>2. p \in Products
    BY <1>1 DEF CreationInv, TypeOK
  <1>3. \A q \in Products : bom'[q] = IF q = p THEN "empty" ELSE bom[q]
    BY <1>1, <1>2 DEF CreationInv, TypeOK
  <1>4. \A q \in Products :
          Writers(q)' = IF q = p THEN Writers(q) \cup {e} ELSE Writers(q)
    BY <1>1, <1>2 DEF Writers, CreationInv, TypeOK
  <1>5. SavedIsReadable'
    BY <1>1, <1>3, <1>4 DEF SaveInv, SavedIsReadable
  <1>6. ASSUME NEW q \in Products, q \notin clashed', NEW d \in Writers(q)'
        PROVE  bom'[q] = "empty" /\ Writers(q)' = {d}
    <2>1. CASE q = p
      BY <1>1, <1>3, <1>4, <1>6, <2>1
    <2>2. CASE q # p
      BY <1>1, <1>3, <1>4, <1>6, <2>2 DEF SaveInv
    <2>. QED
      BY <2>1, <2>2
  <1>. QED
    BY <1>5, <1>6 DEF SaveInv

(* A save that ends, well or not.                                          *)
LEMMA EndOfSave ==
  ASSUME CreationInv, SaveInv, NEW e \in Editors, edit[e] = "writing",
         edit' = [edit EXCEPT ![e] = "idle"], session' = session,
         clashed \subseteq clashed',
         \A q \in Products \ {session[e]} : bom'[q] = bom[q],
         bom'[session[e]] \in {"empty", "torn"} => session[e] \in clashed'
  PROVE  SaveInv'
  <1> DEFINE p == session[e]
  <1>1. p \in Products /\ e \in Writers(p)
    BY DEF CreationInv, WriterOK, Writers
  <1>2. \A q \in Products :
          Writers(q)' = IF q = p THEN Writers(q) \ {e} ELSE Writers(q)
    BY DEF Writers, CreationInv, TypeOK
  <1>3. SavedIsReadable'
    BY <1>2 DEF SaveInv, SavedIsReadable
  <1>4. ASSUME NEW q \in Products, q \notin clashed', NEW d \in Writers(q)'
        PROVE  bom'[q] = "empty" /\ Writers(q)' = {d}
    <2>1. CASE q = p
      <3>1. Writers(p) = {e}
        BY <1>1, <1>4, <2>1 DEF SaveInv
      <3>. QED
        BY <1>2, <1>4, <2>1, <3>1
    <2>2. CASE q # p
      BY <1>2, <1>4, <2>2 DEF SaveInv
    <2>. QED
      BY <2>1, <2>2
  <1>. QED
    BY <1>3, <1>4 DEF SaveInv

LEMMA FinishSaveSaves ==
  ASSUME CreationInv, SaveInv, NEW e \in Editors, FinishSave(e)
  PROVE  SaveInv'
  <1>1. /\ edit[e] \in {"writing", "detached"} /\ edit' = [edit EXCEPT ![e] = "idle"]
        /\ session' = session /\ clashed' = clashed
    BY DEF FinishSave, history
  <1>2. CASE edit[e] = "detached"
    <2>1. bom' = bom
      BY <1>2 DEF FinishSave
    <2>2. \A p \in Products : Writers(p)' = Writers(p)
      BY <1>1, <1>2 DEF Writers, CreationInv, TypeOK
    <2>3. NoSave
      BY <1>1, <2>1, <2>2 DEF NoSave
    <2>. QED
      BY <2>3, NoSaveStep
  <1>3. CASE edit[e] = "writing"
    <2> DEFINE p == session[e]
    <2>1. PICK result \in {e} \cup (IF bom[p] = "empty" THEN {} ELSE {"torn"}) :
            bom' = [bom EXCEPT ![p] = result]
      BY <1>3 DEF FinishSave
    <2>2. p \in Products /\ e \in Writers(p)
      BY <1>3 DEF CreationInv, WriterOK, Writers
    <2>3. bom[p] # "empty" => p \in clashed
      BY <2>2 DEF SaveInv
    <2>4. e \notin {"empty", "torn"}
      BY CreationAssumption DEF CreationAssumption
    <2>5. \A q \in Products : bom'[q] = IF q = p THEN result ELSE bom[q]
      BY <2>1, <2>2 DEF CreationInv, TypeOK
    <2>. QED
      BY <1>1, <1>3, <2>1, <2>2, <2>3, <2>4, <2>5, EndOfSave
  <1>. QED
    BY <1>1, <1>2, <1>3

LEMMA SaveDiesSaves ==
  ASSUME CreationInv, SaveInv, NEW e \in Editors, SaveDies(e)
  PROVE  SaveInv'
  <1> DEFINE p == session[e]
  <1>1. /\ edit[e] = "writing" /\ edit' = [edit EXCEPT ![e] = "idle"]
        /\ bom' \in {bom, [bom EXCEPT ![p] = "torn"]}
        /\ session' = session /\ clashed' = clashed \cup {p}
    BY DEF SaveDies
  <1>2. \A q \in Products \ {p} : bom'[q] = bom[q]
    BY <1>1 DEF CreationInv, TypeOK
  <1>. QED
    BY <1>1, <1>2, EndOfSave

(* An unreadable bill of materials is being written, or saves of it have   *)
(* clashed.                                                                *)
THEOREM SavedIsAlwaysReadable == Spec => []SavedIsReadable
  <1>1. Init => SaveInv
    BY DEF Init, SaveInv, SavedIsReadable, Writers
  <1>2. ASSUME CreationInv, SaveInv, [Next]_vars PROVE SaveInv'
    <2>1. ASSUME NEW e \in Editors, StartSave(e) \/ FinishSave(e) \/ SaveDies(e)
          PROVE  SaveInv'
      BY <1>2, <2>1, StartSaveSaves, FinishSaveSaves, SaveDiesSaves
    <2>. QED
      BY <1>2, <2>1, WorkersDoNotSave, PagesDoNotSave, NoSaveStep DEF Next
  <1>3. SaveInv => SavedIsReadable
    BY DEF SaveInv
  <1>. QED
    BY <1>1, <1>2, <1>3, CreationIsInductive, PTL DEF Spec
=============================================================================
