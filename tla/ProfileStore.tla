---------------------------- MODULE ProfileStore ----------------------------
(***************************************************************************)
(* The canonical Profile JSON document and the protocol every process uses *)
(* to read and replace it (utils/profile_store.py): a shared/exclusive     *)
(* file lock polled up to a deadline, schema upgrades run by whichever     *)
(* request meets an old document first, a staged candidate, a bounded      *)
(* backup, an atomic rename, and an operator's recovery from the backups.  *)
(*                                                                         *)
(* A worker is one request in one server process, or one operator command. *)
(* A request is a list of locked sections: the schema check under the      *)
(* shared lock, the upgrades that check found necessary, then the section  *)
(* the request came for.  Between two sections the lock is not held.       *)
(* Two stamps never collide and the wall clock does not step back.         *)
(***************************************************************************)
EXTENDS Integers, Sequences, FiniteSets

CONSTANTS
  Workers,      \* requests that may run at once, in any number of processes
  Txns,         \* mutations that callers may ask for, each at most once
  Conditional,  \* those run by _mutate_conditionally: they may change nothing
  EventsOf,     \* how many audit events the callback of a mutation appends
  BackupLimit,  \* APP_DATA_BACKUP_LIMIT
  AuditLimit,   \* APP_AUDIT_EVENT_LIMIT
  SharedLocks,  \* TRUE with flock, FALSE with msvcrt, which only excludes
  InitialFiles, \* what the canonical path may hold when the model starts
  MaxIncidents, \* bound on crashes, I/O faults, damage and recoveries
  Missing,      \* no file at the canonical path
  Corrupt,      \* bytes that are not a JSON document
  Garbled,      \* bytes that are not even UTF-8: cut inside a character
  None, NoTxn, Past

Event == Txns \cup {Past}   \* Past: an event older than the model

(***************************************************************************)
(* A document, abstracted to what the protocol tells apart.  ids and audit *)
(* say that it still carries upper-case module ids and pre-Phase-9 audit   *)
(* names.  applied and log are history: the mutations of the model that    *)
(* the document contains, so none when it starts, and every audit event    *)
(* ever appended to it.                                                    *)
(***************************************************************************)
Document ==
  [ schema: {1, 2}, ids: BOOLEAN, audit: BOOLEAN, rev: Nat,
    events: Seq(Event), discarded: Nat,
    applied: SUBSET Txns, log: Seq(Event) ]

IsDocument(bytes) == bytes \notin {Missing, Corrupt, Garbled, None}

(* validate_data: the supported schema, canonical grants, revision >= 1.   *)
Valid(doc) == doc.schema = 2 /\ ~doc.ids /\ doc.rev >= 1

(* The live window of a document's audit trail is the newest of the events *)
(* ever appended to it, and discarded_count accounts for all the others.   *)
WindowOf(doc) ==
  /\ doc.discarded + Len(doc.events) = Len(doc.log)
  /\ doc.events = SubSeq(doc.log, doc.discarded + 1, Len(doc.log))

(* What callers see of a document; its legacy forms are the upgrades it    *)
(* still needs.                                                            *)
Version ==
  [ rev: Nat, legacy: SUBSET {"access", "ids", "audit"},
    applied: SUBSET Txns, log: Seq(Event) ]

Requests == {"read", "mutate", "recover", "initialize"}
Upgrades == {"ids", "audit", "access"}
Sections == Requests \cup Upgrades \cup {"ensure"}
SharedSections == {"ensure", "read"}
Incidents == {"crash", "fault", "damage", "recovery"}
Phases ==
  { "idle", "waiting", "locked", "drafted", "staged", "copying", "pruning",
    "replaced", "unlocking", "unwinding" }
Outcomes == {"unused", "running", "done", "unchanged", "failed", "unknown"}

VARIABLES
  canon,        \* the bytes at the canonical path
  backups,      \* the files of backups/: a name's timestamp and the bytes
  quarantine,   \* the contents kept in corrupt/
  clock,        \* timestamp of the next backup
  readers,      \* workers holding the lock shared
  writer,       \* workers holding the lock exclusively
  pc,           \* where in its current section each worker is
  plan,         \* the sections each worker still has to run, current first
  txn,          \* the mutation a worker was asked for
  draft,        \* the candidate document a worker is about to install
  outcome,      \* what the caller of each mutation was told
  last, prior,  \* history: the newest committed document, what it replaced
  incidents     \* how often each bounded environment event has happened

files == <<canon, backups, quarantine, clock>>
locks == <<readers, writer>>
control == <<pc, plan, txn, draft, outcome>>
history == <<last, prior, incidents>>
vars == <<files, locks, control, history>>

StoreAssumption ==
  /\ Conditional \subseteq Txns
  /\ \A t \in Txns : EventsOf[t] \in Nat
  /\ BackupLimit \in Nat
  /\ AuditLimit \in Nat \ {0}
  /\ SharedLocks \in BOOLEAN
  /\ MaxIncidents \in [Incidents -> Nat]
  /\ NoTxn \notin Txns
  /\ {Missing, Corrupt, Garbled, None} \cap Document = {}
  /\ None \notin Version
  /\ Missing \notin {Corrupt, Garbled} /\ Corrupt # Garbled
  /\ InitialFiles \subseteq Document \cup {Missing}
  /\ \A doc \in InitialFiles \ {Missing} : doc.applied = {} /\ WindowOf(doc)
ASSUME StoreAssumption

Init ==
  /\ canon \in InitialFiles
  /\ backups = {} /\ quarantine = {} /\ clock = 1
  /\ readers = {} /\ writer = {}
  /\ pc = [w \in Workers |-> "idle"]
  /\ plan = [w \in Workers |-> <<>>]
  /\ txn = [w \in Workers |-> NoTxn]
  /\ draft = [w \in Workers |-> None]
  /\ outcome = [t \in Txns |-> "unused"]
  /\ last = (IF canon = Missing THEN None ELSE canon) /\ prior = None
  /\ incidents = [i \in Incidents |-> 0]

-----------------------------------------------------------------------------
(* Helpers on control state.                                               *)

Section(w) == Head(plan[w])
At(w, phase, sections) == pc[w] = phase /\ Section(w) \in sections
Goto(w, phase) == pc' = [pc EXCEPT ![w] = phase]

Happens(i) ==
  /\ incidents[i] < MaxIncidents[i]
  /\ incidents' = [incidents EXCEPT ![i] = @ + 1]

(* An exception leaves through the finally that unlocks.                   *)
Raise(w) ==
  /\ Goto(w, "unwinding")
  /\ UNCHANGED <<files, locks, plan, txn, draft, outcome, last, prior>>

(* The section returns without writing.                                    *)
Return(w) ==
  /\ Goto(w, "unlocking")
  /\ UNCHANGED <<files, locks, plan, txn, draft, outcome, history>>

(* The section goes on to _atomic_write with this document; the candidate  *)
(* is validated first.                                                     *)
Write(w, doc) ==
  /\ Valid(doc)
  /\ draft' = [draft EXCEPT ![w] = doc]
  /\ Goto(w, "drafted")
  /\ UNCHANGED <<files, locks, plan, txn, outcome, history>>

-----------------------------------------------------------------------------
(* Requests and the lock.                                                  *)

Begin(w, request, t) ==
  /\ pc[w] = "idle"
  /\ IF request = "mutate"
       THEN /\ t \in Txns /\ outcome[t] = "unused"
            /\ outcome' = [outcome EXCEPT ![t] = "running"]
       ELSE t = NoTxn /\ UNCHANGED outcome
  /\ IF request = "recover" THEN Happens("recovery") ELSE UNCHANGED incidents
  /\ plan' = [plan EXCEPT ![w] =
        IF request \in {"recover", "initialize"} THEN <<request>>
                                                 ELSE <<"ensure", request>>]
  /\ txn' = [txn EXCEPT ![w] = t]
  /\ Goto(w, "waiting")
  /\ UNCHANGED <<files, locks, draft, last, prior>>

(* Mutants: a writer that ignores readers, a writer that ignores writers.  *)
LockFree_IgnoresReaders(w) == writer = {}
LockFree_IgnoresWriters(w) ==
  Section(w) \in SharedSections \/ readers = {}

(* _acquire_file_lock succeeds: flock lets readers share, msvcrt does not. *)
LockFree(w) ==
  /\ writer = {}
  /\ (Section(w) \notin SharedSections \/ ~SharedLocks) => readers = {}

Acquire(w) ==
  /\ pc[w] = "waiting" /\ LockFree(w)
  /\ IF Section(w) \in SharedSections
       THEN readers' = readers \cup {w} /\ UNCHANGED writer
       ELSE writer' = writer \cup {w} /\ UNCHANGED readers
  /\ Goto(w, "locked")
  /\ UNCHANGED <<files, plan, txn, draft, outcome, history>>

(* What a request that ends without an answer means to its caller.         *)
Close(w, result) ==
  /\ Goto(w, "idle")
  /\ plan' = [plan EXCEPT ![w] = <<>>]
  /\ txn' = [txn EXCEPT ![w] = NoTxn]
  /\ draft' = [draft EXCEPT ![w] = None]
  /\ outcome' = IF txn[w] = NoTxn THEN outcome
                ELSE [outcome EXCEPT ![txn[w]] = result]

(* Mutant: polling without a deadline.                                     *)
TimeOut_Never(w) == FALSE

(* The deadline passes while another worker holds the lock.                *)
TimeOut(w) ==
  /\ pc[w] = "waiting" /\ ~LockFree(w)
  /\ Close(w, "failed")
  /\ UNCHANGED <<files, locks, history>>

(* The lock file cannot be opened or locked for another reason.            *)
LockError(w) ==
  /\ pc[w] = "waiting" /\ Happens("fault")
  /\ Close(w, "failed")
  /\ UNCHANGED <<files, locks, last, prior>>

(* _unlock, then the next section, or the answer to the caller.            *)
Unlock(w) ==
  /\ pc[w] = "unlocking"
  /\ readers' = readers \ {w} /\ writer' = writer \ {w}
  /\ IF Len(plan[w]) > 1
       THEN /\ plan' = [plan EXCEPT ![w] = Tail(@)]
            /\ draft' = [draft EXCEPT ![w] = None]
            /\ Goto(w, "waiting")
            /\ UNCHANGED <<txn, outcome>>
       ELSE Close(w, IF draft[w] = None THEN "unchanged" ELSE "done")
  /\ UNCHANGED <<files, history>>

Unwind(w) ==
  /\ pc[w] = "unwinding"
  /\ readers' = readers \ {w} /\ writer' = writer \ {w}
  /\ Close(w, "failed")
  /\ UNCHANGED <<files, history>>

-----------------------------------------------------------------------------
(* ensure_current_schema and the upgrades it calls.                        *)

(* The sections that bring a document up to date, as read under the shared *)
(* lock.  Whatever was found, the last call rechecks under its own lock.   *)
UpgradesFor(doc) ==
  (IF doc.schema = 2 /\ doc.ids THEN <<"ids">> ELSE <<>>)
    \o (IF doc.schema = 2 /\ doc.audit THEN <<"audit">> ELSE <<"access">>)

NeedsUpgrade(doc) == doc.schema = 1 \/ doc.ids \/ doc.audit

(* A section accepts a valid document, or one it is there to upgrade.      *)
Accepts(section, doc) ==
  \/ Valid(doc)
  \/ section \in {"ensure", "access"} /\ doc.schema = 1
  \/ section \in {"ensure", "ids"} /\ doc.schema = 2 /\ doc.ids

Loads(w, sections) ==
  /\ At(w, "locked", sections)
  /\ IsDocument(canon) /\ Accepts(Section(w), canon)

EnsureSchema(w) ==
  /\ Loads(w, {"ensure"})
  /\ IF NeedsUpgrade(canon)
       THEN plan' = [plan EXCEPT ![w] =
                       <<"ensure">> \o UpgradesFor(canon) \o Tail(@)]
       ELSE UNCHANGED plan
  /\ Goto(w, "unlocking")
  /\ UNCHANGED <<files, locks, txn, draft, outcome, history>>

(* Mutants: no early return, so that the count falls below zero; a count   *)
(* that is not cumulative.                                                 *)
Retain_Always(doc) ==
  LET overflow == Len(doc.events) - AuditLimit
      first == IF overflow > 0 THEN overflow + 1 ELSE 1
  IN  [doc EXCEPT !.events = SubSeq(@, first, Len(@)),
                  !.discarded = @ + overflow]
Retain_Forgets(doc) ==
  LET overflow == Len(doc.events) - AuditLimit
  IN  IF overflow <= 0 THEN doc
      ELSE [doc EXCEPT !.events = SubSeq(@, overflow + 1, Len(@)),
                       !.discarded = overflow]

(* _apply_audit_retention: drop the oldest events beyond the limit.        *)
Retain(doc) ==
  LET overflow == Len(doc.events) - AuditLimit
  IN  IF overflow <= 0 THEN doc
      ELSE [doc EXCEPT !.events = SubSeq(@, overflow + 1, Len(@)),
                       !.discarded = @ + overflow]

NextRevision(rev) == (IF rev < 1 THEN 1 ELSE rev) + 1

WithoutOldIds(doc) ==
  [doc EXCEPT !.ids = FALSE, !.rev = NextRevision(@)]

NormalizeIds(w) ==
  /\ Loads(w, {"ids"})
  /\ IF canon.ids THEN Write(w, WithoutOldIds(canon)) ELSE Return(w)

WithoutOldAudit(doc) == [Retain(doc) EXCEPT !.audit = FALSE, !.rev = @ + 1]

NormalizeAudit(w) ==
  /\ Loads(w, {"audit"})
  /\ IF canon.audit THEN Write(w, WithoutOldAudit(canon)) ELSE Return(w)

(* The access model migration clears every ordinary grant: no old id is    *)
(* left.                                                                   *)
Migrated(doc) ==
  [doc EXCEPT !.schema = 2, !.ids = FALSE, !.rev = NextRevision(@)]

(* Mutant: the version is not checked again under the exclusive lock.      *)
MigrateAccess_NoRecheck(w) ==
  Loads(w, {"access"}) /\ Write(w, Migrated(canon))

MigrateAccess(w) ==
  /\ Loads(w, {"access"})
  /\ IF canon.schema = 1 THEN Write(w, Migrated(canon)) ELSE Return(w)

-----------------------------------------------------------------------------
(* The section a request came for.                                         *)

ReadDocument(w) == Loads(w, {"read"}) /\ Return(w)

(* The document _mutate and _mutate_conditionally write for a callback     *)
(* that changed it: the change, retention, the next revision.              *)
Mutated(doc, t) ==
  LET added == [i \in 1..EventsOf[t] |-> t]
      changed == [doc EXCEPT !.applied = @ \cup {t},
                             !.events = @ \o added, !.log = @ \o added]
  IN  [Retain(changed) EXCEPT !.rev = @ + 1]

Mutate(w) ==
  /\ Loads(w, {"mutate"})
  /\ \/ Write(w, Mutated(canon, txn[w]))
     \/ txn[w] \in Conditional /\ Return(w)   \* (result, False)

(* The callback refuses: a uniqueness, revision or authorisation conflict, *)
(* or a candidate that does not validate.                                  *)
CallbackRejects(w) ==
  /\ Loads(w, {"mutate"})
  /\ Raise(w) /\ UNCHANGED incidents

(* The canonical bytes are absent, unreadable or not a valid document.     *)
LoadFails(w) ==
  /\ At(w, "locked", Sections \ {"recover", "initialize"})
  /\ IsDocument(canon) => ~Accepts(Section(w), canon)
  /\ Raise(w) /\ UNCHANGED incidents

EmptyDocument ==
  [ schema |-> 2, ids |-> FALSE, audit |-> FALSE, rev |-> 1,
    events |-> <<>>, discarded |-> 0, applied |-> {}, log |-> <<>> ]

Initialize(w) ==
  /\ At(w, "locked", {"initialize"})
  /\ IF canon = Missing THEN Write(w, EmptyDocument)
                        ELSE Raise(w) /\ UNCHANGED incidents

ValidBackups == {b \in backups : IsDocument(b.bytes) /\ Valid(b.bytes)}

(* Names sort by their timestamp.                                          *)
Newest(b, set) == \A c \in set : c.stamp <= b.stamp
(* Mutant: rotation removes the wrong end of the sorted names.             *)
Oldest_WrongEnd(b, set) == \A c \in set : c.stamp <= b.stamp
Oldest(b, set) == \A c \in set : b.stamp <= c.stamp

Restored(doc) == [doc EXCEPT !.rev = @ + 1]
Source(doc) == [doc EXCEPT !.rev = @ - 1]   \* what Restored(doc) came from

(* The backups at which the search for a valid one ends: it skips those    *)
(* that do not parse or validate, but decoding raises an error of another  *)
(* kind, which the search does not catch.                                  *)
Stops == ValidBackups \cup {b \in backups : b.bytes = Garbled}

(* restore_latest_valid_backup: keep the present bytes, then install the   *)
(* newest backup that validates, under the backup's revision plus one.     *)
Recover(w) ==
  /\ At(w, "locked", {"recover"})
  /\ \/ Stops = {} /\ Raise(w) /\ UNCHANGED incidents
     \/ \E b \in Stops \ ValidBackups :
          Newest(b, Stops) /\ Raise(w) /\ UNCHANGED incidents
     \/ \E b \in ValidBackups :
          /\ Newest(b, Stops)
          /\ quarantine' = IF canon = Missing THEN quarantine
                           ELSE quarantine \cup {canon}
          /\ draft' = [draft EXCEPT ![w] = Restored(b.bytes)]
          /\ Goto(w, "drafted")
          /\ UNCHANGED <<canon, backups, clock, locks, plan, txn,
                         outcome, history>>

-----------------------------------------------------------------------------
(* _atomic_write and _backup_current.                                      *)

(* The candidate is written to a private temporary file, synced and        *)
(* validated again.                                                        *)
Stage(w) ==
  /\ pc[w] = "drafted" /\ Goto(w, "staged")
  /\ UNCHANGED <<files, locks, plan, txn, draft, outcome, history>>

KeepsBackup(w) ==
  BackupLimit > 0 /\ Section(w) \notin {"recover", "initialize"}

(* The backup file exists from here on, but its bytes are incomplete, and  *)
(* the cut may fall inside a character.                                    *)
BeginBackup(w) ==
  /\ pc[w] = "staged" /\ KeepsBackup(w) /\ canon # Missing
  /\ \E cut \in {Corrupt, Garbled} :
       backups' = backups \cup {[stamp |-> clock, bytes |-> cut]}
  /\ clock' = clock + 1
  /\ Goto(w, "copying")
  /\ UNCHANGED <<canon, quarantine, locks, plan, txn, draft, outcome,
                 history>>

FinishBackup(w) ==
  /\ pc[w] = "copying"
  /\ backups' = {b \in backups : b.stamp # clock - 1}
                  \cup {[stamp |-> clock - 1, bytes |-> canon]}
  /\ Goto(w, "pruning")
  /\ UNCHANGED <<canon, quarantine, clock, locks, plan, txn, draft,
                 outcome, history>>

(* Expired backups are unlinked one by one, oldest first.                  *)
Prune(w) ==
  /\ pc[w] = "pruning" /\ Cardinality(backups) > BackupLimit
  /\ \E b \in backups : Oldest(b, backups) /\ backups' = backups \ {b}
  /\ UNCHANGED <<canon, quarantine, clock, locks, control, history>>

(* Mutant: rotation is skipped.                                            *)
ReadyToReplace_Unpruned(w) ==
  \/ pc[w] = "pruning"
  \/ pc[w] = "staged" /\ ~(KeepsBackup(w) /\ canon # Missing)

ReadyToReplace(w) ==
  \/ pc[w] = "pruning" /\ Cardinality(backups) <= BackupLimit
  \/ pc[w] = "staged" /\ ~(KeepsBackup(w) /\ canon # Missing)

(* os.replace.  What was replaced can be restored later only when a backup *)
(* was kept and the document was itself valid; after a recovery, that is   *)
(* the backup it used, which is the draft under its former revision.       *)
Replace(w) ==
  /\ ReadyToReplace(w)
  /\ canon' = draft[w]
  /\ last' = draft[w]
  /\ prior' = CASE Section(w) = "recover" -> Source(draft[w])
                [] KeepsBackup(w) /\ IsDocument(canon) /\ Valid(canon) -> canon
                [] OTHER -> None
  /\ Goto(w, "replaced")
  /\ UNCHANGED <<backups, quarantine, clock, locks, plan, txn, draft,
                 outcome, incidents>>

(* _sync_parent_directory, and the candidate is gone: nothing to clean up. *)
SyncParent(w) ==
  /\ pc[w] = "replaced" /\ Goto(w, "unlocking")
  /\ UNCHANGED <<files, locks, plan, txn, draft, outcome, history>>

(* A system call fails: no space, an I/O error.  The finally clauses       *)
(* remove the temporary file and release the lock; nothing else is undone. *)
(* With msvcrt locks there is no directory to sync after the rename.       *)
Fault(w) ==
  /\ pc[w] \in {"locked", "drafted", "staged", "copying", "pruning", "replaced"}
  /\ pc[w] = "replaced" => SharedLocks
  /\ Happens("fault")
  /\ Raise(w)

-----------------------------------------------------------------------------
(* The environment.                                                        *)

(* The process dies; the operating system drops its locks, files stay.     *)
Crash(w) ==
  /\ pc[w] # "idle" /\ Happens("crash")
  /\ readers' = readers \ {w} /\ writer' = writer \ {w}
  /\ Close(w, "unknown")
  /\ UNCHANGED <<files, last, prior>>

(* The canonical file is damaged at rest, outside any write.               *)
Damage ==
  /\ IsDocument(canon) /\ writer = {} /\ Happens("damage")
  /\ canon' = Corrupt
  /\ UNCHANGED <<backups, quarantine, clock, locks, control, last, prior>>

-----------------------------------------------------------------------------
SectionStep(w) ==
  \/ EnsureSchema(w) \/ NormalizeIds(w) \/ NormalizeAudit(w)
  \/ MigrateAccess(w) \/ ReadDocument(w) \/ Mutate(w) \/ CallbackRejects(w)
  \/ LoadFails(w) \/ Initialize(w) \/ Recover(w)

WriteStep(w) ==
  \/ Stage(w) \/ BeginBackup(w) \/ FinishBackup(w) \/ Prune(w)
  \/ Replace(w) \/ SyncParent(w)

(* What a started request does by itself, without faults or crashes.       *)
Progress(w) ==
  \/ Acquire(w) \/ TimeOut(w) \/ Unlock(w) \/ Unwind(w)
  \/ SectionStep(w) \/ WriteStep(w)

Next ==
  \/ \E w \in Workers :
       \/ \E request \in Requests, t \in Txns \cup {NoTxn} :
            Begin(w, request, t)
       \/ Progress(w) \/ LockError(w) \/ Fault(w) \/ Crash(w)
  \/ Damage

Fairness == \A w \in Workers : WF_vars(Progress(w))

Spec == Init /\ [][Next]_vars
FairSpec == Spec /\ Fairness

-----------------------------------------------------------------------------
(* Properties.                                                             *)

Held(w) == pc[w] \notin {"idle", "waiting"}
MayWrite(w) == Held(w) /\ Section(w) \notin SharedSections

(* Every variable keeps the shape the code gives it; a candidate about to  *)
(* be installed is a whole document.                                       *)
TypeOK ==
  /\ canon \in Document \cup {Missing, Corrupt}
  /\ backups \subseteq [stamp: Nat, bytes: Document \cup {Corrupt, Garbled}]
  /\ quarantine \subseteq Document \cup {Corrupt}
  /\ clock \in Nat \ {0}
  /\ readers \subseteq Workers /\ writer \subseteq Workers
  /\ pc \in [Workers -> Phases]
  /\ plan \in [Workers -> Seq(Sections)]
  /\ txn \in [Workers -> Txns \cup {NoTxn}]
  /\ draft \in [Workers -> Document \cup {None}]
  /\ outcome \in [Txns -> Outcomes]
  /\ last \in Document \cup {None} /\ prior \in Document \cup {None}
  /\ incidents \in [Incidents -> Nat]

(* While a section that may write is under way, from its load to the end   *)
(* of its finally clause, no other worker is inside any locked section:    *)
(* the load-check-replace of a mutation is never interleaved, whatever     *)
(* crashes, times out or fails.                                            *)
WritersAlone ==
  \A v, w \in Workers : v # w /\ MayWrite(v) => ~Held(w)

(* A mutation its caller was told had succeeded stays in the document.     *)
(* Only a recovery can undo one, and a recovery undoes at most one: the    *)
(* newest backup that validates is never older than the document the last  *)
(* write replaced.                                                         *)
DoneIsDurable ==
  Cardinality({t \in Txns : outcome[t] = "done"
                              /\ ~(last # None /\ t \in last.applied)})
    <= incidents["recovery"]

(* restore_latest_valid_backup returns to the newest committed document or *)
(* the one before it, although crashes leave incomplete backups behind and *)
(* rotation deletes by name, not by validity.                              *)
BackupCoversPrior ==
  /\ \A b \in ValidBackups :
       Newest(b, ValidBackups) => b.bytes \in {prior, last}
  /\ prior # None => ValidBackups # {}

(* No audit event is lost or dropped uncounted, in the document or in any  *)
(* backup of it, and a mutation never leaves more than the limit.          *)
AuditWindow ==
  /\ last # None => WindowOf(last)
  /\ \A b \in backups : IsDocument(b.bytes) => WindowOf(b.bytes)
  /\ last # None /\ prior # None /\ last.applied # prior.applied
       => Len(last.events) <= AuditLimit

(* Rotation keeps the directory bounded: the limit, the backup just made,  *)
(* and one more for each write that died before it could prune.            *)
BackupsBounded ==
  Cardinality(backups) <=
    BackupLimit + 1 + incidents["crash"] + incidents["fault"]

(* A started request always ends, whatever the others do with the lock.    *)
RequestsEnd ==
  \A w \in Workers : pc[w] # "idle" ~> pc[w] = "idle"

(* The store implements a versioned document that changes atomically.      *)
LegacyForms(doc) ==
  (IF doc.schema = 1 THEN {"access"} ELSE {})
    \cup (IF doc.ids THEN {"ids"} ELSE {})
    \cup (IF doc.audit THEN {"audit"} ELSE {})
VersionOf(doc) ==
  IF doc = None THEN None
  ELSE [ rev |-> doc.rev, legacy |-> LegacyForms(doc),
         applied |-> doc.applied, log |-> doc.log ]
Register == INSTANCE VersionedDocument WITH
  version <- VersionOf(last), previous <- VersionOf(prior),
  status <- CASE canon = Missing -> "absent"
              [] canon = Corrupt -> "damaged"
              [] OTHER -> "whole",
  asked <- incidents["recovery"] > 0
ImplementsRegister == Register!Spec

(* What a docstring of the repository says and the code does not do:       *)
(* utils/profile_store.py:581: invalid backups are skipped.  A recovery    *)
(* that meets no I/O error fails only when no backup is valid.             *)
RecoverySkipsInvalid ==
  [][\A w \in Workers :
       /\ At(w, "locked", {"recover"}) /\ pc'[w] = "unwinding"
       /\ UNCHANGED incidents
       => ValidBackups = {}]_vars
=============================================================================
