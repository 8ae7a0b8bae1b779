# A TLA+ model of the engineering cost determination application

The application under `src/` is a Flask server that computes product costs for
factories.  It keeps everything in JSON files: one document of users, grants,
factories and audit events (the *Profile document*), one file of planning
periods, and per factory a configuration directory, product metadata, bills of
materials and financial sources.  Requests run in several threads and
processes; operators run command-line scripts against the same files.  There is
no database: locks, renames and re-reads are what keeps the files right.

## 1. Inventory

| Component | State | Operations | Interacts with |
|---|---|---|---|
| **Profile store** `utils/profile_store.py`, `scripts/recover_profile_store.py`, `scripts/migrate_profile_access_model.py` | the canonical file, `backups/`, `corrupt/`, the lock file | `load_data`, `_mutate`, `_mutate_conditionally`, `initialize`, three schema upgrades run by the first request that needs them, `restore_latest_valid_backup` | every request reads it (session check); accounts, factories and audit events live in it |
| **Accounts, roles, grants, audit** `profile_store.py` callbacks, `utils/profile_users.py`, `utils/audit.py`, `modules/profile/routes.py`, `scripts/bootstrap_it_admin.py` | users, factories, audit events inside the document | create, edit, reset password, change own password, create factory, merge factories, bootstrap | callbacks of the store's mutations; pages and sessions around them |
| **Sessions and guards** `utils/auth.py`, `modules/auth/routes.py` | the session cookie | login, logout, `login_required`, `require_top_level_admin` | reads the account for every request, long before the transaction |
| **Authorization policy** `utils/profile_authorization.py`, `utils/factory_service.py`, `utils/profile_access_manager.py` | none (pure) | canonical grants, effective level, last-administrator rule | used by accounts and by every factory route |
| **Planning periods** `utils/planning_periods.py`, `scripts/manage_costing_bindings.py`, `scripts/initialize_planning_period.py` | the binding file | discover and activate an INITIAL period, approve a draft, bind by operator | read-modify-write of one file *without a lock*, by requests and commands |
| **Factory configuration V2** `utils/factory_configuration.py`, `modules/factory_parameters/routes.py` | the `configuration/` directory of a factory | `ensure_factory_configuration_v2` (locked, staged, swapped), `save_pool` and row edits (unlocked) | called by every costing request before it reads |
| **Product creation and hierarchy** `utils/product_creation.py`, `modules/product/routes.py`, `utils/product_hierarchy_service.py` | product directories, metadata, BOM files, the hierarchy file | create (locked across factories, compensated), refresh, `save_bom` | costing reads what it writes |
| **Legacy costing migration** `utils/legacy_costing_migration.py` | generated financial sources | create-only installation with `os.link` | triggered by costing requests, concurrently |
| **Costing engine and requests** `utils/costing_engine.py`, `modules/cost_calculation/routes.py` | one loader per request | bind a period, diagnose, migrate, read source by source, apply overrides, compute | composes the four components above |
| **Dashboard client** `static/js/dashboard-*.js` | selections, drafts, generation counters, outstanding requests | select, draft, issue, abort, accept or drop an answer | asynchronous requests to the analysis service |
| **Dashboard analysis service** `utils/dashboard_*.py`, `modules/dashboard/routes.py` | none (pure over one snapshot) | registries, scenarios, reports | costing engine, authorization policy |
| **Material prices** `utils/updaters.py`, `modules/general_parameters/routes.py` | the material file and its history | add, modify and delete rows by index | costing reads it |
| Registry discovery, legacy login import, pages/exports, benchmarks | - | - | see PROJECT.json |

**What is hard here.**  (a) The store: requests of several processes interleave
between locked sections, a request that finds an old schema upgrades it under a
*second* lock, and a crash or I/O fault may fall between any two system calls.
(b) Accounts: the page an administrator edits, the session check and the
transaction see three different documents; a recovery moves the document back
under pages that are open.  (c) The files outside the store are read, changed
and replaced without a lock, some of them in place, while a calculation reads one
after the other.  (d) Configuration and product publication are
several renames with compensation.  (e) The dashboard's answers arrive in any
order, and access may have changed meanwhile.  `PROJECT.json` lists each of these at its line under `hazards`.

**What makes each component correct.**

* Store: an answered mutation stays; writers are alone; an upgrade happens once;
  the backups always reach the last committed document or the one before it;
  retention loses no event uncounted; every request ends.
* Accounts: an active administrator always remains; only an active
  administrator changes accounts, judged at the transaction; an edit never
  overwrites what its page did not show; the audit trail accounts for the
  present state; a login name leads to one account.
* Planning periods: at most one active binding per factory, no period twice, an
  answer under a period its request could see.  (A binding *may* be lost: section 4.)
* Configuration: whoever is past the migration finds a whole configuration; an
  activation is final; a save that no other overlaps leaves exactly what it should.
* Products: a BOM only with a capacity; no two names that differ in case only; a
  failed creation leaves nothing; the hierarchy file is true; what was answered
  as created is offered.
* Legacy migration: an existing source is never replaced, whoever races; what it
  generates is never calculated with.
* Costing: costs rest on sources of their own request, those of one answer on the
  same ones; a pool is spread completely.
* Dashboard: what is shown belongs to the present selection and draft; varying a
  parameter is editing its cell; a report adds up; a refusal clears the page.

## 2. Plan

1. `VersionedDocument`, `ProfileStore`, `MCProfileStore`, `ProfileStore_proofs` -
   **done**, the refinement included.
2. `ProfileAccounts`, `MCProfileAccounts`, `ProfileAccounts_proofs` - **done**.
3. `PlanningPeriods`, `MCPlanningPeriods`, `PlanningPeriods_proofs` - **done**.
4. `FactoryConfiguration`, `MCFactoryConfiguration`,
   `FactoryConfiguration_proofs` - **done**.
5. `ProductCreation`, `MCProductCreation`, `ProductCreation_proofs` - **done**.
6. `CostFormula` (pure), `CostRequest`, `MCCostRequest`, `CostFormula_proofs`,
   `CostRequest_proofs` - **done**: the composition of the migration, the reads and
   the formula.
7. `AccessPolicy`, `Sensitivity`, `DashboardAnalysis` (pure), `Dashboard`,
   `MCDashboard`, `Dashboard_proofs` - **done**.

Which module uses which: `ProfileStore` implements `VersionedDocument`;
`ProfileAccounts` takes a mutation of it as one step.  `CostRequest` extends
`CostFormula` and relies on `PlanningPeriods` and `FactoryConfiguration`, whose
requests come before it, and on `ProductCreation` for the tree.  `Dashboard`
extends `Sensitivity` (which extends `CostFormula` and `AccessPolicy`) and
`DashboardAnalysis`.  Each `MC` module extends one of them.

Left: a module of the material prices' edits, once it is decided what several
deletions should leave (section 6).

## 3. Modules and the code

### VersionedDocument
What the store promises, without locks, files or phases: one document that
changes atomically by a mutation, an upgrade (each at most once), an
initialisation or a recovery that goes back at most one version; and a canonical
path that may be absent or damaged.

### ProfileStore
A *worker* is one request in one server process or one operator command.  Its
`plan` is the list of locked sections it still has to run:
`ensure_current_schema` first, under the shared lock; then the upgrades this
check found necessary, each under an exclusive lock of its own; then the section
the request came for.  `pc` walks through a section:

| `pc` | code |
|---|---|
| `waiting` | `_lock` polls `_acquire_file_lock` until the deadline |
| `locked` | the lock is held, the document is loaded and decided on: one action per operation (`EnsureSchema`, `NormalizeIds`, `NormalizeAudit`, `MigrateAccess`, `ReadDocument`, `Mutate`, `Initialize`, `Recover`, and the refusals `CallbackRejects`, `LoadFails`) |
| `drafted`, `staged` | `_atomic_write`: candidate validated, written, synced |
| `copying`, `pruning` | `_backup_current`: a backup that exists with incomplete bytes, then whole; then rotation, one unlink at a time |
| `replaced` | after `os.replace`, before the directory is synchronised |
| `unlocking`, `unwinding` | the `finally` clause on return, on an exception |

`Crash` may strike at any phase and drops the locks; `Fault` is a failing system
call; `LockError` a lock file that cannot be opened; `Damage` is damage of the
file at rest.  `SharedLocks` chooses flock (readers share) or msvcrt (they do not).
A document keeps only what the protocol tells apart: schema, old ids, old audit
names, revision, events, the discarded count, plus two history fields (mutations
applied, all events ever appended; a document the model starts with contains none
of the model's mutations, and its window is that of its events).  `Version` is
what a caller sees of one.  A mutation is its identity and the number of
events it appends.

The load, the callback and the decision to write are one action (`locked`): the
lock is held, nobody else writes, and the reads touch one file.  Everything after it is
split at each system call another process or a crash could observe.

### ProfileAccounts
Relies on the store's atomicity: a mutation is one step.  What interleaves are
the steps of a request around it - `Login`, `OpenForm` (the page shows an
account with its revision), `EnterAdministration` (the session check and the
administrator check of the view), then the transaction (`CreateUser`,
`UpdateUser`, `ResetPassword`, `ChangePassword`, `CreateFactory`), which reads
actor and target again from the document it changes - and the operator's
commands: `MergeFactories`, the bootstrap command in two steps
(`BootstrapAsk` checks the username, `BootstrapCreate` the address, later), and
`Recover`.  `Changes` is the set of partial updates of `prepare_user_update`;
`Keep` stands for a field the update does not mention.  `trail` is what replaying
an account's audit events tells of it (`Replayed`, event by event).  The document
the model starts with has an active administrator (`AdminAtFirst`), as the
bootstrap command leaves it.

Abstractions: `ADMIN` stands for both top-level roles, which the code treats
alike; a grant is the factory it is for; a name is its normalised form; passwords
are only the forced-change flag.  Ids are `uuid4`, which do not repeat (`issued`).

### PlanningPeriods
A *worker* is a request or a command.  A calculation request has 1 to
`MaxProducts` products (`left`) and one loader, whose `cache` is the binding file
as it first read it.  Each product goes through `load` (`_period_binding`),
and, when no single active period is found and the request may create one,
`discover`, `save` (`os.replace`) and `reload` (a fresh loader).  `Discover`,
`Approve` and `Bind` read the file and decide in one step, because each reads it
once; the whole new file waits in `pending` until `Save` renames it over
whatever the file has become.  `StartDiscovery` is the administrator's request
or the initialisation command, which skip the calculation.  Errors end a product
(`FailProduct`, `Refuse`); `Abandon` is a failed write or a dead process, which
leaves only a temporary file.

Abstractions: a binding is factory, period and status (`active`, `approved` and
`status` are only ever written together); its dates, sources and evidence are
taken to be valid; the checks of the actor, which the code makes before it reads
the file, are those of `ProfileAccounts`.  The worker's choice of product is the
`want` of `Load`: a factory and a period, or the active one.  `seen` is history.

### FactoryConfiguration
The directory of one factory.  A *worker* is a request, a startup or the
migration command; each begins with `ensure_factory_configuration_v2`:

| `pc` | code |
|---|---|
| `waiting` | polls `interprocess_file_lock`, at most 30 seconds |
| `locked` | looks at the manifest (`Inspect`): done, or legacy files read and a new directory staged, manifest last |
| `staged` | `rmtree` of an incomplete directory, one entry at a time in any order (`Clear`); then `os.replace` (`Activate`) and the lock is released |
| `ensured` | past it, without a lock: the request looks, or loads and prepares a document (`Prepare`) |
| `prepared`, `opened`, `written` | `save_pool`: the temporary file is created or truncated, written, renamed |

The temporary file has one name per pool, so that saves share it: two open files
may be one, and after a rename a worker may be writing into the pool itself, or
into a file nobody can reach any more.  `handle` says which.  Writing over
another's document leaves the longer one's end (`Garbled`), and a truncated file
is `Empty`; both are unreadable.  `End` is an answer, a refusal, an I/O error, a
lock timeout or a death: the lock is gone, the temporary file stays.

Abstractions: what the legacy files give is the constant `Legacy`; a row is its
cost; the two tables saved by `_atomic_json` behave as pools.  `rename` follows
POSIX: on Windows it fails while another has the file open, which `End` covers.
`alone` is history.

### ProductCreation
The tree of a factory: `folders`, the products with a capacity file
(`metadata`), what each `bom` holds, and the `hierarchy` file.  A *worker* is a
creation request:

| `pc` | code (`utils/product_creation.py`) |
|---|---|
| `waiting` | the preflight accepted the names; `.product-creation.lock` is polled |
| `making` / `metadata`, `bom` | the checks were repeated under the lock; the folder is made, or the two staged files are renamed, the BOM last |
| `scanning`, `refreshing` | `directory_tracer` walks the tree; the hierarchy file is renamed into place |
| `withdrawing` | something raised: what was published is unlinked in reverse, one call at a time (`Withdraw`, `WithdrawFails`) |
| `created`, `failed` | the lock is about to be released |

An *editor* is a session with a product page, which keeps a path: `StartSave`
truncates the file (or makes it again), `FinishSave` fills it, with nothing but
the path in common.  An unlinked file that is open is `detached`.  `RepairBom` is
the one step of a cost request that touches this tree.  `Listed` and `Offered`
are what the dashboard's filters show.  `Raise`, `WithdrawFails`, `Crash` and
`SaveDies` share the bound `MaxFaults`.

Abstractions: a name is a target, and only `Fold` says which names agree apart
from case; a product is in a folder, never in the factory itself
(`modules/product/routes.py:105`); a folder and its parent's folder are one level of `ParentOf`; what a
BOM holds is who wrote it last, whole or torn.

### CostFormula
Pure: the checks and the inputs of `CostInputLoader.load` in their order
(`LoadProblem`, `Inputs`), `WithOverrides`, and the V1 formula
(`utils/costing_engine.py`), in exact fractions, reduced by `Gcd` so that equal
ones are the same record.  `BomProblem` is the
calculation a BOM has to pass before `save_bom` writes it.

### CostRequest
A *request* is a single or bulk calculation or an analysis.  `cache` is its
loader.  A calculation goes product by product through `diagnose` (every source
is looked at), `migrating` (`install_missing_sources`: one link at a time, which
fails when the name is taken), `again` (a second diagnosis) and `reading`, one
file at a time, and calculates with the catalogue of that moment.  An analysis
captures its population first, reads everything once, failures included, and
writes nothing.  Editors put whole documents of shares and predictions, pools
without marks, and prices and BOMs in place (`StartSave`, `FinishSave`), so that
a reader may meet a `Torn` file.  What a cost was calculated from is kept in
`used`, so that the properties can compare it with what the files held (`since`).

Abstractions: a document is what one cell of it says (the predictions: one per
product) and its marks, `status` and `_migration`; all products are of one
category.  `Conflicting` names pools whose legacy detail and total disagree.

### AccessPolicy, Sensitivity, DashboardAnalysis
Pure modules `Dashboard` asks.  `AccessPolicy` is the effective level of a user
and the access to a factory (`utils/profile_authorization.py`,
`utils/factory_service.py`).  `Sensitivity` is the registry of a product's
parameters, their domains, the checks of a draft and the scenario
(`utils/dashboard_sensitivity.py`).  `DashboardAnalysis` is the report over a
selection (`utils/dashboard_analysis.py`).

### Dashboard
A page in one of its two tabs and the server.  `flights` are the requests under
way; each is answered (`Answer`) from a capture of the server's state at *some*
moment, or `Lost` (`Fail`), and arrives at any later moment (`Arrive`).  A
generation counter is the flag `current`, which an invalidation resets; an
aborted request may be answered nevertheless, and `Ignore` drops it.  `context`
is the snapshot that registry and baseline are shown from, `accepted` the
comparison or report on the page.  Meanwhile `Edit`, `Make` and `ChangeAccess`
change cells, products and the user's grants.  `Reset` is the button of the
sensitivity tab only.  The server's answers are computed
with the full formula, not drawn from a set.

### The proof modules
`ProfileStore_proofs`, `ProfileAccounts_proofs`, `PlanningPeriods_proofs`,
`FactoryConfiguration_proofs`, `ProductCreation_proofs`, `CostRequest_proofs` and
`Dashboard_proofs`: the theorems of section 5.  The last two extend
`CostFormula_proofs`, which has the lemmas about the formula and its arithmetic.

## 4. Runs

| Run | Bounds | Result |
|---|---|---|
| `recovery` | 2 workers, 3 mutations (appending 2, 1 and no events; one conditional), a current document with more events than the limit, 2 backups, 2 live events, one crash, one fault, one damage, one recovery, locks that only exclude (msvcrt) | writers are alone, answered work is durable up to the one undone by a recovery, the newest valid backup is the last document or the one before it, the audit window is exact, the protocol implements `VersionedDocument` |
| `upgrade` | 2 workers, one mutation; the file starts absent, in schema 1, or in schema 2 with old ids and audit names; 1 backup, one crash, one fault, shared and exclusive locks (flock) | types, upgrades happen once (refinement), the backups stay bounded, every request ends |
| `accounts` | 2 clients, two administrators, 2 names, 4 document revisions | an active administrator remains, only one changes accounts, no stale edit |
| `names` | 1 client, 3 ids, 3 names, an inactive and an unknown factory, bootstrap, discovery, one recovery | the audit trail reconstructs every account, login names stay distinct |
| `periods` | 2 workers, 4 requests or commands of at most 2 products, 2 factories (one without data), 2 periods; the file starts absent, with a draft, or with a first period that gave way to a second | no two active periods, no period twice, no answer under a period gone before its request |
| `configuration` | 3 workers, 3 requests, 2 pools of 2 rows, 2 costs; the directory starts absent, incomplete, or active | every request past the migration finds every document, an activation is final, a save without overlap is exact |
| `creation` | 2 workers, 2 editors, 4 folders (one there, two that differ in case, one nested), 2 products (one in the folder that is there, one in the nested one), 3 requests, 2 faults | types, no BOM without a capacity, no aliases, a true hierarchy, what was created stays and is offered, failures compensate, a BOM is unreadable only for a reason, the lock is left |
| `requests` | 2 requests, 2 products, 1 pool, a cell of 2 values or blank, 1 save; all sources there, a BOM missing that can or cannot be installed, or a factory activated without legacy files | types, costs are current, one answer uses one state of the shared sources, an analysis spreads the whole pool, nothing generated is used or replaces anything |
| `dashboard` | 2 factories (one without products), 3 products of which two share a name and one is made later, a currency that is also a material, one pool, 5 clicks, 2 requests under way, 1 edit of a cell, of the catalogue or of access | what is shown is current, drafts are offered, a scenario is an edit, reports add up, a refusal clears, no silent selection |
| `garbled_backup`, `lost_period`, `filled` | as `recovery`, `periods` (3 requests) and `requests` | violated: see Findings |

*Why the bounds are enough.*  Every property of the store relates at most two
concurrent sections, so two workers show each interleaving; three mutations are
needed for one to be answered, one to be undone and one to follow; they fill a
backup limit of two and rotate it, and an audit limit below the number of events
makes retention drop some.  The two runs take one kind of lock each: sharing
matters for the schema check, which is what `upgrade` exercises.  One incident of each kind falls at every
point of every section.  For accounts, two administrators who demote each other,
each holding an open page and a passed gate, are the smallest case in which every
check can be stale; the third id and name are needed only for clashes of names.
For periods, one writer overwrites another with two workers; a second product
shows the loader's cache, and further requests make files from overwritten ones.
For configurations, a save that died, one that runs and one that overlaps or
migrates need three requests.  For creation, two workers race for one name, or for
two that differ in case, and a third request builds on what one of them left; two
faults let a withdrawal fail after what it withdraws for.  A cost request shows a
mixture of states with one save between two reads or two products, and two
requests race for one missing source.  For the dashboard, two requests under way
are enough for every order of two answers; five clicks select a factory and a
product, enter and run a draft and change it again, or select anew.

*Fairness.*  `WF_vars(Progress(w))` for each worker and nothing else: a started
request is scheduled by its server.  No fairness is assumed of faults, crashes,
new requests or of getting the lock; `RequestsEnd` holds because `_lock` polls
up to a deadline (`TimeOut` is part of `Progress`).  Each attempt to lock is
non-blocking in the code, which is why weak fairness on the disjunction suffices.

In `ProductCreation` the fairness is the same, of creation requests only; an
editor may stop in the middle of a save.  `LockIsReleased` rests on the
`finally` of the lock (`Release` after success, failure and withdrawal alike).
`CostRequest` and `Dashboard` state no fairness and no liveness: a browser may be
closed, and nothing there waits for anything but its own reads.

*Deadlock.*  TLC checks for it in the runs of the store and of the accounts,
where a reader can always come and a client can always log out.  The other runs
stop when their bounded requests, saves or clicks are used up, so that it is off
there.

*Type invariants* are among the properties of `upgrade`, `creation` and
`requests` (and proved, see section 5); for the configuration and the periods the
proofs contain them (`Types`, `PeriodInv`).

*Mutants.*  Every property of a passing run has a mutant of the code's model
(defined just before the operator it replaces) that TLC must find in violation.

### Findings

1. `garbled_backup` - a backup cut inside a UTF-8 character raises
   `UnicodeDecodeError`, which the search for a valid backup does not catch: it
   ends although an older backup is valid, against its docstring
   (`utils/profile_store.py:581`).
2. `lost_period` - a discovery that found no period replaces the binding file
   without a lock: a period that an operator installed meanwhile is lost and the
   automatic one is active, although the runbook
   (`docs/pr05-5-cost-calculation-runbook.md:79`) says that nothing is created or
   activated when any period exists.
3. `filled` - shares and predictions the activation generates are marked with the
   status `NEEDS_INPUT`.  The editor puts the document back with the mark, so
   that an analysis goes on refusing it as "requires business input"
   (`utils/costing_engine.py:542`) when every value has been entered;
   `docs/product-creation-owner-uat.md:70-71` tells owners to enter missing
   values there later.  A cost calculation accepts the same file.

*Observed without a run.*  Each of these follows from a step the models contain
or name; none has a property, because the document is vague, the case is a
single step, or no document decides it.

* `_atomic_write` synchronises the directory after `os.replace`.  If that fails
  the caller is told of a failure although the change and its audit event are in
  the canonical file; `docs/audit-history.md:8` says neither remains.
* An upgrade of an old document backs up bytes that
  `restore_latest_valid_backup` does not accept: right after the first upgrade no
  backup is valid for it; `docs/phase-12-hardening-and-operations.md:77` speaks of
  a valid one.
* A recovery returns accounts with their own old revisions; a later edit reaches
  a revision number an open page already holds, and that page's edit is accepted;
  `docs/profile-user-management.md:19` says a stale version is refused.
* A withdrawal unlinks the BOM it published, also when an editor has saved it in
  between, although `create` (`utils/product_creation.py:105`) speaks of undoing
  only its own new writes.
* The migration a cost request starts also writes sources at their legacy root
  paths after activation, which the loader never reads;
  `docs/factory-configuration-v2.md:27-28` says there is no dual write.
* A bulk calculation looks the population up again for each product: a product
  made in between changes how the later ones share a pool.
  `AllocationIsComplete` is therefore a property of analyses.
* A BOM withdrawn after the diagnosis and installed again as a placeholder before
  the read would be calculated with.  `CostRequest` has no withdrawal.
* Whole documents of shares and predictions are put back: of two editors' cells
  one may be lost.
* A scenario that is refused after its capture carries no snapshot, so that the
  page drops the baseline with it;
  `docs/pr09-dashboard-sensitivity-ui.md:73-79` lets only failures before the
  capture, refusals of access and uncertain transport clear it.

## 5. Proofs

`ProfileStore_proofs` proves, for any sets of workers and mutations, any limits
and any number of incidents, from `StoreAssumption` alone:

* `TypeCorrect == Spec => []TypeOK`.  `TypeOK` is not inductive: `Replace`
  installs a worker's draft and `Section` takes the head of its plan.  `TypeInv`
  adds `WorkerOK`: a worker inside a request has a section to run, a worker past
  `drafted` has a document as its draft, and the mutation of a mutating section
  is a real one.  Lemmas state what retention, mutation, upgrade and restoration
  return (a document again).
* `WritersAreAlone == Spec => []WritersAlone`.  The strengthening `LockInv` ties
  `pc` to the lock: a worker inside a shared section is exactly in `readers` or
  `writer`, as its section says, one inside an exclusive section is in `writer`,
  there is at most one writer and, while there is one, no reader.  Only
  `Acquire` can break it, and its guard `LockFree` is what restores it.

The same module proves the other four invariants of the store and its
refinement, again from `StoreAssumption` alone.

* *Kinds of steps.*  `Steps` sorts every step of a worker by what it does to the
  files and to the history: it starts or ends a request, turns to the next
  section, checks the schema, moves within a section, drafts a document
  (`Drafts`: `Fits` says what each section drafts from what it has loaded), or
  saves (`BeginBackup`, `FinishBackup`, `Prune`, `Replace`).  All that follows is
  proved by kind.  `Plans` says that the sections of a request come in order, and
  that a recovery that is under way has been counted.
* `BackupsAlwaysCoverPrior == Spec => []BackupCoversPrior`.  `FilesInv`
  strengthens it by the state of the write under way: while a section holds the
  lock after its load, its draft still fits the canonical bytes (they change only
  by `Replace` and by `Damage`, which waits for the writer), and a backup being
  made has the newest stamp, incomplete bytes first and then the canonical ones.
  `Prune` keeps the property because what it removes is the oldest of more than
  `BackupLimit >= 1` files, and the newest is the copy of the document about to be
  replaced.
* `DoneIsAlwaysDurable == Spec => []DoneIsDurable`.  `TxnInv` says where a
  mutation can be: absent from every file until its worker's `Replace`, in the
  newest document from there to the answer, and the newest document has at most
  one mutation more than the one it replaced.  `LostInv` then counts: each
  recovery that was asked for has either lost the one mutation it can lose, or
  may lose it yet (`Lost` and `Pending` together are at most the recoveries).
* `AuditAlwaysWindow == Spec => []AuditWindow`.  A window is aligned when the live
  events are the end of the log and the count is the rest; retention, appending,
  and each of the drafts keep it aligned (`RetainAligned`, `AppendAligned`,
  `WrittenWindow`).
* `BackupsAlwaysBounded == Spec => []BackupsBounded`.  `BoundInv` says how far the
  directory may exceed its limit: by one for each crash or fault so far, and by
  one more only while a write stands between its backup and its rotation, which
  is what a crash or a fault then turns into the former.
* `StoreImplementsRegister == Spec => ImplementsRegister`: the initial states map
  to initial states of `VersionedDocument` (`InitRegister`), a `Replace` to
  `Commit`, `Upgrade`, `Create` or `Restore`, as its section says
  (`ReplaceRegister`), `Damage` to `Damage`, the start of a recovery to `Ask`, and
  every other step to a stutter (`StepRegister`).  `Commit` needs that the
  mutation is not in the document yet (`TxnInv`), `Restore` that the backup is of
  one of the last two versions (`FilesInv`).

`ProfileAccounts_proofs` proves, for any accounts, names, clients and bounds and
from `AccountsAssumption`, `AdminAtFirst` and the other assumptions of the module:

* `AdminAlwaysRemains == Spec => []AdminRemains` and `TrailAlwaysReconstructs ==
  Spec => []AuditReconstructs`.  A recovery installs the document from before the
  last change, so that `AccountsInv` asks the same of it as of the present one
  (`GoodDocument` of both, as long as a recovery may still come).  An edit appends
  at most four events, so that what replaying them gives can be written out
  (`ReplayedEquation`) and no induction is needed.
* `LoginsAlwaysStayDistinct`, `ActorsAreAlwaysAdmins` and `NeverStaleEdit`, which
  are action properties.  The last one assumes `MaxRecoveries = 0`, as the run
  `accounts` does: `PagesInv` says that a page's revision is never ahead of the
  account's and that equal revisions show equal accounts, which a recovery breaks
  (section 4).

`PlanningPeriods_proofs` proves, for any sets of workers, factories and periods
and from `PeriodsAssumption` (which asks that the file is consistent at the
start), `OneActivePeriod == Spec => []OneActive` and
`OneRecordPerPeriod == Spec => []OnePerPeriod`.  A `Save` may install a file made
long before, from a file that is gone, so neither is inductive.  `PeriodInv` adds
that every *pending* file is consistent too; the lemmas `FirstRecord`,
`ApprovedRecord` and `BoundRecord` show that each of the three writers makes a
consistent file from a consistent one, and `Prepared` and `NothingPrepared` that
a step keeps the invariant if it makes such a file, or none, ready.  A lost
update loses a period but cannot make the file contradict itself.
`AnswersAlwaysCurrent == Spec => []AnswersAreCurrent` needs `AskingInv`: while a
worker is asking, whatever the file holds has been seen, and so has all that its
loader keeps for the products that are left.

`FactoryConfiguration_proofs` proves, for any sets of workers, pools, rows and
costs and from `ConfigurationAssumption`, `EnsuredConfigurationIsWhole == Spec =>
[]EnsuredIsWhole` and the action property `ActivationIsFinal == Spec =>
ActivatedForGood`.  `ConfigurationInv` says that a worker inside the locked
section holds the lock, that one who staged a directory found none active
(nobody else can have activated one since, the lock being his), that one past the
section finds it active, and that an active directory has every document.  The
conjunct about the lock is what `Activate` needs: `NobodyElse` derives from it
that no other worker is past `waiting`.  `LoneSavesStayExact == Spec =>
LoneSavesAreExact` is an action property from `LoneInv`: a save that has been alone
is still the only one of its pool, its draft is the result for the document that
is there, and the temporary file is its own, empty or complete, whatever a save
that died had left in it.

`ProductCreation_proofs` proves, for any tree, workers, editors, requests and
faults and from `CreationAssumption`, `CreationTypes == Spec => []TypeOK`,
`HierarchyIsTrue == Spec => []HierarchyExists` and `BomNeedsCapacity == Spec =>
[]BomHasCapacity`.  `CreationInv` adds `Mutex` (who is inside holds the lock),
`Own` - what a worker's place and what it has published say of the tree: a folder
it may still withdraw is not yet listed, its scan is of folders that are there, a
BOM it may still publish has its capacity, and capacity without BOM in `mine`
means that there is no BOM - and `WriterOK`: a file being written exists.
`Refresh` needs the second, `WithdrawFolder` the first, `WithdrawMetadata` the
last part of `Own`; `OthersOutside` keeps everybody else from disturbing them.

`NeverAliases`, `FailuresLeaveNothing` and `CreatedIsAlwaysOffered` (`Spec =>
[]NoAliases`, `[]FailureLeavesNothing`, `[]CreatedIsOffered`) are proved together,
by `TreeInv`.  It adds for the creation under way that nothing that is there
agrees with its target but for case (`Alone`, the result of the checks under the
lock), that what it has published has no other explanation (`OnlyMine`, so that
withdrawing it leaves nothing and takes nothing away), and that before it is
answered the target is complete and shown by the hierarchy file (`Ready`); and
that every folder is in a folder that is there (`Closed`).
`SavedIsAlwaysReadable == Spec => []SavedIsReadable` rests on `SaveInv`: a file
whose saves have not clashed has one writer at most, and is empty while it has.

`CostRequest_proofs` proves, for any requests, products, pools and saves and from
`RequestAssumption`, `RequestTypes` and the four properties `CostsAreCurrent`,
`OneAnswerOneSource`, `PlaceholderNeverUsed` and `MigrationNeverReplaces`
(`CostsRestOnTheirRequest`, `AnswersAreConsistent`, `NoPlaceholderIsCosted`,
`NothingIsReplaced`).  `RequestInv` says that a loader holds nothing its files
have not held since the request began (`LoaderOK`), that every answer rests on
what the loader still holds (`AnswersOK`), that what a calculation has still to
read was found `Clean` and stays so, because no save generates a document and
nothing is installed over one (`ReadingOK`), and that shares and predictions
never carry the mark of a migration (`FilesOK`).

`CostFormula_proofs` is about operators only, for every input.  `Gcd` and the sums
over sets of products recurse over numbers and finite sets, and the library's
induction theorems cannot be used because they take the induction formula as a
parameter.  The proofs go by *least counterexample* instead: a set that
contains every number (every subset) whose predecessors it contains, contains all
(`StrongInduction`, `SubsetInduction`), and that is a statement about a set, which
follows from `<` being well-founded (`LeastOf`).  From it:

* `GcdEquation` and `GcdIsGcd`: `Gcd` satisfies its recursive equation and divides
  both of its arguments, and whatever divides both divides it.  `LowestTerms`,
  `FractionEqual` and `CrossProducts` conclude that two fractions are the same
  record exactly when their cross products agree; `PlusOf`, `TimesOf` and `MinusOf`
  are the rules of school.
* `FoldExists`, `FoldUnique` and `FoldAny`: folding a finite set with an operation
  whose order does not matter gives one result, whatever order the choices of the
  fold come in.  So `TotalAdds` (a sum with one more term), `TotalPlus`,
  `TotalTimes`, `TotalOfPart` and `TotalExchange` (the sum of the sums of the rows
  is that of the columns).
* `AverageIsBetween`: what a sum of fractions comes to per term is not below the
  least nor above the greatest (`Extremes`, `TotalBelow`).
* `PoolIsSpread`: if everybody has the same pool, share and predictions, and those
  are of exactly these products, then the contributions add up to the pool over the
  share: what each takes is its part of the sum of the predictions.

`AllocationIsAlwaysComplete == Spec => []AllocationIsComplete` puts it together with
the requests.  `SpreadInv` says that every product an analysis has calculated was
calculated with the population captured at its start and from sources that were
there and whole.  `AnswersAreConsistent` says that the pool, the share and the
predictions were the same for all of them; what the checks accept is positive
(`LoadedFrom`, `CalculatedFrom`), and `PoolIsSpread` applies.

`Dashboard_proofs` proves, for any factories, products, drafts, access and cells,
any number of clicks and of requests under way, `ShownIsAlwaysCurrent`,
`DraftsAreAlwaysOffered`, `RefusalAlwaysClears` and `SelectionIsNeverSilent`
(`Spec => []ShownIsCurrent` and so on), whatever the server answers.
`DashboardInv` says that at most *one* request is awaited, of all kinds together,
that it was sent for the selection and the draft that are on the page, and that
while it is awaited nothing is accepted (`Awaited`): an answer that counts when it
arrives is therefore for what is shown.

`ScenarioIsAlwaysAnEdit == Spec => []ScenarioIsAnEdit` is about what the answers
say.  Of the requests it needs only that they are answered from captures, of cells
that hold numbers or nothing, and ask for products (`CapturesInv`).  The rest is
about the operators, for every capture: `LoadsWhen` says when a product can be
loaded, cell by cell, and `InputsRead` what is read then; `PricesOf`, `RatesOf` and
`FactoryValuesOf` follow each override to the one cell it stands for, because a
draft with two parameters of one cell is refused and a prediction that products
share is not offered, so that `OverridesAreEdits` equates the overridden inputs with
those read from the edited cells.  `EditsLoad` and `EditedInDomain` compare the
refusals: the edit can be loaded and calculated exactly when every final value is in
its domain and the formula accepts the inputs.  The assumptions of `Dashboard` say
what this needs of the constants: a cell holds an integer or nothing, and parameters
are varied in sets that are not empty.

`ReportAlwaysAddsUp == Spec => []ReportAddsUp`.  `ReportsInv` says of the page that
an accepted report was made from a capture and is for products that exist, so that
the rest is about the operators (`ReportOfCapture`).  A cost is the sum of its
drivers (`PartsAddUp`), and a report adds up costs by product and drivers by kind:
`DriversAddUp` exchanges the two sums.  The average is `AverageIsBetween`.  What
`state` says comes from two counts, of the products that were calculated and of
those selected; the one set being part of the other, they agree exactly when nothing
was left out (`StateMeans`), and a total of a part is then never shown as the whole.
`BaselineIs`, `BaselineReported` and `BaselineCode` say that what a capture answers
for a product is a cost, whose share and predictions are positive, or a refusal.

Both theorems assume that there are finitely many products, and the second that
there are finitely many pools and that no pool is called `BOM`: a population and a
selection are lists read from files (`utils/product_hierarchy_service.py`), and the
pools are the fixed `FACTORY_POOL_IDS`, to which `utils/dashboard_visuals.py:7`
adds the name `BOM` for a driver of its own.

The non-temporal steps are proved action by action, and the last step of each
theorem combines them with PTL.

*Only model-checked:* liveness (`RequestsEnd`, `LockIsReleased`), since fairness is
outside the prover's reach.  `NoStaleEdit` does not hold with recoveries and is
proved without.  The properties that the runs `garbled_backup`, `lost_period` and `filled`
check are violated.  `CostFormula` computes in exact fractions, and so do its proofs:
they say nothing of the rounding of `Decimal` (section 6).

## 6. Assumptions and what is not modelled

* Backup names carry wall-clock timestamps.  The model assumes that two never
  collide and that the clock does not step back.
* A rename that was made survives a crash of the process; the loss of a renamed
  but unsynchronised directory entry in a power failure is not modelled.
* The bootstrap command compares its username with usernames and addresses, but
  the address typed afterwards only with addresses: it can make one name answer
  to two accounts.  `LoginsStayDistinct` is therefore a property of the
  application's requests.
* A display name already taken makes a whole discovery merge fail; display names
  are abstracted and the failure is one of the refusals.
* Money is exact in `CostFormula`; `Decimal` rounds at 28 digits.  The values of
  the runs are small numbers, chosen for the cases they make.
* Aliases of a pool's path by symbolic links, and the sharing of one file by two
  sources, are left out.  `LEGACY_SOURCE_CONFLICT` is in `EndMigration`, but no
  run has conflicting pools; `PREDICTION_DIVERGENCE`, a warning about legacy
  files, is left out.
* Edits of the material prices: `CostRequest` has that the file is rewritten in
  place, not which rows change.  Several rows are deleted by indices taken before
  the first deletion (`utils/updaters.py:322-324`), and the history appends added
  materials again and drops edited prices (`utils/updaters.py:298-303`); no
  document or test says what should result, so that no property could be stated.
* `Dashboard` leaves out the selects of category, subcategory and period, draft B
  and the experiments of the lab, which follow the same protocol, the charts, and
  the checks of the other pages.
* The scripts that diagnose sources only report.  The one-time import of legacy
  logins, pages, exports, localisation, benchmarks and release tooling keep no
  state that other parts rely on and are not modelled; nor is password hashing.
