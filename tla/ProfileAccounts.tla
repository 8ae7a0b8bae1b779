-------------------------- MODULE ProfileAccounts --------------------------
(***************************************************************************)
(* The user accounts, roles, grants and factories kept in the Profile      *)
(* document, and the requests that administer them.  ProfileStore shows    *)
(* that a mutation is applied whole, alone and to the newest document;     *)
(* here each mutation is one step, and what interleaves are the steps of a *)
(* request around it: the session check, the page an administrator has     *)
(* open, and the transaction, which meets whatever the document has become.*)
(*                                                                         *)
(* "ADMIN" stands for the two top-level roles.  A grant is abstracted to   *)
(* the factory it is for, a name to its normalised form.                   *)
(***************************************************************************)
EXTENDS Integers, FiniteSets, Sequences

CONSTANTS
  UserIds,        \* ids that accounts may get
  Names,          \* normalised e-mail addresses and usernames
  Factories,      \* factories that may come to be known
  Clients,        \* browsers, each with a session cookie and one open page
  InitialUsers,   \* the accounts the model starts with
  InitialFactories, \* and the state of each factory
  InitialSessions,  \* the accounts clients are already logged in to
  MaxRevision,    \* bound on metadata.revision
  MaxRecoveries,  \* bound on operator recoveries
  Keep,           \* a field an update does not mention
  None

Roles == {"USER", "ADMIN"}
Account ==
  [ role: Roles, active: BOOLEAN, grants: SUBSET Factories,
    email: Names, username: Names, must: BOOLEAN, revision: Nat ]

VARIABLES
  doc,        \* the canonical document
  prior,      \* the document before the last mutation, while a recovery may come
  session,    \* the user id in each client's cookie
  form,       \* the account, as it was read, that each client's page edits
  gate,       \* requests that passed the session check: who, and for what
  prompt,     \* the username a running bootstrap command found to be free
  issued,     \* ids given out so far: uuid4 does not repeat one
  recoveries  \* bounded by MaxRecoveries

vars == <<doc, prior, session, form, gate, prompt, issued, recoveries>>
clients == <<session, form, gate>>
operator == <<prompt, issued, recoveries>>

(* What the audit trail tells about an account.                            *)
Trail(account) ==
  [ role |-> account.role, active |-> account.active,
    grants |-> account.grants, must |-> account.must ]
TrailOf(users) ==
  [u \in UserIds |-> IF users[u] = None THEN None ELSE Trail(users[u])]

AccountsAssumption ==
  /\ InitialUsers \in [UserIds -> Account \cup {None}]
  /\ InitialFactories \in [Factories -> {"unknown", "active", "inactive"}]
  /\ InitialSessions \in [Clients -> UserIds \cup {None}]
  /\ MaxRevision \in Nat /\ MaxRecoveries \in Nat
  /\ None \notin UserIds \cup Names /\ None \notin Account
  /\ Keep \notin Roles /\ Keep \notin BOOLEAN /\ Keep \notin Names
  /\ \A grants \in SUBSET Factories : Keep # grants
ASSUME AccountsAssumption

Init ==
  /\ doc = [ users |-> InitialUsers, factories |-> InitialFactories,
             trail |-> TrailOf(InitialUsers), revision |-> 1 ]
  /\ prior = IF MaxRecoveries > 0 THEN doc ELSE None
  /\ session = InitialSessions
  /\ form = [c \in Clients |-> None]
  /\ gate = [c \in Clients |-> None]
  /\ prompt = None
  /\ issued = {u \in UserIds : InitialUsers[u] # None}
  /\ recoveries = 0

-----------------------------------------------------------------------------
(* The document.                                                           *)

Exists(u) == doc.users[u] # None
IsAdmin(account) == account.role = "ADMIN"
ActiveAdmin(users, u) ==
  users[u] # None /\ users[u].active /\ IsAdmin(users[u])

(* The bootstrap command has made the first administrator by then.         *)
AdminAtFirst == \E u \in UserIds : ActiveAdmin(InitialUsers, u)
ASSUME AdminAtFirst

Known == {f \in Factories : doc.factories[f] # "unknown"}
Assignable == {f \in Factories : doc.factories[f] = "active"}

EmailFree(u, email) ==
  \A v \in UserIds \ {u} : Exists(v) => doc.users[v].email # email

(* validate_data on the accounts of a candidate: a known role, unique      *)
(* addresses, unique usernames, known factories, no stored grants for      *)
(* administrators.                                                         *)
ValidUsers(users) ==
  \A u \in UserIds : users[u] # None =>
    /\ users[u].role \in Roles
    /\ users[u].grants \subseteq Known
    /\ IsAdmin(users[u]) => users[u].grants = {}
    /\ \A v \in UserIds \ {u} : users[v] # None =>
         users[v].email # users[u].email /\ users[v].username # users[u].username

(* What one audit event changes in what the trail tells of its target.     *)
Tell(told, event) ==
  CASE event.action = "USER_CREATED" ->
         [role |-> event.role, active |-> TRUE, grants |-> {}, must |-> TRUE]
    [] event.action = "SYSTEM_ROLE_CHANGED" -> [told EXCEPT !.role = event.after]
    [] event.action = "ACCESS_GRANTS_CHANGED" ->
         [told EXCEPT !.grants = (@ \ event.removed) \cup event.added]
    [] event.action = "USER_ACTIVATED" -> [told EXCEPT !.active = TRUE]
    [] event.action = "USER_DEACTIVATED" -> [told EXCEPT !.active = FALSE]
    [] event.action = "PASSWORD_CHANGED" -> [told EXCEPT !.must = FALSE]
    [] event.action = "PASSWORD_RESET_BY_ADMIN" -> [told EXCEPT !.must = TRUE]
    [] OTHER -> told

(* What a sequence of them tells.                                          *)
Replayed(told, events) ==
  LET after[n \in 0 .. Len(events)] ==
        IF n = 0 THEN told ELSE Tell(after[n - 1], events[n])
  IN  after[Len(events)]

GrantEvents(before, after) ==
  IF before = after THEN <<>>
  ELSE << [ action |-> "ACCESS_GRANTS_CHANGED",
            added |-> after \ before, removed |-> before \ after ] >>

(* Mutant: the role event is emitted, the grants it clears are not.        *)
UpdateEvents_RoleOnly(before, after) ==
  (IF before.role = after.role THEN <<>>
   ELSE <<[action |-> "SYSTEM_ROLE_CHANGED", after |-> after.role]>>)
  \o (IF before.role # after.role THEN <<>>
      ELSE GrantEvents(before.grants, after.grants))
  \o (IF before.active = after.active THEN <<>>
      ELSE <<[action |-> IF after.active THEN "USER_ACTIVATED"
                                         ELSE "USER_DEACTIVATED"]>>)

UpdateEvents(before, after) ==
  <<[action |-> "USER_UPDATED"]>>
  \o (IF before.role = after.role THEN <<>>
      ELSE <<[action |-> "SYSTEM_ROLE_CHANGED", after |-> after.role]>>)
  \o GrantEvents(before.grants, after.grants)
  \o (IF before.active = after.active THEN <<>>
      ELSE <<[action |-> IF after.active THEN "USER_ACTIVATED"
                                         ELSE "USER_DEACTIVATED"]>>)

(* The backup a mutation leaves, forgotten when no recovery is to come.    *)
Remember(replaced) ==
  prior' = IF recoveries < MaxRecoveries THEN replaced ELSE None

(* A mutation that writes one account and appends these events about it.   *)
WriteAccount(u, account, events) ==
  LET users == [doc.users EXCEPT ![u] = account]
  IN  /\ doc.revision < MaxRevision
      /\ ValidUsers(users)
      /\ doc' = [doc EXCEPT !.users = users, !.revision = @ + 1,
                            !.trail[u] = Replayed(@, events)]
      /\ Remember(doc)

-----------------------------------------------------------------------------
(* Sessions and the checks before a view runs.                             *)

LoggedIn(account) == [account EXCEPT !.revision = @ + 1]

(* authenticate_user finds the account by username or address, checks it   *)
(* and records the login in one mutation; the view replaces the session.   *)
Login(c, name) ==
  /\ \E u \in UserIds :
       /\ Exists(u) /\ name \in {doc.users[u].username, doc.users[u].email}
       /\ doc.users[u].active
       /\ WriteAccount(u, LoggedIn(doc.users[u]), <<>>)
       /\ session' = [session EXCEPT ![c] = u]
  /\ UNCHANGED <<form, gate, operator>>

Logout(c) ==
  /\ session' = [session EXCEPT ![c] = None]
  /\ UNCHANGED <<doc, prior, form, gate, operator>>

(* load_current_user: the account is read again for every request.         *)
CurrentUser(c) ==
  session[c] # None /\ Exists(session[c]) /\ doc.users[session[c]].active

(* login_required also sends a flagged account to the password form.       *)
LoginRequired(c) == CurrentUser(c) /\ ~doc.users[session[c]].must

(* An administrator's page shows an account and keeps it for the edit.     *)
OpenForm(c, u) ==
  /\ LoginRequired(c) /\ IsAdmin(doc.users[session[c]]) /\ Exists(u)
  /\ form' = [form EXCEPT ![c] = [target |-> u, seen |-> doc.users[u]]]
  /\ UNCHANGED <<doc, prior, session, gate, operator>>

EnterAdministration(c) ==
  /\ gate[c] = None
  /\ LoginRequired(c) /\ IsAdmin(doc.users[session[c]])
  /\ gate' = [gate EXCEPT ![c] = [actor |-> session[c], view |-> "admin"]]
  /\ UNCHANGED <<doc, prior, session, form, operator>>

EnterChangePassword(c) ==
  /\ gate[c] = None /\ CurrentUser(c)
  /\ gate' = [gate EXCEPT ![c] = [actor |-> session[c], view |-> "password"]]
  /\ UNCHANGED <<doc, prior, session, form, operator>>

Inside(c, view) == gate[c] # None /\ gate[c].view = view
Leave(c) ==
  /\ gate' = [gate EXCEPT ![c] = None]
  /\ UNCHANGED <<session, form, prompt, recoveries>>

(* The transaction refuses, or the store fails: the view answers an error. *)
Refuse(c) == gate[c] # None /\ Leave(c) /\ UNCHANGED <<doc, prior, issued>>

-----------------------------------------------------------------------------
(* The transactions.                                                       *)

(* Mutant: the view's check is trusted.                                    *)
ActorIsAdmin_AtTheGate(c) == Inside(c, "admin")
(* The actor is read again from the document the transaction will change.  *)
ActorIsAdmin(c) == ActiveAdmin(doc.users, gate[c].actor)

CreateUser(c, u, email, role, submitted) ==
  /\ Inside(c, "admin") /\ ActorIsAdmin(c)
  /\ u \notin issued /\ issued' = issued \cup {u}
  /\ EmailFree(u, email) /\ submitted \subseteq Assignable
  /\ LET grants == IF role = "ADMIN" THEN {} ELSE submitted
     IN  WriteAccount(u,
           [ role |-> role, active |-> TRUE, grants |-> grants,
             email |-> email, username |-> email, must |-> TRUE,
             revision |-> 1 ],
           <<[action |-> "USER_CREATED", role |-> role]>>
             \o GrantEvents({}, grants))
  /\ Leave(c)

New(value, old) == IF value = Keep THEN old ELSE value

(* would_leave_active_admin, negated.                                      *)
AdminStays(u, role, active) ==
  \/ \E v \in UserIds \ {u} : ActiveAdmin(doc.users, v)
  \/ role = "ADMIN" /\ active

(* Mutant: only the session check stands between an admin and an edit.     *)
MayEdit_Unchecked(c, u, change) == TRUE
(* One's own role, state and address are for another administrator.        *)
MayEdit(c, u, change) ==
  /\ ActorIsAdmin(c)
  /\ gate[c].actor = u =>
       change.role = Keep /\ change.active = Keep /\ change.email = Keep
  /\ AdminStays(u, New(change.role, doc.users[u].role),
                   New(change.active, doc.users[u].active))

Changes ==
  [ role: Roles \cup {Keep}, active: BOOLEAN \cup {Keep},
    email: Names \cup {Keep}, grants: (SUBSET Factories) \cup {Keep} ]

(* Mutant: a new address does not become the username.                     *)
Edited_UsernameStays(old, change) ==
  [old EXCEPT
     !.role = New(change.role, @), !.active = New(change.active, @),
     !.grants = IF New(change.role, old.role) = "ADMIN" THEN {}
                ELSE New(change.grants, @),
     !.email = New(change.email, @), !.revision = @ + 1]

Edited(old, change) ==
  [old EXCEPT
     !.role = New(change.role, @), !.active = New(change.active, @),
     !.grants = IF New(change.role, old.role) = "ADMIN" THEN {}
                ELSE New(change.grants, @),
     !.email = New(change.email, @), !.username = New(change.email, @),
     !.revision = @ + 1]

(* The account is still the one the page was made from, as far as its      *)
(* revision tells.                                                         *)
FormIsCurrent(c) ==
  /\ form[c] # None /\ Exists(form[c].target)
  /\ doc.users[form[c].target].revision = form[c].seen.revision

UpdateUser(c, change) ==
  /\ Inside(c, "admin") /\ FormIsCurrent(c)
  /\ LET u == form[c].target
         old == doc.users[u]
         new == Edited(old, change)
     IN  /\ MayEdit(c, u, change)
         /\ EmailFree(u, new.email)
         /\ change.grants # Keep => change.grants \subseteq Assignable
         /\ WriteAccount(u, new, UpdateEvents(old, new))
  /\ Leave(c) /\ UNCHANGED issued

ResetPassword(c) ==
  /\ Inside(c, "admin") /\ ActorIsAdmin(c) /\ FormIsCurrent(c)
  /\ LET u == form[c].target
     IN  /\ ~(gate[c].actor = u /\ IsAdmin(doc.users[u]))
         /\ WriteAccount(u,
              [doc.users[u] EXCEPT !.must = TRUE, !.revision = @ + 1],
              <<[action |-> "PASSWORD_RESET_BY_ADMIN"]>>)
  /\ Leave(c) /\ UNCHANGED issued

(* Mutant: one's own change of password does not count as a new revision.  *)
PasswordChanged_SameRevision(account) == [account EXCEPT !.must = FALSE]
PasswordChanged(account) ==
  [account EXCEPT !.must = FALSE, !.revision = @ + 1]

ChangePassword(c) ==
  /\ Inside(c, "password")
  /\ LET u == gate[c].actor
     IN  /\ Exists(u) /\ doc.users[u].active
         /\ WriteAccount(u, PasswordChanged(doc.users[u]),
              <<[action |-> "PASSWORD_CHANGED"]>>)
  /\ Leave(c) /\ UNCHANGED issued

AddFactories(new) ==
  /\ new # {} /\ new \cap Known = {} /\ doc.revision < MaxRevision
  /\ doc' = [doc EXCEPT !.revision = @ + 1, !.factories =
               [f \in Factories |-> IF f \in new THEN "active" ELSE @[f]]]
  /\ Remember(doc)

CreateFactory(c, f) ==
  /\ Inside(c, "admin") /\ ActorIsAdmin(c)
  /\ AddFactories({f})
  /\ Leave(c) /\ UNCHANGED issued

-----------------------------------------------------------------------------
(* The operator's commands.                                                *)

(* Discovery merges the factories found on disk; known ones stay as is.    *)
MergeFactories(found) ==
  AddFactories(found \ Known) /\ UNCHANGED <<clients, operator>>

(* bootstrap_it_admin asks for a username and stops when some account      *)
(* answers to it.                                                          *)
BootstrapAsk(username) ==
  /\ prompt = None
  /\ \A u \in UserIds : Exists(u) =>
       username \notin {doc.users[u].username, doc.users[u].email}
  /\ prompt' = username
  /\ UNCHANGED <<doc, prior, clients, issued, recoveries>>

(* Once the other questions are answered, create_user checks the address   *)
(* only.  It appends no event: what the trail tells of such an account     *)
(* starts from the account itself.                                         *)
BootstrapCreate(u, email) ==
  LET account == [ role |-> "ADMIN", active |-> TRUE, grants |-> {},
                   email |-> email, username |-> prompt, must |-> FALSE,
                   revision |-> 1 ]
      users == [doc.users EXCEPT ![u] = account]
  IN  /\ prompt # None /\ prompt' = None
      /\ u \notin issued /\ issued' = issued \cup {u}
      /\ EmailFree(u, email) /\ ValidUsers(users)
      /\ doc.revision < MaxRevision
      /\ doc' = [doc EXCEPT !.users = users, !.revision = @ + 1,
                            !.trail[u] = Trail(account)]
      /\ Remember(doc)
      /\ UNCHANGED <<clients, recoveries>>

(* The command stops on an error, or the passwords typed do not match.     *)
BootstrapStop ==
  /\ prompt # None /\ prompt' = None
  /\ UNCHANGED <<doc, prior, clients, issued, recoveries>>

(* Recovery installs the newest valid backup, which is the document or the *)
(* one before it, under the next document revision.  The accounts in it    *)
(* keep the revisions they had.                                            *)
Recover ==
  /\ recoveries < MaxRecoveries /\ recoveries' = recoveries + 1
  /\ \E source \in {doc, prior} :
       /\ source.revision < MaxRevision
       /\ doc' = [source EXCEPT !.revision = @ + 1]
       /\ prior' = IF recoveries + 1 < MaxRecoveries THEN source ELSE None
  /\ UNCHANGED <<clients, prompt, issued>>

-----------------------------------------------------------------------------
Request(c) ==
  \/ \E name \in Names : Login(c, name)
  \/ Logout(c)
  \/ \E u \in UserIds : OpenForm(c, u)
  \/ EnterAdministration(c) \/ EnterChangePassword(c) \/ Refuse(c)
  \/ \E u \in UserIds, email \in Names, role \in Roles,
        submitted \in SUBSET Factories : CreateUser(c, u, email, role, submitted)
  \/ \E change \in Changes : UpdateUser(c, change)
  \/ ResetPassword(c) \/ ChangePassword(c)
  \/ \E f \in Factories : CreateFactory(c, f)

Next ==
  \/ \E c \in Clients : Request(c)
  \/ \E found \in SUBSET Factories : MergeFactories(found)
  \/ \E username \in Names : BootstrapAsk(username)
  \/ \E u \in UserIds, email \in Names : BootstrapCreate(u, email)
  \/ BootstrapStop
  \/ Recover

Spec == Init /\ [][Next]_vars

-----------------------------------------------------------------------------
(* Properties.                                                             *)

(* Replaying the audit events of an account, from its creation or from     *)
(* what the bootstrap command installed, gives its role, its state, its    *)
(* grants and its password flag: no change escapes the trail, whatever the *)
(* order of edits, resets, demotions and recoveries.                       *)
AuditReconstructs ==
  \A u \in UserIds : Exists(u) => doc.trail[u] = Trail(doc.users[u])

(* A name typed at the login form is looked up among usernames and         *)
(* addresses at once, while each is checked for uniqueness only among its  *)
(* own kind.  No request of the application makes a name that belonged to  *)
(* one account belong to two.  (The bootstrap command can.)                *)
LoginsDistinct(users) ==
  \A u, v \in UserIds : users[u] # None /\ users[v] # None /\ u # v =>
    users[u].username # users[v].email
LoginsStayDistinct ==
  [][LoginsDistinct(doc.users) /\ UNCHANGED <<prompt, recoveries>>
       => LoginsDistinct(doc'.users)]_vars

(* There is always an active administrator, although two of them may       *)
(* demote or deactivate each other at once from checks made earlier.       *)
AdminRemains == \E u \in UserIds : ActiveAdmin(doc.users, u)

(* Every change of an account by a request is made by somebody who is an   *)
(* active administrator in the document it changes, however long ago the   *)
(* view's own check passed; a user's own request changes nothing but the   *)
(* password flag, and a login nothing but the revision.                    *)
SameExcept(old, new, fields) ==
  old # None /\ new # None /\
    \A field \in DOMAIN old \ fields : old[field] = new[field]
Finishes(c) == gate[c] # None /\ gate'[c] = None
ActorsAreAdmins ==
  [][\A u \in UserIds :
       /\ doc'.users[u] # doc.users[u] /\ recoveries' = recoveries
       /\ prompt' = prompt
       => \/ SameExcept(doc.users[u], doc'.users[u], {"revision"})
          \/ \E c \in Clients : Finishes(c) /\
               \/ ActiveAdmin(doc.users, gate[c].actor)
               \/ /\ gate[c].actor = u /\ doc.users[u].active
                  /\ SameExcept(doc.users[u], doc'.users[u], {"must", "revision"})]_vars

(* docs/profile-user-management.md:19: an edit or a reset made from a      *)
(* stale page is refused, and a newer change is never overwritten: when    *)
(* one commits, the account is exactly what its page showed.               *)
NoStaleEdit ==
  [][\A c \in Clients :
       /\ Finishes(c) /\ gate[c].view = "admin" /\ form[c] # None
       /\ Exists(form[c].target)
       /\ doc'.users[form[c].target] # doc.users[form[c].target]
       => doc.users[form[c].target] = form[c].seen]_vars
=============================================================================
