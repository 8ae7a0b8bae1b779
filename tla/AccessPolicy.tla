---------------------------- MODULE AccessPolicy ----------------------------
(***************************************************************************)
(* Who may do what: the effective level of a user in a module, and the     *)
(* access of a user to a factory.                                          *)
(*                                                                         *)
(* A user has a role, a state and grants [scope, factory, module, level];  *)
(* a directory is a user with the registered factories and whether each is *)
(* active.  Levels are ranks; a grant lists the permissions up to its own. *)
(***************************************************************************)
EXTENDS Integers, FiniteSets, FiniteSetsExt

CONSTANT NoFactory  \* of a grant for the whole system

TopLevelRoles == {"IT_ADMIN", "FINANCE_ECONOMIC_ADMIN"}
Levels == [NONE |-> 0, READ |-> 1, WRITE |-> 2, MODIFY |-> 3]
ModuleScopes ==
  [cost_calculation |-> {"FACTORY"}, dashboard |-> {"GLOBAL", "FACTORY"},
   desk |-> {"GLOBAL"}, factory_parameters |-> {"FACTORY"},
   general_parameters |-> {"GLOBAL"}, product |-> {"FACTORY"},
   profile |-> {"GLOBAL"}]

(* Grants of one module and scope are one grant, of all their permissions. *)
Canonical(grants) ==
  LET At(g) == {h \in grants : /\ h.scope = g.scope /\ h.factory = g.factory
                               /\ h.module = g.module}
  IN  {[g EXCEPT !.level = Max({h.level : h \in At(g)})] : g \in grants}

Granted(user, module, factory, scope) ==
  {g.level : g \in {h \in user.grants : /\ h.scope = scope /\ h.module = module
                                        /\ h.factory = factory}}

(* The workdesk is everybody's.                                            *)
MinimumLevel(module) == IF module = "desk" THEN Levels.READ ELSE Levels.NONE

EffectiveLevel(user, module, factory, scope) ==
  IF \/ scope \notin ModuleScopes[module]
     \/ (scope = "GLOBAL") # (factory = NoFactory)
  THEN Levels.NONE
  ELSE IF user.role \in TopLevelRoles THEN Levels.MODIFY
  ELSE IF ~user.active THEN Levels.NONE
  ELSE Max({MinimumLevel(module)} \cup Granted(user, module, factory, scope))

HasAccess(user, module, level, factory, scope) ==
  EffectiveLevel(user, module, factory, scope) >= level

(* A module that has both scopes is opened for a factory by a grant for    *)
(* that factory only.                                                      *)
RequireAccess(directory, factory, module) ==
  IF factory \notin DOMAIN directory.factories THEN "UNKNOWN_FACTORY"
  ELSE IF /\ directory.factories[factory]
          /\ HasAccess(directory.user, module, Levels.READ, factory, "FACTORY")
       THEN "OK" ELSE "FORBIDDEN"
Accessible(directory, module) ==
  {f \in DOMAIN directory.factories : RequireAccess(directory, f, module) = "OK"}
=============================================================================
