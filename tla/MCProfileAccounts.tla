------------------------- MODULE MCProfileAccounts -------------------------
(* Small instances of ProfileAccounts for TLC.                             *)
EXTENDS ProfileAccounts, TLC

CONSTANTS ada, bob, eve, n1, n2, n3, f1, f2, c1, c2

Admin(username, email) ==
  [ role |-> "ADMIN", active |-> TRUE, grants |-> {}, email |-> email,
    username |-> username, must |-> FALSE, revision |-> 1 ]
Member(email, grants) ==
  [Admin(email, email) EXCEPT !.role = "USER", !.grants = grants]

(* Two administrators made by the application.                             *)
TwoAdmins == (ada :> Admin(n1, n1)) @@ (bob :> Admin(n2, n2))

(* An administrator from the bootstrap command, whose username is not her  *)
(* address, and a user who kept the grant of a factory now inactive.       *)
AdminAndMember ==
  (ada :> Admin(n1, n2)) @@ (bob :> Member(n3, {f1})) @@ (eve :> None)

OneUnknown == (f1 :> "unknown")
OneInactive == (f1 :> "inactive") @@ (f2 :> "unknown")

AdaLoggedIn == (c1 :> ada)
BothLoggedIn == (c1 :> ada) @@ (c2 :> bob)
=============================================================================
