------------------------- MODULE VersionedDocument -------------------------
(***************************************************************************)
(* What the Profile store promises its callers: one document that changes  *)
(* only by whole committed versions.  A mutation takes effect once, on the *)
(* newest version and under the next revision; an upgrade removes a legacy *)
(* form and changes no content, once, however many requests meet it; a     *)
(* recovery, which only an operator asks for, returns to the newest        *)
(* version or to the one it replaced.                                      *)
(***************************************************************************)
EXTENDS Integers, Sequences

CONSTANTS Txns, EventsOf, Past, None

VARIABLES
  version,    \* the newest committed version, None before there is one
  previous,   \* the version it replaced, when that can be restored
  status,     \* whether the document is "absent", "whole" or "damaged"
  asked       \* whether an operator has asked for a recovery

vars == <<version, previous, status, asked>>

Forms == {"access", "ids", "audit"}   \* the legacy forms an upgrade removes

Version ==
  [ rev: Nat, legacy: SUBSET Forms, applied: SUBSET Txns,
    log: Seq(Txns \cup {Past}) ]

Init ==
  /\ version \in Version \cup {None} /\ previous = None
  /\ status = IF version = None THEN "absent" ELSE "whole"
  /\ asked = FALSE

Replaces(new) ==
  /\ version' = new /\ previous' \in {version, None}
  /\ UNCHANGED <<status, asked>>

Create ==
  /\ status = "absent" /\ status' = "whole"
  /\ version' = [rev |-> 1, legacy |-> {}, applied |-> {}, log |-> <<>>]
  /\ previous' = None /\ UNCHANGED asked

Commit(t) ==
  /\ status = "whole" /\ t \notin version.applied
  /\ version.legacy \subseteq {"audit"}
  /\ Replaces([version EXCEPT !.rev = @ + 1, !.applied = @ \cup {t},
                 !.log = @ \o [i \in 1..EventsOf[t] |-> t]])

Upgrade ==
  /\ status = "whole"
  /\ \E rev \in {version.rev + 1, 2}, legacy \in SUBSET version.legacy :
       /\ rev > version.rev /\ legacy # version.legacy
       /\ Replaces([version EXCEPT !.rev = rev, !.legacy = legacy])

Damage ==
  /\ status = "whole" /\ status' = "damaged"
  /\ UNCHANGED <<version, previous, asked>>

Ask ==
  /\ asked' = TRUE
  /\ UNCHANGED <<version, previous, status>>

Restore ==
  /\ asked /\ UNCHANGED asked
  /\ status # "absent" /\ status' = "whole"
  /\ \E source \in {version, previous} \ {None} :
       /\ version' = [source EXCEPT !.rev = @ + 1]
       /\ previous' = source

Next == Create \/ (\E t \in Txns : Commit(t)) \/ Upgrade \/ Damage \/ Ask \/ Restore

Spec == Init /\ [][Next]_vars
=============================================================================
