--------------------------- MODULE MCProfileStore ---------------------------
(* Small instances of ProfileStore for TLC.                                *)
EXTENDS ProfileStore, TLC

CONSTANTS w1, w2, t1, t2, t3

(* A mutation that audits two events, one that audits one, a login.        *)
MCEventsOf == (t1 :> 2) @@ (t2 :> 1) @@ (t3 :> 0)

OldDocument(schema, ids, audit, rev, n) ==
  [ schema |-> schema, ids |-> ids, audit |-> audit, rev |-> rev,
    events |-> [i \in 1..n |-> Past], discarded |-> 0,
    applied |-> {}, log |-> [i \in 1..n |-> Past] ]

(* A current document with more events than the limit.                     *)
CurrentFiles == {OldDocument(2, FALSE, FALSE, 1, 3)}

(* An empty path, a Phase-6 document, and a Phase-8 one with old ids and   *)
(* old audit names.                                                        *)
OldFiles ==
  { Missing, OldDocument(1, FALSE, TRUE, 0, 1),
    OldDocument(2, TRUE, TRUE, 1, 1) }

MCIncidents(c, f, d, r) ==
  ("crash" :> c) @@ ("fault" :> f) @@ ("damage" :> d) @@ ("recovery" :> r)
OneOfEach == MCIncidents(1, 1, 1, 1)
CrashAndFault == MCIncidents(1, 1, 0, 0)

Symmetry == Permutations(Workers)
=============================================================================
