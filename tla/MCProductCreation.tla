------------------------- MODULE MCProductCreation -------------------------
(* Small instances of ProductCreation for TLC.                             *)
EXTENDS ProductCreation, TLC

CONSTANTS w1, w2, e1, e2, c0, C1, c1, s1, p0, p1

(* A category with a product's folder taken as one level: c0 is there, c1  *)
(* and C1 differ in case only; s1 lies in c1, p1 in s1.                    *)
Tree ==
  c0 :> Root @@ c1 :> Root @@ C1 :> Root @@ s1 :> c1 @@ p0 :> c0 @@ p1 :> s1
CaseFolded ==
  c0 :> c0 @@ c1 :> c1 @@ C1 :> c1 @@ s1 :> s1 @@ p0 :> p0 @@ p1 :> p1
=============================================================================
