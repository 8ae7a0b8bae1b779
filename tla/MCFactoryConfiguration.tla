----------------------- MODULE MCFactoryConfiguration -----------------------
(* Small instances of FactoryConfiguration for TLC.                        *)
EXTENDS FactoryConfiguration, TLC

CONSTANTS w1, w2, w3, pool1, pool2, item1, item2

LegacyDocuments == [p \in Pools |-> [i \in Items |-> 0]]

(* No directory, one without a completed manifest, and an active one.      *)
AnyDirectory ==
  { Missing,
    [ completed |-> FALSE,
      documents |-> [p \in Pools |-> IF p = pool1 THEN [i \in Items |-> 1]
                                                  ELSE Missing] ],
    [completed |-> TRUE, documents |-> LegacyDocuments] }

Symmetry == Permutations(Workers)
=============================================================================
