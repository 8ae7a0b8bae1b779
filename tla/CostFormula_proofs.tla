------------------------- MODULE CostFormula_proofs -------------------------
(***************************************************************************)
(* Proofs about the operators of CostFormula, which the proofs about       *)
(* CostRequest and Dashboard rest on: what the checks on the documents     *)
(* answer; that fractions in lowest terms are equal when their cross       *)
(* products are, and add, multiply and compare as fractions do; that a     *)
(* sum does not depend on the order it is taken in; and what one product   *)
(* takes of a pool.  The numbers are unbounded and no sum has a fixed      *)
(* number of terms.                                                        *)
(*                                                                         *)
(* Gcd and the sums recurse over numbers and finite sets.  What they come  *)
(* to is proved by looking at a least counterexample: a set that has every *)
(* number, or every subset, whose predecessors it has, has them all.       *)
(***************************************************************************)
EXTENDS CostFormula, FiniteSetTheorems, WellFoundedInduction, TLAPS

-----------------------------------------------------------------------------
(* Induction.                                                              *)

(* Some number of every set is the least.                                  *)
LEMMA LeastOf ==
  ASSUME NEW T \in SUBSET Nat, T # {}
  PROVE  \E x \in T : \A y \in T : x <= y
  <1> DEFINE R == {pair \in Nat \X Nat : pair[1] < pair[2]}
  <1>1. IsWellFoundedOn(R, Nat)
    BY NatLessThanWellFounded, Zenon DEF OpToRel
  <1>. HIDE DEF R
  <1>2. PICK x \in T : \A y \in T : <<y, x>> \notin R
    BY <1>1, WFMin, Zenon
  <1>3. \A y \in T : ~(y < x)
    BY <1>2 DEF R
  <1>. QED
    BY <1>3

(* What holds of a number when it holds of all smaller ones, holds of all. *)
LEMMA StrongInduction ==
  ASSUME NEW S \in SUBSET Nat,
         \A n \in Nat : (\A m \in Nat : m < n => m \in S) => n \in S
  PROVE  S = Nat
  <1> SUFFICES ASSUME Nat \ S # {} PROVE FALSE
    OBVIOUS
  <1>1. PICK n \in Nat \ S : \A m \in Nat \ S : n <= m
    BY LeastOf
  <1>. QED
    BY <1>1

(* The same for the subsets of a finite set, and the step that adds one    *)
(* element.                                                                *)
LEMMA SubsetInduction ==
  ASSUME NEW S, IsFiniteSet(S), NEW X \in SUBSET SUBSET S,
         \A s \in SUBSET S : (\A t \in SUBSET s : t # s => t \in X) => s \in X
  PROVE  X = SUBSET S
  <1> SUFFICES ASSUME (SUBSET S) \ X # {} PROVE FALSE
    OBVIOUS
  <1> DEFINE Y == (SUBSET S) \ X
             T == {Cardinality(s) : s \in Y}
  <1>1. \A s \in SUBSET S : IsFiniteSet(s) /\ Cardinality(s) \in Nat
    BY FS_Subset, FS_CardinalityType
  <1>2. PICK n \in T : \A m \in T : n <= m
    <2>1. T \in SUBSET Nat /\ T # {}
      BY <1>1
    <2>. HIDE DEF T
    <2>. QED
      BY <2>1, LeastOf
  <1>3. PICK s \in Y : Cardinality(s) = n
    OBVIOUS
  <1>4. ASSUME NEW t \in SUBSET s, t # s PROVE t \in X
    <2>1. Cardinality(t) < n
      BY <1>1, <1>3, <1>4, FS_Subset
    <2>2. t \in SUBSET S /\ Cardinality(t) \in Nat /\ n \in Nat
      BY <1>1, <1>3
    <2>3. t \in Y => Cardinality(t) \in T
      OBVIOUS
    <2>. HIDE DEF T
    <2>. QED
      BY <1>2, <2>1, <2>2, <2>3
  <1>. QED
    BY <1>3, <1>4

(* The same, one element at a time.                                        *)
LEMMA FiniteInduction ==
  ASSUME NEW S, IsFiniteSet(S), NEW X \in SUBSET SUBSET S, {} \in X,
         \A s \in X : \A x \in S \ s : s \cup {x} \in X
  PROVE  X = SUBSET S
  <1>1. ASSUME NEW s \in SUBSET S, \A t \in SUBSET s : t # s => t \in X
        PROVE  s \in X
    <2> SUFFICES ASSUME NEW x \in s PROVE s \in X
      OBVIOUS
    <2>1. s \ {x} \in X /\ x \in S \ (s \ {x}) /\ (s \ {x}) \cup {x} = s
      BY <1>1
    <2>. QED
      BY <2>1
  <1>. QED
    BY <1>1, SubsetInduction

-----------------------------------------------------------------------------
(* Documents: what the first of several problems says, and pools.          *)

(* The first problem is none when no check finds one.                      *)
LEMMA NoFirstProblem ==
  ASSUME NEW codes, DOMAIN codes \subseteq Nat
  PROVE  FirstProblem(codes) = "OK" <=> \A i \in DOMAIN codes : codes[i] = "OK"
  <1> DEFINE failed == {i \in DOMAIN codes : codes[i] # "OK"}
  <1>1. CASE failed = {}
    BY <1>1 DEF FirstProblem
  <1>2. CASE failed # {}
    <2>1. \E i \in failed : \A j \in failed : i <= j
      BY <1>2, LeastOf
    <2>2. codes[CHOOSE i \in failed : \A j \in failed : i <= j] # "OK"
      BY <2>1
    <2>. QED
      BY <1>2, <2>2 DEF FirstProblem
  <1>. QED
    BY <1>1, <1>2

(* One check of several keys finds nothing when each of them does not.     *)
LEMMA NoProblemOf ==
  ASSUME NEW codes
  PROVE  OneOf("OK", codes) = "OK" <=> \A code \in codes : code = "OK"
  BY DEF OneOf

(* A pool of one row holds what the row says.                              *)
LEMMA PoolOfOneRow ==
  ASSUME NEW x \in Int
  PROVE  RawPool(<<x>>) = x
  <1> DEFINE f == <<x>>
             pick(s) == CHOOSE y \in s : TRUE
             Fold(g) == g = [s \in SUBSET {1} |->
                               IF s = {} THEN 0 ELSE f[pick(s)] + g[s \ {pick(s)}]]
             iter == CHOOSE g : Fold(g)
             sum == [s \in SUBSET {1} |-> IF s = {} THEN 0 ELSE x]
  <1>1. DOMAIN f = {1} /\ f[1] = x
    OBVIOUS
  <1>2. RawPool(f) = iter[{1}]
    BY <1>1, Zenon DEF RawPool, FoldFunction, FoldFunctionOnSet, MapThenFoldSet
  <1>3. Fold(sum)
    <2>1. \A s \in SUBSET {1} : s # {} => s = {1} /\ pick(s) = 1 /\ s \ {pick(s)} = {}
      OBVIOUS
    <2>2. \A s \in SUBSET {1} :
            sum[s] = IF s = {} THEN 0 ELSE f[pick(s)] + sum[s \ {pick(s)}]
      BY <1>1, <2>1
    <2>. QED
      BY <2>2
  <1>4. Fold(iter)
    BY <1>3
  <1>5. iter[{1}] = f[1] + iter[{}]
    <2>1. pick({1}) = 1 /\ {1} \ {1} = {}
      OBVIOUS
    <2>2. iter[{1}] = IF {1} = {} THEN 0 ELSE f[pick({1})] + iter[{1} \ {pick({1})}]
      BY <1>4
    <2>. QED
      BY <2>1, <2>2
  <1>6. iter[{}] = 0
    BY <1>4
  <1>. QED
    BY <1>1, <1>2, <1>5, <1>6

(* Pools are read without a problem when every row is.                     *)
LEMMA NoProblemInPools ==
  ASSUME NEW pools
  PROVE  PoolProblem(pools) = "OK" <=>
           \A pool \in DOMAIN pools : \A i \in DOMAIN pools[pool] :
             Number(pools[pool][i]) = "OK"
  <1> DEFINE CodesOf(pool) == {Number(pools[pool][i]) : i \in DOMAIN pools[pool]}
             codes == UNION {CodesOf(pool) : pool \in DOMAIN pools}
  <1>1. PoolProblem(pools) = "OK" <=> \A code \in codes : code = "OK"
    BY NoProblemOf DEF PoolProblem
  <1>2. ASSUME \A code \in codes : code = "OK",
               NEW pool \in DOMAIN pools, NEW i \in DOMAIN pools[pool]
        PROVE  Number(pools[pool][i]) = "OK"
    <2>1. Number(pools[pool][i]) \in CodesOf(pool)
      OBVIOUS
    <2>. HIDE DEF CodesOf
    <2>. QED
      BY <1>2, <2>1
  <1>3. ASSUME \A pool \in DOMAIN pools : \A i \in DOMAIN pools[pool] :
                 Number(pools[pool][i]) = "OK",
               NEW code \in codes
        PROVE  code = "OK"
    <2>1. PICK pool \in DOMAIN pools : code \in CodesOf(pool)
      OBVIOUS
    <2>. QED
      BY <1>3, <2>1
  <1>. HIDE DEF codes
  <1>. QED
    BY <1>1, <1>2, <1>3

(* What a calculation has checked of the documents.                        *)
LEMMA LoadedFrom ==
  ASSUME NEW docs, NEW n \in Nat, DOMAIN docs.bom = 1 .. n, NEW category, NEW P
  PROVE  LoadProblem(docs, category, P) = "OK" <=>
           /\ \A i \in 1 .. n : LineProblem(docs.materials, docs.bom[i]) = "OK"
           /\ RowsAreDistinct(docs.bom)
           /\ RowProblem(docs.weights, "category", category, "share",
                         "CATEGORY_SHARE_NOT_UNIQUE") = "OK"
           /\ \A q \in P : RowProblem(docs.predictions, "product", NameOf[q],
                                      "quantity", "PREDICTION_NOT_UNIQUE") = "OK"
           /\ PoolProblem(docs.pools) = "OK"
  <1> DEFINE lines == [i \in DOMAIN docs.bom |->
                         LineProblem(docs.materials, docs.bom[i])]
             distinct == IF RowsAreDistinct(docs.bom) THEN "OK"
                                                      ELSE "BOM_ROW_ID_NOT_UNIQUE"
             share == RowProblem(docs.weights, "category", category, "share",
                                 "CATEGORY_SHARE_NOT_UNIQUE")
             predictions == PredictionProblem(docs.predictions, P)
             pools == PoolProblem(docs.pools)
             rest == <<distinct, share, predictions, pools>>
             codes == lines \o rest
             Predicted(q) == RowProblem(docs.predictions, "product", NameOf[q],
                                        "quantity", "PREDICTION_NOT_UNIQUE")
  <1>1. distinct = "OK" <=> RowsAreDistinct(docs.bom)
    OBVIOUS
  <1>2. predictions = "OK" <=> \A q \in P : Predicted(q) = "OK"
    <2> DEFINE problems == {Predicted(q) : q \in P}
    <2>1. predictions = "OK" <=> \A code \in problems : code = "OK"
      BY NoProblemOf DEF PredictionProblem
    <2>2. (\A code \in problems : code = "OK") <=> \A q \in P : Predicted(q) = "OK"
      OBVIOUS
    <2>. QED
      BY <2>1, <2>2
  <1>3. /\ Len(lines) = n /\ lines \in Seq({lines[i] : i \in 1 .. n})
        /\ \A i \in 1 .. n : lines[i] = LineProblem(docs.materials, docs.bom[i])
    OBVIOUS
  <1>4. LoadProblem(docs, category, P) = FirstProblem(codes)
    BY DEF LoadProblem
  <1>. HIDE DEF lines, distinct, share, predictions, pools, Predicted
  <1>5. /\ DOMAIN codes = 1 .. n + 4
        /\ \A i \in 1 .. n : codes[i] = lines[i]
        /\ \A i \in 1 .. 4 : codes[n + i] = rest[i]
    BY <1>3
  <1>6. rest[1] = distinct /\ rest[2] = share /\ rest[3] = predictions /\ rest[4] = pools
    OBVIOUS
  <1>. HIDE DEF rest, codes
  <1>7. (\A i \in DOMAIN codes : codes[i] = "OK") <=>
          /\ \A i \in 1 .. n : lines[i] = "OK"
          /\ distinct = "OK" /\ share = "OK" /\ predictions = "OK" /\ pools = "OK"
    <2>1. ASSUME \A i \in DOMAIN codes : codes[i] = "OK"
          PROVE  /\ \A i \in 1 .. n : lines[i] = "OK"
                 /\ distinct = "OK" /\ share = "OK" /\ predictions = "OK"
                 /\ pools = "OK"
      <3>1. \A i \in 1 .. n : lines[i] = "OK"
        BY <1>5, <2>1
      <3>2. \A i \in 1 .. 4 : rest[i] = "OK"
        <4>1. \A i \in 1 .. 4 : n + i \in DOMAIN codes
          BY <1>5
        <4>. QED
          BY <1>5, <2>1, <4>1
      <3>. QED
        BY <1>6, <3>1, <3>2
    <2>2. ASSUME \A i \in 1 .. n : lines[i] = "OK", distinct = "OK",
                 share = "OK", predictions = "OK", pools = "OK",
                 NEW i \in DOMAIN codes
          PROVE  codes[i] = "OK"
      <3>1. CASE i \in 1 .. n
        BY <1>5, <2>2, <3>1
      <3>2. CASE i \notin 1 .. n
        <4>1. i - n \in 1 .. 4 /\ i = n + (i - n)
          BY <1>5, <3>2
        <4>2. rest[i - n] = "OK"
          BY <1>6, <2>2, <4>1
        <4>. QED
          BY <1>5, <4>1, <4>2
      <3>. QED
        BY <3>1, <3>2
    <2>. QED
      BY <2>1, <2>2
  <1>8. FirstProblem(codes) = "OK" <=> \A i \in DOMAIN codes : codes[i] = "OK"
    <2>1. DOMAIN codes \subseteq Nat
      BY <1>5
    <2>. QED
      BY <2>1, NoFirstProblem
  <1>. QED
    BY <1>1, <1>2, <1>3, <1>4, <1>7, <1>8 DEF share, pools, Predicted

(* What a calculation has checked of its inputs.                           *)
LEMMA CalculatedFrom ==
  ASSUME NEW in, NEW n \in Nat, DOMAIN in.lines = 1 .. n, CostProblem(in) = "OK"
  PROVE  /\ in.share \in 1 .. 100 /\ in.product \in DOMAIN in.predictions
         /\ PredictionTotal(in) > 0
         /\ \A i \in 1 .. n : LiveProblem(in.lines[i]) = "OK"
  <1> DEFINE share == IF in.share \in 1 .. 100 THEN "OK" ELSE "INVALID_CATEGORY_SHARE"
             predicted == IF in.product \in DOMAIN in.predictions
                            THEN "OK" ELSE "MISSING_PRODUCT_PREDICTION"
             total == IF PredictionTotal(in) > 0
                        THEN "OK" ELSE "INVALID_PREDICTION_DENOMINATOR"
             first == <<share, predicted, total>>
             lines == [i \in DOMAIN in.lines |-> LiveProblem(in.lines[i])]
             codes == first \o lines
  <1>1. CostProblem(in) = FirstProblem(codes)
    BY DEF CostProblem
  <1>2. Len(lines) = n /\ lines \in Seq({lines[i] : i \in 1 .. n})
        /\ \A i \in 1 .. n : lines[i] = LiveProblem(in.lines[i])
    OBVIOUS
  <1>. HIDE DEF share, predicted, total, lines
  <1>3. /\ DOMAIN codes = 1 .. n + 3
        /\ \A i \in 1 .. 3 : codes[i] = first[i]
        /\ \A i \in 1 .. n : codes[3 + i] = lines[i]
    BY <1>2
  <1>4. first[1] = share /\ first[2] = predicted /\ first[3] = total
    OBVIOUS
  <1>. HIDE DEF first, codes
  <1>5. \A i \in 1 .. n + 3 : codes[i] = "OK"
    <2>1. DOMAIN codes \subseteq Nat
      BY <1>3
    <2>. QED
      BY <1>1, <1>3, <2>1, NoFirstProblem
  <1>6. share = "OK" /\ predicted = "OK" /\ total = "OK"
    BY <1>3, <1>4, <1>5
  <1>7. \A i \in 1 .. n : lines[i] = "OK"
    <2>1. \A i \in 1 .. n : 3 + i \in 1 .. n + 3
      OBVIOUS
    <2>. QED
      BY <1>3, <1>5, <2>1
  <1>. QED
    BY <1>2, <1>6, <1>7 DEF share, predicted, total

(* The codes there are.                                                    *)
Codes ==
  {"OK", "MISSING_NUMERIC_INPUT", "INVALID_NUMBER", "AMBIGUOUS_FX_MAPPING",
   "MATERIAL_PRICE_NOT_UNIQUE", "BOM_ROW_ID_NOT_UNIQUE",
   "CATEGORY_SHARE_NOT_UNIQUE", "PREDICTION_NOT_UNIQUE", "INVALID_PERCENTAGE",
   "INVALID_FX_RATE", "INVALID_CATEGORY_SHARE", "MISSING_PRODUCT_PREDICTION",
   "INVALID_PREDICTION_DENOMINATOR"}

LEMMA FirstProblemCode ==
  ASSUME NEW codes, DOMAIN codes \subseteq Nat,
         \A i \in DOMAIN codes : codes[i] \in Codes
  PROVE  FirstProblem(codes) \in Codes
  <1> DEFINE failed == {i \in DOMAIN codes : codes[i] # "OK"}
  <1>1. CASE failed = {}
    BY <1>1 DEF FirstProblem, Codes
  <1>2. CASE failed # {}
    <2>1. \E i \in failed : \A j \in failed : i <= j
      BY <1>2, LeastOf
    <2>2. codes[CHOOSE i \in failed : \A j \in failed : i <= j] \in Codes
      BY <2>1
    <2>. QED
      BY <1>2, <2>2 DEF FirstProblem
  <1>. QED
    BY <1>1, <1>2

LEMMA OneOfCode ==
  ASSUME NEW codes, codes \subseteq Codes
  PROVE  OneOf("OK", codes) \in Codes
  BY DEF OneOf, Codes

LEMMA NumberCode ==
  ASSUME NEW v
  PROVE  Number(v) \in Codes
  <1>1. CASE v = Blank
    BY <1>1 DEF Number, Codes
  <1>2. CASE v # Blank
    BY <1>2 DEF Number, Codes
  <1>. QED
    BY <1>1, <1>2

LEMMA RowCode ==
  ASSUME NEW rows, NEW column, NEW name, NEW value, NEW code \in Codes
  PROVE  RowProblem(rows, column, name, value, code) \in Codes
  BY NumberCode DEF RowProblem

LEMMA LineCode ==
  ASSUME NEW materials, NEW row
  PROVE  LineProblem(materials, row) \in Codes
  <1> DEFINE current == The(materials, "material", row.material)
             rate == RateProblem(materials, current.currency)
             codes == <<rate, Number(row.usage), Number(row.loss),
                        Number(row.recyclability), Number(current.price)>>
  <1>1. "OK" \in Codes /\ "AMBIGUOUS_FX_MAPPING" \in Codes
        /\ "MATERIAL_PRICE_NOT_UNIQUE" \in Codes
    BY DEF Codes
  <1>2. rate \in Codes
    BY <1>1, NumberCode DEF RateProblem
  <1>. HIDE DEF rate, current
  <1>3. DOMAIN codes \subseteq Nat /\ \A i \in DOMAIN codes : codes[i] \in Codes
    BY <1>2, NumberCode
  <1>. HIDE DEF codes
  <1>4. FirstProblem(codes) \in Codes
    BY <1>3, FirstProblemCode
  <1>. QED
    BY <1>1, <1>4 DEF LineProblem, codes, rate, current

(* Whatever the documents hold, loading them ends in one of the codes.     *)
LEMMA LoadCode ==
  ASSUME NEW docs, NEW n \in Nat, DOMAIN docs.bom = 1 .. n, NEW category, NEW P
  PROVE  LoadProblem(docs, category, P) \in Codes
  <1> DEFINE lines == [i \in DOMAIN docs.bom |->
                         LineProblem(docs.materials, docs.bom[i])]
             distinct == IF RowsAreDistinct(docs.bom) THEN "OK"
                                                      ELSE "BOM_ROW_ID_NOT_UNIQUE"
             share == RowProblem(docs.weights, "category", category, "share",
                                 "CATEGORY_SHARE_NOT_UNIQUE")
             predictions == PredictionProblem(docs.predictions, P)
             pools == PoolProblem(docs.pools)
             rest == <<distinct, share, predictions, pools>>
             codes == lines \o rest
  <1>1. /\ "OK" \in Codes /\ "BOM_ROW_ID_NOT_UNIQUE" \in Codes
        /\ "CATEGORY_SHARE_NOT_UNIQUE" \in Codes /\ "PREDICTION_NOT_UNIQUE" \in Codes
    BY DEF Codes
  <1>2. distinct \in Codes /\ share \in Codes
    BY <1>1, RowCode
  <1>3. predictions \in Codes
    <2> DEFINE problems == {RowProblem(docs.predictions, "product", NameOf[q],
                              "quantity", "PREDICTION_NOT_UNIQUE") : q \in P}
    <2>1. problems \subseteq Codes
      BY <1>1, RowCode
    <2>. HIDE DEF problems
    <2>2. OneOf("OK", problems) \in Codes
      BY <2>1, OneOfCode
    <2>. QED
      BY <2>2 DEF PredictionProblem, problems
  <1>4. pools \in Codes
    <2> DEFINE problems == UNION {{Number(docs.pools[pool][i]) :
                                     i \in DOMAIN docs.pools[pool]} :
                                   pool \in DOMAIN docs.pools}
    <2>1. problems \subseteq Codes
      BY NumberCode
    <2>. HIDE DEF problems
    <2>2. OneOf("OK", problems) \in Codes
      BY <2>1, OneOfCode
    <2>. QED
      BY <2>2 DEF PoolProblem, problems
  <1>5. Len(lines) = n /\ lines \in Seq(Codes)
    BY LineCode
  <1>6. rest \in Seq(Codes)
    <2>. HIDE DEF distinct, share, predictions, pools
    <2>. QED
      BY <1>2, <1>3, <1>4
  <1>7. LoadProblem(docs, category, P) = FirstProblem(codes)
    BY DEF LoadProblem
  <1>. HIDE DEF lines, rest
  <1>8. codes \in Seq(Codes)
    BY <1>5, <1>6
  <1>. HIDE DEF codes
  <1>9. DOMAIN codes \subseteq Nat /\ \A i \in DOMAIN codes : codes[i] \in Codes
    BY <1>8
  <1>. QED
    BY <1>7, <1>9, FirstProblemCode

(* So does calculating from what was loaded.                               *)
LEMMA CostCode ==
  ASSUME NEW in, NEW n \in Nat, DOMAIN in.lines = 1 .. n
  PROVE  CostProblem(in) \in Codes
  <1> DEFINE share == IF in.share \in 1 .. 100 THEN "OK" ELSE "INVALID_CATEGORY_SHARE"
             predicted == IF in.product \in DOMAIN in.predictions
                            THEN "OK" ELSE "MISSING_PRODUCT_PREDICTION"
             total == IF PredictionTotal(in) > 0
                        THEN "OK" ELSE "INVALID_PREDICTION_DENOMINATOR"
             first == <<share, predicted, total>>
             lines == [i \in DOMAIN in.lines |-> LiveProblem(in.lines[i])]
             codes == first \o lines
  <1>1. share \in Codes /\ predicted \in Codes /\ total \in Codes
    BY DEF Codes
  <1>2. \A line : LiveProblem(line) \in Codes
    BY DEF LiveProblem, Codes
  <1>3. lines \in Seq(Codes)
    BY <1>2
  <1>4. CostProblem(in) = FirstProblem(codes)
    BY DEF CostProblem
  <1>. HIDE DEF share, predicted, total, lines
  <1>5. first \in Seq(Codes)
    BY <1>1
  <1>. HIDE DEF first
  <1>6. codes \in Seq(Codes)
    BY <1>3, <1>5
  <1>. HIDE DEF codes
  <1>7. DOMAIN codes \subseteq Nat /\ \A i \in DOMAIN codes : codes[i] \in Codes
    BY <1>6
  <1>. QED
    BY <1>4, <1>7, FirstProblemCode

-----------------------------------------------------------------------------
(* Greatest common divisors.  A common divisor that every other one        *)
(* divides is the only one.                                                *)

Divides(d, n) == \E k \in Nat : n = d * k
IsGcd(d, m, n) ==
  /\ d \in Nat /\ Divides(d, m) /\ Divides(d, n)
  /\ \A e \in Nat : Divides(e, m) /\ Divides(e, n) => Divides(e, d)

(* What a division is.                                                     *)
LEMMA Division ==
  ASSUME NEW m \in Nat, NEW n \in Nat, n # 0
  PROVE  /\ m % n \in Nat /\ m \div n \in Nat /\ m % n < n
         /\ m = n * (m \div n) + (m % n)
  <1>1. m % n \in 0 .. n - 1
    OBVIOUS
  <1>2. m \div n \in Int
    OBVIOUS
  <1>3. m = n * (m \div n) + (m % n)
    OBVIOUS
  <1>4. m \div n >= 0
    OBVIOUS
  <1>. QED
    BY <1>1, <1>2, <1>3, <1>4

LEMMA Quotient ==
  ASSUME NEW q \in Int, NEW n \in Nat, n # 0, NEW r \in Nat, r < n
  PROVE  (n * q + r) \div n = q /\ (n * q + r) % n = r
  OBVIOUS

(* A step of Euclid's algorithm keeps the divisors.                        *)
LEMMA GcdIsOne ==
  ASSUME NEW m \in Nat, NEW n \in Nat, n # 0, NEW d
  PROVE  IsGcd(d, m, n) <=> IsGcd(d, n, m % n)
  <1> DEFINE q == m \div n
             r == m % n
  <1>1. q \in Nat /\ r \in Nat /\ m = n * q + r
    BY Division
  <1>. HIDE DEF q, r
  <1>2. ASSUME NEW e \in Nat, Divides(e, n), Divides(e, r) PROVE Divides(e, m)
    <2>1. PICK i \in Nat : n = e * i
      BY <1>2 DEF Divides
    <2>2. PICK j \in Nat : r = e * j
      BY <1>2 DEF Divides
    <2>3. m = e * (i * q + j) /\ i * q + j \in Nat
      <3>1. i * q \in Nat /\ n * q = e * (i * q)
        BY <1>1, <2>1
      <3>. QED
        BY <1>1, <2>2, <3>1
    <2>. QED
      BY <2>3 DEF Divides
  <1>3. ASSUME NEW e \in Nat, Divides(e, n), Divides(e, m) PROVE Divides(e, r)
    <2>1. PICK i \in Nat : n = e * i
      BY <1>3 DEF Divides
    <2>2. PICK j \in Nat : m = e * j
      BY <1>3 DEF Divides
    <2>3. i * q \in Nat /\ n * q = e * (i * q) /\ r = e * (j - i * q)
      <3>1. i * q \in Nat /\ n * q = e * (i * q)
        BY <1>1, <2>1
      <3>. QED
        BY <1>1, <2>2, <3>1
    <2>4. j - i * q >= 0 \/ r = 0
      <3>1. ASSUME j - i * q < 0 PROVE r <= 0
        BY <3>1, <2>3
      <3>. QED
        BY <3>1, <1>1, <2>3
    <2>5. CASE j - i * q >= 0
      <3>1. j - i * q \in Nat
        BY <2>3, <2>5
      <3>. QED
        BY <2>3, <3>1 DEF Divides
    <2>6. CASE r = 0
      <3>1. r = e * 0
        BY <2>6
      <3>. QED
        BY <3>1 DEF Divides
    <2>. QED
      BY <2>4, <2>5, <2>6
  <1>. QED
    BY <1>2, <1>3 DEF IsGcd, r

(* There is one greatest common divisor.                                   *)
LEMMA DividesBothWays ==
  ASSUME NEW d \in Nat, NEW m \in Nat, Divides(d, m), Divides(m, d)
  PROVE  d = m
  <1>1. PICK i \in Nat : m = d * i
    BY DEF Divides
  <1>2. PICK j \in Nat : d = m * j
    BY DEF Divides
  <1>3. CASE i = 0 \/ j = 0
    BY <1>1, <1>2, <1>3
  <1>4. CASE i >= 1 /\ j >= 1
    <2>1. m >= d
      BY <1>1, <1>4
    <2>2. d >= m
      BY <1>2, <1>4
    <2>. QED
      BY <2>1, <2>2
  <1>. QED
    BY <1>3, <1>4

LEMMA GcdWithZero ==
  ASSUME NEW m \in Nat, NEW d
  PROVE  IsGcd(d, m, 0) <=> d = m
  <1>1. \A e \in Nat : Divides(e, 0) /\ Divides(e, e)
    <2> TAKE e \in Nat
    <2>1. 0 = e * 0 /\ e = e * 1
      OBVIOUS
    <2>. QED
      BY <2>1 DEF Divides
  <1>2. IsGcd(m, m, 0)
    BY <1>1 DEF IsGcd
  <1>3. IsGcd(d, m, 0) => d = m
    BY <1>1, DividesBothWays DEF IsGcd
  <1>. QED
    BY <1>2, <1>3

(* The recursion is well-founded: the second argument decreases.           *)
LEMMA GcdEquation ==
  ASSUME NEW m \in Nat, NEW n \in Nat
  PROVE  Gcd[<<m, n>>] = IF n = 0 THEN m ELSE Gcd[<<n, m % n>>]
  <1> DEFINE g == [p \in Nat \X Nat |-> CHOOSE d : IsGcd(d, p[1], p[2])]
             Solves(f) == f = [p \in Nat \X Nat |-> IF p[2] = 0 THEN p[1]
                                 ELSE f[<<p[2], p[1] % p[2]>>]]
  <1>2. ASSUME NEW p \in Nat \X Nat
        PROVE  g[p] = IF p[2] = 0 THEN p[1] ELSE g[<<p[2], p[1] % p[2]>>]
    <2>0. p[1] \in Nat /\ p[2] \in Nat /\ g[p] = CHOOSE d : IsGcd(d, p[1], p[2])
      OBVIOUS
    <2>1. CASE p[2] = 0
      BY <2>0, <2>1, GcdWithZero
    <2>2. CASE p[2] # 0
      <3> DEFINE q == <<p[2], p[1] % p[2]>>
      <3>1. \A d : IsGcd(d, p[1], p[2]) <=> IsGcd(d, p[2], p[1] % p[2])
        BY <2>0, <2>2, GcdIsOne
      <3>2. (CHOOSE d : IsGcd(d, p[1], p[2])) = CHOOSE d : IsGcd(d, p[2], p[1] % p[2])
        BY <3>1
      <3>3. q \in Nat \X Nat /\ q[1] = p[2] /\ q[2] = p[1] % p[2]
        BY <2>0, <2>2, Division
      <3>4. g[q] = CHOOSE d : IsGcd(d, q[1], q[2])
        BY <3>3
      <3>. QED
        BY <2>0, <2>2, <3>2, <3>3, <3>4
    <2>. QED
      BY <2>1, <2>2
  <1>3. Solves(g)
    BY <1>2
  <1>. HIDE DEF g
  <1>4. Gcd = CHOOSE f : Solves(f)
    BY DEF Gcd
  <1>5. Solves(Gcd)
    BY <1>3, <1>4
  <1>. HIDE DEF Gcd
  <1>6. <<m, n>> \in Nat \X Nat /\ <<m, n>>[1] = m /\ <<m, n>>[2] = n
    OBVIOUS
  <1>. QED
    BY <1>5, <1>6

(* What Gcd computes is the greatest common divisor.                       *)
LEMMA GcdIsGcd ==
  ASSUME NEW m \in Nat, NEW n \in Nat
  PROVE  IsGcd(Gcd[<<m, n>>], m, n)
  <1> DEFINE S == {j \in Nat : \A i \in Nat : IsGcd(Gcd[<<i, j>>], i, j)}
  <1>1. ASSUME NEW j \in Nat, \A k \in Nat : k < j => k \in S PROVE j \in S
    <2> SUFFICES ASSUME NEW i \in Nat PROVE IsGcd(Gcd[<<i, j>>], i, j)
      OBVIOUS
    <2>1. CASE j = 0
      BY <2>1, GcdEquation, GcdWithZero
    <2>2. CASE j # 0
      <3>1. i % j \in Nat /\ i % j < j
        BY <2>2, Division
      <3>2. IsGcd(Gcd[<<j, i % j>>], j, i % j)
        BY <1>1, <3>1
      <3>. QED
        BY <2>2, <3>2, GcdEquation, GcdIsOne
    <2>. QED
      BY <2>1, <2>2
  <1>. HIDE DEF S
  <1>2. S = Nat
    <2>1. S \in SUBSET Nat
      BY DEF S
    <2>. QED
      BY <1>1, <2>1, StrongInduction
  <1>. QED
    BY <1>2 DEF S

LEMMA GcdScales ==
  ASSUME NEW k \in Nat, k # 0, NEW m \in Nat, NEW n \in Nat
  PROVE  Gcd[<<k * m, k * n>>] = k * Gcd[<<m, n>>]
  <1> DEFINE S == {j \in Nat : \A i \in Nat :
                     Gcd[<<k * i, k * j>>] = k * Gcd[<<i, j>>]}
  <1>0. \A i \in Nat : k * i \in Nat
    OBVIOUS
  <1>1. ASSUME NEW j \in Nat, \A h \in Nat : h < j => h \in S PROVE j \in S
    <2> SUFFICES ASSUME NEW i \in Nat
                 PROVE  Gcd[<<k * i, k * j>>] = k * Gcd[<<i, j>>]
      OBVIOUS
    <2>1. CASE j = 0
      <3>1. k * j = 0
        BY <2>1
      <3>. QED
        BY <1>0, <2>1, <3>1, GcdEquation
    <2>2. CASE j # 0
      <3> DEFINE r == i % j
                 q == i \div j
      <3>1. r \in Nat /\ q \in Nat /\ r < j /\ i = j * q + r
        BY <2>2, Division
      <3>. HIDE DEF q
      <3>2. (k * i) % (k * j) = k * r
        <4>. HIDE DEF r
        <4>1. k * j \in Nat /\ k * j # 0 /\ k * r \in Nat /\ k * r < k * j
          BY <2>2, <3>1
        <4>2. k * i = (k * j) * q + k * r
          BY <3>1
        <4>3. ASSUME NEW d \in Nat, d # 0, NEW c \in Nat, c < d, NEW e,
                     e = d * q + c
              PROVE  e % d = c
          BY <3>1, <4>3, Quotient
        <4>. QED
          BY <4>1, <4>2, <4>3, Zenon
      <3>3. k * j # 0
        BY <2>2
      <3>4. Gcd[<<k * i, k * j>>] = Gcd[<<k * j, k * r>>]
        BY <1>0, <3>2, <3>3, GcdEquation
      <3>5. Gcd[<<k * j, k * r>>] = k * Gcd[<<j, r>>]
        BY <1>1, <3>1
      <3>. QED
        BY <2>2, <3>4, <3>5, GcdEquation
    <2>. QED
      BY <2>1, <2>2
  <1>. HIDE DEF S
  <1>2. S = Nat
    <2>1. S \in SUBSET Nat
      BY DEF S
    <2>. QED
      BY <1>1, <2>1, StrongInduction
  <1>. QED
    BY <1>2 DEF S

-----------------------------------------------------------------------------
(* Fractions.                                                              *)

Positive == Nat \ {0}
Magnitude(a) == IF a < 0 THEN -a ELSE a
Divisor(a, b) == Gcd[<<Magnitude(a), b>>]
Fractions == {Fraction(a, b) : a \in Int, b \in Positive}

LEMMA Exactly ==
  ASSUME NEW g \in Positive, NEW x \in Int
  PROVE  (g * x) \div g = x
  <1>1. g * x = g * x + 0
    BY DEF Positive
  <1>. QED
    BY <1>1, Quotient DEF Positive

(* A fraction is its arguments divided by their greatest common divisor.   *)
LEMMA LowestTerms ==
  ASSUME NEW a \in Int, NEW b \in Positive
  PROVE  /\ Divisor(a, b) \in Positive
         /\ Fraction(a, b).num \in Int /\ Fraction(a, b).den \in Positive
         /\ a = Divisor(a, b) * Fraction(a, b).num
         /\ b = Divisor(a, b) * Fraction(a, b).den
         /\ Fraction(a, b) = [num |-> a \div Divisor(a, b), den |-> b \div Divisor(a, b)]
  <1> DEFINE g == Divisor(a, b)
  <1>1. Magnitude(a) \in Nat /\ b \in Nat /\ b # 0
    BY DEF Magnitude, Positive
  <1>2. IsGcd(g, Magnitude(a), b)
    BY <1>1, GcdIsGcd DEF Divisor
  <1>3. Fraction(a, b) = [num |-> a \div g, den |-> b \div g]
    BY DEF Fraction, Divisor, Magnitude
  <1>. HIDE DEF g
  <1>4. PICK i \in Nat : Magnitude(a) = g * i
    BY <1>2 DEF IsGcd, Divides
  <1>5. PICK j \in Nat : b = g * j
    BY <1>2 DEF IsGcd, Divides
  <1>6. g \in Positive /\ j \in Positive
    BY <1>1, <1>2, <1>5 DEF IsGcd, Positive
  <1>7. PICK x \in Int : a = g * x
    <2>1. CASE a < 0
      <3>1. a = g * (-i) /\ -i \in Int
        BY <1>4, <1>6, <2>1 DEF Magnitude, Positive
      <3>. QED
        BY <3>1
    <2>2. CASE ~(a < 0)
      BY <1>4, <2>2 DEF Magnitude
    <2>. QED
      BY <2>1, <2>2
  <1>8. a \div g = x /\ b \div g = j
    <2>1. (g * x) \div g = x
      BY <1>6, Exactly
    <2>2. (g * j) \div g = j
      BY <1>6, Exactly DEF Positive
    <2>. QED
      BY <1>5, <1>7, <2>1, <2>2
  <1>. QED
    BY <1>3, <1>5, <1>6, <1>7, <1>8 DEF g

(* What scales both parts of a fraction cancels.                           *)
LEMMA FractionScales ==
  ASSUME NEW k \in Positive, NEW a \in Int, NEW b \in Positive
  PROVE  Fraction(k * a, k * b) = Fraction(a, b)
  <1> DEFINE g == Divisor(a, b)
             x == Fraction(a, b)
  <1>1. /\ g \in Positive /\ x.num \in Int /\ x.den \in Positive
        /\ a = g * x.num /\ b = g * x.den
        /\ x = [num |-> a \div g, den |-> b \div g]
    BY LowestTerms
  <1>2. k * a \in Int /\ k * b \in Positive
    BY DEF Positive
  <1>3. Divisor(k * a, k * b) = k * g
    <2>1. Magnitude(k * a) = k * Magnitude(a) /\ Magnitude(a) \in Nat
      BY DEF Magnitude, Positive
    <2>. QED
      BY <2>1, GcdScales DEF Divisor, Positive
  <1>. HIDE DEF g
  <1>4. k * g \in Positive /\ k * a = (k * g) * x.num /\ k * b = (k * g) * x.den
    <2>. HIDE DEF x
    <2>. QED
      BY <1>1 DEF Positive
  <1>5. (k * a) \div (k * g) = x.num /\ (k * b) \div (k * g) = x.den
    <2>1. ((k * g) * x.num) \div (k * g) = x.num
      BY <1>1, <1>4, Exactly
    <2>2. ((k * g) * x.den) \div (k * g) = x.den
      <3>1. x.den \in Int
        BY <1>1 DEF Positive
      <3>. QED
        BY <3>1, <1>4, Exactly
    <2>. QED
      BY <1>4, <2>1, <2>2
  <1>6. Fraction(k * a, k * b) = [num |-> x.num, den |-> x.den]
    BY <1>2, <1>3, <1>5, LowestTerms
  <1>. QED
    BY <1>1, <1>6

LEMMA FractionType ==
  ASSUME NEW a \in Int, NEW b \in Positive
  PROVE  Fraction(a, b) \in Fractions
  BY DEF Fractions

LEMMA PositiveProduct ==
  ASSUME NEW b \in Positive, NEW d \in Positive
  PROVE  b * d \in Positive
  BY DEF Positive

LEMMA FractionIs ==
  ASSUME NEW x \in Fractions
  PROVE  x.num \in Int /\ x.den \in Positive /\ x = Fraction(x.num, x.den)
  <1>1. PICK a \in Int, b \in Positive : x = Fraction(a, b)
    BY DEF Fractions
  <1>2. /\ Divisor(a, b) \in Positive /\ x.num \in Int /\ x.den \in Positive
        /\ a = Divisor(a, b) * x.num /\ b = Divisor(a, b) * x.den
    BY <1>1, LowestTerms
  <1>3. Fraction(Divisor(a, b) * x.num, Divisor(a, b) * x.den)
          = Fraction(x.num, x.den)
    BY <1>2, FractionScales
  <1>. QED
    BY <1>1, <1>2, <1>3

(* Equal fractions are one record.                                         *)
LEMMA FractionEqual ==
  ASSUME NEW a \in Int, NEW b \in Positive, NEW c \in Int, NEW d \in Positive,
         a * d = c * b
  PROVE  Fraction(a, b) = Fraction(c, d)
  <1>1. Fraction(d * a, d * b) = Fraction(a, b)
    BY FractionScales
  <1>2. Fraction(b * c, b * d) = Fraction(c, d)
    BY FractionScales
  <1>3. d * a = b * c /\ d * b = b * d
    BY DEF Positive
  <1>. QED
    BY <1>1, <1>2, <1>3

LEMMA CrossProducts ==
  ASSUME NEW g \in Int, NEW h \in Int, NEW p \in Int, NEW q \in Int,
         NEW u \in Int, NEW v \in Int
  PROVE  /\ (g * h) * (p * v + u * q) = (g * p) * (h * v) + (h * u) * (g * q)
         /\ (g * h) * (p * v - u * q) = (g * p) * (h * v) - (h * u) * (g * q)
  <1>1. /\ (g * h) * (p * v) = (g * p) * (h * v)
        /\ (g * h) * (u * q) = (h * u) * (g * q)
    OBVIOUS
  <1>2. /\ (g * h) * (p * v + u * q) = (g * h) * (p * v) + (g * h) * (u * q)
        /\ (g * h) * (p * v - u * q) = (g * h) * (p * v) - (g * h) * (u * q)
    <2>. DEFINE k == g * h
                i == p * v
                j == u * q
    <2>1. k \in Int /\ i \in Int /\ j \in Int
      OBVIOUS
    <2>. HIDE DEF k, i, j
    <2>2. k * (i + j) = k * i + k * j /\ k * (i - j) = k * i - k * j
      BY <2>1
    <2>. QED
      BY <2>2 DEF k, i, j
  <1>. QED
    BY <1>1, <1>2

(* The sum of two fractions, in whatever terms they are given.             *)
LEMMA PlusOf ==
  ASSUME NEW a \in Int, NEW b \in Positive, NEW c \in Int, NEW d \in Positive
  PROVE  Plus(Fraction(a, b), Fraction(c, d)) = Fraction(a * d + c * b, b * d)
  <1> DEFINE x == Fraction(a, b)
             y == Fraction(c, d)
             g == Divisor(a, b)
             h == Divisor(c, d)
  <1>1. /\ g \in Positive /\ x.num \in Int /\ x.den \in Positive
        /\ a = g * x.num /\ b = g * x.den
    BY LowestTerms
  <1>2. /\ h \in Positive /\ y.num \in Int /\ y.den \in Positive
        /\ c = h * y.num /\ d = h * y.den
    BY LowestTerms
  <1>. HIDE DEF x, y, g, h
  <1> DEFINE m == x.num * y.den + y.num * x.den
             n == x.den * y.den
  <1>3. m \in Int /\ n \in Positive /\ g * h \in Positive
    BY <1>1, <1>2 DEF Positive
  <1>4. (g * h) * m = a * d + c * b
    <2>1. /\ g \in Int /\ h \in Int /\ x.num \in Int /\ x.den \in Int
          /\ y.num \in Int /\ y.den \in Int
      BY <1>1, <1>2 DEF Positive
    <2>2. (g * h) * (x.num * y.den + y.num * x.den)
            = (g * x.num) * (h * y.den) + (h * y.num) * (g * x.den)
      BY <2>1, CrossProducts
    <2>. QED
      BY <1>1, <1>2, <2>2, Zenon
  <1>5. (g * h) * n = b * d
    BY <1>1, <1>2 DEF Positive
  <1>. HIDE DEF m, n
  <1>6. Fraction((g * h) * m, (g * h) * n) = Fraction(m, n)
    BY <1>3, FractionScales
  <1>. QED
    BY <1>4, <1>5, <1>6 DEF Plus, m, n, x, y

(* Their product.                                                          *)
LEMMA TimesOf ==
  ASSUME NEW a \in Int, NEW b \in Positive, NEW c \in Int, NEW d \in Positive
  PROVE  Times(Fraction(a, b), Fraction(c, d)) = Fraction(a * c, b * d)
  <1> DEFINE x == Fraction(a, b)
             y == Fraction(c, d)
             g == Divisor(a, b)
             h == Divisor(c, d)
  <1>1. /\ g \in Positive /\ x.num \in Int /\ x.den \in Positive
        /\ a = g * x.num /\ b = g * x.den
    BY LowestTerms
  <1>2. /\ h \in Positive /\ y.num \in Int /\ y.den \in Positive
        /\ c = h * y.num /\ d = h * y.den
    BY LowestTerms
  <1>. HIDE DEF x, y, g, h
  <1> DEFINE m == x.num * y.num
             n == x.den * y.den
  <1>3. m \in Int /\ n \in Positive /\ g * h \in Positive
    BY <1>1, <1>2 DEF Positive
  <1>4. (g * h) * m = a * c
    BY <1>1, <1>2 DEF Positive
  <1>5. (g * h) * n = b * d
    BY <1>1, <1>2 DEF Positive
  <1>. HIDE DEF m, n
  <1>6. Fraction((g * h) * m, (g * h) * n) = Fraction(m, n)
    BY <1>3, FractionScales
  <1>. QED
    BY <1>4, <1>5, <1>6 DEF Times, m, n, x, y

(* Fractions are compared by cross multiplication.                         *)
LEMMA MinusOf ==
  ASSUME NEW a \in Int, NEW b \in Positive, NEW c \in Int, NEW d \in Positive
  PROVE  Minus(Fraction(c, d), Fraction(a, b)).num >= 0 <=> a * d <= c * b
  <1> DEFINE x == Fraction(a, b)
             y == Fraction(c, d)
             g == Divisor(a, b)
             h == Divisor(c, d)
  <1>1. /\ g \in Positive /\ x.num \in Int /\ x.den \in Positive
        /\ a = g * x.num /\ b = g * x.den
    BY LowestTerms
  <1>2. /\ h \in Positive /\ y.num \in Int /\ y.den \in Positive
        /\ c = h * y.num /\ d = h * y.den
    BY LowestTerms
  <1>. HIDE DEF x, y, g, h
  <1> DEFINE m == y.num * x.den - x.num * y.den
             n == y.den * x.den
             k == Divisor(m, n)
  <1>3. m \in Int /\ n \in Positive /\ g * h \in Positive
    BY <1>1, <1>2 DEF Positive
  <1>4. (g * h) * m = c * b - a * d
    <2>1. /\ g \in Int /\ h \in Int /\ x.num \in Int /\ x.den \in Int
          /\ y.num \in Int /\ y.den \in Int
      BY <1>1, <1>2 DEF Positive
    <2>2. (h * g) * (y.num * x.den - x.num * y.den)
            = (h * y.num) * (g * x.den) - (g * x.num) * (h * y.den)
      BY <2>1, CrossProducts
    <2>3. h * g = g * h
      BY <2>1
    <2>. QED
      BY <1>1, <1>2, <2>2, <2>3, Zenon
  <1>5. Minus(y, x) = Fraction(m, n)
    BY DEF Minus
  <1>. HIDE DEF m, n
  <1>6. k \in Positive /\ Fraction(m, n).num \in Int /\ m = k * Fraction(m, n).num
    BY <1>3, LowestTerms
  <1>. HIDE DEF k
  <1>7. Fraction(m, n).num >= 0 <=> m >= 0
    BY <1>6 DEF Positive
  <1>8. m >= 0 <=> c * b - a * d >= 0
    BY <1>3, <1>4 DEF Positive
  <1>9. a * d \in Int /\ c * b \in Int
    BY DEF Positive
  <1>. QED
    BY <1>5, <1>7, <1>8, <1>9 DEF x, y

LEMMA PlusType ==
  ASSUME NEW x \in Fractions, NEW y \in Fractions
  PROVE  Plus(x, y) \in Fractions /\ Plus(x, y) = Plus(y, x)
  <1>1. x.num \in Int /\ x.den \in Positive /\ y.num \in Int /\ y.den \in Positive
    BY FractionIs
  <1>2. /\ x.num * y.den + y.num * x.den \in Int
        /\ x.num * y.den + y.num * x.den = y.num * x.den + x.num * y.den
        /\ x.den * y.den \in Positive /\ x.den * y.den = y.den * x.den
    BY <1>1 DEF Positive
  <1>. QED
    BY <1>2, FractionType DEF Plus

LEMMA TimesType ==
  ASSUME NEW x \in Fractions, NEW y \in Fractions
  PROVE  Times(x, y) \in Fractions
  <1>1. x.num \in Int /\ x.den \in Positive /\ y.num \in Int /\ y.den \in Positive
    BY FractionIs
  <1>2. x.num * y.num \in Int /\ x.den * y.den \in Positive
    BY <1>1 DEF Positive
  <1>. QED
    BY <1>2, FractionType DEF Times

(* A sum of three does not depend on the brackets.                         *)
LEMMA PlusAssociates ==
  ASSUME NEW x \in Fractions, NEW y \in Fractions, NEW z \in Fractions
  PROVE  Plus(x, Plus(y, z)) = Plus(Plus(x, y), z)
  <1>1. PICK a \in Int, b \in Positive : x = Fraction(a, b)
    BY DEF Fractions
  <1>2. PICK c \in Int, d \in Positive : y = Fraction(c, d)
    BY DEF Fractions
  <1>3. PICK e \in Int, f \in Positive : z = Fraction(e, f)
    BY DEF Fractions
  <1>4. /\ a * d + c * b \in Int /\ b * d \in Positive
        /\ c * f + e * d \in Int /\ d * f \in Positive
    BY DEF Positive
  <1>5. Plus(Plus(x, y), z)
          = Fraction((a * d + c * b) * f + e * (b * d), (b * d) * f)
    BY <1>1, <1>2, <1>3, <1>4, PlusOf
  <1>6. Plus(x, Plus(y, z))
          = Fraction(a * (d * f) + (c * f + e * d) * b, b * (d * f))
    BY <1>1, <1>2, <1>3, <1>4, PlusOf
  <1>7. /\ (a * d + c * b) * f + e * (b * d) = a * (d * f) + (c * f + e * d) * b
        /\ (b * d) * f = b * (d * f)
    BY DEF Positive
  <1>. QED
    BY <1>5, <1>6, <1>7

LEMMA TimesCommutes ==
  ASSUME NEW x \in Fractions, NEW y \in Fractions
  PROVE  Times(x, y) = Times(y, x)
  <1>1. x.num \in Int /\ x.den \in Positive /\ y.num \in Int /\ y.den \in Positive
    BY FractionIs
  <1>2. x.num * y.num = y.num * x.num /\ x.den * y.den = y.den * x.den
    BY <1>1 DEF Positive
  <1>. QED
    BY <1>2 DEF Times

LEMMA TimesDistributes ==
  ASSUME NEW x \in Fractions, NEW y \in Fractions, NEW z \in Fractions
  PROVE  Times(Plus(x, y), z) = Plus(Times(x, z), Times(y, z))
  <1>1. PICK a \in Int, b \in Positive : x = Fraction(a, b)
    BY DEF Fractions
  <1>2. PICK c \in Int, d \in Positive : y = Fraction(c, d)
    BY DEF Fractions
  <1>3. PICK e \in Int, f \in Positive : z = Fraction(e, f)
    BY DEF Fractions
  <1>4. /\ a * d + c * b \in Int /\ b * d \in Positive
        /\ a * e \in Int /\ b * f \in Positive /\ c * e \in Int /\ d * f \in Positive
    BY DEF Positive
  <1>5. Times(Plus(x, y), z) = Fraction((a * d + c * b) * e, (b * d) * f)
    BY <1>1, <1>2, <1>3, <1>4, PlusOf, TimesOf
  <1>6. Plus(Times(x, z), Times(y, z))
          = Fraction((a * e) * (d * f) + (c * e) * (b * f), (b * f) * (d * f))
    BY <1>1, <1>2, <1>3, <1>4, PlusOf, TimesOf
  <1>7. /\ (a * e) * (d * f) + (c * e) * (b * f) = f * ((a * d + c * b) * e)
        /\ (b * f) * (d * f) = f * ((b * d) * f)
        /\ (a * d + c * b) * e \in Int /\ (b * d) * f \in Positive
    BY DEF Positive
  <1>. QED
    BY <1>5, <1>6, <1>7, FractionScales

-----------------------------------------------------------------------------
(* Folds.                                                                  *)

Pick(s) == CHOOSE y \in s : TRUE
Folds(g, S, f, h, base) ==
  \A s \in SUBSET S :
    g[s] = IF s = {} THEN base ELSE h[<<f[Pick(s)], g[s \ {Pick(s)}]>>]

LEMMA PickedFrom ==
  ASSUME NEW S, NEW s \in SUBSET S, s # {}
  PROVE  /\ Pick(s) \in s /\ s \ {Pick(s)} \in SUBSET s /\ s \ {Pick(s)} # s
         /\ s \ {Pick(s)} \in SUBSET S
  <1>1. Pick(s) \in s
    BY DEF Pick
  <1>. QED
    BY <1>1

(* A function that folds every subset of a finite set exists, and          *)
(* FoldUnique says it is the only one.                                     *)
LEMMA FoldExists ==
  ASSUME NEW S, IsFiniteSet(S), NEW V, NEW f \in [S -> V], NEW base \in V,
         NEW h \in [V \X V -> V]
  PROVE  \E g \in [SUBSET S -> V] : Folds(g, S, f, h, base)
  <1> DEFINE Upto(n) == {s \in SUBSET S : Cardinality(s) <= n}
             FoldsUpto(g, n) ==
               \A s \in Upto(n) :
                 g[s] = IF s = {} THEN base ELSE h[<<f[Pick(s)], g[s \ {Pick(s)}]>>]
             N == {n \in Nat : \E g \in [Upto(n) -> V] : FoldsUpto(g, n)}
  <1>1. \A s \in SUBSET S : /\ IsFiniteSet(s) /\ Cardinality(s) \in Nat
                            /\ Cardinality(s) <= Cardinality(S)
                            /\ Cardinality(s) = 0 => s = {}
    BY FS_Subset, FS_CardinalityType, FS_EmptySet
  <1>2. ASSUME NEW s \in SUBSET S, s # {}
        PROVE  /\ Pick(s) \in S /\ s \ {Pick(s)} \in SUBSET S
               /\ Cardinality(s \ {Pick(s)}) = Cardinality(s) - 1
    BY <1>1, <1>2, PickedFrom, FS_RemoveElement
  <1>3. 0 \in N
    <2> DEFINE g == [s \in Upto(0) |-> base]
    <2>1. \A s \in Upto(0) : s = {}
      BY <1>1
    <2>2. g \in [Upto(0) -> V] /\ FoldsUpto(g, 0)
      BY <2>1
    <2>. QED
      BY <2>2
  <1>4. ASSUME NEW n \in N PROVE n + 1 \in N
    <2>1. PICK g \in [Upto(n) -> V] : FoldsUpto(g, n)
      BY <1>4
    <2> DEFINE new(s) == IF s = {} THEN base ELSE h[<<f[Pick(s)], g[s \ {Pick(s)}]>>]
               k == [s \in Upto(n + 1) |-> new(s)]
    <2>2. ASSUME NEW s \in Upto(n + 1), s # {} PROVE s \ {Pick(s)} \in Upto(n)
      BY <1>1, <1>2, <1>4, <2>2
    <2>3. ASSUME NEW s \in Upto(n + 1) PROVE new(s) \in V
      <3>1. CASE s = {}
        BY <3>1
      <3>2. CASE s # {}
        <4>1. g[s \ {Pick(s)}] \in V
          BY <2>2, <3>2
        <4>2. f[Pick(s)] \in V
          BY <1>2, <3>2
        <4>. QED
          BY <3>2, <4>1, <4>2
      <3>. QED
        BY <3>1, <3>2
    <2>4. \A s \in Upto(n) : s \in Upto(n + 1) /\ k[s] = g[s]
      BY <1>1, <1>4, <2>1
    <2>5. k \in [Upto(n + 1) -> V]
      BY <2>3
    <2>6. FoldsUpto(k, n + 1)
      <3>. SUFFICES ASSUME NEW s \in Upto(n + 1), s # {}
                    PROVE  k[s] = h[<<f[Pick(s)], k[s \ {Pick(s)}]>>]
        OBVIOUS
      <3>1. k[s \ {Pick(s)}] = g[s \ {Pick(s)}]
        BY <2>2, <2>4
      <3>. QED
        BY <3>1
    <2>7. n + 1 \in Nat
      BY <1>4
    <2>. HIDE DEF k, Upto, FoldsUpto
    <2>. QED
      BY <2>5, <2>6, <2>7
  <1>. HIDE DEF N
  <1>5. N = Nat
    <2>1. N \in SUBSET Nat
      BY DEF N
    <2>2. ASSUME NEW n \in Nat, \A m \in Nat : m < n => m \in N PROVE n \in N
      <3>1. CASE n = 0
        BY <1>3, <3>1
      <3>2. CASE n # 0
        <4>1. n - 1 \in Nat /\ n - 1 < n /\ n = (n - 1) + 1
          BY <3>2
        <4>. QED
          BY <1>4, <2>2, <4>1
      <3>. QED
        BY <3>1, <3>2
    <2>. QED
      BY <2>1, <2>2, StrongInduction
  <1>6. Cardinality(S) \in N
    BY <1>1, <1>5
  <1>7. PICK g \in [Upto(Cardinality(S)) -> V] : FoldsUpto(g, Cardinality(S))
    BY <1>6 DEF N
  <1>8. Upto(Cardinality(S)) = SUBSET S
    BY <1>1
  <1>. QED
    BY <1>7, <1>8 DEF Folds

Together(i, g, T) ==
  /\ i[{}] = g[{}]
  /\ \A s \in SUBSET T :
       s # {} /\ i[s \ {Pick(s)}] = g[s \ {Pick(s)}] => i[s] = g[s]

LEMMA FoldUnique ==
  ASSUME NEW T, IsFiniteSet(T), NEW i, NEW g, Together(i, g, T)
  PROVE  \A s \in SUBSET T : i[s] = g[s]
  <1> DEFINE X == {s \in SUBSET T : i[s] = g[s]}
  <1>1. ASSUME NEW s \in SUBSET T, \A t \in SUBSET s : t # s => t \in X
        PROVE  s \in X
    <2>1. CASE s = {}
      BY <2>1 DEF Together
    <2>2. CASE s # {}
      <3>1. s \ {Pick(s)} \in X
        BY <1>1, <2>2, PickedFrom
      <3>. QED
        BY <2>2, <3>1 DEF Together
    <2>. QED
      BY <2>1, <2>2
  <1>2. X \in SUBSET SUBSET T
    OBVIOUS
  <1>. HIDE DEF X
  <1>3. X = SUBSET T
    BY <1>1, <1>2, SubsetInduction
  <1>. QED
    BY <1>3 DEF X

(* When the operation is associative and commutative, any element will do. *)
Exchanges(h, V) ==
  \A x, y, z \in V : h[<<x, h[<<y, z>>]>>] = h[<<y, h[<<x, z>>]>>]

Folding(g, S, V, f, h, base) ==
  /\ f \in [S -> V] /\ base \in V /\ h \in [V \X V -> V] /\ Exchanges(h, V)
  /\ g \in [SUBSET S -> V] /\ Folds(g, S, f, h, base)

LEMMA FoldAny ==
  ASSUME NEW S, IsFiniteSet(S), NEW V, NEW f, NEW h, NEW base, NEW g,
         Folding(g, S, V, f, h, base)
  PROVE  \A s \in SUBSET S : \A x \in s : g[s] = h[<<f[x], g[s \ {x}]>>]
  <1> DEFINE X == {s \in SUBSET S : \A x \in s : g[s] = h[<<f[x], g[s \ {x}]>>]}
  <1>1. ASSUME NEW s \in SUBSET S, \A t \in SUBSET s : t # s => t \in X
        PROVE  s \in X
    <2> SUFFICES ASSUME NEW x \in s PROVE g[s] = h[<<f[x], g[s \ {x}]>>]
      OBVIOUS
    <2> DEFINE p == Pick(s)
               t == (s \ {x}) \ {p}
    <2>1. p \in s /\ g[s] = h[<<f[p], g[s \ {p}]>>]
      BY PickedFrom DEF Folding, Folds
    <2>2. CASE x # p
      <3>1. g[s \ {p}] = h[<<f[x], g[t]>>]
        <4>1. s \ {p} \in X
          BY <1>1, <2>1
        <4>2. x \in s \ {p} /\ (s \ {p}) \ {x} = t
          BY <2>2
        <4>3. g[s \ {p}] = h[<<f[x], g[(s \ {p}) \ {x}]>>]
          BY <4>1, <4>2
        <4>. QED
          BY <4>2, <4>3, Zenon
      <3>2. g[s \ {x}] = h[<<f[p], g[t]>>]
        <4>1. s \ {x} \in X /\ p \in s \ {x}
          BY <1>1, <2>1, <2>2
        <4>. QED
          BY <4>1
      <3>3. f[x] \in V /\ f[p] \in V /\ g[t] \in V
        BY <2>1 DEF Folding
      <3>. QED
        BY <2>1, <3>1, <3>2, <3>3 DEF Folding, Exchanges
    <2>. QED
      BY <2>1, <2>2
  <1>. HIDE DEF X
  <1>2. X = SUBSET S
    <2>1. X \in SUBSET SUBSET S
      BY DEF X
    <2>. QED
      BY <1>1, <2>1, SubsetInduction
  <1>. QED
    BY <1>2 DEF X

(* Sums of fractions.  A sum may be over part of a function's domain.      *)
Part(f, s) == [y \in s |-> f[y]]
Adding == [pair \in Fractions \X Fractions |-> Plus(pair[1], pair[2])]

LEMMA ZeroIsFraction == Zero \in Fractions
  BY FractionType DEF Zero, Whole, Positive

LEMMA AddingExchanges ==
  Adding \in [Fractions \X Fractions -> Fractions] /\ Exchanges(Adding, Fractions)
  <1>1. \A x, y \in Fractions : Plus(x, y) \in Fractions
    BY PlusType
  <1>2. Adding \in [Fractions \X Fractions -> Fractions]
    BY <1>1 DEF Adding
  <1>3. ASSUME NEW x \in Fractions, NEW y \in Fractions, NEW z \in Fractions
        PROVE  Adding[<<x, Adding[<<y, z>>]>>] = Adding[<<y, Adding[<<x, z>>]>>]
    <2>1. Plus(x, Plus(y, z)) = Plus(y, Plus(x, z))
      BY PlusAssociates, PlusType
    <2>. QED
      BY <1>1, <2>1 DEF Adding
  <1>. QED
    BY <1>2, <1>3 DEF Exchanges

(* The sum of a function over part of a finite set is what folds there.    *)
LEMMA TotalIs ==
  ASSUME NEW S, IsFiniteSet(S), NEW T \in SUBSET S, NEW f \in [S -> Fractions],
         NEW e, DOMAIN e = T, \A y \in T : e[y] = f[y],
         NEW g \in [SUBSET S -> Fractions], Folds(g, S, f, Adding, Zero)
  PROVE  Total(e) = g[T]
  <1> DEFINE pick(s) == CHOOSE y \in s : TRUE
             Fold(k) == k = [s \in SUBSET T |-> IF s = {} THEN Zero
                               ELSE Plus(e[pick(s)], k[s \ {pick(s)}])]
             iter == CHOOSE k : Fold(k)
             given == [s \in SUBSET T |-> g[s]]
  <1>1. Total(e) = iter[T]
    BY Zenon DEF Total, FoldFunction, FoldFunctionOnSet, MapThenFoldSet
  <1>2. ASSUME NEW s \in SUBSET T, s # {}
        PROVE  /\ pick(s) \in s /\ s \ {pick(s)} \in SUBSET T
               /\ s \ {pick(s)} \in SUBSET s /\ s \ {pick(s)} # s
               /\ g[s] = Plus(e[pick(s)], g[s \ {pick(s)}])
    <2>1. /\ pick(s) \in s /\ s \ {pick(s)} \in SUBSET T
          /\ s \ {pick(s)} \in SUBSET s /\ s \ {pick(s)} # s
      BY <1>2, PickedFrom DEF Pick
    <2>2. g[s] = Adding[<<f[pick(s)], g[s \ {pick(s)}]>>]
      BY <1>2 DEF Folds, Pick
    <2>3. f[pick(s)] \in Fractions /\ g[s \ {pick(s)}] \in Fractions /\ e[pick(s)] = f[pick(s)]
      BY <2>1
    <2>. QED
      BY <2>1, <2>2, <2>3 DEF Adding
  <1>3. g[{}] = Zero
    BY DEF Folds
  <1>. HIDE DEF pick
  <1>4. Fold(given)
    <2>1. \A s \in SUBSET T :
            given[s] = IF s = {} THEN Zero
                       ELSE Plus(e[pick(s)], given[s \ {pick(s)}])
      BY <1>2, <1>3
    <2>. QED
      BY <2>1
  <1>5. Fold(iter)
    BY <1>4
  <1>. HIDE DEF iter
  <1>6. ASSUME NEW s \in SUBSET T, s # {},
               iter[s \ {Pick(s)}] = g[s \ {Pick(s)}]
        PROVE  iter[s] = g[s]
    <2>1. iter[s] = Plus(e[pick(s)], iter[s \ {pick(s)}])
      BY <1>5, <1>6
    <2>2. pick(s) = Pick(s)
      BY DEF pick, Pick
    <2>. QED
      BY <1>2, <1>6, <2>1, <2>2
  <1>7. iter[{}] = g[{}] /\ IsFiniteSet(T)
    BY <1>3, <1>5, FS_Subset
  <1>8. iter[T] = g[T]
    <2>1. Together(iter, g, T)
      BY <1>6, <1>7 DEF Together
    <2>. QED
      BY <1>7, <2>1, FoldUnique
  <1>. QED
    BY <1>1, <1>8

(* The empty sum, and one more summand.                                    *)
LEMMA TotalOfNone ==
  ASSUME NEW f, DOMAIN f = {}
  PROVE  Total(f) = Zero
  <1> DEFINE g == [s \in SUBSET {} |-> Zero]
             none == [y \in {} |-> Zero]
  <1>1. IsFiniteSet({}) /\ Zero \in Fractions
    BY FS_EmptySet, ZeroIsFraction
  <1>2. g \in [SUBSET {} -> Fractions] /\ none \in [{} -> Fractions]
    BY <1>1
  <1>3. Folds(g, {}, none, Adding, Zero)
    BY DEF Folds
  <1>4. g[{}] = Zero
    OBVIOUS
  <1>. HIDE DEF g, none
  <1>. QED
    BY <1>1, <1>2, <1>3, <1>4, TotalIs

LEMMA TotalAdds ==
  ASSUME NEW S, IsFiniteSet(S), NEW x, x \notin S, NEW f \in [S \cup {x} -> Fractions]
  PROVE  /\ Total(f) \in Fractions /\ Total([y \in S |-> f[y]]) \in Fractions
         /\ Total(f) = Plus(f[x], Total([y \in S |-> f[y]]))
  <1> DEFINE T == S \cup {x}
             e == [y \in S |-> f[y]]
  <1>1. IsFiniteSet(T) /\ Zero \in Fractions
    BY FS_AddElement, ZeroIsFraction
  <1>2. Adding \in [Fractions \X Fractions -> Fractions] /\ Exchanges(Adding, Fractions)
    BY AddingExchanges
  <1>3. PICK g \in [SUBSET T -> Fractions] : Folds(g, T, f, Adding, Zero)
    BY <1>1, <1>2, FoldExists
  <1>4. g[T] = Adding[<<f[x], g[T \ {x}]>>]
    <2>1. T \in SUBSET T /\ x \in T
      OBVIOUS
    <2>2. Folding(g, T, Fractions, f, Adding, Zero)
      BY <1>1, <1>2, <1>3 DEF Folding
    <2>. HIDE DEF T
    <2>. QED
      BY <1>1, <2>1, <2>2, FoldAny
  <1>5. T \ {x} = S
    OBVIOUS
  <1>6. Total(f) = g[T]
    BY <1>1, <1>3, TotalIs
  <1>7. Total(e) = g[S]
    <2>1. S \in SUBSET T /\ DOMAIN e = S /\ f \in [T -> Fractions]
          /\ \A y \in S : e[y] = f[y]
      OBVIOUS
    <2>. HIDE DEF T, e
    <2>. QED
      BY <1>1, <1>3, <2>1, TotalIs
  <1>8. f[x] \in Fractions /\ g[S] \in Fractions /\ g[T] \in Fractions
    OBVIOUS
  <1>. HIDE DEF T, e
  <1>9. Adding[<<f[x], g[S]>>] = Plus(f[x], g[S])
    BY <1>8 DEF Adding
  <1>. QED
    BY <1>4, <1>5, <1>6, <1>7, <1>8, <1>9 DEF e

(* Sums of whole numbers.                                                  *)
Summing == [pair \in Int \X Int |-> pair[1] + pair[2]]
Sum(f) == FoldFunction(+, 0, f)
Amounts(S) == [S -> Int]

LEMMA SummingExchanges ==
  Summing \in [Int \X Int -> Int] /\ Exchanges(Summing, Int)
  <1>1. \A x, y \in Int : Summing[<<x, y>>] = x + y /\ x + y \in Int
    BY DEF Summing
  <1>2. Summing \in [Int \X Int -> Int]
    BY DEF Summing
  <1>. QED
    BY <1>1, <1>2 DEF Exchanges

LEMMA SumIs ==
  ASSUME NEW S, IsFiniteSet(S), NEW T \in SUBSET S, NEW f \in [S -> Int],
         NEW e, DOMAIN e = T, \A y \in T : e[y] = f[y],
         NEW g \in [SUBSET S -> Int], Folds(g, S, f, Summing, 0)
  PROVE  Sum(e) = g[T]
  <1> DEFINE pick(s) == CHOOSE y \in s : TRUE
             Fold(k) == k = [s \in SUBSET T |-> IF s = {} THEN 0
                               ELSE e[pick(s)] + k[s \ {pick(s)}]]
             iter == CHOOSE k : Fold(k)
             given == [s \in SUBSET T |-> g[s]]
  <1>1. Sum(e) = iter[T]
    BY Zenon DEF Sum, FoldFunction, FoldFunctionOnSet, MapThenFoldSet
  <1>2. ASSUME NEW s \in SUBSET T, s # {}
        PROVE  /\ pick(s) \in s /\ s \ {pick(s)} \in SUBSET T
               /\ s \ {pick(s)} \in SUBSET s /\ s \ {pick(s)} # s
               /\ g[s] = e[pick(s)] + g[s \ {pick(s)}]
    <2>1. /\ pick(s) \in s /\ s \ {pick(s)} \in SUBSET T
          /\ s \ {pick(s)} \in SUBSET s /\ s \ {pick(s)} # s
      BY <1>2, PickedFrom DEF Pick
    <2>2. g[s] = Summing[<<f[pick(s)], g[s \ {pick(s)}]>>]
      BY <1>2 DEF Folds, Pick
    <2>3. f[pick(s)] \in Int /\ g[s \ {pick(s)}] \in Int /\ e[pick(s)] = f[pick(s)]
      BY <2>1
    <2>. QED
      BY <2>1, <2>2, <2>3 DEF Summing
  <1>3. g[{}] = 0
    BY DEF Folds
  <1>. HIDE DEF pick
  <1>4. Fold(given)
    <2>1. \A s \in SUBSET T :
            given[s] = IF s = {} THEN 0
                       ELSE e[pick(s)] + given[s \ {pick(s)}]
      BY <1>2, <1>3
    <2>. QED
      BY <2>1
  <1>5. Fold(iter)
    BY <1>4
  <1>. HIDE DEF iter
  <1>6. ASSUME NEW s \in SUBSET T, s # {},
               iter[s \ {Pick(s)}] = g[s \ {Pick(s)}]
        PROVE  iter[s] = g[s]
    <2>1. iter[s] = e[pick(s)] + iter[s \ {pick(s)}]
      BY <1>5, <1>6
    <2>2. pick(s) = Pick(s)
      BY DEF pick, Pick
    <2>. QED
      BY <1>2, <1>6, <2>1, <2>2
  <1>7. iter[{}] = g[{}] /\ IsFiniteSet(T)
    BY <1>3, <1>5, FS_Subset
  <1>8. iter[T] = g[T]
    <2>1. Together(iter, g, T)
      BY <1>6, <1>7 DEF Together
    <2>. QED
      BY <1>7, <2>1, FoldUnique
  <1>. QED
    BY <1>1, <1>8

(* The empty sum, and one more summand.                                    *)
LEMMA SumOfNone ==
  ASSUME NEW f, DOMAIN f = {}
  PROVE  Sum(f) = 0
  <1> DEFINE g == [s \in SUBSET {} |-> 0]
             none == [y \in {} |-> 0]
  <1>1. IsFiniteSet({}) /\ 0 \in Int
    BY FS_EmptySet
  <1>2. g \in [SUBSET {} -> Int] /\ none \in [{} -> Int]
    BY <1>1
  <1>3. Folds(g, {}, none, Summing, 0)
    BY DEF Folds
  <1>4. g[{}] = 0
    OBVIOUS
  <1>. HIDE DEF g, none
  <1>. QED
    BY <1>1, <1>2, <1>3, <1>4, SumIs

LEMMA SumAdds ==
  ASSUME NEW S, IsFiniteSet(S), NEW x, x \notin S, NEW f \in Amounts(S \cup {x})
  PROVE  /\ Sum(f) \in Int /\ Sum(Part(f, S)) \in Int
         /\ Sum(f) = f[x] + Sum(Part(f, S))
  <1> DEFINE T == S \cup {x}
             e == Part(f, S)
  <1>0. f \in [T -> Int]
    BY DEF Amounts
  <1>1. IsFiniteSet(T) /\ 0 \in Int
    BY FS_AddElement
  <1>2. Summing \in [Int \X Int -> Int] /\ Exchanges(Summing, Int)
    BY SummingExchanges
  <1>3. PICK g \in [SUBSET T -> Int] : Folds(g, T, f, Summing, 0)
    BY <1>0, <1>1, <1>2, FoldExists
  <1>4. g[T] = Summing[<<f[x], g[T \ {x}]>>]
    <2>1. T \in SUBSET T /\ x \in T
      OBVIOUS
    <2>2. Folding(g, T, Int, f, Summing, 0)
      BY <1>0, <1>1, <1>2, <1>3 DEF Folding
    <2>. HIDE DEF T
    <2>. QED
      BY <1>1, <2>1, <2>2, FoldAny
  <1>5. T \ {x} = S
    OBVIOUS
  <1>6. Sum(f) = g[T]
    BY <1>0, <1>1, <1>3, SumIs
  <1>7. Sum(e) = g[S]
    <2>1. S \in SUBSET T /\ DOMAIN e = S /\ f \in [T -> Int]
          /\ \A y \in S : e[y] = f[y]
      BY <1>0 DEF Part
    <2>. HIDE DEF T, e
    <2>. QED
      BY <1>1, <1>3, <2>1, SumIs
  <1>8. f[x] \in Int /\ g[S] \in Int /\ g[T] \in Int
    BY <1>0
  <1>. HIDE DEF T, e
  <1>9. Summing[<<f[x], g[S]>>] = f[x] + g[S]
    BY <1>8 DEF Summing
  <1>. QED
    BY <1>4, <1>5, <1>6, <1>7, <1>8, <1>9 DEF e

(* What holds of the empty part, and of a part with one more element, holds *)
(* of the whole.                                                           *)
LEMMA TotalOfPart ==
  ASSUME NEW S, IsFiniteSet(S), NEW f \in [S -> Fractions]
  PROVE  /\ Total(Part(f, {})) = Zero
         /\ \A s \in SUBSET S : Total(Part(f, s)) \in Fractions
         /\ \A s \in SUBSET S : \A x \in S \ s :
              Total(Part(f, s \cup {x})) = Plus(f[x], Total(Part(f, s)))
         /\ Part(f, S) = f
  <1>1. Total(Part(f, {})) = Zero
    BY TotalOfNone DEF Part
  <1>2. ASSUME NEW s \in SUBSET S, NEW x \in S \ s
        PROVE  /\ Total(Part(f, s \cup {x})) = Plus(f[x], Total(Part(f, s)))
               /\ Total(Part(f, s \cup {x})) \in Fractions
    <2> DEFINE e == Part(f, s \cup {x})
    <2>1. IsFiniteSet(s) /\ x \notin s
      BY FS_Subset
    <2>2. e \in [s \cup {x} -> Fractions]
      BY DEF Part
    <2>3. e[x] = f[x] /\ [y \in s |-> e[y]] = Part(f, s)
      BY DEF Part
    <2>. HIDE DEF e
    <2>4. /\ Total(e) \in Fractions
          /\ Total(e) = Plus(e[x], Total([y \in s |-> e[y]]))
      BY <2>1, <2>2, TotalAdds
    <2>. QED
      BY <2>3, <2>4 DEF e
  <1>3. ASSUME NEW s \in SUBSET S PROVE Total(Part(f, s)) \in Fractions
    <2>1. CASE s = {}
      BY <1>1, <2>1, ZeroIsFraction
    <2>2. CASE s # {}
      <3>1. PICK x \in s : TRUE
        BY <2>2
      <3>2. s \ {x} \in SUBSET S /\ x \in S \ (s \ {x}) /\ (s \ {x}) \cup {x} = s
        BY <3>1
      <3>. QED
        BY <1>2, <3>2
    <2>. QED
      BY <2>1, <2>2
  <1>. QED
    BY <1>1, <1>2, <1>3 DEF Part

LEMMA SumOfPart ==
  ASSUME NEW S, IsFiniteSet(S), NEW f \in [S -> Int]
  PROVE  /\ Sum(Part(f, {})) = 0
         /\ \A s \in SUBSET S : Sum(Part(f, s)) \in Int
         /\ \A s \in SUBSET S : \A x \in S \ s :
              Sum(Part(f, s \cup {x})) = f[x] + Sum(Part(f, s))
         /\ Part(f, S) = f
  <1>1. Sum(Part(f, {})) = 0
    BY SumOfNone DEF Part
  <1>2. ASSUME NEW s \in SUBSET S, NEW x \in S \ s
        PROVE  /\ Sum(Part(f, s \cup {x})) = f[x] + Sum(Part(f, s))
               /\ Sum(Part(f, s \cup {x})) \in Int
    <2> DEFINE e == Part(f, s \cup {x})
    <2>1. IsFiniteSet(s) /\ x \notin s
      BY FS_Subset
    <2>2. e \in Amounts(s \cup {x})
      BY DEF Part, Amounts
    <2>3. e[x] = f[x] /\ Part(e, s) = Part(f, s)
      BY DEF Part
    <2>. HIDE DEF e
    <2>4. /\ Sum(e) \in Int
          /\ Sum(e) = e[x] + Sum(Part(e, s))
      BY <2>1, <2>2, SumAdds
    <2>. QED
      BY <2>3, <2>4 DEF e
  <1>3. ASSUME NEW s \in SUBSET S PROVE Sum(Part(f, s)) \in Int
    <2>1. CASE s = {}
      BY <1>1, <2>1
    <2>2. CASE s # {}
      <3>1. PICK x \in s : TRUE
        BY <2>2
      <3>2. s \ {x} \in SUBSET S /\ x \in S \ (s \ {x}) /\ (s \ {x}) \cup {x} = s
        BY <3>1
      <3>. QED
        BY <1>2, <3>2
    <2>. QED
      BY <2>1, <2>2
  <1>. QED
    BY <1>1, <1>2, <1>3 DEF Part

(* Fractions of one denominator whose numerators are multiples.            *)
LEMMA TotalOfMultiples ==
  ASSUME NEW S, IsFiniteSet(S), NEW n \in [S -> Int], NEW k \in Int,
         NEW d \in Positive, NEW f, f = [x \in S |-> Fraction(k * n[x], d)]
  PROVE  Total(f) = Fraction(k * Sum(n), d)
  <1>1. \A i \in Int : k * i \in Int /\ Fraction(k * i, d) \in Fractions
    BY FractionType
  <1>2. f \in [S -> Fractions]
    BY <1>1
  <1> DEFINE X == {s \in SUBSET S :
                     Total(Part(f, s)) = Fraction(k * Sum(Part(n, s)), d)}
  <1>3. {} \in X
    <2>1. Zero = Fraction(0, 1) /\ k * 0 = 0 /\ 1 \in Positive /\ 0 * d = 0 * 1
      BY DEF Zero, Whole, Positive
    <2>2. Zero = Fraction(k * 0, d)
      BY <2>1, FractionEqual
    <2>. QED
      BY <1>2, <2>2, TotalOfPart, SumOfPart
  <1>4. ASSUME NEW s \in X, NEW x \in S \ s PROVE s \cup {x} \in X
    <2> DEFINE N == Sum(Part(n, s))
    <2>1. N \in Int /\ n[x] \in Int /\ Sum(Part(n, s \cup {x})) = n[x] + N
      BY SumOfPart
    <2>2. Total(Part(f, s \cup {x})) = Plus(Fraction(k * n[x], d), Fraction(k * N, d))
      BY <1>2, TotalOfPart
    <2>. HIDE DEF N
    <2> DEFINE a == k * n[x]
               b == k * N
    <2>3. a \in Int /\ b \in Int /\ k * (n[x] + N) = a + b
      BY <2>1
    <2>. HIDE DEF a, b
    <2>4. Plus(Fraction(a, d), Fraction(b, d)) = Fraction(a * d + b * d, d * d)
      BY <2>3, PlusOf
    <2>5. a * d + b * d = d * (a + b) /\ a + b \in Int
      BY <2>3 DEF Positive
    <2>6. Fraction(d * (a + b), d * d) = Fraction(a + b, d)
      BY <2>5, FractionScales
    <2>. QED
      BY <2>1, <2>2, <2>3, <2>4, <2>5, <2>6 DEF a, b
  <1>5. X = SUBSET S
    <2>1. X \in SUBSET SUBSET S
      OBVIOUS
    <2>. HIDE DEF X
    <2>. QED
      BY <1>3, <1>4, <2>1, FiniteInduction
  <1>6. S \in X
    BY <1>5
  <1>. QED
    BY <1>2, <1>6, TotalOfPart, SumOfPart

(* Sums are linear.                                                        *)
LEMMA TotalType ==
  ASSUME NEW S, IsFiniteSet(S), NEW f \in [S -> Fractions]
  PROVE  Total(f) \in Fractions
  BY TotalOfPart

LEMMA FourExchange ==
  ASSUME NEW x \in Fractions, NEW y \in Fractions, NEW u \in Fractions,
         NEW v \in Fractions
  PROVE  Plus(Plus(x, y), Plus(u, v)) = Plus(Plus(x, u), Plus(y, v))
  <1>1. Plus(y, Plus(u, v)) = Plus(u, Plus(y, v))
    BY PlusAssociates, PlusType
  <1>2. Plus(Plus(x, y), Plus(u, v)) = Plus(x, Plus(y, Plus(u, v)))
    BY PlusAssociates, PlusType
  <1>3. Plus(Plus(x, u), Plus(y, v)) = Plus(x, Plus(u, Plus(y, v)))
    BY PlusAssociates, PlusType
  <1>. QED
    BY <1>1, <1>2, <1>3

(* The sum of sums.                                                        *)
LEMMA TotalPlus ==
  ASSUME NEW S, IsFiniteSet(S), NEW f \in [S -> Fractions],
         NEW g \in [S -> Fractions]
  PROVE  Total([x \in S |-> Plus(f[x], g[x])]) = Plus(Total(f), Total(g))
  <1> DEFINE e == [x \in S |-> Plus(f[x], g[x])]
             X == {s \in SUBSET S :
                     Total(Part(e, s)) = Plus(Total(Part(f, s)), Total(Part(g, s)))}
  <1>1. e \in [S -> Fractions] /\ \A x \in S : e[x] = Plus(f[x], g[x])
    BY PlusType
  <1>. HIDE DEF e
  <1>2. {} \in X
    <2>1. Plus(Zero, Zero) = Zero
      <3>1. 1 \in Positive /\ 0 * 1 + 0 * 1 = 0 /\ 1 * 1 = 1
        BY DEF Positive
      <3>. QED
        BY <3>1, PlusOf DEF Zero, Whole
    <2>. QED
      BY <1>1, <2>1, TotalOfPart
  <1>3. ASSUME NEW s \in X, NEW x \in S \ s PROVE s \cup {x} \in X
    <2>1. /\ Total(Part(e, s \cup {x})) = Plus(e[x], Total(Part(e, s)))
          /\ Total(Part(f, s \cup {x})) = Plus(f[x], Total(Part(f, s)))
          /\ Total(Part(g, s \cup {x})) = Plus(g[x], Total(Part(g, s)))
          /\ Total(Part(f, s)) \in Fractions /\ Total(Part(g, s)) \in Fractions
      BY <1>1, TotalOfPart
    <2>. QED
      BY <1>1, <2>1, FourExchange
  <1>4. X = SUBSET S
    <2>1. X \in SUBSET SUBSET S
      OBVIOUS
    <2>. HIDE DEF X
    <2>. QED
      BY <1>2, <1>3, <2>1, FiniteInduction
  <1>5. S \in X
    BY <1>4
  <1>. QED
    BY <1>1, <1>5, TotalOfPart DEF e

(* A common factor.                                                        *)
LEMMA TotalTimes ==
  ASSUME NEW S, IsFiniteSet(S), NEW f \in [S -> Fractions], NEW z \in Fractions
  PROVE  Total([x \in S |-> Times(f[x], z)]) = Times(Total(f), z)
  <1> DEFINE e == [x \in S |-> Times(f[x], z)]
             X == {s \in SUBSET S : Total(Part(e, s)) = Times(Total(Part(f, s)), z)}
  <1>1. e \in [S -> Fractions] /\ \A x \in S : e[x] = Times(f[x], z)
    BY TimesType
  <1>. HIDE DEF e
  <1>2. {} \in X
    <2>1. Times(Zero, z) = Zero
      <3>1. z.num \in Int /\ z.den \in Positive /\ z = Fraction(z.num, z.den)
        BY FractionIs
      <3>2. 0 * z.num = 0 /\ 1 * z.den = z.den /\ 1 \in Positive /\ 0 * z.den = 0 * 1
        BY <3>1 DEF Positive
      <3>3. Times(Zero, z) = Fraction(0, z.den)
        BY <3>1, <3>2, TimesOf DEF Zero, Whole
      <3>. QED
        BY <3>1, <3>2, <3>3, FractionEqual DEF Zero, Whole
    <2>. QED
      BY <1>1, <2>1, TotalOfPart
  <1>3. ASSUME NEW s \in X, NEW x \in S \ s PROVE s \cup {x} \in X
    <2>1. /\ Total(Part(e, s \cup {x})) = Plus(e[x], Total(Part(e, s)))
          /\ Total(Part(f, s \cup {x})) = Plus(f[x], Total(Part(f, s)))
          /\ Total(Part(f, s)) \in Fractions
      BY <1>1, TotalOfPart
    <2>. QED
      BY <1>1, <2>1, TimesDistributes
  <1>4. X = SUBSET S
    <2>1. X \in SUBSET SUBSET S
      OBVIOUS
    <2>. HIDE DEF X
    <2>. QED
      BY <1>2, <1>3, <2>1, FiniteInduction
  <1>5. S \in X
    BY <1>4
  <1>. QED
    BY <1>1, <1>5, TotalOfPart DEF e

(* The sum of a table, by rows and by columns.                             *)
LEMMA TotalExchange ==
  ASSUME NEW D, IsFiniteSet(D), NEW S, IsFiniteSet(S),
         NEW m \in [D -> [S -> Fractions]]
  PROVE  Total([d \in D |-> Total(m[d])])
           = Total([x \in S |-> Total([d \in D |-> m[d][x]])])
  <1> DEFINE Row == [d \in D |-> Total(m[d])]
             Column(x, s) == Total(Part([d \in D |-> m[d][x]], s))
             Columns(s) == [x \in S |-> Column(x, s)]
             X == {s \in SUBSET D : Total(Part(Row, s)) = Total(Columns(s))}
  <1>1. Row \in [D -> Fractions] /\ \A d \in D : Row[d] = Total(m[d])
    BY TotalType
  <1>2. ASSUME NEW x \in S
        PROVE  /\ Column(x, {}) = Zero
               /\ \A s \in SUBSET D : Column(x, s) \in Fractions
               /\ \A s \in SUBSET D : \A d \in D \ s :
                    Column(x, s \cup {d}) = Plus(m[d][x], Column(x, s))
               /\ Column(x, D) = Total([d \in D |-> m[d][x]])
    <2> DEFINE c == [d \in D |-> m[d][x]]
    <2>1. c \in [D -> Fractions] /\ \A d \in D : c[d] = m[d][x]
      OBVIOUS
    <2>. HIDE DEF c
    <2>. QED
      BY <2>1, TotalOfPart DEF c
  <1>. HIDE DEF Row, Column
  <1>3. {} \in X
    <2>1. Columns({}) = [x \in S |-> Zero] /\ [x \in S |-> Zero] \in [S -> Fractions]
      BY <1>2, ZeroIsFraction
    <2>2. Total([x \in S |-> Zero]) = Zero
      <3> DEFINE z == [x \in S |-> Zero]
      <3>1. [x \in S |-> Times(z[x], Zero)] = z
        <4>1. Times(Zero, Zero) = Zero
          <5>1. 1 \in Positive /\ 0 * 0 = 0 /\ 1 * 1 = 1
            BY DEF Positive
          <5>. QED
            BY <5>1, TimesOf DEF Zero, Whole
        <4>. QED
          BY <4>1
      <3>2. Total(z) = Times(Total(z), Zero) /\ Total(z) \in Fractions
        <4>1. z \in [S -> Fractions]
          BY ZeroIsFraction
        <4>. HIDE DEF z
        <4>2. Total([x \in S |-> Times(z[x], Zero)]) = Times(Total(z), Zero)
          BY <4>1, ZeroIsFraction, TotalTimes
        <4>. QED
          BY <3>1, <4>1, <4>2, TotalType
      <3>3. \A y \in Fractions : Times(y, Zero) = Zero
        <4> SUFFICES ASSUME NEW y \in Fractions PROVE Times(y, Zero) = Zero
          OBVIOUS
        <4>1. y.num \in Int /\ y.den \in Positive /\ y = Fraction(y.num, y.den)
          BY FractionIs
        <4>2. y.num * 0 = 0 /\ y.den * 1 = y.den /\ 1 \in Positive
              /\ 0 * y.den = 0 * 1
          BY <4>1 DEF Positive
        <4>3. Times(y, Zero) = Fraction(0, y.den)
          BY <4>1, <4>2, TimesOf DEF Zero, Whole
        <4>. QED
          BY <4>1, <4>2, <4>3, FractionEqual DEF Zero, Whole
      <3>. HIDE DEF z
      <3>. QED
        BY <3>2, <3>3 DEF z
    <2>. QED
      BY <1>1, <2>1, <2>2, TotalOfPart
  <1>4. ASSUME NEW s \in X, NEW d \in D \ s PROVE s \cup {d} \in X
    <2>1. Total(Part(Row, s \cup {d})) = Plus(Total(m[d]), Total(Part(Row, s)))
      BY <1>1, TotalOfPart
    <2> DEFINE f == m[d]
               g == Columns(s)
    <2>2. f \in [S -> Fractions] /\ g \in [S -> Fractions]
      BY <1>2
    <2>3. Columns(s \cup {d}) = [x \in S |-> Plus(f[x], g[x])]
      BY <1>2
    <2>4. Total(g) = Total(Part(Row, s))
      OBVIOUS
    <2>5. s \cup {d} \in SUBSET D
      OBVIOUS
    <2>. HIDE DEF f, g, Columns
    <2>6. Total([x \in S |-> Plus(f[x], g[x])]) = Plus(Total(f), Total(g))
      BY <2>2, TotalPlus
    <2>. QED
      BY <2>1, <2>3, <2>4, <2>5, <2>6 DEF f
  <1>5. X = SUBSET D
    <2>1. X \in SUBSET SUBSET D
      OBVIOUS
    <2>. HIDE DEF X
    <2>. QED
      BY <1>3, <1>4, <2>1, FiniteInduction
  <1>6. Total(Part(Row, D)) = Total(Columns(D))
    BY <1>5
  <1>7. Part(Row, D) = Row
    BY <1>1, TotalOfPart
  <1>8. Columns(D) = [x \in S |-> Total([d \in D |-> m[d][x]])]
    BY <1>2
  <1>. QED
    BY <1>6, <1>7, <1>8 DEF Row

-----------------------------------------------------------------------------
(* The order of fractions.                                                 *)
Below(x, y) == Minus(y, x).num >= 0

LEMMA Multiplied ==
  ASSUME NEW k \in Positive, NEW i \in Int, NEW j \in Int
  PROVE  i <= j <=> k * i <= k * j
  BY DEF Positive

LEMMA BelowIs ==
  ASSUME NEW x \in Fractions, NEW y \in Fractions
  PROVE  Below(x, y) <=> x.num * y.den <= y.num * x.den
  <1>1. /\ x.num \in Int /\ x.den \in Positive /\ x = Fraction(x.num, x.den)
        /\ y.num \in Int /\ y.den \in Positive /\ y = Fraction(y.num, y.den)
    BY FractionIs
  <1> DEFINE a == x.num
             b == x.den
             c == y.num
             d == y.den
  <1>2. a \in Int /\ b \in Positive /\ c \in Int /\ d \in Positive
    BY <1>1
  <1>3. Minus(Fraction(c, d), Fraction(a, b)).num >= 0 <=> a * d <= c * b
    <2>. HIDE DEF a, b, c, d
    <2>. QED
      BY <1>2, MinusOf
  <1>. QED
    BY <1>1, <1>3, Zenon DEF Below

LEMMA BelowFractions ==
  ASSUME NEW a \in Int, NEW b \in Positive, NEW c \in Int, NEW d \in Positive
  PROVE  Below(Fraction(a, b), Fraction(c, d)) <=> a * d <= c * b
  BY MinusOf DEF Below

LEMMA BelowOrders ==
  ASSUME NEW x \in Fractions, NEW y \in Fractions
  PROVE  Below(x, x) /\ (Below(x, y) \/ Below(y, x))
  <1>1. x.num \in Int /\ x.den \in Positive /\ y.num \in Int /\ y.den \in Positive
    BY FractionIs
  <1>2. x.num * y.den \in Int /\ y.num * x.den \in Int /\ x.num * x.den \in Int
    BY <1>1 DEF Positive
  <1>. QED
    BY <1>2, BelowIs

LEMMA BelowTransitive ==
  ASSUME NEW x \in Fractions, NEW y \in Fractions, NEW z \in Fractions,
         Below(x, y), Below(y, z)
  PROVE  Below(x, z)
  <1> DEFINE a == x.num
             b == x.den
             c == y.num
             d == y.den
             e == z.num
             f == z.den
  <1>1. /\ a \in Int /\ b \in Positive /\ c \in Int /\ d \in Positive
        /\ e \in Int /\ f \in Positive
    BY FractionIs
  <1>2. a * d <= c * b /\ c * f <= e * d
    BY BelowIs
  <1>3. Below(x, z) <=> a * f <= e * b
    BY BelowIs
  <1>. HIDE DEF a, b, c, d, e, f
  <1>4. f * (a * d) <= f * (c * b)
    <2>1. a * d \in Int /\ c * b \in Int
      BY <1>1 DEF Positive
    <2>. QED
      BY <1>1, <1>2, <2>1, Multiplied
  <1>5. b * (c * f) <= b * (e * d)
    <2>1. c * f \in Int /\ e * d \in Int
      BY <1>1 DEF Positive
    <2>. QED
      BY <1>1, <1>2, <2>1, Multiplied
  <1>6. /\ f * (a * d) = d * (a * f) /\ f * (c * b) = b * (c * f)
        /\ b * (e * d) = d * (e * b)
        /\ d * (a * f) \in Int /\ b * (c * f) \in Int /\ d * (e * b) \in Int
        /\ a * f \in Int /\ e * b \in Int
    BY <1>1 DEF Positive
  <1>7. d * (a * f) <= d * (e * b)
    BY <1>4, <1>5, <1>6
  <1>. QED
    BY <1>1, <1>3, <1>6, <1>7, Multiplied

(* What is added on both sides, what both sides are multiplied with.       *)
LEMMA BelowAdded ==
  ASSUME NEW x \in Fractions, NEW y \in Fractions, NEW z \in Fractions, Below(x, y)
  PROVE  Below(Plus(x, z), Plus(y, z))
  <1> DEFINE a == x.num
             b == x.den
             c == y.num
             d == y.den
             e == z.num
             f == z.den
  <1>1. /\ a \in Int /\ b \in Positive /\ c \in Int /\ d \in Positive
        /\ e \in Int /\ f \in Positive
    BY FractionIs
  <1>2. a * d <= c * b
    BY BelowIs
  <1>3. Plus(x, z) = Fraction(a * f + e * b, b * f)
        /\ Plus(y, z) = Fraction(c * f + e * d, d * f)
    BY DEF Plus
  <1>. HIDE DEF a, b, c, d, e, f
  <1> DEFINE m == a * f + e * b
             n == c * f + e * d
  <1>4. m \in Int /\ n \in Int /\ b * f \in Positive /\ d * f \in Positive
    BY <1>1 DEF Positive
  <1>5. (f * f) * (a * d) <= (f * f) * (c * b)
    <2>1. a * d \in Int /\ c * b \in Int /\ f * f \in Positive
      BY <1>1 DEF Positive
    <2>. QED
      BY <1>2, <2>1, Multiplied
  <1>6. /\ m * (d * f) = (f * f) * (a * d) + e * (b * (d * f))
        /\ n * (b * f) = (f * f) * (c * b) + e * (b * (d * f))
    <2>1. /\ m * (d * f) = (a * f) * (d * f) + (e * b) * (d * f)
          /\ n * (b * f) = (c * f) * (b * f) + (e * d) * (b * f)
      <3>1. ASSUME NEW i \in Int, NEW j \in Int, NEW k \in Int
            PROVE  (i + j) * k = i * k + j * k
        OBVIOUS
      <3>2. /\ a * f \in Int /\ e * b \in Int /\ c * f \in Int /\ e * d \in Int
            /\ d * f \in Int /\ b * f \in Int
        BY <1>1 DEF Positive
      <3>3. (a * f + e * b) * (d * f) = (a * f) * (d * f) + (e * b) * (d * f)
        BY <3>1, <3>2
      <3>4. (c * f + e * d) * (b * f) = (c * f) * (b * f) + (e * d) * (b * f)
        BY <3>1, <3>2
      <3>. QED
        BY <3>3, <3>4
    <2>2. /\ (a * f) * (d * f) = (f * f) * (a * d)
          /\ (e * b) * (d * f) = e * (b * (d * f))
          /\ (c * f) * (b * f) = (f * f) * (c * b)
          /\ (e * d) * (b * f) = e * (b * (d * f))
      BY <1>1 DEF Positive
    <2>. QED
      BY <2>1, <2>2, Zenon
  <1>7. m * (d * f) <= n * (b * f)
    <2>1. /\ (f * f) * (a * d) \in Int /\ (f * f) * (c * b) \in Int
          /\ e * (b * (d * f)) \in Int
      BY <1>1 DEF Positive
    <2> DEFINE i == (f * f) * (a * d)
               j == (f * f) * (c * b)
               k == e * (b * (d * f))
    <2>2. i \in Int /\ j \in Int /\ k \in Int /\ i <= j
      BY <1>5, <2>1
    <2>. HIDE DEF i, j, k, m, n
    <2>3. i + k <= j + k
      BY <2>2
    <2>4. m * (d * f) = i + k /\ n * (b * f) = j + k
      BY <1>6 DEF i, j, k
    <2>. QED
      BY <2>3, <2>4
  <1>. HIDE DEF m, n
  <1>8. Below(Fraction(m, b * f), Fraction(n, d * f))
    BY <1>4, <1>7, BelowFractions
  <1>. QED
    BY <1>3, <1>8 DEF m, n

(* Inequalities add.                                                       *)
LEMMA BelowPlus ==
  ASSUME NEW x \in Fractions, NEW y \in Fractions, NEW u \in Fractions,
         NEW v \in Fractions, Below(x, y), Below(u, v)
  PROVE  Below(Plus(x, u), Plus(y, v))
  <1>1. Below(Plus(x, u), Plus(y, u))
    BY BelowAdded
  <1>2. Below(Plus(u, y), Plus(v, y))
    BY BelowAdded
  <1>3. Plus(u, y) = Plus(y, u) /\ Plus(v, y) = Plus(y, v)
    BY PlusType
  <1>4. /\ Plus(x, u) \in Fractions /\ Plus(y, u) \in Fractions
        /\ Plus(y, v) \in Fractions
    BY PlusType
  <1>. QED
    BY <1>1, <1>2, <1>3, <1>4, BelowTransitive

LEMMA TimesWhole ==
  ASSUME NEW x \in Fractions, NEW n \in Int
  PROVE  /\ Times(x, Whole(n)) = Fraction(x.num * n, x.den)
         /\ Whole(n) \in Fractions
  <1>1. x.num \in Int /\ x.den \in Positive /\ x = Fraction(x.num, x.den)
    BY FractionIs
  <1>2. 1 \in Positive /\ x.den * 1 = x.den
    BY <1>1 DEF Positive
  <1>. QED
    BY <1>1, <1>2, TimesOf, FractionType DEF Whole

LEMMA BelowTimes ==
  ASSUME NEW x \in Fractions, NEW y \in Fractions, NEW n \in Nat, Below(x, y)
  PROVE  Below(Times(x, Whole(n)), Times(y, Whole(n)))
  <1> DEFINE a == x.num
             b == x.den
             c == y.num
             d == y.den
  <1>1. a \in Int /\ b \in Positive /\ c \in Int /\ d \in Positive
    BY FractionIs
  <1>2. a * d <= c * b
    BY BelowIs
  <1>3. Times(x, Whole(n)) = Fraction(a * n, b) /\ Times(y, Whole(n)) = Fraction(c * n, d)
    BY TimesWhole
  <1>. HIDE DEF a, b, c, d
  <1>4. (a * n) * d <= (c * n) * b
    <2>1. CASE n = 0
      <3>1. a * n = 0 /\ c * n = 0
        BY <1>1, <2>1
      <3>2. 0 * d = 0 /\ 0 * b = 0
        BY <1>1 DEF Positive
      <3>. QED
        BY <3>1, <3>2
    <2>2. CASE n # 0
      <3>1. n \in Positive /\ a * d \in Int /\ c * b \in Int
        BY <1>1, <2>2 DEF Positive
      <3>2. n * (a * d) <= n * (c * b)
        BY <1>2, <3>1, Multiplied
      <3>3. n * (a * d) = (a * n) * d /\ n * (c * b) = (c * n) * b
        BY <1>1 DEF Positive
      <3>. QED
        BY <3>2, <3>3
    <2>. QED
      BY <2>1, <2>2
  <1>5. a * n \in Int /\ c * n \in Int
    BY <1>1
  <1>. QED
    BY <1>1, <1>3, <1>4, <1>5, BelowFractions

(* A quotient lies between what the dividend lies between.                 *)
LEMMA BelowQuotient ==
  ASSUME NEW x \in Fractions, NEW t \in Fractions, NEW n \in Positive
  PROVE  /\ Times(t, Fraction(1, n)) \in Fractions
         /\ Below(Times(x, Whole(n)), t) => Below(x, Times(t, Fraction(1, n)))
         /\ Below(t, Times(x, Whole(n))) => Below(Times(t, Fraction(1, n)), x)
  <1> DEFINE a == x.num
             b == x.den
             c == t.num
             d == t.den
  <1>1. /\ a \in Int /\ b \in Positive /\ c \in Int /\ d \in Positive
        /\ x = Fraction(a, b) /\ t = Fraction(c, d) /\ n \in Int
    BY FractionIs DEF Positive
  <1>2. Times(x, Whole(n)) = Fraction(a * n, b)
    BY <1>1, TimesWhole
  <1>. HIDE DEF a, b, c, d
  <1>3. Times(t, Fraction(1, n)) = Fraction(c, d * n) /\ d * n \in Positive
    <2>1. 1 \in Int /\ c * 1 = c /\ d * n \in Positive
      BY <1>1 DEF Positive
    <2>. QED
      BY <1>1, <2>1, TimesOf
  <1>4. a * n \in Int /\ (a * n) * d = a * (d * n) /\ c * b = c * b
    BY <1>1 DEF Positive
  <1>5. Below(Fraction(a * n, b), Fraction(c, d)) <=> (a * n) * d <= c * b
    BY <1>1, <1>4, BelowFractions
  <1>6. Below(Fraction(c, d), Fraction(a * n, b)) <=> c * b <= (a * n) * d
    BY <1>1, <1>4, BelowFractions
  <1>7. Below(Fraction(a, b), Fraction(c, d * n)) <=> a * (d * n) <= c * b
    BY <1>1, <1>3, BelowFractions
  <1>8. Below(Fraction(c, d * n), Fraction(a, b)) <=> c * b <= a * (d * n)
    BY <1>1, <1>3, BelowFractions
  <1>. QED
    BY <1>1, <1>2, <1>3, <1>4, <1>5, <1>6, <1>7, <1>8, FractionType

(* Sums keep the order of their summands.                                  *)
LEMMA TotalBelow ==
  ASSUME NEW S, IsFiniteSet(S), NEW f \in [S -> Fractions],
         NEW g \in [S -> Fractions], \A x \in S : Below(f[x], g[x])
  PROVE  Below(Total(f), Total(g))
  <1> DEFINE X == {s \in SUBSET S : Below(Total(Part(f, s)), Total(Part(g, s)))}
  <1>1. {} \in X
    BY TotalOfPart, ZeroIsFraction, BelowOrders
  <1>2. ASSUME NEW s \in X, NEW x \in S \ s PROVE s \cup {x} \in X
    <2>1. /\ Total(Part(f, s \cup {x})) = Plus(f[x], Total(Part(f, s)))
          /\ Total(Part(g, s \cup {x})) = Plus(g[x], Total(Part(g, s)))
          /\ Total(Part(f, s)) \in Fractions /\ Total(Part(g, s)) \in Fractions
      BY TotalOfPart
    <2>. QED
      BY <2>1, BelowPlus
  <1>3. X = SUBSET S
    <2>1. X \in SUBSET SUBSET S
      OBVIOUS
    <2>. HIDE DEF X
    <2>. QED
      BY <1>1, <1>2, <2>1, FiniteInduction
  <1>4. S \in X
    BY <1>3
  <1>. QED
    BY <1>4, TotalOfPart

(* Of finitely many fractions one is the least and one the greatest.       *)
LEMMA Extremes ==
  ASSUME NEW S, IsFiniteSet(S), S # {}, NEW f \in [S -> Fractions]
  PROVE  \E l, h \in S : \A x \in S : Below(f[l], f[x]) /\ Below(f[x], f[h])
  <1> DEFINE Between(s) ==
               \E l, h \in s : \A x \in s : Below(f[l], f[x]) /\ Below(f[x], f[h])
             X == {s \in SUBSET S : s # {} => Between(s)}
  <1>1. {} \in X
    OBVIOUS
  <1>2. ASSUME NEW s \in X, NEW y \in S \ s PROVE s \cup {y} \in X
    <2>1. CASE s = {}
      <3>1. Below(f[y], f[y])
        BY BelowOrders
      <3>. QED
        BY <2>1, <3>1
    <2>2. CASE s # {}
      <3>1. PICK l \in s, h \in s :
              \A x \in s : Below(f[l], f[x]) /\ Below(f[x], f[h])
        BY <2>2
      <3>2. PICK low \in s \cup {y} : Below(f[low], f[l]) /\ Below(f[low], f[y])
        BY BelowOrders
      <3>3. PICK high \in s \cup {y} : Below(f[h], f[high]) /\ Below(f[y], f[high])
        BY BelowOrders
      <3>4. ASSUME NEW x \in s \cup {y}
            PROVE  Below(f[low], f[x]) /\ Below(f[x], f[high])
        <4>1. CASE x = y
          BY <3>2, <3>3, <4>1
        <4>2. CASE x \in s
          BY <3>1, <3>2, <3>3, <4>2, BelowTransitive
        <4>. QED
          BY <4>1, <4>2
      <3>. QED
        BY <3>4
    <2>. QED
      BY <2>1, <2>2
  <1>3. X = SUBSET S
    <2>1. X \in SUBSET SUBSET S
      OBVIOUS
    <2>. HIDE DEF X
    <2>. QED
      BY <1>1, <1>2, <2>1, FiniteInduction
  <1>4. S \in X
    BY <1>3
  <1>. QED
    BY <1>4

-----------------------------------------------------------------------------
(* The formula.                                                            *)

(* A whole number is itself over one.                                      *)
LEMMA WholeParts ==
  ASSUME NEW n \in Int
  PROVE  Whole(n) \in Fractions /\ Whole(n).num = n /\ Whole(n).den = 1
  <1> DEFINE g == Divisor(n, 1)
             x == Fraction(n, 1)
  <1>1. 1 \in Positive
    BY DEF Positive
  <1>2. g \in Positive /\ x.num \in Int /\ x.den \in Positive
        /\ n = g * x.num /\ 1 = g * x.den
    BY <1>1, LowestTerms
  <1>. HIDE DEF g, x
  <1>3. g = 1 /\ x.den = 1
    <2>1. CASE g = 1
      BY <1>2, <2>1 DEF Positive
    <2>2. CASE g # 1
      <3>1. g >= 2 /\ x.den >= 1 /\ g \in Int /\ x.den \in Int
        BY <1>2, <2>2 DEF Positive
      <3>2. g * x.den >= 2
        BY <3>1
      <3>. QED
        BY <1>2, <3>2
    <2>. QED
      BY <2>1, <2>2
  <1>. QED
    BY <1>1, <1>2, <1>3, FractionType DEF Whole, x

(* Sums of amounts.                                                        *)
LEMMA SumOfNats ==
  ASSUME NEW S, IsFiniteSet(S), NEW n \in [S -> Nat]
  PROVE  Sum(n) \in Nat
  <1> DEFINE X == {s \in SUBSET S : Sum(Part(n, s)) \in Nat}
  <1>0. n \in [S -> Int]
    OBVIOUS
  <1>1. {} \in X
    BY <1>0, SumOfPart
  <1>2. ASSUME NEW s \in X, NEW x \in S \ s PROVE s \cup {x} \in X
    <2>1. Sum(Part(n, s \cup {x})) = n[x] + Sum(Part(n, s))
      BY <1>0, SumOfPart
    <2>2. Sum(Part(n, s)) \in Nat /\ n[x] \in Nat /\ s \cup {x} \in SUBSET S
      OBVIOUS
    <2>. QED
      BY <2>1, <2>2
  <1>3. X = SUBSET S
    <2>1. X \in SUBSET SUBSET S
      OBVIOUS
    <2>. HIDE DEF X
    <2>. QED
      BY <1>1, <1>2, <2>1, FiniteInduction
  <1>4. S \in X
    BY <1>3
  <1>. QED
    BY <1>0, <1>4, SumOfPart

LEMMA TotalOfWholes ==
  ASSUME NEW S, IsFiniteSet(S), NEW n \in [S -> Int]
  PROVE  Total([x \in S |-> Whole(n[x])]) = Whole(Sum(n)) /\ Sum(n) \in Int
  <1> DEFINE f == [x \in S |-> Whole(n[x])]
  <1>1. Sum(n) \in Int
    BY SumOfPart
  <1>2. 1 \in Int /\ 1 \in Positive /\ 1 * Sum(n) = Sum(n)
    BY <1>1 DEF Positive
  <1>3. f = [x \in S |-> Fraction(1 * n[x], 1)]
    BY DEF Whole
  <1>. HIDE DEF f
  <1>4. Total(f) = Fraction(1 * Sum(n), 1)
    BY <1>2, <1>3, TotalOfMultiples
  <1>. QED
    BY <1>1, <1>2, <1>4 DEF Whole, f

(* One fraction times several whole numbers.                               *)
LEMMA TotalOfOne ==
  ASSUME NEW S, IsFiniteSet(S), NEW n \in [S -> Int], NEW x \in Fractions
  PROVE  /\ [p \in S |-> Times(x, Whole(n[p]))] \in [S -> Fractions]
         /\ Total([p \in S |-> Times(x, Whole(n[p]))]) = Times(x, Whole(Sum(n)))
  <1> DEFINE w == [p \in S |-> Whole(n[p])]
  <1>1. w \in [S -> Fractions] /\ Total(w) = Whole(Sum(n)) /\ Whole(Sum(n)) \in Fractions
    <2>1. \A p \in S : Whole(n[p]) \in Fractions
      BY WholeParts
    <2>2. Sum(n) \in Int /\ Total(w) = Whole(Sum(n))
      BY TotalOfWholes
    <2>. QED
      BY <2>1, <2>2, WholeParts
  <1>2. [p \in S |-> Times(x, Whole(n[p]))] = [p \in S |-> Times(w[p], x)]
    <2>1. \A p \in S : Whole(n[p]) \in Fractions
      BY WholeParts
    <2>. QED
      BY <2>1, TimesCommutes
  <1>3. \A p \in S : Times(w[p], x) \in Fractions
    BY <1>1, TimesType
  <1>. HIDE DEF w
  <1>4. Total([p \in S |-> Times(w[p], x)]) = Times(Total(w), x)
    BY <1>1, TotalTimes
  <1>. QED
    BY <1>1, <1>2, <1>3, <1>4, TimesCommutes

(* The average of costs, weighted by what is produced, lies between the    *)
(* least and the greatest of them.                                         *)
LEMMA AverageIsBetween ==
  ASSUME NEW S, IsFiniteSet(S), S # {}, NEW u \in [S -> Fractions],
         NEW n \in [S -> Nat], NEW quantity,
         quantity = Total([p \in S |-> Whole(n[p])]), quantity # Zero
  PROVE  LET total == Total([p \in S |-> Times(u[p], Whole(n[p]))])
             average == Times(total, Fraction(quantity.den, quantity.num))
         IN  \E l, h \in S : Below(u[l], average) /\ Below(average, u[h])
  <1> DEFINE N == Sum(n)
             g == [p \in S |-> Times(u[p], Whole(n[p]))]
             Of(q) == [p \in S |-> Times(u[q], Whole(n[p]))]
             total == Total(g)
             average == Times(total, Fraction(1, N))
  <1>1. n \in [S -> Int] /\ N \in Nat /\ quantity = Whole(N)
    <2>1. n \in [S -> Int]
      OBVIOUS
    <2>. QED
      BY <2>1, SumOfNats, TotalOfWholes
  <1>2. N \in Positive /\ quantity.num = N /\ quantity.den = 1
    <2>1. N # 0
      BY <1>1 DEF Zero
    <2>. HIDE DEF N
    <2>. QED
      BY <1>1, <2>1, WholeParts DEF Positive
  <1>3. PICK l \in S, h \in S : \A p \in S : Below(u[l], u[p]) /\ Below(u[p], u[h])
    BY Extremes
  <1>4. g \in [S -> Fractions]
    <2>1. \A p \in S : Whole(n[p]) \in Fractions
      BY WholeParts
    <2>. QED
      BY <2>1, TimesType
  <1>5. \A q \in S : Of(q) \in [S -> Fractions] /\ Total(Of(q)) = Times(u[q], Whole(N))
    BY <1>1, TotalOfOne
  <1>6. \A p \in S : /\ Below(Of(l)[p], g[p]) /\ Below(g[p], Of(h)[p])
    BY <1>3, BelowTimes
  <1>. HIDE DEF N, g, Of
  <1>7. Below(Total(Of(l)), total) /\ Below(total, Total(Of(h))) /\ total \in Fractions
    BY <1>4, <1>5, <1>6, TotalBelow, TotalType
  <1>8. Below(u[l], average) /\ Below(average, u[h])
    <2>1. Below(Times(u[l], Whole(N)), total) /\ Below(total, Times(u[h], Whole(N)))
      BY <1>5, <1>7
    <2>. HIDE DEF total
    <2>. QED
      BY <1>2, <1>7, <2>1, BelowQuotient
  <1>. QED
    BY <1>2, <1>8 DEF g

(* What a calculation that came to a cost has its figures from: see        *)
(* CalculatedFrom.                                                         *)
Figures(in) ==
  /\ in.share \in Positive /\ PredictionTotal(in) \in Positive
  /\ in.product \in DOMAIN in.predictions
  /\ in.predictions \in [DOMAIN in.predictions -> Nat]
  /\ in.pools \in [DOMAIN in.pools -> Int]

(* Nothing is overridden unless it is asked for.                           *)
LEMMA NoOverridesKeep ==
  ASSUME NEW in,
         in.predictions = [q \in DOMAIN in.predictions |-> in.predictions[q]]
  PROVE  LET same == WithOverrides(in, NoOverrides)
         IN  /\ same.product = in.product /\ same.share = in.share
             /\ same.predictions = in.predictions
             /\ DOMAIN same.lines = DOMAIN in.lines
  <1>1. \A k, x : /\ Overridden(NoOverrides.share, k, x) = x
                  /\ Overridden(NoOverrides.predictions, k, x) = x
    BY DEF NoOverrides, Overridden
  <1>. HIDE DEF NoOverrides
  <1>. QED
    BY <1>1 DEF WithOverrides

(* The share of a pool that a product and its production take.             *)
LEMMA ContributionIs ==
  ASSUME NEW in, Figures(in), NEW pool \in DOMAIN in.pools
  PROVE  LET R == in.pools[pool] * 100
             w == in.share
             T == PredictionTotal(in)
         IN  /\ R \in Int /\ AdjustedPool(in, pool) = Fraction(R, w)
             /\ PerUnit(in, pool) = Fraction(R, w * T) /\ w * T \in Positive
             /\ Contribution(in, pool) =
                  Fraction(R * in.predictions[in.product], w * T)
  <1> DEFINE R == in.pools[pool] * 100
             w == in.share
             T == PredictionTotal(in)
             n == in.predictions[in.product]
  <1>1. R \in Int /\ w \in Positive /\ T \in Positive /\ n \in Int
    BY DEF Figures
  <1>2. AdjustedPool(in, pool) = Fraction(R, w)
    BY DEF AdjustedPool
  <1>3. PerUnit(in, pool) = Times(Fraction(R, w), Fraction(1, T))
        /\ Contribution(in, pool) = Times(PerUnit(in, pool), Fraction(n, 1))
    BY <1>2 DEF PerUnit, Contribution, Whole
  <1>. HIDE DEF R, w, T, n
  <1>4. w * T \in Positive /\ 1 \in Positive /\ 1 \in Int /\ R * 1 = R
        /\ (w * T) * 1 = w * T
    BY <1>1 DEF Positive
  <1>5. PerUnit(in, pool) = Fraction(R, w * T)
    BY <1>1, <1>3, <1>4, TimesOf
  <1>6. Contribution(in, pool) = Fraction(R * n, w * T)
    BY <1>1, <1>3, <1>4, <1>5, TimesOf
  <1>. QED
    BY <1>1, <1>2, <1>4, <1>5, <1>6 DEF R, w, T, n

(* Products that are calculated with the same figures take the whole pool. *)
Alike(in, S, pool, R, w, n) ==
  /\ DOMAIN n = S
  /\ \A q \in S : /\ Figures(in[q]) /\ pool \in DOMAIN in[q].pools
                  /\ in[q].product = q /\ in[q].predictions = n
                  /\ in[q].pools[pool] = R /\ in[q].share = w

LEMMA PoolIsSpread ==
  ASSUME NEW S, IsFiniteSet(S), S # {}, NEW in, NEW pool, NEW R, NEW w, NEW n,
         Alike(in, S, pool, R, w, n)
  PROVE  Total([q \in S |-> Contribution(in[q], pool)]) = Fraction(R * 100, w)
  <1> DEFINE T == Sum(n)
             k == R * 100
             f == [q \in S |-> Contribution(in[q], pool)]
  <1>0. DOMAIN n = S /\ \A q \in S :
          /\ Figures(in[q]) /\ pool \in DOMAIN in[q].pools
          /\ in[q].product = q /\ in[q].predictions = n
          /\ in[q].pools[pool] = R /\ in[q].share = w
    BY DEF Alike
  <1>1. /\ n \in [S -> Int] /\ w \in Positive /\ T \in Positive
        /\ k \in Int /\ \A q \in S : PredictionTotal(in[q]) = T
    <2>1. ASSUME NEW q \in S PROVE PredictionTotal(in[q]) = T
      <3>1. in[q].predictions = n
        BY <1>0
      <3>2. PredictionTotal(in[q]) = Sum(in[q].predictions)
        BY Zenon DEF PredictionTotal, Sum
      <3>. QED
        BY <3>1, <3>2
    <2>2. PICK q \in S : TRUE
      OBVIOUS
    <2>. HIDE DEF T
    <2>. QED
      BY <1>0, <2>1, <2>2 DEF Figures
  <1>2. ASSUME NEW q \in S PROVE Contribution(in[q], pool) = Fraction(k * n[q], w * T)
    <2>1. /\ in[q].pools[pool] = R /\ in[q].share = w /\ PredictionTotal(in[q]) = T
          /\ in[q].predictions[in[q].product] = n[q]
          /\ Figures(in[q]) /\ pool \in DOMAIN in[q].pools
      BY <1>0, <1>1
    <2>. HIDE DEF T
    <2>2. Contribution(in[q], pool) =
            Fraction((in[q].pools[pool] * 100) * in[q].predictions[in[q].product],
                     in[q].share * PredictionTotal(in[q]))
      BY <2>1, ContributionIs
    <2>. QED
      BY <2>1, <2>2, Zenon
  <1>3. f = [q \in S |-> Fraction(k * n[q], w * T)]
    BY <1>2
  <1>. HIDE DEF f, k, T
  <1>4. w * T \in Positive
    BY <1>1, PositiveProduct
  <1>5. Total(f) = Fraction(k * T, w * T)
    BY <1>1, <1>3, <1>4, TotalOfMultiples DEF T
  <1>6. k * T = T * k /\ w * T = T * w
    BY <1>1 DEF Positive
  <1>7. Fraction(T * k, T * w) = Fraction(k, w)
    BY <1>1, FractionScales
  <1>. QED
    BY <1>5, <1>6, <1>7 DEF f, k
=============================================================================
