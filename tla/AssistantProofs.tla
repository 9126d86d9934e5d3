----------------------------- MODULE AssistantProofs -----------------------------
(***************************************************************************)
(* What is proved of a trip's money: that splits are exact, that the plan  *)
(* settles, what holds of rates, base currency and duplicates while        *)
(* requests overlap, and that the trip's three views of its debts agree.   *)
(***************************************************************************)
EXTENDS Assistant, SumProofs

---------------------------------------------------------------------------------
(* Whole numbers.                                                          *)

LEMMA Quotient ==
  ASSUME NEW a \in Nat, NEW b \in Nat \ {0}
  PROVE  /\ a \div b \in Nat /\ a % b \in 0 .. b - 1
         /\ a = b * (a \div b) + (a % b)
OBVIOUS

LEMMA QuotientIs ==
  ASSUME NEW q \in Nat, NEW b \in Nat \ {0}
  PROVE  (b * q) \div b = q /\ (b * q) % b = 0
OBVIOUS

LEMMA ProductType ==
  ASSUME NEW a \in Nat, NEW b \in Nat
  PROVE  a * b \in Nat /\ (a > 0 /\ b > 0 => a * b > 0) /\ (a = 0 \/ b = 0 => a * b = 0)
OBVIOUS

LEMMA ProductMonotone ==
  ASSUME NEW c \in Nat, NEW a \in Int, NEW b \in Int, a <= b
  PROVE  c * a <= c * b /\ a * c <= b * c
OBVIOUS

LEMMA ProductStrict ==
  ASSUME NEW c \in Nat \ {0}, NEW a \in Int, NEW b \in Int, c * a < c * b
  PROVE  a < b
OBVIOUS

LEMMA Cancels ==
  ASSUME NEW c \in Nat \ {0}, NEW a \in Int, NEW b \in Int, c * a = c * b
  PROVE  a = b
OBVIOUS

LEMMA ProductAbs ==
  ASSUME NEW c \in Nat \ {0}, NEW a \in Int, NEW b \in Int, Abs(a) < b
  PROVE  Abs(c * a) < c * b
BY DEF Abs

---------------------------------------------------------------------------------
(* Rounding.                                                               *)

\* v is a whole number of units, not below zero.
InUnits(v, unit) == \E k \in Nat : v = unit * k

\* A rounded amount is a number of units, of the sign of the amount.
LEMMA RoundUnits ==
  ASSUME NEW v \in Int, NEW unit \in Nat \ {0}
  PROVE  \E n \in Nat : /\ v >= 0 => Round(v, unit) = unit * n
                        /\ v < 0 => Round(v, unit) = -(unit * n)
<1>1. PICK w \in Nat : w = Abs(v)
  BY DEF Abs
<1>2. PICK q \in Nat : q = w \div unit
  BY <1>1, Quotient
<1>3. PICK n \in Nat :
        n = IF 2 * (w % unit) > unit \/ (2 * (w % unit) = unit /\ q % 2 = 1) THEN q + 1 ELSE q
  BY <1>2
<1>4. Round(v, unit) = IF v < 0 THEN -(unit * n) ELSE unit * n
  BY <1>1, <1>2, <1>3 DEF Round
<1> QED
  BY <1>4

LEMMA RoundType ==
  ASSUME NEW v \in Int, NEW unit \in Nat \ {0}
  PROVE  /\ Round(v, unit) \in Int
         /\ v >= 0 => Round(v, unit) \in Nat
<1>1. PICK n \in Nat : /\ v >= 0 => Round(v, unit) = unit * n
                       /\ v < 0 => Round(v, unit) = -(unit * n)
  BY RoundUnits
<1>2. unit * n \in Nat
  BY ProductType
<1> QED
  BY <1>1, <1>2

\* A number of units is not changed by rounding.
LEMMA RoundFixes ==
  ASSUME NEW k \in Int, NEW unit \in Nat \ {0}
  PROVE  Round(unit * k, unit) = unit * k
<1>1. PICK n \in Nat : n = Abs(k)
  BY DEF Abs
<1>2. Abs(unit * k) = unit * n /\ unit * n \in Nat
  BY <1>1, ProductType DEF Abs
<1>3. (unit * n) \div unit = n /\ (unit * n) % unit = 0
  BY QuotientIs
<1>4. Round(unit * k, unit) = IF unit * k < 0 THEN -(unit * n) ELSE unit * n
  BY <1>2, <1>3 DEF Round
<1> QED
  BY <1>2, <1>4 DEF Abs

---------------------------------------------------------------------------------
(* Whole units shared by weight.                                           *)

LEMMA TotalIs ==
  ASSUME NEW f
  PROVE  Total(f) = Sum(f, DOMAIN f)
BY DEF Total, SumFunction, Sum

\* What FairPart computes with: the parts rounded down, what rounding took, and who comes
\* before whom.
Weighted(weight) ==
  /\ IsFiniteSet(DOMAIN weight) /\ DOMAIN weight \subseteq Nat
  /\ \A p \in DOMAIN weight : weight[p] \in Nat
  /\ Total(weight) > 0

Floors(units, weight) == [q \in DOMAIN weight |-> (units * weight[q]) \div Total(weight)]
Fractions(units, weight) == [q \in DOMAIN weight |-> (units * weight[q]) % Total(weight)]
Before(units, weight) ==
  [p \in DOMAIN weight |->
     {q \in DOMAIN weight :
        \/ Fractions(units, weight)[q] > Fractions(units, weight)[p]
        \/ Fractions(units, weight)[q] = Fractions(units, weight)[p] /\ q < p}]
Leftover(units, weight) == units - Total(Floors(units, weight))

LEMMA FairPartIs ==
  ASSUME NEW units, NEW weight, NEW p \in DOMAIN weight
  PROVE  FairPart(units, weight, p) =
           Floors(units, weight)[p]
             + (IF Cardinality(Before(units, weight)[p]) < Leftover(units, weight) THEN 1 ELSE 0)
BY DEF FairPart, Floors, Fractions, Before, Leftover

LEMMA TotalType ==
  ASSUME NEW weight, Weighted(weight)
  PROVE  Total(weight) \in Nat \ {0}
<1>1. Sum(weight, DOMAIN weight) \in Nat
  BY SumNat DEF Weighted
<1> QED
  BY <1>1, TotalIs DEF Weighted

LEMMA Rest ==
  ASSUME NEW units \in Nat, NEW weight, Weighted(weight), NEW q \in DOMAIN weight
  PROVE  /\ Floors(units, weight)[q] \in Nat
         /\ Fractions(units, weight)[q] \in 0 .. Total(weight) - 1
         /\ units * weight[q] = Total(weight) * Floors(units, weight)[q] + Fractions(units, weight)[q]
         /\ weight[q] \in Nat /\ units * weight[q] \in Nat
<1>1. weight[q] \in Nat /\ units * weight[q] \in Nat
  BY ProductType DEF Weighted
<1>2. Total(weight) \in Nat \ {0}
  BY TotalType
<1> QED
  BY <1>1, <1>2, Quotient DEF Floors, Fractions

\* What rounding down leaves is what it took, in whole units.
LEMMA LeftoverIs ==
  ASSUME NEW units \in Nat, NEW weight, Weighted(weight)
  PROVE  /\ Leftover(units, weight) \in Int
         /\ Sum(Fractions(units, weight), DOMAIN weight) = Total(weight) * Leftover(units, weight)
<1>1. PICK D : D = DOMAIN weight
  OBVIOUS
<1>2. PICK all \in Nat \ {0} : all = Total(weight) /\ all = Sum(weight, D)
  BY <1>1, TotalType, TotalIs
<1>3. PICK floor : floor = Floors(units, weight)
  OBVIOUS
<1>4. PICK frac : frac = Fractions(units, weight)
  OBVIOUS
<1>5. \A q \in D : /\ floor[q] \in Nat /\ frac[q] \in Nat /\ weight[q] \in Nat
                   /\ units * weight[q] = all * floor[q] + frac[q]
  <2> SUFFICES ASSUME NEW q \in D
               PROVE  /\ floor[q] \in Nat /\ frac[q] \in Nat /\ weight[q] \in Nat
                      /\ units * weight[q] = all * floor[q] + frac[q]
    OBVIOUS
  <2>1. /\ floor[q] \in Nat /\ frac[q] \in 0 .. all - 1 /\ weight[q] \in Nat
        /\ units * weight[q] = all * floor[q] + frac[q]
    BY <1>1, <1>2, <1>3, <1>4, Rest
  <2> QED
    BY <2>1
<1>6. DOMAIN floor = D /\ IsFiniteSet(D)
  BY <1>1, <1>3 DEF Floors, Weighted
<1>7. PICK product : product = [q \in D |-> units * weight[q]]
  OBVIOUS
<1>8. PICK whole : whole = [q \in D |-> all * floor[q]]
  OBVIOUS
<1>9. Sum(product, D) = units * Sum(weight, D)
  BY <1>5, <1>6, <1>7, SumScale
<1>10. Sum(whole, D) = all * Sum(floor, D)
  BY <1>5, <1>6, <1>8, SumScale
<1>11. Sum(product, D) = Sum(whole, D) + Sum(frac, D)
  <2>1. \A q \in D : whole[q] \in Int /\ frac[q] \in Int /\ product[q] = whole[q] + frac[q]
    <3> SUFFICES ASSUME NEW q \in D
                 PROVE  whole[q] \in Int /\ frac[q] \in Int /\ product[q] = whole[q] + frac[q]
      OBVIOUS
    <3>1. all * floor[q] \in Nat
      BY <1>5, ProductType
    <3> QED
      BY <1>5, <1>7, <1>8, <3>1
  <2> QED
    BY <1>6, <2>1, SumPlus
<1>12. Sum(floor, D) \in Int /\ Sum(frac, D) \in Int
  BY <1>5, <1>6, SumInt
<1>13. Total(floor) = Sum(floor, D)
  BY <1>6, TotalIs
<1>14. PICK s \in Int : s = Sum(floor, D)
  BY <1>12
<1>15. units * all = all * s + Sum(frac, D)
  BY <1>2, <1>9, <1>10, <1>11, <1>14
<1>16. all * (units - s) = all * units - all * s
  OBVIOUS
<1>17. Leftover(units, weight) = units - s
  BY <1>3, <1>13, <1>14 DEF Leftover
<1>18. all * units = units * all
  OBVIOUS
<1>19. Sum(frac, D) = all * (units - s)
  BY <1>12, <1>15, <1>16, <1>18
<1> QED
  BY <1>1, <1>2, <1>4, <1>17, <1>19

\* There are no more units left than people who lost a fraction.
LEMMA LeftoverBounds ==
  ASSUME NEW units \in Nat, NEW weight, Weighted(weight),
         NEW lost, lost = {q \in DOMAIN weight : Fractions(units, weight)[q] > 0}
  PROVE  /\ Leftover(units, weight) \in Nat
         /\ Leftover(units, weight) <= Cardinality(lost)
<1>1. PICK D : D = DOMAIN weight /\ IsFiniteSet(D)
  BY DEF Weighted
<1>2. PICK all \in Nat \ {0} : all = Total(weight)
  BY TotalType
<1>3. PICK frac : frac = Fractions(units, weight)
  OBVIOUS
<1>4. PICK k \in Int : k = Leftover(units, weight)
  BY LeftoverIs
<1>5. \A q \in D : frac[q] \in 0 .. all - 1
  <2> SUFFICES ASSUME NEW q \in D PROVE frac[q] \in 0 .. all - 1
    OBVIOUS
  <2> QED
    BY <1>1, <1>2, <1>3, Rest
<1>6. Sum(frac, D) = all * k
  BY <1>1, <1>2, <1>3, <1>4, LeftoverIs
<1>7. lost \in SUBSET D /\ \A q \in D \ lost : frac[q] = 0
  BY <1>1, <1>3, <1>5
<1>8. IsFiniteSet(lost) /\ Cardinality(lost) \in Nat
  BY <1>1, <1>7, FS_Subset, FS_CardinalityType
<1>9. Sum(frac, D) = Sum(frac, lost)
  <2>1. \A q \in D : frac[q] \in Int
    BY <1>5
  <2> QED
    BY <1>1, <1>7, <2>1, SumDropsZeros
<1>10. Sum(frac, lost) \in Nat
  BY <1>5, <1>7, <1>8, SumNat
<1>11. PICK each : each = [q \in lost |-> all]
  OBVIOUS
<1>12. Sum(each, lost) = all * Cardinality(lost)
  BY <1>8, <1>11, SumConstant
<1>13. Sum(frac, lost) <= Sum(each, lost)
  <2>1. \A q \in lost : frac[q] \in Int /\ each[q] \in Int /\ frac[q] <= each[q]
    BY <1>5, <1>7, <1>11
  <2> QED
    BY <1>8, <2>1, SumMonotone
<1>14. all * k >= 0 /\ all * k <= all * Cardinality(lost)
  BY <1>6, <1>9, <1>10, <1>12, <1>13
<1>15. k >= 0
  BY <1>14
<1>16. ~(Cardinality(lost) < k)
  <2> SUFFICES ASSUME Cardinality(lost) + 1 <= k PROVE FALSE
    BY <1>8
  <2>1. all * (Cardinality(lost) + 1) <= all * k
    BY <1>8, ProductMonotone
  <2>2. all * (Cardinality(lost) + 1) = all * Cardinality(lost) + all
    BY <1>8, Distributes
  <2>3. all * Cardinality(lost) \in Nat /\ all * k \in Int
    BY <1>8, ProductType
  <2> QED
    BY <1>14, <2>1, <2>2, <2>3
<1> QED
  BY <1>4, <1>8, <1>15, <1>16

LEMMA BeforeOrders ==
  ASSUME NEW units \in Nat, NEW weight, Weighted(weight),
         NEW before, before = Before(units, weight)
  PROVE  /\ before \in [DOMAIN weight -> SUBSET DOMAIN weight]
         /\ \A p \in DOMAIN weight : p \notin before[p]
         /\ \A p, q \in DOMAIN weight : p \in before[q] => before[p] \subseteq before[q]
         /\ \A p, q \in DOMAIN weight : p = q \/ p \in before[q] \/ q \in before[p]
<1>1. PICK D : D = DOMAIN weight /\ D \subseteq Nat
  BY DEF Weighted
<1>2. PICK frac : frac = Fractions(units, weight)
  OBVIOUS
<1>3. \A q \in D : frac[q] \in Int
  <2> SUFFICES ASSUME NEW q \in D PROVE frac[q] \in Int
    OBVIOUS
  <2>1. frac[q] \in 0 .. Total(weight) - 1 /\ Total(weight) \in Nat
    BY <1>1, <1>2, Rest, TotalType
  <2> QED
    BY <2>1
<1>4. before = [p \in D |-> {q \in D : frac[q] > frac[p] \/ (frac[q] = frac[p] /\ q < p)}]
  BY <1>1, <1>2 DEF Before
<1>5. ASSUME NEW p \in D, NEW q \in D, p \in before[q], NEW x \in before[p]
      PROVE  x \in before[q]
  <2>1. x \in D /\ (frac[x] > frac[p] \/ (frac[x] = frac[p] /\ x < p))
    BY <1>4, <1>5
  <2>2. frac[p] > frac[q] \/ (frac[p] = frac[q] /\ p < q)
    BY <1>4, <1>5
  <2>3. frac[x] > frac[q] \/ (frac[x] = frac[q] /\ x < q)
    BY <1>1, <1>3, <2>1, <2>2
  <2> QED
    BY <1>4, <2>1, <2>3
<1>6. ASSUME NEW p \in D, NEW q \in D
      PROVE  p = q \/ p \in before[q] \/ q \in before[p]
  BY <1>1, <1>3, <1>4
<1>7. ASSUME NEW p \in D PROVE p \notin before[p]
  BY <1>1, <1>3, <1>4
<1>8. before \in [D -> SUBSET D]
  BY <1>4
<1> QED
  BY <1>1, <1>5, <1>6, <1>7, <1>8

\* A part is the exact share, to less than a unit either way; who counts for nothing gets
\* nothing.
LEMMA FairPartClose ==
  ASSUME NEW units \in Nat, NEW weight, Weighted(weight), NEW p \in DOMAIN weight
  PROVE  /\ FairPart(units, weight, p) \in Nat
         /\ Abs(FairPart(units, weight, p) * Total(weight) - units * weight[p]) < Total(weight)
         /\ weight[p] = 0 => FairPart(units, weight, p) = 0
<1>1. PICK D : D = DOMAIN weight /\ IsFiniteSet(D)
  BY DEF Weighted
<1>2. PICK all \in Nat \ {0} : all = Total(weight)
  BY TotalType
<1>3. PICK frac : frac = Fractions(units, weight)
  OBVIOUS
<1>4. PICK lost : lost = {q \in D : frac[q] > 0}
  OBVIOUS
<1>5. PICK k \in Nat : k = Leftover(units, weight) /\ k <= Cardinality(lost)
  BY <1>1, <1>3, <1>4, LeftoverBounds
<1>6. PICK ahead : ahead = Before(units, weight)[p]
  OBVIOUS
<1>7. PICK f \in Nat : f = Floors(units, weight)[p]
  BY Rest
<1>8. PICK x \in 0 .. all - 1 : x = frac[p]
  BY <1>2, <1>3, Rest
<1>9. PICK share \in Nat : share = units * weight[p] /\ share = all * f + x
  BY <1>2, <1>3, <1>7, <1>8, Rest
<1>10. FairPart(units, weight, p) = f + (IF Cardinality(ahead) < k THEN 1 ELSE 0)
  BY <1>5, <1>6, <1>7, FairPartIs
<1>11. all * f \in Nat /\ f * all = all * f /\ (f + 1) * all = all * f + all
  BY ProductType
<1>12. ASSUME x = 0
       PROVE  ~(Cardinality(ahead) < k)
  <2>1. lost \subseteq ahead
    <3> SUFFICES ASSUME NEW q \in lost PROVE q \in ahead
      OBVIOUS
    <3>1. q \in D /\ frac[q] > frac[p]
      BY <1>4, <1>8, <1>12
    <3> QED
      BY <1>1, <1>3, <1>6, <3>1 DEF Before
  <2>2. ahead \in SUBSET D
    BY <1>1, <1>6 DEF Before
  <2>3. IsFiniteSet(ahead) /\ Cardinality(ahead) \in Nat
    BY <1>1, <2>2, FS_Subset, FS_CardinalityType
  <2>4. Cardinality(lost) <= Cardinality(ahead) /\ Cardinality(lost) \in Nat
    BY <2>1, <2>3, FS_Subset, FS_CardinalityType
  <2> QED
    BY <1>5, <2>3, <2>4
<1>13. ASSUME weight[p] = 0
       PROVE  f = 0 /\ x = 0
  <2>1. share = 0
    BY <1>9, <1>13
  <2> QED
    BY <1>9, <1>11, <2>1
<1>14. FairPart(units, weight, p) \in Nat
  BY <1>10
<1>15. Abs(FairPart(units, weight, p) * all - share) < all
  <2>1. CASE Cardinality(ahead) < k
    <3>1. FairPart(units, weight, p) = f + 1 /\ x > 0
      BY <1>8, <1>10, <1>12, <2>1
    <3>2. (f + 1) * all - share = all - x
      BY <1>9, <1>11
    <3> QED
      BY <3>1, <3>2 DEF Abs
  <2>2. CASE ~(Cardinality(ahead) < k)
    <3>1. FairPart(units, weight, p) = f
      BY <1>10, <2>2
    <3>2. f * all - share = -x
      <4>1. PICK m \in Nat : m = all * f
        BY <1>11
      <4>2. share = m + x /\ f * all = m /\ x \in Int
        BY <1>8, <1>9, <1>11, <4>1
      <4>3. m - share = -x
        BY <4>2
      <4> QED
        BY <4>2, <4>3
    <3> QED
      BY <3>1, <3>2 DEF Abs
  <2> QED
    BY <2>1, <2>2
<1>16. weight[p] = 0 => FairPart(units, weight, p) = 0
  BY <1>10, <1>12, <1>13
<1> QED
  BY <1>2, <1>9, <1>14, <1>15, <1>16

\* A larger weight gets no less.
LEMMA FairPartMonotone ==
  ASSUME NEW units \in Nat, NEW weight, Weighted(weight),
         NEW p \in DOMAIN weight, NEW q \in DOMAIN weight, weight[p] > weight[q]
  PROVE  FairPart(units, weight, p) >= FairPart(units, weight, q)
<1>1. PICK D : D = DOMAIN weight /\ IsFiniteSet(D)
  BY DEF Weighted
<1>2. PICK all \in Nat \ {0} : all = Total(weight)
  BY TotalType
<1>3. PICK frac : frac = Fractions(units, weight)
  OBVIOUS
<1>4. PICK k \in Nat : k = Leftover(units, weight)
  BY LeftoverBounds
<1>5. PICK before : before = Before(units, weight)
  OBVIOUS
<1>6. PICK fp \in Nat : fp = Floors(units, weight)[p]
  BY Rest
<1>7. PICK fq \in Nat : fq = Floors(units, weight)[q]
  BY Rest
<1>8. /\ frac[p] \in 0 .. all - 1 /\ frac[q] \in 0 .. all - 1
      /\ weight[p] \in Nat /\ weight[q] \in Nat
      /\ units * weight[p] = all * fp + frac[p] /\ units * weight[q] = all * fq + frac[q]
  BY <1>2, <1>3, <1>6, <1>7, Rest
<1>9. /\ FairPart(units, weight, p) = fp + (IF Cardinality(before[p]) < k THEN 1 ELSE 0)
      /\ FairPart(units, weight, q) = fq + (IF Cardinality(before[q]) < k THEN 1 ELSE 0)
  BY <1>4, <1>5, <1>6, <1>7, FairPartIs
<1>10. CASE units = 0
  <2>1. units * weight[p] = 0 /\ units * weight[q] = 0
    BY <1>8, <1>10
  <2>2. all * fp \in Nat /\ all * fq \in Nat
    BY ProductType
  <2>3. all * fp = 0 /\ all * fq = 0
    <3>1. PICK m \in Nat : m = all * fp
      BY <2>2
    <3>2. PICK n \in Nat : n = all * fq
      BY <2>2
    <3>3. 0 = m + frac[p] /\ 0 = n + frac[q] /\ frac[p] \in Nat /\ frac[q] \in Nat
      BY <1>8, <2>1, <3>1, <3>2
    <3>4. m + frac[p] = 0 => m = 0
      BY <3>3
    <3>5. n + frac[q] = 0 => n = 0
      BY <3>3
    <3>6. m = 0 /\ n = 0
      BY <3>3, <3>4, <3>5
    <3> QED
      BY <3>1, <3>2, <3>6
  <2>4. fp = 0 /\ fq = 0
    BY <2>3, ProductType
  <2>5. \A z \in D : units * weight[z] = 0
    <3> SUFFICES ASSUME NEW z \in D PROVE units * weight[z] = 0
      OBVIOUS
    <3>1. weight[z] \in Nat
      BY <1>1, Rest
    <3> QED
      BY <1>10, <3>1
  <2>6. {z \in D : frac[z] > 0} = {}
    <3> SUFFICES ASSUME NEW z \in D PROVE frac[z] = 0
      OBVIOUS
    <3>1. units * weight[z] = all * Floors(units, weight)[z] + frac[z]
      BY <1>1, <1>2, <1>3, Rest
    <3>2. Floors(units, weight)[z] \in Nat /\ frac[z] \in 0 .. all - 1
      BY <1>1, <1>2, <1>3, Rest
    <3>3. all * Floors(units, weight)[z] \in Nat
      BY <3>2, ProductType
    <3> QED
      BY <2>5, <3>1, <3>2, <3>3
  <2>7. k <= 0
    <3>1. k <= Cardinality({z \in D : frac[z] > 0})
      BY <1>1, <1>3, <1>4, LeftoverBounds
    <3> QED
      BY <2>6, <3>1, FS_EmptySet
  <2>8. ~(Cardinality(before[p]) < k) /\ ~(Cardinality(before[q]) < k)
    <3>1. before[p] \in SUBSET D /\ before[q] \in SUBSET D
      BY <1>1, <1>5 DEF Before
    <3>2. Cardinality(before[p]) \in Nat /\ Cardinality(before[q]) \in Nat
      BY <1>1, <3>1, FS_Subset, FS_CardinalityType
    <3> QED
      BY <2>7, <3>2
  <2> QED
    BY <1>9, <2>4, <2>8
<1>11. CASE units > 0
  <2>1. units * weight[q] + 1 <= units * weight[p]
    <3>1. units * (weight[q] + 1) <= units * weight[p]
      BY <1>8, ProductMonotone
    <3>2. units * (weight[q] + 1) = units * weight[q] + units
      BY <1>8, Distributes
    <3>3. units * weight[q] \in Nat /\ units * weight[p] \in Nat
      BY <1>8, ProductType
    <3> QED
      BY <1>11, <3>1, <3>2, <3>3
  <2>2. ~(fp < fq)
    <3> SUFFICES ASSUME fp + 1 <= fq PROVE FALSE
      BY <1>6, <1>7
    <3>1. all * (fp + 1) <= all * fq
      BY ProductMonotone
    <3>2. all * (fp + 1) = all * fp + all
      BY Distributes
    <3>3. all * fp \in Nat /\ all * fq \in Nat
      BY ProductType
    <3> QED
      BY <1>8, <2>1, <3>1, <3>2, <3>3
  <2>3. CASE fp > fq
    BY <1>9, <2>3
  <2>4. CASE fp = fq
    <3>1. frac[p] > frac[q]
      <4>1. all * fp \in Nat
        BY ProductType
      <4> QED
        BY <1>8, <2>1, <2>4, <4>1
    <3>2. before[p] \subseteq before[q]
      <4>1. p \in before[q]
        BY <1>1, <1>3, <1>5, <3>1 DEF Before
      <4> QED
        BY <1>5, <4>1, BeforeOrders
    <3>3. before[q] \in SUBSET D
      BY <1>1, <1>5 DEF Before
    <3>4. IsFiniteSet(before[q])
      BY <1>1, <3>3, FS_Subset
    <3>5. /\ Cardinality(before[p]) <= Cardinality(before[q])
          /\ Cardinality(before[p]) \in Nat /\ Cardinality(before[q]) \in Nat
      BY <3>2, <3>4, FS_Subset, FS_CardinalityType
    <3> QED
      BY <1>9, <2>4, <3>5
  <2> QED
    BY <2>2, <2>3, <2>4
<1> QED
  BY <1>10, <1>11

\* The parts add up to the units.
LEMMA FairPartTotal ==
  ASSUME NEW units \in Nat, NEW weight, Weighted(weight),
         NEW part, \A p \in DOMAIN weight : part[p] = FairPart(units, weight, p)
  PROVE  Sum(part, DOMAIN weight) = units
<1>1. PICK D : D = DOMAIN weight /\ IsFiniteSet(D)
  BY DEF Weighted
<1>2. PICK floor : floor = Floors(units, weight)
  OBVIOUS
<1>3. PICK before : before = Before(units, weight)
  OBVIOUS
<1>4. PICK lost : lost = {q \in D : Fractions(units, weight)[q] > 0}
  OBVIOUS
<1>5. PICK k \in Nat : k = Leftover(units, weight) /\ k <= Cardinality(lost)
  BY <1>1, <1>4, LeftoverBounds
<1>6. k <= Cardinality(D)
  <2>1. Cardinality(lost) <= Cardinality(D) /\ IsFiniteSet(lost)
    BY <1>1, <1>4, FS_Subset
  <2>2. Cardinality(lost) \in Nat /\ Cardinality(D) \in Nat
    BY <1>1, <2>1, FS_CardinalityType
  <2> QED
    BY <1>5, <2>1, <2>2
<1>7. PICK lucky : lucky = {p \in D : Cardinality(before[p]) < k}
  OBVIOUS
<1>8. Cardinality(lucky) = k
  <2>1. /\ before \in [D -> SUBSET D]
        /\ \A p \in D : p \notin before[p]
        /\ \A p, q \in D : p \in before[q] => before[p] \subseteq before[q]
        /\ \A p, q \in D : p = q \/ p \in before[q] \/ q \in before[p]
    BY <1>1, <1>3, BeforeOrders
  <2>2. Cardinality({p \in D : Cardinality(before[p]) < k}) = k
    BY <1>1, <1>6, <2>1, RankCount
  <2> QED
    BY <1>7, <2>2
<1>9. PICK extra : extra = [p \in D |-> IF p \in lucky THEN 1 ELSE 0]
  OBVIOUS
<1>10. Sum(extra, D) = k
  <2>1. lucky \in SUBSET D
    BY <1>7
  <2>2. Sum(extra, D) = Cardinality(lucky)
    BY <1>1, <1>9, <2>1, SumCounts
  <2> QED
    BY <1>8, <2>2
<1>11. \A p \in D : floor[p] \in Int /\ extra[p] \in Int /\ part[p] = floor[p] + extra[p]
  <2> SUFFICES ASSUME NEW p \in D
               PROVE  floor[p] \in Int /\ extra[p] \in Int /\ part[p] = floor[p] + extra[p]
    OBVIOUS
  <2>1. floor[p] \in Nat
    BY <1>1, <1>2, Rest
  <2>2. part[p] = floor[p] + (IF Cardinality(before[p]) < k THEN 1 ELSE 0)
    BY <1>1, <1>2, <1>3, <1>5, FairPartIs
  <2> QED
    BY <1>7, <1>9, <2>1, <2>2
<1>12. Sum(part, D) = Sum(floor, D) + Sum(extra, D)
  BY <1>1, <1>11, SumPlus
<1>13. Sum(floor, D) = Total(floor) /\ Sum(floor, D) \in Int
  <2>1. DOMAIN floor = D
    BY <1>1, <1>2 DEF Floors
  <2> QED
    BY <1>1, <1>11, <2>1, TotalIs, SumInt
<1>14. k = units - Sum(floor, D)
  BY <1>2, <1>5, <1>13 DEF Leftover
<1> QED
  BY <1>1, <1>10, <1>12, <1>13, <1>14

---------------------------------------------------------------------------------
(* Amounts split by weight.                                                *)

Shareable(weight) ==
  /\ IsFiniteSet(DOMAIN weight) /\ DOMAIN weight \subseteq Nat /\ DOMAIN weight # {}
  /\ \A p \in DOMAIN weight : weight[p] \in Nat

\* The weights that count are the given ones, or one for each.
LEMMA PositiveIs ==
  ASSUME NEW weight, Shareable(weight)
  PROVE  /\ Weighted(Positive(weight))
         /\ DOMAIN Positive(weight) = DOMAIN weight
         /\ Total(weight) > 0 =>
              /\ Total(Positive(weight)) = Total(weight)
              /\ \A p \in DOMAIN weight : Positive(weight)[p] = weight[p]
<1>1. PICK D : D = DOMAIN weight /\ IsFiniteSet(D) /\ D \subseteq Nat /\ D # {}
  BY DEF Shareable
<1>2. \A p \in D : weight[p] \in Nat
  BY <1>1 DEF Shareable
<1>3. PICK kept : kept = [p \in D |-> IF weight[p] > 0 THEN weight[p] ELSE 0]
  OBVIOUS
<1>4. DOMAIN kept = D /\ \A p \in D : kept[p] = weight[p]
  BY <1>2, <1>3
<1>5. Total(kept) = Total(weight) /\ Total(kept) = Sum(kept, D)
  BY <1>1, <1>4, TotalIs, SumSame
<1>6. Sum(kept, D) \in Nat
  BY <1>1, <1>2, <1>4, SumNat
<1>7. PICK ones : ones = [p \in D |-> 1]
  OBVIOUS
<1>8. Positive(weight) = IF Total(kept) = 0 THEN ones ELSE kept
  BY <1>1, <1>3, <1>7 DEF Positive
<1>9. Total(ones) > 0
  <2>1. DOMAIN ones = D
    BY <1>7
  <2>2. Total(ones) = Sum(ones, D)
    BY <2>1, TotalIs
  <2>3. Sum(ones, D) = 1 * Cardinality(D)
    BY <1>1, <1>7, SumConstant
  <2>4. Cardinality(D) \in Nat /\ Cardinality(D) # 0
    BY <1>1, FS_CardinalityType, FS_EmptySet
  <2> QED
    BY <2>2, <2>3, <2>4
<1>10. CASE Total(kept) = 0
  <2>1. Positive(weight) = ones
    BY <1>8, <1>10
  <2>2. Weighted(ones) /\ DOMAIN ones = D
    BY <1>1, <1>7, <1>9 DEF Weighted
  <2> QED
    BY <1>1, <1>5, <1>10, <2>1, <2>2
<1>11. CASE Total(kept) # 0
  <2>1. Positive(weight) = kept
    BY <1>8, <1>11
  <2>2. Total(kept) > 0
    BY <1>5, <1>6, <1>11
  <2>3. Weighted(kept)
    BY <1>1, <1>2, <1>4, <2>2 DEF Weighted
  <2> QED
    BY <1>1, <1>4, <1>5, <2>1, <2>3
<1> QED
  BY <1>10, <1>11

\* A split is a fair sharing of the units of the rounded amount.
LEMMA ProportionalIs ==
  ASSUME NEW total \in Int, NEW weight, Shareable(weight), NEW unit \in Nat \ {0}
  PROVE  /\ DOMAIN SplitProportional(total, weight, unit) = DOMAIN weight
         /\ \E n \in Nat :
              \/ /\ Round(total, unit) >= 0
                 /\ Round(total, unit) = unit * n
                 /\ \A p \in DOMAIN weight :
                      SplitProportional(total, weight, unit)[p]
                        = unit * FairPart(n, Positive(weight), p)
              \/ /\ Round(total, unit) < 0
                 /\ Round(total, unit) = -(unit * n)
                 /\ \A p \in DOMAIN weight :
                      SplitProportional(total, weight, unit)[p]
                        = -(unit * FairPart(n, Positive(weight), p))
<1>1. PICK r \in Int : r = Round(total, unit)
  BY RoundType
<1>2. PICK n \in Nat : Abs(r) = unit * n
  <2>1. PICK m \in Nat : r = unit * m \/ r = -(unit * m)
    <3>1. PICK m \in Nat : /\ total >= 0 => Round(total, unit) = unit * m
                           /\ total < 0 => Round(total, unit) = -(unit * m)
      BY RoundUnits
    <3>2. r = unit * m \/ r = -(unit * m)
      BY <1>1, <3>1
    <3> QED
      BY <3>2
  <2>2. unit * m \in Nat
    BY ProductType
  <2> QED
    BY <2>1, <2>2 DEF Abs
<1>3. Abs(r) \div unit = n
  BY <1>2, QuotientIs
<1>4. SplitProportional(total, weight, unit)
        = [p \in DOMAIN weight |->
             IF r < 0 THEN -(unit * FairPart(n, Positive(weight), p))
                      ELSE unit * FairPart(n, Positive(weight), p)]
  BY <1>1, <1>3 DEF SplitProportional
<1>5. unit * n \in Nat
  BY ProductType
<1>6. CASE r < 0
  <2>1. r = -(unit * n)
    BY <1>2, <1>5, <1>6 DEF Abs
  <2> QED
    BY <1>1, <1>4, <1>6, <2>1
<1>7. CASE r >= 0
  <2>1. r = unit * n /\ ~(r < 0)
    BY <1>2, <1>5, <1>7 DEF Abs
  <2> QED
    BY <1>1, <1>4, <1>7, <2>1
<1> QED
  BY <1>6, <1>7

\* It gives out the rounded amount, in units.
LEMMA ProportionalTotal ==
  ASSUME NEW total \in Int, NEW weight, Shareable(weight), NEW unit \in Nat \ {0},
         NEW s, s = SplitProportional(total, weight, unit)
  PROVE  /\ Sum(s, DOMAIN weight) = Round(total, unit)
         /\ total >= 0 => \A p \in DOMAIN weight : InUnits(s[p], unit)
<1>1. PICK D : D = DOMAIN weight /\ IsFiniteSet(D)
  BY DEF Shareable
<1>2. PICK W : W = Positive(weight) /\ Weighted(W) /\ DOMAIN W = D
  BY <1>1, PositiveIs
<1>3. PICK n \in Nat :
        \/ /\ Round(total, unit) >= 0
           /\ Round(total, unit) = unit * n
           /\ \A p \in D : s[p] = unit * FairPart(n, W, p)
        \/ /\ Round(total, unit) < 0
           /\ Round(total, unit) = -(unit * n)
           /\ \A p \in D : s[p] = -(unit * FairPart(n, W, p))
  BY <1>1, <1>2, ProportionalIs
<1>4. PICK part : part = [p \in D |-> FairPart(n, W, p)]
  OBVIOUS
<1>5. \A p \in D : part[p] \in Nat
  BY <1>2, <1>4, FairPartClose
<1>6. Sum(part, D) = n
  BY <1>2, <1>4, FairPartTotal
<1>7. total >= 0 => Round(total, unit) >= 0
  BY RoundType
<1>8. CASE Round(total, unit) >= 0
  <2>1. Round(total, unit) = unit * n /\ \A p \in D : s[p] = unit * part[p]
    BY <1>3, <1>4, <1>8
  <2>2. Sum(s, D) = unit * Sum(part, D)
    BY <1>1, <1>5, <2>1, SumScale
  <2>3. \A p \in D : InUnits(s[p], unit)
    BY <1>5, <2>1 DEF InUnits
  <2>4. Sum(s, D) = Round(total, unit)
    BY <1>6, <2>1, <2>2
  <2> QED
    BY <1>1, <2>3, <2>4
<1>9. CASE Round(total, unit) < 0
  <2>1. Round(total, unit) = -(unit * n) /\ \A p \in D : s[p] = -(unit * part[p])
    BY <1>3, <1>4, <1>9, RoundType
  <2>2. -unit \in Int
    OBVIOUS
  <2>3. \A p \in D : part[p] \in Int /\ s[p] = (-unit) * part[p]
    BY <1>5, <2>1
  <2>4. Sum(s, D) = (-unit) * Sum(part, D)
    BY <1>1, <2>2, <2>3, SumScale
  <2>5. (-unit) * n = -(unit * n)
    OBVIOUS
  <2> QED
    BY <1>1, <1>6, <1>7, <1>9, <2>1, <2>4, <2>5
<1>10. Round(total, unit) \in Int
  BY RoundType
<1> QED
  BY <1>8, <1>9, <1>10

\* It is in proportion.
LEMMA ProportionalClose ==
  ASSUME NEW total \in Nat, NEW weight, Shareable(weight), Total(weight) > 0,
         NEW unit \in Nat \ {0}, NEW s, s = SplitProportional(total, weight, unit),
         NEW p \in DOMAIN weight, NEW q \in DOMAIN weight
  PROVE  /\ weight[p] = 0 => s[p] = 0
         /\ weight[p] > weight[q] => s[p] >= s[q]
         /\ Abs(s[p] * Total(weight) - Round(total, unit) * weight[p]) < unit * Total(weight)
<1>1. PICK D : D = DOMAIN weight /\ \A x \in D : weight[x] \in Nat
  BY DEF Shareable
<1>2. PICK W : /\ W = Positive(weight) /\ Weighted(W) /\ DOMAIN W = D
               /\ Total(W) = Total(weight) /\ \A x \in D : W[x] = weight[x]
  BY <1>1, PositiveIs
<1>3. PICK all \in Nat \ {0} : all = Total(weight) /\ all = Total(W)
  BY <1>2, TotalType
<1>4. Round(total, unit) \in Nat
  BY RoundType
<1>5. PICK n \in Nat : /\ Round(total, unit) = unit * n
                       /\ \A x \in D : s[x] = unit * FairPart(n, W, x)
  <2>1. PICK n \in Nat :
          \/ /\ Round(total, unit) >= 0
             /\ Round(total, unit) = unit * n
             /\ \A x \in D : s[x] = unit * FairPart(n, W, x)
          \/ /\ Round(total, unit) < 0
             /\ Round(total, unit) = -(unit * n)
             /\ \A x \in D : s[x] = -(unit * FairPart(n, W, x))
    BY <1>1, <1>2, ProportionalIs
  <2> QED
    BY <1>4, <2>1
<1>6. PICK fp \in Nat : fp = FairPart(n, W, p)
  BY <1>1, <1>2, FairPartClose
<1>7. PICK fq \in Nat : fq = FairPart(n, W, q)
  BY <1>1, <1>2, FairPartClose
<1>8. PICK w \in Nat : w = weight[p] /\ w = W[p]
  BY <1>1, <1>2
<1>9. s[p] = unit * fp /\ s[q] = unit * fq
  BY <1>1, <1>5, <1>6, <1>7
<1>10. weight[p] = 0 => s[p] = 0
  <2>1. weight[p] = 0 => fp = 0
    BY <1>1, <1>2, <1>6, FairPartClose
  <2> QED
    BY <1>9, <2>1
<1>11. weight[p] > weight[q] => s[p] >= s[q]
  <2> SUFFICES ASSUME weight[p] > weight[q] PROVE s[p] >= s[q]
    OBVIOUS
  <2>1. W[p] > W[q]
    BY <1>1, <1>2
  <2>2. fq <= fp
    BY <1>1, <1>2, <1>6, <1>7, <2>1, FairPartMonotone
  <2> QED
    BY <1>9, <2>2, ProductMonotone
<1>12. Abs(fp * all - n * w) < all
  BY <1>1, <1>2, <1>3, <1>6, <1>8, FairPartClose
<1>13. Abs(unit * (fp * all - n * w)) < unit * all
  <2>1. fp * all \in Nat /\ n * w \in Nat
    BY ProductType
  <2>2. fp * all - n * w \in Int
    BY <2>1
  <2> QED
    BY <1>12, <2>2, ProductAbs
<1>14. unit * (fp * all - n * w) = (unit * fp) * all - (unit * n) * w
  OBVIOUS
<1>15. s[p] * Total(weight) - Round(total, unit) * weight[p] = (unit * fp) * all - (unit * n) * w
  BY <1>3, <1>5, <1>8, <1>9
<1> QED
  BY <1>3, <1>10, <1>11, <1>13, <1>14, <1>15

---------------------------------------------------------------------------------
(* Bills split by item.                                                    *)

\* A sum of units is in units.
LEMMA SumOfUnits ==
  ASSUME NEW S, IsFiniteSet(S), NEW unit \in Nat \ {0},
         NEW f, \A x \in S : InUnits(f[x], unit)
  PROVE  InUnits(Sum(f, S), unit)
<1>1. PICK h : h = [x \in S |-> CHOOSE k \in Nat : f[x] = unit * k]
  OBVIOUS
<1>2. \A x \in S : h[x] \in Nat /\ f[x] = unit * h[x]
  BY <1>1 DEF InUnits
<1>3. Sum(f, S) = unit * Sum(h, S)
  BY <1>2, SumScale
<1>4. Sum(h, S) \in Nat
  BY <1>2, SumNat
<1> QED
  BY <1>3, <1>4 DEF InUnits

\* The lines of a bill, each with somebody on it.
Diners(items) ==
  /\ IsFiniteSet(DOMAIN items) /\ DOMAIN items # {}
  /\ \A i \in DOMAIN items : /\ items[i].amount \in Nat
                             /\ items[i].who \subseteq People /\ items[i].who # {}

\* What each had is a number of units.
LEMMA SubtotalUnits ==
  ASSUME NEW items, Diners(items), NEW unit \in Nat \ {0},
         NEW had, had = Subtotals(items, unit)
  PROVE  /\ DOMAIN had \subseteq People /\ DOMAIN had # {}
         /\ \A p \in DOMAIN had : InUnits(had[p], unit)
<1>1. PICK I : I = DOMAIN items
  OBVIOUS
<1>2. /\ IsFiniteSet(I) /\ I # {}
      /\ \A i \in I : /\ items[i].amount \in Nat
                      /\ items[i].who \subseteq People /\ items[i].who # {}
  BY <1>1 DEF Diners
<1>3. PICK D : D = UNION {items[i].who : i \in I}
  OBVIOUS
<1>6. D \subseteq People /\ D # {}
  <2>1. PICK i \in I : TRUE
    BY <1>2
  <2>2. PICK p \in items[i].who : TRUE
    BY <1>2
  <2>3. p \in D
    BY <1>3, <2>1, <2>2
  <2> QED
    BY <1>2, <1>3, <2>3
<1>4. DOMAIN had = D
  BY <1>1, <1>3 DEF Subtotals
<1>5. ASSUME NEW p \in D
      PROVE  InUnits(had[p], unit)
  <2>1. PICK f : f = [i \in I |-> IF p \in items[i].who
                                    THEN SplitEqual(items[i].amount, items[i].who, unit)[p] ELSE 0]
    OBVIOUS
  <2>2. had[p] = Total(f)
    BY <1>1, <1>3, <2>1 DEF Subtotals
  <2>3. had[p] = Sum(f, I)
    <3>1. DOMAIN f = I
      BY <2>1
    <3> QED
      BY <2>2, <3>1, TotalIs
  <2>4. ASSUME NEW i \in I
        PROVE  InUnits(f[i], unit)
    <3>1. CASE p \in items[i].who
      <4>1. PICK who : who = items[i].who /\ who \subseteq People /\ who # {}
        BY <1>2
      <4>2. PICK ones : ones = [x \in who |-> 1]
        OBVIOUS
      <4>3. Shareable(ones) /\ DOMAIN ones = who
        <5>1. IsFiniteSet(who)
          BY <4>1, MoneyAssumption, FS_Subset
        <5> QED
          BY <4>1, <4>2, <5>1, MoneyAssumption DEF Shareable
      <4>4. PICK a \in Nat : a = items[i].amount
        BY <1>2
      <4>5. f[i] = SplitProportional(a, ones, unit)[p]
        BY <2>1, <3>1, <4>1, <4>2, <4>4 DEF SplitEqual
      <4>6. a \in Int /\ a >= 0 /\ p \in DOMAIN ones
        BY <3>1, <4>1, <4>3
      <4>7. PICK s : s = SplitProportional(a, ones, unit)
        OBVIOUS
      <4>8. \A x \in DOMAIN ones : InUnits(s[x], unit)
        <5>1. a \in Int /\ a >= 0 /\ Shareable(ones)
          BY <4>3, <4>6
        <5> QED
          BY <4>7, <5>1, ProportionalTotal
      <4> QED
        BY <4>5, <4>6, <4>7, <4>8
    <3>2. CASE p \notin items[i].who
      <4>1. f[i] = unit * 0
        BY <2>1, <3>2
      <4> QED
        BY <4>1 DEF InUnits
    <3> QED
      BY <3>1, <3>2
  <2>5. InUnits(Sum(f, I), unit)
    BY <1>2, <2>4, SumOfUnits
  <2> QED
    BY <2>3, <2>5
<1> QED
  BY <1>6, <1>4, <1>5

\* An itemised bill that fits gives out its amount, and a discount makes nobody's part
\* negative.
LEMMA ItemParts ==
  ASSUME NEW items, Diners(items), NEW extras \in Int, NEW unit \in Nat \ {0},
         NEW amount \in Nat, NEW s, s = SplitByItem(items, extras, unit),
         Round(Total(s), unit) = Round(amount, unit)
  PROVE  /\ DOMAIN s \subseteq People
         /\ \A p \in DOMAIN s : s[p] \in Nat
         /\ Total(s) = Round(amount, unit)
<1>1. PICK had : had = Subtotals(items, unit)
  OBVIOUS
<1>2. PICK D : D = DOMAIN had
  OBVIOUS
<1>3. D \subseteq People /\ D # {} /\ \A p \in D : InUnits(had[p], unit)
  BY <1>1, <1>2, SubtotalUnits
<1>4. IsFiniteSet(D) /\ D \subseteq Nat
  BY <1>3, MoneyAssumption, FS_Subset
<1>5. PICK h : h = [p \in D |-> CHOOSE k \in Nat : had[p] = unit * k]
  OBVIOUS
<1>6. \A p \in D : h[p] \in Nat /\ had[p] = unit * h[p] /\ had[p] \in Nat
  <2> SUFFICES ASSUME NEW p \in D
               PROVE  h[p] \in Nat /\ had[p] = unit * h[p] /\ had[p] \in Nat
    OBVIOUS
  <2>1. h[p] \in Nat /\ had[p] = unit * h[p]
    BY <1>3, <1>5 DEF InUnits
  <2>2. unit * h[p] \in Nat
    BY <2>1, ProductType
  <2> QED
    BY <2>1, <2>2
<1>7. PICK H \in Nat : H = Sum(h, D)
  BY <1>4, <1>6, SumNat
<1>8. Sum(had, D) = unit * H /\ Total(had) = unit * H
  BY <1>2, <1>4, <1>6, <1>7, SumScale, TotalIs
<1>9. Shareable(had)
  BY <1>2, <1>3, <1>4, <1>6 DEF Shareable
<1>10. PICK spread : spread = SplitProportional(extras, had, unit)
  OBVIOUS
<1>11. DOMAIN s = D /\ \A p \in D : s[p] = had[p] + spread[p]
  BY <1>1, <1>2, <1>10 DEF SplitByItem
<1>12. PICK W : /\ W = Positive(had) /\ Weighted(W) /\ DOMAIN W = D
                /\ Total(had) > 0 =>
                     Total(W) = Total(had) /\ \A p \in D : W[p] = had[p]
  BY <1>2, <1>9, PositiveIs
<1>13. PICK n \in Nat :
        \/ /\ Round(extras, unit) >= 0
           /\ Round(extras, unit) = unit * n
           /\ \A p \in D : spread[p] = unit * FairPart(n, W, p)
        \/ /\ Round(extras, unit) < 0
           /\ Round(extras, unit) = -(unit * n)
           /\ \A p \in D : spread[p] = -(unit * FairPart(n, W, p))
  BY <1>2, <1>9, <1>10, <1>12, ProportionalIs
<1>14. PICK part : part = [p \in D |-> FairPart(n, W, p)]
  OBVIOUS
<1>15. \A p \in D : part[p] \in Nat /\ unit * part[p] \in Nat
  <2> SUFFICES ASSUME NEW p \in D PROVE part[p] \in Nat /\ unit * part[p] \in Nat
    OBVIOUS
  <2>1. part[p] \in Nat
    BY <1>12, <1>14, FairPartClose
  <2> QED
    BY <2>1, ProductType
<1>16. Sum(spread, D) = Round(extras, unit)
  BY <1>2, <1>9, <1>10, ProportionalTotal
<1>17. \A p \in D : spread[p] \in Int
  BY <1>13, <1>14, <1>15
<1>18. Sum(s, D) = unit * H + Round(extras, unit)
  <2>1. \A p \in D : had[p] \in Int /\ spread[p] \in Int /\ s[p] = had[p] + spread[p]
    BY <1>6, <1>11, <1>17
  <2>2. IsFiniteSet(D)
    BY <1>4
  <2>3. Sum(s, D) = Sum(had, D) + Sum(spread, D)
    BY <2>1, <2>2, SumPlus
  <2> QED
    BY <1>8, <1>16, <2>3
<1>19. Total(s) = Sum(s, D)
  BY <1>11, TotalIs
<1>20. unit * H \in Nat /\ unit * n \in Nat
  BY ProductType
<1>21. Round(amount, unit) \in Nat
  BY RoundType
<1>22. CASE Round(extras, unit) >= 0
  <2>1. Round(extras, unit) = unit * n /\ \A p \in D : spread[p] = unit * part[p]
    BY <1>13, <1>14, <1>22
  <2>2. H + n \in Int /\ unit * (H + n) = unit * H + unit * n
    BY Distributes
  <2>3. Total(s) = unit * (H + n)
    BY <1>18, <1>19, <2>1, <2>2
  <2>4. Round(Total(s), unit) = Total(s)
    BY <2>2, <2>3, RoundFixes
  <2>5. \A p \in D : s[p] \in Nat
    BY <1>6, <1>11, <1>15, <2>1
  <2> QED
    BY <1>3, <1>11, <2>4, <2>5
<1>23. CASE Round(extras, unit) < 0
  <2>1. Round(extras, unit) = -(unit * n) /\ \A p \in D : spread[p] = -(unit * part[p])
    BY <1>13, <1>14, <1>23, RoundType
  <2>2. H - n \in Int /\ unit * (H - n) = unit * H - unit * n
    OBVIOUS
  <2>3. Total(s) = unit * (H - n)
    BY <1>18, <1>19, <1>20, <2>1, <2>2
  <2>4. Round(Total(s), unit) = Total(s)
    BY <2>2, <2>3, RoundFixes
  <2>5. n <= H
    <3> SUFFICES ASSUME H + 1 <= n PROVE FALSE
      OBVIOUS
    <3>1. unit * (H + 1) <= unit * n
      BY ProductMonotone
    <3>2. unit * (H + 1) = unit * H + unit
      BY Distributes
    <3>3. unit * H - unit * n >= 0
      BY <1>21, <2>2, <2>3, <2>4
    <3> QED
      BY <1>20, <3>1, <3>2, <3>3
  <2>6. n > 0
    <3>1. n = 0 => unit * n = 0
      OBVIOUS
    <3> QED
      BY <1>23, <2>1, <3>1
  <2>7. Total(had) > 0
    BY <1>8, <2>5, <2>6, ProductType
  <2>8. Total(W) = unit * H /\ \A p \in D : W[p] = unit * h[p]
    BY <1>6, <1>8, <1>12, <2>7
  <2>9. ASSUME NEW p \in D
        PROVE  s[p] \in Nat
    <3>1. PICK f \in Nat : f = part[p]
      BY <1>15
    <3>2. PICK g \in Nat : g = h[p]
      BY <1>6
    <3>3. Abs(f * (unit * H) - n * (unit * g)) < unit * H
      BY <1>12, <1>14, <2>8, <3>1, <3>2, FairPartClose
    <3>4. f * (unit * H) = unit * (H * f) /\ n * (unit * g) = unit * (n * g)
      OBVIOUS
    <3>5. H * f \in Nat /\ n * g \in Nat /\ H * g \in Nat /\ unit * (H * f) \in Nat /\ unit * (n * g) \in Nat
      BY ProductType
    <3>6. unit * (H * f) - unit * (n * g) < unit * H
      BY <1>20, <3>3, <3>4, <3>5 DEF Abs
    <3>7. unit * (H * f) < unit * (H + n * g)
      <4>1. unit * (H + n * g) = unit * H + unit * (n * g)
        BY <3>5, Distributes
      <4> QED
        BY <1>20, <3>5, <3>6, <4>1
    <3>8. H * f < H + n * g
      <4>1. H + n * g \in Int
        BY <3>5
      <4> QED
        BY <3>5, <3>7, <4>1, ProductStrict
    <3>9. n * g <= H * g
      BY <2>5, ProductMonotone
    <3>10. H * (g + 1) = H * g + H
      BY Distributes
    <3>11. H * f < H * (g + 1)
      BY <3>5, <3>8, <3>9, <3>10
    <3>12. f < g + 1
      <4>1. H \in Nat \ {0}
        BY <2>5, <2>6
      <4> QED
        BY <3>11, <4>1, ProductStrict
    <3>13. unit * f <= unit * g
      BY <3>12, ProductMonotone
    <3>14. s[p] = unit * g - unit * f
      BY <1>6, <1>11, <2>1, <3>1, <3>2
    <3>15. unit * f \in Nat /\ unit * g \in Nat
      BY ProductType
    <3> QED
      BY <3>13, <3>14, <3>15
  <2> QED
    BY <1>3, <1>11, <2>4, <2>9
<1>24. Round(extras, unit) \in Int
  BY RoundType
<1> QED
  BY <1>22, <1>23, <1>24

---------------------------------------------------------------------------------
(* The splits of a bill.                                                   *)

LEMMA SharesAre ==
  ASSUME NEW f, IsShares(f)
  PROVE  /\ IsFiniteSet(DOMAIN f) /\ DOMAIN f \subseteq Nat
         /\ \A p \in DOMAIN f : f[p] \in Nat
         /\ f # <<>> => Shareable(f)
<1>1. IsFiniteSet(DOMAIN f) /\ DOMAIN f \subseteq Nat
  BY MoneyAssumption, FS_Subset DEF IsShares
<1>2. \A p \in DOMAIN f : f[p] \in Nat
  BY DEF IsShares
<1>3. ASSUME DOMAIN f = {}
      PROVE  f = <<>>
  <2>1. f = [x \in {} |-> 0]
    BY <1>3 DEF IsShares
  <2>2. <<>> = [x \in {} |-> 0]
    OBVIOUS
  <2> QED
    BY <2>1, <2>2
<1> QED
  BY <1>1, <1>2, <1>3 DEF Shareable

LEMMA LinesAre ==
  ASSUME NEW items \in Seq([amount : Nat, who : SUBSET People]), items # <<>>,
         \A i \in DOMAIN items : items[i].who # {}
  PROVE  Diners(items)
<1>1. PICK n \in Nat : n = Len(items) /\ DOMAIN items = 1 .. n
  OBVIOUS
<1>2. n # 0
  BY <1>1
<1>3. IsFiniteSet(1 .. n) /\ 1 \in 1 .. n
  BY <1>2, FS_Interval
<1>4. \A i \in DOMAIN items : items[i] \in [amount : Nat, who : SUBSET People]
  <2>1. PICK R : R = [amount : Nat, who : SUBSET People]
    OBVIOUS
  <2>2. items \in Seq(R)
    BY <2>1
  <2>3. \A i \in DOMAIN items : items[i] \in R
    BY <2>2
  <2> QED
    BY <2>1, <2>3
<1>5. \A i \in DOMAIN items : items[i].amount \in Nat /\ items[i].who \subseteq People
  BY <1>4
<1> QED
  BY <1>1, <1>3, <1>5 DEF Diners

LEMMA ProportionalShares ==
  ASSUME NEW total \in Nat, NEW weight, Shareable(weight), DOMAIN weight \subseteq People,
         NEW unit \in Nat \ {0}, NEW s, s = SplitProportional(total, weight, unit)
  PROVE  IsShares(s) /\ DOMAIN s = DOMAIN weight /\ Total(s) = Round(total, unit)
<1>1. DOMAIN s = DOMAIN weight
  BY ProportionalIs
<1>2. ASSUME NEW p \in DOMAIN weight
      PROVE  s[p] \in Nat
  <2>1. total \in Int /\ total >= 0
    OBVIOUS
  <2>2. InUnits(s[p], unit)
    BY <2>1, ProportionalTotal
  <2>3. PICK k \in Nat : s[p] = unit * k
    BY <2>2 DEF InUnits
  <2> QED
    BY <2>3, ProductType
<1>3. s = [p \in DOMAIN weight |-> s[p]]
  BY DEF SplitProportional
<1>4. s \in [DOMAIN s -> Nat]
  BY <1>1, <1>2, <1>3
<1>5. Sum(s, DOMAIN weight) = Round(total, unit)
  BY ProportionalTotal
<1> QED
  BY <1>1, <1>4, <1>5, TotalIs DEF IsShares

\* What SplitsAreExact says, of a bill that passes validation.
Fair(bill, unit, s) ==
  /\ IsShares(s)
  /\ Round(Total(s), unit) = Round(bill.amount, unit)
  /\ bill.kind # "manual" => Total(s) = Round(bill.amount, unit)
  /\ bill.kind \in {"percent", "shares"} =>
       \A p, q \in DOMAIN bill.parts :
         /\ bill.parts[p] = 0 => s[p] = 0
         /\ bill.parts[p] > bill.parts[q] => s[p] >= s[q]
         /\ Abs(s[p] * Total(bill.parts) - Round(bill.amount, unit) * bill.parts[p])
              < unit * Total(bill.parts)

LEMMA RoundTwice ==
  ASSUME NEW v \in Int, NEW unit \in Nat \ {0}
  PROVE  Round(Round(v, unit), unit) = Round(v, unit)
<1>1. PICK n \in Nat : /\ v >= 0 => Round(v, unit) = unit * n
                       /\ v < 0 => Round(v, unit) = -(unit * n)
  BY RoundUnits
<1>2. PICK k \in Int : k = IF v >= 0 THEN n ELSE -n
  OBVIOUS
<1>3. Round(v, unit) = unit * k
  BY <1>1, <1>2
<1> QED
  BY <1>3, RoundFixes

LEMMA SplitsAre ==
  ASSUME NEW bill, IsBill(bill), bill.kind \in Kinds, bill.amount > 0,
         NEW unit \in Nat \ {0}, SplitsFit(bill, unit)
  PROVE  Fair(bill, unit, Splits(bill, unit))
<1>1. bill.amount \in Nat /\ IsShares(bill.parts)
  BY DEF IsBill
<1>2. PICK s : s = Splits(bill, unit)
  OBVIOUS
<1>3. PICK amount \in Nat : amount = bill.amount
  BY <1>1
<1>4. Round(Round(amount, unit), unit) = Round(amount, unit)
  BY RoundTwice
<1>5. CASE bill.kind = "equal"
  <2>1. bill.parts # <<>>
    BY <1>5 DEF SplitsFit
  <2>2. PICK ones : ones = [p \in DOMAIN bill.parts |-> 1]
    OBVIOUS
  <2>3. Shareable(ones) /\ DOMAIN ones \subseteq People
    <3>1. Shareable(bill.parts) /\ DOMAIN bill.parts \subseteq People
      BY <1>1, <2>1, SharesAre DEF IsShares
    <3> QED
      BY <2>2, <3>1 DEF Shareable
  <2>4. s = SplitProportional(amount, ones, unit)
    BY <1>2, <1>3, <1>5, <2>2 DEF Splits, SplitEqual
  <2>5. IsShares(s) /\ Total(s) = Round(amount, unit)
    BY <2>3, <2>4, ProportionalShares
  <2> QED
    BY <1>2, <1>3, <1>4, <1>5, <2>5 DEF Fair
<1>6. CASE bill.kind = "manual"
  <2>1. s = bill.parts
    BY <1>2, <1>6 DEF Splits
  <2>2. Round(Total(bill.parts), unit) = Round(bill.amount, unit)
    BY <1>6 DEF SplitsFit
  <2> QED
    BY <1>1, <1>2, <1>6, <2>1, <2>2 DEF Fair
<1>7. CASE bill.kind \in {"percent", "shares"}
  <2>1. PICK parts : parts = bill.parts
    OBVIOUS
  <2>2. parts # <<>> /\ Total(parts) > 0
    BY <1>7, <2>1 DEF SplitsFit, WeightsFit
  <2>3. Shareable(parts) /\ DOMAIN parts \subseteq People
    BY <1>1, <2>1, <2>2, SharesAre DEF IsShares
  <2>4. s = SplitProportional(amount, parts, unit)
    BY <1>2, <1>3, <1>7, <2>1 DEF Splits
  <2>5. IsShares(s) /\ Total(s) = Round(amount, unit)
    BY <2>3, <2>4, ProportionalShares
  <2>6. ASSUME NEW p \in DOMAIN parts, NEW q \in DOMAIN parts
        PROVE  /\ parts[p] = 0 => s[p] = 0
               /\ parts[p] > parts[q] => s[p] >= s[q]
               /\ Abs(s[p] * Total(parts) - Round(amount, unit) * parts[p]) < unit * Total(parts)
    BY <2>2, <2>3, <2>4, ProportionalClose
  <2> QED
    BY <1>2, <1>3, <1>4, <2>1, <2>5, <2>6 DEF Fair
<1>8. CASE bill.kind = "item"
  <2>1. PICK items : items = bill.items
    OBVIOUS
  <2>2. PICK extras \in Int : extras = bill.extras
    BY DEF IsBill
  <2>3. ItemsFit(bill, unit)
    BY <1>8 DEF SplitsFit
  <2>4. Diners(items)
    <3>1. items \in Seq([amount : Nat, who : SUBSET People])
      BY <2>1 DEF IsBill
    <3>2. items # <<>> /\ \A i \in DOMAIN items : items[i].who # {}
      BY <2>1, <2>3 DEF ItemsFit
    <3> QED
      BY <3>1, <3>2, LinesAre
  <2>5. s = SplitByItem(items, extras, unit)
    BY <1>2, <1>8, <2>1, <2>2 DEF Splits
  <2>6. Round(Total(s), unit) = Round(amount, unit)
    BY <1>3, <2>1, <2>2, <2>3, <2>5 DEF ItemsFit
  <2>7. DOMAIN s \subseteq People /\ (\A p \in DOMAIN s : s[p] \in Nat) /\ Total(s) = Round(amount, unit)
    BY <2>4, <2>5, <2>6, ItemParts
  <2>8. s = [p \in DOMAIN s |-> s[p]]
    BY <2>5 DEF SplitByItem
  <2>9. IsShares(s)
    BY <2>7, <2>8 DEF IsShares
  <2> QED
    BY <1>2, <1>3, <1>8, <2>6, <2>7, <2>9 DEF Fair
<1> QED
  BY <1>5, <1>6, <1>7, <1>8 DEF Kinds

---------------------------------------------------------------------------------
(* The inductive invariant.                                                *)

\* A bill that passed validation.
Payable(bill) ==
  /\ bill.kind \in Kinds \cup {"settlement"} /\ bill.currency \in Currencies /\ bill.amount > 0
  /\ bill.kind # "settlement" => SplitsFit(bill, Minor[bill.currency])

\* A row in use is of such a bill.
RowOK(row) ==
  /\ IsDocument(row)
  /\ row.life = "live" =>
       /\ row.currency \in Currencies /\ row.amount > 0
       /\ row.kind # "settlement" => Exact(row, Minor[row.currency])

Paying == {"create", "edit", "currency", "duplicate"}

\* A request carries what its next statement needs.
Carries(q) ==
  /\ q.pc \in Paying => Payable(q.bill) /\ q.base \in Currencies
  /\ q.pc = "edit" =>
       q.doc \in Documents /\ q.version < MaxVersion /\ q.bill.kind # "settlement"
  /\ q.pc \in {"count", "save"} =>
       q.base \in Currencies /\ q.next \in Currencies /\ q.version < MaxVersion
  /\ q.pc \in {"reverse", "upsert"} => q.direction \in Directions /\ q.rate \in Rates
  /\ q.pc = "lock" => q.listed \in [Directions -> Rates \cup {0}]

\* Without a race, what is charged fits the base currency the request saw.
Charged(q) ==
  "documents" \notin raced /\ q.pc \in Paying /\ q.bill.kind # "settlement" =>
    ChargedFits(q.bill, q.base)

\* What a request has read is still so.
StillSo(q) ==
  /\ q.pc \in Paying \cup {"count", "save"} => q.base = trip.base
  /\ q.pc = "save" => LiveExpenses = {} \/ q.next = trip.base
  /\ q.pc = "upsert" => (q.found <=> rate[Opposite(q.direction)] > 0)
  /\ q.pc = "lock" => q.listed = rate

\* A tool about to create an expense has seen none like it.
Compared(q) ==
  q.tool /\ q.pc = "create" /\ q.bill.kind # "settlement" =>
    \A e \in Live \ q.unseen : ~Alike(doc[e], q.bill, q.author)

RequestOK(q) ==
  IsRequest(q) /\ Carries(q) /\ Charged(q) /\ (q.calm => StillSo(q)) /\ Compared(q)

TripOK ==
  /\ trip \in [base : Currencies, version : 1 .. MaxVersion]
  /\ rate \in [Directions -> Rates \cup {0}]
  /\ raced \subseteq {"documents", "rates"}

TripInv ==
  /\ TripOK
  /\ DOMAIN doc = Documents /\ \A d \in Documents : RowOK(doc[d])
  /\ DOMAIN req = Requests /\ \A r \in Requests : RequestOK(req[r])
  /\ OneSlotPerPair /\ OneBaseCurrency

---------------------------------------------------------------------------------
(* Records.                                                                *)

LEMMA NoShares == IsShares(<<>>)
<1>1. <<>> = [x \in {} |-> 0]
  OBVIOUS
<1>2. DOMAIN <<>> = {}
  OBVIOUS
<1> QED
  BY <1>1, <1>2 DEF IsShares

LEMMA NoBillOK == IsBill(NoBill)
<1>1. DOMAIN NoBill = {"kind", "title", "day", "amount", "fine", "currency", "parts", "items",
                       "extras", "payers", "charged", "chargedIn"}
  BY DEF NoBill
<1>2. /\ NoBill.kind = "none" /\ NoBill.title = NoTitle /\ NoBill.amount = 0
      /\ NoBill.currency = NoCurrency /\ NoBill.parts = <<>> /\ NoBill.items = <<>>
      /\ NoBill.extras = 0 /\ NoBill.payers = <<>> /\ NoBill.charged = 0
      /\ NoBill.chargedIn = NoCurrency
  BY DEF NoBill
<1>3. <<>> \in Seq([amount : Nat, who : SUBSET People])
  OBVIOUS
<1>4. NoBill.day = 0 /\ NoBill.fine = FALSE
  BY DEF NoBill
<1>5. NoBill.fine \in BOOLEAN
  BY <1>4, Zenon
<1> QED
  BY <1>1, <1>2, <1>3, <1>4, <1>5, NoShares DEF IsBill, MaybeCurrency

LEMMA IdleIs ==
  /\ DOMAIN Idle = {"pc", "tool", "base", "next", "version", "bill", "author", "doc",
                    "direction", "rate", "listed", "found", "calm", "unseen"}
  /\ Idle.pc = "idle" /\ Idle.tool = FALSE /\ Idle.base = NoCurrency /\ Idle.next = NoCurrency
  /\ Idle.version = 0 /\ Idle.bill = NoBill /\ Idle.author = 0 /\ Idle.doc = NoDoc
  /\ Idle.direction = <<>> /\ Idle.rate = 0 /\ Idle.listed = <<>> /\ Idle.found = FALSE
  /\ Idle.calm = FALSE /\ Idle.unseen = {}
BY DEF Idle

LEMMA VersionType == MaxVersion \in Nat \ {0}
BY TripMoneyAssumption

LEMMA IdleOK == RequestOK(Idle)
<1>1. 0 \in 0 .. MaxVersion
  BY VersionType
<1>2. {FALSE, FALSE, FALSE} \subseteq BOOLEAN
  OBVIOUS
<1>3. {Idle.tool, Idle.found, Idle.calm} \subseteq BOOLEAN
  BY <1>2, IdleIs
<1>4. {Idle.base, Idle.next} \subseteq MaybeCurrency
  BY IdleIs DEF MaybeCurrency
<1>5. IsBill(Idle.bill)
  BY IdleIs, NoBillOK
<1>6. IsRequest(Idle)
  BY <1>1, <1>3, <1>4, <1>5, IdleIs DEF IsRequest
<1> QED
  BY <1>6, IdleIs DEF RequestOK, Carries, Charged, Paying, Compared

LEMMA BillIs ==
  ASSUME NEW bill \in Bills
  PROVE  IsBill(bill) /\ bill.kind \in Kinds \cup {"settlement"} /\ bill.currency \in Currencies
<1>1. IsBill(bill) /\ bill.kind # "none" /\ bill.currency \in Currencies
  BY TripMoneyAssumption
<1> QED
  BY <1>1 DEF IsBill

LEMMA SoundIs ==
  ASSUME NEW bill \in Sound
  PROVE  IsBill(bill) /\ Payable(bill) /\ bill.kind # "settlement"
<1>1. bill \in Bills /\ bill.kind # "settlement" /\ bill.amount > 0
      /\ SplitsFit(bill, Minor[bill.currency])
  BY DEF Sound
<1> QED
  BY <1>1, BillIs DEF Payable

LEMMA NoDocumentIs ==
  /\ DOMAIN NoDocument = {"life", "kind", "title", "day", "amount", "currency", "payers",
                          "splits", "weights", "charged", "chargedIn", "base", "author",
                          "recent", "version"}
  /\ NoDocument.life = "absent" /\ NoDocument.kind = "none" /\ NoDocument.title = NoTitle
  /\ NoDocument.day = 0 /\ NoDocument.amount = 0 /\ NoDocument.currency = NoCurrency /\ NoDocument.payers = <<>>
  /\ NoDocument.splits = <<>> /\ NoDocument.weights = <<>> /\ NoDocument.charged = 0
  /\ NoDocument.chargedIn = NoCurrency /\ NoDocument.base = NoCurrency /\ NoDocument.author = 0
  /\ NoDocument.recent = FALSE /\ NoDocument.version = 0
BY DEF NoDocument

LEMMA EmptyRow ==
  ASSUME NEW row, row = NoDocument \/ row = [NoDocument EXCEPT !.life = "deleted"]
  PROVE  RowOK(row) /\ row.life # "live" /\ row.recent = FALSE
<1>1. /\ DOMAIN row = {"life", "kind", "title", "day", "amount", "currency", "payers", "splits",
                       "weights", "charged", "chargedIn", "base", "author", "recent", "version"}
      /\ row.life \in {"absent", "deleted"} /\ row.kind = "none" /\ row.title = NoTitle
      /\ row.day = 0 /\ row.amount = 0 /\ row.currency = NoCurrency /\ row.payers = <<>>
      /\ row.splits = <<>> /\ row.weights = <<>> /\ row.charged = 0
      /\ row.chargedIn = NoCurrency /\ row.base = NoCurrency /\ row.author = 0
      /\ row.recent = FALSE /\ row.version = 0
  BY NoDocumentIs
<1>2. 0 \in 0 .. MaxVersion
  BY VersionType
<1>3. IsShares(row.payers) /\ IsShares(row.splits) /\ IsShares(row.weights)
  BY <1>1, NoShares
<1>4. {row.currency, row.chargedIn, row.base} \subseteq MaybeCurrency
  BY <1>1 DEF MaybeCurrency
<1>5. row.recent \in BOOLEAN
  <2>1. row.recent = FALSE
    BY <1>1
  <2> QED
    BY <2>1, Zenon
<1>6. row.author \in Authors \cup {0} /\ row.version \in 0 .. MaxVersion
  BY <1>1, <1>2
<1>7. /\ row.life \in {"absent", "live", "deleted"}
      /\ row.kind \in Kinds \cup {"none", "settlement"} /\ row.title \in Titles \cup {NoTitle}
      /\ row.day \in Nat /\ row.amount \in Nat /\ row.charged \in Nat
  BY <1>1
<1>8. IsDocument(row)
  BY <1>1, <1>3, <1>4, <1>5, <1>6, <1>7, Zenon DEF IsDocument
<1> QED
  BY <1>1, <1>8 DEF RowOK

\* What a write leaves in the row.
Row(bill, base, author, recent, version) ==
  [Written(bill, base) EXCEPT !.author = author, !.recent = recent, !.version = version]

LEMMA WrittenIs ==
  ASSUME NEW bill, NEW base, NEW author, NEW recent, NEW version,
         NEW row, row = Row(bill, base, author, recent, version)
  PROVE  /\ DOMAIN row = DOMAIN NoDocument
         /\ row.life = "live" /\ row.kind = bill.kind /\ row.title = bill.title
         /\ row.day = bill.day /\ row.amount = bill.amount /\ row.currency = bill.currency /\ row.payers = bill.payers
         /\ row.splits = (IF bill.kind = "settlement" THEN bill.parts
                                                      ELSE Splits(bill, Minor[bill.currency]))
         /\ row.weights = (IF bill.kind \in {"percent", "shares"} THEN bill.parts ELSE <<>>)
         /\ row.charged = bill.charged /\ row.chargedIn = bill.chargedIn /\ row.base = base
         /\ row.author = author /\ row.recent = recent /\ row.version = version
<1>1. PICK w : w = Written(bill, base)
  OBVIOUS
<1>2. /\ DOMAIN w = DOMAIN NoDocument
      /\ w.life = "live" /\ w.kind = bill.kind /\ w.title = bill.title
      /\ w.day = bill.day /\ w.amount = bill.amount /\ w.currency = bill.currency /\ w.payers = bill.payers
      /\ w.splits = (IF bill.kind = "settlement" THEN bill.parts
                                                 ELSE Splits(bill, Minor[bill.currency]))
      /\ w.weights = (IF bill.kind \in {"percent", "shares"} THEN bill.parts ELSE <<>>)
      /\ w.charged = bill.charged /\ w.chargedIn = bill.chargedIn /\ w.base = base
  BY <1>1, NoDocumentIs DEF Written
<1> QED
  BY <1>1, <1>2, NoDocumentIs DEF Row

LEMMA WrittenOK ==
  ASSUME NEW bill, IsBill(bill), Payable(bill), NEW base \in Currencies,
         NEW author \in Authors \cup {0}, NEW recent \in BOOLEAN, NEW version \in 0 .. MaxVersion,
         NEW row, row = Row(bill, base, author, recent, version)
  PROVE  RowOK(row)
<1>1. /\ DOMAIN row = DOMAIN NoDocument
      /\ row.life = "live" /\ row.kind = bill.kind /\ row.title = bill.title
      /\ row.day = bill.day /\ row.amount = bill.amount /\ row.currency = bill.currency /\ row.payers = bill.payers
      /\ row.splits = (IF bill.kind = "settlement" THEN bill.parts
                                                   ELSE Splits(bill, Minor[bill.currency]))
      /\ row.weights = (IF bill.kind \in {"percent", "shares"} THEN bill.parts ELSE <<>>)
      /\ row.charged = bill.charged /\ row.chargedIn = bill.chargedIn /\ row.base = base
      /\ row.author = author /\ row.recent = recent /\ row.version = version
  BY WrittenIs
<1>2. PICK unit \in Nat \ {0} : unit = Minor[bill.currency]
  BY MoneyAssumption DEF Payable
<1>3. ASSUME bill.kind # "settlement"
      PROVE  Fair(bill, unit, row.splits)
  <2>1. bill.kind \in Kinds /\ bill.amount > 0 /\ SplitsFit(bill, unit)
    BY <1>2, <1>3 DEF Payable
  <2>2. Fair(bill, unit, Splits(bill, unit))
    BY <2>1, SplitsAre
  <2> QED
    BY <1>1, <1>2, <1>3, <2>2
<1>4. IsShares(bill.parts) /\ IsShares(bill.payers)
  BY DEF IsBill
<1>5. IsShares(row.splits)
  <2>1. CASE bill.kind = "settlement"
    BY <1>1, <1>4, <2>1
  <2>2. CASE bill.kind # "settlement"
    BY <1>3, <2>2 DEF Fair
  <2> QED
    BY <2>1, <2>2
<1>6. IsShares(row.weights) /\ IsShares(row.payers)
  BY <1>1, <1>4, NoShares
<1>7. /\ row.kind \in Kinds \cup {"none", "settlement"} /\ row.title \in Titles \cup {NoTitle}
      /\ row.day \in Nat /\ row.amount \in Nat /\ row.charged \in Nat
      /\ row.currency \in MaybeCurrency /\ row.chargedIn \in MaybeCurrency
      /\ row.base \in MaybeCurrency
  BY <1>1 DEF IsBill, MaybeCurrency
<1>8. IsDocument(row)
  BY <1>1, <1>5, <1>6, <1>7, NoDocumentIs DEF IsDocument
<1>9. ASSUME row.kind # "settlement"
      PROVE  Exact(row, unit)
  <2>1. Fair(bill, unit, row.splits)
    BY <1>1, <1>3, <1>9
  <2>2. /\ Round(Total(row.splits), unit) = Round(row.amount, unit)
        /\ row.kind # "manual" => Total(row.splits) = Round(row.amount, unit)
    BY <1>1, <2>1 DEF Fair
  <2>3. CASE row.kind \in {"percent", "shares"}
    <3>1. row.weights = bill.parts
      BY <1>1, <2>3
    <3>2. \A p, q \in DOMAIN row.weights :
            /\ row.weights[p] = 0 => row.splits[p] = 0
            /\ row.weights[p] > row.weights[q] => row.splits[p] >= row.splits[q]
            /\ Abs(row.splits[p] * Total(row.weights) - Round(row.amount, unit) * row.weights[p])
                 < unit * Total(row.weights)
      BY <1>1, <2>1, <2>3, <3>1 DEF Fair
    <3> QED
      BY <2>2, <3>2 DEF Exact
  <2>4. CASE row.kind \notin {"percent", "shares"}
    <3>1. row.weights = <<>>
      BY <1>1, <2>4
    <3>2. DOMAIN <<>> = {}
      OBVIOUS
    <3>3. DOMAIN row.weights = {}
      BY <3>1, <3>2
    <3> QED
      BY <2>2, <3>3 DEF Exact
  <2> QED
    BY <2>3, <2>4
<1> QED
  BY <1>1, <1>2, <1>8, <1>9 DEF RowOK, Payable

---------------------------------------------------------------------------------
(* Steps that write nothing but the request.                               *)

LEMMA SameRequestOK ==
  ASSUME UNCHANGED <<trip, rate, doc, raced>>, NEW w, RequestOK(w)
  PROVE  RequestOK(w)'
<1>1. Carries(w)'
  BY DEF RequestOK, Carries, Payable
<1>2. Charged(w)'
  BY DEF RequestOK, Charged
<1>3. LiveExpenses' = LiveExpenses /\ Live' = Live
  BY DEF LiveExpenses, Live
<1>4. w.calm => StillSo(w)'
  BY <1>3 DEF RequestOK, StillSo
<1>5. Compared(w)'
  BY <1>3 DEF RequestOK, Compared, Alike, SamePurchase
<1> QED
  BY <1>1, <1>2, <1>4, <1>5 DEF RequestOK

LEMMA QuietStep ==
  ASSUME TripInv, NEW r \in Requests, NEW q, RequestOK(q),
         req' = [req EXCEPT ![r] = q], UNCHANGED <<trip, rate, doc, raced>>
  PROVE  TripInv'
<1>1. DOMAIN req' = Requests
  BY DEF TripInv
<1>2. ASSUME NEW s \in Requests
      PROVE  RequestOK(req[s])'
  <2>1. PICK w : w = req'[s]
    OBVIOUS
  <2>2. w = q \/ w = req[s]
    BY <2>1 DEF TripInv
  <2>3. RequestOK(w)
    <3>1. RequestOK(req[s])
      BY DEF TripInv
    <3> QED
      BY <2>2, <3>1
  <2>4. RequestOK(w)'
    BY <2>3, SameRequestOK
  <2> QED
    BY <2>1, <2>4
<1>3. TripOK' /\ DOMAIN doc' = Documents /\ \A d \in Documents : RowOK(doc'[d])
  BY DEF TripInv, TripOK
<1>4. LiveExpenses' = LiveExpenses
  BY DEF LiveExpenses, Live
<1>5. OneSlotPerPair' /\ OneBaseCurrency'
  BY <1>4 DEF TripInv, OneSlotPerPair, OneBaseCurrency
<1> QED
  BY <1>1, <1>2, <1>3, <1>5 DEF TripInv

\* Admission: the request sees the trip as it is.
Admitted(q) == [q EXCEPT !.base = trip.base, !.calm = TRUE]

LEMMA AdmitStep ==
  ASSUME TripInv, NEW r \in Requests, NEW op, NEW q, Admit(op, r, q),
         NEW w, w = Admitted(q), RequestOK(w)
  PROVE  TripInv'
BY QuietStep DEF Admit, Admitted

LEMMA ContinueStep ==
  ASSUME TripInv, NEW r \in Requests, NEW q, Continues(r, q), RequestOK(q)
  PROVE  TripInv'
BY QuietStep DEF Continues

LEMMA TripType ==
  ASSUME TripInv
  PROVE  trip.base \in Currencies /\ trip.version \in 1 .. MaxVersion /\ trip.base \in MaybeCurrency
BY DEF TripInv, TripOK, MaybeCurrency

\* A request admitted with a bill.
Billed(q, pc, tool, author, bill) ==
  /\ DOMAIN q = DOMAIN Idle
  /\ q.pc = pc /\ q.tool = tool /\ q.author = author /\ q.bill = bill
  /\ q.next = NoCurrency /\ q.version = 0 /\ q.doc = NoDoc /\ q.direction = <<>>
  /\ q.rate = 0 /\ q.listed = <<>> /\ q.found = FALSE /\ q.unseen = {}

LEMMA BilledOK ==
  ASSUME TripInv, NEW pc \in {"create", "currency"}, NEW tool \in BOOLEAN,
         NEW author \in Authors, NEW bill, IsBill(bill), Payable(bill),
         bill.kind # "settlement" => ChargedFits(bill, trip.base),
         tool => pc = "currency" \/ bill.kind = "settlement",
         NEW q, Billed(q, pc, tool, author, bill)
  PROVE  RequestOK(Admitted(q))
<1>1. PICK w : w = Admitted(q)
  OBVIOUS
<1>2. /\ DOMAIN w = DOMAIN Idle
      /\ w.pc = pc /\ w.tool = tool /\ w.author = author /\ w.bill = bill
      /\ w.base = trip.base /\ w.calm = TRUE
      /\ w.next = NoCurrency /\ w.version = 0 /\ w.doc = NoDoc /\ w.direction = <<>>
      /\ w.rate = 0 /\ w.listed = <<>> /\ w.found = FALSE /\ w.unseen = {}
  BY <1>1, IdleIs DEF Admitted, Billed
<1>3. {w.tool, w.found, w.calm} \subseteq BOOLEAN
  <2>1. tool \in BOOLEAN /\ FALSE \in BOOLEAN /\ TRUE \in BOOLEAN
    OBVIOUS
  <2> QED
    BY <1>2, <2>1, Zenon
<1>4. {w.base, w.next} \subseteq MaybeCurrency
  BY <1>2, TripType DEF MaybeCurrency
<1>5. w.version \in 0 .. MaxVersion
  BY <1>2, VersionType
<1>6. IsRequest(w)
  BY <1>2, <1>3, <1>4, <1>5, IdleIs DEF IsRequest
<1>7. Carries(w)
  BY <1>2, TripType DEF Carries
<1>8. Charged(w) /\ StillSo(w) /\ Compared(w)
  BY <1>2 DEF Charged, StillSo, Compared
<1> QED
  BY <1>1, <1>6, <1>7, <1>8 DEF RequestOK

LEMMA BeginCreateStep ==
  ASSUME TripInv, NEW r \in Requests, NEW author \in Authors, NEW bill \in Bills,
         BeginCreate(r, author, bill)
  PROVE  TripInv'
<1>1. PICK q : q = [Idle EXCEPT !.pc = "create", !.author = author, !.bill = bill]
  OBVIOUS
<1>2. Billed(q, "create", FALSE, author, bill)
  BY <1>1, IdleIs DEF Billed
<1>3. bill \in Sound /\ ChargedFits(bill, trip.base) /\ Admit("create", r, q)
  BY <1>1 DEF BeginCreate
<1>4. IsBill(bill) /\ Payable(bill)
  BY <1>3, SoundIs
<1>5. RequestOK(Admitted(q))
  BY <1>2, <1>3, <1>4, BilledOK
<1> QED
  BY <1>3, <1>5, AdmitStep

LEMMA RepaymentPayable ==
  ASSUME NEW bill \in Bills, bill.kind = "settlement", RepaymentFits(bill)
  PROVE  IsBill(bill) /\ Payable(bill)
BY BillIs DEF RepaymentFits, Payable

LEMMA BeginRecordStep ==
  ASSUME TripInv, NEW r \in Requests, NEW author \in Authors, NEW bill \in Bills,
         BeginRecord(r, author, bill)
  PROVE  TripInv'
<1>1. PICK q : q = [Idle EXCEPT !.pc = "create", !.author = author, !.bill = bill]
  OBVIOUS
<1>2. Billed(q, "create", FALSE, author, bill)
  BY <1>1, IdleIs DEF Billed
<1>3. bill.kind = "settlement" /\ RepaymentFits(bill) /\ Admit("record", r, q)
  BY <1>1 DEF BeginRecord
<1>4. IsBill(bill) /\ Payable(bill)
  BY <1>3, RepaymentPayable
<1>5. RequestOK(Admitted(q))
  BY <1>2, <1>3, <1>4, BilledOK
<1> QED
  BY <1>3, <1>5, AdmitStep

LEMMA BeginToolStep ==
  ASSUME TripInv, NEW r \in Requests, NEW author \in Authors, NEW bill,
         IsBill(bill), Payable(bill), BeginTool(r, author, bill)
  PROVE  TripInv'
<1>1. PICK q : q = [Idle EXCEPT !.pc = "currency", !.tool = TRUE, !.author = author,
                                !.bill = bill]
  OBVIOUS
<1>2. Billed(q, "currency", TRUE, author, bill)
  BY <1>1, IdleIs DEF Billed
<1>3. bill.chargedIn = NoCurrency /\ Admit("tool", r, q)
  BY <1>1 DEF BeginTool
<1>4. ChargedFits(bill, trip.base)
  BY <1>3 DEF ChargedFits
<1>5. RequestOK(Admitted(q))
  BY <1>2, <1>4, BilledOK
<1> QED
  BY <1>3, <1>5, AdmitStep

LEMMA ToolStep ==
  ASSUME TripInv, NEW r \in Requests, NEW author \in Authors, NEW bill \in Bills,
         \/ CreateBillExpense(r, author, bill) \/ AddExpense(r, author, bill)
         \/ RecordSettlement(r, author, bill)
  PROVE  TripInv'
<1>1. BeginTool(r, author, bill)
  BY DEF CreateBillExpense, AddExpense, RecordSettlement
<1>2. IsBill(bill) /\ Payable(bill)
  <2>1. CASE bill \in Sound
    BY <2>1, SoundIs
  <2>2. CASE bill.kind = "settlement" /\ RepaymentFits(bill)
    BY <2>2, RepaymentPayable
  <2> QED
    BY <2>1, <2>2 DEF CreateBillExpense, AddExpense, RecordSettlement
<1> QED
  BY <1>1, <1>2, BeginToolStep

\* The bill of an edit: its charged amount is the one sent, none, or the one of the row.
LEMMA OverridingIs ==
  ASSUME TripInv, NEW d \in LiveExpenses, NEW bill \in Sound, bill.kind # "item",
         NEW choice \in {"set", "clear", "keep"},
         choice = "set" => ChargedFits(bill, trip.base),
         NEW b, b = Overriding(doc[d], bill, choice, trip.base)
  PROVE  /\ IsBill(b) /\ Payable(b) /\ b.kind # "settlement"
         /\ "documents" \notin raced => ChargedFits(b, trip.base)
<1>1. IsBill(bill) /\ Payable(bill) /\ bill.kind # "settlement"
  BY SoundIs
<1>2. d \in Documents /\ IsDocument(doc[d])
  BY DEF LiveExpenses, Live, TripInv, RowOK
<1>3. doc[d].charged \in Nat /\ doc[d].chargedIn \in MaybeCurrency
  BY <1>2 DEF IsDocument
<1>4. NoCurrency \in MaybeCurrency
  BY DEF MaybeCurrency
<1>5. \A n \in Nat, c \in MaybeCurrency :
        b = [bill EXCEPT !.charged = n, !.chargedIn = c] =>
          /\ DOMAIN b = DOMAIN bill /\ b.kind = bill.kind /\ b.title = bill.title
          /\ b.amount = bill.amount /\ b.currency = bill.currency /\ b.parts = bill.parts
          /\ b.items = bill.items /\ b.extras = bill.extras /\ b.payers = bill.payers
          /\ b.charged = n /\ b.chargedIn = c
  BY <1>1 DEF IsBill
<1>6. ASSUME NEW n \in Nat, NEW c \in MaybeCurrency,
             b = [bill EXCEPT !.charged = n, !.chargedIn = c]
      PROVE  IsBill(b) /\ Payable(b) /\ b.kind # "settlement"
  <2>1. /\ DOMAIN b = DOMAIN bill /\ b.kind = bill.kind /\ b.title = bill.title
        /\ b.amount = bill.amount /\ b.currency = bill.currency /\ b.parts = bill.parts
        /\ b.items = bill.items /\ b.extras = bill.extras /\ b.payers = bill.payers
        /\ b.charged = n /\ b.chargedIn = c
    BY <1>5, <1>6
  <2>2. IsBill(b)
    BY <1>1, <1>6, <2>1 DEF IsBill
  <2>3. \A unit : SplitsFit(bill, unit) => SplitsFit(b, unit)
    <3> SUFFICES ASSUME NEW unit, SplitsFit(bill, unit) PROVE SplitsFit(b, unit)
      OBVIOUS
    <3>1. bill.kind \in {"equal", "manual", "percent", "shares"}
      BY <1>1 DEF Payable, Kinds
    <3>2. CASE bill.kind = "equal"
      BY <2>1, <3>2 DEF SplitsFit
    <3>3. CASE bill.kind = "manual"
      BY <2>1, <3>3 DEF SplitsFit
    <3>4. CASE bill.kind = "percent"
      BY <2>1, <3>4 DEF SplitsFit
    <3>5. CASE bill.kind = "shares"
      BY <2>1, <3>5 DEF SplitsFit
    <3> QED
      BY <3>1, <3>2, <3>3, <3>4, <3>5
  <2> QED
    BY <1>1, <2>1, <2>2, <2>3 DEF Payable
<1>7. CASE choice = "set"
  <2>1. b = bill
    BY <1>7 DEF Overriding
  <2> QED
    BY <1>1, <1>7, <2>1
<1>8. CASE choice = "clear" \/ (choice = "keep" /\ bill.currency = trip.base)
  <2>1. b = [bill EXCEPT !.charged = 0, !.chargedIn = NoCurrency]
    BY <1>8 DEF Overriding
  <2>2. b.chargedIn = NoCurrency
    BY <1>4, <1>5, <2>1
  <2> QED
    BY <1>4, <1>6, <2>1, <2>2 DEF ChargedFits
<1>9. CASE choice \notin {"set", "clear"} /\ ~(choice = "keep" /\ bill.currency = trip.base)
  <2>1. b = [bill EXCEPT !.charged = doc[d].charged, !.chargedIn = doc[d].chargedIn]
    BY <1>9 DEF Overriding
  <2>2. b.chargedIn = doc[d].chargedIn /\ b.currency = bill.currency
    BY <1>3, <1>5, <2>1
  <2>3. choice = "keep" /\ bill.currency # trip.base
    BY <1>9
  <2>4. "documents" \notin raced => doc[d].chargedIn \in {NoCurrency, trip.base}
    BY DEF TripInv, OneBaseCurrency
  <2> QED
    BY <1>3, <1>6, <2>1, <2>2, <2>3, <2>4 DEF ChargedFits
<1> QED
  BY <1>7, <1>8, <1>9

LEMMA BeginEditStep ==
  ASSUME TripInv, NEW r \in Requests, NEW d \in Documents, NEW bill \in Bills,
         NEW choice \in {"set", "clear", "keep"}, BeginEdit(r, d, bill, choice)
  PROVE  TripInv'
<1>1. PICK b : b = Overriding(doc[d], bill, choice, trip.base)
  OBVIOUS
<1>2. PICK v : v = doc[d].version
  OBVIOUS
<1>3. PICK q : q = [Idle EXCEPT !.pc = "edit", !.doc = d, !.version = v, !.bill = b]
  OBVIOUS
<1>4. /\ d \in LiveExpenses /\ v < MaxVersion /\ bill \in Sound /\ bill.kind # "item"
      /\ choice = "set" => ChargedFits(bill, trip.base)
  BY <1>2 DEF BeginEdit
<1>5. Admit("edit", r, q)
  BY <1>1, <1>2, <1>3 DEF BeginEdit
<1>6. /\ IsBill(b) /\ Payable(b) /\ b.kind # "settlement"
      /\ "documents" \notin raced => ChargedFits(b, trip.base)
  BY <1>1, <1>4, OverridingIs
<1>7. v \in 0 .. MaxVersion
  BY <1>2 DEF TripInv, RowOK, IsDocument
<1>8. PICK w : w = Admitted(q)
  OBVIOUS
<1>9. /\ DOMAIN w = DOMAIN Idle
      /\ w.pc = "edit" /\ w.tool = FALSE /\ w.author = 0 /\ w.bill = b
      /\ w.base = trip.base /\ w.calm = TRUE
      /\ w.next = NoCurrency /\ w.version = v /\ w.doc = d /\ w.direction = <<>>
      /\ w.rate = 0 /\ w.listed = <<>> /\ w.found = FALSE /\ w.unseen = {}
  BY <1>3, <1>8, IdleIs DEF Admitted
<1>10. {w.tool, w.found, w.calm} \subseteq BOOLEAN
  <2>1. FALSE \in BOOLEAN /\ TRUE \in BOOLEAN
    OBVIOUS
  <2> QED
    BY <1>9, <2>1, Zenon
<1>11. {w.base, w.next} \subseteq MaybeCurrency
  BY <1>9, TripType DEF MaybeCurrency
<1>12. IsRequest(w)
  BY <1>6, <1>7, <1>9, <1>10, <1>11, IdleIs DEF IsRequest
<1>13. Carries(w)
  BY <1>4, <1>6, <1>9, TripType DEF Carries
<1>14. Charged(w) /\ StillSo(w) /\ Compared(w)
  BY <1>6, <1>9 DEF Charged, StillSo, Compared
<1> QED
  BY <1>5, <1>8, <1>12, <1>13, <1>14, AdmitStep DEF RequestOK

LEMMA BeginSettingsStep ==
  ASSUME TripInv, NEW r \in Requests, NEW c \in Currencies, BeginSettings(r, c)
  PROVE  TripInv'
<1>1. PICK v : v = trip.version
  OBVIOUS
<1>2. PICK q : q = [Idle EXCEPT !.pc = "count", !.version = v, !.next = c]
  OBVIOUS
<1>3. Admit("settings", r, q) /\ v < MaxVersion
  BY <1>1, <1>2 DEF BeginSettings
<1>4. PICK w : w = Admitted(q)
  OBVIOUS
<1>5. /\ DOMAIN w = DOMAIN Idle
      /\ w.pc = "count" /\ w.tool = FALSE /\ w.author = 0 /\ w.bill = NoBill
      /\ w.base = trip.base /\ w.calm = TRUE
      /\ w.next = c /\ w.version = v /\ w.doc = NoDoc /\ w.direction = <<>>
      /\ w.rate = 0 /\ w.listed = <<>> /\ w.found = FALSE /\ w.unseen = {}
  BY <1>2, <1>4, IdleIs DEF Admitted
<1>6. {w.tool, w.found, w.calm} \subseteq BOOLEAN
  <2>1. FALSE \in BOOLEAN /\ TRUE \in BOOLEAN
    OBVIOUS
  <2> QED
    BY <1>5, <2>1, Zenon
<1>7. {w.base, w.next} \subseteq MaybeCurrency /\ w.version \in 0 .. MaxVersion
  BY <1>1, <1>5, TripType DEF MaybeCurrency
<1>8. IsRequest(w)
  BY <1>5, <1>6, <1>7, NoBillOK, IdleIs DEF IsRequest
<1>9. Carries(w)
  BY <1>3, <1>5, TripType DEF Carries, Paying
<1>10. Charged(w) /\ StillSo(w) /\ Compared(w)
  BY <1>5 DEF Charged, StillSo, Paying, Compared
<1> QED
  BY <1>3, <1>4, <1>8, <1>9, <1>10, AdmitStep DEF RequestOK

LEMMA RateType ==
  ASSUME NEW d \in Directions
  PROVE  /\ Opposite(d) \in Directions /\ Opposite(Opposite(d)) = d /\ Opposite(d) # d
BY DEF Directions, Opposite

LEMMA BeginRateStep ==
  ASSUME TripInv, NEW r \in Requests, NEW d \in Directions, NEW v \in Rates, BeginRate(r, d, v)
  PROVE  TripInv'
<1>1. PICK q : q = [Idle EXCEPT !.pc = "reverse", !.direction = d, !.rate = v]
  OBVIOUS
<1>2. Admit("rate", r, q)
  BY <1>1 DEF BeginRate
<1>3. PICK w : w = Admitted(q)
  OBVIOUS
<1>4. /\ DOMAIN w = DOMAIN Idle
      /\ w.pc = "reverse" /\ w.tool = FALSE /\ w.author = 0 /\ w.bill = NoBill
      /\ w.base = trip.base /\ w.calm = TRUE
      /\ w.next = NoCurrency /\ w.version = 0 /\ w.doc = NoDoc /\ w.direction = d
      /\ w.rate = v /\ w.listed = <<>> /\ w.found = FALSE /\ w.unseen = {}
  BY <1>1, <1>3, IdleIs DEF Admitted
<1>5. {w.tool, w.found, w.calm} \subseteq BOOLEAN
  <2>1. FALSE \in BOOLEAN /\ TRUE \in BOOLEAN
    OBVIOUS
  <2> QED
    BY <1>4, <2>1, Zenon
<1>6. {w.base, w.next} \subseteq MaybeCurrency /\ w.version \in 0 .. MaxVersion
  BY <1>4, TripType, VersionType DEF MaybeCurrency
<1>7. IsRequest(w)
  BY <1>4, <1>5, <1>6, NoBillOK, IdleIs DEF IsRequest
<1>8. Carries(w) /\ Charged(w) /\ StillSo(w) /\ Compared(w)
  BY <1>4 DEF Carries, Charged, StillSo, Paying, Compared
<1> QED
  BY <1>2, <1>3, <1>7, <1>8, AdmitStep DEF RequestOK

LEMMA SetExchangeRateStep ==
  ASSUME TripInv, NEW r \in Requests, NEW c \in Currencies, NEW v \in Rates,
         SetExchangeRate(r, c, v)
  PROVE  TripInv'
<1>1. <<c, trip.base>> \in Directions
  BY TripType DEF SetExchangeRate, Directions
<1> QED
  BY <1>1, BeginRateStep DEF SetExchangeRate

LEMMA BeginLockStep ==
  ASSUME TripInv, NEW r \in Requests, BeginLock(r)
  PROVE  TripInv'
<1>1. PICK q : q = [Idle EXCEPT !.pc = "lock", !.listed = rate]
  OBVIOUS
<1>2. Admit("lock", r, q)
  BY <1>1 DEF BeginLock
<1>3. PICK w : w = Admitted(q)
  OBVIOUS
<1>4. /\ DOMAIN w = DOMAIN Idle
      /\ w.pc = "lock" /\ w.tool = FALSE /\ w.author = 0 /\ w.bill = NoBill
      /\ w.base = trip.base /\ w.calm = TRUE
      /\ w.next = NoCurrency /\ w.version = 0 /\ w.doc = NoDoc /\ w.direction = <<>>
      /\ w.rate = 0 /\ w.listed = rate /\ w.found = FALSE /\ w.unseen = {}
  BY <1>1, <1>3, IdleIs DEF Admitted
<1>5. {w.tool, w.found, w.calm} \subseteq BOOLEAN
  <2>1. FALSE \in BOOLEAN /\ TRUE \in BOOLEAN
    OBVIOUS
  <2> QED
    BY <1>4, <2>1, Zenon
<1>6. {w.base, w.next} \subseteq MaybeCurrency /\ w.version \in 0 .. MaxVersion
  BY <1>4, TripType, VersionType DEF MaybeCurrency
<1>7. w.listed \in [Directions -> Rates \cup {0}]
  BY <1>4 DEF TripInv, TripOK
<1>8. IsRequest(w)
  BY <1>4, <1>5, <1>6, <1>7, NoBillOK, IdleIs DEF IsRequest
<1>9. Carries(w) /\ Charged(w) /\ StillSo(w) /\ Compared(w)
  BY <1>4, <1>7 DEF Carries, Charged, StillSo, Paying, Compared
<1> QED
  BY <1>2, <1>3, <1>8, <1>9, AdmitStep DEF RequestOK

\* The statement that comes next, and what a request has found, change.
LEMMA NextStatement ==
  ASSUME NEW p, IsRequest(p),
         NEW pc \in {"create", "edit", "currency", "duplicate", "count", "save", "reverse", "upsert"},
         NEW q, q = [p EXCEPT !.pc = pc]
  PROVE  /\ IsRequest(q) /\ q.pc = pc
         /\ q.tool = p.tool /\ q.author = p.author /\ q.bill = p.bill /\ q.base = p.base
         /\ q.calm = p.calm /\ q.next = p.next /\ q.version = p.version /\ q.doc = p.doc
         /\ q.direction = p.direction /\ q.rate = p.rate /\ q.listed = p.listed
         /\ q.found = p.found /\ q.unseen = p.unseen
<1>1. /\ DOMAIN q = DOMAIN p /\ q.pc = pc
      /\ q.tool = p.tool /\ q.author = p.author /\ q.bill = p.bill /\ q.base = p.base
      /\ q.calm = p.calm /\ q.next = p.next /\ q.version = p.version /\ q.doc = p.doc
      /\ q.direction = p.direction /\ q.rate = p.rate /\ q.listed = p.listed
      /\ q.found = p.found /\ q.unseen = p.unseen
  BY DEF IsRequest
<1>2. IsRequest(q)
  BY <1>1 DEF IsRequest
<1> QED
  BY <1>1, <1>2

LEMMA CurrencyForStep ==
  ASSUME TripInv, NEW r \in Requests, CurrencyFor(r)
  PROVE  TripInv'
<1>1. PICK p : p = req[r] /\ RequestOK(p) /\ p.pc = "currency"
  BY DEF TripInv, CurrencyFor, At
<1>2. PICK pc \in {"create", "duplicate"} :
        pc = IF p.bill.kind = "settlement" THEN "create" ELSE "duplicate"
  OBVIOUS
<1>3. PICK q : q = [p EXCEPT !.pc = pc]
  OBVIOUS
<1>4. Continues(r, q)
  BY <1>1, <1>2, <1>3 DEF CurrencyFor
<1>5. /\ IsRequest(q) /\ q.pc = pc /\ q.bill = p.bill /\ q.base = p.base /\ q.calm = p.calm
  BY <1>1, <1>3, NextStatement DEF RequestOK
<1>6. Carries(q)
  BY <1>1, <1>2, <1>5 DEF RequestOK, Carries, Paying
<1>7. Charged(q)
  BY <1>1, <1>2, <1>5 DEF RequestOK, Charged, Paying
<1>8. q.calm => StillSo(q)
  BY <1>1, <1>2, <1>5 DEF RequestOK, StillSo, Paying
<1>9. Compared(q)
  BY <1>2, <1>5 DEF Compared
<1> QED
  BY <1>4, <1>5, <1>6, <1>7, <1>8, <1>9, ContinueStep DEF RequestOK

\* A tool goes on to create, with what the lookup has left unseen.
LEMMA GoesOn ==
  ASSUME TripInv, NEW r \in Requests, NEW p, p = req[r], RequestOK(p), p.pc = "duplicate",
         NEW unseen \in SUBSET Documents,
         \A e \in Live \ unseen : ~Alike(doc[e], p.bill, p.author),
         Continues(r, [p EXCEPT !.pc = "create", !.unseen = unseen])
  PROVE  TripInv'
<1>1. PICK q : q = [p EXCEPT !.pc = "create", !.unseen = unseen]
  OBVIOUS
<1>2. /\ DOMAIN q = DOMAIN p /\ q.pc = "create"
      /\ q.tool = p.tool /\ q.author = p.author /\ q.bill = p.bill /\ q.base = p.base
      /\ q.calm = p.calm /\ q.next = p.next /\ q.version = p.version /\ q.doc = p.doc
      /\ q.direction = p.direction /\ q.rate = p.rate /\ q.listed = p.listed
      /\ q.found = p.found /\ q.unseen = unseen
  BY <1>1 DEF RequestOK, IsRequest
<1>3. IsRequest(q)
  BY <1>2 DEF RequestOK, IsRequest
<1>4. Carries(q) /\ Charged(q)
  BY <1>2 DEF RequestOK, Carries, Charged, Paying
<1>5. q.calm => StillSo(q)
  BY <1>2 DEF RequestOK, StillSo, Paying
<1>6. Compared(q)
  BY <1>2 DEF Compared
<1> QED
  BY <1>1, <1>3, <1>4, <1>5, <1>6, ContinueStep DEF RequestOK

LEMMA RecentDuplicateStep ==
  ASSUME TripInv, NEW r \in Requests, RecentDuplicate(r)
  PROVE  TripInv'
<1>1. PICK p : p = req[r] /\ RequestOK(p) /\ p.pc = "duplicate"
  BY DEF TripInv, RecentDuplicate, At
<1>2. PICK page \in FirstPages(p.bill.day) :
        Continues(r, IF Duplicates(page, p.bill, p.author) # {}
                       THEN Idle
                       ELSE [p EXCEPT !.pc = "create", !.unseen = Recents(p.bill.day) \ page])
  BY <1>1 DEF RecentDuplicate
<1>3. CASE Duplicates(page, p.bill, p.author) # {}
  BY <1>2, <1>3, IdleOK, ContinueStep
<1>4. CASE Duplicates(page, p.bill, p.author) = {}
  <2>1. PICK unseen \in SUBSET Documents : unseen = Recents(p.bill.day) \ page
    BY DEF Recents, LiveExpenses, Live
  <2>2. ASSUME NEW e \in Live \ unseen, Alike(doc[e], p.bill, p.author)
        PROVE  FALSE
    <3>1. e \in Recents(p.bill.day)
      BY <2>2 DEF Recents, LiveExpenses, Alike, SamePurchase
    <3>2. e \in Duplicates(page, p.bill, p.author)
      BY <2>1, <2>2, <3>1 DEF Duplicates
    <3> QED
      BY <1>4, <3>2
  <2> QED
    BY <1>1, <1>2, <1>4, <2>1, <2>2, GoesOn
<1> QED
  BY <1>3, <1>4

LEMMA LookupFailsStep ==
  ASSUME TripInv, NEW r \in Requests, LookupFails(r)
  PROVE  TripInv'
<1>1. PICK p : p = req[r] /\ RequestOK(p) /\ p.pc = "duplicate"
  BY DEF TripInv, LookupFails, At
<1>2. Live \ Documents = {} /\ Documents \in SUBSET Documents
  BY DEF Live
<1> QED
  BY <1>1, <1>2, GoesOn DEF LookupFails

LEMMA CountExpensesStep ==
  ASSUME TripInv, NEW r \in Requests, CountExpenses(r)
  PROVE  TripInv'
<1>1. PICK p : p = req[r] /\ RequestOK(p) /\ p.pc = "count"
  BY DEF TripInv, CountExpenses, At
<1>2. CASE LiveExpenses # {} /\ p.next # p.base
  <2>1. Continues(r, Idle)
    BY <1>1, <1>2 DEF CountExpenses
  <2> QED
    BY <2>1, IdleOK, ContinueStep
<1>3. CASE ~(LiveExpenses # {} /\ p.next # p.base)
  <2>1. PICK q : q = [p EXCEPT !.pc = "save"]
    OBVIOUS
  <2>2. Continues(r, q)
    BY <1>1, <1>3, <2>1 DEF CountExpenses
  <2>3. /\ IsRequest(q) /\ q.pc = "save" /\ q.base = p.base /\ q.calm = p.calm
        /\ q.next = p.next /\ q.version = p.version
    BY <1>1, <2>1, NextStatement DEF RequestOK
  <2>4. Carries(q) /\ Charged(q)
    BY <1>1, <2>3 DEF RequestOK, Carries, Charged, Paying
  <2>5. q.calm => StillSo(q)
    BY <1>1, <1>3, <2>3 DEF RequestOK, StillSo, Paying
  <2>6. Compared(q)
    BY <2>3 DEF Compared
  <2> QED
    BY <2>2, <2>3, <2>4, <2>5, <2>6, ContinueStep DEF RequestOK
<1> QED
  BY <1>2, <1>3

LEMMA FailStep ==
  ASSUME TripInv, NEW r \in Requests, Fail(r)
  PROVE  TripInv'
BY IdleOK, ContinueStep DEF Fail

LEMMA DeleteReverseStep ==
  ASSUME TripInv, NEW r \in Requests, DeleteReverse(r)
  PROVE  TripInv'
<1>1. PICK p : p = req[r] /\ RequestOK(p) /\ p.pc = "reverse"
  BY DEF TripInv, DeleteReverse, At
<1>2. PICK f : f = (rate[Opposite(p.direction)] > 0)
  OBVIOUS
<1>10. f \in BOOLEAN
  BY <1>2
<1>3. PICK q : q = [p EXCEPT !.pc = "upsert", !.found = f]
  OBVIOUS
<1>4. Continues(r, q)
  BY <1>1, <1>2, <1>3 DEF DeleteReverse
<1>5. /\ DOMAIN q = DOMAIN p /\ q.pc = "upsert"
      /\ q.tool = p.tool /\ q.author = p.author /\ q.bill = p.bill /\ q.base = p.base
      /\ q.calm = p.calm /\ q.next = p.next /\ q.version = p.version /\ q.doc = p.doc
      /\ q.direction = p.direction /\ q.rate = p.rate /\ q.listed = p.listed
      /\ q.found = f /\ q.unseen = p.unseen
  BY <1>1, <1>3 DEF RequestOK, IsRequest
<1>6. {q.tool, q.found, q.calm} \subseteq BOOLEAN
  <2>1. {p.tool, p.calm} \subseteq BOOLEAN
    BY <1>1 DEF RequestOK, IsRequest
  <2> QED
    BY <1>5, <1>10, <2>1, Zenon
<1>7. IsRequest(q)
  BY <1>1, <1>5, <1>6 DEF RequestOK, IsRequest
<1>8. Carries(q) /\ Charged(q)
  BY <1>1, <1>5 DEF RequestOK, Carries, Charged, Paying
<1>9. StillSo(q)
  BY <1>2, <1>5 DEF StillSo, Paying
<1>11. Compared(q)
  BY <1>5 DEF Compared
<1> QED
  BY <1>4, <1>7, <1>8, <1>9, <1>11, ContinueStep DEF RequestOK

---------------------------------------------------------------------------------
(* Steps that write a row.                                                 *)

LEMMA DisturbedIs ==
  ASSUME NEW p, IsRequest(p), NEW subject, NEW written \in SUBSET Documents,
         NEW q, q = Disturbed(p, subject, written)
  PROVE  /\ IsRequest(q)
         /\ q.pc = p.pc /\ q.tool = p.tool /\ q.author = p.author /\ q.bill = p.bill
         /\ q.base = p.base /\ q.next = p.next /\ q.version = p.version /\ q.doc = p.doc
         /\ q.direction = p.direction /\ q.rate = p.rate /\ q.listed = p.listed
         /\ q.found = p.found
         /\ q.calm => p.calm /\ Subject(p) # subject
         /\ p.tool /\ p.pc = "create" => q.unseen = p.unseen \cup written
<1>1. PICK c : c = (p.calm /\ Subject(p) # subject)
  OBVIOUS
<1>2. c \in BOOLEAN /\ (c => p.calm /\ Subject(p) # subject)
  BY <1>1
<1>8. PICK u \in SUBSET Documents :
        u = IF p.tool /\ p.pc = "create" THEN p.unseen \cup written ELSE p.unseen
  BY DEF IsRequest
<1>3. q = [p EXCEPT !.calm = c, !.unseen = u]
  BY <1>1, <1>8 DEF Disturbed
<1>4. /\ DOMAIN q = DOMAIN p
      /\ q.pc = p.pc /\ q.tool = p.tool /\ q.author = p.author /\ q.bill = p.bill
      /\ q.base = p.base /\ q.next = p.next /\ q.version = p.version /\ q.doc = p.doc
      /\ q.direction = p.direction /\ q.rate = p.rate /\ q.listed = p.listed
      /\ q.found = p.found /\ q.calm = c /\ q.unseen = u
  BY <1>3 DEF IsRequest
<1>5. {q.tool, q.found, q.calm} \subseteq BOOLEAN
  <2>1. {p.tool, p.found} \subseteq BOOLEAN
    BY DEF IsRequest
  <2> QED
    BY <1>2, <1>4, <2>1, Zenon
<1>6. IsRequest(q)
  BY <1>4, <1>5, <1>8 DEF IsRequest
<1>7. q.calm => p.calm /\ Subject(p) # subject
  BY <1>2, <1>4
<1> QED
  BY <1>4, <1>6, <1>7, <1>8

\* Documents were written or deleted: the others have not seen those that were written.
LEMMA DisturbedByDocuments ==
  ASSUME rate' = rate, raced \subseteq raced', NEW written \in SUBSET Documents,
         \A e \in Documents \ written : doc'[e] = doc[e] \/ doc'[e].life # "live",
         NEW p, RequestOK(p), NEW q, q = Disturbed(p, "documents", written)
  PROVE  RequestOK(q)'
<1>1. /\ IsRequest(q)
      /\ q.pc = p.pc /\ q.tool = p.tool /\ q.author = p.author /\ q.bill = p.bill
      /\ q.base = p.base /\ q.next = p.next /\ q.version = p.version /\ q.doc = p.doc
      /\ q.direction = p.direction /\ q.rate = p.rate /\ q.listed = p.listed
      /\ q.found = p.found
      /\ q.calm => p.calm /\ Subject(p) # "documents"
      /\ p.tool /\ p.pc = "create" => q.unseen = p.unseen \cup written
  BY DisturbedIs DEF RequestOK
<1>2. Carries(q)'
  BY <1>1 DEF RequestOK, Carries, Payable
<1>3. Charged(q)'
  BY <1>1 DEF RequestOK, Charged
<1>4. ASSUME q.calm
      PROVE  StillSo(q)'
  <2>1. StillSo(p) /\ p.pc \in {"reverse", "upsert", "lock"}
    BY <1>1, <1>4 DEF RequestOK, Subject
  <2> QED
    BY <1>1, <2>1 DEF StillSo, Paying
<1>5. Compared(q)'
  <2>1. SUFFICES ASSUME q.tool, q.pc = "create", q.bill.kind # "settlement",
                        NEW e \in Live' \ q.unseen
                 PROVE  ~Alike(doc'[e], q.bill, q.author)
    BY DEF Compared, Alike, SamePurchase
  <2>2. e \in Documents \ written /\ e \notin p.unseen /\ doc'[e].life = "live"
    BY <1>1, <2>1 DEF Live
  <2>3. e \in Live \ p.unseen /\ doc'[e] = doc[e]
    BY <2>2 DEF Live
  <2> QED
    BY <1>1, <2>1, <2>3 DEF RequestOK, Compared
<1> QED
  BY <1>1, <1>2, <1>3, <1>4, <1>5 DEF RequestOK

LEMMA DisturbedByRates ==
  ASSUME UNCHANGED <<trip, doc>>, raced \subseteq raced', NEW p, RequestOK(p),
         NEW q, q = Disturbed(p, "rates", {})
  PROVE  RequestOK(q)'
<1>1. /\ IsRequest(q)
      /\ q.pc = p.pc /\ q.tool = p.tool /\ q.author = p.author /\ q.bill = p.bill
      /\ q.base = p.base /\ q.next = p.next /\ q.version = p.version /\ q.doc = p.doc
      /\ q.direction = p.direction /\ q.rate = p.rate /\ q.listed = p.listed
      /\ q.found = p.found
      /\ q.calm => p.calm /\ Subject(p) # "rates"
      /\ p.tool /\ p.pc = "create" => q.unseen = p.unseen
  <2>1. PICK none \in SUBSET Documents : none = {}
    OBVIOUS
  <2>2. IsRequest(p) /\ q = Disturbed(p, "rates", none)
    BY <2>1 DEF RequestOK
  <2>3. p.unseen \cup none = p.unseen
    BY <2>1
  <2>4. /\ IsRequest(q)
        /\ q.pc = p.pc /\ q.tool = p.tool /\ q.author = p.author /\ q.bill = p.bill
        /\ q.base = p.base /\ q.next = p.next /\ q.version = p.version /\ q.doc = p.doc
        /\ q.direction = p.direction /\ q.rate = p.rate /\ q.listed = p.listed
        /\ q.found = p.found
        /\ q.calm => p.calm /\ Subject(p) # "rates"
        /\ p.tool /\ p.pc = "create" => q.unseen = p.unseen \cup none
    BY <2>2, DisturbedIs
  <2> QED
    BY <2>3, <2>4
<1>2. Carries(q)'
  BY <1>1 DEF RequestOK, Carries, Payable
<1>3. Charged(q)'
  BY <1>1 DEF RequestOK, Charged
<1>4. LiveExpenses' = LiveExpenses /\ Live' = Live
  BY DEF LiveExpenses, Live
<1>5. ASSUME q.calm
      PROVE  StillSo(q)'
  <2>1. StillSo(p) /\ p.pc \notin {"upsert", "lock"}
    BY <1>1, <1>5 DEF RequestOK, Subject
  <2> QED
    BY <1>1, <1>4, <2>1 DEF StillSo, Paying
<1>6. Compared(q)'
  BY <1>1, <1>4 DEF RequestOK, Compared, Alike, SamePurchase
<1> QED
  BY <1>1, <1>2, <1>3, <1>5, <1>6 DEF RequestOK

LEMMA IdleNextOK == RequestOK(Idle)'
<1>1. IsRequest(Idle)
  BY IdleOK DEF RequestOK
<1> QED
  BY <1>1, IdleIs DEF RequestOK, Carries, Charged, Paying, Compared

\* The answered request is idle, the others still carry what they need.
LEMMA AnsweredDocuments ==
  ASSUME TripInv, NEW r \in Requests, NEW written \in SUBSET Documents,
         Answered(r, "documents", written), rate' = rate,
         \A e \in Documents \ written : doc'[e] = doc[e] \/ doc'[e].life # "live"
  PROVE  /\ DOMAIN req' = Requests /\ \A s \in Requests : RequestOK(req[s])'
         /\ raced \subseteq raced' /\ raced' \subseteq {"documents", "rates"}
         /\ "documents" \notin raced' => req[r].calm /\ raced' = raced
         /\ "rates" \notin raced' => "rates" \notin raced
<1>1. raced' = IF req[r].calm THEN raced ELSE raced \cup {"documents"}
  BY DEF Answered
<1>2. raced \subseteq {"documents", "rates"}
  BY DEF TripInv, TripOK
<1>3. ASSUME NEW s \in Requests
      PROVE  RequestOK(req[s])'
  <2>1. PICK w : w = req'[s]
    OBVIOUS
  <2>2. PICK p : p = req[s] /\ RequestOK(p)
    BY DEF TripInv
  <2>3. w = Idle \/ w = Disturbed(p, "documents", written)
    BY <2>1, <2>2 DEF Answered
  <2>4. raced \subseteq raced'
    BY <1>1
  <2>5. RequestOK(w)'
    BY <2>2, <2>3, <2>4, IdleNextOK, DisturbedByDocuments
  <2> QED
    BY <2>1, <2>5
<1> QED
  BY <1>1, <1>2, <1>3 DEF Answered

LEMMA AnsweredRates ==
  ASSUME TripInv, NEW r \in Requests, Answered(r, "rates", {}), UNCHANGED <<trip, doc>>
  PROVE  /\ DOMAIN req' = Requests /\ \A s \in Requests : RequestOK(req[s])'
         /\ raced \subseteq raced' /\ raced' \subseteq {"documents", "rates"}
         /\ "rates" \notin raced' => req[r].calm /\ raced' = raced
         /\ "documents" \notin raced' => "documents" \notin raced
<1>1. raced' = IF req[r].calm THEN raced ELSE raced \cup {"rates"}
  BY DEF Answered
<1>2. raced \subseteq {"documents", "rates"}
  BY DEF TripInv, TripOK
<1>3. ASSUME NEW s \in Requests
      PROVE  RequestOK(req[s])'
  <2>1. PICK w : w = req'[s]
    OBVIOUS
  <2>2. PICK p : p = req[s] /\ RequestOK(p)
    BY DEF TripInv
  <2>3. w = Idle \/ w = Disturbed(p, "rates", {})
    BY <2>1, <2>2 DEF Answered
  <2>4. raced \subseteq raced'
    BY <1>1
  <2>5. RequestOK(w)'
    BY <2>2, <2>3, <2>4, IdleNextOK, DisturbedByRates
  <2> QED
    BY <2>1, <2>5
<1> QED
  BY <1>1, <1>2, <1>3 DEF Answered

\* A row is written under a base currency and with a charged amount that still fit,
\* unless the write raced.
LEMMA WriteStep ==
  ASSUME TripInv, NEW r \in Requests, NEW d \in Documents, NEW row, RowOK(row),
         doc' = [doc EXCEPT ![d] = row], Answered(r, "documents", {d}), UNCHANGED <<trip, rate>>,
         "documents" \notin raced' /\ row.kind # "settlement" =>
           row.base = trip.base /\ ChargedFits(row, trip.base)
  PROVE  TripInv'
<1>1. /\ DOMAIN req' = Requests /\ \A s \in Requests : RequestOK(req[s])'
      /\ raced \subseteq raced' /\ raced' \subseteq {"documents", "rates"}
      /\ "rates" \notin raced' => "rates" \notin raced
  <2>1. \A e \in Documents \ {d} : doc'[e] = doc[e]
    BY DEF TripInv
  <2> QED
    BY <2>1, AnsweredDocuments
<1>2. DOMAIN doc = Documents /\ \A e \in Documents : RowOK(doc[e])
  BY DEF TripInv
<1>3. \A e \in Documents : doc'[e] = IF e = d THEN row ELSE doc[e]
  BY <1>2
<1>4. DOMAIN doc' = Documents /\ \A e \in Documents : RowOK(doc'[e])
  BY <1>2, <1>3
<1>5. TripOK'
  BY <1>1 DEF TripInv, TripOK
<1>6. OneSlotPerPair'
  BY <1>1 DEF TripInv, OneSlotPerPair
<1>7. OneBaseCurrency'
  <2>1. SUFFICES ASSUME "documents" \notin raced', NEW e \in Documents,
                        doc'[e].life = "live", doc'[e].kind # "settlement"
                 PROVE  /\ doc'[e].base = trip.base
                        /\ doc'[e].chargedIn \in {NoCurrency, trip.base}
                        /\ doc'[e].chargedIn # NoCurrency => doc'[e].currency # trip.base
    BY DEF OneBaseCurrency, LiveExpenses, Live
  <2>2. CASE e = d
    BY <1>3, <2>1, <2>2 DEF ChargedFits
  <2>3. CASE e # d
    <3>1. e \in LiveExpenses /\ doc'[e] = doc[e]
      BY <1>3, <2>1, <2>3 DEF LiveExpenses, Live
    <3> QED
      BY <1>1, <2>1, <3>1 DEF TripInv, OneBaseCurrency
  <2> QED
    BY <2>2, <2>3
<1> QED
  BY <1>1, <1>4, <1>5, <1>6, <1>7 DEF TripInv

LEMMA CreateDocumentStep ==
  ASSUME TripInv, NEW r \in Requests, CreateDocument(r)
  PROVE  TripInv'
<1>1. PICK p : p = req[r] /\ RequestOK(p) /\ p.pc = "create"
  BY DEF TripInv, CreateDocument, At
<1>8. PICK recent \in BOOLEAN : recent = TRUE
  OBVIOUS
<1>2. PICK row : row = Row(p.bill, p.base, p.author, recent, 1)
  OBVIOUS
<1>3. PICK d \in Documents : doc' = [doc EXCEPT ![d] = row] /\ Answered(r, "documents", {d})
  BY <1>1, <1>2, <1>8 DEF CreateDocument, Row
<1>4. UNCHANGED <<trip, rate>>
  BY DEF CreateDocument
<1>5. Payable(p.bill) /\ p.base \in Currencies /\ IsBill(p.bill) /\ p.author \in Authors \cup {0}
  BY <1>1 DEF RequestOK, Carries, Paying, IsRequest
<1>6. RowOK(row)
  <2>1. 1 \in 0 .. MaxVersion
    BY VersionType
  <2> QED
    BY <1>2, <1>5, <2>1, WrittenOK
<1>7. ASSUME "documents" \notin raced', row.kind # "settlement"
      PROVE  row.base = trip.base /\ ChargedFits(row, trip.base)
  <2>1. "documents" \notin raced /\ p.calm
    BY <1>1, <1>3, <1>7 DEF Answered
  <2>2. /\ row.base = p.base /\ row.chargedIn = p.bill.chargedIn
        /\ row.currency = p.bill.currency /\ row.kind = p.bill.kind
    BY <1>2, WrittenIs
  <2>3. p.base = trip.base
    BY <1>1, <2>1 DEF RequestOK, StillSo, Paying
  <2>4. ChargedFits(p.bill, p.base)
    BY <1>1, <1>7, <2>1, <2>2 DEF RequestOK, Charged, Paying
  <2> QED
    BY <2>2, <2>3, <2>4 DEF ChargedFits
<1> QED
  BY <1>3, <1>4, <1>6, <1>7, WriteStep

LEMMA UpdateExpenseStep ==
  ASSUME TripInv, NEW r \in Requests, UpdateExpense(r)
  PROVE  TripInv'
<1>1. PICK p : p = req[r] /\ RequestOK(p) /\ p.pc = "edit"
  BY DEF TripInv, UpdateExpense, At
<1>2. PICK d \in Documents : d = p.doc
  BY <1>1 DEF RequestOK, Carries
<1>3. PICK was : was = doc[d] /\ RowOK(was)
  BY DEF TripInv
<1>4. PICK row : row = Row(p.bill, p.base, was.author, was.recent, p.version + 1)
  OBVIOUS
<1>5. /\ doc' = [doc EXCEPT ![d] = row]
      /\ Answered(r, "documents", {d}) /\ UNCHANGED <<trip, rate>>
  BY <1>1, <1>2, <1>3, <1>4 DEF UpdateExpense, Row
<1>6. Payable(p.bill) /\ p.base \in Currencies /\ IsBill(p.bill)
  BY <1>1 DEF RequestOK, Carries, Paying, IsRequest
<1>7. was.author \in Authors \cup {0} /\ was.recent \in BOOLEAN
  BY <1>3 DEF RowOK, IsDocument
<1>8. p.version + 1 \in 0 .. MaxVersion
  <2>1. p.version \in 0 .. MaxVersion /\ p.version < MaxVersion
    BY <1>1 DEF RequestOK, Carries, IsRequest
  <2> QED
    BY <2>1, VersionType
<1>9. RowOK(row)
  BY <1>4, <1>6, <1>7, <1>8, WrittenOK
<1>10. ASSUME "documents" \notin raced', row.kind # "settlement"
       PROVE  row.base = trip.base /\ ChargedFits(row, trip.base)
  <2>1. "documents" \notin raced /\ p.calm
    BY <1>1, <1>5, <1>10 DEF Answered
  <2>2. /\ row.base = p.base /\ row.chargedIn = p.bill.chargedIn
        /\ row.currency = p.bill.currency /\ row.kind = p.bill.kind
    BY <1>4, WrittenIs
  <2>3. p.base = trip.base
    BY <1>1, <2>1 DEF RequestOK, StillSo, Paying
  <2>4. ChargedFits(p.bill, p.base)
    BY <1>1, <1>10, <2>1, <2>2 DEF RequestOK, Charged, Paying
  <2> QED
    BY <2>2, <2>3, <2>4 DEF ChargedFits
<1> QED
  BY <1>5, <1>9, <1>10, WriteStep

\* The base currency changes only under no expenses, unless the save raced.
LEMMA SaveSettingsStep ==
  ASSUME TripInv, NEW r \in Requests, SaveSettings(r)
  PROVE  TripInv'
<1>1. PICK p : p = req[r] /\ RequestOK(p) /\ p.pc = "save"
  BY DEF TripInv, SaveSettings, At
<1>2. /\ trip' = [base |-> p.next, version |-> trip.version + 1] /\ trip.version = p.version
      /\ Answered(r, "documents", {}) /\ UNCHANGED <<rate, doc>>
  BY <1>1 DEF SaveSettings
<1>3. /\ DOMAIN req' = Requests /\ \A s \in Requests : RequestOK(req[s])'
      /\ raced' \subseteq {"documents", "rates"}
      /\ "documents" \notin raced' => p.calm /\ raced' = raced
      /\ "rates" \notin raced' => "rates" \notin raced
  BY <1>1, <1>2, AnsweredDocuments
<1>4. trip' \in [base : Currencies, version : 1 .. MaxVersion]
  <2>1. p.next \in Currencies /\ p.version < MaxVersion
    BY <1>1 DEF RequestOK, Carries
  <2>2. trip.version + 1 \in 1 .. MaxVersion
    BY <1>2, <2>1, TripType, VersionType
  <2> QED
    BY <1>2, <2>1, <2>2
<1>5. TripOK'
  BY <1>2, <1>3, <1>4 DEF TripInv, TripOK
<1>6. OneSlotPerPair'
  BY <1>2, <1>3 DEF TripInv, OneSlotPerPair
<1>7. OneBaseCurrency'
  <2>1. LiveExpenses' = LiveExpenses
    BY <1>2 DEF LiveExpenses, Live
  <2>2. CASE "documents" \in raced'
    BY <2>2 DEF OneBaseCurrency
  <2>3. CASE "documents" \notin raced'
    <3>1. LiveExpenses = {} \/ p.next = trip.base
      BY <1>1, <1>3, <2>3 DEF RequestOK, StillSo
    <3>2. trip'.base = p.next
      BY <1>2
    <3> QED
      BY <1>2, <1>3, <2>1, <2>3, <3>1, <3>2 DEF TripInv, OneBaseCurrency
  <2> QED
    BY <2>2, <2>3
<1>8. DOMAIN doc' = Documents /\ \A d \in Documents : RowOK(doc'[d])
  BY <1>2 DEF TripInv
<1> QED
  BY <1>3, <1>5, <1>6, <1>7, <1>8 DEF TripInv

\* A rate is written as one slot, unless the write raced.
LEMMA UpsertRateStep ==
  ASSUME TripInv, NEW r \in Requests, UpsertRate(r)
  PROVE  TripInv'
<1>1. PICK p : p = req[r] /\ RequestOK(p) /\ p.pc = "upsert"
  BY DEF TripInv, UpsertRate, At
<1>2. PICK d \in Directions : d = p.direction
  BY <1>1 DEF RequestOK, Carries
<1>3. PICK o \in Directions : o = Opposite(d) /\ o # d /\ Opposite(o) = d
  BY RateType
<1>4. PICK v : v = IF p.found THEN 0 ELSE rate[o]
  OBVIOUS
<1>5. /\ rate' = [rate EXCEPT ![d] = p.rate, ![o] = v]
      /\ Answered(r, "rates", {}) /\ UNCHANGED <<trip, doc>>
  BY <1>1, <1>2, <1>3, <1>4 DEF UpsertRate
<1>6. /\ DOMAIN req' = Requests /\ \A s \in Requests : RequestOK(req[s])'
      /\ raced' \subseteq {"documents", "rates"}
      /\ "rates" \notin raced' => p.calm /\ raced' = raced
      /\ "documents" \notin raced' => "documents" \notin raced
  BY <1>1, <1>5, AnsweredRates
<1>7. rate \in [Directions -> Rates \cup {0}] /\ p.rate \in Rates
  BY <1>1 DEF TripInv, TripOK, RequestOK, Carries
<1>8. v \in Rates \cup {0}
  BY <1>4, <1>7
<1>9. \A e \in Directions : rate'[e] = IF e = o THEN v ELSE IF e = d THEN p.rate ELSE rate[e]
  BY <1>3, <1>5, <1>7
<1>10. rate' \in [Directions -> Rates \cup {0}]
  BY <1>5, <1>7, <1>8
<1>11. TripOK'
  BY <1>5, <1>6, <1>10 DEF TripInv, TripOK
<1>12. OneBaseCurrency'
  <2>1. LiveExpenses' = LiveExpenses
    BY <1>5 DEF LiveExpenses, Live
  <2> QED
    BY <1>5, <1>6, <2>1 DEF TripInv, OneBaseCurrency
<1>13. OneSlotPerPair'
  <2>1. SUFFICES ASSUME "rates" \notin raced', NEW e \in Directions
                 PROVE  rate'[e] = 0 \/ rate'[Opposite(e)] = 0
    BY DEF OneSlotPerPair
  <2>2. v = 0
    <3>1. p.found <=> rate[o] > 0
      BY <1>1, <1>2, <1>3, <1>6, <2>1 DEF RequestOK, StillSo
    <3>2. rate[o] \in Nat
      <4>1. \A x \in Rates \cup {0} : x \in Nat
        BY TripMoneyAssumption
      <4>2. rate[o] \in Rates \cup {0}
        BY <1>3, <1>7
      <4> QED
        BY <4>1, <4>2
    <3>3. CASE p.found
      BY <1>4, <3>3
    <3>4. CASE ~p.found
      BY <1>4, <3>1, <3>2, <3>4
    <3> QED
      BY <3>3, <3>4
  <2>3. rate[e] = 0 \/ rate[Opposite(e)] = 0
    BY <1>6, <2>1 DEF TripInv, OneSlotPerPair
  <2>4. Opposite(e) \in Directions /\ Opposite(Opposite(e)) = e
    BY RateType
  <2>5. CASE e = d
    BY <1>3, <1>9, <2>2, <2>5
  <2>6. CASE e = o
    BY <1>3, <1>9, <2>2, <2>6
  <2>7. CASE e # d /\ e # o
    <3>1. Opposite(e) # d /\ Opposite(e) # o
      BY <1>3, <2>4, <2>7
    <3> QED
      BY <1>9, <2>3, <2>4, <2>7, <3>1
  <2> QED
    BY <2>5, <2>6, <2>7
<1>14. DOMAIN doc' = Documents /\ \A e \in Documents : RowOK(doc'[e])
  BY <1>5 DEF TripInv
<1> QED
  BY <1>6, <1>11, <1>12, <1>13, <1>14 DEF TripInv

\* The rates that finalization writes again are those it read, unless it raced.
LEMMA LockAllStep ==
  ASSUME TripInv, NEW r \in Requests, LockAll(r)
  PROVE  TripInv'
<1>1. PICK p : p = req[r] /\ RequestOK(p) /\ p.pc = "lock"
  BY DEF TripInv, LockAll, At
<1>2. PICK seen \in [Directions -> Rates \cup {0}] : seen = p.listed
  BY <1>1 DEF RequestOK, Carries
<1>3. PICK pinned :
        pinned = {d \in Directions : seen[d] > 0 /\ (seen[Opposite(d)] > 0 => Sorted(d))}
  OBVIOUS
<1>4. /\ rate' = [d \in Directions |-> IF d \in pinned THEN seen[d] ELSE rate[d]]
      /\ Answered(r, "rates", {}) /\ UNCHANGED <<trip, doc>>
  BY <1>1, <1>2, <1>3 DEF LockAll
<1>5. /\ DOMAIN req' = Requests /\ \A s \in Requests : RequestOK(req[s])'
      /\ raced' \subseteq {"documents", "rates"}
      /\ "rates" \notin raced' => p.calm /\ raced' = raced
      /\ "documents" \notin raced' => "documents" \notin raced
  BY <1>1, <1>4, AnsweredRates
<1>6. rate \in [Directions -> Rates \cup {0}]
  BY DEF TripInv, TripOK
<1>7. rate' \in [Directions -> Rates \cup {0}]
  BY <1>2, <1>4, <1>6
<1>8. TripOK'
  BY <1>4, <1>5, <1>7 DEF TripInv, TripOK
<1>9. OneBaseCurrency'
  <2>1. LiveExpenses' = LiveExpenses
    BY <1>4 DEF LiveExpenses, Live
  <2> QED
    BY <1>4, <1>5, <2>1 DEF TripInv, OneBaseCurrency
<1>10. OneSlotPerPair'
  <2>1. SUFFICES ASSUME "rates" \notin raced'
                 PROVE  \A d \in Directions : rate'[d] = 0 \/ rate'[Opposite(d)] = 0
    BY DEF OneSlotPerPair
  <2>2. seen = rate
    BY <1>1, <1>2, <1>5, <2>1 DEF RequestOK, StillSo
  <2>3. rate' = rate
    BY <1>4, <1>6, <2>2
  <2> QED
    BY <1>5, <2>1, <2>3 DEF TripInv, OneSlotPerPair
<1>11. DOMAIN doc' = Documents /\ \A e \in Documents : RowOK(doc'[e])
  BY <1>4 DEF TripInv
<1> QED
  BY <1>5, <1>8, <1>9, <1>10, <1>11 DEF TripInv

LEMMA DeleteRateStep ==
  ASSUME TripInv, NEW d \in Directions, DeleteRate(d)
  PROVE  TripInv'
<1>1. /\ rate' = [rate EXCEPT ![d] = 0]
      /\ req' = [r \in Requests |-> Disturbed(req[r], "rates", {})]
      /\ UNCHANGED <<trip, doc, raced>>
  BY DEF DeleteRate
<1>2. rate \in [Directions -> Rates \cup {0}]
  BY DEF TripInv, TripOK
<1>3. ASSUME NEW s \in Requests
      PROVE  RequestOK(req[s])'
  <2>1. PICK w : w = req'[s]
    OBVIOUS
  <2>2. PICK p : p = req[s] /\ RequestOK(p)
    BY DEF TripInv
  <2>3. w = Disturbed(p, "rates", {})
    BY <1>1, <2>1, <2>2
  <2>4. RequestOK(w)'
    BY <1>1, <2>2, <2>3, DisturbedByRates
  <2> QED
    BY <2>1, <2>4
<1>4. TripOK'
  BY <1>1, <1>2 DEF TripInv, TripOK
<1>5. OneBaseCurrency'
  <2>1. LiveExpenses' = LiveExpenses
    BY <1>1 DEF LiveExpenses, Live
  <2> QED
    BY <1>1, <2>1 DEF TripInv, OneBaseCurrency
<1>6. OneSlotPerPair'
  <2>1. \A e \in Directions : rate'[e] = IF e = d THEN 0 ELSE rate[e]
    BY <1>1, <1>2
  <2> QED
    BY <1>1, <2>1, RateType DEF TripInv, OneSlotPerPair
<1>7. DOMAIN doc' = Documents /\ \A e \in Documents : RowOK(doc'[e])
  BY <1>1 DEF TripInv
<1>8. DOMAIN req' = Requests
  BY <1>1
<1> QED
  BY <1>3, <1>4, <1>5, <1>6, <1>7, <1>8 DEF TripInv

LEMMA DeleteDocumentStep ==
  ASSUME TripInv, NEW d \in Documents, DeleteDocument(d)
  PROVE  TripInv'
<1>1. PICK row : row = [NoDocument EXCEPT !.life = "deleted"]
  OBVIOUS
<1>2. /\ doc' = [doc EXCEPT ![d] = row]
      /\ req' = [r \in Requests |-> Disturbed(req[r], "documents", {})]
      /\ UNCHANGED <<trip, rate, raced>>
  BY <1>1 DEF DeleteDocument
<1>3. RowOK(row) /\ row.life # "live"
  BY <1>1, EmptyRow
<1>4. DOMAIN doc = Documents /\ \A e \in Documents : RowOK(doc[e])
  BY DEF TripInv
<1>5. \A e \in Documents : doc'[e] = IF e = d THEN row ELSE doc[e]
  BY <1>2, <1>4
<1>6. DOMAIN doc' = Documents /\ \A e \in Documents : RowOK(doc'[e])
  BY <1>2, <1>3, <1>4, <1>5
<1>7. ASSUME NEW s \in Requests
      PROVE  RequestOK(req[s])'
  <2>1. PICK w : w = req'[s]
    OBVIOUS
  <2>2. PICK p : p = req[s] /\ RequestOK(p)
    BY DEF TripInv
  <2>3. w = Disturbed(p, "documents", {})
    BY <1>2, <2>1, <2>2
  <2>4. RequestOK(w)'
    BY <1>2, <1>3, <1>5, <2>2, <2>3, DisturbedByDocuments
  <2> QED
    BY <2>1, <2>4
<1>8. TripOK'
  BY <1>2 DEF TripInv, TripOK
<1>9. OneSlotPerPair'
  BY <1>2 DEF TripInv, OneSlotPerPair
<1>10. OneBaseCurrency'
  <2>1. \A e \in LiveExpenses' : e \in LiveExpenses /\ doc'[e] = doc[e]
    BY <1>3, <1>5 DEF LiveExpenses, Live
  <2> QED
    BY <1>2, <2>1 DEF TripInv, OneBaseCurrency
<1>11. DOMAIN req' = Requests
  BY <1>2
<1> QED
  BY <1>6, <1>7, <1>8, <1>9, <1>10, <1>11 DEF TripInv

\* The duplicate window closes: fewer rows are alike, nothing else depends on it.
LEMMA WindowClosesStep ==
  ASSUME TripInv, NEW d \in Documents, WindowCloses(d)
  PROVE  TripInv'
<1>1. PICK was : was = doc[d] /\ RowOK(was)
  BY DEF TripInv
<1>2. PICK row : row = [was EXCEPT !.recent = FALSE]
  OBVIOUS
<1>3. doc' = [doc EXCEPT ![d] = row] /\ UNCHANGED <<trip, rate, req, raced>>
  BY <1>1, <1>2 DEF WindowCloses
<1>4. /\ DOMAIN row = DOMAIN was /\ row.life = was.life /\ row.kind = was.kind
      /\ row.title = was.title /\ row.amount = was.amount /\ row.currency = was.currency
      /\ row.payers = was.payers /\ row.splits = was.splits /\ row.weights = was.weights
      /\ row.day = was.day /\ row.charged = was.charged /\ row.chargedIn = was.chargedIn /\ row.base = was.base
      /\ row.author = was.author /\ row.recent = FALSE /\ row.version = was.version
  BY <1>1, <1>2 DEF RowOK, IsDocument
<1>5. RowOK(row)
  <2>1. row.recent \in BOOLEAN
    <3>1. FALSE \in BOOLEAN
      OBVIOUS
    <3> QED
      BY <1>4, <3>1, Zenon
  <2>2. IsDocument(row)
    BY <1>1, <1>4, <2>1 DEF RowOK, IsDocument
  <2> QED
    BY <1>1, <1>4, <2>2 DEF RowOK, Exact
<1>6. DOMAIN doc = Documents /\ \A e \in Documents : RowOK(doc[e])
  BY DEF TripInv
<1>7. \A e \in Documents : doc'[e] = IF e = d THEN row ELSE doc[e]
  BY <1>3, <1>6
<1>8. DOMAIN doc' = Documents /\ \A e \in Documents : RowOK(doc'[e])
  BY <1>3, <1>5, <1>6, <1>7
<1>9. LiveExpenses' = LiveExpenses
  BY <1>1, <1>4, <1>7 DEF LiveExpenses, Live
<1>10. ASSUME NEW e \in Live', NEW b, NEW a, Alike(doc'[e], b, a)
       PROVE  e \in Live /\ Alike(doc[e], b, a)
  <2>1. CASE e = d
    <3>1. doc'[e].recent = FALSE
      BY <1>4, <1>7, <2>1 DEF Live
    <3> QED
      BY <1>10, <3>1 DEF Alike, SamePurchase
  <2>2. CASE e # d
    BY <1>7, <1>10, <2>2 DEF Live
  <2> QED
    BY <2>1, <2>2
<1>11. ASSUME NEW s \in Requests
       PROVE  RequestOK(req[s])'
  <2>1. PICK p : p = req[s] /\ RequestOK(p)
    BY DEF TripInv
  <2>2. Carries(p)'
    BY <2>1 DEF RequestOK, Carries, Payable
  <2>3. Charged(p)'
    BY <1>3, <2>1 DEF RequestOK, Charged
  <2>4. ASSUME p.calm
        PROVE  StillSo(p)'
    <3>1. StillSo(p)
      BY <2>1, <2>4 DEF RequestOK
    <3> QED
      BY <1>3, <1>9, <3>1 DEF StillSo
  <2>6. Compared(p)'
    <3>1. SUFFICES ASSUME p.tool, p.pc = "create", p.bill.kind # "settlement",
                          NEW e \in Live' \ p.unseen, Alike(doc'[e], p.bill, p.author)
                   PROVE  FALSE
      BY DEF Compared, Alike, SamePurchase
    <3>2. e \in Live \ p.unseen /\ Alike(doc[e], p.bill, p.author)
      BY <1>10, <3>1
    <3> QED
      BY <2>1, <3>1, <3>2 DEF RequestOK, Compared
  <2>5. RequestOK(p)'
    BY <2>1, <2>2, <2>3, <2>4, <2>6 DEF RequestOK
  <2> QED
    BY <1>3, <2>1, <2>5
<1>12. TripOK' /\ DOMAIN req' = Requests
  BY <1>3 DEF TripInv, TripOK
<1>13. OneSlotPerPair'
  BY <1>3 DEF TripInv, OneSlotPerPair
<1>14. OneBaseCurrency'
  <2>1. \A e \in Documents : doc'[e].base = doc[e].base /\ doc'[e].chargedIn = doc[e].chargedIn
                             /\ doc'[e].currency = doc[e].currency
    BY <1>1, <1>4, <1>7
  <2> QED
    BY <1>3, <1>9, <2>1 DEF TripInv, OneBaseCurrency, LiveExpenses, Live
<1> QED
  BY <1>8, <1>11, <1>12, <1>13, <1>14 DEF TripInv

---------------------------------------------------------------------------------
(* The theorems.                                                           *)

LEMMA InitInv == Init => TripInv
<1> SUFFICES ASSUME Init
             PROVE  TripInv
  OBVIOUS
<1>1. 1 \in 1 .. MaxVersion
  BY VersionType
<1>2. trip \in [base : Currencies, version : 1 .. MaxVersion]
  BY <1>1 DEF Init
<1>3. TripOK
  BY <1>2 DEF Init, TripOK
<1>4. DOMAIN doc = Documents /\ \A d \in Documents : doc[d] = NoDocument
  BY DEF Init
<1>5. \A d \in Documents : RowOK(doc[d]) /\ doc[d].life # "live"
  BY <1>4, EmptyRow
<1>6. DOMAIN req = Requests /\ \A r \in Requests : RequestOK(req[r])
  BY IdleOK DEF Init
<1>7. OneSlotPerPair
  BY DEF Init, OneSlotPerPair
<1>8. OneBaseCurrency
  BY <1>5 DEF OneBaseCurrency, LiveExpenses, Live
<1> QED
  BY <1>3, <1>4, <1>5, <1>6, <1>7, <1>8 DEF TripInv

LEMMA StutterStep ==
  ASSUME TripInv, UNCHANGED vars
  PROVE  TripInv'
<1>1. UNCHANGED <<trip, rate, doc, raced>> /\ req' = req
  BY DEF vars
<1>2. ASSUME NEW s \in Requests
      PROVE  RequestOK(req[s])'
  <2>1. PICK p : p = req[s] /\ RequestOK(p)
    BY DEF TripInv
  <2>2. RequestOK(p)'
    BY <1>1, <2>1, SameRequestOK
  <2> QED
    BY <1>1, <2>1, <2>2
<1>3. TripOK' /\ DOMAIN doc' = Documents /\ \A d \in Documents : RowOK(doc'[d])
  BY <1>1 DEF TripInv, TripOK
<1>4. LiveExpenses' = LiveExpenses
  BY <1>1 DEF LiveExpenses, Live
<1>5. OneSlotPerPair' /\ OneBaseCurrency'
  BY <1>1, <1>4 DEF TripInv, OneSlotPerPair, OneBaseCurrency
<1>6. DOMAIN req' = Requests
  BY <1>1 DEF TripInv
<1> QED
  BY <1>2, <1>3, <1>5, <1>6 DEF TripInv

LEMMA RequestStep ==
  ASSUME TripInv, NEW r \in Requests,
         \/ \E a \in Authors, b \in Bills :
              \/ BeginCreate(r, a, b) \/ BeginRecord(r, a, b)
              \/ CreateBillExpense(r, a, b) \/ AddExpense(r, a, b) \/ RecordSettlement(r, a, b)
         \/ \E d \in Documents, b \in Bills, c \in {"set", "clear", "keep"} :
              BeginEdit(r, d, b, c)
         \/ CreateDocument(r) \/ UpdateExpense(r)
         \/ \E c \in Currencies : BeginSettings(r, c)
         \/ CountExpenses(r) \/ SaveSettings(r)
         \/ \E d \in Directions, v \in Rates : BeginRate(r, d, v)
         \/ \E c \in Currencies, v \in Rates : SetExchangeRate(r, c, v)
         \/ DeleteReverse(r) \/ UpsertRate(r) \/ BeginLock(r) \/ LockAll(r)
         \/ CurrencyFor(r) \/ RecentDuplicate(r) \/ LookupFails(r)
         \/ Fail(r)
  PROVE  TripInv'
<1>1. CASE \E a \in Authors, b \in Bills : BeginCreate(r, a, b)
  BY <1>1, BeginCreateStep
<1>2. CASE \E a \in Authors, b \in Bills : BeginRecord(r, a, b)
  BY <1>2, BeginRecordStep
<1>3. CASE \E a \in Authors, b \in Bills :
             CreateBillExpense(r, a, b) \/ AddExpense(r, a, b) \/ RecordSettlement(r, a, b)
  BY <1>3, ToolStep
<1>4. CASE \E d \in Documents, b \in Bills, c \in {"set", "clear", "keep"} : BeginEdit(r, d, b, c)
  BY <1>4, BeginEditStep
<1>5. CASE CreateDocument(r) \/ UpdateExpense(r)
  BY <1>5, CreateDocumentStep, UpdateExpenseStep
<1>6. CASE \E c \in Currencies : BeginSettings(r, c)
  BY <1>6, BeginSettingsStep
<1>7. CASE CountExpenses(r) \/ SaveSettings(r)
  BY <1>7, CountExpensesStep, SaveSettingsStep
<1>8. CASE \E d \in Directions, v \in Rates : BeginRate(r, d, v)
  BY <1>8, BeginRateStep
<1>9. CASE \E c \in Currencies, v \in Rates : SetExchangeRate(r, c, v)
  BY <1>9, SetExchangeRateStep
<1>10. CASE DeleteReverse(r) \/ UpsertRate(r) \/ BeginLock(r) \/ LockAll(r)
  BY <1>10, DeleteReverseStep, UpsertRateStep, BeginLockStep, LockAllStep
<1>11. CASE CurrencyFor(r) \/ RecentDuplicate(r) \/ LookupFails(r) \/ Fail(r)
  BY <1>11, CurrencyForStep, RecentDuplicateStep, LookupFailsStep, FailStep
<1> QED
  BY <1>1, <1>2, <1>3, <1>4, <1>5, <1>6, <1>7, <1>8, <1>9, <1>10, <1>11

LEMMA StepInv ==
  ASSUME TripInv, [Next]_vars
  PROVE  TripInv'
<1>1. CASE \E d \in Documents : DeleteDocument(d) \/ WindowCloses(d)
  BY <1>1, DeleteDocumentStep, WindowClosesStep
<1>2. CASE \E d \in Directions : DeleteRate(d)
  BY <1>2, DeleteRateStep
<1>3. CASE UNCHANGED vars
  BY <1>3, StutterStep
<1> QED
  BY <1>1, <1>2, <1>3, RequestStep DEF Next

\* The inductive invariant: every row has its type and a fair split, every request carries
\* what its next statement needs, what a calm request has read is still so, and a tool about
\* to create has seen nothing like its expense among the rows nobody has written since.
THEOREM InductiveInvariant == Spec => []TripInv
<1>1. TripInv /\ [Next]_vars => TripInv'
  BY StepInv
<1> QED
  BY <1>1, InitInv, PTL DEF Spec

\* The rows of a trip's money and the requests in progress have their types; no amount,
\* share or weight is below zero (the entities of domain/expense, settlement, fx and trip).
THEOREM TypeCorrect == Spec => []TTypeOK
<1>1. TripInv => TTypeOK
  BY DEF TripInv, TripOK, RowOK, RequestOK, TTypeOK
<1> QED
  BY <1>1, InductiveInvariant, PTL

\* Every recorded expense is split to the minor unit, and in proportion, whatever its kind,
\* amount and weights (money.SplitProportional, CalculateSplits).
THEOREM EverySplitIsExact == Spec => []SplitsAreExact
<1>1. TripInv => SplitsAreExact
  BY DEF TripInv, RowOK, SplitsAreExact, LiveExpenses, Live
<1> QED
  BY <1>1, InductiveInvariant, PTL

\* The two directions of a currency pair never both have a rate, unless requests that set
\* it overlapped (fx/service.go).
THEOREM PairsAreOneSlot == Spec => []OneSlotPerPair
<1>1. TripInv => OneSlotPerPair
  BY DEF TripInv
<1> QED
  BY <1>1, InductiveInvariant, PTL

\* Every expense is under the trip's base currency, and its charged amount too, unless
\* writes overlapped (trip/service.go, expense/service.go).
THEOREM BaseCurrencyKept == Spec => []OneBaseCurrency
<1>1. TripInv => OneBaseCurrency
  BY DEF TripInv
<1> QED
  BY <1>1, InductiveInvariant, PTL

\* A tool creates no expense like a recent one that it could know of: unless the lookup
\* failed, or more of the day's expenses are recent than it reads, that is every one which
\* no other request has written since (recentDuplicate, mcp/tools.go).
THEOREM RetriesRecordOnce == Spec => RetryRecordsOnce
<1>1. ASSUME TripInv, NEW r \in Requests, NEW d \in Documents, CreatesThroughTool(r, d)
      PROVE  \A e \in Live \ req[r].unseen : ~Alike(doc[e], req[r].bill, req[r].author)
  <2>1. Compared(req[r])
    BY <1>1 DEF TripInv, RequestOK
  <2> QED
    BY <1>1, <2>1 DEF CreatesThroughTool, At, Compared
<1>2. TripInv => \A r \in Requests, d \in Documents :
                   CreatesThroughTool(r, d) =>
                     \A e \in Live \ req[r].unseen : ~Alike(doc[e], req[r].bill, req[r].author)
  BY <1>1
<1> QED
  BY <1>2, InductiveInvariant, PTL DEF RetryRecordsOnce
---------------------------------------------------------------------------------
(* The payments that settle the balances.                                  *)

LEMMA PeopleType ==
  /\ IsFiniteSet(People) /\ People \subseteq Nat /\ Epsilon \in Nat \ {0}
  /\ Cardinality(People) \in Nat
<1>1. IsFiniteSet(People) /\ People \subseteq Nat /\ Epsilon \in Nat \ {0}
  BY MoneyAssumption
<1> QED
  BY <1>1, FS_CardinalityType

Active(net) == Debtors(net) \cup Creditors(net)

LEMMA ActiveIs ==
  ASSUME NEW net
  PROVE  /\ IsFiniteSet(Active(net)) /\ Cardinality(Active(net)) \in Nat
         /\ Cardinality(Active(net)) <= Cardinality(People)
<1>1. Active(net) \subseteq People
  BY DEF Active, Debtors, Creditors
<1>2. IsFiniteSet(People)
  BY PeopleType
<1> QED
  BY <1>1, <1>2, FS_Subset, FS_CardinalityType

LEMMA LargestIs ==
  ASSUME NEW net \in [People -> Int], NEW S \in SUBSET People, S # {}
  PROVE  Largest(net, S) \in S
<1>1. PICK key : key = [p \in People |-> Abs(net[p])]
  OBVIOUS
<1>2. IsFiniteSet(S)
  BY PeopleType, FS_Subset
<1>3. S \in SUBSET Int
  BY PeopleType
<1>4. \A x \in S : key[x] \in Int
  BY <1>1 DEF Abs
<1>5. \E p \in S : \A q \in S : key[p] > key[q] \/ (key[p] = key[q] /\ p <= q)
  BY <1>2, <1>3, <1>4, FirstByKey
<1>6. \E p \in S : \A q \in S :
        Abs(net[p]) > Abs(net[q]) \/ (Abs(net[p]) = Abs(net[q]) /\ p <= q)
  BY <1>1, <1>5
<1> QED
  BY <1>6 DEF Largest

LEMMA LeastOfTwo ==
  ASSUME NEW a \in Int, NEW b \in Int
  PROVE  Least({a, b}) \in {a, b} /\ Least({a, b}) <= a /\ Least({a, b}) <= b
<1>1. \E m \in {a, b} : \A v \in {a, b} : m <= v
  <2>1. CASE a <= b
    BY <2>1
  <2>2. CASE b <= a
    BY <2>2
  <2> QED
    BY <2>1, <2>2
<1>2. PICK m : m = Least({a, b})
  OBVIOUS
<1>3. m \in {a, b} /\ \A v \in {a, b} : m <= v
  BY <1>1, <1>2 DEF Least
<1> QED
  BY <1>2, <1>3

\* What a payment leaves of two balances: neither changes sides, and one is settled.
LEMMA PaymentLeaves ==
  ASSUME NEW debt \in Int, NEW credit \in Int, debt < 0, ~IsZero(debt), credit > 0, ~IsZero(credit),
         NEW amount, amount = Least({Abs(debt), credit})
  PROVE  /\ amount \in Nat /\ amount >= Epsilon
         /\ debt + amount \in debt .. 0 /\ credit - amount \in 0 .. credit
         /\ debt + amount = 0 \/ credit - amount = 0
<1>1. Abs(debt) = -debt /\ Abs(credit) = credit /\ -debt \in Int
  BY DEF Abs
<1>2. -debt >= Epsilon /\ credit >= Epsilon
  BY <1>1, PeopleType DEF IsZero
<1>3. amount \in {-debt, credit} /\ amount <= -debt /\ amount <= credit
  BY <1>1, LeastOfTwo
<1> QED
  BY <1>2, <1>3, PeopleType

Payment == [from : People, to : People, amount : Nat]

\* What is kept on the way from the balances net.
Progress(net, state) ==
  /\ state.net \in [People -> Int]
  /\ \A p \in People : IF net[p] < 0 THEN state.net[p] \in net[p] .. 0
                                     ELSE state.net[p] \in 0 .. net[p]
  /\ state.plan \in Seq(Payment)
  /\ \A i \in DOMAIN state.plan : state.plan[i].amount >= Epsilon
  /\ Len(state.plan) + Cardinality(Active(state.net)) <= Cardinality(Active(net))
  /\ state.plan # <<>> => Len(state.plan) < Cardinality(Active(net))

Stops(state) == Debtors(state.net) = {} \/ Creditors(state.net) = {}

LEMMA PairedStep ==
  ASSUME NEW net \in [People -> Int], NEW state, Progress(net, state), ~Stops(state)
  PROVE  Progress(net, Paired(state)) /\ Len(Paired(state).plan) = Len(state.plan) + 1
<1>1. PICK b \in [People -> Int] : b = state.net
  BY DEF Progress
<1>2. PICK plan \in Seq(Payment) : plan = state.plan
  BY DEF Progress
<1>3. PICK from : from = Largest(b, Debtors(b))
  OBVIOUS
<1>4. PICK to : to = Largest(b, Creditors(b))
  OBVIOUS
<1>5. from \in Debtors(b) /\ to \in Creditors(b)
  <2>1. Debtors(b) \in SUBSET People /\ Creditors(b) \in SUBSET People
    BY DEF Debtors, Creditors
  <2>2. Debtors(b) # {} /\ Creditors(b) # {}
    BY <1>1 DEF Stops
  <2> QED
    BY <1>3, <1>4, <2>1, <2>2, LargestIs
<1>6. /\ from \in People /\ to \in People /\ from # to
      /\ b[from] < 0 /\ ~IsZero(b[from]) /\ b[to] > 0 /\ ~IsZero(b[to])
      /\ b[from] \in Int /\ b[to] \in Int
  BY <1>5 DEF Debtors, Creditors
<1>7. PICK amount : amount = Least({Abs(b[from]), b[to]})
  OBVIOUS
<1>8. /\ amount \in Nat /\ amount >= Epsilon
      /\ b[from] + amount \in b[from] .. 0 /\ b[to] - amount \in 0 .. b[to]
      /\ b[from] + amount = 0 \/ b[to] - amount = 0
  BY <1>6, <1>7, PaymentLeaves
<1>9. PICK after : after = [b EXCEPT ![from] = @ + amount, ![to] = @ - amount]
  OBVIOUS
<1>10. PICK pay : pay = [from |-> from, to |-> to, amount |-> amount]
  OBVIOUS
<1>11. Paired(state) = [net |-> after, plan |-> Append(plan, pay)]
  BY <1>1, <1>2, <1>3, <1>4, <1>7, <1>9, <1>10 DEF Paired
<1>12. \A p \in People : after[p] = IF p = from THEN b[from] + amount
                                    ELSE IF p = to THEN b[to] - amount ELSE b[p]
  BY <1>6, <1>9
<1>13. after \in [People -> Int]
  BY <1>6, <1>8, <1>9
<1>14. \A p \in People : IF net[p] < 0 THEN after[p] \in net[p] .. 0 ELSE after[p] \in 0 .. net[p]
  <2>1. SUFFICES ASSUME NEW p \in People
                 PROVE  IF net[p] < 0 THEN after[p] \in net[p] .. 0 ELSE after[p] \in 0 .. net[p]
    OBVIOUS
  <2>2. IF net[p] < 0 THEN b[p] \in net[p] .. 0 ELSE b[p] \in 0 .. net[p]
    BY <1>1 DEF Progress
  <2>3. net[p] \in Int /\ b[p] \in Int /\ after[p] \in Int
    BY <1>13
  <2>4. CASE p = from
    BY <1>6, <1>8, <1>12, <2>2, <2>3, <2>4
  <2>5. CASE p = to
    BY <1>6, <1>8, <1>12, <2>2, <2>3, <2>5
  <2>6. CASE p # from /\ p # to
    BY <1>12, <2>2, <2>6
  <2> QED
    BY <2>4, <2>5, <2>6
<1>15. pay \in Payment /\ pay.amount = amount
  BY <1>6, <1>8, <1>10 DEF Payment
<1>16. PICK more : more = Append(plan, pay)
  OBVIOUS
<1>17. /\ more \in Seq(Payment) /\ Len(more) = Len(plan) + 1 /\ more # <<>>
       /\ \A i \in DOMAIN more : more[i] = IF i = Len(plan) + 1 THEN pay ELSE plan[i]
       /\ \A i \in DOMAIN more : i # Len(plan) + 1 => i \in DOMAIN plan
  BY <1>15, <1>16
<1>18. \A i \in DOMAIN more : more[i].amount >= Epsilon
  BY <1>2, <1>8, <1>15, <1>17 DEF Progress
<1>19. \E p \in Active(b) : Active(after) \subseteq Active(b) \ {p}
  <2>1. ASSUME NEW p \in Active(after)
        PROVE  p \in Active(b) /\ after[p] # 0
    <3>1. p \in People /\ ~IsZero(after[p])
      BY <2>1 DEF Active, Debtors, Creditors
    <3>2. after[p] # 0
      BY <3>1, PeopleType DEF IsZero, Abs
    <3>3. CASE p = from \/ p = to
      BY <1>5, <3>2, <3>3 DEF Active
    <3>4. CASE p # from /\ p # to
      <4>1. after[p] = b[p]
        BY <1>12, <3>1, <3>4
      <4> QED
        BY <2>1, <3>1, <3>2, <4>1 DEF Active, Debtors, Creditors
    <3> QED
      BY <3>2, <3>3, <3>4
  <2>2. after[from] = 0 \/ after[to] = 0
    BY <1>6, <1>8, <1>12
  <2>3. from \in Active(b) /\ to \in Active(b)
    BY <1>5 DEF Active
  <2> QED
    BY <2>1, <2>2, <2>3
<1>20. Cardinality(Active(after)) <= Cardinality(Active(b)) - 1
  <2>1. PICK p \in Active(b) : Active(after) \subseteq Active(b) \ {p}
    BY <1>19
  <2>2. IsFiniteSet(Active(b)) /\ Cardinality(Active(b)) \in Nat
    BY ActiveIs
  <2>3. PICK rest : rest = Active(b) \ {p}
    OBVIOUS
  <2>4. IsFiniteSet(rest) /\ Cardinality(rest) = Cardinality(Active(b)) - 1
    BY <2>2, <2>3, FS_RemoveElement
  <2>5. Cardinality(Active(after)) <= Cardinality(rest)
    BY <2>1, <2>3, <2>4, FS_Subset
  <2> QED
    BY <2>4, <2>5
<1>21. Cardinality(Active(b)) >= 2
  <2>1. IsFiniteSet(Active(b)) /\ Cardinality(Active(b)) \in Nat
    BY ActiveIs
  <2>2. {from, to} \subseteq Active(b)
    BY <1>5 DEF Active
  <2>3. Cardinality({from, to}) <= Cardinality(Active(b))
    BY <2>1, <2>2, FS_Subset
  <2>4. PICK one : one = {from}
    OBVIOUS
  <2>5. IsFiniteSet(one) /\ Cardinality(one) = 1
    BY <2>4, FS_Singleton
  <2>6. Cardinality(one \cup {to}) = 2
    <3>1. to \notin one
      BY <1>6, <2>4
    <3>2. Cardinality(one \cup {to}) = Cardinality(one) + 1
      BY <2>5, <3>1, FS_AddElement
    <3> QED
      BY <2>5, <3>2
  <2>7. {from, to} = one \cup {to}
    BY <2>4
  <2> QED
    BY <2>1, <2>3, <2>6, <2>7
<1>22. Len(plan) + Cardinality(Active(b)) <= Cardinality(Active(net)) /\ Len(plan) \in Nat
  BY <1>1, <1>2 DEF Progress
<1>23. /\ Cardinality(Active(b)) \in Nat /\ Cardinality(Active(net)) \in Nat
       /\ Cardinality(Active(after)) \in Nat
  BY ActiveIs
<1>24. /\ Len(more) + Cardinality(Active(after)) <= Cardinality(Active(net))
       /\ Len(more) < Cardinality(Active(net))
  BY <1>17, <1>20, <1>21, <1>22, <1>23
<1>25. Paired(state).net = after /\ Paired(state).plan = more
  BY <1>11, <1>16
<1> QED
  BY <1>2, <1>13, <1>14, <1>17, <1>18, <1>24, <1>25 DEF Progress

\* run has the state after each round, up to the last one of D.
Rounds(run, net, D) ==
  run = [n \in D |-> IF n = 0 THEN [net |-> net, plan |-> <<>>]
                     ELSE IF Stops(run[n - 1]) THEN run[n - 1] ELSE Paired(run[n - 1])]

LEMMA RoundsExist ==
  ASSUME NEW net, NEW cap \in Nat
  PROVE  \E run : Rounds(run, net, 0 .. cap)
<1>1. PICK Good : Good = {n \in Nat : \E run : Rounds(run, net, 0 .. n)}
  OBVIOUS
<1>2. 0 \in Good
  <2>1. PICK run : run = [n \in 0 .. 0 |-> [net |-> net, plan |-> <<>>]]
    OBVIOUS
  <2>2. Rounds(run, net, 0 .. 0)
    BY <2>1 DEF Rounds
  <2> QED
    BY <1>1, <2>2
<1>3. ASSUME NEW m \in Nat, m \in Good
      PROVE  m + 1 \in Good
  <2>1. PICK run : Rounds(run, net, 0 .. m)
    BY <1>1, <1>3
  <2>2. PICK next : next = [n \in 0 .. (m + 1) |->
          IF n = 0 THEN [net |-> net, plan |-> <<>>]
          ELSE IF Stops(run[n - 1]) THEN run[n - 1] ELSE Paired(run[n - 1])]
    OBVIOUS
  <2>3. \A n \in 0 .. m : next[n] = run[n]
    BY <2>1, <2>2 DEF Rounds
  <2>4. \A n \in 0 .. (m + 1) : n # 0 => n - 1 \in 0 .. m
    OBVIOUS
  <2>5. Rounds(next, net, 0 .. (m + 1))
    BY <2>2, <2>3, <2>4 DEF Rounds
  <2> QED
    BY <1>1, <2>5
<1>4. cap \in Good
  BY <1>2, <1>3, NaturalInduction
<1> QED
  BY <1>1, <1>4

LEMMA OptimizeIs ==
  ASSUME NEW net, NEW cap \in Nat, cap = 2 * Cardinality(People)
  PROVE  \E run : Rounds(run, net, 0 .. cap) /\ Optimize(net) = run[cap]
<1>1. PICK run : run = CHOOSE f : Rounds(f, net, 0 .. cap)
  OBVIOUS
<1>2. Rounds(run, net, 0 .. cap)
  BY <1>1, RoundsExist
<1>3. Optimize(net) = run[cap]
  BY <1>1 DEF Optimize, Rounds, Stops
<1> QED
  BY <1>2, <1>3

\* Every round that does not stop adds a payment, and there are fewer payments than people
\* with a balance.
LEMMA OptimizeSettles ==
  ASSUME NEW net \in [People -> Int]
  PROVE  Settles(net, Optimize(net))
<1>1. PICK cap \in Nat : cap = 2 * Cardinality(People)
  BY PeopleType
<1>2. PICK run : Rounds(run, net, 0 .. cap) /\ Optimize(net) = run[cap]
  BY <1>1, OptimizeIs
<1>3. /\ run[0] = [net |-> net, plan |-> <<>>]
      /\ \A n \in 0 .. cap : n # 0 =>
           run[n] = IF Stops(run[n - 1]) THEN run[n - 1] ELSE Paired(run[n - 1])
  BY <1>2 DEF Rounds
<1>4. PICK Good : Good = {n \in Nat : n <= cap =>
        Progress(net, run[n]) /\ (Stops(run[n]) \/ Len(run[n].plan) = n)}
  OBVIOUS
<1>5. 0 \in Good
  <2>1. PICK first : first = [net |-> net, plan |-> <<>>]
    OBVIOUS
  <2>2. first.net = net /\ first.plan = <<>> /\ Len(first.plan) = 0
    BY <2>1
  <2>3. \A p \in People : IF net[p] < 0 THEN net[p] \in net[p] .. 0 ELSE net[p] \in 0 .. net[p]
    OBVIOUS
  <2>4. Progress(net, first)
    BY <2>2, <2>3, ActiveIs DEF Progress
  <2> QED
    BY <1>3, <1>4, <2>1, <2>2, <2>4
<1>6. ASSUME NEW m \in Nat, m \in Good
      PROVE  m + 1 \in Good
  <2>1. SUFFICES ASSUME m + 1 <= cap
                 PROVE  /\ Progress(net, run[m + 1])
                        /\ Stops(run[m + 1]) \/ Len(run[m + 1].plan) = m + 1
    BY <1>4
  <2>2. PICK state : state = run[m]
    OBVIOUS
  <2>3. Progress(net, state) /\ (Stops(state) \/ Len(state.plan) = m)
    BY <1>4, <1>6, <2>1, <2>2
  <2>4. run[m + 1] = IF Stops(state) THEN state ELSE Paired(state)
    BY <1>3, <2>1, <2>2
  <2>5. CASE Stops(state)
    BY <2>3, <2>4, <2>5
  <2>6. CASE ~Stops(state)
    <3>1. Progress(net, Paired(state)) /\ Len(Paired(state).plan) = Len(state.plan) + 1
      BY <2>3, <2>6, PairedStep
    <3> QED
      BY <2>3, <2>4, <2>6, <3>1
  <2> QED
    BY <2>5, <2>6
<1>7. cap \in Good
  BY <1>5, <1>6, NaturalInduction
<1>8. PICK last : last = Optimize(net)
  OBVIOUS
<1>9. Progress(net, last) /\ (Stops(last) \/ Len(last.plan) = cap)
  BY <1>2, <1>4, <1>7, <1>8
<1>10. /\ Cardinality(Active(net)) \in Nat /\ Cardinality(Active(last.net)) \in Nat
       /\ Cardinality(Active(net)) <= Cardinality(People) /\ Cardinality(People) \in Nat
  BY ActiveIs, PeopleType
<1>11. Len(last.plan) \in Nat /\ (last.plan = <<>> => Len(last.plan) = 0)
  BY <1>9 DEF Progress
<1>12. Stops(last)
  <2>1. SUFFICES ASSUME ~Stops(last) PROVE FALSE
    OBVIOUS
  <2>2. Len(last.plan) = cap
    BY <1>9, <2>1
  <2>3. Cardinality(Active(last.net)) # 0
    <3>1. Active(last.net) # {}
      BY <2>1 DEF Stops, Active
    <3> QED
      BY <3>1, ActiveIs, FS_EmptySet
  <2>4. Len(last.plan) + Cardinality(Active(last.net)) <= Cardinality(Active(net))
    BY <1>9 DEF Progress
  <2> QED
    BY <1>1, <1>10, <2>2, <2>3, <2>4
<1>13. Len(last.plan) <= Cardinality(Active(net))
  BY <1>9, <1>10, <1>11 DEF Progress
<1>14. Settles(net, last)
  BY <1>9, <1>12, <1>13 DEF Settles, Progress, Stops, Active
<1> QED
  BY <1>8, <1>14

LEMMA DivRoundType ==
  ASSUME NEW n \in Int, NEW d \in Nat \ {0}
  PROVE  DivRound(n, d) \in Int
<1>1. Abs(n) \in Nat
  BY DEF Abs
<1>2. PICK a \in Nat, b \in Nat \ {0} : a = 2 * Abs(n) + d /\ b = 2 * d
  BY <1>1
<1>3. a \div b \in Nat
  BY Quotient
<1> QED
  BY <1>2, <1>3 DEF DivRound

\* Amounts of a row whose currency has a rate have a value in the base currency.
LEMMA InBaseType ==
  ASSUME TripInv, NEW d \in Live, NEW amount \in Nat,
         HasOverride(doc[d], trip.base) \/ Convertible(rate, doc[d].currency, trip.base)
  PROVE  InBase(doc[d], trip.base, rate, amount) \in Int
<1>1. PICK row : row = doc[d] /\ IsDocument(row) /\ row.currency \in Currencies /\ row.amount > 0
  BY DEF TripInv, RowOK, Live
<1>2. row.amount \in Nat \ {0} /\ row.charged \in Nat
  BY <1>1 DEF IsDocument
<1>3. PICK base \in Currencies : base = trip.base
  BY TripType
<1>4. CASE HasOverride(row, base)
  <2>1. PICK n \in Nat : n = amount * row.charged
    BY <1>2, ProductType
  <2> QED
    BY <1>1, <1>2, <1>3, <1>4, <2>1, DivRoundType DEF InBase
<1>5. CASE ~HasOverride(row, base)
  <2>1. PICK from \in Currencies : from = row.currency
    BY <1>1
  <2>2. Convertible(rate, from, base)
    BY <1>1, <1>3, <1>5, <2>1
  <2>3. InBase(row, base, rate, amount) = Convert(rate, amount, from, base)
    BY <1>5, <2>1 DEF InBase
  <2>4. CASE from = base
    BY <1>1, <1>3, <2>3, <2>4 DEF Convert
  <2>5. CASE from # base
    <3>1. PICK there \in Nat, back \in Nat : there = rate[<<from, base>>] /\ back = rate[<<base, from>>]
      <4>1. <<from, base>> \in Directions /\ <<base, from>> \in Directions
        BY <2>5 DEF Directions
      <4>2. \A x \in Rates \cup {0} : x \in Nat
        BY TripMoneyAssumption
      <4>3. rate[<<from, base>>] \in Rates \cup {0} /\ rate[<<base, from>>] \in Rates \cup {0}
        BY <4>1 DEF TripInv, TripOK
      <4> QED
        BY <4>2, <4>3
    <3>2. there > 0 \/ back > 0
      BY <2>2, <2>5, <3>1 DEF Convertible
    <3>3. Convert(rate, amount, from, base)
            = IF there > 0 THEN amount * there ELSE DivRound(amount, back)
      BY <2>5, <3>1 DEF Convert
    <3>4. amount * there \in Nat
      BY ProductType
    <3>5. there = 0 => DivRound(amount, back) \in Int
      BY <3>2, DivRoundType
    <3> QED
      BY <1>1, <1>3, <2>3, <3>3, <3>4, <3>5
  <2> QED
    BY <2>4, <2>5
<1> QED
  BY <1>4, <1>5

LEMMA RatesKnownIs ==
  ASSUME RatesKnown(Recorded, trip.base, rate), NEW d \in Live
  PROVE  HasOverride(doc[d], trip.base) \/ Convertible(rate, doc[d].currency, trip.base)
<1>1. Recorded[d] = doc[d] /\ doc[d] \in Range(Recorded)
  BY DEF Recorded, Range
<1> QED
  BY <1>1 DEF RatesKnown

LEMMA ShareType ==
  ASSUME NEW f, IsShares(f), NEW p
  PROVE  At0(f, p) \in Nat
BY DEF IsShares, At0

LEMMA LiveFinite == IsFiniteSet(Live)
<1>1. IsFiniteSet(Documents)
  BY TripMoneyAssumption
<1> QED
  BY <1>1, FS_Subset DEF Live

LEMMA NetType ==
  ASSUME TripInv, RatesKnown(Recorded, trip.base, rate)
  PROVE  Net \in [People -> Int]
<1>1. ASSUME NEW p \in People
      PROVE  Paid(Recorded, trip.base, rate, p) \in Int /\ Owed(Recorded, trip.base, rate, p) \in Int
  <2>1. PICK paid : paid = [i \in DOMAIN Recorded |->
                              InBase(Recorded[i], trip.base, rate, At0(Recorded[i].payers, p))]
    OBVIOUS
  <2>2. PICK owed : owed = [i \in DOMAIN Recorded |->
                              InBase(Recorded[i], trip.base, rate, At0(Recorded[i].splits, p))]
    OBVIOUS
  <2>3. ASSUME NEW d \in Live
        PROVE  paid[d] \in Int /\ owed[d] \in Int
    <3>1. IsShares(doc[d].payers) /\ IsShares(doc[d].splits)
      BY DEF TripInv, RowOK, IsDocument, Live
    <3>2. At0(doc[d].payers, p) \in Nat /\ At0(doc[d].splits, p) \in Nat
      BY <3>1, ShareType
    <3>3. /\ InBase(doc[d], trip.base, rate, At0(doc[d].payers, p)) \in Int
          /\ InBase(doc[d], trip.base, rate, At0(doc[d].splits, p)) \in Int
      BY <3>2, RatesKnownIs, InBaseType
    <3> QED
      BY <2>1, <2>2, <3>3 DEF Recorded
  <2>4. DOMAIN paid = Live /\ DOMAIN owed = Live
    BY <2>1, <2>2 DEF Recorded
  <2>5. Sum(paid, Live) \in Int /\ Sum(owed, Live) \in Int
    BY <2>3, LiveFinite, SumInt
  <2>6. Total(paid) \in Int /\ Total(owed) \in Int
    BY <2>4, <2>5, TotalIs
  <2> QED
    BY <2>1, <2>2, <2>6 DEF Paid, Owed
<1> QED
  BY <1>1 DEF Net, NetBalances

\* The suggested payments settle the trip in fewer payments than people with a balance,
\* and nobody pays or receives more than the balance (balance/service.go, optimizeDebts).
THEOREM PaymentsSettle == Spec => []PlanSettles
<1>1. TripInv => PlanSettles
  BY NetType, OptimizeSettles DEF Viewed, PlanSettles
<1> QED
  BY <1>1, InductiveInvariant, PTL

---------------------------------------------------------------------------------
(* What conversion loses: an amount is within half a sub-unit of its value *)
(* at the rate, and a sum of amounts within half a sub-unit for each.      *)

\* v is within e halves of w / m.
Within(m, v, w, e) == 2 * (m * v) <= 2 * w + m * e /\ 2 * w <= 2 * (m * v) + m * e

LEMMA ProductCancel ==
  ASSUME NEW c \in Nat \ {0}, NEW a \in Int, NEW b \in Int, c * a <= c * b
  PROVE  a <= b
OBVIOUS

LEMMA DividesWithin ==
  ASSUME NEW n \in Nat, NEW d \in Nat \ {0}
  PROVE  DivRound(n, d) \in Nat /\ Within(d, DivRound(n, d), n, 1)
<1>1. PICK a \in Nat, b \in Nat \ {0} : a = 2 * n + d /\ b = 2 * d
  OBVIOUS
<1>2. PICK y \in Nat : y = a \div b
  BY Quotient
<1>3. DivRound(n, d) = y
  BY <1>1, <1>2 DEF DivRound, Abs
<1>4. PICK r \in 0 .. b - 1 : a = b * y + r
  BY <1>2, Quotient
<1>5. PICK z \in Nat : z = d * y
  BY ProductType
<1>6. b * y = 2 * z
  BY <1>1, <1>5
<1> QED
  BY <1>1, <1>3, <1>4, <1>5, <1>6 DEF Within

LEMMA DividesByOne ==
  ASSUME NEW n \in Nat
  PROVE  DivRound(n, 1) = n
<1>1. (2 * n + 1) \div 2 = n
  OBVIOUS
<1> QED
  BY <1>1 DEF DivRound, Abs

LEMMA WithinAdds ==
  ASSUME NEW m \in Nat, NEW v \in Int, NEW w \in Int, NEW e \in Int,
         NEW x \in Int, NEW y \in Int, NEW k \in Int, Within(m, v, w, e), Within(m, x, y, k)
  PROVE  Within(m, v + x, w + y, e + k)
<1>1. PICK mv \in Int, mx \in Int, me \in Int, mk \in Int :
        mv = m * v /\ mx = m * x /\ me = m * e /\ mk = m * k
  OBVIOUS
<1>2. m * (v + x) = mv + mx /\ m * (e + k) = me + mk
  BY <1>1, Distributes
<1> QED
  BY <1>1, <1>2 DEF Within

LEMMA WithinSums ==
  ASSUME NEW S, IsFiniteSet(S), NEW m \in Nat, NEW f, NEW g, NEW e,
         \A x \in S : f[x] \in Int /\ g[x] \in Int /\ e[x] \in Int /\ Within(m, f[x], g[x], e[x])
  PROVE  Within(m, Sum(f, S), Sum(g, S), Sum(e, S))
<1>1. PICK Good :
        Good = {T \in SUBSET S : Within(m, Sum(f, T), Sum(g, T), Sum(e, T))}
  OBVIOUS
<1>2. {} \in Good
  <2>1. Sum(f, {}) = 0 /\ Sum(g, {}) = 0 /\ Sum(e, {}) = 0
    BY SumEmpty
  <2>2. Within(m, 0, 0, 0)
    BY DEF Within
  <2> QED
    BY <1>1, <2>1, <2>2
<1>3. ASSUME NEW T \in SUBSET S, NEW x \in S, T \in Good, x \notin T
      PROVE  T \cup {x} \in Good
  <2>1. /\ Sum(f, T) \in Int /\ f[x] \in Int /\ Sum(f, T \cup {x}) = f[x] + Sum(f, T)
        /\ Sum(g, T) \in Int /\ g[x] \in Int /\ Sum(g, T \cup {x}) = g[x] + Sum(g, T)
        /\ Sum(e, T) \in Int /\ e[x] \in Int /\ Sum(e, T \cup {x}) = e[x] + Sum(e, T)
    BY <1>3, SumStep
  <2>2. Within(m, Sum(f, T), Sum(g, T), Sum(e, T)) /\ Within(m, f[x], g[x], e[x])
    BY <1>1, <1>3
  <2>3. Within(m, f[x] + Sum(f, T), g[x] + Sum(g, T), e[x] + Sum(e, T))
    BY <2>1, <2>2, WithinAdds
  <2> QED
    BY <1>1, <2>1, <2>3
<1>4. S \in Good
  BY <1>2, <1>3, SubsetInduction
<1> QED
  BY <1>1, <1>4

LEMMA WithinOneEach ==
  ASSUME NEW S, IsFiniteSet(S), NEW m \in Nat, NEW f, NEW g,
         \A x \in S : f[x] \in Int /\ g[x] \in Int /\ Within(m, f[x], g[x], 1)
  PROVE  Within(m, Sum(f, S), Sum(g, S), Cardinality(S))
<1>1. PICK e : e = [x \in S |-> 1]
  OBVIOUS
<1>2. \A x \in S : e[x] = 1 /\ e[x] \in Int
  BY <1>1
<1>3. Sum(e, S) = 1 * Cardinality(S) /\ Cardinality(S) \in Nat
  BY <1>2, SumConstant, FS_CardinalityType
<1>4. Within(m, Sum(f, S), Sum(g, S), Sum(e, S))
  BY <1>2, WithinSums
<1> QED
  BY <1>3, <1>4

LEMMA WithinBoth ==
  ASSUME NEW m \in Nat \ {0}, NEW v \in Int, NEW u \in Int, NEW w \in Int,
         NEW e \in Int, NEW k \in Int, Within(m, v, w, e), Within(m, u, w, k)
  PROVE  2 * v <= 2 * u + (e + k) /\ 2 * u <= 2 * v + (e + k)
<1>1. PICK mv \in Int, mu \in Int, me \in Int, mk \in Int :
        mv = m * v /\ mu = m * u /\ me = m * e /\ mk = m * k
  OBVIOUS
<1>2. /\ m * (2 * v) = 2 * mv /\ m * (2 * u) = 2 * mu /\ m * (e + k) = me + mk
  BY <1>1, Distributes
<1>3. /\ m * (2 * u + (e + k)) = 2 * mu + (me + mk)
      /\ m * (2 * v + (e + k)) = 2 * mv + (me + mk)
  BY <1>2, Distributes
<1>4. /\ m * (2 * v) <= m * (2 * u + (e + k))
      /\ m * (2 * u) <= m * (2 * v + (e + k))
  BY <1>1, <1>2, <1>3 DEF Within
<1> QED
  BY <1>4, ProductCancel

\* A rate divides a multiple: by one, or by the rate of the opposite direction.
LEMMA RateConverts ==
  ASSUME TripInv, NEW from \in Currencies, Convertible(rate, from, trip.base)
  PROVE  \E k \in Nat, m \in Nat \ {0} :
           \A a \in Nat : Convert(rate, a, from, trip.base) = DivRound(a * k, m)
<1>1. PICK base \in Currencies : base = trip.base
  BY TripType
<1>2. CASE from = base
  <2>1. \A a \in Nat : a * 1 \in Nat /\ a * 1 = a
    OBVIOUS
  <2>2. \A a \in Nat : Convert(rate, a, from, base) = DivRound(a * 1, 1)
    BY <1>2, <2>1, DividesByOne DEF Convert
  <2> QED
    BY <1>1, <2>2
<1>3. CASE from # base
  <2>1. PICK there \in Nat, back \in Nat : there = rate[<<from, base>>] /\ back = rate[<<base, from>>]
    <3>1. <<from, base>> \in Directions /\ <<base, from>> \in Directions
      BY <1>3 DEF Directions
    <3>2. \A x \in Rates \cup {0} : x \in Nat
      BY TripMoneyAssumption
    <3>3. rate[<<from, base>>] \in Rates \cup {0} /\ rate[<<base, from>>] \in Rates \cup {0}
      BY <3>1 DEF TripInv, TripOK
    <3> QED
      BY <3>2, <3>3
  <2>2. there > 0 \/ back > 0
    BY <1>1, <1>3, <2>1 DEF Convertible
  <2>3. \A a : Convert(rate, a, from, base)
                 = IF there > 0 THEN a * there ELSE DivRound(a, back)
    BY <1>3, <2>1 DEF Convert
  <2>4. CASE there > 0
    <3>1. \A a \in Nat : a * there \in Nat
      BY ProductType
    <3>2. \A a \in Nat : Convert(rate, a, from, base) = DivRound(a * there, 1)
      BY <2>3, <2>4, <3>1, DividesByOne
    <3> QED
      BY <1>1, <3>2
  <2>5. CASE there = 0
    <3>1. \A a \in Nat : a * 1 = a
      OBVIOUS
    <3>2. \A a \in Nat : Convert(rate, a, from, base) = DivRound(a * 1, back)
      BY <2>3, <2>5, <3>1
    <3> QED
      BY <1>1, <2>2, <2>5, <3>2
  <2> QED
    BY <2>4, <2>5
<1> QED
  BY <1>2, <1>3

\* Every conversion divides a multiple: by the amount recorded of what was charged, or by
\* the rate of the direction that has one.
LEMMA ConvertsBy ==
  ASSUME TripInv, NEW d \in Live,
         HasOverride(doc[d], trip.base) \/ Convertible(rate, doc[d].currency, trip.base)
  PROVE  \E k \in Nat, m \in Nat \ {0} :
           \A a \in Nat : InBase(doc[d], trip.base, rate, a) = DivRound(a * k, m)
<1>1. PICK row : row = doc[d] /\ IsDocument(row) /\ row.currency \in Currencies /\ row.amount > 0
  BY DEF TripInv, RowOK, Live
<1>2. row.amount \in Nat \ {0} /\ row.charged \in Nat
  BY <1>1 DEF IsDocument
<1>3. PICK base \in Currencies : base = trip.base
  BY TripType
<1>4. CASE HasOverride(row, base)
  <2>1. \A a : InBase(row, base, rate, a) = DivRound(a * row.charged, row.amount)
    BY <1>4 DEF InBase
  <2> QED
    BY <1>1, <1>2, <1>3, <2>1
<1>5. CASE ~HasOverride(row, base)
  <2>1. PICK from \in Currencies : from = row.currency
    BY <1>1
  <2>2. Convertible(rate, from, base)
    BY <1>1, <1>3, <1>5, <2>1
  <2>3. \A a : InBase(row, base, rate, a) = Convert(rate, a, from, base)
    BY <1>5, <2>1 DEF InBase
  <2>4. PICK k \in Nat, m \in Nat \ {0} :
          \A a \in Nat : Convert(rate, a, from, base) = DivRound(a * k, m)
    BY <2>2, RateConverts, <1>3
  <2> QED
    BY <1>1, <1>3, <2>3, <2>4
<1> QED
  BY <1>4, <1>5

LEMMA DividesZero ==
  ASSUME NEW m \in Nat \ {0}
  PROVE  DivRound(0, m) = 0
<1>1. PICK y \in Nat : y = DivRound(0, m) /\ Within(m, y, 0, 1)
  BY DividesWithin
<1>2. m * (2 * y) = 2 * (m * y)
  OBVIOUS
<1>3. m * (2 * y) <= m * 1
  BY <1>1, <1>2 DEF Within
<1>4. 2 * y <= 1
  BY <1>3, ProductCancel
<1> QED
  BY <1>1, <1>4

\* Sums differ by no more than what their terms differ by, taken together.
LEMMA SumsDiffer ==
  ASSUME NEW S, IsFiniteSet(S), NEW f, NEW g, NEW e,
         \A x \in S : f[x] \in Int /\ g[x] \in Int /\ e[x] \in Int /\ Abs(f[x] - g[x]) <= e[x]
  PROVE  Abs(Sum(f, S) - Sum(g, S)) <= Sum(e, S)
<1>1. PICK h, k : h = [x \in S |-> f[x] + e[x]] /\ k = [x \in S |-> g[x] + e[x]]
  OBVIOUS
<1>2. \A x \in S : h[x] = f[x] + e[x] /\ k[x] = g[x] + e[x]
  BY <1>1
<1>3. Sum(h, S) = Sum(f, S) + Sum(e, S)
  BY <1>2, SumPlus
<1>4. Sum(k, S) = Sum(g, S) + Sum(e, S)
  BY <1>2, SumPlus
<1>5. \A x \in S : f[x] \in Int /\ k[x] \in Int /\ f[x] <= k[x]
  BY <1>2 DEF Abs
<1>6. \A x \in S : g[x] \in Int /\ h[x] \in Int /\ g[x] <= h[x]
  BY <1>2 DEF Abs
<1>7. Sum(f, S) <= Sum(k, S)
  BY <1>5, SumMonotone
<1>8. Sum(g, S) <= Sum(h, S)
  BY <1>6, SumMonotone
<1>9. Sum(f, S) \in Int /\ Sum(g, S) \in Int /\ Sum(e, S) \in Int
  BY SumInt
<1> QED
  BY <1>3, <1>4, <1>7, <1>8, <1>9 DEF Abs

LEMMA SumsClose ==
  ASSUME NEW S, IsFiniteSet(S), NEW e \in Int, NEW f, NEW g,
         \A x \in S : f[x] \in Int /\ g[x] \in Int /\ Abs(f[x] - g[x]) <= e
  PROVE  Abs(Sum(f, S) - Sum(g, S)) <= e * Cardinality(S)
<1>1. PICK c : c = [x \in S |-> e]
  OBVIOUS
<1>2. \A x \in S : c[x] \in Int /\ c[x] = e /\ Abs(f[x] - g[x]) <= c[x]
  BY <1>1
<1>3. Sum(c, S) = e * Cardinality(S)
  BY <1>2, SumConstant
<1>4. Abs(Sum(f, S) - Sum(g, S)) <= Sum(c, S)
  BY <1>2, SumsDiffer
<1> QED
  BY <1>3, <1>4

---------------------------------------------------------------------------------
(* What the others owe a person, and the person owes them, of a document   *)
(* whose converted payments a and shares s nearly agree.                   *)

LEMMA DebtsAddUp ==
  ASSUME NEW a, NEW s, \A q \in People : a[q] \in Nat /\ s[q] \in Nat,
         NEW p \in People, NEW paid \in Nat \ {0}, paid = Sum(a, People),
         NEW owed \in Nat, owed = Sum(s, People),
         NEW gap \in Nat, Abs(owed - paid) <= gap,
         NEW x, \A q \in People \ {p} :
                  x[q] = DivRound(s[q] * a[p], paid) - DivRound(s[p] * a[q], paid)
  PROVE  Abs(Sum(x, People \ {p}) - (a[p] - s[p])) <= gap + (Cardinality(People) - 1)
<1>1. PICK O : O = People \ {p}
  OBVIOUS
<1>2. IsFiniteSet(People) /\ IsFiniteSet(O) /\ O \subseteq People
  BY <1>1, PeopleType, FS_Subset
<1>3. PICK n \in Nat : n = Cardinality(O) /\ n = Cardinality(People) - 1
  BY <1>1, <1>2, FS_RemoveElement, FS_CardinalityType
<1>4. PICK ap \in Nat, sp \in Nat : ap = a[p] /\ sp = s[p]
  OBVIOUS
<1>5. PICK had, out, dues, debts :
        /\ had = [q \in O |-> s[q] * ap] /\ out = [q \in O |-> sp * a[q]]
        /\ dues = [q \in O |-> DivRound(s[q] * ap, paid)]
        /\ debts = [q \in O |-> DivRound(sp * a[q], paid)]
  OBVIOUS
<1>6. \A q \in O : had[q] \in Nat /\ out[q] \in Nat
  BY <1>2, <1>5, ProductType
<1>7. \A q \in O : /\ dues[q] \in Int /\ had[q] \in Int /\ Within(paid, dues[q], had[q], 1)
                   /\ debts[q] \in Int /\ out[q] \in Int /\ Within(paid, debts[q], out[q], 1)
  <2> TAKE q \in O
  <2>1. dues[q] = DivRound(had[q], paid) /\ debts[q] = DivRound(out[q], paid)
    BY <1>5
  <2> QED
    BY <1>6, <2>1, DividesWithin
<1>8. Within(paid, Sum(dues, O), Sum(had, O), n) /\ Within(paid, Sum(debts, O), Sum(out, O), n)
  <2>1. Within(paid, Sum(dues, O), Sum(had, O), Cardinality(O))
    BY <1>2, <1>7, WithinOneEach
  <2>2. Within(paid, Sum(debts, O), Sum(out, O), Cardinality(O))
    BY <1>2, <1>7, WithinOneEach
  <2> QED
    BY <1>3, <2>1, <2>2
<1>9. PICK due \in Int, debt \in Int : due = Sum(dues, O) /\ debt = Sum(debts, O)
  BY <1>2, <1>7, SumInt
<1>10. Sum(x, O) = due - debt
  <2>1. \A q \in O : x[q] \in Int /\ debts[q] \in Int /\ dues[q] = x[q] + debts[q]
    <3> TAKE q \in O
    <3>1. x[q] = dues[q] - debts[q]
      BY <1>1, <1>4, <1>5
    <3> QED
      BY <1>7, <3>1
  <2>2. Sum(dues, O) = Sum(x, O) + Sum(debts, O) /\ Sum(x, O) \in Int
    BY <1>2, <2>1, SumPlus, SumInt
  <2> QED
    BY <1>9, <2>2
<1>11. paid = ap + Sum(a, O) /\ Sum(a, O) \in Nat
  <2>1. \A q \in People : a[q] \in Int
    OBVIOUS
  <2>2. \A q \in O : a[q] \in Nat
    BY <1>2
  <2> QED
    BY <1>1, <1>2, <1>4, <2>1, <2>2, SumPick, SumNat
<1>12. owed = sp + Sum(s, O) /\ Sum(s, O) \in Nat
  <2>1. \A q \in People : s[q] \in Int
    OBVIOUS
  <2>2. \A q \in O : s[q] \in Nat
    BY <1>2
  <2> QED
    BY <1>1, <1>2, <1>4, <2>1, <2>2, SumPick, SumNat
<1>13. Sum(had, O) = ap * Sum(s, O)
  <2>1. \A q \in O : s[q] \in Int /\ had[q] = ap * s[q]
    BY <1>2, <1>5
  <2>2. IsFiniteSet(O) /\ ap \in Int
    BY <1>2
  <2> QED
    BY ONLY <2>1, <2>2, SumScale
<1>14. Sum(out, O) = sp * Sum(a, O)
  <2>1. \A q \in O : a[q] \in Int /\ out[q] = sp * a[q]
    BY <1>2, <1>5
  <2>2. IsFiniteSet(O) /\ sp \in Int
    BY <1>2
  <2> QED
    BY ONLY <2>1, <2>2, SumScale
<1>15. PICK z \in Int, ar \in Int, at \in Int, st \in Int :
         z = ap * sp /\ ar = ap * owed /\ at = ap * paid /\ st = sp * paid
  OBVIOUS
<1>16. ap * Sum(s, O) = ar - z /\ sp * Sum(a, O) = st - z
  <2>1. ar = ap * sp + ap * Sum(s, O)
    BY <1>12, <1>15, Distributes
  <2>2. st = sp * ap + sp * Sum(a, O)
    BY <1>11, <1>15, Distributes
  <2>3. ap * Sum(s, O) \in Int /\ sp * Sum(a, O) \in Int
    BY <1>11, <1>12
  <2> QED
    BY <1>15, <2>1, <2>2, <2>3
<1>17. PICK pd \in Int, pb \in Int, pn \in Int, pg \in Int :
         pd = paid * due /\ pb = paid * debt /\ pn = paid * n /\ pg = paid * gap
  OBVIOUS
<1>18. /\ 2 * pd <= 2 * (ar - z) + pn /\ 2 * (ar - z) <= 2 * pd + pn
       /\ 2 * pb <= 2 * (st - z) + pn /\ 2 * (st - z) <= 2 * pb + pn
  BY <1>8, <1>9, <1>13, <1>14, <1>16, <1>17 DEF Within
<1>19. ar - at <= pg /\ at - ar <= pg
  <2>1. PICK ag \in Int : ag = ap * gap
    OBVIOUS
  <2>2. ap * gap <= paid * gap
    BY <1>11, ProductMonotone
  <2>3. owed <= paid + gap /\ paid <= owed + gap
    BY DEF Abs
  <2>4. ap * owed <= ap * (paid + gap) /\ ap * paid <= ap * (owed + gap)
    BY <2>3, ProductMonotone
  <2>5. ap * (paid + gap) = at + ag /\ ap * (owed + gap) = ar + ag
    BY <1>15, <2>1, Distributes
  <2> QED
    BY <1>15, <1>17, <2>1, <2>2, <2>4, <2>5
<1>20. PICK rest \in Int : rest = (due - debt) - (ap - sp)
  OBVIOUS
<1>21. paid * rest = (pd - pb) - (at - st) /\ paid * (gap + n) = pg + pn
       /\ paid * (-rest) = -((pd - pb) - (at - st))
  <2>1. PICK one \in Int, two \in Int : one = -debt /\ two = -ap
    OBVIOUS
  <2>2. paid * one = -pb /\ paid * two = -at
    BY <1>15, <1>17, <2>1
  <2>3. paid * (due + one) = pd + paid * one /\ paid * (two + sp) = paid * two + paid * sp
    BY <1>17, <2>1, Distributes
  <2>4. rest = (due + one) + (two + sp)
    BY <1>20, <2>1
  <2>5. paid * rest = paid * (due + one) + paid * (two + sp)
    BY <2>1, <2>4, Distributes
  <2>6. paid * sp = st
    BY <1>15
  <2>7. paid * rest = (pd - pb) + (st - at)
    BY <1>15, <1>17, <2>2, <2>3, <2>5, <2>6
  <2>8. paid * (gap + n) = pg + pn
    BY <1>17, Distributes
  <2>9. paid * (-rest) = -(paid * rest)
    BY <1>20
  <2> QED
    BY <1>15, <1>17, <2>7, <2>8, <2>9
<1>22. paid * rest <= paid * (gap + n) /\ paid * (-rest) <= paid * (gap + n)
  BY <1>15, <1>17, <1>18, <1>19, <1>21
<1>23. rest <= gap + n /\ -rest <= gap + n
  BY <1>22, ProductCancel
<1> QED
  BY <1>1, <1>3, <1>4, <1>10, <1>20, <1>23 DEF Abs

---------------------------------------------------------------------------------
(* One document: its line in a statement, and its lines against the others.*)

\* In the base currency, what each person has in f, for a conversion by k and m.
Valued(f, k, m) == [q \in People |-> DivRound(At0(f, q) * k, m)]

LEMMA ValuedType ==
  ASSUME NEW f, IsShares(f), NEW k \in Nat, NEW m \in Nat \ {0}
  PROVE  \A q \in People : /\ At0(f, q) * k \in Nat
                           /\ Valued(f, k, m)[q] \in Nat
                           /\ Within(m, Valued(f, k, m)[q], At0(f, q) * k, 1)
<1> TAKE q \in People
<1>1. At0(f, q) \in Nat
  BY ShareType
<1>2. At0(f, q) * k \in Nat
  BY <1>1, ProductType
<1> QED
  BY <1>2, DividesWithin DEF Valued

LEMMA SharesTotal ==
  ASSUME NEW f, IsShares(f)
  PROVE  Total(f) \in Nat /\ Total(f) = Sum([q \in People |-> At0(f, q)], People)
<1>1. PICK g : g = [q \in People |-> At0(f, q)]
  OBVIOUS
<1>2. DOMAIN f \subseteq People /\ IsFiniteSet(People)
  BY PeopleType DEF IsShares
<1>3. IsFiniteSet(DOMAIN f)
  BY <1>2, FS_Subset
<1>4. \A q \in DOMAIN f : f[q] \in Nat
  BY DEF IsShares
<1>5. /\ \A q \in People : g[q] \in Int
      /\ \A q \in People \ DOMAIN f : g[q] = 0
      /\ \A q \in DOMAIN f : g[q] = f[q]
  <2>1. \A q \in People : g[q] \in Nat
    BY <1>1, ShareType
  <2> QED
    BY <1>1, <1>2, <2>1 DEF At0
<1>6. Sum(g, People) = Sum(g, DOMAIN f)
  BY <1>2, <1>5, SumDropsZeros
<1>7. Sum(g, DOMAIN f) = Sum(f, DOMAIN f)
  BY <1>3, <1>5, SumSame
<1>8. Sum(f, DOMAIN f) \in Nat
  BY <1>3, <1>4, SumNat
<1> QED
  BY <1>1, <1>6, <1>7, <1>8, TotalIs

\* Converted one by one, shares add up to their converted sum but for half a sub-unit each.
LEMMA ValuedTotal ==
  ASSUME NEW f, IsShares(f), NEW k \in Nat, NEW m \in Nat \ {0}
  PROVE  /\ Sum(Valued(f, k, m), People) \in Nat /\ DivRound(Total(f) * k, m) \in Nat
         /\ 2 * Sum(Valued(f, k, m), People)
              <= 2 * DivRound(Total(f) * k, m) + (Cardinality(People) + 1)
         /\ 2 * DivRound(Total(f) * k, m)
              <= 2 * Sum(Valued(f, k, m), People) + (Cardinality(People) + 1)
<1>1. PICK c, g, h : /\ c = Valued(f, k, m) /\ g = [q \in People |-> At0(f, q)]
                     /\ h = [q \in People |-> At0(f, q) * k]
  OBVIOUS
<1>2. IsFiniteSet(People) /\ Cardinality(People) \in Nat
  BY PeopleType, FS_CardinalityType
<1>3. \A q \in People : c[q] \in Nat /\ h[q] \in Nat /\ Within(m, c[q], h[q], 1)
  BY <1>1, ValuedType
<1>4. \A q \in People : g[q] \in Int /\ h[q] = k * g[q]
  <2>1. \A q \in People : At0(f, q) \in Nat
    BY ShareType
  <2> QED
    BY <1>1, <2>1
<1>5. Sum(c, People) \in Nat
  BY <1>2, <1>3, SumNat
<1>6. Within(m, Sum(c, People), Sum(h, People), Cardinality(People))
  <2>1. \A q \in People : c[q] \in Int /\ h[q] \in Int /\ Within(m, c[q], h[q], 1)
    BY <1>3
  <2> QED
    BY <1>2, <2>1, WithinOneEach
<1>7. PICK all \in Nat : all = Total(f) /\ all = Sum(g, People)
  BY <1>1, SharesTotal
<1>8. PICK w \in Nat : w = all * k
  BY ProductType
<1>9. Sum(h, People) = w
  <2>1. k \in Int
    OBVIOUS
  <2>2. Sum(h, People) = k * Sum(g, People)
    BY <1>2, <1>4, <2>1, SumScale
  <2> QED
    BY <1>7, <1>8, <2>2
<1>10. PICK u \in Nat : u = DivRound(w, m) /\ Within(m, u, w, 1)
  BY DividesWithin
<1>11. /\ 2 * Sum(c, People) <= 2 * u + (Cardinality(People) + 1)
       /\ 2 * u <= 2 * Sum(c, People) + (Cardinality(People) + 1)
  BY <1>2, <1>5, <1>6, <1>9, <1>10, WithinBoth
<1> QED
  BY <1>1, <1>5, <1>7, <1>8, <1>10, <1>11

LEMMA LineClose ==
  ASSUME NEW row, NEW delta \in Int
  PROVE  /\ Line(row, delta) \in Int /\ Abs(Line(row, delta) - delta) <= Epsilon
         /\ delta = 0 => Line(row, delta) = 0
BY PeopleType DEF Line, Abs

\* What a member has of a document, in payments and in shares, in the base currency.
LEMMA DocumentValues ==
  ASSUME TripInv, NEW d \in Live,
         HasOverride(doc[d], trip.base) \/ Convertible(rate, doc[d].currency, trip.base)
  PROVE  \E k \in Nat, m \in Nat \ {0} :
           /\ \A x \in Nat : InBase(doc[d], trip.base, rate, x) = DivRound(x * k, m)
           /\ \A q \in People :
                /\ InBase(doc[d], trip.base, rate, At0(doc[d].payers, q))
                     = Valued(doc[d].payers, k, m)[q]
                /\ InBase(doc[d], trip.base, rate, At0(doc[d].splits, q))
                     = Valued(doc[d].splits, k, m)[q]
           /\ IsShares(doc[d].payers) /\ IsShares(doc[d].splits)
<1>1. IsShares(doc[d].payers) /\ IsShares(doc[d].splits)
  BY DEF TripInv, RowOK, IsDocument, Live
<1>2. PICK k \in Nat, m \in Nat \ {0} :
        \A x \in Nat : InBase(doc[d], trip.base, rate, x) = DivRound(x * k, m)
  BY ConvertsBy
<1>3. \A q \in People : At0(doc[d].payers, q) \in Nat /\ At0(doc[d].splits, q) \in Nat
  BY <1>1, ShareType
<1> QED
  BY <1>1, <1>2, <1>3 DEF Valued

LEMMA DebtIs ==
  ASSUME NEW row, NEW base, IsShares(row.payers),
         NEW k \in Nat, NEW m \in Nat \ {0},
         \A x \in Nat : InBase(row, base, rate, x) = DivRound(x * k, m),
         NEW a, a = Valued(row.payers, k, m),
         NEW debtor \in People, NEW payer \in People,
         NEW share, share = InBase(row, base, rate, At0(row.splits, debtor))
  PROVE  Debt(row, base, rate, debtor, payer)
           = IF Sum(a, People) = 0 THEN 0 ELSE DivRound(share * a[payer], Sum(a, People))
<1>1. PICK f : f = row.payers
  OBVIOUS
<1>2. PICK paid : paid = [q \in DOMAIN f |-> InBase(row, base, rate, f[q])]
  OBVIOUS
<1>3. DOMAIN f \subseteq People /\ \A q \in DOMAIN f : f[q] \in Nat
  BY <1>1 DEF IsShares
<1>4. \A q \in DOMAIN f : paid[q] = a[q]
  BY <1>1, <1>2, <1>3 DEF Valued, At0
<1>5. \A q \in People \ DOMAIN f : a[q] = 0
  <2>1. 0 * k = 0
    OBVIOUS
  <2>2. \A q \in People \ DOMAIN f : a[q] = DivRound(0, m)
    BY <1>1, <2>1 DEF Valued, At0
  <2> QED
    BY <2>2, DividesZero
<1>6. IsFiniteSet(People)
  BY PeopleType
<1>7. IsFiniteSet(DOMAIN f)
  BY <1>3, <1>6, FS_Subset
<1>8. \A q \in People : a[q] \in Nat
  BY ValuedType
<1>9. Total(paid) = Sum(a, People)
  <2>1. \A q \in People : a[q] \in Int
    BY <1>8
  <2>2. Sum(a, People) = Sum(a, DOMAIN f)
    BY <1>3, <1>5, <1>6, <2>1, SumDropsZeros
  <2>3. Sum(paid, DOMAIN f) = Sum(a, DOMAIN f)
    BY <1>4, <1>7, SumSame
  <2>4. DOMAIN paid = DOMAIN f
    BY <1>2
  <2> QED
    BY <2>2, <2>3, <2>4, TotalIs
<1>10. Sum(a, People) \in Nat
  BY <1>6, <1>8, SumNat
<1>11. At0(paid, payer) = a[payer]
  BY <1>2, <1>3, <1>4, <1>5 DEF At0
<1>12. Debt(row, base, rate, debtor, payer)
         = IF Total(paid) <= 0 THEN 0 ELSE DivRound(share * At0(paid, payer), Total(paid))
  BY <1>1, <1>2 DEF Debt
<1> QED
  BY <1>9, <1>10, <1>11, <1>12

\* The lines a document has in a person's statements against the others add up to what
\* the person has of it, but for the slack.
LEMMA DocumentAgrees ==
  ASSUME TripInv, NEW d \in Live, NEW p \in People,
         HasOverride(doc[d], trip.base) \/ Convertible(rate, doc[d].currency, trip.base),
         NEW x, \A q \in People \ {p} :
           x[q] = Line(doc[d], Debt(doc[d], trip.base, rate, q, p)
                                 - Debt(doc[d], trip.base, rate, p, q)),
         NEW own, own = InBase(doc[d], trip.base, rate, At0(doc[d].payers, p))
                          - InBase(doc[d], trip.base, rate, At0(doc[d].splits, p))
  PROVE  /\ \A q \in People \ {p} : x[q] \in Int
         /\ own \in Int /\ Slack(doc[d]) \in Int /\ Epsilon <= Slack(doc[d])
         /\ Abs(Sum(x, People \ {p}) - own) <= Slack(doc[d])
<1>1. PICK k \in Nat, m \in Nat \ {0} :
        /\ \A y \in Nat : InBase(doc[d], trip.base, rate, y) = DivRound(y * k, m)
        /\ \A q \in People :
             /\ InBase(doc[d], trip.base, rate, At0(doc[d].payers, q))
                  = Valued(doc[d].payers, k, m)[q]
             /\ InBase(doc[d], trip.base, rate, At0(doc[d].splits, q))
                  = Valued(doc[d].splits, k, m)[q]
        /\ IsShares(doc[d].payers) /\ IsShares(doc[d].splits)
  BY DocumentValues
<1>2. PICK a, s : a = Valued(doc[d].payers, k, m) /\ s = Valued(doc[d].splits, k, m)
  OBVIOUS
<1>3. \A q \in People : a[q] \in Nat /\ s[q] \in Nat
  BY <1>1, <1>2, ValuedType
<1>o. PICK O : O = People \ {p}
  OBVIOUS
<1>4. PICK n \in Nat : /\ O = People \ {p} /\ IsFiniteSet(O) /\ n = Cardinality(O)
                       /\ Cardinality(People) = n + 1
  <2>1. IsFiniteSet(People)
    BY PeopleType
  <2>2. IsFiniteSet(People \ {p}) /\ Cardinality(People \ {p}) = Cardinality(People) - 1
    BY <2>1, FS_RemoveElement
  <2>3. Cardinality(People) \in Nat /\ Cardinality(People \ {p}) \in Nat
    BY <2>1, <2>2, FS_CardinalityType
  <2> QED
    BY <1>o, <2>2, <2>3
<1>5. IsFiniteSet(People) /\ Epsilon \in Nat \ {0}
  BY PeopleType
<1>6. PICK paid \in Nat, owed \in Nat, asPaid \in Nat, asOwed \in Nat :
        /\ paid = Sum(a, People) /\ owed = Sum(s, People)
        /\ asPaid = InBase(doc[d], trip.base, rate, Total(doc[d].payers))
        /\ asOwed = InBase(doc[d], trip.base, rate, Total(doc[d].splits))
        /\ 2 * paid <= 2 * asPaid + (n + 2) /\ 2 * asPaid <= 2 * paid + (n + 2)
        /\ 2 * owed <= 2 * asOwed + (n + 2) /\ 2 * asOwed <= 2 * owed + (n + 2)
  <2>1. Total(doc[d].payers) \in Nat /\ Total(doc[d].splits) \in Nat
    BY <1>1, SharesTotal
  <2>2. /\ InBase(doc[d], trip.base, rate, Total(doc[d].payers))
             = DivRound(Total(doc[d].payers) * k, m)
        /\ InBase(doc[d], trip.base, rate, Total(doc[d].splits))
             = DivRound(Total(doc[d].splits) * k, m)
    BY <1>1, <2>1
  <2>3. n + 2 = (n + 1) + 1
    OBVIOUS
  <2>4. /\ Sum(a, People) \in Nat /\ DivRound(Total(doc[d].payers) * k, m) \in Nat
        /\ 2 * Sum(a, People) <= 2 * DivRound(Total(doc[d].payers) * k, m) + (n + 2)
        /\ 2 * DivRound(Total(doc[d].payers) * k, m) <= 2 * Sum(a, People) + (n + 2)
    BY <1>1, <1>2, <1>4, <2>3, ValuedTotal
  <2>5. /\ Sum(s, People) \in Nat /\ DivRound(Total(doc[d].splits) * k, m) \in Nat
        /\ 2 * Sum(s, People) <= 2 * DivRound(Total(doc[d].splits) * k, m) + (n + 2)
        /\ 2 * DivRound(Total(doc[d].splits) * k, m) <= 2 * Sum(s, People) + (n + 2)
    BY <1>1, <1>2, <1>4, <2>3, ValuedTotal
  <2> QED
    BY <2>2, <2>4, <2>5
<1>7. PICK off \in Nat : off = Abs(asPaid - asOwed)
  BY <1>6 DEF Abs
<1>8. PICK ne \in Nat : ne = Epsilon * n
  BY <1>5, ProductType
<1>9. Slack(doc[d]) = ((n * 2 + ne) + (Epsilon + 2)) + off
  <2>1. Slack(doc[d]) = (n + 1) * (Epsilon + 2) + off
    BY <1>4, <1>6, <1>7 DEF Slack
  <2>2. (n + 1) * (Epsilon + 2) = (ne + n * 2) + (Epsilon + 2)
    BY <1>5, <1>8
  <2> QED
    BY <1>5, <2>1, <2>2
<1>10. own = a[p] - s[p]
  BY <1>1, <1>2
<1>11. PICK raw : raw = [q \in O |-> Debt(doc[d], trip.base, rate, q, p)
                                       - Debt(doc[d], trip.base, rate, p, q)]
  OBVIOUS
<1>12. \A q \in O : x[q] = Line(doc[d], raw[q])
  BY <1>4, <1>11
<1>13. \A q, y \in People :
         Debt(doc[d], trip.base, rate, q, y)
           = IF paid = 0 THEN 0 ELSE DivRound(s[q] * a[y], paid)
  <2> SUFFICES ASSUME NEW q \in People, NEW y \in People
               PROVE  Debt(doc[d], trip.base, rate, q, y)
                        = IF paid = 0 THEN 0 ELSE DivRound(s[q] * a[y], paid)
    OBVIOUS
  <2>1. PICK share : share = InBase(doc[d], trip.base, rate, At0(doc[d].splits, q))
    OBVIOUS
  <2>2. share = s[q]
    BY <1>1, <1>2, <2>1
  <2>3. Debt(doc[d], trip.base, rate, q, y)
          = IF Sum(a, People) = 0 THEN 0 ELSE DivRound(share * a[y], Sum(a, People))
    BY <1>1, <1>2, <2>1, DebtIs
  <2> QED
    BY <1>6, <2>2, <2>3
<1>14. O \subseteq People
  BY <1>4
<1>15. \A q \in O : raw[q] \in Int
  <2> TAKE q \in O
  <2>1. PICK there \in Nat, back \in Nat : there = s[q] * a[p] /\ back = s[p] * a[q]
    BY <1>3, <1>14, ProductType
  <2>2. CASE paid = 0
    BY <1>11, <1>13, <1>14, <2>2
  <2>3. CASE paid # 0
    <3>1. DivRound(there, paid) \in Nat /\ DivRound(back, paid) \in Nat
      BY <2>3, DividesWithin
    <3>2. raw[q] = DivRound(there, paid) - DivRound(back, paid)
      BY <1>11, <1>13, <1>14, <2>1, <2>3
    <3> QED
      BY <3>1, <3>2
  <2> QED
    BY <2>2, <2>3
<1>16. \A q \in O : x[q] \in Int /\ Abs(x[q] - raw[q]) <= Epsilon
  BY <1>12, <1>15, LineClose
<1>17. Abs(owed - paid) <= off + (n + 2)
  BY <1>6, <1>7 DEF Abs
<1>18. Abs(Sum(x, O) - own) <= Slack(doc[d])
  <2>1. CASE paid = 0
    <3>1. \A q \in O : raw[q] = 0
      BY <1>11, <1>13, <1>14, <2>1
    <3>2. \A q \in O : x[q] = 0
      BY <1>12, <1>15, <3>1, LineClose
    <3>3. Sum(x, O) = 0
      BY <1>4, <3>2, SumZero
    <3>4. a[p] <= paid /\ s[p] <= owed
      BY <1>3, <1>5, <1>6, SumBoundsTerm
    <3>5. a[p] = 0
      BY <1>3, <2>1, <3>4
    <3> QED
      BY <1>3, <1>5, <1>9, <1>10, <1>17, <2>1, <3>3, <3>4, <3>5 DEF Abs
  <2>2. CASE paid # 0
    <3>1. \A q \in O : raw[q] = DivRound(s[q] * a[p], paid) - DivRound(s[p] * a[q], paid)
      BY <1>11, <1>13, <1>14, <2>2
    <3>2. PICK gap \in Nat : gap = off + (n + 2)
      OBVIOUS
    <3>3. Abs(Sum(raw, O) - (a[p] - s[p])) <= gap + n
      <4>1. paid \in Nat \ {0}
        BY <2>2
      <4>2. \A q \in People \ {p} :
              raw[q] = DivRound(s[q] * a[p], paid) - DivRound(s[p] * a[q], paid)
        BY <1>4, <3>1
      <4>3. Abs(owed - paid) <= gap
        BY <1>17, <3>2
      <4>4. Abs(Sum(raw, People \ {p}) - (a[p] - s[p])) <= gap + (Cardinality(People) - 1)
        BY <1>3, <1>6, <4>1, <4>2, <4>3, DebtsAddUp
      <4> QED
        BY <1>4, <4>4
    <3>4. Abs(Sum(x, O) - Sum(raw, O)) <= ne
      <4>1. Epsilon \in Int /\ ne = Epsilon * Cardinality(O)
        BY <1>4, <1>5, <1>8
      <4>2. \A q \in O : x[q] \in Int /\ raw[q] \in Int /\ Abs(x[q] - raw[q]) <= Epsilon
        BY <1>15, <1>16
      <4>3. Abs(Sum(x, O) - Sum(raw, O)) <= Epsilon * Cardinality(O)
        BY <1>4, <4>1, <4>2, SumsClose
      <4> QED
        BY <4>1, <4>3
    <3>5. Sum(x, O) \in Int /\ Sum(raw, O) \in Int
      BY <1>4, <1>15, <1>16, SumInt
    <3> QED
      BY <1>3, <1>5, <1>9, <1>10, <3>2, <3>3, <3>4, <3>5 DEF Abs
  <2> QED
    BY <2>1, <2>2
<1> QED
  BY <1>3, <1>4, <1>5, <1>9, <1>10, <1>16, <1>18

---------------------------------------------------------------------------------
(* The statements of a trip.                                               *)

\* What p has of a document in the balances.
OwnOf(row, p) == InBase(row, trip.base, rate, At0(row.payers, p))
                   - InBase(row, trip.base, rate, At0(row.splits, p))

LEMMA DocumentTypes ==
  ASSUME TripInv, RatesKnown(Recorded, trip.base, rate), NEW d \in Live, NEW p
  PROVE  /\ InBase(doc[d], trip.base, rate, At0(doc[d].payers, p)) \in Int
         /\ InBase(doc[d], trip.base, rate, At0(doc[d].splits, p)) \in Int
<1>1. IsShares(doc[d].payers) /\ IsShares(doc[d].splits)
  BY DEF TripInv, RowOK, IsDocument, Live
<1>2. At0(doc[d].payers, p) \in Nat /\ At0(doc[d].splits, p) \in Nat
  BY <1>1, ShareType
<1> QED
  BY <1>2, RatesKnownIs, InBaseType

LEMMA NetIs ==
  ASSUME TripInv, RatesKnown(Recorded, trip.base, rate), NEW p \in People,
         NEW own, own = [d \in Live |-> OwnOf(doc[d], p)]
  PROVE  (\A d \in Live : own[d] \in Int) /\ Net[p] = Sum(own, Live)
<1>1. PICK paid : paid = [i \in DOMAIN Recorded |->
                            InBase(Recorded[i], trip.base, rate, At0(Recorded[i].payers, p))]
  OBVIOUS
<1>2. PICK owed : owed = [i \in DOMAIN Recorded |->
                            InBase(Recorded[i], trip.base, rate, At0(Recorded[i].splits, p))]
  OBVIOUS
<1>3. DOMAIN paid = Live /\ DOMAIN owed = Live
  BY <1>1, <1>2 DEF Recorded
<1>4. \A d \in Live : own[d] = paid[d] - owed[d]
  BY <1>1, <1>2 DEF Recorded, OwnOf
<1>5. \A d \in Live : paid[d] \in Int /\ owed[d] \in Int
  BY <1>1, <1>2, DocumentTypes DEF Recorded
<1>6. \A d \in Live : own[d] \in Int /\ paid[d] = own[d] + owed[d]
  BY <1>4, <1>5
<1>7. Sum(paid, Live) = Sum(own, Live) + Sum(owed, Live)
  BY <1>5, <1>6, LiveFinite, SumPlus
<1>8. Sum(own, Live) \in Int /\ Sum(owed, Live) \in Int
  BY <1>5, <1>6, LiveFinite, SumInt
<1>9. Net[p] = Total(paid) - Total(owed)
  BY <1>1, <1>2 DEF Net, NetBalances, Paid, Owed
<1>10. Total(paid) = Sum(paid, Live) /\ Total(owed) = Sum(owed, Live)
  BY <1>3, TotalIs
<1> QED
  BY <1>6, <1>7, <1>8, <1>9, <1>10

LEMMA SlackIs ==
  ASSUME TripInv, RatesKnown(Recorded, trip.base, rate), NEW d \in Live, NEW p \in People
  PROVE  Slack(doc[d]) \in Int /\ Epsilon <= Slack(doc[d])
<1>1. PICK x : x = [q \in People \ {p} |-> Line(doc[d], Debt(doc[d], trip.base, rate, q, p)
                                                        - Debt(doc[d], trip.base, rate, p, q))]
  OBVIOUS
<1>2. PICK own : own = InBase(doc[d], trip.base, rate, At0(doc[d].payers, p))
                         - InBase(doc[d], trip.base, rate, At0(doc[d].splits, p))
  OBVIOUS
<1>3. \A q \in People \ {p} : x[q] = Line(doc[d], Debt(doc[d], trip.base, rate, q, p)
                                                  - Debt(doc[d], trip.base, rate, p, q))
  BY <1>1
<1>4. HasOverride(doc[d], trip.base) \/ Convertible(rate, doc[d].currency, trip.base)
  BY RatesKnownIs
<1> QED
  BY <1>2, <1>3, <1>4, DocumentAgrees

LEMMA StatementClose ==
  ASSUME TripInv, RatesKnown(Recorded, trip.base, rate), NEW p \in People
  PROVE  Abs(Statement(Recorded, trip.base, rate, p) - Net[p])
           <= Total([d \in Live |-> Slack(doc[d])])
<1>1. PICK own : own = [d \in Live |-> OwnOf(doc[d], p)]
  OBVIOUS
<1>2. PICK slack : slack = [d \in Live |-> Slack(doc[d])]
  OBVIOUS
<1>3. PICK lines : lines = [i \in DOMAIN Recorded |-> Line(Recorded[i], OwnOf(Recorded[i], p))]
  OBVIOUS
<1>4. DOMAIN lines = Live /\ \A d \in Live : lines[d] = Line(doc[d], own[d])
  BY <1>1, <1>3 DEF Recorded
<1>5. (\A d \in Live : own[d] \in Int) /\ Net[p] = Sum(own, Live)
  BY <1>1, NetIs
<1>6. \A d \in Live : /\ lines[d] \in Int /\ own[d] \in Int /\ slack[d] \in Int
                      /\ Abs(lines[d] - own[d]) <= slack[d]
  <2> TAKE d \in Live
  <2>1. lines[d] \in Int /\ Abs(lines[d] - own[d]) <= Epsilon
    BY <1>4, <1>5, LineClose
  <2>2. slack[d] \in Int /\ Epsilon <= slack[d]
    BY <1>2, SlackIs
  <2>3. Abs(lines[d] - own[d]) \in Int /\ Epsilon \in Int
    BY <1>5, <2>1, PeopleType DEF Abs
  <2> QED
    BY <1>5, <2>1, <2>2, <2>3
<1>7. Abs(Sum(lines, Live) - Sum(own, Live)) <= Sum(slack, Live)
  BY <1>6, LiveFinite, SumsDiffer
<1>8. Statement(Recorded, trip.base, rate, p) = Total(lines)
  BY <1>3 DEF Statement, OwnOf
<1>9. DOMAIN slack = Live
  BY <1>2
<1> QED
  BY <1>2, <1>4, <1>5, <1>7, <1>8, <1>9, TotalIs

LEMMA OthersClose ==
  ASSUME TripInv, RatesKnown(Recorded, trip.base, rate), NEW p \in People
  PROVE  Abs(Total([q \in People \ {p} |-> StatementAgainst(Recorded, trip.base, rate, p, q)])
               - Net[p]) <= Total([d \in Live |-> Slack(doc[d])])
<1>1. PICK own : own = [d \in Live |-> OwnOf(doc[d], p)]
  OBVIOUS
<1>2. PICK slack : slack = [d \in Live |-> Slack(doc[d])]
  OBVIOUS
<1>3. PICK O : O = People \ {p} /\ IsFiniteSet(O)
  BY PeopleType, FS_RemoveElement
<1>4. PICK others : others = [q \in O |-> StatementAgainst(Recorded, trip.base, rate, p, q)]
  OBVIOUS
<1>5. PICK m, flip :
        /\ m = [d \in Live |-> [q \in O |->
                 Line(doc[d], Debt(doc[d], trip.base, rate, q, p)
                                - Debt(doc[d], trip.base, rate, p, q))]]
        /\ flip = [q \in O |-> [d \in DOMAIN Recorded |->
                 Line(Recorded[d], Debt(Recorded[d], trip.base, rate, q, p)
                                     - Debt(Recorded[d], trip.base, rate, p, q))]]
  OBVIOUS
<1>6. \A d \in Live, q \in O : flip[q][d] = m[d][q]
  BY <1>5 DEF Recorded
<1>7. PICK row : row = [d \in Live |-> Sum(m[d], O)]
  OBVIOUS
<1>8. \A d \in Live : /\ \A q \in O : m[d][q] \in Int
                      /\ own[d] \in Int /\ slack[d] \in Int
                      /\ Abs(row[d] - own[d]) <= slack[d]
  <2> TAKE d \in Live
  <2>1. PICK x : x = m[d]
    OBVIOUS
  <2>2. \A q \in People \ {p} :
          x[q] = Line(doc[d], Debt(doc[d], trip.base, rate, q, p)
                                - Debt(doc[d], trip.base, rate, p, q))
    BY <1>3, <1>5, <2>1
  <2>3. own[d] = InBase(doc[d], trip.base, rate, At0(doc[d].payers, p))
                   - InBase(doc[d], trip.base, rate, At0(doc[d].splits, p))
    BY <1>1 DEF OwnOf
  <2>4. /\ \A q \in People \ {p} : x[q] \in Int
        /\ own[d] \in Int /\ Slack(doc[d]) \in Int
        /\ Abs(Sum(x, People \ {p}) - own[d]) <= Slack(doc[d])
    BY <2>2, <2>3, RatesKnownIs, DocumentAgrees
  <2>5. row[d] = Sum(x, O) /\ slack[d] = Slack(doc[d])
    BY <1>2, <1>7, <2>1
  <2> QED
    BY <1>3, <2>1, <2>4, <2>5
<1>9. \A q \in O : others[q] = Sum(flip[q], Live)
  <2> TAKE q \in O
  <2>1. others[q] = Total(flip[q]) /\ DOMAIN flip[q] = Live
    BY <1>4, <1>5 DEF StatementAgainst, Recorded
  <2> QED
    BY <2>1, TotalIs
<1>10. Sum(row, Live) = Sum(others, O)
  <2>1. \A d \in Live, q \in O : m[d][q] \in Int
    BY <1>8
  <2>2. \A d \in Live : row[d] = Sum(m[d], O)
    BY <1>7
  <2>3. IsFiniteSet(Live) /\ IsFiniteSet(O)
    BY <1>3, LiveFinite
  <2>4. \A q \in O : others[q] = Sum(flip[q], Live)
    BY <1>9
  <2> QED
    BY <1>6, <2>1, <2>2, <2>3, <2>4, SumSwap
<1>11. \A d \in Live : row[d] \in Int
  <2> TAKE d \in Live
  <2>1. row[d] = Sum(m[d], O)
    BY <1>7
  <2>2. \A q \in O : m[d][q] \in Int
    BY <1>8
  <2> QED
    BY <1>3, <2>1, <2>2, SumInt
<1>12. Abs(Sum(row, Live) - Sum(own, Live)) <= Sum(slack, Live)
  BY <1>8, <1>11, LiveFinite, SumsDiffer
<1>13. Net[p] = Sum(own, Live)
  BY <1>1, NetIs
<1>14. Total(others) = Sum(others, O) /\ Total(slack) = Sum(slack, Live)
  <2>1. DOMAIN others = O /\ DOMAIN slack = Live
    BY <1>2, <1>4
  <2> QED
    BY <2>1, TotalIs
<1> QED
  BY <1>2, <1>3, <1>4, <1>10, <1>12, <1>13, <1>14

---------------------------------------------------------------------------------
(* What the trip spent, expense by expense and currency by currency.       *)

LEMMA SumOneTerm ==
  ASSUME NEW f, NEW S, IsFiniteSet(S), NEW x \in S, f[x] \in Int,
         \A y \in S \ {x} : f[y] = 0
  PROVE  Sum(f, S) = f[x]
<1>1. PICK R : R = S \ {x} /\ IsFiniteSet(R)
  BY FS_RemoveElement
<1>2. Sum(f, R) = 0
  BY <1>1, SumZero
<1>3. \A y \in S : f[y] \in Int
  BY <1>1
<1>4. Sum(f, S) = f[x] + Sum(f, R)
  BY <1>1, <1>3, SumPick
<1> QED
  BY <1>2, <1>4

\* The currencies that have a rate.
Rated == {k \in Currencies : Convertible(rate, k, trip.base)}

LEMMA RatedFinite == IsFiniteSet(Rated)
<1>1. IsFiniteSet(Currencies)
  BY MoneyAssumption
<1> QED
  BY <1>1, FS_Subset DEF Rated

\* The amounts of the expenses in c, and their values at its rate.
AmountsIn(c) == [d \in Live |-> IF d \in LiveExpenses /\ doc[d].currency = c
                                  THEN doc[d].amount ELSE 0]
ValuesIn(c) == [d \in Live |-> IF d \in LiveExpenses /\ doc[d].currency = c
                                 THEN Convert(rate, doc[d].amount, c, trip.base) ELSE 0]
OnesIn(c) == [d \in Live |-> IF d \in LiveExpenses /\ doc[d].currency = c THEN 1 ELSE 0]

LEMMA SpentIs ==
  ASSUME NEW c
  PROVE  SpentIn(Recorded, c) = Sum(AmountsIn(c), Live)
<1>1. PICK f : f = [i \in DOMAIN Recorded |->
                      IF Recorded[i].kind # "settlement" /\ Recorded[i].currency = c
                        THEN Recorded[i].amount ELSE 0]
  OBVIOUS
<1>2. DOMAIN f = Live /\ f = AmountsIn(c)
  BY <1>1 DEF Recorded, AmountsIn, LiveExpenses
<1>3. SpentIn(Recorded, c) = Total(f)
  BY <1>1 DEF SpentIn
<1> QED
  BY <1>2, <1>3, TotalIs

\* The expenses of one currency, converted one by one and all at once.
LEMMA CurrencyClose ==
  ASSUME TripInv, NEW c \in Rated
  PROVE  /\ \A d \in Live : ValuesIn(c)[d] \in Int /\ OnesIn(c)[d] \in Int
         /\ Convert(rate, SpentIn(Recorded, c), c, trip.base) \in Int
         /\ Abs(Convert(rate, SpentIn(Recorded, c), c, trip.base) - Sum(ValuesIn(c), Live))
              <= Sum(OnesIn(c), Live) + 1
<1>1. PICK k \in Nat, m \in Nat \ {0} :
        \A a \in Nat : Convert(rate, a, c, trip.base) = DivRound(a * k, m)
  BY RateConverts DEF Rated
<1>2. PICK a, v, e, w : /\ a = AmountsIn(c) /\ v = ValuesIn(c) /\ e = OnesIn(c)
                        /\ w = [d \in Live |-> k * a[d]]
  OBVIOUS
<1>3. \A d \in Live : doc[d].amount \in Nat
  BY DEF TripInv, RowOK, IsDocument, Live
<1>4. \A d \in Live : a[d] \in Nat
  BY <1>2, <1>3 DEF AmountsIn
<1>5. \A d \in Live : /\ v[d] \in Int /\ w[d] \in Int /\ e[d] \in Nat
                      /\ Within(m, v[d], w[d], e[d])
  <2> TAKE d \in Live
  <2>1. CASE d \in LiveExpenses /\ doc[d].currency = c
    <3>1. a[d] = doc[d].amount /\ e[d] = 1 /\ v[d] = Convert(rate, a[d], c, trip.base)
      BY <1>2, <2>1 DEF AmountsIn, ValuesIn, OnesIn
    <3>2. PICK n \in Nat : n = a[d] * k
      BY <1>4, ProductType
    <3>3. w[d] = n
      BY <1>2, <1>4, <3>2
    <3>4. v[d] = DivRound(n, m)
      BY <1>1, <1>4, <3>1, <3>2
    <3> QED
      BY <3>1, <3>3, <3>4, DividesWithin
  <2>2. CASE ~(d \in LiveExpenses /\ doc[d].currency = c)
    <3>1. a[d] = 0 /\ e[d] = 0 /\ v[d] = 0
      BY <1>2, <2>2 DEF AmountsIn, ValuesIn, OnesIn
    <3>2. w[d] = 0
      BY <1>2, <3>1
    <3>3. Within(m, 0, 0, 0)
      BY DEF Within
    <3> QED
      BY <3>1, <3>2, <3>3
  <2> QED
    BY <2>1, <2>2
<1>6. Sum(v, Live) \in Int /\ Sum(w, Live) \in Int /\ Sum(e, Live) \in Nat /\ Sum(a, Live) \in Nat
  BY <1>4, <1>5, LiveFinite, SumInt, SumNat
<1>7. Within(m, Sum(v, Live), Sum(w, Live), Sum(e, Live))
  <2>1. \A d \in Live : /\ v[d] \in Int /\ w[d] \in Int /\ e[d] \in Int
                        /\ Within(m, v[d], w[d], e[d])
    BY <1>5
  <2> QED
    BY <2>1, LiveFinite, WithinSums
<1>8. PICK all \in Nat : all = SpentIn(Recorded, c) /\ all = Sum(a, Live)
  BY <1>2, <1>6, SpentIs
<1>9. PICK n \in Nat : n = all * k
  BY ProductType
<1>10. Sum(w, Live) = n
  <2>1. \A d \in Live : a[d] \in Int /\ w[d] = k * a[d]
    BY <1>2, <1>4
  <2>2. k \in Int
    OBVIOUS
  <2>3. Sum(w, Live) = k * Sum(a, Live)
    BY <2>1, <2>2, LiveFinite, SumScale
  <2> QED
    BY <1>8, <1>9, <2>3
<1>11. PICK u \in Nat : u = DivRound(n, m) /\ Within(m, u, n, 1)
  BY DividesWithin
<1>12. u = Convert(rate, SpentIn(Recorded, c), c, trip.base)
  BY <1>1, <1>8, <1>9, <1>11
<1>13. /\ 2 * Sum(v, Live) <= 2 * u + (Sum(e, Live) + 1)
       /\ 2 * u <= 2 * Sum(v, Live) + (Sum(e, Live) + 1)
  BY <1>6, <1>7, <1>10, <1>11, WithinBoth
<1>14. Abs(u - Sum(v, Live)) <= Sum(e, Live) + 1
  BY <1>6, <1>13 DEF Abs
<1> QED
  BY <1>2, <1>5, <1>12, <1>14

LEMMA SpendingAgrees ==
  ASSUME TripInv, RatesKnown(Recorded, trip.base, rate)
  PROVE  TotalsAgree
<1> SUFFICES ASSUME \A d \in LiveExpenses : ~HasOverride(doc[d], trip.base)
             PROVE  Abs(TotalSpend(Recorded, trip.base, rate)
                          - TotalExpenses(Recorded, trip.base, rate))
                      <= Cardinality(LiveExpenses) + Cardinality(Currencies)
  BY DEF TotalsAgree
<1>1. LiveExpenses \subseteq Live /\ IsFiniteSet(LiveExpenses)
  <2>1. LiveExpenses \subseteq Live
    BY DEF LiveExpenses
  <2> QED
    BY <2>1, LiveFinite, FS_Subset
<1>2. \A d \in LiveExpenses : doc[d].currency \in Rated /\ d \in Live
  <2> TAKE d \in LiveExpenses
  <2>1. doc[d].currency \in Currencies /\ d \in Live
    BY <1>1 DEF TripInv, RowOK, Live
  <2>2. Convertible(rate, doc[d].currency, trip.base)
    BY <2>1, RatesKnownIs
  <2> QED
    BY <2>1, <2>2 DEF Rated
<1>3. PICK cost : cost = [i \in DOMAIN Recorded |->
        IF Recorded[i].kind = "settlement" THEN 0
        ELSE IF HasOverride(Recorded[i], trip.base) THEN Recorded[i].charged
        ELSE InBase(Recorded[i], trip.base, rate, Recorded[i].amount)]
  OBVIOUS
<1>4. TotalExpenses(Recorded, trip.base, rate) = Sum(cost, Live)
  <2>1. TotalExpenses(Recorded, trip.base, rate) = Total(cost) /\ DOMAIN cost = Live
    BY <1>3 DEF TotalExpenses, Recorded
  <2> QED
    BY <2>1, TotalIs
<1>5. \A d \in Live :
        cost[d] = IF d \in LiveExpenses
                    THEN Convert(rate, doc[d].amount, doc[d].currency, trip.base) ELSE 0
  BY <1>3 DEF Recorded, LiveExpenses, InBase
<1>6. PICK spend : spend = [c \in Rated |-> Convert(rate, SpentIn(Recorded, c), c, trip.base)]
  OBVIOUS
<1>7. TotalSpend(Recorded, trip.base, rate) = Sum(spend, Rated)
  <2>1. TotalSpend(Recorded, trip.base, rate) = Total(spend) /\ DOMAIN spend = Rated
    BY <1>6 DEF TotalSpend, Rated
  <2> QED
    BY <2>1, TotalIs
<1>8. PICK v, e, parts, ones, more :
        /\ v = [c \in Rated |-> ValuesIn(c)] /\ e = [c \in Rated |-> OnesIn(c)]
        /\ parts = [c \in Rated |-> Sum(v[c], Live)]
        /\ ones = [c \in Rated |-> Sum(e[c], Live)]
        /\ more = [c \in Rated |-> ones[c] + 1]
  OBVIOUS
<1>9. \A c \in Rated : /\ spend[c] \in Int /\ parts[c] \in Int /\ ones[c] \in Int
                       /\ more[c] \in Int /\ Abs(spend[c] - parts[c]) <= more[c]
                       /\ \A d \in Live : v[c][d] \in Int /\ e[c][d] \in Int
  <2> TAKE c \in Rated
  <2>1. \A d \in Live : v[c][d] \in Int /\ e[c][d] \in Int
    BY <1>8, CurrencyClose
  <2>2. parts[c] = Sum(v[c], Live) /\ ones[c] = Sum(e[c], Live) /\ more[c] = ones[c] + 1
    BY <1>8
  <2>3. Sum(v[c], Live) \in Int /\ Sum(e[c], Live) \in Int
    BY <2>1, LiveFinite, SumInt
  <2>4. spend[c] \in Int /\ Abs(spend[c] - Sum(v[c], Live)) <= Sum(e[c], Live) + 1
    BY <1>6, <1>8, CurrencyClose
  <2> QED
    BY <2>1, <2>2, <2>3, <2>4
<1>10. Abs(Sum(spend, Rated) - Sum(parts, Rated)) <= Sum(more, Rated)
  BY <1>9, RatedFinite, SumsDiffer
<1>11. Sum(parts, Rated) = Sum(cost, Live)
  <2>1. PICK flip : flip = [d \in Live |-> [c \in Rated |-> v[c][d]]]
    OBVIOUS
  <2>2. \A d \in Live : cost[d] = Sum(flip[d], Rated)
    <3> TAKE d \in Live
    <3>1. PICK f : f = flip[d]
      OBVIOUS
    <3>2. \A c \in Rated : f[c] = IF d \in LiveExpenses /\ doc[d].currency = c
                                    THEN Convert(rate, doc[d].amount, c, trip.base) ELSE 0
      BY <1>8, <2>1, <3>1 DEF ValuesIn
    <3>3. \A c \in Rated : f[c] \in Int
      BY <1>9, <2>1, <3>1
    <3>4. CASE d \in LiveExpenses
      <4>1. PICK c \in Rated : c = doc[d].currency
        BY <1>2, <3>4
      <4>2. \A k \in Rated \ {c} : f[k] = 0
        BY <3>2, <4>1
      <4>3. Sum(f, Rated) = f[c]
        BY <3>3, <4>2, RatedFinite, SumOneTerm
      <4>4. f[c] = cost[d]
        BY <1>5, <3>2, <3>4, <4>1
      <4> QED
        BY <3>1, <4>3, <4>4
    <3>5. CASE d \notin LiveExpenses
      <4>1. \A c \in Rated : f[c] = 0
        BY <3>2, <3>5
      <4>2. Sum(f, Rated) = 0
        BY <4>1, RatedFinite, SumZero
      <4> QED
        BY <1>5, <3>1, <3>5, <4>2
    <3> QED
      BY <3>4, <3>5
  <2>3. \A c \in Rated : parts[c] = Sum(v[c], Live)
    BY <1>8
  <2>4. \A c \in Rated, d \in Live : v[c][d] \in Int
    BY <1>9
  <2>5. \A c \in Rated, d \in Live : flip[d][c] = v[c][d]
    BY <2>1
  <2>6. IsFiniteSet(Live) /\ IsFiniteSet(Rated)
    BY LiveFinite, RatedFinite
  <2> QED
    BY <2>2, <2>3, <2>4, <2>5, <2>6, SumSwap
<1>12. Sum(ones, Rated) = Cardinality(LiveExpenses)
  <2>1. PICK flip, count : /\ flip = [d \in Live |-> [c \in Rated |-> e[c][d]]]
                           /\ count = [d \in Live |-> IF d \in LiveExpenses THEN 1 ELSE 0]
    OBVIOUS
  <2>2. \A d \in Live : count[d] = Sum(flip[d], Rated)
    <3> TAKE d \in Live
    <3>1. PICK f : f = flip[d]
      OBVIOUS
    <3>2. \A c \in Rated : f[c] = IF d \in LiveExpenses /\ doc[d].currency = c THEN 1 ELSE 0
      BY <1>8, <2>1, <3>1 DEF OnesIn
    <3>3. CASE d \in LiveExpenses
      <4>1. PICK c \in Rated : c = doc[d].currency
        BY <1>2, <3>3
      <4>2. f[c] = 1 /\ \A k \in Rated \ {c} : f[k] = 0
        BY <3>2, <3>3, <4>1
      <4>3. f[c] \in Int
        BY <4>2
      <4>4. Sum(f, Rated) = f[c]
        BY <4>2, <4>3, RatedFinite, SumOneTerm
      <4> QED
        BY <2>1, <3>1, <3>3, <4>2, <4>4
    <3>4. CASE d \notin LiveExpenses
      <4>1. \A c \in Rated : f[c] = 0
        BY <3>2, <3>4
      <4>2. Sum(f, Rated) = 0
        BY <4>1, RatedFinite, SumZero
      <4> QED
        BY <2>1, <3>1, <3>4, <4>2
    <3> QED
      BY <3>3, <3>4
  <2>3. \A c \in Rated : ones[c] = Sum(e[c], Live)
    BY <1>8
  <2>4. \A c \in Rated, d \in Live : e[c][d] \in Int
    BY <1>9
  <2>5. \A c \in Rated, d \in Live : flip[d][c] = e[c][d]
    BY <2>1
  <2>6. IsFiniteSet(Live) /\ IsFiniteSet(Rated)
    BY LiveFinite, RatedFinite
  <2>7. Sum(ones, Rated) = Sum(count, Live)
    BY <2>2, <2>3, <2>4, <2>5, <2>6, SumSwap
  <2>8. \A d \in Live : count[d] = IF d \in LiveExpenses THEN 1 ELSE 0
    BY <2>1
  <2>9. Sum(count, Live) = Cardinality(LiveExpenses)
    BY <1>1, <2>6, <2>8, SumCounts
  <2> QED
    BY <2>7, <2>9
<1>13. Sum(more, Rated) = Cardinality(LiveExpenses) + Cardinality(Rated)
  <2>1. PICK one : one = [c \in Rated |-> 1]
    OBVIOUS
  <2>2. \A c \in Rated : one[c] = 1 /\ one[c] \in Int /\ ones[c] \in Int /\ more[c] = ones[c] + one[c]
    BY <1>8, <1>9, <2>1
  <2>3. Sum(more, Rated) = Sum(ones, Rated) + Sum(one, Rated)
    BY <2>2, RatedFinite, SumPlus
  <2>4. Sum(one, Rated) = 1 * Cardinality(Rated)
    BY <2>2, RatedFinite, SumConstant
  <2>5. Cardinality(Rated) \in Nat
    BY RatedFinite, FS_CardinalityType
  <2> QED
    BY <1>12, <2>3, <2>4, <2>5
<1>14. Cardinality(Rated) <= Cardinality(Currencies) /\ Cardinality(Rated) \in Nat
       /\ Cardinality(Currencies) \in Nat /\ Cardinality(LiveExpenses) \in Nat
  <2>1. IsFiniteSet(Currencies) /\ Rated \subseteq Currencies
    BY MoneyAssumption DEF Rated
  <2>2. Cardinality(Rated) <= Cardinality(Currencies)
    BY <2>1, FS_Subset
  <2> QED
    BY <1>1, <2>1, <2>2, RatedFinite, FS_CardinalityType
<1>15. Sum(spend, Rated) \in Int /\ Sum(parts, Rated) \in Int
  BY <1>9, RatedFinite, SumInt
<1> QED
  BY <1>4, <1>7, <1>10, <1>11, <1>13, <1>14, <1>15 DEF Abs

\* A member's statement ends at the member's balance, and so do the statements against
\* the others together, but for the rounding of each document; what the trip spent is the
\* same in both views (balance/service.go, Ledger, Calculate and the list of trips).
THEOREM ViewsAgree == Spec => []StatementsAgree
<1>1. ASSUME TripInv
      PROVE  StatementsAgree
  <2> SUFFICES ASSUME Viewed
               PROVE  LET net == Net
                          slack == Total([d \in Live |-> Slack(doc[d])])
                      IN  /\ net \in [People -> Int]
                          /\ TotalsAgree
                          /\ \A p \in People :
                               LET others == [q \in People \ {p} |->
                                     StatementAgainst(Recorded, trip.base, rate, p, q)]
                               IN  /\ Abs(Statement(Recorded, trip.base, rate, p) - net[p]) <= slack
                                   /\ Abs(Total(others) - net[p]) <= slack
    BY DEF StatementsAgree
  <2>1. RatesKnown(Recorded, trip.base, rate)
    BY DEF Viewed
  <2>2. Net \in [People -> Int]
    BY <1>1, <2>1, NetType
  <2>3. TotalsAgree
    BY <1>1, <2>1, SpendingAgrees
  <2>4. \A p \in People :
          Abs(Statement(Recorded, trip.base, rate, p) - Net[p])
            <= Total([d \in Live |-> Slack(doc[d])])
    BY <1>1, <2>1, StatementClose
  <2>5. \A p \in People :
          Abs(Total([q \in People \ {p} |-> StatementAgainst(Recorded, trip.base, rate, p, q)])
                - Net[p]) <= Total([d \in Live |-> Slack(doc[d])])
    BY <1>1, <2>1, OthersClose
  <2> QED
    BY <2>2, <2>3, <2>4, <2>5
<1>2. TripInv => StatementsAgree
  BY <1>1
<1> QED
  BY <1>2, InductiveInvariant, PTL
=================================================================================
