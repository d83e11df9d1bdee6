----------------------------- MODULE PlanProofs -----------------------------
(***************************************************************************)
(* Type correctness of PlanChanges, that prorations stay within the        *)
(* prices, that changing back refunds and that differences are paid, for   *)
(* any prices, plans, periods and any number of changes and renewals.    *)
(***************************************************************************)
EXTENDS PlanChanges, FiniteSetTheorems, SequenceTheorems, TLAPS

(***************************************************************************)
(* Arithmetic.                                                             *)
(***************************************************************************)

(* A product of natural numbers grows with each of them.                   *)
LEMMA ProductGrows ==
    ASSUME NEW a \in Nat, NEW b \in Nat, NEW c \in Nat, NEW d \in Nat,
           a <= c, b <= d
    PROVE  /\ a * b \in Nat
           /\ a * b <= c * d
<1>1. a * b \in Nat /\ c * b \in Nat
  OBVIOUS
<1>2. c * d - a * b = c * (d - b) + (c - a) * b
  OBVIOUS
<1>3. c * (d - b) >= 0
  OBVIOUS
<1>4. (c - a) * b >= 0
  OBVIOUS
<1>5. c * d \in Int
  OBVIOUS
<1> QED  BY <1>1, <1>2, <1>3, <1>4, <1>5

(* A quotient is the greatest number whose product is not greater.         *)
LEMMA QuotientBounds ==
    ASSUME NEW a \in Int, NEW n \in Nat \ {0}, NEW top \in Nat,
           0 <= a, a < n * (top + 1)
    PROVE  a \div n \in 0 .. top
<1>1. a \div n \in Int /\ n * (a \div n) <= a /\ a < n * (a \div n) + n
  OBVIOUS
<1> DEFINE q == a \div n
<1> HIDE DEF q
<1>2. q \in Int /\ n * q <= a /\ a < n * q + n
  BY <1>1 DEF q
<1>3. 0 <= q
  <2> SUFFICES ASSUME q < 0 PROVE FALSE
    BY <1>2
  <2>1. q + 1 <= 0
    BY <1>2
  <2>2. n * (q + 1) <= 0
    BY <1>2, <2>1
  <2>3. n * (q + 1) = n * q + n
    BY <1>2
  <2> QED  BY <1>2, <2>2, <2>3
<1>4. q <= top
  <2> SUFFICES ASSUME q >= top + 1 PROVE FALSE
    BY <1>2
  <2>1. n * q = n * (top + 1) + n * (q - (top + 1))
    BY <1>2
  <2>2. n * (q - (top + 1)) >= 0
    BY <1>2
  <2>3. n * (top + 1) \in Int /\ n * q \in Int
    BY <1>2
  <2> QED  BY <1>2, <2>1, <2>2, <2>3
<1> QED  BY <1>2, <1>3, <1>4 DEF q

(* What is left of a period is no more than all of it.                     *)
LEMMA RatioBounds ==
    ASSUME NEW remaining \in Nat, NEW total \in Nat \ {0}, remaining <= total
    PROVE  Ratio(remaining, total) \in 0 .. Scale
<1>1. Scale \in Nat
  BY PlanAssumption
<1>2. remaining * Scale \in Nat /\ remaining * Scale <= total * Scale
  BY <1>1, ProductGrows
<1> DEFINE r == remaining * Scale
           t == total * Scale
<1>3. r \in Nat /\ t \in Nat /\ r <= t
  BY <1>1, <1>2
<1>4. 2 * remaining * Scale = 2 * r
  BY <1>1
<1>5. (2 * total) * (Scale + 1) = 2 * t + 2 * total
  BY <1>1
<1> HIDE DEF r, t
<1>6. 2 * r + total \in Int /\ 0 <= 2 * r + total /\ 2 * total \in Nat \ {0}
  BY <1>3
<1>7. 2 * r + total < (2 * total) * (Scale + 1)
  BY <1>3, <1>5
<1>8. (2 * r + total) \div (2 * total) \in 0 .. Scale
  BY <1>1, <1>6, <1>7, QuotientBounds
<1> QED  BY <1>4, <1>8 DEF Ratio

(* Part of an amount is no more than the amount.                           *)
LEMMA PartBounds ==
    ASSUME NEW dearest \in Nat, NEW amount \in 0 .. dearest,
           NEW remaining \in Nat, NEW total \in Nat \ {0}, remaining <= total
    PROVE  ProrationAmountByTime(amount, total, remaining) \in 0 .. (dearest * Scale)
<1>1. Scale \in Nat
  BY PlanAssumption
<1>2. Ratio(remaining, total) \in 0 .. Scale
  BY RatioBounds
<1>3. PICK ratio : ratio = Ratio(remaining, total)
  OBVIOUS
<1>4. amount * ratio \in Nat /\ amount * ratio <= dearest * Scale
  BY <1>1, <1>2, <1>3, ProductGrows
<1>5. dearest * Scale \in Nat
  BY <1>1
<1> QED  BY <1>3, <1>4, <1>5 DEF ProrationAmountByTime

(* IntPart rounds towards zero from both sides.                            *)
LEMMA IntPartIsOdd ==
    ASSUME NEW parts \in Int
    PROVE  /\ IntPart(parts) \in Int
           /\ IntPart(-parts) = -IntPart(parts)
<1>1. Scale \in Nat \ {0}
  BY PlanAssumption
<1>2. \A a \in Nat : a \div Scale \in Int
  BY <1>1
<1>3. CASE parts = 0
  <2>1. IntPart(0) = 0
    BY <1>1, QuotientBounds DEF IntPart
  <2> QED  BY <1>3, <2>1
<1>4. CASE parts > 0
  BY <1>2, <1>4 DEF IntPart
<1>5. CASE parts < 0
  BY <1>2, <1>5 DEF IntPart
<1> QED  BY <1>3, <1>4, <1>5

(* Finitely many amounts have a greatest one.  The smallest set of amounts *)
(* that had none would still have none without one of them.                *)
LEMMA GreatestAmount ==
    ASSUME NEW S, IsFiniteSet(S), S \subseteq Nat, S # {}
    PROVE  Max(S) \in S /\ \A x \in S : x <= Max(S)
<1> DEFINE HasGreatest(T) == \E x \in T : \A y \in T : y <= x
           Bad == {T \in FiniteSubsetsOf(S) : T # {} /\ ~ HasGreatest(T)}
<1>1. Bad = {}
  <2> SUFFICES ASSUME Bad # {} PROVE FALSE
    OBVIOUS
  <2>1. PICK T \in Bad : \A U \in Bad : ~ (<<U, T>> \in StrictSubsetOrdering(S))
    <3>1. Bad \subseteq FiniteSubsetsOf(S)
      OBVIOUS
    <3> QED  BY <3>1, FS_StrictSubsetOrderingWellFounded, WFMin
  <2>2. T \subseteq S /\ IsFiniteSet(T) /\ T # {} /\ ~ HasGreatest(T)
    BY DEF FiniteSubsetsOf
  <2>3. PICK x \in T : TRUE
    BY <2>2
  <2>4. <<T \ {x}, T>> \in StrictSubsetOrdering(S)
    BY <2>2, <2>3 DEF StrictSubsetOrdering
  <2>5. T \ {x} \in FiniteSubsetsOf(S)
    BY <2>2, FS_RemoveElement DEF FiniteSubsetsOf
  <2>6. T \ {x} = {} \/ HasGreatest(T \ {x})
    BY <2>1, <2>4, <2>5
  <2>7. CASE T \ {x} = {}
    <3>1. \A y \in T : y = x
      BY <2>7
    <3>2. x \in Nat
      BY <2>2, <2>3
    <3>3. \A y \in T : y <= x
      BY <3>1, <3>2
    <3> QED  BY <2>2, <3>3
  <2>8. CASE HasGreatest(T \ {x})
    <3>1. PICK z \in T \ {x} : \A y \in T \ {x} : y <= z
      BY <2>8
    <3>2. x \in Nat /\ z \in Nat /\ \A y \in T : y \in Nat
      BY <2>2, <2>3
    <3>3. CASE x <= z
      BY <2>2, <3>1, <3>3
    <3>4. CASE z <= x
      <4>1. \A y \in T : y <= x
        BY <3>1, <3>2, <3>4
      <4> QED  BY <2>2, <4>1
    <3> QED  BY <3>2, <3>3, <3>4
  <2> QED  BY <2>6, <2>7, <2>8
<1>2. S \in FiniteSubsetsOf(S)
  BY DEF FiniteSubsetsOf
<1>3. HasGreatest(S)
  BY <1>1, <1>2
<1>4. \E x \in S : \A y \in S : x >= y
  BY <1>3
<1>5. Max(S) \in S /\ \A y \in S : Max(S) >= y
  BY <1>4 DEF Max
<1> QED  BY <1>5

(***************************************************************************)
(* Prorations.                                                             *)
(***************************************************************************)

Amounts == ({Amount[p] : p \in Prices} \ {None}) \cup {OldDefault, NewDefault}
Dearest == Max(Amounts)

LEMMA DearestBounds ==
    /\ Dearest \in Nat
    /\ \A a \in Amounts : a \in 0 .. Dearest
<1> DEFINE listed == {Amount[p] : p \in Prices}
<1>1. Amount \in Surjection(Prices, listed)
  BY PlanAssumption DEF Surjection
<1>2. IsFiniteSet(listed \ {None})
  <2>1. IsFiniteSet(listed)
    BY <1>1, PlanAssumption, FS_Surjection
  <2> QED  BY <2>1, FS_Difference
<1>3. IsFiniteSet({OldDefault, NewDefault})
  <2>1. IsFiniteSet({OldDefault})
    BY FS_Singleton
  <2>2. {OldDefault, NewDefault} = {OldDefault} \cup {NewDefault}
    OBVIOUS
  <2> QED  BY <2>1, <2>2, FS_AddElement
<1>4. IsFiniteSet(Amounts)
  BY <1>2, <1>3, FS_Union DEF Amounts
<1>5. Amounts \subseteq Nat /\ Amounts # {}
  BY PlanAssumption DEF Amounts, OldDefault, NewDefault
<1>6. Dearest \in Amounts /\ \A a \in Amounts : a <= Dearest
  BY <1>4, <1>5, GreatestAmount DEF Dearest
<1> QED  BY <1>5, <1>6

LEMMA AmountsUsed ==
    ASSUME NEW p \in Prices
    PROVE  /\ AmountOr(OldDefault, p) \in Amounts
           /\ AmountOr(NewDefault, p) \in Amounts
  BY PlanAssumption DEF AmountOr, Priced, Amounts

InBounds(d) == d # None => d \in -(Dearest * Scale) .. Dearest * Scale

(* CalculateProration answers within the amounts, or not at all.           *)
LEMMA ProrationBounds ==
    ASSUME NEW old \in Prices, NEW new \in Prices,
           NEW start \in Int, NEW end \in Int, now \in Nat
    PROVE  /\ CalculateProration(old, new, start, end) \in Int \cup {None}
           /\ InBounds(CalculateProration(old, new, start, end))
<1> DEFINE a == AmountOr(OldDefault, old)
           b == AmountOr(NewDefault, new)
           total == end - start
           rest == end - now
           inside == start <= now /\ now <= end /\ start # end
<1>1. a \in 0 .. Dearest /\ b \in 0 .. Dearest /\ Dearest \in Nat
  BY DearestBounds, AmountsUsed
<1>2. Scale \in Nat
  BY PlanAssumption
<1>3. Dearest * Scale \in Nat
  BY <1>1, <1>2
<1>4. CASE ~ inside
  BY <1>4 DEF CalculateProration, InBounds
<1>5. CASE inside
  <2>1. rest \in Nat /\ total \in Nat \ {0} /\ rest <= total
    BY <1>5
  <2>2. PICK x, y, whole : /\ x = ProrationAmountByTime(b, total, rest)
                           /\ y = ProrationAmountByTime(a, total, rest)
                           /\ whole = b * Scale
    OBVIOUS
  <2>3. x \in 0 .. Dearest * Scale /\ y \in 0 .. Dearest * Scale
    BY <1>1, <2>1, <2>2, PartBounds
  <2>4. whole \in 0 .. Dearest * Scale
    BY <1>1, <1>2, <2>2, ProductGrows
  <2>5. CalculateProration(old, new, start, end) \in {x - y, whole - y}
    BY <1>5, <2>2 DEF CalculateProration, SameCadenceProration, CrossCadenceProration
  <2> QED  BY <1>3, <2>3, <2>4, <2>5 DEF InBounds
<1> QED  BY <1>4, <1>5

(* Between priced ones of one interval the proration back is the         *)
(* proration forth with its sign turned.                                   *)
LEMMA ProrationBack ==
    ASSUME NEW old, NEW new, Priced(old), Priced(new), CadenceOf(old) = CadenceOf(new),
           NEW start \in Int, NEW end \in Int, now \in Nat,
           CalculateProration(old, new, start, end) # None
    PROVE  CalculateProration(new, old, start, end)
             = -(CalculateProration(old, new, start, end))
<1>1. start <= now /\ now <= end /\ start # end
  BY DEF CalculateProration
<1>2. PICK x, y : /\ x = ProrationAmountByTime(Amount[new], end - start, end - now)
                  /\ y = ProrationAmountByTime(Amount[old], end - start, end - now)
  OBVIOUS
<1>3. CalculateProration(old, new, start, end) = x - y
  BY <1>1, <1>2 DEF CalculateProration, SameCadenceProration, AmountOr
<1>4. CalculateProration(new, old, start, end) = y - x
  BY <1>1, <1>2 DEF CalculateProration, SameCadenceProration, AmountOr
<1>5. x \in Int /\ y \in Int
  <2>1. end - now \in Nat /\ end - start \in Nat \ {0} /\ end - now <= end - start
    BY <1>1
  <2>2. Amount[new] \in 0 .. Amount[new] /\ Amount[old] \in 0 .. Amount[old]
        /\ Amount[new] \in Nat /\ Amount[old] \in Nat
    BY PlanAssumption DEF Priced
  <2> QED  BY <1>2, <2>1, <2>2, PartBounds
<1> QED  BY <1>3, <1>4, <1>5

(* A price that replaces itself is prorated with nothing.                  *)
LEMMA ProrationOfNothing ==
    ASSUME NEW p, Priced(p),
           NEW start \in Int, NEW end \in Int, now \in Nat
    PROVE  CalculateProration(p, p, start, end) \in {None, 0}
<1>1. CASE CalculateProration(p, p, start, end) = None
  BY <1>1
<1>2. CASE CalculateProration(p, p, start, end) # None
  <2>1. CalculateProration(p, p, start, end) = -(CalculateProration(p, p, start, end))
    BY <1>2, ProrationBack
  <2>2. CalculateProration(p, p, start, end) \in Int
    BY <1>2, ProrationBounds, PlanAssumption DEF Priced
  <2> QED  BY <2>1, <2>2
<1> QED  BY <1>1, <1>2

(***************************************************************************)
(* Updates.                                                                *)
(***************************************************************************)

ItemRecord == [price : Prices, unit : Nat \cup {None}, start : Int, end : Int]

Update == [DOMAIN items -> Asked]

LEMMA ItemType ==
    ASSUME NEW its \in Seq(ItemRecord), NEW i \in DOMAIN its
    PROVE  /\ its[i] \in ItemRecord
           /\ its[i].price \in Prices
           /\ its[i].unit \in Nat \cup {None}
           /\ its[i].start \in Int /\ its[i].end \in Int
<1>1. its[i] \in ItemRecord
  <2> PICK R : R = ItemRecord
    OBVIOUS
  <2>1. its \in Seq(R) /\ DOMAIN its = 1 .. Len(its)
    BY LenProperties
  <2>2. its[i] \in R
    BY <2>1, ElementOfSeq
  <2> QED  BY <2>2
<1> QED  BY <1>1 DEF ItemRecord

Left(u) == {i \in DOMAIN items : u[i] # Deleted}

(* A sequence through all of 1 .. n in ascending order is the identity: it *)
(* can neither fall behind at a least place nor run ahead at a last one.   *)
LEMMA AscendingIsIdentity ==
    ASSUME NEW n \in Nat, NEW f \in [1 .. n -> 1 .. n],
           \A i, j \in 1 .. n : i < j => f[i] < f[j]
    PROVE  \A i \in 1 .. n : f[i] = i
<1>1. \A i \in 1 .. n : i <= f[i]
  <2> DEFINE Behind == {i \in 1 .. n : f[i] < i}
  <2> SUFFICES ASSUME Behind # {} PROVE FALSE
    OBVIOUS
  <2>1. Behind \subseteq Nat
    OBVIOUS
  <2>2. PICK i \in Behind : \A j \in Behind : ~ (<<j, i>> \in OpToRel(<, Nat))
    BY <2>1, NatLessThanWellFounded, WFMin
  <2>3. \A j \in Behind : ~ (j < i)
    BY <2>1, <2>2 DEF OpToRel
  <2>4. i # 1
    OBVIOUS
  <2>5. i - 1 \in 1 .. n /\ i - 1 \notin Behind
    BY <2>3, <2>4
  <2>6. f[i - 1] < f[i]
    BY <2>5
  <2> QED  BY <2>5, <2>6
<1>2. \A i \in 1 .. n : f[i] <= i
  <2> DEFINE Ahead == {k \in 0 .. n - 1 : f[n - k] > n - k}
  <2> SUFFICES ASSUME NEW first \in 1 .. n, ~ (f[first] <= first) PROVE FALSE
    OBVIOUS
  <2>1. Ahead # {}
    <3>1. n - first \in 0 .. n - 1 /\ n - (n - first) = first
      OBVIOUS
    <3>2. f[first] > first
      OBVIOUS
    <3>3. n - first \in Ahead
      BY <3>1, <3>2
    <3> QED  BY <3>3
  <2>2. Ahead \subseteq Nat
    OBVIOUS
  <2>3. PICK k \in Ahead : \A j \in Ahead : ~ (<<j, k>> \in OpToRel(<, Nat))
    BY <2>1, <2>2, NatLessThanWellFounded, WFMin
  <2>4. \A j \in Ahead : ~ (j < k)
    BY <2>2, <2>3 DEF OpToRel
  <2>5. k # 0
    OBVIOUS
  <2>6. k - 1 \in 0 .. n - 1 /\ k - 1 \notin Ahead
    <3>1. k \in 0 .. n - 1
      OBVIOUS
    <3>2. k - 1 \in 0 .. n - 1 /\ k - 1 < k
      BY <2>5, <3>1
    <3> QED  BY <2>4, <3>2
  <2>7. n - k \in 1 .. n /\ n - (k - 1) \in 1 .. n /\ n - (k - 1) = n - k + 1
    BY <2>6
  <2>8. f[n - k] < f[n - (k - 1)]
    BY <2>7
  <2>9. f[n - (k - 1)] <= n - (k - 1)
    BY <2>6, <2>7
  <2> QED  BY <2>7, <2>8, <2>9
<1> QED  BY <1>1, <1>2

LEMMA LeftIsFinite ==
    ASSUME items \in Seq(ItemRecord), NEW u
    PROVE  /\ IsFiniteSet(Left(u))
           /\ Cardinality(Left(u)) \in Nat
           /\ Cardinality(Left(u)) <= Len(items)
           /\ Cardinality(Left(u)) = Len(items) => Left(u) = DOMAIN items
<1>1. DOMAIN items = 1 .. Len(items) /\ Len(items) \in Nat
  BY LenProperties
<1>2. IsFiniteSet(1 .. Len(items)) /\ Cardinality(1 .. Len(items)) = Len(items)
  BY <1>1, FS_Interval
<1>3. Left(u) \in SUBSET (1 .. Len(items))
  BY <1>1 DEF Left
<1>4. IsFiniteSet(Left(u))
  BY <1>2, <1>3, FS_Subset
<1>5. Cardinality(Left(u)) \in Nat
  BY <1>4, FS_CardinalityType
<1> QED  BY <1>1, <1>2, <1>3, <1>4, <1>5, FS_Subset

LEMMA RepricingType ==
    ASSUME items \in Seq(ItemRecord), NEW u, NEW i \in DOMAIN items
    PROVE  /\ Repricing(u, i) \in ItemRecord
           /\ Repricing(u, i).start = items[i].start
           /\ Repricing(u, i).end = items[i].end
<1>1. items[i] \in ItemRecord
  BY ElementOfSeq, LenProperties
<1> QED  BY <1>1 DEF Repricing, ItemRecord

(* The items after an update are items, no more than before.               *)
LEMMA UpdatedType ==
    ASSUME items \in Seq(ItemRecord), NEW u, NEW after \in Updated(u)
    PROVE  /\ after \in Seq(ItemRecord)
           /\ Len(after) = Cardinality(Left(u))
<1>1. PICK f \in Ascending(Left(u)) : after = [n \in DOMAIN f |-> Repricing(u, f[n])]
  BY DEF Updated, Left
<1>2. f \in [1 .. Cardinality(Left(u)) -> Left(u)]
  BY DEF Ascending
<1>3. PICK n \in Nat : n = Cardinality(Left(u))
  BY LeftIsFinite
<1>4. DOMAIN f = 1 .. n
  BY <1>2, <1>3
<1>5. \A m \in 1 .. n : f[m] \in DOMAIN items
  BY <1>2, <1>3 DEF Left
<1>6. \A m \in 1 .. n : Repricing(u, f[m]) \in ItemRecord
  BY <1>5, RepricingType
<1>7. after \in [1 .. n -> ItemRecord]
  BY <1>1, <1>4, <1>6
<1>8. after \in Seq(ItemRecord) /\ Len(after) = n
  BY <1>7, SeqDef, LenProperties
<1> QED  BY <1>3, <1>8

(* If none was deleted they are in their places.                           *)
LEMMA UpdatedInPlace ==
    ASSUME items \in Seq(ItemRecord), NEW u, NEW after \in Updated(u),
           Len(after) = Len(items)
    PROVE  after = [i \in DOMAIN items |-> Repricing(u, i)]
<1>1. PICK f \in Ascending(Left(u)) : after = [n \in DOMAIN f |-> Repricing(u, f[n])]
  BY DEF Updated, Left
<1>2. PICK n \in Nat : n = Len(items) /\ DOMAIN items = 1 .. n
  BY LenProperties
<1>3. Cardinality(Left(u)) = n /\ Left(u) = 1 .. n
  BY <1>2, UpdatedType, LeftIsFinite
<1>4. f \in [1 .. n -> 1 .. n] /\ \A i, j \in 1 .. n : i < j => f[i] < f[j]
  BY <1>3 DEF Ascending
<1>5. \A i \in 1 .. n : f[i] = i
  BY <1>4, AscendingIsIdentity
<1> QED  BY <1>1, <1>2, <1>4, <1>5

(* The last item that is repriced is one that stays.                       *)
LEMMA LastRepriced ==
    ASSUME items \in Seq(ItemRecord), NEW u, Repriced(u) # {}
    PROVE  /\ Max(Repriced(u)) \in Repriced(u)
           /\ \A i \in Repriced(u) : i <= Max(Repriced(u))
           /\ Max(Repriced(u)) \in Left(u)
<1>1. PICK n \in Nat : DOMAIN items = 1 .. n
  BY LenProperties
<1>2. IsFiniteSet(1 .. n)
  BY FS_Interval
<1>3. Repriced(u) \in SUBSET (1 .. n)
  BY <1>1 DEF Repriced
<1>4. IsFiniteSet(Repriced(u)) /\ Repriced(u) \subseteq Nat
  BY <1>2, <1>3, FS_Subset
<1>5. /\ Max(Repriced(u)) \in Repriced(u)
      /\ \A i \in Repriced(u) : i <= Max(Repriced(u))
  BY <1>4, GreatestAmount
<1> QED  BY <1>5, PlanAssumption DEF Repriced, Left

(* The proration of an update has its type and its bounds.                 *)
LEMMA UpdateBounds ==
    ASSUME items \in Seq(ItemRecord), now \in Nat, NEW u, NEW b,
           NEW after \in Updated(u)
    PROVE  /\ ProrationOf(u, b, after) \in Int \cup {None}
           /\ InBounds(ProrationOf(u, b, after))
<1>1. CASE b = "none" \/ Repriced(u) = {}
  BY <1>1 DEF ProrationOf, InBounds
<1>2. CASE ~ (b = "none" \/ Repriced(u) = {})
  <2>1. PICK i : i = Max(Repriced(u)) /\ i \in Repriced(u) /\ i \in Left(u)
    BY <1>2, LastRepriced
  <2>2. u[i] \in Prices /\ i \in DOMAIN items
    BY <2>1 DEF Repriced
  <2>3. items[i].price \in Prices
    BY <2>2, ItemType
  <2>4. after \in Seq(ItemRecord) /\ Len(after) = Cardinality(Left(u))
    BY UpdatedType
  <2>5. Len(after) # 0
    BY <2>1, <2>4, LeftIsFinite, FS_EmptySet
  <2>6. 1 \in DOMAIN after /\ after[1] \in ItemRecord
    BY <2>4, <2>5, LenProperties, ElementOfSeq
  <2>7. after[1].start \in Int /\ after[1].end \in Int
    BY <2>6 DEF ItemRecord
  <2>8. ProrationOf(u, b, after)
          = CalculateProration(items[i].price, u[i], after[1].start, after[1].end)
    BY <1>2, <2>1 DEF ProrationOf
  <2> QED  BY <2>2, <2>3, <2>7, <2>8, ProrationBounds
<1> QED  BY <1>1, <1>2

(* What is invoiced has its type.                                          *)
LEMMA InvoicedType ==
    ASSUME NEW b \in Behaviors, NEW d \in Int \cup {None},
           NEW after \in Seq(ItemRecord)
    PROVE  Invoiced(b, d, after) \in Int \cup {None}
<1>1. FirstUnit(after) \in Int
  <2>1. CASE after = <<>>
    BY <2>1 DEF FirstUnit
  <2>2. CASE after # <<>>
    <3>1. after[1] \in ItemRecord
      BY <2>2, LenProperties, ElementOfSeq, EmptySeq
    <3> QED  BY <3>1, PlanAssumption DEF FirstUnit, ItemRecord
  <2> QED  BY <2>1, <2>2
<1>2. d # None => IntPart(d) \in Int
  BY IntPartIsOdd
<1>3. b \in {"none", "create_prorations", "always_invoice"}
  BY PlanAssumption
<1>4. CASE b = "none" \/ d = None \/ d = 0
  BY <1>4 DEF Invoiced
<1>5. CASE d \notin {None, 0} /\ b = "create_prorations"
  BY <1>1, <1>5 DEF Invoiced
<1>6. CASE d \notin {None, 0} /\ b = "always_invoice"
  BY <1>2, <1>6 DEF Invoiced
<1> QED  BY <1>3, <1>4, <1>5, <1>6

(***************************************************************************)
(* Every variable has its type.                                            *)
(***************************************************************************)

IInv ==
    /\ items \in Seq(ItemRecord)
    /\ now \in 0 .. MaxTime
    /\ invoice \in Int \cup {None}
    /\ due \in Int \cup {None}
    /\ InBounds(due)
    /\ behavior \in Behaviors \cup {None}
    /\ paid \in Int
    /\ plain \in BOOLEAN

LEMMA InitInv == Init => IInv
<1> SUFFICES ASSUME Init PROVE IInv
  OBVIOUS
<1>1. PICK plan \in Plans : items \in Subscribed(plan)
  BY DEF Init
<1>2. plan \in Seq(Prices)
  BY <1>1, PlanAssumption
<1>3. PICK n \in Nat : DOMAIN plan = 1 .. n /\ n = Len(plan)
  BY <1>2, LenProperties
<1>4. \A i \in 1 .. n : plan[i] \in Prices
  BY <1>2, <1>3, ElementOfSeq
<1>5. \A p \in Prices : /\ Length[CadenceOf(p)] \in Int
                         /\ AmountOr(None, p) \in Nat \cup {None}
  BY PlanAssumption DEF CadenceOf, AmountOr, Cadences
<1>6. Periods \subseteq [start : Int, end : Int]
  <2> SUFFICES ASSUME NEW x \in Periods PROVE x \in [start : Int, end : Int]
    BY Zenon
  <2>1. Length["month"] \in Int /\ \A t \in Given : t \in Int
    BY PlanAssumption DEF Cadences
  <2>2. PICK t \in Given \cup {0}, e \in Given \cup {Length["month"]} :
               x = [start |-> t, end |-> e]
    BY DEF Periods
  <2>3. t \in Int /\ e \in Int
    BY <2>1
  <2> QED  BY <2>2, <2>3
<1>7. /\ \A i \in 1 .. n :
            Item(plan[i], AmountOr(None, plan[i]), 0, Length[CadenceOf(plan[i])])
              \in ItemRecord
      /\ \A period \in [1 .. n -> Periods] : \A i \in 1 .. n :
            Item(plan[i], None, period[i].start, period[i].end) \in ItemRecord
  <2>1. ASSUME NEW period \in [1 .. n -> Periods], NEW i \in 1 .. n
        PROVE  Item(plan[i], None, period[i].start, period[i].end) \in ItemRecord
    <3>1. period[i] \in [start : Int, end : Int]
      BY <1>6
    <3> QED  BY <1>4, <3>1 DEF Item, ItemRecord
  <2> QED  BY <1>4, <1>5, <2>1 DEF Item, ItemRecord
<1>8. items \in [1 .. n -> ItemRecord]
  <2>1. CASE items = [i \in DOMAIN plan |->
                Item(plan[i], AmountOr(None, plan[i]), 0, Length[CadenceOf(plan[i])])]
    BY <1>3, <1>7, <2>1
  <2>2. ASSUME NEW period \in [1 .. n -> Periods],
               items = [i \in DOMAIN plan |->
                          Item(plan[i], None, period[i].start, period[i].end)]
        PROVE  items \in [1 .. n -> ItemRecord]
    BY <1>3, <1>7, <2>2
  <2> QED  BY <1>1, <1>3, <2>1, <2>2 DEF Subscribed
<1>9. items \in Seq(ItemRecord)
  BY <1>8, SeqDef
<1>10. plain \in BOOLEAN
  BY ZenonT(30) DEF Init
<1> QED  BY <1>9, <1>10, PlanAssumption DEF Init, IInv, InBounds

LEMMA ChangeInv ==
    ASSUME IInv, NEW u \in [DOMAIN items -> Asked], NEW b \in Behaviors, Change(u, b)
    PROVE  IInv'
<1>1. items \in Seq(ItemRecord) /\ now \in Nat /\ paid \in Int
  BY PlanAssumption DEF IInv
<1>2. items' \in Updated(u)
  BY DEF Change
<1>3. items' \in Seq(ItemRecord)
  BY <1>1, <1>2, UpdatedType
<1>4. due' \in Int \cup {None} /\ InBounds(due')
  BY <1>1, <1>2, UpdateBounds DEF Change
<1>5. InBounds(due)'
  BY <1>4 DEF InBounds, Dearest, Amounts
<1>6. invoice' \in Int \cup {None}
  BY <1>3, <1>4, InvoicedType DEF Change
<1>7. paid' \in Int
  BY <1>1, <1>6 DEF Change
<1>8. behavior' \in Behaviors
  BY DEF Change
<1>9. plain' \in BOOLEAN
  BY DEF Change
<1>10. now' \in 0 .. MaxTime
  BY DEF Change, IInv
<1> QED  BY <1>3, <1>4, <1>5, <1>6, <1>7, <1>8, <1>9, <1>10 DEF IInv

LEMMA RenewInv ==
    ASSUME IInv, Renew
    PROVE  IInv'
<1>1. items \in Seq(ItemRecord)
  BY DEF IInv
<1>2. CASE items = <<>>
  <2>1. items' = items
    BY <1>2 DEF Renew
  <2> QED  BY <2>1, PlanAssumption DEF IInv, Renew, InBounds, Dearest, Amounts
<1>3. CASE items # <<>>
  <2> DEFINE next(x) == Item(x.price, x.unit, x.end, x.end + Length["month"])
  <2>1. 1 \in DOMAIN items /\ items[1] \in ItemRecord
    BY <1>1, <1>3, LenProperties, ElementOfSeq, EmptySeq
  <2>2. Length["month"] \in Nat \ {0}
    BY PlanAssumption DEF Cadences
  <2>3. next(items[1]) \in ItemRecord
    BY <2>1, <2>2 DEF ItemRecord, Item
  <2>4. items' = [items EXCEPT ![1] = next(items[1])]
    BY <1>3 DEF Renew
  <2>5. items' \in Seq(ItemRecord)
    BY <1>1, <2>1, <2>3, <2>4, ExceptSeq
  <2> QED  BY <2>5, PlanAssumption DEF IInv, Renew, InBounds, Dearest, Amounts
<1> QED  BY <1>2, <1>3

LEMMA NextInv == IInv /\ [Next]_vars => IInv'
<1> SUFFICES ASSUME IInv, [Next]_vars PROVE IInv'
  OBVIOUS
<1>1. CASE Tick
  BY <1>1, PlanAssumption DEF IInv, Tick, InBounds, Dearest, Amounts
<1>2. CASE \E u \in [DOMAIN items -> Asked], b \in Behaviors : Change(u, b)
  BY <1>2, ChangeInv
<1>3. CASE Renew
  BY <1>3, RenewInv
<1>4. CASE UNCHANGED vars
  BY <1>4 DEF vars, IInv, InBounds, Dearest, Amounts
<1> QED  BY <1>1, <1>2, <1>3, <1>4 DEF Next

LEMMA AlwaysInv == Spec => []IInv
  BY InitInv, NextInv, PTL DEF Spec

(* For any prices, plans and periods, those a client makes empty or turns  *)
(* round included, every variable of the plan changes has its type.        *)
THEOREM TypeCorrect == Spec => []TypeOK
<1>1. IInv => TypeOK
  BY DEF IInv, TypeOK, ItemRecord
<1> QED  BY <1>1, AlwaysInv, PTL

(* CalculateProration neither charges nor credits more than the dearest    *)
(* price, after any changes and renewals and at any time.                  *)
THEOREM Bounded == Spec => []DueIsBounded
<1>1. IInv => DueIsBounded
  <2> SUFFICES ASSUME IInv, due # None
               PROVE  /\ due <= Dearest * Scale
                      /\ due >= -(Dearest * Scale)
    BY DEF DueIsBounded, Dearest, Amounts
  <2>1. Dearest * Scale \in Int
    BY DearestBounds, PlanAssumption
  <2> QED  BY <2>1 DEF IInv, InBounds
<1> QED  BY <1>1, AlwaysInv, PTL

(***************************************************************************)
(* Changing back.                                                          *)
(***************************************************************************)

(* An item whose price replaces itself, if it is the last, has nothing     *)
(* invoiced; so the one whose price is another is the one prorated.        *)
LEMMA WhatIsProrated ==
    ASSUME items \in Seq(ItemRecord), now \in Nat,
           NEW u, items' \in Updated(u), Len(items') = Len(items),
           AllPriced, NEW i \in DOMAIN items, OnlyReplaces(i),
           ProrationOf(u, "always_invoice", items') \notin {None, 0}
    PROVE  ProrationOf(u, "always_invoice", items')
             = CalculateProration(items[i].price, items'[i].price,
                                  items[1].start, items[1].end)
<1> PICK after : after = items'
  OBVIOUS
<1>1. after = [n \in DOMAIN items |-> Repricing(u, n)]
  BY UpdatedInPlace
<1>2. Repriced(u) # {}
  BY DEF ProrationOf
<1>3. PICK k : k = Max(Repriced(u)) /\ k \in Repriced(u)
  BY <1>2, LastRepriced
<1>4. k \in DOMAIN items /\ u[k] \in Prices
  BY <1>3 DEF Repriced
<1>5. items[k] \in ItemRecord /\ after[k].price = u[k]
  <2>1. items[k] \in ItemRecord
    BY <1>4, LenProperties, ElementOfSeq
  <2> QED  BY <1>1, <1>4, <2>1 DEF Repricing, ItemRecord
<1>6. 1 \in DOMAIN items
  BY <1>4, LenProperties
<1>7. items[1].start \in Int /\ items[1].end \in Int
  BY <1>6, ItemType
<1>8. after[1].start = items[1].start /\ after[1].end = items[1].end
  BY <1>1, <1>6, RepricingType
<1>9. ProrationOf(u, "always_invoice", items')
        = CalculateProration(items[k].price, after[k].price, items[1].start, items[1].end)
  BY <1>2, <1>3, <1>5, <1>8 DEF ProrationOf
<1>10. k = i
  <2> SUFFICES ASSUME k # i PROVE FALSE
    OBVIOUS
  <2>1. after[k].price = items[k].price /\ Priced(items[k].price)
    BY <1>4 DEF OnlyReplaces, AllPriced
  <2> QED  BY <1>7, <1>9, <2>1, ProrationOfNothing
<1> QED  BY <1>9, <1>10

LEMMA ChangeRefunds ==
    ASSUME IInv, NEW u \in [DOMAIN items -> Asked], Change(u, "always_invoice"),
           invoice' # None, Len(items') = Len(items), AllPriced,
           NEW i \in DOMAIN items, OnlyReplaces(i)
    PROVE  InvoicedBack(i) = -(invoice')
<1>1. items \in Seq(ItemRecord) /\ now \in Nat
  BY PlanAssumption DEF IInv
<1>2. items' \in Updated(u) /\ due' = ProrationOf(u, "always_invoice", items')
      /\ invoice' = Invoiced("always_invoice", due', items')
  BY DEF Change
<1>3. due' \notin {None, 0}
  BY <1>2 DEF Invoiced
<1>4. PICK old, new, start, end : /\ old = items[i].price /\ new = items'[i].price
                                  /\ start = items[1].start /\ end = items[1].end
  OBVIOUS
<1>5. PICK d : d = CalculateProration(old, new, start, end) /\ d = due'
  BY <1>1, <1>2, <1>3, <1>4, WhatIsProrated
<1>6. Priced(old) /\ Priced(new) /\ CadenceOf(old) = CadenceOf(new)
  BY <1>4 DEF AllPriced, OnlyReplaces
<1>7. start \in Int /\ end \in Int
  <2>1. 1 \in DOMAIN items
    BY <1>1, LenProperties
  <2> QED  BY <1>1, <1>4, <2>1, ItemType
<1>8. d \in Int
  BY <1>1, <1>3, <1>5, <1>6, <1>7, ProrationBounds, PlanAssumption DEF Priced
<1>9. CalculateProration(new, old, start, end) = -d
  <2>1. CalculateProration(old, new, start, end) # None
    BY <1>3, <1>5
  <2>2. CalculateProration(new, old, start, end)
          = -(CalculateProration(old, new, start, end))
    BY <1>1, <1>6, <1>7, <2>1, ProrationBack
  <2> QED  BY <1>5, <2>2
<1>10. d \notin {None, 0} /\ -d \notin {None, 0}
  <2>1. d # None /\ d # 0
    BY <1>3, <1>5
  <2>2. -d \in Int /\ -d # 0
    BY <1>8, <2>1
  <2>3. None \notin Int
    BY PlanAssumption
  <2> QED  BY <2>1, <2>2, <2>3
<1>11. invoice' = IntPart(d)
  BY <1>2, <1>5, <1>10 DEF Invoiced
<1>12. Invoiced("always_invoice", -d, items) = IntPart(-d)
  BY <1>10 DEF Invoiced
<1> QED  BY <1>4, <1>8, <1>9, <1>11, <1>12, IntPartIsOdd DEF InvoicedBack

(* A change made with always_invoice, between prices of one interval and   *)
(* with an amount, is refunded to the cent by the change back, whatever    *)
(* came before it.                                                         *)
THEOREM Refunds == Spec => ChangingBackRefunds
<1>1. IInv /\ [Next]_vars =>
        \A i \in DOMAIN items :
          /\ changes' # changes /\ behavior' = "always_invoice"
          /\ invoice' # None
          /\ Len(items') = Len(items) /\ AllPriced
          /\ OnlyReplaces(i)
          => InvoicedBack(i) = -(invoice')
  <2> SUFFICES ASSUME IInv, [Next]_vars, NEW i \in DOMAIN items,
                      changes' # changes, behavior' = "always_invoice",
                      invoice' # None, Len(items') = Len(items), AllPriced,
                      OnlyReplaces(i)
               PROVE  InvoicedBack(i) = -(invoice')
    OBVIOUS
  <2>1. PICK u \in [DOMAIN items -> Asked], b \in Behaviors : Change(u, b)
    BY DEF Next, Tick, Renew, vars
  <2>2. b = "always_invoice"
    BY <2>1 DEF Change
  <2> QED  BY <2>1, <2>2, ChangeRefunds
<1> QED  BY <1>1, AlwaysInv, PTL DEF Spec, ChangingBackRefunds

(***************************************************************************)
(* The cost of items.                                                      *)
(***************************************************************************)

(* A set of natural numbers has a least one.                               *)
LEMMA LeastNatural ==
    ASSUME NEW S, S \subseteq Nat, S # {}
    PROVE  \E i \in S : \A j \in S : i <= j
<1>1. PICK i \in S : \A j \in S : ~ (<<j, i>> \in OpToRel(<, Nat))
  BY NatLessThanWellFounded, WFMin
<1>2. \A j \in S : ~ (j < i)
  BY <1>1 DEF OpToRel
<1> QED  BY <1>2


(* What the first n items cost together.                                   *)
Costs(f, its) ==
    /\ f \in [0 .. Len(its) -> Int]
    /\ f[0] = 0
    /\ \A n \in 1 .. Len(its) : f[n] = f[n - 1] + AmountOr(0, its[n].price)

(* The recursive definition has a solution for every number of items:      *)
(* there is no least number for which it has none.                         *)
LEMMA CostsExist ==
    ASSUME NEW its, NEW top \in Nat
    PROVE  \E f : f = [n \in 0 .. top |->
                         IF n = 0 THEN 0 ELSE f[n - 1] + AmountOr(0, its[n].price)]
<1> DEFINE Solves(f, n) ==
             f = [m \in 0 .. n |-> IF m = 0 THEN 0 ELSE f[m - 1] + AmountOr(0, its[m].price)]
           Bad == {n \in Nat : ~ \E f : Solves(f, n)}
<1> SUFFICES ASSUME Bad # {} PROVE FALSE
  OBVIOUS
<1>1. PICK n \in Bad : \A m \in Bad : n <= m
  BY LeastNatural
<1>2. n \in Nat /\ ~ \E f : Solves(f, n)
  OBVIOUS
<1>3. n # 0
  <2>1. [m \in 0 .. 0 |-> 0]
          = [m \in 0 .. 0 |-> IF m = 0 THEN 0
                              ELSE [k \in 0 .. 0 |-> 0][m - 1] + AmountOr(0, its[m].price)]
    OBVIOUS
  <2> QED  BY <1>2, <2>1
<1>4. n - 1 \in Nat /\ n - 1 \notin Bad
  <2>1. n - 1 \in Nat /\ ~ (n <= n - 1)
    BY <1>2, <1>3
  <2> HIDE DEF Bad
  <2> QED  BY <1>1, <2>1
<1>5. PICK f : Solves(f, n - 1)
  BY <1>4
<1> DEFINE g == [m \in 0 .. n |-> IF m = n THEN f[n - 1] + AmountOr(0, its[n].price) ELSE f[m]]
<1>6. \A m \in 0 .. n : g[m] = IF m = 0 THEN 0 ELSE g[m - 1] + AmountOr(0, its[m].price)
  BY <1>2, <1>3, <1>5
<1>7. Solves(g, n)
  <2>1. g = [m \in 0 .. n |-> g[m]]
    OBVIOUS
  <2> HIDE DEF g
  <2> QED  BY <1>6, <2>1
<1> QED  BY <1>2, <1>7

LEMMA ItemAmounts ==
    \A x \in ItemRecord : x.price \in Prices /\ AmountOr(0, x.price) \in Nat
  BY PlanAssumption DEF ItemRecord, AmountOr, Priced

(* CostOf adds up the amounts of the items.                                *)
LEMMA CostsOfItems ==
    ASSUME NEW its \in Seq(ItemRecord)
    PROVE  \E f : Costs(f, its) /\ CostOf(its) = f[Len(its)]
<1> DEFINE Solves(f) ==
             f = [n \in 0 .. Len(its) |->
                    IF n = 0 THEN 0 ELSE f[n - 1] + AmountOr(0, its[n].price)]
           cost == CHOOSE f : Solves(f)
<1>1. CostOf(its) = cost[Len(its)]
  BY DEF CostOf
<1>2. Len(its) \in Nat /\ DOMAIN its = 1 .. Len(its)
  BY LenProperties
<1>3. \E f : Solves(f)
  BY <1>2, CostsExist
<1>4. Solves(cost)
  BY <1>3
<1> HIDE DEF cost
<1>5. cost[0] = 0 /\ \A n \in 1 .. Len(its) : cost[n] = cost[n - 1] + AmountOr(0, its[n].price)
  BY <1>2, <1>4
<1>6. \A n \in 1 .. Len(its) : AmountOr(0, its[n].price) \in Int
  BY ElementOfSeq, ItemAmounts
<1>7. \A n \in 0 .. Len(its) : cost[n] \in Int
  <2> DEFINE Bad == {n \in 0 .. Len(its) : cost[n] \notin Int}
  <2> SUFFICES ASSUME Bad # {} PROVE FALSE
    OBVIOUS
  <2>1. PICK n \in Bad : \A m \in Bad : n <= m
    <3>1. Bad \subseteq Nat
      BY <1>2
    <3> QED  BY <3>1, LeastNatural
  <2>2. n \in 0 .. Len(its) /\ cost[n] \notin Int
    OBVIOUS
  <2>3. n # 0
    BY <1>5, <2>2
  <2>4. n - 1 \in 0 .. Len(its) /\ n - 1 \notin Bad
    BY <1>2, <2>1, <2>2, <2>3
  <2>5. cost[n - 1] \in Int
    BY <2>4
  <2> QED  BY <1>2, <1>5, <1>6, <2>2, <2>3, <2>5
<1>8. cost = [n \in 0 .. Len(its) |-> cost[n]]
  BY <1>4
<1>9. Costs(cost, its)
  BY <1>5, <1>7, <1>8 DEF Costs
<1> QED  BY <1>1, <1>9

(* Items whose prices are those of others but for one cost as much, but    *)
(* for the difference of that one.                                         *)
LEMMA CostOfReplaced ==
    ASSUME NEW its \in Seq(ItemRecord), NEW after \in Seq(ItemRecord),
           Len(after) = Len(its), NEW i \in 1 .. Len(its),
           \A n \in 1 .. Len(its) : n # i => after[n].price = its[n].price
    PROVE  /\ CostOf(its) \in Int
           /\ CostOf(after)
                = CostOf(its) + (AmountOr(0, after[i].price) - AmountOr(0, its[i].price))
<1>1. Len(its) \in Nat
  BY LenProperties
<1>2. PICK f : Costs(f, its) /\ CostOf(its) = f[Len(its)]
  BY CostsOfItems
<1>3. PICK g : Costs(g, after) /\ CostOf(after) = g[Len(its)]
  BY CostsOfItems
<1>4. PICK d : d = AmountOr(0, after[i].price) - AmountOr(0, its[i].price)
  OBVIOUS
<1>5. \A n \in 1 .. Len(its) :
         AmountOr(0, its[n].price) \in Int /\ AmountOr(0, after[n].price) \in Int
  BY ElementOfSeq, ItemAmounts
<1>6. d \in Int
  BY <1>4, <1>5
<1> DEFINE Agree(n) == g[n] = IF n < i THEN f[n] ELSE f[n] + d
           Bad == {n \in 0 .. Len(its) : ~ Agree(n)}
<1>7. Bad = {}
  <2> SUFFICES ASSUME Bad # {} PROVE FALSE
    OBVIOUS
  <2>1. PICK n \in Bad : \A m \in Bad : n <= m
    <3>1. Bad \subseteq Nat
      BY <1>1
    <3> QED  BY <3>1, LeastNatural
  <2>2. n \in 0 .. Len(its) /\ ~ Agree(n)
    OBVIOUS
  <2>3. n # 0
    BY <1>2, <1>3, <2>2 DEF Costs
  <2>4. n - 1 \in 0 .. Len(its) /\ n - 1 \notin Bad /\ n \in 1 .. Len(its)
    BY <1>1, <2>1, <2>2, <2>3
  <2>5. Agree(n - 1)
    BY <2>4
  <2>6. f[n] = f[n - 1] + AmountOr(0, its[n].price) /\ f[n - 1] \in Int /\ f[n] \in Int
    BY <1>2, <2>2, <2>4 DEF Costs
  <2>7. g[n] = g[n - 1] + AmountOr(0, after[n].price) /\ g[n - 1] \in Int
    BY <1>3, <2>4 DEF Costs
  <2>8. CASE n = i
    <3>1. AmountOr(0, its[i].price) \in Int /\ AmountOr(0, after[i].price) \in Int
      BY <1>5
    <3>2. g[n - 1] = f[n - 1]
      BY <1>1, <2>4, <2>5, <2>8
    <3>3. g[n] = f[n] + d
      BY <1>4, <2>6, <2>7, <2>8, <3>1, <3>2
    <3> QED  BY <2>2, <2>8, <3>3
  <2>9. CASE n # i
    <3>1. after[n].price = its[n].price
      BY <2>4, <2>9
    <3>2. PICK a \in Int : a = AmountOr(0, its[n].price)
      BY <1>5, <2>4
    <3>3. f[n] = f[n - 1] + a /\ g[n] = g[n - 1] + a
      BY <2>6, <2>7, <3>1, <3>2
    <3>4. g[n - 1] = IF n < i THEN f[n - 1] ELSE f[n - 1] + d
      BY <1>1, <2>4, <2>5, <2>9
    <3> QED  BY <1>6, <2>2, <2>6, <2>7, <3>2, <3>3, <3>4
  <2> QED  BY <2>8, <2>9
<1>8. Agree(Len(its))
  BY <1>1, <1>7
<1>9. f[Len(its)] \in Int
  BY <1>1, <1>2 DEF Costs
<1> QED  BY <1>2, <1>3, <1>4, <1>8, <1>9

(***************************************************************************)
(* What one change is invoiced too much or too little.                     *)
(***************************************************************************)

LEMMA ProductWithin ==
    ASSUME NEW m \in Nat, NEW n \in Nat, NEW a \in -m .. m, NEW b \in -n .. n
    PROVE  a * b \in -(m * n) .. (m * n)
<1>1. (m - a) * (n + b) >= 0 /\ (m + a) * (n - b) >= 0
  OBVIOUS
<1>2. (m - a) * (n - b) >= 0 /\ (m + a) * (n + b) >= 0
  OBVIOUS
<1>3. (m - a) * (n + b) + (m + a) * (n - b) = 2 * (m * n) - 2 * (a * b)
  OBVIOUS
<1>4. (m - a) * (n - b) + (m + a) * (n + b) = 2 * (m * n) + 2 * (a * b)
  OBVIOUS
<1>5. m * n \in Int /\ a * b \in Int
  OBVIOUS
<1>6. PICK x, y : x = m * n /\ y = a * b
  OBVIOUS
<1>7. 2 * x - 2 * y >= 0
  BY <1>1, <1>3, <1>6
<1>8. 2 * x + 2 * y >= 0
  BY <1>2, <1>4, <1>6
<1> QED  BY <1>5, <1>6, <1>7, <1>8

(* A factor is within a bound its multiple is within the multiple of.      *)
LEMMA FactorWithin ==
    ASSUME NEW s \in Nat \ {0}, NEW k \in Int, NEW b \in Nat,
           s * k \in -(s * b) .. (s * b)
    PROVE  k \in -b .. b
<1>1. k <= b
  <2> SUFFICES ASSUME k >= b + 1 PROVE FALSE
    OBVIOUS
  <2>1. s * k = s * b + s + s * (k - (b + 1))
    OBVIOUS
  <2>2. s * (k - (b + 1)) >= 0
    OBVIOUS
  <2>3. s * k \in Int /\ s * b \in Int
    OBVIOUS
  <2> QED  BY <2>1, <2>2, <2>3
<1>2. -b <= k
  <2> SUFFICES ASSUME k <= -b - 1 PROVE FALSE
    OBVIOUS
  <2>1. s * k = -(s * b) - s - s * (-b - 1 - k)
    OBVIOUS
  <2>2. s * (-b - 1 - k) >= 0
    OBVIOUS
  <2>3. s * k \in Int /\ s * b \in Int
    OBVIOUS
  <2> QED  BY <2>1, <2>2, <2>3
<1> QED  BY <1>1, <1>2

(* IntPart drops less than one.                                            *)
LEMMA IntPartIsClose ==
    ASSUME NEW parts \in Int
    PROVE  /\ IntPart(parts) \in Int
           /\ parts - Scale * IntPart(parts) \in -Scale .. Scale
<1>1. Scale \in Nat \ {0}
  BY PlanAssumption
<1>2. \A a \in Nat : /\ a \div Scale \in Int
                     /\ Scale * (a \div Scale) <= a
                     /\ a < Scale * (a \div Scale) + Scale
  BY <1>1
<1>3. CASE parts >= 0
  <2>1. PICK q \in Int : q = parts \div Scale
    BY <1>2, <1>3
  <2>2. Scale * q \in Int
    BY <1>1
  <2>3. Scale * q <= parts /\ parts < Scale * q + Scale
    BY <1>2, <1>3, <2>1
  <2> QED  BY <1>1, <1>3, <2>1, <2>2, <2>3 DEF IntPart
<1>4. CASE parts < 0
  <2>1. PICK q \in Int : q = (-parts) \div Scale
    BY <1>2, <1>4
  <2>2. Scale * q \in Int /\ Scale * (-q) = -(Scale * q)
    BY <1>1
  <2>3. Scale * q <= -parts /\ -parts < Scale * q + Scale
    BY <1>2, <1>4, <2>1
  <2> QED  BY <1>1, <1>4, <2>1, <2>2, <2>3 DEF IntPart
<1> QED  BY <1>3, <1>4

(* Ratio is what is left of the period to half a part.                     *)
LEMMA RatioIsClose ==
    ASSUME NEW remaining \in Nat, NEW total \in Nat \ {0}, remaining <= total
    PROVE  /\ Ratio(remaining, total) \in Int
           /\ 2 * (total * Ratio(remaining, total)) - 2 * (remaining * Scale)
                \in -total .. total
<1>1. Scale \in Nat
  BY PlanAssumption
<1>2. PICK r \in Nat : r = remaining * Scale
  BY <1>1
<1>3. 2 * remaining * Scale = 2 * r
  BY <1>1, <1>2
<1>4. PICK a \in Int, n \in Nat \ {0} : a = 2 * r + total /\ n = 2 * total
  OBVIOUS
<1>5. PICK q \in Int : q = a \div n
  BY <1>4
<1>6. n * q <= a /\ a < n * q + n
  BY <1>4, <1>5
<1>7. n * q = 2 * (total * q) /\ total * q \in Int
  BY <1>4
<1>8. Ratio(remaining, total) = q
  BY <1>3, <1>4, <1>5 DEF Ratio
<1> QED  BY <1>2, <1>4, <1>6, <1>7, <1>8

(* A change from one amount to another is invoiced what the difference is  *)
(* worth for the rest of the period, to a cent and a half: half a cent, as *)
(* the ratio is rounded to one part in Scale, and a cent, as the invoice   *)
(* is cut off.                                                             *)
LEMMA ChangeIsClose ==
    ASSUME NEW old \in 0 .. Scale, NEW new \in 0 .. Scale,
           NEW total \in Nat \ {0}, NEW remaining \in 0 .. total,
           NEW invoiced,
           invoiced = IntPart(SameCadenceProration(old, new, total, remaining))
    PROVE  /\ invoiced \in Int
           /\ 2 * (invoiced * total - (new - old) * remaining) \in -(3 * total) .. 3 * total
<1>1. Scale \in Nat \ {0}
  BY PlanAssumption
<1>2. CASE remaining = 0
  <2>1. SameCadenceProration(old, new, total, remaining) = 0
    BY <1>2 DEF SameCadenceProration, ProrationAmountByTime
  <2>2. IntPart(0) \in Int /\ IntPart(0) = -IntPart(0)
    BY IntPartIsOdd
  <2>3. invoiced = 0
    BY <2>1, <2>2
  <2> QED  BY <1>1, <1>2, <2>3
<1>3. CASE remaining # 0
  <2>1. PICK q \in Int : /\ q = Ratio(remaining, total)
                         /\ 2 * (total * q) - 2 * (remaining * Scale) \in -total .. total
    BY RatioIsClose
  <2>2. PICK d \in -Scale .. Scale : d = new - old
    BY <1>1
  <2>3. new * q - old * q = d * q
    BY <1>1, <2>2
  <2>4. invoiced = IntPart(d * q)
    BY <1>3, <2>1, <2>3 DEF SameCadenceProration, ProrationAmountByTime
  <2>5. PICK t \in -Scale .. Scale : invoiced \in Int /\ d * q - Scale * invoiced = t
    <3>1. PICK x \in Int : x = d * q
      OBVIOUS
    <3> QED  BY <2>4, <3>1, IntPartIsClose
  <2>6. PICK e \in -total .. total : e = 2 * (total * q) - 2 * (remaining * Scale)
    BY <2>1
  <2>7. PICK k \in Int : k = 2 * (invoiced * total - d * remaining)
    BY <2>5
  <2>8. Scale * k = d * e - 2 * (total * t)
    <3>1. PICK i \in Int : i = invoiced
      BY <2>5
    <3>2. Scale * k = 2 * (total * (Scale * i)) - d * (2 * (remaining * Scale))
      BY <1>1, <2>7, <3>1
    <3>3. Scale * i = d * q - t /\ 2 * (remaining * Scale) = 2 * (total * q) - e
      <4>1. Scale * i \in Int /\ d * q \in Int /\ remaining * Scale \in Int /\ total * q \in Int
        BY <1>1
      <4> QED  BY <2>5, <2>6, <3>1, <4>1
    <3>4. 2 * (total * (d * q - t)) - d * (2 * (total * q) - e) = d * e - 2 * (total * t)
      BY <1>1
    <3> QED  BY <3>2, <3>3, <3>4
  <2>9. d * e \in -(Scale * total) .. (Scale * total)
    BY <1>1, ProductWithin
  <2>10. total * t \in -(Scale * total) .. (Scale * total)
    <3>1. total \in -total .. total
      OBVIOUS
    <3>2. t * total \in -(Scale * total) .. (Scale * total)
      BY <1>1, <3>1, ProductWithin
    <3> QED  BY <1>1, <3>2
  <2>11. Scale * (3 * total) = 3 * (Scale * total) /\ Scale * total \in Int
    BY <1>1
  <2>12. Scale * k \in -(Scale * (3 * total)) .. (Scale * (3 * total))
    <3>1. PICK x, y, z, m \in Int : x = d * e /\ y = total * t /\ z = Scale * k /\ m = Scale * total
      BY <1>1
    <3>2. z = x - 2 * y /\ x \in -m .. m /\ y \in -m .. m
      BY <2>8, <2>9, <2>10, <3>1
    <3>3. z \in -(3 * m) .. (3 * m)
      BY <3>2
    <3> QED  BY <2>11, <3>1, <3>3
  <2>13. k \in -(3 * total) .. (3 * total)
    BY <1>1, <2>12, FactorWithin
  <2> QED  BY <2>2, <2>5, <2>7, <2>13
<1> QED  BY <1>2, <1>3

(***************************************************************************)
(* The changes of one period.                                              *)
(***************************************************************************)

Period == Length["month"]

(* As long as all changes could be prorated exactly, the items are monthly *)
(* and the first of them is in its first period.                           *)
PlainItems ==
    plain => /\ \A i \in DOMAIN items : Monthly(items[i].price)
             /\ items # <<>> => items[1].start = 0 /\ items[1].end = Period

Off == paid * Period - (owed + Worth * (Period - now))

PaidInv ==
    /\ IInv
    /\ PlainItems
    /\ owed \in Int
    /\ changes \in Nat
    /\ DifferenceIsPaid

LEMMA PeriodType == Period \in Nat \ {0}
  BY PlanAssumption DEF Period, Cadences

LEMMA WorthType ==
    ASSUME items \in Seq(ItemRecord)
    PROVE  Worth \in Int
<1>1. PICK f : Costs(f, items) /\ CostOf(items) = f[Len(items)]
  BY CostsOfItems
<1>2. Len(items) \in 0 .. Len(items)
  BY LenProperties
<1> QED  BY <1>1, <1>2 DEF Costs, Worth

LEMMA PaidIsOff ==
    DifferenceIsPaid
      <=> (plain /\ Period - now >= 0
             => -3 * Period * changes <= 2 * Off /\ 2 * Off <= 3 * Period * changes)
  BY DEF DifferenceIsPaid, Off, Period

LEMMA InitPaid == Init => PaidInv
<1> SUFFICES ASSUME Init PROVE PaidInv
  OBVIOUS
<1>1. IInv
  BY InitInv
<1>2. items \in Seq(ItemRecord)
  BY <1>1 DEF IInv
<1>3. Worth \in Int
  BY <1>2, WorthType
<1>4. now = 0 /\ paid = 0 /\ owed = -(Worth * Period) /\ changes = 0
  BY DEF Init, Period
<1>5. owed \in Int /\ changes \in Nat
  BY <1>3, <1>4, PeriodType
<1>6. Off = 0
  <2>1. PICK w, p, x \in Int : w = Worth /\ p = Period /\ x = w * p
    BY <1>3, PeriodType
  <2> QED  BY <1>4, <2>1 DEF Off
<1>7. DifferenceIsPaid
  BY <1>4, <1>6, PeriodType, PaidIsOff
<1>8. PlainItems
  <2> SUFFICES ASSUME plain PROVE /\ \A i \in DOMAIN items : Monthly(items[i].price)
                                  /\ items # <<>> => items[1].start = 0 /\ items[1].end = Period
    BY DEF PlainItems
  <2>1. \A i \in DOMAIN items : Monthly(items[i].price)
    BY ZenonT(30) DEF Init
  <2>2. StartsToday
    BY ZenonT(30) DEF Init
  <2>3. items # <<>> => items[1].start = 0 /\ items[1].end = Period
    BY <2>2 DEF StartsToday, Period
  <2> QED  BY <2>1, <2>3
<1> QED  BY <1>1, <1>5, <1>7, <1>8 DEF PaidInv

LEMMA TickPaid ==
    ASSUME PaidInv, Tick
    PROVE  PaidInv'
<1>1. IInv'
  BY NextInv DEF PaidInv, Next
<1>2. items \in Seq(ItemRecord) /\ now \in Nat /\ paid \in Int
  BY PlanAssumption DEF PaidInv, IInv
<1>3. PICK w \in Int : w = Worth
  BY <1>2, WorthType
<1>4. Worth' = w
  BY <1>3 DEF Tick, Worth
<1>5. now' = now + 1 /\ owed' = owed + w /\ UNCHANGED <<items, paid, plain, changes>>
  BY <1>3 DEF Tick
<1>6. owed \in Int /\ changes \in Nat /\ owed' \in Int
  BY <1>3, <1>5 DEF PaidInv
<1>7. Off' = Off
  <2>1. PICK p \in Int, n \in Int, o \in Int : p = Period /\ n = now /\ o = owed
    BY <1>2, <1>6, PeriodType
  <2>2. (o + w) + w * (p - (n + 1)) = o + w * (p - n)
    OBVIOUS
  <2>3. Off' = paid * p - ((o + w) + w * (p - (n + 1)))
    BY <1>4, <1>5, <2>1 DEF Off, Period
  <2>4. Off = paid * p - (o + w * (p - n))
    BY <1>3, <2>1 DEF Off
  <2> QED  BY <2>2, <2>3, <2>4
<1>8. DifferenceIsPaid'
  <2>1. Period' = Period
    BY DEF Period
  <2>2. Period - (now + 1) >= 0 => Period - now >= 0
    BY <1>2, PeriodType
  <2>3. plain /\ Period - now >= 0
           => -3 * Period * changes <= 2 * Off /\ 2 * Off <= 3 * Period * changes
    BY PaidIsOff DEF PaidInv
  <2>4. (plain /\ Period - now >= 0
           => -3 * Period * changes <= 2 * Off /\ 2 * Off <= 3 * Period * changes)'
    BY <1>5, <1>7, <2>1, <2>2, <2>3
  <2> QED  BY <2>4, PaidIsOff, PTL
<1>9. PlainItems'
  BY <1>5 DEF PaidInv, PlainItems, Period
<1> QED  BY <1>1, <1>5, <1>6, <1>8, <1>9 DEF PaidInv

(* What a change that keeps the changes plain does: it reprices one item   *)
(* or none.                                                                *)
LEMMA PlainChange ==
    ASSUME PaidInv, NEW u \in [DOMAIN items -> Asked], NEW b \in Behaviors,
           Change(u, b), plain'
    PROVE  /\ items' = [n \in DOMAIN items |-> Repricing(u, n)]
           /\ Len(items') = Len(items)
           /\ \A n \in DOMAIN items : u[n] \in Prices => Monthly(u[n])
           /\ Repriced(u) = {} \/ \E i : Repriced(u) = {i}
<1>1. items \in Seq(ItemRecord)
  BY DEF PaidInv, IInv
<1>2. IsPlain(u, b) /\ items' \in Updated(u)
  BY DEF Change
<1>3. Left(u) = DOMAIN items
  <2>1. \A n \in DOMAIN items : u[n] = Keep \/ u[n] \in Prices
    BY <1>2 DEF IsPlain
  <2> QED  BY <2>1, PlanAssumption DEF Left
<1>4. Len(items') = Len(items)
  <2>1. PICK after \in Updated(u) : after = items'
    BY <1>2
  <2>2. Len(after) = Cardinality(Left(u))
    BY <1>1, UpdatedType
  <2>3. PICK n \in Nat : n = Len(items) /\ DOMAIN items = 1 .. n
    BY <1>1, LenProperties
  <2>4. Cardinality(1 .. n) = n
    BY FS_Interval
  <2> QED  BY <1>3, <2>1, <2>2, <2>3, <2>4
<1>5. items' = [n \in DOMAIN items |-> Repricing(u, n)]
  BY <1>1, <1>2, <1>4, UpdatedInPlace
<1>6. \A n \in DOMAIN items : u[n] \in Prices => Monthly(u[n])
  BY <1>2, PlanAssumption DEF IsPlain
<1>7. ASSUME Repriced(u) # {} PROVE \E i : Repriced(u) = {i}
  <2>1. DOMAIN items = 1 .. Len(items) /\ Len(items) \in Nat
    BY <1>1, LenProperties
  <2>2. Repriced(u) \in SUBSET (1 .. Len(items)) /\ IsFiniteSet(1 .. Len(items))
    BY <2>1, FS_Interval DEF Repriced
  <2>3. IsFiniteSet(Repriced(u))
    BY <2>2, FS_Subset
  <2>4. Cardinality(Repriced(u)) \in Nat /\ Cardinality(Repriced(u)) # 0
    BY <1>7, <2>3, FS_CardinalityType, FS_EmptySet
  <2>5. Cardinality(Repriced(u)) = 1
    BY <1>2, <2>4 DEF IsPlain
  <2> QED  BY <2>3, <2>5, FS_Singleton
<1> QED  BY <1>4, <1>5, <1>6, <1>7

(* A change of one item to another monthly price, while there is something *)
(* left of the period, is invoiced the proration between the two.          *)
LEMMA PlainInvoice ==
    ASSUME PaidInv, NEW u \in [DOMAIN items -> Asked], NEW b \in Behaviors,
           Change(u, b), plain', now <= Period,
           NEW i \in DOMAIN items, Repriced(u) = {i}
    PROVE  \E invoiced \in Int :
              /\ invoiced = IntPart(SameCadenceProration(
                                AmountOr(0, items[i].price), AmountOr(0, items'[i].price),
                                Period, Period - now))
              /\ paid' = paid + invoiced
<1>1. items \in Seq(ItemRecord) /\ now \in Nat /\ paid \in Int
  BY PlanAssumption DEF PaidInv, IInv
<1>2. PICK after : /\ after = items'
                   /\ after = [n \in DOMAIN items |-> Repricing(u, n)]
  BY PlainChange
<1>3. 1 \in DOMAIN items
  BY <1>1, LenProperties
<1>4. plain /\ b = "always_invoice"
  BY DEF Change, IsPlain
<1>5. after[1].start = 0 /\ after[1].end = Period
  <2>1. items[1].start = 0 /\ items[1].end = Period
    BY <1>4 DEF PaidInv, PlainItems, Change
  <2> QED  BY <1>1, <1>2, <1>3, <2>1, RepricingType
<1>6. i = Max(Repriced(u)) /\ u[i] \in Prices
  <2>1. Max(Repriced(u)) \in Repriced(u)
    BY <1>1, LastRepriced
  <2> QED  BY <2>1 DEF Repriced
<1>7. PICK old, new : /\ old = items[i].price /\ new = items'[i].price
                      /\ new = u[i]
  BY <1>1, <1>2, <1>6, LenProperties, ElementOfSeq DEF Repricing, ItemRecord
<1>8. Monthly(old) /\ Monthly(new)
  <2>1. Monthly(old)
    BY <1>4, <1>7 DEF PaidInv, PlainItems
  <2>2. Monthly(new)
    BY <1>6, <1>7, PlainChange
  <2> QED  BY <2>1, <2>2
<1>9. PICK d : d = SameCadenceProration(AmountOr(0, old), AmountOr(0, new), Period, Period - now)
  OBVIOUS
<1>10. CalculateProration(old, new, 0, Period) = d
  <2>1. CadenceOf(old) = CadenceOf(new) /\ Period # 0 /\ 0 <= now
    BY <1>1, <1>8, PeriodType DEF Monthly, CadenceOf
  <2>2. Period - 0 = Period
    BY PeriodType
  <2> QED  BY <1>8, <1>9, <2>1, <2>2 DEF CalculateProration, AmountOr, Monthly
<1>11. due' = d
  <2>1. due' = ProrationOf(u, b, after)
    BY <1>2 DEF Change
  <2> QED  BY <1>4, <1>5, <1>6, <1>7, <1>10, <2>1 DEF ProrationOf
<1>12. d \in Int
  <2>1. old \in Prices /\ new \in Prices /\ Period \in Nat
    BY <1>8, PeriodType, PlanAssumption DEF Monthly, Priced
  <2>2. CalculateProration(old, new, 0, Period) \in Int \cup {None}
    BY <1>1, <2>1, ProrationBounds
  <2>3. Period - now \in Nat /\ Period - now <= Period /\ Period \in Nat \ {0}
    BY <1>1, PeriodType
  <2>4. AmountOr(0, old) \in Nat /\ AmountOr(0, new) \in Nat
    BY <2>1, PlanAssumption DEF AmountOr, Priced
  <2>5. /\ ProrationAmountByTime(AmountOr(0, new), Period, Period - now) \in Int
        /\ ProrationAmountByTime(AmountOr(0, old), Period, Period - now) \in Int
    <3>1. \A a \in Nat : ProrationAmountByTime(a, Period, Period - now) \in Int
      BY <2>3, PartBounds
    <3> QED  BY <2>4, <3>1
  <2> QED  BY <1>9, <2>5 DEF SameCadenceProration
<1>13. IntPart(d) \in Int /\ (d = 0 => IntPart(d) = 0)
  <2>1. IntPart(0) \in Int /\ IntPart(0) = -IntPart(0)
    BY IntPartIsOdd
  <2> QED  BY <1>12, <2>1, IntPartIsOdd
<1>14. paid' = paid + IntPart(d)
  <2>1. d # None /\ IntPart(d) # None
    BY <1>12, <1>13, PlanAssumption
  <2>2. invoice' = IF d = 0 THEN None ELSE IntPart(d)
    BY <1>4, <1>11, <2>1 DEF Change, Invoiced
  <2>3. paid' = paid + IF invoice' = None THEN 0 ELSE invoice'
    BY DEF Change
  <2> QED  BY <1>13, <2>1, <2>2, <2>3
<1> QED  BY <1>7, <1>9, <1>13, <1>14

(* As CreditDue is invoiced as it is, a change adds no more than a cent    *)
(* and a half to what the invoices are off.                                *)
SmallAmounts == \A p \in Prices : AmountOr(0, p) <= Scale

LEMMA ChangeOff ==
    ASSUME SmallAmounts, PaidInv, NEW u \in [DOMAIN items -> Asked], NEW b \in Behaviors,
           Change(u, b), plain', now <= Period
    PROVE  /\ Off \in Int /\ Off' \in Int
           /\ 2 * (Off' - Off) \in -(3 * Period) .. 3 * Period
<1>1. items \in Seq(ItemRecord) /\ now \in Nat /\ paid \in Int /\ owed \in Int
  BY PlanAssumption DEF PaidInv, IInv
<1>2. items' \in Seq(ItemRecord)
  BY <1>1, UpdatedType DEF Change
<1>3. PICK after : after = items'
  OBVIOUS
<1>4. PICK p \in Nat \ {0}, w \in Int, rest \in Nat :
           p = Period /\ w = Worth /\ rest = Period - now /\ rest \in 0 .. p
  <2>1. Period - now \in 0 .. Period
    BY <1>1, PeriodType
  <2> QED  BY <1>1, <2>1, PeriodType, WorthType
<1>5. Worth' = CostOf(after) /\ w = CostOf(items)
  BY <1>3, <1>4 DEF Worth
<1>6. PICK off \in Int : off = Off /\ off = paid * p - (owed + w * rest)
  BY <1>1, <1>4 DEF Off
<1>7. CASE Repriced(u) = {}
  <2>1. items' = items
    <3>1. \A n \in DOMAIN items : Repricing(u, n) = items[n]
      BY <1>7 DEF Repriced, Repricing
    <3>2. items' = [n \in DOMAIN items |-> Repricing(u, n)]
      BY PlainChange
    <3>3. items = [n \in DOMAIN items |-> items[n]]
      BY <1>1, LenProperties
    <3> QED  BY <3>1, <3>2, <3>3
  <2>2. due' = None
    BY <1>7 DEF Change, ProrationOf
  <2>3. invoice' = None
    BY <2>2 DEF Change, Invoiced
  <2>4. paid' = paid
    BY <1>1, <2>3 DEF Change
  <2>5. Off' = Off
    BY <2>1, <2>4 DEF Off, Worth, Change, Period
  <2>6. PICK x \in Int : x = Off /\ x = Off'
    BY <1>6, <2>5
  <2>7. 2 * (x - x) \in -(3 * p) .. 3 * p
    BY <1>4
  <2> QED  BY <1>4, <2>6, <2>7
<1>8. ASSUME NEW i, Repriced(u) = {i}
      PROVE  Off' \in Int /\ 2 * (Off' - Off) \in -(3 * Period) .. 3 * Period
  <2>1. i \in DOMAIN items /\ i \in 1 .. Len(items)
    BY <1>1, <1>8, LenProperties DEF Repriced
  <2>2. PICK old, new : old = AmountOr(0, items[i].price) /\ new = AmountOr(0, after[i].price)
    OBVIOUS
  <2>3. Len(after) = Len(items)
    BY <1>3, PlainChange
  <2>4. old \in 0 .. Scale /\ new \in 0 .. Scale
    <3>1. items[i] \in ItemRecord /\ after[i] \in ItemRecord
      BY <1>1, <1>2, <1>3, <2>1, <2>3, ElementOfSeq
    <3>2. items[i].price \in Prices /\ after[i].price \in Prices
      BY <3>1, ItemAmounts
    <3>3. AmountOr(0, items[i].price) \in Nat /\ AmountOr(0, after[i].price) \in Nat
      BY <3>2, PlanAssumption DEF AmountOr, Priced
    <3> QED  BY <2>2, <3>2, <3>3, PlanAssumption DEF SmallAmounts
  <2>5. PICK invoiced \in Int :
           /\ invoiced = IntPart(SameCadenceProration(old, new, p, rest))
           /\ paid' = paid + invoiced
    BY <1>3, <1>4, <1>8, <2>1, <2>2, PlainInvoice
  <2>6. 2 * (invoiced * p - (new - old) * rest) \in -(3 * p) .. 3 * p
    BY <1>4, <2>4, <2>5, ChangeIsClose
  <2>7. \A n \in 1 .. Len(items) : n # i => after[n].price = items[n].price
    <3>1. \A n \in DOMAIN items : n # i => Repricing(u, n) = items[n]
      BY <1>8 DEF Repriced, Repricing
    <3>2. after = [n \in DOMAIN items |-> Repricing(u, n)]
      BY <1>3, PlainChange
    <3>3. DOMAIN items = 1 .. Len(items)
      BY <1>1, LenProperties
    <3> QED  BY <3>1, <3>2, <3>3
  <2>8. Worth' = w + (new - old)
    BY <1>1, <1>2, <1>3, <1>5, <2>1, <2>2, <2>3, <2>7, CostOfReplaced
  <2>9. Off' = (paid + invoiced) * p - (owed + (w + (new - old)) * rest)
    BY <1>4, <2>5, <2>8 DEF Off, Change, Period
  <2>10. PICK d \in Int : d = new - old
    BY <2>4, PlanAssumption
  <2>11. (paid + invoiced) * p - (owed + (w + d) * rest)
           = (paid * p - (owed + w * rest)) + (invoiced * p - d * rest)
    BY <1>1
  <2>12. invoiced * p - d * rest \in Int
    OBVIOUS
  <2> QED  BY <1>4, <1>6, <2>6, <2>9, <2>10, <2>11, <2>12
<1> QED  BY <1>6, <1>7, <1>8, PlainChange

LEMMA ChangePaid ==
    ASSUME SmallAmounts, PaidInv, NEW u \in [DOMAIN items -> Asked], NEW b \in Behaviors,
           Change(u, b)
    PROVE  PaidInv'
<1>1. IInv'
  BY ChangeInv DEF PaidInv
<1>2. owed' \in Int /\ changes' \in Nat /\ changes' = changes + 1 /\ changes \in Nat
  BY DEF PaidInv, Change
<1>3. CASE ~ plain'
  BY <1>1, <1>2, <1>3 DEF PaidInv, PlainItems, DifferenceIsPaid
<1>4. CASE plain'
  <2>1. items \in Seq(ItemRecord) /\ now \in Nat /\ plain /\ now' = now
    BY <1>4, PlanAssumption DEF PaidInv, IInv, Change
  <2>2. PICK after : /\ after = items'
                     /\ after = [n \in DOMAIN items |-> Repricing(u, n)]
    BY <1>4, PlainChange
  <2>3. PlainItems'
    <3>1. \A n \in DOMAIN items : /\ Monthly(after[n].price)
                                  /\ after[n].start = items[n].start
                                  /\ after[n].end = items[n].end
      <4>1. \A n \in DOMAIN items : items[n] \in ItemRecord /\ Monthly(items[n].price)
        BY <2>1, LenProperties, ElementOfSeq DEF PaidInv, PlainItems
      <4>2. \A n \in DOMAIN items : u[n] \in Prices => Monthly(u[n])
        BY <1>4, PlainChange
      <4> QED  BY <2>1, <2>2, <4>1, <4>2, RepricingType DEF Repricing, ItemRecord
    <3>2. 1 \in DOMAIN items /\ items # <<>>
      BY <2>1, LenProperties, EmptySeq DEF Change
    <3>3. items[1].start = 0 /\ items[1].end = Period
      BY <2>1, <3>2 DEF PaidInv, PlainItems
    <3>4. DOMAIN after = DOMAIN items
      BY <2>2
    <3> QED  BY <2>2, <3>1, <3>2, <3>3, <3>4 DEF PlainItems, Period, Monthly
  <2>4. DifferenceIsPaid'
    <3>1. CASE now <= Period
      <4>1. /\ Off \in Int /\ Off' \in Int
            /\ 2 * (Off' - Off) \in -(3 * Period) .. 3 * Period
        BY <1>4, <3>1, ChangeOff
      <4>2. -3 * Period * changes <= 2 * Off /\ 2 * Off <= 3 * Period * changes
        BY <2>1, <3>1, PeriodType, PaidIsOff DEF PaidInv
      <4>3. PICK p \in Nat, x \in Int, y \in Int, c \in Nat :
               p = Period /\ x = Off /\ y = Off' /\ c = changes
        BY <1>2, <4>1, PeriodType
      <4>4. PICK m \in Int : m = p * c
        OBVIOUS
      <4>5. -3 * p * c = -3 * m /\ 3 * p * c = 3 * m
        BY <4>4
      <4>6. -3 * p * (c + 1) = -3 * m - 3 * p /\ 3 * p * (c + 1) = 3 * m + 3 * p
        BY <4>4
      <4>7. 2 * (y - x) \in -(3 * p) .. 3 * p /\ -3 * m <= 2 * x /\ 2 * x <= 3 * m
        BY <4>1, <4>2, <4>3, <4>5
      <4>8. -3 * p * (c + 1) <= 2 * y /\ 2 * y <= 3 * p * (c + 1)
        BY <4>6, <4>7
      <4>9. (-3 * Period * changes <= 2 * Off /\ 2 * Off <= 3 * Period * changes)'
        BY <1>2, <4>3, <4>8 DEF Period
      <4> QED  BY <4>9, PaidIsOff, PTL
    <3>2. CASE ~ (now <= Period)
      <4>1. ~ (Period - now' >= 0)
        BY <2>1, <3>2, PeriodType
      <4> QED  BY <4>1 DEF DifferenceIsPaid, Period
    <3> QED  BY <3>1, <3>2
  <2> QED  BY <1>1, <1>2, <2>3, <2>4 DEF PaidInv
<1> QED  BY <1>3, <1>4

LEMMA NextPaid == SmallAmounts /\ PaidInv /\ [Next]_vars => PaidInv'
<1> SUFFICES ASSUME SmallAmounts, PaidInv, [Next]_vars PROVE PaidInv'
  OBVIOUS
<1>1. IInv'
  BY NextInv DEF PaidInv
<1>2. CASE Tick
  BY <1>2, TickPaid
<1>3. CASE \E u \in [DOMAIN items -> Asked], b \in Behaviors : Change(u, b)
  BY <1>3, ChangePaid
<1>4. CASE Renew
  BY <1>1, <1>4 DEF Renew, PaidInv, PlainItems, DifferenceIsPaid
<1>5. CASE UNCHANGED vars
  BY <1>1, <1>5 DEF vars, PaidInv, PlainItems, DifferenceIsPaid, Worth, Monthly
<1> QED  BY <1>2, <1>3, <1>4, <1>5 DEF Next

(* When no amount is more than the parts a ratio is counted in, the plan   *)
(* changes of a period that are invoiced at once, one item and monthly     *)
(* prices each, add up to the difference they made to what the plan the    *)
(* period began with would have cost, to a cent and a half for each        *)
(* change, however many items and changes there are.                       *)
THEOREM DifferencePaid ==
    ASSUME SmallAmounts
    PROVE  Spec => []DifferenceIsPaid
<1>1. PaidInv /\ [Next]_vars => PaidInv'
  BY NextPaid
<1>2. PaidInv => DifferenceIsPaid
  BY DEF PaidInv
<1> QED  BY <1>1, <1>2, InitPaid, PTL DEF Spec

=============================================================================
