---------------------------- MODULE AmountProofs -----------------------------
(***************************************************************************)
(* What the proofs of every component need to know about amounts.  Sums:   *)
(* what a change of one summand does to the sum, for every column of a     *)
(* wallet that is one.  Prices: what a quote is worth for every policy     *)
(* that passes validation; its amounts are amounts, none is above the cap, *)
(* and its charge keeps the margin the policy promises.                    *)
(***************************************************************************)
EXTENDS JobPricing, Sums, FiniteSetTheorems, TLAPS

-----------------------------------------------------------------------------
(* Sums *)

(* The tokens <<h, 1>> ... <<h, n>> are n.                                 *)
LEMMA UnitsOfOne ==
    ASSUME NEW h, NEW n \in Nat
    PROVE  IsFiniteSet({h} \X (1..n)) /\ Cardinality({h} \X (1..n)) = n
<1>1. IsFiniteSet(1..n)
  BY FS_Interval
<1>2. Cardinality(1..n) = n
  <2>1. 1 \in Int /\ n \in Int
    OBVIOUS
  <2>2. Cardinality(1..n) = IF 1 > n THEN 0 ELSE n - 1 + 1
    BY <2>1, FS_Interval, Zenon
  <2> QED
    BY <2>2
<1>3. IsFiniteSet({h}) /\ Cardinality({h}) = 1
  BY FS_Singleton
<1>4. /\ IsFiniteSet({h} \X (1..n))
      /\ Cardinality({h} \X (1..n)) = Cardinality({h}) * Cardinality(1..n)
  BY <1>1, <1>3, FS_Product, Zenon
<1> QED
  BY <1>2, <1>3, <1>4

(* Sets that share nothing have as many members together as apart.         *)
LEMMA DisjointUnion ==
    ASSUME NEW A, IsFiniteSet(A), NEW B, IsFiniteSet(B), A \cap B = {}
    PROVE  Cardinality(A \cup B) = Cardinality(A) + Cardinality(B)
<1>1. Cardinality(A \cup B) = Cardinality(A) + Cardinality(B) - Cardinality(A \cap B)
  BY FS_Union, Zenon
<1>2. Cardinality(A \cap B) = 0
  BY FS_EmptySet
<1>3. Cardinality(A) \in Nat /\ Cardinality(B) \in Nat
  BY FS_CardinalityType
<1> QED
  BY <1>1, <1>2, <1>3

(* The summands of finitely many are finitely many tokens.                 *)
LEMMA SumType ==
    ASSUME NEW S, IsFiniteSet(S), NEW f \in [S -> Nat]
    PROVE  IsFiniteSet(Units(f)) /\ SumOf(f) \in Nat
<1> DEFINE parts == {{h} \X (1..f[h]) : h \in S}
           part == [h \in S |-> {h} \X (1..f[h])]
<1>1. part \in Surjection(S, parts)
  BY DEF Surjection
<1>2. IsFiniteSet(parts)
  BY <1>1, FS_Surjection, Zenon
<1>3. \A own \in parts : IsFiniteSet(own)
  <2>1. TAKE own \in parts
  <2>2. PICK h \in S : own = {h} \X (1..f[h])
    OBVIOUS
  <2>3. f[h] \in Nat
    OBVIOUS
  <2> QED
    BY <2>2, <2>3, UnitsOfOne, Zenon
<1>4. Units(f) = UNION parts
  BY DEF Units
<1>5. IsFiniteSet(Units(f))
  BY <1>2, <1>3, <1>4, FS_UNION, Zenon
<1> QED
  BY <1>5, FS_CardinalityType DEF SumOf

(* A token is that of a summand.                                           *)
LEMMA UnitsMember ==
    ASSUME NEW S, NEW f \in [S -> Nat], NEW unit
    PROVE  unit \in Units(f) <=> \E h \in S : unit \in {h} \X (1..f[h])
BY DEF Units

(* A sum whose summand for h is put to 0 lacks what that summand was.      *)
LEMMA SumWithout ==
    ASSUME NEW S, IsFiniteSet(S), NEW f \in [S -> Nat], NEW h \in S
    PROVE  SumOf(f) = SumOf([f EXCEPT ![h] = 0]) + f[h]
<1> DEFINE rest == [f EXCEPT ![h] = 0]
           own == {h} \X (1..f[h])
<1>1. rest \in [S -> Nat] /\ f[h] \in Nat
  OBVIOUS
<1>2. IsFiniteSet(Units(rest))
  BY <1>1, SumType
<1>3. IsFiniteSet(own) /\ Cardinality(own) = f[h]
  BY <1>1, UnitsOfOne
<1>4. Units(f) = Units(rest) \cup own
  <2>1. \A unit : unit \in Units(f) => unit \in Units(rest) \cup own
    <3>1. TAKE unit
    <3>2. HAVE unit \in Units(f)
    <3>3. PICK g \in S : unit \in {g} \X (1..f[g])
      BY <3>2, UnitsMember
    <3>4. CASE g = h
      BY <3>3, <3>4
    <3>5. CASE g # h
      BY <1>1, <3>3, <3>5, UnitsMember
    <3> QED
      BY <3>4, <3>5
  <2>2. \A unit : unit \in own => unit \in Units(f)
    BY UnitsMember
  <2>3. \A unit : unit \in Units(rest) => unit \in Units(f)
    <3>1. TAKE unit
    <3>2. HAVE unit \in Units(rest)
    <3>3. PICK g \in S : unit \in {g} \X (1..rest[g])
      BY <1>1, <3>2, UnitsMember
    <3>4. CASE g = h
      BY <3>3, <3>4
    <3>5. CASE g # h
      BY <3>3, <3>5, UnitsMember
    <3> QED
      BY <3>4, <3>5
  <2> QED
    BY <2>1, <2>2, <2>3
<1>5. Units(rest) \cap own = {}
  <2>1. SUFFICES ASSUME NEW unit \in Units(rest), unit \in own PROVE FALSE
    OBVIOUS
  <2>2. PICK g \in S : unit \in {g} \X (1..rest[g])
    BY <1>1, UnitsMember
  <2>3. g = h
    BY <2>1, <2>2
  <2> QED
    BY <2>2, <2>3
<1>6. Cardinality(Units(rest) \cup own) = Cardinality(Units(rest)) + Cardinality(own)
  BY <1>2, <1>3, <1>5, DisjointUnion, Zenon
<1> QED
  BY <1>3, <1>4, <1>6 DEF SumOf

(* When one summand changes, the sum changes by the difference.           *)
LEMMA SumChange ==
    ASSUME NEW S, IsFiniteSet(S), NEW f \in [S -> Nat], NEW g \in [S -> Nat],
           NEW h \in S, \A x \in S \ {h} : g[x] = f[x]
    PROVE  SumOf(g) + f[h] = SumOf(f) + g[h]
<1>1. [f EXCEPT ![h] = 0] \in [S -> Nat] /\ [g EXCEPT ![h] = 0] = [f EXCEPT ![h] = 0]
  OBVIOUS
<1>2. SumOf(f) = SumOf([f EXCEPT ![h] = 0]) + f[h]
  BY SumWithout
<1>3. SumOf(g) = SumOf([f EXCEPT ![h] = 0]) + g[h]
  BY <1>1, SumWithout
<1>4. SumOf([f EXCEPT ![h] = 0]) \in Nat
  BY <1>1, SumType
<1> QED
  BY <1>2, <1>3, <1>4

(* Zeros add up to nothing.                                                *)
LEMMA SumOfZeros ==
    ASSUME NEW S, NEW f \in [S -> Nat], \A h \in S : f[h] = 0
    PROVE  SumOf(f) = 0
<1>1. Units(f) = {}
  BY UnitsMember
<1> QED
  BY <1>1, FS_EmptySet DEF SumOf

(* No larger summands, no larger sum.                                      *)
LEMMA SumMonotone ==
    ASSUME NEW S, IsFiniteSet(S), NEW f \in [S -> Nat], NEW g \in [S -> Nat],
           \A h \in S : f[h] <= g[h]
    PROVE  SumOf(f) <= SumOf(g)
<1>1. Units(f) \subseteq Units(g)
  <2>1. SUFFICES ASSUME NEW unit \in Units(f) PROVE unit \in Units(g)
    OBVIOUS
  <2>2. PICK h \in S : unit \in {h} \X (1..f[h])
    BY UnitsMember
  <2>3. unit \in {h} \X (1..g[h])
    BY <2>2
  <2> QED
    BY <2>3, UnitsMember
<1>2. IsFiniteSet(Units(g))
  BY SumType
<1> QED
  BY <1>1, <1>2, FS_Subset DEF SumOf

(* A summand is no more than the sum.                                      *)
LEMMA SumCovers ==
    ASSUME NEW S, IsFiniteSet(S), NEW f \in [S -> Nat], NEW h \in S
    PROVE  f[h] <= SumOf(f)
<1>1. [f EXCEPT ![h] = 0] \in [S -> Nat] /\ f[h] \in Nat
  OBVIOUS
<1>2. PICK rest \in Nat : rest = SumOf([f EXCEPT ![h] = 0])
  BY <1>1, SumType
<1>3. SumOf(f) = SumOf([f EXCEPT ![h] = 0]) + f[h]
  BY SumWithout
<1> QED
  BY <1>1, <1>2, <1>3

(* Whoever held nothing and takes an amount adds it to the total.          *)
LEMMA SumTake ==
    ASSUME NEW S, IsFiniteSet(S), NEW held \in [S -> Nat],
           NEW h \in S, held[h] = 0, NEW amount \in Nat
    PROVE  SumOf([held EXCEPT ![h] = amount]) = SumOf(held) + amount
<1>1. PICK more \in [S -> Nat] : more = [held EXCEPT ![h] = amount]
  OBVIOUS
<1>2. more[h] = amount /\ \A x \in S \ {h} : more[x] = held[x]
  BY <1>1
<1>3. SumOf(more) + held[h] = SumOf(held) + more[h]
  BY <1>2, SumChange
<1>4. SumOf(more) \in Nat /\ SumOf(held) \in Nat
  BY SumType
<1> QED
  BY <1>1, <1>2, <1>3, <1>4

(* Whoever stops holding takes what they held out of the total.            *)
LEMMA SumDrop ==
    ASSUME NEW S, IsFiniteSet(S), NEW held \in [S -> Nat],
           NEW h \in S, NEW amount \in Nat, held[h] = amount
    PROVE  SumOf(held) = SumOf([held EXCEPT ![h] = 0]) + amount
BY SumWithout
-----------------------------------------------------------------------------
(* Prices *)

(* Division of naturals rounds down, to a natural.                         *)
LEMMA DivisionRoundsDown ==
    ASSUME NEW a \in Nat, NEW d \in Nat \ {0}
    PROVE  /\ a \div d \in Nat
           /\ d * (a \div d) <= a
           /\ a < d * (a \div d) + d
OBVIOUS

(* Rounding up covers the value and overshoots by less than the divisor.   *)
LEMMA CeilDivideCovers ==
    ASSUME NEW value \in Nat, NEW divisor \in Nat \ {0}
    PROVE  /\ CeilDivide(value, divisor) \in Nat
           /\ divisor * CeilDivide(value, divisor) >= value
<1> DEFINE a == value + divisor - 1
<1>1. a \in Nat
  OBVIOUS
<1>2. a \div divisor \in Nat /\ a < divisor * (a \div divisor) + divisor
  BY <1>1, DivisionRoundsDown
<1> QED
  BY <1>2 DEF CeilDivide

(* A larger value is not rounded to less.                                  *)
LEMMA CeilDivideMonotone ==
    ASSUME NEW low \in Nat, NEW high \in Nat, low <= high, NEW divisor \in Nat \ {0}
    PROVE  CeilDivide(low, divisor) <= CeilDivide(high, divisor)
<1> DEFINE a == low + divisor - 1
           b == high + divisor - 1
           x == a \div divisor
           y == b \div divisor
<1>1. a \in Nat /\ b \in Nat /\ a <= b
  OBVIOUS
<1>2. x \in Nat /\ divisor * x <= a
  BY <1>1, DivisionRoundsDown
<1>3. y \in Nat /\ b < divisor * y + divisor
  BY <1>1, DivisionRoundsDown
<1>4. x <= y
  <2> HIDE DEF a, b, x, y
  <2>1. SUFFICES ASSUME y + 1 <= x PROVE FALSE
    BY <1>2, <1>3
  <2>2. divisor * (y + 1) <= divisor * x
    BY <2>1, <1>2, <1>3
  <2>3. divisor * (y + 1) = divisor * y + divisor
    BY <1>3
  <2> QED
    BY <1>1, <1>2, <1>3, <2>2, <2>3
<1> QED
  BY <1>4 DEF CeilDivide

(* The fields of a valid policy that the proofs below need.                *)
LEMMA PolicyFields ==
    ASSUME NEW p, ValidPolicy(p)
    PROVE  /\ p.targetMarginBps \in Nat /\ p.targetMarginBps <= 9500
           /\ 10000 - p.targetMarginBps \in Nat \ {0}
           /\ p.infrastructureCost \in Nat
           /\ OverheadBps(p) \in Nat
           /\ p.minimumJobCharge \in Nat /\ p.maximumJobCharge \in Nat \ {0}
           /\ p.reservationHeadroomBps \in Nat
           /\ p.targetProviderCost \in Nat /\ p.hardProviderCost \in Nat
           /\ p.targetProviderCost <= p.hardProviderCost
           /\ ProtectedPrice(p, p.hardProviderCost) <= p.maximumJobCharge
<1>1. p \in JobPolicies
  BY DEF ValidPolicy
<1>2. /\ p.targetMarginBps \in MarginBps
      /\ p.infrastructureCost \in Nat
      /\ p.minimumJobCharge \in Nat /\ p.maximumJobCharge \in Nat \ {0}
      /\ p.targetProviderCost \in Nat /\ p.warningProviderCost \in Nat
      /\ p.hardProviderCost \in Nat \ {0}
  BY <1>1 DEF JobPolicies
<1>3. /\ p.paymentFeeBps \in Bps /\ p.safetyBufferBps \in Bps
      /\ p.retryAllowanceBps \in Bps /\ p.reservationHeadroomBps \in Bps
  BY <1>1 DEF JobPolicies
<1>4. /\ p.targetProviderCost <= p.hardProviderCost
      /\ ProtectedPrice(p, p.hardProviderCost) <= p.maximumJobCharge
  BY <1>2 DEF ValidPolicy
<1>5. OverheadBps(p) \in Nat /\ p.reservationHeadroomBps \in Nat
  <2>1. \A a, b, c \in Bps : a + b + c \in Nat /\ a \in Nat
    BY DEF Bps
  <2> QED
    BY <1>3, <2>1, Zenon DEF OverheadBps
<1>6. /\ p.targetMarginBps \in Nat /\ p.targetMarginBps <= 9500
      /\ 10000 - p.targetMarginBps \in Nat \ {0}
  <2>1. \A m \in MarginBps : m \in Nat /\ m <= 9500 /\ 10000 - m \in Nat \ {0}
    BY DEF MarginBps
  <2>2. p.targetMarginBps \in MarginBps
    BY <1>2
  <2> QED
    BY <2>1, <2>2
<1> QED
  BY <1>2, <1>4, <1>5, <1>6

(* Basis points of a natural are a natural that grows with it.             *)
LEMMA BpsChargeFacts ==
    ASSUME NEW low \in Nat, NEW high \in Nat, low <= high, NEW bps \in Nat
    PROVE  /\ BpsCharge(low, bps) \in Nat
           /\ BpsCharge(low, bps) <= BpsCharge(high, bps)
           /\ bps >= 10000 => low <= BpsCharge(low, bps)
<1>1. low * bps \in Nat /\ high * bps \in Nat /\ low * bps <= high * bps
  OBVIOUS
<1>2. CeilDivide(low * bps, 10000) <= CeilDivide(high * bps, 10000)
  BY <1>1, CeilDivideMonotone
<1>3. /\ CeilDivide(low * bps, 10000) \in Nat
      /\ 10000 * CeilDivide(low * bps, 10000) >= low * bps
  BY <1>1, CeilDivideCovers
<1>4. bps >= 10000 => low * bps >= 10000 * low
  OBVIOUS
<1> QED
  BY <1>2, <1>3, <1>4 DEF BpsCharge

(* Ten thousand of them and more are at least the whole.                   *)
LEMMA BpsChargeCovers ==
    ASSUME NEW value \in Nat, NEW bps \in Nat, bps >= 10000
    PROVE  BpsCharge(value, bps) \in Nat /\ value <= BpsCharge(value, bps)
<1>1. value <= value
  OBVIOUS
<1> QED
  BY <1>1, BpsChargeFacts

(* What the service pays is a natural that grows with the provider cost.   *)
LEMMA InternalCostFacts ==
    ASSUME NEW p, ValidPolicy(p), NEW low \in Nat, NEW high \in Nat, low <= high
    PROVE  /\ InternalCost(p, low) \in Nat
           /\ InternalCost(p, low) <= InternalCost(p, high)
<1> DEFINE baseLow == low + p.infrastructureCost
           baseHigh == high + p.infrastructureCost
<1>1. /\ baseLow \in Nat /\ baseHigh \in Nat /\ baseLow <= baseHigh
      /\ baseHigh <= baseHigh /\ OverheadBps(p) \in Nat
  BY PolicyFields
<1>2. /\ BpsCharge(baseLow, OverheadBps(p)) \in Nat
      /\ BpsCharge(baseHigh, OverheadBps(p)) \in Nat
      /\ BpsCharge(baseLow, OverheadBps(p)) <= BpsCharge(baseHigh, OverheadBps(p))
  BY <1>1, BpsChargeFacts, Zenon
<1> QED
  BY <1>1, <1>2 DEF InternalCost

(* The protected charge leaves the margin above the cost.                  *)
LEMMA ProtectedChargeFacts ==
    ASSUME NEW margin \in Nat, margin < 10000, NEW low \in Nat, NEW high \in Nat, low <= high
    PROVE  /\ ProtectedCharge(low, margin) \in Nat
           /\ ProtectedCharge(low, margin) <= ProtectedCharge(high, margin)
           /\ (10000 - margin) * ProtectedCharge(low, margin) >= 10000 * low
<1> DEFINE divisor == 10000 - margin
<1>1. divisor \in Nat \ {0}
  OBVIOUS
<1>2. low * 10000 \in Nat /\ high * 10000 \in Nat /\ low * 10000 <= high * 10000
  OBVIOUS
<1> HIDE DEF divisor
<1>3. /\ CeilDivide(low * 10000, divisor) \in Nat
      /\ CeilDivide(high * 10000, divisor) \in Nat
      /\ divisor * CeilDivide(low * 10000, divisor) >= low * 10000
  BY <1>1, <1>2, CeilDivideCovers
<1>4. CeilDivide(low * 10000, divisor) <= CeilDivide(high * 10000, divisor)
  BY <1>1, <1>2, CeilDivideMonotone
<1>5. divisor * 0 >= 0
  BY <1>1
<1> QED
  BY <1>1, <1>3, <1>4, <1>5 DEF ProtectedCharge, divisor

(* Whatever is at least the protected charge keeps the margin.             *)
LEMMA MarginLeft ==
    ASSUME NEW margin \in Nat, margin < 10000, NEW cost \in Nat, NEW charge \in Nat,
           charge >= ProtectedCharge(cost, margin)
    PROVE  KeepsMargin(charge, cost, margin)
<1>1. PICK least : least = ProtectedCharge(cost, margin)
  OBVIOUS
<1>2. least \in Nat /\ (10000 - margin) * least >= 10000 * cost
  <2>1. cost <= cost
    OBVIOUS
  <2>2. /\ ProtectedCharge(cost, margin) \in Nat
        /\ (10000 - margin) * ProtectedCharge(cost, margin) >= 10000 * cost
    BY <2>1, ProtectedChargeFacts
  <2> QED
    BY <1>1, <2>2
<1>3. charge >= least
  BY <1>1
<1>4. PICK divisor \in Nat : divisor = 10000 - margin
  OBVIOUS
<1>5. divisor * charge >= divisor * least
  <2>1. \A a, b, c \in Nat : a >= b => c * a >= c * b
    OBVIOUS
  <2> QED
    BY <1>2, <1>3, <2>1
<1>6. (10000 - margin) * charge = 10000 * charge - margin * charge
  OBVIOUS
<1>7. /\ margin * charge \in Nat
      /\ divisor * least \in Nat /\ divisor * charge \in Nat
  BY <1>2, <1>4
<1> QED
  BY <1>2, <1>4, <1>5, <1>6, <1>7 DEF KeepsMargin

(* The price before the cap is a natural that grows with the cost.         *)
LEMMA ProtectedPriceFacts ==
    ASSUME NEW p, ValidPolicy(p), NEW low \in Nat, NEW high \in Nat, low <= high
    PROVE  /\ ProtectedPrice(p, low) \in Nat
           /\ ProtectedPrice(p, low) <= ProtectedPrice(p, high)
<1>1. PICK x \in Nat, y \in Nat :
         x = InternalCost(p, low) /\ y = InternalCost(p, high) /\ x <= y
  BY InternalCostFacts
<1>2. PICK margin \in Nat : margin = p.targetMarginBps /\ margin < 10000
  BY PolicyFields
<1>3. PICK c \in Nat, d \in Nat :
         c = ProtectedCharge(x, margin) /\ d = ProtectedCharge(y, margin) /\ c <= d
  <2>1. margin < 10000 /\ y <= y
    BY <1>2
  <2>2. /\ ProtectedCharge(x, margin) \in Nat
        /\ ProtectedCharge(x, margin) <= ProtectedCharge(y, margin)
    BY <1>1, <2>1, ProtectedChargeFacts
  <2>3. ProtectedCharge(y, margin) \in Nat
    BY <2>1, ProtectedChargeFacts
  <2> QED
    BY <2>2, <2>3
<1>4. PICK least \in Nat : least = p.minimumJobCharge
  BY PolicyFields
<1>5. ProtectedPrice(p, low) = Larger(c, least) /\ ProtectedPrice(p, high) = Larger(d, least)
  BY <1>1, <1>2, <1>3, <1>4 DEF ProtectedPrice
<1>6. Larger(c, least) \in Nat /\ Larger(c, least) <= Larger(d, least)
  BY <1>3 DEF Larger
<1> QED
  BY <1>5, <1>6

(* The same of one cost alone.                                             *)
LEMMA PriceFacts ==
    ASSUME NEW p, ValidPolicy(p), NEW cost \in Nat
    PROVE  ProtectedPrice(p, cost) \in Nat /\ InternalCost(p, cost) \in Nat
<1>1. cost <= cost
  OBVIOUS
<1> QED
  BY <1>1, ProtectedPriceFacts, InternalCostFacts

(* At most the hard limit, a provider cost has a price within the cap.     *)
LEMMA PriceWithinCap ==
    ASSUME NEW p, ValidPolicy(p), NEW cost \in Nat, cost <= p.hardProviderCost
    PROVE  ProtectedPrice(p, cost) <= p.maximumJobCharge
<1>1. /\ p.hardProviderCost \in Nat /\ p.maximumJobCharge \in Nat
      /\ ProtectedPrice(p, p.hardProviderCost) <= p.maximumJobCharge
  BY PolicyFields
<1>2. ProtectedPrice(p, cost) \in Nat
      /\ ProtectedPrice(p, cost) <= ProtectedPrice(p, p.hardProviderCost)
  BY <1>1, ProtectedPriceFacts
<1>3. ProtectedPrice(p, p.hardProviderCost) \in Nat
  BY <1>1, PriceFacts
<1> QED
  BY <1>1, <1>2, <1>3

(* MarginIsKept for every policy: of what a job is charged, at least the   *)
(* target share is left above what it cost the service.                    *)
THEOREM ChargeKeepsMargin ==
    ASSUME NEW p, ValidPolicy(p), NEW cost \in Nat
    PROVE  KeepsMargin(QuoteJobCost(p, cost, TRUE).userCharge, InternalCost(p, cost),
                       p.targetMarginBps)
<1>1. PICK price \in Nat, internal \in Nat :
         price = ProtectedPrice(p, cost) /\ internal = InternalCost(p, cost)
  BY PriceFacts
<1>2. PICK margin \in Nat : margin = p.targetMarginBps /\ margin < 10000
  BY PolicyFields
<1>3. price >= ProtectedCharge(internal, margin)
  <2>1. margin < 10000 /\ internal <= internal
    BY <1>2
  <2>2. ProtectedCharge(internal, margin) \in Nat
    BY <2>1, ProtectedChargeFacts
  <2>3. p.minimumJobCharge \in Nat
    BY PolicyFields
  <2> QED
    BY <1>1, <1>2, <2>2, <2>3 DEF ProtectedPrice, Larger
<1>4. KeepsMargin(price, internal, margin)
  <2>1. margin < 10000
    BY <1>2
  <2> QED
    BY <1>3, <2>1, MarginLeft
<1>5. QuoteJobCost(p, cost, TRUE).userCharge = price
  BY <1>1 DEF QuoteJobCost
<1>6. margin = p.targetMarginBps
  BY <1>2
<1> QED
  BY <1>1, <1>4, <1>5, <1>6, Zenon

(* HardLimitIsCovered for every policy: whatever the provider cost, as     *)
(* long as the hard limit is kept, the job can be settled within the cap.  *)
THEOREM HardLimitIsSettled ==
    ASSUME NEW p, ValidPolicy(p), NEW cost \in Nat, cost <= p.hardProviderCost
    PROVE  QuoteJobCost(p, cost, TRUE).capSafe
BY PriceWithinCap DEF QuoteJobCost

(* What a job reserves covers the charge of whatever it costs up to the    *)
(* cost that was expected when it started.                                 *)
THEOREM ReservationCoversExpectation ==
    ASSUME NEW p, ValidPolicy(p), NEW expected \in Nat, expected <= p.hardProviderCost,
           NEW cost \in Nat, cost <= expected
    PROVE  QuoteJobCost(p, cost, TRUE).userCharge
             <= QuoteJobCost(p, expected, TRUE).reservation
<1>1. PICK price \in Nat : price = ProtectedPrice(p, expected)
  BY PriceFacts
<1>2. PICK bps \in Nat : bps = 10000 + p.reservationHeadroomBps /\ bps >= 10000
  BY PolicyFields
<1>3. ProtectedPrice(p, cost) \in Nat /\ ProtectedPrice(p, cost) <= price
  BY <1>1, ProtectedPriceFacts
<1>4. p.maximumJobCharge \in Nat /\ price <= p.maximumJobCharge
  BY <1>1, PolicyFields, PriceWithinCap
<1>5. BpsCharge(price, bps) \in Nat /\ price <= BpsCharge(price, bps)
  <2>1. bps >= 10000
    BY <1>2
  <2> QED
    BY <2>1, BpsChargeCovers
<1>6. ProtectedPrice(p, cost) <= Smaller(p.maximumJobCharge, BpsCharge(price, bps))
  BY <1>3, <1>4, <1>5 DEF Smaller
<1> QED
  BY <1>1, <1>2, <1>6 DEF QuoteJobCost

(* The amounts of a quote are amounts, and a quote that is safe charges    *)
(* no more than the cap.                                                   *)
THEOREM QuoteIsBounded ==
    ASSUME NEW p, ValidPolicy(p), NEW cost \in Nat, NEW usable \in BOOLEAN
    PROVE  /\ QuoteJobCost(p, cost, usable).userCharge \in Nat
           /\ QuoteJobCost(p, cost, usable).reservation \in 0..p.maximumJobCharge
           /\ QuoteJobCost(p, cost, usable).capSafe
                => QuoteJobCost(p, cost, usable).userCharge <= p.maximumJobCharge
<1>1. PICK price \in Nat : price = ProtectedPrice(p, cost)
  BY PriceFacts
<1>2. PICK bps \in Nat : bps = 10000 + p.reservationHeadroomBps
  BY PolicyFields
<1>3. PICK limit \in Nat : limit = p.maximumJobCharge
  BY PolicyFields
<1>4. price <= price
  OBVIOUS
<1>5. BpsCharge(price, bps) \in Nat /\ BpsCharge(0, bps) \in Nat
  BY <1>4, BpsChargeFacts
<1>6. \A amount \in Nat : Smaller(limit, amount) \in 0..limit
  BY DEF Smaller
<1>7. CASE usable = TRUE
  BY <1>1, <1>2, <1>3, <1>5, <1>6, <1>7 DEF QuoteJobCost
<1>8. CASE usable = FALSE
  BY <1>1, <1>2, <1>3, <1>6, <1>8 DEF QuoteJobCost
<1> QED
  BY <1>7, <1>8

(* What is estimated of a job lies between the target and the hard limit.  *)
LEMMA EstimateIsBounded ==
    ASSUME NEW p, ValidPolicy(p), NEW seconds \in Nat, NEW clips \in Nat
    PROVE  /\ EstimatedProviderCost(p, seconds, clips) \in Nat
           /\ p.targetProviderCost <= EstimatedProviderCost(p, seconds, clips)
           /\ EstimatedProviderCost(p, seconds, clips) <= p.hardProviderCost
<1>1. PICK target \in Nat, hard \in Nat :
         p.targetProviderCost = target /\ p.hardProviderCost = hard /\ target <= hard
  BY PolicyFields
<1>2. \A scale \in Nat :
         LET cost == Smaller(hard, Larger(target, BpsCharge(target, scale)))
         IN  cost \in Nat /\ target <= cost /\ cost <= hard
  <2>1. TAKE scale \in Nat
  <2>2. target <= target
    OBVIOUS
  <2>3. BpsCharge(target, scale) \in Nat
    BY <2>2, BpsChargeFacts
  <2> QED
    BY <1>1, <2>3 DEF Smaller, Larger
<1>3. PICK scale \in Nat : scale = ComplexityBps(seconds, clips)
  <2>1. VideoBlocks(seconds) - 1 \in Nat
    BY CeilDivideCovers DEF VideoBlocks, Larger
  <2>2. ExpectedClips(clips) \in Nat
    BY DEF ExpectedClips, Smaller
  <2>3. ComplexityBps(seconds, clips) \in Nat
    BY <2>1, <2>2 DEF ComplexityBps, Smaller, Larger
  <2> QED
    BY <2>3
<1>4. EstimatedProviderCost(p, seconds, clips)
        = Smaller(hard, Larger(target, BpsCharge(target, scale)))
  BY <1>1, <1>3, Zenon DEF EstimatedProviderCost
<1> QED
  BY <1>1, <1>2, <1>4

(* EstimateIsReserved for every policy and every job: an estimate reserves *)
(* an amount within the cap that pays for all a job may cost up to it.     *)
THEOREM EstimateCoversJob ==
    ASSUME NEW p, ValidPolicy(p), NEW input \in [seconds : Nat, clips : Nat],
           NEW cost \in Nat,
           cost <= EstimatedProviderCost(p, input.seconds, input.clips)
    PROVE  /\ EstimateAnalysisJob(p, input).reservation \in 0..p.maximumJobCharge
           /\ QuoteJobCost(p, cost, TRUE).userCharge
                <= EstimateAnalysisJob(p, input).reservation
<1>1. PICK expected \in Nat :
         /\ expected = EstimatedProviderCost(p, input.seconds, input.clips)
         /\ expected <= p.hardProviderCost
  BY EstimateIsBounded
<1>2. QuoteJobCost(p, expected, TRUE).reservation \in 0..p.maximumJobCharge
  BY QuoteIsBounded, Zenon
<1>3. cost <= expected
  BY <1>1
<1>4. QuoteJobCost(p, cost, TRUE).userCharge <= QuoteJobCost(p, expected, TRUE).reservation
  BY <1>1, <1>3, ReservationCoversExpectation, Zenon
<1> QED
  BY <1>1, <1>2, <1>4, Zenon DEF EstimateAnalysisJob
=============================================================================
