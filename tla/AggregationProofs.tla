-------------------------- MODULE AggregationProofs --------------------------
(***************************************************************************)
(* The sums of what the neural network answers never leave the bits the    *)
(* tables look at, and are those of aggregator.py, for every number of     *)
(* results, period, width of the registers and probabilities.              *)
(***************************************************************************)
EXTENDS Aggregation, WellFoundedInduction, TLAPS

-----------------------------------------------------------------------------
(* The sums: Aggregation.                                                  *)

Largest == QuantNum - 1

\* The index steps through 0 .. Period - 1 also where the 8-bit count wraps.
LEMMA IndexStep ==
  ASSUME NEW n \in Nat
  PROVE  /\ n % Period \in 0 .. Period - 1
         /\ (n + 1) % Period = IF n % Period = Period - 1 THEN 0 ELSE 1 + (n % Period)
<1> USE AggregationAssumption
<1> DEFINE q == n \div Period
           r == n % Period
<1>1. q \in Nat /\ r \in 0 .. Period - 1 /\ n = Period * q + r
  BY SMT
<1> HIDE DEF q, r
<1>2. CASE r = Period - 1
  <2>1. n + 1 = Period * (q + 1) + 0
    BY <1>1, <1>2, SMT
  <2>2. (n + 1) % Period = 0
    BY <1>1, <2>1, SMT
  <2> QED BY <1>1, <1>2, <2>2 DEF r
<1>3. CASE r # Period - 1
  <2>1. n + 1 = Period * q + (r + 1) /\ r + 1 \in 0 .. Period - 1
    BY <1>1, <1>3, SMT
  <2>2. (n + 1) % Period = r + 1
    BY <1>1, <2>1, SMT
  <2> QED BY <1>1, <1>3, <2>2 DEF r
<1> QED BY <1>2, <1>3

\* The wrap of the count is invisible in its low bits.
LEMMA CountStep ==
  ASSUME NEW n \in Nat
  PROVE  (n % CntMod) % Period = n % Period
<1> USE AggregationAssumption
<1> DEFINE m == CntMod \div Period
           q == n \div CntMod
           r == n % CntMod
           u == r \div Period
           v == r % Period
<1>1. m \in Nat /\ CntMod = Period * m
  BY SMT
<1>2. q \in Nat /\ r \in Nat /\ n = CntMod * q + r
  BY SMT
<1> HIDE DEF m, q, r
<1>3. u \in Nat /\ v \in 0 .. Period - 1 /\ r = Period * u + v
  BY <1>2, SMT
<1> HIDE DEF u, v
<1>4. n = Period * (m * q + u) + v
  BY <1>1, <1>2, <1>3, SMT
<1>5. n % Period = v
  <2>1. m * q + u \in Nat
    BY <1>1, <1>2, <1>3, SMT
  <2> DEFINE w == m * q + u
  <2> HIDE DEF w
  <2>2. n = Period * w + v /\ w \in Nat
    BY <1>4, <2>1 DEF w
  <2> QED BY <2>2, <1>3, SMT
<1> QED BY <1>5 DEF v, r

\* A sum is at most the largest probability times the results in it, which are
\* as many as the index of the next result says.
AggInv ==
  /\ intermediate_result_cnt \in Nat /\ segs \in Nat
  /\ cpr \in [Classes -> Nat]
  /\ intermediate_result_cnt % Period = segs % Period
  /\ \A c \in Classes : /\ cpr[c] <= Largest * Period
                        /\ Index # 0 => cpr[c] <= Largest * Index

\* A set that holds 0 and with each number the next one holds every number.
LEMMA NatSet ==
  ASSUME NEW S, 0 \in S, \A n \in Nat : n \in S => n + 1 \in S
  PROVE  Nat \subseteq S
<1> DEFINE T == Nat \ S
           R == OpToRel(<, Nat)
<1> SUFFICES ASSUME T # {} PROVE FALSE
  OBVIOUS
<1>1. IsWellFoundedOn(R, Nat)
  BY NatLessThanWellFounded
<1>2. T \subseteq Nat
  OBVIOUS
<1>3. PICK x \in T : \A y \in T : ~(<<y, x>> \in R)
  <2> HIDE DEF R, T
  <2> QED BY <1>1, <1>2, WFMin
<1>4. x \in Nat \ {0} /\ x - 1 \in Nat /\ x - 1 < x /\ (x - 1) + 1 = x
  OBVIOUS
<1>5. x - 1 \notin T
  BY <1>3, <1>4 DEF OpToRel
<1> QED BY <1>4, <1>5

\* The weights of the bits are what they should be.
LEMMA Weights ==
  /\ Weight[0] = 1
  /\ \A b \in 0 .. KeyBits : Weight[b] \in Nat \ {0}
  /\ \A b \in 0 .. KeyBits - 1 : Weight[b + 1] = 2 * Weight[b]
<1> DEFINE Follows(f, m) == f = [b \in 0 .. m |-> IF b = 0 THEN 1 ELSE 2 * f[b - 1]]
<1>1. Weight = CHOOSE f : Follows(f, KeyBits)
  BY DEF Weight
<1>2. \E f : Follows(f, KeyBits)
  <2> DEFINE M == {m \in Nat : \E f : Follows(f, m)}
  <2>1. 0 \in M
    <3> DEFINE f == [b \in 0 .. 0 |-> 1]
    <3>1. Follows(f, 0)
      OBVIOUS
    <3> QED BY <3>1
  <2>2. ASSUME NEW m \in Nat, m \in M PROVE m + 1 \in M
    <3>1. PICK g : Follows(g, m)
      BY <2>2
    <3> DEFINE h == [b \in 0 .. m + 1 |-> IF b = 0 THEN 1 ELSE 2 * g[b - 1]]
    <3>2. \A b \in 0 .. m : h[b] = g[b]
      BY <3>1
    <3>3. \A b \in 0 .. m + 1 : b # 0 => b - 1 \in 0 .. m
      OBVIOUS
    <3>4. h = [b \in 0 .. m + 1 |-> IF b = 0 THEN 1 ELSE 2 * h[b - 1]]
      BY <3>2, <3>3
    <3>5. Follows(h, m + 1)
      BY <3>4
    <3> HIDE DEF h, Follows
    <3> QED BY <3>5
  <2> HIDE DEF M
  <2>3. KeyBits \in M
    BY <2>1, <2>2, NatSet, KeyAssumption
  <2> QED BY <2>3 DEF M
<1>3. Follows(Weight, KeyBits)
  <2> HIDE DEF Follows
  <2> QED BY <1>1, <1>2
<1>4. \A b \in 0 .. KeyBits : Weight[b] = IF b = 0 THEN 1 ELSE 2 * Weight[b - 1]
  BY <1>3
<1>5. Weight[0] = 1
  BY <1>4, KeyAssumption
<1>6. \A b \in 0 .. KeyBits - 1 : Weight[b + 1] = 2 * Weight[b]
  <2> SUFFICES ASSUME NEW b \in 0 .. KeyBits - 1 PROVE Weight[b + 1] = 2 * Weight[b]
    OBVIOUS
  <2>1. b + 1 \in 0 .. KeyBits /\ b + 1 # 0 /\ (b + 1) - 1 = b
    BY KeyAssumption
  <2> QED BY <1>4, <2>1
<1>7. \A b \in 0 .. KeyBits : Weight[b] \in Nat \ {0}
  <2> DEFINE M == {m \in Nat : m <= KeyBits => Weight[m] \in Nat \ {0}}
  <2>1. 0 \in M
    BY <1>5
  <2>2. ASSUME NEW m \in Nat, m \in M PROVE m + 1 \in M
    <3> SUFFICES ASSUME m + 1 <= KeyBits PROVE Weight[m + 1] \in Nat \ {0}
      OBVIOUS
    <3>1. m \in 0 .. KeyBits - 1 /\ m <= KeyBits
      BY KeyAssumption
    <3>2. Weight[m] \in Nat \ {0}
      BY <2>2, <3>1
    <3>3. Weight[m + 1] = 2 * Weight[m]
      BY <1>6, <3>1
    <3> QED BY <3>2, <3>3
  <2> HIDE DEF M
  <2>3. Nat \subseteq M
    BY <2>1, <2>2, NatSet
  <2>4. \A b \in 0 .. KeyBits : b \in M /\ b <= KeyBits
    BY <2>3, KeyAssumption
  <2> QED BY <2>4 DEF M
<1> QED BY <1>5, <1>6, <1>7

\* Products of the largest probability.
LEMMA LargestTimes ==
  /\ Weight[KeyBits] \in Nat /\ Largest \in Nat /\ Largest * Period \in Nat /\ Largest * Period < Weight[KeyBits]
  /\ \A i \in Nat : /\ Largest * i \in Nat /\ Largest * (i + 1) = Largest * i + Largest
                    /\ i <= Period => Largest * i <= Largest * Period
<1>0. Weight[KeyBits] \in Nat
  BY Weights, KeyAssumption
<1> USE AggregationAssumption DEF Largest
<1>1. Largest \in Nat /\ Period \in Nat
  OBVIOUS
<1> DEFINE l == Largest
<1>2. l \in Nat /\ l * Period < Weight[KeyBits]
  OBVIOUS
<1> HIDE DEF l
<1>3. l * Period \in Nat
  BY <1>1, <1>2, SMT
<1>4. \A i \in Nat : l * i \in Nat /\ l * (i + 1) = l * i + l
  BY <1>2, SMT
<1>5. \A i \in Nat : i <= Period => l * i <= l * Period
  BY <1>1, <1>2, SMT
<1> QED BY <1>0, <1>2, <1>3, <1>4, <1>5 DEF l

\* One more result, added to the sums or replacing them.
LEMMA SumsStep ==
  ASSUME AggInv, NEW pr \in Vectors
  PROVE  /\ Accumulated(pr) \in [Classes -> Nat]
         /\ \A c \in Classes :
              /\ Accumulated(pr)[c] = pr[c] + IF Index = 0 THEN 0 ELSE cpr[c]
              /\ Accumulated(pr)[c] <= Largest * (Index + 1)
<1>1. Index \in 0 .. Period - 1
  BY IndexStep DEF AggInv, Index
<1>2. Period \in Nat
  BY AggregationAssumption
<1>3. /\ Largest * Index \in Nat /\ Largest * (Index + 1) = Largest * Index + Largest
      /\ Largest * (Index + 1) <= Largest * Period
  BY <1>1, <1>2, LargestTimes
<1>4. ASSUME NEW c \in Classes
      PROVE  LET sum == IF Index = 0 THEN pr[c] ELSE cpr[c] + pr[c] IN
             /\ sum \in Nat /\ sum <= Largest * (Index + 1) /\ sum < CprMod
             /\ sum % CprMod = sum
  <2>1. pr[c] \in 0 .. Largest
    BY AggregationAssumption DEF Largest
  <2>2. cpr[c] \in Nat /\ (Index # 0 => cpr[c] <= Largest * Index)
    BY DEF AggInv
  <2> DEFINE sum == IF Index = 0 THEN pr[c] ELSE cpr[c] + pr[c]
             li == Largest * Index
             ln == Largest * (Index + 1)
             lp == Largest * Period
             kr == Weight[KeyBits]
  <2>3. li \in Nat /\ ln = li + Largest /\ ln <= lp /\ lp \in Nat /\ lp < kr /\ kr \in Nat
        /\ CprMod \in Nat /\ kr <= CprMod /\ Largest \in Nat
        /\ (Index # 0 => cpr[c] <= li)
    BY <1>3, <2>2, LargestTimes, AggregationAssumption
  <2> HIDE DEF li, ln, lp, kr
  <2>4. sum \in Nat /\ sum <= ln /\ sum < CprMod
    BY <2>1, <2>2, <2>3
  <2> HIDE DEF sum
  <2>5. sum % CprMod = sum
    BY <2>3, <2>4, SMT
  <2> QED BY <2>4, <2>5 DEF sum, ln
<1>5. \A c \in Classes : pr[c] \in Nat /\ cpr[c] \in Nat
  BY AggregationAssumption DEF AggInv
<1>6. \A c \in Classes : Accumulated(pr)[c] = IF Index = 0 THEN pr[c] ELSE cpr[c] + pr[c]
  BY <1>4 DEF Accumulated
<1>7. Accumulated(pr) \in [Classes -> Nat]
  BY <1>4, <1>5, <1>6 DEF Accumulated
<1>8. \A c \in Classes : Accumulated(pr)[c] = pr[c] + IF Index = 0 THEN 0 ELSE cpr[c]
  BY <1>5, <1>6
<1>9. \A c \in Classes : Accumulated(pr)[c] <= Largest * (Index + 1)
  BY <1>4, <1>6
<1> QED BY <1>7, <1>8, <1>9

\* The cleared registers satisfy the invariant.
LEMMA InitAggInv == EgressInit => AggInv
<1> SUFFICES ASSUME EgressInit PROVE AggInv
  OBVIOUS
<1>1. Index = 0
  BY AggregationAssumption, SMT DEF EgressInit, Index
<1>2. 0 <= Largest * Period
  BY LargestTimes
<1> QED BY <1>1, <1>2 DEF EgressInit, AggInv

\* Every packet preserves it.
LEMMA StepAggInv == AggInv /\ [EgressNext]_egressVars => AggInv'
<1> SUFFICES ASSUME AggInv, [EgressNext]_egressVars PROVE AggInv'
  OBVIOUS
<1>0. Period \in Nat \ {0} /\ CntMod \in Nat \ {0} /\ 0 % Period = 0
  BY AggregationAssumption, SMT
<1>1. CASE SkippedPacket
  <2>1. intermediate_result_cnt' = 0 /\ segs' = 0 /\ cpr' = cpr
    BY <1>1 DEF SkippedPacket
  <2>2. Index' = 0
    BY <2>1, <1>0 DEF Index
  <2> QED BY <2>1, <2>2 DEF AggInv
<1>2. ASSUME NEW pr \in Vectors, RnnPacket(pr)
      PROVE  AggInv'
  <2> DEFINE n == intermediate_result_cnt
  <2>1. n \in Nat /\ n' = (n + 1) % CntMod /\ segs \in Nat /\ segs' = segs + 1
        /\ cpr' = Accumulated(pr)
    BY <1>2 DEF RnnPacket, AggInv
  <2>2. n' \in Nat
    BY <2>1, <1>0, SMT
  <2>3. n' % Period = (n + 1) % Period
    BY <2>1, CountStep
  <2>4. n' % Period = segs' % Period
    BY <2>1, <2>3, IndexStep DEF AggInv
  <2>5. Index' # 0 => Index' = Index + 1
    <3>1. Index' = n' % Period /\ Index = n % Period
      BY DEF Index
    <3> QED BY <3>1, <2>1, <2>3, IndexStep
  <2>6. Index \in 0 .. Period - 1
    BY <2>1, IndexStep DEF Index
  <2>7. \A c \in Classes : Accumulated(pr)[c] <= Largest * Period
    <3>1. Largest * (Index + 1) <= Largest * Period
      BY <2>6, <1>0, LargestTimes
    <3>2. Largest * (Index + 1) \in Nat /\ Largest * Period \in Nat
      BY <2>6, LargestTimes
    <3> QED BY <3>1, <3>2, SumsStep
  <2> QED BY <2>1, <2>2, <2>4, <2>5, <2>7, SumsStep DEF AggInv
<1>3. CASE UNCHANGED egressVars
  BY <1>3 DEF egressVars, AggInv, Index
<1> QED BY <1>1, <1>2, <1>3 DEF EgressNext

\* The inductive invariant of the sums.
THEOREM SumsInvariant == EgressSpec => []AggInv
  BY InitAggInv, StepAggInv, PTL DEF EgressSpec

\* No sum ever leaves the bits that the ternary tables look at (the 11 bits of
\* tab_cmp*_entries.p4, chosen by hand for 128 results of 4 bits).
THEOREM SumsFit == EgressSpec => []SumsFitKey
<1>1. AggInv => SumsFitKey
  <2> SUFFICES ASSUME AggInv, NEW c \in Classes PROVE cpr[c] \in 0 .. Weight[KeyBits] - 1
    BY DEF SumsFitKey
  <2> DEFINE kr == Weight[KeyBits]
             lp == Largest * Period
  <2>1. kr \in Nat /\ lp \in Nat /\ lp < kr /\ cpr[c] \in Nat /\ cpr[c] <= lp
    BY LargestTimes, AggregationAssumption DEF AggInv
  <2> HIDE DEF kr, lp
  <2>2. cpr[c] \in 0 .. kr - 1
    BY <2>1
  <2> QED BY <2>2 DEF kr
<1> QED BY <1>1, SumsInvariant, PTL

\* A step of the egress is a step of aggregator.py or invisible to it.
LEMMA StepImplements ==
  AggInv /\ [EgressNext]_egressVars =>
    Reference!Next \/ UNCHANGED <<segs, IF segs = 0 THEN [c \in Classes |-> 0] ELSE cpr>>
<1> DEFINE acc == IF segs = 0 THEN [c \in Classes |-> 0] ELSE cpr
<1> SUFFICES ASSUME AggInv, [EgressNext]_egressVars PROVE Reference!Next \/ UNCHANGED <<segs, acc>>
  OBVIOUS
<1>1. CASE SkippedPacket
  <2>1. Reference!NewFlow
    BY <1>1 DEF SkippedPacket, Reference!NewFlow, Reference!Zeros
  <2> QED BY <2>1 DEF Reference!Next
<1>2. ASSUME NEW pr \in Vectors, RnnPacket(pr)
      PROVE  Reference!Segment(pr)
  <2>1. segs \in Nat /\ segs' = segs + 1 /\ cpr' = Accumulated(pr)
    BY <1>2 DEF RnnPacket, AggInv
  <2>2. acc' = Accumulated(pr)
    BY <2>1
  <2>3. Index = segs % Period
    BY DEF AggInv, Index
  <2>4. 0 % Period = 0
    BY AggregationAssumption, SMT
  <2>5. Index # 0 => acc = cpr
    BY <2>1, <2>3, <2>4
  <2>6. \A c \in Classes : Accumulated(pr)[c] = pr[c] + IF segs % Period = 0 THEN 0 ELSE acc[c]
    BY <2>3, <2>5, SumsStep
  <2>7. Accumulated(pr) = [c \in Classes |-> Accumulated(pr)[c]]
    BY SumsStep
  <2>8. acc' = [c \in Classes |-> pr[c] + IF segs % Period = 0 THEN 0 ELSE acc[c]]
    BY <2>2, <2>6, <2>7
  <2> QED BY <2>1, <2>8 DEF Reference!Segment
<1>3. CASE UNCHANGED egressVars
  BY <1>3 DEF egressVars
<1> QED BY <1>1, <1>2, <1>3 DEF EgressNext, Reference!Next

\* The data plane implements aggregator.py: counters of 8 and 7 bits and sums
\* that are never cleared give its sums, for every flow that takes the entry.
THEOREM SumsAreReference == EgressSpec => ImplementsAggregator
<1>1. EgressInit => Reference!Init
  BY DEF EgressInit, Reference!Init, Reference!Zeros
<1>2. AggInv /\ [EgressNext]_egressVars => [Reference!Next]_<<segs, IF segs = 0 THEN [c \in Classes |-> 0] ELSE cpr>>
  BY StepImplements
<1> QED BY <1>1, <1>2, SumsInvariant, PTL DEF EgressSpec, ImplementsAggregator, Reference!Spec

-----------------------------------------------------------------------------
(* The largest sum: ArgmaxTables.                                          *)

\* The bits of v below k.
Low(v, k) == v % Weight[k]

LEMMA LowFirst == \A v \in Nat : Low(v, 0) = 0
  BY Weights DEF Low

LEMMA LowNext ==
  ASSUME NEW v \in Nat, NEW k \in 0 .. KeyBits - 1
  PROVE  /\ Bit(v, k) \in {0, 1} /\ Low(v, k) \in 0 .. Weight[k] - 1
         /\ Low(v, k + 1) = (Bit(v, k) * Weight[k]) + Low(v, k)
<1> DEFINE w == Weight[k]
           q == v \div w
           r == v % w
           h == q \div 2
           b == q % 2
<1>1. w \in Nat \ {0} /\ Weight[k + 1] = 2 * w
  BY Weights, KeyAssumption
<1> HIDE DEF w
<1>2. q \in Nat /\ r \in 0 .. w - 1 /\ v = (w * q) + r
  BY <1>1, SMT
<1> HIDE DEF q, r
<1>3. h \in Nat /\ b \in 0 .. 1 /\ q = (2 * h) + b
  BY <1>2, SMT
<1> HIDE DEF h, b
<1>4. b \in {0, 1}
  BY <1>3
<1> DEFINE s == (b * w) + r
           u == 2 * w
<1>5. s \in 0 .. u - 1 /\ u \in Nat \ {0}
  BY <1>1, <1>2, <1>4
<1>6. v = (u * h) + s
  <2>1. w * ((2 * h) + b) = ((2 * w) * h) + (b * w)
    BY <1>1, <1>3, SMT
  <2> QED BY <1>1, <1>2, <1>3, <2>1, SMT
<1> HIDE DEF s, u
<1>7. v % u = s
  BY <1>3, <1>5, <1>6, SMT
<1> QED BY <1>1, <1>2, <1>4, <1>7 DEF Bit, Low, s, u, b, q, r, w

LEMMA LowAll == \A v \in 0 .. Weight[KeyBits] - 1 : Low(v, KeyBits) = v
<1> DEFINE w == Weight[KeyBits]
<1>1. w \in Nat \ {0}
  BY Weights, KeyAssumption
<1> HIDE DEF w
<1>2. \A v \in 0 .. w - 1 : v % w = v
  BY <1>1, SMT
<1> QED BY <1>2 DEF Low, w

\* What decides between two numbers: their highest bits, and then the lower ones.
Above(u, v, k) == Low(u, k) > Low(v, k)

LEMMA AboveNext ==
  ASSUME NEW u \in Nat, NEW v \in Nat, NEW k \in 0 .. KeyBits - 1
  PROVE  /\ Bit(u, k) \in {0, 1} /\ Bit(v, k) \in {0, 1}
         /\ Bit(u, k) = Bit(v, k) => (Above(u, v, k + 1) <=> Above(u, v, k))
         /\ Bit(u, k) = 1 /\ Bit(v, k) = 0 => Above(u, v, k + 1) /\ ~Above(v, u, k + 1)
<1> DEFINE w == Weight[k]
           bu == Bit(u, k)
           bv == Bit(v, k)
           lu == Low(u, k)
           lv == Low(v, k)
           nu == Low(u, k + 1)
           nv == Low(v, k + 1)
<1>1. w \in Nat \ {0}
  BY Weights, KeyAssumption
<1>2. /\ bu \in {0, 1} /\ bv \in {0, 1} /\ lu \in 0 .. w - 1 /\ lv \in 0 .. w - 1
      /\ nu = (bu * w) + lu /\ nv = (bv * w) + lv
  BY LowNext
<1> HIDE DEF w, bu, bv, lu, lv, nu, nv
<1>3. bu = bv => (nu > nv <=> lu > lv)
  BY <1>1, <1>2
<1>4. bu = 1 /\ bv = 0 => nu > nv /\ ~(nv > nu)
  BY <1>1, <1>2
<1>5. bu \in {0, 1} /\ bv \in {0, 1}
  BY <1>2
<1> QED BY <1>3, <1>4, <1>5 DEF Above, bu, bv, lu, lv, nu, nv

LEMMA AboveFirst == \A u, v \in Nat : ~Above(u, v, 0)
  BY LowFirst DEF Above

LEMMA AboveLast ==
  \A u, v \in 0 .. Weight[KeyBits] - 1 : Above(u, v, KeyBits) <=> u > v
  BY LowAll DEF Above

-----------------------------------------------------------------------------
\* What a table does with a key: its first entry that matches decides, or none.
Silent(table, key) == \A i \in 1 .. Len(table) : ~Matches(table[i], key)

Decides(table, key, class) ==
  \E i \in 1 .. Len(table) : /\ Matches(table[i], key) /\ table[i].class = class
                             /\ \A j \in 1 .. Len(table) : j < i => ~Matches(table[j], key)

LEMMA LookupDecides ==
  ASSUME NEW S, NEW table \in Seq(S), NEW key, NEW class, Decides(table, key, class)
  PROVE  Lookup(table, key) = class
<1> DEFINE n == Len(table)
           I == {i \in 1 .. n : Matches(table[i], key)}
<1>1. PICK i \in 1 .. n : /\ Matches(table[i], key) /\ table[i].class = class
                          /\ \A j \in 1 .. n : j < i => ~Matches(table[j], key)
  BY DEF Decides
<1>2. SelectInSeq(table, LAMBDA entry : Matches(entry, key)) = IF I # {} THEN Min(I) ELSE 0
  BY DEF SelectInSeq
<1>3. n \in Nat
  OBVIOUS
<1>4. i \in I /\ \A j \in I : i <= j
  BY <1>1, <1>3
<1>5. \A j \in I : j <= i => j = i
  BY <1>3, <1>4
<1>6. Min(I) = i
  <2> HIDE DEF I
  <2> QED BY <1>4, <1>5 DEF Min
<1>7. SelectInSeq(table, LAMBDA entry : Matches(entry, key)) = i
  BY <1>2, <1>4, <1>6
<1> QED BY <1>1, <1>7 DEF Lookup

\* Two tables, one after the other.
LEMMA OneAfterTheOther ==
  ASSUME NEW S, NEW s \in Seq(S), NEW t \in Seq(S), NEW key
  PROVE  /\ s \o t \in Seq(S)
         /\ Silent(s, key) /\ Silent(t, key) => Silent(s \o t, key)
         /\ \A class : Decides(s, key, class) => Decides(s \o t, key, class)
         /\ \A class : Silent(s, key) /\ Decides(t, key, class) => Decides(s \o t, key, class)
<1> DEFINE m == Len(s)
           n == Len(t)
           a == s \o t
<1>1. /\ m \in Nat /\ n \in Nat /\ a \in Seq(S) /\ Len(a) = m + n
      /\ \A i \in 1 .. m : a[i] = s[i]
      /\ \A i \in 1 .. m + n : i > m => a[i] = t[i - m]
  OBVIOUS
<1>2. \A i \in 1 .. n : m + i \in 1 .. m + n /\ a[m + i] = t[i]
  OBVIOUS
<1> HIDE DEF m, n, a
<1>3. ASSUME Silent(s, key), Silent(t, key) PROVE Silent(a, key)
  <2> SUFFICES ASSUME NEW i \in 1 .. m + n PROVE ~Matches(a[i], key)
    BY <1>1 DEF Silent
  <2>1. CASE i <= m
    BY <1>1, <1>3, <2>1 DEF Silent, m
  <2>2. CASE i > m
    <3>1. i - m \in 1 .. n
      BY <1>1, <2>2
    <3> QED BY <1>1, <1>3, <2>2, <3>1 DEF Silent, n
  <2> QED BY <1>1, <2>1, <2>2
<1>4. ASSUME NEW class, Decides(s, key, class) PROVE Decides(a, key, class)
  <2>1. PICK i \in 1 .. m : /\ Matches(s[i], key) /\ s[i].class = class
                            /\ \A j \in 1 .. m : j < i => ~Matches(s[j], key)
    BY <1>4 DEF Decides, m
  <2>2. i \in 1 .. m + n /\ a[i] = s[i]
    BY <1>1
  <2>3. ASSUME NEW j \in 1 .. m + n, j < i PROVE ~Matches(a[j], key)
    <3>1. j \in 1 .. m
      BY <1>1, <2>3
    <3> QED BY <1>1, <2>1, <2>3, <3>1
  <2> QED BY <1>1, <2>1, <2>2, <2>3 DEF Decides
<1>5. ASSUME NEW class, Silent(s, key), Decides(t, key, class) PROVE Decides(a, key, class)
  <2>1. PICK i \in 1 .. n : /\ Matches(t[i], key) /\ t[i].class = class
                            /\ \A j \in 1 .. n : j < i => ~Matches(t[j], key)
    BY <1>5 DEF Decides, n
  <2>2. m + i \in 1 .. m + n /\ a[m + i] = t[i]
    BY <1>2
  <2>3. ASSUME NEW j \in 1 .. m + n, j < m + i PROVE ~Matches(a[j], key)
    <3>1. CASE j <= m
      <4>1. j \in 1 .. m
        BY <1>1, <3>1
      <4> QED BY <1>1, <1>5, <4>1 DEF Silent, m
    <3>2. CASE j > m
      <4>1. j - m \in 1 .. n /\ j - m < i
        BY <1>1, <2>3, <3>2
      <4> QED BY <1>1, <2>1, <3>2, <4>1
    <3> QED BY <1>1, <3>1, <3>2
  <2> QED BY <1>1, <2>1, <2>2, <2>3 DEF Decides
<1> QED BY <1>1, <1>3, <1>4, <1>5 DEF a

LEMMA OneEntry ==
  ASSUME NEW entry, NEW key
  PROVE  /\ Matches(entry, key) => Decides(<<entry>>, key, entry.class)
         /\ ~Matches(entry, key) => Silent(<<entry>>, key)
  BY DEF Decides, Silent

-----------------------------------------------------------------------------
\* FlattenSeq is the last value of a function with these values.
Flattens(f, s, m) == f = [i \in 1 .. m |-> IF i = 1 THEN s[i] ELSE f[i - 1] \o s[i]]

FlatPrefixes(f, s, n, S) ==
  /\ FlattenSeq(s) = f[n]
  /\ f[1] = s[1]
  /\ \A i \in 1 .. n - 1 : f[i + 1] = f[i] \o s[i + 1]
  /\ \A i \in 1 .. n : f[i] \in Seq(S)

LEMMA FlattenValues ==
  ASSUME NEW S, NEW n \in Nat \ {0}, NEW s \in [1 .. n -> Seq(S)]
  PROVE  \E f : FlatPrefixes(f, s, n, S)
<1> DEFINE flatten[i \in 1 .. n] == IF i = 1 THEN s[i] ELSE flatten[i - 1] \o s[i]
<1>1. Len(s) = n /\ s \in Seq(Seq(S))
  OBVIOUS
<1>2. FlattenSeq(s) = flatten[n]
  BY <1>1 DEF FlattenSeq
<1>3. flatten = CHOOSE f : Flattens(f, s, n)
  BY DEF Flattens
<1> HIDE DEF flatten
<1>4. \E f : Flattens(f, s, n)
  <2> DEFINE M == {m \in Nat : \E f : Flattens(f, s, m)}
  <2>1. 0 \in M
    <3> DEFINE f == [i \in 1 .. 0 |-> s[i]]
    <3>1. Flattens(f, s, 0)
      BY DEF Flattens
    <3> QED BY <3>1
  <2>2. ASSUME NEW m \in Nat, m \in M PROVE m + 1 \in M
    <3>1. PICK g : Flattens(g, s, m)
      BY <2>2
    <3> DEFINE h == [i \in 1 .. m + 1 |-> IF i = m + 1 THEN IF i = 1 THEN s[i] ELSE g[i - 1] \o s[i]
                                                      ELSE g[i]]
    <3>2. \A i \in 1 .. m : g[i] = IF i = 1 THEN s[i] ELSE g[i - 1] \o s[i]
      BY <3>1 DEF Flattens
    <3>3. ASSUME NEW i \in 1 .. m + 1 PROVE h[i] = IF i = 1 THEN s[i] ELSE h[i - 1] \o s[i]
      <4>1. CASE i = 1 BY <3>2, <4>1
      <4>2. CASE i # 1
        <5>1. i - 1 \in 1 .. m /\ i - 1 \in 1 .. m + 1 /\ i - 1 # m + 1 /\ (i # m + 1 => i \in 1 .. m)
          BY <4>2
        <5>2. h[i - 1] = g[i - 1]
          BY <5>1
        <5>3. h[i] = g[i - 1] \o s[i]
          BY <3>2, <4>2, <5>1
        <5> QED BY <4>2, <5>2, <5>3
      <4> QED BY <4>1, <4>2
    <3>4. Flattens(h, s, m + 1)
      BY <3>3 DEF Flattens
    <3> HIDE DEF h
    <3> QED BY <3>4
  <2> HIDE DEF M
  <2>3. n \in M
    BY <2>1, <2>2, NatSet
  <2> QED BY <2>3 DEF M
<1>5. Flattens(flatten, s, n)
  BY <1>3, <1>4
<1>6. \A i \in 1 .. n : flatten[i] = IF i = 1 THEN s[i] ELSE flatten[i - 1] \o s[i]
  BY <1>5 DEF Flattens
<1>7. flatten[1] = s[1]
  BY <1>6
<1>8. \A i \in 1 .. n - 1 : flatten[i + 1] = flatten[i] \o s[i + 1]
  <2> SUFFICES ASSUME NEW i \in 1 .. n - 1 PROVE flatten[i + 1] = flatten[i] \o s[i + 1]
    OBVIOUS
  <2>1. i + 1 \in 1 .. n /\ i + 1 # 1 /\ (i + 1) - 1 = i
    OBVIOUS
  <2> QED BY <1>6, <2>1
<1>9. \A i \in 1 .. n : flatten[i] \in Seq(S)
  <2> DEFINE M == {m \in Nat : m + 1 <= n => flatten[m + 1] \in Seq(S)}
  <2>1. 0 \in M
    BY <1>7
  <2>2. ASSUME NEW m \in Nat, m \in M PROVE m + 1 \in M
    <3> SUFFICES ASSUME (m + 1) + 1 <= n PROVE flatten[(m + 1) + 1] \in Seq(S)
      OBVIOUS
    <3> DEFINE i == m + 1
    <3>1. i \in 1 .. n - 1 /\ i + 1 \in 1 .. n
      OBVIOUS
    <3>2. flatten[i] \in Seq(S)
      BY <2>2, <3>1
    <3> HIDE DEF i, M
    <3>3. s[i + 1] \in Seq(S)
      BY <3>1
    <3>4. flatten[i] \o s[i + 1] \in Seq(S)
      BY <3>2, <3>3
    <3> QED BY <1>8, <3>1, <3>4 DEF i
  <2> HIDE DEF M
  <2>3. Nat \subseteq M
    BY <2>1, <2>2, NatSet
  <2> SUFFICES ASSUME NEW i \in 1 .. n PROVE flatten[i] \in Seq(S)
    OBVIOUS
  <2>4. i - 1 \in M /\ (i - 1) + 1 = i /\ i <= n
    BY <2>3
  <2> QED BY <2>4 DEF M
<1>10. FlatPrefixes(flatten, s, n, S)
  BY <1>2, <1>7, <1>8, <1>9 DEF FlatPrefixes
<1> QED BY <1>10

LEMMA DownNone == \A list : Downwards(0, list) = << >>
<1> SUFFICES ASSUME NEW list PROVE Downwards(0, list) = << >>
  OBVIOUS
<1> DEFINE s == [i \in 1 .. 0 |-> list[0 - i]]
<1>1. Downwards(0, list) = FlattenSeq(s) /\ Len(s) = 0 /\ s = << >>
  BY DEF Downwards
<1> QED BY <1>1 DEF FlattenSeq

\* The list for the highest bit comes first.
LEMMA DownStep ==
  ASSUME NEW S, NEW k \in Nat, NEW list, \A b \in 0 .. k : list[b] \in Seq(S)
  PROVE  /\ Downwards(k, list) \in Seq(S) /\ Downwards(k + 1, list) \in Seq(S)
         /\ Downwards(k + 1, list) = list[k] \o Downwards(k, list)
<1> DEFINE s == [i \in 1 .. k |-> list[k - i]]
           t == [i \in 1 .. k + 1 |-> list[(k + 1) - i]]
<1>1. Downwards(k, list) = FlattenSeq(s) /\ Downwards(k + 1, list) = FlattenSeq(t)
  BY DEF Downwards
<1>2. t \in [1 .. k + 1 -> Seq(S)] /\ s \in [1 .. k -> Seq(S)]
  OBVIOUS
<1>3. t[1] = list[k] /\ \A i \in 1 .. k : t[i + 1] = s[i]
  OBVIOUS
<1>4. Len(s) = k
  OBVIOUS
<1> HIDE DEF s, t
<1>5. PICK g : FlatPrefixes(g, t, k + 1, S)
  <2> DEFINE n == k + 1
  <2>1. n \in Nat \ {0} /\ t \in [1 .. n -> Seq(S)]
    BY <1>2
  <2> HIDE DEF n
  <2>2. \E g : FlatPrefixes(g, t, n, S)
    BY <2>1, FlattenValues
  <2> QED BY <2>2 DEF n
<1>6. /\ FlattenSeq(t) = g[k + 1]
      /\ g[1] = t[1]
      /\ \A i \in 1 .. k : g[i + 1] = g[i] \o t[i + 1]
      /\ \A i \in 1 .. k + 1 : g[i] \in Seq(S)
  <2>1. (k + 1) - 1 = k
    OBVIOUS
  <2> QED BY <1>5, <2>1 DEF FlatPrefixes
<1>7. CASE k = 0
  <2>1. FlattenSeq(s) = s
    BY <1>4, <1>7 DEF FlattenSeq
  <2>2. s = << >>
    BY <1>2, <1>7
  <2>3. list[k] \in Seq(S)
    BY <1>7
  <2>4. list[k] \o << >> = list[k]
    BY <2>3
  <2> QED BY <1>1, <1>3, <1>6, <1>7, <2>1, <2>2, <2>3, <2>4
<1>8. CASE k # 0
  <2>1. k \in Nat \ {0}
    BY <1>8
  <2>2. PICK f : FlatPrefixes(f, s, k, S)
    BY <1>2, <2>1, FlattenValues
  <2>3. /\ FlattenSeq(s) = f[k]
        /\ f[1] = s[1]
        /\ \A i \in 1 .. k - 1 : f[i + 1] = f[i] \o s[i + 1]
        /\ \A i \in 1 .. k : f[i] \in Seq(S)
    BY <2>2 DEF FlatPrefixes
  <2> DEFINE a == list[k]
             M == {m \in Nat : m + 1 <= k => g[(m + 1) + 1] = a \o f[m + 1]}
  <2>4. a \in Seq(S)
    OBVIOUS
  <2> HIDE DEF a
  <2>5. g[1] = a
    BY <1>3, <1>6 DEF a
  <2>6. 0 \in M
    <3>1. 1 \in 1 .. k
      BY <1>8
    <3>2. t[1 + 1] = s[1]
      BY <1>3, <3>1
    <3>3. g[1 + 1] = g[1] \o t[1 + 1]
      BY <1>6, <3>1
    <3>4. g[(0 + 1) + 1] = a \o f[0 + 1]
      BY <2>3, <2>5, <3>2, <3>3
    <3> QED BY <3>4
  <2>7. ASSUME NEW m \in Nat, m \in M PROVE m + 1 \in M
    <3> SUFFICES ASSUME (m + 1) + 1 <= k PROVE g[((m + 1) + 1) + 1] = a \o f[(m + 1) + 1]
      OBVIOUS
    <3> DEFINE n == m + 1
    <3>1. n \in 1 .. k - 1 /\ n \in 1 .. k /\ n + 1 \in 1 .. k
      OBVIOUS
    <3>2. g[n + 1] = a \o f[n]
      BY <2>7, <3>1
    <3> HIDE DEF n, M
    <3>3. g[(n + 1) + 1] = g[n + 1] \o t[(n + 1) + 1]
      BY <1>6, <3>1
    <3>4. t[(n + 1) + 1] = s[n + 1]
      BY <1>3, <3>1
    <3>5. f[n + 1] = f[n] \o s[n + 1]
      BY <2>3, <3>1
    <3> DEFINE x == f[n]
               y == s[n + 1]
    <3>6. x \in Seq(S) /\ y \in Seq(S)
      BY <1>2, <2>3, <3>1
    <3> HIDE DEF x, y
    <3>7. (a \o x) \o y = a \o (x \o y)
      BY <2>4, <3>6
    <3> QED BY <3>2, <3>3, <3>4, <3>5, <3>7 DEF n, x, y
  <2> HIDE DEF M
  <2>8. k - 1 \in M /\ (k - 1) + 1 = k
    <3>1. Nat \subseteq M
      BY <2>6, <2>7, NatSet
    <3>2. k - 1 \in Nat /\ (k - 1) + 1 = k
      BY <1>8
    <3> QED BY <3>1, <3>2
  <2>9. g[k + 1] = a \o f[k]
    BY <2>8 DEF M
  <2>10. f[k] \in Seq(S) /\ g[k + 1] \in Seq(S)
    <3>1. k \in 1 .. k /\ k + 1 \in 1 .. k + 1
      BY <2>1
    <3> QED BY <1>6, <2>3, <3>1
  <2> QED BY <1>1, <1>6, <1>8, <2>3, <2>9, <2>10 DEF a
<1> QED BY <1>7, <1>8

-----------------------------------------------------------------------------
\* A list of which no table knows the key.
LEMMA DownSilent ==
  ASSUME NEW S, NEW n \in Nat, NEW list, NEW key,
         \A b \in 0 .. n - 1 : list[b] \in Seq(S) /\ Silent(list[b], key)
  PROVE  Downwards(n, list) \in Seq(S) /\ Silent(Downwards(n, list), key)
<1> DEFINE M == {m \in Nat : m <= n => /\ Downwards(m, list) \in Seq(S)
                                       /\ Silent(Downwards(m, list), key)}
<1>1. 0 \in M
  <2>1. Downwards(0, list) = << >> /\ << >> \in Seq(S) /\ Silent(<< >>, key)
    BY DownNone DEF Silent
  <2>2. Downwards(0, list) \in Seq(S) /\ Silent(Downwards(0, list), key)
    BY <2>1
  <2> QED BY <2>2
<1>2. ASSUME NEW m \in Nat, m \in M PROVE m + 1 \in M
  <2> SUFFICES ASSUME m + 1 <= n
               PROVE  /\ Downwards(m + 1, list) \in Seq(S)
                      /\ Silent(Downwards(m + 1, list), key)
    OBVIOUS
  <2>1. Silent(Downwards(m, list), key)
    BY <1>2
  <2> HIDE DEF M
  <2>2. \A b \in 0 .. m : list[b] \in Seq(S)
    OBVIOUS
  <2>3. /\ Downwards(m, list) \in Seq(S) /\ Downwards(m + 1, list) \in Seq(S)
        /\ Downwards(m + 1, list) = list[m] \o Downwards(m, list)
    BY <2>2, DownStep
  <2>4. list[m] \in Seq(S) /\ Silent(list[m], key)
    OBVIOUS
  <2> QED BY <2>1, <2>3, <2>4, OneAfterTheOther
<1> HIDE DEF M
<1>3. n \in M
  BY <1>1, <1>2, NatSet
<1> QED BY <1>3 DEF M

\* A table for bit b of two numbers u and v: cp is for u, cq for v.  For the
\* lowest bit it may leave the first to what comes after it.
Weighs(table, key, u, v, b, cp, cq) ==
  /\ Bit(u, b) = Bit(v, b) => Silent(table, key)
  /\ Bit(u, b) = 0 /\ Bit(v, b) = 1 => Decides(table, key, cq)
  /\ Bit(u, b) = 1 /\ Bit(v, b) = 0 => Decides(table, key, cp) \/ (b = 0 /\ Silent(table, key))

\* Such tables for all bits below n, the highest first, compare the numbers.
Compares(table, key, u, v, n, cp, cq) ==
  /\ Above(v, u, n) => Decides(table, key, cq)
  /\ ~Above(v, u, n) => Decides(table, key, cp) \/ Silent(table, key)

LEMMA Comparison ==
  ASSUME NEW S, NEW n \in 0 .. KeyBits, NEW list, NEW key, NEW u \in Nat, NEW v \in Nat, NEW cp, NEW cq,
         \A b \in 0 .. n - 1 : list[b] \in Seq(S) /\ Weighs(list[b], key, u, v, b, cp, cq)
  PROVE  Downwards(n, list) \in Seq(S) /\ Compares(Downwards(n, list), key, u, v, n, cp, cq)
<1> DEFINE M == {m \in Nat : m <= n => /\ Downwards(m, list) \in Seq(S)
                                       /\ m = 0 => Downwards(m, list) = << >>
                                       /\ Compares(Downwards(m, list), key, u, v, m, cp, cq)}
<1>1. 0 \in M
  <2>1. Downwards(0, list) = << >> /\ << >> \in Seq(S)
    BY DownNone
  <2>2. Silent(<< >>, key) /\ ~Above(v, u, 0)
    BY AboveFirst DEF Silent
  <2>3. Downwards(0, list) \in Seq(S) /\ Compares(Downwards(0, list), key, u, v, 0, cp, cq)
    BY <2>1, <2>2 DEF Compares
  <2> QED BY <2>1, <2>3
<1>2. ASSUME NEW m \in Nat, m \in M PROVE m + 1 \in M
  <2> SUFFICES ASSUME m + 1 <= n
               PROVE  /\ Downwards(m + 1, list) \in Seq(S)
                      /\ Compares(Downwards(m + 1, list), key, u, v, m + 1, cp, cq)
    OBVIOUS
  <2>1. Compares(Downwards(m, list), key, u, v, m, cp, cq) /\ (m = 0 => Downwards(m, list) = << >>)
    BY <1>2
  <2> HIDE DEF M
  <2>2. \A b \in 0 .. m : list[b] \in Seq(S)
    OBVIOUS
  <2>3. /\ Downwards(m, list) \in Seq(S) /\ Downwards(m + 1, list) \in Seq(S)
        /\ Downwards(m + 1, list) = list[m] \o Downwards(m, list)
    BY <2>2, DownStep
  <2>4. list[m] \in Seq(S) /\ Weighs(list[m], key, u, v, m, cp, cq) /\ m \in 0 .. KeyBits - 1
    BY KeyAssumption
  <2> DEFINE low == Downwards(m, list)
             all == Downwards(m + 1, list)
             top == list[m]
  <2>5. /\ Silent(top, key) /\ Silent(low, key) => Silent(all, key)
        /\ \A class : Decides(top, key, class) => Decides(all, key, class)
        /\ \A class : Silent(top, key) /\ Decides(low, key, class) => Decides(all, key, class)
    BY <2>3, <2>4, OneAfterTheOther
  <2>6. /\ Bit(u, m) \in {0, 1} /\ Bit(v, m) \in {0, 1}
        /\ Bit(v, m) = Bit(u, m) => (Above(v, u, m + 1) <=> Above(v, u, m))
        /\ Bit(v, m) = 1 /\ Bit(u, m) = 0 => Above(v, u, m + 1)
        /\ Bit(u, m) = 1 /\ Bit(v, m) = 0 => ~Above(v, u, m + 1)
    BY <2>4, AboveNext
  <2>7. m = 0 => Silent(low, key)
    BY <2>1 DEF Silent
  <2> HIDE DEF low, all, top
  <2>8. Compares(low, key, u, v, m, cp, cq) /\ Weighs(top, key, u, v, m, cp, cq)
    BY <2>1, <2>4 DEF low, top
  <2>9. Compares(all, key, u, v, m + 1, cp, cq)
    <3>1. CASE Bit(u, m) = Bit(v, m)
      <4>1. Silent(top, key) /\ (Above(v, u, m + 1) <=> Above(v, u, m))
        BY <2>6, <2>8, <3>1 DEF Weighs
      <4> QED BY <2>5, <2>8, <4>1 DEF Compares
    <3>2. CASE Bit(u, m) = 0 /\ Bit(v, m) = 1
      <4>1. Decides(top, key, cq) /\ Above(v, u, m + 1)
        BY <2>6, <2>8, <3>2 DEF Weighs
      <4> QED BY <2>5, <4>1 DEF Compares
    <3>3. CASE Bit(u, m) = 1 /\ Bit(v, m) = 0
      <4>1. ~Above(v, u, m + 1) /\ (Decides(top, key, cp) \/ (m = 0 /\ Silent(top, key)))
        BY <2>6, <2>8, <3>3 DEF Weighs
      <4> QED BY <2>5, <2>7, <4>1 DEF Compares
    <3> QED BY <2>6, <3>1, <3>2, <3>3
  <2> QED BY <2>3, <2>9 DEF all
<1> HIDE DEF M
<1>3. n \in M
  <2>1. n \in Nat
    BY KeyAssumption
  <2> QED BY <1>1, <1>2, <2>1, NatSet
<1> QED BY <1>3 DEF M

-----------------------------------------------------------------------------
Cells == Int \X Int \X Int

Entries == [cells : SUBSET Cells, class : Int]

LEMMA EntryType ==
  ASSUME NEW cells \in SUBSET Cells, NEW class \in Int
  PROVE  Entry(cells, class) \in Entries /\ Entry(cells, class).class = class
  BY DEF Entry, Entries

\* An entry with more cells matches if it would with each part of them.
LEMMA MoreCells ==
  ASSUME NEW A, NEW B, NEW class, NEW other, NEW key
  PROVE  Matches(Entry(A \union B, class), key)
           <=> Matches(Entry(A, other), key) /\ Matches(Entry(B, other), key)
<1>1. /\ Entry(A \union B, class).cells = A \union B
      /\ Entry(A, other).cells = A /\ Entry(B, other).cells = B
  BY DEF Entry
<1> QED BY <1>1 DEF Matches

\* Two keys have these values of bit b.
BothCells(p, x, q, y, b) == {<<p, b, x>>, <<q, b, y>>}

LEMMA TwoCells ==
  ASSUME NEW p, NEW q, NEW b, NEW x, NEW y, NEW class, NEW key
  PROVE  Matches(Entry(BothCells(p, x, q, y, b), class), key)
           <=> Bit(key[p], b) = x /\ Bit(key[q], b) = y
<1> DEFINE one == <<p, b, x>>
           two == <<q, b, y>>
<1>1. Entry({one, two}, class).cells = {one, two}
  BY DEF Entry
<1>2. one[1] = p /\ one[2] = b /\ one[3] = x /\ two[1] = q /\ two[2] = b /\ two[3] = y
  OBVIOUS
<1> HIDE DEF one, two
<1>3. Matches(Entry({one, two}, class), key)
        <=> Bit(key[one[1]], one[2]) = one[3] /\ Bit(key[two[1]], two[2]) = two[3]
  BY <1>1 DEF Matches
<1>4. Matches(Entry({one, two}, class), key) <=> Bit(key[p], b) = x /\ Bit(key[q], b) = y
  BY <1>2, <1>3, Zenon
<1> QED BY <1>4 DEF BothCells, one, two

LEMMA TwoEntries ==
  ASSUME NEW S, NEW one \in S, NEW two \in S, NEW key
  PROVE  /\ <<one, two>> \in Seq(S)
         /\ Matches(one, key) => Decides(<<one, two>>, key, one.class)
         /\ ~Matches(one, key) /\ Matches(two, key) => Decides(<<one, two>>, key, two.class)
         /\ ~Matches(one, key) /\ ~Matches(two, key) => Silent(<<one, two>>, key)
<1> DEFINE t == <<one, two>>
<1>1. t \in Seq(S) /\ Len(t) = 2 /\ t[1] = one /\ t[2] = two /\ 1 .. 2 = {1, 2}
  OBVIOUS
<1> HIDE DEF t
<1>2. Matches(one, key) => Decides(t, key, one.class)
  BY <1>1 DEF Decides
<1>3. ~Matches(one, key) /\ Matches(two, key) => Decides(t, key, two.class)
  <2> SUFFICES ASSUME ~Matches(one, key), Matches(two, key) PROVE Decides(t, key, two.class)
    OBVIOUS
  <2>1. \A j \in 1 .. 2 : j < 2 => ~Matches(t[j], key)
    BY <1>1
  <2> QED BY <1>1, <2>1 DEF Decides
<1>4. ~Matches(one, key) /\ ~Matches(two, key) => Silent(t, key)
  BY <1>1 DEF Silent
<1> QED BY <1>1, <1>2, <1>3, <1>4 DEF t

\* The entries about bit b of two keys, beside the cells they have in common.
Higher(base, p, q, b, cp) == Entry(base \union BothCells(p, 1, q, 0, b), cp)

MatchesIfHigher(base, p, q, b, cp, other, key) ==
  /\ Higher(base, p, q, b, cp) \in Entries /\ Higher(base, p, q, b, cp).class = cp
  /\ Matches(Higher(base, p, q, b, cp), key)
       <=> Matches(Entry(base, other), key) /\ Bit(key[p], b) = 1 /\ Bit(key[q], b) = 0

LEMMA HigherMatches ==
  ASSUME NEW base \in SUBSET Cells, NEW p \in Int, NEW q \in Int, NEW b \in Int,
         NEW cp \in Int, NEW other, NEW key
  PROVE  MatchesIfHigher(base, p, q, b, cp, other, key)
<1> DEFINE two == BothCells(p, 1, q, 0, b)
<1>1. base \union two \in SUBSET Cells
  BY DEF BothCells, Cells
<1>2. Matches(Entry(two, other), key) <=> Bit(key[p], b) = 1 /\ Bit(key[q], b) = 0
  BY TwoCells
<1> HIDE DEF two
<1>3. Matches(Entry(base \union two, cp), key)
        <=> Matches(Entry(base, other), key) /\ Matches(Entry(two, other), key)
  BY MoreCells
<1>4. Higher(base, p, q, b, cp) = Entry(base \union two, cp)
  BY DEF Higher, two
<1> QED BY <1>1, <1>2, <1>3, <1>4, EntryType DEF MatchesIfHigher

\* What Pair and tab_cmp012345 have for bit b.
ByBit(base, p, q, cp, cq, b) ==
  IF b = 0 THEN <<Higher(base, q, p, b, cq)>>
           ELSE <<Higher(base, p, q, b, cp), Higher(base, q, p, b, cq)>>

Answers(table, base, p, q, cp, cq, b, key, other) ==
  /\ table \in Seq(Entries)
  /\ Matches(Entry(base, other), key) => Weighs(table, key, key[p], key[q], b, cp, cq)
  /\ ~Matches(Entry(base, other), key) => Silent(table, key)

LEMMA ByBitWeighs ==
  ASSUME NEW base \in SUBSET Cells, NEW p \in Int, NEW q \in Int,
         NEW b \in 0 .. KeyBits - 1, NEW cp \in Int, NEW cq \in Int, NEW key, NEW other,
         key[p] \in Nat, key[q] \in Nat
  PROVE  Answers(ByBit(base, p, q, cp, cq, b), base, p, q, cp, cq, b, key, other)
<1> DEFINE one == Higher(base, p, q, b, cp)
           two == Higher(base, q, p, b, cq)
           u == key[p]
           v == key[q]
           t == ByBit(base, p, q, cp, cq, b)
<1>1. b \in Int
  OBVIOUS
<1>2. /\ one \in Entries /\ one.class = cp
      /\ Matches(one, key) <=> Matches(Entry(base, other), key) /\ Bit(u, b) = 1 /\ Bit(v, b) = 0
  <2>1. MatchesIfHigher(base, p, q, b, cp, other, key)
    BY <1>1, HigherMatches
  <2> QED BY <2>1 DEF MatchesIfHigher
<1>3. /\ two \in Entries /\ two.class = cq
      /\ Matches(two, key) <=> Matches(Entry(base, other), key) /\ Bit(v, b) = 1 /\ Bit(u, b) = 0
  <2>1. MatchesIfHigher(base, q, p, b, cq, other, key)
    BY <1>1, HigherMatches
  <2> QED BY <2>1 DEF MatchesIfHigher
<1>4. Bit(u, b) \in {0, 1} /\ Bit(v, b) \in {0, 1}
  BY LowNext
<1>5. b = 0 => t = <<two>>
  BY DEF ByBit
<1>6. b # 0 => t = <<one, two>>
  BY DEF ByBit
<1> HIDE DEF one, two, u, v, t
<1>7. CASE b = 0
  <2>1. /\ <<two>> \in Seq(Entries)
        /\ Matches(two, key) => Decides(<<two>>, key, cq)
        /\ ~Matches(two, key) => Silent(<<two>>, key)
    BY <1>3, OneEntry
  <2>2. /\ t \in Seq(Entries)
        /\ Matches(two, key) => Decides(t, key, cq)
        /\ ~Matches(two, key) => Silent(t, key)
    BY <1>5, <1>7, <2>1
  <2>3. Matches(Entry(base, other), key) => Weighs(t, key, u, v, b, cp, cq)
    BY <1>3, <1>4, <1>7, <2>2 DEF Weighs
  <2> QED BY <1>3, <2>2, <2>3 DEF Answers, t, u, v
<1>8. CASE b # 0
  <2>1. /\ <<one, two>> \in Seq(Entries)
        /\ Matches(one, key) => Decides(<<one, two>>, key, cp)
        /\ ~Matches(one, key) /\ Matches(two, key) => Decides(<<one, two>>, key, cq)
        /\ ~Matches(one, key) /\ ~Matches(two, key) => Silent(<<one, two>>, key)
    BY <1>2, <1>3, TwoEntries
  <2>2. /\ t \in Seq(Entries)
        /\ Matches(one, key) => Decides(t, key, cp)
        /\ ~Matches(one, key) /\ Matches(two, key) => Decides(t, key, cq)
        /\ ~Matches(one, key) /\ ~Matches(two, key) => Silent(t, key)
    BY <1>6, <1>8, <2>1
  <2>3. Matches(Entry(base, other), key) => Weighs(t, key, u, v, b, cp, cq)
    BY <1>2, <1>3, <1>4, <1>8, <2>2 DEF Weighs
  <2> QED BY <1>2, <1>3, <2>2, <2>3 DEF Answers, t, u, v
<1> QED BY <1>7, <1>8

\* The lists of Pair and tab_cmp012345: the second wins if its number is larger.
Picks(table, base, p, q, n, cp, cq, key, other) ==
  /\ table \in Seq(Entries)
  /\ Matches(Entry(base, other), key)
       => Decides(table, key, IF Above(key[q], key[p], n) THEN cq ELSE cp)
  /\ ~Matches(Entry(base, other), key) => Silent(table, key)

LEMMA FirstOrSecond ==
  ASSUME NEW base \in SUBSET Cells, NEW p \in Int, NEW q \in Int,
         NEW n \in 0 .. KeyBits, NEW cp \in Int, NEW cq \in Int, NEW key, NEW other, NEW list,
         key[p] \in Nat, key[q] \in Nat,
         \A b \in 0 .. n - 1 : list[b] = ByBit(base, p, q, cp, cq, b)
  PROVE  Picks(Downwards(n, list) \o <<Entry(base, cp)>>, base, p, q, n, cp, cq, key, other)
<1> DEFINE down == Downwards(n, list)
           last == Entry(base, cp)
           u == key[p]
           v == key[q]
<1>1. \A b \in 0 .. n - 1 :
        /\ list[b] \in Seq(Entries)
        /\ Matches(Entry(base, other), key) => Weighs(list[b], key, u, v, b, cp, cq)
        /\ ~Matches(Entry(base, other), key) => Silent(list[b], key)
  <2> SUFFICES ASSUME NEW b \in 0 .. n - 1
               PROVE /\ list[b] \in Seq(Entries)
                     /\ Matches(Entry(base, other), key) => Weighs(list[b], key, u, v, b, cp, cq)
                     /\ ~Matches(Entry(base, other), key) => Silent(list[b], key)
    OBVIOUS
  <2>1. b \in 0 .. KeyBits - 1
    BY KeyAssumption
  <2>2. list[b] = ByBit(base, p, q, cp, cq, b)
    OBVIOUS
  <2>3. Answers(ByBit(base, p, q, cp, cq, b), base, p, q, cp, cq, b, key, other)
    BY <2>1, ByBitWeighs
  <2> QED BY <2>2, <2>3 DEF Answers
<1>2. n \in Nat
  BY KeyAssumption
<1>3. last \in Entries /\ last.class = cp
  BY EntryType
<1>4. Matches(last, key) <=> Matches(Entry(base, other), key)
  BY DEF Entry, Matches
<1>5. <<last>> \in Seq(Entries)
  BY <1>3
<1>6. /\ Matches(last, key) => Decides(<<last>>, key, cp)
      /\ ~Matches(last, key) => Silent(<<last>>, key)
  BY <1>3, OneEntry
<1>7. CASE Matches(Entry(base, other), key)
  <2>1. down \in Seq(Entries) /\ Compares(down, key, u, v, n, cp, cq)
    BY <1>1, <1>7, Comparison
  <2> HIDE DEF down, last, u, v
  <2>2. /\ down \o <<last>> \in Seq(Entries)
        /\ \A class : Decides(down, key, class) => Decides(down \o <<last>>, key, class)
        /\ \A class : Silent(down, key) /\ Decides(<<last>>, key, class) => Decides(down \o <<last>>, key, class)
    BY <1>5, <2>1, OneAfterTheOther
  <2>3. Decides(down \o <<last>>, key, IF Above(v, u, n) THEN cq ELSE cp)
    BY <1>4, <1>6, <1>7, <2>1, <2>2 DEF Compares
  <2> QED BY <1>7, <2>2, <2>3 DEF Picks, down, last, u, v
<1>8. CASE ~Matches(Entry(base, other), key)
  <2>1. down \in Seq(Entries) /\ Silent(down, key)
    BY <1>1, <1>2, <1>8, DownSilent
  <2> HIDE DEF down, last, u, v
  <2>2. /\ down \o <<last>> \in Seq(Entries)
        /\ Silent(down, key) /\ Silent(<<last>>, key) => Silent(down \o <<last>>, key)
    BY <1>5, <2>1, OneAfterTheOther
  <2> QED BY <1>4, <1>6, <1>8, <2>1, <2>2 DEF Picks, down, last, u, v
<1> QED BY <1>7, <1>8

-----------------------------------------------------------------------------
\* Of the keys of a half just these have bit k.
Pattern(f, ones, k) == {<<e, k, IF e \in ones THEN 1 ELSE 0>> : e \in Half(f)}

Shows(key, f, ones, k) == \A e \in Half(f) : Bit(key[e], k) = IF e \in ones THEN 1 ELSE 0

LEMMA PatternMatches ==
  ASSUME NEW f \in Int, NEW ones, NEW k \in Int, NEW class, NEW key
  PROVE  /\ Pattern(f, ones, k) \in SUBSET Cells
         /\ Matches(Entry(Pattern(f, ones, k), class), key) <=> Shows(key, f, ones, k)
<1> DEFINE cell(e) == <<e, k, IF e \in ones THEN 1 ELSE 0>>
<1>1. Half(f) \subseteq Int
  BY DEF Half
<1>2. \A e \in Half(f) : cell(e) \in Cells
  BY <1>1 DEF Cells
<1>3. \A e \in Half(f) : cell(e)[1] = e /\ cell(e)[2] = k /\ cell(e)[3] = IF e \in ones THEN 1 ELSE 0
  OBVIOUS
<1> HIDE DEF cell
<1>4. Pattern(f, ones, k) = {cell(e) : e \in Half(f)}
  BY DEF Pattern, cell
<1>5. Entry(Pattern(f, ones, k), class).cells = Pattern(f, ones, k)
  BY DEF Entry
<1>6. Matches(Entry(Pattern(f, ones, k), class), key)
        <=> \A e \in Half(f) : Bit(key[cell(e)[1]], cell(e)[2]) = cell(e)[3]
  BY <1>4, <1>5 DEF Matches
<1>7. Matches(Entry(Pattern(f, ones, k), class), key) <=> Shows(key, f, ones, k)
  BY <1>3, <1>6 DEF Shows
<1> QED BY <1>2, <1>4, <1>7

\* A table that decides if these have the bit, and not otherwise.
DecidesIf(table, key, f, ones, k, class) ==
  /\ table \in Seq(Entries)
  /\ Shows(key, f, ones, k) => Decides(table, key, class)
  /\ ~Shows(key, f, ones, k) => Silent(table, key)

LEMMA AloneDecides ==
  ASSUME NEW f \in Int, NEW c \in Half(f), NEW k \in Int, NEW key
  PROVE  DecidesIf(<<Alone(f, c, k)>>, key, f, {c}, k, c)
<1>1. c \in Int
  BY DEF Half
<1>2. Alone(f, c, k) = Entry(Pattern(f, {c}, k), c)
  <2>1. \A d \in Half(f) : (IF d = c THEN 1 ELSE 0) = IF d \in {c} THEN 1 ELSE 0
    OBVIOUS
  <2>2. {<<d, k, IF d = c THEN 1 ELSE 0>> : d \in Half(f)} = Pattern(f, {c}, k)
    BY <2>1 DEF Pattern
  <2> QED BY <2>2 DEF Alone
<1> DEFINE entry == Alone(f, c, k)
           cells == Pattern(f, {c}, k)
<1>3. cells \in SUBSET Cells /\ (Matches(entry, key) <=> Shows(key, f, {c}, k))
  BY <1>2, PatternMatches
<1> HIDE DEF cells, entry
<1>4. Entry(cells, c) \in Entries /\ Entry(cells, c).class = c
  BY <1>1, <1>3, EntryType
<1>5. entry \in Entries /\ entry.class = c
  BY <1>2, <1>4 DEF cells, entry
<1>6. <<entry>> \in Seq(Entries)
  BY <1>5
<1> QED BY <1>3, <1>5, <1>6, OneEntry DEF DecidesIf, entry

LEMMA PairDecides ==
  ASSUME NEW f \in Int, NEW c \in Half(f), NEW d \in Half(f), NEW k \in 0 .. KeyBits, NEW key,
         \A e \in Half(f) : key[e] \in Nat
  PROVE  DecidesIf(Pair(f, c, d, k), key, f, {c, d}, k, IF Above(key[d], key[c], k) THEN d ELSE c)
<1> DEFINE both == Pattern(f, {c, d}, k)
           Wins(w, l, b) == Entry(both \union {<<w, b, 1>>, <<l, b, 0>>}, w)
           decide == [b \in 0 .. k - 1 |-> IF b = 0 THEN <<Wins(d, c, b)>>
                                           ELSE <<Wins(c, d, b), Wins(d, c, b)>>]
           table == Downwards(k, decide) \o <<Entry(both, c)>>
<1>1. Pair(f, c, d, k) = table
  BY DEF Pair, Pattern
<1>2. \A b : Wins(c, d, b) = Higher(both, c, d, b, c) /\ Wins(d, c, b) = Higher(both, d, c, b, d)
  BY DEF Higher, BothCells
<1> HIDE DEF Wins
<1>3. \A b \in 0 .. k - 1 : decide[b] = ByBit(both, c, d, c, d, b)
  BY <1>2 DEF ByBit
<1>4. c \in Int /\ d \in Int /\ key[c] \in Nat /\ key[d] \in Nat
  BY DEF Half
<1>5. k \in Int
  BY KeyAssumption
<1>6. both \in SUBSET Cells /\ (Matches(Entry(both, 0), key) <=> Shows(key, f, {c, d}, k))
  BY <1>5, PatternMatches
<1> HIDE DEF both, decide
<1>7. Picks(table, both, c, d, k, c, d, key, 0)
  BY <1>3, <1>4, <1>6, FirstOrSecond
<1> QED BY <1>1, <1>6, <1>7 DEF DecidesIf, Picks

-----------------------------------------------------------------------------
\* Of two tables that answer with this class if at all.
MayDecide(table, key, class) == Silent(table, key) \/ Decides(table, key, class)

Joins(S, s, t, key, class) ==
  /\ s \o t \in Seq(S) /\ MayDecide(s \o t, key, class)
  /\ Decides(s, key, class) \/ Decides(t, key, class) => Decides(s \o t, key, class)

LEMMA TwoTables ==
  ASSUME NEW S, NEW s \in Seq(S), NEW t \in Seq(S), NEW key, NEW class,
         MayDecide(s, key, class), MayDecide(t, key, class)
  PROVE  Joins(S, s, t, key, class)
  BY OneAfterTheOther DEF MayDecide, Joins

\* The first of the largest, by the bits below k.
FirstLargest(key, f, k) ==
  IF ~Above(key[f + 1], key[f], k) /\ ~Above(key[f + 2], key[f], k) THEN f
  ELSE IF ~Above(key[f + 2], key[f + 1], k) THEN f + 1 ELSE f + 2

LEMMA HalfIs == \A f \in Int : Half(f) = {f, f + 1, f + 2}
  BY DEF Half

\* What a bit says of the largest.
ByPattern(key, f, k) ==
  /\ \A c \in Half(f) : Shows(key, f, {c}, k) => FirstLargest(key, f, k + 1) = c
  /\ \A c, d \in Half(f) :
       c < d /\ Shows(key, f, {c, d}, k)
         => FirstLargest(key, f, k + 1) = IF Above(key[d], key[c], k) THEN d ELSE c
  /\ \/ \E c \in Half(f) : Shows(key, f, {c}, k)
     \/ \E c, d \in Half(f) : c < d /\ Shows(key, f, {c, d}, k)
     \/ FirstLargest(key, f, k + 1) = FirstLargest(key, f, k)

LEMMA PatternSays ==
  ASSUME NEW f \in Int, NEW k \in 0 .. KeyBits - 1, NEW key, \A e \in Half(f) : key[e] \in Nat
  PROVE  ByPattern(key, f, k)
<1> DEFINE x == key[f]
           y == key[f + 1]
           z == key[f + 2]
           n == k + 1
<1>1. x \in Nat /\ y \in Nat /\ z \in Nat
  BY HalfIs
<1> DEFINE bx == Bit(x, k)
           by == Bit(y, k)
           bz == Bit(z, k)
           Up(u, v) == Above(u, v, n)
           Was(u, v) == Above(u, v, k)
<1>2. bx \in {0, 1} /\ by \in {0, 1} /\ bz \in {0, 1}
  BY <1>1, LowNext
<1>3. /\ bx = by => (Up(y, x) <=> Was(y, x))
      /\ bx = bz => (Up(z, x) <=> Was(z, x))
      /\ by = bz => (Up(z, y) <=> Was(z, y))
      /\ (by = 1 /\ bx = 0 => Up(y, x)) /\ (bx = 1 /\ by = 0 => ~Up(y, x))
      /\ (bz = 1 /\ bx = 0 => Up(z, x)) /\ (bx = 1 /\ bz = 0 => ~Up(z, x))
      /\ (bz = 1 /\ by = 0 => Up(z, y)) /\ (by = 1 /\ bz = 0 => ~Up(z, y))
  BY <1>1, AboveNext
<1>4. Was(z, x) /\ ~Was(y, x) => Was(z, y)
  <2>1. Low(x, k) \in Int /\ Low(y, k) \in Int /\ Low(z, k) \in Int
    BY <1>1, LowNext, Weights
  <2> QED BY <2>1 DEF Above
<1>5. \A ones : Shows(key, f, ones, k)
                  <=> /\ bx = IF f \in ones THEN 1 ELSE 0
                      /\ by = IF f + 1 \in ones THEN 1 ELSE 0
                      /\ bz = IF f + 2 \in ones THEN 1 ELSE 0
  BY HalfIs DEF Shows
<1>6. FirstLargest(key, f, n) = IF ~Up(y, x) /\ ~Up(z, x) THEN f
                           ELSE IF ~Up(z, y) THEN f + 1 ELSE f + 2
  BY DEF FirstLargest
<1>7. FirstLargest(key, f, k) = IF ~Was(y, x) /\ ~Was(z, x) THEN f
                           ELSE IF ~Was(z, y) THEN f + 1 ELSE f + 2
  BY DEF FirstLargest
<1>8. f # f + 1 /\ f # f + 2 /\ f + 1 # f + 2 /\ f < f + 1 /\ f < f + 2 /\ f + 1 < f + 2
      /\ ~(f + 1 < f) /\ ~(f + 2 < f) /\ ~(f + 2 < f + 1) /\ ~(f < f) /\ ~(f + 1 < f + 1)
      /\ ~(f + 2 < f + 2)
  OBVIOUS
<1>9. /\ Shows(key, f, {f}, k) <=> bx = 1 /\ by = 0 /\ bz = 0
      /\ Shows(key, f, {f + 1}, k) <=> bx = 0 /\ by = 1 /\ bz = 0
      /\ Shows(key, f, {f + 2}, k) <=> bx = 0 /\ by = 0 /\ bz = 1
      /\ Shows(key, f, {f, f + 1}, k) <=> bx = 1 /\ by = 1 /\ bz = 0
      /\ Shows(key, f, {f, f + 2}, k) <=> bx = 1 /\ by = 0 /\ bz = 1
      /\ Shows(key, f, {f + 1, f + 2}, k) <=> bx = 0 /\ by = 1 /\ bz = 1
  <2> HIDE DEF bx, by, bz
  <2> QED BY <1>5, <1>8
<1> DEFINE old == FirstLargest(key, f, k)
           new == FirstLargest(key, f, n)
<1> HIDE DEF bx, by, bz, Up, Was, x, y, z, n, old, new
<1>10. /\ bx = 1 /\ by = 0 /\ bz = 0 => new = f
       /\ bx = 0 /\ by = 1 /\ bz = 0 => new = f + 1
       /\ bx = 0 /\ by = 0 /\ bz = 1 => new = f + 2
  BY <1>3, <1>6 DEF new
<1>11. /\ bx = 1 /\ by = 1 /\ bz = 0 => new = IF Was(y, x) THEN f + 1 ELSE f
       /\ bx = 1 /\ by = 0 /\ bz = 1 => new = IF Was(z, x) THEN f + 2 ELSE f
       /\ bx = 0 /\ by = 1 /\ bz = 1 => new = IF Was(z, y) THEN f + 2 ELSE f + 1
  BY <1>3, <1>6 DEF new
<1>12. bx = by /\ by = bz => new = old
  BY <1>3, <1>6, <1>7 DEF new, old
<1>13. /\ Shows(key, f, {f}, k) => new = f
       /\ Shows(key, f, {f + 1}, k) => new = f + 1
       /\ Shows(key, f, {f + 2}, k) => new = f + 2
       /\ Shows(key, f, {f, f + 1}, k) => new = IF Was(y, x) THEN f + 1 ELSE f
       /\ Shows(key, f, {f, f + 2}, k) => new = IF Was(z, x) THEN f + 2 ELSE f
       /\ Shows(key, f, {f + 1, f + 2}, k) => new = IF Was(z, y) THEN f + 2 ELSE f + 1
  BY <1>9, <1>10, <1>11
<1>14. \/ Shows(key, f, {f}, k) \/ Shows(key, f, {f + 1}, k) \/ Shows(key, f, {f + 2}, k)
       \/ Shows(key, f, {f, f + 1}, k) \/ Shows(key, f, {f, f + 2}, k)
       \/ Shows(key, f, {f + 1, f + 2}, k) \/ new = old
  BY <1>2, <1>9, <1>12
<1>15. \A c \in Half(f) : Shows(key, f, {c}, k) => new = c
  <2> SUFFICES ASSUME NEW c \in Half(f), Shows(key, f, {c}, k) PROVE new = c
    OBVIOUS
  <2>1. c = f \/ c = f + 1 \/ c = f + 2
    BY HalfIs
  <2>2. CASE c = f BY <1>13, <2>2
  <2>3. CASE c = f + 1 BY <1>13, <2>3
  <2>4. CASE c = f + 2 BY <1>13, <2>4
  <2> QED BY <2>1, <2>2, <2>3, <2>4
<1>16. \A c, d \in Half(f) : c < d /\ Shows(key, f, {c, d}, k)
                              => new = IF Above(key[d], key[c], k) THEN d ELSE c
  <2> SUFFICES ASSUME NEW c \in Half(f), NEW d \in Half(f), c < d, Shows(key, f, {c, d}, k)
               PROVE  new = IF Above(key[d], key[c], k) THEN d ELSE c
    OBVIOUS
  <2>1. \/ c = f /\ d = f + 1
        \/ c = f /\ d = f + 2
        \/ c = f + 1 /\ d = f + 2
    BY <1>8, HalfIs
  <2>2. CASE c = f /\ d = f + 1
    BY <1>13, <2>2 DEF Was, x, y
  <2>3. CASE c = f /\ d = f + 2
    BY <1>13, <2>3 DEF Was, x, z
  <2>4. CASE c = f + 1 /\ d = f + 2
    BY <1>13, <2>4 DEF Was, y, z
  <2> QED BY <2>1, <2>2, <2>3, <2>4
<1>17. \/ \E c \in Half(f) : Shows(key, f, {c}, k)
       \/ \E c, d \in Half(f) : c < d /\ Shows(key, f, {c, d}, k)
       \/ new = old
  <2>1. f \in Half(f) /\ f + 1 \in Half(f) /\ f + 2 \in Half(f)
    BY HalfIs
  <2> QED BY <1>8, <1>14, <2>1
<1> QED BY <1>15, <1>16, <1>17 DEF ByPattern, new, old, n

\* The six tables for bit k, one after the other.
Row(f, k) ==
  ((((<<Alone(f, f, k)>> \o <<Alone(f, f + 1, k)>>) \o Pair(f, f, f + 1, k))
   \o <<Alone(f, f + 2, k)>>) \o Pair(f, f, f + 2, k)) \o Pair(f, f + 1, f + 2, k)

LEMMA LevelIsRow ==
  ASSUME NEW f \in Int, NEW k \in Int, k # 0 PROVE Level(f, k) = Row(f, k)
<1> DEFINE one == Alone(f, f, k)
           two == Alone(f, f + 1, k)
<1>1. <<one, two>> = <<one>> \o <<two>>
  OBVIOUS
<1> HIDE DEF one, two
<1>2. Level(f, k) = <<one, two>> \o Pair(f, f, f + 1, k)
       \o <<Alone(f, f + 2, k)>> \o Pair(f, f, f + 2, k) \o Pair(f, f + 1, f + 2, k)
  BY DEF Level, one, two
<1> QED BY <1>1, <1>2 DEF Row, one, two

\* Above the lowest bit, the bit decides or leaves it to the next.
LevelAnswers(f, k, key) ==
  /\ Level(f, k) \in Seq(Entries)
  /\ \/ Decides(Level(f, k), key, FirstLargest(key, f, k + 1))
     \/ Silent(Level(f, k), key) /\ FirstLargest(key, f, k + 1) = FirstLargest(key, f, k)

LEMMA LevelDecides ==
  ASSUME NEW f \in Int, NEW k \in 1 .. KeyBits - 1, NEW key, \A e \in Half(f) : key[e] \in Nat
  PROVE  LevelAnswers(f, k, key)
<1> DEFINE w == FirstLargest(key, f, k + 1)
           t1 == <<Alone(f, f, k)>>
           t2 == <<Alone(f, f + 1, k)>>
           t3 == Pair(f, f, f + 1, k)
           t4 == <<Alone(f, f + 2, k)>>
           t5 == Pair(f, f, f + 2, k)
           t6 == Pair(f, f + 1, f + 2, k)
           Three == {f, f + 1, f + 2}
           Dec(t) == Decides(t, key, w)
           Fits(t) == t \in Seq(Entries) /\ MayDecide(t, key, w)
<1>1. /\ Half(f) = Three /\ f \in Three /\ f + 1 \in Three /\ f + 2 \in Three
      /\ f < f + 1 /\ f < f + 2 /\ f + 1 < f + 2 /\ k \in Int /\ k # 0
      /\ k \in 0 .. KeyBits /\ k \in 0 .. KeyBits - 1
  BY HalfIs, KeyAssumption
<1>2. ByPattern(key, f, k)
  BY <1>1, PatternSays
<1> HIDE DEF w
<1>3. ASSUME NEW c \in Half(f)
      PROVE  /\ Fits(<<Alone(f, c, k)>>)
             /\ Shows(key, f, {c}, k) => Dec(<<Alone(f, c, k)>>)
             /\ ~Shows(key, f, {c}, k) => Silent(<<Alone(f, c, k)>>, key)
  <2>1. DecidesIf(<<Alone(f, c, k)>>, key, f, {c}, k, c)
    BY <1>1, AloneDecides
  <2>2. Shows(key, f, {c}, k) => c = w
    BY <1>2 DEF ByPattern, w
  <2> QED BY <2>1, <2>2 DEF DecidesIf, MayDecide
<1>4. ASSUME NEW c \in Half(f), NEW d \in Half(f), c < d
      PROVE  /\ Fits(Pair(f, c, d, k))
             /\ Shows(key, f, {c, d}, k) => Dec(Pair(f, c, d, k))
             /\ ~Shows(key, f, {c, d}, k) => Silent(Pair(f, c, d, k), key)
  <2> DEFINE v == IF Above(key[d], key[c], k) THEN d ELSE c
  <2>1. DecidesIf(Pair(f, c, d, k), key, f, {c, d}, k, v)
    BY <1>1, PairDecides
  <2>2. Shows(key, f, {c, d}, k) => v = w
    BY <1>2, <1>4 DEF ByPattern, w
  <2> HIDE DEF v
  <2> QED BY <2>1, <2>2 DEF DecidesIf, MayDecide
<1> HIDE DEF Three
<1>5. Fits(t1) /\ Fits(t2) /\ Fits(t4)
  BY <1>1, <1>3
<1>6. Fits(t3) /\ Fits(t5) /\ Fits(t6)
  BY <1>1, <1>4
<1> DEFINE s2 == t1 \o t2
           s3 == s2 \o t3
           s4 == s3 \o t4
           s5 == s4 \o t5
           s6 == s5 \o t6
<1>7. Level(f, k) = s6
  BY <1>1, LevelIsRow DEF Row
<1>8. /\ \A c \in Half(f) : Shows(key, f, {c}, k) => Dec(t1) \/ Dec(t2) \/ Dec(t4)
      /\ \A c, d \in Half(f) : c < d /\ Shows(key, f, {c, d}, k) => Dec(t3) \/ Dec(t5) \/ Dec(t6)
  <2>1. ASSUME NEW c \in Half(f), Shows(key, f, {c}, k) PROVE Dec(t1) \/ Dec(t2) \/ Dec(t4)
    <3>1. c = f \/ c = f + 1 \/ c = f + 2
      BY HalfIs
    <3>2. Dec(<<Alone(f, c, k)>>)
      BY <1>3, <2>1
    <3>3. CASE c = f BY <3>2, <3>3
    <3>4. CASE c = f + 1 BY <3>2, <3>4
    <3>5. CASE c = f + 2 BY <3>2, <3>5
    <3> QED BY <3>1, <3>3, <3>4, <3>5
  <2>2. ASSUME NEW c \in Half(f), NEW d \in Half(f), c < d, Shows(key, f, {c, d}, k)
        PROVE  Dec(t3) \/ Dec(t5) \/ Dec(t6)
    <3>1. \/ c = f /\ d = f + 1
          \/ c = f /\ d = f + 2
          \/ c = f + 1 /\ d = f + 2
      BY <2>2, HalfIs
    <3>2. Dec(Pair(f, c, d, k))
      BY <1>4, <2>2
    <3>3. CASE c = f /\ d = f + 1 BY <3>2, <3>3
    <3>4. CASE c = f /\ d = f + 2 BY <3>2, <3>4
    <3>5. CASE c = f + 1 /\ d = f + 2 BY <3>2, <3>5
    <3> QED BY <3>1, <3>3, <3>4, <3>5
  <2> QED BY <2>1, <2>2
<1> HIDE DEF t1, t2, t3, t4, t5, t6
<1>9. Fits(s2) /\ (Dec(t1) \/ Dec(t2) => Dec(s2))
  BY <1>5, TwoTables DEF Joins
<1> HIDE DEF s2
<1>10. Fits(s3) /\ (Dec(s2) \/ Dec(t3) => Dec(s3))
  BY <1>6, <1>9, TwoTables DEF Joins
<1> HIDE DEF s3
<1>11. Fits(s4) /\ (Dec(s3) \/ Dec(t4) => Dec(s4))
  BY <1>5, <1>10, TwoTables DEF Joins
<1> HIDE DEF s4
<1>12. Fits(s5) /\ (Dec(s4) \/ Dec(t5) => Dec(s5))
  BY <1>6, <1>11, TwoTables DEF Joins
<1> HIDE DEF s5
<1>13. Fits(s6) /\ (Dec(s5) \/ Dec(t6) => Dec(s6))
  BY <1>6, <1>12, TwoTables DEF Joins
<1> HIDE DEF s6
<1>14. Dec(s6) \/ FirstLargest(key, f, k + 1) = FirstLargest(key, f, k)
  BY <1>2, <1>8, <1>9, <1>10, <1>11, <1>12, <1>13 DEF ByPattern
<1>15. Dec(s6) \/ (Silent(s6, key) /\ FirstLargest(key, f, k + 1) = FirstLargest(key, f, k))
  BY <1>13, <1>14 DEF MayDecide
<1> QED BY <1>7, <1>13, <1>15 DEF LevelAnswers, w

\* The lowest bit decides in any case.
LEMMA LowestDecides ==
  ASSUME NEW f \in Int, NEW key, \A e \in Half(f) : key[e] \in Nat
  PROVE  Level(f, 0) \in Seq(Entries) /\ Decides(Level(f, 0), key, FirstLargest(key, f, 1))
<1> DEFINE x == key[f]
           y == key[f + 1]
           z == key[f + 2]
           a == Entry({<<f, 0, 0>>, <<f + 1, 0, 0>>, <<f + 2, 0, 1>>}, f + 2)
           b == Entry({<<f, 0, 0>>, <<f + 1, 0, 1>>}, f + 1)
           c == Entry({}, f)
           w == FirstLargest(key, f, 1)
<1>1. Level(f, 0) = <<a, b, c>>
  BY DEF Level
<1>2. x \in Nat /\ y \in Nat /\ z \in Nat
  BY HalfIs
<1>3. /\ a.cells = {<<f, 0, 0>>, <<f + 1, 0, 0>>, <<f + 2, 0, 1>>} /\ a.class = f + 2
      /\ b.cells = {<<f, 0, 0>>, <<f + 1, 0, 1>>} /\ b.class = f + 1
      /\ c.cells = {} /\ c.class = f
  BY DEF Entry
<1>4. a \in Entries /\ b \in Entries /\ c \in Entries
  <2>1. {<<f, 0, 0>>, <<f + 1, 0, 0>>, <<f + 2, 0, 1>>} \in SUBSET Cells
    BY DEF Cells
  <2>2. {<<f, 0, 0>>, <<f + 1, 0, 1>>} \in SUBSET Cells /\ {} \in SUBSET Cells
    BY DEF Cells
  <2>3. f + 2 \in Int /\ f + 1 \in Int
    OBVIOUS
  <2> QED BY <2>1, <2>2, <2>3, EntryType
<1>5. Matches(a, key) <=> Bit(x, 0) = 0 /\ Bit(y, 0) = 0 /\ Bit(z, 0) = 1
  <2> DEFINE d == <<f, 0, 0>>
             e == <<f + 1, 0, 0>>
             g == <<f + 2, 0, 1>>
  <2>1. d[1] = f /\ d[2] = 0 /\ d[3] = 0 /\ e[1] = f + 1 /\ e[2] = 0 /\ e[3] = 0
        /\ g[1] = f + 2 /\ g[2] = 0 /\ g[3] = 1
    OBVIOUS
  <2>2. a.cells = {d, e, g}
    BY <1>3
  <2> HIDE DEF d, e, g, a
  <2>3. Matches(a, key) <=> /\ Bit(key[d[1]], d[2]) = d[3]
                            /\ Bit(key[e[1]], e[2]) = e[3]
                            /\ Bit(key[g[1]], g[2]) = g[3]
    BY <2>2 DEF Matches
  <2> QED BY <2>1, <2>3
<1>6. Matches(b, key) <=> Bit(x, 0) = 0 /\ Bit(y, 0) = 1
  <2>1. b = Entry(BothCells(f, 0, f + 1, 1, 0), f + 1)
    BY DEF BothCells
  <2> QED BY <2>1, TwoCells
<1>7. Matches(c, key)
  BY <1>3 DEF Matches
<1> HIDE DEF a, b, c
<1>8. 0 \in 0 .. KeyBits - 1 /\ 0 + 1 = 1
  BY KeyAssumption
<1>9. /\ Bit(x, 0) \in {0, 1} /\ Bit(y, 0) \in {0, 1} /\ Bit(z, 0) \in {0, 1}
      /\ \A u, v \in {x, y, z} :
           /\ Bit(u, 0) = Bit(v, 0) => ~Above(u, v, 1)
           /\ Bit(u, 0) = 1 /\ Bit(v, 0) = 0 => Above(u, v, 1) /\ ~Above(v, u, 1)
  BY <1>2, <1>8, AboveNext, AboveFirst
<1>10. w = IF ~Above(y, x, 1) /\ ~Above(z, x, 1) THEN f
           ELSE IF ~Above(z, y, 1) THEN f + 1 ELSE f + 2
  BY DEF FirstLargest
<1> HIDE DEF x, y, z, w
<1>11. /\ Matches(a, key) => w = f + 2
       /\ ~Matches(a, key) /\ Matches(b, key) => w = f + 1
       /\ ~Matches(a, key) /\ ~Matches(b, key) => w = f
  BY <1>5, <1>6, <1>9, <1>10
<1>12. /\ <<a, b>> \in Seq(Entries)
       /\ Matches(a, key) => Decides(<<a, b>>, key, a.class)
       /\ ~Matches(a, key) /\ Matches(b, key) => Decides(<<a, b>>, key, b.class)
       /\ ~Matches(a, key) /\ ~Matches(b, key) => Silent(<<a, b>>, key)
  BY <1>4, TwoEntries
<1>13. <<c>> \in Seq(Entries) /\ Decides(<<c>>, key, c.class)
  BY <1>4, <1>7, OneEntry
<1>14. <<a, b, c>> = <<a, b>> \o <<c>>
  OBVIOUS
<1>15. /\ <<a, b>> \o <<c>> \in Seq(Entries)
       /\ \A class : Decides(<<a, b>>, key, class) => Decides(<<a, b>> \o <<c>>, key, class)
       /\ \A class : Silent(<<a, b>>, key) /\ Decides(<<c>>, key, class)
                        => Decides(<<a, b>> \o <<c>>, key, class)
  BY <1>12, <1>13, OneAfterTheOther
<1>16. Decides(<<a, b>> \o <<c>>, key, w)
  BY <1>3, <1>11, <1>12, <1>13, <1>15
<1> QED BY <1>1, <1>14, <1>15, <1>16 DEF w

\* The table of a half finds the first of the largest.
LEMMA HalfDecides ==
  ASSUME NEW f \in Int, NEW key, \A e \in Half(f) : key[e] \in Nat,
         NEW list, \A k \in 0 .. KeyBits - 1 : list[k] = Level(f, k)
  PROVE  Lookup(Downwards(KeyBits, list), key) = FirstLargest(key, f, KeyBits)
<1> DEFINE T(k) == Downwards(k, list)
           Right(k) == T(k) \in Seq(Entries) /\ Decides(T(k), key, FirstLargest(key, f, k))
           M == {m \in Nat : m + 1 <= KeyBits => Right(m + 1)}
<1>1. \A k \in 0 .. KeyBits - 1 : list[k] \in Seq(Entries)
  <2> SUFFICES ASSUME NEW k \in 0 .. KeyBits - 1 PROVE list[k] \in Seq(Entries)
    OBVIOUS
  <2>1. CASE k = 0
    BY <2>1, LowestDecides
  <2>2. CASE k # 0
    <3>1. k \in 1 .. KeyBits - 1
      BY <2>2
    <3> QED BY <3>1, LevelDecides DEF LevelAnswers
  <2> QED BY <2>1, <2>2
<1>2. \A k \in 0 .. KeyBits - 1 : /\ T(k) \in Seq(Entries) /\ T(k + 1) \in Seq(Entries)
                                 /\ T(k + 1) = list[k] \o T(k)
  <2> SUFFICES ASSUME NEW k \in 0 .. KeyBits - 1
               PROVE /\ T(k) \in Seq(Entries) /\ T(k + 1) \in Seq(Entries)
                     /\ T(k + 1) = list[k] \o T(k)
    OBVIOUS
  <2>1. k \in Nat /\ \A b \in 0 .. k : list[b] \in Seq(Entries)
    BY <1>1, KeyAssumption
  <2> QED BY <2>1, DownStep
<1> HIDE DEF T
<1>3. 0 \in M
  <2>1. 0 \in 0 .. KeyBits - 1 /\ 0 + 1 = 1
    BY KeyAssumption
  <2>2. list[0] \in Seq(Entries) /\ Decides(list[0], key, FirstLargest(key, f, 1))
    BY <2>1, LowestDecides
  <2>3. T(0 + 1) = list[0] \o T(0) /\ T(0) \in Seq(Entries) /\ T(0 + 1) \in Seq(Entries)
    BY <1>2, <2>1
  <2> DEFINE w == FirstLargest(key, f, 1)
             top == list[0]
             low == T(0)
  <2>5. top \in Seq(Entries) /\ low \in Seq(Entries) /\ Decides(top, key, w)
    BY <2>2, <2>3
  <2> HIDE DEF w, top, low
  <2>6. Decides(top \o low, key, w)
    BY <2>5, OneAfterTheOther
  <2>4. Decides(T(0 + 1), key, FirstLargest(key, f, 0 + 1))
    BY <2>1, <2>3, <2>6 DEF w, top, low
  <2> QED BY <2>3, <2>4
<1>4. ASSUME NEW m \in Nat, m \in M PROVE m + 1 \in M
  <2> SUFFICES ASSUME (m + 1) + 1 <= KeyBits PROVE Right((m + 1) + 1)
    OBVIOUS
  <2> DEFINE k == m + 1
  <2>1. k \in 1 .. KeyBits - 1 /\ k \in 0 .. KeyBits - 1 /\ k <= KeyBits
    BY KeyAssumption
  <2>2. Right(k)
    BY <1>4, <2>1
  <2> HIDE DEF k, M
  <2>3. list[k] = Level(f, k) /\ LevelAnswers(f, k, key)
    BY <2>1, LevelDecides
  <2>4. T(k + 1) = list[k] \o T(k) /\ T(k) \in Seq(Entries) /\ T(k + 1) \in Seq(Entries)
        /\ list[k] \in Seq(Entries)
    BY <1>1, <1>2, <2>1
  <2> DEFINE new == FirstLargest(key, f, k + 1)
             old == FirstLargest(key, f, k)
             top == list[k]
             low == T(k)
  <2>5. /\ Decides(top, key, new) => Decides(top \o low, key, new)
        /\ Silent(top, key) /\ Decides(low, key, old) => Decides(top \o low, key, old)
    BY <2>4, OneAfterTheOther
  <2>6. Decides(top, key, new) \/ (Silent(top, key) /\ new = old)
    BY <2>3 DEF LevelAnswers
  <2>7. Decides(top \o low, key, new)
    BY <2>2, <2>5, <2>6
  <2> QED BY <2>4, <2>7 DEF k
<1> HIDE DEF M
<1>5. KeyBits - 1 \in M /\ (KeyBits - 1) + 1 = KeyBits
  BY <1>3, <1>4, KeyAssumption, NatSet
<1>6. Right(KeyBits)
  BY <1>5, KeyAssumption DEF M
<1> QED BY <1>6, LookupDecides DEF T

\* The last table: the second half's winner must be larger.
LEMMA HalvesDecide ==
  ASSUME NEW u \in Nat, NEW v \in Nat
  PROVE  Lookup(tab_cmp012345, <<u, v>>) = IF Above(v, u, KeyBits) THEN 2 ELSE 1
<1> DEFINE Wins(b, first, class) == Entry({<<1, b, first>>, <<2, b, 1 - first>>}, class)
           decide == [b \in 0 .. KeyBits - 1 |-> IF b = 0 THEN <<Wins(0, 0, 2)>>
                                                 ELSE <<Wins(b, 1, 1), Wins(b, 0, 2)>>]
           key == <<u, v>>
           none == {}
           table == Downwards(KeyBits, decide) \o <<Entry(none, 1)>>
<1>1. tab_cmp012345 = table
  BY DEF tab_cmp012345
<1>2. \A b : Wins(b, 1, 1) = Higher(none, 1, 2, b, 1) /\ Wins(b, 0, 2) = Higher(none, 2, 1, b, 2)
  <2> SUFFICES ASSUME NEW b
               PROVE Wins(b, 1, 1) = Higher(none, 1, 2, b, 1) /\ Wins(b, 0, 2) = Higher(none, 2, 1, b, 2)
    OBVIOUS
  <2>1. 1 - 1 = 0 /\ 1 - 0 = 1
    OBVIOUS
  <2> DEFINE a == <<1, b, 1>>
             c == <<2, b, 0>>
             d == <<1, b, 0>>
             e == <<2, b, 1>>
  <2>2. Wins(b, 1, 1) = Entry({a, c}, 1) /\ Wins(b, 0, 2) = Entry({d, e}, 2)
    BY <2>1
  <2>3. /\ Higher(none, 1, 2, b, 1) = Entry({} \union {a, c}, 1)
        /\ Higher(none, 2, 1, b, 2) = Entry({} \union {e, d}, 2)
    BY DEF Higher, BothCells
  <2> HIDE DEF a, c, d, e
  <2>4. {} \union {a, c} = {a, c} /\ {} \union {e, d} = {d, e}
    OBVIOUS
  <2> QED BY <2>2, <2>3, <2>4
<1> HIDE DEF Wins
<1>3. \A b \in 0 .. KeyBits - 1 : decide[b] = ByBit(none, 1, 2, 1, 2, b)
  BY <1>2 DEF ByBit
<1>4. key[1] = u /\ key[2] = v
  OBVIOUS
<1>5. none \in SUBSET Cells /\ Matches(Entry(none, 0), key)
  BY DEF Entry, Matches
<1>6. KeyBits \in 0 .. KeyBits
  BY KeyAssumption
<1> HIDE DEF key, none, decide
<1> DEFINE p == 1
           q == 2
<1>9. p \in Int /\ q \in Int /\ key[p] \in Nat /\ key[q] \in Nat
  BY <1>4
<1>10. \A b \in 0 .. KeyBits - 1 : decide[b] = ByBit(none, p, q, p, q, b)
  BY <1>3
<1>11. table = Downwards(KeyBits, decide) \o <<Entry(none, p)>>
  OBVIOUS
<1> HIDE DEF p, q, table
<1>12. Picks(Downwards(KeyBits, decide) \o <<Entry(none, p)>>, none, p, q, KeyBits, p, q, key, 0)
  BY <1>5, <1>6, <1>9, <1>10, FirstOrSecond
<1> DEFINE winner == IF Above(v, u, KeyBits) THEN 2 ELSE 1
<1>7. table \in Seq(Entries) /\ Decides(table, key, winner)
  BY <1>4, <1>5, <1>11, <1>12 DEF Picks, p, q
<1> HIDE DEF winner
<1>8. Lookup(table, key) = winner
  BY <1>7, LookupDecides
<1> QED BY <1>1, <1>8 DEF key, table, winner

\* np.argmax of the sums.
IsArgMax(sums, c) ==
  /\ c \in Classes
  /\ \A d \in Classes : sums[d] <= sums[c]
  /\ \A d \in Classes : sums[d] = sums[c] => c <= d

LEMMA ChoiceIsArgMax ==
  ASSUME NEW sums \in [Classes -> 0 .. Weight[KeyBits] - 1]
  PROVE  IsArgMax(sums, final_class(Choice(sums)))
<1> DEFINE Fit == 0 .. Weight[KeyBits] - 1
           c1 == FirstLargest(sums, 0, KeyBits)
           c2 == FirstLargest(sums, 3, KeyBits)
<1>1. Weight[KeyBits] \in Nat \ {0}
  BY Weights, KeyAssumption
<1>2. Fit \subseteq Nat /\ \A c \in Classes : sums[c] \in Fit /\ sums[c] \in Nat
  BY <1>1
<1>3. Half(0) = {0, 1, 2} /\ Half(3) = {3, 4, 5} /\ Classes = {0, 1, 2, 3, 4, 5}
  BY DEF Half, Classes
<1>4. c1 = IF ~(sums[1] > sums[0]) /\ ~(sums[2] > sums[0]) THEN 0
           ELSE IF ~(sums[2] > sums[1]) THEN 1 ELSE 2
  <2>1. c1 = IF ~Above(sums[1], sums[0], KeyBits) /\ ~Above(sums[2], sums[0], KeyBits) THEN 0
             ELSE IF ~Above(sums[2], sums[1], KeyBits) THEN 1 ELSE 2
    BY DEF FirstLargest
  <2> QED BY <1>2, <1>3, <2>1, AboveLast
<1>5. c2 = IF ~(sums[4] > sums[3]) /\ ~(sums[5] > sums[3]) THEN 3
           ELSE IF ~(sums[5] > sums[4]) THEN 4 ELSE 5
  <2>1. c2 = IF ~Above(sums[4], sums[3], KeyBits) /\ ~Above(sums[5], sums[3], KeyBits) THEN 3
             ELSE IF ~Above(sums[5], sums[4], KeyBits) THEN 4 ELSE 5
    BY DEF FirstLargest
  <2> QED BY <1>2, <1>3, <2>1, AboveLast
<1>6. Lookup(tab_cmp012, sums) = c1
  <2> DEFINE list == [k \in 0 .. KeyBits - 1 |-> Level(0, k)]
  <2>1. \A e \in Half(0) : sums[e] \in Nat
    BY <1>2, <1>3
  <2>2. \A k \in 0 .. KeyBits - 1 : list[k] = Level(0, k)
    OBVIOUS
  <2>3. tab_cmp012 = Downwards(KeyBits, list)
    BY DEF tab_cmp012
  <2> HIDE DEF list
  <2> QED BY <2>1, <2>2, <2>3, HalfDecides
<1>7. Lookup(tab_cmp345, sums) = c2
  <2> DEFINE list == [k \in 0 .. KeyBits - 1 |-> Level(3, k)]
  <2>1. \A e \in Half(3) : sums[e] \in Nat
    BY <1>2, <1>3
  <2>2. \A k \in 0 .. KeyBits - 1 : list[k] = Level(3, k)
    OBVIOUS
  <2>3. tab_cmp345 = Downwards(KeyBits, list)
    BY DEF tab_cmp345
  <2> HIDE DEF list
  <2> QED BY <2>1, <2>2, <2>3, HalfDecides
<1> HIDE DEF c1, c2
<1>8. c1 \in Classes /\ c2 \in Classes
  BY <1>3, <1>4, <1>5
<1> DEFINE u == sums[c1]
           v == sums[c2]
<1>9. u \in Fit /\ v \in Fit /\ u \in Nat /\ v \in Nat
  BY <1>2, <1>8
<1> HIDE DEF u, v
<1>10. Lookup(tab_cmp012345, <<u, v>>) = IF v > u THEN 2 ELSE 1
  BY <1>9, HalvesDecide, AboveLast
<1>11. final_class(Choice(sums)) = IF v > u THEN c2 ELSE c1
  <2>1. Choice(sums) = [tmp_class1 |-> c1, tmp_class2 |-> c2,
                        in012 |-> Lookup(tab_cmp012345, <<u, v>>) = 1]
    BY <1>6, <1>7 DEF Choice, u, v
  <2> DEFINE first == Lookup(tab_cmp012345, <<u, v>>) = 1
  <2>2. Choice(sums) = [tmp_class1 |-> c1, tmp_class2 |-> c2, in012 |-> first]
    BY <2>1
  <2>3. first <=> ~(v > u)
    BY <1>10
  <2> HIDE DEF first
  <2>4. final_class(Choice(sums)) = IF first THEN c1 ELSE c2
    BY <2>2 DEF final_class
  <2> QED BY <2>3, <2>4
<1> DEFINE s0 == sums[0]
           s1 == sums[1]
           s2 == sums[2]
           s3 == sums[3]
           s4 == sums[4]
           s5 == sums[5]
<1>12. /\ s0 \in Nat /\ s1 \in Nat /\ s2 \in Nat /\ s3 \in Nat /\ s4 \in Nat /\ s5 \in Nat
  BY <1>2, <1>3
<1>13. /\ (c1 = 0 /\ u = s0 /\ s1 <= u /\ s2 <= u)
          \/ (c1 = 1 /\ u = s1 /\ s0 < u /\ s2 <= u)
          \/ (c1 = 2 /\ u = s2 /\ s0 < u /\ s1 < u)
       /\ (c2 = 3 /\ v = s3 /\ s4 <= v /\ s5 <= v)
          \/ (c2 = 4 /\ v = s4 /\ s3 < v /\ s5 <= v)
          \/ (c2 = 5 /\ v = s5 /\ s3 < v /\ s4 < v)
  BY <1>4, <1>5, <1>12 DEF u, v
<1> DEFINE c == final_class(Choice(sums))
<1>14. c = IF v > u THEN c2 ELSE c1
  BY <1>11
<1> HIDE DEF c
<1>15. sums[c] = IF v > u THEN v ELSE u
  BY <1>14 DEF u, v
<1>16. c \in Classes
  BY <1>8, <1>14
<1> DEFINE m == sums[c]
<1>17. m = IF v > u THEN v ELSE u
  BY <1>15
<1>18. c \in 0 .. 5
  BY <1>16 DEF Classes
<1> HIDE DEF m, s0, s1, s2, s3, s4, s5
<1>19. /\ s0 <= m /\ s1 <= m /\ s2 <= m /\ s3 <= m /\ s4 <= m /\ s5 <= m
       /\ (s0 = m => c <= 0) /\ (s1 = m => c <= 1) /\ (s2 = m => c <= 2)
       /\ (s3 = m => c <= 3) /\ (s4 = m => c <= 4) /\ (s5 = m => c <= 5)
  BY <1>9, <1>12, <1>13, <1>14, <1>17, <1>18
<1>20. \A d \in Classes : sums[d] <= m /\ (sums[d] = m => c <= d)
  BY <1>3, <1>19 DEF s0, s1, s2, s3, s4, s5
<1> QED BY <1>16, <1>20 DEF IsArgMax, c, m

\* The class and the confidence are those of the sums in the registers, until the
\* next result replaces them.
ResultInv ==
  segs > 0 =>
    result = [class |-> final_class(Choice(cpr)),
              low |-> LowConfidence(cpr, Choice(cpr), (segs - 1) % Period)]

LEMMA StepResultInv == AggInv /\ ResultInv /\ [EgressNext]_egressVars => ResultInv'
<1> SUFFICES ASSUME AggInv, ResultInv, [EgressNext]_egressVars PROVE ResultInv'
  OBVIOUS
<1>1. CASE SkippedPacket
  BY <1>1 DEF SkippedPacket, ResultInv
<1>2. ASSUME NEW pr \in Vectors, RnnPacket(pr) PROVE ResultInv'
  <2>1. segs \in Nat /\ segs' = segs + 1 /\ segs' - 1 = segs /\ Index = segs % Period
    BY <1>2 DEF RnnPacket, AggInv, Index
  <2>2. cpr' = Accumulated(pr)
    BY <1>2 DEF RnnPacket
  <2>3. result' = [class |-> final_class(Choice(Accumulated(pr))),
                   low |-> LowConfidence(Accumulated(pr), Choice(Accumulated(pr)), Index)]
    BY <1>2 DEF RnnPacket
  <2>4. result' = [class |-> final_class(Choice(cpr')),
                   low |-> LowConfidence(cpr', Choice(cpr'), (segs' - 1) % Period)]
    BY <2>1, <2>2, <2>3
  <2> QED BY <2>4 DEF ResultInv
<1>3. CASE UNCHANGED egressVars
  BY <1>3 DEF egressVars, ResultInv
<1> QED BY <1>1, <1>2, <1>3 DEF EgressNext

\* The sums are keys the tables can compare.
LEMMA SumsAreKeys == AggInv => cpr \in [Classes -> 0 .. Weight[KeyBits] - 1]
<1> SUFFICES ASSUME AggInv PROVE cpr \in [Classes -> 0 .. Weight[KeyBits] - 1]
  OBVIOUS
<1> DEFINE kr == Weight[KeyBits]
           lp == Largest * Period
<1>1. kr \in Nat /\ lp \in Nat /\ lp < kr /\ cpr \in [Classes -> Nat]
      /\ \A c \in Classes : cpr[c] <= lp
  BY LargestTimes DEF AggInv
<1> HIDE DEF kr, lp
<1>2. \A c \in Classes : cpr[c] \in 0 .. kr - 1
  BY <1>1
<1> QED BY <1>1, <1>2 DEF kr

LEMMA ResultIsArgMax == AggInv /\ ResultInv /\ segs > 0 => IsArgMax(cpr, result.class)
<1> SUFFICES ASSUME AggInv, ResultInv, segs > 0 PROVE IsArgMax(cpr, result.class)
  OBVIOUS
<1>1. result.class = final_class(Choice(cpr))
  BY DEF ResultInv
<1> QED BY <1>1, SumsAreKeys, ChoiceIsArgMax

\* The sums, and what was made of them.
LEMMA EgressInv == EgressSpec => [](AggInv /\ ResultInv)
<1>1. EgressInit => ResultInv
  BY DEF EgressInit, ResultInv
<1> QED BY <1>1, InitAggInv, StepAggInv, StepResultInv, PTL DEF EgressSpec

\* The class written to a packet is np.argmax of aggregator.py's sums, ties to
\* the smallest included, for every width of the keys: the ternary tables of
\* tab_cmp*_entries.p4, generated bit by bit, are a correct comparison.
THEOREM ClassIsReference == EgressSpec => []ClassIsArgMax
<1>1. AggInv /\ ResultInv => ClassIsArgMax
  <2> SUFFICES ASSUME AggInv, ResultInv, segs > 0 PROVE result.class = Reference!ArgMax(cpr)
    BY DEF ClassIsArgMax
  <2> DEFINE c == result.class
             Best(d) == /\ \A e \in Classes : cpr[e] <= cpr[d]
                        /\ \A e \in Classes : cpr[e] = cpr[d] => d <= e
  <2>1. IsArgMax(cpr, c)
    BY ResultIsArgMax
  <2>2. c \in Classes /\ Best(c)
    BY <2>1 DEF IsArgMax
  <2>3. \A d \in Classes : cpr[d] \in Nat
    BY DEF AggInv
  <2> HIDE DEF c
  <2>4. ASSUME NEW d \in Classes, Best(d) PROVE d = c
    <3>1. cpr[c] <= cpr[d] /\ cpr[d] <= cpr[c] /\ cpr[c] \in Nat /\ cpr[d] \in Nat
      BY <2>2, <2>3, <2>4
    <3>2. cpr[c] = cpr[d]
      BY <3>1
    <3>3. c <= d /\ d <= c
      BY <2>2, <2>4, <3>2
    <3> QED BY <2>2, <3>3 DEF Classes
  <2>5. Reference!ArgMax(cpr) = CHOOSE d \in Classes : Best(d)
    BY DEF Reference!ArgMax
  <2> HIDE DEF Best
  <2>6. (CHOOSE d \in Classes : Best(d)) = c
    BY <2>2, <2>4
  <2> QED BY <2>5, <2>6 DEF c
<1> QED BY <1>1, EgressInv, PTL

-----------------------------------------------------------------------------
(* The confidence: Threshold, SatSub.                                      *)

\* Integer division, by what it guarantees.
LEMMA Rounded ==
  ASSUME NEW p \in Nat, NEW d \in Nat \ {0}
  PROVE  /\ p \div d \in Nat /\ (p \div d) * d \in Nat
         /\ (p \div d) * d <= p /\ p < ((p \div d) * d) + d
<1> DEFINE r == p \div d
           m == p % d
<1>1. r \in Nat /\ m \in 0 .. d - 1 /\ p = (d * r) + m
  OBVIOUS
<1> HIDE DEF r, m
<1>2. d * r = r * d /\ r * d \in Nat
  BY <1>1, SMT
<1> QED BY <1>1, <1>2 DEF r

\* Multiples of d in the order of what they are multiples of.
LEMMA Multiples ==
  ASSUME NEW d \in Nat \ {0}, NEW a \in Nat, NEW b \in Nat
  PROVE  a < b <=> a * d <= (b * d) - d
<1>1. a < b => a * d <= (b * d) - d
  <2> SUFFICES ASSUME a < b PROVE a * d <= (b * d) - d
    OBVIOUS
  <2>1. PICK e \in Nat : b = (a + e) + 1
    <3>1. b - a - 1 \in Nat /\ b = (a + (b - a - 1)) + 1
      OBVIOUS
    <3> QED BY <3>1
  <2>2. ((a + e) + 1) * d = ((a * d) + (e * d)) + d
    BY SMT
  <2>3. e * d \in Nat /\ a * d \in Nat
    BY SMT
  <2> QED BY <2>1, <2>2, <2>3
<1>2. ~(a < b) => ~(a * d <= (b * d) - d)
  <2> SUFFICES ASSUME b <= a PROVE ~(a * d <= (b * d) - d)
    OBVIOUS
  <2>1. PICK e \in Nat : a = b + e
    <3>1. a - b \in Nat /\ a = b + (a - b)
      OBVIOUS
    <3> QED BY <3>1
  <2>2. (b + e) * d = (b * d) + (e * d)
    BY SMT
  <2>3. e * d \in Nat /\ b * d \in Nat
    BY SMT
  <2> QED BY <2>1, <2>2, <2>3
<1> QED BY <1>1, <1>2

\* A sum that is not above the installed threshold is below the required one,
\* unless both are nothing; one a whole unit below it is not above.
LEMMA ThresholdRounds ==
  ASSUME NEW s \in Nat, NEW required \in Nat, NEW d \in Nat \ {0}, NEW threshold,
         threshold = LET rounded == required \div d
                     IN IF rounded = 0 THEN 0 ELSE rounded - 1
  PROVE  /\ s <= threshold /\ (s = 0 => required > 0) => s * d < required
         /\ s * d <= required - d => s <= threshold
<1> DEFINE r == required \div d
           rd == r * d
           sd == s * d
<1>1. r \in Nat /\ rd \in Nat /\ rd <= required /\ required < rd + d
  BY Rounded
<1>2. sd \in Nat /\ (s = 0 => sd = 0)
  BY SMT
<1>3. threshold = IF r = 0 THEN 0 ELSE r - 1
  OBVIOUS
<1>4. s < r <=> sd <= rd - d
  BY <1>1, Multiples
<1>5. s < r => sd < rd
  BY <1>1, <1>2, <1>4
<1>6. sd < rd => s < r
  <2> SUFFICES ASSUME r <= s PROVE rd <= sd
    BY <1>1, <1>2
  <2>1. PICK e \in Nat : s = r + e
    <3>1. s - r \in Nat /\ s = r + (s - r)
      BY <1>1
    <3> QED BY <3>1
  <2> HIDE DEF r
  <2>2. (r + e) * d = (r * d) + (e * d) /\ e * d \in Nat
    BY <1>1, SMT
  <2> QED BY <1>1, <1>2, <2>1, <2>2
<1> HIDE DEF r, rd, sd
<1>7. s <= threshold /\ (s = 0 => required > 0) => sd < required
  <2> SUFFICES ASSUME s <= threshold, s = 0 => required > 0 PROVE sd < required
    OBVIOUS
  <2>1. CASE r = 0
    BY <1>2, <1>3, <2>1
  <2>2. CASE r # 0
    BY <1>1, <1>2, <1>3, <1>5, <2>2
  <2> QED BY <2>1, <2>2
<1>8. sd <= required - d => s <= threshold
  BY <1>1, <1>2, <1>3, <1>6
<1> QED BY <1>7, <1>8 DEF sd

\* A packet is taken for ambiguous only if the aggregator's confidence is below
\* t_conf of its class, and always if it is a whole unit of the sums below: the
\* rounded and lowered threshold of setup_threshold.py and the subtraction that
\* saturates at 0 stand for a division, for every threshold and period.
THEOREM AmbiguityBounded == EgressSpec => []LowIsBelowThreshold
<1>1. AggInv /\ ResultInv => LowIsBelowThreshold
  <2> DEFINE i == (segs - 1) % Period
             c == result.class
             choice == Choice(cpr)
             s == cpr[c]
             times == Reference!SegsNum(segs)
             required == times * TConf[c]
             t == Threshold(c, i)
  <2> SUFFICES ASSUME AggInv, ResultInv, segs > 0
               PROVE /\ result.low => s * Den < required
                     /\ s * Den <= required - Den => result.low
    BY DEF LowIsBelowThreshold
  <2>1. IsArgMax(cpr, c)
    BY ResultIsArgMax
  <2>2. c = final_class(choice) /\ result.low = LowConfidence(cpr, choice, i)
    BY DEF ResultInv
  <2>3. s \in Nat /\ TConf[c] \in Nat /\ Den \in Nat \ {0} /\ Period \in Nat \ {0}
    BY <2>1, AggregationAssumption DEF IsArgMax, AggInv
  <2>4. i \in Nat
    <3>1. segs - 1 \in Nat
      BY DEF AggInv
    <3> QED BY <2>3, <3>1, SMT
  <2>5. times = i + 1 /\ times \in Nat \ {0}
    <3>1. times = 1 + i
      BY DEF Reference!SegsNum
    <3> QED BY <2>4, <3>1
  <2> HIDE DEF i, choice, times
  <2>6. t = LET rounded == required \div Den IN IF rounded = 0 THEN 0 ELSE rounded - 1
    BY <2>5 DEF Threshold
  <2>7. required \in Nat
    BY <2>3, <2>5, SMT
  <2>8. t \in Nat
    BY <2>3, <2>6, <2>7, Rounded
  <2> HIDE DEF t
  <2>9. result.low <=> SatSub(cpr[final_class(choice)], t) = 0
    BY <2>2 DEF LowConfidence, final_class, t
  <2>10. result.low <=> s <= t
    BY <2>2, <2>3, <2>8, <2>9 DEF SatSub
  <2>11. s = 0 => required > 0
    <3> SUFFICES ASSUME s = 0 PROVE required > 0
      OBVIOUS
    <3>1. 0 \in Classes /\ cpr[0] \in Nat /\ cpr[0] <= s
      BY <2>1 DEF IsArgMax, AggInv, Classes
    <3>2. c <= 0 /\ c \in 0 .. 5
      BY <2>1, <3>1 DEF IsArgMax, Classes
    <3>3. TConf[c] > 0
      BY <3>2, AggregationAssumption
    <3> QED BY <2>3, <2>5, <3>3, SMT
  <2> HIDE DEF s, required
  <2>12. /\ s <= t /\ (s = 0 => required > 0) => s * Den < required
         /\ s * Den <= required - Den => s <= t
    BY <2>3, <2>6, <2>7, ThresholdRounds
  <2> QED BY <2>10, <2>11, <2>12
<1> QED BY <1>1, EgressInv, PTL
=============================================================================
