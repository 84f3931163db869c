------------------------------ MODULE BuddyProofs ------------------------------
(***************************************************************************)
(* The buddy strategy in an arena of any size: blocks partition the        *)
(* region, free lists, headers and counters agree, no two free buddies are *)
(* left unmerged, and the strategy keeps the contract of AbstractHeap.     *)
(***************************************************************************)
EXTENDS Buddy, TLAPS, FiniteSetTheorems, SequenceTheorems, WellFoundedInduction

Aligned(x, k) == x \in Nat /\ x % 2^k = 0

\* the offsets of the 2^k bytes from x on
Cell(x, k) == {o \in Offsets : x <= o /\ o < x + 2^k}

\* the other half of the cell of order i + 1 around off
Bud(off, i) == Flip(Base(off, i), i)

Region == {o \in Offsets : o >= RegionOff}

\* blocks of the orders ord partition the region
Tiles(ord, B) ==
    /\ B \subseteq Offsets
    /\ \A b \in B : ord[b] \in Orders /\ Aligned(b, ord[b])
    /\ UNION {Cell(b, ord[b]) : b \in B} = Region
    /\ \A a, b \in B : a # b => Cell(a, ord[a]) \cap Cell(b, ord[b]) = {}


\* a list names nothing twice
Distinct(s) == \A i, j \in 1 .. Len(s) : s[i] = s[j] => i = j

\* the offsets the blocks S take up, and their bytes
Mass(ord, S) == UNION {Cell(b, ord[b]) : b \in S}
Weight(ord, S) == 2^MinOrder * Cardinality(Mass(ord, S))

\* where the upper halves start that cutting a block down leaves, and the
\* buddies met on the way up
Halves(off, from, to) == {off + 2^j : j \in from .. to - 1}
Buds(off, from, to) == {Bud(off, i) : i \in from .. to - 1}

-----------------------------------------------------------------------------
(* Powers of two.                                                          *)
(* A set of naturals has a least member.                                   *)
LEMMA LeastMember ==
    ASSUME NEW S \in SUBSET Nat, S # {}
    PROVE  \E m \in S : \A k \in S : m <= k
  <1>1. \E m \in S : \A k \in S : ~(<<k, m>> \in OpToRel(<, Nat))
    BY NatLessThanWellFounded, WFMin
  <1>2. \A k, m \in Nat : k < m => <<k, m>> \in OpToRel(<, Nat)
    BY DEF OpToRel
  <1>3. PICK m \in S : \A k \in S : ~(<<k, m>> \in OpToRel(<, Nat))
    BY <1>1
  <1>4. \A k \in S : ~(k < m)
    BY <1>2, <1>3
  <1> QED
    BY <1>4

\* 2^k counts the subsets of a set of k things
LEMMA PowerType ==
    ASSUME NEW k \in Nat
    PROVE  2^k \in Nat \ {0}
  <1>1. IsFiniteSet(1 .. k) /\ Cardinality(1 .. k) = k
    <2>1. 1 \in Int /\ k \in Int
      OBVIOUS
    <2> QED
      BY <2>1, FS_Interval
  <1>2. IsFiniteSet(SUBSET (1 .. k)) /\ Cardinality(SUBSET (1 .. k)) = 2^k
    BY <1>1, FS_SUBSET
  <1>3. Cardinality(SUBSET (1 .. k)) \in Nat
    BY <1>2, FS_CardinalityType
  <1>4. Cardinality(SUBSET (1 .. k)) # 0
    BY <1>2, FS_EmptySet
  <1> QED
    BY <1>2, <1>3, <1>4

\* with one more thing, each subset is there with it and without it
LEMMA PowerNext ==
    ASSUME NEW k \in Nat
    PROVE  2^(k + 1) = 2 * 2^k
  <1> DEFINE S == SUBSET (1 .. k)
             T == {a \cup {k + 1} : a \in S}
             U == SUBSET (1 .. k + 1)
  <1>1. IsFiniteSet(1 .. k) /\ Cardinality(1 .. k) = k
    <2>1. 1 \in Int /\ k \in Int
      OBVIOUS
    <2> QED
      BY <2>1, FS_Interval
  <1>2. IsFiniteSet(1 .. k + 1) /\ Cardinality(1 .. k + 1) = k + 1
    <2>1. 1 \in Int /\ k + 1 \in Int
      OBVIOUS
    <2> QED
      BY <2>1, FS_Interval
  <1>3. IsFiniteSet(S) /\ Cardinality(S) = 2^k
    BY <1>1, FS_SUBSET
  <1>4. IsFiniteSet(U) /\ Cardinality(U) = 2^(k + 1)
    BY <1>2, FS_SUBSET
  <1>5. IsFiniteSet(T) /\ Cardinality(T) = Cardinality(S)
    <2> DEFINE f == [a \in S |-> a \cup {k + 1}]
    <2>1. \A a, b \in S : a \cup {k + 1} = b \cup {k + 1} => a = b
      <3>1. \A a \in S : k + 1 \notin a
        OBVIOUS
      <3> QED
        BY <3>1
    <2>2. f \in Bijection(S, T)
      <3>1. \A a \in S : f[a] = a \cup {k + 1} /\ f[a] \in T
        OBVIOUS
      <3>2. \A t \in T : \E a \in S : f[a] = t
        OBVIOUS
      <3>3. f \in [S -> T]
        OBVIOUS
      <3>4. \A a, b \in S : f[a] = f[b] => a = b
        BY <2>1, <3>1
      <3> HIDE DEF S, T, f
      <3> QED
        BY <3>2, <3>3, <3>4 DEF Bijection, Injection, Surjection, IsInjective
    <2>3. ExistsBijection(S, T)
      BY <2>2 DEF ExistsBijection
    <2> QED
      BY <1>3, <2>3, FS_Bijection
  <1>6. U = S \cup T
    <2>1. ASSUME NEW a \in U, k + 1 \in a
          PROVE  a \in T
      <3>1. a \ {k + 1} \in S /\ a = (a \ {k + 1}) \cup {k + 1}
        BY <2>1
      <3> QED
        BY <3>1
    <2>2. ASSUME NEW a \in U, k + 1 \notin a
          PROVE  a \in S
      BY <2>2
    <2>3. S \subseteq U
      OBVIOUS
    <2>4. \A a \in S : a \cup {k + 1} \in U
      OBVIOUS
    <2>5. T \subseteq U
      BY <2>4
    <2> HIDE DEF S, T, U
    <2> QED
      BY <2>1, <2>2, <2>3, <2>5
  <1>7. S \cap T = {}
    OBVIOUS
  <1> HIDE DEF S, T, U
  <1>8. Cardinality(U) = Cardinality(S) + Cardinality(T) - Cardinality(S \cap T)
    BY <1>3, <1>5, <1>6, FS_Union
  <1>9. Cardinality(S \cap T) = 0
    BY <1>7, FS_EmptySet
  <1>10. 2^k \in Nat
    BY PowerType
  <1> QED
    BY <1>3, <1>4, <1>5, <1>8, <1>9, <1>10

\* exponents add
LEMMA PowerSum ==
    ASSUME NEW j \in Nat, NEW d \in Nat
    PROVE  2^(j + d) = 2^j * 2^d
  <1> DEFINE Bad == {e \in Nat : 2^(j + e) # 2^j * 2^e}
  <1>1. SUFFICES ASSUME Bad # {} PROVE FALSE
    OBVIOUS
  <1>2. PICK m \in Bad : \A e \in Bad : m <= e
    <2>1. Bad \in SUBSET Nat
      OBVIOUS
    <2> HIDE DEF Bad
    <2> QED
      BY <1>1, <2>1, LeastMember
  <1>3. m \in Nat /\ 2^(j + m) # 2^j * 2^m
    BY <1>2
  <1>4. CASE m = 0
    <2>1. 2^0 = 1
      OBVIOUS
    <2>2. 2^j \in Nat
      BY PowerType
    <2>3. j + m = j
      BY <1>4
    <2> QED
      BY <1>3, <1>4, <2>1, <2>2, <2>3
  <1>5. CASE m # 0
    <2> DEFINE e == m - 1
    <2>1. e \in Nat /\ m = e + 1 /\ j + m = (j + e) + 1 /\ j + e \in Nat
      BY <1>3, <1>5
    <2> HIDE DEF e
    <2>2. e \notin Bad
      <3> HIDE DEF Bad
      <3>1. ~(m <= e)
        BY <1>3, <2>1
      <3> QED
        BY <1>2, <3>1
    <2>3. 2^(j + e) = 2^j * 2^e
      BY <2>1, <2>2
    <2>4. 2^(j + m) = 2 * 2^(j + e) /\ 2^m = 2 * 2^e
      BY <2>1, PowerNext
    <2>5. 2^j \in Nat /\ 2^e \in Nat
      BY <2>1, PowerType
    <2>6. \A a, b \in Nat : 2 * (a * b) = a * (2 * b)
      OBVIOUS
    <2> QED
      BY <1>3, <2>3, <2>4, <2>5, <2>6
  <1> QED
    BY <1>4, <1>5

\* what is needed of them from here on
LEMMA Powers ==
    /\ \A k \in Nat : 2^k \in Nat \ {0} /\ 2^(k + 1) = 2 * 2^k
    /\ \A j, k \in Nat : j <= k => \E m \in Nat \ {0} : 2^k = m * 2^j
    /\ \A j, k \in Nat : j <= k => 2^j <= 2^k
    /\ \A j, k \in Nat : j < k => 2 * 2^j <= 2^k
  <1>1. \A k \in Nat : 2^k \in Nat \ {0} /\ 2^(k + 1) = 2 * 2^k
    BY PowerType, PowerNext
  <1>2. ASSUME NEW j \in Nat, NEW k \in Nat, j <= k
        PROVE  \E m \in Nat \ {0} : 2^k = m * 2^j
    <2> DEFINE d == k - j
    <2>1. d \in Nat /\ j + d = k
      BY <1>2
    <2> HIDE DEF d
    <2>2. 2^(j + d) = 2^j * 2^d /\ 2^d \in Nat \ {0} /\ 2^j \in Nat \ {0}
      BY <2>1, PowerSum, PowerType
    <2>3. \A a, b \in Nat : a * b = b * a
      OBVIOUS
    <2>4. 2^k = 2^d * 2^j
      BY <2>1, <2>2, <2>3
    <2> QED
      BY <2>2, <2>4
  <1>3. \A m, p \in Nat \ {0} : p <= m * p
    OBVIOUS
  <1>4. \A j, k \in Nat : j <= k => 2^j <= 2^k
    BY <1>1, <1>2, <1>3
  <1>5. ASSUME NEW j \in Nat, NEW k \in Nat, j < k
        PROVE  2 * 2^j <= 2^k
    <2>1. j + 1 \in Nat /\ j + 1 <= k
      BY <1>5
    <2>2. 2^(j + 1) <= 2^k
      BY <1>4, <2>1
    <2> QED
      BY <1>1, <2>2
  <1> QED
    BY <1>1, <1>2, <1>4, <1>5

-----------------------------------------------------------------------------
(* Offsets aligned to a power of two, and the cells they start.            *)
LEMMA DivMod ==
    ASSUME NEW x \in Nat, NEW p \in Nat \ {0}
    PROVE  /\ x \div p \in Nat /\ x % p \in 0 .. p - 1
           /\ x = (x \div p) * p + (x % p)
  OBVIOUS

\* multiples of p are p apart
LEMMA MultipleGap ==
    ASSUME NEW p \in Nat \ {0}, NEW q \in Nat, NEW r \in Nat, q * p < r * p
    PROVE  q * p + p <= r * p /\ q < r
  <1>1. q < r
    <2> SUFFICES ASSUME r <= q PROVE FALSE
      OBVIOUS
    <2>1. r * p <= q * p
      OBVIOUS
    <2> QED
      BY <2>1
  <1>2. q + 1 <= r
    BY <1>1
  <1>3. (q + 1) * p <= r * p
    BY <1>2
  <1>4. (q + 1) * p = q * p + p
    OBVIOUS
  <1> QED
    BY <1>1, <1>3, <1>4

\* a quotient and a remainder below p determine each other
LEMMA QuotientUnique ==
    ASSUME NEW p \in Nat \ {0}, NEW q \in Nat, NEW s \in 0 .. p - 1
    PROVE  (q * p + s) \div p = q /\ (q * p + s) % p = s
  <1> DEFINE x == q * p + s
             r == x \div p
  <1>1. x \in Nat
    OBVIOUS
  <1>2. r \in Nat /\ x % p \in 0 .. p - 1 /\ x = r * p + (x % p)
    BY <1>1, DivMod
  <1> HIDE DEF r
  <1>3. q * p \in Int /\ r * p \in Int
    BY <1>2
  <1>4. ~(q * p < r * p)
    BY <1>2, <1>3, MultipleGap
  <1>5. ~(r * p < q * p)
    BY <1>2, <1>3, MultipleGap
  <1>6. r * p = q * p
    BY <1>3, <1>4, <1>5
  <1>7. x % p = s
    BY <1>2, <1>3, <1>6
  <1>8. r = q
    <2>1. \A a, b \in Nat : a < b => a * p < b * p
      OBVIOUS
    <2> QED
      BY <1>2, <1>6, <2>1
  <1> QED
    BY <1>7, <1>8 DEF r

\* the multiples of p are the numbers with no remainder
LEMMA Multiples ==
    ASSUME NEW p \in Nat \ {0}
    PROVE  /\ \A q \in Nat : (q * p) % p = 0 /\ (q * p) \div p = q
           /\ \A x \in Nat : x % p = 0 => x = (x \div p) * p /\ x \div p \in Nat
  <1>1. ASSUME NEW q \in Nat
        PROVE  (q * p) % p = 0 /\ (q * p) \div p = q
    <2>1. 0 \in 0 .. p - 1 /\ q * p + 0 = q * p
      OBVIOUS
    <2>2. (q * p + 0) \div p = q /\ (q * p + 0) % p = 0
      BY <2>1, QuotientUnique
    <2> QED
      BY <2>1, <2>2
  <1>2. ASSUME NEW x \in Nat, x % p = 0
        PROVE  x = (x \div p) * p /\ x \div p \in Nat
    <2>1. x \div p \in Nat /\ x = (x \div p) * p + (x % p)
      BY DivMod
    <2>2. (x \div p) * p \in Nat
      BY <2>1
    <2> QED
      BY <1>2, <2>1, <2>2
  <1> QED
    BY <1>1, <1>2

\* cells of one size are apart
LEMMA AlignedGap ==
    ASSUME NEW k \in Nat, NEW a, NEW b, Aligned(a, k), Aligned(b, k), a < b
    PROVE  a + 2^k <= b
  <1> DEFINE p == 2^k
             q == a \div p
             r == b \div p
  <1>1. p \in Nat \ {0}
    BY Powers
  <1>2. a = q * p /\ b = r * p /\ q \in Nat /\ r \in Nat
    <2> HIDE DEF p
    <2>1. a \in Nat /\ b \in Nat /\ a % p = 0 /\ b % p = 0
      BY DEF Aligned, p
    <2> QED
      BY <1>1, <2>1, Multiples
  <1> HIDE DEF p, q, r
  <1>3. q * p + p <= r * p
    BY <1>1, <1>2, MultipleGap
  <1> QED
    BY <1>2, <1>3 DEF p

\* aligned offsets add and subtract
LEMMA AlignedSum ==
    ASSUME NEW k \in Nat, NEW a, NEW b, Aligned(a, k), Aligned(b, k)
    PROVE  Aligned(a + b, k) /\ (b <= a => Aligned(a - b, k))
  <1> DEFINE p == 2^k
             q == a \div p
             r == b \div p
  <1>1. p \in Nat \ {0}
    BY Powers
  <1>2. a = q * p /\ b = r * p /\ q \in Nat /\ r \in Nat
    <2> HIDE DEF p
    <2>1. a \in Nat /\ b \in Nat /\ a % p = 0 /\ b % p = 0
      BY DEF Aligned, p
    <2> QED
      BY <1>1, <2>1, Multiples
  <1> HIDE DEF p, q, r
  <1>3. a \in Nat /\ b \in Nat
    BY DEF Aligned
  <1>4. a + b = (q + r) * p
    BY <1>1, <1>2
  <1>5. ASSUME b <= a PROVE a - b = (q - r) * p /\ q - r \in Nat
    <2>1. a - b = (q - r) * p
      BY <1>1, <1>2
    <2>2. ~(q < r)
      <3>1. \A m, n \in Nat : m < n => m * p < n * p
        BY <1>1
      <3> QED
        BY <1>2, <1>3, <1>5, <3>1
    <2> QED
      BY <1>2, <2>1, <2>2
  <1>6. (a + b) % p = 0
    BY <1>1, <1>2, <1>4, Multiples
  <1>7. b <= a => (a - b) % p = 0
    BY <1>1, <1>5, Multiples
  <1> QED
    BY <1>3, <1>6, <1>7 DEF Aligned, p

\* what is aligned to a size is aligned to every smaller one
LEMMA AlignedFiner ==
    ASSUME NEW j \in Nat, NEW k \in Nat, j <= k
    PROVE  /\ Aligned(2^k, j)
           /\ \A a : Aligned(a, k) => Aligned(a, j)
  <1> DEFINE p == 2^j
             P == 2^k
  <1>1. p \in Nat \ {0} /\ P \in Nat \ {0}
    BY Powers
  <1>2. PICK m \in Nat \ {0} : P = m * p
    BY Powers
  <1> HIDE DEF p, P
  <1>3. Aligned(P, j)
    <2>1. (m * p) % p = 0
      BY <1>1, <1>2, Multiples
    <2> QED
      BY <1>1, <1>2, <2>1 DEF Aligned, p
  <1>4. ASSUME NEW a, Aligned(a, k)
        PROVE  Aligned(a, j)
    <2> DEFINE q == a \div P
    <2>1. a \in Nat /\ a % P = 0
      BY <1>4 DEF Aligned, P
    <2>2. a = q * P /\ q \in Nat
      BY <1>1, <2>1, Multiples
    <2> HIDE DEF q
    <2>3. a = (q * m) * p /\ q * m \in Nat
      BY <1>1, <1>2, <2>2
    <2>4. a % p = 0
      BY <1>1, <2>3, Multiples
    <2> QED
      BY <2>1, <2>4 DEF Aligned, p
  <1> QED
    BY <1>3, <1>4 DEF P

\* a cell that starts in another of its size or larger lies within it
LEMMA AlignedInside ==
    ASSUME NEW j \in Nat, NEW k \in Nat, j <= k,
           NEW a, NEW b, Aligned(a, j), Aligned(b, k), a < b + 2^k
    PROVE  a + 2^j <= b + 2^k
  <1>1. Aligned(b, j) /\ Aligned(2^k, j)
    BY AlignedFiner
  <1>2. Aligned(b + 2^k, j)
    BY <1>1, AlignedSum
  <1> QED
    BY <1>2, AlignedGap

-----------------------------------------------------------------------------
(* The cell of order k around an offset, and its buddy.                    *)
LEMMA BaseOf ==
    ASSUME NEW k \in Nat, NEW x \in Nat
    PROVE  /\ Aligned(Base(x, k), k) /\ Base(x, k) <= x /\ x < Base(x, k) + 2^k
           /\ \A b : Aligned(b, k) /\ b <= x /\ x < b + 2^k => b = Base(x, k)
  <1> DEFINE p == 2^k
             q == x \div p
             s == x % p
             c == Base(x, k)
  <1>1. p \in Nat \ {0}
    BY Powers
  <1>2. q \in Nat /\ s \in 0 .. p - 1 /\ x = q * p + s
    BY <1>1, DivMod
  <1>3. c = x - s
    BY DEF Base
  <1> HIDE DEF p, q, s, c
  <1>4. c = q * p /\ q * p \in Nat
    BY <1>1, <1>2, <1>3
  <1>5. c % p = 0
    BY <1>1, <1>2, <1>4, Multiples
  <1>6. Aligned(c, k)
    BY <1>4, <1>5 DEF Aligned, p
  <1>7. c <= x /\ x < c + p
    BY <1>1, <1>2, <1>3
  <1>8. ASSUME NEW b, Aligned(b, k), b <= x, x < b + p
        PROVE  b = c
    <2>1. b \in Nat /\ c \in Nat
      BY <1>4, <1>8 DEF Aligned
    <2>2. b < c => b + p <= c
      BY <1>6, <1>8, AlignedGap DEF p
    <2>3. c < b => c + p <= b
      BY <1>6, <1>8, AlignedGap DEF p
    <2> QED
      BY <1>1, <1>7, <1>8, <2>1, <2>2, <2>3
  <1> QED
    BY <1>6, <1>7, <1>8 DEF p, c

\* rounding down twice is rounding down to the larger size
LEMMA BaseNest ==
    ASSUME NEW j \in Nat, NEW k \in Nat, j <= k, NEW x \in Nat
    PROVE  Base(Base(x, j), k) = Base(x, k) /\ Base(x, k) <= Base(x, j)
  <1> DEFINE a == Base(x, j)
             b == Base(x, k)
  <1>1. /\ Aligned(a, j) /\ a <= x /\ x < a + 2^j
        /\ Aligned(b, k) /\ b <= x /\ x < b + 2^k
    BY BaseOf
  <1>2. a \in Nat /\ b \in Nat /\ 2^j \in Nat /\ 2^k \in Nat
    BY <1>1, Powers DEF Aligned
  <1> HIDE DEF a, b
  <1>3. Aligned(b, j)
    BY <1>1, AlignedFiner
  <1>4. a < b => a + 2^j <= b
    BY <1>1, <1>3, AlignedGap
  <1>5. b <= a /\ a < b + 2^k
    BY <1>1, <1>2, <1>4
  <1>6. b = Base(a, k)
    BY <1>1, <1>2, <1>5, BaseOf
  <1> QED
    BY <1>5, <1>6 DEF a, b

\* a cell and its buddy are the lower and the upper half of the next larger cell
LEMMA FlipOf ==
    ASSUME NEW k \in Nat, NEW b, Aligned(b, k)
    PROVE  /\ Aligned(Flip(b, k), k) /\ Aligned(Base(b, k + 1), k + 1)
           /\ Aligned(Base(b, k + 1), k)
           /\ \/ b = Base(b, k + 1) /\ Flip(b, k) = Base(b, k + 1) + 2^k
              \/ b = Base(b, k + 1) + 2^k /\ Flip(b, k) = Base(b, k + 1)
  <1> DEFINE p == 2^k
             q == b \div p
             h == q \div 2
             c == h * (2 * p)
  <1>1. p \in Nat \ {0} /\ 2^(k + 1) = 2 * p
    BY Powers
  <1>2. b \in Nat /\ b = q * p /\ q \in Nat
    <2> HIDE DEF p
    <2>1. b \in Nat /\ b % p = 0
      BY DEF Aligned, p
    <2> QED
      BY <1>1, <2>1, Multiples
  <1>3. Flip(b, k) = IF q % 2 = 0 THEN b + p ELSE b - p
    BY DEF Flip
  <1> HIDE DEF p, q
  <1>4. h \in Nat /\ (q = 2 * h \/ q = 2 * h + 1) /\ (q % 2 = 0 <=> q = 2 * h)
    BY <1>2
  <1> HIDE DEF h
  <1>5. c \in Nat /\ c = (2 * h) * p
    BY <1>1, <1>4
  <1>6. 2 * p \in Nat \ {0} /\ c % (2 * p) = 0
    <2>1. 2 * p \in Nat \ {0}
      BY <1>1
    <2> QED
      BY <1>4, <2>1, Multiples
  <1> HIDE DEF c
  <1>7. Aligned(c, k + 1)
    BY <1>1, <1>5, <1>6 DEF Aligned
  <1>8. (2 * h + 1) * p = (2 * h) * p + p
    BY <1>1, <1>4
  <1>9. \/ b = c /\ Flip(b, k) = c + p
        \/ b = c + p /\ Flip(b, k) = c
    BY <1>1, <1>2, <1>3, <1>4, <1>5, <1>8
  <1>10. c <= b /\ b < c + 2^(k + 1)
    BY <1>1, <1>5, <1>9
  <1>11. c = Base(b, k + 1)
    BY <1>2, <1>7, <1>10, BaseOf
  <1>12. Aligned(c, k) /\ Aligned(c + p, k)
    <2>1. Aligned(c, k) /\ Aligned(p, k)
      BY <1>7, AlignedFiner DEF p
    <2> QED
      BY <2>1, AlignedSum
  <1> QED
    BY <1>7, <1>9, <1>11, <1>12 DEF p

\* the buddy's buddy is the cell itself
LEMMA FlipBack ==
    ASSUME NEW k \in Nat, NEW b, Aligned(b, k)
    PROVE  Flip(Flip(b, k), k) = b /\ Flip(b, k) # b
  <1> DEFINE c == Base(b, k + 1)
             f == Flip(b, k)
             p == 2^k
  <1>1. p \in Nat \ {0} /\ 2^(k + 1) = 2 * p
    BY Powers
  <1>2. /\ Aligned(f, k) /\ Aligned(c, k + 1)
        /\ \/ b = c /\ f = c + p
           \/ b = c + p /\ f = c
    BY FlipOf
  <1> HIDE DEF c, f, p
  <1>3. c \in Nat /\ f \in Nat /\ b \in Nat
    BY <1>2 DEF Aligned
  <1>4. c = Base(f, k + 1)
    <2>1. c <= f /\ f < c + 2^(k + 1)
      BY <1>1, <1>2, <1>3
    <2> QED
      BY <1>2, <1>3, <2>1, BaseOf
  <1>5. \/ f = c /\ Flip(f, k) = c + p
        \/ f = c + p /\ Flip(f, k) = c
    BY <1>2, <1>4, FlipOf DEF p
  <1> QED
    BY <1>1, <1>2, <1>3, <1>5 DEF f

-----------------------------------------------------------------------------
(* The arena.                                                              *)
LEMMA OrderFacts ==
    ASSUME ArenaAssumption
    PROVE  /\ ArenaOrder \in Nat /\ StateOrder \in Nat /\ MinOrder \in Nat /\ MaxOrder \in Nat
           /\ MinOrder <= StateOrder /\ StateOrder <= MaxOrder /\ MaxOrder + 1 = ArenaOrder
           /\ Orders \subseteq Nat /\ Seeds \subseteq Orders
           /\ \A k \in Orders : MinOrder <= k /\ k <= MaxOrder
           /\ ArenaSize \in Nat \ {0} /\ RegionOff \in Nat \ {0}
           /\ RegionOff <= ArenaSize
           /\ Aligned(ArenaSize, MinOrder) /\ Aligned(RegionOff, MinOrder)
  <1>1. /\ ArenaOrder \in Nat /\ StateOrder \in Nat /\ MinOrder \in Nat /\ MaxOrder \in Nat
        /\ MinOrder <= StateOrder /\ StateOrder <= MaxOrder /\ MaxOrder + 1 = ArenaOrder
    BY DEF ArenaAssumption, MinOrder, MaxOrder
  <1>2. Orders \subseteq Nat /\ Seeds \subseteq Orders
    BY <1>1 DEF Orders, Seeds
  <1>3. \A k \in Orders : MinOrder <= k /\ k <= MaxOrder
    BY <1>1 DEF Orders
  <1>4. /\ ArenaSize \in Nat \ {0} /\ RegionOff \in Nat \ {0} /\ RegionOff <= ArenaSize
    <2>1. StateOrder <= ArenaOrder
      BY <1>1
    <2> QED
      BY <1>1, <2>1, Powers DEF ArenaSize, RegionOff
  <1>5. Aligned(ArenaSize, MinOrder) /\ Aligned(RegionOff, MinOrder)
    <2>1. MinOrder <= ArenaOrder
      BY <1>1
    <2> QED
      BY <1>1, <2>1, AlignedFiner DEF ArenaSize, RegionOff
  <1> QED
    BY <1>1, <1>2, <1>3, <1>4, <1>5

\* blocks start at the multiples of 2^MinOrder in the arena
LEMMA OffsetsAre ==
    ASSUME ArenaAssumption
    PROVE  \A x : x \in Offsets <=> Aligned(x, MinOrder) /\ x < ArenaSize
  <1> DEFINE p == 2^MinOrder
             n == 2^(ArenaOrder - MinOrder)
  <1>1. p \in Nat \ {0} /\ n \in Nat \ {0} /\ ArenaSize = n * p
    <2> DEFINE d == ArenaOrder - MinOrder
    <2>1. MinOrder \in Nat /\ d \in Nat /\ ArenaOrder = d + MinOrder
      BY OrderFacts
    <2> HIDE DEF d
    <2>2. 2^ArenaOrder = 2^d * 2^MinOrder
      BY <2>1, PowerSum
    <2> QED
      BY <2>1, <2>2, Powers DEF ArenaSize, d
  <1>2. Offsets = {q * p : q \in 0 .. n - 1}
    BY DEF Offsets
  <1>3. \A x : Aligned(x, MinOrder) <=> x \in Nat /\ x % p = 0
    BY DEF Aligned
  <1> HIDE DEF p, n
  <1>4. ASSUME NEW q \in 0 .. n - 1
        PROVE  q * p \in Nat /\ (q * p) % p = 0 /\ q * p < n * p
    <2>1. q \in Nat /\ q < n
      BY <1>1
    <2>2. \A a, b \in Nat : a < b => a * p < b * p
      BY <1>1
    <2> QED
      BY <1>1, <2>1, <2>2, Multiples
  <1>5. ASSUME NEW x \in Nat, x % p = 0, x < n * p
        PROVE  \E q \in 0 .. n - 1 : x = q * p
    <2> DEFINE q == x \div p
    <2>1. x = q * p /\ q \in Nat
      BY <1>1, <1>5, Multiples
    <2> HIDE DEF q
    <2>2. q < n
      BY <1>1, <1>5, <2>1, MultipleGap
    <2> QED
      BY <1>1, <2>1, <2>2
  <1> QED
    BY <1>1, <1>2, <1>3, <1>4, <1>5

\* the arena's base is aligned to every size
LEMMA ZeroAligned ==
    ASSUME NEW k \in Nat
    PROVE  Aligned(0, k)
  <1>1. 2^k \in Nat \ {0}
    BY Powers
  <1>2. (0 * 2^k) % 2^k = 0
    BY <1>1, Multiples
  <1>3. 0 * 2^k = 0
    BY <1>1
  <1> QED
    BY <1>2, <1>3 DEF Aligned

(* Offsets are counted in units of the smallest block.                     *)
LEMMA SpanSize ==
    ASSUME ArenaAssumption, NEW a, NEW b, Aligned(a, MinOrder), Aligned(b, MinOrder),
           a <= b, b <= ArenaSize
    PROVE  LET S == {o \in Offsets : a <= o /\ o < b}
           IN  IsFiniteSet(S) /\ 2^MinOrder * Cardinality(S) = b - a
  <1> DEFINE p == 2^MinOrder
             q == a \div p
             r == b \div p
             S == {o \in Offsets : a <= o /\ o < b}
             T == q .. r - 1
             f == [i \in T |-> i * p]
  <1>1. p \in Nat \ {0}
    BY Powers, OrderFacts
  <1>2. a = q * p /\ b = r * p /\ q \in Nat /\ r \in Nat
    <2> HIDE DEF p
    <2>1. a \in Nat /\ b \in Nat /\ a % p = 0 /\ b % p = 0
      BY DEF Aligned, p
    <2> QED
      BY <1>1, <2>1, Multiples
  <1>3. \A x : x \in Offsets <=> (x \in Nat /\ x % p = 0 /\ x < ArenaSize)
    BY OffsetsAre DEF Aligned
  <1>4. ArenaSize \in Nat
    BY OrderFacts
  <1> HIDE DEF p, q, r
  <1>5. \A i, j \in Nat : i < j <=> i * p < j * p
    <2>1. \A i, j \in Nat : i < j => i * p < j * p
      BY <1>1
    <2>2. \A i, j \in Nat : i * p < j * p => i < j
      BY <1>1, MultipleGap
    <2> QED
      BY <2>1, <2>2
  <1>6. q <= r
    BY <1>1, <1>2, <1>5
  <1>7. IsFiniteSet(T) /\ Cardinality(T) = r - q
    <2>1. q \in Int /\ r - 1 \in Int
      BY <1>2
    <2>2. IsFiniteSet(T) /\ Cardinality(T) = IF q > r - 1 THEN 0 ELSE r - 1 - q + 1
      BY <2>1, FS_Interval
    <2> HIDE DEF T
    <2> QED
      BY <1>2, <1>6, <2>2
  <1>8. f \in Bijection(T, S)
    <2>1. ASSUME NEW i \in T PROVE i * p \in S
      <3>1. i \in Nat /\ ~(i < q) /\ i < r
        BY <1>2
      <3>2. i * p \in Nat /\ (i * p) % p = 0
        BY <1>1, <3>1, Multiples
      <3>3. ~(i * p < a) /\ i * p < b
        BY <1>2, <1>5, <3>1
      <3>4. a \in Nat /\ b \in Nat
        BY <1>1, <1>2
      <3>5. a <= i * p /\ i * p < ArenaSize
        BY <1>4, <3>2, <3>3, <3>4
      <3> QED
        BY <1>3, <3>2, <3>3, <3>5
    <2>2. ASSUME NEW x \in S PROVE \E i \in T : i * p = x
      <3> DEFINE i == x \div p
      <3>1. x \in Nat /\ x % p = 0 /\ a <= x /\ x < b
        BY <1>3
      <3>2. x = i * p /\ i \in Nat
        BY <1>1, <3>1, Multiples
      <3> HIDE DEF i
      <3>3. ~(i < q) /\ i < r
        <4>1. a \in Nat /\ b \in Nat /\ ~(i * p < q * p) /\ i * p < r * p
          BY <1>1, <1>2, <3>1, <3>2
        <4> QED
          BY <1>2, <1>5, <3>2, <4>1
      <3> QED
        BY <1>2, <3>2, <3>3
    <2>3. \A i, j \in T : i * p = j * p => i = j
      <3>1. \A i, j \in Nat : i * p = j * p => i = j
        <4>1. \A i, j \in Nat : i * p \in Nat
          BY <1>1
        <4> QED
          BY <1>5, <4>1
      <3>2. T \subseteq Nat
        BY <1>2
      <3> QED
        BY <3>1, <3>2
    <2>4. f \in [T -> S]
      BY <2>1
    <2>5. \A i \in T : f[i] = i * p
      OBVIOUS
    <2> HIDE DEF S, T, f
    <2> QED
      BY <2>2, <2>3, <2>4, <2>5 DEF Bijection, Injection, Surjection, IsInjective
  <1>9. IsFiniteSet(S) /\ Cardinality(S) = r - q
    <2>1. ExistsBijection(T, S)
      <3> HIDE DEF S, T, f
      <3> QED
        BY <1>8 DEF ExistsBijection
    <2> HIDE DEF S, T, f
    <2> QED
      BY <1>7, <2>1, FS_Bijection
  <1>10. p * (r - q) = b - a
    BY <1>1, <1>2
  <1> HIDE DEF S
  <1>11. p * Cardinality(S) = b - a
    BY <1>9, <1>10
  <1> QED
    BY <1>9, <1>11 DEF S, p

-----------------------------------------------------------------------------
(* Cells, and blocks that partition the region.                            *)
LEMMA CellStart ==
    ASSUME NEW k \in Nat, NEW x \in Offsets, x \in Nat
    PROVE  x \in Cell(x, k)
  BY Powers DEF Cell

\* a cell that starts in one of its size or larger is part of it
LEMMA CellInside ==
    ASSUME ArenaAssumption, NEW j \in Nat, NEW k \in Nat, j <= k,
           NEW a, NEW b, Aligned(a, j), Aligned(b, k), b <= a, a < b + 2^k
    PROVE  Cell(a, j) \subseteq Cell(b, k)
  <1>1. a + 2^j <= b + 2^k
    BY AlignedInside
  <1>2. a \in Nat /\ b \in Nat /\ 2^j \in Nat /\ 2^k \in Nat
    BY Powers DEF Aligned
  <1>3. \A x \in Offsets : x \in Nat
    BY OffsetsAre DEF Aligned
  <1> QED
    BY <1>1, <1>2, <1>3 DEF Cell

\* two cells of one size share nothing
LEMMA CellsApart ==
    ASSUME ArenaAssumption, NEW k \in Nat, NEW a, NEW b, Aligned(a, k), Aligned(b, k), a # b
    PROVE  Cell(a, k) \cap Cell(b, k) = {}
  <1>1. a \in Nat /\ b \in Nat /\ 2^k \in Nat
    BY Powers DEF Aligned
  <1>2. a + 2^k <= b \/ b + 2^k <= a
    <2>1. a < b \/ b < a
      BY <1>1
    <2> QED
      BY <2>1, AlignedGap
  <1>3. \A x \in Offsets : x \in Nat
    BY OffsetsAre DEF Aligned
  <1> QED
    BY <1>1, <1>2, <1>3 DEF Cell

\* a cell and its buddy make up the next larger one
LEMMA CellHalves ==
    ASSUME ArenaAssumption, NEW k \in Nat, NEW x \in Nat
    PROVE  Cell(Base(x, k + 1), k + 1) = Cell(Base(x, k), k) \cup Cell(Bud(x, k), k)
  <1> DEFINE b == Base(x, k)
             c == Base(x, k + 1)
             f == Flip(b, k)
             p == 2^k
  <1>1. Aligned(b, k)
    BY BaseOf
  <1>2. c = Base(b, k + 1)
    <2>1. k + 1 \in Nat /\ k <= k + 1
      OBVIOUS
    <2> QED
      BY <2>1, BaseNest
  <1>3. /\ Aligned(c, k + 1)
        /\ \/ b = c /\ f = c + p
           \/ b = c + p /\ f = c
    BY <1>1, <1>2, FlipOf
  <1>4. p \in Nat \ {0} /\ 2^(k + 1) = p + p
    <2>1. p \in Nat \ {0} /\ 2^(k + 1) = 2 * p
      BY Powers
    <2> QED
      BY <2>1
  <1>5. c \in Nat
    BY <1>3 DEF Aligned
  <1> HIDE DEF b, c, f, p
  <1>6. \A o \in Offsets : o \in Nat
    BY OffsetsAre DEF Aligned
  <1>7. ASSUME NEW o \in Nat
        PROVE  c <= o /\ o < c + (p + p) <=> (b <= o /\ o < b + p) \/ (f <= o /\ o < f + p)
    BY <1>3, <1>4, <1>5
  <1>8. /\ Cell(c, k + 1) = {o \in Offsets : c <= o /\ o < c + (p + p)}
        /\ Cell(b, k) = {o \in Offsets : b <= o /\ o < b + p}
        /\ Cell(f, k) = {o \in Offsets : f <= o /\ o < f + p}
    BY <1>4 DEF Cell, p
  <1>9. Cell(c, k + 1) = Cell(b, k) \cup Cell(f, k)
    BY <1>6, <1>7, <1>8
  <1> QED
    BY <1>9 DEF b, c, f, Bud

\* a block lies in the region, starts at its own offset and is aligned
LEMMA TileFits ==
    ASSUME ArenaAssumption, NEW ord, NEW B, Tiles(ord, B), NEW b \in B
    PROVE  /\ b \in Nat /\ b \in Offsets /\ ord[b] \in Nat /\ ord[b] \in Orders
           /\ Aligned(b, ord[b]) /\ Aligned(b, MinOrder)
           /\ RegionOff <= b /\ b + 2^ord[b] <= ArenaSize
           /\ b \in Cell(b, ord[b]) /\ Cell(b, ord[b]) \subseteq Region
  <1>1. b \in Offsets /\ ord[b] \in Orders /\ Aligned(b, ord[b])
    BY DEF Tiles
  <1>2. ord[b] \in Nat /\ ord[b] <= ArenaOrder /\ MinOrder \in Nat /\ ArenaOrder \in Nat
    <2>1. /\ Orders \subseteq Nat /\ MaxOrder + 1 = ArenaOrder /\ MaxOrder \in Nat
          /\ ord[b] <= MaxOrder /\ MinOrder \in Nat /\ ArenaOrder \in Nat
      BY <1>1, OrderFacts
    <2>2. ord[b] \in Nat
      BY <1>1, <2>1
    <2>3. MaxOrder <= ArenaOrder
      BY <2>1
    <2> QED
      BY <2>1, <2>2, <2>3
  <1>3. b \in Nat /\ Aligned(b, MinOrder) /\ b < ArenaSize
    BY <1>1, OffsetsAre DEF Aligned
  <1>4. b \in Cell(b, ord[b])
    BY <1>1, <1>2, <1>3, CellStart
  <1>5. Cell(b, ord[b]) \subseteq Region
    BY DEF Tiles
  <1>6. b + 2^ord[b] <= ArenaSize
    <2>1. Aligned(0, ArenaOrder)
      BY <1>2, ZeroAligned
    <2>2. ArenaSize = 2^ArenaOrder /\ ArenaSize \in Nat
      BY OrderFacts DEF ArenaSize
    <2>3. b < 0 + 2^ArenaOrder
      BY <1>3, <2>2
    <2>4. b + 2^ord[b] <= 0 + 2^ArenaOrder
      BY <1>1, <1>2, <2>1, <2>3, AlignedInside
    <2> QED
      BY <2>2, <2>4
  <1>7. RegionOff <= b
    <2>1. RegionOff \in Nat
      BY OrderFacts
    <2> QED
      BY <1>3, <1>4, <1>5, <2>1 DEF Region
  <1> QED
    BY <1>1, <1>2, <1>3, <1>4, <1>5, <1>6, <1>7

\* a buddy that lies in the region is a block, or is cut into smaller ones
LEMMA BuddyIsBlock ==
    ASSUME ArenaAssumption, NEW ord, NEW B, Tiles(ord, B), NEW off \in B,
           NEW i \in Nat, ord[off] <= i, i < MaxOrder,
           RegionOff <= Bud(off, i)
    PROVE  Bud(off, i) \in B /\ ord[Bud(off, i)] <= i /\ Bud(off, i) # off
  <1> DEFINE b == Base(off, i)
             f == Bud(off, i)
             c == Base(off, i + 1)
             n == i + 1
  <1>1. /\ off \in Nat /\ off \in Offsets /\ ord[off] \in Nat
    BY TileFits
  <1>2. /\ n \in Nat /\ i <= n /\ n <= ArenaOrder /\ ArenaOrder \in Nat
        /\ MinOrder \in Nat /\ MinOrder <= i
    <2>1. /\ MaxOrder + 1 = ArenaOrder /\ MaxOrder \in Nat /\ MinOrder \in Nat /\ ArenaOrder \in Nat
          /\ MinOrder <= ord[off]
      BY TileFits, OrderFacts
    <2> QED
      BY <1>1, <2>1
  <1>3. /\ Aligned(b, i) /\ b <= off /\ off < b + 2^i
        /\ Aligned(c, n) /\ c <= off /\ off < c + 2^n
    BY <1>1, <1>2, BaseOf
  <1>4. c = Base(b, n)
    BY <1>1, <1>2, BaseNest
  <1>5. /\ Aligned(f, i) /\ f # b
        /\ \/ b = c /\ f = c + 2^i
           \/ b = c + 2^i /\ f = c
    BY <1>3, <1>4, FlipOf, FlipBack DEF Bud
  <1>6. f \in Nat /\ b \in Nat /\ c \in Nat /\ 2^i \in Nat \ {0} /\ 2^n = 2 * 2^i
    BY <1>3, <1>5, Powers DEF Aligned
  <1> HIDE DEF b, f, c, n
  <1>7. c <= f /\ f < c + 2^n
    BY <1>5, <1>6
  <1>8. f \in Region
    <2>1. ArenaSize = 2^ArenaOrder /\ ArenaSize \in Nat
      BY OrderFacts DEF ArenaSize
    <2>2. c < 0 + 2^ArenaOrder
      <3>1. off < ArenaSize
        BY <1>1, OffsetsAre
      <3> QED
        BY <1>1, <1>3, <1>6, <2>1, <3>1
    <2>3. c + 2^n <= 0 + 2^ArenaOrder
      BY <1>2, <1>3, <2>2, ZeroAligned, AlignedInside
    <2>4. f < ArenaSize
      BY <1>6, <1>7, <2>1, <2>3
    <2>5. Aligned(f, MinOrder)
      BY <1>2, <1>5, AlignedFiner
    <2> QED
      BY <2>4, <2>5, OffsetsAre DEF Region, f
  <1>9. PICK e \in B : f \in Cell(e, ord[e])
    BY <1>8 DEF Tiles
  <1> DEFINE m == ord[e]
  <1>10. m \in Nat /\ Aligned(e, m) /\ e <= f /\ f < e + 2^m
    BY <1>9, TileFits DEF Cell
  <1> HIDE DEF m
  <1>11. ASSUME i < m PROVE FALSE
    <2>1. n <= m
      BY <1>10, <1>11 DEF n
    <2>2. e = Base(f, m) /\ c = Base(f, n)
      BY <1>2, <1>3, <1>6, <1>7, <1>10, BaseOf
    <2>3. Base(c, m) = Base(f, m)
      BY <1>2, <1>6, <1>10, <2>1, <2>2, BaseNest
    <2>4. Base(c, m) = Base(off, m)
      BY <1>1, <1>2, <1>10, <2>1, BaseNest DEF c, n
    <2>5. e <= off /\ off < e + 2^m
      BY <1>1, <1>10, <2>2, <2>3, <2>4, BaseOf
    <2>6. off \in Cell(e, m) /\ off \in Cell(off, ord[off])
      BY <1>1, <2>5, TileFits DEF Cell
    <2>7. e = off
      BY <2>6 DEF Tiles, m
    <2> QED
      BY <1>1, <1>11, <2>7 DEF m
  <1>12. m <= i
    BY <1>10, <1>11
  <1>13. e = f
    <2>1. Aligned(f, m)
      BY <1>5, <1>10, <1>12, AlignedFiner
    <2>2. f <= f /\ f < f + 2^m
      BY <1>6, <1>10, Powers
    <2>3. e = Base(f, m) /\ f = Base(f, m)
      BY <1>6, <1>10, <2>1, <2>2, BaseOf
    <2> QED
      BY <2>3
  <1>14. f # off
    <2>1. f = off => b = f
      <3>1. f <= f /\ f < f + 2^i
        BY <1>6
      <3>2. f = Base(f, i)
        BY <1>5, <1>6, <3>1, BaseOf
      <3> QED
        BY <3>2 DEF b
    <2> QED
      BY <1>5, <2>1
  <1> QED
    BY <1>12, <1>13, <1>14 DEF f, m

-----------------------------------------------------------------------------
(* The cell a merge ends with is the block given back and its buddies.     *)
LEMMA MergedCell ==
    ASSUME ArenaAssumption, NEW off \in Nat, NEW k \in Nat, NEW top \in Nat, k <= top,
           Aligned(off, k)
    PROVE  /\ \A i \in k .. top - 1 : Cell(Bud(off, i), i) \subseteq Cell(Base(off, top), top)
           /\ Cell(off, k) \subseteq Cell(Base(off, top), top)
           /\ \A x \in Cell(Base(off, top), top) :
                 x \in Cell(off, k) \/ \E i \in k .. top - 1 : x \in Cell(Bud(off, i), i)
  <1>1. Base(off, k) = off
    <2>1. off <= off /\ off < off + 2^k
      BY Powers
    <2> QED
      BY <2>1, BaseOf
  <1>2. ASSUME NEW i \in Nat, i <= top
        PROVE  Cell(Base(off, i), i) \subseteq Cell(Base(off, top), top)
    <2>1. /\ Aligned(Base(off, i), i) /\ Base(off, i) <= off
          /\ Aligned(Base(off, top), top) /\ off < Base(off, top) + 2^top
      BY BaseOf
    <2>2. Base(off, top) <= Base(off, i)
      BY <1>2, BaseNest
    <2>3. Base(off, top) \in Nat /\ Base(off, i) \in Nat /\ 2^top \in Nat
      BY <2>1, Powers DEF Aligned
    <2>4. Base(off, i) < Base(off, top) + 2^top
      BY <2>1, <2>3
    <2> QED
      BY <1>2, <2>1, <2>2, <2>4, CellInside
  <1>3. ASSUME NEW i \in k .. top - 1
        PROVE  Cell(Bud(off, i), i) \subseteq Cell(Base(off, top), top)
    <2>1. i \in Nat /\ i + 1 \in Nat /\ i + 1 <= top
      OBVIOUS
    <2>2. Cell(Bud(off, i), i) \subseteq Cell(Base(off, i + 1), i + 1)
      BY <2>1, CellHalves
    <2>3. Cell(Base(off, i + 1), i + 1) \subseteq Cell(Base(off, top), top)
      BY <1>2, <2>1
    <2> QED
      BY <2>2, <2>3
  <1>4. ASSUME NEW x \in Cell(Base(off, top), top)
        PROVE  x \in Cell(off, k) \/ \E i \in k .. top - 1 : x \in Cell(Bud(off, i), i)
    <2> DEFINE In == {j \in k .. top : x \in Cell(Base(off, j), j)}
    <2>1. PICK m \in In : \A j \in In : m <= j
      <3>1. In \in SUBSET Nat /\ top \in In
        BY <1>4
      <3> HIDE DEF In
      <3> QED
        BY <3>1, LeastMember
    <2>2. m \in k .. top /\ x \in Cell(Base(off, m), m)
      BY <2>1
    <2>3. CASE m = k
      BY <1>1, <2>2, <2>3
    <2>4. CASE m # k
      <3> DEFINE i == m - 1
      <3>1. i \in k .. top - 1 /\ m = i + 1 /\ i \in Nat /\ ~(m <= i) /\ i \in k .. top
        BY <2>2, <2>4
      <3> HIDE DEF i
      <3>2. x \notin Cell(Base(off, i), i)
        BY <2>1, <3>1
      <3>3. x \in Cell(Bud(off, i), i)
        BY <2>2, <3>1, <3>2, CellHalves
      <3> QED
        BY <3>1, <3>3
    <2> QED
      BY <2>3, <2>4
  <1> QED
    BY <1>1, <1>2, <1>3, <1>4

\* the merged cell starts where the block or one of its buddies does
LEMMA MergedStart ==
    ASSUME ArenaAssumption, NEW ord, NEW B, Tiles(ord, B), NEW off \in B,
           NEW top \in Orders, ord[off] <= top,
           NEW M, M = Buds(off, ord[off], top),
           \A i \in ord[off] .. top - 1 : Bud(off, i) \in B /\ ord[Bud(off, i)] = i,
           NEW start, start = Base(off, top)
    PROVE  /\ start \in M \cup {off} /\ start \in Offsets
           /\ Aligned(start, top) /\ start \in Nat
           /\ Cell(start, top) = UNION {Cell(b, ord[b]) : b \in M \cup {off}}
  <1> DEFINE k == ord[off]
             G == M \cup {off}
             U == UNION {Cell(b, ord[b]) : b \in G}
  <1> M = {Bud(off, i) : i \in k .. top - 1}
    BY DEF Buds
  <1>1. /\ off \in Nat /\ off \in Offsets /\ k \in Nat /\ top \in Nat /\ k <= top
        /\ Aligned(off, k)
    BY TileFits, OrderFacts
  <1>2. /\ Aligned(start, top) /\ start <= off /\ off < start + 2^top /\ start \in Nat
    BY <1>1, BaseOf DEF Aligned
  <1>3. G \subseteq B
    OBVIOUS
  <1>4. Cell(start, top) = U
    <2>1. ASSUME NEW b \in G PROVE Cell(b, ord[b]) \subseteq Cell(start, top)
      <3>1. CASE b = off
        BY <1>1, <3>1, MergedCell
      <3>2. CASE b # off
        <4>1. PICK i \in k .. top - 1 : b = Bud(off, i)
          BY <3>2
        <4>2. ord[b] = i
          BY <4>1
        <4>3. Cell(Bud(off, i), i) \subseteq Cell(start, top)
          BY <1>1, MergedCell
        <4> QED
          BY <4>1, <4>2, <4>3
      <3> QED
        BY <3>1, <3>2
    <2>2. ASSUME NEW x \in Cell(start, top) PROVE \E b \in G : x \in Cell(b, ord[b])
      <3>1. x \in Cell(off, k) \/ \E i \in k .. top - 1 : x \in Cell(Bud(off, i), i)
        BY <1>1, MergedCell
      <3> QED
        BY <3>1
    <2> HIDE DEF G
    <2> QED
      BY <2>1, <2>2
  <1> HIDE DEF G
  <1>5. start \in Offsets
    <2>1. /\ MinOrder \in Nat /\ MinOrder <= top /\ ArenaSize \in Nat
      BY OrderFacts
    <2>2. Aligned(start, MinOrder)
      BY <1>1, <1>2, <2>1, AlignedFiner
    <2>3. start < ArenaSize
      BY <1>1, <1>2, <2>1, OffsetsAre
    <2> QED
      BY <2>2, <2>3, OffsetsAre
  <1>6. start \in G
    <2>1. start \in Cell(start, top)
      BY <1>1, <1>2, <1>5, CellStart
    <2>2. PICK b \in G : start \in Cell(b, ord[b])
      BY <1>4, <2>1
    <2>3. b \in Cell(b, ord[b]) /\ b \in Nat
      BY <1>3, TileFits
    <2>4. b \in Cell(start, top)
      BY <1>4, <2>3
    <2>5. b <= start /\ start <= b
      BY <2>2, <2>4 DEF Cell
    <2> QED
      BY <1>2, <2>3, <2>5
  <1> QED
    BY <1>2, <1>4, <1>5, <1>6 DEF G

\* it takes the place of the block and of the buddies
LEMMA MergedTiles ==
    ASSUME ArenaAssumption, NEW ord, NEW B, Tiles(ord, B), NEW off \in B,
           NEW top \in Orders, ord[off] <= top,
           NEW M, M = Buds(off, ord[off], top),
           \A i \in ord[off] .. top - 1 : Bud(off, i) \in B /\ ord[Bud(off, i)] = i,
           NEW start, start = Base(off, top),
           NEW ord2, ord2[start] = top,
           \A b \in B \ (M \cup {off}) : ord2[b] = ord[b]
    PROVE  Tiles(ord2, (B \ (M \cup {off})) \cup {start})
  <1> DEFINE G == M \cup {off}
             U == UNION {Cell(b, ord[b]) : b \in G}
             Rest == B \ G
  <1>1. start \in G /\ start \in Offsets /\ Aligned(start, top) /\ Cell(start, top) = U
    BY MergedStart
  <1>2. G \subseteq B
    <2>1. M = {Bud(off, i) : i \in ord[off] .. top - 1}
      BY DEF Buds
    <2> QED
      BY <2>1
  <1> HIDE DEF G
  <1>3. start \notin Rest
    BY <1>1
  <1>4. \A b \in Rest : b \in B /\ b \notin G /\ ord2[b] = ord[b]
    BY DEF G
  <1> HIDE DEF Rest, U
  <1>5. \A b \in Rest : Cell(b, ord2[b]) \cap Cell(start, top) = {}
    <2>1. \A b \in Rest : \A g \in G : Cell(b, ord[b]) \cap Cell(g, ord[g]) = {}
      BY <1>2, <1>4 DEF Tiles
    <2> QED
      BY <1>1, <1>4, <2>1 DEF U
  <1>6. Rest \cup {start} \subseteq Offsets
    BY <1>1, <1>4 DEF Tiles
  <1>7. \A b \in Rest \cup {start} : ord2[b] \in Orders /\ Aligned(b, ord2[b])
    BY <1>1, <1>4 DEF Tiles
  <1>8. \A a, b \in Rest \cup {start} : a # b => Cell(a, ord2[a]) \cap Cell(b, ord2[b]) = {}
    <2>1. \A a, b \in Rest : a # b => Cell(a, ord2[a]) \cap Cell(b, ord2[b]) = {}
      BY <1>4 DEF Tiles
    <2> QED
      BY <1>5, <2>1
  <1>9. UNION {Cell(b, ord2[b]) : b \in Rest \cup {start}} = Region
    <2>1. UNION {Cell(b, ord2[b]) : b \in Rest \cup {start}}
             = (UNION {Cell(b, ord[b]) : b \in Rest}) \cup Cell(start, top)
      BY <1>4
    <2>2. (UNION {Cell(b, ord[b]) : b \in Rest}) \cup UNION {Cell(b, ord[b]) : b \in G} = Region
      <3>1. B = Rest \cup G
        BY <1>2 DEF Rest
      <3>2. UNION {Cell(b, ord[b]) : b \in Rest \cup G} = Region
        BY <3>1 DEF Tiles
      <3> QED
        BY <3>2
    <2> QED
      BY <1>1, <2>1, <2>2 DEF U
  <1>10. Tiles(ord2, Rest \cup {start})
    BY <1>6, <1>7, <1>8, <1>9 DEF Tiles
  <1> QED
    BY <1>10 DEF G, Rest

\* the block off of B cut down to order want: N are the upper halves, ord2 the orders after it
CutDown(ord, B, off, want, N, ord2) ==
    /\ Tiles(ord, B) /\ off \in B
    /\ want \in Orders /\ want <= ord[off]
    /\ N = Halves(off, want, ord[off]) /\ ord2[off] = want
    /\ \A j \in want .. ord[off] - 1 : ord2[off + 2^j] = j
    /\ \A b \in B \ {off} : ord2[b] = ord[b]

\* the halves an allocation cuts off are blocks, and what is left is the rest
LEMMA SplitTiles ==
    ASSUME ArenaAssumption, NEW ord, NEW B, NEW off, NEW want, NEW N, NEW ord2,
           CutDown(ord, B, off, want, N, ord2)
    PROVE  /\ N \cap B = {}
           /\ Tiles(ord2, B \cup N)
           /\ Cell(off, ord[off]) = UNION {Cell(b, ord2[b]) : b \in N \cup {off}}
           /\ \A i, j \in want .. ord[off] - 1 : off + 2^i = off + 2^j => i = j
  <1> /\ Tiles(ord, B) /\ off \in B
      /\ want \in Orders /\ want <= ord[off]
      /\ N = Halves(off, want, ord[off]) /\ ord2[off] = want
      /\ \A j \in want .. ord[off] - 1 : ord2[off + 2^j] = j
      /\ \A b \in B \ {off} : ord2[b] = ord[b]
    BY DEF CutDown
  <1> DEFINE k == ord[off]
             cut == want .. k - 1
             G == N \cup {off}
  <1> N = {off + 2^j : j \in cut}
    BY DEF Halves
  <1>1. /\ off \in Nat /\ off \in Offsets /\ k \in Nat /\ want \in Nat /\ want <= k
        /\ Aligned(off, k) /\ off + 2^k <= ArenaSize
        /\ MinOrder \in Nat /\ MinOrder <= want /\ k \in Orders /\ ArenaSize \in Nat
    BY TileFits, OrderFacts
  <1>2. cut \subseteq Nat /\ cut \subseteq Orders
    <2>1. k <= MaxOrder /\ MaxOrder \in Nat
      BY <1>1, OrderFacts
    <2> QED
      BY <1>1, <2>1 DEF Orders
  <1>3. \A j \in cut : 2^j \in Nat \ {0} /\ 2^(j + 1) = 2^j + 2^j /\ 2 * 2^j <= 2^k
    <2> TAKE j \in cut
    <2>1. j \in Nat /\ j < k
      BY <1>1
    <2>2. 2^j \in Nat \ {0} /\ 2^(j + 1) = 2 * 2^j /\ 2 * 2^j <= 2^k
      BY <1>1, <2>1, Powers
    <2> QED
      BY <2>2
  <1>4. \A j \in cut : Aligned(off + 2^j, j)
    <2> TAKE j \in cut
    <2>1. j \in Nat /\ j <= k
      BY <1>1
    <2>2. Aligned(off, j) /\ Aligned(2^j, j)
      BY <1>1, <2>1, AlignedFiner
    <2> QED
      BY <2>1, <2>2, AlignedSum
  <1>5. 2^want \in Nat \ {0} /\ 2^want <= 2^k /\ 2^k \in Nat
    BY <1>1, Powers
  <1>6. \A x \in Offsets : x \in Nat
    BY OffsetsAre DEF Aligned
  <1>7. ASSUME NEW j \in cut
        PROVE  /\ off + 2^j \in Offsets
               /\ Cell(off + 2^j, j) = {x \in Offsets : off + 2^j <= x /\ x < off + 2^(j + 1)}
               /\ Cell(off + 2^j, j) \subseteq Cell(off, k)
    <2>1. j \in Nat /\ MinOrder <= j
      BY <1>1
    <2>2. Aligned(off + 2^j, MinOrder)
      BY <1>1, <1>4, <2>1, AlignedFiner
    <2>3. off + 2^j < ArenaSize
      BY <1>1, <1>3, <1>5
    <2>4. off + 2^j \in Offsets
      BY <2>2, <2>3, OffsetsAre
    <2>5. off + 2^(j + 1) = (off + 2^j) + 2^j
      BY <1>1, <1>3
    <2>6. Cell(off + 2^j, j) = {x \in Offsets : off + 2^j <= x /\ x < off + 2^(j + 1)}
      BY <2>5 DEF Cell
    <2>7. off <= off + 2^j /\ (off + 2^j) + 2^j <= off + 2^k
      BY <1>1, <1>3, <1>5
    <2>8. Cell(off + 2^j, j) \subseteq Cell(off, k)
      <3>1. j <= k /\ k \in Nat /\ j \in Nat
        BY <1>1
      <3>2. off + 2^j < off + 2^k
        BY <1>1, <1>3, <1>5
      <3>3. Aligned(off + 2^j, j) /\ Aligned(off, k)
        BY <1>1, <1>4
      <3> HIDE DEF k, cut
      <3> QED
        BY <2>7, <3>1, <3>2, <3>3, CellInside
    <2> QED
      BY <2>4, <2>6, <2>8
  <1>8. ASSUME NEW i \in cut, NEW j \in cut, i < j
        PROVE  off + 2^(i + 1) <= off + 2^j
    <2>1. i + 1 \in Nat /\ j \in Nat /\ i + 1 <= j
      BY <1>1, <1>8
    <2>2. 2^(i + 1) <= 2^j /\ 2^(i + 1) \in Nat /\ 2^j \in Nat
      BY <2>1, Powers
    <2> QED
      BY <1>1, <2>2
  <1>9. \A i, j \in cut : off + 2^i = off + 2^j => i = j
    <2> SUFFICES ASSUME NEW i \in cut, NEW j \in cut, i < j
                 PROVE  off + 2^i # off + 2^j
      BY <1>1, <1>2
    <2> QED
      BY <1>1, <1>3, <1>8
  <1>10. \A i, j \in cut : i # j => Cell(off + 2^i, i) \cap Cell(off + 2^j, j) = {}
    <2> SUFFICES ASSUME NEW i \in cut, NEW j \in cut, i < j
                 PROVE  Cell(off + 2^i, i) \cap Cell(off + 2^j, j) = {}
      <3>1. \A i, j \in cut : i # j => i < j \/ j < i
        BY <1>1
      <3> QED
        BY <3>1
    <2>1. off + 2^(i + 1) <= off + 2^j
      BY <1>8
    <2> HIDE DEF cut
    <2>2. off + 2^i \in Nat /\ off + 2^j \in Nat /\ off + 2^(i + 1) \in Nat
      BY <1>1, <1>3
    <2> QED
      BY <1>6, <1>7, <2>1, <2>2
  <1>11. Cell(off, want) \subseteq Cell(off, k)
    <2>1. Aligned(off, want) /\ Aligned(off, k) /\ want \in Nat /\ k \in Nat /\ want <= k
      BY <1>1, AlignedFiner
    <2>2. off <= off /\ off < off + 2^k
      BY <1>1, Powers
    <2> HIDE DEF k
    <2> QED
      BY <2>1, <2>2, CellInside
  <1>12. \A j \in cut : /\ Cell(off, want) \cap Cell(off + 2^j, j) = {}
                       /\ off \notin Cell(off + 2^j, j)
    <2> TAKE j \in cut
    <2>1. j \in Nat /\ want <= j
      BY <1>1
    <2>2. 2^want <= 2^j
      BY <1>1, <2>1, Powers
    <2>3. 2^j \in Nat \ {0}
      BY <1>3
    <2> DEFINE p == 2^j
               w == 2^want
    <2>4. p \in Nat \ {0} /\ w \in Nat /\ w <= p
      BY <1>5, <2>2, <2>3
    <2>5. /\ Cell(off, want) = {x \in Offsets : off <= x /\ x < off + w}
          /\ Cell(off + 2^j, j) = {x \in Offsets : off + p <= x /\ x < (off + p) + p}
      BY DEF Cell
    <2> HIDE DEF cut, p, w, k
    <2>6. off < off + p /\ \A x \in Nat : ~(x < off + w /\ off + p <= x)
      BY <1>1, <2>4
    <2>7. ~(off + p <= off)
      BY <1>1, <2>4
    <2> QED
      BY <1>6, <2>5, <2>6, <2>7
  <1>13. ASSUME NEW x \in Cell(off, k)
         PROVE  x \in Cell(off, want) \/ \E j \in cut : x \in Cell(off + 2^j, j)
    <2> DEFINE In == {j \in want .. k : x < off + 2^j}
    <2>1. x \in Offsets /\ x \in Nat /\ off <= x /\ x < off + 2^k
      BY <1>6 DEF Cell
    <2>2. PICK m \in In : \A j \in In : m <= j
      <3>1. In \in SUBSET Nat /\ k \in In
        BY <1>1, <2>1
      <3> HIDE DEF In
      <3> QED
        BY <3>1, LeastMember
    <2>3. m \in want .. k /\ x < off + 2^m
      BY <2>2
    <2>4. CASE m = want
      BY <2>1, <2>3, <2>4 DEF Cell
    <2>5. CASE m # want
      <3> DEFINE j == m - 1
      <3>1. j \in cut /\ m = j + 1 /\ ~(m <= j) /\ j \in want .. k
        BY <1>1, <2>3, <2>5
      <3> HIDE DEF j
      <3>2. ~(x < off + 2^j)
        BY <2>2, <3>1
      <3>3. off + 2^j <= x
        BY <1>1, <1>3, <2>1, <3>1, <3>2
      <3> QED
        BY <1>7, <2>1, <2>3, <3>1, <3>3
    <2> QED
      BY <2>4, <2>5
  <1> HIDE DEF cut
  <1>14. Cell(off, k) = UNION {Cell(b, ord2[b]) : b \in G}
    <2>1. \A b \in G : b = off \/ \E j \in cut : b = off + 2^j /\ ord2[b] = j
      BY DEF cut
    <2>2. \A b \in G : Cell(b, ord2[b]) \subseteq Cell(off, k)
      BY <1>7, <1>11, <2>1
    <2>3. \A x \in Cell(off, k) : \E b \in G : x \in Cell(b, ord2[b])
      <3> TAKE x \in Cell(off, k)
      <3>1. CASE x \in Cell(off, want)
        BY <3>1
      <3>2. CASE x \notin Cell(off, want)
        <4>1. PICK j \in cut : x \in Cell(off + 2^j, j)
          BY <1>13, <3>2
        <4>2. off + 2^j \in G /\ ord2[off + 2^j] = j
          BY DEF cut
        <4> QED
          BY <4>1, <4>2
      <3> QED
        BY <3>1, <3>2
    <2> HIDE DEF G
    <2> QED
      BY <2>2, <2>3
  <1>15. N \cap B = {}
    <2> SUFFICES ASSUME NEW j \in cut, off + 2^j \in B PROVE FALSE
      BY DEF cut
    <2>1. off + 2^j # off
      BY <1>1, <1>3
    <2>2. off + 2^j \in Cell(off + 2^j, ord[off + 2^j])
      BY TileFits
    <2>3. off + 2^j \in Cell(off, k)
      <3>1. j \in Nat /\ off + 2^j \in Nat /\ off + 2^j \in Offsets
        BY <1>1, <1>2, <1>3, <1>7
      <3>2. off + 2^j \in Cell(off + 2^j, j)
        BY <3>1, CellStart
      <3> QED
        BY <1>7, <3>2
    <2> QED
      BY <2>1, <2>2, <2>3 DEF Tiles
  <1>16. B \cup N \subseteq Offsets
    <2>1. N \subseteq Offsets
      BY <1>7 DEF cut
    <2> QED
      BY <2>1 DEF Tiles
  <1>17. \A b \in B \cup N : ord2[b] \in Orders /\ Aligned(b, ord2[b])
    <2>1. \A b \in N : ord2[b] \in Orders /\ Aligned(b, ord2[b])
      BY <1>2, <1>4 DEF cut
    <2>2. Aligned(off, want)
      BY <1>1, AlignedFiner
    <2>3. \A b \in B : ord2[b] \in Orders /\ Aligned(b, ord2[b])
      BY <2>2 DEF Tiles
    <2> QED
      BY <2>1, <2>3
  <1> DEFINE Rest == B \ {off}
  <1>18. /\ B \cup N = Rest \cup G /\ Rest \cap G = {}
         /\ \A b \in Rest : b \in B /\ b # off /\ ord2[b] = ord[b]
    BY <1>15
  <1>19. \A a, b \in G : a # b => Cell(a, ord2[a]) \cap Cell(b, ord2[b]) = {}
    <2> SUFFICES ASSUME NEW a \in G, NEW b \in G, a # b
                 PROVE  Cell(a, ord2[a]) \cap Cell(b, ord2[b]) = {}
      OBVIOUS
    <2>1. \A n \in N : \E j \in cut : n = off + 2^j /\ ord2[n] = j
      BY DEF cut
    <2>2. CASE a = off
      BY <1>12, <2>1, <2>2
    <2>3. CASE b = off
      BY <1>12, <2>1, <2>3
    <2>4. CASE a # off /\ b # off
      BY <1>10, <2>1, <2>4
    <2> QED
      BY <2>2, <2>3, <2>4
  <1> HIDE DEF Rest, G
  <1>20. \A a \in Rest : \A b \in G : Cell(a, ord2[a]) \cap Cell(b, ord2[b]) = {}
    <2>1. \A a \in Rest : Cell(a, ord2[a]) \cap Cell(off, k) = {}
      BY <1>18 DEF Tiles
    <2> QED
      BY <1>14, <2>1
  <1>21. \A a, b \in B \cup N : a # b => Cell(a, ord2[a]) \cap Cell(b, ord2[b]) = {}
    <2>1. \A a, b \in Rest : a # b => Cell(a, ord2[a]) \cap Cell(b, ord2[b]) = {}
      BY <1>18 DEF Tiles
    <2> QED
      BY <1>18, <1>19, <1>20, <2>1
  <1>22. UNION {Cell(b, ord2[b]) : b \in B \cup N} = Region
    <2>1. UNION {Cell(b, ord2[b]) : b \in B \cup N}
             = (UNION {Cell(b, ord2[b]) : b \in Rest}) \cup UNION {Cell(b, ord2[b]) : b \in G}
      BY <1>18
    <2>2. UNION {Cell(b, ord2[b]) : b \in Rest} = UNION {Cell(b, ord[b]) : b \in Rest}
      BY <1>18
    <2>3. (UNION {Cell(b, ord[b]) : b \in Rest}) \cup Cell(off, k)
             = UNION {Cell(b, ord[b]) : b \in B}
      <3>1. B = Rest \cup {off}
        BY DEF Rest
      <3> QED
        BY <3>1
    <2> QED
      BY <1>14, <2>1, <2>2, <2>3 DEF Tiles
  <1>23. Tiles(ord2, B \cup N)
    BY <1>16, <1>17, <1>21, <1>22 DEF Tiles
  <1> QED
    BY <1>9, <1>14, <1>15, <1>23 DEF G, cut

\* the seeds are disjoint, and together they are the region
LEMMA SeedTiles ==
    ASSUME ArenaAssumption, NEW ord, NEW B, B = {2^k : k \in Seeds},
           \A k \in Seeds : ord[2^k] = k
    PROVE  /\ Tiles(ord, B)
           /\ \A i, j \in Seeds : 2^i = 2^j => i = j
  <1> USE DEF Seeds
  <1>1. /\ StateOrder \in Nat /\ ArenaOrder \in Nat /\ MaxOrder \in Nat /\ MaxOrder + 1 = ArenaOrder
        /\ StateOrder <= MaxOrder /\ MinOrder \in Nat /\ MinOrder <= StateOrder
    BY OrderFacts
  <1>2. \A k \in Seeds : k \in Nat /\ k \in Orders /\ MinOrder <= k /\ k + 1 <= ArenaOrder
    BY <1>1, OrderFacts
  <1>3. \A x \in Offsets : x \in Nat
    BY OffsetsAre DEF Aligned
  <1>4. ASSUME NEW k \in Seeds
        PROVE  /\ 2^k \in Nat \ {0} /\ Aligned(2^k, k) /\ 2^k \in Offsets
               /\ Cell(2^k, k) = {x \in Offsets : 2^k <= x /\ x < 2^(k + 1)}
               /\ Cell(2^k, k) \subseteq Region
    <2>1. k \in Nat /\ k + 1 \in Nat /\ k + 1 <= ArenaOrder /\ k < ArenaOrder
          /\ StateOrder <= k /\ MinOrder <= k /\ k <= k
      BY <1>1, <1>2
    <2>2. 2^k \in Nat \ {0} /\ 2^(k + 1) = 2^k + 2^k
      <3>1. 2^k \in Nat \ {0} /\ 2^(k + 1) = 2 * 2^k
        BY <2>1, Powers
      <3> QED
        BY <3>1
    <2>3. Aligned(2^k, k) /\ Aligned(2^k, MinOrder)
      BY <1>1, <2>1, AlignedFiner
    <2>4. 2 * 2^k <= 2^ArenaOrder /\ 2^ArenaOrder \in Nat
      BY <1>1, <2>1, Powers
    <2>5. 2^k < ArenaSize
      BY <2>2, <2>4 DEF ArenaSize
    <2>6. 2^k \in Offsets
      BY <2>3, <2>5, OffsetsAre
    <2>7. Cell(2^k, k) = {x \in Offsets : 2^k <= x /\ x < 2^(k + 1)}
      BY <2>2 DEF Cell
    <2>8. 2^StateOrder <= 2^k /\ 2^StateOrder \in Nat
      BY <1>1, <2>1, Powers
    <2>9. Cell(2^k, k) \subseteq Region
      BY <1>3, <2>2, <2>7, <2>8 DEF Region, RegionOff
    <2> QED
      BY <2>2, <2>3, <2>6, <2>7, <2>9
  <1>5. ASSUME NEW i \in Seeds, NEW j \in Seeds, i < j
        PROVE  2^(i + 1) <= 2^j /\ 2^i < 2^j /\ 2^(i + 1) \in Nat
    <2>1. i + 1 \in Nat /\ i \in Nat /\ j \in Nat /\ i + 1 <= j
      BY <1>2, <1>5
    <2>2. 2^(i + 1) <= 2^j /\ 2^(i + 1) \in Nat /\ 2^(i + 1) = 2 * 2^i
      BY <2>1, Powers
    <2>3. 2^i \in Nat \ {0} /\ 2^j \in Nat
      BY <1>4
    <2> QED
      BY <2>2, <2>3
  <1>6. \A i, j \in Seeds : i # j => 2^i # 2^j /\ Cell(2^i, i) \cap Cell(2^j, j) = {}
    <2> SUFFICES ASSUME NEW i \in Seeds, NEW j \in Seeds, i < j
                 PROVE  2^i # 2^j /\ Cell(2^i, i) \cap Cell(2^j, j) = {}
      <3>1. \A i, j \in Seeds : i # j => i < j \/ j < i
        BY <1>2
      <3> QED
        BY <3>1
    <2>1. 2^(i + 1) <= 2^j /\ 2^i < 2^j /\ 2^(i + 1) \in Nat
      BY <1>5
    <2>2. 2^i \in Nat /\ 2^j \in Nat
      BY <1>4
    <2> DEFINE p == 2^i
               q == 2^j
               r == 2^(i + 1)
    <2>3. /\ Cell(2^i, i) = {x \in Offsets : p <= x /\ x < r}
          /\ Cell(2^j, j) = {x \in Offsets : q <= x /\ x < 2^(j + 1)}
      BY <1>4
    <2>4. p # q
      BY <2>1, <2>2
    <2> HIDE DEF p, q, r
    <2>5. \A x \in Nat : ~(x < r /\ q <= x)
      BY <2>1, <2>2 DEF q, r
    <2>6. Cell(2^i, i) \cap Cell(2^j, j) = {}
      BY <1>3, <2>3, <2>5
    <2> QED
      BY <2>4, <2>6 DEF p, q
  <1>7. ASSUME NEW x \in Region
        PROVE  \E k \in Seeds : x \in Cell(2^k, k)
    <2> DEFINE In == {j \in StateOrder .. ArenaOrder : x < 2^j}
    <2>1. x \in Offsets /\ x \in Nat /\ RegionOff <= x /\ x < ArenaSize
      BY <1>3, OffsetsAre DEF Region
    <2>2. PICK m \in In : \A j \in In : m <= j
      <3>1. In \in SUBSET Nat
        BY <1>1
      <3>2. ArenaOrder \in In
        BY <1>1, <2>1 DEF ArenaSize
      <3> HIDE DEF In
      <3> QED
        BY <3>1, <3>2, LeastMember
    <2>3. m \in StateOrder .. ArenaOrder /\ x < 2^m
      BY <2>2
    <2>4. m # StateOrder
      <3>1. RegionOff \in Nat
        BY OrderFacts
      <3> QED
        BY <2>1, <2>3, <3>1 DEF RegionOff
    <2> DEFINE k == m - 1
    <2>5. k \in Seeds /\ m = k + 1 /\ ~(m <= k) /\ k \in StateOrder .. ArenaOrder
      BY <1>1, <2>3, <2>4
    <2> HIDE DEF k
    <2>6. ~(x < 2^k)
      BY <2>2, <2>5
    <2>7. 2^k <= x
      <3>1. 2^k \in Nat
        BY <1>4, <2>5
      <3> QED
        BY <2>1, <2>6, <3>1
    <2>8. x \in Cell(2^k, k)
      BY <1>4, <2>1, <2>3, <2>5, <2>7
    <2> QED
      BY <2>5, <2>8
  <1> HIDE DEF Seeds
  <1>8. \A b \in B : \E k \in Seeds : b = 2^k /\ ord[b] = k
    OBVIOUS
  <1>9. B \subseteq Offsets
    BY <1>4, <1>8
  <1>10. \A b \in B : ord[b] \in Orders /\ Aligned(b, ord[b])
    BY <1>2, <1>4, <1>8
  <1>11. \A a, b \in B : a # b => Cell(a, ord[a]) \cap Cell(b, ord[b]) = {}
    BY <1>6, <1>8
  <1>12. UNION {Cell(b, ord[b]) : b \in B} = Region
    <2>1. \A b \in B : Cell(b, ord[b]) \subseteq Region
      BY <1>4, <1>8
    <2>2. \A x \in Region : \E b \in B : x \in Cell(b, ord[b])
      BY <1>7
    <2> QED
      BY <2>1, <2>2
  <1>13. Tiles(ord, B)
    BY <1>9, <1>10, <1>11, <1>12 DEF Tiles
  <1> QED
    BY <1>6, <1>13

\* only the orders of the blocks matter
LEMMA TilesSame ==
    ASSUME NEW ord, NEW ord2, NEW B, Tiles(ord, B), \A b \in B : ord2[b] = ord[b]
    PROVE  Tiles(ord2, B)
  <1>1. {Cell(b, ord2[b]) : b \in B} = {Cell(b, ord[b]) : b \in B}
    OBVIOUS
  <1> QED
    BY <1>1 DEF Tiles

\* blocks of a partition lie one after the other
LEMMA TilesApart ==
    ASSUME ArenaAssumption, NEW ord, NEW B, Tiles(ord, B), NEW a \in B, NEW b \in B, a # b
    PROVE  a + 2^ord[a] <= b \/ b + 2^ord[b] <= a
  <1>1. /\ a \in Offsets /\ a \in Nat /\ ord[a] \in Nat /\ a \in Cell(a, ord[a])
        /\ b \in Offsets /\ b \in Nat /\ ord[b] \in Nat /\ b \in Cell(b, ord[b])
    BY TileFits
  <1>2. b \notin Cell(a, ord[a]) /\ a \notin Cell(b, ord[b])
    BY <1>1 DEF Tiles
  <1>3. 2^ord[a] \in Nat /\ 2^ord[b] \in Nat
    BY <1>1, Powers
  <1> QED
    BY <1>1, <1>2, <1>3 DEF Cell

-----------------------------------------------------------------------------
(* Free lists: each holds a block once.                                    *)
LEMMA ListIs ==
    ASSUME NEW S, NEW s \in Seq(S)
    PROVE  /\ Len(s) \in Nat /\ DOMAIN s = 1 .. Len(s)
           /\ \A i \in 1 .. Len(s) : s[i] \in S /\ s[i] \in Range(s)
           /\ \A x \in Range(s) : x \in S /\ \E i \in 1 .. Len(s) : x = s[i]
           /\ s = <<>> <=> Range(s) = {}
  <1>1. Len(s) \in Nat /\ DOMAIN s = 1 .. Len(s) /\ \A i \in 1 .. Len(s) : s[i] \in S
    OBVIOUS
  <1>2. \A i \in 1 .. Len(s) : s[i] \in Range(s)
    BY <1>1 DEF Range
  <1>3. \A x \in Range(s) : x \in S /\ \E i \in 1 .. Len(s) : x = s[i]
    BY <1>1 DEF Range
  <1>4. CASE s = <<>>
    <2>1. Len(s) = 0
      BY <1>4
    <2> QED
      BY <1>1, <1>2, <1>3, <1>4, <2>1
  <1>5. CASE s # <<>>
    <2>1. 1 \in 1 .. Len(s)
      BY <1>5
    <2> QED
      BY <1>1, <1>2, <1>3, <1>5, <2>1
  <1> QED
    BY <1>4, <1>5

\* taking the head off a list
LEMMA ListPop ==
    ASSUME NEW S, NEW s \in Seq(S), s # <<>>, Distinct(s)
    PROVE  /\ Head(s) \in S /\ Head(s) \in Range(s)
           /\ Tail(s) \in Seq(S) /\ Distinct(Tail(s))
           /\ Range(Tail(s)) = Range(s) \ {Head(s)}
  <1> DEFINE t == Tail(s)
  <1>1. /\ Head(s) = s[1] /\ 1 \in 1 .. Len(s)
        /\ t \in Seq(S) /\ Len(t) = Len(s) - 1
        /\ \A i \in 1 .. Len(t) : t[i] = s[i + 1]
    BY HeadTailProperties
  <1>2. Len(s) \in Nat
    OBVIOUS
  <1> HIDE DEF t
  <1>3. \A i \in 1 .. Len(t) : i + 1 \in 1 .. Len(s) /\ i + 1 # 1
    BY <1>1, <1>2
  <1>4. Distinct(t)
    <2> SUFFICES ASSUME NEW i \in 1 .. Len(t), NEW j \in 1 .. Len(t), t[i] = t[j]
                 PROVE  i = j
      BY DEF Distinct
    <2>1. s[i + 1] = s[j + 1]
      BY <1>1
    <2>2. i + 1 = j + 1
      BY <1>3, <2>1 DEF Distinct
    <2> QED
      BY <1>1, <1>2, <2>2
  <1>5. \A x \in Range(t) : x \in Range(s) \ {Head(s)}
    <2> TAKE x \in Range(t)
    <2>1. PICK i \in 1 .. Len(t) : x = t[i]
      BY <1>1, ListIs
    <2>2. x = s[i + 1] /\ i + 1 \in 1 .. Len(s) /\ i + 1 # 1
      BY <1>1, <1>3, <2>1
    <2>3. s[i + 1] # s[1]
      BY <1>1, <2>2 DEF Distinct
    <2> QED
      BY <1>1, <2>2, <2>3, ListIs
  <1>6. \A x \in Range(s) \ {Head(s)} : x \in Range(t)
    <2> TAKE x \in Range(s) \ {Head(s)}
    <2>1. PICK i \in 1 .. Len(s) : x = s[i]
      BY ListIs
    <2>2. i # 1
      BY <1>1, <2>1
    <2> DEFINE h == i - 1
    <2>3. h \in 1 .. Len(t) /\ i = h + 1
      BY <1>1, <1>2, <2>2
    <2> HIDE DEF h
    <2>4. x = t[h]
      BY <1>1, <2>1, <2>3
    <2> QED
      BY <1>1, <2>3, <2>4, ListIs
  <1>7. Range(t) = Range(s) \ {Head(s)}
    BY <1>5, <1>6
  <1>8. Head(s) \in S /\ Head(s) \in Range(s)
    BY <1>1, ListIs
  <1> QED
    BY <1>1, <1>4, <1>7, <1>8 DEF t

\* pushing a block that is not on the list
LEMMA ListPush ==
    ASSUME NEW S, NEW s \in Seq(S), Distinct(s), NEW x \in S, x \notin Range(s)
    PROVE  /\ <<x>> \o s \in Seq(S) /\ Distinct(<<x>> \o s)
           /\ Range(<<x>> \o s) = Range(s) \cup {x}
  <1> DEFINE t == <<x>> \o s
  <1>1. <<x>> \in Seq(S) /\ Len(<<x>>) = 1 /\ <<x>>[1] = x
    OBVIOUS
  <1>2. Len(s) \in Nat
    OBVIOUS
  <1>3. /\ t \in Seq(S) /\ Len(t) = Len(s) + 1
        /\ \A i \in 1 .. Len(s) + 1 : t[i] = IF i <= 1 THEN <<x>>[i] ELSE s[i - 1]
    BY <1>1, <1>2, ConcatProperties
  <1> HIDE DEF t
  <1>4. 1 \in 1 .. Len(t) /\ t[1] = x
    BY <1>1, <1>2, <1>3
  <1>5. \A i \in 1 .. Len(t) : i # 1 => t[i] = s[i - 1] /\ i - 1 \in 1 .. Len(s)
    BY <1>2, <1>3
  <1>6. \A i \in 1 .. Len(t) : i # 1 => t[i] \in Range(s)
    BY <1>5, ListIs
  <1>7. Distinct(t)
    <2> SUFFICES ASSUME NEW i \in 1 .. Len(t), NEW j \in 1 .. Len(t), t[i] = t[j]
                 PROVE  i = j
      BY DEF Distinct
    <2>1. CASE i # 1 /\ j # 1
      <3>1. i - 1 = j - 1
        BY <1>5, <2>1 DEF Distinct
      <3> QED
        BY <1>2, <1>3, <3>1
    <2>2. CASE i = 1 \/ j = 1
      BY <1>4, <1>6, <2>2
    <2> QED
      BY <2>1, <2>2
  <1>8. \A y \in Range(t) : y \in Range(s) \cup {x}
    <2> TAKE y \in Range(t)
    <2>1. PICK i \in 1 .. Len(t) : y = t[i]
      BY <1>3, ListIs
    <2> QED
      BY <1>4, <1>6, <2>1
  <1>9. \A y \in Range(s) : y \in Range(t)
    <2> TAKE y \in Range(s)
    <2>1. PICK i \in 1 .. Len(s) : y = s[i]
      BY ListIs
    <2> DEFINE h == i + 1
    <2>2. h \in 1 .. Len(t) /\ h # 1 /\ h - 1 = i
      BY <1>2, <1>3
    <2> HIDE DEF h
    <2>3. y = t[h]
      BY <1>5, <2>1, <2>2
    <2> QED
      BY <1>3, <2>2, <2>3, ListIs
  <1>10. x \in Range(t)
    BY <1>3, <1>4, ListIs
  <1>11. Range(t) = Range(s) \cup {x}
    BY <1>8, <1>9, <1>10
  <1> QED
    BY <1>3, <1>7, <1>11 DEF t

\* removing a block that is on the list
LEMMA ListDrop ==
    ASSUME NEW S, NEW s \in Seq(S), Distinct(s), NEW x \in Range(s)
    PROVE  /\ RemoveFirst(s, x) \in Seq(S) /\ Distinct(RemoveFirst(s, x))
           /\ Range(RemoveFirst(s, x)) = Range(s) \ {x}
  <1> DEFINE I == {i \in 1 .. Len(s) : s[i] = x}
             m == Min(I)
             n == Len(s)
             a == SubSeq(s, 1, m - 1)
             b == SubSeq(s, m + 1, n)
             t == a \o b
  <1>1. I \in SUBSET Nat /\ I # {}
    <2>1. I \in SUBSET Nat
      OBVIOUS
    <2>2. \E i \in 1 .. Len(s) : x = s[i]
      BY ListIs
    <2> QED
      BY <2>1, <2>2
  <1>2. m \in 1 .. n /\ s[m] = x
    <2>1. m \in I
      <3> HIDE DEF I
      <3>1. \E j \in I : \A k \in I : j <= k
        BY <1>1, LeastMember
      <3> QED
        BY <3>1 DEF Min
    <2> HIDE DEF m
    <2> QED
      BY <2>1
  <1>3. RemoveFirst(s, x) = t
    <2>1. \E i \in 1 .. Len(s) : s[i] = x
      BY <1>2
    <2>2. I # {}
      BY <1>1
    <2>3. RemoveFirst(s, x) = RemoveAt(s, SelectInSeq(s, LAMBDA v : v = x))
      BY <2>1 DEF RemoveFirst
    <2>4. SelectInSeq(s, LAMBDA v : v = x) = m
      BY <2>2 DEF SelectInSeq
    <2> QED
      BY <2>3, <2>4 DEF RemoveAt
  <1>4. n \in Nat /\ \A i \in 1 .. n : s[i] \in S
    OBVIOUS
  <1> HIDE DEF I, m, n
  <1>5. /\ a \in Seq(S) /\ Len(a) = IF 1 <= m - 1 THEN (m - 1) - 1 + 1 ELSE 0
        /\ \A k \in 1 .. (m - 1) - 1 + 1 : a[k] = s[1 + k - 1]
    <2>1. 1 \in Int /\ m - 1 \in Int /\ \A k \in 1 .. m - 1 : s[k] \in S
      BY <1>2, <1>4
    <2> QED
      BY <2>1, SubSeqProperties
  <1>6. /\ b \in Seq(S) /\ Len(b) = IF m + 1 <= n THEN n - (m + 1) + 1 ELSE 0
        /\ \A k \in 1 .. n - (m + 1) + 1 : b[k] = s[(m + 1) + k - 1]
    <2>1. m + 1 \in Int /\ n \in Int /\ \A k \in m + 1 .. n : s[k] \in S
      BY <1>2, <1>4
    <2> QED
      BY <2>1, SubSeqProperties
  <1> HIDE DEF a, b
  <1>7. /\ t \in Seq(S) /\ Len(t) = Len(a) + Len(b)
        /\ \A k \in 1 .. Len(a) + Len(b) : t[k] = IF k <= Len(a) THEN a[k] ELSE b[k - Len(a)]
    BY <1>5, <1>6, ConcatProperties
  <1> HIDE DEF t
  <1>8. Len(a) = m - 1 /\ Len(b) = n - m
    BY <1>2, <1>4, <1>5, <1>6
  <1>9. /\ Len(t) = n - 1
        /\ \A k \in 1 .. n - 1 : t[k] = IF k <= m - 1 THEN a[k] ELSE b[k - (m - 1)]
    <2>1. Len(a) + Len(b) = n - 1
      BY <1>2, <1>4, <1>8
    <2> QED
      BY <1>7, <1>8, <2>1
  <1>10. ASSUME NEW k \in 1 .. n - 1
         PROVE  t[k] = s[IF k < m THEN k ELSE k + 1]
    <2>1. CASE k < m
      <3>1. k \in 1 .. (m - 1) - 1 + 1 /\ 1 + k - 1 = k /\ k <= m - 1
        BY <1>2, <1>4, <2>1
      <3> QED
        BY <1>5, <1>9, <2>1, <3>1
    <2>2. CASE ~(k < m)
      <3> DEFINE h == k - (m - 1)
      <3>1. h \in 1 .. n - (m + 1) + 1 /\ (m + 1) + h - 1 = k + 1 /\ ~(k <= m - 1)
        BY <1>2, <1>4, <2>2
      <3>2. t[k] = b[h]
        BY <1>9, <3>1
      <3> HIDE DEF h
      <3> QED
        BY <1>6, <2>2, <3>1, <3>2
    <2> QED
      BY <2>1, <2>2
  <1> DEFINE from(k) == IF k < m THEN k ELSE k + 1
  <1>11. \A k \in 1 .. n - 1 : t[k] = s[from(k)] /\ from(k) \in 1 .. n /\ from(k) # m
    BY <1>2, <1>4, <1>10
  <1>12. \A k, l \in 1 .. n - 1 : from(k) = from(l) => k = l
    BY <1>2, <1>4
  <1>13. \A i \in 1 .. n : i # m => \E k \in 1 .. n - 1 : from(k) = i
    <2> TAKE i \in 1 .. n
    <2> HAVE i # m
    <2>1. CASE i < m
      <3>1. i \in 1 .. n - 1 /\ from(i) = i
        BY <1>2, <1>4, <2>1
      <3> QED
        BY <3>1
    <2>2. CASE ~(i < m)
      <3> DEFINE h == i - 1
      <3>1. h \in 1 .. n - 1 /\ from(h) = i
        BY <1>2, <1>4, <2>2
      <3> QED
        BY <3>1
    <2> QED
      BY <2>1, <2>2
  <1> HIDE DEF from
  <1>14. \A i, j \in 1 .. n : s[i] = s[j] => i = j
    BY DEF Distinct, n
  <1>15. Distinct(t)
    BY <1>9, <1>11, <1>12, <1>14 DEF Distinct
  <1>16. \A y \in Range(t) : y \in Range(s) \ {x}
    <2> TAKE y \in Range(t)
    <2>1. PICK k \in 1 .. n - 1 : y = t[k]
      BY <1>7, <1>9, ListIs
    <2>2. y = s[from(k)] /\ from(k) \in 1 .. n /\ from(k) # m
      BY <1>11, <2>1
    <2>3. y # x
      BY <1>2, <1>14, <2>2
    <2> QED
      BY <2>2, <2>3, ListIs DEF n
  <1>17. \A y \in Range(s) \ {x} : y \in Range(t)
    <2> TAKE y \in Range(s) \ {x}
    <2>1. PICK i \in 1 .. n : y = s[i]
      BY ListIs DEF n
    <2>2. i # m
      BY <1>2, <2>1
    <2>3. PICK k \in 1 .. n - 1 : from(k) = i
      BY <1>13, <2>2
    <2>4. y = t[k]
      BY <1>11, <2>1, <2>3
    <2> QED
      BY <1>7, <1>9, <2>4, ListIs
  <1>18. Range(t) = Range(s) \ {x}
    BY <1>16, <1>17
  <1> QED
    BY <1>3, <1>7, <1>15, <1>18

\* a list is as long as it has blocks
LEMMA ListSize ==
    ASSUME NEW S, NEW s \in Seq(S), Distinct(s)
    PROVE  IsFiniteSet(Range(s)) /\ Cardinality(Range(s)) = Len(s)
  <1> DEFINE n == Len(s)
             D == 1 .. n
             R == Range(s)
  <1>1. n \in Nat /\ DOMAIN s = D
    OBVIOUS
  <1>2. IsFiniteSet(D) /\ Cardinality(D) = n
    <2>1. 1 \in Int /\ n \in Int
      BY <1>1
    <2> QED
      BY <1>1, <2>1, FS_Interval
  <1>3. \A i \in D : s[i] \in R
    BY ListIs
  <1>4. \A x \in R : \E i \in D : s[i] = x
    BY ListIs
  <1>5. s \in [D -> R]
    <2>1. s = [i \in DOMAIN s |-> s[i]]
      OBVIOUS
    <2> HIDE DEF D, R
    <2> QED
      BY <1>1, <1>3, <2>1
  <1>6. \A i, j \in D : s[i] = s[j] => i = j
    BY DEF Distinct
  <1> HIDE DEF D, R, n
  <1>7. s \in Bijection(D, R)
    BY <1>4, <1>5, <1>6 DEF Bijection, Injection, Surjection, IsInjective
  <1>8. ExistsBijection(D, R)
    BY <1>7 DEF ExistsBijection
  <1>9. IsFiniteSet(R) /\ Cardinality(R) = n
    BY <1>2, <1>8, FS_Bijection
  <1> QED
    BY <1>9 DEF R, n

-----------------------------------------------------------------------------
(* The bytes of some blocks.                                               *)
LEMMA OffsetsFinite ==
    ASSUME ArenaAssumption
    PROVE  /\ IsFiniteSet(Offsets)
           /\ IsFiniteSet(Region) /\ 2^MinOrder * Cardinality(Region) = ArenaSize - RegionOff
  <1>1. /\ Aligned(0, MinOrder) /\ Aligned(ArenaSize, MinOrder) /\ Aligned(RegionOff, MinOrder)
        /\ ArenaSize \in Nat /\ RegionOff \in Nat /\ RegionOff <= ArenaSize /\ MinOrder \in Nat
    BY OrderFacts, ZeroAligned
  <1>2. \A x \in Offsets : x \in Nat /\ x < ArenaSize
    BY OffsetsAre DEF Aligned
  <1>3. IsFiniteSet({o \in Offsets : 0 <= o /\ o < ArenaSize})
    <2>1. 0 <= ArenaSize /\ ArenaSize <= ArenaSize
      BY <1>1
    <2> QED
      BY <1>1, <2>1, SpanSize
  <1>4. Offsets = {o \in Offsets : 0 <= o /\ o < ArenaSize}
    BY <1>2
  <1>5. Region = {o \in Offsets : RegionOff <= o /\ o < ArenaSize}
    BY <1>1, <1>2 DEF Region
  <1>6. ArenaSize <= ArenaSize
    BY <1>1
  <1> DEFINE R == {o \in Offsets : RegionOff <= o /\ o < ArenaSize}
  <1>7. IsFiniteSet(R) /\ 2^MinOrder * Cardinality(R) = ArenaSize - RegionOff
    BY <1>1, <1>6, SpanSize
  <1> QED
    BY <1>3, <1>4, <1>5, <1>7

\* blocks take up a number of bytes
LEMMA WeightType ==
    ASSUME ArenaAssumption, NEW ord, NEW S
    PROVE  IsFiniteSet(Mass(ord, S)) /\ Weight(ord, S) \in Nat
  <1>1. Mass(ord, S) \in SUBSET Offsets
    BY DEF Mass, Cell
  <1>2. IsFiniteSet(Mass(ord, S))
    BY <1>1, OffsetsFinite, FS_Subset
  <1>3. Cardinality(Mass(ord, S)) \in Nat
    BY <1>2, FS_CardinalityType
  <1>4. 2^MinOrder \in Nat
    BY OrderFacts, Powers
  <1>5. \A a, b \in Nat : a * b \in Nat
    OBVIOUS
  <1> QED
    BY <1>2, <1>3, <1>4, <1>5 DEF Weight

\* the bytes depend on the orders of the blocks only
LEMMA WeightSame ==
    ASSUME NEW ord, NEW ord2, NEW S, \A b \in S : ord2[b] = ord[b]
    PROVE  Weight(ord2, S) = Weight(ord, S)
  BY DEF Weight, Mass

\* no blocks, no bytes
LEMMA WeightEmpty ==
    ASSUME NEW ord
    PROVE  Weight(ord, {}) = 0
  <1>1. Mass(ord, {}) = {}
    BY DEF Mass
  <1>2. Cardinality(Mass(ord, {})) = 0
    BY <1>1, FS_EmptySet
  <1>3. 2^MinOrder \in Nat
    BY Powers DEF MinOrder
  <1> QED
    BY <1>2, <1>3 DEF Weight

\* what is not held is free
LEMMA WeightRest ==
    ASSUME ArenaAssumption, NEW ord, NEW F, NEW H, Tiles(ord, F \cup H), F \cap H = {}
    PROVE  Weight(ord, F) + Weight(ord, H) = ArenaSize - RegionOff
  <1>1. Mass(ord, F) \cap Mass(ord, H) = {}
    <2>1. \A a \in F, b \in H : Cell(a, ord[a]) \cap Cell(b, ord[b]) = {}
      BY DEF Tiles
    <2> QED
      BY <2>1 DEF Mass
  <1>2. Mass(ord, F) \cup Mass(ord, H) = Region
    <2>1. UNION {Cell(b, ord[b]) : b \in F \cup H} = Region
      BY DEF Tiles
    <2>2. UNION {Cell(b, ord[b]) : b \in F \cup H} = Mass(ord, F) \cup Mass(ord, H)
      BY DEF Mass
    <2> QED
      BY <2>1, <2>2
  <1> DEFINE m == Mass(ord, F)
             n == Mass(ord, H)
             p == 2^MinOrder
  <1>3. IsFiniteSet(m) /\ IsFiniteSet(n) /\ Cardinality(m) \in Nat /\ Cardinality(n) \in Nat
    BY WeightType, FS_CardinalityType
  <1>4. Cardinality(m \cup n) = Cardinality(m) + Cardinality(n) - Cardinality(m \cap n)
    <2> HIDE DEF m, n
    <2> QED
      BY <1>3, FS_Union
  <1>5. Cardinality(m \cap n) = 0
    BY <1>1, FS_EmptySet
  <1>6. p * Cardinality(Region) = ArenaSize - RegionOff
    BY OffsetsFinite
  <1>7. p \in Nat
    BY OrderFacts, Powers
  <1>8. p * Cardinality(m) + p * Cardinality(n) = p * Cardinality(m \cup n)
    <2> HIDE DEF m, n, p
    <2>1. Cardinality(m \cup n) = Cardinality(m) + Cardinality(n)
      BY <1>3, <1>4, <1>5
    <2>2. \A x, y \in Nat : p * x + p * y = p * (x + y)
      BY <1>7
    <2> QED
      BY <1>3, <2>1, <2>2
  <1> QED
    BY <1>2, <1>6, <1>8 DEF Weight

\* one more block adds its size
LEMMA WeightAdd ==
    ASSUME ArenaAssumption, NEW ord, NEW B, Tiles(ord, B), NEW S \in SUBSET B, NEW x \in B \ S
    PROVE  Weight(ord, S \cup {x}) = Weight(ord, S) + 2^ord[x]
  <1> DEFINE m == Mass(ord, S)
             n == Cell(x, ord[x])
             p == 2^MinOrder
  <1>1. m \cap n = {}
    <2>1. \A a \in S : Cell(a, ord[a]) \cap n = {}
      BY DEF Tiles
    <2> QED
      BY <2>1 DEF Mass
  <1>2. Mass(ord, S \cup {x}) = m \cup n
    BY DEF Mass
  <1>3. IsFiniteSet(n) /\ p * Cardinality(n) = 2^ord[x]
    <2> DEFINE y == x + 2^ord[x]
    <2>1. /\ x \in Nat /\ ord[x] \in Nat /\ ord[x] \in Orders
          /\ Aligned(x, MinOrder) /\ y <= ArenaSize
      BY TileFits
    <2>2. 2^ord[x] \in Nat /\ MinOrder <= ord[x] /\ MinOrder \in Nat
      BY <2>1, OrderFacts, Powers
    <2>3. Aligned(y, MinOrder)
      BY <2>1, <2>2, AlignedFiner, AlignedSum
    <2>4. x <= y /\ y - x = 2^ord[x]
      BY <2>1, <2>2
    <2> HIDE DEF y
    <2> DEFINE T == {o \in Offsets : x <= o /\ o < y}
    <2>5. IsFiniteSet(T) /\ p * Cardinality(T) = y - x
      BY <2>1, <2>3, <2>4, SpanSize
    <2>6. n = T
      BY DEF Cell, y
    <2> QED
      BY <2>4, <2>5, <2>6
  <1>4. IsFiniteSet(m) /\ Cardinality(m) \in Nat /\ Cardinality(n) \in Nat
    BY <1>3, WeightType, FS_CardinalityType
  <1>5. Cardinality(m \cup n) = Cardinality(m) + Cardinality(n) - Cardinality(m \cap n)
    <2> HIDE DEF m, n
    <2> QED
      BY <1>3, <1>4, FS_Union
  <1>6. Cardinality(m \cap n) = 0
    BY <1>1, FS_EmptySet
  <1>7. p \in Nat
    BY OrderFacts, Powers
  <1>8. p * Cardinality(m \cup n) = p * Cardinality(m) + p * Cardinality(n)
    <2> HIDE DEF m, n, p
    <2>1. Cardinality(m \cup n) = Cardinality(m) + Cardinality(n)
      BY <1>4, <1>5, <1>6
    <2>2. \A a, b \in Nat : p * a + p * b = p * (a + b)
      BY <1>7
    <2> QED
      BY <1>4, <2>1, <2>2
  <1> QED
    BY <1>2, <1>3, <1>8 DEF Weight

-----------------------------------------------------------------------------
(* The inductive invariant: blocks tile the region, each header says which *)
(* list its block is on, no two buddies on a list, and counters add up.    *)
HeaderRecords == [magic : BOOLEAN, order : 0 .. ArenaOrder, in_use : BOOLEAN]

Ord == [o \in Offsets |-> hdr[o].order]

ListsOk ==
    /\ lists \in [Orders -> Seq(Offsets)]
    /\ \A k \in Orders : Distinct(lists[k]) /\ \A o \in OnList(k) : hdr[o] = FreeHeader(k)

HeldOk ==
    /\ DOMAIN held \subseteq Offsets
    /\ \A o \in DOMAIN held : /\ hdr[o].magic /\ hdr[o].in_use
                               /\ held[o] \in Nat /\ held[o] <= 2^hdr[o].order - Header

Counts(ord, F, H) ==
    [used_bytes |-> Weight(ord, H), free_bytes |-> Weight(ord, F),
     live_blocks |-> Cardinality(H), free_blocks |-> Cardinality(F)]

BuddyInv ==
    /\ hdr \in [Offsets -> HeaderRecords]
    /\ ListsOk
    /\ HeldOk
    /\ Tiles(Ord, FreeOffs \cup DOMAIN held)
    /\ FullyMerged
    /\ count = Counts(Ord, FreeOffs, DOMAIN held)

\* what the three kinds of header say
LEMMA HeaderIs ==
    ASSUME ArenaAssumption, NEW k \in Orders
    PROVE  /\ FreeHeader(k) \in HeaderRecords /\ UsedHeader(k) \in HeaderRecords
           /\ NoHeader \in HeaderRecords
           /\ FreeHeader(k).magic = TRUE /\ FreeHeader(k).in_use = FALSE /\ FreeHeader(k).order = k
           /\ UsedHeader(k).magic = TRUE /\ UsedHeader(k).in_use = TRUE /\ UsedHeader(k).order = k
  <1>1. k \in 0 .. ArenaOrder /\ 0 \in 0 .. ArenaOrder
    BY OrderFacts
  <1> QED
    BY <1>1 DEF FreeHeader, UsedHeader, NoHeader, HeaderRecords

\* what lists hold is free, and on the list of its order
LEMMA FreeIs ==
    ASSUME ArenaAssumption, ListsOk, HeldOk
    PROVE  /\ \A k \in Orders : \A o \in OnList(k) :
                 /\ o \in FreeOffs /\ o \in Offsets /\ Ord[o] = k /\ o \notin DOMAIN held
                 /\ hdr[o].magic /\ ~hdr[o].in_use
           /\ \A o \in FreeOffs : \E k \in Orders : o \in OnList(k)
           /\ FreeOffs \cap DOMAIN held = {}
           /\ FreeOffs \subseteq Offsets
           /\ IsFiniteSet(FreeOffs) /\ IsFiniteSet(DOMAIN held)
           /\ Cardinality(FreeOffs) \in Nat /\ Cardinality(DOMAIN held) \in Nat
           /\ \A o \in DOMAIN held : Ord[o] = hdr[o].order
  <1>1. \A k \in Orders : OnList(k) \subseteq Offsets
    <2> TAKE k \in Orders
    <2>1. lists[k] \in Seq(Offsets)
      BY DEF ListsOk
    <2> QED
      BY <2>1, ListIs DEF OnList
  <1>2. \A k \in Orders : \A o \in OnList(k) :
           o \in FreeOffs /\ o \in Offsets /\ Ord[o] = k /\ hdr[o].magic /\ ~hdr[o].in_use
    <2> TAKE k \in Orders
    <2> TAKE o \in OnList(k)
    <2>1. hdr[o] = FreeHeader(k)
      BY DEF ListsOk
    <2> QED
      BY <1>1, <2>1, HeaderIs DEF FreeOffs, Ord
  <1>3. \A o \in FreeOffs : \E k \in Orders : o \in OnList(k)
    BY DEF FreeOffs
  <1>4. FreeOffs \cap DOMAIN held = {}
    BY <1>2, <1>3 DEF HeldOk
  <1>5. FreeOffs \subseteq Offsets
    BY <1>2, <1>3
  <1>6. /\ IsFiniteSet(FreeOffs) /\ IsFiniteSet(DOMAIN held)
        /\ Cardinality(FreeOffs) \in Nat /\ Cardinality(DOMAIN held) \in Nat
    <2>1. DOMAIN held \in SUBSET Offsets /\ FreeOffs \in SUBSET Offsets
      BY <1>5 DEF HeldOk
    <2> QED
      BY <2>1, OffsetsFinite, FS_Subset, FS_CardinalityType
  <1>7. \A o \in DOMAIN held : Ord[o] = hdr[o].order
    BY DEF HeldOk, Ord
  <1>8. \A k \in Orders : \A o \in OnList(k) : o \notin DOMAIN held
    BY <1>2, <1>4
  <1> QED
    BY <1>2, <1>3, <1>4, <1>5, <1>6, <1>7, <1>8

\* the order an allocation is rounded up to
LEMMA OrderOfFits ==
    ASSUME ArenaAssumption, NEW n \in Nat, n <= 2^(ArenaOrder + 1)
    PROVE  /\ OrderOf(n) \in MinOrder .. ArenaOrder + 1
           /\ n <= 2^OrderOf(n)
  <1> DEFINE Fit == {k \in MinOrder .. ArenaOrder + 1 : n <= 2^k}
             Smallest(k) == 2^k >= n /\ \A j \in MinOrder .. (k - 1) : 2^j < n
  <1>1. MinOrder \in Nat /\ ArenaOrder \in Nat /\ MinOrder <= ArenaOrder
    BY OrderFacts
  <1>2. \A k \in MinOrder .. ArenaOrder + 1 : k \in Nat /\ 2^k \in Nat
    <2>1. \A k \in MinOrder .. ArenaOrder + 1 : k \in Nat
      BY <1>1
    <2> QED
      BY <2>1, Powers
  <1>3. PICK m \in Fit : \A k \in Fit : m <= k
    <2>1. Fit \in SUBSET Nat
      BY <1>1
    <2>2. ArenaOrder + 1 \in Fit
      BY <1>1
    <2> HIDE DEF Fit
    <2> QED
      BY <2>1, <2>2, LeastMember
  <1>4. m \in MinOrder .. ArenaOrder + 1 /\ n <= 2^m
    BY <1>3
  <1>5. \A j \in MinOrder .. (m - 1) : 2^j < n
    <2> TAKE j \in MinOrder .. (m - 1)
    <2>1. j \in MinOrder .. ArenaOrder + 1 /\ ~(m <= j)
      BY <1>1, <1>4
    <2>2. ~(n <= 2^j)
      BY <1>3, <2>1
    <2> QED
      BY <1>2, <2>1, <2>2
  <1>6. Smallest(m)
    <2>1. 2^m >= n
      BY <1>2, <1>4
    <2> QED
      BY <1>5, <2>1
  <1>7. OrderOf(n) = CHOOSE k \in MinOrder .. (ArenaOrder + 1) : Smallest(k)
    BY DEF OrderOf
  <1> HIDE DEF Smallest
  <1>8. OrderOf(n) \in MinOrder .. ArenaOrder + 1 /\ Smallest(OrderOf(n))
    BY <1>4, <1>6, <1>7
  <1>9. 2^OrderOf(n) >= n
    BY <1>8 DEF Smallest
  <1> QED
    BY <1>2, <1>8, <1>9

-----------------------------------------------------------------------------
(* An empty heap.  Blocks that tile the region with no buddies both there  *)
(* at one order are the seeds: a smallest block that is not one has a      *)
(* buddy in the region, and what lies there can neither be of its order    *)
(* nor smaller.                                                            *)
LEMMA OnlySeedsTile ==
    ASSUME ArenaAssumption, NEW ord, NEW B, Tiles(ord, B),
           \A b \in B : ord[b] < MaxOrder =>
               ~(Flip(b, ord[b]) \in B /\ ord[Flip(b, ord[b])] = ord[b])
    PROVE  /\ \A b \in B : b = 2^ord[b] /\ ord[b] \in Seeds
           /\ \A k \in Seeds : 2^k \in B /\ ord[2^k] = k
  <1> DEFINE odd == {b \in B : b # 2^ord[b]}
  <1>1. /\ StateOrder \in Nat /\ MaxOrder \in Nat /\ MinOrder \in Nat /\ ArenaOrder \in Nat
        /\ MaxOrder + 1 = ArenaOrder /\ MinOrder <= StateOrder
        /\ RegionOff = 2^StateOrder /\ ArenaSize = 2^ArenaOrder
        /\ RegionOff \in Nat \ {0} /\ ArenaSize \in Nat
        /\ Seeds = StateOrder .. MaxOrder /\ Seeds \subseteq Nat
    BY OrderFacts DEF RegionOff, ArenaSize, Seeds
  <1>2. odd = {}
    <2> SUFFICES ASSUME odd # {} PROVE FALSE
      OBVIOUS
    <2> DEFINE S == {ord[b] : b \in odd}
    <2>1. S \subseteq Nat /\ S # {}
      BY TileFits
    <2>2. PICK m \in S : \A k \in S : m <= k
      BY <2>1, LeastMember
    <2>3. PICK b \in odd : ord[b] = m
      BY <2>2
    <2> DEFINE n == m + 1
               c == Base(b, n)
               f == Flip(b, m)
    <2> HIDE DEF S
    <2>4. /\ b \in B /\ b # 2^m /\ m \in Nat /\ n \in Nat /\ b \in Nat /\ Aligned(b, m)
          /\ RegionOff <= b /\ b < ArenaSize
      BY <2>1, <2>2, <2>3, TileFits, OffsetsAre
    <2> HIDE DEF odd
    <2>5. 2^m \in Nat \ {0} /\ 2^n = 2 * 2^m /\ 2^n \in Nat \ {0}
      BY <2>4, Powers
    <2>6. 2^n <= b
      <3>1. Aligned(0, m) /\ Aligned(2^m, m)
        BY <2>4, ZeroAligned, AlignedFiner
      <3>2. 0 < b
        BY <1>1, <2>4
      <3>3. 0 + 2^m <= b
        BY <2>4, <3>1, <3>2, AlignedGap
      <3>4. 2^m < b
        BY <2>4, <2>5, <3>3
      <3>5. 2^m + 2^m <= b
        BY <2>4, <3>1, <3>4, AlignedGap
      <3> QED
        BY <2>5, <3>5
    <2>7. m < MaxOrder
      <3>1. ArenaOrder <= n => 2^ArenaOrder <= 2^n
        BY <1>1, <2>4, Powers
      <3> QED
        BY <1>1, <2>4, <2>5, <2>6, <3>1
    <2>8. /\ c \in Nat /\ Aligned(c, n) /\ c <= b /\ b < c + 2^n
      BY <2>4, BaseOf DEF Aligned
    <2>9. 2^n <= c
      <3>1. Aligned(2^n, n)
        BY <2>4, AlignedFiner
      <3>2. c < 2^n => c + 2^n <= 2^n
        BY <2>4, <2>8, <3>1, AlignedGap
      <3> QED
        BY <2>4, <2>5, <2>6, <2>8, <3>2
    <2>10. RegionOff <= c
      <3>1. CASE StateOrder <= n
        <4>1. 2^StateOrder <= 2^n
          BY <1>1, <2>4, <3>1, Powers
        <4> QED
          BY <1>1, <2>5, <2>8, <2>9, <4>1
      <3>2. CASE n <= StateOrder
        <4>1. Aligned(RegionOff, n)
          BY <1>1, <2>4, <3>2, AlignedFiner
        <4>2. c < RegionOff => c + 2^n <= RegionOff
          BY <2>4, <2>8, <4>1, AlignedGap
        <4> QED
          BY <1>1, <2>4, <2>5, <2>8, <4>2
      <3>3. StateOrder <= n \/ n <= StateOrder
        BY <1>1, <2>4
      <3> QED
        BY <3>1, <3>2, <3>3
    <2>11. f \in Nat /\ c <= f
      <3>1. Aligned(f, m) /\ (f = c \/ f = c + 2^m)
        BY <2>4, FlipOf
      <3> QED
        BY <2>5, <2>8, <3>1 DEF Aligned
    <2>12. Bud(b, m) = f
      <3>1. b <= b /\ b < b + 2^m
        BY <2>4, <2>5
      <3>2. b = Base(b, m)
        BY <2>4, <3>1, BaseOf
      <3> QED
        BY <3>2 DEF Bud
    <2> HIDE DEF f, c, n
    <2>13. f \in B /\ ord[f] <= m /\ ord[f] \in Nat
      <3>1. RegionOff <= Bud(b, m) /\ ord[b] <= m
        BY <1>1, <2>3, <2>4, <2>8, <2>10, <2>11, <2>12
      <3>2. f \in B /\ ord[f] <= m
        BY <2>4, <2>7, <2>12, <3>1, BuddyIsBlock
      <3> QED
        BY <3>2, TileFits
    <2>14. ord[f] # m
      BY <2>3, <2>4, <2>7, <2>13 DEF f
    <2>15. f # 2^ord[f]
      <3>1. 2^ord[f] <= 2^m
        BY <2>4, <2>13, Powers
      <3>2. 2^ord[f] \in Nat
        BY <2>13, PowerType
      <3> QED
        BY <2>5, <2>8, <2>9, <2>11, <3>1, <3>2
    <2>16. ord[f] \in S
      BY <2>13, <2>15 DEF S, odd
    <2> QED
      BY <2>2, <2>4, <2>13, <2>14, <2>16
  <1>3. ASSUME NEW b \in B PROVE b = 2^ord[b] /\ ord[b] \in Seeds
    <2>1. b = 2^ord[b]
      BY <1>2
    <2>2. ord[b] \in Nat /\ ord[b] <= MaxOrder /\ RegionOff <= b
      BY TileFits, OrderFacts
    <2>3. 2^ord[b] \in Nat \ {0}
      BY <2>2, PowerType
    <2>4. ord[b] < StateOrder => 2 * 2^ord[b] <= 2^StateOrder
      BY <1>1, <2>2, Powers
    <2> QED
      BY <1>1, <2>1, <2>2, <2>3, <2>4
  <1>4. ASSUME NEW k \in Seeds PROVE 2^k \in B /\ ord[2^k] = k
    <2>1. k \in Nat /\ StateOrder <= k /\ k < ArenaOrder /\ MinOrder <= k
      BY <1>1
    <2>2. 2^k \in Nat \ {0} /\ 2^StateOrder <= 2^k /\ 2 * 2^k <= 2^ArenaOrder
      BY <1>1, <2>1, Powers
    <2>3. Aligned(2^k, MinOrder)
      BY <1>1, <2>1, AlignedFiner
    <2>4. 2^k < ArenaSize
      BY <1>1, <2>2
    <2>5. 2^k \in Region
      BY <1>1, <2>2, <2>3, <2>4, OffsetsAre DEF Region
    <2>6. PICK b \in B : 2^k \in Cell(b, ord[b])
      BY <2>5 DEF Tiles
    <2>7. b = 2^ord[b] /\ ord[b] \in Nat /\ b <= 2^k /\ 2^k < b + 2^ord[b]
      BY <1>1, <1>3, <2>6 DEF Cell
    <2>8. 2^ord[b] \in Nat \ {0}
      BY <2>7, PowerType
    <2>9. ord[b] < k => 2 * 2^ord[b] <= 2^k
      BY <2>1, <2>7, Powers
    <2>10. k < ord[b] => 2 * 2^k <= 2^ord[b]
      BY <2>1, <2>7, Powers
    <2>11. ~(ord[b] < k) /\ ~(k < ord[b])
      BY <2>2, <2>7, <2>8, <2>9, <2>10
    <2>12. ord[b] = k
      BY <2>1, <2>7, <2>11
    <2> QED
      BY <2>7, <2>12
  <1> QED
    BY <1>3, <1>4

\* a list without repeats whose only member is x
LEMMA ListOfOne ==
    ASSUME NEW S, NEW s \in Seq(S), NEW x, Distinct(s), Range(s) = {x}
    PROVE  s = <<x>>
  <1>1. Len(s) \in Nat /\ DOMAIN s = 1 .. Len(s) /\ s # <<>>
    BY ListIs
  <1>2. \A i \in 1 .. Len(s) : s[i] = x
    BY ListIs
  <1>3. Len(s) # 0
    BY <1>1
  <1>4. Len(s) = 1
    <2> SUFFICES ASSUME Len(s) # 1 PROVE FALSE
      OBVIOUS
    <2>1. 1 \in 1 .. Len(s) /\ 2 \in 1 .. Len(s)
      BY <1>1, <1>3
    <2> QED
      BY <1>2, <2>1 DEF Distinct
  <1> QED
    BY <1>2, <1>4

\* with nothing held the free blocks are the seeds, each alone on its list
LEMMA EmptyIsSeeded ==
    ASSUME ArenaAssumption, BuddyInv
    PROVE  EmptyHeapIsSeeded
  <1> SUFFICES ASSUME DOMAIN held = {}
               PROVE  lists = [k \in Orders |-> IF k \in Seeds THEN <<2^k>> ELSE <<>>]
    BY DEF EmptyHeapIsSeeded, Seeded
  <1>1. ListsOk /\ HeldOk /\ FullyMerged
    BY DEF BuddyInv
  <1>2. Tiles(Ord, FreeOffs)
    <2>1. FreeOffs \cup DOMAIN held = FreeOffs
      OBVIOUS
    <2> QED
      BY <2>1 DEF BuddyInv
  <1>3. \A o \in FreeOffs : Ord[o] \in Orders /\ o \in OnList(Ord[o])
    BY <1>1, FreeIs
  <1>4. ASSUME NEW b \in FreeOffs, Ord[b] < MaxOrder
        PROVE  ~(Flip(b, Ord[b]) \in FreeOffs /\ Ord[Flip(b, Ord[b])] = Ord[b])
    <2>1. Ord[b] \in MinOrder .. (MaxOrder - 1) /\ b \in OnList(Ord[b])
      BY <1>3, <1>4 DEF Orders, MaxOrder, ArenaAssumption
    <2>2. Flip(b, Ord[b]) \notin OnList(Ord[b])
      BY <1>1, <2>1 DEF FullyMerged
    <2> QED
      BY <1>3, <2>2
  <1>5. /\ \A b \in FreeOffs : b = 2^Ord[b] /\ Ord[b] \in Seeds
        /\ \A k \in Seeds : 2^k \in FreeOffs /\ Ord[2^k] = k
    <2> HIDE DEF Ord, FreeOffs
    <2> QED
      BY <1>2, <1>4, OnlySeedsTile
  <1>6. ASSUME NEW k \in Orders
        PROVE  lists[k] = IF k \in Seeds THEN <<2^k>> ELSE <<>>
    <2>1. lists[k] \in Seq(Offsets) /\ Distinct(lists[k])
      BY <1>1 DEF ListsOk
    <2>2. \A o \in OnList(k) : o = 2^k /\ k \in Seeds
      BY <1>1, <1>5, FreeIs
    <2>3. CASE k \in Seeds
      <3>1. 2^k \in OnList(k)
        BY <1>3, <1>5, <2>3
      <3>2. Range(lists[k]) = {2^k}
        BY <2>2, <3>1 DEF OnList
      <3> QED
        BY <2>1, <2>3, <3>2, ListOfOne
    <2>4. CASE k \notin Seeds
      <3>1. Range(lists[k]) = {}
        BY <2>2, <2>4 DEF OnList
      <3> QED
        BY <2>1, <2>4, <3>1, ListIs
    <2> QED
      BY <2>3, <2>4
  <1>7. lists \in [Orders -> Seq(Offsets)]
    BY <1>1 DEF ListsOk
  <1> QED
    BY <1>6, <1>7

-----------------------------------------------------------------------------
\* the invariant says what the run checks
LEMMA InvCovers ==
    ASSUME ArenaAssumption, BuddyInv
    PROVE  ListsCoverHeap /\ MergedAndCounted
  <1> DEFINE F == FreeOffs
             H == DOMAIN held
             B == F \cup H
  <1>0. ListsOk /\ HeldOk /\ Tiles(Ord, B) /\ hdr \in [Offsets -> HeaderRecords]
        /\ count = Counts(Ord, F, H)
    BY DEF BuddyInv
  <1>1. /\ F \cap H = {} /\ F \subseteq Offsets /\ H \subseteq Offsets
        /\ Cardinality(F) \in Nat /\ Cardinality(H) \in Nat
    BY <1>0, FreeIs DEF HeldOk
  <1>2. Weight(Ord, F) \in Nat /\ Weight(Ord, H) \in Nat
        /\ Weight(Ord, F) + Weight(Ord, H) = ArenaSize - RegionOff
    BY <1>0, <1>1, WeightType, WeightRest
  <1>3. BuddyTypeOK
    <2>1. count \in [{"used_bytes", "free_bytes", "live_blocks", "free_blocks"} -> Nat]
      <3> HIDE DEF F, H
      <3> QED
        BY <1>0, <1>1, <1>2 DEF Counts
    <2> QED
      BY <1>0, <2>1 DEF BuddyTypeOK, ListsOk, HeldOk, HeaderRecords
  <1>4. \A o \in Offsets : Block(o) = Cell(o, Ord[o])
    BY DEF Block, Cell, Ord
  <1>5. Partition
    <2>1. Blocks = B
      BY DEF Blocks
    <2>2. B \subseteq Offsets
      BY <1>1
    <2>3. {Block(o) : o \in B} = {Cell(o, Ord[o]) : o \in B}
      BY <1>4, <2>2
    <2>4. UNION {Block(o) : o \in B} = Region
      BY <1>0, <2>3 DEF Tiles
    <2>5. \A a, b \in B : a # b => Block(a) \cap Block(b) = {}
      BY <1>0, <1>4, <2>2 DEF Tiles
    <2>6. \A o \in B : o % 2^hdr[o].order = 0
      <3>1. \A o \in B : Aligned(o, Ord[o]) /\ Ord[o] = hdr[o].order
        BY <1>0, <2>2 DEF Tiles, Ord
      <3> QED
        BY <3>1 DEF Aligned
    <2> HIDE DEF B
    <2> QED
      BY <2>1, <2>4, <2>5, <2>6 DEF Partition, Region
  <1>6. ListsMatchHeaders
    <2>1. ASSUME NEW k \in Orders
          PROVE  /\ \A o \in OnList(k) : hdr[o] = FreeHeader(k)
                 /\ Cardinality(OnList(k)) = Len(lists[k])
      <3>1. /\ lists[k] \in Seq(Offsets) /\ Distinct(lists[k])
            /\ \A o \in OnList(k) : hdr[o] = FreeHeader(k)
        BY <1>0 DEF ListsOk
      <3> QED
        BY <3>1, ListSize DEF OnList
    <2> QED
      BY <1>0, <2>1 DEF ListsMatchHeaders, HeldOk, BuddyUsableSize
  <1>7. \A S \in SUBSET Offsets : Bytes(S) = Weight(Ord, S)
    <2> TAKE S \in SUBSET Offsets
    <2>1. {Block(o) : o \in S} = {Cell(b, Ord[b]) : b \in S}
      BY <1>4
    <2> QED
      BY <2>1 DEF Bytes, Weight, Mass
  <1>8. CountersExact
    <2>1. Bytes(F) = Weight(Ord, F) /\ Bytes(H) = Weight(Ord, H)
      BY <1>1, <1>7
    <2>2. /\ count.used_bytes = Weight(Ord, H) /\ count.free_bytes = Weight(Ord, F)
          /\ count.live_blocks = Cardinality(H) /\ count.free_blocks = Cardinality(F)
      <3> HIDE DEF F, H
      <3> QED
        BY <1>0 DEF Counts
    <2>3. count.used_bytes + count.free_bytes = ArenaSize - RegionOff
      BY <1>2, <2>2
    <2> QED
      BY <2>1, <2>2, <2>3 DEF CountersExact
  <1> QED
    BY <1>3, <1>5, <1>6, <1>8, EmptyIsSeeded DEF ListsCoverHeap, MergedAndCounted, BuddyInv

-----------------------------------------------------------------------------
(* The specification.                                                      *)
\* the seeds satisfy the invariant
LEMMA InitInv ==
    ASSUME ArenaAssumption, BuddyInit
    PROVE  BuddyInv
  <1> DEFINE F == {2^k : k \in Seeds}
  <1>1. Seeds \subseteq Orders /\ Orders \subseteq Nat
    BY OrderFacts
  <1>2. DOMAIN held = {}
    BY DEF BuddyInit
  <1>3. \A k \in Orders : lists[k] = IF k \in Seeds THEN <<2^k>> ELSE <<>>
    BY DEF BuddyInit
  <1>4. /\ \A i, j \in Seeds : 2^i = 2^j => i = j
        /\ F \subseteq Offsets
    <2> DEFINE ordc == [o \in F |-> (CHOOSE k \in Seeds : o = 2^k)]
    <2>1. \A i, j \in Seeds : 2^i = 2^j => i = j
      <3> SUFFICES ASSUME NEW i \in Seeds, NEW j \in Seeds, i < j
                   PROVE  2^i # 2^j
        BY <1>1
      <3>1. i \in Nat /\ j \in Nat
        BY <1>1
      <3>2. 2 * 2^i <= 2^j /\ 2^i \in Nat \ {0} /\ 2^j \in Nat
        BY <3>1, Powers
      <3> QED
        BY <3>2
    <2>2. \A k \in Seeds : ordc[2^k] = k
      <3> TAKE k \in Seeds
      <3>1. 2^k \in F
        OBVIOUS
      <3>2. ordc[2^k] = CHOOSE i \in Seeds : 2^k = 2^i
        BY <3>1
      <3> QED
        BY <2>1, <3>2
    <2> HIDE DEF ordc
    <2>3. Tiles(ordc, F)
      BY <2>2, SeedTiles
    <2> QED
      BY <2>1, <2>3 DEF Tiles
  <1>5. \A k \in Seeds : hdr[2^k] = FreeHeader(k)
    <2> TAKE k \in Seeds
    <2>1. 2^k \in Offsets
      BY <1>4
    <2>2. hdr[2^k] = FreeHeader(CHOOSE i \in Seeds : 2^k = 2^i)
      BY <2>1 DEF BuddyInit
    <2>3. (CHOOSE i \in Seeds : 2^k = 2^i) = k
      BY <1>4
    <2> QED
      BY <2>2, <2>3
  <1>6. \A k \in Seeds : Ord[2^k] = k
    <2> TAKE k \in Seeds
    <2>1. 2^k \in Offsets /\ FreeHeader(k).order = k
      BY <1>4 DEF FreeHeader
    <2> QED
      BY <1>5, <2>1 DEF Ord
  <1>7. Tiles(Ord, F)
    BY <1>6, SeedTiles
  <1>8. hdr \in [Offsets -> HeaderRecords]
    <2>1. \A o \in Offsets : (\E k \in Seeds : o = 2^k) => hdr[o] \in HeaderRecords
      <3>1. \A k \in Seeds : FreeHeader(k) \in HeaderRecords
        BY <1>1, HeaderIs
      <3>2. \A k \in Seeds : hdr[2^k] \in HeaderRecords
        BY <1>5, <3>1
      <3> QED
        BY <3>2
    <2>2. \A o \in Offsets : ~(\E k \in Seeds : o = 2^k) => hdr[o] = NoHeader
      BY DEF BuddyInit
    <2>3. NoHeader \in HeaderRecords
      <3>1. 0 \in 0 .. ArenaOrder
        BY OrderFacts
      <3> QED
        BY <3>1 DEF NoHeader, HeaderRecords
    <2>4. hdr = [o \in Offsets |-> hdr[o]]
      BY DEF BuddyInit
    <2> QED
      BY <2>1, <2>2, <2>3, <2>4
  <1>9. \A k \in Orders : /\ OnList(k) = IF k \in Seeds THEN {2^k} ELSE {}
                          /\ Distinct(lists[k]) /\ lists[k] \in Seq(Offsets)
    <2> TAKE k \in Orders
    <2>1. CASE k \in Seeds
      <3>1. lists[k] = <<2^k>> /\ 2^k \in Offsets
        BY <1>3, <1>4, <2>1
      <3>2. Len(lists[k]) = 1 /\ DOMAIN lists[k] = {1} /\ lists[k][1] = 2^k
        BY <3>1
      <3>3. OnList(k) = {2^k}
        BY <3>2 DEF OnList, Range
      <3>4. Distinct(lists[k])
        BY <3>2 DEF Distinct
      <3> QED
        BY <2>1, <3>1, <3>3, <3>4
    <2>2. CASE k \notin Seeds
      <3>1. lists[k] = <<>>
        BY <1>3, <2>2
      <3>2. Len(lists[k]) = 0 /\ DOMAIN lists[k] = {}
        BY <3>1
      <3>3. OnList(k) = {}
        BY <3>2 DEF OnList, Range
      <3>4. Distinct(lists[k])
        BY <3>2 DEF Distinct
      <3> QED
        BY <2>2, <3>1, <3>3, <3>4
    <2> QED
      BY <2>1, <2>2
  <1>10. FreeOffs = F
    BY <1>1, <1>9 DEF FreeOffs
  <1>11. ListsOk
    <2>1. lists \in [Orders -> Seq(Offsets)]
      <3>1. lists = [k \in Orders |-> lists[k]]
        BY DEF BuddyInit
      <3> QED
        BY <1>9, <3>1
    <2>2. \A k \in Orders : \A o \in OnList(k) : hdr[o] = FreeHeader(k)
      BY <1>5, <1>9
    <2> QED
      BY <1>9, <2>1, <2>2 DEF ListsOk
  <1>12. HeldOk
    BY <1>2 DEF HeldOk
  <1>13. FullyMerged
    <2> SUFFICES ASSUME NEW k \in MinOrder .. (MaxOrder - 1), NEW o \in OnList(k)
                 PROVE  Flip(o, k) \notin OnList(k)
      BY DEF FullyMerged
    <2>1. k \in Orders /\ k \in Nat
      BY OrderFacts DEF Orders
    <2>2. k \in Seeds /\ o = 2^k /\ OnList(k) = {2^k}
      BY <1>9, <2>1
    <2>3. Aligned(o, k)
      BY <1>6, <1>7, <2>2 DEF Tiles
    <2> QED
      BY <2>1, <2>2, <2>3, FlipBack
  <1>14. count = Counts(Ord, F, {})
    <2>1. Weight(Ord, {}) = 0
      BY WeightEmpty
    <2>2. Weight(Ord, F) = ArenaSize - RegionOff
      <3>1. F \cup {} = F /\ F \cap {} = {}
        OBVIOUS
      <3>2. Weight(Ord, F) \in Nat
        BY WeightType
      <3> HIDE DEF F
      <3>3. Weight(Ord, F) + Weight(Ord, {}) = ArenaSize - RegionOff
        BY <1>7, <3>1, WeightRest
      <3> QED
        BY <2>1, <3>2, <3>3
    <2>3. Cardinality({}) = 0
      BY FS_EmptySet
    <2>4. Cardinality(F) = Cardinality(Seeds)
      <3>1. IsFiniteSet(Seeds)
        <4>1. StateOrder \in Int /\ MaxOrder \in Int
          BY OrderFacts
        <4> QED
          BY <4>1, FS_Interval DEF Seeds
      <3> DEFINE f == [k \in Seeds |-> 2^k]
      <3>2. f \in [Seeds -> F] /\ \A k \in Seeds : f[k] = 2^k
        OBVIOUS
      <3>3. \A o \in F : \E k \in Seeds : f[k] = o
        OBVIOUS
      <3>4. \A i, j \in Seeds : f[i] = f[j] => i = j
        BY <1>4, <3>2
      <3> HIDE DEF f, F
      <3>5. f \in Bijection(Seeds, F)
        BY <3>2, <3>3, <3>4 DEF Bijection, Injection, Surjection, IsInjective
      <3>6. ExistsBijection(Seeds, F)
        BY <3>5 DEF ExistsBijection
      <3> QED
        BY <3>1, <3>6, FS_Bijection
    <2> HIDE DEF F
    <2> QED
      BY <2>1, <2>2, <2>3, <2>4 DEF BuddyInit, Counts
  <1>15. F \cup {} = F
    OBVIOUS
  <1> HIDE DEF F
  <1> QED
    BY <1>2, <1>7, <1>8, <1>10, <1>11, <1>12, <1>13, <1>14, <1>15 DEF BuddyInv

-----------------------------------------------------------------------------
(* buddy_alloc.                                                            *)
LEMMA PowersApart ==
    ASSUME NEW i \in Nat, NEW j \in Nat, 2^i = 2^j
    PROVE  i = j
  <1> SUFFICES ASSUME NEW a \in Nat, NEW b \in Nat, a < b, 2^a = 2^b PROVE FALSE
    OBVIOUS
  <1>1. 2 * 2^a <= 2^b /\ 2^a \in Nat \ {0} /\ 2^b \in Nat
    BY Powers
  <1> QED
    BY <1>1

\* where the halves of a block start
LEMMA HalvesAre ==
    ASSUME ArenaAssumption, NEW ord, NEW B, Tiles(ord, B), NEW off \in B,
           NEW want \in Orders, NEW j \in want .. ord[off] - 1
    PROVE  /\ j \in Orders /\ off + 2^j \in Offsets /\ off + 2^j # off
           /\ \A i \in want .. ord[off] - 1 : off + 2^i = off + 2^j => i = j
  <1> DEFINE k == ord[off]
  <1>1. /\ off \in Nat /\ k \in Nat /\ k \in Orders
        /\ Aligned(off, MinOrder) /\ off + 2^k <= ArenaSize
        /\ want \in Nat /\ MinOrder \in Nat /\ MinOrder <= want /\ MaxOrder \in Nat /\ k <= MaxOrder
        /\ ArenaSize \in Nat
    BY TileFits, OrderFacts
  <1>2. j \in Nat /\ j < k /\ MinOrder <= j /\ j <= MaxOrder /\ want .. k - 1 \subseteq Nat
    BY <1>1
  <1>3. j \in Orders
    BY <1>1, <1>2 DEF Orders
  <1>4. 2^j \in Nat \ {0} /\ 2 * 2^j <= 2^k /\ 2^k \in Nat
    BY <1>1, <1>2, Powers
  <1>5. Aligned(off + 2^j, MinOrder)
    BY <1>1, <1>2, AlignedFiner, AlignedSum
  <1>6. off + 2^j < ArenaSize /\ off + 2^j # off
    BY <1>1, <1>4
  <1>7. off + 2^j \in Offsets
    BY <1>5, <1>6, OffsetsAre
  <1>8. \A i \in want .. k - 1 : off + 2^i = off + 2^j => i = j
    <2> TAKE i \in want .. k - 1
    <2> HAVE off + 2^i = off + 2^j
    <2>1. i \in Nat /\ 2^i \in Nat
      BY <1>2, Powers
    <2>2. 2^i = 2^j
      BY <1>1, <1>4, <2>1
    <2> QED
      BY <1>2, <2>1, <2>2, PowersApart
  <1> QED
    BY <1>3, <1>6, <1>7, <1>8

\* the block an allocation takes, and the order it keeps of it
LEMMA AllocTakes ==
    ASSUME ArenaAssumption, BuddyRequestAssumption, BuddyInv,
           NEW size \in BuddySizes, NEW k \in Orders, BuddyAlloc(size, k),
           NEW want, want = OrderOf(size + Header),
           NEW off, off = Head(lists[k])
    PROVE  /\ want \in Orders /\ want <= k /\ size \in Nat /\ size <= 2^want - Header
           /\ lists[k] \in Seq(Offsets) /\ lists[k] # <<>> /\ off \in OnList(k)
           /\ off \in FreeOffs /\ off \in Offsets /\ Ord[off] = k /\ off \notin DOMAIN held
           /\ \A j \in want .. k - 1 : j \in Orders /\ lists[j] = <<>>
  <1>1. size \in Nat
    BY DEF BuddyRequestAssumption
  <1>2. /\ MinOrder \in Nat /\ MaxOrder \in Nat /\ ArenaOrder \in Nat /\ MaxOrder + 1 = ArenaOrder
        /\ k \in Nat /\ k <= MaxOrder /\ ArenaSize \in Nat
    BY OrderFacts
  <1>3. /\ size <= ArenaSize /\ k \in want .. MaxOrder /\ lists[k] # <<>>
        /\ \A j \in want .. (k - 1) : lists[j] = <<>>
    BY DEF BuddyAlloc, ServedFrom
  <1>4. size + Header \in Nat /\ size + Header <= 2^(ArenaOrder + 1) /\ Header = 16
    <2>1. /\ 2^(ArenaOrder + 1) = 2 * 2^ArenaOrder /\ 2^ArenaOrder \in Nat
          /\ 2^MinOrder <= 2^ArenaOrder
      BY <1>2, OrderFacts, Powers
    <2>2. 2^MinOrder = 32
      BY DEF MinOrder
    <2> QED
      BY <1>1, <1>2, <1>3, <2>1, <2>2 DEF Header, ArenaSize
  <1>5. want \in MinOrder .. ArenaOrder + 1 /\ size + Header <= 2^want
    BY <1>4, OrderOfFits
  <1>6. want \in Orders /\ want <= k /\ want \in Nat
    BY <1>2, <1>3, <1>5 DEF Orders
  <1>7. size <= 2^want - Header
    <2>1. 2^want \in Nat
      BY <1>6, Powers
    <2> QED
      BY <1>1, <1>4, <1>5, <2>1
  <1>8. lists[k] \in Seq(Offsets) /\ Distinct(lists[k])
    BY DEF BuddyInv, ListsOk
  <1>9. off \in OnList(k)
    BY <1>3, <1>8, ListPop DEF OnList
  <1>10. off \in FreeOffs /\ off \in Offsets /\ Ord[off] = k /\ off \notin DOMAIN held
    BY <1>9, FreeIs DEF BuddyInv
  <1>11. \A j \in want .. k - 1 : j \in Orders
    <2>1. \A j \in want .. k - 1 : j \in Nat /\ MinOrder <= j /\ j <= MaxOrder
      BY <1>2, <1>5, <1>6
    <2> QED
      BY <1>2, <2>1 DEF Orders
  <1> QED
    BY <1>1, <1>3, <1>6, <1>7, <1>8, <1>9, <1>10, <1>11

\* an allocation keeps the invariant, and the headers of the blocks held
LEMMA AllocInv ==
    ASSUME ArenaAssumption, BuddyRequestAssumption, BuddyInv,
           NEW size \in BuddySizes, NEW k \in Orders, BuddyAlloc(size, k)
    PROVE  /\ BuddyInv'
           /\ \A o \in DOMAIN held : hdr'[o] = hdr[o]
           /\ hdr'[Head(lists[k])] = UsedHeader(OrderOf(size + Header))
  <1> DEFINE want == OrderOf(size + Header)
             off == Head(lists[k])
             cut == want .. (k - 1)
             N == {off + 2^j : j \in cut}
             F == FreeOffs
             H == DOMAIN held
             B == F \cup H
  <1>0. /\ ListsOk /\ HeldOk /\ Tiles(Ord, B) /\ hdr \in [Offsets -> HeaderRecords]
        /\ FullyMerged /\ count = Counts(Ord, F, H)
    BY DEF BuddyInv
  <1>1. /\ want \in Orders /\ want <= k /\ size \in Nat /\ size <= 2^want - Header
        /\ lists[k] \in Seq(Offsets) /\ lists[k] # <<>> /\ off \in OnList(k)
        /\ off \in F /\ off \in Offsets /\ Ord[off] = k /\ off \notin H
        /\ \A j \in cut : j \in Orders /\ lists[j] = <<>>
    BY AllocTakes
  <1>2. /\ lists' = [j \in Orders |->
                      IF j = k THEN Tail(lists[j])
                      ELSE IF j \in cut THEN <<off + 2^j>> \o lists[j]
                      ELSE lists[j]]
        /\ hdr' = [o \in Offsets |->
                    IF o = off THEN UsedHeader(want)
                    ELSE IF \E j \in cut : o = off + 2^j
                    THEN FreeHeader(CHOOSE j \in cut : o = off + 2^j)
                    ELSE hdr[o]]
        /\ count' = CountAlloc(want, k)
        /\ held' = [o \in H \cup {off} |-> IF o = off THEN size ELSE held[o]]
    BY DEF BuddyAlloc
  <1>3. /\ want \in Nat /\ k \in Nat /\ cut \subseteq Nat /\ k \notin cut
        /\ off \in B
    BY <1>1, OrderFacts
  <1> HIDE DEF want, off
  <1>4. \A j \in cut : off + 2^j \in Offsets /\ off + 2^j # off
                       /\ \A i \in cut : off + 2^i = off + 2^j => i = j
    BY <1>0, <1>1, <1>3, HalvesAre
  <1> HIDE DEF cut
  <1>5. /\ hdr'[off] = UsedHeader(want)
        /\ \A j \in cut : hdr'[off + 2^j] = FreeHeader(j)
        /\ \A o \in Offsets : o # off /\ o \notin N => hdr'[o] = hdr[o]
    <2>1. hdr'[off] = UsedHeader(want)
      BY <1>1, <1>2
    <2>2. \A j \in cut : hdr'[off + 2^j] = FreeHeader(j)
      <3> TAKE j \in cut
      <3>1. (CHOOSE i \in cut : off + 2^j = off + 2^i) = j
        BY <1>4
      <3>2. hdr'[off + 2^j] = FreeHeader(CHOOSE i \in cut : off + 2^j = off + 2^i)
        BY <1>2, <1>4
      <3> QED
        BY <3>1, <3>2
    <2>3. \A o \in Offsets : o # off /\ o \notin N => hdr'[o] = hdr[o]
      BY <1>2
    <2> QED
      BY <2>1, <2>2, <2>3
  <1> HIDE DEF F, H
  <1>6. /\ Ord'[off] = want
        /\ \A j \in cut : Ord'[off + 2^j] = j
        /\ \A o \in Offsets : o # off /\ o \notin N => Ord'[o] = Ord[o]
    <2>1. \A o \in Offsets : Ord'[o] = hdr'[o].order /\ Ord[o] = hdr[o].order
      BY DEF Ord
    <2>2. \A j \in Orders : UsedHeader(j).order = j /\ FreeHeader(j).order = j
      BY HeaderIs
    <2>3. \A j \in cut : Ord'[off + 2^j] = j
      <3> TAKE j \in cut
      <3>1. hdr'[off + 2^j].order = j
        BY <1>1, <1>5, <2>2
      <3> QED
        BY <1>4, <2>1, <3>1
    <2> QED
      BY <1>1, <1>5, <2>1, <2>2, <2>3
  <1> DEFINE ord2 == Ord'
  <1>7. /\ N \cap B = {} /\ Tiles(Ord', B \cup N) /\ B \subseteq Offsets
    <2>1. B \subseteq Offsets
      BY <1>0 DEF Tiles
    <2>2. N \cap (B \ {off}) = {}
      <3> SUFFICES ASSUME NEW j \in cut, off + 2^j \in B PROVE FALSE
        OBVIOUS
      <3> DEFINE o == off + 2^j
                 p == 2^k
      <3>1. j \in Nat /\ j < k /\ 2^j \in Nat \ {0} /\ 2 * 2^j <= p /\ p \in Nat
        BY <1>1, <1>3, Powers DEF cut
      <3>2. off \in Nat
        BY <1>0, <1>3, TileFits
      <3>3. o # off
        BY <1>4
      <3>4. Ord[o] \in Nat /\ o \in Nat /\ 2^Ord[o] \in Nat \ {0}
        BY <1>0, TileFits, Powers
      <3>5. off + 2^Ord[off] <= o \/ o + 2^Ord[o] <= off
        BY <1>0, <1>3, <3>3, TilesApart
      <3> HIDE DEF p
      <3>6. ~(off + p <= o)
        BY <3>1, <3>2
      <3>7. ~(o + 2^Ord[o] <= off)
        BY <3>1, <3>2, <3>4
      <3> QED
        BY <1>1, <3>5, <3>6, <3>7 DEF p
    <2>3. \A b \in B \ {off} : Ord'[b] = Ord[b]
      BY <1>6, <2>1, <2>2
    <2> HIDE DEF B
    <2>4. N = Halves(off, want, Ord[off])
      BY <1>1 DEF cut, Halves
    <2>5. /\ \A j \in want .. Ord[off] - 1 : ord2[off + 2^j] = j
          /\ ord2[off] = want
      BY <1>1, <1>6 DEF cut
    <2> HIDE DEF N, ord2
    <2>6. \A b \in B \ {off} : ord2[b] = Ord[b]
      BY <2>3 DEF ord2
    <2>7. N \cap B = {} /\ Tiles(ord2, B \cup N)
      <3>1. Tiles(Ord, B) /\ off \in B /\ want \in Orders /\ want <= Ord[off]
        BY <1>0, <1>1, <1>3
      <3>2. CutDown(Ord, B, off, want, N, ord2)
        BY <2>4, <2>5, <2>6, <3>1 DEF CutDown
      <3> QED
        BY <3>2, SplitTiles
    <2> QED
      BY <2>1, <2>7 DEF ord2
  <1>8. \A o \in B : o # off => hdr'[o] = hdr[o] /\ Ord'[o] = Ord[o]
    BY <1>5, <1>6, <1>7
  <1>9. \A j \in Orders :
           /\ lists'[j] \in Seq(Offsets) /\ Distinct(lists'[j])
           /\ OnList(j)' = IF j = k THEN OnList(k) \ {off}
                           ELSE IF j \in cut THEN {off + 2^j} ELSE OnList(j)
    <2> TAKE j \in Orders
    <2>1. lists[j] \in Seq(Offsets) /\ Distinct(lists[j])
      BY <1>0 DEF ListsOk
    <2>2. OnList(j) = Range(lists[j]) /\ OnList(j)' = Range(lists'[j])
      BY DEF OnList
    <2>3. CASE j = k
      <3>1. lists'[j] = Tail(lists[j])
        BY <1>2, <2>3
      <3>2. lists[j] # <<>>
        BY <1>1, <2>3
      <3> QED
        BY <2>1, <2>2, <2>3, <3>1, <3>2, ListPop DEF off
    <2>4. CASE j # k /\ j \in cut
      <3>1. lists'[j] = <<off + 2^j>> \o lists[j]
        BY <1>2, <2>4
      <3>2. Range(lists[j]) = {}
        BY <1>1, <2>1, <2>4, ListIs
      <3>3. off + 2^j \in Offsets /\ off + 2^j \notin Range(lists[j])
        BY <1>4, <2>4, <3>2
      <3>4. /\ lists'[j] \in Seq(Offsets) /\ Distinct(lists'[j])
            /\ Range(lists'[j]) = Range(lists[j]) \cup {off + 2^j}
        BY <2>1, <3>1, <3>3, ListPush
      <3> QED
        BY <2>2, <2>4, <3>2, <3>4
    <2>5. CASE j # k /\ j \notin cut
      <3>1. lists'[j] = lists[j]
        BY <1>2, <2>5
      <3> QED
        BY <2>1, <2>2, <2>5, <3>1
    <2> QED
      BY <2>3, <2>4, <2>5
  <1>10. /\ \A j \in Orders : \A o \in OnList(j) : o \in F /\ Ord[o] = j
         /\ \A o \in F : \E j \in Orders : o \in OnList(j)
         /\ \A j \in cut : OnList(j) = {}
         /\ F \cap H = {}
    <2>1. \A j \in cut : OnList(j) = {}
      <3> TAKE j \in cut
      <3>1. lists[j] = <<>> /\ lists[j] \in Seq(Offsets)
        BY <1>0, <1>1 DEF ListsOk
      <3> QED
        BY <3>1, ListIs DEF OnList
    <2> QED
      BY <1>0, <2>1, FreeIs DEF F, H
  <1>11. FreeOffs' = (F \ {off}) \cup N
    <2>1. FreeOffs' = UNION {OnList(j)' : j \in Orders}
      BY DEF FreeOffs
    <2>2. \A o \in FreeOffs' : o \in (F \ {off}) \cup N
      <3> TAKE o \in FreeOffs'
      <3>1. PICK j \in Orders : o \in OnList(j)'
        BY <2>1
      <3>2. CASE j = k
        BY <1>9, <1>10, <3>1, <3>2
      <3>3. CASE j # k /\ j \in cut
        BY <1>9, <3>1, <3>3
      <3>4. CASE j # k /\ j \notin cut
        <4>1. o \in OnList(j)
          BY <1>9, <3>1, <3>4
        <4>2. o \in F /\ Ord[o] = j
          BY <1>10, <4>1
        <4> QED
          BY <1>1, <3>4, <4>2
      <3> QED
        BY <3>2, <3>3, <3>4
    <2>3. \A o \in F \ {off} : o \in FreeOffs'
      <3> TAKE o \in F \ {off}
      <3>1. PICK j \in Orders : o \in OnList(j)
        BY <1>10
      <3>2. o \in OnList(j)'
        BY <1>9, <1>10, <3>1
      <3> QED
        BY <2>1, <3>2
    <2>4. \A j \in cut : off + 2^j \in FreeOffs'
      <3> TAKE j \in cut
      <3>1. j \in Orders /\ j # k
        BY <1>1, <1>3
      <3>2. off + 2^j \in OnList(j)'
        BY <1>9, <3>1
      <3> QED
        BY <2>1, <3>1, <3>2
    <2> HIDE DEF F
    <2> QED
      BY <2>2, <2>3, <2>4
  <1>12. (DOMAIN held)' = H \cup {off}
    BY <1>2
  <1>13. /\ FreeOffs' \cup (DOMAIN held)' = B \cup N
         /\ FreeOffs' \cap (DOMAIN held)' = {}
    BY <1>1, <1>7, <1>10, <1>11, <1>12
  <1>14. ListsOk'
    <2>1. lists' \in [Orders -> Seq(Offsets)]
      <3>1. lists' = [j \in Orders |-> lists'[j]]
        BY <1>2
      <3> QED
        BY <1>9, <3>1
    <2>2. \A j \in Orders : \A o \in OnList(j)' : hdr'[o] = FreeHeader(j)
      <3> TAKE j \in Orders
      <3> TAKE o \in OnList(j)'
      <3>1. CASE j \in cut
        <4>1. o = off + 2^j
          BY <1>3, <1>9, <3>1
        <4> QED
          BY <1>5, <3>1, <4>1
      <3>2. CASE j \notin cut
        <4>1. o \in OnList(j) /\ o # off
          BY <1>1, <1>9, <1>10, <3>2
        <4>2. hdr[o] = FreeHeader(j)
          BY <1>0, <4>1 DEF ListsOk
        <4>3. hdr'[o] = hdr[o]
          BY <1>8, <1>10, <4>1
        <4> QED
          BY <4>2, <4>3
      <3> QED
        BY <3>1, <3>2
    <2> QED
      BY <1>9, <2>1, <2>2 DEF ListsOk
  <1>15. HeldOk'
    <2>1. \A o \in H \cup {off} : held'[o] = IF o = off THEN size ELSE held[o]
      BY <1>2
    <2>2. UsedHeader(want).magic /\ UsedHeader(want).in_use /\ UsedHeader(want).order = want
      BY <1>1, HeaderIs
    <2>3. \A o \in H \cup {off} : /\ hdr'[o].magic /\ hdr'[o].in_use
                                  /\ held'[o] \in Nat /\ held'[o] <= 2^hdr'[o].order - Header
      <3> TAKE o \in H \cup {off}
      <3>1. CASE o = off
        <4>1. hdr'[o] = UsedHeader(want) /\ held'[o] = size
          BY <1>5, <2>1, <3>1
        <4> QED
          BY <1>1, <2>2, <4>1
      <3>2. CASE o # off
        <4>1. o \in H /\ o \in B
          BY <3>2
        <4>2. hdr'[o] = hdr[o] /\ held'[o] = held[o]
          BY <1>8, <2>1, <3>2, <4>1
        <4> QED
          BY <1>0, <4>1, <4>2 DEF HeldOk, H
      <3> QED
        BY <3>1, <3>2
    <2>4. H \cup {off} \subseteq Offsets
      BY <1>1, <1>7
    <2> QED
      BY <1>12, <2>3, <2>4 DEF HeldOk
  <1>16. hdr' \in [Offsets -> HeaderRecords]
    <2>1. \A o \in Offsets : hdr'[o] \in HeaderRecords
      <3> TAKE o \in Offsets
      <3>1. CASE o = off
        BY <1>1, <1>5, <3>1, HeaderIs
      <3>2. CASE o \in N
        <4>1. PICK j \in cut : o = off + 2^j
          BY <3>2
        <4>2. j \in Orders
          BY <1>1
        <4> QED
          BY <1>5, <4>1, <4>2, HeaderIs
      <3>3. CASE o # off /\ o \notin N
        <4>1. hdr'[o] = hdr[o]
          BY <1>5, <3>3
        <4> QED
          BY <1>0, <4>1
      <3> QED
        BY <3>1, <3>2, <3>3
    <2>2. hdr' = [o \in Offsets |-> hdr'[o]]
      BY <1>2
    <2> QED
      BY <2>1, <2>2
  <1>17. FullyMerged'
    <2> SUFFICES ASSUME NEW j \in MinOrder .. (MaxOrder - 1), NEW o \in OnList(j)'
                 PROVE  Flip(o, j) \notin OnList(j)'
      BY DEF FullyMerged
    <2>1. j \in Orders /\ j \in Nat
      BY OrderFacts DEF Orders
    <2>2. CASE j \in cut
      <3>1. o = off + 2^j /\ OnList(j)' = {off + 2^j}
        BY <1>3, <1>9, <2>1, <2>2
      <3>2. Aligned(o, j)
        <4>1. o \in B \cup N
          BY <2>2, <3>1
        <4>2. Aligned(o, Ord'[o])
          BY <1>7, <4>1 DEF Tiles
        <4> QED
          BY <1>6, <2>2, <3>1, <4>2
      <3>3. Flip(o, j) # o
        BY <2>1, <3>2, FlipBack
      <3> QED
        BY <3>1, <3>3
    <2>3. CASE j \notin cut
      <3>1. o \in OnList(j) /\ OnList(j)' \subseteq OnList(j)
        BY <1>9, <2>1, <2>3
      <3>2. Flip(o, j) \notin OnList(j)
        BY <1>0, <3>1 DEF FullyMerged
      <3> QED
        BY <3>1, <3>2
    <2> QED
      BY <2>2, <2>3
  <1>18. count' = Counts(Ord', FreeOffs', (DOMAIN held)')
    <2> DEFINE F2 == (F \ {off}) \cup N
               H2 == H \cup {off}
    <2>1. /\ Cardinality(F) \in Nat /\ Cardinality(H) \in Nat /\ IsFiniteSet(F) /\ IsFiniteSet(H)
      BY <1>0, FreeIs DEF F, H
    <2>2. Cardinality(H2) = Cardinality(H) + 1
      BY <1>1, <2>1, FS_AddElement
    <2>3. IsFiniteSet(N) /\ Cardinality(N) = k - want
      <3>1. IsFiniteSet(cut) /\ Cardinality(cut) = k - want
        <4>1. want \in Int /\ k - 1 \in Int
          BY <1>3
        <4>2. IsFiniteSet(cut) /\ Cardinality(cut) = IF want > k - 1 THEN 0 ELSE (k - 1) - want + 1
          BY <4>1, FS_Interval DEF cut
        <4> QED
          BY <1>1, <1>3, <4>2
      <3> DEFINE f == [j \in cut |-> off + 2^j]
      <3>2. f \in [cut -> N] /\ \A j \in cut : f[j] = off + 2^j
        OBVIOUS
      <3>3. \A o \in N : \E j \in cut : f[j] = o
        OBVIOUS
      <3>4. \A i, j \in cut : f[i] = f[j] => i = j
        BY <1>4, <3>2
      <3> HIDE DEF f, N
      <3>5. f \in Bijection(cut, N)
        BY <3>2, <3>3, <3>4 DEF Bijection, Injection, Surjection, IsInjective
      <3>6. ExistsBijection(cut, N)
        BY <3>5 DEF ExistsBijection
      <3> QED
        BY <3>1, <3>6, FS_Bijection
    <2>4. Cardinality(F2) = Cardinality(F) - 1 + (k - want)
      <3> DEFINE G == F \ {off}
      <3>1. IsFiniteSet(G) /\ Cardinality(G) = Cardinality(F) - 1
        BY <1>1, <2>1, FS_RemoveElement
      <3>2. G \cap N = {}
        BY <1>7
      <3> HIDE DEF G, N
      <3>3. Cardinality(G \cup N) = Cardinality(G) + Cardinality(N) - Cardinality(G \cap N)
        BY <2>3, <3>1, FS_Union
      <3>4. Cardinality(G \cap N) = 0
        BY <3>2, FS_EmptySet
      <3> QED
        BY <1>3, <2>1, <2>3, <3>1, <3>3, <3>4 DEF G
    <2>5. Weight(Ord, F) + Weight(Ord, H) = ArenaSize - RegionOff
      BY <1>0, <1>10, WeightRest
    <2>6. Weight(ord2, H2) = Weight(Ord, H) + 2^want
      <3>1. H \in SUBSET (B \cup N) /\ off \in (B \cup N) \ H
        BY <1>1, <1>3
      <3>2. Tiles(ord2, B \cup N) /\ ord2[off] = want
        BY <1>6, <1>7
      <3>3. \A b \in H : ord2[b] = Ord[b]
        BY <1>1, <1>8
      <3> HIDE DEF B, N, ord2
      <3>4. Weight(ord2, H \cup {off}) = Weight(ord2, H) + 2^ord2[off]
        BY <3>1, <3>2, WeightAdd
      <3> QED
        BY <3>2, <3>3, <3>4, WeightSame
    <2>7. Weight(ord2, F2) + Weight(ord2, H2) = ArenaSize - RegionOff
      <3>1. F2 \cap H2 = {} /\ Tiles(ord2, F2 \cup H2)
        BY <1>7, <1>11, <1>12, <1>13
      <3> HIDE DEF F2, H2, ord2
      <3> QED
        BY <3>1, WeightRest
    <2>8. /\ Weight(Ord, F) \in Nat /\ Weight(Ord, H) \in Nat
          /\ Weight(ord2, F2) \in Nat /\ Weight(ord2, H2) \in Nat
      BY WeightType
    <2>9. 2^want \in Nat /\ ArenaSize \in Nat /\ RegionOff \in Nat
      BY <1>3, OrderFacts, Powers
    <2> HIDE DEF F2, H2, ord2
    <2>10. Weight(ord2, F2) = Weight(Ord, F) - 2^want
      BY <2>5, <2>6, <2>7, <2>8, <2>9
    <2>11. count' = Counts(ord2, F2, H2)
      <3>1. /\ count.used_bytes = Weight(Ord, H) /\ count.free_bytes = Weight(Ord, F)
            /\ count.live_blocks = Cardinality(H) /\ count.free_blocks = Cardinality(F)
        BY <1>0 DEF Counts
      <3> QED
        BY <1>2, <2>2, <2>4, <2>6, <2>10, <3>1 DEF CountAlloc, Counts
    <2> QED
      BY <1>11, <1>12, <2>11 DEF F2, H2, ord2
  <1>19. Tiles(Ord', FreeOffs' \cup (DOMAIN held)')
    BY <1>7, <1>13
  <1>20. \A o \in DOMAIN held : hdr'[o] = hdr[o]
    BY <1>1, <1>8 DEF H
  <1> QED
    BY <1>5, <1>14, <1>15, <1>16, <1>17, <1>18, <1>19, <1>20 DEF BuddyInv, off, want

-----------------------------------------------------------------------------
(* Filling a held block.                                                   *)
LEMMA WriteInv ==
    ASSUME ArenaAssumption, BuddyInv,
           NEW off \in DOMAIN held, NEW content \in Contents, BuddyWrite(off, content)
    PROVE  BuddyInv' /\ \A o \in DOMAIN held : hdr'[o] = hdr[o]
  <1> DEFINE F == FreeOffs
             H == DOMAIN held
             B == F \cup H
  <1>0. /\ ListsOk /\ HeldOk /\ Tiles(Ord, B) /\ hdr \in [Offsets -> HeaderRecords]
        /\ FullyMerged /\ count = Counts(Ord, F, H)
    BY DEF BuddyInv
  <1>1. /\ hdr' = [o \in Offsets |->
                     IF off < o /\ o < off + 2^hdr[off].order THEN content ELSE hdr[o]]
        /\ lists' = lists /\ count' = count /\ held' = held
    BY DEF BuddyWrite
  <1>2. B \subseteq Offsets /\ off \in B /\ Ord[off] = hdr[off].order
    BY <1>0 DEF Tiles, Ord
  <1>3. \A o \in B : hdr'[o] = hdr[o] /\ Ord'[o] = Ord[o]
    <2> TAKE o \in B
    <2>1. /\ off \in Nat /\ o \in Nat /\ Ord[off] \in Nat /\ Ord[o] \in Nat
          /\ 2^Ord[off] \in Nat \ {0} /\ 2^Ord[o] \in Nat \ {0}
      BY <1>0, <1>2, TileFits, Powers
    <2>2. ~(off < o /\ o < off + 2^Ord[off])
      <3>1. o # off => off + 2^Ord[off] <= o \/ o + 2^Ord[o] <= off
        BY <1>0, <1>2, TilesApart
      <3> DEFINE p == 2^Ord[off]
                 q == 2^Ord[o]
      <3> HIDE DEF p, q
      <3> QED
        BY <2>1, <3>1 DEF p, q
    <2>3. hdr'[o] = hdr[o]
      BY <1>1, <1>2, <2>2
    <2> QED
      BY <1>2, <2>3 DEF Ord
  <1>4. \A j \in Orders : OnList(j)' = OnList(j)
    BY <1>1 DEF OnList
  <1>5. FreeOffs' = F /\ (DOMAIN held)' = H
    BY <1>1, <1>4 DEF FreeOffs
  <1>6. ListsOk'
    <2>1. \A j \in Orders : \A o \in OnList(j) : hdr'[o] = FreeHeader(j)
      <3>1. \A j \in Orders : \A o \in OnList(j) : o \in B
        BY <1>0, FreeIs
      <3> QED
        BY <1>0, <1>3, <3>1 DEF ListsOk
    <2> QED
      BY <1>0, <1>1, <1>4, <2>1 DEF ListsOk
  <1>7. HeldOk'
    <2>1. \A o \in H : o \in B /\ hdr'[o] = hdr[o]
      BY <1>3
    <2> QED
      BY <1>0, <1>1, <2>1 DEF HeldOk
  <1>8. hdr' \in [Offsets -> HeaderRecords]
    <2>1. content \in HeaderRecords
      <3>1. MaxOrder \in Orders
        BY OrderFacts DEF Orders
      <3> QED
        BY <3>1, HeaderIs DEF Contents
    <2>2. \A o \in Offsets : hdr'[o] \in HeaderRecords
      BY <1>0, <1>1, <2>1
    <2>3. hdr' = [o \in Offsets |-> hdr'[o]]
      BY <1>1
    <2> QED
      BY <2>2, <2>3
  <1>9. FullyMerged'
    <2>1. \A k \in MinOrder .. (MaxOrder - 1) : k \in Orders
      BY OrderFacts DEF Orders
    <2> QED
      BY <1>0, <1>4, <2>1 DEF FullyMerged
  <1> DEFINE ord2 == Ord'
  <1>10. /\ Tiles(ord2, B)
         /\ Weight(ord2, F) = Weight(Ord, F) /\ Weight(ord2, H) = Weight(Ord, H)
    <2>1. \A b \in B : ord2[b] = Ord[b]
      BY <1>3
    <2>2. \A b \in F : ord2[b] = Ord[b]
      BY <2>1
    <2>3. \A b \in H : ord2[b] = Ord[b]
      BY <2>1
    <2> HIDE DEF ord2, F, H, B
    <2> QED
      BY <1>0, <2>1, <2>2, <2>3, TilesSame, WeightSame
  <1>11. count' = Counts(ord2, F, H)
    BY <1>0, <1>1, <1>10 DEF Counts
  <1>12. \A o \in DOMAIN held : hdr'[o] = hdr[o]
    BY <1>3
  <1> QED
    BY <1>5, <1>6, <1>7, <1>8, <1>9, <1>10, <1>11, <1>12 DEF BuddyInv

-----------------------------------------------------------------------------
(* buddy_free_block.                                                       *)
\* where the merge loop stops, and the buddies it takes off their lists
LEMMA FreeMerges ==
    ASSUME ArenaAssumption, BuddyInv, NEW off \in DOMAIN held,
           NEW k, k = hdr[off].order,
           NEW top, top = CHOOSE j \in k .. MaxOrder :
                              /\ ~Mergeable(off, j)
                              /\ \A i \in k .. (j - 1) : Mergeable(off, i)
    PROVE  /\ k \in Orders /\ k \in Nat /\ top \in Orders /\ top \in Nat /\ k <= top /\ off \in Nat
           /\ Ord[off] = k /\ ~Mergeable(off, top)
           /\ \A i \in k .. top - 1 : i \in Orders /\ Bud(off, i) \in OnList(i)
  <1> DEFINE F == FreeOffs
             H == DOMAIN held
             B == F \cup H
             Stops(j) == ~Mergeable(off, j) /\ \A i \in k .. (j - 1) : Mergeable(off, i)
  <1>0. ListsOk /\ HeldOk /\ Tiles(Ord, B)
    BY DEF BuddyInv
  <1>1. off \in B /\ Ord[off] = k /\ k \in Orders /\ k \in Nat /\ off \in Nat
    <2>1. off \in B /\ Ord[off] = k
      BY <1>0 DEF HeldOk, Ord
    <2> QED
      BY <1>0, <2>1, TileFits
  <1>2. MaxOrder \in Nat /\ k <= MaxOrder /\ MinOrder \in Nat /\ MinOrder <= k
    BY <1>1, OrderFacts
  <1>3. \E j \in k .. MaxOrder : Stops(j)
    <2> DEFINE Not == {j \in k .. MaxOrder : ~Mergeable(off, j)}
    <2>1. PICK m \in Not : \A j \in Not : m <= j
      <3>1. Not \in SUBSET Nat
        BY <1>1
      <3>2. ~Mergeable(off, MaxOrder)
        BY <1>2 DEF Mergeable
      <3>3. MaxOrder \in Not
        BY <1>1, <1>2, <3>2
      <3> HIDE DEF Not
      <3> QED
        BY <3>1, <3>3, LeastMember
    <2>2. m \in k .. MaxOrder /\ ~Mergeable(off, m)
      BY <2>1
    <2>3. \A i \in k .. (m - 1) : Mergeable(off, i)
      <3> TAKE i \in k .. (m - 1)
      <3>1. i \in k .. MaxOrder /\ ~(m <= i)
        BY <1>1, <1>2, <2>2
      <3> QED
        BY <2>1, <3>1
    <2> QED
      BY <2>2, <2>3
  <1>4. top = CHOOSE j \in k .. MaxOrder : Stops(j)
    OBVIOUS
  <1> HIDE DEF Stops
  <1>5. top \in k .. MaxOrder /\ Stops(top)
    BY <1>3, <1>4
  <1>6. ~Mergeable(off, top) /\ \A i \in k .. (top - 1) : Mergeable(off, i)
    BY <1>5 DEF Stops
  <1>7. top \in Nat /\ k <= top /\ top \in Orders
    BY <1>1, <1>2, <1>5 DEF Orders
  <1>8. ASSUME NEW i \in k .. top - 1
        PROVE  i \in Orders /\ Bud(off, i) \in OnList(i)
    <2> DEFINE b == Bud(off, i)
    <2>1. i \in Nat /\ k <= i /\ i < MaxOrder /\ i \in Orders
      BY <1>1, <1>2, <1>5 DEF Orders
    <2>2. RegionOff <= b /\ hdr[b].magic /\ ~hdr[b].in_use /\ hdr[b].order = i
      <3>1. Mergeable(off, i)
        BY <1>6
      <3>2. b >= RegionOff /\ hdr[b].magic /\ ~hdr[b].in_use /\ hdr[b].order = i
        BY <3>1 DEF Mergeable, Bud
      <3>3. b \in Nat /\ RegionOff \in Nat
        BY <1>1, <2>1, BaseOf, FlipOf, OrderFacts DEF Bud, Aligned
      <3> QED
        BY <3>2, <3>3
    <2>3. b \in B
      BY <1>0, <1>1, <2>1, <2>2, BuddyIsBlock
    <2> HIDE DEF b
    <2>4. b \notin H
      BY <1>0, <2>2 DEF HeldOk
    <2>5. PICK j \in Orders : b \in OnList(j)
      BY <1>0, <2>3, <2>4, FreeIs
    <2>6. hdr[b] = FreeHeader(j) /\ FreeHeader(j).order = j
      BY <1>0, <2>5, HeaderIs DEF ListsOk
    <2>7. j = i
      BY <2>2, <2>6
    <2> QED
      BY <2>1, <2>5, <2>7 DEF b
  <1> QED
    BY <1>1, <1>6, <1>7, <1>8

\* giving a block back keeps the invariant, and the headers of the other blocks held
LEMMA FreeInv ==
    ASSUME ArenaAssumption, BuddyInv, NEW off \in DOMAIN held, BuddyFreeBlock(off)
    PROVE  BuddyInv' /\ \A o \in DOMAIN held \ {off} : hdr'[o] = hdr[o]
  <1> DEFINE k == hdr[off].order
             top == CHOOSE j \in k .. MaxOrder :
                       /\ ~Mergeable(off, j)
                       /\ \A i \in k .. (j - 1) : Mergeable(off, i)
             start == Base(off, top)
             merged == k .. (top - 1)
             M == Buds(off, k, top)
             G == M \cup {off}
             F == FreeOffs
             H == DOMAIN held
             B == F \cup H
  <1>0. /\ ListsOk /\ HeldOk /\ Tiles(Ord, B) /\ hdr \in [Offsets -> HeaderRecords]
        /\ FullyMerged /\ count = Counts(Ord, F, H)
    BY DEF BuddyInv
  <1>1. /\ k \in Orders /\ k \in Nat /\ top \in Orders /\ top \in Nat /\ k <= top /\ off \in Nat
        /\ Ord[off] = k /\ ~Mergeable(off, top)
        /\ \A i \in merged : i \in Orders /\ Bud(off, i) \in OnList(i)
    BY FreeMerges
  <1>2. /\ lists' = [j \in Orders |->
                      IF j \in merged THEN RemoveFirst(lists[j], Flip(Base(off, j), j))
                      ELSE IF j = top THEN <<start>> \o lists[j]
                      ELSE lists[j]]
        /\ hdr' = [o \in Offsets |->
                    IF o = start THEN FreeHeader(top)
                    ELSE IF o = off THEN [hdr[o] EXCEPT !.in_use = FALSE]
                    ELSE hdr[o]]
        /\ count' = CountFree(k, top)
        /\ held' = [o \in H \ {off} |-> held[o]]
    BY DEF BuddyFreeBlock
  <1> HIDE DEF k, top
  <1>3. /\ \A j \in Orders : \A o \in OnList(j) : o \in F /\ Ord[o] = j /\ o \notin H
        /\ \A o \in F : \E j \in Orders : o \in OnList(j)
        /\ F \cap H = {} /\ off \in B /\ off \notin F /\ B \subseteq Offsets
    BY <1>0, FreeIs DEF Tiles
  <1>4. /\ top \notin merged /\ merged \subseteq Nat
        /\ \A i \in merged : Bud(off, i) \in F /\ Ord[Bud(off, i)] = i /\ Bud(off, i) \notin H
    <2>1. top \notin merged /\ merged \subseteq Nat
      BY <1>1
    <2>2. \A i \in merged : Bud(off, i) \in F /\ Ord[Bud(off, i)] = i /\ Bud(off, i) \notin H
      BY <1>1, <1>3
    <2> QED
      BY <2>1, <2>2
  <1>5. M = {Bud(off, i) : i \in merged}
    BY DEF Buds
  <1>6. start \in M \cup {off} /\ start \in Offsets /\ Aligned(start, top)
    <2>1. Tiles(Ord, B) /\ off \in B /\ Ord[off] <= top /\ M = Buds(off, Ord[off], top)
      BY <1>0, <1>1, <1>3
    <2>2. \A i \in Ord[off] .. top - 1 : Bud(off, i) \in B /\ Ord[Bud(off, i)] = i
      BY <1>1, <1>4
    <2> HIDE DEF B, M, start
    <2>3. start = Base(off, top)
      BY DEF start
    <2> QED
      BY <1>1, <2>1, <2>2, <2>3, MergedStart
  <1> HIDE DEF start
  <1>7. /\ hdr'[start] = FreeHeader(top)
        /\ \A o \in Offsets : o # start /\ o # off => hdr'[o] = hdr[o]
    BY <1>2, <1>6
  <1> DEFINE ord2 == Ord'
  <1>8. /\ ord2[start] = top
        /\ \A o \in Offsets : o # start /\ o # off => ord2[o] = Ord[o]
    <2>1. \A o \in Offsets : ord2[o] = hdr'[o].order /\ Ord[o] = hdr[o].order
      BY DEF Ord
    <2>2. FreeHeader(top).order = top
      BY <1>1, HeaderIs
    <2> HIDE DEF ord2
    <2> QED
      BY <1>6, <1>7, <2>1, <2>2
  <1> HIDE DEF M, merged, F, H
  <1>9. M \subseteq F /\ M \cap H = {} /\ G \subseteq B /\ off \notin M
    BY <1>3, <1>4, <1>5
  <1>10. start \in G /\ Tiles(ord2, (B \ G) \cup {start})
    <2>1. Tiles(Ord, B) /\ off \in B /\ Ord[off] <= top /\ M = Buds(off, Ord[off], top)
      BY <1>0, <1>1, <1>3 DEF M
    <2>2. \A i \in Ord[off] .. top - 1 : Bud(off, i) \in B /\ Ord[Bud(off, i)] = i
      BY <1>1, <1>4 DEF merged
    <2>3. start = Base(off, top) /\ ord2[start] = top
      BY <1>8 DEF start
    <2> HIDE DEF B, ord2
    <2>4. \A b \in B \ (M \cup {off}) : ord2[b] = Ord[b]
      BY <1>3, <1>6, <1>8
    <2>5. Tiles(ord2, (B \ (M \cup {off})) \cup {start})
      BY <1>1, <2>1, <2>2, <2>3, <2>4, MergedTiles
    <2> QED
      BY <1>6, <2>5
  <1>11. \A o \in B \ G : o # start /\ o # off /\ hdr'[o] = hdr[o] /\ ord2[o] = Ord[o]
    <2> HIDE DEF ord2
    <2> QED
      BY <1>3, <1>7, <1>8, <1>10
  <1>12. start \notin OnList(top) /\ start \notin H \ {off}
    <2>1. CASE start = off
      BY <1>1, <1>3, <2>1
    <2>2. CASE start \in M
      <3>1. PICK i \in merged : start = Bud(off, i)
        BY <1>5, <2>2
      <3>2. Ord[start] = i /\ start \notin H
        BY <1>4, <3>1
      <3> QED
        BY <1>1, <1>3, <1>4, <3>1, <3>2
    <2> QED
      BY <1>10, <2>1, <2>2
  <1>13. \A j \in Orders :
           /\ lists'[j] \in Seq(Offsets) /\ Distinct(lists'[j])
           /\ OnList(j)' = IF j \in merged THEN OnList(j) \ {Bud(off, j)}
                           ELSE IF j = top THEN OnList(j) \cup {start} ELSE OnList(j)
    <2> TAKE j \in Orders
    <2>1. lists[j] \in Seq(Offsets) /\ Distinct(lists[j])
      BY <1>0 DEF ListsOk
    <2>2. OnList(j) = Range(lists[j]) /\ OnList(j)' = Range(lists'[j])
      BY DEF OnList
    <2>3. CASE j \in merged
      <3>1. lists'[j] = RemoveFirst(lists[j], Bud(off, j))
        BY <1>2, <2>3 DEF Bud
      <3>2. Bud(off, j) \in Range(lists[j])
        BY <1>1, <2>2, <2>3
      <3> QED
        BY <2>1, <2>2, <2>3, <3>1, <3>2, ListDrop
    <2>4. CASE j \notin merged /\ j = top
      <3>1. lists'[j] = <<start>> \o lists[j]
        BY <1>2, <2>4
      <3>2. start \notin Range(lists[j])
        BY <1>12, <2>2, <2>4
      <3> QED
        BY <1>6, <2>1, <2>2, <2>4, <3>1, <3>2, ListPush
    <2>5. CASE j \notin merged /\ j # top
      <3>1. lists'[j] = lists[j]
        BY <1>2, <2>5
      <3> QED
        BY <2>1, <2>2, <2>5, <3>1
    <2> QED
      BY <2>3, <2>4, <2>5
  <1>14. FreeOffs' = (F \ M) \cup {start}
    <2>1. FreeOffs' = UNION {OnList(j)' : j \in Orders}
      BY DEF FreeOffs
    <2>2. \A j \in Orders : \A o \in OnList(j) : o \in M => j \in merged /\ o = Bud(off, j)
      <3> TAKE j \in Orders
      <3> TAKE o \in OnList(j)
      <3> HAVE o \in M
      <3>1. PICK i \in merged : o = Bud(off, i)
        BY <1>5
      <3>2. Ord[o] = i /\ Ord[o] = j
        BY <1>3, <1>4, <3>1
      <3> QED
        BY <3>1, <3>2
    <2>3. \A o \in FreeOffs' : o \in (F \ M) \cup {start}
      <3> TAKE o \in FreeOffs'
      <3>1. PICK j \in Orders : o \in OnList(j)'
        BY <2>1
      <3>2. o = start \/ (o \in OnList(j) /\ ~(j \in merged /\ o = Bud(off, j)))
        BY <1>13, <3>1
      <3> QED
        BY <1>3, <2>2, <3>2
    <2>4. \A o \in F \ M : o \in FreeOffs'
      <3> TAKE o \in F \ M
      <3>1. PICK j \in Orders : o \in OnList(j)
        BY <1>3
      <3>2. ~(j \in merged /\ o = Bud(off, j))
        BY <1>5
      <3>3. o \in OnList(j)'
        BY <1>13, <3>1, <3>2
      <3> QED
        BY <2>1, <3>3
    <2>5. start \in FreeOffs'
      <3>1. PICK j \in Orders : j = top
        BY <1>1
      <3>2. start \in OnList(j)'
        BY <1>4, <1>13, <3>1
      <3> QED
        BY <2>1, <3>2
    <2> QED
      BY <2>3, <2>4, <2>5
  <1>15. (DOMAIN held)' = H \ {off}
    BY <1>2
  <1>16. /\ FreeOffs' \cup (DOMAIN held)' = (B \ G) \cup {start}
         /\ FreeOffs' \cap (DOMAIN held)' = {}
    BY <1>3, <1>9, <1>12, <1>14, <1>15
  <1>17. ListsOk'
    <2>1. lists' \in [Orders -> Seq(Offsets)]
      <3>1. lists' = [j \in Orders |-> lists'[j]]
        BY <1>2
      <3> QED
        BY <1>13, <3>1
    <2>2. \A j \in Orders : \A o \in OnList(j)' : hdr'[o] = FreeHeader(j)
      <3> TAKE j \in Orders
      <3> TAKE o \in OnList(j)'
      <3>1. CASE o = start
        <4>1. j = top
          <5> SUFFICES ASSUME j # top PROVE FALSE
            OBVIOUS
          <5>1. start \in OnList(j)
            BY <1>13, <3>1
          <5>2. start \in F /\ Ord[start] = j
            BY <1>3, <5>1
          <5>3. start \in M
            BY <1>3, <1>10, <5>2
          <5>4. PICK i \in merged : start = Bud(off, i)
            BY <1>5, <5>3
          <5>5. j \in merged /\ start = Bud(off, j)
            BY <1>4, <5>2, <5>4
          <5> QED
            BY <1>13, <3>1, <5>5
        <4> QED
          BY <1>7, <3>1, <4>1
      <3>2. CASE o # start
        <4>1. o \in OnList(j)
          BY <1>13, <3>2
        <4>2. o \in FreeOffs'
          BY DEF FreeOffs
        <4>3. o \in B \ G
          BY <1>3, <1>14, <3>2, <4>2
        <4>4. hdr[o] = FreeHeader(j)
          BY <1>0, <4>1 DEF ListsOk
        <4> QED
          BY <1>11, <4>3, <4>4
      <3> QED
        BY <3>1, <3>2
    <2> QED
      BY <1>13, <2>1, <2>2 DEF ListsOk
  <1>18. \A o \in H \ {off} : o \in B \ G /\ hdr'[o] = hdr[o]
    <2>1. \A o \in H \ {off} : o \in B \ G
      BY <1>9
    <2> QED
      BY <1>11, <2>1
  <1>19. HeldOk'
    <2>1. \A o \in H \ {off} : held'[o] = held[o] /\ hdr'[o] = hdr[o]
      BY <1>2, <1>18
    <2>2. H \ {off} \subseteq Offsets
      BY <1>3
    <2>3. \A o \in H : /\ hdr[o].magic /\ hdr[o].in_use
                       /\ held[o] \in Nat /\ held[o] <= 2^hdr[o].order - Header
      BY <1>0 DEF HeldOk, H
    <2> QED
      BY <1>15, <2>1, <2>2, <2>3 DEF HeldOk
  <1>20. hdr' \in [Offsets -> HeaderRecords]
    <2>1. \A o \in Offsets : hdr'[o] \in HeaderRecords
      <3> TAKE o \in Offsets
      <3>1. CASE o = start
        BY <1>1, <1>7, <3>1, HeaderIs
      <3>2. CASE o # start /\ o = off
        <4>1. hdr'[o] = [hdr[o] EXCEPT !.in_use = FALSE]
          BY <1>2, <3>2
        <4>2. hdr[o] \in HeaderRecords
          BY <1>0
        <4> QED
          BY <4>1, <4>2 DEF HeaderRecords
      <3>3. CASE o # start /\ o # off
        BY <1>0, <1>7, <3>3
      <3> QED
        BY <3>1, <3>2, <3>3
    <2>2. hdr' = [o \in Offsets |-> hdr'[o]]
      BY <1>2
    <2> QED
      BY <2>1, <2>2
  <1>21. FullyMerged'
    <2> SUFFICES ASSUME NEW j \in MinOrder .. (MaxOrder - 1), NEW o \in OnList(j)'
                 PROVE  Flip(o, j) \notin OnList(j)'
      BY DEF FullyMerged
    <2>1. j \in Orders /\ j \in Nat /\ j < MaxOrder
      BY OrderFacts DEF Orders
    <2>2. \A x \in OnList(j) : Flip(x, j) \notin OnList(j)
      BY <1>0 DEF FullyMerged
    <2>3. CASE j # top
      <3>1. OnList(j)' \subseteq OnList(j)
        BY <1>13, <2>1, <2>3
      <3> QED
        BY <2>2, <3>1
    <2>4. CASE j = top
      <3> DEFINE f == Flip(start, top)
      <3>1. OnList(j)' = OnList(top) \cup {start}
        BY <1>4, <1>13, <2>1, <2>4
      <3>2. f \notin OnList(top)
        <4> SUFFICES ASSUME f \in OnList(top) PROVE FALSE
          OBVIOUS
        <4>1. hdr[f] = FreeHeader(top) /\ f \in B
          BY <1>0, <1>1, <1>3 DEF ListsOk
        <4>2. hdr[f].magic /\ ~hdr[f].in_use /\ hdr[f].order = top
          BY <1>1, <4>1, HeaderIs
        <4>3. f >= RegionOff
          <5>1. RegionOff <= f /\ f \in Nat /\ RegionOff \in Nat
            BY <1>0, <4>1, TileFits, OrderFacts
          <5> QED
            BY <5>1
        <4>4. Mergeable(off, top)
          BY <2>1, <2>4, <4>2, <4>3 DEF Mergeable, start
        <4> QED
          BY <1>1, <4>4
      <3>3. f # start /\ Flip(f, top) = start
        BY <1>1, <1>6, FlipBack
      <3>4. CASE o = start
        BY <2>4, <3>1, <3>2, <3>3, <3>4
      <3>5. CASE o \in OnList(top)
        <4>1. Aligned(o, top)
          BY <1>0, <1>1, <1>3, <3>5 DEF Tiles
        <4>2. Flip(Flip(o, top), top) = o
          BY <1>1, <4>1, FlipBack
        <4> HIDE DEF f
        <4>3. Flip(o, top) # start
          BY <3>2, <3>5, <4>2 DEF f
        <4> QED
          BY <2>2, <2>4, <3>1, <3>5, <4>3
      <3> QED
        BY <3>1, <3>4, <3>5
    <2> QED
      BY <2>3, <2>4
  <1>22. count' = Counts(ord2, (F \ M) \cup {start}, H \ {off})
    <2> DEFINE F2 == (F \ M) \cup {start}
               H2 == H \ {off}
    <2>1. /\ Cardinality(F) \in Nat /\ Cardinality(H) \in Nat /\ IsFiniteSet(F) /\ IsFiniteSet(H)
      BY <1>0, FreeIs DEF F, H
    <2>2. Cardinality(H2) = Cardinality(H) - 1
      <3>1. off \in H
        BY DEF H
      <3> QED
        BY <2>1, <3>1, FS_RemoveElement
    <2>3. IsFiniteSet(M) /\ Cardinality(M) = top - k
      <3>1. IsFiniteSet(merged) /\ Cardinality(merged) = top - k
        <4>1. k \in Int /\ top - 1 \in Int
          BY <1>1
        <4>2. IsFiniteSet(merged)
              /\ Cardinality(merged) = IF k > top - 1 THEN 0 ELSE (top - 1) - k + 1
          BY <4>1, FS_Interval DEF merged
        <4> QED
          BY <1>1, <4>2
      <3> DEFINE f == [j \in merged |-> Bud(off, j)]
      <3>2. f \in [merged -> M] /\ \A j \in merged : f[j] = Bud(off, j)
        BY <1>5
      <3>3. \A o \in M : \E j \in merged : f[j] = o
        BY <1>5, <3>2
      <3>4. \A i, j \in merged : f[i] = f[j] => i = j
        <4> HIDE DEF f
        <4> QED
          BY <1>4, <3>2
      <3> HIDE DEF f
      <3>5. f \in Bijection(merged, M)
        BY <3>2, <3>3, <3>4 DEF Bijection, Injection, Surjection, IsInjective
      <3>6. ExistsBijection(merged, M)
        BY <3>5 DEF ExistsBijection
      <3> QED
        BY <3>1, <3>6, FS_Bijection
    <2>4. Cardinality(F2) = Cardinality(F) + 1 - (top - k)
      <3> DEFINE L == F \ M
      <3>1. IsFiniteSet(L) /\ Cardinality(L) = Cardinality(F) - Cardinality(F \cap M)
        BY <2>1, FS_Difference
      <3>2. F \cap M = M
        BY <1>9
      <3>3. start \notin L
        BY <1>3, <1>10
      <3> HIDE DEF L
      <3>4. Cardinality(L \cup {start}) = Cardinality(L) + 1
        BY <3>1, <3>3, FS_AddElement
      <3>5. Cardinality(L) = Cardinality(F) - (top - k)
        BY <2>3, <3>1, <3>2
      <3>6. F2 = L \cup {start}
        BY DEF L
      <3> HIDE DEF F2
      <3> QED
        BY <1>1, <2>1, <3>4, <3>5, <3>6
    <2>5. Weight(Ord, F) + Weight(Ord, H) = ArenaSize - RegionOff
      BY <1>0, <1>3, WeightRest
    <2>6. Weight(Ord, H) = Weight(ord2, H2) + 2^k
      <3>1. H2 \in SUBSET B /\ off \in B \ H2 /\ H = H2 \cup {off} /\ Ord[off] = k
        <4>1. off \in H
          BY DEF H
        <4>2. off \notin H2 /\ H = H2 \cup {off} /\ H2 \in SUBSET B
          BY <4>1
        <4> QED
          BY <1>1, <1>3, <4>2
      <3>2. \A b \in H2 : ord2[b] = Ord[b]
        BY <1>11, <1>18
      <3> HIDE DEF B, H2, ord2
      <3>3. Weight(Ord, H2 \cup {off}) = Weight(Ord, H2) + 2^Ord[off]
        BY <1>0, <3>1, WeightAdd
      <3> QED
        BY <3>1, <3>2, <3>3, WeightSame
    <2>7. Weight(ord2, F2) + Weight(ord2, H2) = ArenaSize - RegionOff
      <3>1. F2 \cap H2 = {} /\ Tiles(ord2, F2 \cup H2)
        <4>1. F2 \cap H2 = {} /\ F2 \cup H2 = (B \ G) \cup {start}
          BY <1>14, <1>15, <1>16
        <4> QED
          BY <1>10, <4>1
      <3> HIDE DEF F2, H2, ord2
      <3> QED
        BY <3>1, WeightRest
    <2>8. /\ Weight(Ord, F) \in Nat /\ Weight(Ord, H) \in Nat
          /\ Weight(ord2, F2) \in Nat /\ Weight(ord2, H2) \in Nat
      BY WeightType
    <2>9. 2^k \in Nat /\ ArenaSize \in Nat /\ RegionOff \in Nat
      BY <1>1, OrderFacts, Powers
    <2> HIDE DEF F2, H2, ord2
    <2>10. Weight(ord2, F2) = Weight(Ord, F) + 2^k /\ Weight(ord2, H2) = Weight(Ord, H) - 2^k
      BY <2>5, <2>6, <2>7, <2>8, <2>9
    <2>11. count' = Counts(ord2, F2, H2)
      <3>1. /\ count.used_bytes = Weight(Ord, H) /\ count.free_bytes = Weight(Ord, F)
            /\ count.live_blocks = Cardinality(H) /\ count.free_blocks = Cardinality(F)
        BY <1>0 DEF Counts
      <3> QED
        BY <1>2, <2>2, <2>4, <2>10, <3>1 DEF CountFree, Counts
    <2> QED
      BY <2>11 DEF F2, H2
  <1>23. Tiles(Ord', FreeOffs' \cup (DOMAIN held)')
    BY <1>10, <1>16
  <1>24. count' = Counts(Ord', FreeOffs', (DOMAIN held)')
    BY <1>14, <1>15, <1>22
  <1>25. \A o \in DOMAIN held \ {off} : hdr'[o] = hdr[o]
    BY <1>18 DEF H
  <1> QED
    BY <1>17, <1>19, <1>20, <1>21, <1>23, <1>24, <1>25 DEF BuddyInv

-----------------------------------------------------------------------------
\* every step keeps the invariant
LEMMA NextInv ==
    ASSUME ArenaAssumption, BuddyRequestAssumption, BuddyInv, [BuddyNext]_buddyvars
    PROVE  BuddyInv'
  <1>0. ASSUME UNCHANGED buddyvars PROVE BuddyInv'
    <2>1. hdr' = hdr /\ lists' = lists /\ count' = count /\ held' = held
      BY <1>0 DEF buddyvars
    <2>2. Ord' = Ord /\ FreeOffs' = FreeOffs /\ \A k \in Orders : OnList(k)' = OnList(k)
      BY <2>1 DEF Ord, FreeOffs, OnList
    <2>3. \A k \in MinOrder .. (MaxOrder - 1) : OnList(k)' = OnList(k)
      BY <2>1 DEF OnList
    <2>4. ListsOk'
      BY <2>1, <2>2 DEF BuddyInv, ListsOk
    <2>5. HeldOk'
      BY <2>1 DEF BuddyInv, HeldOk
    <2>6. FullyMerged'
      BY <2>3 DEF BuddyInv, FullyMerged
    <2>7. (DOMAIN held)' = DOMAIN held
      BY <2>1
    <2> QED
      BY <2>1, <2>2, <2>4, <2>5, <2>6, <2>7 DEF BuddyInv
  <1>1. CASE \E size \in BuddySizes, k \in Orders : BuddyAlloc(size, k)
    BY <1>1, AllocInv
  <1>2. CASE \E size \in BuddySizes : BuddyAllocFails(size)
    BY <1>0, <1>2 DEF BuddyAllocFails
  <1>3. CASE \E off \in DOMAIN held : BuddyFreeBlock(off)
    BY <1>3, FreeInv
  <1>4. CASE \E off \in DOMAIN held, content \in Contents : BuddyWrite(off, content)
    BY <1>4, WriteInv
  <1>5. CASE UNCHANGED buddyvars
    BY <1>0, <1>5
  <1> QED
    BY <1>1, <1>2, <1>3, <1>4, <1>5 DEF BuddyNext

(* The inductive invariant holds in an arena of any size, whatever requests *)
(* are made and whatever callers write into the blocks they hold.          *)
THEOREM Invariance ==
    ASSUME ArenaAssumption, BuddyRequestAssumption
    PROVE  BuddySpec => []BuddyInv
  <1>1. BuddyInit => BuddyInv
    BY InitInv
  <1>2. BuddyInv /\ [BuddyNext]_buddyvars => BuddyInv'
    BY NextInv
  <1> QED
    BY <1>1, <1>2, PTL DEF BuddySpec

(* The blocks on the free lists and the blocks callers hold partition the  *)
(* region, each aligned to its size and each with the header buddy_free    *)
(* and the merge loop go by, in an arena of any size.                      *)
THEOREM HeapIsCovered ==
    ASSUME ArenaAssumption, BuddyRequestAssumption
    PROVE  BuddySpec => []ListsCoverHeap
  <1>1. BuddyInv => ListsCoverHeap
    BY InvCovers
  <1> QED
    BY <1>1, Invariance, PTL

(* No two free buddies below the top order are left unmerged, so that once *)
(* nothing is held the free lists are those of buddy_init, in whatever     *)
(* order blocks came back; and the counters are the bytes and the numbers  *)
(* of the blocks there are.                                                *)
THEOREM MergedAndCountedAlways ==
    ASSUME ArenaAssumption, BuddyRequestAssumption
    PROVE  BuddySpec => []MergedAndCounted
  <1>1. BuddyInv => MergedAndCounted
    BY InvCovers
  <1> QED
    BY <1>1, Invariance, PTL

-----------------------------------------------------------------------------
(* Refinement of the strategy contract.                                    *)
\* Live, with the variables it reads as arguments
LiveOf(h, a) == [p \in {o \div BuddyUnit + 1 : o \in DOMAIN a} |->
                   LET o == (p - 1) * BuddyUnit IN
                   [len |-> (2^h[o].order - Header) \div BuddyUnit, asked |-> a[o]]]

Payload(o) == o \div BuddyUnit + 1
Payloads(S) == {Payload(o) : o \in S}

LiveCell(h, a, o) == [len |-> (2^h[o].order - Header) \div BuddyUnit, asked |-> a[o]]
Narrow(f, S) == [p \in S |-> f[p]]

\* offsets and sizes are whole numbers of 16-byte cells
LEMMA InUnits ==
    ASSUME ArenaAssumption
    PROVE  /\ \A o \in Offsets : /\ o \in Nat /\ Payload(o) \in Nat
                                 /\ (Payload(o) - 1) * BuddyUnit = o
           /\ \A k \in Orders : LET len == (2^k - Header) \div BuddyUnit
                                IN  len \in Nat \ {0} /\ 2^k = (len + 1) * BuddyUnit
           /\ ArenaSize \div BuddyUnit \in Nat /\ (ArenaSize \div BuddyUnit) * BuddyUnit = ArenaSize
  <1>1. 2^MinOrder = 32 /\ MinOrder \in Nat /\ BuddyUnit = 16 /\ Header = 16
    BY DEF MinOrder, BuddyUnit, Header
  <1>2. ASSUME NEW x, Aligned(x, MinOrder)
        PROVE  x \in Nat /\ x \div 16 \in Nat /\ (x \div 16) * 16 = x
    <2>1. x \in Nat /\ x % 32 = 0
      BY <1>1, <1>2 DEF Aligned
    <2> QED
      BY <2>1
  <1>3. ASSUME NEW o \in Offsets
        PROVE  o \in Nat /\ Payload(o) \in Nat /\ (Payload(o) - 1) * BuddyUnit = o
    <2>1. o \in Nat /\ o \div 16 \in Nat /\ (o \div 16) * 16 = o
      BY <1>2, OffsetsAre
    <2>2. (o \div 16 + 1) - 1 = o \div 16
      BY <2>1
    <2> QED
      BY <1>1, <2>1, <2>2 DEF Payload
  <1>4. ASSUME NEW k \in Orders
        PROVE  LET len == (2^k - Header) \div BuddyUnit
               IN  len \in Nat \ {0} /\ 2^k = (len + 1) * BuddyUnit
    <2> DEFINE p == 2^k
    <2>1. k \in Nat /\ MinOrder <= k
      BY OrderFacts
    <2>2. Aligned(p, MinOrder) /\ 32 <= p
      BY <1>1, <2>1, AlignedFiner, Powers
    <2>3. p \in Nat /\ p % 32 = 0
      BY <1>1, <2>2 DEF Aligned
    <2> HIDE DEF p
    <2>4. (p - 16) \div 16 \in Nat \ {0} /\ p = ((p - 16) \div 16 + 1) * 16
      BY <2>2, <2>3
    <2> QED
      BY <1>1, <2>4 DEF p
  <1>5. ArenaSize \div BuddyUnit \in Nat /\ (ArenaSize \div BuddyUnit) * BuddyUnit = ArenaSize
    BY <1>1, <1>2, OrderFacts
  <1> QED
    BY <1>3, <1>4, <1>5

\* the entry of each held block
LEMMA LiveAt ==
    ASSUME ArenaAssumption, NEW h, NEW a, DOMAIN a \subseteq Offsets
    PROVE  /\ DOMAIN LiveOf(h, a) = Payloads(DOMAIN a)
           /\ \A o \in DOMAIN a : LiveOf(h, a)[Payload(o)] = LiveCell(h, a, o)
           /\ LiveOf(h, a) = Narrow(LiveOf(h, a), Payloads(DOMAIN a))
           /\ \A o, q \in Offsets : Payload(o) = Payload(q) => o = q
  <1> DEFINE L == LiveOf(h, a)
  <1>1. \A o \in Offsets : (Payload(o) - 1) * BuddyUnit = o
    BY InUnits
  <1>2. \A o, q \in Offsets : Payload(o) = Payload(q) => o = q
    BY <1>1
  <1>3. DOMAIN L = Payloads(DOMAIN a)
    BY DEF LiveOf, Payload, Payloads
  <1>4. ASSUME NEW o \in DOMAIN a
        PROVE  L[Payload(o)] = LiveCell(h, a, o)
    <2>1. L[Payload(o)]
             = LET x == (Payload(o) - 1) * BuddyUnit IN
               [len |-> (2^h[x].order - Header) \div BuddyUnit, asked |-> a[x]]
      BY DEF LiveOf, Payload
    <2>2. (Payload(o) - 1) * BuddyUnit = o
      BY <1>1
    <2> QED
      BY <2>1, <2>2, Zenon DEF LiveCell
  <1>5. L = [p \in DOMAIN L |-> L[p]]
    BY DEF LiveOf
  <1> HIDE DEF L
  <1>6. L = Narrow(L, Payloads(DOMAIN a))
    BY <1>3, <1>5 DEF Narrow
  <1> QED
    BY <1>2, <1>3, <1>4, <1>6 DEF L

\* Live reads the headers and the requests only
LEMMA LiveIs == BuddyLive = LiveOf(hdr, held) /\ BuddyLive' = LiveOf(hdr', held')
  BY DEF BuddyLive, LiveOf, BuddyUsableSize

\* what is live is a function of the held blocks and their headers
LEMMA LiveSame ==
    ASSUME ArenaAssumption, NEW h, NEW a, NEW h2, NEW a2,
           DOMAIN a \subseteq Offsets, DOMAIN a2 \subseteq DOMAIN a,
           \A o \in DOMAIN a2 : h2[o] = h[o] /\ a2[o] = a[o]
    PROVE  LiveOf(h2, a2) = Narrow(LiveOf(h, a), Payloads(DOMAIN a2))
  <1> DEFINE L == LiveOf(h, a)
             L2 == LiveOf(h2, a2)
             D == Payloads(DOMAIN a2)
  <1>1. DOMAIN a2 \subseteq Offsets
    OBVIOUS
  <1>2. \A o \in DOMAIN a2 : L2[Payload(o)] = L[Payload(o)]
    <2> TAKE o \in DOMAIN a2
    <2>1. L2[Payload(o)] = LiveCell(h2, a2, o)
      BY <1>1, LiveAt
    <2>2. o \in DOMAIN a
      OBVIOUS
    <2>3. L[Payload(o)] = LiveCell(h, a, o)
      BY <2>2, LiveAt
    <2> QED
      BY <2>1, <2>3 DEF LiveCell
  <1>3. L2 = Narrow(L2, D)
    BY <1>1, LiveAt
  <1> HIDE DEF L, L2
  <1>4. \A p \in D : L2[p] = L[p]
    BY <1>2 DEF Payloads
  <1> HIDE DEF D
  <1>5. [p \in D |-> L2[p]] = [p \in D |-> L[p]]
    BY <1>4
  <1>6. L2 = Narrow(L, D)
    BY <1>3, <1>5 DEF Narrow
  <1> QED
    BY <1>6 DEF D, L, L2

\* nothing is live at first
LEMMA InitRefines ==
    ASSUME BuddyInit
    PROVE  BuddyHeap!Init
  <1>1. DOMAIN held = {}
    BY DEF BuddyInit
  <1> QED
    BY <1>1 DEF BuddyLive, BuddyHeap!Init

\* an allocation is one of the contract's
LEMMA AllocRefines ==
    ASSUME ArenaAssumption, BuddyRequestAssumption, BuddyInv,
           NEW size \in BuddySizes, NEW k \in Orders, BuddyAlloc(size, k)
    PROVE  BuddyHeap!Next
  <1> DEFINE want == OrderOf(size + Header)
             off == Head(lists[k])
             H == DOMAIN held
             p == Payload(off)
             len == (2^want - Header) \div BuddyUnit
             R == ArenaSize \div BuddyUnit
  <1>1. /\ want \in Orders /\ size \in Nat /\ size <= 2^want - Header
        /\ off \in Offsets /\ off \notin H
    BY AllocTakes
  <1>2. /\ BuddyInv' /\ \A o \in H : hdr'[o] = hdr[o]
        /\ hdr'[off] = UsedHeader(want)
    BY AllocInv
  <1>3. held' = [o \in H \cup {off} |-> IF o = off THEN size ELSE held[o]]
    BY DEF BuddyAlloc
  <1>4. /\ DOMAIN held' = H \cup {off} /\ held'[off] = size
        /\ \A o \in H : held'[o] = held[o]
    BY <1>1, <1>3
  <1>5. H \subseteq Offsets
    BY DEF BuddyInv, HeldOk
  <1> HIDE DEF want, off, H
  <1>6. hdr'[off].order = want
    BY <1>1, <1>2, HeaderIs
  <1> DEFINE B2 == FreeOffs' \cup DOMAIN held'
             ord2 == Ord'
  <1>7. /\ Tiles(ord2, B2) /\ off \in B2 /\ H \subseteq B2
        /\ ord2[off] = want /\ \A o \in H : ord2[o] = hdr[o].order
    <2>1. Tiles(Ord', FreeOffs' \cup (DOMAIN held)')
      BY <1>2 DEF BuddyInv
    <2>2. \A o \in Offsets : Ord'[o] = hdr'[o].order
      BY DEF Ord
    <2> QED
      BY <1>1, <1>2, <1>4, <1>5, <1>6, <2>1, <2>2
  <1> HIDE DEF B2, ord2
  <1>8. /\ off \in Nat /\ p \in Nat /\ (p - 1) * 16 = off
        /\ len \in Nat \ {0} /\ 2^want = (len + 1) * 16
        /\ R \in Nat /\ R * 16 = ArenaSize
    BY <1>1, InUnits DEF BuddyUnit
  <1> HIDE DEF p, len, R
  <1>9. off + 2^want <= ArenaSize
    BY <1>7, TileFits
  <1>10. p + len <= R /\ p \in 0 .. (R - 1) /\ len \in 1 .. R
    BY <1>8, <1>9
  <1>11. size <= len * 16
    BY <1>1, <1>8 DEF Header
  <1> DEFINE L == LiveOf(hdr, held)
  <1>12. p \notin DOMAIN L
    <2>1. DOMAIN L = Payloads(H)
      BY <1>5, LiveAt DEF H
    <2>2. \A o \in H : Payload(o) # p
      BY <1>1, <1>5, LiveAt DEF H, p
    <2> QED
      BY <2>1, <2>2 DEF Payloads
  <1>13. \A q \in DOMAIN L : p + len <= q \/ q + L[q].len <= p
    <2> TAKE q \in DOMAIN L
    <2>1. PICK o \in H : q = Payload(o)
      <3>1. DOMAIN L = Payloads(H)
        BY <1>5, LiveAt DEF H
      <3> QED
        BY <3>1 DEF Payloads
    <2> DEFINE n == (2^hdr[o].order - Header) \div BuddyUnit
    <2>2. L[q].len = n
      <3>1. L[Payload(o)] = LiveCell(hdr, held, o)
        BY <1>5, LiveAt DEF H
      <3> QED
        BY <2>1, <3>1 DEF LiveCell
    <2>3. hdr[o].order \in Orders /\ o \in Offsets
      BY <1>5, <1>7, TileFits
    <2>4. /\ o \in Nat /\ q \in Nat /\ (q - 1) * 16 = o
          /\ n \in Nat \ {0} /\ 2^hdr[o].order = (n + 1) * 16
      BY <2>1, <2>3, InUnits DEF BuddyUnit
    <2>5. off + 2^want <= o \/ o + 2^hdr[o].order <= off
      <3>1. o \in B2 /\ o # off /\ ord2[o] = hdr[o].order
        BY <1>1, <1>7
      <3> QED
        BY <1>7, <3>1, TilesApart
    <2> HIDE DEF n, L
    <2>6. off + (len + 1) * 16 <= o \/ o + (n + 1) * 16 <= off
      BY <1>8, <2>4, <2>5
    <2> QED
      BY <1>8, <2>2, <2>4, <2>6
  <1>14. LiveOf(hdr', held') = [q \in DOMAIN L \cup {p} |->
                                   IF q = p THEN [len |-> len, asked |-> size] ELSE L[q]]
    <2> DEFINE L2 == LiveOf(hdr', held')
    <2>1. DOMAIN held' \subseteq Offsets
      BY <1>1, <1>4, <1>5
    <2>2. /\ DOMAIN L2 = Payloads(DOMAIN held')
          /\ DOMAIN L = Payloads(H)
      BY <1>5, <2>1, LiveAt DEF H
    <2>3. DOMAIN L2 = DOMAIN L \cup {p}
      BY <1>4, <2>2 DEF p, Payloads
    <2>4. L2[p] = [len |-> len, asked |-> size]
      <3>1. L2[Payload(off)] = LiveCell(hdr', held', off)
        BY <1>4, <2>1, LiveAt
      <3> QED
        BY <1>4, <1>6, <3>1 DEF p, len, LiveCell
    <2>5. \A o \in H : L2[Payload(o)] = L[Payload(o)]
      <3> TAKE o \in H
      <3>1. L2[Payload(o)] = LiveCell(hdr', held', o)
        BY <1>4, <2>1, LiveAt
      <3>2. L[Payload(o)] = LiveCell(hdr, held, o)
        BY <1>5, LiveAt DEF H
      <3>3. hdr'[o] = hdr[o] /\ held'[o] = held[o]
        BY <1>2, <1>4
      <3> QED
        BY <3>1, <3>2, <3>3 DEF LiveCell
    <2>6. L2 = [q \in DOMAIN L2 |-> L2[q]]
      BY DEF LiveOf
    <2> HIDE DEF L, L2
    <2>7. \A q \in DOMAIN L : L2[q] = L[q]
      BY <2>2, <2>5 DEF Payloads
    <2>8. L2 = [q \in DOMAIN L \cup {p} |->
                  IF q = p THEN [len |-> len, asked |-> size] ELSE L[q]]
      BY <2>3, <2>4, <2>6, <2>7
    <2> QED
      BY <2>8 DEF L2
  <1>15. BuddyLive = L /\ BuddyLive' = LiveOf(hdr', held')
    BY LiveIs
  <1> HIDE DEF L
  <1>16. \A q \in DOMAIN BuddyLive : BuddyHeap!Clear(p, len, q)
    BY <1>13, <1>15 DEF BuddyHeap!Clear
  <1>17. BuddyHeap!Allocate(size, p, len)
    <2>1. p + len <= ArenaSize \div BuddyUnit
      BY <1>10 DEF R
    <2>2. size <= len * BuddyHeap!Unit
      BY <1>11 DEF BuddyHeap!Unit
    <2> QED
      BY <1>12, <1>14, <1>15, <1>16, <2>1, <2>2 DEF BuddyHeap!Allocate
  <1> QED
    BY <1>10, <1>17 DEF BuddyHeap!Next, R

\* giving a block back releases it, and leaves the others as they are
LEMMA FreeRefines ==
    ASSUME ArenaAssumption, BuddyInv, NEW off \in DOMAIN held, BuddyFreeBlock(off)
    PROVE  BuddyHeap!Next
  <1> DEFINE H == DOMAIN held
             L == LiveOf(hdr, held)
             p == Payload(off)
  <1>1. \A o \in H \ {off} : hdr'[o] = hdr[o]
    BY FreeInv
  <1>2. held' = [o \in H \ {off} |-> held[o]]
    BY DEF BuddyFreeBlock
  <1>3. DOMAIN held' = H \ {off} /\ \A o \in H \ {off} : held'[o] = held[o]
    BY <1>2
  <1>4. H \subseteq Offsets
    BY DEF BuddyInv, HeldOk
  <1>5. LiveOf(hdr', held') = Narrow(L, Payloads(DOMAIN held'))
    BY <1>1, <1>3, <1>4, LiveSame
  <1>6. DOMAIN L = Payloads(H)
    BY <1>4, LiveAt
  <1>7. p \in DOMAIN L /\ Payloads(DOMAIN held') = DOMAIN L \ {p}
    <2>1. \A o, q \in H : Payload(o) = Payload(q) => o = q
      BY <1>4, LiveAt
    <2> HIDE DEF L
    <2> QED
      BY <1>3, <1>6, <2>1 DEF Payloads
  <1>8. BuddyLive = L /\ BuddyLive' = LiveOf(hdr', held')
    BY LiveIs
  <1> HIDE DEF L, p
  <1>9. p \in DOMAIN BuddyLive /\ BuddyLive' = [q \in DOMAIN BuddyLive \ {p} |-> BuddyLive[q]]
    BY <1>5, <1>7, <1>8 DEF Narrow
  <1> QED
    BY <1>9 DEF BuddyHeap!Next, BuddyHeap!Release

\* writing into a held block changes no block that is live
LEMMA WriteRefines ==
    ASSUME ArenaAssumption, BuddyInv,
           NEW off \in DOMAIN held, NEW content \in Contents, BuddyWrite(off, content)
    PROVE  UNCHANGED BuddyLive
  <1>1. held' = held /\ \A o \in DOMAIN held : hdr'[o] = hdr[o]
    BY WriteInv DEF BuddyWrite
  <1>2. DOMAIN held \subseteq Offsets
    BY DEF BuddyInv, HeldOk
  <1>3. LiveOf(hdr', held') = Narrow(LiveOf(hdr, held), Payloads(DOMAIN held))
    BY <1>1, <1>2, LiveSame
  <1>4. LiveOf(hdr, held) = Narrow(LiveOf(hdr, held), Payloads(DOMAIN held))
    BY <1>2, LiveAt
  <1> QED
    BY <1>3, <1>4, LiveIs

\* every step is a step of the contract or none
LEMMA NextRefines ==
    ASSUME ArenaAssumption, BuddyRequestAssumption, BuddyInv, [BuddyNext]_buddyvars
    PROVE  [BuddyHeap!Next]_BuddyLive
  <1>0. ASSUME UNCHANGED buddyvars PROVE UNCHANGED BuddyLive
    BY <1>0 DEF buddyvars, BuddyLive, BuddyUsableSize
  <1>1. CASE \E size \in BuddySizes, k \in Orders : BuddyAlloc(size, k)
    BY <1>1, AllocRefines
  <1>2. CASE \E size \in BuddySizes : BuddyAllocFails(size)
    BY <1>0, <1>2 DEF BuddyAllocFails
  <1>3. CASE \E off \in DOMAIN held : BuddyFreeBlock(off)
    BY <1>3, FreeRefines
  <1>4. CASE \E off \in DOMAIN held, content \in Contents : BuddyWrite(off, content)
    BY <1>4, WriteRefines
  <1>5. CASE UNCHANGED buddyvars
    BY <1>0, <1>5
  <1> QED
    BY <1>1, <1>2, <1>3, <1>4, <1>5 DEF BuddyNext

(* The buddy system implements the contract of AllocStrategy: the blocks   *)
(* handed out are disjoint, inside the arena and large enough, and stay    *)
(* where and as long as they are until freed, whatever callers write.      *)
THEOREM BuddyRefinement ==
    ASSUME ArenaAssumption, BuddyRequestAssumption
    PROVE  BuddySpec => BuddyContract
  <1>1. BuddyInit => BuddyHeap!Init
    BY InitRefines
  <1>2. BuddyInv /\ [BuddyNext]_buddyvars => [BuddyHeap!Next]_BuddyLive
    BY NextRefines
  <1> QED
    BY <1>1, <1>2, Invariance, PTL DEF BuddySpec, BuddyContract, BuddyHeap!Spec
=============================================================================
