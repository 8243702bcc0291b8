----------------------------- MODULE AluProofs -----------------------------
(***************************************************************************)
(* What AluCheck checks for small instances, for all of them: the          *)
(* arithmetic of the EX stage is that of RV32I for values of any width;    *)
(* the decoder undoes the formats of RV32I, for every instruction and so   *)
(* for every word that is one.                                             *)
(***************************************************************************)
EXTENDS AluCheck, NaturalsInduction, WellFoundedInduction, TLAPS

\* Induction: a set of numbers that is not empty has a least one.
LEMMA LeastElement ==
    ASSUME NEW T \in SUBSET Nat, T # {}
    PROVE  \E x \in T : \A y \in T : x <= y
<1>1. IsWellFoundedOn(OpToRel(<, Nat), Nat)
  BY NatLessThanWellFounded
<1>2. PICK x \in T : \A y \in T : ~(<<y, x>> \in OpToRel(<, Nat))
  BY <1>1, WFMin
<1>3. ASSUME NEW y \in T PROVE x <= y
  <2>1. x \in Nat /\ y \in Nat
    OBVIOUS
  <2>2. ASSUME y < x PROVE <<y, x>> \in OpToRel(<, Nat)
    BY <2>1, <2>2 DEF OpToRel
  <2>3. ~(y < x)
    BY <1>2, <2>2
  <2> QED
    BY <2>1, <2>3
<1> QED
  BY <1>3
-----------------------------------------------------------------------------
(* Quotients and remainders.                                               *)

\* Quotients are determined by their products,
LEMMA DivUnique ==
    ASSUME NEW P \in Nat \ {0}, NEW q \in Int, NEW r \in 0 .. P - 1
    PROVE  (P * q + r) \div P = q /\ (P * q + r) % P = r
  OBVIOUS

\* which leave a remainder.
LEMMA DivRest ==
    ASSUME NEW P \in Nat \ {0}, NEW x \in Int
    PROVE  /\ x = P * (x \div P) + (x % P) /\ x \div P \in Int /\ x % P \in 0 .. P - 1
           /\ x >= 0 => x \div P >= 0
  OBVIOUS

\* A multiple of P moves out of a quotient by P.
LEMMA DivShift ==
    ASSUME NEW P \in Nat \ {0}, NEW x \in Int, NEW k \in Int
    PROVE  (x + P * k) \div P = (x \div P) + k /\ (x + P * k) % P = x % P
<1> DEFINE q == x \div P
           r == x % P
<1>1. x = P * q + r /\ q \in Int /\ r \in 0 .. P - 1
  BY DivRest
<1> HIDE DEF q, r
<1>2. x + P * k = P * (q + k) + r
  BY <1>1
<1> DEFINE s == q + k
<1>3. s \in Int
  BY <1>1
<1> HIDE DEF s
<1>4. (P * s + r) \div P = s /\ (P * s + r) % P = r
  BY <1>1, <1>3, DivUnique
<1> QED
  BY <1>2, <1>4 DEF q, r, s

\* Dividing twice.
LEMMA DivTwice ==
    ASSUME NEW P \in Nat \ {0}, NEW Q \in Nat \ {0}, NEW x \in Int
    PROVE  /\ x \div (P * Q) = (x \div P) \div Q
           /\ x % (P * Q) = P * ((x \div P) % Q) + (x % P)
<1> DEFINE y == x \div P
           r == x % P
           z == y \div Q
           s == y % Q
<1>1. x = P * y + r /\ y \in Int /\ r \in 0 .. P - 1
  BY DivRest
<1> HIDE DEF y, r
<1>2. y = Q * z + s /\ z \in Int /\ s \in 0 .. Q - 1
  BY <1>1, DivRest
<1> HIDE DEF z, s
<1> DEFINE R == P * s + r
           PQ == P * Q
<1>3. R \in 0 .. PQ - 1 /\ PQ \in Nat \ {0}
  <2>1. P * s <= P * (Q - 1) /\ P * s >= 0 /\ P * s \in Int
    BY <1>2
  <2>2. P * (Q - 1) = PQ - P /\ PQ \in Int
    OBVIOUS
  <2>3. PQ >= P
    OBVIOUS
  <2> HIDE DEF PQ
  <2> QED
    BY <1>1, <2>1, <2>2, <2>3
<1>4. x = PQ * z + R
  <2>1. P * y = P * (Q * z) + P * s
    BY <1>2
  <2>2. P * (Q * z) = (P * Q) * z
    BY <1>2
  <2> QED
    BY <1>1, <1>2, <2>1, <2>2
<1> HIDE DEF R, PQ
<1>5. x \div PQ = z /\ x % PQ = R
  BY <1>2, <1>3, <1>4, DivUnique
<1> QED
  BY <1>5 DEF R, PQ, z, s, y, r

\* Even and odd.
LEMMA ModDouble ==
    ASSUME NEW P \in Nat \ {0}, NEW x \in Int
    PROVE  x % (P * 2) = P * ((x \div P) % 2) + (x % P)
<1> DEFINE Q == 2
<1>1. Q \in Nat \ {0}
  OBVIOUS
<1> HIDE DEF Q
<1>2. x % (P * Q) = P * ((x \div P) % Q) + (x % P)
  BY <1>1, DivTwice
<1> QED
  BY <1>2 DEF Q

\* A common factor.
LEMMA DivCancel ==
    ASSUME NEW P \in Nat \ {0}, NEW Q \in Nat \ {0}, NEW x \in Int
    PROVE  (P * x) \div (P * Q) = x \div Q
<1>1. (P * x) \div P = x
  <2> DEFINE y == P * x + 0
  <2>1. y \div P = x
    BY DivUnique
  <2> QED
    BY <2>1
<1>2. P * x \in Int
  OBVIOUS
<1> DEFINE w == P * x
<1> HIDE DEF w
<1>3. w \div (P * Q) = (w \div P) \div Q
  BY <1>2, DivTwice DEF w
<1> QED
  BY <1>1, <1>3 DEF w

-----------------------------------------------------------------------------
(* Powers of two and the bits of a value.                                  *)

\* Powers up to 2^XLEN are positive.
LEMMA PowerType ==
    ASSUME NEW n \in 0 .. XLEN
    PROVE  2^n \in Nat \ {0}
  BY PowerAssumption

\* A power splits at any exponent below,
LEMMA PowerSplit ==
    ASSUME NEW n \in 0 .. XLEN, NEW m \in 0 .. n
    PROVE  2^n = 2^m * 2^(n - m)
<1> DEFINE d == n - m
<1>1. m \in 0 .. XLEN /\ d \in 0 .. XLEN /\ m + d = n
  BY XlenAssumption
<1> HIDE DEF d
<1>2. 2^(m + d) = 2^m * 2^d
  BY <1>1, PowerAssumption
<1> QED
  BY <1>1, <1>2 DEF d

\* and doubles at each step.
LEMMA PowerStep ==
    ASSUME NEW n \in 0 .. XLEN - 1
    PROVE  2^(n + 1) = 2^n * 2
<1> DEFINE m == n + 1
<1>1. m \in 0 .. XLEN /\ n \in 0 .. m /\ m - n = 1
  BY XlenAssumption
<1>2. 2^1 = 2
  OBVIOUS
<1> HIDE DEF m
<1>3. 2^m = 2^n * 2^(m - n)
  BY <1>1, PowerSplit
<1> QED
  BY <1>1, <1>2, <1>3 DEF m

\* A bit is 0 or 1.
LEMMA BitType ==
    ASSUME NEW x \in Int, NEW i \in 0 .. XLEN - 1
    PROVE  BitAt(x, i) \in {0, 1}
<1>1. 2^i \in Nat \ {0}
  BY PowerType, XlenAssumption
<1> DEFINE P == 2^i
<1> HIDE DEF P
<1> QED
  BY <1>1 DEF BitAt, P

\* What lies above bit n does not show below it.
LEMMA BitLow ==
    ASSUME NEW x \in Int, NEW n \in 0 .. XLEN, NEW i \in 0 .. n - 1, NEW k \in Int
    PROVE  BitAt(x + 2^n * k, i) = BitAt(x, i)
<1> DEFINE P == 2^i
           m == i + 1
           Q == 2^(n - m)
<1>1. m \in 0 .. n /\ n - m \in 0 .. XLEN /\ i \in 0 .. XLEN - 1
  BY XlenAssumption
<1>2. P \in Nat \ {0} /\ Q \in Nat \ {0}
  BY <1>1, PowerType, XlenAssumption
<1>3. 2^n = (P * 2) * Q
  <2>1. 2^n = 2^m * 2^(n - m)
    BY <1>1, PowerSplit
  <2>2. 2^m = P * 2
    BY <1>1, PowerStep
  <2> QED
    BY <2>1, <2>2
<1> HIDE DEF P, Q, m
<1> DEFINE j == Q * k
           h == 2 * j
<1>4. j \in Int
  BY <1>2
<1>5. 2^n * k = P * h
  BY <1>2, <1>3
<1> HIDE DEF j
<1>6. h \in Int
  BY <1>4
<1> HIDE DEF h
<1>7. (x + P * h) \div P = (x \div P) + h
  BY <1>2, <1>6, DivShift
<1> DEFINE y == x \div P
<1>8. y \in Int
  BY <1>2
<1> HIDE DEF y
<1>9. (y + 2 * j) % 2 = y % 2
  BY <1>4, <1>8
<1> QED
  BY <1>5, <1>7, <1>9 DEF BitAt, P, y, h

\* A value is its bits.
LEMMA BitsUnique ==
    ASSUME NEW u \in Value, NEW v \in Value, \A i \in 0 .. XLEN - 1 : BitAt(u, i) = BitAt(v, i)
    PROVE  u = v
<1> DEFINE T == {k \in 0 .. XLEN : u % 2^k # v % 2^k}
<1>1. u \in Int /\ v \in Int /\ XLEN \in 0 .. XLEN /\ 2^XLEN \in Nat \ {0}
  BY XlenAssumption, PowerType DEF Value
<1>2. CASE T = {}
  <2>1. u % 2^XLEN = v % 2^XLEN
    BY <1>1, <1>2
  <2>2. u % 2^XLEN = u /\ v % 2^XLEN = v
    <3> DEFINE P == 2^XLEN
    <3>1. u \in 0 .. P - 1 /\ v \in 0 .. P - 1 /\ P \in Nat \ {0}
      BY <1>1 DEF Value
    <3> HIDE DEF P
    <3>2. u % P = u /\ v % P = v
      BY <3>1
    <3> QED
      BY <3>2 DEF P
  <2> QED
    BY <2>1, <2>2
<1>3. CASE T # {}
  <2>1. PICK k \in T : \A j \in T : k <= j
    <3>1. T \in SUBSET Nat
      BY XlenAssumption
    <3> HIDE DEF T
    <3> QED
      BY <1>3, <3>1, LeastElement
  <2>2. k \in 0 .. XLEN /\ u % 2^k # v % 2^k
    OBVIOUS
  <2>3. k # 0
    <3>1. 2^0 = 1 /\ u % 1 = 0 /\ v % 1 = 0
      BY <1>1
    <3> QED
      BY <2>2, <3>1
  <2> DEFINE m == k - 1
             P == 2^m
  <2>4. m \in 0 .. XLEN - 1 /\ m \in 0 .. XLEN /\ m + 1 = k /\ m < k
    BY <2>2, <2>3, XlenAssumption
  <2>5. P \in Nat \ {0} /\ 2^k = P * 2
    BY <2>4, PowerType, PowerStep
  <2>6. u % P = v % P
    <3>1. m \notin T
      BY <2>1, <2>4
    <3> QED
      BY <2>4, <3>1
  <2>7. BitAt(u, m) = BitAt(v, m)
    BY <2>4
  <2> HIDE DEF P, T
  <2>8. /\ u % (P * 2) = P * ((u \div P) % 2) + (u % P)
        /\ v % (P * 2) = P * ((v \div P) % 2) + (v % P)
    BY <1>1, <2>5, ModDouble
  <2>9. (u \div P) % 2 = (v \div P) % 2
    BY <2>7 DEF BitAt, P
  <2>10. u % (P * 2) = v % (P * 2)
    BY <2>6, <2>8, <2>9
  <2> QED
    BY <2>2, <2>5, <2>10
<1> QED
  BY <1>2, <1>3

\* Any bits make a value.
LEMMA BitsExist ==
    ASSUME NEW f, \A i \in 0 .. XLEN - 1 : f[i] \in {0, 1}
    PROVE  \E v \in Value : \A i \in 0 .. XLEN - 1 : BitAt(v, i) = f[i]
<1> DEFINE Made(k) == \E v \in 0 .. 2^k - 1 : \A i \in 0 .. k - 1 : BitAt(v, i) = f[i]
           T == {k \in 0 .. XLEN : ~Made(k)}
<1>1. CASE T = {}
  <2>1. XLEN \in 0 .. XLEN
    BY XlenAssumption
  <2>2. Made(XLEN)
    BY <1>1, <2>1
  <2> QED
    BY <2>2 DEF Value
<1>2. CASE T # {}
  <2>1. PICK k \in T : \A j \in T : k <= j
    <3>1. T \in SUBSET Nat
      BY XlenAssumption
    <3> HIDE DEF T
    <3> QED
      BY <1>2, <3>1, LeastElement
  <2>2. k \in 0 .. XLEN /\ ~Made(k)
    OBVIOUS
  <2>3. k # 0
    <3>1. 0 \in 0 .. 2^0 - 1
      OBVIOUS
    <3>2. Made(0)
      BY <3>1
    <3> QED
      BY <2>2, <3>2
  <2> DEFINE m == k - 1
             P == 2^m
  <2>4. m \in 0 .. XLEN - 1 /\ m \in 0 .. XLEN /\ m + 1 = k /\ m < k
    BY <2>2, <2>3, XlenAssumption
  <2>5. P \in Nat \ {0} /\ 2^k = P * 2
    BY <2>4, PowerType, PowerStep
  <2>6. Made(m)
    BY <2>1, <2>4
  <2>7. PICK v \in 0 .. P - 1 : \A i \in 0 .. m - 1 : BitAt(v, i) = f[i]
    BY <2>6
  <2> DEFINE b == f[m]
             w == v + P * b
  <2>8. b \in {0, 1} /\ v \in Int
    BY <2>4, <2>5
  <2>9. w \in 0 .. 2^k - 1
    <3> HIDE DEF P, b
    <3> QED
      BY <2>5, <2>7, <2>8
  <2>10. ASSUME NEW i \in 0 .. k - 1 PROVE BitAt(w, i) = f[i]
    <3>1. CASE i = m
      <4>1. w \div P = b
        <5>1. w = P * b + v
          BY <2>5, <2>7, <2>8
        <5> HIDE DEF P, b, w
        <5>2. b \in Int
          BY <2>8
        <5>3. (P * b + v) \div P = b
          BY <2>5, <2>7, <5>2, DivUnique
        <5> QED
          BY <5>1, <5>3
      <4>2. b % 2 = b
        BY <2>8
      <4> QED
        BY <3>1, <4>1, <4>2 DEF BitAt
    <3>2. CASE i # m
      <4>1. i \in 0 .. m - 1 /\ b \in Int
        BY <2>2, <2>8, <3>2
      <4> HIDE DEF b, m
      <4>2. BitAt(v + 2^m * b, i) = BitAt(v, i)
        BY <2>4, <2>8, <4>1, BitLow
      <4> QED
        BY <2>7, <4>1, <4>2
    <3> QED
      BY <3>1, <3>2
  <2>11. Made(k)
    <3> HIDE DEF w
    <3> QED
      BY <2>9, <2>10
  <2> QED
    BY <2>2, <2>11
<1> QED
  BY <1>1, <1>2

\* FromBits finds the value with given bits.
LEMMA FromBitsRight ==
    ASSUME NEW f, \A i \in 0 .. XLEN - 1 : f[i] \in {0, 1}
    PROVE  /\ FromBits(f) \in Value
           /\ \A i \in 0 .. XLEN - 1 : BitAt(FromBits(f), i) = f[i]
<1>1. \E v \in Value : \A i \in 0 .. XLEN - 1 : BitAt(v, i) = f[i]
  BY BitsExist
<1> QED
  BY <1>1 DEF FromBits

\* The set bits of a value, in the words of the instruction set.
LEMMA OnesBit ==
    ASSUME NEW x
    PROVE  Rv!Ones(x) = {i \in 0 .. XLEN - 1 : BitAt(x, i) = 1}
  BY DEF Rv!Ones, BitAt

\* So does ValOfOnes.
LEMMA ValOfOnesRight ==
    ASSUME NEW S \in SUBSET (0 .. XLEN - 1)
    PROVE  Rv!ValOfOnes(S) \in Value /\ Rv!Ones(Rv!ValOfOnes(S)) = S
<1> DEFINE f == [i \in 0 .. XLEN - 1 |-> IF i \in S THEN 1 ELSE 0]
<1>1. PICK v \in Value : \A i \in 0 .. XLEN - 1 : BitAt(v, i) = f[i]
  <2>1. \A i \in 0 .. XLEN - 1 : f[i] \in {0, 1}
    OBVIOUS
  <2> HIDE DEF f
  <2> QED
    BY <2>1, BitsExist
<1>2. Rv!Ones(v) = S
  <2>1. \A i \in 0 .. XLEN - 1 : BitAt(v, i) = 1 <=> i \in S
    BY <1>1
  <2> QED
    BY <2>1, OnesBit
<1>3. \E x \in 0 .. 2^XLEN - 1 : Rv!Ones(x) = S
  BY <1>2 DEF Value
<1> QED
  BY <1>3 DEF Rv!ValOfOnes, Value

\* A value with the set bits S is the one RV32I names by them.
LEMMA SameOnes ==
    ASSUME NEW v \in Value, NEW S \in SUBSET (0 .. XLEN - 1),
           \A i \in 0 .. XLEN - 1 : BitAt(v, i) = 1 <=> i \in S
    PROVE  v = Rv!ValOfOnes(S)
<1> DEFINE u == Rv!ValOfOnes(S)
<1>1. u \in Value /\ Rv!Ones(u) = S
  BY ValOfOnesRight
<1> HIDE DEF u
<1>2. \A i \in 0 .. XLEN - 1 : BitAt(u, i) = 1 <=> i \in S
  BY <1>1, OnesBit
<1>3. \A i \in 0 .. XLEN - 1 : BitAt(u, i) \in {0, 1} /\ BitAt(v, i) \in {0, 1}
  BY <1>1, BitType DEF Value
<1>4. \A i \in 0 .. XLEN - 1 : BitAt(u, i) = BitAt(v, i)
  BY <1>2, <1>3
<1> QED
  BY <1>1, <1>4, BitsUnique DEF u
-----------------------------------------------------------------------------
(* The operations.                                                         *)

\* Bit by bit.
LEMMA LogicRight ==
    ASSUME NEW a \in Value, NEW b \in Value, NEW alt, NEW f \in {"XOR", "OR", "AND"}
    PROVE  AluOp(f, alt, a, b) \in Value /\ AluOp(f, alt, a, b) = Rv!RvOp(f, alt, a, b)
<1> DEFINE g == CASE f = "XOR" -> [i \in 0 .. XLEN - 1 |-> (BitAt(a, i) + BitAt(b, i)) % 2]
                  [] f = "OR"  -> [i \in 0 .. XLEN - 1 |-> BitAt(a, i) + BitAt(b, i) - BitAt(a, i) * BitAt(b, i)]
                  [] f = "AND" -> [i \in 0 .. XLEN - 1 |-> BitAt(a, i) * BitAt(b, i)]
           S == CASE f = "XOR" -> (Rv!Ones(a) \union Rv!Ones(b)) \ (Rv!Ones(a) \intersect Rv!Ones(b))
                  [] f = "OR"  -> Rv!Ones(a) \union Rv!Ones(b)
                  [] f = "AND" -> Rv!Ones(a) \intersect Rv!Ones(b)
<1>1. AluOp(f, alt, a, b) = FromBits(g)
  BY DEF AluOp
<1>2. Rv!RvOp(f, alt, a, b) = Rv!ValOfOnes(S)
  BY DEF Rv!RvOp
<1>3. ASSUME NEW i \in 0 .. XLEN - 1
      PROVE  g[i] \in {0, 1} /\ (g[i] = 1 <=> i \in S)
  <2> DEFINE p == BitAt(a, i)
             q == BitAt(b, i)
  <2>1. p \in {0, 1} /\ q \in {0, 1}
    BY BitType DEF Value
  <2>2. (i \in Rv!Ones(a) <=> p = 1) /\ (i \in Rv!Ones(b) <=> q = 1)
    BY OnesBit
  <2>3. /\ f = "XOR" => g[i] = (p + q) % 2
        /\ f = "OR" => g[i] = p + q - p * q
        /\ f = "AND" => g[i] = p * q
    OBVIOUS
  <2>4. /\ f = "XOR" => (i \in S <=> p # q)
        /\ f = "OR" => (i \in S <=> p = 1 \/ q = 1)
        /\ f = "AND" => (i \in S <=> p = 1 /\ q = 1)
    <3> HIDE DEF p, q
    <3> QED
      BY <2>1, <2>2
  <2> HIDE DEF p, q, g, S
  <2>5. CASE p = 0
    BY <2>1, <2>3, <2>4, <2>5
  <2>6. CASE p = 1
    BY <2>1, <2>3, <2>4, <2>6
  <2> QED
    BY <2>1, <2>5, <2>6
<1>4. S \in SUBSET (0 .. XLEN - 1)
  BY OnesBit
<1> HIDE DEF g, S
<1>5. FromBits(g) \in Value /\ \A i \in 0 .. XLEN - 1 : BitAt(FromBits(g), i) = g[i]
  BY <1>3, FromBitsRight
<1>6. FromBits(g) = Rv!ValOfOnes(S)
  BY <1>3, <1>4, <1>5, SameOnes
<1> QED
  BY <1>1, <1>2, <1>5, <1>6

\* Shift amounts are below XLEN.
LEMMA ShamtType ==
    ASSUME NEW b \in Value
    PROVE  Shamt(b) \in 0 .. XLEN - 1 /\ Shamt(b) = b % XLEN
  BY XlenAssumption DEF Shamt, Value

\* A wrapped number is a value.
LEMMA WrapFits ==
    ASSUME NEW v \in Int
    PROVE  Wrap(v) \in Value
<1> DEFINE P == 2^XLEN
<1>1. P \in Nat \ {0}
  BY XlenAssumption, PowerType
<1> HIDE DEF P
<1>2. v % P \in 0 .. P - 1
  BY <1>1
<1> QED
  BY <1>2 DEF P, Wrap, Value

\* The bits of a wrapped value.
LEMMA WrapBit ==
    ASSUME NEW v \in Int, NEW i \in 0 .. XLEN - 1
    PROVE  BitAt(Wrap(v), i) = BitAt(v, i)
<1> DEFINE P == 2^XLEN
           q == v \div P
<1>1. P \in Nat \ {0} /\ XLEN \in 0 .. XLEN
  BY XlenAssumption, PowerType
<1>2. v = P * q + Wrap(v) /\ q \in Int /\ Wrap(v) \in Int
  <2> HIDE DEF P
  <2>1. v = P * (v \div P) + (v % P) /\ v \div P \in Int /\ v % P \in Int
    BY <1>1, DivRest
  <2> QED
    BY <2>1 DEF P, Wrap
<1> DEFINE w == Wrap(v)
<1> HIDE DEF q, w
<1>3. BitAt(w + 2^XLEN * q, i) = BitAt(w, i)
  BY <1>1, <1>2, BitLow DEF w
<1>4. v = w + 2^XLEN * q
  <2> HIDE DEF P
  <2>1. v = w + P * q
    BY <1>1, <1>2 DEF w
  <2> QED
    BY <2>1 DEF P
<1> QED
  BY <1>3, <1>4 DEF w

\* << fills with zeros from below.
LEMMA LeftBit ==
    ASSUME NEW a \in Nat, NEW n \in 0 .. XLEN - 1, NEW i \in 0 .. XLEN - 1
    PROVE  BitAt(a * 2^n, i) = IF i < n THEN 0 ELSE BitAt(a, i - n)
<1> DEFINE P == 2^n
<1>1. P \in Nat \ {0} /\ n \in 0 .. XLEN
  BY XlenAssumption, PowerType
<1>2. CASE i < n
  <2>1. BitAt(0 + 2^n * a, i) = BitAt(0, i)
    <3> DEFINE z == 0
    <3>1. z \in Int /\ i \in 0 .. n - 1 /\ a \in Int
      BY <1>2
    <3> HIDE DEF z
    <3>2. BitAt(z + 2^n * a, i) = BitAt(z, i)
      BY <1>1, <3>1, BitLow
    <3> QED
      BY <3>2 DEF z
  <2>2. 0 + 2^n * a = a * 2^n
    <3> HIDE DEF P
    <3>1. 0 + P * a = a * P
      BY <1>1
    <3> QED
      BY <3>1 DEF P
  <2>3. BitAt(0, i) = 0
    <3>1. 2^i \in Nat \ {0}
      BY XlenAssumption, PowerType
    <3> DEFINE Q == 2^i
    <3> HIDE DEF Q
    <3>2. (0 \div Q) % 2 = 0
      BY <3>1 DEF Q
    <3> QED
      BY <3>2 DEF BitAt, Q
  <2> QED
    BY <1>2, <2>1, <2>2, <2>3
<1>3. CASE ~(i < n)
  <2> DEFINE j == i - n
             Q == 2^j
  <2>1. j \in 0 .. XLEN - 1 /\ Q \in Nat \ {0}
    BY <1>3, XlenAssumption, PowerType
  <2>2. 2^i = P * Q
    <3>1. n \in 0 .. i /\ i \in 0 .. XLEN
      BY <1>3, XlenAssumption
    <3> QED
      BY <3>1, PowerSplit
  <2> HIDE DEF P, Q
  <2>3. (P * a) \div (P * Q) = a \div Q
    BY <1>1, <2>1, DivCancel
  <2>4. a * P = P * a
    BY <1>1
  <2>5. (a * P) \div 2^i = a \div Q
    BY <2>2, <2>3, <2>4
  <2> QED
    BY <1>3, <2>5 DEF BitAt, P, Q
<1> QED
  BY <1>2, <1>3

\* >> fills with zeros from above.
LEMMA RightBit ==
    ASSUME NEW a \in Value, NEW n \in 0 .. XLEN - 1, NEW i \in 0 .. XLEN - 1
    PROVE  BitAt(a \div 2^n, i) = IF i + n < XLEN THEN BitAt(a, i + n) ELSE 0
<1> DEFINE P == 2^n
           Q == 2^i
<1>1. P \in Nat \ {0} /\ Q \in Nat \ {0} /\ a \in Nat /\ a \in Int
  BY XlenAssumption, PowerType DEF Value
<1>2. (a \div P) \div Q = a \div (P * Q)
  <2> HIDE DEF P, Q
  <2> QED
    BY <1>1, DivTwice
<1>3. CASE i + n < XLEN
  <2> DEFINE m == i + n
  <2>1. m \in 0 .. XLEN /\ n \in 0 .. m /\ m - n = i
    BY <1>3, XlenAssumption
  <2> HIDE DEF m
  <2>2. 2^m = P * 2^(m - n)
    BY <2>1, PowerSplit
  <2>3. 2^m = P * Q
    BY <2>1, <2>2
  <2> QED
    BY <1>2, <1>3, <2>3 DEF BitAt, m
<1>4. CASE ~(i + n < XLEN)
  <2> DEFINE R == 2^(XLEN - n)
             d == i - (XLEN - n)
             D == 2^d
  <2>1. R \in Nat \ {0} /\ D \in Nat \ {0} /\ d \in Int
    BY <1>4, XlenAssumption, PowerType
  <2>2. Q = R * D
    <3> DEFINE m == XLEN - n
    <3>1. i \in 0 .. XLEN /\ m \in 0 .. i
      BY <1>4, XlenAssumption
    <3> HIDE DEF m
    <3>2. 2^i = 2^m * 2^(i - m)
      BY <3>1, PowerSplit
    <3> QED
      BY <3>2 DEF m
  <2>3. 2^XLEN = P * R
    <3>1. XLEN \in 0 .. XLEN /\ n \in 0 .. XLEN
      BY XlenAssumption
    <3> QED
      BY <3>1, PowerSplit
  <2>4. a \in 0 .. P * R - 1
    BY <2>3 DEF Value
  <2> HIDE DEF P, Q, R, D
  <2>5. P * Q >= P * R
    BY <1>1, <2>1, <2>2
  <2>6. a \div (P * Q) = 0
    <3> DEFINE M == P * Q
    <3>1. M \in Nat \ {0} /\ a \in 0 .. M - 1
      BY <1>1, <2>1, <2>4, <2>5
    <3> HIDE DEF M
    <3>2. M * 0 + a = a
      BY <3>1
    <3>3. (M * 0 + a) \div M = 0
      BY <3>1, DivUnique
    <3> QED
      BY <3>2, <3>3 DEF M
  <2>7. ((a \div P) \div Q) % 2 = 0
    BY <1>2, <2>6
  <2> QED
    BY <1>4, <2>7 DEF BitAt, P, Q
<1> QED
  BY <1>3, <1>4

\* A shift amount and its power.
LEMMA ShiftType ==
    ASSUME NEW a \in Value, NEW n \in 0 .. XLEN - 1
    PROVE  a * 2^n \in Nat /\ a \div 2^n \in Value
<1> DEFINE P == 2^n
           q == a \div P
<1>1. P \in Nat \ {0} /\ a \in Nat /\ a \in Int
  BY XlenAssumption, PowerType DEF Value
<1>2. a * P \in Nat
  <2> HIDE DEF P
  <2> QED
    BY <1>1
<1>3. q \in 0 .. a
  <2> HIDE DEF P
  <2>1. /\ a = P * (a \div P) + (a % P) /\ a \div P \in Int /\ a % P \in 0 .. P - 1
        /\ a >= 0 => a \div P >= 0
    BY <1>1, DivRest
  <2>2. a = P * q + (a % P) /\ q \in Int /\ a % P \in 0 .. P - 1 /\ q >= 0
    BY <1>1, <2>1
  <2> HIDE DEF q
  <2>3. P * q >= q
    BY <1>1, <2>2
  <2> QED
    BY <1>1, <2>2, <2>3
<1>4. q \in Value
  <2> DEFINE T == 2^XLEN
  <2>1. a \in 0 .. T - 1 /\ T \in Int
    BY XlenAssumption, PowerType DEF Value
  <2> HIDE DEF T, q
  <2>2. q \in 0 .. T - 1
    BY <1>1, <1>3, <2>1
  <2> QED
    BY <2>2 DEF Value, T
<1> QED
  BY <1>2, <1>4

\* SLL.
LEMMA ShiftLeftRight ==
    ASSUME NEW a \in Value, NEW n \in 0 .. XLEN - 1
    PROVE  Wrap(a * 2^n) = Rv!ValOfOnes({i \in 0 .. XLEN - 1 : i - n \in Rv!Ones(a)})
<1> DEFINE v == Wrap(a * 2^n)
           S == {i \in 0 .. XLEN - 1 : i - n \in Rv!Ones(a)}
<1>1. a * 2^n \in Int /\ v \in Value
  <2> DEFINE x == a * 2^n
  <2>1. x \in Nat
    BY ShiftType
  <2> HIDE DEF x
  <2>2. x \in Int /\ Wrap(x) \in Value
    BY <2>1, WrapFits
  <2> QED
    BY <2>2 DEF x
<1>2. ASSUME NEW i \in 0 .. XLEN - 1
      PROVE  BitAt(v, i) = 1 <=> i \in S
  <2>1. BitAt(v, i) = BitAt(a * 2^n, i)
    BY <1>1, WrapBit
  <2>2. BitAt(a * 2^n, i) = IF i < n THEN 0 ELSE BitAt(a, i - n)
    BY LeftBit DEF Value
  <2>3. i \in S <=> i - n \in 0 .. XLEN - 1 /\ BitAt(a, i - n) = 1
    BY OnesBit
  <2>4. i - n \in 0 .. XLEN - 1 <=> ~(i < n)
    BY XlenAssumption
  <2> HIDE DEF v, S
  <2> QED
    BY <2>1, <2>2, <2>3, <2>4
<1> HIDE DEF v
<1>3. S \in SUBSET (0 .. XLEN - 1)
  OBVIOUS
<1> HIDE DEF S
<1>4. v = Rv!ValOfOnes(S)
  BY <1>1, <1>2, <1>3, SameOnes
<1> QED
  BY <1>4 DEF v, S

\* SRL.
LEMMA ShiftRightRight ==
    ASSUME NEW a \in Value, NEW n \in 0 .. XLEN - 1
    PROVE  a \div 2^n = Rv!ValOfOnes(Rv!ShiftedRight(a, n))
<1> DEFINE v == a \div 2^n
           S == Rv!ShiftedRight(a, n)
<1>1. v \in Value
  BY ShiftType
<1>2. ASSUME NEW i \in 0 .. XLEN - 1
      PROVE  BitAt(v, i) = 1 <=> i \in S
  <2>1. BitAt(v, i) = IF i + n < XLEN THEN BitAt(a, i + n) ELSE 0
    BY RightBit
  <2>2. i \in S <=> i + n \in 0 .. XLEN - 1 /\ BitAt(a, i + n) = 1
    BY OnesBit DEF Rv!ShiftedRight
  <2>3. i + n \in 0 .. XLEN - 1 <=> i + n < XLEN
    BY XlenAssumption
  <2> HIDE DEF v, S
  <2> QED
    BY <2>1, <2>2, <2>3
<1> HIDE DEF v
<1>3. S \in SUBSET (0 .. XLEN - 1)
  BY DEF Rv!ShiftedRight
<1> HIDE DEF S
<1>4. v = Rv!ValOfOnes(S)
  BY <1>1, <1>2, <1>3, SameOnes
<1> QED
  BY <1>4 DEF v, S

\* The sign of a value is its highest bit.
LEMMA SignedRight ==
    ASSUME NEW a \in Value
    PROVE  /\ Signed(a) = Rv!IntOf(a) /\ Signed(a) \in Int
           /\ \E k \in {0, 1} : Rv!IntOf(a) = a - 2^XLEN * k
           /\ Signed(a) < 0 <=> XLEN - 1 \in Rv!Ones(a)
<1> DEFINE H == 2^(XLEN - 1)
           T == 2^XLEN
<1>1. H \in Nat \ {0} /\ T = H * 2
  <2> DEFINE n == XLEN - 1
  <2>1. n \in 0 .. XLEN /\ n \in 0 .. XLEN - 1 /\ n + 1 = XLEN
    BY XlenAssumption
  <2> HIDE DEF n
  <2>2. 2^n \in Nat \ {0} /\ 2^(n + 1) = 2^n * 2
    BY <2>1, PowerType, PowerStep
  <2> QED
    BY <2>1, <2>2 DEF n
<1>2. a \in 0 .. T - 1
  BY DEF Value
<1>3. XLEN - 1 \in Rv!Ones(a) <=> (a \div H) % 2 = 1
  BY XlenAssumption DEF Rv!Ones
<1>4. Signed(a) = IF a < H THEN a ELSE a - T
  BY DEF Signed
<1>5. Rv!IntOf(a) = a - (IF a \div H = 1 THEN T ELSE 0)
  BY DEF Rv!IntOf
<1> HIDE DEF H, T
<1>6. a < H => a \div H = 0
  BY <1>1, <1>2
<1>7. a >= H => a \div H = 1
  <2> SUFFICES ASSUME a >= H PROVE a \div H = 1
    OBVIOUS
  <2> DEFINE r == a - H
  <2>1. r \in 0 .. H - 1 /\ a = H * 1 + r
    BY <1>1, <1>2
  <2> HIDE DEF r
  <2>2. (H * 1 + r) \div H = 1
    BY <1>1, <2>1, DivUnique
  <2> QED
    BY <2>1, <2>2
<1>8. CASE a < H
  <2>1. Signed(a) = a /\ Rv!IntOf(a) = a /\ ~(XLEN - 1 \in Rv!Ones(a))
    BY <1>1, <1>2, <1>3, <1>4, <1>5, <1>6, <1>8
  <2>2. Rv!IntOf(a) = a - T * 0
    BY <1>1, <1>2, <2>1
  <2> QED
    BY <1>2, <2>1, <2>2 DEF T
<1>9. CASE ~(a < H)
  <2>1. a \div H = 1
    BY <1>1, <1>2, <1>7, <1>9
  <2>2. Signed(a) = a - T /\ Rv!IntOf(a) = a - T /\ XLEN - 1 \in Rv!Ones(a)
    BY <1>3, <1>4, <1>5, <1>9, <2>1
  <2>3. Rv!IntOf(a) = a - T * 1 /\ Signed(a) < 0 /\ Signed(a) \in Int
    BY <1>1, <1>2, <2>2
  <2> QED
    BY <2>2, <2>3 DEF T
<1> QED
  BY <1>8, <1>9

\* Two's complement: adding values adds the integers they stand for.
LEMMA AddRight ==
    ASSUME NEW a \in Value, NEW b \in Value
    PROVE  /\ Wrap(a + b) = Rv!ValOf(Rv!IntOf(a) + Rv!IntOf(b))
           /\ Wrap(a - b) = Rv!ValOf(Rv!IntOf(a) + (-Rv!IntOf(b)))
<1> DEFINE T == 2^XLEN
<1>1. T \in Nat \ {0} /\ a \in Int /\ b \in Int
  BY XlenAssumption, PowerType DEF Value
<1>2. PICK j \in {0, 1} : Rv!IntOf(a) = a - T * j
  BY SignedRight
<1>3. PICK k \in {0, 1} : Rv!IntOf(b) = b - T * k
  BY SignedRight
<1>4. \A x \in Int : Wrap(x) = x % T /\ Rv!ValOf(x) = x % T
  BY DEF Wrap, Rv!ValOf
<1> HIDE DEF T
<1> DEFINE m == (0 - j) - k
           n == k - j
           s == a + b
           d == a - b
<1>5. m \in Int /\ n \in Int /\ s \in Int /\ d \in Int
  BY <1>1
<1>6. Rv!IntOf(a) + Rv!IntOf(b) = s + T * m /\ Rv!IntOf(a) + (-Rv!IntOf(b)) = d + T * n
  BY <1>1, <1>2, <1>3
<1> HIDE DEF m, n, s, d
<1>7. (s + T * m) % T = s % T /\ (d + T * n) % T = d % T
  BY <1>1, <1>5, DivShift
<1>8. s + T * m \in Int /\ d + T * n \in Int
  BY <1>1, <1>5
<1>9. Wrap(s) = Rv!ValOf(s + T * m) /\ Wrap(d) = Rv!ValOf(d + T * n)
  BY <1>4, <1>5, <1>7, <1>8
<1> QED
  BY <1>6, <1>9 DEF s, d

\* Every operation but an arithmetic right shift of a negative value.
LEMMA OpRight ==
    ASSUME NEW a \in Value, NEW b \in Value, NEW alt \in BOOLEAN,
           NEW f \in Func3Op
    PROVE  (f = "SRL_SRA" /\ alt => Signed(a) >= 0) => AluOp(f, alt, a, b) = Rv!RvOp(f, alt, a, b)
<1> DEFINE n == b % XLEN
<1>1. Shamt(b) = n /\ n \in 0 .. XLEN - 1
  BY ShamtType
<1>2. /\ Signed(a) = Rv!IntOf(a) /\ Signed(b) = Rv!IntOf(b)
      /\ Signed(a) >= 0 => ~(XLEN - 1 \in Rv!Ones(a))
  BY SignedRight
<1> HIDE DEF n
<1>3. CASE f \in {"XOR", "OR", "AND"}
  BY <1>3, LogicRight
<1>4. CASE f = "ADD_SUB"
  BY <1>4, AddRight DEF AluOp, Rv!RvOp
<1>5. CASE f \in {"SLT", "SLTU"}
  BY <1>2, <1>5 DEF AluOp, Rv!RvOp
<1>6. CASE f = "SLL"
  BY <1>1, <1>6, ShiftLeftRight DEF AluOp, Rv!RvOp, n
<1>7. CASE f = "SRL_SRA"
  <2>1. AluOp(f, alt, a, b) = a \div 2^n
    BY <1>1, <1>7 DEF AluOp
  <2>2. a \div 2^n = Rv!ValOfOnes(Rv!ShiftedRight(a, n))
    BY <1>1, ShiftRightRight
  <2>3. Rv!RvOp(f, alt, a, b) = Rv!ValOfOnes(Rv!ShiftedRight(a, n)
                                  \union IF alt THEN Rv!SignFill(a, n) ELSE {})
    BY <1>7 DEF Rv!RvOp, n
  <2>4. Signed(a) >= 0 => Rv!SignFill(a, n) = {}
    BY <1>2 DEF Rv!SignFill
  <2>5. (alt => Signed(a) >= 0) =>
           Rv!ShiftedRight(a, n) \union (IF alt THEN Rv!SignFill(a, n) ELSE {}) = Rv!ShiftedRight(a, n)
    BY <2>4
  <2> QED
    BY <1>7, <2>1, <2>2, <2>3, <2>5
<1> QED
  BY <1>3, <1>4, <1>5, <1>6, <1>7 DEF Func3Op

\* The conditions of branches.
LEMMA TakenRight ==
    ASSUME NEW a \in Value, NEW b \in Value,
           NEW f \in {"BEQ", "BNE", "BLT", "BGE", "BLTU", "BGEU"}
    PROVE  BranchTaken(f, a, b) <=> Rv!RvTaken(f, a, b)
<1>1. Signed(a) = Rv!IntOf(a) /\ Signed(b) = Rv!IntOf(b)
  BY SignedRight
<1> QED
  BY <1>1 DEF BranchTaken, Rv!RvTaken

\* Zero and one are values.
LEMMA SmallFit == {0, 1} \subseteq Value
<1> DEFINE n == XLEN - 1
<1>1. n \in 0 .. XLEN - 1 /\ n \in 0 .. XLEN /\ n + 1 = XLEN
  BY XlenAssumption
<1> HIDE DEF n
<1>2. 2^n \in Nat \ {0} /\ 2^(n + 1) = 2^n * 2
  BY <1>1, PowerType, PowerStep
<1> QED
  BY <1>1, <1>2 DEF Value

\* The result of any operation is a value.
LEMMA OpFits ==
    ASSUME NEW a \in Value, NEW b \in Value, NEW alt, NEW f
    PROVE  AluOp(f, alt, a, b) \in Value
<1> DEFINE n == Shamt(b)
<1>1. n \in 0 .. XLEN - 1
  BY ShamtType
<1>2. Wrap(a + b) \in Value /\ Wrap(a - b) \in Value
  <2>1. a + b \in Int /\ a - b \in Int
    BY DEF Value
  <2> QED
    BY <2>1, WrapFits
<1>3. Wrap(a * 2^n) \in Value /\ a \div 2^n \in Value
  <2> HIDE DEF n
  <2> DEFINE x == a * 2^n
  <2>1. x \in Nat
    BY <1>1, ShiftType
  <2> HIDE DEF x
  <2>2. Wrap(x) \in Value
    BY <2>1, WrapFits
  <2> QED
    BY <1>1, <2>2, ShiftType DEF x
<1>4. CASE f \in {"XOR", "OR", "AND"}
  BY <1>4, LogicRight
<1>5. CASE f \in {"ADD_SUB", "SLL", "SRL_SRA"}
  BY <1>2, <1>3, <1>5 DEF AluOp
<1>6. CASE f \in {"SLT", "SLTU"}
  BY <1>6, SmallFit DEF AluOp
<1>7. CASE f \notin {"XOR", "OR", "AND", "ADD_SUB", "SLL", "SRL_SRA", "SLT", "SLTU"}
  BY <1>7, SmallFit DEF AluOp
<1> QED
  BY <1>4, <1>5, <1>6, <1>7
-----------------------------------------------------------------------------
(* The decoder.                                                            *)

\* No two opcodes have the same code.
LEMMA CodesDiffer ==
    ASSUME NEW o \in Opcode, NEW p \in Opcode,
           \A k \in 0 .. 6 : Code[o][k + 1] = Code[p][k + 1]
    PROVE  o = p
  <1>1. /\ Code[o][3] = Code[p][3] /\ Code[o][4] = Code[p][4] /\ Code[o][5] = Code[p][5]
        /\ Code[o][6] = Code[p][6] /\ Code[o][7] = Code[p][7]
    <2>1. 2 \in 0 .. 6 /\ 3 \in 0 .. 6 /\ 4 \in 0 .. 6 /\ 5 \in 0 .. 6 /\ 6 \in 0 .. 6
      OBVIOUS
    <2> QED
      BY <2>1
  <1> QED
    BY <1>1 DEF Code, Opcode

\* The lowest bits of a word name its opcode, and only that.
LEMMA OpcodeFound ==
    ASSUME NEW i \in Instruction
    PROVE  Decode(Encode(i)) = {Decoded(i.op, Encode(i))}
  <1>1. \A k \in 0 .. 6 : Encode(i)[k] = Code[i.op][k + 1]
    BY DEF Encode
  <1>2. i.op \in Opcode
    BY DEF Instruction
  <1>3. ASSUME NEW o \in Opcode
        PROVE  HasOpcode(Encode(i), o) <=> o = i.op
    BY <1>1, <1>2, CodesDiffer DEF HasOpcode
  <1> HIDE DEF Encode
  <1> QED
    BY <1>2, <1>3 DEF Decode

\* Bits that stand in the word lo places up.
LEMMA Moved ==
    ASSUME NEW f, NEW w, NEW lo \in Int, NEW a \in Int, NEW b \in Int,
           \A k \in a .. b : w[k] = f[k - lo]
    PROVE  \A j \in a - lo .. b - lo : w[lo + j] = f[j]
  <1> SUFFICES ASSUME NEW j \in a - lo .. b - lo
               PROVE  w[lo + j] = f[j]
    OBVIOUS
  <1>1. lo + j \in a .. b
    OBVIOUS
  <1>2. (lo + j) - lo = j
    OBVIOUS
  <1>3. w[lo + j] = f[(lo + j) - lo]
    BY <1>1
  <1> QED
    BY <1>2, <1>3

\* The parts of a word.
LEMMA Parts ==
    ASSUME NEW i
    PROVE  /\ \A k \in 25 .. 31 : Encode(i)[k] = High(i, k)
           /\ \A k \in 20 .. 24 : Encode(i)[k] = Second(i, k)
           /\ \A k \in 12 .. 19 : Encode(i)[k] = First(i, k)
           /\ \A k \in 7 .. 11 : Encode(i)[k] = Low(i, k)
  <1>1. ASSUME NEW k \in 25 .. 31
        PROVE  Encode(i)[k] = High(i, k)
    BY DEF Encode
  <1>2. ASSUME NEW k \in 20 .. 24
        PROVE  Encode(i)[k] = Second(i, k)
    BY DEF Encode
  <1>3. ASSUME NEW k \in 12 .. 19
        PROVE  Encode(i)[k] = First(i, k)
    BY DEF Encode
  <1>4. ASSUME NEW k \in 7 .. 11
        PROVE  Encode(i)[k] = Low(i, k)
    BY DEF Encode
  <1> QED
    BY <1>1, <1>2, <1>3, <1>4

\* The registers and function codes an instruction has.
LEMMA FieldsBack ==
    ASSUME NEW i \in Instruction
    PROVE  /\ HasRd(i) => Slice(Encode(i), 7, 5) = i.rd
           /\ HasRs1(i) => Slice(Encode(i), 15, 5) = i.rs1
           /\ HasRs1(i) => Slice(Encode(i), 12, 3) = i.func3
           /\ HasRs2(i) => Slice(Encode(i), 20, 5) = i.rs2
           /\ HasFunc7(i) => Slice(Encode(i), 25, 7) = i.func7
  <1> DEFINE w == Encode(i)
  <1>1. /\ i.rd \in Bits(5) /\ i.rs1 \in Bits(5) /\ i.rs2 \in Bits(5)
        /\ i.func3 \in Bits(3) /\ i.func7 \in Bits(7)
    BY DEF Instruction
  <1>2. ASSUME HasRd(i)
        PROVE  Slice(w, 7, 5) = i.rd
    <2>1. \A k \in 7 .. 11 : Low(i, k) = i.rd[k - 7]
      BY <1>2 DEF Low, HasRd
    <2>2. \A k \in 7 .. 11 : w[k] = i.rd[k - 7]
      BY <2>1, Parts
    <2> HIDE DEF w
    <2>3. \A j \in 7 - 7 .. 11 - 7 : w[7 + j] = i.rd[j]
      BY <2>2, Moved
    <2>4. \A j \in 0 .. 5 - 1 : w[7 + j] = i.rd[j]
      BY <2>3
    <2>5. i.rd \in Bits(5)
      BY <1>1
    <2> QED
      BY <2>4, <2>5 DEF Slice, Bits
  <1>3. ASSUME HasRs1(i)
        PROVE  Slice(w, 15, 5) = i.rs1
    <2>1. \A k \in 15 .. 19 : First(i, k) = i.rs1[k - 15]
      BY <1>3 DEF First, HasRs1
    <2>2. \A k \in 15 .. 19 : w[k] = i.rs1[k - 15]
      BY <2>1, Parts
    <2> HIDE DEF w
    <2>3. \A j \in 15 - 15 .. 19 - 15 : w[15 + j] = i.rs1[j]
      BY <2>2, Moved
    <2>4. \A j \in 0 .. 5 - 1 : w[15 + j] = i.rs1[j]
      BY <2>3
    <2>5. i.rs1 \in Bits(5)
      BY <1>1
    <2> QED
      BY <2>4, <2>5 DEF Slice, Bits
  <1>4. ASSUME HasRs1(i)
        PROVE  Slice(w, 12, 3) = i.func3
    <2>1. \A k \in 12 .. 14 : First(i, k) = i.func3[k - 12]
      BY <1>4 DEF First, HasRs1
    <2>2. \A k \in 12 .. 14 : w[k] = i.func3[k - 12]
      BY <2>1, Parts
    <2> HIDE DEF w
    <2>3. \A j \in 12 - 12 .. 14 - 12 : w[12 + j] = i.func3[j]
      BY <2>2, Moved
    <2>4. \A j \in 0 .. 3 - 1 : w[12 + j] = i.func3[j]
      BY <2>3
    <2>5. i.func3 \in Bits(3)
      BY <1>1
    <2> QED
      BY <2>4, <2>5 DEF Slice, Bits
  <1>5. ASSUME HasRs2(i)
        PROVE  Slice(w, 20, 5) = i.rs2
    <2>1. \A k \in 20 .. 24 : Second(i, k) = i.rs2[k - 20]
      BY <1>5 DEF Second, HasRs2
    <2>2. \A k \in 20 .. 24 : w[k] = i.rs2[k - 20]
      BY <2>1, Parts
    <2> HIDE DEF w
    <2>3. \A j \in 20 - 20 .. 24 - 20 : w[20 + j] = i.rs2[j]
      BY <2>2, Moved
    <2>4. \A j \in 0 .. 5 - 1 : w[20 + j] = i.rs2[j]
      BY <2>3
    <2>5. i.rs2 \in Bits(5)
      BY <1>1
    <2> QED
      BY <2>4, <2>5 DEF Slice, Bits
  <1>6. ASSUME HasFunc7(i)
        PROVE  Slice(w, 25, 7) = i.func7
    <2>1. \A k \in 25 .. 31 : High(i, k) = i.func7[k - 25]
      BY <1>6 DEF High, HasFunc7, IsShift
    <2>2. \A k \in 25 .. 31 : w[k] = i.func7[k - 25]
      BY <2>1, Parts
    <2> HIDE DEF w
    <2>3. \A j \in 25 - 25 .. 31 - 25 : w[25 + j] = i.func7[j]
      BY <2>2, Moved
    <2>4. \A j \in 0 .. 7 - 1 : w[25 + j] = i.func7[j]
      BY <2>3
    <2>5. i.func7 \in Bits(7)
      BY <1>1
    <2> QED
      BY <2>4, <2>5 DEF Slice, Bits
  <1> QED
    BY <1>2, <1>3, <1>4, <1>5, <1>6
-----------------------------------------------------------------------------
(* The immediates, format by format.                                       *)

\* Loads, jalr, and arithmetic with an immediate.
LEMMA ImmIBack ==
    ASSUME NEW i \in Instruction, Encodable(i),
           i.op \in {"JALR", "LOAD", "OP_IMM"}, ~IsShift(i)
    PROVE  ImmI(Encode(i)) = i.imm
  <1> DEFINE w == Encode(i)
             m == ImmI(w)
  <1>1. i.imm \in Bits(32)
    BY DEF Instruction
  <1>2. \A k \in 11 .. 31 : i.imm[k] = i.imm[31]
    BY DEF Encodable, SignFrom
  <1>3. \A j \in 0 .. 4 : w[20 + j] = i.imm[j]
    <2>1. \A k \in 20 .. 24 : Second(i, k) = i.imm[k - 20]
      BY DEF Second, HasRd, HasRs1, HasRs2, HasFunc7, IsShift
    <2>2. \A k \in 20 .. 24 : w[k] = i.imm[k - 20]
      BY <2>1, Parts
    <2> HIDE DEF w
    <2>3. \A j \in 20 - 20 .. 24 - 20 : w[20 + j] = i.imm[j]
      BY <2>2, Moved
    <2> QED
      BY <2>3
  <1>4. \A j \in 5 .. 11 : w[20 + j] = i.imm[j]
    <2>1. \A k \in 25 .. 31 : High(i, k) = i.imm[k - 20]
      BY DEF High, HasRd, HasRs1, HasRs2, HasFunc7, IsShift
    <2>2. \A k \in 25 .. 31 : w[k] = i.imm[k - 20]
      BY <2>1, Parts
    <2> HIDE DEF w
    <2>3. \A j \in 25 - 20 .. 31 - 20 : w[20 + j] = i.imm[j]
      BY <2>2, Moved
    <2> QED
      BY <2>3
  <1> HIDE DEF w
  <1>5. \A k \in 0 .. 31 : m[k] = i.imm[k]
    BY <1>2, <1>3, <1>4 DEF ImmI
  <1>6. m \in [0 .. 31 -> Bit]
    <2>1. \A k \in 0 .. 31 : i.imm[k] \in Bit
      BY <1>1 DEF Bits
    <2>2. m = [k \in 0 .. 31 |-> m[k]]
      BY DEF ImmI
    <2> HIDE DEF m
    <2> QED
      BY <1>5, <2>1, <2>2
  <1> HIDE DEF m
  <1> QED
    BY <1>1, <1>5, <1>6 DEF m, w, Bits

\* Shifts by an immediate.
LEMMA ImmShiftBack ==
    ASSUME NEW i \in Instruction, Encodable(i), IsShift(i)
    PROVE  ImmShift(Encode(i)) = i.imm
  <1> DEFINE w == Encode(i)
             m == ImmShift(w)
  <1>1. i.imm \in Bits(32)
    BY DEF Instruction
  <1>2. \A k \in 5 .. 31 : i.imm[k] = 0
    BY DEF Encodable, IsShift
  <1>3. \A j \in 0 .. 4 : w[20 + j] = i.imm[j]
    <2>1. \A k \in 20 .. 24 : Second(i, k) = i.imm[k - 20]
      BY DEF Second, HasRd, HasRs1, HasRs2, HasFunc7, IsShift
    <2>2. \A k \in 20 .. 24 : w[k] = i.imm[k - 20]
      BY <2>1, Parts
    <2> HIDE DEF w
    <2>3. \A j \in 20 - 20 .. 24 - 20 : w[20 + j] = i.imm[j]
      BY <2>2, Moved
    <2> QED
      BY <2>3
  <1> HIDE DEF w
  <1>4. \A k \in 0 .. 31 : m[k] = i.imm[k]
    BY <1>2, <1>3 DEF ImmShift
  <1>5. m \in [0 .. 31 -> Bit]
    <2>1. \A k \in 0 .. 31 : i.imm[k] \in Bit
      BY <1>1 DEF Bits
    <2>2. m = [k \in 0 .. 31 |-> m[k]]
      BY DEF ImmShift
    <2> HIDE DEF m
    <2> QED
      BY <1>4, <2>1, <2>2
  <1> HIDE DEF m
  <1> QED
    BY <1>1, <1>4, <1>5 DEF m, w, Bits

\* Stores.
LEMMA ImmSBack ==
    ASSUME NEW i \in Instruction, Encodable(i), i.op = "STORE"
    PROVE  ImmS(Encode(i)) = i.imm
  <1> DEFINE w == Encode(i)
             m == ImmS(w)
  <1>1. i.imm \in Bits(32)
    BY DEF Instruction
  <1>2. \A k \in 11 .. 31 : i.imm[k] = i.imm[31]
    BY DEF Encodable, SignFrom
  <1>3. \A j \in 0 .. 4 : w[7 + j] = i.imm[j]
    <2>1. \A k \in 7 .. 11 : Low(i, k) = i.imm[k - 7]
      BY DEF Low, HasRd, HasRs1, HasRs2, HasFunc7, IsShift
    <2>2. \A k \in 7 .. 11 : w[k] = i.imm[k - 7]
      BY <2>1, Parts
    <2> HIDE DEF w
    <2>3. \A j \in 7 - 7 .. 11 - 7 : w[7 + j] = i.imm[j]
      BY <2>2, Moved
    <2> QED
      BY <2>3
  <1>4. \A j \in 5 .. 11 : w[20 + j] = i.imm[j]
    <2>1. \A k \in 25 .. 31 : High(i, k) = i.imm[k - 20]
      BY DEF High, HasRd, HasRs1, HasRs2, HasFunc7, IsShift
    <2>2. \A k \in 25 .. 31 : w[k] = i.imm[k - 20]
      BY <2>1, Parts
    <2> HIDE DEF w
    <2>3. \A j \in 25 - 20 .. 31 - 20 : w[20 + j] = i.imm[j]
      BY <2>2, Moved
    <2> QED
      BY <2>3
  <1> HIDE DEF w
  <1>5. \A k \in 0 .. 31 : m[k] = i.imm[k]
    BY <1>2, <1>3, <1>4 DEF ImmS
  <1>6. m \in [0 .. 31 -> Bit]
    <2>1. \A k \in 0 .. 31 : i.imm[k] \in Bit
      BY <1>1 DEF Bits
    <2>2. m = [k \in 0 .. 31 |-> m[k]]
      BY DEF ImmS
    <2> HIDE DEF m
    <2> QED
      BY <1>5, <2>1, <2>2
  <1> HIDE DEF m
  <1> QED
    BY <1>1, <1>5, <1>6 DEF m, w, Bits

\* Branches.
LEMMA ImmBBack ==
    ASSUME NEW i \in Instruction, Encodable(i), i.op = "BRANCH"
    PROVE  ImmB(Encode(i)) = i.imm
  <1> DEFINE w == Encode(i)
             m == ImmB(w)
  <1>1. i.imm \in Bits(32)
    BY DEF Instruction
  <1>2. i.imm[0] = 0 /\ \A k \in 12 .. 31 : i.imm[k] = i.imm[31]
    BY DEF Encodable, SignFrom
  <1>3. \A j \in 1 .. 4 : w[7 + j] = i.imm[j]
    <2>1. \A k \in 8 .. 11 : Low(i, k) = i.imm[k - 7]
      BY DEF Low, HasRd, HasRs1, HasRs2, HasFunc7, IsShift
    <2>2. \A k \in 8 .. 11 : w[k] = i.imm[k - 7]
      BY <2>1, Parts
    <2> HIDE DEF w
    <2>3. \A j \in 8 - 7 .. 11 - 7 : w[7 + j] = i.imm[j]
      BY <2>2, Moved
    <2> QED
      BY <2>3
  <1>4. \A j \in 5 .. 10 : w[20 + j] = i.imm[j]
    <2>1. \A k \in 25 .. 30 : High(i, k) = i.imm[k - 20]
      BY DEF High, HasRd, HasRs1, HasRs2, HasFunc7, IsShift
    <2>2. \A k \in 25 .. 30 : w[k] = i.imm[k - 20]
      BY <2>1, Parts
    <2> HIDE DEF w
    <2>3. \A j \in 25 - 20 .. 30 - 20 : w[20 + j] = i.imm[j]
      BY <2>2, Moved
    <2> QED
      BY <2>3
  <1>5. w[7] = i.imm[11]
    <2>1. Low(i, 7) = i.imm[11]
      BY DEF Low, HasRd, HasRs1, HasRs2, HasFunc7, IsShift
    <2> QED
      BY <2>1, Parts
  <1>6. w[31] = i.imm[12]
    <2>1. High(i, 31) = i.imm[12]
      BY DEF High, HasRd, HasRs1, HasRs2, HasFunc7, IsShift
    <2> QED
      BY <2>1, Parts
  <1> HIDE DEF w
  <1>7. \A k \in 0 .. 31 : m[k] = i.imm[k]
    BY <1>2, <1>3, <1>4, <1>5, <1>6 DEF ImmB
  <1>8. m \in [0 .. 31 -> Bit]
    <2>1. \A k \in 0 .. 31 : i.imm[k] \in Bit
      BY <1>1 DEF Bits
    <2>2. m = [k \in 0 .. 31 |-> m[k]]
      BY DEF ImmB
    <2> HIDE DEF m
    <2> QED
      BY <1>7, <2>1, <2>2
  <1> HIDE DEF m
  <1> QED
    BY <1>1, <1>7, <1>8 DEF m, w, Bits

\* lui and auipc.
LEMMA ImmUBack ==
    ASSUME NEW i \in Instruction, Encodable(i), i.op \in {"LUI", "AUIPC"}
    PROVE  ImmU(Encode(i)) = i.imm
  <1> DEFINE w == Encode(i)
             m == ImmU(w)
  <1>1. i.imm \in Bits(32)
    BY DEF Instruction
  <1>2. \A k \in 0 .. 11 : i.imm[k] = 0
    BY DEF Encodable
  <1>3. \A j \in 12 .. 19 : w[j] = i.imm[j]
    <2>1. \A k \in 12 .. 19 : First(i, k) = i.imm[k]
      BY DEF First, HasRd, HasRs1, HasRs2, HasFunc7, IsShift
    <2>2. \A k \in 12 .. 19 : w[k] = i.imm[k]
      BY <2>1, Parts
    <2> QED
      BY <2>2
  <1>4. \A j \in 20 .. 24 : w[j] = i.imm[j]
    <2>1. \A k \in 20 .. 24 : Second(i, k) = i.imm[k]
      BY DEF Second, HasRd, HasRs1, HasRs2, HasFunc7, IsShift
    <2>2. \A k \in 20 .. 24 : w[k] = i.imm[k]
      BY <2>1, Parts
    <2> QED
      BY <2>2
  <1>5. \A j \in 25 .. 31 : w[j] = i.imm[j]
    <2>1. \A k \in 25 .. 31 : High(i, k) = i.imm[k]
      BY DEF High, HasRd, HasRs1, HasRs2, HasFunc7, IsShift
    <2>2. \A k \in 25 .. 31 : w[k] = i.imm[k]
      BY <2>1, Parts
    <2> QED
      BY <2>2
  <1> HIDE DEF w
  <1>6. \A k \in 0 .. 31 : m[k] = i.imm[k]
    BY <1>2, <1>3, <1>4, <1>5 DEF ImmU
  <1>7. m \in [0 .. 31 -> Bit]
    <2>1. \A k \in 0 .. 31 : i.imm[k] \in Bit
      BY <1>1 DEF Bits
    <2>2. m = [k \in 0 .. 31 |-> m[k]]
      BY DEF ImmU
    <2> HIDE DEF m
    <2> QED
      BY <1>6, <2>1, <2>2
  <1> HIDE DEF m
  <1> QED
    BY <1>1, <1>6, <1>7 DEF m, w, Bits

\* jal.
LEMMA ImmJBack ==
    ASSUME NEW i \in Instruction, Encodable(i), i.op = "JAL"
    PROVE  ImmJ(Encode(i)) = i.imm
  <1> DEFINE w == Encode(i)
             m == ImmJ(w)
  <1>1. i.imm \in Bits(32)
    BY DEF Instruction
  <1>2. i.imm[0] = 0 /\ \A k \in 20 .. 31 : i.imm[k] = i.imm[31]
    BY DEF Encodable, SignFrom
  <1>3. \A j \in 12 .. 19 : w[j] = i.imm[j]
    <2>1. \A k \in 12 .. 19 : First(i, k) = i.imm[k]
      BY DEF First, HasRd, HasRs1, HasRs2, HasFunc7, IsShift
    <2>2. \A k \in 12 .. 19 : w[k] = i.imm[k]
      BY <2>1, Parts
    <2> QED
      BY <2>2
  <1>4. \A j \in 1 .. 4 : w[20 + j] = i.imm[j]
    <2>1. \A k \in 21 .. 24 : Second(i, k) = i.imm[k - 20]
      BY DEF Second, HasRd, HasRs1, HasRs2, HasFunc7, IsShift
    <2>2. \A k \in 21 .. 24 : w[k] = i.imm[k - 20]
      BY <2>1, Parts
    <2> HIDE DEF w
    <2>3. \A j \in 21 - 20 .. 24 - 20 : w[20 + j] = i.imm[j]
      BY <2>2, Moved
    <2> QED
      BY <2>3
  <1>5. \A j \in 5 .. 10 : w[20 + j] = i.imm[j]
    <2>1. \A k \in 25 .. 30 : High(i, k) = i.imm[k - 20]
      BY DEF High, HasRd, HasRs1, HasRs2, HasFunc7, IsShift
    <2>2. \A k \in 25 .. 30 : w[k] = i.imm[k - 20]
      BY <2>1, Parts
    <2> HIDE DEF w
    <2>3. \A j \in 25 - 20 .. 30 - 20 : w[20 + j] = i.imm[j]
      BY <2>2, Moved
    <2> QED
      BY <2>3
  <1>6. w[20] = i.imm[11]
    <2>1. Second(i, 20) = i.imm[11]
      BY DEF Second, HasRd, HasRs1, HasRs2, HasFunc7, IsShift
    <2> QED
      BY <2>1, Parts
  <1>7. w[31] = i.imm[20]
    <2>1. High(i, 31) = i.imm[20]
      BY DEF High, HasRd, HasRs1, HasRs2, HasFunc7, IsShift
    <2> QED
      BY <2>1, Parts
  <1> HIDE DEF w
  <1>8. \A k \in 0 .. 31 : m[k] = i.imm[k]
    BY <1>2, <1>3, <1>4, <1>5, <1>6, <1>7 DEF ImmJ
  <1>9. m \in [0 .. 31 -> Bit]
    <2>1. \A k \in 0 .. 31 : i.imm[k] \in Bit
      BY <1>1 DEF Bits
    <2>2. m = [k \in 0 .. 31 |-> m[k]]
      BY DEF ImmJ
    <2> HIDE DEF m
    <2> QED
      BY <1>8, <2>1, <2>2
  <1> HIDE DEF m
  <1> QED
    BY <1>1, <1>8, <1>9 DEF m, w, Bits

\* All formats together.
LEMMA ImmBack ==
    ASSUME NEW i \in Instruction, Encodable(i)
    PROVE  Imm(i.op, Encode(i)) = i.imm
  <1>1. i.op \in Opcode
    BY DEF Instruction
  <1>2. CASE i.op \in {"LUI", "AUIPC"}
    BY <1>2, ImmUBack DEF Imm
  <1>3. CASE i.op = "JAL"
    BY <1>3, ImmJBack DEF Imm
  <1>4. CASE i.op \in {"JALR", "LOAD"}
    BY <1>4, ImmIBack DEF Imm, IsShift
  <1>5. CASE i.op = "OP_IMM"
    <2>1. Slice(Encode(i), 12, 3) = i.func3
      BY <1>5, FieldsBack DEF HasRs1
    <2>2. CASE IsShift(i)
      <3>1. Imm(i.op, Encode(i)) = ImmShift(Encode(i))
        BY <1>5, <2>1, <2>2 DEF Imm, IsShift
      <3> QED
        BY <2>2, <3>1, ImmShiftBack
    <2>3. CASE ~IsShift(i)
      <3>1. Imm(i.op, Encode(i)) = ImmI(Encode(i))
        BY <1>5, <2>1, <2>3 DEF Imm, IsShift
      <3> QED
        BY <1>5, <2>3, <3>1, ImmIBack
    <2> QED
      BY <2>2, <2>3
  <1>6. CASE i.op = "STORE"
    BY <1>6, ImmSBack DEF Imm
  <1>7. CASE i.op = "BRANCH"
    BY <1>7, ImmBBack DEF Imm
  <1>8. CASE i.op = "OP"
    BY <1>8 DEF Imm, Encodable
  <1> QED
    BY <1>1, <1>2, <1>3, <1>4, <1>5, <1>6, <1>7, <1>8 DEF Opcode
-----------------------------------------------------------------------------
\* For every operation, every register and function code and every immediate
\* the format has room for, the word decodes to the instruction and to no
\* other: a jump goes where the word says, a constant has its sign.
THEOREM DecoderIsRight ==
    ASSUME NEW i \in Instruction, Encodable(i)
    PROVE  DecodesTo(i)
  <1> DEFINE w == Encode(i)
             d == Decoded(i.op, w)
  <1>1. Decode(w) = {d}
    BY OpcodeFound
  <1>2. Imm(i.op, w) = i.imm
    BY ImmBack
  <1>3. /\ HasRd(i) => Slice(w, 7, 5) = i.rd
        /\ HasRs1(i) => Slice(w, 15, 5) = i.rs1
        /\ HasRs1(i) => Slice(w, 12, 3) = i.func3
        /\ HasRs2(i) => Slice(w, 20, 5) = i.rs2
        /\ HasFunc7(i) => Slice(w, 25, 7) = i.func7
    BY FieldsBack
  <1>4. i.op \in Opcode
    BY DEF Instruction
  <1> HIDE DEF w
  <1>5. Agree(i, d)
    <2>1. d.opcode = i.op /\ d.imm = i.imm
      BY <1>2 DEF Decoded
    <2>2. d.wreg = HasRd(i) /\ d.read1 = HasRs1(i) /\ d.read2 = HasRs2(i)
      BY DEF Decoded, HasRd, HasRs1, HasRs2
    <2>3. HasRd(i) => d.rd = i.rd
      BY <1>3 DEF Decoded
    <2>4. HasRs1(i) => d.rs1 = i.rs1
      BY <1>3 DEF Decoded
    <2>5. HasRs2(i) => d.rs2 = i.rs2
      BY <1>3 DEF Decoded
    <2>6. HasFunc3(i) => d.func3 = i.func3
      BY <1>3 DEF Decoded, HasFunc3, HasRs1
    <2>7. HasFunc7(i) => d.func7 = i.func7
      BY <1>3 DEF Decoded, HasFunc7, IsShift
    <2> HIDE DEF d
    <2> QED
      BY <2>1, <2>2, <2>3, <2>4, <2>5, <2>6, <2>7 DEF Agree
  <1> HIDE DEF d
  <1> QED
    BY <1>1, <1>5 DEF DecodesTo, w
-----------------------------------------------------------------------------
(* The checked behaviours.                                                 *)

Presented ==
    /\ oper \in Func3Op \X BOOLEAN /\ imm \in BOOLEAN
    /\ op1 \in Value /\ op2 \in Value
    /\ inst \subseteq Sample

LEMMA PresentedAlways == Spec => []Presented
  <1>1. Init => Presented
    BY SmallFit, VariantsAssumption DEF Init, Presented
  <1>2. Presented /\ [Next]_checkVars => Presented'
    BY DEF Presented, Next, Present, PresentInst, checkVars
  <1> QED
    BY <1>1, <1>2, PTL DEF Spec

LEMMA ResultRight == Presented => ResultCorrect
  <1> SUFFICES ASSUME Presented, ~NegativeShift PROVE Rv32iResult
    BY DEF ResultCorrect
  <1> DEFINE f == oper[1]
             alt == oper[2]
  <1>1. f \in Func3Op /\ alt \in BOOLEAN /\ op1 \in Value /\ op2 \in Value
        /\ oper = <<f, alt>>
    BY DEF Presented
  <1>2. f = "SRL_SRA" /\ alt => Signed(op1) >= 0
    <2>1. f = "SRL_SRA" /\ alt => oper = <<"SRL_SRA", TRUE>>
      <3> HIDE DEF f, alt
      <3>1. alt => alt = TRUE
        BY <1>1
      <3> QED
        BY <1>1, <3>1
    <2>2. f = "SRL_SRA" /\ alt => ~(Signed(op1) < 0)
      BY <2>1 DEF NegativeShift
    <2>3. Signed(op1) \in Int
      BY <1>1, SignedRight
    <2> QED
      BY <2>2, <2>3
  <1> HIDE DEF f, alt
  <1>3. AluOp(f, alt, op1, op2) = Rv!RvOp(f, alt, op1, op2)
    BY <1>1, <1>2, OpRight
  <1>4. AluOpImm(f, alt, op1, op2) = Rv!RvOpImm(f, alt, op1, op2)
    <2> DEFINE x == alt /\ f = "SRL_SRA"
    <2>1. x \in BOOLEAN /\ (f = "SRL_SRA" /\ x => Signed(op1) >= 0)
      BY <1>1, <1>2
    <2> HIDE DEF x
    <2>2. AluOp(f, x, op1, op2) = Rv!RvOp(f, x, op1, op2)
      BY <1>1, <2>1, OpRight
    <2> QED
      BY <2>2 DEF AluOpImm, Rv!RvOpImm, x
  <1> QED
    BY <1>3, <1>4 DEF Rv32iResult, f, alt

\* The EX stage computes and branches as RV32I says, at every width: whatever
\* the operands, sra and srai of a negative value left out (ex.v).
THEOREM ExecutesRight == Spec => []ExecuteCorrect
  <1>1. Presented => BranchCorrect
    BY TakenRight DEF Presented, BranchCorrect, Branches
  <1>2. Presented => ExecuteCorrect
    BY <1>1, ResultRight DEF ExecuteCorrect
  <1> QED
    BY <1>2, PresentedAlways, PTL

\* Every instruction presented decodes to itself (id.v).
THEOREM DecodesRight == Spec => []DecodeCorrect
  <1>1. Presented => DecodeCorrect
    BY SampleAssumption, DecoderIsRight DEF Presented, DecodeCorrect
  <1> QED
    BY <1>1, PresentedAlways, PTL
=============================================================================
