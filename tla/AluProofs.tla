----------------------------- MODULE AluProofs -----------------------------
(* Proofs about Alu, for words of any width. *)
EXTENDS Alu, WellFoundedInduction, TLAPS

-----------------------------------------------------------------------------
(* Words *)

LEMMA HalfType == Half \in Nat /\ Half > 0 /\ Modulus \in Nat /\ Modulus > 0
BY WidthAssumption DEF Modulus

LEMMA WrapType == ASSUME NEW x \in Int PROVE Wrap(x) \in Word
BY HalfType DEF Wrap, Word

LEMMA SumType ==
    ASSUME NEW x \in Word, NEW y \in Word
    PROVE  Plus(x, y) \in Word /\ Minus(x, y) \in Word
BY HalfType DEF Plus, Minus, Word

LEMMA ConstantWords == 0 \in Word /\ 1 \in Word
BY HalfType DEF Modulus, Word

LEMMA SourceType == ASSUME TypeOK, NEW x \in Source PROVE x \in Word
BY OperandAssumption DEF TypeOK, Source

LEMMA ProductType ==
    ASSUME NEW x \in Word, NEW y \in Word
    PROVE  /\ x * y \in Int
           /\ (x * y) \div Modulus \in Int
           /\ (Signed(x) * Signed(y)) \div Modulus \in Int
<1>1. x \in Int /\ y \in Int /\ Signed(x) \in Int /\ Signed(y) \in Int
  BY HalfType DEF Word, Signed
<1>2. x * y \in Int /\ Signed(x) * Signed(y) \in Int
  BY <1>1
<1> QED  BY <1>2, HalfType

LEMMA QuotientType ==
    ASSUME NEW x \in Int, NEW y \in Int, y # 0
    PROVE  Quotient(x, y) \in Int /\ Remainder(x, y) \in Int
<1>1. Magnitude(x) \in Nat /\ Magnitude(y) \in Nat \ {0}
  BY DEF Magnitude
<1>2. Magnitude(x) \div Magnitude(y) \in Int
  BY <1>1
<1>3. Quotient(x, y) \in Int
  BY <1>2 DEF Quotient
<1>4. y * Quotient(x, y) \in Int
  BY <1>3
<1> QED  BY <1>3, <1>4 DEF Remainder

LEMMA DivisionType ==
    ASSUME NEW x \in Word, NEW y \in Word, x # 0
    PROVE  /\ y \div x \in Int /\ y % x \in Int
           /\ Quotient(Signed(y), Signed(x)) \in Int
           /\ Remainder(Signed(y), Signed(x)) \in Int
<1>1. x \in Nat \ {0} /\ y \in Int
  BY HalfType DEF Word
<1>2. Signed(x) \in Int /\ Signed(y) \in Int /\ Signed(x) # 0
  BY HalfType DEF Word, Signed, Modulus
<1> QED  BY <1>1, <1>2, QuotientType

-----------------------------------------------------------------------------
(* Induction, on a set of numbers: theorem WFMin takes no operator *)

Below == {p \in Nat \X Nat : p[1] < p[2]}

LEMMA LeastNumber ==
    ASSUME NEW T \in SUBSET Nat, T # {}
    PROVE  \E n \in T : \A m \in T : n <= m
<1>1. IsWellFoundedOn(Below, Nat)
  BY NatLessThanWellFounded DEF OpToRel, Below
<1>2. PICK n \in T : \A m \in T : <<m, n>> \notin Below
  BY <1>1, WFMin, Zenon
<1>3. ASSUME NEW m \in T PROVE n <= m
  <2>1. <<m, n>> \notin Below /\ <<m, n>> \in Nat \X Nat
    BY <1>2
  <2> QED  BY <2>1 DEF Below
<1> QED  BY <1>3

LEMMA Induction ==
    ASSUME NEW S, 0 \in S, \A n \in Nat : n \in S => n + 1 \in S
    PROVE  Nat \subseteq S
<1> SUFFICES ASSUME Nat \ S # {} PROVE FALSE
  OBVIOUS
<1>1. PICK n \in Nat \ S : \A m \in Nat \ S : n <= m
  BY LeastNumber
<1>2. n # 0 /\ n - 1 \in Nat /\ ~(n <= n - 1)
  BY <1>1
<1>3. n - 1 \in S
  BY <1>1, <1>2
<1> QED  BY <1>2, <1>3

-----------------------------------------------------------------------------
(* Powers of two *)

LEMMA PowerType == ASSUME NEW n \in 0 .. Width PROVE 2^n \in Nat \ {0}
<1> DEFINE S == {k \in Nat : k <= Width => 2^k \in Nat \ {0}}
<1>1. 0 \in S
  BY PowerAssumption
<1>2. ASSUME NEW k \in Nat, k \in S PROVE k + 1 \in S
  <2>1. CASE k + 1 <= Width
    <3>1. 2^(k + 1) = 2 * 2^k /\ 2^k \in Nat \ {0}
      BY <1>2, <2>1, PowerAssumption, WidthAssumption
    <3>2. 2^(k + 1) \in Nat \ {0}
      BY <3>1
    <3> QED  BY <3>2
  <2>2. CASE ~(k + 1 <= Width)
    BY <2>2
  <2> QED  BY <2>1, <2>2
<1>3. Nat \subseteq S
  <2> HIDE DEF S
  <2> QED  BY <1>1, <1>2, Induction
<1> QED  BY <1>3, WidthAssumption

LEMMA PowerSum ==
    ASSUME NEW a \in Nat, NEW b \in Nat, a + b <= Width
    PROVE  2^(a + b) = 2^a * 2^b
<1> DEFINE S == {k \in Nat : a + k <= Width => 2^(a + k) = 2^a * 2^k}
<1>1. 0 \in S
  <2>1. CASE a <= Width
    <3>1. 2^a \in Nat /\ a + 0 = a
      BY <2>1, PowerType, WidthAssumption
    <3>2. 2^(a + 0) = 2^a
      BY <3>1
    <3>3. 2^a = 2^a * 2^0
      BY <3>1, PowerAssumption
    <3> QED  BY <3>2, <3>3
  <2>2. CASE ~(a <= Width)
    BY <2>2
  <2> QED  BY <2>1, <2>2
<1>2. ASSUME NEW k \in Nat, k \in S PROVE k + 1 \in S
  <2>1. CASE a + (k + 1) <= Width
    <3>1. 2^(k + 1) = 2 * 2^k
      BY <2>1, PowerAssumption, WidthAssumption
    <3>2. 2^(a + (k + 1)) = 2 * 2^(a + k)
      <4>1. PICK m \in 0 .. Width - 1 : m = a + k
        BY <2>1, WidthAssumption
      <4>2. 2^(m + 1) = 2 * 2^m
        BY PowerAssumption
      <4>3. m + 1 = a + (k + 1)
        BY <4>1
      <4> QED  BY <4>1, <4>2, <4>3, Zenon
    <3>3. 2^(a + k) = 2^a * 2^k
      <4>1. a + k <= Width
        BY <2>1, WidthAssumption
      <4> QED  BY <1>2, <4>1, Zenon
    <3>4. 2^a \in Nat /\ 2^k \in Nat
      BY <2>1, PowerType, WidthAssumption
    <3>5. 2 * (2^a * 2^k) = 2^a * (2 * 2^k)
      BY <3>4
    <3> QED  BY <3>1, <3>2, <3>3, <3>5
  <2>2. CASE ~(a + (k + 1) <= Width)
    BY <2>2
  <2> QED  BY <2>1, <2>2
<1>3. Nat \subseteq S
  <2> HIDE DEF S
  <2> QED  BY <1>1, <1>2, Induction
<1> QED  BY <1>3

LEMMA ModulusPower == Modulus = 2^Width
<1>1. PICK m \in 0 .. Width - 1 : m + 1 = Width /\ m = Width - 1
  BY WidthAssumption
<1>2. 2^(m + 1) = 2 * 2^m
  BY PowerAssumption
<1> QED  BY <1>1, <1>2, WidthAssumption DEF Modulus

-----------------------------------------------------------------------------
(* Division *)

LEMMA DivMod ==
    ASSUME NEW x \in Int, NEW d \in Nat \ {0}
    PROVE  /\ x \div d \in Int /\ x % d \in 0 .. d - 1
           /\ x = d * (x \div d) + (x % d)
OBVIOUS

LEMMA DivForm ==
    ASSUME NEW x \in Int, NEW d \in Nat \ {0}
    PROVE  \E q \in Int, r \in 0 .. d - 1 : x = d * q + r /\ q = x \div d /\ r = x % d
<1> DEFINE q == x \div d
           r == x % d
<1>1. q \in Int /\ r \in 0 .. d - 1 /\ x = d * q + r
  BY DivMod
<1> QED  BY <1>1, Zenon

LEMMA DivUnique ==
    ASSUME NEW d \in Nat \ {0}, NEW q \in Int, NEW r \in 0 .. d - 1
    PROVE  (d * q + r) \div d = q /\ (d * q + r) % d = r
<1> DEFINE x == d * q + r
           q1 == x \div d
           r1 == x % d
<1>1. x \in Int /\ d * q \in Int
  OBVIOUS
<1>2. q1 \in Int /\ r1 \in 0 .. d - 1 /\ x = d * q1 + r1
  BY <1>1, DivMod
<1> HIDE DEF q1, r1
<1>3. d * (q - q1) = r1 - r
  BY <1>1, <1>2
<1>4. q - q1 < 1
  <2> SUFFICES ASSUME q - q1 >= 1 PROVE FALSE
    BY <1>2
  <2>1. d * (q - q1) >= d
    BY <1>2
  <2> QED  BY <1>2, <1>3, <2>1
<1>5. q - q1 > -1
  <2> SUFFICES ASSUME q - q1 <= -1 PROVE FALSE
    BY <1>2
  <2>1. d * (q - q1) <= -d
    BY <1>2
  <2> QED  BY <1>2, <1>3, <2>1
<1>6. q1 = q
  BY <1>2, <1>4, <1>5
<1>7. r1 = r
  BY <1>2, <1>3, <1>6
<1> QED  BY <1>6, <1>7 DEF q1, r1

LEMMA DivDiv ==
    ASSUME NEW x \in Int, NEW d \in Nat \ {0}, NEW e \in Nat \ {0}
    PROVE  (x \div d) \div e = x \div (d * e)
<1>1. PICK q1 \in Int, r1 \in 0 .. d - 1 : x = d * q1 + r1 /\ q1 = x \div d /\ r1 = x % d
  BY DivForm
<1>2. PICK q2 \in Int, r2 \in 0 .. e - 1 : q1 = e * q2 + r2 /\ q2 = q1 \div e /\ r2 = q1 % e
  BY DivForm
<1>3. d * e \in Nat \ {0} /\ d * r2 \in Nat /\ d * r2 <= d * e - d
  <2>1. e - r2 \in Nat \ {0}
    OBVIOUS
  <2>2. d * (e - r2) >= d
    BY <2>1
  <2>3. d * (e - r2) = d * e - d * r2
    OBVIOUS
  <2> QED  BY <2>2, <2>3
<1>4. d * r2 + r1 \in 0 .. (d * e) - 1
  BY <1>3
<1>5. x = (d * e) * q2 + (d * r2 + r1)
  <2>1. d * q1 = d * (e * q2) + d * r2
    BY <1>2
  <2>2. d * (e * q2) = (d * e) * q2
    OBVIOUS
  <2> QED  BY <1>1, <2>1, <2>2
<1>6. ((d * e) * q2 + (d * r2 + r1)) \div (d * e) = q2
  BY <1>3, <1>4, DivUnique
<1> QED  BY <1>1, <1>2, <1>5, <1>6

-----------------------------------------------------------------------------
(* The bits of a number *)

LEMMA Parity == ASSUME NEW k \in Int, NEW s \in Int PROVE (2 * k + s) % 2 = s % 2
OBVIOUS

LEMMA BitType == ASSUME NEW x \in Int, NEW i \in 0 .. Width PROVE BitOf(x, i) \in Bit
<1>1. x \div 2^i \in Int
  BY PowerType, DivMod
<1> QED  BY <1>1 DEF BitOf, Bit

\* A number that fits in i bits has no bit i.
LEMMA NoHighBit ==
    ASSUME NEW i \in 0 .. Width, NEW x \in 0 .. 2^i - 1
    PROVE  BitOf(x, i) = 0
<1>1. 2^i \in Nat \ {0}
  BY PowerType
<1>2. (2^i * 0 + x) \div 2^i = 0
  BY <1>1, DivUnique
<1>3. 2^i * 0 + x = x
  BY <1>1
<1> QED  BY <1>2, <1>3 DEF BitOf

\* Bit i of a number moved down by k.
LEMMA DownBit ==
    ASSUME NEW x \in Int, NEW k \in Nat, NEW i \in Nat, k + i <= Width
    PROVE  BitOf(x \div 2^k, i) = BitOf(x, k + i)
<1>1. 2^k \in Nat \ {0} /\ 2^i \in Nat \ {0}
  BY PowerType, WidthAssumption
<1>2. (x \div 2^k) \div 2^i = x \div (2^k * 2^i)
  BY <1>1, DivDiv
<1>3. 2^(k + i) = 2^k * 2^i
  BY PowerSum
<1> QED  BY <1>2, <1>3 DEF BitOf

\* Bit i of a number moved up by k.
LEMMA UpBit ==
    ASSUME NEW x \in Int, NEW k \in 0 .. Width, NEW i \in 0 .. Width
    PROVE  BitOf(x * 2^k, i) = IF i < k THEN 0 ELSE BitOf(x, i - k)
<1>1. 2^k \in Nat \ {0} /\ 2^i \in Nat \ {0}
  BY PowerType
<1>2. CASE i < k
  <2>1. PICK c \in Nat : k = i + (c + 1) /\ c + 1 <= Width
    <3>1. k - i - 1 \in Nat /\ k = i + ((k - i - 1) + 1) /\ (k - i - 1) + 1 <= Width
      BY <1>2, WidthAssumption
    <3> QED  BY <3>1
  <2>2. 2^k = 2^i * 2^(c + 1)
    BY <2>1, PowerSum
  <2>3. 2^(c + 1) = 2 * 2^c /\ 2^c \in Nat
    BY <2>1, PowerAssumption, PowerType, WidthAssumption
  <2> DEFINE h == 2^c
             p == 2^i
  <2>4. h \in Nat /\ p \in Nat \ {0} /\ 2^k = p * (2 * h)
    BY <1>1, <2>2, <2>3
  <2> HIDE DEF h, p
  <2>5. x * (p * (2 * h)) = p * (2 * (x * h)) + 0 /\ 2 * (x * h) \in Int /\ x * h \in Int
    BY <2>4
  <2>6. (p * (2 * (x * h)) + 0) \div p = 2 * (x * h)
    BY <2>4, <2>5, DivUnique
  <2>7. (2 * (x * h)) % 2 = 0
    BY <2>5
  <2>8. ((x * 2^k) \div p) % 2 = 0
    BY <2>4, <2>5, <2>6, <2>7
  <2> QED  BY <1>2, <2>8 DEF BitOf, p
<1>3. CASE ~(i < k)
  <2>1. PICK c \in Nat : c = i - k /\ i = k + c /\ c <= Width
    BY <1>3, WidthAssumption
  <2>2. BitOf((x * 2^k) \div 2^k, c) = BitOf(x * 2^k, k + c)
    BY <1>1, <2>1, DownBit
  <2>3. (x * 2^k) \div 2^k = x
    <3> DEFINE p == 2^k
    <3>1. p \in Nat \ {0}
      BY <1>1
    <3> HIDE DEF p
    <3>2. (p * x + 0) \div p = x /\ p * x + 0 = x * p
      BY <3>1, DivUnique
    <3> QED  BY <3>2 DEF p
  <2> QED  BY <1>3, <2>1, <2>2, <2>3
<1> QED  BY <1>2, <1>3

\* A word keeps the bits of a number that it has.
LEMMA WrapBit ==
    ASSUME NEW y \in Int, NEW i \in 0 .. Width - 1
    PROVE  BitOf(Wrap(y), i) = BitOf(y, i)
<1>1. PICK c \in Nat : Width = i + (c + 1) /\ c + 1 <= Width
  <2>1. Width - i - 1 \in Nat /\ Width = i + ((Width - i - 1) + 1) /\ (Width - i - 1) + 1 <= Width
    BY WidthAssumption
  <2> QED  BY <2>1
<1>2. 2^(c + 1) = 2 * 2^c /\ 2^c \in Nat \ {0} /\ 2^i \in Nat \ {0}
  BY <1>1, PowerAssumption, PowerType, WidthAssumption
<1>3. 2^(i + (c + 1)) = 2^i * 2^(c + 1)
  BY <1>1, PowerSum, WidthAssumption
<1> DEFINE h == 2^c
           p == 2^i
<1>4. h \in Nat \ {0} /\ p \in Nat \ {0} /\ Modulus = p * (2 * h)
  BY <1>1, <1>2, <1>3, ModulusPower
<1> HIDE DEF h, p
<1>5. Modulus \in Nat \ {0}
  BY HalfType
<1>6. PICK q \in Int, r \in Int : y = Modulus * q + r /\ Wrap(y) = r
  <2>1. y \div Modulus \in Int /\ y % Modulus \in Int
    BY <1>5, DivMod
  <2>2. y = Modulus * (y \div Modulus) + (y % Modulus)
    BY <1>5, DivMod
  <2> QED  BY <2>1, <2>2 DEF Wrap
<1>7. PICK s \in Int, t \in 0 .. p - 1 : r = p * s + t /\ r \div p = s
  BY <1>4, <1>6, DivMod
<1>8. y = p * (2 * (h * q) + s) + t /\ h * q \in Int
  <2>1. (p * (2 * h)) * q = p * (2 * (h * q)) /\ h * q \in Int
    BY <1>4
  <2>2. p * (2 * (h * q) + s) = p * (2 * (h * q)) + p * s
    BY <1>4, <2>1
  <2>3. p * (2 * (h * q)) \in Int /\ p * s \in Int
    BY <1>4, <2>1
  <2> QED  BY <1>4, <1>6, <1>7, <2>1, <2>2, <2>3
<1>9. y \div p = 2 * (h * q) + s
  <2>1. 2 * (h * q) + s \in Int
    BY <1>8
  <2>2. (p * (2 * (h * q) + s) + t) \div p = 2 * (h * q) + s
    BY <1>4, <2>1, DivUnique
  <2> QED  BY <1>8, <2>2, Zenon
<1>10. (2 * (h * q) + s) % 2 = s % 2
  BY <1>8, Parity
<1>11. (r \div p) % 2 = (y \div p) % 2
  BY <1>7, <1>9, <1>10, Zenon
<1> QED  BY <1>6, <1>11, Zenon DEF BitOf, p

-----------------------------------------------------------------------------
(* Shifts and rotations *)

LEMMA WordFacts ==
    ASSUME NEW x \in Word
    PROVE  /\ x \in Nat /\ x \in 0 .. 2^Width - 1
           /\ Signed(x) \in -Half .. Half - 1
           /\ Wrap(Signed(x)) = x
<1>1. x \in Nat /\ x \in 0 .. 2^Width - 1
  BY HalfType, ModulusPower DEF Word
<1>2. Signed(x) \in -Half .. Half - 1
  BY HalfType DEF Word, Signed, Modulus
<1>3. Wrap(Signed(x)) = x
  <2>1. x \in 0 .. Modulus - 1 /\ Modulus \in Nat \ {0}
    BY HalfType DEF Word
  <2>2. (Modulus * 0 + x) % Modulus = x /\ (Modulus * (-1) + x) % Modulus = x
    BY <2>1, DivUnique
  <2>3. Modulus * 0 + x = x /\ Modulus * (-1) + x = x - Modulus
    BY <2>1
  <2> QED  BY <2>2, <2>3 DEF Wrap, Signed
<1> QED  BY <1>1, <1>2, <1>3

\* A word is a shorter one moved up, or moved down.
LEMMA LeftBit ==
    ASSUME NEW x \in Word, NEW n \in 0 .. Width, NEW i \in 0 .. Width - 1
    PROVE  BitOf(Left(x, n), i) = IF i < n THEN 0 ELSE BitOf(x, i - n)
<1>1. x \in Int /\ i \in 0 .. Width /\ x * 2^n \in Int
  <2>1. x \in Int /\ 2^n \in Int
    BY WordFacts, PowerType
  <2> QED  BY <2>1, WidthAssumption
<1>2. BitOf(Left(x, n), i) = BitOf(x * 2^n, i)
  BY <1>1, WrapBit DEF Left
<1> QED  BY <1>1, <1>2, UpBit

LEMMA RightBit ==
    ASSUME NEW x \in Word, NEW n \in 0 .. Width, NEW i \in 0 .. Width - 1
    PROVE  BitOf(Right(x, n), i) = IF i + n < Width THEN BitOf(x, i + n) ELSE 0
<1>1. x \in Int /\ x \div 2^n \in Int /\ x \in 0 .. 2^Width - 1
  <2>1. x \in Int /\ 2^n \in Nat \ {0}
    BY WordFacts, PowerType
  <2> QED  BY <2>1, DivMod, WordFacts
<1>2. BitOf(Right(x, n), i) = BitOf(x \div 2^n, i)
  BY <1>1, WrapBit DEF Right
<1>3. CASE i + n <= Width
  <2>1. BitOf(x \div 2^n, i) = BitOf(x, n + i) /\ n + i = i + n
    BY <1>1, <1>3, DownBit, WidthAssumption
  <2>2. BitOf(x, Width) = 0
    BY <1>1, NoHighBit, WidthAssumption
  <2> QED  BY <1>2, <1>3, <2>1, <2>2, WidthAssumption
<1>4. CASE ~(i + n <= Width)
  <2>1. PICK k \in 0 .. Width, c \in 0 .. Width : n + k = Width /\ i = k + c
    <3>1. Width - n \in 0 .. Width /\ i - (Width - n) \in 0 .. Width
      BY <1>4, WidthAssumption
    <3>2. n + (Width - n) = Width /\ i = (Width - n) + (i - (Width - n))
      BY WidthAssumption
    <3> QED  BY <3>1, <3>2
  <2>2. 2^n \in Nat \ {0} /\ 2^k \in Nat \ {0} /\ 2^c \in Nat \ {0} /\ 2^Width \in Nat \ {0}
    BY PowerType, WidthAssumption
  <2>3. 2^i = 2^k * 2^c /\ 2^Width = 2^n * 2^k
    BY <2>1, PowerSum, WidthAssumption
  <2>4. (x \div 2^n) \div 2^k = x \div 2^Width
    <3>1. (x \div 2^n) \div 2^k = x \div (2^n * 2^k)
      BY <1>1, <2>2, DivDiv
    <3> QED  BY <3>1, <2>3, Zenon
  <2>5. x \div 2^Width = 0
    <3>1. (2^Width * 0 + x) \div 2^Width = 0
      BY <1>1, <2>2, DivUnique
    <3>2. 2^Width * 0 + x = x
      BY <1>1, <2>2
    <3> QED  BY <3>1, <3>2
  <2>6. (x \div 2^n) \div 2^i = 0 \div 2^c
    <3>1. ((x \div 2^n) \div 2^k) \div 2^c = (x \div 2^n) \div (2^k * 2^c)
      BY <1>1, <2>2, DivDiv
    <3> QED  BY <3>1, <2>3, <2>4, <2>5, Zenon
  <2>7. 0 \div 2^c = 0
    <3>1. (2^c * 0 + 0) \div 2^c = 0
      BY <2>2, DivUnique
    <3>2. 2^c * 0 + 0 = 0
      BY <2>2
    <3> QED  BY <3>1, <3>2
  <2>8. BitOf(x \div 2^n, i) = 0
    <3>1. (x \div 2^n) \div 2^i = 0 /\ 0 % 2 = 0
      BY <2>6, <2>7
    <3> QED  BY <3>1, Zenon DEF BitOf
  <2> QED  BY <1>2, <1>4, <2>8, WidthAssumption
<1> QED  BY <1>3, <1>4

\* The last bit moved out of a word.
LEMMA RightCarry ==
    ASSUME NEW x \in Word, NEW n \in 0 .. Width - 1
    PROVE  Right(x, n) % 2 = BitOf(x, n) /\ SignedRight(x, n) % 2 = BitOf(x, n)
<1>1. 0 \in 0 .. Width - 1 /\ n \in 0 .. Width /\ 2^n \in Nat \ {0}
  BY WidthAssumption, PowerType
<1>2. \A y \in Int : BitOf(y, 0) = y % 2
  <2>1. \A y \in Int : y \div 1 = y
    OBVIOUS
  <2> QED  BY <2>1, PowerAssumption DEF BitOf
<1>3. ASSUME NEW y \in Int PROVE Wrap(y \div 2^n) % 2 = BitOf(y, n)
  <2>1. y \div 2^n \in Int /\ Wrap(y \div 2^n) \in Int
    BY <1>1, DivMod, HalfType DEF Wrap
  <2>2. BitOf(Wrap(y \div 2^n), 0) = BitOf(y \div 2^n, 0)
    BY <1>1, <2>1, WrapBit
  <2>3. BitOf(y \div 2^n, 0) = (y \div 2^n) % 2
    BY <1>2, <2>1
  <2> QED  BY <1>2, <2>1, <2>2, <2>3 DEF BitOf
<1>4. x \in Int /\ Signed(x) \in Int /\ Wrap(Signed(x)) = x
  BY WordFacts, HalfType
<1>5. BitOf(Signed(x), n) = BitOf(x, n)
  BY <1>4, WrapBit
<1> QED  BY <1>3, <1>4, <1>5 DEF Right, SignedRight

\* The arithmetic shift is the division of the signed number.
LEMMA SarDivides ==
    ASSUME NEW x \in Word, NEW n \in 0 .. Width
    PROVE  Signed(SignedRight(x, n)) = Signed(x) \div 2^n
<1> DEFINE p == 2^n
           s == Signed(x)
<1>1. p \in Nat \ {0} /\ s \in -Half .. Half - 1 /\ Half \in Nat /\ Modulus = 2 * Half
  BY PowerType, WordFacts, HalfType DEF Modulus
<1> HIDE DEF p, s
<1>2. PICK q \in Int, r \in 0 .. p - 1 : s = p * q + r /\ q = s \div p
  <2>1. s \in Int
    BY <1>1
  <2> QED  BY <1>1, <2>1, DivForm
<1>3. q < Half
  <2> SUFFICES ASSUME q >= Half PROVE FALSE
    BY <1>1
  <2>1. p * q >= q
    BY <1>1
  <2> QED  BY <1>1, <1>2, <2>1
<1>4. q >= -Half
  <2> SUFFICES ASSUME q <= -Half - 1 PROVE FALSE
    BY <1>1
  <2>1. p * (-q - 1) >= -q - 1
    BY <1>1
  <2>2. p * (-q - 1) = -(p * q) - p
    BY <1>1
  <2> QED  BY <1>1, <1>2, <2>1, <2>2
<1>5. Signed(Wrap(q)) = q
  <2>1. CASE q >= 0
    <3>1. (Modulus * 0 + q) % Modulus = q /\ Modulus * 0 + q = q
      BY <1>1, <1>3, <2>1, DivUnique
    <3> QED  BY <1>3, <3>1 DEF Wrap, Signed
  <2>2. CASE q < 0
    <3>1. (Modulus * (-1) + (q + Modulus)) % Modulus = q + Modulus
      BY <1>1, <1>4, <2>2, DivUnique
    <3>2. Modulus * (-1) + (q + Modulus) = q
      BY <1>1
    <3>3. ~(q + Modulus < Half)
      BY <1>1, <1>4
    <3> QED  BY <1>1, <3>1, <3>2, <3>3 DEF Wrap, Signed
  <2> QED  BY <2>1, <2>2
<1> QED  BY <1>2, <1>5 DEF SignedRight, p, s

-----------------------------------------------------------------------------
(* Flags *)

LEMMA FlagsType ==
    ASSUME NEW v \in Word, NEW x \in Word, NEW y \in Word
    PROVE  /\ make_flags(v) \in Flags
           /\ make_flags_add(v, x, y) \in Flags
           /\ make_flags_sub(v, x, y) \in Flags
           /\ msb(v) \in Bit
<1>1. 1 - (v % 2) \in Bit
  BY HalfType DEF Bit, Word
<1>2. msb(v) \in Bit
  BY DEF msb, Truth, Bit
<1>3. make_flags(v) \in Flags
  <2> DEFINE z == Truth(v = 0)
             p == 1 - (v % 2)
             m == msb(v)
  <2>1. z \in Bit /\ p \in Bit /\ m \in Bit
    BY <1>1, <1>2 DEF Truth, Bit
  <2>2. NoFlags \in Flags
    BY DEF NoFlags, Flags, Bit
  <2> HIDE DEF z, p, m
  <2>3. [NoFlags EXCEPT !.zero = z, !.parity = p, !.sign = m] \in Flags
    BY <2>1, <2>2 DEF Flags
  <2> QED  BY <2>3 DEF make_flags, z, p, m
<1>4. make_flags_add(v, x, y) \in Flags
  <2> DEFINE o == Truth(SumOverflows(v, x, y))
             c == Truth(x + y >= Modulus)
  <2>1. o \in Bit /\ c \in Bit
    BY DEF Truth, Bit
  <2> HIDE DEF o, c
  <2>2. [make_flags(v) EXCEPT !.overflow = o, !.carry = c] \in Flags
    BY <1>3, <2>1 DEF Flags
  <2> QED  BY <2>2 DEF make_flags_add, o, c
<1>5. make_flags_sub(v, x, y) \in Flags
  <2> DEFINE o == Truth(msb(x) # msb(v) /\ msb(x) # msb(y))
             c == Truth(NoBorrow(x, y))
  <2>1. o \in Bit /\ c \in Bit
    BY DEF Truth, Bit
  <2> HIDE DEF o, c
  <2>2. [make_flags(v) EXCEPT !.overflow = o, !.carry = c] \in Flags
    BY <1>3, <2>1 DEF Flags
  <2> QED  BY <2>2 DEF make_flags_sub, o, c
<1> QED  BY <1>2, <1>3, <1>4, <1>5

\* What the flags of a subtraction are.
LEMMA SubFlags ==
    ASSUME NEW x \in Word, NEW y \in Word
    PROVE  LET f == make_flags_sub(Minus(x, y), x, y)
           IN  /\ f.zero = Truth(x = y)
               /\ f.carry = Truth(x >= y)
               /\ f.sign = msb(Minus(x, y))
               /\ f.overflow = Truth(msb(x) # msb(Minus(x, y)) /\ msb(x) # msb(y))
<1> DEFINE f == make_flags_sub(Minus(x, y), x, y)
<1>1. Minus(x, y) = 0 <=> x = y
  BY HalfType DEF Minus, Word
<1>2. NoBorrow(x, y) <=> x >= y
  BY HalfType DEF NoBorrow, Minus, Word
<1>3. /\ f.zero = Truth(Minus(x, y) = 0)
      /\ f.carry = Truth(NoBorrow(x, y))
      /\ f.sign = msb(Minus(x, y))
      /\ f.overflow = Truth(msb(x) # msb(Minus(x, y)) /\ msb(x) # msb(y))
  BY DEF make_flags_sub, make_flags, NoFlags
<1> QED  BY <1>1, <1>2, <1>3 DEF Truth

\* Sign and overflow of a subtraction tell the order as integers.
LEMMA SubSigns ==
    ASSUME NEW x \in Word, NEW y \in Word
    PROVE  LET f == make_flags_sub(Minus(x, y), x, y)
           IN  /\ f.overflow = 1 <=> Signed(x) - Signed(y) \notin -Half .. Half - 1
               /\ f.sign = f.overflow <=> Signed(x) >= Signed(y)
<1> DEFINE f == make_flags_sub(Minus(x, y), x, y)
           d == Minus(x, y)
<1>1. /\ f.sign = IF d >= Half THEN 1 ELSE 0
      /\ f.overflow = IF (x >= Half <=> d < Half) /\ (x >= Half <=> y < Half) THEN 1 ELSE 0
  <2>1. d \in Word /\ x \in Int /\ y \in Int /\ d \in Int
    BY SumType DEF Word
  <2> QED  BY <2>1, SubFlags, HalfType DEF msb, Truth
<1>2. f.overflow = 1 <=> Signed(x) - Signed(y) \notin -Half .. Half - 1
  BY <1>1, HalfType DEF Minus, Signed, Word, Modulus
<1>3. f.sign = f.overflow <=> Signed(x) >= Signed(y)
  BY <1>1, HalfType DEF Minus, Signed, Word, Modulus
<1> QED  BY <1>2, <1>3

LEMMA SubConditions ==
    ASSUME NEW x \in Word, NEW y \in Word,
           FLAGR = make_flags_sub(Minus(x, y), x, y),
           NEW c \in {1, 2} \union 7 .. 15
    PROVE  Condition(c) <=> Compares(c, x, y)
<1>1. /\ FLAGR.zero \in Bit /\ FLAGR.carry \in Bit
      /\ FLAGR.zero = 1 <=> x = y
      /\ FLAGR.carry = 1 <=> x >= y
  BY SubFlags DEF Truth, Bit
<1>2. /\ FLAGR.overflow = 1 <=> Signed(x) - Signed(y) \notin -Half .. Half - 1
      /\ FLAGR.sign = FLAGR.overflow <=> Signed(x) >= Signed(y)
  BY SubSigns
<1>3. Signed(x) = Signed(y) <=> x = y
  BY HalfType DEF Signed, Word, Modulus
<1>4. x \in Int /\ y \in Int /\ Signed(x) \in Int /\ Signed(y) \in Int
  BY HalfType DEF Signed, Word
<1>5. CASE c \in {1, 2, 7}
  BY <1>1, <1>2, <1>5 DEF Condition, Compares, Bit
<1>6. CASE c \in {8, 9, 10, 11}
  BY <1>1, <1>4, <1>6 DEF Condition, Compares, Bit
<1>7. CASE c \in {12, 13, 14, 15}
  BY <1>1, <1>2, <1>3, <1>4, <1>7 DEF Condition, Compares, Bit
<1>8. c \in {1, 2, 7} \union {8, 9, 10, 11} \union {12, 13, 14, 15}
  OBVIOUS
<1> QED  BY <1>5, <1>6, <1>7, <1>8

\* An addition and its flags are the whole sum.
LEMMA AddFlags ==
    ASSUME NEW x \in Word, NEW y \in Word
    PROVE  LET f   == make_flags_add(Plus(x, y), x, y)
               sum == Signed(x) + Signed(y)
           IN  /\ x + y = Plus(x, y) + f.carry * Modulus
               /\ f.overflow = 1 <=> sum \notin -Half .. Half - 1
               /\ f.sign # f.overflow <=> sum < 0
               /\ f.zero = 1 <=> Plus(x, y) = 0
<1> DEFINE f == make_flags_add(Plus(x, y), x, y)
           s == Plus(x, y)
<1>1. /\ f.sign = msb(s)
      /\ f.overflow = Truth(SumOverflows(s, x, y))
      /\ f.carry = Truth(x + y >= Modulus)
      /\ f.zero = Truth(s = 0)
  BY DEF make_flags_add, make_flags, NoFlags
<1>2. /\ f.sign = IF s >= Half THEN 1 ELSE 0
      /\ f.overflow = IF (x >= Half <=> s < Half) /\ (y >= Half <=> s < Half) THEN 1 ELSE 0
  <2>1. s \in Word /\ x \in Int /\ y \in Int /\ s \in Int
    BY SumType DEF Word
  <2> QED  BY <2>1, <1>1, HalfType DEF msb, Truth, SumOverflows
<1>3. x + y = s + f.carry * Modulus
  <2>1. CASE x + y >= Modulus
    BY <1>1, <2>1, HalfType DEF Plus, Word, Truth
  <2>2. CASE ~(x + y >= Modulus)
    BY <1>1, <2>2, HalfType DEF Plus, Word, Truth
  <2> QED  BY <2>1, <2>2
<1>4. f.overflow = 1 <=> Signed(x) + Signed(y) \notin -Half .. Half - 1
  BY <1>2, HalfType DEF Plus, Signed, Word, Modulus
<1>5. f.sign # f.overflow <=> Signed(x) + Signed(y) < 0
  BY <1>2, HalfType DEF Plus, Signed, Word, Modulus
<1>6. f.zero = 1 <=> s = 0
  BY <1>1 DEF Truth
<1> QED  BY <1>3, <1>4, <1>5, <1>6

-----------------------------------------------------------------------------
(* Types *)

LEMMA NoFlagsType == NoFlags \in Flags
BY DEF NoFlags, Flags, Bit

LEMMA SetsType ==
    ASSUME TypeOK, NEW d \in Reg, NEW v \in Word, NEW f \in Flags, Sets(d, v, f)
    PROVE  /\ GR' \in [Reg -> Word] /\ FLAGR' \in Flags
           /\ trap' \in {IDT_DIVERROR_NUM, None} /\ killed' \in BOOLEAN
BY DEF TypeOK, Sets

LEMMA TellsType ==
    ASSUME NEW op \in {"add", "sub", "neg", "shl", "shr", "sar", "rol", "ror"},
           NEW x \in Word, NEW y \in Word, NEW v \in Word, Tells(op, x, y, v)
    PROVE  last' \in Told
BY DEF Tells, Told

LEMMA SumTypes ==
    ASSUME TypeOK, NEW d \in Reg, NEW x \in Word,
           Add(d, x) \/ Addc(d, x) \/ Sub(d, x) \/ Cmp(d, x)
    PROVE  TypeOK'
<1> DEFINE s == Plus(GR[d], x)
           m == Minus(GR[d], x)
<1>1. GR[d] \in Word /\ s \in Word /\ m \in Word
  BY SumType DEF TypeOK
<1>2. /\ make_flags_add(s, GR[d], x) \in Flags
      /\ make_flags_sub(m, GR[d], x) \in Flags
  BY <1>1, FlagsType
<1>3. make_flags_add(s, GR[d], x).carry \in Word
  BY <1>2, ConstantWords DEF Flags, Bit, Word
<1>4. CASE Add(d, x)
  BY <1>1, <1>2, <1>4, SetsType, TellsType DEF Add, TypeOK
<1>5. CASE Addc(d, x)
  BY <1>1, <1>2, <1>3, <1>5, SetsType, TellsType DEF Addc, TypeOK
<1>6. CASE Sub(d, x)
  BY <1>1, <1>2, <1>6, SetsType, TellsType DEF Sub, TypeOK
<1>7. CASE Cmp(d, x)
  BY <1>1, <1>2, <1>7, SetsType, TellsType DEF Cmp, TypeOK
<1> QED  BY <1>4, <1>5, <1>6, <1>7

LEMMA UnaryTypes ==
    ASSUME TypeOK, NEW d \in Reg, NEW s \in Reg, Inc(d, s) \/ Dec(d, s) \/ Neg(d, s)
    PROVE  TypeOK'
<1> DEFINE u == Plus(GR[s], 1)
           m == Minus(GR[s], 1)
           n == Minus(0, GR[s])
<1>1. GR[s] \in Word /\ u \in Word /\ m \in Word /\ n \in Word
  BY SumType, ConstantWords DEF TypeOK
<1>2. /\ make_flags_add(u, GR[s], 1) \in Flags /\ make_flags_add(u, u, 1) \in Flags
      /\ make_flags_sub(m, GR[s], 1) \in Flags /\ make_flags_sub(m, m, 1) \in Flags
      /\ make_flags(n) \in Flags /\ msb(n) \in Bit
  BY <1>1, FlagsType, ConstantWords
<1>3. [make_flags(n) EXCEPT !.overflow = msb(n)] \in Flags
  BY <1>2 DEF Flags
<1>4. CASE Inc(d, s)
  BY <1>1, <1>2, <1>4, ConstantWords, SetsType, TellsType DEF Inc, TypeOK
<1>5. CASE Dec(d, s)
  BY <1>1, <1>2, <1>5, ConstantWords, SetsType, TellsType DEF Dec, TypeOK
<1>6. CASE Neg(d, s)
  BY <1>1, <1>3, <1>6, ConstantWords, SetsType, TellsType DEF Neg, TypeOK
<1> QED  BY <1>4, <1>5, <1>6

LEMMA ProductTypes ==
    ASSUME TypeOK, NEW d \in Reg, NEW x \in Word, Mul(d, x) \/ Div(d, x)
    PROVE  TypeOK'
<1>1. GR[d] \in Word
  BY DEF TypeOK
<1>2. CASE Mul(d, x)
  <2>1. PICK result \in {GR[d] * x, (Signed(GR[d]) * Signed(x)) \div Modulus,
                         (GR[d] * x) \div Modulus} : Sets(d, Wrap(result), NoFlags)
    BY <1>2 DEF Mul
  <2>2. Wrap(result) \in Word
    BY <1>1, ProductType, WrapType
  <2> QED  BY <1>2, <2>1, <2>2, SetsType, NoFlagsType DEF Mul, TypeOK
<1>3. CASE Div(d, x)
  <2>1. CASE x = 0 /\ DivError
    BY <2>1 DEF DivError, TypeOK
  <2>2. CASE x # 0 /\ last' = None /\
             \E result \in {GR[d] \div x, GR[d] % x, Quotient(Signed(GR[d]), Signed(x)),
                           Remainder(Signed(GR[d]), Signed(x))} :
                Sets(d, Wrap(result), NoFlags)
    <3>1. PICK result \in {GR[d] \div x, GR[d] % x, Quotient(Signed(GR[d]), Signed(x)),
                           Remainder(Signed(GR[d]), Signed(x))} :
                Sets(d, Wrap(result), NoFlags)
      BY <2>2
    <3>2. Wrap(result) \in Word
      BY <1>1, <2>2, DivisionType, WrapType
    <3> QED  BY <2>2, <3>1, <3>2, SetsType, NoFlagsType DEF TypeOK
  <2>3. CASE killed' = TRUE /\ UNCHANGED <<GR, FLAGR, trap, last>>
    BY <2>3 DEF TypeOK
  <2> QED  BY <1>3, <2>1, <2>2, <2>3 DEF Div
<1> QED  BY <1>2, <1>3

LEMMA LogicTypes ==
    ASSUME TypeOK, NEW d \in Reg, NEW s \in Reg, Logic(d, s) \/ Test(d, s) \/ Other(d)
    PROVE  TypeOK'
<1>1. \A x, y, table : Bitwise(x, y, table) \subseteq Word
  BY DEF Bitwise
<1>2. \A z \in Word : make_flags(z) \in Flags
  BY FlagsType
<1>3. GR[d] \in Word
  BY DEF TypeOK
<1>4. CASE Logic(d, s)
  <2>1. PICK z \in Word : Sets(d, z, make_flags(z))
    BY <1>1, <1>4 DEF Logic
  <2> QED  BY <1>2, <1>4, <2>1, SetsType DEF Logic, TypeOK
<1>5. CASE Test(d, s)
  <2>1. PICK z \in Word : Sets(d, GR[d], make_flags(z))
    BY <1>1, <1>5 DEF Test
  <2> QED  BY <1>2, <1>3, <1>5, <2>1, SetsType DEF Test, TypeOK
<1>6. CASE Other(d)
  BY <1>6, SetsType DEF Other, TypeOK
<1> QED  BY <1>4, <1>5, <1>6

LEMMA AmountsType == ASSUME NEW n \in Int PROVE Amounts(n) \subseteq 0 .. Width
<1>1. n % Width \in 0 .. Width
  BY WidthAssumption
<1> QED  BY <1>1, WidthAssumption DEF Amounts

LEMMA ShiftedType ==
    ASSUME NEW x \in Word, NEW n \in 0 .. Width
    PROVE  /\ Left(x, n) \in Word /\ Right(x, n) \in Word /\ SignedRight(x, n) \in Word
           /\ Right(x, n) % 2 \in Bit /\ SignedRight(x, n) % 2 \in Bit
<1>1. /\ x \in Int /\ Signed(x) \in Int
      /\ n \in Nat /\ 2^n \in Nat \ {0}
  BY HalfType, PowerType DEF Word, Signed
<1>2. x * 2^n \in Int /\ x \div 2^n \in Int /\ Signed(x) \div 2^n \in Int
  <2> DEFINE p == 2^n
             y == Signed(x)
  <2>1. p \in Nat \ {0} /\ y \in Int
    BY <1>1
  <2> HIDE DEF p, y
  <2>2. x * p \in Int /\ x \div p \in Int /\ y \div p \in Int
    BY <1>1, <2>1
  <2> QED  BY <2>2 DEF p, y
<1>3. Left(x, n) \in Word /\ Right(x, n) \in Word /\ SignedRight(x, n) \in Word
  BY <1>2, WrapType DEF Left, Right, SignedRight
<1>4. \A z \in Word : z % 2 \in Bit
  BY HalfType DEF Word, Bit
<1> QED  BY <1>3, <1>4

LEMMA ShiftsType ==
    ASSUME TypeOK, NEW d \in Reg, NEW n \in Word, NEW result \in Word, NEW carry \in Bit,
           NEW op \in {"shl", "shr", "sar", "rol", "ror"}, Shifts(op, d, n, result, carry)
    PROVE  TypeOK'
<1>1. GR[d] \in Word /\ make_flags(result) \in Flags
  BY FlagsType DEF TypeOK
<1>2. [make_flags(result) EXCEPT !.carry = carry] \in Flags
  BY <1>1 DEF Flags
<1> QED  BY <1>1, <1>2, SetsType, TellsType DEF Shifts, TypeOK

LEMMA ShiftTypes ==
    ASSUME TypeOK, NEW d \in Reg, NEW n \in Word,
           Shl(d, n) \/ Shr(d, n) \/ Sar(d, n) \/ Rol(d, n) \/ Ror(d, n)
    PROVE  TypeOK'
<1>1. GR[d] \in Word /\ n \in Int /\ n - 1 \in Int /\ Rest(n) \in Int
  BY WidthAssumption, HalfType DEF TypeOK, Word, Rest
<1>2. /\ Amounts(n) \subseteq 0 .. Width /\ Amounts(n - 1) \subseteq 0 .. Width
      /\ Amounts(Rest(n)) \subseteq 0 .. Width
  BY <1>1, AmountsType
<1>3. \A x, y, table : Bitwise(x, y, table) \subseteq Word
  BY DEF Bitwise
<1>4. \A z \in Word : z % 2 \in Bit /\ msb(z) \in Bit
  BY HalfType DEF Word, Bit, msb, Truth
<1>5. CASE Shl(d, n)
  BY <1>1, <1>2, <1>5, ShiftedType, ShiftsType DEF Shl
<1>6. CASE Shr(d, n)
  BY <1>1, <1>2, <1>6, ShiftedType, ShiftsType DEF Shr
<1>7. CASE Sar(d, n)
  BY <1>1, <1>2, <1>7, ShiftedType, ShiftsType DEF Sar
<1>8. CASE Rol(d, n)
  BY <1>3, <1>4, <1>8, ShiftsType DEF Rol
<1>9. CASE Ror(d, n)
  BY <1>3, <1>4, <1>9, ShiftsType DEF Ror
<1> QED  BY <1>5, <1>6, <1>7, <1>8, <1>9

\* The registers hold words and the flags are bits.
THEOREM TypeCorrect == Spec => []TypeOK
<1>1. Init => TypeOK
  BY ConstantWords, NoFlagsType DEF Init, TypeOK
<1>2. TypeOK /\ [Next]_vars => TypeOK'
  <2> SUFFICES ASSUME TypeOK, [Next]_vars PROVE TypeOK'
    OBVIOUS
  <2>1. ASSUME NEW d \in Reg, NEW x \in Source,
               \/ Add(d, x) \/ Addc(d, x) \/ Sub(d, x) \/ Cmp(d, x)
               \/ Mul(d, x) \/ Div(d, x)
               \/ Shl(d, x) \/ Shr(d, x) \/ Sar(d, x) \/ Rol(d, x) \/ Ror(d, x)
        PROVE  TypeOK'
    BY <2>1, SourceType, SumTypes, ProductTypes, ShiftTypes
  <2>2. ASSUME NEW d \in Reg, NEW s \in Reg,
               Inc(d, s) \/ Dec(d, s) \/ Neg(d, s) \/ Logic(d, s) \/ Test(d, s)
        PROVE  TypeOK'
    BY <2>2, UnaryTypes, LogicTypes
  <2>3. ASSUME NEW d \in Reg, Other(d) PROVE TypeOK'
    BY <2>3, LogicTypes
  <2>4. CASE UNCHANGED vars
    BY <2>4 DEF vars, TypeOK
  <2> QED  BY <2>1, <2>2, <2>3, <2>4 DEF Next, Terminated
<1> QED  BY <1>1, <1>2, PTL DEF Spec

-----------------------------------------------------------------------------
(* What the flags tell *)

\* Until the flags are set again, they are those of the last addition or
\* subtraction.
FlagsStand ==
    last # None =>
        /\ last.op = "sub" =>
             FLAGR = make_flags_sub(Minus(last.dest, last.src), last.dest, last.src)
        /\ last.op = "add" =>
             /\ last.result = Plus(last.dest, last.src)
             /\ FLAGR = make_flags_add(last.result, last.dest, last.src)

LEMMA NextStands == TypeOK /\ FlagsStand /\ [Next]_vars => FlagsStand'
<1> SUFFICES ASSUME TypeOK, FlagsStand, [Next]_vars PROVE FlagsStand'
  OBVIOUS
<1>1. ASSUME NEW d \in Reg, NEW x \in Source, Add(d, x) \/ Addc(d, x) \/ Sub(d, x) \/ Cmp(d, x)
      PROVE  FlagsStand'
  <2>1. CASE Add(d, x) \/ Addc(d, x)
    BY <2>1 DEF Add, Addc, Sets, Tells, FlagsStand
  <2>2. CASE Sub(d, x) \/ Cmp(d, x)
    BY <2>2 DEF Sub, Cmp, Sets, Tells, FlagsStand
  <2> QED  BY <1>1, <2>1, <2>2
<1>2. ASSUME NEW d \in Reg, NEW s \in Reg, Inc(d, s) \/ Dec(d, s) \/ Neg(d, s)
      PROVE  FlagsStand'
  <2>1. CASE Inc(d, s)
    BY <2>1 DEF Inc, Sets, Tells, FlagsStand
  <2>2. CASE Dec(d, s)
    BY <2>2 DEF Dec, Sets, Tells, FlagsStand
  <2>3. CASE Neg(d, s)
    BY <2>3 DEF Neg, Tells, FlagsStand
  <2> QED  BY <1>2, <2>1, <2>2, <2>3
<1>3. ASSUME NEW d \in Reg, NEW x \in Source, Mul(d, x) \/ Div(d, x) PROVE FlagsStand'
  BY <1>3 DEF Mul, Div, DivError, FlagsStand
<1>4. ASSUME NEW d \in Reg, NEW n \in Source,
             Shl(d, n) \/ Shr(d, n) \/ Sar(d, n) \/ Rol(d, n) \/ Ror(d, n)
      PROVE  FlagsStand'
  <2>1. PICK op \in {"shl", "shr", "sar", "rol", "ror"} : \E v, c : Shifts(op, d, n, v, c)
    BY <1>4 DEF Shl, Shr, Sar, Rol, Ror
  <2> QED  BY <2>1 DEF Shifts, Tells, FlagsStand
<1>5. ASSUME NEW d \in Reg, NEW s \in Reg, Logic(d, s) \/ Test(d, s) PROVE FlagsStand'
  BY <1>5 DEF Logic, Test, FlagsStand
<1>6. ASSUME NEW d \in Reg, Other(d) PROVE FlagsStand'
  BY <1>6 DEF Other, Sets, FlagsStand
<1>7. CASE UNCHANGED vars
  BY <1>7 DEF vars, FlagsStand
<1> QED  BY <1>1, <1>2, <1>3, <1>4, <1>5, <1>6, <1>7 DEF Next, Terminated

LEMMA FlagsAlwaysStand == Spec => []FlagsStand
<1>1. Init => FlagsStand
  BY DEF Init, FlagsStand
<1> QED  BY <1>1, TypeCorrect, NextStands, PTL DEF Spec

\* After a compare every condition of a branch is the order it stands for,
\* whatever instructions that leave the flags alone come in between.
THEOREM ConditionsOrder == Spec => []OrderTold
<1>1. TypeOK /\ FlagsStand => OrderTold
  BY SubConditions DEF TypeOK, FlagsStand, OrderTold, Told
<1> QED  BY <1>1, TypeCorrect, FlagsAlwaysStand, PTL

\* After an addition carry and result are the whole unsigned sum, and sign and
\* overflow the signed one.
THEOREM SumsWhole == Spec => []SumTold
<1>1. ASSUME TypeOK, FlagsStand, last # None, last.op = "add" PROVE SumTold
  <2>1. /\ last.dest \in Word /\ last.src \in Word
        /\ last.result = Plus(last.dest, last.src)
        /\ FLAGR = make_flags_add(Plus(last.dest, last.src), last.dest, last.src)
    BY <1>1 DEF TypeOK, FlagsStand, Told
  <2>2. /\ Condition(13) <=> FLAGR.sign # FLAGR.overflow
        /\ Condition(1) <=> FLAGR.zero = 1
    BY DEF Condition
  <2> QED  BY <1>1, <2>1, <2>2, AddFlags DEF SumTold
<1>2. TypeOK /\ FlagsStand => SumTold
  BY <1>1 DEF SumTold
<1> QED  BY <1>2, TypeCorrect, FlagsAlwaysStand, PTL

-----------------------------------------------------------------------------
(* What a shift tells *)

\* Within the width, a shift is by the amount that was asked for.
LEMMA AmountsInside ==
    ASSUME NEW n \in 0 .. Width - 1
    PROVE  /\ Amounts(n) = {n}
           /\ n > 0 => Amounts(n - 1) = {n - 1}
           /\ n > 0 => Amounts(Rest(n)) = {Width - n}
           /\ n = 0 => Amounts(Rest(n)) = {0, Width}
<1>1. ASSUME NEW k \in 0 .. Width - 1 PROVE Amounts(k) = {k}
  BY DEF Amounts
<1>2. n > 0 => Amounts(n - 1) = {n - 1}
  <2> SUFFICES ASSUME n > 0 PROVE Amounts(n - 1) = {n - 1}
    OBVIOUS
  <2>1. n - 1 \in 0 .. Width - 1
    BY WidthAssumption
  <2> QED  BY <1>1, <2>1
<1>3. n > 0 => Amounts(Rest(n)) = {Width - n}
  <2> SUFFICES ASSUME n > 0 PROVE Amounts(Rest(n)) = {Width - n}
    OBVIOUS
  <2>1. Width - n \in 0 .. Width - 1
    BY WidthAssumption
  <2>2. Rest(n) = Width - n
    BY WidthAssumption DEF Rest
  <2> QED  BY <1>1, <2>1, <2>2
<1>4. n = 0 => Amounts(Rest(n)) = {0, Width}
  <2>1. n = 0 => Rest(n) = Width
    BY WidthAssumption DEF Rest
  <2>2. Amounts(Width) = {0, Width}
    BY WidthAssumption DEF Amounts
  <2> QED  BY <2>1, <2>2
<1> QED  BY <1>1, <1>2, <1>3, <1>4

\* What is left of the width is the amount of the opposite shift; for no shift
\* at all it is nothing or the whole width.
LEMMA RestInside ==
    ASSUME NEW n \in 0 .. Width - 1, NEW j \in Amounts(Rest(n))
    PROVE  n \in 0 .. Width /\ j \in 0 .. Width /\ (j = Width - n \/ (n = 0 /\ j = 0))
<1>1. n > 0 => j = Width - n
  BY AmountsInside
<1>2. n = 0 => j \in {0, Width}
  BY AmountsInside
<1> QED  BY <1>1, <1>2, WidthAssumption

LEMMA OrOf == \A a \in Bit : Or[<<a, 0>>] = a /\ Or[<<0, a>>] = a /\ Or[<<a, a>>] = a
BY DEF Or, Bit, Truth

LEMMA Around ==
    ASSUME NEW i \in 0 .. Width - 1, NEW n \in 0 .. Width - 1
    PROVE  /\ (i + n) % Width \in 0 .. Width - 1
           /\ (i + n) % Width = IF i + n < Width THEN i + n ELSE i + n - Width
BY WidthAssumption

\* A rotation left by n takes bit i to bit i + n around the word.
LEMMA RolBits ==
    ASSUME NEW x \in Word, NEW n \in 0 .. Width - 1, NEW j \in Amounts(Rest(n)),
           NEW z \in Bitwise(Left(x, n), Right(x, j), Or), NEW i \in 0 .. Width - 1
    PROVE  BitOf(z, (i + n) % Width) = BitOf(x, i)
<1> DEFINE m == (i + n) % Width
<1>1. m \in 0 .. Width - 1 /\ m = IF i + n < Width THEN i + n ELSE i + n - Width
  BY Around
<1> HIDE DEF m
<1>2. n \in 0 .. Width /\ j \in 0 .. Width /\ (j = Width - n \/ (n = 0 /\ j = 0))
  BY RestInside
<1>3. BitOf(z, m) = Or[<<BitOf(Left(x, n), m), BitOf(Right(x, j), m)>>]
  BY <1>1 DEF Bitwise
<1>4. BitOf(Left(x, n), m) = IF m < n THEN 0 ELSE BitOf(x, m - n)
  BY <1>1, <1>2, LeftBit
<1>5. BitOf(Right(x, j), m) = IF m + j < Width THEN BitOf(x, m + j) ELSE 0
  BY <1>1, <1>2, RightBit
<1>6. BitOf(x, i) \in Bit
  BY BitType, WordFacts, WidthAssumption
<1>7. CASE i + n < Width
  <2>1. m = i + n /\ ~(m < n) /\ m - n = i
    BY <1>1, <1>7
  <2>2. ~(m + j < Width) \/ m + j = i
    BY <1>2, <2>1, WidthAssumption
  <2> QED  BY <1>3, <1>4, <1>5, <1>6, <2>1, <2>2, OrOf DEF m
<1>8. CASE ~(i + n < Width)
  <2>1. m < n /\ m + j < Width /\ m + j = i
    BY <1>1, <1>2, <1>8, WidthAssumption
  <2> QED  BY <1>3, <1>4, <1>5, <1>6, <2>1, OrOf DEF m
<1> QED  BY <1>7, <1>8

\* A rotation right by n takes bit i + n around the word to bit i.
LEMMA RorBits ==
    ASSUME NEW x \in Word, NEW n \in 0 .. Width - 1, NEW j \in Amounts(Rest(n)),
           NEW z \in Bitwise(Right(x, n), Left(x, j), Or), NEW i \in 0 .. Width - 1
    PROVE  BitOf(x, (i + n) % Width) = BitOf(z, i)
<1> DEFINE m == (i + n) % Width
<1>1. m \in 0 .. Width - 1 /\ m = IF i + n < Width THEN i + n ELSE i + n - Width
  BY Around
<1> HIDE DEF m
<1>2. n \in 0 .. Width /\ j \in 0 .. Width /\ (j = Width - n \/ (n = 0 /\ j = 0))
  BY RestInside
<1>3. BitOf(z, i) = Or[<<BitOf(Right(x, n), i), BitOf(Left(x, j), i)>>]
  BY DEF Bitwise
<1>4. BitOf(Right(x, n), i) = IF i + n < Width THEN BitOf(x, i + n) ELSE 0
  BY <1>2, RightBit
<1>5. BitOf(Left(x, j), i) = IF i < j THEN 0 ELSE BitOf(x, i - j)
  BY <1>2, LeftBit
<1>6. BitOf(x, m) \in Bit
  BY <1>1, BitType, WordFacts, WidthAssumption
<1>7. CASE i + n < Width
  <2>1. m = i + n
    BY <1>1, <1>7
  <2>2. i < j \/ i - j = m
    BY <1>2, <1>7, <2>1, WidthAssumption
  <2> QED  BY <1>3, <1>4, <1>5, <1>6, <1>7, <2>1, <2>2, OrOf DEF m
<1>8. CASE ~(i + n < Width)
  <2>1. ~(i < j) /\ i - j = m
    BY <1>1, <1>2, <1>8, WidthAssumption
  <2> QED  BY <1>3, <1>4, <1>5, <1>6, <1>8, <2>1, OrOf DEF m
<1> QED  BY <1>7, <1>8

LEMMA ShiftTells ==
    ASSUME TypeOK, NEW d \in Reg, NEW n \in Word,
           Shl(d, n) \/ Shr(d, n) \/ Sar(d, n) \/ Rol(d, n) \/ Ror(d, n)
    PROVE  ShiftTold'
<1> DEFINE x == GR[d]
<1>1. x \in Word
  BY DEF TypeOK
<1>2. ASSUME NEW op, NEW v, NEW c, Shifts(op, d, n, v, c)
      PROVE  FLAGR'.carry = c /\ last' = [op |-> op, dest |-> x, src |-> n, result |-> v]
  BY <1>2 DEF Shifts, Sets, Tells, make_flags, NoFlags
<1>3. SUFFICES ASSUME n \in 0 .. Width - 1, last'.src = n
               PROVE  ShiftTold'
  <2>1. PICK op \in {"shl", "shr", "sar", "rol", "ror"} : \E v, c : Shifts(op, d, n, v, c)
    BY DEF Shl, Shr, Sar, Rol, Ror
  <2>2. last'.src = n
    BY <1>2, <2>1
  <2> QED  BY <1>3, <2>2 DEF ShiftTold
<1>4. CASE Shl(d, n)
  <2>1. PICK k \in Amounts(n), j \in Amounts(Rest(n)) :
           Shifts("shl", d, n, Left(x, k), Right(x, j) % 2)
    BY <1>4 DEF Shl
  <2>2. FLAGR'.carry = Right(x, j) % 2 /\ last'.op = "shl" /\ last'.dest = x /\ last'.src = n
    BY <1>2, <2>1
  <2>3. n > 0 => FLAGR'.carry = BitOf(x, Width - n)
    <3>1. n > 0 => j = Width - n /\ Width - n \in 0 .. Width - 1
      BY <1>3, AmountsInside, WidthAssumption
    <3> QED  BY <1>1, <2>2, <3>1, RightCarry
  <2> QED  BY <2>2, <2>3 DEF ShiftTold
<1>5. CASE Shr(d, n)
  <2>1. PICK k \in Amounts(n), j \in Amounts(n - 1) :
           Shifts("shr", d, n, Right(x, k), Right(x, j) % 2)
    BY <1>5 DEF Shr
  <2>2. FLAGR'.carry = Right(x, j) % 2 /\ last'.op = "shr" /\ last'.dest = x /\ last'.src = n
    BY <1>2, <2>1
  <2>3. n > 0 => FLAGR'.carry = BitOf(x, n - 1)
    <3>1. n > 0 => j = n - 1 /\ n - 1 \in 0 .. Width - 1
      BY <1>3, AmountsInside, WidthAssumption
    <3> QED  BY <1>1, <2>2, <3>1, RightCarry
  <2> QED  BY <2>2, <2>3 DEF ShiftTold
<1>6. CASE Sar(d, n)
  <2>1. PICK k \in Amounts(n), j \in Amounts(n - 1) :
           Shifts("sar", d, n, SignedRight(x, k), SignedRight(x, j) % 2)
    BY <1>6 DEF Sar
  <2>2. /\ FLAGR'.carry = SignedRight(x, j) % 2 /\ last'.op = "sar" /\ last'.dest = x
        /\ last'.src = n /\ last'.result = SignedRight(x, k)
    BY <1>2, <2>1
  <2>3. n > 0 => FLAGR'.carry = BitOf(x, n - 1)
    <3>1. n > 0 => j = n - 1 /\ n - 1 \in 0 .. Width - 1
      BY <1>3, AmountsInside, WidthAssumption
    <3> QED  BY <1>1, <2>2, <3>1, RightCarry
  <2>4. Signed(last'.result) = Signed(x) \div 2^n
    <3>1. k = n /\ n \in 0 .. Width
      BY <1>3, AmountsInside, WidthAssumption
    <3> QED  BY <1>1, <2>2, <3>1, SarDivides
  <2> QED  BY <2>2, <2>3, <2>4 DEF ShiftTold
<1>7. CASE Rol(d, n)
  <2>1. PICK k \in Amounts(n), j \in Amounts(Rest(n)) :
           \E z \in Bitwise(Left(x, k), Right(x, j), Or) : Shifts("rol", d, n, z, z % 2)
    BY <1>7 DEF Rol
  <2>2. PICK z \in Bitwise(Left(x, k), Right(x, j), Or) : Shifts("rol", d, n, z, z % 2)
    BY <2>1
  <2>3. last'.op = "rol" /\ last'.dest = x /\ last'.src = n /\ last'.result = z
    BY <1>2, <2>2
  <2>4. k = n
    BY <1>3, AmountsInside
  <2>5. \A i \in 0 .. Width - 1 : BitOf(z, (i + n) % Width) = BitOf(x, i)
    BY <1>1, <1>3, <2>4, RolBits
  <2> QED  BY <2>3, <2>5 DEF ShiftTold
<1>8. CASE Ror(d, n)
  <2>1. PICK k \in Amounts(n), j \in Amounts(Rest(n)) :
           \E z \in Bitwise(Right(x, k), Left(x, j), Or) : Shifts("ror", d, n, z, msb(z))
    BY <1>8 DEF Ror
  <2>2. PICK z \in Bitwise(Right(x, k), Left(x, j), Or) : Shifts("ror", d, n, z, msb(z))
    BY <2>1
  <2>3. last'.op = "ror" /\ last'.dest = x /\ last'.src = n /\ last'.result = z
    BY <1>2, <2>2
  <2>4. k = n
    BY <1>3, AmountsInside
  <2>5. \A i \in 0 .. Width - 1 : BitOf(x, (i + n) % Width) = BitOf(z, i)
    BY <1>1, <1>3, <2>4, RorBits
  <2> QED  BY <2>3, <2>5 DEF ShiftTold
<1> QED  BY <1>4, <1>5, <1>6, <1>7, <1>8

LEMMA NextTells == TypeOK /\ ShiftTold /\ [Next]_vars => ShiftTold'
<1> SUFFICES ASSUME TypeOK, ShiftTold, [Next]_vars PROVE ShiftTold'
  OBVIOUS
<1>1. ASSUME NEW d \in Reg, NEW x \in Source, Add(d, x) \/ Addc(d, x) \/ Sub(d, x) \/ Cmp(d, x)
      PROVE  ShiftTold'
  <2>1. last'.op \in {"add", "sub"}
    BY <1>1 DEF Add, Addc, Sub, Cmp, Tells
  <2> QED  BY <2>1 DEF ShiftTold
<1>2. ASSUME NEW d \in Reg, NEW s \in Reg, Inc(d, s) \/ Dec(d, s) \/ Neg(d, s)
      PROVE  ShiftTold'
  <2>1. last' = None \/ last'.op \in {"add", "sub", "neg"}
    BY <1>2 DEF Inc, Dec, Neg, Tells
  <2> QED  BY <2>1 DEF ShiftTold
<1>3. ASSUME NEW d \in Reg, NEW x \in Source, Mul(d, x) \/ Div(d, x) PROVE ShiftTold'
  <2>1. last' = None \/ UNCHANGED <<FLAGR, last>>
    BY <1>3 DEF Mul, Div, DivError
  <2> QED  BY <2>1 DEF ShiftTold
<1>4. ASSUME NEW d \in Reg, NEW n \in Source,
             Shl(d, n) \/ Shr(d, n) \/ Sar(d, n) \/ Rol(d, n) \/ Ror(d, n)
      PROVE  ShiftTold'
  BY <1>4, SourceType, ShiftTells
<1>5. ASSUME NEW d \in Reg, NEW s \in Reg, Logic(d, s) \/ Test(d, s) PROVE ShiftTold'
  BY <1>5 DEF Logic, Test, ShiftTold
<1>6. ASSUME NEW d \in Reg, Other(d) PROVE ShiftTold'
  <2>1. UNCHANGED <<FLAGR, last>>
    BY <1>6 DEF Other, Sets
  <2> QED  BY <2>1 DEF ShiftTold
<1>7. CASE UNCHANGED vars
  BY <1>7 DEF vars, ShiftTold
<1> QED  BY <1>1, <1>2, <1>3, <1>4, <1>5, <1>6, <1>7 DEF Next, Terminated

\* For words of any width, a shift within the width leaves the last bit that
\* it moved out in the carry, sar divides by a power of two, and rol and ror
\* only move the bits around the word (i_shl, i_shr, i_sar, i_rol, i_ror).
THEOREM ShiftsExact == Spec => []ShiftTold
<1>1. Init => ShiftTold
  BY DEF Init, ShiftTold
<1> QED  BY <1>1, TypeCorrect, NextTells, PTL DEF Spec

-----------------------------------------------------------------------------
(* Division *)

\* A quotient that rounds towards zero: what is left is smaller than the
\* divisor and has the sign of the dividend.
LEMMA Truncated ==
    ASSUME NEW x \in Int, NEW y \in Int, y # 0
    PROVE  /\ Magnitude(Remainder(x, y)) < Magnitude(y)
           /\ Remainder(x, y) # 0 => (Remainder(x, y) < 0 <=> x < 0)
<1> DEFINE q == Magnitude(x) \div Magnitude(y)
           s == Magnitude(x) % Magnitude(y)
<1>1. Magnitude(x) \in Int /\ Magnitude(x) >= 0 /\ Magnitude(y) \in Nat \ {0}
  BY DEF Magnitude
<1> HIDE DEF q, s
<1>2. q \in Int /\ s \in 0 .. Magnitude(y) - 1 /\ Magnitude(x) = Magnitude(y) * q + s
  BY <1>1, DivMod, Zenon DEF q, s
<1>3. y * Quotient(x, y) = IF x < 0 THEN -(Magnitude(y) * q) ELSE Magnitude(y) * q
  <2>1. Quotient(x, y) = IF (x < 0) = (y < 0) THEN q ELSE -q
    BY DEF Quotient, q
  <2>2. y = IF y < 0 THEN -Magnitude(y) ELSE Magnitude(y)
    BY DEF Magnitude
  <2>3. /\ (-Magnitude(y)) * q = -(Magnitude(y) * q)
        /\ Magnitude(y) * (-q) = -(Magnitude(y) * q)
        /\ (-Magnitude(y)) * (-q) = Magnitude(y) * q
    BY <1>1, <1>2
  <2>4. CASE y < 0 /\ x < 0
    <3>1. Quotient(x, y) = q
      BY <2>1, <2>4
    <3>2. QED
      BY <2>2, <2>3, <2>4, <3>1, Zenon
  <2>5. CASE y < 0 /\ ~(x < 0)
    <3>1. Quotient(x, y) = -q
      BY <2>1, <2>5
    <3>2. QED
      BY <2>2, <2>3, <2>5, <3>1, Zenon
  <2>6. CASE ~(y < 0) /\ x < 0
    <3>1. Quotient(x, y) = -q
      BY <2>1, <2>6
    <3>2. QED
      BY <2>2, <2>3, <2>6, <3>1, Zenon
  <2>7. CASE ~(y < 0) /\ ~(x < 0)
    <3>1. Quotient(x, y) = q
      BY <2>1, <2>7
    <3>2. QED
      BY <2>2, <2>3, <2>7, <3>1, Zenon
  <2>8. QED
    BY <2>4, <2>5, <2>6, <2>7
<1>4. Magnitude(y) * q \in Int
  BY <1>1, <1>2
<1>5. Remainder(x, y) = IF x < 0 THEN -s ELSE s
  <2>1. CASE x < 0
    BY <1>2, <1>3, <1>4, <2>1 DEF Remainder, Magnitude
  <2>2. CASE ~(x < 0)
    BY <1>2, <1>3, <1>4, <2>2 DEF Remainder, Magnitude
  <2>3. QED
    BY <2>1, <2>2
<1>6. QED
  <2>1. s \in Nat /\ s < Magnitude(y)
    BY <1>1, <1>2
  <2>2. QED
    BY <1>5, <2>1 DEF Magnitude

\* Words as numbers and back.
LEMMA SignedWrap ==
    ASSUME NEW n \in -Half .. Half - 1
    PROVE  Signed(Wrap(n)) = n
<1>1. Half \in Nat /\ Half > 0 /\ Modulus = 2 * Half
  BY HalfType DEF Modulus
<1>2. Modulus \in Nat \ {0} /\ n \in Int
  BY <1>1
<1>3. CASE n >= 0
  <2>1. n \in 0 .. Modulus - 1
    BY <1>1, <1>3
  <2>2. Wrap(n) = n
    <3>1. (Modulus * 0 + n) % Modulus = n
      BY <1>2, <2>1, DivUnique
    <3>2. QED
      BY <1>2, <3>1 DEF Wrap
  <2>3. QED
    BY <1>1, <2>2 DEF Signed
<1>4. CASE n < 0
  <2>1. n + Modulus \in 0 .. Modulus - 1
    BY <1>1, <1>4
  <2>2. Wrap(n) = n + Modulus
    <3>1. (Modulus * (-1) + (n + Modulus)) % Modulus = n + Modulus
      BY <1>2, <2>1, DivUnique
    <3>2. Modulus * (-1) + (n + Modulus) = n
      BY <1>2
    <3>3. QED
      BY <3>1, <3>2 DEF Wrap
  <2>3. QED
    BY <1>1, <1>4, <2>2 DEF Signed
<1>5. QED
  BY <1>2, <1>3, <1>4

\* The one quotient of two words that is none: -Half by -1.
LEMMA QuotientFits ==
    ASSUME NEW x \in -Half .. Half - 1, NEW y \in -Half .. Half - 1, y # 0,
           ~(x = -Half /\ y = -1)
    PROVE  Quotient(x, y) \in -Half .. Half - 1
<1> DEFINE m == Magnitude(x)
           n == Magnitude(y)
           q == m \div n
<1>1. m \in Int /\ m \in 0 .. Half /\ n \in Nat \ {0} /\ n \in 1 .. Half /\ Half \in Nat \ {0}
  BY HalfType DEF Magnitude
<1> HIDE DEF m, n, q
<1>2. q \in Int /\ m % n \in 0 .. n - 1 /\ m = n * q + (m % n)
  BY <1>1, DivMod, Zenon DEF q
<1>3. q >= 0
  BY <1>1 DEF q
<1>4. q <= m
  <2>1. CASE q >= 1
    <3>1. n * q >= q
      <4>1. PICK k \in Nat : n = k + 1
        BY <1>1
      <4>2. n * q = k * q + q /\ k * q >= 0
        BY <1>2, <2>1, <4>1
      <4>3. QED
        BY <1>2, <4>1, <4>2
    <3>2. QED
      BY <1>1, <1>2, <3>1
  <2>2. CASE q < 1
    BY <1>1, <1>2, <2>2
  <2>3. QED
    BY <1>2, <2>1, <2>2
<1>5. q = Half => m = Half /\ n = 1
  <2>1. SUFFICES ASSUME q = Half PROVE m = Half /\ n = 1
    OBVIOUS
  <2>2. m = Half
    BY <1>1, <1>2, <1>4, <2>1
  <2>3. n * Half <= Half
    BY <1>1, <1>2, <2>1, <2>2
  <2>4. QED
    BY <1>1, <2>2, <2>3
<1>6. CASE q < Half
  <2>1. Quotient(x, y) \in {q, -q}
    BY DEF Quotient, q, m, n
  <2>2. QED
    BY <1>1, <1>2, <1>3, <1>6, <2>1
<1>7. CASE q = Half
  <2>1. x = -Half /\ y = 1
    BY <1>1, <1>5, <1>7 DEF Magnitude, m, n
  <2>2. Quotient(x, y) = -q
    BY <1>1, <2>1 DEF Quotient, q, m, n
  <2>3. QED
    BY <1>1, <1>7, <2>2
<1>8. QED
  BY <1>1, <1>2, <1>4, <1>6, <1>7

(* What i_div and i_mod leave in the register is the quotient of the words *)
(* as int32_t, rounded towards zero, and what it leaves over, for words of *)
(* any width, but for the one quotient that is no int32_t.                 *)
THEOREM DivisionTruncates ==
    ASSUME NEW x \in Word, NEW y \in Word \ {0},
           NEW quotient, quotient = Signed(Wrap(Quotient(Signed(x), Signed(y)))),
           NEW rest, rest = Signed(Wrap(Remainder(Signed(x), Signed(y)))),
           ~(Signed(x) = -Half /\ Signed(y) = -1)
    PROVE  /\ Signed(x) = Signed(y) * quotient + rest
           /\ Magnitude(rest) < Magnitude(Signed(y))
           /\ rest # 0 => (rest < 0 <=> Signed(x) < 0)
<1> DEFINE a == Signed(x)
           b == Signed(y)
<1>1. a \in -Half .. Half - 1 /\ b \in -Half .. Half - 1 /\ a \in Int /\ b \in Int
  BY WordFacts, HalfType
<1>2. b # 0
  BY HalfType DEF Signed, Word, Modulus
<1>3. quotient = Quotient(a, b)
  BY <1>1, <1>2, QuotientFits, SignedWrap
<1>4. /\ Magnitude(Remainder(a, b)) < Magnitude(b)
      /\ Remainder(a, b) # 0 => (Remainder(a, b) < 0 <=> a < 0)
  BY <1>1, <1>2, Truncated
<1>5. Remainder(a, b) \in -Half .. Half - 1
  <2>1. Remainder(a, b) \in Int
    BY <1>1, <1>2, QuotientType
  <2>2. QED
    BY <1>1, <1>4, <2>1, HalfType DEF Magnitude
<1>6. rest = Remainder(a, b)
  BY <1>5, SignedWrap
<1>7. a = b * Quotient(a, b) + Remainder(a, b)
  <2>1. Quotient(a, b) \in Int
    BY <1>1, <1>2, QuotientType
  <2>2. b * Quotient(a, b) \in Int
    BY <1>1, <2>1
  <2>3. QED
    BY <1>1, <2>2 DEF Remainder
<1>8. QED
  BY <1>3, <1>4, <1>6, <1>7
=============================================================================
