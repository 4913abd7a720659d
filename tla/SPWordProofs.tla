---------------------------- MODULE SPWordProofs ----------------------------
(***************************************************************************)
(* Facts about the data path of the SP, for every width of the immediate   *)
(* field: the powers of two, the ranges of addresses and words, and the    *)
(* types of what the instructions compute.                                 *)
(***************************************************************************)
EXTENDS SPWord, TLAPS, WellFoundedInduction

(***************************************************************************)
(* Induction over the natural numbers, for a set instead of a predicate.   *)
(***************************************************************************)
LEMMA NatSet ==
    ASSUME NEW S, 0 \in S, \A n \in Nat : n \in S => n + 1 \in S
    PROVE  \A n \in Nat : n \in S
<1> SUFFICES ASSUME NEW m \in Nat, m \notin S PROVE FALSE
  OBVIOUS
<1> DEFINE T == Nat \ S
<1>1. IsWellFoundedOn(OpToRel(<, Nat), Nat)
  BY NatLessThanWellFounded
<1>2. T \subseteq Nat /\ T # {}
  OBVIOUS
<1>3. PICK x \in T : \A y \in T : ~(<<y, x>> \in OpToRel(<, Nat))
  BY <1>1, <1>2, WFMin
<1>4. x # 0 /\ x \in Nat
  OBVIOUS
<1>5. x - 1 \in T
  BY <1>4, x - 1 \in Nat, x - 1 + 1 = x
<1>6. <<x - 1, x>> \in OpToRel(<, Nat)
  BY <1>4 DEF OpToRel
<1> QED BY <1>3, <1>5, <1>6

(***************************************************************************)
(* A function on 0 .. N may be given by its value at 0 and by a rule that  *)
(* leads from each value to the next; h holds the rule.                    *)
(***************************************************************************)
Rules(T) == [Nat -> [T -> T]]

Follows(f, N, T, b, h) ==
    /\ f \in [0 .. N -> T]
    /\ f[0] = b
    /\ \A n \in 1 .. N : f[n] = h[n][f[n - 1]]

LEMMA RecursionExists ==
    ASSUME NEW N \in Nat, NEW T, NEW b \in T, NEW h \in Rules(T)
    PROVE  \E f : Follows(f, N, T, b, h)
<1> DEFINE S == { k \in Nat : \E f : Follows(f, k, T, b, h) }
<1> USE DEF Rules
<1>1. 0 \in S
  <2>1. Follows([n \in 0 .. 0 |-> b], 0, T, b, h)
    BY DEF Follows
  <2> QED BY <2>1
<1>2. \A k \in Nat : k \in S => k + 1 \in S
  <2> SUFFICES ASSUME NEW k \in Nat, k \in S PROVE k + 1 \in S
    OBVIOUS
  <2>1. PICK f : Follows(f, k, T, b, h)
    OBVIOUS
  <2> DEFINE g == [n \in 0 .. k + 1 |-> IF n = k + 1 THEN h[n][f[k]] ELSE f[n]]
  <2>2. h[k + 1][f[k]] \in T
    BY <2>1 DEF Follows
  <2>3. g \in [0 .. k + 1 -> T]
    BY <2>1, <2>2 DEF Follows
  <2>4. \A n \in 0 .. k : g[n] = f[n]
    OBVIOUS
  <2>5. ASSUME NEW n \in 1 .. k + 1 PROVE g[n] = h[n][g[n - 1]]
    <3>1. CASE n = k + 1
      BY <3>1
    <3>2. CASE n \in 1 .. k
      <4>1. n - 1 \in 0 .. k /\ n \in 0 .. k /\ f[n] = h[n][f[n - 1]]
        BY <2>1, <3>2 DEF Follows
      <4> HIDE DEF g
      <4> QED BY <4>1, <2>4
    <3> QED BY <3>1, <3>2
  <2>6. g[0] = b
    BY <2>1 DEF Follows
  <2> HIDE DEF g
  <2>7. Follows(g, k + 1, T, b, h)
    BY <2>3, <2>5, <2>6 DEF Follows
  <2>8. \E p : Follows(p, k + 1, T, b, h)
    BY <2>7
  <2> QED BY <2>8
<1> HIDE DEF S
<1>3. N \in S
  BY <1>1, <1>2, NatSet
<1> QED BY <1>3 DEF S

-----------------------------------------------------------------------------
(***************************************************************************)
(* The powers of two are positive and double.                              *)
(***************************************************************************)
LEMMA WidthType ==
    /\ ImmBits \in Nat /\ ImmBits > 1
    /\ WordBits \in Nat /\ WordBits = ImmBits + 16 /\ WordBits > 17
BY ImmBitsAssumption DEF WordBits

LEMMA Powers ==
    /\ Pow2 \in [0 .. WordBits -> Nat \ {0}]
    /\ Pow2[0] = 1
    /\ \A n \in 0 .. WordBits - 1 : Pow2[n + 1] = 2 * Pow2[n]
<1> DEFINE rule == [n \in Nat |-> [x \in Nat \ {0} |-> 2 * x]]
           Positive == { n \in Nat : n <= WordBits => Doubled[n] \in Nat \ {0} }
<1>1. Doubled = [n \in 0 .. WordBits |-> IF n = 0 THEN 1 ELSE 2 * Doubled[n - 1]]
  <2> DEFINE Pos == Nat \ {0}
  <2>1. rule \in Rules(Pos)
    BY DEF Rules
  <2>2. WordBits \in Nat /\ 1 \in Pos
    BY WidthType
  <2> HIDE DEF rule, Pos
  <2>3. PICK f : Follows(f, WordBits, Pos, 1, rule)
    BY <2>1, <2>2, RecursionExists
  <2>4. ASSUME NEW n \in 0 .. WordBits, n # 0
        PROVE  f[n] = 2 * f[n - 1]
    <3>1. n \in Nat /\ n \in 1 .. WordBits /\ n - 1 \in 0 .. WordBits
      BY <2>2, <2>4
    <3>2. f[n - 1] \in Nat \ {0}
      BY <2>3, <3>1 DEF Follows, Pos
    <3> QED BY <2>3, <3>1, <3>2 DEF Follows, rule, Pos
  <2>5. f = [n \in 0 .. WordBits |-> IF n = 0 THEN 1 ELSE 2 * f[n - 1]]
    BY <2>3, <2>4 DEF Follows
  <2> QED BY <2>5 DEF Doubled
<1>2. Doubled[0] = 1 /\ \A n \in 1 .. WordBits : Doubled[n] = 2 * Doubled[n - 1]
  <2>1. /\ 0 \in 0 .. WordBits
        /\ \A n \in 1 .. WordBits : n \in 0 .. WordBits /\ n # 0
    BY WidthType
  <2> HIDE DEF Positive, rule
  <2>2. \A n \in 0 .. WordBits : Doubled[n] = IF n = 0 THEN 1 ELSE 2 * Doubled[n - 1]
    BY <1>1
  <2> QED BY <2>1, <2>2
<1>3. 0 \in Positive
  BY <1>2
<1>4. \A n \in Nat : n \in Positive => n + 1 \in Positive
  <2> SUFFICES ASSUME NEW n \in Nat, n \in Positive, n + 1 <= WordBits
               PROVE  Doubled[n + 1] \in Nat \ {0}
    OBVIOUS
  <2>1. n + 1 \in 1 .. WordBits /\ n + 1 - 1 = n /\ n <= WordBits
    BY WidthType
  <2> QED BY <1>2, <2>1
<1> HIDE DEF Positive
<1>5. \A n \in Nat : n \in Positive
  BY <1>3, <1>4, NatSet
<1>6. \A n \in 0 .. WordBits : Doubled[n] \in Nat \ {0}
  BY <1>5 DEF Positive
<1>7. Pow2 \in [0 .. WordBits -> Nat \ {0}] /\ Pow2[0] = 1
  BY <1>2, <1>6, WidthType DEF Pow2
<1>8. ASSUME NEW n \in 0 .. WordBits - 1 PROVE Pow2[n + 1] = 2 * Pow2[n]
  <2>1. n + 1 \in 1 .. WordBits /\ n + 1 - 1 = n /\ n \in 0 .. WordBits
    BY WidthType
  <2> QED BY <1>2, <2>1 DEF Pow2
<1> QED BY <1>7, <1>8

(***************************************************************************)
(* A word is a low half of Height values and a high half of 65536.         *)
(***************************************************************************)
LEMMA Ranges ==
    /\ Height \in Nat /\ Height > 1
    /\ HalfRange = 32768 * Height /\ Pow2[WordBits] = 65536 * Height
    /\ Pow2[WordBits] = 2 * HalfRange
    /\ HalfRange \in Nat /\ HalfRange > Height
<1> DEFINE P(k) == Pow2[ImmBits + k]
<1>1. \A k \in 0 .. 15 : P(k + 1) = 2 * P(k)
  <2> SUFFICES ASSUME NEW k \in 0 .. 15 PROVE P(k + 1) = 2 * P(k)
    OBVIOUS
  <2>1. ImmBits + k \in 0 .. WordBits - 1 /\ ImmBits + (k + 1) = ImmBits + k + 1
    BY WidthType
  <2> QED BY <2>1, Powers
<1>2. P(0) = Height /\ P(15) = HalfRange /\ P(16) = Pow2[WordBits]
  BY WidthType DEF Height, HalfRange
<1>3. Height \in Nat /\ Height > 1
  <2>1. /\ ImmBits - 1 \in 0 .. WordBits - 1 /\ ImmBits - 1 + 1 = ImmBits
        /\ ImmBits - 1 \in 0 .. WordBits
    BY WidthType
  <2>2. Pow2[ImmBits - 1] \in Nat \ {0}
    BY <2>1, Powers, WidthType
  <2>3. Height = 2 * Pow2[ImmBits - 1]
    BY <2>1, Powers DEF Height
  <2> QED BY <2>2, <2>3
<1> HIDE DEF P
<1>4. /\ P(1) = 2 * P(0) /\ P(2) = 2 * P(1) /\ P(3) = 2 * P(2) /\ P(4) = 2 * P(3)
      /\ P(5) = 2 * P(4) /\ P(6) = 2 * P(5) /\ P(7) = 2 * P(6) /\ P(8) = 2 * P(7)
      /\ P(9) = 2 * P(8) /\ P(10) = 2 * P(9) /\ P(11) = 2 * P(10)
      /\ P(12) = 2 * P(11) /\ P(13) = 2 * P(12) /\ P(14) = 2 * P(13)
      /\ P(15) = 2 * P(14) /\ P(16) = 2 * P(15)
  <2>1. \A k \in 0 .. 15 : P(k + 1) = 2 * P(k)
    BY <1>1
  <2> QED BY <2>1
<1>5. P(4) = 16 * P(0) /\ P(8) = 256 * P(0)
  BY <1>2, <1>3, <1>4
<1>6. P(15) = 32768 * P(0) /\ P(16) = 65536 * P(0)
  BY <1>2, <1>3, <1>4, <1>5
<1> QED BY <1>2, <1>3, <1>6

\* Addresses and words are integers, and every address is a word.
LEMMA AddrType ==
    /\ Addr \subseteq Nat /\ 0 \in Addr
    /\ Word \subseteq Int /\ Addr \subseteq Word
    /\ 0 \in Word /\ 1 \in Word
BY Ranges DEF Addr, Word

\* & 0xffff yields an address and leaves an address alone.
LEMMA LowType ==
    /\ \A x \in Int : Low(x) \in Addr
    /\ \A a \in Addr : Low(a) = a
    /\ Low(Height) = 0
BY Ranges DEF Low, Addr

\* Wrapping yields a word and leaves a word alone.
LEMMA WrapType ==
    /\ \A x \in Int : Wrap(x) \in Word
    /\ \A w \in Word : Wrap(w) = w
<1> DEFINE full == Pow2[WordBits]
<1>1. full = 2 * HalfRange /\ HalfRange \in Nat /\ HalfRange > 0 /\ full > 0
  BY Ranges
<1> HIDE DEF full
<1>2. ASSUME NEW x \in Int PROVE Wrap(x) \in Word
  <2>1. ((x + HalfRange) % full) \in 0 .. full - 1
    BY <1>1
  <2> QED BY <1>1, <2>1 DEF Wrap, Word, full
<1>3. ASSUME NEW w \in Word PROVE Wrap(w) = w
  <2>1. w + HalfRange \in 0 .. full - 1
    BY <1>1 DEF Word
  <2>2. ((w + HalfRange) % full) = w + HalfRange
    BY <1>1, <2>1
  <2> QED BY <1>1, <2>2 DEF Wrap, Word, full
<1> QED BY <1>2, <1>3

-----------------------------------------------------------------------------
LEMMA SmallPowers == Pow2[3] = 8 /\ Pow2[5] = 32
<1>1. /\ 0 \in 0 .. WordBits - 1 /\ 1 \in 0 .. WordBits - 1
      /\ 2 \in 0 .. WordBits - 1 /\ 3 \in 0 .. WordBits - 1
      /\ 4 \in 0 .. WordBits - 1
  BY WidthType
<1>2. /\ Pow2[1] = 2 * Pow2[0] /\ Pow2[2] = 2 * Pow2[1] /\ Pow2[3] = 2 * Pow2[2]
      /\ Pow2[4] = 2 * Pow2[3] /\ Pow2[5] = 2 * Pow2[4]
  <2>1. \A n \in 0 .. WordBits - 1 : Pow2[n + 1] = 2 * Pow2[n]
    BY Powers
  <2>2. 0 + 1 = 1 /\ 1 + 1 = 2 /\ 2 + 1 = 3 /\ 3 + 1 = 4 /\ 4 + 1 = 5
    OBVIOUS
  <2> QED BY <1>1, <2>1, <2>2
<1> QED BY <1>2, Powers

\* A field has its width.
LEMMA FieldType ==
    ASSUME NEW w \in Int, NEW lo \in 0 .. WordBits
    PROVE  Field(w, lo, 3) \in 0 .. 7 /\ Field(w, lo, 5) \in 0 .. 31
<1>1. Pow2[lo] \in Nat \ {0} /\ Pow2[WordBits] \in Nat \ {0}
  <2>1. WordBits \in 0 .. WordBits
    BY WidthType
  <2> QED BY <2>1, Powers
<1>2. Unsigned(w) \div Pow2[lo] \in Int
  BY <1>1 DEF Unsigned
<1> QED BY <1>2, SmallPowers DEF Field

(***************************************************************************)
(* What an instruction word decodes to (sp_ctl in DEC0, fetch of iss.c).   *)
(***************************************************************************)
LEMMA DecodeType ==
    ASSUME NEW w \in Word
    PROVE  /\ Decode(w).opcode \in 0 .. 31
           /\ Decode(w).dst \in 0 .. 7 /\ Decode(w).src0 \in 0 .. 7
           /\ Decode(w).src1 \in 0 .. 7 /\ Decode(w).immediate \in Word
<1>1. /\ w \in Int
      /\ ImmBits \in 0 .. WordBits /\ ImmBits + 3 \in 0 .. WordBits
      /\ ImmBits + 6 \in 0 .. WordBits /\ ImmBits + 9 \in 0 .. WordBits
  BY WidthType, AddrType
<1>2. SignExtend(Low(w)) \in Word
  <2>1. Low(w) \in 0 .. Height - 1
    BY <1>1, LowType DEF Addr
  <2> QED BY <2>1, Ranges DEF SignExtend, Word
<1> QED BY <1>1, <1>2, FieldType DEF Decode

-----------------------------------------------------------------------------
LEMMA ShiftLeftType ==
    ASSUME NEW a \in Int, NEW b \in Int
    PROVE  ShiftLeft(a, b) \in Word
<1> DEFINE n == b % WordBits
<1>1. n \in 0 .. WordBits /\ WordBits - n \in 0 .. WordBits
  BY WidthType
<1> HIDE DEF n
<1>2. Pow2[n] \in Nat \ {0} /\ Pow2[WordBits - n] \in Nat \ {0}
  BY <1>1, Powers
<1>3. (a % Pow2[WordBits - n]) * Pow2[n] \in Int
  BY <1>2
<1> QED BY <1>3, WrapType DEF ShiftLeft, n

LEMMA ShiftRightType ==
    ASSUME NEW a \in Word, NEW b \in Int
    PROVE  ShiftRight(a, b) \in Word
<1> DEFINE k == Pow2[b % WordBits]
<1>1. (b % WordBits) \in 0 .. WordBits
  BY WidthType
<1>2. k \in Nat \ {0} /\ a \in Int
  BY <1>1, Powers, AddrType
<1> HIDE DEF k
<1>3. a >= 0 => 0 <= a \div k /\ a \div k <= a
  BY <1>2
<1>4. a < 0 => a <= a \div k /\ a \div k < 0
  BY <1>2
<1>5. a \div k \in Int
  BY <1>2
<1> QED BY <1>2, <1>3, <1>4, <1>5, Ranges DEF ShiftRight, Word, k

LEMMA OfBitsType ==
    ASSUME NEW S
    PROVE  OfBits(S) \in Word
<1> DEFINE bit(n) == IF n \in S THEN Pow2[n] ELSE 0
           Sums(f) == f = [n \in 0 .. WordBits |-> IF n = 0 THEN 0 ELSE f[n - 1] + bit(n - 1)]
           sum == CHOOSE f : Sums(f)
           rule == [n \in Nat |-> [x \in Int |->
                      IF n \in 1 .. WordBits THEN x + bit(n - 1) ELSE x]]
<1>1. \A n \in 0 .. WordBits : bit(n) \in Int
  BY Powers
<1> HIDE DEF bit
<1>2. \A n \in 1 .. WordBits : n \in Nat /\ n - 1 \in 0 .. WordBits
  BY WidthType
<1>3. \E f : Sums(f)
  <2> DEFINE Z == Int
  <2>1. rule \in Rules(Z) /\ 0 \in Z /\ WordBits \in Nat
    BY <1>1, <1>2, WidthType DEF Rules
  <2> HIDE DEF rule, Z
  <2>2. PICK f : Follows(f, WordBits, Z, 0, rule)
    BY <2>1, RecursionExists
  <2>3. ASSUME NEW n \in 0 .. WordBits, n # 0
        PROVE  f[n] = f[n - 1] + bit(n - 1)
    <3>1. n \in Nat /\ n \in 1 .. WordBits /\ n - 1 \in 0 .. WordBits
      BY <2>3, WidthType
    <3>2. f[n - 1] \in Int
      BY <2>2, <3>1 DEF Follows, Z
    <3> QED BY <2>2, <3>1, <3>2 DEF Follows, rule
  <2>4. Sums(f)
    BY <2>2, <2>3 DEF Follows
  <2> QED BY <2>4
<1>4. Sums(sum)
  BY <1>3
<1> HIDE DEF sum
<1>5. sum[0] = 0 /\ \A n \in 1 .. WordBits : sum[n] = sum[n - 1] + bit(n - 1)
  <2>1. /\ 0 \in 0 .. WordBits
        /\ \A n \in 1 .. WordBits : n \in 0 .. WordBits /\ n # 0
    BY WidthType
  <2>2. \A n \in 0 .. WordBits : sum[n] = IF n = 0 THEN 0 ELSE sum[n - 1] + bit(n - 1)
    BY <1>4
  <2> QED BY <2>1, <2>2
<1> DEFINE Ints == { n \in Nat : n <= WordBits => sum[n] \in Int }
<1>6. 0 \in Ints
  BY <1>5
<1>7. \A n \in Nat : n \in Ints => n + 1 \in Ints
  <2> SUFFICES ASSUME NEW n \in Nat, n \in Ints, n + 1 <= WordBits
               PROVE  sum[n + 1] \in Int
    OBVIOUS
  <2>1. /\ n + 1 \in 1 .. WordBits /\ n + 1 - 1 = n /\ n <= WordBits
        /\ n \in 0 .. WordBits
    BY WidthType
  <2> QED BY <1>1, <1>5, <2>1
<1> HIDE DEF Ints
<1>8. WordBits \in Ints
  BY <1>6, <1>7, NatSet, WidthType
<1>9. Wrap(sum[WordBits]) \in Word
  BY <1>8, WidthType, WrapType DEF Ints
<1> QED BY <1>9 DEF OfBits, sum, bit

(***************************************************************************)
(* The arithmetic instructions compute words (execute of iss.c).           *)
(***************************************************************************)
LEMMA ArithType ==
    ASSUME NEW op \in ArithOps, NEW a \in Word, NEW b \in Word
    PROVE  Arith(op, a, b) \in Word
<1>1. a \in Int /\ b \in Int /\ a + b \in Int /\ a - b \in Int
  BY AddrType
<1> QED BY <1>1, WrapType, ShiftLeftType, ShiftRightType, OfBitsType
        DEF Arith, ArithOps, ADD, SUB, LSF, RSF, AND, OR, XOR

(***************************************************************************)
(* A wrapped multiple of Height has an empty low half, so that the low half*)
(* of another word may be added to it: LHI computes a word.                *)
(***************************************************************************)
LEMMA UpperHalf ==
    ASSUME NEW x \in Int, NEW b \in Int
    PROVE  Wrap(x * Height) + Low(b) \in Word
<1> DEFINE H == Height
           y == x + 32768
           q == (y * H) \div (65536 * H)
           m == y - 65536 * q - 32768
<1>1. H \in Nat /\ H > 1 /\ HalfRange = 32768 * H /\ Pow2[WordBits] = 65536 * H
  BY Ranges
<1>2. Low(b) \in Nat /\ Low(b) <= H - 1
  BY <1>1, LowType DEF Addr
<1> HIDE DEF H
<1>3. x * H + HalfRange = y * H
  BY <1>1
<1>4. 65536 * H \in Nat \ {0} /\ y * H \in Int /\ q \in Int
  BY <1>1
<1>5. ((y * H) % (65536 * H)) = y * H - (65536 * H) * q
  <2> DEFINE z == y * H
             d == 65536 * H
  <2>1. z \in Int /\ d \in Nat \ {0} /\ q = z \div d
    BY <1>4
  <2> HIDE DEF z, d
  <2>2. (z % d) = z - d * (z \div d)
    BY <2>1
  <2> QED BY <2>1, <2>2 DEF z, d
<1>6. ((y * H) % (65536 * H)) \in 0 .. 65536 * H - 1
  BY <1>4
<1> HIDE DEF y, q
<1>7. y \in Int
  BY DEF y
<1>8. Wrap(x * H) = m * H
  BY <1>1, <1>3, <1>4, <1>5, <1>7 DEF Wrap
<1>9. m \in Int /\ -32768 <= m /\ m <= 32767
  BY <1>1, <1>4, <1>5, <1>6, <1>7
<1>10. m * H >= -32768 * H /\ m * H <= 32767 * H
  BY <1>1, <1>9
<1> QED BY <1>1, <1>2, <1>8, <1>9, <1>10 DEF Word, H

\* The same for the LHI that shifts.
LEMMA UpperShift ==
    ASSUME NEW a \in Int, NEW b \in Int
    PROVE  ShiftLeft(a, ImmBits) + Low(b) \in Word
<1>1. (ImmBits % WordBits) = ImmBits /\ WordBits - ImmBits \in 0 .. WordBits
  BY WidthType
<1>2. (a % Pow2[WordBits - ImmBits]) \in Int
  BY <1>1, Powers
<1>3. ShiftLeft(a, ImmBits) = Wrap((a % Pow2[WordBits - ImmBits]) * Height)
  BY <1>1 DEF ShiftLeft, Height
<1> QED BY <1>2, <1>3, UpperHalf

(***************************************************************************)
(* The word 24 is also an addition to r0.                                  *)
(***************************************************************************)
LEMMA HltWord == Decode(HLT).opcode = ADD /\ Decode(HLT).dst = 0
<1> DEFINE P(k) == Pow2[ImmBits + k]
<1>1. P(0) = Height /\ Pow2[WordBits] > 24
  <2>1. ImmBits + 0 = ImmBits
    BY WidthType
  <2> QED BY <2>1, Ranges DEF Height
<1>2. \A k \in 0 .. 8 : P(k + 1) = 2 * P(k)
  <2> SUFFICES ASSUME NEW k \in 0 .. 8 PROVE P(k + 1) = 2 * P(k)
    OBVIOUS
  <2>1. ImmBits + k \in 0 .. WordBits - 1 /\ ImmBits + (k + 1) = ImmBits + k + 1
    BY WidthType
  <2> QED BY <2>1, Powers
<1> HIDE DEF P
<1>3. /\ P(1) = 2 * P(0) /\ P(2) = 2 * P(1) /\ P(3) = 2 * P(2) /\ P(4) = 2 * P(3)
      /\ P(5) = 2 * P(4) /\ P(6) = 2 * P(5) /\ P(7) = 2 * P(6) /\ P(8) = 2 * P(7)
      /\ P(9) = 2 * P(8)
  <2>1. /\ 0 + 1 = 1 /\ 1 + 1 = 2 /\ 2 + 1 = 3 /\ 3 + 1 = 4 /\ 4 + 1 = 5
        /\ 5 + 1 = 6 /\ 6 + 1 = 7 /\ 7 + 1 = 8 /\ 8 + 1 = 9
    OBVIOUS
  <2> QED BY <1>2, <2>1
<1>4. P(6) = 64 * Height /\ P(9) = 512 * Height
  BY <1>1, <1>3, Ranges
<1>5. P(6) \in Nat /\ P(6) > 24 /\ P(9) \in Nat /\ P(9) > 24
  BY <1>4, Ranges
<1>6. Unsigned(24) = 24
  <2>1. Pow2[WordBits] \in Nat
    BY Ranges
  <2> QED BY <1>1, <2>1 DEF Unsigned
<1>7. 24 \div P(6) = 0 /\ 24 \div P(9) = 0
  BY <1>5
<1>8. Field(24, ImmBits + 9, 5) = 0 /\ Field(24, ImmBits + 6, 3) = 0
  BY <1>6, <1>7, SmallPowers DEF Field, P
<1> QED BY <1>8 DEF Decode, HLT, ADD
=============================================================================
