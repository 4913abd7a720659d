------------------------------- MODULE SPWord -------------------------------
(***************************************************************************)
(* The data path of the SP: words, instruction format and arithmetic.      *)
(* The width of the immediate field is a parameter.  With ImmBits = 16     *)
(* words have 32 bits, addresses 16, and every definition is the one of    *)
(* the code; a smaller ImmBits narrows immediates, addresses and the low   *)
(* half of a word together and leaves the instruction format alone.        *)
(***************************************************************************)
EXTENDS Integers

CONSTANT ImmBits

ASSUME ImmBitsAssumption == ImmBits \in Nat /\ ImmBits > 1

WordBits == ImmBits + 16       \* bits of a word, 32 in the code

\* The powers of two: by recursion, and as a table, which TLC computes once.
Doubled[n \in 0 .. WordBits] == IF n = 0 THEN 1 ELSE 2 * Doubled[n - 1]
Pow2 == [n \in 0 .. WordBits |-> Doubled[n]]

Height == Pow2[ImmBits]        \* words of memory, 2^16 in the code
HalfRange == Pow2[WordBits - 1]
Addr == 0 .. Height - 1
Word == -HalfRange .. HalfRange - 1

\* The int a machine keeps of the mathematical integer x.
Wrap(x) == ((x + HalfRange) % Pow2[WordBits]) - HalfRange

\* The bits of a word as a natural number.
Unsigned(x) == x % Pow2[WordBits]

\* x & 0xffff
Low(x) == x % Height

\* Sign extension of an immediate field.
SignExtend(i) == IF i >= Height \div 2 THEN i - Height ELSE i

Bool(b) == IF b THEN 1 ELSE 0

-----------------------------------------------------------------------------
ADD == 0
SUB == 1
LSF == 2
RSF == 3
AND == 4
OR  == 5
XOR == 6
LHI == 7
LD  == 8
ST  == 9
DMA == 10
DMP == 11
JLT == 16
JLE == 17
JEQ == 18
JNE == 19
JIN == 20
HLT == 24

ArithOps == {ADD, SUB, LSF, RSF, AND, OR, XOR}
BranchOps == {JLT, JLE, JEQ, JNE}

-----------------------------------------------------------------------------
\* Mutant of Field: the mask is forgotten.
FieldUnmasked(inst, lo, n) == Unsigned(inst) \div Pow2[lo]

\* (inst >> lo) & (2^n - 1)
Field(inst, lo, n) == (Unsigned(inst) \div Pow2[lo]) % Pow2[n]

Decode(inst) ==
    [opcode    |-> Field(inst, ImmBits + 9, 5),
     dst       |-> Field(inst, ImmBits + 6, 3),
     src0      |-> Field(inst, ImmBits + 3, 3),
     src1      |-> Field(inst, ImmBits, 3),
     immediate |-> SignExtend(Low(inst))]

\* The inverse: the word asm_cmd assembles, every field masked.
asm_cmd(opcode, dst, src0, src1, immediate) ==
    Wrap((opcode % 32) * Pow2[ImmBits + 9] + (dst % 8) * Pow2[ImmBits + 6]
         + (src0 % 8) * Pow2[ImmBits + 3] + (src1 % 8) * Pow2[ImmBits]
         + Low(immediate))

-----------------------------------------------------------------------------
\* Shifts take the count modulo the word width, as the shift instructions of
\* the host do; the C expression is undefined outside 0 .. 31.
ShiftLeft(a, b) ==
    LET n == b % WordBits
    IN  Wrap((a % Pow2[WordBits - n]) * Pow2[n])

ShiftRight(a, b) == a \div Pow2[b % WordBits]

\* The places of the ones in a word, in two's complement, and the word whose
\* ones are in given places.
Bits(x) == { i \in 0 .. WordBits - 1 : (x \div Pow2[i]) % 2 = 1 }

OfBits(S) ==
    LET sum[n \in 0 .. WordBits] ==
            IF n = 0 THEN 0
            ELSE sum[n - 1] + (IF n - 1 \in S THEN Pow2[n - 1] ELSE 0)
    IN  Wrap(sum[WordBits])

\* The result of an arithmetic instruction.
Arith(op, a, b) ==
    CASE op = ADD -> Wrap(a + b)
      [] op = SUB -> Wrap(a - b)
      [] op = LSF -> ShiftLeft(a, b)
      [] op = RSF -> ShiftRight(a, b)
      [] op = AND -> OfBits(Bits(a) \cap Bits(b))
      [] op = OR  -> OfBits(Bits(a) \cup Bits(b))
      [] op = XOR -> OfBits((Bits(a) \cup Bits(b)) \ (Bits(a) \cap Bits(b)))

\* Mutants of Taken: JLT taken on equality, JNE with the sense of JEQ.
TakenJltOnEqual(op, a, b) ==
    CASE op \in {JLT, JLE} -> a <= b
      [] op = JEQ -> a = b
      [] op = JNE -> a # b

TakenJneAsJeq(op, a, b) ==
    CASE op = JLT -> a < b
      [] op = JLE -> a <= b
      [] op \in {JEQ, JNE} -> a = b

\* The condition of a conditional jump.
Taken(op, a, b) ==
    CASE op = JLT -> a < b
      [] op = JLE -> a <= b
      [] op = JEQ -> a = b
      [] op = JNE -> a # b
=============================================================================
