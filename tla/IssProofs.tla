------------------------------ MODULE IssProofs -----------------------------
(***************************************************************************)
(* Theorems about the instruction set simulator, for every width of the    *)
(* immediate field and every memory image.                                 *)
(***************************************************************************)
EXTENDS Iss, SPWordProofs

\* The operands of an instruction are words, its fields in their ranges.
LEMMA OperandType ==
    ASSUME TypeOK
    PROVE  /\ inst.opcode \in 0 .. 31 /\ inst.dst \in 0 .. 7
           /\ inst.immediate \in Word
           /\ Val0 \in Word /\ Val1 \in Word
           /\ NextPc \in Addr
<1>1. mem[pc] \in Word /\ pc \in Int
  BY AddrType DEF TypeOK
<1>2. /\ inst.opcode \in 0 .. 31 /\ inst.dst \in 0 .. 7
      /\ inst.src0 \in 0 .. 7 /\ inst.src1 \in 0 .. 7 /\ inst.immediate \in Word
  BY <1>1, DecodeType DEF inst
<1>3. regs[inst.src0] \in Word /\ regs[inst.src1] \in Word
  BY <1>2 DEF TypeOK
<1>4. NextPc \in Addr
  BY <1>1, LowType DEF NextPc
<1> QED BY <1>2, <1>3, <1>4 DEF Val0, Val1

\* An assignment leaves r0 and r1 zero.
LEMMA SetRegType ==
    ASSUME TypeOK, NEW r \in 0 .. 7, NEW v \in Word, SetReg(r, v)
    PROVE  regs' \in [0 .. 7 -> Word] /\ regs'[0] = 0 /\ regs'[1] = 0
BY DEF TypeOK, SetReg

\* The link is a word, -1 when the increment of pc wrapped.
LEMMA LinkType ==
    ASSUME TypeOK
    PROVE  Link \in Word
<1>1. Height \in Nat /\ HalfRange \in Nat /\ HalfRange > Height /\ Height > 1
  BY Ranges
<1>2. NextPc \in Addr
  BY OperandType
<1>3. NextPc \in Int /\ NextPc >= 0 /\ NextPc < Height
  BY <1>1, <1>2 DEF Addr
<1>4. NextPc - 1 \in -HalfRange .. HalfRange - 1
  BY <1>1, <1>3
<1> QED BY <1>4 DEF Link, Word

\* Every instruction keeps the types.
LEMMA TypeStep ==
    ASSUME TypeOK, [Next]_vars
    PROVE  TypeOK'
<1>1. /\ inst.opcode \in 0 .. 31 /\ inst.dst \in 0 .. 7 /\ inst.immediate \in Word
      /\ Val0 \in Word /\ Val1 \in Word /\ NextPc \in Addr /\ Link \in Word
  BY OperandType, LinkType
<1>2. Low(Val0) \in Addr /\ Low(Val1) \in Addr /\ Low(inst.immediate) \in Addr
  <2>1. Val0 \in Int /\ Val1 \in Int /\ inst.immediate \in Int
    BY <1>1, AddrType
  <2> QED BY <2>1, LowType
<1>3. /\ mem \in [Addr -> Word] /\ regs \in [0 .. 7 -> Word]
      /\ regs[0] = 0 /\ regs[1] = 0 /\ pc \in Addr
      /\ status \in {"running", "halted", "illegal"}
  BY DEF TypeOK
<1>4. CASE ExecArith /\ UNCHANGED mem
  <2>1. Arith(inst.opcode, Val0, Val1) \in Word
    BY <1>1, <1>4, ArithType DEF ExecArith, Execute
  <2> QED BY <1>1, <1>3, <1>4, <2>1, SetRegType DEF ExecArith, TypeOK
<1>5. CASE ExecLhi /\ UNCHANGED mem
  <2>1. Wrap(Val0 * Height) + Low(regs[inst.dst]) \in Word
    <3>1. Val0 \in Int /\ regs[inst.dst] \in Int
      <4>1. regs[inst.dst] \in Word
        BY <1>1, <1>3
      <4> QED BY <1>1, <4>1, AddrType
    <3> QED BY <3>1, UpperHalf
  <2> QED BY <1>1, <1>3, <1>5, <2>1, SetRegType DEF ExecLhi, TypeOK
<1>6. CASE ExecLd /\ UNCHANGED mem
  <2>1. mem[Low(Val1)] \in Word
    BY <1>2, <1>3
  <2> QED BY <1>1, <1>3, <1>6, <2>1, SetRegType DEF ExecLd, TypeOK
<1>7. CASE ExecSt
  <2>1. mem' \in [Addr -> Word]
    BY <1>1, <1>2, <1>3, <1>7 DEF ExecSt
  <2> QED BY <1>1, <1>3, <1>7, <2>1 DEF ExecSt, TypeOK
<1>8. CASE (ExecBranch \/ ExecJin) /\ UNCHANGED mem
  <2>1. pc' \in Addr
    BY <1>1, <1>2, <1>8 DEF ExecBranch, ExecJin
  <2>2. SetReg(7, Link) \/ regs' = regs
    BY <1>8 DEF ExecBranch, ExecJin
  <2>3. regs' \in [0 .. 7 -> Word] /\ regs'[0] = 0 /\ regs'[1] = 0
    BY <1>1, <1>3, <2>2, SetRegType
  <2> QED BY <1>3, <1>8, <2>1, <2>3 DEF ExecBranch, ExecJin, TypeOK
<1>9. CASE (ExecHlt \/ ExecIllegal) /\ UNCHANGED mem
  BY <1>1, <1>3, <1>9 DEF ExecHlt, ExecIllegal, TypeOK
<1>10. CASE Stopped \/ UNCHANGED vars
  BY <1>10 DEF Stopped, vars, TypeOK
<1> QED BY <1>4, <1>5, <1>6, <1>7, <1>8, <1>9, <1>10 DEF Next

(***************************************************************************)
(* Every memory word and register stays a word, r0 and r1 stay zero, and pc*)
(* stays an address across increments, jumps to negative immediates and    *)
(* links, whatever program is loaded.                                      *)
(***************************************************************************)
THEOREM TypeCorrect == Spec => []TypeOK
<1>1. Init => TypeOK
  BY ImagesAssumption, AddrType DEF Init, TypeOK
<1>2. TypeOK /\ [Next]_vars => TypeOK'
  BY TypeStep
<1> QED BY <1>1, <1>2, PTL DEF Spec
=============================================================================
