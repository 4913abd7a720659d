--------------------------- MODULE SP5ArchProofs ----------------------------
(***************************************************************************)
(* The pipeline executes one instruction after the other.  TurnMoves says  *)
(* what a call of sp_ctl moves from stage to stage; from it follows the    *)
(* invariant FlowInv: the stages hold the program in its predicted order,  *)
(* and exec1 the operands that the register file demands.  At the clock    *)
(* edge the instruction in exec1 therefore takes effect as it does on a    *)
(* machine without a pipeline, for every regular run; and the last two     *)
(* sections give conditions on the program text that make its runs regular *)
(* and common.                                                             *)
(***************************************************************************)
EXTENDS SP5Proofs

-----------------------------------------------------------------------------
(***************************************************************************)
(* What a call of sp_ctl moves from stage to stage.                        *)
(***************************************************************************)
SameFetch1(m, n) ==
    /\ m.fetch1.active = n.fetch1.active /\ m.fetch1.pc = n.fetch1.pc
    /\ m.fetch1.btb = n.fetch1.btb

SameExec0(m, n) == m.exec0 = n.exec0 /\ m.exec0_alu = n.exec0_alu

\* Where the fetch goes from an address with a prediction.
Predicted(b, pc) == IF b.taken = 1 THEN b.target ELSE pc + 1

\* fetch0 follows the branch target buffer.
LEMMA Fetch0Moves ==
    ASSUME TypeOK, NEW n \in CpuRegisters
    PROVE  LET m == Fetch0(n)
               p == BtbEntry(cpu.fetch0.pc)
           IN  /\ IF FetchesNow
                    THEN /\ m.fetch0.pc = Predicted(p, cpu.fetch0.pc)
                         /\ m.fetch1.active
                         /\ m.fetch1.pc = cpu.fetch0.pc /\ m.fetch1.btb = p
                    ELSE m.fetch0.pc = n.fetch0.pc /\ SameFetch1(m, n)
               /\ m.dec0 = n.dec0 /\ m.dec1 = n.dec1 /\ SameExec0(m, n)
<1> DEFINE p == BtbEntry(cpu.fetch0.pc)
           next == IF p.taken = 1 THEN p.target ELSE cpu.fetch0.pc + 1
           f0 == [active |-> TRUE, pc |-> next]
           f1 == [n.fetch1 EXCEPT !.active = TRUE, !.pc = cpu.fetch0.pc, !.btb = p]
<1>3. CASE ~FetchesNow
  <2> DEFINE f == [n.fetch0 EXCEPT !.active = TRUE]
  <2>1. f.pc = n.fetch0.pc
    BY Held DEF Fetching
  <2>2. Fetch0(n) = [n EXCEPT !.fetch0 = f]
    BY <1>3 DEF Fetch0
  <2> HIDE DEF f
  <2> QED BY <1>3, <2>1, <2>2 DEF CpuRegisters, SameFetch1, SameExec0
<1>4. CASE FetchesNow
  <2>1. Fetch0(n) = [n EXCEPT !.fetch0 = f0, !.fetch1 = f1]
    BY <1>4 DEF Fetch0
  <2>2. f0.pc = next
    OBVIOUS
  <2>3. f1.active /\ f1.pc = cpu.fetch0.pc /\ f1.btb = p
    BY Held DEF Fetched
  <2> HIDE DEF f0, f1, p
  <2> QED BY <1>4, <2>1, <2>2, <2>3 DEF CpuRegisters, SameExec0, Predicted, p
<1> QED BY <1>3, <1>4

\* The word that fetch1 hands on.
FetchedInst == IF cpu.fetch1.use_saved THEN cpu.fetch1.saved_inst ELSE iport.dataout

\* fetch1 hands its instruction to dec0.
LEMMA Fetch1Moves ==
    ASSUME TypeOK, NEW n \in CpuRegisters
    PROVE  LET m == Fetch1(n)
           IN  /\ m.fetch0 = n.fetch0 /\ SameFetch1(m, n)
               /\ ~cpu.fetch1.active => ~m.dec0.active
               /\ cpu.fetch1.active /\ is_pipe_stalled => m.dec0 = n.dec0
               /\ cpu.fetch1.active /\ ~is_pipe_stalled =>
                     m.dec0 = [active |-> TRUE, pc |-> cpu.fetch1.pc,
                               inst |-> FetchedInst, btb |-> cpu.fetch1.btb]
               /\ m.dec1 = n.dec1 /\ SameExec0(m, n)
<1>1. CASE ~cpu.fetch1.active
  <2> DEFINE d == [n.dec0 EXCEPT !.active = FALSE]
  <2>1. Fetch1(n) = [n EXCEPT !.dec0 = d]
    BY <1>1 DEF Fetch1
  <2>2. d.active = FALSE
    BY Held DEF Decoding
  <2> HIDE DEF d
  <2> QED BY <1>1, <2>1, <2>2 DEF CpuRegisters, SameFetch1, SameExec0
<1>2. CASE cpu.fetch1.active /\ is_pipe_stalled
  <2> DEFINE f == [n.fetch1 EXCEPT !.saved_inst = iport.dataout, !.use_saved = TRUE]
  <2>1. f.active = n.fetch1.active /\ f.pc = n.fetch1.pc /\ f.btb = n.fetch1.btb
    BY Held DEF Fetched
  <2>2. Fetch1(n) = [n EXCEPT !.fetch1 = f]
    BY <1>2 DEF Fetch1
  <2> HIDE DEF f
  <2> QED BY <1>2, <2>1, <2>2 DEF CpuRegisters, SameFetch1, SameExec0
<1>3. CASE cpu.fetch1.active /\ ~is_pipe_stalled
  <2> DEFINE f == [n.fetch1 EXCEPT !.use_saved = FALSE]
             d == [active |-> TRUE, pc |-> cpu.fetch1.pc,
                   inst |-> FetchedInst, btb |-> cpu.fetch1.btb]
  <2>1. f.active = n.fetch1.active /\ f.pc = n.fetch1.pc /\ f.btb = n.fetch1.btb
    BY Held DEF Fetched
  <2>2. Fetch1(n) = [n EXCEPT !.fetch1 = f, !.dec0 = d]
    BY <1>3 DEF Fetch1, FetchedInst
  <2> HIDE DEF f, FetchedInst
  <2> QED BY <1>3, <2>1, <2>2 DEF CpuRegisters, SameFetch1, SameExec0
<1> QED BY <1>1, <1>2, <1>3

\* The instruction that dec0 makes of its word.
DecodedInst ==
    LET d == Decode(cpu.dec0.inst)
    IN  [active |-> TRUE, pc |-> cpu.dec0.pc, opcode |-> d.opcode,
         dst |-> d.dst, src0 |-> d.src0, src1 |-> d.src1,
         immediate |-> d.immediate, btb |-> cpu.dec0.btb]

\* It was predicted to jump and is no jump.
WronglyPredicted ==
    /\ cpu.dec0.active /\ ~is_pipe_stalled
    /\ Decode(cpu.dec0.inst).opcode \notin JumpOps
    /\ cpu.dec0.btb.taken = 1

\* dec0 hands it to dec1, and fetches again behind a wrong prediction.
LEMMA Dec0Moves ==
    ASSUME TypeOK, NEW n \in CpuRegisters
    PROVE  LET m == Dec0(n)
           IN  /\ IF WronglyPredicted
                    THEN /\ m.fetch0.pc = cpu.dec0.pc + 1
                         /\ ~m.fetch1.active /\ ~m.dec0.active
                    ELSE /\ m.fetch0 = n.fetch0 /\ SameFetch1(m, n)
                         /\ m.dec0 = n.dec0
               /\ ~cpu.dec0.active => ~m.dec1.active
               /\ cpu.dec0.active /\ is_pipe_stalled => m.dec1 = n.dec1
               /\ cpu.dec0.active /\ ~is_pipe_stalled => m.dec1 = DecodedInst
               /\ SameExec0(m, n)
<1> DEFINE m == [n EXCEPT !.dec1 = DecodedInst]
<1> HIDE DEF DecodedInst
<1> USE DEF SameFetch1, SameExec0
<1>1. CASE ~cpu.dec0.active
  <2> DEFINE d == [n.dec1 EXCEPT !.active = FALSE]
  <2>1. Dec0(n) = [n EXCEPT !.dec1 = d]
    BY <1>1 DEF Dec0
  <2>2. d.active = FALSE
    BY Held DEF Decoded
  <2>3. ~WronglyPredicted
    BY <1>1 DEF WronglyPredicted
  <2> HIDE DEF d
  <2> QED BY <1>1, <2>1, <2>2, <2>3 DEF CpuRegisters
<1>2. CASE cpu.dec0.active /\ is_pipe_stalled
  BY <1>2 DEF Dec0, WronglyPredicted
<1>3. CASE cpu.dec0.active /\ ~is_pipe_stalled /\ ~WronglyPredicted
  <2>1. Dec0(n) = m
    BY <1>3 DEF Dec0, DecodedInst, WronglyPredicted
  <2> QED BY <1>3, <2>1 DEF CpuRegisters
<1>4. CASE WronglyPredicted
  <2> DEFINE f == [n.fetch1 EXCEPT !.active = FALSE]
             e == [n.dec0 EXCEPT !.active = FALSE]
             g == [n.fetch0 EXCEPT !.pc = cpu.dec0.pc + 1]
  <2>1. Dec0(n) = [m EXCEPT !.fetch1.active = FALSE, !.dec0.active = FALSE,
                            !.fetch0.pc = cpu.dec0.pc + 1]
    BY <1>4 DEF Dec0, DecodedInst, WronglyPredicted
  <2>2. m.fetch0 = n.fetch0 /\ m.fetch1 = n.fetch1 /\ m.dec0 = n.dec0
        /\ m.dec1 = DecodedInst
    BY DEF CpuRegisters
  <2>3. /\ f.active = FALSE /\ e.active = FALSE /\ g.pc = cpu.dec0.pc + 1
    BY Held DEF Fetched, Decoding, Fetching
  <2>4. Dec0(n) = [m EXCEPT !.fetch1 = f, !.dec0 = e, !.fetch0 = g]
    BY <2>1, <2>2
  <2>5. cpu.dec0.active /\ ~is_pipe_stalled
    BY <1>4 DEF WronglyPredicted
  <2> HIDE DEF f, e, g, WronglyPredicted
  <2> QED BY <1>4, <2>2, <2>3, <2>4, <2>5 DEF CpuRegisters
<1> QED BY <1>1, <1>2, <1>3, <1>4

\* The operands that dec1 latches.
LatchedOperands ==
    LET s == cpu.dec1
    IN  [i \in 0 .. 1 |->
            IF i = 0
              THEN IF s.src0 = 1 \/ s.opcode = LHI
                     THEN s.immediate ELSE Dec1Operand(s.src0)
              ELSE IF s.src1 = 1 /\ s.opcode # LHI
                     THEN s.immediate ELSE Dec1Operand(Src1(s))]

\* dec1 hands its instruction and its operands to exec0.
LEMMA Dec1Moves ==
    ASSUME TypeOK, NEW n \in CpuRegisters
    PROVE  LET m == Dec1(n)
           IN  /\ m.fetch0 = n.fetch0 /\ SameFetch1(m, n)
               /\ m.dec0 = n.dec0 /\ m.dec1 = n.dec1
               /\ ~cpu.dec1.active => ~m.exec0.active
               /\ cpu.dec1.active /\ is_pipe_stalled => SameExec0(m, n)
               /\ cpu.dec1.active /\ ~is_pipe_stalled =>
                     m.exec0 = cpu.dec1 /\ m.exec0_alu = LatchedOperands
<1> USE DEF SameFetch1, SameExec0
<1>1. CASE ~cpu.dec1.active
  <2> DEFINE e == [n.exec0 EXCEPT !.active = FALSE]
  <2>1. Dec1(n) = [n EXCEPT !.exec0 = e]
    BY <1>1 DEF Dec1
  <2>2. e.active = FALSE
    BY Held DEF Decoded
  <2> HIDE DEF e
  <2> QED BY <1>1, <2>1, <2>2 DEF CpuRegisters
<1>2. CASE cpu.dec1.active /\ is_pipe_stalled
  BY <1>2 DEF Dec1
<1>3. CASE cpu.dec1.active /\ ~is_pipe_stalled
  <2>1. Dec1(n) = [n EXCEPT !.exec0 = cpu.dec1, !.exec0_alu = LatchedOperands]
    BY <1>3 DEF Dec1, LatchedOperands
  <2> HIDE DEF LatchedOperands
  <2> QED BY <1>3, <2>1 DEF CpuRegisters
<1> QED BY <1>1, <1>2, <1>3

\* exec0 hands its instruction to exec1 with its result.
LEMMA Exec0Moves ==
    ASSUME TypeOK, NEW n \in CpuRegisters
    PROVE  LET m == Exec0(n)
           IN  /\ m.fetch0 = n.fetch0 /\ SameFetch1(m, n)
               /\ m.dec0 = n.dec0 /\ m.dec1 = n.dec1 /\ SameExec0(m, n)
               /\ is_pipe_stalled \/ ~cpu.exec0.active => ~m.exec1.active
               /\ ~is_pipe_stalled /\ cpu.exec0.active =>
                     /\ m.exec1 = cpu.exec0
                     /\ m.exec1_alu[0] = Alu0 /\ m.exec1_alu[1] = Alu1
                     /\ m.exec1_aluout = AluOut
<1> USE DEF SameFetch1, SameExec0
<1>1. CASE is_pipe_stalled \/ ~cpu.exec0.active
  <2> DEFINE e == [n.exec1 EXCEPT !.active = FALSE]
  <2>1. Exec0(n) = [n EXCEPT !.exec1 = e]
    BY <1>1 DEF Exec0
  <2>2. e.active = FALSE
    BY Held DEF Decoded
  <2> HIDE DEF e
  <2> QED BY <1>1, <2>1, <2>2 DEF CpuRegisters
<1>2. CASE ~is_pipe_stalled /\ cpu.exec0.active
  <2> DEFINE a == [i \in 0 .. 1 |-> IF i = 0 THEN Alu0 ELSE Alu1]
  <2>1. Exec0(n) = [n EXCEPT !.exec1 = cpu.exec0, !.exec1_alu = a,
                             !.exec1_aluout = AluOut]
    BY <1>2 DEF Exec0
  <2>2. a[0] = Alu0 /\ a[1] = Alu1
    OBVIOUS
  <2> HIDE DEF a
  <2> QED BY <1>2, <2>1, <2>2 DEF CpuRegisters
<1> QED BY <1>1, <1>2

\* What exec1 leaves alone unless it flushes.
SameStages(m, n) ==
    /\ m.fetch0 = n.fetch0 /\ SameFetch1(m, n)
    /\ m.dec0 = n.dec0 /\ m.dec1 = n.dec1 /\ SameExec0(m, n)
    /\ SameExec1(m, n)

\* The jump in exec1 is taken, and was not expected.
Jumping == Retires(JumpOps) /\ cpu.exec1_aluout = 1
Flushing == Retires(JumpOps) /\ FlushNeeded

\* Where the program goes on behind the instruction in exec1.
NextAddress == IF Jumping THEN cpu.exec1.immediate ELSE cpu.exec1.pc + 1

\* The register file behind it.
WrittenBack ==
    IF Retires(ArithOps \cup {LHI}) /\ cpu.exec1.dst > 1
      THEN [cpu.r EXCEPT ![cpu.exec1.dst] = cpu.exec1_aluout]
    ELSE IF Retires({LD}) /\ cpu.exec1.dst > 1
      THEN [cpu.r EXCEPT ![cpu.exec1.dst] = port.dataout]
    ELSE IF Jumping
      THEN [cpu.r EXCEPT ![7] = cpu.exec1.pc]
      ELSE cpu.r

\* A result is written back.
LEMMA WriteBackMoves ==
    ASSUME NEW n \in CpuRegisters, NEW v
    PROVE  /\ WriteBack(n, v).r = IF cpu.exec1.dst > 1
                                    THEN [n.r EXCEPT ![cpu.exec1.dst] = v] ELSE n.r
           /\ SameStages(WriteBack(n, v), n)
           /\ WriteBack(n, v).mem_stall = n.mem_stall
           /\ WriteBack(n, v).mem_dst = n.mem_dst
BY DEF WriteBack, CpuRegisters, SameStages, SameFetch1, SameExec0, SameExec1

\* A loaded word is written back and offered to the bypass.
LEMMA LoadMoves ==
    ASSUME TypeOK, NEW n \in CpuRegisters, ~n.mem_stall
    PROVE  /\ Load(n).r = IF cpu.exec1.dst > 1
                            THEN [n.r EXCEPT ![cpu.exec1.dst] = port.dataout] ELSE n.r
           /\ SameStages(Load(n), n)
           /\ Load(n).mem_stall <=> cpu.exec1.dst > 1
           /\ Load(n).mem_stall => Load(n).mem_dst = cpu.exec1.dst
<1> DEFINE w == WriteBack(n, port.dataout)
<1>1. port.dataout \in Word
  BY DEF TypeOK, D!TypeOK, D!Port
<1>2. /\ w \in CpuRegisters /\ SameStages(w, n)
      /\ w.r = IF cpu.exec1.dst > 1
                 THEN [n.r EXCEPT ![cpu.exec1.dst] = port.dataout] ELSE n.r
  BY <1>1, WriteBackType, WriteBackMoves
<1> HIDE DEF w
<1>3. CASE cpu.exec1.dst > 1
  <2>1. Load(n) = [w EXCEPT !.mem_SRAM_DO = port.dataout, !.mem_stall = TRUE,
                            !.mem_dst = cpu.exec1.dst]
    BY <1>3 DEF Load, w
  <2>2. /\ Load(n).r = w.r /\ Load(n).mem_stall /\ Load(n).mem_dst = cpu.exec1.dst
        /\ SameStages(Load(n), w)
    BY <1>2, <2>1 DEF CpuRegisters, SameStages, SameFetch1, SameExec0, SameExec1
  <2> QED BY <1>2, <1>3, <2>2 DEF SameStages, SameFetch1, SameExec0, SameExec1
<1>4. CASE ~(cpu.exec1.dst > 1)
  BY <1>4 DEF Load, SameStages, SameFetch1, SameExec0, SameExec1
<1> QED BY <1>3, <1>4

\* A jump sets r7 if it is taken, and flushes if it was not expected.
LEMMA JumpMoves ==
    ASSUME TypeOK, NEW n \in CpuRegisters
    PROVE  LET m == Jump(n)
           IN  /\ m.r = IF cpu.exec1_aluout = 1
                          THEN [n.r EXCEPT ![7] = cpu.exec1.pc] ELSE n.r
               /\ m.mem_stall = n.mem_stall /\ m.mem_dst = n.mem_dst
               /\ IF FlushNeeded
                    THEN /\ m.fetch0.pc = IF cpu.exec1_aluout = 1
                                            THEN cpu.exec1.immediate
                                            ELSE cpu.exec1.pc + 1
                         /\ ~m.fetch1.active /\ ~m.dec0.active /\ ~m.dec1.active
                         /\ ~m.exec0.active /\ ~m.exec1.active
                    ELSE SameStages(m, n)
<1> DEFINE q == [n.r EXCEPT ![7] = cpu.exec1.pc]
           l == IF cpu.exec1_aluout = 1 THEN [n EXCEPT !.r[7] = cpu.exec1.pc] ELSE n
           target == IF cpu.exec1_aluout = 1 THEN cpu.exec1.immediate
                                             ELSE cpu.exec1.pc + 1
<1>1. cpu.exec1.pc \in Addr /\ cpu.exec1.pc \in Word
  <2>1. cpu.exec1.pc \in Addr
    BY Held DEF TypeOK, Decoded
  <2> QED BY <2>1, AddrType
<1>2. /\ l \in CpuRegisters /\ SameStages(l, n)
      /\ l.mem_stall = n.mem_stall /\ l.mem_dst = n.mem_dst
      /\ l.r = IF cpu.exec1_aluout = 1 THEN q ELSE n.r
  <2>1. CASE cpu.exec1_aluout = 1
    <3>1. q \in [0 .. 7 -> Word]
      BY <1>1, Held
    <3>2. l = [n EXCEPT !.r = q]
      BY <2>1
    <3> HIDE DEF q
    <3>3. [n EXCEPT !.r = q] \in CpuRegisters
      BY <3>1, Put
    <3> QED BY <2>1, <3>2, <3>3
            DEF CpuRegisters, SameStages, SameFetch1, SameExec0, SameExec1
  <2>2. CASE cpu.exec1_aluout # 1
    BY <2>2 DEF SameStages, SameFetch1, SameExec0, SameExec1
  <2> QED BY <2>1, <2>2
<1>3. CASE ~FlushNeeded
  <2>1. Jump(n) = l
    BY <1>3 DEF Jump
  <2> HIDE DEF l
  <2> QED BY <1>2, <1>3, <2>1
<1>4. CASE FlushNeeded
  <2> DEFINE f == [l.fetch1 EXCEPT !.active = FALSE]
             e == [l.exec1 EXCEPT !.active = FALSE]
             g == [l.fetch0 EXCEPT !.pc = target]
             d0 == [l.dec0 EXCEPT !.active = FALSE]
             d1 == [l.dec1 EXCEPT !.active = FALSE]
             e0 == [l.exec0 EXCEPT !.active = FALSE]
  <2>1. Jump(n) = [l EXCEPT !.fetch1 = f, !.dec0 = d0, !.dec1 = d1, !.exec0 = e0,
                            !.exec1 = e, !.fetch0 = g]
    BY <1>4 DEF Jump
  <2> HIDE DEF l, target
  <2>2. f.active = FALSE /\ d0.active = FALSE /\ g.pc = target
    BY <1>2, Held DEF Fetched, Decoding, Fetching
  <2>3. d1.active = FALSE /\ e0.active = FALSE /\ e.active = FALSE
    <3>1. l.dec1 \in Decoded /\ l.exec0 \in Decoded /\ l.exec1 \in Decoded
      BY <1>2, Held
    <3> QED BY <3>1 DEF Decoded
  <2> HIDE DEF f, e, g, d0, d1, e0
  <2>4. /\ Jump(n).fetch1 = f /\ Jump(n).dec0 = d0 /\ Jump(n).dec1 = d1
        /\ Jump(n).exec0 = e0 /\ Jump(n).exec1 = e /\ Jump(n).fetch0 = g
        /\ Jump(n).r = l.r /\ Jump(n).mem_stall = l.mem_stall
        /\ Jump(n).mem_dst = l.mem_dst
    BY <1>2, <2>1 DEF CpuRegisters
  <2> QED BY <1>2, <1>4, <2>2, <2>3, <2>4 DEF target
<1> QED BY <1>3, <1>4

\* exec1 retires its instruction.
LEMMA Exec1Moves ==
    ASSUME TypeOK, NEW n \in CpuRegisters, n.r = cpu.r
    PROVE  LET m == Exec1(n)
           IN  /\ m.r = WrittenBack
               /\ IF cpu.exec1.active
                    THEN /\ m.mem_stall <=> Retires({LD}) /\ cpu.exec1.dst > 1
                         /\ m.mem_stall => m.mem_dst = cpu.exec1.dst
                    ELSE m.mem_stall = n.mem_stall /\ m.mem_dst = n.mem_dst
               /\ IF Flushing
                    THEN /\ m.fetch0.pc = NextAddress
                         /\ ~m.fetch1.active /\ ~m.dec0.active /\ ~m.dec1.active
                         /\ ~m.exec0.active /\ ~m.exec1.active
                    ELSE SameStages(m, n)
<1> DEFINE l == [n EXCEPT !.mem_stall = FALSE]
           op == cpu.exec1.opcode
           Writers == ArithOps \cup {LHI}
<1>1. l \in CpuRegisters /\ SameStages(l, n) /\ ~l.mem_stall /\ l.r = cpu.r
  <2>1. l \in CpuRegisters
    BY Put
  <2> QED BY <2>1 DEF CpuRegisters, SameStages, SameFetch1, SameExec0, SameExec1
<1>w. /\ LD \notin Writers /\ LD \notin JumpOps
      /\ \A o \in JumpOps : o \notin Writers /\ o # LD
  BY DEF JumpOps, BranchOps, ArithOps, LHI, LD, ADD, SUB, LSF, RSF, AND, OR, XOR,
         JLT, JLE, JEQ, JNE, JIN, DMP
<1>u. \A m : SameStages(m, l) => SameStages(m, n)
  BY <1>1 DEF SameStages, SameFetch1, SameExec0, SameExec1
<1> HIDE DEF Writers
<1>3. CASE ~cpu.exec1.active
  <2>1. Exec1(n) = n
    BY <1>3 DEF Exec1
  <2>2. ~Flushing /\ WrittenBack = cpu.r
    BY <1>3 DEF Flushing, WrittenBack, Retires, Jumping
  <2> QED BY <1>3, <2>1, <2>2 DEF SameStages, SameFetch1, SameExec0, SameExec1
<1>4. CASE cpu.exec1.active /\ op \in Writers
  <2>1. Exec1(n) = WriteBack(l, cpu.exec1_aluout)
    BY <1>4, <1>w DEF Exec1, Writers
  <2>2. /\ ~Flushing /\ ~Retires({LD})
        /\ WrittenBack = IF cpu.exec1.dst > 1
                           THEN [cpu.r EXCEPT ![cpu.exec1.dst] = cpu.exec1_aluout]
                           ELSE cpu.r
    BY <1>4, <1>w DEF Flushing, WrittenBack, Retires, Jumping, Writers
  <2> HIDE DEF l, Flushing, WrittenBack
  <2> QED BY <1>1, <1>4, <1>u, <2>1, <2>2, WriteBackMoves
<1>5. CASE cpu.exec1.active /\ op = LD
  <2>1. Exec1(n) = Load(l)
    BY <1>5, <1>w DEF Exec1, Writers
  <2>2. /\ ~Flushing /\ Retires({LD})
        /\ WrittenBack = IF cpu.exec1.dst > 1
                           THEN [cpu.r EXCEPT ![cpu.exec1.dst] = port.dataout]
                           ELSE cpu.r
    BY <1>5, <1>w DEF Flushing, WrittenBack, Retires, Jumping, Writers
  <2> HIDE DEF l, Flushing, WrittenBack
  <2> QED BY <1>1, <1>5, <1>u, <2>1, <2>2, LoadMoves
<1>6. CASE cpu.exec1.active /\ op \in JumpOps
  <2>1. Exec1(n) = Jump(l)
    BY <1>6, <1>w DEF Exec1, Writers
  <2>2. /\ Flushing <=> FlushNeeded
        /\ ~Retires({LD})
        /\ Jumping <=> cpu.exec1_aluout = 1
        /\ WrittenBack = IF cpu.exec1_aluout = 1
                           THEN [cpu.r EXCEPT ![7] = cpu.exec1.pc] ELSE cpu.r
    BY <1>6, <1>w DEF Flushing, WrittenBack, Retires, Jumping, Writers
  <2> HIDE DEF l, Flushing, WrittenBack, Jumping, FlushNeeded
  <2> QED BY <1>1, <1>6, <1>u, <2>1, <2>2, JumpMoves DEF NextAddress
<1>7. CASE cpu.exec1.active /\ op \notin Writers /\ op # LD /\ op \notin JumpOps
  <2>1. Exec1(n) = l
    BY <1>7 DEF Exec1, Writers
  <2>2. ~Flushing /\ ~Retires({LD}) /\ WrittenBack = cpu.r
    BY <1>7 DEF Flushing, WrittenBack, Retires, Jumping, Writers
  <2> HIDE DEF l, Flushing, WrittenBack
  <2> QED BY <1>1, <1>7, <2>1, <2>2
<1> QED BY <1>3, <1>4, <1>5, <1>6, <1>7

-----------------------------------------------------------------------------
(***************************************************************************)
(* One call of sp_ctl: the pipe is flushed, held by a stall, or moves.     *)
(***************************************************************************)
Flushed(m) ==
    /\ m.fetch0.pc = NextAddress
    /\ ~m.fetch1.active /\ ~m.dec0.active /\ ~m.dec1.active
    /\ ~m.exec0.active /\ ~m.exec1.active

\* A bubble empties the stage before it, stalled or not.
HeldBack(m) ==
    /\ m.fetch0.pc = cpu.fetch0.pc /\ SameFetch1(m, cpu)
    /\ IF cpu.fetch1.active THEN m.dec0 = cpu.dec0 ELSE ~m.dec0.active
    /\ IF cpu.dec0.active THEN m.dec1 = cpu.dec1 ELSE ~m.dec1.active
    /\ IF cpu.dec1.active THEN SameExec0(m, cpu) ELSE ~m.exec0.active
    /\ ~m.exec1.active

\* The fetches follow the predictions until dec0 knows better.
Fetching1(m) ==
    IF WronglyPredicted
      THEN m.fetch0.pc = cpu.dec0.pc + 1 /\ ~m.fetch1.active /\ ~m.dec0.active
      ELSE /\ IF cpu.fetch0.active
                THEN LET p == BtbEntry(cpu.fetch0.pc)
                     IN  /\ m.fetch0.pc = Predicted(p, cpu.fetch0.pc)
                         /\ m.fetch1.active
                         /\ m.fetch1.pc = cpu.fetch0.pc /\ m.fetch1.btb = p
                ELSE m.fetch0.pc = cpu.fetch0.pc /\ SameFetch1(m, cpu)
           /\ IF cpu.fetch1.active
                THEN m.dec0 = [active |-> TRUE, pc |-> cpu.fetch1.pc,
                               inst |-> FetchedInst, btb |-> cpu.fetch1.btb]
                ELSE ~m.dec0.active

\* Every stage hands on what it has.
MovedOn(m) ==
    /\ Fetching1(m)
    /\ IF cpu.dec0.active THEN m.dec1 = DecodedInst ELSE ~m.dec1.active
    /\ IF cpu.dec1.active
         THEN m.exec0 = cpu.dec1 /\ m.exec0_alu = LatchedOperands
         ELSE ~m.exec0.active
    /\ IF cpu.exec0.active
         THEN /\ m.exec1 = cpu.exec0
              /\ m.exec1_alu[0] = Alu0 /\ m.exec1_alu[1] = Alu1
              /\ m.exec1_aluout = AluOut
         ELSE ~m.exec1.active

\* The new registers, whatever happens.
LEMMA TurnMoves ==
    ASSUME Inv, sp_ctl
    PROVE  /\ cpun'.r = WrittenBack
           /\ IF cpu.exec1.active
                THEN /\ cpun'.mem_stall <=> Retires({LD}) /\ cpu.exec1.dst > 1
                     /\ cpun'.mem_stall => cpun'.mem_dst = cpu.exec1.dst
                ELSE cpun'.mem_stall = cpu.mem_stall /\ cpun'.mem_dst = cpu.mem_dst
           /\ Flushing => ~is_pipe_stalled /\ Flushed(cpun')
           /\ ~Flushing /\ is_pipe_stalled => HeldBack(cpun')
           /\ ~Flushing /\ ~is_pipe_stalled => MovedOn(cpun')
<1> DEFINE n0 == Fetch0(cpun)
           n1 == Fetch1(n0)
           n2 == Dec0(n1)
           n3 == Dec1(n2)
           n4 == Exec0(n3)
           m  == Exec1(n4)
<1> HIDE DEF n0, n1, n2, n3, n4, m
<1>1. /\ TypeOK /\ cpun = cpu /\ cpu \in CpuRegisters
      /\ cpu.fetch1.active => cpu.fetch1.pc \in Addr
  BY Turned DEF Inv, TypeOK
<1>2. /\ n0 \in CpuRegisters /\ SameExec1(n0, cpu) /\ SameResults(n0, cpu)
      /\ IF FetchesNow
           THEN /\ n0.fetch0.pc = Predicted(BtbEntry(cpu.fetch0.pc), cpu.fetch0.pc)
                /\ n0.fetch1.active /\ n0.fetch1.pc = cpu.fetch0.pc
                /\ n0.fetch1.btb = BtbEntry(cpu.fetch0.pc)
           ELSE n0.fetch0.pc = cpu.fetch0.pc /\ SameFetch1(n0, cpu)
      /\ n0.dec0 = cpu.dec0 /\ n0.dec1 = cpu.dec1 /\ SameExec0(n0, cpu)
  BY <1>1, Fetch0Effect, Fetch0Moves DEF n0
<1>3. /\ n1 \in CpuRegisters /\ SameExec1(n1, n0) /\ SameResults(n1, n0)
      /\ n1.fetch0 = n0.fetch0 /\ SameFetch1(n1, n0)
      /\ ~cpu.fetch1.active => ~n1.dec0.active
      /\ cpu.fetch1.active /\ is_pipe_stalled => n1.dec0 = n0.dec0
      /\ cpu.fetch1.active /\ ~is_pipe_stalled =>
            n1.dec0 = [active |-> TRUE, pc |-> cpu.fetch1.pc,
                       inst |-> FetchedInst, btb |-> cpu.fetch1.btb]
      /\ n1.dec1 = n0.dec1 /\ SameExec0(n1, n0)
  BY <1>1, <1>2, Fetch1Effect, Fetch1Moves DEF n1
<1>4. /\ n2 \in CpuRegisters /\ SameExec1(n2, n1) /\ SameResults(n2, n1)
      /\ IF WronglyPredicted
           THEN /\ n2.fetch0.pc = cpu.dec0.pc + 1
                /\ ~n2.fetch1.active /\ ~n2.dec0.active
           ELSE n2.fetch0 = n1.fetch0 /\ SameFetch1(n2, n1) /\ n2.dec0 = n1.dec0
      /\ ~cpu.dec0.active => ~n2.dec1.active
      /\ cpu.dec0.active /\ is_pipe_stalled => n2.dec1 = n1.dec1
      /\ cpu.dec0.active /\ ~is_pipe_stalled => n2.dec1 = DecodedInst
      /\ SameExec0(n2, n1)
  BY <1>1, <1>3, Dec0Effect, Dec0Moves DEF n2
<1>5. /\ n3 \in CpuRegisters /\ SameExec1(n3, n2) /\ SameResults(n3, n2)
      /\ n3.fetch0 = n2.fetch0 /\ SameFetch1(n3, n2)
      /\ n3.dec0 = n2.dec0 /\ n3.dec1 = n2.dec1
      /\ ~cpu.dec1.active => ~n3.exec0.active
      /\ cpu.dec1.active /\ is_pipe_stalled => SameExec0(n3, n2)
      /\ cpu.dec1.active /\ ~is_pipe_stalled =>
            n3.exec0 = cpu.dec1 /\ n3.exec0_alu = LatchedOperands
  BY <1>1, <1>4, Dec1Effect, Dec1Moves DEF n3
<1>6. /\ n4 \in CpuRegisters /\ SameResults(n4, n3)
      /\ n4.fetch0 = n3.fetch0 /\ SameFetch1(n4, n3)
      /\ n4.dec0 = n3.dec0 /\ n4.dec1 = n3.dec1 /\ SameExec0(n4, n3)
      /\ is_pipe_stalled \/ ~cpu.exec0.active => ~n4.exec1.active
      /\ ~is_pipe_stalled /\ cpu.exec0.active =>
            /\ n4.exec1 = cpu.exec0
            /\ n4.exec1_alu[0] = Alu0 /\ n4.exec1_alu[1] = Alu1
            /\ n4.exec1_aluout = AluOut
  BY <1>1, <1>5, Exec0Effect, Exec0Moves DEF n4
<1>7. n4.r = cpu.r /\ n4.mem_stall = cpu.mem_stall /\ n4.mem_dst = cpu.mem_dst
  BY <1>2, <1>3, <1>4, <1>5, <1>6 DEF SameResults
<1>8. /\ m.r = WrittenBack
      /\ IF cpu.exec1.active
           THEN /\ m.mem_stall <=> Retires({LD}) /\ cpu.exec1.dst > 1
                /\ m.mem_stall => m.mem_dst = cpu.exec1.dst
           ELSE m.mem_stall = n4.mem_stall /\ m.mem_dst = n4.mem_dst
      /\ IF Flushing THEN Flushed(m) ELSE SameStages(m, n4)
  BY <1>1, <1>6, <1>7, Exec1Moves DEF m, Flushed
<1>9. cpun' = m
  <2>1. sp_ctl_registers = m
    BY DEF sp_ctl_registers, m, n4, n3, n2, n1, n0
  <2> QED BY <2>1, Turned
<1>10. Flushing => ~is_pipe_stalled
  BY StallsDoNotFlush DEF Flushing, Retires
<1>11. ~Flushing /\ is_pipe_stalled => HeldBack(m)
  <2> SUFFICES ASSUME ~Flushing, is_pipe_stalled PROVE HeldBack(m)
    OBVIOUS
  <2>1. ~FetchesNow /\ ~WronglyPredicted
    BY DEF FetchesNow, WronglyPredicted
  <2>2. SameStages(m, n4)
    BY <1>8
  <2>3. m.fetch0.pc = cpu.fetch0.pc /\ SameFetch1(m, cpu)
    BY <1>2, <1>3, <1>4, <1>5, <1>6, <2>1, <2>2 DEF SameFetch1, SameStages
  <2>4. IF cpu.fetch1.active THEN m.dec0 = cpu.dec0 ELSE ~m.dec0.active
    BY <1>2, <1>3, <1>4, <1>5, <1>6, <2>1, <2>2 DEF SameStages
  <2>5. IF cpu.dec0.active THEN m.dec1 = cpu.dec1 ELSE ~m.dec1.active
    BY <1>2, <1>3, <1>4, <1>5, <1>6, <2>1, <2>2 DEF SameStages
  <2>6. IF cpu.dec1.active THEN SameExec0(m, cpu) ELSE ~m.exec0.active
    BY <1>2, <1>3, <1>4, <1>5, <1>6, <2>1, <2>2 DEF SameStages, SameExec0
  <2>7. ~m.exec1.active
    BY <1>6, <2>2 DEF SameStages, SameExec1
  <2> QED BY <2>3, <2>4, <2>5, <2>6, <2>7 DEF HeldBack
<1>12. ~Flushing /\ ~is_pipe_stalled => MovedOn(m)
  <2> SUFFICES ASSUME ~Flushing, ~is_pipe_stalled PROVE MovedOn(m)
    OBVIOUS
  <2>2. SameStages(m, n4) /\ (FetchesNow <=> cpu.fetch0.active)
    BY <1>8 DEF FetchesNow
  <2> HIDE DEF FetchesNow, WronglyPredicted, DecodedInst, LatchedOperands
  <2>3. Fetching1(m)
    <3>1. CASE WronglyPredicted
      BY <1>4, <1>5, <1>6, <2>2, <3>1 DEF SameStages, SameFetch1, Fetching1
    <3>2. CASE ~WronglyPredicted
      <4>1. /\ m.fetch0.pc = n0.fetch0.pc /\ SameFetch1(m, n0)
            /\ m.dec0 = n1.dec0
        BY <1>3, <1>4, <1>5, <1>6, <2>2, <3>2 DEF SameStages, SameFetch1
      <4> QED BY <1>2, <1>3, <2>2, <3>2, <4>1 DEF SameFetch1, Fetching1
    <3> QED BY <3>1, <3>2
  <2>5. IF cpu.dec0.active THEN m.dec1 = DecodedInst ELSE ~m.dec1.active
    BY <1>4, <1>5, <1>6, <2>2 DEF SameStages
  <2>6. IF cpu.dec1.active
          THEN m.exec0 = cpu.dec1 /\ m.exec0_alu = LatchedOperands
          ELSE ~m.exec0.active
    BY <1>5, <1>6, <2>2 DEF SameStages, SameExec0
  <2>7. IF cpu.exec0.active
          THEN /\ m.exec1 = cpu.exec0
               /\ m.exec1_alu[0] = Alu0 /\ m.exec1_alu[1] = Alu1
               /\ m.exec1_aluout = AluOut
          ELSE ~m.exec1.active
    BY <1>6, <2>2 DEF SameStages, SameExec1
  <2> QED BY <2>3, <2>5, <2>6, <2>7 DEF MovedOn
<1> QED BY <1>7, <1>8, <1>9, <1>10, <1>11, <1>12

-----------------------------------------------------------------------------
(***************************************************************************)
(* The instructions on their way: the heads of the stages are the program  *)
(* in its predicted order, each stage holds the instruction of its address,*)
(* and exec1 the operands and the result that the register file demands.   *)
(***************************************************************************)
FromFetch1(c) == IF c.fetch1.active THEN c.fetch1.pc ELSE c.fetch0.pc
FromDec0(c) == IF c.dec0.active THEN c.dec0.pc ELSE FromFetch1(c)
FromDec1(c) == IF c.dec1.active THEN c.dec1.pc ELSE FromDec0(c)
FromExec0(c) == IF c.exec0.active THEN c.exec0.pc ELSE FromDec1(c)
FromExec1(c) == IF c.exec1.active THEN c.exec1.pc ELSE FromExec0(c)

\* Where the fetch has gone on behind a decoded instruction.
Successor(s) == IF s.opcode \in JumpOps THEN Predicted(s.btb, s.pc) ELSE s.pc + 1

\* Behind every instruction follows its successor.
Path(c) ==
    /\ c.dec0.active => c.fetch1.active
    /\ c.fetch1.active => c.fetch0.pc = Predicted(c.fetch1.btb, c.fetch1.pc)
    /\ c.dec0.active => FromFetch1(c) = Predicted(c.dec0.btb, c.dec0.pc)
    /\ c.dec1.active => FromDec0(c) = Successor(c.dec1)
    /\ c.exec0.active => FromDec1(c) = Successor(c.exec0)
    /\ c.exec1.active => FromExec0(c) = Successor(c.exec1)

\* The stage holds the fields of the word.
IsDecoded(s, word) ==
    LET d == Decode(word)
    IN  /\ s.opcode = d.opcode /\ s.dst = d.dst /\ s.src0 = d.src0
        /\ s.src1 = d.src1 /\ s.immediate = d.immediate

\* Every stage holds the instruction of its address.
Text(c, code) ==
    /\ c.dec0.active => c.dec0.inst = code[c.dec0.pc]
    /\ c.dec1.active => IsDecoded(c.dec1, code[c.dec1.pc])
    /\ c.exec0.active => IsDecoded(c.exec0, code[c.exec0.pc])
    /\ c.exec1.active => IsDecoded(c.exec1, code[c.exec1.pc])

\* The operands of an instruction in a register file.
Operand0(s, r) == IF s.src0 = 1 \/ s.opcode = LHI THEN s.immediate ELSE r[s.src0]
Operand1(s, r) == IF s.src1 = 1 /\ s.opcode # LHI THEN s.immediate ELSE r[Src1(s)]

\* exec1 has the operands and the result of its instruction.
Results(c) ==
    c.exec1.active =>
        LET op == c.exec1.opcode
            a  == c.exec1_alu[0]
            b  == c.exec1_alu[1]
        IN  /\ a = Operand0(c.exec1, c.r) /\ b = Operand1(c.exec1, c.r)
            /\ op \in ArithOps => c.exec1_aluout = Arith(op, a, b)
            /\ op = LHI => c.exec1_aluout = ShiftLeft(b, ImmBits) + Low(a)
            /\ op = DMA => c.exec1_aluout = a
            /\ op = DMP => c.exec1_aluout = Bool(a = 0)
            /\ op \in BranchOps => c.exec1_aluout = Bool(Taken(op, a, b))
            /\ op = JIN => c.exec1_aluout = 1

\* The operations that write dst.
Writers == ArithOps \cup {LHI, LD}

\* A bypass will still bring register r.
Pending(c, r) ==
    /\ r > 1
    /\ \/ c.mem_stall /\ r = c.mem_dst
       \/ c.exec1.active /\ c.exec1.opcode \in Writers /\ r = c.exec1.dst

\* A latched operand is the register's word, unless a bypass will bring it.
Current(c, v, r) == v = c.r[r] \/ Pending(c, r)

\* exec0 has the operands of its instruction, or a bypass will bring them.
Operated(c) ==
    LET s == c.exec0
    IN  s.active =>
            /\ IF s.src0 = 1 \/ s.opcode = LHI
                 THEN c.exec0_alu[0] = s.immediate
                 ELSE Current(c, c.exec0_alu[0], s.src0)
            /\ IF s.src1 = 1 /\ s.opcode # LHI
                 THEN c.exec0_alu[1] = s.immediate
                 ELSE Current(c, c.exec0_alu[1], Src1(s))

Flow(c, code) == Path(c) /\ Text(c, code) /\ Results(c) /\ Operated(c)

\* A call of sp_ctl keeps the path: a stall needs an instruction behind every
\* other, a wrong prediction and a flush start the path anew.
LEMMA TurnKeepsPath ==
    ASSUME Inv, Path(cpu), Regular, sp_ctl
    PROVE  /\ Path(cpun')
           /\ FromExec1(cpun') = IF cpu.exec1.active THEN NextAddress
                                                     ELSE FromExec1(cpu)
<1> DEFINE m == cpun'
<1>1. Registers(cpu)
  BY Turned
<1>2. cpu.exec1.active /\ ~Flushing => Successor(cpu.exec1) = NextAddress
  <2> SUFFICES ASSUME cpu.exec1.active, ~Flushing
               PROVE  Successor(cpu.exec1) = NextAddress
    OBVIOUS
  <2>1. CASE cpu.exec1.opcode \in JumpOps
    <3>1. ~FlushNeeded /\ (Jumping <=> cpu.exec1_aluout = 1)
      BY <2>1 DEF Flushing, Jumping, Retires
    <3> QED BY <2>1, <3>1 DEF FlushNeeded, Successor, Predicted, NextAddress
  <2>2. CASE cpu.exec1.opcode \notin JumpOps
    BY <2>2 DEF Successor, NextAddress, Jumping, Retires
  <2> QED BY <2>1, <2>2
<1>3. CASE Flushing
  <2>1. Flushed(m) /\ cpu.exec1.active
    BY <1>3, TurnMoves DEF Flushing, Retires
  <2> QED BY <2>1 DEF Flushed, Path, FromExec1, FromExec0, FromDec1, FromDec0, FromFetch1
<1>4. CASE ~Flushing /\ is_pipe_stalled
  <2>1. HeldBack(m)
    BY <1>4, TurnMoves
  <2>2. cpu.exec1.active
    BY <1>4, StallsDoNotFlush
  <2>3. /\ cpu.exec0.active => cpu.dec1.active
        /\ cpu.dec1.active => cpu.dec0.active
        /\ cpu.dec0.active => cpu.fetch1.active
    <3>1. phase = "ctl" /\ ~stop_sim
      BY Turned DEF Turn
    <3> QED BY <1>4, <3>1 DEF Regular, Path
  <2>4. FromFetch1(m) = FromFetch1(cpu) /\ FromDec0(m) = FromDec0(cpu)
    BY <2>1, <2>3 DEF HeldBack, SameFetch1, FromDec0, FromFetch1
  <2>5. FromDec1(m) = FromDec1(cpu)
    BY <2>1, <2>3, <2>4 DEF HeldBack, FromDec1
  <2>6. FromExec0(m) = FromExec0(cpu)
    BY <2>1, <2>3, <2>5 DEF HeldBack, SameExec0, FromExec0
  <2>7. Path(m)
    BY <2>1, <2>3, <2>4, <2>5 DEF HeldBack, SameFetch1, SameExec0, Path
  <2> QED BY <1>2, <1>4, <2>1, <2>2, <2>6, <2>7 DEF HeldBack, Path, FromExec1
<1>5. CASE ~Flushing /\ ~is_pipe_stalled
  <2>1. MovedOn(m)
    BY <1>5, TurnMoves
  <2>2. cpu.fetch1.active => cpu.fetch0.active
    BY <1>1 DEF Registers
  <2>3. /\ DecodedInst.active /\ DecodedInst.pc = cpu.dec0.pc
        /\ DecodedInst.btb = cpu.dec0.btb
        /\ DecodedInst.opcode = Decode(cpu.dec0.inst).opcode
    BY DEF DecodedInst
  <2> HIDE DEF DecodedInst
  <2>4. /\ FromDec0(m) = IF WronglyPredicted THEN cpu.dec0.pc + 1
                                             ELSE FromFetch1(cpu)
        /\ m.dec0.active => m.fetch1.active
        /\ m.fetch1.active => m.fetch0.pc = Predicted(m.fetch1.btb, m.fetch1.pc)
        /\ m.dec0.active => FromFetch1(m) = Predicted(m.dec0.btb, m.dec0.pc)
    <3>1. CASE WronglyPredicted
      BY <2>1, <3>1 DEF MovedOn, Fetching1, FromDec0, FromFetch1
    <3>2. CASE ~WronglyPredicted
      <4>1. FromFetch1(m) = cpu.fetch0.pc
        BY <2>1, <2>2, <3>2 DEF MovedOn, Fetching1, SameFetch1, FromFetch1
      <4>2. FromDec0(m) = FromFetch1(cpu)
        BY <2>1, <3>2, <4>1 DEF MovedOn, Fetching1, FromDec0, FromFetch1
      <4>3. m.dec0.active => m.fetch1.active
        BY <2>1, <2>2, <3>2 DEF MovedOn, Fetching1
      <4>4. m.fetch1.active => m.fetch0.pc = Predicted(m.fetch1.btb, m.fetch1.pc)
        BY <2>1, <2>2, <3>2 DEF MovedOn, Fetching1, SameFetch1
      <4>5. m.dec0.active => FromFetch1(m) = Predicted(m.dec0.btb, m.dec0.pc)
        BY <2>1, <3>2, <4>1 DEF MovedOn, Fetching1, Path
      <4> QED BY <3>2, <4>2, <4>3, <4>4, <4>5
    <3> QED BY <3>1, <3>2
  <2>5. /\ FromDec1(m) = FromDec0(cpu)
        /\ m.dec1.active => FromDec0(m) = Successor(m.dec1)
    <3>1. WronglyPredicted <=> /\ cpu.dec0.active /\ cpu.dec0.btb.taken = 1
                               /\ DecodedInst.opcode \notin JumpOps
      BY <1>5, <2>3 DEF WronglyPredicted
    <3>2. cpu.dec0.active => m.dec1 = DecodedInst
      BY <2>1 DEF MovedOn
    <3>3. ~cpu.dec0.active => ~m.dec1.active
      BY <2>1 DEF MovedOn
    <3>4. FromDec1(m) = FromDec0(cpu)
      BY <2>3, <2>4, <3>1, <3>2, <3>3 DEF FromDec1, FromDec0
    <3>5. cpu.dec0.active => FromDec0(m) = Successor(DecodedInst)
      BY <2>3, <2>4, <3>1 DEF Path, Successor, Predicted
    <3> QED BY <3>2, <3>3, <3>4, <3>5
  <2>6. /\ FromExec0(m) = FromDec1(cpu)
        /\ m.exec0.active => FromDec1(m) = Successor(m.exec0)
    BY <2>1, <2>5 DEF MovedOn, FromExec0, FromDec1, Path
  <2>7. /\ FromExec1(m) = FromExec0(cpu)
        /\ m.exec1.active => FromExec0(m) = Successor(m.exec1)
    BY <2>1, <2>6 DEF MovedOn, FromExec1, FromExec0, Path
  <2>8. Path(m)
    BY <2>4, <2>5, <2>6, <2>7 DEF Path
  <2>9. FromExec1(m) = IF cpu.exec1.active THEN NextAddress ELSE FromExec1(cpu)
    BY <1>2, <1>5, <2>7 DEF Path, FromExec1
  <2> QED BY <2>8, <2>9
<1> QED BY <1>3, <1>4, <1>5

\* It keeps the text: dec0 gets the word of its address and decodes it.
LEMMA TurnKeepsText ==
    ASSUME Inv, Text(cpu, srami), sp_ctl
    PROVE  Text(cpun', srami)
<1> DEFINE m == cpun'
<1>1. CASE Flushing
  BY <1>1, TurnMoves DEF Flushed, Text
<1>2. CASE ~Flushing /\ is_pipe_stalled
  <2>1. HeldBack(m)
    BY <1>2, TurnMoves
  <2> QED BY <2>1 DEF HeldBack, SameExec0, Text
<1>3. CASE ~Flushing /\ ~is_pipe_stalled
  <2>1. MovedOn(m)
    BY <1>3, TurnMoves
  <2>2. IsDecoded(DecodedInst, cpu.dec0.inst) /\ DecodedInst.pc = cpu.dec0.pc
    BY DEF DecodedInst, IsDecoded
  <2>3. cpu.fetch1.active => FetchedInst = srami[cpu.fetch1.pc]
    BY Turned DEF FetchedWord, SavedWordIsFetched, FetchedInst
  <2> HIDE DEF DecodedInst, FetchedInst
  <2>4. m.dec0.active => m.dec0.inst = srami[m.dec0.pc]
    BY <2>1, <2>3 DEF MovedOn, Fetching1
  <2>5. m.dec1.active => IsDecoded(m.dec1, srami[m.dec1.pc])
    BY <2>1, <2>2 DEF MovedOn, Text
  <2>6. m.exec0.active => IsDecoded(m.exec0, srami[m.exec0.pc])
    BY <2>1 DEF MovedOn, Text
  <2>7. m.exec1.active => IsDecoded(m.exec1, srami[m.exec1.pc])
    BY <2>1 DEF MovedOn, Text
  <2> QED BY <2>4, <2>5, <2>6, <2>7 DEF Text
<1> QED BY <1>1, <1>2, <1>3

\* The codes of the operations.
LEMMA Codes ==
    /\ ArithOps = 0 .. 6 /\ BranchOps = 16 .. 19 /\ Writers = 0 .. 8
    /\ JumpOps = (16 .. 20) \cup {11}
    /\ LHI = 7 /\ LD = 8 /\ ST = 9 /\ DMA = 10 /\ DMP = 11 /\ JIN = 20 /\ HLT = 24
BY DEF ArithOps, BranchOps, Writers, JumpOps, ADD, SUB, LSF, RSF, AND, OR, XOR, LHI,
       LD, ST, DMA, DMP, JLT, JLE, JEQ, JNE, JIN, HLT

\* What exec1 does to the register r that an instruction behind it uses.
LEMMA WrittenWord ==
    ASSUME Inv, Regular, phase = "ctl", ~stop_sim, ~Flushing, NEW r \in 0 .. 7,
           r > 1 => r \in Uses(cpu.exec0) \cup Uses(cpu.dec1)
    PROVE  IF r > 1 /\ cpu.exec1.active /\ r = cpu.exec1.dst
             THEN IF cpu.exec1.opcode = LD
                    THEN WrittenBack[r] = port.dataout
                    ELSE /\ WrittenBack[r] = cpu.exec1_aluout
                         /\ cpu.exec1.opcode \notin Writers =>
                               cpu.exec1_aluout = cpu.r[r]
             ELSE WrittenBack[r] = cpu.r[r]
<1>1. cpu.r \in [0 .. 7 -> Word] /\ cpu.exec1.dst \in 0 .. 7
  <2>1. cpu \in CpuRegisters
    BY DEF Inv, TypeOK
  <2> QED BY <2>1, Held DEF Decoded
<1>2. Jumping => r # 7
  <2>1. Jumping => ~FlushNeeded
    BY DEF Flushing, Jumping
  <2> QED BY <2>1 DEF Regular, Jumping
<1>3. /\ Retires(ArithOps \cup {LHI}) <=>
            cpu.exec1.active /\ cpu.exec1.opcode \in Writers /\ cpu.exec1.opcode # LD
      /\ Retires({LD}) <=> cpu.exec1.active /\ cpu.exec1.opcode = LD
      /\ Jumping => cpu.exec1.active /\ cpu.exec1.opcode \notin Writers
  BY Codes DEF Retires, Jumping
<1>4. CASE r > 1 /\ cpu.exec1.active /\ r = cpu.exec1.dst
  <2>1. cpu.exec1.opcode \notin Writers => cpu.exec1_aluout = cpu.r[r]
    BY <1>4 DEF Regular, Writers
  <2>2. CASE cpu.exec1.opcode = LD
    BY <1>1, <1>3, <1>4, <2>2 DEF WrittenBack
  <2>3. CASE cpu.exec1.opcode # LD /\ cpu.exec1.opcode \in Writers
    BY <1>1, <1>3, <1>4, <2>3 DEF WrittenBack
  <2>4. CASE cpu.exec1.opcode \notin Writers
    <3>1. LD \in Writers
      BY DEF Writers
    <3> QED BY <1>1, <1>2, <1>3, <1>4, <2>1, <2>4, <3>1 DEF WrittenBack
  <2> QED BY <1>4, <2>1, <2>2, <2>3, <2>4
<1>5. CASE ~(r > 1 /\ cpu.exec1.active /\ r = cpu.exec1.dst)
  <2>1. WrittenBack[r] = cpu.r[r]
    BY <1>1, <1>2, <1>3, <1>5 DEF WrittenBack
  <2> QED BY <1>5, <2>1
<1> QED BY <1>4, <1>5

\* An operand of exec0 is the word that the register holds when exec1 is done.
LEMMA OperandIsCurrent ==
    ASSUME Inv, Regular, phase = "ctl", ~stop_sim, ~Flushing, ~is_pipe_stalled,
           cpu.exec0.active, NEW r, r \in {cpu.exec0.src0, Src1(cpu.exec0)},
           NEW l, Current(cpu, l, r)
    PROVE  Exec0Operand(r, l) = WrittenBack[r]
<1>1. cpu \in CpuRegisters /\ Registers(cpu)
  BY DEF Inv, TypeOK, PipeInv
<1>2. r \in 0 .. 7
  BY <1>1, OperandType, Held DEF Decoded, Inv
<1>3. r > 1 => r \in Uses(cpu.exec0)
  BY <1>2 DEF Uses, Reads
<1>4. cpu.mem_stall => cpu.mem_SRAM_DO = cpu.r[cpu.mem_dst]
  BY <1>1 DEF Registers, LoadBypass
<1>5. CASE r > 1 /\ cpu.exec1.active /\ r = cpu.exec1.dst
  <2>1. cpu.exec1.opcode # LD
    BY <1>5 DEF is_pipe_stalled
  <2>2. /\ WrittenBack[r] = cpu.exec1_aluout
        /\ cpu.exec1.opcode \notin Writers => cpu.exec1_aluout = cpu.r[r]
    BY <1>2, <1>3, <1>5, <2>1, WrittenWord
  <2>3. CASE cpu.exec1.opcode # ST
    BY <1>5, <2>2, <2>3 DEF Exec0Operand
  <2>4. CASE cpu.exec1.opcode = ST
    <3>1. cpu.exec1.opcode \notin Writers
      BY <2>4, Codes
    <3> QED BY <1>4, <1>5, <2>2, <2>4, <3>1 DEF Exec0Operand, Current, Pending
  <2> QED BY <2>3, <2>4
<1>6. CASE ~(r > 1 /\ cpu.exec1.active /\ r = cpu.exec1.dst)
  <2>1. WrittenBack[r] = cpu.r[r]
    BY <1>2, <1>3, <1>6, WrittenWord
  <2> QED BY <1>4, <1>6, <2>1 DEF Exec0Operand, Current, Pending
<1> QED BY <1>5, <1>6

\* It is so for an instruction that enters exec1.
LEMMA TurnKeepsResults ==
    ASSUME Inv, Operated(cpu), Regular, sp_ctl
    PROVE  Results(cpun')
<1> DEFINE m == cpun'
           s == cpu.exec0
<1> SUFFICES ASSUME m.exec1.active PROVE Results(cpun')
  BY DEF Results
<1>1. phase = "ctl" /\ ~stop_sim
  BY Turned DEF Turn
<1>2. ~Flushing /\ ~is_pipe_stalled
  BY TurnMoves DEF Flushed, HeldBack
<1>3. /\ s.active /\ m.exec1 = s
      /\ m.exec1_alu[0] = Alu0 /\ m.exec1_alu[1] = Alu1 /\ m.exec1_aluout = AluOut
      /\ m.r = WrittenBack
  BY <1>2, TurnMoves DEF MovedOn
<1>4. s.opcode \in {LHI, DMA, DMP} => Alu0 = cpu.exec0_alu[0]
  BY <1>1, <1>3 DEF Regular, Bypassed, Alu0, Exec0Operand
<1>5. Alu0 = Operand0(s, WrittenBack)
  <2>1. CASE s.src0 = 1 \/ s.opcode = LHI
    <3>1. cpu.exec0_alu[0] = s.immediate
      BY <1>3, <2>1 DEF Operated
    <3>2. s.src0 = 1 => Alu0 = cpu.exec0_alu[0]
      BY DEF Alu0, Exec0Operand
    <3> QED BY <1>4, <2>1, <3>1, <3>2 DEF Operand0
  <2>2. CASE ~(s.src0 = 1 \/ s.opcode = LHI)
    <3>1. Current(cpu, cpu.exec0_alu[0], s.src0)
      BY <1>3, <2>2 DEF Operated
    <3> QED BY <1>1, <1>2, <1>3, <2>2, <3>1, OperandIsCurrent DEF Operand0, Alu0
  <2> QED BY <2>1, <2>2
<1>6. Alu1 = Operand1(s, WrittenBack)
  <2>1. CASE s.src1 = 1 /\ s.opcode # LHI
    <3>1. cpu.exec0_alu[1] = s.immediate
      BY <1>3, <2>1 DEF Operated
    <3>2. Alu1 = cpu.exec0_alu[1]
      BY <2>1 DEF Alu1, Exec0Operand, Src1
    <3> QED BY <2>1, <3>1, <3>2 DEF Operand1
  <2>2. CASE ~(s.src1 = 1 /\ s.opcode # LHI)
    <3>1. Current(cpu, cpu.exec0_alu[1], Src1(s))
      BY <1>3, <2>2 DEF Operated
    <3> QED BY <1>1, <1>2, <1>3, <2>2, <3>1, OperandIsCurrent DEF Operand1, Alu1
  <2> QED BY <2>1, <2>2
<1>7. /\ s.opcode \in ArithOps => AluOut = Arith(s.opcode, Alu0, Alu1)
      /\ s.opcode = LHI => AluOut = ShiftLeft(Alu1, ImmBits) + Low(Alu0)
      /\ s.opcode = DMA => AluOut = cpu.exec0_alu[0]
      /\ s.opcode = DMP => AluOut = Bool(cpu.exec0_alu[0] = 0)
      /\ s.opcode \in BranchOps => AluOut = Bool(Taken(s.opcode, Alu0, Alu1))
      /\ s.opcode = JIN => AluOut = 1
  <2> DEFINE op == s.opcode
  <2>1. op \in ArithOps => op \notin {LHI, DMA, DMP, JIN} /\ op \notin BranchOps
    BY Codes
  <2>2. op \in BranchOps => op \notin {LHI, DMA, DMP, JIN}
    BY Codes
  <2>3. LHI # DMA /\ LHI # DMP /\ LHI # JIN /\ DMA # DMP /\ DMA # JIN /\ DMP # JIN
    BY Codes
  <2> QED BY <2>1, <2>2, <2>3 DEF AluOut
<1> HIDE DEF Alu0, Alu1, AluOut, WrittenBack
<1> QED BY <1>3, <1>4, <1>5, <1>6, <1>7 DEF Results

\* What dec1 latches is current when exec1 is done, or a load brings it.
LEMMA LatchedIsCurrent ==
    ASSUME Inv, Regular, sp_ctl, ~Flushing, ~is_pipe_stalled, cpu.dec1.active,
           NEW r, r \in {cpu.dec1.src0, Src1(cpu.dec1)}
    PROVE  Current(cpun', Dec1Operand(r), r)
<1>1. cpu \in CpuRegisters /\ phase = "ctl" /\ ~stop_sim
  BY Turned DEF Inv, TypeOK, Turn
<1>2. r \in 0 .. 7
  BY <1>1, OperandType, Held DEF Decoded, Inv
<1>3. r > 1 => r \in Uses(cpu.dec1)
  BY <1>2 DEF Uses, Reads
<1>4. cpun'.r = WrittenBack
  BY TurnMoves
<1>5. CASE r > 1 /\ cpu.exec1.active /\ r = cpu.exec1.dst
  <2>1. Dec1Operand(r) = cpu.exec1_aluout
    BY <1>5 DEF Dec1Operand
  <2>2. CASE cpu.exec1.opcode = LD
    <3>1. cpun'.mem_stall /\ cpun'.mem_dst = r
      BY <1>5, <2>2, TurnMoves DEF Retires
    <3> QED BY <1>5, <3>1 DEF Current, Pending
  <2>3. CASE cpu.exec1.opcode # LD
    <3>1. WrittenBack[r] = cpu.exec1_aluout
      BY <1>1, <1>2, <1>3, <1>5, <2>3, WrittenWord
    <3> QED BY <1>4, <2>1, <3>1 DEF Current
  <2> QED BY <2>2, <2>3
<1>6. CASE ~(r > 1 /\ cpu.exec1.active /\ r = cpu.exec1.dst)
  <2>1. WrittenBack[r] = cpu.r[r]
    BY <1>1, <1>2, <1>3, <1>6, WrittenWord
  <2>2. Dec1Operand(r) = cpu.r[r]
    BY <1>6 DEF Dec1Operand
  <2> QED BY <1>4, <2>1, <2>2 DEF Current
<1> QED BY <1>5, <1>6

\* A latched operand that a stall holds stays so.
LEMMA HeldIsCurrent ==
    ASSUME Inv, Regular, sp_ctl, is_pipe_stalled, cpu.exec0.active,
           NEW r, r \in {cpu.exec0.src0, Src1(cpu.exec0)},
           NEW l, Current(cpu, l, r)
    PROVE  Current(cpun', l, r)
<1>1. cpu \in CpuRegisters /\ phase = "ctl" /\ ~stop_sim
  BY Turned DEF Inv, TypeOK, Turn
<1>2. r \in 0 .. 7
  BY <1>1, OperandType, Held DEF Decoded, Inv
<1>3. r > 1 => r \in Uses(cpu.exec0)
  BY <1>2 DEF Uses, Reads
<1>4. cpun'.r = WrittenBack /\ ~Flushing
  BY TurnMoves
<1>5. cpu.exec1.active /\ cpu.exec1.opcode \in {LD, ST}
  BY DEF is_pipe_stalled
<1>6. CASE r > 1 /\ r = cpu.exec1.dst
  <2>1. CASE cpu.exec1.opcode = LD
    <3>1. cpun'.mem_stall /\ cpun'.mem_dst = r
      BY <1>5, <1>6, <2>1, TurnMoves DEF Retires
    <3> QED BY <1>6, <3>1 DEF Current, Pending
  <2>2. CASE cpu.exec1.opcode = ST
    <3>1. ST \notin Writers /\ ST # LD
      BY Codes
    <3>2. WrittenBack[r] = cpu.r[r]
      BY <1>1, <1>2, <1>3, <1>4, <1>5, <1>6, <2>2, <3>1, WrittenWord
    <3>3. ~(cpu.mem_stall /\ cpu.mem_dst = r)
      BY <1>1, <1>3, <1>6, <2>2, <3>1 DEF Regular
    <3> QED BY <1>4, <2>2, <3>1, <3>2, <3>3 DEF Current, Pending
  <2> QED BY <1>5, <2>1, <2>2
<1>7. CASE ~(r > 1 /\ r = cpu.exec1.dst)
  <2>1. WrittenBack[r] = cpu.r[r]
    BY <1>1, <1>2, <1>3, <1>4, <1>7, WrittenWord
  <2>2. r > 1 => ~(cpu.mem_stall /\ cpu.mem_dst = r)
    BY <1>1, <1>3, <1>7 DEF Regular
  <2> QED BY <1>4, <1>7, <2>1, <2>2 DEF Current, Pending
<1> QED BY <1>6, <1>7

\* So exec0 has its operands.
LEMMA TurnKeepsOperands ==
    ASSUME Inv, Operated(cpu), Regular, sp_ctl
    PROVE  Operated(cpun')
<1> DEFINE m == cpun'
<1> SUFFICES ASSUME m.exec0.active PROVE Operated(cpun')
  BY DEF Operated
<1>1. ~Flushing
  BY TurnMoves DEF Flushed
<1>2. CASE is_pipe_stalled
  <2>1. HeldBack(m) /\ phase = "ctl" /\ ~stop_sim
    BY <1>1, <1>2, TurnMoves, Turned DEF Turn
  <2>2. m.exec0 = cpu.exec0 /\ m.exec0_alu = cpu.exec0_alu /\ cpu.exec0.active
    BY <2>1 DEF HeldBack, SameExec0
  <2>3. \A l : /\ Current(cpu, l, cpu.exec0.src0) => Current(m, l, cpu.exec0.src0)
               /\ Current(cpu, l, Src1(cpu.exec0)) => Current(m, l, Src1(cpu.exec0))
    BY <1>2, <2>2, HeldIsCurrent
  <2> QED BY <2>2, <2>3 DEF Operated
<1>3. CASE ~is_pipe_stalled
  <2>1. MovedOn(m)
    BY <1>1, <1>3, TurnMoves
  <2>2. /\ m.exec0 = cpu.dec1 /\ cpu.dec1.active
        /\ m.exec0_alu = LatchedOperands
    BY <2>1 DEF MovedOn
  <2> DEFINE s == cpu.dec1
  <2>3. /\ LatchedOperands[0] = IF s.src0 = 1 \/ s.opcode = LHI
                                  THEN s.immediate ELSE Dec1Operand(s.src0)
        /\ LatchedOperands[1] = IF s.src1 = 1 /\ s.opcode # LHI
                                  THEN s.immediate ELSE Dec1Operand(Src1(s))
    BY DEF LatchedOperands
  <2>4. /\ Current(m, Dec1Operand(s.src0), s.src0)
        /\ Current(m, Dec1Operand(Src1(s)), Src1(s))
    BY <1>1, <1>3, <2>2, LatchedIsCurrent
  <2> HIDE DEF LatchedOperands
  <2> QED BY <2>2, <2>3, <2>4 DEF Operated
<1> QED BY <1>2, <1>3

-----------------------------------------------------------------------------
(***************************************************************************)
(* What a call of sp_ctl leaves for the clock edge.                        *)
(***************************************************************************)
\* The register file behind the instruction in exec1: a load brings the word
\* of the memory.
Assigned ==
    IF Retires(ArithOps \cup {LHI}) /\ cpu.exec1.dst > 1
      THEN [cpu.r EXCEPT ![cpu.exec1.dst] = cpu.exec1_aluout]
    ELSE IF Retires({LD}) /\ cpu.exec1.dst > 1
      THEN [cpu.r EXCEPT ![cpu.exec1.dst] = sram[Low(cpu.exec1_alu[1])]]
    ELSE IF Jumping
      THEN [cpu.r EXCEPT ![7] = cpu.exec1.pc]
      ELSE cpu.r

\* exec1 has written back, and its successor is the oldest instruction.
Retired ==
    /\ cpun.r = Assigned
    /\ FromExec1(cpun) = IF cpu.exec1.active THEN NextAddress ELSE FromExec1(cpu)

\* A store is on the port; so is the read of a load behind.
Accesses ==
    /\ Retires({ST}) => /\ port.write /\ port.waddr = cpu.exec1_alu[1]
                        /\ port.datain = cpu.exec1_alu[0]
    /\ LoadsNow => port.read

\* A copy of at least one word was asked for.
Started ==
    /\ cpu.exec1_alu[1] > 0
    /\ dman.busy /\ dman.src = Low(cpu.exec1_alu[0])
    /\ dman.dst = Low(cpu.exec1_aluout) /\ dman.len = cpu.exec1_alu[1]

\* Only then may the engine become busy.
Requests == IF StartsDma THEN Started ELSE dman.busy => dma.busy

\* HLT has stopped the simulation and written the memory out.
Stopping == (stop_sim <=> Retires({HLT})) /\ (stop_sim => dump = sram)

\* A busy engine has words to write.
Owing(d) == d.busy => d.len > 0

\* The second half of the inductive invariant, on top of Inv.
FlowInv ==
    /\ Flow(cpu, srami) /\ Flow(cpun, srami)
    /\ phase # "ctl" => Retired /\ Accesses /\ Requests /\ Stopping
    /\ Owing(dma) /\ Owing(dman)

\* A call of sp_ctl keeps it.
LEMMA TurnKeepsFlow ==
    ASSUME Inv, FlowInv, Regular, sp_ctl
    PROVE  FlowInv'
<1>1. /\ Path(cpu) /\ Text(cpu, srami) /\ Results(cpu) /\ Operated(cpu)
      /\ Owing(dma)
  BY DEF FlowInv, Flow
<1>2. /\ phase = "ctl" /\ phase' = "dma" /\ ~stop_sim /\ cpu' = cpu
      /\ dma' = dma /\ sram' = sram /\ srami' = srami /\ Access /\ dman = dma
  <2>1. dman = dma
    BY Turned DEF Inv, E!DmaInv, E!Latched
  <2> QED BY <2>1, Turned DEF Turn
<1>3. Flow(cpun', srami)
  BY <1>1, TurnKeepsPath, TurnKeepsText, TurnKeepsResults, TurnKeepsOperands DEF Flow
<1>4. Flow(cpu, srami)' /\ Flow(cpun, srami)'
  <2>1. Flow(cpu', srami') /\ Flow(cpun', srami')
    BY <1>2, <1>3 DEF FlowInv
  <2> QED BY <2>1 DEF Flow, Path, Text, Results, Operated, FromFetch1, FromDec0,
     FromDec1, FromExec0, FromExec1, Current, Pending
<1>5. Retired'
  <2>1. WrittenBack = Assigned
    BY <1>2 DEF Inv, PipeInv, LoadedWord, WrittenBack, Assigned
  <2>2. Assigned' = Assigned /\ NextAddress' = NextAddress
    BY <1>2 DEF Assigned, NextAddress, Jumping, Retires
  <2>3. cpun'.r = Assigned'
    BY <2>1, <2>2, TurnMoves
  <2>4. FromExec1(cpun') = IF cpu.exec1.active THEN NextAddress ELSE FromExec1(cpu)
    BY <1>1, TurnKeepsPath
  <2> QED BY <1>2, <2>2, <2>3, <2>4 DEF Retired, FromFetch1, FromDec0, FromDec1,
     FromExec0, FromExec1
<1>6. Accesses'
  <2>1. port \in E!Port
    BY EngineTypes DEF Inv, TypeOK
  <2>2. (LoadsNow' <=> LoadsNow) /\ (Retires({ST})' <=> Retires({ST}))
    BY <1>2, HazardFrame DEF LoadsNow, Retires
  <2>3. /\ port'.read <=> LoadsNow
        /\ port'.write <=> Retires({ST})
        /\ Retires({ST}) => /\ port'.waddr = cpu.exec1_alu[1]
                            /\ port'.datain = cpu.exec1_alu[0]
    BY <1>2, <2>1 DEF Access, E!Port, LoadsNow, Retires
  <2> QED BY <1>2, <2>2, <2>3 DEF Accesses
<1>7. Requests' /\ Owing(dma)' /\ Owing(dman)'
  <2>1. CASE StartDma
    <3>1. dman \in E!DmaRegisters /\ StartsDma /\ cpu.exec1_alu[1] > 0
      BY <1>2, <2>1, EngineTypes DEF StartDma, Inv, TypeOK, Regular
    <3>2. /\ dman'.busy /\ dman'.src = Low(cpu.exec1_alu[0])
          /\ dman'.dst = Low(cpu.exec1_aluout) /\ dman'.len = cpu.exec1_alu[1]
      BY <2>1, <3>1 DEF StartDma, E!DmaRegisters
    <3>3. Started' /\ StartsDma'
      BY <1>2, <3>1, <3>2 DEF Started, StartsDma, Retires
    <3> QED BY <1>1, <1>2, <3>1, <3>2, <3>3 DEF Requests, Owing
  <2>2. CASE ~StartDma
    <3>1. dman' = dma
      BY <1>2, <2>2 DEF sp_ctl, Compute, Halt
    <3>2. ~StartsDma'
      <4>1. ~StartsDma
        BY <2>2, Codes DEF sp_ctl, Compute, Halt, StartsDma, Retires
      <4> QED BY <1>2, <4>1 DEF StartsDma, Retires
    <3> QED BY <1>1, <1>2, <3>1, <3>2 DEF Requests, Owing
  <2> QED BY <2>1, <2>2
<1>8. Stopping'
  <2>1. Retires({HLT})' <=> Retires({HLT})
    BY <1>2 DEF Retires
  <2>2. CASE Halt
    BY <1>2, <2>1, <2>2 DEF Halt, Stopping
  <2>3. CASE Compute \/ StartDma
    <3>1. ~Retires({HLT})
      BY <2>3, Codes DEF Compute, StartDma, StartsDma, Retires
    <3> QED BY <1>2, <2>1, <2>3, <3>1 DEF Compute, StartDma, Stopping
  <2> QED BY <2>2, <2>3 DEF sp_ctl
<1> QED BY <1>4, <1>5, <1>6, <1>7, <1>8 DEF FlowInv

\* The turn of the engine.
LEMMA EngineTurn ==
    ASSUME Inv, dma_ctl
    PROVE  /\ phase = "dma" /\ phase' = "commit"
           /\ UNCHANGED <<cpu, cpun, srami, dump, sram, stop_sim>>
           /\ ~dma.busy => dma' = dma /\ dman' = dman
           /\ dma.busy /\ dma.len > 0 => dma' = dma
           /\ Owing(dma) => Owing(dma')
           /\ Owing(dman) => Owing(dman')
           /\ port.read \/ port.write => port' = port
<1>1. D!Dma /\ UNCHANGED <<cpu, cpun, srami, dump>>
  BY DEF dma_ctl
<1>2. phase = "dma" /\ phase' = "commit" /\ UNCHANGED <<sram, stop_sim>>
  BY <1>1 DEF D!Dma, D!DmaIdle, D!DmaReadFirst, D!DmaDoRead, D!DmaDoWrite,
     D!DmaWriteStalled, D!DmaWriteLast, D!DmaDo, D!DmaFrame
<1>3. dma \in E!DmaRegisters /\ dman \in E!DmaRegisters
  BY EngineTypes DEF Inv, TypeOK
<1>4. E!Control(dma) /\ E!Latched /\ E!PortOwner
  BY DEF Inv, E!DmaInv
<1>5. CASE dma.state = "IDLE"
  <2>1. D!DmaIdle
    BY <1>1, <1>5 DEF D!Dma, D!DmaIdle, D!DmaReadFirst, D!DmaDoRead, D!DmaDoWrite,
       D!DmaWriteStalled, D!DmaWriteLast, D!DmaDo
  <2>2. CASE dma.busy /\ dma.len > 0
    <3>1. dma' = dma /\ port' = port /\ dman' = [dman EXCEPT !.state = "READ_FIRST"]
      BY <2>1, <2>2 DEF D!DmaIdle, D!NoAccess
    <3>2. dman'.len = dman.len /\ dman'.busy = dman.busy
      BY <1>3, <3>1 DEF E!DmaRegisters
    <3> QED BY <1>1, <1>2, <2>2, <3>1, <3>2 DEF Owing
  <2>3. CASE ~(dma.busy /\ dma.len > 0)
    <3>1. dma' = [dma EXCEPT !.busy = FALSE] /\ dman' = dman /\ port' = port
      BY <2>1, <2>3 DEF D!DmaIdle, D!NoAccess
    <3>2. (~dma.busy => dma' = dma) /\ ~dma'.busy
      BY <1>3, <3>1 DEF E!DmaRegisters
    <3> QED BY <1>1, <1>2, <2>3, <3>1, <3>2 DEF Owing
  <2> QED BY <2>2, <2>3
<1>6. CASE dma.state # "IDLE"
  <2>1. dma.busy /\ dma.len > 0
    BY <1>4, <1>6 DEF E!Control
  <2>2. dma' = dma
    BY <1>1, <1>6 DEF D!Dma, D!DmaIdle, D!DmaReadFirst, D!DmaDoRead, D!DmaDoWrite,
       D!DmaWriteStalled, D!DmaWriteLast, D!DmaDo
  <2>3. port.read \/ port.write => is_dma_hazard
    BY <1>2, <1>4 DEF E!PortOwner
  <2>4. is_dma_hazard => port' = port
    BY <1>1, <1>6 DEF D!Dma, D!DmaIdle, D!DmaReadFirst, D!DmaDoRead, D!DmaDoWrite,
       D!DmaWriteStalled, D!DmaWriteLast, D!DmaDo, D!NoAccess
  <2>5. Owing(dman')
    <3>1. E!Control(dman')
      <4>1. E!DmaInv'
        BY EngineTypeStep DEF Next
      <4> QED BY <4>1 DEF E!DmaInv, E!Control
    <3>2. dman'.state = "IDLE" => ~dman'.busy
      <4>1. CASE D!DmaWriteLast
        BY <1>3, <1>4, <1>2, <1>6, <2>1, <4>1 DEF D!DmaWriteLast, E!DmaRegisters, E!Latched
      <4>2. CASE ~D!DmaWriteLast
        BY <1>1, <1>2, <1>3, <1>4, <1>6, <2>1, <4>2
           DEF D!Dma, D!DmaIdle, D!DmaReadFirst, D!DmaDoRead, D!DmaDoWrite,
               D!DmaWriteStalled, D!WriteWord, D!DmaDo, E!DmaRegisters, E!Latched
      <4> QED BY <4>1, <4>2
    <3> QED BY <3>1, <3>2 DEF Owing, E!Control
  <2> QED BY <1>1, <1>2, <2>1, <2>2, <2>3, <2>4, <2>5 DEF Owing
<1> QED BY <1>5, <1>6

\* It keeps it.
LEMMA EngineTurnKeeps ==
    ASSUME Inv, FlowInv, dma_ctl
    PROVE  FlowInv'
<1>1. /\ Flow(cpu, srami) /\ Flow(cpun, srami) /\ Owing(dma) /\ Owing(dman)
      /\ Retired /\ Accesses /\ Requests /\ Stopping
  BY EngineTurn DEF FlowInv
<1>2. UNCHANGED <<cpu, cpun, srami, dump, sram, stop_sim>>
  BY EngineTurn
<1>3. /\ \A ops : Retires(ops)' <=> Retires(ops)
      /\ LoadsNow' <=> LoadsNow
  BY <1>2, HazardFrame DEF Retires, LoadsNow
<1>4. Flow(cpu, srami)' /\ Flow(cpun, srami)'
  BY <1>1, <1>2 DEF Flow, Path, Text, Results, Operated, FromFetch1, FromDec0,
     FromDec1, FromExec0, FromExec1, Current, Pending
<1>5. Retired'
  BY <1>1, <1>2 DEF Retired, Assigned, Retires, NextAddress, Jumping, FromFetch1,
     FromDec0, FromDec1, FromExec0, FromExec1
<1>6. Accesses'
  <2>1. Retires({ST}) \/ LoadsNow => port' = port
    BY <1>1, EngineTurn DEF Accesses
  <2> QED BY <1>1, <1>2, <1>3, <2>1 DEF Accesses
<1>7. Requests'
  <2>1. dma' = dma
    BY <1>1, EngineTurn DEF Owing
  <2>2. StartsDma' <=> StartsDma
    BY <1>2, <2>1 DEF StartsDma, Retires
  <2>3. CASE StartsDma
    <3>1. dman' = dman
      BY <2>3, EngineTurn DEF StartsDma
    <3>2. Started'
      BY <1>1, <1>2, <2>3, <3>1 DEF Requests, Started
    <3> QED BY <2>2, <2>3, <3>2 DEF Requests
  <2>4. CASE ~StartsDma
    BY <1>1, <2>1, <2>2, <2>4, EngineTurn DEF Requests
  <2> QED BY <2>3, <2>4
<1>8. Stopping'
  BY <1>1, <1>2 DEF Stopping, Retires
<1>9. Owing(dma)' /\ Owing(dman)'
  BY <1>1, EngineTurn DEF Owing
<1> QED BY <1>4, <1>5, <1>6, <1>7, <1>8, <1>9 DEF FlowInv

\* The second half of the inductive invariant of a regular program.
LEMMA FlowInit == Init => FlowInv
BY DEF Init, D!Init, D!ResetRegisters, ResetRegisters, EmptyStage, FlowInv, Flow,
   Path, Text, Results, Operated, Owing

\* Every step keeps it while the run is regular.
LEMMA FlowStep ==
    ASSUME Inv, FlowInv, Regular, [Next]_vars
    PROVE  FlowInv'
<1>1. CASE sp_ctl
  BY <1>1, TurnKeepsFlow
<1>2. CASE dma_ctl
  BY <1>2, EngineTurnKeeps
<1>3. CASE Commit
  <2>1. /\ phase' = "ctl" /\ cpu' = cpun /\ cpun' = cpun /\ srami' = srami
        /\ dma' = dman /\ dman' = dman
    BY <1>3 DEF Commit, D!Commit, D!CommitFrame
  <2>2. Flow(cpu, srami)' /\ Flow(cpun, srami)'
    BY <2>1 DEF FlowInv, Flow, Path, Text, Results, Operated, FromFetch1, FromDec0,
       FromDec1, FromExec0, FromExec1, Current, Pending
  <2> QED BY <2>1, <2>2 DEF FlowInv, Owing
<1>4. CASE CommitFault \/ FetchFault \/ Stopped \/ UNCHANGED vars
  <2>1. UNCHANGED <<cpu, cpun, srami, dump, dma, dman, sram, port, phase, stop_sim>>
    BY <1>4 DEF CommitFault, D!CommitFault, D!CommitFrame, FetchFault, Stopped, vars
  <2>2. Flow(cpu, srami)' /\ Flow(cpun, srami)'
    BY <2>1 DEF FlowInv, Flow, Path, Text, Results, Operated, FromFetch1, FromDec0,
       FromDec1, FromExec0, FromExec1, Current, Pending
  <2>3. /\ Retired => Retired'
        /\ Stopping => Stopping'
    BY <2>1 DEF Retired, Assigned, Retires, NextAddress, Jumping, FromFetch1,
       FromDec0, FromDec1, FromExec0, FromExec1, Stopping
  <2>4. Requests => Requests'
    BY <2>1 DEF Requests, Started, StartsDma, Retires
  <2>5. Accesses => Accesses'
    BY <2>1, HazardFrame DEF Accesses, LoadsNow, Retires
  <2> QED BY <2>1, <2>2, <2>3, <2>4, <2>5 DEF FlowInv, Owing
<1> QED BY <1>1, <1>2, <1>3, <1>4 DEF Next

\* So the states of a regular run have it.
LEMMA FlowInvariant == Spec /\ []Regular => []FlowInv
<1>1. Inv /\ FlowInv /\ Regular /\ [Next]_vars => FlowInv'
  BY FlowStep
<1> QED BY <1>1, FlowInit, Invariant, PTL DEF Spec

-----------------------------------------------------------------------------
(***************************************************************************)
(* The words of the programmer's machine, and of the simulator inside it,  *)
(* are those of the implementation.                                        *)
(***************************************************************************)
\* The machine without a pipeline.
LEMMA ArchWords ==
    /\ P!Height = Height /\ P!Addr = Addr /\ P!Word = Word
    /\ \A x : P!Low(x) = Low(x)
    /\ \A w : P!Decode(w) = Decode(w)
    /\ \A o, a, b : P!Taken(o, a, b) = Taken(o, a, b)
    /\ \A o, a, b : P!Arith(o, a, b) = Arith(o, a, b)
    /\ \A a, b : P!ShiftLeft(a, b) = ShiftLeft(a, b)
    /\ P!ArithOps = ArithOps /\ P!BranchOps = BranchOps
    /\ P!LHI = LHI /\ P!LD = LD /\ P!ST = ST /\ P!DMA = DMA /\ P!DMP = DMP
    /\ P!JIN = JIN /\ P!HLT = HLT
<1>1. /\ P!Pow2 = Pow2 /\ P!WordBits = WordBits /\ P!Height = Height
      /\ P!HalfRange = HalfRange /\ P!Addr = Addr /\ P!Word = Word
  BY DEF P!Pow2, Pow2, P!Doubled, Doubled, P!WordBits, WordBits, P!Height, Height,
     P!HalfRange, HalfRange, P!Addr, Addr, P!Word, Word
<1>2. \A x : P!Wrap(x) = Wrap(x) /\ P!Low(x) = Low(x)
  BY <1>1 DEF P!Wrap, Wrap, P!Low, Low
<1>3. \A w : P!Decode(w) = Decode(w)
  BY <1>1, <1>2 DEF P!Decode, Decode, P!Field, Field, P!SignExtend, SignExtend,
     P!Unsigned, Unsigned
<1>4. \A o, a, b : P!Taken(o, a, b) = Taken(o, a, b)
  BY DEF P!Taken, Taken, P!JLT, P!JLE, P!JEQ, P!JNE, JLT, JLE, JEQ, JNE
<1>5. \A a, b : /\ P!ShiftLeft(a, b) = ShiftLeft(a, b)
                /\ P!ShiftRight(a, b) = ShiftRight(a, b)
  BY <1>1, <1>2 DEF P!ShiftLeft, ShiftLeft, P!ShiftRight, ShiftRight
<1>6. ASSUME NEW o, NEW a, NEW b
      PROVE  P!Arith(o, a, b) = Arith(o, a, b)
  <2>1. \A S : P!OfBits(S) = OfBits(S)
    BY <1>1, <1>2 DEF P!OfBits, OfBits
  <2>2. \A x : P!Bits(x) = Bits(x)
    BY <1>1 DEF P!Bits, Bits
  <2> QED BY <1>2, <1>5, <2>1, <2>2 DEF P!Arith, Arith, P!ADD, P!SUB, P!LSF,
      P!RSF, P!AND, P!OR, P!XOR, ADD, SUB, LSF, RSF, AND, OR, XOR
<1>7. /\ P!ArithOps = ArithOps /\ P!BranchOps = BranchOps
      /\ P!LHI = LHI /\ P!LD = LD /\ P!ST = ST /\ P!DMA = DMA /\ P!DMP = DMP
      /\ P!JIN = JIN /\ P!HLT = HLT
  BY DEF P!ArithOps, P!BranchOps, P!ADD, P!SUB, P!LSF, P!RSF, P!AND, P!OR,
     P!XOR, P!LHI, P!LD, P!ST, P!DMA, P!DMP, P!JLT, P!JLE, P!JEQ, P!JNE,
     P!JIN, P!HLT, ArithOps, BranchOps, ADD, SUB, LSF, RSF, AND, OR, XOR, LHI, LD,
     ST, DMA, DMP, JLT, JLE, JEQ, JNE, JIN, HLT
<1> QED BY <1>1, <1>2, <1>3, <1>4, <1>5, <1>6, <1>7

\* The instruction set simulator that it shares with the first lab.
LEMMA ArchIssWords ==
    /\ P!I!Height = Height /\ P!I!Addr = Addr /\ P!I!Word = Word
    /\ \A x : P!I!Low(x) = Low(x)
    /\ \A w : P!I!Decode(w) = Decode(w)
    /\ \A o, a, b : P!I!Taken(o, a, b) = Taken(o, a, b)
    /\ \A o, a, b : P!I!Arith(o, a, b) = Arith(o, a, b)
    /\ \A a, b : P!I!ShiftLeft(a, b) = ShiftLeft(a, b)
    /\ P!I!ArithOps = ArithOps /\ P!I!BranchOps = BranchOps
    /\ P!I!LHI = LHI /\ P!I!LD = LD /\ P!I!ST = ST /\ P!I!DMA = DMA /\ P!I!DMP = DMP
    /\ P!I!JIN = JIN /\ P!I!HLT = HLT
<1>1. /\ P!I!Pow2 = Pow2 /\ P!I!WordBits = WordBits /\ P!I!Height = Height
      /\ P!I!HalfRange = HalfRange /\ P!I!Addr = Addr /\ P!I!Word = Word
  BY DEF P!I!Pow2, Pow2, P!I!Doubled, Doubled, P!I!WordBits, WordBits, P!I!Height, Height,
     P!I!HalfRange, HalfRange, P!I!Addr, Addr, P!I!Word, Word
<1>2. \A x : P!I!Wrap(x) = Wrap(x) /\ P!I!Low(x) = Low(x)
  BY <1>1 DEF P!I!Wrap, Wrap, P!I!Low, Low
<1>3. \A w : P!I!Decode(w) = Decode(w)
  BY <1>1, <1>2 DEF P!I!Decode, Decode, P!I!Field, Field, P!I!SignExtend, SignExtend,
     P!I!Unsigned, Unsigned
<1>4. \A o, a, b : P!I!Taken(o, a, b) = Taken(o, a, b)
  BY DEF P!I!Taken, Taken, P!I!JLT, P!I!JLE, P!I!JEQ, P!I!JNE, JLT, JLE, JEQ, JNE
<1>5. \A a, b : /\ P!I!ShiftLeft(a, b) = ShiftLeft(a, b)
                /\ P!I!ShiftRight(a, b) = ShiftRight(a, b)
  BY <1>1, <1>2 DEF P!I!ShiftLeft, ShiftLeft, P!I!ShiftRight, ShiftRight
<1>6. ASSUME NEW o, NEW a, NEW b
      PROVE  P!I!Arith(o, a, b) = Arith(o, a, b)
  <2>1. \A S : P!I!OfBits(S) = OfBits(S)
    BY <1>1, <1>2 DEF P!I!OfBits, OfBits
  <2>2. \A x : P!I!Bits(x) = Bits(x)
    BY <1>1 DEF P!I!Bits, Bits
  <2> QED BY <1>2, <1>5, <2>1, <2>2 DEF P!I!Arith, Arith, P!I!ADD, P!I!SUB, P!I!LSF,
      P!I!RSF, P!I!AND, P!I!OR, P!I!XOR, ADD, SUB, LSF, RSF, AND, OR, XOR
<1>7. /\ P!I!ArithOps = ArithOps /\ P!I!BranchOps = BranchOps
      /\ P!I!LHI = LHI /\ P!I!LD = LD /\ P!I!ST = ST /\ P!I!DMA = DMA /\ P!I!DMP = DMP
      /\ P!I!JIN = JIN /\ P!I!HLT = HLT
  BY DEF P!I!ArithOps, P!I!BranchOps, P!I!ADD, P!I!SUB, P!I!LSF, P!I!RSF, P!I!AND, P!I!OR,
     P!I!XOR, P!I!LHI, P!I!LD, P!I!ST, P!I!DMA, P!I!DMP, P!I!JLT, P!I!JLE, P!I!JEQ, P!I!JNE,
     P!I!JIN, P!I!HLT, ArithOps, BranchOps, ADD, SUB, LSF, RSF, AND, OR, XOR, LHI, LD,
     ST, DMA, DMP, JLT, JLE, JEQ, JNE, JIN, HLT
<1> QED BY <1>1, <1>2, <1>3, <1>4, <1>5, <1>6, <1>7

-----------------------------------------------------------------------------
(***************************************************************************)
(* What a clock edge does to the data memory and to the copy: it commits   *)
(* the store or the request of the instruction in exec1, or the stream     *)
(* moves or rests.                                                         *)
(***************************************************************************)
\* What is left of the copy, and its words in flight.
Job == D!JobOf(dma)
Buf == D!BufOf(dma, port.dataout)

\* The store in exec1 reaches its word.
Stores ==
    /\ Retires({ST}) /\ Job' = Job /\ Buf' = Buf
    /\ cpu.exec1_alu[1] \in Addr
    /\ sram' = [sram EXCEPT ![cpu.exec1_alu[1]] = cpu.exec1_alu[0]]

\* The copy that exec1 asked for becomes the job.
Asks ==
    /\ StartsDma /\ sram' = sram /\ Buf' = Buf
    /\ Job.todo = 0 /\ cpu.exec1_alu[1] > 0
    /\ Job' = [from |-> Low(cpu.exec1_alu[0]), to |-> Low(cpu.exec1_aluout),
               todo |-> cpu.exec1_alu[1]]

Rests == sram' = sram /\ Job' = Job /\ Buf' = Buf

\* The copy is the same seen through either instance of the engine.
LEMMA SameCopy ==
    /\ \A d : D!JobOf(d) = E!JobOf(d)
    /\ \A d, out : D!BufOf(d, out) = E!BufOf(d, out)
    /\ Job = E!JobOf(dma) /\ Job' = E!JobOf(dma)'
    /\ Buf = E!BufOf(dma, port.dataout) /\ Buf' = E!BufOf(dma, port.dataout)'
BY DEF Job, Buf, D!JobOf, D!BufOf, E!JobOf, E!BufOf

\* A job is left exactly while the engine is busy.
LEMMA JobLeft ==
    ASSUME Inv, Owing(dma)
    PROVE  /\ dma.busy => Job.todo > 0
           /\ ~dma.busy => Job.todo = 0
BY DEF Owing, Job, D!JobOf

\* The cases of a clock edge: a store, the start of a copy, or at most a step of
\* the stream.
LEMMA CommitCases ==
    ASSUME Inv, FlowInv, E!TurnInv, Commit
    PROVE  \/ Stores
           \/ Asks
           \/ /\ ~Retires({ST}) /\ ~StartsDma
              /\ Rests \/ P!S!Fetch \/ P!S!Write
<1> DEFINE t  == E!JobOf(dma)
           b  == E!BufOf(dma, port.dataout)
<1>1. E!TypeOK /\ E!Commit
  <2>1. is_dma_hazard' \in BOOLEAN
    BY DEF is_dma_hazard
  <2>2. E!Commit
    BY <2>1 DEF Commit, D!Commit, D!CommitFrame, D!OutOfRange, D!Addr,
       D!QuietPort, D!DataOut, E!Commit, E!CommitFrame, E!OutOfRange, E!Addr,
       E!QuietPort, E!DataOut
  <2> QED BY <2>2, EngineTypes DEF Inv, TypeOK
<1>2. /\ phase = "commit" /\ dma' = dman /\ port'.dataout = E!DataOut
      /\ ~port.write => sram' = sram
      /\ port.write => /\ port.waddr \in Addr
                       /\ sram' = [sram EXCEPT ![port.waddr] = port.datain]
  BY <1>1, E!CommitEffect, EngineAssumptions DEF E!Addr, Addr
<1>3. E!Held \/ E!Asked \/ E!Fetched \/ E!Written
  BY <1>2 DEF E!TurnInv
<1>4. Accesses /\ Requests /\ Owing(dma) /\ Owing(dman)
  BY <1>2 DEF FlowInv
<1>5. ~(port.read /\ port.write)
  BY DEF Inv, E!DmaInv, E!PortOwner
<1>6. E!Held => t' = t /\ b' = b
  BY <1>2 DEF E!Held
<1>7. dma.len \in Int /\ dman.len \in Int
  BY <1>1 DEF E!TypeOK, E!DmaRegisters
<1>8. CASE Retires({ST})
  <2>1. is_dma_hazard /\ port.write
    BY <1>4, <1>8 DEF Accesses, is_dma_hazard, Retires
  <2>2. E!Held
    BY <1>3, <2>1 DEF E!Asked, E!Fetched, E!Written
  <2>3. Job' = Job /\ Buf' = Buf
    BY <1>6, <2>2, SameCopy
  <2> QED BY <1>2, <1>4, <1>8, <2>1, <2>3 DEF Stores, Accesses
<1>9. CASE StartsDma
  <2>1. ~dma.busy /\ Started
    BY <1>4, <1>9 DEF StartsDma, Requests
  <2>2. t = E!NoJob /\ E!NoJob.todo = 0
    BY <2>1 DEF E!JobOf, E!NoJob
  <2>3. E!JobOf(dman) = [from |-> Low(cpu.exec1_alu[0]), to |-> Low(cpu.exec1_aluout),
                         todo |-> cpu.exec1_alu[1]]
    BY <2>1 DEF Started, E!JobOf
  <2>4. E!Asked
    <3>1. E!JobOf(dman).todo > 0
      BY <2>1, <2>3 DEF Started
    <3>2. ~E!Held
      BY <2>2, <3>1 DEF E!Held
    <3> QED BY <1>3, <2>1, <3>2 DEF E!Fetched, E!Written
  <2>5. sram' = sram /\ b' = b
    BY <1>2, <2>4 DEF E!Asked
  <2>6. Job.todo = 0 /\ Buf' = Buf /\ Job' = E!JobOf(dman)
    BY <1>2, <2>2, <2>5, SameCopy
  <2> QED BY <1>9, <2>1, <2>3, <2>5, <2>6 DEF Asks, Started
<1>10. CASE ~Retires({ST}) /\ ~StartsDma
  <2>1. CASE E!Held
    <3>1. ~port.write
      BY <1>4, <1>5, <1>10, <2>1 DEF E!Held, is_dma_hazard, Accesses, LoadsNow, Retires
    <3> QED BY <1>2, <1>6, <1>10, <2>1, <3>1, SameCopy DEF Rests
  <2>2. ~E!Asked
    <3> SUFFICES ASSUME E!Asked PROVE FALSE
      OBVIOUS
    <3>1. dma.busy /\ dma.len > 0
      BY <1>4, <1>10 DEF E!Asked, Requests, Owing
    <3> QED BY <1>7, <3>1 DEF E!Asked, E!JobOf, E!NoJob
  <2>3. CASE E!Fetched
    <3>1. E!SCP!Fetch
      BY <1>1, <2>3, E!FetchedCommit, EngineAssumptions
    <3>2. P!S!Fetch
      BY <3>1, ArchWords, SameCopy DEF E!SCP!Fetch, P!S!Fetch, E!SCP!Inc, P!S!Inc,
         Job, Buf
    <3> QED BY <1>10, <3>2
  <2>4. CASE E!Written
    <3>1. E!SCP!Write
      BY <1>1, <2>4, E!WrittenCommit, EngineAssumptions
    <3>2. P!S!Write
      BY <3>1, ArchWords, SameCopy DEF E!SCP!Write, P!S!Write, E!SCP!Inc, P!S!Inc,
         E!SCP!NoJob, P!S!NoJob, Job, Buf
    <3> QED BY <1>10, <3>2
  <2> QED BY <1>3, <2>1, <2>2, <2>3, <2>4
<1> QED BY <1>8, <1>9, <1>10

-----------------------------------------------------------------------------
(***************************************************************************)
(* At a clock edge the instruction in exec1 takes effect, if there is one. *)
(***************************************************************************)
\* What the programmer sees beside the registers, the memories and the copy.
ArchPc == Low(OldestPc)
ArchStatus == IF Halted THEN "halted" ELSE "running"
Dumped == IF Halted THEN dump ELSE << >>

\* The address the machine without a pipeline is at is the head of the pipe.
LEMMA OldestIsFromExec1 == OldestPc = FromExec1(cpu)
BY DEF OldestPc, FromExec1, FromExec0, FromDec1, FromDec0, FromFetch1

\* The instruction and its operands.
LEMMA Instruction ==
    ASSUME Inv, FlowInv, phase = "commit", cpu.exec1.active
    PROVE  /\ ArchPc = cpu.exec1.pc /\ ArchStatus = "running" /\ ~Halted
           /\ P!I!inst.opcode = cpu.exec1.opcode /\ P!I!inst.dst = cpu.exec1.dst
           /\ P!I!inst.immediate = cpu.exec1.immediate
           /\ P!I!Val0 = cpu.exec1_alu[0]
           /\ IF cpu.exec1.opcode = LHI
                THEN cpu.exec1_alu[1] = cpu.r[cpu.exec1.dst]
                ELSE P!I!Val1 = cpu.exec1_alu[1]
           /\ P!I!NextPc = Low(cpu.exec1.pc + 1)
<1> DEFINE s == cpu.exec1
<1>1. s.pc \in Addr
  <2>1. cpu \in CpuRegisters
    BY DEF Inv, TypeOK
  <2> QED BY <2>1, Held DEF Decoded
<1>2. ~Halted /\ ArchStatus = "running"
  BY DEF Halted, ArchStatus
<1>3. ArchPc = s.pc /\ Low(OldestPc) = s.pc
  <2>1. OldestPc = s.pc
    BY OldestIsFromExec1 DEF FromExec1
  <2>2. Low(s.pc) = s.pc
    BY <1>1, LowType
  <2> QED BY <2>1, <2>2 DEF ArchPc
<1>4. P!I!inst = Decode(srami[s.pc])
  BY <1>3, ArchIssWords DEF P!I!inst
<1>5. IsDecoded(s, srami[s.pc]) /\ Results(cpu)
  BY DEF FlowInv, Flow, Text
<1>6. /\ s.opcode = P!I!inst.opcode /\ s.dst = P!I!inst.dst
      /\ s.src0 = P!I!inst.src0 /\ s.src1 = P!I!inst.src1
      /\ s.immediate = P!I!inst.immediate
  BY <1>4, <1>5 DEF IsDecoded
<1>7. P!I!Val0 = cpu.exec1_alu[0]
  BY <1>5, <1>6, ArchIssWords DEF P!I!Val0, Results, Operand0
<1>8. cpu.exec1_alu[1] = Operand1(s, cpu.r)
  BY <1>5 DEF Results
<1>9. IF s.opcode = LHI THEN cpu.exec1_alu[1] = cpu.r[s.dst]
                        ELSE P!I!Val1 = cpu.exec1_alu[1]
  BY <1>6, <1>8 DEF P!I!Val1, Operand1, Src1
<1>10. P!I!NextPc = Low(s.pc + 1)
  BY <1>3, ArchIssWords DEF P!I!NextPc
<1> QED BY <1>2, <1>3, <1>6, <1>7, <1>9, <1>10

\* After the edge.
LEMMA NextArch ==
    ASSUME Inv, FlowInv, Commit
    PROVE  /\ phase = "commit" /\ srami' = srami
           /\ cpu'.r = Assigned
           /\ ArchPc' = IF cpu.exec1.active THEN Low(NextAddress) ELSE ArchPc
           /\ ArchStatus' = IF Retires({HLT}) THEN "halted" ELSE "running"
           /\ Dumped' = IF Retires({HLT}) THEN sram ELSE << >>
<1>1. /\ phase = "commit" /\ phase' = "ctl" /\ cpu' = cpun /\ stop_sim' = stop_sim
      /\ dump' = dump /\ srami' = srami
  BY DEF Commit, D!Commit, D!CommitFrame
<1>2. Retired /\ Stopping
  BY <1>1 DEF FlowInv
<1>3. Halted' <=> Retires({HLT})
  BY <1>1, <1>2 DEF Halted, Stopping
<1>4. OldestPc' = FromExec1(cpun)
  BY <1>1 DEF OldestPc, FromExec1, FromExec0, FromDec1, FromDec0, FromFetch1
<1>5. OldestPc' = IF cpu.exec1.active THEN NextAddress ELSE OldestPc
  BY <1>2, <1>4, OldestIsFromExec1 DEF Retired
<1>6. ArchPc' = Low(OldestPc')
  BY DEF ArchPc, Low
<1>7. ArchPc' = IF cpu.exec1.active THEN Low(NextAddress) ELSE ArchPc
  BY <1>5, <1>6 DEF ArchPc
<1> QED BY <1>1, <1>2, <1>3, <1>7 DEF Retired, Stopping, ArchStatus, Dumped

\* The registers as the instruction set simulator assigns them.
LEMMA Assignment ==
    ASSUME NEW d, NEW v, d \in 0 .. 7,
           cpu'.r = IF d > 1 THEN [cpu.r EXCEPT ![d] = v] ELSE cpu.r
    PROVE  P!I!SetReg(d, v)
BY DEF P!I!SetReg

\* Both machines jump on the same instructions.
LEMMA JumpsTogether ==
    ASSUME Inv, FlowInv, phase = "commit", cpu.exec1.active, cpu.exec1.opcode \in JumpOps
    PROVE  P!Jumps <=> Jumping
<1> DEFINE s == cpu.exec1
           a == cpu.exec1_alu[0]
           b == cpu.exec1_alu[1]
<1>1. /\ ArchStatus = "running"
      /\ P!I!inst.opcode = s.opcode
      /\ P!I!Val0 = a
      /\ s.opcode # LHI => P!I!Val1 = b
  BY Instruction
<1>2. /\ s.opcode = DMP => cpu.exec1_aluout = Bool(a = 0)
      /\ s.opcode \in BranchOps => cpu.exec1_aluout = Bool(Taken(s.opcode, a, b))
      /\ s.opcode = JIN => cpu.exec1_aluout = 1
  BY DEF FlowInv, Flow, Results
<1>3. s.opcode # LHI
  BY Codes
<1>4. Jumping <=> cpu.exec1_aluout = 1
  BY DEF Jumping, Retires
<1>5. CASE s.opcode = JIN
  BY <1>1, <1>2, <1>4, <1>5, ArchWords, Codes DEF P!Jumps, P!I!Execute, ArchStatus
<1>6. CASE s.opcode = DMP
  BY <1>1, <1>2, <1>4, <1>6, ArchWords, Codes
     DEF P!Jumps, P!I!Execute, ArchStatus, Bool
<1>7. CASE s.opcode \in BranchOps
  BY <1>1, <1>2, <1>3, <1>4, <1>7, ArchWords, Codes
     DEF P!Jumps, P!I!Execute, ArchStatus, Bool
<1> QED BY <1>5, <1>6, <1>7 DEF JumpOps

\* An instruction that neither stores nor starts a copy.
LEMMA RegisterStep ==
    ASSUME Inv, FlowInv, Commit, ~Retires({ST}), ~StartsDma
    PROVE  \/ P!Register
           \/ UNCHANGED <<cpu.r, ArchPc, ArchStatus, Dumped>>
<1> DEFINE s == cpu.exec1
           a == cpu.exec1_alu[0]
           b == cpu.exec1_alu[1]
<1>1. /\ phase = "commit" /\ cpu'.r = Assigned
      /\ ArchPc' = IF cpu.exec1.active THEN Low(NextAddress) ELSE ArchPc
      /\ ArchStatus' = IF Retires({HLT}) THEN "halted" ELSE "running"
      /\ Dumped' = IF Retires({HLT}) THEN sram ELSE << >>
  BY NextArch
<1>2. CASE ~s.active
  <2>1. ~Retires({HLT}) /\ Assigned = cpu.r
    BY <1>2 DEF Retires, Jumping, Assigned
  <2>2. ~Halted
    BY <1>1 DEF Halted
  <2> QED BY <1>1, <1>2, <2>1, <2>2 DEF ArchStatus, Dumped
<1>3. CASE s.active
  <2>1. /\ ArchPc = s.pc /\ ArchStatus = "running" /\ ~Halted
        /\ P!I!inst.opcode = s.opcode /\ P!I!inst.dst = s.dst
        /\ P!I!inst.immediate = s.immediate
        /\ P!I!Val0 = a
        /\ IF s.opcode = LHI THEN b = cpu.r[s.dst] ELSE P!I!Val1 = b
        /\ P!I!NextPc = Low(s.pc + 1)
    BY <1>1, <1>3, Instruction
  <2>2. s.dst \in 0 .. 7 /\ s.opcode \in 0 .. 31
    <3>1. cpu \in CpuRegisters
      BY DEF Inv, TypeOK
    <3> QED BY <3>1, Held DEF Decoded
  <2>3. /\ \A ops : Retires(ops) <=> s.opcode \in ops
        /\ Jumping <=> s.opcode \in JumpOps /\ cpu.exec1_aluout = 1
    BY <1>3 DEF Retires, Jumping
  <2>4. /\ s.opcode \in ArithOps => cpu.exec1_aluout = Arith(s.opcode, a, b)
        /\ s.opcode = LHI => cpu.exec1_aluout = ShiftLeft(b, ImmBits) + Low(a)
        /\ s.opcode = DMP => cpu.exec1_aluout = Bool(a = 0)
        /\ s.opcode \in BranchOps => cpu.exec1_aluout = Bool(Taken(s.opcode, a, b))
        /\ s.opcode = JIN => cpu.exec1_aluout = 1
    BY <1>3 DEF FlowInv, Flow, Results
  <2>5. s.opcode \notin JumpOps => ArchPc' = P!I!NextPc
    BY <1>1, <1>3, <2>1, <2>3 DEF NextAddress
  <2>6. s.opcode # HLT => ArchStatus' = ArchStatus /\ Dumped' = Dumped
    BY <1>1, <2>1, <2>3 DEF Dumped
  <2>7. CASE s.opcode \in ArithOps
    <3>1. Assigned = IF s.dst > 1 THEN [cpu.r EXCEPT ![s.dst] = cpu.exec1_aluout]
                                  ELSE cpu.r
      BY <2>3, <2>7, Codes DEF Assigned
    <3>2. P!I!SetReg(s.dst, P!I!Arith(s.opcode, a, b))
      BY <1>1, <2>2, <2>4, <2>7, <3>1, Assignment, ArchIssWords
    <3>3. s.opcode \notin JumpOps /\ s.opcode # HLT /\ s.opcode # LHI
      BY <2>7, Codes
    <3>4. P!I!ExecArith
      BY <2>1, <2>5, <2>6, <2>7, <3>2, <3>3, ArchIssWords
         DEF P!I!ExecArith, P!I!Execute, ArchPc, ArchStatus
    <3> QED BY <2>6, <3>3, <3>4 DEF P!Register, Dumped
  <2>8. CASE s.opcode = LHI
    <3>1. Assigned = IF s.dst > 1 THEN [cpu.r EXCEPT ![s.dst] = cpu.exec1_aluout]
                                  ELSE cpu.r
      BY <2>3, <2>8, Codes DEF Assigned
    <3>2. P!I!SetReg(s.dst, P!ShiftLeft(cpu.r[s.dst], ImmBits) + P!Low(a))
      <4>1. b = cpu.r[s.dst]
        BY <2>1, <2>8
      <4>2. cpu.exec1_aluout = ShiftLeft(cpu.r[s.dst], ImmBits) + Low(a)
        BY <2>4, <2>8, <4>1
      <4>3. cpu.exec1_aluout = P!ShiftLeft(cpu.r[s.dst], ImmBits) + P!Low(a)
        BY <4>2, ArchWords
      <4>4. P!I!SetReg(s.dst, cpu.exec1_aluout)
        BY <1>1, <2>2, <3>1, Assignment
      <4> QED BY <4>3, <4>4
    <3>3. s.opcode \notin JumpOps /\ s.opcode # HLT
      BY <2>8, Codes
    <3>4. P!ExecLhi
      BY <2>1, <2>5, <2>6, <2>8, <3>2, <3>3, ArchWords
         DEF P!ExecLhi, P!I!Execute, ArchPc, ArchStatus, Dumped
    <3> QED BY <3>4 DEF P!Register
  <2>9. CASE s.opcode = LD
    <3>1. Assigned = IF s.dst > 1 THEN [cpu.r EXCEPT ![s.dst] = sram[Low(b)]]
                                  ELSE cpu.r
      BY <2>3, <2>9, Codes DEF Assigned
    <3>2. P!I!SetReg(s.dst, sram[P!Low(b)])
      BY <1>1, <2>2, <3>1, Assignment, ArchWords
    <3>3. s.opcode \notin JumpOps /\ s.opcode # HLT /\ s.opcode # LHI
      BY <2>9, Codes
    <3>4. P!ExecLd
      BY <2>1, <2>5, <2>6, <2>9, <3>2, <3>3, ArchWords
         DEF P!ExecLd, P!I!Execute, ArchPc, ArchStatus, Dumped
    <3> QED BY <3>4 DEF P!Register
  <2>10. CASE s.opcode \in JumpOps
    <3>1. Assigned = IF Jumping THEN [cpu.r EXCEPT ![7] = s.pc] ELSE cpu.r
      BY <2>3, <2>10, Codes DEF Assigned
    <3>2. s.opcode # HLT /\ s.opcode # LHI
      BY <2>10, Codes
    <3>3. P!Jumps <=> Jumping
      BY <1>1, <1>3, <2>10, JumpsTogether
    <3>4. CASE Jumping
      <4>1. P!I!SetReg(7, ArchPc)
        BY <1>1, <2>1, <3>1, <3>4 DEF P!I!SetReg
      <4>2. ArchPc' = P!Low(s.immediate)
        BY <1>1, <1>3, <3>4, ArchWords DEF NextAddress
      <4>3. P!ExecJump
        BY <2>1, <2>6, <3>2, <3>3, <3>4, <4>1, <4>2
           DEF P!ExecJump, ArchPc, ArchStatus, Dumped
      <4> QED BY <4>3 DEF P!Register
    <3>5. CASE ~Jumping
      <4>1. s.opcode # JIN
        BY <2>3, <2>4, <2>10, <3>5
      <4>2. cpu'.r = cpu.r /\ ArchPc' = P!I!NextPc
        BY <1>1, <1>3, <2>1, <3>1, <3>5 DEF NextAddress
      <4>3. P!I!Execute({P!DMP} \cup P!BranchOps)
        BY <2>1, <2>10, <4>1, ArchWords DEF P!I!Execute, JumpOps, ArchStatus
      <4>4. P!ExecNothing
        BY <2>6, <3>2, <3>3, <3>5, <4>2, <4>3
           DEF P!ExecNothing, ArchPc, ArchStatus, Dumped
      <4> QED BY <4>4 DEF P!Register
    <3> QED BY <3>4, <3>5
  <2>11. CASE s.opcode = HLT
    <3>1. s.opcode \notin JumpOps /\ Assigned = cpu.r
      BY <2>3, <2>11, Codes DEF Assigned
    <3>2. P!I!ExecHlt /\ Dumped' = sram
      BY <1>1, <2>1, <2>3, <2>5, <2>11, <3>1, ArchIssWords
         DEF P!I!ExecHlt, P!I!Execute, ArchPc, ArchStatus
    <3> QED BY <3>2 DEF P!ExecHlt, P!Register, Dumped
  <2>12. CASE s.opcode = DMA
    <3>1. s.opcode \notin JumpOps /\ s.opcode # HLT /\ Assigned = cpu.r
      BY <2>3, <2>12, Codes DEF Assigned
    <3>2. Job.todo > 0
      <4>1. dma.busy
        BY <2>3, <2>12 DEF StartsDma
      <4> QED BY <4>1, JobLeft DEF FlowInv
    <3>3. P!ExecNothing
      BY <1>1, <2>1, <2>5, <2>6, <2>12, <3>1, <3>2, ArchWords
         DEF P!ExecNothing, P!I!Execute, ArchPc, ArchStatus, Dumped, Job
    <3> QED BY <3>3 DEF P!Register
  <2>13. CASE s.opcode \in (12 .. 15) \cup (21 .. 23) \cup (25 .. 31)
    <3>1. s.opcode \notin JumpOps /\ s.opcode # HLT /\ Assigned = cpu.r
      BY <2>3, <2>13, Codes DEF Assigned
    <3>2. P!ExecNothing
      BY <1>1, <2>1, <2>5, <2>6, <2>13, <3>1
         DEF P!ExecNothing, P!I!Execute, ArchPc, ArchStatus, Dumped
    <3> QED BY <3>2 DEF P!Register
  <2>14. s.opcode # ST
    BY <2>3
  <2> QED BY <2>2, <2>7, <2>8, <2>9, <2>10, <2>11, <2>12, <2>13, <2>14, Codes
<1> QED BY <1>2, <1>3

\* The clock edge of a store.
LEMMA StoreStep ==
    ASSUME Inv, FlowInv, Commit, Stores
    PROVE  P!ExecSt
<1>1. /\ phase = "commit" /\ cpu.exec1.active /\ cpu.exec1.opcode = ST
      /\ cpu'.r = Assigned
      /\ ArchPc' = Low(NextAddress)
      /\ ArchStatus' = IF Retires({HLT}) THEN "halted" ELSE "running"
      /\ Dumped' = IF Retires({HLT}) THEN sram ELSE << >>
  BY NextArch DEF Stores, Retires
<1>2. /\ ST # HLT /\ ST # LHI /\ ST # LD /\ ST \notin ArithOps /\ ST \notin JumpOps
  BY Codes
<1>3. ~Retires({HLT}) /\ ~Jumping /\ Assigned = cpu.r /\ NextAddress = cpu.exec1.pc + 1
  <2>1. ~Retires({HLT}) /\ ~Jumping
    BY <1>1, <1>2 DEF Retires, Jumping
  <2> QED BY <1>1, <1>2, <2>1 DEF Retires, Assigned, NextAddress
<1>4. /\ ArchStatus = "running" /\ ~Halted
      /\ P!I!inst.opcode = ST
      /\ P!I!Val0 = cpu.exec1_alu[0] /\ P!I!Val1 = cpu.exec1_alu[1]
      /\ P!I!NextPc = Low(cpu.exec1.pc + 1)
  BY <1>1, <1>2, Instruction
<1>5. P!I!Val1 \in P!Addr
  BY <1>4, ArchWords DEF Stores
<1>6. /\ cpu'.r = cpu.r /\ ArchPc' = P!I!NextPc /\ ArchStatus' = ArchStatus
      /\ Dumped' = Dumped
  BY <1>1, <1>3, <1>4 DEF Dumped
<1>7. P!I!Execute({P!ST})
  BY <1>4, ArchWords DEF P!I!Execute, ArchStatus
<1>8. sram' = [sram EXCEPT ![P!I!Val1] = P!I!Val0]
  BY <1>4 DEF Stores
<1> QED BY <1>5, <1>6, <1>7, <1>8 DEF P!ExecSt, Stores, Job, Buf, ArchPc, ArchStatus, Dumped

\* The clock edge of an accepted request.
LEMMA AskStep ==
    ASSUME Inv, FlowInv, Commit, Asks
    PROVE  P!ExecDma
<1>1. /\ phase = "commit" /\ cpu.exec1.active /\ cpu.exec1.opcode = DMA
      /\ cpu'.r = Assigned
      /\ ArchPc' = Low(NextAddress)
      /\ ArchStatus' = IF Retires({HLT}) THEN "halted" ELSE "running"
      /\ Dumped' = IF Retires({HLT}) THEN sram ELSE << >>
  BY NextArch DEF Asks, StartsDma, Retires
<1>2. /\ DMA # HLT /\ DMA # LHI /\ DMA # LD /\ DMA \notin ArithOps
      /\ DMA \notin JumpOps
  BY Codes
<1>3. ~Retires({HLT}) /\ ~Jumping /\ Assigned = cpu.r /\ NextAddress = cpu.exec1.pc + 1
  <2>1. ~Retires({HLT}) /\ ~Jumping
    BY <1>1, <1>2 DEF Retires, Jumping
  <2> QED BY <1>1, <1>2, <2>1 DEF Retires, Assigned, NextAddress
<1>4. /\ ArchStatus = "running" /\ ~Halted
      /\ P!I!inst.opcode = DMA
      /\ P!I!Val0 = cpu.exec1_alu[0] /\ P!I!Val1 = cpu.exec1_alu[1]
      /\ P!I!NextPc = Low(cpu.exec1.pc + 1)
  BY <1>1, <1>2, Instruction
<1>5. cpu.exec1_aluout = cpu.exec1_alu[0]
  BY <1>1 DEF FlowInv, Flow, Results
<1>6. /\ cpu'.r = cpu.r /\ ArchPc' = P!I!NextPc /\ ArchStatus' = ArchStatus
      /\ Dumped' = Dumped
  BY <1>1, <1>3, <1>4 DEF Dumped
<1>7. P!I!Execute({P!DMA})
  BY <1>4, ArchWords DEF P!I!Execute, ArchStatus
<1>8. /\ Job' = [from |-> P!Low(P!I!Val0), to |-> P!Low(P!I!Val0), todo |-> P!I!Val1]
      /\ Job.todo = 0 /\ P!I!Val1 > 0 /\ sram' = sram /\ Buf' = Buf
  BY <1>4, <1>5, ArchWords DEF Asks
<1> QED BY <1>6, <1>7, <1>8 DEF P!ExecDma, Job, Buf, ArchPc, ArchStatus, Dumped

\* Between the edges the programmer sees nothing move.
LEMMA ArchFrame ==
    ASSUME Inv, [Next]_vars, ~Commit
    PROVE  UNCHANGED <<srami, sram, cpu.r, ArchPc, ArchStatus, Dumped, Job, Buf>>
<1>1. [E!Next]_E!vars /\ TypeOK /\ E!TypeOK /\ E!DmaInv
  BY EngineStep, EngineTypes DEF Inv, TypeOK, E!DmaInv
<1>2. /\ UNCHANGED <<srami, sram, cpu>> /\ ~E!Commit
      /\ Halted' <=> Halted
      /\ Halted => dump' = dump
  <2>1. CASE sp_ctl
    <3>1. /\ phase = "ctl" /\ phase' = "dma" /\ ~stop_sim
          /\ UNCHANGED <<cpu, sram, srami>>
      BY <2>1 DEF sp_ctl, Compute, StartDma, Halt, Turn
    <3> QED BY <3>1 DEF Halted, E!Commit, E!CommitFrame
  <2>2. CASE dma_ctl
    <3>1. /\ phase = "dma" /\ phase' = "commit"
          /\ UNCHANGED <<cpu, sram, srami, dump>>
      BY <2>2, EngineTurn
    <3> QED BY <3>1 DEF Halted, E!Commit, E!CommitFrame
  <2>3. CASE CommitFault
    <3>1. /\ UNCHANGED <<cpu, sram, srami, dump, stop_sim>>
          /\ phase = "commit"
          /\ ~E!Commit
      BY <2>3 DEF CommitFault, D!CommitFault, D!CommitFrame, D!OutOfRange, D!Addr,
         E!Commit, E!OutOfRange, E!Addr
    <3>2. phase' # "ctl"
      BY <2>3, <3>1 DEF CommitFault, D!CommitFault, D!CommitFrame
    <3> QED BY <3>1, <3>2 DEF Halted
  <2>4. CASE FetchFault \/ Stopped \/ UNCHANGED vars
    <3>1. UNCHANGED <<cpu, sram, srami, dump, phase, stop_sim>>
      BY <2>4 DEF FetchFault, Stopped, vars
    <3> QED BY <3>1 DEF Halted, E!Commit, E!CommitFrame
  <2> QED BY <2>1, <2>2, <2>3, <2>4 DEF Next
<1>3. E!Cpu \/ E!Dma \/ E!CommitFault \/ UNCHANGED E!vars
  BY <1>1, <1>2 DEF E!Next, E!Stopped
<1>4. UNCHANGED E!SCP!vars
  BY <1>1, <1>3, E!OtherSteps, EngineAssumptions
<1>5. Job' = Job /\ Buf' = Buf
  BY <1>4, SameCopy DEF E!SCP!vars
<1>6. cpu'.r = cpu.r /\ ArchPc' = ArchPc
  BY <1>2 DEF ArchPc, OldestPc
<1>7. ArchStatus' = ArchStatus /\ Dumped' = Dumped
  BY <1>2 DEF ArchStatus, Dumped
<1> QED BY <1>2, <1>5, <1>6, <1>7

\* Every step of a regular program is a step of the programmer's machine.
LEMMA ArchStep ==
    ASSUME Inv, FlowInv, E!TurnInv, [Next]_vars
    PROVE  [P!Next]_P!vars
<1>1. CASE ~Commit
  BY <1>1, ArchFrame DEF P!vars, ArchPc, ArchStatus, Dumped, Job, Buf
<1>2. CASE Commit
  <2>1. srami' = srami
    BY <1>2, NextArch
  <2>2. CASE Stores
    BY <1>2, <2>1, <2>2, StoreStep DEF P!Next
  <2>3. CASE Asks
    BY <1>2, <2>1, <2>3, AskStep DEF P!Next
  <2>4. CASE ~Stores /\ ~Asks
    <3>1. /\ ~Retires({ST}) /\ ~StartsDma
          /\ Rests \/ P!S!Fetch \/ P!S!Write
      BY <1>2, <2>4, CommitCases
    <3>2. \/ P!Register
          \/ UNCHANGED <<cpu.r, ArchPc, ArchStatus, Dumped>>
      BY <1>2, <3>1, RegisterStep
    <3>3. CASE Rests
      BY <2>1, <3>2, <3>3 DEF Rests, P!Next, P!vars, ArchPc, ArchStatus, Dumped, Job, Buf
    <3>4. CASE P!S!Fetch \/ P!S!Write
      BY <2>1, <3>2, <3>4 DEF P!Next, P!Stream, ArchPc, ArchStatus, Dumped
    <3> QED BY <3>1, <3>3, <3>4
  <2> QED BY <2>2, <2>3, <2>4
<1> QED BY <1>1, <1>2

(***************************************************************************)
(* The pipeline implements the machine without one, beside a copy and with *)
(* any stores, for every memory image, branch target buffer and width of   *)
(* the immediate field, in every run of a regular program: nothing is lost,*)
(* repeated or executed on a wrong path, and no instruction sees a stale   *)
(* operand.  Regular speaks of the run; ScheduledImplementsArch below asks *)
(* for a program text instead.                                             *)
(***************************************************************************)
THEOREM PipelineImplementsArch == Spec /\ []Regular => ImplementsPipeArch
<1>1. Init => P!Init
  <2> SUFFICES ASSUME Init PROVE P!Init
    OBVIOUS
  <2>1. /\ cpu.r = [r \in 0 .. 7 |-> 0] /\ OldestPc = 0 /\ ~Halted
        /\ srami \in Images /\ sram = srami /\ ~dma.busy
    BY DEF Init, D!Init, ResetRegisters, D!ResetRegisters, EmptyStage, OldestPc, Halted
  <2>2. Low(OldestPc) = 0
    <3>1. Low(0) = 0
      BY AddrType, LowType
    <3> QED BY <2>1, <3>1
  <2>3. srami \in [Addr -> Word]
    BY <2>1, ImagesAssumption
  <2>4. P!I!Init
    BY <2>1, <2>2, <2>3, ArchWords DEF P!I!Init, ArchPc
  <2>5. D!JobOf(dma) = P!S!NoJob /\ D!BufOf(dma, port.dataout) = << >>
    BY <2>1 DEF Init, D!Init, D!ResetRegisters, D!JobOf, D!BufOf, P!S!NoJob
  <2> QED BY <2>1, <2>4, <2>5 DEF P!Init
<1>2. Inv /\ FlowInv /\ E!TurnInv /\ [Next]_vars => [P!Next]_P!vars
  BY ArchStep
<1>3. Spec => []E!TurnInv
  <2>1. E!Spec => []E!TurnInv
    BY E!TurnInvariant, EngineAssumptions
  <2> QED BY <2>1, PipelineDrivesEngine
<1> QED BY <1>1, <1>2, <1>3, Invariant, FlowInvariant, PTL
    DEF Spec, ImplementsPipeArch, P!Spec

-----------------------------------------------------------------------------
(***************************************************************************)
(* Programs of the common instruction set.  They never start the engine,   *)
(* so the data memory is theirs alone, and the machine without a pipeline  *)
(* runs them as the instruction set simulator does.                        *)
(***************************************************************************)
\* The engine stays free.
EngineFree == ~dma.busy /\ ~dman.busy

\* It is asked for nothing while only common instructions retire.
LEMMA EngineFreeStep ==
    ASSUME Inv, Common, EngineFree, [Next]_vars
    PROVE  EngineFree'
<1>1. CASE sp_ctl
  <2>1. ~StartsDma
    BY <1>1, Codes, Turned DEF Turn, Common, Halted, StartsDma, Retires
  <2>2. UNCHANGED <<dma, dman>>
    BY <1>1, <2>1 DEF sp_ctl, Compute, StartDma, Halt, Turn
  <2> QED BY <2>2 DEF EngineFree
<1>2. CASE dma_ctl
  BY <1>2, EngineTurn DEF EngineFree
<1>3. CASE Commit
  BY <1>3 DEF Commit, D!Commit, EngineFree
<1>4. CASE CommitFault \/ FetchFault \/ Stopped \/ UNCHANGED vars
  BY <1>4 DEF CommitFault, D!CommitFault, D!CommitFrame,
     FetchFault, Stopped, vars, EngineFree
<1> QED BY <1>1, <1>2, <1>3, <1>4 DEF Next

\* So it stays free for a whole run.
LEMMA EngineStaysFree == Spec /\ []Common => []EngineFree
<1>1. Init => EngineFree
  BY DEF Init, D!Init, D!ResetRegisters, EngineFree
<1> QED BY <1>1, EngineFreeStep, Invariant, PTL DEF Spec

\* A free engine has no job and no words in flight.
LEMMA FreeCopy ==
    ASSUME Inv, FlowInv, EngineFree
    PROVE  Job.todo = 0 /\ Buf = << >>
<1>1. dma.state = "IDLE"
  BY DEF Inv, E!DmaInv, E!Control, EngineFree
<1> QED BY <1>1, JobLeft DEF FlowInv, EngineFree, Buf, D!BufOf

\* The simulator's words are those of the implementation.
LEMMA IssWords ==
    /\ I!Height = Height /\ I!Addr = Addr /\ I!Word = Word
    /\ \A x : I!Low(x) = Low(x)
    /\ \A w : I!Decode(w) = Decode(w)
    /\ \A o, a, b : I!Taken(o, a, b) = Taken(o, a, b)
    /\ \A o, a, b : I!Arith(o, a, b) = Arith(o, a, b)
    /\ \A a, b : I!ShiftLeft(a, b) = ShiftLeft(a, b)
    /\ I!ArithOps = ArithOps /\ I!BranchOps = BranchOps
    /\ I!LHI = LHI /\ I!LD = LD /\ I!ST = ST /\ I!DMA = DMA /\ I!DMP = DMP
    /\ I!JIN = JIN /\ I!HLT = HLT
<1>1. /\ I!Pow2 = Pow2 /\ I!WordBits = WordBits /\ I!Height = Height
      /\ I!HalfRange = HalfRange /\ I!Addr = Addr /\ I!Word = Word
  BY DEF I!Pow2, Pow2, I!Doubled, Doubled, I!WordBits, WordBits, I!Height, Height,
     I!HalfRange, HalfRange, I!Addr, Addr, I!Word, Word
<1>2. \A x : I!Wrap(x) = Wrap(x) /\ I!Low(x) = Low(x)
  BY <1>1 DEF I!Wrap, Wrap, I!Low, Low
<1>3. \A w : I!Decode(w) = Decode(w)
  BY <1>1, <1>2 DEF I!Decode, Decode, I!Field, Field, I!SignExtend, SignExtend,
     I!Unsigned, Unsigned
<1>4. \A o, a, b : I!Taken(o, a, b) = Taken(o, a, b)
  BY DEF I!Taken, Taken, I!JLT, I!JLE, I!JEQ, I!JNE, JLT, JLE, JEQ, JNE
<1>5. \A a, b : /\ I!ShiftLeft(a, b) = ShiftLeft(a, b)
                /\ I!ShiftRight(a, b) = ShiftRight(a, b)
  BY <1>1, <1>2 DEF I!ShiftLeft, ShiftLeft, I!ShiftRight, ShiftRight
<1>6. ASSUME NEW o, NEW a, NEW b
      PROVE  I!Arith(o, a, b) = Arith(o, a, b)
  <2>1. \A S : I!OfBits(S) = OfBits(S)
    BY <1>1, <1>2 DEF I!OfBits, OfBits
  <2>2. \A x : I!Bits(x) = Bits(x)
    BY <1>1 DEF I!Bits, Bits
  <2> QED BY <1>2, <1>5, <2>1, <2>2 DEF I!Arith, Arith, I!ADD, I!SUB, I!LSF,
      I!RSF, I!AND, I!OR, I!XOR, ADD, SUB, LSF, RSF, AND, OR, XOR
<1>7. /\ I!ArithOps = ArithOps /\ I!BranchOps = BranchOps
      /\ I!LHI = LHI /\ I!LD = LD /\ I!ST = ST /\ I!DMA = DMA /\ I!DMP = DMP
      /\ I!JIN = JIN /\ I!HLT = HLT
  BY DEF I!ArithOps, I!BranchOps, I!ADD, I!SUB, I!LSF, I!RSF, I!AND, I!OR,
     I!XOR, I!LHI, I!LD, I!ST, I!DMA, I!DMP, I!JLT, I!JLE, I!JEQ, I!JNE,
     I!JIN, I!HLT, ArithOps, BranchOps, ADD, SUB, LSF, RSF, AND, OR, XOR, LHI, LD,
     ST, DMA, DMP, JLT, JLE, JEQ, JNE, JIN, HLT
<1> QED BY <1>1, <1>2, <1>3, <1>4, <1>5, <1>6, <1>7

\* The instruction in exec1 is the same to both, with its operands.
LEMMA IssOperands ==
    ASSUME Inv, FlowInv, Common, phase = "commit", cpu.exec1.active
    PROVE  /\ I!inst = P!I!inst /\ I!Val0 = P!I!Val0 /\ I!Val1 = P!I!Val1
           /\ I!NextPc = P!I!NextPc
           /\ \A ops : I!Execute(ops) <=> P!I!Execute(ops)
           /\ \A r, v : I!SetReg(r, v) <=> P!I!SetReg(r, v)
<1>1. ArchPc = cpu.exec1.pc
  BY Instruction
<1>2. sram[ArchPc] = srami[ArchPc]
  BY <1>1 DEF Common, Halted
<1>3. I!inst = P!I!inst
  BY <1>2, IssWords, ArchIssWords DEF I!inst, P!I!inst, ArchPc
<1>4. I!NextPc = P!I!NextPc
  BY IssWords, ArchIssWords DEF I!NextPc, P!I!NextPc
<1>5. I!Val0 = P!I!Val0 /\ I!Val1 = P!I!Val1
  BY <1>3, IssWords, ArchIssWords DEF I!Val0, P!I!Val0, I!Val1, P!I!Val1
<1> QED BY <1>3, <1>4, <1>5 DEF I!Execute, P!I!Execute, I!SetReg, P!I!SetReg

\* A common instruction of the programmer's machine is one of the simulator.
LEMMA SameInstruction ==
    ASSUME Inv, FlowInv, Common, phase = "commit", cpu.exec1.active,
           P!Register, sram' = sram
    PROVE  I!Next
<1> DEFINE s == cpu.exec1
<1>1. /\ ArchPc = s.pc /\ ArchStatus = "running"
      /\ P!I!inst.opcode = s.opcode /\ P!I!inst.immediate = s.immediate
      /\ P!I!Val0 = cpu.exec1_alu[0]
      /\ P!I!NextPc = Low(s.pc + 1)
  BY Instruction
<1>2. /\ I!inst = P!I!inst /\ I!Val0 = P!I!Val0 /\ I!Val1 = P!I!Val1
      /\ I!NextPc = P!I!NextPc
      /\ \A ops : I!Execute(ops) <=> P!I!Execute(ops)
      /\ \A r, v : I!SetReg(r, v) <=> P!I!SetReg(r, v)
  BY IssOperands
<1>3. \/ s.opcode \in ArithOps \cup BranchOps \cup {LD, ST, HLT}
      \/ s.opcode = JIN /\ s.src0 = 1
  BY DEF Common, Halted
<1>4. P!I!ExecArith => I!ExecArith
  BY <1>2, IssWords, ArchIssWords DEF P!I!ExecArith, I!ExecArith
<1>5. P!ExecLd => I!ExecLd
  BY <1>2, IssWords, ArchWords DEF P!ExecLd, I!ExecLd
<1>6. P!I!ExecHlt => I!ExecHlt
  BY <1>2, IssWords, ArchIssWords DEF P!I!ExecHlt, I!ExecHlt
<1>7. ~P!ExecLhi
  BY <1>1, <1>3, ArchWords, Codes DEF P!ExecLhi, P!I!Execute
<1>8. CASE P!ExecJump
  <2>1. s.opcode \in {JIN} \cup BranchOps /\ s.opcode \in JumpOps
    BY <1>1, <1>3, <1>8, ArchWords, Codes DEF P!ExecJump, P!Jumps, P!I!Execute
  <2>2. Jumping
    BY <1>8, <2>1, JumpsTogether DEF P!ExecJump
  <2>3. s.pc # Height - 1
    BY <2>1, <2>2 DEF Common, Halted, Jumping, Retires
  <2>4. s.pc \in Addr
    <3>1. cpu \in CpuRegisters
      BY DEF Inv, TypeOK
    <3> QED BY <3>1, Held DEF Decoded
  <2>5. I!Link = ArchPc
    <3>1. s.pc + 1 \in Addr /\ s.pc \in Int
      BY <2>3, <2>4, Ranges DEF Addr
    <3>2. I!NextPc = s.pc + 1
      BY <1>1, <1>2, <3>1, LowType
    <3> QED BY <1>1, <3>1, <3>2 DEF I!Link
  <2>6. /\ I!SetReg(7, I!Link)
        /\ ArchPc' = Low(I!inst.immediate)
        /\ ArchStatus' = ArchStatus
    BY <1>2, <1>8, <2>5, ArchWords DEF P!ExecJump, ArchPc, ArchStatus
  <2>7. CASE s.opcode = JIN
    <3>1. I!Val0 = I!inst.immediate
      BY <1>1, <1>2, <1>3, <2>7, Codes DEF FlowInv, Flow, Results, Operand0
    <3>2. I!Execute({I!JIN})
      BY <1>1, <1>2, <2>7, IssWords DEF P!I!Execute, ArchStatus
    <3> QED BY <2>6, <3>1, <3>2, IssWords DEF I!ExecJin, I!Next, ArchPc, ArchStatus
  <2>8. CASE s.opcode \in BranchOps
    <3>1. I!Execute(I!BranchOps)
      BY <1>1, <1>2, <2>8, IssWords DEF P!I!Execute, ArchStatus
    <3>2. I!Taken(I!inst.opcode, I!Val0, I!Val1)
      <4>1. Taken(P!I!inst.opcode, P!I!Val0, P!I!Val1)
        BY <1>1, <1>8, <2>8, ArchWords, Codes DEF P!ExecJump, P!Jumps, P!I!Execute
      <4> QED BY <1>2, <4>1, IssWords
    <3> QED BY <2>6, <3>1, <3>2, IssWords DEF I!ExecBranch, I!Next, ArchPc, ArchStatus
  <2> QED BY <2>1, <2>7, <2>8
<1>9. CASE P!ExecNothing
  <2>1. P!I!Execute({P!DMP} \cup P!BranchOps) /\ ~P!Jumps
    <3>1. s.opcode \in (0 .. 6) \cup (16 .. 19) \cup {8, 9, 24, 20}
      BY <1>3, Codes
    <3>2. ~P!I!Execute({P!DMA})
      BY <1>1, <3>1, ArchWords, Codes DEF P!I!Execute
    <3>3. ~P!I!Execute((12 .. 15) \cup (21 .. 23) \cup (25 .. 31))
      BY <1>1, <3>1 DEF P!I!Execute
    <3> QED BY <1>9, <3>2, <3>3 DEF P!ExecNothing
  <2>2. s.opcode \in BranchOps
    BY <1>1, <1>3, <2>1, ArchWords, Codes DEF P!I!Execute
  <2>3. I!Execute(I!BranchOps)
    BY <1>1, <1>2, <2>2, IssWords DEF P!I!Execute, ArchStatus
  <2>4. ~I!Taken(I!inst.opcode, I!Val0, I!Val1)
    <3>1. ~Taken(P!I!inst.opcode, P!I!Val0, P!I!Val1)
      BY <1>1, <2>1, <2>2, ArchWords DEF P!Jumps, P!I!Execute, ArchStatus
    <3> QED BY <1>2, <3>1, IssWords
  <2> QED BY <1>2, <1>9, <2>3, <2>4 DEF P!ExecNothing, I!ExecBranch, I!Next
<1> QED BY <1>4, <1>5, <1>6, <1>7, <1>8, <1>9 DEF P!Register, P!ExecHlt, I!Next

\* Every step of a common program is a step of the simulator.
LEMMA IssStep ==
    ASSUME Inv, FlowInv, Common, EngineFree, E!TurnInv, [Next]_vars
    PROVE  [I!Next]_I!vars
<1>1. CASE ~Commit
  BY <1>1, ArchFrame DEF I!vars, ArchPc, ArchStatus
<1>2. CASE Commit
  <2>1. phase = "commit"
    BY <1>2, NextArch
  <2>2. ~P!S!Fetch /\ ~P!S!Write
    <3>1. ~P!S!Write
      BY FreeCopy DEF P!S!Write, Buf
    <3>2. ~P!S!Fetch
      BY FreeCopy DEF P!S!Fetch, Buf, Job
    <3> QED BY <3>1, <3>2
  <2>3. ~Asks
    BY <2>1, Codes DEF Asks, StartsDma, Retires, Common, Halted
  <2>4. CASE Stores
    <3>1. P!ExecSt /\ cpu.exec1.active
      BY <1>2, <2>4, StoreStep DEF Stores, Retires
    <3>2. I!ExecSt
      <4>1. /\ I!Val0 = P!I!Val0 /\ I!Val1 = P!I!Val1 /\ I!NextPc = P!I!NextPc
            /\ I!Execute({I!ST}) <=> P!I!Execute({P!ST})
        BY <2>1, <3>1, IssOperands, IssWords, ArchWords
      <4>2. I!Low(I!Val1) = P!I!Val1
        BY <3>1, <4>1, IssWords, ArchWords, LowType DEF P!ExecSt
      <4> QED BY <3>1, <4>1, <4>2 DEF P!ExecSt, I!ExecSt
    <3> QED BY <3>2 DEF I!Next
  <2>5. CASE ~Stores
    <3>1. ~Retires({ST}) /\ ~StartsDma /\ sram' = sram
      BY <1>2, <2>2, <2>3, <2>5, CommitCases DEF Rests
    <3>2. \/ P!Register
          \/ UNCHANGED <<cpu.r, ArchPc, ArchStatus, Dumped>>
      BY <1>2, <3>1, RegisterStep
    <3>3. CASE ~cpu.exec1.active
      <4>1. ~Retires({HLT}) /\ Assigned = cpu.r
        BY <3>3 DEF Retires, Jumping, Assigned
      <4>2. UNCHANGED <<cpu.r, ArchPc, ArchStatus>>
        BY <1>2, <2>1, <3>3, <4>1, NextArch DEF ArchStatus, Halted
      <4> QED BY <3>1, <4>2 DEF I!vars, ArchPc, ArchStatus
    <3>4. CASE cpu.exec1.active /\ P!Register
      BY <2>1, <3>1, <3>4, SameInstruction
    <3>5. CASE UNCHANGED <<cpu.r, ArchPc, ArchStatus, Dumped>>
      BY <3>1, <3>5 DEF I!vars, ArchPc, ArchStatus
    <3> QED BY <3>2, <3>3, <3>4, <3>5
  <2> QED BY <2>4, <2>5
<1> QED BY <1>1, <1>2

(***************************************************************************)
(* And it implements the instruction set simulator of the first lab in     *)
(* every run of a regular program of the common instruction set.           *)
(***************************************************************************)
THEOREM PipelineImplementsIss == Spec /\ []Regular /\ []Common => ImplementsIss
<1>1. Init => I!Init
  <2> SUFFICES ASSUME Init PROVE I!Init
    OBVIOUS
  <2>1. /\ cpu.r = [r \in 0 .. 7 |-> 0] /\ OldestPc = 0 /\ ~Halted
        /\ sram \in [Addr -> Word]
    BY ImagesAssumption
       DEF Init, D!Init, ResetRegisters, EmptyStage, OldestPc, Halted
  <2>2. Low(OldestPc) = 0
    <3>1. Low(0) = 0
      BY AddrType, LowType
    <3> QED BY <2>1, <3>1
  <2> QED BY <2>1, <2>2, IssWords DEF I!Init
<1>2. Inv /\ FlowInv /\ Common /\ EngineFree /\ E!TurnInv /\ [Next]_vars
      => [I!Next]_I!vars
  BY IssStep
<1>3. Spec => []E!TurnInv
  <2>1. E!Spec => []E!TurnInv
    BY E!TurnInvariant, EngineAssumptions
  <2> QED BY <2>1, PipelineDrivesEngine
<1> QED BY <1>1, <1>2, <1>3, Invariant, FlowInvariant, EngineStaysFree, PTL
    DEF Spec, ImplementsIss, I!Spec

-----------------------------------------------------------------------------
(***************************************************************************)
(* Programs whose text keeps every run regular.  Four facts about the      *)
(* pipeline turn conditions on its stages into conditions on the text:     *)
(* where the bubbles are, what the buffer can have predicted, which load   *)
(* the bypass still holds, and which addresses the program comes to.       *)
(***************************************************************************)
\* An instruction with a prediction, though it is no jump.
Misled(s) == s.opcode \notin JumpOps /\ s.btb.taken = 1

\* A bubble ahead of the fetches is behind such an instruction.
Gaps(c) ==
    /\ c.dec1.active /\ ~c.dec0.active => Misled(c.dec1) /\ ~c.fetch1.active
    /\ c.exec0.active /\ ~c.dec1.active => Misled(c.exec0) /\ ~c.dec0.active
    /\ c.exec1.active /\ ~c.exec0.active => ~c.dec1.active

\* A prediction was made by a jump that shares the entry.
Learnt(code, p, a) ==
    p.taken = 1 => \E j \in SharedBy(code, a) : p.target = At(code, j).immediate

\* Every prediction in the pipe was.
Learned(c, code) ==
    /\ c.fetch1.active => Learnt(code, c.fetch1.btb, c.fetch1.pc)
    /\ c.dec0.active => Learnt(code, c.dec0.btb, c.dec0.pc)
    /\ c.dec1.active => Learnt(code, c.dec1.btb, c.dec1.pc)
    /\ c.exec0.active => Learnt(code, c.exec0.btb, c.exec0.pc)
    /\ c.exec1.active => Learnt(code, c.exec1.btb, c.exec1.pc)

\* So was every one in the buffer.
BtbLearned == \A a \in Int : Learnt(srami, BtbEntry(a), a)

\* The load that the bypass holds is the instruction that retired last.
LoadBehind(c, code) ==
    c.mem_stall => /\ FromExec1(c) - 1 \in Reachable(code)
                   /\ Loads(code, FromExec1(c) - 1, c.mem_dst)

\* The program goes on at an address it may come to.
Reaches(c, code) == FromExec1(c) \in Addr => FromExec1(c) \in Reachable(code)

\* The third part of the inductive invariant, for scheduled programs.
TextInv ==
    /\ BtbLearned
    /\ Gaps(cpu) /\ Learned(cpu, srami) /\ LoadBehind(cpu, srami)
    /\ Gaps(cpun) /\ Learned(cpun, srami) /\ LoadBehind(cpun, srami)
    /\ ~Halted => Reaches(cpu, srami)
    /\ ~stop_sim => Reaches(cpun, srami)

-----------------------------------------------------------------------------
(***************************************************************************)
(* The conditions on the text are those on the run.                        *)
(***************************************************************************)
\* A program may come to address 0, and from there to where it goes on.
LEMMA ReachableIsClosed ==
    ASSUME NEW code
    PROVE  /\ Reachable(code) \subseteq Addr /\ 0 \in Reachable(code)
           /\ \A a \in Reachable(code), b \in Addr :
                 GoesOn(code, a, b) => b \in Reachable(code)
<1>1. 0 \in Addr
  BY AddrType
<1> QED BY <1>1 DEF Reachable, Closed

\* The instruction memory is never written.
LEMMA TextStays ==
    ASSUME srami' = srami
    PROVE  Reachable(srami)' = Reachable(srami)
BY DEF Reachable, Closed, GoesOn, IsJump, At

\* The instruction of a stage is that of its address.
LEMMA StageIsText ==
    ASSUME NEW s, NEW code, IsDecoded(s, code[s.pc])
    PROVE  /\ s.opcode = At(code, s.pc).opcode /\ s.dst = At(code, s.pc).dst
           /\ s.src0 = At(code, s.pc).src0 /\ s.src1 = At(code, s.pc).src1
           /\ s.immediate = At(code, s.pc).immediate
           /\ Src1(s) = Src1(At(code, s.pc)) /\ Reads(s) = Reads(At(code, s.pc))
           /\ IsJump(code, s.pc) <=> s.opcode \in JumpOps
BY DEF IsDecoded, At, Src1, Reads, IsJump

\* What follows an instruction in the pipe may follow it in the text.
LEMMA SuccessorFollows ==
    ASSUME NEW s, NEW code, IsDecoded(s, code[s.pc]), Learnt(code, s.btb, s.pc)
    PROVE  /\ MayFollow(code, s.pc, Successor(s))
           /\ s.opcode \notin JumpOps => Successor(s) = s.pc + 1
<1>1. IsJump(code, s.pc) <=> s.opcode \in JumpOps
  BY StageIsText
<1> QED BY <1>1 DEF Successor, Predicted, Learnt, MayFollow

\* A misled instruction can be mistaken for a jump.
LEMMA MisledIsMistakable ==
    ASSUME NEW s, NEW code, IsDecoded(s, code[s.pc]), Learnt(code, s.btb, s.pc),
           Misled(s)
    PROVE  Mistakable(code, s.pc)
<1>1. IsJump(code, s.pc) <=> s.opcode \in JumpOps
  BY StageIsText
<1> QED BY <1>1 DEF Mistakable, Misled, Learnt

\* The instructions in the three last stages, and their order.
LEMMA InPipe ==
    ASSUME Inv, FlowInv, TextInv, Scheduled(srami), ~stop_sim
    PROVE  LET e1 == cpu.exec1
               e0 == cpu.exec0
               d1 == cpu.dec1
           IN  /\ e1.active => /\ e1.pc \in Addr /\ IsDecoded(e1, srami[e1.pc])
                               /\ ScheduledAt(srami, e1.pc)
                               /\ At(srami, e1.pc) = Decode(srami[e1.pc])
                               /\ Learnt(srami, e1.btb, e1.pc)
               /\ e0.active => /\ e0.pc \in Addr /\ IsDecoded(e0, srami[e0.pc])
                               /\ Learnt(srami, e0.btb, e0.pc)
               /\ d1.active => /\ d1.pc \in Addr /\ IsDecoded(d1, srami[d1.pc])
                               /\ Learnt(srami, d1.btb, d1.pc)
               /\ e1.active /\ e0.active => e0.pc = Successor(e1)
               /\ e1.active /\ d1.active => e0.active
               /\ e0.active /\ d1.active =>
                     /\ d1.pc = Successor(e0)
                     /\ MayFollow(srami, e0.pc, d1.pc)
               /\ e1.dst \in 0 .. 7 /\ e1.opcode \in 0 .. 31
<1>1. /\ cpu.exec1 \in Decoded /\ cpu.exec0 \in Decoded /\ cpu.dec1 \in Decoded
  BY Held DEF Inv, TypeOK
<1>2. /\ cpu.exec1.pc \in Addr /\ cpu.exec0.pc \in Addr /\ cpu.dec1.pc \in Addr
      /\ cpu.exec1.dst \in 0 .. 7 /\ cpu.exec1.opcode \in 0 .. 31
  BY <1>1 DEF Decoded
<1>3. Text(cpu, srami) /\ Path(cpu)
  BY DEF FlowInv, Flow
<1>4. cpu.exec1.active => ScheduledAt(srami, cpu.exec1.pc)
  BY <1>2 DEF TextInv, Reaches, FromExec1, Halted, Scheduled
<1>5. Learned(cpu, srami) /\ Gaps(cpu)
  BY DEF TextInv
<1>6. /\ cpu.exec1.active /\ cpu.exec0.active => cpu.exec0.pc = Successor(cpu.exec1)
      /\ cpu.exec0.active /\ cpu.dec1.active => cpu.dec1.pc = Successor(cpu.exec0)
  BY <1>3 DEF Path, FromExec0, FromDec1
<1>7. cpu.exec0.active => MayFollow(srami, cpu.exec0.pc, Successor(cpu.exec0))
  BY <1>3, <1>5, SuccessorFollows DEF Text, Learned
<1>8. cpu.exec1.active /\ cpu.dec1.active => cpu.exec0.active
  BY <1>5 DEF Gaps
<1> QED BY <1>2, <1>3, <1>4, <1>5, <1>6, <1>7, <1>8 DEF Text, Learned, At

\* A jump or a result nobody writes back names no register read close behind.
LEMMA OfferedIsWritten ==
    ASSUME Inv, FlowInv, TextInv, Scheduled(srami), ~stop_sim,
           cpu.exec1.active, cpu.exec1.dst \in Uses(cpu.exec0) \cup Uses(cpu.dec1)
    PROVE  cpu.exec1.opcode \in ArithOps \cup {LHI, LD}
<1> DEFINE a == cpu.exec1.pc
<1>1. /\ a \in Addr /\ IsDecoded(cpu.exec1, srami[a]) /\ ScheduledAt(srami, a)
      /\ cpu.exec1.dst \in 0 .. 7
  BY InPipe
<1>2. SUFFICES ASSUME cpu.exec1.opcode \notin ArithOps \cup {LHI, LD} PROVE FALSE
  OBVIOUS
<1>3. cpu.exec1.dst > 1
  BY <1>1 DEF Uses, Reads
<1>4. At(srami, a).dst = cpu.exec1.dst /\ At(srami, a).opcode = cpu.exec1.opcode
  BY <1>1, StageIsText
<1>5. \A b \in Addr : MayFollow(srami, a, b) =>
         /\ cpu.exec1.dst \notin Reads(At(srami, b))
         /\ \A c \in Addr :
               MayFollow(srami, b, c) => cpu.exec1.dst \notin Reads(At(srami, c))
  BY <1>1, <1>2, <1>3, <1>4 DEF ScheduledAt
<1>6. cpu.exec0.active => /\ cpu.exec0.pc \in Addr /\ MayFollow(srami, a, cpu.exec0.pc)
                          /\ Reads(cpu.exec0) = Reads(At(srami, cpu.exec0.pc))
  BY InPipe, SuccessorFollows, StageIsText
<1>7. cpu.dec1.active => /\ cpu.exec0.active
                         /\ cpu.dec1.pc \in Addr
                         /\ MayFollow(srami, cpu.exec0.pc, cpu.dec1.pc)
                         /\ Reads(cpu.dec1) = Reads(At(srami, cpu.dec1.pc))
  BY InPipe, StageIsText
<1> QED BY <1>5, <1>6, <1>7 DEF Uses

\* r7 is not read at the target of a jump, nor right behind it.
LEMMA LinkIsNotRead ==
    ASSUME Inv, FlowInv, TextInv, Scheduled(srami), ~stop_sim,
           Retires(JumpOps), cpu.exec1_aluout = 1, ~FlushNeeded
    PROVE  7 \notin Uses(cpu.exec0) \cup Uses(cpu.dec1)
<1> DEFINE t == cpu.exec1.immediate
<1>1. /\ cpu.exec1.active /\ cpu.exec1.opcode \in JumpOps
      /\ IsDecoded(cpu.exec1, srami[cpu.exec1.pc])
      /\ ScheduledAt(srami, cpu.exec1.pc)
  BY InPipe DEF Retires
<1>2. /\ At(srami, cpu.exec1.pc).immediate = t /\ IsJump(srami, cpu.exec1.pc)
  BY <1>1, StageIsText
<1>3. t \in Addr => \A b \in Addr : b = t \/ MayFollow(srami, t, b)
                                      => 7 \notin Reads(At(srami, b))
  BY <1>1, <1>2 DEF ScheduledAt
<1>4. Successor(cpu.exec1) = t
  BY <1>1 DEF Successor, Predicted, FlushNeeded
<1>5. cpu.exec0.active => /\ cpu.exec0.pc = t /\ t \in Addr
                          /\ Reads(cpu.exec0) = Reads(At(srami, t))
  BY <1>1, <1>4, InPipe, StageIsText
<1>6. cpu.dec1.active => /\ cpu.exec0.active /\ MayFollow(srami, t, cpu.dec1.pc)
                         /\ cpu.dec1.pc \in Addr
                         /\ Reads(cpu.dec1) = Reads(At(srami, cpu.dec1.pc))
  BY <1>1, <1>5, InPipe, StageIsText
<1> QED BY <1>3, <1>5, <1>6 DEF Uses

\* LHI, DMA and DMP find no word on the bypasses.
LEMMA BypassIsIdle ==
    ASSUME Inv, FlowInv, TextInv, Scheduled(srami), ~stop_sim,
           cpu.exec0.active, cpu.exec0.opcode \in {LHI, DMA, DMP}
    PROVE  ~Bypassed(cpu.exec0.src0)
<1> DEFINE a == cpu.exec0.pc
           r == cpu.exec0.src0
<1> SUFFICES ASSUME Bypassed(r) PROVE FALSE
  OBVIOUS
<1>1. /\ a \in Addr /\ IsDecoded(cpu.exec0, srami[a]) /\ r > 1
  BY InPipe DEF Bypassed
<1>2. At(srami, a).opcode \in {LHI, DMA, DMP} /\ At(srami, a).src0 = r
  BY <1>1, StageIsText
<1>3. ASSUME NEW b \in Addr, ScheduledAt(srami, b), MayFollow(srami, b, a)
      PROVE  /\ At(srami, b).dst # r
             /\ b - 1 \in Addr => ~Loads(srami, b - 1, r)
  BY <1>1, <1>2, <1>3 DEF ScheduledAt
<1>4. CASE cpu.exec1.active
  <2> DEFINE b == cpu.exec1.pc
  <2>1. /\ b \in Addr /\ IsDecoded(cpu.exec1, srami[b]) /\ ScheduledAt(srami, b)
        /\ Learnt(srami, cpu.exec1.btb, b) /\ a = Successor(cpu.exec1)
    BY <1>4, InPipe
  <2>2. MayFollow(srami, b, a)
    BY <2>1, SuccessorFollows
  <2>3. At(srami, b).dst # r /\ (b - 1 \in Addr => ~Loads(srami, b - 1, r))
    BY <1>3, <2>1, <2>2
  <2>4. r # cpu.exec1.dst
    BY <2>1, <2>3, StageIsText
  <2>5. cpu.mem_stall => b - 1 \in Addr /\ Loads(srami, b - 1, cpu.mem_dst)
    BY <1>4, ReachableIsClosed DEF TextInv, LoadBehind, FromExec1
  <2> QED BY <2>3, <2>4, <2>5 DEF Bypassed
<1>5. CASE ~cpu.exec1.active
  <2>1. cpu.mem_stall /\ r = cpu.mem_dst
    BY <1>5 DEF Bypassed
  <2>2. FromExec1(cpu) = a
    BY <1>5 DEF FromExec1, FromExec0
  <2>3. a - 1 \in Reachable(srami) /\ Loads(srami, a - 1, r)
    BY <2>1, <2>2 DEF TextInv, LoadBehind
  <2>4. a - 1 \in Addr /\ ScheduledAt(srami, a - 1)
    BY <2>3, ReachableIsClosed DEF Scheduled
  <2>5. MayFollow(srami, a - 1, a)
    <3>1. a \in Int
      BY <1>1, AddrType
    <3>2. a = (a - 1) + 1
      BY <3>1
    <3> HIDE DEF a
    <3> QED BY <3>2 DEF MayFollow
  <2>6. At(srami, a - 1).dst # r
    BY <1>3, <2>4, <2>5
  <2> QED BY <2>3, <2>6 DEF Loads
<1> QED BY <1>4, <1>5

\* What a stall means for the text.
LEMMA StallWaits ==
    ASSUME Inv, FlowInv, TextInv, Scheduled(srami), ~stop_sim,
           is_pipe_stalled, cpu.exec0.active
    PROVE  LET a == cpu.exec1.pc
           IN  /\ cpu.exec1.active /\ a \in Addr
               /\ a + 1 \in Addr /\ cpu.exec0.pc = a + 1
               /\ Waits(srami, a) /\ ScheduledAt(srami, a)
               /\ At(srami, a).opcode = cpu.exec1.opcode
               /\ At(srami, a).dst = cpu.exec1.dst
               /\ Reads(cpu.exec0) = Reads(At(srami, a + 1))
<1> DEFINE a == cpu.exec1.pc
<1>1. /\ cpu.exec1.active /\ cpu.exec1.opcode \in {LD, ST}
  BY DEF is_pipe_stalled
<1>2. /\ a \in Addr /\ IsDecoded(cpu.exec1, srami[a]) /\ ScheduledAt(srami, a)
      /\ cpu.exec0.pc = Successor(cpu.exec1) /\ cpu.exec0.pc \in Addr
      /\ IsDecoded(cpu.exec0, srami[cpu.exec0.pc])
  BY <1>1, InPipe
<1>3. cpu.exec1.opcode \notin JumpOps
  BY <1>1 DEF JumpOps, BranchOps, LD, ST, JLT, JLE, JEQ, JNE, JIN, DMP
<1>4. cpu.exec0.pc = a + 1
  BY <1>2, <1>3 DEF Successor
<1>5. /\ At(srami, a).opcode = cpu.exec1.opcode /\ At(srami, a).dst = cpu.exec1.dst
  BY <1>2, StageIsText
<1>6. /\ At(srami, a + 1).opcode = cpu.exec0.opcode
      /\ At(srami, a + 1).src0 = cpu.exec0.src0
      /\ Src1(At(srami, a + 1)) = Src1(cpu.exec0)
      /\ Reads(At(srami, a + 1)) = Reads(cpu.exec0)
  BY <1>2, <1>4, StageIsText
<1>7. Waits(srami, a)
  BY <1>5, <1>6 DEF Waits, is_pipe_stalled
<1> QED BY <1>1, <1>2, <1>4, <1>5, <1>6, <1>7

\* No bubble comes behind an instruction that a stall holds.
LEMMA StallIsPacked ==
    ASSUME Inv, FlowInv, TextInv, Scheduled(srami), ~stop_sim, is_pipe_stalled
    PROVE  /\ cpu.exec0.active => cpu.dec1.active
           /\ cpu.dec1.active => cpu.dec0.active
<1>1. cpu.exec1.active /\ Gaps(cpu)
  BY DEF TextInv, is_pipe_stalled
<1>2. ASSUME cpu.exec0.active, ~cpu.dec1.active PROVE FALSE
  <2>1. Misled(cpu.exec0)
    BY <1>1, <1>2 DEF Gaps
  <2>2. Mistakable(srami, cpu.exec0.pc)
    BY <1>2, <2>1, InPipe, MisledIsMistakable
  <2>3. ~Mistakable(srami, cpu.exec0.pc)
    BY <1>2, StallWaits DEF ScheduledAt
  <2> QED BY <2>2, <2>3
<1>3. ASSUME cpu.dec1.active, ~cpu.dec0.active PROVE FALSE
  <2>1. Misled(cpu.dec1)
    BY <1>1, <1>3 DEF Gaps
  <2>2. /\ cpu.exec0.active /\ MayFollow(srami, cpu.exec0.pc, cpu.dec1.pc)
        /\ cpu.dec1.pc \in Addr /\ IsDecoded(cpu.dec1, srami[cpu.dec1.pc])
        /\ Learnt(srami, cpu.dec1.btb, cpu.dec1.pc)
    BY <1>1, <1>3, InPipe
  <2>3. Mistakable(srami, cpu.dec1.pc)
    BY <2>1, <2>2, MisledIsMistakable
  <2>4. ~Mistakable(srami, cpu.dec1.pc)
    BY <2>2, StallWaits DEF ScheduledAt
  <2> QED BY <2>3, <2>4
<1> QED BY <1>2, <1>3

\* A stall loses no word that the instruction it holds waits for.
LEMMA StallLosesNothing ==
    ASSUME Inv, FlowInv, TextInv, Scheduled(srami), ~stop_sim, is_pipe_stalled,
           cpu.mem_stall, cpu.mem_dst \in Uses(cpu.exec0)
    PROVE  cpu.exec1.opcode = LD /\ cpu.exec1.dst = cpu.mem_dst
<1> DEFINE a == cpu.exec1.pc
<1>1. cpu.exec0.active /\ cpu.mem_dst \in Reads(cpu.exec0)
  BY DEF Uses
<1>2. FromExec1(cpu) = a
  BY <1>1, StallWaits DEF FromExec1
<1>3. a - 1 \in Addr /\ Loads(srami, a - 1, cpu.mem_dst)
  BY <1>2, ReachableIsClosed DEF TextInv, LoadBehind
<1>4. Loads(srami, a, cpu.mem_dst)
  BY <1>1, <1>3, StallWaits DEF ScheduledAt
<1> QED BY <1>1, <1>4, StallWaits DEF Loads

\* A copy that a scheduled program asks for has one word or more.
LEMMA CopyHasWords ==
    ASSUME Inv, FlowInv, TextInv, Scheduled(srami), ~stop_sim, StartsDma
    PROVE  cpu.exec1_alu[1] > 0
<1>1. /\ cpu.exec1.active /\ cpu.exec1.opcode = DMA
  BY DEF StartsDma, Retires
<1>2. /\ IsDecoded(cpu.exec1, srami[cpu.exec1.pc]) /\ ScheduledAt(srami, cpu.exec1.pc)
  BY <1>1, InPipe
<1>3. cpu.exec1.src1 = 1 /\ cpu.exec1.immediate > 0
  BY <1>1, <1>2, StageIsText DEF ScheduledAt
<1>4. cpu.exec1_alu[1] = Operand1(cpu.exec1, cpu.r)
  BY <1>1 DEF FlowInv, Flow, Results
<1> QED BY <1>1, <1>3, <1>4 DEF Operand1, DMA, LHI

\* The text of a scheduled program keeps the machine regular.
LEMMA RegularByText ==
    ASSUME Inv, FlowInv, TextInv, Scheduled(srami)
    PROVE  Regular
BY OfferedIsWritten, LinkIsNotRead, BypassIsIdle, StallIsPacked, StallLosesNothing,
   CopyHasWords DEF Regular

-----------------------------------------------------------------------------
(***************************************************************************)
(* Every step keeps bubbles, predictions and the load.                     *)
(***************************************************************************)
\* The buffer learns from the jumps that retire.
LEMMA BtbLearns ==
    ASSUME Inv, FlowInv, TextInv, ~stop_sim, UpdateBtb, srami' = srami
    PROVE  BtbLearned'
<1> DEFINE i == cpu.exec1.pc % BtbSize
           new == IF cpu.exec1.opcode \in JumpOps
                    THEN [taken |-> cpu.exec1_aluout, target |-> cpu.exec1.immediate]
                    ELSE [btb[i] EXCEPT !.taken = 0]
<1> SUFFICES ASSUME NEW a \in Int PROVE Learnt(srami, btb'[a % BtbSize], a)
  BY TextStays DEF BtbLearned, BtbEntry, Learnt, SharedBy, IsJump, At
<1>1. Learnt(srami, btb[a % BtbSize], a)
  BY DEF TextInv, BtbLearned, BtbEntry
<1>2. CASE ~cpu.exec1.active
  BY <1>1, <1>2 DEF UpdateBtb
<1>3. CASE cpu.exec1.active
  <2>1. /\ btb \in [0 .. BtbSize - 1 -> Prediction] /\ cpu.exec1 \in Decoded
    BY Held DEF Inv, TypeOK
  <2>2. cpu.exec1.pc \in Addr /\ cpu.exec1.pc \in Int
    BY <2>1, AddrType DEF Decoded
  <2>3. i \in 0 .. BtbSize - 1 /\ a % BtbSize \in 0 .. BtbSize - 1
    BY <2>2, BtbSizeAssumption
  <2>4. btb' = [btb EXCEPT ![i] = new]
    BY <1>3 DEF UpdateBtb
  <2>5. CASE a % BtbSize # i
    <3> HIDE DEF i, new
    <3>1. btb'[a % BtbSize] = btb[a % BtbSize]
      BY <2>1, <2>3, <2>4, <2>5
    <3> QED BY <1>1, <3>1
  <2>6. CASE a % BtbSize = i
    <3>1. btb'[a % BtbSize] = new
      <4> HIDE DEF i, new
      <4> QED BY <2>1, <2>3, <2>4, <2>6
    <3>2. CASE cpu.exec1.opcode \in JumpOps
      <4>1. IsDecoded(cpu.exec1, srami[cpu.exec1.pc])
        BY <1>3 DEF FlowInv, Flow, Text
      <4>2. /\ At(srami, cpu.exec1.pc).immediate = cpu.exec1.immediate
            /\ IsJump(srami, cpu.exec1.pc)
        BY <3>2, <4>1, StageIsText
      <4>3. cpu.exec1.pc \in SharedBy(srami, a)
        <5>1. cpu.exec1.pc \in Reachable(srami)
          BY <1>3, <2>2 DEF TextInv, Reaches, FromExec1, Halted
        <5> QED BY <2>2, <2>6, <4>2, <5>1 DEF SharedBy
      <4>4. new.target = cpu.exec1.immediate
        BY <3>2
      <4> HIDE DEF new
      <4> QED BY <3>1, <4>2, <4>3, <4>4 DEF Learnt
    <3>3. CASE cpu.exec1.opcode \notin JumpOps
      <4>1. btb[i] \in Prediction
        BY <2>1, <2>3
      <4>2. new.taken = 0
        BY <3>3, <4>1 DEF Prediction
      <4> HIDE DEF new
      <4> QED BY <3>1, <4>2 DEF Learnt
    <3> QED BY <3>2, <3>3
  <2> QED BY <2>5, <2>6
<1> QED BY <1>2, <1>3

\* The predictions go with the instructions.
LEMMA TurnKeepsLearned ==
    ASSUME Inv, FlowInv, TextInv, sp_ctl
    PROVE  Learned(cpun', srami)
<1> DEFINE m == cpun'
<1>1. Learned(cpu, srami)
  BY DEF TextInv
<1>2. CASE Flushing
  BY <1>2, TurnMoves DEF Flushed, Learned
<1>3. CASE ~Flushing /\ is_pipe_stalled
  <2>1. HeldBack(m)
    BY <1>3, TurnMoves
  <2> QED BY <1>1, <2>1 DEF HeldBack, SameExec0, SameFetch1, Learned
<1>4. CASE ~Flushing /\ ~is_pipe_stalled
  <2>1. MovedOn(m)
    BY <1>4, TurnMoves
  <2>2. Learnt(srami, BtbEntry(cpu.fetch0.pc), cpu.fetch0.pc)
    <3>1. cpu.fetch0.pc \in Int
      BY Held DEF Inv, TypeOK, Fetching
    <3> QED BY <3>1 DEF TextInv, BtbLearned
  <2>3. DecodedInst.pc = cpu.dec0.pc /\ DecodedInst.btb = cpu.dec0.btb
    BY DEF DecodedInst
  <2> HIDE DEF DecodedInst
  <2>4. m.fetch1.active => Learnt(srami, m.fetch1.btb, m.fetch1.pc)
    BY <1>1, <2>1, <2>2 DEF MovedOn, Fetching1, SameFetch1, Learned
  <2>5. m.dec0.active => Learnt(srami, m.dec0.btb, m.dec0.pc)
    BY <1>1, <2>1 DEF MovedOn, Fetching1, Learned
  <2>6. /\ m.dec1.active => Learnt(srami, m.dec1.btb, m.dec1.pc)
        /\ m.exec0.active => Learnt(srami, m.exec0.btb, m.exec0.pc)
        /\ m.exec1.active => Learnt(srami, m.exec1.btb, m.exec1.pc)
    BY <1>1, <2>1, <2>3 DEF MovedOn, Learned
  <2> QED BY <2>4, <2>5, <2>6 DEF Learned
<1> QED BY <1>2, <1>3, <1>4

\* A bubble comes of a wrong prediction, and moves on with it.
LEMMA TurnKeepsGaps ==
    ASSUME Inv, FlowInv, TextInv, Regular, sp_ctl
    PROVE  Gaps(cpun')
<1> DEFINE m == cpun'
<1>1. Gaps(cpu) /\ Path(cpu)
  BY DEF TextInv, FlowInv, Flow
<1>2. CASE Flushing
  BY <1>2, TurnMoves DEF Flushed, Gaps
<1>3. CASE ~Flushing /\ is_pipe_stalled
  <2>1. HeldBack(m)
    BY <1>3, TurnMoves
  <2>2. /\ cpu.exec0.active => cpu.dec1.active
        /\ cpu.dec1.active => cpu.dec0.active
        /\ cpu.dec0.active => cpu.fetch1.active
    <3>1. phase = "ctl" /\ ~stop_sim
      BY Turned DEF Turn
    <3> QED BY <1>1, <1>3, <3>1 DEF Regular, Path
  <2> QED BY <2>1, <2>2 DEF HeldBack, SameExec0, Gaps
<1>4. CASE ~Flushing /\ ~is_pipe_stalled
  <2>1. MovedOn(m)
    BY <1>4, TurnMoves
  <2>2. /\ DecodedInst.active /\ DecodedInst.btb = cpu.dec0.btb
        /\ DecodedInst.opcode = Decode(cpu.dec0.inst).opcode
    BY DEF DecodedInst
  <2>3. WronglyPredicted => Misled(DecodedInst) /\ cpu.dec0.active
    BY <2>2 DEF WronglyPredicted, Misled
  <2> HIDE DEF DecodedInst, WronglyPredicted
  <2>4. m.dec1.active /\ ~m.dec0.active => Misled(m.dec1) /\ ~m.fetch1.active
    BY <1>1, <2>1, <2>3 DEF MovedOn, Fetching1, Path
  <2>5. m.exec0.active /\ ~m.dec1.active => Misled(m.exec0) /\ ~m.dec0.active
    BY <1>1, <2>1, <2>2, <2>3 DEF MovedOn, Fetching1, Gaps
  <2>6. m.exec1.active /\ ~m.exec0.active => ~m.dec1.active
    BY <1>1, <2>1 DEF MovedOn, Gaps
  <2> QED BY <2>4, <2>5, <2>6 DEF Gaps
<1> QED BY <1>2, <1>3, <1>4

\* The bypass holds the load that retires, and the program goes on behind it.
LEMMA TurnKeepsLoad ==
    ASSUME Inv, FlowInv, TextInv, Regular, sp_ctl
    PROVE  /\ LoadBehind(cpun', srami)
           /\ ~stop_sim' => Reaches(cpun', srami)
<1>1. FromExec1(cpun') = IF cpu.exec1.active THEN NextAddress ELSE FromExec1(cpu)
  BY TurnKeepsPath DEF FlowInv, Flow
<1>2. ~stop_sim /\ Reaches(cpu, srami) /\ LoadBehind(cpu, srami)
  BY Turned DEF Turn, TextInv, Halted
<1>3. CASE ~cpu.exec1.active
  BY <1>1, <1>2, <1>3, TurnMoves DEF LoadBehind, Reaches
<1>4. CASE cpu.exec1.active
  <2> DEFINE a == cpu.exec1.pc
  <2>1. a \in Addr /\ a \in Int /\ a \in Reachable(srami)
    <3>1. a \in Addr
      BY Held DEF Inv, TypeOK, Decoded
    <3> QED BY <1>2, <1>4, <3>1, AddrType DEF Reaches, FromExec1
  <2>2. /\ At(srami, a).opcode = cpu.exec1.opcode /\ At(srami, a).dst = cpu.exec1.dst
        /\ At(srami, a).immediate = cpu.exec1.immediate
        /\ IsJump(srami, a) <=> cpu.exec1.opcode \in JumpOps
    BY <1>4, StageIsText DEF FlowInv, Flow, Text
  <2>3. cpun'.mem_stall => /\ FromExec1(cpun') - 1 = a
                           /\ Loads(srami, a, cpun'.mem_dst)
    <3> SUFFICES ASSUME cpun'.mem_stall
                 PROVE  /\ FromExec1(cpun') - 1 = a
                        /\ Loads(srami, a, cpun'.mem_dst)
      OBVIOUS
    <3>1. cpu.exec1.opcode = LD /\ cpun'.mem_dst = cpu.exec1.dst
      BY <1>4, TurnMoves DEF Retires
    <3>2. NextAddress = a + 1
      BY <3>1 DEF NextAddress, Jumping, Retires, JumpOps, BranchOps, LD, JLT, JLE,
         JEQ, JNE, JIN, DMP
    <3>3. FromExec1(cpun') - 1 = a
      BY <1>1, <1>4, <2>1, <3>2
    <3> QED BY <2>2, <3>1, <3>3 DEF Loads
  <2>4. ~stop_sim' => GoesOn(srami, a, NextAddress)
    <3> SUFFICES ASSUME ~stop_sim' PROVE GoesOn(srami, a, NextAddress)
      OBVIOUS
    <3>1. cpu.exec1.opcode # HLT
      BY <1>4 DEF sp_ctl, Compute, StartDma, StartsDma, Halt, Retires, DMA, HLT
    <3>2. cpu.exec1.opcode = JIN => Jumping
      BY <1>4 DEF FlowInv, Flow, Results, Jumping, Retires, JumpOps
    <3> QED BY <2>2, <3>1, <3>2 DEF GoesOn, NextAddress, Jumping, Retires
  <2>5. ~stop_sim' => Reaches(cpun', srami)
    BY <1>1, <1>4, <2>1, <2>4, ReachableIsClosed DEF Reaches
  <2> QED BY <2>1, <2>3, <2>5 DEF LoadBehind
<1> QED BY <1>3, <1>4

\* The empty pipe and the empty buffer have it.
LEMMA TextInit == Init => TextInv
<1> SUFFICES ASSUME Init PROVE TextInv
  OBVIOUS
<1>1. cpu = ResetRegisters /\ cpun = ResetRegisters
  BY DEF Init
<1>2. BtbLearned
  <2> SUFFICES ASSUME NEW a \in Int PROVE Learnt(srami, BtbEntry(a), a)
    BY DEF BtbLearned
  <2>1. a % BtbSize \in 0 .. BtbSize - 1
    BY BtbSizeAssumption
  <2>2. BtbEntry(a) = NoPrediction
    BY <2>1 DEF Init, BtbEntry
  <2> QED BY <2>2 DEF NoPrediction, Learnt
<1>3. Reaches(ResetRegisters, srami)
  BY ReachableIsClosed DEF Reaches, ResetRegisters, EmptyStage, FromExec1, FromExec0,
     FromDec1, FromDec0, FromFetch1
<1> QED BY <1>1, <1>2, <1>3
        DEF ResetRegisters, EmptyStage, TextInv, Gaps, Learned, LoadBehind

\* Every step keeps it, if the text is scheduled.
LEMMA TextStep ==
    ASSUME Inv, FlowInv, TextInv, Scheduled(srami), [Next]_vars
    PROVE  TextInv'
<1>s. srami' = srami
  BY DEF Next, sp_ctl, Compute, StartDma, Halt, Turn, dma_ctl, Commit, CommitFault,
     FetchFault, Stopped, vars
<1>t. Reachable(srami)' = Reachable(srami)
  BY <1>s, TextStays
<1>u. dma_ctl \/ CommitFault \/ FetchFault \/ Stopped \/ UNCHANGED vars
        => stop_sim' = stop_sim /\ (Halted' <=> Halted)
  BY EngineTurn DEF Halted, CommitFault, D!CommitFault, D!CommitFrame, FetchFault,
     Stopped, vars
<1>1. CASE sp_ctl
  <2>1. UpdateBtb /\ cpu' = cpu /\ ~stop_sim
    BY <1>1, Turned DEF Turn
  <2>2. /\ Gaps(cpun') /\ Learned(cpun', srami) /\ LoadBehind(cpun', srami)
        /\ ~stop_sim' => Reaches(cpun', srami)
    BY <1>1, RegularByText, TurnKeepsGaps, TurnKeepsLearned, TurnKeepsLoad
  <2>3. BtbLearned'
    BY <1>s, <2>1, BtbLearns
  <2> USE DEF Gaps, Learned, LoadBehind, Reaches, FromFetch1, FromDec0, FromDec1,
              FromExec0, FromExec1, Learnt, SharedBy, IsJump, At, Misled, Loads
  <2>4. /\ Gaps(cpun)' /\ Learned(cpun, srami)' /\ LoadBehind(cpun, srami)'
        /\ (~stop_sim => Reaches(cpun, srami))'
    BY <1>s, <1>t, <2>2
  <2>5. /\ Gaps(cpu)' /\ Learned(cpu, srami)' /\ LoadBehind(cpu, srami)'
        /\ Reaches(cpu, srami)'
    BY <1>s, <1>t, <2>1 DEF TextInv, Halted
  <2> QED BY <2>3, <2>4, <2>5 DEF TextInv
<1> USE DEF Gaps, Learned, LoadBehind, Reaches, FromFetch1, FromDec0, FromDec1,
            FromExec0, FromExec1, Learnt, SharedBy, IsJump, At, Misled, Loads
<1>2. CASE dma_ctl \/ CommitFault \/ FetchFault \/ Stopped \/ UNCHANGED vars
  <2>1. UNCHANGED <<cpu, cpun, btb>>
    BY <1>2 DEF dma_ctl, CommitFault, FetchFault, Stopped, vars
  <2>2. BtbLearned'
    BY <1>s, <1>t, <2>1 DEF TextInv, BtbLearned, BtbEntry
  <2>3. /\ Gaps(cpu)' /\ Learned(cpu, srami)' /\ LoadBehind(cpu, srami)'
        /\ (~Halted => Reaches(cpu, srami))'
    BY <1>s, <1>t, <1>2, <1>u, <2>1 DEF TextInv
  <2>4. /\ Gaps(cpun)' /\ Learned(cpun, srami)' /\ LoadBehind(cpun, srami)'
        /\ (~stop_sim => Reaches(cpun, srami))'
    BY <1>s, <1>t, <1>2, <1>u, <2>1 DEF TextInv
  <2> HIDE DEF Gaps, Learned, LoadBehind, Reaches
  <2> QED BY <2>2, <2>3, <2>4 DEF TextInv
<1>3. CASE Commit
  <2>1. /\ cpu' = cpun /\ cpun' = cpun /\ btb' = btb
        /\ stop_sim' = stop_sim /\ phase' = "ctl"
    BY <1>3 DEF Commit, D!Commit, D!CommitFrame
  <2>2. BtbLearned'
    BY <1>s, <1>t, <2>1 DEF TextInv, BtbLearned, BtbEntry
  <2>3. /\ Gaps(cpu)' /\ Learned(cpu, srami)' /\ LoadBehind(cpu, srami)'
        /\ (~Halted => Reaches(cpu, srami))'
    BY <1>s, <1>t, <2>1 DEF TextInv, Halted
  <2>4. /\ Gaps(cpun)' /\ Learned(cpun, srami)' /\ LoadBehind(cpun, srami)'
        /\ (~stop_sim => Reaches(cpun, srami))'
    BY <1>s, <1>t, <2>1 DEF TextInv
  <2> HIDE DEF Gaps, Learned, LoadBehind, Reaches
  <2> QED BY <2>2, <2>3, <2>4 DEF TextInv
<1> QED BY <1>1, <1>2, <1>3 DEF Next

-----------------------------------------------------------------------------
(***************************************************************************)
(* Scheduled programs.                                                     *)
(***************************************************************************)
(* The conditions on the run follow from conditions on the program text    *)
(* alone: whatever a scheduled program meets, stalls, wrong predictions,   *)
(* copies beside it, every state of it is regular.                         *)
THEOREM ScheduledIsRegular == Spec /\ Scheduled(srami) => []Regular
<1>1. Inv /\ FlowInv /\ TextInv /\ Scheduled(srami) => Regular
  BY RegularByText
<1>2. Inv /\ FlowInv /\ TextInv /\ Scheduled(srami) /\ [Next]_vars
        => FlowInv' /\ TextInv' /\ Scheduled(srami)'
  <2> SUFFICES ASSUME Inv, FlowInv, TextInv, Scheduled(srami), [Next]_vars
               PROVE  FlowInv' /\ TextInv' /\ Scheduled(srami)'
    OBVIOUS
  <2>1. FlowInv' /\ TextInv'
    BY <1>1, FlowStep, TextStep
  <2>2. srami' = srami
    BY DEF Next, sp_ctl, Compute, StartDma, Halt, Turn, dma_ctl, Commit, CommitFault,
       FetchFault, Stopped, vars
  <2>3. Scheduled(srami)'
    BY <2>2, TextStays DEF Scheduled, ScheduledAt, Waits, Mistakable, MayFollow, SharedBy, IsJump,
       Loads, At, Reads, Src1
  <2> QED BY <2>1, <2>3
<1> QED BY <1>1, <1>2, FlowInit, TextInit, Invariant, PTL DEF Spec

(* A scheduled program runs as on the machine without a pipeline.          *)
THEOREM ScheduledImplementsArch == Spec /\ Scheduled(srami) => ImplementsPipeArch
BY ScheduledIsRegular, PipelineImplementsArch, PTL

(* One of the common instruction set runs as in the simulator.             *)
THEOREM ScheduledImplementsIss ==
    Spec /\ Scheduled(srami) /\ []Common => ImplementsIss
BY ScheduledIsRegular, PipelineImplementsIss, PTL

-----------------------------------------------------------------------------
(***************************************************************************)
(* Programs whose text keeps them within the common instruction set.       *)
(***************************************************************************)
\* No store has reached the program.
Intact == \A a \in Reachable(srami) : sram[a] = srami[a]

\* The invariant of such programs, on top of the three of scheduled ones.
CommonInv == EngineFree /\ Intact

\* The instruction in exec1 is one of the text.
LEMMA CommonByText ==
    ASSUME Inv, FlowInv, TextInv, Intact, CommonText(srami)
    PROVE  Common
<1> SUFFICES ASSUME cpu.exec1.active, ~Halted
             PROVE  /\ \/ cpu.exec1.opcode \in ArithOps \cup BranchOps \cup {LD, ST, HLT}
                       \/ cpu.exec1.opcode = JIN /\ cpu.exec1.src0 = 1
                    /\ Retires(JumpOps) /\ cpu.exec1_aluout = 1
                          => cpu.exec1.pc # Height - 1
                    /\ srami[cpu.exec1.pc] = sram[cpu.exec1.pc]
  BY DEF Common
<1> DEFINE a == cpu.exec1.pc
<1>1. a \in Addr
  BY Held DEF Inv, TypeOK, Decoded
<1>2. a \in Reachable(srami)
  BY <1>1 DEF TextInv, Reaches, FromExec1
<1>3. IsDecoded(cpu.exec1, srami[a])
  BY DEF FlowInv, Flow, Text
<1>4. /\ At(srami, a).opcode = cpu.exec1.opcode /\ At(srami, a).src0 = cpu.exec1.src0
      /\ IsJump(srami, a) <=> cpu.exec1.opcode \in JumpOps
  BY <1>3, StageIsText
<1>5. CommonAt(srami, a)
  BY <1>2 DEF CommonText
<1> QED BY <1>2, <1>4, <1>5 DEF CommonAt, Retires, Intact

\* A store goes where no instruction is.
LEMMA StoreMisses ==
    ASSUME Inv, FlowInv, TextInv, CommonText(srami), Retires({ST}), ~Halted
    PROVE  cpu.exec1_alu[1] \notin Reachable(srami)
<1> DEFINE a == cpu.exec1.pc
<1>1. cpu.exec1.active /\ cpu.exec1.opcode = ST /\ ST # LHI
  BY Codes DEF Retires
<1>2. a \in Addr
  BY Held DEF Inv, TypeOK, Decoded
<1>3. CommonAt(srami, a)
  BY <1>1, <1>2 DEF TextInv, Reaches, FromExec1, CommonText
<1>4. /\ At(srami, a).opcode = ST /\ At(srami, a).src1 = cpu.exec1.src1
      /\ At(srami, a).immediate = cpu.exec1.immediate
  BY <1>1, StageIsText DEF FlowInv, Flow, Text
<1>5. cpu.exec1_alu[1] = Operand1(cpu.exec1, cpu.r)
  BY <1>1 DEF FlowInv, Flow, Results
<1> QED BY <1>1, <1>3, <1>4, <1>5 DEF CommonAt, Operand1

\* Every step keeps the program and the engine as they are.
LEMMA CommonStep ==
    ASSUME Inv, FlowInv, TextInv, CommonInv, E!TurnInv, CommonText(srami), [Next]_vars,
           srami' = srami
    PROVE  CommonInv'
<1>1. EngineFree'
  BY CommonByText, EngineFreeStep DEF CommonInv
<1>2. sram' = sram \/ (Stores /\ phase = "commit")
  <2>1. CASE Commit
    <3>1. ~P!S!Write
      BY FreeCopy DEF CommonInv, P!S!Write, Buf
    <3>2. ~P!S!Fetch
      BY FreeCopy DEF CommonInv, P!S!Fetch, Buf, Job
    <3>3. Stores \/ Asks \/ Rests
      BY <2>1, <3>1, <3>2, CommitCases
    <3>4. phase = "commit"
      BY <2>1 DEF Commit, D!Commit, D!CommitFrame
    <3> QED BY <3>3, <3>4 DEF Asks, Rests
  <2>2. CASE ~Commit
    <3>1. sp_ctl => sram' = sram
      BY DEF sp_ctl, Compute, StartDma, Halt, Turn
    <3>2. dma_ctl => sram' = sram
      BY EngineTurn
    <3>3. CommitFault \/ FetchFault \/ Stopped \/ UNCHANGED vars => sram' = sram
      BY DEF CommitFault, D!CommitFault, D!CommitFrame, FetchFault, Stopped, vars
    <3> QED BY <2>2, <3>1, <3>2, <3>3 DEF Next
  <2> QED BY <2>1, <2>2
<1>3. CASE sram' = sram
  BY <1>1, <1>3, TextStays DEF CommonInv, Intact
<1>4. CASE Stores /\ phase = "commit"
  <2>1. cpu.exec1_alu[1] \notin Reachable(srami)
    BY <1>4, StoreMisses DEF Stores, Halted
  <2>2. sram' = [sram EXCEPT ![cpu.exec1_alu[1]] = cpu.exec1_alu[0]]
    BY <1>4 DEF Stores
  <2>3. sram \in [Addr -> Word] /\ Reachable(srami) \subseteq Addr
    BY ReachableIsClosed, EngineTypes DEF Inv, TypeOK
  <2>4. \A a \in Reachable(srami) : sram'[a] = sram[a]
    BY <2>1, <2>2, <2>3
  <2> QED BY <1>1, <2>4, TextStays DEF CommonInv, Intact
<1> QED BY <1>2, <1>3, <1>4

(* The text alone decides: a scheduled program of the common instruction   *)
(* set, whose stores go to fixed addresses outside it, does on the pipeline*)
(* what the simulator does, and nothing about the run has to be known.     *)
THEOREM TextImplementsIss ==
    Spec /\ Scheduled(srami) /\ CommonText(srami) => ImplementsIss
<1>1. Init => CommonInv
  BY ReachableIsClosed DEF Init, D!Init, D!ResetRegisters, CommonInv, EngineFree, Intact
<1>2. Inv /\ FlowInv /\ TextInv /\ CommonInv /\ CommonText(srami) => Common
  BY CommonByText DEF CommonInv
<1>3. Inv /\ FlowInv /\ TextInv /\ CommonInv /\ E!TurnInv
        /\ Scheduled(srami) /\ CommonText(srami) /\ [Next]_vars
        => /\ FlowInv' /\ TextInv' /\ CommonInv'
           /\ Scheduled(srami)' /\ CommonText(srami)'
  <2> SUFFICES ASSUME Inv, FlowInv, TextInv, CommonInv, E!TurnInv, [Next]_vars,
                      Scheduled(srami), CommonText(srami)
               PROVE  /\ FlowInv' /\ TextInv' /\ CommonInv'
                      /\ Scheduled(srami)' /\ CommonText(srami)'
    OBVIOUS
  <2>1. srami' = srami
    BY DEF Next, sp_ctl, Compute, StartDma, Halt, Turn, dma_ctl, Commit, CommitFault,
       FetchFault, Stopped, vars
  <2>2. FlowInv' /\ TextInv' /\ CommonInv'
    BY <2>1, RegularByText, FlowStep, TextStep, CommonStep
  <2>3. Scheduled(srami)'
    BY <2>1, TextStays DEF Scheduled, ScheduledAt, Waits, Mistakable, MayFollow, SharedBy,
       IsJump, Loads, At, Reads, Src1
  <2>4. CommonText(srami)'
    BY <2>1, TextStays DEF CommonText, CommonAt, IsJump, At
  <2> QED BY <2>2, <2>3, <2>4
<1>4. Spec => []E!TurnInv
  <2>1. E!Spec => []E!TurnInv
    BY E!TurnInvariant, EngineAssumptions
  <2> QED BY <2>1, PipelineDrivesEngine
<1>5. Spec /\ Scheduled(srami) /\ CommonText(srami) => []Common
  BY <1>1, <1>2, <1>3, <1>4, FlowInit, TextInit, Invariant, PTL DEF Spec
<1> QED BY <1>5, ScheduledImplementsIss, PTL
=============================================================================
