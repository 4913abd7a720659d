----------------------------- MODULE SP5Proofs ------------------------------
(***************************************************************************)
(* Theorems about the pipelined SP, for every width of the immediate field,*)
(* size of the branch target buffer and program: what its stages hold, that*)
(* stalls, saved words and the load bypass work, and that beside it the DMA*)
(* engine does what it does beside the most general processor.             *)
(***************************************************************************)
EXTENDS SP5, SPWordProofs

\* The engine beside any processor: every length, address and word.
E == INSTANCE DmaCtlProofs WITH
        hazard <- is_dma_hazard, Lens <- Int, CpuAddr <- Int, CpuWord <- Word,
        Images <- [Addr -> Word], Disciplined <- FALSE

-----------------------------------------------------------------------------
(***************************************************************************)
(* The registers: what may be assigned to them, and what they hold.        *)
(***************************************************************************)
LEMMA Put ==
    ASSUME NEW n \in CpuRegisters
    PROVE  /\ \A x \in [0 .. 7 -> Word] : [n EXCEPT !.r = x] \in CpuRegisters
           /\ \A x \in Fetching : [n EXCEPT !.fetch0 = x] \in CpuRegisters
           /\ \A x \in Fetched : [n EXCEPT !.fetch1 = x] \in CpuRegisters
           /\ \A x \in Decoding : [n EXCEPT !.dec0 = x] \in CpuRegisters
           /\ \A x \in Decoded : [n EXCEPT !.dec1 = x] \in CpuRegisters
           /\ \A x \in Decoded : [n EXCEPT !.exec0 = x] \in CpuRegisters
           /\ \A x \in Operands : [n EXCEPT !.exec0_alu = x] \in CpuRegisters
           /\ \A x \in Decoded : [n EXCEPT !.exec1 = x] \in CpuRegisters
           /\ \A x \in Operands : [n EXCEPT !.exec1_alu = x] \in CpuRegisters
           /\ \A x \in Word : [n EXCEPT !.exec1_aluout = x] \in CpuRegisters
           /\ \A x \in BOOLEAN : [n EXCEPT !.mem_stall = x] \in CpuRegisters
           /\ \A x \in Word : [n EXCEPT !.mem_SRAM_DO = x] \in CpuRegisters
           /\ \A x \in 0 .. 7 : [n EXCEPT !.mem_dst = x] \in CpuRegisters
BY DEF CpuRegisters

\* What registers hold.
LEMMA Held ==
    ASSUME NEW n \in CpuRegisters
    PROVE  /\ n.r \in [0 .. 7 -> Word]
           /\ n.fetch0 \in Fetching /\ n.fetch1 \in Fetched
           /\ n.dec0 \in Decoding /\ n.dec1 \in Decoded
           /\ n.exec0 \in Decoded /\ n.exec0_alu \in Operands
           /\ n.exec1 \in Decoded /\ n.exec1_alu \in Operands
           /\ n.exec1_aluout \in Word
           /\ n.mem_stall \in BOOLEAN /\ n.mem_SRAM_DO \in Word
           /\ n.mem_dst \in 0 .. 7
BY DEF CpuRegisters

\* A stage may be emptied, and the fetch sent elsewhere.
LEMMA Emptied ==
    ASSUME NEW n \in CpuRegisters
    PROVE  /\ [n EXCEPT !.fetch1.active = FALSE] \in CpuRegisters
           /\ [n EXCEPT !.dec0.active = FALSE] \in CpuRegisters
           /\ [n EXCEPT !.dec1.active = FALSE] \in CpuRegisters
           /\ [n EXCEPT !.exec0.active = FALSE] \in CpuRegisters
           /\ [n EXCEPT !.exec1.active = FALSE] \in CpuRegisters
           /\ \A x \in Int : [n EXCEPT !.fetch0.pc = x] \in CpuRegisters
<1>1. /\ [n.fetch1 EXCEPT !.active = FALSE] \in Fetched
      /\ [n.dec0 EXCEPT !.active = FALSE] \in Decoding
  BY Held DEF Fetched, Decoding
<1>2. /\ [n.dec1 EXCEPT !.active = FALSE] \in Decoded
      /\ [n.exec0 EXCEPT !.active = FALSE] \in Decoded
      /\ [n.exec1 EXCEPT !.active = FALSE] \in Decoded
  BY Held DEF Decoded
<1>3. \A x \in Int : [n.fetch0 EXCEPT !.pc = x] \in Fetching
  BY Held DEF Fetching
<1> QED BY <1>1, <1>2, <1>3, Put

-----------------------------------------------------------------------------
(***************************************************************************)
(* What the stages compute.                                                *)
(***************************************************************************)
\* An entry of the branch target buffer is a prediction.
LEMMA BtbEntryType ==
    ASSUME TypeOK, NEW pc \in Int
    PROVE  /\ BtbEntry(pc) \in Prediction
           /\ BtbEntry(pc).target \in Int /\ BtbEntry(pc).taken \in 0 .. 1
<1>1. BtbEntry(pc) \in Prediction
  BY BtbSizeAssumption DEF TypeOK, BtbEntry
<1> QED BY <1>1 DEF Prediction

\* Bypassed or not, an operand is a word.
LEMMA OperandType ==
    ASSUME TypeOK
    PROVE  /\ Alu0 \in Word /\ Alu1 \in Word
           /\ \A r \in 0 .. 7 : Dec1Operand(r) \in Word
           /\ Src1(cpu.exec0) \in 0 .. 7 /\ Src1(cpu.dec1) \in 0 .. 7
<1>1. cpu \in CpuRegisters
  BY DEF TypeOK
<1>2. /\ cpu.r \in [0 .. 7 -> Word] /\ cpu.exec0_alu \in [0 .. 1 -> Word]
      /\ cpu.exec1_aluout \in Word /\ cpu.mem_SRAM_DO \in Word
      /\ cpu.exec0 \in Decoded /\ cpu.dec1 \in Decoded
  BY <1>1, Held DEF Operands
<1>3. cpu.exec0_alu[0] \in Word /\ cpu.exec0_alu[1] \in Word
  BY <1>2
<1>4. Src1(cpu.exec0) \in 0 .. 7 /\ Src1(cpu.dec1) \in 0 .. 7
  BY <1>2 DEF Decoded, Src1
<1> QED BY <1>2, <1>3, <1>4 DEF Alu0, Alu1, Exec0Operand, Dec1Operand

\* So is the result of exec0, and that of a jump is a flag.
LEMMA AluOutType ==
    ASSUME TypeOK
    PROVE  /\ AluOut \in Word
           /\ cpu.exec0.opcode \in JumpOps => AluOut \in {0, 1}
<1>1. cpu \in CpuRegisters /\ cpun.exec1_aluout \in Word
  BY Held DEF TypeOK
<1>2. cpu.exec0_alu[0] \in Word
  BY <1>1, Held DEF Operands
<1>3. \A b : Bool(b) \in {0, 1}
  BY DEF Bool
<1>4. 0 \in Word /\ 1 \in Word
  BY AddrType
<1>5. ShiftLeft(Alu1, ImmBits) + Low(Alu0) \in Word
  BY OperandType, UpperShift, AddrType
<1>6. cpu.exec0.opcode \in ArithOps => Arith(cpu.exec0.opcode, Alu0, Alu1) \in Word
  BY OperandType, ArithType
<1> DEFINE op == cpu.exec0.opcode
<1>7. CASE op \in JumpOps
  <2>1. /\ op \notin ArithOps /\ op # LHI /\ op # DMA
        /\ op = DMP \/ op \in BranchOps \/ op = JIN
    BY <1>7 DEF JumpOps, ArithOps, BranchOps, LHI, DMA, DMP, JIN, ADD, SUB, LSF,
                RSF, AND, OR, XOR, JLT, JLE, JEQ, JNE
  <2> QED BY <1>3, <1>4, <1>7, <2>1 DEF AluOut
<1>8. CASE op \notin JumpOps
  <2>1. op # DMP /\ op \notin BranchOps /\ op # JIN
    BY <1>8 DEF JumpOps
  <2> QED BY <1>1, <1>2, <1>5, <1>6, <1>8, <2>1 DEF AluOut
<1> QED BY <1>7, <1>8

-----------------------------------------------------------------------------
(***************************************************************************)
(* The stages one by one, each from new registers n to new registers.      *)
(***************************************************************************)
\* What a stage leaves alone.
SameResults(m, n) ==
    /\ m.r = n.r
    /\ m.mem_stall = n.mem_stall /\ m.mem_SRAM_DO = n.mem_SRAM_DO
    /\ m.mem_dst = n.mem_dst

SameExec1(m, n) ==
    /\ m.exec1 = n.exec1 /\ m.exec1_alu = n.exec1_alu
    /\ m.exec1_aluout = n.exec1_aluout

SameFetches(m, n) == m.fetch0 = n.fetch0 /\ m.fetch1 = n.fetch1

\* fetch0 hands its address to fetch1 unless the pipe is stalled.
LEMMA Fetch0Effect ==
    ASSUME TypeOK, NEW n \in CpuRegisters
    PROVE  /\ Fetch0(n) \in CpuRegisters
           /\ Fetch0(n).fetch0.active
           /\ IF FetchesNow
                THEN /\ Fetch0(n).fetch1.active
                     /\ Fetch0(n).fetch1.pc = cpu.fetch0.pc
                     /\ Fetch0(n).fetch1.use_saved = n.fetch1.use_saved
                     /\ Fetch0(n).fetch1.saved_inst = n.fetch1.saved_inst
                ELSE Fetch0(n).fetch1 = n.fetch1
           /\ SameExec1(Fetch0(n), n) /\ SameResults(Fetch0(n), n)
<1> DEFINE p == BtbEntry(cpu.fetch0.pc)
           next == IF p.taken = 1 THEN p.target ELSE cpu.fetch0.pc + 1
           f0 == [active |-> TRUE, pc |-> next]
           f1 == [n.fetch1 EXCEPT !.active = TRUE, !.pc = cpu.fetch0.pc, !.btb = p]
<1>1. cpu.fetch0.pc \in Int /\ cpu.fetch0.pc + 1 \in Int
  BY Held DEF TypeOK, Fetching
<1>2. p \in Prediction /\ next \in Int
  BY <1>1, BtbEntryType
<1>3. CASE ~FetchesNow
  <2> DEFINE f == [n.fetch0 EXCEPT !.active = TRUE]
  <2>1. f \in Fetching /\ f.active
    BY Held DEF Fetching
  <2>2. Fetch0(n) = [n EXCEPT !.fetch0 = f]
    BY <1>3 DEF Fetch0
  <2>3. [n EXCEPT !.fetch0 = f] \in CpuRegisters
    BY <2>1, Put
  <2> HIDE DEF f
  <2> QED BY <1>3, <2>1, <2>2, <2>3 DEF CpuRegisters, SameExec1, SameResults
<1>4. CASE FetchesNow
  <2>1. Fetch0(n) = [n EXCEPT !.fetch0 = f0, !.fetch1 = f1]
    BY <1>4 DEF Fetch0
  <2>2. f0 \in Fetching /\ f0.active
    BY <1>2 DEF Fetching
  <2>3. /\ f1 \in Fetched /\ f1.active /\ f1.pc = cpu.fetch0.pc
        /\ f1.use_saved = n.fetch1.use_saved
        /\ f1.saved_inst = n.fetch1.saved_inst
    BY <1>1, <1>2, Held DEF Fetched
  <2> HIDE DEF f0, f1
  <2>4. [n EXCEPT !.fetch0 = f0] \in CpuRegisters
    BY <2>2, Put
  <2>5. Fetch0(n) \in CpuRegisters
    BY <2>1, <2>3, <2>4, Put
  <2> QED BY <1>4, <2>1, <2>2, <2>3, <2>5 DEF CpuRegisters, SameExec1, SameResults
<1> QED BY <1>3, <1>4

\* fetch1 saves the word on the data output exactly when the pipe is stalled.
LEMMA Fetch1Effect ==
    ASSUME TypeOK, cpu.fetch1.active => cpu.fetch1.pc \in Addr,
           NEW n \in CpuRegisters
    PROVE  /\ Fetch1(n) \in CpuRegisters
           /\ Fetch1(n).fetch0 = n.fetch0
           /\ Fetch1(n).fetch1.active = n.fetch1.active
           /\ Fetch1(n).fetch1.pc = n.fetch1.pc
           /\ IF cpu.fetch1.active
                THEN Fetch1(n).fetch1.use_saved <=> is_pipe_stalled
                ELSE Fetch1(n).fetch1.use_saved = n.fetch1.use_saved
           /\ cpu.fetch1.active /\ is_pipe_stalled =>
                 Fetch1(n).fetch1.saved_inst = iport.dataout
           /\ SameExec1(Fetch1(n), n) /\ SameResults(Fetch1(n), n)
<1>1. CASE ~cpu.fetch1.active
  <2>1. Fetch1(n) = [n EXCEPT !.dec0.active = FALSE]
    BY <1>1 DEF Fetch1
  <2>2. Fetch1(n) \in CpuRegisters
    BY <2>1, Emptied
  <2> QED BY <1>1, <2>1, <2>2 DEF CpuRegisters, SameExec1, SameResults
<1>2. CASE cpu.fetch1.active /\ is_pipe_stalled
  <2> DEFINE f == [n.fetch1 EXCEPT !.saved_inst = iport.dataout, !.use_saved = TRUE]
  <2>1. /\ f \in Fetched /\ f.active = n.fetch1.active /\ f.pc = n.fetch1.pc
        /\ f.use_saved = TRUE /\ f.saved_inst = iport.dataout
    BY Held DEF TypeOK, Fetched
  <2>2. Fetch1(n) = [n EXCEPT !.fetch1 = f]
    BY <1>2 DEF Fetch1
  <2> HIDE DEF f
  <2>3. Fetch1(n) \in CpuRegisters
    BY <2>1, <2>2, Put
  <2> QED BY <1>2, <2>1, <2>2, <2>3 DEF CpuRegisters, SameExec1, SameResults
<1>3. CASE cpu.fetch1.active /\ ~is_pipe_stalled
  <2> DEFINE f == [n.fetch1 EXCEPT !.use_saved = FALSE]
             d == [active |-> TRUE, pc |-> cpu.fetch1.pc,
                   inst |-> IF cpu.fetch1.use_saved THEN cpu.fetch1.saved_inst
                                                    ELSE iport.dataout,
                   btb |-> cpu.fetch1.btb]
  <2>1. /\ f \in Fetched /\ f.active = n.fetch1.active /\ f.pc = n.fetch1.pc
        /\ f.use_saved = FALSE
    BY Held DEF Fetched
  <2>2. d \in Decoding
    BY <1>3, Held DEF TypeOK, Fetched, Decoding
  <2>3. Fetch1(n) = [n EXCEPT !.fetch1 = f, !.dec0 = d]
    BY <1>3 DEF Fetch1
  <2> HIDE DEF f, d
  <2>4. [n EXCEPT !.fetch1 = f] \in CpuRegisters
    BY <2>1, Put
  <2>5. Fetch1(n) \in CpuRegisters
    BY <2>2, <2>3, <2>4, Put
  <2> QED BY <1>3, <2>1, <2>3, <2>5 DEF CpuRegisters, SameExec1, SameResults
<1> QED BY <1>1, <1>2, <1>3

\* dec0 may empty fetch1, but not in a stall.
LEMMA Dec0Effect ==
    ASSUME TypeOK, NEW n \in CpuRegisters
    PROVE  /\ Dec0(n) \in CpuRegisters
           /\ Dec0(n).fetch0.active = n.fetch0.active
           /\ Dec0(n).fetch1.active => n.fetch1.active
           /\ is_pipe_stalled => Dec0(n).fetch1.active = n.fetch1.active
           /\ Dec0(n).fetch1.pc = n.fetch1.pc
           /\ Dec0(n).fetch1.use_saved = n.fetch1.use_saved
           /\ Dec0(n).fetch1.saved_inst = n.fetch1.saved_inst
           /\ SameExec1(Dec0(n), n) /\ SameResults(Dec0(n), n)
<1> DEFINE d == Decode(cpu.dec0.inst)
           wrong == d.opcode \notin JumpOps /\ cpu.dec0.btb.taken = 1
           s == [active |-> TRUE, pc |-> cpu.dec0.pc, opcode |-> d.opcode,
                 dst |-> d.dst, src0 |-> d.src0, src1 |-> d.src1,
                 immediate |-> d.immediate, btb |-> cpu.dec0.btb]
           m == [n EXCEPT !.dec1 = s]
<1>1. cpu.dec0 \in Decoding
  BY Held DEF TypeOK
<1>2. s \in Decoded
  <2>1. cpu.dec0.inst \in Word /\ cpu.dec0.pc \in Addr /\ cpu.dec0.btb \in Prediction
    BY <1>1 DEF Decoding
  <2>2. /\ d.opcode \in 0 .. 31 /\ d.dst \in 0 .. 7 /\ d.src0 \in 0 .. 7
        /\ d.src1 \in 0 .. 7 /\ d.immediate \in Word
    BY <2>1, DecodeType
  <2> HIDE DEF d
  <2> QED BY <2>1, <2>2 DEF Decoded
<1>3. CASE ~cpu.dec0.active
  <2>1. Dec0(n) = [n EXCEPT !.dec1.active = FALSE]
    BY <1>3 DEF Dec0
  <2>2. Dec0(n) \in CpuRegisters
    BY <2>1, Emptied
  <2> QED BY <2>1, <2>2 DEF CpuRegisters, SameExec1, SameResults
<1>4. CASE cpu.dec0.active /\ is_pipe_stalled
  BY <1>4 DEF Dec0, SameExec1, SameResults
<1>5. CASE cpu.dec0.active /\ ~is_pipe_stalled /\ ~wrong
  <2>1. Dec0(n) = m
    BY <1>5 DEF Dec0
  <2> HIDE DEF s
  <2>2. m \in CpuRegisters
    BY <1>2, Put
  <2> QED BY <2>1, <2>2, <1>5 DEF CpuRegisters, SameExec1, SameResults
<1>6. CASE cpu.dec0.active /\ ~is_pipe_stalled /\ wrong
  <2> DEFINE f == [n.fetch1 EXCEPT !.active = FALSE]
             e == [n.dec0 EXCEPT !.active = FALSE]
             g == [n.fetch0 EXCEPT !.pc = cpu.dec0.pc + 1]
  <2>1. Dec0(n) = [m EXCEPT !.fetch1.active = FALSE, !.dec0.active = FALSE,
                            !.fetch0.pc = cpu.dec0.pc + 1]
    BY <1>6 DEF Dec0
  <2> HIDE DEF s
  <2>2. m \in CpuRegisters /\ m.fetch0 = n.fetch0 /\ m.fetch1 = n.fetch1
        /\ m.dec0 = n.dec0
    BY <1>2, Put DEF CpuRegisters
  <2>3. /\ f \in Fetched /\ f.active = FALSE /\ f.pc = n.fetch1.pc
        /\ f.use_saved = n.fetch1.use_saved /\ f.saved_inst = n.fetch1.saved_inst
    BY Held DEF Fetched
  <2>4. e \in Decoding
    BY Held DEF Decoding
  <2>5. g \in Fetching /\ g.active = n.fetch0.active
    BY <1>1, AddrType, Held DEF Fetching, Decoding
  <2>6. SameExec1(m, n) /\ SameResults(m, n)
    BY DEF CpuRegisters, SameExec1, SameResults
  <2>7. Dec0(n) = [m EXCEPT !.fetch1 = f, !.dec0 = e, !.fetch0 = g]
    BY <2>1, <2>2
  <2> HIDE DEF f, e, g, m
  <2>8. [m EXCEPT !.fetch1 = f] \in CpuRegisters
    BY <2>2, <2>3, Put
  <2>9. [m EXCEPT !.fetch1 = f, !.dec0 = e] \in CpuRegisters
    BY <2>4, <2>8, Put
  <2>10. Dec0(n) \in CpuRegisters
    BY <2>5, <2>7, <2>9, Put
  <2> QED BY <1>6, <2>2, <2>3, <2>5, <2>6, <2>7, <2>10
          DEF CpuRegisters, SameExec1, SameResults
<1> QED BY <1>3, <1>4, <1>5, <1>6

\* dec1 changes exec0 only.
LEMMA Dec1Effect ==
    ASSUME TypeOK, NEW n \in CpuRegisters
    PROVE  /\ Dec1(n) \in CpuRegisters
           /\ SameFetches(Dec1(n), n)
           /\ SameExec1(Dec1(n), n) /\ SameResults(Dec1(n), n)
<1> DEFINE s == cpu.dec1
           a == [i \in 0 .. 1 |->
                    IF i = 0
                      THEN IF s.src0 = 1 \/ s.opcode = LHI
                             THEN s.immediate ELSE Dec1Operand(s.src0)
                      ELSE IF s.src1 = 1 /\ s.opcode # LHI
                             THEN s.immediate ELSE Dec1Operand(Src1(s))]
<1> USE DEF SameFetches, SameExec1, SameResults
<1>1. CASE ~s.active
  <2>1. Dec1(n) = [n EXCEPT !.exec0.active = FALSE]
    BY <1>1 DEF Dec1
  <2>2. Dec1(n) \in CpuRegisters
    BY <2>1, Emptied
  <2> QED BY <2>1, <2>2 DEF CpuRegisters
<1>2. CASE s.active /\ is_pipe_stalled
  BY <1>2 DEF Dec1
<1>3. CASE s.active /\ ~is_pipe_stalled
  <2>1. Dec1(n) = [n EXCEPT !.exec0 = s, !.exec0_alu = a]
    BY <1>3 DEF Dec1
  <2>2. s \in Decoded /\ s.immediate \in Word /\ s.src0 \in 0 .. 7
    BY Held DEF TypeOK, Decoded
  <2>3. a \in Operands
    BY <2>2, OperandType DEF Operands
  <2> HIDE DEF s, a
  <2>4. [n EXCEPT !.exec0 = s] \in CpuRegisters
    BY <2>2, Put
  <2>5. Dec1(n) \in CpuRegisters
    BY <2>1, <2>3, <2>4, Put
  <2> QED BY <2>1, <2>5 DEF CpuRegisters
<1> QED BY <1>1, <1>2, <1>3

\* exec0 fills exec1 unless the pipe is stalled.
LEMMA Exec0Effect ==
    ASSUME TypeOK, NEW n \in CpuRegisters
    PROVE  /\ Exec0(n) \in CpuRegisters
           /\ SameFetches(Exec0(n), n) /\ SameResults(Exec0(n), n)
           /\ Exec0(n).exec1.active => /\ cpu.exec0.active /\ ~is_pipe_stalled
                                       /\ Exec0(n).exec1 = cpu.exec0
                                       /\ Exec0(n).exec1_alu[1] = Alu1
                                       /\ Exec0(n).exec1_aluout = AluOut
<1> USE DEF SameFetches, SameResults
<1>1. CASE is_pipe_stalled \/ ~cpu.exec0.active
  <2> DEFINE e == [n.exec1 EXCEPT !.active = FALSE]
  <2>1. Exec0(n) = [n EXCEPT !.exec1 = e]
    BY <1>1 DEF Exec0
  <2>2. e \in Decoded /\ e.active = FALSE
    BY Held DEF Decoded
  <2> HIDE DEF e
  <2>3. Exec0(n) \in CpuRegisters
    BY <2>1, <2>2, Put
  <2> QED BY <2>1, <2>2, <2>3 DEF CpuRegisters
<1>2. CASE ~is_pipe_stalled /\ cpu.exec0.active
  <2> DEFINE a == [i \in 0 .. 1 |-> IF i = 0 THEN Alu0 ELSE Alu1]
  <2>1. Exec0(n) = [n EXCEPT !.exec1 = cpu.exec0, !.exec1_alu = a,
                             !.exec1_aluout = AluOut]
    BY <1>2 DEF Exec0
  <2>2. cpu.exec0 \in Decoded
    BY Held DEF TypeOK
  <2>3. a \in Operands /\ a[1] = Alu1
    BY OperandType DEF Operands
  <2> HIDE DEF a
  <2>4. [n EXCEPT !.exec1 = cpu.exec0] \in CpuRegisters
    BY <2>2, Put
  <2>5. [n EXCEPT !.exec1 = cpu.exec0, !.exec1_alu = a] \in CpuRegisters
    BY <2>3, <2>4, Put
  <2>6. Exec0(n) \in CpuRegisters
    BY <2>1, <2>5, AluOutType, Put
  <2> QED BY <1>2, <2>1, <2>3, <2>6 DEF CpuRegisters
<1> QED BY <1>1, <1>2

\* A register may be written back, a link register set.
LEMMA WriteBackType ==
    ASSUME TypeOK, NEW n \in CpuRegisters, NEW v \in Word
    PROVE  /\ WriteBack(n, v) \in CpuRegisters
           /\ SameFetches(WriteBack(n, v), n) /\ SameExec1(WriteBack(n, v), n)
           /\ WriteBack(n, v).mem_stall = n.mem_stall
           /\ cpu.exec1.dst > 1 => WriteBack(n, v).r[cpu.exec1.dst] = v
<1> DEFINE q == [n.r EXCEPT ![cpu.exec1.dst] = v]
<1>1. cpu.exec1.dst \in 0 .. 7
  BY Held DEF TypeOK, Decoded
<1>2. q \in [0 .. 7 -> Word] /\ q[cpu.exec1.dst] = v
  BY <1>1, Held
<1>3. CASE cpu.exec1.dst > 1
  <2>1. WriteBack(n, v) = [n EXCEPT !.r = q]
    BY <1>3 DEF WriteBack
  <2> HIDE DEF q
  <2>2. [n EXCEPT !.r = q] \in CpuRegisters
    BY <1>2, Put
  <2> QED BY <2>1, <2>2, <1>2 DEF CpuRegisters, SameFetches, SameExec1
<1>4. CASE ~(cpu.exec1.dst > 1)
  BY <1>4 DEF WriteBack, SameFetches, SameExec1
<1> QED BY <1>3, <1>4

\* A load writes back the word that it offers to the bypass.
LEMMA LoadEffect ==
    ASSUME TypeOK, NEW n \in CpuRegisters, ~n.mem_stall
    PROVE  /\ Load(n) \in CpuRegisters
           /\ SameFetches(Load(n), n) /\ SameExec1(Load(n), n)
           /\ Load(n).mem_stall => Load(n).mem_SRAM_DO = Load(n).r[Load(n).mem_dst]
<1> DEFINE w == WriteBack(n, port.dataout)
<1>1. port.dataout \in Word /\ cpu.exec1.dst \in 0 .. 7
  BY Held DEF TypeOK, D!TypeOK, D!Port, Decoded
<1>2. /\ w \in CpuRegisters /\ SameFetches(w, n) /\ SameExec1(w, n)
      /\ cpu.exec1.dst > 1 => w.r[cpu.exec1.dst] = port.dataout
  BY <1>1, WriteBackType
<1> HIDE DEF w
<1>3. CASE cpu.exec1.dst > 1
  <2>1. Load(n) = [w EXCEPT !.mem_SRAM_DO = port.dataout, !.mem_stall = TRUE,
                            !.mem_dst = cpu.exec1.dst]
    BY <1>3 DEF Load, w
  <2>2. [w EXCEPT !.mem_SRAM_DO = port.dataout] \in CpuRegisters
    BY <1>1, <1>2, Put
  <2>3. [w EXCEPT !.mem_SRAM_DO = port.dataout, !.mem_stall = TRUE] \in CpuRegisters
    BY <2>2, Put
  <2>4. Load(n) \in CpuRegisters
    BY <1>1, <2>1, <2>3, Put
  <2> QED BY <1>2, <1>3, <2>1, <2>4 DEF CpuRegisters, SameFetches, SameExec1
<1>4. CASE ~(cpu.exec1.dst > 1)
  BY <1>4 DEF Load, SameFetches, SameExec1
<1> QED BY <1>3, <1>4

\* A jump may empty the stages behind it.
LEMMA JumpEffect ==
    ASSUME TypeOK, NEW n \in CpuRegisters
    PROVE  /\ Jump(n) \in CpuRegisters
           /\ Jump(n).fetch0.active = n.fetch0.active
           /\ Jump(n).fetch1.active => n.fetch1.active
           /\ Jump(n).fetch1.pc = n.fetch1.pc
           /\ Jump(n).fetch1.use_saved = n.fetch1.use_saved
           /\ Jump(n).fetch1.saved_inst = n.fetch1.saved_inst
           /\ Jump(n).exec1.active => SameExec1(Jump(n), n)
           /\ Jump(n).mem_stall = n.mem_stall
<1> DEFINE q == [n.r EXCEPT ![7] = cpu.exec1.pc]
           m == IF cpu.exec1_aluout = 1 THEN [n EXCEPT !.r[7] = cpu.exec1.pc] ELSE n
           target == IF cpu.exec1_aluout = 1 THEN cpu.exec1.immediate
                                             ELSE cpu.exec1.pc + 1
<1>1. /\ cpu.exec1.pc \in Addr /\ cpu.exec1.immediate \in Word
      /\ cpu.exec1.pc \in Word /\ target \in Int
  <2>1. cpu.exec1.pc \in Addr /\ cpu.exec1.immediate \in Word
    BY Held DEF TypeOK, Decoded
  <2>2. /\ cpu.exec1.pc \in Word /\ cpu.exec1.pc \in Int
        /\ cpu.exec1.immediate \in Int
    BY <2>1, AddrType
  <2> QED BY <2>1, <2>2
<1>2. /\ m \in CpuRegisters /\ SameFetches(m, n) /\ SameExec1(m, n)
      /\ m.mem_stall = n.mem_stall
  <2>1. CASE cpu.exec1_aluout = 1
    <3>1. q \in [0 .. 7 -> Word]
      BY <1>1, Held
    <3>2. m = [n EXCEPT !.r = q]
      BY <2>1
    <3> HIDE DEF q
    <3>3. [n EXCEPT !.r = q] \in CpuRegisters
      BY <3>1, Put
    <3> QED BY <3>2, <3>3 DEF CpuRegisters, SameFetches, SameExec1
  <2>2. CASE cpu.exec1_aluout # 1
    BY <2>2 DEF SameFetches, SameExec1
  <2> QED BY <2>1, <2>2
<1>3. CASE ~FlushNeeded
  <2>1. Jump(n) = m
    BY <1>3 DEF Jump
  <2> HIDE DEF m
  <2> QED BY <1>2, <2>1 DEF SameFetches
<1>4. CASE FlushNeeded
  <2> DEFINE f == [m.fetch1 EXCEPT !.active = FALSE]
             e == [m.exec1 EXCEPT !.active = FALSE]
             g == [m.fetch0 EXCEPT !.pc = target]
             d0 == [m.dec0 EXCEPT !.active = FALSE]
             d1 == [m.dec1 EXCEPT !.active = FALSE]
             e0 == [m.exec0 EXCEPT !.active = FALSE]
  <2>1. Jump(n) = [m EXCEPT !.fetch1 = f, !.dec0 = d0, !.dec1 = d1, !.exec0 = e0,
                            !.exec1 = e, !.fetch0 = g]
    BY <1>4 DEF Jump
  <2> HIDE DEF m, target
  <2>2. /\ f \in Fetched /\ f.active = FALSE /\ f.pc = n.fetch1.pc
        /\ f.use_saved = n.fetch1.use_saved /\ f.saved_inst = n.fetch1.saved_inst
    BY <1>2, Held DEF Fetched, SameFetches
  <2>3. g \in Fetching /\ g.active = n.fetch0.active
    BY <1>1, <1>2, Held DEF Fetching, SameFetches
  <2>4. d0 \in Decoding
    BY <1>2, Held DEF Decoding
  <2>5. d1 \in Decoded /\ e0 \in Decoded /\ e \in Decoded /\ e.active = FALSE
    <3>1. m.dec1 \in Decoded /\ m.exec0 \in Decoded /\ m.exec1 \in Decoded
      BY <1>2, Held
    <3> QED BY <3>1 DEF Decoded
  <2> HIDE DEF f, e, g, d0, d1, e0
  <2>6. [m EXCEPT !.fetch1 = f, !.dec0 = d0] \in CpuRegisters
    <3>1. [m EXCEPT !.fetch1 = f] \in CpuRegisters
      BY <1>2, <2>2, Put
    <3> QED BY <2>4, <3>1, Put
  <2>7. [m EXCEPT !.fetch1 = f, !.dec0 = d0, !.dec1 = d1, !.exec0 = e0]
            \in CpuRegisters
    <3>1. [m EXCEPT !.fetch1 = f, !.dec0 = d0, !.dec1 = d1] \in CpuRegisters
      BY <2>5, <2>6, Put
    <3> QED BY <2>5, <3>1, Put
  <2>8. [m EXCEPT !.fetch1 = f, !.dec0 = d0, !.dec1 = d1, !.exec0 = e0,
                  !.exec1 = e] \in CpuRegisters
    BY <2>5, <2>7, Put
  <2>9. Jump(n) \in CpuRegisters
    BY <2>1, <2>3, <2>8, Put
  <2> QED BY <1>2, <2>1, <2>2, <2>3, <2>5, <2>9 DEF CpuRegisters
<1> QED BY <1>3, <1>4

\* A stall is due to a load or a store, which does not flush.
LEMMA StallsDoNotFlush ==
    is_pipe_stalled => cpu.exec1.active /\ cpu.exec1.opcode \notin JumpOps
BY DEF is_pipe_stalled, JumpOps, BranchOps, LD, ST, JLT, JLE, JEQ, JNE, JIN, DMP

\* The load bypass of the registers c is the register it stands for.
LoadBypass(c) == c.mem_stall => c.mem_SRAM_DO = c.r[c.mem_dst]

\* exec1 writes back, or flushes unless the pipe is stalled.
LEMMA Exec1Effect ==
    ASSUME TypeOK, NEW n \in CpuRegisters, LoadBypass(n)
    PROVE  /\ Exec1(n) \in CpuRegisters
           /\ Exec1(n).fetch0.active = n.fetch0.active
           /\ Exec1(n).fetch1.active => n.fetch1.active
           /\ is_pipe_stalled => Exec1(n).fetch1.active = n.fetch1.active
           /\ Exec1(n).fetch1.pc = n.fetch1.pc
           /\ Exec1(n).fetch1.use_saved = n.fetch1.use_saved
           /\ Exec1(n).fetch1.saved_inst = n.fetch1.saved_inst
           /\ Exec1(n).exec1.active => SameExec1(Exec1(n), n)
           /\ LoadBypass(Exec1(n))
<1> DEFINE m == [n EXCEPT !.mem_stall = FALSE]
           op == cpu.exec1.opcode
<1>1. /\ m \in CpuRegisters /\ SameFetches(m, n) /\ SameExec1(m, n) /\ ~m.mem_stall
  <2>1. m \in CpuRegisters
    BY Put
  <2> QED BY <2>1 DEF CpuRegisters, SameFetches, SameExec1
<1>2. cpu.exec1_aluout \in Word
  BY Held DEF TypeOK
<1> DEFINE Writers == ArithOps \cup {LHI}
<1>w. /\ LD \notin Writers /\ LD \notin JumpOps
      /\ \A o \in JumpOps : o \notin Writers /\ o # LD
  BY DEF JumpOps, BranchOps, ArithOps, LHI, LD, ADD, SUB, LSF, RSF, AND, OR, XOR,
         JLT, JLE, JEQ, JNE, JIN, DMP
<1> HIDE DEF Writers
<1>3. CASE ~cpu.exec1.active
  <2>1. Exec1(n) = n
    BY <1>3 DEF Exec1
  <2> QED BY <2>1 DEF SameExec1
<1>4. CASE cpu.exec1.active /\ op \in Writers
  <2>1. Exec1(n) = WriteBack(m, cpu.exec1_aluout)
    BY <1>4, <1>w DEF Exec1, Writers
  <2> HIDE DEF m
  <2> QED BY <1>1, <1>2, <2>1, WriteBackType DEF SameFetches, SameExec1, LoadBypass
<1>5. CASE cpu.exec1.active /\ op = LD
  <2>2. Exec1(n) = Load(m)
    BY <1>5, <1>w DEF Exec1, Writers
  <2> HIDE DEF m
  <2> QED BY <1>1, <2>2, LoadEffect DEF SameFetches, SameExec1, LoadBypass
<1>6. CASE cpu.exec1.active /\ op \in JumpOps
  <2>1. op \notin Writers /\ op # LD /\ ~is_pipe_stalled
    BY <1>6, <1>w, StallsDoNotFlush
  <2>2. Exec1(n) = Jump(m)
    BY <1>6, <2>1 DEF Exec1, Writers
  <2> HIDE DEF m
  <2> QED BY <1>1, <2>1, <2>2, JumpEffect DEF SameFetches, SameExec1, LoadBypass
<1>7. CASE cpu.exec1.active /\ op \notin Writers /\ op # LD
           /\ op \notin JumpOps
  <2>1. Exec1(n) = m
    BY <1>7 DEF Exec1, Writers
  <2> HIDE DEF m
  <2> QED BY <1>1, <2>1 DEF SameFetches, SameExec1, LoadBypass
<1> QED BY <1>3, <1>4, <1>5, <1>6, <1>7

-----------------------------------------------------------------------------
(***************************************************************************)
(* One call of sp_ctl.                                                     *)
(***************************************************************************)
sp_ctl_registers == Exec1(Exec0(Dec1(Dec0(Fetch1(Fetch0(cpun))))))

\* The stages in the order of the code.
LEMMA TurnEffect ==
    ASSUME TypeOK, cpun = cpu, LoadBypass(cpu),
           cpu.fetch1.active => cpu.fetch1.pc \in Addr
    PROVE  LET m == sp_ctl_registers
           IN  /\ m \in CpuRegisters
               /\ m.fetch0.active
               /\ m.fetch1.active => FetchesNow \/ cpu.fetch1.active
               /\ is_pipe_stalled => m.fetch1.active = cpu.fetch1.active
               /\ m.fetch1.pc = IF FetchesNow THEN cpu.fetch0.pc ELSE cpu.fetch1.pc
               /\ IF cpu.fetch1.active
                    THEN m.fetch1.use_saved <=> is_pipe_stalled
                    ELSE m.fetch1.use_saved = cpu.fetch1.use_saved
               /\ cpu.fetch1.active /\ is_pipe_stalled =>
                     m.fetch1.saved_inst = iport.dataout
               /\ m.exec1.active => /\ cpu.exec0.active /\ ~is_pipe_stalled
                                    /\ m.exec1 = cpu.exec0
                                    /\ m.exec1_alu[1] = Alu1
                                    /\ m.exec1_aluout = AluOut
               /\ LoadBypass(m)
<1> DEFINE n0 == Fetch0(cpun)
           n1 == Fetch1(n0)
           n2 == Dec0(n1)
           n3 == Dec1(n2)
           n4 == Exec0(n3)
           m  == Exec1(n4)
<1> HIDE DEF n0, n1, n2, n3, n4, m
<1>1. cpun \in CpuRegisters /\ cpu \in CpuRegisters
  BY DEF TypeOK
<1>2. /\ n0 \in CpuRegisters /\ n0.fetch0.active
      /\ IF FetchesNow
           THEN /\ n0.fetch1.active
                /\ n0.fetch1.pc = cpu.fetch0.pc
                /\ n0.fetch1.use_saved = cpu.fetch1.use_saved
           ELSE n0.fetch1 = cpu.fetch1
      /\ SameExec1(n0, cpu) /\ SameResults(n0, cpu)
  BY <1>1, Fetch0Effect DEF n0
<1>3. /\ n1 \in CpuRegisters /\ n1.fetch0 = n0.fetch0
      /\ n1.fetch1.active = n0.fetch1.active
      /\ n1.fetch1.pc = n0.fetch1.pc
      /\ IF cpu.fetch1.active
           THEN n1.fetch1.use_saved <=> is_pipe_stalled
           ELSE n1.fetch1.use_saved = n0.fetch1.use_saved
      /\ cpu.fetch1.active /\ is_pipe_stalled => n1.fetch1.saved_inst = iport.dataout
      /\ SameExec1(n1, n0) /\ SameResults(n1, n0)
  BY <1>2, Fetch1Effect DEF n1
<1>4. /\ n2 \in CpuRegisters /\ n2.fetch0.active = n1.fetch0.active
      /\ n2.fetch1.active => n1.fetch1.active
      /\ is_pipe_stalled => n2.fetch1.active = n1.fetch1.active
      /\ n2.fetch1.pc = n1.fetch1.pc
      /\ n2.fetch1.use_saved = n1.fetch1.use_saved
      /\ n2.fetch1.saved_inst = n1.fetch1.saved_inst
      /\ SameExec1(n2, n1) /\ SameResults(n2, n1)
  BY <1>3, Dec0Effect DEF n2
<1>5. /\ n3 \in CpuRegisters
      /\ SameFetches(n3, n2) /\ SameExec1(n3, n2) /\ SameResults(n3, n2)
  BY <1>4, Dec1Effect DEF n3
<1>6. /\ n4 \in CpuRegisters
      /\ SameFetches(n4, n3) /\ SameResults(n4, n3)
      /\ n4.exec1.active => /\ cpu.exec0.active /\ ~is_pipe_stalled
                            /\ n4.exec1 = cpu.exec0
                            /\ n4.exec1_alu[1] = Alu1
                            /\ n4.exec1_aluout = AluOut
  BY <1>5, Exec0Effect DEF n4
<1>7. LoadBypass(n4)
  <2>1. SameResults(n4, cpu)
    BY <1>2, <1>3, <1>4, <1>5, <1>6 DEF SameResults
  <2> QED BY <2>1 DEF SameResults, LoadBypass
<1>8. /\ m \in CpuRegisters
      /\ m.fetch0.active = n4.fetch0.active
      /\ m.fetch1.active => n4.fetch1.active
      /\ is_pipe_stalled => m.fetch1.active = n4.fetch1.active
      /\ m.fetch1.pc = n4.fetch1.pc
      /\ m.fetch1.use_saved = n4.fetch1.use_saved
      /\ m.fetch1.saved_inst = n4.fetch1.saved_inst
      /\ m.exec1.active => SameExec1(m, n4)
      /\ LoadBypass(m)
  BY <1>6, <1>7, Exec1Effect DEF m
<1>9. sp_ctl_registers = m
  BY DEF sp_ctl_registers, m, n4, n3, n2, n1, n0
<1>10. /\ n4.fetch0.active
       /\ n4.fetch1.active => FetchesNow \/ cpu.fetch1.active
       /\ is_pipe_stalled => n4.fetch1.active = cpu.fetch1.active
       /\ n4.fetch1.pc = IF FetchesNow THEN cpu.fetch0.pc ELSE cpu.fetch1.pc
       /\ IF cpu.fetch1.active
            THEN n4.fetch1.use_saved <=> is_pipe_stalled
            ELSE n4.fetch1.use_saved = cpu.fetch1.use_saved
       /\ cpu.fetch1.active /\ is_pipe_stalled => n4.fetch1.saved_inst = iport.dataout
  BY <1>2, <1>3, <1>4, <1>5, <1>6 DEF SameFetches, FetchesNow
<1>11. m.exec1.active => /\ cpu.exec0.active /\ ~is_pipe_stalled
                         /\ m.exec1 = cpu.exec0
                         /\ m.exec1_alu[1] = Alu1
                         /\ m.exec1_aluout = AluOut
  BY <1>6, <1>8 DEF SameExec1
<1> QED BY <1>8, <1>9, <1>10, <1>11

-----------------------------------------------------------------------------
(***************************************************************************)
(* The inductive invariant of the pipe.  In the first third of a cycle the *)
(* new registers are the old ones; in the other two they hold what the     *)
(* commit will make current, and the memories hold the reads that go with  *)
(* them.                                                                   *)
(***************************************************************************)

\* The result of a jump is a flag; a saved word is behind a bubble and has an
\* instruction to go with.
Registers(c) ==
    /\ c.exec1.active /\ c.exec1.opcode \in JumpOps => c.exec1_aluout \in {0, 1}
    /\ LoadBypass(c)
    /\ c.fetch1.use_saved => c.fetch1.active /\ ~c.exec1.active
    /\ c.fetch1.active => c.fetch0.active

\* The word of the instruction in fetch1 is saved or on its way.
FetchedWord ==
    IF phase = "ctl"
      THEN cpu.fetch1.active => cpu.fetch1.pc \in Addr /\ SavedWordIsFetched
      ELSE cpun.fetch1.active =>
              IF cpun.fetch1.use_saved
                THEN /\ cpun.fetch1.pc \in Addr
                     /\ cpun.fetch1.saved_inst = srami[cpun.fetch1.pc]
                ELSE iport.read /\ iport.raddr = cpun.fetch1.pc

\* The word of the load in exec1 is on the data output or on its way there.
LoadedWord ==
    IF phase = "ctl"
      THEN Retires({LD}) => port.dataout = sram[Low(cpu.exec1_alu[1])]
      ELSE cpun.exec1.active /\ cpun.exec1.opcode = LD =>
              /\ is_dma_hazard
              /\ port.read /\ port.raddr = Low(cpun.exec1_alu[1])

PipeInv ==
    /\ Registers(cpu) /\ Registers(cpun)
    /\ phase = "ctl" => cpun = cpu
    /\ phase # "ctl" /\ is_pipe_stalled => ~cpun.exec1.active
    /\ FetchedWord
    /\ LoadedWord

-----------------------------------------------------------------------------
(***************************************************************************)
(* The processor as the engine sees it: every step of the machine is one   *)
(* of the engine with the most general processor.                          *)
(***************************************************************************)
\* Hazard and stall depend on the current registers only.
LEMMA HazardFrame ==
    ASSUME cpu' = cpu
    PROVE  /\ is_dma_hazard' = is_dma_hazard
           /\ is_pipe_stalled' = is_pipe_stalled
BY DEF is_dma_hazard, is_pipe_stalled, Src1

\* What exec0 and exec1 do to the port fits the hazard.
LEMMA AccessIsCpu ==
    ASSUME TypeOK, E!PortOwner, phase = "ctl", Access
    PROVE  /\ Retires({ST}) =>
                 is_dma_hazard /\ \E a \in Int, v \in Word : E!llsim_mem_write(a, v)
           /\ ~Retires({ST}) /\ LoadsNow =>
                 is_dma_hazard /\ E!llsim_mem_read(Low(Alu1))
           /\ ~Retires({ST}) /\ ~LoadsNow => ~is_dma_hazard /\ E!NoAccess
           /\ Retires({ST}) => ~LoadsNow
<1>1. port \in E!Port /\ ~port.read /\ ~port.write
  BY DEF TypeOK, D!TypeOK, D!Port, E!Port, E!PortOwner
<1>2. cpu.exec1_alu[0] \in Word /\ cpu.exec1_alu[1] \in Int
  <2>1. cpu.exec1_alu \in [0 .. 1 -> Word]
    BY Held DEF TypeOK, Operands
  <2>2. cpu.exec1_alu[0] \in Word /\ cpu.exec1_alu[1] \in Word
    BY <2>1
  <2> QED BY <2>2, AddrType
<1> DEFINE Set(rd, ra, wr, wa, in) ==
              port' = [port EXCEPT !.read = rd, !.raddr = ra, !.write = wr,
                                   !.waddr = wa, !.datain = in]
<1>q. LoadsNow \in BOOLEAN /\ Retires({ST}) \in BOOLEAN
  BY DEF LoadsNow, Retires
<1>a. Set(LoadsNow, IF LoadsNow THEN Low(Alu1) ELSE port.raddr, Retires({ST}),
          IF Retires({ST}) THEN cpu.exec1_alu[1] ELSE port.waddr,
          IF Retires({ST}) THEN cpu.exec1_alu[0] ELSE port.datain)
  BY DEF Access
<1>3. CASE Retires({ST})
  <2>1. ~LoadsNow
    BY <1>3 DEF Retires, LoadsNow, is_pipe_stalled
  <2>2. is_dma_hazard
    BY <1>3 DEF Retires, is_dma_hazard
  <2>3. port' = [port EXCEPT !.write = TRUE, !.waddr = cpu.exec1_alu[1],
                             !.datain = cpu.exec1_alu[0]]
    <3>1. LoadsNow = FALSE /\ Retires({ST}) = TRUE
      BY <1>q, <1>3, <2>1
    <3>2. Set(FALSE, port.raddr, TRUE, cpu.exec1_alu[1], cpu.exec1_alu[0])
      BY <1>a, <3>1
    <3> QED BY <1>1, <3>2 DEF E!Port
  <2>4. E!llsim_mem_write(cpu.exec1_alu[1], cpu.exec1_alu[0])
    BY <1>1, <2>3 DEF Access, E!llsim_mem_write
  <2> QED BY <1>2, <1>3, <2>1, <2>2, <2>4
<1>4. CASE ~Retires({ST}) /\ LoadsNow
  <2>1. is_dma_hazard
    BY <1>4 DEF LoadsNow, is_dma_hazard
  <2>2. port' = [port EXCEPT !.read = TRUE, !.raddr = Low(Alu1)]
    <3>1. LoadsNow = TRUE /\ Retires({ST}) = FALSE
      BY <1>q, <1>4
    <3>2. Set(TRUE, Low(Alu1), FALSE, port.waddr, port.datain)
      BY <1>a, <3>1
    <3> QED BY <1>1, <3>2 DEF E!Port
  <2> QED BY <1>1, <1>4, <2>1, <2>2 DEF Access, E!llsim_mem_read
<1>5. CASE ~Retires({ST}) /\ ~LoadsNow
  <2>1. port' = port
    <3>1. LoadsNow = FALSE /\ Retires({ST}) = FALSE
      BY <1>q, <1>5
    <3>2. Set(FALSE, port.raddr, FALSE, port.waddr, port.datain)
      BY <1>a, <3>1
    <3> QED BY <1>1, <3>2 DEF E!Port
  <2> QED BY <1>5, <2>1 DEF Access, E!NoAccess, Retires, LoadsNow, is_dma_hazard
<1> QED BY <1>3, <1>4, <1>5

\* Every step of the machine is one of the engine.
LEMMA EngineStep ==
    ASSUME TypeOK, E!PortOwner, [Next]_vars
    PROVE  [E!Next]_E!vars
<1>1. Low(Alu1) \in Int
  BY OperandType, LowType, AddrType
<1>2. CASE sp_ctl
  <2>1. /\ Turn /\ Access /\ phase = "ctl" /\ cpu' = cpu
    BY <1>2 DEF sp_ctl, Compute, StartDma, Halt, Turn
  <2>2. is_dma_hazard' = is_dma_hazard /\ E!CtlFrame
    BY <2>1, HazardFrame DEF Turn, E!CtlFrame
  <2>3. /\ Retires({ST}) =>
              is_dma_hazard /\ \E a \in Int, v \in Word : E!llsim_mem_write(a, v)
        /\ ~Retires({ST}) /\ LoadsNow =>
              is_dma_hazard /\ E!llsim_mem_read(Low(Alu1))
        /\ ~Retires({ST}) /\ ~LoadsNow => ~is_dma_hazard /\ E!NoAccess
        /\ Retires({ST}) => ~LoadsNow
    BY <2>1, AccessIsCpu
  <2>4. CASE Compute
    <3>1. UNCHANGED <<dman, stop_sim>> /\ E!MayRequest
      BY <2>4 DEF Compute, E!MayRequest
    <3>2. CASE Retires({ST})
      BY <2>2, <2>3, <3>1, <3>2 DEF E!CpuWrite, E!Cpu, E!Next
    <3>3. CASE ~Retires({ST}) /\ LoadsNow
      BY <1>1, <2>2, <2>3, <3>1, <3>3 DEF E!CpuRead, E!Cpu, E!Next
    <3>4. CASE ~Retires({ST}) /\ ~LoadsNow
      BY <2>2, <2>3, <3>1, <3>4 DEF E!CpuIdle, E!Cpu, E!Next
    <3> QED BY <3>2, <3>3, <3>4
  <2>5. CASE StartDma
    <3>1. ~Retires({ST}) /\ ~dma.busy /\ UNCHANGED stop_sim
      BY <2>5 DEF StartDma, StartsDma, Retires, DMA, ST
    <3>2. E!MayRequest
      <4>1. /\ Low(cpu.exec1_alu[0]) \in Addr /\ Low(cpu.exec1_aluout) \in Addr
            /\ cpu.exec1_alu[1] \in Int
        <5>1. cpu.exec1_alu \in [0 .. 1 -> Word] /\ cpu.exec1_aluout \in Word
          BY Held DEF TypeOK, Operands
        <5>2. /\ cpu.exec1_alu[0] \in Int /\ cpu.exec1_alu[1] \in Int
              /\ cpu.exec1_aluout \in Int
          BY <5>1, AddrType
        <5> QED BY <5>2, LowType
      <4>2. E!DmaRequest(Low(cpu.exec1_alu[0]), Low(cpu.exec1_aluout),
                         cpu.exec1_alu[1])
        BY <2>5, <3>1 DEF StartDma, E!DmaRequest
      <4> QED BY <4>1, <4>2 DEF E!MayRequest, E!Addr, Addr
    <3>3. CASE LoadsNow
      BY <1>1, <2>2, <2>3, <3>1, <3>2, <3>3 DEF E!CpuRead, E!Cpu, E!Next
    <3>4. CASE ~LoadsNow
      BY <2>2, <2>3, <3>1, <3>2, <3>4 DEF E!CpuIdle, E!Cpu, E!Next
    <3> QED BY <3>3, <3>4
  <2>6. CASE Halt
    <3>1. ~Retires({ST}) /\ stop_sim' = TRUE /\ UNCHANGED dman
      BY <2>6 DEF Halt, Retires, HLT, ST
    <3>2. CASE LoadsNow
      BY <1>1, <2>2, <2>3, <3>1, <3>2 DEF E!CpuHalt, E!Cpu, E!Next
    <3>3. CASE ~LoadsNow
      BY <2>2, <2>3, <3>1, <3>3 DEF E!CpuHalt, E!Cpu, E!Next
    <3> QED BY <3>2, <3>3
  <2> QED BY <1>2, <2>4, <2>5, <2>6 DEF sp_ctl
<1>3. CASE dma_ctl
  <2>1. is_dma_hazard' = is_dma_hazard /\ D!Dma
    BY <1>3, HazardFrame DEF dma_ctl
  <2>2. E!Dma
    BY <2>1 DEF D!Dma, D!DmaIdle, D!DmaReadFirst, D!DmaDoRead, D!DmaDoWrite,
       D!DmaWriteStalled, D!DmaWriteLast, D!DmaDo, D!DmaFrame, D!WriteWord,
       D!LatchedReg, D!llsim_mem_read, D!llsim_mem_write, D!NoAccess, D!Inc,
       E!Dma, E!DmaIdle, E!DmaReadFirst, E!DmaDoRead, E!DmaDoWrite,
       E!DmaWriteStalled, E!DmaWriteLast, E!DmaDo, E!DmaFrame, E!WriteWord,
       E!LatchedReg, E!llsim_mem_read, E!llsim_mem_write, E!NoAccess, E!Inc
  <2> QED BY <2>2 DEF E!Next
<1>4. CASE Commit
  <2>1. is_dma_hazard' \in BOOLEAN
    BY DEF is_dma_hazard
  <2>2. E!Commit
    BY <1>4, <2>1 DEF Commit, D!Commit, D!CommitFrame, D!OutOfRange, D!Addr,
       D!QuietPort, D!DataOut, E!Commit, E!CommitFrame, E!OutOfRange, E!Addr,
       E!QuietPort, E!DataOut
  <2> QED BY <2>2 DEF E!Next
<1>5. CASE CommitFault
  <2>1. E!CommitFault
    BY <1>5, HazardFrame DEF CommitFault, D!CommitFault, D!CommitFrame, D!OutOfRange,
       D!Addr, E!CommitFault, E!CommitFrame, E!OutOfRange, E!Addr
  <2> QED BY <2>1 DEF E!Next
<1>6. CASE FetchFault \/ Stopped \/ UNCHANGED vars
  BY <1>6, HazardFrame DEF FetchFault, Stopped, vars, E!vars
<1> QED BY <1>2, <1>3, <1>4, <1>5, <1>6 DEF Next

\* The engine's memory interface is the same seen through either instance.
LEMMA EngineTypes ==
    /\ D!TypeOK <=> /\ dma \in E!DmaRegisters /\ dman \in E!DmaRegisters
                    /\ sram \in [Addr -> Word] /\ port \in E!Port
                    /\ phase \in {"ctl", "dma", "commit"} /\ stop_sim \in BOOLEAN
                    /\ fault \in {"none", "port", "range"}
    /\ E!TypeOK <=> D!TypeOK
<1>1. is_dma_hazard \in BOOLEAN
  BY DEF is_dma_hazard
<1> QED BY <1>1 DEF D!TypeOK, D!DmaRegisters, D!DmaState, D!Port, D!Addr,
     E!TypeOK, E!DmaRegisters, E!DmaState, E!Port, E!Addr, Addr

\* What the engine's theorems ask of its constants.
LEMMA EngineAssumptions ==
    /\ E!HeightAssumption /\ E!WordAssumption /\ E!JunkAssumption
    /\ E!LensAssumption /\ E!CpuAddrAssumption /\ E!CpuWordAssumption
    /\ E!ImagesAssumption /\ E!DisciplinedAssumption
BY Ranges, AddrType, JunkAssumption
   DEF E!HeightAssumption, E!WordAssumption, E!JunkAssumption, E!LensAssumption,
       E!CpuAddrAssumption, E!CpuWordAssumption, E!ImagesAssumption,
       E!DisciplinedAssumption, E!Addr, Addr

\* The inductive invariant of the machine.
Inv == TypeOK /\ PipeInv /\ E!DmaInv

\* The machine starts as the engine does.
LEMMA EngineInit ==
    ASSUME Init
    PROVE  E!Init
<1>1. is_dma_hazard \in BOOLEAN
  BY DEF is_dma_hazard
<1> QED BY <1>1, ImagesAssumption DEF Init, D!Init, D!ResetRegisters, D!QuietPort,
     D!Addr, Addr, E!Init, E!ResetRegisters, E!QuietPort, E!Addr

\* The engine's part of the type, by its own theorem.
LEMMA EngineTypeStep ==
    ASSUME Inv, [Next]_vars
    PROVE  D!TypeOK' /\ E!DmaInv'
<1>1. E!TypeOK /\ E!DmaInv /\ [E!Next]_E!vars
  <2>1. TypeOK /\ E!PortOwner /\ D!TypeOK /\ E!DmaInv
    BY DEF Inv, TypeOK, E!DmaInv
  <2> QED BY <2>1, EngineStep, EngineTypes
<1>2. E!TypeOK' /\ E!DmaInv'
  BY <1>1, E!TypeStep, E!DmaInvStep, EngineAssumptions
<1>3. E!TypeOK' => D!TypeOK'
  <2>1. is_dma_hazard' \in BOOLEAN
    BY DEF is_dma_hazard
  <2> QED BY DEF D!TypeOK, D!DmaRegisters, D!DmaState, D!Port, D!Addr,
     E!TypeOK, E!DmaRegisters, E!DmaState, E!Port, E!Addr
<1> QED BY <1>2, <1>3

\* One call of sp_ctl, in a state of the invariant.
LEMMA Turned ==
    ASSUME Inv, sp_ctl
    PROVE  /\ Turn /\ Access /\ phase = "ctl" /\ phase' = "dma"
           /\ cpun = cpu /\ cpu' = cpu /\ cpun' = sp_ctl_registers
           /\ Registers(cpu) /\ FetchedWord
           /\ cpu.fetch1.active => cpu.fetch1.pc \in Addr
           /\ cpun' \in CpuRegisters
           /\ cpun'.fetch0.active
           /\ cpun'.fetch1.active => FetchesNow \/ cpu.fetch1.active
           /\ is_pipe_stalled => cpun'.fetch1.active = cpu.fetch1.active
           /\ cpun'.fetch1.pc = IF FetchesNow THEN cpu.fetch0.pc ELSE cpu.fetch1.pc
           /\ IF cpu.fetch1.active
                THEN cpun'.fetch1.use_saved <=> is_pipe_stalled
                ELSE cpun'.fetch1.use_saved = cpu.fetch1.use_saved
           /\ cpu.fetch1.active /\ is_pipe_stalled =>
                 cpun'.fetch1.saved_inst = iport.dataout
           /\ cpun'.exec1.active => /\ cpu.exec0.active /\ ~is_pipe_stalled
                                    /\ cpun'.exec1 = cpu.exec0
                                    /\ cpun'.exec1_alu[1] = Alu1
                                    /\ cpun'.exec1_aluout = AluOut
           /\ LoadBypass(cpun')
<1>1. Turn /\ Access
  BY DEF sp_ctl, Compute, StartDma, Halt
<1>2. /\ phase = "ctl" /\ phase' = "dma" /\ cpu' = cpu /\ cpun' = sp_ctl_registers
  BY <1>1 DEF Turn, sp_ctl_registers
<1>3. /\ TypeOK /\ cpun = cpu /\ Registers(cpu) /\ FetchedWord
      /\ LoadBypass(cpun)
      /\ cpu.fetch1.active => cpu.fetch1.pc \in Addr
  BY <1>2 DEF Inv, PipeInv, Registers, FetchedWord
<1> HIDE DEF sp_ctl_registers
<1> QED BY <1>1, <1>2, <1>3, TurnEffect

\* Reset leaves registers.
LEMMA TypeInit ==
    ASSUME Init
    PROVE  TypeOK
<1>1. E!TypeOK
  BY EngineInit, E!TypeInit, EngineAssumptions
<1>2. NoPrediction \in Prediction /\ 0 \in Word /\ 0 \in Addr /\ 0 \in Int
  BY AddrType DEF NoPrediction, Prediction
<1>3. ResetRegisters \in CpuRegisters
  BY <1>2 DEF ResetRegisters, CpuRegisters, EmptyStage, Fetching, Fetched, Decoding,
     Decoded, Operands
<1>4. btb \in [0 .. BtbSize - 1 -> Prediction] /\ dump \in {<< >>} \cup [Addr -> Word]
  BY <1>2 DEF Init
<1>5. srami \in [Addr -> Word]
  BY ImagesAssumption DEF Init
<1>6. iport \in [read : BOOLEAN, raddr : Int, dataout : Word, fault : BOOLEAN]
  BY <1>2, JunkAssumption DEF Init, QuietIport
<1> QED BY <1>1, <1>3, <1>4, <1>5, <1>6, EngineTypes DEF Init, TypeOK

\* The entry of the retiring instruction.
LEMMA UpdateBtbType ==
    ASSUME TypeOK, Registers(cpu), UpdateBtb
    PROVE  btb' \in [0 .. BtbSize - 1 -> Prediction]
<1>1. CASE ~cpu.exec1.active
  BY <1>1 DEF TypeOK, UpdateBtb
<1>2. CASE cpu.exec1.active
  <2> DEFINE i == cpu.exec1.pc % BtbSize
             old == btb[i]
             new == IF cpu.exec1.opcode \in JumpOps
                      THEN [taken |-> cpu.exec1_aluout,
                            target |-> cpu.exec1.immediate]
                      ELSE [old EXCEPT !.taken = 0]
  <2>1. cpu.exec1.pc \in Addr /\ cpu.exec1.immediate \in Word
    BY Held DEF TypeOK, Decoded
  <2>2. cpu.exec1.pc \in Int /\ cpu.exec1.immediate \in Int
    BY <2>1, AddrType
  <2>3. i \in 0 .. BtbSize - 1
    BY <2>2, BtbSizeAssumption
  <2>4. btb \in [0 .. BtbSize - 1 -> Prediction] /\ old \in Prediction
    BY <2>3 DEF TypeOK
  <2>5. new \in Prediction
    <3>1. [old EXCEPT !.taken = 0] \in Prediction
      BY <2>4 DEF Prediction
    <3>2. cpu.exec1.opcode \in JumpOps =>
            [taken |-> cpu.exec1_aluout, target |-> cpu.exec1.immediate] \in Prediction
      BY <1>2, <2>2 DEF Registers, Prediction
    <3> QED BY <3>1, <3>2
  <2>6. btb' = [btb EXCEPT ![i] = new]
    BY <1>2 DEF UpdateBtb
  <2> HIDE DEF i, new
  <2> QED BY <2>3, <2>4, <2>5, <2>6
<1> QED BY <1>1, <1>2

\* Every step keeps the types.
LEMMA TypeStep ==
    ASSUME Inv, [Next]_vars
    PROVE  TypeOK'
<1>1. TypeOK /\ D!TypeOK'
  BY EngineTypeStep DEF Inv
<1>2. CASE sp_ctl
  <2>1. /\ Turn /\ cpun' \in CpuRegisters /\ cpu' = cpu /\ Registers(cpu)
    BY <1>2, Turned
  <2>2. cpu.fetch0.pc \in Int
    BY <1>1, Held DEF TypeOK, Fetching
  <2>3. iport' \in [read : BOOLEAN, raddr : Int, dataout : Word, fault : BOOLEAN]
    BY <1>1, <2>1, <2>2 DEF Turn, TypeOK
  <2>4. btb' \in [0 .. BtbSize - 1 -> Prediction] /\ srami' = srami
    BY <1>1, <2>1, UpdateBtbType DEF Turn
  <2>5. dump' = dump \/ dump' = sram
    BY <1>2 DEF sp_ctl, Compute, StartDma, Halt
  <2>6. sram \in [Addr -> Word]
    BY <1>1, EngineTypes DEF TypeOK
  <2> QED BY <1>1, <2>1, <2>3, <2>4, <2>5, <2>6 DEF TypeOK
<1>3. CASE dma_ctl \/ CommitFault \/ Stopped \/ UNCHANGED vars
  BY <1>1, <1>3 DEF dma_ctl, CommitFault, Stopped, vars, TypeOK
<1>4. CASE Commit
  <2>1. iport' \in [read : BOOLEAN, raddr : Int, dataout : Word, fault : BOOLEAN]
    <3> DEFINE out == IF iport.read THEN srami[iport.raddr] ELSE Junk
    <3>1. out \in Word
      BY <1>1, <1>4, JunkAssumption DEF Commit, FetchOutOfRange, TypeOK
    <3> QED BY <1>4, <3>1 DEF Commit, QuietIport
  <2> QED BY <1>1, <1>4, <2>1 DEF Commit, TypeOK
<1>5. CASE FetchFault
  <2>1. iport' \in [read : BOOLEAN, raddr : Int, dataout : Word, fault : BOOLEAN]
    BY <1>1, <1>5 DEF FetchFault, TypeOK
  <2> QED BY <1>1, <1>5, <2>1 DEF FetchFault, TypeOK
<1> QED BY <1>2, <1>3, <1>4, <1>5 DEF Next

-----------------------------------------------------------------------------
(***************************************************************************)
(* The invariant of the pipe is kept.                                      *)
(***************************************************************************)
\* Reset leaves an empty pipe.
LEMMA PipeInit ==
    ASSUME Init
    PROVE  PipeInv
BY DEF Init, D!Init, ResetRegisters, EmptyStage, NoPrediction, PipeInv, Registers,
       LoadBypass, FetchedWord, LoadedWord, Retires

\* A call of sp_ctl keeps the invariant of the pipe.
LEMMA TurnKeepsPipe ==
    ASSUME Inv, sp_ctl
    PROVE  PipeInv'
<1> USE Turned
<1>1. phase = "ctl" /\ phase' = "dma" /\ cpu' = cpu /\ srami' = srami
  BY DEF Turn
<1>2. Registers(cpun')
  <2>1. /\ cpun'.exec1.active /\ cpun'.exec1.opcode \in JumpOps
              => cpun'.exec1_aluout \in {0, 1}
    BY AluOutType DEF Inv
  <2>2. cpun'.fetch1.use_saved => cpun'.fetch1.active /\ ~cpun'.exec1.active
    BY DEF Registers
  <2> QED BY <2>1, <2>2 DEF Registers
<1>3. Registers(cpu)'
  BY <1>1 DEF Registers, LoadBypass
<1>4. is_pipe_stalled' => ~cpun'.exec1.active
  BY <1>1, HazardFrame
<1>5. FetchedWord'
  <2> SUFFICES ASSUME cpun'.fetch1.active
               PROVE  IF cpun'.fetch1.use_saved
                        THEN /\ cpun'.fetch1.pc \in Addr
                             /\ cpun'.fetch1.saved_inst = srami[cpun'.fetch1.pc]
                        ELSE iport'.read /\ iport'.raddr = cpun'.fetch1.pc
    BY <1>1 DEF FetchedWord
  <2>1. CASE cpun'.fetch1.use_saved
    <3>1. cpu.fetch1.active /\ is_pipe_stalled /\ ~cpu.fetch1.use_saved
      <4>1. cpu.fetch1.active
        BY <2>1 DEF Registers
      <4>2. is_pipe_stalled
        BY <2>1, <4>1
      <4>3. cpu.exec1.active
        BY <4>2, StallsDoNotFlush
      <4> QED BY <4>1, <4>2, <4>3 DEF Registers
    <3>2. cpun'.fetch1.pc = cpu.fetch1.pc /\ cpu.fetch1.pc \in Addr
      BY <3>1 DEF FetchesNow
    <3>3. srami[cpu.fetch1.pc] = iport.dataout
      BY <1>1, <3>1 DEF FetchedWord, SavedWordIsFetched
    <3>4. cpun'.fetch1.saved_inst = iport.dataout
      BY <3>1
    <3> QED BY <2>1, <3>2, <3>3, <3>4
  <2>2. CASE ~cpun'.fetch1.use_saved
    <3>1. FetchesNow
      BY <2>2 DEF Registers, FetchesNow
    <3>2. iport'.read /\ iport'.raddr = cpu.fetch0.pc
      BY <3>1 DEF Turn, Inv, TypeOK
    <3> QED BY <2>2, <3>1, <3>2
  <2> QED BY <2>1, <2>2
<1>6. LoadedWord'
  <2> SUFFICES ASSUME cpun'.exec1.active, cpun'.exec1.opcode = LD
               PROVE  /\ is_dma_hazard'
                      /\ port'.read /\ port'.raddr = Low(cpun'.exec1_alu[1])
    BY <1>1 DEF LoadedWord
  <2>1. LoadsNow
    BY DEF LoadsNow
  <2>2. is_dma_hazard /\ is_dma_hazard' = is_dma_hazard
    BY <2>1, <1>1, HazardFrame DEF LoadsNow, is_dma_hazard
  <2>3. port'.read /\ port'.raddr = Low(Alu1)
    <3>1. port \in E!Port
      BY EngineTypes DEF Inv, TypeOK
    <3> QED BY <2>1, <3>1 DEF Access, E!Port
  <2> QED BY <2>2, <2>3
<1> QED BY <1>1, <1>2, <1>3, <1>4, <1>5, <1>6 DEF PipeInv

\* The engine leaves a port that the processor uses alone.
LEMMA EngineKeepsPipe ==
    ASSUME Inv, dma_ctl
    PROVE  PipeInv'
<1>1. /\ UNCHANGED <<cpu, cpun, btb, srami, iport, dump>> /\ phase = "dma"
      /\ phase' = "commit" /\ sram' = sram
  BY DEF dma_ctl, D!Dma, D!DmaIdle, D!DmaReadFirst, D!DmaDoRead, D!DmaDoWrite,
     D!DmaWriteStalled, D!DmaWriteLast, D!DmaDo, D!DmaFrame
<1>2. is_dma_hazard' = is_dma_hazard /\ is_pipe_stalled' = is_pipe_stalled
  BY <1>1, HazardFrame
<1>3. is_dma_hazard => port' = port
  BY DEF dma_ctl, D!Dma, D!DmaIdle, D!DmaReadFirst, D!DmaDoRead, D!DmaDoWrite,
     D!DmaWriteStalled, D!DmaWriteLast, D!DmaDo, D!NoAccess
<1>4. PipeInv
  BY DEF Inv
<1> QED BY <1>1, <1>2, <1>3, <1>4 DEF PipeInv, Registers, LoadBypass, FetchedWord,
           LoadedWord

\* The clock edge brings the words that were asked for.
LEMMA CommitKeepsPipe ==
    ASSUME Inv, Commit
    PROVE  PipeInv'
<1>1. /\ phase = "commit" /\ phase' = "ctl" /\ cpu' = cpun /\ cpun' = cpun
      /\ srami' = srami
      /\ iport' = QuietIport(IF iport.read THEN srami[iport.raddr] ELSE Junk)
      /\ iport.read => iport.raddr \in Addr
  BY DEF Commit, D!Commit, D!CommitFrame, FetchOutOfRange
<1>2. Registers(cpun)
  BY DEF Inv, PipeInv
<1>3. Registers(cpu)' /\ Registers(cpun)'
  BY <1>1, <1>2 DEF Registers, LoadBypass
<1>4. FetchedWord'
  <2>1. iport.read => iport'.dataout = srami[iport.raddr]
    BY <1>1 DEF QuietIport
  <2>2. cpun.fetch1.active =>
              IF cpun.fetch1.use_saved
                THEN /\ cpun.fetch1.pc \in Addr
                     /\ cpun.fetch1.saved_inst = srami[cpun.fetch1.pc]
                ELSE iport.read /\ iport.raddr = cpun.fetch1.pc
    BY <1>1 DEF Inv, PipeInv, FetchedWord
  <2> QED BY <1>1, <2>1, <2>2 DEF FetchedWord, SavedWordIsFetched
<1>5. LoadedWord'
  <2> SUFFICES ASSUME cpun.exec1.active, cpun.exec1.opcode = LD
               PROVE  port'.dataout = sram'[Low(cpun.exec1_alu[1])]
    BY <1>1 DEF LoadedWord, Retires
  <2>1. port.read /\ port.raddr = Low(cpun.exec1_alu[1])
    BY <1>1 DEF Inv, PipeInv, LoadedWord
  <2>2. ~port.write
    BY <2>1 DEF Inv, E!DmaInv, E!PortOwner
  <2>3. port'.dataout = sram[port.raddr] /\ sram' = sram
    BY <2>1, <2>2 DEF Commit, D!Commit, D!QuietPort, D!DataOut
  <2> QED BY <2>1, <2>3
<1> QED BY <1>1, <1>3, <1>4, <1>5 DEF PipeInv

\* Every step keeps the invariant of the pipe.
LEMMA PipeStep ==
    ASSUME Inv, [Next]_vars
    PROVE  PipeInv'
<1>1. CASE sp_ctl
  BY <1>1, TurnKeepsPipe
<1>2. CASE dma_ctl
  BY <1>2, EngineKeepsPipe
<1>3. CASE Commit
  BY <1>3, CommitKeepsPipe
<1>4. CASE CommitFault \/ FetchFault
  <2>1. /\ UNCHANGED <<cpu, cpun, srami, sram, port, phase>>
        /\ iport' = iport \/ (iport'.read = iport.read /\ iport'.raddr = iport.raddr)
        /\ phase = "commit"
    BY <1>4 DEF CommitFault, D!CommitFault, D!CommitFrame, FetchFault, Inv, TypeOK
  <2>2. is_dma_hazard' = is_dma_hazard /\ is_pipe_stalled' = is_pipe_stalled
    BY <2>1, HazardFrame
  <2> QED BY <2>1, <2>2 DEF Inv, PipeInv, Registers, LoadBypass, FetchedWord, LoadedWord
<1>5. CASE Stopped \/ UNCHANGED vars
  <2>1. UNCHANGED vars
    BY <1>5 DEF Stopped
  <2>2. is_dma_hazard' = is_dma_hazard /\ is_pipe_stalled' = is_pipe_stalled
    BY <2>1, HazardFrame DEF vars
  <2> QED BY <2>1, <2>2 DEF vars, Inv, PipeInv, Registers, LoadBypass, FetchedWord,
             LoadedWord, SavedWordIsFetched, Retires
<1> QED BY <1>1, <1>2, <1>3, <1>4, <1>5 DEF Next

-----------------------------------------------------------------------------
\* Every reachable state satisfies it.
LEMMA Invariant == Spec => []Inv
<1>1. Init => Inv
  <2>1. Init => TypeOK /\ PipeInv /\ E!Init
    BY TypeInit, PipeInit, EngineInit
  <2>2. E!Init => E!DmaInv
    BY E!DmaInvInit, EngineAssumptions
  <2> QED BY <2>1, <2>2 DEF Inv
<1>2. Inv /\ [Next]_vars => Inv'
  BY TypeStep, PipeStep, EngineTypeStep DEF Inv
<1> QED BY <1>1, <1>2, PTL DEF Spec

(***************************************************************************)
(* The registers, the memories and the engine keep their types: no stage   *)
(* computes more than a word, and an instruction past fetch1 comes from an *)
(* address of the memory.                                                  *)
(***************************************************************************)
THEOREM TypeCorrect == Spec => []TypeOK
<1>1. Inv => TypeOK
  BY DEF Inv
<1> QED BY <1>1, Invariant, PTL

(***************************************************************************)
(* A stall puts a bubble into exec1, and without an instruction there      *)
(* nothing stalls: sp_ctl never stalls in two cycles in a row.             *)
(***************************************************************************)
THEOREM StallsNeverLast == Spec => StallsAreSingle
<1>1. Inv /\ [Next]_vars =>
        [phase = "commit" /\ phase' = "ctl" /\ is_pipe_stalled
            => ~is_pipe_stalled']_vars
  <2> SUFFICES ASSUME Inv, [Next]_vars, phase = "commit", phase' = "ctl",
                      is_pipe_stalled
               PROVE  ~is_pipe_stalled'
    OBVIOUS
  <2>1. ~cpun.exec1.active
    BY DEF Inv, PipeInv
  <2>2. Commit
    BY DEF Next, sp_ctl, Compute, StartDma, Halt, Turn, dma_ctl, D!Dma, D!DmaIdle,
       D!DmaReadFirst, D!DmaDoRead, D!DmaDoWrite, D!DmaWriteStalled,
       D!DmaWriteLast, D!DmaDo, D!DmaFrame, CommitFault, D!CommitFault,
       FetchFault, Stopped, vars
  <2>3. cpu' = cpun
    BY <2>2 DEF Commit
  <2> QED BY <2>1, <2>3 DEF is_pipe_stalled
<1> QED BY <1>1, Invariant, PTL DEF Spec, StallsAreSingle

(***************************************************************************)
(* The word that fetch1 hands to dec0, saved by a stall or fresh from the  *)
(* instruction memory, is the word at its own address.                     *)
(***************************************************************************)
THEOREM SavedWordCorrect == Spec => []SavedWordIsFetched
<1>1. Inv => SavedWordIsFetched
  BY DEF Inv, PipeInv, FetchedWord, SavedWordIsFetched
<1> QED BY <1>1, Invariant, PTL

(***************************************************************************)
(* The word that the load bypass offers is the one in the register file.   *)
(***************************************************************************)
THEOREM LoadBypassCorrect == Spec => []LoadBypassIsCurrent
<1>1. Inv => LoadBypassIsCurrent
  BY DEF Inv, PipeInv, Registers, LoadBypass, LoadBypassIsCurrent
<1> QED BY <1>1, Invariant, PTL

(***************************************************************************)
(* The load in exec1 finds on the data output the word of its own address, *)
(* whatever the engine did with the port before and does after.            *)
(***************************************************************************)
THEOREM LoadedWordCorrect == Spec => []LoadedWordIsFresh
<1>1. Inv => LoadedWordIsFresh
  BY DEF Inv, PipeInv, LoadedWord, LoadedWordIsFresh
<1> QED BY <1>1, Invariant, PTL

-----------------------------------------------------------------------------
(***************************************************************************)
(* The pipeline is a processor as the engine expects one, whatever program *)
(* it runs: is_dma_hazard names the cycles in which it drives the memory,  *)
(* and it asks for a copy only when none is busy.                          *)
(***************************************************************************)
THEOREM PipelineDrivesEngine == Spec => E!Spec
<1>1. Init => E!Init
  BY EngineInit
<1>2. Inv /\ [Next]_vars => [E!Next]_E!vars
  BY EngineStep DEF Inv, E!DmaInv
<1> QED BY <1>1, <1>2, Invariant, PTL DEF Spec, E!Spec

(***************************************************************************)
(* The same for the engine that the runs instantiate, when the programs may*)
(* use every length, address and word, as those of the code may.           *)
(***************************************************************************)
THEOREM PipelineObeysEngine ==
    ASSUME DmaLens = Int, CpuAddr = Int, StoreWords = Word
    PROVE  Spec => ObeysEngine
<1>1. E!Init => D!Init
  BY DEF D!Init, D!ResetRegisters, D!QuietPort, D!Addr, E!Init, E!ResetRegisters,
     E!QuietPort, E!Addr
<1>2. [E!Next]_E!vars => [D!Next]_D!vars
  <2>1. E!Cpu => D!Cpu
    BY DEF D!Cpu, D!CpuIdle, D!CpuRead, D!CpuWrite, D!CpuHalt, D!CtlFrame,
       D!MayRequest, D!DmaRequest, D!llsim_mem_read, D!llsim_mem_write, D!NoAccess,
       D!Addr, D!InFlight, D!Inc, D!Dec,
       E!Cpu, E!CpuIdle, E!CpuRead, E!CpuWrite, E!CpuHalt, E!CtlFrame,
       E!MayRequest, E!DmaRequest, E!llsim_mem_read, E!llsim_mem_write, E!NoAccess,
       E!Addr, E!InFlight, E!Inc, E!Dec
  <2>2. E!Dma => D!Dma
    BY DEF D!Dma, D!DmaIdle, D!DmaReadFirst, D!DmaDoRead, D!DmaDoWrite,
       D!DmaWriteStalled, D!DmaWriteLast, D!DmaDo, D!DmaFrame, D!WriteWord,
       D!LatchedReg, D!llsim_mem_read, D!llsim_mem_write, D!NoAccess, D!Inc,
       E!Dma, E!DmaIdle, E!DmaReadFirst, E!DmaDoRead, E!DmaDoWrite,
       E!DmaWriteStalled, E!DmaWriteLast, E!DmaDo, E!DmaFrame, E!WriteWord,
       E!LatchedReg, E!llsim_mem_read, E!llsim_mem_write, E!NoAccess, E!Inc
  <2>3. E!Commit => D!Commit
    BY DEF D!Commit, D!CommitFrame, D!OutOfRange, D!Addr, D!QuietPort, D!DataOut,
       E!Commit, E!CommitFrame, E!OutOfRange, E!Addr, E!QuietPort, E!DataOut
  <2>4. E!CommitFault => D!CommitFault
    BY DEF D!CommitFault, D!CommitFrame, D!OutOfRange, D!Addr, E!CommitFault,
       E!CommitFrame, E!OutOfRange, E!Addr
  <2>5. E!Stopped \/ UNCHANGED E!vars => UNCHANGED D!vars
    BY DEF D!vars, E!Stopped, E!vars
  <2> QED BY <2>1, <2>2, <2>3, <2>4, <2>5 DEF D!Next, E!Next
<1>3. E!Spec => D!Spec
  BY <1>1, <1>2, PTL DEF D!Spec, E!Spec
<1> QED BY <1>3, PipelineDrivesEngine DEF ObeysEngine

(***************************************************************************)
(* Beside the pipeline, too, a copy moves the words of its block in order  *)
(* and touches nothing else, whatever the program stores meanwhile.        *)
(***************************************************************************)
THEOREM PipelineCopies == Spec => E!ImplementsStreamCopy
BY PipelineDrivesEngine, E!EngineImplementsStream, EngineAssumptions

(***************************************************************************)
(* No llsim assertion of the data memory is the engine's doing in the      *)
(* pipelined machine either.                                               *)
(***************************************************************************)
THEOREM PipelineKeepsPort == Spec => []E!NoDmaFault
<1>1. E!Spec => []E!NoDmaFault
  BY E!PortExclusive, EngineAssumptions
<1> QED BY <1>1, PipelineDrivesEngine
=============================================================================
