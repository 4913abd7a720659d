----------------------------- MODULE SP2Proofs ------------------------------
(***************************************************************************)
(* Theorems about the multicycle SP, for every width of the immediate      *)
(* field and every program: what its registers hold, that beside it the DMA*)
(* engine does what it does beside the most general processor, and that it *)
(* implements the programmer's machine and the instruction set simulator.  *)
(***************************************************************************)
EXTENDS SP2, SPWordProofs

\* The engine beside any processor: every length, address and word.
E == INSTANCE DmaCtlProofs WITH
        hazard <- Hazard, Lens <- Int, CpuAddr <- Int, CpuWord <- Word,
        Images <- [Addr -> Word], Disciplined <- FALSE

-----------------------------------------------------------------------------
(***************************************************************************)
(* The registers: what may be assigned to them, and what they hold.        *)
(***************************************************************************)
LEMMA Put ==
    ASSUME NEW n \in CpuRegisters
    PROVE  /\ \A x \in [0 .. 7 -> Word] : [n EXCEPT !.r = x] \in CpuRegisters
           /\ \A x \in Int : [n EXCEPT !.pc = x] \in CpuRegisters
           /\ \A x \in Word : [n EXCEPT !.inst = x] \in CpuRegisters
           /\ \A x \in 0 .. 31 : [n EXCEPT !.opcode = x] \in CpuRegisters
           /\ \A x \in 0 .. 7 : [n EXCEPT !.dst = x] \in CpuRegisters
           /\ \A x \in 0 .. 7 : [n EXCEPT !.src0 = x] \in CpuRegisters
           /\ \A x \in 0 .. 7 : [n EXCEPT !.src1 = x] \in CpuRegisters
           /\ \A x \in Word : [n EXCEPT !.immediate = x] \in CpuRegisters
           /\ \A x \in Word : [n EXCEPT !.alu0 = x] \in CpuRegisters
           /\ \A x \in Word : [n EXCEPT !.alu1 = x] \in CpuRegisters
           /\ \A x \in Word : [n EXCEPT !.aluout = x] \in CpuRegisters
           /\ \A x \in CtlState : [n EXCEPT !.ctl_state = x] \in CpuRegisters
BY DEF CpuRegisters

\* What registers hold.
LEMMA Held ==
    ASSUME NEW n \in CpuRegisters
    PROVE  /\ n.r \in [0 .. 7 -> Word] /\ n.pc \in Int /\ n.inst \in Word
           /\ n.opcode \in 0 .. 31 /\ n.dst \in 0 .. 7
           /\ n.src0 \in 0 .. 7 /\ n.src1 \in 0 .. 7 /\ n.immediate \in Word
           /\ n.alu0 \in Word /\ n.alu1 \in Word /\ n.aluout \in Word
           /\ n.ctl_state \in CtlState
           /\ n.r[n.dst] \in Word /\ n.r[n.src0] \in Word /\ n.r[n.src1] \in Word
BY DEF CpuRegisters

\* What EXEC0 computes is a word.
LEMMA AluOutType ==
    ASSUME TypeOK
    PROVE  AluOut \in Word
<1>1. /\ cpu.alu0 \in Word /\ cpu.alu1 \in Word /\ cpu.r[cpu.dst] \in Word
      /\ cpun.aluout \in Word /\ cpu.opcode \in 0 .. 31
  BY Held DEF TypeOK
<1>2. 0 \in Word /\ 1 \in Word /\ cpu.alu0 \in Int /\ cpun.aluout \in Int
  BY <1>1, AddrType
<1>3. \A b : Bool(b) \in Word
  BY <1>2 DEF Bool
<1>4. cpu.opcode \in ArithOps => Arith(cpu.opcode, cpu.alu0, cpu.alu1) \in Word
  BY <1>1, ArithType
<1>5. Wrap(cpu.alu0 * Height) + Low(cpun.aluout) \in Word
  BY <1>2, UpperHalf
<1>6. /\ LHI \notin ArithOps /\ DMA \notin ArithOps /\ DMP \notin ArithOps
      /\ JIN \notin ArithOps /\ \A o \in BranchOps : o \notin ArithOps
      /\ LHI # DMA /\ LHI # DMP /\ DMA # DMP /\ LHI # JIN /\ DMA # JIN /\ DMP # JIN
      /\ {LHI, DMA, DMP, JIN} \cap BranchOps = {}
  BY DEF ArithOps, BranchOps, ADD, SUB, LSF, RSF, AND, OR, XOR, LHI, DMA, DMP, JIN,
         JLT, JLE, JEQ, JNE
<1>7. CASE cpu.opcode \in ArithOps
  BY <1>4, <1>6, <1>7 DEF AluOut
<1>8. CASE cpu.opcode \in BranchOps
  BY <1>3, <1>6, <1>8 DEF AluOut
<1>9. CASE cpu.opcode \notin ArithOps /\ cpu.opcode \notin BranchOps
  BY <1>1, <1>2, <1>3, <1>5, <1>6, <1>9 DEF AluOut
<1> QED BY <1>7, <1>8, <1>9

-----------------------------------------------------------------------------
(***************************************************************************)
(* The inductive invariant.  In the first third of a cycle the new         *)
(* registers are the old ones.  An instruction that has been fetched was   *)
(* fetched from the memory, or the cycle of its fetch ends the simulation. *)
(***************************************************************************)
PathInv ==
    /\ phase = "ctl" => cpun = cpu
    /\ cpu.ctl_state \in CtlState \ {"IDLE", "FETCH0"} => cpu.pc \in Addr
    /\ phase # "ctl" /\ cpun.ctl_state \in CtlState \ {"IDLE", "FETCH0"} =>
          \/ cpun.pc \in Addr
          \/ port.read /\ port.raddr = cpun.pc

Inv == TypeOK /\ PathInv /\ E!DmaInv

-----------------------------------------------------------------------------
(***************************************************************************)
(* The processor as the engine sees it.                                    *)
(***************************************************************************)
LEMMA EngineTypes ==
    /\ D!TypeOK <=> /\ dma \in E!DmaRegisters /\ dman \in E!DmaRegisters
                    /\ sram \in [Addr -> Word] /\ port \in E!Port
                    /\ phase \in {"ctl", "dma", "commit"} /\ stop_sim \in BOOLEAN
                    /\ fault \in {"none", "port", "range"}
    /\ E!TypeOK <=> D!TypeOK
<1>1. Hazard \in BOOLEAN
  BY DEF Hazard
<1> QED BY <1>1 DEF D!TypeOK, D!DmaRegisters, D!DmaState, D!Port, D!Addr,
     E!TypeOK, E!DmaRegisters, E!DmaState, E!Port, E!Addr, Addr

\* What the engine's theorems ask of its constants.
LEMMA EngineAssumptions ==
    /\ E!HeightAssumption /\ E!WordAssumption /\ E!JunkAssumption
    /\ E!LensAssumption /\ E!CpuAddrAssumption /\ E!CpuWordAssumption
    /\ E!ImagesAssumption /\ E!DisciplinedAssumption
BY Ranges, AddrType, JunkAssumption
   DEF E!HeightAssumption, E!WordAssumption, E!JunkAssumption, E!LensAssumption,
       E!CpuAddrAssumption, E!CpuWordAssumption, E!ImagesAssumption,
       E!DisciplinedAssumption, E!Addr, Addr

\* The machine starts as the engine does.
LEMMA EngineInit ==
    ASSUME Init
    PROVE  E!Init
<1>1. Hazard \in BOOLEAN
  BY DEF Hazard
<1> QED BY <1>1, ImagesAssumption DEF Init, D!Init, D!ResetRegisters, D!QuietPort,
     D!Addr, Addr, E!Init, E!ResetRegisters, E!QuietPort, E!Addr

\* A state of sp_ctl without access in a cycle that is none of the hazard's.
LEMMA QuietTurn ==
    ASSUME NEW s \in CtlState, State(s), D!NoAccess, UNCHANGED <<dman, stop_sim>>,
           ~Hazard
    PROVE  E!Next
<1>1. Hazard' = Hazard
  BY DEF State, Hazard
<1>2. E!CpuIdle
  BY <1>1 DEF State, E!CpuIdle, E!CtlFrame, D!NoAccess, E!NoAccess, E!MayRequest
<1> QED BY <1>2 DEF E!Cpu, E!Next

\* The states of sp_ctl that drive the memory are those of the hazard.
LEMMA HazardStates ==
    /\ cpu.ctl_state \in {"IDLE", "FETCH1", "DEC0", "DEC1"} => ~Hazard
    /\ cpu.ctl_state = "FETCH0" => Hazard
    /\ cpu.ctl_state = "EXEC0" => (Hazard <=> cpu.opcode = LD)
    /\ cpu.ctl_state = "EXEC1" => (Hazard <=> cpu.opcode = ST)
BY DEF Hazard

\* Every step of the machine is one of the engine.
LEMMA EngineStep ==
    ASSUME TypeOK, [Next]_vars
    PROVE  [E!Next]_E!vars
<1>1. /\ cpu.pc \in Int /\ cpu.alu0 \in Word /\ cpu.alu1 \in Int
      /\ Low(cpu.alu0) \in Addr /\ Low(cpu.aluout) \in Addr /\ Low(cpu.alu1) \in Int
  <2>1. /\ cpu.pc \in Int /\ cpu.alu0 \in Word /\ cpu.alu1 \in Word
        /\ cpu.aluout \in Word
    BY Held DEF TypeOK
  <2> QED BY <2>1, AddrType, LowType
<1>2. CASE Idle \/ Fetch1 \/ Dec0 \/ Dec1
  BY <1>2, QuietTurn, HazardStates DEF Idle, Fetch1, Dec0, Dec1, Quiet, State, CtlState
<1>3. CASE Fetch0
  <2>1. Hazard /\ Hazard' = Hazard
    BY <1>3, HazardStates DEF Fetch0, State, Hazard
  <2>2. E!CpuRead
    BY <1>1, <1>3, <2>1 DEF Fetch0, State, E!CpuRead, E!CtlFrame, E!MayRequest,
       D!llsim_mem_read, E!llsim_mem_read
  <2> QED BY <2>2 DEF E!Cpu, E!Next
<1>4. CASE Exec0
  <2>1. CASE cpu.opcode = LD
    <3>1. Hazard /\ Hazard' = Hazard
      BY <1>4, <2>1, HazardStates DEF Exec0, State, Hazard
    <3>2. E!CpuRead
      BY <1>1, <1>4, <2>1, <3>1 DEF Exec0, State, E!CpuRead, E!CtlFrame,
         E!MayRequest, D!llsim_mem_read, E!llsim_mem_read
    <3> QED BY <3>2 DEF E!Cpu, E!Next
  <2>2. CASE cpu.opcode # LD
    BY <1>4, <2>2, QuietTurn, HazardStates DEF Exec0, State, CtlState
  <2> QED BY <2>1, <2>2
<1>5. CASE Exec1Alu \/ Exec1Ld \/ Exec1DmaBusy \/ Exec1Jump \/ Exec1Illegal
  <2>1. cpu.ctl_state = "EXEC1" /\ cpu.opcode # ST /\ State("EXEC1") /\ Quiet
    BY <1>5 DEF Exec1Alu, Exec1Ld, Exec1DmaBusy, Exec1Jump, Exec1Illegal, Exec1,
       State, ArithOps, BranchOps, ADD, SUB, LSF, RSF, AND, OR, XOR, LHI, LD, ST, DMA,
       DMP, JLT, JLE, JEQ, JNE, JIN
  <2> QED BY <2>1, QuietTurn, HazardStates DEF Quiet, CtlState
<1>6. CASE Exec1St
  <2>1. Hazard /\ Hazard' = Hazard
    BY <1>6, HazardStates DEF Exec1St, Exec1, State, Hazard
  <2>2. E!CpuWrite
    <3>1. E!llsim_mem_write(cpu.alu1, cpu.alu0)
      BY <1>6 DEF Exec1St, D!llsim_mem_write, E!llsim_mem_write
    <3> QED BY <1>1, <1>6, <2>1, <3>1 DEF Exec1St, Exec1, State, E!CpuWrite, E!CtlFrame
  <2> QED BY <2>2 DEF E!Cpu, E!Next
<1>7. CASE Exec1Dma
  <2>1. ~Hazard /\ Hazard' = Hazard
    BY <1>7, HazardStates DEF Exec1Dma, Exec1, State, Hazard, DMA, ST
  <2>2. E!MayRequest
    <3>1. E!DmaRequest(Low(cpu.alu0), Low(cpu.aluout), cpu.alu1)
      BY <1>7 DEF Exec1Dma, E!DmaRequest
    <3> QED BY <1>1, <3>1 DEF E!MayRequest, E!Addr, Addr
  <2>3. E!CpuIdle
    BY <1>7, <2>1, <2>2 DEF Exec1Dma, Exec1, State, E!CpuIdle, E!CtlFrame,
       D!NoAccess, E!NoAccess
  <2> QED BY <2>3 DEF E!Cpu, E!Next
<1>8. CASE Exec1Hlt
  <2>1. ~Hazard /\ Hazard' = Hazard
    BY <1>8, HazardStates DEF Exec1Hlt, Exec1, State, Hazard, HLT, ST
  <2>2. E!CpuHalt
    BY <1>8, <2>1 DEF Exec1Hlt, Exec1, State, E!CpuHalt, E!CtlFrame,
       D!NoAccess, E!NoAccess
  <2> QED BY <2>2 DEF E!Cpu, E!Next
<1>9. CASE dma_ctl
  <2>1. Hazard' = Hazard /\ D!Dma
    BY <1>9 DEF dma_ctl, Hazard
  <2>2. E!Dma
    BY <2>1 DEF D!Dma, D!DmaIdle, D!DmaReadFirst, D!DmaDoRead, D!DmaDoWrite,
       D!DmaWriteStalled, D!DmaWriteLast, D!DmaDo, D!DmaFrame, D!WriteWord,
       D!LatchedReg, D!llsim_mem_read, D!llsim_mem_write, D!NoAccess, D!Inc,
       E!Dma, E!DmaIdle, E!DmaReadFirst, E!DmaDoRead, E!DmaDoWrite,
       E!DmaWriteStalled, E!DmaWriteLast, E!DmaDo, E!DmaFrame, E!WriteWord,
       E!LatchedReg, E!llsim_mem_read, E!llsim_mem_write, E!NoAccess, E!Inc
  <2> QED BY <2>2 DEF E!Next
<1>10. CASE Commit
  <2>1. Hazard' \in BOOLEAN
    BY DEF Hazard
  <2>2. E!Commit
    BY <1>10, <2>1 DEF Commit, D!Commit, D!CommitFrame, D!OutOfRange, D!Addr,
       D!QuietPort, D!DataOut, E!Commit, E!CommitFrame, E!OutOfRange, E!Addr,
       E!QuietPort, E!DataOut
  <2> QED BY <2>2 DEF E!Next
<1>11. CASE CommitFault
  <2>1. E!CommitFault
    BY <1>11 DEF CommitFault, D!CommitFault, D!CommitFrame, D!OutOfRange,
       D!Addr, E!CommitFault, E!CommitFrame, E!OutOfRange, E!Addr, Hazard
  <2> QED BY <2>1 DEF E!Next
<1>12. CASE Stopped \/ UNCHANGED vars
  BY <1>12 DEF Stopped, vars, E!vars, Hazard
<1> QED BY <1>2, <1>3, <1>4, <1>5, <1>6, <1>7, <1>8, <1>9, <1>10, <1>11, <1>12
        DEF Next, sp_ctl

\* The engine's side of the invariant is the one of its own theorems.
LEMMA EngineTypeStep ==
    ASSUME Inv, [Next]_vars
    PROVE  D!TypeOK' /\ E!DmaInv'
<1>1. E!TypeOK /\ E!DmaInv /\ [E!Next]_E!vars
  BY EngineStep, EngineTypes DEF Inv, TypeOK
<1>2. E!TypeOK' /\ E!DmaInv'
  BY <1>1, E!TypeStep, E!DmaInvStep, EngineAssumptions
<1>3. E!TypeOK' => D!TypeOK'
  <2>1. Hazard' \in BOOLEAN
    BY DEF Hazard
  <2> QED BY DEF D!TypeOK, D!DmaRegisters, D!DmaState, D!Port, D!Addr,
     E!TypeOK, E!DmaRegisters, E!DmaState, E!Port, E!Addr
<1> QED BY <1>2, <1>3

-----------------------------------------------------------------------------
(***************************************************************************)
(* The invariant is kept.                                                  *)
(***************************************************************************)
LEMMA TypeInit ==
    ASSUME Init
    PROVE  TypeOK
<1>1. E!TypeOK
  BY EngineInit, E!TypeInit, EngineAssumptions
<1>2. ResetRegisters \in CpuRegisters
  <2>1. 0 \in Word /\ 0 \in Int /\ "IDLE" \in CtlState
    BY AddrType DEF CtlState
  <2> QED BY <2>1 DEF ResetRegisters, CpuRegisters
<1> QED BY <1>1, <1>2, EngineTypes DEF Init, TypeOK

\* One call of sp_ctl.
LEMMA TurnType ==
    ASSUME Inv, sp_ctl
    PROVE  /\ cpun' \in CpuRegisters /\ cpu' = cpu /\ cpun = cpu
           /\ phase = "ctl" /\ phase' = "dma"
           /\ dump' = dump \/ dump' = sram
<1>1. /\ phase = "ctl" /\ phase' = "dma" /\ cpu' = cpu
      /\ dump' = dump \/ dump' = sram
  BY DEF sp_ctl, Idle, Fetch0, Fetch1, Dec0, Dec1, Exec0, Exec1Alu, Exec1Ld, Exec1St,
     Exec1DmaBusy, Exec1Dma, Exec1Jump, Exec1Hlt, Exec1Illegal, Exec1, State, Quiet
<1>2. cpun = cpu /\ cpun \in CpuRegisters
  BY <1>1 DEF Inv, PathInv, TypeOK
<1>3. /\ cpu.r \in [0 .. 7 -> Word] /\ cpu.pc \in Int /\ cpu.pc + 1 \in Int
      /\ cpu.r[cpu.src0] \in Word /\ cpu.r[cpu.src1] \in Word
      /\ cpu.immediate \in Word /\ cpu.aluout \in Word /\ cpu.inst \in Word
      /\ cpu.immediate \in Int /\ 0 \in Int
  <2>1. /\ cpu.r \in [0 .. 7 -> Word] /\ cpu.pc \in Int
        /\ cpu.r[cpu.src0] \in Word /\ cpu.r[cpu.src1] \in Word
        /\ cpu.immediate \in Word /\ cpu.aluout \in Word /\ cpu.inst \in Word
    BY <1>2, Held
  <2>2. cpu.immediate \in Int
    BY <2>1, AddrType
  <2> QED BY <2>1, <2>2
<1>4. port.dataout \in Word
  BY EngineTypes DEF Inv, TypeOK, E!Port
<1>5. AfterExec1 \in CtlState /\ CtlState = {"IDLE", "FETCH0", "FETCH1", "DEC0",
                                            "DEC1", "EXEC0", "EXEC1"}
  BY DEF AfterExec1, CtlState
<1>6. \A v \in Word : WriteBack(v) => cpun' \in CpuRegisters
  <2> SUFFICES ASSUME NEW v \in Word, WriteBack(v) PROVE cpun' \in CpuRegisters
    OBVIOUS
  <2> DEFINE x == IF cpu.dst > 1 THEN [cpun.r EXCEPT ![cpu.dst] = v] ELSE cpun.r
  <2>1. x \in [0 .. 7 -> Word]
    BY <1>2, <1>3
  <2>2. cpun' = [cpun EXCEPT !.r = x, !.pc = cpu.pc + 1, !.ctl_state = AfterExec1]
    BY DEF WriteBack
  <2> HIDE DEF x
  <2>3. [cpun EXCEPT !.r = x, !.pc = cpu.pc + 1] \in CpuRegisters
    BY <1>2, <1>3, <2>1, Put
  <2> QED BY <1>5, <2>2, <2>3, Put
<1>7. CASE Idle
  <2>1. [cpun EXCEPT !.pc = 0] \in CpuRegisters
    BY <1>2, <1>3, Put
  <2> QED BY <1>1, <1>2, <1>5, <1>7, <2>1, Put DEF Idle
<1>8. CASE Fetch0
  BY <1>1, <1>2, <1>5, <1>8, Put DEF Fetch0
<1>9. CASE Fetch1
  <2>1. [cpun EXCEPT !.inst = port.dataout] \in CpuRegisters
    BY <1>2, <1>4, Put
  <2> QED BY <1>1, <1>2, <1>5, <1>9, <2>1, Put DEF Fetch1
<1>10. CASE Dec0
  <2> DEFINE d == Decode(cpu.inst)
  <2>1. /\ d.opcode \in 0 .. 31 /\ d.dst \in 0 .. 7 /\ d.src0 \in 0 .. 7
        /\ d.src1 \in 0 .. 7 /\ d.immediate \in Word
    BY <1>3, DecodeType
  <2>2. cpun' = [cpun EXCEPT !.opcode = d.opcode, !.dst = d.dst, !.src0 = d.src0,
                             !.src1 = d.src1, !.immediate = d.immediate,
                             !.ctl_state = "DEC1"]
    BY <1>10 DEF Dec0
  <2> HIDE DEF d
  <2>3. [cpun EXCEPT !.opcode = d.opcode] \in CpuRegisters
    BY <1>2, <2>1, Put
  <2>4. [cpun EXCEPT !.opcode = d.opcode, !.dst = d.dst] \in CpuRegisters
    BY <2>1, <2>3, Put
  <2>5. [cpun EXCEPT !.opcode = d.opcode, !.dst = d.dst, !.src0 = d.src0]
           \in CpuRegisters
    BY <2>1, <2>4, Put
  <2>6. [cpun EXCEPT !.opcode = d.opcode, !.dst = d.dst, !.src0 = d.src0,
                     !.src1 = d.src1] \in CpuRegisters
    BY <2>1, <2>5, Put
  <2>7. [cpun EXCEPT !.opcode = d.opcode, !.dst = d.dst, !.src0 = d.src0,
                     !.src1 = d.src1, !.immediate = d.immediate] \in CpuRegisters
    BY <2>1, <2>6, Put
  <2> QED BY <1>1, <1>2, <1>5, <2>2, <2>7, Put
<1>11. CASE Dec1
  <2> DEFINE x == IF cpu.src0 = 1 \/ cpu.opcode = LHI THEN cpu.immediate
                                                      ELSE cpu.r[cpu.src0]
             y == IF cpu.src1 = 1 THEN cpu.immediate ELSE cpu.r[cpu.src1]
  <2>1. cpun' = [cpun EXCEPT !.alu0 = x, !.alu1 = y, !.ctl_state = "EXEC0"]
    BY <1>11 DEF Dec1
  <2>2. x \in Word /\ y \in Word
    BY <1>3
  <2> HIDE DEF x, y
  <2>3. [cpun EXCEPT !.alu0 = x] \in CpuRegisters
    BY <1>2, <2>2, Put
  <2>4. [cpun EXCEPT !.alu0 = x, !.alu1 = y] \in CpuRegisters
    BY <2>2, <2>3, Put
  <2> QED BY <1>1, <1>2, <1>5, <2>1, <2>4, Put
<1>12. CASE Exec0
  <2>1. AluOut \in Word
    BY AluOutType DEF Inv
  <2>2. [cpun EXCEPT !.aluout = AluOut] \in CpuRegisters
    BY <1>2, <2>1, Put
  <2> QED BY <1>1, <1>2, <1>5, <1>12, <2>2, Put DEF Exec0
<1>13. CASE Exec1Alu \/ Exec1Ld
  BY <1>1, <1>2, <1>3, <1>4, <1>6, <1>13 DEF Exec1Alu, Exec1Ld
<1>14. CASE Exec1St \/ Exec1Dma
  <2>1. [cpun EXCEPT !.pc = cpu.pc + 1] \in CpuRegisters
    BY <1>2, <1>3, Put
  <2> QED BY <1>1, <1>2, <1>5, <1>14, <2>1, Put DEF Exec1St, Exec1Dma
<1>15. CASE Exec1DmaBusy \/ Exec1Hlt \/ Exec1Illegal
  BY <1>1, <1>2, <1>5, <1>15, Put DEF Exec1DmaBusy, Exec1Hlt, Exec1Illegal
<1>16. CASE Exec1Jump
  <2> DEFINE p == IF cpu.aluout # 0 THEN cpu.immediate ELSE cpu.pc + 1
             l == IF cpu.aluout # 0 THEN cpu.pc ELSE cpu.r[7]
             x == [cpun.r EXCEPT ![7] = l]
  <2>1. cpun' = [cpun EXCEPT !.pc = p, !.r = x, !.ctl_state = AfterExec1]
    <3>1. cpun' = [cpun EXCEPT !.pc = p, !.r[7] = l, !.ctl_state = AfterExec1]
      BY <1>16 DEF Exec1Jump
    <3> QED BY <1>2, <3>1 DEF CpuRegisters
  <2>2. cpu.pc \in Addr
    BY <1>16 DEF Exec1Jump, Exec1, State, Inv, PathInv, CtlState
  <2>3. p \in Int /\ l \in Word
    BY <1>3, <2>2, AddrType
  <2>4. x \in [0 .. 7 -> Word]
    BY <1>2, <1>3, <2>3
  <2> HIDE DEF p, x
  <2>5. [cpun EXCEPT !.pc = p] \in CpuRegisters
    BY <1>2, <2>3, Put
  <2>6. [cpun EXCEPT !.pc = p, !.r = x] \in CpuRegisters
    BY <2>4, <2>5, Put
  <2> QED BY <1>1, <1>2, <1>5, <2>1, <2>6, Put
<1> QED BY <1>7, <1>8, <1>9, <1>10, <1>11, <1>12, <1>13, <1>14, <1>15, <1>16
        DEF sp_ctl

\* Every step keeps the types.
LEMMA TypeStep ==
    ASSUME Inv, [Next]_vars
    PROVE  TypeOK'
<1>1. TypeOK /\ D!TypeOK'
  BY EngineTypeStep DEF Inv
<1>2. CASE sp_ctl
  <2>1. sram \in [Addr -> Word]
    BY <1>1, EngineTypes DEF TypeOK
  <2> QED BY <1>1, <1>2, <2>1, TurnType DEF TypeOK
<1>3. CASE dma_ctl \/ CommitFault \/ Stopped \/ UNCHANGED vars
  BY <1>1, <1>3 DEF dma_ctl, CommitFault, Stopped, vars, TypeOK
<1>4. CASE Commit
  BY <1>1, <1>4 DEF Commit, TypeOK
<1> QED BY <1>2, <1>3, <1>4 DEF Next

\* Every step keeps the rest.
LEMMA PathStep ==
    ASSUME Inv, [Next]_vars
    PROVE  PathInv'
<1>1. PathInv /\ E!PortOwner /\ port \in E!Port
  BY EngineTypes DEF Inv, E!DmaInv, TypeOK
<1>2. CASE sp_ctl
  <2>1. /\ cpun' \in CpuRegisters /\ cpu' = cpu /\ cpun = cpu
        /\ phase = "ctl" /\ phase' = "dma"
    BY <1>2, TurnType
  <2>2. cpun \in CpuRegisters
    BY DEF Inv, TypeOK
  <2>3. CASE Fetch0
    <3>1. port'.read /\ port'.raddr = cpu.pc
      BY <1>1, <2>3 DEF Fetch0, D!llsim_mem_read, E!Port
    <3>2. cpun'.pc = cpu.pc
      BY <2>1, <2>2, <2>3 DEF Fetch0, CpuRegisters
    <3> QED BY <1>1, <2>1, <3>1, <3>2 DEF PathInv
  <2>4. CASE Fetch1 \/ Dec0 \/ Dec1 \/ Exec0
    <3>1. cpun'.pc = cpu.pc
      BY <2>1, <2>2, <2>4 DEF Fetch1, Dec0, Dec1, Exec0, CpuRegisters
    <3>2. cpu.pc \in Addr
      BY <1>1, <2>4 DEF PathInv, Fetch1, Dec0, Dec1, Exec0, State, CtlState
    <3> QED BY <1>1, <2>1, <3>1, <3>2 DEF PathInv
  <2>5. CASE ~(Fetch0 \/ Fetch1 \/ Dec0 \/ Dec1 \/ Exec0)
    <3>1. cpun'.ctl_state \in {"IDLE", "FETCH0"}
      BY <1>2, <2>2, <2>5 DEF sp_ctl, Idle, Exec1Alu, Exec1Ld, Exec1St, Exec1DmaBusy,
         Exec1Dma, Exec1Jump, Exec1Hlt, Exec1Illegal, WriteBack, AfterExec1,
         CpuRegisters
    <3> QED BY <1>1, <2>1, <3>1 DEF PathInv
  <2> QED BY <2>3, <2>4, <2>5
<1>3. CASE dma_ctl
  <2>1. UNCHANGED <<cpu, cpun>> /\ phase = "dma" /\ phase' = "commit"
    BY <1>3 DEF dma_ctl, D!Dma, D!DmaIdle, D!DmaReadFirst, D!DmaDoRead, D!DmaDoWrite,
       D!DmaWriteStalled, D!DmaWriteLast, D!DmaDo, D!DmaFrame
  <2>2. port.read => port' = port
    <3>1. port.read => Hazard
      BY <1>1, <2>1 DEF E!PortOwner
    <3> QED BY <1>3, <3>1 DEF dma_ctl, D!Dma, D!DmaIdle, D!DmaReadFirst, D!DmaDoRead,
       D!DmaDoWrite, D!DmaWriteStalled, D!DmaWriteLast, D!DmaDo, D!NoAccess
  <2> QED BY <1>1, <2>1, <2>2 DEF PathInv
<1>4. CASE Commit
  <2>1. /\ phase = "commit" /\ phase' = "ctl" /\ cpu' = cpun /\ cpun' = cpun
        /\ port.read => port.raddr \in Addr
    BY <1>4 DEF Commit, D!Commit, D!CommitFrame, D!OutOfRange, D!Addr, Addr
  <2> QED BY <1>1, <2>1 DEF PathInv
<1>5. CASE CommitFault \/ Stopped \/ UNCHANGED vars
  BY <1>1, <1>5 DEF PathInv, CommitFault, D!CommitFault, Stopped, vars
<1> QED BY <1>2, <1>3, <1>4, <1>5 DEF Next

\* Every reachable state satisfies the invariant.
LEMMA Invariant == Spec => []Inv
<1>1. Init => Inv
  <2>1. Init => TypeOK /\ E!Init
    BY TypeInit, EngineInit
  <2>2. E!Init => E!DmaInv
    BY E!DmaInvInit, EngineAssumptions
  <2>3. Init => PathInv
    BY DEF Init, ResetRegisters, PathInv, D!Init
  <2> QED BY <2>1, <2>2, <2>3 DEF Inv
<1>2. Inv /\ [Next]_vars => Inv'
  BY TypeStep, PathStep, EngineTypeStep DEF Inv
<1> QED BY <1>1, <1>2, PTL DEF Spec

(***************************************************************************)
(* The registers, the memory and the engine keep their types: nothing that *)
(* sp_ctl computes is wider than its register, and the return address that *)
(* a jump leaves in r7 is an address.                                      *)
(***************************************************************************)
THEOREM TypeCorrect == Spec => []TypeOK
<1>1. Inv => TypeOK
  BY DEF Inv
<1> QED BY <1>1, Invariant, PTL

-----------------------------------------------------------------------------
(***************************************************************************)
(* The machine is a processor as the engine expects one, whatever program  *)
(* it runs: the hazard names the cycles in which it drives the memory,     *)
(* and it asks for a copy only when none is busy.                          *)
(***************************************************************************)
THEOREM MachineDrivesEngine == Spec => E!Spec
<1>1. Init => E!Init
  BY EngineInit
<1>2. Inv /\ [Next]_vars => [E!Next]_E!vars
  BY EngineStep DEF Inv
<1> QED BY <1>1, <1>2, Invariant, PTL DEF Spec, E!Spec

(***************************************************************************)
(* The same for the engine that the runs instantiate, when the programs may*)
(* use every length, address and word, as those of the code may.           *)
(***************************************************************************)
THEOREM MachineObeysEngine ==
    ASSUME DmaLens = Int, CpuAddr = Int, StoreWords = Word
    PROVE  Spec => ObeysEngine
<1>1. E!Init => D!Init
  BY DEF D!Init, D!ResetRegisters, D!QuietPort, D!Addr, E!Init, E!ResetRegisters,
     E!QuietPort, E!Addr
<1>2. [E!Next]_E!vars => [D!Next]_D!vars
  <2>1. E!Cpu => D!Cpu
    BY DEF D!Cpu, D!CpuIdle, D!CpuRead, D!CpuWrite, D!CpuHalt, D!CtlFrame,
       D!MayRequest, D!DmaRequest, D!llsim_mem_read, D!llsim_mem_write, D!NoAccess,
       D!Addr, D!InFlight, D!Inc, D!Dec,
       E!Cpu, E!CpuIdle, E!CpuRead, E!CpuWrite, E!CpuHalt, E!CtlFrame,
       E!MayRequest, E!DmaRequest, E!llsim_mem_read, E!llsim_mem_write, E!NoAccess,
       E!Addr, E!InFlight, E!Inc, E!Dec
  <2>2. E!Dma => D!Dma
    BY DEF D!Dma, D!DmaIdle, D!DmaReadFirst, D!DmaDoRead, D!DmaDoWrite,
       D!DmaWriteStalled, D!DmaWriteLast, D!DmaDo, D!DmaFrame, D!WriteWord,
       D!LatchedReg, D!llsim_mem_read, D!llsim_mem_write, D!NoAccess, D!Inc,
       E!Dma, E!DmaIdle, E!DmaReadFirst, E!DmaDoRead, E!DmaDoWrite,
       E!DmaWriteStalled, E!DmaWriteLast, E!DmaDo, E!DmaFrame, E!WriteWord,
       E!LatchedReg, E!llsim_mem_read, E!llsim_mem_write, E!NoAccess, E!Inc
  <2>3. E!Commit => D!Commit
    BY DEF D!Commit, D!CommitFrame, D!OutOfRange, D!Addr, D!QuietPort, D!DataOut,
       E!Commit, E!CommitFrame, E!OutOfRange, E!Addr, E!QuietPort, E!DataOut
  <2>4. E!CommitFault => D!CommitFault
    BY DEF D!CommitFault, D!CommitFrame, D!OutOfRange, D!Addr, E!CommitFault,
       E!CommitFrame, E!OutOfRange, E!Addr
  <2>5. E!Stopped \/ UNCHANGED E!vars => UNCHANGED D!vars
    BY DEF D!vars, E!Stopped, E!vars
  <2> QED BY <2>1, <2>2, <2>3, <2>4, <2>5 DEF D!Next, E!Next
<1>3. E!Spec => D!Spec
  BY <1>1, <1>2, PTL DEF D!Spec, E!Spec
<1> QED BY <1>3, MachineDrivesEngine DEF ObeysEngine

(***************************************************************************)
(* Beside this machine a copy moves the words of its block in order        *)
(* and touches nothing else, whatever the program stores meanwhile.        *)
(***************************************************************************)
THEOREM MachineCopies == Spec => E!ImplementsStreamCopy
BY MachineDrivesEngine, E!EngineImplementsStream, EngineAssumptions

(***************************************************************************)
(* No llsim assertion of the data memory is the engine's doing in the      *)
(* multicycle machine.                                                     *)
(***************************************************************************)
THEOREM MachineKeepsPort == Spec => []E!NoDmaFault
<1>1. E!Spec => []E!NoDmaFault
  BY E!PortExclusive, EngineAssumptions
<1> QED BY <1>1, MachineDrivesEngine

-----------------------------------------------------------------------------
(***************************************************************************)
(* What a program sees of the multicycle SP.  The control state machine,   *)
(* the port and the engine's stages implement the programmer's machine of  *)
(* SpArch, and for the common instructions the simulator of Iss.           *)
(*                                                                         *)
(* The argument: ProgInv says what sp_ctl has computed in every state of an*)
(* instruction, so the clock edge of EXEC1 does to the registers what the  *)
(* simulator does in one step (RegisterStep, StoreStep, AskStep); the edge *)
(* does to the memory and the copy what BlockCopy does, because the machine*)
(* is a processor as the engine expects (ClearEngine) and the engine's own *)
(* theorem applies (ClearCopies); CommitCases puts the two together, and no*)
(* other step is visible (ArchFrame, MiddleCommit).                        *)
(***************************************************************************)

(***************************************************************************)
(* What sp_ctl has computed by the time an instruction executes: the fields*)
(* of the word fetched, their operands, and the result.                    *)
(***************************************************************************)
Computed(c) ==
    /\ c.ctl_state \in {"DEC1", "EXEC0", "EXEC1"} =>
          /\ c.opcode = Decode(c.inst).opcode /\ c.dst = Decode(c.inst).dst
          /\ c.src0 = Decode(c.inst).src0 /\ c.src1 = Decode(c.inst).src1
          /\ c.immediate = Decode(c.inst).immediate
    /\ c.ctl_state \in {"EXEC0", "EXEC1"} =>
          /\ c.alu0 = IF c.src0 = 1 \/ c.opcode = LHI THEN c.immediate
                                                      ELSE c.r[c.src0]
          /\ c.alu1 = IF c.src1 = 1 THEN c.immediate ELSE c.r[c.src1]
    /\ c.ctl_state = "EXEC1" =>
          /\ c.opcode \in ArithOps => c.aluout = Arith(c.opcode, c.alu0, c.alu1)
          /\ c.opcode \in BranchOps =>
                c.aluout = Bool(Taken(c.opcode, c.alu0, c.alu1))
          /\ c.opcode = DMA => c.aluout = c.r[c.dst]
          /\ c.opcode = JIN => c.aluout = 1

\* The instruction op is in its last cycle.
Executing(op) == cpu.ctl_state = "EXEC1" /\ cpu.opcode = op

\* The processor's accesses, and the word a load finds.
Accesses ==
    /\ phase # "ctl" =>
          /\ cpu.ctl_state = "FETCH0" => port.read
          /\ cpu.ctl_state = "EXEC0" /\ cpu.opcode = LD =>
                port.read /\ port.raddr = Low(cpu.alu1)
          /\ Executing(ST) =>
                port.write /\ port.waddr = cpu.alu1 /\ port.datain = cpu.alu0
    /\ phase = "ctl" /\ Executing(LD) => port.dataout = sram[Low(cpu.alu1)]

\* A DMA instruction that found the engine free has asked for its copy.
Started ==
    /\ Executing(DMA)
    /\ ~dma.busy /\ dman.busy
    /\ dman.src = Low(cpu.alu0) /\ dman.dst = Low(cpu.aluout)
    /\ dman.len = cpu.alu1
    /\ cpun.pc = cpu.pc + 1

Requests ==
    /\ phase = "dma" => dman = dma \/ Started
    /\ phase = "commit" => Started \/ (dman.busy /\ dman.len > 0 => dma.busy /\ dma.len > 0)

\* A poll that succeeded saw an engine that is still free.
Polls ==
    /\ Executing(DMP) /\ cpu.aluout # 0 => ~dma.busy /\ ~dman.busy
    /\ phase # "ctl" =>
          (cpun.ctl_state = "EXEC1" /\ cpun.opcode = DMP /\ cpun.aluout # 0
              => ~dman.busy)

\* What EXEC1 leaves in the new registers.
Assigned(v) ==
    /\ cpun.r = IF cpu.dst > 1 THEN [cpu.r EXCEPT ![cpu.dst] = v] ELSE cpu.r
    /\ cpun.pc = cpu.pc + 1

Executed ==
    /\ cpun.ctl_state = AfterExec1
    /\ \/ cpu.opcode \in ArithOps \cup {LHI} /\ Assigned(cpu.aluout)
       \/ cpu.opcode = LD /\ Assigned(sram[Low(cpu.alu1)])
       \/ cpu.opcode = ST /\ cpun.r = cpu.r /\ cpun.pc = cpu.pc + 1
       \/ cpu.opcode = DMA /\ cpun.r = cpu.r /\ (cpun.pc = cpu.pc \/ Started)
       \/ /\ cpu.opcode \in BranchOps \cup {JIN, DMP}
          /\ IF cpu.aluout # 0
               THEN /\ cpun.pc = cpu.immediate
                    /\ cpun.r = [cpu.r EXCEPT ![7] = cpu.pc]
               ELSE cpun.pc = cpu.pc + 1 /\ cpun.r = cpu.r
       \/ /\ cpu.opcode \in {HLT} \cup (12 .. 15) \cup (21 .. 23) \cup (25 .. 31)
          /\ cpun.pc = cpu.pc /\ cpun.r = cpu.r

\* What a cycle leaves in them.
Moved ==
    phase # "ctl" =>
        IF cpu.ctl_state = "EXEC1" THEN Executed
        ELSE /\ cpun.r = cpu.r
             /\ cpun.pc = IF cpu.ctl_state = "IDLE" THEN 0 ELSE cpu.pc
             /\ cpun.ctl_state # "IDLE"
             /\ cpun.ctl_state = "EXEC1" =>
                   /\ cpu.ctl_state = "EXEC0"
                   /\ cpun.opcode = cpu.opcode /\ cpun.alu1 = cpu.alu1

\* The simulation stops with the cycle of a HLT, which dumps the memory.
Stopping ==
    phase # "ctl" => /\ stop_sim <=> Executing(HLT)
                     /\ stop_sim => dump = sram

\* Together with Inv, inductive.
ProgInv ==
    /\ Computed(cpu) /\ Computed(cpun)
    /\ Accesses /\ Requests /\ Polls /\ Moved /\ Stopping

-----------------------------------------------------------------------------
(***************************************************************************)
(* One call of sp_ctl.                                                     *)
(***************************************************************************)
LEMMA TurnFrame ==
    ASSUME Inv, sp_ctl
    PROVE  /\ phase = "ctl" /\ phase' = "dma" /\ ~stop_sim
           /\ cpu' = cpu /\ cpun = cpu /\ cpu \in CpuRegisters
           /\ cpun' \in CpuRegisters
           /\ dma' = dma /\ dman = dma /\ sram' = sram
           /\ port \in E!Port
<1>1. /\ ~stop_sim /\ dma' = dma /\ sram' = sram
  BY DEF sp_ctl, Idle, Fetch0, Fetch1, Dec0, Dec1, Exec0, Exec1Alu, Exec1Ld, Exec1St,
     Exec1DmaBusy, Exec1Dma, Exec1Jump, Exec1Hlt, Exec1Illegal, Exec1, State, Quiet
<1>2. dman = dma
  BY TurnType DEF Inv, E!DmaInv, E!Latched
<1>3. cpu \in CpuRegisters /\ port \in E!Port
  BY EngineTypes DEF Inv, TypeOK
<1> QED BY <1>1, <1>2, <1>3, TurnType

\* The states before the execution.
LEMMA EarlyTurn ==
    ASSUME Inv, ProgInv, Idle \/ Fetch0 \/ Fetch1 \/ Dec0 \/ Dec1
    PROVE  ProgInv'
<1>1. sp_ctl
  BY DEF sp_ctl
<1>2. /\ cpu.ctl_state \in {"IDLE", "FETCH0", "FETCH1", "DEC0", "DEC1"}
      /\ cpu'.ctl_state = cpu.ctl_state
      /\ dman' = dman /\ stop_sim' = stop_sim
  BY <1>1, TurnFrame DEF Idle, Fetch0, Fetch1, Dec0, Dec1, State, Quiet
<1>3. /\ cpun'.r = cpun.r
      /\ cpun'.pc = IF cpu.ctl_state = "IDLE" THEN 0 ELSE cpun.pc
      /\ cpun'.ctl_state = CASE cpu.ctl_state = "IDLE" -> "FETCH0"
                              [] cpu.ctl_state = "FETCH0" -> "FETCH1"
                              [] cpu.ctl_state = "FETCH1" -> "DEC0"
                              [] cpu.ctl_state = "DEC0" -> "DEC1"
                              [] cpu.ctl_state = "DEC1" -> "EXEC0"
  BY <1>1, TurnFrame DEF Idle, Fetch0, Fetch1, Dec0, Dec1, State, CpuRegisters
<1>4. cpun'.ctl_state \notin {"IDLE", "EXEC1"}
  BY <1>2, <1>3
<1>5. Computed(cpun')
  <2>1. CASE cpu.ctl_state \in {"IDLE", "FETCH0", "FETCH1"}
    BY <1>3, <2>1 DEF Computed
  <2>2. CASE Dec0
    <3>1. cpun'.ctl_state = "DEC1"
      BY <1>3, <2>2 DEF Dec0, State
    <3>2. /\ cpun'.opcode = Decode(cpun.inst).opcode
          /\ cpun'.dst = Decode(cpun.inst).dst
          /\ cpun'.src0 = Decode(cpun.inst).src0
          /\ cpun'.src1 = Decode(cpun.inst).src1
          /\ cpun'.immediate = Decode(cpun.inst).immediate
          /\ cpun'.inst = cpun.inst
      BY <1>1, <2>2, TurnFrame DEF Dec0, CpuRegisters
    <3> QED BY <3>1, <3>2 DEF Computed
  <2>3. CASE Dec1
    <3>1. cpun'.ctl_state = "EXEC0" /\ cpu.ctl_state = "DEC1"
      BY <1>3, <2>3 DEF Dec1, State
    <3>2. /\ cpun'.inst = cpu.inst /\ cpun'.opcode = cpu.opcode
          /\ cpun'.dst = cpu.dst /\ cpun'.src0 = cpu.src0
          /\ cpun'.src1 = cpu.src1 /\ cpun'.immediate = cpu.immediate
          /\ cpun'.r = cpu.r
          /\ cpun'.alu0 = IF cpu.src0 = 1 \/ cpu.opcode = LHI THEN cpu.immediate
                                                              ELSE cpu.r[cpu.src0]
          /\ cpun'.alu1 = IF cpu.src1 = 1 THEN cpu.immediate ELSE cpu.r[cpu.src1]
      BY <1>1, <2>3, TurnFrame DEF Dec1, CpuRegisters
    <3> QED BY <3>1, <3>2 DEF Computed, ProgInv
  <2> QED BY <1>2, <2>1, <2>2, <2>3 DEF Idle, Fetch0, Fetch1, State
<1>6. cpu.ctl_state = "FETCH0" => port'.read
  BY <1>1, TurnFrame DEF Idle, Fetch0, Fetch1, Dec0, Dec1, State, D!llsim_mem_read, E!Port
<1>7. Accesses'
  BY <1>1, <1>2, <1>6, TurnFrame DEF Accesses, Executing
<1>8. Requests' /\ Polls'
  BY <1>1, <1>2, <1>4, TurnFrame DEF Requests, Polls, Executing
<1>9. Moved' /\ Stopping'
  BY <1>1, <1>2, <1>3, <1>4, TurnFrame DEF Moved, Stopping, Executing
<1> QED BY <1>1, <1>5, <1>7, <1>8, <1>9, TurnFrame DEF ProgInv, Computed

\* EXEC0 computes the result, or asks for the word of a load.
LEMMA Exec0Turn ==
    ASSUME Inv, ProgInv, Exec0
    PROVE  ProgInv'
<1>1. sp_ctl
  BY DEF sp_ctl
<1>2. /\ cpu.ctl_state = "EXEC0" /\ cpu'.ctl_state = "EXEC0"
      /\ dman' = dman /\ stop_sim' = stop_sim
  BY <1>1, TurnFrame DEF Exec0, State
<1>3. /\ cpun'.r = cpu.r /\ cpun'.pc = cpu.pc /\ cpun'.ctl_state = "EXEC1"
      /\ cpun'.inst = cpu.inst /\ cpun'.opcode = cpu.opcode
      /\ cpun'.dst = cpu.dst /\ cpun'.src0 = cpu.src0
      /\ cpun'.src1 = cpu.src1 /\ cpun'.immediate = cpu.immediate
      /\ cpun'.alu0 = cpu.alu0 /\ cpun'.alu1 = cpu.alu1
      /\ cpun'.aluout = AluOut
  BY <1>1, TurnFrame DEF Exec0, CpuRegisters
<1>4. /\ cpu.opcode \in ArithOps => AluOut = Arith(cpu.opcode, cpu.alu0, cpu.alu1)
      /\ cpu.opcode \in BranchOps =>
            AluOut = Bool(Taken(cpu.opcode, cpu.alu0, cpu.alu1))
      /\ cpu.opcode = DMA => AluOut = cpu.r[cpu.dst]
      /\ cpu.opcode = JIN => AluOut = 1
      /\ cpu.opcode = DMP => AluOut = Bool(~dma.busy)
  <2>1. /\ LHI \notin ArithOps /\ DMA \notin ArithOps /\ DMP \notin ArithOps
        /\ JIN \notin ArithOps /\ \A o \in BranchOps : o \notin ArithOps
        /\ LHI # DMA /\ LHI # DMP /\ DMA # DMP /\ LHI # JIN /\ DMA # JIN
        /\ DMP # JIN
        /\ {LHI, DMA, DMP, JIN} \cap BranchOps = {}
    BY DEF ArithOps, BranchOps, ADD, SUB, LSF, RSF, AND, OR, XOR, LHI, DMA, DMP, JIN,
           JLT, JLE, JEQ, JNE
  <2> QED BY <2>1 DEF AluOut
<1>5. Computed(cpun')
  BY <1>2, <1>3, <1>4 DEF Computed, ProgInv
<1>6. cpu.opcode = LD => port'.read /\ port'.raddr = Low(cpu.alu1)
  BY <1>1, TurnFrame DEF Exec0, D!llsim_mem_read, E!Port
<1>7. Accesses'
  BY <1>1, <1>2, <1>6, TurnFrame DEF Accesses, Executing
<1>8. Requests' /\ Polls'
  <2>1. cpu.opcode = DMP /\ AluOut # 0 => ~dma.busy
    BY <1>4 DEF Bool
  <2> QED BY <1>1, <1>2, <1>3, <2>1, TurnFrame DEF Requests, Polls, Executing
<1>9. Moved' /\ Stopping'
  BY <1>1, <1>2, <1>3, TurnFrame DEF Moved, Stopping, Executing
<1> QED BY <1>1, <1>5, <1>7, <1>8, <1>9, TurnFrame DEF ProgInv, Computed

\* EXEC1 ends the instruction.
LEMMA Exec1Turn ==
    ASSUME Inv, ProgInv, sp_ctl, cpu.ctl_state = "EXEC1"
    PROVE  ProgInv'
<1>1. /\ cpu'.ctl_state = "EXEC1"
      /\ Exec1Alu \/ Exec1Ld \/ Exec1St \/ Exec1DmaBusy \/ Exec1Dma \/ Exec1Jump
            \/ Exec1Hlt \/ Exec1Illegal
  BY TurnFrame DEF sp_ctl, Idle, Fetch0, Fetch1, Dec0, Dec1, Exec0, State
<1>2. /\ AfterExec1 \in {"IDLE", "FETCH0"} /\ AfterExec1' = AfterExec1
      /\ cpun'.ctl_state = AfterExec1
  <2>1. AfterExec1 \in {"IDLE", "FETCH0"} /\ AfterExec1' = AfterExec1
    BY TurnFrame DEF AfterExec1
  <2>2. cpun'.ctl_state = AfterExec1
    BY <1>1, TurnFrame DEF Exec1Alu, Exec1Ld, Exec1St, Exec1DmaBusy, Exec1Dma,
       Exec1Jump, Exec1Hlt, Exec1Illegal, WriteBack, CpuRegisters
  <2> QED BY <2>1, <2>2
<1>3. /\ ArithOps \cup {LHI} = 0 .. 7 /\ LD = 8 /\ ST = 9 /\ DMA = 10 /\ HLT = 24
      /\ BranchOps \cup {JIN, DMP} = {11, 16, 17, 18, 19, 20} /\ DMP = 11
  BY DEF ArithOps, BranchOps, ADD, SUB, LSF, RSF, AND, OR, XOR, LHI, LD, ST, DMA,
       DMP, JLT, JLE, JEQ, JNE, JIN, HLT
<1>4. Computed(cpun')
  BY <1>2 DEF Computed
<1>5. Executing(ST) =>
        port'.write /\ port'.waddr = cpu.alu1 /\ port'.datain = cpu.alu0
  <2>1. Executing(ST) => Exec1St
    BY <1>1, <1>3 DEF Executing, Exec1Alu, Exec1Ld, Exec1DmaBusy, Exec1Dma, Exec1Jump,
       Exec1Hlt, Exec1Illegal, Exec1
  <2> QED BY <2>1, TurnFrame DEF Exec1St, D!llsim_mem_write, E!Port
<1>6. Accesses'
  BY <1>1, <1>5, TurnFrame DEF Accesses, Executing
<1>7. Exec1Dma => Started'
  BY TurnFrame DEF Exec1Dma, Exec1, State, Started, Executing, CpuRegisters, Inv,
     TypeOK, D!TypeOK, D!DmaRegisters
<1>8. ~Exec1Dma => dman' = dman
  BY <1>1 DEF Exec1Alu, Exec1Ld, Exec1St, Exec1DmaBusy, Exec1Jump, Exec1Hlt,
     Exec1Illegal, Quiet
<1>9. Requests'
  BY <1>7, <1>8, TurnFrame DEF Requests
<1>10. Polls'
  <2>1. Executing(DMP) => ~Exec1Dma
    BY <1>3 DEF Executing, Exec1Dma, Exec1
  <2> QED BY <1>1, <1>2, <1>8, <2>1, TurnFrame DEF Polls, Executing, ProgInv
<1>11. Executed'
  <2>1. CASE Exec1Alu \/ Exec1Ld
    <3>1. CASE Exec1Alu
      <4>1. Assigned(cpu.aluout)'
        BY <3>1, TurnFrame DEF Exec1Alu, WriteBack, Assigned, CpuRegisters
      <4> QED BY <1>2, <3>1, <4>1, TurnFrame DEF Exec1Alu, Exec1, Executed
    <3>2. CASE Exec1Ld
      <4>1. port.dataout = sram[Low(cpu.alu1)]
        BY <3>2, TurnFrame DEF ProgInv, Accesses, Executing, Exec1Ld, Exec1, State
      <4>2. Assigned(sram[Low(cpu.alu1)])'
        BY <3>2, <4>1, TurnFrame DEF Exec1Ld, WriteBack, Assigned, CpuRegisters
      <4> QED BY <1>2, <3>2, <4>2, TurnFrame DEF Exec1Ld, Exec1, Executed
    <3> QED BY <2>1, <3>1, <3>2
  <2>2. CASE Exec1St
    <3>1. cpun'.r = cpu.r /\ cpun'.pc = cpu.pc + 1 /\ cpu.opcode = ST
      BY <2>2, TurnFrame DEF Exec1St, Exec1, CpuRegisters
    <3> QED BY <1>2, <3>1, TurnFrame DEF Executed
  <2>3. CASE Exec1DmaBusy
    <3>1. cpun'.r = cpu.r /\ cpun'.pc = cpu.pc /\ cpu.opcode = DMA
      BY <2>3, TurnFrame DEF Exec1DmaBusy, Exec1, CpuRegisters
    <3> QED BY <1>2, <3>1, TurnFrame DEF Executed
  <2>4. CASE Exec1Dma
    <3>1. cpun'.r = cpu.r /\ cpu.opcode = DMA
      BY <2>4, TurnFrame DEF Exec1Dma, Exec1, CpuRegisters
    <3> QED BY <1>2, <1>7, <2>4, <3>1, TurnFrame DEF Executed
  <2>5. CASE Exec1Jump
    <3>1. /\ cpu.opcode \in BranchOps \cup {JIN, DMP}
          /\ cpun'.pc = IF cpu.aluout # 0 THEN cpu.immediate ELSE cpu.pc + 1
          /\ cpun'.r = [cpu.r EXCEPT ![7] =
                          IF cpu.aluout # 0 THEN cpu.pc ELSE cpu.r[7]]
      BY <2>5, TurnFrame DEF Exec1Jump, Exec1, CpuRegisters
    <3>2. cpu.aluout = 0 => cpun'.r = cpu.r
      BY <3>1, TurnFrame DEF CpuRegisters
    <3> QED BY <1>2, <3>1, <3>2, TurnFrame DEF Executed
  <2>6. CASE Exec1Hlt \/ Exec1Illegal
    <3>1. /\ cpu.opcode \in {HLT} \cup (12 .. 15) \cup (21 .. 23) \cup (25 .. 31)
          /\ cpun'.pc = cpu.pc /\ cpun'.r = cpu.r
      BY <2>6, TurnFrame DEF Exec1Hlt, Exec1Illegal, Exec1, CpuRegisters
    <3> QED BY <1>2, <3>1, TurnFrame DEF Executed
  <2> QED BY <1>1, <2>1, <2>2, <2>3, <2>4, <2>5, <2>6
<1>12. Moved'
  BY <1>1, <1>11 DEF Moved
<1>13. Stopping'
  <2>1. CASE Exec1Hlt
    BY <2>1, TurnFrame DEF Exec1Hlt, Exec1, State, Stopping, Executing
  <2>2. CASE ~Exec1Hlt
    <3>1. ~Executing(HLT) /\ ~stop_sim'
      BY <1>1, <1>3, <2>2, TurnFrame DEF Executing, Exec1Alu, Exec1Ld, Exec1St,
         Exec1DmaBusy, Exec1Dma, Exec1Jump, Exec1Illegal, Exec1, Quiet
    <3> QED BY <3>1, TurnFrame DEF Stopping, Executing
  <2> QED BY <2>1, <2>2
<1> QED BY <1>4, <1>6, <1>9, <1>10, <1>12, <1>13, TurnFrame DEF ProgInv, Computed

\* A free engine does nothing, and the engine leaves a port in use alone.
LEMMA EngineTurn ==
    ASSUME Inv, dma_ctl
    PROVE  /\ phase = "dma" /\ phase' = "commit"
           /\ UNCHANGED <<cpu, cpun, dump, sram, stop_sim>>
           /\ ~dma.busy => dma' = dma /\ dman' = dman
           /\ dman = dma =>
                 (dman'.busy /\ dman'.len > 0 => dma'.busy /\ dma'.len > 0)
           /\ port.read \/ port.write => port' = port
<1> DEFINE Frame == D!Dma => /\ phase = "dma" /\ phase' = "commit"
                            /\ UNCHANGED <<sram, stop_sim>>
<1>1. D!Dma /\ UNCHANGED <<cpu, cpun, dump>>
  BY DEF dma_ctl
<1>2. Frame
  BY DEF D!Dma, D!DmaIdle, D!DmaReadFirst, D!DmaDoRead, D!DmaDoWrite,
     D!DmaWriteStalled, D!DmaWriteLast, D!DmaDo, D!DmaFrame
<1>3. dma \in E!DmaRegisters /\ dman \in E!DmaRegisters
  BY EngineTypes DEF Inv, TypeOK
<1>4. E!Control(dma) /\ E!Latched /\ E!PortOwner
  BY DEF Inv, E!DmaInv
<1>5. CASE dma.state = "IDLE"
  <2>1. D!DmaIdle
    BY <1>1, <1>5 DEF D!Dma, D!DmaIdle, D!DmaReadFirst, D!DmaDoRead, D!DmaDoWrite,
       D!DmaWriteStalled, D!DmaWriteLast, D!DmaDo
  <2>2. CASE dma.busy /\ dma.len > 0
    <3>1. dma' = dma /\ port' = port
      BY <2>1, <2>2 DEF D!DmaIdle, D!NoAccess
    <3> QED BY <1>1, <1>2, <2>2, <3>1
  <2>3. CASE ~(dma.busy /\ dma.len > 0)
    <3>1. dma' = [dma EXCEPT !.busy = FALSE] /\ dman' = dman /\ port' = port
      BY <2>1, <2>3 DEF D!DmaIdle, D!NoAccess
    <3>2. ~dma.busy => dma' = dma
      BY <1>3, <3>1 DEF E!DmaRegisters
    <3> QED BY <1>1, <1>2, <2>3, <3>1, <3>2
  <2> QED BY <2>2, <2>3
<1>6. CASE dma.state # "IDLE"
  <2>1. dma.busy /\ dma.len > 0
    BY <1>4, <1>6 DEF E!Control
  <2>2. dma' = dma
    BY <1>1, <1>6 DEF D!Dma, D!DmaIdle, D!DmaReadFirst, D!DmaDoRead, D!DmaDoWrite,
       D!DmaWriteStalled, D!DmaWriteLast, D!DmaDo
  <2>3. port.read \/ port.write => Hazard
    BY <1>1, <1>2, <1>4 DEF E!PortOwner
  <2>4. Hazard => port' = port
    BY <1>1, <1>6 DEF D!Dma, D!DmaIdle, D!DmaReadFirst, D!DmaDoRead, D!DmaDoWrite,
       D!DmaWriteStalled, D!DmaWriteLast, D!DmaDo, D!NoAccess
  <2> QED BY <1>1, <1>2, <2>1, <2>2, <2>3, <2>4
<1> QED BY <1>5, <1>6

\* The turn of the engine keeps it.
LEMMA EngineTurnKeeps ==
    ASSUME Inv, ProgInv, dma_ctl
    PROVE  ProgInv'
<1>1. E!Latched
  BY DEF Inv, E!DmaInv
<1>2. /\ Accesses /\ Requests /\ Polls /\ Moved /\ Stopping
      /\ Computed(cpu) /\ Computed(cpun)
  BY DEF ProgInv
<1>3. Computed(cpu)' /\ Computed(cpun)'
  BY <1>2, EngineTurn DEF Computed
<1>4. Accesses'
  BY <1>2, EngineTurn DEF Accesses, Executing
<1>5. Started => Started'
  BY EngineTurn DEF Started, Executing
<1>6. Requests'
  BY <1>2, <1>5, EngineTurn DEF Requests
<1>7. Polls'
  <2>1. ~dman.busy => ~dma.busy
    BY <1>1, EngineTurn DEF E!Latched
  <2> QED BY <1>2, <2>1, EngineTurn DEF Polls, Executing
<1>8. Moved' /\ Stopping'
  BY <1>2, <1>5, EngineTurn
     DEF Moved, Executed, Assigned, AfterExec1, Stopping, Executing
<1> QED BY <1>3, <1>4, <1>6, <1>7, <1>8 DEF ProgInv

\* The clock edge.
LEMMA CommitKeeps ==
    ASSUME Inv, ProgInv, Commit
    PROVE  ProgInv'
<1>1. /\ phase = "commit" /\ phase' = "ctl" /\ cpu' = cpun /\ cpun' = cpun
      /\ dma' = dman /\ dman' = dman
      /\ port' = D!QuietPort(D!DataOut)
      /\ sram' = IF port.write THEN [sram EXCEPT ![port.waddr] = port.datain] ELSE sram
  BY DEF Commit, D!Commit, D!CommitFrame
<1>2. ~(port.read /\ port.write)
  BY DEF Inv, E!DmaInv, E!PortOwner
<1>3. Computed(cpu)' /\ Computed(cpun)'
  BY <1>1 DEF ProgInv, Computed
<1>4. Accesses'
  <2> SUFFICES ASSUME cpun.ctl_state = "EXEC1", cpun.opcode = LD
               PROVE  port'.dataout = sram'[Low(cpun.alu1)]
    BY <1>1 DEF Accesses, Executing
  <2>1. cpu.ctl_state # "EXEC1"
    BY <1>1 DEF ProgInv, Moved, Executed, AfterExec1
  <2>2. cpu.ctl_state = "EXEC0" /\ cpu.opcode = LD /\ cpun.alu1 = cpu.alu1
    BY <1>1, <2>1 DEF ProgInv, Moved
  <2>3. port.read /\ port.raddr = Low(cpun.alu1)
    BY <1>1, <2>2 DEF ProgInv, Accesses
  <2> QED BY <1>1, <1>2, <2>3 DEF D!QuietPort, D!DataOut
<1>5. Polls'
  BY <1>1 DEF ProgInv, Polls, Executing
<1> QED BY <1>1, <1>3, <1>4, <1>5 DEF ProgInv, Requests, Moved, Stopping

\* The second half of the inductive invariant, on top of Inv.
LEMMA ProgInvariant == Spec => []ProgInv
<1>1. Init => ProgInv
  BY DEF Init, D!Init, D!ResetRegisters, ResetRegisters, ProgInv, Computed, Accesses,
     Requests, Polls, Moved, Stopping, Executing
<1>2. Inv /\ ProgInv /\ [Next]_vars => ProgInv'
  <2> SUFFICES ASSUME Inv, ProgInv, [Next]_vars PROVE ProgInv'
    OBVIOUS
  <2>1. CASE sp_ctl
    <3>1. CASE cpu.ctl_state = "EXEC1"
      BY <2>1, <3>1, Exec1Turn
    <3>2. CASE cpu.ctl_state # "EXEC1"
      BY <2>1, <3>2, EarlyTurn, Exec0Turn DEF sp_ctl, Exec1Alu, Exec1Ld, Exec1St,
         Exec1DmaBusy, Exec1Dma, Exec1Jump, Exec1Hlt, Exec1Illegal, Exec1, State
    <3> QED BY <3>1, <3>2
  <2>2. CASE dma_ctl
    BY <2>2, EngineTurnKeeps
  <2>3. CASE Commit
    BY <2>3, CommitKeeps
  <2>4. CASE CommitFault \/ Stopped \/ UNCHANGED vars
    <3>1. UNCHANGED <<cpu, cpun, dump, dma, dman, sram, port, phase, stop_sim>>
      BY <2>4 DEF CommitFault, D!CommitFault, D!CommitFrame, Stopped, vars
    <3> QED BY <3>1 DEF ProgInv, Computed, Accesses, Requests, Started, Polls, Moved,
               Executed, Assigned, AfterExec1, Stopping, Executing
  <2> QED BY <2>1, <2>2, <2>3, <2>4 DEF Next
<1> QED BY <1>1, <1>2, Invariant, PTL DEF Spec

-----------------------------------------------------------------------------
(***************************************************************************)
(* The engine beside a regular program.                                    *)
(***************************************************************************)
ED == INSTANCE DmaCtlProofs WITH
        hazard <- Hazard, Lens <- Int, CpuAddr <- Int, CpuWord <- Word,
        Images <- [Addr -> Word], Disciplined <- TRUE

\* What the engine's theorems ask of its constants.
LEMMA ClearAssumptions ==
    /\ ED!HeightAssumption /\ ED!WordAssumption /\ ED!JunkAssumption
    /\ ED!LensAssumption /\ ED!CpuAddrAssumption /\ ED!CpuWordAssumption
    /\ ED!ImagesAssumption /\ ED!DisciplinedAssumption
BY Ranges, AddrType, JunkAssumption
   DEF ED!HeightAssumption, ED!WordAssumption, ED!JunkAssumption, ED!LensAssumption,
       ED!CpuAddrAssumption, ED!CpuWordAssumption, ED!ImagesAssumption,
       ED!DisciplinedAssumption, ED!Addr, Addr

\* A turn of the processor that neither stores nor asks for a copy.
LEMMA ClearTurn ==
    ASSUME Inv, sp_ctl, E!Cpu, ~Exec1St, ~Exec1Dma
    PROVE  ED!Cpu
<1>1. dman' = dman /\ ~port'.write
  <2>1. ~port.write /\ port \in E!Port
    BY TurnType, EngineTypes DEF Inv, E!DmaInv, E!PortOwner, TypeOK
  <2> QED BY <2>1 DEF sp_ctl, Idle, Fetch0, Fetch1, Dec0, Dec1, Exec0, Exec1Alu,
     Exec1Ld, Exec1DmaBusy, Exec1Jump, Exec1Hlt, Exec1Illegal, Quiet, D!NoAccess,
     D!llsim_mem_read, E!Port
<1>2. ~E!CpuWrite
  BY <1>1, EngineTypes DEF E!CpuWrite, E!llsim_mem_write, E!Port, Inv, TypeOK
<1>3. CASE E!CpuIdle
  BY <1>1, <1>3 DEF E!CpuIdle, E!CtlFrame, E!NoAccess, ED!Cpu, ED!CpuIdle,
     ED!CtlFrame, ED!NoAccess, ED!MayRequest
<1>4. CASE E!CpuRead
  BY <1>1, <1>4 DEF E!CpuRead, E!CtlFrame, E!llsim_mem_read, ED!Cpu, ED!CpuRead,
     ED!CtlFrame, ED!llsim_mem_read, ED!MayRequest
<1>5. CASE E!CpuHalt
  BY <1>5 DEF E!CpuHalt, E!CtlFrame, E!llsim_mem_read, E!NoAccess, ED!Cpu,
     ED!CpuHalt, ED!CtlFrame, ED!llsim_mem_read, ED!NoAccess
<1> QED BY <1>2, <1>3, <1>4, <1>5 DEF E!Cpu

\* Every step of a regular program is one of the engine beside a processor
\* that keeps clear of the words in flight.
LEMMA ClearStep ==
    ASSUME Inv, Regular, [Next]_vars
    PROVE  [ED!Next]_ED!vars
<1>1. [E!Next]_E!vars
  BY EngineStep DEF Inv
<1>2. CASE Exec1St
  <2>1. Hazard /\ Hazard' = Hazard
    BY <1>2, HazardStates DEF Exec1St, Exec1, State, Hazard
  <2>2. cpu.alu1 \in Int /\ cpu.alu0 \in Word
    <3>1. cpu.alu1 \in Word /\ cpu.alu0 \in Word
      BY Held DEF Inv, TypeOK
    <3> QED BY <3>1, AddrType
  <2>3. cpu.alu1 \notin D!InFlight
    BY <1>2 DEF Regular, Exec1St, Exec1, State
  <2>4. D!InFlight = ED!InFlight
    BY DEF D!InFlight, ED!InFlight, D!Dec, ED!Dec
  <2>5. ED!llsim_mem_write(cpu.alu1, cpu.alu0)
    BY <1>2 DEF Exec1St, D!llsim_mem_write, ED!llsim_mem_write
  <2>6. ED!CpuWrite
    BY <1>2, <2>1, <2>2, <2>3, <2>4, <2>5
       DEF Exec1St, Exec1, State, ED!CpuWrite, ED!CtlFrame
  <2> QED BY <2>6 DEF ED!Cpu, ED!Next
<1>3. CASE Exec1Dma
  <2>1. ~Hazard /\ Hazard' = Hazard
    BY <1>3, HazardStates DEF Exec1Dma, Exec1, State, Hazard, DMA, ST
  <2>2. /\ Low(cpu.alu0) \in Addr /\ Low(cpu.aluout) \in Addr /\ cpu.alu1 \in Int
    <3>1. cpu.alu0 \in Word /\ cpu.alu1 \in Word /\ cpu.aluout \in Word
      BY Held DEF Inv, TypeOK
    <3> QED BY <3>1, AddrType, LowType
  <2>3. Low(cpu.aluout) # ED!Inc(Low(cpu.alu0))
    BY <1>3 DEF Regular, Exec1Dma, Exec1, State, D!Inc, ED!Inc
  <2>4. ED!DmaRequest(Low(cpu.alu0), Low(cpu.aluout), cpu.alu1)
    BY <1>3, <2>3 DEF Exec1Dma, ED!DmaRequest
  <2>5. ED!MayRequest
    BY <2>2, <2>4 DEF ED!MayRequest, ED!Addr, Addr
  <2>6. ED!CpuIdle
    BY <1>3, <2>1, <2>5 DEF Exec1Dma, Exec1, State, ED!CpuIdle, ED!CtlFrame,
       D!NoAccess, ED!NoAccess
  <2> QED BY <2>6 DEF ED!Cpu, ED!Next
<1>4. CASE sp_ctl /\ ~Exec1St /\ ~Exec1Dma
  <2>1. E!Cpu
    BY <1>1, <1>4, TurnType DEF E!Next, E!Dma, E!DmaIdle, E!DmaReadFirst, E!DmaDoRead,
       E!DmaDoWrite, E!DmaWriteStalled, E!DmaWriteLast, E!DmaDo, E!DmaFrame,
       E!Commit, E!CommitFault, E!CommitFrame, E!Stopped, E!vars
  <2> QED BY <1>4, <2>1, ClearTurn DEF ED!Next
<1>5. CASE dma_ctl
  <2>1. Hazard' = Hazard /\ D!Dma
    BY <1>5 DEF dma_ctl, Hazard
  <2>2. ED!Dma
    BY <2>1 DEF D!Dma, D!DmaIdle, D!DmaReadFirst, D!DmaDoRead, D!DmaDoWrite,
       D!DmaWriteStalled, D!DmaWriteLast, D!DmaDo, D!DmaFrame, D!WriteWord,
       D!LatchedReg, D!llsim_mem_read, D!llsim_mem_write, D!NoAccess, D!Inc,
       ED!Dma, ED!DmaIdle, ED!DmaReadFirst, ED!DmaDoRead, ED!DmaDoWrite,
       ED!DmaWriteStalled, ED!DmaWriteLast, ED!DmaDo, ED!DmaFrame, ED!WriteWord,
       ED!LatchedReg, ED!llsim_mem_read, ED!llsim_mem_write, ED!NoAccess, ED!Inc
  <2> QED BY <2>2 DEF ED!Next
<1>6. CASE Commit
  <2>1. Hazard' \in BOOLEAN
    BY DEF Hazard
  <2>2. ED!Commit
    BY <1>6, <2>1 DEF Commit, D!Commit, D!CommitFrame, D!OutOfRange, D!Addr,
       D!QuietPort, D!DataOut, ED!Commit, ED!CommitFrame, ED!OutOfRange, ED!Addr,
       ED!QuietPort, ED!DataOut
  <2> QED BY <2>2 DEF ED!Next
<1>7. CASE CommitFault
  <2>1. ED!CommitFault
    BY <1>7 DEF CommitFault, D!CommitFault, D!CommitFrame, D!OutOfRange,
       D!Addr, ED!CommitFault, ED!CommitFrame, ED!OutOfRange, ED!Addr, Hazard
  <2> QED BY <2>1 DEF ED!Next
<1>8. CASE Stopped \/ UNCHANGED vars
  BY <1>8 DEF Stopped, vars, ED!vars, Hazard
<1> QED BY <1>2, <1>3, <1>4, <1>5, <1>6, <1>7, <1>8 DEF Next

\* So is its behaviour.
LEMMA ClearEngine == Spec /\ []Regular => ED!Spec
<1>1. Init => ED!Init
  <2>1. Hazard \in BOOLEAN
    BY DEF Hazard
  <2> QED BY <2>1, ImagesAssumption DEF Init, D!Init, D!ResetRegisters, D!QuietPort,
     D!Addr, Addr, ED!Init, ED!ResetRegisters, ED!QuietPort, ED!Addr
<1>2. Inv /\ Regular /\ [Next]_vars => [ED!Next]_ED!vars
  BY ClearStep
<1> QED BY <1>1, <1>2, Invariant, PTL DEF Spec, ED!Spec

\* Its copies are copies word by word, and each cycle decides as TurnInv says.
LEMMA ClearCopies ==
    Spec /\ []Regular => /\ [][ED!SC!BC!Next]_(ED!SC!BC!vars)
                         /\ []ED!TurnInv
<1>1. ED!Spec => ED!ImplementsBlockCopy
  BY ED!EngineImplementsBlockCopy, ClearAssumptions
<1>2. ED!Spec => []ED!TurnInv
  BY ED!TurnInvariant, ClearAssumptions
<1>3. ED!ImplementsBlockCopy => [][ED!SC!BC!Next]_(ED!SC!BC!vars)
  BY PTL DEF ED!ImplementsBlockCopy, ED!SC!BC!Spec
<1> QED BY <1>1, <1>2, <1>3, ClearEngine, PTL

-----------------------------------------------------------------------------
(***************************************************************************)
(* What a clock edge does to the memory and to the copy: nothing, a word of*)
(* the copy, the store or the request of the instruction in EXEC1.         *)
(***************************************************************************)
\* What is left of the copy.
Job == D!SC!BlockJob

Rests == sram' = sram /\ Job' = Job

Copies == /\ Job.todo > 0
          /\ A!B!CopyWord

Stores ==
    /\ Executing(ST) /\ Job' = Job
    /\ cpu.alu1 \in Addr
    /\ sram' = [sram EXCEPT ![cpu.alu1] = cpu.alu0]

Asks ==
    /\ Started /\ sram' = sram /\ Job.todo = 0
    /\ Job' = IF cpu.alu1 > 0
                THEN [from |-> Low(cpu.alu0), to |-> Low(cpu.aluout),
                      todo |-> cpu.alu1]
                ELSE A!B!NoJob

\* The job in terms of the registers.
LEMMA JobRegisters ==
    ASSUME TypeOK
    PROVE  /\ Job = ED!SC!BlockJob
           /\ Job.todo = ED!JobOf(dma).todo
           /\ dma.busy /\ dma.len > 0 => ED!JobOf(dma).todo = dma.len /\ dma.len \in Nat
           /\ ~(dma.busy /\ dma.len > 0) => /\ ED!JobOf(dma).todo = 0
                                            /\ Job = A!B!NoJob
<1>1. dma \in E!DmaRegisters
  BY EngineTypes DEF TypeOK
<1>2. Job = ED!SC!BlockJob
  BY DEF Job, D!SC!BlockJob, D!SC!Oldest, D!SC!Dec, D!JobOf, D!BufOf,
     ED!SC!BlockJob, ED!SC!Oldest, ED!SC!Dec, ED!JobOf, ED!BufOf
<1>3. Job.todo = ED!JobOf(dma).todo
  BY <1>2 DEF ED!SC!BlockJob
<1>4. dma.busy /\ dma.len > 0 => ED!JobOf(dma).todo = dma.len /\ dma.len \in Nat
  BY <1>1 DEF ED!JobOf, E!DmaRegisters
<1>5. ASSUME ~(dma.busy /\ dma.len > 0)
      PROVE  ED!JobOf(dma).todo = 0 /\ Job = A!B!NoJob
  <2>1. ED!JobOf(dma) = [from |-> 0, to |-> 0, todo |-> 0]
    BY <1>5 DEF ED!JobOf
  <2> QED BY <1>2, <2>1 DEF ED!SC!BlockJob, A!B!NoJob
<1> QED BY <1>2, <1>3, <1>4, <1>5

\* At a clock edge one of the four happens.
LEMMA CommitCases ==
    ASSUME Inv, ProgInv, ED!TurnInv, Commit,
           [ED!SC!BC!Next]_(ED!SC!BC!vars)
    PROVE  \/ (Rests \/ Copies) /\ ~Executing(ST) /\ ~Started
           \/ Stores
           \/ Asks
<1> DEFINE t == ED!JobOf(dma).todo
           tn == ED!JobOf(dman).todo
<1>1. /\ phase = "commit" /\ cpu' = cpun /\ dma' = dman
      /\ sram' = IF port.write THEN [sram EXCEPT ![port.waddr] = port.datain] ELSE sram
      /\ port.write => port.waddr \in Addr
      /\ ~(port.read /\ port.write)
  BY DEF Commit, D!Commit, D!CommitFrame, D!OutOfRange, D!Addr, Addr, Inv,
     E!DmaInv, E!PortOwner
<1>2. ED!Held \/ ED!Asked \/ ED!Fetched \/ ED!Written
  BY <1>1 DEF ED!TurnInv
<1>3. /\ Job = ED!SC!BlockJob /\ Job' = ED!SC!BlockJob'
      /\ Job.todo = t /\ Job'.todo = tn /\ t \in Nat
      /\ dma.busy /\ dma.len > 0 => t = dma.len /\ dma.len \in Nat
      /\ ~(dma.busy /\ dma.len > 0) => t = 0 /\ Job = A!B!NoJob
  <2>1. TypeOK
    BY DEF Inv
  <2>2. Job' = ED!SC!BlockJob'
    BY DEF Job, D!SC!BlockJob, D!SC!Oldest, D!SC!Dec, D!JobOf, D!BufOf,
       ED!SC!BlockJob, ED!SC!Oldest, ED!SC!Dec, ED!JobOf, ED!BufOf
  <2>3. Job'.todo = tn
    BY <1>1, <2>2 DEF ED!SC!BlockJob
  <2> QED BY <2>1, <2>2, <2>3, JobRegisters
\* What the copy may do when the length does not change, and when it does.
<1>4. ASSUME tn = t
      PROVE  Job' = Job
  <2>1. ~ED!SC!BC!Request
    BY <1>3, <1>4 DEF ED!SC!BC!Request
  <2>2. ~ED!SC!BC!CopyWord
    BY <1>3, <1>4 DEF ED!SC!BC!CopyWord, ED!SC!BC!NoJob
  <2> QED BY <1>3, <2>1, <2>2 DEF ED!SC!BC!Next, ED!SC!BC!Store, ED!SC!BC!vars
<1>5. ASSUME tn # t, t > 0
      PROVE  Copies
  <2>1. ED!SC!BC!CopyWord
    BY <1>3, <1>5
       DEF ED!SC!BC!Next, ED!SC!BC!Store, ED!SC!BC!Request, ED!SC!BC!vars
  <2>2. A!B!CopyWord
    BY <1>3, <2>1 DEF ED!SC!BC!CopyWord, ED!SC!BC!NoJob, ED!SC!BC!Inc,
       A!B!CopyWord, A!B!NoJob, A!B!Inc, A!Height, Height, A!Pow2, Pow2,
       A!Doubled, Doubled, A!WordBits, WordBits, Job
  <2> QED BY <1>3, <1>5, <2>2 DEF Copies
<1>6. CASE Executing(ST)
  <2>1. port.write /\ port.waddr = cpu.alu1 /\ port.datain = cpu.alu0 /\ Hazard
    BY <1>1, <1>6, HazardStates DEF ProgInv, Accesses, Executing
  <2>2. ED!Held
    BY <1>2, <2>1 DEF ED!Asked, ED!Fetched, ED!Written
  <2>3. tn = t
    BY <2>2 DEF ED!Held
  <2> QED BY <1>1, <1>4, <1>6, <2>1, <2>3 DEF Stores
<1>7. CASE Started
  <2>1. ~dma.busy /\ dman.busy /\ ~Hazard
    BY <1>7, HazardStates DEF Started, Executing, DMA, ST
  <2>2. ED!Held \/ ED!Asked
    BY <1>2, <2>1 DEF ED!Fetched, ED!Written
  <2>3. sram' = sram
    BY <1>1, <2>1, <2>2 DEF ED!Held, ED!Asked
  <2>4. dman.src = Low(cpu.alu0) /\ dman.dst = Low(cpu.aluout) /\ dman.len = cpu.alu1
    BY <1>7 DEF Started
  <2>5. CASE cpu.alu1 > 0
    <3>1. ED!JobOf(dman) = [from |-> Low(cpu.alu0), to |-> Low(cpu.aluout),
                            todo |-> cpu.alu1]
      BY <2>1, <2>4, <2>5 DEF ED!JobOf
    <3>2. tn # t
      BY <1>3, <2>1, <2>5, <3>1
    <3>3. ED!Asked
      BY <2>2, <3>2 DEF ED!Held
    <3>4. \A out : ED!BufOf(dman, out) = << >>
      BY <3>3 DEF ED!Asked
    <3>5. ED!SC!BlockJob' = [from |-> Low(cpu.alu0), to |-> Low(cpu.aluout),
                             todo |-> cpu.alu1]
      <4>1. cpu.alu1 # 0
        BY <1>3, <2>1, <3>1, <3>2
      <4> QED BY <1>1, <3>1, <3>4, <4>1 DEF ED!SC!BlockJob, ED!SC!Oldest
    <3> QED BY <1>3, <1>7, <2>1, <2>3, <2>5, <3>5 DEF Asks
  <2>6. CASE ~(cpu.alu1 > 0)
    <3>1. ED!JobOf(dman) = [from |-> 0, to |-> 0, todo |-> 0]
      BY <2>4, <2>6 DEF ED!JobOf
    <3>2. ED!SC!BlockJob' = A!B!NoJob
      BY <1>1, <3>1 DEF ED!SC!BlockJob, A!B!NoJob
    <3> QED BY <1>3, <1>7, <2>1, <2>3, <2>6, <3>2 DEF Asks
  <2> QED BY <2>5, <2>6
<1>8. CASE ~Executing(ST) /\ ~Started
  <2>1. port.write => ~Hazard
    BY <1>1, <1>8 DEF ProgInv, Accesses, Executing, Hazard
  <2>2. ~ED!Asked
    <3> SUFFICES ASSUME ED!Asked PROVE FALSE
      OBVIOUS
    <3>1. dman.busy /\ dman.len > 0 => dma.busy /\ dma.len > 0
      BY <1>1, <1>8 DEF ProgInv, Requests
    <3>2. ED!JobOf(dma).todo = 0
      BY DEF ED!Asked, ED!NoJob
    <3> QED BY <1>3, <3>1, <3>2 DEF ED!Asked
  <2>3. CASE ED!Held
    <3>1. ~port.write /\ tn = t
      BY <2>1, <2>3 DEF ED!Held
    <3> QED BY <1>1, <1>4, <1>8, <3>1 DEF Rests
  <2>4. CASE ED!Fetched
    <3>1. ~port.write /\ tn = t
      BY <2>4 DEF ED!Fetched, ED!JobOf
    <3> QED BY <1>1, <1>4, <1>8, <3>1 DEF Rests
  <2>5. CASE ED!Written
    <3>1. /\ dma.busy /\ dma.len > 0
          /\ tn = IF dma.len = 1 THEN 0 ELSE dma.len - 1
      BY <2>5 DEF ED!Written, ED!NoJob
    <3> QED BY <1>3, <1>5, <1>8, <3>1
  <2> QED BY <1>2, <2>2, <2>3, <2>4, <2>5
<1> QED BY <1>6, <1>7, <1>8

-----------------------------------------------------------------------------
(***************************************************************************)
(* The words of the programmer's machine are those of the implementation.  *)
(***************************************************************************)
LEMMA ArchWidths ==
    /\ A!Pow2 = Pow2 /\ A!WordBits = WordBits /\ A!Height = Height
    /\ A!HalfRange = HalfRange /\ A!Addr = Addr /\ A!Word = Word
BY DEF A!Pow2, Pow2, A!Doubled, Doubled, A!WordBits, WordBits, A!Height, Height,
       A!HalfRange, HalfRange, A!Addr, Addr, A!Word, Word

\* Wrapping, and the low half of a word.
LEMMA ArchLow == \A x : A!Wrap(x) = Wrap(x) /\ A!Low(x) = Low(x)
BY ArchWidths DEF A!Wrap, Wrap, A!Low, Low

\* The fields of an instruction.
LEMMA ArchDecode == ASSUME NEW w PROVE A!Decode(w) = Decode(w)
BY ArchWidths, ArchLow DEF A!Decode, Decode, A!Field, Field, A!SignExtend, SignExtend,
   A!Unsigned, Unsigned

\* The condition of a jump.
LEMMA ArchTaken ==
    ASSUME NEW o, NEW a, NEW b
    PROVE  A!Taken(o, a, b) = Taken(o, a, b)
BY DEF A!Taken, Taken, A!JLT, A!JLE, A!JEQ, A!JNE, JLT, JLE, JEQ, JNE

\* The results of the arithmetic instructions.
LEMMA ArchArith ==
    ASSUME NEW o, NEW a, NEW b
    PROVE  A!Arith(o, a, b) = Arith(o, a, b)
<1>1. /\ A!ShiftLeft(a, b) = ShiftLeft(a, b)
      /\ A!ShiftRight(a, b) = ShiftRight(a, b)
  BY ArchWidths, ArchLow DEF A!ShiftLeft, ShiftLeft, A!ShiftRight, ShiftRight
<1>2. \A S : A!OfBits(S) = OfBits(S)
  BY ArchWidths, ArchLow DEF A!OfBits, OfBits
<1>3. \A x : A!Bits(x) = Bits(x)
  BY ArchWidths DEF A!Bits, Bits
<1> QED BY <1>1, <1>2, <1>3, ArchLow DEF A!Arith, Arith, A!ADD, A!SUB, A!LSF, A!RSF,
    A!AND, A!OR, A!XOR, ADD, SUB, LSF, RSF, AND, OR, XOR

\* The operation codes.
LEMMA ArchOps ==
    /\ A!ArithOps = ArithOps /\ A!BranchOps = BranchOps
    /\ A!LHI = LHI /\ A!LD = LD /\ A!ST = ST /\ A!DMA = DMA /\ A!DMP = DMP
    /\ A!JIN = JIN /\ A!HLT = HLT
BY DEF A!ArithOps, A!BranchOps, A!ADD, A!SUB, A!LSF, A!RSF, A!AND, A!OR, A!XOR,
   A!LHI, A!LD, A!ST, A!DMA, A!DMP, A!JLT, A!JLE, A!JEQ, A!JNE, A!JIN, A!HLT,
   ArithOps, BranchOps, ADD, SUB, LSF, RSF, AND, OR, XOR, LHI, LD, ST, DMA, DMP,
   JLT, JLE, JEQ, JNE, JIN, HLT

\* The operation codes are different.
LEMMA Codes ==
    /\ ArithOps = 0 .. 6 /\ BranchOps = 16 .. 19
    /\ LHI = 7 /\ LD = 8 /\ ST = 9 /\ DMA = 10 /\ DMP = 11 /\ JIN = 20 /\ HLT = 24
BY DEF ArithOps, BranchOps, ADD, SUB, LSF, RSF, AND, OR, XOR, LHI, LD, ST, DMA,
       DMP, JLT, JLE, JEQ, JNE, JIN, HLT

-----------------------------------------------------------------------------
(***************************************************************************)
(* At the clock edge that ends EXEC1, the instruction the programmer sees  *)
(* is the one that sp_ctl executed.                                        *)
(***************************************************************************)
\* The last moment of an instruction.
Ending == phase = "commit" /\ cpu.ctl_state = "EXEC1"

\* What it is, and its operands.
LEMMA Instruction ==
    ASSUME Inv, ProgInv, Ending, cpu.inst = sram[cpu.pc]
    PROVE  /\ cpu.pc \in Addr /\ ArchPc = cpu.pc /\ ArchStatus = "running" /\ ~Halted
           /\ A!inst.opcode = cpu.opcode /\ A!inst.dst = cpu.dst
           /\ A!inst.immediate = cpu.immediate
           /\ cpu.opcode # LHI => A!Val0 = cpu.alu0
           /\ A!Val1 = cpu.alu1
           /\ A!NextPc = Low(cpu.pc + 1)
<1>1. cpu.pc \in Addr
  BY DEF Inv, PathInv, Ending, CtlState
<1>2. ~Halted /\ ArchStatus = "running"
  BY DEF Halted, ArchStatus, Ending
<1>3. ArchPc = cpu.pc
  <2>1. Low(cpu.pc) = cpu.pc
    BY <1>1, LowType
  <2> QED BY <1>2, <2>1 DEF ArchPc, Ending
<1>4. A!inst = Decode(cpu.inst)
  BY <1>3, ArchDecode DEF A!inst
<1>5. /\ cpu.opcode = Decode(cpu.inst).opcode /\ cpu.dst = Decode(cpu.inst).dst
      /\ cpu.src0 = Decode(cpu.inst).src0 /\ cpu.src1 = Decode(cpu.inst).src1
      /\ cpu.immediate = Decode(cpu.inst).immediate
      /\ cpu.alu0 = IF cpu.src0 = 1 \/ cpu.opcode = LHI THEN cpu.immediate
                                                        ELSE cpu.r[cpu.src0]
      /\ cpu.alu1 = IF cpu.src1 = 1 THEN cpu.immediate ELSE cpu.r[cpu.src1]
  BY DEF ProgInv, Computed, Ending
<1>6. cpu.opcode # LHI => A!Val0 = cpu.alu0
  BY <1>4, <1>5, ArchOps DEF A!Val0
<1>7. A!Val1 = cpu.alu1
  BY <1>4, <1>5 DEF A!Val1
<1>8. A!NextPc = Low(cpu.pc + 1)
  BY <1>3, ArchLow DEF A!NextPc
<1> QED BY <1>1, <1>2, <1>3, <1>4, <1>5, <1>6, <1>7, <1>8

\* After the edge.
LEMMA NextArch ==
    ASSUME Inv, ProgInv, Commit, cpu.ctl_state = "EXEC1"
    PROVE  /\ cpu'.r = cpun.r
           /\ ArchStatus' = IF cpu.opcode = HLT THEN "halted" ELSE "running"
           /\ Halted' <=> cpu.opcode = HLT
           /\ cpu.opcode = HLT => dump' = sram
           /\ cpu.inst = HLT => cpu.opcode = ADD /\ cpu.dst = 0
           /\ ArchPc' = IF cpu.opcode = HLT THEN Low(cpun.pc + 1)
                        ELSE IF cpu.inst = HLT THEN 0
                        ELSE Low(cpun.pc)
<1>1. /\ phase = "commit" /\ phase' = "ctl" /\ cpu' = cpun /\ stop_sim' = stop_sim
      /\ dump' = dump
  BY DEF Commit, D!Commit, D!CommitFrame
<1>2. /\ stop_sim <=> cpu.opcode = HLT
      /\ stop_sim => dump = sram
      /\ cpun.ctl_state = AfterExec1
  BY <1>1 DEF ProgInv, Stopping, Executing, Moved, Executed
<1>3. Halted' <=> cpu.opcode = HLT
  BY <1>1, <1>2 DEF Halted
<1>4. cpu.inst = HLT => cpu.opcode = ADD /\ cpu.dst = 0
  BY HltWord DEF ProgInv, Computed
<1>5. ArchPc' = IF cpu.opcode = HLT THEN Low(cpun.pc + 1)
                ELSE IF cpu.inst = HLT THEN 0
                ELSE Low(cpun.pc)
  BY <1>1, <1>2, <1>3 DEF ArchPc, AfterExec1
<1> QED BY <1>1, <1>2, <1>3, <1>4, <1>5 DEF ArchStatus

\* The link and the target of a jump.
LEMMA Jump ==
    ASSUME Inv, ProgInv, Ending, Regular,
           cpu.opcode \in BranchOps \cup {JIN, DMP}, cpu.aluout # 0
    PROVE  A!Link = cpu.pc
<1>1. cpu.inst = sram[cpu.pc] /\ cpu.pc # Height - 1
  BY DEF Regular, Ending
<1>2. A!NextPc = Low(cpu.pc + 1) /\ cpu.pc \in Addr
  BY <1>1, Instruction
<1>3. cpu.pc + 1 \in Addr
  BY <1>1, <1>2, Ranges DEF Addr
<1>4. Low(cpu.pc + 1) = cpu.pc + 1 /\ cpu.pc \in Int
  BY <1>2, <1>3, LowType, AddrType
<1> QED BY <1>2, <1>4 DEF A!Link

\* What the programmer sees of the file that HLT writes.
Dumped == IF Halted THEN dump ELSE << >>

\* The registers as the instruction set simulator assigns them.
LEMMA Assignment ==
    ASSUME NEW d, NEW v, cpu \in CpuRegisters, d \in 0 .. 7,
           cpu'.r = IF d > 1 THEN [cpu.r EXCEPT ![d] = v] ELSE cpu.r
    PROVE  A!SetReg(d, v)
BY DEF A!SetReg

\* An instruction that neither stores nor starts a copy ends.
LEMMA RegisterStep ==
    ASSUME Inv, ProgInv, Commit, Regular, cpu.ctl_state = "EXEC1",
           ~Executing(ST), ~Started, cpu.opcode = DMP /\ cpu.aluout # 0 => Job.todo = 0
    PROVE  \/ A!Register
           \/ UNCHANGED <<cpu.r, ArchPc, ArchStatus, Dumped>>
<1>1. /\ Ending /\ cpu.inst = sram[cpu.pc] /\ cpu.opcode # LHI
  BY DEF Ending, Regular, Commit, D!Commit, D!CommitFrame
<1>2. /\ cpu.pc \in Addr /\ ArchPc = cpu.pc /\ ArchStatus = "running" /\ ~Halted
      /\ A!inst.opcode = cpu.opcode /\ A!inst.dst = cpu.dst
      /\ A!inst.immediate = cpu.immediate
      /\ A!Val0 = cpu.alu0 /\ A!Val1 = cpu.alu1
      /\ A!NextPc = Low(cpu.pc + 1)
  BY <1>1, Instruction
<1>3. /\ cpu'.r = cpun.r
      /\ ArchStatus' = IF cpu.opcode = HLT THEN "halted" ELSE "running"
      /\ Halted' <=> cpu.opcode = HLT
      /\ cpu.opcode = HLT => dump' = sram
      /\ cpu.inst = HLT => cpu.opcode = ADD /\ cpu.dst = 0
      /\ ArchPc' = IF cpu.opcode = HLT THEN Low(cpun.pc + 1)
                   ELSE IF cpu.inst = HLT THEN 0
                   ELSE Low(cpun.pc)
  BY NextArch
<1>4. /\ cpu \in CpuRegisters /\ cpu.dst \in 0 .. 7 /\ cpu.opcode \in 0 .. 31
      /\ cpu.r \in [0 .. 7 -> Word]
  <2>1. cpu \in CpuRegisters
    BY DEF Inv, TypeOK
  <2> QED BY <2>1, Held
<1>5. cpu.opcode # HLT => ArchStatus' = ArchStatus /\ Dumped' = Dumped
  BY <1>2, <1>3 DEF Dumped
<1>6. Executed
  BY <1>1 DEF Ending, ProgInv, Moved
<1>7. CASE cpu.opcode \in ArithOps
  <2>1. /\ cpun.r = IF cpu.dst > 1 THEN [cpu.r EXCEPT ![cpu.dst] = cpu.aluout]
                                   ELSE cpu.r
        /\ cpun.pc = cpu.pc + 1
    BY <1>6, <1>7, Codes DEF Executed, Assigned
  <2>2. cpu.opcode # HLT
    BY <1>7, Codes
  <2>3. CASE cpu.inst = HLT
    <3>1. cpu'.r = cpu.r /\ ArchPc' = 0
      BY <1>3, <2>1, <2>2, <2>3
    <3>2. A!ExecRestart
      BY <1>1, <1>2, <1>5, <2>2, <2>3, <3>1, ArchOps DEF A!ExecRestart
    <3> QED BY <1>5, <2>2, <3>2 DEF A!Register, Dumped
  <2>4. CASE cpu.inst # HLT
    <3>1. cpu.aluout = Arith(cpu.opcode, cpu.alu0, cpu.alu1)
      BY <1>1, <1>7 DEF ProgInv, Computed, Ending
    <3>2. A!SetReg(cpu.dst, A!Arith(cpu.opcode, cpu.alu0, cpu.alu1))
      BY <1>3, <1>4, <2>1, <3>1, Assignment, ArchArith
    <3>3. ArchPc' = A!NextPc
      BY <1>2, <1>3, <2>1, <2>2, <2>4
    <3>4. A!ExecArith
      BY <1>2, <1>5, <1>7, <2>2, <3>2, <3>3, ArchOps DEF A!ExecArith, A!Execute
    <3> QED BY <1>1, <1>2, <1>5, <2>2, <2>4, <3>4, ArchOps DEF A!Register, Dumped
  <2> QED BY <2>3, <2>4
<1>8. CASE cpu.opcode = LD
  <2>1. /\ cpun.r = IF cpu.dst > 1
                      THEN [cpu.r EXCEPT ![cpu.dst] = sram[Low(cpu.alu1)]]
                      ELSE cpu.r
        /\ cpun.pc = cpu.pc + 1
    BY <1>6, <1>8, Codes DEF Executed, Assigned
  <2>2. cpu.opcode # HLT /\ cpu.inst # HLT
    BY <1>3, <1>8, Codes DEF ADD
  <2>3. A!SetReg(cpu.dst, sram[A!Low(cpu.alu1)])
    BY <1>3, <1>4, <2>1, Assignment, ArchLow
  <2>4. ArchPc' = A!NextPc
    BY <1>2, <1>3, <2>1, <2>2
  <2>5. A!ExecLd
    BY <1>2, <1>5, <1>8, <2>2, <2>3, <2>4, ArchOps DEF A!ExecLd, A!Execute
  <2> QED BY <1>5, <2>2, <2>5 DEF A!Register, Dumped
<1>9. CASE cpu.opcode \in BranchOps \cup {JIN, DMP}
  <2>1. IF cpu.aluout # 0
          THEN cpun.pc = cpu.immediate /\ cpun.r = [cpu.r EXCEPT ![7] = cpu.pc]
          ELSE cpun.pc = cpu.pc + 1 /\ cpun.r = cpu.r
    BY <1>6, <1>9, Codes DEF Executed
  <2>2. cpu.opcode # HLT /\ cpu.inst # HLT
    BY <1>3, <1>9, Codes DEF ADD
  <2>3. ASSUME cpu.aluout # 0
        PROVE  A!SetReg(7, A!Link) /\ ArchPc' = A!Low(cpu.immediate)
    <3>1. A!Link = cpu.pc
      BY <1>1, <1>9, <2>3, Jump
    <3>2. cpu'.r = [cpu.r EXCEPT ![7] = cpu.pc]
      BY <1>3, <2>1, <2>3
    <3>3. A!SetReg(7, A!Link)
      BY <3>1, <3>2 DEF A!SetReg
    <3> QED BY <1>3, <2>1, <2>2, <2>3, <3>3, ArchLow
  <2>4. ASSUME cpu.aluout = 0
        PROVE  cpu'.r = cpu.r /\ ArchPc' = A!NextPc
    BY <1>2, <1>3, <2>1, <2>2, <2>4
  <2>5. CASE cpu.opcode \in BranchOps
    <3>1. cpu.aluout = Bool(A!Taken(cpu.opcode, cpu.alu0, cpu.alu1))
      BY <1>1, <2>5, ArchTaken DEF ProgInv, Computed, Ending
    <3>2. A!ExecBranch
      BY <1>2, <1>5, <2>2, <2>3, <2>4, <2>5, <3>1, ArchOps
         DEF A!ExecBranch, A!Execute, Bool
    <3> QED BY <1>5, <2>2, <3>2 DEF A!Register, Dumped
  <2>6. CASE cpu.opcode = JIN
    <3>1. cpu.aluout = 1
      BY <1>1, <2>6 DEF ProgInv, Computed, Ending
    <3>2. A!ExecJinImmediate
      BY <1>2, <1>5, <2>2, <2>3, <2>6, <3>1, ArchOps DEF A!ExecJinImmediate, A!Execute
    <3> QED BY <1>5, <2>2, <3>2 DEF A!Register, Dumped
  <2>7. CASE cpu.opcode = DMP
    <3>1. CASE cpu.aluout # 0
      <4>1. A!ExecDmpIdle
        BY <1>2, <1>5, <2>2, <2>3, <2>7, <3>1, ArchOps
           DEF A!ExecDmpIdle, A!Execute, Job
      <4> QED BY <1>5, <2>2, <4>1 DEF A!Register, Dumped
    <3>2. CASE cpu.aluout = 0
      <4>1. A!ExecDmpBusy
        BY <1>2, <1>5, <2>2, <2>4, <2>7, <3>2, ArchOps DEF A!ExecDmpBusy, A!Execute
      <4> QED BY <1>5, <2>2, <4>1 DEF A!Register, Dumped
    <3> QED BY <3>1, <3>2
  <2> QED BY <1>9, <2>5, <2>6, <2>7
<1>10. CASE cpu.opcode = HLT
  <2>1. cpun.pc = cpu.pc /\ cpun.r = cpu.r
    BY <1>6, <1>10, Codes DEF Executed
  <2>2. ArchPc' = A!NextPc /\ cpu'.r = cpu.r /\ ArchStatus' = "halted"
        /\ Dumped' = sram
    BY <1>2, <1>3, <1>10, <2>1 DEF Dumped
  <2>3. A!ExecHlt
    BY <1>2, <1>10, <2>2, ArchOps DEF A!ExecHlt, A!Execute
  <2> QED BY <2>2, <2>3 DEF A!Register, Dumped
<1>11. CASE cpu.opcode = DMA \/ cpu.opcode \in (12 .. 15) \cup (21 .. 23) \cup (25 .. 31)
  <2>1. cpun.pc = cpu.pc /\ cpun.r = cpu.r
    BY <1>6, <1>11, Codes DEF Executed
  <2>2. cpu.opcode # HLT /\ cpu.inst # HLT
    BY <1>3, <1>11, Codes DEF ADD
  <2>3. ArchPc' = ArchPc
    BY <1>2, <1>3, <2>1, <2>2, LowType
  <2> QED BY <1>3, <1>5, <2>1, <2>2, <2>3
<1>12. cpu.opcode # ST
  BY DEF Executing
<1> QED BY <1>1, <1>4, <1>7, <1>8, <1>9, <1>10, <1>11, <1>12, Codes

\* Between two clock edges the programmer sees nothing.
LEMMA ArchFrame ==
    ASSUME Inv, ProgInv, [Next]_vars, ~Commit
    PROVE  UNCHANGED <<sram, cpu.r, ArchPc, ArchStatus, Dumped, Job>>
<1>1. [E!Next]_E!vars
  BY EngineStep DEF Inv
<1>2. TypeOK /\ E!TypeOK /\ E!DmaInv
  BY EngineTypes DEF Inv, TypeOK
<1>3. /\ UNCHANGED <<sram, cpu>>
      /\ Halted' <=> Halted
      /\ Halted => dump' = dump
  BY TurnFrame, EngineTurn DEF Next, CommitFault, D!CommitFault, D!CommitFrame,
     Stopped, vars, Halted
<1>4. ~E!Commit
  <2>1. CASE sp_ctl \/ dma_ctl
    BY <2>1, TurnFrame, EngineTurn DEF E!Commit, E!CommitFrame
  <2>2. CASE CommitFault
    BY <2>2 DEF CommitFault, D!CommitFault, D!OutOfRange, D!Addr, E!Commit,
       E!OutOfRange, E!Addr
  <2>3. CASE Stopped \/ UNCHANGED vars
    <3>1. phase' = phase
      BY <2>3 DEF Stopped, vars
    <3> QED BY <3>1 DEF E!Commit, E!CommitFrame
  <2> QED BY <2>1, <2>2, <2>3 DEF Next
<1>5. E!Cpu \/ E!Dma \/ E!CommitFault \/ UNCHANGED E!vars
  BY <1>1, <1>4 DEF E!Next, E!Stopped
<1>6. UNCHANGED E!SCP!vars
  BY <1>2, <1>5, E!OtherSteps, EngineAssumptions
<1>7. UNCHANGED <<E!JobOf(dma), E!BufOf(dma, port.dataout)>>
  BY <1>6 DEF E!SCP!vars
<1>8. Job' = Job
  BY <1>7 DEF Job, D!SC!BlockJob, D!SC!Oldest, D!SC!Dec, D!JobOf, D!BufOf,
     E!JobOf, E!BufOf
<1> QED BY <1>3, <1>8 DEF ArchPc, ArchStatus, Dumped

\* A clock edge in the middle of an instruction.
LEMMA MiddleCommit ==
    ASSUME Inv, ProgInv, Commit, cpu.ctl_state # "EXEC1"
    PROVE  UNCHANGED <<cpu.r, ArchPc, ArchStatus, Dumped>>
<1>1. /\ phase = "commit" /\ phase' = "ctl" /\ cpu' = cpun /\ stop_sim' = stop_sim
  BY DEF Commit, D!Commit, D!CommitFrame
<1>2. ~stop_sim
  BY <1>1 DEF ProgInv, Stopping, Executing
<1>3. /\ cpun.r = cpu.r
      /\ cpun.pc = IF cpu.ctl_state = "IDLE" THEN 0 ELSE cpu.pc
      /\ cpun.ctl_state # "IDLE"
  BY <1>1 DEF ProgInv, Moved
<1>4. Low(0) = 0
  BY AddrType, LowType
<1> QED BY <1>1, <1>2, <1>3, <1>4 DEF ArchPc, ArchStatus, Dumped, Halted

\* The clock edge that ends a store.
LEMMA StoreStep ==
    ASSUME Inv, ProgInv, Commit, Regular, Stores
    PROVE  A!ExecStInside /\ UNCHANGED <<Dumped, Job>>
<1>1. /\ Ending /\ cpu.inst = sram[cpu.pc] /\ cpu.opcode = ST
      /\ cpu.ctl_state = "EXEC1"
  BY DEF Ending, Regular, Commit, D!Commit, D!CommitFrame, Stores, Executing
<1>2. /\ ArchStatus = "running" /\ ~Halted /\ A!inst.opcode = cpu.opcode
      /\ A!Val0 = cpu.alu0 /\ A!Val1 = cpu.alu1 /\ A!NextPc = Low(cpu.pc + 1)
  BY <1>1, Instruction, Codes
<1>3. cpun.r = cpu.r /\ cpun.pc = cpu.pc + 1
  BY <1>1, Codes DEF Ending, ProgInv, Moved, Executed
<1>4. cpu.inst # HLT /\ cpu.opcode # HLT
  BY <1>1, NextArch, Codes DEF ADD
<1>5. cpu'.r = cpu.r /\ ArchPc' = A!NextPc /\ ArchStatus' = "running" /\ ~Halted'
  BY <1>1, <1>2, <1>3, <1>4, NextArch
<1>6. A!Low(A!Val1) = cpu.alu1
  BY <1>2, ArchLow, LowType DEF Stores
<1>7. A!ExecSt
  BY <1>1, <1>2, <1>5, <1>6, ArchOps DEF A!ExecSt, A!Execute, Stores
<1>8. A!Val1 \in A!Addr
  BY <1>2, ArchWidths DEF Stores
<1> QED BY <1>2, <1>5, <1>7, <1>8 DEF A!ExecStInside, Dumped, Stores

\* The clock edge that ends a DMA instruction whose request was accepted.
LEMMA AskStep ==
    ASSUME Inv, ProgInv, Commit, Regular, Asks
    PROVE  A!ExecDma
<1>1. /\ Ending /\ cpu.inst = sram[cpu.pc] /\ cpu.opcode = DMA
      /\ cpu.ctl_state = "EXEC1"
  BY DEF Ending, Regular, Commit, D!Commit, D!CommitFrame, Asks, Started, Executing
<1>2. /\ ArchStatus = "running" /\ ~Halted /\ A!inst.opcode = cpu.opcode
      /\ A!inst.dst = cpu.dst
      /\ A!Val0 = cpu.alu0 /\ A!Val1 = cpu.alu1 /\ A!NextPc = Low(cpu.pc + 1)
  BY <1>1, Instruction, Codes
<1>3. cpun.r = cpu.r /\ cpun.pc = cpu.pc + 1
  BY <1>1, Codes DEF Ending, ProgInv, Moved, Executed, Asks, Started
<1>4. cpu.inst # HLT /\ cpu.opcode # HLT
  BY <1>1, NextArch, Codes DEF ADD
<1>5. cpu'.r = cpu.r /\ ArchPc' = A!NextPc /\ ArchStatus' = "running" /\ ~Halted'
  BY <1>1, <1>2, <1>3, <1>4, NextArch
<1>6. cpu.aluout = cpu.r[cpu.dst]
  BY <1>1 DEF ProgInv, Computed
<1>7. Job' = IF A!Val1 > 0
               THEN [from |-> A!Low(A!Val0), to |-> A!Low(cpu.r[A!inst.dst]),
                     todo |-> A!Val1]
               ELSE A!B!NoJob
  BY <1>2, <1>6, ArchLow DEF Asks
<1> QED BY <1>1, <1>2, <1>5, <1>7, ArchOps DEF A!ExecDma, A!Execute, Asks, Dumped, Job

\* Every step of a regular program is a step of the programmer's machine.
LEMMA ArchStep ==
    ASSUME Inv, ProgInv, Regular, ED!TurnInv, [Next]_vars,
           [ED!SC!BC!Next]_(ED!SC!BC!vars)
    PROVE  [A!ArchNext]_A!archVars
<1>1. CASE ~Commit
  BY <1>1, ArchFrame DEF A!archVars, Dumped, Job
<1>2. CASE Commit /\ Stores
  BY <1>2, StoreStep DEF A!ArchNext, Dumped, Job
<1>3. CASE Commit /\ Asks
  BY <1>3, AskStep DEF A!ArchNext
<1>4. CASE Commit /\ ~Stores /\ ~Asks
  <2>1. (Rests \/ Copies) /\ ~Executing(ST) /\ ~Started
    BY <1>4, CommitCases
  <2>2. \/ A!Register
        \/ UNCHANGED <<cpu.r, ArchPc, ArchStatus, Dumped>>
    <3>1. CASE cpu.ctl_state = "EXEC1"
      <4>1. cpu.opcode = DMP /\ cpu.aluout # 0 => Job.todo = 0
        <5>1. TypeOK
          BY DEF Inv
        <5> QED BY <3>1, <5>1, JobRegisters DEF ProgInv, Polls, Executing
      <4> QED BY <1>4, <2>1, <3>1, <4>1, RegisterStep
    <3>2. CASE cpu.ctl_state # "EXEC1"
      BY <1>4, <3>2, MiddleCommit
    <3> QED BY <3>1, <3>2
  <2>3. CASE Rests
    BY <2>2, <2>3 DEF Rests, A!ArchNext, A!archVars, Dumped, Job
  <2>4. CASE Copies
    BY <2>2, <2>4 DEF Copies, A!ArchNext, A!Copy, Dumped
  <2> QED BY <2>1, <2>3, <2>4
<1> QED BY <1>1, <1>2, <1>3, <1>4

(***************************************************************************)
(* The multicycle machine implements the programmer's machine for every    *)
(* regular program, every memory image and every width of the immediate    *)
(* field: an instruction takes effect at the clock edge of its EXEC1, and  *)
(* the copy beside it moves word by word.  Regular is evaluated in the     *)
(* state in which an instruction executes, so the theorem speaks of runs,  *)
(* not of program texts.                                                   *)
(***************************************************************************)
THEOREM MachineImplementsArch == Spec /\ []Regular => ImplementsArch
<1>1. Init => A!ArchInit
  <2> SUFFICES ASSUME Init PROVE A!ArchInit
    OBVIOUS
  <2>1. ~Halted /\ ArchPc = 0 /\ ArchStatus = "running" /\ Dumped = << >>
    BY DEF Init, D!Init, Halted, ArchPc, ArchStatus, Dumped, ResetRegisters
  <2>2. Job = A!B!NoJob
    <3>1. TypeOK
      BY TypeInit
    <3> QED BY <3>1, JobRegisters DEF Init, D!Init, D!ResetRegisters
  <2>3. sram \in [Addr -> Word] /\ cpu.r = [i \in 0 .. 7 |-> 0]
    BY ImagesAssumption DEF Init, ResetRegisters
  <2> QED BY <2>1, <2>2, <2>3, ArchWidths DEF A!ArchInit, A!Init, Dumped, Job
<1>2. Inv /\ ProgInv /\ Regular /\ ED!TurnInv /\ [Next]_vars
         /\ [ED!SC!BC!Next]_(ED!SC!BC!vars)
      => [A!ArchNext]_A!archVars
  BY ArchStep
<1> QED BY <1>1, <1>2, Invariant, ProgInvariant, ClearCopies, PTL
    DEF Spec, ImplementsArch, A!ArchSpec

-----------------------------------------------------------------------------
(***************************************************************************)
(* Programs of the common instruction set.  They never start the engine,   *)
(* so what was fetched stays what the memory holds.                        *)
(***************************************************************************)
\* The states after a fetch.
Decoded == {"DEC0", "DEC1", "EXEC0", "EXEC1"}

\* The engine stays free, and the word fetched is the one in memory.
FetchInv ==
    /\ ~dma.busy /\ ~dman.busy
    /\ phase = "ctl" /\ cpu.ctl_state = "FETCH1" => port.dataout = sram[cpu.pc]
    /\ cpu.ctl_state \in Decoded => cpu.inst = sram[cpu.pc]
    /\ phase # "ctl" =>
          /\ cpun.ctl_state = "FETCH1" => port.read /\ port.raddr = cpun.pc
          /\ cpun.ctl_state \in Decoded => cpun.inst = sram[cpun.pc]
          /\ port.write => cpu.ctl_state = "EXEC1"

\* A free engine leaves everything alone.
LEMMA FreeEngineTurn ==
    ASSUME Inv, dma_ctl, ~dma.busy
    PROVE  port' = port /\ dma' = dma /\ dman' = dman
<1>1. dma.state = "IDLE"
  BY DEF Inv, E!DmaInv, E!Control
<1>2. D!DmaIdle
  BY <1>1 DEF dma_ctl, D!Dma, D!DmaIdle, D!DmaReadFirst, D!DmaDoRead, D!DmaDoWrite,
     D!DmaWriteStalled, D!DmaWriteLast, D!DmaDo
<1>3. port' = port
  BY <1>2 DEF D!DmaIdle, D!NoAccess
<1> QED BY <1>3, EngineTurn

\* A call of sp_ctl keeps it.
LEMMA FetchTurn ==
    ASSUME Inv, ProgInv, Common, FetchInv, sp_ctl
    PROVE  FetchInv'
<1>1. /\ phase = "ctl" /\ phase' = "dma" /\ UNCHANGED <<cpu, dma, sram>>
      /\ cpun = cpu /\ cpu \in CpuRegisters /\ port \in E!Port
  BY TurnFrame
<1>2. ~port.write
  BY <1>1 DEF Inv, E!DmaInv, E!PortOwner
<1>3. ~Exec1Dma /\ dman' = dman
  <2>1. ~Exec1Dma
    BY Codes DEF Common, Exec1Dma, Exec1, State
  <2> QED BY <2>1 DEF sp_ctl, Idle, Fetch0, Fetch1, Dec0, Dec1, Exec0, Exec1Alu, Exec1Ld,
     Exec1St, Exec1DmaBusy, Exec1Jump, Exec1Hlt, Exec1Illegal, Quiet
<1>4. CASE cpu.ctl_state = "EXEC1"
  <2>1. cpun'.ctl_state \in {"IDLE", "FETCH0"}
    <3>1. ProgInv'
      BY <1>4, Exec1Turn
    <3> QED BY <1>1, <1>4, <3>1 DEF ProgInv, Moved, Executed, AfterExec1
  <2> QED BY <1>1, <1>3, <1>4, <2>1 DEF FetchInv, Decoded
<1>5. CASE cpu.ctl_state # "EXEC1"
  <2>1. Idle \/ Fetch0 \/ Fetch1 \/ Dec0 \/ Dec1 \/ Exec0
    BY <1>5 DEF sp_ctl, Exec1Alu, Exec1Ld, Exec1St,
       Exec1DmaBusy, Exec1Dma, Exec1Jump, Exec1Hlt, Exec1Illegal, Exec1, State
  <2>2. ~port'.write
    BY <1>1, <1>2, <2>1 DEF Idle, Fetch0, Fetch1, Dec0, Dec1, Exec0, Quiet,
       D!NoAccess, D!llsim_mem_read, E!Port
  <2>3. CASE Idle
    <3>1. cpun'.ctl_state = "FETCH0"
      BY <1>1, <2>3 DEF Idle, CpuRegisters
    <3> QED BY <1>1, <1>3, <2>2, <2>3, <3>1 DEF FetchInv, Decoded, Idle, State
  <2>4. CASE Fetch0
    <3>1. cpun'.ctl_state = "FETCH1" /\ cpun'.pc = cpu.pc
      BY <1>1, <2>4 DEF Fetch0, CpuRegisters
    <3>2. port'.read /\ port'.raddr = cpu.pc
      BY <1>1, <2>4 DEF Fetch0, D!llsim_mem_read, E!Port
    <3> QED BY <1>1, <1>3, <2>2, <2>4, <3>1, <3>2 DEF FetchInv, Decoded, Fetch0, State
  <2>5. CASE Fetch1
    <3>1. cpun'.ctl_state = "DEC0" /\ cpun'.pc = cpu.pc /\ cpun'.inst = port.dataout
      BY <1>1, <2>5 DEF Fetch1, CpuRegisters
    <3> QED BY <1>1, <1>3, <2>2, <2>5, <3>1 DEF FetchInv, Decoded, Fetch1, State
  <2>6. CASE Dec0 \/ Dec1 \/ Exec0
    <3>1. /\ cpu.ctl_state \in Decoded /\ cpun'.ctl_state # "FETCH1"
          /\ cpun'.pc = cpu.pc /\ cpun'.inst = cpu.inst
      BY <1>1, <2>6 DEF Dec0, Dec1, Exec0, State, CpuRegisters, Decoded
    <3> QED BY <1>1, <1>3, <2>2, <3>1 DEF FetchInv
  <2> QED BY <2>1, <2>3, <2>4, <2>5, <2>6
<1> QED BY <1>4, <1>5

\* So does the clock edge.
LEMMA FetchCommit ==
    ASSUME Inv, ProgInv, FetchInv, Commit
    PROVE  FetchInv'
<1>1. /\ phase = "commit" /\ phase' = "ctl" /\ cpu' = cpun /\ cpun' = cpun
      /\ dma' = dman /\ dman' = dman
      /\ port' = D!QuietPort(D!DataOut)
      /\ sram' = IF port.write THEN [sram EXCEPT ![port.waddr] = port.datain] ELSE sram
      /\ ~(port.read /\ port.write)
  BY DEF Commit, D!Commit, D!CommitFrame, Inv, E!DmaInv, E!PortOwner
<1>2. cpun.ctl_state \in Decoded => ~port.write
  BY <1>1 DEF FetchInv, ProgInv, Moved, Executed, AfterExec1, Decoded
<1>3. cpun.ctl_state = "FETCH1" => port'.dataout = sram'[cpun.pc]
  BY <1>1 DEF FetchInv, D!QuietPort, D!DataOut
<1> QED BY <1>1, <1>2, <1>3 DEF FetchInv

\* Such programs are regular.
LEMMA CommonIsRegular ==
    ASSUME Inv, Common, FetchInv
    PROVE  Regular
<1>1. D!InFlight = {}
  <2>1. dma.state = "IDLE"
    BY DEF FetchInv, Inv, E!DmaInv, E!Control
  <2> QED BY <2>1 DEF D!InFlight
<1> QED BY <1>1, Codes DEF Common, Regular, FetchInv, Decoded

\* It holds while only common instructions execute.
LEMMA CommonInvariant == Spec /\ []Common => []FetchInv /\ []Regular
<1>1. Init => FetchInv
  BY DEF Init, D!Init, D!ResetRegisters, ResetRegisters, FetchInv, Decoded
<1>2. Inv /\ ProgInv /\ Common /\ FetchInv /\ [Next]_vars => FetchInv'
  <2> SUFFICES ASSUME Inv, ProgInv, Common, FetchInv, [Next]_vars PROVE FetchInv'
    OBVIOUS
  <2>1. CASE sp_ctl
    BY <2>1, FetchTurn
  <2>2. CASE dma_ctl
    <3>1. /\ UNCHANGED <<cpu, cpun, port, dma, dman, sram>>
          /\ phase = "dma" /\ phase' = "commit"
      BY <2>2, EngineTurn, FreeEngineTurn DEF FetchInv
    <3> QED BY <3>1 DEF FetchInv
  <2>3. CASE Commit
    BY <2>3, FetchCommit
  <2>4. CASE CommitFault \/ Stopped \/ UNCHANGED vars
    <3>1. UNCHANGED <<cpu, cpun, dma, dman, sram, port, phase>>
      BY <2>4 DEF CommitFault, D!CommitFault, Stopped, vars
    <3> QED BY <3>1 DEF FetchInv
  <2> QED BY <2>1, <2>2, <2>3, <2>4 DEF Next
<1>3. Inv /\ Common /\ FetchInv => Regular
  BY CommonIsRegular
<1> QED BY <1>1, <1>2, <1>3, Invariant, ProgInvariant, PTL DEF Spec

\* The simulator's words are those of the programmer's machine.
LEMMA IssWords ==
    /\ I!ArithOps = A!ArithOps /\ I!BranchOps = A!BranchOps
    /\ I!LHI = A!LHI /\ I!LD = A!LD /\ I!ST = A!ST /\ I!JIN = A!JIN /\ I!HLT = A!HLT
    /\ \A x : I!Low(x) = A!Low(x) /\ I!Decode(x) = A!Decode(x)
    /\ \A o, a, b : I!Taken(o, a, b) = A!Taken(o, a, b)
    /\ \A o, a, b : I!Arith(o, a, b) = A!Arith(o, a, b)
<1>1. /\ I!Pow2 = A!Pow2 /\ I!WordBits = A!WordBits /\ I!Height = A!Height
      /\ I!HalfRange = A!HalfRange
  BY DEF A!Pow2, I!Pow2, A!Doubled, I!Doubled, A!WordBits, I!WordBits, A!Height,
     I!Height, A!HalfRange, I!HalfRange
<1>2. \A x : I!Low(x) = A!Low(x) /\ I!Wrap(x) = A!Wrap(x)
  BY <1>1 DEF I!Low, A!Low, I!Wrap, A!Wrap
<1>3. \A w : I!Decode(w) = A!Decode(w)
  BY <1>1, <1>2 DEF I!Decode, A!Decode, I!Field, A!Field, I!SignExtend, A!SignExtend,
     I!Unsigned, A!Unsigned
<1>4. \A o, a, b : I!Taken(o, a, b) = A!Taken(o, a, b)
  BY DEF I!Taken, A!Taken, I!JLT, I!JLE, I!JEQ, I!JNE, A!JLT, A!JLE, A!JEQ, A!JNE
<1>5. ASSUME NEW o, NEW a, NEW b
      PROVE  I!Arith(o, a, b) = A!Arith(o, a, b)
  <2>1. /\ I!ShiftLeft(a, b) = A!ShiftLeft(a, b)
        /\ I!ShiftRight(a, b) = A!ShiftRight(a, b)
    BY <1>1, <1>2 DEF I!ShiftLeft, A!ShiftLeft, I!ShiftRight, A!ShiftRight
  <2>2. \A S : I!OfBits(S) = A!OfBits(S)
    BY <1>1, <1>2 DEF I!OfBits, A!OfBits
  <2>3. \A x : I!Bits(x) = A!Bits(x)
    BY <1>1 DEF I!Bits, A!Bits
  <2> QED BY <1>2, <2>1, <2>2, <2>3 DEF I!Arith, A!Arith, I!ADD, I!SUB, I!LSF, I!RSF,
      I!AND, I!OR, I!XOR, A!ADD, A!SUB, A!LSF, A!RSF, A!AND, A!OR, A!XOR
<1>6. /\ I!ArithOps = A!ArithOps /\ I!BranchOps = A!BranchOps
      /\ I!LHI = A!LHI /\ I!LD = A!LD /\ I!ST = A!ST /\ I!JIN = A!JIN
      /\ I!HLT = A!HLT
  BY DEF A!ArithOps, A!BranchOps, A!ADD, A!SUB, A!LSF, A!RSF, A!AND, A!OR, A!XOR,
     A!LHI, A!LD, A!ST, A!JLT, A!JLE, A!JEQ, A!JNE, A!JIN, A!HLT,
     I!ArithOps, I!BranchOps, I!ADD, I!SUB, I!LSF, I!RSF, I!AND, I!OR, I!XOR,
     I!LHI, I!LD, I!ST, I!JLT, I!JLE, I!JEQ, I!JNE, I!JIN, I!HLT
<1> QED BY <1>2, <1>3, <1>4, <1>5, <1>6

\* So are its instruction and operands.
LEMMA IssOperands ==
    /\ I!inst = A!inst /\ I!Val0 = A!Val0 /\ I!Val1 = A!Val1
    /\ I!NextPc = A!NextPc /\ I!Link = A!Link
    /\ \A ops : I!Execute(ops) <=> A!Execute(ops)
    /\ \A r, v : I!SetReg(r, v) <=> A!SetReg(r, v)
<1>1. I!inst = A!inst
  BY IssWords DEF I!inst, A!inst
<1>2. I!NextPc = A!NextPc
  BY IssWords DEF I!NextPc, A!NextPc
<1>3. I!Link = A!Link
  BY <1>2 DEF I!Link, A!Link
<1>4. I!Val0 = A!Val0 /\ I!Val1 = A!Val1
  BY <1>1, IssWords DEF I!Val0, A!Val0, I!Val1, A!Val1
<1> QED BY <1>1, <1>2, <1>3, <1>4 DEF I!Execute, A!Execute, I!SetReg, A!SetReg

\* Without the instructions of the DMA, and where the two machines agree on
\* JIN and on the word 24, an instruction of one is one of the other.
LEMMA SameInstructions ==
    ASSUME [A!ArchNext]_A!archVars, Job.todo = 0,
           \/ A!inst.opcode \in ArithOps \cup BranchOps \cup {LD, ST, HLT}
           \/ A!inst.opcode = JIN /\ A!Val0 = A!inst.immediate,
           sram[ArchPc] # HLT
    PROVE  [I!Next]_I!vars
<1>1. CASE UNCHANGED A!archVars
  BY <1>1 DEF A!archVars, I!vars
<1>2. CASE A!ExecStInside
  BY <1>2, IssOperands, IssWords DEF A!ExecStInside, A!ExecSt, I!ExecSt, I!Next
<1>3. ~A!ExecDma /\ ~A!Copy
  <2>1. ~A!ExecDma
    BY ArchOps, Codes DEF A!ExecDma, A!Execute
  <2>2. ~A!Copy
    BY DEF A!Copy, A!B!CopyWord, Job
  <2> QED BY <2>1, <2>2
<1>4. CASE A!Register /\ UNCHANGED sram
  <2>1. A!ExecArith => I!ExecArith
    BY IssOperands, IssWords DEF A!ExecArith, I!ExecArith
  <2>2. A!ExecLd => I!ExecLd
    BY IssOperands, IssWords DEF A!ExecLd, I!ExecLd
  <2>3. A!ExecBranch => I!ExecBranch
    BY IssOperands, IssWords DEF A!ExecBranch, I!ExecBranch
  <2>4. A!ExecHlt => I!ExecHlt
    BY IssOperands, IssWords DEF A!ExecHlt, I!ExecHlt
  <2>5. A!ExecJinImmediate => I!ExecJin
    <3>1. A!ExecJinImmediate => A!Val0 = A!inst.immediate
      BY ArchOps, Codes DEF A!ExecJinImmediate, A!Execute
    <3> QED BY <3>1, IssOperands, IssWords DEF A!ExecJinImmediate, I!ExecJin
  <2>6. ~A!ExecDmpIdle /\ ~A!ExecDmpBusy /\ ~A!ExecRestart
    BY ArchOps, Codes DEF A!ExecDmpIdle, A!ExecDmpBusy, A!ExecRestart, A!Execute
  <2> QED BY <1>4, <2>1, <2>2, <2>3, <2>4, <2>5, <2>6 DEF A!Register, I!Next
<1> QED BY <1>1, <1>2, <1>3, <1>4 DEF A!ArchNext

\* Every step of a common program is a step of the simulator.
LEMMA IssStep ==
    ASSUME Inv, ProgInv, Regular, Common, FetchInv, ED!TurnInv, [Next]_vars,
           [ED!SC!BC!Next]_(ED!SC!BC!vars)
    PROVE  [I!Next]_I!vars
<1>1. Job.todo = 0
  <2>1. TypeOK
    BY DEF Inv
  <2> QED BY <2>1, JobRegisters DEF FetchInv
<1>2. CASE ~Commit
  BY <1>2, ArchFrame DEF I!vars
<1>3. CASE Commit /\ cpu.ctl_state # "EXEC1"
  <2>1. sram' = sram
    BY <1>1, <1>3, CommitCases DEF Rests, Copies, Stores, Asks, Started, Executing
  <2> QED BY <1>3, <2>1, MiddleCommit DEF I!vars
<1>4. CASE Commit /\ cpu.ctl_state = "EXEC1"
  <2>1. Ending /\ cpu.inst = sram[cpu.pc]
    BY <1>4 DEF Ending, Regular, Commit, D!Commit, D!CommitFrame
  <2>2. /\ ArchPc = cpu.pc /\ A!inst.opcode = cpu.opcode
        /\ A!inst.immediate = cpu.immediate
        /\ cpu.opcode # LHI => A!Val0 = cpu.alu0
    BY <2>1, Instruction
  <2>3. cpu.src0 = 1 => cpu.alu0 = cpu.immediate
    BY <1>4 DEF ProgInv, Computed
  <2>4. \/ A!inst.opcode \in ArithOps \cup BranchOps \cup {LD, ST, HLT}
        \/ A!inst.opcode = JIN /\ A!Val0 = A!inst.immediate
    BY <1>4, <2>2, <2>3, Codes DEF Common
  <2>5. sram[ArchPc] # HLT
    BY <1>4, <2>1, <2>2 DEF Common
  <2>6. [A!ArchNext]_A!archVars
    BY ArchStep
  <2> QED BY <1>1, <2>4, <2>5, <2>6, SameInstructions
<1> QED BY <1>2, <1>3, <1>4

(***************************************************************************)
(* And it implements the instruction set simulator of the first lab for    *)
(* every program of the common instruction set.                            *)
(***************************************************************************)
THEOREM MachineImplementsIss == Spec /\ []Common => ImplementsIss
<1>1. Init => I!Init
  <2> SUFFICES ASSUME Init PROVE I!Init
    OBVIOUS
  <2>1. ArchPc = 0 /\ ArchStatus = "running"
    BY DEF Init, D!Init, Halted, ArchPc, ArchStatus, ResetRegisters
  <2>2. I!Addr = Addr /\ I!Word = Word
    BY DEF Pow2, I!Pow2, Doubled, I!Doubled, WordBits, I!WordBits, Height,
       I!Height, HalfRange, I!HalfRange, I!Addr, Addr, I!Word, Word
  <2>3. sram \in [Addr -> Word] /\ cpu.r = [i \in 0 .. 7 |-> 0]
    BY ImagesAssumption DEF Init, ResetRegisters
  <2> QED BY <2>1, <2>2, <2>3 DEF I!Init
<1>2. Inv /\ ProgInv /\ Regular /\ Common /\ FetchInv /\ ED!TurnInv /\ [Next]_vars
         /\ [ED!SC!BC!Next]_(ED!SC!BC!vars)
      => [I!Next]_I!vars
  BY IssStep
<1> QED BY <1>1, <1>2, Invariant, ProgInvariant, CommonInvariant, ClearCopies, PTL
    DEF Spec, ImplementsIss, I!Spec
=============================================================================
