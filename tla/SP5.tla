-------------------------------- MODULE SP5 ---------------------------------
(***************************************************************************)
(* The pipelined SP (lab5/sp.c): six stages with bypasses, stalls and a    *)
(* branch target buffer, and the DMA engine of DmaCtl on the data memory.  *)
(* The instruction memory is separate and is never written.                *)
(*                                                                         *)
(* A call of sp_ctl reads the old registers and rewrites the new ones in   *)
(* the order fetch0, fetch1, dec0, dec1, exec0, exec1; a later stage may   *)
(* overwrite what an earlier one wrote, which is how flushes work.  Each   *)
(* stage is therefore an operator from new registers to new registers, and *)
(* sp_ctl is their composition in that order.                              *)
(***************************************************************************)
EXTENDS SPWord

CONSTANTS
    Images,       \* memory images that may be loaded, into both memories
    Junk,         \* 0xBAADBAAD
    BtbSize,      \* BTB_SIZE, 64 in the code
    DmaLens,      \* lengths the programs of the instance ask for
    CpuAddr,      \* data addresses they use
    StoreWords    \* words they store

ASSUME ImagesAssumption == Images \subseteq [Addr -> Word]
ASSUME JunkAssumption == Junk \in Word
ASSUME DmaAssumption ==
    DmaLens \subseteq Int /\ CpuAddr \subseteq Int /\ StoreWords \subseteq Word
ASSUME BtbSizeAssumption == BtbSize \in Nat \ {0}

VARIABLES
    cpu, cpun,    \* spro and sprn but for the DMA registers
    btb,          \* btb_is_taken and btb_target: plain arrays, not clocked
    srami,        \* the instruction memory
    iport,        \* its read in progress, its data output, its assertion
    dump,         \* sramd_out.txt, empty until HLT writes it
    dma, dman, sram, port, phase, stop_sim, fault   \* DmaCtl, on sramd

engineVars == <<dma, dman, sram, port, phase, stop_sim, fault>>
vars == <<cpu, cpun, btb, srami, iport, dump,
          dma, dman, sram, port, phase, stop_sim, fault>>

JumpOps == BranchOps \cup {JIN, DMP}    \* is_jump_opcode

\* A prediction travels with its instruction.
Prediction == [taken : 0 .. 1, target : Int]
NoPrediction == [taken |-> 0, target |-> 0]

Decoded == [active : BOOLEAN, pc : Addr, opcode : 0 .. 31, dst : 0 .. 7,
            src0 : 0 .. 7, src1 : 0 .. 7, immediate : Word, btb : Prediction]

Fetching == [active : BOOLEAN, pc : Int]
Fetched == [active : BOOLEAN, pc : Int, use_saved : BOOLEAN,
            saved_inst : Word, btb : Prediction]
Decoding == [active : BOOLEAN, pc : Addr, inst : Word, btb : Prediction]
Operands == [0 .. 1 -> Word]

CpuRegisters ==
    [r      : [0 .. 7 -> Word],
     fetch0 : Fetching,
     fetch1 : Fetched,
     dec0   : Decoding,
     dec1   : Decoded,
     exec0  : Decoded,
     exec0_alu : Operands,
     exec1  : Decoded,
     exec1_alu : Operands,
     exec1_aluout : Word,
     mem_stall : BOOLEAN, mem_SRAM_DO : Word, mem_dst : 0 .. 7]

EmptyStage ==
    [active |-> FALSE, pc |-> 0, opcode |-> 0, dst |-> 0, src0 |-> 0,
     src1 |-> 0, immediate |-> 0, btb |-> NoPrediction]

ResetRegisters ==
    [r      |-> [i \in 0 .. 7 |-> 0],
     fetch0 |-> [active |-> FALSE, pc |-> 0],
     fetch1 |-> [active |-> FALSE, pc |-> 0, use_saved |-> FALSE,
                 saved_inst |-> 0, btb |-> NoPrediction],
     dec0   |-> [active |-> FALSE, pc |-> 0, inst |-> 0, btb |-> NoPrediction],
     dec1   |-> EmptyStage,
     exec0  |-> EmptyStage,
     exec0_alu |-> [i \in 0 .. 1 |-> 0],
     exec1  |-> EmptyStage,
     exec1_alu |-> [i \in 0 .. 1 |-> 0],
     exec1_aluout |-> 0,
     mem_stall |-> FALSE, mem_SRAM_DO |-> 0, mem_dst |-> 0]

-----------------------------------------------------------------------------
(***************************************************************************)
(* Stalls and hazards, from the old registers.                             *)
(***************************************************************************)

\* The register that operand 1 of an instruction reads: LHI merges with dst.
Src1(s) == IF s.opcode = LHI THEN s.dst ELSE s.src1

\* Mutant of is_pipe_stalled: a load follows a store without waiting.
StalledOnDataOnly ==
    /\ cpu.exec1.active
    /\ cpu.exec1.opcode = LD
    /\ cpu.exec1.dst \in {cpu.exec0.src0, Src1(cpu.exec0)}

\* Mutant of is_pipe_stalled: a bubble in exec1 keeps stalling.
StalledByBubble ==
    \/ cpu.exec0.opcode = LD /\ cpu.exec1.opcode = ST
    \/ cpu.exec1.opcode = LD
         /\ cpu.exec1.dst \in {cpu.exec0.src0, Src1(cpu.exec0)}

\* A load behind a store, or a use behind its load.
is_pipe_stalled ==
    /\ cpu.exec1.active
    /\ \/ cpu.exec0.opcode = LD /\ cpu.exec1.opcode = ST
       \/ cpu.exec1.opcode = LD
            /\ cpu.exec1.dst \in {cpu.exec0.src0, Src1(cpu.exec0)}

\* Mutant of is_dma_hazard: stores are forgotten.
HazardOfLoads ==
    ~is_pipe_stalled /\ cpu.exec0.active /\ cpu.exec0.opcode = LD

\* Mutant of is_dma_hazard: every instruction in exec0 takes the port.
HazardOfAny ==
    \/ ~is_pipe_stalled /\ cpu.exec0.active
    \/ cpu.exec1.active /\ cpu.exec1.opcode = ST

is_dma_hazard ==
    \/ ~is_pipe_stalled /\ cpu.exec0.active /\ cpu.exec0.opcode = LD
    \/ cpu.exec1.active /\ cpu.exec1.opcode = ST

D == INSTANCE DmaCtl WITH
        hazard <- is_dma_hazard, Lens <- DmaLens, CpuAddr <- CpuAddr,
        CpuWord <- StoreWords, Images <- [Addr -> Word],
        Disciplined <- FALSE

\* No read is in progress.
QuietIport(out) ==
    [read |-> FALSE, raddr |-> 0, dataout |-> out, fault |-> FALSE]

TypeOK ==
    /\ cpu \in CpuRegisters
    /\ cpun \in CpuRegisters
    /\ btb \in [0 .. BtbSize - 1 -> Prediction]
    /\ srami \in [Addr -> Word]
    /\ iport \in [read : BOOLEAN, raddr : Int, dataout : Word, fault : BOOLEAN]
    /\ dump \in {<< >>} \cup [Addr -> Word]
    /\ D!TypeOK

\* One image is injected into both memories.
Init ==
    /\ cpu = ResetRegisters
    /\ cpun = ResetRegisters
    /\ btb = [i \in 0 .. BtbSize - 1 |-> NoPrediction]
    /\ sram \in Images
    /\ D!Init
    /\ srami = sram
    /\ iport = QuietIport(Junk)
    /\ dump = << >>

-----------------------------------------------------------------------------
(***************************************************************************)
(* Bypasses.                                                               *)
(***************************************************************************)

\* An operand read in dec1: any active exec1 with that destination wins.
Dec1Operand(r) ==
    IF r > 1 /\ r = cpu.exec1.dst /\ cpu.exec1.active
      THEN cpu.exec1_aluout
      ELSE cpu.r[r]

\* Mutant of Exec0Operand: no bypass for a load that has left exec1.
Exec0OperandNoLoad(r, latched) ==
    IF r > 1 /\ r = cpu.exec1.dst /\ cpu.exec1.opcode # ST /\ cpu.exec1.active
      THEN cpu.exec1_aluout
    ELSE latched

\* An operand used in exec0: from exec1 unless it is a store, else the word
\* of a load that has just left exec1, else what dec1 read.
Exec0Operand(r, latched) ==
    IF r > 1 /\ r = cpu.exec1.dst /\ cpu.exec1.opcode # ST /\ cpu.exec1.active
      THEN cpu.exec1_aluout
    ELSE IF r > 1 /\ cpu.mem_stall /\ r = cpu.mem_dst
      THEN cpu.mem_SRAM_DO
    ELSE latched

Alu0 == Exec0Operand(cpu.exec0.src0, cpu.exec0_alu[0])
Alu1 == Exec0Operand(Src1(cpu.exec0), cpu.exec0_alu[1])

-----------------------------------------------------------------------------
(***************************************************************************)
(* The six stages.                                                         *)
(***************************************************************************)
BtbEntry(pc) == btb[pc % BtbSize]

FetchesNow == cpu.fetch0.active /\ ~is_pipe_stalled

\* sp->start is always set: the first clock activates fetch0.
Fetch0(n) ==
    LET p == BtbEntry(cpu.fetch0.pc)
    IN  IF ~FetchesNow THEN [n EXCEPT !.fetch0.active = TRUE]
        ELSE [n EXCEPT
                !.fetch0 = [active |-> TRUE,
                            pc |-> IF p.taken = 1 THEN p.target
                                                  ELSE cpu.fetch0.pc + 1],
                !.fetch1 = [@ EXCEPT !.active = TRUE, !.pc = cpu.fetch0.pc,
                                     !.btb = p]]

\* Mutant of Fetch1: a stall does not save the word on the data output.
Fetch1Forgetful(n) ==
    IF ~cpu.fetch1.active THEN [n EXCEPT !.dec0.active = FALSE]
    ELSE IF is_pipe_stalled THEN n
    ELSE [n EXCEPT
            !.dec0 = [active |-> TRUE, pc |-> cpu.fetch1.pc,
                      inst |-> iport.dataout, btb |-> cpu.fetch1.btb]]

\* A stall saves the word on the data output; a bubble in fetch1 empties dec0,
\* stalled or not.
Fetch1(n) ==
    IF ~cpu.fetch1.active THEN [n EXCEPT !.dec0.active = FALSE]
    ELSE IF is_pipe_stalled
      THEN [n EXCEPT !.fetch1.saved_inst = iport.dataout, !.fetch1.use_saved = TRUE]
    ELSE [n EXCEPT
            !.fetch1.use_saved = FALSE,
            !.dec0 = [active |-> TRUE, pc |-> cpu.fetch1.pc,
                      inst |-> IF cpu.fetch1.use_saved THEN cpu.fetch1.saved_inst
                                                       ELSE iport.dataout,
                      btb |-> cpu.fetch1.btb]]

\* A jump predicted for an instruction that is not one flushes the fetches.
Dec0(n) ==
    LET d == Decode(cpu.dec0.inst)
        wrong == d.opcode \notin JumpOps /\ cpu.dec0.btb.taken = 1
        m == [n EXCEPT !.dec1 =
                [active |-> TRUE, pc |-> cpu.dec0.pc, opcode |-> d.opcode,
                 dst |-> d.dst, src0 |-> d.src0, src1 |-> d.src1,
                 immediate |-> d.immediate, btb |-> cpu.dec0.btb]]
    IN  IF ~cpu.dec0.active THEN [n EXCEPT !.dec1.active = FALSE]
        ELSE IF is_pipe_stalled THEN n
        ELSE IF wrong THEN [m EXCEPT !.fetch1.active = FALSE,
                                     !.dec0.active = FALSE,
                                     !.fetch0.pc = cpu.dec0.pc + 1]
        ELSE m

Dec1(n) ==
    LET s == cpu.dec1
    IN  IF ~s.active THEN [n EXCEPT !.exec0.active = FALSE]
        ELSE IF is_pipe_stalled THEN n
        ELSE [n EXCEPT
                !.exec0 = s,
                !.exec0_alu = [i \in 0 .. 1 |->
                    IF i = 0
                      THEN IF s.src0 = 1 \/ s.opcode = LHI
                             THEN s.immediate ELSE Dec1Operand(s.src0)
                      ELSE IF s.src1 = 1 /\ s.opcode # LHI
                             THEN s.immediate ELSE Dec1Operand(Src1(s))]]

\* LHI shifts the register and keeps the immediate low; DMA and DMP look at
\* the operand dec1 read.
AluOut ==
    LET op == cpu.exec0.opcode
    IN  CASE op \in ArithOps  -> Arith(op, Alu0, Alu1)
          [] op = LHI         -> ShiftLeft(Alu1, ImmBits) + Low(Alu0)
          [] op = DMA         -> cpu.exec0_alu[0]
          [] op = DMP         -> Bool(cpu.exec0_alu[0] = 0)
          [] op \in BranchOps -> Bool(Taken(op, Alu0, Alu1))
          [] op = JIN         -> 1
          [] OTHER            -> cpun.exec1_aluout

\* Mutant of Exec0: a stall does not put a bubble into exec1.
Exec0NoBubble(n) ==
    IF is_pipe_stalled THEN n
    ELSE IF ~cpu.exec0.active THEN [n EXCEPT !.exec1.active = FALSE]
    ELSE [n EXCEPT
            !.exec1 = cpu.exec0,
            !.exec1_alu = [i \in 0 .. 1 |-> IF i = 0 THEN Alu0 ELSE Alu1],
            !.exec1_aluout = AluOut]

Exec0(n) ==
    IF is_pipe_stalled \/ ~cpu.exec0.active THEN [n EXCEPT !.exec1.active = FALSE]
    ELSE [n EXCEPT
            !.exec1 = cpu.exec0,
            !.exec1_alu = [i \in 0 .. 1 |-> IF i = 0 THEN Alu0 ELSE Alu1],
            !.exec1_aluout = AluOut]

\* The load that exec0 starts.
LoadsNow == ~is_pipe_stalled /\ cpu.exec0.active /\ cpu.exec0.opcode = LD

-----------------------------------------------------------------------------
(***************************************************************************)
(* exec1: write back, memory, jumps and the branch target buffer.          *)
(***************************************************************************)
WriteBack(n, v) ==
    IF cpu.exec1.dst > 1 THEN [n EXCEPT !.r[cpu.exec1.dst] = v] ELSE n

\* Mutant of FlushNeeded: a jump that falls through never flushes.
FlushWhenTaken ==
    /\ cpu.exec1_aluout = 1
    /\ cpu.exec1.btb # [taken |-> 1, target |-> cpu.exec1.immediate]

FlushNeeded ==
    \/ cpu.exec1_aluout # cpu.exec1.btb.taken
    \/ cpu.exec1_aluout = 1 /\ cpu.exec1.btb.target # cpu.exec1.immediate

Jump(n) ==
    LET m == IF cpu.exec1_aluout = 1 THEN [n EXCEPT !.r[7] = cpu.exec1.pc] ELSE n
    IN  IF ~FlushNeeded THEN m
        ELSE [m EXCEPT
                !.fetch1.active = FALSE, !.dec0.active = FALSE,
                !.dec1.active = FALSE, !.exec0.active = FALSE,
                !.exec1.active = FALSE,
                !.fetch0.pc = IF cpu.exec1_aluout = 1 THEN cpu.exec1.immediate
                                                      ELSE cpu.exec1.pc + 1]

Load(n) ==
    IF cpu.exec1.dst > 1
      THEN [WriteBack(n, port.dataout) EXCEPT !.mem_SRAM_DO = port.dataout,
                                              !.mem_stall = TRUE,
                                              !.mem_dst = cpu.exec1.dst]
      ELSE n

\* Mutant of Exec1: the load bypass stays on.
Exec1BypassStays(n) ==
    LET op == cpu.exec1.opcode
    IN  IF ~cpu.exec1.active THEN n
        ELSE CASE op \in ArithOps \cup {LHI} -> WriteBack(n, cpu.exec1_aluout)
               [] op = LD -> Load(n)
               [] op \in JumpOps -> Jump(n)
               [] OTHER -> n

Exec1(n) ==
    LET m == [n EXCEPT !.mem_stall = FALSE]
        op == cpu.exec1.opcode
    IN  IF ~cpu.exec1.active THEN n
        ELSE CASE op \in ArithOps \cup {LHI} -> WriteBack(m, cpu.exec1_aluout)
               [] op = LD -> Load(m)
               [] op \in JumpOps -> Jump(m)
               [] OTHER -> m

Retires(ops) == cpu.exec1.active /\ cpu.exec1.opcode \in ops

\* Every retiring instruction clears its entry, a jump then sets it.
UpdateBtb ==
    btb' = IF ~cpu.exec1.active THEN btb
           ELSE [btb EXCEPT ![cpu.exec1.pc % BtbSize] =
                    IF cpu.exec1.opcode \in JumpOps
                      THEN [taken |-> cpu.exec1_aluout,
                            target |-> cpu.exec1.immediate]
                      ELSE [@ EXCEPT !.taken = 0]]

-----------------------------------------------------------------------------
(***************************************************************************)
(* One call of sp_ctl, by what exec1 does outside the registers.           *)
(***************************************************************************)
Turn ==
    /\ phase = "ctl" /\ ~stop_sim /\ fault = "none"
    /\ phase' = "dma"
    /\ cpun' = Exec1(Exec0(Dec1(Dec0(Fetch1(Fetch0(cpun))))))
    /\ UpdateBtb
    /\ iport' = IF FetchesNow
                  THEN [iport EXCEPT !.read = TRUE, !.raddr = cpu.fetch0.pc]
                  ELSE iport
    /\ UNCHANGED <<cpu, dma, sram, srami>>

\* What the turn does to the data memory's port: exec0 starts a load, exec1 a
\* store.  The port is free at the start of a turn.
Access ==
    /\ port' = [port EXCEPT
          !.read   = LoadsNow,
          !.raddr  = IF LoadsNow THEN Low(Alu1) ELSE @,
          !.write  = Retires({ST}),
          !.waddr  = IF Retires({ST}) THEN cpu.exec1_alu[1] ELSE @,
          !.datain = IF Retires({ST}) THEN cpu.exec1_alu[0] ELSE @]
    /\ UNCHANGED fault

\* DMA with the engine idle; a busy engine drops the request.
StartsDma == Retires({DMA}) /\ ~dma.busy

Compute ==
    /\ Turn /\ Access
    /\ ~Retires({HLT}) /\ ~StartsDma
    /\ UNCHANGED <<dman, stop_sim, dump>>

StartDma ==
    /\ Turn /\ Access
    /\ StartsDma
    /\ dman' = [dman EXCEPT !.busy = TRUE,
                            !.src = Low(cpu.exec1_alu[0]),
                            !.dst = Low(cpu.exec1_aluout),
                            !.len = cpu.exec1_alu[1]]
    /\ UNCHANGED <<stop_sim, dump>>

\* The dump is taken in the middle of the cycle: without the access of this
\* cycle, and with what the copy has moved so far.
Halt ==
    /\ Turn /\ Access
    /\ Retires({HLT})
    /\ stop_sim' = TRUE
    /\ dump' = sram
    /\ UNCHANGED dman

sp_ctl == Compute \/ StartDma \/ Halt

-----------------------------------------------------------------------------
dma_ctl == UNCHANGED <<cpu, cpun, btb, srami, iport, dump>> /\ D!Dma

\* The two memories commit, then the registers are copied.
FetchOutOfRange == iport.read /\ iport.raddr \notin Addr

Commit ==
    /\ ~FetchOutOfRange
    /\ cpu' = cpun
    /\ iport' = QuietIport(IF iport.read THEN srami[iport.raddr] ELSE Junk)
    /\ UNCHANGED <<cpun, btb, srami, dump>>
    /\ D!Commit

CommitFault ==
    /\ ~FetchOutOfRange
    /\ UNCHANGED <<cpu, cpun, btb, srami, iport, dump>>
    /\ D!CommitFault

FetchFault ==
    /\ phase = "commit" /\ fault = "none" /\ ~iport.fault
    /\ FetchOutOfRange
    /\ iport' = [iport EXCEPT !.fault = TRUE]
    /\ UNCHANGED <<cpu, cpun, btb, srami, dump, dma, dman, sram, port, phase,
                   stop_sim, fault>>

Stopped ==
    /\ fault # "none" \/ iport.fault \/ (phase = "ctl" /\ stop_sim)
    /\ UNCHANGED vars

Next == sp_ctl \/ dma_ctl \/ Commit \/ CommitFault \/ FetchFault \/ Stopped

Spec == Init /\ [][Next]_vars

FairSpec == Spec /\ WF_vars(Next)

-----------------------------------------------------------------------------
(***************************************************************************)
(* Properties.                                                             *)
(***************************************************************************)

\* The next instruction to retire is the oldest one in the pipe.
OldestPc ==
    CASE cpu.exec1.active  -> cpu.exec1.pc
      [] ~cpu.exec1.active /\ cpu.exec0.active -> cpu.exec0.pc
      [] ~cpu.exec1.active /\ ~cpu.exec0.active /\ cpu.dec1.active -> cpu.dec1.pc
      [] OTHER -> IF cpu.dec0.active THEN cpu.dec0.pc
                  ELSE IF cpu.fetch1.active THEN cpu.fetch1.pc
                  ELSE cpu.fetch0.pc

Halted == stop_sim /\ phase = "ctl"

(* Whatever is in flight, stalled, bypassed, predicted or flushed, the     *)
(* instructions retire in program order with the results of the instruction*)
(* set simulator: none is lost, repeated or executed on a wrong path.      *)
I == INSTANCE Iss WITH
        mem <- sram, regs <- cpu.r, pc <- Low(OldestPc),
        status <- IF Halted THEN "halted" ELSE "running",
        Images <- [Addr -> Word]

ImplementsIss == I!Spec

(* Beside a copy, and whatever it stores, even into its own code, a program*)
(* runs as on a machine without a pipeline that executes one instruction at*)
(* a time: sharing the data memory with the engine and running ahead in the*)
(* instruction memory are invisible, and the dump of HLT holds every store *)
(* before it and exactly the words the copy had moved.                     *)
P == INSTANCE PipeArch WITH
        code <- srami, mem <- sram, regs <- cpu.r, pc <- Low(OldestPc),
        status <- IF Halted THEN "halted" ELSE "running",
        dump <- IF Halted THEN dump ELSE << >>,
        job <- D!JobOf(dma), buf <- D!BufOf(dma, port.dataout),
        Images <- [Addr -> Word]

ImplementsPipeArch == P!Spec

\* The registers that an instruction reads, if it is on its way.
Reads(s) == {s.src0, Src1(s)} \ {0, 1}

Uses(s) == IF s.active THEN Reads(s) ELSE {}

\* A bypass of exec0 offers a word for register r.
Bypassed(r) ==
    /\ r > 1
    /\ \/ cpu.exec1.active /\ r = cpu.exec1.dst
       \/ cpu.mem_stall /\ r = cpu.mem_dst

(* The programs for which that is promised.  The bypasses look at the dst  *)
(* field alone: what an instruction that writes no register offers there to*)
(* the next two is the word the register holds; LHI, DMA and DMP, which    *)
(* the bypasses of exec0 fit badly, use none; r7 is not read right behind  *)
(* a jump predicted taken.  A stall forgets an instruction behind a bubble,*)
(* and the word of a load: no bubble comes behind one it holds, and none   *)
(* that it holds waits for such a word.  A free engine is asked for one    *)
(* word or more.                                                           *)
Regular ==
    phase = "ctl" /\ ~stop_sim =>
        LET used == Uses(cpu.exec0) \cup Uses(cpu.dec1)
            op   == cpu.exec1.opcode
        IN  /\ cpu.exec1.active /\ cpu.exec1.dst \in used
                  => \/ op \in ArithOps \cup {LHI, LD}
                     \/ cpu.exec1_aluout = cpu.r[cpu.exec1.dst]
            /\ Retires(JumpOps) /\ cpu.exec1_aluout = 1 /\ ~FlushNeeded
                  => 7 \notin used
            /\ cpu.exec0.active /\ cpu.exec0.opcode \in {LHI, DMA, DMP}
                  => ~Bypassed(cpu.exec0.src0)
            /\ is_pipe_stalled /\ cpu.exec0.active => cpu.dec1.active
            /\ is_pipe_stalled /\ cpu.dec1.active => cpu.dec0.active
            /\ is_pipe_stalled /\ cpu.mem_stall /\ cpu.mem_dst \in Uses(cpu.exec0)
                  => op = LD /\ cpu.exec1.dst = cpu.mem_dst
            /\ StartsDma => cpu.exec1_alu[1] > 0

(* Those that the instruction set simulator runs the same way: no DMA, no  *)
(* LHI, JIN to an immediate address, no undefined opcode, no jump taken at *)
(* the last address, where its link is -1, and no store into the program.  *)
Common ==
    cpu.exec1.active /\ ~Halted =>
        /\ \/ cpu.exec1.opcode \in ArithOps \cup BranchOps \cup {LD, ST, HLT}
           \/ cpu.exec1.opcode = JIN /\ cpu.exec1.src0 = 1
        /\ Retires(JumpOps) /\ cpu.exec1_aluout = 1
              => cpu.exec1.pc # Height - 1
        /\ srami[cpu.exec1.pc] = sram[cpu.exec1.pc]

-----------------------------------------------------------------------------
(***************************************************************************)
(* Program texts that keep every run regular.                              *)
(***************************************************************************)
At(code, a) == Decode(code[a])

IsJump(code, a) == At(code, a).opcode \in JumpOps

\* Where a program goes on.
GoesOn(code, a, b) ==
    /\ At(code, a).opcode # HLT
    /\ \/ b = a + 1 /\ At(code, a).opcode # JIN
       \/ b = At(code, a).immediate /\ IsJump(code, a)

Closed(code, X) ==
    /\ 0 \in X
    /\ \A a \in X, b \in Addr : GoesOn(code, a, b) => b \in X

\* The addresses it may come to: the least closed set.
Reachable(code) == {a \in Addr : \A X \in SUBSET Addr : Closed(code, X) => a \in X}

\* Its jumps that share an entry of the branch target buffer with address a.
SharedBy(code, a) ==
    {j \in Reachable(code) : IsJump(code, j) /\ j % BtbSize = a % BtbSize}

\* The fetch may go on at b: a jump may be predicted to go where one that shares
\* its entry went.
MayFollow(code, a, b) ==
    \/ b = a + 1
    \/ IsJump(code, a) /\ \E j \in SharedBy(code, a) : b = At(code, j).immediate

\* An instruction that empties the fetches when a jump with its entry was taken.
Mistakable(code, a) == ~IsJump(code, a) /\ SharedBy(code, a) # {}

\* The instruction at a + 1 is held back by the one at a.
Waits(code, a) ==
    \/ At(code, a).opcode = ST /\ At(code, a + 1).opcode = LD
    \/ At(code, a).opcode = LD
         /\ At(code, a).dst \in {At(code, a + 1).src0, Src1(At(code, a + 1))}

Loads(code, a, r) == At(code, a).opcode = LD /\ At(code, a).dst = r

(* What a compiler for this pipeline has to observe at an address the      *)
(* program may come to.  An instruction that writes no register names none *)
(* that one of the next two reads; r7 is not read at the target of a jump  *)
(* nor right behind it; LHI, DMA and DMP leave distance to what they read; *)
(* behind an instruction that waits none can be mistaken for a jump; no    *)
(* load is lost in a stall; lengths of copies are positive immediates.     *)
ScheduledAt(code, a) ==
    LET s == At(code, a)
    IN  /\ s.dst > 1 =>
              \/ s.opcode \in ArithOps \cup {LHI, LD}
              \/ \A b \in Addr : MayFollow(code, a, b) =>
                    /\ s.dst \notin Reads(At(code, b))
                    /\ \A c \in Addr :
                          MayFollow(code, b, c) => s.dst \notin Reads(At(code, c))
        /\ IsJump(code, a) /\ s.immediate \in Addr =>
              \A b \in Addr : b = s.immediate \/ MayFollow(code, s.immediate, b)
                                => 7 \notin Reads(At(code, b))
        /\ \A b \in Addr :
              MayFollow(code, a, b) /\ At(code, b).opcode \in {LHI, DMA, DMP} =>
                 LET r == At(code, b).src0
                 IN  r > 1 => /\ s.dst # r
                              /\ a - 1 \in Addr => ~Loads(code, a - 1, r)
        /\ a + 1 \in Addr /\ Waits(code, a) =>
              /\ \A b \in Addr : b = a + 1 \/ MayFollow(code, a + 1, b)
                                   => ~Mistakable(code, b)
              /\ \A r \in Reads(At(code, a + 1)) :
                     a - 1 \in Addr /\ Loads(code, a - 1, r) => Loads(code, a, r)
        /\ s.opcode = DMA => s.src1 = 1 /\ s.immediate > 0

Scheduled(code) == \A a \in Reachable(code) : ScheduledAt(code, a)

(* And what keeps it within the common instruction set: a store goes to a  *)
(* fixed address, at which no instruction is.                              *)
CommonAt(code, a) ==
    LET s == At(code, a)
    IN  /\ \/ s.opcode \in ArithOps \cup BranchOps \cup {LD, ST, HLT}
           \/ s.opcode = JIN /\ s.src0 = 1
        /\ IsJump(code, a) => a # Height - 1
        /\ s.opcode = ST => s.src1 = 1 /\ s.immediate \notin Reachable(code)

CommonText(code) == \A a \in Reachable(code) : CommonAt(code, a)

-----------------------------------------------------------------------------
(* The hazard function names exactly the cycles in which a load or a store *)
(* drives the data memory, and a copy is requested only when none is busy. *)
ObeysEngine == D!Spec

(* A stall never lasts: the instruction that caused it leaves exec1 and a  *)
(* bubble follows, so no two cycles in a row are stalled.                  *)
StallsAreSingle ==
    [][phase = "commit" /\ phase' = "ctl" /\ is_pipe_stalled
         => ~is_pipe_stalled']_vars

(* The word a stall saved is the one fetch1 hands on: it never belongs to  *)
(* another address than fetch1's.                                          *)
SavedWordIsFetched ==
    phase = "ctl" /\ cpu.fetch1.active =>
        srami[cpu.fetch1.pc] = IF cpu.fetch1.use_saved THEN cpu.fetch1.saved_inst
                                                       ELSE iport.dataout

(* The word that the load bypass offers is the one in the register file.   *)
LoadBypassIsCurrent ==
    phase = "ctl" /\ cpu.mem_stall => cpu.mem_SRAM_DO = cpu.r[cpu.mem_dst]

(* A load writes back the word of its own address, although the engine may *)
(* have used the port in the cycle before and may use it in the next.      *)
LoadedWordIsFresh ==
    phase = "ctl" /\ Retires({LD}) /\ ~stop_sim =>
        port.dataout = sram[Low(cpu.exec1_alu[1])]

(* Every copy of at least one word ends, or the simulation does.           *)
CopyEnds ==
    (phase = "ctl" /\ D!Active)
      ~> \/ phase = "ctl" /\ ~dma.busy
         \/ stop_sim \/ fault # "none" \/ iport.fault
=============================================================================
