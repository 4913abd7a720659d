-------------------------------- MODULE SP2 ---------------------------------
(***************************************************************************)
(* The multicycle SP (lab2/sp.c): the control state machine sp_ctl and the *)
(* DMA engine of DmaCtl, on one single-port memory.  sp_ctl replaces the   *)
(* most general processor of DmaCtl, and the engine's hazard is what it is *)
(* in the code, a function of the control state.                           *)
(***************************************************************************)
EXTENDS SPWord

CONSTANTS
    Images,       \* memory images that may be loaded
    Junk,         \* 0xBAADBAAD
    DmaLens,      \* lengths the programs of the instance ask for
    CpuAddr,      \* addresses they use
    StoreWords    \* words they store

ASSUME ImagesAssumption == Images \subseteq [Addr -> Word]
ASSUME JunkAssumption == Junk \in Word
ASSUME DmaAssumption ==
    DmaLens \subseteq Int /\ CpuAddr \subseteq Int /\ StoreWords \subseteq Word

VARIABLES
    cpu,          \* spro: registers of the processor at the last clock edge
    cpun,         \* sprn: registers being computed
    dump,         \* the file that HLT writes, empty until then
    dma, dman, sram, port, phase, stop_sim, fault

engineVars == <<dma, dman, sram, port, phase, stop_sim, fault>>
vars == <<cpu, cpun, dump, dma, dman, sram, port, phase, stop_sim, fault>>

CtlState == {"IDLE", "FETCH0", "FETCH1", "DEC0", "DEC1", "EXEC0", "EXEC1"}

\* Mutant of Hazard: stores are forgotten.
HazardOfReads ==
    \/ cpu.ctl_state = "FETCH0"
    \/ cpu.ctl_state = "EXEC0" /\ cpu.opcode = LD

\* The cycles in which the processor drives the memory.
Hazard ==
    \/ cpu.ctl_state = "FETCH0"
    \/ cpu.ctl_state = "EXEC0" /\ cpu.opcode = LD
    \/ cpu.ctl_state = "EXEC1" /\ cpu.opcode = ST

D == INSTANCE DmaCtl WITH
        hazard <- Hazard, Lens <- DmaLens, CpuAddr <- CpuAddr,
        CpuWord <- StoreWords, Images <- [Addr -> Word],
        Disciplined <- FALSE

CpuRegisters ==
    [r : [0 .. 7 -> Word], pc : Int, inst : Word, opcode : 0 .. 31,
     dst : 0 .. 7, src0 : 0 .. 7, src1 : 0 .. 7, immediate : Word,
     alu0 : Word, alu1 : Word, aluout : Word, ctl_state : CtlState]

TypeOK ==
    /\ cpu \in CpuRegisters
    /\ cpun \in CpuRegisters
    /\ dump \in {<< >>} \cup [Addr -> Word]
    /\ D!TypeOK

ResetRegisters ==
    [r |-> [i \in 0 .. 7 |-> 0], pc |-> 0, inst |-> 0, opcode |-> 0, dst |-> 0,
     src0 |-> 0, src1 |-> 0, immediate |-> 0, alu0 |-> 0, alu1 |-> 0,
     aluout |-> 0, ctl_state |-> "IDLE"]

Init ==
    /\ cpu = ResetRegisters
    /\ cpun = ResetRegisters
    /\ sram \in Images
    /\ dump = << >>
    /\ D!Init

-----------------------------------------------------------------------------
(***************************************************************************)
(* sp_ctl.                                                                 *)
(***************************************************************************)
State(s) ==
    /\ phase = "ctl" /\ ~stop_sim /\ fault = "none"
    /\ cpu.ctl_state = s
    /\ phase' = "dma"
    /\ UNCHANGED <<cpu, dma, sram>>

Quiet == D!NoAccess /\ UNCHANGED <<dman, stop_sim, dump>>

\* sp->start is set once, before the first clock.
Idle ==
    /\ State("IDLE") /\ Quiet
    /\ cpun' = [cpun EXCEPT !.pc = 0, !.ctl_state = "FETCH0"]

Fetch0 ==
    /\ State("FETCH0")
    /\ D!llsim_mem_read(cpu.pc)
    /\ cpun' = [cpun EXCEPT !.ctl_state = "FETCH1"]
    /\ UNCHANGED <<dman, stop_sim, dump>>

Fetch1 ==
    /\ State("FETCH1") /\ Quiet
    /\ cpun' = [cpun EXCEPT !.inst = port.dataout, !.ctl_state = "DEC0"]

Dec0 ==
    /\ State("DEC0") /\ Quiet
    /\ LET d == Decode(cpu.inst)
       IN  cpun' = [cpun EXCEPT !.opcode = d.opcode, !.dst = d.dst,
                                !.src0 = d.src0, !.src1 = d.src1,
                                !.immediate = d.immediate,
                                !.ctl_state = "DEC1"]

Dec1 ==
    /\ State("DEC1") /\ Quiet
    /\ cpun' = [cpun EXCEPT
          !.alu0 = IF cpu.src0 = 1 \/ cpu.opcode = LHI THEN cpu.immediate
                                                       ELSE cpu.r[cpu.src0],
          !.alu1 = IF cpu.src1 = 1 THEN cpu.immediate ELSE cpu.r[cpu.src1],
          !.ctl_state = "EXEC0"]

\* Mutant of AluOut: DMP has the opposite sense.
AluOutPollInverted ==
    CASE cpu.opcode \in ArithOps  -> Arith(cpu.opcode, cpu.alu0, cpu.alu1)
      [] cpu.opcode = LHI         -> Wrap(cpu.alu0 * Height) + Low(cpun.aluout)
      [] cpu.opcode = DMA         -> cpu.r[cpu.dst]
      [] cpu.opcode = DMP         -> Bool(dma.busy)
      [] cpu.opcode \in BranchOps -> Bool(Taken(cpu.opcode, cpu.alu0, cpu.alu1))
      [] cpu.opcode = JIN         -> 1
      [] OTHER                    -> cpun.aluout

\* aluout for the opcodes that set it; LHI merges with the aluout of whatever
\* instruction ran before.
AluOut ==
    CASE cpu.opcode \in ArithOps  -> Arith(cpu.opcode, cpu.alu0, cpu.alu1)
      [] cpu.opcode = LHI         -> Wrap(cpu.alu0 * Height) + Low(cpun.aluout)
      [] cpu.opcode = DMA         -> cpu.r[cpu.dst]
      [] cpu.opcode = DMP         -> Bool(~dma.busy)
      [] cpu.opcode \in BranchOps -> Bool(Taken(cpu.opcode, cpu.alu0, cpu.alu1))
      [] cpu.opcode = JIN         -> 1
      [] OTHER                    -> cpun.aluout

Exec0 ==
    /\ State("EXEC0")
    /\ IF cpu.opcode = LD THEN D!llsim_mem_read(Low(cpu.alu1)) ELSE D!NoAccess
    /\ cpun' = [cpun EXCEPT !.aluout = AluOut, !.ctl_state = "EXEC1"]
    /\ UNCHANGED <<dman, stop_sim, dump>>

-----------------------------------------------------------------------------
\* EXEC1 ends an instruction.  The word HLT, which is also the encoding of
\* ADD r0, r0, r0 with immediate 24, sends the machine back to IDLE.
AfterExec1 == IF cpu.inst = HLT THEN "IDLE" ELSE "FETCH0"

Exec1(ops) == State("EXEC1") /\ cpu.opcode \in ops

\* Mutant of WriteBack: r0 and r1 are ordinary registers.
WriteBackAny(v) ==
    cpun' = [cpun EXCEPT !.r[cpu.dst] = v,
                         !.pc = cpu.pc + 1,
                         !.ctl_state = AfterExec1]

\* Assignments to r0 and r1 are suppressed.
WriteBack(v) ==
    cpun' = [cpun EXCEPT
                !.r = IF cpu.dst > 1 THEN [cpun.r EXCEPT ![cpu.dst] = v] ELSE cpun.r,
                !.pc = cpu.pc + 1,
                !.ctl_state = AfterExec1]

Exec1Alu ==
    /\ Exec1(ArithOps \cup {LHI}) /\ Quiet
    /\ WriteBack(cpu.aluout)

Exec1Ld ==
    /\ Exec1({LD}) /\ Quiet
    /\ WriteBack(port.dataout)

Exec1St ==
    /\ Exec1({ST})
    /\ D!llsim_mem_write(cpu.alu1, cpu.alu0)
    /\ cpun' = [cpun EXCEPT !.pc = cpu.pc + 1, !.ctl_state = AfterExec1]
    /\ UNCHANGED <<dman, stop_sim, dump>>

\* A busy DMA suppresses the operation: the instruction is fetched again.
Exec1DmaBusy ==
    /\ Exec1({DMA}) /\ dma.busy /\ Quiet
    /\ cpun' = [cpun EXCEPT !.ctl_state = AfterExec1]

\* Mutant of Exec1Dma: source and destination are exchanged.
Exec1DmaBackwards ==
    /\ Exec1({DMA}) /\ ~dma.busy
    /\ dman' = [dman EXCEPT !.busy = TRUE, !.dst = Low(cpu.alu0),
                            !.src = Low(cpu.aluout), !.len = cpu.alu1]
    /\ cpun' = [cpun EXCEPT !.pc = cpu.pc + 1, !.ctl_state = AfterExec1]
    /\ D!NoAccess
    /\ UNCHANGED <<stop_sim, dump>>

Exec1Dma ==
    /\ Exec1({DMA}) /\ ~dma.busy
    /\ dman' = [dman EXCEPT !.busy = TRUE, !.src = Low(cpu.alu0),
                            !.dst = Low(cpu.aluout), !.len = cpu.alu1]
    /\ cpun' = [cpun EXCEPT !.pc = cpu.pc + 1, !.ctl_state = AfterExec1]
    /\ D!NoAccess
    /\ UNCHANGED <<stop_sim, dump>>

Exec1Jump ==
    /\ Exec1(BranchOps \cup {JIN, DMP}) /\ Quiet
    /\ cpun' = [cpun EXCEPT
          !.pc = IF cpu.aluout # 0 THEN cpu.immediate ELSE cpu.pc + 1,
          !.r[7] = IF cpu.aluout # 0 THEN cpu.pc ELSE cpu.r[7],
          !.ctl_state = AfterExec1]

\* The dump comes before the clock edge: without this cycle's access, and with
\* what a running copy has written so far.
Exec1Hlt ==
    /\ Exec1({HLT})
    /\ stop_sim' = TRUE
    /\ dump' = sram
    /\ cpun' = [cpun EXCEPT !.ctl_state = AfterExec1]
    /\ D!NoAccess
    /\ UNCHANGED dman

\* No case for the opcode: the instruction is fetched again.
Exec1Illegal ==
    /\ Exec1((12 .. 15) \cup (21 .. 23) \cup (25 .. 31)) /\ Quiet
    /\ cpun' = [cpun EXCEPT !.ctl_state = AfterExec1]

sp_ctl ==
    \/ Idle \/ Fetch0 \/ Fetch1 \/ Dec0 \/ Dec1 \/ Exec0
    \/ Exec1Alu \/ Exec1Ld \/ Exec1St \/ Exec1DmaBusy \/ Exec1Dma
    \/ Exec1Jump \/ Exec1Hlt \/ Exec1Illegal

-----------------------------------------------------------------------------
dma_ctl == UNCHANGED <<cpu, cpun, dump>> /\ D!Dma

Commit == cpu' = cpun /\ UNCHANGED <<cpun, dump>> /\ D!Commit

CommitFault == UNCHANGED <<cpu, cpun, dump>> /\ D!CommitFault

Stopped ==
    /\ fault # "none" \/ (phase = "ctl" /\ stop_sim)
    /\ UNCHANGED vars

Next == sp_ctl \/ dma_ctl \/ Commit \/ CommitFault \/ Stopped

Spec == Init /\ [][Next]_vars

\* main's loop runs the clock until llsim_stop.
FairSpec == Spec /\ WF_vars(Next)

-----------------------------------------------------------------------------
(***************************************************************************)
(* Properties.                                                             *)
(***************************************************************************)

\* What the programmer sees: an instruction happens when EXEC1 commits, and
\* the program is over when the cycle of its HLT is.
Halted == stop_sim /\ phase = "ctl"
ArchPc == IF Halted THEN Low(cpu.pc + 1)
          ELSE IF cpu.ctl_state = "IDLE" THEN 0
          ELSE Low(cpu.pc)
ArchStatus == IF Halted THEN "halted" ELSE "running"

(* Programs of the common instruction set run as the instruction set       *)
(* simulator runs them: the comparison the labs made by diffing traces     *)
(* (lab2/example_inst_trace.txt is lab1/trace_expected.txt).               *)
I == INSTANCE Iss WITH
        mem <- sram, regs <- cpu.r, pc <- ArchPc, status <- ArchStatus,
        Images <- [Addr -> Word]

ImplementsIss == I!Spec

(* With the DMA, the machine is an instruction set with a copy running     *)
(* beside it: sharing the port by stalling is invisible to the program, and*)
(* the dump of HLT holds every store before it and exactly the words the   *)
(* copy had moved.                                                         *)
A == INSTANCE SpArch WITH
        mem <- sram, regs <- cpu.r, pc <- ArchPc, status <- ArchStatus,
        dump <- IF Halted THEN dump ELSE << >>,
        job <- D!SC!BlockJob, Images <- [Addr -> Word]

ImplementsArch == A!ArchSpec

(* The programs for which that is promised.  An instruction is not changed *)
(* while it executes; LHI, whose result depends on the instruction before  *)
(* it, is not used; no jump is taken at the last address, where the link   *)
(* of the instruction set simulator is -1; and the words that a copy has   *)
(* in flight are left alone: no store hits them, and no copy is shifted up *)
(* by one.                                                                 *)
Regular ==
    cpu.ctl_state = "EXEC1" =>
        /\ cpu.inst = sram[cpu.pc]
        /\ cpu.opcode # LHI
        /\ cpu.opcode \in BranchOps \cup {JIN, DMP} /\ cpu.aluout # 0
              => cpu.pc # Height - 1
        /\ phase = "ctl" /\ cpu.opcode = ST => cpu.alu1 \notin D!InFlight
        /\ phase = "ctl" /\ cpu.opcode = DMA /\ ~dma.busy
              => Low(cpu.aluout) # D!Inc(Low(cpu.alu0))

(* The programs that the instruction set simulator runs the same way: no   *)
(* DMA, no LHI, JIN to an immediate address, no word 24, no jump taken at  *)
(* the last address, and no undefined opcode.                              *)
Common ==
    cpu.ctl_state = "EXEC1" =>
        /\ \/ cpu.opcode \in ArithOps \cup BranchOps \cup {LD, ST, HLT}
           \/ cpu.opcode = JIN /\ cpu.src0 = 1
        /\ cpu.inst # HLT
        /\ cpu.opcode \in BranchOps \cup {JIN} /\ cpu.aluout # 0
              => cpu.pc # Height - 1

(* The engine's three copies of the hazard condition describe exactly the  *)
(* cycles in which sp_ctl drives the memory, and sp_ctl asks for a copy    *)
(* only when none is busy: it is a processor as DmaCtl expects.            *)
ObeysEngine == D!Spec

(* A copy that was started ends before the next poll can hang, because the *)
(* processor's own cycle leaves the port free four times per instruction.  *)
CopyEnds == D!CopyEnds

-----------------------------------------------------------------------------
(***************************************************************************)
(* What a comment says and the code does not do: checked by a run that must*)
(* find it violated.                                                       *)
(***************************************************************************)

(* "Flag indicates whether DMA machine is busy" (lab2/sp.c:69): a busy flag*)
(* means a copy that will end, whatever length was asked for.              *)
BusyEnds ==
    (phase = "ctl" /\ dma.busy)
        ~> (phase = "ctl" /\ ~dma.busy) \/ stop_sim \/ fault # "none"
=============================================================================
