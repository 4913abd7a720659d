-------------------------------- MODULE Iss ---------------------------------
(***************************************************************************)
(* The instruction set simulator (lab1/iss.c): one step per instruction.   *)
(* It is the reference the later simulators were compared with, through    *)
(* their instruction traces, and is used here as their specification.      *)
(***************************************************************************)
EXTENDS SPWord

CONSTANT Images    \* the memory images that may be loaded

ASSUME ImagesAssumption == Images \subseteq [Addr -> Word]

VARIABLES
    mem,      \* the 65536 words
    regs,     \* r0 .. r7; r0 and r1 stay zero
    pc,       \* an unsigned short
    status    \* "running", "halted", or "illegal" after exit(1)

vars == <<mem, regs, pc, status>>

TypeOK ==
    /\ mem \in [Addr -> Word]
    /\ regs \in [0 .. 7 -> Word] /\ regs[0] = 0 /\ regs[1] = 0
    /\ pc \in Addr
    /\ status \in {"running", "halted", "illegal"}

Init ==
    /\ mem \in Images
    /\ regs = [r \in 0 .. 7 |-> 0]
    /\ pc = 0
    /\ status = "running"

-----------------------------------------------------------------------------
\* The instruction at pc, with its two operands.
inst == Decode(mem[pc])

Val0 == IF inst.src0 = 1 \/ inst.opcode = LHI THEN inst.immediate
                                               ELSE regs[inst.src0]
\* Mutant of Val1: source 1 does not select the immediate.
Val1Register == regs[inst.src1]

Val1 == IF inst.src1 = 1 THEN inst.immediate ELSE regs[inst.src1]

\* Mutant of NextPc: an int instead of an unsigned short.
NextPcUnbounded == pc + 1

\* pc++
NextPc == Low(pc + 1)

\* Assignments to r0 and r1 are suppressed.
SetReg(r, v) == regs' = IF r \in {0, 1} THEN regs ELSE [regs EXCEPT ![r] = v]

\* Mutant of Link: the address of the jump itself, as the pipeline saves it.
LinkOfJump == pc

\* *pc - 1 after pc++: an int, negative when the increment wrapped.
Link == NextPc - 1

Execute(ops) == status = "running" /\ inst.opcode \in ops

ExecArith ==
    /\ Execute(ArithOps)
    /\ SetReg(inst.dst, Arith(inst.opcode, Val0, Val1))
    /\ pc' = NextPc
    /\ UNCHANGED status

ExecLhi ==
    /\ Execute({LHI})
    /\ SetReg(inst.dst, Wrap(Val0 * Height) + Low(regs[inst.dst]))
    /\ pc' = NextPc
    /\ UNCHANGED status

ExecLd ==
    /\ Execute({LD})
    /\ SetReg(inst.dst, mem[Low(Val1)])
    /\ pc' = NextPc
    /\ UNCHANGED status

ExecSt ==
    /\ Execute({ST})
    /\ mem' = [mem EXCEPT ![Low(Val1)] = Val0]
    /\ pc' = NextPc
    /\ UNCHANGED <<regs, status>>

ExecBranch ==
    /\ Execute(BranchOps)
    /\ IF Taken(inst.opcode, Val0, Val1)
         THEN SetReg(7, Link) /\ pc' = Low(inst.immediate)
         ELSE pc' = NextPc /\ UNCHANGED regs
    /\ UNCHANGED status

ExecJin ==
    /\ Execute({JIN})
    /\ SetReg(7, Link)
    /\ pc' = Low(Val0)
    /\ UNCHANGED status

ExecHlt ==
    /\ Execute({HLT})
    /\ status' = "halted"
    /\ pc' = NextPc
    /\ UNCHANGED regs

\* toOpcodeName and execute exit(1) on an opcode they do not know.
ExecIllegal ==
    /\ Execute((0 .. 31) \ (ArithOps \cup BranchOps \cup {LHI, LD, ST, JIN, HLT}))
    /\ status' = "illegal"
    /\ UNCHANGED <<regs, pc>>

Stopped == status # "running" /\ UNCHANGED vars

\* ST is the only instruction that changes the memory.
Next ==
    \/ ExecArith /\ UNCHANGED mem
    \/ ExecLhi /\ UNCHANGED mem
    \/ ExecLd /\ UNCHANGED mem
    \/ ExecSt
    \/ ExecBranch /\ UNCHANGED mem
    \/ ExecJin /\ UNCHANGED mem
    \/ ExecHlt /\ UNCHANGED mem
    \/ ExecIllegal /\ UNCHANGED mem
    \/ Stopped

Spec == Init /\ [][Next]_vars

FairSpec == Spec /\ WF_vars(Next)
=============================================================================
