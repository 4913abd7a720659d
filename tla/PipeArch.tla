------------------------------ MODULE PipeArch ------------------------------
(***************************************************************************)
(* The machine a programmer of the pipelined SP (lab5/sp.c) sees: one      *)
(* instruction at a time, fetched from a memory of its own that no store   *)
(* reaches, with a stream of copied words running beside it in the data    *)
(* memory.  No stage, no stall, no bypass, no prediction and no port.      *)
(*                                                                         *)
(* It states the choices that lab5/sp.c made and SpArch did not: LHI shifts*)
(* the register up and keeps the immediate low, DMP tests a register, DMA  *)
(* takes its destination from its source register and is dropped while a   *)
(* copy runs, the link is the address of the jump, an undefined opcode does*)
(* nothing, and a store whose address lies outside the memory is not       *)
(* wrapped into it, but is the end of the run.                             *)
(***************************************************************************)
EXTENDS SPWord, Sequences

CONSTANT Images    \* the memory images that may be loaded, into both memories

VARIABLES
    code,              \* the instruction memory
    mem,               \* the data memory
    regs, pc, status,  \* as in Iss
    dump,              \* sramd_out.txt, empty until HLT writes it
    job, buf           \* the copy in progress and its words in flight

vars == <<code, mem, regs, pc, status, dump, job, buf>>

\* The instruction set simulator, its memory being the one it fetches from.
I == INSTANCE Iss WITH mem <- code

S == INSTANCE StreamCopy WITH Disciplined <- FALSE

Init ==
    /\ I!Init
    /\ mem = code
    /\ dump = << >>
    /\ job = S!NoJob /\ buf = << >>

-----------------------------------------------------------------------------
(***************************************************************************)
(* Instructions that leave memory and copy alone.                          *)
(***************************************************************************)
ExecLhi ==
    /\ I!Execute({LHI})
    /\ I!SetReg(I!inst.dst, ShiftLeft(regs[I!inst.dst], ImmBits) + Low(I!Val0))
    /\ pc' = I!NextPc
    /\ UNCHANGED <<status, dump>>

ExecLd ==
    /\ I!Execute({LD})
    /\ I!SetReg(I!inst.dst, mem[Low(I!Val1)])
    /\ pc' = I!NextPc
    /\ UNCHANGED <<status, dump>>

\* JIN jumps always, DMP if its register is zero, a branch on its condition, all
\* to the immediate.  The link is the address of the jump itself.
Jumps ==
    \/ I!Execute({JIN})
    \/ I!Execute({DMP}) /\ I!Val0 = 0
    \/ I!Execute(BranchOps) /\ Taken(I!inst.opcode, I!Val0, I!Val1)

ExecJump ==
    /\ Jumps
    /\ I!SetReg(7, pc)
    /\ pc' = Low(I!inst.immediate)
    /\ UNCHANGED <<status, dump>>

ExecNothing ==
    /\ \/ I!Execute({DMP} \cup BranchOps) /\ ~Jumps
       \/ I!Execute({DMA}) /\ job.todo > 0
       \/ I!Execute((12 .. 15) \cup (21 .. 23) \cup (25 .. 31))
    /\ pc' = I!NextPc
    /\ UNCHANGED <<regs, status, dump>>

\* The dump is the memory before anything else of the cycle happens to it.
ExecHlt == I!ExecHlt /\ dump' = mem

Register ==
    \/ I!ExecArith /\ UNCHANGED dump
    \/ ExecLhi \/ ExecLd \/ ExecJump \/ ExecNothing \/ ExecHlt

-----------------------------------------------------------------------------
\* A store within the memory; there is no step for another one.
ExecSt ==
    /\ I!Execute({ST}) /\ I!Val1 \in Addr
    /\ mem' = [mem EXCEPT ![I!Val1] = I!Val0]
    /\ pc' = I!NextPc
    /\ UNCHANGED <<regs, status, dump, job, buf>>

\* A request for one word or more, while no copy runs.
ExecDma ==
    /\ I!Execute({DMA})
    /\ job.todo = 0 /\ I!Val1 > 0
    /\ job' = [from |-> Low(I!Val0), to |-> Low(I!Val0), todo |-> I!Val1]
    /\ pc' = I!NextPc
    /\ UNCHANGED <<mem, regs, status, dump, buf>>

\* The stream moves, perhaps while an instruction executes that does not store.
Stream ==
    /\ S!Fetch \/ S!Write
    /\ Register \/ UNCHANGED <<regs, pc, status, dump>>

Next ==
    /\ \/ Register /\ UNCHANGED <<mem, job, buf>>
       \/ ExecSt
       \/ ExecDma
       \/ Stream
    /\ UNCHANGED code

Spec == Init /\ [][Next]_vars
=============================================================================
