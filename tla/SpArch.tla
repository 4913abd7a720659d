------------------------------- MODULE SpArch -------------------------------
(***************************************************************************)
(* The machine a programmer of the later labs sees: the instruction set    *)
(* simulator, with the two instructions of the DMA added, and a copy that  *)
(* moves word by word while instructions execute.  No cycle, no stage and  *)
(* no port.  SP2 is compared with it.                                      *)
(*                                                                         *)
(* It states four choices that lab2/sp.c made: JIN jumps to the immediate; *)
(* the word 24, an addition to r0 elsewhere, starts the program again with *)
(* its registers as they are; a poll of the DMA may lag, so DMP may fall   *)
(* through although the copy has just ended, but never jumps while one is  *)
(* running; and a store whose address lies outside the memory is not       *)
(* wrapped into it, but is the end of the run.                             *)
(***************************************************************************)
EXTENDS Iss

VARIABLES
    dump,     \* the file that HLT writes, empty until then
    job       \* the copy that remains to be done

archVars == <<mem, regs, pc, status, dump, job>>

B == INSTANCE BlockCopy

ArchInit == Init /\ dump = << >> /\ job = B!NoJob

\* Instructions that leave memory and copy alone.
ExecJinImmediate ==
    /\ Execute({JIN})
    /\ SetReg(7, Link)
    /\ pc' = Low(inst.immediate)
    /\ UNCHANGED status

ExecDmpIdle ==
    /\ Execute({DMP})
    /\ job.todo = 0
    /\ SetReg(7, Link)
    /\ pc' = Low(inst.immediate)
    /\ UNCHANGED status

ExecDmpBusy ==
    /\ Execute({DMP})
    /\ pc' = NextPc
    /\ UNCHANGED <<regs, status>>

ExecRestart ==
    /\ status = "running" /\ mem[pc] = HLT
    /\ pc' = 0
    /\ UNCHANGED <<regs, status>>

Register ==
    \/ /\ \/ ExecArith /\ mem[pc] # HLT
          \/ ExecLd \/ ExecBranch
          \/ ExecJinImmediate \/ ExecDmpIdle \/ ExecDmpBusy \/ ExecRestart
       /\ UNCHANGED dump
    \/ ExecHlt /\ dump' = mem

\* A store within the memory; there is no step for another one.
ExecStInside == Val1 \in Addr /\ ExecSt

\* DMA starts a copy; a request for no word is accepted and does nothing.
ExecDma ==
    /\ Execute({DMA})
    /\ job.todo = 0
    /\ job' = IF Val1 > 0
                THEN [from |-> Low(Val0), to |-> Low(regs[inst.dst]), todo |-> Val1]
                ELSE B!NoJob
    /\ pc' = NextPc
    /\ UNCHANGED <<mem, regs, status, dump>>

\* A word is copied, perhaps while an instruction executes that does not store.
Copy ==
    /\ B!CopyWord
    /\ Register \/ UNCHANGED <<regs, pc, status, dump>>

ArchNext ==
    \/ Register /\ UNCHANGED <<mem, job>>
    \/ ExecStInside /\ UNCHANGED <<dump, job>>
    \/ ExecDma
    \/ Copy

ArchSpec == ArchInit /\ [][ArchNext]_archVars
=============================================================================
