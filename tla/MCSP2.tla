------------------------------- MODULE MCSP2 --------------------------------
(***************************************************************************)
(* Programs for the multicycle processor.                                  *)
(***************************************************************************)
EXTENDS SP2, SPAsm, TLC

\* 0xBAADBAAD, a word no program uses.
MCJunk == -HalfRange + 7

Seqs(S, n) == [1 .. n -> S]

Hlt == asm_cmd(HLT, 0, 0, 0, 0)

-----------------------------------------------------------------------------
\* Every opcode of the common set but LHI and JIN (which read another operand
\* here than on the instruction set simulator, see the README),
\* with register, immediate and discarded destinations; jumps go forward.
CommonInstructions == {
    asm_cmd(ADD, 2, 1, 1, 3),   asm_cmd(ADD, 3, 2, 1, -5),
    asm_cmd(SUB, 2, 3, 2, 0),   asm_cmd(SUB, 0, 2, 1, 1),
    asm_cmd(LSF, 2, 2, 1, 6),   asm_cmd(RSF, 3, 3, 1, 1),
    asm_cmd(AND, 3, 2, 1, 6),   asm_cmd(OR,  2, 3, 2, 0),
    asm_cmd(XOR, 2, 3, 1, -1),
    asm_cmd(LD,  2, 0, 1, 6),   asm_cmd(LD,  3, 0, 2, 0),
    asm_cmd(LD,  1, 0, 1, 7),
    asm_cmd(ST,  0, 2, 1, 6),   asm_cmd(ST,  0, 7, 1, 7),
    asm_cmd(JLT, 0, 3, 2, 4),   asm_cmd(JLE, 0, 2, 3, 4),
    asm_cmd(JEQ, 0, 2, 0, 3),   asm_cmd(JNE, 0, 3, 0, 3) }

CommonData == (6 :> 5) @@ (7 :> -HalfRange)

CommonImages ==
    { Image(q, CommonData) :
        q \in { p \o << Hlt, Hlt >> : p \in Seqs(CommonInstructions, 3) } }

-----------------------------------------------------------------------------
\* Start a copy of n words from src to dst; execute p; poll until the copy is
\* over; read the last word copied; halt.
CopyProgram(src, dst, n, p) ==
    << asm_cmd(ADD, 2, 1, 0, src), asm_cmd(ADD, 3, 1, 0, dst),
       asm_cmd(DMA, 3, 2, 1, n) >>
    \o p
    \o << asm_cmd(DMP, 0, 0, 0, 5 + Len(p)), asm_cmd(JIN, 0, 0, 0, 3 + Len(p)),
          asm_cmd(LD, 6, 0, 1, dst + n - 1), Hlt >>

\* What runs beside the copy: every pattern of port use, a second request, a
\* poll, and stores next to the block and into words already copied or not
\* yet fetched.
BesideCopy == {
    asm_cmd(ADD, 5, 5, 1, 1),  asm_cmd(LD,  5, 0, 1, 20),
    asm_cmd(LD,  4, 0, 3, 0),  asm_cmd(ST,  0, 4, 1, 28),
    asm_cmd(ST,  0, 3, 1, 24), asm_cmd(DMA, 3, 2, 1, 1),
    asm_cmd(DMP, 0, 0, 0, 5) }

BlockData == [a \in 20 .. 23 |-> a - 15]

\* Destinations: apart, overlapping from below and from above, and wrapping
\* around the end of memory onto instructions that have been executed.
CopyImages ==
    { Image(q, BlockData) :
        q \in { CopyProgram(20, d, n, p) :
                    d \in {24, 19, 22, 63}, n \in 1 .. 4, p \in Seqs(BesideCopy, 2) } }

\* The assembler's own test, on a shorter block.
LabImages ==
    { Image(DmaProgram(14, 18, 24, n, len), [a \in 14 .. 17 |-> a - 13]) :
        n \in {1, 3}, len \in {1, 2, 4} }

\* A program that does not wait for its copy.
HaltProgram(n, k) ==
    << asm_cmd(ADD, 2, 1, 0, 20), asm_cmd(ADD, 3, 1, 0, 24),
       asm_cmd(DMA, 3, 2, 1, n) >>
    \o [i \in 1 .. k |-> asm_cmd(ST, 0, 2, 1, 29)] \o << Hlt >>

HaltImages ==
    { Image(HaltProgram(n, k), BlockData) : n \in 1 .. 4, k \in 0 .. 5 }

\* The word 24 at address 2: the second round jumps over it.
RestartImages == {
    Image(<< asm_cmd(ADD, 2, 2, 1, 3), asm_cmd(JLT, 0, 1, 2, 4), 24, Hlt,
             asm_cmd(ST, 0, 2, 1, 29), Hlt >>, << >>) }

\* An undefined opcode, which is fetched for ever, a store below zero, a jump
\* into the upper half of the memory, and a program that runs past its end.
CornerImages == {
    Image(<< asm_cmd(ADD, 2, 0, 1, 1), asm_cmd(JNE, 0, 2, 0, -1), Hlt >>, << >>),
    Image(<< asm_cmd(JEQ, 0, 0, 0, 31) >>, [a \in 31 .. Height - 1 |-> 0]),
    Image(<< asm_cmd(ADD, 2, 0, 1, 1), asm_cmd(12, 2, 2, 2, 0), Hlt >>, << >>),
    Image(<< asm_cmd(ADD, 2, 0, 1, 1), asm_cmd(ST, 0, 2, 1, -1), Hlt >>, << >>) }

LiveImages == CopyImages \cup LabImages \cup HaltImages \cup RestartImages

DmaImages == LiveImages \cup CornerImages

-----------------------------------------------------------------------------
\* A copy of no words, then a poll for its end.
ZeroImages ==
    { Image(<< asm_cmd(DMA, 3, 2, 1, 0), asm_cmd(DMP, 0, 0, 0, 3),
               asm_cmd(JEQ, 0, 0, 0, 1), Hlt >>, << >>) }
MCDmaLens == 0 .. 4

\* One address outside the memory on either side.
MCCpuAddr == -1 .. Height

MCStoreWords == -1 .. 31

(* The assembler's test program dumps its block copied by the DMA and its  *)
(* first words copied by the loop (lab2/asm.c).                            *)
LabProgramCorrect ==
    Halted => \A n \in {1, 3}, len \in {1, 2, 4} :
        (\A a \in 0 .. 13 : sram[a] = DmaProgram(14, 18, 24, n, len)[a + 1]) =>
            /\ \A k \in 0 .. len - 1 : dump[18 + k] = k + 1
            /\ \A k \in 0 .. n - 1 : dump[24 + k] = k + 1
            /\ dump[18 + len] = 0 /\ dump[24 + n] = 0

(* A program that does not wait for its copy dumps every store before its  *)
(* HLT and some first words of the block, never one of a word to come.     *)
DumpHoldsPrefix ==
    Halted => \A n \in 1 .. 4, k \in 0 .. 5 :
        (\A a \in 0 .. 3 + k : sram[a] = HaltProgram(n, k)[a + 1]) =>
            /\ dump[29] = IF k = 0 THEN 0 ELSE 20
            /\ \E done \in 0 .. n : \A j \in 0 .. 3 :
                 dump[24 + j] = IF j < done THEN BlockData[20 + j] ELSE 0

(* Every such program ends: its own poll loop sees the end of its copy, for*)
(* every length of at least one and whatever it does in between.           *)
Halts == sram \in LiveImages => <>Halted
=============================================================================
