------------------------------- MODULE MCSP5 --------------------------------
(***************************************************************************)
(* Programs for the pipelined processor.                                   *)
(***************************************************************************)
EXTENDS SP5, SPAsm, TLC

\* 0xBAADBAAD, a word no program uses.
MCJunk == -HalfRange + 7

MCDmaLens == 0 .. 4

\* One address outside the memory on either side.
MCCpuAddr == -1 .. Height

\* Data words, and the instructions that programs store over their own.
Patches == {asm_cmd(HLT, 0, 0, 0, 0), asm_cmd(JEQ, 0, 0, 0, 8),
            asm_cmd(SUB, 6, 6, 1, 1)}

MCStoreWords == (-15 .. 100) \cup {-383} \cup Patches

Hlt == asm_cmd(HLT, 0, 0, 0, 0)

-----------------------------------------------------------------------------
(***************************************************************************)
(* Straight programs: every sequence of n instructions of a set in which   *)
(* each can feed, stall or bypass the next, and jumps go forward.          *)
(***************************************************************************)
StraightInstructions == {
    asm_cmd(ADD, 2, 1, 1, 3),   asm_cmd(ADD, 3, 2, 1, -5),
    asm_cmd(SUB, 2, 3, 2, 0),   asm_cmd(SUB, 0, 2, 1, 1),
    asm_cmd(AND, 3, 2, 1, 6),   asm_cmd(XOR, 2, 3, 1, -1),
    asm_cmd(LD,  2, 0, 1, 6),   asm_cmd(LD,  3, 0, 2, 0),
    asm_cmd(LD,  1, 0, 1, 7),
    asm_cmd(ST,  0, 2, 1, 6),   asm_cmd(ST,  0, 7, 1, 7),
    asm_cmd(JLT, 0, 3, 2, 4),   asm_cmd(JNE, 0, 3, 0, 3) }

\* The part of them that makes for the most interlocking, for longer programs.
Interlocking == {
    asm_cmd(ADD, 2, 1, 1, 3),   asm_cmd(SUB, 2, 3, 2, 0),
    asm_cmd(XOR, 3, 2, 1, -1),
    asm_cmd(LD,  2, 0, 1, 6),   asm_cmd(LD,  3, 0, 2, 0),
    asm_cmd(ST,  0, 2, 1, 6),   asm_cmd(ST,  0, 7, 1, 7),
    asm_cmd(JLT, 0, 3, 2, 4),   asm_cmd(JNE, 0, 3, 0, 3) }

StraightData == (6 :> 5) @@ (7 :> -HalfRange)

\* A loaded word is offered to the use two instructions behind for one cycle
\* only: an instruction that stalls in that cycle reads a stale word instead
\* (see the violation run).  Programs that do so are left out here.
LosesLoad(p) ==
    \E i \in 1 .. Len(p) - 2 :
        LET load == Decode(p[i])
            next == Decode(p[i + 1])
            use  == Decode(p[i + 2])
            operands == {use.src0, use.src1}
        IN  /\ load.opcode = LD /\ load.dst \in operands \ {0, 1}
            /\ \/ next.opcode = LD /\ next.dst \in operands
               \/ next.opcode = ST /\ use.opcode = LD

StraightPrograms ==
    { p \in [1 .. 3 -> StraightInstructions] \cup [1 .. 4 -> Interlocking] :
        ~LosesLoad(p) }

\* A store below zero and a jump below zero, which no test program makes and
\* which end the run.
CornerImages == {
    Image(<< asm_cmd(ADD, 2, 0, 1, 1), asm_cmd(ST, 0, 2, 1, -1), Hlt >>, << >>),
    Image(<< asm_cmd(ADD, 2, 0, 1, 1), asm_cmd(JEQ, 0, 0, 0, -1), Hlt >>, << >>) }

StraightImages ==
    CornerImages \cup
    { Image(q, StraightData) : q \in { p \o << Hlt, Hlt, Hlt >> : p \in StraightPrograms } }

-----------------------------------------------------------------------------
(***************************************************************************)
(* Loops: the assembler's programs, on which the branch target buffer      *)
(* comes into play.                                                        *)
(***************************************************************************)
DataAt == 20

LoopImages ==
    { Image(SumProgram(DataAt, DataAt + n), [a \in DataAt .. DataAt + 3 |-> a]) :
        n \in 1 .. 4 }
    \cup { Image(MultProgram(DataAt), (DataAt :> a) @@ (DataAt + 1 :> b)) :
            a \in {-3, 2}, b \in {-3, -1, 0, 1, 5} }
    \cup { Image(MultTableProgram(n, DataAt + n * n - 1), << >>) : n \in 1 .. 3 }

-----------------------------------------------------------------------------
(***************************************************************************)
(* Loads and stores beside a copy, in every pattern of port use, a second  *)
(* request while the first is busy, and a poll.  This machine copies a     *)
(* block onto itself (see the violation run), so the programs store next   *)
(* to the block and into it; they end with more cycles than the copy needs.*)
(* None reads R3 next to a request: the bypasses take the dst field of the *)
(* DMA instruction for a register that it writes.                          *)
(***************************************************************************)
BesideCopy == {
    asm_cmd(ADD, 5, 5, 1, 1),  asm_cmd(LD,  5, 0, 1, 22),
    asm_cmd(LD,  4, 0, 2, 0),  asm_cmd(ST,  0, 4, 1, 28),
    asm_cmd(ST,  0, 2, 1, 22), asm_cmd(DMA, 3, 2, 1, 1),
    asm_cmd(DMP, 0, 2, 0, 5) }

Pause == asm_cmd(ADD, 6, 6, 1, 1)

Wait == << Pause, Pause, Pause, Pause, Pause, Pause, Pause, Pause >>

CopyProgram(src, dst, n, p) ==
    << asm_cmd(ADD, 2, 1, 0, src), asm_cmd(ADD, 3, 1, 0, dst),
       asm_cmd(DMA, 3, 2, 1, n) >>
    \o p \o Wait \o << asm_cmd(LD, 6, 0, 1, src), Hlt >>

BlockData == [a \in 20 .. 23 |-> a - 15]

CopyImages ==
    { Image(q, BlockData) :
        q \in { CopyProgram(20, 24, n, p) :
                    n \in 1 .. 4, p \in [1 .. 3 -> BesideCopy] } }

\* The same beside an endless loop, in which the copy has to find its cycles.
EndlessProgram(n, p) ==
    << asm_cmd(ADD, 2, 1, 0, 20), asm_cmd(ADD, 3, 1, 0, 24),
       asm_cmd(DMA, 3, 2, 1, n) >> \o p \o << asm_cmd(JEQ, 0, 0, 0, 3) >>

InLoop == BesideCopy \ { asm_cmd(ADD, 5, 5, 1, 1) }

EndlessImages ==
    { Image(q, BlockData) :
        q \in { EndlessProgram(n, p) :
                    n \in {1, 4}, p \in UNION { [1 .. k -> InLoop] : k \in 1 .. 3 } } }

-----------------------------------------------------------------------------
(***************************************************************************)
(* Programs that store into the code ahead of them and behind them, which  *)
(* changes nothing but the data memory; LHI; an undefined opcode.          *)
(***************************************************************************)
OwnCodeImages ==
    { Image(<< asm_cmd(LD, 2, 0, 1, 20), Pause, Pause, asm_cmd(ST, 0, 2, 1, a),
               Pause, asm_cmd(JNE, 0, 6, 1, 8), Pause, Pause,
               asm_cmd(LD, 3, 0, 1, a), Pause, asm_cmd(ST, 0, 3, 1, 24), Hlt >>,
            (20 :> w)) :
        a \in 3 .. 11, w \in Patches }

OddImages == {
    Image(<< asm_cmd(ADD, 2, 0, 1, 5), asm_cmd(LHI, 2, 0, 0, -2),
             asm_cmd(13, 2, 2, 2, 0), asm_cmd(XOR, 3, 2, 1, -1),
             asm_cmd(ST, 0, 3, 1, 24), Hlt >>, << >>) }

ArchImages ==
    LoopImages \cup CopyImages \cup EndlessImages \cup OwnCodeImages \cup OddImages
        \cup CornerImages

(* Every program without an endless loop of its own, and that stays within *)
(* the memory, ends: no prediction, no flush and no stall keeps it from its*)
(* HLT.                                                                    *)
Halts == sram \notin EndlessImages \cup CornerImages => <>Halted

-----------------------------------------------------------------------------
(***************************************************************************)
(* One short program per disagreement.                                     *)
(***************************************************************************)

\* Two loads and an instruction that uses both words.
TwoLoadsImages ==
    { Image(<< asm_cmd(LD, 2, 0, 1, 20), asm_cmd(LD, 3, 0, 1, 21),
               asm_cmd(ADD, 4, 2, 3, 0), Hlt >>, (20 :> 5) @@ (21 :> 9)) }

\* The assembler's own test of the DMA.
LabImages ==
    { Image(DmaProgram(14, 18, 24, 3, 4), [a \in 14 .. 17 |-> a - 13]) }

(* The assembler's test program ends with its block copied (lab2/asm.c:61, *)
(* "DMA from 101 to 201").                                                 *)
LabProgramCorrect ==
    Halted => \A k \in 0 .. 3 : sram[18 + k] = sram[14 + k]
=============================================================================
