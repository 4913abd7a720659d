-------------------------------- MODULE MCIss -------------------------------
(***************************************************************************)
(* The assembler's programs, and a few corner cases, on the instruction    *)
(* set simulator.                                                          *)
(***************************************************************************)
EXTENDS Iss, SPAsm, TLC

MinWord == -HalfRange

\* Where the instances keep their data: above the longest program.
DataAt == 20

\* Four words to sum, one behind them that is not summed, and a copy of the
\* first, which the program overwrites with the sum.
SumData == { (DataAt :> a) @@ (DataAt + 1 :> b) @@ (DataAt + 2 :> -3)
             @@ (DataAt + 3 :> MinWord) @@ (DataAt + 4 :> 9)
             @@ (DataAt + 5 :> a)
                : a \in {-1, 5, MinWord}, b \in {0, -7} }

SumImages == { Image(SumProgram(DataAt, DataAt + 4), d) : d \in SumData }

Operands(S, T) == { (DataAt :> a) @@ (DataAt + 1 :> b) : a \in S, b \in T }

Small == -3 .. 3

MultImages ==
    { Image(MultProgram(DataAt), d) :
        d \in Operands(Small, Small \cup {6, -6})
              \cup Operands({MinWord, MinWord + 1, -(MinWord + 1)}, Small)
              \cup Operands(Small, {MinWord + 1, -(MinWord + 1)}) }

TableImages == { Image(MultTableProgram(n, DataAt + n * n - 1), << >>) :
                    n \in {1, 2, 3} }

\* The last address holds an instruction that falls through to address 0,
\* where the second visit finds R2 = 1 and goes to the halt.
WrapProgram == << asm_cmd(JNE, 0, 2, 0, 2),
                  asm_cmd(JEQ, 0, 0, 0, Height - 1),
                  asm_cmd(HLT, 0, 0, 0, 0) >>

WrapImage == Image(WrapProgram, (Height - 1 :> asm_cmd(ADD, 2, 0, 1, 1)))

\* A jump that is taken at the last address.
LinkProgram == << asm_cmd(JEQ, 0, 0, 0, Height - 1),
                  asm_cmd(HLT, 0, 0, 0, 0) >>

LinkImage == Image(LinkProgram, (Height - 1 :> asm_cmd(JEQ, 0, 0, 0, 1)))

\* LHI builds a word in two halves; a subroutine returns through r7; the
\* largest opcode of each group runs once.
MiscProgram == <<
    asm_cmd(ADD, 2, 0, 1, 5),
    asm_cmd(LHI, 2, 0, 0, -2),
    asm_cmd(XOR, 3, 2, 1, -1),
    asm_cmd(OR,  4, 3, 2, 0),
    asm_cmd(RSF, 5, 2, 1, 3),
    asm_cmd(JLE, 0, 0, 0, 9),
    asm_cmd(ST,  0, 4, 1, 30),
    asm_cmd(HLT, 0, 0, 0, 0),
    asm_cmd(HLT, 0, 0, 0, 0),
    asm_cmd(ADD, 7, 7, 1, 1),
    asm_cmd(JIN, 0, 7, 0, 0) >>

\* Opcode 31 between two instructions of an ordinary program.
IllegalImages == { Image(<< asm_cmd(ADD, 2, 0, 1, 1),
                            asm_cmd(31, 0, 0, 0, 0),
                            asm_cmd(HLT, 0, 0, 0, 0) >>, << >>) }

ProgramImages ==
    SumImages \cup MultImages \cup TableImages \cup IllegalImages
        \cup {WrapImage, LinkImage, Image(MiscProgram, << >>)}

-----------------------------------------------------------------------------
Loaded(program) == \A a \in 1 .. Len(program) : mem[a - 1] = program[a]

Halted(program) == status = "halted" /\ Loaded(program)

(* The sum program leaves the sum of its block, wrapped to a word, in the  *)
(* block's first word (lab1/asm.c, "Original program").                    *)
SumCorrect ==
    Halted(SumProgram(DataAt, DataAt + 4)) =>
        mem[DataAt] = Wrap(Wrap(mem[DataAt + 5] + mem[DataAt + 1])
                           + Wrap(mem[DataAt + 2] + mem[DataAt + 3]))

(* The multiplication program leaves the product of its two signed inputs, *)
(* wrapped to a word, in the third (lab1/asm.c, "Multiplication program"). *)
MultCorrect ==
    Halted(MultProgram(DataAt)) =>
        mem[DataAt + 2] = Wrap(mem[DataAt] * mem[DataAt + 1])

(* The table program leaves row * column in row-major order, and counts    *)
(* both from 1 (lab1/asm.c, "Multiplication table program").               *)
TableCorrect ==
    \A n \in {1, 2, 3} :
        Halted(MultTableProgram(n, DataAt + n * n - 1)) =>
            \A r, c \in 1 .. n : mem[DataAt + (r - 1) * n + (c - 1)] = r * c

(* The corner cases of lab1.pdf: LHI keeps the low half, a subroutine comes*)
(* back through r7, and execution goes on at 0 after the last address.  A  *)
(* jump taken there saves -1: pc has wrapped to 0 before one is subtracted *)
(* (lab1/iss.c, execute).                                                  *)
CornersCorrect ==
    /\ Halted(MiscProgram) =>
          /\ regs[2] = Wrap(-2 * Height) + 5
          /\ mem[30] = -1
    /\ Halted(WrapProgram) => regs[2] = 1 /\ regs[7] = 0 /\ pc = 3
    /\ Halted(LinkProgram) => regs[7] = -1 /\ pc = 2

(* Every one of the programs comes to an end.                              *)
Ends == <>(status # "running")

=============================================================================
