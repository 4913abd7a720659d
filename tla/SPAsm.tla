------------------------------- MODULE SPAsm --------------------------------
(***************************************************************************)
(* The programs of the two assemblers (lab1/asm.c, lab2/asm.c).  They are  *)
(* part of the C source: a call of asm_cmd per instruction and a few words *)
(* of data.  Data addresses and sizes are parameters, because the memory   *)
(* of an instance is smaller than theirs; every instruction is theirs.     *)
(***************************************************************************)
EXTENDS SPWord, Sequences

\* A memory that holds a program from address 0 on and data elsewhere.
Image(program, data) ==
    [a \in Addr |-> IF a < Len(program) THEN program[a + 1]
                    ELSE IF a \in DOMAIN data THEN data[a] ELSE 0]

\* Sum of the words of memory from "from" below "to", stored at "from".
SumProgram(from, to) == <<
    asm_cmd(ADD, 2, 1, 0, from),    \* 0: R2 = from
    asm_cmd(ADD, 5, 1, 0, to),      \* 1: R5 = to
    asm_cmd(ADD, 3, 1, 0, 0),       \* 2: R3 = 0
    asm_cmd(LD,  4, 0, 2, 0),       \* 3: R4 = MEM[R2]
    asm_cmd(ADD, 3, 3, 4, 0),       \* 4: R3 += R4
    asm_cmd(ADD, 2, 2, 1, 1),       \* 5: R2 += 1
    asm_cmd(JLT, 0, 2, 5, 3),       \* 6: if R2 < R5 goto 3
    asm_cmd(ST,  0, 3, 1, from),    \* 7: MEM[from] = R3
    asm_cmd(HLT, 0, 0, 0, 0) >>     \* 8: halt

\* Mutant of MultProgram: the bit test is the wrong way round.
MultProgramWrongTest(p) == <<
    asm_cmd(LD,  2, 0, 1, p),       asm_cmd(LD,  3, 0, 1, p + 1),
    asm_cmd(ADD, 4, 0, 0, 0),       asm_cmd(ADD, 6, 0, 0, 0),
    asm_cmd(JLT, 0, 0, 3, 7),       asm_cmd(SUB, 3, 0, 3, 0),
    asm_cmd(ADD, 6, 0, 1, 1),       asm_cmd(JEQ, 0, 3, 0, 14),
    asm_cmd(AND, 5, 3, 1, 1),       asm_cmd(JNE, 0, 5, 0, 11),
    asm_cmd(ADD, 4, 4, 2, 0),       asm_cmd(LSF, 2, 2, 1, 1),
    asm_cmd(RSF, 3, 3, 1, 1),       asm_cmd(JEQ, 0, 0, 0, 7),
    asm_cmd(JEQ, 0, 6, 0, 16),      asm_cmd(SUB, 4, 0, 4, 0),
    asm_cmd(ST,  0, 4, 1, p + 2),   asm_cmd(HLT, 0, 0, 0, 0) >>

\* Product of the words at p and p + 1, stored at p + 2.
MultProgram(p) == <<
    asm_cmd(LD,  2, 0, 1, p),       \*  0: load multiplicand
    asm_cmd(LD,  3, 0, 1, p + 1),   \*  1: load multiplier
    asm_cmd(ADD, 4, 0, 0, 0),       \*  2: sum = 0
    asm_cmd(ADD, 6, 0, 0, 0),       \*  3: sign = positive
    asm_cmd(JLT, 0, 0, 3, 7),       \*  4: if multiplier > 0 goto loop
    asm_cmd(SUB, 3, 0, 3, 0),       \*  5: negate multiplier
    asm_cmd(ADD, 6, 0, 1, 1),       \*  6: sign = negative
    asm_cmd(JEQ, 0, 3, 0, 14),      \*  7: loop: exit if multiplier = 0
    asm_cmd(AND, 5, 3, 1, 1),       \*  8: multiplier lower bit
    asm_cmd(JEQ, 0, 5, 0, 11),      \*  9: test it
    asm_cmd(ADD, 4, 4, 2, 0),       \* 10: sum += multiplicand
    asm_cmd(LSF, 2, 2, 1, 1),       \* 11: multiplicand << 1
    asm_cmd(RSF, 3, 3, 1, 1),       \* 12: multiplier >> 1
    asm_cmd(JEQ, 0, 0, 0, 7),       \* 13: goto loop
    asm_cmd(JEQ, 0, 6, 0, 16),      \* 14: if positive goto output
    asm_cmd(SUB, 4, 0, 4, 0),       \* 15: negate result
    asm_cmd(ST,  0, 4, 1, p + 2),   \* 16: output result
    asm_cmd(HLT, 0, 0, 0, 0) >>     \* 17: halt

\* Multiplication table of n rows and n columns, its last word at "last".
MultTableProgram(n, last) == <<
    asm_cmd(ADD, 2, 0, 1, n),       \*  0: row = n
    asm_cmd(ADD, 3, 0, 1, n),       \*  1: column = n
    asm_cmd(ADD, 5, 0, 1, last),    \*  2: ptr = last
    asm_cmd(ADD, 6, 0, 1, n),       \*  3: saved_column = n
    asm_cmd(JEQ, 0, 2, 0, 18),      \*  4: loop: exit condition
    asm_cmd(ADD, 4, 0, 1, 0),       \*  5: result = 0
    asm_cmd(JEQ, 0, 3, 0, 10),      \*  6: mult: if column = 0 goto store
    asm_cmd(ADD, 4, 4, 2, 0),       \*  7: result += row
    asm_cmd(SUB, 3, 3, 1, 1),       \*  8: column -= 1
    asm_cmd(JEQ, 0, 0, 0, 6),       \*  9: goto mult
    asm_cmd(ST,  0, 4, 5, 0),       \* 10: store: MEM[ptr] = result
    asm_cmd(SUB, 5, 5, 1, 1),       \* 11: ptr -= 1
    asm_cmd(SUB, 6, 6, 1, 1),       \* 12: saved_column -= 1
    asm_cmd(JNE, 0, 6, 0, 16),      \* 13: if saved_column # 0 goto restore
    asm_cmd(ADD, 6, 0, 1, n),       \* 14: saved_column = n
    asm_cmd(SUB, 2, 2, 1, 1),       \* 15: row -= 1
    asm_cmd(ADD, 3, 6, 0, 0),       \* 16: restore: column = saved_column
    asm_cmd(JEQ, 0, 0, 0, 4),       \* 17: goto loop
    asm_cmd(HLT, 0, 0, 0, 0) >>     \* 18: halt

\* DMA of len words from src to dst, while a loop copies n words of the same
\* block to "copy"; then wait for the DMA.
DmaProgram(src, dst, copy, n, len) == <<
    asm_cmd(ADD, 2, 1, 0, src),     \*  0: R2 = src
    asm_cmd(ADD, 3, 1, 0, dst),     \*  1: R3 = dst
    asm_cmd(ADD, 4, 1, 0, copy),    \*  2: R4 = copy
    asm_cmd(ADD, 6, 1, 0, n),       \*  3: R6 = n
    asm_cmd(DMA, 3, 2, 1, len),     \*  4: DMA from src to dst
    asm_cmd(LD,  5, 0, 2, 0),       \*  5: R5 = MEM[R2]
    asm_cmd(ST,  0, 5, 4, 0),       \*  6: MEM[R4] = R5
    asm_cmd(ADD, 2, 2, 1, 1),       \*  7: R2 += 1
    asm_cmd(ADD, 4, 4, 1, 1),       \*  8: R4 += 1
    asm_cmd(SUB, 6, 6, 1, 1),       \*  9: R6 -= 1
    asm_cmd(JLT, 0, 0, 6, 5),       \* 10: if 0 < R6 goto 5
    asm_cmd(DMP, 0, 0, 0, 13),      \* 11: jump to 13 if the DMA is over
    asm_cmd(JIN, 0, 0, 0, 11),      \* 12: goto DMP
    asm_cmd(HLT, 0, 0, 0, 0) >>     \* 13: halt
=============================================================================
