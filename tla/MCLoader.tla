------------------------------ MODULE MCLoader ------------------------------
(***************************************************************************)
(* Small files for the loaders: words of two bits and a memory of three.   *)
(***************************************************************************)
EXTENDS Loader

\* A file of every assembler memory, written up to every address.
AsmTexts == { AsmFile(asm, n) : asm \in AsmMemories, n \in 0 .. Height }

\* Files with white space, with lines that are no number, and with more lines
\* than the memory has words; one word of each sign.
MCLine ==
    {WordLine({0}), WordLine({1}), [kind |-> "blank", word |-> {}],
     [kind |-> "bad", word |-> {}]}

MCTexts == AsmTexts \cup UNION { [1 .. n -> MCLine] : n \in 0 .. 5 }
=============================================================================
