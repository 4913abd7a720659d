------------------------------- MODULE Loader -------------------------------
(***************************************************************************)
(* How a program gets from the assembler's file into a memory, and back    *)
(* into a file: the loader of the two processors                           *)
(* (sp_generate_sram_memory_image), that of the instruction set simulator  *)
(* (main of iss.c), and dump_sram, whose file either can load again.       *)
(*                                                                         *)
(* A file is a sequence of lines: a word, nothing but white space, or      *)
(* something that is no hexadecimal number.  The two loaders read the same *)
(* file, in programs of their own.                                         *)
(***************************************************************************)
EXTENDS LlsimBits, Sequences

CONSTANTS
    Height,    \* SP_SRAM_HEIGHT and MAX_MEMORY_SIZE, 65536
    Texts      \* the files that may be loaded

Line == [kind : {"word", "blank", "bad"}, word : CInt]

ASSUME HeightAssumption == Height \in Nat \ {0}
ASSUME TextsAssumption == Texts \subseteq Seq(Line)

VARIABLES
    text,              \* the file
    pos, addr, image,  \* next line, words counted, memory_image
    i, mem,            \* next word to inject; the array and the word behind it
    step,              \* where sp_generate_sram_memory_image is
    memIndex, imem,    \* lines read by iss.c, and its memory
    istep,             \* where main of iss.c is
    kept               \* the memory that the file was dumped from, if it was

spVars == <<pos, addr, image, i, mem, step>>
issVars == <<memIndex, imem, istep>>
vars == <<text, pos, addr, image, i, mem, step, memIndex, imem, istep, kept>>

Index == 0 .. Height - 1

TypeOK ==
    /\ text \in Seq(Line)
    /\ pos \in 1 .. Len(text) + 1
    /\ addr \in 0 .. Height /\ i \in 0 .. addr
    /\ image \in [Index -> CInt]
    /\ mem \in [0 .. Height -> CInt]
    /\ step \in {"scan", "inject", "loaded"}
    /\ memIndex \in 0 .. Len(text) /\ memIndex <= Height
    /\ imem \in [Index -> CInt]
    /\ istep \in {"read", "loaded", "error", "overrun"}
    /\ kept \in {<< >>} \cup [Index -> CInt]

\* Every program starts with memories that are zero.
Init ==
    /\ text \in Texts
    /\ kept = << >>
    /\ pos = 1 /\ addr = 0 /\ image = [a \in Index |-> {}]
    /\ i = 0 /\ mem = [a \in 0 .. Height |-> {}]
    /\ step = "scan"
    /\ memIndex = 0 /\ imem = [a \in Index |-> {}]
    /\ istep = "read"

-----------------------------------------------------------------------------
(***************************************************************************)
(* Files.                                                                  *)
(***************************************************************************)

\* fprintf("%08x\n")
WordLine(w) == [kind |-> "word", word |-> w]

\* The assembler writes its memory below last_addr.
AsmFile(asm, last_addr) == [k \in 1 .. last_addr |-> WordLine(asm[k - 1])]

\* The eight bytes at a word, of which the upper four are the next word.
LongAt(a) == mem[a] \cup { b \in Width .. 2 * Width - 1 : b - Width \in mem[a + 1] }

llsim_mem_extract(a) == lsbs(LongAt(a), Width - 1, 0) \cap Places

\* Mutant of dump_sram: the first word is left out.
DumpFromOne == [k \in 1 .. Height - 1 |-> WordLine(llsim_mem_extract(k))]

dump_sram == [k \in 1 .. Height |-> WordLine(llsim_mem_extract(k - 1))]

-----------------------------------------------------------------------------
(***************************************************************************)
(* sp_generate_sram_memory_image: fscanf until the end of the file.        *)
(***************************************************************************)

\* White space is skipped from line p to line q.
Skips(p, q) ==
    /\ \A k \in p .. q - 1 : text[k].kind = "blank"
    /\ q <= Len(text) => text[q].kind # "blank"

\* Mutants of Scanned: feof does not end the loop, the height does not.
ScannedToTheEnd ==
    /\ addr' = addr + 1
    /\ step' = IF addr' = Height THEN "inject" ELSE "scan"
    /\ UNCHANGED <<text, i, mem, memIndex, imem, istep, kept>>

ScannedUnbounded ==
    /\ addr' = addr + 1
    /\ step' = IF pos' > Len(text) THEN "inject" ELSE "scan"
    /\ UNCHANGED <<text, i, mem, memIndex, imem, istep, kept>>

\* One turn of the loop, whatever fscanf returns.
Scanned ==
    /\ addr' = addr + 1
    /\ step' = IF pos' > Len(text) \/ addr' = Height THEN "inject" ELSE "scan"
    /\ UNCHANGED <<text, i, mem, memIndex, imem, istep, kept>>

\* White space before the word and behind it is read with it.
ScanWord ==
    /\ step = "scan"
    /\ \E w \in pos .. Len(text) :
        /\ Skips(pos, w) /\ text[w].kind = "word"
        /\ image' = [image EXCEPT ![addr] = text[w].word]
        /\ pos' \in w + 1 .. Len(text) + 1
        /\ Skips(w + 1, pos')
    /\ Scanned

\* Mutant of ScanNothing: what is no number does not count as a word.
ScanNothingAgain ==
    /\ step = "scan"
    /\ pos' \in pos .. Len(text) + 1
    /\ Skips(pos, pos')
    /\ pos' <= Len(text) => text[pos'].kind = "bad"
    /\ step' = IF pos' > Len(text) THEN "inject" ELSE "scan"
    /\ addr' = IF pos' > Len(text) THEN addr + 1 ELSE addr
    /\ UNCHANGED <<text, image, i, mem, memIndex, imem, istep, kept>>

\* No number: nothing is stored, and what is no white space stays unread.
ScanNothing ==
    /\ step = "scan"
    /\ pos' \in pos .. Len(text) + 1
    /\ Skips(pos, pos')
    /\ pos' <= Len(text) => text[pos'].kind = "bad"
    /\ UNCHANGED image
    /\ Scanned

\* generic_inject_bits reads and writes eight bytes.
llsim_mem_inject(a, val) ==
    LET long == lrbs(LongAt(a), val, Width - 1, 0)
    IN  mem' = [mem EXCEPT ![a] = long \cap Places,
                           ![a + 1] = { b \in Places : b + Width \in long }]

\* Mutant of Inject: the words are injected from the last to the first.
InjectDownwards ==
    /\ step = "inject"
    /\ llsim_mem_inject(addr - 1 - i, image[addr - 1 - i])
    /\ i' = i + 1
    /\ step' = IF i' = addr THEN "loaded" ELSE "inject"
    /\ UNCHANGED <<text, pos, addr, image, memIndex, imem, istep, kept>>

Inject ==
    /\ step = "inject"
    /\ llsim_mem_inject(i, image[i])
    /\ i' = i + 1
    /\ step' = IF i' = addr THEN "loaded" ELSE "inject"
    /\ UNCHANGED <<text, pos, addr, image, memIndex, imem, istep, kept>>

-----------------------------------------------------------------------------
(***************************************************************************)
(* main of iss.c: fgets and sscanf, line by line.                          *)
(***************************************************************************)
IssStep ==
    /\ istep = "read"
    /\ UNCHANGED <<text, pos, addr, image, i, mem, step, kept>>

IssLine ==
    /\ IssStep
    /\ memIndex < Len(text) /\ memIndex < Height
    /\ text[memIndex + 1].kind = "word"
    /\ imem' = [imem EXCEPT ![memIndex] = text[memIndex + 1].word]
    /\ memIndex' = memIndex + 1
    /\ UNCHANGED istep

\* Nothing bounds the index: a line too many is stored behind the array.
IssOverrun ==
    /\ IssStep
    /\ memIndex < Len(text) /\ memIndex = Height
    /\ text[memIndex + 1].kind = "word"
    /\ istep' = "overrun"
    /\ UNCHANGED <<memIndex, imem>>

\* Mutant of IssRefuses: a line of white space is taken for the end.
IssRefusesBad ==
    /\ IssStep
    /\ memIndex < Len(text) /\ text[memIndex + 1].kind # "word"
    /\ istep' = IF text[memIndex + 1].kind = "bad" THEN "error" ELSE "loaded"
    /\ UNCHANGED <<memIndex, imem>>

IssRefuses ==
    /\ IssStep
    /\ memIndex < Len(text) /\ text[memIndex + 1].kind # "word"
    /\ istep' = "error"
    /\ UNCHANGED <<memIndex, imem>>

IssLoaded ==
    /\ IssStep
    /\ memIndex = Len(text)
    /\ istep' = "loaded"
    /\ UNCHANGED <<memIndex, imem>>

-----------------------------------------------------------------------------
\* The memory is dumped as it was loaded, and both programs, started again,
\* load the dump.
Reload ==
    /\ step = "loaded" /\ istep # "read"
    /\ text' = dump_sram
    /\ kept' = [a \in Index |-> mem[a]]
    /\ pos' = 1 /\ addr' = 0 /\ image' = [a \in Index |-> {}]
    /\ i' = 0 /\ mem' = [a \in 0 .. Height |-> {}]
    /\ step' = "scan"
    /\ memIndex' = 0 /\ imem' = [a \in Index |-> {}]
    /\ istep' = "read"

LoadNext == ScanWord \/ ScanNothing \/ Inject

IssNext == IssLine \/ IssOverrun \/ IssRefuses \/ IssLoaded

Next == LoadNext \/ IssNext \/ Reload

Spec == Init /\ [][Next]_vars

\* Both programs run; nobody has to load a dump.
FairSpec == Spec /\ WF_vars(LoadNext) /\ WF_vars(IssNext)

-----------------------------------------------------------------------------
(***************************************************************************)
(* Properties.                                                             *)
(***************************************************************************)

Negative(w) == Width - 1 \in w

\* The words of a text, up to the first line that is none.
Words ==
    LET bad == { k \in 1 .. Len(text) : text[k].kind = "bad" }
        good == { n \in 0 .. Len(text) : \A k \in bad : n < k }
    IN  SelectSeq(SubSeq(text, 1, CHOOSE n \in good : \A m \in good : m <= n),
                  LAMBDA line : line.kind = "word")

(* Whatever white space stands between them, and whatever follows them, the*)
(* words of a file end up in its image in their order, those past the      *)
(* memory left out and the rest zero.  A file without words counts as one  *)
(* word, and a line that is no number is read again until the image is     *)
(* full.                                                                   *)
ImageIsText ==
    step # "scan" =>
        /\ image = [a \in Index |->
                      IF a < Len(Words) THEN Words[a + 1].word ELSE {}]
        /\ addr = IF \E k \in 1 .. Len(text) : text[k].kind = "bad" THEN Height
                  ELSE IF Len(Words) > Height THEN Height
                  ELSE IF Words = << >> THEN 1 ELSE Len(Words)

\* A memory into which the first n words of the image have been injected: the
\* last of them, if negative, has filled the word behind it with ones.
Injected(n) ==
    [a \in 0 .. Height |->
        IF a < n THEN image[a]
        ELSE IF a = n /\ n > 0 /\ Negative(image[n - 1]) THEN Places ELSE {}]

(* Each injection spoils the word behind it and each spoiled word is       *)
(* injected next, so that the memory holds the image, whose bits reach no  *)
(* further than one word past its end.                                     *)
MemoryIsImage == mem = Injected(i)

\* A file of every assembler memory.
AsmMemories == [Index -> CInt]

(* What the assembler had in its memory below last_addr is what the        *)
(* processor starts with.                                                  *)
AssembledIsLoaded ==
    step = "loaded" =>
        \A asm \in AsmMemories, n \in 0 .. Height :
            text = AsmFile(asm, n) => \A a \in 0 .. n - 1 : mem[a] = asm[a]

(* The two loaders fill their memories alike from every file that both     *)
(* load, except for the word behind the image: zero for the instruction set*)
(* simulator, and ones for the processors if the last word is negative.    *)
LoadersAgree ==
    step = "loaded" /\ istep = "loaded" =>
        /\ addr = IF memIndex = 0 THEN 1 ELSE memIndex
        /\ \A a \in Index :
              IF a = memIndex /\ a > 0 /\ Negative(imem[a - 1])
                THEN imem[a] = {} /\ mem[a] = Places
                ELSE imem[a] = mem[a]

(* A dump is a file that both programs load, and it gives them the memory  *)
(* that was dumped.                                                        *)
DumpReloads ==
    kept # << >> =>
        /\ step = "loaded" => addr = Height /\ [a \in Index |-> mem[a]] = kept
        /\ istep # "read" => istep = "loaded" /\ imem = kept

(* Loading ends for every file, one that fscanf cannot read included.      *)
Loads ==
    /\ step = "scan" ~> step = "loaded"
    /\ istep = "read" ~> istep # "read"
=============================================================================
