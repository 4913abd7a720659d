---------------------------- MODULE LoaderProofs ----------------------------
(***************************************************************************)
(* What injection leaves in a memory, for every width of a word and every  *)
(* size of the memory.  The helpers of llsim.h are sets of places here, so *)
(* that no induction over bits is needed.                                  *)
(***************************************************************************)
EXTENDS Loader, TLAPS

-----------------------------------------------------------------------------
(***************************************************************************)
(* The helpers.                                                            *)
(***************************************************************************)

(* The masks of llsim.h name the field they are meant to name.             *)
LEMMA Masks ==
    ASSUME NEW msb \in Places, NEW lsb \in 0 .. msb
    PROVE  bitmask(msb, lsb) = lsb .. msb /\ lbitmask(msb, lsb) = lsb .. msb
  BY WidthAssumption DEF Places, bitmask, lbitmask, bitmask0, lbitmask0, Shl

LEMMA ShlNothing ==
    ASSUME NEW data \in CInt
    PROVE  Shl(data, 0, Width) = data
  <1>1. data \subseteq 0 .. Width - 1
    BY DEF CInt, Places
  <1>2. \A b \in 0 .. Width - 1 : b - 0 = b
    OBVIOUS
  <1> QED BY <1>1, <1>2 DEF Shl

(* rbs and sbs agree about every field of an int: what was put into a field*)
(* is read from it (llsim_mem_set_datain, llsim_mem_extract_dataout).      *)
THEOREM FieldReadsBack ==
    ASSUME NEW val \in CInt, NEW data \in CInt,
           NEW msb \in Places, NEW lsb \in 0 .. msb
    PROVE  sbs(rbs(val, data, msb, lsb), msb, lsb) = data \cap (0 .. msb - lsb)
  <1> DEFINE w == rbs(val, data, msb, lsb)
  <1>1. \A b \in 0 .. msb - lsb : b + lsb \in w <=> b \in data
    BY Masks, WidthAssumption DEF rbs, Shl, CInt, Places
  <1>2. CASE msb = Width - 1 /\ lsb = 0
    <2>1. bitmask(msb, lsb) = Places
      BY <1>2, Masks DEF Places
    <2>2. data \cap Places = data /\ val \ Places = {}
      BY DEF CInt
    <2>3. w = data
      BY <1>2, <2>1, <2>2, ShlNothing DEF rbs
    <2>4. sbs(w, msb, lsb) = w
      BY <1>2 DEF sbs
    <2>5. 0 .. msb - lsb = Places
      BY <1>2, WidthAssumption DEF Places
    <2> QED BY <2>2, <2>3, <2>4, <2>5
  <1>3. CASE ~(msb = Width - 1 /\ lsb = 0)
    <2>1. sbs(w, msb, lsb) = { b \in 0 .. msb - lsb : b + lsb \in w }
      BY <1>3, WidthAssumption DEF sbs, Shr, bitmask0, Places
    <2> QED BY <1>1, <2>1, WidthAssumption DEF CInt, Places
  <1> QED BY <1>2, <1>3

(* lrbs leaves the bits of an i64 outside the field alone, provided that   *)
(* the field does not hold the sign bit of an int or the data lack it.     *)
THEOREM LongFieldIsExact ==
    ASSUME NEW val \in CLong, NEW data \in CInt,
           NEW msb \in Places, NEW lsb \in 0 .. msb,
           msb < Width - 1 \/ Width - 1 - lsb \notin data
    PROVE  lrbs(val, data, msb, lsb) \ (lsb .. msb) = val \ (lsb .. msb)
  <1> DEFINE new == Shl(data, lsb, Width) \cap bitmask(msb, lsb)
  <1>1. new \subseteq lsb .. msb
    BY Masks
  <1>2. Width - 1 \notin new
    BY <1>1, WidthAssumption DEF Shl, Places
  <1> QED BY <1>1, <1>2, Masks DEF lrbs, Extend

(* A whole word: the data in the lower half, and in the upper half, if they*)
(* are negative, ones instead of what was there.                           *)
LEMMA WholeWord ==
    ASSUME NEW val \in CLong, NEW data \in CInt
    PROVE  lrbs(val, data, Width - 1, 0) =
             data \cup IF Negative(data) THEN Width .. 2 * Width - 1
                                         ELSE val \ Places
  <1>1. lbitmask(Width - 1, 0) = Places /\ bitmask(Width - 1, 0) = Places
    BY Masks, WidthAssumption DEF Places
  <1>2. Shl(data, 0, Width) = data
    BY ShlNothing
  <1>3. data \cap Places = data
    BY DEF CInt
  <1>4. val \ Places \subseteq Width .. 2 * Width - 1
    BY WidthAssumption DEF CLong, LongPlaces, Places
  <1> QED BY <1>1, <1>2, <1>3, <1>4 DEF lrbs, Extend, Negative

LEMMA LongAtType ==
    ASSUME TypeOK, NEW a \in Index
    PROVE  /\ LongAt(a) \in CLong
           /\ LongAt(a) \ Places = { b \in Width .. 2 * Width - 1 : b - Width \in mem[a + 1] }
  <1>1. mem[a] \subseteq Places
    BY HeightAssumption DEF TypeOK, Index, CInt
  <1> QED BY <1>1, WidthAssumption DEF LongAt, CLong, LongPlaces, Places

(* What an injection does to the memory.                                   *)
LEMMA InjectsOne ==
    ASSUME TypeOK, NEW a \in Index, NEW val \in CInt, llsim_mem_inject(a, val)
    PROVE  mem' = [mem EXCEPT ![a] = val,
                              ![a + 1] = IF Negative(val) THEN Places ELSE mem[a + 1]]
  <1> DEFINE long == lrbs(LongAt(a), val, Width - 1, 0)
             rest == { b \in Width .. 2 * Width - 1 : b - Width \in mem[a + 1] }
  <1>1. mem[a + 1] \subseteq Places
    BY HeightAssumption DEF TypeOK, Index, CInt
  <1>2. long = val \cup IF Negative(val) THEN Width .. 2 * Width - 1 ELSE rest
    BY LongAtType, WholeWord
  <1>3. val \subseteq Places
    BY DEF CInt
  <1>4. long \cap Places = val
    <2>1. \A b \in Places : b \notin rest /\ b \notin Width .. 2 * Width - 1
      BY WidthAssumption DEF Places
    <2>2. CASE Negative(val)
      BY <2>1, <2>2, <1>2, <1>3
    <2>3. CASE ~Negative(val)
      BY <2>1, <2>3, <1>2, <1>3
    <2> QED BY <2>2, <2>3
  <1>5. { b \in Places : b + Width \in long } =
            IF Negative(val) THEN Places ELSE mem[a + 1]
    <2>1. CASE Negative(val)
      BY <2>1, <1>2, WidthAssumption DEF Places
    <2>2. CASE ~Negative(val)
      <3>1. \A b \in Places : b + Width \in long <=> b \in mem[a + 1]
        BY <2>2, <1>2, <1>3, WidthAssumption DEF Places
      <3> QED BY <2>2, <3>1, <1>1
    <2> QED BY <2>1, <2>2
  <1> QED BY <1>4, <1>5 DEF llsim_mem_inject

-----------------------------------------------------------------------------
(***************************************************************************)
(* The loaders.                                                            *)
(***************************************************************************)

\* The invariant: each step of the loader knows how far it has come.
Inv ==
    /\ TypeOK
    /\ step = "scan" => i = 0 /\ addr < Height
    /\ step = "inject" => i < addr
    /\ MemoryIsImage

LEMMA InitInv == Init => Inv
  <1> SUFFICES ASSUME Init PROVE Inv
    OBVIOUS
  <1>1. text \in Seq(Line)
    BY TextsAssumption DEF Init
  <1>2. TypeOK
    BY <1>1, HeightAssumption DEF Init, TypeOK, Index, CInt
  <1>3. mem = Injected(0)
    BY HeightAssumption DEF Init, Injected
  <1> QED BY <1>2, <1>3, HeightAssumption DEF Init, Inv, MemoryIsImage

\* What the typing says about the places in the file and in the memory.
LEMMA Typing ==
    ASSUME TypeOK
    PROVE  /\ Len(text) \in Nat /\ \A k \in 1 .. Len(text) : text[k] \in Line
           /\ pos \in 1 .. Len(text) + 1
           /\ addr \in 0 .. Height /\ i \in 0 .. addr
           /\ memIndex \in 0 .. Len(text) /\ memIndex <= Height
           /\ image \in [Index -> CInt] /\ imem \in [Index -> CInt]
  BY DEF TypeOK

LEMMA ScanInv == Inv /\ (ScanWord \/ ScanNothing) => Inv'
  <1> SUFFICES ASSUME Inv, ScanWord \/ ScanNothing PROVE Inv'
    OBVIOUS
  <1>1. step = "scan" /\ Scanned
    BY DEF ScanWord, ScanNothing
  <1>2. i = 0 /\ addr < Height /\ addr \in Index
    <2>1. TypeOK /\ i = 0 /\ addr < Height
      BY <1>1 DEF Inv
    <2> QED BY <2>1, Typing, HeightAssumption DEF Index
  <1>3. image' \in [Index -> CInt] /\ pos' \in 1 .. Len(text) + 1
    <2>1. CASE ScanWord
      <3>1. PICK w \in pos .. Len(text) :
                /\ image' = [image EXCEPT ![addr] = text[w].word]
                /\ pos' \in w + 1 .. Len(text) + 1
        BY <2>1 DEF ScanWord
      <3>2. TypeOK
        BY DEF Inv
      <3>3. w \in 1 .. Len(text) /\ text[w].word \in CInt
        BY <3>2, Typing DEF Line
      <3>4. pos' \in 1 .. Len(text) + 1
        BY <3>1, <3>2, <3>3, Typing
      <3> QED BY <3>1, <3>2, <3>3, <3>4, Typing
    <2>2. CASE ScanNothing
      BY <2>2 DEF ScanNothing, Inv, TypeOK
    <2> QED BY <2>1, <2>2
  <1>4. addr' = addr + 1 /\ addr' \in 1 .. Height
    BY <1>1, <1>2, HeightAssumption DEF Scanned, Index
  <1>5. \/ step' = "inject"
        \/ step' = "scan" /\ addr' < Height
    BY <1>1, <1>4, HeightAssumption DEF Scanned
  <1>6. UNCHANGED <<text, i, mem, memIndex, imem, istep, kept>>
    BY <1>1 DEF Scanned
  <1>7. TypeOK'
    BY <1>2, <1>3, <1>4, <1>5, <1>6 DEF Inv, TypeOK
  <1>8. MemoryIsImage'
    BY <1>2, <1>6 DEF Inv, MemoryIsImage, Injected
  <1> QED BY <1>2, <1>4, <1>5, <1>6, <1>7, <1>8 DEF Inv

LEMMA InjectInv == Inv /\ Inject => Inv'
  <1> SUFFICES ASSUME Inv, Inject PROVE Inv'
    OBVIOUS
  <1>1. TypeOK /\ i \in Index /\ i < addr /\ image[i] \in CInt
    <2>1. TypeOK /\ i < addr
      BY DEF Inv, Inject
    <2>2. i \in Index
      BY <2>1, Typing, HeightAssumption DEF Index
    <2> QED BY <2>1, <2>2, Typing
  <1>2. mem' = [mem EXCEPT ![i] = image[i],
                           ![i + 1] = IF Negative(image[i]) THEN Places ELSE mem[i + 1]]
    BY <1>1, InjectsOne DEF Inject
  <1>3. mem = Injected(i) /\ mem[i + 1] = {}
    BY <1>1, HeightAssumption DEF Inv, MemoryIsImage, Injected, Index
  <1>4. i' = i + 1 /\ image' = image /\ addr' = addr
    BY DEF Inject
  <1>5. \A a \in 0 .. Height : mem'[a] = Injected(i + 1)[a]
    <2> SUFFICES ASSUME NEW a \in 0 .. Height
                 PROVE  mem'[a] = Injected(i + 1)[a]
      OBVIOUS
    <2>1. mem[a] = IF a < i THEN image[a]
                   ELSE IF a = i /\ i > 0 /\ Negative(image[i - 1]) THEN Places ELSE {}
      BY <1>3 DEF Injected
    <2>2. CASE a < i
      BY <2>2, <2>1, <1>1, <1>2 DEF Injected, Index, TypeOK
    <2>3. CASE a = i
      BY <2>3, <1>1, <1>2 DEF Injected, Index, TypeOK
    <2>4. CASE a = i + 1
      BY <2>4, <1>1, <1>2, <1>3 DEF Injected, Index, TypeOK
    <2>5. CASE a > i + 1
      <3>1. mem'[a] = mem[a]
        BY <2>5, <1>1, <1>2 DEF Index, TypeOK
      <3>2. ~(a < i) /\ a # i /\ ~(a < i + 1) /\ a # i + 1
        BY <2>5, <1>1 DEF Index
      <3> QED BY <3>1, <3>2, <2>1 DEF Injected
    <2> QED BY <2>2, <2>3, <2>4, <2>5, <1>1 DEF Index
  <1>6. mem' \in [0 .. Height -> CInt]
    BY <1>1, <1>2, HeightAssumption DEF TypeOK, CInt, Index
  <1>7. mem' = Injected(i + 1)
    BY <1>5, <1>6 DEF Injected
  <1>8. MemoryIsImage'
    BY <1>7, <1>4 DEF MemoryIsImage, Injected
  <1>9. step' \in {"inject", "loaded"} /\ (step' = "inject" => i' < addr')
    BY <1>1, <1>4 DEF Inject, TypeOK, Index
  <1>10. TypeOK'
    BY <1>1, <1>4, <1>6, <1>9 DEF Inject, TypeOK, Index
  <1> QED BY <1>8, <1>9, <1>10 DEF Inv

LEMMA IssInv == Inv /\ IssNext => Inv'
  <1> SUFFICES ASSUME Inv, IssNext PROVE Inv'
    OBVIOUS
  <1>1. UNCHANGED <<text, pos, addr, image, i, mem, step, kept>>
    BY DEF IssNext, IssLine, IssOverrun, IssRefuses, IssLoaded, IssStep
  <1>2. MemoryIsImage'
    BY <1>1 DEF Inv, MemoryIsImage, Injected
  <1>3. TypeOK'
    <2>1. CASE IssLine
      <3>1. text[memIndex + 1] \in Line /\ memIndex \in Index
        <4>1. TypeOK /\ memIndex < Len(text) /\ memIndex < Height
          BY <2>1 DEF IssLine, Inv
        <4> QED BY <4>1, Typing, HeightAssumption DEF Index
      <3>2. imem' \in [Index -> CInt]
        BY <2>1, <3>1 DEF IssLine, Inv, TypeOK, Line
      <3> QED BY <2>1, <1>1, <3>2, HeightAssumption DEF IssLine, Inv, TypeOK
    <2>2. CASE IssOverrun \/ IssRefuses \/ IssLoaded
      BY <2>2, <1>1 DEF IssOverrun, IssRefuses, IssLoaded, Inv, TypeOK
    <2> QED BY <2>1, <2>2 DEF IssNext
  <1> QED BY <1>1, <1>2, <1>3 DEF Inv

LEMMA ReloadInv == Inv /\ Reload => Inv'
  <1> SUFFICES ASSUME Inv, Reload PROVE Inv'
    OBVIOUS
  <1>1. \A a : llsim_mem_extract(a) \in CInt
    BY DEF llsim_mem_extract, CInt
  <1>2. text' \in Seq(Line) /\ Len(text') = Height
    BY <1>1, HeightAssumption DEF Reload, dump_sram, WordLine, Line
  <1>3. kept' \in [Index -> CInt]
    BY HeightAssumption DEF Reload, Inv, TypeOK, Index
  <1>4. TypeOK'
    BY <1>2, <1>3, HeightAssumption DEF Reload, TypeOK, CInt
  <1>5. MemoryIsImage'
    BY HeightAssumption DEF Reload, MemoryIsImage, Injected
  <1> QED BY <1>4, <1>5, HeightAssumption DEF Reload, Inv

(* The loaders' types and the progress of the injection, for every file.   *)
THEOREM LoaderInvariant == Spec => []Inv
  <1>1. Inv /\ [Next]_vars => Inv'
    <2> SUFFICES ASSUME Inv, [Next]_vars PROVE Inv'
      OBVIOUS
    <2>1. CASE Next
      BY <2>1, ScanInv, InjectInv, IssInv, ReloadInv DEF Next, LoadNext
    <2>2. CASE UNCHANGED vars
      BY <2>2 DEF vars, Inv, TypeOK, MemoryIsImage, Injected
    <2> QED BY <2>1, <2>2
  <1> QED BY <1>1, InitInv, PTL DEF Spec

(* After every injection the memory holds the image so far, and no bit of  *)
(* it beyond the word behind: the eight bytes that llsim_mem_inject writes *)
(* spoil only words that are injected next, the last one's neighbour apart.*)
THEOREM MemoryHoldsImage == Spec => []MemoryIsImage
  <1>1. Inv => MemoryIsImage
    BY DEF Inv
  <1> QED BY <1>1, LoaderInvariant, PTL

(* The index of iss.c never passes its memory unnoticed, and all else keeps*)
(* its type.                                                               *)
THEOREM LoaderTypes == Spec => []TypeOK
  <1>1. Inv => TypeOK
    BY DEF Inv
  <1> QED BY <1>1, LoaderInvariant, PTL

-----------------------------------------------------------------------------
(***************************************************************************)
(* Files of words, line by line, as the assembler and HLT write them.  On  *)
(* such a file the two loaders advance one line at a time, and what is in  *)
(* their memories is known in every step.                                  *)
(***************************************************************************)
AllWords == \A k \in 1 .. Len(text) : text[k].kind = "word"

\* The first n lines of a file in a memory that is zero.
FirstLines(file, n) ==
    [a \in Index |-> IF a < n /\ a < Len(file) THEN file[a + 1].word ELSE {}]

\* How far iss.c has come: it read words only, and stops behind the last.
IssInvariant ==
    /\ \A k \in 1 .. memIndex : text[k].kind = "word"
    /\ imem = FirstLines(text, memIndex)
    /\ istep = "loaded" => memIndex = Len(text)
    /\ istep = "error" => ~AllWords
    /\ istep = "overrun" => Len(text) > Height

\* How far the processor's loader has come: one line per turn; a file without
\* lines takes one turn.
LineInv ==
    AllWords =>
        /\ image = FirstLines(text, addr)
        /\ step = "scan" => /\ pos = addr + 1
                            /\ addr < Len(text) \/ addr = 0
        /\ step # "scan" => addr = IF Len(text) = 0 THEN 1
                                   ELSE IF Len(text) > Height THEN Height
                                   ELSE Len(text)

\* A file that was dumped is the dump of the memory kept.
KeptInv == kept # << >> => text = [k \in 1 .. Height |-> WordLine(kept[k - 1])]

LoadedInv == step = "loaded" => i = addr

FileInv == IssInvariant /\ LineInv /\ KeptInv /\ LoadedInv

\* One line more.
LEMMA NextLine ==
    ASSUME NEW file, NEW n \in Index, Len(file) \in Nat, n < Len(file)
    PROVE  FirstLines(file, n + 1) = [FirstLines(file, n) EXCEPT ![n] = file[n + 1].word]
<1> DEFINE now == FirstLines(file, n)
           next == FirstLines(file, n + 1)
<1>1. \A a \in Index : a < n + 1 <=> a < n \/ a = n
  BY HeightAssumption DEF Index
<1>2. next[n] = file[n + 1].word
  BY <1>1 DEF FirstLines
<1>3. \A a \in Index : a # n => next[a] = now[a]
  BY <1>1 DEF FirstLines
<1>4. \A a \in Index : next[a] = [now EXCEPT ![n] = file[n + 1].word][a]
  BY <1>2, <1>3 DEF FirstLines
<1>5. next = [a \in Index |-> next[a]]
  BY DEF FirstLines
<1>6. [now EXCEPT ![n] = file[n + 1].word]
        = [a \in Index |-> [now EXCEPT ![n] = file[n + 1].word][a]]
  BY DEF FirstLines
<1>7. next = [now EXCEPT ![n] = file[n + 1].word]
  <2> HIDE DEF now, next
  <2> QED BY <1>4, <1>5, <1>6
<1> QED BY <1>7

\* A word is dumped as it stands in memory.
LEMMA ExtractsWord ==
    ASSUME TypeOK, NEW a \in Index
    PROVE  llsim_mem_extract(a) = mem[a]
<1>1. mem[a] \subseteq Places
  BY HeightAssumption DEF TypeOK, Index, CInt
<1>2. ~(Width - 1 = 2 * Width - 1)
  BY WidthAssumption
<1>3. lsbs(LongAt(a), Width - 1, 0) = Shr(LongAt(a), 0, 2 * Width) \cap Places
  <2>1. lsbs(LongAt(a), Width - 1, 0)
          = Shr(LongAt(a), 0, 2 * Width) \cap lbitmask0(Width - 1 - 0 + 1)
    BY <1>2 DEF lsbs
  <2>2. Width - 1 - 0 + 1 = Width
    BY WidthAssumption
  <2>3. lbitmask0(Width) = Places
    BY WidthAssumption DEF lbitmask0, Places
  <2> QED BY <2>1, <2>2, <2>3
<1>4. \A b \in Places : b \in lsbs(LongAt(a), Width - 1, 0) <=> b \in LongAt(a)
  BY <1>3, WidthAssumption DEF Shr, Places
<1>5. \A b \in Places : b \in LongAt(a) <=> b \in mem[a]
  BY WidthAssumption DEF LongAt, Places
<1> QED BY <1>1, <1>4, <1>5 DEF llsim_mem_extract

\* No line is read yet.
LEMMA FileInit == Init => FileInv
<1> SUFFICES ASSUME Init PROVE FileInv
  OBVIOUS
<1>1. Len(text) \in Nat
  BY TextsAssumption DEF Init
<1>2. FirstLines(text, 0) = [a \in Index |-> {}]
  BY <1>1, HeightAssumption DEF FirstLines, Index
<1> QED BY <1>1, <1>2 DEF Init, FileInv, IssInvariant, LineInv, KeptInv, LoadedInv

\* What is skipped from p to q > p begins with p.
LEMMA Ahead ==
    ASSUME NEW n \in Nat, NEW p \in 1 .. n + 1, NEW q \in p .. n + 1, q > p
    PROVE  p \in p .. q - 1 /\ p \in 1 .. n
OBVIOUS

\* Of places p < p + 1 < q, the middle one.
LEMMA Between ==
    ASSUME NEW n \in Nat, NEW p \in 1 .. n, NEW q \in p + 1 .. n + 1, q > p + 1
    PROVE  p + 1 \in p + 1 .. q - 1 /\ p + 1 \in 1 .. n
OBVIOUS

\* One turn of the fscanf loop on a file of words.
LEMMA ScanLine ==
    ASSUME Inv, FileInv, ScanWord \/ ScanNothing
    PROVE  FileInv'
<1>1. step = "scan" /\ Scanned /\ addr' = addr + 1
      /\ UNCHANGED <<text, i, mem, memIndex, imem, istep, kept>>
  BY DEF ScanWord, ScanNothing, Scanned
<1>2. TypeOK /\ i = 0 /\ addr < Height /\ addr \in Index
  <2>1. TypeOK /\ i = 0 /\ addr < Height
    BY <1>1 DEF Inv
  <2> QED BY <2>1, Typing, HeightAssumption DEF Index
<1>3. Len(text) \in Nat /\ addr \in Nat /\ image \in [Index -> CInt] /\ Height \in Nat
      /\ pos \in 1 .. Len(text) + 1
  BY <1>2, Typing, HeightAssumption DEF Index
<1>4. IssInvariant' /\ KeptInv'
  BY <1>1 DEF FileInv, IssInvariant, KeptInv, AllWords, FirstLines
<1>5. LineInv'
  <2> SUFFICES ASSUME AllWords PROVE LineInv'
    BY <1>1 DEF LineInv, AllWords
  <2>1. /\ image = FirstLines(text, addr) /\ pos = addr + 1
        /\ addr < Len(text) \/ addr = 0
    BY <1>1 DEF FileInv, LineInv
  <2>2. CASE ScanWord
    <3>1. PICK w \in pos .. Len(text) :
              /\ Skips(pos, w)
              /\ image' = [image EXCEPT ![addr] = text[w].word]
              /\ pos' \in w + 1 .. Len(text) + 1
              /\ Skips(w + 1, pos')
      BY <2>2 DEF ScanWord
    <3>2. w = pos
      <4>1. CASE w > pos
        <5>1. pos \in pos .. w - 1 /\ pos \in 1 .. Len(text)
          <6>1. /\ Len(text) \in Nat /\ pos \in 1 .. Len(text) + 1
                /\ w \in pos .. Len(text) + 1
            BY <1>3
          <6> QED BY <6>1, <4>1, Ahead
        <5>2. text[pos].kind = "blank"
          BY <3>1, <5>1 DEF Skips
        <5> QED BY <5>1, <5>2 DEF AllWords
      <4> QED BY <1>3, <4>1
    <3>3. pos' = w + 1
      <4>1. CASE pos' > w + 1
        <5>1. w + 1 \in w + 1 .. pos' - 1 /\ w + 1 \in 1 .. Len(text)
          <6>1. /\ Len(text) \in Nat /\ w \in 1 .. Len(text)
                /\ pos' \in w + 1 .. Len(text) + 1
            BY <1>3, <3>1
          <6> QED BY <6>1, <4>1, Between
        <5>2. text[w + 1].kind = "blank"
          BY <3>1, <5>1 DEF Skips
        <5> QED BY <5>1, <5>2 DEF AllWords
      <4> QED BY <1>3, <3>1, <4>1
    <3>4. addr < Len(text) /\ pos' = addr + 2
      BY <1>3, <2>1, <3>1, <3>2, <3>3
    <3>5. image' = FirstLines(text, addr + 1)
      <4>1. image' = [image EXCEPT ![addr] = text[addr + 1].word]
        BY <2>1, <3>1, <3>2
      <4> QED BY <1>2, <1>3, <2>1, <3>4, <4>1, NextLine
    <3>6. step' = IF addr + 2 > Len(text) \/ addr + 1 = Height THEN "inject" ELSE "scan"
      BY <1>1, <3>4 DEF Scanned
    <3> QED BY <1>1, <1>2, <1>3, <3>4, <3>5, <3>6 DEF LineInv, FirstLines
  <2>3. CASE ScanNothing
    <3>1. /\ pos' \in pos .. Len(text) + 1 /\ Skips(pos, pos') /\ image' = image
          /\ pos' <= Len(text) => text[pos'].kind = "bad"
      BY <2>3 DEF ScanNothing
    <3>2. pos' = pos
      <4>1. CASE pos' > pos
        <5>1. pos \in pos .. pos' - 1 /\ pos \in 1 .. Len(text)
          <6>1. /\ Len(text) \in Nat /\ pos \in 1 .. Len(text) + 1
                /\ pos' \in pos .. Len(text) + 1
            BY <1>3, <3>1
          <6> QED BY <6>1, <4>1, Ahead
        <5>2. text[pos].kind = "blank"
          BY <3>1, <5>1 DEF Skips
        <5> QED BY <5>1, <5>2 DEF AllWords
      <4> QED BY <1>3, <3>1, <4>1
    <3>3. pos' = Len(text) + 1
      BY <1>3, <3>1, <3>2 DEF AllWords
    <3>4. Len(text) = 0 /\ addr = 0
      BY <1>3, <2>1, <3>2, <3>3
    <3>5. step' = "inject" /\ addr' = 1
      BY <1>1, <1>3, <3>3, <3>4 DEF Scanned
    <3>6. FirstLines(text, 0) = FirstLines(text, 1)
      BY <3>4, HeightAssumption DEF FirstLines, Index
    <3> QED BY <1>1, <2>1, <3>1, <3>4, <3>5, <3>6 DEF LineInv
  <2> QED BY <2>2, <2>3
<1>6. LoadedInv'
  BY <1>1 DEF LoadedInv, Scanned
<1> QED BY <1>4, <1>5, <1>6 DEF FileInv

\* The injection reads no line.
LEMMA InjectLine ==
    ASSUME Inv, FileInv, Inject
    PROVE  FileInv'
<1>1. /\ step = "inject" /\ step' \in {"inject", "loaded"}
      /\ step' = "loaded" => i' = addr'
      /\ UNCHANGED <<text, pos, addr, image, memIndex, imem, istep, kept>>
  BY DEF Inject
<1> QED BY <1>1 DEF FileInv, IssInvariant, LineInv, KeptInv, LoadedInv, AllWords,
    FirstLines

\* One line of iss.c.
LEMMA IssReads ==
    ASSUME Inv, FileInv, IssNext
    PROVE  FileInv'
<1>1. /\ istep = "read" /\ UNCHANGED <<text, pos, addr, image, i, mem, step, kept>>
  BY DEF IssNext, IssLine, IssOverrun, IssRefuses, IssLoaded, IssStep
<1>2. Len(text) \in Nat /\ memIndex \in 0 .. Len(text) /\ imem \in [Index -> CInt]
      /\ memIndex <= Height /\ Height \in Nat
  BY Typing, HeightAssumption DEF Inv
<1>3. LineInv' /\ KeptInv' /\ LoadedInv'
  BY <1>1 DEF FileInv, LineInv, KeptInv, LoadedInv, AllWords, FirstLines
<1>4. CASE IssLine
  <2>1. /\ memIndex < Len(text) /\ memIndex < Height
        /\ text[memIndex + 1].kind = "word"
        /\ imem' = [imem EXCEPT ![memIndex] = text[memIndex + 1].word]
        /\ memIndex' = memIndex + 1 /\ istep' = "read"
    BY <1>1, <1>4 DEF IssLine
  <2>2. \A k \in 1 .. memIndex' : text'[k].kind = "word"
    BY <1>1, <1>2, <2>1 DEF FileInv, IssInvariant
  <2>3. imem' = FirstLines(text, memIndex + 1)
    <3>1. imem = FirstLines(text, memIndex)
      BY DEF FileInv, IssInvariant
    <3>2. memIndex \in Index
      BY <1>2, <2>1 DEF Index
    <3> QED BY <1>2, <2>1, <3>1, <3>2, NextLine
  <2> QED BY <1>1, <1>3, <2>1, <2>2, <2>3 DEF FileInv, IssInvariant, FirstLines
<1>5. CASE IssOverrun \/ IssRefuses \/ IssLoaded
  <2>1. /\ UNCHANGED <<memIndex, imem>>
        /\ istep' = "loaded" => memIndex = Len(text)
        /\ istep' = "overrun" => memIndex = Height /\ memIndex < Len(text)
    BY <1>5 DEF IssOverrun, IssRefuses, IssLoaded
  <2>2. istep' = "error" => ~AllWords
    <3>1. istep' = "error" => memIndex < Len(text) /\ text[memIndex + 1].kind # "word"
      BY <1>5 DEF IssOverrun, IssRefuses, IssLoaded
    <3>2. memIndex < Len(text) => memIndex + 1 \in 1 .. Len(text)
      BY <1>2
    <3> QED BY <3>1, <3>2 DEF AllWords
  <2>3. istep' = "overrun" => Len(text) > Height
    BY <1>2, <2>1
  <2> QED BY <1>1, <1>3, <2>1, <2>2, <2>3 DEF FileInv, IssInvariant, FirstLines, AllWords
<1> QED BY <1>4, <1>5 DEF IssNext

\* A dump is a file of words.
LEMMA ReloadLine ==
    ASSUME Inv, FileInv, Reload
    PROVE  FileInv'
<1>1. \A a \in Index : llsim_mem_extract(a) = mem[a]
  BY ExtractsWord DEF Inv
<1>2. \A k \in 1 .. Height : k - 1 \in Index
  BY HeightAssumption DEF Index
<1>3. text' = [k \in 1 .. Height |-> WordLine(kept'[k - 1])]
  BY <1>1, <1>2 DEF Reload, dump_sram
<1>4. Len(text') = Height /\ Height \in Nat /\ Height > 0
  BY <1>3, HeightAssumption
<1>5. /\ pos' = 1 /\ addr' = 0 /\ image' = [a \in Index |-> {}]
      /\ step' = "scan" /\ memIndex' = 0 /\ imem' = [a \in Index |-> {}]
      /\ istep' = "read"
  BY DEF Reload
<1>6. FirstLines(text', 0) = [a \in Index |-> {}]
  BY HeightAssumption DEF FirstLines, Index
<1>7. IssInvariant'
  BY <1>5, <1>6 DEF IssInvariant
<1>8. LineInv'
  BY <1>4, <1>5, <1>6 DEF LineInv
<1>9. KeptInv' /\ LoadedInv'
  BY <1>3, <1>5 DEF KeptInv, LoadedInv
<1> QED BY <1>7, <1>8, <1>9 DEF FileInv

\* The invariant of the files of words, for every file.
LEMMA FileInvariant == Spec => []FileInv
<1>1. Inv /\ FileInv /\ [Next]_vars => FileInv'
  <2> SUFFICES ASSUME Inv, FileInv, [Next]_vars PROVE FileInv'
    OBVIOUS
  <2>1. CASE Next
    BY <2>1, ScanLine, InjectLine, IssReads, ReloadLine DEF Next, LoadNext
  <2>2. CASE UNCHANGED vars
    BY <2>2 DEF vars, FileInv, IssInvariant, LineInv, KeptInv, LoadedInv, AllWords,
       FirstLines
  <2> QED BY <2>1, <2>2
<1> QED BY <1>1, FileInit, LoaderInvariant, PTL DEF Spec

\* What is in the memory of a processor that has loaded a file of words.
LEMMA MemoryOfFile ==
    ASSUME Inv, FileInv, step = "loaded", AllWords
    PROVE  /\ addr = IF Len(text) = 0 THEN 1
                     ELSE IF Len(text) > Height THEN Height ELSE Len(text)
           /\ \A a \in Index : mem[a] = IF a < addr THEN FirstLines(text, addr)[a]
                ELSE IF a = addr /\ Negative(FirstLines(text, addr)[a - 1]) THEN Places
                ELSE {}
<1>1. addr = IF Len(text) = 0 THEN 1
             ELSE IF Len(text) > Height THEN Height ELSE Len(text)
  BY DEF FileInv, LineInv
<1>2. image = FirstLines(text, addr) /\ i = addr /\ mem = Injected(addr)
  BY DEF FileInv, LineInv, LoadedInv, Inv, MemoryIsImage
<1>3. Len(text) \in Nat
  BY Typing DEF Inv
<1>4. addr > 0 /\ \A a \in Index : a \in 0 .. Height
  BY <1>1, <1>3, HeightAssumption DEF Index
<1>5. \A a \in Index : mem[a] = IF a < addr THEN image[a]
          ELSE IF a = addr /\ addr > 0 /\ Negative(image[addr - 1]) THEN Places ELSE {}
  BY <1>2, <1>4 DEF Injected
<1> QED BY <1>1, <1>2, <1>4, <1>5

(* A dump is a file that both programs load, and it gives them the memory  *)
(* that was dumped (dump_sram): no word of it is refused or lies behind the*)
(* end of an array, and what the injection of the last word spoils lies    *)
(* outside of the memory.                                                  *)
THEOREM DumpIsReloaded == Spec => []DumpReloads
<1>1. Inv /\ FileInv => DumpReloads
  <2> SUFFICES ASSUME Inv, FileInv, kept # << >>
               PROVE  /\ step = "loaded" => addr = Height /\ [a \in Index |-> mem[a]] = kept
                      /\ istep # "read" => istep = "loaded" /\ imem = kept
    BY DEF DumpReloads
  <2>1. kept \in [Index -> CInt] /\ istep \in {"read", "loaded", "error", "overrun"}
    BY DEF Inv, TypeOK
  <2>2. text = [k \in 1 .. Height |-> WordLine(kept[k - 1])]
    BY DEF FileInv, KeptInv
  <2>3. Len(text) = Height /\ Height \in Nat /\ Height > 0
    BY <2>2, HeightAssumption
  <2>4. AllWords
    BY <2>2, <2>3 DEF AllWords, WordLine
  <2>5. FirstLines(text, Height) = kept
    <3>1. \A a \in Index : a < Height /\ a + 1 \in 1 .. Height /\ a + 1 - 1 = a
      BY <2>3 DEF Index
    <3>2. \A a \in Index : text[a + 1].word = kept[a]
      <4> SUFFICES ASSUME NEW a \in Index PROVE text[a + 1].word = kept[a]
        OBVIOUS
      <4>1. PICK k \in 1 .. Height : k = a + 1 /\ k - 1 = a
        <5>1. \E k \in 1 .. Height : k = a + 1
          BY <3>1
        <5>2. \A k \in 1 .. Height : k = a + 1 => k - 1 = a
          BY <2>3 DEF Index
        <5> QED BY <5>1, <5>2
      <4>2. text[k] = WordLine(kept[k - 1])
        BY <2>2, <4>1
      <4>3. text[k].word = kept[k - 1]
        BY <4>2 DEF WordLine
      <4> QED BY <4>1, <4>3
    <3>3. FirstLines(text, Height) = [a \in Index |-> kept[a]]
      BY <2>3, <3>1, <3>2 DEF FirstLines
    <3> QED BY <2>1, <3>3
  <2>6. step = "loaded" => addr = Height /\ [a \in Index |-> mem[a]] = kept
    <3> SUFFICES ASSUME step = "loaded"
                 PROVE  addr = Height /\ [a \in Index |-> mem[a]] = kept
      OBVIOUS
    <3>1. addr = Height
      BY <2>3, <2>4, MemoryOfFile
    <3>2. \A a \in Index : a < Height
      BY <2>3 DEF Index
    <3>3. \A a \in Index : mem[a] = kept[a]
      BY <2>4, <2>5, <3>1, <3>2, MemoryOfFile
    <3>4. [a \in Index |-> mem[a]] = [a \in Index |-> kept[a]]
      BY <3>3
    <3> QED BY <2>1, <3>1, <3>4
  <2>7. istep # "read" => istep = "loaded" /\ imem = kept
    <3>1. istep # "error" /\ istep # "overrun"
      BY <2>3, <2>4 DEF FileInv, IssInvariant
    <3>2. istep = "loaded" => imem = FirstLines(text, Height)
      BY <2>3 DEF FileInv, IssInvariant
    <3> QED BY <2>1, <2>5, <3>1, <3>2
  <2> QED BY <2>6, <2>7
<1> QED BY <1>1, LoaderInvariant, FileInvariant, PTL

(* What the assembler had in its memory below last_addr is what the        *)
(* processor starts with: sp_generate_sram_memory_image reads back what    *)
(* asm.c writes.                                                           *)
THEOREM AssembledFileLoads == Spec => []AssembledIsLoaded
<1>1. Inv /\ FileInv => AssembledIsLoaded
  <2> SUFFICES ASSUME Inv, FileInv, step = "loaded",
                      NEW asm \in AsmMemories, NEW n \in 0 .. Height,
                      text = AsmFile(asm, n), NEW a \in 0 .. n - 1
               PROVE  mem[a] = asm[a]
    BY DEF AssembledIsLoaded
  <2>1. Len(text) = n /\ \A k \in 1 .. n : text[k] = WordLine(asm[k - 1])
    BY HeightAssumption DEF AsmFile
  <2>2. AllWords
    BY <2>1 DEF AllWords, WordLine
  <2>3. n > 0 /\ n <= Height /\ a < n /\ a + 1 \in 1 .. n /\ a + 1 - 1 = a /\ a \in Index
    BY HeightAssumption DEF Index
  <2>4. addr = n
    BY <2>1, <2>2, <2>3, HeightAssumption, MemoryOfFile
  <2>5. mem[a] = FirstLines(text, n)[a]
    BY <2>2, <2>3, <2>4, MemoryOfFile
  <2>6. text[a + 1].word = asm[a]
    BY <2>1, <2>3 DEF WordLine
  <2> QED BY <2>1, <2>3, <2>5, <2>6 DEF FirstLines
<1> QED BY <1>1, LoaderInvariant, FileInvariant, PTL

(* The two loaders (sp_generate_sram_memory_image, main of iss.c) fill     *)
(* their memories alike from every file that both load, except for the word*)
(* behind the image, which the processors fill with ones if the last word  *)
(* is negative.                                                            *)
THEOREM BothLoadersAgree == Spec => []LoadersAgree
<1>1. Inv /\ FileInv => LoadersAgree
  <2> SUFFICES ASSUME Inv, FileInv, step = "loaded", istep = "loaded"
               PROVE  /\ addr = IF memIndex = 0 THEN 1 ELSE memIndex
                      /\ \A a \in Index :
                            IF a = memIndex /\ a > 0 /\ Negative(imem[a - 1])
                              THEN imem[a] = {} /\ mem[a] = Places
                              ELSE imem[a] = mem[a]
    BY DEF LoadersAgree
  <2>1. /\ memIndex = Len(text) /\ imem = FirstLines(text, memIndex) /\ AllWords
    BY DEF FileInv, IssInvariant, AllWords
  <2>2. memIndex \in Nat /\ memIndex <= Height /\ Height \in Nat
    BY <2>1, Typing, HeightAssumption DEF Inv
  <2>3. addr = IF memIndex = 0 THEN 1 ELSE memIndex
    BY <2>1, <2>2, MemoryOfFile
  <2>4. \A a \in Index : mem[a] = IF a < addr THEN FirstLines(text, addr)[a]
                ELSE IF a = addr /\ Negative(FirstLines(text, addr)[a - 1]) THEN Places
                ELSE {}
    BY <2>1, MemoryOfFile
  <2>5. ASSUME NEW a \in Index
        PROVE  IF a = memIndex /\ a > 0 /\ Negative(imem[a - 1])
                 THEN imem[a] = {} /\ mem[a] = Places
                 ELSE imem[a] = mem[a]
    <3>1. a \in Nat /\ (a >= memIndex => imem[a] = {})
      BY <2>1, <2>2 DEF FirstLines, Index
    <3>2. CASE memIndex = 0
      <4>1. addr = 1 /\ 0 \in Index
        BY <2>3, <3>2, HeightAssumption DEF Index
      <4>2. \A b \in Index : FirstLines(text, addr)[b] = {}
        BY <2>1, <2>2, <3>2 DEF FirstLines, Index
      <4>3. mem[a] = {}
        <5>1. a = addr => a - 1 = 0
          BY <4>1
        <5>2. ~Negative({})
          BY DEF Negative
        <5> QED BY <2>4, <4>1, <4>2, <5>1, <5>2
      <4> QED BY <3>1, <3>2, <4>3
    <3>3. CASE memIndex > 0
      <4>1. addr = memIndex
        BY <2>2, <2>3, <3>3
      <4>2. a = addr => a > 0
        BY <3>3, <4>1
      <4>3. mem[a] = IF a < memIndex THEN imem[a]
                     ELSE IF a = memIndex /\ Negative(imem[a - 1]) THEN Places ELSE {}
        BY <2>1, <2>4, <4>1
      <4>4. CASE a < memIndex
        BY <4>3, <4>4, <2>2, <3>1
      <4>5. CASE a >= memIndex
        BY <4>1, <4>2, <4>3, <4>5, <2>2, <3>1
      <4> QED BY <4>4, <4>5, <2>2, <3>1
    <3> QED BY <2>2, <3>2, <3>3
  <2> QED BY <2>3, <2>5
<1> QED BY <1>1, LoaderInvariant, FileInvariant, PTL
=============================================================================
