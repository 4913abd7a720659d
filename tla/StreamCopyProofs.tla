-------------------------- MODULE StreamCopyProofs --------------------------
(***************************************************************************)
(* The ordered stream of StreamCopy implements the block copy of BlockCopy *)
(* for a program that keeps clear of the words in flight.                  *)
(***************************************************************************)
EXTENDS StreamCopy, SequenceTheorems, TLAPS

(***************************************************************************)
(* The inductive invariant.  The words of the buffer are still those of    *)
(* memory, because the program does not store to their sources and the copy*)
(* itself never writes the source of the word that stays behind: it would  *)
(* have to write right behind the oldest word.                             *)
(***************************************************************************)
Buffer == { << >> } \cup { <<a>> : a \in Word } \cup { <<a, b>> : a, b \in Word }

Typed ==
    /\ mem \in [Addr -> Word]
    /\ job \in Job
    /\ buf \in Buffer
    /\ Len(buf) <= job.todo
    /\ job.todo = 0 => job = NoJob

Apart == Disciplined /\ job.todo > 0 => job.to # Inc(Oldest)

Staged ==
    Disciplined =>
      /\ Len(buf) = 1 => buf[1] = mem[Dec(job.from)]
      /\ Len(buf) = 2 => /\ buf[1] = mem[Dec(Dec(job.from))]
                         /\ buf[2] = mem[Dec(job.from)]

StreamInv == Typed /\ Apart /\ Staged

(***************************************************************************)
(* Increment and decrement of addresses undo each other.                   *)
(***************************************************************************)
LEMMA Neighbours ==
    ASSUME NEW a \in Addr
    PROVE  /\ Inc(a) \in Addr /\ Dec(a) \in Addr
           /\ Dec(Inc(a)) = a /\ Inc(Dec(a)) = a
           /\ Dec(a) # a /\ Inc(a) # a
           /\ \A b \in Addr : Inc(a) = Inc(b) => a = b
BY HeightAssumption DEF Addr, Inc, Dec

(***************************************************************************)
(* A buffer is empty, or holds one or two words, which come and go in      *)
(* order.                                                                  *)
(***************************************************************************)
LEMMA OneWord ==
    ASSUME NEW a
    PROVE  /\ Len(<<a>>) = 1 /\ <<a>> # << >> /\ <<a>>[1] = a
           /\ Head(<<a>>) = a /\ Tail(<<a>>) = << >>
           /\ Append(<< >>, a) = <<a>> /\ Len(<< >>) = 0
<1>1. Tail(<<a>>) = << >>
  OBVIOUS
<1>2. Append(<< >>, a) = <<a>>
  OBVIOUS
<1> QED BY <1>1, <1>2

\* Two words.
LEMMA TwoWords ==
    ASSUME NEW a, NEW b
    PROVE  /\ Len(<<a, b>>) = 2 /\ <<a, b>> # << >>
           /\ <<a, b>>[1] = a /\ <<a, b>>[2] = b
           /\ Head(<<a, b>>) = a /\ Tail(<<a, b>>) = <<b>>
<1>1. Tail(<<a, b>>) = <<b>>
  OBVIOUS
<1> QED BY <1>1

\* A second word joins the first.
LEMMA AppendSecond ==
    ASSUME NEW a \in Word, NEW b \in Word
    PROVE  Append(<<a>>, b) = <<a, b>>
<1> DEFINE s == Append(<<a>>, b)
<1>1. <<a>> \in Seq(Word) /\ Len(<<a>>) = 1 /\ <<a>>[1] = a
  OBVIOUS
<1>2. s \in Seq(Word) /\ Len(s) = 2 /\ s[1] = a /\ s[2] = b
  BY <1>1
<1>3. <<a, b>> \in Seq(Word)
  OBVIOUS
<1>4. \A i \in 1 .. 2 : s[i] = <<a, b>>[i]
  BY <1>2, TwoWords
<1> HIDE DEF s
<1>5. s = <<a, b>>
  BY <1>2, <1>3, <1>4, TwoWords, SeqEqual
<1> QED BY <1>5 DEF s

-----------------------------------------------------------------------------
(***************************************************************************)
(* StreamInv is inductive: one step per action.                            *)
(***************************************************************************)
LEMMA StoreKeepsInv ==
    ASSUME StreamInv, NEW a \in Addr, Store(a)
    PROVE  StreamInv'
<1>1. Typed'
  BY DEF StreamInv, Typed, Store
<1>2. Apart'
  BY DEF StreamInv, Apart, Oldest, Store
<1>3. Staged'
  <2>1. SUFFICES ASSUME Disciplined PROVE Staged'
    BY DEF Staged
  <2>2. a \notin InFlight /\ job' = job /\ buf' = buf
    BY <2>1 DEF Store
  <2>3. /\ Dec(job.from) \in Addr /\ Dec(Dec(job.from)) \in Addr
    BY Neighbours DEF StreamInv, Typed, Job
  <2>4. CASE Len(buf) = 1
    <3>1. a # Dec(job.from)
      BY <2>2, <2>4, OneWord DEF InFlight
    <3> QED BY <2>1, <2>2, <2>3, <2>4, <3>1 DEF StreamInv, Staged, Store, Typed
  <2>5. CASE Len(buf) = 2
    <3>1. a # Dec(job.from) /\ a # Dec(Dec(job.from))
      BY <2>2, <2>5, OneWord DEF InFlight
    <3> QED BY <2>1, <2>2, <2>3, <2>5, <3>1 DEF StreamInv, Staged, Store, Typed
  <2>6. CASE Len(buf) # 1 /\ Len(buf) # 2
    BY <2>2, <2>6 DEF Staged
  <2> QED BY <2>4, <2>5, <2>6
<1> QED BY <1>1, <1>2, <1>3 DEF StreamInv

\* A request starts with an empty buffer.
LEMMA RequestKeepsInv ==
    ASSUME StreamInv, Request
    PROVE  StreamInv'
<1>1. buf = << >> /\ buf' = << >> /\ mem' = mem /\ job' \in Job /\ job'.todo > 0
  BY OneWord, TwoWords DEF StreamInv, Typed, Request, Buffer
<1>2. Typed'
  BY <1>1, OneWord DEF StreamInv, Typed, Buffer, Job
<1>3. Apart'
  BY <1>1 DEF Apart, Oldest, Request
<1>4. Staged'
  BY <1>1, OneWord DEF Staged
<1> QED BY <1>2, <1>3, <1>4 DEF StreamInv

\* A fetched word equals its source.
LEMMA FetchKeepsInv ==
    ASSUME StreamInv, Fetch
    PROVE  StreamInv' /\ (job.todo > 0 /\ Oldest' = Oldest)
<1>1. /\ mem' = mem /\ job' = [job EXCEPT !.from = Inc(job.from)]
      /\ buf' = Append(buf, mem[job.from])
      /\ job \in Job /\ job.from \in Addr /\ mem[job.from] \in Word
  BY DEF Fetch, StreamInv, Typed, Job
<1>2. /\ job'.from = Inc(job.from) /\ job'.to = job.to /\ job'.todo = job.todo
      /\ job' \in Job /\ Dec(job'.from) = job.from /\ Dec(job.from) \in Addr
  BY <1>1, Neighbours DEF Job
<1>3. CASE buf = << >>
  <2>1. buf' = <<mem[job.from]>> /\ job.todo > 0 /\ Len(buf) = 0
    BY <1>1, <1>3, OneWord DEF Fetch
  <2>2. Typed'
    BY <1>1, <1>2, <2>1, OneWord DEF StreamInv, Typed, Buffer, Job
  <2>3. Oldest' = Oldest
    BY <1>2, <1>3, <2>1, OneWord DEF Oldest
  <2>4. Staged'
    BY <1>1, <1>2, <2>1, OneWord DEF Staged
  <2> QED BY <1>2, <2>1, <2>2, <2>3, <2>4 DEF StreamInv, Apart
<1>4. CASE \E a \in Word : buf = <<a>>
  <2>1. PICK a \in Word : buf = <<a>>
    BY <1>4
  <2>2. buf' = <<a, mem[job.from]>> /\ job.todo > 1 /\ Len(buf) = 1
    BY <1>1, <2>1, OneWord, AppendSecond DEF Fetch
  <2>3. Typed'
    BY <1>1, <1>2, <2>2, TwoWords DEF StreamInv, Typed, Buffer, Job
  <2>4. Oldest' = Oldest
    BY <1>2, <2>1, <2>2, OneWord, TwoWords DEF Oldest
  <2>5. Staged'
    BY <1>1, <1>2, <2>1, <2>2, OneWord, TwoWords DEF Staged, StreamInv
  <2>6. job.todo > 0
    BY <1>1, <2>2 DEF Job
  <2> QED BY <1>2, <2>3, <2>4, <2>5, <2>6 DEF StreamInv, Apart
<1>5. CASE \E a, b \in Word : buf = <<a, b>>
  BY <1>5, TwoWords DEF Fetch
<1> QED BY <1>3, <1>4, <1>5 DEF StreamInv, Typed, Buffer

\* A word that is written still equals its source, and the write does
\* not touch the sources of the others.
LEMMA WriteKeepsInv ==
    ASSUME StreamInv, Write
    PROVE  /\ StreamInv'
           /\ Disciplined => Head(buf) = mem[Oldest]
           /\ job.todo > 1 => Oldest' = Inc(Oldest)
           /\ job.todo > 0 /\ Head(buf) \in Word /\ Oldest \in Addr
<1>1. /\ mem' = [mem EXCEPT ![job.to] = Head(buf)] /\ buf' = Tail(buf)
      /\ job \in Job /\ job.from \in Addr /\ job.to \in Addr /\ job.todo \in Nat
      /\ mem \in [Addr -> Word]
  BY DEF Write, StreamInv, Typed, Job
<1>2. /\ Dec(job.from) \in Addr /\ Dec(Dec(job.from)) \in Addr
      /\ Inc(Dec(job.from)) = job.from
      /\ Inc(Dec(Dec(job.from))) = Dec(job.from)
      /\ Inc(job.to) \in Addr
  BY <1>1, Neighbours
<1>3. CASE job.todo = 1
  <2>1. job' = NoJob
    BY <1>3 DEF Write
  <2>2. PICK a \in Word : buf = <<a>>
    <3>1. buf \in Buffer /\ buf # << >> /\ Len(buf) <= 1
      BY <1>3 DEF Write, StreamInv, Typed
    <3>2. ASSUME NEW a \in Word, NEW b \in Word, buf = <<a, b>> PROVE FALSE
      BY <3>1, <3>2, TwoWords
    <3> QED BY <3>1, <3>2 DEF Buffer
  <2>3. buf' = << >> /\ Head(buf) = a
    BY <1>1, <2>2, OneWord
  <2>4. Typed'
    <3>1. mem' \in [Addr -> Word]
      BY <1>1, <2>3
    <3>2. job' \in Job /\ job'.todo = 0
      BY <2>1, HeightAssumption DEF Job, NoJob, Addr
    <3> QED BY <2>1, <2>3, <3>1, <3>2, OneWord DEF Typed, Buffer
  <2>5. Apart' /\ Staged'
    BY <2>1, <2>3, OneWord DEF Apart, Staged, NoJob
  <2>6. Oldest = Dec(job.from)
    BY <2>2, OneWord DEF Oldest
  <2>7. Disciplined => Head(buf) = mem[Oldest]
    BY <2>2, <2>3, <2>6, OneWord DEF StreamInv, Staged
  <2> QED BY <1>2, <1>3, <2>3, <2>4, <2>5, <2>6, <2>7 DEF StreamInv
<1>4. CASE job.todo # 1
  <2>1. job' = [from |-> job.from, to |-> Inc(job.to), todo |-> job.todo - 1]
    BY <1>4 DEF Write
  <2>2. job.todo > 1
    BY <1>1, <1>4, OneWord, TwoWords DEF Write, StreamInv, Typed, Buffer
  <2>3. /\ job'.from = job.from /\ job'.to = Inc(job.to)
        /\ job'.todo = job.todo - 1 /\ job' \in Job /\ job'.todo > 0
        /\ job.todo > 0
    <3>1. job.todo - 1 \in Nat /\ job.todo - 1 > 0 /\ job.todo > 0
      BY <1>1, <2>2
    <3> QED BY <1>1, <1>2, <2>1, <3>1 DEF Job
  <2>4. CASE \E a \in Word : buf = <<a>>
    <3>1. PICK a \in Word : buf = <<a>>
      BY <2>4
    <3>2. buf' = << >> /\ Head(buf) = a
      BY <1>1, <3>1, OneWord
    <3>3. Typed'
      <4>1. mem' \in [Addr -> Word]
        BY <1>1, <3>2
      <4>2. buf' \in Buffer /\ Len(buf') = 0
        BY <3>2, OneWord DEF Buffer
      <4> QED BY <2>3, <4>1, <4>2 DEF Typed, Job
    <3>4. Oldest = Dec(job.from) /\ Oldest' = job.from
      BY <2>3, <3>1, <3>2, OneWord DEF Oldest
    <3>5. Apart'
      <4>1. SUFFICES ASSUME Disciplined PROVE Inc(job.to) # Inc(Oldest')
        BY <2>3 DEF Apart
      <4>2. job.to # Inc(Oldest)
        BY <2>3, <4>1 DEF StreamInv, Apart
      <4> QED BY <1>1, <1>2, <3>4, <4>2, Neighbours
    <3>6. Staged' /\ (Disciplined => Head(buf) = mem[Oldest])
      BY <3>1, <3>2, <3>4, OneWord DEF Staged, StreamInv
    <3> QED BY <1>2, <2>3, <3>2, <3>3, <3>4, <3>5, <3>6 DEF StreamInv
  <2>5. CASE \E a, b \in Word : buf = <<a, b>>
    <3>1. PICK a \in Word, b \in Word : buf = <<a, b>>
      BY <2>5
    <3>2. buf' = <<b>> /\ Head(buf) = a
      BY <1>1, <3>1, TwoWords
    <3>3. Typed'
      <4>1. mem' \in [Addr -> Word]
        BY <1>1, <3>2
      <4>2. buf' \in Buffer /\ Len(buf') = 1
        BY <3>2, OneWord DEF Buffer
      <4> QED BY <2>3, <4>1, <4>2 DEF Typed, Job
    <3>4. Oldest = Dec(Dec(job.from)) /\ Oldest' = Dec(job.from)
      BY <2>3, <3>1, <3>2, OneWord, TwoWords DEF Oldest
    <3>5. Disciplined => job.to # Dec(job.from)
      BY <1>2, <2>3, <3>4 DEF StreamInv, Apart
    <3>6. Apart'
      <4>1. SUFFICES ASSUME Disciplined PROVE Inc(job.to) # Inc(Oldest')
        BY <2>3 DEF Apart
      <4> QED BY <1>1, <1>2, <3>4, <3>5, <4>1, Neighbours
    <3>7. Disciplined => a = mem[Dec(Dec(job.from))] /\ b = mem[Dec(job.from)]
      BY <3>1, TwoWords DEF Staged, StreamInv
    <3>8. Staged'
      <4>1. Disciplined => mem'[Dec(job.from)] = mem[Dec(job.from)]
        BY <1>1, <1>2, <3>5
      <4> QED BY <2>3, <3>2, <3>7, <4>1, OneWord DEF Staged
    <3> QED BY <1>2, <2>3, <3>2, <3>3, <3>4, <3>6, <3>7, <3>8 DEF StreamInv
  <2> QED BY <2>4, <2>5 DEF Write, StreamInv, Typed, Buffer
<1> QED BY <1>3, <1>4

(***************************************************************************)
(* The buffer of a program that keeps clear of the words in flight holds   *)
(* the words of memory at their sources, in every reachable state.         *)
(***************************************************************************)
THEOREM StreamInvariant == Spec => []StreamInv
<1>1. Init => StreamInv
  BY OneWord, HeightAssumption
  DEF Init, StreamInv, Typed, Apart, Staged, Buffer, NoJob, Job, Addr
<1>2. StreamInv /\ [Next]_vars => StreamInv'
  <2> SUFFICES ASSUME StreamInv, [Next]_vars PROVE StreamInv'
    OBVIOUS
  <2>1. CASE \E a \in Addr : Store(a)
    BY <2>1, StoreKeepsInv
  <2>2. CASE Request
    BY <2>2, RequestKeepsInv
  <2>3. CASE Fetch
    BY <2>3, FetchKeepsInv
  <2>4. CASE Write
    BY <2>4, WriteKeepsInv
  <2>5. CASE UNCHANGED vars
    BY <2>5 DEF vars, StreamInv, Typed, Apart, Staged, Oldest
  <2> QED BY <2>1, <2>2, <2>3, <2>4, <2>5 DEF Next
<1> QED BY <1>1, <1>2, PTL DEF Spec

(***************************************************************************)
(* For such a program the stream is the plain copy: a word may be taken to *)
(* move when it is written, because it still equals its source then.       *)
(***************************************************************************)
THEOREM StreamIsBlockCopy ==
    ASSUME Disciplined
    PROVE  Spec => BC!Spec
<1>1. Init => BC!Init
  BY DEF Init, BC!Init, BlockJob, NoJob, BC!NoJob, BC!Addr, Addr
<1>2. StreamInv /\ [Next]_vars => [BC!Next]_BC!vars
  <2> SUFFICES ASSUME StreamInv, [Next]_vars PROVE [BC!Next]_BC!vars
    OBVIOUS
  <2>1. ASSUME NEW a \in Addr, Store(a) PROVE BC!Store(a)
    BY <2>1 DEF Store, BC!Store, BlockJob, Oldest
  <2>2. CASE Request
    <3>1. buf = << >> /\ buf' = << >> /\ job' \in Job
      BY <2>2, OneWord, TwoWords DEF StreamInv, Typed, Request, Buffer
    <3>2. BlockJob.todo = 0 /\ BlockJob' = job'
      BY <2>2, <3>1 DEF Request, BlockJob, Oldest, Job
    <3> QED BY <2>2, <3>1, <3>2 DEF BC!Request, BC!Next, Request, Job, BC!Job,
                                  BC!Addr, Addr
  <2>3. CASE Fetch
    <3>1. BlockJob' = BlockJob
      BY <2>3, FetchKeepsInv DEF Fetch, BlockJob, StreamInv, Typed, Job
    <3> QED BY <2>3, <3>1 DEF Fetch, BC!vars
  <2>4. CASE Write
    <3>1. /\ mem' = [mem EXCEPT ![BlockJob.to] = mem[BlockJob.from]]
          /\ BlockJob.todo = job.todo /\ job.todo > 0
          /\ BlockJob.from = Oldest /\ BlockJob.to = job.to
      <4>1. Head(buf) = mem[Oldest] /\ job.todo > 0
        BY <2>4, WriteKeepsInv
      <4>2. job.todo # 0
        BY <4>1
      <4> QED BY <2>4, <4>1, <4>2 DEF Write, BlockJob
    <3>2. job \in Job /\ job.todo \in Nat
      BY DEF StreamInv, Typed, Job
    <3>3. CASE job.todo = 1
      BY <2>4, <3>1, <3>3 DEF Write, BC!CopyWord, BC!Next, BlockJob, NoJob, BC!NoJob
    <3>4. CASE job.todo # 1
      <4>1. /\ job'.from = job.from /\ job'.to = Inc(job.to)
            /\ job'.todo = job.todo - 1 /\ job.todo > 1
        BY <2>4, <3>1, <3>2, <3>4 DEF Write, Job
      <4>2. Oldest' = Inc(Oldest)
        BY <2>4, <4>1, WriteKeepsInv
      <4>3. BlockJob' = [from |-> Inc(BlockJob.from), to |-> Inc(BlockJob.to),
                         todo |-> BlockJob.todo - 1]
        BY <3>1, <3>2, <4>1, <4>2 DEF BlockJob
      <4>4. BC!CopyWord
        BY <3>1, <3>4, <4>3 DEF BC!CopyWord, BC!Inc, Inc
      <4> QED BY <4>4 DEF BC!Next
    <3> QED BY <3>3, <3>4
  <2>5. CASE UNCHANGED vars
    BY <2>5 DEF vars, BC!vars, BlockJob, Oldest
  <2> QED BY <2>1, <2>2, <2>3, <2>4, <2>5 DEF Next, BC!Next, BC!Addr, Addr
<1> QED BY <1>1, <1>2, StreamInvariant, PTL DEF Spec, BC!Spec
=============================================================================
