----------------------------- MODULE BlockCopy -----------------------------
(***************************************************************************)
(* What a program that starts a DMA is promised, as the comment of the     *)
(* test program puts it ("DMA from 101 to 201, len=100"): the block is     *)
(* copied word by word, in increasing address order, while the processor   *)
(* goes on storing.  There is no cycle, port or staging register here.     *)
(***************************************************************************)
EXTENDS Sram

VARIABLES mem,    \* the memory
          job     \* the copy that remains to be done

vars == <<mem, job>>

Job == [from : Addr, to : Addr, todo : Nat]

NoJob == [from |-> 0, to |-> 0, todo |-> 0]

TypeOK == mem \in [Addr -> Word] /\ job \in Job

Init == mem \in [Addr -> Word] /\ job = NoJob

\* The processor stores a word.
Store(a) ==
    /\ mem' = [mem EXCEPT ![a] = mem'[a]] /\ mem'[a] \in Word
    /\ UNCHANGED job

\* The processor asks for the copy of a block of one word or more.
Request ==
    /\ job.todo = 0
    /\ job' \in Job /\ job'.todo > 0
    /\ UNCHANGED mem

\* One word moves, read and written in a single step.
CopyWord ==
    /\ job.todo > 0
    /\ mem' = [mem EXCEPT ![job.to] = mem[job.from]]
    /\ job' = IF job.todo = 1
                THEN NoJob
                ELSE [from |-> Inc(job.from),
                      to   |-> Inc(job.to),
                      todo |-> job.todo - 1]

Next ==
    \/ \E a \in Addr : Store(a)
    \/ Request
    \/ CopyWord

Spec == Init /\ [][Next]_vars
=============================================================================
