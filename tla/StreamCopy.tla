----------------------------- MODULE StreamCopy -----------------------------
(***************************************************************************)
(* The DMA engine seen as a stream: words are fetched in address order     *)
(* into a buffer of at most two, and leave it in the same order for the    *)
(* destination.  This is what the engine promises whatever the processor   *)
(* stores meanwhile.  A program that keeps clear of the words in flight    *)
(* (Disciplined) gets more: the stream then implements BlockCopy.          *)
(***************************************************************************)
EXTENDS Sram, Sequences

CONSTANT Disciplined    \* the program keeps clear of the words in flight

VARIABLES mem,    \* the memory
          job,    \* next word to fetch, next word to write, words to write
          buf     \* words fetched and not yet written, oldest first

vars == <<mem, job, buf>>

Job == [from : Addr, to : Addr, todo : Nat]

NoJob == [from |-> 0, to |-> 0, todo |-> 0]

\* Source of the oldest word of the buffer: the next one to be written.
Oldest ==
    IF buf = << >> THEN job.from
    ELSE IF Len(buf) = 1 THEN Dec(job.from) ELSE Dec(Dec(job.from))

\* Sources of the words in flight.
InFlight ==
    IF buf = << >> THEN {}
    ELSE IF Len(buf) = 1 THEN {Dec(job.from)}
    ELSE {Dec(job.from), Dec(Dec(job.from))}

Init == mem \in [Addr -> Word] /\ job = NoJob /\ buf = << >>

Store(a) ==
    /\ Disciplined => a \notin InFlight
    /\ mem' = [mem EXCEPT ![a] = mem'[a]] /\ mem'[a] \in Word
    /\ UNCHANGED <<job, buf>>

Request ==
    /\ job.todo = 0
    /\ job' \in Job /\ job'.todo > 0
    /\ Disciplined => job'.to # Inc(job'.from)
    /\ UNCHANGED <<mem, buf>>

Fetch ==
    /\ Len(buf) < 2
    /\ Len(buf) < job.todo
    /\ buf' = Append(buf, mem[job.from])
    /\ job' = [job EXCEPT !.from = Inc(job.from)]
    /\ UNCHANGED mem

Write ==
    /\ buf # << >>
    /\ mem' = [mem EXCEPT ![job.to] = Head(buf)]
    /\ buf' = Tail(buf)
    /\ job' = IF job.todo = 1
                THEN NoJob
                ELSE [from |-> job.from, to |-> Inc(job.to), todo |-> job.todo - 1]

Next ==
    \/ \E a \in Addr : Store(a)
    \/ Request
    \/ Fetch
    \/ Write

Spec == Init /\ [][Next]_vars

-----------------------------------------------------------------------------
(***************************************************************************)
(* Under the discipline the words in flight still equal their sources, so  *)
(* a word may be taken to move when it is written.                         *)
(***************************************************************************)
BlockJob ==
    [from |-> IF job.todo = 0 THEN 0 ELSE Oldest,
     to   |-> job.to,
     todo |-> job.todo]

BC == INSTANCE BlockCopy WITH job <- BlockJob
=============================================================================
