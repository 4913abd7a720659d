------------------------------- MODULE DmaCtl -------------------------------
(***************************************************************************)
(* The DMA engine of the multicycle SP (lab2/sp.c, dma_ctl), the single-   *)
(* port memory it shares with the processor and the clock of the simulation*)
(* kernel (lab2/llsim.c).  The processor is the most general one that obeys*)
(* the interface: it drives the port exactly in the cycles the engine      *)
(* treats as hazards, and asks for a copy only when it sees no copy busy.  *)
(* SP2 and SP5 replace this environment by the two real processors.        *)
(*                                                                         *)
(* A clock cycle is three steps of one thread, as sp_run and llsim_run_    *)
(* clock order them: "ctl" (the processor's function), "dma" (dma_ctl),    *)
(* "commit" (the memory access, then the copy of the new registers over    *)
(* the old ones).                                                          *)
(***************************************************************************)
EXTENDS Sram

CONSTANTS
    Junk,         \* 0xBAADBAAD: the data output of a cycle without access
    Lens,         \* lengths a program may ask for, zero and below included
    CpuAddr,      \* addresses the processor may drive
    CpuWord,      \* words it may store
    Images,       \* initial contents of the memory
    Disciplined   \* the program keeps clear of the words in flight

ASSUME JunkAssumption == Junk \in Word
ASSUME LensAssumption == Lens \subseteq Int
ASSUME CpuAddrAssumption == CpuAddr \subseteq Int
ASSUME CpuWordAssumption == CpuWord \subseteq Word
ASSUME ImagesAssumption == Images \subseteq [Addr -> Word]
ASSUME DisciplinedAssumption == Disciplined \in BOOLEAN

VARIABLES
    dma,        \* spro->dma_*: the registers as the last clock edge left them
    dman,       \* sprn->dma_*: the registers being computed
    sram,       \* the memory array
    port,       \* the access in progress, and the data input and output
    hazard,     \* this cycle belongs to the processor
    phase,      \* what runs next within the clock cycle
    stop_sim,   \* llsim_stop was called
    fault       \* the llsim assertion that ended the simulation, if one did

vars == <<dma, dman, sram, port, hazard, phase, stop_sim, fault>>

DmaState == {"IDLE", "READ_FIRST", "DO_READ", "DO_WRITE",
             "WRITE_STALLED", "WRITE_LAST", "DO"}

DmaRegisters ==
    [busy : BOOLEAN, src : Addr, dst : Addr, len : Int,
     reg : Word, reg2 : Word, dirty : BOOLEAN, state : DmaState]

Port ==
    [read : BOOLEAN, raddr : Int, write : BOOLEAN, waddr : Int,
     datain : Word, dataout : Word]

\* No access is in progress; datain and the addresses are dead until the next
\* access sets them.
QuietPort(out) ==
    [read |-> FALSE, raddr |-> 0, write |-> FALSE, waddr |-> 0,
     datain |-> 0, dataout |-> out]

TypeOK ==
    /\ dma \in DmaRegisters
    /\ dman \in DmaRegisters
    /\ sram \in [Addr -> Word]
    /\ port \in Port
    /\ hazard \in BOOLEAN
    /\ phase \in {"ctl", "dma", "commit"}
    /\ stop_sim \in BOOLEAN
    /\ fault \in {"none", "port", "range"}

-----------------------------------------------------------------------------
(***************************************************************************)
(* The memory interface of llsim.                                          *)
(***************************************************************************)

llsim_mem_read(a) ==
    /\ port' = [port EXCEPT !.read = TRUE, !.raddr = a]
    /\ fault' = IF port.read THEN "port" ELSE fault

\* llsim_mem_set_datain and llsim_mem_write, which always go together.
llsim_mem_write(a, v) ==
    /\ port' = [port EXCEPT !.write = TRUE, !.waddr = a, !.datain = v]
    /\ fault' = IF port.write THEN "port" ELSE fault

NoAccess == UNCHANGED <<port, fault>>

-----------------------------------------------------------------------------
(***************************************************************************)
(* The registers after reset: sp_reset clears them and five reset clocks   *)
(* without access leave Junk on the data output.                           *)
(***************************************************************************)
ResetRegisters ==
    [busy |-> FALSE, src |-> 0, dst |-> 0, len |-> 0,
     reg |-> 0, reg2 |-> 0, dirty |-> FALSE, state |-> "IDLE"]

Init ==
    /\ dma = ResetRegisters
    /\ dman = ResetRegisters
    /\ sram \in Images
    /\ port = QuietPort(Junk)
    /\ hazard \in BOOLEAN
    /\ phase = "ctl"
    /\ stop_sim = FALSE
    /\ fault = "none"

-----------------------------------------------------------------------------
(***************************************************************************)
(* The environment: one call of sp_ctl.                                    *)
(***************************************************************************)

\* Addresses of the words the engine has read and not yet written.
InFlight ==
    CASE dma.state \in {"DO_READ", "DO", "WRITE_LAST"} -> {Dec(dma.src)}
      [] dma.state \in {"DO_WRITE", "WRITE_STALLED"} ->
            {Dec(dma.src), Dec(Dec(dma.src))}
      [] OTHER -> {}

DmaRequest(s, d, n) ==
    /\ ~dma.busy
    /\ Disciplined => d # Inc(s)
    /\ dman' = [dman EXCEPT !.busy = TRUE, !.src = s, !.dst = d, !.len = n]

\* The processor may ask for a copy in a cycle in which it does not store.
MayRequest ==
    \/ UNCHANGED dman
    \/ \E s, d \in Addr, n \in Lens : DmaRequest(s, d, n)

CtlFrame ==
    /\ phase = "ctl" /\ ~stop_sim /\ fault = "none"
    /\ phase' = "dma"
    /\ UNCHANGED <<dma, sram, hazard>>

CpuIdle ==
    /\ CtlFrame /\ ~hazard
    /\ NoAccess
    /\ MayRequest
    /\ UNCHANGED stop_sim

CpuRead ==
    /\ CtlFrame /\ hazard
    /\ \E a \in CpuAddr : llsim_mem_read(a)
    /\ MayRequest
    /\ UNCHANGED stop_sim

CpuWrite ==
    /\ CtlFrame /\ hazard
    /\ \E a \in CpuAddr, v \in CpuWord :
          /\ Disciplined => a \notin InFlight
          /\ llsim_mem_write(a, v)
    /\ UNCHANGED <<dman, stop_sim>>

\* HLT: llsim_stop takes effect when the clock cycle is over.  A pipelined
\* processor may still be reading for a younger instruction.
CpuHalt ==
    /\ CtlFrame
    /\ \/ ~hazard /\ NoAccess
       \/ hazard /\ \E a \in CpuAddr : llsim_mem_read(a)
    /\ stop_sim' = TRUE
    /\ UNCHANGED dman

Cpu == CpuIdle \/ CpuRead \/ CpuWrite \/ CpuHalt

-----------------------------------------------------------------------------
(***************************************************************************)
(* dma_ctl, one action per state of the engine.  It reads the old          *)
(* registers and computes the new ones; a stalled state keeps its state.   *)
(***************************************************************************)
DmaFrame ==
    /\ phase = "dma" /\ fault = "none"
    /\ phase' = "commit"
    /\ UNCHANGED <<sram, hazard, stop_sim>>

\* The else branch clears the busy flag of the OLD registers, which the end
\* of the cycle overwrites with the new ones.
DmaIdle ==
    /\ DmaFrame /\ dma.state = "IDLE"
    /\ \/ /\ dma.busy /\ dma.len > 0
          /\ dman' = [dman EXCEPT !.state = "READ_FIRST"]
          /\ UNCHANGED dma
       \/ /\ ~(dma.busy /\ dma.len > 0)
          /\ dma' = [dma EXCEPT !.busy = FALSE]
          /\ UNCHANGED dman
    /\ NoAccess

\* Mutant of DmaReadFirst: reads without looking at the hazard.
DmaReadFirstBlind ==
    /\ DmaFrame /\ dma.state = "READ_FIRST"
    /\ llsim_mem_read(dma.src)
    /\ dman' = [dman EXCEPT
                  !.src = Inc(dma.src),
                  !.dirty = TRUE,
                  !.state = IF dma.len = 1 THEN "DO" ELSE "DO_READ"]
    /\ UNCHANGED dma

DmaReadFirst ==
    /\ DmaFrame /\ dma.state = "READ_FIRST"
    /\ \/ hazard /\ UNCHANGED dman /\ NoAccess
       \/ /\ ~hazard
          /\ llsim_mem_read(dma.src)
          /\ dman' = [dman EXCEPT
                        !.src = Inc(dma.src),
                        !.dirty = TRUE,
                        !.state = IF dma.len = 1 THEN "DO" ELSE "DO_READ"]
    /\ UNCHANGED dma

\* dma_reg takes the word on the data output if it is fresh.
LatchedReg == IF dma.dirty THEN port.dataout ELSE dman.reg

\* Mutant of DmaDoRead: a stall leaves the dirty flag up, so that the word is
\* latched again in the next cycle.
DmaDoReadDirty ==
    /\ DmaFrame /\ dma.state = "DO_READ"
    /\ \/ /\ hazard
          /\ dman' = [dman EXCEPT !.reg = LatchedReg]
          /\ NoAccess
       \/ /\ ~hazard
          /\ llsim_mem_read(dma.src)
          /\ dman' = [dman EXCEPT !.reg = LatchedReg,
                                  !.src = Inc(dma.src),
                                  !.dirty = TRUE,
                                  !.state = "DO_WRITE"]
    /\ UNCHANGED dma

DmaDoRead ==
    /\ DmaFrame /\ dma.state = "DO_READ"
    /\ \/ /\ hazard
          /\ dman' = [dman EXCEPT !.reg = LatchedReg, !.dirty = FALSE]
          /\ NoAccess
       \/ /\ ~hazard
          /\ llsim_mem_read(dma.src)
          /\ dman' = [dman EXCEPT !.reg = LatchedReg,
                                  !.src = Inc(dma.src),
                                  !.dirty = TRUE,
                                  !.state = "DO_WRITE"]
    /\ UNCHANGED dma

\* Mutants of WriteWord: the destination stays, the length stays.
WriteWordInPlace(n) ==
    /\ llsim_mem_write(dma.dst, dma.reg)
    /\ dman' = [n EXCEPT !.len = dma.len - 1,
                         !.state = IF dma.len = 2 THEN "WRITE_LAST"
                                                  ELSE "DO_READ"]

WriteWordEndless(n) ==
    /\ llsim_mem_write(dma.dst, dma.reg)
    /\ dman' = [n EXCEPT !.dst = Inc(dma.dst), !.state = "DO_READ"]

\* The write of dma_reg common to the write states: what follows depends on
\* whether the word after this one is the last.
WriteWord(n) ==
    /\ llsim_mem_write(dma.dst, dma.reg)
    /\ dman' = [n EXCEPT !.dst = Inc(dma.dst),
                         !.len = dma.len - 1,
                         !.state = IF dma.len = 2 THEN "WRITE_LAST"
                                                  ELSE "DO_READ"]

\* Mutant of DmaDoWrite: a stall does not save the word on the data output.
DmaDoWriteLosing ==
    /\ DmaFrame /\ dma.state = "DO_WRITE"
    /\ \/ /\ hazard
          /\ dman' = [dman EXCEPT !.dirty = FALSE, !.state = "WRITE_STALLED"]
          /\ NoAccess
       \/ /\ ~hazard
          /\ WriteWord([dman EXCEPT !.reg = LatchedReg, !.dirty = FALSE])
    /\ UNCHANGED dma

DmaDoWrite ==
    /\ DmaFrame /\ dma.state = "DO_WRITE"
    /\ \/ /\ hazard
          /\ dman' = [dman EXCEPT !.reg2 = port.dataout, !.dirty = FALSE,
                                  !.state = "WRITE_STALLED"]
          /\ NoAccess
       \/ /\ ~hazard
          /\ WriteWord([dman EXCEPT !.reg = LatchedReg, !.dirty = FALSE])
    /\ UNCHANGED dma

\* Mutant of DmaWriteStalled: the second word does not move up.
DmaWriteStalledTwice ==
    /\ DmaFrame /\ dma.state = "WRITE_STALLED"
    /\ \/ hazard /\ UNCHANGED dman /\ NoAccess
       \/ ~hazard /\ WriteWord(dman)
    /\ UNCHANGED dma

DmaWriteStalled ==
    /\ DmaFrame /\ dma.state = "WRITE_STALLED"
    /\ \/ hazard /\ UNCHANGED dman /\ NoAccess
       \/ ~hazard /\ WriteWord([dman EXCEPT !.reg = dma.reg2])
    /\ UNCHANGED dma

\* Mutant of DmaWriteLast: the busy flag stays up.
DmaWriteLastBusy ==
    /\ DmaFrame /\ dma.state = "WRITE_LAST"
    /\ \/ hazard /\ UNCHANGED dman /\ NoAccess
       \/ /\ ~hazard
          /\ llsim_mem_write(dma.dst, dma.reg)
          /\ dman' = [dman EXCEPT !.state = "IDLE"]
    /\ UNCHANGED dma

DmaWriteLast ==
    /\ DmaFrame /\ dma.state = "WRITE_LAST"
    /\ \/ hazard /\ UNCHANGED dman /\ NoAccess
       \/ /\ ~hazard
          /\ llsim_mem_write(dma.dst, dma.reg)
          /\ dman' = [dman EXCEPT !.busy = FALSE, !.state = "IDLE"]
    /\ UNCHANGED dma

DmaDo ==
    /\ DmaFrame /\ dma.state = "DO"
    /\ dman' = [dman EXCEPT !.reg = port.dataout, !.state = "WRITE_LAST"]
    /\ NoAccess
    /\ UNCHANGED dma

Dma == \/ DmaIdle \/ DmaReadFirst \/ DmaDoRead \/ DmaDoWrite
       \/ DmaWriteStalled \/ DmaWriteLast \/ DmaDo

-----------------------------------------------------------------------------
(***************************************************************************)
(* llsim_run_clock: the memory access, then the register copy.  An address *)
(* at or above Height fails an assertion; one below zero passes it and     *)
(* indexes outside the array, after which the program has no meaning: both *)
(* are the fault "range".                                                  *)
(***************************************************************************)
OutOfRange ==
    \/ port.read /\ port.raddr \notin Addr
    \/ port.write /\ port.waddr \notin Addr

CommitFrame ==
    /\ phase = "commit" /\ fault = "none"
    /\ UNCHANGED stop_sim

CommitFault ==
    /\ CommitFrame
    /\ OutOfRange
    /\ fault' = "range"
    /\ UNCHANGED <<dma, dman, sram, port, hazard, phase>>

\* A write leaves the data output alone; a cycle without access spoils it.
DataOut ==
    IF port.read THEN sram[port.raddr]
    ELSE IF port.write THEN port.dataout
    ELSE Junk

Commit ==
    /\ CommitFrame
    /\ ~OutOfRange
    /\ port' = QuietPort(DataOut)
    /\ sram' = IF port.write THEN [sram EXCEPT ![port.waddr] = port.datain]
                             ELSE sram
    /\ fault' = IF port.read /\ port.write THEN "port" ELSE "none"
    /\ dma' = dman
    /\ hazard' \in BOOLEAN
    /\ phase' = "ctl"
    /\ UNCHANGED dman

-----------------------------------------------------------------------------
\* main's loop ends after the cycle of a halt, exit(1) after an assertion.
Stopped ==
    /\ fault # "none" \/ (phase = "ctl" /\ stop_sim)
    /\ UNCHANGED vars

Next == Cpu \/ Dma \/ Commit \/ CommitFault \/ Stopped

Spec == Init /\ [][Next]_vars

(***************************************************************************)
(* The clock never stops by itself, and a processor leaves the port free   *)
(* again and again: between two fetches it decodes.                        *)
(***************************************************************************)
FreeCycle == phase = "ctl" /\ ~hazard

FairSpec == Spec /\ WF_vars(Next) /\ []<>(FreeCycle \/ stop_sim)

-----------------------------------------------------------------------------
(***************************************************************************)
(* The inductive invariant behind NoDmaFault and FreshDataOut.             *)
(***************************************************************************)

\* The flags and the length fit the state: a copy in progress is busy, a
\* state that still has to read or to hold two words has two to write.
Control(d) ==
    /\ d.state # "IDLE" => d.busy /\ d.len > 0
    /\ d.state \in {"DO_READ", "DO_WRITE", "WRITE_STALLED"} => d.len > 1
    /\ d.state \in {"WRITE_LAST", "DO"} => d.len = 1
    /\ d.state \in {"DO_WRITE", "DO"} => d.dirty
    /\ d.state = "WRITE_STALLED" => ~d.dirty

\* The new registers are the old ones until dma_ctl runs, but for a request.
Latched ==
    /\ phase = "ctl" => dman = dma
    /\ phase = "dma" =>
          /\ dma.busy => dman = dma
          /\ dman.state = dma.state /\ dman.reg = dma.reg
          /\ dman.reg2 = dma.reg2 /\ dman.dirty = dma.dirty

\* Who may have used the port: nobody before the processor's turn, only the
\* processor before the engine's, and one of them at the commit.
PortOwner ==
    /\ phase = "ctl" => ~port.read /\ ~port.write
    /\ phase = "dma" /\ (port.read \/ port.write) => hazard
    /\ ~(port.read /\ port.write)
    /\ port.read => port.raddr \in IF hazard THEN CpuAddr ELSE Addr
    /\ port.write => port.waddr \in IF hazard THEN CpuAddr ELSE Addr
    /\ fault # "port"
    /\ fault = "range" => phase = "commit" /\ OutOfRange

\* States that find on the data output the word that was read last.
Latching == {"DO_READ", "DO_WRITE", "DO"}

\* The word read in the previous cycle is on the data output, and the word to
\* be read in this cycle is the one the new registers expect.
Fresh ==
    /\ phase \in {"ctl", "dma"} /\ dma.state \in Latching /\ dma.dirty
          => port.dataout = sram[Dec(dma.src)]
    /\ phase = "commit" /\ dman.state \in Latching /\ dman.dirty
          => port.read /\ port.raddr = Dec(dman.src)

DmaInv ==
    /\ Control(dma) /\ Control(dman)
    /\ Latched
    /\ PortOwner
    /\ Fresh

-----------------------------------------------------------------------------
(***************************************************************************)
(* Properties.                                                             *)
(***************************************************************************)

(* No llsim assertion is ever the engine's doing: it never uses the port   *)
(* in a cycle of the processor, nor twice in a cycle, and never leaves the *)
(* memory.  Only an address of the processor can be out of range.          *)
NoDmaFault ==
    /\ fault # "port"
    /\ fault = "range" =>
          /\ hazard
          /\ \/ port.read /\ port.raddr \in CpuAddr \ Addr
             \/ port.write /\ port.waddr \in CpuAddr \ Addr

(* A state that will latch the data output finds there the word it read in *)
(* the previous cycle: neither a word the processor read in between, nor   *)
(* the junk of a cycle without access.                                     *)
FreshDataOut ==
    phase = "ctl" /\ dma.state \in {"DO_READ", "DO_WRITE", "DO"} /\ dma.dirty
        => port.dataout = sram[Dec(dma.src)]

(* While the program keeps clear of them, the words in the staging         *)
(* registers are those of memory at the addresses they were read from.     *)
StagedWords ==
    Disciplined /\ phase = "ctl" =>
      /\ dma.state \in {"DO_WRITE", "WRITE_STALLED"} =>
            dma.reg = sram[Dec(Dec(dma.src))]
      /\ dma.state = "WRITE_STALLED" => dma.reg2 = sram[Dec(dma.src)]
      /\ dma.state = "WRITE_LAST" => dma.reg = sram[Dec(dma.src)]
      /\ dma.state = "DO_READ" /\ ~dma.dirty => dma.reg = sram[Dec(dma.src)]

(* The engine is the bounded stream of StreamCopy whatever the stalls and  *)
(* whatever the processor stores: no word is lost, repeated or reordered,  *)
(* and nothing outside the block is written.                               *)
Active == dma.busy /\ dma.len > 0

\* What is left of the copy in the registers d, and the words they and the
\* memory's data output hold of it.
JobOf(d) ==
    IF d.busy /\ d.len > 0 THEN [from |-> d.src, to |-> d.dst, todo |-> d.len]
                           ELSE [from |-> 0, to |-> 0, todo |-> 0]

BufOf(d, out) ==
    CASE d.state = "DO_READ" -> IF d.dirty THEN <<out>> ELSE <<d.reg>>
      [] d.state = "DO" -> <<out>>
      [] d.state = "DO_WRITE" -> <<d.reg, out>>
      [] d.state = "WRITE_STALLED" -> <<d.reg, d.reg2>>
      [] d.state = "WRITE_LAST" -> <<d.reg>>
      [] OTHER -> << >>

SC == INSTANCE StreamCopy WITH
        mem <- sram, job <- JobOf(dma), buf <- BufOf(dma, port.dataout)

ImplementsStreamCopy == SC!Spec

(* A program that keeps clear of the words in flight sees BlockCopy: the   *)
(* copy word by word in increasing order that the assembler's comments     *)
(* describe.                                                               *)
ImplementsBlockCopy == SC!BC!Spec

(* A copy of at least one word is over eventually, and the busy flag that  *)
(* DMP polls is cleared, unless the simulation ends first.                 *)
CopyEnds ==
    (phase = "ctl" /\ Active)
      ~> \/ phase = "ctl" /\ ~dma.busy
         \/ stop_sim
         \/ fault # "none"
=============================================================================
