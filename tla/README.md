# A verification development for the SP simulators

The repository holds the work of a computer-structure course around one small
processor, the SP: an assembler and an instruction set simulator (`lab1`), a
cycle-accurate multicycle implementation with a DMA engine (`lab2`), and a
pipelined implementation (`lab5`), the two last on top of a small simulation
kernel, llsim. This directory specifies those programs in TLA+, model-checks
the specifications with TLC and proves with TLAPS, for every memory size, word
width, program and file: that the DMA engine is invisible to the memory port and
copies in order; that both processors drive it as it expects; that the multicycle
processor and the pipeline implement the instruction set simulator, and with the
DMA an instruction set with a copy beside it; which program texts the pipeline
runs that way; and what the loaders and dumps leave in a memory.

## 1. The system

### Components, their state and their operations

| component | source | state | operations |
|---|---|---|---|
| Instruction set simulator | `lab1/iss.c` | memory, `r0..r7`, `pc` | fetch, decode, execute (one instruction per turn of `main`) |
| Assemblers | `lab1/asm.c`, `lab2/asm.c` | memory image | `asm_cmd`, the four programs |
| Simulation kernel | `lab2/llsim.c`, `lab5` uses the same | clock, registers old and new, memory ports | `llsim_run_clock`, `llsim_mem_read`, `llsim_mem_write`, `llsim_stop` |
| Multicycle processor | `lab2/sp.c` `sp_ctl` | `spro`/`sprn`, seven control states | one control state per clock cycle |
| DMA engine | `lab2/sp.c`, `lab5/sp.c` `dma_ctl` | `dma_*` registers, seven states | one state per clock cycle |
| Pipelined processor | `lab5/sp.c` `sp_ctl` | six stages, bypass and stall registers, branch target buffer, two memories | all six stages every clock cycle |
| Image loading and dumps | `sp_generate_sram_memory_image`, `dump_sram` (`lab2`, `lab5`), `main` of `iss.c`, bit helpers of `llsim.h` | a file, `memory_image`, the memory | scan, inject, read lines, dump |
| Verilog exercises | `lab3/Submitted` | registers of two state machines and their benches | clock edges, stimuli |
| Traces | all | files | not modelled (I/O) |

### How they interact

Everything runs in one thread. A clock cycle is a call of `sp_ctl`, a call of
`dma_ctl`, and the end of the cycle in `llsim_run_clock`, which performs the
memory access that the two calls asked for and copies the new registers over
the old ones. Hardware concurrency is expressed by convention: each function
reads old registers (`spro`) and writes new ones (`sprn`). The convention is
not enforced, and several of the defects in section 7 are breaches of it.

Processor and DMA engine share one single-port memory, without an arbiter. The
engine has to know from the processor's registers whether the processor uses
the port in this cycle (the *hazard*); that knowledge is written out three
times in `lab2/sp.c`, as a condition on the control state, and once in
`lab5/sp.c`, as `is_dma_hazard`. If both use the port in the same cycle one
access is overwritten, or an assertion of the kernel ends the run.

The assembler and the simulators meet in a file of hexadecimal words, which
three different loops read; `HLT` writes the memory into a file of the same
form. The processors put the words into their memories through
`llsim_mem_inject`, which reads and writes eight bytes to change four.

### What is hard in it

* Port sharing: two state machines that must never drive the port in the same
  cycle, with no arbiter.
* Stalls of the engine: up to two words are in flight, one of them only on the
  memory's data output, which keeps it for a single cycle.
* The program stores to memory while the copy runs, and polls a flag.
* The pipeline: an operand has four possible sources, a stall holds every stage
  but one, a misprediction empties all stages, and both may meet in one cycle.
* `HLT` dumps the memory in the middle of a cycle, while the engine runs and
  other instructions are in flight.
* Loading: the results of `fscanf` are ignored, and each injection spoils the
  word behind it.
* Numbers: 16-bit addresses kept in `int`s, masked in some places only; words
  that wrap; lengths of zero or below.

The complete list, with lines, is "hazards" in `PROJECT.json`.

### What correctness means for each component

* DMA engine: it is invisible to the port (no collision, no access outside
  memory), it copies the block in increasing order, every word once, and it
  ends; the busy flag says so.
* Multicycle processor: runs programs as the instruction set simulator does;
  with the DMA, as an instruction set with a copy beside it.
* Pipeline: retires the instructions of the instruction set simulator in
  order, whatever is stalled, bypassed, predicted or flushed.
* Dumps: they hold every store before the `HLT`, and whole words of a running
  copy in their order.
* Loaders: the words of a file, in their order and nothing else, are the memory
  the program starts with, on every simulator; a dump can be loaded again.
* Verilog: sums modulo 16, parity, divisibility by four.
* Instruction set simulator and assembler: the assembled programs compute what
  their comments say.

## 2. The modules

| module | models | kind |
|---|---|---|
| `Sram` | the address space and its wrap-around | constants, helpers |
| `BlockCopy` | a copy as the programmer sees it: word by word, while the program stores | abstract |
| `StreamCopy` | a copy as an ordered stream through a buffer of two words | abstract |
| `DmaCtl` | `dma_ctl`, the memory port and the clock, under the most general processor | detailed |
| `StreamCopyProofs` | `StreamCopy` implements `BlockCopy` | proofs |
| `DmaCtlProofs` | types, port and data output of `DmaCtl`; `DmaCtl` implements `StreamCopy` and `BlockCopy` | proofs |
| `SPWord` | words, instruction format, arithmetic | helpers |
| `SPWordProofs` | ranges of the operators of `SPWord`, for every width | proofs |
| `SPAsm` | `asm_cmd` and the programs of the two assemblers | helpers |
| `Iss` | the instruction set simulator | detailed, and the specification of the other two |
| `IssProofs` | types of `Iss` | proofs |
| `SpArch` | `Iss` with the DMA instructions and a copy running beside, as `lab2` has them | abstract |
| `PipeArch` | the same for `lab5`: a memory for code, a memory for data, a stream of copied words | abstract |
| `SP2` | the multicycle processor with the engine of `DmaCtl` | composition |
| `SP2Proofs` | types of `SP2`; it drives the engine of `DmaCtl`; it implements `SpArch` and `Iss` | proofs |
| `SP5` | the pipelined processor with the engine of `DmaCtl` | composition |
| `SP5Proofs` | types of `SP5`, its stalls and bypasses; it drives the engine of `DmaCtl` | proofs |
| `SP5ArchProofs` | `SP5` implements `PipeArch` and `Iss`; the program texts for which it does | proofs |
| `LlsimBits` | `sbs`, `rbs`, `lsbs`, `lrbs` and their masks | helpers |
| `Loader` | the two loaders of a file, the dump and its reloading | detailed |
| `LoaderProofs` | the helpers, what injection leaves in a memory, files of words and dumps | proofs |
| `Gates` | the combinational circuits of `lab3` | helpers |
| `Lab3` | the test benches and state machines of `lab3` | detailed |
| `MCLoader`, `MCDmaCtl`, `MCIss`, `MCSP2`, `MCSP5` | instances: programs, memory images, bounds | model checking |

The chain of refinements. The runs check every arrow; those marked * are
theorems as well (section 4):

    SP2 => DmaCtl    (ObeysEngine) *       SP2 => Iss       (ImplementsIss) *
    SP5 => DmaCtl    (ObeysEngine) *       SP5 => Iss       (ImplementsIss) *
    DmaCtl => StreamCopy => BlockCopy *    SP2 => SpArch    (ImplementsArch) *
                                           SP5 => PipeArch  (ImplementsPipeArch) *

`SpArch` is `Iss` beside a `BlockCopy`, `PipeArch` is `Iss`, fetching from a memory
of its own, beside a `StreamCopy`: the programs of `sp5_arch` store into the words
in flight, where a plain copy would be too much to ask. Both keep the dump that
`HLT` writes, and neither has a step for a store outside the memory, so that one
wrapped into it would be a violation. The two state what the labs' processors made of the instructions
that the manual leaves to them (section 7).

`DmaCtl` is the pivot. Its processor does anything a program could make a
processor do: it drives the port exactly in hazard cycles, asks for a copy only
when it sees none busy, and stores and halts when it likes. `SP2` and `SP5`
contain the same engine (`D == INSTANCE DmaCtl WITH hazard <- ...`) with the
hazard the code computes, and `ObeysEngine` (`D!Spec`) shows that the real
`sp_ctl` is one of those processors. What is proved of `DmaCtl` thereby holds of
both machines.

### How state and actions correspond to the code

* `dma`/`dman` are `spro->dma_*`/`sprn->dma_*`; `cpu`/`cpun` are the rest of the
  two register structures. `phase` is the position within the clock cycle.
  `dma_src` and `dma_dst` are used under `& 0xffff` only, so they are
  represented by the value the mask leaves.
* One action per `case` of `dma_ctl` and of `sp_ctl` (`DmaDoRead`, `Dec0`,
  `Exec0`, ...). In `EXEC1`, one per class of opcodes. In `SP5`, one operator per
  stage, from new registers to new registers, composed in the order of the code,
  because later stages overwrite what earlier ones wrote: that is how the code
  flushes.
* `Commit` is `llsim_run_clock`; `CommitFault` and `FetchFault` are its failing
  assertions. Without an access the data output is `Junk` (0xBAADBAAD), which
  makes a word latched a cycle too late visible.
* `Stopped` is the end of `main`'s loop.
* `dump` is the file of `HLT`, written by `Halt` and `Exec1Hlt` before the commit
  of the cycle.
* In `Loader` a file is a sequence of lines: a word, white space, or neither. One
  `ScanWord` or `ScanNothing` is a turn of the `fscanf` loop; white space is
  consumed where the format string consumes it. `pos` is the place in the file,
  `addr`, `image`, `i` and `memIndex` are the variables of the code, `mem` is the
  memory with the word behind its array, since the last injection writes there.
  The loader of `iss.c` is a process of its own on the same file.
* In `LlsimBits` an int is the set of the places of its ones and an i64 a set over
  twice the places, so that masks are sets and the conversion of an int to an
  i64 (`Extend`) is visible.
* In `Lab3` one action is one edge of the clock (`Posedge`, `Negedge`), with all
  blocks that the edge triggers; a register is `X` before its first assignment,
  and an output changes only when the block that assigns it is triggered. The first
  value of the clock is an edge too, and may have drawn an input (`Init`).

The width of the immediate field is a constant, `ImmBits`, 16 in the code. A
smaller value narrows immediates, addresses and memory together and leaves the
fields of an instruction alone; words have `ImmBits + 16` bits, so that sign
extension, wrap-around, `LHI` and the corner addresses exist in every instance.

## 3. The runs

Passing runs:

| run | question | states |
|---|---|---|
| `dma_wild` | Any program at all, stores into the block and addresses outside memory included: does the engine keep to its port cycles, latch only its own words, behave as an ordered stream, and end, if the processor leaves the port free again and again? | 1.6 M |
| `dma_disciplined` | If the program keeps clear of the words in flight, is the copy the plain `BlockCopy`, overlapping blocks included, and do the staged words equal memory? | 3.9 M |
| `iss_programs` | Do the assembled sum, multiplication and table programs compute their results, and do the corner cases of the manual (wrap of `pc`, the link of a jump at the last address, `LHI`, subroutine by `r7`) behave? | 4.6 k |
| `sp2_iss` | 5832 programs of three instructions on the multicycle machine, against `Iss`. | 410 k |
| `sp2_dma` | Programs that do everything beside a copy: port use, a second request, polls, stores; programs that halt in the middle of their copy, that execute the word 24, an undefined opcode, a jump or a store out of the memory: against `SpArch` and `DmaCtl`; what do their dumps hold, and do copy and program end? | 122 k |
| `sp5_straight` | Thousands of programs of three and four instructions, each of which can feed, stall or bypass the next, on the pipeline, against `Iss`. | 314 k |
| `sp5_arch` | The assembled programs with predictions, mispredictions and shared entries of the branch target buffer; loads, stores, stores into the block, polls and further requests beside a copy, in straight programs and endless loops; stores into the code; an undefined opcode; a jump and a store out of the memory: against `PipeArch` and `DmaCtl`; do copy and program end? | 142 k |
| `loader` | Every file of up to five lines, with white space, lines that are no number and too many words, every file of the assembler, and every dump of those: what is in the memories, and does loading end? | 31 k |
| `lab3` | Every stimulus of the benches of ex1 to ex5, and every input of the state machines of ex6 and ex7. | 2.8 k |

Runs that must find a violation, each a disagreement of the code with its own
comments:

| run | what the counterexample shows |
|---|---|
| `sp2_zero` | A request for no words: `dma_idle` clears the busy flag in the old registers, which the clock overwrites. The flag stays up for ever and the program's poll never ends. |
| `sp5_two_loads` | `LD R2; LD R3; ADD R4 = R2 + R3`: the bypass holds the first word for one cycle, in which the `ADD` stalls behind the second load. It adds a stale `R2`. |
| `sp5_dma_dst` | The assembler's DMA test on the pipeline: `dma_dst` is taken from the source register, and the destination stays empty. |

### Bounds, and why they suffice

* `dma_wild`, 3 words; `dma_disciplined`, 4 words; lengths from -1 to the size of
  the memory. The engine holds at most two words and its states depend on
  whether 1, 2 or more words remain: with 3 and 4 words every state and every
  transition occurs, blocks overlap in every way, and source and destination
  wrap. Memories with one marked word in each place tell which word went where.
* `sp2_*`, `sp5_*`: 16 words for straight programs (`ImmBits = 4`), 64 for loops
  and copies. Instruction sets of the straight programs hold one instruction per
  way an instruction can act on its neighbours (write a register, write
  nothing, load, store, jump taken or not; read operand 0, 1, both or neither);
  a pipeline of six stages with the bypasses of `lab5` lets an instruction act on
  at most three behind it.
* `BtbSize` (64 in the code) is 16 where programs do not wrap around it, and 4
  in `sp5_arch`, so that addresses share entries.
* `loader`: words of two bits have a sign and a bit beside it; a memory of three
  words has a first, a middle and a last one, and files of five lines are
  longer than it, with room for white space or a bad line at every place.
* `lab3`: `addsub` is checked for all its operands; `Cycles` (30 in the benches) is
  6, so that the machines clock words of up to seven bits; they have at most
  four states.
* Lengths of copies run from 1 to 4: 1 and 2 take the special exits (`DO`,
  `WRITE_LAST`), 3 and 4 go round the loop.

### Fairness

The simulators are sequential loops: `main` runs the clock until the simulation
stops, so weak fairness of the whole next-state relation is what the code
gives, and it is all that `Iss`, `SP2` and `SP5` assume. `DmaCtl!FairSpec` adds
that the processor leaves the port free again and again (or stops). The
multicycle processor does, because it uses the port in at most two of its six
cycles per instruction. The pipeline does, because a program that goes on
contains a jump: if it never stores, the cycle with the jump in `exec0` is free;
if it stores, the cycle in which a store that does not follow another one is in
`exec0` is free. The runs `sp2_dma` and `sp5_arch` do not
assume this: they check that copies end (`CopyEnds`) for the actual processors,
with weak fairness alone. The two loaders are loops in programs of their own:
`Loader` has weak fairness of each, and none of `Reload`, since nobody has to
load a dump.

## 4. What is proved

All theorems hold for every value of the constants that the named assumptions of
the modules allow: `HeightAssumption`, `WordAssumption` (`Sram`),
`JunkAssumption`, `LensAssumption`, `CpuAddrAssumption`, `CpuWordAssumption`,
`ImagesAssumption`, `DisciplinedAssumption` (`DmaCtl`), `ImmBitsAssumption` (at least
two bits; `SPWord`), `DmaAssumption` (the values the engine's instance ranges over),
`BtbSizeAssumption` (`SP5`), `WidthAssumption` (`LlsimBits`), `TextsAssumption`
(`Loader`). Each run evaluates those of its modules.

### The engine: `DmaCtlProofs`, `StreamCopyProofs`

For every memory size of at least two words, every set of words that contains 0
and the junk word, every set of integer lengths, and every set of addresses the
processor may drive:

* `TypeCorrect`: `Spec => []TypeOK`. In particular no address of the engine
  leaves the memory.
* `DmaInvariant`: `Spec => []DmaInv`, the inductive invariant.
* `PortExclusive`: `Spec => []NoDmaFault`. No assertion of llsim is the engine's
  doing.
* `DataOutIsFresh`: `Spec => []FreshDataOut`. What the engine latches is the word
  it read in the cycle before, whatever the stalls.

The argument. `NoDmaFault` and `FreshDataOut` are not inductive: a state with
two accesses pending, or with a copy half set up, could break them in a step.
`DmaInv` adds what the code relies on without saying it:

* `Control`: a copy in progress is busy; a state that still has to read, or
  that holds two words, has at least two to write; `WRITE_LAST` and `DO` have
  one; `dirty` is up in `DO_WRITE` and `DO` and down in `WRITE_STALLED`.
* `Latched`: until `dma_ctl` runs, the new registers are the old ones, but for a
  request, which is only made when the engine is idle.
* `PortOwner`: nobody drives the port before the processor's turn, only the
  processor before the engine's and only in a hazard cycle, and one of them at
  the commit, within `Addr` if it was the engine.
* `Fresh`: at the commit, a new state that will latch has its read on the port;
  at the next cycle, the data output holds that word.

Refinement:

* `StreamIsBlockCopy` (`StreamCopyProofs`): under `Disciplined`, `Spec => BC!Spec`. A
  word is taken to move when it is written; that is what `BlockCopy` copies
  because of `StreamInv`: the type of the buffer, `Apart` (the next word is never
  written over the source of the word behind it) and `Staged` (each word in the
  buffer equals memory at its source). `Staged` needs `Apart` when a word is
  written, and `Apart` is kept because source and destination advance together.
* `EngineImplementsStream`: `Spec => ImplementsStreamCopy`, for every program.
* `EngineImplementsBlockCopy`: under `Disciplined`, `Spec => ImplementsBlockCopy`.
* `StagedWordsCurrent`: `Spec => []StagedWords`.

A step of the stream is a whole clock cycle of the engine: it happens at the
commit, and `phase` hides the two calls before it. The proof therefore needs one
more invariant, `TurnInv`, of what a cycle has decided when it comes to the
commit: `Held` (nothing moves, the processor may store), `Asked` (a request),
`Fetched` (a read that joins the buffer) or `Written` (a write of the oldest
word). There is one lemma per state of the engine that shows which decisions it
can take, and one per decision that shows its commit to be the step of the
stream. `JobOf` and `BufOf` are the refinement mapping: what the seven states
keep in `dma_reg`, in `dma_reg2` and on the memory's data output is read as one
buffer.

### Words: `SPWordProofs`, `IssProofs`

`SPWordProofs` says what the helpers return, for every width of an immediate: the
powers of two (`Powers`), that addresses are words and words ints (`Ranges`,
`AddrType`), that a decoded word has fields in their ranges (`DecodeType`), that
arithmetic, both shifts and the bitwise operations yield words (`ArithType`), and that
`LHI` does (`UpperHalf`, `UpperShift`). Nothing about widths is assumed. Recursive functions
exist and stay in their range by `RecursionExists` and `NatSet`, an induction over a
*set* of numbers: the library's principle takes a predicate, which the provers
cannot instantiate, but a set can be named.

`IssProofs!TypeCorrect`: `r0` and `r1` of the simulator stay zero, every register and
memory word stays a word, and `pc` stays an address through negative jump
targets, increments and links.

### The multicycle processor: `SP2Proofs`

For every program and every width:

* `TypeCorrect`: `Spec => []TypeOK`.
* `MachineDrivesEngine`: `Spec => E!Spec`, where `E` is `DmaCtl` with every length,
  address and word: the machine is a processor as the engine expects one. The
  hazard of the control state is exactly the use of the port, and a request
  falls in a cycle in which none is busy.
* `MachineObeysEngine`: `Spec => ObeysEngine`, the property of the runs. Its engine
  has the constants of the instance; the theorem is for the instance that
  leaves programs free (`DmaLens = CpuAddr = Int`, `StoreWords = Word`), since nothing
  keeps an arbitrary program within smaller sets.
* `MachineCopies`, `MachineKeepsPort`: the engine's theorems, cited for `E`, now hold
  of the machine: whatever the program does, its copies are ordered streams and
  no assertion is the engine's doing.

The invariant is `TypeOK /\ PathInv /\ E!DmaInv`. `TypeOK` alone is not inductive: `pc` is
an int that `EXEC1` may set to a negative immediate or push past the memory, while the link
put into `r7` must be a word. `PathInv` closes the gap: once the fetch has been
committed its address was in range, or the assertion has ended the run.

For the programs that `Regular` and `Common` (below) describe:

* `MachineImplementsArch`: `Spec /\ []Regular => ImplementsArch`.
* `MachineImplementsIss`: `Spec /\ []Common => ImplementsIss`.

The argument. `ProgInv` says what `sp_ctl` has computed in each state of an
instruction: fields, operands, result, the word a load finds on the data output,
and what `EXEC1` leaves in the new registers. With it the clock edge of `EXEC1` does
to the registers what the simulator does in one step (`RegisterStep`), and no other
edge is visible (`MiddleCommit`, `ArchFrame`). What the edge does to memory and copy
is not proved again: `ClearEngine` shows that a regular program is disciplined, so
that `EngineImplementsBlockCopy` applies to the machine, and `CommitCases`
combines the step of `BlockCopy` with that of the registers.

`Regular` and `Common` are conditions on a program in execution. Each conjunct
excludes a behaviour in which the code does differ from the simulator (section 7), or
in which the engine's reading ahead shows. `Regular` asks, when an instruction
executes, that

* the word in memory is still the one that was fetched (no copy has overwritten it
  meanwhile: the simulator fetches and executes at once);
* it is not `LHI`, and no jump is taken at the last address, where the simulator's
  link is -1;
* a store does not hit the words a copy has in flight, and no copy is requested
  whose destination is its source plus one: the engine reads ahead of its writes,
  which for this shift only is visible.

`Common` is about opcodes and `pc` only: arithmetic, branches, loads, stores, `JIN` to an
immediate, `HLT`, but not the word 24 that restarts the machine. That fetched
words stay valid and that the engine stays free is then derived (`FetchInv`,
`CommonIsRegular`).

Both conditions have plenty of behaviours. TLC finds `Regular` to hold of every
program of `sp2_dma` and `sp2_iss`, and `Common` of every program of `sp2_iss`; adding
them to the INVARIANTs of these configurations repeats that check. `ProgInv` was
checked in the same way before it was proved.

### The pipeline: `SP5Proofs`

For every program, width and size of the branch target buffer:

* `TypeCorrect`: `Spec => []TypeOK`, stages, predictions and both memories included.
* `StallsNeverLast`: `Spec => StallsAreSingle`. A stall in a cycle rules out one in the
  next, because the load that caused it has moved on and left a bubble.
* `SavedWordCorrect`: `Spec => []SavedWordIsFetched`. The word that `fetch1` sets aside
  when it stalls, while the memory's output moves on, is the instruction at its
  address.
* `LoadBypassCorrect`: `Spec => []LoadBypassIsCurrent`.
* `LoadedWordCorrect`: `Spec => []LoadedWordIsFresh`. A load finds the word of its own
  read on the data output, which the engine shares.
* `PipelineDrivesEngine`, `PipelineObeysEngine`, `PipelineCopies`, `PipelineKeepsPort`: as for
  the multicycle machine. `is_dma_hazard` names exactly the cycles in which `exec0`
  and `exec1` drive the data memory, bubbles and flushes included.

All of it rests on one invariant, `TypeOK /\ PipeInv /\ E!DmaInv`. The stages are proved
in the order in which `sp_ctl` calls them, one lemma for the effect of each
(`Fetch0Effect`, ..., `Exec1Effect`), since later stages overwrite what earlier ones
wrote; `TurnEffect` composes them into the effect of the whole call. `PipeInv` has
two parts for the two halves of a cycle: what the old registers promise
(`Registers`, before the call), and what the call has left in the new ones
(until the commit). A stage behind the fetch holds an address because a fetch
out of range ends the run at the commit.

### The pipeline executes its program: `SP5ArchProofs`

For every image, width and size of the branch target buffer:

* `PipelineImplementsArch`: `Spec /\ []Regular => ImplementsPipeArch`.
* `PipelineImplementsIss`: `Spec /\ []Regular /\ []Common => ImplementsIss`.
* `ScheduledIsRegular`: `Spec /\ Scheduled(srami) => []Regular`, and with it
* `ScheduledImplementsArch`: `Spec /\ Scheduled(srami) => ImplementsPipeArch`,
* `ScheduledImplementsIss`: `Spec /\ Scheduled(srami) /\ []Common => ImplementsIss`,
* `TextImplementsIss`: `Spec /\ Scheduled(srami) /\ CommonText(srami) => ImplementsIss`.

The argument. `TurnMoves` says what a call of `sp_ctl` does to the pipe as a whole: it
flushes it, holds it back or moves it on; each stage has a lemma of its own, as in
`SP5Proofs`. From it follows the invariant `FlowInv` about the instructions on their way:

* `Path`: the active stages hold the program in order, each the predicted successor
  of the one ahead, bubbles aside; the oldest one is where the program is
  (`OldestPc`).
* `Text`: each stage holds the instruction of its address.
* `Results`: the instruction in `exec1` has the operands that the register file
  demands, and their result.
* `Operated`: a latched operand in `exec0` is the register's word, or a bypass will
  bring it. Neither `Results` nor `Operated` is inductive alone: the operand of
  the next `exec1` is the latched one or comes from one of two bypasses.
* `Owing`: a busy engine has words to write.

What the call leaves for the clock edge (`Retired`, `Accesses`, `Requests`, `Stopping`)
holds until then. At the edge the store or the request of the instruction in `exec1`, or a
step of the stream, reaches memory and copy (`CommitCases`, from the engine's `TurnInv`), and
the registers become those of the machine without a pipeline (`RegisterStep`). A cycle
with a bubble in `exec1` is a stutter, or a step of the copy alone. For `Iss` the engine
stays free (`EngineStaysFree`), and one lemma compares the two machines instruction by
instruction (`SameInstruction`).

`Regular` and `Common` (in `SP5`) are conditions on a program in execution, and each
conjunct of `Regular` excludes a behaviour in which the code does differ (section 7):

* an instruction that writes no register but has one in its `dst` field is not
  followed by a use of that register, unless it offers the register's word;
* `r7` is not used right behind a jump that was predicted taken;
* `LHI`, `DMA` and `DMP` do not take a register from a bypass;
* no bubble comes behind an instruction that a stall holds, and no such instruction
  waits for the word of a load that the stall forgets;
* a request has at least one word.

`Common` asks for opcodes of the simulator, no jump taken at the last address, and no
store over an instruction that is executed later. TLC finds `Regular` to hold of
every program of `sp5_arch` and of `sp5_straight`, and `Common` of every program of
`sp5_straight`; adding them to the INVARIANTs of these configurations repeats that check.

`Scheduled` asks the same of a program text, so that nothing about a run remains to be
assumed. It speaks of the addresses that the program may come to (`Reachable`, the least
set closed under falling through and jumping), so that data and code behind a `HLT` are free.
Four facts about the pipe make it enough (`TextInv`):

* `Gaps`: behind an active stage there is a bubble only if the instruction was
  predicted to jump and is no jump, and then the fetches are empty too.
* `Learned`, `BtbLearned`: every prediction was made by a reachable jump that shares the
  entry. What was fetched on a wrong prediction need not be reachable: the conditions are
  those at the address of the executed instruction, on what may follow it (`MayFollow`).
* `LoadBehind`: the load that the bypass holds is the instruction just before the
  oldest one, in the text.
* `Reaches`: the oldest instruction is reachable until `HLT` has stopped the simulation.

`CommonText` does for `Common` what `Scheduled` does for `Regular`: the opcodes of the
simulator at every reachable address, no jump at the last one, and stores to fixed
addresses that are not reachable. Then no store reaches the program (`Intact`) and no copy
is ever asked for, and `TextImplementsIss` assumes nothing of the run. Stores to computed
addresses need `[]Common`.

These are sufficient conditions, met by all but a few of the programs: of the 1935 images of
`sp5_arch` all are scheduled but the one that executes an undefined opcode, of the 8489 of
`sp5_straight` 8273 (the others use `r7` behind a jump), and these meet `CommonText`
too. With `BtbSize` 64 the six sample images of `lab1` and `lab2` are scheduled, and
`minus_3_times_minus_5` and both `example` images meet `CommonText`; `multiplication` and
`mult_table` store to computed addresses, `dma` uses the engine. (Counted with a transcription
of the two definitions: TLC's integers hold no 32-bit words, and `SUBSET Addr` is too
large to enumerate.)

### Loading and dumps: `LoaderProofs`

For every width of a word, every height and every file:

* `FieldReadsBack`: what `rbs` puts into a field of an int, `sbs` reads from it.
* `LongFieldIsExact`: `lrbs` changes nothing outside its field, *provided* that the
  field does not hold the sign bit of an int or the data do not set it. Without
  the proviso it is false, and whole words are injected without it.
* `MemoryHoldsImage`: `Spec => []MemoryIsImage`. After `i` injections the memory
  holds the first `i` words of the image, the word behind them is zero, or all
  ones if the last of them is negative, and the rest is zero: the spoiled word
  is injected next. `InjectsOne` says what eight bytes written do to a memory of
  words; the invariant adds to `MemoryIsImage` the types and how far each step of
  the loader has come (nothing injected while scanning; `i < addr` while
  injecting).
* `LoaderTypes`: `Spec => []TypeOK`, the counters of `iss.c` included.
* `DumpIsReloaded`: `Spec => []DumpReloads`. Both loaders get back what was dumped.
* `AssembledFileLoads`: `Spec => []AssembledIsLoaded`.
* `BothLoadersAgree`: `Spec => []LoadersAgree`.

The last three need to know what each loop has read. `FileInv` says so: `iss.c` has
the first `memIndex` lines in its memory and all of them are words
(`IssInvariant`, for every file), and if all lines of the file are words, the processors' scan
goes one line at a time (`LineInv`; a file without lines takes one turn). A dump is such a
file (`KeptInv`), so is what the assembler writes, and so is every file that `iss.c`
reads to its end, which is why the agreement holds for all of them.

## 5. What is model-checked only

* Liveness (`CopyEnds`, `Halts`, `Ends`, `Loads`): it rests on fairness, which is out
  of the provers' reach here.
* That the programs of the passing runs which are not scheduled are regular
  (`Regular` is checked there, state by state), and that scheduled programs with
  stores to computed addresses stay within `Common`.
* `ImageIsText`, the scan of files with white space and bad lines: it counts words
  with `SelectSeq`, whose recursive definition the provers do not see.
* The results of the assembled programs (`SumCorrect`, `MultCorrect`, `TableCorrect`,
  `CornersCorrect`, `LabProgramCorrect`) and what a program finds in its dump
  (`DumpHoldsPrefix`): statements about the programs of `Images` and not about every
  one. That the machine runs every common program as the simulator does is the
  theorem they rest on.
* `Lab3`, where TLC goes through all inputs of the circuits.

## 6. What is not modelled

* The traces: output without decisions. The comparison of instruction traces
  that the labs made by hand is the refinement `ImplementsIss`.
* The lists of units, registers and memories in llsim: they are built once, and
  only the clock reads them, to copy all registers and serve all memories. The
  names and widths given to `llsim_register_register` are never read.
* Files that cannot be opened, lines longer than the buffer of `iss.c`, and a
  file in which a word and something else share a line.
* Injection into part of a word: no program asks for it (`llsim_mem_inject` is
  always called for bits 31 to 0). `LongFieldIsExact` covers the helper.
* `LHI` on the multicycle processor, whose result depends on an earlier
  instruction (section 7): `SP2` models it, no abstract machine describes it.
* Images, expected traces, wave forms and other data of the labs.

## 7. Disagreements between code and documents

Three have runs (above). Those of the loaders are stated by the properties of
the run `loader` as the code has them:

* `lab2/llsim.h:88`: `lrbs` masks in an int and converts to an i64, so that a
  negative word fills the word behind it with ones. Injection goes upwards and
  repairs it, except behind the image: the processors start with -1 where the
  instruction set simulator has 0 (`LoadersAgree`). The data of the
  multiplication program in `lab1/asm.c:124` end with a negative word.
* `lab2/sp.c:574`: a line that is no number is read again until the memory is
  full, and the program is said to have 65536 lines; `iss.c` refuses such a file,
  and also one with an empty line. A file without words has one line for the
  processors and none for `iss.c`.
* `lab1/iss.c:202`: the number of lines is not compared with the size of the
  memory.

These were met while the modules were written, are
present in the modules as in the code, and are avoided by the programs of the
passing runs; each shows at once if such a program is added to `Images`.

Instruction set simulator and assembler

* `lab1/asm.c:74`: the multiplication program negates its multiplier; the
  smallest int is its own negation, and the arithmetic shift then leaves -1 for
  ever. `MCIss` uses the neighbours of that value.
* `lab1/iss.c:123`: `pc` has been incremented, and wrapped, before the link
  `*pc - 1` is computed as an int: a jump taken at 0xffff saves -1 in `r7`
  (`CornersCorrect` states this as the code has it).
  The pipeline saves the address of the jump; so does `PipeArch`.
* `lab1/iss.c:59`: an undefined opcode calls `exit(1)`, although the manual asks
  that nothing but `HLT` ends the simulator.

Multicycle processor

* `lab2/sp.c:276`: `LHI` merges with `sprn->aluout`, the result of the last
  instruction that used the ALU, instead of the destination register.
* `lab2/sp.c:365`: `JIN` goes to its immediate, not to its register. (`SpArch`
  adopts the code's reading, because `lab2/asm.c` uses it so.)
* `lab2/sp.c:378`: the halt test compares the whole instruction word with the
  opcode: the word 24, an `ADD` to `r0`, restarts the program.
* `lab2/sp.c:365`: a jump to an address of the upper half leaves `pc` negative,
  and `pc + 1` is not masked.
* `lab2/sp.c:342`: `ST` does not mask its address, while `LD` does; nor does the `ST` of
  `lab5`. The run ends there; `sp2_dma` and `sp5_arch` contain such stores.

Pipeline

* `lab5/sp.c:358,365`: the bypasses compare the `dst` field of whatever is in
  `exec1`, also of branches, stores and `DMA`, which write no register. The
  assembler leaves the field 0 in branches and stores, but a `DMA` instruction
  needs it: an instruction that reads that register within the next two gets the
  source address of the copy (`lab2/asm.c` reads it later than that).
* `lab5/sp.c:453`: an instruction that is not a jump but shares a branch target
  buffer entry with one empties `fetch1` and `dec0`. If it stalls in that cycle
  behind a load, the bubble clears it although it may not move, and it is never
  executed. With two entries the sum program shows it; with 64 the two
  addresses have to be 64 apart. In `sp5_arch` (four entries) no instruction that
  uses the word of a load right behind it shares an entry with a taken jump.
* `lab5/sp.c:617`: `r7` is written beside the bypasses: behind a jump predicted
  taken the next instruction reads the old `r7`.
* `lab5/sp.c:523`: `LHI` exchanges the halves.
* `lab5/sp.c:534`: `DMP` tests a register and never looks at `dma_busy`.
* `lab5/sp.c:399`: `fetch0_pc + 1` is not masked: a program that fills the memory
  fails the range assertion before its last instructions execute.
* `lab5/sp.c:603`: a request made while a copy runs is dropped without a sign
  (the multicycle processor retries it).

## 8. Plan

Done: the engine and its abstractions, the three simulators, their refinements
to `Iss`, `SpArch`, `PipeArch` and `DmaCtl`, the dumps, the loaders, the Verilog of
`lab3`. Proofs: the engine's invariants and both its refinements; types of every
simulator; both processors against the engine; the stalls and bypasses of the
pipeline; the multicycle processor against `SpArch` and `Iss`; the pipeline against
`PipeArch` and `Iss`, and the program texts for which that holds; injection, dumps and
the agreement of the loaders.

Next, in this order:

1. `CommonText` for stores to computed addresses: that needs the ranges of the
   registers in a program.
2. `Scheduled` counts a jump that is never taken like one that is; this too needs
   values.
3. The circuits of `Gates` against arithmetic: a finite statement, for which the
   provers need the case split over the bits spelled out.
