---------------------------- MODULE DmaCtlProofs ----------------------------
(***************************************************************************)
(* Theorems about the DMA engine, for every memory size, word set, set of  *)
(* requested lengths and set of processor addresses: the port is never     *)
(* driven twice, and the engine implements the ordered stream of StreamCopy*)
(* for every processor, and the plain copy of BlockCopy for a processor    *)
(* whose program keeps clear of the words in flight.                       *)
(***************************************************************************)
EXTENDS DmaCtl, TLAPS, Sequences

(***************************************************************************)
(* Addresses wrap within the memory.                                       *)
(***************************************************************************)
LEMMA AddrWraps ==
    ASSUME NEW a \in Addr
    PROVE  /\ Inc(a) \in Addr /\ Dec(a) \in Addr
           /\ Dec(Inc(a)) = a
           /\ a \in Int /\ 0 \in Addr
BY HeightAssumption DEF Addr, Inc, Dec

(***************************************************************************)
(* The memory interface keeps the types.                                   *)
(***************************************************************************)
LEMMA ReadType ==
    ASSUME TypeOK, NEW a \in Int, llsim_mem_read(a)
    PROVE  port' \in Port /\ fault' \in {"none", "port", "range"}
BY DEF TypeOK, Port, llsim_mem_read

\* A write to a record of ports yields a port.
LEMMA WriteType ==
    ASSUME TypeOK, NEW a \in Int, NEW v \in Word, llsim_mem_write(a, v)
    PROVE  port' \in Port /\ fault' \in {"none", "port", "range"}
BY DEF TypeOK, Port, llsim_mem_write

\* A request leaves registers.
LEMMA RequestType ==
    ASSUME TypeOK, MayRequest
    PROVE  dman' \in DmaRegisters
BY LensAssumption DEF TypeOK, MayRequest, DmaRequest, DmaRegisters

\* So does the write of a word.
LEMMA WriteWordType ==
    ASSUME TypeOK, NEW n \in DmaRegisters, WriteWord(n)
    PROVE  /\ dman' \in DmaRegisters /\ port' \in Port
           /\ fault' \in {"none", "port", "range"}
<1>1. dma.dst \in Addr /\ dma.reg \in Word /\ dma.len \in Int
  BY DEF TypeOK, DmaRegisters
<1>2. Inc(dma.dst) \in Addr /\ dma.dst \in Int
  BY <1>1, AddrWraps
<1>3. dman' \in DmaRegisters
  <2>1. dma.len - 1 \in Int
    BY <1>1
  <2>2. (IF dma.len = 2 THEN "WRITE_LAST" ELSE "DO_READ") \in DmaState
    BY DEF DmaState
  <2> QED BY <1>2, <2>1, <2>2 DEF WriteWord, DmaRegisters
<1>4. port' \in Port /\ fault' \in {"none", "port", "range"}
  BY <1>1, <1>2, WriteType DEF WriteWord
<1> QED BY <1>3, <1>4

\* The reset state has the types.
LEMMA TypeInit ==
    ASSUME Init
    PROVE  TypeOK
<1>1. 0 \in Addr
  BY HeightAssumption DEF Addr
<1>2. dma \in DmaRegisters /\ dman \in DmaRegisters
  BY <1>1, WordAssumption DEF Init, ResetRegisters, DmaRegisters, DmaState
<1>3. port \in Port
  BY WordAssumption, JunkAssumption DEF Init, QuietPort, Port
<1> QED BY <1>2, <1>3, ImagesAssumption DEF Init, TypeOK

\* Every step keeps them.
LEMMA TypeStep ==
    ASSUME TypeOK, [Next]_vars
    PROVE  TypeOK'
<1>1. CASE CpuIdle
  BY <1>1, RequestType DEF TypeOK, CpuIdle, CtlFrame, NoAccess
<1>2. CASE CpuRead
  BY <1>2, RequestType, ReadType, CpuAddrAssumption
  DEF TypeOK, CpuRead, CtlFrame
<1>3. CASE CpuWrite
  BY <1>3, WriteType, CpuAddrAssumption, CpuWordAssumption
  DEF TypeOK, CpuWrite, CtlFrame
<1>4. CASE CpuHalt
  BY <1>4, ReadType, CpuAddrAssumption DEF TypeOK, CpuHalt, CtlFrame, NoAccess
<1>5. CASE DmaIdle
  BY <1>5 DEF TypeOK, DmaIdle, DmaFrame, NoAccess, DmaRegisters, DmaState
<1>6. CASE DmaReadFirst
  <2>1. dma.src \in Addr /\ dma.src \in Int /\ Inc(dma.src) \in Addr
    BY AddrWraps DEF TypeOK, DmaRegisters
  <2>2. dman' \in DmaRegisters
    BY <1>6, <2>1 DEF TypeOK, DmaReadFirst, DmaRegisters, DmaState
  <2>3. port' \in Port /\ fault' \in {"none", "port", "range"}
    BY <1>6, <2>1, ReadType DEF TypeOK, DmaReadFirst, NoAccess
  <2> QED BY <1>6, <2>2, <2>3 DEF TypeOK, DmaReadFirst, DmaFrame
<1>7. CASE DmaDoRead
  <2>1. dma.src \in Addr /\ dma.src \in Int /\ Inc(dma.src) \in Addr
    BY AddrWraps DEF TypeOK, DmaRegisters
  <2>2. LatchedReg \in Word
    BY DEF TypeOK, LatchedReg, DmaRegisters, Port
  <2>3. dman' \in DmaRegisters
    BY <1>7, <2>1, <2>2 DEF TypeOK, DmaDoRead, DmaRegisters, DmaState
  <2>4. port' \in Port /\ fault' \in {"none", "port", "range"}
    BY <1>7, <2>1, ReadType DEF TypeOK, DmaDoRead, NoAccess
  <2> QED BY <1>7, <2>3, <2>4 DEF TypeOK, DmaDoRead, DmaFrame
<1>8. CASE DmaDoWrite
  <2>1. LatchedReg \in Word
    BY DEF TypeOK, LatchedReg, DmaRegisters, Port
  <2>2. [dman EXCEPT !.reg = LatchedReg, !.dirty = FALSE] \in DmaRegisters
    BY <2>1 DEF TypeOK, DmaRegisters
  <2>3. CASE hazard
    BY <1>8, <2>3 DEF TypeOK, DmaDoWrite, DmaFrame, NoAccess, DmaRegisters,
                       DmaState, Port
  <2>4. CASE ~hazard
    BY <1>8, <2>2, <2>4, WriteWordType DEF TypeOK, DmaDoWrite, DmaFrame
  <2> QED BY <2>3, <2>4 DEF TypeOK
<1>9. CASE DmaWriteStalled
  <2>1. [dman EXCEPT !.reg = dma.reg2] \in DmaRegisters
    BY DEF TypeOK, DmaRegisters
  <2> QED BY <1>9, <2>1, WriteWordType
          DEF TypeOK, DmaWriteStalled, DmaFrame, NoAccess
<1>10. CASE DmaWriteLast
  <2>1. dma.dst \in Addr /\ dma.dst \in Int /\ dma.reg \in Word
    BY AddrWraps DEF TypeOK, DmaRegisters
  <2>2. dman' \in DmaRegisters
    BY <1>10 DEF TypeOK, DmaWriteLast, DmaRegisters, DmaState
  <2>3. port' \in Port /\ fault' \in {"none", "port", "range"}
    BY <1>10, <2>1, WriteType DEF TypeOK, DmaWriteLast, NoAccess
  <2> QED BY <1>10, <2>2, <2>3 DEF TypeOK, DmaWriteLast, DmaFrame
<1>11. CASE DmaDo
  BY <1>11 DEF TypeOK, DmaDo, DmaFrame, NoAccess, DmaRegisters, DmaState, Port
<1>12. CASE Commit
  <2>1. DataOut \in Word
    BY <1>12, JunkAssumption DEF TypeOK, Commit, OutOfRange, DataOut, Port
  <2>2. port' \in Port
    BY <1>12, <2>1, WordAssumption DEF Commit, QuietPort, Port
  <2>3. sram' \in [Addr -> Word]
    BY <1>12 DEF TypeOK, Commit, OutOfRange, Port
  <2> QED BY <1>12, <2>2, <2>3 DEF TypeOK, Commit, CommitFrame
<1>13. CASE CommitFault
  BY <1>13 DEF TypeOK, CommitFault, CommitFrame
<1>14. CASE UNCHANGED vars
  BY <1>14 DEF TypeOK, vars
<1> QED BY <1>1, <1>2, <1>3, <1>4, <1>5, <1>6, <1>7, <1>8, <1>9, <1>10,
           <1>11, <1>12, <1>13, <1>14 DEF Next, Cpu, Dma, Stopped

(***************************************************************************)
(* Every reachable state has the types of the registers, the memory and    *)
(* the port: sp_registers_t, the array and the ports of llsim_memory_t.    *)
(***************************************************************************)
THEOREM TypeCorrect == Spec => []TypeOK
<1>1. Init => TypeOK
  BY TypeInit
<1>2. TypeOK /\ [Next]_vars => TypeOK'
  BY TypeStep
<1> QED BY <1>1, <1>2, PTL DEF Spec

-----------------------------------------------------------------------------
(***************************************************************************)
(* One turn of the processor, and one of the engine, preserve DmaInv.      *)
(***************************************************************************)
LEMMA CpuKeepsInv ==
    ASSUME TypeOK, DmaInv, Cpu
    PROVE  DmaInv'
<1> USE DEF DmaInv
<1>1. /\ phase = "ctl" /\ phase' = "dma" /\ fault = "none"
      /\ dman = dma /\ dma' = dma /\ sram' = sram /\ hazard' = hazard
      /\ ~port.read /\ ~port.write
  BY DEF Cpu, CpuIdle, CpuRead, CpuWrite, CpuHalt, CtlFrame, Latched, PortOwner
<1>2. MayRequest
  BY DEF Cpu, CpuIdle, CpuRead, CpuWrite, CpuHalt, MayRequest
<1>3. Control(dma)' /\ Control(dman)' /\ Latched'
  <2>1. CASE UNCHANGED dman
    BY <1>1, <2>1 DEF Control, Latched
  <2>2. CASE \E s, d \in Addr, n \in Lens : DmaRequest(s, d, n)
    <3>1. PICK s \in Addr, d \in Addr, n \in Lens : DmaRequest(s, d, n)
      BY <2>2
    <3>2. dma.state = "IDLE" /\ ~dma.busy
      BY <3>1 DEF DmaRequest, Control
    <3>3. /\ dman'.state = dma.state /\ dman'.reg = dma.reg
          /\ dman'.reg2 = dma.reg2 /\ dman'.dirty = dma.dirty
      BY <1>1, <3>1 DEF DmaRequest, TypeOK, DmaRegisters
    <3> QED BY <1>1, <3>2, <3>3 DEF Control, Latched
  <2> QED BY <1>2, <2>1, <2>2 DEF MayRequest
<1>4. CASE NoAccess
  <2>1. PortOwner' /\ Fresh'
    BY <1>1, <1>4 DEF NoAccess, PortOwner, Fresh, Latching, OutOfRange
  <2> QED BY <1>3, <2>1
<1>5. CASE hazard /\ \E a \in CpuAddr : llsim_mem_read(a)
  <2>1. PICK a \in CpuAddr : llsim_mem_read(a)
    BY <1>5
  <2>2. /\ fault' = "none" /\ port'.dataout = port.dataout
        /\ port'.read /\ port'.raddr = a /\ ~port'.write
    BY <1>1, <2>1 DEF llsim_mem_read, TypeOK, Port
  <2>3. PortOwner'
    BY <1>1, <1>5, <2>2 DEF PortOwner
  <2>4. Fresh'
    BY <1>1, <2>2 DEF Fresh, Latching
  <2> QED BY <1>3, <2>3, <2>4
<1>6. CASE hazard /\ \E a \in CpuAddr, v \in CpuWord : llsim_mem_write(a, v)
  <2>1. PICK a \in CpuAddr, v \in CpuWord : llsim_mem_write(a, v)
    BY <1>6
  <2>2. /\ fault' = "none" /\ port'.dataout = port.dataout
        /\ port'.write /\ port'.waddr = a /\ ~port'.read
    BY <1>1, <2>1 DEF llsim_mem_write, TypeOK, Port
  <2>3. PortOwner'
    BY <1>1, <1>6, <2>2 DEF PortOwner
  <2>4. Fresh'
    BY <1>1, <2>2 DEF Fresh, Latching
  <2> QED BY <1>3, <2>3, <2>4
<1> QED BY <1>4, <1>5, <1>6 DEF Cpu, CpuIdle, CpuRead, CpuWrite, CpuHalt

(***************************************************************************)
(* What a turn of the engine does with the port: nothing in a cycle of the *)
(* processor, and one access within the memory otherwise.                  *)
(***************************************************************************)
LEMMA DmaUsesPort ==
    ASSUME TypeOK, DmaInv, Dma
    PROVE  \/ NoAccess
           \/ ~hazard /\ llsim_mem_read(dma.src)
           \/ ~hazard /\ llsim_mem_write(dma.dst, dma.reg)
BY DEF Dma, DmaIdle, DmaReadFirst, DmaDoRead, DmaDoWrite, DmaWriteStalled,
       DmaWriteLast, DmaDo, WriteWord

\* The engine's turn keeps the owner of the port.
LEMMA DmaKeepsPortOwner ==
    ASSUME TypeOK, DmaInv, Dma
    PROVE  PortOwner'
<1>1. /\ phase = "dma" /\ phase' = "commit" /\ hazard' = hazard
      /\ fault = "none"
  BY DEF Dma, DmaIdle, DmaReadFirst, DmaDoRead, DmaDoWrite, DmaWriteStalled,
         DmaWriteLast, DmaDo, DmaFrame
<1>2. dma.src \in Addr /\ dma.dst \in Addr /\ PortOwner
  BY DEF TypeOK, DmaRegisters, DmaInv
<1>3. CASE NoAccess
  BY <1>1, <1>2, <1>3 DEF NoAccess, PortOwner
<1>4. CASE ~hazard /\ llsim_mem_read(dma.src)
  <2>1. ~port.read /\ ~port.write
    BY <1>1, <1>2, <1>4 DEF PortOwner
  <2>2. /\ fault' = "none" /\ port'.read /\ port'.raddr = dma.src
        /\ ~port'.write
    BY <1>1, <1>4, <2>1 DEF llsim_mem_read, TypeOK, Port
  <2> QED BY <1>1, <1>2, <1>4, <2>2 DEF PortOwner
<1>5. CASE ~hazard /\ llsim_mem_write(dma.dst, dma.reg)
  <2>1. ~port.read /\ ~port.write
    BY <1>1, <1>2, <1>5 DEF PortOwner
  <2>2. /\ fault' = "none" /\ port'.write /\ port'.waddr = dma.dst
        /\ ~port'.read
    BY <1>1, <1>5, <2>1 DEF llsim_mem_write, TypeOK, Port
  <2> QED BY <1>1, <1>2, <1>5, <2>2 DEF PortOwner
<1> QED BY <1>3, <1>4, <1>5, DmaUsesPort

(***************************************************************************)
(* The registers computed by a turn of the engine fit their new state, and *)
(* a read of the engine is the one the next state will latch.              *)
(***************************************************************************)
LEMMA DmaKeepsControl ==
    ASSUME TypeOK, DmaInv, Dma
    PROVE  /\ Control(dma)' /\ Control(dman)'
           /\ dman'.state \in Latching /\ dman'.dirty =>
                 port'.read /\ port'.raddr = Dec(dman'.src)
<1> DEFINE Reads == dman'.state \in Latching /\ dman'.dirty =>
                      port'.read /\ port'.raddr = Dec(dman'.src)
<1> USE DEF DmaInv, Control, Latching
<1>1. /\ phase = "dma" /\ dman.state = dma.state /\ dman.dirty = dma.dirty
      /\ dma.busy => dman = dma
      /\ dma \in DmaRegisters /\ dman \in DmaRegisters /\ port \in Port
  BY DEF Dma, DmaIdle, DmaReadFirst, DmaDoRead, DmaDoWrite, DmaWriteStalled,
         DmaWriteLast, DmaDo, DmaFrame, Latched, TypeOK
<1>2. dma.src \in Addr /\ Inc(dma.src) \in Addr /\ Dec(Inc(dma.src)) = dma.src
  BY <1>1, AddrWraps DEF DmaRegisters
<1>3. CASE DmaIdle
  BY <1>1, <1>3 DEF DmaIdle, DmaRegisters
<1>4. CASE DmaReadFirst
  <2>1. dma' = dma /\ dma.state = "READ_FIRST" /\ dman = dma
    BY <1>1, <1>4 DEF DmaReadFirst
  <2>2. CASE hazard
    BY <1>4, <2>1, <2>2 DEF DmaReadFirst
  <2>3. CASE ~hazard
    <3>1. /\ dman'.busy = dma.busy /\ dman'.len = dma.len
          /\ dman'.dirty /\ dman'.src = Inc(dma.src)
          /\ dman'.state = IF dma.len = 1 THEN "DO" ELSE "DO_READ"
      BY <1>1, <1>4, <2>1, <2>3 DEF DmaReadFirst, DmaRegisters
    <3>2. port'.read /\ port'.raddr = dma.src
      BY <1>1, <1>4, <2>3 DEF DmaReadFirst, llsim_mem_read, Port
    <3>3. dma.len \in Int
      BY <1>1 DEF DmaRegisters
    <3> QED BY <1>2, <2>1, <3>1, <3>2, <3>3
  <2> QED BY <2>2, <2>3
<1>5. CASE DmaDoRead
  BY <1>1, <1>2, <1>5 DEF DmaDoRead, llsim_mem_read, DmaRegisters, Port
<1>6. CASE DmaDoWrite
  <2>1. dma' = dma /\ dma.state = "DO_WRITE" /\ dman = dma /\ dma.len \in Int
    BY <1>1, <1>6 DEF DmaDoWrite, DmaRegisters
  <2>2. CASE hazard
    BY <1>1, <1>6, <2>1, <2>2 DEF DmaDoWrite, DmaRegisters
  <2>3. CASE ~hazard
    <3>1. /\ dman'.busy = dma.busy /\ dman'.len = dma.len - 1
          /\ dman'.dirty = FALSE
          /\ dman'.state = IF dma.len = 2 THEN "WRITE_LAST" ELSE "DO_READ"
      BY <1>1, <1>6, <2>1, <2>3 DEF DmaDoWrite, WriteWord, DmaRegisters
    <3> QED BY <2>1, <3>1
  <2> QED BY <2>2, <2>3
<1>7. CASE DmaWriteStalled
  <2>1. /\ dma' = dma /\ dma.state = "WRITE_STALLED" /\ dman = dma
        /\ dma.len \in Int
    BY <1>1, <1>7 DEF DmaWriteStalled, DmaRegisters
  <2>2. CASE hazard
    BY <1>1, <1>7, <2>1, <2>2 DEF DmaWriteStalled
  <2>3. CASE ~hazard
    <3>1. /\ dman'.busy = dma.busy /\ dman'.len = dma.len - 1
          /\ dman'.dirty = dma.dirty
          /\ dman'.state = IF dma.len = 2 THEN "WRITE_LAST" ELSE "DO_READ"
      BY <1>1, <1>7, <2>1, <2>3 DEF DmaWriteStalled, WriteWord, DmaRegisters
    <3> QED BY <2>1, <3>1
  <2> QED BY <2>2, <2>3
<1>8. CASE DmaWriteLast
  BY <1>1, <1>8 DEF DmaWriteLast, DmaRegisters
<1>9. CASE DmaDo
  BY <1>1, <1>9 DEF DmaDo, DmaRegisters
<1> QED BY <1>3, <1>4, <1>5, <1>6, <1>7, <1>8, <1>9 DEF Dma

\* The engine's turn keeps the whole invariant.
LEMMA DmaKeepsInv ==
    ASSUME TypeOK, DmaInv, Dma
    PROVE  DmaInv'
<1>1. phase' = "commit" /\ PortOwner' /\ Control(dma)' /\ Control(dman)'
  BY DmaKeepsPortOwner, DmaKeepsControl
  DEF Dma, DmaIdle, DmaReadFirst, DmaDoRead, DmaDoWrite, DmaWriteStalled,
      DmaWriteLast, DmaDo, DmaFrame
<1>2. Fresh'
  BY <1>1, DmaKeepsControl DEF Fresh
<1> QED BY <1>1, <1>2 DEF DmaInv, Latched

(***************************************************************************)
(* At the commit the word asked for reaches the data output, and the new   *)
(* registers become the old ones.                                          *)
(***************************************************************************)
LEMMA CommitKeepsInv ==
    ASSUME TypeOK, DmaInv, Commit
    PROVE  DmaInv'
<1> USE DEF DmaInv
<1>1. /\ phase = "commit" /\ phase' = "ctl" /\ dma' = dman /\ dman' = dman
      /\ ~(port.read /\ port.write)
  BY DEF Commit, CommitFrame, PortOwner
<1>2. /\ ~port'.read /\ ~port'.write /\ fault' = "none"
      /\ port'.dataout = DataOut
  BY <1>1 DEF Commit, QuietPort
<1>3. Control(dma)' /\ Control(dman)' /\ Latched'
  BY <1>1 DEF Control, Latched
<1>4. PortOwner'
  BY <1>1, <1>2 DEF PortOwner
<1>5. Fresh'
  <2>1. SUFFICES ASSUME dman.state \in Latching, dman.dirty
                 PROVE  port'.dataout = sram'[Dec(dman.src)]
    BY <1>1 DEF Fresh
  <2>2. port.read /\ port.raddr = Dec(dman.src) /\ ~port.write
    BY <1>1, <2>1 DEF Fresh
  <2>3. sram' = sram /\ DataOut = sram[port.raddr]
    BY <2>2 DEF Commit, DataOut
  <2> QED BY <1>2, <2>2, <2>3
<1> QED BY <1>3, <1>4, <1>5

\* After reset nothing is in progress.
LEMMA DmaInvInit ==
    ASSUME Init
    PROVE  DmaInv
BY DEF Init, ResetRegisters, QuietPort, DmaInv, Control, Latched, PortOwner,
       Fresh, Latching

\* Every step keeps the invariant.
LEMMA DmaInvStep ==
    ASSUME TypeOK, DmaInv, [Next]_vars
    PROVE  DmaInv'
<1>1. CASE Cpu
  BY <1>1, CpuKeepsInv
<1>2. CASE Dma
  BY <1>2, DmaKeepsInv
<1>3. CASE Commit
  BY <1>3, CommitKeepsInv
<1>4. CASE CommitFault
  BY <1>4 DEF CommitFault, CommitFrame, DmaInv, Control, Latched, PortOwner,
              Fresh, OutOfRange
<1>5. CASE UNCHANGED vars
  BY <1>5 DEF vars, DmaInv, Control, Latched, PortOwner, Fresh, OutOfRange
<1> QED BY <1>1, <1>2, <1>3, <1>4, <1>5 DEF Next, Stopped

(***************************************************************************)
(* DmaInv holds in every reachable state.                                  *)
(***************************************************************************)
THEOREM DmaInvariant == Spec => []DmaInv
<1>1. Init => DmaInv
  BY DmaInvInit
<1>2. TypeOK /\ DmaInv /\ [Next]_vars => DmaInv'
  BY DmaInvStep
<1> QED BY <1>1, <1>2, TypeCorrect, PTL DEF Spec

(***************************************************************************)
(* The engine never drives the port in a cycle of the processor nor twice  *)
(* in a cycle, and never leaves the memory: no llsim assertion is its      *)
(* doing (llsim_mem_read, llsim_mem_write, llsim_run_clock).               *)
(***************************************************************************)
THEOREM PortExclusive == Spec => []NoDmaFault
<1>1. DmaInv => NoDmaFault
  BY DEF DmaInv, PortOwner, NoDmaFault, OutOfRange
<1> QED BY <1>1, DmaInvariant, PTL

(***************************************************************************)
(* What the engine latches from the data output is the word it read in the *)
(* previous cycle, whatever the processor did in between.                  *)
(***************************************************************************)
THEOREM DataOutIsFresh == Spec => []FreshDataOut
<1>1. DmaInv => FreshDataOut
  BY DEF DmaInv, Fresh, Latching, FreshDataOut
<1> QED BY <1>1, DmaInvariant, PTL

-----------------------------------------------------------------------------
NoJob == [from |-> 0, to |-> 0, todo |-> 0]

(***************************************************************************)
(* What a clock cycle has decided when it comes to the commit: the stream  *)
(* stands still (the processor may store), takes a request, fetches a word *)
(* or writes one, the last two in a cycle that is none of the processor's. *)
(***************************************************************************)
Held ==
    /\ port.write => hazard
    /\ JobOf(dman) = JobOf(dma)
    /\ \A out : BufOf(dman, out) = BufOf(dma, port.dataout)
    /\ port.write /\ Disciplined => port.waddr \notin InFlight

Asked ==
    /\ ~port.write
    /\ JobOf(dma) = NoJob
    /\ BufOf(dma, port.dataout) = << >>
    /\ \A out : BufOf(dman, out) = << >>
    /\ dman.busy /\ dman.len > 0
    /\ Disciplined => dman.dst # Inc(dman.src)

Fetched ==
    /\ ~hazard
    /\ port.read /\ ~port.write
    /\ dma.busy /\ dma.len > 0
    /\ port.raddr = dma.src
    /\ \/ /\ BufOf(dma, port.dataout) = << >>
          /\ \A out : BufOf(dman, out) = <<out>>
       \/ /\ dma.len > 1
          /\ \E w \in Word :
                /\ BufOf(dma, port.dataout) = <<w>>
                /\ \A out : BufOf(dman, out) = <<w, out>>
    /\ JobOf(dman) = [JobOf(dma) EXCEPT !.from = Inc(dma.src)]

Written ==
    /\ ~hazard
    /\ port.write /\ ~port.read
    /\ dma.busy /\ dma.len > 0
    /\ port.waddr = dma.dst
    /\ \/ /\ BufOf(dma, port.dataout) = <<port.datain>>
          /\ \A out : BufOf(dman, out) = << >>
       \/ \E w \in Word :
             /\ BufOf(dma, port.dataout) = <<port.datain, w>>
             /\ \A out : BufOf(dman, out) = <<w>>
    /\ JobOf(dman) = IF dma.len = 1 THEN NoJob
                     ELSE [from |-> dma.src, to |-> Inc(dma.dst),
                           todo |-> dma.len - 1]

\* Before the engine's turn: a store is clear of the words in flight, a
\* request comes without a store.
Prepared ==
    /\ port.write /\ Disciplined => port.waddr \notin InFlight
    /\ ~dma.busy => \/ dman = dma
                    \/ /\ ~port.write /\ dman.busy
                       /\ Disciplined => dman.dst # Inc(dman.src)

TurnInv ==
    /\ phase = "dma" => Prepared
    /\ phase = "commit" => Held \/ Asked \/ Fetched \/ Written

-----------------------------------------------------------------------------
(***************************************************************************)
(* The processor's turn prepares the engine's.                             *)
(***************************************************************************)
LEMMA CpuPrepares ==
    ASSUME TypeOK, DmaInv, Cpu
    PROVE  TurnInv'
<1>1. /\ phase = "ctl" /\ phase' = "dma" /\ dma' = dma /\ dman = dma
      /\ ~port.write
  BY DEF Cpu, CpuIdle, CpuRead, CpuWrite, CpuHalt, CtlFrame, DmaInv, Latched,
         PortOwner
<1>2. CASE CpuWrite
  <2>1. PICK a \in CpuAddr, v \in CpuWord :
           (Disciplined => a \notin InFlight) /\ llsim_mem_write(a, v)
    BY <1>2 DEF CpuWrite
  <2>2. port'.waddr = a /\ dman' = dman /\ InFlight' = InFlight
    BY <1>1, <1>2, <2>1 DEF llsim_mem_write, CpuWrite, TypeOK, Port, InFlight
  <2> QED BY <1>1, <2>1, <2>2 DEF TurnInv, Prepared
<1>3. CASE CpuIdle \/ CpuRead \/ CpuHalt
  <2>1. ~port'.write
    BY <1>1, <1>3 DEF CpuIdle, CpuRead, CpuHalt, NoAccess, llsim_mem_read,
                      TypeOK, Port
  <2>2. MayRequest
    BY <1>3 DEF CpuIdle, CpuRead, CpuHalt, MayRequest
  <2>3. CASE UNCHANGED dman
    BY <1>1, <2>1, <2>3 DEF TurnInv, Prepared
  <2>4. CASE \E s, d \in Addr, n \in Lens : DmaRequest(s, d, n)
    <3>1. PICK s \in Addr, d \in Addr, n \in Lens : DmaRequest(s, d, n)
      BY <2>4
    <3>2. /\ dman'.busy /\ dman'.dst = d /\ dman'.src = s
          /\ Disciplined => d # Inc(s)
      BY <1>1, <3>1 DEF DmaRequest, TypeOK, DmaRegisters
    <3> QED BY <1>1, <2>1, <3>2 DEF TurnInv, Prepared
  <2> QED BY <2>2, <2>3, <2>4 DEF MayRequest
<1> QED BY <1>2, <1>3 DEF Cpu

(***************************************************************************)
(* The engine's turn, one lemma per state.                                 *)
(***************************************************************************)
LEMMA IdleTurn ==
    ASSUME TypeOK, DmaInv, TurnInv, DmaIdle
    PROVE  Held' \/ Asked'
<1>1. /\ dma.state = "IDLE" /\ dman.state = "IDLE" /\ phase = "dma"
      /\ port' = port /\ dma \in DmaRegisters /\ dman \in DmaRegisters
      /\ dma.busy => dman = dma
      /\ port'.write => hazard'
  BY DEF DmaIdle, DmaFrame, NoAccess, DmaInv, Latched, PortOwner, TypeOK
<1>2. CASE dma.busy /\ dma.len > 0
  <2>1. dma' = dma /\ dman' = [dma EXCEPT !.state = "READ_FIRST"]
    BY <1>1, <1>2 DEF DmaIdle
  <2>2. /\ dman'.busy = dma.busy /\ dman'.len = dma.len /\ dman'.src = dma.src
        /\ dman'.dst = dma.dst /\ dman'.state = "READ_FIRST"
    BY <1>1, <2>1 DEF DmaRegisters
  <2>3. JobOf(dman') = JobOf(dma')
    BY <2>1, <2>2 DEF JobOf
  <2>4. InFlight' = {}
    BY <1>1, <2>1 DEF InFlight
  <2>5. BufOf(dma', port'.dataout) = << >> /\ \A out : BufOf(dman', out) = << >>
    BY <1>1, <2>1, <2>2 DEF BufOf
  <2> QED BY <1>1, <2>3, <2>4, <2>5 DEF Held
<1>3. CASE ~(dma.busy /\ dma.len > 0)
  <2>1. dma' = [dma EXCEPT !.busy = FALSE] /\ dman' = dman
    BY <1>1, <1>3 DEF DmaIdle
  <2>2. ~dma'.busy /\ dma'.state = "IDLE"
    BY <1>1, <2>1 DEF DmaRegisters
  <2>3. JobOf(dma') = NoJob /\ InFlight' = {}
    BY <2>2 DEF JobOf, NoJob, InFlight
  <2>4. BufOf(dma', port'.dataout) = << >> /\ \A out : BufOf(dman', out) = << >>
    BY <1>1, <2>1, <2>2 DEF BufOf
  <2>5. CASE dman.busy /\ dman.len > 0
    <3>1. ~dma.busy /\ dman # dma
      BY <1>1, <1>3, <2>5
    <3>2. ~port.write /\ (Disciplined => dman.dst # Inc(dman.src))
      BY <1>1, <3>1 DEF TurnInv, Prepared
    <3> QED BY <1>1, <2>1, <2>3, <2>4, <2>5, <3>2 DEF Asked
  <2>6. CASE ~(dman.busy /\ dman.len > 0)
    <3>1. JobOf(dman') = NoJob
      BY <2>1, <2>6 DEF JobOf, NoJob
    <3> QED BY <1>1, <2>3, <2>4, <3>1 DEF Held
  <2> QED BY <2>5, <2>6
<1> QED BY <1>2, <1>3

(***************************************************************************)
(* Outside the idle state the new registers start from the old ones, a     *)
(* cycle of the processor leaves the port as it is, and another finds it   *)
(* unused.                                                                 *)
(***************************************************************************)
LEMMA BusyTurn ==
    ASSUME TypeOK, DmaInv, TurnInv, Dma, dma.state # "IDLE"
    PROVE  /\ phase = "dma" /\ dman = dma /\ dma' = dma
           /\ dma.busy /\ dma.len > 0 /\ dma.len \in Int
           /\ dma \in DmaRegisters /\ port \in Port
           /\ hazard \/ (~port.read /\ ~port.write)
           /\ hazard' <=> hazard
           /\ port.write /\ Disciplined => port.waddr \notin InFlight
           /\ InFlight' = InFlight
<1>1. /\ phase = "dma" /\ dma' = dma /\ hazard' = hazard
  BY DEF Dma, DmaIdle, DmaReadFirst, DmaDoRead, DmaDoWrite, DmaWriteStalled,
         DmaWriteLast, DmaDo, DmaFrame
<1>2. dma \in DmaRegisters /\ port \in Port /\ dma.len \in Int
  BY DEF TypeOK, DmaRegisters
<1>3. dma.busy /\ dma.len > 0 /\ dman = dma
  BY <1>1 DEF DmaInv, Control, Latched
<1>4. hazard \/ (~port.read /\ ~port.write)
  BY <1>1 DEF DmaInv, PortOwner
<1>5. port.write /\ Disciplined => port.waddr \notin InFlight
  BY <1>1 DEF TurnInv, Prepared
<1>6. InFlight' = InFlight
  BY <1>1 DEF InFlight
<1> QED BY <1>1, <1>2, <1>3, <1>4, <1>5, <1>6

\* The first read, when the processor leaves the port free.
LEMMA ReadFirstTurn ==
    ASSUME TypeOK, DmaInv, TurnInv, DmaReadFirst
    PROVE  Held' \/ Fetched'
<1>1. dma.state = "READ_FIRST" /\ Dma
  BY DEF DmaReadFirst, Dma
<1>2. BufOf(dma', port'.dataout) = << >>
  BY <1>1, BusyTurn DEF BufOf
<1>3. CASE hazard
  <2>1. port' = port /\ dman' = dma /\ dma' = dma
    BY <1>1, <1>3, BusyTurn DEF DmaReadFirst, NoAccess
  <2>2. \A out : BufOf(dman', out) = << >>
    BY <1>1, <2>1 DEF BufOf
  <2> QED BY <1>1, <1>2, <2>1, <2>2, BusyTurn DEF Held
<1>4. CASE ~hazard
  <2>1. /\ dma' = dma /\ dma.len \in Int /\ dma.len > 0 /\ dma.busy
        /\ dman'.busy = dma.busy /\ dman'.len = dma.len
        /\ dman'.dirty /\ dman'.src = Inc(dma.src) /\ dman'.dst = dma.dst
        /\ dman'.state = IF dma.len = 1 THEN "DO" ELSE "DO_READ"
    <3>1. /\ dma' = dma /\ dman = dma /\ dma.len \in Int /\ dma.len > 0
          /\ dma.busy /\ dma \in DmaRegisters
      BY <1>1, BusyTurn
    <3> QED BY <1>4, <3>1 DEF DmaReadFirst, DmaRegisters
  <2>2. port'.read /\ port'.raddr = dma.src /\ ~port'.write
    BY <1>1, <1>4, BusyTurn DEF DmaReadFirst, llsim_mem_read, Port
  <2>3. \A out : BufOf(dman', out) = <<out>>
    BY <2>1 DEF BufOf
  <2>4. JobOf(dman') = [JobOf(dma') EXCEPT !.from = Inc(dma.src)]
    BY <2>1 DEF JobOf
  <2> QED BY <1>1, <1>2, <1>4, <2>1, <2>2, <2>3, <2>4, BusyTurn DEF Fetched
<1> QED BY <1>3, <1>4

\* A stalled read keeps the word of the data output in dma_reg.
LEMMA DoReadTurn ==
    ASSUME TypeOK, DmaInv, TurnInv, DmaDoRead
    PROVE  Held' \/ Fetched'
<1>1. dma.state = "DO_READ" /\ Dma /\ dma.len > 1
  BY DEF DmaDoRead, Dma, DmaInv, Control
<1>2. LatchedReg \in Word /\ dman = dma /\ dma' = dma
  BY <1>1, BusyTurn DEF LatchedReg, TypeOK, DmaRegisters, Port
<1>3. BufOf(dma, port.dataout) = <<LatchedReg>>
  BY <1>1, <1>2 DEF BufOf, LatchedReg
<1>4. CASE hazard
  <2>1. /\ port' = port /\ dma' = dma
        /\ dman'.reg = LatchedReg /\ ~dman'.dirty /\ dman'.state = "DO_READ"
        /\ dman'.busy = dma.busy /\ dman'.len = dma.len
        /\ dman'.src = dma.src /\ dman'.dst = dma.dst
    BY <1>1, <1>4, BusyTurn DEF DmaDoRead, NoAccess, DmaRegisters
  <2>2. \A out : BufOf(dman', out) = <<LatchedReg>>
    BY <2>1 DEF BufOf
  <2>3. JobOf(dman') = JobOf(dma')
    BY <2>1 DEF JobOf
  <2> QED BY <1>1, <1>3, <2>1, <2>2, <2>3, BusyTurn DEF Held
<1>5. CASE ~hazard
  <2>1. /\ dma' = dma /\ dma.busy /\ dma.len > 0
        /\ dman'.reg = LatchedReg /\ dman'.dirty /\ dman'.state = "DO_WRITE"
        /\ dman'.busy = dma.busy /\ dman'.len = dma.len
        /\ dman'.src = Inc(dma.src) /\ dman'.dst = dma.dst
    BY <1>1, <1>5, BusyTurn DEF DmaDoRead, DmaRegisters
  <2>2. /\ port'.read /\ port'.raddr = dma.src /\ ~port'.write
        /\ port'.dataout = port.dataout
    BY <1>1, <1>5, BusyTurn DEF DmaDoRead, llsim_mem_read, Port
  <2>3. \A out : BufOf(dman', out) = <<LatchedReg, out>>
    BY <2>1 DEF BufOf
  <2>4. JobOf(dman') = [JobOf(dma') EXCEPT !.from = Inc(dma.src)]
    BY <2>1 DEF JobOf
  <2>5. BufOf(dma', port'.dataout) = <<LatchedReg>>
    BY <1>3, <2>1, <2>2
  <2> QED BY <1>1, <1>2, <1>5, <2>1, <2>2, <2>3, <2>4, <2>5, BusyTurn DEF Fetched
<1> QED BY <1>4, <1>5

\* What WriteWord leaves in the registers and on the port.
LEMMA WriteWordTurn ==
    ASSUME TypeOK, DmaInv, TurnInv, Dma, dma.state # "IDLE", ~hazard, dma.len > 1,
           NEW n \in DmaRegisters, n.busy = dma.busy, n.src = dma.src, WriteWord(n)
    PROVE  /\ port'.write /\ ~port'.read /\ port'.waddr = dma.dst
           /\ port'.datain = dma.reg /\ port'.dataout = port.dataout
           /\ dman'.reg = n.reg /\ dman'.dirty = n.dirty
           /\ dman'.state \in {"WRITE_LAST", "DO_READ"}
           /\ dma.len # 1
           /\ JobOf(dman') = [from |-> dma.src, to |-> Inc(dma.dst),
                              todo |-> dma.len - 1]
<1>1. /\ port'.write /\ ~port'.read /\ port'.waddr = dma.dst
      /\ port'.datain = dma.reg /\ port'.dataout = port.dataout
  BY BusyTurn DEF WriteWord, llsim_mem_write, Port
<1>2. /\ dman'.reg = n.reg /\ dman'.dirty = n.dirty
      /\ dman'.state = IF dma.len = 2 THEN "WRITE_LAST" ELSE "DO_READ"
      /\ dman'.busy = dma.busy /\ dman'.src = dma.src
      /\ dman'.dst = Inc(dma.dst) /\ dman'.len = dma.len - 1
  BY DEF WriteWord, DmaRegisters
<1>3. dma' = dma /\ dma.busy /\ dma.len > 0 /\ dma.len - 1 > 0 /\ dma.len # 1
  <2>1. dma' = dma /\ dma.busy /\ dma.len \in Int
    BY BusyTurn
  <2> QED BY <2>1
<1>4. JobOf(dman') = [from |-> dma.src, to |-> Inc(dma.dst), todo |-> dma.len - 1]
  BY <1>2, <1>3 DEF JobOf
<1> QED BY <1>1, <1>2, <1>3, <1>4

\* A stalled write keeps the second word in dma_reg2.
LEMMA DoWriteTurn ==
    ASSUME TypeOK, DmaInv, TurnInv, DmaDoWrite
    PROVE  Held' \/ Written'
<1>1. dma.state = "DO_WRITE" /\ Dma /\ dma.len > 1 /\ dma.dirty
  BY DEF DmaDoWrite, Dma, DmaInv, Control
<1>2. port.dataout \in Word /\ dman = dma /\ dma' = dma /\ dma \in DmaRegisters
  BY <1>1, BusyTurn DEF Port
<1>3. BufOf(dma, port.dataout) = <<dma.reg, port.dataout>>
  BY <1>1 DEF BufOf
<1>4. CASE hazard
  <2>1. /\ port' = port /\ dma' = dma
        /\ dman'.reg = dma.reg /\ dman'.reg2 = port.dataout
        /\ dman'.state = "WRITE_STALLED"
        /\ dman'.busy = dma.busy /\ dman'.len = dma.len
        /\ dman'.src = dma.src /\ dman'.dst = dma.dst
    BY <1>1, <1>4, BusyTurn DEF DmaDoWrite, NoAccess, DmaRegisters
  <2>2. \A out : BufOf(dman', out) = <<dma.reg, port.dataout>>
    BY <2>1 DEF BufOf
  <2>3. JobOf(dman') = JobOf(dma')
    BY <2>1 DEF JobOf
  <2> QED BY <1>1, <1>3, <2>1, <2>2, <2>3, BusyTurn DEF Held
<1>5. CASE ~hazard
  <2> DEFINE n == [dma EXCEPT !.reg = port.dataout, !.dirty = FALSE]
  <2>1. /\ n \in DmaRegisters /\ n.busy = dma.busy /\ n.src = dma.src
        /\ n.reg = port.dataout /\ ~n.dirty
    BY <1>2 DEF DmaRegisters
  <2>2. WriteWord(n)
    BY <1>1, <1>2, <1>5 DEF DmaDoWrite, LatchedReg
  <2> HIDE DEF n
  <2>3. /\ port'.write /\ ~port'.read /\ port'.waddr = dma.dst
        /\ port'.datain = dma.reg /\ port'.dataout = port.dataout
        /\ dman'.reg = port.dataout /\ ~dman'.dirty
        /\ dman'.state \in {"WRITE_LAST", "DO_READ"}
        /\ dma.len # 1
        /\ JobOf(dman') = [from |-> dma.src, to |-> Inc(dma.dst),
                           todo |-> dma.len - 1]
    BY <1>1, <1>5, <2>1, <2>2, WriteWordTurn
  <2>4. \A out : BufOf(dman', out) = <<port.dataout>>
    BY <2>3 DEF BufOf
  <2> QED BY <1>1, <1>2, <1>3, <1>5, <2>3, <2>4, BusyTurn DEF Written
<1> QED BY <1>4, <1>5

\* The second word moves up when the first is written.
LEMMA WriteStalledTurn ==
    ASSUME TypeOK, DmaInv, TurnInv, DmaWriteStalled
    PROVE  Held' \/ Written'
<1>1. dma.state = "WRITE_STALLED" /\ Dma /\ dma.len > 1 /\ ~dma.dirty
  BY DEF DmaWriteStalled, Dma, DmaInv, Control
<1>2. dma.reg2 \in Word /\ dman = dma /\ dma' = dma /\ dma \in DmaRegisters
  BY <1>1, BusyTurn DEF DmaRegisters
<1>3. \A out : BufOf(dma, out) = <<dma.reg, dma.reg2>>
  BY <1>1 DEF BufOf
<1>4. CASE hazard
  <2>1. port' = port /\ dma' = dma /\ dman' = dma
    BY <1>1, <1>4, BusyTurn DEF DmaWriteStalled, NoAccess
  <2> QED BY <1>1, <1>3, <2>1, BusyTurn DEF Held
<1>5. CASE ~hazard
  <2> DEFINE n == [dma EXCEPT !.reg = dma.reg2]
  <2>1. /\ n \in DmaRegisters /\ n.busy = dma.busy /\ n.src = dma.src
        /\ n.reg = dma.reg2 /\ n.dirty = dma.dirty
    BY <1>2 DEF DmaRegisters
  <2>2. WriteWord(n)
    BY <1>1, <1>2, <1>5 DEF DmaWriteStalled
  <2> HIDE DEF n
  <2>3. /\ port'.write /\ ~port'.read /\ port'.waddr = dma.dst
        /\ port'.datain = dma.reg /\ port'.dataout = port.dataout
        /\ dman'.reg = dma.reg2 /\ dman'.dirty = dma.dirty
        /\ dman'.state \in {"WRITE_LAST", "DO_READ"}
        /\ dma.len # 1
        /\ JobOf(dman') = [from |-> dma.src, to |-> Inc(dma.dst),
                           todo |-> dma.len - 1]
    BY <1>1, <1>5, <2>1, <2>2, WriteWordTurn
  <2>4. \A out : BufOf(dman', out) = <<dma.reg2>>
    BY <1>1, <2>3 DEF BufOf
  <2> QED BY <1>1, <1>2, <1>3, <1>5, <2>3, <2>4, BusyTurn DEF Written
<1> QED BY <1>4, <1>5

\* The last word is written and the copy is over.
LEMMA WriteLastTurn ==
    ASSUME TypeOK, DmaInv, TurnInv, DmaWriteLast
    PROVE  Held' \/ Written'
<1>1. dma.state = "WRITE_LAST" /\ Dma /\ dma.len = 1
  BY DEF DmaWriteLast, Dma, DmaInv, Control
<1>2. \A out : BufOf(dma, out) = <<dma.reg>>
  BY <1>1 DEF BufOf
<1>3. CASE hazard
  <2>1. port' = port /\ dma' = dma /\ dman' = dma
    BY <1>1, <1>3, BusyTurn DEF DmaWriteLast, NoAccess
  <2> QED BY <1>1, <1>2, <2>1, BusyTurn DEF Held
<1>4. CASE ~hazard
  <2>1. ~dman'.busy /\ dman'.state = "IDLE"
    BY <1>1, <1>4, BusyTurn DEF DmaWriteLast, DmaRegisters
  <2>2. /\ port'.write /\ ~port'.read /\ port'.waddr = dma.dst
        /\ port'.datain = dma.reg
    BY <1>1, <1>4, BusyTurn DEF DmaWriteLast, llsim_mem_write, Port
  <2>3. JobOf(dman') = NoJob /\ \A out : BufOf(dman', out) = << >>
    BY <2>1 DEF JobOf, NoJob, BufOf
  <2> QED BY <1>1, <1>2, <1>4, <2>2, <2>3, BusyTurn DEF Written
<1> QED BY <1>3, <1>4

\* A copy of one word: latch it without using the port.
LEMMA DoTurn ==
    ASSUME TypeOK, DmaInv, TurnInv, DmaDo
    PROVE  Held'
<1>1. dma.state = "DO" /\ Dma
  BY DEF DmaDo, Dma
<1>2. /\ port' = port /\ dma' = dma
      /\ dman'.reg = port.dataout /\ dman'.state = "WRITE_LAST"
      /\ dman'.busy = dma.busy /\ dman'.len = dma.len
      /\ dman'.src = dma.src /\ dman'.dst = dma.dst
  BY <1>1, BusyTurn DEF DmaDo, NoAccess, DmaRegisters
<1>3. /\ BufOf(dma', port'.dataout) = <<port.dataout>>
      /\ \A out : BufOf(dman', out) = <<port.dataout>>
  BY <1>1, <1>2 DEF BufOf
<1>4. JobOf(dman') = JobOf(dma')
  BY <1>2 DEF JobOf
<1> QED BY <1>1, <1>2, <1>3, <1>4, BusyTurn DEF Held

(***************************************************************************)
(* Every cycle comes to its commit with one of the four decisions.         *)
(***************************************************************************)
LEMMA TurnInvariant == Spec => []TurnInv
<1>1. Init => TurnInv
  BY DEF Init, TurnInv
<1>2. TypeOK /\ DmaInv /\ TurnInv /\ [Next]_vars => TurnInv'
  <2> SUFFICES ASSUME TypeOK, DmaInv, TurnInv, [Next]_vars PROVE TurnInv'
    OBVIOUS
  <2>1. CASE Cpu
    BY <2>1, CpuPrepares
  <2>2. CASE Dma
    <3>1. phase' = "commit"
      BY <2>2 DEF Dma, DmaIdle, DmaReadFirst, DmaDoRead, DmaDoWrite,
                  DmaWriteStalled, DmaWriteLast, DmaDo, DmaFrame
    <3>2. (Held \/ Asked \/ Fetched \/ Written)'
      BY <2>2, IdleTurn, ReadFirstTurn, DoReadTurn, DoWriteTurn,
         WriteStalledTurn, WriteLastTurn, DoTurn DEF Dma
    <3> QED BY <3>1, <3>2 DEF TurnInv
  <2>3. CASE Commit
    BY <2>3 DEF Commit, TurnInv
  <2>4. CASE CommitFault \/ UNCHANGED vars
    <3>1. /\ dma' = dma /\ dman' = dman /\ port' = port /\ phase' = phase
          /\ hazard' = hazard
      BY <2>4 DEF CommitFault, CommitFrame, vars
    <3> QED BY <3>1 DEF TurnInv, Prepared, Held, Asked, Fetched, Written, InFlight
  <2> QED BY <2>1, <2>2, <2>3, <2>4 DEF Next, Stopped
<1> QED BY <1>1, <1>2, TypeCorrect, DmaInvariant, PTL DEF Spec

-----------------------------------------------------------------------------
(***************************************************************************)
(* The mapping of DmaCtl in terms of JobOf and BufOf.                      *)
(***************************************************************************)
SCP == INSTANCE StreamCopyProofs WITH
        mem <- sram, job <- JobOf(dma), buf <- BufOf(dma, port.dataout)

\* The registers stand for no, one or two words.
LEMMA Buffers ==
    ASSUME TypeOK, NEW out \in Word
    PROVE  \/ BufOf(dma, out) = << >>
           \/ \E a \in Word : BufOf(dma, out) = <<a>>
           \/ \E a, b \in Word : BufOf(dma, out) = <<a, b>>
BY DEF TypeOK, DmaRegisters, DmaState, BufOf

\* The fields of the job, for an active engine and for an idle one.
LEMMA Jobs ==
    ASSUME TypeOK
    PROVE  /\ dma.busy /\ dma.len > 0 =>
                /\ JobOf(dma).from = dma.src /\ JobOf(dma).to = dma.dst
                /\ JobOf(dma).todo = dma.len /\ dma.len \in Nat
           /\ ~(dma.busy /\ dma.len > 0) => JobOf(dma) = NoJob
           /\ NoJob.from = 0 /\ NoJob.to = 0 /\ NoJob.todo = 0
BY DEF TypeOK, DmaRegisters, JobOf, NoJob

\* The words in flight are those of the buffer.
LEMMA SameInFlight ==
    ASSUME TypeOK, DmaInv
    PROVE  InFlight = SCP!InFlight
<1>1. CASE dma.state \in {"DO_READ", "DO", "WRITE_LAST"}
  <2>1. PICK w : BufOf(dma, port.dataout) = <<w>>
    BY <1>1 DEF BufOf
  <2>2. dma.busy /\ dma.len > 0
    BY <1>1 DEF DmaInv, Control
  <2>3. SCP!InFlight = {SCP!Dec(dma.src)}
    BY <2>1, <2>2, Jobs, SCP!OneWord DEF SCP!InFlight
  <2> QED BY <1>1, <2>3 DEF InFlight, SCP!Dec, Dec
<1>2. CASE dma.state \in {"DO_WRITE", "WRITE_STALLED"}
  <2>1. PICK v, w : BufOf(dma, port.dataout) = <<v, w>>
    BY <1>2 DEF BufOf
  <2>2. dma.busy /\ dma.len > 0
    BY <1>2 DEF DmaInv, Control
  <2>3. SCP!InFlight = {SCP!Dec(dma.src), SCP!Dec(SCP!Dec(dma.src))}
    BY <2>1, <2>2, Jobs, SCP!TwoWords DEF SCP!InFlight
  <2> QED BY <1>2, <2>3 DEF InFlight, SCP!Dec, Dec
<1>3. CASE dma.state \in {"IDLE", "READ_FIRST"}
  <2>1. BufOf(dma, port.dataout) = << >>
    BY <1>3 DEF BufOf
  <2> QED BY <1>3, <2>1 DEF InFlight, SCP!InFlight
<1> QED BY <1>1, <1>2, <1>3 DEF TypeOK, DmaRegisters, DmaState

(***************************************************************************)
(* The commit performs the decision on the stream.                         *)
(***************************************************************************)
LEMMA CommitEffect ==
    ASSUME TypeOK, Commit
    PROVE  /\ phase = "commit" /\ dma' = dman
           /\ port'.dataout = DataOut
           /\ ~port.write => sram' = sram
           /\ port.write => /\ port.waddr \in Addr /\ port.datain \in Word
                            /\ sram' = [sram EXCEPT ![port.waddr] = port.datain]
           /\ port.read => port.raddr \in Addr /\ DataOut = sram[port.raddr]
BY DEF TypeOK, Commit, CommitFrame, OutOfRange, QuietPort, DataOut, Port

\* The stream stands still; a store of the processor may commit.
LEMMA HeldCommit ==
    ASSUME TypeOK, DmaInv, Commit, Held
    PROVE  [SCP!Next]_SCP!vars
<1>1. /\ JobOf(dma)' = JobOf(dma)
      /\ BufOf(dma, port.dataout)' = BufOf(dma, port.dataout)
  BY CommitEffect DEF Held
<1>2. CASE ~port.write
  BY <1>1, <1>2, CommitEffect DEF SCP!vars
<1>3. CASE port.write
  <2>1. Disciplined => port.waddr \notin SCP!InFlight
    BY <1>3, SameInFlight DEF Held
  <2>2. /\ port.waddr \in Addr /\ port.datain \in Word /\ sram \in [Addr -> Word]
        /\ sram' = [sram EXCEPT ![port.waddr] = port.datain]
    BY <1>3, CommitEffect DEF TypeOK
  <2>3. sram'[port.waddr] = port.datain
    BY <2>2
  <2>4. SCP!Store(port.waddr)
    BY <1>1, <2>1, <2>2, <2>3 DEF SCP!Store
  <2> QED BY <2>2, <2>4 DEF SCP!Next, SCP!Addr, Addr
<1> QED BY <1>2, <1>3

\* A request commits.
LEMMA AskedCommit ==
    ASSUME TypeOK, Commit, Asked
    PROVE  SCP!Request
<1>1. /\ sram' = sram
      /\ BufOf(dma, port.dataout)' = BufOf(dma, port.dataout)
  BY CommitEffect DEF Asked
<1>2. /\ JobOf(dma)' = [from |-> dman.src, to |-> dman.dst, todo |-> dman.len]
      /\ dman.src \in Addr /\ dman.dst \in Addr /\ dman.len \in Nat /\ dman.len > 0
      /\ Disciplined => dman.dst # Inc(dman.src)
  BY CommitEffect DEF Asked, JobOf, TypeOK, DmaRegisters
<1>3. JobOf(dma).todo = 0
  BY DEF Asked, NoJob
<1> QED BY <1>1, <1>2, <1>3
        DEF SCP!Request, SCP!Job, SCP!Addr, Addr, SCP!Inc, Inc

\* A read commits: its word joins the buffer on the data output.
LEMMA FetchedCommit ==
    ASSUME TypeOK, Commit, Fetched
    PROVE  SCP!Fetch
<1> DEFINE buf == BufOf(dma, port.dataout)
           word == sram[dma.src]
<1>1. /\ sram' = sram /\ dma' = dman /\ port'.dataout = word /\ word \in Word
  BY CommitEffect DEF Fetched, TypeOK
<1>2. /\ JobOf(dma).from = dma.src /\ JobOf(dma).todo = dma.len
      /\ dma.len \in Nat /\ dma.len > 0
  BY Jobs DEF Fetched
<1>3. JobOf(dma)' = [JobOf(dma) EXCEPT !.from = Inc(JobOf(dma).from)]
  BY <1>1, <1>2 DEF Fetched
<1>4. buf' = BufOf(dman, word)
  BY <1>1
<1>5. Len(buf) < 2 /\ Len(buf) < JobOf(dma).todo /\ buf' = Append(buf, word)
  <2>1. CASE buf = << >> /\ \A out : BufOf(dman, out) = <<out>>
    BY <1>2, <1>4, <2>1, SCP!OneWord
  <2>2. CASE dma.len > 1 /\ \E w \in Word : /\ buf = <<w>>
                              /\ \A out : BufOf(dman, out) = <<w, out>>
    <3>1. PICK w \in Word : buf = <<w>> /\ \A out : BufOf(dman, out) = <<w, out>>
      BY <2>2
    <3>2. buf' = <<w, word>>
      BY <1>4, <3>1
    <3>3. Append(<<w>>, word) = <<w, word>>
      <4>1. \A a, b \in Word : Append(<<a>>, b) = <<a, b>>
        BY SCP!AppendSecond, HeightAssumption, WordAssumption
      <4> QED BY <1>1, <4>1
    <3>4. Len(buf) = 1
      BY <3>1, SCP!OneWord
    <3> QED BY <1>2, <2>2, <3>1, <3>2, <3>3, <3>4
  <2> QED BY <2>1, <2>2 DEF Fetched
<1> QED BY <1>1, <1>2, <1>3, <1>5 DEF SCP!Fetch, SCP!Inc, Inc

\* A write commits: the oldest word leaves the buffer.
LEMMA WrittenCommit ==
    ASSUME TypeOK, Commit, Written
    PROVE  SCP!Write
<1> DEFINE buf == BufOf(dma, port.dataout)
<1>1. /\ sram' = [sram EXCEPT ![dma.dst] = port.datain] /\ dma' = dman
  BY CommitEffect DEF Written
<1>2. /\ JobOf(dma).from = dma.src /\ JobOf(dma).to = dma.dst
      /\ JobOf(dma).todo = dma.len
      /\ dma.len \in Nat /\ dma.len > 0
  BY Jobs DEF Written
<1>3. JobOf(dma)' = IF JobOf(dma).todo = 1 THEN NoJob
                    ELSE [from |-> JobOf(dma).from, to |-> Inc(JobOf(dma).to),
                          todo |-> JobOf(dma).todo - 1]
  BY <1>1, <1>2 DEF Written
<1>4. buf # << >> /\ Head(buf) = port.datain /\ buf' = Tail(buf)
  <2>1. CASE buf = <<port.datain>> /\ \A out : BufOf(dman, out) = << >>
    BY <1>1, <2>1, SCP!OneWord
  <2>2. CASE \E w \in Word : /\ buf = <<port.datain, w>>
                             /\ \A out : BufOf(dman, out) = <<w>>
    BY <1>1, <2>2, SCP!TwoWords
  <2> QED BY <2>1, <2>2 DEF Written
<1> QED BY <1>1, <1>2, <1>3, <1>4 DEF SCP!Write, SCP!Inc, Inc, SCP!NoJob, NoJob

(***************************************************************************)
(* Between two commits the stream does not move.                           *)
(***************************************************************************)
LEMMA OtherSteps ==
    ASSUME TypeOK, DmaInv, Cpu \/ Dma \/ CommitFault \/ UNCHANGED vars
    PROVE  UNCHANGED SCP!vars
<1>1. sram' = sram
  BY DEF Cpu, CpuIdle, CpuRead, CpuWrite, CpuHalt, CtlFrame, Dma, DmaIdle,
         DmaReadFirst, DmaDoRead, DmaDoWrite, DmaWriteStalled, DmaWriteLast,
         DmaDo, DmaFrame, CommitFault, vars
<1>2. port'.dataout = port.dataout
  <2>1. \/ port' = port
        \/ \E a : llsim_mem_read(a)
        \/ \E a, v : llsim_mem_write(a, v)
    <3>1. CASE Dma
      BY <3>1, DmaUsesPort DEF NoAccess
    <3>2. CASE ~Dma
      BY <3>2 DEF Cpu, CpuIdle, CpuRead, CpuWrite, CpuHalt, NoAccess,
                  CommitFault, vars
    <3> QED BY <3>1, <3>2
  <2> QED BY <2>1 DEF llsim_mem_read, llsim_mem_write, TypeOK, Port
<1>3. CASE dma' = dma
  BY <1>1, <1>2, <1>3 DEF SCP!vars
<1>4. CASE dma' # dma
  <2>1. DmaIdle /\ ~(dma.busy /\ dma.len > 0) /\ dma' = [dma EXCEPT !.busy = FALSE]
    BY <1>4 DEF Cpu, CpuIdle, CpuRead, CpuWrite, CpuHalt, CtlFrame, Dma, DmaIdle,
                DmaReadFirst, DmaDoRead, DmaDoWrite, DmaWriteStalled,
                DmaWriteLast, DmaDo, CommitFault, vars
  <2>2. /\ dma.state = "IDLE" /\ dma'.state = "IDLE" /\ ~dma'.busy
    BY <2>1 DEF DmaIdle, TypeOK, DmaRegisters
  <2>3. JobOf(dma)' = JobOf(dma)
    BY <2>1, <2>2 DEF JobOf
  <2>4. BufOf(dma, port.dataout)' = BufOf(dma, port.dataout)
    BY <2>2 DEF BufOf
  <2> QED BY <1>1, <2>3, <2>4 DEF SCP!vars
<1> QED BY <1>3, <1>4

\* Every step of the machine is a step of the stream or none.
LEMMA StreamStep ==
    ASSUME TypeOK, DmaInv, TurnInv, [Next]_vars
    PROVE  [SCP!Next]_SCP!vars
<1>1. CASE Commit
  <2>1. Held \/ Asked \/ Fetched \/ Written
    BY <1>1 DEF Commit, CommitFrame, TurnInv
  <2> QED BY <1>1, <2>1, HeldCommit, AskedCommit, FetchedCommit, WrittenCommit
          DEF SCP!Next
<1>2. CASE Cpu \/ Dma \/ CommitFault \/ UNCHANGED vars
  BY <1>2, OtherSteps
<1> QED BY <1>1, <1>2 DEF Next, Stopped

\* After reset there is no job and nothing in the buffer.
LEMMA StreamInit ==
    ASSUME Init
    PROVE  SCP!Init
<1>1. JobOf(dma) = NoJob /\ BufOf(dma, port.dataout) = << >>
  BY DEF Init, ResetRegisters, JobOf, BufOf, NoJob
<1> QED BY <1>1, ImagesAssumption
        DEF Init, SCP!Init, SCP!NoJob, NoJob, SCP!Addr, Addr

\* The refinement, in terms of the module with the stream's theorems.
LEMMA EngineIsStream == Spec => SCP!Spec
<1>1. TypeOK /\ DmaInv /\ TurnInv /\ [Next]_vars => [SCP!Next]_SCP!vars
  BY StreamStep
<1>2. Init => SCP!Init
  BY StreamInit
<1> QED BY <1>1, <1>2, TypeCorrect, DmaInvariant, TurnInvariant, PTL
        DEF Spec, SCP!Spec

-----------------------------------------------------------------------------
(***************************************************************************)
(* Whatever the processor does and stores, the engine is the bounded       *)
(* in-order stream: no word is lost, repeated or reordered and nothing     *)
(* outside the block is written (dma_ctl).                                 *)
(***************************************************************************)
THEOREM EngineImplementsStream == Spec => ImplementsStreamCopy
<1>1. SCP!Init => SC!Init
  BY DEF SCP!Init, SC!Init, SCP!NoJob, SC!NoJob, SCP!Addr, SC!Addr
<1>2. [SCP!Next]_SCP!vars => [SC!Next]_SC!vars
  <2>1. SCP!vars = SC!vars /\ SCP!vars' = SC!vars'
    BY DEF SCP!vars, SC!vars
  <2>2. SCP!Next = SC!Next
    BY DEF SCP!Next, SC!Next, SCP!Store, SC!Store, SCP!Request, SC!Request,
           SCP!Fetch, SC!Fetch, SCP!Write, SC!Write, SCP!InFlight, SC!InFlight,
           SCP!Job, SC!Job, SCP!NoJob, SC!NoJob, SCP!Inc, SC!Inc, SCP!Dec,
           SC!Dec, SCP!Addr, SC!Addr
  <2> QED BY <2>1, <2>2
<1> QED BY <1>1, <1>2, EngineIsStream, PTL DEF ImplementsStreamCopy, SCP!Spec, SC!Spec

(***************************************************************************)
(* A program that keeps clear of the words in flight sees the plain copy,  *)
(* one word after the other in increasing order, for overlapping blocks    *)
(* too (dma_ctl).                                                          *)
(***************************************************************************)
THEOREM EngineImplementsBlockCopy ==
    ASSUME Disciplined
    PROVE  Spec => ImplementsBlockCopy
<1>1. SCP!Spec => SCP!BC!Spec
  BY SCP!StreamIsBlockCopy, HeightAssumption, WordAssumption
<1>2. SCP!BC!Init => SC!BC!Init
  BY DEF SCP!BC!Init, SC!BC!Init, SCP!BC!NoJob, SC!BC!NoJob, SCP!BC!Addr,
         SC!BC!Addr, SCP!BlockJob, SC!BlockJob, SCP!Oldest, SC!Oldest,
         SCP!Dec, SC!Dec
<1>3. [SCP!BC!Next]_SCP!BC!vars => [SC!BC!Next]_SC!BC!vars
  <2>1. SCP!BlockJob = SC!BlockJob /\ SCP!BlockJob' = SC!BlockJob'
    BY DEF SCP!BlockJob, SC!BlockJob, SCP!Oldest, SC!Oldest, SCP!Dec, SC!Dec
  <2>2. SCP!BC!vars = SC!BC!vars /\ SCP!BC!vars' = SC!BC!vars'
    BY <2>1 DEF SCP!BC!vars, SC!BC!vars
  <2>3. SCP!BC!Next = SC!BC!Next
    BY <2>1 DEF SCP!BC!Next, SC!BC!Next, SCP!BC!Store, SC!BC!Store,
           SCP!BC!Request, SC!BC!Request, SCP!BC!CopyWord, SC!BC!CopyWord,
           SCP!BC!Job, SC!BC!Job, SCP!BC!NoJob, SC!BC!NoJob,
           SCP!BC!Inc, SC!BC!Inc, SCP!BC!Addr, SC!BC!Addr
  <2> QED BY <2>2, <2>3
<1> QED BY <1>1, <1>2, <1>3, EngineIsStream, PTL
        DEF ImplementsBlockCopy, SCP!BC!Spec, SC!BC!Spec

(***************************************************************************)
(* For such a program the staging registers still hold the words of memory *)
(* at the addresses they were read from (dma_reg, dma_reg2).               *)
(***************************************************************************)
THEOREM StagedWordsCurrent == Spec => []StagedWords
<1>1. SCP!Spec => []SCP!StreamInv
  BY SCP!StreamInvariant, HeightAssumption, WordAssumption
<1>2. TypeOK /\ DmaInv /\ SCP!StreamInv => StagedWords
  <2> SUFFICES ASSUME TypeOK, DmaInv, SCP!StreamInv, Disciplined
               PROVE  StagedWords
    BY DEF StagedWords
  <2> DEFINE buf == BufOf(dma, port.dataout)
  <2>1. /\ Len(buf) = 1 => buf[1] = sram[Dec(JobOf(dma).from)]
        /\ Len(buf) = 2 => /\ buf[1] = sram[Dec(Dec(JobOf(dma).from))]
                           /\ buf[2] = sram[Dec(JobOf(dma).from)]
    BY DEF SCP!StreamInv, SCP!Staged, SCP!Dec, Dec
  <2>2. dma.state # "IDLE" => JobOf(dma).from = dma.src
    BY Jobs DEF DmaInv, Control
  <2>3. CASE dma.state = "DO_WRITE"
    <3>1. buf = <<dma.reg, port.dataout>>
      BY <2>3 DEF BufOf
    <3> QED BY <2>1, <2>2, <2>3, <3>1, SCP!TwoWords DEF StagedWords
  <2>4. CASE dma.state = "WRITE_STALLED"
    <3>1. buf = <<dma.reg, dma.reg2>>
      BY <2>4 DEF BufOf
    <3> QED BY <2>1, <2>2, <2>4, <3>1, SCP!TwoWords DEF StagedWords
  <2>5. CASE dma.state = "WRITE_LAST" \/ (dma.state = "DO_READ" /\ ~dma.dirty)
    <3>1. buf = <<dma.reg>>
      BY <2>5 DEF BufOf
    <3> QED BY <2>1, <2>2, <2>5, <3>1, SCP!OneWord DEF StagedWords
  <2> QED BY <2>3, <2>4, <2>5 DEF StagedWords
<1> QED BY <1>1, <1>2, EngineIsStream, TypeCorrect, DmaInvariant, PTL
=============================================================================
