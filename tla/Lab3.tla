-------------------------------- MODULE Lab3 --------------------------------
(***************************************************************************)
(* The Verilog of lab 3 under its own test benches.  A run simulates one   *)
(* bench: those of ex1 to ex5 step through all inputs of a circuit, those  *)
(* of ex6 and ex7 clock a state machine whose input changes at random on   *)
(* the falling edge.                                                       *)
(***************************************************************************)
EXTENDS Gates, Sequences, FiniteSets

CONSTANT Cycles    \* clock cycles between reset and the end, 30 in the benches

ASSUME CyclesAssumption == Cycles \in Nat

VARIABLES
    bench,         \* the exercise simulated
    t,             \* stimuli given, or edges of the clock so far
    in, reset,     \* registers of a clocked bench
    state, out,    \* registers of its circuit; state[1] is parity's state
    seen,          \* history: the bits that the circuit has clocked in
    finished       \* $finish was called

vars == <<bench, t, in, reset, state, out, seen, finished>>

X == 2    \* the unknown value of a register before its first assignment

Circuits == {"ex1", "ex2", "ex3", "ex5"}
Clocked == {"ex6", "ex7"}

\* The first assignment to clk, x to 0, is a falling edge as well: the block on
\* that edge may run after the initial block and draw the first input.
Init ==
    /\ bench \in Circuits \cup Clocked
    /\ t = 0 /\ reset = 1
    /\ in \in IF bench \in Clocked THEN Bit ELSE {0}
    /\ state = [k \in 0 .. 1 |-> X] /\ out = X
    /\ seen = << >>
    /\ finished = FALSE

-----------------------------------------------------------------------------
(***************************************************************************)
(* The benches of the circuits: one stimulus after the other.              *)
(***************************************************************************)
BitOf(n, k) == (n \div 2 ^ k) % 2

Bus(n) == [k \in 0 .. 3 |-> BitOf(n, k)]

Stimuli == [ex1 |-> 8, ex2 |-> 4, ex3 |-> 8, ex5 |-> 512]

\* The loops of addsub_tb: both operands from -8 to 7, mode 1 and then mode 0.
operand_a == ((t % 256) \div 16) - 8
operand_b == (t % 16) - 8
mode == IF t < 256 THEN 1 ELSE 0

Stimulate ==
    /\ bench \in Circuits /\ ~finished
    /\ t' = t + 1
    /\ finished' = (t' = Stimuli[bench])
    /\ UNCHANGED <<bench, in, reset, state, out, seen>>

-----------------------------------------------------------------------------
(***************************************************************************)
(* The state machines, on a rising edge.                                   *)
(***************************************************************************)

parity ==
    IF reset = 1 THEN [state EXCEPT ![1] = 0]
    ELSE CASE state[1] = 0 -> [state EXCEPT ![1] = in]
           [] state[1] = 1 -> [state EXCEPT ![1] = 1 - in]
           [] OTHER -> state

\* Mutant of div4: blocking assignments, the lower bit first.
div4Blocking == [k \in 0 .. 1 |-> IF reset = 1 THEN 0 ELSE in]

\* Nonblocking: the upper bit takes the lower bit of before.
div4 ==
    IF reset = 1 THEN [k \in 0 .. 1 |-> 0]
    ELSE [k \in 0 .. 1 |-> IF k = 1 THEN state[0] ELSE in]

\* The always block of the output runs when the state has changed, only then.
OutOf(s) ==
    IF bench = "ex6" THEN s[1] ELSE IF s[0] = 0 /\ s[1] = 0 THEN 1 ELSE 0

Posedge ==
    /\ bench \in Clocked /\ ~finished /\ t % 2 = 0
    /\ t' = t + 1
    /\ state' = IF bench = "ex6" THEN parity ELSE div4
    /\ out' = IF state' = state THEN out ELSE OutOf(state')
    /\ seen' = IF reset = 1 THEN seen ELSE Append(seen, in)
    /\ UNCHANGED <<bench, in, reset, finished>>

\* $random / 16 % 2 may be any of -1, 0 and 1, whose lowest bit in takes; the
\* first falling edge is the time at which reset falls.
Negedge ==
    /\ bench \in Clocked /\ ~finished /\ t % 2 = 1
    /\ t' = t + 1
    /\ in' \in Bit
    /\ reset' = 0
    /\ UNCHANGED <<bench, state, out, seen, finished>>

\* The bench waits for a falling edge at the time of one, and may catch that
\* one or the next.
Finish ==
    /\ bench \in Clocked /\ ~finished
    /\ t \in {2 * Cycles + 2, 2 * Cycles + 4}
    /\ finished' = TRUE
    /\ UNCHANGED <<bench, t, in, reset, state, out, seen>>

\* ... but not a later one.
Clock == t < 2 * Cycles + 4 /\ (Posedge \/ Negedge)

Stopped == finished /\ UNCHANGED vars

Next == Stimulate \/ Clock \/ Finish \/ Stopped

Spec == Init /\ [][Next]_vars

-----------------------------------------------------------------------------
(***************************************************************************)
(* Properties.                                                             *)
(***************************************************************************)

(* Every stimulus of the benches gives the circuit's function, also where  *)
(* addsub_tb does not look because the sum overflows: the result is right  *)
(* modulo 16.                                                              *)
CircuitsCorrect ==
    ~finished =>
        CASE bench = "ex1" ->
               mux(BitOf(t, 2), BitOf(t, 1), BitOf(t, 0))
                   = IF BitOf(t, 0) = 1 THEN BitOf(t, 1) ELSE BitOf(t, 2)
          [] bench = "ex2" ->
               LET h == halfadder(BitOf(t, 1), BitOf(t, 0))
               IN  2 * h.carry + h.sum = BitOf(t, 1) + BitOf(t, 0)
          [] bench = "ex3" ->
               LET f == fulladder(BitOf(t, 1), BitOf(t, 0), BitOf(t, 2))
               IN  2 * f.co + f.sum = BitOf(t, 0) + BitOf(t, 1) + BitOf(t, 2)
          [] bench = "ex5" ->
               addsub(Bus(operand_a), Bus(operand_b), mode)
                   = Bus(IF mode = 1 THEN operand_a - operand_b
                                     ELSE operand_a + operand_b)
          [] OTHER -> TRUE

(* Whatever the input did between the edges, and from the one reset cycle  *)
(* on, parity says whether an odd number of ones was clocked in, and div4  *)
(* whether the number clocked in, highest digit first, is a multiple of    *)
(* four, numbers of fewer than two digits included.                        *)
MachinesCorrect ==
    bench \in Clocked /\ t > 0 =>
        LET ones == Cardinality({ k \in 1 .. Len(seen) : seen[k] = 1 })
            number[n \in 0 .. Len(seen)] ==
                IF n = 0 THEN 0 ELSE 2 * number[n - 1] + seen[n]
        IN  out = IF bench = "ex6" THEN ones % 2
                  ELSE IF number[Len(seen)] % 4 = 0 THEN 1 ELSE 0
=============================================================================
