-------------------------------- MODULE Gates -------------------------------
(***************************************************************************)
(* The combinational circuits of lab 3, from gates to the adder/subtracter.*)
(* A bit is 0 or 1, a bus a function from its indices to bits.             *)
(***************************************************************************)
EXTENDS Integers

Bit == {0, 1}

Inv(a) == 1 - a
And(a, b) == IF a = 1 /\ b = 1 THEN 1 ELSE 0
Or(a, b) == IF a = 1 \/ b = 1 THEN 1 ELSE 0
Xor(a, b) == IF a = b THEN 0 ELSE 1

\* One expression, assigned continuously in mux1 and by an always block that
\* watches all its inputs in mux2.
mux(a, b, select) == Or(And(a, Inv(select)), And(b, select))

halfadder(a, b) == [sum |-> Xor(a, b), carry |-> And(a, b)]

fulladder(a, b, ci) ==
    LET w1 == Xor(a, b)
    IN  [sum |-> Xor(w1, ci), co |-> Or(And(w1, ci), And(a, b))]

add4(a, b, ci) ==
    LET fa0 == fulladder(a[0], b[0], ci)
        fa1 == fulladder(a[1], b[1], fa0.co)
        fa2 == fulladder(a[2], b[2], fa1.co)
        fa3 == fulladder(a[3], b[3], fa2.co)
        sums == <<fa0.sum, fa1.sum, fa2.sum, fa3.sum>>
    IN  [sum |-> [k \in 0 .. 3 |-> sums[k + 1]], co |-> fa3.co]

\* Mutant of addsub: the carry in is forgotten.
addsubOnesComplement(a, b, mode) ==
    add4(a, [k \in 0 .. 3 |-> Xor(b[k], mode)], 0).sum

\* mode 1 subtracts: b inverted, and a carry in.
addsub(a, b, mode) == add4(a, [k \in 0 .. 3 |-> Xor(b[k], mode)], mode).sum
=============================================================================
