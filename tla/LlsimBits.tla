------------------------------ MODULE LlsimBits -----------------------------
(***************************************************************************)
(* The bit helpers of the simulation kernel (lab2/llsim.h), with which     *)
(* words enter and leave its memories.  An int is the set of the places of *)
(* its ones, an i64 such a set over twice the places: C's &, | and ~ are   *)
(* intersection, union and difference, and what is left to say is what the *)
(* shifts and the conversion of an int to an i64 do.                       *)
(***************************************************************************)
EXTENDS Integers

CONSTANT Width    \* bits of an int, 32 in the code

ASSUME WidthAssumption == Width \in Nat \ {0}

Places == 0 .. Width - 1
LongPlaces == 0 .. 2 * Width - 1
CInt == SUBSET Places
CLong == SUBSET LongPlaces

\* x << n, in w bits.
Shl(x, n, w) == { b \in 0 .. w - 1 : b - n \in x }

\* x >> n, in w bits: the sign comes in from above.
Shr(x, n, w) ==
    { b \in 0 .. w - 1 : IF b + n < w THEN b + n \in x ELSE w - 1 \in x }

\* What C makes of an int where an i64 is needed: the sign fills the upper half.
Extend(x) == IF Width - 1 \in x THEN x \cup (Width .. 2 * Width - 1) ELSE x

-----------------------------------------------------------------------------
bitmask0(bits) == 0 .. bits - 1
bitmask(msb, lsb) == Shl(bitmask0(msb - lsb + 1), lsb, Width)

\* Select bits of an int.
sbs(val, msb, lsb) ==
    IF msb = Width - 1 /\ lsb = 0 THEN val
    ELSE Shr(val, lsb, Width) \cap bitmask0(msb - lsb + 1)

\* Replace bits of an int.
rbs(val, data, msb, lsb) ==
    (val \ bitmask(msb, lsb)) \cup (Shl(data, lsb, Width) \cap bitmask(msb, lsb))

lbitmask0(bits) == 0 .. bits - 1
lbitmask(msb, lsb) == Shl(lbitmask0(msb - lsb + 1), lsb, 2 * Width)

\* Select bits of an i64.
lsbs(val, msb, lsb) ==
    IF msb = 2 * Width - 1 /\ lsb = 0 THEN val
    ELSE Shr(val, lsb, 2 * Width) \cap lbitmask0(msb - lsb + 1)

\* Mutant of lrbs: the old bits of the field stay.
lrbsKeeping(val, data, msb, lsb) ==
    val \cup Extend(Shl(data, lsb, Width) \cap bitmask(msb, lsb))

\* Replace bits of an i64.  The new bits are computed in an int, with the mask
\* of an int, and converted: a field that holds the int's sign bit spills ones
\* over the upper half.
lrbs(val, data, msb, lsb) ==
    (val \ lbitmask(msb, lsb))
        \cup Extend(Shl(data, lsb, Width) \cap bitmask(msb, lsb))
=============================================================================
