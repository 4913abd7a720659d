\* Words of at most seven bits, and all operands of the circuits.
SPECIFICATION Spec
CONSTANT Cycles = 6
INVARIANTS
    CircuitsCorrect
    MachinesCorrect
