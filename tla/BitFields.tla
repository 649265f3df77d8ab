------------------------------ MODULE BitFields ------------------------------
(* Words of a register or command as sets of the positions of their ones.  *)
EXTENDS Naturals

Bits(width)        == 0..(width - 1)
Shift(v, n)        == {b + n : b \in v}
Field(v, n, width) == {b - n : b \in v \cap (n..(n + width - 1))}
BitsOf(n, width)   == {b \in Bits(width) : (n \div 2 ^ b) % 2 = 1}
F(at, width)       == [at |-> at, width |-> width]
=============================================================================
