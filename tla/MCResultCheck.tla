-------------------------- MODULE MCResultCheck --------------------------
(* Operands of three bits and eight input channels in two groups: the extreme
   sums, both sides of every step of the fields, and zero.                    *)
EXTENDS ResultCheck

MCSums3 == {-576, -257, -256, -1, 0, 255, 256, 576}
MCSums1 == {-64, -33, -32, -1, 0, 31, 32, 64}
MCBytes == {-4, -1, 0, 3}
==========================================================================
