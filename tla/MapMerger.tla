---------------------------- MODULE MapMerger ----------------------------
(* The arithmetic of src/rtl/acc/map_merger.v:37-50 and of the accumulation in
   src/rtl/acc/psum_acc.v:67-70 on words of bits: a word of w bits is a number
   below 2^w, and SignedOf reads it in two's complement.                      *)
EXTENDS Integers

CONSTANTS B,              \* bits of an operand and of a result, 8
          W3, W1,         \* bits of a 3x3 and of a 1x1 sum, 32 and 24
          Q3, Q1          \* lowest bit of the results' fields, 17 and 14

ASSUME WidthAssumption == /\ B \in Nat \ {0} /\ W3 \in Nat /\ W1 \in 0..W3
                          /\ Q3 \in Nat /\ Q1 \in Nat
\* What powers are, up to the widest word.
ASSUME PowerAssumption ==
  /\ \A n \in 0..W3 : 2^n \in Nat \ {0}
  /\ \A k \in 0..W3 : \A n \in 0..(W3 - k) : 2^(k + n) = 2^k * 2^n
  /\ 4^(B - 1) = 2^(B - 1) * 2^(B - 1)

BitsOf(x, w) == x % 2^w
SignedOf(b, w) == IF b < 2^(w - 1) THEN b ELSE b - 2^w
Field(b, low) == (b \div 2^low) % 2^B

\* What a visit of a pixel hands to psum_acc.
Visit(sum3, sum1, id) ==
  [map_3x3 |-> BitsOf(sum3, W3), map_1x1 |-> BitsOf(sum1, W1), identity |-> BitsOf(id, B)]

\* The partial sums of both visits; the identity of the visit the tag's bit names.
Accumulated(first, second, half) ==
  [map_3x3  |-> BitsOf(first.map_3x3 + second.map_3x3, W3),
   map_1x1  |-> BitsOf(first.map_1x1 + second.map_1x1, W1),
   identity |-> IF half THEN second.identity ELSE first.identity]

merge_resultUnsigned(data) ==
  BitsOf(data.identity + data.map_3x3 + data.map_1x1, W3)
merge_result(data) ==
  BitsOf(SignedOf(data.identity, B) + SignedOf(data.map_3x3, W3) + SignedOf(data.map_1x1, W1), W3)

act_merge(data) == IF merge_result(data) < 2^(W3 - 1) THEN merge_result(data) ELSE 0

\* The output word, from its low byte up.
map_merger_data_outOneLow(data) ==
  <<Field(data.map_1x1, Q1), Field(data.map_3x3, Q3 - 1), Field(act_merge(data), Q3 - 1)>>
map_merger_data_out(data) ==
  <<Field(data.map_1x1, Q1), Field(data.map_3x3, Q3), Field(act_merge(data), Q3)>>
==========================================================================
