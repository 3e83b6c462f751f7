--------------------------- MODULE ResultCheck ---------------------------
(* The software's model of the accelerator: check_result of
   src/hbird-sdk/application/baremetal/acc/main.c, which reads the kernels and
   the map back from memory and computes one output channel pixel by pixel.

   A word of memory is represented by its number in its region and a sum of
   products by the set of pairs <<word of the map, word of the kernel>> it adds
   up; byte n of one is always multiplied by byte n of the other (main.c:87).
   The numbers that come of it are chosen from Sums3, Sums1 and Bytes, and the
   same numbers, in two visits, are given to the accelerator's arithmetic.    *)
EXTENDS MapMerger

CONSTANTS MAP_SIZE, OUT_CH,
          Words,          \* IN_CH / 4, words per pixel and per tap
          Sums3, Sums1,   \* sums of one input channel group
          Bytes,          \* operands
          None

Taps == 9
Largest(channels, taps) == channels * taps * 4^(B - 1)

\* Sums are sums of products of operands; the fields reach above the largest.
ASSUME SumAssumption ==
  /\ MAP_SIZE \in Nat \ {0} /\ OUT_CH \in Nat \ {0} /\ Words \in Nat \ {0}
  /\ Bytes \subseteq -(2^(B - 1)) .. 2^(B - 1) - 1
  /\ Sums3 \subseteq -Largest(2 * Words, Taps) .. Largest(2 * Words, Taps)
  /\ Sums1 \subseteq -Largest(2 * Words, 1) .. Largest(2 * Words, 1)
  /\ Largest(4 * Words, Taps + 1) + 2^(B - 1) <= 2^(Q3 + B - 1)
  /\ Largest(4 * Words, 1) < 2^(Q1 + B - 1)
  /\ Q3 + B <= W3 /\ Q1 + B <= W1

VARIABLES pc,             \* "w3", "w1", "conv" or "return"
          m, tap, p,      \* loop counters: output channel, tap (3 k + m), word
          offset,         \* the next word to read
          w3, w1,         \* which word of its region each part of a kernel is
          i, j,           \* the pixel
          psum3x3, psum1x1,
          checked         \* the numbers and both results of the pixel just done

vars == <<pc, m, tap, p, offset, w3, w1, i, j, psum3x3, psum1x1, checked>>

Init ==
  /\ pc = "w3" /\ m = 0 /\ tap = 0 /\ p = 0 /\ offset = 0
  /\ w3 = [c \in 0..(OUT_CH - 1) |-> [t \in 0..(Taps - 1) |-> [l \in 0..(Words - 1) |-> None]]]
  /\ w1 = [c \in 0..(OUT_CH - 1) |-> [l \in 0..(Words - 1) |-> None]]
  /\ i = 0 /\ j = 0
  /\ psum3x3 = {} /\ psum1x1 = {} /\ checked = None

\* The kernels, word by word in the order of the three (two) loops.
LoadW3 ==
  /\ pc = "w3"
  /\ w3' = [w3 EXCEPT ![m][tap][p] = offset]
  /\ p' = (p + 1) % Words
  /\ tap' = IF p = Words - 1 THEN (tap + 1) % Taps ELSE tap
  /\ LET channel == p = Words - 1 /\ tap = Taps - 1
         last == channel /\ m = OUT_CH - 1 IN
     /\ m' = IF channel THEN (m + 1) % OUT_CH ELSE m
     /\ pc' = IF last THEN "w1" ELSE "w3"
     /\ offset' = IF last THEN 0 ELSE offset + 1
  /\ UNCHANGED <<w1, i, j, psum3x3, psum1x1, checked>>

LoadW1 ==
  /\ pc = "w1"
  /\ w1' = [w1 EXCEPT ![m][p] = offset]
  /\ p' = (p + 1) % Words
  /\ m' = IF p = Words - 1 THEN (m + 1) % OUT_CH ELSE m
  /\ pc' = IF p = Words - 1 /\ m = OUT_CH - 1 THEN "conv" ELSE "w1"
  /\ offset' = offset + 1
  /\ UNCHANGED <<tap, w3, i, j, psum3x3, psum1x1, checked>>

\* Only output channel 0 is computed (main.c:68).
och == 0
paddedTop(k, n) == i + k = 0 \/ j + n = 0 \/ j + n = MAP_SIZE
padded(k, n) == i + k = 0 \/ i + k = MAP_SIZE + 1 \/ j + n = 0 \/ j + n = MAP_SIZE

Tap ==
  /\ pc = "conv" /\ tap < Taps
  /\ LET k == tap \div 3
         n == tap % 3 IN
     psum3x3' = IF padded(k, n) THEN psum3x3
                ELSE psum3x3 \cup
                     {<<((i + k - 1) * MAP_SIZE + (j + n - 1)) * Words + ich, w3[och][tap][ich]>> :
                        ich \in 0..(Words - 1)}
  /\ tap' = tap + 1 /\ checked' = None
  /\ UNCHANGED <<pc, m, p, offset, w3, w1, i, j, psum1x1>>

Point ==
  /\ pc = "conv" /\ tap = Taps /\ psum1x1 = {}
  /\ psum1x1' = {<<(i * MAP_SIZE + j) * Words + ich, w1[och][ich]>> : ich \in 0..(Words - 1)}
  /\ UNCHANGED <<pc, m, tap, p, offset, w3, w1, i, j, psum3x3, checked>>

\* relu & quan; (x >> s) & 0xff of the C code is a field of x in two's complement,
\* and the int8_t it is stored in reads it as a signed number again.
masked(x, s) == (x \div 2^s) % 2^B
quan(x, s) == SignedOf(masked(x, s), B)
Software(sum3, sum1, id) ==
  LET map_sum == sum3 + sum1 + id IN
  <<quan(sum1, Q1), quan(sum3, Q3), quan(IF map_sum < 0 THEN 0 ELSE map_sum, Q3)>>

\* The accelerator's word, from the sums of the two groups; the channel's own
\* operand is in one of them.
Accelerator(s, t, a, b, id, other, half) ==
  LET Given(sum3, sum1, mine) == Visit(sum3, sum1, IF mine THEN id ELSE other) IN
  map_merger_data_out(Accumulated(Given(s, a, ~half), Given(t, b, half), half))

Quantise ==
  /\ pc = "conv" /\ psum1x1 # {}
  /\ \E s, t \in Sums3, a, b \in Sums1, id, other \in Bytes, half \in BOOLEAN :
       checked' = [sums |-> <<a + b, s + t, a + b + s + t + id>>,
                   software |-> Software(s + t, a + b, id),
                   accelerator |-> Accelerator(s, t, a, b, id, other, half)]
  /\ psum3x3' = {} /\ psum1x1' = {} /\ tap' = 0
  /\ j' = (j + 1) % MAP_SIZE
  /\ i' = IF j = MAP_SIZE - 1 THEN i + 1 ELSE i
  /\ pc' = IF j = MAP_SIZE - 1 /\ i = MAP_SIZE - 1 THEN "return" ELSE "conv"
  /\ UNCHANGED <<m, p, offset, w3, w1>>

Next == LoadW3 \/ LoadW1 \/ Tap \/ Point \/ Quantise
Spec == Init /\ [][Next]_vars

(***************************************************************************)
(* Properties.                                                              *)
(***************************************************************************)
\* The words of the pixel at row r, column c, each with the kernel's word of the
\* same four channels, as the accelerator's units fetch them in order.
Products(r, c, kernelWord) ==
  {<<(r * MAP_SIZE + c) * Words + l, kernelWord + l>> : l \in 0..(Words - 1)}

\* The nine neighbours of pixel (i, j), as far as the map has them: the window of
\* LeavingNamesPixel in MacArrayCore.
Window == UNION {Products(i + (t \div 3) - 1, j + (t % 3) - 1, t * Words) :
                   t \in {u \in 0..(Taps - 1) : /\ i + (u \div 3) \in 1..MAP_SIZE
                                                /\ j + (u % 3) \in 1..MAP_SIZE}}

\* The software computes a pixel from the neighbours the accelerator computes it
\* from, but for the two last columns: it takes the border to be at j + m =
\* MAP_SIZE (main.c:78), one column early, and reads beyond the line there.
WindowUntilLastColumns ==
  pc = "conv" /\ tap = Taps =>
    /\ j < MAP_SIZE - 2 => psum3x3 = Window
    /\ psum1x1 # {} => psum1x1 = Products(i, j, 0)

\* From the same sums the accelerator makes the bytes the software makes: the sign
\* is carried from word to wider word and two visits add up to one sum.  A byte of
\* the accelerator's word is read as the int8_t it is; the comparison left as a
\* comment at main.c:122 reads it unsigned and would fail on a negative one.
BytesAgree ==
  checked # None =>
    \A n \in 1..3 : checked.software[n] = SignedOf(checked.accelerator[n], B)

\* A byte is the top of its sum, rounded down, for the largest sums too: the
\* field cut out of the word (map_merger.v:43) loses nothing above it.
BytesHoldSums ==
  checked # None =>
    /\ SignedOf(checked.accelerator[1], B) = checked.sums[1] \div 2^Q1
    /\ SignedOf(checked.accelerator[2], B) = checked.sums[2] \div 2^Q3
    /\ checked.accelerator[3] = IF checked.sums[3] < 0 THEN 0 ELSE checked.sums[3] \div 2^Q3
===========================================================================
