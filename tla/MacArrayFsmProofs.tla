------------------------ MODULE MacArrayFsmProofs ------------------------
(* Theorems about the MAC array sequencer for every map side M >= 3 and every
   number of output channels.                                                *)
EXTENDS MacArrayFsm, FiniteSetTheorems, TLAPS

\* A map has at least one pixel.
LEMMA PixelsPositive == Pixels \in Nat /\ Pixels >= 1
<1>1. M \in Nat /\ M >= 3
  BY MapAssumption
<1>2. M * M \in Nat /\ M * M >= 1
  BY <1>1, SMT
<1> QED
  BY <1>2 DEF Pixels

\* The next state of the FSM is a state.
LEMMA NextStateInStates ==
  ASSUME state \in States, NEW start, NEW en
  PROVE  NextState(start, en) \in States
BY DEF NextState, States, Zones

\* The reset values are in range.
LEMMA TypeInit == Init => TypeOK
<1> SUFFICES ASSUME Init PROVE TypeOK
  OBVIOUS
<1>1. state \in States /\ conv_done \in BOOLEAN
  BY DEF Init, States
<1>2. vld_d \in [1..Delay -> BOOLEAN]
  BY DEF Init
<1>3. 0 \in 0..(M + 2) /\ 0 \in 0..(M - 1) /\ 0 \in 0..1 /\ 0 \in 0..(NOCH - 1)
      /\ 0 \in 0..(2 * NOCH - 1)
  BY MapAssumption, ChannelAssumption
<1>4. 0 \in 0..(Pixels - 1)
  BY PixelsPositive
<1> QED
  BY <1>1, <1>2, <1>3, <1>4 DEF Init, TypeOK

\* One clock edge keeps every register in range, whatever its inputs.
LEMMA TypeClock ==
  ASSUME TypeOK, NEW start \in BOOLEAN, NEW rdy \in BOOLEAN, Clock(start, rdy)
  PROVE  TypeOK'
<1> DEFINE en == pipe_en(rdy)
<1>1. M \in Nat /\ M >= 3 /\ NOCH \in Nat /\ NOCH >= 1
  BY MapAssumption, ChannelAssumption
<1>2. state' \in States
  BY NextStateInStates DEF Clock, TypeOK
<1>3. setup_cnt' \in 0..(M + 2)
  BY <1>1 DEF Clock, Wrap, SetupCnt, TypeOK
<1>4. conv_col_cnt' \in 0..(M - 1) /\ conv_row_cnt' \in 0..(M - 1)
  BY <1>1 DEF Clock, Wrap, ConvCounters, TypeOK
<1>5. in_ch_cnt' \in 0..1 /\ out_ch_cnt' \in 0..(NOCH - 1)
  BY <1>1 DEF Clock, Wrap, ConvCounters, TypeOK
<1>6. imap_cnt' \in 0..(Pixels - 1)
  BY PixelsPositive DEF Clock, Wrap, ImapCnt, TypeOK
<1>7. omap_cnt' \in 0..(Pixels - 1)
  BY PixelsPositive DEF Clock, Wrap, OmapCounters, TypeOK
<1>8. omap_ch_cnt' \in 0..(2 * NOCH - 1)
  BY <1>1 DEF Clock, Wrap, OmapCounters, TypeOK
<1>9. conv_done' \in BOOLEAN
  BY DEF Clock, ConvDone, TypeOK
<1>10. vld_d' \in [1..Delay -> BOOLEAN]
  BY DEF Clock, VldDelay, TypeOK, Delay, array_en
<1> QED
  BY <1>2, <1>3, <1>4, <1>5, <1>6, <1>7, <1>8, <1>9, <1>10 DEF TypeOK

\* Every clock edge keeps the registers in range.
LEMMA TypeStep == TypeOK /\ [Next]_vars => TypeOK'
<1> SUFFICES ASSUME TypeOK, [Next]_vars PROVE TypeOK'
  OBVIOUS
<1>1. CASE Next
  <2>1. PICK start \in BOOLEAN, stall \in BOOLEAN : Tick(start, stall)
    BY <1>1 DEF Next
  <2>2. PsumReady(stall) \in BOOLEAN
    BY DEF PsumReady
  <2> QED
    BY <2>1, <2>2, TypeClock DEF Tick
<1>2. CASE UNCHANGED vars
  BY <1>2 DEF vars, TypeOK
<1> QED
  BY <1>1, <1>2

\* Every register keeps the range the source's widths and wraps intend.
THEOREM TypeCorrect == Spec => []TypeOK
BY TypeInit, TypeStep, PTL DEF Spec

\* The conv counters after an edge on which the pipeline advances.
Moved ==
  /\ setup_cnt' = IF state = "array_setup" THEN Wrap(setup_cnt, M + 2) ELSE setup_cnt
  /\ conv_col_cnt' = IF array_en THEN Wrap(conv_col_cnt, M - 1) ELSE conv_col_cnt
  /\ conv_row_cnt' = IF array_en /\ RowEnd THEN Wrap(conv_row_cnt, M - 1) ELSE conv_row_cnt
  /\ in_ch_cnt' = IF array_en /\ MapEnd THEN 1 - in_ch_cnt ELSE in_ch_cnt
  /\ out_ch_cnt' = IF array_en /\ MapEnd /\ in_ch_cnt = 1 THEN Wrap(out_ch_cnt, NOCH - 1)
                                                         ELSE out_ch_cnt

\* The first zone is that of the first pixel.
LEMMA ZoneInit == Init => ZoneMatchesPixel
BY DEF Init, ZoneMatchesPixel, Zones

\* One clock edge keeps zone and pixel together: one case per state of the FSM
\* when the pipeline advances, nothing but a start when it does not.
LEMMA ZoneClock ==
  ASSUME TypeOK, ZoneMatchesPixel, NEW start \in BOOLEAN, NEW rdy \in BOOLEAN,
         Clock(start, rdy)
  PROVE  ZoneMatchesPixel'
<1>1. CASE ~pipe_en(rdy)
  <2>1. UNCHANGED <<setup_cnt, conv_col_cnt, conv_row_cnt, in_ch_cnt, out_ch_cnt>>
    BY <1>1 DEF Clock, SetupCnt, ConvCounters
  <2>2. state' = IF state = "idle" /\ start THEN "array_setup" ELSE state
    BY <1>1 DEF Clock, NextState
  <2> QED
    BY <2>1, <2>2 DEF ZoneMatchesPixel, Zones
<1>2. CASE pipe_en(rdy)
  <2>a. Moved
    BY <1>2 DEF Clock, SetupCnt, ConvCounters, Moved
  <2>b. state' = NextState(start, TRUE) /\ state # "idle" /\ M \in Nat /\ M >= 3
        /\ NOCH \in Nat /\ NOCH >= 1
    BY <1>2, MapAssumption, ChannelAssumption DEF Clock, pipe_en, NextState
  <2>1. CASE state = "array_setup"
    BY <2>1, <2>a, <2>b DEF NextState, Moved, ZoneMatchesPixel, TypeOK, Zones, array_en,
      RowEnd, MapEnd, InnerRow, InnerRowEnd, LastPass, Wrap
  <2>2. CASE state = "conv_s0"
    BY <2>2, <2>a, <2>b DEF NextState, Moved, ZoneMatchesPixel, TypeOK, Zones, array_en,
      RowEnd, MapEnd, InnerRow, InnerRowEnd, LastPass, Wrap
  <2>3. CASE state = "conv_s1"
    BY <2>3, <2>a, <2>b DEF NextState, Moved, ZoneMatchesPixel, TypeOK, Zones, array_en,
      RowEnd, MapEnd, InnerRow, InnerRowEnd, LastPass, Wrap
  <2>4. CASE state = "conv_s2"
    BY <2>4, <2>a, <2>b DEF NextState, Moved, ZoneMatchesPixel, TypeOK, Zones, array_en,
      RowEnd, MapEnd, InnerRow, InnerRowEnd, LastPass, Wrap
  <2>5. CASE state = "conv_s3"
    BY <2>5, <2>a, <2>b DEF NextState, Moved, ZoneMatchesPixel, TypeOK, Zones, array_en,
      RowEnd, MapEnd, InnerRow, InnerRowEnd, LastPass, Wrap
  <2>6. CASE state = "conv_s4"
    BY <2>6, <2>a, <2>b DEF NextState, Moved, ZoneMatchesPixel, TypeOK, Zones, array_en,
      RowEnd, MapEnd, InnerRow, InnerRowEnd, LastPass, Wrap
  <2>7. CASE state = "conv_s5"
    <3>1. conv_col_cnt = M - 1 /\ conv_row_cnt \in 1..(M - 2) /\ in_ch_cnt \in 0..1
      BY <2>7, <2>b DEF ZoneMatchesPixel, TypeOK
    <3>2. conv_col_cnt' = 0 /\ conv_row_cnt' = conv_row_cnt + 1 /\ setup_cnt' = 0
      BY <3>1, <2>7, <2>a, <2>b DEF Moved, ZoneMatchesPixel, Zones, array_en, RowEnd, Wrap
    <3>3. state' = IF conv_row_cnt = M - 2 THEN "conv_s6" ELSE "conv_s3"
      BY <3>1, <2>7, <2>b DEF NextState, RowEnd, InnerRowEnd
    <3> QED
      BY <3>1, <3>2, <3>3, <2>b DEF ZoneMatchesPixel, Zones
  <2>8. CASE state = "conv_s6"
    BY <2>8, <2>a, <2>b DEF NextState, Moved, ZoneMatchesPixel, TypeOK, Zones, array_en,
      RowEnd, MapEnd, InnerRow, InnerRowEnd, LastPass, Wrap
  <2>9. CASE state = "conv_s7"
    <3>1. conv_row_cnt = M - 1 /\ conv_col_cnt \in 1..(M - 2)
      BY <2>9, <2>b DEF ZoneMatchesPixel, TypeOK
    <3>2. conv_col_cnt' = conv_col_cnt + 1 /\ conv_row_cnt' = M - 1 /\ setup_cnt' = 0
      BY <3>1, <2>9, <2>a, <2>b DEF Moved, ZoneMatchesPixel, Zones, array_en, RowEnd, Wrap
    <3>3. state' = IF conv_col_cnt = M - 2 THEN "conv_s8" ELSE "conv_s7"
      BY <3>1, <2>9, <2>b DEF NextState
    <3> QED
      BY <3>1, <3>2, <3>3, <2>b DEF ZoneMatchesPixel, Zones
  <2>10. CASE state = "conv_s8"
    BY <2>10, <2>a, <2>b DEF NextState, Moved, ZoneMatchesPixel, TypeOK, Zones, array_en,
      RowEnd, MapEnd, InnerRow, InnerRowEnd, LastPass, Wrap
  <2>11. CASE state = "array_cool_down"
    BY <2>11, <2>a, <2>b DEF NextState, Moved, ZoneMatchesPixel, TypeOK, Zones, array_en,
      RowEnd, MapEnd, InnerRow, InnerRowEnd, LastPass, Wrap
  <2> QED
    BY <2>1, <2>2, <2>3, <2>4, <2>5, <2>6, <2>7, <2>8, <2>9, <2>10, <2>11, <2>b
    DEF TypeOK, States, Zones
<1> QED
  BY <1>1, <1>2

\* Zone and pixel move together.
LEMMA ZoneStep == TypeOK /\ ZoneMatchesPixel /\ [Next]_vars => ZoneMatchesPixel'
<1> SUFFICES ASSUME TypeOK, ZoneMatchesPixel, [Next]_vars PROVE ZoneMatchesPixel'
  OBVIOUS
<1>1. CASE Next
  <2>1. PICK start \in BOOLEAN, stall \in BOOLEAN : Tick(start, stall)
    BY <1>1 DEF Next
  <2>2. PsumReady(stall) \in BOOLEAN
    BY DEF PsumReady
  <2> QED
    BY <2>1, <2>2, ZoneClock DEF Tick
<1>2. CASE UNCHANGED vars
  BY <1>2 DEF vars, ZoneMatchesPixel
<1> QED
  BY <1>1, <1>2

\* The FSM's zone and the counters' (row, column) never part, whatever starts
\* and stalls the surroundings produce.
THEOREM ZoneCorrect == Spec => []ZoneMatchesPixel
<1>1. Init => TypeOK /\ ZoneMatchesPixel
  BY TypeInit, ZoneInit
<1>2. TypeOK /\ ZoneMatchesPixel /\ [Next]_vars => (TypeOK /\ ZoneMatchesPixel)'
  BY TypeStep, ZoneStep
<1> QED
  BY <1>1, <1>2, PTL DEF Spec

\* In the right zone, the enabled multipliers are those of the neighbours that
\* exist.
LEMMA PaddingFromZone ==
  ASSUME TypeOK, ZoneMatchesPixel
  PROVE  PaddingCorrect
<1> SUFFICES ASSUME array_en, NEW r \in 0..2, NEW c \in 0..2
             PROVE  (8 - (3 * r + c)) \in pe_en <=> Neighbour(r, c)
  BY DEF PaddingCorrect
<1>1. M \in Nat /\ M >= 3
  BY MapAssumption
<1>2. conv_row_cnt + r \in 1..M <=>
        (r = 0 => conv_row_cnt > 0) /\ (r = 2 => conv_row_cnt < M - 1)
  BY <1>1 DEF TypeOK
<1>3. conv_col_cnt + c \in 1..M <=>
        (c = 0 => conv_col_cnt > 0) /\ (c = 2 => conv_col_cnt < M - 1)
  BY <1>1 DEF TypeOK
<1>4. Neighbour(r, c) <=> /\ (r = 0 => conv_row_cnt > 0) /\ (r = 2 => conv_row_cnt < M - 1)
                          /\ (c = 0 => conv_col_cnt > 0) /\ (c = 2 => conv_col_cnt < M - 1)
  BY <1>2, <1>3 DEF Neighbour
<1>5. CASE state = "conv_s0"
  BY <1>5, <1>1, <1>4 DEF ZoneMatchesPixel, pe_en
<1>6. CASE state = "conv_s1"
  BY <1>6, <1>1, <1>4 DEF ZoneMatchesPixel, pe_en
<1>7. CASE state = "conv_s2"
  BY <1>7, <1>1, <1>4 DEF ZoneMatchesPixel, pe_en
<1>8. CASE state = "conv_s3"
  BY <1>8, <1>1, <1>4 DEF ZoneMatchesPixel, pe_en
<1>9. CASE state = "conv_s4"
  BY <1>9, <1>1, <1>4 DEF ZoneMatchesPixel, pe_en
<1>10. CASE state = "conv_s5"
  BY <1>10, <1>1, <1>4 DEF ZoneMatchesPixel, pe_en
<1>11. CASE state = "conv_s6"
  BY <1>11, <1>1, <1>4 DEF ZoneMatchesPixel, pe_en
<1>12. CASE state = "conv_s7"
  BY <1>12, <1>1, <1>4 DEF ZoneMatchesPixel, pe_en
<1>13. CASE state = "conv_s8"
  BY <1>13, <1>1, <1>4 DEF ZoneMatchesPixel, pe_en
<1> QED
  BY <1>5, <1>6, <1>7, <1>8, <1>9, <1>10, <1>11, <1>12, <1>13 DEF array_en, Zones

\* Zero padding is right at every border of a map of every size.
THEOREM PaddingAlwaysCorrect == Spec => []PaddingCorrect
BY TypeCorrect, ZoneCorrect, PaddingFromZone, PTL
(***************************************************************************)
(* Tags: what the array holds is what was issued and is not yet delivered.  *)
(***************************************************************************)
\* One clock edge is what every step but a stutter is.
LEMMA StepIsClock ==
  ASSUME [Next]_vars
  PROVE  \/ UNCHANGED vars
         \/ \E start \in BOOLEAN, rdy \in BOOLEAN : Clock(start, rdy)
<1> SUFFICES ASSUME Next PROVE \E start \in BOOLEAN, rdy \in BOOLEAN : Clock(start, rdy)
  OBVIOUS
<1>1. PICK start \in BOOLEAN, stall \in BOOLEAN : Tick(start, stall)
  BY DEF Next
<1>2. PsumReady(stall) \in BOOLEAN
  BY DEF PsumReady
<1> QED
  BY <1>1, <1>2 DEF Tick

\* A high and a low digit that wrap together count like one number.
LEMMA TwoDigits ==
  ASSUME NEW P \in Nat, P >= 1, NEW K \in Nat, K >= 1,
         NEW hi \in 0..(K - 1), NEW lo \in 0..(P - 1)
  PROVE  /\ hi * P + lo \in 0..(K * P - 1)
         /\ hi * P + lo = K * P - 1 <=> hi = K - 1 /\ lo = P - 1
         /\ (hi + 1) * P = hi * P + P
         /\ K * P \in Nat
<1>1. hi * P \in Nat /\ K * P \in Nat /\ (hi + 1) * P = hi * P + P
  BY SMT
<1>2. CASE hi = K - 1
  <2>1. K * P = hi * P + P
    BY <1>1, <1>2
  <2> QED
    BY <1>1, <1>2, <2>1
<1>3. CASE hi < K - 1
  <2>1. K = (hi + 1) + (K - hi - 1) /\ K - hi - 1 \in Nat /\ K - hi - 1 >= 1
    BY <1>3
  <2>2. (K - hi - 1) * P >= P
    BY <2>1, SMT
  <2>3. K * P = (hi + 1) * P + (K - hi - 1) * P
    BY <2>1, SMT
  <2>4. (K - hi - 1) * P \in Nat
    BY <2>1, SMT
  <2> QED
    BY <1>1, <1>3, <2>2, <2>3, <2>4
<1> QED
  BY <1>2, <1>3

\* Two numbers with the same digits' base are equal only digit by digit.
LEMMA DigitsUnique ==
  ASSUME NEW P \in Nat, P >= 1, NEW a \in Nat, NEW b \in Nat,
         NEW x \in 0..(P - 1), NEW y \in 0..(P - 1), a * P + x = b * P + y
  PROVE  a = b
<1>1. \A m, n \in Nat : m < n => m * P + P <= n * P /\ m * P \in Nat /\ n * P \in Nat
  <2> SUFFICES ASSUME NEW m \in Nat, NEW n \in Nat, m < n
               PROVE  m * P + P <= n * P /\ m * P \in Nat /\ n * P \in Nat
    OBVIOUS
  <2>1. m * P \in Nat /\ n * P \in Nat /\ n - m - 1 \in Nat
    BY SMT
  <2>2. n * P = m * P + P + (n - m - 1) * P /\ (n - m - 1) * P \in Nat
    BY <2>1, SMT
  <2> QED
    BY <2>1, <2>2
<1>2. a * P \in Nat /\ b * P \in Nat
  BY SMT
<1>3. CASE a < b
  BY <1>1, <1>2, <1>3
<1>4. CASE b < a
  BY <1>1, <1>2, <1>4
<1> QED
  BY <1>3, <1>4

position == conv_row_cnt * M + conv_col_cnt
pass     == 2 * out_ch_cnt + in_ch_cnt
Total        == 2 * NOCH * Pixels

\* The sizes are positive, and a map has at least nine pixels.
LEMMA Bounds ==
  /\ M \in Nat /\ M >= 3 /\ NOCH \in Nat /\ NOCH >= 1
  /\ Pixels \in Nat /\ Pixels >= 9
  /\ Total \in Nat /\ Total = (2 * NOCH) * Pixels /\ Total >= 2 * Pixels
<1>1. M \in Nat /\ M >= 3 /\ NOCH \in Nat /\ NOCH >= 1
  BY MapAssumption, ChannelAssumption
<1>2. M * M \in Nat /\ M * M >= 9
  BY <1>1, SMT
<1>3. Pixels \in Nat /\ Pixels >= 9
  BY <1>2 DEF Pixels
<1>4. NOCH * Pixels \in Nat /\ NOCH * Pixels >= Pixels
  BY <1>1, <1>3, SMT
<1>5. (2 * NOCH) * Pixels = 2 * (NOCH * Pixels)
  BY <1>1, <1>3, SMT
<1> QED
  BY <1>1, <1>3, <1>4, <1>5 DEF Total

\* Quotient and remainder are those of the only such decomposition.
LEMMA Quotient ==
  ASSUME NEW Q \in Nat, Q >= 1, NEW k \in Int, NEW r \in 0..(Q - 1), NEW a, a = Q * k + r
  PROVE  a % Q = r /\ a \div Q = k
<1>1. a \in Int
  BY SMT
<1> QED
  BY <1>1, SMT

\* The offset of the next pixel.
LEMMA NextOffset ==
  ASSUME NEW n \in Int
  PROVE  /\ n % Pixels \in 0..(Pixels - 1)
         /\ (n + 1) % Pixels = IF n % Pixels = Pixels - 1 THEN 0 ELSE (n % Pixels) + 1
<1>1. Pixels \in Nat /\ Pixels >= 9
  BY Bounds
<1> DEFINE q == n \div Pixels
           r == n % Pixels
<1>2. q \in Int /\ r \in 0..(Pixels - 1) /\ n = Pixels * q + r
  BY <1>1, SMT
<1> HIDE DEF q, r
<1>3. CASE r = Pixels - 1
  <2>1. n + 1 = Pixels * (q + 1) + 0
    BY <1>1, <1>2, <1>3, SMT
  <2>2. (n + 1) % Pixels = 0
    BY <1>1, <1>2, <2>1, Quotient
  <2> QED
    BY <1>2, <1>3, <2>2 DEF r
<1>4. CASE r # Pixels - 1
  <2> DEFINE s == r + 1
  <2>1. n + 1 = Pixels * q + s /\ s \in 0..(Pixels - 1)
    BY <1>1, <1>2, <1>4
  <2> HIDE DEF s
  <2>2. (n + 1) % Pixels = s
    BY <1>1, <1>2, <2>1, Quotient
  <2>3. (n + 1) % Pixels = r + 1
    BY <2>2 DEF s
  <2> QED
    BY <1>2, <1>4, <2>3 DEF r
<1> QED
  BY <1>3, <1>4

\* A whole number of passes does not change the offset.
LEMMA SameOffset ==
  ASSUME NEW k \in Int, NEW x \in Int, NEW n, n = Pixels * k + x
  PROVE  n % Pixels = x % Pixels
<1>1. Pixels \in Nat /\ Pixels >= 9
  BY Bounds
<1> DEFINE q == x \div Pixels
           r == x % Pixels
           s == k + q
<1>2. q \in Int /\ r \in 0..(Pixels - 1) /\ x = Pixels * q + r
  BY <1>1, SMT
<1>3. s \in Int /\ s = k + q
  BY <1>2
<1> HIDE DEF q, r, s
<1>4. Pixels * s = Pixels * k + Pixels * q
  BY <1>1, <1>2, <1>3, SMT
<1>5. n = Pixels * s + r
  <2>1. Pixels * k \in Int /\ Pixels * q \in Int
    BY <1>1, <1>2
  <2> HIDE DEF Pixels
  <2> QED
    BY <1>1, <1>2, <1>4, <2>1
<1>6. n % Pixels = r
  BY <1>1, <1>2, <1>3, <1>5, Quotient
<1> QED
  BY <1>6 DEF r

\* The counters on the input side are the digits of Issued, those on the output
\* side the digits of Delivered.
LEMMA Digits ==
  ASSUME TypeOK
  PROVE  /\ position \in 0..(Pixels - 1) /\ pass \in 0..(2 * NOCH - 1)
         /\ MapEnd <=> position = Pixels - 1
         /\ MapEnd /\ LastPass <=> MapEnd /\ pass = 2 * NOCH - 1
         /\ Issued = pass * Pixels + position
         /\ Issued \in 0..(Total - 1) /\ Delivered \in 0..(Total - 1)
         /\ Issued = Total - 1 <=> MapEnd /\ LastPass
         /\ Delivered = Total - 1 <=> LastOut /\ LastMap
<1>1. /\ M \in Nat /\ M >= 3 /\ NOCH \in Nat /\ NOCH >= 1
      /\ Pixels \in Nat /\ Pixels >= 9 /\ Pixels = M * M
      /\ Total \in Nat /\ Total = (2 * NOCH) * Pixels
  BY Bounds DEF Pixels
<1>2. /\ conv_row_cnt \in 0..(M - 1) /\ conv_col_cnt \in 0..(M - 1)
      /\ in_ch_cnt \in 0..1 /\ out_ch_cnt \in 0..(NOCH - 1)
      /\ omap_cnt \in 0..(Pixels - 1) /\ omap_ch_cnt \in 0..(2 * NOCH - 1)
  BY DEF TypeOK
<1>3. position \in 0..(Pixels - 1) /\ (MapEnd <=> position = Pixels - 1)
  <2>1. M >= 1
    BY <1>1
  <2>2. /\ position \in 0..(M * M - 1)
        /\ position = M * M - 1 <=> conv_row_cnt = M - 1 /\ conv_col_cnt = M - 1
    BY <1>1, <1>2, <2>1, TwoDigits DEF position
  <2> QED
    BY <1>1, <2>2 DEF MapEnd, RowEnd
<1>4. pass \in 0..(2 * NOCH - 1) /\ (LastPass <=> pass = 2 * NOCH - 1)
  BY <1>1, <1>2 DEF pass, LastPass
<1>5. Issued = pass * Pixels + position
  <2>1. pass \in Nat /\ conv_row_cnt \in Nat /\ conv_col_cnt \in Nat
    BY <1>1, <1>2, <1>4
  <2>2. (pass * M + conv_row_cnt) * M + conv_col_cnt
          = pass * (M * M) + (conv_row_cnt * M + conv_col_cnt)
    BY <1>1, <2>1, SMT
  <2> QED
    BY <1>1, <2>2 DEF Issued, pass, position
<1>6. 2 * NOCH \in Nat /\ 2 * NOCH >= 1 /\ Pixels >= 1
  BY <1>1
<1>7. /\ Issued \in 0..(Total - 1)
      /\ Issued = Total - 1 <=> pass = 2 * NOCH - 1 /\ position = Pixels - 1
  BY <1>1, <1>3, <1>4, <1>5, <1>6, TwoDigits
<1>8. /\ Delivered \in 0..(Total - 1)
      /\ Delivered = Total - 1 <=> omap_ch_cnt = 2 * NOCH - 1 /\ omap_cnt = Pixels - 1
  BY <1>1, <1>2, <1>6, TwoDigits DEF Delivered
<1> QED
  BY <1>3, <1>4, <1>5, <1>7, <1>8 DEF LastOut, LastMap

\* The number of valid bits, register by register.
Bit(b) == IF b THEN 1 ELSE 0
Sum6(v) == Bit(v[1]) + Bit(v[2]) + Bit(v[3]) + Bit(v[4]) + Bit(v[5]) + Bit(v[6])

\* The valid bits of the pipeline, counted one by one.
LEMMA InFlightIsSum ==
  ASSUME NEW v \in [1..6 -> BOOLEAN]
  PROVE  Cardinality({i \in 1..6 : v[i]}) = Sum6(v)
<1> DEFINE Upto(k) == {i \in 1..k : v[i]}
<1>1. \A k \in 0..5 : IsFiniteSet(Upto(k)) /\ Cardinality(Upto(k)) \in Nat =>
                        /\ IsFiniteSet(Upto(k + 1))
                        /\ Cardinality(Upto(k + 1)) = Cardinality(Upto(k)) + Bit(v[k + 1])
  <2> SUFFICES ASSUME NEW k \in 0..5, IsFiniteSet(Upto(k)), Cardinality(Upto(k)) \in Nat
               PROVE  /\ IsFiniteSet(Upto(k + 1))
                      /\ Cardinality(Upto(k + 1)) = Cardinality(Upto(k)) + Bit(v[k + 1])
    OBVIOUS
  <2>1. k + 1 \notin Upto(k)
    OBVIOUS
  <2>2. CASE v[k + 1]
    <3>1. Upto(k + 1) = Upto(k) \cup {k + 1}
      BY <2>2
    <3> HIDE DEF Upto
    <3>2. /\ IsFiniteSet(Upto(k) \cup {k + 1})
          /\ Cardinality(Upto(k) \cup {k + 1}) = Cardinality(Upto(k)) + 1
      BY <2>1, FS_AddElement
    <3> QED
      BY <2>2, <3>1, <3>2 DEF Bit
  <2>3. CASE ~v[k + 1]
    <3>1. Upto(k + 1) = Upto(k)
      BY <2>3
    <3> HIDE DEF Upto
    <3> QED
      BY <2>3, <3>1 DEF Bit
  <2> QED
    BY <2>2, <2>3
<1>2. Upto(0) = {} /\ Upto(6) = {i \in 1..6 : v[i]}
  OBVIOUS
<1> HIDE DEF Upto
<1>3. \A b : Bit(b) \in {0, 1}
  BY DEF Bit
<1>4. IsFiniteSet(Upto(0)) /\ Cardinality(Upto(0)) = 0
  BY <1>2, FS_EmptySet
<1>5. IsFiniteSet(Upto(1)) /\ Cardinality(Upto(1)) = Bit(v[1])
  BY <1>1, <1>3, <1>4
<1>6. IsFiniteSet(Upto(2)) /\ Cardinality(Upto(2)) = Bit(v[1]) + Bit(v[2])
  BY <1>1, <1>3, <1>5
<1>7. IsFiniteSet(Upto(3)) /\ Cardinality(Upto(3)) = Bit(v[1]) + Bit(v[2]) + Bit(v[3])
  BY <1>1, <1>3, <1>6
<1>8. IsFiniteSet(Upto(4)) /\ Cardinality(Upto(4)) = Bit(v[1]) + Bit(v[2]) + Bit(v[3]) + Bit(v[4])
  BY <1>1, <1>3, <1>7
<1>9. /\ IsFiniteSet(Upto(5))
      /\ Cardinality(Upto(5)) = Bit(v[1]) + Bit(v[2]) + Bit(v[3]) + Bit(v[4]) + Bit(v[5])
  BY <1>1, <1>3, <1>8
<1>10. Cardinality(Upto(6)) = Cardinality(Upto(5)) + Bit(v[6])
  BY <1>1, <1>3, <1>9
<1> QED
  BY <1>2, <1>9, <1>10 DEF Sum6

\* Valid bits enter one after the other without a gap, and while the array is
\* drained they leave without a gap.
Filling(v)  == \A i \in 1..5 : v[i + 1] => v[i]
Draining(v) == \A i \in 1..5 : v[i] => v[i + 1]

\* Before a convolution the array is empty; during one it holds what was issued and
\* not delivered, and nothing was delivered before it was full; at its end it holds
\* what is still missing.
Balance ==
  /\ state \in {"idle", "array_setup"} => (\A i \in 1..6 : ~vld_d[i]) /\ Delivered = 0
  /\ array_en => /\ Filling(vld_d)
                 /\ vld_d[6] \/ Delivered = 0
                 /\ Issued = Delivered + Sum6(vld_d)
  /\ state = "array_cool_down" => /\ Draining(vld_d) /\ vld_d[6]
                                  /\ Delivered + Sum6(vld_d) = Total
  /\ conv_done => state = "idle"

IInv == TypeOK /\ ZoneMatchesPixel /\ Balance

\* Nothing is issued, delivered or in flight at first.
LEMMA BalanceInit == Init => Balance
<1> SUFFICES ASSUME Init PROVE Balance
  OBVIOUS
<1>1. Pixels \in Nat
  BY Bounds
<1>2. 0 * Pixels + 0 = 0
  BY <1>1
<1> QED
  BY <1>2 DEF Init, Balance, Delivered, Delay, array_en, Zones

\* The pixel that enters.
LEMMA PositionMoves ==
  ASSUME TypeOK, NEW start \in BOOLEAN, NEW rdy \in BOOLEAN, Clock(start, rdy),
         array_en, pipe_en(rdy)
  PROVE  position' = IF MapEnd THEN 0 ELSE position + 1
<1>1. M \in Nat /\ M >= 3
  BY Bounds
<1>2. conv_row_cnt \in 0..(M - 1) /\ conv_col_cnt \in 0..(M - 1)
  BY DEF TypeOK
<1>3. position' = conv_row_cnt' * M + conv_col_cnt'
  BY DEF position
<1>4. CASE MapEnd
  <2>1. conv_row_cnt' = 0 /\ conv_col_cnt' = 0
    BY <1>4 DEF Clock, ConvCounters, Wrap, MapEnd, RowEnd
  <2>2. 0 * M + 0 = 0
    BY <1>1
  <2> QED
    BY <1>3, <1>4, <2>1, <2>2
<1>5. CASE RowEnd /\ ~MapEnd
  <2>1. conv_row_cnt' = conv_row_cnt + 1 /\ conv_col_cnt' = 0 /\ conv_col_cnt = M - 1
    BY <1>5 DEF Clock, ConvCounters, Wrap, MapEnd, RowEnd
  <2>2. (conv_row_cnt + 1) * M = conv_row_cnt * M + M /\ conv_row_cnt * M \in Nat
    BY <1>1, <1>2, TwoDigits
  <2> QED
    BY <1>1, <1>3, <1>5, <2>1, <2>2 DEF position
<1>6. CASE ~RowEnd
  <2>1. conv_row_cnt' = conv_row_cnt /\ conv_col_cnt' = conv_col_cnt + 1 /\ ~MapEnd
    BY <1>6 DEF Clock, ConvCounters, Wrap, MapEnd, RowEnd
  <2>2. conv_row_cnt * M \in Nat
    BY <1>1, <1>2, SMT
  <2> QED
    BY <1>1, <1>2, <1>3, <2>1, <2>2 DEF position
<1> QED
  BY <1>4, <1>5, <1>6

\* What an edge does to the two numbers.
LEMMA IssuedMoves ==
  ASSUME TypeOK, NEW start \in BOOLEAN, NEW rdy \in BOOLEAN, Clock(start, rdy)
  PROVE  Issued' = IF array_en /\ pipe_en(rdy) THEN (IF MapEnd /\ LastPass THEN 0 ELSE Issued + 1)
                                               ELSE Issued
<1>1. /\ M \in Nat /\ M >= 3 /\ NOCH \in Nat /\ NOCH >= 1
      /\ Pixels \in Nat /\ Pixels >= 9 /\ Pixels = M * M
      /\ Total \in Nat /\ Total = (2 * NOCH) * Pixels
  BY Bounds DEF Pixels
<1>2. /\ position \in 0..(Pixels - 1) /\ pass \in 0..(2 * NOCH - 1)
      /\ MapEnd <=> position = Pixels - 1
      /\ MapEnd /\ LastPass <=> MapEnd /\ pass = 2 * NOCH - 1
      /\ Issued = pass * Pixels + position
  BY Digits
<1>3. TypeOK'
  BY TypeClock
<1>4. Issued' = pass' * Pixels + position'
  <2>1. /\ conv_row_cnt' \in 0..(M - 1) /\ conv_col_cnt' \in 0..(M - 1)
        /\ in_ch_cnt' \in 0..1 /\ out_ch_cnt' \in 0..(NOCH - 1)
    BY <1>3 DEF TypeOK
  <2>2. pass' = 2 * out_ch_cnt' + in_ch_cnt' /\ pass' \in Nat
    <3>1. pass' = 2 * out_ch_cnt' + in_ch_cnt'
      BY DEF pass
    <3>2. 2 * out_ch_cnt' + in_ch_cnt' \in Nat
      <4>1. \A o \in 0..(NOCH - 1), i \in 0..1 : 2 * o + i \in Nat
        BY <1>1
      <4> QED
        BY <2>1, <4>1
    <3> QED
      BY <3>1, <3>2
  <2>3. Issued' = (pass' * M + conv_row_cnt') * M + conv_col_cnt'
    BY <2>2 DEF Issued
  <2>4. conv_row_cnt' \in Nat /\ conv_col_cnt' \in Nat
    BY <1>1, <2>1
  <2>5. (pass' * M + conv_row_cnt') * M + conv_col_cnt'
          = pass' * (M * M) + (conv_row_cnt' * M + conv_col_cnt')
    BY <1>1, <2>2, <2>4, SMT
  <2>6. position' = conv_row_cnt' * M + conv_col_cnt'
    BY DEF position
  <2> QED
    BY <1>1, <2>3, <2>5, <2>6
<1>5. CASE ~(array_en /\ pipe_en(rdy))
  BY <1>5 DEF Clock, ConvCounters, Issued
<1>6. CASE array_en /\ pipe_en(rdy)
  <2>1. /\ conv_row_cnt \in 0..(M - 1) /\ conv_col_cnt \in 0..(M - 1)
        /\ in_ch_cnt \in 0..1 /\ out_ch_cnt \in 0..(NOCH - 1)
    BY DEF TypeOK
  <2>2. position' = IF MapEnd THEN 0 ELSE position + 1
    BY <1>6, PositionMoves
  <2>3. pass' = IF MapEnd THEN (IF LastPass THEN 0 ELSE pass + 1) ELSE pass
    <3>1. /\ in_ch_cnt' = IF MapEnd THEN 1 - in_ch_cnt ELSE in_ch_cnt
          /\ out_ch_cnt' = IF MapEnd /\ in_ch_cnt = 1 THEN Wrap(out_ch_cnt, NOCH - 1) ELSE out_ch_cnt
      BY <1>6 DEF Clock, ConvCounters
    <3>2. pass' = 2 * out_ch_cnt' + in_ch_cnt'
      BY DEF pass
    <3> QED
      BY <1>1, <2>1, <3>1, <3>2 DEF Wrap, LastPass, pass
  <2>4. CASE MapEnd /\ LastPass
    BY <1>1, <1>4, <1>6, <2>2, <2>3, <2>4
  <2>5. CASE MapEnd /\ ~LastPass
    <3>1. (pass + 1) * Pixels = pass * Pixels + Pixels
      BY <1>1, <1>2, SMT
    <3>2. pass * Pixels \in Nat
      BY <1>1, <1>2, SMT
    <3>3. Issued' = (pass + 1) * Pixels + 0 /\ position = Pixels - 1
      BY <1>2, <1>4, <2>2, <2>3, <2>5
    <3> QED
      BY <1>1, <1>2, <1>6, <2>5, <3>1, <3>2, <3>3
  <2>6. CASE ~MapEnd
    <3>1. pass * Pixels \in Nat
      BY <1>1, <1>2, SMT
    <3> QED
      BY <1>1, <1>2, <1>4, <1>6, <2>2, <2>3, <2>6, <3>1
  <2> QED
    BY <2>4, <2>5, <2>6
<1> QED
  BY <1>5, <1>6

\* A word handed over moves the delivered pixel on by one, round all channels.
LEMMA DeliveredMoves ==
  ASSUME TypeOK, NEW start \in BOOLEAN, NEW rdy \in BOOLEAN, Clock(start, rdy)
  PROVE  Delivered' = IF handshake(rdy) THEN (IF LastOut /\ LastMap THEN 0 ELSE Delivered + 1)
                                        ELSE Delivered
<1>1. NOCH \in Nat /\ NOCH >= 1 /\ Pixels \in Nat /\ Pixels >= 9
  BY Bounds
<1>2. omap_cnt \in 0..(Pixels - 1) /\ omap_ch_cnt \in 0..(2 * NOCH - 1)
  BY DEF TypeOK
<1>3. /\ Delivered' = omap_ch_cnt' * Pixels + omap_cnt'
      /\ omap_cnt' = IF handshake(rdy) THEN Wrap(omap_cnt, Pixels - 1) ELSE omap_cnt
      /\ omap_ch_cnt' = IF handshake(rdy) /\ LastOut THEN Wrap(omap_ch_cnt, 2 * NOCH - 1)
                                                     ELSE omap_ch_cnt
  BY DEF Clock, OmapCounters, Delivered
<1>4. (omap_ch_cnt + 1) * Pixels = omap_ch_cnt * Pixels + Pixels /\ omap_ch_cnt * Pixels \in Nat
      /\ 0 * Pixels + 0 = 0
  <2>1. omap_ch_cnt \in Nat
    BY <1>1, <1>2
  <2> QED
    BY <1>1, <2>1, SMT
<1>5. Delivered = omap_ch_cnt * Pixels + omap_cnt
  BY DEF Delivered
<1>6. CASE ~handshake(rdy)
  BY <1>3, <1>5, <1>6
<1>7. CASE handshake(rdy) /\ LastOut /\ LastMap
  BY <1>3, <1>4, <1>7 DEF Wrap, LastOut, LastMap
<1>8. CASE handshake(rdy) /\ LastOut /\ ~LastMap
  <2>1. omap_cnt' = 0 /\ omap_ch_cnt' = omap_ch_cnt + 1 /\ omap_cnt = Pixels - 1
    BY <1>3, <1>8 DEF Wrap, LastOut, LastMap
  <2> QED
    BY <1>1, <1>3, <1>4, <1>5, <1>8, <2>1
<1>9. CASE handshake(rdy) /\ ~LastOut
  <2>1. omap_cnt' = omap_cnt + 1 /\ omap_ch_cnt' = omap_ch_cnt
    BY <1>3, <1>9 DEF Wrap, LastOut
  <2> QED
    BY <1>1, <1>2, <1>3, <1>4, <1>5, <1>9, <2>1
<1> QED
  BY <1>6, <1>7, <1>8, <1>9

\* The valid bits after an edge on which the pipeline advances.
LEMMA Shifted ==
  ASSUME TypeOK, NEW start \in BOOLEAN, NEW rdy \in BOOLEAN, Clock(start, rdy)
  PROVE  /\ vld_d \in [1..6 -> BOOLEAN] /\ vld_d' \in [1..6 -> BOOLEAN]
         /\ ~pipe_en(rdy) => vld_d' = vld_d
         /\ pipe_en(rdy) => /\ vld_d'[1] <=> array_en
                            /\ \A i \in 1..5 : vld_d'[i + 1] <=> vld_d[i]
<1>1. vld_d \in [1..6 -> BOOLEAN] /\ vld_d' \in [1..6 -> BOOLEAN]
  BY TypeClock DEF TypeOK, Delay
<1>2. ~pipe_en(rdy) => vld_d' = vld_d
  BY DEF Clock, VldDelay
<1>3. pipe_en(rdy) => vld_d' = [i \in 1..6 |-> IF i = 1 THEN array_en ELSE vld_d[i - 1]]
  BY DEF Clock, VldDelay, Delay
<1>4. pipe_en(rdy) => \A i \in 1..5 : vld_d'[i + 1] <=> vld_d[i]
  <2> SUFFICES ASSUME pipe_en(rdy), NEW i \in 1..5 PROVE vld_d'[i + 1] <=> vld_d[i]
    OBVIOUS
  <2>1. i + 1 \in 1..6 /\ i + 1 # 1 /\ (i + 1) - 1 = i
    OBVIOUS
  <2>2. vld_d'[i + 1] = vld_d[i]
    BY <1>3, <2>1
  <2> QED
    BY <2>2
<1>5. pipe_en(rdy) => (vld_d'[1] <=> array_en)
  <2> SUFFICES ASSUME pipe_en(rdy) PROVE vld_d'[1] <=> array_en
    OBVIOUS
  <2>1. vld_d'[1] = array_en
    BY <1>3
  <2> QED
    BY <2>1
<1> QED
  BY <1>1, <1>2, <1>3, <1>4, <1>5

\* Where the FSM can go.
LEMMA Goes ==
  ASSUME TypeOK, ZoneMatchesPixel, NEW start \in BOOLEAN, NEW rdy \in BOOLEAN, Clock(start, rdy)
  PROVE  /\ state = "idle" => state' \in {"idle", "array_setup"}
         /\ state = "array_setup" => state' \in {"array_setup", "conv_s0"}
         /\ array_en => state' \in Zones \cup {"array_cool_down"}
         /\ array_en => (state' = "array_cool_down" <=> pipe_en(rdy) /\ MapEnd /\ LastPass)
         /\ state = "array_cool_down" =>
              state' = IF CoolDownOver /\ pipe_en(rdy) THEN "idle" ELSE state
<1>1. state' = NextState(start, pipe_en(rdy))
  BY DEF Clock
<1>2. array_en /\ MapEnd => state = "conv_s8"
  BY MapAssumption DEF ZoneMatchesPixel, array_en, Zones, MapEnd, RowEnd
<1>3. /\ state = "idle" => state' \in {"idle", "array_setup"}
      /\ state = "array_setup" => state' \in {"array_setup", "conv_s0"}
      /\ state = "array_cool_down" => state' = IF CoolDownOver /\ pipe_en(rdy) THEN "idle" ELSE state
  BY <1>1 DEF NextState
<1>4. array_en => state' \in Zones \cup {"array_cool_down"}
  BY <1>1 DEF NextState, array_en, Zones
<1>5. array_en => (state' = "array_cool_down" <=> pipe_en(rdy) /\ MapEnd /\ LastPass)
  <2>1. CASE state = "conv_s8"
    <3>1. MapEnd
      BY <2>1 DEF ZoneMatchesPixel, MapEnd, RowEnd
    <3>2. state' = IF ~pipe_en(rdy) THEN "conv_s8"
                   ELSE IF LastPass THEN "array_cool_down" ELSE "conv_s0"
      BY <1>1, <2>1, <3>1 DEF NextState
    <3> QED
      BY <3>1, <3>2
  <2>2. CASE state # "conv_s8"
    BY <1>1, <1>2, <2>2 DEF NextState, array_en, Zones
  <2> QED
    BY <2>1, <2>2
<1> QED
  BY <1>3, <1>4, <1>5

\* An edge on which the pipeline advances while pixels are issued.
LEMMA BalanceIssuing ==
  ASSUME IInv, NEW start \in BOOLEAN, NEW rdy \in BOOLEAN, Clock(start, rdy),
         array_en, pipe_en(rdy)
  PROVE  Balance'
<1>1. /\ Filling(vld_d) /\ (vld_d[6] \/ Delivered = 0)
      /\ Issued = Delivered + Sum6(vld_d)
      /\ state \in Zones
  BY DEF IInv, Balance, array_en
<1>2. /\ Issued \in 0..(Total - 1) /\ Delivered \in 0..(Total - 1)
      /\ Issued = Total - 1 <=> MapEnd /\ LastPass
      /\ Delivered = Total - 1 <=> LastOut /\ LastMap
      /\ Total \in Nat /\ Total >= 18
  BY Digits, Bounds DEF IInv
<1>3. /\ vld_d \in [1..6 -> BOOLEAN] /\ vld_d' \in [1..6 -> BOOLEAN]
      /\ vld_d'[1] /\ \A i \in 1..5 : vld_d'[i + 1] <=> vld_d[i]
  BY Shifted DEF IInv
<1>4. /\ vld_d'[1] /\ vld_d'[2] = vld_d[1] /\ vld_d'[3] = vld_d[2] /\ vld_d'[4] = vld_d[3]
      /\ vld_d'[5] = vld_d[4] /\ vld_d'[6] = vld_d[5]
  BY <1>3
<1>5. /\ (vld_d[6] => vld_d[5]) /\ (vld_d[5] => vld_d[4]) /\ (vld_d[4] => vld_d[3])
      /\ (vld_d[3] => vld_d[2]) /\ (vld_d[2] => vld_d[1])
  BY <1>1 DEF Filling
<1>6. handshake(rdy) <=> vld_d[6]
  BY DEF handshake, mac_array2psum_acc_vld, pipe_en, Delay
<1>7. Filling(vld_d')
  BY <1>1, <1>3 DEF Filling
<1>8. /\ Sum6(vld_d') = IF vld_d[6] THEN Sum6(vld_d) ELSE Sum6(vld_d) + 1
      /\ Sum6(vld_d) \in 0..6 /\ (vld_d[6] => Sum6(vld_d) = 6)
  BY <1>3, <1>4, <1>5 DEF Sum6, Bit
<1>9. Delivered' = (IF vld_d[6] THEN Delivered + 1 ELSE Delivered)
  <2>1. vld_d[6] => Delivered # Total - 1
    BY <1>1, <1>2, <1>8
  <2> QED
    BY <1>2, <1>6, <2>1, DeliveredMoves DEF IInv
<1>10. Delivered' + Sum6(vld_d') = Issued + 1
  BY <1>1, <1>2, <1>8, <1>9
<1>11. vld_d[6] => vld_d'[6]
  BY <1>4, <1>5
<1>12. conv_done' => state' = "idle"
  <2>1. state # "array_cool_down" /\ state # "idle"
    BY <1>1 DEF Zones
  <2> QED
    BY <2>1 DEF Clock, ConvDone
<1>13. CASE MapEnd /\ LastPass
  <2>1. state' = "array_cool_down"
    BY <1>13, Goes DEF IInv
  <2>2. vld_d[6]
    BY <1>1, <1>2, <1>8, <1>13
  <2>3. Delivered' + Sum6(vld_d') = Total
    BY <1>2, <1>10, <1>13
  <2>4. Draining(vld_d')
    BY <1>3, <1>5, <2>2 DEF Draining
  <2> QED
    BY <1>11, <1>12, <2>1, <2>2, <2>3, <2>4 DEF Balance, array_en, Zones
<1>14. CASE ~(MapEnd /\ LastPass)
  <2>1. state' \in Zones
    BY <1>14, Goes DEF IInv
  <2>2. Issued' = Issued + 1
    BY <1>14, IssuedMoves DEF IInv
  <2>3. vld_d'[6] \/ Delivered' = 0
    BY <1>1, <1>9, <1>11
  <2> QED
    BY <1>7, <1>10, <1>12, <2>1, <2>2, <2>3 DEF Balance, array_en, Zones
<1> QED
  BY <1>13, <1>14

\* An edge on which the pipeline advances while the array is drained.
LEMMA BalanceDraining ==
  ASSUME IInv, NEW start \in BOOLEAN, NEW rdy \in BOOLEAN, Clock(start, rdy),
         state = "array_cool_down", pipe_en(rdy)
  PROVE  Balance'
<1>1. Draining(vld_d) /\ vld_d[6] /\ Delivered + Sum6(vld_d) = Total
  BY DEF IInv, Balance
<1>2. /\ Delivered \in 0..(Total - 1)
      /\ Delivered = Total - 1 <=> LastOut /\ LastMap
      /\ Total \in Nat /\ Total >= 18
  BY Digits, Bounds DEF IInv
<1>3. ~array_en
  BY DEF array_en, Zones
<1>4. /\ vld_d \in [1..6 -> BOOLEAN] /\ vld_d' \in [1..6 -> BOOLEAN]
      /\ ~vld_d'[1] /\ \A i \in 1..5 : vld_d'[i + 1] <=> vld_d[i]
  BY <1>3, Shifted DEF IInv
<1>5. /\ ~vld_d'[1] /\ vld_d'[2] = vld_d[1] /\ vld_d'[3] = vld_d[2] /\ vld_d'[4] = vld_d[3]
      /\ vld_d'[5] = vld_d[4] /\ vld_d'[6] = vld_d[5]
  BY <1>4
<1>6. /\ (vld_d[1] => vld_d[2]) /\ (vld_d[2] => vld_d[3]) /\ (vld_d[3] => vld_d[4])
      /\ (vld_d[4] => vld_d[5])
  BY <1>1 DEF Draining
<1>7. Sum6(vld_d) = Sum6(vld_d') + 1
  BY <1>1, <1>4, <1>5 DEF Sum6, Bit
<1>8. /\ Sum6(vld_d') = 0 => \A i \in 1..6 : ~vld_d'[i]
      /\ Sum6(vld_d') # 0 => vld_d'[6]
      /\ Sum6(vld_d') \in Nat
  <2>1. /\ Sum6(vld_d') = 0 => ~vld_d'[1] /\ ~vld_d'[2] /\ ~vld_d'[3] /\ ~vld_d'[4]
                               /\ ~vld_d'[5] /\ ~vld_d'[6]
        /\ Sum6(vld_d') # 0 => vld_d'[6]
        /\ Sum6(vld_d') \in Nat
    BY <1>4, <1>5, <1>6 DEF Sum6, Bit
  <2> QED
    BY <2>1
<1>9. Draining(vld_d')
  BY <1>4, <1>5, <1>6 DEF Draining
<1>10. handshake(rdy)
  BY <1>1 DEF handshake, mac_array2psum_acc_vld, pipe_en, Delay
<1>11. conv_done' => state' = "idle"
  BY DEF Clock, ConvDone
<1>12. CASE LastOut /\ LastMap
  <2>1. state' = "idle"
    BY <1>12, Goes DEF IInv, CoolDownOver
  <2>2. Delivered' = 0
    BY <1>10, <1>12, DeliveredMoves DEF IInv
  <2>3. \A i \in 1..6 : ~vld_d'[i]
    BY <1>1, <1>2, <1>7, <1>8, <1>12
  <2> QED
    BY <2>1, <2>2, <2>3 DEF Balance, array_en, Zones
<1>13. CASE ~(LastOut /\ LastMap)
  <2>1. state' = "array_cool_down"
    BY <1>13, Goes DEF IInv, CoolDownOver
  <2>2. Delivered' = Delivered + 1
    BY <1>10, <1>13, DeliveredMoves DEF IInv
  <2>3. Delivered' + Sum6(vld_d') = Total
    BY <1>1, <1>2, <1>7, <1>8, <2>2
  <2>4. vld_d'[6]
    BY <1>1, <1>2, <1>7, <1>8, <1>13
  <2> QED
    BY <1>9, <1>11, <2>1, <2>3, <2>4 DEF Balance, array_en, Zones
<1> QED
  BY <1>12, <1>13

\* Any other edge: the array is empty, or nothing moves.
LEMMA BalanceResting ==
  ASSUME IInv, NEW start \in BOOLEAN, NEW rdy \in BOOLEAN, Clock(start, rdy),
         state \in {"idle", "array_setup"} \/ ~pipe_en(rdy)
  PROVE  Balance'
<1>1. CASE state \in {"idle", "array_setup"}
  <2>1. (\A i \in 1..6 : ~vld_d[i]) /\ Delivered = 0 /\ ~array_en
    BY <1>1 DEF IInv, Balance, array_en, Zones
  <2>2. \A i \in 1..6 : ~vld_d'[i]
    <3>1. CASE ~pipe_en(rdy)
      BY <2>1, <3>1, Shifted DEF IInv
    <3>2. CASE pipe_en(rdy)
      <4>1. ~vld_d'[1] /\ \A i \in 1..5 : ~vld_d'[i + 1]
        BY <2>1, <3>2, Shifted DEF IInv
      <4>2. \A i \in 1..6 : i = 1 \/ (i - 1 \in 1..5 /\ (i - 1) + 1 = i)
        OBVIOUS
      <4> QED
        BY <4>1, <4>2
    <3> QED
      BY <3>1, <3>2
  <2>3. Delivered' = 0
    <3>1. ~handshake(rdy)
      BY <2>1 DEF handshake, mac_array2psum_acc_vld, Delay
    <3> QED
      BY <2>1, <3>1, DeliveredMoves DEF IInv
  <2>4. Issued' = 0
    <3>1. Issued = 0
      <4>1. conv_row_cnt = 0 /\ conv_col_cnt = 0 /\ in_ch_cnt = 0 /\ out_ch_cnt = 0
        BY <1>1 DEF IInv, ZoneMatchesPixel, Zones
      <4>2. ((2 * 0 + 0) * M + 0) * M + 0 = 0
        BY Bounds
      <4> QED
        BY <4>1, <4>2 DEF Issued
    <3> QED
      BY <2>1, <3>1, IssuedMoves DEF IInv
  <2>5. Sum6(vld_d') = 0 /\ Filling(vld_d')
    BY <2>2 DEF Sum6, Bit, Filling
  <2>6. state' \in {"idle", "array_setup", "conv_s0"}
    BY <1>1, Goes DEF IInv
  <2>7. ~conv_done'
    <3>1. state # "array_cool_down"
      BY <1>1
    <3> QED
      BY <3>1 DEF Clock, ConvDone
  <2> QED
    BY <2>2, <2>3, <2>4, <2>5, <2>6, <2>7 DEF Balance, array_en, Zones
<1>2. CASE state \notin {"idle", "array_setup"} /\ ~pipe_en(rdy)
  <2>1. vld_d' = vld_d
    BY <1>2, Shifted DEF IInv
  <2>2. ~handshake(rdy)
    BY <1>2 DEF handshake, pipe_en
  <2>3. Delivered' = Delivered /\ Issued' = Issued
    BY <1>2, <2>2, DeliveredMoves, IssuedMoves DEF IInv
  <2>4. state' = state
    BY <1>2 DEF Clock, NextState
  <2>5. ~conv_done'
    <3>1. ~(state = "array_cool_down" /\ state' = "idle")
      BY <2>4
    <3> QED
      BY <1>2, <3>1 DEF Clock, ConvDone, IInv, Balance
  <2> QED
    BY <1>2, <2>1, <2>3, <2>4, <2>5 DEF IInv, Balance, array_en
<1> QED
  BY <1>1, <1>2

\* The invariant is kept by every clock edge.
LEMMA InvStep == IInv /\ [Next]_vars => IInv'
<1> SUFFICES ASSUME IInv, [Next]_vars PROVE IInv'
  OBVIOUS
<1>1. TypeOK' /\ ZoneMatchesPixel'
  BY TypeStep, ZoneStep DEF IInv
<1>2. Balance'
  <2>1. CASE UNCHANGED vars
    BY <2>1 DEF vars, IInv, Balance, array_en, Issued, Delivered
  <2>2. ASSUME NEW start \in BOOLEAN, NEW rdy \in BOOLEAN, Clock(start, rdy)
        PROVE  Balance'
    <3>1. \/ array_en /\ pipe_en(rdy)
          \/ state = "array_cool_down" /\ pipe_en(rdy)
          \/ state \in {"idle", "array_setup"} \/ ~pipe_en(rdy)
      BY DEF IInv, TypeOK, States, array_en
    <3> QED
      BY <2>2, <3>1, BalanceIssuing, BalanceDraining, BalanceResting
  <2> QED
    BY <2>1, <2>2, StepIsClock
<1> QED
  BY <1>1, <1>2 DEF IInv

\* The inductive invariant of the sequencer and its pipeline of valid bits.
THEOREM TagInvariant == Spec => []IInv
<1>1. Init => IInv
  BY TypeInit, ZoneInit, BalanceInit DEF IInv
<1> QED
  BY <1>1, InvStep, PTL DEF Spec

\* When the balance is right, the tag names the pixel that leaves.
LEMMA BalanceGivesTag ==
  ASSUME IInv
  PROVE  InFlight = Sum6(vld_d) /\ TagNamesPixel /\ DoneMeansDrained
<1>1. InFlight = Sum6(vld_d)
  BY InFlightIsSum DEF IInv, TypeOK, InFlight, Delay
<1>2. Issued \in 0..(Total - 1) /\ Total \in Nat /\ Total >= 18
  BY Digits, Bounds DEF IInv
<1>3. state \notin Zones => Issued = 0
  <2> SUFFICES ASSUME state \notin Zones PROVE Issued = 0
    OBVIOUS
  <2>1. conv_row_cnt = 0 /\ conv_col_cnt = 0 /\ in_ch_cnt = 0 /\ out_ch_cnt = 0
    BY DEF IInv, ZoneMatchesPixel
  <2>2. ((2 * 0 + 0) * M + 0) * M + 0 = 0
    BY Bounds
  <2> QED
    BY <2>1, <2>2 DEF Issued
<1>4. CASE state \in {"idle", "array_setup"}
  <2>1. Delivered = 0 /\ Sum6(vld_d) = 0
    BY <1>4 DEF IInv, Balance, Sum6, Bit
  <2>2. Issued = 0
    BY <1>3, <1>4 DEF Zones
  <2>3. (0 + 0) % Total = 0
    BY <1>2
  <2> QED
    BY <1>1, <2>1, <2>2, <2>3 DEF TagNamesPixel, Total, DoneMeansDrained, IInv, Balance
<1>5. CASE array_en
  <2>1. Issued = Delivered + Sum6(vld_d) /\ ~conv_done
    BY <1>5 DEF IInv, Balance, array_en, Zones
  <2>2. Issued % Total = Issued
    BY <1>2
  <2> QED
    BY <1>1, <2>1, <2>2 DEF TagNamesPixel, Total, DoneMeansDrained
<1>6. CASE state = "array_cool_down"
  <2>1. Delivered + Sum6(vld_d) = Total /\ ~conv_done
    BY <1>6 DEF IInv, Balance
  <2>2. Issued = 0
    BY <1>3, <1>6 DEF Zones
  <2>3. Total % Total = 0
    BY <1>2
  <2> QED
    BY <1>1, <2>1, <2>2, <2>3 DEF TagNamesPixel, Total, DoneMeansDrained
<1> QED
  BY <1>1, <1>4, <1>5, <1>6 DEF IInv, TypeOK, States, array_en

\* The tag that leaves with a pixel is that pixel's: the counters at the two ends of
\* the array differ by exactly the valid bits between them, whatever stalls happened.
THEOREM TagsAlwaysRight == Spec => []TagNamesPixel
BY TagInvariant, BalanceGivesTag, PTL

\* The sequencer reports done only when every pixel of every channel has been
\* handed over and nothing is left in the array.
THEOREM DoneAfterLastPixel == Spec => []DoneMeansDrained
BY TagInvariant, BalanceGivesTag, PTL

\* The half bit is right but for the last Delay pixels of a channel: only there can
\* the pixel that enters belong to a pass later than the one that leaves.
LEMMA BalanceGivesHalf ==
  ASSUME IInv
  PROVE  HalfUntilChannelEnd
<1> SUFFICES ASSUME vld_d[6], omap_ch_cnt % 2 = 1, omap_cnt < Pixels - 6
             PROVE  info.half = (omap_ch_cnt \div 2 >= NOCH - (NOCH \div 2))
  BY DEF HalfUntilChannelEnd, mac_array2psum_acc_vld, Delay
<1>1. /\ NOCH \in Nat /\ NOCH >= 1 /\ Pixels \in Nat /\ Pixels >= 9
      /\ Total \in Nat /\ Total = (2 * NOCH) * Pixels
  BY Bounds
<1>2. /\ omap_cnt \in 0..(Pixels - 1) /\ omap_ch_cnt \in 0..(2 * NOCH - 1)
      /\ out_ch_cnt \in 0..(NOCH - 1) /\ in_ch_cnt \in 0..1
      /\ vld_d \in [1..6 -> BOOLEAN]
  BY DEF IInv, TypeOK, Delay
<1>3. position \in 0..(Pixels - 1) /\ pass \in 0..(2 * NOCH - 1)
      /\ Issued = pass * Pixels + position
  BY Digits DEF IInv
<1>4. Delivered = omap_ch_cnt * Pixels + omap_cnt
  BY DEF Delivered
<1>5. Sum6(vld_d) \in 0..6
  BY <1>2 DEF Sum6, Bit
<1>6. array_en
  <2>1. state # "idle" /\ state # "array_setup"
    BY DEF IInv, Balance
  <2>2. ASSUME state = "array_cool_down" PROVE FALSE
    <3>1. Delivered + Sum6(vld_d) = Total
      BY <2>2 DEF IInv, Balance
    <3>2. omap_ch_cnt + 1 <= 2 * NOCH /\ omap_ch_cnt \in Nat /\ 2 * NOCH \in Nat
      BY <1>1, <1>2
    <3>3. omap_ch_cnt * Pixels + Pixels <= (2 * NOCH) * Pixels /\ omap_ch_cnt * Pixels \in Nat
      <4>1. (2 * NOCH) * Pixels
              = omap_ch_cnt * Pixels + Pixels + (2 * NOCH - omap_ch_cnt - 1) * Pixels
        BY <1>1, <3>2, SMT
      <4>2. (2 * NOCH - omap_ch_cnt - 1) * Pixels \in Nat /\ omap_ch_cnt * Pixels \in Nat
        <5>1. 2 * NOCH - omap_ch_cnt - 1 \in Nat
          BY <3>2
        <5> QED
          BY <1>1, <3>2, <5>1, SMT
      <4> QED
        BY <1>1, <4>1, <4>2
    <3> QED
      BY <1>1, <1>2, <1>4, <1>5, <3>1, <3>3
  <2> QED
    BY <2>1, <2>2 DEF IInv, TypeOK, States, array_en
<1>7. Issued = Delivered + 6
  <2>1. Filling(vld_d) /\ Issued = Delivered + Sum6(vld_d)
    BY <1>6 DEF IInv, Balance
  <2>2. vld_d[5] /\ vld_d[4] /\ vld_d[3] /\ vld_d[2] /\ vld_d[1]
    <3>1. /\ (vld_d[6] => vld_d[5]) /\ (vld_d[5] => vld_d[4]) /\ (vld_d[4] => vld_d[3])
          /\ (vld_d[3] => vld_d[2]) /\ (vld_d[2] => vld_d[1])
      BY <2>1 DEF Filling
    <3> QED
      BY <3>1
  <2> QED
    BY <2>1, <2>2 DEF Sum6, Bit
<1>8. pass = omap_ch_cnt
  <2>1. omap_cnt + 6 \in 0..(Pixels - 1) /\ Pixels >= 1 /\ pass \in Nat /\ omap_ch_cnt \in Nat
    BY <1>1, <1>2, <1>3
  <2>2. omap_ch_cnt * Pixels \in Nat
    BY <1>1, <2>1, SMT
  <2>3. pass * Pixels + position = omap_ch_cnt * Pixels + (omap_cnt + 6)
    BY <1>1, <1>2, <1>3, <1>4, <1>7, <2>2
  <2> DEFINE leaving == omap_cnt + 6
  <2>4. /\ Pixels \in Nat /\ Pixels >= 1 /\ pass \in Nat /\ omap_ch_cnt \in Nat
        /\ position \in 0..(Pixels - 1) /\ leaving \in 0..(Pixels - 1)
        /\ pass * Pixels + position = omap_ch_cnt * Pixels + leaving
    BY <1>1, <1>3, <2>1, <2>3
  <2> HIDE DEF leaving
  <2> QED
    BY <2>4, DigitsUnique
<1>9. out_ch_cnt = omap_ch_cnt \div 2
  BY <1>1, <1>2, <1>8 DEF pass
<1>10. 2 * out_ch_cnt >= NOCH <=> out_ch_cnt >= NOCH - (NOCH \div 2)
  BY <1>1, <1>2
<1>11. info.half <=> 2 * out_ch_cnt >= NOCH
  BY DEF info, Half
<1>12. info.half = (2 * out_ch_cnt >= NOCH)
  BY DEF info, Half
<1> QED
  BY <1>9, <1>10, <1>12

\* The upper-half bit of a tag is right but for the last Delay pixels of a channel
\* (mac_array_fsm.v:368), for every map, number of channels and schedule.
THEOREM HalfRightUntilChannelEnd == Spec => []HalfUntilChannelEnd
BY TagInvariant, BalanceGivesHalf, PTL

(***************************************************************************)
(* The read pointer.                                                        *)
(***************************************************************************)
\* The distance of the read pointer from the pixel that enters, round the map.
LEMMA LeadValue ==
  ASSUME NEW P \in Nat, P >= 1, NEW c \in 0..(P - 1), NEW p \in 0..(P - 1)
  PROVE  (c + P - p) % P = IF c >= p THEN c - p ELSE c + P - p
<1>1. CASE c >= p
  <2>1. c - p \in 0..(P - 1) /\ c + P - p = (c - p) + P
    BY <1>1
  <2>2. \A d \in 0..(P - 1) : (d + P) % P = d
    BY SMT
  <2> QED
    BY <1>1, <2>1, <2>2
<1>2. CASE c < p
  <2>1. c + P - p \in 0..(P - 1)
    BY <1>2
  <2>2. \A d \in 0..(P - 1) : d % P = d
    BY SMT
  <2> QED
    BY <1>2, <2>1, <2>2
<1> QED
  BY <1>1, <1>2

\* An edge on which the array moves moves both pointers.
LEMMA LeadKept ==
  ASSUME TypeOK, NEW start \in BOOLEAN, NEW rdy \in BOOLEAN, Clock(start, rdy), array_en
  PROVE  Lead' = Lead
<1>1. Pixels \in Nat /\ Pixels >= 9
  BY Bounds
<1>2. /\ position \in 0..(Pixels - 1) /\ imap_cnt \in 0..(Pixels - 1)
      /\ MapEnd <=> position = Pixels - 1
  BY Digits DEF TypeOK
<1>3. Lead = (imap_cnt + Pixels - position) % Pixels
  BY DEF Lead, imap_raddr, position
<1>4. Lead' = (imap_cnt' + Pixels - position') % Pixels
  BY DEF Lead, imap_raddr, position
<1>5. imap_ren(rdy) <=> pipe_en(rdy)
  BY DEF imap_ren, array_en, Zones
<1>6. CASE ~pipe_en(rdy)
  <2>1. imap_cnt' = imap_cnt
    BY <1>5, <1>6 DEF Clock, ImapCnt
  <2>2. position' = position
    BY <1>6 DEF Clock, ConvCounters, position
  <2> QED
    BY <1>3, <1>4, <2>1, <2>2
<1>7. CASE pipe_en(rdy)
  <2>1. imap_cnt' = IF imap_cnt = Pixels - 1 THEN 0 ELSE imap_cnt + 1
    BY <1>5, <1>7 DEF Clock, ImapCnt, Wrap
  <2>2. position' = IF position = Pixels - 1 THEN 0 ELSE position + 1
    BY <1>2, <1>7, PositionMoves
  <2>3. imap_cnt' \in 0..(Pixels - 1) /\ position' \in 0..(Pixels - 1)
    BY <1>1, <1>2, <2>1, <2>2
  <2>4. Lead = IF imap_cnt >= position THEN imap_cnt - position ELSE imap_cnt + Pixels - position
    BY <1>1, <1>2, <1>3, LeadValue
  <2>5. Lead' = IF imap_cnt' >= position' THEN imap_cnt' - position'
                                          ELSE imap_cnt' + Pixels - position'
    BY <1>1, <1>4, <2>3, LeadValue
  <2> QED
    BY <1>1, <1>2, <2>1, <2>2, <2>4, <2>5
<1> QED
  BY <1>6, <1>7

\* The read pointer into the map buffer and the pixel that enters keep their distance
\* through every stall, every change of zone and every change of pass.
THEOREM ReadPointerInStep == Spec => ReadsInStep
<1>1. TypeOK /\ [Next]_vars => [array_en /\ array_en' => Lead' = Lead]_vars
  BY LeadKept, StepIsClock
<1> QED
  BY <1>1, TypeCorrect, PTL DEF Spec, ReadsInStep
==========================================================================
