------------------------ MODULE MacArrayCoreProofs ------------------------
(* Theorems about the data side of the MAC array, for every map side and number
   of output channels.                                                        *)
EXTENDS MacArrayCore, TLAPS

\* The sequencer with its theorems.
F == INSTANCE MacArrayFsmProofs

(***************************************************************************)
(* What every register holds, by the number of pixels read so far.           *)
(***************************************************************************)
Issued    == F!Issued
Delivered == F!Delivered
Total     == F!Total

Lead  == M + 3            \* pixels read before the first one enters
Late  == IF pipe_en_d THEN 1 ELSE 0
Reads == IF state = "array_setup" THEN setup_cnt ELSE Issued + Lead
Reading == state = "array_setup" \/ F!array_en

\* The n-th pixel a job reads that begins at address f: the group bit is that of the
\* pass which was entering.
Read(f, n) == [group  |-> IF n < Lead THEN 0 ELSE ((n - Lead) \div Pixels) % 2,
               offset |-> (f + n) % Pixels]

\* The line buffers hold the last pixels the job read, the newest first; behind them
\* are what the job before left.
Lines ==
  /\ imap_pipe = [k \in Cells |-> imap_pipe[k]]
  /\ Reading =>
       /\ imap_cnt = (first + Reads) % Pixels
       /\ pipe_en_d => Reads >= 1 /\ imap_rdata = Read(first, Reads - 1)
       /\ \A k \in Cells : k <= Reads - Late => imap_pipe[k] = Read(first, Reads - Late - k)

\* The pass and the pixel of the n-th pixel that enters, its neighbours, and the
\* products made of them.
PassOf(n)  == n \div Pixels
PixelOf(n) == n % Pixels
Around(p)  == {m \in 0..8 : /\ (p \div M) + ((8 - m) \div 3) \in 1..M
                            /\ (p % M) + ((8 - m) % 3) \in 1..M}
Product(f, n) == [win    |-> [m \in Around(PixelOf(n)) |-> Read(f, n + Centre - Tap(m))],
                  one    |-> Read(f, n),
                  weight |-> <<(PassOf(n) \div 2) % 2, PassOf(n) % 2>>]

\* The sums and the identity byte beside valid bit i, and the number of their pixel.
Sum(i)      == IF i = 1 THEN product ELSE psum[i - 1]
Identity(i) == IF i <= 3 THEN identity_d[i + 1] ELSE identity_q[i - 3].pixel
Number(i)   == IF F!array_en THEN Issued - i ELSE Delivered + 6 - i

\* While nothing of the job was refused, the delayed enable is that of the last clock, and what
\* travels beside a valid bit belongs to the pixel that bit stands for.
Values ==
  ~refused =>
    /\ state = "array_setup" => (pipe_en_d <=> setup_cnt > 0)
    /\ F!array_en => pipe_en_d /\ identity_d[1] = Read(first, Issued)
    /\ state = "array_cool_down" => pipe_en_d
    /\ \A i \in 1..6 : vld_d[i] => /\ Sum(i) = Product(first, Number(i))
                                  /\ Identity(i) = Read(first, Number(i))
    /\ \A i \in 4..6 : vld_d[i] /\ Number(i) + 3 < Total =>
         identity_q[i - 3].array = (PassOf(Number(i) + 3) \div 2) % (NOCH \div 2)

Widths == psum = [j \in 1..5 |-> psum[j]] /\ identity_d = [j \in 1..4 |-> identity_d[j]]
            /\ identity_q = [j \in 1..3 |-> identity_q[j]]

IInv == /\ F!IInv /\ Lines /\ Widths /\ Values
        /\ refused \in BOOLEAN /\ pipe_en_d \in BOOLEAN /\ first \in 0..(Pixels - 1)

(***************************************************************************)
(* The sequencer inside the array is the sequencer of the theorems.          *)
(***************************************************************************)
\* Its definitions, those over the same registers, agree one by one.
LEMMA Sequencer ==
  /\ Pixels = F!Pixels /\ (Fsm!array_en <=> F!array_en)
  /\ Fsm!Init => F!Init
  /\ fsmVars = F!vars
  /\ Fsm!pe_en = F!pe_en
  /\ \A rdy : /\ Fsm!pipe_en(rdy) = F!pipe_en(rdy)
              /\ Fsm!imap_ren(rdy) = F!imap_ren(rdy)
  /\ \A stall : Fsm!PsumReady(stall) = F!PsumReady(stall)
  /\ Fsm!imap_raddr = [group |-> in_ch_cnt, offset |-> imap_cnt]
  /\ Fsm!weight_sel = <<out_ch_cnt % 2, in_ch_cnt>>
  /\ Fsm!mac_array2psum_acc_vld <=> vld_d[6]
<1>1. Pixels = F!Pixels
  BY DEF Pixels, Fsm!Pixels, F!Pixels
<1>2. Fsm!array_en <=> F!array_en
  BY DEF Fsm!array_en, F!array_en, Fsm!Zones, F!Zones
<1>3. Fsm!Init => F!Init
  BY DEF Fsm!Init, F!Init, Fsm!Delay, F!Delay
<1>4. fsmVars = F!vars
  BY DEF fsmVars, F!vars
<1>5. Fsm!pe_en = F!pe_en
  BY DEF Fsm!pe_en, F!pe_en
<1>6. \A rdy : /\ Fsm!pipe_en(rdy) = F!pipe_en(rdy)
               /\ Fsm!imap_ren(rdy) = F!imap_ren(rdy)
  BY DEF Fsm!pipe_en, F!pipe_en, Fsm!imap_ren, F!imap_ren
<1>7. \A stall : Fsm!PsumReady(stall) = F!PsumReady(stall)
  BY DEF Fsm!PsumReady, F!PsumReady
<1>8. /\ Fsm!imap_raddr = [group |-> in_ch_cnt, offset |-> imap_cnt]
      /\ Fsm!weight_sel = <<out_ch_cnt % 2, in_ch_cnt>>
      /\ Fsm!mac_array2psum_acc_vld <=> vld_d[6]
  BY DEF Fsm!imap_raddr, Fsm!weight_sel, Fsm!mac_array2psum_acc_vld, Fsm!Delay
<1> QED
  BY <1>1, <1>2, <1>3, <1>4, <1>5, <1>6, <1>7, <1>8

\* One clock edge of it is one clock edge of the other.
LEMMA SameClock ==
  ASSUME NEW start, NEW rdy
  PROVE  Fsm!Clock(start, rdy) <=> F!Clock(start, rdy)
<1>1. \A en : Fsm!NextState(start, en) = F!NextState(start, en)
  BY DEF Fsm!NextState, F!NextState, Fsm!RowEnd, F!RowEnd, Fsm!InnerRow, F!InnerRow,
         Fsm!InnerRowEnd, F!InnerRowEnd, Fsm!MapEnd, F!MapEnd, Fsm!LastPass, F!LastPass,
         Fsm!CoolDownOver, F!CoolDownOver, Fsm!LastOut, F!LastOut, Fsm!LastMap, F!LastMap,
         Fsm!Pixels, F!Pixels
<1>2. \A en : Fsm!SetupCnt(en) <=> F!SetupCnt(en)
  BY DEF Fsm!SetupCnt, F!SetupCnt, Fsm!Wrap, F!Wrap
<1>3. \A en : Fsm!ConvCounters(en) <=> F!ConvCounters(en)
  BY DEF Fsm!ConvCounters, F!ConvCounters, Fsm!Wrap, F!Wrap, Fsm!RowEnd, F!RowEnd,
         Fsm!MapEnd, F!MapEnd, Fsm!array_en, F!array_en, Fsm!Zones, F!Zones
<1>4. \A ren : Fsm!ImapCnt(ren) <=> F!ImapCnt(ren)
  BY DEF Fsm!ImapCnt, F!ImapCnt, Fsm!Wrap, F!Wrap, Fsm!Pixels, F!Pixels
<1>5. Fsm!OmapCounters(rdy) <=> F!OmapCounters(rdy)
  BY DEF Fsm!OmapCounters, F!OmapCounters, Fsm!Wrap, F!Wrap, Fsm!Pixels, F!Pixels,
         Fsm!handshake, F!handshake, Fsm!mac_array2psum_acc_vld, F!mac_array2psum_acc_vld,
         Fsm!Delay, F!Delay, Fsm!LastOut, F!LastOut
<1>6. \A next : Fsm!ConvDone(next) <=> F!ConvDone(next)
  BY DEF Fsm!ConvDone, F!ConvDone
<1>7. \A en : Fsm!VldDelay(en) <=> F!VldDelay(en)
  BY DEF Fsm!VldDelay, F!VldDelay, Fsm!Delay, F!Delay, Fsm!array_en, F!array_en,
         Fsm!Zones, F!Zones
<1>8. (Fsm!pipe_en(rdy) = F!pipe_en(rdy)) /\ (Fsm!imap_ren(rdy) = F!imap_ren(rdy))
  BY Sequencer
<1> QED
  BY <1>1, <1>2, <1>3, <1>4, <1>5, <1>6, <1>7, <1>8 DEF Fsm!Clock, F!Clock

(***************************************************************************)
(* Numbers of pixels.                                                       *)
(***************************************************************************)
\* The theorems about the sequencer assume what is assumed here.
LEMMA Assumptions == F!MapAssumption /\ F!ChannelAssumption
BY CoreAssumption DEF F!MapAssumption, F!ChannelAssumption

\* The sizes.
LEMMA Sizes ==
  /\ M \in Nat /\ M >= 3 /\ NOCH \in Nat /\ NOCH >= 2
  /\ Pixels \in Nat /\ Pixels >= 9 /\ Pixels = M * M
  /\ Lead \in Nat /\ Lead >= 6 /\ Lead < Pixels
  /\ Total \in Nat /\ Total = (2 * NOCH) * Pixels /\ Total >= 2 * Pixels
<1>1. M \in Nat /\ M >= 3 /\ NOCH \in Nat /\ NOCH >= 2
  BY CoreAssumption
<1>2. Pixels = M * M /\ Pixels = F!Pixels
  BY Sequencer DEF F!Pixels
<1>3. F!Pixels \in Nat /\ F!Pixels >= 9 /\ F!Total \in Nat /\ F!Total = (2 * NOCH) * F!Pixels
      /\ F!Total >= 2 * F!Pixels
  BY F!Bounds, Assumptions
<1>4. M + 3 < M * M
  <2>1. M * M >= 3 * M
    BY <1>1, SMT
  <2> QED
    BY <1>1, <2>1
<1> QED
  BY <1>1, <1>2, <1>3, <1>4 DEF Lead, Total

\* The counters are the digits of the numbers of the pixel that enters and of the
\* one that leaves.
LEMMA Counters ==
  ASSUME F!IInv
  PROVE  /\ F!position \in 0..(Pixels - 1)
         /\ Issued \in 0..(Total - 1) /\ Delivered \in 0..(Total - 1)
         /\ Issued = Pixels * F!pass + F!position /\ F!pass \in Nat
         /\ PixelOf(Issued) = F!position /\ PassOf(Issued) = F!pass
         /\ F!pass \div 2 = out_ch_cnt /\ F!pass % 2 = in_ch_cnt
         /\ F!position \div M = conv_row_cnt /\ F!position % M = conv_col_cnt
         /\ PixelOf(Delivered) = omap_cnt /\ PassOf(Delivered) = omap_ch_cnt
         /\ in_ch_cnt \in 0..1 /\ out_ch_cnt \in 0..(NOCH - 1)
         /\ omap_cnt \in 0..(Pixels - 1) /\ omap_ch_cnt \in 0..(2 * NOCH - 1)
         /\ conv_row_cnt \in 0..(M - 1) /\ conv_col_cnt \in 0..(M - 1)
         /\ imap_cnt \in 0..(Pixels - 1) /\ setup_cnt \in 0..(M + 2)
<1>1. Pixels = F!Pixels
  BY Sequencer
<1>2. F!TypeOK
  BY DEF F!IInv
<1>3. /\ in_ch_cnt \in 0..1 /\ out_ch_cnt \in 0..(NOCH - 1)
      /\ omap_cnt \in 0..(Pixels - 1) /\ omap_ch_cnt \in 0..(2 * NOCH - 1)
      /\ conv_row_cnt \in 0..(M - 1) /\ conv_col_cnt \in 0..(M - 1)
      /\ imap_cnt \in 0..(Pixels - 1) /\ setup_cnt \in 0..(M + 2)
  BY <1>1, <1>2 DEF F!TypeOK
<1>4. /\ F!position \in 0..(Pixels - 1) /\ F!pass \in 0..(2 * NOCH - 1)
      /\ F!Issued = F!pass * Pixels + F!position
      /\ F!Issued \in 0..(F!Total - 1) /\ F!Delivered \in 0..(F!Total - 1)
  BY <1>1, <1>2, F!Digits, Assumptions
<1>5. F!pass \in Nat /\ Issued = Pixels * F!pass + F!position
  <2>1. F!pass \in Nat
    BY <1>4, Sizes
  <2>2. F!pass * Pixels = Pixels * F!pass
    BY <2>1, Sizes, SMT
  <2> QED
    BY <1>4, <2>1, <2>2 DEF Issued
<1>6. PixelOf(Issued) = F!position /\ PassOf(Issued) = F!pass
  <2>1. F!pass \in Int /\ Pixels \in Nat /\ Pixels >= 1
    BY <1>5, Sizes
  <2> QED
    BY <1>4, <1>5, <2>1, F!Quotient DEF PixelOf, PassOf
<1>7. F!pass \div 2 = out_ch_cnt /\ F!pass % 2 = in_ch_cnt
  <2>1. F!pass = 2 * out_ch_cnt + in_ch_cnt /\ in_ch_cnt \in 0..(2 - 1) /\ out_ch_cnt \in Int
    BY <1>3, Sizes DEF F!pass
  <2> QED
    BY <2>1, F!Quotient
<1>8. F!position \div M = conv_row_cnt /\ F!position % M = conv_col_cnt
  <2>1. F!position = M * conv_row_cnt + conv_col_cnt /\ conv_row_cnt \in Int
    <3>1. conv_row_cnt * M = M * conv_row_cnt
      BY <1>3, Sizes, SMT
    <3> QED
      BY <1>3, <3>1, Sizes DEF F!position
  <2>2. M \in Nat /\ M >= 1
    BY Sizes
  <2> QED
    BY <1>3, <2>1, <2>2, F!Quotient
<1>9. PixelOf(Delivered) = omap_cnt /\ PassOf(Delivered) = omap_ch_cnt
  <2>1. Delivered = Pixels * omap_ch_cnt + omap_cnt /\ omap_ch_cnt \in Int
    <3>1. omap_ch_cnt * Pixels = Pixels * omap_ch_cnt
      BY <1>3, Sizes, SMT
    <3> QED
      BY <1>1, <1>3, <3>1, Sizes DEF Delivered, F!Delivered
  <2>2. Pixels \in Nat /\ Pixels >= 1
    BY Sizes
  <2> QED
    BY <1>3, <2>1, <2>2, F!Quotient DEF PixelOf, PassOf
<1> QED
  BY <1>3, <1>4, <1>5, <1>6, <1>7, <1>8, <1>9 DEF Issued, Delivered, Total

(***************************************************************************)
(* The line buffers.                                                        *)
(***************************************************************************)
\* One clock edge of the sequencer, as the data side sees it.
LEMMA ReadsMove ==
  ASSUME F!IInv, NEW start \in BOOLEAN, NEW rdy \in BOOLEAN, F!Clock(start, rdy)
  PROVE  /\ Reading => Reads \in Nat /\ Reads <= Total - 1 + Lead
         /\ Reading /\ Reading' => Reads' = IF rdy THEN Reads + 1 ELSE Reads
         /\ Reading /\ ~Reading' => /\ state' = "array_cool_down" /\ rdy
                                    /\ Reads = Total - 1 + Lead
         /\ ~Reading /\ Reading' => /\ state = "idle" /\ state' = "array_setup" /\ start
                                    /\ Reads' = 0
         /\ ~Reading => imap_cnt' = imap_cnt
         /\ Reading => imap_cnt' = IF rdy THEN (IF imap_cnt = Pixels - 1 THEN 0 ELSE imap_cnt + 1)
                                          ELSE imap_cnt
<1>1. /\ Issued \in 0..(Total - 1) /\ setup_cnt \in 0..(M + 2) /\ M \in Nat
      /\ Lead = M + 3 /\ Total \in Nat /\ Total >= 18 /\ Pixels = F!Pixels
  BY Counters, Sizes, Sequencer DEF Lead
<1>2. F!TypeOK /\ F!ZoneMatchesPixel /\ state \in F!States
  BY DEF F!IInv, F!TypeOK
<1>3. /\ state = "idle" => state' \in {"idle", "array_setup"}
      /\ state = "array_setup" => state' \in {"array_setup", "conv_s0"}
      /\ F!array_en => state' \in F!Zones \cup {"array_cool_down"}
      /\ F!array_en => (state' = "array_cool_down" <=> F!pipe_en(rdy) /\ F!MapEnd /\ F!LastPass)
      /\ state = "array_cool_down" =>
           state' = IF F!CoolDownOver /\ F!pipe_en(rdy) THEN "idle" ELSE state
  BY <1>2, F!Goes, Assumptions
<1>4. /\ F!Issued' = IF F!array_en /\ F!pipe_en(rdy)
                     THEN (IF F!MapEnd /\ F!LastPass THEN 0 ELSE F!Issued + 1) ELSE F!Issued
      /\ F!Issued = F!Total - 1 <=> F!MapEnd /\ F!LastPass
  BY <1>2, F!IssuedMoves, F!Digits, Assumptions
<1>5. Reading => F!pipe_en(rdy) = rdy
  BY DEF Reading, F!pipe_en, F!array_en, F!Zones
<1>6. /\ state = "array_setup" => ~F!array_en /\ Reads = setup_cnt
      /\ state = "idle" \/ state = "array_cool_down" => ~F!array_en /\ ~Reading
      /\ F!array_en => Reading /\ Reads = Issued + Lead /\ state # "array_setup"
  BY DEF F!array_en, F!Zones, Reads, Reading
<1>7. state = "idle" \/ state = "array_setup" \/ state = "array_cool_down" \/ F!array_en
  BY <1>2 DEF F!States, F!array_en
<1>8. /\ state' = "array_setup" => ~F!array_en' /\ Reads' = setup_cnt' /\ Reading'
      /\ state' = "idle" \/ state' = "array_cool_down" => ~F!array_en' /\ ~Reading'
      /\ state' \in F!Zones => F!array_en' /\ Reading' /\ Reads' = Issued' + Lead
  BY DEF F!array_en, F!Zones, Reads, Reading, Lead
<1>9. F!array_en' <=> state' \in F!Zones
  BY DEF F!array_en
<1>10. CASE state = "array_setup"
  <2>1. state' = IF setup_cnt = M + 2 /\ rdy THEN "conv_s0" ELSE "array_setup"
    BY <1>5, <1>6, <1>10 DEF F!Clock, F!NextState, Reading
  <2>2. setup_cnt' = IF rdy THEN (IF setup_cnt = M + 2 THEN 0 ELSE setup_cnt + 1) ELSE setup_cnt
    BY <1>5, <1>10 DEF F!Clock, F!SetupCnt, F!Wrap, Reading
  <2>3. Issued = 0 /\ Issued' = Issued
    <3>1. F!Issued = 0
      <4>1. state \notin F!Zones
        BY <1>10 DEF F!Zones
      <4>2. conv_row_cnt = 0 /\ conv_col_cnt = 0 /\ in_ch_cnt = 0 /\ out_ch_cnt = 0
        BY <1>2, <4>1 DEF F!ZoneMatchesPixel
      <4>3. 0 * M = 0
        BY <1>1, SMT
      <4> QED
        BY <1>1, <4>2, <4>3 DEF F!Issued
    <3> QED
      BY <1>4, <1>6, <1>10, <3>1 DEF Issued
  <2>4. imap_cnt' = IF rdy THEN (IF imap_cnt = Pixels - 1 THEN 0 ELSE imap_cnt + 1) ELSE imap_cnt
    <3>1. F!imap_ren(rdy) = rdy
      BY <1>10 DEF F!imap_ren, F!pipe_en
    <3> QED
      BY <1>1, <3>1 DEF F!Clock, F!ImapCnt, F!Wrap
  <2>5. Reading /\ Reads = setup_cnt
    BY <1>10 DEF Reading, Reads
  <2>6. CASE setup_cnt = M + 2 /\ rdy
    <3>1. state' = "conv_s0" /\ "conv_s0" \in F!Zones
      BY <2>1, <2>6 DEF F!Zones
    <3>2. Reading' /\ Reads' = Lead
      BY <1>1, <1>8, <2>3, <3>1
    <3> QED
      BY <1>1, <2>4, <2>5, <2>6, <3>2
  <2>7. CASE ~(setup_cnt = M + 2 /\ rdy)
    <3>1. state' = "array_setup" /\ Reading' /\ Reads' = setup_cnt'
      BY <1>8, <2>1, <2>7
    <3> QED
      BY <1>1, <2>2, <2>4, <2>5, <2>7, <3>1
  <2> QED
    BY <2>6, <2>7
<1>11. CASE F!array_en
  <2>1. Reading /\ Reads = Issued + Lead
    BY <1>6, <1>11
  <2>2. imap_cnt' = IF rdy THEN (IF imap_cnt = Pixels - 1 THEN 0 ELSE imap_cnt + 1) ELSE imap_cnt
    <3>1. F!imap_ren(rdy) = rdy
      BY <1>11 DEF F!imap_ren, F!pipe_en, F!array_en, F!Zones
    <3> QED
      BY <1>1, <3>1 DEF F!Clock, F!ImapCnt, F!Wrap
  <2>3. CASE state' = "array_cool_down"
    <3>1. ~Reading' /\ rdy /\ Issued = Total - 1
      BY <1>3, <1>4, <1>5, <1>8, <1>11, <2>1, <2>3 DEF Issued, Total
    <3> QED
      BY <1>1, <2>1, <2>2, <2>3, <3>1
  <2>4. CASE state' # "array_cool_down"
    <3>1. Reading' /\ Reads' = Issued' + Lead
      BY <1>3, <1>8, <1>11, <2>4
    <3>2. Issued' = IF rdy THEN Issued + 1 ELSE Issued
      BY <1>3, <1>4, <1>5, <1>11, <2>1, <2>4 DEF Issued
    <3> QED
      BY <1>1, <2>1, <2>2, <3>1, <3>2
  <2> QED
    BY <2>3, <2>4
<1>12. CASE state = "idle" \/ state = "array_cool_down"
  <2>1. ~Reading /\ imap_cnt' = imap_cnt
    <3>1. ~F!imap_ren(rdy)
      BY <1>12 DEF F!imap_ren
    <3> QED
      BY <1>6, <1>12, <3>1 DEF F!Clock, F!ImapCnt
  <2>2. ASSUME Reading' PROVE state = "idle" /\ state' = "array_setup"
    BY <1>3, <1>8, <1>12, <2>2
  <2>3. ASSUME state = "idle", state' = "array_setup" PROVE start /\ Reads' = 0
    <3>1. start
      BY <2>3 DEF F!Clock, F!NextState
    <3>2. setup_cnt' = setup_cnt /\ setup_cnt = 0
      BY <1>2, <2>3 DEF F!Clock, F!SetupCnt, F!ZoneMatchesPixel
    <3> QED
      BY <1>8, <2>3, <3>1, <3>2
  <2> QED
    BY <2>1, <2>2, <2>3
<1> QED
  BY <1>7, <1>10, <1>11, <1>12

\* Once the clock's shift is done the line buffers hold all that was read before it.
LEMMA AfterShift ==
  ASSUME F!IInv, Lines, pipe_en_d \in BOOLEAN, Reading, Shift(pipe_en_d), Reads \in Nat
  PROVE  \A k \in Cells : k <= Reads => imap_pipe'[k] = Read(first, Reads - k)
<1>1. M \in Nat /\ Cells \subseteq Nat /\ \A k \in Cells : k >= 1 /\ (k # 1 => k - 1 \in Cells)
  BY Sizes DEF Cells
<1>2. /\ pipe_en_d => Reads >= 1 /\ imap_rdata = Read(first, Reads - 1)
      /\ \A k \in Cells : k <= Reads - Late => imap_pipe[k] = Read(first, Reads - Late - k)
      /\ DOMAIN imap_pipe = Cells
  BY DEF Lines
<1> SUFFICES ASSUME NEW k \in Cells, k <= Reads PROVE imap_pipe'[k] = Read(first, Reads - k)
  OBVIOUS
<1>3. CASE pipe_en_d
  <2>1. imap_pipe'[k] = IF k = 1 THEN imap_rdata ELSE imap_pipe[k - 1]
    BY <1>2, <1>3 DEF Shift, Shifted
  <2>2. Late = 1
    BY <1>3 DEF Late
  <2>3. CASE k = 1
    BY <1>2, <1>3, <2>1, <2>3
  <2>4. CASE k # 1
    <3>1. k - 1 \in Cells /\ k \in Nat
      BY <1>1, <2>4
    <3>2. Reads - 1 - (k - 1) = Reads - k /\ k - 1 <= Reads - 1
      BY <3>1
    <3>3. imap_pipe[k - 1] = Read(first, Reads - 1 - (k - 1))
      BY <1>2, <2>2, <3>1, <3>2
    <3> QED
      BY <2>1, <2>4, <3>2, <3>3
  <2> QED
    BY <2>3, <2>4
<1>4. CASE ~pipe_en_d
  <2>1. imap_pipe' = imap_pipe /\ Late = 0
    BY <1>4 DEF Shift, Late
  <2>2. Reads - 0 = Reads
    OBVIOUS
  <2>3. imap_pipe[k] = Read(first, Reads - 0 - k)
    BY <1>2, <2>1, <2>2
  <2> QED
    BY <2>1, <2>2, <2>3
<1> QED
  BY <1>3, <1>4

\* The pixel asked for is the next one, with the group bit of the pass that enters.
LEMMA Asked ==
  ASSUME F!IInv, Lines, Reading
  PROVE  [group |-> in_ch_cnt, offset |-> imap_cnt] = Read(first, Reads)
<1>1. imap_cnt = (first + Reads) % Pixels
  BY DEF Lines
<1>2. in_ch_cnt = IF Reads < Lead THEN 0 ELSE ((Reads - Lead) \div Pixels) % 2
  <2>1. CASE state = "array_setup"
    <3>1. Reads \in 0..(M + 2) /\ Lead = M + 3 /\ M \in Nat
      BY <2>1, Counters, Sizes DEF Reads, Lead
    <3>2. in_ch_cnt = 0
      BY <2>1 DEF F!IInv, F!ZoneMatchesPixel, F!Zones
    <3> QED
      BY <3>1, <3>2
  <2>2. CASE state # "array_setup"
    <3>1. Reads = Issued + Lead /\ Issued \in 0..(Total - 1) /\ Lead \in Nat /\ Total \in Nat
      BY <2>2, Counters, Sizes DEF Reads
    <3>2. ~(Reads < Lead) /\ Reads - Lead = Issued
      BY <3>1
    <3>3. (Issued \div Pixels) % 2 = in_ch_cnt
      BY Counters DEF PassOf
    <3> QED
      BY <3>2, <3>3
  <2> QED
    BY <2>1, <2>2
<1> QED
  BY <1>1, <1>2 DEF Read

\* One clock edge keeps the line buffers, the read pointer and the counters together,
\* whatever is refused: the delayed enable knows of the refusal when the buffers shift.
LEMMA LinesStep ==
  ASSUME IInv, NEW start \in BOOLEAN, NEW rdy \in BOOLEAN, Clock(start, rdy)
  PROVE  Lines'
<1>1. /\ F!IInv /\ Lines /\ pipe_en_d \in BOOLEAN /\ state \in F!States
      /\ first \in 0..(Pixels - 1)
  BY DEF IInv, F!IInv, F!TypeOK
<1>2. /\ F!Clock(start, rdy) /\ Core(rdy)
      /\ first' = IF state = "idle" THEN imap_cnt ELSE first
  BY SameClock DEF Clock
<1>3. /\ pipe_en_d' = (state # "idle" /\ rdy)
      /\ Shift(pipe_en_d)
      /\ imap_rdata' = IF Reading /\ rdy THEN [group |-> in_ch_cnt, offset |-> imap_cnt] ELSE Zero
  <2>1. F!imap_ren(rdy) = (Reading /\ rdy)
    BY <1>1 DEF F!imap_ren, F!pipe_en, Reading, F!array_en, F!States, F!Zones
  <2>2. Fsm!pipe_en(rdy) = F!pipe_en(rdy) /\ Fsm!imap_ren(rdy) = F!imap_ren(rdy)
        /\ Fsm!imap_raddr = [group |-> in_ch_cnt, offset |-> imap_cnt]
    BY Sequencer
  <2> QED
    BY <1>2, <2>1, <2>2 DEF Core, F!pipe_en
<1>4. imap_pipe' = [k \in Cells |-> imap_pipe'[k]]
  BY <1>1, <1>3 DEF Lines, Shift, Shifted
<1>5. /\ Reading => Reads \in Nat /\ Reads <= Total - 1 + Lead
      /\ Reading /\ Reading' => Reads' = IF rdy THEN Reads + 1 ELSE Reads
      /\ Reading /\ ~Reading' => /\ state' = "array_cool_down" /\ rdy
                                 /\ Reads = Total - 1 + Lead
      /\ ~Reading /\ Reading' => /\ state = "idle" /\ state' = "array_setup" /\ start
                                 /\ Reads' = 0
      /\ ~Reading => imap_cnt' = imap_cnt
      /\ Reading => imap_cnt' = IF rdy THEN (IF imap_cnt = Pixels - 1 THEN 0 ELSE imap_cnt + 1)
                                       ELSE imap_cnt
  BY <1>1, <1>2, ReadsMove
<1>6. Pixels \in Nat /\ Pixels >= 9 /\ imap_cnt \in 0..(Pixels - 1)
  BY <1>1, Counters, Sizes
<1>7. /\ Reading' => state' # "idle"
      /\ Reading => state # "idle"
  BY DEF Reading, F!array_en, F!Zones
<1>8. CASE Reading /\ Reading'
  <2>1. \A k \in Cells : k <= Reads => imap_pipe'[k] = Read(first, Reads - k)
    BY <1>1, <1>3, <1>5, <1>8, AfterShift
  <2>2. Reads' = (IF rdy THEN Reads + 1 ELSE Reads) /\ pipe_en_d' = rdy
        /\ Late' = (IF rdy THEN 1 ELSE 0) /\ Reads \in Nat /\ first' = first
    BY <1>2, <1>3, <1>5, <1>7, <1>8 DEF Late
  <2>3. Reads' - Late' = Reads
    BY <2>2
  <2>4. imap_cnt' = (first + Reads') % Pixels
    <3> DEFINE n == first + Reads
    <3>1. n \in Nat /\ first + (Reads + 1) = n + 1
      BY <1>1, <1>6, <2>2
    <3> HIDE DEF n
    <3>2. (n + 1) % Pixels = IF n % Pixels = Pixels - 1 THEN 0 ELSE (n % Pixels) + 1
      BY <3>1, F!NextOffset, Assumptions, Sequencer
    <3>3. imap_cnt = n % Pixels
      BY <1>1, <1>8 DEF Lines, n
    <3>4. CASE rdy
      <4>1. imap_cnt' = (n + 1) % Pixels
        BY <1>5, <1>8, <3>2, <3>3, <3>4
      <4> QED
        BY <2>2, <3>1, <3>4, <4>1
    <3>5. CASE ~rdy
      BY <1>5, <1>8, <2>2, <3>3, <3>5 DEF n
    <3> QED
      BY <3>4, <3>5
  <2>5. rdy => Reads' >= 1 /\ imap_rdata' = Read(first, Reads' - 1)
    <3> SUFFICES ASSUME rdy PROVE Reads' >= 1 /\ imap_rdata' = Read(first, Reads' - 1)
      OBVIOUS
    <3>1. imap_rdata' = Read(first, Reads)
      BY <1>1, <1>3, <1>8, Asked
    <3>2. Reads' - 1 = Reads /\ Reads' >= 1
      BY <2>2
    <3> QED
      BY <3>1, <3>2
  <2>6. \A k \in Cells : k <= Reads' - Late' => imap_pipe'[k] = Read(first, Reads' - Late' - k)
    BY <2>1, <2>3
  <2> QED
    BY <1>4, <1>8, <2>2, <2>4, <2>5, <2>6 DEF Lines
<1>9. CASE ~Reading /\ Reading'
  <2>1. Reads' = 0 /\ first' = imap_cnt /\ imap_cnt' = imap_cnt /\ ~pipe_en_d'
    BY <1>2, <1>3, <1>5, <1>9
  <2>2. imap_cnt' = (first' + Reads') % Pixels
    <3>1. imap_cnt + 0 = imap_cnt /\ imap_cnt % Pixels = imap_cnt
      BY <1>6
    <3> QED
      BY <2>1, <3>1
  <2>3. Late' = 0
    BY <2>1 DEF Late
  <2>4. \A k \in Cells : ~(k <= 0 - 0)
    BY Sizes DEF Cells
  <2> QED
    BY <1>4, <1>9, <2>1, <2>2, <2>3, <2>4 DEF Lines
<1>10. CASE ~Reading'
  BY <1>4, <1>10 DEF Lines
<1> QED
  BY <1>8, <1>9, <1>10

\* The cell of each multiplier.
LEMMA Cell ==
  /\ Centre = M + 2 /\ Centre \in Cells /\ Centre - 1 \in Cells
  /\ \A m \in 0..8 : /\ m \div 3 \in 0..2 /\ m % 3 \in 0..2
                     /\ (8 - m) \div 3 = 2 - (m \div 3) /\ (8 - m) % 3 = 2 - (m % 3)
                     /\ Tap(m) \in Cells
                     /\ Tap(m) = (IF m \div 3 = 0 THEN 0 ELSE IF m \div 3 = 1 THEN M ELSE 2 * M)
                                   + (m % 3) + 1
<1>1. M \in Nat /\ M >= 3
  BY Sizes
<1>2. \A m \in 0..8 : /\ m \div 3 \in 0..2 /\ m % 3 \in 0..2
                      /\ (8 - m) \div 3 = 2 - (m \div 3) /\ (8 - m) % 3 = 2 - (m % 3)
  BY SMT
<1>3. 0 * M = 0 /\ 1 * M = M
  BY <1>1, SMT
<1>4. \A m \in 0..8 : Tap(m) = (IF m \div 3 = 0 THEN 0 ELSE IF m \div 3 = 1 THEN M ELSE 2 * M)
                                 + (m % 3) + 1
  <2> TAKE m \in 0..8
  <2>1. m \div 3 = 0 \/ m \div 3 = 1 \/ m \div 3 = 2
    BY <1>2
  <2> QED
    BY <1>1, <1>3, <2>1 DEF Tap
<1>5. \A m \in 0..8 : Tap(m) \in Cells
  BY <1>1, <1>2, <1>4 DEF Cells
<1>6. 4 \div 3 = 1 /\ 4 % 3 = 1 /\ 4 \in 0..8
  OBVIOUS
<1>7. Centre = M + 2
  <2>1. Tap(4) = M + 1 + 1
    BY <1>1, <1>4, <1>6
  <2> QED
    BY <1>1, <2>1 DEF Centre
<1> QED
  BY <1>1, <1>2, <1>4, <1>5, <1>7 DEF Cells

\* In its zone, the enabled multipliers are those with a neighbour of the pixel.
LEMMA EnabledAround ==
  ASSUME F!IInv, F!array_en
  PROVE  F!pe_en = Around(PixelOf(Issued))
<1>1. F!PaddingCorrect
  BY F!PaddingFromZone, Assumptions DEF F!IInv
<1>2. \A r, c \in 0..2 : (8 - (3 * r + c)) \in F!pe_en <=> F!Neighbour(r, c)
  BY <1>1 DEF F!PaddingCorrect
<1>3. PixelOf(Issued) \div M = conv_row_cnt /\ PixelOf(Issued) % M = conv_col_cnt
  BY Counters
<1>4. F!pe_en \subseteq 0..8
  BY DEF F!pe_en
<1>5. \A m \in 0..8 : m \in F!pe_en <=> m \in Around(PixelOf(Issued))
  <2> TAKE m \in 0..8
  <2>1. /\ (8 - m) \div 3 \in 0..2 /\ (8 - m) % 3 \in 0..2
        /\ 8 - (3 * ((8 - m) \div 3) + ((8 - m) % 3)) = m
    OBVIOUS
  <2>2. m \in F!pe_en <=> F!Neighbour((8 - m) \div 3, (8 - m) % 3)
    BY <1>2, <2>1
  <2> QED
    BY <1>3, <2>2 DEF F!Neighbour, Around
<1> QED
  BY <1>4, <1>5 DEF Around

\* What the multipliers compute in a clock that follows an enabled one is the product
\* that belongs to the pixel the counters name.
LEMMA MultipliedRight ==
  ASSUME F!IInv, Lines, F!array_en, pipe_en_d = TRUE
  PROVE  multiplied = Product(first, Issued)
<1>1. /\ Issued \in Nat /\ M \in Nat /\ M >= 3 /\ Lead = M + 3
      /\ conv_row_cnt \in 0..(M - 1) /\ conv_col_cnt \in 0..(M - 1)
  <2>1. Issued \in 0..(Total - 1) /\ Total \in Nat
    BY Counters, Sizes
  <2> QED
    BY <2>1, Counters, Sizes DEF Lead
<1>2. Reading /\ Reads = Issued + M + 3 /\ Late = 1
  <2>1. state # "array_setup"
    BY DEF F!array_en, F!Zones
  <2> QED
    BY <1>1, <2>1 DEF Reading, Reads, Late
<1>3. \A k \in Cells : k <= Issued + M + 2 => imap_pipe[k] = Read(first, Issued + M + 2 - k)
  <2> SUFFICES ASSUME NEW k \in Cells, k <= Issued + M + 2
               PROVE  imap_pipe[k] = Read(first, Issued + M + 2 - k)
    OBVIOUS
  <2>1. k <= Reads - Late => imap_pipe[k] = Read(first, Reads - Late - k)
    BY <1>2 DEF Lines
  <2>2. /\ k <= Reads - Late
        /\ Reads - Late - k = Issued + M + 2 - k
    BY <1>1, <1>2, Cell DEF Cells
  <2> QED
    BY <2>1, <2>2
<1>4. imap_pipe[Centre] = Read(first, Issued)
  <2>1. Centre = M + 2 /\ Centre \in Cells
    BY Cell
  <2>2. Centre <= Issued + M + 2 /\ Issued + M + 2 - Centre = Issued
    BY <1>1, <2>1
  <2> QED
    BY <1>3, <2>1, <2>2
<1>5. \A m \in Around(PixelOf(Issued)) : imap_pipe[Tap(m)] = Read(first, Issued + Centre - Tap(m))
  <2> SUFFICES ASSUME NEW m \in Around(PixelOf(Issued))
               PROVE  imap_pipe[Tap(m)] = Read(first, Issued + Centre - Tap(m))
    OBVIOUS
  <2>1. /\ m \in 0..8
        /\ conv_row_cnt + ((8 - m) \div 3) \in 1..M
        /\ conv_col_cnt + ((8 - m) % 3) \in 1..M
    BY Counters DEF Around
  <2>2. /\ m \div 3 \in 0..2 /\ m % 3 \in 0..2 /\ Tap(m) \in Cells
        /\ (8 - m) \div 3 = 2 - (m \div 3) /\ (8 - m) % 3 = 2 - (m % 3)
        /\ Tap(m) = (IF m \div 3 = 0 THEN 0 ELSE IF m \div 3 = 1 THEN M ELSE 2 * M)
                      + (m % 3) + 1
        /\ Centre = M + 2
    BY <2>1, Cell
  <2>3. Issued >= (IF conv_row_cnt = 0 THEN 0 ELSE M) + conv_col_cnt
    <3>1. F!position = conv_row_cnt * M + conv_col_cnt
      BY DEF F!position
    <3>2. Issued = Pixels * F!pass + F!position /\ F!pass \in Nat /\ Pixels \in Nat
      BY Counters, Sizes
    <3>3. Pixels * F!pass >= 0 /\ Pixels * F!pass \in Nat
      BY <3>2, SMT
    <3>4. conv_row_cnt * M \in Nat /\ conv_row_cnt * M >= IF conv_row_cnt = 0 THEN 0 ELSE M
      BY <1>1, SMT
    <3> QED
      BY <1>1, <3>1, <3>2, <3>3, <3>4
  <2>4. Tap(m) <= Issued + M + 2
    BY <1>1, <2>1, <2>2, <2>3
  <2>5. Issued + M + 2 - Tap(m) = Issued + Centre - Tap(m)
    BY <1>1, <2>2
  <2> QED
    BY <1>3, <2>2, <2>4, <2>5
<1>6. Fsm!pe_en = Around(PixelOf(Issued)) /\ Fsm!array_en
  BY EnabledAround, Sequencer
<1>7. Fsm!weight_sel = <<(PassOf(Issued) \div 2) % 2, PassOf(Issued) % 2>>
  BY Counters, Sequencer
<1>8. [m \in Fsm!pe_en |-> imap_pipe[Tap(m)]] =
      [m \in Around(PixelOf(Issued)) |-> Read(first, Issued + Centre - Tap(m))]
  BY <1>5, <1>6
<1> QED
  BY <1>4, <1>6, <1>7, <1>8 DEF multiplied, Product

\* The invariant about the lines says where every pixel in them comes from.
LEMMA LinesNamed ==
  ASSUME F!IInv, Lines, first \in 0..(Pixels - 1)
  PROVE  LineBuffersInStep
<1>1. Fsm!Issued = Issued /\ late = Late /\ (Fsm!array_en <=> F!array_en)
  BY Sequencer DEF Fsm!Issued, Issued, F!Issued, late, Late
<1> SUFFICES ASSUME F!array_en, NEW k \in Cells, k <= Issued + M + 3 - Late
             PROVE  imap_pipe[k].offset = Behind(k)
  BY <1>1 DEF LineBuffersInStep
<1>2. Reading /\ Reads = Issued + Lead /\ Lead = M + 3 /\ M \in Nat /\ k \in Nat
  <2>1. state # "array_setup"
    BY DEF F!array_en, F!Zones
  <2> QED
    BY <2>1, Sizes DEF Reading, Reads, Lead, Cells
<1>3. /\ Issued = Pixels * F!pass + F!position /\ F!pass \in Nat /\ Pixels \in Nat
      /\ conv_row_cnt \in 0..(M - 1) /\ conv_col_cnt \in 0..(M - 1)
      /\ Issued \in 0..(Total - 1) /\ Total \in Nat /\ Late \in 0..1
  BY Counters, Sizes DEF Late
<1> DEFINE x == first + (conv_row_cnt * M + conv_col_cnt + M + 3 - Late - k)
           n == first + (Reads - Late - k)
<1>4. imap_pipe[k].offset = n % Pixels
  <2>1. k <= Reads - Late
    BY <1>2, <1>3
  <2>2. imap_pipe[k] = Read(first, Reads - Late - k)
    BY <1>2, <2>1 DEF Lines
  <2> QED
    BY <2>2 DEF Read
<1>5. Pixels * F!pass \in Int /\ conv_row_cnt * M \in Int
  BY <1>2, <1>3, SMT
<1>6. x \in Int /\ n = Pixels * F!pass + x
  BY <1>2, <1>3, <1>5 DEF F!position
<1>7. F!pass \in Int
  BY <1>3
<1>8. Behind(k) = x % Pixels
  BY <1>1 DEF Behind, Address
<1> HIDE DEF x, n
<1>9. n % Pixels = x % Pixels
  <2>1. Pixels = F!Pixels
    BY Sequencer
  <2> QED
    BY <1>6, <1>7, <2>1, F!SameOffset, Assumptions
<1> QED
  BY <1>4, <1>8, <1>9

(***************************************************************************)
(* The values that travel with the pixels.                                  *)
(***************************************************************************)
\* A valid bit keeps the number of its pixel on its way through the array.
LEMMA NumbersMove ==
  ASSUME F!IInv, F!IInv', NEW start \in BOOLEAN, NEW rdy \in BOOLEAN, F!Clock(start, rdy),
         rdy, F!array_en \/ state = "array_cool_down"
  PROVE  /\ vld_d'[1] <=> F!array_en
         /\ \A i \in 1..5 : vld_d'[i + 1] <=> vld_d[i]
         /\ vld_d'[1] => Number(1)' = Issued
         /\ \A i \in 1..5 : vld_d'[i + 1] => Number(i + 1)' = Number(i)
<1>1. F!TypeOK /\ F!ZoneMatchesPixel /\ F!Balance /\ F!Balance'
  BY DEF F!IInv
<1>2. F!pipe_en(rdy)
  BY DEF F!pipe_en, F!array_en, F!Zones
<1>3. /\ vld_d \in [1..6 -> BOOLEAN] /\ vld_d' \in [1..6 -> BOOLEAN]
      /\ vld_d'[1] <=> F!array_en
      /\ \A i \in 1..5 : vld_d'[i + 1] <=> vld_d[i]
  BY <1>1, <1>2, F!Shifted, Assumptions
<1>4. /\ Issued \in 0..(Total - 1) /\ Delivered \in 0..(Total - 1) /\ Total \in Nat /\ Total >= 18
  BY Counters, Sizes
<1>5. /\ F!array_en => state' \in F!Zones \cup {"array_cool_down"}
      /\ F!array_en => (state' = "array_cool_down" <=> F!pipe_en(rdy) /\ F!MapEnd /\ F!LastPass)
      /\ state = "array_cool_down" =>
           state' = IF F!CoolDownOver /\ F!pipe_en(rdy) THEN "idle" ELSE state
  BY <1>1, F!Goes, Assumptions
<1>6. Issued = Total - 1 <=> F!MapEnd /\ F!LastPass
  BY <1>1, F!Digits, Assumptions DEF Issued, Total
<1>7. F!array_en' <=> state' \in F!Zones
  BY DEF F!array_en
<1>8. CASE F!array_en /\ state' \in F!Zones
  <2>1. state' # "array_cool_down"
    BY <1>8 DEF F!Zones
  <2>2. F!Issued' = F!Issued + 1
    BY <1>1, <1>2, <1>5, <1>8, <2>1, F!IssuedMoves, Assumptions
  <2>6. Issued' = Issued + 1
    BY <2>2 DEF Issued
  <2>3. \A i \in 1..6 : Number(i) = Issued - i
    BY <1>8 DEF Number
  <2>4. \A i \in 1..6 : Number(i)' = Issued' - i
    <3>1. F!array_en'
      BY <1>7, <1>8
    <3> QED
      BY <3>1 DEF Number
  <2>5. \A i \in Int : Issued' - (i + 1) = Issued - i
    BY <1>4, <2>6
  <2>7. Number(1)' = Issued
    <3>1. Issued' - 1 = Issued
      BY <1>4, <2>6
    <3> QED
      BY <2>4, <3>1
  <2>8. \A i \in 1..5 : Number(i + 1)' = Number(i)
    <3> TAKE i \in 1..5
    <3>1. i + 1 \in 1..6 /\ i \in 1..6 /\ i \in Int
      OBVIOUS
    <3>2. Number(i + 1)' = Issued' - (i + 1) /\ Number(i) = Issued - i
      BY <2>3, <2>4, <3>1
    <3>3. Issued' - (i + 1) = Issued - i
      BY <2>5, <3>1
    <3> QED
      BY <3>2, <3>3
  <2> QED
    BY <1>3, <2>7, <2>8
<1>9. CASE F!array_en /\ state' = "array_cool_down"
  <2>1. Issued = Total - 1
    BY <1>5, <1>6, <1>9
  <2>2. F!Draining(vld_d') /\ F!Delivered' + F!Sum6(vld_d') = F!Total
    BY <1>1, <1>9 DEF F!Balance
  <2>3. vld_d'[1] /\ vld_d'[2] /\ vld_d'[3] /\ vld_d'[4] /\ vld_d'[5] /\ vld_d'[6]
    BY <1>3, <1>9, <2>2 DEF F!Draining
  <2>4. F!Sum6(vld_d') = 6
    BY <2>3 DEF F!Sum6, F!Bit
  <2>5. Delivered' \in Int
    <3>1. F!Delivered' = omap_ch_cnt' * F!Pixels + omap_cnt'
      BY DEF F!Delivered
    <3>2. omap_ch_cnt' \in Nat /\ omap_cnt' \in Nat /\ F!Pixels \in Nat
      BY Sizes, Sequencer DEF F!IInv, F!TypeOK
    <3>3. omap_ch_cnt' * F!Pixels \in Nat
      <4>1. \A a, b \in Nat : a * b \in Nat
        BY SMT
      <4> QED
        BY <3>2, <4>1
    <3> QED
      BY <3>1, <3>2, <3>3 DEF Delivered
  <2>11. Delivered' + 6 = Total
    BY <2>2, <2>4 DEF Delivered, Total
  <2>6. \A i \in Int : Delivered' + 6 - i = Total - i
    <3>1. \A a, t, i \in Int : a + 6 = t => a + 6 - i = t - i
      OBVIOUS
    <3>2. Total \in Int
      BY <1>4
    <3> QED
      BY <2>5, <2>11, <3>1, <3>2, Zenon
  <2>7. ~F!array_en'
    BY <1>7, <1>9 DEF F!Zones
  <2>8. \A i \in 1..6 : Number(i) = Issued - i
    BY <1>9 DEF Number
  <2>9. \A i \in 1..6 : Number(i)' = Total - i
    <3>1. \A i \in 1..6 : Number(i)' = Delivered' + 6 - i
      BY <2>7 DEF Number
    <3> QED
      BY <2>6, <3>1
  <2>10. Number(1)' = Issued
    BY <1>4, <2>1, <2>9
  <2>12. \A i \in 1..5 : Number(i + 1)' = Number(i)
    <3> TAKE i \in 1..5
    <3>1. i + 1 \in 1..6 /\ i \in 1..6
      OBVIOUS
    <3>2. Number(i + 1)' = Total - (i + 1) /\ Number(i) = Issued - i
      BY <2>8, <2>9, <3>1
    <3>3. Total - (i + 1) = Issued - i
      BY <1>4, <2>1, <3>1
    <3> QED
      BY <3>2, <3>3
  <2> QED
    BY <1>3, <2>10, <2>12
<1>10. CASE state = "array_cool_down" /\ state' = "array_cool_down"
  <2>1. ~F!array_en /\ ~F!array_en'
    BY <1>7, <1>10 DEF F!array_en, F!Zones
  <2>2. F!handshake(rdy)
    BY <1>1, <1>10 DEF F!Balance, F!handshake, F!mac_array2psum_acc_vld, F!Delay
  <2>3. ~F!CoolDownOver
    BY <1>2, <1>5, <1>10
  <2>4. Delivered' = Delivered + 1
    BY <1>1, <2>2, <2>3, F!DeliveredMoves, Assumptions DEF F!CoolDownOver, Delivered
  <2>5. \A i \in 1..6 : Number(i) = Delivered + 6 - i /\ Number(i)' = Delivered + 1 + 6 - i
    BY <2>1, <2>4 DEF Number
  <2>6. \A i \in 1..5 : Number(i + 1)' = Number(i)
    <3> TAKE i \in 1..5
    <3>1. i + 1 \in 1..6 /\ i \in 1..6
      OBVIOUS
    <3>2. Number(i + 1)' = Delivered + 1 + 6 - (i + 1) /\ Number(i) = Delivered + 6 - i
      BY <2>5, <3>1
    <3> QED
      BY <1>4, <3>2
  <2> QED
    BY <1>3, <2>1, <2>6
<1>11. CASE state = "array_cool_down" /\ state' = "idle"
  <2>1. \A i \in 1..6 : ~vld_d'[i]
    BY <1>1, <1>11 DEF F!Balance
  <2>2. \A i \in 1..5 : i + 1 \in 1..6
    OBVIOUS
  <2> QED
    BY <1>3, <2>1, <2>2
<1> QED
  BY <1>5, <1>8, <1>9, <1>10, <1>11

\* A pixel that leaves is the one the output counters name.
LEMMA LeavingNumber ==
  ASSUME F!IInv, vld_d[6]
  PROVE  Number(6) = Delivered
<1>1. F!Balance /\ F!TypeOK
  BY DEF F!IInv
<1>2. Delivered \in Int
  <2>1. Delivered \in 0..(Total - 1)
    BY Counters
  <2> QED
    BY <2>1
<1>3. CASE F!array_en
  <2>1. F!Filling(vld_d) /\ F!Issued = F!Delivered + F!Sum6(vld_d)
    BY <1>1, <1>3 DEF F!Balance
  <2>2. vld_d[1] /\ vld_d[2] /\ vld_d[3] /\ vld_d[4] /\ vld_d[5] /\ vld_d[6]
    BY <2>1 DEF F!Filling
  <2>3. F!Sum6(vld_d) = 6
    BY <2>2 DEF F!Sum6, F!Bit
  <2> QED
    BY <1>2, <1>3, <2>1, <2>3 DEF Number, Issued, Delivered
<1>4. CASE ~F!array_en
  BY <1>2, <1>4 DEF Number
<1> QED
  BY <1>3, <1>4

\* While the array drains, what is still in its first half needs no pick any more.
LEMMA NothingToPick ==
  ASSUME F!IInv, state = "array_cool_down"
  PROVE  ~(Number(3) + 3 < Total)
<1>1. F!Balance /\ ~F!array_en /\ Delivered \in 0..(Total - 1) /\ Total \in Nat
  BY Counters, Sizes DEF F!IInv, F!array_en, F!Zones
<1>2. F!Delivered + F!Sum6(vld_d) = F!Total
  BY <1>1 DEF F!Balance
<1>3. F!Sum6(vld_d) \in 0..6
  BY DEF F!Sum6, F!Bit
<1> QED
  BY <1>1, <1>2, <1>3 DEF Number, Delivered, Total

\* An enabled clock moves sums and identity bytes along with the valid bits.
LEMMA Travels ==
  ASSUME Widths, NEW rdy, Core(rdy), pipe_en_d
  PROVE  /\ Sum(1)' = multiplied /\ Identity(1)' = identity_d[1]
         /\ \A i \in 1..5 : Sum(i + 1)' = Sum(i) /\ Identity(i + 1)' = Identity(i)
         /\ identity_d'[1] = imap_pipe[Centre - 1]
         /\ identity_q'[1].array = identity_sel
         /\ identity_q'[2].array = identity_q[1].array
         /\ identity_q'[3].array = identity_q[2].array
<1>1. /\ DOMAIN psum = 1..5 /\ DOMAIN identity_d = 1..4 /\ DOMAIN identity_q = 1..3
  BY DEF Widths
<1>2. /\ product' = multiplied
      /\ psum' = Shifted(psum, product)
      /\ identity_d' = Shifted(identity_d, imap_pipe[Centre - 1])
      /\ identity_q' = Shifted(identity_q, [pixel |-> identity_d[4], array |-> identity_sel])
  BY DEF Core, Shift
<1>3. /\ psum'[1] = product /\ \A j \in 2..5 : psum'[j] = psum[j - 1]
  BY <1>1, <1>2 DEF Shifted
<1>4. identity_d'[1] = imap_pipe[Centre - 1] /\ \A j \in 2..4 : identity_d'[j] = identity_d[j - 1]
  BY <1>1, <1>2 DEF Shifted
<1>5. /\ identity_q'[1] = [pixel |-> identity_d[4], array |-> identity_sel]
      /\ identity_q'[2] = identity_q[1] /\ identity_q'[3] = identity_q[2]
  BY <1>1, <1>2 DEF Shifted
<1>6. \A i \in 1..5 : Sum(i + 1)' = Sum(i)
  <2> TAKE i \in 1..5
  <2>1. Sum(i + 1)' = psum'[i]
    <3>1. i + 1 # 1 /\ i + 1 - 1 = i
      OBVIOUS
    <3> QED
      BY <3>1 DEF Sum
  <2>2. psum'[i] = IF i = 1 THEN product ELSE psum[i - 1]
    BY <1>3
  <2> QED
    BY <2>1, <2>2 DEF Sum
<1>7. \A i \in 1..5 : Identity(i + 1)' = Identity(i)
  <2> TAKE i \in 1..5
  <2>1. CASE i = 1
    BY <1>4, <2>1 DEF Identity
  <2>2. CASE i = 2
    BY <1>4, <2>2 DEF Identity
  <2>3. CASE i = 3
    BY <1>5, <2>3 DEF Identity
  <2>4. CASE i = 4
    BY <1>5, <2>4 DEF Identity
  <2>5. CASE i = 5
    BY <1>5, <2>5 DEF Identity
  <2> QED
    BY <2>1, <2>2, <2>3, <2>4, <2>5
<1>8. Sum(1)' = multiplied /\ Identity(1)' = identity_d[1]
  BY <1>2, <1>4 DEF Sum, Identity
<1> QED
  BY <1>4, <1>5, <1>6, <1>7, <1>8

\* The registers keep their number.
LEMMA WidthsStep ==
  ASSUME Widths, NEW rdy, Core(rdy)
  PROVE  Widths'
BY DEF Widths, Core, Shift, Shifted

\* The identity path picks up the pixel that enters next.
LEMMA IdentityEnters ==
  ASSUME F!IInv, Lines, Reading, pipe_en_d = TRUE, Reads >= M + 2
  PROVE  imap_pipe[Centre - 1] = Read(first, Reads - (M + 2))
<1>1. Centre - 1 <= Reads - Late =>
        imap_pipe[Centre - 1] = Read(first, Reads - Late - (Centre - 1))
  BY Cell DEF Lines
<1>2. Reads \in Int /\ M \in Nat
  <2>1. Issued \in 0..(Total - 1) /\ setup_cnt \in 0..(M + 2) /\ Lead \in Nat /\ M \in Nat
    BY Counters, Sizes
  <2> QED
    BY <2>1 DEF Reads
<1>3. Centre - 1 <= Reads - Late /\ Reads - Late - (Centre - 1) = Reads - (M + 2)
  BY <1>2, Cell DEF Late
<1> QED
  BY <1>1, <1>3

\* Unless something of the job was refused, a clock edge keeps every value with its pixel.
LEMMA ValuesStep ==
  ASSUME IInv, F!IInv', NEW start \in BOOLEAN, NEW rdy \in BOOLEAN, Clock(start, rdy)
  PROVE  Values'
<1> SUFFICES ASSUME ~refused' PROVE Values'
  BY DEF Values
<1>1. /\ F!IInv /\ Lines /\ Widths /\ Values /\ pipe_en_d \in BOOLEAN
      /\ F!TypeOK /\ F!ZoneMatchesPixel /\ F!Balance /\ F!Balance' /\ state \in F!States
  BY DEF IInv, F!IInv, F!TypeOK
<1>2. F!Clock(start, rdy) /\ Core(rdy)
  BY SameClock DEF Clock
<1>3. state # "idle" => ~refused /\ rdy /\ first' = first
  BY DEF Clock
<1>4. pipe_en_d' = (state # "idle" /\ rdy)
  BY <1>2, Sequencer DEF Core, F!pipe_en
<1>5. /\ state = "idle" => state' \in {"idle", "array_setup"}
      /\ state = "array_setup" => state' \in {"array_setup", "conv_s0"}
      /\ F!array_en => state' \in F!Zones \cup {"array_cool_down"}
      /\ state = "array_cool_down" => state' \in {"idle", "array_cool_down"}
  BY <1>1, <1>2, F!Goes, Assumptions
<1>6. F!array_en' <=> state' \in F!Zones
  BY DEF F!array_en
<1>7. /\ state' = "idle" \/ state' = "array_setup" => ~F!array_en' /\ \A i \in 1..6 : ~vld_d'[i]
  BY <1>1, <1>6 DEF F!Balance, F!Zones
<1>8. \A i \in 4..6 : i \in 1..6
  OBVIOUS
<1>9. CASE state = "idle"
  <2>1. setup_cnt' = 0 /\ ~pipe_en_d' /\ state' # "array_cool_down"
    <3>1. setup_cnt = 0 /\ setup_cnt' = setup_cnt
      BY <1>1, <1>2, <1>9 DEF F!ZoneMatchesPixel, F!Clock, F!SetupCnt, F!Zones
    <3> QED
      BY <1>4, <1>5, <1>9, <3>1
  <2>2. ~(setup_cnt' > 0)
    BY <2>1
  <2> QED
    BY <1>5, <1>7, <1>8, <1>9, <2>1, <2>2 DEF Values
<1> SUFFICES ASSUME state # "idle" PROVE Values'
  BY <1>9
<1>10. ~refused /\ rdy /\ first' = first
  BY <1>3
<1>11. /\ state = "array_setup" => (pipe_en_d <=> setup_cnt > 0)
       /\ F!array_en => pipe_en_d /\ identity_d[1] = Read(first, Issued)
       /\ state = "array_cool_down" => pipe_en_d
       /\ \A i \in 1..6 :
            vld_d[i] => /\ Sum(i) = Product(first, Number(i))
                        /\ Identity(i) = Read(first, Number(i))
       /\ \A i \in 4..6 : vld_d[i] /\ Number(i) + 3 < Total =>
            identity_q[i - 3].array = (PassOf(Number(i) + 3) \div 2) % (NOCH \div 2)
  BY <1>1, <1>10 DEF Values
<1>12. state = "array_setup" \/ F!array_en \/ state = "array_cool_down"
  BY <1>1 DEF F!States, F!array_en
<1>13. CASE state = "array_setup"
  <2>1. pipe_en_d' /\ rdy
    BY <1>10, <1>4, <1>13
  <2>2. M \in Nat /\ setup_cnt \in 0..(M + 2) /\ Total \in Nat
    BY <1>1, Counters, Sizes
  <2>3. setup_cnt' = IF setup_cnt = M + 2 THEN 0 ELSE setup_cnt + 1
    BY <1>2, <1>13, <2>1 DEF F!Clock, F!SetupCnt, F!Wrap, F!pipe_en
  <2>4. state' = IF setup_cnt = M + 2 THEN "conv_s0" ELSE "array_setup"
    BY <1>2, <1>13, <2>1 DEF F!Clock, F!NextState, F!pipe_en
  <2>5. CASE state' = "array_setup"
    <3>1. setup_cnt' > 0
      BY <2>2, <2>3, <2>4, <2>5
    <3> QED
      BY <1>7, <1>8, <2>1, <2>5, <3>1 DEF Values
  <2>6. CASE state' = "conv_s0"
    <3>1. setup_cnt = M + 2
      BY <2>4, <2>6
    <3>2. pipe_en_d = TRUE /\ Reading /\ Reads = M + 2
      BY <1>1, <1>11, <1>13, <2>2, <3>1 DEF Reading, Reads
    <3>3. identity_d'[1] = Read(first, 0)
      <4>1. imap_pipe[Centre - 1] = Read(first, Reads - (M + 2))
        BY <1>1, <2>2, <3>2, IdentityEnters
      <4>2. Reads - (M + 2) = 0
        BY <2>2, <3>2
      <4> QED
        BY <1>1, <1>2, <3>2, <4>1, <4>2, Travels
    <3>4. Issued' = 0
      <4>1. ~F!array_en
        BY <1>13 DEF F!array_en, F!Zones
      <4>2. Issued' = Issued
        BY <1>1, <1>2, <4>1, F!IssuedMoves, Assumptions DEF Issued
      <4>3. conv_row_cnt = 0 /\ conv_col_cnt = 0 /\ in_ch_cnt = 0 /\ out_ch_cnt = 0
        BY <1>1, <4>1 DEF F!ZoneMatchesPixel, F!array_en
      <4>4. 0 * M = 0
        BY <2>2, SMT
      <4> QED
        BY <2>2, <4>2, <4>3, <4>4 DEF Issued, F!Issued
    <3>5. \A i \in 1..6 : ~vld_d'[i]
      <4>1. \A i \in 1..6 : ~vld_d[i]
        BY <1>1, <1>13 DEF F!Balance
      <4>2. ~vld_d'[1] /\ \A i \in 1..5 : vld_d'[i + 1] <=> vld_d[i]
        BY <1>1, <1>2, <1>13, <2>1, F!Shifted, Assumptions DEF F!pipe_en, F!array_en, F!Zones
      <4>3. \A i \in 1..6 : i = 1 \/ (i - 1 \in 1..5 /\ (i - 1) + 1 = i /\ i - 1 \in 1..6)
        OBVIOUS
      <4> QED
        BY <4>1, <4>2, <4>3
    <3> QED
      BY <1>8, <1>10, <2>1, <2>6, <3>3, <3>4, <3>5 DEF Values
  <2> QED
    BY <1>5, <1>13, <2>5, <2>6
<1>14. CASE F!array_en \/ state = "array_cool_down"
  <2>1. rdy /\ pipe_en_d = TRUE /\ pipe_en_d'
    <3>1. state # "idle"
      BY <1>14 DEF F!array_en, F!Zones
    <3> QED
      BY <1>1, <1>10, <1>4, <1>11, <1>14, <3>1
  <2>2. /\ vld_d'[1] <=> F!array_en
        /\ \A i \in 1..5 : vld_d'[i + 1] <=> vld_d[i]
        /\ vld_d'[1] => Number(1)' = Issued
        /\ \A i \in 1..5 : vld_d'[i + 1] => Number(i + 1)' = Number(i)
    BY <1>1, <1>2, <1>14, <2>1, NumbersMove
  <2>3. /\ Sum(1)' = multiplied /\ Identity(1)' = identity_d[1]
        /\ \A i \in 1..5 : Sum(i + 1)' = Sum(i) /\ Identity(i + 1)' = Identity(i)
        /\ identity_d'[1] = imap_pipe[Centre - 1]
        /\ identity_q'[1].array = identity_sel
        /\ identity_q'[2].array = identity_q[1].array
        /\ identity_q'[3].array = identity_q[2].array
    BY <1>1, <1>2, <2>1, Travels
  <2>4. state' # "array_setup"
    BY <1>5, <1>14 DEF F!Zones
  <2>5. F!array_en' => identity_d'[1] = Read(first, Issued')
    <3> SUFFICES ASSUME F!array_en' PROVE identity_d'[1] = Read(first, Issued')
      OBVIOUS
    <3>1. F!array_en /\ Reading /\ Reading' /\ state # "array_setup" /\ state' # "array_setup"
      BY <1>5, <1>6, <1>14 DEF Reading, F!array_en, F!Zones
    <3>2. Issued' = Issued + 1
      <4>1. state' # "array_cool_down" /\ F!pipe_en(rdy)
        BY <1>6, <2>1, <3>1 DEF F!Zones, F!pipe_en, F!array_en
      <4>2. ~(F!MapEnd /\ F!LastPass)
        BY <1>1, <1>2, <3>1, <4>1, F!Goes, Assumptions
      <4>3. F!Issued' = F!Issued + 1
        BY <1>1, <1>2, <3>1, <4>1, <4>2, F!IssuedMoves, Assumptions
      <4> QED
        BY <4>3 DEF Issued
    <3>3. Reads = Issued + Lead
      BY <3>1 DEF Reads
    <3>4. Issued \in 0..(Total - 1) /\ Total \in Nat /\ Lead = M + 3 /\ M \in Nat
      BY <1>1, Counters, Sizes DEF Lead
    <3>5. Reads >= M + 2 /\ Reads - (M + 2) = Issued + 1
      BY <3>3, <3>4
    <3>6. imap_pipe[Centre - 1] = Read(first, Reads - (M + 2))
      BY <1>1, <2>1, <3>1, <3>5, IdentityEnters
    <3> QED
      BY <2>3, <3>2, <3>5, <3>6
  <2>6. \A i \in 1..6 : vld_d'[i] => /\ Sum(i)' = Product(first, Number(i)')
                                    /\ Identity(i)' = Read(first, Number(i)')
    <3>1. ASSUME vld_d'[1]
          PROVE  Sum(1)' = Product(first, Number(1)') /\ Identity(1)' = Read(first, Number(1)')
      <4>1. F!array_en
        BY <2>2, <3>1
      <4>2. multiplied = Product(first, Issued)
        BY <1>1, <2>1, <4>1, MultipliedRight
      <4> QED
        BY <1>11, <2>2, <2>3, <3>1, <4>1, <4>2
    <3>2. ASSUME NEW i \in 1..5, vld_d'[i + 1]
          PROVE  /\ Sum(i + 1)' = Product(first, Number(i + 1)')
                 /\ Identity(i + 1)' = Read(first, Number(i + 1)')
      <4>1. vld_d[i] /\ i \in 1..6
        BY <2>2, <3>2
      <4> QED
        BY <1>11, <2>2, <2>3, <3>2, <4>1
    <3> TAKE i \in 1..6
    <3>3. CASE i = 1
      BY <3>1, <3>3
    <3>4. CASE i # 1
      <4> DEFINE j == i - 1
      <4>1. j \in 1..5 /\ j + 1 = i
        BY <3>4
      <4> HIDE DEF j
      <4>2. vld_d'[j + 1] => Sum(j + 1)' = Product(first, Number(j + 1)')
                              /\ Identity(j + 1)' = Read(first, Number(j + 1)')
        BY <3>2, <4>1
      <4> QED
        BY <4>1, <4>2
    <3> QED
      BY <3>3, <3>4
  <2>7. \A i \in 4..6 : vld_d'[i] /\ Number(i)' + 3 < Total =>
           identity_q'[i - 3].array = (PassOf(Number(i)' + 3) \div 2) % (NOCH \div 2)
    <3>1. ASSUME vld_d'[4], Number(4)' + 3 < Total
          PROVE  identity_q'[1].array = (PassOf(Number(4)' + 3) \div 2) % (NOCH \div 2)
      <4>1. Number(4)' = Number(3)
        BY <2>2, <3>1
      <4>2. F!array_en
        BY <1>1, <1>14, <3>1, <4>1, NothingToPick
      <4>3. Number(4)' + 3 = Issued
        <5>1. Issued \in 0..(Total - 1) /\ Total \in Nat
          BY <1>1, Counters, Sizes
        <5>2. Number(3) = Issued - 3
          BY <4>2 DEF Number
        <5>3. Number(3) + 3 = Issued
          BY <5>1, <5>2
        <5> QED
          BY <4>1, <5>3
      <4>4. PassOf(Issued) \div 2 = out_ch_cnt
        BY <1>1, Counters
      <4> QED
        BY <2>3, <4>3, <4>4 DEF identity_sel
    <3>2. ASSUME vld_d'[5], Number(5)' + 3 < Total
          PROVE  identity_q'[2].array = (PassOf(Number(5)' + 3) \div 2) % (NOCH \div 2)
      <4>1. Number(5)' = Number(4) /\ vld_d[4]
        BY <2>2, <3>2
      <4> QED
        BY <1>11, <2>3, <3>2, <4>1
    <3>3. ASSUME vld_d'[6], Number(6)' + 3 < Total
          PROVE  identity_q'[3].array = (PassOf(Number(6)' + 3) \div 2) % (NOCH \div 2)
      <4>1. Number(6)' = Number(5) /\ vld_d[5]
        BY <2>2, <3>3
      <4> QED
        BY <1>11, <2>3, <3>3, <4>1
    <3> QED
      BY <3>1, <3>2, <3>3
  <2> QED
    BY <1>10, <2>1, <2>4, <2>5, <2>6, <2>7 DEF Values
<1> QED
  BY <1>12, <1>13, <1>14

(***************************************************************************)
(* The invariant.                                                           *)
(***************************************************************************)
\* After reset nothing was read and nothing refused.
LEMMA InvInit == Init => IInv
<1> SUFFICES ASSUME Init PROVE IInv
  OBVIOUS
<1>1. F!Init
  BY Sequencer DEF Init
<1>2. F!IInv
  BY <1>1, Assumptions, F!TypeInit, F!ZoneInit, F!BalanceInit DEF F!IInv
<1>3. state = "idle" /\ imap_cnt = 0 /\ vld_d = [i \in 1..6 |-> FALSE]
  BY <1>1 DEF F!Init, F!Delay
<1>4. ~F!array_en /\ ~Reading
  BY <1>3 DEF F!array_en, F!Zones, Reading
<1>5. Lines
  BY <1>3, <1>4 DEF Init, Lines
<1>6. Widths /\ refused \in BOOLEAN /\ pipe_en_d \in BOOLEAN /\ first \in 0..(Pixels - 1)
  <2>1. Widths /\ refused \in BOOLEAN /\ pipe_en_d \in BOOLEAN
    BY DEF Init, Widths
  <2>2. first \in 0..(Pixels - 1)
    BY Sizes DEF Init
  <2> QED
    BY <2>1, <2>2
<1>7. \A i \in 1..6 : ~vld_d[i]
  BY <1>3
<1>8. \A i \in 4..6 : i \in 1..6
  OBVIOUS
<1>9. Values
  BY <1>3, <1>4, <1>7, <1>8 DEF Values
<1> QED
  BY <1>2, <1>5, <1>6, <1>9 DEF IInv

\* Every step keeps the invariant.
LEMMA InvStep == IInv /\ [Next]_vars => IInv'
<1> SUFFICES ASSUME IInv, [Next]_vars PROVE IInv'
  OBVIOUS
<1>1. F!IInv
  BY DEF IInv
<1>2. CASE UNCHANGED vars
  <2>1. UNCHANGED <<fsmVars, imap_rdata, pipe_en_d, imap_pipe, product, psum, identity_d,
                    identity_q, refused, first>>
    BY <1>2 DEF vars, coreVars
  <2>2. F!IInv'
    <3>1. UNCHANGED F!vars
      BY <2>1 DEF fsmVars, F!vars
    <3> QED
      BY <1>1, <3>1, Assumptions, F!InvStep
  <2>3. UNCHANGED <<state, setup_cnt, conv_row_cnt, conv_col_cnt, in_ch_cnt, out_ch_cnt,
                    imap_cnt, omap_cnt, omap_ch_cnt, conv_done, vld_d>>
    BY <2>1 DEF fsmVars
  <2>4. /\ F!array_en' = F!array_en /\ Issued' = Issued /\ Delivered' = Delivered
        /\ Reading' = Reading /\ Reads' = Reads /\ Late' = Late
    BY <2>1, <2>3 DEF F!array_en, Issued, F!Issued, Delivered, F!Delivered, Reading, Reads, Late
  <2>5. Lines'
    BY <2>1, <2>3, <2>4 DEF IInv, Lines
  <2>6. \A i \in 1..6 : Sum(i)' = Sum(i) /\ Identity(i)' = Identity(i) /\ Number(i)' = Number(i)
    BY <2>1, <2>4 DEF Sum, Identity, Number
  <2>7. \A i \in 4..6 : i \in 1..6
    OBVIOUS
  <2>8. Values'
    BY <2>1, <2>3, <2>4, <2>6, <2>7 DEF IInv, Values
  <2>9. Widths' /\ refused' \in BOOLEAN /\ pipe_en_d' \in BOOLEAN /\ first' \in 0..(Pixels - 1)
    BY <2>1 DEF IInv, Widths
  <2> QED
    BY <2>2, <2>5, <2>8, <2>9 DEF IInv
<1>3. CASE Next
  <2>1. PICK stall \in BOOLEAN, start \in BOOLEAN : Clock(start, Fsm!PsumReady(stall))
    BY <1>3 DEF Next, Tick
  <2> DEFINE rdy == Fsm!PsumReady(stall)
  <2>2. rdy = F!PsumReady(stall) /\ rdy \in BOOLEAN
    BY Sequencer DEF F!PsumReady
  <2>3. Clock(start, rdy)
    BY <2>1
  <2> HIDE DEF rdy
  <2>4. F!Clock(start, rdy) /\ Core(rdy)
    BY <2>2, <2>3, SameClock DEF Clock
  <2>5. F!Next
    BY <2>2, <2>4 DEF F!Next, F!Tick
  <2>6. F!IInv'
    BY <1>1, <2>5, Assumptions, F!InvStep
  <2>7. Lines'
    BY <2>2, <2>3, LinesStep
  <2>8. Values'
    BY <2>2, <2>3, <2>6, ValuesStep
  <2>9. Widths'
    BY <2>4, WidthsStep DEF IInv
  <2>10. refused' \in BOOLEAN /\ pipe_en_d' \in BOOLEAN /\ first' \in 0..(Pixels - 1)
    <3>1. Fsm!pipe_en(rdy) \in BOOLEAN
      BY <2>2, Sequencer DEF F!pipe_en
    <3>2. pipe_en_d' \in BOOLEAN
      BY <2>4, <3>1 DEF Core
    <3>3. refused' \in BOOLEAN
      BY <2>2, <2>3 DEF Clock, IInv
    <3>4. first' \in 0..(Pixels - 1)
      BY <1>1, <2>3, Counters DEF Clock, IInv
    <3> QED
      BY <3>2, <3>3, <3>4
  <2> QED
    BY <2>6, <2>7, <2>8, <2>9, <2>10 DEF IInv
<1> QED
  BY <1>2, <1>3

\* Sequencer, line buffers and the values under way stay together.
THEOREM CoreInvariant == Spec => []IInv
BY InvInit, InvStep, PTL DEF Spec

(***************************************************************************)
(* What leaves the array.                                                   *)
(***************************************************************************)
\* A pixel read during its own pass carries that pass's group bit.
LEMMA ReadAt ==
  ASSUME NEW ch \in Nat, NEW o \in 0..(Pixels - 1), NEW n, n = Pixels * ch + o,
         first \in 0..(Pixels - 1)
  PROVE  /\ Read(first, n).offset = Address(o)
         /\ ch = 0 \/ o >= M + 3 => Read(first, n).group = ch % 2
<1>1. Pixels \in Nat /\ Pixels >= 9 /\ Lead = M + 3 /\ M \in Nat
  BY Sizes DEF Lead
<1>2. Pixels * ch \in Nat
  BY <1>1, SMT
<1>3. (first + n) % Pixels = Address(o)
  <2> DEFINE x == first + o
             y == first + n
  <2>1. x \in Int /\ y = Pixels * ch + x
    BY <1>1, <1>2
  <2>2. ch \in Int /\ F!Pixels = Pixels
    BY Sequencer
  <2> HIDE DEF x, y
  <2>3. y % Pixels = x % Pixels
    BY <2>1, <2>2, F!SameOffset, Assumptions
  <2> QED
    BY <2>3 DEF x, y, Address
<1>4. CASE o >= M + 3
  <2> DEFINE s == o - Lead
             t == n - Lead
  <2>1. s \in 0..(Pixels - 1) /\ t = Pixels * ch + s /\ ~(n < Lead)
    BY <1>1, <1>2, <1>4
  <2>2. ch \in Int /\ Pixels >= 1
    BY <1>1
  <2> HIDE DEF s, t
  <2>3. t \div Pixels = ch
    BY <1>1, <2>1, <2>2, F!Quotient
  <2>4. (n - Lead) \div Pixels = ch
    BY <2>3 DEF t
  <2> QED
    BY <1>3, <2>1, <2>4 DEF Read
<1>5. CASE ch = 0 /\ o < M + 3
  <2>1. n = o
    <3>1. Pixels * 0 = 0
      BY <1>1, SMT
    <3> QED
      BY <1>5, <3>1
  <2>2. n < Lead /\ ch % 2 = 0
    BY <1>1, <1>5, <2>1
  <2> QED
    BY <1>3, <2>2 DEF Read
<1>6. CASE ch # 0 /\ ~(o >= M + 3)
  BY <1>3, <1>6 DEF Read
<1> QED
  BY <1>1, <1>4, <1>5, <1>6

\* What leaves belongs to the pixel that is delivered.
LEMMA Leaving ==
  ASSUME IInv, leaves
  PROVE  /\ leaving = Product(first, Delivered) /\ identity_q[3].pixel = Read(first, Delivered)
         /\ Delivered + 3 < Total =>
              identity_q[3].array = (PassOf(Delivered + 3) \div 2) % (NOCH \div 2)
<1>1. F!IInv /\ vld_d[6] /\ ~refused
  BY Sequencer DEF IInv, leaves
<1>2. Number(6) = Delivered
  BY <1>1, LeavingNumber
<1>3. Sum(6) = Product(first, Number(6)) /\ Identity(6) = Read(first, Number(6))
      /\ (Number(6) + 3 < Total =>
            identity_q[3].array = (PassOf(Number(6) + 3) \div 2) % (NOCH \div 2))
  BY <1>1 DEF IInv, Values
<1>4. Sum(6) = psum[5] /\ Identity(6) = identity_q[3].pixel
  BY DEF Sum, Identity
<1> QED
  BY <1>2, <1>3, <1>4 DEF leaving

\* The address of a neighbour: multiplier m sees the pixel the window has there.
LEMMA NeighbourRead ==
  ASSUME F!IInv, NEW m \in Neighbours
  PROVE  /\ NeighbourOffset(m) \in 0..(Pixels - 1)
         /\ Delivered + Centre - Tap(m) = Pixels * omap_ch_cnt + NeighbourOffset(m)
<1>1. /\ M \in Nat /\ M >= 3 /\ Pixels = M * M /\ Pixels \in Nat
      /\ omap_cnt \in 0..(Pixels - 1) /\ omap_ch_cnt \in Nat
  <2>1. omap_ch_cnt \in 0..(2 * NOCH - 1) /\ NOCH \in Nat
    BY Counters, Sizes
  <2> QED
    BY <2>1, Counters, Sizes
<1> DEFINE a == (8 - m) \div 3
           b == (8 - m) % 3
<1>2. m \in 0..8 /\ row + a \in 1..M /\ col + b \in 1..M
  BY DEF Neighbours
<1>3. /\ a \in 0..2 /\ b \in 0..2 /\ m \div 3 = 2 - a /\ m % 3 = 2 - b
      /\ Tap(m) = (IF m \div 3 = 0 THEN 0 ELSE IF m \div 3 = 1 THEN M ELSE 2 * M)
                    + (m % 3) + 1
      /\ Centre = M + 2
  <2>1. a = 2 - (m \div 3) /\ b = 2 - (m % 3) /\ m \div 3 \in 0..2 /\ m % 3 \in 0..2
    BY <1>2, Cell
  <2> QED
    BY <1>2, <2>1, Cell
<1>4. NeighbourOffset(m) = omap_cnt + (a - 1) * M + b - 1
  BY DEF NeighbourOffset
<1>5. row \in Int /\ col \in 0..(M - 1) /\ omap_cnt = M * row + col
  <2>1. omap_cnt = M * (omap_cnt \div M) + (omap_cnt % M)
        /\ omap_cnt \div M \in Int /\ omap_cnt % M \in 0..(M - 1)
    BY <1>1, SMT
  <2> QED
    BY <2>1 DEF row, col
<1> HIDE DEF a, b
<1>6. (a - 1) * M = IF a = 0 THEN -M ELSE IF a = 1 THEN 0 ELSE M
  BY <1>1, <1>3, SMT
<1>7. NeighbourOffset(m) \in 0..(Pixels - 1)
  <2> DEFINE hi == row + a - 1
             lo == col + b - 1
  <2>1. hi \in 0..(M - 1) /\ lo \in 0..(M - 1)
    BY <1>1, <1>2, <1>3, <1>5
  <2>2. hi * M = M * row + (a - 1) * M
    BY <1>1, <1>3, <1>5, SMT
  <2>3. NeighbourOffset(m) = hi * M + lo
    <3>1. M * row \in Int
      BY <1>1, <1>5
    <3>2. (a - 1) * M \in Int
      BY <1>1, <1>3
    <3> QED
      BY <1>1, <1>3, <1>4, <1>5, <2>2, <3>1, <3>2
  <2> HIDE DEF hi, lo
  <2>4. hi * M + lo \in 0..(M * M - 1)
    BY <1>1, <2>1, F!TwoDigits, Assumptions
  <2> QED
    BY <1>1, <2>3, <2>4
<1>8. Delivered + Centre - Tap(m) = Pixels * omap_ch_cnt + NeighbourOffset(m)
  <2>1. Delivered = Pixels * omap_ch_cnt + omap_cnt /\ Pixels * omap_ch_cnt \in Nat
    <3>1. omap_ch_cnt * Pixels = Pixels * omap_ch_cnt /\ Pixels * omap_ch_cnt \in Nat
      BY <1>1, SMT
    <3>2. F!Pixels = Pixels
      BY Sequencer
    <3> QED
      BY <3>1, <3>2 DEF Delivered, F!Delivered
  <2>2. Tap(m) = (IF a = 2 THEN 0 ELSE IF a = 1 THEN M ELSE 2 * M) + (2 - b) + 1
    BY <1>1, <1>3
  <2> QED
    BY <1>1, <1>3, <1>4, <1>6, <2>1, <2>2
<1> QED
  BY <1>7, <1>8

\* The output counters are the digits of the pixel that leaves.
LEMMA DeliveredDigits ==
  ASSUME omap_ch_cnt \in Nat, omap_cnt \in 0..(Pixels - 1)
  PROVE  Delivered = Pixels * omap_ch_cnt + omap_cnt
<1>1. omap_ch_cnt * Pixels = Pixels * omap_ch_cnt
  BY Sizes, SMT
<1>2. F!Pixels = Pixels
  BY Sequencer
<1> QED
  BY <1>1, <1>2 DEF Delivered, F!Delivered

\* The pass and the pixel that leave, with the same names as in the properties.
LEMMA LeavingParts ==
  ASSUME IInv, leaves
  PROVE  /\ DOMAIN leaving.win = Neighbours
         /\ \A m \in Neighbours : leaving.win[m] = Read(first, Delivered + Centre - Tap(m))
         /\ leaving.one = Read(first, Delivered) /\ leaving.weight = <<och % 2, group>>
<1>1. leaving = Product(first, Delivered)
  BY Leaving
<1>2. PixelOf(Delivered) = omap_cnt /\ PassOf(Delivered) = omap_ch_cnt
  BY Counters DEF IInv
<1>3. Around(PixelOf(Delivered)) = Neighbours
  BY <1>2 DEF Around, Neighbours, row, col
<1> QED
  BY <1>1, <1>2, <1>3 DEF Product, och, group

\* In every job, what leaves under a tag was computed from the tagged pixel and its
\* neighbours, counted from the address the job began to read at, each by its own
\* multiplier, with the weights of the tagged pass.
THEOREM LeavingAlwaysNamesPixel == Spec => []LeavingNamesPixel
<1>1. IInv => LeavingNamesPixel
  <2> SUFFICES ASSUME IInv, leaves PROVE LeavingNamesPixel
    BY DEF LeavingNamesPixel
  <2>1. F!IInv
    BY DEF IInv
  <2>2. first \in 0..(Pixels - 1) /\ omap_ch_cnt \in Nat /\ omap_cnt \in 0..(Pixels - 1)
    <3>1. omap_ch_cnt \in 0..(2 * NOCH - 1) /\ NOCH \in Nat
      BY <2>1, Counters, Sizes
    <3> QED
      BY <2>1, <3>1, Counters DEF IInv
  <2>3. \A m \in Neighbours : leaving.win[m].offset = Address(NeighbourOffset(m))
    <3> TAKE m \in Neighbours
    <3> DEFINE n == Delivered + Centre - Tap(m)
               o == NeighbourOffset(m)
    <3>1. o \in 0..(Pixels - 1) /\ n = Pixels * omap_ch_cnt + o
      BY <2>1, NeighbourRead
    <3>2. leaving.win[m] = Read(first, n)
      BY LeavingParts
    <3> HIDE DEF n, o
    <3>3. Read(first, n).offset = Address(o)
      BY <2>2, <3>1, ReadAt
    <3> QED
      BY <3>2, <3>3 DEF o
  <2>4. leaving.one.offset = Address(omap_cnt) /\ identity_q[3].pixel.offset = Address(omap_cnt)
    <3>1. leaving.one = Read(first, Delivered) /\ identity_q[3].pixel = Read(first, Delivered)
      BY LeavingParts, Leaving
    <3>2. Delivered = Pixels * omap_ch_cnt + omap_cnt
      BY <2>2, DeliveredDigits
    <3>3. Read(first, Delivered).offset = Address(omap_cnt)
      BY <2>2, <3>2, ReadAt
    <3> QED
      BY <3>1, <3>3
  <2> QED
    BY <2>3, <2>4, LeavingParts DEF LeavingNamesPixel
<1> QED
  BY <1>1, CoreInvariant, PTL

\* In every job, every pixel a sum is made of, and the identity beside it, comes from the
\* input channel group of the tag, but for those read ahead of their pass.
THEOREM GroupAlwaysRight == Spec => []GroupRightBeyondReadAhead
<1>1. IInv => GroupRightBeyondReadAhead
  <2> SUFFICES ASSUME IInv, leaves PROVE GroupRightBeyondReadAhead
    BY DEF GroupRightBeyondReadAhead
  <2>1. F!IInv
    BY DEF IInv
  <2>2. first \in 0..(Pixels - 1) /\ omap_ch_cnt \in Nat /\ omap_cnt \in 0..(Pixels - 1)
    <3>1. omap_ch_cnt \in 0..(2 * NOCH - 1) /\ NOCH \in Nat
      BY <2>1, Counters, Sizes
    <3> QED
      BY <2>1, <3>1, Counters DEF IInv
  <2>3. omap_ch_cnt = 0 \/ omap_cnt >= M + 3 => identity_q[3].pixel.group = group
    <3>1. identity_q[3].pixel = Read(first, Delivered)
      BY Leaving
    <3>2. Delivered = Pixels * omap_ch_cnt + omap_cnt
      BY <2>2, DeliveredDigits
    <3>3. omap_ch_cnt = 0 \/ omap_cnt >= M + 3 => Read(first, Delivered).group = omap_ch_cnt % 2
      BY <2>2, <3>2, ReadAt
    <3> QED
      BY <3>1, <3>3 DEF group
  <2>4. ASSUME NEW m \in Neighbours, omap_ch_cnt = 0 \/ NeighbourOffset(m) >= M + 3
        PROVE  leaving.win[m].group = group
    <3> DEFINE n == Delivered + Centre - Tap(m)
               o == NeighbourOffset(m)
    <3>1. o \in 0..(Pixels - 1) /\ n = Pixels * omap_ch_cnt + o
      BY <2>1, NeighbourRead
    <3>2. leaving.win[m] = Read(first, n) /\ (omap_ch_cnt = 0 \/ o >= M + 3)
      BY <2>4, LeavingParts
    <3> HIDE DEF n, o
    <3>3. Read(first, n).group = omap_ch_cnt % 2
      BY <2>2, <3>1, <3>2, ReadAt
    <3> QED
      BY <3>2, <3>3 DEF group
  <2> QED
    BY <2>3, <2>4, LeavingParts DEF GroupRightBeyondReadAhead
<1> QED
  BY <1>1, CoreInvariant, PTL

\* Three pixels on, the pass belongs to the same channel unless the channel ends there.
LEMMA ThreeOn ==
  ASSUME F!IInv, group = 0 \/ omap_cnt < Pixels - 3
  PROVE  Delivered + 3 < Total /\ PassOf(Delivered + 3) \div 2 = och
<1>1. /\ Pixels \in Nat /\ Pixels >= 9 /\ NOCH \in Nat /\ NOCH >= 2 /\ Total = (2 * NOCH) * Pixels
      /\ omap_cnt \in 0..(Pixels - 1) /\ omap_ch_cnt \in 0..(2 * NOCH - 1) /\ F!Pixels = Pixels
  BY Counters, Sizes, Sequencer
<1>2. /\ omap_ch_cnt \in Nat /\ omap_ch_cnt + 1 \in Nat
      /\ Delivered = omap_ch_cnt * Pixels + omap_cnt
  BY <1>1 DEF Delivered, F!Delivered
<1>3. ASSUME NEW c \in 0..(2 * NOCH - 1), NEW o \in 0..(Pixels - 1), Delivered + 3 = c * Pixels + o
      PROVE  Delivered + 3 < Total /\ PassOf(Delivered + 3) = c
  <2>1. c * Pixels + o \in 0..((2 * NOCH) * Pixels - 1) /\ (2 * NOCH) * Pixels \in Nat
    <3>1. 2 * NOCH \in Nat /\ 2 * NOCH >= 1 /\ Pixels >= 1
      BY <1>1
    <3> DEFINE k == 2 * NOCH
    <3>2. k \in Nat /\ k >= 1 /\ c \in 0..(k - 1)
      BY <3>1
    <3> HIDE DEF k
    <3>3. c * Pixels + o \in 0..(k * Pixels - 1) /\ k * Pixels \in Nat
      BY <1>1, <3>1, <3>2, F!TwoDigits, Assumptions
    <3> QED
      BY <3>3 DEF k
  <2> DEFINE n == Delivered + 3
  <2>2. n = Pixels * c + o /\ c \in Int /\ Pixels >= 1
    <3>1. c \in Int
      BY <1>1
    <3>2. c * Pixels = Pixels * c
      BY <1>1, <3>1, SMT
    <3> QED
      BY <1>1, <1>3, <3>1, <3>2
  <2> HIDE DEF n
  <2>3. n \div Pixels = c
    BY <1>1, <2>2, F!Quotient
  <2>4. PassOf(Delivered + 3) = c
    BY <2>3 DEF n, PassOf
  <2> QED
    BY <1>1, <1>3, <2>1, <2>4
<1>4. CASE omap_cnt < Pixels - 3
  <2>1. omap_cnt + 3 \in 0..(Pixels - 1)
    BY <1>1, <1>4
  <2>2. Delivered + 3 = omap_ch_cnt * Pixels + (omap_cnt + 3)
    <3>1. omap_ch_cnt * Pixels \in Nat
      BY <1>1, <1>2, SMT
    <3> QED
      BY <1>1, <1>2, <3>1
  <2>3. Delivered + 3 < Total /\ PassOf(Delivered + 3) = omap_ch_cnt
    BY <1>1, <1>3, <2>1, <2>2
  <2> QED
    BY <2>3 DEF och
<1>5. CASE ~(omap_cnt < Pixels - 3)
  <2>1. omap_ch_cnt % 2 = 0
    BY <1>5 DEF group
  <2>2. omap_ch_cnt + 1 \in 0..(2 * NOCH - 1)
    BY <1>1, <2>1
  <2>3. omap_cnt + 3 - Pixels \in 0..(Pixels - 1)
    BY <1>1, <1>5
  <2>4. Delivered + 3 = (omap_ch_cnt + 1) * Pixels + (omap_cnt + 3 - Pixels)
    <3>1. omap_ch_cnt * Pixels \in Nat /\ (omap_ch_cnt + 1) * Pixels = omap_ch_cnt * Pixels + Pixels
      BY <1>1, <1>2, SMT
    <3> QED
      BY <1>1, <1>2, <3>1
  <2>5. Delivered + 3 < Total /\ PassOf(Delivered + 3) = omap_ch_cnt + 1
    BY <1>3, <2>2, <2>3, <2>4
  <2>6. (omap_ch_cnt + 1) \div 2 = omap_ch_cnt \div 2
    BY <1>2, <2>1
  <2> QED
    BY <2>5, <2>6 DEF och
<1> QED
  BY <1>4, <1>5

\* The identity byte is that of the array of the tagged channel, until the last three
\* pixels of the channel.
THEOREM IdentityRightUntilChannelEnd == Spec => []IdentityUntilChannelEnd
<1>1. IInv => IdentityUntilChannelEnd
  <2> SUFFICES ASSUME IInv, leaves, group = 0 \/ omap_cnt < Pixels - 3
               PROVE  identity_q[3].array = och % (NOCH \div 2)
    BY DEF IdentityUntilChannelEnd
  <2>1. Delivered + 3 < Total /\ PassOf(Delivered + 3) \div 2 = och
    BY ThreeOn DEF IInv
  <2> QED
    BY <2>1, Leaving
<1> QED
  BY <1>1, CoreInvariant, PTL

\* In every job and whatever is refused, the line buffers hold the pixels the counters
\* and the address the job began to read at say.
THEOREM LineBuffersAlwaysInStep == Spec => []LineBuffersInStep
<1>1. IInv => LineBuffersInStep
  BY LinesNamed DEF IInv
<1> QED
  BY <1>1, CoreInvariant, PTL
==========================================================================
