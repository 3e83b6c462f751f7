------------------------- MODULE OutputPathProofs -------------------------
(* Theorems about the output path for every size of map and every number of
   output channels: the two partial sums of a word always belong together; words keep
   their order and their addresses, so that the path is an ordered channel, provided
   that the bus is never withheld with all four places full.                  *)
EXTENDS OutputPath, SequenceTheorems, TLAPS

\* What the arbiter must grant: with four words under way, psum_acc has no room
\* for the word it has already accepted (psum_acc.v:47 looks one clock too early).
BusInTime == Absorb <= 3

Total == NOCH * Pixels
Following(n) == IF n = Total - 1 THEN 0 ELSE n + 1

(***************************************************************************)
(* The inductive invariant.                                                 *)
(***************************************************************************)
Ranges ==
  /\ omap_cnt \in 0..(Pixels - 1) /\ omap_ch_cnt \in 0..(2 * NOCH - 1)
  /\ omap_biu2arb_cnt \in 0..(Total - 1)
  /\ psum_acc_vld_out \in BOOLEAN /\ p_vld \in BOOLEAN /\ m_vld \in BOOLEAN /\ o_vld \in BOOLEAN
  /\ addr_r \in 0..(Pixels - 1)
  /\ psum_buf = [o \in 0..(Pixels - 1) |-> psum_buf[o]]

\* In the second pass over a map the buffer holds the first partial sums of that
\* map; in the first pass, those stored so far.
FirstVisitsStored ==
  \A o \in 0..(Pixels - 1) :
    omap_ch_cnt % 2 = 1 \/ o < omap_cnt => psum_buf[o] = (omap_ch_cnt \div 2) * Pixels + o

\* The numbers the next place has to hold when those before it hold consecutive
\* pixels, beginning with the next address.
dueM == IF o_vld THEN Following(omap_biu2arb_cnt) ELSE omap_biu2arb_cnt
dueP == IF m_vld THEN Following(dueM) ELSE dueM
dueS == IF p_vld THEN Following(dueP) ELSE dueP
dueNext == IF psum_acc_vld_out THEN Following(dueS) ELSE dueS

Consecutive ==
  /\ o_vld => o_dat.second = omap_biu2arb_cnt
  /\ m_vld => m_dat.second = dueM
  /\ p_vld => p_dat.second = dueP
  /\ psum_acc_vld_out => data_d = dueS
  /\ SecondVisits = dueNext

\* What needs no help from the bus, and all of it.
SumInv == Ranges /\ FirstVisitsStored /\ SamePixelAdded
IInv == SumInv /\ Consecutive

(***************************************************************************)
(* Arithmetic.                                                              *)
(***************************************************************************)
\* There is at least one word, and the numbers of words and pixels fit together.
LEMMA Sizes == /\ Pixels \in Nat /\ Pixels >= 1 /\ NOCH \in Nat /\ NOCH >= 1
               /\ Total \in Nat /\ Total >= 1
<1>1. Pixels \in Nat /\ Pixels >= 1 /\ NOCH \in Nat /\ NOCH >= 1
  BY PathAssumption
<1>2. NOCH * Pixels \in Nat /\ NOCH * Pixels >= 1
  BY <1>1, SMT
<1> QED
  BY <1>1, <1>2 DEF Total

\* The word after the last is the first.
LEMMA FollowingInRange ==
  ASSUME NEW n \in 0..(Total - 1)
  PROVE  Following(n) \in 0..(Total - 1)
BY Sizes DEF Following

\* Channel and offset in it name a pixel uniquely.
LEMMA PixelInRange ==
  ASSUME NEW och \in 0..(NOCH - 1), NEW o \in 0..(Pixels - 1)
  PROVE  /\ och * Pixels + o \in 0..(Total - 1)
         /\ och * Pixels + o = Total - 1 <=> och = NOCH - 1 /\ o = Pixels - 1
<1> DEFINE rest == NOCH - 1 - och
<1>1. rest \in Nat /\ NOCH = rest + 1 + och /\ Pixels \in Nat /\ Pixels >= 1 /\ och \in Nat
      /\ o \in Nat /\ o <= Pixels - 1
  BY Sizes
<1>2. Total = rest * Pixels + Pixels + och * Pixels
  BY <1>1, SMT DEF Total
<1>3. rest * Pixels \in Nat /\ (rest # 0 => rest * Pixels >= Pixels) /\ och * Pixels \in Nat
  <2>1. rest * Pixels \in Nat /\ och * Pixels \in Nat
    BY <1>1, SMT
  <2>2. rest # 0 => rest * Pixels >= Pixels
    <3>1. SUFFICES ASSUME rest >= 1 PROVE (rest - 1) * Pixels >= 0 /\ rest * Pixels = (rest - 1) * Pixels + Pixels
      BY <1>1, <2>1
    <3> QED
      BY <1>1, <3>1, SMT
  <2> QED
    BY <2>1, <2>2
<1>4. rest = 0 => rest * Pixels = 0
  BY <1>1, SMT
<1> HIDE DEF rest
<1>5. rest = 0 <=> och = NOCH - 1
  BY <1>1, Sizes
<1> QED
  BY <1>1, <1>2, <1>3, <1>4, <1>5

\* Pass and channel of the source's counter.
LEMMA Passes ==
  ASSUME NEW ch \in 0..(2 * NOCH - 1)
  PROVE  /\ ch \div 2 \in 0..(NOCH - 1) /\ ch % 2 \in 0..1
         /\ ch = 2 * (ch \div 2) + (ch % 2)
         /\ ch # 2 * NOCH - 1 => /\ (ch + 1) % 2 = 1 - (ch % 2)
                                 /\ (ch + 1) \div 2 = (ch \div 2) + (ch % 2)
         /\ ch = 2 * NOCH - 1 => ch \div 2 = NOCH - 1 /\ ch % 2 = 1
<1>1. NOCH \in Nat /\ NOCH >= 1
  BY Sizes
<1>2. PICK h \in Nat, b \in 0..1 : ch = 2 * h + b
  <2>1. ch \in Nat
    BY <1>1
  <2>2. ch = 2 * (ch \div 2) + (ch % 2) /\ ch % 2 \in 0..1 /\ ch \div 2 \in Nat
    BY <2>1
  <2> QED
    BY <2>2
<1>3. ch \div 2 = h /\ ch % 2 = b
  BY <1>2
<1>4. h \in 0..(NOCH - 1)
  BY <1>1, <1>2
<1>5. ch # 2 * NOCH - 1 => (ch + 1) % 2 = 1 - b /\ (ch + 1) \div 2 = h + b
  BY <1>2
<1> QED
  BY <1>1, <1>2, <1>3, <1>4, <1>5

\* The number of the next word to enter, without the modulus.
LEMMA SecondVisitsValue ==
  ASSUME NEW ch \in 0..(2 * NOCH - 1), NEW cnt \in 0..(Pixels - 1)
  PROVE  LET n == ((ch \div 2) * Pixels + (ch % 2) * cnt) % (NOCH * Pixels) IN
         /\ n \in 0..(Total - 1)
         /\ ch % 2 = 1 => n = (ch \div 2) * Pixels + cnt
         /\ ch % 2 = 0 => n = (ch \div 2) * Pixels
<1> DEFINE n == (ch \div 2) * Pixels + (ch % 2) * cnt
<1>1. ch \div 2 \in 0..(NOCH - 1) /\ ch % 2 \in 0..1 /\ 0 \in 0..(Pixels - 1)
  BY Passes, Sizes
<1>2. ch % 2 = 1 => n = (ch \div 2) * Pixels + cnt
  BY <1>1
<1>3. ch % 2 = 0 => n = (ch \div 2) * Pixels + 0
  BY <1>1
<1>4. n \in 0..(Total - 1)
  BY <1>1, <1>2, <1>3, PixelInRange
<1>5. (ch \div 2) * Pixels + 0 = (ch \div 2) * Pixels
  BY <1>1, Sizes, SMT
<1> HIDE DEF n
<1>6. n % Total = n
  BY <1>4, Sizes
<1> QED
  BY <1>2, <1>3, <1>4, <1>5, <1>6 DEF n, Total

(***************************************************************************)
(* One clock edge.                                                          *)
(***************************************************************************)
\* Room in each stage, from the bus back to the array.
oRdy(arb_rdy) == ~o_vld \/ arb_rdy
mRdy(arb_rdy) == ~m_vld \/ oRdy(arb_rdy)
pRdy(arb_rdy) == ~p_vld \/ mRdy(arb_rdy)
first(vld) == vld /\ omap_ch_cnt % 2 = 0
second(vld, arb_rdy) == vld /\ omap_ch_cnt % 2 = 1 /\ pRdy(arb_rdy)

\* Every stage takes what the stage before it holds when it has room.  The word
\* behind psum_buf is not held: without room for it, it is lost.
Shifts(vld, arb_rdy) ==
  /\ o_vld' = IF oRdy(arb_rdy) THEN m_vld ELSE o_vld
  /\ o_dat' = IF oRdy(arb_rdy) /\ m_vld THEN m_dat ELSE o_dat
  /\ m_vld' = IF mRdy(arb_rdy) THEN p_vld ELSE m_vld
  /\ m_dat' = IF mRdy(arb_rdy) /\ p_vld THEN p_dat ELSE m_dat
  /\ p_vld' = IF pRdy(arb_rdy) THEN psum_acc_vld_out ELSE p_vld
  /\ p_dat' = IF pRdy(arb_rdy) /\ psum_acc_vld_out THEN Psum!psum_acc_data_out ELSE p_dat
  /\ psum_acc_vld_out' = second(vld, arb_rdy)
  /\ data_d' = IF second(vld, arb_rdy) THEN pixel ELSE data_d
  /\ addr_r' = IF second(vld, arb_rdy) THEN omap_cnt ELSE addr_r
  /\ psum_buf' = IF first(vld) THEN [psum_buf EXCEPT ![omap_cnt] = pixel] ELSE psum_buf
  /\ omap_biu2arb_cnt' = IF o_vld /\ arb_rdy THEN Following(omap_biu2arb_cnt)
                                            ELSE omap_biu2arb_cnt
  /\ omap_cnt' = IF first(vld) \/ second(vld, arb_rdy)
                 THEN IF omap_cnt = Pixels - 1 THEN 0 ELSE omap_cnt + 1 ELSE omap_cnt
  /\ omap_ch_cnt' = IF (first(vld) \/ second(vld, arb_rdy)) /\ omap_cnt = Pixels - 1
                    THEN IF omap_ch_cnt = 2 * NOCH - 1 THEN 0 ELSE omap_ch_cnt + 1
                    ELSE omap_ch_cnt

\* That word always finds room: the bus was granted in time.
Moves(vld, arb_rdy) ==
  /\ psum_acc_vld_out => pRdy(arb_rdy)
  /\ Shifts(vld, arb_rdy)

\* A clock edge, register by register, however long the bus has been withheld.
LEMMA Edge ==
  ASSUME Ranges, NEW vld \in BOOLEAN, NEW arb_rdy \in BOOLEAN, Clock(vld, arb_rdy)
  PROVE  Shifts(vld, arb_rdy)
<1>1. /\ o_vld \in BOOLEAN /\ m_vld \in BOOLEAN /\ p_vld \in BOOLEAN
      /\ psum_acc_vld_out \in BOOLEAN /\ omap_ch_cnt % 2 \in 0..1
  BY Passes DEF Ranges
<1>2. /\ omapRdy(arb_rdy) = oRdy(arb_rdy) /\ mergerRdy(arb_rdy) = mRdy(arb_rdy)
      /\ Psum!Stage!i_rdy(mergerRdy(arb_rdy)) = pRdy(arb_rdy)
  BY DEF omapRdy, mergerRdy, oRdy, mRdy, pRdy, Omap!map_merger2omap_biu_rdy, Merger!i_rdy,
     Psum!Stage!i_rdy, Omap!Stage!i_rdy
<1>3. /\ psumRdy(arb_rdy) = (omap_ch_cnt % 2 = 1 => pRdy(arb_rdy))
      /\ info.group = omap_ch_cnt % 2 /\ info.offset = omap_cnt
  BY <1>2 DEF psumRdy, Psum!psum_acc_rdy_in, info
<1>4. (vld /\ psumRdy(arb_rdy)) <=> (first(vld) \/ second(vld, arb_rdy))
  <2>1. (omap_ch_cnt % 2 = 0) <=> ~(omap_ch_cnt % 2 = 1)
    BY <1>1
  <2> QED
    BY <1>3, <2>1, Zenon DEF first, second
<1>6. /\ o_vld' = IF oRdy(arb_rdy) THEN m_vld ELSE o_vld
      /\ o_dat' = IF oRdy(arb_rdy) /\ m_vld THEN m_dat ELSE o_dat
  <2>1. Omap!Stage!Clock(m_vld /\ Omap!Stage!i_rdy(arb_rdy), m_dat, arb_rdy)
    BY DEF Clock, Omap!Clock
  <2> QED
    BY <1>1, <2>1 DEF Omap!Stage!Clock, Omap!Stage!i_rdy, oRdy
<1>7. /\ m_vld' = IF mRdy(arb_rdy) THEN p_vld ELSE m_vld
      /\ m_dat' = IF mRdy(arb_rdy) /\ p_vld THEN p_dat ELSE m_dat
  <2>1. Merger!Clock(p_vld /\ mRdy(arb_rdy), p_dat, oRdy(arb_rdy))
    BY <1>2 DEF Clock
  <2> QED
    BY <1>1, <2>1 DEF Merger!Clock, Merger!i_rdy, mRdy, oRdy
<1>8. Psum!Clock(vld, info, pixel, mRdy(arb_rdy))
  BY <1>2 DEF Clock
<1>9. /\ p_vld' = IF pRdy(arb_rdy) THEN psum_acc_vld_out ELSE p_vld
      /\ p_dat' = IF pRdy(arb_rdy) /\ psum_acc_vld_out THEN Psum!psum_acc_data_out ELSE p_dat
  <2>1. Psum!Stage!Clock(psum_acc_vld_out, Psum!psum_acc_data_out, mRdy(arb_rdy))
    BY <1>8 DEF Psum!Clock
  <2> QED
    BY <1>1, <2>1 DEF Psum!Stage!Clock, Psum!Stage!i_rdy, pRdy, mRdy, oRdy
<1>10. /\ psum_acc_vld_out' = second(vld, arb_rdy)
       /\ data_d' = IF second(vld, arb_rdy) THEN pixel ELSE data_d
       /\ addr_r' = IF second(vld, arb_rdy) THEN omap_cnt ELSE addr_r
       /\ psum_buf' = IF first(vld) THEN [psum_buf EXCEPT ![omap_cnt] = pixel] ELSE psum_buf
  <2> DEFINE hdshk == vld /\ Psum!psum_acc_rdy_in(info, mRdy(arb_rdy))
  <2>1. /\ Psum!Ram(hdshk, info, pixel) /\ Psum!Second(hdshk, info, pixel)
        /\ Psum!VldOut(hdshk, info)
    BY <1>8 DEF Psum!Clock
  <2>2. hdshk = (first(vld) \/ second(vld, arb_rdy))
    BY <1>2, <1>4 DEF psumRdy, first, second
  <2>3. /\ (hdshk /\ info.group = 1) = second(vld, arb_rdy)
        /\ (hdshk /\ info.group = 0) = first(vld)
    BY <1>1, <1>3, <2>2 DEF first, second
  <2> HIDE DEF hdshk
  <2> QED
    BY <1>3, <2>1, <2>3 DEF Psum!Ram, Psum!Second, Psum!VldOut, second
<1>11. omap_biu2arb_cnt' = IF o_vld /\ arb_rdy THEN Following(omap_biu2arb_cnt)
                                              ELSE omap_biu2arb_cnt
  <2>1. Omap!CmdCnt(arb_rdy)
    BY DEF Clock, Omap!Clock
  <2> QED
    BY <2>1 DEF Omap!CmdCnt, Omap!Wrap, Following, Total
<1>12. Source(first(vld) \/ second(vld, arb_rdy))
  BY <1>4 DEF Clock
<1> QED
  BY <1>6, <1>7, <1>9, <1>10, <1>11, <1>12 DEF Shifts, Source, Omap!Wrap

\* With at most three words under way when the bus is withheld there is room.
LEMMA RoomBehind ==
  ASSUME BusInTime, Ranges, NEW arb_rdy \in BOOLEAN, arb_rdy \/ UnderWay <= Absorb
  PROVE  psum_acc_vld_out => pRdy(arb_rdy)
<1>1. Absorb \in 0..3
  BY PathAssumption DEF BusInTime
<1> QED
  BY <1>1 DEF Ranges, UnderWay, Count, pRdy, mRdy, oRdy

(***************************************************************************)
(* Every part of the invariant is kept.                                      *)
(***************************************************************************)
\* Registers and counters stay in range.
LEMMA RangesKept ==
  ASSUME SumInv, NEW vld \in BOOLEAN, NEW arb_rdy \in BOOLEAN, Shifts(vld, arb_rdy)
  PROVE  Ranges'
<1>1. Ranges
  BY DEF SumInv
<1>2. omap_cnt' \in 0..(Pixels - 1) /\ omap_ch_cnt' \in 0..(2 * NOCH - 1)
  <2>1. omap_cnt' \in {0, omap_cnt} \/ (omap_cnt # Pixels - 1 /\ omap_cnt' = omap_cnt + 1)
    BY DEF Shifts
  <2>2. \/ omap_ch_cnt' \in {0, omap_ch_cnt}
        \/ omap_ch_cnt # 2 * NOCH - 1 /\ omap_ch_cnt' = omap_ch_cnt + 1
    BY DEF Shifts
  <2> QED
    BY <1>1, <2>1, <2>2, PathAssumption DEF Ranges
<1>3. omap_biu2arb_cnt' \in 0..(Total - 1)
  BY <1>1, FollowingInRange DEF Ranges, Shifts
<1>4. /\ psum_acc_vld_out' \in BOOLEAN /\ p_vld' \in BOOLEAN
      /\ m_vld' \in BOOLEAN /\ o_vld' \in BOOLEAN
  BY <1>1 DEF Ranges, Shifts, second, pRdy, mRdy, oRdy
<1>5. addr_r' \in 0..(Pixels - 1)
  BY <1>1 DEF Ranges, Shifts
<1>6. psum_buf' = [o \in 0..(Pixels - 1) |-> psum_buf'[o]]
  BY <1>1 DEF Ranges, Shifts
<1> QED
  BY <1>2, <1>3, <1>4, <1>5, <1>6 DEF Ranges

\* The number of the word offered is the channel's number of the next to enter.
LEMMA PixelIsNext ==
  ASSUME Ranges, omap_ch_cnt % 2 = 1
  PROVE  pixel = SecondVisits
BY SecondVisitsValue DEF pixel, SecondVisits, Ranges

\* The buffer holds the partial sums of the first visits.
LEMMA FirstVisitsKept ==
  ASSUME SumInv, NEW vld \in BOOLEAN, NEW arb_rdy \in BOOLEAN, Shifts(vld, arb_rdy)
  PROVE  FirstVisitsStored'
<1> DEFINE och == omap_ch_cnt \div 2
           par == omap_ch_cnt % 2
<1>1. /\ omap_cnt \in 0..(Pixels - 1) /\ omap_ch_cnt \in 0..(2 * NOCH - 1)
      /\ och \in 0..(NOCH - 1) /\ par \in 0..1
  BY Passes DEF SumInv, Ranges
<1>2. \A o \in 0..(Pixels - 1) : par = 1 \/ o < omap_cnt => psum_buf[o] = och * Pixels + o
  BY DEF SumInv, FirstVisitsStored
<1>3. pixel = och * Pixels + omap_cnt
  BY DEF pixel
<1>4. psum_buf = [o \in 0..(Pixels - 1) |-> psum_buf[o]]
  BY DEF SumInv, Ranges
<1>5. CASE first(vld)
  <2>1. par = 0 /\ ~second(vld, arb_rdy)
    BY <1>5 DEF first, second
  <2>2. \A o \in 0..(Pixels - 1) :
          psum_buf'[o] = IF o = omap_cnt THEN pixel ELSE psum_buf[o]
    BY <1>1, <1>4, <1>5 DEF Shifts
  <2>3. \A o \in 0..(Pixels - 1) : o <= omap_cnt => psum_buf'[o] = och * Pixels + o
    BY <1>1, <1>2, <1>3, <2>2
  <2>4. CASE omap_cnt = Pixels - 1
    <3>1. omap_ch_cnt # 2 * NOCH - 1
      BY <1>1, <2>1, Passes
    <3>2. omap_ch_cnt' = omap_ch_cnt + 1
      BY <1>5, <2>4, <3>1 DEF Shifts
    <3>3. omap_ch_cnt' \div 2 = och
      BY <1>1, <2>1, <3>1, <3>2, Passes
    <3> QED
      BY <1>1, <2>3, <2>4, <3>3, Sizes DEF FirstVisitsStored
  <2>5. CASE omap_cnt # Pixels - 1
    <3>1. omap_ch_cnt' = omap_ch_cnt /\ omap_cnt' = omap_cnt + 1
      BY <1>5, <2>5 DEF Shifts
    <3> QED
      BY <1>1, <2>1, <2>3, <3>1 DEF FirstVisitsStored
  <2> QED
    BY <2>4, <2>5
<1>6. CASE second(vld, arb_rdy)
  <2>1. par = 1 /\ ~first(vld) /\ psum_buf' = psum_buf
    BY <1>6 DEF first, second, Shifts
  <2>2. CASE omap_cnt = Pixels - 1
    <3>1. omap_cnt' = 0 /\ omap_ch_cnt' = IF omap_ch_cnt = 2 * NOCH - 1 THEN 0 ELSE omap_ch_cnt + 1
      BY <1>6, <2>2 DEF Shifts
    <3>2. omap_ch_cnt' % 2 = 0
      BY <1>1, <2>1, <3>1, Passes
    <3> QED
      BY <3>1, <3>2 DEF FirstVisitsStored
  <2>3. CASE omap_cnt # Pixels - 1
    <3>1. omap_ch_cnt' = omap_ch_cnt
      BY <1>6, <2>3 DEF Shifts
    <3> QED
      BY <1>2, <2>1, <3>1 DEF FirstVisitsStored
  <2> QED
    BY <2>2, <2>3
<1>7. CASE ~first(vld) /\ ~second(vld, arb_rdy)
  BY <1>2, <1>7 DEF Shifts, FirstVisitsStored
<1> QED
  BY <1>5, <1>6, <1>7

\* The two partial sums that meet belong to one pixel.
LEMMA SumsKept ==
  ASSUME SumInv, NEW vld \in BOOLEAN, NEW arb_rdy \in BOOLEAN, Shifts(vld, arb_rdy)
  PROVE  SamePixelAdded'
<1>1. SamePixelAdded /\ Ranges
  BY DEF SumInv
<1>2. psum_acc_vld_out' => Psum!psum_acc_data_out'.first = Psum!psum_acc_data_out'.second
  <2>1. SUFFICES ASSUME second(vld, arb_rdy) PROVE psum_buf'[addr_r'] = data_d'
    BY DEF Shifts, Psum!psum_acc_data_out
  <2>2. psum_buf' = psum_buf /\ addr_r' = omap_cnt /\ data_d' = pixel
    BY <2>1 DEF Shifts, first, second
  <2>3. psum_buf[omap_cnt] = pixel
    BY <1>1, <2>1 DEF SumInv, FirstVisitsStored, Ranges, pixel, second
  <2> QED
    BY <2>2, <2>3
<1>3. p_vld' => p_dat'.first = p_dat'.second
  BY <1>1 DEF SamePixelAdded, Shifts
<1>4. m_vld' => m_dat'.first = m_dat'.second
  BY <1>1 DEF SamePixelAdded, Shifts
<1>5. o_vld' => o_dat'.first = o_dat'.second
  BY <1>1 DEF SamePixelAdded, Shifts
<1> QED
  BY <1>2, <1>3, <1>4, <1>5 DEF SamePixelAdded

\* The next number advances with each word that enters.
LEMMA SecondVisitsMoves ==
  ASSUME IInv, NEW vld \in BOOLEAN, NEW arb_rdy \in BOOLEAN, Moves(vld, arb_rdy)
  PROVE  SecondVisits' = IF second(vld, arb_rdy) THEN Following(SecondVisits) ELSE SecondVisits
<1> DEFINE och == omap_ch_cnt \div 2
           par == omap_ch_cnt % 2
<1>1. /\ omap_cnt \in 0..(Pixels - 1) /\ omap_ch_cnt \in 0..(2 * NOCH - 1)
      /\ och \in 0..(NOCH - 1) /\ par \in 0..1 /\ Ranges
  BY Passes DEF IInv, SumInv, Ranges
<1>2. Ranges'
  BY RangesKept DEF IInv, Moves
<1>3. /\ omap_ch_cnt' % 2 = 1 => SecondVisits' = (omap_ch_cnt' \div 2) * Pixels + omap_cnt'
      /\ omap_ch_cnt' % 2 = 0 => SecondVisits' = (omap_ch_cnt' \div 2) * Pixels
  BY <1>2, SecondVisitsValue DEF SecondVisits, Ranges
<1>4. /\ par = 1 => SecondVisits = och * Pixels + omap_cnt
      /\ par = 0 => SecondVisits = och * Pixels
  BY <1>1, SecondVisitsValue DEF SecondVisits
<1>5. och * Pixels \in Nat /\ (och + 1) * Pixels = och * Pixels + Pixels /\ 0 * Pixels = 0
  BY <1>1, Sizes, SMT
<1>6. CASE first(vld)
  <2>1. par = 0 /\ ~second(vld, arb_rdy)
    BY <1>6 DEF first, second
  <2>2. CASE omap_cnt = Pixels - 1
    <3>1. omap_ch_cnt # 2 * NOCH - 1
      BY <1>1, <2>1, Passes
    <3>2. omap_cnt' = 0 /\ omap_ch_cnt' = omap_ch_cnt + 1
      BY <1>6, <2>2, <3>1 DEF Moves, Shifts
    <3>3. omap_ch_cnt' \div 2 = och /\ omap_ch_cnt' % 2 = 1
      BY <1>1, <2>1, <3>1, <3>2, Passes
    <3> QED
      BY <1>3, <1>4, <1>5, <2>1, <3>2, <3>3
  <2>3. CASE omap_cnt # Pixels - 1
    <3>1. omap_ch_cnt' = omap_ch_cnt
      BY <1>6, <2>3 DEF Moves, Shifts
    <3> QED
      BY <1>3, <1>4, <2>1, <3>1
  <2> QED
    BY <2>2, <2>3
<1>7. CASE second(vld, arb_rdy)
  <2>1. par = 1 /\ ~first(vld)
    BY <1>7 DEF first, second
  <2>2. SecondVisits = Total - 1 <=> och = NOCH - 1 /\ omap_cnt = Pixels - 1
    BY <1>1, <1>4, <2>1, PixelInRange
  <2>3. CASE omap_cnt = Pixels - 1
    <3>1. omap_cnt' = 0 /\ omap_ch_cnt' = IF omap_ch_cnt = 2 * NOCH - 1 THEN 0 ELSE omap_ch_cnt + 1
      BY <1>7, <2>3 DEF Moves, Shifts
    <3>2. CASE omap_ch_cnt = 2 * NOCH - 1
      <4>1. och = NOCH - 1 /\ omap_ch_cnt' = 0
        BY <1>1, <3>1, <3>2, Passes
      <4>2. SecondVisits' = 0
        BY <1>3, <1>5, <4>1
      <4> QED
        BY <1>7, <2>2, <2>3, <4>1, <4>2 DEF Following
    <3>3. CASE omap_ch_cnt # 2 * NOCH - 1
      <4>1. omap_ch_cnt' % 2 = 0 /\ omap_ch_cnt' \div 2 = och + 1
        BY <1>1, <2>1, <3>1, <3>3, Passes
      <4>2. SecondVisits' = och * Pixels + Pixels
        BY <1>3, <1>5, <4>1
      <4>3. och # NOCH - 1
        <5>1. omap_ch_cnt = 2 * och + par
          BY <1>1, Passes
        <5> QED
          BY <1>1, <2>1, <3>3, <5>1, Sizes
      <4> QED
        BY <1>1, <1>4, <1>5, <1>7, <2>1, <2>2, <2>3, <4>2, <4>3, Sizes DEF Following
    <3> QED
      BY <3>2, <3>3
  <2>4. CASE omap_cnt # Pixels - 1
    <3>1. omap_ch_cnt' = omap_ch_cnt /\ omap_cnt' = omap_cnt + 1
      BY <1>7, <2>4 DEF Moves, Shifts
    <3> QED
      BY <1>1, <1>3, <1>4, <1>5, <1>7, <2>1, <2>2, <2>4, <3>1 DEF Following
  <2> QED
    BY <2>3, <2>4
<1>8. CASE ~first(vld) /\ ~second(vld, arb_rdy)
  <2>1. omap_cnt' = omap_cnt /\ omap_ch_cnt' = omap_ch_cnt
    BY <1>8 DEF Moves, Shifts
  <2> QED
    BY <1>8, <2>1 DEF SecondVisits
<1> QED
  BY <1>6, <1>7, <1>8

\* The words in the three stages and the buffer's output follow each other.
LEMMA ConsecutiveKept ==
  ASSUME IInv, NEW vld \in BOOLEAN, NEW arb_rdy \in BOOLEAN, Moves(vld, arb_rdy)
  PROVE  Consecutive'
<1>1. Consecutive /\ Ranges
  BY DEF IInv, SumInv
<1>2. second(vld, arb_rdy) => pixel = SecondVisits
  BY <1>1, PixelIsNext DEF second
<1>3. SecondVisits' = IF second(vld, arb_rdy) THEN Following(SecondVisits) ELSE SecondVisits
  BY SecondVisitsMoves
<1>4. psum_acc_vld_out => p_dat'.second = data_d
  BY DEF Moves, Shifts, Psum!psum_acc_data_out
<1>5. second(vld, arb_rdy) => pRdy(arb_rdy)
  BY DEF second
<1>6. CASE oRdy(arb_rdy)
  BY <1>1, <1>2, <1>3, <1>4, <1>6 DEF Consecutive, Moves, Shifts, Ranges, mRdy, pRdy, oRdy,
     dueM, dueP, dueS, dueNext
<1>7. CASE ~oRdy(arb_rdy) /\ mRdy(arb_rdy)
  BY <1>1, <1>2, <1>3, <1>4, <1>7 DEF Consecutive, Moves, Shifts, Ranges, mRdy, pRdy, oRdy,
     dueM, dueP, dueS, dueNext
<1>8. CASE ~oRdy(arb_rdy) /\ ~mRdy(arb_rdy)
  BY <1>1, <1>2, <1>3, <1>4, <1>5, <1>8 DEF Consecutive, Moves, Shifts, Ranges, mRdy, pRdy, oRdy,
     dueM, dueP, dueS, dueNext
<1> QED
  BY <1>6, <1>7, <1>8

\* Every place is empty at first.
LEMMA PathInit == Init => IInv
<1> SUFFICES ASSUME Init PROVE IInv
  OBVIOUS
<1>1. /\ omap_cnt = 0 /\ omap_ch_cnt = 0 /\ omap_biu2arb_cnt = 0
      /\ psum_acc_vld_out = FALSE /\ p_vld = FALSE /\ m_vld = FALSE /\ o_vld = FALSE
      /\ addr_r \in 0..(Pixels - 1) /\ psum_buf = [o \in 0..(Pixels - 1) |-> None]
  BY DEF Init, Psum!Init, Psum!Stage!Init, Merger!Init, Omap!Init, Omap!Stage!Init
<1>2. Ranges
  <2>1. 0 \in 0..(Pixels - 1) /\ 0 \in 0..(2 * NOCH - 1) /\ 0 \in 0..(Total - 1)
    BY Sizes
  <2> QED
    BY <1>1, <2>1 DEF Ranges
<1>3. 0 % 2 = 0 /\ 0 \div 2 = 0 /\ 0 * Pixels = 0
  BY Sizes
<1>4. FirstVisitsStored
  BY <1>1, <1>3 DEF FirstVisitsStored
<1>5. SamePixelAdded
  BY <1>1 DEF SamePixelAdded
<1>6. SecondVisits = 0
  BY <1>1, <1>2, <1>3, SecondVisitsValue DEF SecondVisits, Ranges
<1>7. Consecutive
  BY <1>1, <1>6 DEF Consecutive, dueM, dueP, dueS, dueNext
<1> QED
  BY <1>2, <1>4, <1>5, <1>7 DEF IInv, SumInv

\* Second visits made: none before the first pixel, all but one before the last.
LEMMA VisitsBounds ==
  ASSUME Ranges
  PROVE  /\ SecondVisits \in 0..(Total - 1) /\ Total \in Nat
         /\ omap_ch_cnt = 0 /\ omap_cnt = 0 => SecondVisits = 0
         /\ omap_ch_cnt = 2 * NOCH - 1 /\ omap_cnt = Pixels - 1 => SecondVisits = Total - 1
<1>1. /\ omap_cnt \in 0..(Pixels - 1) /\ omap_ch_cnt \in 0..(2 * NOCH - 1)
      /\ Total \in Nat /\ NOCH \in Nat /\ NOCH >= 1 /\ Pixels \in Nat /\ Pixels >= 1
  BY Sizes DEF Ranges
<1>2. /\ SecondVisits \in 0..(Total - 1)
      /\ omap_ch_cnt % 2 = 1 => SecondVisits = (omap_ch_cnt \div 2) * Pixels + omap_cnt
      /\ omap_ch_cnt % 2 = 0 => SecondVisits = (omap_ch_cnt \div 2) * Pixels
  BY <1>1, SecondVisitsValue DEF SecondVisits
<1>3. 0 % 2 = 0 /\ 0 \div 2 = 0 /\ 0 * Pixels = 0
  BY <1>1
<1>4. omap_ch_cnt = 0 /\ omap_cnt = 0 => SecondVisits = 0
  BY <1>2, <1>3
<1>5. ASSUME omap_ch_cnt = 2 * NOCH - 1, omap_cnt = Pixels - 1 PROVE SecondVisits = Total - 1
  <2>1. omap_ch_cnt \div 2 = NOCH - 1 /\ omap_ch_cnt % 2 = 1
    BY <1>1, <1>5, Passes
  <2>2. SecondVisits = (NOCH - 1) * Pixels + omap_cnt
    BY <1>2, <2>1
  <2>3. NOCH - 1 \in 0..(NOCH - 1) /\ omap_cnt = Pixels - 1
    BY <1>1, <1>5
  <2>4. (NOCH - 1) * Pixels + omap_cnt = Total - 1
    BY <1>1, <2>3, PixelInRange
  <2> QED
    BY <2>2, <2>4
<1> QED
  BY <1>1, <1>2, <1>4, <1>5

\* Every step is a clock edge with the bus granted in time.
LEMMA PathEdges ==
  ASSUME BusInTime, Ranges, Next
  PROVE  \E vld, arb_rdy \in BOOLEAN : Moves(vld, arb_rdy)
<1>1. PICK vld \in BOOLEAN : Granted(vld) \/ Withheld(vld)
  BY DEF Next
<1>2. CASE Granted(vld)
  BY <1>2, Edge, RoomBehind DEF Granted, Moves
<1>3. CASE Withheld(vld)
  BY <1>3, Edge, RoomBehind DEF Withheld, Moves
<1> QED
  BY <1>1, <1>2, <1>3

\* What is known of the sums is kept by every clock edge.
LEMMA SumStep == SumInv /\ [Next]_vars => SumInv'
<1> SUFFICES ASSUME SumInv, [Next]_vars PROVE SumInv'
  OBVIOUS
<1>1. CASE Next
  <2>1. PICK vld \in BOOLEAN, arb_rdy \in BOOLEAN : Clock(vld, arb_rdy)
    BY <1>1 DEF Next, Granted, Withheld
  <2>2. Shifts(vld, arb_rdy)
    BY <2>1, Edge DEF SumInv
  <2> QED
    BY <2>2, RangesKept, FirstVisitsKept, SumsKept DEF SumInv
<1>2. CASE UNCHANGED vars
  <2> USE <1>2 DEF vars, psumVars, omapVars
  <2>1. Ranges' /\ FirstVisitsStored'
    BY DEF SumInv, Ranges, FirstVisitsStored
  <2>2. SamePixelAdded'
    BY DEF SumInv, SamePixelAdded, Psum!psum_acc_data_out
  <2> QED
    BY <2>1, <2>2 DEF SumInv
<1> QED
  BY <1>1, <1>2

\* The invariant is kept by every clock edge.
LEMMA PathStep ==
  ASSUME BusInTime
  PROVE  IInv /\ [Next]_vars => IInv'
<1> SUFFICES ASSUME IInv, [Next]_vars PROVE IInv'
  OBVIOUS
<1>1. CASE Next
  <2>1. PICK vld \in BOOLEAN, arb_rdy \in BOOLEAN : Moves(vld, arb_rdy)
    BY <1>1, PathEdges DEF IInv, SumInv
  <2>2. Consecutive'
    BY <2>1, ConsecutiveKept
  <2> QED
    BY <2>2, SumStep DEF IInv
<1>2. CASE UNCHANGED vars
  <2>1. Consecutive'
    BY <1>2 DEF IInv, Consecutive, SecondVisits, dueM, dueP, dueS, dueNext, vars, psumVars,
       omapVars
  <2> QED
    BY <2>1, SumStep DEF IInv
<1> QED
  BY <1>1, <1>2

\* The inductive invariant of the output path.
THEOREM PathInvariant == ASSUME BusInTime PROVE Spec => []IInv
<1>1. IInv /\ [Next]_vars => IInv'
  BY PathStep
<1> QED
  BY <1>1, PathInit, PTL DEF Spec

\* The two partial sums of a word belong to one pixel of one output channel,
\* whatever the array offers and however long the bus is withheld: psum_acc.v may lose
\* a word then, but never mixes two.
THEOREM SumsOfOnePixel == Spec => []SamePixelAdded
<1>1. Init => SumInv
  BY PathInit DEF IInv
<1>2. SumInv => SamePixelAdded
  BY DEF SumInv
<1> QED
  BY <1>1, <1>2, SumStep, PTL DEF Spec

\* A word on the bus carries the address of its own pixel, if the bus is granted before
\* a fourth word is under way.
THEOREM AddressOfPixel == ASSUME BusInTime PROVE Spec => []AddressNamesPixel
<1>1. IInv => AddressNamesPixel
  BY DEF IInv, SumInv, Consecutive, AddressNamesPixel, Omap!omap_biu2arb_addr
<1> QED
  BY <1>1, PathInvariant, PTL

(***************************************************************************)
(* The path is an ordered channel.                                          *)
(***************************************************************************)
\* What the first place holds is what the channel hands over next.
LEMMA FirstOut ==
  ASSUME NEW S, NEW w \in S, NEW rest \in Seq(S)
  PROVE  /\ <<w>> \o rest # <<>>
         /\ Head(<<w>> \o rest) = w
         /\ Tail(<<w>> \o rest) = rest
<1>1. <<w>> \in Seq(S) /\ Len(<<w>>) = 1 /\ <<w>>[1] = w
  OBVIOUS
<1>2. /\ <<w>> \o rest \in Seq(S) /\ Len(<<w>> \o rest) = 1 + Len(rest)
      /\ \A i \in 1..(1 + Len(rest)) :
           (<<w>> \o rest)[i] = IF i <= 1 THEN <<w>>[i] ELSE rest[i - 1]
  BY <1>1, ConcatProperties
<1>3. Len(rest) \in Nat
  OBVIOUS
<1>4. <<w>> \o rest # <<>> /\ (<<w>> \o rest)[1] = w
  BY <1>1, <1>2, <1>3
<1>5. Tail(<<w>> \o rest) = rest
  <2> DEFINE t == Tail(<<w>> \o rest)
  <2>1. /\ t \in Seq(S) /\ Len(t) = Len(rest)
        /\ \A i \in 1..Len(t) : t[i] = (<<w>> \o rest)[i + 1]
    BY <1>2, <1>3, <1>4, HeadTailProperties
  <2>2. \A i \in 1..Len(t) : t[i] = rest[i]
    BY <1>2, <1>3, <2>1
  <2> HIDE DEF t
  <2>3. t = rest
    BY <2>1, <2>2, SeqEqual
  <2> QED
    BY <2>3 DEF t
<1> QED
  BY <1>4, <1>5

\* The four places, from the bus back.
atBus    == Held(o_vld, o_dat.second)
atMerger == Held(m_vld, m_dat.second)
atPsum   == Held(p_vld, p_dat.second)
atBuf    == Held(psum_acc_vld_out, data_d)

\* Each place holds at most one word.
LEMMA Places ==
  ASSUME IInv
  PROVE  /\ atBus \in Seq(Nat) /\ atMerger \in Seq(Nat)
         /\ atPsum \in Seq(Nat) /\ atBuf \in Seq(Nat)
         /\ Len(atBus) <= 1 /\ Len(atMerger) <= 1
         /\ Len(atPsum) <= 1 /\ Len(atBuf) <= 1
<1>1. Ranges /\ Consecutive
  BY DEF IInv, SumInv
<1>2. dueM \in 0..(Total - 1)
  BY <1>1, FollowingInRange DEF Ranges, dueM
<1>3. dueP \in 0..(Total - 1)
  BY <1>2, FollowingInRange DEF dueP
<1>4. dueS \in 0..(Total - 1)
  BY <1>3, FollowingInRange DEF dueS
<1>5. /\ o_vld => o_dat.second \in Nat
      /\ m_vld => m_dat.second \in Nat
      /\ p_vld => p_dat.second \in Nat
      /\ psum_acc_vld_out => data_d \in Nat
  BY <1>1, <1>2, <1>3, <1>4 DEF Ranges, Consecutive
<1>6. atBus \in Seq(Nat) /\ Len(atBus) <= 1
  BY <1>1, <1>5 DEF atBus, atMerger, atPsum, atBuf, Held, Ranges
<1>7. atMerger \in Seq(Nat) /\ Len(atMerger) <= 1
  BY <1>1, <1>5 DEF atBus, atMerger, atPsum, atBuf, Held, Ranges
<1>8. atPsum \in Seq(Nat) /\ Len(atPsum) <= 1
  BY <1>1, <1>5 DEF atBus, atMerger, atPsum, atBuf, Held, Ranges
<1>9. atBuf \in Seq(Nat) /\ Len(atBuf) <= 1
  BY <1>1, <1>5 DEF atBus, atMerger, atPsum, atBuf, Held, Ranges
<1> QED
  BY <1>6, <1>7, <1>8, <1>9

\* The abstract queue is what the places hold, the oldest first.
LEMMA QueueOfPlaces ==
  Queue = atBus \o atMerger \o atPsum \o atBuf
BY DEF Queue, atBus, atMerger, atPsum, atBuf

\* The places after an edge: each takes over what the one before it held.
LEMMA PlacesMove ==
  ASSUME IInv, NEW vld \in BOOLEAN, NEW arb_rdy \in BOOLEAN, Moves(vld, arb_rdy)
  PROVE  /\ atBus' = IF oRdy(arb_rdy) THEN atMerger ELSE atBus
         /\ atMerger' = IF mRdy(arb_rdy) THEN atPsum ELSE atMerger
         /\ atPsum' = IF pRdy(arb_rdy) THEN atBuf ELSE atPsum
         /\ atBuf' = IF second(vld, arb_rdy) THEN <<SecondVisits>> ELSE <<>>
<1>1. atBus' = IF oRdy(arb_rdy) THEN atMerger ELSE atBus
  BY DEF Moves, Shifts, atBus, atMerger, atPsum, atBuf, Held
<1>2. atMerger' = IF mRdy(arb_rdy) THEN atPsum ELSE atMerger
  <2>1. CASE mRdy(arb_rdy)
    BY <2>1 DEF Moves, Shifts, atBus, atMerger, atPsum, atBuf, Held
  <2>2. CASE ~mRdy(arb_rdy)
    BY <2>2 DEF Moves, Shifts, atMerger, atPsum, Held
  <2> QED
    BY <2>1, <2>2
<1>3. atPsum' = IF pRdy(arb_rdy) THEN atBuf ELSE atPsum
  <2>1. psum_acc_vld_out => pRdy(arb_rdy) /\ p_dat'.second = data_d
    BY DEF Moves, Shifts, Psum!psum_acc_data_out
  <2>2. CASE pRdy(arb_rdy)
    BY <2>1, <2>2 DEF Moves, Shifts, atBus, atMerger, atPsum, atBuf, Held
  <2>3. CASE ~pRdy(arb_rdy)
    BY <2>1, <2>3 DEF Moves, Shifts, atMerger, atPsum, Held
  <2> QED
    BY <2>2, <2>3
<1>4. atBuf' = IF second(vld, arb_rdy) THEN <<SecondVisits>> ELSE <<>>
  <2>1. second(vld, arb_rdy) => data_d' = SecondVisits
    BY PixelIsNext DEF IInv, SumInv, Moves, Shifts, second
  <2> QED
    BY <2>1 DEF Moves, Shifts, atBus, atMerger, atPsum, atBuf, Held
<1> QED
  BY <1>1, <1>2, <1>3, <1>4

\* A place that has no room holds a word, one that has room and does not pass on
\* its word is empty.
LEMMA Empty ==
  ASSUME IInv, NEW vld \in BOOLEAN, NEW arb_rdy \in BOOLEAN, Moves(vld, arb_rdy)
  PROVE  /\ o_vld => atBus = <<omap_biu2arb_cnt>>
         /\ ~o_vld => atBus = <<>>
         /\ mRdy(arb_rdy) /\ ~oRdy(arb_rdy) => atMerger = <<>>
         /\ pRdy(arb_rdy) /\ ~mRdy(arb_rdy) => atPsum = <<>>
         /\ ~pRdy(arb_rdy) => atBuf = <<>> /\ ~second(vld, arb_rdy)
BY DEF IInv, SumInv, Ranges, Consecutive, Moves, Shifts, atBus, atMerger, atPsum, atBuf, Held,
   oRdy, mRdy, pRdy, second

\* Concatenation under a name, which the provers leave unexpanded.
Cat(a, b) == a \o b

\* Concatenation of word numbers: type and grouping.
LEMMA Regrouped ==
  \A a, b, c \in Seq(Nat) : /\ Cat(a, b) \in Seq(Nat)
                            /\ Cat(Cat(a, b), c) = Cat(a, Cat(b, c))
<1> TAKE a, b, c \in Seq(Nat)
<1>1. (a \o b) \o c = a \o (b \o c)
  BY ConcatAssociative
<1>2. a \o b \in Seq(Nat)
  BY ConcatProperties
<1> QED
  BY <1>1, <1>2 DEF Cat

\* The queue after an edge: at the front the word that the bus took is gone, at the
\* back the one that was offered and taken has come.
LEMMA QueueMoves ==
  ASSUME IInv, NEW vld \in BOOLEAN, NEW arb_rdy \in BOOLEAN, Moves(vld, arb_rdy)
  PROVE  /\ o_vld /\ arb_rdy => Queue # <<>> /\ Head(Queue) = omap_biu2arb_cnt
         /\ Queue' = (IF o_vld /\ arb_rdy THEN Tail(Queue) ELSE Queue)
                       \o (IF second(vld, arb_rdy) THEN <<SecondVisits>> ELSE <<>>)
<1> DEFINE A == atBus
           B == atMerger
           C == atPsum
           D == atBuf
           N == atBuf'
<1>1. A \in Seq(Nat) /\ B \in Seq(Nat) /\ C \in Seq(Nat) /\ D \in Seq(Nat)
  BY Places
<1>2. N = IF second(vld, arb_rdy) THEN <<SecondVisits>> ELSE <<>>
  BY PlacesMove
<1>3. N \in Seq(Nat)
  <2>1. SecondVisits \in 0..(Total - 1)
    BY SecondVisitsValue DEF SecondVisits, IInv, SumInv, Ranges
  <2>2. <<SecondVisits>> \in Seq(Nat) /\ <<>> \in Seq(Nat)
    BY <2>1
  <2> QED
    BY <1>2, <2>2
<1>4. Queue = ((A \o B) \o C) \o D
  BY QueueOfPlaces
<1>5. Queue' = ((A' \o B') \o C') \o N
  BY QueueOfPlaces DEF Queue, atBus, atMerger, atPsum, atBuf
<1>6. /\ A' = IF oRdy(arb_rdy) THEN B ELSE A
      /\ B' = IF mRdy(arb_rdy) THEN C ELSE B
      /\ C' = IF pRdy(arb_rdy) THEN D ELSE C
  BY PlacesMove
<1>7. /\ o_vld => A = <<omap_biu2arb_cnt>>
      /\ ~o_vld => A = <<>>
      /\ mRdy(arb_rdy) /\ ~oRdy(arb_rdy) => B = <<>>
      /\ pRdy(arb_rdy) /\ ~mRdy(arb_rdy) => C = <<>>
      /\ ~pRdy(arb_rdy) => D = <<>> /\ N = <<>>
  BY <1>2, Empty
<1>8. /\ oRdy(arb_rdy) => mRdy(arb_rdy)
      /\ mRdy(arb_rdy) => pRdy(arb_rdy)
      /\ oRdy(arb_rdy) <=> ~o_vld \/ arb_rdy
  BY DEF oRdy, mRdy, pRdy
<1>9. omap_biu2arb_cnt \in Nat
  BY Sizes DEF IInv, SumInv, Ranges
<1> HIDE DEF A, B, C, D, N
<1>10. CASE o_vld /\ arb_rdy
  <2>1. Queue = <<omap_biu2arb_cnt>> \o ((B \o C) \o D)
    <3>1. Cat(Cat(Cat(A, B), C), D) = Cat(A, Cat(Cat(B, C), D))
      BY <1>1, Regrouped
    <3>2. ((A \o B) \o C) \o D = A \o ((B \o C) \o D)
      BY <3>1 DEF Cat
    <3> QED
      BY <1>4, <1>7, <1>10, <3>2
  <2>2. (B \o C) \o D \in Seq(Nat)
    BY <1>1, ConcatProperties
  <2>3. Queue # <<>> /\ Head(Queue) = omap_biu2arb_cnt /\ Tail(Queue) = (B \o C) \o D
    BY <1>9, <2>1, <2>2, FirstOut
  <2>4. Queue' = ((B \o C) \o D) \o N
    BY <1>5, <1>6, <1>8, <1>10
  <2> QED
    BY <1>2, <1>10, <2>3, <2>4
<1>11. CASE ~(o_vld /\ arb_rdy)
  <2>1. Queue' = Queue \o N
    <3>1. CASE oRdy(arb_rdy)
      <4>1. A = <<>> /\ Queue' = ((B \o C) \o D) \o N
        BY <1>5, <1>6, <1>7, <1>8, <1>11, <3>1
      <4>2. A \o B = B
        BY <1>1, <4>1, ConcatEmptySeq
      <4> QED
        BY <1>4, <4>1, <4>2
    <3>2. CASE ~oRdy(arb_rdy) /\ mRdy(arb_rdy)
      <4>1. B = <<>> /\ Queue' = ((A \o C) \o D) \o N
        BY <1>5, <1>6, <1>7, <1>8, <3>2
      <4>2. A \o B = A
        BY <1>1, <4>1, ConcatEmptySeq
      <4> QED
        BY <1>4, <4>1, <4>2
    <3>3. CASE ~mRdy(arb_rdy) /\ pRdy(arb_rdy)
      <4>1. C = <<>> /\ Queue' = ((A \o B) \o D) \o N
        BY <1>5, <1>6, <1>7, <1>8, <3>3
      <4>2. (A \o B) \o C = A \o B
        <5>1. A \o B \in Seq(Nat)
          BY <1>1, ConcatProperties
        <5> QED
          BY <4>1, <5>1, ConcatEmptySeq
      <4> QED
        BY <1>4, <4>1, <4>2
    <3>4. CASE ~pRdy(arb_rdy)
      <4>1. D = <<>> /\ N = <<>> /\ Queue' = ((A \o B) \o C) \o N
        BY <1>5, <1>6, <1>7, <1>8, <3>4
      <4> QED
        BY <1>4, <4>1
    <3> QED
      BY <1>8, <3>1, <3>2, <3>3, <3>4
  <2> QED
    BY <1>2, <1>11, <2>1
<1> QED
  BY <1>10, <1>11

\* Four places hold at most four words.
LEMMA FourPlaces ==
  ASSUME NEW S, NEW A \in Seq(S), NEW B \in Seq(S), NEW C \in Seq(S), NEW D \in Seq(S),
         Len(A) <= 1, Len(B) <= 1, Len(C) <= 1, Len(D) <= 1
  PROVE  Len(((A \o B) \o C) \o D) <= 4
<1>1. A \o B \in Seq(S) /\ Len(A \o B) = Len(A) + Len(B)
  BY ConcatProperties
<1>2. (A \o B) \o C \in Seq(S) /\ Len((A \o B) \o C) = Len(A \o B) + Len(C)
  BY <1>1, ConcatProperties
<1>3. Len(((A \o B) \o C) \o D) = Len((A \o B) \o C) + Len(D)
  BY <1>2, ConcatProperties
<1>4. Len(A) \in Nat /\ Len(B) \in Nat /\ Len(C) \in Nat /\ Len(D) \in Nat
  OBVIOUS
<1> QED
  BY <1>1, <1>2, <1>3, <1>4

\* The queue is never longer than there are places.
LEMMA QueueBound ==
  ASSUME IInv, NEW vld \in BOOLEAN, NEW arb_rdy \in BOOLEAN, Moves(vld, arb_rdy)
  PROVE  Len(Queue') <= 4
<1>1. /\ atBus \in Seq(Nat) /\ atMerger \in Seq(Nat)
      /\ atPsum \in Seq(Nat) /\ atBuf \in Seq(Nat)
      /\ Len(atBus) <= 1 /\ Len(atMerger) <= 1
      /\ Len(atPsum) <= 1 /\ Len(atBuf) <= 1
  BY Places
<1>2. <<SecondVisits>> \in Seq(Nat) /\ Len(<<SecondVisits>>) <= 1
  <2>1. SecondVisits \in 0..(Total - 1)
    BY SecondVisitsValue DEF SecondVisits, IInv, SumInv, Ranges
  <2> QED
    BY <2>1
<1>3. <<>> \in Seq(Nat) /\ Len(<<>>) <= 1
  OBVIOUS
<1>4. /\ atBus' \in Seq(Nat) /\ atMerger' \in Seq(Nat)
      /\ atPsum' \in Seq(Nat) /\ atBuf' \in Seq(Nat)
      /\ Len(atBus') <= 1 /\ Len(atMerger') <= 1
      /\ Len(atPsum') <= 1 /\ Len(atBuf') <= 1
  BY <1>1, <1>2, <1>3, PlacesMove
<1>5. Queue' = ((atBus' \o atMerger') \o atPsum') \o atBuf'
  BY DEF Queue, atBus, atMerger, atPsum, atBuf
<1> QED
  BY <1>4, <1>5, FourPlaces

\* If the bus is granted before a fourth word is under way, psum_acc, map_merger and
\* omap_biu in a row lose, repeat and reorder no word: the three of them implement one
\* bounded queue.
THEOREM PathImplementsChannel == ASSUME BusInTime PROVE Spec => ImplementsChannel
<1>1. Init => Channel!Init
  <2> SUFFICES ASSUME Init PROVE Channel!Init
    OBVIOUS
  <2>1. IInv
    BY PathInit
  <2>2. /\ omap_biu2arb_cnt = 0 /\ psum_acc_vld_out = FALSE
        /\ p_vld = FALSE /\ m_vld = FALSE /\ o_vld = FALSE
    BY DEF Init, Psum!Init, Psum!Stage!Init, Merger!Init, Omap!Init, Omap!Stage!Init
  <2>3. SecondVisits = 0
    BY <2>1, <2>2 DEF IInv, SumInv, Consecutive, dueNext, dueS, dueP, dueM
  <2>4. Queue = <<>>
    BY <2>2 DEF Queue, Held
  <2> QED
    BY <2>2, <2>3, <2>4 DEF Channel!Init
<1>2. IInv /\ [Next]_vars => [Channel!Next]_(Channel!vars)
  <2> SUFFICES ASSUME IInv, [Next]_vars PROVE [Channel!Next]_(Channel!vars)
    OBVIOUS
  <2>1. CASE Next
    <3>1. PICK vld \in BOOLEAN, arb_rdy \in BOOLEAN : Moves(vld, arb_rdy)
      BY <2>1, PathEdges DEF IInv, SumInv
    <3> DEFINE put == second(vld, arb_rdy)
               get == o_vld /\ arb_rdy
    <3>2. put \in BOOLEAN /\ get \in BOOLEAN
      BY DEF second
    <3>3. omap_biu2arb_cnt' = IF get THEN Channel!After(omap_biu2arb_cnt) ELSE omap_biu2arb_cnt
      BY <3>1 DEF Moves, Shifts, Channel!After, Following, Total
    <3>4. SecondVisits' = IF put THEN Channel!After(SecondVisits) ELSE SecondVisits
      BY <3>1, SecondVisitsMoves DEF Channel!After, Following, Total
    <3>5. /\ get => Queue # <<>> /\ Head(Queue) = omap_biu2arb_cnt
          /\ Queue' = (IF get THEN Tail(Queue) ELSE Queue)
                        \o (IF put THEN <<SecondVisits>> ELSE <<>>)
      BY <3>1, QueueMoves
    <3>6. Len(Queue') <= 4
      BY <3>1, QueueBound
    <3> HIDE DEF put, get
    <3>7. Channel!Step(put, get)
      BY <3>3, <3>4, <3>5, <3>6 DEF Channel!Step
    <3> QED
      BY <3>2, <3>7 DEF Channel!Next
  <2>2. CASE UNCHANGED vars
    BY <2>2 DEF vars, psumVars, omapVars, Channel!vars, Queue, SecondVisits
  <2> QED
    BY <2>1, <2>2
<1> QED
  BY <1>1, <1>2, PathInvariant, PTL DEF Spec, ImplementsChannel, Channel!Spec
==========================================================================
