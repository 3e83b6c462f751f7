--------------------------- MODULE MacArrayFsm ---------------------------
(* The sequencer of the MAC array, src/rtl/acc/mac_array_fsm.v.

   The array walks an M x M input map once for every pair (output channel,
   input channel group).  A pixel enters the array in one of the zones
   conv_s0 .. conv_s8 (corners, borders, inside: which of the nine 3x3
   neighbours exist), leaves it Delay enabled clocks later, and is tagged for
   psum_acc with counters that run on the OUTPUT side.  The sequencer is
   correct when those counters always name the pixel that really leaves.

   The source has M = 56 and NOCH = 64 as literals: 54 is M - 2, 55 is M - 1,
   58 is M + 2, 3135 is M * M - 1.  One step is one rising clock edge; every
   always block of the source is one conjunct of Clock.                      *)
EXTENDS Integers, FiniteSets

CONSTANTS M,      \* side of the square map, 56 in the source
          NOCH    \* number of output channels, 64 in the source

ASSUME MapAssumption == M \in Nat /\ M >= 3
ASSUME ChannelAssumption == NOCH \in Nat /\ NOCH >= 1

VARIABLES state,          \* the FSM register
          setup_cnt,      \* pixels read ahead before the first convolution
          conv_row_cnt,   \* the pixel entering the array
          conv_col_cnt,
          in_ch_cnt,      \* the pass it belongs to
          out_ch_cnt,
          imap_cnt,       \* read pointer into the input map buffer
          omap_cnt,       \* the pixel leaving the array
          omap_ch_cnt,    \* ... and its pass, 2 * out_ch + in_ch
          conv_done,      \* one-cycle pulse to main_fsm
          vld_d           \* valid bits travelling beside the data

vars == <<state, setup_cnt, conv_row_cnt, conv_col_cnt, in_ch_cnt, out_ch_cnt,
          imap_cnt, omap_cnt, omap_ch_cnt, conv_done, vld_d>>

Pixels == M * M
Delay  == 6               \* vld_delay_dff registers in a row

Zones  == {"conv_s0", "conv_s1", "conv_s2", "conv_s3", "conv_s4", "conv_s5",
           "conv_s6", "conv_s7", "conv_s8"}
States == Zones \cup {"idle", "array_setup", "array_cool_down"}

(***************************************************************************)
(* Combinational outputs.  rdy is mac_array2psum_acc_rdy.                   *)
(***************************************************************************)
array_en == state \in Zones
pipe_en(rdy) == state # "idle" /\ rdy

imap_renFreeRunning(rdy) == state \notin {"idle", "array_cool_down"}
imap_renNoSetup(rdy) == array_en /\ pipe_en(rdy)
imap_ren(rdy) == state \notin {"idle", "array_cool_down"} /\ pipe_en(rdy)

mac_array2psum_acc_vld == vld_d[Delay]
handshake(rdy) == mac_array2psum_acc_vld /\ rdy

\* The tag that leaves with a pixel: offset in the map, which input channel
\* group, and whether out_ch is in the upper half of the channels.
HalfLate(och) == 2 * och > NOCH
Half(och) == 2 * och >= NOCH
info == [offset |-> omap_cnt, group |-> omap_ch_cnt % 2, half |-> Half(out_ch_cnt)]

weight_sel   == <<out_ch_cnt % 2, in_ch_cnt>>
imap_raddrLeaving == [group |-> omap_ch_cnt % 2, offset |-> imap_cnt]
imap_raddr   == [group |-> in_ch_cnt, offset |-> imap_cnt]

\* Enabled multipliers.  Multiplier 8 - (3 * r + c) works on the neighbour in
\* row r, column c of the 3x3 window, the centre being (1, 1).
pe_enNoRightPad ==
  CASE state \in {"conv_s0"} -> {0, 1, 3, 4}
    [] state \in {"conv_s1", "conv_s2"} -> 0..5
    [] state = "conv_s3" -> {0, 1, 3, 4, 6, 7}
    [] state \in {"conv_s4", "conv_s5"} -> 0..8
    [] state = "conv_s6" -> {3, 4, 6, 7}
    [] state \in {"conv_s7", "conv_s8"} -> 3..8
    [] OTHER -> {}
pe_en ==
  CASE state = "conv_s0" -> {0, 1, 3, 4}
    [] state = "conv_s1" -> 0..5
    [] state = "conv_s2" -> {1, 2, 4, 5}
    [] state = "conv_s3" -> {0, 1, 3, 4, 6, 7}
    [] state = "conv_s4" -> 0..8
    [] state = "conv_s5" -> {1, 2, 4, 5, 7, 8}
    [] state = "conv_s6" -> {3, 4, 6, 7}
    [] state = "conv_s7" -> 3..8
    [] state = "conv_s8" -> {4, 5, 7, 8}
    [] OTHER -> {}

(***************************************************************************)
(* Next-state function of the FSM.                                          *)
(***************************************************************************)
RowEnd    == conv_col_cnt = M - 1
MapEnd    == RowEnd /\ conv_row_cnt = M - 1
InnerRow  == conv_row_cnt > 0 /\ conv_row_cnt < M - 1
LastOut   == omap_cnt = Pixels - 1
LastMap   == omap_ch_cnt = 2 * NOCH - 1
LastPass  == out_ch_cnt = NOCH - 1 /\ in_ch_cnt = 1

CoolDownOverEarly == LastMap
CoolDownOverNever == LastOut /\ omap_ch_cnt = 2 * NOCH
CoolDownOver == LastOut /\ LastMap

InnerRowEndShort == RowEnd /\ conv_row_cnt < M - 1
InnerRowEnd == RowEnd /\ conv_row_cnt < M - 2

NextState(start, en) ==
  CASE state = "idle" /\ start -> "array_setup"
    [] state = "array_setup" /\ setup_cnt = M + 2 /\ en -> "conv_s0"
    [] state = "conv_s0" /\ conv_col_cnt = 0 /\ conv_row_cnt = 0 /\ en -> "conv_s1"
    [] state = "conv_s1" /\ conv_col_cnt = M - 2 /\ conv_row_cnt = 0 /\ en -> "conv_s2"
    [] state = "conv_s2" /\ RowEnd /\ conv_row_cnt = 0 /\ en -> "conv_s3"
    [] state = "conv_s3" /\ conv_col_cnt = 0 /\ InnerRow /\ en -> "conv_s4"
    [] state = "conv_s4" /\ conv_col_cnt = M - 2 /\ InnerRow /\ en -> "conv_s5"
    [] state = "conv_s5" /\ conv_row_cnt > 0 /\ InnerRowEnd /\ en -> "conv_s3"
    [] state = "conv_s5" /\ RowEnd /\ conv_row_cnt = M - 2 /\ en -> "conv_s6"
    [] state = "conv_s6" /\ conv_col_cnt = 0 /\ conv_row_cnt = M - 1 /\ en -> "conv_s7"
    [] state = "conv_s7" /\ conv_col_cnt = M - 2 /\ conv_row_cnt = M - 1 /\ en -> "conv_s8"
    [] state = "conv_s8" /\ MapEnd /\ ~LastPass /\ en -> "conv_s0"
    [] state = "conv_s8" /\ MapEnd /\ LastPass /\ en -> "array_cool_down"
    [] state = "array_cool_down" /\ CoolDownOver /\ en -> "idle"
    [] OTHER -> state

(***************************************************************************)
(* Registers.                                                               *)
(***************************************************************************)
WrapLate(x, last) == IF x = last + 1 THEN 0 ELSE x + 1
Wrap(x, last) == IF x = last THEN 0 ELSE x + 1

Init ==
  /\ state = "idle" /\ setup_cnt = 0
  /\ conv_row_cnt = 0 /\ conv_col_cnt = 0
  /\ in_ch_cnt = 0 /\ out_ch_cnt = 0
  /\ imap_cnt = 0
  /\ omap_cnt = 0 /\ omap_ch_cnt = 0
  /\ conv_done = FALSE
  /\ vld_d = [i \in 1..Delay |-> FALSE]

SetupCnt(en) ==
  setup_cnt' = IF state = "array_setup" /\ en THEN Wrap(setup_cnt, M + 2) ELSE setup_cnt

\* The pixel and the pass that enter the array, four nested counters.
ConvCounters(en) ==
  LET go == array_en /\ en IN
  /\ conv_col_cnt' = IF go THEN Wrap(conv_col_cnt, M - 1) ELSE conv_col_cnt
  /\ conv_row_cnt' = IF go /\ RowEnd THEN Wrap(conv_row_cnt, M - 1) ELSE conv_row_cnt
  /\ in_ch_cnt'    = IF go /\ MapEnd THEN 1 - in_ch_cnt ELSE in_ch_cnt
  /\ out_ch_cnt'   = IF go /\ MapEnd /\ in_ch_cnt = 1 THEN Wrap(out_ch_cnt, NOCH - 1)
                                                      ELSE out_ch_cnt

ImapCnt(ren) == imap_cnt' = IF ren THEN Wrap(imap_cnt, Pixels - 1) ELSE imap_cnt

\* The pixel and the pass that leave it.
OmapCountersUnstalled(rdy) ==
  /\ omap_cnt'    = IF mac_array2psum_acc_vld THEN Wrap(omap_cnt, Pixels - 1) ELSE omap_cnt
  /\ omap_ch_cnt' = IF mac_array2psum_acc_vld /\ LastOut THEN Wrap(omap_ch_cnt, 2 * NOCH - 1)
                                                         ELSE omap_ch_cnt
OmapCounters(rdy) ==
  /\ omap_cnt'    = IF handshake(rdy) THEN Wrap(omap_cnt, Pixels - 1) ELSE omap_cnt
  /\ omap_ch_cnt' = IF handshake(rdy) /\ LastOut THEN Wrap(omap_ch_cnt, 2 * NOCH - 1)
                                                 ELSE omap_ch_cnt

ConvDone(next) ==
  conv_done' = IF conv_done THEN FALSE ELSE state = "array_cool_down" /\ next = "idle"

VldDelay(en) ==
  vld_d' = IF en THEN [i \in 1..Delay |-> IF i = 1 THEN array_en ELSE vld_d[i - 1]]
                 ELSE vld_d

\* One clock edge.  start is conv_start, rdy is mac_array2psum_acc_rdy.
Clock(start, rdy) ==
  LET en == pipe_en(rdy) IN
  /\ state' = NextState(start, en)
  /\ SetupCnt(en)
  /\ ConvCounters(en)
  /\ ImapCnt(imap_ren(rdy))
  /\ OmapCounters(rdy)
  /\ ConvDone(NextState(start, en))
  /\ VldDelay(en)

(***************************************************************************)
(* The sequencer alone.  Its surroundings may pulse conv_start at any time,  *)
(* and psum_acc is always ready for the first input channel group but may    *)
(* refuse pixels of the second one (psum_acc.v:47).                          *)
(***************************************************************************)
PsumReady(stall) == omap_ch_cnt % 2 = 0 \/ ~stall

Tick(start, stall) == Clock(start, PsumReady(stall))
Next == \E start, stall \in BOOLEAN : Tick(start, stall)

Spec == Init /\ [][Next]_vars

\* psum_acc does not stall for ever: once omap_biu owns the bus it accepts a
\* word per clock (icb_master.v:158), so an unstalled edge recurs.
FairSpec == Spec /\ WF_vars(\E start \in BOOLEAN : Tick(start, FALSE))

(***************************************************************************)
(* Properties.                                                              *)
(***************************************************************************)
\* Every register stays in the range its width and its wrap value give it.
TypeOK ==
  /\ state \in States
  /\ setup_cnt \in 0..(M + 2)
  /\ conv_row_cnt \in 0..(M - 1) /\ conv_col_cnt \in 0..(M - 1)
  /\ in_ch_cnt \in 0..1 /\ out_ch_cnt \in 0..(NOCH - 1)
  /\ imap_cnt \in 0..(Pixels - 1)
  /\ omap_cnt \in 0..(Pixels - 1) /\ omap_ch_cnt \in 0..(2 * NOCH - 1)
  /\ conv_done \in BOOLEAN
  /\ vld_d \in [1..Delay -> BOOLEAN]

\* The zone the FSM is in and the (row, column) the counters are at never part:
\* the FSM has no state of its own to recover from a disagreement.
ZoneMatchesPixel ==
  LET r == conv_row_cnt
      c == conv_col_cnt IN
  /\ state = "conv_s0" => r = 0 /\ c = 0
  /\ state = "conv_s1" => r = 0 /\ c \in 1..(M - 2)
  /\ state = "conv_s2" => r = 0 /\ c = M - 1
  /\ state = "conv_s3" => r \in 1..(M - 2) /\ c = 0
  /\ state = "conv_s4" => r \in 1..(M - 2) /\ c \in 1..(M - 2)
  /\ state = "conv_s5" => r \in 1..(M - 2) /\ c = M - 1
  /\ state = "conv_s6" => r = M - 1 /\ c = 0
  /\ state = "conv_s7" => r = M - 1 /\ c \in 1..(M - 2)
  /\ state = "conv_s8" => r = M - 1 /\ c = M - 1
  /\ state \notin Zones => r = 0 /\ c = 0 /\ in_ch_cnt = 0 /\ out_ch_cnt = 0
  /\ state # "array_setup" => setup_cnt = 0

\* A multiplier is enabled exactly when its neighbour of the current pixel lies
\* inside the map, so the border of the map is padded with zeros.
Neighbour(r, c) == /\ conv_row_cnt + r \in 1..M
                   /\ conv_col_cnt + c \in 1..M
PaddingCorrect ==
  array_en => \A r, c \in 0..2 : (8 - (3 * r + c)) \in pe_en <=> Neighbour(r, c)

\* Pixels that entered, pixels that left and valid bits under way always agree,
\* so the tag counters name the pixel that leaves, whatever stalls happened.
Issued    == ((2 * out_ch_cnt + in_ch_cnt) * M + conv_row_cnt) * M + conv_col_cnt
Delivered == omap_ch_cnt * Pixels + omap_cnt
InFlight  == Cardinality({i \in 1..Delay : vld_d[i]})
TagNamesPixel == Issued = (Delivered + InFlight) % (2 * NOCH * Pixels)

\* conv_done rises only with the hand-over of the very last pixel: nothing is in
\* the array when main_fsm is told the convolution is over.
DoneMeansDrained ==
  conv_done => state = "idle" /\ Issued = 0 /\ Delivered = 0 /\ InFlight = 0

\* The read pointer into the map buffer and the pixel entering the array advance
\* together through every stall and every change of zone or pass.
Lead == (imap_raddr.offset + Pixels - (conv_row_cnt * M + conv_col_cnt)) % Pixels
ReadsInStep == [][array_en /\ array_en' => Lead' = Lead]_vars

\* The upper-half bit handed to psum_acc is that of the pixel it accompanies (comment
\* at mac_array_fsm.v:368), but for the last Delay pixels of a channel: it is taken
\* from the pixel that enters, up to Delay pixels ahead of the rest of the tag.
HalfUntilChannelEnd ==
  mac_array2psum_acc_vld /\ omap_ch_cnt % 2 = 1 /\ omap_cnt < Pixels - Delay =>
    info.half = (omap_ch_cnt \div 2 >= NOCH - NOCH \div 2)

\* A convolution that was started is reported done.
ConvolutionEnds == state = "array_setup" ~> conv_done
==========================================================================
