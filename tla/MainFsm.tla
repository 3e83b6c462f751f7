----------------------------- MODULE MainFsm -----------------------------
(* The job controller, src/rtl/acc/main_fsm.v: load the weights of channel 0,
   load the input map, convolve; the weights of channel k + 1 are fetched while
   channel k is computed.                                                    *)
EXTENDS Naturals

CONSTANT NOCH             \* 64 in the source, whose line 125 has it as 63

VARIABLES state,          \* "idle", "wsetup", "isetup" or "conv"
          out_ch_cnt_d,   \* out_ch_cnt one clock ago
          weight_start, imap_start, conv_start, acc_done    \* pulses

vars == <<state, out_ch_cnt_d, weight_start, imap_start, conv_start, acc_done>>

Init ==
  /\ state = "idle" /\ out_ch_cnt_d = 0
  /\ weight_start = FALSE /\ imap_start = FALSE /\ conv_start = FALSE
  /\ acc_done = FALSE

Starting(acc_start)  == state = "idle" /\ acc_start
WeightsIn(weight_done) == state = "wsetup" /\ weight_done
MapIn(imap_done)     == state = "isetup" /\ imap_done

State(acc_start, weight_done, imap_done, conv_done) ==
  state' = CASE Starting(acc_start) -> "wsetup"
             [] WeightsIn(weight_done) -> "isetup"
             [] MapIn(imap_done) -> "conv"
             [] state = "conv" /\ conv_done -> "idle"
             [] OTHER -> state

\* The array moved on to another channel that is not the last one.
NextChannel(out_ch_cnt) == out_ch_cnt # out_ch_cnt_d /\ out_ch_cnt < NOCH - 1

WeightStartHeld(acc_start, imap_done, out_ch_cnt) ==
  weight_start' = (weight_start \/ Starting(acc_start) \/ MapIn(imap_done)
                                \/ NextChannel(out_ch_cnt))
WeightStart(acc_start, imap_done, out_ch_cnt) ==
  weight_start' = (~weight_start /\ \/ Starting(acc_start)
                                    \/ MapIn(imap_done)
                                    \/ NextChannel(out_ch_cnt))

weight_och_cntCurrent(out_ch_cnt) == IF state = "wsetup" THEN 0 ELSE out_ch_cnt
weight_och_cnt(out_ch_cnt) == IF state = "wsetup" THEN 0 ELSE out_ch_cnt + 1

ImapStart(weight_done) == imap_start' = (~imap_start /\ WeightsIn(weight_done))
ConvStart(imap_done)   == conv_start' = (~conv_start /\ MapIn(imap_done))
AccDone(conv_done)     == acc_done' = (~acc_done /\ conv_done)

\* One clock edge; out_ch_cnt comes from the MAC array sequencer.
Clock(acc_start, weight_done, imap_done, conv_done, out_ch_cnt) ==
  /\ State(acc_start, weight_done, imap_done, conv_done)
  /\ out_ch_cnt_d' = out_ch_cnt
  /\ WeightStart(acc_start, imap_done, out_ch_cnt)
  /\ ImapStart(weight_done) /\ ConvStart(imap_done) /\ AccDone(conv_done)
==========================================================================
