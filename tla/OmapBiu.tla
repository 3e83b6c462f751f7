----------------------------- MODULE OmapBiu -----------------------------
(* Output bus interface unit, src/rtl/acc/omap_biu.v: a pipe stage, the word
   counter its write address is made of, and the request line that holds the
   arbiter for one output map.  Addresses are words above omap_base_addr.    *)
EXTENDS Naturals

CONSTANTS MapWords,       \* words of one output map, 3136 in the source
          NOCH,           \* output maps, 64 in the source
          None

VARIABLES omap_biu2arb_cnt, receive_cnt, omap_biu2arb_req,
          out_vld, out_dat    \* omap_biu2arb_data_pipe_stage

vars == <<omap_biu2arb_cnt, receive_cnt, omap_biu2arb_req, out_vld, out_dat>>

Stage == INSTANCE PipeStage WITH CUT_READY <- FALSE, vld <- out_vld, dat <- out_dat

map_merger2omap_biu_rdy(arb_rdy) == Stage!i_rdy(arb_rdy)
omap_biu2arb_addr == omap_biu2arb_cnt

Init ==
  /\ omap_biu2arb_cnt = 0
  /\ receive_cnt = 0
  /\ omap_biu2arb_req = FALSE
  /\ Stage!Init(None)

Wrap(x, last) == IF x = last THEN 0 ELSE x + 1

CmdCntFreeRunning(arb_rdy) ==
  omap_biu2arb_cnt' = IF out_vld THEN Wrap(omap_biu2arb_cnt, NOCH * MapWords - 1)
                                 ELSE omap_biu2arb_cnt
CmdCntWrapLate(arb_rdy) ==
  omap_biu2arb_cnt' = IF out_vld /\ arb_rdy THEN Wrap(omap_biu2arb_cnt, NOCH * MapWords)
                                            ELSE omap_biu2arb_cnt
CmdCnt(arb_rdy) ==
  omap_biu2arb_cnt' = IF out_vld /\ arb_rdy THEN Wrap(omap_biu2arb_cnt, NOCH * MapWords - 1)
                                            ELSE omap_biu2arb_cnt

LastAnswer(rsp_vld) == receive_cnt = MapWords - 1 /\ rsp_vld

ReceiveCnt(rsp_vld) ==
  receive_cnt' = IF rsp_vld THEN Wrap(receive_cnt, MapWords - 1) ELSE receive_cnt

\* Raised when the second pass over a map begins, dropped with the last answer.
ReqOnWord(in_ch_cnt, rsp_vld) ==
  omap_biu2arb_req' = (~LastAnswer(rsp_vld) /\ (out_vld \/ omap_biu2arb_req))
Req(in_ch_cnt, rsp_vld) ==
  omap_biu2arb_req' = (~LastAnswer(rsp_vld) /\ (in_ch_cnt = 1 \/ omap_biu2arb_req))

\* One clock edge: i_vld and i_dat come from map_merger, arb_rdy and rsp_vld
\* from the arbiter, in_ch_cnt from the MAC array sequencer.
Clock(i_vld, i_dat, arb_rdy, rsp_vld, in_ch_cnt) ==
  /\ CmdCnt(arb_rdy)
  /\ ReceiveCnt(rsp_vld)
  /\ Req(in_ch_cnt, rsp_vld)
  /\ Stage!Clock(i_vld /\ Stage!i_rdy(arb_rdy), i_dat, arb_rdy)
==========================================================================
