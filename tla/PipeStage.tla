---------------------------- MODULE PipeStage ----------------------------
(* sirv_gnrl_pipe_stage of src/rtl/acc/gnrl_modules.v with DP = 1: one register
   between two valid/ready handshakes.  psum_acc, map_merger and omap_biu put
   one of these behind their logic, all with CUT_READY = 0, so that a full
   stage still accepts while it is popped.                                   *)
CONSTANT CUT_READY        \* a Boolean

VARIABLES vld, dat

i_rdyAlways(o_rdy) == TRUE
i_rdy(o_rdy) == ~vld \/ (~CUT_READY /\ o_rdy)

\* dat has no reset (sirv_gnrl_dffl): junk stands for its first contents.
Init(junk) == vld = FALSE /\ dat = junk

Clock(i_vld, i_dat, o_rdy) ==
  LET set == i_vld /\ i_rdy(o_rdy)
      clr == vld /\ o_rdy IN
  /\ vld' = (set \/ (vld /\ ~clr))
  /\ dat' = IF set THEN i_dat ELSE dat
==========================================================================
