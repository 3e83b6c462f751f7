----------------------------- MODULE PsumAcc -----------------------------
(* Partial-sum accumulator, src/rtl/acc/psum_acc.v.

   A pixel is computed twice, once per input channel group.  The first visit
   only writes its partial sum into the buffer; the second reads it back and
   forwards both.  A partial sum is represented by the number of the pixel it
   belongs to (out channel * pixels per map + offset), so that a word records
   WHICH two partial sums were added.                                        *)
EXTENDS Naturals

CONSTANTS Offsets,        \* addresses of the buffer, 0..3135 in the source
          None            \* contents of a register before its first load

VARIABLES psum_acc_vld_out,   \* the word built this cycle is valid
          data_d,             \* second partial sum, delayed to meet sram_dout
          identity_sel_d,
          addr_r,             \* read address register of the RAM
          psum_buf,           \* the RAM
          out_vld, out_dat    \* psum_acc2map_merger_data_pipe_stage

vars == <<psum_acc_vld_out, data_d, identity_sel_d, addr_r, psum_buf, out_vld, out_dat>>

Stage == INSTANCE PipeStage WITH CUT_READY <- FALSE, vld <- out_vld, dat <- out_dat

\* mac_array2psum_acc_rdy: only the second visit needs room downstream.
psum_acc_rdy_in(info, o_rdy) == info.group = 1 => Stage!i_rdy(o_rdy)

psum_acc_data_out ==
  [first |-> psum_buf[addr_r], second |-> data_d, half |-> identity_sel_d]

Init ==
  /\ psum_acc_vld_out = FALSE
  /\ data_d = None /\ identity_sel_d = FALSE
  /\ addr_r \in Offsets
  /\ psum_buf = [o \in Offsets |-> None]
  /\ Stage!Init(None)

\* sirv_sim_ram: a write on the first visit, a registered read on the second.
RamPolarity(hdshk, info, data) ==
  /\ psum_buf' = IF hdshk /\ info.group = 1 THEN [psum_buf EXCEPT ![info.offset] = data]
                                            ELSE psum_buf
  /\ addr_r' = IF hdshk /\ info.group = 0 THEN info.offset ELSE addr_r
Ram(hdshk, info, data) ==
  /\ psum_buf' = IF hdshk /\ info.group = 0 THEN [psum_buf EXCEPT ![info.offset] = data]
                                            ELSE psum_buf
  /\ addr_r' = IF hdshk /\ info.group = 1 THEN info.offset ELSE addr_r

Second(hdshk, info, data) ==
  LET ld_en == hdshk /\ info.group = 1 IN
  /\ data_d' = IF ld_en THEN data ELSE data_d
  /\ identity_sel_d' = IF ld_en THEN info.half ELSE identity_sel_d

VldOut(hdshk, info) == psum_acc_vld_out' = (info.group = 1 /\ hdshk)

\* One clock edge: vld, info and data come from the MAC array, o_rdy from
\* map_merger.
Clock(vld, info, data, o_rdy) ==
  LET hdshk == vld /\ psum_acc_rdy_in(info, o_rdy) IN
  /\ Ram(hdshk, info, data)
  /\ Second(hdshk, info, data)
  /\ VldOut(hdshk, info)
  /\ Stage!Clock(psum_acc_vld_out, psum_acc_data_out, o_rdy)
==========================================================================
