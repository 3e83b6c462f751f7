---------------------------- MODULE OutputPath ----------------------------
(* From the MAC array to the bus: psum_acc, map_merger and omap_biu in a row,
   as repvgg_acc_top.v wires them.  The MAC array is represented by its
   output-side counters (mac_array_fsm.v:277-300); it offers a pixel in any
   clock it likes.  The arbiter withholds the bus in any clock it likes as long
   as at most Absorb words are under way.                                    *)
EXTENDS Naturals, Sequences

CONSTANTS Pixels,         \* pixels of a map, 3136 in the source
          NOCH,           \* output channels, 64 in the source
          Absorb,         \* words under way while the bus may still be withheld
          None

ASSUME PathAssumption == /\ Pixels \in Nat \ {0}
                         /\ NOCH \in Nat \ {0}
                         /\ Absorb \in 0..4

VARIABLES omap_cnt, omap_ch_cnt,                        \* mac_array_fsm
          psum_acc_vld_out, data_d, identity_sel_d,     \* psum_acc
          addr_r, psum_buf, p_vld, p_dat,
          m_vld, m_dat,                                 \* map_merger
          omap_biu2arb_cnt, receive_cnt,                \* omap_biu
          omap_biu2arb_req, o_vld, o_dat

psumVars == <<psum_acc_vld_out, data_d, identity_sel_d, addr_r, psum_buf, p_vld, p_dat>>
omapVars == <<omap_biu2arb_cnt, receive_cnt, omap_biu2arb_req, o_vld, o_dat>>
vars == <<omap_cnt, omap_ch_cnt, psumVars, m_vld, m_dat, omapVars>>

Psum   == INSTANCE PsumAcc WITH Offsets <- 0..(Pixels - 1), out_vld <- p_vld, out_dat <- p_dat
Merger == INSTANCE PipeStage WITH CUT_READY <- FALSE, vld <- m_vld, dat <- m_dat
Omap   == INSTANCE OmapBiu WITH MapWords <- Pixels, out_vld <- o_vld, out_dat <- o_dat

\* The tag of the pixel offered, as mac_array_fsm builds it, and its number.
info  == [offset |-> omap_cnt, group |-> omap_ch_cnt % 2, half |-> FALSE]
pixel == (omap_ch_cnt \div 2) * Pixels + omap_cnt

Init ==
  /\ omap_cnt = 0 /\ omap_ch_cnt = 0
  /\ Psum!Init
  /\ Merger!Init(None)
  /\ Omap!Init

\* Ready travels back from the arbiter through the three stages in one clock.
omapRdy(arb_rdy)   == Omap!map_merger2omap_biu_rdy(arb_rdy)
mergerRdy(arb_rdy) == Merger!i_rdy(omapRdy(arb_rdy))
psumRdy(arb_rdy)   == Psum!psum_acc_rdy_in(info, mergerRdy(arb_rdy))

Count(b) == IF b THEN 1 ELSE 0
UnderWay == Count(psum_acc_vld_out) + Count(p_vld) + Count(m_vld) + Count(o_vld)

\* mac_array_fsm's output counters advance with the handshake.
Source(hdshk) ==
  /\ omap_cnt' = IF hdshk THEN Omap!Wrap(omap_cnt, Pixels - 1) ELSE omap_cnt
  /\ omap_ch_cnt' = IF hdshk /\ omap_cnt = Pixels - 1 THEN Omap!Wrap(omap_ch_cnt, 2 * NOCH - 1)
                                                      ELSE omap_ch_cnt

Clock(vld, arb_rdy) ==
  /\ Source(vld /\ psumRdy(arb_rdy))
  /\ Psum!Clock(vld, info, pixel, mergerRdy(arb_rdy))
  /\ Merger!Clock(p_vld /\ mergerRdy(arb_rdy), p_dat, omapRdy(arb_rdy))
  /\ Omap!Clock(m_vld, m_dat, arb_rdy, FALSE, 0)

Granted(vld)  == Clock(vld, TRUE)
Withheld(vld) == UnderWay <= Absorb /\ Clock(vld, FALSE)
Next == \E vld \in BOOLEAN : Granted(vld) \/ Withheld(vld)

Spec == Init /\ [][Next]_vars

(***************************************************************************)
(* Properties.                                                              *)
(***************************************************************************)
\* The two partial sums added into a word belong to the same pixel of the same
\* output channel: the buffer is never read stale nor overwritten too early.
SamePixelAdded ==
  /\ psum_acc_vld_out => Psum!psum_acc_data_out.first = Psum!psum_acc_data_out.second
  /\ p_vld => p_dat.first = p_dat.second
  /\ m_vld => m_dat.first = m_dat.second
  /\ o_vld => o_dat.first = o_dat.second

\* A word on the bus carries the address of its own pixel: the address counter
\* of omap_biu.v and the tags of mac_array_fsm.v count the same words.
AddressNamesPixel == o_vld => o_dat.second = Omap!omap_biu2arb_addr

\* The words of a stage, oldest first, as one queue.
Held(v, w) == IF v THEN <<w>> ELSE <<>>
Queue == Held(o_vld, o_dat.second) \o Held(m_vld, m_dat.second)
           \o Held(p_vld, p_dat.second) \o Held(psum_acc_vld_out, data_d)
SecondVisits ==
  ((omap_ch_cnt \div 2) * Pixels + (omap_ch_cnt % 2) * omap_cnt) % (NOCH * Pixels)

Channel == INSTANCE OrderedChannel
             WITH Total <- NOCH * Pixels, Capacity <- 4,
                  sent <- SecondVisits, q <- Queue, stored <- omap_biu2arb_cnt

\* psum_acc, map_merger and omap_biu together lose, repeat and reorder nothing.
ImplementsChannel == Channel!Spec
==========================================================================
