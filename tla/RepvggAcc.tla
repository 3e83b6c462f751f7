---------------------------- MODULE RepvggAcc ----------------------------
(* The accelerator, src/rtl/acc/repvgg_acc_top.v: job controller, the three bus
   interface units and their arbiter, weight loading, the MAC array sequencer
   and the output path, all on one clock, with the memory behind the bus and
   the software that starts jobs.

   The memory answers accepted commands in order.  A prompt one answers every
   command in the next clock, the memory of acc_tb/driver_pkg.sv:144-164; another
   holds at most MaxOutstanding of them and lets the oldest wait at most MaxDelay
   clocks.  With MayRefuse it may also keep
   acc_icb_cmd_ready low.  Software starts a job only when the last one was
   reported done, at most Jobs times; unless RestartsEarly it also leaves the load
   that follows the last channel (main_fsm.v:125) the time to end.                                        *)
EXTENDS Naturals, Sequences

CONSTANTS M, NOCH, Taps, Words, ImapWords,    \* sizes, see the components
          MaxOutstanding, MaxDelay, MayRefuse,  \* the memory
          Jobs, RestartsEarly,                \* the software
          None

ASSUME SizesAssumption == /\ Taps \in Nat \ {0} /\ Words \in Nat \ {0}
                          /\ ImapWords \in Nat \ {0} /\ ImapWords % 2 = 0
ASSUME ArrayAssumption == /\ M \in Nat /\ M >= 3
                          /\ NOCH \in Nat \ {0}
ASSUME SystemAssumption == /\ MaxOutstanding \in Nat \ {0}
                           /\ MaxDelay \in Nat
                           /\ MayRefuse \in BOOLEAN /\ RestartsEarly \in BOOLEAN
                           /\ Jobs \in Nat

VARIABLES
  \* main_fsm
  f_state, out_ch_cnt_d, weight_start, imap_start, conv_start, acc_done,
  \* weight_biu
  w_state, w_cnt, weight_biu2arb_addr, weight_biu2arb_req, weight_biu2arb_vld,
  w_receive_cnt, receive_bit_cnt, receive_ch_cnt, weight_done,
  \* imap_biu
  i_state, i_cnt, imap_biu2arb_addr, imap_biu2arb_req, imap_biu2arb_vld,
  i_receive_cnt, former_bits, imap_done,
  \* omap_biu
  omap_biu2arb_cnt, o_receive_cnt, omap_biu2arb_req, o_vld, o_dat,
  \* icb_master
  owner,
  \* mac_array_wlu
  weight_load_sel_base, bank,
  \* mac_array_fsm
  a_state, setup_cnt, conv_row_cnt, conv_col_cnt, in_ch_cnt, out_ch_cnt,
  imap_cnt, omap_cnt, omap_ch_cnt, conv_done, vld_d,
  \* psum_acc and map_merger
  psum_acc_vld_out, data_d, identity_sel_d, addr_r, psum_buf, p_vld, p_dat,
  m_vld, m_dat,
  \* memory and software
  prompt,         \* which of the two memories this is
  pending,        \* accepted commands that have no answer yet, oldest first
  waited,         \* clocks the oldest of them has been kept waiting
  written,        \* output words the memory accepted during this job
  started, done   \* jobs started; the last one was reported done

fsmVars   == <<f_state, out_ch_cnt_d, weight_start, imap_start, conv_start, acc_done>>
wVars     == <<w_state, w_cnt, weight_biu2arb_addr, weight_biu2arb_req, weight_biu2arb_vld,
               w_receive_cnt, receive_bit_cnt, receive_ch_cnt, weight_done>>
iVars     == <<i_state, i_cnt, imap_biu2arb_addr, imap_biu2arb_req, imap_biu2arb_vld,
               i_receive_cnt, former_bits, imap_done>>
oVars     == <<omap_biu2arb_cnt, o_receive_cnt, omap_biu2arb_req, o_vld, o_dat>>
arrayVars == <<a_state, setup_cnt, conv_row_cnt, conv_col_cnt, in_ch_cnt, out_ch_cnt,
               imap_cnt, omap_cnt, omap_ch_cnt, conv_done, vld_d>>
pathVars  == <<psum_acc_vld_out, data_d, identity_sel_d, addr_r, psum_buf, p_vld, p_dat,
               m_vld, m_dat>>
envVars   == <<prompt, pending, waited, written, started, done>>
vars == <<fsmVars, wVars, iVars, oVars, owner, weight_load_sel_base, bank,
          arrayVars, pathVars, envVars>>

Fsm    == INSTANCE MainFsm WITH state <- f_state
W      == INSTANCE WeightBiu WITH state <- w_state, cnt <- w_cnt, receive_cnt <- w_receive_cnt
I      == INSTANCE ImapBiu WITH state <- i_state, cnt <- i_cnt, receive_cnt <- i_receive_cnt
Array  == INSTANCE MacArrayFsm WITH state <- a_state
O      == INSTANCE OmapBiu WITH MapWords <- Array!Pixels, receive_cnt <- o_receive_cnt,
                                out_vld <- o_vld, out_dat <- o_dat
Arb    == INSTANCE IcbMaster WITH state <- owner
Wlu    == INSTANCE MacArrayWlu
Psum   == INSTANCE PsumAcc WITH Offsets <- 0..(Array!Pixels - 1),
                                out_vld <- p_vld, out_dat <- p_dat
Merger == INSTANCE PipeStage WITH CUT_READY <- FALSE, vld <- m_vld, dat <- m_dat

Init ==
  /\ Fsm!Init /\ W!Init /\ I!Init /\ O!Init /\ Arb!Init /\ Wlu!Init
  /\ Array!Init /\ Psum!Init /\ Merger!Init(None)
  /\ addr_r = 0      \* any address would do: nothing is read before it is loaded
  /\ prompt \in BOOLEAN
  /\ pending = <<>> /\ waited = 0 /\ written = 0 /\ started = 0 /\ done = FALSE

(***************************************************************************)
(* Wires.                                                                   *)
(***************************************************************************)
omapRdy   == O!map_merger2omap_biu_rdy(Arb!rdy("omap"))
mergerRdy == Merger!i_rdy(omapRdy)
psumRdy   == Psum!psum_acc_rdy_in(Array!info, mergerRdy)

\* The pixel leaving the array, numbered in output order.
pixel == (omap_ch_cnt \div 2) * Array!Pixels + omap_cnt

cmdValid == Arb!acc_icb_cmd_valid(o_vld, weight_biu2arb_vld, imap_biu2arb_vld)
command ==
  [unit |-> owner,
   data |-> CASE owner = "omap" -> None
              [] owner = "weight" -> weight_biu2arb_addr.och
              [] owner = "imap" -> imap_biu2arb_addr]

(***************************************************************************)
(* The memory and the software.                                             *)
(***************************************************************************)
\* answer: the oldest command is answered in this clock, if the master listens.
Answered(answer) == answer /\ Arb!acc_icb_rsp_ready
Accepted(ready)  == ready /\ cmdValid

Memory(ready, answer) ==
  /\ UNCHANGED prompt
  /\ pending' = (IF Answered(answer) THEN Tail(pending) ELSE pending)
                  \o (IF Accepted(ready) THEN <<command>> ELSE <<>>)
  /\ waited' = IF pending # <<>> /\ ~answer THEN waited + 1 ELSE 0

\* Output words the memory accepted since the job was started.
Written(start, ready) ==
  written' = (IF start THEN 0 ELSE written)
               + (IF Accepted(ready) /\ ~Arb!acc_icb_cmd_read THEN 1 ELSE 0)

MayAnswer(answer) ==
  /\ answer => pending # <<>>
  /\ pending # <<>> /\ (prompt \/ Len(pending) = MaxOutstanding \/ waited = MaxDelay) => answer

WeightsAtRest == w_state = "idle" /\ ~weight_start /\ ~weight_biu2arb_req
MayStart == /\ started < Jobs
            /\ started = 0 \/ (done /\ (RestartsEarly \/ WeightsAtRest))
Software(start) ==
  /\ start => MayStart
  /\ started' = IF start THEN started + 1 ELSE started
  /\ done' = (acc_done \/ (done /\ ~start))

(***************************************************************************)
(* One clock edge of everything.                                            *)
(***************************************************************************)
Clock(start, ready, answer) ==
  LET rsp(unit) == Arb!answered(unit, answer)
      och == Fsm!weight_och_cnt(out_ch_cnt) IN
  /\ MayAnswer(answer)
  /\ Fsm!Clock(start, weight_done, imap_done, conv_done, out_ch_cnt)
  /\ W!Clock(weight_start, och, Arb!rdy("weight"), rsp("weight"))
  /\ I!Clock(imap_start, Arb!rdy("imap"), rsp("imap"),
             IF rsp("imap") THEN Head(pending).data ELSE None)
  /\ Arb!Clock(omap_biu2arb_req, weight_biu2arb_req, imap_biu2arb_req)
  /\ Wlu!Clock(rsp("weight"), W!weight_waddr,
               IF rsp("weight") THEN Head(pending).data ELSE None)
  /\ Array!Clock(conv_start, psumRdy)
  /\ Psum!Clock(Array!mac_array2psum_acc_vld, Array!info, pixel, mergerRdy)
  /\ Merger!Clock(p_vld /\ mergerRdy, p_dat, omapRdy)
  /\ O!Clock(m_vld, m_dat, Arb!rdy("omap"), rsp("omap"), in_ch_cnt)
  /\ Memory(ready, answer) /\ Written(start, ready)
  /\ Software(start)

Ready == IF MayRefuse THEN BOOLEAN ELSE {TRUE}
Next == \E start, answer \in BOOLEAN, ready \in Ready : Clock(start, ready, answer)

Spec == Init /\ [][Next]_vars

\* The memory does not keep a command waiting for ever, nor the software a job.
Served == \E start \in BOOLEAN : Clock(start, TRUE, pending # <<>>)
FairSpec == Spec /\ WF_vars(Served)

(***************************************************************************)
(* Properties.                                                              *)
(***************************************************************************)
\* The components' registers stay in range, whatever the others drive.
TypeOK ==
  /\ Array!TypeOK
  /\ f_state \in {"idle", "wsetup", "isetup", "conv"}
  /\ w_state \in {"idle", "w3", "w1"} /\ i_state \in {"idle", "run"}
  /\ owner \in {"free", "omap", "weight", "imap"}
  /\ w_cnt \in 0..(W!Kernel3 - 1) /\ w_receive_cnt \in 0..(W!Total - 1)
  /\ i_cnt \in 0..(ImapWords - 1) /\ i_receive_cnt \in 0..(ImapWords - 1)
  /\ o_receive_cnt \in 0..(Array!Pixels - 1)
  /\ omap_biu2arb_cnt \in 0..(NOCH * Array!Pixels - 1)
  /\ Len(pending) <= MaxOutstanding

\* An answer on its way belongs to the unit that owns the bus: the arbiter
\* routes by its present state and keeps no record of who asked.
AnswersReachAsker == \A k \in 1..Len(pending) : pending[k].unit = owner

\* While the array computes a channel, every buffer of one bank holds a weight
\* fetched for that channel.  That is the bank the array reads, weight_sel, if an
\* even number of loads came before the job, so in the first; else it is the other
\* bank.  A job loads NOCH + 1 times (main_fsm.v:125) and exchanges the banks each
\* time ("ping pong exchange", mac_array_wlu.v:66), while weight_sel begins every
\* job at 0: with an even NOCH every second job reads the bank that is being filled
\* for the next channel (JobsAlike).  The memory must be prompt: the exchange
\* happens once per clock while the last word of a load is awaited.
LoadsBefore == (started - 1) * (NOCH + 1)
WeightBank == LET read == Array!weight_sel[1] IN
              IF LoadsBefore % 2 = 0 THEN read ELSE 1 - read
WeightsMatchChannel ==
  prompt /\ Array!array_en => \A p \in Wlu!Places : bank[WeightBank][p] = out_ch_cnt

\* A weight is fetched from the place of its channel: 144 words of the 3x3 kernel
\* or 16 words of the 1x1 kernel per output channel (driver_pkg.sv:68 and 92).
WeightAddressOfChannel ==
  cmdValid /\ owner = "weight" =>
    weight_biu2arb_addr.byte =
      4 * (w_cnt + weight_biu2arb_addr.och *
                   (IF weight_biu2arb_addr.kernel = 3 THEN Taps * Words ELSE Words))

\* weight_start finds the weight unit at rest: no load is cut short or swallowed.
NoLoadOverrun ==
  weight_start => /\ w_state = "idle" /\ ~weight_biu2arb_vld
                  /\ ~weight_biu2arb_req /\ w_receive_cnt = 0

\* An output word on the bus is the sum of the two visits of one pixel and is
\* written to the address of that pixel.
OutputNamesPixel ==
  cmdValid /\ owner = "omap" => /\ o_dat.first = O!omap_biu2arb_addr
                                /\ o_dat.second = O!omap_biu2arb_addr

\* Pixel k of the map enters the multiplier array with pixel k of the buffer: the
\* read pointer is ahead by the M + 3 pixels read during array_setup.  That is so
\* in the first job; a job reads M + 3 pixels more than the map has and imap_cnt
\* is not reset (mac_array_fsm.v:261), so every job adds as many.
ReadPointerDrift == Array!array_en => Array!Lead = (started * (M + 3)) % Array!Pixels

\* A job computes the same whatever job ran before it, as the software's model of
\* the result does (main.c:78-98): read pointer and weight bank as in the first.
JobsAlike ==
  prompt /\ Array!array_en =>
    /\ Array!Lead = (M + 3) % Array!Pixels
    /\ \A p \in Wlu!Places : bank[Array!weight_sel[1]][p] = out_ch_cnt

\* The array is never refused a pixel: the weights of the next channel are in and
\* the output unit has the bus before the second visits begin.  The array has to
\* rely on it, for a refused pixel spoils its products (module MacArrayCore).
NeverStalled == a_state # "idle" => psumRdy

\* No word of the map is still to be stored when the array reads the buffer: it
\* reads only what is there, and the one address per SRAM that readers and writer
\* share (OR-ed together, imap_buf.v:66) has one user.
MapStoredBeforeRead ==
  Array!imap_ren(psumRdy) => i_state = "idle" /\ i_receive_cnt = 0

\* When a job is reported done, at most Trailing words are still to be written:
\* acc_done follows the last pixel into psum_acc, not the last word to the bus.
Trailing == 3
DoneNearlyDrained == acc_done => written + Trailing >= NOCH * Array!Pixels

\* Every job that was started is reported done.
JobsEnd == \A k \in 1..Jobs : started = k ~> (started = k /\ done)
==========================================================================
