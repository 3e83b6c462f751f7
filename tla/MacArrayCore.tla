--------------------------- MODULE MacArrayCore ---------------------------
(* The data side of the MAC array, src/rtl/acc/mac_array_core.v with
   systolic_array.v, basic_pe.v and the two adder trees, under its sequencer
   MacArrayFsm as mac_array.v wires them.

   A value is represented by where it comes from.  A pixel is the address it was
   read from in the input map buffer; a product or a sum of products is the set
   of pixels its enabled multipliers worked on, with the weight bank and group
   they used.  All 32 systolic arrays see the same addresses, so one array
   stands for all; the identity path, which picks one of them, also records the
   pick.  A sum is right when it names the pixel the sequencer tags it with.  *)
EXTENDS Integers

CONSTANTS M, NOCH         \* as in MacArrayFsm; LINE_BUF_LEN is M

\* A map with inside, and one array at least for either half of the channels.
ASSUME CoreAssumption == M \in Nat /\ M >= 3 /\ NOCH \in Nat /\ NOCH >= 2

VARIABLES
  \* mac_array_fsm
  state, setup_cnt, conv_row_cnt, conv_col_cnt, in_ch_cnt, out_ch_cnt,
  imap_cnt, omap_cnt, omap_ch_cnt, conv_done, vld_d,
  \* imap_buf
  imap_rdata,     \* read register of the map buffer
  \* mac_array_core and systolic_array
  pipe_en_d,      \* pipe_en one clock ago: the enable of all that follows
  imap_pipe,      \* the line buffers, newest pixel first
  product,        \* the product registers of the nine multipliers and the 1x1 one
  psum,           \* the adder trees: 2 registers per array, 3 across the arrays
  identity_d,     \* the identity path inside an array
  identity_q,     \* ... and behind the selection of one array
  refused,        \* the array was refused a pixel in this job
  first           \* history: the address the job's reading began at

fsmVars  == <<state, setup_cnt, conv_row_cnt, conv_col_cnt, in_ch_cnt, out_ch_cnt,
              imap_cnt, omap_cnt, omap_ch_cnt, conv_done, vld_d>>
coreVars == <<imap_rdata, pipe_en_d, imap_pipe, product, psum, identity_d, identity_q>>
vars     == <<fsmVars, coreVars, refused, first>>

Fsm    == INSTANCE MacArrayFsm
Pixels == Fsm!Pixels

\* Registers are cleared by rst_n and an idle buffer reads as 0: Zero is that value.
Zero == [group |-> 0, offset |-> Pixels]
NoProduct == [win |-> <<>>, one |-> Zero, weight |-> <<0, 0>>]
Cells == 1..(2 * M + 3)

Init ==
  /\ Fsm!Init
  /\ imap_rdata = Zero
  /\ pipe_en_d = FALSE
  /\ imap_pipe = [k \in Cells |-> Zero]
  /\ product = NoProduct
  /\ psum = [k \in 1..5 |-> NoProduct]
  /\ identity_d = [k \in 1..4 |-> Zero]
  /\ identity_q = [k \in 1..3 |-> [pixel |-> Zero, array |-> 0]]
  /\ refused = FALSE
  /\ first = 0

\* The cell multiplier m works on: three at the head of each line buffer.
TapShort(m) == (m \div 3) * (M - 1) + (m % 3) + 1
Tap(m) == (m \div 3) * M + (m % 3) + 1
Centre == Tap(4)

\* What the multipliers compute in this clock; a disabled one yields 0.
multiplied ==
  [win    |-> [m \in Fsm!pe_en |-> imap_pipe[Tap(m)]],
   one    |-> IF Fsm!array_en THEN imap_pipe[Centre] ELSE Zero,
   weight |-> Fsm!weight_sel]

identity_selOfPass == (2 * out_ch_cnt + in_ch_cnt) % (NOCH \div 2)
identity_sel == out_ch_cnt % (NOCH \div 2)

Shifted(line, new) == [k \in DOMAIN line |-> IF k = 1 THEN new ELSE line[k - 1]]

\* The registers enabled by the delayed pipe_en.
Shift(en) ==
  /\ imap_pipe'  = IF en THEN Shifted(imap_pipe, imap_rdata) ELSE imap_pipe
  /\ psum'       = IF en THEN Shifted(psum, product) ELSE psum
  /\ identity_d' = IF en THEN Shifted(identity_d, imap_pipe[Centre - 1]) ELSE identity_d
  /\ identity_q' = IF en THEN Shifted(identity_q, [pixel |-> identity_d[4],
                                                   array |-> identity_sel])
                         ELSE identity_q

CoreUndelayed(rdy) ==
  /\ pipe_en_d' = Fsm!pipe_en(rdy)
  /\ imap_rdata' = IF Fsm!imap_ren(rdy) THEN Fsm!imap_raddr ELSE Zero
  /\ product' = multiplied
  /\ Shift(Fsm!pipe_en(rdy))

\* One clock edge.  The product registers have no enable (basic_pe.v:76).
Core(rdy) ==
  /\ pipe_en_d' = Fsm!pipe_en(rdy)
  /\ imap_rdata' = IF Fsm!imap_ren(rdy) THEN Fsm!imap_raddr ELSE Zero
  /\ product' = multiplied
  /\ Shift(pipe_en_d)

\* A job finds the read pointer where the last one left it: only rst_n clears it
\* (mac_array_fsm.v:261).
Clock(start, rdy) ==
  /\ Fsm!Clock(start, rdy)
  /\ Core(rdy)
  /\ refused' = (state # "idle" /\ (refused \/ ~rdy))
  /\ first' = IF state = "idle" THEN imap_cnt ELSE first

Tick(stall) == \E start \in BOOLEAN : Clock(start, Fsm!PsumReady(stall))

\* psum_acc may refuse a pixel of the second input group in any clock.  In the
\* accelerator it never does while a job's weights arrive within a pass over the
\* map (NeverStalled of RepvggAcc); what a refusal spoils is not claimed below.
Next == \E stall \in BOOLEAN : Tick(stall)
Spec == Init /\ [][Next]_vars

(***************************************************************************)
(* Properties.                                                              *)
(***************************************************************************)
row == omap_cnt \div M
col == omap_cnt % M

\* The multipliers that have a neighbour of the leaving pixel, and its offset;
\* multiplier 8 - (3 * r + c) takes the one in row r, column c of the window.
Neighbours == {m \in 0..8 : /\ row + ((8 - m) \div 3) \in 1..M
                            /\ col + ((8 - m) % 3) \in 1..M}
NeighbourOffset(m) == omap_cnt + (((8 - m) \div 3) - 1) * M + ((8 - m) % 3) - 1

leaving == psum[5]
leaves  == Fsm!mac_array2psum_acc_vld /\ ~refused
group   == omap_ch_cnt % 2
och     == omap_ch_cnt \div 2

\* The n-th pixel of the map for a job: the addresses count from where it began to read.
Address(n) == (first + n) % Pixels

\* What leaves the array under a tag was computed from the nine neighbours of
\* the pixel the tag names, each by its own multiplier and none beyond the
\* border, with the weights of that channel and group, and the identity beside
\* it is that pixel ("to sync with mac_array2psum_acc_data, delay 6 cycles",
\* mac_array_fsm.v:332).  In the first job after reset that is the pixel at the
\* tag's own address, in a later one the pixel as many addresses further on as
\* the jobs before it have read ahead (ReadPointerDrift of RepvggAcc).
LeavingNamesPixel ==
  leaves => /\ DOMAIN leaving.win = Neighbours
            /\ \A m \in Neighbours : leaving.win[m].offset = Address(NeighbourOffset(m))
            /\ leaving.one.offset = Address(omap_cnt)
            /\ leaving.weight = <<och % 2, group>>
            /\ identity_q[3].pixel.offset = Address(omap_cnt)

\* A sum of one input channel group is made of pixels of that group
\* (mac_array_fsm.v:369: "0: the 1st input channel group, 1: the 2nd ...").
WindowOfGroup == leaves => \A m \in DOMAIN leaving.win : leaving.win[m].group = group

\* ... which in every job holds in the first pass and, in every later one, from
\* the (M + 3)-th pixel of the pass on: the pixels before it were read ahead, by
\* array_setup's lead, with the old group bit.
GroupRightBeyondReadAhead ==
  leaves =>
    /\ \A m \in DOMAIN leaving.win :
         omap_ch_cnt = 0 \/ NeighbourOffset(m) >= M + 3 => leaving.win[m].group = group
    /\ omap_ch_cnt = 0 \/ omap_cnt >= M + 3 => identity_q[3].pixel.group = group

\* The identity byte of the second group's pass, the one a channel of the upper
\* half keeps, is taken from the array of that channel ("to sysn with psum,
\* delay 3 cycle", mac_array_core.v:94), but for the last three pixels of a
\* channel: that line delays the byte and not identity_sel, which selects it.
IdentityUntilChannelEnd ==
  leaves /\ (group = 0 \/ omap_cnt < Pixels - 3) =>
    identity_q[3].array = och % (NOCH \div 2)

\* The line buffers and the sequencer keep in step through every stall, one
\* clock apart exactly in the clock after a stall: in every job the pixel in each
\* cell that was filled since the job began is known from the counters and the
\* delayed enable.  The other cells still hold pixels of the job before.
late == IF pipe_en_d THEN 1 ELSE 0
Behind(k) == Address(conv_row_cnt * M + conv_col_cnt + M + 3 - late - k)
LineBuffersInStep ==
  Fsm!array_en => \A k \in Cells :
                    k <= Fsm!Issued + M + 3 - late => imap_pipe[k].offset = Behind(k)
===========================================================================
