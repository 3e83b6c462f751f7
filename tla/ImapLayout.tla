---------------------------- MODULE ImapLayout ----------------------------
(* The way of the input map from the bus into the MAC arrays: ImapBiu writes the
   buffer, the sequencer reads it (repvgg_acc_top.v), and array i takes byte i of
   what is read (mac_array_core.v:66).  A word is represented by its number in
   the maps loaded so far; the four channels in it stay together throughout.

   The buffer is read only between two loads (MapStoredBeforeRead in RepvggAcc
   is the proof of that), but then at any place in any order.                 *)
EXTENDS Naturals

CONSTANTS BlockSize, Depth,
          Loads,          \* maps loaded in a behaviour
          MaxOutstanding, \* commands without an answer
          None

\* The eight blocks fit, and the four that are read together lie apart.
ASSUME BufAssumption ==
  /\ BlockSize \in Nat /\ Depth \in Nat \ {0}
  /\ 8 * BlockSize <= 7 * Depth
  /\ 2 * BlockSize >= Depth

ImapWords == 16 * BlockSize

VARIABLES i_state, cnt, imap_biu2arb_addr, imap_biu2arb_req, imap_biu2arb_vld,
          receive_cnt, former_bits, imap_done,
          mem_r, addr_r, sram_cs_d,
          outstanding,    \* commands the memory has still to answer
          loads,          \* maps asked for so far
          read            \* [group, offset] read in the last clock, or None

biuVars == <<i_state, cnt, imap_biu2arb_addr, imap_biu2arb_req, imap_biu2arb_vld,
             receive_cnt, former_bits, imap_done>>
bufVars == <<mem_r, addr_r, sram_cs_d>>
vars == <<biuVars, bufVars, outstanding, loads, read>>

Biu == INSTANCE ImapBiu WITH state <- i_state
Buf == INSTANCE ImapBuf

Init == Biu!Init /\ Buf!Init /\ outstanding = 0 /\ loads = 0 /\ read = None

\* Word n of a pixel in the map loaded last.
Word(offset, n) == (loads - 1) * ImapWords + 16 * offset + n

Resting == ~imap_biu2arb_req /\ ~imap_done

\* One clock of a load; the memory answers in order, when it likes.
Load == \E rdy, rsp \in BOOLEAN, start \in BOOLEAN :
  LET data == Word(0, receive_cnt) IN
  /\ rdy => outstanding < MaxOutstanding
  /\ rsp => outstanding > 0
  /\ start => Resting /\ loads < Loads
  /\ start \/ ~Resting
  /\ Biu!Clock(start, rdy, rsp, data)
  /\ Buf!Clock(Biu!imap_wen(rsp), Biu!imap_waddr, Biu!imap_wdata(data), FALSE, [group |-> 0, offset |-> 0])
  /\ outstanding' = outstanding + (IF Biu!issue(rdy) THEN 1 ELSE 0) - (IF rsp THEN 1 ELSE 0)
  /\ loads' = IF start THEN loads + 1 ELSE loads
  /\ read' = None

Read == \E group \in 0..1, offset \in 0..(BlockSize - 1) :
  LET raddr == [group |-> group, offset |-> offset] IN
  /\ loads > 0 /\ Resting
  /\ Buf!Clock(FALSE, 0, None, TRUE, raddr)
  /\ read' = raddr
  /\ UNCHANGED <<biuVars, outstanding, loads>>

Next == Load \/ Read
Spec == Init /\ [][Next]_vars

\* The line of weights the arrays of input word w (arrays 4 w to 4 w + 3) hold in
\* a group: mac_array_wlu.v hands byte q of line l to array 4 (l mod 8) + q, and
\* line[3] is the group.
weight_line(group, w) == 8 * group + w

(***************************************************************************)
(* Properties.                                                              *)
(***************************************************************************)
\* A read yields the pixel it names, of the map loaded last: the addresses the
\* bus unit writes and those the buffer reads are computed apart, from the bits of
\* a counter and by multiplication, and agree on where each pair of words is.
PairsOfPixel ==
  read # None =>
    /\ DOMAIN Buf!imap_rdata = 0..7
    /\ \A j \in 0..3 :
         {Buf!imap_rdata[2 * j], Buf!imap_rdata[2 * j + 1]} =
           {Word(read.offset, 8 * read.group + 2 * j + e) : e \in 0..1}

\* An array multiplies a channel of the map by the weight of that channel, as the
\* software's convolution does (main.c:87): the word of the map it takes has the
\* number of the line of weights it holds.
ChannelsMeetWeights ==
  read # None =>
    \A w \in 0..7 : Buf!imap_rdata[w] = Word(read.offset, weight_line(read.group, w))
===========================================================================
