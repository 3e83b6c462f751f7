---------------------------- MODULE WeightBiu ----------------------------
(* Weight bus interface unit, src/rtl/acc/weight_biu.v.  On weight_start it
   reads the 3x3 kernel of one output channel (Taps * Words words) and then its
   1x1 kernel (Words words), issuing a read per clock the arbiter grants and
   counting the answers independently.  An address is the kernel it belongs to
   and its bytes above weight3_base_addr or weight1_base_addr; it also records
   the output channel it was computed for.                                   *)
EXTENDS Naturals

CONSTANTS Taps,           \* taps of the 3x3 kernel, 9 in the source
          Words,          \* words per tap, 64 channels / 4 = 16 in the source
          None            \* the zero address

VARIABLES state,                  \* "idle", "w3" (2'b01) or "w1" (2'b10)
          cnt,                    \* reads issued for the current kernel
          weight_biu2arb_addr, weight_biu2arb_req, weight_biu2arb_vld,
          receive_cnt,            \* answers received
          receive_bit_cnt,        \* the tap the next answer belongs to
          receive_ch_cnt,         \* ... and its word
          weight_done

vars == <<state, cnt, weight_biu2arb_addr, weight_biu2arb_req, weight_biu2arb_vld,
          receive_cnt, receive_bit_cnt, receive_ch_cnt, weight_done>>

Kernel3 == Taps * Words
Total   == Kernel3 + Words

\* The first address of a channel's kernel: the channel times 8'h90 or 8'h10
\* bytes, the numbers of 32-bit WORDS a kernel has.
FirstAddr(kernel, och) ==
  [kernel |-> kernel, och |-> och, byte |-> och * (IF kernel = 3 THEN Kernel3 ELSE Words)]

Init ==
  /\ state = "idle" /\ cnt = 0
  /\ weight_biu2arb_addr = None
  /\ weight_biu2arb_req = FALSE /\ weight_biu2arb_vld = FALSE
  /\ receive_cnt = 0 /\ receive_bit_cnt = 0 /\ receive_ch_cnt = 0
  /\ weight_done = FALSE

issue(rdy) == weight_biu2arb_vld /\ rdy
Last3(rdy) == state = "w3" /\ cnt = Kernel3 - 1 /\ issue(rdy)
Last1(rdy) == state = "w1" /\ cnt = Words - 1 /\ issue(rdy)
LastAnswerLate(rsp) == receive_cnt = Total /\ rsp
LastAnswer(rsp) == receive_cnt = Total - 1 /\ rsp

State(start, rdy) ==
  state' = CASE state = "idle" /\ start -> "w3"
             [] Last3(rdy) -> "w1"
             [] Last1(rdy) -> "idle"
             [] OTHER -> state

Cnt(rdy) ==
  cnt' = CASE state = "idle" \/ Last3(rdy) \/ Last1(rdy) -> 0
           [] state # "idle" /\ issue(rdy) /\ ~Last3(rdy) /\ ~Last1(rdy) -> cnt + 1
           [] OTHER -> cnt

\* The output channel is latched for the 3x3 kernel, and looked at again when
\* the 1x1 kernel begins.
Address(start, och, rdy) ==
  weight_biu2arb_addr' =
    CASE state = "idle" /\ start -> FirstAddr(3, och)
      [] Last3(rdy) -> FirstAddr(1, och)
      [] Last1(rdy) -> None
      [] state # "idle" /\ issue(rdy) /\ ~Last3(rdy) /\ ~Last1(rdy) ->
           [weight_biu2arb_addr EXCEPT !.byte = @ + 4]
      [] OTHER -> weight_biu2arb_addr

ReqUntilIssued(start, rdy, rsp) ==
  weight_biu2arb_req' = (start \/ (weight_biu2arb_req /\ ~Last1(rdy)))
Req(start, rdy, rsp) ==
  weight_biu2arb_req' = (start \/ (weight_biu2arb_req /\ ~LastAnswer(rsp)))

Vld(start, rdy) ==
  weight_biu2arb_vld' = (~Last1(rdy) /\ (start \/ weight_biu2arb_vld))

\* Where the next answer goes: the answer counters run on their own.
Receive(rsp) ==
  /\ receive_cnt' = CASE LastAnswer(rsp) -> 0
                      [] rsp /\ ~LastAnswer(rsp) -> receive_cnt + 1
                      [] OTHER -> receive_cnt
  /\ receive_ch_cnt' = IF rsp THEN (receive_ch_cnt + 1) % Words ELSE receive_ch_cnt
  /\ receive_bit_cnt' = IF receive_cnt < Kernel3 /\ receive_ch_cnt = Words - 1 /\ rsp
                        THEN (receive_bit_cnt + 1) % Taps
                        ELSE receive_bit_cnt

weight_waddr == [one |-> receive_cnt >= Kernel3, tap |-> receive_bit_cnt,
                 line |-> receive_ch_cnt]

DoneOneLate(rsp) == weight_done' = (~weight_done /\ receive_cnt = Total /\ rsp)
Done(rsp) == weight_done' = (~weight_done /\ LastAnswer(rsp))

\* One clock edge.  och is weight_och_cnt, rdy and rsp come from the arbiter.
Clock(start, och, rdy, rsp) ==
  /\ State(start, rdy) /\ Cnt(rdy) /\ Address(start, och, rdy)
  /\ Req(start, rdy, rsp) /\ Vld(start, rdy)
  /\ Receive(rsp) /\ Done(rsp)
==========================================================================
