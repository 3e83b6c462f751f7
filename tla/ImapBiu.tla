----------------------------- MODULE ImapBiu -----------------------------
(* Input map bus interface unit, src/rtl/acc/imap_biu.v: reads ImapWords
   consecutive 32-bit words and writes them in pairs into the map buffer.  A
   word is represented by its number in the map.                             *)
EXTENDS Naturals

CONSTANTS ImapWords,      \* 56 * 56 * 64 / 4 = 16'hc400 in the source
          None

VARIABLES state,          \* "idle" or "run" (2'b01)
          cnt, imap_biu2arb_addr, imap_biu2arb_req, imap_biu2arb_vld,
          receive_cnt, former_bits, imap_done

vars == <<state, cnt, imap_biu2arb_addr, imap_biu2arb_req, imap_biu2arb_vld,
          receive_cnt, former_bits, imap_done>>

Init ==
  /\ state = "idle" /\ cnt = 0
  /\ imap_biu2arb_addr = 0
  /\ imap_biu2arb_req = FALSE /\ imap_biu2arb_vld = FALSE
  /\ receive_cnt = 0 /\ former_bits = None
  /\ imap_done = FALSE

issue(rdy) == imap_biu2arb_vld /\ rdy
LastIssue(rdy) == cnt = ImapWords - 1 /\ issue(rdy)
LastAnswer(rsp) == receive_cnt = ImapWords - 1 /\ rsp

State(start, rdy) ==
  state' = CASE state = "idle" /\ start -> "run"
             [] state = "run" /\ LastIssue(rdy) -> "idle"
             [] OTHER -> state

Cnt(rdy) ==
  cnt' = CASE state = "idle" \/ LastIssue(rdy) -> 0
           [] state = "run" /\ issue(rdy) /\ ~LastIssue(rdy) -> cnt + 1
           [] OTHER -> cnt

\* In words above imap_base_addr; the zero address after the last word.
Address(start, rdy) ==
  imap_biu2arb_addr' =
    CASE state = "idle" /\ start -> 0
      [] state = "run" /\ LastIssue(rdy) -> 0
      [] state = "run" /\ issue(rdy) /\ ~LastIssue(rdy) -> imap_biu2arb_addr + 1
      [] OTHER -> imap_biu2arb_addr

Req(start, rsp) ==
  imap_biu2arb_req' = (start \/ (imap_biu2arb_req /\ ~LastAnswer(rsp)))

Vld(start, rdy) ==
  imap_biu2arb_vld' = (~LastIssue(rdy) /\ (start \/ imap_biu2arb_vld))

ReceiveCnt(rsp) ==
  receive_cnt' = CASE LastAnswer(rsp) -> 0
                   [] rsp /\ ~LastAnswer(rsp) -> receive_cnt + 1
                   [] OTHER -> receive_cnt

\* The even word of a pair waits for the odd one.
FormerBits(rsp, data) ==
  former_bits' = IF receive_cnt % 2 = 0 /\ rsp THEN data ELSE former_bits

\* Words 2 j + 8 g and 2 j + 8 g + 1 of a pixel go to block 2 j + g of the buffer.
imap_waddrGroupHigh ==
  receive_cnt \div 16 + ((receive_cnt \div 2) % 8) * (ImapWords \div 16)
imap_waddr ==
  receive_cnt \div 16
    + (2 * ((receive_cnt \div 2) % 4) + ((receive_cnt \div 8) % 2)) * (ImapWords \div 16)
imap_wen(rsp) == receive_cnt % 2 = 1 /\ rsp
imap_wdata(data) == <<former_bits, data>>

DoneAtHalf(rsp) == imap_done' = (~imap_done /\ receive_cnt = ImapWords \div 2 - 1 /\ rsp)
Done(rsp) == imap_done' = (~imap_done /\ LastAnswer(rsp))

\* One clock edge; rdy, rsp and data come from the arbiter.
Clock(start, rdy, rsp, data) ==
  /\ State(start, rdy) /\ Cnt(rdy) /\ Address(start, rdy)
  /\ Req(start, rsp) /\ Vld(start, rdy)
  /\ ReceiveCnt(rsp) /\ FormerBits(rsp, data) /\ Done(rsp)
==========================================================================
