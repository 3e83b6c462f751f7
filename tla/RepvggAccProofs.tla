------------------------- MODULE RepvggAccProofs -------------------------
(* Theorems about the whole accelerator: for all sizes, both memories and any
   delay, what its parts promise each other without regard to time; for a memory
   that is fast enough for the map, also what rests on one unit being done before
   another begins.                                                            *)
EXTENDS RepvggAcc, SequenceTheorems, TLAPS

\* The sequencer with its theorems.
A == INSTANCE MacArrayFsmProofs WITH state <- a_state

(***************************************************************************)
(* Ranges.                                                                  *)
(***************************************************************************)
\* The 1x1 kernel has fewer words than the counter of the 3x3 kernel has values.
Counting == w_state = "w1" => w_cnt \in 0..(Words - 1)

\* The memory's queue is one.
Queued == \E S : pending \in Seq(S)

(***************************************************************************)
(* One job, one convolution.                                                *)
(***************************************************************************)
\* A job is under way, was just reported done, or the software knows that it is; the
\* array works only after the map unit reported done, and is started once for a job.
OneConvolution ==
  /\ started \in Nat
  /\ conv_start \in BOOLEAN /\ acc_done \in BOOLEAN /\ done \in BOOLEAN
  /\ f_state # "idle" => started > 0 /\ ~done /\ ~acc_done
  /\ f_state = "idle" /\ started > 0 => (done <=> ~acc_done)
  /\ started = 0 => ~done /\ ~acc_done
  /\ f_state # "conv" => a_state = "idle" /\ ~conv_start /\ ~conv_done
  /\ f_state = "conv" => \/ a_state = "idle" /\ conv_start /\ ~conv_done
                         \/ a_state = "idle" /\ ~conv_start /\ conv_done
                         \/ a_state # "idle" /\ ~conv_start /\ ~conv_done

\* Convolutions that were begun.
Begun == IF f_state \in {"wsetup", "isetup"} \/ conv_start THEN started - 1 ELSE started

\* Every convolution reads M + 3 pixels more than the map has.
Drift ==
  /\ a_state = "idle" => imap_cnt = (Begun * (M + 3)) % A!Pixels
  /\ a_state = "array_setup" => imap_cnt = ((started - 1) * (M + 3) + setup_cnt) % A!Pixels
  /\ A!array_en => imap_cnt = (started * (M + 3) + A!position) % A!Pixels
  /\ a_state = "array_cool_down" => imap_cnt = (started * (M + 3)) % A!Pixels

IInv == TypeOK /\ Counting /\ Queued /\ A!IInv /\ OneConvolution /\ Drift

(***************************************************************************)
(* The sequencer in the accelerator is the sequencer of the theorems.       *)
(***************************************************************************)
\* Its definitions agree one by one, and so does a clock edge.
LEMMA Sequencer ==
  /\ Array!Pixels = A!Pixels
  /\ Array!Init => A!Init
  /\ arrayVars = A!vars
  /\ Array!TypeOK <=> A!TypeOK
  /\ Array!array_en <=> A!array_en
  /\ Array!Lead = A!Lead
  /\ Array!info = A!info
<1>1. Array!Pixels = A!Pixels
  BY DEF Array!Pixels, A!Pixels
<1>2. Array!Init => A!Init
  BY DEF Array!Init, A!Init, Array!Delay, A!Delay
<1>3. arrayVars = A!vars
  BY DEF arrayVars, A!vars
<1>4. Array!TypeOK <=> A!TypeOK
  BY <1>1 DEF Array!TypeOK, A!TypeOK, Array!States, A!States, Array!Zones, A!Zones,
              Array!Delay, A!Delay
<1>5. Array!array_en <=> A!array_en
  BY DEF Array!array_en, A!array_en, Array!Zones, A!Zones
<1>6. Array!Lead = A!Lead
  BY <1>1 DEF Array!Lead, A!Lead, Array!imap_raddr, A!imap_raddr
<1>7. Array!info = A!info
  BY DEF Array!info, A!info, Array!Half, A!Half
<1> QED
  BY <1>1, <1>2, <1>3, <1>4, <1>5, <1>6, <1>7

\* One clock edge of it is one clock edge of the other.
LEMMA SameClock ==
  ASSUME NEW start, NEW rdy
  PROVE  Array!Clock(start, rdy) <=> A!Clock(start, rdy)
<1>1. \A en : Array!NextState(start, en) = A!NextState(start, en)
  BY DEF Array!NextState, A!NextState, Array!RowEnd, A!RowEnd, Array!InnerRow, A!InnerRow,
         Array!InnerRowEnd, A!InnerRowEnd, Array!MapEnd, A!MapEnd, Array!LastPass, A!LastPass,
         Array!CoolDownOver, A!CoolDownOver, Array!LastOut, A!LastOut, Array!LastMap, A!LastMap,
         Array!Pixels, A!Pixels
<1>2. \A en : Array!SetupCnt(en) <=> A!SetupCnt(en)
  BY DEF Array!SetupCnt, A!SetupCnt, Array!Wrap, A!Wrap
<1>3. \A en : Array!ConvCounters(en) <=> A!ConvCounters(en)
  BY DEF Array!ConvCounters, A!ConvCounters, Array!Wrap, A!Wrap, Array!RowEnd, A!RowEnd,
         Array!MapEnd, A!MapEnd, Array!array_en, A!array_en, Array!Zones, A!Zones
<1>4. \A ren : Array!ImapCnt(ren) <=> A!ImapCnt(ren)
  BY DEF Array!ImapCnt, A!ImapCnt, Array!Wrap, A!Wrap, Array!Pixels, A!Pixels
<1>5. Array!OmapCounters(rdy) <=> A!OmapCounters(rdy)
  BY DEF Array!OmapCounters, A!OmapCounters, Array!Wrap, A!Wrap, Array!Pixels, A!Pixels,
         Array!handshake, A!handshake, Array!mac_array2psum_acc_vld, A!mac_array2psum_acc_vld,
         Array!Delay, A!Delay, Array!LastOut, A!LastOut
<1>6. \A next : Array!ConvDone(next) <=> A!ConvDone(next)
  BY DEF Array!ConvDone, A!ConvDone
<1>7. \A en : Array!VldDelay(en) <=> A!VldDelay(en)
  BY DEF Array!VldDelay, A!VldDelay, Array!Delay, A!Delay, Array!array_en, A!array_en,
         Array!Zones, A!Zones
<1>8. (Array!pipe_en(rdy) = A!pipe_en(rdy)) /\ (Array!imap_ren(rdy) = A!imap_ren(rdy))
  BY DEF Array!pipe_en, A!pipe_en, Array!imap_ren, A!imap_ren
<1> QED
  BY <1>1, <1>2, <1>3, <1>4, <1>5, <1>6, <1>7, <1>8 DEF Array!Clock, A!Clock

\* The theorems about the sequencer assume what is assumed here.
LEMMA Assumptions == A!MapAssumption /\ A!ChannelAssumption
BY ArrayAssumption DEF A!MapAssumption, A!ChannelAssumption

\* The sizes.
LEMMA Sizes ==
  /\ M \in Nat /\ M >= 3 /\ NOCH \in Nat /\ NOCH >= 1
  /\ Taps \in Nat /\ Taps >= 1 /\ Words \in Nat /\ Words >= 1
  /\ ImapWords \in Nat /\ ImapWords >= 1
  /\ MaxOutstanding \in Nat /\ MaxOutstanding >= 1
  /\ A!Pixels \in Nat /\ A!Pixels >= 9
  /\ W!Kernel3 \in Nat /\ W!Kernel3 >= Words /\ W!Total = W!Kernel3 + Words
<1>1. /\ M \in Nat /\ M >= 3 /\ NOCH \in Nat /\ NOCH >= 1
      /\ Taps \in Nat /\ Taps >= 1 /\ Words \in Nat /\ Words >= 1
      /\ ImapWords \in Nat /\ ImapWords >= 1
      /\ MaxOutstanding \in Nat /\ MaxOutstanding >= 1
  BY ArrayAssumption, SizesAssumption, SystemAssumption
<1>2. A!Pixels \in Nat /\ A!Pixels >= 9
  BY A!Bounds, Assumptions
<1>3. Taps * Words \in Nat /\ Taps * Words >= Words
  BY <1>1, SMT
<1> QED
  BY <1>1, <1>2, <1>3 DEF W!Kernel3, W!Total

\* Whether the array may hand a pixel over depends on the output path only for the
\* second group: that is all the sequencer assumes of it.
LEMMA Offered ==
  ASSUME A!IInv
  PROVE  \E stall \in BOOLEAN : psumRdy = A!PsumReady(stall)
<1>1. omap_ch_cnt \in Nat
  BY Sizes DEF A!IInv, A!TypeOK
<1>2. Array!info.group = omap_ch_cnt % 2
  BY DEF Array!info
<1>3. omap_ch_cnt % 2 = 1 <=> ~(omap_ch_cnt % 2 = 0)
  BY <1>1
<1> DEFINE stall == ~Psum!Stage!i_rdy(mergerRdy)
<1>4. stall \in BOOLEAN
  OBVIOUS
<1>5. psumRdy = A!PsumReady(stall)
  BY <1>2, <1>3 DEF psumRdy, Psum!psum_acc_rdy_in, A!PsumReady
<1> QED
  BY <1>4, <1>5

\* One clock edge of the accelerator is a step of the sequencer.
LEMMA ArrayStep ==
  ASSUME A!IInv, conv_start \in BOOLEAN, [Next]_vars
  PROVE  /\ [A!Next]_(A!vars)
         /\ A!IInv'
         /\ psumRdy \in BOOLEAN
<1>1. PICK stall \in BOOLEAN : psumRdy = A!PsumReady(stall)
  BY Offered
<1>2. psumRdy \in BOOLEAN
  BY <1>1 DEF A!PsumReady
<1>3. [A!Next]_(A!vars)
  <2>1. CASE UNCHANGED vars
    <3>1. UNCHANGED A!vars
      BY <2>1 DEF vars, arrayVars, A!vars
    <3> QED
      BY <3>1
  <2>2. CASE Next
    <3>1. Array!Clock(conv_start, psumRdy)
      BY <2>2 DEF Next, Clock
    <3>2. A!Clock(conv_start, psumRdy)
      BY <3>1, SameClock
    <3> QED
      BY <1>1, <3>2 DEF A!Next, A!Tick
  <2> QED
    BY <2>1, <2>2
<1>4. A!IInv'
  BY <1>3, A!InvStep, Assumptions
<1> QED
  BY <1>2, <1>3, <1>4

(***************************************************************************)
(* Registers stay in range.                                                 *)
(***************************************************************************)
\* The states of the controllers and of the arbiter.
LEMMA StatesStep ==
  ASSUME TypeOK, NEW start, NEW ready, NEW answer, Clock(start, ready, answer)
  PROVE  /\ f_state' \in {"idle", "wsetup", "isetup", "conv"}
         /\ w_state' \in {"idle", "w3", "w1"} /\ i_state' \in {"idle", "run"}
         /\ owner' \in {"free", "omap", "weight", "imap"}
<1>1. f_state' \in {"idle", "wsetup", "isetup", "conv"}
  BY DEF TypeOK, Clock, Fsm!Clock, Fsm!State
<1>2. w_state' \in {"idle", "w3", "w1"}
  BY DEF TypeOK, Clock, W!Clock, W!State
<1>3. i_state' \in {"idle", "run"}
  BY DEF TypeOK, Clock, I!Clock, I!State
<1>4. owner' \in {"free", "omap", "weight", "imap"}
  BY DEF TypeOK, Clock, Arb!Clock, Arb!Grant
<1> QED
  BY <1>1, <1>2, <1>3, <1>4

\* The counters of commands issued and of answers received.
LEMMA CountersStep ==
  ASSUME TypeOK, Counting, NEW start, NEW ready, NEW answer, Clock(start, ready, answer)
  PROVE  /\ w_cnt' \in 0..(W!Kernel3 - 1) /\ w_receive_cnt' \in 0..(W!Total - 1)
         /\ Counting'
         /\ i_cnt' \in 0..(ImapWords - 1) /\ i_receive_cnt' \in 0..(ImapWords - 1)
         /\ o_receive_cnt' \in 0..(A!Pixels - 1)
         /\ omap_biu2arb_cnt' \in 0..(NOCH * A!Pixels - 1)
<1>1. /\ W!Kernel3 \in Nat /\ W!Kernel3 >= Words /\ W!Total = W!Kernel3 + Words
      /\ Words \in Nat /\ Words >= 1 /\ ImapWords \in Nat /\ ImapWords >= 1
      /\ A!Pixels \in Nat /\ A!Pixels >= 9 /\ Array!Pixels = A!Pixels
  BY Sizes, Sequencer
<1>2. PICK rdy, rsp : W!State(weight_start, rdy) /\ W!Cnt(rdy) /\ W!Receive(rsp)
  BY DEF Clock, W!Clock
<1>3. w_cnt' \in 0..(W!Kernel3 - 1) /\ Counting'
  <2>1. /\ w_state \in {"idle", "w3", "w1"} /\ w_cnt \in 0..(W!Kernel3 - 1)
        /\ w_state = "w1" => w_cnt \in 0..(Words - 1)
    BY DEF TypeOK, Counting
  <2>2. w_cnt' = 0 \/ w_cnt' = w_cnt
          \/ (w_state # "idle" /\ W!issue(rdy) /\ ~W!Last3(rdy) /\ ~W!Last1(rdy)
              /\ w_cnt' = w_cnt + 1)
    BY <1>2 DEF W!Cnt
  <2>3. w_state' = "w1" => W!Last3(rdy) \/ w_state = "w1"
    BY <1>2, <2>1 DEF W!State
  <2>4. W!Last3(rdy) => w_cnt' = 0
    BY <1>2 DEF W!Cnt
  <2>5. w_state # "idle" /\ W!issue(rdy) /\ ~W!Last3(rdy) /\ ~W!Last1(rdy) =>
          /\ w_state = "w3" => w_cnt # W!Kernel3 - 1
          /\ w_state = "w1" => w_cnt # Words - 1
    BY DEF W!Last3, W!Last1
  <2>6. w_cnt' \in 0..(W!Kernel3 - 1)
    BY <1>1, <2>1, <2>2, <2>5
  <2>7. w_state = "w1" => w_cnt' \in 0..(Words - 1)
    BY <1>1, <2>1, <2>2, <2>5
  <2> QED
    BY <1>1, <2>3, <2>4, <2>6, <2>7 DEF Counting
<1>4. w_receive_cnt' \in 0..(W!Total - 1)
  <2>1. w_receive_cnt' = 0 \/ w_receive_cnt' = w_receive_cnt
          \/ (w_receive_cnt # W!Total - 1 /\ w_receive_cnt' = w_receive_cnt + 1)
    BY <1>2 DEF W!Receive, W!LastAnswer
  <2> QED
    BY <1>1, <2>1 DEF TypeOK
<1>5. PICK irdy, irsp : I!Cnt(irdy) /\ I!ReceiveCnt(irsp)
  BY DEF Clock, I!Clock
<1>6. i_cnt' \in 0..(ImapWords - 1)
  <2>1. i_cnt' = 0 \/ i_cnt' = i_cnt \/ (i_cnt # ImapWords - 1 /\ i_cnt' = i_cnt + 1)
    BY <1>5 DEF I!Cnt, I!LastIssue
  <2> QED
    BY <1>1, <2>1 DEF TypeOK
<1>7. i_receive_cnt' \in 0..(ImapWords - 1)
  <2>1. i_receive_cnt' = 0 \/ i_receive_cnt' = i_receive_cnt
          \/ (i_receive_cnt # ImapWords - 1 /\ i_receive_cnt' = i_receive_cnt + 1)
    BY <1>5 DEF I!ReceiveCnt, I!LastAnswer
  <2> QED
    BY <1>1, <2>1 DEF TypeOK
<1>8. PICK ordy, orsp : O!CmdCnt(ordy) /\ O!ReceiveCnt(orsp)
  BY DEF Clock, O!Clock
<1>9. o_receive_cnt' \in 0..(A!Pixels - 1)
  BY <1>1, <1>8 DEF TypeOK, O!ReceiveCnt, O!Wrap
<1>10. omap_biu2arb_cnt' \in 0..(NOCH * A!Pixels - 1)
  <2>1. NOCH * A!Pixels \in Nat /\ NOCH * A!Pixels >= 1
    BY Sizes, SMT
  <2> DEFINE words == NOCH * A!Pixels
  <2>2. words \in Nat /\ words >= 1 /\ omap_biu2arb_cnt \in 0..(words - 1)
    BY <1>1, <2>1 DEF TypeOK
  <2>3. omap_biu2arb_cnt' = omap_biu2arb_cnt \/ omap_biu2arb_cnt' =
          IF omap_biu2arb_cnt = words - 1 THEN 0 ELSE omap_biu2arb_cnt + 1
    BY <1>1, <1>8 DEF O!CmdCnt, O!Wrap
  <2> HIDE DEF words
  <2>4. omap_biu2arb_cnt' \in 0..(words - 1)
    BY <2>2, <2>3
  <2> QED
    BY <2>4 DEF words
<1> QED
  BY <1>3, <1>4, <1>6, <1>7, <1>9, <1>10

\* A full memory answers, and whoever puts a command into it listens.
LEMMA QueueStep ==
  ASSUME TypeOK, Queued, NEW start, NEW ready, NEW answer \in BOOLEAN,
         Clock(start, ready, answer)
  PROVE  Len(pending') <= MaxOutstanding /\ Queued'
<1>1. PICK S : pending \in Seq(S)
  BY DEF Queued
<1>2. /\ answer => pending # <<>>
      /\ pending # <<>> /\ Len(pending) = MaxOutstanding => answer
      /\ pending' = (IF Answered(answer) THEN Tail(pending) ELSE pending)
                      \o (IF Accepted(ready) THEN <<command>> ELSE <<>>)
  BY DEF Clock, MayAnswer, Memory
<1>3. Accepted(ready) => owner # "free"
  BY DEF Accepted, cmdValid, Arb!acc_icb_cmd_valid
<1>4. Answered(answer) <=> answer /\ owner # "free"
  BY DEF Answered, Arb!acc_icb_rsp_ready
<1>5. Len(pending) <= MaxOutstanding /\ Len(pending) \in Nat
      /\ MaxOutstanding \in Nat /\ MaxOutstanding >= 1
  BY <1>1, Sizes DEF TypeOK
<1> DEFINE rest == IF Answered(answer) THEN Tail(pending) ELSE pending
           more == IF Accepted(ready) THEN <<command>> ELSE <<>>
           T == S \cup {command}
<1>6. rest \in Seq(S) /\ Len(rest) = IF answer /\ owner # "free" THEN Len(pending) - 1
                                                                ELSE Len(pending)
  <2>1. CASE answer /\ owner # "free"
    <3>1. Tail(pending) \in Seq(S) /\ Len(Tail(pending)) = Len(pending) - 1
      BY <1>1, <1>2, <2>1
    <3> QED
      BY <1>4, <2>1, <3>1
  <2>2. CASE ~(answer /\ owner # "free")
    BY <1>1, <1>4, <2>2
  <2> QED
    BY <2>1, <2>2
<1>7. more \in Seq(T) /\ Len(more) = IF Accepted(ready) THEN 1 ELSE 0
  <2>1. <<command>> \in Seq(T) /\ Len(<<command>>) = 1
    <3>1. \A x : <<x>> \in Seq({x}) /\ Len(<<x>>) = 1
      OBVIOUS
    <3>2. \A x : Seq({x}) \subseteq Seq(S \cup {x})
      OBVIOUS
    <3> QED
      BY <3>1, <3>2
  <2>2. <<>> \in Seq(T) /\ Len(<<>>) = 0
    OBVIOUS
  <2> HIDE DEF T
  <2>3. CASE Accepted(ready)
    <3>1. more = <<command>>
      BY <2>3
    <3> HIDE DEF more
    <3> QED
      BY <2>1, <2>3, <3>1
  <2>4. CASE ~Accepted(ready)
    <3>1. more = <<>>
      BY <2>4
    <3> HIDE DEF more
    <3> QED
      BY <2>2, <2>4, <3>1
  <2> QED
    BY <2>3, <2>4
<1>8. rest \in Seq(T)
  <2> HIDE DEF rest
  <2> QED
    BY <1>6
<1>9. pending' = rest \o more
  BY <1>2
<1> HIDE DEF rest, more, T
<1>10. pending' \in Seq(T) /\ Len(pending') = Len(rest) + Len(more)
  BY <1>7, <1>8, <1>9, ConcatProperties
<1>11. Len(pending') <= MaxOutstanding
  <2>1. CASE Accepted(ready)
    <3>1. Len(pending) = MaxOutstanding => answer
      <4>1. Len(pending) = MaxOutstanding => pending # <<>>
        BY <1>1, <1>5
      <4> QED
        BY <1>2, <4>1
    <3> QED
      BY <1>3, <1>5, <1>6, <1>7, <1>10, <2>1, <3>1
  <2>2. CASE ~Accepted(ready)
    BY <1>5, <1>6, <1>7, <1>10, <2>2
  <2> QED
    BY <2>1, <2>2
<1>12. Queued'
  BY <1>10 DEF Queued
<1> QED
  BY <1>11, <1>12

(***************************************************************************)
(* Jobs and convolutions.                                                   *)
(***************************************************************************)
\* How the array goes from one job to the next.
LEMMA ArrayGoes ==
  ASSUME A!IInv, A!IInv', NEW rdy \in BOOLEAN, conv_start \in BOOLEAN, A!Clock(conv_start, rdy)
  PROVE  /\ a_state = "idle" => a_state' = IF conv_start THEN "array_setup" ELSE "idle"
         /\ a_state' = "idle" => a_state \in {"idle", "array_cool_down"}
         /\ conv_done' = (~conv_done /\ a_state = "array_cool_down" /\ a_state' = "idle")
<1>1. A!TypeOK /\ A!ZoneMatchesPixel /\ a_state \in A!States
  BY DEF A!IInv, A!TypeOK
<1>2. /\ a_state = "array_setup" => a_state' \in {"array_setup", "conv_s0"}
      /\ A!array_en => a_state' \in A!Zones \cup {"array_cool_down"}
  BY <1>1, A!Goes, Assumptions
<1>3. a_state = "idle" => a_state' = IF conv_start THEN "array_setup" ELSE "idle"
  BY DEF A!Clock, A!NextState, A!pipe_en
<1>4. a_state' = "idle" => a_state \in {"idle", "array_cool_down"}
  BY <1>1, <1>2 DEF A!States, A!Zones, A!array_en
<1>5. conv_done' = (~conv_done /\ a_state = "array_cool_down" /\ a_state' = "idle")
  <2>1. conv_done \in BOOLEAN
    BY <1>1 DEF A!TypeOK
  <2>2. a_state' = A!NextState(conv_start, A!pipe_en(rdy))
        /\ A!ConvDone(A!NextState(conv_start, A!pipe_en(rdy)))
    BY DEF A!Clock
  <2>3. A!ConvDone(a_state')
    BY <2>2
  <2> QED
    BY <2>1, <2>3 DEF A!ConvDone
<1> QED
  BY <1>3, <1>4, <1>5

\* A clock edge keeps jobs and convolutions paired: whatever the memory does, a job
\* is not started before the last one was reported done, and convolves once.
LEMMA OneConvolutionStep ==
  ASSUME IInv, A!IInv', NEW start \in BOOLEAN, NEW ready, NEW answer, Clock(start, ready, answer),
         psumRdy \in BOOLEAN
  PROVE  /\ OneConvolution'
         /\ start => f_state = "idle" /\ ~conv_start
         /\ started' = IF start THEN started + 1 ELSE started
         /\ start => f_state' = "wsetup"
         /\ f_state = "idle" /\ ~start => f_state' = "idle"
         /\ f_state = "wsetup" => f_state' \in {"wsetup", "isetup"}
         /\ f_state = "isetup" => f_state' = "isetup" \/ (f_state' = "conv" /\ conv_start')
         /\ f_state = "conv" => f_state' = "conv" \/ (f_state' = "idle" /\ conv_done)
         /\ f_state # "isetup" => ~conv_start'
<1>1. /\ OneConvolution /\ A!IInv /\ f_state \in {"idle", "wsetup", "isetup", "conv"}
      /\ conv_start \in BOOLEAN /\ conv_done \in BOOLEAN
  BY DEF IInv, OneConvolution, TypeOK, A!IInv, A!TypeOK
<1>2. A!Clock(conv_start, psumRdy)
  BY SameClock DEF Clock
<1>3. /\ a_state = "idle" => a_state' = IF conv_start THEN "array_setup" ELSE "idle"
      /\ a_state' = "idle" => a_state \in {"idle", "array_cool_down"}
      /\ conv_done' = (~conv_done /\ a_state = "array_cool_down" /\ a_state' = "idle")
  BY <1>1, <1>2, ArrayGoes
<1>4. /\ Fsm!State(start, weight_done, imap_done, conv_done)
      /\ conv_start' = (~conv_start /\ f_state = "isetup" /\ imap_done)
      /\ acc_done' = (~acc_done /\ conv_done)
  BY DEF Clock, Fsm!Clock, Fsm!ConvStart, Fsm!AccDone, Fsm!MapIn
<1>5. /\ f_state = "idle" => f_state' = IF start THEN "wsetup" ELSE "idle"
      /\ f_state = "wsetup" => f_state' = IF weight_done THEN "isetup" ELSE "wsetup"
      /\ f_state = "isetup" => f_state' = IF imap_done THEN "conv" ELSE "isetup"
      /\ f_state = "conv" => f_state' = IF conv_done THEN "idle" ELSE "conv"
  BY <1>4 DEF Fsm!State, Fsm!Starting, Fsm!WeightsIn, Fsm!MapIn
<1>6. /\ start => started = 0 \/ done
      /\ started' = IF start THEN started + 1 ELSE started
      /\ done' = (acc_done \/ (done /\ ~start))
  BY DEF Clock, Software, MayStart
<1>7. started \in Nat /\ acc_done \in BOOLEAN /\ done \in BOOLEAN
  BY <1>1 DEF OneConvolution
<1>8. start => f_state = "idle" /\ ~conv_start /\ ~acc_done /\ ~conv_done
  <2> SUFFICES ASSUME start PROVE f_state = "idle" /\ ~conv_start /\ ~acc_done /\ ~conv_done
    OBVIOUS
  <2>1. f_state = "idle"
    BY <1>1, <1>6, <1>7 DEF OneConvolution
  <2> QED
    BY <1>1, <1>6, <1>7, <2>1 DEF OneConvolution
<1>9. /\ started' \in Nat /\ conv_start' \in BOOLEAN /\ acc_done' \in BOOLEAN /\ done' \in BOOLEAN
  <2>1. started' \in Nat
    BY <1>6, <1>7
  <2> QED
    BY <1>4, <1>6, <1>7, <2>1
<1>10. f_state' # "idle" => started' > 0 /\ ~done' /\ ~acc_done'
  <2>1. CASE f_state = "idle"
    <3>1. f_state' # "idle" => start
      BY <1>5, <2>1
    <3>2. start => started' > 0 /\ ~done'
      BY <1>6, <1>7, <1>8
    <3>3. start => ~acc_done'
      BY <1>4, <1>8
    <3> QED
      BY <3>1, <3>2, <3>3
  <2>2. CASE f_state # "idle"
    <3>1. started > 0 /\ ~done /\ ~acc_done /\ ~start
      BY <1>1, <1>8, <2>2 DEF OneConvolution
    <3>2. f_state' # "idle" => ~conv_done
      BY <1>1, <1>5, <2>2 DEF OneConvolution
    <3> QED
      BY <1>4, <1>6, <3>1, <3>2
  <2> QED
    BY <2>1, <2>2
<1>11. f_state' = "idle" /\ started' > 0 => (done' <=> ~acc_done')
  <2>1. CASE f_state = "idle"
    <3>1. f_state' = "idle" => ~start
      BY <1>5, <2>1
    <3>2. ~conv_done
      BY <1>1, <2>1 DEF OneConvolution
    <3>3. started > 0 => (done <=> ~acc_done)
      BY <1>1, <2>1 DEF OneConvolution
    <3>4. ~start => started' = started /\ done' = (acc_done \/ done) /\ ~acc_done'
      BY <1>4, <1>6, <1>7, <3>2
    <3>5. ~start /\ started > 0 => done'
      BY <1>7, <3>3, <3>4
    <3> QED
      BY <3>1, <3>4, <3>5
  <2>2. CASE f_state # "idle"
    <3>1. ~done /\ ~acc_done
      BY <1>1, <2>2 DEF OneConvolution
    <3>2. f_state' = "idle" => conv_done
      BY <1>1, <1>5, <2>2
    <3> QED
      BY <1>4, <1>6, <3>1, <3>2
  <2> QED
    BY <2>1, <2>2
<1>12. started' = 0 => ~done' /\ ~acc_done'
  <2> SUFFICES ASSUME started' = 0 PROVE ~done' /\ ~acc_done'
    OBVIOUS
  <2>1. started = 0 /\ ~start
    BY <1>6, <1>7
  <2>2. f_state = "idle" /\ ~done /\ ~acc_done
    BY <1>1, <2>1 DEF OneConvolution
  <2>3. ~conv_done
    BY <1>1, <2>2 DEF OneConvolution
  <2> QED
    BY <1>4, <1>6, <2>2, <2>3
<1>13. f_state' # "conv" => a_state' = "idle" /\ ~conv_start' /\ ~conv_done'
  <2>1. CASE f_state # "conv"
    <3>1. a_state = "idle" /\ ~conv_start /\ ~conv_done
      BY <1>1, <2>1 DEF OneConvolution
    <3>2. a_state' = "idle" /\ ~conv_done'
      BY <1>3, <3>1
    <3>3. conv_start' => f_state' = "conv"
      BY <1>4, <1>5
    <3> QED
      BY <3>2, <3>3
  <2>2. CASE f_state = "conv" /\ f_state' # "conv"
    <3>1. conv_done
      BY <1>5, <2>2
    <3>2. a_state = "idle" /\ ~conv_start
      BY <1>1, <2>2, <3>1 DEF OneConvolution
    <3> QED
      BY <1>3, <1>4, <2>2, <3>1, <3>2
  <2> QED
    BY <2>1, <2>2
<1>14. f_state' = "conv" => \/ a_state' = "idle" /\ conv_start' /\ ~conv_done'
                            \/ a_state' = "idle" /\ ~conv_start' /\ conv_done'
                            \/ a_state' # "idle" /\ ~conv_start' /\ ~conv_done'
  <2> SUFFICES ASSUME f_state' = "conv"
               PROVE  \/ a_state' = "idle" /\ conv_start' /\ ~conv_done'
                      \/ a_state' = "idle" /\ ~conv_start' /\ conv_done'
                      \/ a_state' # "idle" /\ ~conv_start' /\ ~conv_done'
    OBVIOUS
  <2>1. CASE f_state # "conv"
    <3>1. a_state = "idle" /\ ~conv_start /\ ~conv_done
      BY <1>1, <2>1 DEF OneConvolution
    <3>2. f_state = "isetup" /\ imap_done
      BY <1>1, <1>5, <2>1
    <3> QED
      BY <1>3, <1>4, <3>1, <3>2
  <2>2. CASE f_state = "conv"
    <3>1. ~conv_start' /\ ~conv_done
      BY <1>4, <1>5, <2>2
    <3>2. (a_state = "idle" /\ conv_start) \/ (a_state # "idle" /\ ~conv_start)
      BY <1>1, <2>2, <3>1 DEF OneConvolution
    <3>3. CASE a_state = "idle" /\ conv_start
      BY <1>3, <3>1, <3>3
    <3>4. CASE a_state # "idle" /\ ~conv_start
      BY <1>3, <3>1, <3>4
    <3> QED
      BY <3>2, <3>3, <3>4
  <2> QED
    BY <2>1, <2>2
<1>15. OneConvolution'
  BY <1>9, <1>10, <1>11, <1>12, <1>13, <1>14 DEF OneConvolution
<1>16. f_state # "isetup" => ~conv_start'
  BY <1>4
<1>17. f_state = "isetup" => f_state' = "isetup" \/ (f_state' = "conv" /\ conv_start')
  <2>1. f_state = "isetup" => ~conv_start
    BY <1>1 DEF OneConvolution
  <2> QED
    BY <1>4, <1>5, <2>1
<1> QED
  BY <1>1, <1>5, <1>6, <1>8, <1>15, <1>16, <1>17

(***************************************************************************)
(* The read pointer drifts by M + 3 pixels with every convolution.          *)
(***************************************************************************)
\* The pointer counts the pixels read, modulo the size of the map.
LEMMA PointerMoves ==
  ASSUME NEW n \in Int, imap_cnt = n % A!Pixels, NEW start, NEW rdy, A!Clock(start, rdy)
  PROVE  imap_cnt' = IF A!imap_ren(rdy) THEN (n + 1) % A!Pixels ELSE n % A!Pixels
BY A!NextOffset, Assumptions DEF A!Clock, A!ImapCnt, A!Wrap

\* The pixel that enters is the first one wherever none enters.
LEMMA AtFirstPixel ==
  ASSUME A!IInv
  PROVE  /\ ~A!array_en => A!position = 0 /\ (a_state # "array_setup" => setup_cnt = 0)
         /\ a_state = "conv_s0" => A!position = 0
<1>1. A!ZoneMatchesPixel /\ M \in Nat
  BY Sizes DEF A!IInv
<1>2. 0 * M + 0 = 0
  BY <1>1
<1> QED
  BY <1>1, <1>2 DEF A!ZoneMatchesPixel, A!position, A!array_en, A!Zones

\* While the array rests, no pixel is read, and a job that is started, gets its weights
\* and its map leaves the number of convolutions begun as it was.
LEMMA DriftResting ==
  ASSUME IInv, A!IInv', NEW start \in BOOLEAN, NEW ready, NEW answer, Clock(start, ready, answer),
         psumRdy \in BOOLEAN, a_state = "idle"
  PROVE  Drift'
<1>1. OneConvolution /\ Drift /\ A!IInv /\ A!Pixels' = A!Pixels
      /\ f_state \in {"idle", "wsetup", "isetup", "conv"} /\ conv_start \in BOOLEAN
  BY DEF IInv, OneConvolution, A!Pixels, TypeOK
<1>2. A!Clock(conv_start, psumRdy)
  BY SameClock DEF Clock
<1>3. a_state' = IF conv_start THEN "array_setup" ELSE "idle"
  BY <1>1, <1>2, ArrayGoes
<1>4. started \in Nat /\ M \in Nat
  BY <1>1, Sizes DEF OneConvolution
<1>5. imap_cnt = (Begun * (M + 3)) % A!Pixels
  BY <1>1 DEF Drift
<1>6. Begun * (M + 3) \in Int
  BY <1>4 DEF Begun
<1>7. imap_cnt' = (Begun * (M + 3)) % A!Pixels
  <2>1. ~A!imap_ren(psumRdy)
    BY DEF A!imap_ren
  <2> DEFINE n == Begun * (M + 3)
  <2>2. n \in Int /\ imap_cnt = n % A!Pixels
    BY <1>5, <1>6
  <2> HIDE DEF n
  <2>3. imap_cnt' = n % A!Pixels
    BY <1>2, <2>1, <2>2, PointerMoves
  <2> QED
    BY <2>3 DEF n
<1>8. /\ start => f_state = "idle" /\ ~conv_start
      /\ started' = IF start THEN started + 1 ELSE started
      /\ start => f_state' = "wsetup"
      /\ f_state = "idle" /\ ~start => f_state' = "idle"
      /\ f_state = "wsetup" => f_state' \in {"wsetup", "isetup"}
      /\ f_state = "isetup" => f_state' = "isetup" \/ (f_state' = "conv" /\ conv_start')
      /\ f_state = "conv" => f_state' = "conv" \/ (f_state' = "idle" /\ conv_done)
      /\ f_state # "isetup" => ~conv_start'
  BY <1>1, OneConvolutionStep
<1>9. CASE conv_start
  <2>1. Begun = started - 1 /\ started' = started
    BY <1>8, <1>9 DEF Begun
  <2>2. setup_cnt' = 0
    BY <1>1, <1>2, AtFirstPixel DEF A!Clock, A!SetupCnt, A!array_en, A!Zones
  <2>3. a_state' = "array_setup"
    BY <1>3, <1>9
  <2>4. (started - 1) * (M + 3) \in Int
    BY <1>4
  <2>5. (started - 1) * (M + 3) + 0 = (started - 1) * (M + 3)
    BY <2>4
  <2>6. imap_cnt' = ((started' - 1) * (M + 3) + setup_cnt') % A!Pixels'
    BY <1>1, <1>7, <2>1, <2>2, <2>5
  <2>7. ~A!array_en'
    BY <2>3 DEF A!array_en, A!Zones
  <2> QED
    BY <2>3, <2>6, <2>7 DEF Drift
<1>10. CASE ~conv_start
  <2>1. a_state' = "idle"
    BY <1>3, <1>10
  <2>2. Begun' = Begun
    <3>1. CASE start
      BY <1>4, <1>8, <1>10, <3>1 DEF Begun
    <3>2. CASE ~start
      BY <1>1, <1>4, <1>8, <1>10, <3>2 DEF Begun
    <3> QED
      BY <3>1, <3>2
  <2>3. imap_cnt' = (Begun' * (M + 3)) % A!Pixels'
    BY <1>1, <1>7, <2>2
  <2>4. ~A!array_en'
    BY <2>1 DEF A!array_en, A!Zones
  <2> QED
    BY <2>1, <2>3, <2>4 DEF Drift
<1> QED
  BY <1>9, <1>10

\* While the array works, every pixel it takes is read, but for the M + 3 it reads before
\* the first one and the map it reads over and over again.
LEMMA DriftWorking ==
  ASSUME IInv, A!IInv', NEW start \in BOOLEAN, NEW ready, NEW answer, Clock(start, ready, answer),
         psumRdy \in BOOLEAN, a_state # "idle"
  PROVE  Drift'
<1>1. OneConvolution /\ Drift /\ A!IInv /\ A!Pixels' = A!Pixels
      /\ a_state \in A!States /\ A!TypeOK /\ A!ZoneMatchesPixel
  BY DEF IInv, A!Pixels, A!IInv, A!TypeOK
<1>2. A!Clock(conv_start, psumRdy)
  BY SameClock DEF Clock
<1>3. f_state = "conv" /\ ~conv_start /\ ~conv_done /\ conv_start \in BOOLEAN
  BY <1>1 DEF OneConvolution
<1>4. started' = started /\ ~conv_start' /\ f_state' = "conv"
  BY <1>1, <1>3, OneConvolutionStep
<1>5. started \in Nat /\ M \in Nat /\ A!Pixels \in Nat /\ A!Pixels >= 9
  BY <1>1, Sizes DEF OneConvolution
<1> DEFINE base == started * (M + 3)
<1>6. base \in Int /\ (started - 1) * (M + 3) = base - (M + 3)
  BY <1>5, SMT
<1>7. Begun' = started
  BY <1>4 DEF Begun
<1>8. Drift' <=> /\ a_state' = "idle" => imap_cnt' = base % A!Pixels
                 /\ a_state' = "array_setup" => imap_cnt' = (base - (M + 3) + setup_cnt') % A!Pixels
                 /\ A!array_en' => imap_cnt' = (base + A!position') % A!Pixels
                 /\ a_state' = "array_cool_down" => imap_cnt' = base % A!Pixels
  BY <1>1, <1>4, <1>6, <1>7 DEF Drift
<1>9. /\ a_state = "array_setup" => imap_cnt = (base - (M + 3) + setup_cnt) % A!Pixels
      /\ A!array_en => imap_cnt = (base + A!position) % A!Pixels
      /\ a_state = "array_cool_down" => imap_cnt = base % A!Pixels
  BY <1>1, <1>6 DEF Drift
<1> HIDE DEF base
<1> DEFINE en == A!pipe_en(psumRdy)
<1>10. en \in BOOLEAN /\ a_state' = A!NextState(conv_start, en) /\ A!SetupCnt(en)
       /\ A!ConvCounters(en)
  BY <1>2 DEF A!Clock, A!pipe_en
<1>11. A!imap_ren(psumRdy) <=> a_state # "array_cool_down" /\ en
  BY DEF A!imap_ren
<1> HIDE DEF en
<1>12. CASE ~en
  <2>1. a_state' = a_state
    BY <1>10, <1>12 DEF A!NextState
  <2>2. setup_cnt' = setup_cnt /\ A!position' = A!position /\ (A!array_en' <=> A!array_en)
    BY <1>10, <1>12, <2>1 DEF A!SetupCnt, A!ConvCounters, A!position, A!array_en
  <2>3. imap_cnt' = imap_cnt
    BY <1>2, <1>11, <1>12 DEF A!Clock, A!ImapCnt
  <2> QED
    BY <1>8, <1>9, <2>1, <2>2, <2>3
<1>13. CASE en /\ a_state = "array_setup"
  <2>1. setup_cnt \in 0..(M + 2)
    BY <1>1 DEF A!TypeOK
  <2> DEFINE n == base - (M + 3) + setup_cnt
  <2>2. n \in Int /\ imap_cnt = n % A!Pixels
    BY <1>5, <1>6, <1>9, <1>13, <2>1
  <2>3. n + 1 = base - (M + 3) + (setup_cnt + 1) /\ (setup_cnt = M + 2 => n + 1 = base)
    BY <1>5, <1>6, <2>1
  <2> HIDE DEF n
  <2>4. imap_cnt' = (n + 1) % A!Pixels
    BY <1>2, <1>11, <1>13, <2>2, PointerMoves
  <2>5. CASE setup_cnt = M + 2
    <3>1. a_state' = "conv_s0"
      BY <1>10, <1>13, <2>5 DEF A!NextState
    <3>2. A!position' = 0
      <4>1. conv_row_cnt' = 0 /\ conv_col_cnt' = 0
        BY <3>1 DEF A!IInv, A!ZoneMatchesPixel
      <4>2. 0 * M + 0 = 0
        BY <1>5
      <4> QED
        BY <4>1, <4>2 DEF A!position
    <3>3. imap_cnt' = (base + A!position') % A!Pixels
      <4>1. base + 0 = base
        BY <1>6
      <4> QED
        BY <2>3, <2>4, <2>5, <3>2, <4>1
    <3> QED
      BY <1>8, <3>1, <3>3
  <2>6. CASE setup_cnt # M + 2
    <3>1. a_state' = "array_setup" /\ setup_cnt' = setup_cnt + 1
      BY <1>10, <1>13, <2>6 DEF A!NextState, A!SetupCnt, A!Wrap
    <3>2. ~A!array_en'
      BY <3>1 DEF A!array_en, A!Zones
    <3> QED
      BY <1>8, <2>3, <2>4, <3>1, <3>2
  <2> QED
    BY <2>5, <2>6
<1>14. CASE en /\ A!array_en
  <2>1. A!pipe_en(psumRdy)
    BY <1>14 DEF en
  <2>2. A!position' = IF A!MapEnd THEN 0 ELSE A!position + 1
    BY <1>1, <1>2, <1>3, <1>14, <2>1, A!PositionMoves, Assumptions
  <2>3. A!position \in 0..(A!Pixels - 1) /\ (A!MapEnd <=> A!position = A!Pixels - 1)
    BY <1>1, A!Digits, Assumptions
  <2>4. /\ a_state' \in A!Zones \cup {"array_cool_down"}
        /\ a_state' = "array_cool_down" <=> A!pipe_en(psumRdy) /\ A!MapEnd /\ A!LastPass
    BY <1>1, <1>2, <1>3, <1>14, A!Goes, Assumptions
  <2> DEFINE n == base + A!position
  <2>5. n \in Int /\ imap_cnt = n % A!Pixels
    BY <1>5, <1>6, <1>9, <1>14, <2>3
  <2>6. n + 1 = base + (A!position + 1) /\ (A!MapEnd => n + 1 = A!Pixels * 1 + base)
    BY <1>5, <1>6, <2>3
  <2> HIDE DEF n
  <2>7. imap_cnt' = (n + 1) % A!Pixels
    <3>1. A!imap_ren(psumRdy)
      BY <1>11, <1>14 DEF A!array_en, A!Zones
    <3> QED
      BY <1>2, <2>5, <3>1, PointerMoves
  <2>8. A!MapEnd => imap_cnt' = base % A!Pixels
    <3> DEFINE m == n + 1
    <3>1. A!MapEnd => m = A!Pixels * 1 + base
      BY <2>6
    <3> HIDE DEF m
    <3>2. A!MapEnd => m % A!Pixels = base % A!Pixels
      BY <1>6, <3>1, A!SameOffset, Assumptions
    <3> QED
      BY <2>7, <3>2 DEF m
  <2>9. imap_cnt' = (base + A!position') % A!Pixels
    <3>1. base + 0 = base
      BY <1>6
    <3>2. CASE A!MapEnd
      BY <2>2, <2>8, <3>1, <3>2
    <3>3. CASE ~A!MapEnd
      BY <2>2, <2>6, <2>7, <3>3
    <3> QED
      BY <3>2, <3>3
  <2>10. a_state' \notin {"idle", "array_setup"}
    BY <2>4 DEF A!Zones
  <2> QED
    BY <1>8, <2>4, <2>8, <2>9, <2>10
<1>15. CASE en /\ a_state = "array_cool_down"
  <2>1. a_state' \in {"array_cool_down", "idle"}
    BY <1>10, <1>15 DEF A!NextState
  <2>2. imap_cnt' = base % A!Pixels
    BY <1>2, <1>9, <1>11, <1>15 DEF A!Clock, A!ImapCnt
  <2>3. ~A!array_en' /\ a_state' # "array_setup"
    BY <2>1 DEF A!array_en, A!Zones
  <2> QED
    BY <1>8, <2>2, <2>3
<1>16. a_state \in {"array_setup", "array_cool_down"} \/ A!array_en
  BY <1>1 DEF A!States, A!array_en
<1> QED
  BY <1>10, <1>12, <1>13, <1>14, <1>15, <1>16

(***************************************************************************)
(* The invariant.                                                           *)
(***************************************************************************)
\* It holds after reset.
LEMMA InvInit == Init => IInv
<1> SUFFICES ASSUME Init PROVE IInv
  OBVIOUS
<1>1. A!IInv
  <2>1. A!Init
    BY Sequencer DEF Init
  <2> QED
    BY <2>1, A!TypeInit, A!ZoneInit, A!BalanceInit, Assumptions DEF A!IInv
<1>2. /\ M \in Nat /\ NOCH \in Nat /\ NOCH >= 1
      /\ ImapWords \in Nat /\ ImapWords >= 1 /\ Words \in Nat /\ Words >= 1
      /\ MaxOutstanding \in Nat
      /\ A!Pixels \in Nat /\ A!Pixels >= 9 /\ Array!Pixels = A!Pixels
      /\ W!Kernel3 \in Nat /\ W!Kernel3 >= Words /\ W!Total = W!Kernel3 + Words
  BY Sizes, Sequencer
<1>3. NOCH * A!Pixels \in Nat /\ NOCH * A!Pixels >= 1
  BY <1>2, SMT
<1>4. TypeOK
  <2>1. Array!TypeOK
    BY <1>1, Sequencer DEF A!IInv
  <2>2. /\ f_state = "idle" /\ w_state = "idle" /\ i_state = "idle" /\ owner = "free"
        /\ w_cnt = 0 /\ w_receive_cnt = 0 /\ i_cnt = 0 /\ i_receive_cnt = 0
        /\ o_receive_cnt = 0 /\ omap_biu2arb_cnt = 0 /\ pending = <<>>
    BY DEF Init, Fsm!Init, W!Init, I!Init, O!Init, Arb!Init
  <2>3. 0 \in 0..(NOCH * Array!Pixels - 1)
    BY <1>2, <1>3
  <2>4. Len(pending) = 0
    BY <2>2
  <2> QED
    BY <1>2, <2>1, <2>2, <2>3, <2>4 DEF TypeOK
<1>5. Counting /\ Queued
  <2>1. w_state = "idle" /\ pending = <<>>
    BY DEF Init, W!Init
  <2>2. <<>> \in Seq({})
    OBVIOUS
  <2> QED
    BY <2>1, <2>2 DEF Counting, Queued
<1>6. /\ f_state = "idle" /\ ~conv_start /\ conv_start = FALSE /\ acc_done = FALSE
      /\ started = 0 /\ done = FALSE
      /\ a_state = "idle" /\ imap_cnt = 0 /\ conv_done = FALSE
  BY DEF Init, Fsm!Init, Array!Init
<1>7. OneConvolution
  <2>1. started \in Nat /\ ~(started > 0)
    BY <1>6
  <2>2. /\ conv_start \in BOOLEAN /\ acc_done \in BOOLEAN /\ done \in BOOLEAN
        /\ ~acc_done /\ ~done /\ ~conv_done
    BY <1>6
  <2>3. f_state # "conv"
    BY <1>6
  <2> QED
    BY <1>6, <2>1, <2>2, <2>3 DEF OneConvolution
<1>8. Drift
  <2>1. (Begun * (M + 3)) % A!Pixels = 0
    <3>1. 0 * (M + 3) = 0 /\ 0 % A!Pixels = 0
      BY <1>2
    <3>2. Begun = 0
      BY <1>6 DEF Begun
    <3> QED
      BY <3>1, <3>2
  <2> QED
    BY <1>6, <2>1 DEF Drift, A!array_en, A!Zones
<1> QED
  BY <1>1, <1>4, <1>5, <1>7, <1>8 DEF IInv

\* Every clock edge of the accelerator keeps it.
LEMMA InvStep == IInv /\ [Next]_vars => IInv'
<1> SUFFICES ASSUME IInv, [Next]_vars PROVE IInv'
  OBVIOUS
<1>1. conv_start \in BOOLEAN /\ A!IInv /\ TypeOK
  BY DEF IInv, OneConvolution
<1>2. A!IInv' /\ psumRdy \in BOOLEAN
  BY <1>1, ArrayStep
<1>3. CASE UNCHANGED vars
  <2>1. TypeOK' /\ Counting' /\ Queued'
    <3>1. Array!TypeOK' <=> Array!TypeOK
      BY <1>3 DEF vars, arrayVars, Array!TypeOK, Array!Pixels
    <3> QED
      BY <1>3, <3>1 DEF IInv, vars, fsmVars, wVars, iVars, oVars, envVars, TypeOK, Counting,
                        Queued, W!Kernel3, W!Total, Array!Pixels
  <2>2. OneConvolution'
    BY <1>3 DEF IInv, vars, fsmVars, envVars, arrayVars, OneConvolution
  <2>3. Drift'
    BY <1>3 DEF IInv, vars, fsmVars, envVars, arrayVars, Drift, Begun, A!Pixels, A!array_en,
                A!position
  <2> QED
    BY <1>2, <2>1, <2>2, <2>3 DEF IInv
<1>4. CASE Next
  <2>1. PICK start \in BOOLEAN, answer \in BOOLEAN, ready \in Ready : Clock(start, ready, answer)
    BY <1>4 DEF Next
  <2>2. TypeOK'
    <3>1. Array!TypeOK'
      <4>1. A!TypeOK' /\ Array!Pixels = A!Pixels
        BY <1>2, Sequencer DEF A!IInv
      <4> QED
        BY <4>1 DEF Array!TypeOK, A!TypeOK, Array!States, A!States, Array!Zones, A!Zones,
                    Array!Delay, A!Delay
    <3>2. Array!Pixels' = A!Pixels /\ W!Kernel3' = W!Kernel3 /\ W!Total' = W!Total
      BY Sequencer DEF Array!Pixels, A!Pixels, W!Kernel3, W!Total
    <3>3. /\ f_state' \in {"idle", "wsetup", "isetup", "conv"}
          /\ w_state' \in {"idle", "w3", "w1"} /\ i_state' \in {"idle", "run"}
          /\ owner' \in {"free", "omap", "weight", "imap"}
      BY <1>1, <2>1, StatesStep
    <3>4. /\ w_cnt' \in 0..(W!Kernel3 - 1) /\ w_receive_cnt' \in 0..(W!Total - 1)
          /\ i_cnt' \in 0..(ImapWords - 1) /\ i_receive_cnt' \in 0..(ImapWords - 1)
          /\ o_receive_cnt' \in 0..(A!Pixels - 1)
          /\ omap_biu2arb_cnt' \in 0..(NOCH * A!Pixels - 1)
      BY <2>1, CountersStep DEF IInv
    <3>5. Len(pending') <= MaxOutstanding
      BY <2>1, QueueStep DEF IInv
    <3> QED
      BY <3>1, <3>2, <3>3, <3>4, <3>5 DEF TypeOK
  <2>3. Counting'
    BY <2>1, CountersStep DEF IInv
  <2>4. Queued'
    BY <2>1, QueueStep DEF IInv
  <2>5. OneConvolution'
    BY <1>2, <2>1, OneConvolutionStep
  <2>6. Drift'
    BY <1>2, <2>1, DriftResting, DriftWorking
  <2> QED
    BY <1>2, <2>2, <2>3, <2>4, <2>5, <2>6 DEF IInv
<1> QED
  BY <1>3, <1>4

\* The inductive invariant of the accelerator.
THEOREM AccInvariant == Spec => []IInv
BY InvInit, InvStep, PTL DEF Spec

(***************************************************************************)
(* Theorems.                                                                *)
(***************************************************************************)
\* Every counter and every state stays in range and the memory's queue is never
\* overrun, whatever the memory delays or refuses and however early a job is started.
THEOREM TypeCorrect == Spec => []TypeOK
<1>1. IInv => TypeOK
  BY DEF IInv
<1> QED
  BY <1>1, AccInvariant, PTL

\* A pointer that is m ahead of a pixel has a lead of m.
LEMMA LeadOfDrift ==
  ASSUME IInv, A!array_en
  PROVE  A!Lead = (started * (M + 3)) % A!Pixels
<1>1. /\ A!IInv /\ imap_cnt = (started * (M + 3) + A!position) % A!Pixels
      /\ started \in Nat /\ M \in Nat /\ A!Pixels \in Nat /\ A!Pixels >= 9
  BY Sizes DEF IInv, Drift, OneConvolution
<1>2. A!position \in 0..(A!Pixels - 1)
  BY <1>1, A!Digits, Assumptions DEF A!IInv
<1> DEFINE n == started * (M + 3) + A!position
           q == n \div A!Pixels
           lead == (imap_cnt + A!Pixels) - A!position
<1>3. started * (M + 3) \in Int
  BY <1>1
<1>4. n \in Int /\ n - A!position = started * (M + 3)
  BY <1>2, <1>3
<1>5. imap_cnt = n % A!Pixels
  BY <1>1
<1> HIDE DEF n
<1>6. q \in Int /\ n = A!Pixels * q + imap_cnt /\ imap_cnt \in Int
  BY <1>1, <1>4, <1>5, SMT
<1> HIDE DEF q
<1>7. started * (M + 3) = A!Pixels * (q - 1) + lead /\ lead \in Int
  <2>1. A!Pixels * (q - 1) = A!Pixels * q - A!Pixels /\ A!Pixels * q \in Int
    BY <1>1, <1>6, SMT
  <2> QED
    BY <1>1, <1>2, <1>4, <1>6, <2>1
<1> DEFINE read == started * (M + 3)
<1>8. read = A!Pixels * (q - 1) + lead /\ q - 1 \in Int /\ lead \in Int
  BY <1>6, <1>7
<1>9. A!Lead = lead % A!Pixels
  <2>1. A!Lead = (imap_cnt + A!Pixels - A!position) % A!Pixels
    BY DEF A!Lead, A!imap_raddr, A!position
  <2>2. imap_cnt + A!Pixels - A!position = lead
    BY <1>1, <1>2, <1>6
  <2> QED
    BY <2>1, <2>2
<1> HIDE DEF read, lead
<1>10. read % A!Pixels = lead % A!Pixels
  BY <1>8, A!SameOffset, Assumptions
<1> QED
  BY <1>9, <1>10 DEF read

\* The read pointer leads the pixel that enters by M + 3 in the first job and by as many
\* more in every job after it, never by anything else (mac_array_fsm.v:256-266).
THEOREM DriftExact == Spec => []ReadPointerDrift
<1>1. IInv => ReadPointerDrift
  BY LeadOfDrift, Sequencer DEF ReadPointerDrift
<1> QED
  BY <1>1, AccInvariant, PTL

\* Inside the accelerator the sequencer does what its own specification allows and no
\* more, so that the theorems of MacArrayFsmProofs hold of it there.
THEOREM ArrayRefined == Spec => A!Spec
<1>1. Init => A!Init
  BY Sequencer DEF Init
<1>2. IInv /\ [Next]_vars => [A!Next]_(A!vars)
  BY ArrayStep DEF IInv, OneConvolution
<1> QED
  BY <1>1, <1>2, AccInvariant, PTL DEF Spec, A!Spec

\* Software that waits for acc_done never starts a job while the array works on one: a job
\* is handed over once, after the map unit reported done, and its end is reported once.
THEOREM JobsNeverOverlap == Spec => []OneConvolution
<1>1. IInv => OneConvolution
  BY DEF IInv
<1> QED
  BY <1>1, AccInvariant, PTL

(***************************************************************************)
(* What depends on time.                                                    *)
(***************************************************************************)
\* The output path with its theorems; it never has more than three words under way
\* while the bus is withheld.
P == INSTANCE OutputPathProofs WITH Pixels <- A!Pixels, Absorb <- 3, receive_cnt <- o_receive_cnt

\* A memory that takes every command, and software that leaves the last load the time to
\* end before it starts a job.
Steady == ~MayRefuse /\ ~RestartsEarly

\* The longest that n commands may wait for their answers, one after the other.
Wait(n) == n * (MaxDelay + 1)

\* Clocks after the beginning of a first pass at which, at the latest, the last word of
\* the map before is answered, and at which the weights of the next channel are in.
OutEnd  == Wait(MaxOutstanding) + 10
LoadEnd == OutEnd + W!Total + Wait(MaxOutstanding) + 3

\* A pass over the map takes longer than that.
FastEnough == LoadEnd < A!Pixels - 1

\* Commands of a unit that wait for their answers.
Asked(unit) == IF owner = unit THEN Len(pending) ELSE 0

\* Answers go to who asked, and none is kept waiting for longer than agreed.
Routed ==
  /\ \A k \in 1..Len(pending) : pending[k].unit = owner
  /\ owner = "free" => Len(pending) = 0
  /\ waited \in 0..MaxDelay

\* A weight load: what was issued is answered or asked for.
WIssued == IF w_state = "w3" THEN w_cnt
           ELSE IF w_state = "w1" THEN W!Kernel3 + w_cnt
           ELSE IF weight_biu2arb_req THEN W!Total ELSE 0
WeightsCounted ==
  /\ weight_biu2arb_req \in BOOLEAN /\ weight_biu2arb_vld \in BOOLEAN
  /\ weight_biu2arb_vld <=> w_state # "idle"
  /\ ~weight_biu2arb_req => w_state = "idle"
  /\ w_receive_cnt + Asked("weight") = WIssued
  /\ w_receive_cnt > 0 => owner = "weight"

\* The same of the load of a map.
IIssued == IF i_state = "run" THEN i_cnt ELSE IF imap_biu2arb_req THEN ImapWords ELSE 0
MapCounted ==
  /\ imap_biu2arb_req \in BOOLEAN /\ imap_biu2arb_vld \in BOOLEAN
  /\ imap_biu2arb_vld <=> i_state # "idle"
  /\ ~imap_biu2arb_req => i_state = "idle"
  /\ i_receive_cnt + Asked("imap") = IIssued

\* A word of the output path, if there is one.
Bit(b) == IF b THEN 1 ELSE 0
UnderWay == Bit(psum_acc_vld_out) + Bit(p_vld) + Bit(m_vld) + Bit(o_vld)

\* The pixel that leaves the array is on its second visit.
second == omap_ch_cnt % 2 = 1

\* Words of the present output map that have left the array.
Due == IF second THEN omap_cnt
       ELSE IF in_ch_cnt = 1 \/ ~omap_biu2arb_req THEN 0 ELSE A!Pixels

\* They are in the path, asked for, or answered.
OutputCounted ==
  /\ omap_biu2arb_req \in BOOLEAN
  /\ UnderWay + o_receive_cnt + Asked("omap") = Due
  /\ omap_biu2arb_req =>
       owner = "omap" \/ (owner = "free" /\ in_ch_cnt = 1 /\ A!position = 1)
  /\ owner # "omap" => UnderWay = 0 /\ o_receive_cnt = 0
  /\ second => omap_biu2arb_req

(***************************************************************************)
(* The memory.                                                              *)
(***************************************************************************)
\* Waiting adds up.
LEMMA Waiting ==
  /\ MaxDelay \in Nat /\ MaxOutstanding \in Nat
  /\ \A n \in Nat : Wait(n) \in Nat /\ Wait(n + 1) = Wait(n) + MaxDelay + 1
  /\ \A n \in 0..MaxOutstanding : Wait(n) <= Wait(MaxOutstanding)
<1>1. MaxDelay \in Nat /\ MaxOutstanding \in Nat
  BY SystemAssumption
<1>2. \A n \in Nat : Wait(n) \in Nat /\ Wait(n + 1) = Wait(n) + MaxDelay + 1
  BY <1>1, SMT DEF Wait
<1>3. \A n \in 0..MaxOutstanding : Wait(n) <= Wait(MaxOutstanding)
  <2> TAKE n \in 0..MaxOutstanding
  <2>1. n \in Nat /\ MaxOutstanding - n \in Nat
    BY <1>1
  <2>2. Wait(MaxOutstanding) = Wait(n) + (MaxOutstanding - n) * (MaxDelay + 1)
    BY <1>1, <2>1, SMT DEF Wait
  <2>3. (MaxOutstanding - n) * (MaxDelay + 1) \in Nat
    BY <1>1, <2>1, SMT
  <2>4. Wait(n) \in Nat
    BY <1>2, <2>1
  <2> HIDE DEF Wait
  <2> QED
    BY <2>2, <2>3, <2>4
<1> QED
  BY <1>1, <1>2, <1>3

\* One answer leaves and one command comes; whoever owns the bus asked for both.
LEMMA PendingStep ==
  ASSUME Steady, TypeOK, Queued, Routed,
         NEW start, NEW ready \in Ready, NEW answer \in BOOLEAN, Clock(start, ready, answer)
  PROVE  /\ answer => Len(pending) >= 1 /\ owner # "free"
         /\ Len(pending) \in Nat /\ Len(pending') \in Nat
         /\ Len(pending') = Len(pending) + Bit(cmdValid) - Bit(answer)
         /\ \A k \in 1..Len(pending') :
              \/ cmdValid /\ pending'[k] = command
              \/ \E j \in 1..Len(pending) : pending'[k] = pending[j]
         /\ \A k \in 1..Len(pending') : pending'[k].unit = owner
         /\ owner = "free" => Len(pending') = 0
         /\ waited' \in 0..MaxDelay
         /\ Len(pending) >= 1 /\ ~cmdValid =>
              Wait(Len(pending')) + waited + 1 <= Wait(Len(pending)) + waited'
<1>1. PICK S : pending \in Seq(S)
  BY DEF Queued
<1>2. ready = TRUE
  BY DEF Steady, Ready
<1>3. /\ answer => pending # <<>>
      /\ pending # <<>> /\ waited = MaxDelay => answer
      /\ pending' = (IF Answered(answer) THEN Tail(pending) ELSE pending)
                      \o (IF Accepted(ready) THEN <<command>> ELSE <<>>)
      /\ waited' = IF pending # <<>> /\ ~answer THEN waited + 1 ELSE 0
  BY DEF Clock, MayAnswer, Memory
<1>4. Len(pending) \in Nat /\ (pending # <<>> <=> Len(pending) >= 1)
  BY <1>1
<1>5. /\ MaxDelay \in Nat /\ waited \in 0..MaxDelay
      /\ owner = "free" => Len(pending) = 0
  BY Waiting DEF Routed
<1>6. answer => Len(pending) >= 1 /\ owner # "free"
  BY <1>3, <1>4, <1>5
<1>7. (Answered(answer) <=> answer) /\ (Accepted(ready) <=> cmdValid)
  BY <1>2, <1>6 DEF Answered, Accepted, Arb!acc_icb_rsp_ready
<1>8. cmdValid => owner # "free"
  BY DEF cmdValid, Arb!acc_icb_cmd_valid
<1> DEFINE rest == IF answer THEN Tail(pending) ELSE pending
           more == IF cmdValid THEN <<command>> ELSE <<>>
           T == S \cup {command}
<1>9. /\ rest \in Seq(S) /\ Len(rest) = Len(pending) - Bit(answer)
      /\ \A k \in 1..Len(rest) : \E j \in 1..Len(pending) : rest[k] = pending[j]
  <2>1. CASE answer
    <3>1. /\ Tail(pending) \in Seq(S) /\ Len(Tail(pending)) = Len(pending) - 1
          /\ \A k \in 1..Len(Tail(pending)) : Tail(pending)[k] = pending[k + 1]
      BY <1>1, <1>3, <2>1
    <3>2. \A k \in 1..Len(Tail(pending)) :
             \E j \in 1..Len(pending) : Tail(pending)[k] = pending[j]
      <4> TAKE k \in 1..Len(Tail(pending))
      <4>1. k + 1 \in 1..Len(pending)
        BY <1>4, <3>1
      <4> QED
        BY <3>1, <4>1
    <3> QED
      BY <2>1, <3>1, <3>2 DEF Bit
  <2>2. CASE ~answer
    <3>1. Len(pending) = Len(pending) - Bit(answer)
      BY <1>4, <2>2 DEF Bit
    <3> QED
      BY <1>1, <2>2, <3>1
  <2> QED
    BY <2>1, <2>2
<1>10. /\ more \in Seq(T) /\ Len(more) = Bit(cmdValid)
       /\ \A k \in 1..Len(more) : cmdValid /\ more[k] = command
  <2>1. <<command>> \in Seq(T) /\ Len(<<command>>) = 1 /\ <<command>>[1] = command
    <3>1. \A x : <<x>> \in Seq({x}) /\ Len(<<x>>) = 1 /\ <<x>>[1] = x
      OBVIOUS
    <3>2. \A x : Seq({x}) \subseteq Seq(S \cup {x})
      OBVIOUS
    <3> QED
      BY <3>1, <3>2
  <2>2. <<>> \in Seq(T) /\ Len(<<>>) = 0
    OBVIOUS
  <2> HIDE DEF T
  <2>3. CASE cmdValid
    <3>1. more = <<command>>
      BY <2>3
    <3> HIDE DEF more
    <3> QED
      BY <2>1, <2>3, <3>1 DEF Bit
  <2>4. CASE ~cmdValid
    <3>1. more = <<>>
      BY <2>4
    <3> HIDE DEF more
    <3> QED
      BY <2>2, <2>4, <3>1 DEF Bit
  <2> QED
    BY <2>3, <2>4
<1>11. rest \in Seq(T)
  <2> HIDE DEF rest
  <2> QED
    BY <1>9
<1>12. pending' = rest \o more
  BY <1>3, <1>7
<1> HIDE DEF rest, more, T
<1>13. /\ pending' \in Seq(T) /\ Len(pending') = Len(rest) + Len(more)
       /\ \A k \in 1..(Len(rest) + Len(more)) :
            pending'[k] = IF k <= Len(rest) THEN rest[k] ELSE more[k - Len(rest)]
  BY <1>10, <1>11, <1>12, ConcatProperties
<1>14. Len(rest) \in Nat /\ Len(more) \in Nat
  BY <1>10, <1>11
<1>15. Len(pending') = Len(pending) + Bit(cmdValid) - Bit(answer)
  BY <1>4, <1>9, <1>10, <1>13 DEF Bit
<1>16. Len(pending') \in Nat
  BY <1>13, <1>14
<1>17. \A k \in 1..Len(pending') :
         \/ cmdValid /\ pending'[k] = command
         \/ \E j \in 1..Len(pending) : pending'[k] = pending[j]
  <2> TAKE k \in 1..Len(pending')
  <2>1. CASE k <= Len(rest)
    <3>1. k \in 1..Len(rest) /\ pending'[k] = rest[k]
      BY <1>13, <1>14, <2>1
    <3> QED
      BY <1>9, <3>1
  <2>2. CASE k > Len(rest)
    <3>1. k - Len(rest) \in 1..Len(more)
      BY <1>13, <1>14, <2>2
    <3>2. pending'[k] = more[k - Len(rest)]
      BY <1>13, <1>14, <2>2
    <3> QED
      BY <1>10, <3>1, <3>2
  <2> QED
    BY <1>14, <2>1, <2>2
<1>18. \A k \in 1..Len(pending') : pending'[k].unit = owner
  BY <1>17 DEF Routed, command
<1>19. owner = "free" => Len(pending') = 0
  BY <1>5, <1>6, <1>8, <1>15 DEF Bit
<1>20. waited' \in 0..MaxDelay
  BY <1>3, <1>5
<1>21. Len(pending) >= 1 /\ ~cmdValid =>
         Wait(Len(pending')) + waited + 1 <= Wait(Len(pending)) + waited'
  <2> SUFFICES ASSUME Len(pending) >= 1, ~cmdValid
               PROVE  Wait(Len(pending')) + waited + 1 <= Wait(Len(pending)) + waited'
    OBVIOUS
  <2>1. CASE answer
    <3>0. Bit(cmdValid) = 0 /\ Bit(answer) = 1 /\ waited' = 0
      BY <1>3, <2>1 DEF Bit
    <3>1. waited' = 0 /\ Len(pending) = Len(pending') + 1
      BY <1>4, <1>15, <1>16, <3>0
    <3>2. Wait(Len(pending)) = Wait(Len(pending')) + MaxDelay + 1 /\ Wait(Len(pending')) \in Nat
      BY <1>16, <3>1, Waiting
    <3> QED
      BY <1>5, <3>1, <3>2
  <2>2. CASE ~answer
    <3>0. Bit(cmdValid) = 0 /\ Bit(answer) = 0 /\ waited' = waited + 1
      BY <1>3, <1>4, <2>2 DEF Bit
    <3>1. waited' = waited + 1 /\ Len(pending) = Len(pending')
      BY <1>4, <1>15, <1>16, <3>0
    <3>2. Wait(Len(pending)) \in Nat
      BY <1>4, Waiting
    <3> QED
      BY <1>5, <3>1, <3>2
  <2> QED
    BY <2>1, <2>2
<1> QED
  BY <1>4, <1>6, <1>15, <1>16, <1>18, <1>19, <1>20, <1>21, <1>17

\* Who owns the bus next.
LEMMA OwnerStep ==
  ASSUME TypeOK, NEW start, NEW ready, NEW answer, Clock(start, ready, answer)
  PROVE  /\ owner = "omap" => owner' = IF omap_biu2arb_req THEN "omap" ELSE "free"
         /\ owner = "weight" => owner' = IF weight_biu2arb_req THEN "weight" ELSE "free"
         /\ owner = "imap" => owner' = IF imap_biu2arb_req THEN "imap" ELSE "free"
         /\ owner = "free" => owner' = IF omap_biu2arb_req THEN "omap"
                                       ELSE IF weight_biu2arb_req THEN "weight"
                                       ELSE IF imap_biu2arb_req THEN "imap" ELSE "free"
<1>1. owner \in {"free", "omap", "weight", "imap"}
  BY DEF TypeOK
<1>2. Arb!Grant(omap_biu2arb_req, weight_biu2arb_req, imap_biu2arb_req)
  BY DEF Clock, Arb!Clock
<1> QED
  BY <1>1, <1>2 DEF Arb!Grant

\* What a unit with the bus puts on it, and what it gets.
LEMMA Traffic ==
  ASSUME Steady, TypeOK, Queued, Routed, WeightsCounted, MapCounted,
         NEW start, NEW ready \in Ready, NEW answer \in BOOLEAN, Clock(start, ready, answer)
  PROVE  /\ owner = "weight" => (cmdValid <=> w_state # "idle")
         /\ owner = "imap" => (cmdValid <=> i_state # "idle")
         /\ owner = "omap" => (cmdValid <=> o_vld)
         /\ owner = "free" => ~cmdValid
         /\ \A u \in {"weight", "imap", "omap"} : Arb!answered(u, answer) <=> owner = u /\ answer
BY PendingStep DEF cmdValid, Arb!acc_icb_cmd_valid, Arb!answered, Arb!acc_icb_rsp_ready,
                   WeightsCounted, MapCounted

\* A weight load is begun only when none is under way; then commands and answers are counted
\* right, and the bus is kept until the last answer.
LEMMA WeightsStep ==
  ASSUME Steady, TypeOK, Counting, Queued, Routed, WeightsCounted, MapCounted,
         weight_start \in BOOLEAN, weight_start => ~weight_biu2arb_req,
         NEW start, NEW ready \in Ready, NEW answer \in BOOLEAN, Clock(start, ready, answer)
  PROVE  /\ WeightsCounted'
         /\ weight_biu2arb_req' = (weight_start \/ (weight_biu2arb_req
                                       /\ ~(owner = "weight" /\ answer /\ w_receive_cnt = W!Total - 1)))
         /\ weight_done' = (~weight_done /\ owner = "weight" /\ answer /\ w_receive_cnt = W!Total - 1)
         /\ weight_start => w_state' # "idle" /\ WIssued' = 0
         /\ ~weight_start /\ w_state = "idle" => w_state' = "idle"
         /\ w_state # "idle" =>
              /\ WIssued' = WIssued + Bit(owner = "weight")
              /\ w_state' = "idle" => owner = "weight" /\ WIssued' = W!Total
         /\ w_state # "idle" => WIssued < W!Total
         /\ owner = "weight" /\ answer /\ w_receive_cnt = W!Total - 1 =>
              w_state = "idle" /\ Len(pending') = 0
<1> DEFINE rdy == owner = "weight"
           rsp == owner = "weight" /\ answer
           last == rsp /\ w_receive_cnt = W!Total - 1
<1>0. /\ W!Kernel3 \in Nat /\ W!Kernel3 >= Words /\ W!Total = W!Kernel3 + Words
      /\ Words \in Nat /\ Words >= 1 /\ W!Total \in Nat
  BY Sizes
<1>1. /\ w_state \in {"idle", "w3", "w1"} /\ w_cnt \in 0..(W!Kernel3 - 1)
      /\ w_state = "w1" => w_cnt \in 0..(Words - 1)
      /\ w_receive_cnt \in 0..(W!Total - 1)
      /\ owner \in {"free", "omap", "weight", "imap"}
  BY DEF TypeOK, Counting
<1>2. /\ weight_biu2arb_req \in BOOLEAN /\ weight_biu2arb_vld \in BOOLEAN
      /\ weight_biu2arb_vld <=> w_state # "idle"
      /\ ~weight_biu2arb_req => w_state = "idle"
      /\ w_receive_cnt + Asked("weight") = WIssued
      /\ w_receive_cnt > 0 => owner = "weight"
  BY DEF WeightsCounted
<1>3. W!Clock(weight_start, Fsm!weight_och_cnt(out_ch_cnt), rdy, rsp)
  <2>1. Arb!rdy("weight") = rdy /\ Arb!answered("weight", answer) = rsp
    BY Traffic DEF Arb!rdy, Arb!answered, Arb!acc_icb_rsp_ready
  <2> QED
    BY <2>1 DEF Clock
<1>4. /\ w_state' = IF w_state = "idle" THEN IF weight_start THEN "w3" ELSE "idle"
                    ELSE IF w_state = "w3" /\ w_cnt = W!Kernel3 - 1 /\ rdy THEN "w1"
                    ELSE IF w_state = "w1" /\ w_cnt = Words - 1 /\ rdy THEN "idle" ELSE w_state
      /\ w_cnt' = IF w_state = "idle" \/ (w_state = "w3" /\ w_cnt = W!Kernel3 - 1 /\ rdy)
                     \/ (w_state = "w1" /\ w_cnt = Words - 1 /\ rdy) THEN 0
                  ELSE IF rdy THEN w_cnt + 1 ELSE w_cnt
  <2>1. W!issue(rdy) <=> w_state # "idle" /\ rdy
    BY <1>2 DEF W!issue
  <2>2. /\ W!Last3(rdy) <=> w_state = "w3" /\ w_cnt = W!Kernel3 - 1 /\ rdy
        /\ W!Last1(rdy) <=> w_state = "w1" /\ w_cnt = Words - 1 /\ rdy
    BY <2>1 DEF W!Last3, W!Last1
  <2>3. W!State(weight_start, rdy) /\ W!Cnt(rdy)
    BY <1>3 DEF W!Clock
  <2> HIDE DEF rdy
  <2>4. w_state' = IF w_state = "idle" THEN IF weight_start THEN "w3" ELSE "idle"
                    ELSE IF w_state = "w3" /\ w_cnt = W!Kernel3 - 1 /\ rdy THEN "w1"
                    ELSE IF w_state = "w1" /\ w_cnt = Words - 1 /\ rdy THEN "idle" ELSE w_state
    BY <1>1, <2>2, <2>3 DEF W!State
  <2>5. w_cnt' = IF w_state = "idle" \/ (w_state = "w3" /\ w_cnt = W!Kernel3 - 1 /\ rdy)
                     \/ (w_state = "w1" /\ w_cnt = Words - 1 /\ rdy) THEN 0
                  ELSE IF rdy THEN w_cnt + 1 ELSE w_cnt
    BY <1>1, <2>1, <2>2, <2>3 DEF W!Cnt
  <2> QED
    BY <2>4, <2>5
<1>5. /\ weight_biu2arb_req' = (weight_start \/ (weight_biu2arb_req /\ ~last))
      /\ weight_done' = (~weight_done /\ last)
      /\ w_receive_cnt' = IF last THEN 0 ELSE IF rsp THEN w_receive_cnt + 1 ELSE w_receive_cnt
  <2>1. W!Req(weight_start, rdy, rsp) /\ W!Done(rsp) /\ W!Receive(rsp)
    BY <1>3 DEF W!Clock
  <2>2. W!LastAnswer(rsp) <=> last
    BY DEF W!LastAnswer
  <2> HIDE DEF rsp, last
  <2> QED
    BY <2>1, <2>2 DEF W!Req, W!Done, W!Receive
<1>6. weight_biu2arb_vld' = (weight_start \/ (weight_biu2arb_vld
                                 /\ ~(w_state = "w1" /\ w_cnt = Words - 1 /\ rdy)))
  <2>1. W!Last1(rdy) <=> w_state = "w1" /\ w_cnt = Words - 1 /\ rdy
    BY <1>2 DEF W!Last1, W!issue
  <2>2. W!Vld(weight_start, rdy)
    BY <1>3 DEF W!Clock
  <2>3. weight_start => w_state = "idle"
    BY <1>2
  <2> QED
    BY <2>1, <2>2, <2>3 DEF W!Vld
<1>7. /\ answer => Len(pending) >= 1 /\ owner # "free"
      /\ Len(pending) \in Nat /\ Len(pending') \in Nat
      /\ Len(pending') = Len(pending) + Bit(cmdValid) - Bit(answer)
      /\ owner = "free" => Len(pending') = 0
      /\ owner = "free" => Len(pending) = 0
  BY PendingStep DEF Routed
<1>8. owner = "weight" => (cmdValid <=> w_state # "idle")
  BY Traffic
<1>9. w_state # "idle" => WIssued < W!Total /\ WIssued \in Nat
  BY <1>0, <1>1 DEF WIssued
<1>10. last => w_state = "idle" /\ Len(pending) = 1 /\ Len(pending') = 0
  <2> SUFFICES ASSUME last PROVE w_state = "idle" /\ Len(pending) = 1 /\ Len(pending') = 0
    OBVIOUS
  <2>1. Asked("weight") = Len(pending) /\ Len(pending) >= 1 /\ w_receive_cnt = W!Total - 1
    BY <1>7 DEF Asked
  <2>2. WIssued >= W!Total
    BY <1>0, <1>2, <1>7, <2>1
  <2>3. w_state = "idle"
    BY <1>0, <1>9, <2>2
  <2>4. WIssued <= W!Total
    BY <1>0, <2>3 DEF WIssued
  <2>5. Len(pending) = 1
    BY <1>0, <1>2, <1>7, <2>1, <2>4
  <2>6. Bit(cmdValid) = 0 /\ Bit(answer) = 1
    BY <1>8, <2>3 DEF Bit
  <2>7. Len(pending') = 1 + 0 - 1
    BY <1>7, <2>5, <2>6
  <2>8. Len(pending') = 0
    BY <2>7
  <2> QED
    BY <2>3, <2>5, <2>8
<1>11. w_state # "idle" => /\ WIssued' = WIssued + Bit(rdy)
                           /\ w_state' = "idle" => rdy /\ WIssued' = W!Total
  <2> SUFFICES ASSUME w_state # "idle"
               PROVE  /\ WIssued' = WIssued + Bit(rdy)
                      /\ w_state' = "idle" => rdy /\ WIssued' = W!Total
    OBVIOUS
  <2>1. weight_biu2arb_req /\ ~weight_start /\ ~last
    BY <1>2, <1>10
  <2>2. weight_biu2arb_req'
    BY <1>5, <2>1
  <2> HIDE DEF rdy
  <2>3. CASE w_state = "w3"
    BY <1>0, <1>1, <1>4, <2>2, <2>3 DEF WIssued, Bit
  <2>4. CASE w_state = "w1"
    BY <1>0, <1>1, <1>4, <2>2, <2>4 DEF WIssued, Bit
  <2> QED
    BY <1>1, <2>3, <2>4
<1>12. weight_start => w_state' # "idle" /\ WIssued' = 0
  BY <1>2, <1>4 DEF WIssued
<1>13. ~weight_start /\ w_state = "idle" => w_state' = "idle"
  BY <1>4
<1>14. W!Total' = W!Total
  BY DEF W!Total, W!Kernel3
<1>15. /\ weight_biu2arb_req' \in BOOLEAN /\ weight_biu2arb_vld' \in BOOLEAN
       /\ weight_biu2arb_vld' <=> w_state' # "idle"
       /\ ~weight_biu2arb_req' => w_state' = "idle"
  <2>1. weight_biu2arb_req' \in BOOLEAN /\ weight_biu2arb_vld' \in BOOLEAN
    BY <1>5, <1>6
  <2>2. weight_biu2arb_vld' <=> w_state' # "idle"
    <3> HIDE DEF rdy
    <3>1. weight_start => w_state = "idle"
      BY <1>2
    <3> QED
      BY <1>1, <1>2, <1>4, <1>6, <3>1
  <2>3. ~weight_biu2arb_req' => w_state' = "idle"
    <3>1. CASE weight_biu2arb_req /\ ~last
      BY <1>5, <3>1
    <3>2. CASE last
      <4>1. (w_state = "idle" /\ ~weight_start) \/ weight_biu2arb_req'
        BY <1>5, <1>10, <3>2
      <4> QED
        BY <1>13, <4>1
    <3>3. CASE ~weight_biu2arb_req
      <4>1. w_state = "idle"
        BY <1>2, <3>3
      <4> QED
        BY <1>5, <1>13, <4>1
    <3> QED
      BY <3>1, <3>2, <3>3
  <2> QED
    BY <2>1, <2>2, <2>3
<1>16. /\ w_receive_cnt' + Asked("weight")' = WIssued'
       /\ w_receive_cnt' > 0 => owner' = "weight"
  <2>0. /\ owner = "weight" => owner' = IF weight_biu2arb_req THEN "weight" ELSE "free"
        /\ owner # "weight" /\ owner # "free" => owner' # "weight"
        /\ owner = "free" /\ owner' = "weight" => weight_biu2arb_req
    BY <1>1, OwnerStep
  <2>1. CASE ~weight_biu2arb_req
    <3>1. w_state = "idle" /\ WIssued = 0
      BY <1>2, <2>1 DEF WIssued
    <3>2. w_receive_cnt = 0 /\ Asked("weight") = 0
      BY <1>1, <1>2, <1>7, <3>1 DEF Asked
    <3>3. ~rsp
      BY <1>7, <3>2 DEF Asked
    <3>4. w_receive_cnt' = 0
      BY <1>5, <3>2, <3>3
    <3>5. owner' # "weight"
      BY <2>0, <2>1
    <3>6. WIssued' = 0
      <4>1. CASE weight_start
        BY <1>12, <4>1
      <4>2. CASE ~weight_start
        BY <1>5, <1>13, <2>1, <3>1, <4>2 DEF WIssued
      <4> QED
        BY <4>1, <4>2
    <3> QED
      BY <3>4, <3>5, <3>6 DEF Asked
  <2>2. CASE weight_biu2arb_req /\ owner # "weight"
    <3>1. ~rsp /\ ~rdy /\ ~last /\ Asked("weight") = 0 /\ ~weight_start
      BY <2>2 DEF Asked
    <3>2. w_receive_cnt' = w_receive_cnt /\ weight_biu2arb_req'
      BY <1>5, <2>2, <3>1
    <3>3. WIssued' = WIssued
      <4>1. CASE w_state = "idle"
        BY <1>13, <1>14, <2>2, <3>1, <3>2, <4>1 DEF WIssued
      <4>2. CASE w_state # "idle"
        BY <1>9, <1>11, <3>1, <4>2 DEF Bit
      <4> QED
        BY <4>1, <4>2
    <3>4. Asked("weight")' = 0
      <4>1. owner' = "weight" => owner = "free"
        BY <2>0, <2>2
      <4> QED
        BY <1>7, <4>1 DEF Asked
    <3>5. ~(w_receive_cnt > 0)
      BY <1>2, <2>2
    <3> QED
      BY <1>1, <1>2, <3>1, <3>2, <3>3, <3>4, <3>5
  <2>3. CASE weight_biu2arb_req /\ owner = "weight"
    <3>1. owner' = "weight" /\ ~weight_start
      BY <2>0, <2>3
    <3>2. Asked("weight") = Len(pending) /\ Asked("weight")' = Len(pending')
      BY <2>3, <3>1 DEF Asked
    <3>3. CASE last
      <4>1. w_receive_cnt' = 0 /\ ~weight_biu2arb_req' /\ w_state' = "idle"
        BY <1>5, <1>10, <1>13, <3>1, <3>3
      <4>2. WIssued' = 0
        BY <4>1 DEF WIssued
      <4> QED
        BY <1>10, <3>2, <3>3, <4>1, <4>2
    <3>4. CASE ~last
      <4>1. w_receive_cnt' = w_receive_cnt + Bit(answer)
        BY <1>1, <1>5, <2>3, <3>4 DEF Bit
      <4>2. weight_biu2arb_req'
        BY <1>5, <2>3, <3>4
      <4>3. WIssued' = WIssued + Bit(cmdValid)
        <5>1. CASE w_state = "idle"
          <6>1. WIssued' = W!Total /\ WIssued = W!Total
            BY <1>13, <1>14, <2>3, <3>1, <4>2, <5>1 DEF WIssued
          <6>2. Bit(cmdValid) = 0
            BY <1>8, <2>3, <5>1 DEF Bit
          <6> QED
            BY <1>0, <6>1, <6>2
        <5>2. CASE w_state # "idle"
          <6>1. Bit(cmdValid) = 1 /\ Bit(rdy) = 1
            BY <1>8, <2>3, <5>2 DEF Bit
          <6> QED
            BY <1>11, <5>2, <6>1
        <5> QED
          BY <5>1, <5>2
      <4>4. Bit(cmdValid) \in 0..1 /\ Bit(answer) \in 0..1
        BY DEF Bit
      <4> QED
        BY <1>1, <1>2, <1>7, <3>1, <3>2, <4>1, <4>3, <4>4
    <3> QED
      BY <3>3, <3>4
  <2> QED
    BY <1>2, <2>1, <2>2, <2>3
<1>17. WeightsCounted'
  BY <1>15, <1>16 DEF WeightsCounted
<1> QED
  BY <1>5, <1>9, <1>10, <1>11, <1>12, <1>13, <1>17

\* The same of the load of a map.
LEMMA MapStep ==
  ASSUME Steady, TypeOK, Queued, Routed, WeightsCounted, MapCounted,
         imap_start \in BOOLEAN, imap_start => ~imap_biu2arb_req,
         NEW start, NEW ready \in Ready, NEW answer \in BOOLEAN, Clock(start, ready, answer)
  PROVE  /\ MapCounted'
         /\ imap_biu2arb_req' = (imap_start \/ (imap_biu2arb_req
                                     /\ ~(owner = "imap" /\ answer /\ i_receive_cnt = ImapWords - 1)))
         /\ imap_done' = (~imap_done /\ owner = "imap" /\ answer /\ i_receive_cnt = ImapWords - 1)
<1> DEFINE rdy == owner = "imap"
           rsp == owner = "imap" /\ answer
           last == rsp /\ i_receive_cnt = ImapWords - 1
<1>0. ImapWords \in Nat /\ ImapWords >= 1
  BY Sizes
<1>1. /\ i_state \in {"idle", "run"} /\ i_cnt \in 0..(ImapWords - 1)
      /\ i_receive_cnt \in 0..(ImapWords - 1)
      /\ owner \in {"free", "omap", "weight", "imap"}
  BY DEF TypeOK
<1>2. /\ imap_biu2arb_req \in BOOLEAN /\ imap_biu2arb_vld \in BOOLEAN
      /\ imap_biu2arb_vld <=> i_state # "idle"
      /\ ~imap_biu2arb_req => i_state = "idle"
      /\ i_receive_cnt + Asked("imap") = IIssued
  BY DEF MapCounted
<1>3. \E data : I!Clock(imap_start, rdy, rsp, data)
  <2>1. Arb!rdy("imap") = rdy /\ Arb!answered("imap", answer) = rsp
    BY Traffic DEF Arb!rdy, Arb!answered, Arb!acc_icb_rsp_ready
  <2> QED
    BY <2>1 DEF Clock
<1>4. PICK data : I!Clock(imap_start, rdy, rsp, data)
  BY <1>3
<1>5. /\ i_state' = IF i_state = "idle" THEN IF imap_start THEN "run" ELSE "idle"
                    ELSE IF i_cnt = ImapWords - 1 /\ rdy THEN "idle" ELSE "run"
      /\ i_state = "idle" => i_cnt' = 0
      /\ i_state = "run" /\ i_cnt # ImapWords - 1 => i_cnt' = IF rdy THEN i_cnt + 1 ELSE i_cnt
      /\ i_state = "run" /\ ~rdy => i_cnt' = i_cnt
  <2>1. I!issue(rdy) <=> i_state # "idle" /\ rdy
    BY <1>2 DEF I!issue
  <2>2. I!LastIssue(rdy) <=> i_cnt = ImapWords - 1 /\ i_state # "idle" /\ rdy
    BY <2>1 DEF I!LastIssue
  <2>3. I!State(imap_start, rdy) /\ I!Cnt(rdy)
    BY <1>4 DEF I!Clock
  <2> HIDE DEF rdy
  <2>4. i_state' = IF i_state = "idle" THEN IF imap_start THEN "run" ELSE "idle"
                    ELSE IF i_cnt = ImapWords - 1 /\ rdy THEN "idle" ELSE "run"
    BY <1>1, <2>2, <2>3 DEF I!State
  <2>5. /\ i_state = "idle" => i_cnt' = 0
        /\ i_state = "run" /\ i_cnt # ImapWords - 1 => i_cnt' = IF rdy THEN i_cnt + 1 ELSE i_cnt
        /\ i_state = "run" /\ ~rdy => i_cnt' = i_cnt
    BY <1>1, <2>1, <2>2, <2>3 DEF I!Cnt
  <2> QED
    BY <2>4, <2>5
<1>6. /\ imap_biu2arb_req' = (imap_start \/ (imap_biu2arb_req /\ ~last))
      /\ imap_done' = (~imap_done /\ last)
      /\ i_receive_cnt' = IF last THEN 0 ELSE IF rsp THEN i_receive_cnt + 1 ELSE i_receive_cnt
  <2>1. I!Req(imap_start, rsp) /\ I!Done(rsp) /\ I!ReceiveCnt(rsp)
    BY <1>4 DEF I!Clock
  <2>2. I!LastAnswer(rsp) <=> last
    BY DEF I!LastAnswer
  <2> HIDE DEF rsp, last
  <2> QED
    BY <2>1, <2>2 DEF I!Req, I!Done, I!ReceiveCnt
<1>7. imap_biu2arb_vld' = (imap_start \/ (imap_biu2arb_vld /\ ~(i_cnt = ImapWords - 1 /\ rdy)))
  <2>1. I!LastIssue(rdy) <=> i_cnt = ImapWords - 1 /\ i_state # "idle" /\ rdy
    BY <1>2 DEF I!LastIssue, I!issue
  <2>2. I!Vld(imap_start, rdy)
    BY <1>4 DEF I!Clock
  <2>3. imap_start => i_state = "idle"
    BY <1>2
  <2> QED
    BY <1>2, <2>1, <2>2, <2>3 DEF I!Vld
<1>8. /\ answer => Len(pending) >= 1 /\ owner # "free"
      /\ Len(pending) \in Nat /\ Len(pending') \in Nat
      /\ Len(pending') = Len(pending) + Bit(cmdValid) - Bit(answer)
      /\ owner = "free" => Len(pending') = 0
      /\ owner = "free" => Len(pending) = 0
  BY PendingStep DEF Routed
<1>9. owner = "imap" => (cmdValid <=> i_state # "idle")
  BY Traffic
<1>10. /\ i_state # "idle" => IIssued < ImapWords /\ IIssued \in Nat
       /\ IIssued <= ImapWords
  BY <1>0, <1>1 DEF IIssued
<1>11. last => i_state = "idle" /\ Len(pending') = 0
  <2> SUFFICES ASSUME last PROVE i_state = "idle" /\ Len(pending') = 0
    OBVIOUS
  <2>1. Asked("imap") = Len(pending) /\ Len(pending) >= 1 /\ i_receive_cnt = ImapWords - 1
    BY <1>8 DEF Asked
  <2>2. IIssued >= ImapWords
    BY <1>0, <1>2, <1>8, <2>1
  <2>3. i_state = "idle"
    BY <1>0, <1>10, <2>2
  <2>4. Len(pending) = 1
    BY <1>0, <1>2, <1>8, <1>10, <2>1
  <2>5. Bit(cmdValid) = 0 /\ Bit(answer) = 1
    BY <1>9, <2>3 DEF Bit
  <2>6. Len(pending') = 1 + 0 - 1
    BY <1>8, <2>4, <2>5
  <2>7. Len(pending') = 0
    BY <2>6
  <2> QED
    BY <2>3, <2>7
<1>12. i_state # "idle" => IIssued' = IIssued + Bit(rdy)
  <2> SUFFICES ASSUME i_state # "idle" PROVE IIssued' = IIssued + Bit(rdy)
    OBVIOUS
  <2>1. imap_biu2arb_req /\ ~imap_start /\ ~last /\ i_state = "run"
    BY <1>1, <1>2, <1>11
  <2>2. imap_biu2arb_req'
    BY <1>6, <2>1
  <2> HIDE DEF rdy, last
  <2>3. CASE i_cnt = ImapWords - 1 /\ rdy
    BY <1>0, <1>1, <1>5, <2>1, <2>2, <2>3 DEF IIssued, Bit
  <2>4. CASE i_cnt # ImapWords - 1
    BY <1>0, <1>1, <1>5, <2>1, <2>2, <2>4 DEF IIssued, Bit
  <2>5. CASE ~rdy
    BY <1>0, <1>1, <1>5, <2>1, <2>2, <2>5 DEF IIssued, Bit
  <2> QED
    BY <2>3, <2>4, <2>5
<1>13. imap_start => IIssued' = 0
  BY <1>2, <1>5 DEF IIssued
<1>14. ~imap_start /\ i_state = "idle" => i_state' = "idle"
  BY <1>5
<1>15. /\ imap_biu2arb_req' \in BOOLEAN /\ imap_biu2arb_vld' \in BOOLEAN
       /\ imap_biu2arb_vld' <=> i_state' # "idle"
       /\ ~imap_biu2arb_req' => i_state' = "idle"
  <2>1. imap_biu2arb_req' \in BOOLEAN /\ imap_biu2arb_vld' \in BOOLEAN
    BY <1>6, <1>7
  <2>2. imap_biu2arb_vld' <=> i_state' # "idle"
    <3> HIDE DEF rdy
    <3>1. imap_start => i_state = "idle"
      BY <1>2
    <3> QED
      BY <1>1, <1>2, <1>5, <1>7, <3>1
  <2>3. ~imap_biu2arb_req' => i_state' = "idle"
    <3>1. CASE imap_biu2arb_req /\ ~last
      BY <1>6, <3>1
    <3>2. CASE last
      <4>1. (i_state = "idle" /\ ~imap_start) \/ imap_biu2arb_req'
        BY <1>6, <1>11, <3>2
      <4> QED
        BY <1>14, <4>1
    <3>3. CASE ~imap_biu2arb_req
      <4>1. i_state = "idle"
        BY <1>2, <3>3
      <4> QED
        BY <1>6, <1>14, <4>1
    <3> QED
      BY <3>1, <3>2, <3>3
  <2> QED
    BY <2>1, <2>2, <2>3
<1>16. i_receive_cnt' + Asked("imap")' = IIssued'
  <2>0. /\ owner = "imap" => owner' = IF imap_biu2arb_req THEN "imap" ELSE "free"
        /\ owner # "imap" /\ owner # "free" => owner' # "imap"
        /\ owner = "free" /\ owner' = "imap" => imap_biu2arb_req
    BY <1>1, OwnerStep
  <2>1. CASE ~imap_biu2arb_req
    <3>1. i_state = "idle" /\ IIssued = 0
      BY <1>2, <2>1 DEF IIssued
    <3>2. i_receive_cnt = 0 /\ Asked("imap") = 0
      BY <1>1, <1>2, <1>8, <3>1 DEF Asked
    <3>3. ~rsp
      BY <1>8, <3>2 DEF Asked
    <3>4. i_receive_cnt' = 0
      BY <1>6, <3>2, <3>3
    <3>5. owner' # "imap"
      BY <2>0, <2>1
    <3>6. IIssued' = 0
      <4>1. CASE imap_start
        BY <1>13, <4>1
      <4>2. CASE ~imap_start
        BY <1>6, <1>14, <2>1, <3>1, <4>2 DEF IIssued
      <4> QED
        BY <4>1, <4>2
    <3> QED
      BY <3>4, <3>5, <3>6 DEF Asked
  <2>2. CASE imap_biu2arb_req /\ owner # "imap"
    <3>1. ~rsp /\ ~rdy /\ ~last /\ Asked("imap") = 0 /\ ~imap_start
      BY <2>2 DEF Asked
    <3>2. i_receive_cnt' = i_receive_cnt /\ imap_biu2arb_req'
      BY <1>6, <2>2, <3>1
    <3>3. IIssued' = IIssued
      <4>1. CASE i_state = "idle"
        BY <1>14, <2>2, <3>1, <3>2, <4>1 DEF IIssued
      <4>2. CASE i_state # "idle"
        BY <1>10, <1>12, <3>1, <4>2 DEF Bit
      <4> QED
        BY <4>1, <4>2
    <3>4. Asked("imap")' = 0
      <4>1. owner' = "imap" => owner = "free"
        BY <2>0, <2>2
      <4> QED
        BY <1>8, <4>1 DEF Asked
    <3> QED
      BY <1>1, <1>2, <3>1, <3>2, <3>3, <3>4
  <2>3. CASE imap_biu2arb_req /\ owner = "imap"
    <3>1. owner' = "imap" /\ ~imap_start
      BY <2>0, <2>3
    <3>2. Asked("imap") = Len(pending) /\ Asked("imap")' = Len(pending')
      BY <2>3, <3>1 DEF Asked
    <3>3. CASE last
      <4>1. i_receive_cnt' = 0 /\ ~imap_biu2arb_req' /\ i_state' = "idle"
        BY <1>6, <1>11, <1>14, <3>1, <3>3
      <4>2. IIssued' = 0
        BY <4>1 DEF IIssued
      <4> QED
        BY <1>11, <3>2, <3>3, <4>1, <4>2
    <3>4. CASE ~last
      <4>1. i_receive_cnt' = i_receive_cnt + Bit(answer)
        BY <1>1, <1>6, <2>3, <3>4 DEF Bit
      <4>2. imap_biu2arb_req'
        BY <1>6, <2>3, <3>4
      <4>3. IIssued' = IIssued + Bit(cmdValid)
        <5>1. CASE i_state = "idle"
          <6>1. IIssued' = ImapWords /\ IIssued = ImapWords
            BY <1>14, <2>3, <3>1, <4>2, <5>1 DEF IIssued
          <6>2. Bit(cmdValid) = 0
            BY <1>9, <2>3, <5>1 DEF Bit
          <6> QED
            BY <1>0, <6>1, <6>2
        <5>2. CASE i_state # "idle"
          <6>1. Bit(cmdValid) = 1 /\ Bit(rdy) = 1
            BY <1>9, <2>3, <5>2 DEF Bit
          <6> QED
            BY <1>12, <5>2, <6>1
        <5> QED
          BY <5>1, <5>2
      <4>4. Bit(cmdValid) \in 0..1 /\ Bit(answer) \in 0..1
        BY DEF Bit
      <4> QED
        BY <1>1, <1>2, <1>8, <3>1, <3>2, <4>1, <4>3, <4>4
    <3> QED
      BY <3>3, <3>4
  <2> QED
    BY <1>2, <2>1, <2>2, <2>3
<1>17. MapCounted'
  BY <1>15, <1>16 DEF MapCounted
<1> QED
  BY <1>6, <1>17

(***************************************************************************)
(* What leaves the array, and the output path.                              *)
(***************************************************************************)
\* Six clocks lie between the pixel that enters and the one that leaves: the pass of the
\* pixel that leaves follows from the pass and the position of the one that enters.
Leaving ==
  /\ second => vld_d[6]
  /\ A!array_en /\ in_ch_cnt = 1 => (second <=> A!position >= 6)
  /\ A!array_en /\ in_ch_cnt = 0 => (second <=> A!position < 6 /\ out_ch_cnt > 0)
  /\ second /\ omap_cnt = A!Pixels - 1 =>
       a_state = "array_cool_down" \/ (A!array_en /\ in_ch_cnt = 0 /\ A!position = 5)
  /\ ~second /\ omap_cnt = A!Pixels - 1 =>
       A!array_en /\ in_ch_cnt = 1 /\ A!position = 5
  /\ A!LastOut /\ A!LastMap => a_state = "array_cool_down"
  /\ a_state = "array_cool_down" => second
  /\ a_state \in {"idle", "array_setup"} => /\ ~second /\ ~vld_d[6]
                                            /\ omap_ch_cnt = 0 /\ omap_cnt = 0
  /\ ~A!array_en => in_ch_cnt = 0 /\ out_ch_cnt = 0 /\ A!position = 0

\* That is what the balance of the sequencer says.
LEMMA PixelLeaving == ASSUME A!IInv PROVE Leaving
<1>1. /\ A!TypeOK /\ A!ZoneMatchesPixel /\ A!Balance
      /\ NOCH \in Nat /\ NOCH >= 1 /\ A!Pixels \in Nat /\ A!Pixels >= 9
      /\ A!Total = (2 * NOCH) * A!Pixels /\ A!Total \in Nat
  BY A!Bounds, Assumptions DEF A!IInv
<1>2. /\ in_ch_cnt \in 0..1 /\ out_ch_cnt \in 0..(NOCH - 1)
      /\ omap_cnt \in 0..(A!Pixels - 1) /\ omap_ch_cnt \in 0..(2 * NOCH - 1)
      /\ vld_d \in [1..6 -> BOOLEAN]
      /\ a_state \in A!Zones \cup {"idle", "array_setup", "array_cool_down"}
  BY <1>1 DEF A!TypeOK, A!Delay, A!States
<1>3. /\ A!position \in 0..(A!Pixels - 1) /\ A!pass \in 0..(2 * NOCH - 1)
      /\ A!Issued = A!pass * A!Pixels + A!position
  BY <1>1, A!Digits, Assumptions
<1>4. A!pass = 2 * out_ch_cnt + in_ch_cnt
  BY DEF A!pass
<1>5. A!Delivered = omap_ch_cnt * A!Pixels + omap_cnt /\ omap_ch_cnt * A!Pixels \in Nat
  <2>1. omap_ch_cnt \in Nat
    BY <1>1, <1>2
  <2> QED
    BY <1>1, <2>1, SMT DEF A!Delivered
<1>6. ~A!array_en => in_ch_cnt = 0 /\ out_ch_cnt = 0 /\ A!position = 0
  <2>1. ~A!array_en => in_ch_cnt = 0 /\ out_ch_cnt = 0
    BY <1>1 DEF A!ZoneMatchesPixel, A!array_en
  <2> QED
    BY <2>1, AtFirstPixel
<1>7. A!array_en <=> a_state \in A!Zones
  BY DEF A!array_en
<1>8. "idle" \notin A!Zones /\ "array_setup" \notin A!Zones /\ "array_cool_down" \notin A!Zones
  BY DEF A!Zones
<1>9. \A p, q \in Nat, x, y \in 0..(A!Pixels - 1) :
        p * A!Pixels + x = q * A!Pixels + y => p = q /\ x = y
  <2> SUFFICES ASSUME NEW p \in Nat, NEW q \in Nat, NEW x \in 0..(A!Pixels - 1),
                      NEW y \in 0..(A!Pixels - 1), p * A!Pixels + x = q * A!Pixels + y
               PROVE  p = q /\ x = y
    OBVIOUS
  <2>1. A!Pixels >= 1
    BY <1>1
  <2>2. p = q
    BY <1>1, <2>1, A!DigitsUnique, Assumptions
  <2>3. p * A!Pixels \in Nat
    BY <1>1, SMT
  <2> QED
    BY <1>1, <2>2, <2>3
<1>10. CASE a_state \in {"idle", "array_setup"}
  <2>1. ~vld_d[6] /\ A!Delivered = 0
    BY <1>1, <1>10 DEF A!Balance
  <2>2. omap_ch_cnt = 0 /\ omap_cnt = 0
    <3>1. 0 * A!Pixels + 0 = 0 /\ 0 \in 0..(A!Pixels - 1)
      BY <1>1
    <3>2. omap_ch_cnt * A!Pixels + omap_cnt = 0 * A!Pixels + 0
      BY <1>5, <2>1, <3>1
    <3> QED
      BY <1>1, <1>2, <1>9, <3>1, <3>2
  <2>3. ~second /\ omap_cnt # A!Pixels - 1
    BY <1>1, <2>2 DEF second
  <2>4. ~A!array_en /\ a_state # "array_cool_down" /\ ~A!LastOut
    BY <1>7, <1>8, <1>10, <2>3 DEF A!LastOut
  <2> QED
    BY <1>6, <2>1, <2>2, <2>3, <2>4 DEF Leaving
<1>11. CASE a_state = "array_cool_down"
  <2>1. A!Draining(vld_d) /\ vld_d[6] /\ A!Delivered + A!Sum6(vld_d) = A!Total
    BY <1>1, <1>11 DEF A!Balance
  <2>2. A!Sum6(vld_d) \in 1..6
    <3>1. vld_d[1] \in BOOLEAN /\ vld_d[2] \in BOOLEAN /\ vld_d[3] \in BOOLEAN
          /\ vld_d[4] \in BOOLEAN /\ vld_d[5] \in BOOLEAN /\ vld_d[6] \in BOOLEAN
      BY <1>2
    <3>2. A!Bit(vld_d[6]) = 1
      BY <2>1 DEF A!Bit
    <3>3. \A b \in BOOLEAN : A!Bit(b) \in 0..1
      BY DEF A!Bit
    <3>4. A!Bit(vld_d[1]) \in 0..1 /\ A!Bit(vld_d[2]) \in 0..1 /\ A!Bit(vld_d[3]) \in 0..1
          /\ A!Bit(vld_d[4]) \in 0..1 /\ A!Bit(vld_d[5]) \in 0..1
      BY <3>1, <3>3
    <3> QED
      BY <3>2, <3>4 DEF A!Sum6
  <2> DEFINE n == A!Sum6(vld_d)
             last == 2 * NOCH - 1
             left == A!Pixels - n
  <2>3. n \in 1..6 /\ A!Delivered + n = A!Total
    BY <2>1, <2>2
  <2> HIDE DEF n
  <2>4. last \in Nat /\ A!Total = last * A!Pixels + A!Pixels /\ last * A!Pixels \in Nat
    <3>1. last \in Nat /\ 2 * NOCH = last + 1
      BY <1>1
    <3> HIDE DEF last
    <3>2. (last + 1) * A!Pixels = last * A!Pixels + A!Pixels /\ last * A!Pixels \in Nat
      BY <1>1, <3>1, SMT
    <3> QED
      BY <1>1, <3>1, <3>2
  <2>5. left \in 0..(A!Pixels - 1) /\ omap_ch_cnt * A!Pixels + omap_cnt = last * A!Pixels + left
    <3> HIDE DEF last
    <3> QED
      BY <1>1, <1>2, <1>5, <2>3, <2>4
  <2> HIDE DEF left
  <2>6. omap_ch_cnt = last /\ omap_cnt = left
    <3>1. omap_ch_cnt \in Nat
      BY <1>1, <1>2
    <3> QED
      BY <1>2, <1>9, <2>4, <2>5, <3>1
  <2>7. second
    BY <1>1, <2>6 DEF second
  <2> QED
    BY <1>6, <1>7, <1>8, <1>11, <2>1, <2>7 DEF Leaving
<1>12. CASE A!array_en /\ ~vld_d[6]
  <2>1. A!Delivered = 0 /\ A!Issued = A!Sum6(vld_d)
    <3>1. /\ A!Delivered = 0 /\ A!Issued = A!Delivered + A!Sum6(vld_d)
      BY <1>1, <1>12 DEF A!Balance
    <3>2. A!Issued \in Nat
      BY <1>1, <1>3, SMT
    <3>3. A!Sum6(vld_d) \in Nat
      BY DEF A!Sum6, A!Bit
    <3> QED
      BY <3>1, <3>2, <3>3
  <2>2. A!Issued <= 5
    <3>1. A!Bit(vld_d[6]) = 0
      BY <1>12 DEF A!Bit
    <3>2. A!Bit(vld_d[1]) \in 0..1 /\ A!Bit(vld_d[2]) \in 0..1 /\ A!Bit(vld_d[3]) \in 0..1
          /\ A!Bit(vld_d[4]) \in 0..1 /\ A!Bit(vld_d[5]) \in 0..1
      BY DEF A!Bit
    <3> QED
      BY <2>1, <3>1, <3>2 DEF A!Sum6
  <2>3. omap_ch_cnt = 0 /\ omap_cnt = 0
    <3>1. 0 * A!Pixels + 0 = 0 /\ 0 \in 0..(A!Pixels - 1)
      BY <1>1
    <3>2. omap_ch_cnt * A!Pixels + omap_cnt = 0 * A!Pixels + 0
      BY <1>5, <2>1, <3>1
    <3> QED
      BY <1>1, <1>2, <1>9, <3>1, <3>2
  <2>4. A!pass = 0 /\ A!position <= 5
    <3>1. A!pass \in Nat /\ A!position \in Nat
      BY <1>1, <1>3
    <3>2. A!pass # 0 => A!pass * A!Pixels >= A!Pixels
      <4> SUFFICES ASSUME A!pass >= 1 PROVE A!pass * A!Pixels >= A!Pixels
        BY <3>1
      <4>1. A!pass * A!Pixels = (A!pass - 1) * A!Pixels + A!Pixels
            /\ (A!pass - 1) * A!Pixels \in Nat
        BY <1>1, <3>1, SMT
      <4> QED
        BY <1>1, <4>1
    <3>3. A!pass * A!Pixels \in Nat
      BY <1>1, <3>1, SMT
    <3>4. A!pass = 0
      BY <1>1, <1>3, <2>2, <3>1, <3>2, <3>3
    <3>5. A!position <= 5
      BY <1>1, <1>3, <2>2, <3>1, <3>3
    <3> QED
      BY <3>4, <3>5
  <2>5. in_ch_cnt = 0 /\ out_ch_cnt = 0
    BY <1>1, <1>2, <1>4, <2>4
  <2>6. ~second /\ omap_cnt # A!Pixels - 1 /\ ~A!LastOut
    BY <1>1, <2>3 DEF second, A!LastOut
  <2> QED
    BY <1>7, <1>8, <1>12, <2>3, <2>5, <2>6 DEF Leaving
<1>13. CASE A!array_en /\ vld_d[6]
  <2>1. A!Issued = A!Delivered + 6
    <3>1. A!Issued = A!Delivered + A!Sum6(vld_d) /\ A!Filling(vld_d)
      BY <1>1, <1>13 DEF A!Balance
    <3>2. vld_d[1] /\ vld_d[2] /\ vld_d[3] /\ vld_d[4] /\ vld_d[5] /\ vld_d[6]
      BY <1>13, <3>1 DEF A!Filling
    <3> QED
      BY <3>1, <3>2 DEF A!Sum6, A!Bit
  <2>2. CASE A!position >= 6
    <3> DEFINE x == A!position - 6
    <3>0. A!pass * A!Pixels \in Nat /\ A!pass \in Nat
      BY <1>1, <1>3, SMT
    <3>1. x \in 0..(A!Pixels - 1) /\ omap_ch_cnt * A!Pixels + omap_cnt = A!pass * A!Pixels + x
      BY <1>1, <1>2, <1>3, <1>5, <2>1, <2>2, <3>0
    <3>2. x # A!Pixels - 1 /\ x >= 0
      BY <1>1, <1>3, <2>2
    <3> HIDE DEF x
    <3>3. omap_ch_cnt = A!pass /\ omap_cnt = x
      <4>1. omap_ch_cnt \in Nat
        BY <1>1, <1>2
      <4> QED
        BY <1>2, <1>9, <3>0, <3>1, <4>1
    <3>4. second <=> in_ch_cnt = 1
      BY <1>1, <1>2, <1>4, <3>3 DEF second
    <3>5. omap_cnt # A!Pixels - 1 /\ ~A!LastOut
      BY <3>2, <3>3 DEF A!LastOut
    <3>6. ~(A!position < 6)
      BY <1>1, <1>3, <2>2
    <3> QED
      BY <1>2, <1>7, <1>8, <1>13, <2>2, <3>4, <3>5, <3>6 DEF Leaving
  <2>3. CASE A!position < 6
    <3> DEFINE x == A!Pixels - 6 + A!position
               p == A!pass - 1
    <3>1. A!pass >= 1
      <4>1. A!pass = 0 => A!Issued = A!position
        BY <1>1, <1>3
      <4>2. A!Delivered \in Nat
        BY <1>1, <1>2, <1>5
      <4> QED
        BY <1>1, <1>3, <2>1, <2>3, <4>1, <4>2
    <3>2. p \in Nat /\ A!pass = p + 1
      BY <1>1, <1>3, <3>1
    <3> HIDE DEF p
    <3>3. A!pass * A!Pixels = p * A!Pixels + A!Pixels /\ p * A!Pixels \in Nat
      BY <1>1, <3>2, SMT
    <3>4. x \in 0..(A!Pixels - 1) /\ omap_ch_cnt * A!Pixels + omap_cnt = p * A!Pixels + x
      BY <1>1, <1>2, <1>3, <1>5, <2>1, <2>3, <3>3
    <3>5. x = A!Pixels - 1 <=> A!position = 5
      BY <1>1, <1>3, <2>3
    <3> HIDE DEF x
    <3>6. omap_ch_cnt = p /\ omap_cnt = x
      <4>1. omap_ch_cnt \in Nat
        BY <1>1, <1>2
      <4> QED
        BY <1>2, <1>9, <3>2, <3>4, <4>1
    <3>7. p = 2 * out_ch_cnt + in_ch_cnt - 1
      BY <1>1, <1>2, <1>4, <3>2
    <3>8. in_ch_cnt = 1 => ~second
      BY <1>1, <1>2, <3>6, <3>7 DEF second
    <3>9. in_ch_cnt = 0 => second /\ out_ch_cnt > 0
      <4>1. in_ch_cnt = 0 => p = 2 * (out_ch_cnt - 1) + 1 /\ out_ch_cnt >= 1
        BY <1>1, <1>2, <3>2, <3>7
      <4> QED
        BY <1>1, <1>2, <3>6, <4>1 DEF second
    <3>10. ~(A!LastOut /\ A!LastMap)
      <4>1. p # 2 * NOCH - 1
        BY <1>1, <1>3, <3>2
      <4> QED
        BY <3>6, <4>1 DEF A!LastMap
    <3>11. ~(A!position >= 6)
      BY <1>1, <1>3, <2>3
    <3> QED
      BY <1>2, <1>7, <1>8, <1>13, <2>3, <3>5, <3>6, <3>8, <3>9, <3>10, <3>11 DEF Leaving
  <2> QED
    BY <1>1, <1>3, <2>2, <2>3
<1> QED
  BY <1>2, <1>7, <1>10, <1>11, <1>12, <1>13

\* The theorems about the output path assume what is assumed here.
LEMMA PathAssumptions == P!PathAssumption /\ P!BusInTime
BY Sizes DEF P!PathAssumption, P!BusInTime

\* The bus is granted or the path is empty: every stage has room, and the array is not held up.
LEMMA PathReady ==
  ASSUME P!Ranges, OutputCounted
  PROVE  /\ o_vld \in BOOLEAN /\ m_vld \in BOOLEAN /\ p_vld \in BOOLEAN
         /\ psum_acc_vld_out \in BOOLEAN /\ omap_ch_cnt % 2 \in 0..1
         /\ owner = "omap" \/ (~o_vld /\ ~m_vld /\ ~p_vld /\ ~psum_acc_vld_out)
         /\ P!oRdy(owner = "omap") /\ P!mRdy(owner = "omap") /\ P!pRdy(owner = "omap")
         /\ omapRdy = TRUE /\ mergerRdy = TRUE
         /\ Psum!Stage!i_rdy(mergerRdy) = TRUE /\ O!Stage!i_rdy(owner = "omap") = TRUE
         /\ Merger!i_rdy(omapRdy) = TRUE
         /\ psumRdy = TRUE /\ Psum!psum_acc_rdy_in(Array!info, mergerRdy) = TRUE
         /\ Array!info.group = omap_ch_cnt % 2 /\ Array!info.offset = omap_cnt
<1> DEFINE rdy == owner = "omap"
<1>1. /\ o_vld \in BOOLEAN /\ m_vld \in BOOLEAN /\ p_vld \in BOOLEAN
      /\ psum_acc_vld_out \in BOOLEAN /\ omap_ch_cnt % 2 \in 0..1
  <2>1. omap_ch_cnt % 2 \in 0..1
    BY P!Passes, PathAssumptions DEF P!Ranges
  <2> QED
    BY <2>1 DEF P!Ranges
<1>2. rdy \/ (~o_vld /\ ~m_vld /\ ~p_vld /\ ~psum_acc_vld_out)
  <2>1. rdy \/ UnderWay = 0
    BY DEF OutputCounted
  <2> QED
    BY <1>1, <2>1 DEF UnderWay, Bit
<1>3. P!oRdy(rdy) /\ P!mRdy(rdy) /\ P!pRdy(rdy)
  BY <1>2 DEF P!oRdy, P!mRdy, P!pRdy
<1>4. /\ omapRdy = TRUE /\ mergerRdy = TRUE
      /\ Psum!Stage!i_rdy(mergerRdy) = TRUE /\ O!Stage!i_rdy(rdy) = TRUE
      /\ Merger!i_rdy(omapRdy) = TRUE
  <2>1. omapRdy = TRUE /\ O!Stage!i_rdy(rdy) = TRUE
    BY <1>2 DEF omapRdy, O!map_merger2omap_biu_rdy, O!Stage!i_rdy, Arb!rdy
  <2>2. mergerRdy = TRUE /\ Merger!i_rdy(omapRdy) = TRUE
    BY <2>1 DEF mergerRdy, Merger!i_rdy
  <2>3. Psum!Stage!i_rdy(mergerRdy) = TRUE
    BY <2>2 DEF Psum!Stage!i_rdy
  <2> QED
    BY <2>1, <2>2, <2>3
<1>5. /\ psumRdy = TRUE /\ Psum!psum_acc_rdy_in(Array!info, mergerRdy) = TRUE
      /\ Array!info.group = omap_ch_cnt % 2 /\ Array!info.offset = omap_cnt
  BY <1>4 DEF psumRdy, Psum!psum_acc_rdy_in, Array!info
<1> QED
  BY <1>1, <1>2, <1>3, <1>4, <1>5

\* A clock edge finds the bus granted or the path empty: every word moves on by one stage.
LEMMA PathMoves ==
  ASSUME TypeOK, A!IInv, P!Ranges, OutputCounted,
         NEW start, NEW ready, NEW answer, Clock(start, ready, answer)
  PROVE  /\ psumRdy = TRUE
         /\ P!Moves(vld_d[6], owner = "omap")
         /\ o_vld' = m_vld /\ m_vld' = p_vld /\ p_vld' = psum_acc_vld_out
         /\ psum_acc_vld_out' = (vld_d[6] /\ second)
<1> DEFINE rdy == owner = "omap"
           vld == vld_d[6]
<1>0. vld \in BOOLEAN /\ rdy \in BOOLEAN
  BY DEF A!IInv, A!TypeOK, A!Delay
<1>1. /\ o_vld \in BOOLEAN /\ m_vld \in BOOLEAN /\ p_vld \in BOOLEAN
      /\ psum_acc_vld_out \in BOOLEAN /\ omap_ch_cnt % 2 \in 0..1
      /\ rdy \/ (~o_vld /\ ~m_vld /\ ~p_vld /\ ~psum_acc_vld_out)
      /\ P!oRdy(rdy) /\ P!mRdy(rdy) /\ P!pRdy(rdy)
      /\ omapRdy = TRUE /\ mergerRdy = TRUE
      /\ Psum!Stage!i_rdy(mergerRdy) = TRUE /\ O!Stage!i_rdy(rdy) = TRUE
      /\ Merger!i_rdy(omapRdy) = TRUE
      /\ psumRdy = TRUE /\ Psum!psum_acc_rdy_in(Array!info, mergerRdy) = TRUE
      /\ Array!info.group = omap_ch_cnt % 2 /\ Array!info.offset = omap_cnt
  BY PathReady
<1> HIDE DEF rdy, vld
<1>6. /\ P!first(vld) = (vld /\ omap_ch_cnt % 2 = 0)
      /\ P!second(vld, rdy) = (vld /\ omap_ch_cnt % 2 = 1)
      /\ (P!first(vld) \/ P!second(vld, rdy)) <=> vld
  BY <1>0, <1>1 DEF P!first, P!second
<1>7. /\ o_vld' = m_vld
      /\ o_dat' = IF m_vld THEN m_dat ELSE o_dat
  <2>1. O!Stage!Clock(m_vld /\ O!Stage!i_rdy(rdy), m_dat, rdy)
    BY DEF Clock, O!Clock, Arb!rdy, rdy
  <2> QED
    BY <1>1, <2>1 DEF O!Stage!Clock
<1>8. /\ m_vld' = p_vld
      /\ m_dat' = IF p_vld THEN p_dat ELSE m_dat
  <2>1. Merger!Clock(p_vld /\ mergerRdy, p_dat, omapRdy)
    BY DEF Clock
  <2> QED
    BY <1>1, <2>1 DEF Merger!Clock
<1>9. Psum!Clock(vld, Array!info, pixel, mergerRdy)
  BY DEF Clock, Array!mac_array2psum_acc_vld, Array!Delay, vld
<1>10. /\ p_vld' = psum_acc_vld_out
       /\ p_dat' = IF psum_acc_vld_out THEN Psum!psum_acc_data_out ELSE p_dat
  <2>1. Psum!Stage!Clock(psum_acc_vld_out, Psum!psum_acc_data_out, mergerRdy)
    BY <1>9 DEF Psum!Clock
  <2> QED
    BY <1>1, <2>1 DEF Psum!Stage!Clock
<1>11. /\ psum_acc_vld_out' = P!second(vld, rdy)
       /\ data_d' = IF P!second(vld, rdy) THEN pixel ELSE data_d
       /\ addr_r' = IF P!second(vld, rdy) THEN omap_cnt ELSE addr_r
       /\ psum_buf' = IF P!first(vld) THEN [psum_buf EXCEPT ![omap_cnt] = pixel] ELSE psum_buf
  <2> DEFINE hdshk == vld /\ Psum!psum_acc_rdy_in(Array!info, mergerRdy)
  <2>1. /\ Psum!Ram(hdshk, Array!info, pixel) /\ Psum!Second(hdshk, Array!info, pixel)
        /\ Psum!VldOut(hdshk, Array!info)
    BY <1>9 DEF Psum!Clock
  <2>2. /\ (hdshk /\ Array!info.group = 1) = P!second(vld, rdy)
        /\ (hdshk /\ Array!info.group = 0) = P!first(vld)
        /\ (Array!info.group = 1 /\ hdshk) = P!second(vld, rdy)
    BY <1>0, <1>1, <1>6
  <2> HIDE DEF hdshk
  <2>3. Array!info.offset = omap_cnt
    BY <1>1
  <2> QED
    BY <2>1, <2>2, <2>3, Zenon DEF Psum!Ram, Psum!Second, Psum!VldOut
<1>12. pixel = P!pixel
  BY Sequencer DEF pixel, P!pixel
<1>13. omap_biu2arb_cnt' = IF o_vld /\ rdy THEN P!Following(omap_biu2arb_cnt)
                                          ELSE omap_biu2arb_cnt
  <2>1. O!CmdCnt(rdy)
    BY DEF Clock, O!Clock, Arb!rdy, rdy
  <2> QED
    BY <2>1, Sequencer DEF O!CmdCnt, O!Wrap, P!Following, P!Total
<1>14. /\ omap_cnt' = IF vld THEN IF omap_cnt = A!Pixels - 1 THEN 0 ELSE omap_cnt + 1 ELSE omap_cnt
       /\ omap_ch_cnt' = IF vld /\ omap_cnt = A!Pixels - 1
                         THEN IF omap_ch_cnt = 2 * NOCH - 1 THEN 0 ELSE omap_ch_cnt + 1
                         ELSE omap_ch_cnt
  <2>1. A!Clock(conv_start, psumRdy)
    BY SameClock DEF Clock
  <2>2. A!OmapCounters(psumRdy) /\ A!handshake(psumRdy) = vld
    BY <1>0, <1>1, <2>1 DEF A!Clock, A!handshake, A!mac_array2psum_acc_vld, A!Delay, vld
  <2> QED
    BY <1>0, <2>2 DEF A!OmapCounters, A!Wrap, A!LastOut
<1>15. Psum!psum_acc_data_out = P!Psum!psum_acc_data_out
  BY DEF Psum!psum_acc_data_out, P!Psum!psum_acc_data_out
<1>16. P!Moves(vld, rdy)
  BY <1>1, <1>6, <1>7, <1>8, <1>10, <1>11, <1>12, <1>13, <1>14, <1>15 DEF P!Moves, P!Shifts
<1>17. psum_acc_vld_out' = (vld /\ second)
  BY <1>6, <1>11 DEF second
<1> QED
  BY <1>1, <1>7, <1>8, <1>10, <1>16, <1>17 DEF vld, rdy

\* So nothing holds the array up.
LEMMA ArrayMoves ==
  ASSUME A!IInv, conv_start \in BOOLEAN, psumRdy = TRUE,
         NEW start, NEW ready, NEW answer, Clock(start, ready, answer)
  PROVE  /\ a_state = "idle" => a_state' = IF conv_start THEN "array_setup" ELSE "idle"
         /\ a_state = "array_setup" => a_state' \in {"array_setup", "conv_s0"}
         /\ A!array_en =>
              IF A!position = A!Pixels - 1 /\ in_ch_cnt = 1 /\ out_ch_cnt = NOCH - 1
              THEN a_state' = "array_cool_down" ELSE A!array_en'
         /\ a_state = "array_cool_down" =>
              a_state' = IF A!LastOut /\ A!LastMap THEN "idle" ELSE "array_cool_down"
         /\ A!position' = IF A!array_en THEN IF A!position = A!Pixels - 1 THEN 0 ELSE A!position + 1
                                        ELSE A!position
         /\ in_ch_cnt' = IF A!array_en /\ A!position = A!Pixels - 1 THEN 1 - in_ch_cnt
                                                                 ELSE in_ch_cnt
         /\ out_ch_cnt' = IF A!array_en /\ A!position = A!Pixels - 1 /\ in_ch_cnt = 1
                          THEN IF out_ch_cnt = NOCH - 1 THEN 0 ELSE out_ch_cnt + 1
                          ELSE out_ch_cnt
         /\ omap_cnt' = IF vld_d[6] THEN IF omap_cnt = A!Pixels - 1 THEN 0 ELSE omap_cnt + 1
                                    ELSE omap_cnt
         /\ omap_ch_cnt' = IF vld_d[6] /\ omap_cnt = A!Pixels - 1
                           THEN IF omap_ch_cnt = 2 * NOCH - 1 THEN 0 ELSE omap_ch_cnt + 1
                           ELSE omap_ch_cnt
         /\ conv_done' = (~conv_done /\ a_state = "array_cool_down" /\ A!LastOut /\ A!LastMap)
         /\ A!Pixels' = A!Pixels
<1>1. A!TypeOK /\ A!ZoneMatchesPixel
  BY DEF A!IInv
<1>2. A!Clock(conv_start, TRUE)
  <2>1. Array!Clock(conv_start, TRUE)
    BY DEF Clock
  <2> QED
    BY <2>1, SameClock
<1>3. A!pipe_en(TRUE) <=> a_state # "idle"
  BY DEF A!pipe_en
<1>4. /\ A!MapEnd <=> A!position = A!Pixels - 1
      /\ A!position \in 0..(A!Pixels - 1)
  BY <1>1, A!Digits, Assumptions
<1>5. A!array_en => a_state # "idle"
  BY DEF A!array_en, A!Zones
<1>6. /\ a_state = "idle" => a_state' \in {"idle", "array_setup"}
      /\ a_state = "array_setup" => a_state' \in {"array_setup", "conv_s0"}
      /\ A!array_en => a_state' \in A!Zones \cup {"array_cool_down"}
      /\ A!array_en => (a_state' = "array_cool_down" <=> A!pipe_en(TRUE) /\ A!MapEnd /\ A!LastPass)
      /\ a_state = "array_cool_down" =>
           a_state' = IF A!CoolDownOver /\ A!pipe_en(TRUE) THEN "idle" ELSE a_state
  BY <1>1, <1>2, A!Goes, Assumptions
<1>7. a_state = "idle" => a_state' = IF conv_start THEN "array_setup" ELSE "idle"
  BY <1>2 DEF A!Clock, A!NextState, A!pipe_en
<1>8. A!array_en => IF A!position = A!Pixels - 1 /\ in_ch_cnt = 1 /\ out_ch_cnt = NOCH - 1
                    THEN a_state' = "array_cool_down" ELSE A!array_en'
  <2>1. A!LastPass <=> out_ch_cnt = NOCH - 1 /\ in_ch_cnt = 1
    BY DEF A!LastPass
  <2>2. A!array_en' <=> a_state' \in A!Zones
    BY DEF A!array_en, A!Zones
  <2> QED
    BY <1>3, <1>4, <1>5, <1>6, <2>1, <2>2
<1>9. a_state = "array_cool_down" =>
        a_state' = IF A!LastOut /\ A!LastMap THEN "idle" ELSE "array_cool_down"
  BY <1>3, <1>6 DEF A!CoolDownOver
<1>10. A!position' = IF A!array_en THEN IF A!position = A!Pixels - 1 THEN 0 ELSE A!position + 1
                                   ELSE A!position
  <2>1. CASE A!array_en
    <3>1. A!position' = IF A!MapEnd THEN 0 ELSE A!position + 1
      BY <1>1, <1>2, <1>3, <1>5, <2>1, A!PositionMoves, Assumptions
    <3> QED
      BY <1>4, <2>1, <3>1
  <2>2. CASE ~A!array_en
    <3>1. conv_row_cnt' = conv_row_cnt /\ conv_col_cnt' = conv_col_cnt
      BY <1>2, <2>2 DEF A!Clock, A!ConvCounters
    <3> QED
      BY <2>2, <3>1 DEF A!position
  <2> QED
    BY <2>1, <2>2
<1>11. /\ in_ch_cnt' = IF A!array_en /\ A!position = A!Pixels - 1 THEN 1 - in_ch_cnt ELSE in_ch_cnt
       /\ out_ch_cnt' = IF A!array_en /\ A!position = A!Pixels - 1 /\ in_ch_cnt = 1
                        THEN IF out_ch_cnt = NOCH - 1 THEN 0 ELSE out_ch_cnt + 1
                        ELSE out_ch_cnt
  <2>1. A!ConvCounters(A!pipe_en(TRUE))
    BY <1>2 DEF A!Clock
  <2> QED
    BY <1>3, <1>4, <1>5, <2>1 DEF A!ConvCounters, A!Wrap
<1>12. /\ omap_cnt' = IF vld_d[6] THEN IF omap_cnt = A!Pixels - 1 THEN 0 ELSE omap_cnt + 1
                                  ELSE omap_cnt
       /\ omap_ch_cnt' = IF vld_d[6] /\ omap_cnt = A!Pixels - 1
                         THEN IF omap_ch_cnt = 2 * NOCH - 1 THEN 0 ELSE omap_ch_cnt + 1
                         ELSE omap_ch_cnt
  <2>1. A!OmapCounters(TRUE) /\ (A!handshake(TRUE) <=> vld_d[6])
    BY <1>2 DEF A!Clock, A!handshake, A!mac_array2psum_acc_vld, A!Delay
  <2> QED
    BY <2>1 DEF A!OmapCounters, A!Wrap, A!LastOut
<1>13. conv_done' = (~conv_done /\ a_state = "array_cool_down" /\ A!LastOut /\ A!LastMap)
  <2>1. conv_done \in BOOLEAN
    BY <1>1 DEF A!TypeOK
  <2>2. A!ConvDone(a_state')
    BY <1>2 DEF A!Clock
  <2> QED
    BY <1>9, <2>1, <2>2 DEF A!ConvDone, A!LastOut, A!LastMap
<1>14. A!Pixels' = A!Pixels
  BY DEF A!Pixels
<1> QED
  BY <1>6, <1>7, <1>8, <1>9, <1>10, <1>11, <1>12, <1>13, <1>14

(***************************************************************************)
(* Who has the bus when: the units' turns.                                  *)
(***************************************************************************)
\* No weight load is under way, and none is about to begin.
WRest == ~weight_start /\ ~weight_biu2arb_req

\* The job controller has not yet seen that the array went on to another channel.
StartSeen == out_ch_cnt # out_ch_cnt_d

\* A load is begun only when the one before it has ended.
Starts ==
  /\ weight_start \in BOOLEAN
  /\ weight_start => ~weight_biu2arb_req
  /\ StartSeen => /\ WRest
                  /\ \/ A!array_en /\ in_ch_cnt = 0 /\ A!position = 0 /\ out_ch_cnt > 0
                     \/ a_state = "array_cool_down"
  /\ started = 0 => WRest

\* While a job loads its first weights and its map, start, request and done follow each
\* other; the words of the job before are written before the weights are asked for.
Controller ==
  /\ imap_start \in BOOLEAN /\ weight_done \in BOOLEAN /\ imap_done \in BOOLEAN
  /\ f_state = "wsetup" => \/ weight_start /\ ~weight_biu2arb_req /\ ~weight_done
                           \/ ~weight_start /\ weight_biu2arb_req /\ ~weight_done
                           \/ ~weight_start /\ ~weight_biu2arb_req /\ weight_done
  /\ f_state = "isetup" => /\ WRest
                           /\ \/ imap_start /\ ~imap_biu2arb_req /\ ~imap_done
                              \/ ~imap_start /\ imap_biu2arb_req /\ ~imap_done
                              \/ ~imap_start /\ ~imap_biu2arb_req /\ imap_done
  /\ f_state # "isetup" => ~imap_start /\ ~imap_biu2arb_req /\ ~imap_done
  /\ a_state = "idle" /\ omap_biu2arb_req =>
       f_state = "idle" \/ conv_done \/ (f_state = "wsetup" /\ ~weight_done)
  /\ a_state = "array_setup" => ~omap_biu2arb_req /\ ~weight_start
  /\ conv_start => weight_start /\ owner = "free"

\* The second pass over a map begins with the bus free and no load under way, and the
\* output unit is given the bus at once.
SecondPass ==
  in_ch_cnt = 1 => /\ WRest
                   /\ A!position = 0 => ~omap_biu2arb_req /\ owner = "free"
                   /\ A!position = 1 => omap_biu2arb_req /\ owner = "free"
                   /\ A!position >= 2 => omap_biu2arb_req /\ owner = "omap"

\* In the first pass over the next map the last words leave the path and are answered.
FirstPass == A!array_en /\ in_ch_cnt = 0
Emptying ==
  FirstPass /\ omap_biu2arb_req =>
    /\ A!position >= 7 => ~psum_acc_vld_out
    /\ A!position >= 8 => ~p_vld
    /\ A!position >= 9 => ~m_vld
    /\ A!position >= 10 => ~o_vld /\ A!position + Wait(Len(pending)) <= OutEnd + waited

\* Then the weight unit is given the bus and loads the weights of the next channel.
Turns == IF owner = "weight" THEN 0 ELSE IF owner = "free" THEN 1 ELSE 2
Loading ==
  (FirstPass \/ a_state = "array_setup") /\ ~omap_biu2arb_req =>
    /\ ~weight_start
    /\ w_state # "idle" =>
         A!position + Turns + W!Total + Wait(MaxOutstanding) + 1 <= LoadEnd + WIssued
    /\ weight_biu2arb_req /\ w_state = "idle" =>
         A!position + Wait(Len(pending)) + 1 <= LoadEnd + waited
    /\ ~weight_biu2arb_req /\ owner # "free" => A!position <= LoadEnd

\* Every second visit is written or under way; what is reported done has left psum_acc.
AllWritten ==
  /\ written \in Nat
  /\ written + UnderWay >= IF conv_done \/ acc_done THEN P!Total ELSE P!SecondVisits
  /\ acc_done => ~psum_acc_vld_out

\* What holds of a prompt enough accelerator, besides IInv.
TimeInv ==
  /\ Routed /\ WeightsCounted /\ MapCounted /\ OutputCounted /\ P!IInv
  /\ Starts /\ Controller /\ SecondPass /\ Emptying /\ Loading /\ AllWritten

\* The bounds.
LEMMA Margins ==
  ASSUME FastEnough
  PROVE  /\ MaxDelay \in Nat /\ Wait(MaxOutstanding) \in Nat /\ Wait(0) = 0
         /\ Wait(1) = MaxDelay + 1 /\ Wait(1) <= Wait(MaxOutstanding)
         /\ OutEnd \in Nat /\ LoadEnd \in Nat /\ W!Total \in Nat /\ W!Total >= 1
         /\ OutEnd = Wait(MaxOutstanding) + 10
         /\ LoadEnd = OutEnd + W!Total + Wait(MaxOutstanding) + 3
         /\ A!Pixels \in Nat /\ LoadEnd + 1 < A!Pixels
         /\ OutEnd' = OutEnd /\ LoadEnd' = LoadEnd /\ W!Total' = W!Total
<1>1. /\ MaxDelay \in Nat /\ MaxOutstanding \in Nat /\ MaxOutstanding >= 1
      /\ W!Total \in Nat /\ W!Total >= 1 /\ A!Pixels \in Nat
  BY Waiting, Sizes
<1>2. \A n \in Nat : Wait(n) \in Nat /\ Wait(n + 1) = Wait(n) + MaxDelay + 1
  BY Waiting
<1>3. 1 \in 0..MaxOutstanding
  BY <1>1
<1>4. Wait(1) <= Wait(MaxOutstanding)
  BY <1>3, Waiting
<1>5. Wait(0) = 0
  BY <1>1 DEF Wait
<1>6. Wait(1) = MaxDelay + 1
  BY <1>1 DEF Wait
<1>7. Wait(MaxOutstanding) \in Nat
  BY <1>1, <1>2
<1> HIDE DEF Wait
<1>8. OutEnd = Wait(MaxOutstanding) + 10 /\ LoadEnd = OutEnd + W!Total + Wait(MaxOutstanding) + 3
  BY DEF OutEnd, LoadEnd
<1>9. OutEnd \in Nat /\ LoadEnd \in Nat
  BY <1>1, <1>7, <1>8
<1>10. LoadEnd + 1 < A!Pixels
  BY <1>1, <1>9 DEF FastEnough
<1>11. W!Total' = W!Total /\ OutEnd' = OutEnd /\ LoadEnd' = LoadEnd
  BY DEF W!Total, W!Kernel3, OutEnd, LoadEnd, Wait
<1> QED
  BY <1>1, <1>4, <1>5, <1>6, <1>7, <1>8, <1>9, <1>10, <1>11

\* What the job controller, the output unit and the software do.
LEMMA ControlStep ==
  ASSUME Steady, TypeOK, OneConvolution, Starts, WeightsCounted,
         NEW start \in BOOLEAN, NEW ready \in Ready, NEW answer \in BOOLEAN,
         Clock(start, ready, answer)
  PROVE  /\ f_state = "idle" => f_state' = IF start THEN "wsetup" ELSE "idle"
         /\ f_state = "wsetup" => f_state' = IF weight_done THEN "isetup" ELSE "wsetup"
         /\ f_state = "isetup" => f_state' = IF imap_done THEN "conv" ELSE "isetup"
         /\ f_state = "conv" => f_state' = IF conv_done THEN "idle" ELSE "conv"
         /\ weight_start' = (~weight_start /\ \/ f_state = "idle" /\ start
                                              \/ f_state = "isetup" /\ imap_done
                                              \/ StartSeen /\ out_ch_cnt < NOCH - 1)
         /\ imap_start' = (~imap_start /\ f_state = "wsetup" /\ weight_done)
         /\ conv_start' = (~conv_start /\ f_state = "isetup" /\ imap_done)
         /\ acc_done' = (~acc_done /\ conv_done)
         /\ StartSeen' <=> out_ch_cnt' # out_ch_cnt
         /\ start => f_state = "idle" /\ ~acc_done /\ ~conv_done /\ WRest
         /\ started' = IF start THEN started + 1 ELSE started
         /\ omap_biu2arb_req' =
              (~(o_receive_cnt = A!Pixels - 1 /\ owner = "omap" /\ answer)
                 /\ (in_ch_cnt = 1 \/ omap_biu2arb_req))
         /\ o_receive_cnt' = IF owner = "omap" /\ answer
                             THEN IF o_receive_cnt = A!Pixels - 1 THEN 0 ELSE o_receive_cnt + 1
                             ELSE o_receive_cnt
<1>1. f_state \in {"idle", "wsetup", "isetup", "conv"} /\ Array!Pixels = A!Pixels
  BY Sequencer DEF TypeOK
<1>2. Fsm!Clock(start, weight_done, imap_done, conv_done, out_ch_cnt)
  BY DEF Clock
<1>3. /\ f_state = "idle" => f_state' = IF start THEN "wsetup" ELSE "idle"
      /\ f_state = "wsetup" => f_state' = IF weight_done THEN "isetup" ELSE "wsetup"
      /\ f_state = "isetup" => f_state' = IF imap_done THEN "conv" ELSE "isetup"
      /\ f_state = "conv" => f_state' = IF conv_done THEN "idle" ELSE "conv"
  BY <1>2 DEF Fsm!Clock, Fsm!State, Fsm!Starting, Fsm!WeightsIn, Fsm!MapIn
<1>4. /\ weight_start' = (~weight_start /\ \/ f_state = "idle" /\ start
                                           \/ f_state = "isetup" /\ imap_done
                                           \/ StartSeen /\ out_ch_cnt < NOCH - 1)
      /\ imap_start' = (~imap_start /\ f_state = "wsetup" /\ weight_done)
      /\ conv_start' = (~conv_start /\ f_state = "isetup" /\ imap_done)
      /\ acc_done' = (~acc_done /\ conv_done)
      /\ out_ch_cnt_d' = out_ch_cnt
  BY <1>2 DEF Fsm!Clock, Fsm!WeightStart, Fsm!Starting, Fsm!MapIn, Fsm!NextChannel, StartSeen,
              Fsm!ImapStart, Fsm!WeightsIn, Fsm!ConvStart, Fsm!AccDone
<1>5. StartSeen' <=> out_ch_cnt' # out_ch_cnt
  BY <1>4 DEF StartSeen
<1>6. /\ start => started = 0 \/ (done /\ WeightsAtRest)
      /\ started' = IF start THEN started + 1 ELSE started
  BY DEF Clock, Software, MayStart, Steady
<1>7. start => f_state = "idle" /\ ~acc_done /\ ~conv_done /\ WRest
  <2> SUFFICES ASSUME start PROVE f_state = "idle" /\ ~acc_done /\ ~conv_done /\ WRest
    OBVIOUS
  <2>1. f_state = "idle" /\ ~acc_done
    BY <1>6 DEF OneConvolution
  <2>2. ~conv_done
    BY <2>1 DEF OneConvolution
  <2>3. WRest
    BY <1>6 DEF Starts, WeightsAtRest, WRest
  <2> QED
    BY <2>1, <2>2, <2>3
<1>8. \E i_vld, i_dat : O!Clock(i_vld, i_dat, Arb!rdy("omap"), owner = "omap" /\ answer, in_ch_cnt)
  <2>1. Arb!answered("omap", answer) = (owner = "omap" /\ answer)
    BY DEF Arb!answered, Arb!acc_icb_rsp_ready
  <2> QED
    BY <2>1 DEF Clock
<1>9. /\ O!Req(in_ch_cnt, owner = "omap" /\ answer) /\ O!ReceiveCnt(owner = "omap" /\ answer)
  BY <1>8 DEF O!Clock
<1>10. /\ omap_biu2arb_req' =
            (~(o_receive_cnt = A!Pixels - 1 /\ owner = "omap" /\ answer)
               /\ (in_ch_cnt = 1 \/ omap_biu2arb_req))
       /\ o_receive_cnt' = IF owner = "omap" /\ answer
                           THEN IF o_receive_cnt = A!Pixels - 1 THEN 0 ELSE o_receive_cnt + 1
                           ELSE o_receive_cnt
  BY <1>1, <1>9 DEF O!Req, O!LastAnswer, O!ReceiveCnt, O!Wrap
<1> QED
  BY <1>3, <1>4, <1>5, <1>6, <1>7, <1>10

\* It holds after a clock edge, too.
LEMMA LeavingNext == A!IInv' => Leaving'
BY PixelLeaving, PTL

\* A word enters the output path with every second visit and leaves it when it is asked for
\* on the bus; the last answer finds the path empty, and the bus is kept until then.
LEMMA OutputStep ==
  ASSUME Steady, FastEnough, IInv, A!IInv', TimeInv,
         NEW start \in BOOLEAN, NEW ready \in Ready, NEW answer \in BOOLEAN,
         Clock(start, ready, answer)
  PROVE  /\ OutputCounted'
         /\ UnderWay' + Bit(o_vld) = UnderWay + Bit(vld_d[6] /\ second)
         /\ UnderWay \in Nat /\ UnderWay' \in Nat
         /\ o_vld => owner = "omap"
         /\ o_receive_cnt = A!Pixels - 1 /\ owner = "omap" /\ answer =>
              ~second /\ in_ch_cnt = 0 /\ omap_biu2arb_req /\ UnderWay = 0
                /\ Len(pending) = 1 /\ Len(pending') = 0
         /\ omap_biu2arb_req /\ ~second /\ in_ch_cnt = 0 /\ UnderWay = 0 =>
              owner = "omap" /\ Len(pending) >= 1
<1> DEFINE deliver == vld_d[6] /\ second
           last == o_receive_cnt = A!Pixels - 1 /\ owner = "omap" /\ answer
<1>1. /\ TypeOK /\ Queued /\ A!IInv /\ A!TypeOK /\ OneConvolution /\ conv_start \in BOOLEAN
      /\ Routed /\ WeightsCounted /\ MapCounted /\ OutputCounted /\ P!Ranges /\ Starts
      /\ Controller /\ SecondPass /\ Emptying
  BY DEF IInv, TimeInv, P!IInv, P!SumInv, A!IInv, OneConvolution
<1>2. /\ in_ch_cnt \in 0..1 /\ out_ch_cnt \in 0..(NOCH - 1) /\ NOCH \in Nat /\ NOCH >= 1
      /\ omap_cnt \in 0..(A!Pixels - 1) /\ A!Pixels \in Nat /\ A!Pixels >= 15
      /\ o_receive_cnt \in 0..(A!Pixels - 1)
      /\ owner \in {"free", "omap", "weight", "imap"}
      /\ omap_ch_cnt \in 0..(2 * NOCH - 1)
  BY <1>1, Sizes, Margins, Sequencer DEF TypeOK, A!TypeOK
<1>3. A!position \in 0..(A!Pixels - 1)
  BY <1>1, A!Digits, Assumptions
<1>4. Leaving /\ Leaving'
  BY <1>1, PixelLeaving, LeavingNext
<1>5. /\ psumRdy = TRUE
      /\ o_vld' = m_vld /\ m_vld' = p_vld /\ p_vld' = psum_acc_vld_out
      /\ psum_acc_vld_out' = deliver
  BY <1>1, PathMoves
<1>6. /\ A!position' = IF A!array_en THEN IF A!position = A!Pixels - 1 THEN 0 ELSE A!position + 1
                                     ELSE A!position
      /\ in_ch_cnt' = IF A!array_en /\ A!position = A!Pixels - 1 THEN 1 - in_ch_cnt
                                                              ELSE in_ch_cnt
      /\ omap_cnt' = IF vld_d[6] THEN IF omap_cnt = A!Pixels - 1 THEN 0 ELSE omap_cnt + 1
                                 ELSE omap_cnt
      /\ omap_ch_cnt' = IF vld_d[6] /\ omap_cnt = A!Pixels - 1
                        THEN IF omap_ch_cnt = 2 * NOCH - 1 THEN 0 ELSE omap_ch_cnt + 1
                        ELSE omap_ch_cnt
      /\ A!Pixels' = A!Pixels
  BY <1>1, <1>5, ArrayMoves
<1>7. /\ omap_biu2arb_req' = (~last /\ (in_ch_cnt = 1 \/ omap_biu2arb_req))
      /\ o_receive_cnt' = IF owner = "omap" /\ answer
                          THEN IF o_receive_cnt = A!Pixels - 1 THEN 0 ELSE o_receive_cnt + 1
                          ELSE o_receive_cnt
  BY <1>1, ControlStep
<1>8. /\ answer => Len(pending) >= 1 /\ owner # "free"
      /\ Len(pending) \in Nat /\ Len(pending') \in Nat
      /\ Len(pending') = Len(pending) + Bit(cmdValid) - Bit(answer)
      /\ owner = "free" => Len(pending') = 0 /\ Len(pending) = 0
  BY <1>1, PendingStep DEF Routed
<1>9. /\ owner = "omap" => owner' = IF omap_biu2arb_req THEN "omap" ELSE "free"
      /\ owner # "omap" => (owner' = "omap" => owner = "free" /\ omap_biu2arb_req)
      /\ owner = "free" /\ omap_biu2arb_req => owner' = "omap"
  BY <1>1, <1>2, OwnerStep
<1>10. owner = "omap" => (cmdValid <=> o_vld)
  BY <1>1, Traffic
<1>11. /\ omap_biu2arb_req \in BOOLEAN
       /\ UnderWay + o_receive_cnt + Asked("omap") = Due
       /\ omap_biu2arb_req =>
            owner = "omap" \/ (owner = "free" /\ in_ch_cnt = 1 /\ A!position = 1)
       /\ owner # "omap" => UnderWay = 0 /\ o_receive_cnt = 0
       /\ second => omap_biu2arb_req
  BY <1>1 DEF OutputCounted
<1>12. /\ UnderWay' + Bit(o_vld) = UnderWay + Bit(deliver)
       /\ UnderWay \in Nat /\ UnderWay' \in Nat
       /\ UnderWay = 0 <=> ~psum_acc_vld_out /\ ~p_vld /\ ~m_vld /\ ~o_vld
       /\ UnderWay = 0 /\ ~deliver => UnderWay' = 0
  <2> DEFINE s == Bit(psum_acc_vld_out)
             p == Bit(p_vld)
             m == Bit(m_vld)
             o == Bit(o_vld)
             d == Bit(deliver)
  <2>1. UnderWay = s + p + m + o /\ UnderWay' = d + s + p + m
    BY <1>5 DEF UnderWay, Bit
  <2>2. s \in 0..1 /\ p \in 0..1 /\ m \in 0..1 /\ o \in 0..1 /\ d \in 0..1
    BY DEF Bit
  <2>3. /\ s = 0 <=> ~psum_acc_vld_out
        /\ p = 0 <=> ~p_vld
        /\ m = 0 <=> ~m_vld
        /\ o = 0 <=> ~o_vld
        /\ ~deliver => d = 0
    BY DEF Bit
  <2> DEFINE next == UnderWay'
  <2> HIDE DEF s, p, m, o, d, deliver, next
  <2>4. UnderWay' + o = UnderWay + d /\ UnderWay \in Nat /\ UnderWay' \in Nat
    BY <2>1, <2>2
  <2>5. UnderWay = 0 <=> s = 0 /\ p = 0 /\ m = 0 /\ o = 0
    BY <2>1, <2>2
  <2>6. next = d + s + p + m
    BY <2>1 DEF next
  <2>7. UnderWay = 0 /\ ~deliver => next = 0
    BY <2>1, <2>2, <2>3, <2>6
  <2> QED
    BY <2>3, <2>4, <2>5, <2>7 DEF o, d, next
<1>13. o_vld => owner = "omap"
  BY <1>11, <1>12
<1>14. /\ second => Due = omap_cnt /\ Due < A!Pixels
       /\ ~second => Due = IF in_ch_cnt = 1 \/ ~omap_biu2arb_req THEN 0 ELSE A!Pixels
       /\ second' => Due' = omap_cnt'
       /\ ~second' => Due' = IF in_ch_cnt' = 1 \/ ~omap_biu2arb_req' THEN 0 ELSE A!Pixels
       /\ Due \in Nat /\ Due <= A!Pixels
  BY <1>2, <1>6 DEF Due
<1>15. last => /\ ~second /\ in_ch_cnt = 0 /\ omap_biu2arb_req
               /\ UnderWay = 0 /\ Len(pending) = 1 /\ Len(pending') = 0
  <2> SUFFICES ASSUME last
               PROVE  /\ ~second /\ in_ch_cnt = 0 /\ omap_biu2arb_req
                      /\ UnderWay = 0 /\ Len(pending) = 1 /\ Len(pending') = 0
    OBVIOUS
  <2>1. Asked("omap") = Len(pending) /\ Len(pending) >= 1
    BY <1>8 DEF Asked
  <2>2. Due = A!Pixels /\ UnderWay = 0 /\ Len(pending) = 1
    BY <1>2, <1>8, <1>11, <1>12, <1>14, <2>1
  <2>3. ~second /\ in_ch_cnt = 0 /\ omap_biu2arb_req
    BY <1>2, <1>14, <2>2
  <2>4. Bit(cmdValid) = 0 /\ Bit(answer) = 1
    BY <1>10, <1>12, <2>2 DEF Bit
  <2>5. Len(pending') = 1 + 0 - 1
    BY <1>8, <2>2, <2>4
  <2>6. Len(pending') = 0
    BY <2>5
  <2> QED
    BY <2>2, <2>3, <2>6
<1>16. omap_biu2arb_req /\ ~second /\ in_ch_cnt = 0 /\ UnderWay = 0 =>
         owner = "omap" /\ Len(pending) >= 1
  <2> SUFFICES ASSUME omap_biu2arb_req, ~second, in_ch_cnt = 0, UnderWay = 0
               PROVE  owner = "omap" /\ Len(pending) >= 1
    OBVIOUS
  <2>1. owner = "omap" /\ Due = A!Pixels
    BY <1>11, <1>14
  <2>2. Asked("omap") = Len(pending)
    BY <2>1 DEF Asked
  <2> QED
    BY <1>2, <1>8, <1>11, <2>1, <2>2
\* The request and the owner.
<1> USE DEF last
<1>17. /\ omap_biu2arb_req /\ ~last => omap_biu2arb_req'
       /\ omap_biu2arb_req' =>
            owner' = "omap" \/ (owner' = "free" /\ in_ch_cnt' = 1 /\ A!position' = 1)
  <2>1. omap_biu2arb_req /\ ~last => omap_biu2arb_req'
    BY <1>7, <1>11
  <2>2. CASE omap_biu2arb_req
    <3> HIDE DEF last
    <3>1. CASE owner = "omap"
      BY <1>9, <2>1, <2>2, <3>1
    <3>2. CASE owner = "free"
      BY <1>7, <1>9, <1>11, <2>1, <2>2, <3>2
    <3> QED
      BY <1>11, <2>2, <3>1, <3>2
  <2>3. CASE ~omap_biu2arb_req /\ in_ch_cnt = 1
    <3>1. A!position = 0 /\ owner = "free" /\ WRest
      BY <1>1, <1>3, <2>3 DEF SecondPass
    <3>2. A!array_en
      BY <1>4, <2>3 DEF Leaving
    <3>3. in_ch_cnt' = 1 /\ A!position' = 1
      BY <1>2, <1>6, <2>3, <3>1, <3>2
    <3>4. ~imap_biu2arb_req
      <4>1. f_state = "conv"
        BY <1>1, <3>2 DEF OneConvolution, A!array_en, A!Zones
      <4> QED
        BY <1>1, <4>1 DEF Controller
    <3>5. owner' = "free"
      BY <1>1, <2>3, <3>1, <3>4, OwnerStep DEF WRest
    <3> QED
      BY <2>3, <3>3, <3>5
  <2>4. CASE ~omap_biu2arb_req /\ in_ch_cnt # 1
    BY <1>7, <2>4
  <2>5. omap_biu2arb_req' =>
          owner' = "omap" \/ (owner' = "free" /\ in_ch_cnt' = 1 /\ A!position' = 1)
    <3> HIDE DEF last
    <3> QED
      BY <2>2, <2>3, <2>4
  <2> HIDE DEF last
  <2> QED
    BY <2>1, <2>5
\* What is due.
<1>170. last \in BOOLEAN
  OBVIOUS
<1> HIDE DEF last
<1>18. last => Due' = 0 /\ ~second'
  <2> SUFFICES ASSUME last PROVE Due' = 0 /\ ~second'
    OBVIOUS
  <2>1. ~second /\ in_ch_cnt = 0 /\ ~omap_biu2arb_req'
    BY <1>7, <1>15
  <2>2. omap_cnt # A!Pixels - 1
    BY <1>4, <2>1 DEF Leaving
  <2>3. omap_ch_cnt' = omap_ch_cnt
    BY <1>6, <2>2
  <2>4. ~second'
    BY <2>1, <2>3 DEF second
  <2> QED
    BY <1>14, <2>1, <2>4
<1>19. ASSUME ~last PROVE Due' = Due + Bit(deliver) /\ (second' => omap_biu2arb_req')
  <2>1. CASE second /\ omap_cnt # A!Pixels - 1
    <3>1. vld_d[6] /\ omap_cnt' = omap_cnt + 1 /\ omap_ch_cnt' = omap_ch_cnt
      BY <1>4, <1>6, <2>1 DEF Leaving
    <3>2. second'
      BY <2>1, <3>1 DEF second
    <3>3. Bit(deliver) = 1
      BY <2>1, <3>1 DEF Bit
    <3> HIDE DEF deliver
    <3> QED
      BY <1>11, <1>14, <1>17, <1>19, <2>1, <3>1, <3>2, <3>3
  <2>2. CASE second /\ omap_cnt = A!Pixels - 1
    <3>1. /\ vld_d[6] /\ omap_cnt' = 0
          /\ omap_ch_cnt' = IF omap_ch_cnt = 2 * NOCH - 1 THEN 0 ELSE omap_ch_cnt + 1
      BY <1>4, <1>6, <2>2 DEF Leaving
    <3>2. ~second'
      BY <1>2, <2>2, <3>1 DEF second
    <3>3. in_ch_cnt' = 0
      <4>1. a_state = "array_cool_down" \/ (A!array_en /\ in_ch_cnt = 0 /\ A!position = 5)
        BY <1>4, <2>2 DEF Leaving
      <4>2. a_state = "array_cool_down" => ~A!array_en /\ in_ch_cnt = 0
        BY <1>4 DEF Leaving, A!array_en, A!Zones
      <4> QED
        BY <1>2, <1>6, <4>1, <4>2
    <3>4. omap_biu2arb_req'
      BY <1>11, <1>17, <1>19, <2>2
    <3>5. Bit(deliver) = 1
      BY <2>2, <3>1 DEF Bit
    <3> HIDE DEF deliver
    <3> QED
      BY <1>2, <1>14, <2>2, <3>2, <3>3, <3>4, <3>5
  <2>3. CASE ~second /\ omap_cnt = A!Pixels - 1
    <3>1. A!array_en /\ in_ch_cnt = 1 /\ A!position = 5
      BY <1>4, <2>3 DEF Leaving
    <3>2. in_ch_cnt' = 1 /\ omap_biu2arb_req'
      <4>1. A!position # A!Pixels - 1
        BY <1>2, <3>1
      <4>2. in_ch_cnt' = 1
        BY <1>6, <3>1, <4>1
      <4>3. omap_biu2arb_req'
        BY <1>7, <1>19, <3>1
      <4> QED
        BY <4>2, <4>3
    <3>3. second' => omap_cnt' = 0
      <4>1. vld_d[6] => omap_cnt' = 0
        BY <1>6, <2>3
      <4>2. ~vld_d[6] => omap_ch_cnt' = omap_ch_cnt
        BY <1>6
      <4>3. ~vld_d[6] => ~second'
        BY <2>3, <4>2 DEF second
      <4> QED
        BY <4>1, <4>3
    <3>4. Due = 0 /\ Due' = 0
      BY <1>14, <2>3, <3>1, <3>2, <3>3
    <3>5. Bit(deliver) = 0
      BY <2>3 DEF Bit
    <3> HIDE DEF deliver
    <3> QED
      BY <3>2, <3>4, <3>5
  <2>4. CASE ~second /\ omap_cnt # A!Pixels - 1
    <3>1. omap_ch_cnt' = omap_ch_cnt
      BY <1>6, <2>4
    <3>2. ~second'
      BY <2>4, <3>1 DEF second
    <3>3. Bit(deliver) = 0
      BY <2>4 DEF Bit
    <3> HIDE DEF deliver
    <3>4. CASE in_ch_cnt = 0 /\ A!array_en /\ A!position = A!Pixels - 1
      <4>1. ~omap_biu2arb_req
        <5>1. SUFFICES ASSUME omap_biu2arb_req PROVE FALSE
          BY <1>11
        <5>2. A!position >= 10 /\ FirstPass
          BY <1>2, <3>4 DEF FirstPass
        <5>3. A!position + Wait(Len(pending)) <= OutEnd + waited
          BY <1>1, <5>1, <5>2 DEF Emptying
        <5>4. Wait(Len(pending)) \in Nat /\ waited \in 0..MaxDelay
          BY <1>1, <1>8, Waiting DEF Routed
        <5>5. /\ MaxDelay \in Nat /\ Wait(MaxOutstanding) \in Nat /\ OutEnd \in Nat
              /\ W!Total \in Nat /\ LoadEnd + 1 < A!Pixels /\ Wait(1) = MaxDelay + 1
              /\ LoadEnd = OutEnd + W!Total + Wait(MaxOutstanding) + 3
              /\ Wait(1) <= Wait(MaxOutstanding)
          BY Margins
        <5> HIDE DEF Wait, OutEnd, LoadEnd
        <5>6. A!position = A!Pixels - 1
          BY <3>4
        <5>7. A!position <= OutEnd + MaxDelay
          BY <1>3, <1>2, <5>3, <5>4, <5>5
        <5>8. OutEnd + MaxDelay < A!Pixels - 1
          BY <1>2, <5>5
        <5> QED
          BY <1>2, <5>5, <5>6, <5>7, <5>8
      <4>2. ~omap_biu2arb_req'
        <5>1. in_ch_cnt # 1
          BY <3>4
        <5> QED
          BY <1>7, <1>11, <4>1, <5>1
      <4> QED
        BY <1>14, <2>4, <3>2, <3>3, <4>1, <4>2
    <3>5. CASE in_ch_cnt = 1
      <4>1. A!array_en /\ A!position < 6
        BY <1>3, <1>4, <2>4, <3>5 DEF Leaving
      <4>2. in_ch_cnt' = 1
        BY <1>2, <1>3, <1>6, <3>5, <4>1
      <4> QED
        BY <1>14, <2>4, <3>2, <3>3, <3>5, <4>2
    <3>6. CASE in_ch_cnt = 0 /\ ~(A!array_en /\ A!position = A!Pixels - 1)
      <4>1. in_ch_cnt' = 0
        BY <1>6, <3>6
      <4>2. omap_biu2arb_req' = omap_biu2arb_req
        BY <1>7, <1>11, <1>19, <3>6
      <4> QED
        BY <1>14, <2>4, <3>2, <3>3, <3>6, <4>1, <4>2
    <3> QED
      BY <1>2, <3>4, <3>5, <3>6
  <2> QED
    BY <2>1, <2>2, <2>3, <2>4
\* The count.
<1>20. /\ UnderWay' + o_receive_cnt' + Asked("omap")' = Due'
       /\ owner' # "omap" => UnderWay' = 0 /\ o_receive_cnt' = 0
  <2> HIDE DEF deliver
  <2>0. Bit(deliver) \in 0..1 /\ Bit(o_vld) \in 0..1 /\ Bit(answer) \in 0..1
    BY DEF Bit
  <2>1. CASE last
    <3>1. UnderWay = 0 /\ Len(pending') = 0 /\ o_receive_cnt' = 0 /\ Due' = 0 /\ ~second
      BY <1>7, <1>15, <1>18, <2>1 DEF last
    <3>2. Bit(o_vld) = 0 /\ Bit(deliver) = 0
      BY <1>12, <3>1 DEF Bit, deliver
    <3>3. UnderWay' = 0
      BY <1>12, <3>1 DEF deliver
    <3>4. Asked("omap")' = 0
      BY <3>1 DEF Asked
    <3> QED
      BY <3>1, <3>3, <3>4
  <2>2. CASE ~last /\ owner = "omap" /\ omap_biu2arb_req
    <3>1. owner' = "omap"
      BY <1>9, <2>2
    <3>2. Asked("omap") = Len(pending) /\ Asked("omap")' = Len(pending')
      BY <2>2, <3>1 DEF Asked
    <3>3. o_receive_cnt' = o_receive_cnt + Bit(answer)
      BY <1>2, <1>7, <2>2 DEF Bit, last
    <3>4. Bit(cmdValid) = Bit(o_vld)
      BY <1>10, <2>2 DEF Bit
    <3>5. Due' = Due + Bit(deliver)
      BY <1>19, <2>2
    <3>6. UnderWay' + Bit(o_vld) = UnderWay + Bit(deliver) /\ UnderWay \in Nat /\ UnderWay' \in Nat
      BY <1>12
    <3>7. /\ Len(pending) \in Nat /\ Len(pending') \in Nat
          /\ Len(pending') = Len(pending) + Bit(cmdValid) - Bit(answer)
      BY <1>8
    <3>8. UnderWay + o_receive_cnt + Len(pending) = Due
      BY <1>11, <3>2
    <3>9. UnderWay' + o_receive_cnt' + Len(pending') = Due'
      <4> DEFINE u == UnderWay'
                 r == o_receive_cnt'
                 l == Len(pending')
                 d == Due'
                 b == Bit(deliver)
                 o == Bit(o_vld)
                 n == Bit(answer)
      <4>1. /\ u + o = UnderWay + b
            /\ r = o_receive_cnt + n
            /\ l = Len(pending) + o - n
            /\ d = Due + b
        BY <3>3, <3>4, <3>5, <3>6, <3>7
      <4>2. /\ UnderWay \in Nat /\ o_receive_cnt \in Nat /\ Len(pending) \in Nat /\ Due \in Nat
            /\ u \in Nat /\ b \in Nat /\ o \in Nat /\ n \in Nat
        BY <1>2, <1>14, <2>0, <3>6, <3>7
      <4> HIDE DEF u, r, l, d, b, o, n
      <4>3. u + r + l = d
        BY <3>8, <4>1, <4>2
      <4> QED
        BY <4>3 DEF u, r, l, d
    <3> QED
      BY <3>1, <3>2, <3>9
  <2>3. CASE ~last /\ owner = "omap" /\ ~omap_biu2arb_req
    <3>1. Due = 0 /\ ~second
      BY <1>11, <1>14, <2>3
    <3>2. Asked("omap") = Len(pending)
      BY <2>3 DEF Asked
    <3>3. UnderWay = 0 /\ o_receive_cnt = 0 /\ Len(pending) = 0
      BY <1>2, <1>8, <1>11, <1>12, <3>1, <3>2
    <3>4. ~answer /\ Bit(o_vld) = 0 /\ Bit(deliver) = 0
      BY <1>8, <1>12, <3>1, <3>3 DEF Bit, deliver
    <3>50. UnderWay' = 0
      BY <1>12, <3>1, <3>3 DEF deliver
    <3>51. o_receive_cnt' = 0
      BY <1>7, <3>3, <3>4
    <3>5. UnderWay' = 0 /\ o_receive_cnt' = 0
      BY <3>50, <3>51
    <3>6. owner' # "omap"
      BY <1>9, <2>3
    <3>7. Asked("omap")' = 0
      BY <3>6 DEF Asked
    <3>8. Due' = 0
      BY <1>19, <2>3, <3>1, <3>4
    <3> QED
      BY <3>5, <3>7, <3>8
  <2>4. CASE owner # "omap"
    <3>1. UnderWay = 0 /\ o_receive_cnt = 0 /\ Asked("omap") = 0 /\ Due = 0 /\ ~last
      BY <1>11, <1>14, <2>4 DEF Asked, last
    <3>2. ~deliver
      <4>1. second => in_ch_cnt = 1 /\ A!position = 1
        BY <1>11, <2>4
      <4>2. in_ch_cnt = 1 /\ A!position = 1 => ~second
        BY <1>4 DEF Leaving
      <4> QED
        BY <4>1, <4>2 DEF deliver
    <3>3. Bit(o_vld) = 0 /\ Bit(deliver) = 0
      BY <1>12, <3>1, <3>2 DEF Bit
    <3>40. UnderWay' = 0
      BY <1>12, <3>1, <3>2
    <3>41. o_receive_cnt' = 0
      BY <1>7, <2>4, <3>1
    <3>4. UnderWay' = 0 /\ o_receive_cnt' = 0
      BY <3>40, <3>41
    <3>5. Due' = 0
      BY <1>19, <3>1, <3>3
    <3>6. owner' = "omap" => Len(pending') = 0
      BY <1>8, <1>9, <2>4
    <3>7. Asked("omap")' = 0
      BY <3>6 DEF Asked
    <3> QED
      BY <3>4, <3>5, <3>7
  <2> QED
    BY <2>1, <2>2, <2>3, <2>4
<1>21. OutputCounted'
  <2>1. omap_biu2arb_req' \in BOOLEAN
    BY <1>7
  <2>2. second' => omap_biu2arb_req'
    BY <1>18, <1>19
  <2> QED
    BY <1>17, <1>20, <2>1, <2>2 DEF OutputCounted
<1>22. last = (o_receive_cnt = A!Pixels - 1 /\ owner = "omap" /\ answer)
  BY DEF last
<1>23. deliver = (vld_d[6] /\ second)
  OBVIOUS
<1> HIDE DEF deliver
<1> QED
  BY <1>12, <1>13, <1>15, <1>16, <1>21, <1>22, <1>23

\* What is known of a clock edge in a prompt enough accelerator.
LEMMA EdgeFacts ==
  ASSUME Steady, FastEnough, IInv, A!IInv', TimeInv,
         NEW start \in BOOLEAN, NEW ready \in Ready, NEW answer \in BOOLEAN,
         Clock(start, ready, answer)
  PROVE  /\ TypeOK /\ Queued /\ Counting /\ A!IInv /\ OneConvolution
         /\ Routed /\ WeightsCounted /\ MapCounted /\ OutputCounted /\ P!IInv /\ P!Ranges
         /\ Starts /\ Controller /\ SecondPass /\ Emptying /\ Loading /\ AllWritten
         /\ Leaving /\ Leaving' /\ psumRdy = TRUE
         /\ in_ch_cnt \in 0..1 /\ out_ch_cnt \in 0..(NOCH - 1) /\ NOCH \in Nat /\ NOCH >= 1
         /\ A!Pixels \in Nat /\ A!Pixels >= 15 /\ A!position \in 0..(A!Pixels - 1)
         /\ owner \in {"free", "omap", "weight", "imap"}
         /\ owner' \in {"free", "omap", "weight", "imap"}
         /\ f_state \in {"idle", "wsetup", "isetup", "conv"}
         /\ a_state \in A!Zones \cup {"idle", "array_setup", "array_cool_down"}
         /\ (A!array_en <=> a_state \in A!Zones) /\ (A!array_en' <=> a_state' \in A!Zones)
         /\ {"idle", "array_setup", "array_cool_down"} \cap A!Zones = {}
         /\ weight_start \in BOOLEAN /\ conv_start \in BOOLEAN /\ started \in Nat
         /\ Len(pending) \in Nat
<1>1. /\ TypeOK /\ Queued /\ Counting /\ A!IInv /\ OneConvolution
      /\ Routed /\ WeightsCounted /\ MapCounted /\ OutputCounted /\ P!IInv /\ P!Ranges
      /\ Starts /\ Controller /\ SecondPass /\ Emptying /\ Loading /\ AllWritten
  BY DEF IInv, TimeInv, P!IInv, P!SumInv
<1>2. Leaving /\ Leaving'
  BY <1>1, PixelLeaving, LeavingNext
<1>3. psumRdy = TRUE
  BY <1>1, PathMoves
<1>4. /\ NOCH \in Nat /\ NOCH >= 1 /\ A!Pixels \in Nat /\ A!Pixels >= 15
  <2>1. LoadEnd + 1 < A!Pixels /\ LoadEnd = OutEnd + W!Total + Wait(MaxOutstanding) + 3
    BY Margins
  <2>2. OutEnd = Wait(MaxOutstanding) + 10 /\ Wait(MaxOutstanding) \in Nat /\ W!Total \in Nat
        /\ A!Pixels \in Nat /\ OutEnd \in Nat /\ W!Total >= 1
    BY Margins
  <2> HIDE DEF Wait, OutEnd, LoadEnd
  <2>3. A!Pixels >= 15
    BY <2>1, <2>2
  <2> QED
    BY <2>2, <2>3, Sizes
<1>5. A!TypeOK
  BY <1>1 DEF A!IInv
<1>6. /\ in_ch_cnt \in 0..1 /\ out_ch_cnt \in 0..(NOCH - 1)
      /\ a_state \in A!Zones \cup {"idle", "array_setup", "array_cool_down"}
  BY <1>5 DEF A!TypeOK, A!States
<1>7. A!position \in 0..(A!Pixels - 1)
  BY <1>5, A!Digits, Assumptions
<1>8. owner \in {"free", "omap", "weight", "imap"} /\ f_state \in {"idle", "wsetup", "isetup", "conv"}
  BY <1>1 DEF TypeOK
<1>9. owner' \in {"free", "omap", "weight", "imap"}
  BY <1>1, StatesStep
<1>10. /\ A!array_en <=> a_state \in A!Zones
       /\ A!array_en' <=> a_state' \in A!Zones
       /\ {"idle", "array_setup", "array_cool_down"} \cap A!Zones = {}
  BY DEF A!array_en, A!Zones
<1>11. weight_start \in BOOLEAN /\ conv_start \in BOOLEAN /\ started \in Nat
  BY <1>1 DEF Starts, OneConvolution
<1>12. Len(pending) \in Nat
  BY <1>1, PendingStep
<1> QED
  BY <1>1, <1>2, <1>3, <1>4, <1>6, <1>7, <1>8, <1>9, <1>10, <1>11, <1>12

\* The second pass over a map: the bus goes to the output unit and stays there.
LEMMA SecondPassStep ==
  ASSUME Steady, FastEnough, IInv, A!IInv', TimeInv,
         NEW start \in BOOLEAN, NEW ready \in Ready, NEW answer \in BOOLEAN,
         Clock(start, ready, answer)
  PROVE  SecondPass'
<1>1. /\ in_ch_cnt \in 0..1 /\ A!Pixels \in Nat /\ A!Pixels >= 15
      /\ A!position \in 0..(A!Pixels - 1) /\ owner \in {"free", "omap", "weight", "imap"}
      /\ Leaving
  BY EdgeFacts
<1>2. /\ A!position' = IF A!array_en THEN IF A!position = A!Pixels - 1 THEN 0 ELSE A!position + 1
                                     ELSE A!position
      /\ in_ch_cnt' = IF A!array_en /\ A!position = A!Pixels - 1 THEN 1 - in_ch_cnt
                                                              ELSE in_ch_cnt
  BY EdgeFacts, ArrayMoves
<1>3. in_ch_cnt = 1 => A!array_en
  BY <1>1 DEF Leaving
<1> SUFFICES ASSUME in_ch_cnt' = 1
             PROVE  /\ WRest'
                    /\ A!position' = 0 => ~omap_biu2arb_req' /\ owner' = "free"
                    /\ A!position' = 1 => omap_biu2arb_req' /\ owner' = "free"
                    /\ A!position' >= 2 => omap_biu2arb_req' /\ owner' = "omap"
  BY DEF SecondPass
<1>4. /\ weight_start' = (~weight_start /\ \/ f_state = "idle" /\ start
                                           \/ f_state = "isetup" /\ imap_done
                                           \/ StartSeen /\ out_ch_cnt < NOCH - 1)
      /\ omap_biu2arb_req' =
              (~(o_receive_cnt = A!Pixels - 1 /\ owner = "omap" /\ answer)
                 /\ (in_ch_cnt = 1 \/ omap_biu2arb_req))
  BY EdgeFacts, ControlStep
<1>5. weight_biu2arb_req' = (weight_start \/ (weight_biu2arb_req
                                 /\ ~(owner = "weight" /\ answer /\ w_receive_cnt = W!Total - 1)))
  BY EdgeFacts, WeightsStep DEF Starts
<1>6. A!array_en /\ f_state = "conv"
  <2>1. A!array_en
    BY <1>1, <1>2, <1>3
  <2>2. a_state # "idle"
    BY <2>1, EdgeFacts
  <2> QED
    BY <2>1, <2>2, EdgeFacts DEF OneConvolution
<1>7. ~imap_biu2arb_req
  BY <1>6, EdgeFacts DEF Controller
<1>8. /\ owner = "omap" => owner' = IF omap_biu2arb_req THEN "omap" ELSE "free"
      /\ owner = "weight" => owner' = IF weight_biu2arb_req THEN "weight" ELSE "free"
      /\ owner = "imap" => owner' = IF imap_biu2arb_req THEN "imap" ELSE "free"
      /\ owner = "free" => owner' = IF omap_biu2arb_req THEN "omap"
                                    ELSE IF weight_biu2arb_req THEN "weight"
                                    ELSE IF imap_biu2arb_req THEN "imap" ELSE "free"
  BY EdgeFacts, OwnerStep
<1>9. CASE in_ch_cnt = 1
  <2>1. A!position # A!Pixels - 1 /\ A!position' = A!position + 1
    BY <1>1, <1>2, <1>3, <1>9
  <2>2. /\ WRest
        /\ A!position = 0 => ~omap_biu2arb_req /\ owner = "free"
        /\ A!position = 1 => omap_biu2arb_req /\ owner = "free"
        /\ A!position >= 2 => omap_biu2arb_req /\ owner = "omap"
    BY <1>9, EdgeFacts DEF SecondPass
  <2>3. ~StartSeen
    <3>1. StartSeen => in_ch_cnt = 0 \/ a_state = "array_cool_down"
      BY EdgeFacts DEF Starts
    <3>2. a_state # "array_cool_down"
      BY <1>6, EdgeFacts
    <3> QED
      BY <1>9, <3>1, <3>2
  <2>4. ~weight_start' /\ ~weight_biu2arb_req'
    BY <1>4, <1>5, <1>6, <2>2, <2>3 DEF WRest
  <2>5. omap_biu2arb_req'
    <3>1. ~(o_receive_cnt = A!Pixels - 1 /\ owner = "omap" /\ answer)
      <4>1. o_receive_cnt = A!Pixels - 1 /\ owner = "omap" /\ answer => in_ch_cnt = 0
        BY OutputStep
      <4> QED
        BY <1>9, <4>1
    <3> QED
      BY <1>4, <1>9, <3>1
  <2>6. A!position = 0 => owner' = "free"
    BY <1>7, <1>8, <2>2 DEF WRest
  <2>7. A!position >= 1 => owner' = "omap"
    BY <1>1, <1>8, <2>2
  <2>8. /\ A!position' # 0 /\ (A!position' = 1 => A!position = 0)
        /\ A!position' >= 2 => A!position >= 1
    BY <1>1, <2>1
  <2> QED
    BY <2>4, <2>5, <2>6, <2>7, <2>8 DEF WRest
<1>10. CASE in_ch_cnt = 0
  <2>1. A!position = A!Pixels - 1 /\ A!position' = 0
    BY <1>1, <1>2, <1>10
  <2>2. Len(pending) \in Nat /\ waited \in 0..MaxDelay /\ Wait(Len(pending)) \in Nat
    BY EdgeFacts, Waiting DEF Routed
  <2>3. /\ MaxDelay \in Nat /\ Wait(MaxOutstanding) \in Nat /\ OutEnd \in Nat /\ LoadEnd \in Nat
        /\ W!Total \in Nat /\ LoadEnd + 1 < A!Pixels /\ Wait(1) = MaxDelay + 1
        /\ LoadEnd = OutEnd + W!Total + Wait(MaxOutstanding) + 3
        /\ Wait(1) <= Wait(MaxOutstanding)
    BY Margins
  <2>4. FirstPass
    BY <1>6, <1>10 DEF FirstPass
  <2>5. ~omap_biu2arb_req
    <3>1. SUFFICES ASSUME omap_biu2arb_req PROVE FALSE
      BY EdgeFacts DEF OutputCounted
    <3>2. A!position >= 10
      BY <1>1, <2>1
    <3>3. A!position + Wait(Len(pending)) <= OutEnd + waited
      BY <2>4, <3>1, <3>2, EdgeFacts DEF Emptying
    <3> HIDE DEF Wait, OutEnd, LoadEnd
    <3>4. A!position <= OutEnd + MaxDelay
      BY <1>1, <2>2, <2>3, <3>3
    <3>5. OutEnd + MaxDelay < A!Pixels - 1
      BY <1>1, <2>3
    <3> QED
      BY <1>1, <2>1, <2>3, <3>4, <3>5
  <2>6. /\ ~weight_start
        /\ w_state # "idle" =>
             A!position + Turns + W!Total + Wait(MaxOutstanding) + 1 <= LoadEnd + WIssued
        /\ weight_biu2arb_req /\ w_state = "idle" =>
             A!position + Wait(Len(pending)) + 1 <= LoadEnd + waited
        /\ ~weight_biu2arb_req /\ owner # "free" => A!position <= LoadEnd
    BY <2>4, <2>5, EdgeFacts DEF Loading
  <2> HIDE DEF Wait, OutEnd, LoadEnd
  <2>7. w_state = "idle"
    <3>1. w_state # "idle" => WIssued < W!Total /\ WIssued \in Nat
      <4>1. w_state # "idle" => WIssued < W!Total
        BY EdgeFacts, WeightsStep DEF Starts
      <4>2. WIssued \in Nat
        <5>1. /\ w_cnt \in 0..(W!Kernel3 - 1) /\ W!Kernel3 \in Nat /\ W!Total \in Nat
          BY <2>3, Sizes, EdgeFacts DEF TypeOK
        <5> QED
          BY <5>1 DEF WIssued
      <4> QED
        BY <4>1, <4>2
    <3>2. Turns \in 0..2
      BY DEF Turns
    <3>3. LoadEnd + WIssued < A!Pixels - 1 + W!Total \/ w_state = "idle"
      BY <1>1, <2>3, <3>1
    <3> QED
      BY <1>1, <2>1, <2>3, <2>6, <3>1, <3>2, <3>3
  <2>8. ~weight_biu2arb_req
    <3>1. SUFFICES ASSUME weight_biu2arb_req PROVE FALSE
      BY EdgeFacts DEF WeightsCounted
    <3>2. A!position + Wait(Len(pending)) + 1 <= LoadEnd + waited
      BY <2>6, <2>7, <3>1
    <3>3. Len(pending) >= 1
      <4>1. w_receive_cnt + Asked("weight") = W!Total
        BY <2>7, <3>1, EdgeFacts DEF WeightsCounted, WIssued
      <4>2. w_receive_cnt \in 0..(W!Total - 1)
        BY EdgeFacts DEF TypeOK
      <4>3. Asked("weight") = 0 \/ Asked("weight") = Len(pending)
        BY DEF Asked
      <4> QED
        BY <2>2, <2>3, <4>1, <4>2, <4>3
    <3>4. Wait(1) <= Wait(Len(pending))
      <4>1. Len(pending) - 1 \in Nat /\ Len(pending) = (Len(pending) - 1) + 1
        BY <2>2, <3>3
      <4>2. Wait(Len(pending)) = Wait(Len(pending) - 1) + MaxDelay + 1 /\ Wait(Len(pending) - 1) \in Nat
        BY <4>1, Waiting
      <4> QED
        BY <2>3, <4>2
    <3>5. A!position <= LoadEnd
      BY <1>1, <2>2, <2>3, <3>2, <3>4
    <3> QED
      BY <1>1, <2>1, <2>3, <3>5
  <2>9. owner = "free"
    BY <1>1, <2>1, <2>3, <2>6, <2>8
  <2>10. owner' = "free"
    BY <1>7, <1>8, <2>5, <2>8, <2>9
  <2>11. ~StartSeen
    <3>1. StartSeen => A!position = 0 \/ a_state = "array_cool_down"
      BY EdgeFacts DEF Starts
    <3>2. a_state # "array_cool_down"
      BY <1>6, EdgeFacts
    <3> QED
      BY <1>1, <2>1, <3>1, <3>2
  <2>12. WRest'
    BY <1>4, <1>5, <1>6, <2>6, <2>8, <2>11 DEF WRest
  <2>13. ~omap_biu2arb_req'
    <3>1. in_ch_cnt # 1
      BY <1>10
    <3> QED
      BY <1>4, <2>5, <3>1
  <2> QED
    BY <2>1, <2>10, <2>12, <2>13
<1> QED
  BY <1>1, <1>9, <1>10

\* The first pass over the next map: the path runs empty, stage by stage, and the answers
\* that are owed arrive.
LEMMA EmptyingStep ==
  ASSUME Steady, FastEnough, IInv, A!IInv', TimeInv,
         NEW start \in BOOLEAN, NEW ready \in Ready, NEW answer \in BOOLEAN,
         Clock(start, ready, answer)
  PROVE  Emptying'
<1>1. /\ in_ch_cnt \in 0..1 /\ A!Pixels \in Nat /\ A!Pixels >= 15
      /\ A!position \in 0..(A!Pixels - 1)
      /\ Leaving
  BY EdgeFacts
<1>2. /\ A!position' = IF A!array_en THEN IF A!position = A!Pixels - 1 THEN 0 ELSE A!position + 1
                                     ELSE A!position
      /\ in_ch_cnt' = IF A!array_en /\ A!position = A!Pixels - 1 THEN 1 - in_ch_cnt
                                                              ELSE in_ch_cnt
  BY EdgeFacts, ArrayMoves
<1> SUFFICES ASSUME FirstPass', omap_biu2arb_req', A!position' >= 7
             PROVE  /\ ~psum_acc_vld_out'
                    /\ A!position' >= 8 => ~p_vld'
                    /\ A!position' >= 9 => ~m_vld'
                    /\ A!position' >= 10 =>
                         /\ ~o_vld'
                         /\ A!position' + Wait(Len(pending')) <= OutEnd' + waited'
  <2>1. A!position' \in Nat
    BY <1>1, <1>2
  <2> QED
    BY <2>1 DEF Emptying
<1>3. /\ A!array_en /\ in_ch_cnt = 0 /\ A!position' = A!position + 1 /\ A!position >= 6
      /\ FirstPass
  <2>1. A!array_en
    BY <1>1, <1>2 DEF Leaving
  <2>2. A!position # A!Pixels - 1
    BY <1>1, <1>2, <2>1
  <2>3. in_ch_cnt' = 0
    BY DEF FirstPass
  <2> QED
    BY <1>1, <1>2, <2>1, <2>2, <2>3 DEF FirstPass
<1>4. omap_biu2arb_req
  <2>1. omap_biu2arb_req' =
          (~(o_receive_cnt = A!Pixels - 1 /\ owner = "omap" /\ answer)
             /\ (in_ch_cnt = 1 \/ omap_biu2arb_req))
    BY EdgeFacts, ControlStep
  <2>2. in_ch_cnt # 1
    BY <1>3
  <2> QED
    BY <2>1, <2>2
<1>5. ~second
  BY <1>1, <1>3 DEF Leaving
<1>6. /\ o_vld' = m_vld /\ m_vld' = p_vld /\ p_vld' = psum_acc_vld_out
      /\ psum_acc_vld_out' = (vld_d[6] /\ second)
  BY EdgeFacts, PathMoves
<1>7. /\ A!position >= 7 => ~psum_acc_vld_out
      /\ A!position >= 8 => ~p_vld
      /\ A!position >= 9 => ~m_vld
      /\ A!position >= 10 => ~o_vld /\ A!position + Wait(Len(pending)) <= OutEnd + waited
  BY <1>3, <1>4, EdgeFacts DEF Emptying
<1>8. /\ MaxDelay \in Nat /\ MaxOutstanding \in Nat /\ Wait(MaxOutstanding) \in Nat /\ OutEnd \in Nat
      /\ OutEnd = Wait(MaxOutstanding) + 10 /\ OutEnd' = OutEnd
  BY Margins, Waiting
<1>9. /\ Len(pending) \in Nat /\ Len(pending') \in Nat /\ waited' \in 0..MaxDelay
      /\ Len(pending) >= 1 /\ ~cmdValid =>
           Wait(Len(pending')) + waited + 1 <= Wait(Len(pending)) + waited'
  BY EdgeFacts, PendingStep
<1>10. waited \in 0..MaxDelay /\ Wait(Len(pending)) \in Nat /\ Wait(Len(pending')) \in Nat
  BY <1>9, EdgeFacts, Waiting DEF Routed
<1>11. A!position' >= 10 => A!position' + Wait(Len(pending')) <= OutEnd' + waited'
  <2>1. CASE A!position = 9
    <3>1. Len(pending') <= MaxOutstanding
      BY EdgeFacts, QueueStep
    <3>2. Wait(Len(pending')) <= Wait(MaxOutstanding)
      BY <1>8, <1>9, <3>1, Waiting
    <3> HIDE DEF Wait, OutEnd
    <3> QED
      BY <1>3, <1>8, <1>9, <1>10, <2>1, <3>2
  <2>2. CASE A!position >= 10
    <3>1. UnderWay = 0
      <4>1. ~psum_acc_vld_out /\ ~p_vld /\ ~m_vld /\ ~o_vld
        BY <1>1, <1>7, <2>2
      <4> QED
        BY <4>1 DEF UnderWay, Bit
    <3>2. owner = "omap" /\ Len(pending) >= 1
      BY <1>3, <1>4, <1>5, <3>1, OutputStep
    <3>3. ~cmdValid
      BY <1>7, <2>2, <3>2, EdgeFacts, Traffic
    <3>4. Wait(Len(pending')) + waited + 1 <= Wait(Len(pending)) + waited'
      BY <1>9, <3>2, <3>3
    <3> DEFINE at == A!position'
               rest == Wait(Len(pending'))
               w == waited'
               end == OutEnd'
               owed == Wait(Len(pending))
    <3>5. /\ at = A!position + 1 /\ A!position + owed <= OutEnd + waited /\ end = OutEnd
          /\ rest + waited + 1 <= owed + w
      BY <1>3, <1>7, <1>8, <2>2, <3>4
    <3>6. /\ A!position \in Nat /\ owed \in Nat /\ rest \in Nat /\ waited \in Nat /\ w \in Nat
          /\ OutEnd \in Nat
      BY <1>1, <1>8, <1>9, <1>10
    <3> HIDE DEF at, rest, w, end, owed, OutEnd
    <3>7. at + rest <= end + w
      BY <3>5, <3>6
    <3> QED
      BY <3>7 DEF at, rest, w, end
  <2> QED
    BY <1>1, <1>3, <2>1, <2>2
<1>12. /\ A!position' >= 8 => A!position >= 7
       /\ A!position' >= 9 => A!position >= 8
       /\ A!position' >= 10 => A!position >= 9
  BY <1>1, <1>3
<1>13. A!position >= 9 => ~m_vld
  BY <1>3, <1>4, EdgeFacts DEF Emptying
<1>14. A!position' >= 8 => ~p_vld'
  BY <1>6, <1>7, <1>12
<1>15. A!position' >= 9 => ~m_vld'
  BY <1>6, <1>7, <1>12
<1>16. A!position' >= 10 => ~o_vld'
  BY <1>6, <1>12, <1>13
<1>17. ~psum_acc_vld_out'
  BY <1>5, <1>6
<1> QED
  BY <1>11, <1>14, <1>15, <1>16, <1>17

\* Whoever begins a load finds none under way.
LEMMA StartsStep ==
  ASSUME Steady, FastEnough, IInv, A!IInv', TimeInv,
         NEW start \in BOOLEAN, NEW ready \in Ready, NEW answer \in BOOLEAN,
         Clock(start, ready, answer)
  PROVE  Starts'
<1>1. /\ weight_start' = (~weight_start /\ \/ f_state = "idle" /\ start
                                           \/ f_state = "isetup" /\ imap_done
                                           \/ StartSeen /\ out_ch_cnt < NOCH - 1)
      /\ StartSeen' <=> out_ch_cnt' # out_ch_cnt
      /\ start => WRest
      /\ started' = IF start THEN started + 1 ELSE started
  BY EdgeFacts, ControlStep
<1>2. weight_biu2arb_req' = (weight_start \/ (weight_biu2arb_req
                                 /\ ~(owner = "weight" /\ answer /\ w_receive_cnt = W!Total - 1)))
  BY EdgeFacts, WeightsStep DEF Starts
<1>3. f_state = "isetup" => WRest
  BY EdgeFacts DEF Controller
<1>4. /\ StartSeen => /\ WRest
                      /\ \/ A!array_en /\ in_ch_cnt = 0
                         \/ a_state = "array_cool_down"
      /\ started = 0 => WRest
  BY EdgeFacts DEF Starts
<1>5. weight_start' => ~weight_biu2arb_req'
  BY <1>1, <1>2, <1>3, <1>4 DEF WRest
<1>6. /\ A!array_en => f_state = "conv" /\ a_state # "array_cool_down" /\ a_state # "idle"
      /\ f_state # "conv" => a_state = "idle"
      /\ a_state = "array_cool_down" => a_state # "idle" /\ ~A!array_en
      /\ f_state # "idle" => started > 0
  <2>1. /\ A!array_en => a_state # "array_cool_down" /\ a_state # "idle"
        /\ a_state = "array_cool_down" => ~A!array_en
    BY EdgeFacts
  <2>2. (f_state # "conv" => a_state = "idle") /\ (f_state # "idle" => started > 0)
    BY EdgeFacts DEF OneConvolution
  <2> QED
    BY <2>1, <2>2
<1>7. ASSUME StartSeen'
      PROVE  /\ WRest'
             /\ \/ A!array_en' /\ in_ch_cnt' = 0 /\ A!position' = 0 /\ out_ch_cnt' > 0
                \/ a_state' = "array_cool_down"
  <2>1. /\ out_ch_cnt' = IF A!array_en /\ A!position = A!Pixels - 1 /\ in_ch_cnt = 1
                         THEN IF out_ch_cnt = NOCH - 1 THEN 0 ELSE out_ch_cnt + 1
                         ELSE out_ch_cnt
        /\ A!array_en =>
             IF A!position = A!Pixels - 1 /\ in_ch_cnt = 1 /\ out_ch_cnt = NOCH - 1
             THEN a_state' = "array_cool_down" ELSE A!array_en'
        /\ A!position' = IF A!array_en THEN IF A!position = A!Pixels - 1 THEN 0 ELSE A!position + 1
                                       ELSE A!position
        /\ in_ch_cnt' = IF A!array_en /\ A!position = A!Pixels - 1 THEN 1 - in_ch_cnt
                                                                ELSE in_ch_cnt
    BY EdgeFacts, ArrayMoves
  <2>2. A!array_en /\ A!position = A!Pixels - 1 /\ in_ch_cnt = 1
    BY <1>1, <1>7, <2>1
  <2>3. ~StartSeen /\ WRest
    <3>1. WRest
      BY <2>2, EdgeFacts DEF SecondPass
    <3>2. ~StartSeen
      BY <1>4, <1>6, <2>2
    <3> QED
      BY <3>1, <3>2
  <2>4. WRest'
    <3>1. f_state = "conv"
      BY <1>6, <2>2
    <3>2. ~weight_start'
      BY <1>1, <2>3, <3>1
    <3>3. ~weight_biu2arb_req'
      BY <1>2, <2>3 DEF WRest
    <3> QED
      BY <3>2, <3>3 DEF WRest
  <2>5. in_ch_cnt' = 0 /\ A!position' = 0
    BY <2>1, <2>2
  <2>6. out_ch_cnt \in 0..(NOCH - 1) /\ NOCH \in Nat
    BY EdgeFacts
  <2>7. out_ch_cnt = NOCH - 1 => a_state' = "array_cool_down"
    BY <2>1, <2>2
  <2>8. out_ch_cnt # NOCH - 1 => A!array_en' /\ out_ch_cnt' > 0
    BY <2>1, <2>2, <2>6
  <2> QED
    BY <2>4, <2>5, <2>7, <2>8
<1>8. ASSUME started' = 0 PROVE WRest'
  <2>1. started \in Nat
    BY EdgeFacts
  <2>2. ~start /\ started = 0
    BY <1>1, <1>8, <2>1
  <2>3. f_state = "idle" /\ WRest /\ a_state = "idle" /\ ~StartSeen
    <3>1. f_state = "idle" /\ a_state = "idle"
      BY <1>6, <2>2
    <3>2. ~A!array_en /\ a_state # "array_cool_down"
      BY <1>6, <3>1
    <3> QED
      BY <1>4, <2>2, <3>1, <3>2
  <2> QED
    BY <1>1, <1>2, <2>2, <2>3 DEF WRest
<1>9. weight_start' \in BOOLEAN
  BY <1>1
<1> QED
  BY <1>5, <1>7, <1>8, <1>9 DEF Starts

\* Requests, starts and answers follow each other as the job controller expects.
LEMMA ControllerStep ==
  ASSUME Steady, FastEnough, IInv, A!IInv', TimeInv,
         NEW start \in BOOLEAN, NEW ready \in Ready, NEW answer \in BOOLEAN,
         Clock(start, ready, answer)
  PROVE  Controller'
<1> DEFINE oLast == o_receive_cnt = A!Pixels - 1 /\ owner = "omap" /\ answer
           wLast == owner = "weight" /\ answer /\ w_receive_cnt = W!Total - 1
           iLast == owner = "imap" /\ answer /\ i_receive_cnt = ImapWords - 1
<1>1. /\ f_state = "idle" => f_state' = IF start THEN "wsetup" ELSE "idle"
      /\ f_state = "wsetup" => f_state' = IF weight_done THEN "isetup" ELSE "wsetup"
      /\ f_state = "isetup" => f_state' = IF imap_done THEN "conv" ELSE "isetup"
      /\ f_state = "conv" => f_state' = IF conv_done THEN "idle" ELSE "conv"
  BY EdgeFacts, ControlStep
<1>2. /\ weight_start' = (~weight_start /\ \/ f_state = "idle" /\ start
                                           \/ f_state = "isetup" /\ imap_done
                                           \/ StartSeen /\ out_ch_cnt < NOCH - 1)
      /\ imap_start' = (~imap_start /\ f_state = "wsetup" /\ weight_done)
      /\ conv_start' = (~conv_start /\ f_state = "isetup" /\ imap_done)
      /\ start => f_state = "idle" /\ WRest
      /\ omap_biu2arb_req' = (~oLast /\ (in_ch_cnt = 1 \/ omap_biu2arb_req))
  BY EdgeFacts, ControlStep
<1>3. /\ weight_biu2arb_req' = (weight_start \/ (weight_biu2arb_req /\ ~wLast))
      /\ weight_done' = (~weight_done /\ wLast)
  BY EdgeFacts, WeightsStep DEF Starts
<1>4. /\ imap_biu2arb_req' = (imap_start \/ (imap_biu2arb_req /\ ~iLast))
      /\ imap_done' = (~imap_done /\ iLast)
  BY EdgeFacts, MapStep DEF Controller
<1>5. wLast => weight_biu2arb_req
  <2> SUFFICES ASSUME wLast, ~weight_biu2arb_req PROVE FALSE
    BY EdgeFacts DEF WeightsCounted
  <2>1. w_state = "idle" /\ w_receive_cnt + Asked("weight") = 0
    BY EdgeFacts DEF WeightsCounted, WIssued
  <2>2. Asked("weight") = Len(pending) /\ Len(pending) >= 1 /\ Len(pending) \in Nat
    BY EdgeFacts, PendingStep DEF Asked
  <2>3. w_receive_cnt \in 0..(W!Total - 1) /\ W!Total \in Nat
    BY EdgeFacts, Margins DEF TypeOK
  <2> HIDE DEF wLast
  <2> QED
    BY <2>1, <2>2, <2>3
<1>6. iLast => imap_biu2arb_req
  <2> SUFFICES ASSUME iLast, ~imap_biu2arb_req PROVE FALSE
    BY EdgeFacts DEF MapCounted
  <2>1. i_state = "idle" /\ i_receive_cnt + Asked("imap") = 0
    BY EdgeFacts DEF MapCounted, IIssued
  <2>2. Asked("imap") = Len(pending) /\ Len(pending) >= 1 /\ Len(pending) \in Nat
    BY EdgeFacts, PendingStep DEF Asked
  <2>3. i_receive_cnt \in 0..(ImapWords - 1) /\ ImapWords \in Nat
    BY EdgeFacts, Sizes DEF TypeOK
  <2> HIDE DEF iLast
  <2> QED
    BY <2>1, <2>2, <2>3
<1>7. wLast => owner = "weight"
  OBVIOUS
<1>8. wLast \in BOOLEAN /\ iLast \in BOOLEAN /\ oLast \in BOOLEAN
  OBVIOUS
<1> HIDE DEF wLast, iLast, oLast
<1>9. /\ f_state \in {"idle", "wsetup", "isetup", "conv"}
      /\ imap_start \in BOOLEAN /\ weight_done \in BOOLEAN /\ imap_done \in BOOLEAN
      /\ weight_start \in BOOLEAN /\ weight_biu2arb_req \in BOOLEAN
      /\ imap_biu2arb_req \in BOOLEAN /\ omap_biu2arb_req \in BOOLEAN
  BY EdgeFacts DEF Controller, WeightsCounted, MapCounted, OutputCounted
<1>10. /\ f_state = "wsetup" => \/ weight_start /\ ~weight_biu2arb_req /\ ~weight_done
                                \/ ~weight_start /\ weight_biu2arb_req /\ ~weight_done
                                \/ ~weight_start /\ ~weight_biu2arb_req /\ weight_done
       /\ f_state = "isetup" => /\ ~weight_start /\ ~weight_biu2arb_req
                                /\ \/ imap_start /\ ~imap_biu2arb_req /\ ~imap_done
                                   \/ ~imap_start /\ imap_biu2arb_req /\ ~imap_done
                                   \/ ~imap_start /\ ~imap_biu2arb_req /\ imap_done
       /\ f_state # "isetup" => ~imap_start /\ ~imap_biu2arb_req /\ ~imap_done
  BY EdgeFacts DEF Controller, WRest
<1>11. /\ a_state = "idle" /\ omap_biu2arb_req =>
            f_state = "idle" \/ conv_done \/ (f_state = "wsetup" /\ ~weight_done)
       /\ a_state = "array_setup" => ~omap_biu2arb_req /\ ~weight_start
       /\ conv_start => weight_start /\ owner = "free"
  BY EdgeFacts DEF Controller
<1>12. /\ f_state # "conv" => a_state = "idle" /\ ~conv_start /\ ~conv_done
       /\ conv_start => f_state = "conv" /\ ~conv_done
       /\ a_state # "idle" => f_state = "conv" /\ ~conv_done
       /\ conv_done => f_state = "conv" /\ a_state = "idle"
  BY EdgeFacts DEF OneConvolution
<1>13. /\ a_state \in {"idle", "array_setup"} => ~StartSeen
       /\ f_state # "conv" => ~StartSeen
  <2>1. StartSeen => A!array_en \/ a_state = "array_cool_down"
    BY EdgeFacts DEF Starts
  <2>2. a_state \in {"idle", "array_setup"} => ~A!array_en /\ a_state # "array_cool_down"
    BY EdgeFacts
  <2> QED
    BY <1>12, <2>1, <2>2
<1>14. start => ~weight_start /\ ~weight_biu2arb_req
  BY <1>2 DEF WRest
\* The first weights and the map.
<1>15. f_state' = "wsetup" => \/ weight_start' /\ ~weight_biu2arb_req' /\ ~weight_done'
                              \/ ~weight_start' /\ weight_biu2arb_req' /\ ~weight_done'
                              \/ ~weight_start' /\ ~weight_biu2arb_req' /\ weight_done'
  <2> SUFFICES ASSUME f_state' = "wsetup"
               PROVE  \/ weight_start' /\ ~weight_biu2arb_req' /\ ~weight_done'
                      \/ ~weight_start' /\ weight_biu2arb_req' /\ ~weight_done'
                      \/ ~weight_start' /\ ~weight_biu2arb_req' /\ weight_done'
    OBVIOUS
  <2>1. CASE f_state = "idle"
    <3>1. start
      BY <1>1, <2>1
    <3>2. weight_start' /\ ~weight_biu2arb_req' /\ ~weight_done'
      BY <1>2, <1>3, <1>5, <1>14, <2>1, <3>1
    <3> QED
      BY <3>2
  <2>2. CASE f_state = "wsetup"
    <3>1. ~weight_done /\ ~StartSeen /\ ~start
      BY <1>1, <1>2, <1>13, <2>2
    <3>2. ~weight_start'
      BY <1>2, <2>2, <3>1
    <3>3. CASE weight_start /\ ~weight_biu2arb_req
      BY <1>3, <1>5, <3>2, <3>3
    <3>4. CASE ~weight_start /\ weight_biu2arb_req
      BY <1>3, <1>8, <3>1, <3>2, <3>4
    <3> QED
      BY <1>10, <2>2, <3>1, <3>3, <3>4
  <2> QED
    BY <1>1, <1>9, <2>1, <2>2
<1>16. f_state' = "isetup" => /\ ~weight_start' /\ ~weight_biu2arb_req'
                              /\ \/ imap_start' /\ ~imap_biu2arb_req' /\ ~imap_done'
                                 \/ ~imap_start' /\ imap_biu2arb_req' /\ ~imap_done'
                                 \/ ~imap_start' /\ ~imap_biu2arb_req' /\ imap_done'
  <2> SUFFICES ASSUME f_state' = "isetup"
               PROVE  /\ ~weight_start' /\ ~weight_biu2arb_req'
                      /\ \/ imap_start' /\ ~imap_biu2arb_req' /\ ~imap_done'
                         \/ ~imap_start' /\ imap_biu2arb_req' /\ ~imap_done'
                         \/ ~imap_start' /\ ~imap_biu2arb_req' /\ imap_done'
    OBVIOUS
  <2>1. CASE f_state = "wsetup"
    <3>1. weight_done /\ ~StartSeen /\ ~start
      BY <1>1, <1>2, <1>13, <2>1
    <3>2. ~weight_start /\ ~weight_biu2arb_req /\ ~imap_start /\ ~imap_biu2arb_req
      BY <1>10, <2>1, <3>1
    <3>3. ~weight_start' /\ ~weight_biu2arb_req'
      BY <1>2, <1>3, <2>1, <3>1, <3>2
    <3>4. imap_start' /\ ~imap_biu2arb_req' /\ ~imap_done'
      BY <1>2, <1>4, <1>6, <2>1, <3>1, <3>2
    <3> QED
      BY <3>3, <3>4
  <2>2. CASE f_state = "isetup"
    <3>1. ~imap_done /\ ~StartSeen /\ ~start /\ ~weight_start /\ ~weight_biu2arb_req
      BY <1>1, <1>2, <1>10, <1>13, <2>2
    <3>2. ~weight_start' /\ ~weight_biu2arb_req' /\ ~imap_start'
      BY <1>2, <1>3, <2>2, <3>1
    <3>3. CASE imap_start /\ ~imap_biu2arb_req
      BY <1>4, <1>6, <3>2, <3>3
    <3>4. CASE ~imap_start /\ imap_biu2arb_req
      BY <1>4, <1>8, <3>1, <3>2, <3>4
    <3> QED
      BY <1>10, <2>2, <3>1, <3>3, <3>4
  <2> QED
    BY <1>1, <1>9, <2>1, <2>2
<1>17. f_state' # "isetup" => ~imap_start' /\ ~imap_biu2arb_req' /\ ~imap_done'
  <2> SUFFICES ASSUME f_state' # "isetup" PROVE ~imap_start' /\ ~imap_biu2arb_req' /\ ~imap_done'
    OBVIOUS
  <2>1. ~(f_state = "wsetup" /\ weight_done) /\ ~imap_start /\ ~imap_biu2arb_req
    BY <1>1, <1>9, <1>10
  <2> QED
    BY <1>2, <1>4, <1>6, <2>1
\* The words of the job before.
<1>18. (a_state' = "idle" /\ omap_biu2arb_req') =>
            f_state' = "idle" \/ conv_done' \/ (f_state' = "wsetup" /\ ~weight_done')
  <2> SUFFICES ASSUME a_state' = "idle", omap_biu2arb_req'
               PROVE  f_state' = "idle" \/ conv_done' \/ (f_state' = "wsetup" /\ ~weight_done')
    OBVIOUS
  <2>1. CASE a_state = "idle"
    <3>1. omap_biu2arb_req /\ in_ch_cnt # 1
      <4>1. in_ch_cnt = 0
        <5>1. Leaving /\ ~A!array_en
          BY <2>1, EdgeFacts
        <5> QED
          BY <5>1 DEF Leaving
      <4>2. in_ch_cnt # 1
        BY <4>1
      <4> QED
        BY <1>2, <4>2
    <3>2. ~weight_done'
      <4>1. owner = "omap"
        BY <3>1, EdgeFacts DEF OutputCounted
      <4>2. ~wLast
        BY <1>7, <4>1
      <4> QED
        BY <1>3, <4>2
    <3>3. CASE f_state = "idle"
      BY <1>1, <3>2, <3>3
    <3>4. CASE conv_done
      BY <1>1, <1>12, <3>4
    <3>5. CASE f_state = "wsetup" /\ ~weight_done
      BY <1>1, <3>2, <3>5
    <3> QED
      BY <1>11, <2>1, <3>1, <3>3, <3>4, <3>5
  <2>2. CASE a_state # "idle"
    <3>1. /\ a_state = "array_setup" => a_state' \in {"array_setup", "conv_s0"}
          /\ A!array_en => a_state' = "array_cool_down" \/ A!array_en'
          /\ a_state = "array_cool_down" =>
               a_state' = IF A!LastOut /\ A!LastMap THEN "idle" ELSE "array_cool_down"
          /\ conv_done' = (~conv_done /\ a_state = "array_cool_down" /\ A!LastOut /\ A!LastMap)
      BY EdgeFacts, ArrayMoves
    <3>2. ~A!array_en' /\ (a_state # "array_setup" /\ a_state # "array_cool_down" => A!array_en)
      BY <2>2, EdgeFacts
    <3>3. a_state = "array_cool_down" /\ A!LastOut /\ A!LastMap
      BY <2>2, <3>1, <3>2
    <3>4. conv_done'
      BY <1>12, <2>2, <3>1, <3>3
    <3> QED
      BY <3>4
  <2> QED
    BY <2>1, <2>2
<1>19. a_state' = "array_setup" => ~omap_biu2arb_req' /\ ~weight_start'
  <2> SUFFICES ASSUME a_state' = "array_setup" PROVE ~omap_biu2arb_req' /\ ~weight_start'
    OBVIOUS
  <2>1. (a_state = "idle" /\ conv_start) \/ a_state = "array_setup"
    <3>1. /\ a_state = "idle" => a_state' = IF conv_start THEN "array_setup" ELSE "idle"
          /\ A!array_en => a_state' = "array_cool_down" \/ A!array_en'
          /\ a_state = "array_cool_down" => a_state' \in {"idle", "array_cool_down"}
      BY EdgeFacts, ArrayMoves
    <3>2. ~A!array_en' /\ (A!array_en \/ a_state \in {"idle", "array_setup", "array_cool_down"})
      BY EdgeFacts
    <3> QED
      BY <3>1, <3>2
  <2>2. in_ch_cnt # 1 /\ ~StartSeen
    <3>1. in_ch_cnt = 0
      <4>1. Leaving /\ ~A!array_en
        BY <2>1, EdgeFacts
      <4> QED
        BY <4>1 DEF Leaving
    <3>2. in_ch_cnt # 1
      BY <3>1
    <3> QED
      BY <1>13, <2>1, <3>2
  <2>3. ~omap_biu2arb_req
    BY <1>11, <1>12, <2>1
  <2>4. ~omap_biu2arb_req'
    BY <1>2, <2>2, <2>3
  <2>5. f_state = "conv"
    BY <1>12, <2>1
  <2>6. ~weight_start'
    BY <1>2, <2>2, <2>5
  <2> QED
    BY <2>4, <2>6
<1>20. conv_start' => weight_start' /\ owner' = "free"
  <2> SUFFICES ASSUME conv_start' PROVE weight_start' /\ owner' = "free"
    OBVIOUS
  <2>1. f_state = "isetup" /\ imap_done
    BY <1>2
  <2>2. ~weight_start /\ ~weight_biu2arb_req /\ ~imap_biu2arb_req
    BY <1>10, <2>1
  <2>3. weight_start'
    BY <1>2, <2>1, <2>2
  <2>4. ~omap_biu2arb_req
    BY <1>11, <1>12, <2>1
  <2>5. owner \in {"free", "omap", "weight", "imap"}
    BY EdgeFacts
  <2>6. owner' = "free"
    BY <2>2, <2>4, <2>5, EdgeFacts, OwnerStep
  <2> QED
    BY <2>3, <2>6
<1>21. imap_start' \in BOOLEAN /\ weight_done' \in BOOLEAN /\ imap_done' \in BOOLEAN
  BY <1>2, <1>3, <1>4
<1> QED
  BY <1>15, <1>16, <1>17, <1>18, <1>19, <1>20, <1>21 DEF Controller, WRest

\* What has been issued of a load is a number of words.
LEMMA IssuedNumber == ASSUME TypeOK PROVE WIssued \in Nat
<1>1. /\ w_cnt \in 0..(W!Kernel3 - 1) /\ W!Kernel3 \in Nat /\ W!Total \in Nat
  BY Sizes DEF TypeOK
<1> QED
  BY <1>1 DEF WIssued

\* Also after a clock edge.
LEMMA IssuedNext == TypeOK' => (WIssued \in Nat)'
BY IssuedNumber, PTL

\* While the weights for the next channel are awaited the pass has time left for them.
LEMMA LoadingStep ==
  ASSUME Steady, FastEnough, IInv, A!IInv', TypeOK', TimeInv,
         NEW start \in BOOLEAN, NEW ready \in Ready, NEW answer \in BOOLEAN,
         Clock(start, ready, answer)
  PROVE  Loading'
<1> DEFINE oLast == o_receive_cnt = A!Pixels - 1 /\ owner = "omap" /\ answer
           wLast == owner = "weight" /\ answer /\ w_receive_cnt = W!Total - 1
           reach == Wait(MaxOutstanding)
           owed == Wait(Len(pending))
           left == Wait(Len(pending'))
           at == A!position'
           turns == Turns'
           issued == WIssued'
           held == waited'
           end == LoadEnd'
<1>1. /\ in_ch_cnt \in 0..1 /\ A!Pixels \in Nat /\ A!Pixels >= 15
      /\ A!position \in 0..(A!Pixels - 1) /\ owner \in {"free", "omap", "weight", "imap"}
      /\ Leaving
  BY EdgeFacts
<1>2. /\ A!position' = IF A!array_en THEN IF A!position = A!Pixels - 1 THEN 0 ELSE A!position + 1
                                     ELSE A!position
      /\ in_ch_cnt' = IF A!array_en /\ A!position = A!Pixels - 1 THEN 1 - in_ch_cnt
                                                              ELSE in_ch_cnt
      /\ a_state = "idle" => a_state' = IF conv_start THEN "array_setup" ELSE "idle"
      /\ A!array_en => a_state' = "array_cool_down" \/ A!array_en'
      /\ a_state = "array_cool_down" => a_state' \in {"idle", "array_cool_down"}
  BY EdgeFacts, ArrayMoves
<1>3. /\ weight_start' = (~weight_start /\ \/ f_state = "idle" /\ start
                                           \/ f_state = "isetup" /\ imap_done
                                           \/ StartSeen /\ out_ch_cnt < NOCH - 1)
      /\ omap_biu2arb_req' = (~oLast /\ (in_ch_cnt = 1 \/ omap_biu2arb_req))
  BY EdgeFacts, ControlStep
<1>4. /\ weight_biu2arb_req' = (weight_start \/ (weight_biu2arb_req /\ ~wLast))
      /\ weight_start => w_state' # "idle" /\ WIssued' = 0
      /\ ~weight_start /\ w_state = "idle" => w_state' = "idle"
      /\ w_state # "idle" =>
           /\ WIssued' = WIssued + Bit(owner = "weight")
           /\ w_state' = "idle" => owner = "weight" /\ WIssued' = W!Total
      /\ wLast => w_state = "idle" /\ Len(pending') = 0
  BY EdgeFacts, WeightsStep DEF Starts
<1>5. oLast => /\ ~second /\ in_ch_cnt = 0 /\ omap_biu2arb_req /\ owner = "omap"
               /\ Len(pending) = 1 /\ Len(pending') = 0
  BY OutputStep
<1>6. /\ owner = "omap" => owner' = IF omap_biu2arb_req THEN "omap" ELSE "free"
      /\ owner = "weight" => owner' = IF weight_biu2arb_req THEN "weight" ELSE "free"
      /\ owner = "imap" => owner' = IF imap_biu2arb_req THEN "imap" ELSE "free"
      /\ owner = "free" => owner' = IF omap_biu2arb_req THEN "omap"
                                    ELSE IF weight_biu2arb_req THEN "weight"
                                    ELSE IF imap_biu2arb_req THEN "imap" ELSE "free"
  BY EdgeFacts, OwnerStep
<1>7. /\ MaxDelay \in Nat /\ MaxOutstanding \in Nat /\ reach \in Nat /\ OutEnd \in Nat
      /\ W!Total \in Nat /\ W!Total >= 1 /\ LoadEnd \in Nat
      /\ OutEnd = reach + 10 /\ LoadEnd = OutEnd + W!Total + reach + 3
      /\ Wait(0) = 0 /\ Wait(1) = MaxDelay + 1 /\ end = LoadEnd
      /\ W!Total' = W!Total /\ Wait(MaxOutstanding)' = reach
  BY Margins, Waiting DEF Wait
<1>8. /\ Len(pending) \in Nat /\ Len(pending') \in Nat /\ held \in 0..MaxDelay
      /\ Len(pending) >= 1 /\ ~cmdValid => left + waited + 1 <= owed + held
      /\ answer => Len(pending) >= 1
  BY EdgeFacts, PendingStep
<1>9. /\ waited \in 0..MaxDelay /\ owed \in Nat /\ left \in Nat /\ left <= reach
      /\ Len(pending) >= 1 => owed >= MaxDelay + 1
  <2>1. Len(pending') <= MaxOutstanding
    BY EdgeFacts, QueueStep
  <2>2. waited \in 0..MaxDelay /\ owed \in Nat /\ left \in Nat
    BY <1>8, EdgeFacts, Waiting DEF Routed
  <2>3. left <= reach
    BY <1>7, <1>8, <2>1, Waiting
  <2>4. ASSUME Len(pending) >= 1 PROVE owed >= MaxDelay + 1
    <3>1. Len(pending) - 1 \in Nat /\ Len(pending) = (Len(pending) - 1) + 1
      BY <1>8, <2>4
    <3>2. owed = Wait(Len(pending) - 1) + MaxDelay + 1 /\ Wait(Len(pending) - 1) \in Nat
      BY <3>1, Waiting
    <3>3. MaxDelay \in Nat
      BY Waiting
    <3> HIDE DEF owed, Wait
    <3> QED
      BY <3>2, <3>3
  <2> QED
    BY <2>2, <2>3, <2>4
<1>10. WIssued \in Nat /\ issued \in Nat
  BY EdgeFacts, IssuedNumber, IssuedNext
<1>11. turns \in 0..2 /\ Turns \in 0..2
  BY DEF Turns
<1>12. oLast \in BOOLEAN /\ wLast \in BOOLEAN /\ (wLast => owner = "weight" /\ answer)
  OBVIOUS
<1> HIDE DEF oLast, wLast, reach, owed, left, at, turns, issued, held, end, Wait
<1>13. SUFFICES ASSUME (FirstPass \/ a_state = "array_setup")', ~omap_biu2arb_req'
       PROVE  /\ ~weight_start'
              /\ w_state' # "idle" => at + turns + W!Total + reach + 1 <= end + issued
              /\ weight_biu2arb_req' /\ w_state' = "idle" => at + left + 1 <= end + held
              /\ ~weight_biu2arb_req' /\ owner' # "free" => at <= end
  BY <1>7 DEF Loading, at, turns, left, issued, held, end
<1>14. \/ a_state = "idle" /\ conv_start
       \/ (FirstPass \/ a_state = "array_setup") /\ (A!array_en => A!position # A!Pixels - 1)
       \/ in_ch_cnt = 1
  <2>1. CASE a_state \in {"idle", "array_setup", "array_cool_down"}
    <3>1. a_state' = "array_setup" \/ A!array_en'
      BY <1>13 DEF FirstPass
    <3>2. a_state' \notin {"idle", "array_cool_down"} /\ ~A!array_en
      BY <2>1, <3>1, EdgeFacts
    <3> QED
      BY <1>2, <2>1, <3>2
  <2>2. CASE A!array_en
    <3>1. A!array_en' => a_state' # "array_setup"
      BY EdgeFacts
    <3>2. a_state' = "array_cool_down" => ~A!array_en' /\ a_state' # "array_setup"
      BY EdgeFacts
    <3>3. FirstPass'
      BY <1>2, <1>13, <2>2, <3>1, <3>2
    <3>4. in_ch_cnt' = 0
      BY <3>3 DEF FirstPass
    <3>5. CASE in_ch_cnt = 0
      <4>1. A!position # A!Pixels - 1
        BY <1>2, <2>2, <3>4, <3>5
      <4> QED
        BY <2>2, <3>5, <4>1 DEF FirstPass
    <3> QED
      BY <1>1, <3>5
  <2> QED
    BY <2>1, <2>2, EdgeFacts
\* A second pass keeps the request.
<1>15. in_ch_cnt # 1
  <2>1. SUFFICES ASSUME in_ch_cnt = 1 PROVE FALSE
    OBVIOUS
  <2>2. ~oLast
    BY <1>5, <2>1
  <2> QED
    BY <1>3, <1>13, <2>1, <2>2
\* A job begins.
<1>16. CASE a_state = "idle" /\ conv_start
  <2>1. weight_start /\ ~weight_biu2arb_req /\ owner = "free" /\ f_state = "conv" /\ ~conv_done
        /\ ~imap_biu2arb_req /\ ~omap_biu2arb_req
    <3>1. weight_start /\ owner = "free"
      BY <1>16, EdgeFacts DEF Controller
    <3>2. ~weight_biu2arb_req
      BY <3>1, EdgeFacts DEF Starts
    <3>3. f_state = "conv" /\ ~conv_done
      BY <1>16, EdgeFacts DEF OneConvolution
    <3>4. ~imap_biu2arb_req
      BY <3>3, EdgeFacts DEF Controller
    <3>5. ~omap_biu2arb_req
      BY <1>16, <3>3, EdgeFacts DEF Controller
    <3> QED
      BY <3>1, <3>2, <3>3, <3>4, <3>5
  <2>2. ~weight_start' /\ weight_biu2arb_req' /\ w_state' # "idle" /\ WIssued' = 0 /\ owner' = "free"
    BY <1>3, <1>4, <1>6, <2>1
  <2>3. at = 0
    <3>1. ~A!array_en
      BY <1>16, EdgeFacts
    <3>2. A!position = 0
      BY <1>1, <3>1 DEF Leaving
    <3> QED
      BY <1>2, <3>1, <3>2 DEF at
  <2>4. issued = 0
    BY <2>2 DEF issued
  <2> QED
    BY <1>7, <1>11, <2>2, <2>3, <2>4
\* The array reads the first pixels or is in the first pass.
<1>17. CASE (FirstPass \/ a_state = "array_setup") /\ (A!array_en => A!position # A!Pixels - 1)
  <2>1. at \in Nat /\ at <= A!position + 1
    BY <1>1, <1>2, <1>17 DEF at
  <2>2. f_state = "conv" /\ ~imap_biu2arb_req
    <3>1. a_state # "idle"
      BY <1>17, EdgeFacts DEF FirstPass
    <3>2. f_state = "conv"
      BY <3>1, EdgeFacts DEF OneConvolution
    <3> QED
      BY <3>2, EdgeFacts DEF Controller
  <2>3. ~second => ~StartSeen
    <3>1. StartSeen => \/ A!array_en /\ in_ch_cnt = 0 /\ A!position = 0 /\ out_ch_cnt > 0
                       \/ a_state = "array_cool_down"
      BY EdgeFacts DEF Starts
    <3>2. a_state # "array_cool_down" /\ (a_state = "array_setup" => ~A!array_en)
      BY <1>17, EdgeFacts DEF FirstPass
    <3>3. A!array_en /\ in_ch_cnt = 0 /\ A!position = 0 /\ out_ch_cnt > 0 => second
      BY <1>1 DEF Leaving
    <3> QED
      BY <3>1, <3>2, <3>3
  <2>4. ~second => ~weight_start'
    BY <1>3, <2>2, <2>3
  <2>5. CASE ~omap_biu2arb_req
    <3>1. /\ ~weight_start
          /\ w_state # "idle" => A!position + Turns + W!Total + reach + 1 <= LoadEnd + WIssued
          /\ weight_biu2arb_req /\ w_state = "idle" => A!position + owed + 1 <= LoadEnd + waited
      BY <1>17, <2>5, EdgeFacts DEF Loading, reach, owed
    <3>2. ~weight_start'
      <4>1. ~second
        BY <2>5, EdgeFacts DEF OutputCounted
      <4> QED
        BY <2>4, <4>1
    <3>3. w_state' # "idle" => at + turns + W!Total + reach + 1 <= end + issued
      <4> SUFFICES ASSUME w_state' # "idle" PROVE at + turns + W!Total + reach + 1 <= end + issued
        OBVIOUS
      <4>1. w_state # "idle"
        BY <1>4, <3>1
      <4>2. weight_biu2arb_req
        BY <4>1, EdgeFacts DEF WeightsCounted
      <4>3. turns + 1 + WIssued <= Turns + issued
        <5>1. issued = WIssued + Bit(owner = "weight")
          BY <1>4, <4>1 DEF issued
        <5>2. CASE owner = "weight"
          <6>1. owner' = "weight"
            BY <1>6, <4>2, <5>2
          <6>2. turns = 0 /\ Turns = 0 /\ Bit(owner = "weight") = 1
            BY <5>2, <6>1 DEF turns, Turns, Bit
          <6> QED
            BY <1>10, <5>1, <6>2
        <5>3. CASE owner = "free"
          <6>1. owner' = "weight"
            BY <1>6, <2>5, <4>2, <5>3
          <6>2. turns = 0 /\ Turns = 1 /\ Bit(owner = "weight") = 0
            BY <5>3, <6>1 DEF turns, Turns, Bit
          <6> QED
            BY <1>10, <5>1, <6>2
        <5>4. CASE owner \in {"omap", "imap"}
          <6>1. owner' = "free"
            BY <1>6, <2>2, <2>5, <5>4
          <6>2. turns = 1 /\ Turns = 2 /\ Bit(owner = "weight") = 0
            BY <5>4, <6>1 DEF turns, Turns, Bit
          <6> QED
            BY <1>10, <5>1, <6>2
        <5> QED
          BY <1>1, <5>2, <5>3, <5>4
      <4>4. A!position + Turns + W!Total + reach + 1 <= LoadEnd + WIssued
        BY <3>1, <4>1
      <4>5. A!position \in Nat
        BY <1>1
      <4> QED
        BY <1>7, <1>10, <1>11, <2>1, <4>3, <4>4, <4>5
    <3>4. weight_biu2arb_req' /\ w_state' = "idle" => at + left + 1 <= end + held
      <4> SUFFICES ASSUME weight_biu2arb_req', w_state' = "idle" PROVE at + left + 1 <= end + held
        OBVIOUS
      <4>0. A!position \in Nat
        BY <1>1
      <4>1. CASE w_state # "idle"
        <5>1. owner = "weight" /\ issued = W!Total /\ issued = WIssued + Bit(owner = "weight")
          BY <1>4, <4>1 DEF issued
        <5>2. Bit(owner = "weight") = 1
          BY <5>1 DEF Bit
        <5>3. WIssued + 1 = W!Total
          BY <5>1, <5>2
        <5>4. A!position + Turns + W!Total + reach + 1 <= LoadEnd + WIssued
          BY <3>1, <4>1
        <5>5. A!position + reach + 2 <= LoadEnd
          BY <1>7, <1>10, <1>11, <4>0, <5>3, <5>4
        <5> QED
          BY <1>7, <1>8, <1>9, <2>1, <4>0, <5>5
      <4>2. CASE w_state = "idle"
        <5>1. weight_biu2arb_req
          BY <1>4, <3>1
        <5>2. owner = "weight" /\ Len(pending) >= 1
          <6>1. w_receive_cnt + Asked("weight") = W!Total
            BY <4>2, <5>1, EdgeFacts DEF WeightsCounted, WIssued
          <6>2. w_receive_cnt \in 0..(W!Total - 1)
            BY EdgeFacts DEF TypeOK
          <6>3. Asked("weight") # 0
            BY <1>7, <6>1, <6>2
          <6>4. owner = "weight" /\ Len(pending) # 0
            BY <6>3 DEF Asked
          <6> QED
            BY <1>8, <6>4
        <5>3. ~cmdValid
          BY <4>2, <5>2, EdgeFacts, Traffic
        <5>4. left + waited + 1 <= owed + held
          BY <1>8, <5>2, <5>3
        <5>5. A!position + owed + 1 <= LoadEnd + waited
          BY <3>1, <4>2, <5>1
        <5> QED
          BY <1>7, <1>8, <1>9, <2>1, <4>0, <5>4, <5>5
      <4> QED
        BY <4>1, <4>2
    <3>5. ~weight_biu2arb_req' /\ owner' # "free" => at <= end
      <4> SUFFICES ASSUME ~weight_biu2arb_req', owner' # "free" PROVE at <= end
        OBVIOUS
      <4>0. A!position \in Nat
        BY <1>1
      <4>1. weight_biu2arb_req
        BY <1>1, <1>6, <2>2, <2>5, EdgeFacts DEF WeightsCounted
      <4>2. wLast
        BY <1>4, <1>12, <4>1
      <4>3. w_state = "idle" /\ Len(pending) >= 1
        BY <1>4, <1>8, <1>12, <4>2
      <4>4. A!position + owed + 1 <= LoadEnd + waited
        BY <3>1, <4>1, <4>3
      <4>5. owed >= MaxDelay + 1
        BY <1>9, <4>3
      <4> QED
        BY <1>7, <1>9, <2>1, <4>0, <4>4, <4>5
    <3> QED
      BY <3>2, <3>3, <3>4, <3>5
  <2>6. CASE omap_biu2arb_req
    <3>1. oLast
      BY <1>3, <1>12, <1>13, <2>6
    <3>2. ~second /\ in_ch_cnt = 0 /\ owner = "omap" /\ Len(pending) = 1 /\ Len(pending') = 0
      BY <1>5, <3>1
    <3>3. ~weight_start'
      BY <2>4, <3>2
    <3>4. FirstPass
      BY <1>17, <2>6, EdgeFacts DEF Controller
    <3>5. owed = MaxDelay + 1 /\ left = 0
      BY <1>7, <3>2 DEF owed, left
    <3>6. A!position >= 10 => A!position + owed <= OutEnd + waited
      BY <2>6, <3>4, EdgeFacts DEF Emptying, owed
    <3>7. at <= OutEnd
      <4>1. A!position \in Nat
        BY <1>1
      <4> QED
        BY <1>7, <1>9, <2>1, <3>5, <3>6, <4>1
    <3>8. at + turns + W!Total + reach + 1 <= end + issued
      BY <1>7, <1>10, <1>11, <2>1, <3>7
    <3>9. at + left + 1 <= end + held /\ at <= end
      BY <1>7, <1>8, <2>1, <3>5, <3>7
    <3> QED
      BY <3>3, <3>8, <3>9
  <2> QED
    BY <2>5, <2>6
<1> QED
  BY <1>14, <1>15, <1>16, <1>17

\* The words keep the pixels they were made of and the order they were made in.
LEMMA PathStep ==
  ASSUME Steady, FastEnough, IInv, A!IInv', TimeInv,
         NEW start \in BOOLEAN, NEW ready \in Ready, NEW answer \in BOOLEAN,
         Clock(start, ready, answer)
  PROVE  /\ P!IInv'
         /\ P!SecondVisits' = IF vld_d[6] /\ second THEN P!Following(P!SecondVisits)
                                                    ELSE P!SecondVisits
<1> DEFINE vld == vld_d[6]
           rdy == owner = "omap"
<1>1. vld \in BOOLEAN /\ rdy \in BOOLEAN
  <2>1. A!TypeOK
    BY EdgeFacts DEF A!IInv
  <2>2. vld_d[6] \in BOOLEAN
    BY <2>1 DEF A!TypeOK, A!Delay
  <2> QED
    BY <2>2
<1>2. P!Moves(vld, rdy) /\ psum_acc_vld_out' = (vld /\ second)
  BY EdgeFacts, PathMoves
<1>3. P!IInv
  BY EdgeFacts
<1>4. P!second(vld, rdy) = (vld_d[6] /\ second)
  BY <1>2 DEF P!Moves, P!Shifts
<1> HIDE DEF vld, rdy
<1>5. P!SumInv /\ P!Shifts(vld, rdy)
  BY <1>2, <1>3 DEF P!IInv, P!Moves
<1>6. P!Ranges' /\ P!FirstVisitsStored' /\ P!SamePixelAdded'
  <2>1. P!Ranges'
    BY <1>1, <1>5, P!RangesKept, PathAssumptions
  <2>2. P!FirstVisitsStored'
    BY <1>1, <1>5, P!FirstVisitsKept, PathAssumptions
  <2>3. P!SamePixelAdded'
    BY <1>1, <1>5, P!SumsKept, PathAssumptions
  <2> QED
    BY <2>1, <2>2, <2>3
<1>7. P!SumInv'
  BY <1>6 DEF P!SumInv
<1>8. P!Consecutive'
  BY <1>1, <1>2, <1>3, P!ConsecutiveKept, PathAssumptions
<1>9. P!SecondVisits' = IF P!second(vld, rdy) THEN P!Following(P!SecondVisits) ELSE P!SecondVisits
  BY <1>1, <1>2, <1>3, P!SecondVisitsMoves, PathAssumptions
<1> QED
  BY <1>4, <1>7, <1>8, <1>9 DEF P!IInv

\* A unit gives the bus back when nothing it asked for is owed to it.
LEMMA RoutedStep ==
  ASSUME Steady, FastEnough, IInv, A!IInv', TimeInv,
         NEW start \in BOOLEAN, NEW ready \in Ready, NEW answer \in BOOLEAN,
         Clock(start, ready, answer)
  PROVE  Routed'
<1>1. /\ answer => Len(pending) >= 1 /\ owner # "free"
      /\ Len(pending) \in Nat /\ Len(pending') \in Nat
      /\ Len(pending') = Len(pending) + Bit(cmdValid) - Bit(answer)
      /\ \A k \in 1..Len(pending') : pending'[k].unit = owner
      /\ owner = "free" => Len(pending') = 0
      /\ waited' \in 0..MaxDelay
  BY EdgeFacts, PendingStep
<1>2. /\ owner = "weight" => (cmdValid <=> w_state # "idle")
      /\ owner = "imap" => (cmdValid <=> i_state # "idle")
      /\ owner = "omap" => (cmdValid <=> o_vld)
  BY EdgeFacts, Traffic
<1>3. /\ owner = "omap" => owner' = IF omap_biu2arb_req THEN "omap" ELSE "free"
      /\ owner = "weight" => owner' = IF weight_biu2arb_req THEN "weight" ELSE "free"
      /\ owner = "imap" => owner' = IF imap_biu2arb_req THEN "imap" ELSE "free"
      /\ owner \in {"free", "omap", "weight", "imap"}
  BY EdgeFacts, OwnerStep
<1>4. ASSUME owner # "free", Len(pending) = 0, ~cmdValid PROVE Len(pending') = 0
  <2>1. Bit(cmdValid) = 0 /\ Bit(answer) = 0
    BY <1>1, <1>4 DEF Bit
  <2>2. Len(pending') = 0 + 0 - 0
    BY <1>1, <1>4, <2>1
  <2> QED
    BY <2>2
<1>5. owner' # owner => Len(pending') = 0
  <2> SUFFICES ASSUME owner' # owner PROVE Len(pending') = 0
    OBVIOUS
  <2>1. CASE owner = "omap"
    <3>1. ~omap_biu2arb_req
      BY <1>3, <2>1
    <3>2. UnderWay \in Nat /\ (o_vld => UnderWay # 0)
      BY DEF UnderWay, Bit
    <3>3. UnderWay + o_receive_cnt + Len(pending) = 0
      <4>1. ~second
        BY <3>1, EdgeFacts DEF OutputCounted
      <4>2. Due = 0
        BY <3>1, <4>1 DEF Due
      <4> QED
        BY <2>1, <4>2, EdgeFacts DEF OutputCounted, Asked
    <3>4. o_receive_cnt \in Nat
      <4>1. o_receive_cnt \in 0..(Array!Pixels - 1)
        BY EdgeFacts DEF TypeOK
      <4> QED
        BY <4>1, Sequencer, EdgeFacts
    <3>5. Len(pending) = 0 /\ UnderWay = 0
      BY <1>1, <3>2, <3>3, <3>4
    <3> QED
      BY <1>2, <1>4, <2>1, <3>2, <3>5
  <2>2. CASE owner = "weight"
    <3>1. w_state = "idle" /\ w_receive_cnt + Len(pending) = 0
      BY <1>3, <2>2, EdgeFacts DEF WeightsCounted, WIssued, Asked
    <3>2. w_receive_cnt \in Nat
      <4>1. w_receive_cnt \in 0..(W!Total - 1) /\ W!Total \in Nat
        BY EdgeFacts, Margins DEF TypeOK
      <4> QED
        BY <4>1
    <3>3. Len(pending) = 0
      BY <1>1, <3>1, <3>2
    <3> QED
      BY <1>2, <1>4, <2>2, <3>1, <3>3
  <2>3. CASE owner = "imap"
    <3>1. i_state = "idle" /\ i_receive_cnt + Len(pending) = 0
      BY <1>3, <2>3, EdgeFacts DEF MapCounted, IIssued, Asked
    <3>2. i_receive_cnt \in Nat
      <4>1. i_receive_cnt \in 0..(ImapWords - 1) /\ ImapWords \in Nat
        BY EdgeFacts, Sizes DEF TypeOK
      <4> QED
        BY <4>1
    <3>3. Len(pending) = 0
      BY <1>1, <3>1, <3>2
    <3> QED
      BY <1>2, <1>4, <2>3, <3>1, <3>3
  <2> QED
    BY <1>1, <1>3, <2>1, <2>2, <2>3
<1>6. \A k \in 1..Len(pending') : pending'[k].unit = owner'
  <2>1. CASE owner' = owner
    BY <1>1, <2>1
  <2>2. CASE owner' # owner
    <3>1. 1..Len(pending') = {}
      BY <1>5, <2>2
    <3> QED
      BY <3>1
  <2> QED
    BY <2>1, <2>2
<1>7. owner' = "free" => Len(pending') = 0
  BY <1>1, <1>5
<1> QED
  BY <1>1, <1>6, <1>7 DEF Routed

\* Every word is written or under way until the job is reported done.
LEMMA AllWrittenStep ==
  ASSUME Steady, FastEnough, IInv, A!IInv', TimeInv,
         NEW start \in BOOLEAN, NEW ready \in Ready, NEW answer \in BOOLEAN,
         Clock(start, ready, answer)
  PROVE  AllWritten'
<1> DEFINE deliver == vld_d[6] /\ second
           before == IF start THEN 0 ELSE written
           visits == P!SecondVisits'
           gone == written'
           way == UnderWay'
<1>1. written' = before + Bit(o_vld)
  <2>1. written' = before + (IF Accepted(ready) /\ ~Arb!acc_icb_cmd_read THEN 1 ELSE 0)
    BY DEF Clock, Written
  <2>2. Accepted(ready) /\ ~Arb!acc_icb_cmd_read <=> cmdValid /\ owner \notin {"weight", "imap"}
    BY DEF Steady, Ready, Accepted, Arb!acc_icb_cmd_read
  <2>3. cmdValid /\ owner \notin {"weight", "imap"} <=> o_vld
    <3>1. /\ owner = "omap" => (cmdValid <=> o_vld)
          /\ owner = "free" => ~cmdValid
          /\ owner \in {"free", "omap", "weight", "imap"}
      BY EdgeFacts, Traffic
    <3>2. o_vld => owner = "omap"
      BY OutputStep
    <3> QED
      BY <3>1, <3>2
  <2> HIDE DEF before
  <2> QED
    BY <2>1, <2>2, <2>3 DEF Bit
<1>2. /\ UnderWay' + Bit(o_vld) = UnderWay + Bit(deliver)
      /\ UnderWay \in Nat /\ UnderWay' \in Nat
  BY OutputStep
<1>3. /\ written \in Nat
      /\ written + UnderWay >= IF conv_done \/ acc_done THEN P!Total ELSE P!SecondVisits
  BY EdgeFacts DEF AllWritten
<1>4. P!SecondVisits' = IF deliver THEN P!Following(P!SecondVisits) ELSE P!SecondVisits
  BY PathStep
<1>5. /\ P!SecondVisits \in 0..(P!Total - 1) /\ P!Total \in Nat /\ P!Total' = P!Total
      /\ omap_ch_cnt = 0 /\ omap_cnt = 0 => P!SecondVisits = 0
      /\ omap_ch_cnt = 2 * NOCH - 1 /\ omap_cnt = A!Pixels - 1 => P!SecondVisits = P!Total - 1
  <2>1. P!Ranges
    BY EdgeFacts
  <2>2. P!Total' = P!Total
    BY DEF P!Total, A!Pixels
  <2> QED
    BY <2>1, <2>2, P!VisitsBounds, PathAssumptions
<1>6. /\ acc_done' = (~acc_done /\ conv_done)
      /\ start => f_state = "idle" /\ ~acc_done /\ ~conv_done
  BY EdgeFacts, ControlStep
<1>7. conv_done' = (~conv_done /\ a_state = "array_cool_down" /\ A!LastOut /\ A!LastMap)
  BY EdgeFacts, ArrayMoves
<1>8. /\ a_state = "array_cool_down" => second
      /\ second => vld_d[6]
      /\ a_state = "idle" => ~second /\ omap_ch_cnt = 0 /\ omap_cnt = 0
  BY EdgeFacts DEF Leaving
<1>9. /\ f_state # "conv" => a_state = "idle"
      /\ f_state # "idle" => ~acc_done
      /\ conv_done => a_state = "idle"
  BY EdgeFacts DEF OneConvolution
<1>10. Bit(deliver) \in 0..1 /\ Bit(o_vld) \in 0..1 /\ (deliver => Bit(deliver) = 1)
  BY DEF Bit
<1>11. psum_acc_vld_out' = deliver
  BY EdgeFacts, PathMoves
<1>12. deliver => second
  OBVIOUS
<1>13. vld_d[6] /\ second => deliver
  OBVIOUS
<1>14. before \in Nat /\ (start => before = 0) /\ (~start => before = written)
  BY <1>3
<1>15. conv_done \in BOOLEAN /\ acc_done \in BOOLEAN
  BY EdgeFacts DEF A!IInv, A!TypeOK, OneConvolution
<1>16. A!LastOut /\ A!LastMap => omap_ch_cnt = 2 * NOCH - 1 /\ omap_cnt = A!Pixels - 1
  BY DEF A!LastOut, A!LastMap
<1> HIDE DEF deliver, before, visits, gone, way, second
<1>17. gone + way = before + UnderWay + Bit(deliver) /\ gone \in Nat /\ way \in Nat
  <2>1. gone = before + Bit(o_vld) /\ way + Bit(o_vld) = UnderWay + Bit(deliver) /\ way \in Nat
    BY <1>1, <1>2 DEF gone, way
  <2> QED
    BY <1>2, <1>10, <1>14, <2>1
<1>18. visits \in 0..P!Total /\ visits <= P!SecondVisits + Bit(deliver)
       /\ visits < P!Total
  <2>1. visits = IF deliver THEN P!Following(P!SecondVisits) ELSE P!SecondVisits
    BY <1>4 DEF visits
  <2>2. CASE deliver
    <3>1. visits = IF P!SecondVisits = P!Total - 1 THEN 0 ELSE P!SecondVisits + 1
      BY <2>1, <2>2 DEF P!Following
    <3>2. Bit(deliver) = 1 /\ P!SecondVisits \in 0..(P!Total - 1) /\ P!Total \in Nat
      BY <1>5, <1>10, <2>2
    <3> QED
      BY <3>1, <3>2
  <2>3. CASE ~deliver
    BY <1>5, <1>10, <2>1, <2>3
  <2> QED
    BY <2>2, <2>3
<1>19. CASE start
  <2>1. ~acc_done' /\ ~conv_done' /\ visits = 0
    <3>1. a_state = "idle" /\ ~acc_done /\ ~conv_done
      BY <1>6, <1>9, <1>19
    <3>2. P!SecondVisits = 0 /\ ~deliver
      BY <1>5, <1>8, <1>12, <3>1
    <3>3. visits = 0
      BY <1>4, <3>2 DEF visits
    <3> QED
      BY <1>6, <1>7, <3>1, <3>3
  <2>2. gone + way >= 0
    BY <1>17
  <2> QED
    BY <1>17, <2>1, <2>2 DEF AllWritten, gone, way, visits
<1>20. CASE ~start
  <2>1. gone + way = written + UnderWay + Bit(deliver)
    BY <1>14, <1>17, <1>20
  <2>2. conv_done' => gone + way >= P!Total
    <3> SUFFICES ASSUME conv_done' PROVE gone + way >= P!Total
      OBVIOUS
    <3>1. ~conv_done /\ a_state = "array_cool_down" /\ A!LastOut /\ A!LastMap
      BY <1>7
    <3>2. ~acc_done
      BY <1>9, <3>1
    <3>3. P!SecondVisits = P!Total - 1 /\ Bit(deliver) = 1
      BY <1>5, <1>8, <1>10, <1>13, <1>16, <3>1
    <3>4. written + UnderWay >= P!SecondVisits
      BY <1>3, <3>1, <3>2
    <3> QED
      BY <1>2, <1>3, <1>5, <2>1, <3>3, <3>4
  <2>3. acc_done' => gone + way >= P!Total
    <3> SUFFICES ASSUME acc_done' PROVE gone + way >= P!Total
      OBVIOUS
    <3>1. written + UnderWay >= P!Total
      BY <1>3, <1>6
    <3> QED
      BY <1>2, <1>3, <1>5, <1>10, <2>1, <3>1
  <2>4. ~conv_done' /\ ~acc_done' => gone + way >= visits
    <3>1. CASE conv_done \/ acc_done
      <4>1. written + UnderWay >= P!Total
        BY <1>3, <3>1
      <4> QED
        BY <1>2, <1>3, <1>5, <1>10, <1>18, <2>1, <4>1
    <3>2. CASE ~(conv_done \/ acc_done)
      <4>1. written + UnderWay >= P!SecondVisits
        BY <1>3, <3>2
      <4> QED
        BY <1>2, <1>3, <1>5, <1>10, <1>18, <2>1, <4>1
    <3> QED
      BY <3>1, <3>2
  <2>5. acc_done' => ~psum_acc_vld_out'
    BY <1>6, <1>8, <1>9, <1>11, <1>12
  <2>6. /\ conv_done' => gone + way >= P!Total'
        /\ acc_done' => gone + way >= P!Total'
    BY <1>5, <2>2, <2>3
  <2> QED
    BY <1>17, <2>4, <2>5, <2>6 DEF AllWritten, gone, way, visits
<1> QED
  BY <1>19, <1>20

(***************************************************************************)
(* The invariant of what depends on time.                                   *)
(***************************************************************************)
\* It holds at first: everything rests.
LEMMA TimeInit == ASSUME FastEnough PROVE Init => TimeInv
<1> SUFFICES ASSUME Init PROVE TimeInv
  OBVIOUS
<1>1. /\ f_state = "idle" /\ out_ch_cnt_d = 0 /\ weight_start = FALSE /\ imap_start = FALSE
      /\ conv_start = FALSE /\ acc_done = FALSE
      /\ w_state = "idle" /\ weight_biu2arb_req = FALSE /\ weight_biu2arb_vld = FALSE
      /\ w_receive_cnt = 0 /\ weight_done = FALSE
      /\ i_state = "idle" /\ imap_biu2arb_req = FALSE /\ imap_biu2arb_vld = FALSE
      /\ i_receive_cnt = 0 /\ imap_done = FALSE
      /\ o_receive_cnt = 0 /\ omap_biu2arb_req = FALSE /\ o_vld = FALSE
      /\ owner = "free" /\ pending = <<>> /\ waited = 0 /\ written = 0 /\ started = 0
      /\ psum_acc_vld_out = FALSE /\ p_vld = FALSE /\ m_vld = FALSE
  BY DEF Init, Fsm!Init, W!Init, I!Init, O!Init, O!Stage!Init, Arb!Init, Psum!Init,
         Psum!Stage!Init, Merger!Init
<1>2. /\ a_state = "idle" /\ in_ch_cnt = 0 /\ out_ch_cnt = 0 /\ omap_cnt = 0 /\ omap_ch_cnt = 0
      /\ conv_done = FALSE
  BY DEF Init, Array!Init
<1>3. A!IInv
  BY InvInit DEF IInv
<1>4. ~A!array_en /\ ~second
  <2>1. 0 % 2 = 0
    OBVIOUS
  <2> QED
    BY <1>2, <2>1 DEF A!array_en, A!Zones, second
<1>5. Len(pending) = 0 /\ 1..Len(pending) = {} /\ 0 \in 0..MaxDelay
  BY <1>1, Waiting
<1>6. Routed
  BY <1>1, <1>5 DEF Routed
<1>7. WeightsCounted
  <2>1. Asked("weight") = 0 /\ WIssued = 0
    BY <1>1 DEF Asked, WIssued
  <2>2. w_receive_cnt + Asked("weight") = WIssued /\ ~(w_receive_cnt > 0)
    BY <1>1, <2>1
  <2> QED
    BY <1>1, <2>2 DEF WeightsCounted
<1>8. MapCounted
  <2>1. Asked("imap") = 0 /\ IIssued = 0
    BY <1>1 DEF Asked, IIssued
  <2>2. i_receive_cnt + Asked("imap") = IIssued
    BY <1>1, <2>1
  <2> QED
    BY <1>1, <2>2 DEF MapCounted
<1>9. UnderWay = 0
  BY <1>1 DEF UnderWay, Bit
<1>10. OutputCounted
  <2>1. Asked("omap") = 0 /\ Due = 0
    BY <1>1, <1>4 DEF Asked, Due
  <2>2. UnderWay + o_receive_cnt + Asked("omap") = Due
    BY <1>1, <1>9, <2>1
  <2> QED
    BY <1>1, <1>4, <1>9, <2>2 DEF OutputCounted
<1>11. P!IInv
  <2>1. P!Init
    <3>1. Psum!Init /\ Merger!Init(None) /\ O!Init /\ Array!Pixels = A!Pixels
      BY Sequencer DEF Init
    <3> QED
      BY <1>2, <3>1 DEF P!Init, P!Psum!Init, P!Psum!Stage!Init, P!Merger!Init, P!Omap!Init,
         P!Omap!Stage!Init, Psum!Init, Psum!Stage!Init, Merger!Init, O!Init, O!Stage!Init
  <2> QED
    BY <2>1, P!PathInit, PathAssumptions
<1>12. ~StartSeen /\ WRest
  BY <1>1, <1>2 DEF StartSeen, WRest
<1>13. Starts /\ Controller /\ SecondPass
  <2>1. Starts
    BY <1>1, <1>12 DEF Starts
  <2>2. Controller
    BY <1>1, <1>2 DEF Controller
  <2>3. SecondPass
    BY <1>2 DEF SecondPass
  <2> QED
    BY <2>1, <2>2, <2>3
<1>14. Emptying /\ Loading
  BY <1>2, <1>4 DEF Emptying, Loading, FirstPass
<1>15. AllWritten
  <2>1. P!SecondVisits = 0
    BY <1>2, <1>11, P!VisitsBounds, PathAssumptions DEF P!IInv, P!SumInv
  <2> QED
    BY <1>1, <1>2, <1>9, <2>1 DEF AllWritten
<1> QED
  BY <1>6, <1>7, <1>8, <1>10, <1>11, <1>13, <1>14, <1>15 DEF TimeInv

\* A clock edge keeps it.
LEMMA TimeStep ==
  ASSUME Steady, FastEnough
  PROVE  IInv /\ TimeInv /\ [Next]_vars => TimeInv'
<1> SUFFICES ASSUME IInv, TimeInv, [Next]_vars PROVE TimeInv'
  OBVIOUS
<1>1. IInv'
  BY InvStep
<1>2. A!IInv' /\ TypeOK'
  BY <1>1 DEF IInv
<1>3. CASE Next
  <2>1. PICK start \in BOOLEAN, answer \in BOOLEAN, ready \in Ready : Clock(start, ready, answer)
    BY <1>3 DEF Next
  <2>2. Routed'
    BY <1>2, <2>1, RoutedStep
  <2>3. WeightsCounted' /\ MapCounted'
    <3>1. /\ TypeOK /\ Counting /\ Queued /\ Routed /\ WeightsCounted /\ MapCounted
          /\ weight_start \in BOOLEAN /\ (weight_start => ~weight_biu2arb_req)
      BY DEF IInv, TimeInv, Starts
    <3>2. imap_start \in BOOLEAN /\ (imap_start => ~imap_biu2arb_req)
      BY DEF TimeInv, Controller
    <3>3. WeightsCounted'
      BY <2>1, <3>1, WeightsStep
    <3>4. MapCounted'
      BY <2>1, <3>1, <3>2, MapStep
    <3> QED
      BY <3>3, <3>4
  <2>4. OutputCounted'
    BY <1>2, <2>1, OutputStep
  <2>5. P!IInv'
    BY <1>2, <2>1, PathStep
  <2>6. Starts' /\ Controller'
    BY <1>2, <2>1, StartsStep, ControllerStep
  <2>7. SecondPass' /\ Emptying' /\ Loading'
    BY <1>2, <2>1, SecondPassStep, EmptyingStep, LoadingStep
  <2>8. AllWritten'
    BY <1>2, <2>1, AllWrittenStep
  <2> QED
    BY <2>2, <2>3, <2>4, <2>5, <2>6, <2>7, <2>8 DEF TimeInv
<1>4. CASE UNCHANGED vars
  <2> USE <1>4 DEF vars
  <2>1. /\ A!position' = A!position /\ A!array_en' = A!array_en /\ A!Pixels' = A!Pixels
        /\ second' = second
    BY DEF arrayVars, A!position, A!array_en, A!Pixels, second
  <2>2. Routed'
    BY DEF TimeInv, Routed, envVars
  <2>3. WeightsCounted' /\ MapCounted'
    BY DEF TimeInv, WeightsCounted, MapCounted, WIssued, IIssued, Asked, W!Kernel3, W!Total,
           wVars, iVars, envVars
  <2>4. UnderWay' = UnderWay
    BY DEF UnderWay, Bit, pathVars, oVars
  <2>5. OutputCounted'
    BY <2>1, <2>4 DEF TimeInv, OutputCounted, Due, Asked, oVars, arrayVars, envVars
  <2>6. P!IInv'
    <3>1. UNCHANGED P!vars
      BY DEF pathVars, oVars, arrayVars, P!vars, P!psumVars, P!omapVars
    <3> QED
      BY <3>1, P!PathStep, PathAssumptions DEF TimeInv
  <2>7. WRest' = WRest /\ StartSeen' = StartSeen
    BY DEF WRest, StartSeen, fsmVars, wVars, arrayVars
  <2>8. Starts' /\ Controller'
    BY <2>1, <2>7 DEF TimeInv, Starts, Controller, fsmVars, wVars, iVars, oVars, arrayVars, envVars
  <2>9. FirstPass' = FirstPass
    BY <2>1 DEF FirstPass, arrayVars
  <2>10. SecondPass' /\ Emptying'
    BY <2>1, <2>7, <2>9 DEF TimeInv, SecondPass, Emptying, Wait, OutEnd, pathVars, oVars,
       arrayVars, envVars
  <2>11. WIssued' = WIssued /\ Turns' = Turns /\ LoadEnd' = LoadEnd /\ W!Total' = W!Total
    BY DEF WIssued, Turns, LoadEnd, OutEnd, Wait, W!Kernel3, W!Total, wVars
  <2>12. Loading'
    BY <2>1, <2>9, <2>11 DEF TimeInv, Loading, Wait, fsmVars, wVars, oVars, arrayVars, envVars
  <2>13. P!SecondVisits' = P!SecondVisits /\ P!Total' = P!Total
    BY DEF P!SecondVisits, P!Total, A!Pixels, arrayVars
  <2>14. AllWritten'
    BY <2>4, <2>13 DEF TimeInv, AllWritten, fsmVars, arrayVars, pathVars, envVars
  <2> QED
    BY <2>2, <2>3, <2>5, <2>6, <2>8, <2>10, <2>12, <2>14 DEF TimeInv
<1> QED
  BY <1>3, <1>4

\* The inductive invariant of an accelerator whose memory is prompt enough for its map.
THEOREM TimeInvariant ==
  ASSUME Steady, FastEnough
  PROVE  Spec => [](IInv /\ TimeInv)
<1>1. Init => IInv /\ TimeInv
  BY InvInit, TimeInit
<1>2. IInv /\ TimeInv /\ [Next]_vars => (IInv /\ TimeInv)'
  BY InvStep, TimeStep
<1> QED
  BY <1>1, <1>2, PTL DEF Spec

(***************************************************************************)
(* What a memory that is fast enough gives.                                 *)
(***************************************************************************)
\* An answer finds the bus with the unit that asked for it: whoever gives the bus up has all
\* its answers, and the arbiter needs no record of who asked.
THEOREM AnswersArrive ==
  ASSUME Steady, FastEnough
  PROVE  Spec => []AnswersReachAsker
<1>1. TimeInv => AnswersReachAsker
  BY DEF TimeInv, Routed, AnswersReachAsker
<1> QED
  BY <1>1, TimeInvariant, PTL

\* Every load of weights finds the weight unit at rest, the one that the sequencer orders in
\* the middle of a convolution, too: the load before it has ended a pass earlier.
THEOREM LoadsInTurn ==
  ASSUME Steady, FastEnough
  PROVE  Spec => []NoLoadOverrun
<1>1. ASSUME IInv, TimeInv PROVE NoLoadOverrun
  <2> SUFFICES ASSUME weight_start
               PROVE  /\ w_state = "idle" /\ ~weight_biu2arb_vld
                      /\ ~weight_biu2arb_req /\ w_receive_cnt = 0
    BY DEF NoLoadOverrun
  <2>1. ~weight_biu2arb_req
    BY <1>1 DEF TimeInv, Starts
  <2>2. w_state = "idle" /\ ~weight_biu2arb_vld
    BY <1>1, <2>1 DEF TimeInv, WeightsCounted
  <2>3. w_receive_cnt + Asked("weight") = 0
    BY <1>1, <2>1, <2>2 DEF TimeInv, WeightsCounted, WIssued
  <2>4. Asked("weight") \in Nat
    <3>1. PICK S : pending \in Seq(S)
      BY <1>1 DEF IInv, Queued
    <3>2. Len(pending) \in Nat
      BY <3>1
    <3> QED
      BY <3>2 DEF Asked
  <2>5. w_receive_cnt \in 0..(W!Total - 1) /\ W!Total \in Nat
    BY <1>1, Margins DEF IInv, TypeOK
  <2> QED
    BY <2>1, <2>2, <2>3, <2>4, <2>5
<1> QED
  BY <1>1, TimeInvariant, PTL

\* The array is never refused a pixel, though nothing in the hardware holds it back until the
\* output unit has the bus: it has it in time.
THEOREM ArrayGoesOn ==
  ASSUME Steady, FastEnough
  PROVE  Spec => []NeverStalled
<1>1. TimeInv => NeverStalled
  BY PathReady DEF TimeInv, P!IInv, P!SumInv, NeverStalled
<1> QED
  BY <1>1, TimeInvariant, PTL

\* The array reads the map only when all of it is stored: readers and writer never use the
\* address of a memory at once.
THEOREM MapReadWhenStored ==
  ASSUME Steady, FastEnough
  PROVE  Spec => []MapStoredBeforeRead
<1>1. ASSUME IInv, TimeInv PROVE MapStoredBeforeRead
  <2> SUFFICES ASSUME Array!imap_ren(psumRdy) PROVE i_state = "idle" /\ i_receive_cnt = 0
    BY DEF MapStoredBeforeRead
  <2>1. a_state # "idle"
    BY DEF Array!imap_ren
  <2>2. f_state = "conv"
    BY <1>1, <2>1 DEF IInv, OneConvolution
  <2>3. ~imap_biu2arb_req
    BY <1>1, <2>2 DEF TimeInv, Controller
  <2>4. i_state = "idle" /\ i_receive_cnt + Asked("imap") = 0
    BY <1>1, <2>3 DEF TimeInv, MapCounted, IIssued
  <2>5. Asked("imap") \in Nat
    <3>1. PICK S : pending \in Seq(S)
      BY <1>1 DEF IInv, Queued
    <3>2. Len(pending) \in Nat
      BY <3>1
    <3> QED
      BY <3>2 DEF Asked
  <2>6. i_receive_cnt \in 0..(ImapWords - 1) /\ ImapWords \in Nat
    BY <1>1, Sizes DEF IInv, TypeOK
  <2> QED
    BY <2>4, <2>5, <2>6
<1> QED
  BY <1>1, TimeInvariant, PTL

\* A word on the bus is the sum of the two visits of one pixel and goes to the address of that
\* pixel: three counters, in the array, in the path and in the output unit, stay together.
THEOREM OutputsNamed ==
  ASSUME Steady, FastEnough
  PROVE  Spec => []OutputNamesPixel
<1>1. ASSUME TimeInv PROVE OutputNamesPixel
  <2> SUFFICES ASSUME cmdValid, owner = "omap"
               PROVE  o_dat.first = omap_biu2arb_cnt /\ o_dat.second = omap_biu2arb_cnt
    BY DEF OutputNamesPixel, O!omap_biu2arb_addr
  <2>1. o_vld
    BY DEF cmdValid, Arb!acc_icb_cmd_valid
  <2>2. o_dat.first = o_dat.second /\ o_dat.second = omap_biu2arb_cnt
    BY <1>1, <2>1 DEF TimeInv, P!IInv, P!SumInv, P!SamePixelAdded, P!Consecutive
  <2> QED
    BY <2>2
<1> QED
  BY <1>1, TimeInvariant, PTL

\* A job that is reported done has at most three words still to write, those that psum_acc,
\* map_merger and omap_biu hold.
THEOREM NearlyDrained ==
  ASSUME Steady, FastEnough
  PROVE  Spec => []DoneNearlyDrained
<1>1. ASSUME TimeInv PROVE DoneNearlyDrained
  <2> SUFFICES ASSUME acc_done PROVE written + 3 >= NOCH * Array!Pixels
    BY DEF DoneNearlyDrained, Trailing
  <2>1. written \in Nat /\ written + UnderWay >= P!Total /\ ~psum_acc_vld_out
    BY <1>1 DEF TimeInv, AllWritten
  <2>2. UnderWay \in 0..3
    BY <2>1 DEF UnderWay, Bit
  <2>3. P!Total \in Nat /\ P!Total = NOCH * Array!Pixels
    BY P!Sizes, PathAssumptions, Sequencer DEF P!Total
  <2> HIDE DEF UnderWay
  <2>4. written + 3 >= P!Total
    BY <2>1, <2>2, <2>3
  <2> QED
    BY <2>3, <2>4
<1> QED
  BY <1>1, TimeInvariant, PTL

(***************************************************************************)
(* Which weights are in which bank.                                         *)
(***************************************************************************)
\* The tap the next answer is for.
Tap == IF w_receive_cnt >= W!Kernel3 THEN Taps ELSE receive_bit_cnt

\* Tap and word are the digits of the number of answers.
PlaceCounted ==
  /\ receive_ch_cnt \in 0..(Words - 1) /\ receive_bit_cnt \in 0..(Taps - 1)
  /\ w_receive_cnt = Tap * Words + receive_ch_cnt
  /\ w_receive_cnt >= W!Kernel3 => receive_bit_cnt = 0

\* A prompt memory answers a command in the next clock, and a load that has begun to be
\* answered goes on without a gap: its last word is awaited for one clock.
NoGap == prompt => /\ Len(pending) <= 1
                   /\ w_receive_cnt > 0 => Len(pending) = 1

\* The channel does not change under a load.
LoadChannel == Fsm!weight_och_cnt(out_ch_cnt)
ChannelKept ==
  /\ out_ch_cnt_d \in 0..(NOCH - 1)
  /\ w_state # "idle" =>
       weight_biu2arb_addr \in [kernel : {1, 3}, och : {LoadChannel}, byte : Nat]
  /\ owner = "weight" => \A k \in 1..Len(pending) : pending[k].data = LoadChannel
  /\ ~WRest /\ f_state # "wsetup" => out_ch_cnt < NOCH - 1 \/ NOCH = 1

\* Loads of the present job that have ended: one for every channel up to the one the array
\* computes, and the one ordered meanwhile.  When all pixels are in, channel 1 is loaded
\* again.
Through == f_state = "idle" \/ a_state = "array_cool_down" \/ conv_done
NextIn == /\ f_state \in {"conv", "idle"} /\ WRest /\ ~StartSeen
          /\ out_ch_cnt < NOCH - 1 \/ NOCH = 1
Ended == IF f_state = "wsetup" THEN Bit(WRest)
         ELSE IF f_state = "isetup" THEN 1
         ELSE (IF Through THEN NOCH ELSE out_ch_cnt + 1) + Bit(NextIn)

\* Every load that ends exchanges the banks once.  One of them has the weights of the channel
\* computed, the other is being filled with those of the next one or has them all.
Filled(b, och) == \A p \in Wlu!Places : bank[b][p] = och
Received(p) == p[1] < Tap \/ (p[1] = Tap /\ p[2] < receive_ch_cnt)
Exchanged ==
  weight_load_sel_base =
    IF started = 0 THEN 0 ELSE ((started - 1) * (NOCH + 1) + Ended) % 2
Current == \/ f_state = "wsetup" /\ WRest
           \/ f_state = "isetup"
           \/ f_state = "conv" /\ ~Through
BanksFilled ==
  /\ \A p \in Wlu!Places : Received(p) => bank[weight_load_sel_base][p] = LoadChannel
  /\ Current => Filled(IF NextIn THEN weight_load_sel_base ELSE 1 - weight_load_sel_base, out_ch_cnt)
  /\ f_state = "conv" /\ ~Through /\ NextIn /\ out_ch_cnt < NOCH - 1 =>
       Filled(1 - weight_load_sel_base, out_ch_cnt + 1)

\* The buffers, and the bank being filled.
BanksThere == /\ weight_load_sel_base \in 0..1
              /\ bank \in [0..1 -> [Wlu!Places -> Nat \cup {None}]]

\* What holds of the banks, besides TimeInv.
BankInv ==
  /\ PlaceCounted /\ NoGap /\ ChannelKept /\ BanksThere
  /\ prompt => Exchanged /\ BanksFilled

\* Tap and word are digits.
LEMMA TapDigits ==
  ASSUME NEW t \in 0..Taps, NEW w \in 0..(Words - 1)
  PROVE  /\ t * Words \in Nat /\ (t + 1) * Words = t * Words + Words
         /\ t < Taps => t * Words + Words <= W!Kernel3
         /\ t = Taps => t * Words = W!Kernel3
         /\ 0 * Words = 0
         /\ W!Kernel3 \in Nat /\ W!Total = W!Kernel3 + Words
         /\ Words \in Nat /\ Words >= 1 /\ Taps \in Nat /\ Taps >= 1
<1>1. /\ Taps \in Nat /\ Taps >= 1 /\ Words \in Nat /\ Words >= 1
      /\ W!Kernel3 \in Nat /\ W!Total = W!Kernel3 + Words /\ W!Kernel3 = Taps * Words
  BY Sizes DEF W!Kernel3
<1>2. t \in Nat /\ t <= Taps
  BY <1>1
<1>3. t * Words \in Nat /\ (t + 1) * Words = t * Words + Words /\ 0 * Words = 0
  BY <1>1, <1>2, SMT
<1>4. ASSUME t < Taps PROVE t * Words + Words <= W!Kernel3
  <2>1. Taps - t - 1 \in Nat
    BY <1>1, <1>2, <1>4
  <2>2. (Taps - t - 1) * Words \in Nat
    BY <1>1, <2>1, SMT
  <2>3. Taps * Words = t * Words + Words + (Taps - t - 1) * Words
    BY <1>1, <1>2, SMT
  <2> QED
    BY <1>1, <1>3, <2>2, <2>3
<1> QED
  BY <1>1, <1>3, <1>4

\* The word of a load that is answered is the one the answer counters name, and they name the
\* very last one only when it is awaited.
LEMMA PlaceStep ==
  ASSUME Steady, TypeOK, Queued, Routed, WeightsCounted, MapCounted, PlaceCounted,
         NEW start \in BOOLEAN, NEW ready \in Ready, NEW answer \in BOOLEAN,
         Clock(start, ready, answer)
  PROVE  /\ PlaceCounted'
         /\ W!weight_waddr.line = Words - 1 /\ W!weight_waddr.one <=>
              w_receive_cnt = W!Total - 1
         /\ Wlu!place(W!weight_waddr) = <<Tap, receive_ch_cnt>>
         /\ <<Tap, receive_ch_cnt>> \in Wlu!Places
         /\ ~(owner = "weight" /\ answer) =>
              w_receive_cnt' = w_receive_cnt /\ Tap' = Tap /\ receive_ch_cnt' = receive_ch_cnt
         /\ owner = "weight" /\ answer /\ w_receive_cnt = W!Total - 1 =>
              /\ w_receive_cnt' = 0 /\ Tap' = 0 /\ receive_ch_cnt' = 0
              /\ Tap = Taps /\ receive_ch_cnt = Words - 1
         /\ owner = "weight" /\ answer /\ w_receive_cnt # W!Total - 1 =>
              /\ w_receive_cnt' = w_receive_cnt + 1
              /\ \/ Tap' = Tap /\ receive_ch_cnt' = receive_ch_cnt + 1
                 \/ Tap' = Tap + 1 /\ receive_ch_cnt' = 0 /\ receive_ch_cnt = Words - 1
<1> DEFINE rsp == owner = "weight" /\ answer
           last == rsp /\ w_receive_cnt = W!Total - 1
           kernel1 == w_receive_cnt >= W!Kernel3
<1>1. W!Receive(rsp)
  <2>1. Arb!answered("weight", answer) = rsp
    BY DEF Arb!answered, Arb!acc_icb_rsp_ready
  <2>2. W!Receive(Arb!answered("weight", answer))
    BY DEF Clock, W!Clock
  <2> QED
    BY <2>1, <2>2
<1>2. /\ w_receive_cnt' = IF last THEN 0 ELSE IF rsp THEN w_receive_cnt + 1 ELSE w_receive_cnt
      /\ receive_ch_cnt' = IF rsp THEN (receive_ch_cnt + 1) % Words ELSE receive_ch_cnt
      /\ receive_bit_cnt' = IF w_receive_cnt < W!Kernel3 /\ receive_ch_cnt = Words - 1 /\ rsp
                            THEN (receive_bit_cnt + 1) % Taps ELSE receive_bit_cnt
  BY <1>1 DEF W!Receive, W!LastAnswer
<1>3. /\ w_receive_cnt \in 0..(W!Total - 1)
      /\ receive_ch_cnt \in 0..(Words - 1) /\ receive_bit_cnt \in 0..(Taps - 1)
      /\ w_receive_cnt = Tap * Words + receive_ch_cnt
      /\ kernel1 => receive_bit_cnt = 0
      /\ Tap = IF kernel1 THEN Taps ELSE receive_bit_cnt
  BY DEF TypeOK, PlaceCounted, Tap
<1>4. /\ W!Kernel3 \in Nat /\ W!Total = W!Kernel3 + Words
      /\ Words \in Nat /\ Words >= 1 /\ Taps \in Nat /\ Taps >= 1 /\ W!Kernel3 >= Words
  BY Sizes
<1>5. Tap \in 0..Taps
  BY <1>3, <1>4
<1>6. /\ Tap * Words \in Nat /\ (Tap + 1) * Words = Tap * Words + Words
      /\ Tap < Taps => Tap * Words + Words <= W!Kernel3
      /\ Tap = Taps => Tap * Words = W!Kernel3
      /\ 0 * Words = 0 /\ Taps * Words = W!Kernel3
  <2>1. Taps \in 0..Taps /\ 0 \in 0..(Words - 1)
    BY <1>4
  <2>2. Taps * Words = W!Kernel3
    BY <2>1, TapDigits
  <2> QED
    BY <1>3, <1>5, <2>2, TapDigits
<1>7. /\ W!Kernel3' = W!Kernel3 /\ W!Total' = W!Total
      /\ Tap' = IF w_receive_cnt' >= W!Kernel3 THEN Taps ELSE receive_bit_cnt'
  BY DEF W!Kernel3, W!Total, Tap
<1>8. kernel1 <=> Tap = Taps
  BY <1>3, <1>4
<1>9. w_receive_cnt = W!Total - 1 <=> kernel1 /\ receive_ch_cnt = Words - 1
  <2>1. w_receive_cnt = W!Total - 1 => kernel1
    BY <1>4
  <2>2. kernel1 => w_receive_cnt = W!Kernel3 + receive_ch_cnt
    BY <1>3, <1>6, <1>8
  <2> HIDE DEF kernel1
  <2> QED
    BY <1>3, <1>4, <2>1, <2>2
<1>10. W!weight_waddr.line = Words - 1 /\ W!weight_waddr.one <=> w_receive_cnt = W!Total - 1
  <2>1. W!weight_waddr.line = receive_ch_cnt /\ W!weight_waddr.one = kernel1
    BY DEF W!weight_waddr
  <2> HIDE DEF kernel1
  <2> QED
    BY <1>9, <2>1
<1>11. Wlu!place(W!weight_waddr) = <<Tap, receive_ch_cnt>>
  <2>1. /\ W!weight_waddr.line = receive_ch_cnt /\ W!weight_waddr.one = kernel1
        /\ W!weight_waddr.tap = receive_bit_cnt
    BY DEF W!weight_waddr
  <2> HIDE DEF kernel1
  <2> QED
    BY <1>3, <2>1 DEF Wlu!place
<1>12. <<Tap, receive_ch_cnt>> \in Wlu!Places
  BY <1>3, <1>5 DEF Wlu!Places
<1>13. CASE ~rsp
  <2>1. /\ w_receive_cnt' = w_receive_cnt /\ receive_ch_cnt' = receive_ch_cnt
        /\ receive_bit_cnt' = receive_bit_cnt
    BY <1>2, <1>13
  <2>2. Tap' = Tap
    BY <1>3, <1>7, <2>1
  <2>3. PlaceCounted'
    BY <1>3, <1>7, <2>1, <2>2 DEF PlaceCounted
  <2> QED
    BY <1>10, <1>11, <1>12, <1>13, <2>1, <2>2, <2>3
<1>14. CASE last
  <2>1. kernel1 /\ receive_ch_cnt = Words - 1 /\ Tap = Taps /\ receive_bit_cnt = 0
    BY <1>3, <1>8, <1>9, <1>14
  <2>2. Words % Words = 0
    BY <1>4, SMT
  <2>3. receive_ch_cnt' = 0
    <3>1. receive_ch_cnt + 1 = Words
      BY <1>4, <2>1
    <3> QED
      BY <1>2, <1>14, <2>2, <3>1
  <2>4. receive_bit_cnt' = 0
    <3>1. ~(w_receive_cnt < W!Kernel3)
      BY <1>3, <1>4, <2>1
    <3> QED
      BY <1>2, <2>1, <3>1
  <2>5. w_receive_cnt' = 0 /\ Tap' = 0
    <3>1. w_receive_cnt' = 0
      BY <1>2, <1>14
    <3>2. ~(w_receive_cnt' >= W!Kernel3)
      BY <1>4, <3>1
    <3> QED
      BY <1>7, <2>4, <3>1, <3>2
  <2>6. PlaceCounted'
    BY <1>4, <1>6, <1>7, <2>3, <2>4, <2>5 DEF PlaceCounted
  <2> QED
    BY <1>10, <1>11, <1>12, <1>14, <2>1, <2>3, <2>5, <2>6
<1>15. CASE rsp /\ w_receive_cnt # W!Total - 1
  <2>1. w_receive_cnt' = w_receive_cnt + 1
    BY <1>2, <1>15
  <2>2. CASE receive_ch_cnt # Words - 1
    <3>1. receive_ch_cnt' = receive_ch_cnt + 1
      <4>1. receive_ch_cnt + 1 \in 0..(Words - 1)
        BY <1>3, <1>4, <2>2
      <4>2. (receive_ch_cnt + 1) % Words = receive_ch_cnt + 1
        BY <1>4, <4>1, SMT
      <4> QED
        BY <1>2, <1>15, <4>2
    <3>2. receive_bit_cnt' = receive_bit_cnt
      BY <1>2, <2>2
    <3>3. w_receive_cnt' >= W!Kernel3 <=> kernel1
      <4>1. kernel1 => w_receive_cnt' >= W!Kernel3
        BY <1>3, <1>4, <2>1
      <4>2. ~kernel1 => Tap * Words + Words <= W!Kernel3
        BY <1>3, <1>4, <1>6
      <4>3. ~kernel1 => w_receive_cnt' < W!Kernel3
        <5> HIDE DEF kernel1
        <5> QED
          BY <1>3, <1>4, <1>6, <2>1, <2>2, <4>2
      <4> QED
        BY <1>3, <1>4, <2>1, <4>1, <4>3
    <3>4. Tap' = Tap
      BY <1>3, <1>7, <3>2, <3>3
    <3>5. PlaceCounted'
      <4>1. Tap' * Words + receive_ch_cnt' = Tap * Words + (receive_ch_cnt + 1)
        BY <3>1, <3>4
      <4>2. w_receive_cnt' = Tap' * Words + receive_ch_cnt'
        <5> DEFINE t == Tap * Words
        <5>1. t \in Nat /\ w_receive_cnt = t + receive_ch_cnt /\ receive_ch_cnt \in Nat
          BY <1>3, <1>4, <1>6
        <5>2. Tap' * Words + receive_ch_cnt' = t + (receive_ch_cnt + 1)
          BY <4>1
        <5> HIDE DEF t
        <5> QED
          BY <2>1, <5>1, <5>2
      <4>3. receive_ch_cnt' \in 0..(Words - 1) /\ receive_bit_cnt' \in 0..(Taps - 1)
        BY <1>3, <1>4, <2>2, <3>1, <3>2
      <4>4. w_receive_cnt' >= W!Kernel3 => receive_bit_cnt' = 0
        BY <1>3, <3>2, <3>3
      <4> QED
        BY <1>7, <4>2, <4>3, <4>4 DEF PlaceCounted
    <3> QED
      BY <1>10, <1>11, <1>12, <1>15, <2>1, <3>1, <3>4, <3>5
  <2>3. CASE receive_ch_cnt = Words - 1
    <3>1. ~kernel1 /\ w_receive_cnt < W!Kernel3
      BY <1>3, <1>4, <1>9, <1>15, <2>3
    <3>2. Tap = receive_bit_cnt /\ Tap < Taps
      BY <1>3, <1>4, <3>1
    <3>3. receive_ch_cnt' = 0
      <4>1. receive_ch_cnt + 1 = Words /\ Words % Words = 0
        BY <1>4, <2>3, SMT
      <4> QED
        BY <1>2, <1>15, <4>1
    <3>4. receive_bit_cnt' = (Tap + 1) % Taps
      BY <1>2, <1>15, <2>3, <3>1, <3>2
    <3>5. w_receive_cnt' = (Tap + 1) * Words
      <4> DEFINE t == Tap * Words
                 u == (Tap + 1) * Words
      <4>1. /\ t \in Nat /\ u = t + Words /\ w_receive_cnt = t + receive_ch_cnt
            /\ Words \in Nat /\ w_receive_cnt' = w_receive_cnt + 1 /\ receive_ch_cnt = Words - 1
        BY <1>3, <1>4, <1>6, <2>1, <2>3
      <4>2. w_receive_cnt' = u
        <5> HIDE DEF t, u
        <5> QED
          BY <4>1
      <4> QED
        BY <4>2
    <3>6. CASE Tap + 1 = Taps
      <4>1. receive_bit_cnt' = 0 /\ Taps % Taps = 0
        BY <1>4, <3>4, <3>6, SMT
      <4>2. w_receive_cnt' = W!Kernel3
        BY <1>6, <3>5, <3>6
      <4>3. Tap' = Taps
        BY <1>4, <1>7, <4>2
      <4>4. PlaceCounted'
        BY <1>4, <1>6, <1>7, <3>3, <4>1, <4>2, <4>3 DEF PlaceCounted
      <4> QED
        BY <1>10, <1>11, <1>12, <1>15, <2>1, <2>3, <3>3, <3>6, <4>3, <4>4
    <3>7. CASE Tap + 1 # Taps
      <4>1. Tap + 1 \in 0..(Taps - 1) /\ Tap + 1 < Taps /\ Tap + 1 \in 0..Taps
        BY <1>3, <1>4, <3>2, <3>7
      <4>2. receive_bit_cnt' = Tap + 1
        <5>1. (Tap + 1) % Taps = Tap + 1
          BY <1>4, <4>1, SMT
        <5> QED
          BY <3>4, <5>1
      <4>3. (Tap + 1) * Words + Words <= W!Kernel3 /\ (Tap + 1) * Words \in Nat
        BY <1>3, <4>1, TapDigits
      <4>4. ~(w_receive_cnt' >= W!Kernel3)
        BY <1>4, <3>5, <4>3
      <4>5. Tap' = Tap + 1
        BY <1>7, <4>2, <4>4
      <4>6. w_receive_cnt' = Tap' * Words + receive_ch_cnt'
        BY <3>3, <3>5, <4>3, <4>5
      <4>7. PlaceCounted'
        BY <1>4, <1>7, <3>3, <4>1, <4>2, <4>4, <4>6 DEF PlaceCounted
      <4> QED
        BY <1>10, <1>11, <1>12, <1>15, <2>1, <2>3, <3>3, <4>5, <4>7
    <3> QED
      BY <3>6, <3>7
  <2> QED
    BY <2>2, <2>3
<1> QED
  BY <1>13, <1>14, <1>15

\* A prompt memory keeps no command waiting, and a load under way issues one in every clock.
LEMMA NoGapStep ==
  ASSUME Steady, TypeOK, Queued, Routed, WeightsCounted, MapCounted, PlaceCounted, NoGap,
         NEW start \in BOOLEAN, NEW ready \in Ready, NEW answer \in BOOLEAN,
         Clock(start, ready, answer)
  PROVE  /\ NoGap' /\ prompt' = prompt
         /\ prompt /\ w_receive_cnt = W!Total - 1 => owner = "weight" /\ answer
<1>1. /\ answer => Len(pending) >= 1 /\ owner # "free"
      /\ Len(pending) \in Nat /\ Len(pending') \in Nat
      /\ Len(pending') = Len(pending) + Bit(cmdValid) - Bit(answer)
  BY PendingStep
<1>2. /\ prompt' = prompt
      /\ pending # <<>> /\ prompt => answer
  BY DEF Clock, Memory, MayAnswer
<1>3. Len(pending) >= 1 => pending # <<>>
  <2>1. PICK S : pending \in Seq(S)
    BY DEF Queued
  <2> QED
    BY <2>1
<1>4. /\ w_receive_cnt \in 0..(W!Total - 1) /\ W!Total \in Nat /\ W!Total >= 2
      /\ w_receive_cnt > 0 => owner = "weight"
      /\ prompt /\ w_receive_cnt > 0 => Len(pending) = 1
      /\ prompt => Len(pending) <= 1
  <2>1. /\ W!Kernel3 \in Nat /\ W!Kernel3 >= Words /\ W!Total = W!Kernel3 + Words
        /\ Words \in Nat /\ Words >= 1
    BY Sizes
  <2>2. w_receive_cnt \in 0..(W!Total - 1)
    BY DEF TypeOK
  <2> QED
    BY <2>1, <2>2 DEF WeightsCounted, NoGap
<1>5. prompt /\ w_receive_cnt > 0 => owner = "weight" /\ answer
  BY <1>2, <1>3, <1>4
<1>6. ASSUME prompt PROVE Len(pending') = Bit(cmdValid)
  <2>1. Len(pending) <= 1
    BY <1>4, <1>6
  <2>2. Len(pending) = Bit(answer)
    <3>1. CASE answer
      <4>1. Len(pending) >= 1 /\ Len(pending) \in Nat
        BY <1>1, <3>1
      <4>2. Len(pending) = 1
        <5> DEFINE n == Len(pending)
        <5>1. n \in Nat /\ n >= 1 /\ n <= 1
          BY <2>1, <4>1
        <5>2. n = 1
          <6> HIDE DEF n
          <6> QED
            BY <5>1
        <5> QED
          BY <5>2
      <4> QED
        BY <3>1, <4>2 DEF Bit
    <3>2. CASE ~answer
      <4>1. ~(Len(pending) >= 1)
        BY <1>2, <1>3, <1>6, <3>2
      <4>2. Len(pending) = 0
        BY <1>1, <4>1
      <4> QED
        BY <3>2, <4>2 DEF Bit
    <3> QED
      BY <3>1, <3>2
  <2>3. Bit(answer) \in Nat /\ Bit(cmdValid) \in Nat
    BY DEF Bit
  <2> QED
    BY <1>1, <2>2, <2>3
<1>7. ASSUME prompt, w_receive_cnt' > 0 PROVE cmdValid
  <2>1. /\ ~(owner = "weight" /\ answer) => w_receive_cnt' = w_receive_cnt
        /\ owner = "weight" /\ answer /\ w_receive_cnt = W!Total - 1 => w_receive_cnt' = 0
    BY PlaceStep
  <2>2. owner = "weight" /\ answer
    BY <1>5, <1>7, <2>1
  <2>3. w_receive_cnt # W!Total - 1
    BY <1>7, <2>1, <2>2
  <2>4. WIssued = w_receive_cnt + 1
    <3>1. Len(pending) >= 1 /\ Len(pending) \in Nat
      BY <1>1, <2>2
    <3>2. Len(pending) <= 1
      BY <1>4, <1>7
    <3>3. Len(pending) = 1
      <4> DEFINE n == Len(pending)
      <4>1. n \in Nat /\ n >= 1 /\ n <= 1
        BY <3>1, <3>2
      <4>2. n = 1
        <5> HIDE DEF n
        <5> QED
          BY <4>1
      <4> QED
        BY <4>2
    <3> QED
      BY <2>2, <3>3 DEF WeightsCounted, Asked
  <2>5. WIssued # 0 /\ WIssued # W!Total
    BY <1>4, <2>3, <2>4
  <2>6. w_state # "idle"
    BY <2>5 DEF WIssued
  <2> QED
    BY <2>2, <2>6, Traffic
<1>8. NoGap'
  <2>1. Bit(cmdValid) <= 1 /\ (cmdValid => Bit(cmdValid) = 1)
    BY DEF Bit
  <2> QED
    BY <1>2, <1>6, <1>7, <2>1 DEF NoGap
<1>9. prompt /\ w_receive_cnt = W!Total - 1 => owner = "weight" /\ answer
  BY <1>4, <1>5
<1> QED
  BY <1>2, <1>8, <1>9

\* While a load is ordered or under way, the channel it is for does not change.
LEMMA ChannelStays ==
  ASSUME Steady, FastEnough, IInv, A!IInv', TimeInv,
         NEW start \in BOOLEAN, NEW ready \in Ready, NEW answer \in BOOLEAN,
         Clock(start, ready, answer), ~WRest
  PROVE  /\ LoadChannel' = LoadChannel /\ out_ch_cnt' = out_ch_cnt
         /\ f_state' = "wsetup" <=> f_state = "wsetup"
<1>1. /\ f_state \in {"idle", "wsetup", "isetup", "conv"} /\ in_ch_cnt \in 0..1
      /\ Controller /\ SecondPass
  BY EdgeFacts
<1>2. /\ f_state = "idle" => f_state' = IF start THEN "wsetup" ELSE "idle"
      /\ f_state = "wsetup" => f_state' = IF weight_done THEN "isetup" ELSE "wsetup"
      /\ f_state = "isetup" => f_state' = IF imap_done THEN "conv" ELSE "isetup"
      /\ f_state = "conv" => f_state' = IF conv_done THEN "idle" ELSE "conv"
      /\ start => WRest
  BY EdgeFacts, ControlStep
<1>3. f_state # "isetup" /\ (f_state = "wsetup" => ~weight_done)
  BY <1>1 DEF Controller, WRest
<1>4. f_state' = "wsetup" <=> f_state = "wsetup"
  BY <1>1, <1>2, <1>3
<1>5. in_ch_cnt # 1
  BY <1>1 DEF SecondPass
<1>6. out_ch_cnt' = out_ch_cnt
  BY <1>5, EdgeFacts, ArrayMoves
<1>7. LoadChannel' = LoadChannel
  BY <1>4, <1>6 DEF LoadChannel, Fsm!weight_och_cnt
<1> QED
  BY <1>4, <1>6, <1>7

\* The weight unit's address names the channel from the first command to the last.
LEMMA AddressStep ==
  ASSUME Steady, FastEnough, IInv, A!IInv', TimeInv, ChannelKept,
         NEW start \in BOOLEAN, NEW ready \in Ready, NEW answer \in BOOLEAN,
         Clock(start, ready, answer), w_state' # "idle"
  PROVE  /\ weight_biu2arb_addr' \in [kernel : {1, 3}, och : {LoadChannel'}, byte : Nat]
         /\ ~WRest
<1> DEFINE Addresses(och) == [kernel : {1, 3}, och : {och}, byte : Nat]
           rdy == Arb!rdy("weight")
<1>1. /\ w_state \in {"idle", "w3", "w1"} /\ out_ch_cnt \in 0..(NOCH - 1)
      /\ NOCH \in Nat
  BY EdgeFacts DEF TypeOK
<1>2. /\ W!State(weight_start, rdy)
      /\ W!Address(weight_start, LoadChannel, rdy)
  BY DEF Clock, W!Clock, LoadChannel
<1>3. /\ w_state = "idle" /\ weight_start =>
           weight_biu2arb_addr' = W!FirstAddr(3, LoadChannel)
      /\ w_state # "idle" /\ W!Last3(rdy) =>
           weight_biu2arb_addr' = W!FirstAddr(1, LoadChannel)
  <2> DEFINE first3 == W!FirstAddr(3, LoadChannel)
             first1 == W!FirstAddr(1, LoadChannel)
             next == [weight_biu2arb_addr EXCEPT !.byte = @ + 4]
  <2>1. weight_biu2arb_addr' =
          CASE w_state = "idle" /\ weight_start -> first3
            [] W!Last3(rdy) -> first1
            [] W!Last1(rdy) -> None
            [] w_state # "idle" /\ W!issue(rdy) /\ ~W!Last3(rdy) /\ ~W!Last1(rdy) -> next
            [] OTHER -> weight_biu2arb_addr
    BY <1>2, Zenon DEF W!Address
  <2> HIDE DEF first3, first1, next
  <2>2. /\ w_state = "idle" /\ weight_start => weight_biu2arb_addr' = first3
        /\ w_state # "idle" /\ W!Last3(rdy) => weight_biu2arb_addr' = first1
    BY <2>1 DEF W!Last3, W!Last1
  <2> QED
    BY <2>2 DEF first3, first1
<1>4. /\ weight_start => w_state = "idle"
      /\ w_state # "idle" => ~WRest
      /\ w_state = "idle" => weight_start
  <2>1. Starts /\ WeightsCounted
    BY EdgeFacts
  <2>2. w_state = "idle" /\ ~weight_start => w_state' = "idle"
    BY <1>2 DEF W!State, W!Last3, W!Last1
  <2> QED
    BY <2>1, <2>2 DEF Starts, WeightsCounted, WRest
<1>5. ~WRest
  BY <1>4 DEF WRest
<1>6. LoadChannel' = LoadChannel /\ LoadChannel \in Nat
  <2>1. LoadChannel' = LoadChannel
    BY <1>5, ChannelStays
  <2>2. LoadChannel \in Nat
    BY <1>1 DEF LoadChannel, Fsm!weight_och_cnt
  <2> QED
    BY <2>1, <2>2
<1>7. \A k \in {1, 3} : W!FirstAddr(k, LoadChannel) \in Addresses(LoadChannel)
  <2>1. /\ W!Kernel3 \in Nat /\ Words \in Nat
    BY Sizes
  <2>2. LoadChannel * W!Kernel3 \in Nat /\ LoadChannel * Words \in Nat
    BY <1>6, <2>1, SMT
  <2> TAKE k \in {1, 3}
  <2>3. LoadChannel * (IF k = 3 THEN W!Kernel3 ELSE Words) \in Nat
    BY <2>2
  <2> QED
    BY <2>3 DEF W!FirstAddr
<1>8. w_state # "idle" => weight_biu2arb_addr \in Addresses(LoadChannel)
  BY DEF ChannelKept
<1>9. weight_biu2arb_addr' \in Addresses(LoadChannel)
  <2>1. CASE w_state = "idle"
    <3>1. weight_biu2arb_addr' = W!FirstAddr(3, LoadChannel)
      BY <1>4, <1>3, <2>1
    <3> HIDE DEF Addresses
    <3> QED
      BY <1>7, <3>1
  <2>2. CASE w_state # "idle"
    <3>1. CASE W!Last3(rdy)
      <4>1. weight_biu2arb_addr' = W!FirstAddr(1, LoadChannel)
        BY <1>3, <2>2, <3>1
      <4> HIDE DEF Addresses
      <4> QED
        BY <1>7, <4>1
    <3>2. CASE ~W!Last3(rdy)
      <4>1. ~W!Last1(rdy)
        BY <1>2, <2>2, <3>2 DEF W!State
      <4>2. \/ weight_biu2arb_addr' = weight_biu2arb_addr
            \/ weight_biu2arb_addr' = [weight_biu2arb_addr EXCEPT !.byte = @ + 4]
        BY <1>2, <2>2, <3>2, <4>1 DEF W!Address
      <4> QED
        BY <1>8, <2>2, <4>2
    <3> QED
      BY <3>1, <3>2
  <2> QED
    BY <2>1, <2>2
<1> QED
  BY <1>5, <1>6, <1>9

\* Commands and address name the channel of the load.
LEMMA ChannelStep ==
  ASSUME Steady, FastEnough, IInv, A!IInv', TimeInv, WeightsCounted', Routed', ChannelKept,
         NEW start \in BOOLEAN, NEW ready \in Ready, NEW answer \in BOOLEAN,
         Clock(start, ready, answer)
  PROVE  ChannelKept'
<1>1. /\ f_state \in {"idle", "wsetup", "isetup", "conv"} /\ in_ch_cnt \in 0..1
      /\ out_ch_cnt \in 0..(NOCH - 1) /\ NOCH \in Nat /\ NOCH >= 1
      /\ Starts /\ Controller /\ SecondPass /\ WeightsCounted /\ OneConvolution
      /\ A!array_en <=> a_state \in A!Zones
      /\ {"idle", "array_setup", "array_cool_down"} \cap A!Zones = {}
      /\ Leaving
  BY EdgeFacts
<1>2. w_state' # "idle" =>
        weight_biu2arb_addr' \in [kernel : {1, 3}, och : {LoadChannel'}, byte : Nat]
  BY AddressStep
<1>3. ASSUME owner' = "weight", NEW k \in 1..Len(pending')
      PROVE  pending'[k].data = LoadChannel'
  <2>1. /\ \/ cmdValid /\ pending'[k] = command
           \/ \E j \in 1..Len(pending) : pending'[k] = pending[j]
        /\ pending'[k].unit = owner
        /\ owner = "weight" => (cmdValid <=> w_state # "idle")
    BY <1>3, EdgeFacts, PendingStep, Traffic
  <2>2. pending'[k].unit = owner'
    BY <1>3 DEF Routed
  <2>3. owner = "weight"
    BY <1>3, <2>1, <2>2
  <2>4. weight_biu2arb_req
    <3>1. SUFFICES ASSUME ~weight_biu2arb_req PROVE FALSE
      OBVIOUS
    <3>2. w_state = "idle" /\ w_receive_cnt + Asked("weight") = 0
      BY <1>1, <3>1 DEF WeightsCounted, WIssued
    <3>3. w_receive_cnt \in Nat
      <4>1. w_receive_cnt \in 0..(W!Total - 1) /\ W!Total \in Nat
        BY EdgeFacts, Margins DEF TypeOK
      <4> QED
        BY <4>1
    <3>4. Asked("weight") = Len(pending) /\ Len(pending) \in Nat
      BY <2>3, EdgeFacts DEF Asked
    <3>5. Len(pending) = 0
      BY <3>2, <3>3, <3>4
    <3> QED
      <4>1. ~cmdValid
        BY <2>1, <2>3, <3>2
      <4>2. \E j \in 1..Len(pending) : TRUE
        BY <2>1, <4>1
      <4> QED
        BY <3>5, <4>2
  <2>5. LoadChannel' = LoadChannel
    BY <2>4, ChannelStays DEF WRest
  <2>6. CASE cmdValid /\ pending'[k] = command
    <3>1. weight_biu2arb_addr \in [kernel : {1, 3}, och : {LoadChannel}, byte : Nat]
      BY <2>1, <2>3, <2>6 DEF ChannelKept
    <3>2. weight_biu2arb_addr.och = LoadChannel
      BY <3>1
    <3>3. command.data = weight_biu2arb_addr.och
      BY <2>3 DEF command
    <3> QED
      BY <2>5, <2>6, <3>2, <3>3
  <2>7. CASE \E j \in 1..Len(pending) : pending'[k] = pending[j]
    BY <2>3, <2>5, <2>7 DEF ChannelKept
  <2> QED
    BY <2>1, <2>6, <2>7
<1>4. weight_start' = (~weight_start /\ \/ f_state = "idle" /\ start
                                        \/ f_state = "isetup" /\ imap_done
                                        \/ StartSeen /\ out_ch_cnt < NOCH - 1)
  BY EdgeFacts, ControlStep
<1>5. f_state = "idle" => f_state' = IF start THEN "wsetup" ELSE "idle"
  BY EdgeFacts, ControlStep
<1>6. in_ch_cnt = 0 \/ ~A!array_en => out_ch_cnt' = out_ch_cnt
  <2>1. out_ch_cnt' = IF A!array_en /\ A!position = A!Pixels - 1 /\ in_ch_cnt = 1
                      THEN IF out_ch_cnt = NOCH - 1 THEN 0 ELSE out_ch_cnt + 1
                      ELSE out_ch_cnt
    BY EdgeFacts, ArrayMoves
  <2> QED
    BY <2>1
<1>7. ASSUME ~WRest', f_state' # "wsetup" PROVE out_ch_cnt' < NOCH - 1 \/ NOCH = 1
  <2>1. weight_biu2arb_req' => ~WRest
    BY EdgeFacts, WeightsStep DEF Starts, WRest
  <2>2. ~A!array_en => out_ch_cnt = 0 /\ out_ch_cnt' = out_ch_cnt
    BY <1>1, <1>6 DEF Leaving
  <2>3. CASE ~WRest
    <3>1. out_ch_cnt' = out_ch_cnt /\ f_state # "wsetup"
      BY <1>7, <2>3, ChannelStays
    <3> QED
      BY <2>3, <3>1 DEF ChannelKept
  <2>4. CASE weight_start' /\ f_state = "isetup" /\ imap_done
    <3>1. ~A!array_en
      BY <1>1, <2>4 DEF OneConvolution
    <3> QED
      BY <1>1, <2>2, <3>1
  <2>5. CASE StartSeen /\ out_ch_cnt < NOCH - 1
    <3>1. in_ch_cnt = 0 \/ ~A!array_en
      BY <1>1, <2>5 DEF Starts
    <3>2. out_ch_cnt' = out_ch_cnt
      BY <1>6, <3>1
    <3> QED
      BY <2>5, <3>2
  <2> QED
    BY <1>4, <1>5, <1>7, <2>1, <2>3, <2>4, <2>5 DEF WRest
<1>8. out_ch_cnt_d' \in 0..(NOCH - 1)
  <2>1. out_ch_cnt_d' = out_ch_cnt
    BY DEF Clock, Fsm!Clock
  <2> QED
    BY <1>1, <2>1
<1> QED
  BY <1>2, <1>3, <1>7, <1>8 DEF ChannelKept

\* The last word of a load is answered.
LastWord(answer) == owner = "weight" /\ answer /\ w_receive_cnt = W!Total - 1

\* When loads are ordered and when they end.
LEMMA LoadEvents ==
  ASSUME Steady, FastEnough, IInv, A!IInv', TimeInv, ChannelKept,
         NEW start \in BOOLEAN, NEW ready \in Ready, NEW answer \in BOOLEAN,
         Clock(start, ready, answer)
  PROVE  /\ LastWord(answer) => ~WRest /\ ~weight_start
         /\ start => f_state = "idle" /\ WRest /\ ~LastWord(answer)
         /\ WRest' <=> ~weight_start' /\ (WRest \/ LastWord(answer))
         /\ StartSeen => WRest /\ NOCH # 1 /\ f_state = "conv" /\ (in_ch_cnt = 0 \/ ~A!array_en)
         /\ ~A!array_en => out_ch_cnt = 0 /\ out_ch_cnt' = 0 /\ ~StartSeen'
         /\ A!array_en => f_state = "conv" /\ ~Through
         /\ WRest => w_receive_cnt = 0 /\ ~(owner = "weight" /\ answer)
<1>1. /\ Starts /\ Controller /\ SecondPass /\ WeightsCounted /\ OneConvolution /\ Leaving
      /\ out_ch_cnt \in 0..(NOCH - 1) /\ NOCH \in Nat /\ NOCH >= 1
      /\ A!array_en <=> a_state \in A!Zones
      /\ {"idle", "array_setup", "array_cool_down"} \cap A!Zones = {}
      /\ weight_start \in BOOLEAN
      /\ f_state \in {"idle", "wsetup", "isetup", "conv"}
  BY EdgeFacts
<1>2. w_receive_cnt \in Nat /\ W!Total \in Nat /\ W!Total >= 2
  <2>1. TypeOK
    BY EdgeFacts
  <2>2. /\ W!Kernel3 \in Nat /\ W!Kernel3 >= Words /\ W!Total = W!Kernel3 + Words
        /\ Words \in Nat /\ Words >= 1
    BY Sizes
  <2>3. w_receive_cnt \in 0..(W!Total - 1)
    BY <2>1 DEF TypeOK
  <2> QED
    BY <2>2, <2>3
<1>3. answer => Len(pending) >= 1
  BY EdgeFacts, PendingStep
<1>4. ~weight_biu2arb_req => w_receive_cnt = 0 /\ ~(owner = "weight" /\ answer)
  <2> SUFFICES ASSUME ~weight_biu2arb_req
               PROVE  w_receive_cnt = 0 /\ ~(owner = "weight" /\ answer)
    OBVIOUS
  <2>1. w_receive_cnt + Asked("weight") = 0
    BY <1>1 DEF WeightsCounted, WIssued
  <2>2. Asked("weight") \in Nat
    BY EdgeFacts DEF Asked
  <2>3. w_receive_cnt = 0 /\ Asked("weight") = 0
    BY <1>2, <2>1, <2>2
  <2>4. ~(owner = "weight" /\ answer)
    BY <1>3, <2>3 DEF Asked
  <2> QED
    BY <2>3, <2>4
<1>5. LastWord(answer) => weight_biu2arb_req
  <2>1. LastWord(answer) => owner = "weight" /\ answer
    BY DEF LastWord
  <2> QED
    BY <1>4, <2>1
<1>6. start => f_state = "idle" /\ WRest
  BY EdgeFacts, ControlStep
<1>7. weight_biu2arb_req' = (weight_start \/ (weight_biu2arb_req
                                 /\ ~(owner = "weight" /\ answer /\ w_receive_cnt = W!Total - 1)))
  BY EdgeFacts, WeightsStep DEF Starts
<1>8. WRest' <=> ~weight_start' /\ (WRest \/ LastWord(answer))
  <2>1. weight_start => ~weight_biu2arb_req
    BY <1>1 DEF Starts
  <2> QED
    BY <1>5, <1>7, <2>1 DEF WRest, LastWord
<1>9. StartSeen => NOCH # 1
  <2> SUFFICES ASSUME NOCH = 1 PROVE out_ch_cnt = out_ch_cnt_d
    BY DEF StartSeen
  <2>1. out_ch_cnt_d \in 0..(NOCH - 1)
    BY DEF ChannelKept
  <2> QED
    BY <1>1, <2>1
<1>10. /\ f_state # "conv" => a_state = "idle"
       /\ A!array_en => f_state = "conv" /\ ~conv_done
  BY <1>1 DEF OneConvolution
<1>11. StartSeen => WRest /\ f_state = "conv" /\ (in_ch_cnt = 0 \/ ~A!array_en)
  BY <1>1, <1>10 DEF Starts
<1>12. ~A!array_en => out_ch_cnt = 0 /\ out_ch_cnt' = 0 /\ ~StartSeen'
  <2>1. out_ch_cnt' = IF A!array_en /\ A!position = A!Pixels - 1 /\ in_ch_cnt = 1
                      THEN IF out_ch_cnt = NOCH - 1 THEN 0 ELSE out_ch_cnt + 1
                      ELSE out_ch_cnt
    BY EdgeFacts, ArrayMoves
  <2>2. StartSeen' <=> out_ch_cnt' # out_ch_cnt
    BY EdgeFacts, ControlStep
  <2> QED
    BY <1>1, <2>1, <2>2 DEF Leaving
<1>13. A!array_en => f_state = "conv" /\ ~Through
  BY <1>1, <1>10 DEF Through
<1>14. WRest => w_receive_cnt = 0 /\ ~(owner = "weight" /\ answer)
  BY <1>4 DEF WRest
<1>15. LastWord(answer) => ~WRest /\ ~weight_start
  BY <1>1, <1>5 DEF Starts, WRest
<1> QED
  BY <1>6, <1>8, <1>9, <1>11, <1>12, <1>13, <1>14, <1>15

\* What a clock edge does to the loads that have ended and to the bank the array works from.
LoadsAdd(start, answer) ==
  /\ start => Ended' = 0 /\ (started > 0 => Ended = NOCH + 1)
  /\ ~start /\ started > 0 => Ended' = Ended + Bit(LastWord(answer))
  /\ Ended \in Nat
CurrentFrom(answer) ==
  \/ LastWord(answer) /\ f_state = "wsetup" /\ f_state' = "wsetup" /\ out_ch_cnt' = 0
  \/ /\ LastWord(answer) /\ Current /\ ~NextIn /\ NextIn' /\ out_ch_cnt' = out_ch_cnt
     /\ f_state = "conv" /\ f_state' = "conv"
  \/ ~LastWord(answer) /\ Current /\ (NextIn' <=> NextIn) /\ out_ch_cnt' = out_ch_cnt
  \/ /\ ~LastWord(answer) /\ f_state = "conv" /\ ~Through /\ NextIn /\ ~NextIn'
     /\ out_ch_cnt < NOCH - 1 /\ out_ch_cnt' = out_ch_cnt + 1

\* While the array rests.
LEMMA LoadsAtRest ==
  ASSUME Steady, FastEnough, IInv, A!IInv', TimeInv, ChannelKept,
         NEW start \in BOOLEAN, NEW ready \in Ready, NEW answer \in BOOLEAN,
         Clock(start, ready, answer), f_state # "conv"
  PROVE  LoadsAdd(start, answer) /\ (Current' => CurrentFrom(answer))
<1> DEFINE last == LastWord(answer)
<1>1. /\ NOCH \in Nat /\ NOCH >= 1 /\ f_state \in {"idle", "wsetup", "isetup", "conv"}
      /\ OneConvolution /\ Controller /\ ~A!array_en
  BY EdgeFacts, LoadEvents
<1>2. /\ last => ~WRest /\ ~weight_start
      /\ start => f_state = "idle" /\ WRest /\ ~last
      /\ WRest' <=> ~weight_start' /\ (WRest \/ last)
      /\ ~StartSeen /\ ~StartSeen' /\ out_ch_cnt = 0 /\ out_ch_cnt' = 0
  BY <1>1, LoadEvents
<1>3. weight_start' = (~weight_start /\ \/ f_state = "idle" /\ start
                                        \/ f_state = "isetup" /\ imap_done
                                        \/ StartSeen /\ out_ch_cnt < NOCH - 1)
  BY EdgeFacts, ControlStep
<1>4. /\ f_state = "idle" => f_state' = IF start THEN "wsetup" ELSE "idle"
      /\ f_state = "wsetup" => f_state' = IF weight_done THEN "isetup" ELSE "wsetup"
      /\ f_state = "isetup" => f_state' = IF imap_done THEN "conv" ELSE "isetup"
  BY EdgeFacts, ControlStep
<1>5. /\ a_state = "idle" /\ ~conv_start /\ ~conv_done /\ a_state' = "idle" /\ ~conv_done'
  <2>1. a_state = "idle" /\ ~conv_start /\ ~conv_done
    BY <1>1 DEF OneConvolution
  <2>2. /\ a_state = "idle" => a_state' = IF conv_start THEN "array_setup" ELSE "idle"
        /\ conv_done' = (~conv_done /\ a_state = "array_cool_down" /\ A!LastOut /\ A!LastMap)
    BY EdgeFacts, ArrayMoves
  <2> QED
    BY <2>1, <2>2
<1>6. 0 < NOCH - 1 \/ NOCH = 1
  BY <1>1
<1>7. CASE f_state = "idle"
  <2>1. Ended = NOCH + Bit(WRest)
    <3>1. NextIn <=> WRest
      BY <1>2, <1>6, <1>7 DEF NextIn
    <3> QED
      BY <1>7, <3>1 DEF Ended, Through, Bit
  <2>2. CASE start
    <3>1. weight_start' /\ f_state' = "wsetup"
      BY <1>2, <1>3, <1>4, <1>7, <2>2 DEF WRest
    <3>2. ~WRest'
      BY <1>2, <3>1
    <3>3. Ended' = 0 /\ ~Current'
      BY <3>1, <3>2 DEF Ended, Current, Bit
    <3>4. Ended = NOCH + 1
      BY <1>2, <2>1, <2>2 DEF Bit
    <3> QED
      BY <1>1, <2>2, <3>3, <3>4 DEF LoadsAdd
  <2>3. CASE ~start
    <3>1. f_state' = "idle" /\ ~weight_start'
      BY <1>2, <1>3, <1>4, <1>7, <2>3
    <3>2. WRest' <=> WRest \/ last
      BY <1>2, <3>1
    <3>3. NextIn' <=> WRest'
      BY <1>2, <1>6, <3>1 DEF NextIn
    <3>4. Ended' = NOCH + Bit(WRest') /\ ~Current'
      BY <3>1, <3>3 DEF Ended, Through, Current, Bit
    <3>5. Bit(WRest') = Bit(WRest) + Bit(last) /\ Bit(WRest) \in Nat
      BY <1>2, <3>2 DEF Bit
    <3> HIDE DEF last
    <3>6. Ended' = Ended + Bit(last) /\ Ended \in Nat
      <4>1. Bit(last) \in Nat
        BY DEF Bit
      <4> QED
        BY <1>1, <2>1, <3>4, <3>5, <4>1
    <3> QED
      BY <2>3, <3>4, <3>6 DEF LoadsAdd, last
  <2> QED
    BY <2>2, <2>3
<1>8. CASE f_state = "wsetup"
  <2>1. Ended = Bit(WRest) /\ ~start
    BY <1>2, <1>8 DEF Ended
  <2>2. ~weight_start'
    BY <1>2, <1>3, <1>8
  <2>3. CASE weight_done
    <3>1. WRest /\ ~last
      BY <1>1, <1>2, <1>8, <2>3 DEF Controller, WRest
    <3>2. f_state' = "isetup"
      BY <1>4, <1>8, <2>3
    <3>3. Ended = 1 /\ Ended' = 1 /\ Bit(last) = 0
      BY <2>1, <3>1, <3>2 DEF Ended, Bit
    <3>4. ~NextIn /\ ~NextIn' /\ Current
      BY <1>8, <3>1, <3>2 DEF NextIn, Current
    <3>5. CurrentFrom(answer)
      BY <1>2, <3>1, <3>4 DEF CurrentFrom
    <3> QED
      BY <2>1, <3>3, <3>5 DEF LoadsAdd
  <2>4. CASE ~weight_done
    <3>1. ~WRest
      BY <1>1, <1>8, <2>4 DEF Controller, WRest
    <3>2. f_state' = "wsetup"
      BY <1>4, <1>8, <2>4
    <3>3. WRest' <=> last
      BY <1>2, <2>2, <3>1
    <3>4. Ended = 0 /\ Ended' = Bit(last)
      BY <2>1, <3>1, <3>2, <3>3 DEF Ended, Bit
    <3>5. Current' => last
      BY <3>2, <3>3 DEF Current
    <3>6. Current' => CurrentFrom(answer)
      BY <1>2, <1>8, <3>2, <3>5 DEF CurrentFrom
    <3>7. Ended' = Ended + Bit(last) /\ Ended \in Nat
      BY <3>4 DEF Bit
    <3> QED
      BY <2>1, <3>6, <3>7 DEF LoadsAdd
  <2> QED
    BY <2>3, <2>4
<1>9. CASE f_state = "isetup"
  <2>1. WRest /\ ~last /\ Ended = 1 /\ ~start /\ Bit(last) = 0
    BY <1>1, <1>2, <1>9 DEF Controller, Ended, Bit
  <2>2. Current /\ ~NextIn
    BY <1>9 DEF Current, NextIn
  <2>3. Ended' = 1 /\ ~NextIn'
    <3>1. CASE imap_done
      <4>1. f_state' = "conv" /\ weight_start'
        BY <1>3, <1>4, <1>9, <2>1, <3>1 DEF WRest
      <4>2. ~WRest'
        BY <1>2, <4>1
      <4>3. ~NextIn' /\ ~Through'
        BY <1>5, <4>1, <4>2 DEF NextIn, Through
      <4> QED
        BY <1>2, <4>1, <4>3 DEF Ended, Bit
    <3>2. CASE ~imap_done
      <4>1. f_state' = "isetup"
        BY <1>4, <1>9, <3>2
      <4> QED
        BY <4>1 DEF Ended, NextIn
    <3> QED
      BY <3>1, <3>2
  <2>4. CurrentFrom(answer)
    BY <1>2, <2>1, <2>2, <2>3 DEF CurrentFrom
  <2> QED
    BY <2>1, <2>3, <2>4 DEF LoadsAdd
<1> QED
  BY <1>1, <1>7, <1>8, <1>9

\* While the array computes.
LEMMA LoadsMeanwhile ==
  ASSUME Steady, FastEnough, IInv, A!IInv', TimeInv, ChannelKept,
         NEW start \in BOOLEAN, NEW ready \in Ready, NEW answer \in BOOLEAN,
         Clock(start, ready, answer), f_state = "conv"
  PROVE  LoadsAdd(start, answer) /\ (Current' => CurrentFrom(answer))
<1> DEFINE last == LastWord(answer)
           needed == out_ch_cnt < NOCH - 1 \/ NOCH = 1
           turn == A!array_en /\ A!position = A!Pixels - 1 /\ in_ch_cnt = 1
<1>1. /\ NOCH \in Nat /\ NOCH >= 1 /\ out_ch_cnt \in 0..(NOCH - 1)
      /\ OneConvolution /\ Starts /\ SecondPass
      /\ a_state \in A!Zones \cup {"idle", "array_setup", "array_cool_down"}
      /\ (A!array_en <=> a_state \in A!Zones) /\ (A!array_en' <=> a_state' \in A!Zones)
      /\ {"idle", "array_setup", "array_cool_down"} \cap A!Zones = {}
  BY EdgeFacts
<1>2. /\ last => ~WRest /\ ~weight_start
      /\ ~start
      /\ WRest' <=> ~weight_start' /\ (WRest \/ last)
      /\ StartSeen => WRest /\ NOCH # 1 /\ (in_ch_cnt = 0 \/ ~A!array_en)
      /\ ~A!array_en => out_ch_cnt = 0 /\ out_ch_cnt' = 0 /\ ~StartSeen'
      /\ A!array_en => ~Through
  BY LoadEvents
<1>3. weight_start' = (~weight_start /\ \/ f_state = "idle" /\ start
                                        \/ f_state = "isetup" /\ imap_done
                                        \/ StartSeen /\ out_ch_cnt < NOCH - 1)
  BY EdgeFacts, ControlStep
<1>4. /\ f_state' = IF conv_done THEN "idle" ELSE "conv"
      /\ StartSeen' <=> out_ch_cnt' # out_ch_cnt
  BY EdgeFacts, ControlStep
<1>5. /\ a_state = "idle" => a_state' = IF conv_start THEN "array_setup" ELSE "idle"
      /\ a_state = "array_setup" => a_state' \in {"array_setup", "conv_s0"}
      /\ A!array_en =>
           IF A!position = A!Pixels - 1 /\ in_ch_cnt = 1 /\ out_ch_cnt = NOCH - 1
           THEN a_state' = "array_cool_down" ELSE A!array_en'
      /\ a_state = "array_cool_down" =>
           a_state' = IF A!LastOut /\ A!LastMap THEN "idle" ELSE "array_cool_down"
      /\ out_ch_cnt' = IF turn THEN IF out_ch_cnt = NOCH - 1 THEN 0 ELSE out_ch_cnt + 1
                               ELSE out_ch_cnt
      /\ conv_done' = (~conv_done /\ a_state = "array_cool_down" /\ A!LastOut /\ A!LastMap)
  BY EdgeFacts, ArrayMoves
<1>6. \/ a_state = "idle" /\ conv_start /\ ~conv_done
      \/ a_state = "idle" /\ ~conv_start /\ conv_done
      \/ a_state # "idle" /\ ~conv_start /\ ~conv_done
  BY <1>1 DEF OneConvolution
<1>7. "conv_s0" \in A!Zones
  BY DEF A!Zones
<1>8. ~WRest => needed
  BY DEF ChannelKept
<1>9. Ended = (IF Through THEN NOCH ELSE out_ch_cnt + 1) + Bit(NextIn) /\ Ended \in Nat
  <2>1. Ended = (IF Through THEN NOCH ELSE out_ch_cnt + 1) + Bit(NextIn)
    BY DEF Ended
  <2>2. Bit(NextIn) \in Nat
    BY DEF Bit
  <2> QED
    BY <1>1, <2>1, <2>2
<1>10. Ended' = (IF Through' THEN NOCH ELSE out_ch_cnt' + 1) + Bit(NextIn')
  BY <1>4 DEF Ended, Bit
<1>11. CASE turn
  <2>1. WRest /\ ~last /\ ~StartSeen /\ ~Through /\ ~conv_done
    BY <1>1, <1>2, <1>6, <1>11 DEF SecondPass, WRest
  <2>2. NextIn <=> needed
    BY <2>1 DEF NextIn
  <2>3. ~weight_start' /\ WRest' /\ f_state' = "conv" /\ ~conv_done'
    <3>1. ~weight_start'
      BY <1>2, <1>3, <2>1
    <3>2. WRest' /\ f_state' = "conv"
      BY <1>2, <1>4, <2>1, <3>1
    <3>3. a_state # "array_cool_down"
      BY <1>1, <1>11
    <3>4. ~conv_done'
      BY <1>5, <3>3
    <3> QED
      BY <3>1, <3>2, <3>4
  <2>4. CASE out_ch_cnt = NOCH - 1
    <3>1. Through' /\ out_ch_cnt' = 0
      BY <1>5, <1>11, <2>4 DEF Through
    <3>2. NextIn' <=> NOCH = 1
      <4>1. StartSeen' <=> NOCH # 1
        BY <1>1, <1>4, <2>4, <3>1
      <4> QED
        BY <2>3, <3>1, <4>1 DEF NextIn
    <3>3. NextIn <=> NOCH = 1
      BY <1>1, <2>2, <2>4
    <3>4. Ended' = Ended /\ Bit(last) = 0
      <4>1. Bit(NextIn') = Bit(NextIn)
        BY <3>2, <3>3 DEF Bit
      <4>2. (IF Through THEN NOCH ELSE out_ch_cnt + 1) = NOCH
        BY <1>1, <2>1, <2>4
      <4>3. (IF Through' THEN NOCH ELSE out_ch_cnt' + 1) = NOCH
        BY <3>1
      <4>4. Bit(last) = 0
        BY <2>1 DEF Bit
      <4> QED
        BY <1>9, <1>10, <4>1, <4>2, <4>3, <4>4
    <3>5. ~Current'
      BY <2>3, <3>1 DEF Current
    <3> QED
      BY <1>2, <1>9, <3>4, <3>5 DEF LoadsAdd
  <2>5. CASE out_ch_cnt # NOCH - 1
    <3>1. NextIn /\ out_ch_cnt < NOCH - 1 /\ out_ch_cnt' = out_ch_cnt + 1
      BY <1>1, <1>5, <1>11, <2>2, <2>5
    <3>2. ~NextIn'
      <4>1. StartSeen'
        BY <1>1, <1>4, <3>1
      <4> QED
        BY <4>1 DEF NextIn
    <3>3. ~Through'
      <4>1. A!array_en'
        BY <1>5, <1>11, <2>5
      <4>2. a_state' # "array_cool_down"
        BY <1>1, <4>1
      <4> QED
        BY <2>3, <4>2 DEF Through
    <3>4. Ended' = Ended /\ Bit(last) = 0
      <4>1. Bit(NextIn) = 1 /\ Bit(NextIn') = 0 /\ Bit(last) = 0
        BY <2>1, <3>1, <3>2 DEF Bit
      <4>2. Ended = out_ch_cnt + 1 + 1
        BY <1>9, <2>1, <4>1
      <4>3. Ended' = out_ch_cnt' + 1 + 0
        BY <1>10, <3>3, <4>1
      <4> QED
        BY <1>1, <3>1, <4>1, <4>2, <4>3
    <3>5. CurrentFrom(answer)
      BY <2>1, <3>1, <3>2 DEF CurrentFrom
    <3> QED
      BY <1>2, <1>9, <3>4, <3>5 DEF LoadsAdd
  <2> QED
    BY <2>4, <2>5
<1>12. CASE ~turn
  <2>1. out_ch_cnt' = out_ch_cnt /\ ~StartSeen'
    BY <1>4, <1>5, <1>12
  <2>2. Through' <=> Through
    <3>1. CASE a_state = "idle" /\ conv_start
      <4>1. a_state' = "array_setup" /\ ~conv_done' /\ ~conv_done /\ f_state' = "conv"
        BY <1>4, <1>5, <1>6, <3>1
      <4> QED
        BY <3>1, <4>1 DEF Through
    <3>2. CASE a_state = "idle" /\ conv_done
      BY <1>4, <3>2 DEF Through
    <3>3. CASE a_state = "array_setup"
      <4>1. ~conv_done' /\ ~conv_done /\ f_state' = "conv" /\ a_state' # "array_cool_down"
        BY <1>1, <1>4, <1>5, <1>6, <1>7, <3>3
      <4> QED
        BY <3>3, <4>1 DEF Through
    <3>4. CASE a_state = "array_cool_down"
      <4>1. ~conv_done /\ f_state' = "conv"
        BY <1>4, <1>6, <3>4
      <4>2. a_state' = "array_cool_down" \/ conv_done'
        BY <1>5, <3>4, <4>1
      <4> QED
        BY <3>4, <4>2 DEF Through
    <3>5. CASE A!array_en
      <4>1. ~conv_done' /\ ~conv_done /\ f_state' = "conv" /\ A!array_en'
        BY <1>1, <1>4, <1>5, <1>6, <1>12, <3>5
      <4>2. a_state' # "array_cool_down" /\ a_state # "array_cool_down"
        BY <1>1, <3>5, <4>1
      <4> QED
        BY <4>1, <4>2 DEF Through
    <3> QED
      BY <1>1, <1>6, <3>1, <3>2, <3>3, <3>4, <3>5
  <2>3. NextIn <=> WRest /\ ~StartSeen /\ needed
    BY DEF NextIn
  <2>4. NextIn' <=> WRest' /\ needed
    <3>1. f_state' \in {"conv", "idle"}
      BY <1>4
    <3> QED
      BY <2>1, <3>1 DEF NextIn
  <2>5. NextIn' <=> NextIn \/ last
    <3>1. CASE StartSeen
      <4>1. WRest /\ ~last /\ NOCH # 1
        BY <1>2, <3>1
      <4>2. ~NextIn'
        <5>1. CASE out_ch_cnt < NOCH - 1
          BY <1>2, <1>3, <2>4, <3>1, <4>1, <5>1 DEF WRest
        <5>2. CASE ~(out_ch_cnt < NOCH - 1)
          BY <2>4, <4>1, <5>2
        <5> QED
          BY <5>1, <5>2
      <4> QED
        BY <2>3, <3>1, <4>1, <4>2
    <3>2. CASE ~StartSeen
      <4>1. ~weight_start'
        BY <1>2, <1>3, <3>2
      <4>2. WRest' <=> WRest \/ last
        BY <1>2, <4>1
      <4> HIDE DEF needed, last
      <4>3. last => needed /\ ~WRest
        BY <1>2, <1>8 DEF last
      <4> QED
        BY <2>3, <2>4, <3>2, <4>2, <4>3
    <3> QED
      BY <3>1, <3>2
  <2>6. last => ~NextIn
    BY <1>2 DEF NextIn
  <2>7. Ended' = Ended + Bit(last)
    <3> HIDE DEF last
    <3>1. Bit(NextIn') = Bit(NextIn) + Bit(last)
      BY <2>5, <2>6 DEF Bit
    <3>2. Bit(NextIn) \in Nat /\ Bit(last) \in Nat
      BY DEF Bit
    <3>3. (IF Through' THEN NOCH ELSE out_ch_cnt' + 1) = (IF Through THEN NOCH ELSE out_ch_cnt + 1)
      BY <2>1, <2>2
    <3>4. (IF Through THEN NOCH ELSE out_ch_cnt + 1) \in Nat
      BY <1>1
    <3> DEFINE base == IF Through THEN NOCH ELSE out_ch_cnt + 1
    <3>5. Ended = base + Bit(NextIn) /\ Ended' = base + Bit(NextIn') /\ base \in Nat
      BY <1>9, <1>10, <3>3, <3>4
    <3> HIDE DEF base
    <3> QED
      BY <3>1, <3>2, <3>5
  <2>8. ASSUME Current' PROVE CurrentFrom(answer)
    <3>1. f_state' = "conv" /\ ~Through'
      BY <1>4, <2>8 DEF Current
    <3>2. Current
      BY <2>2, <3>1 DEF Current
    <3> QED
      BY <2>1, <2>5, <2>6, <3>1, <3>2 DEF CurrentFrom
  <2> QED
    BY <1>2, <1>9, <2>7, <2>8 DEF LoadsAdd
<1> QED
  BY <1>11, <1>12

\* An answer fills the place the answer counters name, in the bank being filled.
LEMMA FillStep ==
  ASSUME Steady, FastEnough, IInv, A!IInv', TimeInv, PlaceCounted, ChannelKept, BanksThere,
         NEW start \in BOOLEAN, NEW ready \in Ready, NEW answer \in BOOLEAN,
         Clock(start, ready, answer)
  PROVE  /\ BanksThere'
         /\ weight_load_sel_base' = IF w_receive_cnt = W!Total - 1
                                    THEN 1 - weight_load_sel_base ELSE weight_load_sel_base
         /\ ~(owner = "weight" /\ answer) => bank' = bank
         /\ owner = "weight" /\ answer =>
              \A p \in Wlu!Places :
                bank'[weight_load_sel_base][p] = IF p = <<Tap, receive_ch_cnt>> THEN LoadChannel
                                                 ELSE bank[weight_load_sel_base][p]
         /\ \A p \in Wlu!Places :
              bank'[1 - weight_load_sel_base][p] = bank[1 - weight_load_sel_base][p]
<1> DEFINE rsp == owner = "weight" /\ answer
           b == weight_load_sel_base
           q == <<Tap, receive_ch_cnt>>
           data == IF rsp THEN Head(pending).data ELSE None
<1>1. /\ W!weight_waddr.line = Words - 1 /\ W!weight_waddr.one <=> w_receive_cnt = W!Total - 1
      /\ Wlu!place(W!weight_waddr) = q /\ q \in Wlu!Places
  BY EdgeFacts, PlaceStep
<1>2. /\ Wlu!Exchange(W!weight_waddr) /\ Wlu!Load(rsp, W!weight_waddr, data)
  <2>1. Arb!answered("weight", answer) = rsp
    BY DEF Arb!answered, Arb!acc_icb_rsp_ready
  <2>2. Wlu!Clock(Arb!answered("weight", answer), W!weight_waddr,
                  IF Arb!answered("weight", answer) THEN Head(pending).data ELSE None)
    BY DEF Clock
  <2> QED
    BY <2>1, <2>2 DEF Wlu!Clock
<1>3. weight_load_sel_base' = IF w_receive_cnt = W!Total - 1 THEN 1 - b ELSE b
  BY <1>1, <1>2 DEF Wlu!Exchange
<1>4. bank' = IF rsp THEN [bank EXCEPT ![b][q] = data] ELSE bank
  BY <1>1, <1>2 DEF Wlu!Load
<1>5. rsp => data = LoadChannel
  <2> SUFFICES ASSUME rsp PROVE Head(pending).data = LoadChannel
    OBVIOUS
  <2>1. Len(pending) >= 1 /\ Len(pending) \in Nat
    BY EdgeFacts, PendingStep
  <2>2. PICK S : pending \in Seq(S)
    BY EdgeFacts DEF Queued
  <2>3. Head(pending) = pending[1] /\ 1 \in 1..Len(pending)
    BY <2>1, <2>2
  <2> QED
    BY <2>3 DEF ChannelKept
<1>6. LoadChannel \in Nat
  <2>1. out_ch_cnt \in 0..(NOCH - 1) /\ NOCH \in Nat
    BY EdgeFacts
  <2> QED
    BY <2>1 DEF LoadChannel, Fsm!weight_och_cnt
<1>7. b \in 0..1 /\ 1 - b \in 0..1 /\ 1 - b # b
  BY DEF BanksThere
<1>8. bank \in [0..1 -> [Wlu!Places -> Nat \cup {None}]]
  BY DEF BanksThere
<1>9. CASE ~rsp
  <2>1. bank' = bank
    BY <1>4, <1>9
  <2>2. weight_load_sel_base' \in 0..1
    BY <1>3, <1>7
  <2>3. BanksThere'
    BY <1>8, <2>1, <2>2 DEF BanksThere, Wlu!Places
  <2> QED
    BY <1>3, <1>9, <2>1, <2>3
<1>10. CASE rsp
  <2> HIDE DEF q, b, data
  <2>1. bank' = [bank EXCEPT ![b][q] = LoadChannel]
    BY <1>4, <1>5, <1>10
  <2>2. bank' \in [0..1 -> [Wlu!Places -> Nat \cup {None}]]
    BY <1>1, <1>6, <1>7, <1>8, <2>1
  <2>3. \A p \in Wlu!Places : bank'[b][p] = IF p = q THEN LoadChannel ELSE bank[b][p]
    BY <1>1, <1>7, <1>8, <2>1
  <2>4. bank'[1 - b] = bank[1 - b]
    BY <1>7, <1>8, <2>1
  <2>5. weight_load_sel_base' \in 0..1
    BY <1>3, <1>7
  <2>6. BanksThere'
    BY <2>2, <2>5 DEF BanksThere, Wlu!Places
  <2> QED
    BY <1>3, <1>10, <2>3, <2>4, <2>6 DEF b, q
<1> QED
  BY <1>9, <1>10

\* Nothing has been received of a load that has not begun.
LEMMA NothingReceived ==
  ASSUME PlaceCounted, w_receive_cnt = 0
  PROVE  \A p \in Wlu!Places : ~Received(p)
<1>1. /\ W!Kernel3 \in Nat /\ W!Kernel3 >= 1 /\ Words \in Nat /\ Words >= 1
      /\ Taps \in Nat /\ Taps >= 1
  BY Sizes
<1>2. /\ receive_ch_cnt \in 0..(Words - 1) /\ Tap \in 0..(Taps - 1)
      /\ Tap * Words + receive_ch_cnt = 0
  BY <1>1 DEF PlaceCounted, Tap
<1>3. Tap = 0 /\ receive_ch_cnt = 0
  <2>1. Tap * Words \in Nat
    BY <1>1, <1>2, SMT
  <2> DEFINE t == Tap * Words
  <2>2. t = 0 /\ receive_ch_cnt = 0
    <3>1. t \in Nat /\ t + receive_ch_cnt = 0 /\ receive_ch_cnt \in Nat
      BY <1>1, <1>2, <2>1
    <3> HIDE DEF t
    <3> QED
      BY <3>1
  <2>3. Tap = 0
    BY <1>1, <1>2, <2>2, SMT
  <2> QED
    BY <2>2, <2>3
<1>4. \A p \in Wlu!Places : p[1] \in Nat /\ p[2] \in Nat
  BY <1>1 DEF Wlu!Places
<1> QED
  BY <1>3, <1>4 DEF Received

\* What has been received grows by the place that is filled; after the last word everything
\* has been received.
LEMMA ReceivedGrows ==
  ASSUME Steady, TypeOK, Queued, Routed, WeightsCounted, MapCounted, PlaceCounted,
         NEW start \in BOOLEAN, NEW ready \in Ready, NEW answer \in BOOLEAN,
         Clock(start, ready, answer), NEW p \in Wlu!Places
  PROVE  /\ Received(p)' => Received(p) \/ (owner = "weight" /\ answer /\ p = <<Tap, receive_ch_cnt>>)
         /\ LastWord(answer) => /\ Received(p) \/ p = <<Tap, receive_ch_cnt>>
                                /\ ~Received(p)'
<1>1. /\ PlaceCounted'
      /\ ~(owner = "weight" /\ answer) =>
              w_receive_cnt' = w_receive_cnt /\ Tap' = Tap /\ receive_ch_cnt' = receive_ch_cnt
      /\ owner = "weight" /\ answer /\ w_receive_cnt = W!Total - 1 =>
              /\ w_receive_cnt' = 0 /\ Tap' = 0 /\ receive_ch_cnt' = 0
              /\ Tap = Taps /\ receive_ch_cnt = Words - 1
      /\ owner = "weight" /\ answer /\ w_receive_cnt # W!Total - 1 =>
              \/ Tap' = Tap /\ receive_ch_cnt' = receive_ch_cnt + 1
              \/ Tap' = Tap + 1 /\ receive_ch_cnt' = 0 /\ receive_ch_cnt = Words - 1
  BY PlaceStep
<1>2. /\ Words \in Nat /\ Words >= 1 /\ Taps \in Nat /\ Taps >= 1
      /\ receive_ch_cnt \in 0..(Words - 1) /\ Tap \in 0..Taps
  BY Sizes DEF PlaceCounted, Tap
<1>3. PICK t \in 0..Taps, w \in 0..(Words - 1) : p = <<t, w>>
  BY DEF Wlu!Places
<1>4. /\ Received(p) <=> t < Tap \/ (t = Tap /\ w < receive_ch_cnt)
      /\ Received(p)' <=> t < Tap' \/ (t = Tap' /\ w < receive_ch_cnt')
      /\ p = <<Tap, receive_ch_cnt>> <=> t = Tap /\ w = receive_ch_cnt
  BY <1>3 DEF Received
<1>5. CASE ~(owner = "weight" /\ answer)
  BY <1>1, <1>4, <1>5 DEF LastWord
<1>6. CASE LastWord(answer)
  <2>1. Tap' = 0 /\ receive_ch_cnt' = 0 /\ Tap = Taps /\ receive_ch_cnt = Words - 1
    BY <1>1, <1>6 DEF LastWord
  <2>2. ~Received(p)'
    BY <1>2, <1>3, <1>4, <2>1
  <2>3. Received(p) \/ p = <<Tap, receive_ch_cnt>>
    BY <1>2, <1>3, <1>4, <2>1
  <2> QED
    BY <2>2, <2>3
<1>7. CASE owner = "weight" /\ answer /\ w_receive_cnt # W!Total - 1
  <2>1. \/ Tap' = Tap /\ receive_ch_cnt' = receive_ch_cnt + 1
        \/ Tap' = Tap + 1 /\ receive_ch_cnt' = 0 /\ receive_ch_cnt = Words - 1
    BY <1>1, <1>7
  <2>2. t < Tap' \/ (t = Tap' /\ w < receive_ch_cnt') =>
          t < Tap \/ (t = Tap /\ w <= receive_ch_cnt)
    <3>1. CASE Tap' = Tap /\ receive_ch_cnt' = receive_ch_cnt + 1
      BY <1>2, <1>3, <3>1
    <3>2. CASE Tap' = Tap + 1 /\ receive_ch_cnt' = 0 /\ receive_ch_cnt = Words - 1
      BY <1>2, <1>3, <3>2
    <3> QED
      BY <2>1, <3>1, <3>2
  <2>3. w <= receive_ch_cnt => w < receive_ch_cnt \/ w = receive_ch_cnt
    BY <1>2, <1>3
  <2>4. ~LastWord(answer)
    BY <1>7 DEF LastWord
  <2> QED
    BY <1>4, <1>7, <2>2, <2>3, <2>4
<1> QED
  BY <1>5, <1>6, <1>7 DEF LastWord

\* The number of loads that have ended and the bank being filled change together.
LEMMA ExchangedStep ==
  ASSUME Steady, FastEnough, IInv, A!IInv', TimeInv, PlaceCounted, NoGap, ChannelKept,
         BanksThere, prompt, Exchanged,
         NEW start \in BOOLEAN, NEW ready \in Ready, NEW answer \in BOOLEAN,
         Clock(start, ready, answer)
  PROVE  /\ Exchanged'
         /\ weight_load_sel_base' = IF LastWord(answer) THEN 1 - weight_load_sel_base
                                                        ELSE weight_load_sel_base
<1> DEFINE b == weight_load_sel_base
           last == LastWord(answer)
           before == (started - 1) * (NOCH + 1)
<1>1. weight_load_sel_base' = IF last THEN 1 - b ELSE b
  <2>1. w_receive_cnt = W!Total - 1 => owner = "weight" /\ answer
    BY EdgeFacts, NoGapStep
  <2>2. last <=> w_receive_cnt = W!Total - 1
    BY <2>1 DEF LastWord
  <2>3. weight_load_sel_base' = IF w_receive_cnt = W!Total - 1 THEN 1 - b ELSE b
    BY FillStep
  <2> QED
    BY <2>2, <2>3
<1>2. LoadsAdd(start, answer)
  BY LoadsAtRest, LoadsMeanwhile
<1>3. /\ started \in Nat /\ NOCH \in Nat /\ NOCH >= 1
      /\ started' = IF start THEN started + 1 ELSE started
      /\ started = 0 => WRest
  <2>1. started \in Nat /\ NOCH \in Nat /\ NOCH >= 1 /\ Starts
    BY EdgeFacts
  <2>2. started' = IF start THEN started + 1 ELSE started
    BY EdgeFacts, ControlStep
  <2> QED
    BY <2>1, <2>2 DEF Starts
<1>4. /\ last => ~WRest
      /\ start => ~last
  BY LoadEvents
<1>5. b = IF started = 0 THEN 0 ELSE (before + Ended) % 2
  BY DEF Exchanged
<1>6. weight_load_sel_base' = IF started' = 0 THEN 0 ELSE ((started' - 1) * (NOCH + 1) + Ended') % 2
  <2>1. CASE started = 0
    <3>1. weight_load_sel_base' = 0
      BY <1>1, <1>3, <1>4, <1>5, <2>1
    <3>2. CASE start
      <4>1. started' = 1 /\ Ended' = 0
        BY <1>2, <1>3, <2>1, <3>2 DEF LoadsAdd
      <4>2. (started' - 1) * (NOCH + 1) + Ended' = 0
        BY <1>3, <4>1, SMT
      <4>3. 0 % 2 = 0
        OBVIOUS
      <4> QED
        BY <3>1, <4>1, <4>2, <4>3
    <3>3. CASE ~start
      BY <1>3, <2>1, <3>1, <3>3
    <3> QED
      BY <3>2, <3>3
  <2>2. CASE started # 0
    <3>1. before \in Nat /\ Ended \in Nat
      <4>1. started - 1 \in Nat /\ NOCH + 1 \in Nat
        BY <1>3, <2>2
      <4>2. before \in Nat
        BY <4>1, SMT
      <4> QED
        BY <1>2, <4>2 DEF LoadsAdd
    <3>2. b = (before + Ended) % 2
      BY <1>5, <2>2
    <3>3. CASE start
      <4>1. started' = started + 1 /\ Ended' = 0 /\ Ended = NOCH + 1
        BY <1>2, <1>3, <2>2, <3>3 DEF LoadsAdd
      <4>2. (started' - 1) * (NOCH + 1) + Ended' = before + Ended
        <5>1. started' - 1 = started
          BY <1>3, <4>1
        <5>2. started * (NOCH + 1) = before + (NOCH + 1)
          BY <1>3, SMT
        <5>3. started * (NOCH + 1) + 0 = started * (NOCH + 1)
          BY <1>3, SMT
        <5> QED
          BY <4>1, <5>1, <5>2, <5>3
      <4>3. weight_load_sel_base' = b /\ started' # 0
        BY <1>1, <1>3, <1>4, <3>3, <4>1
      <4> QED
        BY <3>2, <4>2, <4>3
    <3>4. CASE ~start
      <4>1. started' = started /\ Ended' = Ended + Bit(last)
        BY <1>2, <1>3, <2>2, <3>4 DEF LoadsAdd
      <4>2. CASE last
        <5> DEFINE n == before + Ended
        <5>1. Ended' = Ended + 1
          BY <4>1, <4>2 DEF Bit
        <5>2. (started' - 1) * (NOCH + 1) + Ended' = n + 1
          <6>1. (started' - 1) * (NOCH + 1) = before
            BY <4>1
          <6> HIDE DEF before
          <6> QED
            BY <3>1, <5>1, <6>1
        <5>3. n \in Nat
          BY <3>1
        <5>4. (n + 1) % 2 = 1 - (n % 2)
          <6> HIDE DEF n
          <6> QED
            BY <5>3
        <5>5. b = n % 2
          BY <3>2
        <5>6. weight_load_sel_base' = 1 - b
          BY <1>1, <4>2
        <5>7. weight_load_sel_base' = (n + 1) % 2
          BY <5>4, <5>5, <5>6, Zenon
        <5> QED
          BY <1>3, <2>2, <4>1, <5>2, <5>7
      <4>3. CASE ~last
        <5>1. Ended' = Ended
          BY <3>1, <4>1, <4>3 DEF Bit
        <5> QED
          BY <1>1, <2>2, <3>2, <4>1, <4>3, <5>1
      <4> QED
        BY <4>2, <4>3
    <3> QED
      BY <3>3, <3>4
  <2> QED
    BY <2>1, <2>2
<1>7. Exchanged'
  BY <1>6 DEF Exchanged
<1> QED
  BY <1>1, <1>7

\* The bank the array works from is left alone, the other one receives the next channel.
LEMMA BanksFilledStep ==
  ASSUME Steady, FastEnough, IInv, A!IInv', TimeInv, PlaceCounted, NoGap, ChannelKept,
         BanksThere, prompt, Exchanged, BanksFilled,
         NEW start \in BOOLEAN, NEW ready \in Ready, NEW answer \in BOOLEAN,
         Clock(start, ready, answer)
  PROVE  BanksFilled'
<1> DEFINE b == weight_load_sel_base
           last == LastWord(answer)
           rsp == owner = "weight" /\ answer
           q == <<Tap, receive_ch_cnt>>
<1>1. weight_load_sel_base' = IF last THEN 1 - b ELSE b
  BY ExchangedStep
<1>2. /\ ~rsp => bank' = bank
      /\ rsp => \A p \in Wlu!Places :
                  bank'[b][p] = IF p = q THEN LoadChannel ELSE bank[b][p]
      /\ \A p \in Wlu!Places : bank'[1 - b][p] = bank[1 - b][p]
  BY FillStep
<1>3. b \in 0..1 /\ 1 - (1 - b) = b
  BY DEF BanksThere
<1>4. /\ last => ~WRest /\ rsp
      /\ WRest => w_receive_cnt = 0 /\ ~rsp
      /\ ~A!array_en => out_ch_cnt = 0
  BY LoadEvents DEF LastWord
<1>5. ~WRest => LoadChannel' = LoadChannel /\ out_ch_cnt' = out_ch_cnt
  BY ChannelStays
<1>6. \A p \in Wlu!Places : Received(p) => bank[b][p] = LoadChannel
  BY DEF BanksFilled
<1>7. ASSUME NEW p \in Wlu!Places
      PROVE  /\ Received(p)' => Received(p) \/ (rsp /\ p = q)
             /\ last => Received(p) \/ p = q
             /\ last => ~Received(p)'
  BY EdgeFacts, ReceivedGrows
<1>8. Wlu!Places' = Wlu!Places
  BY DEF Wlu!Places
<1>9. ASSUME last, NEW p \in Wlu!Places PROVE bank'[b][p] = LoadChannel
  BY <1>2, <1>4, <1>6, <1>7, <1>9
<1>10. ASSUME NEW p \in Wlu!Places, Received(p)'
       PROVE  bank'[weight_load_sel_base'][p] = LoadChannel'
  <2>1. ~last /\ weight_load_sel_base' = b
    BY <1>1, <1>7, <1>10
  <2>2. CASE WRest
    <3>1. ~rsp /\ w_receive_cnt = 0
      BY <1>4, <2>2
    <3>2. ~Received(p)
      BY <3>1, NothingReceived
    <3> QED
      BY <1>7, <1>10, <3>1, <3>2
  <2>3. CASE ~WRest
    <3>1. LoadChannel' = LoadChannel
      BY <1>5, <2>3
    <3>2. bank'[b][p] = LoadChannel
      <4>1. CASE rsp
        BY <1>2, <1>6, <1>7, <1>10, <4>1
      <4>2. CASE ~rsp
        BY <1>2, <1>6, <1>7, <1>10, <4>2
      <4> QED
        BY <4>1, <4>2
    <3> QED
      BY <2>1, <3>1, <3>2
  <2> QED
    BY <2>2, <2>3
<1>11. /\ Current => Filled(IF NextIn THEN b ELSE 1 - b, out_ch_cnt)
       /\ f_state = "conv" /\ ~Through /\ NextIn /\ out_ch_cnt < NOCH - 1 =>
            Filled(1 - b, out_ch_cnt + 1)
  BY DEF BanksFilled
<1>12. ASSUME Current'
       PROVE  /\ Filled(IF NextIn THEN weight_load_sel_base ELSE 1 - weight_load_sel_base,
                        out_ch_cnt)'
              /\ (f_state = "conv" /\ ~Through /\ NextIn /\ out_ch_cnt < NOCH - 1)' =>
                   Filled(1 - weight_load_sel_base, out_ch_cnt + 1)'
  <2>1. CurrentFrom(answer)
    BY <1>12, LoadsAtRest, LoadsMeanwhile
  <2>2. NextIn => WRest
    BY DEF NextIn
  <2>3. CASE last /\ f_state = "wsetup" /\ f_state' = "wsetup" /\ out_ch_cnt' = 0
    <3>1. ~NextIn' /\ weight_load_sel_base' = 1 - b /\ LoadChannel = 0
      BY <1>1, <2>3 DEF NextIn, LoadChannel, Fsm!weight_och_cnt
    <3>2. \A p \in Wlu!Places : bank'[1 - (1 - b)][p] = 0
      BY <1>3, <1>9, <2>3, <3>1
    <3> QED
      BY <1>8, <2>3, <3>1, <3>2 DEF Filled
  <2>4. CASE /\ last /\ Current /\ ~NextIn /\ NextIn' /\ out_ch_cnt' = out_ch_cnt
             /\ f_state = "conv" /\ f_state' = "conv"
    <3>1. weight_load_sel_base' = 1 - b /\ LoadChannel = out_ch_cnt + 1
      BY <1>1, <2>4 DEF LoadChannel, Fsm!weight_och_cnt
    <3>2. \A p \in Wlu!Places : bank'[1 - (1 - b)][p] = out_ch_cnt + 1
      BY <1>3, <1>9, <2>4, <3>1
    <3>3. \A p \in Wlu!Places : bank'[1 - b][p] = out_ch_cnt
      BY <1>2, <1>11, <2>4 DEF Filled
    <3> QED
      BY <1>8, <2>4, <3>1, <3>2, <3>3 DEF Filled
  <2>5. CASE ~last /\ Current /\ (NextIn' <=> NextIn) /\ out_ch_cnt' = out_ch_cnt
    <3>1. weight_load_sel_base' = b
      BY <1>1, <2>5
    <3>2. CASE NextIn
      <4>1. bank' = bank /\ NextIn'
        BY <1>2, <1>4, <2>2, <2>5, <3>2
      <4>2. f_state = "conv" /\ ~Through
        BY <2>5, <3>2 DEF Current, NextIn, Through
      <4> QED
        BY <1>8, <1>11, <2>5, <3>1, <3>2, <4>1, <4>2 DEF Filled
    <3>3. CASE ~NextIn
      BY <1>2, <1>8, <1>11, <2>5, <3>1, <3>3 DEF Filled
    <3> QED
      BY <3>2, <3>3
  <2>6. CASE /\ ~last /\ f_state = "conv" /\ ~Through /\ NextIn /\ ~NextIn'
             /\ out_ch_cnt < NOCH - 1 /\ out_ch_cnt' = out_ch_cnt + 1
    <3>1. weight_load_sel_base' = b /\ Filled(1 - b, out_ch_cnt + 1)
      BY <1>1, <1>11, <2>6
    <3> QED
      BY <1>2, <1>8, <2>6, <3>1 DEF Filled
  <2> QED
    BY <2>1, <2>3, <2>4, <2>5, <2>6 DEF CurrentFrom
<1>13. \A p \in Wlu!Places' : Received(p)' => bank'[weight_load_sel_base'][p] = LoadChannel'
  BY <1>8, <1>10
<1>14. Current' => Filled(IF NextIn THEN weight_load_sel_base ELSE 1 - weight_load_sel_base,
                          out_ch_cnt)'
  BY <1>12
<1>15. (f_state = "conv" /\ ~Through /\ NextIn /\ out_ch_cnt < NOCH - 1)' =>
         Filled(1 - weight_load_sel_base, out_ch_cnt + 1)'
  <2>1. (f_state = "conv" /\ ~Through)' => Current'
    BY DEF Current
  <2> QED
    BY <1>12, <2>1
<1> QED
  BY <1>13, <1>14, <1>15 DEF BanksFilled

(***************************************************************************)
(* The banks' invariant and its theorem.                                    *)
(***************************************************************************)
\* At first nothing is loaded and nothing is computed.
LEMMA BankInit == Init => BankInv
<1> SUFFICES ASSUME Init PROVE BankInv
  OBVIOUS
<1>1. /\ f_state = "idle" /\ out_ch_cnt_d = 0 /\ weight_start = FALSE
      /\ w_state = "idle" /\ weight_biu2arb_req = FALSE
      /\ w_receive_cnt = 0 /\ receive_bit_cnt = 0 /\ receive_ch_cnt = 0
      /\ owner = "free" /\ pending = <<>> /\ started = 0
      /\ weight_load_sel_base = 0 /\ bank = [b \in 0..1 |-> [p \in Wlu!Places |-> None]]
  BY DEF Init, Fsm!Init, W!Init, Arb!Init, Wlu!Init
<1>2. /\ W!Kernel3 \in Nat /\ W!Kernel3 >= 1 /\ Words \in Nat /\ Words >= 1
      /\ Taps \in Nat /\ Taps >= 1 /\ NOCH \in Nat /\ NOCH >= 1
  BY Sizes
<1>3. Tap = 0
  BY <1>1, <1>2 DEF Tap
<1>4. PlaceCounted
  <2>1. 0 * Words = 0
    BY <1>2, SMT
  <2> QED
    BY <1>1, <1>2, <1>3, <2>1 DEF PlaceCounted
<1>5. NoGap
  BY <1>1 DEF NoGap
<1>6. ChannelKept
  BY <1>1, <1>2 DEF ChannelKept, WRest
<1>7. BanksThere
  BY <1>1 DEF BanksThere
<1>8. Exchanged
  BY <1>1 DEF Exchanged
<1>9. BanksFilled
  <2>1. \A p \in Wlu!Places : ~Received(p)
    BY <1>1, <1>4, NothingReceived
  <2>2. ~Current /\ f_state # "conv"
    BY <1>1 DEF Current
  <2> QED
    BY <2>1, <2>2 DEF BanksFilled
<1> QED
  BY <1>4, <1>5, <1>6, <1>7, <1>8, <1>9 DEF BankInv

\* A clock edge keeps it.
LEMMA BankStep ==
  ASSUME Steady, FastEnough
  PROVE  IInv /\ TimeInv /\ BankInv /\ [Next]_vars => BankInv'
<1> SUFFICES ASSUME IInv, TimeInv, BankInv, [Next]_vars PROVE BankInv'
  OBVIOUS
<1>1. A!IInv' /\ WeightsCounted' /\ Routed'
  <2>1. IInv' /\ TimeInv'
    BY InvStep, TimeStep
  <2> QED
    BY <2>1 DEF IInv, TimeInv
<1>2. PlaceCounted /\ NoGap /\ ChannelKept /\ BanksThere /\ (prompt => Exchanged /\ BanksFilled)
  BY DEF BankInv
<1>3. CASE Next
  <2>1. PICK start \in BOOLEAN, answer \in BOOLEAN, ready \in Ready : Clock(start, ready, answer)
    BY <1>3 DEF Next
  <2>2. TypeOK /\ Queued /\ Routed /\ WeightsCounted /\ MapCounted
    BY <1>1, <2>1, EdgeFacts
  <2>3. PlaceCounted'
    BY <1>2, <2>1, <2>2, PlaceStep
  <2>4. NoGap' /\ prompt' = prompt
    BY <1>2, <2>1, <2>2, NoGapStep
  <2>5. ChannelKept'
    BY <1>1, <1>2, <2>1, ChannelStep
  <2>6. BanksThere'
    BY <1>1, <1>2, <2>1, FillStep
  <2>7. ASSUME prompt PROVE Exchanged' /\ BanksFilled'
    BY <1>1, <1>2, <2>1, <2>7, ExchangedStep, BanksFilledStep
  <2> QED
    BY <2>3, <2>4, <2>5, <2>6, <2>7 DEF BankInv
<1>4. CASE UNCHANGED vars
  <2> USE <1>4 DEF vars
  <2>1. Tap' = Tap /\ W!Kernel3' = W!Kernel3 /\ Wlu!Places' = Wlu!Places
    BY DEF Tap, W!Kernel3, Wlu!Places, wVars
  <2>2. PlaceCounted'
    BY <1>2, <2>1 DEF PlaceCounted, wVars
  <2>3. NoGap' /\ prompt' = prompt
    BY <1>2 DEF NoGap, wVars, envVars
  <2>4. LoadChannel' = LoadChannel
    BY DEF LoadChannel, Fsm!weight_och_cnt, arrayVars, fsmVars
  <2>5. WRest' = WRest /\ StartSeen' = StartSeen
    BY DEF WRest, StartSeen, fsmVars, wVars, arrayVars
  <2>6. Through' = Through /\ NextIn' = NextIn
    BY <2>5 DEF Through, NextIn, fsmVars, arrayVars
  <2>7. Current' = Current /\ Ended' = Ended
    BY <2>5, <2>6 DEF Current, Ended, Bit, fsmVars, arrayVars
  <2>8. ChannelKept'
    BY <1>2, <2>4, <2>5 DEF ChannelKept, fsmVars, wVars, arrayVars, envVars
  <2>9. BanksThere'
    BY <1>2, <2>1 DEF BanksThere
  <2>10. ASSUME prompt PROVE Exchanged' /\ BanksFilled'
    <3>1. Exchanged'
      BY <1>2, <2>7, <2>10 DEF Exchanged, envVars
    <3>2. BanksFilled
      BY <1>2, <2>10
    <3>3. /\ weight_load_sel_base' = weight_load_sel_base /\ bank' = bank
          /\ out_ch_cnt' = out_ch_cnt /\ f_state' = f_state
          /\ receive_ch_cnt' = receive_ch_cnt
      BY DEF arrayVars, fsmVars, wVars
    <3>4. BanksFilled'
      BY <2>1, <2>4, <2>6, <2>7, <3>2, <3>3 DEF BanksFilled, Received, Filled
    <3> QED
      BY <3>1, <3>4
  <2> QED
    BY <2>2, <2>3, <2>8, <2>9, <2>10 DEF BankInv
<1> QED
  BY <1>3, <1>4

\* Whatever channel the array computes, one bank holds that channel's weights and no others: in
\* a job with an even number of loads before it, as the first, the bank the array reads, in the
\* others the bank it does not read.
THEOREM WeightsInBank ==
  ASSUME Steady, FastEnough
  PROVE  Spec => []WeightsMatchChannel
<1>1. Init => BankInv
  BY BankInit
<1>2. IInv /\ TimeInv /\ BankInv /\ [Next]_vars => BankInv'
  BY BankStep
<1>3. ASSUME IInv, TimeInv, BankInv PROVE WeightsMatchChannel
  <2> SUFFICES ASSUME prompt, A!array_en, NEW p \in Wlu!Places
               PROVE  bank[WeightBank][p] = out_ch_cnt
    BY Sequencer DEF WeightsMatchChannel
  <2>1. OneConvolution /\ BanksThere /\ Exchanged /\ BanksFilled
    BY <1>3 DEF IInv, BankInv
  <2>2. out_ch_cnt \in Nat /\ started \in Nat /\ NOCH \in Nat
    BY <1>3, <2>1, Sizes DEF IInv, A!IInv, A!TypeOK, OneConvolution
  <2>3. f_state = "conv" /\ ~Through /\ started > 0
    <3>1. a_state # "idle" /\ a_state # "array_cool_down"
      BY DEF A!array_en, A!Zones
    <3> QED
      BY <2>1, <3>1 DEF OneConvolution, Through
  <2> DEFINE m == out_ch_cnt + (started - 1) * (NOCH + 1)
             b == weight_load_sel_base
  <2>4. m \in Nat
    <3>1. started - 1 \in Nat /\ NOCH + 1 \in Nat
      BY <2>2, <2>3
    <3>2. (started - 1) * (NOCH + 1) \in Nat
      BY <3>1, SMT
    <3> QED
      BY <2>2, <3>2
  <2>5. Filled(IF NextIn THEN b ELSE 1 - b, out_ch_cnt)
    BY <2>1, <2>3 DEF BanksFilled, Current
  <2>6. b = (m + 1 + Bit(NextIn)) % 2
    <3>1. b = ((started - 1) * (NOCH + 1) + Ended) % 2
      BY <2>1, <2>2, <2>3 DEF Exchanged
    <3>2. Ended = out_ch_cnt + 1 + Bit(NextIn)
      BY <2>3 DEF Ended
    <3>3. Bit(NextIn) \in Nat
      BY DEF Bit
    <3>4. (started - 1) * (NOCH + 1) + (out_ch_cnt + 1 + Bit(NextIn)) = m + 1 + Bit(NextIn)
      <4> DEFINE s == (started - 1) * (NOCH + 1)
                 k == Bit(NextIn)
      <4>1. s \in Int /\ k \in Nat
        BY <2>2, <3>3
      <4>2. s + (out_ch_cnt + 1 + k) = (out_ch_cnt + s) + 1 + k
        <5> HIDE DEF s, k
        <5> QED
          BY <2>2, <4>1
      <4> QED
        BY <4>2
    <3> QED
      BY <3>1, <3>2, <3>4
  <2>7. (IF NextIn THEN b ELSE 1 - b) = m % 2
    <3>1. CASE NextIn
      <4>1. b = (m + 1 + 1) % 2
        BY <2>6, <3>1 DEF Bit
      <4>2. (m + 1 + 1) % 2 = m % 2
        <5> HIDE DEF m
        <5> QED
          BY <2>4
      <4> QED
        BY <3>1, <4>1, <4>2
    <3>2. CASE ~NextIn
      <4>1. b = (m + 1 + 0) % 2
        BY <2>6, <3>2 DEF Bit
      <4>2. 1 - ((m + 1 + 0) % 2) = m % 2
        <5> HIDE DEF m
        <5> QED
          BY <2>4
      <4>3. 1 - b = 1 - ((m + 1 + 0) % 2)
        BY <4>1, Zenon
      <4> QED
        BY <3>2, <4>2, <4>3
    <3> QED
      BY <3>1, <3>2
  <2>8. WeightBank = m % 2
    <3> DEFINE k == LoadsBefore
    <3>1. Array!weight_sel[1] = out_ch_cnt % 2
      BY DEF Array!weight_sel
    <3>2. m = out_ch_cnt + k /\ k \in Nat
      <4>1. started - 1 \in Nat /\ NOCH + 1 \in Nat
        BY <2>2, <2>3
      <4>2. (started - 1) * (NOCH + 1) \in Nat
        BY <4>1, SMT
      <4> QED
        BY <4>2 DEF LoadsBefore
    <3> HIDE DEF m, k
    <3>3. m % 2 = IF k % 2 = 0 THEN out_ch_cnt % 2 ELSE 1 - (out_ch_cnt % 2)
      BY <2>2, <3>2
    <3> QED
      BY <3>1, <3>3 DEF WeightBank, k
  <2> QED
    BY <2>5, <2>7, <2>8 DEF Filled
<1>4. Spec => []BankInv
  BY <1>1, <1>2, TimeInvariant, PTL DEF Spec
<1> QED
  BY <1>3, <1>4, TimeInvariant, PTL
==============================================================================
