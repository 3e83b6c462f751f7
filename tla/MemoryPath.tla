---------------------------- MODULE MemoryPath ----------------------------
(* The system memory behind the accelerator and the processor: the two-way
   arbiter of e203_subsys_main.v:698-790 (sirv_gnrl_icb_arbt), and in
   e203_subsys_mems.v the buffer and the splitter of sirv_icb1to8_bus
   (sirv_gnrl_icb_buffer, sirv_gnrl_icb_splt) and the SRAM controller
   (sirv_sram_icb_ctrl, sirv_1cyc_sram_ctrl) with its SRAM.

   The splitter's eight branches are represented by three: the SRAM; a slow
   device, which takes one command and answers when it likes (flash, debug
   module); and the default slave, which answers an error in the same clock.

   The accelerator offers any command for the SRAM in any clock and does not wait
   for it to be taken (icb_master.v:136-158); it always listens, for it keeps the
   bus until its last answer.  The processor keeps a command up until it is
   taken, and may keep an answer waiting; which command it keeps up is chosen when
   it is taken, for nothing looks at it before.                               *)
EXTENDS Naturals, Sequences

CONSTANTS Addr,           \* words of the SRAM
          AccData, CpuData,     \* what either side writes to them
          OUTS,           \* commands the arbiter and the splitter keep track of, 8
          DP,             \* depth of the buffer's two FIFOs, 2
          None

ASSUME PathAssumption == OUTS \in Nat \ {0} /\ DP \in Nat \ {0, 1} 

VARIABLES arbt_fifo,      \* who asked, for each outstanding command
          cmd_fifo, rsp_fifo,   \* the buffer between arbiter and splitter
          splt_fifo,      \* which branch was asked
          byp_fifo,       \* the SRAM controller's bypass buffer, one place
          e1_vld, ram_dout,     \* its stage and the SRAM's output
          ram,
          slow,           \* commands in the slow device, at most one
          cpu_waits,      \* the processor keeps up a command not yet taken
          disturbed       \* since the path was last empty, the processor kept an
                          \* answer waiting or asked a branch other than the SRAM

path == <<arbt_fifo, cmd_fifo, rsp_fifo, splt_fifo, byp_fifo, e1_vld, ram_dout, ram, slow>>
vars == <<path, cpu_waits, disturbed>>

Ports    == {"acc", "cpu"}

\* Each side writes values of its own, so that a read tells whose write it saw.
SramCommands(data) == [branch : {"sram"}, op : {"read"}, addr : Addr, data : {None}]
                        \cup [branch : {"sram"}, op : {"write"}, addr : Addr, data : data]
AccCommands == SramCommands(AccData)
CpuCommands == SramCommands(CpuData)
                 \cup [branch : {"slow", "deft"}, op : {"read"}, addr : Addr, data : {None}]

Unwritten == [a \in Addr |-> None]

Init ==
  /\ arbt_fifo = <<>> /\ splt_fifo = <<>>
  /\ cmd_fifo = <<>> /\ rsp_fifo = <<>> /\ byp_fifo = <<>> /\ slow = <<>>
  /\ e1_vld = FALSE /\ ram_dout = None
  /\ ram = Unwritten
  /\ cpu_waits = FALSE /\ disturbed = FALSE

(***************************************************************************)
(* Commands and answers.                                                    *)
(***************************************************************************)
\* A write's answer carries no data; neither does an error.
Executed(mem, c) ==
  IF c.branch = "sram" /\ c.op = "write" THEN [mem EXCEPT ![c.addr] = c.data] ELSE mem
Answer(mem, c) ==
  CASE c.branch = "sram" /\ c.op = "read" -> mem[c.addr]
    [] c.branch = "sram" /\ c.op = "write" -> "done"
    [] c.branch = "slow" -> "flash"
    [] c.branch = "deft" -> "err"

(***************************************************************************)
(* Combinational paths; offers[p] is the command at port p of the arbiter,   *)
(* ready the ports that listen, slowAnswers that the slow device is done.     *)
(***************************************************************************)
Popped(q) == IF q = <<>> THEN <<>> ELSE Tail(q)
Pushed(q, on, x) == IF on THEN Append(q, x) ELSE q

\* The arbiter: the accelerator first, and nobody while its FIFO is full.
WinnerLast(offers) == IF offers["cpu"] # None THEN "cpu" ELSE "acc"
Winner(offers) == IF offers["acc"] # None THEN "acc" ELSE "cpu"
Selected(offers) == IF offers["acc"] # None THEN offers["acc"] ELSE offers["cpu"]
cmdReadyOutstanding == Len(arbt_fifo) < OUTS
cmdReady == Len(arbt_fifo) < OUTS /\ Len(cmd_fifo) < DP
cmdTaken(offers) == Selected(offers) # None /\ cmdReady
Asker == Head(arbt_fifo)
rspGiven(ready) == rsp_fifo # <<>> /\ arbt_fifo # <<>> /\ Asker \in ready

\* The splitter: a command waits while another branch has answers to give.
Branch == IF cmd_fifo # <<>> THEN Head(cmd_fifo).branch ELSE "deft"
cmd_diff_branch == splt_fifo # <<>> /\ Branch # Head(splt_fifo)
cmd_valid(b) == /\ cmd_fifo # <<>> /\ b = Branch
                /\ ~cmd_diff_branch
                /\ Len(splt_fifo) < OUTS
rsp_branchOfCommand == Branch
rsp_branch == IF splt_fifo = <<>> THEN Branch ELSE Head(splt_fifo)
rsp_ready(b) == b = rsp_branch /\ Len(rsp_fifo) < DP

rsp_valid(b, slowAnswers) ==
  CASE b = "sram" -> e1_vld
    [] b = "slow" -> slow # <<>> /\ slowAnswers
    [] b = "deft" -> cmd_valid("deft")

cmd_ready(b) ==
  CASE b = "sram" -> byp_fifo = <<>>
    [] b = "slow" -> slow = <<>>
    [] b = "deft" -> rsp_ready("deft")

forwarded(b) == cmd_valid(b) /\ cmd_ready(b)
returned(slowAnswers) ==
  rsp_valid(rsp_branch, slowAnswers) /\ rsp_ready(rsp_branch)
rsp_data ==
  CASE rsp_branch = "sram" -> ram_dout
    [] rsp_branch = "slow" -> "flash"
    [] rsp_branch = "deft" -> "err"

\* The SRAM controller: e1_stage takes the kept command first, or the one passing.
e1_rdyCut == ~e1_vld
e1_rdy == ~e1_vld \/ rsp_ready("sram")
byp_vld == byp_fifo # <<>> \/ cmd_valid("sram")
byp_cmd == IF byp_fifo # <<>> THEN Head(byp_fifo) ELSE Head(cmd_fifo)
ram_cs  == byp_vld /\ e1_rdy

(***************************************************************************)
(* Registers.                                                               *)
(***************************************************************************)
Arbiter(offers, ready) ==
  arbt_fifo' = Pushed(IF rspGiven(ready) THEN Tail(arbt_fifo) ELSE arbt_fifo,
                      cmdTaken(offers), Winner(offers))

Buffer(offers, ready, slowAnswers) ==
  /\ cmd_fifo' = Pushed(IF forwarded(Branch) THEN Popped(cmd_fifo) ELSE cmd_fifo,
                        cmdTaken(offers), Selected(offers))
  /\ rsp_fifo' = Pushed(IF rspGiven(ready) THEN Tail(rsp_fifo) ELSE rsp_fifo,
                        returned(slowAnswers), rsp_data)

SplitterNoBypass(slowAnswers) ==
  splt_fifo' = Pushed(IF returned(slowAnswers) THEN Popped(splt_fifo) ELSE splt_fifo,
                      forwarded(Branch), Branch)
\* A command answered in the clock it is forwarded in leaves no entry.
Splitter(slowAnswers) ==
  LET bypass == splt_fifo = <<>> /\ forwarded(Branch) /\ returned(slowAnswers) IN
  splt_fifo' = Pushed(IF returned(slowAnswers) THEN Popped(splt_fifo) ELSE splt_fifo,
                      forwarded(Branch) /\ ~bypass, Branch)

SramCtrlNoBypass ==
  /\ byp_fifo' = CASE byp_fifo # <<>> /\ e1_rdy -> <<>>
                   [] forwarded("sram") -> <<Head(cmd_fifo)>>
                   [] OTHER -> byp_fifo
  /\ e1_vld' = (ram_cs \/ (e1_vld /\ ~rsp_ready("sram")))
  /\ ram' = IF ram_cs THEN Executed(ram, byp_cmd) ELSE ram
  /\ ram_dout' = IF ram_cs THEN Answer(ram, byp_cmd) ELSE ram_dout
SramCtrl ==
  /\ byp_fifo' = CASE byp_fifo # <<>> /\ e1_rdy -> <<>>
                   [] forwarded("sram") /\ ~e1_rdy -> <<Head(cmd_fifo)>>
                   [] OTHER -> byp_fifo
  /\ e1_vld' = (ram_cs \/ (e1_vld /\ ~rsp_ready("sram")))
  /\ ram' = IF ram_cs THEN Executed(ram, byp_cmd) ELSE ram
  /\ ram_dout' = IF ram_cs THEN Answer(ram, byp_cmd) ELSE ram_dout

\* A device behind another branch, as the flash: it answers when it likes, so that
\* whatever the debug module, the ROM and the flash do in fact is among its behaviours.
SlowDevice(slowAnswers) ==
  slow' = CASE forwarded("slow") -> <<Head(cmd_fifo)>>
            [] slow # <<>> /\ slowAnswers /\ rsp_ready("slow") -> <<>>
            [] OTHER -> slow

\* The bus side of the processor holds a command until it is taken; which it offers
\* and when is left open, so that everything the core may do is covered.
Processor(offers) ==
  cpu_waits' = (offers["cpu"] # None /\ ~(cmdTaken(offers) /\ Winner(offers) = "cpu"))

Disturbed(ready) ==
  disturbed' = \/ disturbed /\ arbt_fifo # <<>>
               \/ cmd_fifo # <<>> /\ Branch # "sram"
               \/ rsp_fifo # <<>> /\ Asker \notin ready

Clock(offers, ready, slowAnswers) ==
  /\ Arbiter(offers, ready)
  /\ Buffer(offers, ready, slowAnswers)
  /\ Splitter(slowAnswers)
  /\ SramCtrl
  /\ SlowDevice(slowAnswers)
  /\ Processor(offers)
  /\ Disturbed(ready)

\* What the accelerator and the processor may offer, and who listens.
Offers == [acc : AccCommands \cup {None},
           cpu : CpuCommands \cup (IF cpu_waits THEN {} ELSE {None})]
Listening == {Ports} \cup (IF rsp_fifo # <<>> /\ Asker = "cpu" THEN {{"acc"}} ELSE {})
SlowAnswers == {TRUE} \cup (IF slow # <<>> THEN {FALSE} ELSE {})

Next == \E offers \in Offers, ready \in Listening, slowAnswers \in SlowAnswers :
          Clock(offers, ready, slowAnswers)

\* The processor takes its answers and the slow device gives its own, sooner or
\* later (neither waits for the other side's commands to do so).
Prompt == \E offers \in Offers : Clock(offers, Ports, TRUE)

Spec == Init /\ [][Next]_vars
FairSpec == Spec /\ WF_vars(Prompt)

(***************************************************************************)
(* What the path promises.                                                  *)
(***************************************************************************)
\* The commands taken and not executed yet, in order, and the memory each finds.
Pending == byp_fifo \o cmd_fifo
Found(k) == [a \in Addr |->
  LET writes == {i \in 1..(k - 1) : Pending[i].op = "write" /\ Pending[i].addr = a} IN
  IF writes = {} THEN ram[a] ELSE Pending[CHOOSE i \in writes : \A l \in writes : l <= i].data]

\* The answers to all that was taken, oldest first.
UnderWay == rsp_fifo \o (IF e1_vld THEN <<ram_dout>> ELSE <<>>)
                     \o [i \in 1..Len(slow) |-> "flash"]
                     \o [k \in 1..Len(Pending) |-> Answer(Found(k), Pending[k])]

Shared == INSTANCE SharedMemory WITH
            Commands <- [acc |-> AccCommands, cpu |-> CpuCommands],
            Initial <- Unwritten, Executed <- Executed, Answer <- Answer,
            mem <- Found(Len(Pending) + 1),
            due <- [i \in 1..Len(arbt_fifo) |-> <<arbt_fifo[i], UnderWay[i]>>]

\* Queues of the arbiter, the buffer, the splitter and the SRAM controller in
\* four modules hold what one memory with two queues of answers would: every
\* accepted command is executed once, in the order of acceptance, and answered
\* once, to the side that gave it.
SharedSpec == Shared!Spec

\* The arbiter's and the splitter's FIFOs of eight are never the limit: the
\* buffer and the SRAM controller hold at most six commands and answers, so the
\* path refuses a command only because the buffer is full.
OutstandingBound == /\ Len(arbt_fifo) <= 2 * DP + 2
                    /\ Len(arbt_fifo) = Len(UnderWay)
                    /\ Len(splt_fifo) <= 2

\* The accelerator does not keep a command up (icb_master.v:138): it relies on
\* the SRAM taking one a clock for both sides.  It does, while the processor asks
\* for nothing but the SRAM and takes its answers at once.
RefusesOnlyWhenDisturbed == cmdReady \/ disturbed

\* No answer gets stuck behind another branch or another asker's answer.
AnswerGiven == \E offers \in Offers, slowAnswers \in BOOLEAN :
                 rspGiven(Ports) /\ Clock(offers, Ports, slowAnswers)
AnswersCome == []<>(arbt_fifo = <<>>) \/ []<><<AnswerGiven>>_vars

\* Once the accelerator asks nothing more, the processor's command is taken.
AccSilent == \E cpuOffer \in CpuCommands \cup {None}, ready \in SUBSET Ports, slowAnswers \in BOOLEAN :
               Clock([acc |-> None, cpu |-> cpuOffer], ready, slowAnswers)
CpuTaken == <>[][AccSilent]_vars => (cpu_waits ~> ~cpu_waits)
===========================================================================
