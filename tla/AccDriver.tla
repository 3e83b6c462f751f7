---------------------------- MODULE AccDriver ----------------------------
(* Software and registers: the driver of the accelerator
   (hbird-sdk/SoC/hbirdv2/Common/Source/Drivers/hbirdv2_acc_cfg.c) used as the
   demo main.c uses it - acc_config, acc_start, poll check_acc_status - on top
   of icb_slave, with the accelerator reduced to idle / busy / done.

   The driver's loads and stores become bus commands one at a time; the bus may
   keep icb_rsp_ready low while an answer waits.  The value a driver writes to
   the parameters is the number of the job.                                  *)
EXTENDS IcbSlave

CONSTANT Jobs             \* jobs the software runs

ASSUME DriverAssumption == Jobs \in Nat \ {0} /\ Params # {}

VARIABLES pc,             \* the access the driver is at
          todo,           \* parameters acc_config has still to write
          job,            \* number of the job, 1, 2, ...
          bus,            \* "idle", "cmd" (valid is up) or "rsp" (waiting)
          asked,          \* value the register had when the read was taken
          acc             \* "idle", "busy" or "done" (acc_done is up)

vars == <<slaveVars, pc, todo, job, bus, asked, acc>>

Init ==
  /\ SlaveInit
  /\ pc = "config" /\ todo = Params /\ job = 1
  /\ bus = "idle" /\ asked = 0 /\ acc = "idle"

CommandStartsWithJob(reg) ==
  CASE pc = "config" -> [read |-> FALSE, addr |-> reg, wdata |-> job]
    [] pc = "start"  -> [read |-> FALSE, addr |-> "START", wdata |-> job]
    [] pc = "poll"   -> [read |-> TRUE, addr |-> "DONE", wdata |-> 0]
    [] pc = "clear"  -> [read |-> FALSE, addr |-> "DONE", wdata |-> 0]
    [] OTHER         -> [read |-> FALSE, addr |-> "none", wdata |-> 0]
Command(reg) ==
  CASE pc = "config" -> [read |-> FALSE, addr |-> reg, wdata |-> job]
    [] pc = "start"  -> [read |-> FALSE, addr |-> "START", wdata |-> 1]
    [] pc = "poll"   -> [read |-> TRUE, addr |-> "DONE", wdata |-> 0]
    [] pc = "clear"  -> [read |-> FALSE, addr |-> "DONE", wdata |-> 0]
    [] OTHER         -> [read |-> FALSE, addr |-> "none", wdata |-> 0]

(***************************************************************************)
(* The bus between them: valid stays up until ready, then the answer is      *)
(* taken when rsp_ready meets rsp_valid.  The arbiters, buffers and splitters *)
(* it is made of may delay a command and an answer for any time.             *)
(***************************************************************************)
answered(rsp_ready) == bus = "rsp" /\ icb_rsp_valid /\ rsp_ready

BusClock(go, rsp_ready) ==
  bus' = CASE bus = "idle" /\ go /\ pc # "end" -> "cmd"
           [] taken(bus = "cmd") -> "rsp"
           [] answered(rsp_ready) -> "idle"
           [] OTHER -> bus

Asked(cmd) ==
  asked' = IF taken(bus = "cmd") /\ cmd.read THEN Register(cmd.addr) ELSE asked

\* hbirdv2_acc_cfg.c:4-42: seven stores, the start store, then a load of STATUS
\* that is followed by a store of 0 if it was not 0.
AfterPoll == IF icb_rsp_rdata # 0 THEN "clear" ELSE "poll"
AfterConfigFirst(reg) == "start"
AfterConfig(reg) == IF todo = {reg} THEN "start" ELSE "config"
Driver(reg, rsp_ready) ==
  IF ~answered(rsp_ready) THEN UNCHANGED <<pc, todo, job>>
  ELSE /\ pc' = CASE pc = "config" -> AfterConfig(reg)
                  [] pc = "start" -> "poll"
                  [] pc = "poll" -> AfterPoll
                  [] pc = "clear" -> IF job = Jobs THEN "end" ELSE "config"
       /\ todo' = CASE pc = "config" -> todo \ {reg}
                    [] pc = "clear" -> Params
                    [] OTHER -> todo
       /\ job' = IF pc = "clear" /\ job < Jobs THEN job + 1 ELSE job

\* main_fsm seen from the registers: a start is taken when idle, acc_done is
\* up for one clock when the job ends.
Accelerator(finish) ==
  acc' = CASE acc = "idle" /\ acc_start -> "busy"
           [] acc = "busy" /\ finish -> "done"
           [] acc = "done" -> "idle"
           [] OTHER -> acc

\* The seven stores are made in some fixed order.
Current == CHOOSE r \in Params : todo # {} => r \in todo

Clock(go, rsp_ready, finish) ==
  LET cmd == Command(Current) IN
  /\ SlaveClock(bus = "cmd", cmd, rsp_ready, acc = "done")
  /\ BusClock(go, rsp_ready) /\ Asked(cmd)
  /\ Driver(Current, rsp_ready)
  /\ Accelerator(finish)

Next == \E go, rsp_ready, finish \in BOOLEAN : Clock(go, rsp_ready, finish)

Spec == Init /\ [][Next]_vars
\* The processor goes on, takes answers, and the accelerator ends its jobs.  An
\* answer that says 1 is not kept waiting at every single poll: icb_slave gives
\* a waiting answer up after one clock (icb_slave.v:195).
PollTaken == /\ pc = "poll" /\ bus = "rsp" /\ icb_rsp_rdata # 0
             /\ \E go, finish \in BOOLEAN : Clock(go, TRUE, finish)
FairSpec == Spec /\ WF_vars(Clock(TRUE, TRUE, TRUE)) /\ SF_vars(PollTaken)

(***************************************************************************)
(* Properties.                                                              *)
(***************************************************************************)
\* Registers and program position hold values the driver can have given them.
TypeOK ==
  /\ params \in [Params -> 0..Jobs] /\ START \in 0..1 /\ DONE \in 0..1
  /\ icb_rsp_rdata \in 0..Jobs
  /\ pc \in {"config", "start", "poll", "clear", "end"}
  /\ bus \in {"idle", "cmd", "rsp"} /\ job \in 1..Jobs /\ acc \in {"idle", "busy", "done"}

\* The accelerator starts with all the parameters of the job in place, and none
\* of them changes while it works.
ParametersOfJob == acc_start \/ acc = "busy" => \A r \in Params : params[r] = job

\* The driver takes a job for finished only when it is: a DONE left over from
\* the job before is never read as this one's.
NoStaleDone == pc = "clear" => acc = "idle"

\* A START store starts one job: the pulse is over when the job is.
OneStartPerStore == acc = "done" => ~acc_start

\* Each answer is for the command that waits for it; to a poll it is the value
\* DONE had when the command was taken, or 0 once it was kept waiting, which the
\* driver takes for "not yet" and asks again.
AnswerTrueOrZero ==
  bus = "rsp" => /\ icb_rsp_valid
                 /\ pc = "poll" => icb_rsp_rdata \in {asked, 0}

\* The driver is told of every job.
EveryJobObserved == \A k \in 1..Jobs : (acc = "busy" /\ job = k) ~> (pc = "clear" /\ job = k)
==========================================================================
