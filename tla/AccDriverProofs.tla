------------------------- MODULE AccDriverProofs -------------------------
(* Theorems about driver and registers for every set of parameters and every
   number of jobs.                                                           *)
EXTENDS AccDriver, TLAPS

(***************************************************************************)
(* The inductive invariant.  Each part says where the handshake, the          *)
(* parameters, the job and the answer are while the driver is at an access.   *)
(***************************************************************************)
\* The slave is ready only for a command that is up, and answers only one taken.
Handshake ==
  /\ icb_cmd_ready \in BOOLEAN
  /\ icb_rsp_valid = (bus = "rsp")
  /\ icb_cmd_ready => bus = "cmd"
  /\ pc = "end" => bus = "idle"

\* Parameters that are no longer to do hold the number of the job, and so does the
\* one whose store waits for its answer.
Stored ==
  /\ todo \subseteq Params
  /\ pc = "config" => /\ todo # {}
                      /\ \A r \in Params \ todo : params[r] = job
                      /\ bus = "rsp" => params[Current] = job
  /\ pc # "config" => \A r \in Params : params[r] = job

\* The accelerator is started by the store to START and by nothing else, and a job
\* is either asked for, at work, ending, or in DONE.
Started == (pc = "start" /\ bus = "rsp") \/ pc = "poll"
OneJob ==
  /\ ~Started => START = 0 /\ acc = "idle"
  /\ ~Started /\ (pc # "clear" \/ bus = "rsp") => DONE = 0
  /\ START = 1 => acc = "idle"
  /\ START = 1 \/ acc # "idle" => DONE = 0

\* Only a poll is answered with anything but 0, and then DONE is still set.
Answers ==
  /\ icb_rsp_rdata # 0 => bus = "rsp" /\ pc = "poll" /\ icb_rsp_rdata = asked /\ DONE = 1

IInv == TypeOK /\ Handshake /\ Stored /\ OneJob /\ Answers

(***************************************************************************)
(* What one clock edge does, once the driver's access is known.               *)
(***************************************************************************)
\* The parameter that is stored next is one that is still to do.
LEMMA CurrentToDo ==
  ASSUME Stored, pc = "config"
  PROVE  Current \in todo /\ Current \in Params
<1>1. \E r \in Params : todo # {} => r \in todo
  BY DEF Stored
<1>2. Current \in Params /\ (todo # {} => Current \in todo)
  BY <1>1, Zenon DEF Current
<1> QED
  BY <1>2 DEF Stored

Take == bus = "cmd" /\ icb_cmd_ready
cmd == Command(Current)

\* Each register is written, and DONE read, by one access only.
LEMMA Accesses ==
  ASSUME TypeOK, Handshake, Stored
  PROVE  /\ \A r \in Params : write(bus = "cmd", cmd, r) <=> Take /\ pc = "config" /\ r = Current
         /\ write(bus = "cmd", cmd, "START") <=> Take /\ pc = "start"
         /\ write(bus = "cmd", cmd, "DONE") <=> Take /\ pc = "clear"
         /\ Take /\ cmd.read <=> Take /\ pc = "poll"
         /\ pc = "config" => cmd.wdata = job
         /\ pc = "start" => cmd.wdata = 1
         /\ pc = "clear" => cmd.wdata = 0
         /\ pc = "poll" => cmd.addr = "DONE"
<1> USE ParamsAssumption DEF write, taken, Take, cmd, Command
<1>1. CASE pc = "config"
  BY <1>1, CurrentToDo
<1>2. CASE pc = "start"
  BY <1>2
<1>3. CASE pc = "poll"
  BY <1>3
<1>4. CASE pc = "clear"
  BY <1>4
<1>5. CASE pc = "end"
  BY <1>5 DEF Handshake
<1> QED
  BY <1>1, <1>2, <1>3, <1>4, <1>5 DEF TypeOK

\* A poll reads DONE.
LEMMA PollReads ==
  ASSUME pc = "poll"
  PROVE  cmd.read /\ cmd.addr = "DONE" /\ Register(cmd.addr) = DONE
<1>1. cmd.read /\ cmd.addr = "DONE"
  BY DEF cmd, Command
<1>2. Register("DONE") = DONE
  BY ParamsAssumption DEF Register
<1> QED
  BY <1>1, <1>2

\* The registers after an edge.
LEMMA Registers ==
  ASSUME TypeOK, Handshake, Stored,
         NEW rsp_ready \in BOOLEAN, SlaveClock(bus = "cmd", cmd, rsp_ready, acc = "done")
  PROVE  /\ params' = [r \in Params |-> IF Take /\ pc = "config" /\ r = Current
                                        THEN job ELSE params[r]]
         /\ START' = IF Take /\ pc = "start" THEN 1 ELSE 0
         /\ DONE' = IF Take /\ pc = "clear" THEN 0 ELSE IF acc = "done" THEN 1 ELSE DONE
         /\ icb_rsp_rdata' = IF Take /\ pc = "poll" THEN DONE ELSE 0
<1>1. params' = [r \in Params |-> IF Take /\ pc = "config" /\ r = Current
                                  THEN job ELSE params[r]]
  BY Accesses DEF SlaveClock, Parameters
<1>2. START' = IF Take /\ pc = "start" THEN 1 ELSE 0
  BY Accesses DEF SlaveClock, Start, TypeOK
<1>3. DONE' = IF Take /\ pc = "clear" THEN 0 ELSE IF acc = "done" THEN 1 ELSE DONE
  BY Accesses DEF SlaveClock, DoneReg, TypeOK
<1>4. icb_rsp_rdata' = IF Take /\ pc = "poll" THEN DONE ELSE 0
  <2>1. Rdata(bus = "cmd", cmd)
    BY DEF SlaveClock
  <2>2. CASE Take /\ pc = "poll"
    BY <2>1, <2>2, PollReads DEF Rdata, Take, taken
  <2>3. CASE ~(Take /\ pc = "poll")
    <3>1. ~(Take /\ cmd.read)
      BY <2>3, Accesses
    <3> QED
      BY <2>1, <2>3, <3>1 DEF Rdata, Take, taken
  <2> QED
    BY <2>2, <2>3
<1> QED
  BY <1>1, <1>2, <1>3, <1>4

(***************************************************************************)
(* Every part of the invariant is kept.                                       *)
(***************************************************************************)
\* Before the first clock.
LEMMA DriverInit == Init => IInv
<1> SUFFICES ASSUME Init PROVE IInv
  OBVIOUS
<1> USE DriverAssumption DEF Init, SlaveInit
<1>1. TypeOK
  BY DEF TypeOK
<1>2. Handshake
  BY DEF Handshake
<1>3. Stored
  BY DEF Stored
<1>4. OneJob /\ Answers
  BY DEF OneJob, Answers, Started
<1> QED
  BY <1>1, <1>2, <1>3, <1>4 DEF IInv

\* The facts about one edge from which the parts follow.
LEMMA Edge ==
  ASSUME IInv, NEW go \in BOOLEAN, NEW rsp_ready \in BOOLEAN, NEW finish \in BOOLEAN,
         Clock(go, rsp_ready, finish)
  PROVE  /\ SlaveClock(bus = "cmd", cmd, rsp_ready, acc = "done")
         /\ BusClock(go, rsp_ready)
         /\ asked' = IF Take /\ pc = "poll" THEN DONE ELSE asked
         /\ Driver(Current, rsp_ready)
         /\ Accelerator(finish)
<1>1. TypeOK /\ Handshake /\ Stored
  BY DEF IInv
<1>2. asked' = IF Take /\ pc = "poll" THEN DONE ELSE asked
  <2>1. Asked(cmd)
    BY DEF Clock, cmd
  <2>2. CASE Take /\ pc = "poll"
    BY <2>1, <2>2, PollReads DEF Asked, Take, taken
  <2>3. CASE ~(Take /\ pc = "poll")
    <3>1. ~(Take /\ cmd.read)
      BY <1>1, <2>3, Accesses
    <3> QED
      BY <2>1, <2>3, <3>1 DEF Asked, Take, taken
  <2> QED
    BY <2>2, <2>3
<1> QED
  BY <1>2 DEF Clock, cmd

\* A command is on the bus or its answer is, and the program waits for it.
LEMMA HandshakeKept ==
  ASSUME IInv, NEW go \in BOOLEAN, NEW rsp_ready \in BOOLEAN, NEW finish \in BOOLEAN,
         Clock(go, rsp_ready, finish)
  PROVE  Handshake'
<1>1. icb_cmd_ready' = (~Take /\ (bus = "cmd" \/ icb_cmd_ready))
  BY Edge DEF SlaveClock, CmdReady, taken, Take
<1>2. icb_rsp_valid' = (Take \/ (icb_rsp_valid /\ ~rsp_ready))
  BY Edge DEF SlaveClock, RspValid, taken, Take
<1>3. Handshake /\ TypeOK
  BY DEF IInv
<1>4. CASE bus = "idle"
  <2>1. bus' = IF go /\ pc # "end" THEN "cmd" ELSE "idle"
    BY <1>4, Edge DEF BusClock, taken, answered
  <2>2. pc' = pc
    BY <1>4, Edge DEF Driver, answered
  <2>3. icb_cmd_ready' = FALSE /\ icb_rsp_valid' = FALSE
    BY <1>1, <1>2, <1>3, <1>4, Zenon DEF Handshake, Take
  <2> QED
    BY <1>3, <1>4, <2>1, <2>2, <2>3 DEF Handshake
<1>5. CASE bus = "cmd"
  <2>1. bus' = IF icb_cmd_ready THEN "rsp" ELSE "cmd"
    BY <1>5, Edge DEF BusClock, taken, answered
  <2>2. pc' = pc
    BY <1>5, Edge DEF Driver, answered
  <2>3. icb_cmd_ready' = ~icb_cmd_ready /\ icb_rsp_valid' = icb_cmd_ready
    BY <1>1, <1>2, <1>3, <1>5, Zenon DEF Handshake, Take
  <2> QED
    BY <1>3, <1>5, <2>1, <2>2, <2>3 DEF Handshake
<1>6. CASE bus = "rsp"
  <2>1. bus' = IF rsp_ready THEN "idle" ELSE "rsp"
    BY <1>3, <1>6, Edge DEF BusClock, taken, answered, Handshake
  <2>2. icb_cmd_ready' = FALSE /\ icb_rsp_valid' = ~rsp_ready
    BY <1>1, <1>2, <1>3, <1>6, Zenon DEF Handshake, Take
  <2>3. ~rsp_ready => pc' = pc
    BY <1>6, Edge DEF Driver, answered
  <2> QED
    BY <1>3, <1>6, <2>1, <2>2, <2>3 DEF Handshake
<1> QED
  BY <1>3, <1>4, <1>5, <1>6 DEF TypeOK

\* What the driver's program does when an answer arrives.
LEMMA Answered ==
  ASSUME IInv, NEW go \in BOOLEAN, NEW rsp_ready \in BOOLEAN, NEW finish \in BOOLEAN,
         Clock(go, rsp_ready, finish)
  PROVE  /\ bus = "rsp" /\ rsp_ready =>
              /\ bus' = "idle"
              /\ pc = "config" => /\ todo' = todo \ {Current} /\ job' = job
                                  /\ pc' = IF todo = {Current} THEN "start" ELSE "config"
              /\ pc = "start" => pc' = "poll" /\ todo' = todo /\ job' = job
              /\ pc = "poll" => /\ pc' = IF icb_rsp_rdata # 0 THEN "clear" ELSE "poll"
                                /\ todo' = todo /\ job' = job
              /\ pc = "clear" => /\ pc' = IF job = Jobs THEN "end" ELSE "config"
                                 /\ job' = IF job < Jobs THEN job + 1 ELSE job
                                 /\ todo' = Params
         /\ ~(bus = "rsp" /\ rsp_ready) =>
              /\ pc' = pc /\ todo' = todo /\ job' = job
              /\ bus' = IF bus = "rsp" THEN "rsp"
                        ELSE IF Take THEN "rsp"
                        ELSE IF bus = "idle" /\ go /\ pc # "end" THEN "cmd" ELSE bus
<1>1. BusClock(go, rsp_ready) /\ Driver(Current, rsp_ready)
  BY Edge
<1>2. TypeOK /\ Handshake
  BY DEF IInv
<1>3. ASSUME bus = "rsp", rsp_ready
      PROVE  answered(rsp_ready) /\ bus' = "idle"
  BY <1>1, <1>2, <1>3 DEF Handshake, answered, BusClock, taken
<1>4. ASSUME ~(bus = "rsp" /\ rsp_ready)
      PROVE  ~answered(rsp_ready)
  BY <1>4 DEF answered
<1>5. ASSUME bus = "rsp", rsp_ready, pc = "config"
      PROVE  /\ todo' = todo \ {Current} /\ job' = job
             /\ pc' = IF todo = {Current} THEN "start" ELSE "config"
  BY <1>1, <1>3, <1>5 DEF Driver, AfterConfig
<1>6. ASSUME bus = "rsp", rsp_ready, pc = "start"
      PROVE  pc' = "poll" /\ todo' = todo /\ job' = job
  BY <1>1, <1>3, <1>6 DEF Driver
<1>7. ASSUME bus = "rsp", rsp_ready, pc = "poll"
      PROVE  /\ pc' = IF icb_rsp_rdata # 0 THEN "clear" ELSE "poll"
             /\ todo' = todo /\ job' = job
  BY <1>1, <1>3, <1>7 DEF Driver, AfterPoll
<1>8. ASSUME bus = "rsp", rsp_ready, pc = "clear"
      PROVE  /\ pc' = IF job = Jobs THEN "end" ELSE "config"
             /\ job' = IF job < Jobs THEN job + 1 ELSE job
             /\ todo' = Params
  BY <1>1, <1>3, <1>8 DEF Driver
<1>9. ASSUME ~(bus = "rsp" /\ rsp_ready)
      PROVE  /\ pc' = pc /\ todo' = todo /\ job' = job
             /\ bus' = IF bus = "rsp" THEN "rsp"
                       ELSE IF Take THEN "rsp"
                       ELSE IF bus = "idle" /\ go /\ pc # "end" THEN "cmd" ELSE bus
  BY <1>1, <1>2, <1>4, <1>9 DEF Driver, BusClock, Take, taken, Handshake, TypeOK
<1> QED
  BY <1>3, <1>5, <1>6, <1>7, <1>8, <1>9

\* Registers and accelerator after an edge.
LEMMA After ==
  ASSUME IInv, NEW go \in BOOLEAN, NEW rsp_ready \in BOOLEAN, NEW finish \in BOOLEAN,
         Clock(go, rsp_ready, finish)
  PROVE  /\ params' = [r \in Params |-> IF Take /\ pc = "config" /\ r = Current
                                        THEN job ELSE params[r]]
         /\ START' = IF Take /\ pc = "start" THEN 1 ELSE 0
         /\ DONE' = IF Take /\ pc = "clear" THEN 0 ELSE IF acc = "done" THEN 1 ELSE DONE
         /\ icb_rsp_rdata' = IF Take /\ pc = "poll" THEN DONE ELSE 0
         /\ acc = "idle" => acc' = IF START = 1 THEN "busy" ELSE "idle"
         /\ acc = "busy" => acc' = IF finish THEN "done" ELSE "busy"
         /\ acc = "done" => acc' = "idle"
<1>1. SlaveClock(bus = "cmd", cmd, rsp_ready, acc = "done") /\ Accelerator(finish)
  BY Edge
<1>2. acc = "idle" => acc' = IF START = 1 THEN "busy" ELSE "idle"
  <2>1. acc_start <=> START = 1
    BY DEF acc_start, IInv, TypeOK
  <2> QED
    BY <1>1, <2>1 DEF Accelerator
<1>3. /\ acc = "busy" => acc' = IF finish THEN "done" ELSE "busy"
      /\ acc = "done" => acc' = "idle"
  BY <1>1 DEF Accelerator
<1> QED
  BY <1>1, <1>2, <1>3, Registers DEF IInv

\* Registers and program position stay in range.
LEMMA TypeKept ==
  ASSUME IInv, NEW go \in BOOLEAN, NEW rsp_ready \in BOOLEAN, NEW finish \in BOOLEAN,
         Clock(go, rsp_ready, finish)
  PROVE  TypeOK'
<1>1. TypeOK /\ Handshake
  BY DEF IInv
<1>2. params' \in [Params -> 0..Jobs] /\ START' \in 0..1 /\ DONE' \in 0..1
  BY <1>1, After, DriverAssumption DEF TypeOK
<1>3. icb_rsp_rdata' \in 0..Jobs
  BY <1>1, After, DriverAssumption DEF TypeOK
<1>4. acc' \in {"idle", "busy", "done"}
  BY <1>1, After DEF TypeOK
<1>5. /\ pc' \in {"config", "start", "poll", "clear", "end"}
      /\ bus' \in {"idle", "cmd", "rsp"} /\ job' \in 1..Jobs
  <2>1. CASE bus = "rsp" /\ rsp_ready
    <3>1. pc # "end" /\ pc \in {"config", "start", "poll", "clear", "end"}
      BY <1>1, <2>1 DEF Handshake, TypeOK
    <3>2. bus' = "idle" /\ pc' \in {"config", "start", "poll", "clear", "end"}
      BY <2>1, <3>1, Answered
    <3>3. job' = job \/ job' = IF job < Jobs THEN job + 1 ELSE job
      BY <2>1, <3>1, Answered
    <3>4. job' \in 1..Jobs
      BY <1>1, <3>3, DriverAssumption DEF TypeOK
    <3> QED
      BY <3>2, <3>4
  <2>2. CASE ~(bus = "rsp" /\ rsp_ready)
    BY <1>1, <2>2, Answered DEF TypeOK
  <2> QED
    BY <2>1, <2>2
<1> QED
  BY <1>2, <1>3, <1>4, <1>5 DEF TypeOK

\* What the program has stored so far is in the registers.
LEMMA StoredKept ==
  ASSUME IInv, NEW go \in BOOLEAN, NEW rsp_ready \in BOOLEAN, NEW finish \in BOOLEAN,
         Clock(go, rsp_ready, finish)
  PROVE  Stored'
<1>1. TypeOK /\ Handshake /\ Stored
  BY DEF IInv
<1>2. CASE bus = "rsp" /\ rsp_ready
  <2>1. ~Take /\ bus' = "idle"
    BY <1>2, Answered DEF Take
  <2>2. \A r \in Params : params'[r] = params[r]
    BY <2>1, After
  <2>3. CASE pc = "config"
    <3>1. Current \in todo /\ params[Current] = job
      BY <1>1, <1>2, <2>3, CurrentToDo DEF Stored
    <3>2. /\ todo' = todo \ {Current} /\ job' = job
          /\ pc' = IF todo = {Current} THEN "start" ELSE "config"
      BY <1>2, <2>3, Answered
    <3>3. \A r \in Params \ todo' : params'[r] = job'
      BY <1>1, <2>2, <2>3, <3>1, <3>2 DEF Stored
    <3>4. todo' \subseteq Params /\ (pc' = "config" <=> todo' # {})
      BY <1>1, <3>1, <3>2 DEF Stored
    <3>5. pc' # "config" => \A r \in Params : params'[r] = job'
      BY <3>3, <3>4
    <3> QED
      BY <2>1, <3>3, <3>4, <3>5 DEF Stored
  <2>4. CASE pc = "clear"
    <3>1. todo' = Params /\ (job = Jobs => job' = job /\ pc' = "end")
                         /\ (job # Jobs => pc' = "config")
      <4>1. /\ todo' = Params /\ pc' = IF job = Jobs THEN "end" ELSE "config"
            /\ job' = IF job < Jobs THEN job + 1 ELSE job
        BY <1>2, <2>4, Answered
      <4>2. job = Jobs => ~(job < Jobs)
        BY DriverAssumption
      <4> QED
        BY <4>1, <4>2
    <3> QED
      BY <1>1, <2>1, <2>2, <2>4, <3>1, DriverAssumption DEF Stored
  <2>5. CASE pc \in {"start", "poll"}
    <3>1. pc' # "config" /\ todo' = todo /\ job' = job
      BY <1>2, <2>5, Answered
    <3> QED
      BY <1>1, <2>2, <2>5, <3>1 DEF Stored
  <2>6. pc # "end"
    BY <1>1, <1>2 DEF Handshake
  <2> QED
    BY <1>1, <2>3, <2>4, <2>5, <2>6 DEF TypeOK
<1>3. CASE ~(bus = "rsp" /\ rsp_ready)
  <2>1. pc' = pc /\ todo' = todo /\ job' = job
    BY <1>3, Answered
  <2>2. Current' = Current
    BY <2>1 DEF Current
  <2>3. CASE pc = "config"
    <3>1. Current \in todo /\ Current \in Params
      BY <1>1, <2>3, CurrentToDo
    <3>2. \A r \in Params \ todo : params'[r] = job
      BY <1>1, <2>3, <3>1, After DEF Stored
    <3>3. bus' = "rsp" => bus = "rsp" \/ Take
      BY <1>1, <1>3, Answered DEF TypeOK
    <3>4. bus' = "rsp" => params'[Current] = job
      BY <1>1, <2>3, <3>1, <3>3, After DEF Stored
    <3> QED
      BY <1>1, <2>1, <2>2, <2>3, <3>2, <3>4 DEF Stored
  <2>4. CASE pc # "config"
    <3>1. \A r \in Params : params'[r] = params[r]
      BY <2>4, After
    <3> QED
      BY <1>1, <2>1, <2>4, <3>1 DEF Stored
  <2> QED
    BY <2>3, <2>4
<1> QED
  BY <1>2, <1>3

\* Only a poll is answered with anything but 0.
LEMMA AnswersKept ==
  ASSUME IInv, NEW go \in BOOLEAN, NEW rsp_ready \in BOOLEAN, NEW finish \in BOOLEAN,
         Clock(go, rsp_ready, finish)
  PROVE  Answers'
<1>1. TypeOK /\ Handshake /\ Answers
  BY DEF IInv
<1>2. CASE Take /\ pc = "poll"
  <2>1. ~(bus = "rsp" /\ rsp_ready)
    BY <1>2 DEF Take
  <2>2. pc' = pc /\ bus' = "rsp"
    BY <1>2, <2>1, Answered
  <2>3. asked' = DONE /\ icb_rsp_rdata' = DONE
    BY <1>2, Edge, After
  <2>4. DONE # 0 => DONE' = 1
    BY <1>1, <1>2, After DEF TypeOK
  <2> QED
    BY <1>2, <2>2, <2>3, <2>4 DEF Answers
<1>3. CASE ~(Take /\ pc = "poll")
  <2>1. icb_rsp_rdata' = 0
    BY <1>3, After
  <2> QED
    BY <2>1 DEF Answers
<1> QED
  BY <1>2, <1>3

\* The accelerator works on one job at a time, the one the program waits for.
LEMMA OneJobKept ==
  ASSUME IInv, NEW go \in BOOLEAN, NEW rsp_ready \in BOOLEAN, NEW finish \in BOOLEAN,
         Clock(go, rsp_ready, finish)
  PROVE  OneJob'
<1>1. TypeOK /\ Handshake /\ Answers /\ OneJob
  BY DEF IInv
<1>2. CASE bus = "rsp" /\ rsp_ready
  <2>1. ~Take /\ bus' = "idle"
    BY <1>2, Answered DEF Take
  <2>2. START' = 0 /\ DONE' = IF acc = "done" THEN 1 ELSE DONE
    BY <2>1, After
  <2>3. CASE pc \in {"config", "clear"}
    <3>1. pc' \in {"config", "start", "end"} /\ ~Started'
      BY <1>2, <2>1, <2>3, Answered DEF Started
    <3>2. START = 0 /\ acc = "idle" /\ DONE = 0
      BY <1>1, <1>2, <2>3 DEF OneJob, Started
    <3>3. START' = 0 /\ acc' = "idle" /\ DONE' = 0
      BY <2>2, <3>2, After
    <3> QED
      BY <3>1, <3>3 DEF OneJob
  <2>4. CASE pc = "start" \/ (pc = "poll" /\ icb_rsp_rdata = 0)
    <3>1. Started'
      BY <1>2, <2>4, Answered DEF Started
    <3>2. acc' # "idle" => DONE' = 0
      BY <1>1, <2>2, After DEF OneJob, TypeOK
    <3> QED
      BY <2>2, <3>1, <3>2 DEF OneJob
  <2>5. CASE pc = "poll" /\ icb_rsp_rdata # 0
    <3>1. DONE = 1 /\ acc = "idle" /\ START # 1
      BY <1>1, <2>5 DEF Answers, OneJob
    <3>2. pc' = "clear"
      BY <1>2, <2>5, Answered
    <3>3. acc' = "idle"
      BY <3>1, After
    <3> QED
      BY <2>1, <2>2, <3>2, <3>3 DEF OneJob, Started
  <2>6. pc # "end"
    BY <1>1, <1>2 DEF Handshake
  <2> QED
    BY <1>1, <2>3, <2>4, <2>5, <2>6 DEF TypeOK
<1>3. CASE ~(bus = "rsp" /\ rsp_ready)
  <2>1. /\ pc' = pc
        /\ bus' = IF bus = "rsp" THEN "rsp"
                  ELSE IF Take THEN "rsp"
                  ELSE IF bus = "idle" /\ go /\ pc # "end" THEN "cmd" ELSE bus
    BY <1>3, Answered
  <2>2. CASE Take /\ pc = "start"
    <3>1. ~Started /\ DONE = 0 /\ acc = "idle" /\ START = 0
      BY <1>1, <2>2 DEF OneJob, Started, Take
    <3>2. acc' = "idle" /\ DONE' = 0
      BY <2>2, <3>1, After
    <3>3. Started'
      BY <2>1, <2>2 DEF Started, Take
    <3> QED
      BY <3>2, <3>3 DEF OneJob
  <2>3. CASE Take /\ pc = "clear"
    <3>1. ~Started /\ acc = "idle" /\ START = 0
      BY <1>1, <2>3 DEF OneJob, Started
    <3>2. acc' = "idle" /\ DONE' = 0 /\ START' = 0
      BY <2>3, <3>1, After
    <3> QED
      BY <3>2 DEF OneJob
  <2>4. CASE ~(Take /\ pc \in {"start", "clear"})
    <3>1. START' = 0 /\ DONE' = IF acc = "done" THEN 1 ELSE DONE
      BY <2>4, After
    <3>2. Started' <=> Started
      BY <1>1, <2>1, <2>4 DEF Started, Take, TypeOK
    <3>3. ~Started => acc' = "idle" /\ DONE' = DONE
      BY <1>1, <3>1, After DEF OneJob
    <3>4. pc = "clear" => (bus' = "rsp" <=> bus = "rsp")
      BY <1>1, <2>1, <2>4 DEF TypeOK
    <3>5. ~Started /\ (pc # "clear" \/ bus' = "rsp") => DONE' = 0
      BY <1>1, <3>3, <3>4 DEF OneJob
    <3>6. acc' # "idle" => DONE' = 0
      BY <1>1, <3>1, After DEF OneJob, TypeOK
    <3> QED
      BY <2>1, <3>1, <3>2, <3>3, <3>5, <3>6 DEF OneJob
  <2> QED
    BY <2>2, <2>3, <2>4
<1> QED
  BY <1>2, <1>3

\* Every step of the driver keeps the inductive invariant.
LEMMA DriverStep == IInv /\ [Next]_vars => IInv'
<1> SUFFICES ASSUME IInv, [Next]_vars PROVE IInv'
  OBVIOUS
<1>1. ASSUME NEW go \in BOOLEAN, NEW rsp_ready \in BOOLEAN, NEW finish \in BOOLEAN,
             Clock(go, rsp_ready, finish)
      PROVE  IInv'
  <2>1. TypeOK' /\ Handshake'
    BY <1>1, TypeKept, HandshakeKept
  <2>2. Stored' /\ OneJob' /\ Answers'
    BY <1>1, StoredKept, OneJobKept, AnswersKept
  <2> QED
    BY <2>1, <2>2 DEF IInv
<1>2. CASE UNCHANGED vars
  <2>1. TypeOK' /\ Handshake'
    BY <1>2 DEF IInv, TypeOK, Handshake, vars, slaveVars
  <2>2. Current' = Current
    BY <1>2 DEF Current, vars
  <2>3. Stored' /\ OneJob' /\ Answers'
    BY <1>2, <2>2 DEF IInv, Stored, OneJob, Answers, Started, vars, slaveVars
  <2> QED
    BY <2>1, <2>3 DEF IInv
<1> QED
  BY <1>1, <1>2 DEF Next

\* The inductive invariant of driver, register file and accelerator.
THEOREM DriverInvariant == Spec => []IInv
<1> QED
  BY DriverInit, DriverStep, PTL DEF Spec

(***************************************************************************)
(* What the driver relies on, for any parameters and any number of jobs.      *)
(***************************************************************************)
\* Registers and program position hold values the driver can have given them.
THEOREM DriverTypes == Spec => []TypeOK
<1>1. IInv => TypeOK
  BY DEF IInv
<1> QED
  BY <1>1, DriverInvariant, PTL

\* A job starts with all its parameters in place and keeps them while it works:
\* acc_config has written all of them before the store to START.
THEOREM DriverParameters == Spec => []ParametersOfJob
<1>1. IInv => ParametersOfJob
  <2> SUFFICES ASSUME IInv, acc_start \/ acc = "busy" PROVE \A r \in Params : params[r] = job
    BY DEF ParametersOfJob
  <2>1. START = 1 \/ acc = "busy"
    BY DEF IInv, TypeOK, acc_start
  <2>2. pc # "config"
    BY <2>1 DEF IInv, OneJob, Started
  <2> QED
    BY <2>2 DEF IInv, Stored
<1> QED
  BY <1>1, DriverInvariant, PTL

\* The driver clears DONE only when the accelerator is idle: the DONE it has read
\* is this job's, for DONE was 0 when the job was started.
THEOREM DriverDone == Spec => []NoStaleDone
<1>1. IInv => NoStaleDone
  BY DEF IInv, OneJob, Started, NoStaleDone
<1> QED
  BY <1>1, DriverInvariant, PTL

\* A store to START starts one job: the pulse is over when the job ends.
THEOREM DriverOneStart == Spec => []OneStartPerStore
<1>1. IInv => OneStartPerStore
  BY DEF IInv, TypeOK, OneJob, acc_start, OneStartPerStore
<1> QED
  BY <1>1, DriverInvariant, PTL

\* A poll is answered with the value DONE had, or with 0.
THEOREM DriverAnswers == Spec => []AnswerTrueOrZero
<1>1. IInv => AnswerTrueOrZero
  BY DEF IInv, Handshake, Answers, AnswerTrueOrZero
<1> QED
  BY <1>1, DriverInvariant, PTL
==========================================================================
