------------------------- MODULE MemoryPathProofs -------------------------
(* Theorems about the memory path for every set of addresses and data, every
   depth of its queues and every number of commands its arbiter and splitter
   keep track of.                                                            *)
EXTENDS MemoryPath, SequenceTheorems, WellFoundedInduction, TLAPS

AllCommands == AccCommands \cup CpuCommands
Data        == AccData \cup CpuData \cup {None}
Answers     == Data \cup {"done", "flash", "err"}

(***************************************************************************)
(* The inductive invariant.                                                 *)
(***************************************************************************)
Types ==
  /\ arbt_fifo \in Seq(Ports)
  /\ cmd_fifo \in Seq(AllCommands) /\ Len(cmd_fifo) <= DP
  /\ rsp_fifo \in Seq(Answers) /\ Len(rsp_fifo) <= DP
  /\ ram \in [Addr -> Data]

\* Between splitter and devices there is nothing, or one command in the slow device,
\* or one or two in the SRAM controller: the splitter's FIFO says which.
Nothing   == splt_fifo = <<>> /\ ~e1_vld /\ byp_fifo = <<>> /\ slow = <<>>
InSlow    == /\ splt_fifo = <<"slow">> /\ ~e1_vld /\ byp_fifo = <<>>
             /\ \E c \in AllCommands : slow = <<c>>
InStage   == /\ splt_fifo = <<"sram">> /\ e1_vld /\ byp_fifo = <<>> /\ slow = <<>>
             /\ ram_dout \in Answers
InController == /\ splt_fifo = <<"sram", "sram">> /\ e1_vld /\ slow = <<>>
                /\ ram_dout \in Answers
                /\ \E c \in AllCommands : c.branch = "sram" /\ byp_fifo = <<c>>
Inside == e1_vld \in BOOLEAN /\ (Nothing \/ InSlow \/ InStage \/ InController)

\* Each outstanding command has its asker in the arbiter's FIFO.
IInv == Types /\ Inside /\ Len(arbt_fifo) = Len(UnderWay)

(***************************************************************************)
(* Commands.                                                                *)
(***************************************************************************)
\* Every command has a branch, an operation, an address and data; only the SRAM is written.
LEMMA Command ==
  ASSUME NEW c \in AllCommands
  PROVE  /\ c.branch \in {"sram", "slow", "deft"} /\ c.op \in {"read", "write"}
         /\ c.addr \in Addr /\ c.data \in Data
         /\ c.op = "write" => c.branch = "sram"
BY DEF AllCommands, AccCommands, CpuCommands, SramCommands, Data

\* Executing a command gives a memory, and answering it an answer; only a write changes anything.
LEMMA ExecutedType ==
  ASSUME NEW r \in [Addr -> Data], NEW c \in AllCommands
  PROVE  /\ Executed(r, c) \in [Addr -> Data]
         /\ Answer(r, c) \in Answers
         /\ Executed(r, c) = IF c.op = "write" THEN [r EXCEPT ![c.addr] = c.data] ELSE r
         /\ c.branch = "slow" => Answer(r, c) = "flash"
         /\ c.branch = "deft" => Answer(r, c) = "err"
<1>1. /\ c.branch \in {"sram", "slow", "deft"} /\ c.op \in {"read", "write"}
      /\ c.addr \in Addr /\ c.data \in Data
      /\ c.op = "write" => c.branch = "sram"
  BY Command
<1>2. Executed(r, c) = IF c.op = "write" THEN [r EXCEPT ![c.addr] = c.data] ELSE r
  BY <1>1 DEF Executed
<1>3. Executed(r, c) \in [Addr -> Data]
  BY <1>1, <1>2
<1>4. Answer(r, c) \in Answers
  <2>1. CASE c.branch = "sram" /\ c.op = "read"
    BY <1>1, <2>1 DEF Answer, Answers
  <2>2. CASE c.branch = "sram" /\ c.op = "write"
    BY <2>2 DEF Answer, Answers
  <2>3. CASE c.branch = "slow"
    BY <2>3 DEF Answer, Answers
  <2>4. CASE c.branch = "deft"
    BY <2>4 DEF Answer, Answers
  <2> QED
    BY <1>1, <2>1, <2>2, <2>3, <2>4
<1>5. /\ c.branch = "slow" => Answer(r, c) = "flash"
      /\ c.branch = "deft" => Answer(r, c) = "err"
  BY DEF Answer
<1> QED
  BY <1>2, <1>3, <1>4, <1>5

\* What the arbiter takes is a command of the side it names.
LEMMA TakenIsCommand ==
  ASSUME NEW offers \in Offers, cmdTaken(offers)
  PROVE  /\ Winner(offers) \in Ports /\ Selected(offers) \in AllCommands
         /\ Selected(offers) \in [acc |-> AccCommands, cpu |-> CpuCommands][Winner(offers)]
<1>1. /\ offers["acc"] \in AccCommands \cup {None}
      /\ offers["cpu"] \in CpuCommands \cup {None}
  BY DEF Offers
<1>2. CASE offers["acc"] # None
  BY <1>1, <1>2 DEF Winner, Selected, Ports, AllCommands
<1>3. CASE offers["acc"] = None
  <2>1. offers["cpu"] # None
    BY <1>3 DEF cmdTaken, Selected
  <2> QED
    BY <1>1, <1>3, <2>1 DEF Winner, Selected, Ports, AllCommands
<1> QED
  BY <1>2, <1>3

(***************************************************************************)
(* Between splitter and devices.                                            *)
(***************************************************************************)
\* A word in front of a queue is its head; the queue is the tail.
LEMMA FirstOut ==
  ASSUME NEW S, NEW w \in S, NEW rest \in Seq(S)
  PROVE  /\ <<w>> \o rest \in Seq(S) /\ <<w>> \o rest # <<>>
         /\ Len(<<w>> \o rest) = Len(rest) + 1
         /\ Head(<<w>> \o rest) = w
         /\ Tail(<<w>> \o rest) = rest
<1>1. <<w>> \in Seq(S) /\ Len(<<w>>) = 1 /\ <<w>>[1] = w
  OBVIOUS
<1>2. /\ <<w>> \o rest \in Seq(S) /\ Len(<<w>> \o rest) = 1 + Len(rest)
      /\ \A i \in 1..(1 + Len(rest)) :
           (<<w>> \o rest)[i] = IF i <= 1 THEN <<w>>[i] ELSE rest[i - 1]
  BY <1>1, ConcatProperties
<1>3. Len(rest) \in Nat
  OBVIOUS
<1>4. <<w>> \o rest # <<>> /\ (<<w>> \o rest)[1] = w
  BY <1>1, <1>2, <1>3
<1>5. Tail(<<w>> \o rest) = rest
  <2> DEFINE t == Tail(<<w>> \o rest)
  <2>1. /\ t \in Seq(S) /\ Len(t) = Len(rest)
        /\ \A i \in 1..Len(t) : t[i] = (<<w>> \o rest)[i + 1]
    BY <1>2, <1>3, <1>4, HeadTailProperties
  <2>2. \A i \in 1..Len(t) : t[i] = rest[i]
    BY <1>2, <1>3, <2>1
  <2> HIDE DEF t
  <2>3. t = rest
    BY <2>1, <2>2, SeqEqual
  <2> QED
    BY <2>3 DEF t
<1> QED
  BY <1>2, <1>3, <1>4, <1>5

\* The converse: a queue is its first word and the rest.
LEMMA FirstAndRest ==
  ASSUME NEW S, NEW q \in Seq(S), q # <<>>
  PROVE  /\ Head(q) \in S /\ Tail(q) \in Seq(S) /\ Len(Tail(q)) = Len(q) - 1
         /\ <<Head(q)>> \o Tail(q) = q
<1>1. /\ Head(q) \in S /\ Tail(q) \in Seq(S) /\ Len(Tail(q)) = Len(q) - 1
      /\ \A i \in 1..Len(Tail(q)) : Tail(q)[i] = q[i + 1]
  BY HeadTailProperties
<1>2. Head(q) = q[1] /\ Len(q) \in Nat /\ Len(q) >= 1
  OBVIOUS
<1> DEFINE t == Tail(q)
           h == <<Head(q)>>
<1>3. h \in Seq(S) /\ Len(h) = 1 /\ h[1] = q[1]
  BY <1>1, <1>2
<1>4. t \in Seq(S) /\ Len(t) = Len(q) - 1 /\ \A i \in 1..Len(t) : t[i] = q[i + 1]
  BY <1>1
<1> HIDE DEF t, h
<1>4a. h \in Seq(S) /\ t \in Seq(S)
  BY <1>3, <1>4
<1>4b. /\ h \o t \in Seq(S) /\ Len(h \o t) = Len(h) + Len(t)
       /\ \A i \in 1..(Len(h) + Len(t)) :
            (h \o t)[i] = IF i <= Len(h) THEN h[i] ELSE t[i - Len(h)]
  BY <1>4a, ConcatProperties
<1>5. /\ h \o t \in Seq(S) /\ Len(h \o t) = 1 + Len(t)
      /\ \A i \in 1..(1 + Len(t)) : (h \o t)[i] = IF i <= 1 THEN h[i] ELSE t[i - 1]
  BY <1>3, <1>4b
<1>6. \A i \in 1..Len(h \o t) : (h \o t)[i] = q[i]
  BY <1>2, <1>3, <1>4, <1>5
<1>7. h \o t = q
  BY <1>2, <1>4, <1>5, <1>6, SeqEqual
<1> QED
  BY <1>1, <1>7 DEF h, t

\* What the devices have ready or will have: the answers before those of Pending.
held == (IF e1_vld THEN <<ram_dout>> ELSE <<>>) \o [i \in 1..Len(slow) |-> "flash"]

\* What the devices hold, in each of the forms Inside allows.
LEMMA HeldIs ==
  /\ ~e1_vld /\ slow = <<>> => held = <<>>
  /\ \A c : ~e1_vld /\ slow = <<c>> => held = <<"flash">>
  /\ e1_vld /\ slow = <<>> => held = <<ram_dout>>
<1>1. [i \in 1..Len(<<>>) |-> "flash"] = <<>>
  OBVIOUS
<1>2. \A c : [i \in 1..Len(<<c>>) |-> "flash"] = <<"flash">>
  OBVIOUS
<1>3. \A x : <<x>> \o <<>> = <<x>> /\ <<>> \o <<x>> = <<x>> /\ <<>> \o <<>> = <<>>
  OBVIOUS
<1> QED
  BY <1>1, <1>2, <1>3 DEF held

\* The commands that wait, with and without one in the bypass buffer.
LEMMA PendingIs ==
  ASSUME Types
  PROVE  /\ byp_fifo = <<>> => Pending = cmd_fifo
         /\ \A c \in AllCommands : byp_fifo = <<c>> =>
              Pending \in Seq(AllCommands) /\ Pending # <<>> /\ Head(Pending) = c
                /\ Tail(Pending) = cmd_fifo /\ Len(Pending) = Len(cmd_fifo) + 1
<1>1. byp_fifo = <<>> => Pending = cmd_fifo
  BY ConcatEmptySeq DEF Types, Pending
<1>2. ASSUME NEW c \in AllCommands, byp_fifo = <<c>>
      PROVE  Pending \in Seq(AllCommands) /\ Pending # <<>> /\ Head(Pending) = c
                /\ Tail(Pending) = cmd_fifo /\ Len(Pending) = Len(cmd_fifo) + 1
  BY <1>2, FirstOut DEF Types, Pending
<1> QED
  BY <1>1, <1>2

\* What an edge does to the command at the head of the splitter's input, whatever
\* is taken or given beyond the buffer.
kept == IF forwarded(Branch) THEN Tail(cmd_fifo) ELSE cmd_fifo
Flow(exec, slowAnswers) ==
  /\ Inside'
  /\ exec \in BOOLEAN /\ (exec => Pending # <<>>)
  /\ forwarded(Branch) => cmd_fifo # <<>>
  /\ returned(slowAnswers) => Len(rsp_fifo) < DP /\ rsp_data \in Answers
  /\ ram' = IF exec THEN Executed(ram, Head(Pending)) ELSE ram
  /\ byp_fifo' \o kept = IF exec THEN Tail(Pending) ELSE Pending
  /\ (IF returned(slowAnswers) THEN <<rsp_data>> ELSE <<>>) \o held'
       = held \o (IF exec THEN <<Answer(ram, Head(Pending))>> ELSE <<>>)

\* The registers between splitter and devices.
Devices(slowAnswers) == Splitter(slowAnswers) /\ SramCtrl /\ SlowDevice(slowAnswers)

\* The first command is of a branch the splitter knows.
LEMMA FirstCommand ==
  ASSUME Types, cmd_fifo # <<>>
  PROVE  /\ Head(cmd_fifo) \in AllCommands /\ Branch = Head(cmd_fifo).branch
         /\ Branch \in {"sram", "slow", "deft"}
         /\ Tail(cmd_fifo) \in Seq(AllCommands)
<1>1. Head(cmd_fifo) \in AllCommands /\ Tail(cmd_fifo) \in Seq(AllCommands)
  BY FirstAndRest DEF Types
<1> QED
  BY <1>1, Command DEF Branch

\* Concatenations of at most two words.
LEMMA Short == \A x, y : /\ <<x>> \o <<>> = <<x>> /\ <<>> \o <<x>> = <<x>>
                         /\ <<>> \o <<>> = <<>> /\ <<x>> \o <<y>> = <<x, y>>
<1> SUFFICES ASSUME NEW x, NEW y
             PROVE  /\ <<x>> \o <<>> = <<x>> /\ <<>> \o <<x>> = <<x>>
                    /\ <<>> \o <<>> = <<>> /\ <<x>> \o <<y>> = <<x, y>>
  OBVIOUS
<1>1. <<x>> \o <<>> = <<x>> /\ <<>> \o <<x>> = <<x>>
  OBVIOUS
<1>2. <<>> \o <<>> = <<>>
  OBVIOUS
<1>3. <<x>> \o <<y>> = <<x, y>>
  <2> DEFINE S == {x, y}
             q == <<x>> \o <<y>>
  <2>1. <<x>> \in Seq(S) /\ <<y>> \in Seq(S) /\ <<x, y>> \in Seq(S)
    OBVIOUS
  <2>2. q \in Seq(S) /\ Len(q) = 2 /\ q[1] = x /\ q[2] = y
    BY <2>1, ConcatProperties
  <2>3. Len(<<x, y>>) = 2 /\ <<x, y>>[1] = x /\ <<x, y>>[2] = y
    OBVIOUS
  <2> HIDE DEF q
  <2>4. q = <<x, y>>
    BY <2>1, <2>2, <2>3, SeqEqual
  <2> QED
    BY <2>4 DEF q
<1> QED
  BY <1>1, <1>2, <1>3

\* An edge with nothing between splitter and devices keeps the order of commands and answers.
LEMMA FlowFromNothing ==
  ASSUME Types, e1_vld \in BOOLEAN, Nothing, NEW slowAnswers \in BOOLEAN, Devices(slowAnswers)
  PROVE  \E exec \in BOOLEAN : Flow(exec, slowAnswers)
<1> DEFINE c == Head(cmd_fifo)
<1>1. splt_fifo = <<>> /\ ~e1_vld /\ byp_fifo = <<>> /\ slow = <<>>
  BY DEF Nothing
<1>2. Pending = cmd_fifo /\ held = <<>> /\ Len(splt_fifo) = 0 /\ OUTS \in Nat /\ OUTS > 0
  BY <1>1, PendingIs, HeldIs, PathAssumption
<1>3. rsp_branch = Branch /\ e1_rdy /\ ~cmd_diff_branch
  BY <1>1 DEF rsp_branch, e1_rdy, cmd_diff_branch
<1>4. \A b : cmd_valid(b) <=> cmd_fifo # <<>> /\ b = Branch
  BY <1>2, <1>3 DEF cmd_valid
<1>5. \A x : Len(Append(<<>>, x)) = 1 /\ Append(<<>>, x) = <<x>>
  OBVIOUS
<1>6. CASE cmd_fifo = <<>>
  <2>1. /\ ~forwarded("sram") /\ ~forwarded("slow") /\ ~forwarded(Branch)
        /\ ~ram_cs
    BY <1>1, <1>4, <1>6 DEF forwarded, ram_cs, byp_vld
  <2>2. ~returned(slowAnswers)
    BY <1>1, <1>3, <1>4, <1>6 DEF returned, rsp_valid, Branch
  <2>3. /\ splt_fifo' = <<>> /\ byp_fifo' = <<>> /\ slow' = <<>> /\ ~e1_vld'
        /\ e1_vld' \in BOOLEAN /\ ram' = ram
    BY <1>1, <2>1, <2>2 DEF Devices, Splitter, SramCtrl, SlowDevice, Pushed
  <2>4. held' = <<>>
    BY <2>3, HeldIs DEF held
  <2>5. kept = cmd_fifo
    BY <2>1 DEF kept
  <2>6. Inside'
    BY <2>3 DEF Inside, Nothing
  <2>7. Flow(FALSE, slowAnswers)
    BY <1>2, <1>6, <2>1, <2>2, <2>3, <2>4, <2>5, <2>6, Short DEF Flow
  <2> QED
    BY <2>7
<1>7. CASE cmd_fifo # <<>> /\ Branch = "sram"
  <2>1. /\ forwarded("sram") /\ forwarded(Branch) /\ ~forwarded("slow")
        /\ ram_cs /\ byp_cmd = c
    BY <1>1, <1>3, <1>4, <1>7 DEF forwarded, cmd_ready, ram_cs, byp_vld, byp_cmd
  <2>2. ~returned(slowAnswers)
    BY <1>1, <1>3, <1>7 DEF returned, rsp_valid
  <2>3. /\ splt_fifo' = <<"sram">> /\ byp_fifo' = <<>> /\ slow' = <<>> /\ e1_vld'
        /\ e1_vld' \in BOOLEAN
        /\ ram' = Executed(ram, c) /\ ram_dout' = Answer(ram, c)
    BY <1>1, <1>3, <1>5, <1>7, <2>1, <2>2
    DEF Devices, Splitter, SramCtrl, SlowDevice, Pushed
  <2>4. c \in AllCommands /\ Tail(cmd_fifo) \in Seq(AllCommands) /\ Answer(ram, c) \in Answers
    BY <1>7, FirstCommand, ExecutedType DEF Types
  <2>5. held' = <<Answer(ram, c)>>
    BY <2>3, Short DEF held
  <2>6. kept = Tail(cmd_fifo) /\ <<>> \o kept = Tail(cmd_fifo)
    BY <2>1, <2>4, ConcatEmptySeq DEF kept
  <2>7. Inside'
    BY <2>3, <2>4 DEF Inside, InStage
  <2>8. Flow(TRUE, slowAnswers)
    BY <1>2, <1>7, <2>1, <2>2, <2>3, <2>5, <2>6, <2>7, Short DEF Flow
  <2> QED
    BY <2>8
<1>8. CASE cmd_fifo # <<>> /\ Branch = "slow"
  <2>1. /\ ~forwarded("sram") /\ forwarded(Branch) /\ forwarded("slow") /\ ~ram_cs
    BY <1>1, <1>3, <1>4, <1>8 DEF forwarded, cmd_ready, ram_cs, byp_vld
  <2>2. ~returned(slowAnswers)
    BY <1>1, <1>3, <1>8 DEF returned, rsp_valid
  <2>3. /\ splt_fifo' = <<"slow">> /\ byp_fifo' = <<>> /\ slow' = <<c>> /\ ~e1_vld'
        /\ e1_vld' \in BOOLEAN /\ ram' = ram
    BY <1>1, <1>3, <1>5, <1>8, <2>1, <2>2
    DEF Devices, Splitter, SramCtrl, SlowDevice, Pushed
  <2>4. c \in AllCommands /\ Tail(cmd_fifo) \in Seq(AllCommands) /\ c.branch = "slow"
    BY <1>8, FirstCommand
  <2>5. held' = <<"flash">>
    <3>1. [i \in 1..Len(<<c>>) |-> "flash"] = <<"flash">>
      OBVIOUS
    <3> QED
      BY <2>3, <3>1, Short DEF held
  <2>6. kept = Tail(cmd_fifo) /\ <<>> \o kept = Tail(cmd_fifo)
    BY <2>1, <2>4, ConcatEmptySeq DEF kept
  <2>7. Inside'
    BY <2>3, <2>4 DEF Inside, InSlow
  <2>8. Executed(ram, c) = ram /\ Answer(ram, c) = "flash"
    BY <2>4 DEF Executed, Answer
  <2>9. Flow(TRUE, slowAnswers)
    BY <1>2, <1>8, <2>1, <2>2, <2>3, <2>5, <2>6, <2>7, <2>8, Short DEF Flow
  <2> QED
    BY <2>9
<1>9. CASE cmd_fifo # <<>> /\ Branch = "deft" /\ Len(rsp_fifo) < DP
  <2>1. /\ ~forwarded("sram") /\ forwarded(Branch) /\ ~forwarded("slow") /\ ~ram_cs
    BY <1>1, <1>3, <1>4, <1>9 DEF forwarded, cmd_ready, rsp_ready, ram_cs, byp_vld
  <2>2. returned(slowAnswers) /\ rsp_data = "err"
    BY <1>1, <1>3, <1>4, <1>9 DEF returned, rsp_valid, rsp_ready, rsp_data
  <2>3. /\ splt_fifo' = <<>> /\ byp_fifo' = <<>> /\ slow' = <<>> /\ ~e1_vld'
        /\ e1_vld' \in BOOLEAN /\ ram' = ram
    BY <1>1, <1>9, <2>1, <2>2
    DEF Devices, Splitter, SramCtrl, SlowDevice, Pushed, Popped
  <2>4. c \in AllCommands /\ Tail(cmd_fifo) \in Seq(AllCommands) /\ c.branch = "deft"
    BY <1>9, FirstCommand
  <2>5. held' = <<>>
    BY <2>3, HeldIs DEF held
  <2>6. kept = Tail(cmd_fifo) /\ <<>> \o kept = Tail(cmd_fifo)
    BY <2>1, <2>4, ConcatEmptySeq DEF kept
  <2>7. Inside'
    BY <2>3 DEF Inside, Nothing
  <2>8. Executed(ram, c) = ram /\ Answer(ram, c) = "err" /\ "err" \in Answers
    BY <2>4 DEF Executed, Answer, Answers
  <2>9. Flow(TRUE, slowAnswers)
    BY <1>2, <1>9, <2>1, <2>2, <2>3, <2>5, <2>6, <2>7, <2>8, Short DEF Flow
  <2> QED
    BY <2>9
<1>10. CASE cmd_fifo # <<>> /\ Branch = "deft" /\ ~(Len(rsp_fifo) < DP)
  <2>1. /\ ~forwarded("sram") /\ ~forwarded(Branch) /\ ~forwarded("slow") /\ ~ram_cs
    BY <1>1, <1>3, <1>4, <1>10 DEF forwarded, cmd_ready, rsp_ready, ram_cs, byp_vld
  <2>2. ~returned(slowAnswers)
    BY <1>10 DEF returned, rsp_ready
  <2>3. /\ splt_fifo' = <<>> /\ byp_fifo' = <<>> /\ slow' = <<>> /\ ~e1_vld'
        /\ e1_vld' \in BOOLEAN /\ ram' = ram
    BY <1>1, <2>1, <2>2 DEF Devices, Splitter, SramCtrl, SlowDevice, Pushed
  <2>4. held' = <<>>
    BY <2>3, HeldIs DEF held
  <2>5. kept = cmd_fifo /\ <<>> \o kept = cmd_fifo
    BY <2>1, ConcatEmptySeq DEF kept, Types
  <2>6. Inside'
    BY <2>3 DEF Inside, Nothing
  <2>7. Flow(FALSE, slowAnswers)
    BY <1>2, <2>1, <2>2, <2>3, <2>4, <2>5, <2>6, Short DEF Flow
  <2> QED
    BY <2>7
<1> QED
  BY <1>6, <1>7, <1>8, <1>9, <1>10, FirstCommand

\* So does an edge with a command in the slow device,
LEMMA FlowFromSlow ==
  ASSUME Types, e1_vld \in BOOLEAN, InSlow, NEW slowAnswers \in BOOLEAN, Devices(slowAnswers)
  PROVE  \E exec \in BOOLEAN : Flow(exec, slowAnswers)
<1>1. PICK c \in AllCommands : slow = <<c>>
  BY DEF InSlow
<1>2. splt_fifo = <<"slow">> /\ ~e1_vld /\ byp_fifo = <<>> /\ slow # <<>>
  BY <1>1 DEF InSlow
<1>3. Pending = cmd_fifo /\ held = <<"flash">> /\ Head(splt_fifo) = "slow" /\ splt_fifo # <<>>
  BY <1>1, <1>2, PendingIs, HeldIs
<1>4. rsp_branch = "slow"
  BY <1>3 DEF rsp_branch
<1>5. \A b : cmd_valid(b) => b = "slow"
  BY <1>3 DEF cmd_valid, cmd_diff_branch
<1>6. ~forwarded("sram") /\ ~forwarded("slow") /\ ~forwarded(Branch) /\ ~ram_cs
  BY <1>2, <1>5 DEF forwarded, cmd_ready, ram_cs, byp_vld
<1>7. kept = cmd_fifo /\ <<>> \o kept = cmd_fifo
  BY <1>6, ConcatEmptySeq DEF kept, Types
<1>8. e1_vld' \in BOOLEAN /\ ~e1_vld' /\ byp_fifo' = <<>> /\ ram' = ram
  BY <1>2, <1>6 DEF Devices, SramCtrl
<1>9. CASE returned(slowAnswers)
  <2>1. slowAnswers /\ rsp_ready("slow") /\ rsp_data = "flash" /\ Len(rsp_fifo) < DP
    BY <1>4, <1>9 DEF returned, rsp_valid, rsp_ready, rsp_data
  <2>2. slow' = <<>> /\ splt_fifo' = <<>>
    <3>1. slow' = <<>>
      BY <1>2, <1>6, <2>1 DEF Devices, SlowDevice
    <3>2. splt_fifo' = Tail(splt_fifo)
      BY <1>3, <1>6, <1>9 DEF Devices, Splitter, Pushed, Popped
    <3>3. Tail(<<"slow">>) = <<>>
      OBVIOUS
    <3> QED
      BY <1>2, <3>1, <3>2, <3>3
  <2>3. held' = <<>>
    BY <1>8, <2>2, HeldIs DEF held
  <2>4. Inside'
    BY <1>8, <2>2 DEF Inside, Nothing
  <2>5. "flash" \in Answers
    BY DEF Answers
  <2>6. Flow(FALSE, slowAnswers)
    BY <1>3, <1>6, <1>7, <1>8, <1>9, <2>1, <2>3, <2>4, <2>5, Short DEF Flow
  <2> QED
    BY <2>6
<1>10. CASE ~returned(slowAnswers)
  <2>1. ~(slowAnswers /\ rsp_ready("slow"))
    BY <1>2, <1>4, <1>10 DEF returned, rsp_valid
  <2>2. slow' = slow /\ splt_fifo' = splt_fifo
    BY <1>6, <1>10, <2>1 DEF Devices, SlowDevice, Splitter, Pushed
  <2>3. held' = <<"flash">>
    <3>1. [i \in 1..Len(<<c>>) |-> "flash"] = <<"flash">>
      OBVIOUS
    <3> QED
      BY <1>1, <1>8, <2>2, <3>1, Short DEF held
  <2>4. Inside'
    BY <1>1, <1>2, <1>8, <2>2 DEF Inside, InSlow
  <2>5. Flow(FALSE, slowAnswers)
    BY <1>3, <1>6, <1>7, <1>8, <1>10, <2>3, <2>4, Short DEF Flow
  <2> QED
    BY <2>5
<1> QED
  BY <1>9, <1>10

\* one with an answer in the SRAM controller's stage,
LEMMA FlowFromStage ==
  ASSUME Types, e1_vld \in BOOLEAN, InStage, NEW slowAnswers \in BOOLEAN, Devices(slowAnswers)
  PROVE  \E exec \in BOOLEAN : Flow(exec, slowAnswers)
<1> DEFINE c == Head(cmd_fifo)
           room == Len(rsp_fifo) < DP
<1>1. splt_fifo = <<"sram">> /\ e1_vld /\ byp_fifo = <<>> /\ slow = <<>> /\ ram_dout \in Answers
  BY DEF InStage
<1>2. Pending = cmd_fifo /\ held = <<ram_dout>> /\ Head(splt_fifo) = "sram" /\ splt_fifo # <<>>
  BY <1>1, PendingIs, HeldIs
<1>3. rsp_branch = "sram" /\ (e1_rdy <=> room) /\ (rsp_ready("sram") <=> room)
      /\ (returned(slowAnswers) <=> room) /\ rsp_data = ram_dout
  BY <1>1, <1>2 DEF rsp_branch, e1_rdy, rsp_ready, returned, rsp_valid, rsp_data
<1>4. \A b : cmd_valid(b) => b = "sram" /\ cmd_fifo # <<>> /\ Branch = "sram"
  BY <1>2 DEF cmd_valid, cmd_diff_branch
<1>5. /\ ~forwarded("slow") /\ (forwarded(Branch) <=> forwarded("sram"))
      /\ forwarded("sram") <=> cmd_valid("sram")
  <2>1. ~forwarded("slow")
    BY <1>4 DEF forwarded
  <2>2. forwarded("sram") <=> cmd_valid("sram")
    BY <1>1 DEF forwarded, cmd_ready
  <2>3. CASE Branch = "sram"
    BY <2>1, <2>2, <2>3
  <2>4. CASE Branch # "sram"
    <3>1. ~cmd_valid(Branch) /\ ~cmd_valid("sram")
      BY <1>4, <2>4
    <3> QED
      BY <2>1, <2>2, <3>1 DEF forwarded
  <2> QED
    BY <2>3, <2>4
<1>6. (ram_cs <=> cmd_valid("sram") /\ room) /\ byp_cmd = c
  BY <1>1, <1>3 DEF ram_cs, byp_vld, byp_cmd
<1>7. slow' = <<>>
  BY <1>1, <1>5 DEF Devices, SlowDevice
<1>8. /\ Append(<<>>, "sram") = <<"sram">> /\ Tail(<<"sram">>) = <<>>
      /\ Append(<<"sram">>, "sram") = <<"sram", "sram">>
  <2>1. Append(<<>>, "sram") = <<"sram">>
    OBVIOUS
  <2>2. Tail(<<"sram">>) = <<>>
    OBVIOUS
  <2>3. Append(<<"sram">>, "sram") = <<"sram", "sram">>
    <3> DEFINE q == Append(<<"sram">>, "sram")
    <3>1. <<"sram">> \in Seq({"sram"}) /\ <<"sram", "sram">> \in Seq({"sram"})
      OBVIOUS
    <3>2. q \in Seq({"sram"}) /\ Len(q) = 2 /\ q[1] = "sram" /\ q[2] = "sram"
      BY <3>1, AppendProperties
    <3>3. Len(<<"sram", "sram">>) = 2 /\ <<"sram", "sram">>[1] = "sram"
          /\ <<"sram", "sram">>[2] = "sram"
      OBVIOUS
    <3> HIDE DEF q
    <3>4. q = <<"sram", "sram">>
      BY <3>1, <3>2, <3>3, SeqEqual
    <3> QED
      BY <3>4 DEF q
  <2> QED
    BY <2>1, <2>2, <2>3
<1>9. CASE cmd_valid("sram")
  <2>1. c \in AllCommands /\ c.branch = "sram" /\ Tail(cmd_fifo) \in Seq(AllCommands)
        /\ Answer(ram, c) \in Answers /\ cmd_fifo # <<>>
    BY <1>4, <1>9, FirstCommand, ExecutedType DEF Types
  <2>2. kept = Tail(cmd_fifo) /\ <<>> \o kept = Tail(cmd_fifo) /\ <<c>> \o kept = cmd_fifo
    BY <1>5, <1>9, <2>1, FirstAndRest, ConcatEmptySeq DEF kept, Types
  <2>3. CASE room
    <3>1. /\ byp_fifo' = <<>> /\ e1_vld' /\ e1_vld' \in BOOLEAN
          /\ ram' = Executed(ram, c) /\ ram_dout' = Answer(ram, c)
      BY <1>1, <1>3, <1>5, <1>6, <1>9, <2>3 DEF Devices, SramCtrl
    <3>2. splt_fifo' = <<"sram">>
      BY <1>1, <1>2, <1>3, <1>4, <1>5, <1>8, <1>9, <2>3 DEF Devices, Splitter, Pushed, Popped
    <3>3. held' = <<Answer(ram, c)>>
      BY <1>7, <3>1, Short DEF held
    <3>4. Inside'
      BY <1>7, <2>1, <3>1, <3>2 DEF Inside, InStage
    <3>5. Flow(TRUE, slowAnswers)
      BY <1>1, <1>2, <1>3, <1>5, <1>9, <2>1, <2>2, <2>3, <3>1, <3>3, <3>4, Short DEF Flow
    <3> QED
      BY <3>5
  <2>4. CASE ~room
    <3>1. /\ byp_fifo' = <<c>> /\ e1_vld' /\ e1_vld' \in BOOLEAN
          /\ ram' = ram /\ ram_dout' = ram_dout
      BY <1>1, <1>3, <1>5, <1>6, <1>9, <2>4 DEF Devices, SramCtrl
    <3>2. splt_fifo' = <<"sram", "sram">>
      BY <1>1, <1>2, <1>3, <1>4, <1>5, <1>8, <1>9, <2>4 DEF Devices, Splitter, Pushed, Popped
    <3>3. held' = <<ram_dout>>
      BY <1>7, <3>1, Short DEF held
    <3>4. Inside'
      BY <1>1, <1>7, <2>1, <3>1, <3>2 DEF Inside, InController
    <3>5. Flow(FALSE, slowAnswers)
      BY <1>1, <1>2, <1>3, <1>5, <1>9, <2>1, <2>2, <2>4, <3>1, <3>3, <3>4, Short DEF Flow
    <3> QED
      BY <3>5
  <2> QED
    BY <2>3, <2>4
<1>10. CASE ~cmd_valid("sram")
  <2>1. kept = cmd_fifo /\ <<>> \o kept = cmd_fifo
    BY <1>5, <1>10, ConcatEmptySeq DEF kept, Types
  <2>2. byp_fifo' = <<>> /\ ram' = ram /\ ram_dout' = ram_dout
        /\ e1_vld' \in BOOLEAN /\ (e1_vld' <=> ~room)
    BY <1>1, <1>3, <1>5, <1>6, <1>10 DEF Devices, SramCtrl
  <2>3. CASE room
    <3>1. splt_fifo' = <<>>
      BY <1>1, <1>2, <1>3, <1>5, <1>8, <1>10, <2>3 DEF Devices, Splitter, Pushed, Popped
    <3>2. held' = <<>>
      BY <1>7, <2>2, <2>3, HeldIs DEF held
    <3>3. Inside'
      BY <1>7, <2>2, <2>3, <3>1 DEF Inside, Nothing
    <3>4. Flow(FALSE, slowAnswers)
      BY <1>1, <1>2, <1>3, <1>5, <1>10, <2>1, <2>2, <2>3, <3>2, <3>3, Short DEF Flow
    <3> QED
      BY <3>4
  <2>4. CASE ~room
    <3>1. splt_fifo' = <<"sram">>
      BY <1>1, <1>3, <1>5, <1>10, <2>4 DEF Devices, Splitter, Pushed
    <3>2. held' = <<ram_dout>>
      BY <1>7, <2>2, <2>4, Short DEF held
    <3>3. Inside'
      BY <1>1, <1>7, <2>2, <2>4, <3>1 DEF Inside, InStage
    <3>4. Flow(FALSE, slowAnswers)
      BY <1>1, <1>2, <1>3, <1>5, <1>10, <2>1, <2>2, <2>4, <3>2, <3>3, Short DEF Flow
    <3> QED
      BY <3>4
  <2> QED
    BY <2>3, <2>4
<1> QED
  BY <1>9, <1>10

\* and one with an answer in the stage and a command kept in the bypass buffer.
LEMMA FlowFromController ==
  ASSUME Types, e1_vld \in BOOLEAN, InController, NEW slowAnswers \in BOOLEAN, Devices(slowAnswers)
  PROVE  \E exec \in BOOLEAN : Flow(exec, slowAnswers)
<1> DEFINE room == Len(rsp_fifo) < DP
<1>1. PICK c \in AllCommands : c.branch = "sram" /\ byp_fifo = <<c>>
  BY DEF InController
<1>2. splt_fifo = <<"sram", "sram">> /\ e1_vld /\ slow = <<>> /\ ram_dout \in Answers
      /\ byp_fifo # <<>> /\ Head(byp_fifo) = c
  BY <1>1 DEF InController
<1>3. /\ Pending \in Seq(AllCommands) /\ Pending # <<>> /\ Head(Pending) = c
      /\ Tail(Pending) = cmd_fifo
      /\ held = <<ram_dout>> /\ Head(splt_fifo) = "sram" /\ splt_fifo # <<>>
  BY <1>1, <1>2, PendingIs, HeldIs
<1>4. rsp_branch = "sram" /\ (e1_rdy <=> room) /\ (rsp_ready("sram") <=> room)
      /\ (returned(slowAnswers) <=> room) /\ rsp_data = ram_dout
  BY <1>2, <1>3 DEF rsp_branch, e1_rdy, rsp_ready, returned, rsp_valid, rsp_data
<1>5. \A b : cmd_valid(b) => b = "sram"
  BY <1>3 DEF cmd_valid, cmd_diff_branch
<1>6. ~forwarded("slow") /\ ~forwarded("sram") /\ ~forwarded(Branch)
  BY <1>2, <1>5 DEF forwarded, cmd_ready
<1>7. (ram_cs <=> room) /\ byp_cmd = c
  BY <1>2, <1>4 DEF ram_cs, byp_vld, byp_cmd
<1>8. slow' = <<>>
  BY <1>2, <1>6 DEF Devices, SlowDevice
<1>9. kept = cmd_fifo /\ <<>> \o kept = cmd_fifo /\ <<c>> \o kept = Pending
  BY <1>1, <1>6, ConcatEmptySeq DEF kept, Types, Pending
<1>10. Answer(ram, c) \in Answers
  BY ExecutedType DEF Types
<1>11. CASE room
  <2>1. /\ byp_fifo' = <<>> /\ e1_vld' /\ e1_vld' \in BOOLEAN
        /\ ram' = Executed(ram, c) /\ ram_dout' = Answer(ram, c)
    BY <1>2, <1>4, <1>6, <1>7, <1>11 DEF Devices, SramCtrl
  <2>2. splt_fifo' = <<"sram">>
    <3>1. Tail(<<"sram", "sram">>) = <<"sram">>
      OBVIOUS
    <3> QED
      BY <1>2, <1>3, <1>4, <1>6, <1>11, <3>1 DEF Devices, Splitter, Pushed, Popped
  <2>3. held' = <<Answer(ram, c)>>
    BY <1>8, <2>1, Short DEF held
  <2>4. Inside'
    BY <1>8, <1>10, <2>1, <2>2 DEF Inside, InStage
  <2>5. Flow(TRUE, slowAnswers)
    BY <1>2, <1>3, <1>4, <1>6, <1>9, <1>11, <2>1, <2>3, <2>4, Short DEF Flow
  <2> QED
    BY <2>5
<1>12. CASE ~room
  <2>1. /\ byp_fifo' = byp_fifo /\ e1_vld' /\ e1_vld' \in BOOLEAN
        /\ ram' = ram /\ ram_dout' = ram_dout
    BY <1>2, <1>4, <1>6, <1>7, <1>12 DEF Devices, SramCtrl
  <2>2. splt_fifo' = splt_fifo
    BY <1>4, <1>6, <1>12 DEF Devices, Splitter, Pushed
  <2>3. held' = <<ram_dout>>
    BY <1>8, <2>1, Short DEF held
  <2>4. Inside'
    BY <1>1, <1>2, <1>8, <2>1, <2>2 DEF Inside, InController
  <2>5. Flow(FALSE, slowAnswers)
    BY <1>1, <1>2, <1>3, <1>4, <1>6, <1>9, <1>12, <2>1, <2>3, <2>4, Short DEF Flow
  <2> QED
    BY <2>5
<1> QED
  BY <1>11, <1>12

\* Whatever is between splitter and devices, an edge executes at most the first command
\* that waits, and the answers leave in the order of the commands.
LEMMA DevicesFlow ==
  ASSUME Types, Inside, NEW slowAnswers \in BOOLEAN, Devices(slowAnswers)
  PROVE  \E exec \in BOOLEAN : Flow(exec, slowAnswers)
BY FlowFromNothing, FlowFromSlow, FlowFromStage, FlowFromController DEF Inside

(***************************************************************************)
(* The memory that a pending command finds.                                 *)
(***************************************************************************)
WritesBefore(P, k, a) == {i \in 1..(k - 1) : P[i].op = "write" /\ P[i].addr = a}
Last(W)        == CHOOSE i \in W : \A l \in W : l <= i
After(r, P, k) == [a \in Addr |-> IF WritesBefore(P, k, a) = {}
                                  THEN r[a] ELSE P[Last(WritesBefore(P, k, a))].data]
Replies(r, P)  == [k \in 1..Len(P) |-> Answer(After(r, P, k), P[k])]

\* The memory a pending command finds, by the operator the lemmas are about.
LEMMA FoundIsAfter == \A k : Found(k) = After(ram, Pending, k)
BY DEF Found, After, WritesBefore, Last

\* The last element of a set is the one no other exceeds.
LEMMA LastIs ==
  ASSUME NEW n \in Nat, NEW W \in SUBSET (1..n), NEW i \in W, \A l \in W : l <= i
  PROVE  Last(W) = i
<1>1. \A j \in W : (\A l \in W : l <= j) => j = i
  OBVIOUS
<1> QED
  BY <1>1 DEF Last

\* A set of places in a queue has a last element.
LEMMA LastExists ==
  ASSUME NEW n \in Nat, NEW W \in SUBSET (1..n), W # {}
  PROVE  Last(W) \in W /\ \A l \in W : l <= Last(W)
<1> DEFINE below == {n - i : i \in W}
<1>1. below \subseteq Nat /\ below # {}
  <2>1. \A i \in W : n - i \in Nat
    OBVIOUS
  <2>2. PICK i \in W : TRUE
    OBVIOUS
  <2>3. n - i \in below
    BY <2>2
  <2> QED
    BY <2>1, <2>3
<1>2. PICK m \in below : \A d \in below : ~(<<d, m>> \in OpToRel(<, Nat))
  BY <1>1, NatLessThanWellFounded, WFMin
<1>3. PICK i \in W : m = n - i
  BY <1>2
<1>4. \A l \in W : l <= i
  <2> SUFFICES ASSUME NEW l \in W PROVE l <= i
    OBVIOUS
  <2>1. n - l \in below /\ n - l \in Nat /\ m \in Nat
    BY <1>1
  <2>2. ~(n - l < m)
    BY <1>2, <2>1 DEF OpToRel
  <2> QED
    BY <1>3, <2>1, <2>2
<1> QED
  BY <1>4, LastIs

\* What a command finds is a memory.
LEMMA AfterType ==
  ASSUME NEW r \in [Addr -> Data], NEW P \in Seq(AllCommands), NEW k \in 1..(Len(P) + 1)
  PROVE  After(r, P, k) \in [Addr -> Data]
<1> SUFFICES ASSUME NEW a \in Addr
             PROVE  (IF WritesBefore(P, k, a) = {}
                     THEN r[a] ELSE P[Last(WritesBefore(P, k, a))].data) \in Data
  BY DEF After
<1>1. WritesBefore(P, k, a) \in SUBSET (1..(k - 1)) /\ k - 1 \in Nat /\ k - 1 <= Len(P)
      /\ Len(P) \in Nat
  BY DEF WritesBefore
<1>2. CASE WritesBefore(P, k, a) # {}
  <2>1. Last(WritesBefore(P, k, a)) \in 1..(k - 1)
    BY <1>1, <1>2, LastExists
  <2>2. \A i \in 1..(k - 1) : P[i] \in AllCommands
    BY <1>1, ElementOfSeq
  <2> QED
    BY <1>2, <2>1, <2>2, Command
<1> QED
  BY <1>2

\* The first command finds the memory as it is.
LEMMA AfterFirst ==
  ASSUME NEW r \in [Addr -> Data], NEW P
  PROVE  After(r, P, 1) = r
<1>1. \A a : WritesBefore(P, 1, a) = {}
  BY DEF WritesBefore
<1> QED
  BY <1>1 DEF After

\* A command behind others does not change what they find.
LEMMA AfterAppend ==
  ASSUME NEW r, NEW P \in Seq(AllCommands), NEW c \in AllCommands, NEW k \in 1..(Len(P) + 1)
  PROVE  After(r, Append(P, c), k) = After(r, P, k)
<1>1. \A i \in 1..(k - 1) : Append(P, c)[i] = P[i]
  <2>1. \A i \in 1..Len(P) : Append(P, c)[i] = P[i]
    BY AppendProperties
  <2>2. k - 1 <= Len(P) /\ k - 1 \in Nat /\ Len(P) \in Nat
    OBVIOUS
  <2> QED
    BY <2>1, <2>2
<1>2. \A a : WritesBefore(Append(P, c), k, a) = WritesBefore(P, k, a)
  BY <1>1 DEF WritesBefore
<1>3. \A a : WritesBefore(P, k, a) # {} =>
               Last(WritesBefore(P, k, a)) \in 1..(k - 1)
  <2> SUFFICES ASSUME NEW a, WritesBefore(P, k, a) # {}
               PROVE  Last(WritesBefore(P, k, a)) \in 1..(k - 1)
    OBVIOUS
  <2>1. WritesBefore(P, k, a) \in SUBSET (1..(k - 1)) /\ k - 1 \in Nat
    BY DEF WritesBefore
  <2> QED
    BY <2>1, LastExists
<1> QED
  BY <1>1, <1>2, <1>3 DEF After

\* The next command finds what the command before it leaves.
LEMMA AfterNext ==
  ASSUME NEW r \in [Addr -> Data], NEW P \in Seq(AllCommands), NEW k \in 1..Len(P)
  PROVE  After(r, P, k + 1) = Executed(After(r, P, k), P[k])
<1> DEFINE c == P[k]
<1>1. c \in AllCommands /\ k \in 1..(Len(P) + 1) /\ k \in Nat /\ k >= 1 /\ Len(P) \in Nat
  BY ElementOfSeq
<1>2. After(r, P, k) \in [Addr -> Data]
  BY <1>1, AfterType
<1>3. Executed(After(r, P, k), c)
        = IF c.op = "write" THEN [After(r, P, k) EXCEPT ![c.addr] = c.data] ELSE After(r, P, k)
  BY <1>1, <1>2, ExecutedType
<1>4. \A a : WritesBefore(P, k + 1, a)
               = WritesBefore(P, k, a) \cup (IF c.op = "write" /\ c.addr = a THEN {k} ELSE {})
  <2>1. 1..((k + 1) - 1) = (1..(k - 1)) \cup {k}
    BY <1>1
  <2> QED
    BY <2>1 DEF WritesBefore
<1>5. ASSUME NEW a \in Addr
      PROVE  After(r, P, k + 1)[a] = IF c.op = "write" /\ c.addr = a THEN c.data
                                     ELSE After(r, P, k)[a]
  <2>1. CASE c.op = "write" /\ c.addr = a
    <3>1. k \in WritesBefore(P, k + 1, a)
      BY <1>4, <2>1
    <3>2. WritesBefore(P, k + 1, a) \in SUBSET (1..k) /\ k \in Nat
      BY <1>1 DEF WritesBefore
    <3>3. \A l \in WritesBefore(P, k + 1, a) : l <= k
      BY <1>1, <3>2
    <3>4. Last(WritesBefore(P, k + 1, a)) = k
      BY <3>1, <3>2, <3>3, LastIs
    <3> QED
      BY <2>1, <3>1, <3>4 DEF After
  <2>2. CASE ~(c.op = "write" /\ c.addr = a)
    <3>1. WritesBefore(P, k + 1, a) = WritesBefore(P, k, a)
      BY <1>4, <2>2
    <3> QED
      BY <2>2, <3>1 DEF After
  <2> QED
    BY <2>1, <2>2
<1>6. After(r, P, k + 1) \in [Addr -> Data]
  BY <1>1, AfterType
<1> DEFINE f == After(r, P, k)
           g == After(r, P, k + 1)
           h == Executed(f, c)
<1>7. /\ f \in [Addr -> Data] /\ g \in [Addr -> Data]
      /\ h = IF c.op = "write" THEN [f EXCEPT ![c.addr] = c.data] ELSE f
      /\ \A a \in Addr : g[a] = IF c.op = "write" /\ c.addr = a THEN c.data ELSE f[a]
      /\ c.data \in Data
  BY <1>1, <1>2, <1>3, <1>5, <1>6, Command
<1> HIDE DEF f, g, h, c
<1>8. h \in [Addr -> Data] /\ \A a \in Addr : h[a] = g[a]
  BY <1>7
<1>9. g = h
  BY <1>7, <1>8
<1> QED
  BY <1>9 DEF f, g, h, c

\* Executing the first command leaves what the others find as it was.
LEMMA AfterTail ==
  ASSUME NEW r \in [Addr -> Data], NEW P \in Seq(AllCommands), P # <<>>, NEW k \in 1..Len(P)
  PROVE  After(Executed(r, Head(P)), Tail(P), k) = After(r, P, k + 1)
<1> DEFINE c == Head(P)
           t == Tail(P)
           r1 == Executed(r, c)
<1>1. /\ c \in AllCommands /\ c = P[1] /\ t \in Seq(AllCommands) /\ Len(t) = Len(P) - 1
      /\ \A i \in 1..Len(t) : t[i] = P[i + 1]
      /\ Len(P) \in Nat /\ Len(P) >= 1
  BY HeadTailProperties
<1>2. /\ r1 \in [Addr -> Data]
      /\ r1 = IF c.op = "write" THEN [r EXCEPT ![c.addr] = c.data] ELSE r
  BY <1>1, ExecutedType
<1>3. k \in 1..(Len(t) + 1) /\ k + 1 \in 1..(Len(P) + 1) /\ k \in Nat /\ k >= 1
  BY <1>1
<1> HIDE DEF c, t, r1
<1>4. ASSUME NEW a \in Addr
      PROVE  After(r1, t, k)[a] = After(r, P, k + 1)[a]
  <2> DEFINE V == WritesBefore(t, k, a)
             W == WritesBefore(P, k + 1, a)
             n == k - 1
  <2>1. n \in Nat /\ V \in SUBSET (1..n) /\ W \in SUBSET (1..k)
    BY <1>3 DEF WritesBefore
  <2>2. \A i \in 1..n : i \in V <=> i + 1 \in W
    <3> SUFFICES ASSUME NEW i \in 1..n PROVE i \in V <=> i + 1 \in W
      OBVIOUS
    <3>1. i \in 1..(k - 1) /\ i + 1 \in 1..((k + 1) - 1) /\ i \in 1..Len(t)
      BY <1>1, <1>3
    <3>2. t[i] = P[i + 1]
      BY <1>1, <3>1
    <3> QED
      BY <3>1, <3>2 DEF WritesBefore
  <2>3. 1 \in W <=> c.op = "write" /\ c.addr = a
    <3>1. 1 \in 1..((k + 1) - 1)
      BY <1>3
    <3> QED
      BY <1>1, <3>1 DEF WritesBefore
  <2>4. /\ After(r1, t, k)[a] = IF V = {} THEN r1[a] ELSE t[Last(V)].data
        /\ After(r, P, k + 1)[a] = IF W = {} THEN r[a] ELSE P[Last(W)].data
    BY DEF After
  <2>5. r1[a] = IF c.op = "write" /\ c.addr = a THEN c.data ELSE r[a]
    BY <1>2
  <2> HIDE DEF V, W
  <2>6. CASE V # {}
    <3>1. Last(V) \in V /\ \A l \in V : l <= Last(V)
      BY <2>1, <2>6, LastExists
    <3>2. Last(V) + 1 \in W /\ Last(V) \in 1..n
      BY <2>1, <2>2, <3>1
    <3>3. \A l \in W : l <= Last(V) + 1
      <4> SUFFICES ASSUME NEW l \in W, l # 1 PROVE l <= Last(V) + 1
        BY <2>1, <3>2
      <4>1. l - 1 \in 1..n /\ (l - 1) + 1 = l
        BY <1>3, <2>1
      <4>2. l - 1 \in V
        BY <2>2, <4>1
      <4> QED
        BY <2>1, <3>1, <3>2, <4>1, <4>2
    <3>4. Last(W) = Last(V) + 1
      BY <1>3, <2>1, <3>2, <3>3, LastIs
    <3>5. t[Last(V)] = P[Last(V) + 1]
      BY <1>1, <1>3, <3>2
    <3> QED
      BY <2>4, <2>6, <3>2, <3>4, <3>5
  <2>7. CASE V = {} /\ 1 \in W
    <3>1. \A l \in W : l <= 1
      <4> SUFFICES ASSUME NEW l \in W, l # 1 PROVE FALSE
        OBVIOUS
      <4>1. l - 1 \in 1..n /\ (l - 1) + 1 = l
        BY <1>3, <2>1
      <4> QED
        BY <2>2, <2>7, <4>1
    <3>2. Last(W) = 1
      BY <1>3, <2>1, <2>7, <3>1, LastIs
    <3> QED
      BY <1>1, <2>3, <2>4, <2>5, <2>7, <3>2
  <2>8. CASE V = {} /\ 1 \notin W
    <3>1. W = {}
      <4> SUFFICES ASSUME NEW l \in W PROVE FALSE
        OBVIOUS
      <4>1. l - 1 \in 1..n /\ (l - 1) + 1 = l
        BY <1>3, <2>1, <2>8
      <4> QED
        BY <2>2, <2>8, <4>1
    <3> QED
      BY <2>3, <2>4, <2>5, <2>8, <3>1
  <2> QED
    BY <2>6, <2>7, <2>8
<1>5. After(r1, t, k) \in [Addr -> Data] /\ After(r, P, k + 1) \in [Addr -> Data]
  BY <1>1, <1>2, <1>3, AfterType
<1>6. After(r1, t, k) = After(r, P, k + 1)
  BY <1>4, <1>5
<1> QED
  BY <1>6 DEF r1, c, t

\* The answers to the pending commands, when one joins and when one leaves.
LEMMA RepliesType ==
  ASSUME NEW r \in [Addr -> Data], NEW P \in Seq(AllCommands)
  PROVE  Replies(r, P) \in Seq(Answers) /\ Len(Replies(r, P)) = Len(P)
<1>1. \A k \in 1..Len(P) : Answer(After(r, P, k), P[k]) \in Answers
  <2> SUFFICES ASSUME NEW k \in 1..Len(P) PROVE Answer(After(r, P, k), P[k]) \in Answers
    OBVIOUS
  <2>1. P[k] \in AllCommands /\ k \in 1..(Len(P) + 1)
    BY ElementOfSeq
  <2> QED
    BY <2>1, AfterType, ExecutedType
<1>2. Len(P) \in Nat
  OBVIOUS
<1>3. Replies(r, P) \in [1..Len(P) -> Answers]
  BY <1>1 DEF Replies
<1> QED
  BY <1>2, <1>3, IsASeq

\* A command behind others adds its answer behind theirs.
LEMMA RepliesAppend ==
  ASSUME NEW r \in [Addr -> Data], NEW P \in Seq(AllCommands), NEW c \in AllCommands
  PROVE  Replies(r, Append(P, c))
           = Append(Replies(r, P), Answer(After(r, P, Len(P) + 1), c))
<1> DEFINE Q == Append(P, c)
           n == Len(P)
           w == Answer(After(r, P, n + 1), c)
           s == Replies(r, P)
           x == Replies(r, Q)
           y == Append(s, w)
<1>1. n \in Nat /\ n + 1 \in 1..(n + 1)
  OBVIOUS
<1>2. /\ Q \in Seq(AllCommands) /\ Len(Q) = n + 1 /\ Q[n + 1] = c
      /\ \A i \in 1..n : Q[i] = P[i]
  BY AppendProperties
<1>3. w \in Answers
  BY <1>1, AfterType, ExecutedType
<1>4. /\ s \in Seq(Answers) /\ Len(s) = n /\ \A i \in 1..n : s[i] = Answer(After(r, P, i), P[i])
  BY RepliesType DEF Replies
<1>5. /\ x \in Seq(Answers) /\ Len(x) = n + 1
      /\ \A i \in 1..(n + 1) : x[i] = Answer(After(r, Q, i), Q[i])
  BY <1>2, RepliesType DEF Replies
<1>6. \A i \in 1..(n + 1) : After(r, Q, i) = After(r, P, i)
  BY AfterAppend
<1> HIDE DEF Q, n, w, s, x
<1>7. /\ y \in Seq(Answers) /\ Len(y) = n + 1 /\ y[n + 1] = w
      /\ \A i \in 1..n : y[i] = s[i]
  BY <1>3, <1>4, AppendProperties
<1>8. x[n + 1] = w
  BY <1>1, <1>2, <1>5, <1>6 DEF w
<1>9. \A i \in 1..n : x[i] = s[i]
  BY <1>1, <1>2, <1>4, <1>5, <1>6
<1> HIDE DEF y
<1>10. \A i \in 1..Len(x) : x[i] = y[i]
  BY <1>1, <1>5, <1>7, <1>8, <1>9
<1>11. x = y
  BY <1>5, <1>7, <1>10, SeqEqual
<1> QED
  BY <1>11 DEF x, y, s, w, n, Q

\* The first command's answer is the first; the rest are those after its execution.
LEMMA RepliesTail ==
  ASSUME NEW r \in [Addr -> Data], NEW P \in Seq(AllCommands), P # <<>>
  PROVE  Replies(r, P)
           = <<Answer(r, Head(P))>> \o Replies(Executed(r, Head(P)), Tail(P))
<1> DEFINE c == Head(P)
           t == Tail(P)
           r1 == Executed(r, c)
           n == Len(t)
           s == Replies(r1, t)
           x == Replies(r, P)
           h == <<Answer(r, c)>>
<1>1. /\ c \in AllCommands /\ c = P[1] /\ t \in Seq(AllCommands) /\ Len(P) = n + 1
      /\ \A i \in 1..n : t[i] = P[i + 1]
      /\ n \in Nat
  BY HeadTailProperties
<1>2. r1 \in [Addr -> Data] /\ Answer(r, c) \in Answers
  BY <1>1, ExecutedType
<1>3. h \in Seq(Answers) /\ Len(h) = 1 /\ h[1] = Answer(r, c)
  BY <1>2
<1>4. s \in Seq(Answers) /\ Len(s) = n /\ \A i \in 1..n : s[i] = Answer(After(r1, t, i), t[i])
  BY <1>1, <1>2, RepliesType DEF Replies
<1>5. /\ x \in Seq(Answers) /\ Len(x) = n + 1
      /\ \A i \in 1..(n + 1) : x[i] = Answer(After(r, P, i), P[i])
  BY <1>1, RepliesType DEF Replies
<1>6. \A i \in 1..n : After(r1, t, i) = After(r, P, i + 1)
  <2> SUFFICES ASSUME NEW i \in 1..n PROVE After(r1, t, i) = After(r, P, i + 1)
    OBVIOUS
  <2>1. i \in 1..Len(P)
    BY <1>1
  <2> QED
    BY <2>1, AfterTail
<1>7. x[1] = Answer(r, c)
  BY <1>1, <1>5, AfterFirst
<1> DEFINE y == h \o s
<1> HIDE DEF c, t, r1, n, s, x, h
<1>8. /\ y \in Seq(Answers) /\ Len(y) = Len(h) + Len(s)
      /\ \A i \in 1..(Len(h) + Len(s)) : y[i] = IF i <= Len(h) THEN h[i] ELSE s[i - Len(h)]
  <2>1. h \in Seq(Answers) /\ s \in Seq(Answers)
    BY <1>3, <1>4
  <2> QED
    BY <2>1, ConcatProperties
<1> HIDE DEF y
<1>9. \A i \in 1..n : x[i + 1] = s[i]
  <2> SUFFICES ASSUME NEW i \in 1..n PROVE x[i + 1] = s[i]
    OBVIOUS
  <2>1. i + 1 \in 1..(n + 1)
    BY <1>1
  <2> QED
    BY <1>1, <1>4, <1>5, <1>6, <2>1
<1>10. \A i \in 1..(n + 1) : x[i] = y[i]
  <2> SUFFICES ASSUME NEW i \in 1..(n + 1) PROVE x[i] = y[i]
    OBVIOUS
  <2>1. CASE i = 1
    BY <1>1, <1>3, <1>4, <1>7, <1>8, <2>1
  <2>2. CASE i # 1
    <3>1. i - 1 \in 1..n /\ (i - 1) + 1 = i /\ ~(i <= 1) /\ i \in 1..(1 + n)
      BY <1>1, <2>2
    <3>2. x[i] = s[i - 1]
      BY <1>9, <3>1
    <3>3. y[i] = s[i - 1]
      BY <1>3, <1>4, <1>8, <3>1
    <3> QED
      BY <3>2, <3>3
  <2> QED
    BY <2>1, <2>2
<1>11. x = y
  BY <1>1, <1>3, <1>4, <1>5, <1>8, <1>10, SeqEqual
<1> QED
  BY <1>11 DEF x, y, h, s, n, r1, t, c

\* The answers under way, by the operator the lemmas are about.
LEMMA UnderWayIs ==
  UnderWay = rsp_fifo \o (IF e1_vld THEN <<ram_dout>> ELSE <<>>)
               \o [i \in 1..Len(slow) |-> "flash"] \o Replies(ram, Pending)
BY FoundIsAfter DEF UnderWay, Replies

(***************************************************************************)
(* The queue of answers.                                                    *)
(***************************************************************************)
\* Concatenation under a name, which the provers leave unexpanded.
Cat(a, b) == a \o b

\* Concatenation of answers: type, grouping, and the empty queue.
LEMMA CatAnswers ==
  \A a, b, c \in Seq(Answers) : /\ Cat(a, b) \in Seq(Answers)
                                /\ Cat(Cat(a, b), c) = Cat(a, Cat(b, c))
                                /\ Cat(<<>>, a) = a /\ Cat(a, <<>>) = a
<1> TAKE a, b, c \in Seq(Answers)
<1>1. (a \o b) \o c = a \o (b \o c)
  BY ConcatAssociative
<1>2. a \o b \in Seq(Answers)
  BY ConcatProperties
<1>3. <<>> \o a = a /\ a \o <<>> = a
  BY ConcatEmptySeq
<1> QED
  BY <1>1, <1>2, <1>3 DEF Cat

\* What joins the last of several queues joins them all,
LEMMA JoinsLast ==
  ASSUME NEW S, NEW a \in Seq(S), NEW b \in Seq(S), NEW w \in S
  PROVE  a \o Append(b, w) = Append(a \o b, w)
<1> DEFINE e == <<w>>
           ab == a \o b
<1>1. e \in Seq(S) /\ ab \in Seq(S)
  BY ConcatProperties
<1>2. Append(b, w) = b \o e /\ Append(ab, w) = ab \o e
  BY <1>1, AppendIsConcat
<1> HIDE DEF e
<1>3. (a \o b) \o e = a \o (b \o e)
  BY <1>1, ConcatAssociative
<1> QED
  BY <1>2, <1>3

\* and what leaves the first leaves them all.
LEMMA LeavesFirst ==
  ASSUME NEW S, NEW a \in Seq(S), NEW b \in Seq(S), a # <<>>
  PROVE  Tail(a) \o b = Tail(a \o b) /\ a \o b # <<>> /\ Tail(a) \in Seq(S)
<1> DEFINE h == Head(a)
           t == Tail(a)
           e == <<h>>
<1>1. h \in S /\ t \in Seq(S) /\ <<h>> \o t = a
  BY FirstAndRest
<1>2. e \in Seq(S)
  BY <1>1
<1>3. t \o b \in Seq(S)
  BY <1>1, ConcatProperties
<1>4. <<h>> \o (t \o b) # <<>> /\ Tail(<<h>> \o (t \o b)) = t \o b
  BY <1>1, <1>3, FirstOut
<1> HIDE DEF e, t, h
<1>5. (e \o t) \o b = e \o (t \o b)
  BY <1>1, <1>2, ConcatAssociative
<1>6. a \o b = <<h>> \o (t \o b)
  BY <1>1, <1>5 DEF e
<1> QED
  BY <1>1, <1>4, <1>6 DEF t

\* Queues of no word and of one.
LEMMA Single ==
  ASSUME NEW S
  PROVE  <<>> \in Seq(S) /\ Len(<<>>) = 0 /\ \A a \in S : <<a>> \in Seq(S) /\ Len(<<a>>) = 1
OBVIOUS

\* A word that is there or not, and the answers of the slow device's commands.
Word(on, w) == IF on THEN <<w>> ELSE <<>>
Flashes(dev) == [i \in 1..Len(dev) |-> "flash"]

\* The devices hold at most one answer.
LEMMA DeviceWords ==
  ASSUME NEW vld \in BOOLEAN, NEW dout, vld => dout \in Answers,
         NEW dev, dev = <<>> \/ (~vld /\ \E c \in AllCommands : dev = <<c>>)
  PROVE  /\ Word(vld, dout) \in Seq(Answers) /\ Flashes(dev) \in Seq(Answers)
         /\ Cat(Word(vld, dout), Flashes(dev)) \in Seq(Answers)
         /\ Len(Cat(Word(vld, dout), Flashes(dev))) <= 1
<1> DEFINE x == Word(vld, dout)
           y == Flashes(dev)
<1>1. x \in Seq(Answers) /\ Len(x) = IF vld THEN 1 ELSE 0
  BY Single DEF Word
<1>2. y \in Seq(Answers) /\ Len(y) <= IF vld THEN 0 ELSE 1
  <2>1. CASE dev = <<>>
    <3>1. y = <<>>
      BY <2>1 DEF Flashes
    <3> QED
      BY <3>1, Single
  <2>2. CASE ~vld /\ \E c \in AllCommands : dev = <<c>>
    <3>1. y = <<"flash">>
      BY <2>2 DEF Flashes
    <3>2. "flash" \in Answers
      BY DEF Answers
    <3>3. <<"flash">> \in Seq(Answers) /\ Len(<<"flash">>) = 1
      BY <3>2, Single
    <3>4. ~vld
      BY <2>2
    <3> QED
      BY <3>1, <3>3, <3>4
  <2> QED
    BY <2>1, <2>2
<1> HIDE DEF x, y
<1>3. x \o y \in Seq(Answers) /\ Len(x \o y) = Len(x) + Len(y)
  <2>1. x \in Seq(Answers) /\ y \in Seq(Answers)
    BY <1>1, <1>2
  <2> QED
    BY <2>1, ConcatProperties
<1>4. Cat(x, y) \in Seq(Answers) /\ Len(Cat(x, y)) <= 1
  <2>1. Len(x) + Len(y) <= 1
    <3>1. Len(y) \in Nat
      BY <1>2
    <3> QED
      BY <1>1, <1>2, <3>1
  <2> QED
    BY <1>3, <2>1 DEF Cat
<1> QED
  BY <1>1, <1>2, <1>4 DEF x, y

\* What the forms of Inside have in common.
LEMMA InsideForms ==
  ASSUME Inside
  PROVE  /\ e1_vld \in BOOLEAN /\ (e1_vld => ram_dout \in Answers)
         /\ slow = <<>> \/ (~e1_vld /\ \E c \in AllCommands : slow = <<c>>)
         /\ byp_fifo = <<>> \/ \E c \in AllCommands : byp_fifo = <<c>>
<1>1. CASE Nothing
  BY <1>1 DEF Inside, Nothing
<1>2. CASE InSlow
  BY <1>2 DEF Inside, InSlow
<1>3. CASE InStage
  BY <1>3 DEF Inside, InStage
<1>4. CASE InController
  BY <1>4 DEF Inside, InController
<1> QED
  BY <1>1, <1>2, <1>3, <1>4 DEF Inside

\* The commands that wait, and how many more they are than those in the buffer.
LEMMA PendingType ==
  ASSUME Types, Inside
  PROVE  Pending \in Seq(AllCommands) /\ Len(Pending) <= Len(cmd_fifo) + 1
<1>1. CASE byp_fifo = <<>>
  BY <1>1, PendingIs DEF Types
<1>2. CASE \E c \in AllCommands : byp_fifo = <<c>>
  BY <1>2, PendingIs DEF Types
<1> QED
  BY <1>1, <1>2, InsideForms

\* The answers under way as three queues: given back by the devices, held in them, and
\* those to the commands that wait.
LEMMA UnderWayParts ==
  ASSUME Types, Inside
  PROVE  /\ UnderWay = Cat(rsp_fifo, Cat(held, Replies(ram, Pending)))
         /\ held \in Seq(Answers) /\ Len(held) <= 1
<1> DEFINE x == Word(e1_vld, ram_dout)
           y == Flashes(slow)
           z == Replies(ram, Pending)
<1>1. z \in Seq(Answers) /\ rsp_fifo \in Seq(Answers)
  BY PendingType, RepliesType DEF Types
<1>2. x \in Seq(Answers) /\ y \in Seq(Answers) /\ Cat(x, y) \in Seq(Answers)
      /\ Len(Cat(x, y)) <= 1
  BY InsideForms, DeviceWords
<1>3. held = Cat(x, y)
  BY DEF held, Cat, Word, Flashes
<1>4. UnderWay = Cat(Cat(Cat(rsp_fifo, x), y), z)
  BY UnderWayIs DEF Cat, Word, Flashes
<1> HIDE DEF x, y, z
<1>5. UnderWay = Cat(rsp_fifo, Cat(Cat(x, y), z))
  BY <1>1, <1>2, <1>4, CatAnswers
<1> QED
  BY <1>2, <1>3, <1>5 DEF z

\* The memory as it will be after all that was taken.
memory == After(ram, Pending, Len(Pending) + 1)

\* Pending commands and the memory they leave, over an edge.
LEMMA PendingMoves ==
  ASSUME Types, Inside, NEW offers \in Offers, NEW ready, NEW slowAnswers \in BOOLEAN,
         Clock(offers, ready, slowAnswers),
         NEW exec \in BOOLEAN, Flow(exec, slowAnswers)
  PROVE  LET rest == IF exec THEN Tail(Pending) ELSE Pending IN
         /\ kept \in Seq(AllCommands) /\ Len(kept) <= Len(cmd_fifo)
         /\ cmd_fifo' = Pushed(kept, cmdTaken(offers), Selected(offers))
         /\ rest \in Seq(AllCommands) /\ ram' \in [Addr -> Data]
         /\ Pending' = Pushed(rest, cmdTaken(offers), Selected(offers))
         /\ After(ram', rest, Len(rest) + 1) = memory
         /\ memory \in [Addr -> Data]
<1> DEFINE rest == IF exec THEN Tail(Pending) ELSE Pending
<1>1. Pending \in Seq(AllCommands) /\ cmd_fifo \in Seq(AllCommands)
      /\ ram \in [Addr -> Data]
  BY PendingType DEF Types
<1>2. exec => Pending # <<>> /\ Head(Pending) \in AllCommands /\ Tail(Pending) \in Seq(AllCommands)
              /\ Len(Tail(Pending)) = Len(Pending) - 1
  BY <1>1, FirstAndRest DEF Flow
<1>3. kept \in Seq(AllCommands) /\ Len(kept) <= Len(cmd_fifo)
  BY <1>1, FirstAndRest DEF kept, Flow
<1>4. cmd_fifo' = Pushed(kept, cmdTaken(offers), Selected(offers))
  BY DEF Clock, Buffer, Flow, kept, Popped
<1>5. rest \in Seq(AllCommands)
  BY <1>1, <1>2
<1>6. ram' \in [Addr -> Data]
  BY <1>1, <1>2, ExecutedType DEF Flow
<1>7. byp_fifo' \in Seq(AllCommands)
  <2>1. byp_fifo' = <<>> \/ \E c \in AllCommands : byp_fifo' = <<c>>
    <3>1. Inside'
      BY DEF Flow
    <3>2. CASE Nothing'
      BY <3>2 DEF Nothing
    <3>3. CASE InSlow'
      BY <3>3 DEF InSlow
    <3>4. CASE InStage'
      BY <3>4 DEF InStage
    <3>5. CASE InController'
      BY <3>5 DEF InController
    <3> QED
      BY <3>1, <3>2, <3>3, <3>4, <3>5 DEF Inside
  <2> QED
    BY <2>1, Single
<1>8. Pending' = byp_fifo' \o cmd_fifo'
  BY DEF Pending
<1>9. byp_fifo' \o kept = rest
  BY DEF Flow
<1>10. Pending' = Pushed(rest, cmdTaken(offers), Selected(offers))
  <2>1. CASE cmdTaken(offers)
    <3>1. Selected(offers) \in AllCommands
      BY <2>1, TakenIsCommand
    <3>2. byp_fifo' \o Append(kept, Selected(offers)) = Append(byp_fifo' \o kept, Selected(offers))
      BY <1>3, <1>7, <3>1, JoinsLast
    <3> QED
      BY <1>4, <1>8, <1>9, <2>1, <3>2 DEF Pushed
  <2>2. CASE ~cmdTaken(offers)
    BY <1>4, <1>8, <1>9, <2>2 DEF Pushed
  <2> QED
    BY <2>1, <2>2
<1>11. After(ram', rest, Len(rest) + 1) = memory
  <2>1. CASE exec
    <3>1. Len(Pending) \in 1..Len(Pending) /\ Len(rest) + 1 = Len(Pending)
      BY <1>1, <1>2, <2>1
    <3>2. After(Executed(ram, Head(Pending)), Tail(Pending), Len(Pending))
            = After(ram, Pending, Len(Pending) + 1)
      BY <1>1, <1>2, <2>1, <3>1, AfterTail
    <3>3. ram' = Executed(ram, Head(Pending)) /\ rest = Tail(Pending)
      BY <2>1 DEF Flow
    <3> QED
      BY <3>1, <3>2, <3>3 DEF memory
  <2>2. CASE ~exec
    BY <2>2 DEF memory, Flow
  <2> QED
    BY <2>1, <2>2
<1>12. memory \in [Addr -> Data]
  <2>1. Len(Pending) + 1 \in 1..(Len(Pending) + 1)
    BY <1>1
  <2> QED
    BY <1>1, <2>1, AfterType DEF memory
<1> QED
  BY <1>3, <1>4, <1>5, <1>6, <1>10, <1>11, <1>12

\* Facts about every state, to be used of the next one too.
LEMMA Parts ==
  Types /\ Inside => /\ UnderWay = Cat(rsp_fifo, Cat(held, Replies(ram, Pending)))
                     /\ held \in Seq(Answers) /\ Len(held) <= 1
                     /\ Pending \in Seq(AllCommands)
BY UnderWayParts, PendingType

\* The queues keep their types and their depths: the arbiter takes a command only
\* while the buffer has room, and the buffer an answer.
LEMMA TypesStep ==
  ASSUME Types, Inside, NEW offers \in Offers, NEW ready, NEW slowAnswers \in BOOLEAN,
         Clock(offers, ready, slowAnswers),
         NEW exec \in BOOLEAN, Flow(exec, slowAnswers)
  PROVE  Types'
<1>1. kept \in Seq(AllCommands) /\ Len(kept) <= Len(cmd_fifo)
      /\ cmd_fifo' = Pushed(kept, cmdTaken(offers), Selected(offers))
      /\ ram' \in [Addr -> Data]
  BY PendingMoves
<1>2. cmd_fifo' \in Seq(AllCommands) /\ Len(cmd_fifo') <= DP
  <2>1. CASE cmdTaken(offers)
    <3>1. Selected(offers) \in AllCommands /\ Len(cmd_fifo) < DP
      BY <2>1, TakenIsCommand DEF cmdTaken, cmdReady
    <3>2. cmd_fifo' = Append(kept, Selected(offers))
      BY <1>1, <2>1 DEF Pushed
    <3>3. cmd_fifo' \in Seq(AllCommands) /\ Len(cmd_fifo') = Len(kept) + 1
      BY <1>1, <3>1, <3>2, AppendProperties
    <3> QED
      BY <1>1, <3>1, <3>3, PathAssumption DEF Types
  <2>2. CASE ~cmdTaken(offers)
    BY <1>1, <2>2, PathAssumption DEF Pushed, Types
  <2> QED
    BY <2>1, <2>2
<1>3. rsp_fifo' \in Seq(Answers) /\ Len(rsp_fifo') <= DP
  <2> DEFINE left == IF rspGiven(ready) THEN Tail(rsp_fifo) ELSE rsp_fifo
  <2>1. left \in Seq(Answers) /\ Len(left) <= Len(rsp_fifo)
    BY FirstAndRest DEF Types, rspGiven
  <2>2. rsp_fifo' = Pushed(left, returned(slowAnswers), rsp_data)
    BY DEF Clock, Buffer
  <2> HIDE DEF left
  <2>3. CASE returned(slowAnswers)
    <3>1. rsp_data \in Answers /\ Len(rsp_fifo) < DP
      BY <2>3 DEF Flow
    <3>2. rsp_fifo' = Append(left, rsp_data)
      BY <2>2, <2>3 DEF Pushed
    <3>3. rsp_fifo' \in Seq(Answers) /\ Len(rsp_fifo') = Len(left) + 1
      BY <2>1, <3>1, <3>2, AppendProperties
    <3> QED
      BY <2>1, <3>1, <3>3, PathAssumption DEF Types
  <2>4. CASE ~returned(slowAnswers)
    BY <2>1, <2>2, <2>4, PathAssumption DEF Pushed, Types
  <2> QED
    BY <2>3, <2>4
<1>4. arbt_fifo' \in Seq(Ports)
  <2> DEFINE left == IF rspGiven(ready) THEN Tail(arbt_fifo) ELSE arbt_fifo
  <2>1. left \in Seq(Ports)
    BY FirstAndRest DEF Types, rspGiven
  <2>2. arbt_fifo' = Pushed(left, cmdTaken(offers), Winner(offers))
    BY DEF Clock, Arbiter
  <2> HIDE DEF left
  <2>3. CASE cmdTaken(offers)
    <3>1. Winner(offers) \in Ports
      BY <2>3, TakenIsCommand
    <3> QED
      BY <2>1, <2>2, <2>3, <3>1, AppendProperties DEF Pushed
  <2>4. CASE ~cmdTaken(offers)
    BY <2>1, <2>2, <2>4 DEF Pushed
  <2> QED
    BY <2>3, <2>4
<1> QED
  BY <1>1, <1>2, <1>3, <1>4 DEF Types

\* The same facts, of the next state.
LEMMA NextParts ==
  Types' /\ Inside' => /\ UnderWay' = Cat(rsp_fifo', Cat(held', Replies(ram', Pending')))
                       /\ held' \in Seq(Answers) /\ Len(held') <= 1
                       /\ Pending' \in Seq(AllCommands)
<1>1. (Types /\ Inside => /\ UnderWay = Cat(rsp_fifo, Cat(held, Replies(ram, Pending)))
                     /\ held \in Seq(Answers) /\ Len(held) <= 1
                     /\ Pending \in Seq(AllCommands))'
  BY Parts, PTL
<1> QED
  BY <1>1 DEF Cat, Replies, After, WritesBefore, Last, Answer

\* Over an edge, the answers under way lose the one that is given and gain that of
\* the command that is taken, which finds the memory as all before it leave it.
LEMMA AnswersMove ==
  ASSUME Types, Inside, NEW offers \in Offers, NEW ready, NEW slowAnswers \in BOOLEAN,
         Clock(offers, ready, slowAnswers),
         NEW exec \in BOOLEAN, Flow(exec, slowAnswers)
  PROVE  /\ UnderWay \in Seq(Answers) /\ (rspGiven(ready) => UnderWay # <<>>)
         /\ UnderWay' = Pushed(IF rspGiven(ready) THEN Tail(UnderWay) ELSE UnderWay,
                               cmdTaken(offers), Answer(memory, Selected(offers)))
<1> DEFINE rest == IF exec THEN Tail(Pending) ELSE Pending
           left == IF rspGiven(ready) THEN Tail(rsp_fifo) ELSE rsp_fifo
           D == IF returned(slowAnswers) THEN <<rsp_data>> ELSE <<>>
           E == IF exec THEN <<Answer(ram, Head(Pending))>> ELSE <<>>
           F == Replies(ram', rest)
           G == Replies(ram, Pending)
           after == IF rspGiven(ready) THEN Tail(UnderWay) ELSE UnderWay
           new == Answer(memory, Selected(offers))
<1>1. /\ UnderWay = Cat(rsp_fifo, Cat(held, G)) /\ held \in Seq(Answers)
      /\ Pending \in Seq(AllCommands) /\ rsp_fifo \in Seq(Answers) /\ ram \in [Addr -> Data]
  BY Parts DEF Types
<1>2. G \in Seq(Answers)
  BY <1>1, RepliesType
<1>3. /\ rest \in Seq(AllCommands) /\ ram' \in [Addr -> Data] /\ memory \in [Addr -> Data]
      /\ Pending' = Pushed(rest, cmdTaken(offers), Selected(offers))
      /\ After(ram', rest, Len(rest) + 1) = memory
  BY PendingMoves
<1>4. F \in Seq(Answers)
  BY <1>3, RepliesType
<1>5. UnderWay' = Cat(rsp_fifo', Cat(held', Replies(ram', Pending'))) /\ held' \in Seq(Answers)
  BY TypesStep, NextParts DEF Flow
<1>6. /\ D \in Seq(Answers) /\ Cat(D, held') = Cat(held, E)
      /\ rsp_fifo' = Cat(left, D)
  <2>1. returned(slowAnswers) => rsp_data \in Answers
    BY DEF Flow
  <2>2. D \in Seq(Answers)
    BY <2>1, Single
  <2>3. D \o held' = held \o E
    BY DEF Flow
  <2>4. left \in Seq(Answers)
    BY <1>1, FirstAndRest DEF rspGiven
  <2>5. rsp_fifo' = Pushed(left, returned(slowAnswers), rsp_data)
    BY DEF Clock, Buffer
  <2> HIDE DEF left, E
  <2>6. CASE returned(slowAnswers)
    <3>1. Append(left, rsp_data) = left \o <<rsp_data>>
      BY <2>1, <2>4, <2>6, AppendIsConcat
    <3> QED
      BY <2>2, <2>3, <2>5, <2>6, <3>1 DEF Pushed, Cat
  <2>7. CASE ~returned(slowAnswers)
    <3>1. left \o <<>> = left
      BY <2>4, ConcatEmptySeq
    <3> QED
      BY <2>2, <2>3, <2>5, <2>7, <3>1 DEF Pushed, Cat
  <2> QED
    BY <2>6, <2>7
<1>7. E \in Seq(Answers) /\ G = Cat(E, F)
  <2>1. CASE exec
    <3>1. Pending # <<>> /\ ram' = Executed(ram, Head(Pending)) /\ Head(Pending) \in AllCommands
      BY <1>1, <2>1, FirstAndRest DEF Flow
    <3>2. Answer(ram, Head(Pending)) \in Answers
      BY <1>1, <3>1, ExecutedType
    <3>3. G = <<Answer(ram, Head(Pending))>> \o Replies(Executed(ram, Head(Pending)), Tail(Pending))
      BY <1>1, <3>1, RepliesTail
    <3> QED
      BY <2>1, <3>1, <3>2, <3>3, Single DEF Cat
  <2>2. CASE ~exec
    <3>1. ram' = ram
      BY <2>2 DEF Flow
    <3> QED
      BY <1>2, <2>2, <3>1, CatAnswers, Single
  <2> QED
    BY <2>1, <2>2
<1>8. left \in Seq(Answers)
  BY <1>1, FirstAndRest DEF rspGiven
<1>9. rspGiven(ready) => rsp_fifo # <<>>
  BY DEF rspGiven
<1>10. UnderWay \in Seq(Answers) /\ (rspGiven(ready) => UnderWay # <<>>)
       /\ after = Cat(left, Cat(held, G)) /\ after \in Seq(Answers)
  <2> DEFINE more == Cat(held, G)
  <2>1. more \in Seq(Answers) /\ UnderWay = Cat(rsp_fifo, more)
    BY <1>1, <1>2, CatAnswers
  <2> HIDE DEF more, left, G
  <2>2. UnderWay \in Seq(Answers)
    BY <1>1, <2>1, CatAnswers
  <2>3. CASE rspGiven(ready)
    <3>1. Tail(rsp_fifo) \o more = Tail(rsp_fifo \o more) /\ rsp_fifo \o more # <<>>
      BY <1>1, <1>9, <2>1, <2>3, LeavesFirst
    <3>2. left = Tail(rsp_fifo)
      BY <2>3 DEF left
    <3>3. UnderWay # <<>> /\ after = Cat(left, more)
      BY <2>1, <2>3, <3>1, <3>2 DEF Cat
    <3> QED
      BY <1>8, <2>1, <2>2, <3>3, CatAnswers DEF more
  <2>4. CASE ~rspGiven(ready)
    <3>1. left = rsp_fifo
      BY <2>4 DEF left
    <3> QED
      BY <2>1, <2>2, <2>4, <3>1 DEF more
  <2> QED
    BY <2>3, <2>4
<1> HIDE DEF left, D, E, F, G
<1>11. Cat(rsp_fifo', Cat(held', F)) = after
  <2>1. Cat(Cat(left, D), Cat(held', F)) = Cat(left, Cat(D, Cat(held', F)))
    <3>1. Cat(held', F) \in Seq(Answers)
      BY <1>4, <1>5, CatAnswers
    <3> QED
      BY <1>6, <1>8, <3>1, CatAnswers
  <2>2. Cat(D, Cat(held', F)) = Cat(Cat(D, held'), F)
    BY <1>4, <1>5, <1>6, CatAnswers
  <2>3. Cat(Cat(held, E), F) = Cat(held, Cat(E, F))
    BY <1>1, <1>4, <1>7, CatAnswers
  <2> QED
    BY <1>6, <1>7, <1>10, <2>1, <2>2, <2>3
<1> HIDE DEF rest, after
<1>12. CASE cmdTaken(offers)
  <2>1. Selected(offers) \in AllCommands
    BY <1>12, TakenIsCommand
  <2>2. Pending' = Append(rest, Selected(offers))
    BY <1>3, <1>12 DEF Pushed
  <2>3. Replies(ram', Pending') = Append(F, new)
    BY <1>3, <2>1, <2>2, RepliesAppend DEF F
  <2>4. new \in Answers
    BY <1>3, <2>1, ExecutedType
  <2> HIDE DEF new
  <2>5. held' \o Append(F, new) = Append(held' \o F, new) /\ held' \o F \in Seq(Answers)
    BY <1>4, <1>5, <2>4, JoinsLast, ConcatProperties
  <2>6. rsp_fifo' \in Seq(Answers)
    BY <1>6, <1>8, CatAnswers
  <2> DEFINE hf == held' \o F
  <2>7. hf \in Seq(Answers) /\ held' \o Append(F, new) = Append(hf, new)
    BY <2>5
  <2> HIDE DEF hf
  <2>8. rsp_fifo' \o Append(hf, new) = Append(rsp_fifo' \o hf, new)
    BY <2>4, <2>6, <2>7, JoinsLast
  <2>9. UnderWay' = rsp_fifo' \o Append(hf, new)
    BY <1>5, <2>3, <2>7 DEF Cat
  <2>10. after = rsp_fifo' \o hf
    BY <1>11 DEF Cat, hf
  <2> QED
    BY <1>10, <1>12, <2>8, <2>9, <2>10 DEF Pushed, new, after
<1>13. CASE ~cmdTaken(offers)
  <2>1. Pending' = rest
    BY <1>3, <1>13 DEF Pushed
  <2> QED
    BY <1>5, <1>10, <1>11, <1>13, <2>1 DEF Pushed, F, after
<1> QED
  BY <1>10, <1>12, <1>13

(***************************************************************************)
(* The invariant holds in every state.                                      *)
(***************************************************************************)
\* What one clock edge does, as the rest of the proofs use it.
LEMMA Edge ==
  ASSUME IInv, Next
  PROVE  \E offers \in Offers, ready \in Listening, slowAnswers \in BOOLEAN, exec \in BOOLEAN :
           Clock(offers, ready, slowAnswers) /\ Flow(exec, slowAnswers)
<1>1. PICK offers \in Offers, ready \in Listening, slowAnswers \in SlowAnswers :
        Clock(offers, ready, slowAnswers)
  BY DEF Next
<1>2. slowAnswers \in BOOLEAN
  BY DEF SlowAnswers
<1>3. Devices(slowAnswers)
  BY <1>1 DEF Clock, Devices
<1>4. \E exec \in BOOLEAN : Flow(exec, slowAnswers)
  BY <1>2, <1>3, DevicesFlow DEF IInv
<1> QED
  BY <1>1, <1>2, <1>4

\* A queue that a word joins, or does not.
LEMMA PushedLength ==
  ASSUME NEW S, NEW q \in Seq(S), NEW on \in BOOLEAN, NEW w, on => w \in S
  PROVE  Pushed(q, on, w) \in Seq(S)
         /\ Len(Pushed(q, on, w)) = Len(q) + (IF on THEN 1 ELSE 0)
<1>1. CASE on
  BY <1>1, AppendProperties DEF Pushed
<1>2. CASE ~on
  BY <1>2 DEF Pushed
<1> QED
  BY <1>1, <1>2

\* The invariant holds at first: every queue is empty.
LEMMA InvInit == Init => IInv
<1> SUFFICES ASSUME Init PROVE IInv
  OBVIOUS
<1>1. /\ arbt_fifo = <<>> /\ splt_fifo = <<>> /\ cmd_fifo = <<>> /\ rsp_fifo = <<>>
      /\ byp_fifo = <<>> /\ slow = <<>> /\ e1_vld = FALSE /\ ram = Unwritten
  BY DEF Init
<1>2. Unwritten \in [Addr -> Data]
  BY DEF Unwritten, Data
<1>3. DP \in Nat /\ \A S : <<>> \in Seq(S) /\ Len(<<>>) = 0
  BY PathAssumption
<1>4. Types
  BY <1>1, <1>2, <1>3 DEF Types
<1>5. Inside
  BY <1>1 DEF Inside, Nothing
<1>6. Len(UnderWay) = 0
  <2>1. held = <<>>
    BY <1>1, HeldIs
  <2>2. Pending = <<>>
    BY <1>1, <1>4, PendingIs
  <2>3. Replies(ram, Pending) = <<>>
    <3>1. Replies(ram, Pending) \in Seq(Answers) /\ Len(Replies(ram, Pending)) = Len(<<>>)
      BY <1>4, <1>5, <2>2, Parts, RepliesType DEF Types
    <3> QED
      BY <3>1
  <2>4. UnderWay = Cat(<<>>, Cat(<<>>, <<>>))
    BY <1>1, <1>4, <1>5, <2>1, <2>3, Parts
  <2>5. UnderWay = <<>>
    BY <2>4, CatAnswers, Single
  <2> QED
    BY <2>5
<1> QED
  BY <1>1, <1>4, <1>5, <1>6 DEF IInv

\* It is kept: an asker and an answer come and go together.
LEMMA InvStep == IInv /\ [Next]_vars => IInv'
<1> SUFFICES ASSUME IInv, [Next]_vars PROVE IInv'
  OBVIOUS
<1>1. CASE Next
  <2>1. PICK offers \in Offers, ready \in Listening, slowAnswers \in BOOLEAN, exec \in BOOLEAN :
          Clock(offers, ready, slowAnswers) /\ Flow(exec, slowAnswers)
    BY <1>1, Edge
  <2>2. Types'
    BY <2>1, TypesStep DEF IInv
  <2>3. Inside'
    BY <2>1 DEF Flow
  <2>4. /\ UnderWay \in Seq(Answers) /\ (rspGiven(ready) => UnderWay # <<>>)
        /\ UnderWay' = Pushed(IF rspGiven(ready) THEN Tail(UnderWay) ELSE UnderWay,
                              cmdTaken(offers), Answer(memory, Selected(offers)))
    BY <2>1, AnswersMove DEF IInv
  <2>5. arbt_fifo' = Pushed(IF rspGiven(ready) THEN Tail(arbt_fifo) ELSE arbt_fifo,
                            cmdTaken(offers), Winner(offers))
    BY <2>1 DEF Clock, Arbiter
  <2>6. cmdTaken(offers) => /\ Winner(offers) \in Ports
                            /\ Answer(memory, Selected(offers)) \in Answers
    <3>1. memory \in [Addr -> Data]
      BY <2>1, PendingMoves DEF IInv
    <3> QED
      BY <3>1, TakenIsCommand, ExecutedType
  <2> DEFINE asked == IF rspGiven(ready) THEN Tail(arbt_fifo) ELSE arbt_fifo
             answers == IF rspGiven(ready) THEN Tail(UnderWay) ELSE UnderWay
  <2>7. asked \in Seq(Ports) /\ answers \in Seq(Answers) /\ Len(asked) = Len(answers)
    <3>1. rspGiven(ready) => arbt_fifo # <<>>
      BY DEF rspGiven
    <3>2. arbt_fifo \in Seq(Ports) /\ Len(arbt_fifo) = Len(UnderWay)
      BY DEF IInv, Types
    <3> QED
      BY <2>4, <3>1, <3>2, FirstAndRest
  <2>8. cmdTaken(offers) \in BOOLEAN
    BY DEF cmdTaken, cmdReady
  <2> HIDE DEF asked, answers
  <2>9. Len(arbt_fifo') = Len(asked) + (IF cmdTaken(offers) THEN 1 ELSE 0)
    <3>1. arbt_fifo' = Pushed(asked, cmdTaken(offers), Winner(offers))
      BY <2>5 DEF asked
    <3> QED
      BY <2>6, <2>7, <2>8, <3>1, PushedLength
  <2>10. Len(UnderWay') = Len(answers) + (IF cmdTaken(offers) THEN 1 ELSE 0)
    <3>1. UnderWay' = Pushed(answers, cmdTaken(offers), Answer(memory, Selected(offers)))
      BY <2>4 DEF answers
    <3> QED
      BY <2>6, <2>7, <2>8, <3>1, PushedLength
  <2> QED
    BY <2>2, <2>3, <2>7, <2>9, <2>10 DEF IInv
<1>2. CASE UNCHANGED vars
  <2>1. UNCHANGED path
    BY <1>2 DEF vars
  <2>2. Types'
    BY <2>1 DEF IInv, Types, path
  <2>3. Inside'
    BY <2>1 DEF IInv, Inside, Nothing, InSlow, InStage, InController, path
  <2>4. Pending' = Pending
    BY <2>1 DEF path, Pending
  <2>5. UnderWay' = UnderWay
    BY <2>1, <2>4 DEF path, UnderWay, Found
  <2> QED
    BY <2>1, <2>2, <2>3, <2>5 DEF IInv, path
<1> QED
  BY <1>1, <1>2

\* The queues fit together in every reachable state: types and depths, what is between
\* splitter and devices, and an asker for each answer under way.
THEOREM PathInvariant == Spec => []IInv
BY InvInit, InvStep, PTL DEF Spec

\* An answer under way is in the buffer, in a device, or to a command that waits.
LEMMA UnderWayLength ==
  ASSUME IInv
  PROVE  /\ Len(UnderWay) = Len(rsp_fifo) + (Len(held) + Len(Pending))
         /\ Len(held) \in Nat /\ Len(held) <= 1
         /\ Len(rsp_fifo) \in Nat /\ Len(Pending) \in Nat /\ Pending \in Seq(AllCommands)
<1>1. /\ UnderWay = Cat(rsp_fifo, Cat(held, Replies(ram, Pending)))
      /\ held \in Seq(Answers) /\ Len(held) <= 1 /\ Len(held) \in Nat
      /\ Pending \in Seq(AllCommands)
  BY Parts DEF IInv
<1>2. Replies(ram, Pending) \in Seq(Answers) /\ Len(Replies(ram, Pending)) = Len(Pending)
  BY <1>1, RepliesType DEF IInv, Types
<1> DEFINE z == Replies(ram, Pending)
           hz == held \o z
<1>3. rsp_fifo \in Seq(Answers) /\ z \in Seq(Answers)
  BY <1>2 DEF IInv, Types
<1>4. Len(UnderWay) = Len(rsp_fifo) + (Len(held) + Len(Pending))
  <2> HIDE DEF z
  <2>1. hz \in Seq(Answers) /\ Len(hz) = Len(held) + Len(z)
    BY <1>1, <1>3, ConcatProperties
  <2>2. UnderWay = rsp_fifo \o hz
    BY <1>1 DEF Cat, z
  <2> HIDE DEF hz
  <2>3. Len(rsp_fifo \o hz) = Len(rsp_fifo) + Len(hz)
    BY <1>3, <2>1, ConcatProperties
  <2>4. Len(z) = Len(Pending)
    BY <1>2 DEF z
  <2> QED
    BY <2>1, <2>2, <2>3, <2>4
<1> QED
  BY <1>1, <1>2, <1>3, <1>4

\* The arbiter's and the splitter's FIFOs never come near their eight entries
\* (e203_subsys_main.v:698, e203_subsys_mems.v:168): what the buffer, the SRAM
\* controller and the slow device hold bounds both.
THEOREM FifosBounded == Spec => []OutstandingBound
<1>1. IInv => OutstandingBound
  <2> SUFFICES ASSUME IInv PROVE OutstandingBound
    OBVIOUS
  <2>1. /\ Len(UnderWay) = Len(rsp_fifo) + (Len(held) + Len(Pending))
        /\ Len(held) \in Nat /\ Len(held) <= 1
        /\ Len(rsp_fifo) \in Nat /\ Len(Pending) \in Nat
    BY UnderWayLength
  <2>2. Len(Pending) <= Len(cmd_fifo) + 1
    BY PendingType DEF IInv
  <2>3. Len(rsp_fifo) <= DP /\ Len(cmd_fifo) <= DP /\ Len(arbt_fifo) = Len(UnderWay)
    BY DEF IInv, Types
  <2>4. Len(cmd_fifo) \in Nat /\ DP \in Nat
    BY PathAssumption DEF IInv, Types
  <2>5. Len(arbt_fifo) <= 2 * DP + 2
    BY <2>1, <2>2, <2>3, <2>4
  <2>6. Len(splt_fifo) <= 2
    <3>1. \/ splt_fifo = <<>> \/ splt_fifo = <<"slow">>
          \/ splt_fifo = <<"sram">> \/ splt_fifo = <<"sram", "sram">>
      BY DEF IInv, Inside, Nothing, InSlow, InStage, InController
    <3>2. CASE splt_fifo = <<>>
      BY <3>2
    <3>3. CASE splt_fifo = <<"slow">>
      BY <3>3
    <3>4. CASE splt_fifo = <<"sram">>
      BY <3>4
    <3>5. CASE splt_fifo = <<"sram", "sram">>
      BY <3>5
    <3> QED
      BY <3>1, <3>2, <3>3, <3>4, <3>5
  <2> QED
    BY <2>3, <2>5, <2>6 DEF OutstandingBound
<1> QED
  BY <1>1, PathInvariant, PTL

(***************************************************************************)
(* While nothing disturbs it, the path takes a command in every clock.       *)
(***************************************************************************)
\* Four commands' worth of entries in the arbiter and the splitter; the code has eight.
RoomForFour == OUTS >= 4

\* A path that only the SRAM is asked on, and whose answers are taken at once, holds
\* at most one command in the buffer, one in the SRAM's stage and one answer.
Calm == /\ Len(cmd_fifo) <= 1 /\ Len(rsp_fifo) <= 1 /\ byp_fifo = <<>> /\ slow = <<>>
        /\ (~e1_vld /\ splt_fifo = <<>>) \/ (e1_vld /\ splt_fifo = <<"sram">>)

\* When nobody waits for an answer, nothing is in the path.
LEMMA EmptyIsCalm ==
  ASSUME IInv, arbt_fifo = <<>>
  PROVE  Calm /\ cmd_fifo = <<>> /\ rsp_fifo = <<>>
<1>1. /\ Len(UnderWay) = Len(rsp_fifo) + (Len(held) + Len(Pending))
      /\ Len(held) \in Nat /\ Len(rsp_fifo) \in Nat /\ Len(Pending) \in Nat
      /\ Pending \in Seq(AllCommands)
  BY UnderWayLength
<1>2. Len(UnderWay) = 0
  BY DEF IInv
<1>3. Len(rsp_fifo) = 0 /\ Len(held) = 0 /\ Len(Pending) = 0
  <2>1. \A r, h, p \in Nat : r + (h + p) = 0 => r = 0 /\ h = 0 /\ p = 0
    OBVIOUS
  <2>2. Len(rsp_fifo) + (Len(held) + Len(Pending)) = 0
    BY <1>1, <1>2
  <2> QED
    BY <1>1, <2>1, <2>2
<1>4. rsp_fifo = <<>> /\ Pending = <<>>
  BY <1>1, <1>3 DEF IInv, Types
<1>5. Nothing
  <2>1. ASSUME InSlow PROVE FALSE
    <3>1. PICK c : slow = <<c>>
      BY <2>1 DEF InSlow
    <3>2. held = <<"flash">>
      BY <2>1, <3>1, HeldIs DEF InSlow
    <3> QED
      BY <1>3, <3>2
  <2>2. ASSUME e1_vld, slow = <<>> PROVE FALSE
    <3>1. held = <<ram_dout>>
      BY <2>2, HeldIs
    <3> QED
      BY <1>3, <3>1
  <2> QED
    BY <2>1, <2>2 DEF IInv, Inside, InStage, InController
<1>6. cmd_fifo = <<>>
  BY <1>4, <1>5, PendingIs DEF IInv, Nothing
<1> QED
  BY <1>4, <1>5, <1>6 DEF Calm, Nothing

\* An undisturbed path stays calm: the SRAM takes the command in the buffer, the asker
\* its answer.
LEMMA CalmStep ==
  ASSUME RoomForFour, IInv, Next, Calm, disturbed' = FALSE
  PROVE  Calm'
<1>1. PICK offers \in Offers, ready \in Listening, slowAnswers \in BOOLEAN, exec \in BOOLEAN :
        Clock(offers, ready, slowAnswers) /\ Flow(exec, slowAnswers)
  BY Edge
<1>2. /\ cmd_fifo # <<>> => Branch = "sram"
      /\ rsp_fifo # <<>> => Asker \in ready
  BY <1>1 DEF Clock, Disturbed
<1>3. /\ cmd_fifo \in Seq(AllCommands) /\ Len(cmd_fifo) <= 1
      /\ rsp_fifo \in Seq(Answers) /\ Len(rsp_fifo) <= 1
      /\ byp_fifo = <<>> /\ slow = <<>> /\ DP \in Nat /\ DP > 1 /\ OUTS \in Nat /\ OUTS >= 4
  BY PathAssumption DEF IInv, Types, Calm, RoomForFour
<1>4. rsp_fifo # <<>> => rspGiven(ready)
  <2>1. arbt_fifo = <<>> => rsp_fifo = <<>>
    BY EmptyIsCalm
  <2> QED
    BY <1>2, <2>1 DEF rspGiven
<1>5. /\ Branch \in {"sram", "deft"} /\ (cmd_fifo = <<>> => Branch = "deft")
      /\ ~forwarded("slow") /\ ~cmd_valid("deft")
  BY <1>2 DEF Branch, forwarded, cmd_valid
<1>6. splt_fifo = <<"sram">> => Len(splt_fifo) = 1 /\ Head(splt_fifo) = "sram" /\ splt_fifo # <<>>
  OBVIOUS
<1>7. Len(splt_fifo) < OUTS /\ (splt_fifo # <<>> => Head(splt_fifo) = "sram")
  <2>1. CASE splt_fifo = <<>>
    BY <1>3, <2>1
  <2>2. CASE splt_fifo = <<"sram">>
    BY <1>3, <1>6, <2>2
  <2> QED
    BY <2>1, <2>2 DEF Calm
<1>8. cmd_fifo # <<>> => forwarded(Branch) /\ forwarded("sram") /\ cmd_valid("sram")
  BY <1>2, <1>3, <1>7 DEF forwarded, cmd_valid, cmd_diff_branch, cmd_ready
<1>9. e1_rdy
  BY <1>3, <1>6 DEF Calm, e1_rdy, rsp_ready, rsp_branch
<1>10. Len(cmd_fifo') <= 1
  <2>1. kept = <<>>
    BY <1>3, <1>8 DEF kept, forwarded, cmd_valid
  <2>2. cmd_fifo' = Pushed(kept, cmdTaken(offers), Selected(offers))
    BY <1>1, PendingMoves DEF IInv
  <2>3. \A w : Append(<<>>, w) = <<w>> /\ Len(<<w>>) = 1
    OBVIOUS
  <2>4. CASE cmdTaken(offers)
    BY <2>1, <2>2, <2>3, <2>4 DEF Pushed
  <2>5. CASE ~cmdTaken(offers)
    BY <2>1, <2>2, <2>5 DEF Pushed
  <2> QED
    BY <2>4, <2>5
<1>11. Len(rsp_fifo') <= 1
  <2>1. (IF rspGiven(ready) THEN Tail(rsp_fifo) ELSE rsp_fifo) = <<>>
    BY <1>3, <1>4 DEF rspGiven
  <2>2. rsp_fifo' = Pushed(<<>>, returned(slowAnswers), rsp_data)
    BY <1>1, <2>1 DEF Clock, Buffer
  <2>3. \A w : Append(<<>>, w) = <<w>> /\ Len(<<w>>) = 1
    OBVIOUS
  <2>4. CASE returned(slowAnswers)
    BY <2>2, <2>3, <2>4 DEF Pushed
  <2>5. CASE ~returned(slowAnswers)
    BY <2>2, <2>5 DEF Pushed
  <2> QED
    BY <2>4, <2>5
<1>12. byp_fifo' = <<>>
  BY <1>1, <1>3, <1>9 DEF Clock, SramCtrl
<1>13. slow' = <<>>
  BY <1>1, <1>3, <1>5 DEF Clock, SlowDevice
<1>14. (~e1_vld' /\ splt_fifo' = <<>>) \/ (e1_vld' /\ splt_fifo' = <<"sram">>)
  <2>1. Inside'
    BY <1>1 DEF Flow
  <2>2. ~InSlow'
    BY <1>13 DEF InSlow
  <2>3. ~InController'
    BY <1>12 DEF InController
  <2> QED
    BY <2>1, <2>2, <2>3 DEF Inside, Nothing, InStage
<1> QED
  BY <1>10, <1>11, <1>12, <1>13, <1>14 DEF Calm

\* The path refuses the accelerator, which does not keep a command up
\* (icb_master.v:138), only after the processor kept an answer waiting or asked a
\* branch other than the SRAM.
THEOREM NeverRefusesUndisturbed == ASSUME RoomForFour PROVE Spec => []RefusesOnlyWhenDisturbed
<1>1. Init => Calm
  BY DEF Init, Calm
<1>2. IInv /\ (disturbed \/ Calm) /\ [Next]_vars => (disturbed \/ Calm)'
  <2> SUFFICES ASSUME IInv, disturbed \/ Calm, [Next]_vars, ~disturbed'
               PROVE  Calm'
    OBVIOUS
  <2>1. CASE Next
    <3>1. PICK offers \in Offers, ready \in Listening, slowAnswers \in BOOLEAN :
            Clock(offers, ready, slowAnswers)
      BY <2>1, Edge
    <3>2. disturbed' \in BOOLEAN /\ (disturbed /\ arbt_fifo # <<>> => disturbed')
      BY <3>1 DEF Clock, Disturbed
    <3>3. Calm
      BY <3>2, EmptyIsCalm
    <3> QED
      BY <2>1, <3>2, <3>3, CalmStep
  <2>2. CASE UNCHANGED vars
    BY <2>2 DEF vars, path, Calm
  <2> QED
    BY <2>1, <2>2
<1>3. IInv /\ (disturbed \/ Calm) => RefusesOnlyWhenDisturbed
  <2> SUFFICES ASSUME IInv, Calm PROVE cmdReady
    BY DEF RefusesOnlyWhenDisturbed
  <2>1. /\ Len(UnderWay) = Len(rsp_fifo) + (Len(held) + Len(Pending))
        /\ Len(held) \in Nat /\ Len(held) <= 1
        /\ Len(rsp_fifo) \in Nat /\ Len(Pending) \in Nat
    BY UnderWayLength
  <2>2. Pending = cmd_fifo
    BY PendingIs DEF IInv, Calm
  <2>3. Len(cmd_fifo) <= 1 /\ Len(rsp_fifo) <= 1
    BY DEF Calm
  <2>4. Len(arbt_fifo) = Len(UnderWay)
    BY DEF IInv
  <2>5. Len(arbt_fifo) <= 3
    BY <2>1, <2>2, <2>3, <2>4
  <2>6. OUTS \in Nat /\ OUTS >= 4 /\ DP \in Nat /\ DP >= 2 /\ Len(arbt_fifo) \in Nat
    BY <2>1, <2>4, PathAssumption DEF RoomForFour
  <2> QED
    BY <2>1, <2>2, <2>3, <2>5, <2>6 DEF cmdReady
<1> QED
  BY <1>1, <1>2, <1>3, PathInvariant, PTL DEF Spec

(***************************************************************************)
(* The path implements one memory with one queue of answers.                *)
(***************************************************************************)
\* Who asked, with the answer.
Zip(a, u) == [i \in 1..Len(a) |-> <<a[i], u[i]>>]

\* Askers and answers of the same number make a queue of pairs,
LEMMA ZipType ==
  ASSUME NEW a \in Seq(Ports), NEW u \in Seq(Answers), Len(a) = Len(u)
  PROVE  Zip(a, u) \in Seq(Ports \X Answers) /\ Len(Zip(a, u)) = Len(a)
<1>1. \A i \in 1..Len(a) : a[i] \in Ports /\ u[i] \in Answers
  BY ElementOfSeq
<1> QED
  BY <1>1 DEF Zip

\* whose first pair leaves when both leave,
LEMMA ZipTail ==
  ASSUME NEW a \in Seq(Ports), NEW u \in Seq(Answers), Len(a) = Len(u), a # <<>>
  PROVE  Zip(Tail(a), Tail(u)) = Tail(Zip(a, u)) /\ Zip(a, u) # <<>>
<1> DEFINE S == Ports \X Answers
           z == Zip(a, u)
           ta == Tail(a)
           tu == Tail(u)
           x == Zip(ta, tu)
           y == Tail(z)
<1>1. z \in Seq(S) /\ Len(z) = Len(a) /\ \A i \in 1..Len(a) : z[i] = <<a[i], u[i]>>
  BY ZipType DEF Zip
<1>2. Len(a) \in Nat /\ Len(a) >= 1 /\ u # <<>>
  OBVIOUS
<1>3. ta \in Seq(Ports) /\ Len(ta) = Len(a) - 1 /\ \A i \in 1..Len(ta) : ta[i] = a[i + 1]
  BY HeadTailProperties
<1>4. tu \in Seq(Answers) /\ Len(tu) = Len(u) - 1 /\ \A i \in 1..Len(tu) : tu[i] = u[i + 1]
  BY <1>2, HeadTailProperties
<1> HIDE DEF z, ta, tu
<1>5. x \in Seq(S) /\ Len(x) = Len(ta) /\ \A i \in 1..Len(ta) : x[i] = <<ta[i], tu[i]>>
  BY <1>3, <1>4, ZipType DEF Zip
<1>6. z # <<>>
  BY <1>1, <1>2
<1>7. y \in Seq(S) /\ Len(y) = Len(z) - 1 /\ \A i \in 1..Len(y) : y[i] = z[i + 1]
  BY <1>1, <1>6, HeadTailProperties
<1> HIDE DEF x, y, S
<1>8. Len(x) = Len(a) - 1 /\ Len(y) = Len(x) /\ Len(ta) = Len(x) /\ Len(tu) = Len(x)
  BY <1>1, <1>3, <1>4, <1>5, <1>7
<1>9. ASSUME NEW i \in 1..Len(x) PROVE x[i] = y[i]
  <2>1. i \in 1..Len(ta) /\ i \in 1..Len(tu) /\ i \in 1..Len(y) /\ i + 1 \in 1..Len(a)
    BY <1>2, <1>8
  <2>2. x[i] = <<ta[i], tu[i]>> /\ ta[i] = a[i + 1] /\ tu[i] = u[i + 1]
    BY <1>3, <1>4, <1>5, <2>1
  <2>3. y[i] = z[i + 1] /\ z[i + 1] = <<a[i + 1], u[i + 1]>>
    BY <1>1, <1>7, <2>1
  <2> QED
    BY <2>2, <2>3
<1>10. x \in Seq(S) /\ y \in Seq(S) /\ Len(x) = Len(y)
  BY <1>5, <1>7, <1>8
<1>11. x = y
  BY <1>9, <1>10, SeqEqual
<1> QED
  BY <1>6, <1>11 DEF x, y, z, ta, tu

\* and which a pair joins when both join.
LEMMA ZipAppend ==
  ASSUME NEW a \in Seq(Ports), NEW u \in Seq(Answers), Len(a) = Len(u),
         NEW p \in Ports, NEW w \in Answers
  PROVE  Zip(Append(a, p), Append(u, w)) = Append(Zip(a, u), <<p, w>>)
<1> DEFINE S == Ports \X Answers
           z == Zip(a, u)
           ap == Append(a, p)
           uw == Append(u, w)
           x == Zip(ap, uw)
<1>1. z \in Seq(S) /\ Len(z) = Len(a) /\ \A i \in 1..Len(a) : z[i] = <<a[i], u[i]>>
  BY ZipType DEF Zip
<1>2. Len(a) \in Nat /\ <<p, w>> \in S
  OBVIOUS
<1>3. /\ ap \in Seq(Ports) /\ Len(ap) = Len(a) + 1 /\ ap[Len(a) + 1] = p
      /\ \A i \in 1..Len(a) : ap[i] = a[i]
  BY AppendProperties
<1>4. /\ uw \in Seq(Answers) /\ Len(uw) = Len(u) + 1 /\ uw[Len(u) + 1] = w
      /\ \A i \in 1..Len(u) : uw[i] = u[i]
  BY AppendProperties
<1> DEFINE both == <<p, w>>
<1> HIDE DEF z, ap, uw, S, both
<1>5. x \in Seq(S) /\ Len(x) = Len(ap) /\ \A i \in 1..Len(ap) : x[i] = <<ap[i], uw[i]>>
  BY <1>3, <1>4, ZipType DEF Zip, S
<1> DEFINE y == Append(z, both)
<1>6. both \in S
  BY <1>2 DEF both
<1>7. /\ y \in Seq(S) /\ Len(y) = Len(z) + 1 /\ y[Len(z) + 1] = both
      /\ \A i \in 1..Len(z) : y[i] = z[i]
  BY <1>1, <1>6, AppendProperties
<1> HIDE DEF x, y
<1>8. ASSUME NEW i \in 1..Len(x) PROVE x[i] = y[i]
  <2>1. i \in 1..Len(ap) /\ x[i] = <<ap[i], uw[i]>>
    BY <1>5
  <2>2. CASE i = Len(a) + 1
    <3>1. ap[i] = p /\ uw[i] = w /\ y[i] = both
      BY <1>1, <1>3, <1>4, <1>7, <2>2
    <3> QED
      BY <2>1, <3>1 DEF both
  <2>3. CASE i # Len(a) + 1
    <3>1. i \in 1..Len(a) /\ i \in 1..Len(u) /\ i \in 1..Len(z)
      BY <1>1, <1>2, <1>3, <2>1, <2>3
    <3>2. ap[i] = a[i] /\ uw[i] = u[i] /\ y[i] = z[i] /\ z[i] = <<a[i], u[i]>>
      BY <1>1, <1>3, <1>4, <1>7, <3>1
    <3> QED
      BY <2>1, <3>2
  <2> QED
    BY <2>2, <2>3
<1>9. x \in Seq(S) /\ y \in Seq(S) /\ Len(x) = Len(y)
  BY <1>1, <1>3, <1>5, <1>7
<1>10. x = y
  BY <1>8, <1>9, SeqEqual
<1> QED
  BY <1>10 DEF x, y, z, ap, uw, both

\* The abstract memory and queue of a state.
due == Zip(arbt_fifo, UnderWay)

\* At first the abstract memory is unwritten and nothing is due.
LEMMA SharedInit == Init => Shared!Init
<1> SUFFICES ASSUME Init PROVE Shared!Init
  OBVIOUS
<1>1. Found(Len(Pending) + 1) = Unwritten
  <2>1. Pending = <<>>
    BY InvInit, PendingIs DEF Init, IInv
  <2>2. Len(Pending) + 1 = 1
    BY <2>1
  <2>3. ram \in [Addr -> Data] /\ ram = Unwritten
    BY InvInit DEF Init, IInv, Types
  <2> QED
    BY <2>2, <2>3, FoundIsAfter, AfterFirst
<1>2. [i \in 1..Len(arbt_fifo) |-> <<arbt_fifo[i], UnderWay[i]>>] = <<>>
  BY DEF Init
<1> QED
  BY <1>1, <1>2 DEF Shared!Init

\* The abstract memory is the one after all that was taken, in this state and the next.
LEMMA MemIs == Found(Len(Pending) + 1) = memory
BY FoundIsAfter DEF memory

\* The same, of the next state.
LEMMA NextMemIs == (Found(Len(Pending) + 1))' = memory'
<1>1. (Found(Len(Pending) + 1) = memory)'
  BY MemIs, PTL
<1> QED
  BY <1>1

\* Taking a command executes it on the abstract memory; nothing else changes that.
LEMMA MemoryMoves ==
  ASSUME IInv, NEW offers \in Offers, NEW ready, NEW slowAnswers \in BOOLEAN,
         Clock(offers, ready, slowAnswers),
         NEW exec \in BOOLEAN, Flow(exec, slowAnswers)
  PROVE  memory' = IF cmdTaken(offers) THEN Executed(memory, Selected(offers)) ELSE memory
<1> DEFINE rest == IF exec THEN Tail(Pending) ELSE Pending
           c == Selected(offers)
<1>1. /\ rest \in Seq(AllCommands) /\ ram' \in [Addr -> Data]
      /\ Pending' = Pushed(rest, cmdTaken(offers), c)
      /\ After(ram', rest, Len(rest) + 1) = memory
  BY PendingMoves DEF IInv
<1>2. memory' = After(ram', Pending', Len(Pending') + 1)
  BY DEF memory, After, WritesBefore, Last
<1>3. CASE cmdTaken(offers)
  <2>1. c \in AllCommands
    BY <1>3, TakenIsCommand
  <2> DEFINE r == ram'
             P == Append(rest, c)
             k == Len(rest) + 1
  <2>2. Pending' = P
    BY <1>1, <1>3 DEF Pushed
  <2> HIDE DEF rest, c
  <2>3. P \in Seq(AllCommands) /\ Len(P) = k /\ P[k] = c /\ k \in 1..Len(P)
    BY <1>1, <2>1, AppendProperties
  <2>4. r \in [Addr -> Data] /\ k \in 1..(Len(rest) + 1)
    BY <1>1
  <2>5. After(r, P, k) = memory
    BY <1>1, <2>1, <2>4, AfterAppend
  <2> HIDE DEF r, P, k
  <2>6. After(r, P, k + 1) = Executed(After(r, P, k), P[k])
    BY <2>3, <2>4, AfterNext
  <2>7. memory' = After(r, P, k + 1)
    BY <1>2, <2>2, <2>3 DEF r
  <2> QED
    BY <1>3, <2>3, <2>5, <2>6, <2>7 DEF c
<1>4. CASE ~cmdTaken(offers)
  BY <1>1, <1>2, <1>4 DEF Pushed
<1> QED
  BY <1>3, <1>4

\* What is due loses the answer that is given and gains that of the command taken.
LEMMA DueMoves ==
  ASSUME IInv, NEW offers \in Offers, NEW ready, NEW slowAnswers \in BOOLEAN,
         Clock(offers, ready, slowAnswers),
         NEW exec \in BOOLEAN, Flow(exec, slowAnswers)
  PROVE  /\ rspGiven(ready) => due # <<>>
         /\ due' = Pushed(IF rspGiven(ready) THEN Tail(due) ELSE due, cmdTaken(offers),
                          <<Winner(offers), Answer(memory, Selected(offers))>>)
<1> DEFINE asked == IF rspGiven(ready) THEN Tail(arbt_fifo) ELSE arbt_fifo
           answers == IF rspGiven(ready) THEN Tail(UnderWay) ELSE UnderWay
           left == IF rspGiven(ready) THEN Tail(due) ELSE due
           p == Winner(offers)
           w == Answer(memory, Selected(offers))
<1>1. /\ UnderWay \in Seq(Answers) /\ (rspGiven(ready) => UnderWay # <<>>)
      /\ UnderWay' = Pushed(answers, cmdTaken(offers), w)
  BY AnswersMove DEF IInv
<1>2. arbt_fifo' = Pushed(asked, cmdTaken(offers), p)
  BY DEF Clock, Arbiter
<1>3. cmdTaken(offers) => p \in Ports /\ w \in Answers
  <2>1. memory \in [Addr -> Data]
    BY PendingMoves DEF IInv
  <2> QED
    BY <2>1, TakenIsCommand, ExecutedType
<1>4. arbt_fifo \in Seq(Ports) /\ Len(arbt_fifo) = Len(UnderWay)
      /\ (rspGiven(ready) => arbt_fifo # <<>>)
  BY DEF IInv, Types, rspGiven
<1>5. /\ asked \in Seq(Ports) /\ answers \in Seq(Answers) /\ Len(asked) = Len(answers)
      /\ Zip(asked, answers) = left /\ (rspGiven(ready) => due # <<>>)
  <2>1. CASE rspGiven(ready)
    <3>1. Tail(arbt_fifo) \in Seq(Ports) /\ Len(Tail(arbt_fifo)) = Len(arbt_fifo) - 1
      BY <1>4, <2>1, FirstAndRest
    <3>2. Tail(UnderWay) \in Seq(Answers) /\ Len(Tail(UnderWay)) = Len(UnderWay) - 1
      BY <1>1, <2>1, FirstAndRest
    <3>3. Zip(Tail(arbt_fifo), Tail(UnderWay)) = Tail(due) /\ due # <<>>
      BY <1>1, <1>4, <2>1, ZipTail DEF due
    <3> QED
      BY <1>4, <2>1, <3>1, <3>2, <3>3
  <2>2. CASE ~rspGiven(ready)
    BY <1>1, <1>4, <2>2 DEF due
  <2> QED
    BY <2>1, <2>2
<1>6. due' = Zip(arbt_fifo', UnderWay')
  BY DEF due, Zip
<1> HIDE DEF asked, answers, left, p, w
<1>7. CASE cmdTaken(offers)
  <2>1. p \in Ports /\ w \in Answers
    BY <1>3, <1>7
  <2>2. Zip(Append(asked, p), Append(answers, w)) = Append(Zip(asked, answers), <<p, w>>)
    BY <1>5, <2>1, ZipAppend
  <2>3. arbt_fifo' = Append(asked, p) /\ UnderWay' = Append(answers, w)
    BY <1>1, <1>2, <1>7 DEF Pushed
  <2> QED
    BY <1>5, <1>6, <1>7, <2>2, <2>3 DEF Pushed, left, p, w
<1>8. CASE ~cmdTaken(offers)
  <2>1. arbt_fifo' = asked /\ UnderWay' = answers
    BY <1>1, <1>2, <1>8 DEF Pushed
  <2> QED
    BY <1>5, <1>6, <1>8, <2>1 DEF Pushed, left
<1> QED
  BY <1>5, <1>7, <1>8 DEF left, p, w

\* Every step of the path is a step of the abstract memory or changes neither the
\* memory nor the queue.
LEMMA SharedStep == IInv /\ [Next]_vars => [Shared!Next]_(Shared!vars)
<1> SUFFICES ASSUME IInv, [Next]_vars PROVE [Shared!Next]_(Shared!vars)
  OBVIOUS
<1> DEFINE mem == Found(Len(Pending) + 1)
           queue == [i \in 1..Len(arbt_fifo) |-> <<arbt_fifo[i], UnderWay[i]>>]
<1>1. mem = memory /\ mem' = memory' /\ queue = due /\ queue' = due'
  BY MemIs, NextMemIs DEF due, Zip
<1>2. CASE Next
  <2>1. PICK offers \in Offers, ready \in Listening, slowAnswers \in BOOLEAN, exec \in BOOLEAN :
          Clock(offers, ready, slowAnswers) /\ Flow(exec, slowAnswers)
    BY <1>2, Edge
  <2>2. memory' = IF cmdTaken(offers) THEN Executed(memory, Selected(offers)) ELSE memory
    BY <2>1, MemoryMoves
  <2> DEFINE left == IF rspGiven(ready) THEN Tail(due) ELSE due
  <2>3. /\ rspGiven(ready) => due # <<>>
        /\ due' = Pushed(left, cmdTaken(offers),
                         <<Winner(offers), Answer(memory, Selected(offers))>>)
    BY <2>1, DueMoves
  <2>4. left \in Shared!AfterAnswer
    BY <1>1, <2>3 DEF Shared!AfterAnswer
  <2> HIDE DEF left
  <2>5. CASE cmdTaken(offers)
    <3>1. /\ Winner(offers) \in Ports
          /\ Selected(offers) \in [acc |-> AccCommands, cpu |-> CpuCommands][Winner(offers)]
      BY <2>5, TakenIsCommand
    <3>2. queue' = Append(left, <<Winner(offers), Answer(mem, Selected(offers))>>)
      BY <1>1, <2>3, <2>5 DEF Pushed
    <3>3. mem' = Executed(mem, Selected(offers))
      BY <1>1, <2>2, <2>5
    <3> HIDE DEF mem, queue
    <3>4. Shared!Take(Winner(offers), Selected(offers))
      BY <2>4, <3>2, <3>3 DEF Shared!Take, mem, queue
    <3> QED
      BY <3>1, <3>4 DEF Shared!Next
  <2>6. CASE ~cmdTaken(offers)
    <3>1. queue' = left /\ mem' = mem
      BY <1>1, <2>2, <2>3, <2>6 DEF Pushed
    <3>2. Shared!Give
      BY <2>4, <3>1 DEF Shared!Give
    <3> QED
      BY <3>2 DEF Shared!Next
  <2> QED
    BY <2>5, <2>6
<1>3. CASE UNCHANGED vars
  <2>1. UNCHANGED path
    BY <1>3 DEF vars
  <2>2. Pending' = Pending
    BY <2>1 DEF path, Pending
  <2>3. queue' = queue
    BY <2>1, <2>2 DEF path, UnderWay, Found
  <2>4. mem' = mem
    BY <2>1, <2>2 DEF path, Found
  <2> QED
    BY <2>3, <2>4 DEF Shared!vars
<1> QED
  BY <1>2, <1>3

\* For any depth of the queues and any commands of either side, the path executes
\* each command it takes once, in the order of acceptance, and answers it once, to
\* the side that gave it (e203_subsys_main.v:698, sirv_gnrl_icbs.v:33).
THEOREM PathImplementsShared == Spec => SharedSpec
<1>1. Spec => Shared!Init /\ [][Shared!Next]_(Shared!vars)
  BY SharedInit, SharedStep, PathInvariant, PTL DEF Spec
<1> QED
  BY <1>1 DEF SharedSpec, Shared!Spec
==========================================================================
