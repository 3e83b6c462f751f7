--------------------------- MODULE SharedMemory ---------------------------
(* What the memory path promises the processor and the accelerator: one memory
   that executes the commands of both in the order in which it takes them, and
   answers them in that order, each to the side that gave it.                 *)
EXTENDS Sequences

CONSTANTS Ports, Commands,     \* Commands[p] are those of port p
          Initial,
          Executed(_, _),      \* the memory after a command
          Answer(_, _)         \* what the command is answered with

VARIABLES mem,
          due                  \* <<port, answer>> of all not yet answered, oldest first

vars == <<mem, due>>

Init == mem = Initial /\ due = <<>>

\* A step gives at most one answer and takes at most one command.
AfterAnswer == {due} \cup (IF due = <<>> THEN {} ELSE {Tail(due)})

Give == \E left \in AfterAnswer : due' = left /\ UNCHANGED mem

Take(p, c) ==
  /\ \E left \in AfterAnswer : due' = Append(left, <<p, Answer(mem, c)>>)
  /\ mem' = Executed(mem, c)

Next == Give \/ \E p \in Ports : \E c \in Commands[p] : Take(p, c)

Spec == Init /\ [][Next]_vars
===========================================================================
