-------------------------- MODULE OrderedChannel --------------------------
(* What the output path of the accelerator promises: a bounded channel that
   takes the pixels 0, 1, 2, ... of a job in order and hands each of them to
   the address of the same number, losing, repeating and reordering none.    *)
EXTENDS Naturals, Sequences

CONSTANTS Total,          \* pixels of a job; the counters wrap there
          Capacity        \* words the channel can hold

VARIABLES sent,           \* number of the next pixel to enter
          q,              \* pixels under way, oldest first
          stored          \* next address to be written

vars == <<sent, q, stored>>

Init == sent = 0 /\ q = <<>> /\ stored = 0

After(n) == IF n = Total - 1 THEN 0 ELSE n + 1

\* A pixel may enter, another may leave, in one clock.
Step(put, get) ==
  /\ get => q # <<>> /\ Head(q) = stored
  /\ stored' = IF get THEN After(stored) ELSE stored
  /\ sent' = IF put THEN After(sent) ELSE sent
  /\ q' = (IF get THEN Tail(q) ELSE q) \o (IF put THEN <<sent>> ELSE <<>>)
  /\ Len(q') <= Capacity

Next == \E put, get \in BOOLEAN : Step(put, get)

Spec == Init /\ [][Next]_vars
==========================================================================
