--------------------------- MODULE MacArrayWlu ---------------------------
(* Weight loading unit, src/rtl/acc/mac_array_wlu.v, with the weight buffers of
   the multipliers it fills (basic_pe.v).  Two banks play ping pong: one is
   filled while the array reads the other.  A buffer records the output channel
   its word was fetched for.                                                 *)
EXTENDS Naturals

CONSTANTS Taps, Words,    \* 9 and 16 in the source
          None

VARIABLES weight_load_sel_base,   \* the bank being filled
          bank                    \* bank[b][tap, line]; tap Taps is the 1x1 kernel

vars == <<weight_load_sel_base, bank>>

Places == (0..Taps) \X (0..(Words - 1))

Init ==
  /\ weight_load_sel_base = 0
  /\ bank = [b \in 0..1 |-> [p \in Places |-> None]]

place(waddr) == IF waddr.one THEN <<Taps, waddr.line>> ELSE <<waddr.tap, waddr.line>>

\* The exchange looks at the address alone, not at weight_wen.
Exchange(waddr) ==
  weight_load_sel_base' = IF waddr.line = Words - 1 /\ waddr.one
                          THEN 1 - weight_load_sel_base
                          ELSE weight_load_sel_base

Load(wen, waddr, och) ==
  bank' = IF wen THEN [bank EXCEPT ![weight_load_sel_base][place(waddr)] = och]
                 ELSE bank

\* One clock edge.
Clock(wen, waddr, och) == Exchange(waddr) /\ Load(wen, waddr, och)
==========================================================================
