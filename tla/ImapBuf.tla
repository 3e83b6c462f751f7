----------------------------- MODULE ImapBuf -----------------------------
(* Input map buffer, src/rtl/acc/imap_buf.v: seven SRAMs of Depth 64-bit cells
   hold eight blocks of one 64-bit pair of words per pixel, one after the other
   and across the SRAMs' ends.  A read takes four pairs at once, the blocks
   2 j + group at one offset, each from an SRAM of its own.                   *)
EXTENDS Naturals, FiniteSets

CONSTANTS BlockSize,      \* pixels of a map, 56 * 56 in the source
          Depth,          \* cells of an SRAM, 4096
          None

VARIABLES mem_r,          \* mem_r[k]: cells of SRAM k
          addr_r,         \* read address register of each SRAM
          sram_cs_d       \* SRAMs selected in the last clock

vars == <<mem_r, addr_r, sram_cs_d>>

Srams == 0..6
\* The address lines of an SRAM with two users carry the OR of both: that cell is
\* represented by one more, which belongs to nobody.
Mixed == Depth

Init ==
  /\ mem_r = [k \in Srams |-> [c \in 0..Depth |-> None]]
  /\ addr_r = [k \in Srams |-> 0]
  /\ sram_cs_d = {}

sram_raddrNextTo(raddr) ==
  {(4 * raddr.group + j) * BlockSize + raddr.offset : j \in 0..3}
sram_raddr(raddr) == {(2 * j + raddr.group) * BlockSize + raddr.offset : j \in 0..3}

sram_cs(wen, waddr, ren, raddr) ==
  {k \in Srams : \/ wen /\ waddr \div Depth = k
                 \/ ren /\ \E a \in sram_raddr(raddr) : a \div Depth = k}

\* The write address reaches all SRAMs, a read address only its own.
sram_addr(k, wen, waddr, ren, raddr) ==
  LET users == (IF wen THEN {waddr % Depth} ELSE {})
                 \cup {a % Depth : a \in {b \in sram_raddr(raddr) : ren /\ b \div Depth = k}}
  IN IF \E c \in users : users = {c} THEN CHOOSE c \in users : TRUE ELSE Mixed

\* The selected SRAMs' pairs, each shifted up by one pair for every selected SRAM
\* below it; as words from low to high.  A pair is <<bits 63:32, bits 31:0>>.
dout(k) == mem_r[k][addr_r[k]]
sram_at(n) == CHOOSE k \in sram_cs_d : Cardinality({l \in sram_cs_d : l < k}) = n
imap_rdata ==
  [w \in 0..(2 * Cardinality(sram_cs_d) - 1) |->
     IF w % 2 = 0 THEN dout(sram_at(w \div 2))[2] ELSE dout(sram_at(w \div 2))[1]]

\* One clock edge.
Clock(wen, waddr, wdata, ren, raddr) ==
  LET cs == sram_cs(wen, waddr, ren, raddr)
      addr(k) == sram_addr(k, wen, waddr, ren, raddr) IN
  /\ mem_r' = [k \in Srams |-> IF k \in cs /\ wen THEN [mem_r[k] EXCEPT ![addr(k)] = wdata]
                                                   ELSE mem_r[k]]
  /\ addr_r' = [k \in Srams |-> IF k \in cs /\ ~wen THEN addr(k) ELSE addr_r[k]]
  /\ sram_cs_d' = cs
==========================================================================
