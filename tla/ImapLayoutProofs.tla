------------------------- MODULE ImapLayoutProofs -------------------------
(* Theorems about the input map buffer, for every size of the blocks and of the
   SRAMs that BufAssumption allows: a read yields the pixel it names.          *)
EXTENDS ImapLayout, Integers, FiniteSetTheorems, TLAPS

(***************************************************************************)
(* Where the pairs are.                                                     *)
(***************************************************************************)
\* Pair r of the pixel at offset o: its words, its address, and the cell of an address.
PairOf(o, r) == <<Word(o, 2 * r), Word(o, 2 * r + 1)>>
Block(r) == 2 * (r % 4) + r \div 4
Place(o, r) == Block(r) * BlockSize + o
Cell(a) == mem_r[a \div Depth][a % Depth]

Offsets == 0..(BlockSize - 1)
Pairs == 0..7

\* The sizes as the provers need them.
LEMMA Sizes == /\ BlockSize \in Nat /\ BlockSize >= 1 /\ Depth \in Nat /\ Depth >= 1
               /\ 8 * BlockSize <= 7 * Depth /\ 2 * BlockSize >= Depth
               /\ ImapWords = 16 * BlockSize /\ ImapWords \div 16 = BlockSize
BY BufAssumption DEF ImapWords

\* A number is made of its quotient and its remainder.
LEMMA Division ==
  ASSUME NEW a \in Int, NEW Q \in Nat, Q >= 1
  PROVE  a \div Q \in Int /\ a % Q \in 0..(Q - 1) /\ a = Q * (a \div Q) + (a % Q)
BY SMT

\* The four bits of a pair's number make the block.
LEMMA Blocks ==
  /\ \A r \in Pairs : Block(r) \in 0..7
  /\ \A r, q \in Pairs : Block(r) = Block(q) => r = q
  /\ \A g \in 0..1, n \in 0..3 : 4 * g + n \in Pairs /\ Block(4 * g + n) = 2 * n + g
BY DEF Block, Pairs

\* A place lies in the seven SRAMs.
LEMMA PlaceInRange ==
  ASSUME NEW o \in Offsets, NEW r \in Pairs
  PROVE  Place(o, r) \in 0..(7 * Depth - 1)
<1> DEFINE b == Block(r)
           t == b * BlockSize
<1>1. b \in 0..7 /\ o \in 0..(BlockSize - 1)
  BY Blocks DEF Offsets
<1> HIDE DEF b
<1>2. t \in Nat /\ t <= 7 * BlockSize
  BY <1>1, Sizes, SMT
<1>3. Place(o, r) = t + o
  BY DEF Place, b
<1> HIDE DEF t
<1> QED
  BY <1>1, <1>2, <1>3, Sizes

\* Two pairs have two places.
LEMMA PlaceOwn ==
  ASSUME NEW o \in Offsets, NEW r \in Pairs, NEW u \in Offsets, NEW q \in Pairs,
         Place(o, r) = Place(u, q)
  PROVE  o = u /\ r = q
<1> DEFINE b == Block(r)
           c == Block(q)
           s == b * BlockSize
           t == c * BlockSize
<1>1. b \in 0..7 /\ c \in 0..7 /\ o \in 0..(BlockSize - 1) /\ u \in 0..(BlockSize - 1)
  BY Blocks DEF Offsets
<1>2. s + o = t + u
  BY DEF Place
<1> HIDE DEF b, c
<1>3. s \in Int /\ t \in Int
  BY <1>1, Sizes
<1>4. b < c => s + BlockSize <= t
  <2>1. b < c => (b + 1) * BlockSize <= c * BlockSize /\ (b + 1) * BlockSize = b * BlockSize + BlockSize
    BY <1>1, Sizes, SMT
  <2> QED
    BY <2>1
<1>5. c < b => t + BlockSize <= s
  <2>1. c < b => (c + 1) * BlockSize <= b * BlockSize /\ (c + 1) * BlockSize = c * BlockSize + BlockSize
    BY <1>1, Sizes, SMT
  <2> QED
    BY <2>1
<1>6. b = c => s = t
  OBVIOUS
<1> HIDE DEF s, t
<1>7. b = c /\ o = u
  BY <1>1, <1>2, <1>3, <1>4, <1>5, <1>6, Sizes
<1> QED
  BY <1>7, Blocks DEF b, c

\* Two addresses have two cells.
LEMMA CellOwn ==
  ASSUME NEW a \in Int, NEW b \in Int, a \div Depth = b \div Depth, a % Depth = b % Depth
  PROVE  a = b
<1>1. a = Depth * (a \div Depth) + (a % Depth) /\ b = Depth * (b \div Depth) + (b % Depth)
  BY Sizes, Division
<1> QED
  BY <1>1

\* An address below the end of the SRAMs is a cell of one of the seven.
LEMMA CellInSram ==
  ASSUME NEW a \in 0..(7 * Depth - 1)
  PROVE  a \div Depth \in 0..6 /\ a % Depth \in 0..(Depth - 1)
<1> DEFINE k == a \div Depth
           r == a % Depth
<1>1. k \in Int /\ r \in 0..(Depth - 1) /\ a = Depth * k + r
  BY Sizes, Division
<1> HIDE DEF k, r
<1>2. k >= 0
  <2> SUFFICES ASSUME k <= -1 PROVE FALSE
    BY <1>1
  <2>1. Depth * k <= Depth * (-1) /\ Depth * (-1) = -Depth
    BY <1>1, Sizes, SMT
  <2> QED
    BY <1>1, <2>1, Sizes, SMT
<1>3. k <= 6
  <2> SUFFICES ASSUME k >= 7 PROVE FALSE
    BY <1>1
  <2>1. Depth * k >= Depth * 7
    BY <1>1, Sizes, SMT
  <2> QED
    BY <1>1, <2>1, Sizes, SMT
<1> QED
  BY <1>1, <1>2, <1>3 DEF k, r

\* The bus unit writes an odd word, with the even one before it, to its pair's place.
LEMMA WriterPlace ==
  ASSUME receive_cnt \in 0..(ImapWords - 1), receive_cnt % 2 = 1
  PROVE  \E o \in Offsets, r \in Pairs :
           receive_cnt = 16 * o + 2 * r + 1 /\ Biu!imap_waddr = Place(o, r)
<1> DEFINE o == receive_cnt \div 16
           r == (receive_cnt % 16) \div 2
<1>1. o \in Offsets /\ r \in Pairs /\ receive_cnt = 16 * o + 2 * r + 1
  BY Sizes DEF Offsets, Pairs
<1>2. (receive_cnt \div 2) % 4 = r % 4 /\ (receive_cnt \div 8) % 2 = r \div 4
  BY Sizes
<1>3. Biu!imap_waddr = o + Block(r) * BlockSize
  BY <1>2, Sizes DEF Biu!imap_waddr, Block
<1> HIDE DEF o, r
<1>4. o + Block(r) * BlockSize = Block(r) * BlockSize + o
  BY <1>1, Blocks, Sizes DEF Offsets
<1> QED
  BY <1>1, <1>3, <1>4 DEF Place

(***************************************************************************)
(* What a read selects.                                                     *)
(***************************************************************************)
\* Places a whole SRAM apart are in two SRAMs, in their order.
LEMMA Apart ==
  ASSUME NEW a \in Int, NEW b \in Int, a + Depth <= b
  PROVE  a \div Depth < b \div Depth
<1> DEFINE k == a \div Depth
           r == a % Depth
           l == b \div Depth
           s == b % Depth
<1>1. k \in Int /\ r \in 0..(Depth - 1) /\ a = Depth * k + r
  BY Sizes, Division
<1>2. l \in Int /\ s \in 0..(Depth - 1) /\ b = Depth * l + s
  BY Sizes, Division
<1> HIDE DEF k, r, l, s
<1>3. k < l
  <2> SUFFICES ASSUME l <= k PROVE FALSE
    BY <1>1, <1>2
  <2>1. Depth * l <= Depth * k
    BY <1>1, <1>2, Sizes, SMT
  <2> QED
    BY <1>1, <1>2, <2>1, Sizes, SMT
<1> QED
  BY <1>3 DEF k, l

\* The buffer's cardinality is the theorems' cardinality.
LEMMA SameCardinality == \A S : Buf!Cardinality(S) = Cardinality(S)
BY DEF Cardinality, Buf!Cardinality

\* The element with n smaller ones.
Nth(S, n) == CHOOSE k \in S : Buf!Cardinality({l \in S : l < k}) = n

\* A set with one element more.
LEMMA OneMore ==
  ASSUME NEW T, IsFiniteSet(T), NEW x, x \notin T, NEW U, U = T \cup {x}
  PROVE  Cardinality(U) = Cardinality(T) + 1 /\ IsFiniteSet(U)
BY FS_AddElement

\* A set of four is found in ascending order.
LEMMA FourInOrder ==
  ASSUME NEW S, NEW a \in Int, NEW b \in Int, NEW c \in Int, NEW d \in Int,
         a < b, b < c, c < d, S = {a, b, c, d}
  PROVE  /\ Buf!Cardinality(S) = 4
         /\ Nth(S, 0) = a /\ Nth(S, 1) = b /\ Nth(S, 2) = c /\ Nth(S, 3) = d
<1> DEFINE Below(k) == {l \in S : l < k}
<1>1. a # b /\ a # c /\ a # d /\ b # c /\ b # d /\ c # d
  OBVIOUS
<1>2. /\ Below(a) = {} /\ Below(b) = {a} /\ Below(c) = {a, b} /\ Below(d) = {a, b, c}
  OBVIOUS
<1>3. Cardinality({}) = 0 /\ IsFiniteSet({})
  BY FS_EmptySet
<1>4. Cardinality({a}) = 1 /\ IsFiniteSet({a})
  BY FS_Singleton
<1>5. Cardinality({a, b}) = 2 /\ IsFiniteSet({a, b})
  <2>1. {a, b} = {a} \cup {b} /\ b \notin {a}
    BY <1>1
  <2>2. Cardinality({a, b}) = Cardinality({a}) + 1 /\ IsFiniteSet({a, b})
    BY <1>4, <2>1, OneMore
  <2> QED
    BY <1>4, <2>2
<1>6. Cardinality({a, b, c}) = 3 /\ IsFiniteSet({a, b, c})
  <2>1. {a, b, c} = {a, b} \cup {c} /\ c \notin {a, b}
    BY <1>1
  <2>2. Cardinality({a, b, c}) = Cardinality({a, b}) + 1 /\ IsFiniteSet({a, b, c})
    BY <1>5, <2>1, OneMore
  <2> QED
    BY <1>5, <2>2
<1>7. Cardinality(S) = 4
  <2>1. S = {a, b, c} \cup {d} /\ d \notin {a, b, c}
    BY <1>1
  <2>2. Cardinality(S) = Cardinality({a, b, c}) + 1
    BY <1>6, <2>1, OneMore
  <2> QED
    BY <1>6, <2>2
<1>8. /\ Buf!Cardinality(Below(a)) = 0 /\ Buf!Cardinality(Below(b)) = 1
      /\ Buf!Cardinality(Below(c)) = 2 /\ Buf!Cardinality(Below(d)) = 3
  BY <1>2, <1>3, <1>4, <1>5, <1>6, SameCardinality
<1> HIDE DEF Below
<1>9. \A n \in 0..3 : \A k \in S : Buf!Cardinality(Below(k)) = n =>
        k = CASE n = 0 -> a [] n = 1 -> b [] n = 2 -> c [] n = 3 -> d
  BY <1>8
<1>10. /\ (CHOOSE k \in S : Buf!Cardinality(Below(k)) = 0) = a
       /\ (CHOOSE k \in S : Buf!Cardinality(Below(k)) = 1) = b
       /\ (CHOOSE k \in S : Buf!Cardinality(Below(k)) = 2) = c
       /\ (CHOOSE k \in S : Buf!Cardinality(Below(k)) = 3) = d
  BY <1>8, <1>9
<1> QED
  BY <1>7, <1>10, SameCardinality DEF Below, Nth

\* The addresses of a read and the SRAMs they are in.
Address(raddr, n) == Place(raddr.offset, 4 * raddr.group + n)
Sram(raddr, n) == Address(raddr, n) \div Depth

\* They are in four SRAMs, in ascending order.
LEMMA FourSrams ==
  ASSUME NEW group \in 0..1, NEW offset \in Offsets,
         NEW raddr, raddr = [group |-> group, offset |-> offset]
  PROVE  /\ Buf!sram_raddr(raddr) = {Address(raddr, n) : n \in 0..3}
         /\ \A n \in 0..3 : /\ Address(raddr, n) \in 0..(7 * Depth - 1)
                            /\ Sram(raddr, n) \in 0..6
                            /\ Address(raddr, n) % Depth \in 0..(Depth - 1)
         /\ \A n, l \in 0..3 : n < l => Sram(raddr, n) < Sram(raddr, l)
<1> DEFINE A(n) == Address(raddr, n)
<1>1. \A n \in 0..3 : 4 * group + n \in Pairs /\ A(n) = (2 * n + group) * BlockSize + offset
  BY Blocks DEF Address, Place
<1>2. \A n \in 0..3 : A(n) \in 0..(7 * Depth - 1)
  BY <1>1, PlaceInRange DEF Address
<1>3. \A n \in 0..3 : A(n) \div Depth \in 0..6 /\ A(n) % Depth \in 0..(Depth - 1)
  BY <1>2, CellInSram
<1>4. ASSUME NEW n \in 0..3, NEW l \in 0..3, n < l
      PROVE  A(n) + Depth <= A(l)
  <2> DEFINE s == (2 * n + group) * BlockSize
             t == (2 * l + group) * BlockSize
             v == (2 * n + group + 2) * BlockSize
  <2>1. v = s + 2 * BlockSize /\ s \in Int /\ v \in Int
    BY Sizes, SMT
  <2>2. v <= t /\ t \in Int
    BY <1>4, Sizes, SMT
  <2>3. A(n) = s + offset /\ A(l) = t + offset /\ offset \in Int
    BY <1>1 DEF Offsets
  <2> HIDE DEF s, t, v, A
  <2> QED
    BY <2>1, <2>2, <2>3, Sizes
<1>5. \A n, l \in 0..3 : n < l => A(n) \div Depth < A(l) \div Depth
  <2> SUFFICES ASSUME NEW n \in 0..3, NEW l \in 0..3, n < l
               PROVE  A(n) \div Depth < A(l) \div Depth
    OBVIOUS
  <2>1. A(n) \in Int /\ A(l) \in Int
    BY <1>2, Sizes
  <2> HIDE DEF A
  <2> QED
    BY <1>4, <2>1, Apart
<1>6. Buf!sram_raddr(raddr) = {A(n) : n \in 0..3}
  BY <1>1 DEF Buf!sram_raddr
<1> QED
  BY <1>2, <1>3, <1>5, <1>6 DEF Sram

(***************************************************************************)
(* The invariant.                                                           *)
(***************************************************************************)
\* Every command has been answered or is outstanding; none is left when the unit rests.
issued == IF imap_biu2arb_vld THEN cnt ELSE IF imap_biu2arb_req THEN ImapWords ELSE 0

Counting ==
  /\ imap_biu2arb_vld \in BOOLEAN /\ imap_biu2arb_req \in BOOLEAN /\ imap_done \in BOOLEAN
  /\ i_state = IF imap_biu2arb_vld THEN "run" ELSE "idle"
  /\ imap_biu2arb_vld => imap_biu2arb_req
  /\ imap_done => ~imap_biu2arb_req
  /\ cnt \in 0..(ImapWords - 1) /\ (~imap_biu2arb_vld => cnt = 0)
  /\ receive_cnt \in 0..(ImapWords - 1) /\ (~imap_biu2arb_req => receive_cnt = 0)
  /\ outstanding \in Nat /\ issued = receive_cnt + outstanding
  /\ loads \in Nat /\ (imap_biu2arb_req => loads > 0)

\* The answers so far are in their places, an even one without its odd one in the register.
Arrived(o, r) == \/ loads > 0 /\ ~imap_biu2arb_req
                 \/ 16 * o + 2 * r + 1 < receive_cnt

Storing ==
  /\ DOMAIN mem_r = 0..6 /\ \A k \in 0..6 : DOMAIN mem_r[k] = 0..Depth
  /\ DOMAIN addr_r = 0..6
  /\ receive_cnt % 2 = 1 => former_bits = Word(0, receive_cnt - 1)
  /\ \A o \in Offsets, r \in Pairs : Arrived(o, r) => Cell(Place(o, r)) = PairOf(o, r)

LayoutInv == Counting /\ Storing /\ PairsOfPixel

\* Reading keeps the cells and yields the four pairs.
LEMMA ReadStep ==
  ASSUME LayoutInv, Read
  PROVE  LayoutInv'
<1>1. PICK group \in 0..1, offset \in Offsets :
        LET raddr == [group |-> group, offset |-> offset] IN
        /\ loads > 0 /\ Resting
        /\ Buf!Clock(FALSE, 0, None, TRUE, raddr)
        /\ read' = raddr
        /\ UNCHANGED <<biuVars, outstanding, loads>>
  BY DEF Read, Offsets
<1> DEFINE raddr == [group |-> group, offset |-> offset]
           A(n) == Address(raddr, n)
           K(n) == Sram(raddr, n)
           cs == Buf!sram_cs(FALSE, 0, TRUE, raddr)
           addr(k) == Buf!sram_addr(k, FALSE, 0, TRUE, raddr)
<1>2. /\ loads > 0 /\ ~imap_biu2arb_req
      /\ read' = raddr /\ outstanding' = outstanding /\ loads' = loads
      /\ i_state' = i_state /\ cnt' = cnt /\ imap_biu2arb_req' = imap_biu2arb_req
      /\ imap_biu2arb_vld' = imap_biu2arb_vld
      /\ receive_cnt' = receive_cnt /\ former_bits' = former_bits /\ imap_done' = imap_done
  BY <1>1 DEF Resting, biuVars
<1>3. /\ mem_r' = [k \in 0..6 |-> mem_r[k]]
      /\ addr_r' = [k \in 0..6 |-> IF k \in cs THEN addr(k) ELSE addr_r[k]]
      /\ sram_cs_d' = cs
  BY <1>1 DEF Buf!Clock, Buf!Srams
<1>4. /\ Buf!sram_raddr(raddr) = {A(n) : n \in 0..3}
      /\ \A n \in 0..3 : A(n) \in 0..(7 * Depth - 1) /\ K(n) \in 0..6 /\ A(n) % Depth \in 0..(Depth - 1)
      /\ \A n, l \in 0..3 : n < l => K(n) < K(l)
      /\ \A n \in 0..3 : K(n) = A(n) \div Depth
  BY FourSrams DEF Sram
<1> HIDE DEF raddr, A, K
<1>5. cs = {K(0), K(1), K(2), K(3)}
  <2>1. cs = {k \in 0..6 : \E a \in Buf!sram_raddr(raddr) : a \div Depth = k}
    BY DEF Buf!sram_cs, Buf!Srams
  <2>2. cs = {K(n) : n \in 0..3}
    <3>1. \A k : k \in cs <=> k \in 0..6 /\ \E n \in 0..3 : A(n) \div Depth = k
      BY <1>4, <2>1
    <3>2. \A k : k \in cs <=> \E n \in 0..3 : k = K(n)
      BY <1>4, <3>1
    <3> HIDE DEF cs
    <3> QED
      BY <3>2
  <2>3. 0..3 = {0, 1, 2, 3}
    OBVIOUS
  <2> HIDE DEF cs
  <2> QED
    BY <2>2, <2>3
<1>6. \A n \in 0..3 : addr(K(n)) = A(n) % Depth
  <2> SUFFICES ASSUME NEW n \in 0..3 PROVE addr(K(n)) = A(n) % Depth
    OBVIOUS
  <2> DEFINE near == {b \in Buf!sram_raddr(raddr) : TRUE /\ b \div Depth = K(n)}
  <2>1. near = {A(n)}
    <3>1. \A l \in 0..3 : K(l) = K(n) => l = n
      BY <1>4
    <3> QED
      BY <1>4, <3>1
  <2>2. addr(K(n)) = LET users == {} \cup {a % Depth : a \in near}
                     IN IF \E c \in users : users = {c} THEN CHOOSE c \in users : TRUE ELSE Buf!Mixed
    BY DEF Buf!sram_addr
  <2> HIDE DEF near, addr
  <2>3. {} \cup {a % Depth : a \in near} = {A(n) % Depth}
    BY <2>1
  <2> QED
    BY <2>2, <2>3
<1> HIDE DEF cs, addr
<1>7. \A n \in 0..3 : mem_r'[K(n)][addr_r'[K(n)]] = Cell(A(n))
  BY <1>3, <1>4, <1>5, <1>6 DEF Cell
<1>8. \A n \in 0..3 : Cell(A(n)) = PairOf(offset, 4 * group + n)
  <2>1. \A n \in 0..3 : 4 * group + n \in Pairs /\ A(n) = Place(offset, 4 * group + n)
    BY Blocks DEF A, Address, raddr
  <2>2. \A o \in Offsets, r \in Pairs : Cell(Place(o, r)) = PairOf(o, r)
    BY <1>2 DEF LayoutInv, Storing, Arrived
  <2> QED
    BY <2>1, <2>2
<1>9. Counting'
  BY <1>2 DEF LayoutInv, Counting, issued
<1>10. Storing'
  <2>1. DOMAIN mem_r' = 0..6 /\ DOMAIN addr_r' = 0..6 /\ \A k \in 0..6 : mem_r'[k] = mem_r[k]
    BY <1>3
  <2>2. \A k \in 0..6 : DOMAIN mem_r'[k] = 0..Depth
    BY <2>1 DEF LayoutInv, Storing
  <2>3. receive_cnt' % 2 = 1 => former_bits' = Word(0, receive_cnt - 1)'
    BY <1>2 DEF LayoutInv, Storing, Word
  <2>4. ASSUME NEW o \in Offsets, NEW r \in Pairs, Arrived(o, r)'
        PROVE  Cell(Place(o, r))' = PairOf(o, r)'
    <3>1. Cell(Place(o, r)) = PairOf(o, r)
      BY <1>2, <2>4 DEF LayoutInv, Storing, Arrived
    <3>2. Place(o, r) \div Depth \in 0..6
      BY PlaceInRange, CellInSram
    <3> QED
      BY <1>2, <2>1, <3>1, <3>2 DEF Cell, Place, Block, PairOf, Word
  <2> QED
    BY <2>1, <2>2, <2>3, <2>4 DEF Storing
<1>11. PairsOfPixel'
  <2>1. /\ Buf!Cardinality(sram_cs_d') = 4
        /\ Buf!sram_at(0)' = K(0) /\ Buf!sram_at(1)' = K(1)
        /\ Buf!sram_at(2)' = K(2) /\ Buf!sram_at(3)' = K(3)
    <3>1. /\ K(0) \in Int /\ K(1) \in Int /\ K(2) \in Int /\ K(3) \in Int
          /\ K(0) < K(1) /\ K(1) < K(2) /\ K(2) < K(3)
      BY <1>4
    <3>2. /\ Buf!Cardinality(cs) = 4
          /\ Nth(cs, 0) = K(0) /\ Nth(cs, 1) = K(1) /\ Nth(cs, 2) = K(2) /\ Nth(cs, 3) = K(3)
      BY <1>5, <3>1, FourInOrder
    <3>3. \A n : Buf!sram_at(n)' = Nth(sram_cs_d', n)
      BY DEF Buf!sram_at, Nth
    <3> QED
      BY <1>3, <3>2, <3>3
  <2>2. \A n \in 0..3 : /\ Buf!dout(Buf!sram_at(n))'[1] = Word(offset, 2 * (4 * group + n))
                        /\ Buf!dout(Buf!sram_at(n))'[2] = Word(offset, 2 * (4 * group + n) + 1)
    <3>1. \A n \in 0..3 : Buf!sram_at(n)' = K(n)
      BY <2>1
    <3>2. \A n \in 0..3 : Buf!dout(Buf!sram_at(n))' = PairOf(offset, 4 * group + n)
      BY <1>7, <1>8, <3>1 DEF Buf!dout
    <3> QED
      BY <3>2 DEF PairOf
  <2>a. Buf!imap_rdata' = [w \in 0..(2 * 4 - 1) |->
                             IF w % 2 = 0 THEN Buf!dout(Buf!sram_at(w \div 2))'[2]
                                          ELSE Buf!dout(Buf!sram_at(w \div 2))'[1]]
    BY <2>1 DEF Buf!imap_rdata
  <2>3. DOMAIN Buf!imap_rdata' = 0..7
    BY <2>a
  <2>4. ASSUME NEW j \in 0..3
        PROVE  /\ Buf!imap_rdata'[2 * j] = Word(offset, 2 * (4 * group + j) + 1)
               /\ Buf!imap_rdata'[2 * j + 1] = Word(offset, 2 * (4 * group + j))
    <3>1. /\ 2 * j \in 0..7 /\ (2 * j) % 2 = 0 /\ (2 * j) \div 2 = j
          /\ 2 * j + 1 \in 0..7 /\ (2 * j + 1) % 2 # 0 /\ (2 * j + 1) \div 2 = j
      OBVIOUS
    <3>2. /\ Buf!imap_rdata'[2 * j] = Buf!dout(Buf!sram_at(j))'[2]
          /\ Buf!imap_rdata'[2 * j + 1] = Buf!dout(Buf!sram_at(j))'[1]
      BY <2>a, <3>1
    <3> QED
      BY <2>2, <3>2
  <2>5. ASSUME NEW j \in 0..3
        PROVE  {Buf!imap_rdata'[2 * j], Buf!imap_rdata'[2 * j + 1]} =
                 {Word(read.offset, 8 * read.group + 2 * j + e)' : e \in 0..1}
    <3>1. /\ 8 * group + 2 * j + 0 = 2 * (4 * group + j)
          /\ 8 * group + 2 * j + 1 = 2 * (4 * group + j) + 1 /\ 0..1 = {0, 1}
      OBVIOUS
    <3>2. \A e \in 0..1 : Word(read.offset, 8 * read.group + 2 * j + e)' = Word(offset, 8 * group + 2 * j + e)
      BY <1>2 DEF Word, raddr
    <3> QED
      BY <2>4, <3>1, <3>2
  <2> QED
    BY <2>3, <2>5 DEF PairsOfPixel
<1> QED
  BY <1>9, <1>10, <1>11 DEF LayoutInv

\* One clock of a load, with the counts' conditions resolved.
LEMMA LoadValues ==
  ASSUME LayoutInv, Load
  PROVE  \E rdy, rsp, start \in BOOLEAN :
           LET issue == imap_biu2arb_vld /\ rdy
               lastIssue == issue /\ cnt = ImapWords - 1
               lastAnswer == rsp /\ receive_cnt = ImapWords - 1
               data == Word(0, receive_cnt) IN
           /\ rsp => imap_biu2arb_req /\ outstanding > 0
           /\ start => ~imap_biu2arb_req /\ ~imap_done
           /\ lastAnswer => ~imap_biu2arb_vld
           /\ i_state' = IF start THEN "run" ELSE IF lastIssue THEN "idle" ELSE i_state
           /\ cnt' = IF lastIssue THEN 0 ELSE IF issue THEN cnt + 1 ELSE cnt
           /\ imap_biu2arb_vld' = (~lastIssue /\ (start \/ imap_biu2arb_vld))
           /\ imap_biu2arb_req' = (start \/ (imap_biu2arb_req /\ ~lastAnswer))
           /\ imap_done' = (~imap_done /\ lastAnswer)
           /\ receive_cnt' = IF lastAnswer THEN 0 ELSE IF rsp THEN receive_cnt + 1 ELSE receive_cnt
           /\ former_bits' = IF receive_cnt % 2 = 0 /\ rsp THEN data ELSE former_bits
           /\ outstanding' = outstanding + (IF issue THEN 1 ELSE 0) - (IF rsp THEN 1 ELSE 0)
           /\ loads' = IF start THEN loads + 1 ELSE loads
           /\ Buf!Clock(receive_cnt % 2 = 1 /\ rsp, Biu!imap_waddr, <<former_bits, data>>,
                        FALSE, [group |-> 0, offset |-> 0])
           /\ read' = None
<1>1. PICK rdy \in BOOLEAN, rsp \in BOOLEAN, start \in BOOLEAN :
        LET data == Word(0, receive_cnt) IN
        /\ rsp => outstanding > 0
        /\ start => Resting
        /\ Biu!Clock(start, rdy, rsp, data)
        /\ Buf!Clock(Biu!imap_wen(rsp), Biu!imap_waddr, Biu!imap_wdata(data), FALSE,
                     [group |-> 0, offset |-> 0])
        /\ outstanding' = outstanding + (IF Biu!issue(rdy) THEN 1 ELSE 0) - (IF rsp THEN 1 ELSE 0)
        /\ loads' = IF start THEN loads + 1 ELSE loads
        /\ read' = None
  BY DEF Load
<1> DEFINE issue == imap_biu2arb_vld /\ rdy
           lastIssue == issue /\ cnt = ImapWords - 1
           lastAnswer == rsp /\ receive_cnt = ImapWords - 1
           data == Word(0, receive_cnt)
<1>2. Counting
  BY DEF LayoutInv
<1>3. rsp => imap_biu2arb_req /\ outstanding > 0
  BY <1>1, <1>2, Sizes DEF Counting, issued
<1>4. start => ~imap_biu2arb_req /\ ~imap_done /\ ~imap_biu2arb_vld
  BY <1>1, <1>2 DEF Resting, Counting
<1>5. lastAnswer => ~imap_biu2arb_vld
  BY <1>2, <1>3, Sizes DEF Counting, issued
<1>6. (Biu!issue(rdy) <=> issue) /\ (Biu!LastIssue(rdy) <=> lastIssue) /\ (Biu!LastAnswer(rsp) <=> lastAnswer)
  BY DEF Biu!issue, Biu!LastIssue, Biu!LastAnswer
<1>7. lastIssue => issue
  OBVIOUS
<1>8. issue => i_state = "run" /\ ~start
  BY <1>2, <1>4 DEF Counting
<1>9. start => i_state = "idle"
  BY <1>2, <1>4 DEF Counting
<1>10. i_state \in {"idle", "run"} /\ (i_state = "idle" => cnt = 0)
  BY <1>2 DEF Counting
<1>11. Biu!imap_wen(rsp) <=> receive_cnt % 2 = 1 /\ rsp
  BY DEF Biu!imap_wen
<1>12. Biu!imap_wdata(data) = <<former_bits, data>>
  BY DEF Biu!imap_wdata
<1> HIDE DEF issue, lastIssue, lastAnswer, data
<1>13. i_state' = IF start THEN "run" ELSE IF lastIssue THEN "idle" ELSE i_state
  <2>1. i_state' = CASE i_state = "idle" /\ start -> "run"
                     [] i_state = "run" /\ lastIssue -> "idle"
                     [] OTHER -> i_state
    BY <1>1, <1>6 DEF Biu!Clock, Biu!State
  <2> QED
    BY <1>7, <1>8, <1>9, <2>1
<1>14. cnt' = IF lastIssue THEN 0 ELSE IF issue THEN cnt + 1 ELSE cnt
  <2>1. cnt' = CASE i_state = "idle" \/ lastIssue -> 0
                 [] i_state = "run" /\ issue /\ ~lastIssue -> cnt + 1
                 [] OTHER -> cnt
    BY <1>1, <1>6 DEF Biu!Clock, Biu!Cnt
  <2>2. CASE lastIssue
    BY <2>1, <2>2
  <2>3. CASE ~lastIssue /\ issue
    BY <1>8, <2>1, <2>3
  <2>4. CASE ~lastIssue /\ ~issue
    BY <1>10, <2>1, <2>4
  <2> QED
    BY <2>2, <2>3, <2>4
<1>15. /\ imap_biu2arb_vld' = (~lastIssue /\ (start \/ imap_biu2arb_vld))
       /\ imap_biu2arb_req' = (start \/ (imap_biu2arb_req /\ ~lastAnswer))
       /\ imap_done' = (~imap_done /\ lastAnswer)
  BY <1>1, <1>6, Zenon DEF Biu!Clock, Biu!Vld, Biu!Req, Biu!Done
<1>16. receive_cnt' = IF lastAnswer THEN 0 ELSE IF rsp THEN receive_cnt + 1 ELSE receive_cnt
  <2>1. receive_cnt' = CASE lastAnswer -> 0
                         [] rsp /\ ~lastAnswer -> receive_cnt + 1
                         [] OTHER -> receive_cnt
    BY <1>1, <1>6 DEF Biu!Clock, Biu!ReceiveCnt
  <2> QED
    BY <2>1
<1>17. former_bits' = IF receive_cnt % 2 = 0 /\ rsp THEN data ELSE former_bits
  BY <1>1 DEF Biu!Clock, Biu!FormerBits, data
<1>18. outstanding' = outstanding + (IF issue THEN 1 ELSE 0) - (IF rsp THEN 1 ELSE 0)
  BY <1>1, <1>6
<1>19. Buf!Clock(receive_cnt % 2 = 1 /\ rsp, Biu!imap_waddr, <<former_bits, data>>,
                 FALSE, [group |-> 0, offset |-> 0])
  <2>1. Buf!Clock(Biu!imap_wen(rsp), Biu!imap_waddr, Biu!imap_wdata(data), FALSE,
                  [group |-> 0, offset |-> 0])
    BY <1>1 DEF data
  <2>2. Biu!imap_wen(rsp) = (receive_cnt % 2 = 1 /\ rsp)
    BY DEF Biu!imap_wen
  <2> QED
    BY <1>12, <2>1, <2>2
<1> QED
  BY <1>1, <1>3, <1>4, <1>5, <1>13, <1>14, <1>15, <1>16, <1>17, <1>18, <1>19
     DEF issue, lastIssue, lastAnswer, data

\* Commands and answers stay counted.
LEMMA LoadCounting ==
  ASSUME LayoutInv, NEW rdy \in BOOLEAN, NEW rsp \in BOOLEAN, NEW start \in BOOLEAN,
         NEW issue \in BOOLEAN, NEW lastIssue \in BOOLEAN, NEW lastAnswer \in BOOLEAN,
         issue <=> imap_biu2arb_vld /\ rdy,
         lastIssue <=> issue /\ cnt = ImapWords - 1,
         lastAnswer <=> rsp /\ receive_cnt = ImapWords - 1,
         rsp => imap_biu2arb_req /\ outstanding > 0,
         start => ~imap_biu2arb_req /\ ~imap_done,
         lastAnswer => ~imap_biu2arb_vld,
         i_state' = IF start THEN "run" ELSE IF lastIssue THEN "idle" ELSE i_state,
         cnt' = IF lastIssue THEN 0 ELSE IF issue THEN cnt + 1 ELSE cnt,
         imap_biu2arb_vld' = (~lastIssue /\ (start \/ imap_biu2arb_vld)),
         imap_biu2arb_req' = (start \/ (imap_biu2arb_req /\ ~lastAnswer)),
         imap_done' = (~imap_done /\ lastAnswer),
         receive_cnt' = IF lastAnswer THEN 0 ELSE IF rsp THEN receive_cnt + 1 ELSE receive_cnt,
         outstanding' = outstanding + (IF issue THEN 1 ELSE 0) - (IF rsp THEN 1 ELSE 0),
         loads' = IF start THEN loads + 1 ELSE loads
  PROVE  Counting'
<1>1. Counting
  BY DEF LayoutInv
<1>2. /\ imap_biu2arb_vld' \in BOOLEAN /\ imap_biu2arb_req' \in BOOLEAN /\ imap_done' \in BOOLEAN
  OBVIOUS
<1>3. CASE start
  <2>1. /\ ~imap_biu2arb_req /\ ~imap_done /\ ~imap_biu2arb_vld /\ ~issue /\ ~lastIssue /\ ~rsp /\ ~lastAnswer
        /\ cnt = 0 /\ receive_cnt = 0 /\ outstanding = 0
    BY <1>1, <1>3 DEF Counting, issued
  <2>2. imap_biu2arb_vld' /\ imap_biu2arb_req' /\ ~imap_done'
    BY <1>3, <2>1
  <2>3. i_state' = "run" /\ cnt' = 0 /\ receive_cnt' = 0 /\ outstanding' = 0 /\ loads' = loads + 1
    BY <1>3, <2>1
  <2> QED
    BY <1>1, <1>2, <2>2, <2>3, Sizes DEF Counting, issued
<1>4. CASE ~start /\ imap_biu2arb_vld
  <2>1. /\ ~lastAnswer /\ imap_biu2arb_req /\ ~imap_done /\ i_state = "run" /\ cnt = receive_cnt + outstanding
    BY <1>1, <1>4 DEF Counting, issued
  <2>2. /\ imap_biu2arb_req' /\ ~imap_done' /\ (imap_biu2arb_vld' <=> ~lastIssue)
    BY <1>4, <2>1
  <2>3. i_state' = IF lastIssue THEN "idle" ELSE "run"
    BY <1>4, <2>1
  <2>4. /\ loads' = loads /\ loads \in Nat /\ loads > 0 /\ cnt \in 0..(ImapWords - 1)
        /\ receive_cnt \in 0..(ImapWords - 1) /\ outstanding \in Nat /\ ImapWords \in Nat
    BY <1>1, <1>4, <2>1, Sizes DEF Counting
  <2>5. /\ receive_cnt' = receive_cnt + (IF rsp THEN 1 ELSE 0)
        /\ receive_cnt' \in 0..(ImapWords - 1)
    BY <2>1, <2>4
  <2>6. outstanding' \in Nat /\ receive_cnt' + outstanding' = cnt + (IF issue THEN 1 ELSE 0)
    BY <2>1, <2>4, <2>5
  <2>7. CASE lastIssue
    BY <1>2, <2>2, <2>3, <2>4, <2>5, <2>6, <2>7 DEF Counting, issued
  <2>8. CASE ~lastIssue
    BY <1>2, <2>2, <2>3, <2>4, <2>5, <2>6, <2>8 DEF Counting, issued
  <2> QED
    BY <2>7, <2>8
<1>5. CASE ~start /\ ~imap_biu2arb_vld
  <2>1. /\ ~issue /\ ~lastIssue /\ i_state = "idle" /\ cnt = 0
        /\ loads \in Nat /\ receive_cnt \in 0..(ImapWords - 1) /\ outstanding \in Nat /\ ImapWords \in Nat
        /\ (imap_biu2arb_req => ImapWords = receive_cnt + outstanding /\ loads > 0)
        /\ (~imap_biu2arb_req => receive_cnt = 0 /\ outstanding = 0 /\ ~rsp /\ ~lastAnswer)
    BY <1>1, <1>5, Sizes DEF Counting, issued
  <2>2. /\ ~imap_biu2arb_vld' /\ (imap_biu2arb_req' <=> imap_biu2arb_req /\ ~lastAnswer)
        /\ (imap_done' => lastAnswer)
    BY <1>5, <2>1
  <2>3. i_state' = "idle" /\ cnt' = 0 /\ loads' = loads
    BY <1>5, <2>1
  <2>4. CASE ~imap_biu2arb_req
    <3>1. ~imap_biu2arb_req' /\ ~imap_done' /\ receive_cnt' = 0 /\ outstanding' = 0
      BY <2>1, <2>2, <2>4
    <3> QED
      BY <1>2, <2>1, <2>2, <2>3, <3>1 DEF Counting, issued
  <2>5. CASE imap_biu2arb_req /\ lastAnswer
    <3>1. ~imap_biu2arb_req' /\ receive_cnt' = 0 /\ outstanding' = 0
      BY <2>1, <2>2, <2>5
    <3> QED
      BY <1>2, <2>1, <2>2, <2>3, <3>1 DEF Counting, issued
  <2>6. CASE imap_biu2arb_req /\ ~lastAnswer
    <3>1. /\ imap_biu2arb_req' /\ ~imap_done' /\ receive_cnt' \in 0..(ImapWords - 1)
          /\ outstanding' \in Nat /\ ImapWords = receive_cnt' + outstanding'
      BY <2>1, <2>2, <2>6
    <3> QED
      BY <1>2, <2>1, <2>2, <2>3, <3>1 DEF Counting, issued
  <2> QED
    BY <2>4, <2>5, <2>6
<1> QED
  BY <1>1, <1>3, <1>4, <1>5

\* A clock without a write keeps every cell, one with a write changes its own cell only.
LEMMA WriteStep ==
  ASSUME Storing, NEW wen \in BOOLEAN, NEW waddr \in 0..(7 * Depth - 1), NEW wdata, NEW raddr,
         Buf!Clock(wen, waddr, wdata, FALSE, raddr)
  PROVE  /\ DOMAIN mem_r' = 0..6 /\ \A k \in 0..6 : DOMAIN mem_r'[k] = 0..Depth
         /\ DOMAIN addr_r' = 0..6
         /\ \A a \in 0..(7 * Depth - 1) : Cell(a)' = IF wen /\ a = waddr THEN wdata ELSE Cell(a)
<1> DEFINE cs == Buf!sram_cs(wen, waddr, FALSE, raddr)
           addr(k) == Buf!sram_addr(k, wen, waddr, FALSE, raddr)
<1>1. /\ mem_r' = [k \in 0..6 |-> IF k \in cs /\ wen THEN [mem_r[k] EXCEPT ![addr(k)] = wdata]
                                                     ELSE mem_r[k]]
      /\ addr_r' = [k \in 0..6 |-> IF k \in cs /\ ~wen THEN addr(k) ELSE addr_r[k]]
  BY DEF Buf!Clock, Buf!Srams
<1>2. \A k \in 0..6 : k \in cs <=> wen /\ waddr \div Depth = k
  BY DEF Buf!sram_cs, Buf!Srams
<1>3. \A k : wen => addr(k) = waddr % Depth
  <2> SUFFICES ASSUME NEW k, wen PROVE addr(k) = waddr % Depth
    OBVIOUS
  <2> DEFINE users == (IF wen THEN {waddr % Depth} ELSE {})
                        \cup {a % Depth : a \in {b \in Buf!sram_raddr(raddr) : FALSE /\ b \div Depth = k}}
  <2>1. users = {waddr % Depth}
    OBVIOUS
  <2>2. addr(k) = IF \E c \in users : users = {c} THEN CHOOSE c \in users : TRUE ELSE Buf!Mixed
    BY DEF Buf!sram_addr
  <2> HIDE DEF users, addr
  <2> QED
    BY <2>1, <2>2
<1> HIDE DEF cs, addr
<1>4. DOMAIN mem_r = 0..6 /\ \A k \in 0..6 : DOMAIN mem_r[k] = 0..Depth
  BY DEF Storing
<1>5. \A k \in 0..6 : mem_r'[k] = IF wen /\ waddr \div Depth = k
                                  THEN [mem_r[k] EXCEPT ![waddr % Depth] = wdata] ELSE mem_r[k]
  BY <1>1, <1>2, <1>3
<1>6. DOMAIN mem_r' = 0..6 /\ DOMAIN addr_r' = 0..6 /\ \A k \in 0..6 : DOMAIN mem_r'[k] = 0..Depth
  BY <1>1, <1>4, <1>5
<1>7. ASSUME NEW a \in 0..(7 * Depth - 1)
      PROVE  Cell(a)' = IF wen /\ a = waddr THEN wdata ELSE Cell(a)
  <2> DEFINE k == a \div Depth
             c == a % Depth
             l == waddr \div Depth
             d == waddr % Depth
  <2>1. /\ k \in 0..6 /\ c \in 0..(Depth - 1) /\ l \in 0..6 /\ d \in 0..(Depth - 1)
        /\ c \in 0..Depth /\ d \in 0..Depth
    BY CellInSram, Sizes
  <2>2. k = l /\ c = d <=> a = waddr
    <3>1. a \in Int /\ waddr \in Int
      BY Sizes
    <3> QED
      BY <3>1, CellOwn
  <2>3. Cell(a)' = mem_r'[k][c] /\ Cell(a) = mem_r[k][c]
    BY DEF Cell
  <2>4. mem_r'[k] = IF wen /\ l = k THEN [mem_r[k] EXCEPT ![d] = wdata] ELSE mem_r[k]
    BY <1>5, <2>1
  <2> HIDE DEF k, c, l, d
  <2>5. DOMAIN mem_r[k] = 0..Depth
    BY <1>4, <2>1
  <2>6. CASE wen /\ l = k
    <3>1. mem_r'[k][c] = IF c = d THEN wdata ELSE mem_r[k][c]
      BY <2>1, <2>4, <2>5, <2>6
    <3> QED
      BY <2>2, <2>3, <2>6, <3>1
  <2>7. CASE ~(wen /\ l = k)
    BY <2>2, <2>3, <2>4, <2>7
  <2> QED
    BY <2>6, <2>7
<1> QED
  BY <1>6, <1>7

\* An answer goes to its place.
LEMMA LoadStoring ==
  ASSUME LayoutInv, NEW rsp \in BOOLEAN, NEW start \in BOOLEAN, NEW lastAnswer \in BOOLEAN,
         lastAnswer <=> rsp /\ receive_cnt = ImapWords - 1,
         rsp => imap_biu2arb_req /\ outstanding > 0,
         start => ~imap_biu2arb_req /\ ~imap_done,
         imap_biu2arb_req' = (start \/ (imap_biu2arb_req /\ ~lastAnswer)),
         receive_cnt' = IF lastAnswer THEN 0 ELSE IF rsp THEN receive_cnt + 1 ELSE receive_cnt,
         former_bits' = IF receive_cnt % 2 = 0 /\ rsp THEN Word(0, receive_cnt) ELSE former_bits,
         loads' = IF start THEN loads + 1 ELSE loads,
         Buf!Clock(receive_cnt % 2 = 1 /\ rsp, Biu!imap_waddr,
                   <<former_bits, Word(0, receive_cnt)>>, FALSE, [group |-> 0, offset |-> 0])
  PROVE  Storing'
<1>1. /\ Counting /\ Storing
      /\ receive_cnt \in 0..(ImapWords - 1) /\ loads \in Nat /\ (imap_biu2arb_req => loads > 0)
      /\ (~imap_biu2arb_req => receive_cnt = 0)
  BY DEF LayoutInv, Counting
<1>2. /\ receive_cnt % 2 = 1 => former_bits = Word(0, receive_cnt - 1)
      /\ \A o \in Offsets, r \in Pairs : Arrived(o, r) => Cell(Place(o, r)) = PairOf(o, r)
  BY <1>1 DEF Storing
<1> DEFINE wen == receive_cnt % 2 = 1 /\ rsp
<1>3. wen \in BOOLEAN /\ receive_cnt % 2 \in 0..1 /\ ImapWords \in Nat /\ ImapWords % 2 = 0 /\ ImapWords >= 16
  BY <1>1, Sizes
<1>4. rsp => ~start /\ loads' = loads
  OBVIOUS
<1>5. receive_cnt' % 2 = 1 => former_bits' = Word(0, receive_cnt - 1)'
  <2> SUFFICES ASSUME receive_cnt' % 2 = 1 PROVE former_bits' = Word(0, receive_cnt - 1)'
    OBVIOUS
  <2>1. CASE rsp
    <3>1. ~lastAnswer /\ receive_cnt' = receive_cnt + 1 /\ receive_cnt % 2 = 0
      BY <1>1, <1>3, <2>1
    <3>2. former_bits' = Word(0, receive_cnt) /\ receive_cnt' - 1 = receive_cnt
      BY <1>1, <2>1, <3>1
    <3> QED
      BY <1>4, <2>1, <3>2 DEF Word
  <2>2. CASE ~rsp
    <3>1. receive_cnt' = receive_cnt /\ former_bits' = former_bits /\ receive_cnt % 2 = 1
      BY <2>2
    <3>2. ~start /\ loads' = loads
      BY <1>1, <3>1
    <3> QED
      BY <1>2, <3>1, <3>2 DEF Word
  <2> QED
    BY <2>1, <2>2
<1>6. CASE wen
  <2>1. PICK o \in Offsets, r \in Pairs :
          receive_cnt = 16 * o + 2 * r + 1 /\ Biu!imap_waddr = Place(o, r)
    BY <1>1, <1>6, WriterPlace
  <2>2. Place(o, r) \in 0..(7 * Depth - 1)
    BY PlaceInRange
  <2> DEFINE wdata == <<former_bits, Word(0, receive_cnt)>>
  <2>3. wdata = PairOf(o, r)
    <3>1. former_bits = Word(0, receive_cnt - 1)
      BY <1>2, <1>6
    <3>2. Word(0, receive_cnt - 1) = Word(o, 2 * r) /\ Word(0, receive_cnt) = Word(o, 2 * r + 1)
      <4>1. (loads - 1) * ImapWords \in Int
        BY <1>1, Sizes
      <4> DEFINE z == (loads - 1) * ImapWords
      <4> HIDE DEF z
      <4>2. /\ z + 16 * 0 + (receive_cnt - 1) = z + 16 * o + 2 * r
            /\ z + 16 * 0 + receive_cnt = z + 16 * o + (2 * r + 1)
        BY <2>1, <4>1, Sizes DEF z, Offsets, Pairs
      <4> QED
        BY <4>2 DEF Word, z
    <3> QED
      BY <3>1, <3>2 DEF PairOf
  <2>4. Buf!Clock(wen, Place(o, r), wdata, FALSE, [group |-> 0, offset |-> 0])
    BY <2>1
  <2> HIDE DEF wdata, wen
  <2>5. /\ DOMAIN mem_r' = 0..6 /\ \A k \in 0..6 : DOMAIN mem_r'[k] = 0..Depth
        /\ DOMAIN addr_r' = 0..6
        /\ \A a \in 0..(7 * Depth - 1) : Cell(a)' = IF wen /\ a = Place(o, r) THEN wdata ELSE Cell(a)
    BY <1>1, <1>3, <2>2, <2>4, WriteStep
  <2>6. ASSUME NEW u \in Offsets, NEW q \in Pairs, Arrived(u, q)'
        PROVE  Cell(Place(u, q))' = PairOf(u, q)'
    <3>1. PairOf(u, q)' = PairOf(u, q) /\ Place(u, q)' = Place(u, q)
      BY <1>4, <1>6 DEF PairOf, Word, wen, Place, Block
    <3>2. Place(u, q) \in 0..(7 * Depth - 1)
      BY PlaceInRange
    <3>3. Cell(Place(u, q))' = IF Place(u, q) = Place(o, r) THEN wdata ELSE Cell(Place(u, q))
      BY <1>6, <2>5, <3>2
    <3>4. CASE u = o /\ q = r
      BY <2>3, <3>1, <3>3, <3>4
    <3>5. CASE ~(u = o /\ q = r)
      <4>1. Place(u, q) # Place(o, r)
        BY <3>5, PlaceOwn
      <4>2. 16 * u + 2 * q + 1 < receive_cnt
        <5>1. 16 * u + 2 * q + 1 <= receive_cnt
          <6>1. CASE lastAnswer
            BY <6>1, Sizes DEF Offsets, Pairs
          <6>2. CASE ~lastAnswer
            <7>1. imap_biu2arb_req' /\ receive_cnt' = receive_cnt + 1
              BY <1>6, <6>2 DEF wen
            <7>2. 16 * u + 2 * q + 1 < receive_cnt + 1
              BY <2>6, <7>1 DEF Arrived
            <7> QED
              BY <1>1, <7>2, Sizes DEF Offsets, Pairs
          <6> QED
            BY <6>1, <6>2
        <5>2. 16 * u + 2 * q + 1 # 16 * o + 2 * r + 1
          BY <3>5, Sizes DEF Offsets, Pairs
        <5> QED
          BY <1>1, <2>1, <5>1, <5>2, Sizes DEF Offsets, Pairs
      <4>3. Cell(Place(u, q)) = PairOf(u, q)
        BY <1>2, <4>2 DEF Arrived
      <4> QED
        BY <3>1, <3>3, <4>1, <4>3
    <3> QED
      BY <3>4, <3>5
  <2> QED
    BY <1>5, <2>5, <2>6 DEF Storing
<1>7. CASE ~wen
  <2>1. 0 \in 0..(7 * Depth - 1)
    BY Sizes
  <2>2. /\ DOMAIN mem_r' = 0..6 /\ \A k \in 0..6 : DOMAIN mem_r'[k] = 0..Depth
        /\ DOMAIN addr_r' = 0..6
        /\ \A a \in 0..(7 * Depth - 1) : Cell(a)' = Cell(a)
    <3>1. Buf!Clock(wen, Biu!imap_waddr, <<former_bits, Word(0, receive_cnt)>>,
                    FALSE, [group |-> 0, offset |-> 0])
      OBVIOUS
    <3> HIDE DEF wen
    <3>2. Buf!Clock(wen, 0, <<former_bits, Word(0, receive_cnt)>>, FALSE, [group |-> 0, offset |-> 0])
      BY <1>7, <3>1 DEF Buf!Clock, Buf!sram_cs, Buf!sram_addr
    <3> QED
      BY <1>1, <1>3, <1>7, <2>1, <3>2, WriteStep
  <2>3. ASSUME NEW u \in Offsets, NEW q \in Pairs, Arrived(u, q)'
        PROVE  Cell(Place(u, q))' = PairOf(u, q)'
    <3>1. Arrived(u, q) /\ loads' = loads
      <4>1. CASE rsp
        <5>a. receive_cnt % 2 = 0
          BY <1>3, <1>7, <4>1
        <5>b. receive_cnt # ImapWords - 1
          BY <1>3, <5>a
        <5>1. receive_cnt % 2 = 0 /\ ~lastAnswer /\ receive_cnt' = receive_cnt + 1 /\ imap_biu2arb_req'
          BY <4>1, <5>a, <5>b
        <5>2. 16 * u + 2 * q + 1 < receive_cnt + 1
          BY <2>3, <5>1 DEF Arrived
        <5>3. 16 * u + 2 * q + 1 < receive_cnt
          BY <1>1, <5>1, <5>2, Sizes DEF Offsets, Pairs
        <5> QED
          BY <1>4, <4>1, <5>3 DEF Arrived
      <4>2. CASE ~rsp /\ start
        <5>1. receive_cnt' = 0 /\ imap_biu2arb_req'
          BY <1>1, <4>2
        <5>2. ~(16 * u + 2 * q + 1 < 0)
          BY Sizes DEF Offsets, Pairs
        <5> QED
          BY <2>3, <5>1, <5>2 DEF Arrived
      <4>3. CASE ~rsp /\ ~start
        <5>1. receive_cnt' = receive_cnt /\ imap_biu2arb_req' = imap_biu2arb_req /\ loads' = loads
          BY <1>1, <4>3 DEF Counting
        <5> QED
          BY <2>3, <5>1 DEF Arrived
      <4> QED
        BY <4>1, <4>2, <4>3
    <3>2. PairOf(u, q)' = PairOf(u, q) /\ Place(u, q)' = Place(u, q)
      BY <3>1 DEF PairOf, Word, Place, Block
    <3>3. Place(u, q) \in 0..(7 * Depth - 1)
      BY PlaceInRange
    <3> QED
      BY <1>2, <2>2, <3>1, <3>2, <3>3
  <2> QED
    BY <1>5, <2>2, <2>3 DEF Storing
<1> QED
  BY <1>6, <1>7

\* A clock of a load keeps the invariant.
LEMMA LoadStep ==
  ASSUME LayoutInv, Load
  PROVE  LayoutInv'
<1>1. PICK rdy \in BOOLEAN, rsp \in BOOLEAN, start \in BOOLEAN :
        LET issue == imap_biu2arb_vld /\ rdy
            lastIssue == issue /\ cnt = ImapWords - 1
            lastAnswer == rsp /\ receive_cnt = ImapWords - 1
            data == Word(0, receive_cnt) IN
        /\ rsp => imap_biu2arb_req /\ outstanding > 0
        /\ start => ~imap_biu2arb_req /\ ~imap_done
        /\ lastAnswer => ~imap_biu2arb_vld
        /\ i_state' = IF start THEN "run" ELSE IF lastIssue THEN "idle" ELSE i_state
        /\ cnt' = IF lastIssue THEN 0 ELSE IF issue THEN cnt + 1 ELSE cnt
        /\ imap_biu2arb_vld' = (~lastIssue /\ (start \/ imap_biu2arb_vld))
        /\ imap_biu2arb_req' = (start \/ (imap_biu2arb_req /\ ~lastAnswer))
        /\ imap_done' = (~imap_done /\ lastAnswer)
        /\ receive_cnt' = IF lastAnswer THEN 0 ELSE IF rsp THEN receive_cnt + 1 ELSE receive_cnt
        /\ former_bits' = IF receive_cnt % 2 = 0 /\ rsp THEN data ELSE former_bits
        /\ outstanding' = outstanding + (IF issue THEN 1 ELSE 0) - (IF rsp THEN 1 ELSE 0)
        /\ loads' = IF start THEN loads + 1 ELSE loads
        /\ Buf!Clock(receive_cnt % 2 = 1 /\ rsp, Biu!imap_waddr, <<former_bits, data>>,
                     FALSE, [group |-> 0, offset |-> 0])
        /\ read' = None
  BY LoadValues
<1> DEFINE issue == imap_biu2arb_vld /\ rdy
           lastIssue == issue /\ cnt = ImapWords - 1
           lastAnswer == rsp /\ receive_cnt = ImapWords - 1
<1>2. imap_biu2arb_vld \in BOOLEAN
  BY DEF LayoutInv, Counting
<1>3. issue \in BOOLEAN /\ lastIssue \in BOOLEAN /\ lastAnswer \in BOOLEAN
  BY <1>2
<1>4. /\ issue <=> imap_biu2arb_vld /\ rdy
      /\ lastIssue <=> issue /\ cnt = ImapWords - 1
      /\ lastAnswer <=> rsp /\ receive_cnt = ImapWords - 1
  OBVIOUS
<1>5. /\ rsp => imap_biu2arb_req /\ outstanding > 0
      /\ start => ~imap_biu2arb_req /\ ~imap_done
      /\ lastAnswer => ~imap_biu2arb_vld
      /\ i_state' = IF start THEN "run" ELSE IF lastIssue THEN "idle" ELSE i_state
      /\ cnt' = IF lastIssue THEN 0 ELSE IF issue THEN cnt + 1 ELSE cnt
      /\ imap_biu2arb_vld' = (~lastIssue /\ (start \/ imap_biu2arb_vld))
      /\ imap_biu2arb_req' = (start \/ (imap_biu2arb_req /\ ~lastAnswer))
      /\ imap_done' = (~imap_done /\ lastAnswer)
      /\ receive_cnt' = IF lastAnswer THEN 0 ELSE IF rsp THEN receive_cnt + 1 ELSE receive_cnt
      /\ outstanding' = outstanding + (IF issue THEN 1 ELSE 0) - (IF rsp THEN 1 ELSE 0)
      /\ loads' = IF start THEN loads + 1 ELSE loads
  BY <1>1
<1>6. /\ former_bits' = IF receive_cnt % 2 = 0 /\ rsp THEN Word(0, receive_cnt) ELSE former_bits
      /\ Buf!Clock(receive_cnt % 2 = 1 /\ rsp, Biu!imap_waddr,
                   <<former_bits, Word(0, receive_cnt)>>, FALSE, [group |-> 0, offset |-> 0])
      /\ read' = None
  BY <1>1
<1> HIDE DEF issue, lastIssue, lastAnswer
<1>7. Counting'
  BY <1>3, <1>4, <1>5, LoadCounting
<1>8. Storing'
  BY <1>3, <1>4, <1>5, <1>6, LoadStoring
<1>9. PairsOfPixel'
  BY <1>6 DEF PairsOfPixel
<1> QED
  BY <1>7, <1>8, <1>9 DEF LayoutInv

\* Before the first load nothing is counted and nothing stored.
LEMMA InitLayout == Init => LayoutInv
<1> SUFFICES ASSUME Init PROVE LayoutInv
  OBVIOUS
<1>1. /\ i_state = "idle" /\ cnt = 0 /\ ~imap_biu2arb_req /\ ~imap_biu2arb_vld /\ receive_cnt = 0
      /\ ~imap_done /\ outstanding = 0 /\ loads = 0 /\ read = None
      /\ imap_biu2arb_req \in BOOLEAN /\ imap_biu2arb_vld \in BOOLEAN /\ imap_done \in BOOLEAN
      /\ mem_r = [k \in 0..6 |-> [c \in 0..Depth |-> None]] /\ addr_r = [k \in 0..6 |-> 0]
  BY DEF Init, Biu!Init, Buf!Init, Buf!Srams
<1>2. Counting
  BY <1>1, Sizes DEF Counting, issued
<1>3. Storing
  <2>1. \A o \in Offsets, r \in Pairs : ~Arrived(o, r)
    BY <1>1, Sizes DEF Arrived, Offsets, Pairs
  <2>2. /\ DOMAIN mem_r = 0..6 /\ \A k \in 0..6 : DOMAIN mem_r[k] = 0..Depth
        /\ DOMAIN addr_r = 0..6 /\ receive_cnt % 2 # 1
    BY <1>1
  <2> QED
    BY <2>1, <2>2 DEF Storing
<1>4. PairsOfPixel
  BY <1>1 DEF PairsOfPixel
<1> QED
  BY <1>2, <1>3, <1>4 DEF LayoutInv

\* Every step keeps the invariant.
LEMMA NextLayout ==
  ASSUME LayoutInv, [Next]_vars
  PROVE  LayoutInv'
<1>1. CASE Load
  BY <1>1, LoadStep
<1>2. CASE Read
  BY <1>2, ReadStep
<1>3. CASE UNCHANGED vars
  <2>1. /\ i_state' = i_state /\ cnt' = cnt /\ imap_biu2arb_req' = imap_biu2arb_req
        /\ imap_biu2arb_vld' = imap_biu2arb_vld
        /\ receive_cnt' = receive_cnt /\ former_bits' = former_bits /\ imap_done' = imap_done
        /\ mem_r' = mem_r /\ addr_r' = addr_r /\ sram_cs_d' = sram_cs_d
        /\ outstanding' = outstanding /\ loads' = loads /\ read' = read
    BY <1>3 DEF vars, biuVars, bufVars
  <2>2. Counting'
    BY <2>1 DEF LayoutInv, Counting, issued
  <2>3. Storing'
    BY <2>1 DEF LayoutInv, Storing, Arrived, Cell, Place, Block, PairOf, Word
  <2>4. PairsOfPixel'
    <3>1. Buf!imap_rdata' = Buf!imap_rdata
      BY <2>1 DEF Buf!imap_rdata, Buf!sram_at, Buf!dout
    <3>2. \A n : Word(read.offset, n)' = Word(read.offset, n)
      BY <2>1 DEF Word
    <3> QED
      BY <2>1, <3>1, <3>2 DEF LayoutInv, PairsOfPixel
  <2> QED
    BY <2>2, <2>3, <2>4 DEF LayoutInv
<1> QED
  BY <1>1, <1>2, <1>3 DEF Next

\* Every read of the map buffer yields the pixel it names, of the map loaded last, from four SRAMs
\* at once: the addresses imap_biu makes of its counter's bits and those imap_buf makes by
\* multiplication agree, and no pair takes another's place.
THEOREM ReadsYieldPixel == Spec => []PairsOfPixel
<1>1. LayoutInv => PairsOfPixel
  BY DEF LayoutInv
<1> QED
  BY <1>1, InitLayout, NextLayout, PTL DEF Spec

\* No command is lost or answered twice: the unit rests with all words of the map asked for and
\* answered, which is what lets the next load start from zero.
THEOREM CommandsCounted == Spec => []Counting
<1>1. LayoutInv => Counting
  BY DEF LayoutInv
<1> QED
  BY <1>1, InitLayout, NextLayout, PTL DEF Spec

\* Every pair of the map is in its place between two loads, and no answer is on its way.
MapStored ==
  loads > 0 /\ ~imap_biu2arb_req =>
    /\ outstanding = 0
    /\ \A o \in Offsets, r \in Pairs : Cell(Place(o, r)) = PairOf(o, r)

\* A map is complete when it is read (imap_biu.v raises done at the last answer), and what the
\* sequencer reads then cannot change under it.
THEOREM MapComplete == Spec => []MapStored
<1>1. LayoutInv => MapStored
  <2> SUFFICES ASSUME LayoutInv, loads > 0, ~imap_biu2arb_req
               PROVE  /\ outstanding = 0
                      /\ \A o \in Offsets, r \in Pairs : Cell(Place(o, r)) = PairOf(o, r)
    BY DEF MapStored
  <2>1. outstanding = 0
    BY DEF LayoutInv, Counting, issued
  <2>2. \A o \in Offsets, r \in Pairs : Cell(Place(o, r)) = PairOf(o, r)
    BY DEF LayoutInv, Storing, Arrived
  <2> QED
    BY <2>1, <2>2
<1> QED
  BY <1>1, InitLayout, NextLayout, PTL DEF Spec
==========================================================================
