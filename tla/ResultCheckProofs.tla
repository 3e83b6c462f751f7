------------------------ MODULE ResultCheckProofs ------------------------
(* Theorems about the software's model of the accelerator, for every size of map
   and kernels and every width of the words: that its window and its bytes are
   the accelerator's.                                                          *)
EXTENDS ResultCheck, TLAPS

(***************************************************************************)
(* Words of bits.  What the lemmas say of quotients and remainders has names *)
(* of its own: the provers find a named fact where they do not find a % Q.   *)
(***************************************************************************)
SameModulo(Q, a, x) == a % Q = x % Q
SameField(W, L, R, x) == ((x % W) \div L) % R = (x \div L) % R
ReadsBack(W, H, x) ==
  /\ x >= 0 => x % W = x
  /\ x < 0 => x % W = x + W /\ x % W >= H
  /\ (IF x % W < H THEN x % W ELSE (x % W) - W) = x

\* Quotient and remainder are the only ones.
LEMMA Quotient ==
  ASSUME NEW Q \in Nat, Q >= 1, NEW k \in Int, NEW r \in 0..(Q - 1),
         NEW a \in Int, a = Q * k + r
  PROVE  a % Q = r /\ a \div Q = k
BY SMT

\* ... and there are some.
LEMMA Division ==
  ASSUME NEW a \in Int, NEW Q \in Nat, Q >= 1
  PROVE  a \div Q \in Int /\ a % Q \in 0..(Q - 1) /\ a = Q * (a \div Q) + (a % Q)
BY SMT

\* Multiples of the modulus do not matter.
LEMMA SameRemainder ==
  ASSUME NEW Q \in Nat, Q >= 1, NEW k \in Int, NEW x \in Int, NEW a \in Int, a = Q * k + x
  PROVE  SameModulo(Q, a, x)
<1> DEFINE q == x \div Q
           r == x % Q
           s == k + q
<1>1. q \in Int /\ r \in 0..(Q - 1) /\ x = Q * q + r
  BY Division
<1>2. s \in Int /\ s = k + q
  BY <1>1
<1> HIDE DEF q, r, s
<1>3. Q * s = Q * k + Q * q
  BY <1>1, <1>2, SMT
<1>4. a = Q * s + r
  BY <1>1, <1>3, SMT
<1>5. a % Q = r
  BY <1>1, <1>2, <1>4, Quotient
<1> QED
  BY <1>5 DEF r, SameModulo

\* A field of the remainder is the field of the number, if the field lies inside.
LEMMA FieldInside ==
  ASSUME NEW x \in Int, NEW L \in Nat, L >= 1, NEW R \in Nat, R >= 1, NEW K \in Nat, K >= 1,
         NEW W \in Nat, W >= 1, W = L * (R * K)
  PROVE  SameField(W, L, R, x)
<1> DEFINE k == x \div W
           w == x % W
           d == w \div L
           e == w % L
           up == (R * K) * k
           h == up + d
<1>1. k \in Int /\ w \in 0..(W - 1) /\ x = W * k + w
  BY Division
<1>2. d \in Int /\ e \in 0..(L - 1) /\ w = L * d + e
  <2>1. w \in Int
    BY <1>1
  <2> HIDE DEF w
  <2> QED
    BY <2>1, Division
<1>3. R * K \in Nat
  BY SMT
<1>4. up \in Int /\ h \in Int /\ h = up + d /\ up = (R * K) * k
  BY <1>1, <1>2, <1>3
<1> HIDE DEF k, w, d, e, up, h
<1>5. L * up = W * k
  BY <1>1, <1>3, <1>4, SMT
<1>6. L * h = L * up + L * d
  BY <1>2, <1>4, SMT
<1>7. x = L * h + e
  BY <1>1, <1>2, <1>5, <1>6, SMT
<1>8. x \div L = h
  BY <1>2, <1>4, <1>7, Quotient
<1>9. K * k \in Int /\ up = R * (K * k)
  BY <1>1, <1>4, SMT
<1>10. h % R = d % R
  <2> DEFINE z == K * k
  <2>1. z \in Int /\ h = R * z + d /\ h \in Int
    BY <1>4, <1>9
  <2> HIDE DEF z
  <2>2. SameModulo(R, h, d)
    BY <1>2, <2>1, SameRemainder
  <2> QED
    BY <2>2 DEF SameModulo
<1> QED
  BY <1>8, <1>10 DEF w, d, SameField

\* The powers of two that the fields are made of.
LEMMA Powers ==
  ASSUME NEW q \in Nat, NEW w \in 0..W3, q + B <= w
  PROVE  /\ 2^B \in Nat /\ 2^B >= 1 /\ 2^(B - 1) \in Nat /\ 2^(B - 1) >= 1 /\ 2^B = 2 * 2^(B - 1)
         /\ 2^q \in Nat /\ 2^q >= 1
         /\ 2^w \in Nat /\ 2^w >= 1 /\ 2^(w - 1) \in Nat /\ 2^(w - 1) >= 1 /\ 2^w = 2 * 2^(w - 1)
         /\ 2^(w - (q + B)) \in Nat /\ 2^(w - (q + B)) >= 1
         /\ 2^w = 2^q * (2^B * 2^(w - (q + B)))
         /\ 2^(q + B - 1) = 2^q * 2^(B - 1) /\ 2^(q + B - 1) <= 2^(w - 1)
<1>1. B \in Nat /\ B >= 1 /\ W3 \in Nat /\ w \in Nat /\ w <= W3
  BY WidthAssumption
<1>2. \A n \in 0..W3 : 2^n \in Nat /\ 2^n >= 1
  BY PowerAssumption
<1>3. \A a, n \in Nat : a + n <= W3 => 2^(a + n) = 2^a * 2^n
  <2> SUFFICES ASSUME NEW a \in Nat, NEW n \in Nat, a + n <= W3
               PROVE  2^(a + n) = 2^a * 2^n
    OBVIOUS
  <2>1. a \in 0..W3 /\ n \in 0..(W3 - a)
    BY <1>1
  <2> QED
    BY <2>1, PowerAssumption
<1>4. 2^1 = 2
  OBVIOUS
<1>5. B - 1 \in Nat /\ w - 1 \in Nat /\ 1 + (B - 1) = B /\ 1 + (w - 1) = w
  BY <1>1
<1>6. 2^B = 2 * 2^(B - 1) /\ 2^w = 2 * 2^(w - 1)
  <2>1. 1 + (B - 1) <= W3 /\ 1 + (w - 1) <= W3 /\ 1 \in Nat
    BY <1>1
  <2>2. 2^(1 + (B - 1)) = 2^1 * 2^(B - 1)
    BY <1>3, <1>5, <2>1
  <2>3. 2^(1 + (w - 1)) = 2^1 * 2^(w - 1)
    BY <1>3, <1>5, <2>1
  <2> QED
    BY <1>4, <1>5, <2>2, <2>3
<1> DEFINE u == w - (q + B)
<1>7. u \in Nat /\ B + u \in Nat /\ q + (B + u) = w /\ B + u <= W3
  BY <1>1
<1>8. 2^w = 2^q * (2^B * 2^u)
  <2>1. 2^(q + (B + u)) = 2^q * 2^(B + u)
    BY <1>1, <1>3, <1>7
  <2>2. 2^(B + u) = 2^B * 2^u
    BY <1>1, <1>3, <1>7
  <2> QED
    BY <1>7, <2>1, <2>2
<1>9. 2^(q + B - 1) = 2^q * 2^(B - 1)
  <2>1. q + (B - 1) <= W3 /\ q + (B - 1) = q + B - 1
    BY <1>1
  <2> QED
    BY <1>3, <1>5, <2>1
<1>10. 2^(q + B - 1) <= 2^(w - 1)
  <2> DEFINE v == q + B - 1
  <2>1. v \in Nat /\ v + u = w - 1 /\ v + u <= W3 /\ v \in 0..W3 /\ u \in 0..W3
    BY <1>1
  <2>2. 2^(v + u) = 2^v * 2^u
    BY <1>3, <1>7, <2>1
  <2>3. 2^v \in Nat /\ 2^u \in Nat /\ 2^u >= 1
    BY <1>2, <2>1
  <2> DEFINE V == 2^v
             U == 2^u
  <2>4. V \in Nat /\ U \in Nat /\ U >= 1 /\ 2^(w - 1) = V * U
    BY <2>1, <2>2, <2>3
  <2> HIDE DEF V, U
  <2>5. V <= V * U
    BY <2>4, SMT
  <2> QED
    BY <2>4, <2>5 DEF V
<1>11. q \in 0..W3 /\ u \in 0..W3 /\ B \in 0..W3 /\ B - 1 \in 0..W3 /\ w \in 0..W3 /\ w - 1 \in 0..W3
  BY <1>1
<1> QED
  BY <1>2, <1>6, <1>8, <1>9, <1>10, <1>11

(***************************************************************************)
(* The bytes.                                                               *)
(***************************************************************************)
\* Two's complement: what is cut to a word and fits in it is read back as it was.
LEMMA ReadBack ==
  ASSUME NEW H \in Nat, H >= 1, NEW W \in Nat, W = 2 * H, NEW x \in Int, -H <= x, x < H
  PROVE  ReadsBack(W, H, x)
<1>1. W \in Nat /\ W >= 1
  BY SMT
<1>2. CASE x >= 0
  <2>1. x = W * 0 + x /\ x \in 0..(W - 1)
    BY <1>1, <1>2
  <2>2. x % W = x
    BY <1>1, <2>1, Quotient
  <2> QED
    BY <1>1, <1>2, <2>1, <2>2 DEF ReadsBack
<1>3. CASE x < 0
  <2> DEFINE r == x + W
           k == -1
  <2>1. r \in 0..(W - 1) /\ x = W * k + r /\ r >= H /\ r = x + W /\ k \in Int
    BY <1>1, <1>3
  <2> HIDE DEF r, k
  <2>2. x % W = r
    BY <1>1, <2>1, Quotient
  <2> QED
    BY <1>1, <1>3, <2>1, <2>2 DEF ReadsBack
<1> QED
  BY <1>2, <1>3 DEF ReadsBack

\* Adding words and cutting the sum is cutting the sum of the numbers.
LEMMA CutSum ==
  ASSUME NEW W \in Nat, W >= 1, NEW x \in Int, NEW y \in Int
  PROVE  ((x % W) + (y % W)) % W = (x + y) % W
<1> DEFINE k == x \div W
           r == x % W
           l == y \div W
           s == y % W
<1>1. k \in Int /\ r \in 0..(W - 1) /\ x = W * k + r
  BY Division
<1>2. l \in Int /\ s \in 0..(W - 1) /\ y = W * l + s
  BY Division
<1> HIDE DEF k, r, l, s
<1>3. x + y = W * (k + l) + (r + s)
  BY <1>1, <1>2, SMT
<1> DEFINE a == x + y
           z == k + l
           b == r + s
<1>4. a = W * z + b /\ z \in Int /\ b \in Int /\ a \in Int
  BY <1>1, <1>2, <1>3
<1> HIDE DEF a, z, b
<1>5. SameModulo(W, a, b)
  BY <1>4, SameRemainder
<1> QED
  BY <1>5 DEF a, b, r, s, SameModulo

\* The quotient of a number that fits in the bits up to the top of a field fits in the field.
LEMMA Fits ==
  ASSUME NEW L \in Nat, L >= 1, NEW H \in Nat, H >= 1, NEW x \in Int, -(L * H) <= x, x < L * H
  PROVE  /\ -H <= x \div L /\ x \div L < H /\ x \div L \in Int
         /\ x >= 0 => x \div L >= 0
<1> DEFINE k == x \div L
           r == x % L
<1>1. k \in Int /\ r \in 0..(L - 1) /\ x = L * k + r
  BY Division
<1> HIDE DEF k, r
<1>2. k < H
  <2> SUFFICES ASSUME k >= H PROVE FALSE
    BY <1>1
  <2>1. L * k >= L * H
    BY <1>1, SMT
  <2> QED
    BY <1>1, <2>1, SMT
<1>3. -H <= k
  <2> SUFFICES ASSUME k <= -H - 1 PROVE FALSE
    BY <1>1
  <2>1. L * k <= L * (-H - 1) /\ L * (-H - 1) = -(L * H) - L
    BY <1>1, SMT
  <2> QED
    BY <1>1, <2>1, SMT
<1>4. x >= 0 => k >= 0
  <2> SUFFICES ASSUME k <= -1 PROVE x < 0
    BY <1>1
  <2>1. L * k <= L * (-1) /\ L * (-1) = -L
    BY <1>1, SMT
  <2> QED
    BY <1>1, <2>1, SMT
<1> QED
  BY <1>1, <1>2, <1>3, <1>4 DEF k

\* The sums of both visits stay below the top of their fields.
LEMMA Bounds ==
  ASSUME NEW s \in Sums3, NEW t \in Sums3, NEW a \in Sums1, NEW b \in Sums1, NEW id \in Bytes
  PROVE  /\ s \in Int /\ t \in Int /\ a \in Int /\ b \in Int /\ id \in Int
         /\ -(2^(B - 1)) <= id /\ id < 2^(B - 1)
         /\ -(2^(Q1 + B - 1)) <= a + b /\ a + b < 2^(Q1 + B - 1)
         /\ -(2^(Q3 + B - 1)) <= s + t /\ s + t < 2^(Q3 + B - 1)
         /\ -(2^(Q3 + B - 1)) <= s + t + a + b + id /\ s + t + a + b + id < 2^(Q3 + B - 1)
<1> DEFINE h == 2^(B - 1)
           g == 4^(B - 1)
           v == Words * g
           f1 == 2^(Q1 + B - 1)
           f3 == 2^(Q3 + B - 1)
<1>1. /\ h \in Nat /\ h >= 1 /\ g = h * h /\ Words \in Nat /\ Words >= 1
      /\ f1 \in Int /\ f3 \in Int
  <2>1. Q3 \in Nat /\ W3 \in 0..W3 /\ Q3 + B <= W3 /\ Q1 \in Nat
    BY WidthAssumption, SumAssumption
  <2>2. h \in Nat /\ h >= 1
    BY <2>1, Powers
  <2>3. f1 \in Int /\ f3 \in Int
    BY WidthAssumption
  <2> QED
    BY <2>2, <2>3, PowerAssumption, SumAssumption
<1> HIDE DEF h, f1, f3
<1>2. g \in Nat /\ g >= 1
  <2>1. h * h \in Nat /\ h * h >= 1
    BY <1>1, SMT
  <2> QED
    BY <1>1, <2>1
<1> HIDE DEF g
<1>3. v \in Nat /\ v >= 1
  BY <1>1, <1>2, SMT
<1>4. /\ Largest(2 * Words, Taps) = 18 * v /\ Largest(2 * Words, 1) = 2 * v
      /\ Largest(4 * Words, Taps + 1) = 40 * v /\ Largest(4 * Words, 1) = 4 * v
  <2>1. /\ 2 * Words * 9 * g = 18 * v /\ 2 * Words * 1 * g = 2 * v
        /\ 4 * Words * (9 + 1) * g = 40 * v /\ 4 * Words * 1 * g = 4 * v
    BY <1>1, <1>2, SMT
  <2> QED
    BY <2>1 DEF Largest, Taps, g
<1> HIDE DEF v
<1>5. /\ s \in -(18 * v) .. 18 * v /\ t \in -(18 * v) .. 18 * v
      /\ a \in -(2 * v) .. 2 * v /\ b \in -(2 * v) .. 2 * v
      /\ id \in -h .. h - 1
      /\ 40 * v + h <= f3 /\ 4 * v < f1
  BY <1>4, SumAssumption DEF h, f1, f3
<1>6. /\ -h <= id /\ id < h
      /\ -f1 <= a + b /\ a + b < f1 /\ -f3 <= s + t /\ s + t < f3
      /\ -f3 <= s + t + a + b + id /\ s + t + a + b + id < f3
      /\ s \in Int /\ t \in Int /\ a \in Int /\ b \in Int /\ id \in Int
  BY <1>1, <1>3, <1>5
<1> QED
  BY <1>6 DEF h, f1, f3

\* A byte cut out of a word is the byte cut out of the number, and the top of the number
\* if that is below the top of the field.
LEMMA FieldOfWord ==
  ASSUME NEW q \in Nat, NEW w \in 0..W3, q + B <= w, NEW x \in Int
  PROVE  /\ Field(BitsOf(x, w), q) = masked(x, q)
         /\ -(2^(q + B - 1)) <= x /\ x < 2^(q + B - 1) =>
              /\ SignedOf(BitsOf(x, w), w) = x
              /\ SignedOf(masked(x, q), B) = x \div 2^q
              /\ x >= 0 => masked(x, q) = x \div 2^q
              /\ BitsOf(x, w) < 2^(w - 1) <=> x >= 0
<1> DEFINE L == 2^q
           R == 2^B
           G == 2^(B - 1)
           K == 2^(w - (q + B))
           W == 2^w
           H == 2^(w - 1)
           F == 2^(q + B - 1)
<1>1. /\ L \in Nat /\ L >= 1 /\ R \in Nat /\ R >= 1 /\ G \in Nat /\ G >= 1 /\ R = 2 * G
      /\ K \in Nat /\ K >= 1 /\ W \in Nat /\ W >= 1 /\ H \in Nat /\ H >= 1 /\ W = 2 * H
      /\ W = L * (R * K) /\ F = L * G /\ F <= H
  BY Powers
<1>2. F \in Int
  BY WidthAssumption
<1>a. /\ Field(BitsOf(x, w), q) = ((x % W) \div L) % R
      /\ masked(x, q) = (x \div L) % R
      /\ BitsOf(x, w) = x % W
      /\ SignedOf(BitsOf(x, w), w) = IF x % W < H THEN x % W ELSE (x % W) - W
      /\ SignedOf(masked(x, q), B) = IF (x \div L) % R < G THEN (x \div L) % R ELSE ((x \div L) % R) - R
  BY DEF Field, BitsOf, masked, SignedOf
<1>b. BitsOf(x, w) < 2^(w - 1) <=> x % W < H
  BY <1>a
<1>c. (-(2^(q + B - 1)) <= x /\ x < 2^(q + B - 1)) <=> (-F <= x /\ x < F)
  OBVIOUS
<1>d. x \div 2^q = x \div L
  OBVIOUS
<1> HIDE DEF L, R, G, K, W, H, F
<1>3. SameField(W, L, R, x)
  BY <1>1, FieldInside
<1>4. ASSUME -F <= x, x < F
      PROVE  /\ (IF x % W < H THEN x % W ELSE (x % W) - W) = x
             /\ (IF (x \div L) % R < G THEN (x \div L) % R ELSE ((x \div L) % R) - R) = x \div L
             /\ x >= 0 => (x \div L) % R = x \div L
             /\ x % W < H <=> x >= 0
  <2>1. -H <= x /\ x < H
    BY <1>1, <1>2, <1>4
  <2>2. /\ x >= 0 => x % W = x
        /\ x < 0 => x % W = x + W /\ x % W >= H
        /\ (IF x % W < H THEN x % W ELSE (x % W) - W) = x
    <3>1. ReadsBack(W, H, x)
      BY <1>1, <2>1, ReadBack
    <3> QED
      BY <3>1 DEF ReadsBack
  <2>3. x % W < H <=> x >= 0
    <3>1. CASE x >= 0
      BY <2>1, <2>2, <3>1
    <3>2. CASE x < 0
      <4> DEFINE u == x % W
      <4>1. u \in Int /\ u >= H
        BY <1>1, <2>2, <3>2
      <4> HIDE DEF u
      <4>2. ~(u < H)
        BY <1>1, <4>1
      <4> QED
        BY <3>2, <4>2 DEF u
    <3> QED
      BY <3>1, <3>2
  <2>4. /\ -G <= x \div L /\ x \div L < G /\ x \div L \in Int
        /\ x >= 0 => x \div L >= 0
    <3>1. -(L * G) <= x /\ x < L * G
      BY <1>1, <1>4
    <3> QED
      BY <1>1, <3>1, Fits
  <2> DEFINE y == x \div L
  <2>5. y \in Int /\ -G <= y /\ y < G /\ (x >= 0 => y >= 0)
    BY <2>4
  <2> HIDE DEF y
  <2>6. /\ y >= 0 => y % R = y
        /\ (IF y % R < G THEN y % R ELSE (y % R) - R) = y
    <3>1. ReadsBack(R, G, y)
      BY <1>1, <2>5, ReadBack
    <3> QED
      BY <2>5, <3>1 DEF ReadsBack
  <2> QED
    BY <2>2, <2>3, <2>5, <2>6 DEF y
<1> QED
  BY <1>a, <1>b, <1>c, <1>d, <1>3, <1>4 DEF SameField

\* Both programs make the same three bytes of the same sums, the software's as int8_t, and no
\* byte loses a bit of its sum.
LEMMA BytesRight ==
  ASSUME NEW s \in Sums3, NEW t \in Sums3, NEW a \in Sums1, NEW b \in Sums1,
         NEW id \in Bytes, NEW other \in Bytes, NEW half \in BOOLEAN
  PROVE  LET hard == Accelerator(s, t, a, b, id, other, half)
             sum == a + b + s + t + id IN
         /\ \A n \in 1..3 : Software(s + t, a + b, id)[n] = SignedOf(hard[n], B)
         /\ SignedOf(hard[1], B) = (a + b) \div 2^Q1
         /\ SignedOf(hard[2], B) = (s + t) \div 2^Q3
         /\ hard[3] = IF sum < 0 THEN 0 ELSE sum \div 2^Q3
<1> DEFINE hard == Accelerator(s, t, a, b, id, other, half)
           x1 == a + b
           x3 == s + t
           y == x3 + x1 + id
<1>1. /\ s \in Int /\ t \in Int /\ a \in Int /\ b \in Int /\ id \in Int
      /\ -(2^(B - 1)) <= id /\ id < 2^(B - 1)
      /\ -(2^(Q1 + B - 1)) <= x1 /\ x1 < 2^(Q1 + B - 1)
      /\ -(2^(Q3 + B - 1)) <= x3 /\ x3 < 2^(Q3 + B - 1)
      /\ -(2^(Q3 + B - 1)) <= s + t + a + b + id /\ s + t + a + b + id < 2^(Q3 + B - 1)
  BY Bounds
<1>2. y = s + t + a + b + id /\ y = a + b + s + t + id /\ y = id + x3 + x1
  BY <1>1
<1>3. /\ -(2^(Q3 + B - 1)) <= y /\ y < 2^(Q3 + B - 1)
      /\ x1 \in Int /\ x3 \in Int /\ y \in Int
  BY <1>1, <1>2
<1>4. /\ Q1 \in Nat /\ W1 \in 0..W3 /\ Q1 + B <= W1
      /\ Q3 \in Nat /\ W3 \in 0..W3 /\ Q3 + B <= W3
      /\ W3 \in Nat /\ W1 \in Nat /\ B \in Nat /\ 0 + B <= W3 /\ 0 \in Nat
  BY WidthAssumption, SumAssumption
<1>5. /\ 2^W3 \in Nat /\ 2^W3 >= 1 /\ 2^W1 \in Nat /\ 2^W1 >= 1 /\ 2^B \in Nat /\ 2^B >= 1
      /\ 2^(B - 1) \in Nat /\ 2^(B - 1) >= 1 /\ 2^B = 2 * 2^(B - 1) /\ 2^Q3 \in Nat /\ 2^Q3 >= 1
  BY <1>4, Powers
<1> DEFINE first == Visit(s, a, IF ~half THEN id ELSE other)
           second == Visit(t, b, IF half THEN id ELSE other)
           data == Accumulated(first, second, half)
<1>6. data.map_3x3 = BitsOf(x3, W3)
  <2>1. data.map_3x3 = ((s % 2^W3) + (t % 2^W3)) % 2^W3
    BY DEF Accumulated, Visit, BitsOf
  <2> DEFINE W == 2^W3
  <2>2. W \in Nat /\ W >= 1
    BY <1>5
  <2> HIDE DEF W
  <2>3. ((s % W) + (t % W)) % W = (s + t) % W
    BY <1>1, <2>2, CutSum
  <2> QED
    BY <2>1, <2>3 DEF W, BitsOf
<1>7. data.map_1x1 = BitsOf(x1, W1)
  <2>1. data.map_1x1 = ((a % 2^W1) + (b % 2^W1)) % 2^W1
    BY DEF Accumulated, Visit, BitsOf
  <2> DEFINE W == 2^W1
  <2>2. W \in Nat /\ W >= 1
    BY <1>5
  <2> HIDE DEF W
  <2>3. ((a % W) + (b % W)) % W = (a + b) % W
    BY <1>1, <2>2, CutSum
  <2> QED
    BY <2>1, <2>3 DEF W, BitsOf
<1>8. data.identity = BitsOf(id, B)
  <2>1. CASE half
    BY <2>1 DEF Accumulated, Visit
  <2>2. CASE ~half
    BY <2>2 DEF Accumulated, Visit
  <2> QED
    BY <2>1, <2>2
<1>9. Accelerator(s, t, a, b, id, other, half) = map_merger_data_out(data)
  BY DEF Accelerator
<1> HIDE DEF first, second, data, x1, x3, y
<1>10. SignedOf(BitsOf(id, B), B) = id
  <2> DEFINE G == 2^(B - 1)
             R == 2^B
  <2>1. G \in Nat /\ G >= 1 /\ R \in Nat /\ R = 2 * G /\ -G <= id /\ id < G
    BY <1>1, <1>5
  <2>2. SignedOf(BitsOf(id, B), B) = IF id % R < G THEN id % R ELSE (id % R) - R
    BY DEF SignedOf, BitsOf
  <2> HIDE DEF G, R
  <2>3. ReadsBack(R, G, id)
    BY <1>1, <2>1, ReadBack
  <2> QED
    BY <2>2, <2>3 DEF ReadsBack
<1>11. /\ Field(BitsOf(x1, W1), Q1) = masked(x1, Q1) /\ SignedOf(BitsOf(x1, W1), W1) = x1
       /\ SignedOf(masked(x1, Q1), B) = x1 \div 2^Q1
  BY <1>1, <1>3, <1>4, FieldOfWord DEF x1
<1>12. /\ Field(BitsOf(x3, W3), Q3) = masked(x3, Q3) /\ SignedOf(BitsOf(x3, W3), W3) = x3
       /\ SignedOf(masked(x3, Q3), B) = x3 \div 2^Q3
  BY <1>1, <1>3, <1>4, FieldOfWord DEF x3
<1>13. /\ Field(BitsOf(y, W3), Q3) = masked(y, Q3)
       /\ y >= 0 => masked(y, Q3) = y \div 2^Q3
       /\ BitsOf(y, W3) < 2^(W3 - 1) <=> y >= 0
  BY <1>3, <1>4, FieldOfWord
<1>14. merge_result(data) = BitsOf(y, W3)
  BY <1>2, <1>6, <1>7, <1>8, <1>10, <1>11, <1>12 DEF merge_result
<1>15. Field(0, Q3) = 0 /\ masked(0, Q3) = 0
  <2> DEFINE L == 2^Q3
             R == 2^B
  <2>1. L \in Nat /\ L >= 1 /\ R \in Nat /\ R >= 1
    BY <1>5
  <2>2. Field(0, Q3) = (0 \div L) % R /\ masked(0, Q3) = (0 \div L) % R
    BY DEF Field, masked
  <2> HIDE DEF L, R
  <2>3. 0 \div L = 0 /\ 0 % R = 0
    BY <2>1, SMT
  <2> QED
    BY <2>2, <2>3
<1> DEFINE z == IF y < 0 THEN 0 ELSE y
<1>16. Field(act_merge(data), Q3) = masked(z, Q3)
  <2>1. CASE y >= 0
    <3>1. act_merge(data) = BitsOf(y, W3)
      BY <1>13, <1>14, <2>1 DEF act_merge
    <3>2. z = y
      BY <1>3, <2>1
    <3> QED
      BY <1>13, <3>1, <3>2
  <2>2. CASE y < 0
    <3>1. ~(y >= 0)
      BY <1>3, <2>2
    <3>2. act_merge(data) = 0
      BY <1>13, <1>14, <3>1 DEF act_merge
    <3> QED
      BY <1>15, <2>2, <3>2
  <2> QED
    BY <1>3, <2>1, <2>2
<1>17. masked(z, Q3) = IF y < 0 THEN 0 ELSE y \div 2^Q3
  <2>1. CASE y >= 0
    <3>1. ~(y < 0)
      BY <1>3, <2>1
    <3> QED
      BY <1>13, <2>1, <3>1
  <2>2. CASE y < 0
    BY <1>15, <2>2
  <2> QED
    BY <1>3, <2>1, <2>2
<1>18. map_merger_data_out(data) = <<masked(x1, Q1), masked(x3, Q3), masked(z, Q3)>>
  BY <1>6, <1>7, <1>11, <1>12, <1>16 DEF map_merger_data_out
<1>19. Software(s + t, a + b, id) =
         <<SignedOf(masked(x1, Q1), B), SignedOf(masked(x3, Q3), B), SignedOf(masked(z, Q3), B)>>
  BY DEF Software, quan, x1, x3, y
<1>20. hard[1] = masked(x1, Q1) /\ hard[2] = masked(x3, Q3) /\ hard[3] = masked(z, Q3)
  BY <1>9, <1>18
<1>21. \A n \in 1..3 : Software(s + t, a + b, id)[n] = SignedOf(hard[n], B)
  <2> HIDE DEF hard, z
  <2>1. \A n \in 1..3 : n = 1 \/ n = 2 \/ n = 3
    OBVIOUS
  <2> QED
    BY <1>19, <1>20, <2>1
<1> HIDE DEF z
<1>22. masked(z, Q3) = IF a + b + s + t + id < 0 THEN 0 ELSE (a + b + s + t + id) \div 2^Q3
  BY <1>2, <1>17
<1> QED
  BY <1>11, <1>12, <1>20, <1>21, <1>22 DEF x1, x3

(***************************************************************************)
(* The bytes of every pixel.                                                *)
(***************************************************************************)
BytesRightOfPixel == BytesAgree /\ BytesHoldSums

\* No byte is checked before the first pixel.
LEMMA InitBytes == Init => BytesRightOfPixel
BY DEF Init, BytesRightOfPixel, BytesAgree, BytesHoldSums

\* Quantise is the only step that makes bytes, and it makes the same ones on both sides.
LEMMA NextBytes ==
  ASSUME BytesRightOfPixel, [Next]_vars
  PROVE  BytesRightOfPixel'
<1>1. CASE checked' = checked
  BY <1>1 DEF BytesRightOfPixel, BytesAgree, BytesHoldSums
<1>2. CASE checked' = None
  BY <1>2 DEF BytesRightOfPixel, BytesAgree, BytesHoldSums
<1>3. CASE Quantise
  <2>1. PICK s \in Sums3, t \in Sums3, a \in Sums1, b \in Sums1, id \in Bytes, other \in Bytes,
             half \in BOOLEAN :
          checked' = [sums |-> <<a + b, s + t, a + b + s + t + id>>,
                      software |-> Software(s + t, a + b, id),
                      accelerator |-> Accelerator(s, t, a, b, id, other, half)]
    BY <1>3 DEF Quantise
  <2> DEFINE soft == Software(s + t, a + b, id)
             hard == Accelerator(s, t, a, b, id, other, half)
             sum == a + b + s + t + id
  <2>2. /\ \A n \in 1..3 : soft[n] = SignedOf(hard[n], B)
        /\ SignedOf(hard[1], B) = (a + b) \div 2^Q1
        /\ SignedOf(hard[2], B) = (s + t) \div 2^Q3
        /\ hard[3] = IF sum < 0 THEN 0 ELSE sum \div 2^Q3
    BY BytesRight
  <2>3. /\ checked'.software = soft /\ checked'.accelerator = hard
        /\ checked'.sums[1] = a + b /\ checked'.sums[2] = s + t /\ checked'.sums[3] = sum
    BY <2>1
  <2> HIDE DEF soft, hard, sum
  <2>4. BytesAgree'
    BY <2>2, <2>3 DEF BytesAgree
  <2>5. BytesHoldSums'
    BY <2>2, <2>3 DEF BytesHoldSums
  <2> QED
    BY <2>4, <2>5 DEF BytesRightOfPixel
<1> QED
  BY <1>1, <1>2, <1>3 DEF Next, LoadW3, LoadW1, Tap, Point, vars

\* The software and the accelerator make the same bytes of every pixel (main.c:106-114, map_merger.v:37-50),
\* whatever the sums, the operands and the visit the channel's own operand comes in.
THEOREM SameBytes == Spec => []BytesAgree
<1>1. BytesRightOfPixel => BytesAgree
  BY DEF BytesRightOfPixel
<1> QED
  BY <1>1, InitBytes, NextBytes, PTL DEF Spec

\* ... and these bytes hold their sums, rounded down: no field loses a bit above it.
THEOREM BytesExact == Spec => []BytesHoldSums
<1>1. BytesRightOfPixel => BytesHoldSums
  BY DEF BytesRightOfPixel
<1> QED
  BY <1>1, InitBytes, NextBytes, PTL DEF Spec

(***************************************************************************)
(* The window of a pixel.                                                   *)
(***************************************************************************)
LoopBounds ==
  /\ pc \in {"w3", "w1", "conv", "return"}
  /\ m \in 0..(OUT_CH - 1) /\ p \in 0..(Words - 1) /\ tap \in 0..Taps
  /\ pc = "w3" => tap < Taps
  /\ pc = "w1" => tap = 0
  /\ i \in 0..MAP_SIZE /\ j \in 0..(MAP_SIZE - 1)
  /\ pc # "return" => i < MAP_SIZE

\* The words of channel 0's kernels read so far, each in its place.
Kernel3x3Read ==
  /\ w3 \in [0..(OUT_CH - 1) -> [0..(Taps - 1) -> [0..(Words - 1) -> Nat \cup {None}]]]
  /\ pc = "w3" => offset \in Nat /\ (m = 0 => offset = tap * Words + p)
  /\ \A t \in 0..(Taps - 1), l \in 0..(Words - 1) :
       (pc # "w3" \/ m > 0 \/ t < tap \/ (t = tap /\ l < p)) => w3[0][t][l] = t * Words + l

Kernel1x1Read ==
  /\ w1 \in [0..(OUT_CH - 1) -> [0..(Words - 1) -> Nat \cup {None}]]
  /\ pc = "w1" => offset \in Nat /\ (m = 0 => offset = p)
  /\ \A l \in 0..(Words - 1) :
       (pc \in {"conv", "return"} \/ (pc = "w1" /\ (m > 0 \/ l < p))) => w1[0][l] = l

\* The part of the window the taps below n make.
InMap(r, c, t) == r + (t \div 3) \in 1..MAP_SIZE /\ c + (t % 3) \in 1..MAP_SIZE
WindowBelow(r, c, n) ==
  UNION {Products(r + (t \div 3) - 1, c + (t % 3) - 1, t * Words) :
           t \in {u \in 0..(n - 1) : InMap(r, c, u)}}

Gathered3x3 ==
  /\ pc \in {"w3", "w1"} => psum3x3 = {}
  /\ pc = "conv" /\ j < MAP_SIZE - 2 => psum3x3 = WindowBelow(i, j, tap)

Gathered1x1 ==
  /\ pc \in {"w3", "w1"} => psum1x1 = {}
  /\ pc = "conv" => psum1x1 = {} \/ (tap = Taps /\ psum1x1 = Products(i, j, 0))

WindowInv == LoopBounds /\ Kernel3x3Read /\ Kernel1x1Read /\ Gathered3x3 /\ Gathered1x1

\* A counter that wraps.
Wraps(Q, x) == (x + 1) % Q = IF x = Q - 1 THEN 0 ELSE x + 1

\* Adding one and taking the remainder wraps.
LEMMA Wrap ==
  ASSUME NEW Q \in Nat, Q >= 1, NEW x \in 0..(Q - 1)
  PROVE  Wraps(Q, x)
<1> DEFINE a == x + 1
<1>1. CASE x = Q - 1
  <2>1. a \in Int /\ a = Q * 1 + 0 /\ 0 \in 0..(Q - 1) /\ 1 \in Int
    BY <1>1
  <2> HIDE DEF a
  <2>2. a % Q = 0
    BY <2>1, Quotient
  <2> QED
    BY <1>1, <2>2 DEF Wraps, a
<1>2. CASE x # Q - 1
  <2>1. a \in 0..(Q - 1) /\ a \in Int /\ a = Q * 0 + a /\ 0 \in Int
    BY <1>2
  <2> HIDE DEF a
  <2>2. a % Q = a
    BY <2>1, Quotient
  <2> QED
    BY <1>2, <2>2 DEF Wraps, a
<1> QED
  BY <1>1, <1>2

\* The sizes as the provers need them.
LEMMA Sizes == /\ MAP_SIZE \in Nat /\ MAP_SIZE >= 1 /\ OUT_CH \in Nat /\ OUT_CH >= 1
               /\ Words \in Nat /\ Words >= 1 /\ Taps = 9
BY SumAssumption DEF Taps

\* Nothing is read and nothing gathered at first.
LEMMA InitWindow == Init => WindowInv
<1> SUFFICES ASSUME Init PROVE WindowInv
  OBVIOUS
<1> USE Sizes
<1>1. LoopBounds
  BY DEF Init, LoopBounds
<1>2. Kernel3x3Read
  <2>1. w3 \in [0..(OUT_CH - 1) -> [0..(Taps - 1) -> [0..(Words - 1) -> Nat \cup {None}]]]
    BY DEF Init
  <2>2. pc = "w3" /\ m = 0 /\ tap = 0 /\ p = 0 /\ offset = 0 /\ tap * Words + p = 0
    BY DEF Init
  <2>3. \A t \in 0..(Taps - 1), l \in 0..(Words - 1) : ~(pc # "w3" \/ m > 0 \/ t < tap \/ (t = tap /\ l < p))
    BY <2>2
  <2> QED
    BY <2>1, <2>2, <2>3 DEF Kernel3x3Read
<1>3. Kernel1x1Read
  <2>1. w1 \in [0..(OUT_CH - 1) -> [0..(Words - 1) -> Nat \cup {None}]]
    BY DEF Init
  <2> QED
    BY <2>1 DEF Init, Kernel1x1Read
<1>4. Gathered3x3 /\ Gathered1x1
  BY DEF Init, Gathered3x3, Gathered1x1
<1> QED
  BY <1>1, <1>2, <1>3, <1>4 DEF WindowInv

\* A word of a 3x3 kernel is read into its place.
LEMMA LoadW3Window ==
  ASSUME WindowInv, LoadW3
  PROVE  WindowInv'
<1> USE Sizes
<1> DEFINE last == p = Words - 1
           channel == last /\ tap = Taps - 1
           all == channel /\ m = OUT_CH - 1
<1>1. /\ pc = "w3" /\ m \in 0..(OUT_CH - 1) /\ p \in 0..(Words - 1) /\ tap \in 0..(Taps - 1)
      /\ i \in 0..(MAP_SIZE - 1) /\ j \in 0..(MAP_SIZE - 1)
      /\ offset \in Nat /\ (m = 0 => offset = tap * Words + p)
      /\ w3 \in [0..(OUT_CH - 1) -> [0..(Taps - 1) -> [0..(Words - 1) -> Nat \cup {None}]]]
  <2>1. pc = "w3" /\ LoopBounds /\ Kernel3x3Read
    BY DEF WindowInv, LoadW3
  <2>2. /\ m \in 0..(OUT_CH - 1) /\ p \in 0..(Words - 1) /\ tap \in 0..(Taps - 1)
        /\ i \in 0..(MAP_SIZE - 1) /\ j \in 0..(MAP_SIZE - 1)
    BY <2>1 DEF LoopBounds
  <2>3. /\ offset \in Nat /\ (m = 0 => offset = tap * Words + p)
        /\ w3 \in [0..(OUT_CH - 1) -> [0..(Taps - 1) -> [0..(Words - 1) -> Nat \cup {None}]]]
    BY <2>1 DEF Kernel3x3Read
  <2> QED
    BY <2>1, <2>2, <2>3
<1>2. p' = IF last THEN 0 ELSE p + 1
  <2>1. Wraps(Words, p)
    BY <1>1, Wrap
  <2> QED
    BY <2>1 DEF Wraps, LoadW3
<1>3. m' = IF channel THEN IF m = OUT_CH - 1 THEN 0 ELSE m + 1 ELSE m
  <2>1. Wraps(OUT_CH, m)
    BY <1>1, Wrap
  <2> QED
    BY <2>1 DEF Wraps, LoadW3
<1>4. tap' = IF last THEN IF tap = Taps - 1 THEN 0 ELSE tap + 1 ELSE tap
  <2>1. Wraps(Taps, tap)
    BY <1>1, Wrap
  <2> QED
    BY <2>1 DEF Wraps, LoadW3
<1>5. /\ pc' = IF all THEN "w1" ELSE "w3"
      /\ offset' = IF all THEN 0 ELSE offset + 1
      /\ w3' = [w3 EXCEPT ![m][tap][p] = offset]
      /\ w1' = w1 /\ i' = i /\ j' = j /\ psum3x3' = psum3x3 /\ psum1x1' = psum1x1
  BY DEF LoadW3
<1>6. LoopBounds'
  BY <1>1, <1>2, <1>3, <1>4, <1>5 DEF LoopBounds
<1>7. Kernel3x3Read'
  <2>1. w3' \in [0..(OUT_CH - 1) -> [0..(Taps - 1) -> [0..(Words - 1) -> Nat \cup {None}]]]
    BY <1>1, <1>5
  <2>2. pc' = "w3" => offset' \in Nat /\ (m' = 0 => offset' = tap' * Words + p')
    <3> SUFFICES ASSUME ~all PROVE offset' \in Nat /\ (m' = 0 => offset' = tap' * Words + p')
      BY <1>5
    <3>1. offset' = offset + 1 /\ offset' \in Nat
      BY <1>1, <1>5
    <3>2. ASSUME m' = 0 PROVE m = 0 /\ ~channel
      BY <1>1, <1>3, <3>2
    <3>3. CASE last /\ ~channel
      <4>1. tap' = tap + 1 /\ p' = 0 /\ p = Words - 1
        BY <1>2, <1>4, <3>3
      <4>2. (tap + 1) * Words + 0 = tap * Words + (Words - 1) + 1
        BY <1>1, SMT
      <4> QED
        BY <1>1, <3>1, <3>2, <4>1, <4>2
    <3>4. CASE ~last
      <4>1. tap' = tap /\ p' = p + 1
        BY <1>2, <1>4, <3>4
      <4>2. tap * Words + (p + 1) = tap * Words + p + 1
        BY <1>1, SMT
      <4> QED
        BY <1>1, <3>1, <3>2, <4>1, <4>2
    <3> QED
      BY <3>1, <3>2, <3>3, <3>4
  <2>3. ASSUME NEW t \in 0..(Taps - 1), NEW l \in 0..(Words - 1),
               pc' # "w3" \/ m' > 0 \/ t < tap' \/ (t = tap' /\ l < p')
        PROVE  w3'[0][t][l] = t * Words + l
    <3>1. m > 0 \/ t < tap \/ (t = tap /\ (l < p \/ l = p))
      BY <1>1, <1>2, <1>3, <1>4, <1>5, <2>3
    <3>2. CASE m = 0 /\ t = tap /\ l = p
      BY <1>1, <1>5, <3>2
    <3>3. CASE ~(m = 0 /\ t = tap /\ l = p)
      <4>1. w3'[0][t][l] = w3[0][t][l]
        BY <1>1, <1>5, <3>3
      <4>2. m > 0 \/ t < tap \/ (t = tap /\ l < p)
        BY <1>1, <3>1, <3>3
      <4> QED
        BY <4>1, <4>2 DEF WindowInv, Kernel3x3Read
    <3> QED
      BY <3>2, <3>3
  <2> QED
    BY <2>1, <2>2, <2>3 DEF Kernel3x3Read
<1>8. Kernel1x1Read'
  <2>1. w1' \in [0..(OUT_CH - 1) -> [0..(Words - 1) -> Nat \cup {None}]]
    BY <1>5 DEF WindowInv, Kernel1x1Read
  <2>2. pc' = "w1" => offset' = 0 /\ m' = 0 /\ p' = 0
    BY <1>1, <1>2, <1>3, <1>5
  <2>3. pc' \in {"w3", "w1"}
    BY <1>5
  <2> QED
    BY <2>1, <2>2, <2>3 DEF Kernel1x1Read
<1>9. Gathered3x3' /\ Gathered1x1'
  <2>1. pc' \in {"w3", "w1"} /\ psum3x3 = {} /\ psum1x1 = {}
    BY <1>1, <1>5 DEF WindowInv, Gathered3x3, Gathered1x1
  <2> QED
    BY <1>5, <2>1 DEF Gathered3x3, Gathered1x1
<1> QED
  BY <1>6, <1>7, <1>8, <1>9 DEF WindowInv

\* A word of a 1x1 kernel is read into its place; the last one starts the first pixel.
LEMMA LoadW1Window ==
  ASSUME WindowInv, LoadW1
  PROVE  WindowInv'
<1> USE Sizes
<1> DEFINE last == p = Words - 1
           all == last /\ m = OUT_CH - 1
<1>1. /\ pc = "w1" /\ m \in 0..(OUT_CH - 1) /\ p \in 0..(Words - 1) /\ tap = 0
      /\ i \in 0..MAP_SIZE /\ j \in 0..(MAP_SIZE - 1)
      /\ offset \in Nat /\ (m = 0 => offset = p)
      /\ w1 \in [0..(OUT_CH - 1) -> [0..(Words - 1) -> Nat \cup {None}]]
  <2>1. pc = "w1" /\ LoopBounds /\ Kernel1x1Read
    BY DEF WindowInv, LoadW1
  <2>2. /\ m \in 0..(OUT_CH - 1) /\ p \in 0..(Words - 1) /\ tap = 0
        /\ i \in 0..MAP_SIZE /\ j \in 0..(MAP_SIZE - 1)
    BY <2>1 DEF LoopBounds
  <2>3. /\ offset \in Nat /\ (m = 0 => offset = p)
        /\ w1 \in [0..(OUT_CH - 1) -> [0..(Words - 1) -> Nat \cup {None}]]
    BY <2>1 DEF Kernel1x1Read
  <2> QED
    BY <2>1, <2>2, <2>3
<1>2. p' = IF last THEN 0 ELSE p + 1
  <2>1. Wraps(Words, p)
    BY <1>1, Wrap
  <2> QED
    BY <2>1 DEF Wraps, LoadW1
<1>3. m' = IF last THEN IF m = OUT_CH - 1 THEN 0 ELSE m + 1 ELSE m
  <2>1. Wraps(OUT_CH, m)
    BY <1>1, Wrap
  <2> QED
    BY <2>1 DEF Wraps, LoadW1
<1>4. /\ pc' = IF all THEN "conv" ELSE "w1"
      /\ offset' = offset + 1 /\ w1' = [w1 EXCEPT ![m][p] = offset]
      /\ tap' = tap /\ w3' = w3 /\ i' = i /\ j' = j /\ psum3x3' = psum3x3 /\ psum1x1' = psum1x1
  BY DEF LoadW1
<1>5. i < MAP_SIZE /\ psum3x3 = {} /\ psum1x1 = {}
  <2>1. pc \in {"w3", "w1"} => psum3x3 = {}
    BY DEF WindowInv, Gathered3x3
  <2>2. pc \in {"w3", "w1"} => psum1x1 = {}
    BY DEF WindowInv, Gathered1x1
  <2>3. pc = "w1" => i < MAP_SIZE
    BY DEF WindowInv, LoopBounds
  <2> QED
    BY <1>1, <2>1, <2>2, <2>3
<1>6. LoopBounds'
  BY <1>1, <1>2, <1>3, <1>4, <1>5 DEF LoopBounds
<1>7. Kernel3x3Read'
  <2>1. pc' # "w3" /\ pc # "w3"
    BY <1>1, <1>4
  <2>2. /\ w3 \in [0..(OUT_CH - 1) -> [0..(Taps - 1) -> [0..(Words - 1) -> Nat \cup {None}]]]
        /\ \A t \in 0..(Taps - 1), l \in 0..(Words - 1) : w3[0][t][l] = t * Words + l
    BY <2>1 DEF WindowInv, Kernel3x3Read
  <2> QED
    BY <1>4, <2>1, <2>2 DEF Kernel3x3Read
<1>8. Kernel1x1Read'
  <2>1. w1' \in [0..(OUT_CH - 1) -> [0..(Words - 1) -> Nat \cup {None}]]
    BY <1>1, <1>4
  <2>2. pc' = "w1" => offset' \in Nat /\ (m' = 0 => offset' = p')
    <3> SUFFICES ASSUME ~all PROVE offset' \in Nat /\ (m' = 0 => offset' = p')
      BY <1>4
    <3>1. offset' = offset + 1 /\ offset' \in Nat
      BY <1>1, <1>4
    <3>2. ASSUME m' = 0 PROVE m = 0 /\ ~last
      BY <1>1, <1>3, <3>2
    <3> QED
      BY <1>1, <1>2, <3>1, <3>2
  <2>3. ASSUME NEW l \in 0..(Words - 1),
               pc' \in {"conv", "return"} \/ (pc' = "w1" /\ (m' > 0 \/ l < p'))
        PROVE  w1'[0][l] = l
    <3>1. m > 0 \/ l < p \/ l = p
      BY <1>1, <1>2, <1>3, <1>4, <2>3
    <3>2. CASE m = 0 /\ l = p
      BY <1>1, <1>4, <3>2
    <3>3. CASE ~(m = 0 /\ l = p)
      <4>1. w1'[0][l] = w1[0][l]
        BY <1>1, <1>4, <3>3
      <4>2. m > 0 \/ l < p
        BY <1>1, <3>1, <3>3
      <4> QED
        BY <1>1, <4>1, <4>2 DEF WindowInv, Kernel1x1Read
    <3> QED
      BY <3>2, <3>3
  <2> QED
    BY <2>1, <2>2, <2>3 DEF Kernel1x1Read
<1>9. Gathered3x3' /\ Gathered1x1'
  <2>1. pc' \in {"w1", "conv"} /\ psum3x3' = {} /\ psum1x1' = {} /\ tap' = 0 /\ i' = i /\ j' = j
    BY <1>1, <1>4, <1>5
  <2>2. WindowBelow(i, j, 0) = {}
    <3>1. 0..(0 - 1) = {}
      OBVIOUS
    <3> QED
      BY <3>1 DEF WindowBelow
  <2> QED
    BY <2>1, <2>2 DEF Gathered3x3, Gathered1x1
<1> QED
  BY <1>6, <1>7, <1>8, <1>9 DEF WindowInv

\* The conversion leaves the kernels as they were read.
LEMMA KernelsKept ==
  ASSUME WindowInv, pc = "conv", pc' \in {"conv", "return"}, w3' = w3, w1' = w1
  PROVE  Kernel3x3Read' /\ Kernel1x1Read'
<1>1. /\ w3 \in [0..(OUT_CH - 1) -> [0..(Taps - 1) -> [0..(Words - 1) -> Nat \cup {None}]]]
      /\ \A t \in 0..(Taps - 1), l \in 0..(Words - 1) : w3[0][t][l] = t * Words + l
  BY DEF WindowInv, Kernel3x3Read
<1>2. /\ w1 \in [0..(OUT_CH - 1) -> [0..(Words - 1) -> Nat \cup {None}]]
      /\ \A l \in 0..(Words - 1) : w1[0][l] = l
  BY DEF WindowInv, Kernel1x1Read
<1> QED
  BY <1>1, <1>2 DEF Kernel3x3Read, Kernel1x1Read

\* One more tap makes one more part of the window.
LEMMA NextTap ==
  ASSUME NEW r \in Int, NEW c \in Int, NEW n \in 0..(Taps - 1)
  PROVE  WindowBelow(r, c, n + 1) =
           IF InMap(r, c, n)
             THEN WindowBelow(r, c, n) \cup Products(r + (n \div 3) - 1, c + (n % 3) - 1, n * Words)
             ELSE WindowBelow(r, c, n)
<1> DEFINE S(k) == {u \in 0..(k - 1) : InMap(r, c, u)}
           P(t) == Products(r + (t \div 3) - 1, c + (t % 3) - 1, t * Words)
<1>1. WindowBelow(r, c, n + 1) = UNION {P(t) : t \in S(n + 1)} /\ WindowBelow(r, c, n) = UNION {P(t) : t \in S(n)}
  BY DEF WindowBelow
<1>2. 0..((n + 1) - 1) = 0..(n - 1) \cup {n}
  BY Sizes
<1>3. S(n + 1) = IF InMap(r, c, n) THEN S(n) \cup {n} ELSE S(n)
  BY <1>2
<1> HIDE DEF S, P
<1> DEFINE U(A) == UNION {P(t) : t \in A}
<1>4. U(S(n) \cup {n}) = U(S(n)) \cup P(n)
  <2>1. \A A, x : x \in U(A) <=> \E t \in A : x \in P(t)
    OBVIOUS
  <2> HIDE DEF U
  <2>2. ASSUME NEW x, x \in U(S(n) \cup {n})
        PROVE  x \in U(S(n)) \cup P(n)
    <3>1. PICK t \in S(n) \cup {n} : x \in P(t)
      BY <2>1, <2>2
    <3>2. CASE t \in S(n)
      BY <2>1, <3>1, <3>2
    <3>3. CASE t = n
      BY <3>1, <3>3
    <3> QED
      BY <3>2, <3>3
  <2>3. ASSUME NEW x \in U(S(n))
        PROVE  x \in U(S(n) \cup {n})
    <3>1. PICK t \in S(n) : x \in P(t)
      BY <2>1
    <3>2. t \in S(n) \cup {n}
      OBVIOUS
    <3> QED
      BY <2>1, <3>1, <3>2
  <2>4. ASSUME NEW x \in P(n)
        PROVE  x \in U(S(n) \cup {n})
    <3>1. n \in S(n) \cup {n}
      OBVIOUS
    <3> QED
      BY <2>1, <3>1
  <2> QED
    BY <2>2, <2>3, <2>4
<1>5. CASE InMap(r, c, n)
  BY <1>1, <1>3, <1>4, <1>5 DEF P
<1>6. CASE ~InMap(r, c, n)
  BY <1>1, <1>3, <1>6
<1> QED
  BY <1>5, <1>6

\* Before the first tap the window is empty.
LEMMA NoTap == ASSUME NEW r, NEW c PROVE WindowBelow(r, c, 0) = {}
<1>1. 0..(0 - 1) = {}
  OBVIOUS
<1> QED
  BY <1>1 DEF WindowBelow

\* The state of a pixel under way.
LEMMA OfPixel ==
  ASSUME WindowInv, pc = "conv"
  PROVE  /\ m \in 0..(OUT_CH - 1) /\ p \in 0..(Words - 1) /\ tap \in 0..Taps
         /\ i \in 0..(MAP_SIZE - 1) /\ j \in 0..(MAP_SIZE - 1)
         /\ j < MAP_SIZE - 2 => psum3x3 = WindowBelow(i, j, tap)
         /\ psum1x1 = {} \/ (tap = Taps /\ psum1x1 = Products(i, j, 0))
         /\ \A t \in 0..(Taps - 1), l \in 0..(Words - 1) : w3[0][t][l] = t * Words + l
         /\ \A l \in 0..(Words - 1) : w1[0][l] = l
<1>1. /\ m \in 0..(OUT_CH - 1) /\ p \in 0..(Words - 1) /\ tap \in 0..Taps
      /\ i \in 0..MAP_SIZE /\ i < MAP_SIZE /\ j \in 0..(MAP_SIZE - 1)
  BY DEF WindowInv, LoopBounds
<1>2. i \in 0..(MAP_SIZE - 1)
  BY <1>1, Sizes
<1>3. j < MAP_SIZE - 2 => psum3x3 = WindowBelow(i, j, tap)
  BY DEF WindowInv, Gathered3x3
<1>4. psum1x1 = {} \/ (tap = Taps /\ psum1x1 = Products(i, j, 0))
  BY DEF WindowInv, Gathered1x1
<1>5. \A t \in 0..(Taps - 1), l \in 0..(Words - 1) : w3[0][t][l] = t * Words + l
  BY DEF WindowInv, Kernel3x3Read
<1>6. \A l \in 0..(Words - 1) : w1[0][l] = l
  BY DEF WindowInv, Kernel1x1Read
<1> QED
  BY <1>1, <1>2, <1>3, <1>4, <1>5, <1>6

\* A tap inside the map adds its words, a tap in the border none.
LEMMA TapWindow ==
  ASSUME WindowInv, Tap
  PROVE  WindowInv'
<1> DEFINE k == tap \div 3
           n == tap % 3
           words == {<<((i + k - 1) * MAP_SIZE + (j + n - 1)) * Words + ich, w3[och][tap][ich]>> :
                        ich \in 0..(Words - 1)}
<1>1. /\ pc = "conv" /\ pc' = pc /\ tap \in 0..(Taps - 1) /\ tap' = tap + 1
      /\ m' = m /\ p' = p /\ w3' = w3 /\ w1' = w1 /\ i' = i /\ j' = j /\ psum1x1' = psum1x1
      /\ m \in 0..(OUT_CH - 1) /\ p \in 0..(Words - 1)
      /\ i \in 0..(MAP_SIZE - 1) /\ j \in 0..(MAP_SIZE - 1)
  <2>1. /\ pc = "conv" /\ pc' = pc /\ tap < Taps /\ tap' = tap + 1
        /\ m' = m /\ p' = p /\ w3' = w3 /\ w1' = w1 /\ i' = i /\ j' = j /\ psum1x1' = psum1x1
    BY DEF Tap
  <2> QED
    BY <2>1, OfPixel, Sizes
<1>2. psum3x3' = IF padded(k, n) THEN psum3x3 ELSE psum3x3 \cup words
  BY DEF Tap
<1>3. words = Products(i + k - 1, j + n - 1, tap * Words)
  <2>1. \A l \in 0..(Words - 1) : w3[och][tap][l] = tap * Words + l
    BY <1>1, OfPixel DEF och
  <2> QED
    BY <2>1 DEF Products
<1>4. j < MAP_SIZE - 2 => (padded(k, n) <=> ~InMap(i, j, tap))
  <2>1. k \in 0..2 /\ n \in 0..2
    BY <1>1, Sizes
  <2> HIDE DEF k, n
  <2>2. j < MAP_SIZE - 2 => (padded(k, n) <=> ~(i + k \in 1..MAP_SIZE /\ j + n \in 1..MAP_SIZE))
    BY <1>1, <2>1, Sizes DEF padded
  <2> QED
    BY <2>2 DEF InMap, k, n
<1> HIDE DEF words
<1>5. Gathered3x3'
  <2>1. ASSUME j < MAP_SIZE - 2 PROVE psum3x3' = WindowBelow(i, j, tap + 1)
    <3>1. psum3x3 = WindowBelow(i, j, tap)
      BY <1>1, <2>1, OfPixel
    <3>2. WindowBelow(i, j, tap + 1) = IF InMap(i, j, tap) THEN WindowBelow(i, j, tap) \cup words
                                        ELSE WindowBelow(i, j, tap)
      <4>1. i \in Int /\ j \in Int
        BY <1>1, Sizes
      <4> QED
        BY <1>1, <1>3, <4>1, NextTap
    <3>3. CASE padded(k, n)
      BY <1>2, <1>4, <2>1, <3>1, <3>2, <3>3
    <3>4. CASE ~padded(k, n)
      BY <1>2, <1>4, <2>1, <3>1, <3>2, <3>4
    <3> QED
      BY <3>3, <3>4
  <2> QED
    BY <1>1, <2>1 DEF Gathered3x3
<1>6. Gathered1x1'
  <2>1. psum1x1 = {}
    BY <1>1, OfPixel, Sizes
  <2> QED
    BY <1>1, <2>1 DEF Gathered1x1
<1>7. LoopBounds'
  BY <1>1, Sizes DEF LoopBounds
<1>8. Kernel3x3Read' /\ Kernel1x1Read'
  BY <1>1, KernelsKept
<1> QED
  BY <1>5, <1>6, <1>7, <1>8 DEF WindowInv

\* The 1x1 sum takes the pixel's own words.
LEMMA PointWindow ==
  ASSUME WindowInv, Point
  PROVE  WindowInv'
<1>1. /\ pc = "conv" /\ pc' = pc /\ tap = Taps /\ tap' = tap
      /\ m' = m /\ p' = p /\ w3' = w3 /\ w1' = w1 /\ i' = i /\ j' = j /\ psum3x3' = psum3x3
      /\ psum1x1' = {<<(i * MAP_SIZE + j) * Words + ich, w1[och][ich]>> : ich \in 0..(Words - 1)}
  BY DEF Point
<1>2. psum1x1' = Products(i, j, 0)
  <2>1. \A l \in 0..(Words - 1) : w1[och][l] = 0 + l
    BY <1>1, OfPixel DEF och
  <2> QED
    BY <1>1, <2>1 DEF Products
<1>3. Gathered1x1'
  BY <1>1, <1>2 DEF Gathered1x1, Products
<1>4. Gathered3x3'
  BY <1>1, OfPixel DEF Gathered3x3, WindowBelow, InMap, Products
<1>5. LoopBounds'
  BY <1>1, OfPixel, Sizes DEF LoopBounds
<1>6. Kernel3x3Read' /\ Kernel1x1Read'
  BY <1>1, KernelsKept
<1> QED
  BY <1>3, <1>4, <1>5, <1>6 DEF WindowInv

\* The next pixel starts with empty sums.
LEMMA QuantiseWindow ==
  ASSUME WindowInv, Quantise
  PROVE  WindowInv'
<1>1. /\ pc = "conv" /\ psum3x3' = {} /\ psum1x1' = {} /\ tap' = 0
      /\ m' = m /\ p' = p /\ w3' = w3 /\ w1' = w1
      /\ j' = (j + 1) % MAP_SIZE
      /\ i' = IF j = MAP_SIZE - 1 THEN i + 1 ELSE i
      /\ pc' = IF j = MAP_SIZE - 1 /\ i = MAP_SIZE - 1 THEN "return" ELSE "conv"
  BY DEF Quantise
<1>2. /\ m \in 0..(OUT_CH - 1) /\ p \in 0..(Words - 1)
      /\ i \in 0..(MAP_SIZE - 1) /\ j \in 0..(MAP_SIZE - 1)
  BY <1>1, OfPixel
<1>3. j' = IF j = MAP_SIZE - 1 THEN 0 ELSE j + 1
  <2>1. Wraps(MAP_SIZE, j)
    BY <1>2, Sizes, Wrap
  <2> QED
    BY <1>1, <2>1 DEF Wraps
<1>4. LoopBounds'
  BY <1>1, <1>2, <1>3, Sizes DEF LoopBounds
<1>5. Gathered3x3'
  <2>1. WindowBelow(i', j', 0) = {}
    BY NoTap
  <2> QED
    BY <1>1, <2>1 DEF Gathered3x3
<1>6. Gathered1x1'
  BY <1>1 DEF Gathered1x1
<1>7. Kernel3x3Read' /\ Kernel1x1Read'
  BY <1>1, KernelsKept
<1> QED
  BY <1>4, <1>5, <1>6, <1>7 DEF WindowInv

\* Every step of the software keeps the invariant.
LEMMA NextWindow ==
  ASSUME WindowInv, [Next]_vars
  PROVE  WindowInv'
<1>1. CASE LoadW3
  BY <1>1, LoadW3Window
<1>2. CASE LoadW1
  BY <1>2, LoadW1Window
<1>3. CASE Tap
  BY <1>3, TapWindow
<1>4. CASE Point
  BY <1>4, PointWindow
<1>5. CASE Quantise
  BY <1>5, QuantiseWindow
<1>6. CASE UNCHANGED vars
  BY <1>6 DEF vars, WindowInv, LoopBounds, Kernel3x3Read, Kernel1x1Read, Gathered3x3, Gathered1x1,
              WindowBelow, InMap, Products
<1> QED
  BY <1>1, <1>2, <1>3, <1>4, <1>5, <1>6 DEF Next

\* The software computes every pixel from the words the accelerator computes it from, each with
\* the kernel's word of its place, but for the two last columns (main.c:69-104).
THEOREM SameWindow == Spec => []WindowUntilLastColumns
<1>1. WindowInv => WindowUntilLastColumns
  <2> SUFFICES ASSUME WindowInv, pc = "conv", tap = Taps
               PROVE  /\ j < MAP_SIZE - 2 => psum3x3 = Window
                      /\ psum1x1 # {} => psum1x1 = Products(i, j, 0)
    BY DEF WindowUntilLastColumns
  <2>1. Window = WindowBelow(i, j, Taps)
    BY DEF Window, WindowBelow, InMap
  <2> QED
    BY <2>1, OfPixel
<1>2. Spec => []WindowInv
  BY InitWindow, NextWindow, PTL DEF Spec
<1> QED
  BY <1>1, <1>2, PTL
==========================================================================
