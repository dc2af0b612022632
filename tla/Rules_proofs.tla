---------------------------- MODULE Rules_proofs ----------------------------
(***************************************************************************)
(* The retry delay, the size class and the comparison of copies, for every *)
(* counter, every request and all texts; the coarsening of every mesh; the *)
(* check of the manifest, whatever it was generated from; the audits of    *)
(* controls structs, headers, cache guards and resizes, of all programs    *)
(* they are made for; and the frames of a multigrid cycle.                 *)
(***************************************************************************)
EXTENDS Rules, Induction, SequenceTheorems

(* The doubling loop, written out: 2, 4, 8, 16, 32 and then 64 for good.    *)
Delays == [i \in Nat |-> CASE i = 0 -> 2 [] i = 1 -> 4 [] i = 2 -> 8
                           [] i = 3 -> 16 [] i = 4 -> 32 [] OTHER -> 64]

(* resultBackoffSeconds's loop has a value for every number of doublings:   *)
(* its recursion equation has a solution, so doubled is one.                *)
LEMMA DoubledEquation ==
  doubled = [i \in Nat |->
    IF i = 0 THEN kResultBackoffBaseSeconds
    ELSE IF doubled[i - 1] < kResultBackoffCapSeconds
         THEN 2 * doubled[i - 1] ELSE doubled[i - 1]]
<1> DEFINE Eq(f) == f = [i \in Nat |->
              IF i = 0 THEN kResultBackoffBaseSeconds
              ELSE IF f[i - 1] < kResultBackoffCapSeconds
                   THEN 2 * f[i - 1] ELSE f[i - 1]]
<1>1. Eq(Delays)
  <2>1. ASSUME NEW i \in Nat
        PROVE  Delays[i] = IF i = 0 THEN kResultBackoffBaseSeconds
                 ELSE IF Delays[i - 1] < kResultBackoffCapSeconds
                      THEN 2 * Delays[i - 1] ELSE Delays[i - 1]
    <3>1. CASE i = 0 BY <3>1 DEF Delays, kResultBackoffBaseSeconds
    <3>2. CASE i # 0
      <4>1. i - 1 \in Nat BY <3>2
      <4> QED BY <3>2, <4>1 DEF Delays, kResultBackoffCapSeconds
    <3> QED BY <3>1, <3>2
  <2>2. Delays = [i \in Nat |-> Delays[i]] BY DEF Delays
  <2> HIDE DEF Delays
  <2> QED BY <2>1, <2>2
<1>2. doubled = CHOOSE f : Eq(f) BY DEF doubled
<1> HIDE DEF Eq
<1>3. Eq(doubled) BY <1>1, <1>2
<1> QED BY <1>3 DEF Eq

(* It is the written-out sequence.                                          *)
LEMMA DoubledIs == doubled = Delays
<1>1. \A i \in Nat : doubled[i] = Delays[i]
  <2> DEFINE Bad == {i \in Nat : doubled[i] # Delays[i]}
  <2> SUFFICES ASSUME Bad # {} PROVE FALSE
    OBVIOUS
  <2>1. PICK i \in Bad : \A j \in Bad : i <= j
    <3>1. Bad \in SUBSET Nat OBVIOUS
    <3> HIDE DEF Bad
    <3> QED BY <3>1, LeastNatural
  <2>2. i \in Nat OBVIOUS
  <2>3. CASE i = 0
    <3>1. doubled[0] = 2
      BY DoubledEquation DEF kResultBackoffBaseSeconds
    <3>2. Delays[0] = 2 BY DEF Delays
    <3> QED BY <2>3, <3>1, <3>2
  <2>4. CASE i # 0
    <3>1. i - 1 \in Nat /\ ~(i <= i - 1) BY <2>2, <2>4
    <3>2. doubled[i - 1] = Delays[i - 1] BY <2>1, <3>1
    <3>3. doubled[i] = IF Delays[i - 1] < 60 THEN 2 * Delays[i - 1]
                       ELSE Delays[i - 1]
      BY <2>2, <2>4, <3>2, DoubledEquation DEF kResultBackoffCapSeconds
    <3>4. doubled[i] = Delays[i] BY <2>2, <2>4, <3>1, <3>3 DEF Delays
    <3> QED BY <3>4
  <2> QED BY <2>3, <2>4
<1>2. DOMAIN doubled = Nat BY DoubledEquation
<1>3. doubled = [i \in Nat |-> doubled[i]] BY DoubledEquation
<1>4. doubled = [i \in Nat |-> Delays[i]] BY <1>1, <1>3
<1> QED BY <1>4 DEF Delays

(* One more failure: the delay of the next counter is computed from the     *)
(* delay of this one, and is not shorter.                                   *)
LEMMA DelayGrows ==
  ASSUME NEW a \in Nat
  PROVE  /\ resultBackoffSeconds(a) \in 2..60
         /\ resultBackoffSeconds(a + 1) = NextDelay(resultBackoffSeconds(a))
         /\ resultBackoffSeconds(a) <= resultBackoffSeconds(a + 1)
<1>1. resultBackoffSeconds(a) = IF Delays[a] > 60 THEN 60 ELSE Delays[a]
  BY DoubledIs DEF resultBackoffSeconds, kResultBackoffCapSeconds
<1>2. a + 1 \in Nat /\ ~(a + 1 < 0) OBVIOUS
<1>3. resultBackoffSeconds(a + 1)
        = IF Delays[a + 1] > 60 THEN 60 ELSE Delays[a + 1]
  BY <1>2, DoubledIs DEF resultBackoffSeconds, kResultBackoffCapSeconds
<1> QED BY <1>1, <1>2, <1>3 DEF Delays, NextDelay, kResultBackoffCapSeconds
-----------------------------------------------------------------------------
(* The sizes classOf doubles through: the least set with 64 that doubling   *)
(* does not leave.                                                          *)
Doubling(S) == 64 \in S /\ \A c \in S : 2 * c \in S
Bases == {b \in Nat : \A S \in SUBSET Nat : Doubling(S) => b \in S}

LEMMA BasesDouble == Doubling(Bases) /\ Bases \subseteq Nat
<1>1. 64 \in Bases BY DEF Bases, Doubling
<1>2. ASSUME NEW c \in Bases PROVE 2 * c \in Bases
  <2>1. c \in Nat BY DEF Bases
  <2>2. 2 * c \in Nat BY <2>1
  <2>3. ASSUME NEW S \in SUBSET Nat, Doubling(S) PROVE 2 * c \in S
    <3>1. c \in S BY <2>3 DEF Bases
    <3> QED BY <2>3, <3>1 DEF Doubling
  <2> QED BY <2>2, <2>3 DEF Bases
<1>3. Bases \subseteq Nat BY DEF Bases
<1> QED BY <1>1, <1>2, <1>3 DEF Doubling

(* What every such size is: a multiple of 8, and none between 512 and 1024. *)
LEMMA BaseShape ==
  ASSUME NEW b \in Bases
  PROVE  /\ b \in Nat /\ b >= 64
         /\ b <= 512 \/ b >= 1024
         /\ \E s \in Nat : b = 8 * s
<1> DEFINE S == {c \in Nat : /\ c \in {64, 128, 256, 512} \/ c >= 1024
                             /\ \E s \in Nat : c = 8 * s}
<1>1. 64 \in S
  <2>1. 64 = 8 * 8 /\ 8 \in Nat /\ 64 \in Nat OBVIOUS
  <2> QED BY <2>1
<1>2. ASSUME NEW c \in S PROVE 2 * c \in S
  <2>1. PICK s \in Nat : c = 8 * s OBVIOUS
  <2>2. 2 * c = 8 * (2 * s) /\ 2 * s \in Nat /\ 2 * c \in Nat BY <2>1
  <2>3. c \in {64, 128, 256, 512} \/ c >= 1024 OBVIOUS
  <2>4. 2 * c \in {64, 128, 256, 512} \/ 2 * c >= 1024 BY <2>3, <2>2
  <2> QED BY <2>2, <2>4
<1>3. S \in SUBSET Nat OBVIOUS
<1>4. Doubling(S)
  <2> HIDE DEF S
  <2> QED BY <1>1, <1>2 DEF Doubling
<1>5. b \in S
  <2> HIDE DEF S
  <2> QED BY <1>3, <1>4 DEF Bases
<1>6. b \in Nat /\ (b \in {64, 128, 256, 512} \/ b >= 1024) BY <1>5
<1>7. \E s \in Nat : b = 8 * s BY <1>5
<1> QED BY <1>6, <1>7

(* Every one but 64 was doubled from another.                               *)
LEMMA BaseHalf ==
  ASSUME NEW b \in Bases, b # 64
  PROVE  \E c \in Bases : b = 2 * c
<1> SUFFICES ASSUME \A c \in Bases : b # 2 * c PROVE FALSE
  OBVIOUS
<1> DEFINE S == Bases \ {b}
<1>1. Doubling(S)
  <2>1. 64 \in S BY BasesDouble DEF Doubling
  <2>2. ASSUME NEW c \in S PROVE 2 * c \in S
    BY BasesDouble DEF Doubling
  <2> HIDE DEF S
  <2> QED BY <2>1, <2>2 DEF Doubling
<1>2. S \in SUBSET Nat BY BasesDouble
<1>3. b \in S
  <2> HIDE DEF S
  <2> QED BY <1>1, <1>2 DEF Bases
<1> QED BY <1>3

(* The base of a request: reached by doubling, not above the request unless *)
(* it is 64, and at least half of it.                                       *)
BaseFor(b, bytes) == b \in Bases /\ (b = 64 \/ b < bytes) /\ 2 * b >= bytes

LEMMA BaseExists ==
  ASSUME NEW bytes \in Nat
  PROVE  \E b \in Nat : BaseFor(b, bytes)
<1> DEFINE T == {b \in Bases : 2 * b >= bytes}
<1>1. T # {}
  <2> SUFFICES ASSUME T = {} PROVE FALSE
    OBVIOUS
  <2> DEFINE D == {d \in Nat : \E b \in Bases : d + 2 * b = bytes}
  <2>1. \A b \in Bases : b \in Nat /\ b >= 64 /\ 2 * b < bytes /\ 2 * b \in Bases
    <3> TAKE b \in Bases
    <3>1. b \in Nat /\ b >= 64 BY BaseShape
    <3>2. ~(2 * b >= bytes) OBVIOUS
    <3>3. 2 * b < bytes BY <3>1, <3>2
    <3>4. 2 * b \in Bases BY BasesDouble DEF Doubling
    <3> QED BY <3>1, <3>3, <3>4
  <2> HIDE DEF T
  <2>2. 64 \in Bases BY BasesDouble DEF Doubling
  <2>3. bytes - 128 \in D
    <3>1. 2 * 64 < bytes BY <2>1, <2>2
    <3>2. bytes - 128 \in Nat /\ (bytes - 128) + 2 * 64 = bytes BY <3>1
    <3> QED BY <2>2, <3>2
  <2>4. PICK d \in D : \A e \in D : d <= e
    <3>1. D \in SUBSET Nat /\ D # {} BY <2>3
    <3> HIDE DEF D
    <3> QED BY <3>1, LeastNatural
  <2>5. PICK b \in Bases : d + 2 * b = bytes OBVIOUS
  <2>6. d \in Nat OBVIOUS
  <2>7. b \in Nat /\ b >= 64 /\ 2 * b \in Bases /\ 2 * (2 * b) < bytes
    BY <2>1
  <2>8. bytes - 2 * (2 * b) \in Nat
    /\ (bytes - 2 * (2 * b)) + 2 * (2 * b) = bytes
    /\ ~(d <= bytes - 2 * (2 * b))
    BY <2>5, <2>6, <2>7
  <2>9. bytes - 2 * (2 * b) \in D BY <2>7, <2>8
  <2> QED BY <2>4, <2>8, <2>9
<1>2. PICK b \in T : \A c \in T : b <= c
  <2>1. T \in SUBSET Nat BY BasesDouble
  <2> HIDE DEF T
  <2> QED BY <1>1, <2>1, LeastNatural
<1>3. b \in Bases /\ 2 * b >= bytes /\ b \in Nat BY BasesDouble
<1>4. ASSUME b # 64 PROVE b < bytes
  <2>1. PICK c \in Bases : b = 2 * c BY <1>3, <1>4, BaseHalf
  <2>2. c \in Nat /\ c >= 64 BY BaseShape
  <2>3. ~(b <= c) BY <2>1, <2>2
  <2>4. ~(2 * c >= bytes) BY <1>2, <2>3
  <2> QED BY <2>1, <2>2, <2>4
<1> QED BY <1>3, <1>4 DEF BaseFor

(* classOf's doubling loop ends for every request: the equation baseOf is   *)
(* defined by has a solution, built downwards from the request itself.      *)
Grows(g, n, bytes) ==
  /\ g = [b \in Nat |-> g[b]]
  /\ \A b \in Nat : b = 0 \/ b >= n =>
       g[b] = IF 2 * b < bytes THEN g[2 * b] ELSE b

LEMMA GrowsFrom ==
  ASSUME NEW bytes \in Nat
  PROVE  \E g : Grows(g, 1, bytes)
<1> DEFINE N == {n \in Nat : n >= 1 /\ \E g : Grows(g, n, bytes)}
<1>1. bytes + 1 \in N
  <2> DEFINE g == [b \in Nat |-> b]
  <2>1. ASSUME NEW b \in Nat, b = 0 \/ b >= bytes + 1
        PROVE  g[b] = IF 2 * b < bytes THEN g[2 * b] ELSE b
    <3>1. CASE b = 0 BY <3>1
    <3>2. CASE b >= bytes + 1
      <4>1. ~(2 * b < bytes) BY <3>2
      <4> QED BY <4>1
    <3> QED BY <2>1, <3>1, <3>2
  <2>2. g = [b \in Nat |-> g[b]] OBVIOUS
  <2>3. bytes + 1 \in Nat /\ bytes + 1 >= 1 OBVIOUS
  <2> HIDE DEF g
  <2>4. Grows(g, bytes + 1, bytes) BY <2>1, <2>2 DEF Grows
  <2> QED BY <2>3, <2>4
<1>2. PICK n \in N : \A m \in N : n <= m
  <2>1. N \in SUBSET Nat /\ N # {} BY <1>1
  <2> HIDE DEF N
  <2> QED BY <2>1, LeastNatural
<1>3. n \in Nat /\ n >= 1 OBVIOUS
<1>4. PICK g : Grows(g, n, bytes) OBVIOUS
<1>5. ASSUME n # 1 PROVE FALSE
  <2> DEFINE m == n - 1
             h == [b \in Nat |-> IF b = m /\ 2 * m < bytes THEN g[2 * m]
                                 ELSE IF b = m THEN m ELSE g[b]]
  <2>1. m \in Nat /\ m >= 1 /\ ~(n <= m) /\ m < n BY <1>3, <1>5
  <2>2. ASSUME NEW b \in Nat, b = 0 \/ b >= m
        PROVE  h[b] = IF 2 * b < bytes THEN h[2 * b] ELSE b
    <3>1. 2 * b \in Nat OBVIOUS
    <3>2. CASE b = m
      <4>1. 2 * b # m BY <2>1, <3>2
      <4>2. h[2 * b] = g[2 * b] BY <3>1, <4>1
      <4> QED BY <3>2, <4>2
    <3>3. CASE b # m
      <4>1. b = 0 \/ b >= n BY <1>3, <2>2, <3>3
      <4>2. g[b] = IF 2 * b < bytes THEN g[2 * b] ELSE b
        BY <1>4, <4>1 DEF Grows
      <4>3. 2 * b # m BY <1>3, <2>1, <4>1
      <4>4. h[2 * b] = g[2 * b] BY <3>1, <4>3
      <4>5. h[b] = g[b] BY <3>3
      <4> QED BY <4>2, <4>4, <4>5
    <3> QED BY <3>2, <3>3
  <2>3. h = [b \in Nat |-> h[b]] OBVIOUS
  <2> HIDE DEF h
  <2>4. Grows(h, m, bytes) BY <2>2, <2>3 DEF Grows
  <2>5. m \in N BY <2>1, <2>4
  <2> HIDE DEF m, N
  <2> QED BY <1>2, <2>1, <2>5
<1> QED BY <1>4, <1>5

(* The base classOf works from is the base of the request.                  *)
LEMMA BaseOfIs ==
  ASSUME NEW bytes \in Nat, NEW b, BaseFor(b, bytes)
  PROVE  baseOf(bytes) = b
<1> DEFINE Eq(f) == f = [x \in Nat |-> IF 2 * x < bytes THEN f[2 * x] ELSE x]
           G == CHOOSE f : Eq(f)
<1>1. \E f : Eq(f)
  <2>1. PICK g : Grows(g, 1, bytes) BY GrowsFrom
  <2>2. \A x \in Nat : x = 0 \/ x >= 1 OBVIOUS
  <2>3. \A x \in Nat : g[x] = IF 2 * x < bytes THEN g[2 * x] ELSE x
    BY <2>1, <2>2 DEF Grows
  <2>4. g = [x \in Nat |-> g[x]] BY <2>1 DEF Grows
  <2>5. Eq(g) BY <2>3, <2>4
  <2> QED BY <2>5
<1>2. baseOf(bytes) = G[64] BY DEF baseOf
<1>3. Eq(G)
  <2> HIDE DEF Eq
  <2> QED BY <1>1
<1>4. \A x \in Nat : G[x] = IF 2 * x < bytes THEN G[2 * x] ELSE x
  <2> HIDE DEF G
  <2> QED BY <1>3
<1> HIDE DEF G, Eq
<1>5. \A c \in Bases : c = 64 \/ c < bytes => G[c] = G[64]
  <2> DEFINE Bad == {c \in Bases : (c = 64 \/ c < bytes) /\ G[c] # G[64]}
  <2> SUFFICES ASSUME Bad # {} PROVE FALSE
    OBVIOUS
  <2>1. PICK c \in Bad : \A d \in Bad : c <= d
    <3>1. Bad \in SUBSET Nat BY BasesDouble
    <3> HIDE DEF Bad
    <3> QED BY <3>1, LeastNatural
  <2>2. c # 64 /\ c \in Bases /\ c < bytes /\ G[c] # G[64] OBVIOUS
  <2>3. PICK d \in Bases : c = 2 * d BY <2>2, BaseHalf
  <2>4. d \in Nat /\ d >= 64 BY BaseShape
  <2>5. d < bytes /\ ~(c <= d) /\ 2 * d < bytes BY <2>2, <2>3, <2>4
  <2>6. G[d] = G[64] BY <2>1, <2>5
  <2>7. G[d] = G[c] BY <1>4, <2>3, <2>4, <2>5
  <2> QED BY <2>2, <2>6, <2>7
<1>6. b \in Bases /\ b \in Nat /\ ~(2 * b < bytes) /\ (b = 64 \/ b < bytes)
  <2>1. b \in Bases /\ b \in Nat BY BasesDouble DEF BaseFor
  <2> QED BY <2>1 DEF BaseFor
<1>7. G[b] = b BY <1>4, <1>6
<1>8. G[b] = G[64] BY <1>5, <1>6
<1> QED BY <1>2, <1>7, <1>8
-----------------------------------------------------------------------------
(* Rounding n up to a multiple of s, and that the multiple is the only one. *)
LEMMA Ceiling ==
  ASSUME NEW n \in Nat, NEW s \in Nat, s > 0
  PROVE  /\ (n + s - 1) \div s \in Nat
         /\ n <= ((n + s - 1) \div s) * s
         /\ ((n + s - 1) \div s) * s < n + s
<1> DEFINE k == n + s - 1
<1>1. k \in Nat OBVIOUS
<1> HIDE DEF k
<1>2. k \div s \in Nat BY <1>1
<1>3. s * (k \div s) <= k /\ k < s * (k \div s) + s BY <1>1
<1> DEFINE q == k \div s
<1> HIDE DEF q
<1>4. q \in Nat /\ s * q <= k /\ k < s * q + s BY <1>2, <1>3 DEF q
<1>5. q * s \in Nat /\ s * q = q * s BY <1>4
<1>6. n <= q * s /\ q * s < n + s BY <1>4, <1>5 DEF k
<1> QED BY <1>2, <1>6 DEF k, q

LEMMA MultipleIs ==
  ASSUME NEW s \in Nat, s > 0, NEW p \in Nat, NEW q \in Nat, NEW n \in Nat,
         n <= p * s, p * s < n + s, n <= q * s, q * s < n + s
  PROVE  p = q
<1>1. ASSUME NEW x \in Nat, NEW z \in Nat, x < z PROVE x * s + s <= z * s
  <2>1. PICK d \in Nat : z = x + 1 + d
    <3>1. z - x - 1 \in Nat /\ z = x + 1 + (z - x - 1) BY <1>1
    <3> QED BY <3>1
  <2>2. z * s = x * s + s + d * s BY <2>1
  <2>3. d * s \in Nat /\ x * s \in Nat OBVIOUS
  <2> QED BY <2>2, <2>3
<1>2. p * s \in Nat /\ q * s \in Nat OBVIOUS
<1>3. ~(p < q) BY <1>1, <1>2
<1>4. ~(q < p) BY <1>1, <1>2
<1> QED BY <1>3, <1>4

(* The class of a request, case by case: the base itself, its double, or    *)
(* the base and as many eighths of it as reach the request.                 *)
Steps(b, c, bytes) ==
  \E s, q \in Nat : /\ s > 0 /\ b = 8 * s /\ c = b + q * s
                    /\ bytes <= c /\ c < bytes + s
ClassFor(b, c, bytes) ==
  /\ BaseFor(b, bytes)
  /\ \/ bytes <= b /\ c = b
     \/ b < bytes /\ b < 1024 /\ c = 2 * b
     \/ b < bytes /\ b >= 1024 /\ Steps(b, c, bytes)

LEMMA StepsExist ==
  ASSUME NEW b \in Bases, NEW bytes \in Nat, b < bytes
  PROVE  LET step == b \div 8
         IN Steps(b, b + ((bytes - b + step - 1) \div step) * step, bytes)
<1>1. b \in Nat /\ b >= 64 BY BaseShape
<1>2. PICK s \in Nat : b = 8 * s BY BaseShape
<1>3. s > 0 BY <1>1, <1>2
<1>4. b \div 8 = s BY <1>2
<1> DEFINE n == bytes - b
<1>5. n \in Nat /\ bytes = b + n BY <1>1
<1> DEFINE q == (n + s - 1) \div s
<1>6. q \in Nat /\ n <= q * s /\ q * s < n + s
  <2> HIDE DEF n
  <2> QED BY <1>3, <1>5, Ceiling
<1> HIDE DEF q
<1>7. q * s \in Nat BY <1>6
<1> HIDE DEF n
<1>8. bytes <= b + q * s /\ b + q * s < bytes + s BY <1>1, <1>5, <1>6, <1>7
<1>9. Steps(b, b + q * s, bytes) BY <1>2, <1>3, <1>6, <1>8 DEF Steps
<1> QED BY <1>4, <1>9 DEF n, q

(* The steps that reach a request are determined by it.                     *)
LEMMA StepsAgree ==
  ASSUME NEW b \in Nat, NEW bytes \in Nat, NEW c, NEW d, b < bytes,
         Steps(b, c, bytes), Steps(b, d, bytes)
  PROVE  c = d
<1>1. PICK s \in Nat, q \in Nat : /\ s > 0 /\ b = 8 * s /\ c = b + q * s
                                  /\ bytes <= c /\ c < bytes + s
  BY DEF Steps
<1>2. PICK t \in Nat, p \in Nat : /\ t > 0 /\ b = 8 * t /\ d = b + p * t
                                  /\ bytes <= d /\ d < bytes + t
  BY DEF Steps
<1>3. s = t BY <1>1, <1>2
<1>4. q * s \in Nat /\ p * s \in Nat OBVIOUS
<1> DEFINE n == bytes - b
<1>5. n \in Nat /\ bytes = b + n OBVIOUS
<1> HIDE DEF n
<1>6. n <= q * s /\ q * s < n + s BY <1>1, <1>4, <1>5
<1>7. n <= p * s /\ p * s < n + s BY <1>2, <1>3, <1>4, <1>5
<1>8. p = q BY <1>1, <1>5, <1>6, <1>7, MultipleIs
<1> QED BY <1>1, <1>2, <1>3, <1>8

LEMMA ClassOfIs ==
  ASSUME NEW bytes \in Nat, NEW b, NEW c, ClassFor(b, c, bytes)
  PROVE  classOf(bytes) = c
<1>1. b \in Bases /\ baseOf(bytes) = b BY BaseOfIs DEF ClassFor, BaseFor
<1>2. b \in Nat BY <1>1, BaseShape
<1>3. CASE bytes <= b
  <2>1. ~(b < bytes) BY <1>2, <1>3
  <2>2. c = b BY <2>1 DEF ClassFor
  <2> QED BY <1>1, <1>3, <2>2 DEF classOf
<1>4. CASE b < bytes /\ b < 1024
  <2>1. ~(bytes <= b) /\ ~(b >= 1024) BY <1>2, <1>4
  <2>2. c = 2 * b BY <2>1 DEF ClassFor
  <2> QED BY <1>1, <1>4, <2>1, <2>2 DEF classOf
<1>5. CASE b < bytes /\ b >= 1024
  <2>1. ~(bytes <= b) /\ ~(b < 1024) BY <1>2, <1>5
  <2>2. Steps(b, c, bytes) BY <2>1 DEF ClassFor
  <2>3. Steps(b, classOf(bytes), bytes)
    <3>1. classOf(bytes)
            = LET step == b \div 8
              IN b + ((bytes - b + step - 1) \div step) * step
      BY <1>1, <2>1 DEF classOf
    <3> QED BY <1>1, <1>5, <3>1, StepsExist
  <2> QED BY <1>2, <1>5, <2>2, <2>3, StepsAgree
<1>6. bytes <= b \/ b < bytes BY <1>2
<1>7. b < 1024 \/ b >= 1024 BY <1>2
<1> QED BY <1>3, <1>4, <1>5, <1>6, <1>7

LEMMA ClassExists ==
  ASSUME NEW bytes \in Nat
  PROVE  \E b \in Bases : ClassFor(b, classOf(bytes), bytes)
<1>1. PICK b \in Nat : BaseFor(b, bytes) BY BaseExists
<1>2. b \in Bases BY <1>1 DEF BaseFor
<1>3. \E c : ClassFor(b, c, bytes)
  <2>1. CASE bytes <= b BY <1>1, <2>1 DEF ClassFor
  <2>2. CASE b < bytes /\ b < 1024 BY <1>1, <2>2 DEF ClassFor
  <2>3. CASE b < bytes /\ b >= 1024
    BY <1>1, <1>2, <2>3, StepsExist DEF ClassFor
  <2>4. bytes <= b \/ b < bytes OBVIOUS
  <2>5. b < 1024 \/ b >= 1024 OBVIOUS
  <2> QED BY <2>1, <2>2, <2>3, <2>4, <2>5
<1> QED BY <1>2, <1>3, ClassOfIs

(* The class is at most twice the base and at least the request, and with   *)
(* an eighth of the base for a step it is less than a step longer.          *)
LEMMA ClassBounds ==
  ASSUME NEW bytes \in Nat, NEW b \in Bases, NEW c, ClassFor(b, c, bytes)
  PROVE  /\ c \in Nat /\ bytes <= c /\ b <= c /\ c <= 2 * b
         /\ b = 64 \/ b < bytes
         /\ b >= 1024 => 8 * (c - bytes) < b
<1>1. b \in Nat /\ b >= 64 BY BaseShape
<1>2. (b = 64 \/ b < bytes) /\ 2 * b >= bytes BY DEF ClassFor, BaseFor
<1>3. CASE bytes <= b /\ c = b
  <2>1. b = 64 BY <1>1, <1>2, <1>3
  <2> QED BY <1>1, <1>2, <1>3, <2>1
<1>4. CASE b < bytes /\ b < 1024 /\ c = 2 * b BY <1>1, <1>2, <1>4
<1>5. CASE b < bytes /\ b >= 1024 /\ Steps(b, c, bytes)
  <2>1. PICK s \in Nat, q \in Nat : /\ s > 0 /\ b = 8 * s /\ c = b + q * s
                                    /\ bytes <= c /\ c < bytes + s
    BY <1>5 DEF Steps
  <2>2. q * s \in Nat OBVIOUS
  <2>3. c \in Nat /\ b <= c BY <1>1, <2>1, <2>2
  <2>4. 8 * (c - bytes) < b BY <1>1, <2>1, <2>3
  <2>5. q * s < 9 * s BY <1>1, <1>2, <2>1, <2>2
  <2>6. q <= 8
    <3> SUFFICES ASSUME ~(q <= 8) PROVE FALSE
      OBVIOUS
    <3>1. PICK d \in Nat : q = 9 + d
      <4>1. q - 9 \in Nat /\ q = 9 + (q - 9) OBVIOUS
      <4> QED BY <4>1
    <3>2. q * s = 9 * s + d * s BY <3>1
    <3>3. d * s \in Nat OBVIOUS
    <3> QED BY <2>2, <2>5, <3>2, <3>3
  <2>7. q * s <= 8 * s
    <3>1. PICK d \in Nat : 8 = q + d
      <4>1. 8 - q \in Nat /\ 8 = q + (8 - q) BY <2>6
      <4> QED BY <4>1
    <3>2. 8 * s = q * s + d * s BY <3>1
    <3>3. d * s \in Nat OBVIOUS
    <3> QED BY <2>2, <3>2, <3>3
  <2>8. c <= 2 * b BY <1>1, <2>1, <2>2, <2>7
  <2> QED BY <1>2, <1>5, <2>1, <2>3, <2>4, <2>8
<1> QED BY <1>3, <1>4, <1>5 DEF ClassFor

(* A class is its own class.                                                *)
LEMMA ClassOfClass ==
  ASSUME NEW bytes \in Nat, NEW b \in Bases, NEW c, ClassFor(b, c, bytes)
  PROVE  ClassFor(b, c, c)
<1>1. b \in Nat /\ b >= 64 BY BaseShape
<1>2. c \in Nat /\ bytes <= c /\ b <= c /\ c <= 2 * b /\ (b = 64 \/ b < bytes)
  BY ClassBounds
<1>3. BaseFor(b, c) BY <1>1, <1>2 DEF BaseFor
<1>4. CASE bytes <= b /\ c = b BY <1>1, <1>3, <1>4 DEF ClassFor
<1>5. CASE b < bytes /\ b < 1024 /\ c = 2 * b
  <2>1. b < c BY <1>1, <1>5
  <2> QED BY <1>3, <1>5, <2>1 DEF ClassFor
<1>6. CASE b < bytes /\ b >= 1024 /\ Steps(b, c, bytes)
  <2>1. b < c BY <1>1, <1>2, <1>6
  <2>2. Steps(b, c, c)
    <3>1. PICK s \in Nat, q \in Nat : s > 0 /\ b = 8 * s /\ c = b + q * s
      BY <1>6 DEF Steps
    <3>2. c <= c /\ c < c + s BY <1>2, <3>1
    <3> QED BY <3>1, <3>2 DEF Steps
  <2> QED BY <1>3, <1>6, <2>1, <2>2 DEF ClassFor
<1> QED BY <1>4, <1>5, <1>6 DEF ClassFor

(* A larger request has no smaller class.                                   *)
LEMMA ClassOrdered ==
  ASSUME NEW bytes \in Nat
  PROVE  classOf(bytes) <= classOf(bytes + 1)
<1> DEFINE c == classOf(bytes)
           d == classOf(bytes + 1)
<1> SUFFICES c <= d
  OBVIOUS
<1>1. bytes + 1 \in Nat OBVIOUS
<1>2. PICK b \in Bases : ClassFor(b, c, bytes) BY ClassExists
<1>3. PICK a \in Bases : ClassFor(a, d, bytes + 1) BY <1>1, ClassExists
<1> HIDE DEF c, d
<1>4. a \in Nat /\ a >= 64 /\ b \in Nat /\ b >= 64 BY BaseShape
<1>5. c \in Nat /\ bytes <= c /\ c <= 2 * b /\ (b = 64 \/ b < bytes)
  BY <1>2, ClassBounds
<1>6. d \in Nat /\ bytes + 1 <= d /\ a <= d BY <1>1, <1>3, ClassBounds
<1>7. CASE 2 * b < bytes + 1 BY <1>4, <1>5, <1>6, <1>7
<1>8. CASE ~(2 * b < bytes + 1)
  <2>1. BaseFor(b, bytes + 1) BY <1>4, <1>5, <1>8 DEF BaseFor
  <2>2. baseOf(bytes + 1) = b BY <1>1, <2>1, BaseOfIs
  <2>3. BaseFor(a, bytes + 1) BY <1>3 DEF ClassFor
  <2>4. a = b BY <1>1, <2>2, <2>3, BaseOfIs
  <2>5. CASE bytes <= b /\ c = b BY <1>6, <2>4, <2>5
  <2>6. CASE b < bytes /\ b < 1024 /\ c = 2 * b
    <3>1. ~(bytes + 1 <= b) /\ ~(b >= 1024) BY <1>4, <2>6
    <3>2. d = 2 * b BY <1>3, <2>4, <3>1 DEF ClassFor
    <3> QED BY <1>5, <2>6, <3>2
  <2>7. CASE b < bytes /\ b >= 1024 /\ Steps(b, c, bytes)
    <3>1. ~(bytes + 1 <= b) /\ ~(b < 1024) BY <1>4, <2>7
    <3>2. Steps(b, d, bytes + 1) BY <1>3, <2>4, <3>1 DEF ClassFor
    <3>3. ASSUME d < c PROVE FALSE
      <4>1. PICK s \in Nat, q \in Nat : /\ s > 0 /\ b = 8 * s /\ c = b + q * s
                                        /\ bytes <= c /\ c < bytes + s
        BY <2>7 DEF Steps
      <4>2. PICK t \in Nat, p \in Nat : t > 0 /\ b = 8 * t /\ d = b + p * t
        BY <3>2 DEF Steps
      <4>3. s = t BY <4>1, <4>2
      <4>4. bytes <= d /\ d < bytes + s BY <1>5, <1>6, <3>3, <4>1
      <4>5. Steps(b, d, bytes) BY <4>1, <4>2, <4>3, <4>4 DEF Steps
      <4>6. c = d BY <1>4, <2>7, <4>5, StepsAgree
      <4> QED BY <1>5, <3>3, <4>6
    <3> QED BY <1>5, <1>6, <3>3
  <2> QED BY <1>2, <2>5, <2>6, <2>7 DEF ClassFor
<1> QED BY <1>7, <1>8

(* All that ClassIsTight says, for any request that is not empty.           *)
LEMMA ClassTight ==
  ASSUME NEW bytes \in Nat, bytes > 0
  PROVE  LET c == classOf(bytes) IN
         /\ c >= bytes /\ classOf(c) = c /\ c <= classOf(bytes + 1)
         /\ bytes > 1024 => 8 * (c - bytes) < bytes
         /\ bytes <= 1024 => c < 2 * bytes \/ c = 64
<1> DEFINE c == classOf(bytes)
<1>1. PICK b \in Bases : ClassFor(b, c, bytes) BY ClassExists
<1>2. c <= classOf(bytes + 1) BY ClassOrdered
<1> HIDE DEF c
<1>3. /\ c \in Nat /\ bytes <= c /\ c <= 2 * b
      /\ b = 64 \/ b < bytes
      /\ b >= 1024 => 8 * (c - bytes) < b
  BY <1>1, ClassBounds
<1>4. b \in Nat /\ b >= 64 /\ (b <= 512 \/ b >= 1024) BY BaseShape
<1>5. classOf(c) = c BY <1>1, <1>3, ClassOfClass, ClassOfIs
<1>6. 2 * b >= bytes BY <1>1 DEF ClassFor, BaseFor
<1>7. ASSUME bytes > 1024 PROVE 8 * (c - bytes) < bytes
  BY <1>3, <1>4, <1>6, <1>7
<1>8. ASSUME bytes <= 1024 PROVE c < 2 * bytes \/ c = 64
  <2>1. CASE bytes <= b
    <3>1. ~(b < bytes) BY <1>4, <2>1
    <3>2. c = b /\ b = 64 BY <1>1, <1>3, <3>1 DEF ClassFor
    <3> QED BY <3>2
  <2>2. CASE b < bytes BY <1>3, <1>4, <2>2
  <2> QED BY <1>4, <2>1, <2>2
<1>9. c >= bytes BY <1>3
<1> QED BY <1>2, <1>5, <1>7, <1>8, <1>9 DEF c
-----------------------------------------------------------------------------
(* What is read of a text: a part of it is a text, and its characters.      *)
LEMMA PartOfText ==
  ASSUME NEW S, NEW s \in Seq(S), NEW m \in Nat, NEW n \in Nat, m >= 1, n <= Len(s)
  PROVE  /\ SubSeq(s, m, n) \in Seq(S)
         /\ Len(SubSeq(s, m, n)) = IF m <= n THEN n - m + 1 ELSE 0
         /\ \A i \in 1..(n - m + 1) : SubSeq(s, m, n)[i] = s[m + i - 1]
<1>1. \A i \in m..n : s[i] \in S
  <2> TAKE i \in m..n
  <2>1. i \in 1..Len(s) BY LenProperties
  <2> QED BY <2>1, ElementOfSeq
<1> QED BY <1>1, SubSeqProperties

(* The first line is a beginning of the text.                               *)
LEMMA FirstLineBegins ==
  ASSUME NEW S, NEW d \in Seq(S)
  PROVE  \E k \in 0..Len(d) : FirstLine(d) = SubSeq(d, 1, k)
<1>1. Len(d) \in Nat /\ DOMAIN d = 1..Len(d) BY LenProperties
<1>2. CASE EndOfLine \notin Range(d)
  <2>1. FirstLine(d) = SubSeq(d, 1, Len(d)) BY <1>2, SubSeqFull DEF FirstLine
  <2>2. Len(d) \in 0..Len(d) BY <1>1
  <2> QED BY <2>1, <2>2
<1>3. CASE EndOfLine \in Range(d)
  <2> DEFINE T == {i \in DOMAIN d : d[i] = EndOfLine}
             P(i) == d[i] = EndOfLine /\ \A j \in 1..(i - 1) : d[j] # EndOfLine
             e == CHOOSE i \in DOMAIN d : P(i)
  <2>1. T \in SUBSET Nat /\ T # {} BY <1>1, <1>3 DEF Range
  <2>2. PICK x \in T : \A z \in T : x <= z
    <3> HIDE DEF T
    <3> QED BY <2>1, LeastNatural
  <2>3. \A j \in 1..(x - 1) : j \in DOMAIN d /\ ~(x <= j) BY <1>1
  <2>4. x \in DOMAIN d /\ P(x) BY <2>2, <2>3
  <2>5. e \in DOMAIN d BY <2>4
  <2>6. FirstLine(d) = SubSeq(d, 1, e - 1) BY <1>3 DEF FirstLine
  <2> HIDE DEF e
  <2>7. e - 1 \in 0..Len(d) BY <1>1, <2>5
  <2> QED BY <2>6, <2>7
<1> QED BY <1>2, <1>3

(* The places where x occurs, if there are any, have a first one, which is  *)
(* the one that is found.                                                   *)
Places(c, x) == {i \in 1..(Len(c) + 1) : OccursAt(c, x, i)}

LEMMA FoundFirst ==
  ASSUME NEW S, NEW c \in Seq(S), NEW x, Places(c, x) # {}
  PROVE  /\ FirstOccurrence(c, x) \in Places(c, x)
         /\ \A j \in Places(c, x) : FirstOccurrence(c, x) <= j
<1>1. Places(c, x) \in SUBSET Nat BY LenProperties DEF Places
<1>2. \E i \in Places(c, x) : \A j \in Places(c, x) : i <= j BY <1>1, LeastNatural
<1>3. FirstOccurrence(c, x) =
        CHOOSE i \in Places(c, x) : \A j \in Places(c, x) : i <= j
  BY DEF FirstOccurrence, Places
<1> QED BY <1>2, <1>3

(* A text that ends with the donor has the donor's first line where the     *)
(* donor begins.                                                            *)
LEMMA DonorIsFound ==
  ASSUME NEW S, NEW c \in Seq(S), NEW d \in Seq(S), Ends(c, d)
  PROVE  Len(c) - Len(d) + 1 \in Places(c, FirstLine(d))
<1> DEFINE n == Len(c) - Len(d)
<1>1. Len(c) \in Nat /\ Len(d) \in Nat /\ n \in Nat /\ n + 1 \in 1..(Len(c) + 1)
  BY LenProperties DEF Ends
<1>2. PICK k \in 0..Len(d) : FirstLine(d) = SubSeq(d, 1, k) BY FirstLineBegins
<1>3. d = SubSeq(c, n + 1, Len(c)) BY DEF Ends
<1> DEFINE x == SubSeq(d, 1, k)
           z == SubSeq(c, n + 1, n + k)
<1> HIDE DEF n
<1>4. k \in Nat /\ k <= Len(d) /\ n + k \in Nat /\ n + k <= Len(c) /\ n + 1 \in Nat
      /\ n + Len(d) = Len(c)
  BY <1>1 DEF n
<1>5. x \in Seq(S) /\ Len(x) = k /\ \A i \in 1..k : x[i] = d[i]
  BY <1>1, <1>4, PartOfText
<1>6. /\ z \in Seq(S) /\ Len(z) = k
      /\ \A i \in 1..k : z[i] = c[n + 1 + i - 1]
  BY <1>1, <1>4, PartOfText
<1>7. \A i \in 1..Len(d) : d[i] = c[n + 1 + i - 1]
  BY <1>1, <1>3, <1>4, PartOfText
<1> HIDE DEF x, z
<1>8. ASSUME NEW i \in 1..k PROVE x[i] = z[i]
  <2>1. i \in 1..Len(d) BY <1>1, <1>4
  <2> HIDE DEF x, z, n
  <2> QED BY <1>5, <1>6, <1>7, <2>1, Zenon
<1>9. x = z BY <1>5, <1>6, <1>8, SeqEqual
<1>10. OccursAt(c, x, n + 1)
  <2>1. n + 1 + Len(x) - 1 = n + k BY <1>1, <1>4, <1>5
  <2> QED BY <1>4, <1>9, <2>1 DEF OccursAt, z
<1>11. OccursAt(c, FirstLine(d), n + 1) BY <1>2, <1>10 DEF x
<1> QED BY <1>1, <1>11 DEF Places, n

LEMMA IdenticalIs ==
  ASSUME NEW S, NEW c \in Seq(S), NEW d \in Seq(S)
  PROVE  Identical(c, d) = (Ends(c, d) /\ ~Early(c, d))
<1> DEFINE x == FirstLine(d)
           k == FirstOccurrence(c, x)
           n == Len(c) - Len(d)
<1>1. Len(c) \in Nat /\ Len(d) \in Nat BY LenProperties
<1>2. ASSUME Ends(c, d), ~Early(c, d) PROVE Identical(c, d)
  <2>1. n + 1 \in Places(c, x) BY <1>2, DonorIsFound
  <2>2. k \in Places(c, x) /\ k <= n + 1 BY <2>1, FoundFirst
  <2>3. n \in Nat BY <1>1, <1>2 DEF Ends
  <2>4. k \in Nat /\ k >= 1 /\ OccursAt(c, x, k) BY <1>1, <2>2 DEF Places
  <2>5. ~(k \in 1..n) BY <1>2, <2>4 DEF Early
  <2> HIDE DEF k, n
  <2>6. k = n + 1 BY <2>2, <2>3, <2>4, <2>5
  <2> QED BY <1>2, <2>6 DEF Ends, Identical, body_after_header, k, n
<1>3. ASSUME Identical(c, d) PROVE Ends(c, d) /\ ~Early(c, d)
  <2>1. SubSeq(c, k, Len(c)) = d BY <1>3 DEF Identical, body_after_header
  <2>2. CASE Places(c, x) = {}
    <3>1. k = 1 BY <2>2 DEF FirstOccurrence, Places
    <3>2. d = c BY <2>1, <3>1, SubSeqFull
    <3>3. Ends(c, d) BY <1>1, <3>2, SubSeqFull DEF Ends
    <3> QED BY <2>2, <3>3, DonorIsFound
  <2>3. CASE Places(c, x) # {}
    <3>1. k \in Places(c, x) /\ \A j \in Places(c, x) : k <= j BY <2>3, FoundFirst
    <3>2. k \in Nat /\ k >= 1 /\ k <= Len(c) + 1 BY <1>1, <3>1 DEF Places
    <3> HIDE DEF k, x
    <3>3. Len(d) = IF k <= Len(c) THEN Len(c) - k + 1 ELSE 0
      BY <1>1, <2>1, <3>2, PartOfText
    <3>4. k = n + 1 /\ Len(d) <= Len(c) BY <1>1, <3>2, <3>3
    <3>5. Ends(c, d) BY <2>1, <3>4 DEF Ends
    <3>6. ASSUME NEW i \in 1..n, OccursAt(c, x, i) PROVE FALSE
      <4>1. i \in Places(c, x) BY <1>1, <3>4, <3>6 DEF Places
      <4>2. i \in Nat /\ i < k BY <1>1, <3>4
      <4> QED BY <3>1, <3>2, <4>1, <4>2
    <3> QED BY <3>5, <3>6 DEF Early, x
  <2> QED BY <2>2, <2>3
<1>4. Identical(c, d) \in BOOLEAN /\ (Ends(c, d) /\ ~Early(c, d)) \in BOOLEAN
  BY DEF Identical, Ends, Early
<1> QED BY <1>2, <1>3, <1>4

LEMMA TextsAreSequences ==
  ASSUME NEW n, NEW s \in Texts(n)
  PROVE  s \in Seq(Characters)
<1>1. PICK m \in 0..n : s \in [1..m -> Characters] BY DEF Texts
<1>2. m \in Nat OBVIOUS
<1> QED BY <1>1, <1>2, IsASeq
-----------------------------------------------------------------------------
(* pairwise_aggregate: what the loop over the cells keeps.                  *)

(* What the loop is run on, and its states.                                 *)
Merging(n) == [map : [1..n -> Nat], nc : Nat]

(* There is a strongest face among any: of those that beat fewest, none is  *)
(* beaten.                                                                  *)
LEMMA StrongestIn ==
  ASSUME NEW n, NEW faces, Mesh(faces, n), NEW F \in SUBSET DOMAIN faces, F # {}
  PROVE  Strongest(faces, F) \in F
<1> DEFINE Beats(g, f) == faces[f].w < faces[g].w \/ (faces[f].w = faces[g].w /\ g < f)
           Better(f) == {g \in F : Beats(g, f)}
           T == {Better(f) : f \in F}
<1>1. IsFiniteSet(F)
  <2>1. DOMAIN faces = 1..Len(faces) /\ Len(faces) \in Nat BY DEF Mesh
  <2>2. IsFiniteSet(1..Len(faces)) BY <2>1, FS_Interval
  <2> QED BY <2>1, <2>2, FS_Subset
<1>2. PICK x \in T : \A z \in T : z \subseteq x => z = x
  <2>1. T \in SUBSET SUBSET F
    <3> HIDE DEF Beats
    <3> QED OBVIOUS
  <2>2. T # {}
    <3> HIDE DEF Better
    <3> QED OBVIOUS
  <2> HIDE DEF T
  <2> QED BY <1>1, <2>1, <2>2, MinimalSubset
<1>3. PICK f \in F : x = Better(f) BY <1>2
<1>4. \A g \in F : faces[g].w \in Nat /\ g \in Nat
  <2>1. DOMAIN faces = 1..Len(faces) /\ Len(faces) \in Nat BY DEF Mesh
  <2>2. \A g \in 1..Len(faces) : faces[g] \in [o : 1..n, nb : 1..n, w : Nat]
    BY ElementOfSeq DEF Mesh
  <2> QED BY <2>1, <2>2, SMTT(30)
<1>5. ASSUME NEW g \in F PROVE ~Beats(g, f)
  <2> SUFFICES ASSUME Beats(g, f) PROVE FALSE
    OBVIOUS
  <2>1. ASSUME NEW h \in F, Beats(h, g) PROVE Beats(h, f) BY <1>4, <2>1
  <2>2. ~Beats(g, g) BY <1>4
  <2> HIDE DEF Beats
  <2>3. Better(g) \subseteq Better(f) /\ g \in Better(f) /\ g \notin Better(g)
    BY <2>1, <2>2
  <2>4. Better(g) \in T OBVIOUS
  <2> QED BY <1>2, <1>3, <2>3, <2>4
<1>6. \A g \in F : faces[g].w < faces[f].w \/ (faces[g].w = faces[f].w /\ f <= g)
  BY <1>4, <1>5
<1> HIDE DEF T, Better, Beats
<1> QED BY <1>6 DEF Strongest

(* The neighbour across a face of a cell is another cell of the mesh.       *)
LEMMA AcrossIs ==
  ASSUME NEW n, NEW faces, Mesh(faces, n), NEW c \in 1..n, NEW f \in Incident(faces, c)
  PROVE  /\ Across(faces, f, c) \in 1..n /\ Across(faces, f, c) # c /\ f \in DOMAIN faces
         /\ \/ faces[f].o = c /\ faces[f].nb = Across(faces, f, c)
            \/ faces[f].nb = c /\ faces[f].o = Across(faces, f, c)
<1>1. f \in DOMAIN faces /\ (faces[f].o = c \/ faces[f].nb = c) BY DEF Incident
<1>2. faces[f].o \in 1..n /\ faces[f].nb \in 1..n /\ faces[f].o # faces[f].nb
  <2>1. DOMAIN faces = 1..Len(faces) BY DEF Mesh
  <2>2. faces[f] \in [o : 1..n, nb : 1..n, w : Nat] BY <1>1, <2>1, ElementOfSeq DEF Mesh
  <2> QED BY <1>1, <2>2 DEF Mesh
<1> QED BY <1>1, <1>2 DEF Across

(* What holds after the first c cells.                                      *)
Numbered(n, c, st) ==
  /\ \A d \in 1..n : st.map[d] <= st.nc
  /\ \A d \in 1..c : st.map[d] > 0
  /\ \A a \in 1..st.nc : \E d \in 1..n : st.map[d] = a
Whole(faces, st) == \A a \in 1..st.nc : Connected(faces, Members(st.map, a))
Accompanied(faces, n, st) ==
  \A d \in 1..n : st.map[d] > 0 /\ Members(st.map, st.map[d]) = {d} => Incident(faces, d) = {}
Merged(faces, n, c, st) ==
  st \in Merging(n) /\ Numbered(n, c, st) /\ Whole(faces, st) /\ Accompanied(faces, n, st)

(* Two sets of cells that a face joins hold together if each does.          *)
LEMMA PairConnected ==
  ASSUME NEW faces, NEW f \in DOMAIN faces, NEW c, NEW x, Joins(faces[f], {c}, {x})
  PROVE  Connected(faces, {c, x})
<1> SUFFICES ASSUME NEW part \in SUBSET {c, x}, part # {}, part # {c, x}
             PROVE  Joins(faces[f], part, {c, x} \ part)
  BY DEF Connected
<1>1. CASE c \in part
  <2>1. x \notin part /\ part = {c} BY <1>1
  <2>2. c # x BY <1>1, <2>1
  <2> QED BY <2>1, <2>2 DEF Joins
<1>2. CASE c \notin part
  <2>1. part = {x} /\ c # x BY <1>2
  <2> QED BY <2>1 DEF Joins
<1> QED BY <1>1, <1>2
LEMMA GrownConnected ==
  ASSUME NEW faces, NEW A, Connected(faces, A), NEW f \in DOMAIN faces, NEW c, NEW x \in A,
         c \notin A, Joins(faces[f], {c}, {x})
  PROVE  Connected(faces, A \cup {c})
<1> DEFINE B == A \cup {c}
<1> SUFFICES ASSUME NEW part \in SUBSET B, part # {}, part # B
             PROVE  \E g \in DOMAIN faces : Joins(faces[g], part, B \ part)
  BY DEF Connected
<1>1. CASE part \cap A = {}
  <2>1. part = {c} /\ x \in B \ part BY <1>1
  <2> QED BY <2>1 DEF Joins
<1>2. CASE part \cap A = A
  <2>1. B \ part = {c} /\ x \in part BY <1>2
  <2> QED BY <2>1 DEF Joins
<1>3. CASE part \cap A # {} /\ part \cap A # A
  <2> DEFINE p == part \cap A
  <2>1. p \in SUBSET A /\ p # {} /\ p # A BY <1>3
  <2>2. PICK g \in DOMAIN faces : Joins(faces[g], p, A \ p) BY <2>1 DEF Connected
  <2>3. p \subseteq part /\ A \ p \subseteq B \ part OBVIOUS
  <2> HIDE DEF p
  <2> QED BY <2>2, <2>3 DEF Joins
<1> QED BY <1>1, <1>2, <1>3

LEMMA MergeStart ==
  ASSUME NEW n, NEW faces, Mesh(faces, n)
  PROVE  Merged(faces, n, 0, [map |-> [d \in 1..n |-> 0], nc |-> 0])
BY DEF Mesh, Merged, Merging, Numbered, Whole, Accompanied

(* A step of the loop that gives an aggregate to the cell c, and perhaps to *)
(* others that have none, keeps it if that aggregate is sound.              *)
Grouped(faces, n, c, st, G, to, new) ==
  /\ c \in G /\ \A d \in G : st.map[d] = 0
  /\ \A d \in 1..n : new.map[d] = IF d \in G THEN to ELSE st.map[d]
  /\ to \in 1..new.nc /\ (new.nc = st.nc \/ (new.nc = st.nc + 1 /\ to = new.nc))
  /\ Connected(faces, Members(new.map, to))
  /\ \A d \in 1..n : Members(new.map, to) = {d} => Incident(faces, d) = {}

LEMMA Regrouped ==
  ASSUME NEW n \in Nat, NEW faces, NEW c \in 1..n, NEW st, Merged(faces, n, c - 1, st),
         NEW G, NEW to \in Nat, NEW new \in Merging(n), Grouped(faces, n, c, st, G, to, new)
  PROVE  Merged(faces, n, c, new)
<1> USE DEF Grouped
<1>1. /\ DOMAIN new.map = 1..n /\ DOMAIN st.map = 1..n /\ st.nc \in Nat /\ new.nc \in Nat
      /\ \A d \in 1..n : new.map[d] \in Nat
  BY DEF Merged, Merging
<1>2. \A d \in 1..n : st.map[d] \in Nat /\ st.map[d] <= st.nc
  BY DEF Merged, Merging, Numbered
<1>3. ASSUME NEW a \in Nat, a > 0, a # to
      PROVE  Members(new.map, a) = Members(st.map, a)
  BY <1>1, <1>3, SMTT(30) DEF Members
<1>4. Numbered(n, c, new)
  <2>1. ASSUME NEW d \in 1..n PROVE new.map[d] <= new.nc
    <3>1. CASE d \in G BY <3>1
    <3>2. CASE d \notin G
      <4>1. new.map[d] = st.map[d] /\ st.map[d] \in Nat /\ st.map[d] <= st.nc
        BY <1>2, <3>2
      <4> QED BY <1>1, <4>1
    <3> QED BY <3>1, <3>2
  <2>2. ASSUME NEW d \in 1..c PROVE new.map[d] > 0
    <3>1. d \in 1..n /\ (d = c \/ d \in 1..(c - 1)) OBVIOUS
    <3>2. CASE d \in G BY <3>1, <3>2
    <3>3. CASE d \notin G
      <4>1. st.map[d] > 0 BY <3>1, <3>3 DEF Merged, Numbered
      <4> QED BY <3>1, <3>3, <4>1
    <3> QED BY <3>2, <3>3
  <2>3. ASSUME NEW a \in 1..new.nc PROVE \E d \in 1..n : new.map[d] = a
    <3>1. CASE a = to BY <3>1
    <3>2. CASE a # to
      <4>1. a \in 1..st.nc BY <1>1, <3>2
      <4>2. PICK d \in 1..n : st.map[d] = a BY <4>1 DEF Merged, Numbered
      <4>3. d \notin G BY <4>1, <4>2
      <4> QED BY <4>2, <4>3
    <3> QED BY <3>1, <3>2
  <2> QED BY <2>1, <2>2, <2>3 DEF Numbered
<1>5. Whole(faces, new)
  <2> SUFFICES ASSUME NEW a \in 1..new.nc, a # to PROVE Connected(faces, Members(new.map, a))
    BY DEF Whole
  <2>1. a \in 1..st.nc /\ a \in Nat /\ a > 0 BY <1>1
  <2> QED BY <1>3, <2>1 DEF Merged, Whole
<1>6. Accompanied(faces, n, new)
  <2> SUFFICES ASSUME NEW d \in 1..n, new.map[d] > 0, Members(new.map, new.map[d]) = {d}
               PROVE  Incident(faces, d) = {}
    BY DEF Accompanied
  <2>1. CASE new.map[d] = to BY <2>1
  <2>2. CASE new.map[d] # to
    <3>1. new.map[d] = st.map[d] /\ st.map[d] \in Nat BY <1>2, <2>2
    <3>2. st.map[d] > 0 /\ Members(st.map, st.map[d]) = {d} BY <1>3, <2>2, <3>1
    <3> QED BY <3>2 DEF Merged, Accompanied
  <2> QED BY <2>1, <2>2
<1> QED BY <1>4, <1>5, <1>6 DEF Merged

(* Every round keeps it: a cell and its free neighbour open an aggregate, a *)
(* cell without a face one of its own, any other joins that of a neighbour. *)
LEMMA MergeKeeps ==
  ASSUME NEW n, NEW faces, Mesh(faces, n), NEW c \in 1..n, NEW st,
         Merged(faces, n, c - 1, st)
  PROVE  Merged(faces, n, c, Merge(faces, st, c))
<1> DEFINE free == {f \in Incident(faces, c) : st.map[Across(faces, f, c)] = 0}
           taken == {f \in Incident(faces, c) : st.map[Across(faces, f, c)] > 0}
           new == Merge(faces, st, c)
<1>1. n \in Nat /\ st \in Merging(n) /\ st.map \in [1..n -> Nat] /\ st.nc \in Nat
  BY DEF Mesh, Merged, Merging
<1>2. st.map[c] \in Nat /\ \A d \in 1..n : st.map[d] \in Nat /\ st.map[d] <= st.nc
  BY <1>1 DEF Merged, Numbered
<1>3. CASE st.map[c] > 0
  <2>1. new = st BY <1>3 DEF Merge
  <2>2. \A d \in 1..c : d = c \/ d \in 1..(c - 1) OBVIOUS
  <2>3. Numbered(n, c, st) BY <1>3, <2>2 DEF Merged, Numbered
  <2> QED BY <2>1, <2>3 DEF Merged
<1>4. CASE st.map[c] = 0 /\ free # {}
  <2> DEFINE f == Strongest(faces, free)
             x == Across(faces, f, c)
  <2>1. f \in free BY <1>4, StrongestIn DEF Incident
  <2>2. f \in Incident(faces, c) /\ st.map[x] = 0 BY <2>1
  <2>3. new = [map |-> [st.map EXCEPT ![c] = st.nc + 1, ![x] = st.nc + 1], nc |-> st.nc + 1]
    BY <1>2, <1>4 DEF Merge
  <2> HIDE DEF f, new
  <2>4. x \in 1..n /\ x # c /\ f \in DOMAIN faces /\ Joins(faces[f], {c}, {x})
    BY <2>2, AcrossIs DEF Joins
  <2> HIDE DEF x
  <2>5. /\ new.map = [st.map EXCEPT ![c] = st.nc + 1, ![x] = st.nc + 1]
        /\ new.nc = st.nc + 1 /\ new = [map |-> new.map, nc |-> new.nc]
    BY <2>3
  <2>6. /\ new.map \in [1..n -> Nat]
        /\ \A d \in 1..n : new.map[d] = IF d \in {c, x} THEN st.nc + 1 ELSE st.map[d]
    <3> DEFINE one == [st.map EXCEPT ![c] = st.nc + 1]
    <3>1. one \in [1..n -> Nat] /\ \A d \in 1..n : one[d] = IF d = c THEN st.nc + 1 ELSE st.map[d]
      BY <1>1
    <3>2. new.map = [one EXCEPT ![x] = st.nc + 1] BY <2>5
    <3> HIDE DEF one
    <3> QED BY <1>1, <2>4, <3>1, <3>2
  <2>7. new \in Merging(n) BY <1>1, <2>5, <2>6 DEF Merging
  <2>8. Members(new.map, st.nc + 1) = {c, x}
    <3>1. \A d \in 1..n : st.map[d] # st.nc + 1 BY <1>1, <1>2
    <3> QED BY <2>4, <2>6, <3>1 DEF Members
  <2>9. Connected(faces, Members(new.map, st.nc + 1)) BY <2>4, <2>8, PairConnected
  <2>10. \A d \in 1..n : Members(new.map, st.nc + 1) # {d} BY <2>4, <2>8
  <2>11. st.nc + 1 \in Nat /\ st.nc + 1 \in 1..new.nc BY <1>1, <2>5
  <2>12. Grouped(faces, n, c, st, {c, x}, st.nc + 1, new)
    BY <1>4, <2>2, <2>5, <2>6, <2>9, <2>10, <2>11 DEF Grouped
  <2>13. Merged(faces, n, c, new) BY <1>1, <2>7, <2>11, <2>12, Regrouped
  <2> QED BY <2>13 DEF new
<1>5. CASE st.map[c] = 0 /\ free = {}
  <2> DEFINE to == LeftoverGoesTo(faces, st, c)
             nc == IF to > st.nc THEN to ELSE st.nc
  <2>1. new = [map |-> [st.map EXCEPT ![c] = to], nc |-> nc]
    BY <1>2, <1>5 DEF Merge
  <2>2. CASE taken = {}
    <3>1. to = st.nc + 1 BY <2>2 DEF LeftoverGoesTo
    <3>2. Incident(faces, c) = {}
      <4> SUFFICES ASSUME NEW f \in Incident(faces, c) PROVE FALSE
        OBVIOUS
      <4>1. Across(faces, f, c) \in 1..n BY AcrossIs
      <4>2. st.map[Across(faces, f, c)] \in Nat BY <1>2, <4>1
      <4> QED BY <1>5, <2>2, <4>2
    <3> HIDE DEF to, new
    <3>3. new.map = [st.map EXCEPT ![c] = st.nc + 1] /\ new.nc = st.nc + 1
          /\ new = [map |-> new.map, nc |-> new.nc]
      BY <1>1, <2>1, <3>1
    <3>4. /\ new.map \in [1..n -> Nat]
          /\ \A d \in 1..n : new.map[d] = IF d \in {c} THEN st.nc + 1 ELSE st.map[d]
      BY <1>1, <3>3
    <3>5. new \in Merging(n) BY <1>1, <3>3, <3>4 DEF Merging
    <3>6. Members(new.map, st.nc + 1) = {c}
      <4>1. \A d \in 1..n : st.map[d] # st.nc + 1 BY <1>1, <1>2
      <4> QED BY <3>4, <4>1 DEF Members
    <3>7. Connected(faces, Members(new.map, st.nc + 1))
      <4>1. \A part \in SUBSET {c} : part = {} \/ part = {c} OBVIOUS
      <4> QED BY <3>6, <4>1 DEF Connected
    <3>8. \A d \in 1..n : Members(new.map, st.nc + 1) = {d} => Incident(faces, d) = {}
      BY <3>2, <3>6
    <3>9. st.nc + 1 \in Nat /\ st.nc + 1 \in 1..new.nc BY <1>1, <3>3
    <3>10. Grouped(faces, n, c, st, {c}, st.nc + 1, new)
      BY <1>5, <3>3, <3>4, <3>7, <3>8, <3>9 DEF Grouped
    <3>11. Merged(faces, n, c, new) BY <1>1, <3>5, <3>9, <3>10, Regrouped
    <3> QED BY <3>11 DEF new
  <2>3. CASE taken # {}
    <3> DEFINE f == Strongest(faces, taken)
               x == Across(faces, f, c)
    <3>1. f \in taken BY <2>3, StrongestIn DEF Incident
    <3>2. f \in Incident(faces, c) /\ st.map[x] > 0 BY <3>1
    <3>3. to = st.map[x] BY <2>3 DEF LeftoverGoesTo
    <3> HIDE DEF f, new, to
    <3>4. x \in 1..n /\ x # c /\ f \in DOMAIN faces /\ Joins(faces[f], {c}, {x})
      BY <3>2, AcrossIs DEF Joins
    <3> HIDE DEF x
    <3>5. to \in Nat /\ to > 0 /\ to <= st.nc BY <1>2, <3>2, <3>3, <3>4
    <3>6. new.map = [st.map EXCEPT ![c] = to] /\ new.nc = st.nc
          /\ new = [map |-> new.map, nc |-> new.nc]
      BY <1>1, <2>1, <3>5
    <3>7. /\ new.map \in [1..n -> Nat]
          /\ \A d \in 1..n : new.map[d] = IF d \in {c} THEN to ELSE st.map[d]
      BY <1>1, <3>5, <3>6
    <3>8. new \in Merging(n) BY <1>1, <3>6, <3>7 DEF Merging
    <3>9. Members(new.map, to) = Members(st.map, to) \cup {c} BY <1>1, <3>7 DEF Members
    <3>10. x \in Members(st.map, to) /\ c \notin Members(st.map, to)
      BY <1>1, <1>5, <3>3, <3>4, <3>5 DEF Members
    <3>11. Connected(faces, Members(st.map, to)) BY <1>1, <3>5 DEF Merged, Whole
    <3>12. Connected(faces, Members(new.map, to))
      BY <3>4, <3>9, <3>10, <3>11, GrownConnected
    <3>13. \A d \in 1..n : Members(new.map, to) # {d} BY <3>4, <3>9, <3>10
    <3>14. Grouped(faces, n, c, st, {c}, to, new)
      <4>1. to \in 1..new.nc BY <1>1, <3>5, <3>6
      <4> QED BY <1>5, <3>6, <3>7, <3>12, <3>13, <4>1 DEF Grouped
    <3>15. Merged(faces, n, c, new) BY <1>1, <3>5, <3>8, <3>14, Regrouped
    <3> QED BY <3>15 DEF new
  <2> QED BY <2>2, <2>3
<1> QED BY <1>2, <1>3, <1>4, <1>5

(* So it holds when all cells are done; the states of the loop exist, as    *)
(* every round leads from such a state to such a state.                     *)
LEMMA AggregateIs ==
  ASSUME NEW n, NEW faces, Mesh(faces, n)
  PROVE  Merged(faces, n, n, pairwise_aggregate(faces, n))
<1> DEFINE start == [map |-> [d \in 1..n |-> 0], nc |-> 0]
           Eq(f) == f = [c \in 0..n |-> IF c = 0 THEN start ELSE Merge(faces, f[c - 1], c)]
           Loop(f) == f[0] = start /\ \A c \in 1..n : f[c] = Merge(faces, f[c - 1], c)
           Any == {st \in Merging(n) : \E c \in 0..n : Merged(faces, n, c, st)}
           Next(c, st) == IF Merged(faces, n, c - 1, st) THEN Merge(faces, st, c) ELSE start
           g == [c \in 1..n |-> [st \in Any |-> Next(c, st)]]
<1>1. n \in Nat BY DEF Mesh
<1>2. Merged(faces, n, 0, start) /\ start \in Any
  <2>1. Merged(faces, n, 0, start) BY MergeStart
  <2>2. start \in Merging(n) BY <1>1 DEF Merging
  <2> HIDE DEF start
  <2> QED BY <1>1, <2>1, <2>2
<1> HIDE DEF start
<1>3. ASSUME NEW c \in 1..n, NEW st, Merged(faces, n, c - 1, st)
      PROVE  Merged(faces, n, c, Merge(faces, st, c)) /\ Merge(faces, st, c) \in Any
  <2>1. Merged(faces, n, c, Merge(faces, st, c)) BY <1>3, MergeKeeps
  <2>2. Merge(faces, st, c) \in Merging(n) BY <2>1 DEF Merged
  <2> QED BY <1>1, <2>1, <2>2
<1> HIDE DEF Any
<1>4. \E f : DOMAIN f = 0..n /\ f = [c \in 0..n |-> f[c]] /\ Loop(f)
  <2>1. \A c \in 1..n : \A st \in Any : Next(c, st) \in Any BY <1>2, <1>3
  <2> HIDE DEF Next
  <2>2. g \in [1..n -> [Any -> Any]] BY <2>1
  <2>3. \A c \in 1..n : \A st \in Any : g[c][st] = Next(c, st) OBVIOUS
  <2> HIDE DEF g
  <2>4. PICK f : LoopOf(f, g, n, Any, start)
    <3>1. IsLoop(g, n, Any) BY <2>2 DEF IsLoop
    <3> QED BY <1>1, <1>2, <3>1, LoopExists
  <2> DEFINE P == {c \in 0..n : Merged(faces, n, c, f[c])}
  <2>5. 0 \in P BY <1>1, <1>2, <2>4 DEF LoopOf
  <2>6. ASSUME NEW c \in 1..n, Merged(faces, n, c - 1, f[c - 1])
        PROVE  f[c] = Merge(faces, f[c - 1], c) /\ Merged(faces, n, c, f[c])
    <3>1. f[c - 1] \in Any BY <1>1, <2>4 DEF LoopOf
    <3>2. f[c] = Next(c, f[c - 1]) BY <2>3, <2>4, <3>1 DEF LoopOf
    <3>3. f[c] = Merge(faces, f[c - 1], c) BY <2>6, <3>2 DEF Next
    <3> QED BY <1>3, <2>6, <3>3
  <2>7. \A c \in 0..n : c \in P
    <3>1. \A c \in 1..n : c - 1 \in P => c \in P BY <1>1, <2>6
    <3> HIDE DEF P
    <3> QED BY <1>1, <2>5, <3>1, Upwards
  <2>8. \A c \in 1..n : f[c] = Merge(faces, f[c - 1], c)
    <3> TAKE c \in 1..n
    <3>1. c - 1 \in 0..n BY <1>1
    <3> QED BY <2>6, <2>7, <3>1
  <2> QED BY <2>4, <2>8 DEF LoopOf
<1>5. \E f : Eq(f)
  <2>1. PICK f : DOMAIN f = 0..n /\ f = [c \in 0..n |-> f[c]] /\ Loop(f) BY <1>4
  <2>2. \A c \in 0..n : f[c] = IF c = 0 THEN start ELSE Merge(faces, f[c - 1], c)
    <3> TAKE c \in 0..n
    <3>1. Loop(f) BY <2>1
    <3>2. CASE c = 0 BY <3>1, <3>2
    <3>3. CASE c # 0
      <4>1. c \in 1..n BY <1>1, <3>3
      <4> QED BY <3>1, <3>3, <4>1
    <3> QED BY <3>2, <3>3
  <2>3. Eq(f) BY <2>1, <2>2
  <2> QED BY <2>3
<1> DEFINE after == CHOOSE f : Eq(f)
<1>6. pairwise_aggregate(faces, n) = after[n] BY DEF pairwise_aggregate, start
<1>7. Loop(after)
  <2>1. Eq(after)
    <3> HIDE DEF Eq
    <3> QED BY <1>5
  <2> HIDE DEF after
  <2>2. \A c \in 0..n : after[c] = IF c = 0 THEN start ELSE Merge(faces, after[c - 1], c)
    BY <2>1
  <2> QED BY <1>1, <2>2
<1> HIDE DEF after, Eq
<1> DEFINE P == {c \in 0..n : Merged(faces, n, c, after[c])}
<1>8. \A c \in 0..n : c \in P
  <2>1. 0 \in P BY <1>1, <1>2, <1>7
  <2>2. \A c \in 1..n : c - 1 \in P => c \in P BY <1>1, <1>3, <1>7
  <2> HIDE DEF P
  <2> QED BY <1>1, <2>1, <2>2, Upwards
<1> QED BY <1>1, <1>6, <1>8

LEMMA AggregateSound ==
  ASSUME NEW n, NEW faces, Mesh(faces, n), NEW agg, agg = pairwise_aggregate(faces, n)
  PROVE  /\ DOMAIN agg.map = 1..n
         /\ {agg.map[c] : c \in DOMAIN agg.map} = 1..agg.nc
         /\ \A a \in 1..agg.nc : Connected(faces, Members(agg.map, a))
         /\ \A c \in DOMAIN agg.map :
              Members(agg.map, agg.map[c]) = {c} => Incident(faces, c) = {}
<1>1. Merged(faces, n, n, agg) BY AggregateIs
<1>2. agg.map \in [1..n -> Nat] /\ agg.nc \in Nat /\ DOMAIN agg.map = 1..n
  BY <1>1 DEF Merged, Merging
<1>3. \A c \in 1..n : agg.map[c] \in 1..agg.nc /\ agg.map[c] > 0
  <2> TAKE c \in 1..n
  <2>1. agg.map[c] \in Nat BY <1>2
  <2>2. agg.map[c] <= agg.nc /\ agg.map[c] > 0 BY <1>1 DEF Merged, Numbered
  <2> QED BY <1>2, <2>1, <2>2
<1>4. \A a \in 1..agg.nc : \E c \in 1..n : agg.map[c] = a BY <1>1 DEF Merged, Numbered
<1>5. {agg.map[c] : c \in DOMAIN agg.map} = 1..agg.nc BY <1>2, <1>3, <1>4
<1> QED BY <1>1, <1>2, <1>3, <1>5 DEF Merged, Whole, Accompanied
-----------------------------------------------------------------------------
(* y, and the reader of a scalar.                                           *)

Text == Seq(Glyphs)

(* The loop that escapes a text, and how far its result has got after i     *)
(* characters.                                                              *)
Escaping(e, s) ==
  /\ e \in [0..Len(s) -> Text] /\ e[0] = <<>>
  /\ \A i \in 1..Len(s) : e[i] = e[i - 1] \o Escape(s[i])

LEMMA EscapeIs == ASSUME NEW c \in Glyphs PROVE Escape(c) \in Text
<1>1. Backslash \in Glyphs BY ManifestAssumption
<1>2. <<c>> \in Seq(Glyphs) OBVIOUS
<1>3. <<Backslash, c>> \in Seq(Glyphs) BY <1>1
<1> QED BY <1>2, <1>3 DEF Escape, Text

LEMMA EscapedIs ==
  ASSUME NEW s \in Text
  PROVE  \E e : Escaping(e, s) /\ Escaped(s) = e[Len(s)]
<1> DEFINE n == Len(s)
           Eq(f) == f = [i \in 0..n |-> IF i = 0 THEN <<>> ELSE f[i - 1] \o Escape(s[i])]
           g == [i \in 1..n |-> [t \in Text |-> t \o Escape(s[i])]]
<1>1. n \in Nat /\ \A i \in 1..n : s[i] \in Glyphs BY ElementOfSeq DEF Text
<1>2. \A i \in 1..n : Escape(s[i]) \in Text BY <1>1, EscapeIs
<1> HIDE DEF n
<1>3. IsLoop(g, n, Text)
  <2>1. \A i \in 1..n : \A t \in Text : t \o Escape(s[i]) \in Text
    BY <1>2, ConcatProperties DEF Text
  <2> QED BY <2>1 DEF IsLoop
<1>4. <<>> \in Text BY DEF Text
<1>5. PICK f : LoopOf(f, g, n, Text, <<>>)
  <2> HIDE DEF g
  <2> QED BY <1>1, <1>3, <1>4, LoopExists
<1>6. /\ f \in [0..n -> Text] /\ f[0] = <<>>
      /\ \A i \in 1..n : f[i] = f[i - 1] \o Escape(s[i])
  <2>1. f \in [0..n -> Text] /\ f[0] = <<>> BY <1>5 DEF LoopOf
  <2>2. ASSUME NEW i \in 1..n PROVE f[i] = f[i - 1] \o Escape(s[i])
    <3>1. f[i - 1] \in Text BY <1>1, <2>1
    <3>2. f[i] = g[i][f[i - 1]] BY <1>5 DEF LoopOf
    <3> QED BY <3>1, <3>2
  <2> QED BY <2>1, <2>2
<1>7. Eq(f)
  <2>1. ASSUME NEW i \in 0..n
        PROVE  f[i] = IF i = 0 THEN <<>> ELSE f[i - 1] \o Escape(s[i])
    <3>1. CASE i = 0 BY <1>6, <3>1
    <3>2. CASE i # 0
      <4>1. i \in 1..n BY <1>1, <3>2
      <4> QED BY <1>6, <3>2, <4>1
    <3> QED BY <3>1, <3>2
  <2>2. f = [i \in 0..n |-> f[i]] BY <1>6
  <2> QED BY <2>1, <2>2
<1> DEFINE e == CHOOSE h : Eq(h)
<1>8. Eq(e)
  <2> HIDE DEF Eq
  <2> QED BY <1>7
<1>9. Escaped(s) = e[n] BY DEF Escaped, n
<1> HIDE DEF e
<1>10. e = f
  <2> DEFINE P == {i \in 0..n : e[i] = f[i]}
  <2>1. \A i \in 0..n : e[i] = IF i = 0 THEN <<>> ELSE e[i - 1] \o Escape(s[i]) BY <1>8
  <2>2. 0 \in P BY <1>1, <1>6, <2>1
  <2>3. ASSUME NEW i \in 1..n, i - 1 \in P PROVE i \in P
    <3>1. i \in 0..n /\ i # 0 BY <1>1
    <3>2. e[i] = e[i - 1] \o Escape(s[i]) BY <2>1, <3>1
    <3> QED BY <1>6, <2>3, <3>1, <3>2
  <2>4. \A i \in 0..n : i \in P
    <3> HIDE DEF P
    <3> QED BY <1>1, <2>2, <2>3, Upwards
  <2>5. e = [i \in 0..n |-> e[i]] /\ f = [i \in 0..n |-> f[i]] BY <1>6, <1>8
  <2> QED BY <2>4, <2>5
<1> QED BY <1>6, <1>9, <1>10 DEF Escaping, n

(* What is written after i characters stays where it is.                    *)
LEMMA EscapedPrefix ==
  ASSUME NEW s \in Text, NEW e, Escaping(e, s)
  PROVE  \A i \in 0..Len(s) : /\ Len(e[i]) \in Nat /\ Len(e[i]) <= Len(e[Len(s)])
                              /\ \A j \in 1..Len(e[i]) : e[Len(s)][j] = e[i][j]
<1> DEFINE n == Len(s)
           Kept(i) == /\ Len(e[i]) <= Len(e[n])
                      /\ \A j \in 1..Len(e[i]) : e[n][j] = e[i][j]
           P == {k \in 0..n : Kept(n - k)}
<1>1. n \in Nat /\ \A i \in 0..n : e[i] \in Text /\ Len(e[i]) \in Nat
  BY LenProperties DEF Text, Escaping
<1>2. 0 \in P
  <2>1. n - 0 = n /\ n \in 0..n BY <1>1
  <2>2. Kept(n) BY <1>1, <2>1
  <2> QED BY <1>1, <2>1, <2>2
<1>3. ASSUME NEW k \in 1..n, k - 1 \in P PROVE k \in P
  <2> DEFINE i == n - k
  <2>1. i \in 0..n /\ i + 1 \in 1..n /\ n - (k - 1) = i + 1 /\ (i + 1) - 1 = i BY <1>1
  <2>2. Kept(i + 1) BY <1>3, <2>1
  <2>3. e[i + 1] = e[i] \o Escape(s[i + 1]) BY <2>1 DEF Escaping, n
  <2>4. e[i] \in Text /\ Escape(s[i + 1]) \in Text
    <3>1. s[i + 1] \in Glyphs BY <2>1, ElementOfSeq DEF Text, n
    <3> QED BY <1>1, <2>1, <3>1, EscapeIs
  <2> HIDE DEF i, n
  <2>5. Len(e[i + 1]) >= Len(e[i]) /\ \A j \in 1..Len(e[i]) : e[i + 1][j] = e[i][j]
    <3> DEFINE a == e[i]
               b == Escape(s[i + 1])
    <3>1. a \in Text /\ b \in Text /\ e[i + 1] = a \o b BY <2>3, <2>4
    <3> HIDE DEF a, b
    <3>2. Len(a \o b) = Len(a) + Len(b) /\ Len(a) \in Nat /\ Len(b) \in Nat
      BY <3>1, ConcatProperties, LenProperties DEF Text
    <3>3. \A j \in 1..Len(a) : (a \o b)[j] = a[j]
      BY <3>1, <3>2, ConcatProperties DEF Text
    <3> QED BY <3>1, <3>2, <3>3 DEF a
  <2>6. /\ Len(e[i]) \in Nat /\ Len(e[i + 1]) \in Nat /\ Len(e[n]) \in Nat
    <3>1. i + 1 \in 0..n /\ n \in 0..n BY <1>1, <2>1
    <3> QED BY <1>1, <2>1, <3>1
  <2>7. Kept(i) BY <2>2, <2>5, <2>6
  <2> HIDE DEF Kept
  <2> QED BY <1>1, <2>7 DEF i
<1>4. \A k \in 0..n : k \in P
  <2> HIDE DEF P, n
  <2> QED BY <1>1, <1>2, <1>3, Upwards
<1>5. ASSUME NEW i \in 0..n PROVE Kept(i)
  <2>1. n - i \in 0..n /\ n - (n - i) = i BY <1>1
  <2>2. n - i \in P BY <1>4, <2>1
  <2> HIDE DEF Kept, n
  <2> QED BY <2>1, <2>2
<1> QED BY <1>1, <1>5

(* The reader's states, and the loop over a quoted scalar.                  *)
Reader == [text : Text, at : {"text", "escape", "end", "wrong"}]
ReadingLoop(r, t) ==
  /\ r \in [0..(Len(t) - 1) -> Reader] /\ r[0] = [text |-> <<>>, at |-> "text"]
  /\ \A i \in 1..(Len(t) - 1) : r[i] = Reading(r[i - 1], t[i + 1])

LEMMA ReadingType ==
  ASSUME NEW st \in Reader, NEW c \in Glyphs PROVE Reading(st, c) \in Reader
<1>1. Append(st.text, c) \in Text BY DEF Reader, Text
<1>2. st = [text |-> st.text, at |-> st.at] /\ st.text \in Text BY DEF Reader
<1>3. /\ [st EXCEPT !.at = "end"] \in Reader /\ [st EXCEPT !.at = "escape"] \in Reader
      /\ [st EXCEPT !.at = "wrong"] \in Reader
  BY <1>2 DEF Reader
<1>4. [st EXCEPT !.text = Append(@, c)] \in Reader BY <1>1, <1>2 DEF Reader
<1>5. [text |-> Append(st.text, c), at |-> "text"] \in Reader BY <1>1 DEF Reader
<1> QED BY <1>3, <1>4, <1>5 DEF Reading

LEMMA ReadQuotedIs ==
  ASSUME NEW t \in Text, Len(t) > 0
  PROVE  \E r : ReadingLoop(r, t) /\ ReadQuoted(t) = r[Len(t) - 1]
<1> DEFINE n == Len(t) - 1
           start == [text |-> <<>>, at |-> "text"]
           Eq(f) == f = [i \in 0..n |-> IF i = 0 THEN start ELSE Reading(f[i - 1], t[i + 1])]
           g == [i \in 1..n |-> [st \in Reader |-> Reading(st, t[i + 1])]]
<1>1. n \in Nat /\ \A i \in 1..n : t[i + 1] \in Glyphs
  <2>1. Len(t) \in Nat BY LenProperties DEF Text
  <2>2. \A i \in 1..n : i + 1 \in 1..Len(t) BY <2>1
  <2> QED BY <2>1, <2>2, ElementOfSeq DEF Text
<1>a. start \in Reader
  <2>1. <<>> \in Text BY DEF Text
  <2> QED BY <2>1 DEF Reader
<1> HIDE DEF start
<1>b. ReadQuoted(t) = (CHOOSE f : Eq(f))[n] BY DEF ReadQuoted, n, start
<1>c. ASSUME NEW r \in [0..n -> Reader], r[0] = start,
             \A i \in 1..n : r[i] = Reading(r[i - 1], t[i + 1])
      PROVE  ReadingLoop(r, t)
  BY <1>c DEF ReadingLoop, n, start
<1> HIDE DEF n
<1>3. IsLoop(g, n, Reader)
  <2>1. \A i \in 1..n : \A st \in Reader : Reading(st, t[i + 1]) \in Reader
    BY <1>1, ReadingType
  <2> QED BY <2>1 DEF IsLoop
<1>5. PICK f : LoopOf(f, g, n, Reader, start)
  <2> HIDE DEF g
  <2> QED BY <1>1, <1>3, <1>a, LoopExists
<1>6. /\ f \in [0..n -> Reader] /\ f[0] = start
      /\ \A i \in 1..n : f[i] = Reading(f[i - 1], t[i + 1])
  <2>1. f \in [0..n -> Reader] /\ f[0] = start BY <1>5 DEF LoopOf
  <2>2. ASSUME NEW i \in 1..n PROVE f[i] = Reading(f[i - 1], t[i + 1])
    <3>1. f[i - 1] \in Reader BY <1>1, <2>1
    <3>2. f[i] = g[i][f[i - 1]] BY <1>5 DEF LoopOf
    <3> QED BY <3>1, <3>2
  <2> QED BY <2>1, <2>2
<1>7. Eq(f)
  <2>1. ASSUME NEW i \in 0..n
        PROVE  f[i] = IF i = 0 THEN start ELSE Reading(f[i - 1], t[i + 1])
    <3>1. CASE i = 0 BY <1>6, <3>1
    <3>2. CASE i # 0
      <4>1. i \in 1..n BY <1>1, <3>2
      <4> QED BY <1>6, <3>2, <4>1
    <3> QED BY <3>1, <3>2
  <2>2. f = [i \in 0..n |-> f[i]] BY <1>6
  <2> QED BY <2>1, <2>2
<1> DEFINE e == CHOOSE h : Eq(h)
<1>8. Eq(e)
  <2> HIDE DEF Eq
  <2> QED BY <1>7
<1> HIDE DEF e
<1>10. e = f
  <2> DEFINE P == {i \in 0..n : e[i] = f[i]}
  <2>1. \A i \in 0..n : e[i] = IF i = 0 THEN start ELSE Reading(e[i - 1], t[i + 1]) BY <1>8
  <2>2. 0 \in P BY <1>1, <1>6, <2>1
  <2>3. ASSUME NEW i \in 1..n, i - 1 \in P PROVE i \in P
    <3>1. i \in 0..n /\ i # 0 BY <1>1
    <3>2. e[i] = Reading(e[i - 1], t[i + 1]) BY <2>1, <3>1
    <3> QED BY <1>6, <2>3, <3>1, <3>2
  <2>4. \A i \in 0..n : i \in P
    <3> HIDE DEF P
    <3> QED BY <1>1, <2>2, <2>3, Upwards
  <2>5. e = [i \in 0..n |-> e[i]] /\ f = [i \in 0..n |-> f[i]] BY <1>6, <1>8
  <2> QED BY <2>4, <2>5
<1>11. ReadQuoted(t) = f[n] BY <1>b, <1>10 DEF e
<1>12. ReadingLoop(f, t) BY <1>6, <1>c
<1> QED BY <1>11, <1>12 DEF n

(* The beginning of a text, character by character.                         *)
LEMMA BeginningGrows ==
  ASSUME NEW s \in Text, NEW i \in 1..Len(s)
  PROVE  /\ SubSeq(s, 1, i - 1) \in Text /\ s[i] \in Glyphs
         /\ SubSeq(s, 1, i) = Append(SubSeq(s, 1, i - 1), s[i])
<1> DEFINE a == SubSeq(s, 1, i - 1)
           b == SubSeq(s, 1, i)
<1>1. i \in Nat /\ i > 0 /\ Len(s) \in Nat /\ s[i] \in Glyphs
  BY LenProperties, ElementOfSeq DEF Text
<1>2. a \in Text /\ Len(a) = i - 1 /\ \A j \in 1..(i - 1) : a[j] = s[j]
  BY <1>1, SubSeqProperties DEF Text
<1>3. b \in Text /\ Len(b) = i /\ \A j \in 1..i : b[j] = s[j]
  BY <1>1, SubSeqProperties DEF Text
<1> HIDE DEF a, b
<1> DEFINE c == Append(a, s[i])
<1>4. c \in Text /\ Len(c) = i /\ \A j \in 1..i : c[j] = s[j]
  BY <1>1, <1>2, AppendProperties DEF Text
<1> HIDE DEF c
<1>5. b = c BY <1>1, <1>3, <1>4, SeqEqual DEF Text
<1> QED BY <1>1, <1>2, <1>5 DEF a, b, c

(* The four ways a character is read.                                       *)
LEMMA ReadingCases ==
  ASSUME NEW x \in Text, NEW c \in Glyphs
  PROVE  LET text == [text |-> x, at |-> "text"]
             escape == [text |-> x, at |-> "escape"]
         IN /\ Reading(text, Quote) = [text |-> x, at |-> "end"]
            /\ Reading(text, Backslash) = [text |-> x, at |-> "escape"]
            /\ c \notin {Quote, Backslash} =>
                 Reading(text, c) = [text |-> Append(x, c), at |-> "text"]
            /\ c \in {Quote, Backslash} =>
                 Reading(escape, c) = [text |-> Append(x, c), at |-> "text"]
<1> DEFINE st == [text |-> x, at |-> "text"]
           es == [text |-> x, at |-> "escape"]
<1>1. Reading(st, Quote) = [text |-> x, at |-> "end"]
  <2>1. Quote # Backslash BY DEF Quote, Backslash
  <2>2. st.at = "text" /\ [st EXCEPT !.at = "end"] = [text |-> x, at |-> "end"] OBVIOUS
  <2> HIDE DEF st
  <2> QED BY <2>1, <2>2 DEF Reading
<1>2. Reading(st, Backslash) = [text |-> x, at |-> "escape"]
  <2>1. Quote # Backslash BY DEF Quote, Backslash
  <2>2. st.at = "text" /\ [st EXCEPT !.at = "escape"] = [text |-> x, at |-> "escape"] OBVIOUS
  <2> HIDE DEF st
  <2> QED BY <2>1, <2>2 DEF Reading
<1>3. ASSUME c \notin {Quote, Backslash}
      PROVE  Reading(st, c) = [text |-> Append(x, c), at |-> "text"]
  <2>1. st.at = "text" /\ [st EXCEPT !.text = Append(@, c)] = [text |-> Append(x, c), at |-> "text"]
    OBVIOUS
  <2> HIDE DEF st
  <2> QED BY <1>3, <2>1 DEF Reading
<1>4. ASSUME c \in {Quote, Backslash}
      PROVE  Reading(es, c) = [text |-> Append(x, c), at |-> "text"]
  <2>1. es.at = "escape" /\ es.text = x /\ es.at # "text" OBVIOUS
  <2> HIDE DEF es
  <2> QED BY <1>4, <2>1 DEF Reading
<1> QED BY <1>1, <1>2, <1>3, <1>4

(* Reading what was escaped gives the text back, and stops at the quote     *)
(* that closes it and at no other.                                          *)
LEMMA QuotedReadsBack ==
  ASSUME NEW s \in Text, NEW t, t = <<Quote>> \o Escaped(s) \o <<Quote>>
  PROVE  t \in Text /\ Len(t) > 0 /\ t[1] = Quote
         /\ ReadQuoted(t).at = "end" /\ ReadQuoted(t).text = s
<1>1. PICK e : Escaping(e, s) /\ Escaped(s) = e[Len(s)] BY EscapedIs
<1> DEFINE n == Len(s)
           E == e[n]
<1>2. n \in Nat /\ \A i \in 0..n : e[i] \in Text /\ Len(e[i]) \in Nat
  BY <1>1, LenProperties DEF Text, Escaping
<1>3. E \in Text /\ Len(E) \in Nat BY <1>2
<1>4. /\ t \in Text /\ Len(t) = Len(E) + 2 /\ t[1] = Quote
      /\ \A j \in 1..Len(E) : t[j + 1] = E[j]
      /\ t[Len(E) + 2] = Quote
  <2> DEFINE q == <<Quote>>
             a == q \o E
  <2>1. q \in Text /\ Len(q) = 1 /\ q[1] = Quote
    <3>1. Quote \in Glyphs BY ManifestAssumption
    <3> QED BY <3>1 DEF Text
  <2>2. t = a \o q BY <1>1
  <2> HIDE DEF q, E
  <2>3. /\ a \in Text /\ Len(a) = Len(E) + 1 /\ a[1] = Quote
        /\ \A j \in 1..Len(E) : a[j + 1] = E[j]
    <3>1. a \in Text /\ Len(a) = 1 + Len(E) BY <1>3, <2>1, ConcatProperties, ZenonT(60) DEF Text
    <3>2. \A j \in 1..Len(a) : a[j] = IF j <= Len(q) THEN q[j] ELSE E[j - Len(q)]
      BY <1>3, <2>1, ConcatProperties, ZenonT(60) DEF Text
    <3> HIDE DEF a
    <3>3. a[1] = Quote BY <1>3, <2>1, <3>1, <3>2
    <3>4. ASSUME NEW j \in 1..Len(E) PROVE a[j + 1] = E[j]
      <4>1. j + 1 \in 1..Len(a) /\ ~(j + 1 <= 1) /\ (j + 1) - 1 = j BY <1>3, <3>1
      <4> QED BY <2>1, <3>2, <4>1
    <3> QED BY <1>3, <3>1, <3>3, <3>4
  <2> HIDE DEF a
  <2>4. t \in Text /\ Len(t) = Len(a) + 1
    <3>1. a \o q \in Seq(Glyphs) /\ Len(a \o q) = Len(a) + Len(q)
      BY <2>1, <2>3, ConcatProperties DEF Text
    <3> QED BY <2>1, <2>2, <3>1 DEF Text
  <2>5. \A j \in 1..Len(t) : t[j] = IF j <= Len(a) THEN a[j] ELSE q[j - Len(a)]
    BY <2>1, <2>2, <2>3, ConcatProperties DEF Text
  <2>6. t[1] = Quote BY <1>3, <2>3, <2>4, <2>5
  <2>7. ASSUME NEW j \in 1..Len(E) PROVE t[j + 1] = E[j]
    <3>1. j + 1 \in 1..Len(t) /\ j + 1 <= Len(a) BY <1>3, <2>3, <2>4
    <3> QED BY <2>3, <2>5, <3>1
  <2>8. t[Len(E) + 2] = Quote
    <3>1. Len(E) + 2 \in 1..Len(t) /\ ~(Len(E) + 2 <= Len(a)) /\ (Len(E) + 2) - Len(a) = 1
      BY <1>3, <2>3, <2>4
    <3> QED BY <2>1, <2>5, <3>1
  <2> QED BY <1>3, <2>3, <2>4, <2>6, <2>7, <2>8
<1>5. Len(t) > 0 BY <1>3, <1>4
<1>6. PICK r : ReadingLoop(r, t) /\ ReadQuoted(t) = r[Len(t) - 1]
  BY <1>4, <1>5, ReadQuotedIs
<1>7. /\ r[0] = [text |-> <<>>, at |-> "text"]
      /\ \A j \in 1..Len(E) : r[j] = Reading(r[j - 1], E[j])
      /\ r[Len(E) + 1] = Reading(r[Len(E)], Quote)
  <2> HIDE DEF E
  <2>1. Len(t) - 1 = Len(E) + 1 BY <1>3, <1>4
  <2>2. ASSUME NEW j \in 1..Len(E) PROVE r[j] = Reading(r[j - 1], E[j])
    <3>1. j \in 1..(Len(t) - 1) BY <1>3, <2>1
    <3> QED BY <1>4, <1>6, <3>1 DEF ReadingLoop
  <2>3. Len(E) + 1 \in 1..(Len(t) - 1) /\ (Len(E) + 1) - 1 = Len(E)
        /\ (Len(E) + 1) + 1 = Len(E) + 2
    BY <1>3, <2>1
  <2>4. r[Len(E) + 1] = Reading(r[Len(E)], Quote)
    BY <1>4, <1>6, <2>3 DEF ReadingLoop
  <2> QED BY <1>6, <2>2, <2>4 DEF ReadingLoop
<1>8. \A i \in 0..n : /\ Len(e[i]) \in Nat /\ Len(e[i]) <= Len(E)
                      /\ \A j \in 1..Len(e[i]) : E[j] = e[i][j]
  BY <1>1, EscapedPrefix
<1>9. e[0] = <<>> /\ \A i \in 1..n : e[i] = e[i - 1] \o Escape(s[i])
  BY <1>1 DEF Escaping
<1> HIDE DEF E
<1> DEFINE P == {i \in 0..n : r[Len(e[i])] = [text |-> SubSeq(s, 1, i), at |-> "text"]}
<1>10. 0 \in P
  <2>1. Len(e[0]) = 0 BY <1>9
  <2>2. SubSeq(s, 1, 0) = <<>> BY <1>2, SubSeqProperties DEF Text
  <2> QED BY <1>2, <1>7, <2>1, <2>2
<1>11. ASSUME NEW i \in 1..n, i - 1 \in P PROVE i \in P
  <2> DEFINE p == Len(e[i - 1])
             c == s[i]
             x == SubSeq(s, 1, i - 1)
  <2>1. i - 1 \in 0..n /\ i \in 0..n BY <1>2
  <2>2. p \in Nat /\ e[i - 1] \in Text /\ r[p] = [text |-> x, at |-> "text"]
    BY <1>2, <1>11, <2>1
  <2>3. c \in Glyphs /\ SubSeq(s, 1, i) = Append(x, c) BY <1>2, BeginningGrows
  <2>4. Escape(c) \in Text BY <2>3, EscapeIs
  <2> DEFINE q == Escape(c)
  <2>5. Len(e[i]) = p + Len(q) /\ \A j \in 1..Len(q) : e[i][p + j] = q[j]
    <3> DEFINE a == e[i - 1]
    <3>1. a \in Text /\ q \in Text /\ e[i] = a \o q /\ Len(a) \in Nat /\ Len(q) \in Nat
      BY <1>9, <2>2, <2>4, LenProperties DEF Text
    <3> HIDE DEF a, q
    <3>2. Len(a \o q) = Len(a) + Len(q) BY <3>1, ConcatProperties DEF Text
    <3>3. \A k \in 1..(Len(a) + Len(q)) :
            (a \o q)[k] = IF k <= Len(a) THEN a[k] ELSE q[k - Len(a)]
      BY <3>1, <3>2, ConcatProperties DEF Text
    <3>4. ASSUME NEW j \in 1..Len(q) PROVE (a \o q)[Len(a) + j] = q[j]
      <4>1. Len(a) + j \in 1..(Len(a) + Len(q)) /\ ~(Len(a) + j <= Len(a))
            /\ (Len(a) + j) - Len(a) = j
        BY <3>1
      <4> QED BY <3>3, <4>1
    <3> QED BY <3>1, <3>2, <3>4 DEF a
  <2>6. /\ Len(e[i]) <= Len(E) /\ \A j \in 1..Len(e[i]) : E[j] = e[i][j]
    BY <1>8, <2>1
  <2>9. x \in Text /\ c \in Glyphs BY <1>2, <2>3, BeginningGrows
  <2>7. CASE c \in {Quote, Backslash}
    <3>1. q = <<Backslash, c>> BY <2>7 DEF Escape
    <3>2. Len(q) = 2 /\ q[1] = Backslash /\ q[2] = c BY <3>1
    <3> HIDE DEF q, p, x, c
    <3>3. Len(e[i]) = p + 2 /\ e[i][p + 1] = Backslash /\ e[i][p + 2] = c
      BY <2>5, <3>2
    <3>4. /\ p + 1 \in 1..Len(E) /\ p + 2 \in 1..Len(E) /\ (p + 1) - 1 = p
          /\ (p + 2) - 1 = p + 1 /\ p + 1 \in 1..Len(e[i]) /\ p + 2 \in 1..Len(e[i])
      BY <1>3, <2>2, <2>6, <3>3
    <3>5. E[p + 1] = Backslash /\ E[p + 2] = c BY <2>6, <3>3, <3>4
    <3>6. r[p + 1] = Reading(r[p], Backslash) /\ r[p + 2] = Reading(r[p + 1], c)
      BY <1>7, <3>4, <3>5
    <3>7. r[p + 1] = [text |-> x, at |-> "escape"]
      BY <2>2, <2>9, <3>6, ReadingCases
    <3>8. r[p + 2] = [text |-> Append(x, c), at |-> "text"]
      BY <2>7, <2>9, <3>6, <3>7, ReadingCases
    <3> QED BY <2>1, <2>3, <3>3, <3>8 DEF x
  <2>8. CASE c \notin {Quote, Backslash}
    <3>1. q = <<c>> BY <2>8 DEF Escape
    <3>2. Len(q) = 1 /\ q[1] = c BY <3>1
    <3> HIDE DEF q, p, x, c
    <3>3. Len(e[i]) = p + 1 /\ e[i][p + 1] = c BY <2>5, <3>2
    <3>4. p + 1 \in 1..Len(E) /\ (p + 1) - 1 = p /\ p + 1 \in 1..Len(e[i])
      BY <1>3, <2>2, <2>6, <3>3
    <3>5. r[p + 1] = Reading(r[p], c) BY <1>7, <2>6, <3>3, <3>4
    <3>6. r[p + 1] = [text |-> Append(x, c), at |-> "text"]
      BY <2>2, <2>8, <2>9, <3>5, ReadingCases
    <3> QED BY <2>1, <2>3, <3>3, <3>6 DEF x
  <2> QED BY <2>7, <2>8
<1>12. n \in P
  <2>1. n \in 0..n BY <1>2
  <2> HIDE DEF P, n
  <2> QED BY <1>2, <1>10, <1>11, <2>1, Upwards
<1>13. r[Len(E)] = [text |-> s, at |-> "text"]
  <2>1. SubSeq(s, 1, n) = s BY <1>2, SubSeqFull DEF Text
  <2> QED BY <1>12, <2>1 DEF E
<1>14. r[Len(E) + 1] = [text |-> s, at |-> "end"]
  <2>1. Quote \in Glyphs BY ManifestAssumption
  <2> QED BY <1>7, <1>13, <2>1, ReadingCases
<1>15. ReadQuoted(t) = r[Len(E) + 1] BY <1>3, <1>4, <1>6
<1> QED BY <1>4, <1>5, <1>14, <1>15

(* y writes a scalar that is read back as it was, so two texts are never    *)
(* written alike.                                                           *)
LEMMA ScalarReadsBack ==
  ASSUME NEW s \in Text PROVE Loaded(y(s)) = <<s>>
<1>1. CASE s = <<>> \/ NeedsQuotes(s)
  <2> DEFINE t == <<Quote>> \o Escaped(s) \o <<Quote>>
  <2>1. y(s) = t BY <1>1 DEF y
  <2>2. t[1] = Quote /\ ReadQuoted(t).at = "end" /\ ReadQuoted(t).text = s
    BY QuotedReadsBack
  <2> HIDE DEF t
  <2> QED BY <2>1, <2>2 DEF Loaded
<1>2. CASE s # <<>> /\ ~NeedsQuotes(s)
  <2>1. y(s) = s BY <1>2 DEF y
  <2>2. Len(s) \in Nat /\ Len(s) > 0 /\ DOMAIN s = 1..Len(s)
    BY <1>2, LenProperties, EmptySeq DEF Text
  <2>3. /\ \A i \in DOMAIN s : s[i] \notin Indicators
        /\ s[1] # " " /\ s[Len(s)] # " " /\ s[1] \notin {"-", "?"} /\ s \notin Reserved
    BY <1>2 DEF NeedsQuotes
  <2>4. 1 \in DOMAIN s BY <2>2
  <2>5. s[1] \notin Indicators \cup {"-", "?", " "} BY <2>3, <2>4
  <2>6. /\ Quote \in Indicators /\ ":" \in Indicators /\ "#" \in Indicators
        /\ FlowIndicators \subseteq Indicators /\ FirstIndicators \subseteq Indicators \cup {"-", "?"}
    BY DEF Indicators, FlowIndicators, FirstIndicators
  <2>7. s[1] # Quote BY <2>5, <2>6
  <2>8. \A i \in 2..Len(s) : s[i] # "#"
    <3>1. \A i \in 2..Len(s) : i \in DOMAIN s BY <2>2
    <3> QED BY <2>3, <2>6, <3>1
  <2>9. \A i \in DOMAIN s : s[i] # ":" BY <2>3, <2>6
  <2>10. s[1] \notin FirstIndicators \cup {" "} /\ \A i \in DOMAIN s : s[i] \notin FlowIndicators
    BY <2>3, <2>5, <2>6
  <2>11. IsPlain(s) BY <1>2, <2>3, <2>8, <2>9, <2>10 DEF IsPlain
  <2> QED BY <2>1, <2>7, <2>11 DEF Loaded
<1> QED BY <1>1, <1>2

LEMMA ScalarsDiffer ==
  ASSUME NEW s \in Text, NEW u \in Text, y(s) = y(u) PROVE s = u
<1>1. <<s>> = <<u>> BY ScalarReadsBack
<1> QED BY <1>1

(* The fields of a row that are written are the required ones and those     *)
(* that show a text.                                                        *)
LEMMA LinesShown ==
  ASSUME NEW c, IsRow(c)
  PROVE  /\ Lines(c) = REQUIRED \cup {f \in CURATED \cup DERIVED : Shown(c, f) # <<>>}
         /\ \A f \in Lines(c) : f \in DOMAIN c.value /\ Shown(c, f) = c.value[f]
                                /\ Shown(c, f) \in Text
<1>1. REQUIRED \subseteq DOMAIN c.value /\ \A f \in DOMAIN c.value : c.value[f] \in Seq(Glyphs)
  BY DEF IsRow
<1>2. \A f : Shown(c, f) # <<>> <=> f \in DOMAIN c.value /\ c.value[f] # <<>> BY DEF Shown
<1>3. Lines(c) = REQUIRED \cup {f \in CURATED \cup DERIVED : Shown(c, f) # <<>>}
  BY <1>2 DEF Lines
<1>4. \A f \in Lines(c) : f \in DOMAIN c.value BY <1>1 DEF Lines
<1>5. \A f \in Lines(c) : Shown(c, f) = c.value[f] BY <1>4 DEF Shown
<1> QED BY <1>1, <1>3, <1>4, <1>5 DEF Text

(* Two rows are written alike exactly when they show the same.              *)
Written(c, f) == IF f \in RAW THEN c.value[f] ELSE y(c.value[f])
LEMMA RowsAlike ==
  ASSUME NEW c, NEW d, NEW i, NEW j, IsRow(c), IsRow(d)
  PROVE  Block(c, i) = Block(d, j) <=> SameRow(c, d, i, j)
<1> DEFINE F == REQUIRED \cup CURATED \cup DERIVED
<1>1. /\ Lines(c) = REQUIRED \cup {f \in CURATED \cup DERIVED : Shown(c, f) # <<>>}
      /\ \A f \in Lines(c) : Shown(c, f) = c.value[f] /\ Shown(c, f) \in Text
  BY LinesShown
<1>2. /\ Lines(d) = REQUIRED \cup {f \in CURATED \cup DERIVED : Shown(d, f) # <<>>}
      /\ \A f \in Lines(d) : Shown(d, f) = d.value[f] /\ Shown(d, f) \in Text
  BY LinesShown
<1> DEFINE sc == [f \in Lines(c) |-> Written(c, f)]
           sd == [f \in Lines(d) |-> Written(d, f)]
           dc == [f \in Lines(c) \cap DERIVED |-> i[f]]
           dd == [f \in Lines(d) \cap DERIVED |-> j[f]]
<1>3. Block(c, i) = [name |-> c.name, scalars |-> sc, derived |-> dc] BY DEF Block, Written
<1>4. Block(d, j) = [name |-> d.name, scalars |-> sd, derived |-> dd] BY DEF Block, Written
<1>5. ASSUME Block(c, i) = Block(d, j) PROVE SameRow(c, d, i, j)
  <2>1. c.name = d.name /\ sc = sd /\ dc = dd
    <3> HIDE DEF sc, sd, dc, dd
    <3> QED BY <1>3, <1>4, <1>5
  <2>2. Lines(c) = Lines(d)
    <3>1. DOMAIN sc = Lines(c) /\ DOMAIN sd = Lines(d) OBVIOUS
    <3> HIDE DEF sc, sd
    <3> QED BY <2>1, <3>1
  <2>3. ASSUME NEW f \in Lines(c) PROVE Shown(c, f) = Shown(d, f)
    <3>1. sc[f] = Written(c, f) /\ sd[f] = Written(d, f) BY <2>2
    <3>2. Written(c, f) = Written(d, f)
      <4> HIDE DEF sc, sd
      <4> QED BY <2>1, <3>1
    <3>3. CASE f \in RAW BY <1>1, <1>2, <2>2, <3>2, <3>3 DEF Written
    <3>4. CASE f \notin RAW
      <4>1. y(Shown(c, f)) = y(Shown(d, f)) BY <1>1, <1>2, <2>2, <3>2, <3>4 DEF Written
      <4>2. Shown(c, f) \in Text /\ Shown(d, f) \in Text BY <1>1, <1>2, <2>2
      <4> QED BY <4>1, <4>2, ScalarsDiffer
    <3> QED BY <3>3, <3>4
  <2>4. ASSUME NEW f \in F PROVE Shown(c, f) = Shown(d, f)
    <3>1. CASE f \in Lines(c) BY <2>3, <3>1
    <3>2. CASE f \notin Lines(c) BY <1>1, <1>2, <2>2, <3>2
    <3> QED BY <3>1, <3>2
  <2>5. ASSUME NEW f \in DERIVED, Shown(c, f) # <<>> PROVE i[f] = j[f]
    <3>1. f \in Lines(c) \cap DERIVED BY <1>1, <2>5
    <3>2. f \in Lines(d) \cap DERIVED BY <2>2, <3>1
    <3>3. dc[f] = i[f] /\ dd[f] = j[f] BY <3>1, <3>2
    <3> HIDE DEF dc, dd
    <3> QED BY <2>1, <3>3
  <2> QED BY <2>1, <2>4, <2>5 DEF SameRow
<1>6. ASSUME SameRow(c, d, i, j) PROVE Block(c, i) = Block(d, j)
  <2>1. /\ c.name = d.name /\ \A f \in F : Shown(c, f) = Shown(d, f)
        /\ \A f \in DERIVED : Shown(c, f) # <<>> => i[f] = j[f]
    BY <1>6 DEF SameRow
  <2>2. Lines(c) = Lines(d) BY <1>1, <1>2, <2>1
  <2>3. Lines(c) \subseteq F BY <1>1
  <2>4. \A f \in Lines(c) : Written(c, f) = Written(d, f)
    BY <1>1, <1>2, <2>1, <2>2, <2>3 DEF Written
  <2>5. sc = sd BY <2>2, <2>4
  <2>6. \A f \in Lines(c) \cap DERIVED : i[f] = j[f]
    <3>1. REQUIRED \cap DERIVED = {} BY DEF REQUIRED, DERIVED
    <3> QED BY <1>1, <2>1, <3>1
  <2>7. dc = dd BY <2>2, <2>6
  <2> HIDE DEF sc, sd, dc, dd
  <2> QED BY <1>3, <1>4, <2>1, <2>5, <2>7
<1> QED BY <1>5, <1>6

(* And two manifests.                                                       *)
LEMMA ManifestsAlike ==
  ASSUME NEW g, NEW h,
         \A k \in DOMAIN g.table : IsRow(g.table[k]),
         \A k \in DOMAIN h.table : IsRow(h.table[k])
  PROVE  Generated(g) = Generated(h) <=> SameContents(g, h)
<1> DEFINE cg == [k \in DOMAIN g.table |-> Block(g.table[k], g.index)]
           ch == [k \in DOMAIN h.table |-> Block(h.table[k], h.index)]
           vg == [k \in g.cases |-> g.index.resolve]
           vh == [k \in h.cases |-> h.index.resolve]
<1>1. /\ Generated(g) = [components |-> cg, validation_cases |-> vg]
      /\ Generated(h) = [components |-> ch, validation_cases |-> vh]
  BY DEF Generated, emit
<1>2. Generated(g) = Generated(h) <=> cg = ch /\ vg = vh
  <2> HIDE DEF cg, ch, vg, vh
  <2> QED BY <1>1
<1>3. vg = vh <=> g.cases = h.cases /\ (g.cases # {} => g.index.resolve = h.index.resolve)
  <2>1. ASSUME vg = vh
        PROVE  g.cases = h.cases /\ (g.cases # {} => g.index.resolve = h.index.resolve)
    <3>1. DOMAIN vg = g.cases /\ DOMAIN vh = h.cases OBVIOUS
    <3>2. g.cases = h.cases BY <2>1, <3>1
    <3>3. ASSUME NEW k \in g.cases PROVE g.index.resolve = h.index.resolve
      <4>1. vg[k] = g.index.resolve /\ vh[k] = h.index.resolve BY <3>2
      <4> HIDE DEF vg, vh
      <4> QED BY <2>1, <4>1
    <3> QED BY <3>2, <3>3
  <2>2. ASSUME g.cases = h.cases, g.cases # {} => g.index.resolve = h.index.resolve
        PROVE  vg = vh
    BY <2>2
  <2> QED BY <2>1, <2>2
<1>4. cg = ch <=> /\ DOMAIN g.table = DOMAIN h.table
                  /\ \A k \in DOMAIN g.table :
                       Block(g.table[k], g.index) = Block(h.table[k], h.index)
  <2>1. ASSUME cg = ch
        PROVE  /\ DOMAIN g.table = DOMAIN h.table
               /\ \A k \in DOMAIN g.table :
                    Block(g.table[k], g.index) = Block(h.table[k], h.index)
    <3>1. DOMAIN cg = DOMAIN g.table /\ DOMAIN ch = DOMAIN h.table OBVIOUS
    <3>2. DOMAIN g.table = DOMAIN h.table BY <2>1, <3>1
    <3>3. ASSUME NEW k \in DOMAIN g.table
          PROVE  Block(g.table[k], g.index) = Block(h.table[k], h.index)
      <4>1. cg[k] = Block(g.table[k], g.index) /\ ch[k] = Block(h.table[k], h.index) BY <3>2
      <4> HIDE DEF cg, ch
      <4> QED BY <2>1, <4>1
    <3> QED BY <3>2, <3>3
  <2>2. ASSUME DOMAIN g.table = DOMAIN h.table,
               \A k \in DOMAIN g.table :
                 Block(g.table[k], g.index) = Block(h.table[k], h.index)
        PROVE  cg = ch
    BY <2>2
  <2> QED BY <2>1, <2>2
<1> HIDE DEF cg, ch, vg, vh
<1>5. ASSUME DOMAIN g.table = DOMAIN h.table, NEW k \in DOMAIN g.table
      PROVE  Block(g.table[k], g.index) = Block(h.table[k], h.index)
             <=> SameRow(g.table[k], h.table[k], g.index, h.index)
  BY <1>5, RowsAlike
<1> QED BY <1>2, <1>3, <1>4, <1>5 DEF SameContents

(* --check answers as it should.                                            *)
LEMMA ManifestChecked ==
  ASSUME NEW r \in ManifestRuns
  PROVE  LET res == CheckOf(r)
         IN /\ (res = 2) = ~CitedFilesThere(r)
            /\ (res = SKIP_EXIT) = (CitedFilesThere(r) /\ ~r.ofscan)
            /\ (res = 0) = (/\ CitedFilesThere(r) /\ r.ofscan
                            /\ r.old # <<>> /\ SameContents(r.old[1], r.new))
            /\ res \in {0, 1, 2, SKIP_EXIT}
<1> DEFINE rec == [k \in DOMAIN r.old |-> Generated(r.old[k])]
           now == Generated(r.new)
           gone == verify_provenance(r.new.table, r.tree)
<1>1. /\ \A i \in DOMAIN r.new.table : IsRow(r.new.table[i])
      /\ \A k \in DOMAIN r.old : \A i \in DOMAIN r.old[k].table : IsRow(r.old[k].table[i])
      /\ r.old = <<>> \/ r.old = <<r.old[1]>>
  BY ManifestAssumption
<1>2. gone # {} <=> ~CitedFilesThere(r)
  <2>1. ASSUME NEW k \in DOMAIN r.new.table
        PROVE  Shown(r.new.table[k], "of_file") = r.new.table[k].value.of_file
    <3>1. "of_file" \in DOMAIN r.new.table[k].value BY <1>1, <2>1 DEF IsRow, REQUIRED
    <3> QED BY <3>1 DEF Shown
  <2> QED BY <2>1 DEF verify_provenance, CitedFilesThere
<1>3. rec = <<now>> <=> r.old # <<>> /\ SameContents(r.old[1], r.new)
  <2>1. CASE r.old = <<>>
    <3>1. DOMAIN r.old = {} BY <2>1
    <3>2. DOMAIN rec = {} BY <3>1
    <3> HIDE DEF rec
    <3>3. DOMAIN <<now>> = 1..1 OBVIOUS
    <3>4. 1 \in 1..1 OBVIOUS
    <3>5. rec # <<now>> BY <3>2, <3>3, <3>4
    <3> QED BY <2>1, <3>5
  <2>2. CASE r.old = <<r.old[1]>>
    <3>1. DOMAIN r.old = {1} /\ r.old # <<>> BY <2>2
    <3>2. rec = [k \in {1} |-> Generated(r.old[k])] BY <3>1
    <3>3. rec = <<Generated(r.old[1])>>
      <4>1. DOMAIN <<Generated(r.old[1])>> = {1} OBVIOUS
      <4> QED BY <3>2, <4>1
    <3>4. Generated(r.old[1]) = now <=> SameContents(r.old[1], r.new)
      BY <1>1, <3>1, ManifestsAlike
    <3> HIDE DEF rec, now
    <3> QED BY <3>1, <3>3, <3>4
  <2> QED BY <1>1, <2>1, <2>2
<1> HIDE DEF rec, gone
<1> DEFINE res == Check(r.new.table, r.new.index, r.new.cases, r.tree, r.ofscan, rec)
<1>4. res = IF gone # {} THEN 2 ELSE IF ~r.ofscan THEN 77 ELSE IF rec # <<now>> THEN 1 ELSE 0
  BY DEF Check, Generated, gone, SKIP_EXIT
<1> HIDE DEF res
<1>5. (res = 2) = (gone # {}) BY <1>4
<1>6. (res = 77) = (gone = {} /\ ~r.ofscan) BY <1>4
<1>7. (res = 0) = (gone = {} /\ r.ofscan /\ rec = <<now>>) BY <1>4
<1>8. res \in {0, 1, 2, 77} BY <1>4
<1> QED BY <1>2, <1>3, <1>5, <1>6, <1>7, <1>8 DEF res, rec, SKIP_EXIT, CheckOf
-----------------------------------------------------------------------------
(* The functions of a program, and what they are credited with on the way:  *)
(* at least what they assign, at most what they reach.                      *)
CallsKnown(fns) == \A f \in DOMAIN fns : fns[f].calls \subseteq DOMAIN fns
Gathered(fns, f) == UNION {fns[g].sets : g \in Reached(fns, {f})}
Crediting(fns, filled) ==
  /\ filled = [f \in DOMAIN fns |-> filled[f]]
  /\ \A f \in DOMAIN fns : fns[f].sets \subseteq filled[f] /\ filled[f] \subseteq Gathered(fns, f)

LEMMA ReachedFrom ==
  ASSUME NEW fns, NEW f \in DOMAIN fns, NEW g \in fns[f].calls, NEW S, f \in S
  PROVE  Reached(fns, {g}) \subseteq Reached(fns, S)
<1> SUFFICES ASSUME NEW h \in Reached(fns, {g}), NEW C \in SUBSET DOMAIN fns, S \subseteq C,
                    Closed(fns, C)
             PROVE  h \in C
  BY DEF Reached
<1>1. {g} \subseteq C BY DEF Closed
<1> QED BY <1>1 DEF Reached

LEMMA CreditStart ==
  ASSUME NEW fns PROVE Crediting(fns, OwnAssignments(fns))
<1>1. ASSUME NEW f \in DOMAIN fns PROVE f \in Reached(fns, {f}) BY DEF Reached
<1>2. ASSUME NEW f \in DOMAIN fns PROVE fns[f].sets \subseteq Gathered(fns, f)
  BY <1>1 DEF Gathered
<1> QED BY <1>2 DEF Crediting, OwnAssignments

LEMMA CreditKeeps ==
  ASSUME NEW fns, NEW filled, Crediting(fns, filled), NEW f \in DOMAIN fns, NEW g \in DOMAIN fns,
         Adds(fns, filled, f, g)
  PROVE  Crediting(fns, Credited(filled, f, g))
<1> DEFINE new == Credited(filled, f, g)
<1>1. DOMAIN filled = DOMAIN fns BY DEF Crediting
<1>2. /\ new = [h \in DOMAIN fns |-> new[h]] 
      /\ \A h \in DOMAIN fns : new[h] = IF h = f THEN filled[f] \cup filled[g] ELSE filled[h]
  BY <1>1 DEF Credited
<1> HIDE DEF new
<1>3. Gathered(fns, g) \subseteq Gathered(fns, f)
  <2>1. Reached(fns, {g}) \subseteq Reached(fns, {f}) BY ReachedFrom DEF Adds
  <2> QED BY <2>1 DEF Gathered
<1>4. ASSUME NEW h \in DOMAIN fns
      PROVE  fns[h].sets \subseteq new[h] /\ new[h] \subseteq Gathered(fns, h)
  BY <1>2, <1>3 DEF Crediting
<1> QED BY <1>2, <1>4 DEF Crediting, new

(* When nothing is added any more, a site is credited with what it sets.    *)
LEMMA CreditedIs ==
  ASSUME NEW fns, CallsKnown(fns), NEW filled, Crediting(fns, filled),
         \A f, g \in DOMAIN fns : ~Adds(fns, filled, f, g),
         NEW s, s.calls \subseteq DOMAIN fns
  PROVE  Assigned(filled, s) = Sets(fns, s)
<1>1. \A f \in DOMAIN fns : \A g \in fns[f].calls : filled[g] \subseteq filled[f]
  BY DEF Adds, CallsKnown
<1>2. ASSUME NEW f \in s.calls PROVE filled[f] \subseteq Sets(fns, s)
  <2>1. f \in DOMAIN fns /\ filled[f] \subseteq Gathered(fns, f) BY DEF Crediting
  <2>2. Reached(fns, {f}) \subseteq Reached(fns, s.calls)
    <3> SUFFICES ASSUME NEW h \in Reached(fns, {f}), NEW C \in SUBSET DOMAIN fns,
                        s.calls \subseteq C, Closed(fns, C)
                 PROVE  h \in C
      BY DEF Reached
    <3> QED BY DEF Reached
  <2> QED BY <2>1, <2>2 DEF Gathered, Sets
<1>3. ASSUME NEW h \in Reached(fns, s.calls) PROVE fns[h].sets \subseteq Assigned(filled, s)
  <2> DEFINE C == {k \in DOMAIN fns : \E f \in s.calls : filled[k] \subseteq filled[f]}
  <2>1. s.calls \subseteq C OBVIOUS
  <2>2. Closed(fns, C)
    <3> SUFFICES ASSUME NEW k \in C, NEW g \in fns[k].calls PROVE g \in C
      BY DEF Closed
    <3>1. g \in DOMAIN fns /\ filled[g] \subseteq filled[k] BY <1>1 DEF CallsKnown
    <3> QED BY <3>1
  <2>3. h \in C
    <3> HIDE DEF C
    <3>1. C \in SUBSET DOMAIN fns BY DEF C
    <3> QED BY <2>1, <2>2, <3>1 DEF Reached
  <2>4. PICK f \in s.calls : filled[h] \subseteq filled[f] BY <2>3
  <2>5. h \in DOMAIN fns /\ fns[h].sets \subseteq filled[h] BY <2>3 DEF Crediting
  <2> QED BY <2>4, <2>5 DEF Assigned
<1> QED BY <1>2, <1>3 DEF Assigned, Sets

(* Two sites or more.                                                       *)
LEMMA TwoOf ==
  ASSUME NEW S, IsFiniteSet(S)
  PROVE  Cardinality(S) >= 2 <=> \E s, t \in S : s # t
<1>1. Cardinality(S) \in Nat BY FS_CardinalityType
<1>2. ASSUME NEW s \in S, NEW t \in S, s # t PROVE Cardinality(S) >= 2
  <2>1. IsFiniteSet({s}) /\ Cardinality({s}) = 1 BY FS_Singleton
  <2>2. Cardinality({s} \cup {t}) = 2
    <3>1. t \notin {s} BY <1>2
    <3>2. Cardinality({s} \cup {t}) = Cardinality({s}) + 1 BY <2>1, <3>1, FS_AddElement
    <3> QED BY <2>1, <3>2
  <2>3. {s} \cup {t} \subseteq S BY <1>2
  <2>4. Cardinality({s} \cup {t}) <= Cardinality(S) BY <2>3, FS_Subset
  <2> QED BY <1>1, <2>2, <2>4
<1>3. ASSUME Cardinality(S) >= 2, \A s, t \in S : s = t PROVE FALSE
  <2>1. S # {} BY <1>1, <1>3, FS_EmptySet
  <2>2. PICK s : s \in S BY <2>1
  <2>3. S = {s} BY <1>3, <2>2
  <2>4. Cardinality(S) = 1 BY <2>3, FS_Singleton
  <2> QED BY <1>3, <2>4
<1> QED BY <1>2, <1>3

(* The sites of a definition are among those that could build it; they are  *)
(* all of them where sites are told apart.                                  *)
Exact(p, filled) == \A s \in p.sites : Assigned(filled, s) = Sets(p.fns, s)

LEMMA SitesAre ==
  ASSUME NEW p, p \in Structs, NEW filled, Exact(p, filled), NamespacesRead(p), NEW d, d \in p.defs
  PROVE  /\ BuiltAs(p, d) \subseteq SitesOf(p, filled, d)
         /\ ToldApart(p) => SitesOf(p, filled, d) = BuiltAs(p, d)
         /\ IsFiniteSet(SitesOf(p, filled, d))
<1>1. ASSUME NEW s, s \in p.sites
      PROVE  s \in SitesOf(p, filled, d) <=> Sets(p.fns, s) # {} /\ CouldBuild(p, s, d)
  BY <1>1 DEF SitesOf, HandBuilt, Exact, CouldBuild
<1>2. SitesOf(p, filled, d) \subseteq p.sites /\ BuiltAs(p, d) \subseteq p.sites
  BY DEF SitesOf, HandBuilt, BuiltAs
<1>3. ASSUME NEW s, s \in BuiltAs(p, d) PROVE Sets(p.fns, s) # {} /\ CouldBuild(p, s, d)
  <2>1. s \in p.sites /\ Sets(p.fns, s) # {} /\ s.type = d.type BY <1>3 DEF BuiltAs
  <2>2. PICK e \in p.defs : s.type = e.type /\ Sets(p.fns, s) \subseteq e.fields
    BY <2>1, StructsAssumption
  <2>3. e = d BY <2>1, <2>2, StructsAssumption
  <2> QED BY <2>1, <2>2, <2>3 DEF CouldBuild, NamespacesRead
<1>4. BuiltAs(p, d) \subseteq SitesOf(p, filled, d) BY <1>1, <1>2, <1>3
<1>5. ASSUME ToldApart(p) PROVE SitesOf(p, filled, d) \subseteq BuiltAs(p, d)
  BY <1>1, <1>2, <1>5 DEF ToldApart, BuiltAs
<1>6. IsFiniteSet(SitesOf(p, filled, d)) BY <1>2, StructsAssumption, FS_Subset
<1> QED BY <1>4, <1>5, <1>6

(* What is left out is reported, and nothing else where sites are told      *)
(* apart.                                                                   *)
LEMMA OmissionsHold ==
  ASSUME NEW p, p \in Structs, NEW filled, Exact(p, filled), NamespacesRead(p)
  PROVE  LeftOut(p) \subseteq Omissions(p, filled)
<1> SUFFICES ASSUME NEW o, o \in LeftOut(p) PROVE o \in Omissions(p, filled)
  OBVIOUS
<1> DEFINE d == o[1]
           s == o[2]
           here == SitesOf(p, filled, d)
<1>1. /\ o \in p.defs \X p.sites \X UNION {e.fields : e \in p.defs}
      /\ s \in BuiltAs(p, d) /\ o[3] \in LeftAt(p, d, s)
  BY DEF LeftOut
<1>2. d \in p.defs /\ s \in p.sites BY <1>1
<1>3. PICK t \in BuiltAs(p, d) : o[3] \in Sets(p.fns, t) BY <1>1 DEF LeftAt
<1>4. o[3] \notin Sets(p.fns, s) BY <1>1 DEF LeftAt
<1>5. t \in p.sites BY DEF BuiltAs
<1>6. BuiltAs(p, d) \subseteq here /\ IsFiniteSet(here) BY <1>2, SitesAre
<1>7. s \in here /\ t \in here /\ s # t BY <1>1, <1>3, <1>4, <1>6
<1>8. Assigned(filled, t) = Sets(p.fns, t) /\ Assigned(filled, s) = Sets(p.fns, s)
  BY <1>2, <1>5 DEF Exact
<1>9. o[3] \in d.fields BY <1>3, <1>7, <1>8 DEF SitesOf
<1> HIDE DEF here
<1>10. Cardinality(here) >= 2 BY <1>6, <1>7, TwoOf
<1>11. d \in Evaluated(p, filled) BY <1>2, <1>10 DEF Evaluated, here
<1> QED BY <1>1, <1>3, <1>4, <1>7, <1>8, <1>9, <1>11 DEF Omissions, here

LEMMA OmissionsAre ==
  ASSUME NEW p, p \in Structs, NEW filled, Exact(p, filled), NamespacesRead(p), ToldApart(p)
  PROVE  /\ Omissions(p, filled) = LeftOut(p)
         /\ \A name : IsCompared(p, name) <=> \E d \in Evaluated(p, filled) : name = Qual(p, d)
<1>1. ASSUME NEW o, o \in Omissions(p, filled) PROVE o \in LeftOut(p)
  <2> DEFINE d == o[1]
             here == SitesOf(p, filled, d)
  <2>1. /\ o \in p.defs \X p.sites \X UNION {e.fields : e \in p.defs}
        /\ o[2] \in here /\ o[3] \notin Assigned(filled, o[2])
        /\ \E t \in here : o[3] \in Assigned(filled, t)
    BY <1>1 DEF Omissions
  <2>2. d \in p.defs /\ o[2] \in p.sites BY <2>1
  <2>3. here = BuiltAs(p, d) BY <2>2, SitesAre
  <2>4. \A t \in here : Assigned(filled, t) = Sets(p.fns, t) BY <2>3 DEF BuiltAs, Exact
  <2>5. o[3] \in LeftAt(p, d, o[2]) BY <2>1, <2>3, <2>4 DEF LeftAt
  <2> QED BY <2>1, <2>3, <2>5 DEF LeftOut
<1>2. ASSUME NEW d, d \in p.defs
      PROVE  d \in Evaluated(p, filled) <=> \E s, t \in BuiltAs(p, d) : s # t
  <2>1. SitesOf(p, filled, d) = BuiltAs(p, d) /\ IsFiniteSet(SitesOf(p, filled, d))
    BY <1>2, SitesAre
  <2>2. Cardinality(BuiltAs(p, d)) >= 2 <=> \E s, t \in BuiltAs(p, d) : s # t
    BY <2>1, TwoOf
  <2> QED BY <1>2, <2>1, <2>2 DEF Evaluated
<1>3. Evaluated(p, filled) \subseteq p.defs BY DEF Evaluated
<1>4. ASSUME NEW name
      PROVE  IsCompared(p, name) <=> \E d \in Evaluated(p, filled) : name = Qual(p, d)
  BY <1>2, <1>3 DEF IsCompared
<1> QED BY <1>1, <1>4, OmissionsHold

(* The exit code, of any ledger.                                            *)
LEMMA ExitIs ==
  ASSUME NEW p, p \in Structs, NEW filled, Exact(p, filled), NamespacesRead(p), ToldApart(p),
         NEW allow
  PROVE  Exit(p, filled, allow) = 0 <=> Clean(p, allow)
<1> DEFINE O == LeftOut(p)
           Lined == \A o \in O : KeyOf(p, o) \in allow \/ StarOf(p, o) \in allow
           Bare == \A o \in O : Qualify(p) => BareOf(p, o) \notin allow
           InUse == \A k \in allow : IsCompared(p, k[1]) => Needed(p, allow, k)
<1>1. /\ Omissions(p, filled) = O
      /\ \A name : IsCompared(p, name) <=> \E d \in Evaluated(p, filled) : name = Qual(p, d)
  BY OmissionsAre
<1>2. Unlisted(p, filled, allow) = {} <=> Lined
  <2>1. Unlisted(p, filled, allow) = {o \in O : KeyOf(p, o) \notin allow /\ StarOf(p, o) \notin allow}
    BY <1>1 DEF Unlisted
  <2> HIDE DEF O
  <2> QED BY <2>1
<1>3. Ambiguous(p, filled, allow) = {} <=> Bare
  <2>1. Ambiguous(p, filled, allow) = {o \in O : Qualify(p) /\ BareOf(p, o) \in allow}
    BY <1>1 DEF Ambiguous
  <2> HIDE DEF O
  <2> QED BY <2>1
<1>4. ASSUME Bare PROVE Stale(p, filled, allow) = {} <=> InUse
  <2>1. Ambiguous(p, filled, allow) = {} BY <1>3, <1>4
  <2>2. ASSUME NEW k, k \in allow PROVE k \in Used(p, filled, allow) <=> Needed(p, allow, k)
    BY <1>1, <2>1, <2>2 DEF Used, Needed
  <2>3. Stale(p, filled, allow) =
          {k \in allow \ Used(p, filled, allow) : IsCompared(p, k[1])}
    BY <1>1 DEF Stale
  <2> QED BY <2>2, <2>3
<1>5. Clean(p, allow) <=> Lined /\ Bare /\ InUse BY DEF Clean
<1>6. Exit(p, filled, allow) = 0 <=> /\ Unlisted(p, filled, allow) = {}
                                     /\ Ambiguous(p, filled, allow) = {}
                                     /\ Stale(p, filled, allow) = {}
  BY DEF Exit
<1> HIDE DEF Lined, Bare, InUse
<1> QED BY <1>2, <1>3, <1>4, <1>5, <1>6

(* The lines of the ledger do not get in each other's way: one for a field  *)
(* is none for a whole variable, and a qualified one is no bare one.        *)
LEMMA LinesApart ==
  ASSUME NEW p, p \in Structs, Nameable(p), NEW filled,
         NEW o \in Omissions(p, filled), NEW q \in Omissions(p, filled)
  PROVE  /\ KeyOf(p, o) # StarOf(p, q)
         /\ Qualify(p) => KeyOf(p, o) # BareOf(p, q) /\ StarOf(p, o) # BareOf(p, q)
         /\ KeyOf(p, o) = KeyOf(p, q) => StarOf(p, o) = StarOf(p, q)
<1>1. o[1] \in p.defs /\ o[3] \in o[1].fields BY DEF Omissions
<1>2. o[3] # "*" BY <1>1, StructsAssumption
<1>3. ASSUME Qualify(p), NEW d \in p.defs PROVE Qual(p, d) # <<p.name>>
  <2>1. d.ns # None BY <1>3 DEF Nameable
  <2>2. Qual(p, d) = <<d.ns, p.name>> BY <1>3, <2>1 DEF Qual
  <2>3. Len(<<d.ns, p.name>>) = 2 /\ Len(<<p.name>>) = 1 OBVIOUS
  <2> QED BY <2>2, <2>3
<1>4. KeyOf(p, o) # StarOf(p, q) BY <1>2 DEF KeyOf, StarOf
<1>5. ASSUME Qualify(p) PROVE KeyOf(p, o) # BareOf(p, q) /\ StarOf(p, o) # BareOf(p, q)
  BY <1>1, <1>3, <1>5 DEF KeyOf, StarOf, BareOf
<1>6. KeyOf(p, o) = KeyOf(p, q) => StarOf(p, o) = StarOf(p, q) BY DEF KeyOf, StarOf
<1> QED BY <1>4, <1>5, <1>6

LEMMA LedgerFollowed ==
  ASSUME NEW p, p \in Structs, Nameable(p), NEW filled
  PROVE  Exit(p, filled, Followed(p, filled)) = 0
<1> DEFINE O == Omissions(p, filled)
           A == p.allow
           stale == Stale(p, filled, A)
           bare == {BareOf(p, o) : o \in Ambiguous(p, filled, A)}
           new == {KeyOf(p, o) : o \in Unlisted(p, filled, A)}
           after == Followed(p, filled)
<1>1. after = (A \ (stale \cup bare)) \cup new BY DEF Followed
<1>2. \A o \in O : KeyOf(p, o) \in A => KeyOf(p, o) \notin stale
  BY DEF Stale, Used
<1>3. \A o \in O : StarOf(p, o) \in A /\ KeyOf(p, o) \notin A => StarOf(p, o) \notin stale
  BY DEF Stale, Used
<1>4. \A o \in O : KeyOf(p, o) \notin bare /\ StarOf(p, o) \notin bare
  BY LinesApart DEF Ambiguous
<1>5. \A o \in O : StarOf(p, o) \notin new BY LinesApart DEF Unlisted
<1>6. \A o \in O : KeyOf(p, o) \in new => o \in Unlisted(p, filled, A)
  BY LinesApart DEF Unlisted
<1>7. \A o \in O : Qualify(p) => BareOf(p, o) \notin new BY LinesApart DEF Unlisted
<1>8. Unlisted(p, filled, after) = {}
  <2> SUFFICES ASSUME NEW o \in O PROVE KeyOf(p, o) \in after \/ StarOf(p, o) \in after
    BY DEF Unlisted
  <2>1. CASE KeyOf(p, o) \in A BY <1>1, <1>2, <1>4, <2>1
  <2>2. CASE KeyOf(p, o) \notin A /\ StarOf(p, o) \in A BY <1>1, <1>3, <1>4, <2>2
  <2>3. CASE KeyOf(p, o) \notin A /\ StarOf(p, o) \notin A
    BY <1>1, <2>3 DEF Unlisted
  <2> QED BY <2>1, <2>2, <2>3
<1>9. Ambiguous(p, filled, after) = {}
  <2> SUFFICES ASSUME NEW o \in O, Qualify(p), BareOf(p, o) \in after PROVE FALSE
    BY DEF Ambiguous
  <2>1. BareOf(p, o) \in A /\ BareOf(p, o) \notin bare BY <1>1, <1>7
  <2> QED BY <2>1 DEF Ambiguous
<1>10. Stale(p, filled, after) = {}
  <2> SUFFICES ASSUME NEW k \in after, NEW d \in Evaluated(p, filled), k[1] = Qual(p, d)
               PROVE  k \in Used(p, filled, after)
    BY DEF Stale
  <2>1. CASE k \in new
    <3>1. PICK o \in O : k = KeyOf(p, o) BY <2>1 DEF Unlisted
    <3> QED BY <3>1 DEF Used
  <2>2. CASE k \in A /\ k \notin stale /\ k \notin bare
    <3>1. k \in Used(p, filled, A) BY <2>2 DEF Stale
    <3>2. PICK o \in O : k = KeyOf(p, o) \/ (k = StarOf(p, o) /\ KeyOf(p, o) \notin A)
      BY <2>2, <3>1 DEF Used
    <3>3. CASE k = KeyOf(p, o) BY <3>3 DEF Used
    <3>4. CASE k = StarOf(p, o) /\ KeyOf(p, o) \notin A
      <4>1. o \notin Unlisted(p, filled, A) BY <2>2, <3>4 DEF Unlisted
      <4>2. KeyOf(p, o) \notin after BY <1>1, <1>6, <3>4, <4>1
      <4> QED BY <3>4, <4>2 DEF Used
    <3> QED BY <3>2, <3>3, <3>4
  <2> QED BY <1>1, <2>1, <2>2
<1> QED BY <1>8, <1>9, <1>10 DEF Exit

(* A program that was read to its end.                                      *)
LEMMA ReadToTheEnd ==
  ASSUME NEW p, p \in Structs, NEW filled, Crediting(p.fns, filled),
         \A f, g \in DOMAIN p.fns : ~Adds(p.fns, filled, f, g)
  PROVE  Exact(p, filled)
<1>1. /\ CallsKnown(p.fns) /\ \A s \in p.sites : s.calls \subseteq DOMAIN p.fns
  BY StructsAssumption DEF CallsKnown
<1> QED BY <1>1, CreditedIs DEF Exact
-----------------------------------------------------------------------------
Tokens == HeadWords \cup InnerWords \cup Marks \cup {"namespace", "struct", "assign"}
Kinds == {"ns", "blk"}

(* What is pending while a declaration is written: its words up to the      *)
(* name, a mark x and more.                                                 *)
Named(d) == d \in Seq(HeadWords) /\ Len(d) > 1 /\ d[Len(d)] \notin Quiet
Begins(p, d, x) ==
  /\ Len(p) > Len(d) /\ p[Len(d) + 1] = x /\ \A j \in 1..Len(d) : p[j] = d[j]
  /\ \A j \in (Len(d) + 1)..Len(p) : p[j] \notin {"namespace", "template"}

LEMMA HasAppend ==
  ASSUME NEW T, NEW s \in Seq(T), NEW x \in T, NEW z
  PROVE  /\ Append(s, x) \in Seq(T) /\ Len(Append(s, x)) = Len(s) + 1
         /\ Has(Append(s, x), z) <=> Has(s, z) \/ x = z
         /\ \A j \in 1..Len(s) : Append(s, x)[j] = s[j]
         /\ Append(s, x)[Len(s) + 1] = x
<1> DEFINE a == Append(s, x)
<1>1. /\ a \in Seq(T) /\ Len(a) = Len(s) + 1 /\ Len(s) \in Nat
      /\ \A j \in 1..Len(s) : a[j] = s[j]
      /\ a[Len(s) + 1] = x
  BY AppendProperties, LenProperties
<1> HIDE DEF a
<1>2. DOMAIN s = 1..Len(s) /\ DOMAIN a = 1..(Len(s) + 1) BY <1>1, LenProperties
<1>3. \A j \in DOMAIN a : j \in DOMAIN s \/ j = Len(s) + 1 BY <1>1, <1>2
<1>4. DOMAIN s \subseteq DOMAIN a /\ Len(s) + 1 \in DOMAIN a BY <1>1, <1>2
<1>5. Has(a, z) <=> Has(s, z) \/ x = z BY <1>1, <1>2, <1>3, <1>4 DEF Has
<1> QED BY <1>1, <1>5 DEF a

LEMMA HasPopped ==
  ASSUME NEW T, NEW s \in Seq(T), NEW z
  PROVE  Popped(s) \in Seq(T) /\ (Has(Popped(s), z) => Has(s, z))
<1>1. CASE s = <<>> BY <1>1 DEF Popped
<1>2. CASE s # <<>>
  <2> DEFINE a == SubSeq(s, 1, Len(s) - 1)
  <2>1. Len(s) \in Nat /\ Len(s) > 0 /\ DOMAIN s = 1..Len(s) BY <1>2, LenProperties, EmptySeq
  <2>2. a \in Seq(T) /\ Len(a) = Len(s) - 1 /\ \A j \in 1..(Len(s) - 1) : a[j] = s[j]
    BY <2>1, SubSeqProperties
  <2>3. Popped(s) = a BY <1>2 DEF Popped
  <2> HIDE DEF a
  <2>4. DOMAIN a = 1..(Len(s) - 1) BY <2>2, LenProperties
  <2> QED BY <2>1, <2>2, <2>3, <2>4 DEF Has
<1> QED BY <1>1, <1>2

(* What one token does to the scanner.                                      *)
ScanState(s, n, p, e) == [stack |-> s, par |-> n, pending |-> p, found |-> e]

LEMMA Reads ==
  ASSUME NEW s, NEW n, NEW p, NEW e, NEW tok, n \in Nat, p \in Seq(Tokens), tok \in Tokens
  PROVE  LET after == Scan(ScanState(s, n, p, e), tok)
             opens == ~Has(s, "blk") /\ IsExternalDefinition(p)
         IN /\ Append(p, tok) \in Seq(Tokens)
            /\ tok \notin Marks => after = ScanState(s, n, Append(p, tok), e)
            /\ n > 0 /\ tok \in {"lbrace", "rbrace", "semi"} =>
                 after = ScanState(s, n, Append(p, tok), e)
            /\ tok = "lpar" => after = ScanState(s, n + 1, Append(p, tok), e)
            /\ tok = "rpar" /\ n > 0 => after = ScanState(s, n - 1, Append(p, tok), e)
            /\ tok = "semi" /\ n = 0 => after = ScanState(s, 0, <<>>, e)
            /\ tok = "rbrace" /\ n = 0 => after = ScanState(Popped(s), 0, <<>>, e)
            /\ tok = "directive" => after = ScanState(s, n, <<>>, e)
            /\ tok = "lbrace" /\ n = 0 /\ Has(p, "namespace") =>
                 after = ScanState(Append(s, "ns"), 0, <<>>, e)
            /\ tok = "lbrace" /\ n = 0 /\ ~Has(p, "namespace") /\ opens =>
                 after = ScanState(Append(s, "blk"), 0, <<>>, Append(e, DefinedName(p)))
            /\ tok = "lbrace" /\ n = 0 /\ ~Has(p, "namespace") /\ ~opens =>
                 after = ScanState(Append(s, "blk"), 0, <<>>, e)
<1> DEFINE st == ScanState(s, n, p, e)
           to == Scan(st, tok)
           opens == ~Has(s, "blk") /\ IsExternalDefinition(p)
<1>1. st.stack = s /\ st.par = n /\ st.pending = p /\ st.found = e BY DEF ScanState
<1> HIDE DEF st
<1>2. Parentheses(st, tok) =
        IF tok = "lpar" THEN n + 1 ELSE IF tok = "rpar" THEN (IF n > 0 THEN n - 1 ELSE 0) ELSE n
  BY <1>1 DEF Parentheses
<1>3. to = ScanState(to.stack, to.par, to.pending, to.found) BY DEF Scan, ScanState
<1>4. to.par = Parentheses(st, tok) BY DEF Scan
<1>5. to.stack = IF Acts(st, tok) /\ tok = "lbrace" THEN Append(s, Kind(st))
                 ELSE IF Acts(st, tok) /\ tok = "rbrace" THEN Popped(s) ELSE s
  BY <1>1 DEF Scan
<1>6. to.pending = IF Acts(st, tok) \/ tok = "directive" THEN <<>> ELSE Append(p, tok)
  BY <1>1 DEF Scan
<1>7. to.found = IF Opens(st, tok) THEN Append(e, DefinedName(p)) ELSE e BY <1>1 DEF Scan
<1> HIDE DEF to
<1>8. Acts(st, tok) <=> tok \in {"lbrace", "rbrace", "semi"} /\ ~(n > 0) BY <1>1 DEF Acts
<1>9. Kind(st) = IF Has(p, "namespace") THEN "ns" ELSE "blk" BY <1>1 DEF Kind
<1>10. Opens(st, tok) <=> Acts(st, tok) /\ tok = "lbrace" /\ ~Has(p, "namespace") /\ opens
  BY <1>1, <1>9 DEF Opens
<1> HIDE DEF opens
<1>11. ASSUME ~Acts(st, tok), tok # "directive"
       PROVE  to = ScanState(s, to.par, Append(p, tok), e)
  <2>1. to.stack = s /\ to.pending = Append(p, tok) /\ to.found = e
    BY <1>5, <1>6, <1>7, <1>10, <1>11
  <2> QED BY <1>3, <2>1
<1>12. ASSUME tok \notin Marks \/ (n > 0 /\ tok \in {"lbrace", "rbrace", "semi"})
       PROVE  to = ScanState(s, n, Append(p, tok), e)
  <2>1. ~Acts(st, tok) /\ tok # "directive" /\ to.par = n BY <1>2, <1>4, <1>8, <1>12 DEF Marks
  <2> QED BY <1>11, <2>1
<1>13. ASSUME tok = "lpar" PROVE to = ScanState(s, n + 1, Append(p, tok), e)
  <2>1. ~Acts(st, tok) /\ tok # "directive" /\ to.par = n + 1 BY <1>2, <1>4, <1>8, <1>13
  <2> QED BY <1>11, <2>1
<1>14. ASSUME tok = "rpar", n > 0 PROVE to = ScanState(s, n - 1, Append(p, tok), e)
  <2>1. ~Acts(st, tok) /\ tok # "directive" /\ to.par = n - 1 BY <1>2, <1>4, <1>8, <1>14
  <2> QED BY <1>11, <2>1
<1>15. ASSUME n = 0, tok \in {"lbrace", "rbrace", "semi"}
       PROVE  Acts(st, tok) /\ to.par = 0 /\ to.pending = <<>>
  <2>1. n = 0 BY <1>15
  <2>2. ~(n > 0) BY <2>1, SMT
  <2>3. Acts(st, tok) BY <1>8, <1>15, <2>2, Zenon
  <2>4. to.par = 0 BY <1>2, <1>4, <1>15
  <2> QED BY <1>6, <2>3, <2>4
<1>16. ASSUME tok = "semi", n = 0 PROVE to = ScanState(s, 0, <<>>, e)
  <2>1. to.stack = s /\ to.found = e BY <1>5, <1>7, <1>10, <1>16
  <2> QED BY <1>3, <1>15, <1>16, <2>1
<1>17. ASSUME tok = "rbrace", n = 0 PROVE to = ScanState(Popped(s), 0, <<>>, e)
  <2>1. to.stack = Popped(s) /\ to.found = e BY <1>5, <1>7, <1>10, <1>15, <1>17
  <2> QED BY <1>3, <1>15, <1>17, <2>1
<1>18. ASSUME tok = "lbrace", n = 0, Has(p, "namespace")
       PROVE  to = ScanState(Append(s, "ns"), 0, <<>>, e)
  <2>1. to.stack = Append(s, "ns") /\ to.found = e BY <1>5, <1>7, <1>9, <1>10, <1>15, <1>18
  <2> QED BY <1>3, <1>15, <1>18, <2>1
<1>19. ASSUME tok = "lbrace", n = 0, ~Has(p, "namespace")
       PROVE  /\ opens => to = ScanState(Append(s, "blk"), 0, <<>>, Append(e, DefinedName(p)))
              /\ ~opens => to = ScanState(Append(s, "blk"), 0, <<>>, e)
  <2>1. to.stack = Append(s, "blk") BY <1>5, <1>9, <1>15, <1>19
  <2>2. to.found = IF opens THEN Append(e, DefinedName(p)) ELSE e BY <1>7, <1>10, <1>15, <1>19
  <2> QED BY <1>3, <1>15, <1>19, <2>1, <2>2
<1>20. Append(p, tok) \in Seq(Tokens) BY HasAppend
<1>21. ASSUME tok = "directive" PROVE to = ScanState(s, n, <<>>, e)
  <2>1. /\ ~Acts(st, tok) /\ to.par = n /\ to.stack = s /\ to.pending = <<>> /\ to.found = e
    BY <1>2, <1>4, <1>5, <1>6, <1>7, <1>8, <1>10, <1>21
  <2> QED BY <1>3, <2>1
<1> QED BY <1>12, <1>13, <1>14, <1>16, <1>17, <1>18, <1>19, <1>20, <1>21 DEF st, to, opens

LEMMA ReadsWord ==
  ASSUME NEW s, NEW n, NEW p, NEW e, NEW tok, n \in Nat, p \in Seq(Tokens),
         tok \in Tokens, tok \notin Marks \/ (n > 0 /\ tok \in {"lbrace", "rbrace", "semi"})
  PROVE  /\ Append(p, tok) \in Seq(Tokens)
         /\ Scan(ScanState(s, n, p, e), tok) = ScanState(s, n, Append(p, tok), e)
BY Reads

LEMMA ReadsOpen ==
  ASSUME NEW s, NEW n, NEW p, NEW e, n \in Nat, p \in Seq(Tokens)
  PROVE  /\ Append(p, "lpar") \in Seq(Tokens)
         /\ Scan(ScanState(s, n, p, e), "lpar") = ScanState(s, n + 1, Append(p, "lpar"), e)
<1>1. "lpar" \in Tokens BY DEF Tokens, Marks
<1> QED BY <1>1, Reads

LEMMA ReadsClose ==
  ASSUME NEW s, NEW n, NEW p, NEW e, n \in Nat, p \in Seq(Tokens), n > 0
  PROVE  /\ Append(p, "rpar") \in Seq(Tokens)
         /\ Scan(ScanState(s, n, p, e), "rpar") = ScanState(s, n - 1, Append(p, "rpar"), e)
<1>1. "rpar" \in Tokens BY DEF Tokens, Marks
<1> QED BY <1>1, Reads

LEMMA ReadsEnd ==
  ASSUME NEW s, NEW n, NEW p, NEW e, n \in Nat, p \in Seq(Tokens), n = 0
  PROVE  /\ Scan(ScanState(s, n, p, e), "semi") = ScanState(s, n, <<>>, e)
         /\ Scan(ScanState(s, n, p, e), "rbrace") = ScanState(Popped(s), n, <<>>, e)
<1>1. "semi" \in Tokens /\ "rbrace" \in Tokens BY DEF Tokens, Marks
<1>2. Scan(ScanState(s, n, p, e), "semi") = ScanState(s, n, <<>>, e) BY <1>1, Reads
<1>3. Scan(ScanState(s, n, p, e), "rbrace") = ScanState(Popped(s), n, <<>>, e) BY <1>1, Reads
<1> QED BY <1>2, <1>3

LEMMA ReadsDirective ==
  ASSUME NEW s, NEW n, NEW p, NEW e, n \in Nat, p \in Seq(Tokens)
  PROVE  Scan(ScanState(s, n, p, e), "directive") = ScanState(s, n, <<>>, e)
<1>1. "directive" \in Tokens BY DEF Tokens, Marks
<1> QED BY <1>1, Reads

LEMMA ReadsNamespace ==
  ASSUME NEW s, NEW n, NEW p, NEW e, n \in Nat, p \in Seq(Tokens),
         n = 0, Has(p, "namespace")
  PROVE  Scan(ScanState(s, n, p, e), "lbrace") = ScanState(Append(s, "ns"), n, <<>>, e)
<1>1. "lbrace" \in Tokens BY DEF Tokens, Marks
<1> QED BY <1>1, Reads

LEMMA ReadsDefinition ==
  ASSUME NEW s, NEW n, NEW p, NEW e, n \in Nat, p \in Seq(Tokens),
         n = 0, ~Has(p, "namespace"), ~Has(s, "blk"), IsExternalDefinition(p)
  PROVE  Scan(ScanState(s, n, p, e), "lbrace") =
           ScanState(Append(s, "blk"), n, <<>>, Append(e, DefinedName(p)))
<1>1. "lbrace" \in Tokens BY DEF Tokens, Marks
<1> QED BY <1>1, Reads

LEMMA ReadsBlock ==
  ASSUME NEW s, NEW n, NEW p, NEW e, n \in Nat, p \in Seq(Tokens),
         n = 0, ~Has(p, "namespace"), Has(s, "blk") \/ ~IsExternalDefinition(p)
  PROVE  Scan(ScanState(s, n, p, e), "lbrace") = ScanState(Append(s, "blk"), n, <<>>, e)
<1>1. "lbrace" \in Tokens BY DEF Tokens, Marks
<1> QED BY <1>1, Reads

(* A declaration goes on: what it began with stays.                         *)
LEMMA BeginsGrows ==
  ASSUME NEW p \in Seq(Tokens), NEW d \in Seq(HeadWords), NEW x, Begins(p, d, x),
         NEW tok \in Tokens, tok \notin {"namespace", "template"}
  PROVE  Append(p, tok) \in Seq(Tokens) /\ Begins(Append(p, tok), d, x)
<1> DEFINE a == Append(p, tok)
<1>1. /\ a \in Seq(Tokens) /\ Len(a) = Len(p) + 1 /\ Len(p) \in Nat /\ Len(d) \in Nat
      /\ \A j \in 1..Len(p) : a[j] = p[j]
      /\ a[Len(p) + 1] = tok
  BY HasAppend, LenProperties
<1> HIDE DEF a
<1>2. \A j \in (Len(d) + 1)..Len(a) : j = Len(p) + 1 \/ j \in (Len(d) + 1)..Len(p) BY <1>1
<1>3. \A j \in (Len(d) + 1)..Len(p) : a[j] = p[j] BY <1>1
<1>4. Len(a) > Len(d) /\ a[Len(d) + 1] = x BY <1>1 DEF Begins
<1>5. \A j \in 1..Len(d) : a[j] = d[j] BY <1>1 DEF Begins
<1>6. \A j \in (Len(d) + 1)..Len(a) : a[j] \notin {"namespace", "template"}
  BY <1>1, <1>2, <1>3 DEF Begins
<1>7. Begins(a, d, x) BY <1>4, <1>5, <1>6 DEF Begins
<1> QED BY <1>1, <1>7 DEF a

LEMMA BeginsStart ==
  ASSUME NEW d \in Seq(HeadWords), NEW x \in Tokens, x \notin {"namespace", "template"}
  PROVE  Append(d, x) \in Seq(Tokens) /\ Begins(Append(d, x), d, x)
<1>1. d \in Seq(Tokens) BY DEF Tokens
<1>2. /\ Append(d, x) \in Seq(Tokens) /\ Len(Append(d, x)) = Len(d) + 1 /\ Len(d) \in Nat
      /\ \A j \in 1..Len(d) : Append(d, x)[j] = d[j]
      /\ Append(d, x)[Len(d) + 1] = x
  BY <1>1, HasAppend, LenProperties
<1> QED BY <1>2 DEF Begins

(* What such a text is to the audit.                                        *)
LEMMA BeginsIs ==
  ASSUME NEW p \in Seq(Tokens), NEW d, Named(d), NEW x, Begins(p, d, x)
  PROVE  /\ ~Has(p, "namespace")
         /\ x = "lpar" => DefinedName(p) = d[Len(d)] /\ (IsExternalDefinition(p) <=> Unmarked(d))
         /\ x = "assign" => ~IsExternalDefinition(p)
<1> DEFINE n == Len(d)
<1>1. /\ n \in Nat /\ n > 1 /\ Len(p) \in Nat /\ Len(p) > n /\ DOMAIN p = 1..Len(p)
      /\ \A j \in 1..n : d[j] \in HeadWords /\ p[j] = d[j]
      /\ p[n + 1] = x /\ d[n] \notin Quiet
  BY LenProperties, ElementOfSeq DEF Named, Begins
<1>2. \A j \in 1..n : p[j] # "lpar" /\ p[j] # "assign" /\ p[j] # "namespace"
                     /\ (p[j] \in Keywords => p[j] \in Quiet)
  <2>1. "namespace" \in Keywords /\ "namespace" \notin Quiet BY DEF Keywords, Quiet
  <2> QED BY <1>1, <2>1, WordsAssumption DEF Marks
<1>3. \A j \in (n + 1)..Len(p) : p[j] # "namespace" /\ p[j] # "template" BY DEF Begins
<1>4. \A j \in 1..Len(p) : j \in 1..n \/ j \in (n + 1)..Len(p) BY <1>1
<1>5. ~Has(p, "namespace") BY <1>1, <1>2, <1>3, <1>4 DEF Has
<1>6. ASSUME x = "lpar" PROVE DefinedName(p) = d[n] /\ (IsExternalDefinition(p) <=> Unmarked(d))
  <2>1. n + 1 \in DOMAIN p /\ p[n + 1] = "lpar" BY <1>1, <1>6
  <2>2. Has(p, "lpar") BY <2>1 DEF Has
  <2> DEFINE Q(i) == p[i] = "lpar" /\ \A j \in 1..(i - 1) : p[j] # "lpar"
             i0 == CHOOSE i \in DOMAIN p : Q(i)
  <2>3. Q(n + 1) BY <1>1, <1>2, <2>1
  <2>4. i0 \in DOMAIN p /\ Q(i0)
    <3> HIDE DEF Q
    <3> QED BY <2>1, <2>3
  <2>5. OpenAt(p) = i0 BY <2>2 DEF OpenAt
  <2> HIDE DEF i0
  <2>6. i0 = n + 1
    <3>1. i0 \in Nat /\ i0 >= 1 BY <1>1, <2>4
    <3>2. ~(i0 <= n)
      <4> SUFFICES ASSUME i0 <= n PROVE FALSE
        OBVIOUS
      <4>1. i0 \in 1..n BY <1>1, <3>1
      <4> QED BY <1>2, <2>4, <4>1
    <3>3. ~(i0 > n + 1)
      <4> SUFFICES ASSUME i0 > n + 1 PROVE FALSE
        OBVIOUS
      <4>1. n + 1 \in 1..(i0 - 1) BY <1>1, <3>1
      <4> QED BY <2>1, <2>4, <4>1
    <3> QED BY <1>1, <3>1, <3>2, <3>3
  <2>7. DefinedName(p) = d[n]
    <3>1. OpenAt(p) - 1 = n /\ n \in 1..n BY <1>1, <2>5, <2>6
    <3> QED BY <1>1, <3>1 DEF DefinedName
  <2>8. (n + 1) - 2 = n - 1 /\ (n + 1) - 1 = n /\ n + 1 >= 3 BY <1>1
  <2>9. IsExternalDefinition(p) <=>
          /\ p[1] \notin Keywords /\ \A j \in 1..(n - 1) : p[j] \notin Quiet
          /\ ~Has(p, "template") /\ \A j \in 1..n : p[j] # "assign"
    BY <2>5, <2>6, <2>8 DEF IsExternalDefinition
  <2>10. 1 \in 1..(n - 1) /\ \A j \in 1..(n - 1) : j \in 1..n BY <1>1
  <2>11. ASSUME Unmarked(d) PROVE p[1] \notin Keywords /\ ~Has(p, "template")
    <3>1. \A j \in 1..(n - 1) : p[j] \notin Quiet BY <1>1, <2>10, <2>11 DEF Unmarked
    <3>2. p[1] \notin Keywords BY <1>2, <2>10, <3>1
    <3>3. "template" \in Quiet BY DEF Quiet
    <3>4. \A j \in 1..n : j = n \/ j \in 1..(n - 1) BY <1>1
    <3>5. \A j \in 1..n : p[j] # "template" BY <1>1, <3>1, <3>3, <3>4
    <3>6. ~Has(p, "template") BY <1>1, <1>3, <1>4, <3>5 DEF Has
    <3> QED BY <3>2, <3>6
  <2>12. Unmarked(d) <=> \A j \in 1..(n - 1) : p[j] \notin Quiet
    BY <1>1, <2>10 DEF Unmarked
  <2> QED BY <1>2, <2>7, <2>9, <2>11, <2>12
<1>7. ASSUME x = "assign" PROVE ~IsExternalDefinition(p)
  <2> SUFFICES ASSUME IsExternalDefinition(p) PROVE FALSE
    OBVIOUS
  <2> DEFINE i0 == OpenAt(p)
  <2>1. i0 >= 3 /\ \A j \in 1..(i0 - 1) : p[j] # "assign" BY DEF IsExternalDefinition
  <2>2. Has(p, "lpar") BY <2>1 DEF OpenAt
  <2> DEFINE Q(i) == p[i] = "lpar" /\ \A j \in 1..(i - 1) : p[j] # "lpar"
  <2>3. \E i \in DOMAIN p : Q(i)
    <3> DEFINE S == {i \in DOMAIN p : p[i] = "lpar"}
    <3>1. S \in SUBSET Nat /\ S # {} BY <1>1, <2>2 DEF Has
    <3>2. PICK i \in S : \A j \in S : i <= j
      <4> HIDE DEF S
      <4> QED BY <3>1, LeastNatural
    <3>3. \A j \in 1..(i - 1) : j \in DOMAIN p /\ ~(i <= j) BY <1>1
    <3>4. Q(i) BY <3>2, <3>3
    <3> QED BY <3>4
  <2>4. i0 \in DOMAIN p /\ Q(i0)
    <3>1. i0 = CHOOSE i \in DOMAIN p : Q(i) BY <2>2 DEF OpenAt
    <3> HIDE DEF Q, i0
    <3> QED BY <2>3, <3>1
  <2> HIDE DEF i0
  <2>5. i0 \in Nat /\ i0 # n + 1 BY <1>1, <1>7, <2>4
  <2>6. ~(i0 <= n)
    <3> SUFFICES ASSUME i0 <= n PROVE FALSE
      OBVIOUS
    <3>1. i0 \in 1..n BY <1>1, <2>1, <2>5
    <3> QED BY <1>2, <2>4, <3>1
  <2>7. n + 1 \in 1..(i0 - 1) BY <1>1, <2>5, <2>6
  <2> QED BY <1>1, <1>7, <2>1, <2>7
<1> QED BY <1>5, <1>6, <1>7

(* The header and the scanner side by side: the same open bodies, the same  *)
(* open parentheses and the same functions, and in each part of a header    *)
(* what the scanner holds back.                                             *)
HeaderState(at, s, n, d, e, x, l) ==
  [tool |-> "header", at |-> at, scopes |-> s, par |-> n, decl |-> d,
   unnamed |-> x[1], unmarked |-> e, external |-> x[2], left |-> l]

Part(at, s, n, d, p) ==
  \/ at = "between" /\ ~Has(s, "blk") /\ n = 0 /\ p = <<>>
  \/ at = "namespace" /\ ~Has(s, "blk") /\ n = 0 /\ Has(p, "namespace")
  \/ /\ at = "struct" /\ ~Has(s, "blk") /\ n = 0
     /\ Len(p) > 0 /\ p[1] = "struct" /\ ~Has(p, "namespace")
  \/ at = "head" /\ ~Has(s, "blk") /\ n = 0 /\ d \in Seq(HeadWords) /\ p = d
  \/ at = "params" /\ ~Has(s, "blk") /\ n > 0 /\ Named(d) /\ Begins(p, d, "lpar")
  \/ at = "signature" /\ ~Has(s, "blk") /\ n = 0 /\ Named(d) /\ Begins(p, d, "lpar")
  \/ at = "initialiser" /\ ~Has(s, "blk") /\ Named(d) /\ Begins(p, d, "assign")
  \/ at = "body" /\ Has(s, "blk") /\ ~Has(p, "namespace")

Header(i, o, at, s, n, d, e, x, l, p) ==
  /\ i = HeaderState(at, s, n, d, e, x, l) /\ o = ScanState(s, n, p, e)
  /\ s \in Seq(Kinds) /\ n \in Nat /\ p \in Seq(Tokens) /\ Part(at, s, n, d, p)
HeaderInv(i, o) == \E at, s, n, d, e, x, l, p : Header(i, o, at, s, n, d, e, x, l, p)

LEMMA Words ==
  /\ \A w \in HeadWords : w \in Tokens /\ w \notin Marks /\ w # "namespace"
  /\ \A w \in InnerWords : w \in Tokens /\ w \notin Marks /\ w \notin {"namespace", "template"}
  /\ \A w \in Marks \cup {"assign"} : w \in Tokens /\ w \notin {"namespace", "template"}
  /\ "namespace" \in Tokens /\ "struct" \in Tokens
  /\ {"namespace", "struct", "assign"} \cap Marks = {}
<1>1. \A w \in HeadWords : w \in Tokens /\ w \notin Marks BY WordsAssumption DEF Tokens
<1>2. \A w \in HeadWords : w # "namespace"
  <2>1. "namespace" \in Keywords /\ "namespace" \notin Quiet BY DEF Keywords, Quiet
  <2> QED BY <2>1, WordsAssumption
<1>3. \A w \in InnerWords : w \in Tokens /\ w \notin Marks /\ w \notin {"namespace", "template"}
  BY WordsAssumption DEF Tokens
<1>4. \A w \in Marks \cup {"assign"} : w \in Tokens /\ w \notin {"namespace", "template"}
  BY DEF Tokens, Marks
<1>5. /\ "namespace" \in Tokens /\ "struct" \in Tokens
      /\ {"namespace", "struct", "assign"} \cap Marks = {}
  BY DEF Tokens, Marks
<1> QED BY <1>1, <1>2, <1>3, <1>4, <1>5

LEMMA Scans == ASSUME NEW tok, NEW next, Write(tok, next) PROVE out' = Scan(out, tok)
BY DEF Write

LEMMA Keeps ==
  ASSUME NEW at, NEW s, NEW n, NEW d, NEW e, NEW x, NEW l, NEW p,
         in' = HeaderState(at, s, n, d, e, x, l), out' = ScanState(s, n, p, e),
         s \in Seq(Kinds), n \in Nat, p \in Seq(Tokens), Part(at, s, n, d, p)
  PROVE  HeaderInv(in, out)'
BY DEF HeaderInv, Header

LEMMA ScopeIs ==
  ASSUME NEW at, NEW s, NEW n, NEW d, NEW e, NEW x, NEW l, in = HeaderState(at, s, n, d, e, x, l),
         NEW kind, NEW part, NEW o, o = Scope(kind, part)
  PROVE  o = HeaderState(part, Append(s, kind), n, <<>>, e, x, l)
BY DEF Scope, HeaderState

LEMMA BetweenStep ==
  ASSUME NEW at, NEW s, NEW n, NEW d, NEW e, NEW x, NEW l, NEW p,
         Header(in, out, at, s, n, d, e, x, l, p), WriteBetween
  PROVE  HeaderInv(in, out)'
<1>1. /\ in = HeaderState(at, s, n, d, e, x, l) /\ out = ScanState(s, n, p, e)
      /\ s \in Seq(Kinds) /\ n \in Nat /\ p \in Seq(Tokens)
  BY DEF Header
<1>2. at = "between" /\ ~Has(s, "blk") /\ n = 0 /\ p = <<>>
  <2>1. at = "between" BY <1>1 DEF WriteBetween, Writing, HeaderState
  <2> QED BY <2>1 DEF Header, Part
<1>3. ASSUME NEW tok, NEW next, Write(tok, next) PROVE out' = Scan(ScanState(s, n, p, e), tok)
  BY <1>1, <1>3, Scans
<1>4. CASE Write("namespace", [in EXCEPT !.at = "namespace"])
  <2>1. in' = HeaderState("namespace", s, n, d, e, x, l - 1) BY <1>1, <1>4 DEF HeaderState, Write
  <2>2. out' = ScanState(s, n, Append(p, "namespace"), e) /\ Append(p, "namespace") \in Seq(Tokens)
    BY <1>1, <1>3, <1>4, Words, ReadsWord
  <2>3. Has(Append(p, "namespace"), "namespace") BY <1>1, Words, HasAppend
  <2> QED BY <1>1, <1>2, <2>1, <2>2, <2>3 DEF HeaderInv, Header, Part
<1>5. CASE Write("struct", [in EXCEPT !.at = "struct"])
  <2>1. in' = HeaderState("struct", s, n, d, e, x, l - 1) BY <1>1, <1>5 DEF HeaderState, Write
  <2>2. out' = ScanState(s, n, Append(p, "struct"), e) /\ Append(p, "struct") \in Seq(Tokens)
    BY <1>1, <1>3, <1>5, Words, ReadsWord
  <2>3. Append(p, "struct") = <<"struct">> BY <1>2
  <2>4. /\ Len(Append(p, "struct")) > 0 /\ Append(p, "struct")[1] = "struct"
        /\ ~Has(Append(p, "struct"), "namespace")
    BY <2>3 DEF Has
  <2> QED BY <1>1, <1>2, <2>1, <2>2, <2>4 DEF HeaderInv, Header, Part
<1>6. CASE \E w \in HeadWords : Write(w, [in EXCEPT !.at = "head", !.decl = <<w>>])
  <2>1. PICK w \in HeadWords : Write(w, [in EXCEPT !.at = "head", !.decl = <<w>>]) BY <1>6
  <2>2. in' = HeaderState("head", s, n, <<w>>, e, x, l - 1) BY <1>1, <2>1 DEF HeaderState, Write
  <2>3. out' = ScanState(s, n, Append(p, w), e) /\ Append(p, w) \in Seq(Tokens)
    BY <1>1, <1>3, <2>1, Words, ReadsWord
  <2>4. Append(p, w) = <<w>> /\ <<w>> \in Seq(HeadWords) BY <1>2
  <2> QED BY <1>1, <1>2, <2>2, <2>3, <2>4 DEF HeaderInv, Header, Part
<1>7. CASE \E w \in {"semi", "directive"} : Write(w, in)
  <2>1. PICK w \in {"semi", "directive"} : Write(w, in) BY <1>7
  <2>2. in' = HeaderState("between", s, n, d, e, x, l - 1) BY <1>1, <1>2, <2>1 DEF Write, HeaderState
  <2>3. out' = ScanState(s, n, <<>>, e)
    <3>1. n = 0 BY <1>2
    <3> QED BY <1>1, <1>3, <2>1, <3>1, ReadsEnd, ReadsDirective
  <2> QED BY <1>1, <1>2, <2>2, <2>3 DEF HeaderInv, Header, Part
<1>8. CASE Write("rbrace", [in EXCEPT !.scopes = Popped(@), !.unnamed = @ \ {Len(in.scopes)}])
  <2> DEFINE z == <<x[1] \ {Len(s)}, x[2]>>
  <2>1. in' = HeaderState("between", Popped(s), n, d, e, z, l - 1)
    <3>1. in.scopes = s BY <1>1 DEF HeaderState
    <3>2. in' = [[in EXCEPT !.scopes = Popped(@), !.unnamed = @ \ {Len(s)}] EXCEPT !.left = @ - 1]
      BY <1>8, <3>1, Zenon DEF Write
    <3> QED BY <1>1, <1>2, <3>2 DEF HeaderState
  <2>2. out' = ScanState(Popped(s), n, <<>>, e)
    <3>1. n = 0 BY <1>2
    <3>2. out' = Scan(ScanState(s, n, p, e), "rbrace") BY <1>1, <1>8, Scans
    <3> QED BY <1>1, <3>1, <3>2, ReadsEnd
  <2>3. Popped(s) \in Seq(Kinds) /\ ~Has(Popped(s), "blk") BY <1>1, <1>2, HasPopped
  <2>4. Part("between", Popped(s), n, d, <<>>) BY <1>2, <2>3 DEF Part
  <2>5. <<>> \in Seq(Tokens) OBVIOUS
  <2> HIDE DEF z
  <2> QED BY <1>1, <2>1, <2>2, <2>3, <2>4, <2>5, Keeps
<1> QED BY <1>4, <1>5, <1>6, <1>7, <1>8 DEF WriteBetween

LEMMA NamespaceStep ==
  ASSUME NEW at, NEW s, NEW n, NEW d, NEW e, NEW x, NEW l, NEW p,
         Header(in, out, at, s, n, d, e, x, l, p), WriteNamespace
  PROVE  HeaderInv(in, out)'
<1>1. /\ in = HeaderState(at, s, n, d, e, x, l) /\ out = ScanState(s, n, p, e)
      /\ s \in Seq(Kinds) /\ n \in Nat /\ p \in Seq(Tokens)
  BY DEF Header
<1>2. at = "namespace" /\ ~Has(s, "blk") /\ n = 0 /\ Has(p, "namespace")
  <2>1. at = "namespace" BY <1>1 DEF WriteNamespace, Writing, HeaderState
  <2> QED BY <2>1 DEF Header, Part
<1>3. ASSUME NEW tok, NEW next, Write(tok, next) PROVE out' = Scan(ScanState(s, n, p, e), tok)
  BY <1>1, <1>3, Scans
<1>4. CASE \E w \in HeadWords \ Quiet : Write(w, [in EXCEPT !.decl = Append(@, w)])
  <2>1. PICK w \in HeadWords : Write(w, [in EXCEPT !.decl = Append(@, w)]) BY <1>4
  <2>2. in' = HeaderState(at, s, n, Append(d, w), e, x, l - 1) BY <1>1, <2>1 DEF HeaderState, Write
  <2>3. out' = ScanState(s, n, Append(p, w), e) /\ Append(p, w) \in Seq(Tokens)
    BY <1>1, <1>3, <2>1, Words, ReadsWord
  <2>4. Has(Append(p, w), "namespace") BY <1>1, <1>2, Words, HasAppend
  <2> QED BY <1>1, <1>2, <2>2, <2>3, <2>4 DEF HeaderInv, Header, Part
<1>5. CASE Write("lbrace", [Scope("ns", "between") EXCEPT
                 !.unnamed = IF in.decl = <<>> THEN @ \cup {Len(in.scopes) + 1} ELSE @])
  <2> DEFINE z == <<IF d = <<>> THEN x[1] \cup {Len(s) + 1} ELSE x[1], x[2]>>
  <2>1. in' = HeaderState("between", Append(s, "ns"), n, <<>>, e, z, l - 1)
    <3>1. in.decl = d /\ in.scopes = s BY <1>1 DEF HeaderState
    <3> DEFINE o == Scope("ns", "between")
    <3>2. o = HeaderState("between", Append(s, "ns"), n, <<>>, e, x, l)
      BY <1>1, ScopeIs
    <3>3. in' = [[o EXCEPT !.unnamed = IF d = <<>> THEN @ \cup {Len(s) + 1} ELSE @]
                   EXCEPT !.left = @ - 1]
      BY <1>5, <3>1, Zenon DEF Write
    <3> HIDE DEF o
    <3> QED BY <3>2, <3>3 DEF HeaderState
  <2>2. out' = ScanState(Append(s, "ns"), n, <<>>, e)
    <3>1. out' = Scan(ScanState(s, n, p, e), "lbrace") BY <1>1, <1>5, Scans
    <3> QED BY <1>1, <1>2, <3>1, ReadsNamespace
  <2>3. Append(s, "ns") \in Seq(Kinds) /\ ~Has(Append(s, "ns"), "blk")
    <3>1. "ns" \in Kinds /\ "ns" # "blk" BY DEF Kinds
    <3>2. ~Has(s, "blk") BY <1>2
    <3> QED BY <1>1, <3>1, <3>2, HasAppend
  <2>4. Part("between", Append(s, "ns"), n, <<>>, <<>>) BY <1>2, <2>3 DEF Part
  <2>5. <<>> \in Seq(Tokens) OBVIOUS
  <2> HIDE DEF z
  <2> QED BY <1>1, <2>1, <2>2, <2>3, <2>4, <2>5, Keeps
<1> QED BY <1>4, <1>5 DEF WriteNamespace

(* Where a body is opened, and where a declaration ends.                    *)
LEMMA Opened ==
  ASSUME NEW at, NEW s, NEW n, NEW d, NEW e, NEW x, NEW l, NEW p,
         Header(in, out, at, s, n, d, e, x, l, p), n = 0, ~Has(p, "namespace"),
         Has(s, "blk") \/ ~IsExternalDefinition(p), Write("lbrace", Scope("blk", "body"))
  PROVE  HeaderInv(in, out)'
<1>1. /\ in = HeaderState(at, s, n, d, e, x, l) /\ out = ScanState(s, n, p, e)
      /\ s \in Seq(Kinds) /\ n \in Nat /\ p \in Seq(Tokens)
  BY DEF Header
<1>2. in' = HeaderState("body", Append(s, "blk"), n, <<>>, e, x, l - 1)
  BY <1>1 DEF HeaderState, Write, Scope
<1>3. out' = Scan(ScanState(s, n, p, e), "lbrace") BY <1>1, Scans
<1>4. out' = ScanState(Append(s, "blk"), n, <<>>, e) BY <1>1, <1>3, ReadsBlock
<1>5. Append(s, "blk") \in Seq(Kinds) /\ Has(Append(s, "blk"), "blk")
  <2>1. "blk" \in Kinds BY DEF Kinds
  <2> QED BY <1>1, <2>1, HasAppend
<1>6. <<>> \in Seq(Tokens) /\ ~Has(<<>>, "namespace") BY DEF Has
<1> QED BY <1>1, <1>2, <1>4, <1>5, <1>6 DEF HeaderInv, Header, Part

LEMMA Finished ==
  ASSUME NEW at, NEW s, NEW n, NEW d, NEW e, NEW x, NEW l, NEW p,
         Header(in, out, at, s, n, d, e, x, l, p), n = 0, ~Has(s, "blk"), Write("semi", Ended)
  PROVE  HeaderInv(in, out)'
<1>1. /\ in = HeaderState(at, s, n, d, e, x, l) /\ out = ScanState(s, n, p, e)
      /\ s \in Seq(Kinds) /\ n \in Nat /\ p \in Seq(Tokens)
  BY DEF Header
<1>2. in' = HeaderState("between", s, n, <<>>, e, x, l - 1) BY <1>1 DEF HeaderState, Write, Ended
<1>3. out' = Scan(ScanState(s, n, p, e), "semi") BY <1>1, Scans
<1>4. out' = ScanState(s, n, <<>>, e) /\ <<>> \in Seq(Tokens) BY <1>1, <1>3, ReadsEnd
<1> QED BY <1>1, <1>2, <1>4 DEF HeaderInv, Header, Part

LEMMA StructStep ==
  ASSUME NEW at, NEW s, NEW n, NEW d, NEW e, NEW x, NEW l, NEW p,
         Header(in, out, at, s, n, d, e, x, l, p), WriteStruct
  PROVE  HeaderInv(in, out)'
<1>1. /\ in = HeaderState(at, s, n, d, e, x, l) /\ out = ScanState(s, n, p, e)
      /\ s \in Seq(Kinds) /\ n \in Nat /\ p \in Seq(Tokens)
  BY DEF Header
<1>2. at = "struct" /\ ~Has(s, "blk") /\ n = 0
      /\ Len(p) > 0 /\ p[1] = "struct" /\ ~Has(p, "namespace")
  <2>1. at = "struct" BY <1>1 DEF WriteStruct, Writing, HeaderState
  <2> QED BY <2>1 DEF Header, Part
<1>3. ASSUME NEW tok, NEW next, Write(tok, next) PROVE out' = Scan(ScanState(s, n, p, e), tok)
  BY <1>1, <1>3, Scans
<1>4. CASE \E w \in HeadWords \ Quiet : Write(w, in)
  <2>1. PICK w \in HeadWords : Write(w, in) BY <1>4
  <2>2. in' = HeaderState(at, s, n, d, e, x, l - 1) BY <1>1, <2>1 DEF HeaderState, Write
  <2>3. out' = ScanState(s, n, Append(p, w), e) /\ Append(p, w) \in Seq(Tokens)
    BY <1>1, <1>3, <2>1, Words, ReadsWord
  <2>4. ~Has(Append(p, w), "namespace") BY <1>1, <1>2, Words, HasAppend
  <2>5. Len(Append(p, w)) > 0 /\ Append(p, w)[1] = "struct"
    <3>1. Len(p) \in Nat /\ w \in Tokens BY <1>1, LenProperties, Words
    <3> QED BY <1>1, <1>2, <3>1, HasAppend
  <2> QED BY <1>1, <1>2, <2>2, <2>3, <2>4, <2>5 DEF HeaderInv, Header, Part
<1>5. CASE Write("lbrace", Scope("blk", "body"))
  <2>1. "struct" \in Keywords BY DEF Keywords
  <2>2. ~IsExternalDefinition(p) BY <1>2, <2>1 DEF IsExternalDefinition
  <2> QED BY <1>2, <1>5, <2>2, Opened
<1>6. CASE Write("semi", Ended) BY <1>2, <1>6, Finished
<1> QED BY <1>4, <1>5, <1>6 DEF WriteStruct

LEMMA HeadStep ==
  ASSUME NEW at, NEW s, NEW n, NEW d, NEW e, NEW x, NEW l, NEW p,
         Header(in, out, at, s, n, d, e, x, l, p), WriteHead
  PROVE  HeaderInv(in, out)'
<1>1. /\ in = HeaderState(at, s, n, d, e, x, l) /\ out = ScanState(s, n, p, e)
      /\ s \in Seq(Kinds) /\ n \in Nat /\ p \in Seq(Tokens)
  BY DEF Header
<1>2. at = "head" /\ ~Has(s, "blk") /\ n = 0 /\ d \in Seq(HeadWords) /\ p = d
  <2>1. at = "head" BY <1>1 DEF WriteHead, Writing, HeaderState
  <2> QED BY <2>1 DEF Header, Part
<1>3. ASSUME NEW tok, NEW next, Write(tok, next) PROVE out' = Scan(ScanState(s, n, p, e), tok)
  BY <1>1, <1>3, Scans
<1>4. CASE \E w \in HeadWords : Write(w, [in EXCEPT !.decl = Append(@, w)])
  <2>1. PICK w \in HeadWords : Write(w, [in EXCEPT !.decl = Append(@, w)]) BY <1>4
  <2>2. in' = HeaderState(at, s, n, Append(d, w), e, x, l - 1) BY <1>1, <2>1 DEF HeaderState, Write
  <2>3. out' = ScanState(s, n, Append(p, w), e) /\ Append(p, w) \in Seq(Tokens)
    BY <1>1, <1>3, <2>1, Words, ReadsWord
  <2>4. Append(d, w) \in Seq(HeadWords) BY <1>2, HasAppend
  <2> QED BY <1>1, <1>2, <2>2, <2>3, <2>4 DEF HeaderInv, Header, Part
<1>5. in.decl = d BY <1>1 DEF HeaderState
<1>6. CASE Len(d) > 1 /\ d[Len(d)] \notin Quiet
  <2>1. Named(d) BY <1>2, <1>6 DEF Named
  <2>2. CASE Write("lpar", [in EXCEPT !.at = "params", !.par = 1])
    <3>1. in' = HeaderState("params", s, 1, d, e, x, l - 1) BY <1>1, <2>2 DEF HeaderState, Write
    <3>2. out' = ScanState(s, 1, Append(d, "lpar"), e) BY <1>1, <1>2, <1>3, <2>2, ReadsOpen
    <3>3. Append(d, "lpar") \in Seq(Tokens) /\ Begins(Append(d, "lpar"), d, "lpar")
      <4>1. "lpar" \in Tokens BY DEF Tokens, Marks
      <4> QED BY <1>2, <4>1, BeginsStart
    <3>4. Part("params", s, 1, d, Append(d, "lpar")) BY <1>2, <2>1, <3>3 DEF Part
    <3> QED BY <1>1, <3>1, <3>2, <3>3, <3>4, Keeps
  <2>3. CASE Write("assign", [in EXCEPT !.at = "initialiser"])
    <3>1. in' = HeaderState("initialiser", s, n, d, e, x, l - 1) BY <1>1, <2>3 DEF HeaderState, Write
    <3>2. "assign" \in Tokens /\ "assign" \notin Marks BY DEF Tokens, Marks
    <3>3. out' = ScanState(s, n, Append(d, "assign"), e) BY <1>1, <1>2, <1>3, <2>3, <3>2, ReadsWord
    <3>4. Append(d, "assign") \in Seq(Tokens) /\ Begins(Append(d, "assign"), d, "assign")
      BY <1>2, <3>2, BeginsStart
    <3> QED BY <1>1, <1>2, <2>1, <3>1, <3>3, <3>4 DEF HeaderInv, Header, Part
  <2>4. CASE Write("semi", Ended) BY <1>2, <2>4, Finished
  <2> QED BY <1>4, <1>5, <2>2, <2>3, <2>4 DEF WriteHead
<1> QED BY <1>4, <1>5, <1>6 DEF WriteHead

(* What is written within a part goes to what is pending and to nothing     *)
(* else, but for the parentheses.                                           *)
Goes(at, s, n, d, e, x, l, p, m) ==
  \E tok \in Tokens : /\ tok \notin {"namespace", "template"}
                      /\ in' = HeaderState(at, s, m, d, e, x, l - 1)
                      /\ out' = ScanState(s, m, Append(p, tok), e)

LEMMA InnerGoes ==
  ASSUME NEW at, NEW s, NEW n, NEW d, NEW e, NEW x, NEW l, NEW p,
         in = HeaderState(at, s, n, d, e, x, l), out = ScanState(s, n, p, e),
         n \in Nat, p \in Seq(Tokens), WriteInner
  PROVE  Goes(at, s, n, d, e, x, l, p, n) \/ Goes(at, s, n, d, e, x, l, p, n + 1)
<1>1. ASSUME NEW tok, NEW next, Write(tok, next) PROVE out' = Scan(ScanState(s, n, p, e), tok)
  BY <1>1, Scans
<1>2. in.par = n BY DEF HeaderState
<1>3. CASE \E w \in InnerWords : Write(w, in)
  <2>1. PICK w \in InnerWords : Write(w, in) BY <1>3
  <2>2. in' = HeaderState(at, s, n, d, e, x, l - 1) BY <2>1 DEF HeaderState, Write
  <2>3. w \in Tokens /\ w \notin Marks /\ w \notin {"namespace", "template"} BY Words
  <2>4. out' = ScanState(s, n, Append(p, w), e) BY <1>1, <2>1, <2>3, ReadsWord
  <2> QED BY <2>2, <2>3, <2>4 DEF Goes
<1>4. CASE Write("lpar", [in EXCEPT !.par = @ + 1])
  <2>1. in' = HeaderState(at, s, n + 1, d, e, x, l - 1) BY <1>4 DEF HeaderState, Write
  <2>2. out' = ScanState(s, n + 1, Append(p, "lpar"), e) BY <1>1, <1>4, ReadsOpen
  <2>3. "lpar" \in Tokens /\ "lpar" \notin {"namespace", "template"} BY DEF Tokens, Marks
  <2> QED BY <2>1, <2>2, <2>3 DEF Goes
<1>5. CASE n > 0 /\ \E w \in {"lbrace", "rbrace", "semi"} : Write(w, in)
  <2>1. PICK w \in {"lbrace", "rbrace", "semi"} : Write(w, in) BY <1>5
  <2>2. in' = HeaderState(at, s, n, d, e, x, l - 1) BY <2>1 DEF HeaderState, Write
  <2>3. w \in Tokens /\ w \notin {"namespace", "template"} BY DEF Tokens, Marks
  <2>4. out' = ScanState(s, n, Append(p, w), e) BY <1>1, <1>5, <2>1, <2>3, ReadsWord
  <2> QED BY <2>2, <2>3, <2>4 DEF Goes
<1> QED BY <1>2, <1>3, <1>4, <1>5 DEF WriteInner

LEMMA CloseGoes ==
  ASSUME NEW at, NEW s, NEW n, NEW d, NEW e, NEW x, NEW l, NEW p,
         in = HeaderState(at, s, n, d, e, x, l), out = ScanState(s, n, p, e),
         n \in Nat, p \in Seq(Tokens), n > 0, Write("rpar", [in EXCEPT !.par = @ - 1])
  PROVE  Goes(at, s, n, d, e, x, l, p, n - 1)
<1>1. in' = HeaderState(at, s, n - 1, d, e, x, l - 1) BY DEF HeaderState, Write
<1>2. out' = Scan(ScanState(s, n, p, e), "rpar") BY Scans
<1>3. out' = ScanState(s, n - 1, Append(p, "rpar"), e) BY <1>2, ReadsClose
<1>4. "rpar" \in Tokens /\ "rpar" \notin {"namespace", "template"} BY DEF Tokens, Marks
<1> QED BY <1>1, <1>3, <1>4 DEF Goes

LEMMA ParamsStep ==
  ASSUME NEW at, NEW s, NEW n, NEW d, NEW e, NEW x, NEW l, NEW p,
         Header(in, out, at, s, n, d, e, x, l, p), WriteParams
  PROVE  HeaderInv(in, out)'
<1>1. /\ in = HeaderState(at, s, n, d, e, x, l) /\ out = ScanState(s, n, p, e)
      /\ s \in Seq(Kinds) /\ n \in Nat /\ p \in Seq(Tokens)
  BY DEF Header
<1>2. at = "params" /\ ~Has(s, "blk") /\ n > 0 /\ Named(d) /\ Begins(p, d, "lpar")
  <2>1. at = "params" BY <1>1 DEF WriteParams, Writing, HeaderState
  <2> QED BY <2>1 DEF Header, Part
<1>3. d \in Seq(HeadWords) BY <1>2 DEF Named
<1>4. ASSUME NEW m \in Nat, m > 0, Goes(at, s, n, d, e, x, l, p, m) PROVE HeaderInv(in, out)'
  <2>1. PICK tok \in Tokens : /\ tok \notin {"namespace", "template"}
                              /\ in' = HeaderState(at, s, m, d, e, x, l - 1)
                              /\ out' = ScanState(s, m, Append(p, tok), e)
    BY <1>4 DEF Goes
  <2>2. Append(p, tok) \in Seq(Tokens) /\ Begins(Append(p, tok), d, "lpar")
    BY <1>1, <1>2, <1>3, <2>1, BeginsGrows
  <2>3. Part(at, s, m, d, Append(p, tok)) BY <1>2, <1>4, <2>2 DEF Part
  <2> QED BY <1>1, <2>1, <2>2, <2>3, Keeps
<1>5. CASE WriteInner
  <2>1. n + 1 \in Nat /\ n + 1 > 0 BY <1>1
  <2> QED BY <1>1, <1>2, <1>4, <1>5, <2>1, InnerGoes
<1>6. CASE Write("rpar", [in EXCEPT !.par = @ - 1, !.at = IF in.par = 1 THEN "signature" ELSE @])
  <2>1. in' = HeaderState(IF n = 1 THEN "signature" ELSE at, s, n - 1, d, e, x, l - 1)
    BY <1>1, <1>6 DEF HeaderState, Write
  <2>2. out' = Scan(ScanState(s, n, p, e), "rpar") BY <1>1, <1>6, Scans
  <2>3. n > 0 BY <1>2
  <2>4. out' = ScanState(s, n - 1, Append(p, "rpar"), e) BY <1>1, <2>2, <2>3, ReadsClose
  <2>5. "rpar" \in Tokens /\ "rpar" \notin {"namespace", "template"} BY DEF Tokens, Marks
  <2>6. Append(p, "rpar") \in Seq(Tokens) /\ Begins(Append(p, "rpar"), d, "lpar")
    BY <1>1, <1>2, <1>3, <2>5, BeginsGrows
  <2>7. n - 1 \in Nat /\ (n = 1 => n - 1 = 0) /\ (n # 1 => n - 1 > 0) BY <1>1, <2>3
  <2>8. Part(IF n = 1 THEN "signature" ELSE at, s, n - 1, d, Append(p, "rpar"))
    <3>1. CASE n = 1 BY <1>2, <2>6, <2>7, <3>1 DEF Part
    <3>2. CASE n # 1 BY <1>2, <2>6, <2>7, <3>2 DEF Part
    <3> QED BY <3>1, <3>2
  <2> QED BY <1>1, <2>1, <2>4, <2>6, <2>7, <2>8, Keeps
<1> QED BY <1>5, <1>6 DEF WriteParams

LEMMA InitialiserStep ==
  ASSUME NEW at, NEW s, NEW n, NEW d, NEW e, NEW x, NEW l, NEW p,
         Header(in, out, at, s, n, d, e, x, l, p), WriteInitialiser
  PROVE  HeaderInv(in, out)'
<1>1. /\ in = HeaderState(at, s, n, d, e, x, l) /\ out = ScanState(s, n, p, e)
      /\ s \in Seq(Kinds) /\ n \in Nat /\ p \in Seq(Tokens)
  BY DEF Header
<1>2. at = "initialiser" /\ ~Has(s, "blk") /\ Named(d) /\ Begins(p, d, "assign")
  <2>1. at = "initialiser" BY <1>1 DEF WriteInitialiser, Writing, HeaderState
  <2> QED BY <2>1 DEF Header, Part
<1>3. d \in Seq(HeadWords) /\ in.par = n BY <1>1, <1>2 DEF Named, HeaderState
<1>4. ASSUME NEW m \in Nat, Goes(at, s, n, d, e, x, l, p, m) PROVE HeaderInv(in, out)'
  <2>1. PICK tok \in Tokens : /\ tok \notin {"namespace", "template"}
                              /\ in' = HeaderState(at, s, m, d, e, x, l - 1)
                              /\ out' = ScanState(s, m, Append(p, tok), e)
    BY <1>4 DEF Goes
  <2>2. Append(p, tok) \in Seq(Tokens) /\ Begins(Append(p, tok), d, "assign")
    BY <1>1, <1>2, <1>3, <2>1, BeginsGrows
  <2>3. Part(at, s, m, d, Append(p, tok)) BY <1>2, <1>4, <2>2 DEF Part
  <2> QED BY <1>1, <2>1, <2>2, <2>3, Keeps
<1>5. CASE WriteInner
  <2>1. n + 1 \in Nat BY <1>1
  <2> QED BY <1>1, <1>4, <1>5, <2>1, InnerGoes
<1>6. CASE n > 0 /\ Write("rpar", [in EXCEPT !.par = @ - 1])
  <2>1. n - 1 \in Nat BY <1>1, <1>6
  <2> QED BY <1>1, <1>4, <1>6, <2>1, CloseGoes
<1>7. CASE n = 0 /\ Write("lbrace", Scope("blk", "body"))
  <2>1. ~Has(p, "namespace") /\ ~IsExternalDefinition(p) BY <1>1, <1>2, BeginsIs
  <2> QED BY <1>7, <2>1, Opened
<1>8. CASE n = 0 /\ Write("semi", Ended) BY <1>2, <1>8, Finished
<1> QED BY <1>3, <1>5, <1>6, <1>7, <1>8 DEF WriteInitialiser

LEMMA SignatureStep ==
  ASSUME NEW at, NEW s, NEW n, NEW d, NEW e, NEW x, NEW l, NEW p,
         Header(in, out, at, s, n, d, e, x, l, p), WriteSignature
  PROVE  HeaderInv(in, out)'
<1>1. /\ in = HeaderState(at, s, n, d, e, x, l) /\ out = ScanState(s, n, p, e)
      /\ s \in Seq(Kinds) /\ n \in Nat /\ p \in Seq(Tokens)
  BY DEF Header
<1>2. at = "signature" /\ ~Has(s, "blk") /\ n = 0 /\ Named(d) /\ Begins(p, d, "lpar")
  <2>1. at = "signature" BY <1>1 DEF WriteSignature, Writing, HeaderState
  <2> QED BY <2>1 DEF Header, Part
<1>3. /\ ~Has(p, "namespace") /\ DefinedName(p) = d[Len(d)]
      /\ IsExternalDefinition(p) <=> Unmarked(d)
  BY <1>1, <1>2, BeginsIs
<1>4. CASE Write("semi", Ended) BY <1>2, <1>4, Finished
<1> DEFINE f == IF Unmarked(d) THEN Append(e, d[Len(d)]) ELSE e
<1> DEFINE z == <<x[1], IF Unmarked(d) /\ x[1] = {} THEN x[2] \cup {d[Len(d)]} ELSE x[2]>>
<1>5. CASE Write("lbrace", [Scope("blk", "body") EXCEPT
                 !.unmarked = IF Unmarked(in.decl) THEN Append(@, in.decl[Len(in.decl)]) ELSE @,
                 !.external = IF Unmarked(in.decl) /\ in.unnamed = {}
                              THEN @ \cup {in.decl[Len(in.decl)]} ELSE @])
  <2>1. in' = HeaderState("body", Append(s, "blk"), n, <<>>, f, z, l - 1)
    <3>1. in.decl = d /\ in.unnamed = x[1] BY <1>1 DEF HeaderState
    <3> DEFINE o == Scope("blk", "body")
    <3>2. o = HeaderState("body", Append(s, "blk"), n, <<>>, e, x, l) BY <1>1, ScopeIs
    <3>3. in' = [[o EXCEPT !.unmarked = IF Unmarked(d) THEN Append(@, d[Len(d)]) ELSE @,
                           !.external = IF Unmarked(d) /\ x[1] = {} THEN @ \cup {d[Len(d)]} ELSE @]
                   EXCEPT !.left = @ - 1]
      BY <1>5, <3>1, Zenon DEF Write
    <3> HIDE DEF o
    <3> QED BY <3>2, <3>3 DEF HeaderState
  <2>2. out' = Scan(ScanState(s, n, p, e), "lbrace") BY <1>1, <1>5, Scans
  <2>3. out' = ScanState(Append(s, "blk"), n, <<>>, f)
    <3>1. n = 0 /\ ~Has(s, "blk") BY <1>2
    <3>2. CASE Unmarked(d) BY <1>1, <1>3, <2>2, <3>1, <3>2, ReadsDefinition
    <3>3. CASE ~Unmarked(d) BY <1>1, <1>3, <2>2, <3>1, <3>3, ReadsBlock
    <3> QED BY <3>2, <3>3
  <2>4. Append(s, "blk") \in Seq(Kinds) /\ Has(Append(s, "blk"), "blk")
    <3>1. "blk" \in Kinds BY DEF Kinds
    <3> QED BY <1>1, <3>1, HasAppend
  <2>5. <<>> \in Seq(Tokens) /\ ~Has(<<>>, "namespace") BY DEF Has
  <2>6. Part("body", Append(s, "blk"), n, <<>>, <<>>) BY <2>4, <2>5 DEF Part
  <2> HIDE DEF f, z
  <2> QED BY <1>1, <2>1, <2>3, <2>4, <2>5, <2>6, Keeps
<1> QED BY <1>4, <1>5 DEF WriteSignature

LEMMA BodyStep ==
  ASSUME NEW at, NEW s, NEW n, NEW d, NEW e, NEW x, NEW l, NEW p,
         Header(in, out, at, s, n, d, e, x, l, p), WriteBody
  PROVE  HeaderInv(in, out)'
<1>1. /\ in = HeaderState(at, s, n, d, e, x, l) /\ out = ScanState(s, n, p, e)
      /\ s \in Seq(Kinds) /\ n \in Nat /\ p \in Seq(Tokens)
  BY DEF Header
<1>2. at = "body" /\ Has(s, "blk") /\ ~Has(p, "namespace")
  <2>1. at = "body" BY <1>1 DEF WriteBody, Writing, HeaderState
  <2> QED BY <2>1 DEF Header, Part
<1>3. in.par = n /\ in.scopes = s BY <1>1 DEF HeaderState
<1>4. ASSUME NEW m \in Nat, Goes(at, s, n, d, e, x, l, p, m) PROVE HeaderInv(in, out)'
  <2>1. PICK tok \in Tokens : /\ tok \notin {"namespace", "template"}
                              /\ in' = HeaderState(at, s, m, d, e, x, l - 1)
                              /\ out' = ScanState(s, m, Append(p, tok), e)
    BY <1>4 DEF Goes
  <2>2. Append(p, tok) \in Seq(Tokens) /\ ~Has(Append(p, tok), "namespace")
    BY <1>1, <1>2, <2>1, HasAppend
  <2>3. Part(at, s, m, d, Append(p, tok)) BY <1>2, <2>2 DEF Part
  <2> QED BY <1>1, <2>1, <2>2, <2>3, Keeps
<1>5. CASE WriteInner
  <2>1. n + 1 \in Nat BY <1>1
  <2> QED BY <1>1, <1>4, <1>5, <2>1, InnerGoes
<1>6. CASE n > 0 /\ Write("rpar", [in EXCEPT !.par = @ - 1])
  <2>1. n - 1 \in Nat BY <1>1, <1>6
  <2> QED BY <1>1, <1>4, <1>6, <2>1, CloseGoes
<1>7. CASE n = 0 /\ Write("lbrace", Scope("blk", "body")) BY <1>2, <1>7, Opened
<1>8. CASE Write("directive", in) \/ (n = 0 /\ Write("semi", in))
  <2>1. in' = HeaderState("body", s, n, d, e, x, l - 1) BY <1>1, <1>2, <1>8 DEF Write, HeaderState
  <2>2. \/ out' = Scan(ScanState(s, n, p, e), "directive")
        \/ n = 0 /\ out' = Scan(ScanState(s, n, p, e), "semi")
    BY <1>1, <1>8, Scans
  <2>3. out' = ScanState(s, n, <<>>, e) BY <1>1, <2>2, ReadsEnd, ReadsDirective
  <2>4. <<>> \in Seq(Tokens) /\ ~Has(<<>>, "namespace") BY DEF Has
  <2>5. Part("body", s, n, d, <<>>) BY <1>2, <2>4 DEF Part
  <2> QED BY <1>1, <2>1, <2>3, <2>4, <2>5, Keeps
<1> DEFINE rest == Popped(s)
           b == IF Has(rest, "blk") THEN "body" ELSE "between"
<1>9. CASE n = 0 /\ Write("rbrace", [in EXCEPT !.scopes = Popped(s),
                                 !.at = IF Has(Popped(s), "blk") THEN "body" ELSE "between"])
  <2>1. in' = HeaderState(b, rest, n, d, e, x, l - 1) BY <1>1, <1>9 DEF Write, HeaderState
  <2>2. out' = Scan(ScanState(s, n, p, e), "rbrace") BY <1>1, <1>9, Scans
  <2>3. out' = ScanState(rest, n, <<>>, e) BY <1>1, <1>9, <2>2, ReadsEnd
  <2>4. rest \in Seq(Kinds) BY <1>1, HasPopped
  <2>5. <<>> \in Seq(Tokens) /\ ~Has(<<>>, "namespace") BY DEF Has
  <2>6. Part(b, rest, n, d, <<>>)
    <3>1. CASE Has(rest, "blk") BY <2>5, <3>1 DEF Part
    <3>2. CASE ~Has(rest, "blk") BY <1>9, <3>2 DEF Part
    <3> QED BY <3>1, <3>2
  <2> QED BY <1>1, <2>1, <2>3, <2>4, <2>5, <2>6, Keeps
<1> QED BY <1>3, <1>5, <1>6, <1>7, <1>8, <1>9 DEF WriteBody

LEMMA HeaderStep ==
  ASSUME HeaderInv(in, out), WriteHeader
  PROVE  HeaderInv(in, out)'
<1>1. PICK at, s, n, d, e, x, l, p : Header(in, out, at, s, n, d, e, x, l, p) BY DEF HeaderInv
<1> QED BY <1>1, BetweenStep, NamespaceStep, StructStep, HeadStep, ParamsStep, InitialiserStep,
           SignatureStep, BodyStep DEF WriteHeader

LEMMA HeaderOpened == ASSUME OpenHeader PROVE HeaderInv(in, out)'
<1>1. /\ in' = HeaderState("between", <<>>, 0, <<>>, <<>>, <<{}, {}>>, MaxTokens)
      /\ out' = ScanState(<<>>, 0, <<>>, <<>>)
  BY DEF OpenHeader, Start, HeaderState, ScanState
<1>2. <<>> \in Seq(Kinds) /\ <<>> \in Seq(Tokens) /\ ~Has(<<>>, "blk") BY DEF Has
<1>3. Part("between", <<>>, 0, <<>>, <<>>) BY <1>2 DEF Part
<1> QED BY <1>1, <1>2, <1>3, Keeps

(* A function with external linkage has no mark.                            *)
Linkage(i) ==
  /\ i.unmarked \in Seq(HeadWords)
  /\ i.external \subseteq {i.unmarked[j] : j \in DOMAIN i.unmarked}

LEMMA LinkageOpened == ASSUME OpenHeader PROVE Linkage(in)'
<1>1. in'.unmarked = <<>> /\ in'.external = {} BY DEF OpenHeader
<1> QED BY <1>1 DEF Linkage

LEMMA LinkageStep ==
  ASSUME HeaderInv(in, out), Linkage(in), WriteHeader
  PROVE  Linkage(in)'
<1>1. PICK at, s, n, d, e, x, l, p : Header(in, out, at, s, n, d, e, x, l, p) BY DEF HeaderInv
<1> DEFINE Same == in'.unmarked = in.unmarked /\ in'.external = in.external
<1>2. in = HeaderState(at, s, n, d, e, x, l) BY <1>1 DEF Header
<1>3. CASE Same BY <1>3 DEF Linkage
<1>4. CASE WriteBetween
  <2>1. Same BY <1>2, <1>4 DEF WriteBetween, Write, HeaderState
  <2> QED BY <1>3, <2>1
<1>5. CASE WriteNamespace
  <2>1. Same BY <1>2, <1>5 DEF WriteNamespace, Write, Scope, HeaderState
  <2> QED BY <1>3, <2>1
<1>6. CASE WriteStruct
  <2>1. Same BY <1>2, <1>6 DEF WriteStruct, Write, Scope, Ended, HeaderState
  <2> QED BY <1>3, <2>1
<1>7. CASE WriteHead
  <2>1. Same BY <1>2, <1>7 DEF WriteHead, Write, Ended, HeaderState
  <2> QED BY <1>3, <2>1
<1>8. CASE WriteParams
  <2>1. Same BY <1>2, <1>8 DEF WriteParams, WriteInner, Write, HeaderState
  <2> QED BY <1>3, <2>1
<1>9. CASE WriteInitialiser
  <2>1. Same BY <1>2, <1>9 DEF WriteInitialiser, WriteInner, Write, Scope, Ended, HeaderState
  <2> QED BY <1>3, <2>1
<1>10. CASE WriteBody
  <2>1. Same BY <1>2, <1>10 DEF WriteBody, WriteInner, Write, Scope, HeaderState
  <2> QED BY <1>3, <2>1
<1>11. CASE WriteSignature
  <2>1. in.decl = d /\ Named(d)
    <3>1. at = "signature" BY <1>2, <1>11 DEF WriteSignature, Writing, HeaderState
    <3> QED BY <1>1, <1>2, <3>1 DEF Header, Part, HeaderState
  <2> DEFINE v == d[Len(d)]
  <2>2. v \in HeadWords BY <2>1 DEF Named
  <2>3. \/ Same
        \/ /\ in'.unmarked = Append(in.unmarked, v)
           /\ in'.external \subseteq in.external \cup {v}
    BY <1>2, <1>11, <2>1 DEF WriteSignature, Write, Scope, Ended, HeaderState
  <2> HIDE DEF v
  <2>4. ASSUME in'.unmarked = Append(in.unmarked, v), in'.external \subseteq in.external \cup {v}
        PROVE  Linkage(in)'
    <3> DEFINE u == in.unmarked
               w == Append(u, v)
    <3>1. u \in Seq(HeadWords) /\ in.external \subseteq {u[j] : j \in DOMAIN u} BY DEF Linkage
    <3>2. w \in Seq(HeadWords) /\ Len(u) \in Nat BY <2>2, <3>1
    <3>3. DOMAIN u = 1..Len(u) /\ DOMAIN w = 1..(Len(u) + 1) BY <2>2, <3>1
    <3>4. w[Len(u) + 1] = v /\ \A j \in 1..Len(u) : w[j] = u[j] BY <2>2, <3>1
    <3> HIDE DEF u, w
    <3>5. {u[j] : j \in DOMAIN u} \cup {v} \subseteq {w[j] : j \in DOMAIN w}
      BY <3>2, <3>3, <3>4
    <3>6. in'.external \subseteq {w[j] : j \in DOMAIN w} BY <2>4, <3>1, <3>5
    <3>7. in'.unmarked = w BY <2>4 DEF u, w
    <3> QED BY <3>2, <3>6, <3>7 DEF Linkage
  <2> QED BY <1>3, <2>3, <2>4
<1> QED BY <1>4, <1>5, <1>6, <1>7, <1>8, <1>9, <1>10, <1>11 DEF WriteHeader

LEMMA HeaderExact ==
  ASSUME NEW i, NEW o, HeaderInv(i, o)
  PROVE  i.tool = "header" /\ o.found = i.unmarked
BY DEF HeaderInv, Header, HeaderState, ScanState

(* A guard on pointers and sizes alone is passed by the rebuild that moves  *)
(* none of them.                                                            *)
LEMMA GuardExact ==
  ASSUME NEW g
  PROVE  PointerOnly(g) <=> /\ \E c \in g.compares : c[2] \in Pointers /\ c[1] # g.cached
                            /\ \E moved \in Rebuilds(g) : Replays(g, moved)
<1>1. ASSUME PointerOnly(g) PROVE {} \in Rebuilds(g) /\ Replays(g, {})
  BY <1>1 DEF PointerOnly, IsCacheGuard, Rebuilds, Replays
<1>2. ASSUME NEW moved \in Rebuilds(g), Replays(g, moved)
      PROVE  ~g.refuses /\ \A c \in g.compares : c[2] \notin Survivors
  BY <1>2 DEF Rebuilds, Replays
<1> QED BY <1>1, <1>2 DEF PointerOnly, IsCacheGuard
-----------------------------------------------------------------------------
(* resize_audit.py.                                                         *)

(* What the audit takes for stale before statement i, and the keys of the   *)
(* sites it reports above it.                                               *)
Doubtful(u, fn, i, b) == ResizedIn(u, fn, i, b) /\ ~Initialised(u, fn, i, b)
SitesOfFn(u, fn) == Hits(u, fn) \cup Crossed(u, fn)
KeysUpTo(u, fn, i) == {SiteKey(fn, s) : s \in {s \in SitesOfFn(u, fn) : s[1] < i}}
KeysAt(u, fn, i) == {SiteKey(fn, s) : s \in {s \in SitesOfFn(u, fn) : s[1] = i}}
Marked(name, bufs) == {<<name, b>> : b \in bufs}
DoubtfullyAdded(u, fn, i) == {b \in AddedBy(u.table, fn.body[i]) : Doubtful(u, fn, i, b)}

(* A statement of a function of a unit.                                     *)
LEMMA StatementIs ==
  ASSUME NEW u, u \in Units, NEW fn, fn \in u.fns
  PROVE  /\ Len(fn.body) \in Nat /\ DOMAIN fn.body = 1..Len(fn.body)
         /\ \A i \in 1..Len(fn.body) :
              /\ \/ fn.body[i].op \in {"resize", "zero", "copyFrom"} /\ DOMAIN fn.body[i].args = {1}
                 \/ /\ fn.body[i].op = "launch" /\ fn.body[i].name \in DOMAIN u.table
                    /\ DOMAIN fn.body[i].args = DOMAIN u.table[fn.body[i].name].names
                 \/ fn.body[i].op = "call"
              /\ fn.body[i].op # "call" =>
                   \A k \in DOMAIN fn.body[i].args :
                     <<fn.body[i].args[k], fn.body[i].args[k]>> \in u.found[fn.body[i].op]
<1>1. IsFunction(u, fn) BY UnitsAssumption
<1> QED BY <1>1 DEF IsFunction

LEMMA HelperIs ==
  ASSUME NEW u, u \in Units, NEW fn, fn \in u.fns, NEW i, i \in 1..Len(fn.body),
         fn.body[i].op = "call"
  PROVE  /\ HelperOf(u, fn.body[i]) \in u.fns
         /\ HelperOf(u, fn.body[i]).name = fn.body[i].name
         /\ DOMAIN fn.body[i].args = DOMAIN HelperOf(u, fn.body[i]).params
         /\ \A j \in DOMAIN HelperOf(u, fn.body[i]).body : HelperOf(u, fn.body[i]).body[j].op # "call"
         /\ Called(u, HelperOf(u, fn.body[i]))
<1> DEFINE s == fn.body[i]
<1>1. IsFunction(u, fn) BY UnitsAssumption
<1>2. PICK h \in u.fns : /\ h.name = s.name /\ DOMAIN s.args = DOMAIN h.params
                         /\ \A j \in DOMAIN h.body : h.body[j].op # "call"
  BY <1>1 DEF IsFunction
<1>3. HelperOf(u, s) \in u.fns /\ HelperOf(u, s).name = s.name BY <1>2 DEF HelperOf
<1>4. HelperOf(u, s) = h BY <1>2, <1>3, UnitsAssumption
<1>5. i \in DOMAIN fn.body BY <1>1 DEF IsFunction
<1>6. Called(u, h) BY <1>2, <1>5 DEF Called
<1> QED BY <1>2, <1>4, <1>6

(* The searches, one statement further.                                     *)
ResizeFound(u, s, b) == s.op = "resize" /\ Mentions(u, s, b)
LEMMA SearchGoes ==
  ASSUME NEW u, u \in Units, NEW fn, fn \in u.fns, NEW i, i \in 1..Len(fn.body), NEW b
  PROVE  /\ ResizedIn(u, fn, i + 1, b) <=> ResizedIn(u, fn, i, b) \/ ResizeFound(u, fn.body[i], b)
         /\ Initialised(u, fn, i + 1, b) <=>
              Initialised(u, fn, i, b) \/ Initialises(u, fn.body[i], b)
<1> DEFINE s == fn.body[i]
<1>1. Len(fn.body) \in Nat BY StatementIs
<1>2. i \in Nat /\ i \in 1..((i + 1) - 1) /\ \A j : j \in 1..((i + 1) - 1) <=> j \in 1..(i - 1) \/ j = i
  BY <1>1
<1>3. s.op = "launch" => s.name \in DOMAIN u.table BY StatementIs
<1>4. ResizedIn(u, fn, i + 1, b) <=> ResizedIn(u, fn, i, b) \/ ResizeFound(u, s, b)
  BY <1>2 DEF ResizedIn, ResizeFound
<1>5. ZeroedIn(u, fn, i + 1, b) <=>
        ZeroedIn(u, fn, i, b) \/ (s.op \in {"zero", "copyFrom"} /\ Mentions(u, s, b))
  BY <1>2 DEF ZeroedIn
<1>6. AssignedIn(u, fn, i + 1, b) <=>
        \/ AssignedIn(u, fn, i, b)
        \/ s.op = "launch" /\ s.name \in DOMAIN u.table /\ Mentions(u, s, b) /\ u.table[s.name].assign # {}
  BY <1>2 DEF AssignedIn
<1> QED BY <1>3, <1>4, <1>5, <1>6 DEF Initialised, Initialises

(* What is found above statement i is found at a statement.                 *)
LEMMA SearchFinds ==
  ASSUME NEW u, u \in Units, NEW fn, fn \in u.fns, NEW i, i \in 1..(Len(fn.body) + 1), NEW b
  PROVE  /\ Initialised(u, fn, i, b) =>
              \E j \in DOMAIN fn.body : j < i /\ Initialises(u, fn.body[j], b)
         /\ ResizedIn(u, fn, i, b) =>
              \E j \in DOMAIN fn.body : j < i /\ ResizeFound(u, fn.body[j], b)
<1>1. Len(fn.body) \in Nat /\ DOMAIN fn.body = 1..Len(fn.body) BY StatementIs
<1>2. \A j \in 1..(i - 1) : j \in DOMAIN fn.body /\ j < i BY <1>1
<1>3. ASSUME Initialised(u, fn, i, b)
      PROVE  \E j \in 1..(i - 1) : Initialises(u, fn.body[j], b)
  BY <1>3 DEF Initialised, ZeroedIn, AssignedIn, Initialises
<1>4. ASSUME ResizedIn(u, fn, i, b)
      PROVE  \E j \in 1..(i - 1) : ResizeFound(u, fn.body[j], b)
  BY <1>4 DEF ResizedIn, ResizeFound
<1> QED BY <1>2, <1>3, <1>4

LEMMA SearchStarts ==
  ASSUME NEW u, NEW fn, NEW b
  PROVE  ~ResizedIn(u, fn, 1, b) /\ ~Initialised(u, fn, 1, b)
<1>1. 1..(1 - 1) = {} OBVIOUS
<1> QED BY <1>1 DEF ResizedIn, Initialised, ZeroedIn, AssignedIn

(* What a statement resizes or sets is found at it.                         *)
LEMMA WrittenIsFound ==
  ASSUME NEW u, u \in Units, NEW fn, fn \in u.fns, NEW i, i \in 1..Len(fn.body), NEW b
  PROVE  /\ b \in ResizedBy(fn.body[i]) =>
              ResizeFound(u, fn.body[i], b) /\ ~Initialises(u, fn.body[i], b)
         /\ b \in SetBy(u.table, fn.body[i]) => Initialises(u, fn.body[i], b)
<1> DEFINE s == fn.body[i]
<1>1. s.op # "call" => \A k \in DOMAIN s.args : <<s.args[k], s.args[k]>> \in u.found[s.op]
  BY StatementIs
<1>2. ASSUME s.op \in {"resize", "zero", "copyFrom"} PROVE Mentions(u, s, s.args[1])
  <2>1. DOMAIN s.args = {1} BY <1>2, StatementIs
  <2> QED BY <1>1, <1>2, <2>1 DEF Mentions
<1>3. CASE s.op = "launch"
  <2>1. b \in SetBy(u.table, s) =>
          \E k \in DOMAIN s.args : s.args[k] = b /\ u.table[s.name].names[k] \in u.table[s.name].assign
    BY <1>3 DEF SetBy, AssignedBy
  <2> QED BY <1>1, <1>3, <2>1 DEF ResizedBy, Initialises, Mentions
<1>4. CASE s.op # "launch"
  BY <1>2, <1>4 DEF ResizedBy, ResizeFound, SetBy, AssignedBy, Initialises
<1> QED BY <1>3, <1>4

(* The audit's belief, one statement further: a stale buffer stays in doubt *)
(* unless something hides it, and what is spelled apart is in doubt only if *)
(* it is stale.                                                             *)
LEMMA DoubtGoes ==
  ASSUME NEW u, u \in Units, NEW fn, fn \in u.fns, NEW i, i \in 1..Len(fn.body), NEW b
  PROVE  /\ (Doubtful(u, fn, i, b) \/ b \in ResizedBy(fn.body[i]))
              /\ b \notin SetBy(u.table, fn.body[i]) =>
                Doubtful(u, fn, i + 1, b) \/ Misread(u, fn, b) \/ Undone(u, fn, b)
         /\ Spelled(u, fn) /\ Doubtful(u, fn, i + 1, b) =>
              /\ Doubtful(u, fn, i, b) \/ b \in ResizedBy(fn.body[i])
              /\ b \notin SetBy(u.table, fn.body[i])
<1> DEFINE s == fn.body[i]
<1>1. Len(fn.body) \in Nat /\ DOMAIN fn.body = 1..Len(fn.body) /\ i \in DOMAIN fn.body
  BY StatementIs
<1>2. ASSUME b \in ResizedBy(s), Initialised(u, fn, i, b) PROVE Undone(u, fn, b)
  <2>1. i \in 1..(Len(fn.body) + 1) BY <1>1
  <2>2. PICK j \in DOMAIN fn.body : j < i /\ Initialises(u, fn.body[j], b)
    BY <1>2, <2>1, SearchFinds
  <2> QED BY <1>1, <1>2, <2>2 DEF Undone
<1>3. ASSUME Initialises(u, s, b), b \notin SetBy(u.table, s) PROVE Misread(u, fn, b)
  BY <1>1, <1>3 DEF Misread
<1>4. ASSUME Spelled(u, fn), ResizeFound(u, s, b) PROVE b \in ResizedBy(s)
  <2>1. PICK k \in DOMAIN s.args : <<s.args[k], b>> \in u.found["resize"]
    BY <1>4 DEF ResizeFound, Mentions
  <2>2. s.op = "resize" /\ DOMAIN s.args = {1} BY <1>4, StatementIs DEF ResizeFound
  <2>3. ResizedBy(s) = {s.args[1]} BY <2>2 DEF ResizedBy
  <2>4. <<s.args[k], b>>[1] \in ResizedBy(s) BY <2>1, <2>2, <2>3
  <2>5. <<s.args[k], b>>[1] = <<s.args[k], b>>[2] BY <1>1, <1>4, <2>1, <2>2, <2>4 DEF Spelled
  <2> QED BY <2>4, <2>5
<1> HIDE DEF s
<1>5. /\ ResizedIn(u, fn, i + 1, b) <=> ResizedIn(u, fn, i, b) \/ ResizeFound(u, s, b)
      /\ Initialised(u, fn, i + 1, b) <=> Initialised(u, fn, i, b) \/ Initialises(u, s, b)
  BY SearchGoes DEF s
<1>6. /\ b \in ResizedBy(s) => ResizeFound(u, s, b) /\ ~Initialises(u, s, b)
      /\ b \in SetBy(u.table, s) => Initialises(u, s, b)
  BY WrittenIsFound DEF s
<1>7. ASSUME Doubtful(u, fn, i, b) \/ b \in ResizedBy(s), b \notin SetBy(u.table, s)
      PROVE  Doubtful(u, fn, i + 1, b) \/ Misread(u, fn, b) \/ Undone(u, fn, b)
  BY <1>2, <1>3, <1>5, <1>6, <1>7 DEF Doubtful
<1>8. ASSUME Spelled(u, fn), Doubtful(u, fn, i + 1, b)
      PROVE  (Doubtful(u, fn, i, b) \/ b \in ResizedBy(s)) /\ b \notin SetBy(u.table, s)
  BY <1>4, <1>5, <1>6, <1>8 DEF Doubtful
<1> QED BY <1>7, <1>8 DEF s

(* The sites of one statement.                                              *)
LEMMA ArgumentsAre ==
  ASSUME NEW u, u \in Units, NEW fn, fn \in u.fns, NEW s
  PROVE  s \in Arguments(fn) <=>
           \E i \in 1..Len(fn.body) : \E k \in DOMAIN fn.body[i].args : s = <<i, k>>
BY StatementIs DEF Arguments

LEMMA AddedAre ==
  ASSUME NEW u, u \in Units, NEW fn, fn \in u.fns, NEW i, i \in 1..Len(fn.body), NEW b
  PROVE  (\E s \in Suspects(u, fn) : s[1] = i /\ BufferAt(fn, s) = b) <=>
           b \in AddedBy(u.table, fn.body[i]) /\ ~Initialised(u, fn, i, b)
<1> DEFINE st == fn.body[i]
           T == u.table
<1>1. b \in AddedBy(T, st) <=>
        st.op = "launch" /\ \E k \in DOMAIN st.args : st.args[k] = b /\ T[st.name].names[k] \in T[st.name].acc
  BY DEF AddedBy
<1>2. ASSUME NEW s \in Suspects(u, fn), s[1] = i, BufferAt(fn, s) = b
      PROVE  b \in AddedBy(T, st) /\ ~Initialised(u, fn, i, b)
  <2>1. PICK j \in 1..Len(fn.body) : \E k \in DOMAIN fn.body[j].args : s = <<j, k>>
    BY ArgumentsAre DEF Suspects
  <2>2. s[2] \in DOMAIN st.args BY <1>2, <2>1
  <2>3. st.op = "launch" /\ T[st.name].names[s[2]] \in T[st.name].acc /\ ~Initialised(u, fn, i, b)
    BY <1>2 DEF Suspects
  <2> QED BY <1>1, <1>2, <2>2, <2>3 DEF BufferAt
<1>3. ASSUME b \in AddedBy(T, st), ~Initialised(u, fn, i, b)
      PROVE  \E s \in Suspects(u, fn) : s[1] = i /\ BufferAt(fn, s) = b
  <2>1. PICK k \in DOMAIN st.args : st.args[k] = b /\ T[st.name].names[k] \in T[st.name].acc
    BY <1>1, <1>3
  <2>2. st.op = "launch" /\ st.name \in DOMAIN T /\ k \in DOMAIN T[st.name].names
    BY <1>1, <1>3, StatementIs
  <2>3. <<i, k>> \in Arguments(fn) BY ArgumentsAre
  <2>4. BufferAt(fn, <<i, k>>) = b BY <2>1 DEF BufferAt
  <2>5. <<i, k>> \in Suspects(u, fn) BY <1>3, <2>1, <2>2, <2>3, <2>4 DEF Suspects
  <2> QED BY <2>4, <2>5
<1> QED BY <1>2, <1>3

LEMMA SitesBefore ==
  ASSUME NEW u, u \in Units, NEW fn, fn \in u.fns, NEW s, s \in SitesOfFn(u, fn)
  PROVE  s[1] \in 1..Len(fn.body) /\ s[2] \in DOMAIN fn.body[s[1]].args
<1>1. s \in Arguments(fn) BY DEF SitesOfFn, Hits, Suspects, Crossed
<1> QED BY <1>1, ArgumentsAre

(* The keys, one statement further: a statement that is not a call is       *)
(* reported for what it adds to, a call for what it hands to a risky        *)
(* parameter, where that is doubtful.                                       *)
LEMMA KeysGo ==
  ASSUME NEW u, u \in Units, NEW fn, fn \in u.fns, NEW i, i \in 1..Len(fn.body)
  PROVE  KeysUpTo(u, fn, i + 1) =
           KeysUpTo(u, fn, i) \cup KeysAt(u, fn, i)
<1>1. Len(fn.body) \in Nat BY StatementIs
<1>2. ASSUME NEW s, s \in SitesOfFn(u, fn) PROVE s[1] < i + 1 <=> s[1] < i \/ s[1] = i
  BY <1>1, <1>2, SitesBefore
<1> QED BY <1>2 DEF KeysUpTo, KeysAt

LEMMA StatementKeys ==
  ASSUME NEW u, u \in Units, NEW fn, fn \in u.fns, NEW i, i \in 1..Len(fn.body),
         fn.body[i].op # "call"
  PROVE  KeysAt(u, fn, i) =
           Marked(fn.body[i].name, DoubtfullyAdded(u, fn, i))
<1> DEFINE st == fn.body[i]
<1>1. ASSUME NEW s, s \in SitesOfFn(u, fn), s[1] = i
      PROVE  /\ SiteKey(fn, s) = <<st.name, BufferAt(fn, s)>>
             /\ BufferAt(fn, s) \in AddedBy(u.table, st) /\ Doubtful(u, fn, i, BufferAt(fn, s))
  <2>1. s \in Hits(u, fn) BY <1>1 DEF SitesOfFn, Crossed
  <2>2. s \in Suspects(u, fn) /\ ResizedIn(u, fn, i, BufferAt(fn, s)) BY <1>1, <2>1 DEF Hits
  <2>3. BufferAt(fn, s) \in AddedBy(u.table, st) /\ ~Initialised(u, fn, i, BufferAt(fn, s))
    BY <1>1, <2>2, AddedAre
  <2> QED BY <1>1, <2>2, <2>3 DEF SiteKey, Doubtful
<1>2. ASSUME NEW b, b \in AddedBy(u.table, st), Doubtful(u, fn, i, b)
      PROVE  \E s \in SitesOfFn(u, fn) : s[1] = i /\ SiteKey(fn, s) = <<st.name, b>>
  <2>1. PICK s \in Suspects(u, fn) : s[1] = i /\ BufferAt(fn, s) = b
    BY <1>2, AddedAre DEF Doubtful
  <2>2. s \in SitesOfFn(u, fn) BY <1>2, <2>1 DEF Hits, SitesOfFn, Doubtful
  <2> QED BY <2>1, <2>2 DEF SiteKey
<1> QED BY <1>1, <1>2 DEF KeysAt, Marked, DoubtfullyAdded

RiskyKey(u, fn, i, key) ==
  \E k \in DOMAIN fn.body[i].args :
    /\ key = <<fn.body[i].name, fn.body[i].args[k]>>
    /\ Doubtful(u, fn, i, fn.body[i].args[k]) /\ Risky(u, fn.body[i].name, k)

LEMMA CallKeys ==
  ASSUME NEW u, u \in Units, NEW fn, fn \in u.fns, NEW i, i \in 1..Len(fn.body),
         fn.body[i].op = "call", NEW key
  PROVE  key \in KeysAt(u, fn, i) <=> RiskyKey(u, fn, i, key)
<1> DEFINE st == fn.body[i]
<1>1. ASSUME NEW s, s \in SitesOfFn(u, fn), s[1] = i
      PROVE  /\ s[2] \in DOMAIN st.args /\ SiteKey(fn, s) = <<st.name, st.args[s[2]]>>
             /\ Doubtful(u, fn, i, st.args[s[2]]) /\ Risky(u, st.name, s[2])
  <2>1. s \in Crossed(u, fn) BY <1>1 DEF SitesOfFn, Hits, Suspects
  <2>2. s[2] \in DOMAIN st.args BY <1>1, SitesBefore
  <2> QED BY <1>1, <2>1, <2>2 DEF Crossed, SiteKey, BufferAt, Doubtful
<1>2. ASSUME NEW k, k \in DOMAIN st.args, Doubtful(u, fn, i, st.args[k]), Risky(u, st.name, k)
      PROVE  <<i, k>> \in SitesOfFn(u, fn) /\ SiteKey(fn, <<i, k>>) = <<st.name, st.args[k]>>
  <2>1. <<i, k>> \in Arguments(fn) BY <1>2, ArgumentsAre
  <2>2. BufferAt(fn, <<i, k>>) = st.args[k] BY DEF BufferAt
  <2> QED BY <1>2, <2>1, <2>2 DEF Crossed, SiteKey, Doubtful, SitesOfFn
<1> HIDE DEF st
<1>3. (key \in KeysAt(u, fn, i)) <=>
        \E s \in SitesOfFn(u, fn) : s[1] = i /\ key = SiteKey(fn, s)
  BY DEF KeysAt
<1>4. ASSUME NEW k, k \in DOMAIN st.args, Doubtful(u, fn, i, st.args[k]),
             Risky(u, st.name, k), key = <<st.name, st.args[k]>>
      PROVE  \E s \in SitesOfFn(u, fn) : s[1] = i /\ key = SiteKey(fn, s)
  <2>1. <<i, k>>[1] = i OBVIOUS
  <2> QED BY <1>2, <1>4, <2>1
<1> QED BY <1>1, <1>3, <1>4 DEF st, RiskyKey

(* Whether a helper's text before statement j leaves its k-th parameter in  *)
(* question.                                                                *)
Touched(u, h, j, k) == \E s \in Carried(u, h) : s[1] < j /\ BufferAt(h, s) = h.params[k]

LEMMA SuspectsBefore ==
  ASSUME NEW u, u \in Units, NEW fn, fn \in u.fns, NEW s, s \in Suspects(u, fn)
  PROVE  s[1] \in 1..Len(fn.body)
<1>1. s \in Arguments(fn) BY DEF Suspects
<1> QED BY <1>1, ArgumentsAre

LEMMA TouchedGoes ==
  ASSUME NEW u, u \in Units, NEW h, h \in u.fns, NEW k, k \in DOMAIN h.params,
         NEW j, j \in 1..Len(h.body), Touched(u, h, j + 1, k)
  PROVE  Touched(u, h, j, k) \/ h.params[k] \in AddedBy(u.table, h.body[j])
<1>1. Len(h.body) \in Nat BY StatementIs
<1>2. PICK s \in Carried(u, h) : s[1] < j + 1 /\ BufferAt(h, s) = h.params[k] BY DEF Touched
<1>3. s \in Suspects(u, h) BY DEF Carried
<1>4. s[1] < j \/ s[1] = j BY <1>1, <1>2, <1>3, SuspectsBefore
<1>5. s[1] = j => h.params[k] \in AddedBy(u.table, h.body[j]) BY <1>2, <1>3, AddedAre
<1> QED BY <1>2, <1>4, <1>5 DEF Touched

LEMMA TouchedEnds ==
  ASSUME NEW u, u \in Units, NEW h, h \in u.fns, NEW k, k \in DOMAIN h.params
  PROVE  /\ ~Touched(u, h, 1, k)
         /\ Touched(u, h, Len(h.body) + 1, k) <=> Risky(u, h.name, k)
<1>1. Len(h.body) \in Nat BY StatementIs
<1>2. \A s \in Carried(u, h) : s[1] \in 1..Len(h.body) BY SuspectsBefore DEF Carried
<1>3. ~Touched(u, h, 1, k) BY <1>1, <1>2 DEF Touched
<1>4. Touched(u, h, Len(h.body) + 1, k) <=>
        \E s \in Carried(u, h) : BufferAt(h, s) = h.params[k]
  BY <1>1, <1>2 DEF Touched
<1>5. \A fn \in u.fns : fn.name = h.name => fn = h BY UnitsAssumption
<1> QED BY <1>3, <1>4, <1>5 DEF Risky

-----------------------------------------------------------------------------
(* The run: where it is, what it has counted, and that what is stale and    *)
(* what was done wrong is what the audit takes for it.                      *)

InnerKeys(u, fn, i, j) ==
  {<<fn.body[i].name, fn.body[i].args[k]>> :
     k \in {k \in DOMAIN fn.body[i].args : /\ Doubtful(u, fn, i, fn.body[i].args[k])
                                           /\ Touched(u, HelperOf(u, fn.body[i]), j, k)}}
Over(u, fns) == UNION {KeysOf(u, f) : f \in fns}
Account(u, o) ==
  Over(u, u.fns \ (o.left \cup IF o.at = 0 THEN {} ELSE {o.fn}))
    \cup (IF o.at = 0 THEN {} ELSE KeysUpTo(u, o.fn, o.at))
    \cup (IF o.inner = 0 THEN {} ELSE InnerKeys(u, o.fn, o.at, o.inner))
BadAt(fn, at, bufs) == {<<fn, at, b>> : b \in bufs}
Wrong(bad) == {KeyOfBad(e) : e \in bad}
Told(u, e) == KeyOfBad(e) \in ReportedKeys(u) \/ Overlooked(u, e)

LEMMA WrongGoes ==
  ASSUME NEW bad, NEW fn, NEW at, NEW bufs
  PROVE  Wrong(bad \cup BadAt(fn, at, bufs)) = Wrong(bad) \cup Marked(fn.body[at].name, bufs)
<1>1. \A b : KeyOfBad(<<fn, at, b>>) = <<fn.body[at].name, b>> BY DEF KeyOfBad
<1> QED BY <1>1 DEF Wrong, BadAt, Marked

Inside(u, o) == HelperOf(u, o.fn.body[o.at])
RunShape(u, o) ==
  /\ o = [left |-> o.left, fn |-> o.fn, at |-> o.at, inner |-> o.inner,
          stale |-> o.stale, bad |-> o.bad]
  /\ o.left \subseteq u.fns /\ o.at \in Nat /\ o.inner \in Nat
  /\ o.at = 0 => o.inner = 0
  /\ o.at > 0 => o.fn \in u.fns \ o.left /\ o.at <= Len(o.fn.body) + 1
  /\ o.inner > 0 => /\ o.at <= Len(o.fn.body) /\ o.fn.body[o.at].op = "call"
                    /\ o.inner <= Len(Inside(u, o).body) + 1
Feared(u, o) ==
  o.at > 0 => \A b \in o.stale : Hidden(u, o.fn, b) \/ Doubtful(u, o.fn, o.at, b)
FearedInside(u, o) ==
  o.inner > 0 => \A k \in DOMAIN o.fn.body[o.at].args :
    o.fn.body[o.at].args[k] \in o.stale =>
      \/ Hidden(u, o.fn, o.fn.body[o.at].args[k])
      \/ Misread(u, Inside(u, o), Inside(u, o).params[k])
      \/ ~Initialised(u, Inside(u, o), o.inner, Inside(u, o).params[k])
Seen(u, o) == Feared(u, o) /\ FearedInside(u, o) /\ \A e \in o.bad : Told(u, e)
Nothing(u, o) ==
  Trusted(u) =>
    /\ o.at > 0 => \A b : Doubtful(u, o.fn, o.at, b) => b \in o.stale
    /\ Account(u, o) \subseteq Wrong(o.bad)
RunInv(u, o) == RunShape(u, o) /\ Seen(u, o) /\ Nothing(u, o)

LEMMA UnitLoaded ==
  ASSUME NEW u, u \in Units, NEW o,
         o = [left |-> u.fns, fn |-> None, at |-> 0, inner |-> 0, stale |-> {}, bad |-> {}]
  PROVE  RunInv(u, o)
<1>1. RunShape(u, o) BY DEF RunShape
<1>2. Account(u, o) = {}
  <2>1. u.fns \ (u.fns \cup {}) = {} OBVIOUS
  <2>2. Over(u, {}) = {} BY DEF Over
  <2> QED BY <2>1, <2>2 DEF Account
<1> QED BY <1>1, <1>2 DEF RunInv, Seen, Feared, FearedInside, Nothing

LEMMA KeysEnd ==
  ASSUME NEW u, u \in Units, NEW fn, fn \in u.fns
  PROVE  /\ KeysUpTo(u, fn, 1) = {}
         /\ KeysUpTo(u, fn, Len(fn.body) + 1) = KeysOf(u, fn)
<1>1. Len(fn.body) \in Nat BY StatementIs
<1>2. \A s \in SitesOfFn(u, fn) : s[1] < Len(fn.body) + 1 /\ ~(s[1] < 1) BY <1>1, SitesBefore
<1> QED BY <1>2 DEF KeysUpTo, KeysOf, SitesOfFn

LEMMA FunctionBegun ==
  ASSUME NEW u, u \in Units, NEW o, RunInv(u, o), o.at = 0, NEW f, f \in o.left, NEW o2,
         o2 = [left |-> o.left \ {f}, fn |-> f, at |-> 1, inner |-> o.inner,
               stale |-> {}, bad |-> o.bad]
  PROVE  RunInv(u, o2)
<1>0. RunShape(u, o) BY DEF RunInv
<1>1. f \in u.fns /\ o.inner = 0 BY <1>0 DEF RunShape
<1>2. RunShape(u, o2)
  <2>1. Len(f.body) \in Nat BY <1>1, StatementIs
  <2> QED BY <1>0, <1>1, <2>1 DEF RunShape
<1>3. Account(u, o2) = Account(u, o)
  <2>1. u.fns \ ((o.left \ {f}) \cup {f}) = u.fns \ (o.left \cup {}) OBVIOUS
  <2>2. KeysUpTo(u, f, 1) = {} BY <1>1, KeysEnd
  <2> QED BY <1>1, <2>1, <2>2 DEF Account
<1>4. \A b : ~Doubtful(u, f, 1, b) BY SearchStarts DEF Doubtful
<1> QED BY <1>1, <1>2, <1>3, <1>4 DEF RunInv, Seen, Feared, FearedInside, Nothing

LEMMA FunctionEnded ==
  ASSUME NEW u, u \in Units, NEW o, RunInv(u, o), o.at > 0, o.at > Len(o.fn.body), NEW o2,
         o2 = [left |-> o.left, fn |-> o.fn, at |-> 0, inner |-> o.inner,
               stale |-> o.stale, bad |-> o.bad]
  PROVE  RunInv(u, o2)
<1>0. RunShape(u, o) BY DEF RunInv
<1>1. o.fn \in u.fns \ o.left BY <1>0 DEF RunShape
<1>2. Len(o.fn.body) \in Nat BY <1>1, StatementIs
<1>3. o.inner = 0 /\ o.at = Len(o.fn.body) + 1 BY <1>0, <1>2 DEF RunShape
<1>4. RunShape(u, o2) BY <1>0, <1>3 DEF RunShape
<1>5. Account(u, o2) = Account(u, o)
  <2>1. KeysUpTo(u, o.fn, o.at) = KeysOf(u, o.fn) BY <1>1, <1>3, KeysEnd
  <2>2. Over(u, u.fns \ (o.left \cup {})) =
          Over(u, u.fns \ (o.left \cup {o.fn})) \cup KeysOf(u, o.fn)
    BY <1>1 DEF Over
  <2> QED BY <1>3, <2>1, <2>2 DEF Account
<1> QED BY <1>3, <1>4, <1>5 DEF RunInv, Seen, Feared, FearedInside, Nothing

LEMMA StatementRun ==
  ASSUME NEW u, u \in Units, NEW o, RunInv(u, o), o.at > 0, o.at <= Len(o.fn.body), o.inner = 0,
         NEW s, s = o.fn.body[o.at], s.op # "call", NEW o2,
         o2 = [left |-> o.left, fn |-> o.fn, at |-> o.at + 1, inner |-> o.inner,
               stale |-> (o.stale \cup ResizedBy(s)) \ SetBy(u.table, s),
               bad |-> o.bad \cup BadAt(o.fn, o.at, AddedBy(u.table, s) \cap o.stale)]
  PROVE  RunInv(u, o2)
<1>0. RunShape(u, o) BY DEF RunInv
<1>1. o.fn \in u.fns \ o.left BY <1>0 DEF RunShape
<1>2. Len(o.fn.body) \in Nat BY <1>1, StatementIs
<1>3. o.at \in 1..Len(o.fn.body) /\ o.at + 1 > 0 /\ o.at + 1 # 0 /\ o.at # 0
  BY <1>0, <1>2 DEF RunShape
<1>4. RunShape(u, o2) BY <1>0, <1>3 DEF RunShape
<1> DEFINE Added == Marked(s.name, DoubtfullyAdded(u, o.fn, o.at))
           P == Over(u, u.fns \ (o.left \cup {o.fn}))
<1>5. KeysUpTo(u, o.fn, o.at + 1) = KeysUpTo(u, o.fn, o.at) \cup Added
  BY <1>1, <1>3, KeysGo, StatementKeys
<1>6. Account(u, o) = P \cup KeysUpTo(u, o.fn, o.at) BY <1>3 DEF Account
<1>7. Account(u, o2) = P \cup KeysUpTo(u, o.fn, o.at + 1) BY <1>3 DEF Account
<1>8. Account(u, o2) = Account(u, o) \cup Added BY <1>5, <1>6, <1>7
<1>9. Feared(u, o2)
  <2>1. \A b \in o.stale : Hidden(u, o.fn, b) \/ Doubtful(u, o.fn, o.at, b)
    BY DEF RunInv, Seen, Feared
  <2>2. ASSUME NEW b \in o2.stale PROVE Hidden(u, o.fn, b) \/ Doubtful(u, o.fn, o.at + 1, b)
    <3>1. (b \in o.stale \/ b \in ResizedBy(s)) /\ b \notin SetBy(u.table, s) BY <2>2
    <3>2. (Doubtful(u, o.fn, o.at, b) \/ b \in ResizedBy(s)) /\ b \notin SetBy(u.table, s) =>
              Doubtful(u, o.fn, o.at + 1, b) \/ Misread(u, o.fn, b) \/ Undone(u, o.fn, b)
      BY <1>1, <1>3, DoubtGoes
    <3> QED BY <2>1, <3>1, <3>2 DEF Hidden
  <2> QED BY <2>2 DEF Feared
<1>10. Seen(u, o2)
  <2>1. FearedInside(u, o2)
    <3>1. ~(o2.inner > 0) BY <1>0 DEF RunShape
    <3> QED BY <3>1 DEF FearedInside
  <2>2. ASSUME NEW b, b \in AddedBy(u.table, s), b \in o.stale
        PROVE  Told(u, <<o.fn, o.at, b>>)
    <3> DEFINE e == <<o.fn, o.at, b>>
    <3>1. e[1] = o.fn /\ e[2] = o.at /\ e[3] = b /\ KeyOfBad(e) = <<s.name, b>> BY DEF KeyOfBad
    <3>2. CASE Hidden(u, o.fn, b)
      <4>1. Overlooked(u, e) BY <3>1, <3>2 DEF Overlooked
      <4> QED BY <4>1 DEF Told
    <3>3. CASE Doubtful(u, o.fn, o.at, b)
      <4>1. <<s.name, b>> \in Added BY <2>2, <3>3 DEF Marked, DoubtfullyAdded
      <4>2. Added = KeysAt(u, o.fn, o.at) BY <1>1, <1>3, StatementKeys
      <4>3. KeysAt(u, o.fn, o.at) \subseteq ReportedKeys(u)
        BY <1>1 DEF KeysAt, ReportedKeys, KeysOf, SitesOfFn
      <4>4. <<s.name, b>> \in ReportedKeys(u) BY <4>1, <4>2, <4>3
      <4> QED BY <3>1, <4>4 DEF Told
    <3> QED BY <2>2, <3>2, <3>3 DEF RunInv, Seen, Feared
  <2>3. \A e \in o2.bad : Told(u, e)
    <3>1. \A e \in o.bad : Told(u, e) BY DEF RunInv, Seen
    <3> QED BY <2>2, <3>1 DEF BadAt
  <2> QED BY <1>9, <2>1, <2>3 DEF Seen
<1>11. Nothing(u, o2)
  <2> SUFFICES ASSUME Trusted(u)
               PROVE  /\ \A b : Doubtful(u, o2.fn, o2.at, b) => b \in o2.stale
                      /\ Account(u, o2) \subseteq Wrong(o2.bad)
    BY DEF Nothing
  <2>1. \A b : Doubtful(u, o.fn, o.at, b) => b \in o.stale BY DEF RunInv, Nothing
  <2>2. Account(u, o) \subseteq Wrong(o.bad) BY DEF RunInv, Nothing
  <2>3. ASSUME NEW b, Doubtful(u, o.fn, o.at + 1, b) PROVE b \in o2.stale
    <3>1. Spelled(u, o.fn) BY <1>1 DEF Trusted
    <3>2. (Doubtful(u, o.fn, o.at, b) \/ b \in ResizedBy(s)) /\ b \notin SetBy(u.table, s)
      BY <1>1, <1>3, <2>3, <3>1, DoubtGoes
    <3> QED BY <2>1, <3>2
  <2>4. Added \subseteq Marked(s.name, AddedBy(u.table, s) \cap o.stale)
    BY <2>1 DEF Marked, DoubtfullyAdded
  <2>5. Wrong(o2.bad) = Wrong(o.bad) \cup Marked(s.name, AddedBy(u.table, s) \cap o.stale)
    <3> DEFINE bufs == AddedBy(u.table, s) \cap o.stale
    <3>1. o2.bad = o.bad \cup BadAt(o.fn, o.at, bufs) OBVIOUS
    <3> HIDE DEF bufs
    <3>2. Wrong(o.bad \cup BadAt(o.fn, o.at, bufs)) = Wrong(o.bad) \cup Marked(o.fn.body[o.at].name, bufs)
      BY ONLY WrongGoes
    <3> QED BY <3>1, <3>2 DEF bufs
  <2>6. Account(u, o2) \subseteq Wrong(o2.bad) BY <1>8, <2>2, <2>4, <2>5
  <2> QED BY <2>3, <2>6
<1> QED BY <1>4, <1>10, <1>11 DEF RunInv

LEMMA HelperEntered ==
  ASSUME NEW u, u \in Units, NEW o, RunInv(u, o), o.at > 0, o.at <= Len(o.fn.body), o.inner = 0,
         o.fn.body[o.at].op = "call", NEW o2,
         o2 = [left |-> o.left, fn |-> o.fn, at |-> o.at, inner |-> 1,
               stale |-> o.stale, bad |-> o.bad]
  PROVE  RunInv(u, o2)
<1>0. RunShape(u, o) BY DEF RunInv
<1>1. o.fn \in u.fns BY <1>0 DEF RunShape
<1>2. Len(o.fn.body) \in Nat BY <1>1, StatementIs
<1>3. o.at \in 1..Len(o.fn.body) BY <1>0, <1>2 DEF RunShape
<1> DEFINE h == HelperOf(u, o.fn.body[o.at])
<1>4. h \in u.fns /\ DOMAIN o.fn.body[o.at].args = DOMAIN h.params BY <1>1, <1>3, HelperIs
<1>5. Len(h.body) \in Nat BY <1>4, StatementIs
<1>6. RunShape(u, o2) BY <1>0, <1>5 DEF RunShape, Inside
<1>7. InnerKeys(u, o.fn, o.at, 1) = {} BY <1>4, TouchedEnds DEF InnerKeys
<1>8. Account(u, o2) = Account(u, o) BY <1>3, <1>7 DEF Account
<1>9. \A b : ~Initialised(u, h, 1, b) BY SearchStarts
<1>10. Nothing(u, o2) BY <1>3, <1>8 DEF RunInv, Nothing
<1>11. Seen(u, o2) BY <1>9 DEF RunInv, Seen, Feared, FearedInside, Inside
<1> QED BY <1>6, <1>10, <1>11 DEF RunInv

LEMMA HelperLeft ==
  ASSUME NEW u, u \in Units, NEW o, RunInv(u, o), o.at > 0, o.inner > 0,
         o.inner > Len(Inside(u, o).body), NEW o2,
         o2 = [left |-> o.left, fn |-> o.fn, at |-> o.at + 1, inner |-> 0,
               stale |-> o.stale, bad |-> o.bad]
  PROVE  RunInv(u, o2)
<1>0. RunShape(u, o) BY DEF RunInv
<1>1. o.fn \in u.fns \ o.left /\ o.fn.body[o.at].op = "call" BY <1>0 DEF RunShape
<1>2. Len(o.fn.body) \in Nat BY <1>1, StatementIs
<1>3. o.at \in 1..Len(o.fn.body) /\ o.at + 1 # 0 /\ o.at # 0 /\ o.inner # 0
  BY <1>0, <1>2 DEF RunShape
<1> DEFINE s == o.fn.body[o.at]
           h == HelperOf(u, s)
           P == Over(u, u.fns \ (o.left \cup {o.fn}))
<1>4. h \in u.fns /\ h.name = s.name /\ DOMAIN s.args = DOMAIN h.params BY <1>1, <1>3, HelperIs
<1>5. Len(h.body) \in Nat BY <1>4, StatementIs
<1>6. o.inner = Len(h.body) + 1 BY <1>0, <1>5 DEF RunShape, Inside
<1>7. RunShape(u, o2) BY <1>0, <1>3 DEF RunShape
<1>8. InnerKeys(u, o.fn, o.at, o.inner) =
        KeysAt(u, o.fn, o.at)
  <2>1. \A k \in DOMAIN s.args : Touched(u, h, o.inner, k) <=> Risky(u, s.name, k)
    BY <1>4, <1>6, TouchedEnds
  <2>2. ASSUME NEW key
        PROVE  key \in InnerKeys(u, o.fn, o.at, o.inner) <=>
                 \E k \in DOMAIN s.args : /\ key = <<s.name, s.args[k]>>
                                          /\ Doubtful(u, o.fn, o.at, s.args[k])
                                          /\ Risky(u, s.name, k)
    BY <2>1 DEF InnerKeys
  <2>3. ASSUME NEW key
        PROVE  key \in KeysAt(u, o.fn, o.at) <=>
                 \E k \in DOMAIN s.args : /\ key = <<s.name, s.args[k]>>
                                          /\ Doubtful(u, o.fn, o.at, s.args[k])
                                          /\ Risky(u, s.name, k)
    BY <1>1, <1>3, CallKeys DEF RiskyKey
  <2> HIDE DEF s
  <2> QED BY <2>2, <2>3
<1>9. Account(u, o2) = Account(u, o)
  <2>1. KeysUpTo(u, o.fn, o.at + 1) = KeysUpTo(u, o.fn, o.at) \cup InnerKeys(u, o.fn, o.at, o.inner)
    BY <1>1, <1>3, <1>8, KeysGo
  <2> QED BY <1>3, <2>1 DEF Account
<1>10. \A b : Doubtful(u, o.fn, o.at + 1, b) <=> Doubtful(u, o.fn, o.at, b)
  <2>1. \A b : ~ResizeFound(u, s, b) /\ ~Initialises(u, s, b)
    BY <1>1 DEF ResizeFound, Initialises
  <2>2. ASSUME NEW b PROVE Doubtful(u, o.fn, o.at + 1, b) <=> Doubtful(u, o.fn, o.at, b)
    BY <1>1, <1>3, <2>1, SearchGoes DEF Doubtful
  <2> QED BY <2>2
<1>11. Nothing(u, o2) BY <1>3, <1>9, <1>10 DEF RunInv, Nothing
<1>12. Seen(u, o2) BY <1>3, <1>10 DEF RunInv, Seen, Feared, FearedInside
<1> QED BY <1>7, <1>11, <1>12 DEF RunInv

HandedOn(u, o, X) ==
  {o.fn.body[o.at].args[k] : k \in {k \in DOMAIN Inside(u, o).params : Inside(u, o).params[k] \in X}}

LEMMA InnerRun ==
  ASSUME NEW u, u \in Units, NEW o, RunInv(u, o), o.at > 0, o.inner > 0,
         o.inner <= Len(Inside(u, o).body), NEW t, t = Inside(u, o).body[o.inner], NEW o2,
         o2 = [left |-> o.left, fn |-> o.fn, at |-> o.at, inner |-> o.inner + 1,
               stale |-> (o.stale \cup HandedOn(u, o, ResizedBy(t))) \ HandedOn(u, o, SetBy(u.table, t)),
               bad |-> o.bad \cup BadAt(o.fn, o.at, HandedOn(u, o, AddedBy(u.table, t)) \cap o.stale)]
  PROVE  RunInv(u, o2)
<1> DEFINE s == o.fn.body[o.at]
           h == Inside(u, o)
           resized == HandedOn(u, o, ResizedBy(t))
           set == HandedOn(u, o, SetBy(u.table, t))
           added == HandedOn(u, o, AddedBy(u.table, t))
<1>a. /\ \A b : b \in resized <=>
           \E k \in DOMAIN h.params : s.args[k] = b /\ h.params[k] \in ResizedBy(t)
      /\ \A b : b \in set <=>
           \E k \in DOMAIN h.params : s.args[k] = b /\ h.params[k] \in SetBy(u.table, t)
      /\ \A b : b \in added <=>
           \E k \in DOMAIN h.params : s.args[k] = b /\ h.params[k] \in AddedBy(u.table, t)
  BY DEF HandedOn
<1>b. /\ o2.stale = (o.stale \cup resized) \ set
      /\ o2.bad = o.bad \cup BadAt(o.fn, o.at, added \cap o.stale)
      /\ o2.left = o.left /\ o2.fn = o.fn /\ o2.at = o.at /\ o2.inner = o.inner + 1
  OBVIOUS
<1> HIDE DEF resized, set, added
<1>0. RunShape(u, o) BY DEF RunInv
<1>1. o.fn \in u.fns \ o.left /\ s.op = "call" BY <1>0 DEF RunShape
<1>2. Len(o.fn.body) \in Nat BY <1>1, StatementIs
<1>3. o.at \in 1..Len(o.fn.body) /\ o.at # 0 BY <1>0, <1>2 DEF RunShape
<1>4. h \in u.fns /\ h.name = s.name /\ DOMAIN s.args = DOMAIN h.params /\ Called(u, h)
  <2>1. o.fn \in u.fns /\ o.fn.body[o.at].op = "call" BY <1>1
  <2>2. /\ HelperOf(u, s) \in u.fns /\ HelperOf(u, s).name = s.name
        /\ DOMAIN s.args = DOMAIN HelperOf(u, s).params /\ Called(u, HelperOf(u, s))
    BY ONLY u \in Units, <1>3, <2>1, HelperIs
  <2> QED BY <2>2 DEF Inside
<1>5. Len(h.body) \in Nat /\ DOMAIN h.body = 1..Len(h.body) BY <1>4, StatementIs
<1>6. o.inner \in 1..Len(h.body) /\ o.inner + 1 # 0 BY <1>0, <1>5 DEF RunShape
<1>7. RunShape(u, o2) BY <1>0, <1>6 DEF RunShape, Inside
<1> DEFINE P == Over(u, u.fns \ (o.left \cup {o.fn})) \cup KeysUpTo(u, o.fn, o.at)
           D(k) == Doubtful(u, o.fn, o.at, s.args[k])
           I(j, k) == Initialised(u, h, j, h.params[k])
<1>8. Account(u, o) = P \cup InnerKeys(u, o.fn, o.at, o.inner)
  BY <1>3 DEF Account
<1>9. Account(u, o2) = P \cup InnerKeys(u, o.fn, o.at, o.inner + 1)
  BY <1>3, <1>6 DEF Account
<1>10. ASSUME NEW j
       PROVE  \A key : key \in InnerKeys(u, o.fn, o.at, j) <=>
                \E k \in DOMAIN s.args : key = <<s.name, s.args[k]>> /\ D(k) /\ Touched(u, h, j, k)
  BY DEF InnerKeys, Inside
<1>11. ASSUME NEW k, k \in DOMAIN s.args
       PROVE  /\ I(o.inner + 1, k) <=> I(o.inner, k) \/ Initialises(u, t, h.params[k])
              /\ Touched(u, h, o.inner + 1, k) =>
                   Touched(u, h, o.inner, k) \/ h.params[k] \in AddedBy(u.table, t)
  <2>1. k \in DOMAIN h.params BY <1>4, <1>11
  <2>2. I(o.inner + 1, k) <=> I(o.inner, k) \/ Initialises(u, t, h.params[k])
    BY <1>4, <1>6, SearchGoes
  <2> QED BY <1>4, <1>6, <2>1, <2>2, TouchedGoes
<1>12. ASSUME NEW b, b \in resized PROVE Hidden(u, o.fn, b)
  <2>1. PICK k \in DOMAIN h.params : s.args[k] = b /\ h.params[k] \in ResizedBy(t) BY <1>a, <1>12
  <2>2. Resizes(h, h.params[k]) BY <1>5, <1>6, <2>1 DEF Resizes
  <2>3. o.at \in DOMAIN o.fn.body BY <1>1, <1>3, StatementIs
  <2>4. ResizedAway(u, o.fn, b) BY <1>1, <1>4, <2>1, <2>2, <2>3 DEF ResizedAway, Inside
  <2> QED BY <2>4 DEF Hidden
<1>13. /\ \A b \in o.stale : Hidden(u, o.fn, b) \/ Doubtful(u, o.fn, o.at, b)
       /\ \A k \in DOMAIN s.args : s.args[k] \in o.stale =>
            Hidden(u, o.fn, s.args[k]) \/ Misread(u, h, h.params[k]) \/ ~I(o.inner, k)
  <2>1. \A b \in o.stale : Hidden(u, o.fn, b) \/ Doubtful(u, o.fn, o.at, b)
    BY DEF RunInv, Seen, Feared
  <2>2. \A k \in DOMAIN s.args : s.args[k] \in o.stale =>
            Hidden(u, o.fn, s.args[k]) \/ Misread(u, h, h.params[k]) \/ ~I(o.inner, k)
    BY DEF RunInv, Seen, FearedInside
  <2> QED BY <2>1, <2>2
<1>i. \A k : I(o.inner, k) <=> Initialised(u, h, o.inner, h.params[k]) OBVIOUS
<1>d. \A k : D(k) <=> Doubtful(u, o.fn, o.at, s.args[k]) OBVIOUS
<1>14. \A e \in o2.bad : Told(u, e)
  <2>1. ASSUME NEW b, b \in added, b \in o.stale PROVE Told(u, <<o.fn, o.at, b>>)
    <3> DEFINE e == <<o.fn, o.at, b>>
    <3>1. e[1] = o.fn /\ e[2] = o.at /\ e[3] = b /\ KeyOfBad(e) = <<s.name, b>> BY DEF KeyOfBad
    <3>2. PICK k \in DOMAIN h.params : s.args[k] = b /\ h.params[k] \in AddedBy(u.table, t)
      BY <1>a, <2>1
    <3>3. k \in DOMAIN s.args BY <1>4
    <3>4. CASE \/ Hidden(u, o.fn, b)
               \/ Misread(u, h, h.params[k]) \/ Misspelled(u, h, h.params[k])
      <4>1. Overlooked(u, e) BY <1>1, <3>1, <3>2, <3>3, <3>4 DEF Overlooked, Inside
      <4> QED BY <4>1 DEF Told
    <3>5. CASE /\ ~Hidden(u, o.fn, b)
               /\ ~Misread(u, h, h.params[k]) /\ ~Misspelled(u, h, h.params[k])
      <4>1. Doubtful(u, o.fn, o.at, s.args[k]) /\ ~Initialised(u, h, o.inner, h.params[k])
        BY <1>13, <2>1, <3>2, <3>3, <3>5
      <4>2. ~ResizedIn(u, h, o.inner, h.params[k])
        <5> SUFFICES ASSUME ResizedIn(u, h, o.inner, h.params[k]) PROVE FALSE
          OBVIOUS
        <5>1. o.inner \in 1..(Len(h.body) + 1) BY <1>5, <1>6
        <5>2. PICK j \in DOMAIN h.body : ResizeFound(u, h.body[j], h.params[k])
          BY <1>4, <5>1, SearchFinds
        <5>3. h.params[k] \in ResizedBy(h.body[j]) BY <3>5, <5>2 DEF Misspelled, ResizeFound
        <5>4. Resizes(h, h.params[k]) BY <5>3 DEF Resizes
        <5>5. o.at \in DOMAIN o.fn.body BY <1>1, <1>3, StatementIs
        <5>6. ResizedAway(u, o.fn, b) BY <1>1, <3>2, <3>3, <5>4, <5>5 DEF ResizedAway, Inside
        <5> QED BY <3>5, <5>6 DEF Hidden
      <4>3. PICK q \in Suspects(u, h) : q[1] = o.inner /\ BufferAt(h, q) = h.params[k]
        BY <1>4, <1>6, <3>2, <4>1, AddedAre
      <4>4. q \in Carried(u, h) BY <4>2, <4>3 DEF Carried, Hits
      <4>5. Risky(u, s.name, k) BY <1>4, <3>2, <4>3, <4>4 DEF Risky
      <4>6. RiskyKey(u, o.fn, o.at, <<s.name, b>>) BY <3>2, <3>3, <4>1, <4>5 DEF RiskyKey
      <4>7. <<s.name, b>> \in KeysAt(u, o.fn, o.at)
        <5>1. o.fn \in u.fns /\ o.fn.body[o.at].op = "call" BY <1>1
        <5> HIDE DEF s
        <5> QED BY <1>3, <4>6, <5>1, CallKeys
      <4>8. KeysAt(u, o.fn, o.at) \subseteq ReportedKeys(u)
        BY <1>1 DEF KeysAt, ReportedKeys, KeysOf, SitesOfFn
      <4>9. <<s.name, b>> \in ReportedKeys(u) BY <4>7, <4>8
      <4> QED BY <3>1, <4>9 DEF Told
    <3> QED BY <3>4, <3>5
  <2>2. \A e \in o.bad : Told(u, e) BY DEF RunInv, Seen
  <2> QED BY <1>b, <2>1, <2>2 DEF BadAt
<1> HIDE DEF D, I, P
<1>15. Seen(u, o2)
  <2>1. Inside(u, o2) = h /\ o2.fn.body[o2.at] = s /\ o2.inner = o.inner + 1 BY DEF Inside
  <2>2. \A b \in o2.stale : b \in resized \/ b \in o.stale BY <1>b
  <2>3. \A b \in o2.stale : Hidden(u, o.fn, b) \/ Doubtful(u, o.fn, o.at, b)
    BY <1>12, <1>13, <2>2
  <2>4. Feared(u, o2) BY <1>b, <2>3 DEF Feared
  <2>5. ASSUME NEW k, k \in DOMAIN s.args, s.args[k] \in o2.stale,
               ~Hidden(u, o.fn, s.args[k]), ~Misread(u, h, h.params[k])
        PROVE  ~I(o.inner + 1, k)
    <3>1. s.args[k] \in o.stale /\ s.args[k] \notin set BY <1>12, <1>b, <2>2, <2>5
    <3>2. h.params[k] \notin SetBy(u.table, t) BY <1>a, <1>4, <2>5, <3>1
    <3>3. ~Initialises(u, t, h.params[k]) BY <1>5, <1>6, <2>5, <3>2 DEF Misread
    <3>4. ~I(o.inner, k) BY <1>13, <2>5, <3>1
    <3> QED BY <1>11, <2>5, <3>3, <3>4
  <2>6. \A k \in DOMAIN s.args : s.args[k] \in o2.stale =>
          \/ Hidden(u, o.fn, s.args[k]) \/ Misread(u, h, h.params[k])
          \/ ~Initialised(u, h, o.inner + 1, h.params[k])
    BY <2>5 DEF I
  <2>7. FearedInside(u, o2) BY ONLY <1>b, <2>1, <2>6 DEF FearedInside
  <2> QED BY <1>14, <2>4, <2>7 DEF Seen
<1>16. Nothing(u, o2)
  <2> SUFFICES ASSUME Trusted(u)
               PROVE  /\ \A b : Doubtful(u, o2.fn, o2.at, b) => b \in o2.stale
                      /\ Account(u, o2) \subseteq Wrong(o2.bad)
    BY DEF Nothing
  <2>1. \A b : Doubtful(u, o.fn, o.at, b) => b \in o.stale BY DEF RunInv, Nothing
  <2>2. Account(u, o) \subseteq Wrong(o.bad) BY DEF RunInv, Nothing
  <2>3. Leaves(u, h) BY <1>4 DEF Trusted
  <2>4. set = {}
    <3>1. ASSUME NEW k, k \in DOMAIN h.params PROVE h.params[k] \notin SetBy(u.table, t)
      <4>1. ~Initialises(u, t, h.params[k]) BY <1>5, <1>6, <2>3, <3>1 DEF Leaves
      <4> QED BY <1>4, <1>6, <4>1, WrittenIsFound
    <3> QED BY <1>a, <3>1
  <2>5. \A b : Doubtful(u, o2.fn, o2.at, b) => b \in o2.stale BY <1>b, <2>1, <2>4
  <2>6. ASSUME NEW key, key \in InnerKeys(u, o.fn, o.at, o.inner + 1)
        PROVE  key \in InnerKeys(u, o.fn, o.at, o.inner) \/ key \in Marked(s.name, added \cap o.stale)
    <3>1. PICK k \in DOMAIN s.args :
            key = <<s.name, s.args[k]>> /\ D(k) /\ Touched(u, h, o.inner + 1, k)
      BY <1>10, <2>6
    <3>2. CASE Touched(u, h, o.inner, k) BY <1>10, <3>1, <3>2
    <3>3. CASE h.params[k] \in AddedBy(u.table, t)
      <4>1. s.args[k] \in added /\ s.args[k] \in o.stale BY <1>a, <1>4, <1>d, <2>1, <3>1, <3>3
      <4> QED BY <3>1, <4>1 DEF Marked
    <3> QED BY <1>11, <3>1, <3>2, <3>3
  <2>7. Wrong(o2.bad) = Wrong(o.bad) \cup Marked(s.name, added \cap o.stale)
    <3> DEFINE bufs == added \cap o.stale
    <3>1. o2.bad = o.bad \cup BadAt(o.fn, o.at, bufs) BY <1>b
    <3> HIDE DEF bufs
    <3>2. Wrong(o.bad \cup BadAt(o.fn, o.at, bufs)) = Wrong(o.bad) \cup Marked(o.fn.body[o.at].name, bufs)
      BY ONLY WrongGoes
    <3> QED BY <3>1, <3>2 DEF bufs
  <2>8. Account(u, o2) \subseteq Wrong(o2.bad) BY <1>8, <1>9, <2>2, <2>6, <2>7
  <2> QED BY <2>5, <2>8
<1> QED BY <1>7, <1>15, <1>16 DEF RunInv

LEMMA UnitStep ==
  ASSUME in.tool = "resize", in.unit \in Units, RunInv(in.unit, out), RunUnit
  PROVE  in' = in /\ RunInv(in.unit, out')
<1> DEFINE u == in.unit
           s == out.fn.body[out.at]
<1>1. /\ out = [left |-> out.left, fn |-> out.fn, at |-> out.at, inner |-> out.inner,
                stale |-> out.stale, bad |-> out.bad]
      /\ out.at \in Nat /\ out.inner \in Nat
  BY DEF RunInv, RunShape
<1>2. Statement = s /\ Callee = HelperOf(u, s) /\ Inside(u, out) = HelperOf(u, s)
  BY DEF Statement, Callee, Inside
<1>3. CASE BeginFunction
  <2>1. PICK f \in out.left : out' = [out EXCEPT !.fn = f, !.left = @ \ {f}, !.at = 1, !.stale = {}]
    BY <1>3 DEF BeginFunction
  <2>2. out' = [left |-> out.left \ {f}, fn |-> f, at |-> 1, inner |-> out.inner,
                stale |-> {}, bad |-> out.bad]
    BY <1>1, <2>1
  <2>3. in' = in /\ out.at = 0 BY <1>3 DEF BeginFunction
  <2> QED BY <2>2, <2>3, FunctionBegun
<1>4. CASE EndFunction
  <2>1. out' = [left |-> out.left, fn |-> out.fn, at |-> 0, inner |-> out.inner,
                stale |-> out.stale, bad |-> out.bad]
    BY <1>1, <1>4 DEF EndFunction
  <2>2. in' = in /\ out.at > 0 /\ out.at > Len(out.fn.body) BY <1>4 DEF EndFunction, Running
  <2> QED BY <2>1, <2>2, FunctionEnded
<1>5. CASE RunStatement
  <2>1. /\ in' = in /\ out.at > 0 /\ out.at <= Len(out.fn.body) /\ out.inner = 0 /\ s.op # "call"
        /\ out' = [Effect(ResizedBy(s), SetBy(u.table, s), AddedBy(u.table, s)) EXCEPT !.at = @ + 1]
    BY <1>2, <1>5 DEF RunStatement, Running
  <2>2. out' = [left |-> out.left, fn |-> out.fn, at |-> out.at + 1, inner |-> out.inner,
                stale |-> (out.stale \cup ResizedBy(s)) \ SetBy(u.table, s),
                bad |-> out.bad \cup BadAt(out.fn, out.at, AddedBy(u.table, s) \cap out.stale)]
    BY <1>1, <1>2, <2>1 DEF Effect, BadAt
  <2>3. u \in Units /\ RunInv(u, out) /\ s = out.fn.body[out.at] OBVIOUS
  <2> HIDE DEF u, s
  <2>4. RunInv(u, out') BY ONLY <2>1, <2>2, <2>3, StatementRun
  <2> QED BY <2>1, <2>4 DEF u
<1>6. CASE EnterHelper
  <2>1. out' = [left |-> out.left, fn |-> out.fn, at |-> out.at, inner |-> 1,
                stale |-> out.stale, bad |-> out.bad]
    BY <1>1, <1>6 DEF EnterHelper
  <2>2. in' = in /\ out.at > 0 /\ out.at <= Len(out.fn.body) /\ out.inner = 0 /\ s.op = "call"
    BY <1>2, <1>6 DEF EnterHelper, Running
  <2> QED BY <2>1, <2>2, HelperEntered
<1>7. CASE RunInner
  <2> DEFINE h == Callee
             t == h.body[out.inner]
  <2>1. /\ in' = in /\ out.at > 0 /\ out.inner > 0 /\ out.inner <= Len(h.body)
        /\ out' = [Effect(Handed(ResizedBy(t)), Handed(SetBy(u.table, t)), Handed(AddedBy(u.table, t)))
                     EXCEPT !.inner = @ + 1]
    BY <1>7 DEF RunInner, Running
  <2>2. out' = [left |-> out.left, fn |-> out.fn, at |-> out.at, inner |-> out.inner + 1,
                stale |-> (out.stale \cup Handed(ResizedBy(t))) \ Handed(SetBy(u.table, t)),
                bad |-> out.bad \cup
                          BadAt(out.fn, out.at, Handed(AddedBy(u.table, t)) \cap out.stale)]
    BY <1>1, <1>2, <2>1 DEF Effect, BadAt
  <2>3. ASSUME NEW X PROVE Handed(X) = HandedOn(u, out, X) BY <1>2 DEF Handed, HandedOn
  <2>4. out' = [left |-> out.left, fn |-> out.fn, at |-> out.at, inner |-> out.inner + 1,
                stale |-> (out.stale \cup HandedOn(u, out, ResizedBy(t)))
                            \ HandedOn(u, out, SetBy(u.table, t)),
                bad |-> out.bad \cup BadAt(out.fn, out.at,
                                             HandedOn(u, out, AddedBy(u.table, t)) \cap out.stale)]
    BY <2>2, <2>3
  <2>5. t = Inside(u, out).body[out.inner] /\ out.inner <= Len(Inside(u, out).body) BY <1>2, <2>1
  <2> HIDE DEF u, t, h, s
  <2>6. u \in Units /\ RunInv(u, out) BY DEF u
  <2>7. RunInv(u, out') BY <2>1, <2>4, <2>5, <2>6, InnerRun
  <2> QED BY <2>1, <2>7 DEF u
<1>8. CASE LeaveHelper
  <2>1. out' = [left |-> out.left, fn |-> out.fn, at |-> out.at + 1, inner |-> 0,
                stale |-> out.stale, bad |-> out.bad]
    BY <1>1, <1>8 DEF LeaveHelper
  <2>2. in' = in /\ out.at > 0 /\ out.inner > 0 /\ out.inner > Len(Inside(u, out).body)
    BY <1>2, <1>8 DEF LeaveHelper, Running
  <2> QED BY <2>1, <2>2, HelperLeft
<1> QED BY <1>3, <1>4, <1>5, <1>6, <1>7, <1>8 DEF RunUnit

(* All that is done wrong is told, and at the end all that is told is wrong.*)
LEMMA UnitExact ==
  ASSUME NEW u, u \in Units, NEW o, RunInv(u, o)
  PROVE  /\ \A e \in o.bad : Told(u, e)
         /\ Trusted(u) /\ o.left = {} /\ o.at = 0 => ReportedKeys(u) \subseteq Wrong(o.bad)
<1>1. ASSUME Trusted(u), o.left = {}, o.at = 0 PROVE ReportedKeys(u) \subseteq Wrong(o.bad)
  <2>1. Account(u, o) \subseteq Wrong(o.bad) BY <1>1 DEF RunInv, Nothing
  <2>2. u.fns \ ({} \cup {}) = u.fns OBVIOUS
  <2>3. ReportedKeys(u) \subseteq Account(u, o)
    BY <1>1, <2>2 DEF Account, Over, ReportedKeys
  <2> QED BY <2>1, <2>3
<1> QED BY <1>1 DEF RunInv, Seen
-----------------------------------------------------------------------------
(* make_steps.py and replay.py: the hierarchy, grid by grid, and a cycle    *)
(* through it, frame by frame.                                              *)

(* The largest value of a function on 1..k.                                 *)
LEMMA LargestValue ==
  ASSUME NEW k \in Nat, k > 0, NEW f, f \in [1..k -> Nat]
  PROVE  Max(Range(f)) \in Nat /\ \A c \in 1..k : f[c] <= Max(Range(f))
<1> DEFINE Top(j, x) == x \in 1..j /\ \A z \in 1..j : f[z] <= f[x]
           P == {j \in 0..k : j = 0 \/ \E x : Top(j, x)}
<1>1. 0 \in P OBVIOUS
<1>2. ASSUME NEW j \in 1..k, j - 1 \in P PROVE j \in P
  <2>1. f[j] \in Nat OBVIOUS
  <2>2. CASE j - 1 = 0
    <3>1. \A z \in 1..j : z = j BY <2>2
    <3>2. f[j] <= f[j] BY <2>1
    <3>3. \A z \in 1..j : f[z] <= f[j] BY <3>1, <3>2, Zenon
    <3> QED BY <3>3
  <2>3. CASE j - 1 # 0
    <3>1. PICK x : Top(j - 1, x) BY <1>2, <2>3
    <3>2. f[x] \in Nat /\ x \in 1..j BY <3>1
    <3>3. \A z \in 1..j : z = j \/ z \in 1..(j - 1) OBVIOUS
    <3>4. CASE f[x] <= f[j]
      <4>1. ASSUME NEW z \in 1..j PROVE f[z] <= f[j]
        <5>1. f[z] \in Nat OBVIOUS
        <5>2. z = j \/ f[z] <= f[x] BY <3>1, <3>3
        <5> QED BY <2>1, <3>2, <3>4, <5>1, <5>2
      <4>2. Top(j, j) BY <4>1
      <4> QED BY <4>2
    <3>5. CASE ~(f[x] <= f[j])
      <4>1. f[j] <= f[x] BY <2>1, <3>2, <3>5
      <4>2. Top(j, x) BY <3>1, <3>2, <3>3, <4>1
      <4> HIDE DEF Top
      <4> QED BY <4>2
    <3> QED BY <3>4, <3>5
  <2> QED BY <2>2, <2>3
<1>3. k \in P
  <2>1. k \in 0..k OBVIOUS
  <2> HIDE DEF P
  <2> QED BY <1>1, <1>2, <2>1, Upwards
<1>4. PICK x : Top(k, x) BY <1>3
<1>5. Range(f) = {f[c] : c \in 1..k} BY DEF Range
<1>6. f[x] \in Range(f) /\ \A v \in Range(f) : f[x] >= v
  <2>1. ASSUME NEW c \in 1..k PROVE f[x] >= f[c]
    <3>1. f[c] \in Nat /\ f[x] \in Nat BY <1>4
    <3> QED BY <1>4, <3>1
  <2> QED BY <1>4, <1>5, <2>1
<1>7. Max(Range(f)) \in Range(f) /\ \A v \in Range(f) : Max(Range(f)) >= v
  BY <1>6 DEF Max
<1>8. Max(Range(f)) \in Nat BY <1>5, <1>7
<1>9. ASSUME NEW c \in 1..k PROVE f[c] <= Max(Range(f))
  <2>1. f[c] \in Nat /\ f[c] \in Range(f) BY <1>5
  <2> QED BY <1>7, <1>8, <2>1
<1> QED BY <1>8, <1>9

(* A finite set of pairs in order: every pair has its place.                *)
LEMMA OrderedIs ==
  ASSUME NEW P, IsFiniteSet(P), P \subseteq Nat \X Nat
  PROVE  /\ Cardinality(P) \in Nat /\ DOMAIN Ordered(P) = 1..Cardinality(P)
         /\ \A i \in 1..Cardinality(P) : Ordered(P)[i] \in P
         /\ \A p \in P : \E i \in 1..Cardinality(P) : Ordered(P)[i] = p
<1> DEFINE N == Cardinality(P)
           Below(p) == {q \in P : PairLess(q, p)}
           rank == [p \in P |-> Cardinality(Below(p))]
<1>1. N \in Nat BY FS_CardinalityType
<1>2. ASSUME NEW p \in P, NEW q \in P, PairLess(p, q)
      PROVE  Cardinality(Below(p)) < Cardinality(Below(q))
  <2>1. Below(p) \subseteq Below(q)
    <3> SUFFICES ASSUME NEW x \in P, PairLess(x, p) PROVE PairLess(x, q)
      OBVIOUS
    <3>1. x \in Nat \X Nat /\ p \in Nat \X Nat /\ q \in Nat \X Nat OBVIOUS
    <3> QED BY <1>2, <3>1 DEF PairLess
  <2>2. p \in Below(q) /\ p \notin Below(p)
    <3>1. p \in Nat \X Nat OBVIOUS
    <3> QED BY <1>2, <3>1 DEF PairLess
  <2>3. IsFiniteSet(Below(q)) BY FS_Subset
  <2> HIDE DEF Below
  <2>4. /\ Cardinality(Below(p)) <= Cardinality(Below(q))
        /\ Cardinality(Below(q)) = Cardinality(Below(p)) => Below(q) = Below(p)
        /\ IsFiniteSet(Below(p))
    BY <2>1, <2>3, FS_Subset
  <2>5. Cardinality(Below(p)) \in Nat /\ Cardinality(Below(q)) \in Nat
    BY <2>3, <2>4, FS_CardinalityType
  <2> QED BY <2>2, <2>4, <2>5
<1>3. ASSUME NEW p \in P PROVE rank[p] \in 0..(N - 1)
  <2>1. p \notin Below(p)
    <3>1. p \in Nat \X Nat OBVIOUS
    <3> QED BY <3>1 DEF PairLess
  <2>2. Below(p) \in SUBSET P /\ rank[p] = Cardinality(Below(p)) OBVIOUS
  <2> HIDE DEF Below
  <2>3. /\ Cardinality(Below(p)) <= N /\ IsFiniteSet(Below(p))
        /\ N = Cardinality(Below(p)) => P = Below(p)
    BY <2>2, FS_Subset
  <2>4. Cardinality(Below(p)) \in Nat BY <2>3, FS_CardinalityType
  <2> HIDE DEF N, rank
  <2> QED BY <1>1, <2>1, <2>2, <2>3, <2>4
<1>4. ASSUME NEW p \in P, NEW q \in P, rank[p] = rank[q] PROVE p = q
  <2>1. rank[p] = Cardinality(Below(p)) /\ rank[q] = Cardinality(Below(q)) OBVIOUS
  <2>2. rank[p] \in Nat BY <1>1, <1>3
  <2>3. ~PairLess(p, q) /\ ~PairLess(q, p)
    <3>1. ~(Cardinality(Below(p)) < Cardinality(Below(q)))
          /\ ~(Cardinality(Below(q)) < Cardinality(Below(p)))
      BY <1>4, <2>1, <2>2
    <3> HIDE DEF Below
    <3> QED BY <1>2, <3>1
  <2>4. p \in Nat \X Nat /\ q \in Nat \X Nat OBVIOUS
  <2> QED BY <2>3, <2>4 DEF PairLess
<1>5. rank \in Surjection(P, 0..(N - 1))
  <2>1. rank \in Injection(P, 0..(N - 1))
    <3>1. rank \in [P -> 0..(N - 1)] BY <1>3
    <3> HIDE DEF rank
    <3> QED BY <1>4, <3>1 DEF Injection, IsInjective
  <2>2. IsFiniteSet(0..(N - 1)) /\ Cardinality(0..(N - 1)) = N
    <3>1. 0 \in Int /\ N - 1 \in Int /\ (N = 0 => 0 > N - 1) /\ (N # 0 => ~(0 > N - 1))
          /\ (N - 1) - 0 + 1 = N
      BY <1>1
    <3> QED BY <3>1, FS_Interval
  <2> HIDE DEF rank
  <2> QED BY <2>1, <2>2, FS_Injection
<1>6. ASSUME NEW i \in 1..N PROVE \E p \in P : Cardinality(Below(p)) = i - 1
  <2>1. i - 1 \in 0..(N - 1) BY <1>1
  <2>2. PICK p \in P : rank[p] = i - 1
    <3> HIDE DEF rank
    <3> QED BY <1>5, <2>1 DEF Surjection
  <2> QED BY <2>2
<1>7. ASSUME NEW i \in 1..N
      PROVE  Ordered(P)[i] \in P /\ Cardinality(Below(Ordered(P)[i])) = i - 1
  <2>1. Ordered(P)[i] = CHOOSE p \in P : Cardinality(Below(p)) = i - 1 BY DEF Ordered
  <2> HIDE DEF Below
  <2> QED BY <1>6, <2>1
<1>8. ASSUME NEW p \in P PROVE \E i \in 1..N : Ordered(P)[i] = p
  <2>1. rank[p] + 1 \in 1..N /\ (rank[p] + 1) - 1 = rank[p] BY <1>1, <1>3
  <2>2. /\ Ordered(P)[rank[p] + 1] \in P
        /\ Cardinality(Below(Ordered(P)[rank[p] + 1])) = rank[p]
    <3> HIDE DEF rank, Below, N
    <3> QED BY <1>7, <2>1
  <2>3. rank[Ordered(P)[rank[p] + 1]] = rank[p] BY <2>2
  <2>4. Ordered(P)[rank[p] + 1] = p
    <3> HIDE DEF rank, Below, N
    <3> QED BY <1>4, <2>2, <2>3
  <2> HIDE DEF rank, N
  <2> QED BY <2>1, <2>4
<1>9. DOMAIN Ordered(P) = 1..N BY DEF Ordered
<1> HIDE DEF N
<1>10. N \in Nat /\ DOMAIN Ordered(P) = 1..N /\ (\A i \in 1..N : Ordered(P)[i] \in P)
       /\ \A p \in P : \E i \in 1..N : Ordered(P)[i] = p
  BY <1>1, <1>7, <1>8, <1>9
<1> QED BY <1>10 DEF N

LEMMA MinMax ==
  ASSUME NEW a \in Nat, NEW b \in Nat
  PROVE  /\ {Min({a, b}), Max({a, b})} = {a, b}
         /\ Min({a, b}) \in Nat /\ Max({a, b}) \in Nat
<1>1. CASE a <= b
  <2>1. Min({a, b}) = a BY <1>1 DEF Min
  <2>2. Max({a, b}) = b BY <1>1 DEF Max
  <2> QED BY <2>1, <2>2
<1>2. CASE ~(a <= b)
  <2>1. Min({a, b}) = b BY <1>2 DEF Min
  <2>2. Max({a, b}) = a BY <1>2 DEF Max
  <2> QED BY <2>1, <2>2
<1> QED BY <1>1, <1>2

(* A face between two aggregates, and the pair it counts for.               *)
EndsOf(faces, map, f) == {map[faces[f].o], map[faces[f].nb]}
Parts(faces, map, f) == map[faces[f].o] # map[faces[f].nb]
IsMap(map, n, nc) == n \in Nat /\ nc \in Nat /\ map \in [1..n -> 1..nc]

LEMMA FaceIs ==
  ASSUME NEW n, NEW faces, Mesh(faces, n), NEW f, f \in DOMAIN faces
  PROVE  /\ faces[f].o \in 1..n /\ faces[f].nb \in 1..n /\ faces[f].w \in Nat
         /\ faces[f].o # faces[f].nb
<1>1. faces \in Seq([o : 1..n, nb : 1..n, w : Nat]) BY DEF Mesh
<1> DEFINE F == [o : 1..n, nb : 1..n, w : Nat]
<1>2. faces[f] \in F
  <2>1. faces \in Seq(F) BY <1>1
  <2> HIDE DEF F
  <2>2. DOMAIN faces = 1..Len(faces) BY <2>1
  <2> QED BY <2>1, <2>2
<1> QED BY <1>2 DEF Mesh

LEMMA PairsAre ==
  ASSUME NEW n, NEW faces, Mesh(faces, n), NEW map, NEW nc, IsMap(map, n, nc)
  PROVE  /\ IsFiniteSet(CoarsePairs(faces, map)) /\ CoarsePairs(faces, map) \subseteq Nat \X Nat
         /\ \A p \in CoarsePairs(faces, map) :
              /\ p[1] \in 1..nc /\ p[2] \in 1..nc /\ p[1] # p[2]
              /\ \E f \in DOMAIN faces : Parts(faces, map, f) /\ EndsOf(faces, map, f) = {p[1], p[2]}
         /\ \A f \in DOMAIN faces : Parts(faces, map, f) =>
              \E p \in CoarsePairs(faces, map) : EndsOf(faces, map, f) = {p[1], p[2]}
<1> DEFINE P == CoarsePairs(faces, map)
           Key(f) == <<Min(EndsOf(faces, map, f)), Max(EndsOf(faces, map, f))>>
<1>0. nc \in Nat BY DEF IsMap
<1>1. ASSUME NEW f \in DOMAIN faces
      PROVE  map[faces[f].o] \in 1..nc /\ map[faces[f].nb] \in 1..nc
  <2>1. faces[f].o \in 1..n /\ faces[f].nb \in 1..n BY FaceIs
  <2> QED BY <2>1 DEF IsMap
<1>2. P = {Key(f) : f \in {g \in DOMAIN faces : Parts(faces, map, g)}}
  BY DEF CoarsePairs, EndsOf, Parts
<1>3. ASSUME NEW f \in DOMAIN faces, Parts(faces, map, f)
      PROVE  /\ Key(f) \in (1..nc) \X (1..nc) /\ Key(f)[1] # Key(f)[2]
             /\ {Key(f)[1], Key(f)[2]} = EndsOf(faces, map, f)
  <2> DEFINE a == map[faces[f].o]
             b == map[faces[f].nb]
  <2>1. a \in 1..nc /\ b \in 1..nc /\ a \in Nat /\ b \in Nat /\ a # b /\ EndsOf(faces, map, f) = {a, b}
    BY <1>0, <1>1, <1>3 DEF Parts, EndsOf
  <2> HIDE DEF a, b
  <2>2. {Min({a, b}), Max({a, b})} = {a, b} BY <2>1, MinMax
  <2>3. Key(f) = <<Min({a, b}), Max({a, b})>> BY <2>1
  <2>4. Key(f)[1] = Min({a, b}) /\ Key(f)[2] = Max({a, b}) BY <2>3
  <2>5. Min({a, b}) \in 1..nc /\ Max({a, b}) \in 1..nc /\ Min({a, b}) # Max({a, b}) BY <2>1, <2>2
  <2> HIDE DEF Key
  <2> QED BY <2>1, <2>2, <2>3, <2>4, <2>5
<1>4. P \subseteq (1..nc) \X (1..nc)
  <2> HIDE DEF Key
  <2> QED BY <1>2, <1>3
<1>5. IsFiniteSet((1..nc) \X (1..nc))
  <2>1. IsFiniteSet(1..nc) BY <1>0, FS_Interval
  <2> QED BY <2>1, FS_Product
<1>6. IsFiniteSet(P) BY <1>4, <1>5, FS_Subset
<1>7. P \subseteq Nat \X Nat BY <1>0, <1>4
<1>8. ASSUME NEW p \in P
      PROVE  /\ p[1] \in 1..nc /\ p[2] \in 1..nc /\ p[1] # p[2]
             /\ \E f \in DOMAIN faces : Parts(faces, map, f) /\ EndsOf(faces, map, f) = {p[1], p[2]}
  <2> HIDE DEF Key, P
  <2>1. PICK f \in DOMAIN faces : Parts(faces, map, f) /\ p = Key(f) BY <1>2, <1>8
  <2>2. p \in (1..nc) \X (1..nc) /\ p[1] # p[2] /\ {p[1], p[2]} = EndsOf(faces, map, f) BY <1>3, <2>1
  <2> QED BY <2>1, <2>2
<1>9. ASSUME NEW f \in DOMAIN faces, Parts(faces, map, f)
      PROVE  \E p \in P : EndsOf(faces, map, f) = {p[1], p[2]}
  <2> HIDE DEF Key, P
  <2>1. Key(f) \in P BY <1>2, <1>9
  <2> QED BY <1>3, <1>9, <2>1
<1> QED BY <1>6, <1>7, <1>8, <1>9

(* The coarse grid: a mesh, with a face wherever one parts two aggregates.  *)
LEMMA CoarseMesh ==
  ASSUME NEW n, NEW faces, Mesh(faces, n), NEW map, NEW nc, IsMap(map, n, nc)
  PROVE  /\ Mesh(CoarseFaces(faces, map), nc)
         /\ \A a, b \in 1..nc : a # b =>
              (Linked(CoarseFaces(faces, map), a, b) <=>
                 \E f \in DOMAIN faces : EndsOf(faces, map, f) = {a, b})
<1> DEFINE P == CoarsePairs(faces, map)
           N == Cardinality(P)
           C == CoarseFaces(faces, map)
           W(i) == SumFunction([f \in Between(faces, map, Ordered(P)[i]) |-> faces[f].w])
<1>1. /\ IsFiniteSet(P) /\ P \subseteq Nat \X Nat
      /\ \A p \in P : /\ p[1] \in 1..nc /\ p[2] \in 1..nc /\ p[1] # p[2]
                      /\ \E f \in DOMAIN faces : Parts(faces, map, f) /\ EndsOf(faces, map, f) = {p[1], p[2]}
      /\ \A f \in DOMAIN faces : Parts(faces, map, f) =>
           \E p \in P : EndsOf(faces, map, f) = {p[1], p[2]}
  BY PairsAre, SMTT(30)
<1> HIDE DEF P
<1>2. /\ N \in Nat /\ DOMAIN Ordered(P) = 1..N
      /\ \A i \in 1..N : Ordered(P)[i] \in P
      /\ \A p \in P : \E i \in 1..N : Ordered(P)[i] = p
  BY <1>1, OrderedIs
<1> HIDE DEF N
<1>3. C = [i \in 1..N |-> [o |-> Ordered(P)[i][1], nb |-> Ordered(P)[i][2], w |-> W(i)]]
  BY <1>2 DEF CoarseFaces, P
<1>4. ASSUME NEW i \in 1..N PROVE W(i) \in Nat
  <2> DEFINE B == Between(faces, map, Ordered(P)[i])
             h == [f \in B |-> faces[f].w]
  <2>1. B \in SUBSET DOMAIN faces BY DEF Between
  <2>2. IsFiniteSet(DOMAIN faces)
    <3>1. Len(faces) \in Nat /\ DOMAIN faces = 1..Len(faces) BY DEF Mesh
    <3> QED BY <3>1, FS_Interval
  <2>3. IsFiniteSet(B) BY <2>1, <2>2, FS_Subset
  <2> HIDE DEF B
  <2>4. h \in [B -> Nat]
    <3>1. \A f \in B : faces[f].w \in Nat BY <2>1, FaceIs
    <3> QED BY <3>1
  <2> HIDE DEF h
  <2>5. SumFunction(h) \in Nat BY <2>3, <2>4, SumOfNaturals
  <2> QED BY <2>5 DEF h, B
<1> HIDE DEF W, C
<1>5. ASSUME NEW i \in 1..N
      PROVE  /\ C[i] \in [o : 1..nc, nb : 1..nc, w : Nat]
             /\ C[i].o = Ordered(P)[i][1] /\ C[i].nb = Ordered(P)[i][2] /\ C[i].o # C[i].nb
  <2>1. C[i] = [o |-> Ordered(P)[i][1], nb |-> Ordered(P)[i][2], w |-> W(i)] BY <1>3
  <2>2. Ordered(P)[i] \in P BY <1>2
  <2>3. /\ Ordered(P)[i][1] \in 1..nc /\ Ordered(P)[i][2] \in 1..nc
        /\ Ordered(P)[i][1] # Ordered(P)[i][2]
    BY <1>1, <2>2
  <2> QED BY <1>4, <2>1, <2>3
<1>6. DOMAIN C = 1..N BY <1>3
<1>7. Mesh(C, nc)
  <2> DEFINE F == [o : 1..nc, nb : 1..nc, w : Nat]
  <2>1. C \in [1..N -> F] BY <1>3, <1>5, <1>6
  <2>2. C \in Seq(F)
    <3> HIDE DEF F
    <3> QED BY <1>2, <2>1, SeqDef
  <2>3. nc \in Nat BY DEF IsMap
  <2> QED BY <1>5, <1>6, <2>2, <2>3 DEF Mesh
<1>8. ASSUME NEW a \in 1..nc, NEW b \in 1..nc, a # b
      PROVE  Linked(C, a, b) <=> \E f \in DOMAIN faces : EndsOf(faces, map, f) = {a, b}
  <2>1. ASSUME NEW i \in 1..N, {C[i].o, C[i].nb} = {a, b}
        PROVE  \E f \in DOMAIN faces : EndsOf(faces, map, f) = {a, b}
    <3>1. Ordered(P)[i] \in P BY <1>2
    <3>2. PICK f \in DOMAIN faces : EndsOf(faces, map, f) = {Ordered(P)[i][1], Ordered(P)[i][2]}
      BY <1>1, <3>1
    <3> QED BY <1>5, <2>1, <3>2
  <2>2. ASSUME NEW f \in DOMAIN faces, EndsOf(faces, map, f) = {a, b}
        PROVE  \E i \in 1..N : {C[i].o, C[i].nb} = {a, b}
    <3>1. Parts(faces, map, f) BY <1>8, <2>2 DEF EndsOf, Parts
    <3>2. PICK p \in P : EndsOf(faces, map, f) = {p[1], p[2]} BY <1>1, <3>1
    <3>3. PICK i \in 1..N : Ordered(P)[i] = p BY <1>2, <3>2
    <3> QED BY <1>5, <2>2, <3>2, <3>3
  <2> QED BY <1>6, <2>1, <2>2 DEF Linked
<1> QED BY <1>7, <1>8 DEF C

(* The map of pairwise_aggregate takes every cell to an aggregate.          *)
LEMMA AggregateMaps ==
  ASSUME NEW n, NEW faces, Mesh(faces, n), NEW agg, agg = pairwise_aggregate(faces, n)
  PROVE  IsMap(agg.map, n, agg.nc)
<1>1. Merged(faces, n, n, agg) BY AggregateIs
<1>2. agg.map \in [1..n -> Nat] /\ agg.nc \in Nat BY <1>1 DEF Merged, Merging
<1>3. \A c \in 1..n : agg.map[c] \in 1..agg.nc
  <2> TAKE c \in 1..n
  <2>1. agg.map[c] \in Nat BY <1>2
  <2>2. agg.map[c] <= agg.nc /\ agg.map[c] > 0 BY <1>1 DEF Merged, Numbered
  <2> QED BY <1>2, <2>1, <2>2
<1>4. n \in Nat BY DEF Mesh
<1>5. agg.map \in [1..n -> 1..agg.nc] BY <1>2, <1>3
<1> QED BY <1>2, <1>4, <1>5 DEF IsMap

IsSequence(s) == \E S : s \in Seq(S)
Extended(s, e) == Append(s, e)
LEMMA Appended ==
  ASSUME NEW s, IsSequence(s), NEW e
  PROVE  /\ IsSequence(Extended(s, e)) /\ Len(s) \in Nat /\ Len(Extended(s, e)) = Len(s) + 1
         /\ Extended(s, e)[Len(s) + 1] = e
         /\ \A i \in 1..Len(s) : Extended(s, e)[i] = s[i]
<1>1. PICK S : s \in Seq(S) BY DEF IsSequence
<1>2. s \in Seq(S \cup {e}) BY <1>1, SeqDef
<1>3. e \in S \cup {e} OBVIOUS
<1>4. Append(s, e) \in Seq(S \cup {e}) BY <1>2, <1>3
<1> QED BY <1>2, <1>3, <1>4 DEF IsSequence, Extended

IsLevel(l) == l.n > 0 /\ l.nc > 0 /\ IsMap(l.map, l.n, l.nc) /\ Mesh(l.faces, l.n)

(* build_levels, while it builds: the grid reached is made of the last      *)
(* level, as each level is of the one before.                               *)
BuildInv(t, o) ==
  /\ o = [at |-> "build", n |-> o.n, faces |-> o.faces, levels |-> o.levels,
          grid |-> 0, sweeps |-> 0, frames |-> <<>>]
  /\ IsSequence(o.levels) /\ Mesh(o.faces, o.n) /\ o.n > 0
  /\ t.dumped => o.n = CellsOf(t, Len(o.levels) + 1)
  /\ \A g \in 1..Len(o.levels) : IsLevel(o.levels[g]) /\ LeavesFace(o.levels[g])
  /\ \A g \in 1..(Len(o.levels) - 1) : MadeOf(o.levels[g + 1], o.levels[g])
  /\ Len(o.levels) > 0 => MadeOf(o, o.levels[Len(o.levels)])

(* And the hierarchy it leaves.                                             *)
Hierarchy(levels) ==
  /\ IsSequence(levels) /\ Len(levels) \in Nat /\ Len(levels) > 0 /\ levels[Len(levels)].nc = 0
  /\ \A g \in 1..Len(levels) : levels[g].n \in Nat
  /\ \A g \in 1..(Len(levels) - 1) : IsLevel(levels[g])
  /\ \A g \in 1..(Len(levels) - 2) : LeavesFace(levels[g]) /\ MadeOf(levels[g + 1], levels[g])
  /\ Len(levels) > 1 =>
       IF LeavesFace(levels[Len(levels) - 1])
       THEN MadeOf(levels[Len(levels)], levels[Len(levels) - 1])
       ELSE levels[Len(levels)].n = levels[Len(levels) - 1].n

LEMMA NextMapIs ==
  ASSUME NEW t, t \in Traces, NEW o, BuildInv(t, o),
         Coarsens(t, Len(o.levels) + 1, o.faces, o.n),
         NEW agg, agg = Aggregated(t, Len(o.levels) + 1, o.faces, o.n)
  PROVE  IsMap(agg.map, o.n, agg.nc) /\ agg.nc > 0
<1> DEFINE g == Len(o.levels) + 1
<1>1. o.n \in Nat /\ o.n > 0 /\ Mesh(o.faces, o.n) /\ Len(o.levels) \in Nat
  <2>1. Len(o.levels) \in Nat BY Appended DEF BuildInv
  <2> QED BY <2>1 DEF BuildInv, Mesh
<1>2. IsMap(agg.map, o.n, agg.nc)
  <2>1. CASE t.dumped
    <3>1. agg = [map |-> t.maps[g], nc |-> Max(Range(t.maps[g]))] BY <2>1 DEF Aggregated
    <3>2. g \in 1..Len(t.maps)
      <4>1. g <= Len(t.maps) BY <2>1 DEF Coarsens
      <4>2. Len(t.maps) \in Nat BY TracesAssumption
      <4> QED BY <1>1, <4>1, <4>2
    <3>3. CellsOf(t, g) = o.n BY <2>1 DEF BuildInv
    <3>4. t.maps[g] \in [1..o.n -> Nat \ {0}] BY <3>2, <3>3, TracesAssumption
    <3> DEFINE m == t.maps[g]
    <3> HIDE DEF m
    <3>5. m \in [1..o.n -> Nat] /\ \A c \in 1..o.n : m[c] \in Nat /\ m[c] # 0
      BY <3>4 DEF m
    <3>6. Max(Range(m)) \in Nat /\ \A c \in 1..o.n : m[c] <= Max(Range(m))
      BY <1>1, <3>5, LargestValue
    <3>7. m \in [1..o.n -> 1..Max(Range(m))] BY <3>5, <3>6
    <3> QED BY <1>1, <3>1, <3>6, <3>7 DEF IsMap, m
  <2>2. CASE ~t.dumped
    <3>1. agg = pairwise_aggregate(o.faces, o.n) BY <2>2 DEF Aggregated
    <3> QED BY <1>1, <3>1, AggregateMaps
  <2> QED BY <2>1, <2>2
<1>3. agg.nc > 0
  <2>1. 1 \in 1..o.n BY <1>1
  <2>2. agg.map[1] \in 1..agg.nc /\ agg.nc \in Nat BY <1>2, <2>1 DEF IsMap
  <2> QED BY <2>2
<1> QED BY <1>2, <1>3

(* The aggregates of a grid make the coarse one, if they leave a face.      *)
LEMMA Coarsened ==
  ASSUME NEW n, NEW faces, Mesh(faces, n), NEW agg, IsMap(agg.map, n, agg.nc),
         NEW l, l = Level(n, faces, agg), NEW o, o.n = agg.nc, o.faces = CoarseFaces(faces, agg.map)
  PROVE  MadeOf(o, l) /\ Mesh(o.faces, o.n)
<1> DEFINE map == agg.map
           C == CoarseFaces(faces, map)
<1>1. l.n = n /\ l.faces = faces /\ l.map = map /\ l.nc = agg.nc BY DEF Level
<1>2. Mesh(C, agg.nc) BY CoarseMesh
<1>3. ASSUME NEW a \in 1..agg.nc, NEW b \in 1..agg.nc, a # b
      PROVE  Linked(C, a, b) <=>
               \E c, d \in 1..n : map[c] = a /\ map[d] = b /\ Linked(faces, c, d)
  <2>1. Linked(C, a, b) <=> \E f \in DOMAIN faces : EndsOf(faces, map, f) = {a, b}
    BY <1>3, CoarseMesh
  <2>2. ASSUME NEW f \in DOMAIN faces, EndsOf(faces, map, f) = {a, b}
        PROVE  \E c, d \in 1..n : map[c] = a /\ map[d] = b /\ Linked(faces, c, d)
    <3> DEFINE c == faces[f].o
               d == faces[f].nb
    <3>1. c \in 1..n /\ d \in 1..n BY FaceIs
    <3>2. Linked(faces, c, d) /\ Linked(faces, d, c) BY DEF Linked
    <3>3. (map[c] = a /\ map[d] = b) \/ (map[c] = b /\ map[d] = a) BY <1>3, <2>2 DEF EndsOf
    <3> HIDE DEF c, d, map
    <3> QED BY <3>1, <3>2, <3>3
  <2>3. ASSUME NEW c \in 1..n, NEW d \in 1..n, map[c] = a, map[d] = b, Linked(faces, c, d)
        PROVE  \E f \in DOMAIN faces : EndsOf(faces, map, f) = {a, b}
    <3>1. PICK f \in DOMAIN faces : {faces[f].o, faces[f].nb} = {c, d} BY <2>3 DEF Linked
    <3>2. EndsOf(faces, map, f) = {a, b} BY <2>3, <3>1 DEF EndsOf
    <3> QED BY <3>2
  <2> QED BY <2>1, <2>2, <2>3
<1> HIDE DEF C, map
<1>4. o.faces = C BY DEF C, map
<1> QED BY <1>1, <1>2, <1>3, <1>4 DEF MadeOf

LEMMA PairsLeave ==
  ASSUME NEW n, NEW faces, Mesh(faces, n), NEW agg, IsMap(agg.map, n, agg.nc),
         NEW l, l = Level(n, faces, agg)
  PROVE  LeavesFace(l) <=> CoarsePairs(faces, agg.map) # {}
<1>1. l.faces = faces /\ l.map = agg.map BY DEF Level
<1>2. LeavesFace(l) <=> \E f \in DOMAIN faces : Parts(faces, agg.map, f)
  BY <1>1 DEF LeavesFace, Parts
<1> QED BY <1>2, PairsAre

BuildState(at, n, faces, levels) ==
  [at |-> at, n |-> n, faces |-> faces, levels |-> levels, grid |-> 0, sweeps |-> 0, frames |-> <<>>]

LEMMA BuildStarts ==
  ASSUME NEW t, t \in Traces, NEW o, o = BuildState("build", t.mesh.n, t.mesh.faces, <<>>)
  PROVE  BuildInv(t, o)
<1>1. o.n = t.mesh.n /\ o.faces = t.mesh.faces /\ o.levels = <<>> BY DEF BuildState
<1>2. o = BuildState("build", o.n, o.faces, o.levels) BY <1>1
<1>3. IsSequence(<<>>) /\ Len(<<>>) = 0
  <2>1. <<>> \in Seq({}) OBVIOUS
  <2> QED BY <2>1 DEF IsSequence
<1>4. Mesh(t.mesh.faces, t.mesh.n) /\ t.mesh.n > 0 BY TracesAssumption
<1>5. CellsOf(t, 1) = t.mesh.n BY DEF CellsOf
<1>6. o = [at |-> "build", n |-> o.n, faces |-> o.faces, levels |-> o.levels,
           grid |-> 0, sweeps |-> 0, frames |-> <<>>]
  BY <1>2 DEF BuildState
<1>7. Len(o.levels) = 0 /\ IsSequence(o.levels) BY <1>1, <1>3
<1>8. Mesh(o.faces, o.n) /\ o.n > 0 /\ o.n = CellsOf(t, 1) BY <1>1, <1>4, <1>5
<1>9. 1..Len(o.levels) = {} /\ 1..(Len(o.levels) - 1) = {} /\ ~(Len(o.levels) > 0)
      /\ Len(o.levels) + 1 = 1
  BY <1>7
<1> QED BY <1>6, <1>7, <1>8, <1>9 DEF BuildInv

LEMMA LevelIs ==
  ASSUME NEW n, NEW faces, Mesh(faces, n), n > 0, NEW agg, IsMap(agg.map, n, agg.nc), agg.nc > 0,
         NEW l, l = Level(n, faces, agg)
  PROVE  IsLevel(l) /\ l.n = n /\ l.faces = faces /\ l.nc = agg.nc /\ l.map = agg.map
BY DEF IsLevel, Level

(* One more level of a hierarchy that is being built.                       *)
LEMMA LevelAdded ==
  ASSUME NEW t, t \in Traces, NEW o, BuildInv(t, o),
         Coarsens(t, Len(o.levels) + 1, o.faces, o.n),
         NEW agg, agg = Aggregated(t, Len(o.levels) + 1, o.faces, o.n),
         CoarsePairs(o.faces, agg.map) # {},
         NEW p, p = BuildState("build", agg.nc, CoarseFaces(o.faces, agg.map),
                               Extended(o.levels, Level(o.n, o.faces, agg)))
  PROVE  BuildInv(t, p)
<1> DEFINE l == Level(o.n, o.faces, agg)
           k == Len(o.levels)
<1>1. IsMap(agg.map, o.n, agg.nc) /\ agg.nc > 0 BY NextMapIs
<1>2. Mesh(o.faces, o.n) /\ o.n > 0 /\ IsSequence(o.levels) BY DEF BuildInv
<1>3. IsLevel(l) /\ l.n = o.n /\ l.faces = o.faces /\ l.nc = agg.nc /\ l.map = agg.map
  BY <1>1, <1>2, LevelIs
<1>4. LeavesFace(l) BY <1>1, <1>2, PairsLeave
<1>5. p.n = agg.nc /\ p.faces = CoarseFaces(o.faces, agg.map) /\ p.levels = Extended(o.levels, l)
  BY DEF BuildState
<1>6. MadeOf(p, l) /\ Mesh(p.faces, p.n) BY <1>1, <1>2, <1>5, Coarsened
<1>7. p = [at |-> "build", n |-> p.n, faces |-> p.faces, levels |-> p.levels,
           grid |-> 0, sweeps |-> 0, frames |-> <<>>]
  BY <1>5 DEF BuildState
<1> HIDE DEF l
<1>8. /\ IsSequence(p.levels) /\ k \in Nat /\ Len(p.levels) = k + 1 /\ p.levels[k + 1] = l
      /\ \A i \in 1..k : p.levels[i] = o.levels[i]
  <2> DEFINE e == Extended(o.levels, l)
  <2>1. /\ IsSequence(e) /\ k \in Nat /\ Len(e) = k + 1 /\ e[k + 1] = l
        /\ \A i \in 1..k : e[i] = o.levels[i]
    BY <1>2, Appended
  <2>2. p.levels = e BY <1>5
  <2> HIDE DEF e
  <2> QED BY <2>1, <2>2
<1>9. t.dumped => p.n = CellsOf(t, Len(p.levels) + 1)
  <2>1. CASE t.dumped
    <3>1. agg = [map |-> t.maps[k + 1], nc |-> Max(Range(t.maps[k + 1]))] BY <2>1 DEF Aggregated
    <3>2. agg.nc = Max(Range(t.maps[k + 1])) BY <3>1
    <3>3. Len(p.levels) + 1 # 1 /\ (Len(p.levels) + 1) - 1 = k + 1 BY <1>8, SMTT(30)
    <3>4. CellsOf(t, Len(p.levels) + 1) = Max(Range(t.maps[k + 1])) BY <3>3 DEF CellsOf
    <3> QED BY <1>5, <3>2, <3>4
  <2> QED BY <2>1
<1> HIDE DEF k
<1>10. /\ \A g \in 1..k : IsLevel(o.levels[g]) /\ LeavesFace(o.levels[g])
       /\ \A g \in 1..(k - 1) : MadeOf(o.levels[g + 1], o.levels[g])
       /\ k > 0 => MadeOf(o, o.levels[k])
  BY DEF BuildInv, k
<1>11. ASSUME NEW g \in 1..Len(p.levels) PROVE IsLevel(p.levels[g]) /\ LeavesFace(p.levels[g])
  <2>1. g \in 1..k \/ g = k + 1 BY <1>8
  <2> QED BY <1>3, <1>4, <1>8, <1>10, <2>1
<1>12. ASSUME NEW g \in 1..(Len(p.levels) - 1) PROVE MadeOf(p.levels[g + 1], p.levels[g])
  <2>1. g \in 1..(k - 1) \/ (g = k /\ k > 0) BY <1>8
  <2>2. CASE g \in 1..(k - 1)
    <3>1. g + 1 \in 1..k /\ g \in 1..k BY <1>8, <2>2
    <3> QED BY <1>8, <1>10, <2>2, <3>1
  <2>3. CASE g = k /\ k > 0
    <3>1. k \in 1..k BY <1>8, <2>3
    <3>2. MadeOf(o, o.levels[k]) BY <1>10, <2>3
    <3>3. MadeOf(l, o.levels[k]) BY <1>3, <3>2 DEF MadeOf
    <3> QED BY <1>8, <2>3, <3>1, <3>3
  <2> QED BY <2>1, <2>2, <2>3
<1>13. p.levels[Len(p.levels)] = l /\ p.n > 0 BY <1>1, <1>5, <1>8
<1>14. Len(p.levels) > 0 => MadeOf(p, p.levels[Len(p.levels)]) BY <1>6, <1>13
<1> QED BY <1>6, <1>7, <1>8, <1>9, <1>11, <1>12, <1>13, <1>14 DEF BuildInv

(* The last level of one that has levels already, or has none.              *)
LEMMA LevelsEnded ==
  ASSUME NEW t, NEW o, BuildInv(t, o), NEW levels,
         levels = Extended(o.levels, Coarsest(o.n, o.faces))
  PROVE  Hierarchy(levels)
<1> DEFINE l == Coarsest(o.n, o.faces)
           k == Len(o.levels)
<1>1. l.n = o.n /\ l.faces = o.faces /\ l.nc = 0 BY DEF Coarsest
<1>2. IsSequence(o.levels) /\ o.n \in Nat BY DEF BuildInv, Mesh
<1> HIDE DEF l
<1>3. /\ IsSequence(levels) /\ k \in Nat /\ Len(levels) = k + 1 /\ levels[k + 1] = l
      /\ \A i \in 1..k : levels[i] = o.levels[i]
  <2>1. levels = Extended(o.levels, l) BY DEF l
  <2> QED BY ONLY <1>2, <2>1, Appended DEF k
<1> HIDE DEF k
<1>4. /\ \A g \in 1..k : IsLevel(o.levels[g]) /\ LeavesFace(o.levels[g])
      /\ \A g \in 1..(k - 1) : MadeOf(o.levels[g + 1], o.levels[g])
      /\ k > 0 => MadeOf(o, o.levels[k])
  BY DEF BuildInv, k
<1>5. Len(levels) \in Nat /\ Len(levels) > 0 /\ levels[Len(levels)] = l /\ Len(levels) - 1 = k
      /\ Len(levels) - 2 = k - 1
  BY <1>3
<1>6. \A g \in 1..k : IsLevel(levels[g]) /\ LeavesFace(levels[g]) BY <1>3, <1>4
<1>7. ASSUME NEW g \in 1..(k - 1) PROVE MadeOf(levels[g + 1], levels[g]) /\ LeavesFace(levels[g])
  <2>1. g + 1 \in 1..k /\ g \in 1..k BY <1>3
  <2> QED BY <1>3, <1>4, <2>1
<1>8. ASSUME k > 0 PROVE MadeOf(l, levels[k]) /\ LeavesFace(levels[k])
  <2>1. k \in 1..k BY <1>3, <1>8
  <2>2. MadeOf(o, o.levels[k]) BY <1>4, <1>8
  <2>3. MadeOf(l, o.levels[k]) BY <1>1, <2>2 DEF MadeOf
  <2> QED BY <1>3, <1>6, <2>1, <2>3
<1>9. ASSUME NEW g \in 1..Len(levels) PROVE levels[g].n \in Nat
  <2>1. g \in 1..k \/ g = k + 1 BY <1>3
  <2>2. CASE g \in 1..k
    <3>1. IsLevel(levels[g]) BY <1>6, <2>2
    <3> QED BY <3>1 DEF IsLevel, IsMap
  <2> QED BY <1>1, <1>2, <1>3, <2>1, <2>2
<1>10. Len(levels) > 1 => k > 0 BY <1>3
<1>11. levels[Len(levels)].nc = 0 BY <1>1, <1>5
<1>12. \A g \in 1..(Len(levels) - 1) : IsLevel(levels[g]) BY <1>5, <1>6
<1>13. \A g \in 1..(Len(levels) - 2) : LeavesFace(levels[g]) /\ MadeOf(levels[g + 1], levels[g])
  BY <1>5, <1>7
<1>14. ASSUME Len(levels) > 1
       PROVE  LeavesFace(levels[Len(levels) - 1]) /\ MadeOf(levels[Len(levels)], levels[Len(levels) - 1])
  BY <1>5, <1>8, <1>10, <1>14
<1> QED BY ONLY <1>3, <1>5, <1>9, <1>11, <1>12, <1>13, <1>14 DEF Hierarchy

(* Or the level above once more, when the aggregates leave no face.         *)
LEMMA LevelsFlat ==
  ASSUME NEW t, t \in Traces, NEW o, BuildInv(t, o),
         Coarsens(t, Len(o.levels) + 1, o.faces, o.n),
         NEW agg, agg = Aggregated(t, Len(o.levels) + 1, o.faces, o.n),
         CoarsePairs(o.faces, agg.map) = {}, NEW levels,
         levels = Extended(Extended(o.levels, Level(o.n, o.faces, agg)), Coarsest(o.n, o.faces))
  PROVE  Hierarchy(levels)
<1> DEFINE m == Level(o.n, o.faces, agg)
           l == Coarsest(o.n, o.faces)
           k == Len(o.levels)
           s == Extended(o.levels, m)
<1>1. l.n = o.n /\ l.faces = o.faces /\ l.nc = 0 BY DEF Coarsest
<1>2. IsSequence(o.levels) /\ o.n \in Nat /\ Mesh(o.faces, o.n) /\ o.n > 0 BY DEF BuildInv, Mesh
<1>3. IsMap(agg.map, o.n, agg.nc) /\ agg.nc > 0 BY NextMapIs
<1>4. IsLevel(m) /\ m.n = o.n /\ m.faces = o.faces BY <1>2, <1>3, LevelIs
<1>5. ~LeavesFace(m) BY <1>2, <1>3, PairsLeave
<1> HIDE DEF l, m
<1>6. /\ IsSequence(s) /\ k \in Nat /\ Len(s) = k + 1 /\ s[k + 1] = m
      /\ \A i \in 1..k : s[i] = o.levels[i]
  <2>1. s = Extended(o.levels, m) OBVIOUS
  <2> HIDE DEF s
  <2> QED BY ONLY <1>2, <2>1, Appended DEF k
<1> HIDE DEF s
<1>7. levels = Extended(s, l) BY DEF s, l, m
<1>8. /\ IsSequence(levels) /\ Len(levels) = Len(s) + 1 /\ levels[Len(s) + 1] = l
      /\ \A i \in 1..Len(s) : levels[i] = s[i]
  BY <1>6, <1>7, Appended
<1> HIDE DEF k
<1>9. /\ k + 1 \in 1..(k + 1) /\ \A i \in 1..k : i \in 1..(k + 1)
      /\ (k + 1) + 1 = k + 2
  BY <1>6
<1>10. /\ Len(levels) = k + 2 /\ levels[k + 2] = l /\ levels[k + 1] = m
       /\ \A i \in 1..k : levels[i] = o.levels[i]
  BY <1>6, <1>8, <1>9
<1>11. /\ \A g \in 1..k : IsLevel(o.levels[g]) /\ LeavesFace(o.levels[g])
       /\ \A g \in 1..(k - 1) : MadeOf(o.levels[g + 1], o.levels[g])
       /\ k > 0 => MadeOf(o, o.levels[k])
  BY DEF BuildInv, k
<1>12. Len(levels) \in Nat /\ Len(levels) > 0 /\ Len(levels) - 1 = k + 1 /\ Len(levels) - 2 = k
  BY <1>6, <1>10
<1>13. \A g \in 1..(k + 1) : IsLevel(levels[g])
  <2>1. \A g \in 1..(k + 1) : g \in 1..k \/ g = k + 1 BY <1>6
  <2> QED BY <1>4, <1>10, <1>11, <2>1
<1>14. ASSUME NEW g \in 1..k PROVE MadeOf(levels[g + 1], levels[g]) /\ LeavesFace(levels[g])
  <2>1. g \in 1..(k - 1) \/ (g = k /\ k > 0) BY <1>6
  <2>2. CASE g \in 1..(k - 1)
    <3>1. g + 1 \in 1..k BY <1>6, <2>2
    <3> QED BY <1>10, <1>11, <2>2, <3>1
  <2>3. CASE g = k /\ k > 0
    <3>1. MadeOf(o, o.levels[k]) BY <1>11, <2>3
    <3>2. MadeOf(m, o.levels[k]) BY <1>4, <3>1 DEF MadeOf
    <3> QED BY <1>10, <1>11, <2>3, <3>2
  <2> QED BY <2>1, <2>2, <2>3
<1>15. ASSUME NEW g \in 1..Len(levels) PROVE levels[g].n \in Nat
  <2>1. g \in 1..(k + 1) \/ g = k + 2 BY <1>6, <1>10
  <2>2. CASE g \in 1..(k + 1)
    <3>1. IsLevel(levels[g]) BY <1>13, <2>2
    <3> QED BY <3>1 DEF IsLevel, IsMap
  <2> QED BY <1>1, <1>2, <1>10, <2>1, <2>2
<1>16. levels[Len(levels)] = l /\ levels[Len(levels) - 1] = m BY <1>10, <1>12
<1>17. levels[Len(levels)].nc = 0 BY <1>1, <1>16
<1>18. \A g \in 1..(Len(levels) - 1) : IsLevel(levels[g]) BY <1>12, <1>13
<1>19. \A g \in 1..(Len(levels) - 2) : LeavesFace(levels[g]) /\ MadeOf(levels[g + 1], levels[g])
  BY <1>12, <1>14
<1>20. ~LeavesFace(levels[Len(levels) - 1]) /\ levels[Len(levels)].n = levels[Len(levels) - 1].n
  BY <1>1, <1>4, <1>5, <1>16
<1> QED BY ONLY <1>8, <1>12, <1>15, <1>17, <1>18, <1>19, <1>20 DEF Hierarchy

(* The cells of grid g, as the frames on it know them.                      *)
SizeAt(levels, g) == IF g = 0 THEN levels[1].n ELSE levels[g].nc
IntoGrid(levels, g) == [1..levels[1].n -> 1..SizeAt(levels, g)]
Composed(levels, k, f) == [c \in 1..levels[1].n |-> levels[k].map[f[c]]]

(* A level takes the cells of its grid to those of the next.                *)
LEMMA ComposedInto ==
  ASSUME NEW levels, Hierarchy(levels), NEW k, k \in 1..(Len(levels) - 1),
         NEW f, f \in IntoGrid(levels, k - 1)
  PROVE  Composed(levels, k, f) \in IntoGrid(levels, k)
<1>1. Len(levels) \in Nat /\ k # 0 /\ k \in Nat BY DEF Hierarchy
<1>2. IsLevel(levels[k]) BY DEF Hierarchy
<1>3. levels[k].map \in [1..levels[k].n -> 1..levels[k].nc] BY <1>2 DEF IsLevel, IsMap
<1>4. SizeAt(levels, k - 1) = levels[k].n
  <2>1. CASE k = 1 BY <2>1 DEF SizeAt
  <2>2. CASE k # 1
    <3>1. k - 1 \in 1..(Len(levels) - 2) /\ (k - 1) + 1 = k /\ k - 1 # 0 BY <1>1, <2>2
    <3>2. MadeOf(levels[k], levels[k - 1]) BY <3>1 DEF Hierarchy
    <3> QED BY <3>1, <3>2 DEF MadeOf, SizeAt
  <2> QED BY <2>1, <2>2
<1>5. SizeAt(levels, k) = levels[k].nc BY <1>1 DEF SizeAt
<1>6. f \in [1..levels[1].n -> 1..levels[k].n] BY <1>4 DEF IntoGrid
<1>7. \A c \in 1..levels[1].n : levels[k].map[f[c]] \in 1..levels[k].nc BY <1>3, <1>6
<1> QED BY <1>5, <1>7 DEF Composed, IntoGrid

LEMMA AggregatesInto ==
  ASSUME NEW levels, Hierarchy(levels), NEW n, n \in 0..(Len(levels) - 1)
  PROVE  aggregates(levels, n) \in IntoGrid(levels, n)
<1> DEFINE start == [c \in 1..levels[1].n |-> c]
           Eq(f) == f = [k \in 0..n |-> IF k = 0 THEN start ELSE Composed(levels, k, f[k - 1])]
           Loop(f) == f[0] = start /\ \A k \in 1..n : f[k] = Composed(levels, k, f[k - 1])
           Any == UNION {IntoGrid(levels, k) : k \in 0..n}
           Go(k, st) == IF st \in IntoGrid(levels, k - 1) THEN Composed(levels, k, st) ELSE start
           g == [k \in 1..n |-> [st \in Any |-> Go(k, st)]]
<1>1. n \in Nat /\ Len(levels) \in Nat BY DEF Hierarchy
<1>2. start \in IntoGrid(levels, 0) /\ start \in Any
  <2>1. start \in IntoGrid(levels, 0) BY DEF IntoGrid, SizeAt
  <2> HIDE DEF start
  <2> QED BY <1>1, <2>1
<1> HIDE DEF start
<1>3. ASSUME NEW k \in 1..n, NEW st, st \in IntoGrid(levels, k - 1)
      PROVE  Composed(levels, k, st) \in IntoGrid(levels, k) /\ Composed(levels, k, st) \in Any
  <2>1. k \in 1..(Len(levels) - 1) /\ k \in 0..n BY <1>1
  <2>2. Composed(levels, k, st) \in IntoGrid(levels, k) BY <1>3, <2>1, ComposedInto
  <2> QED BY <2>1, <2>2
<1> HIDE DEF Any
<1>4. \E f : DOMAIN f = 0..n /\ f = [k \in 0..n |-> f[k]] /\ Loop(f)
  <2>1. \A k \in 1..n : \A st \in Any : Go(k, st) \in Any BY <1>2, <1>3
  <2> HIDE DEF Go
  <2>2. g \in [1..n -> [Any -> Any]] BY <2>1
  <2>3. \A k \in 1..n : \A st \in Any : g[k][st] = Go(k, st) OBVIOUS
  <2> HIDE DEF g
  <2>4. PICK f : LoopOf(f, g, n, Any, start)
    <3>1. IsLoop(g, n, Any) BY <2>2 DEF IsLoop
    <3> QED BY <1>1, <1>2, <3>1, LoopExists
  <2> DEFINE P == {k \in 0..n : f[k] \in IntoGrid(levels, k)}
  <2>5. 0 \in P BY <1>1, <1>2, <2>4 DEF LoopOf
  <2>6. ASSUME NEW k \in 1..n, f[k - 1] \in IntoGrid(levels, k - 1)
        PROVE  f[k] = Composed(levels, k, f[k - 1]) /\ f[k] \in IntoGrid(levels, k)
    <3>1. f[k - 1] \in Any BY <1>1, <2>4 DEF LoopOf
    <3>2. f[k] = Go(k, f[k - 1]) BY <2>3, <2>4, <3>1 DEF LoopOf
    <3>3. f[k] = Composed(levels, k, f[k - 1]) BY <2>6, <3>2 DEF Go
    <3> QED BY <1>3, <2>6, <3>3
  <2>7. \A k \in 0..n : k \in P
    <3>1. \A k \in 1..n : k - 1 \in P => k \in P BY <1>1, <2>6
    <3> HIDE DEF P
    <3> QED BY <1>1, <2>5, <3>1, Upwards
  <2>8. \A k \in 1..n : f[k] = Composed(levels, k, f[k - 1])
    <3> TAKE k \in 1..n
    <3>1. k - 1 \in 0..n BY <1>1
    <3> QED BY <2>6, <2>7, <3>1
  <2> QED BY <2>4, <2>8 DEF LoopOf
<1>5. \E f : Eq(f)
  <2>1. PICK f : DOMAIN f = 0..n /\ f = [k \in 0..n |-> f[k]] /\ Loop(f) BY <1>4
  <2>2. \A k \in 0..n : f[k] = IF k = 0 THEN start ELSE Composed(levels, k, f[k - 1])
    <3> TAKE k \in 0..n
    <3>1. Loop(f) BY <2>1
    <3>2. CASE k = 0 BY <3>1, <3>2
    <3>3. CASE k # 0
      <4>1. k \in 1..n BY <1>1, <3>3
      <4> QED BY <3>1, <3>3, <4>1
    <3> QED BY <3>2, <3>3
  <2>3. Eq(f) BY <2>1, <2>2
  <2> QED BY <2>3
<1> DEFINE chain == CHOOSE f : Eq(f)
<1>6. aggregates(levels, n) = chain[n] BY DEF aggregates, Composed, start
<1>7. Loop(chain)
  <2>1. Eq(chain)
    <3> HIDE DEF Eq
    <3> QED BY <1>5
  <2> HIDE DEF chain
  <2>2. \A k \in 0..n : chain[k] = IF k = 0 THEN start ELSE Composed(levels, k, chain[k - 1])
    BY <2>1
  <2> QED BY <1>1, <2>2
<1> HIDE DEF chain, Eq
<1> DEFINE P == {k \in 0..n : chain[k] \in IntoGrid(levels, k)}
<1>8. \A k \in 0..n : k \in P
  <2>1. 0 \in P BY <1>1, <1>2, <1>7
  <2>2. \A k \in 1..n : k - 1 \in P => k \in P BY <1>1, <1>3, <1>7
  <2> HIDE DEF P
  <2> QED BY <1>1, <2>1, <2>2, Upwards
<1> QED BY <1>1, <1>6, <1>8

OnGrid(levels, frame) == frame.grid \in 0..(Len(levels) - 1) /\ frame.ngrid = SizeAt(levels, frame.grid)
LEMMA PaintedOnGrid ==
  ASSUME NEW levels, Hierarchy(levels), NEW frame, OnGrid(levels, frame)
  PROVE  Painted(levels, frame)
<1> DEFINE a == aggregates(levels, frame.grid)
<1>1. frame.grid \in 0..(Len(levels) - 1) /\ frame.ngrid = SizeAt(levels, frame.grid) BY DEF OnGrid
<1>2. a \in IntoGrid(levels, frame.grid) BY <1>1, AggregatesInto
<1> HIDE DEF a
<1>3. a \in [1..levels[1].n -> 1..frame.ngrid] BY <1>1, <1>2 DEF IntoGrid
<1>4. Range(a) \subseteq 1..frame.ngrid BY <1>3 DEF Range
<1> QED BY <1>4 DEF Painted, a

(* The frames so far: each on a grid there is, the marker at m.             *)
Walk(levels, frames, m) ==
  /\ IsSequence(frames) /\ Len(frames) \in Nat /\ Len(frames) > 0
  /\ \A i \in 1..Len(frames) : OnGrid(levels, frames[i])
  /\ Marker(Len(levels), frames[1]) = 0 /\ Marker(Len(levels), frames[Len(frames)]) = m
  /\ \A i \in 1..(Len(frames) - 1) :
       Marker(Len(levels), frames[i + 1]) - Marker(Len(levels), frames[i]) \in {0, 1}

LEMMA WalkGrows ==
  ASSUME NEW levels, NEW frames, NEW m, Walk(levels, frames, m), NEW f, OnGrid(levels, f),
         NEW k, k = Marker(Len(levels), f), k - m \in {0, 1}
  PROVE  Walk(levels, Extended(frames, f), k)
<1> DEFINE r == Extended(frames, f)
           M(x) == Marker(Len(levels), x)
           l == Len(frames)
<1>1. /\ IsSequence(r) /\ l \in Nat /\ Len(r) = l + 1 /\ r[l + 1] = f
      /\ \A i \in 1..l : r[i] = frames[i]
  BY Appended DEF Walk
<1>2. l > 0 /\ 1 \in 1..l /\ l \in 1..l BY <1>1 DEF Walk
<1> HIDE DEF r
<1>3. /\ M(frames[1]) = 0 /\ M(frames[l]) = m /\ M(f) = k
      /\ \A i \in 1..l : OnGrid(levels, frames[i])
      /\ \A i \in 1..(l - 1) : M(frames[i + 1]) - M(frames[i]) \in {0, 1}
  BY DEF Walk
<1> HIDE DEF M, l
<1>4. ASSUME NEW i \in 1..Len(r) PROVE OnGrid(levels, r[i])
  <2>1. i \in 1..l \/ i = l + 1 BY <1>1
  <2> QED BY <1>1, <1>3, <2>1
<1>5. ASSUME NEW i \in 1..(Len(r) - 1) PROVE M(r[i + 1]) - M(r[i]) \in {0, 1}
  <2>1. i \in 1..(l - 1) \/ i = l BY <1>1
  <2>2. CASE i \in 1..(l - 1)
    <3>1. i \in 1..l /\ i + 1 \in 1..l BY <1>1, <2>2
    <3>2. r[i] = frames[i] /\ r[i + 1] = frames[i + 1] BY <1>1, <3>1
    <3>3. M(frames[i + 1]) - M(frames[i]) \in {0, 1} BY <1>3, <2>2
    <3> QED BY <3>2, <3>3
  <2>3. CASE i = l
    <3>1. r[i] = frames[l] /\ r[i + 1] = f BY <1>1, <1>2, <2>3
    <3> QED BY <1>3, <3>1
  <2> QED BY <2>1, <2>2, <2>3
<1>6. M(r[1]) = 0 /\ M(r[Len(r)]) = k /\ Len(r) \in Nat /\ Len(r) > 0 BY <1>1, <1>2, <1>3
<1> QED BY <1>1, <1>4, <1>5, <1>6 DEF Walk, M, r

LEMMA WalkStarts ==
  ASSUME NEW levels, NEW f, OnGrid(levels, f), Marker(Len(levels), f) = 0
  PROVE  Walk(levels, Extended(<<>>, f), 0) /\ FineSweeps(<<>>) = 0 /\ IsSequence(<<>>)
<1> DEFINE r == Extended(<<>>, f)
<1>1. IsSequence(<<>>) /\ Len(<<>>) = 0 /\ DOMAIN <<>> = {}
  <2>1. <<>> \in Seq({}) OBVIOUS
  <2> QED BY <2>1 DEF IsSequence
<1>2. IsSequence(r) /\ Len(r) = 1 /\ r[1] = f
  <2>1. 0 + 1 = 1 OBVIOUS
  <2> HIDE DEF r
  <2>2. IsSequence(r) /\ Len(r) = 0 + 1 /\ r[0 + 1] = f BY <1>1, Appended DEF r
  <2> QED BY <2>1, <2>2
<1> HIDE DEF r
<1>3. \A i \in 1..1 : i = 1 OBVIOUS
<1>4. 1..(1 - 1) = {} OBVIOUS
<1>5. FineSweeps(<<>>) = 0
  <2>1. {i \in DOMAIN <<>> : IsFineSweep(<<>>[i])} = {} BY <1>1
  <2> QED BY <2>1, FS_EmptySet DEF FineSweeps
<1>6. Walk(levels, r, 0) BY <1>2, <1>3, <1>4 DEF Walk
<1> QED BY <1>1, <1>5, <1>6 DEF r

LEMMA SweepsCounted ==
  ASSUME NEW frames, IsSequence(frames), NEW f
  PROVE  /\ FineSweeps(frames) \in Nat
         /\ FineSweeps(Extended(frames, f))
              = FineSweeps(frames) + (IF IsFineSweep(f) THEN 1 ELSE 0)
<1> DEFINE r == Extended(frames, f)
           l == Len(frames)
           A == {i \in 1..l : IsFineSweep(frames[i])}
           B == {i \in 1..(l + 1) : IsFineSweep(r[i])}
<1>1. /\ IsSequence(r) /\ l \in Nat /\ Len(r) = l + 1 /\ r[l + 1] = f
      /\ \A i \in 1..l : r[i] = frames[i]
  BY Appended
<1>2. DOMAIN frames = 1..l /\ DOMAIN r = 1..(l + 1)
  <2>1. \A s : IsSequence(s) => DOMAIN s = 1..Len(s) BY DEF IsSequence
  <2> HIDE DEF r
  <2> QED BY <1>1, <2>1
<1> HIDE DEF r
<1>3. FineSweeps(frames) = Cardinality(A) /\ FineSweeps(r) = Cardinality(B) BY <1>2 DEF FineSweeps
<1>4. IsFiniteSet(A) /\ Cardinality(A) \in Nat
  <2>1. IsFiniteSet(1..l) BY <1>1, FS_Interval
  <2>2. A \in SUBSET (1..l) OBVIOUS
  <2> HIDE DEF A
  <2>3. IsFiniteSet(A) BY <2>1, <2>2, FS_Subset
  <2> QED BY <2>3, FS_CardinalityType
<1>5. l + 1 \notin A BY <1>1
<1>6. B = IF IsFineSweep(f) THEN A \cup {l + 1} ELSE A
  <2>1. \A i : i \in 1..(l + 1) <=> (i \in 1..l \/ i = l + 1) BY <1>1
  <2> QED BY <1>1, <2>1
<1> HIDE DEF A, B
<1>7. Cardinality(A \cup {l + 1}) = Cardinality(A) + 1 BY <1>4, <1>5, FS_AddElement
<1>8. Cardinality(B) = Cardinality(A) + (IF IsFineSweep(f) THEN 1 ELSE 0)
  BY <1>4, <1>6, <1>7
<1> QED BY <1>3, <1>4, <1>8 DEF r

(* Whether some frame stands on the coarsest grid.                          *)
Deepest(levels, frames) == \E i \in 1..Len(frames) : frames[i].grid = Len(levels) - 1
LEMMA DeepestGrows ==
  ASSUME NEW levels, NEW frames, IsSequence(frames), NEW f,
         Deepest(levels, frames) \/ f.grid = Len(levels) - 1
  PROVE  Deepest(levels, Extended(frames, f))
<1> DEFINE r == Extended(frames, f)
<1>1. /\ Len(frames) \in Nat /\ Len(r) = Len(frames) + 1 /\ r[Len(frames) + 1] = f
      /\ \A i \in 1..Len(frames) : r[i] = frames[i]
  BY Appended
<1> HIDE DEF r
<1>2. \A i \in 1..Len(frames) : i \in 1..Len(r) BY <1>1
<1>3. Len(frames) + 1 \in 1..Len(r) BY <1>1
<1>4. Deepest(levels, r) BY <1>1, <1>2, <1>3 DEF Deepest
<1> QED BY <1>4 DEF r

CycleState(at, n, faces, levels, grid, sweeps, frames) ==
  [at |-> at, n |-> n, faces |-> faces, levels |-> levels, grid |-> grid, sweeps |-> sweeps,
   frames |-> frames]
Fitting(s, levels) ==
  IF Len(levels) = 1 THEN s # "of_gamg" ELSE levels[Len(levels) - 1].nc = levels[Len(levels)].n

(* Where a cycle can be, and the sweeps drawn on the finest grid so far.    *)
GoesDown(s, o) ==
  /\ o.at = "down" /\ Walk(o.levels, o.frames, o.grid)
  /\ FineSweeps(o.frames) = IF o.grid = 0 THEN NPRE[s] - o.sweeps ELSE NPRE[s]
AtResidual(s, o) ==
  /\ o.at = "residual" /\ Walk(o.levels, o.frames, o.grid)
  /\ o.levels[o.grid + 1].nc > 0 /\ FineSweeps(o.frames) = NPRE[s]
Returns(s, o) ==
  /\ Fitting(s, o.levels) /\ Deepest(o.levels, o.frames)
  /\ Walk(o.levels, o.frames, 2 * Len(o.levels) - 2 - o.grid)
  /\ Len(o.levels) > 1 =>
       FineSweeps(o.frames) = IF o.grid > 0 THEN NPRE[s] ELSE NPRE[s] + PostSweeps(s, 0) - o.sweeps
GoesUp(s, o) == o.at = "up" /\ Returns(s, o) /\ (o.sweeps > 0 => o.grid + 1 < Len(o.levels))
IsDone(s, o) == o.at = "done" /\ Returns(s, o) /\ o.grid = 0 /\ o.sweeps = 0
HasRaised(s, o) ==
  /\ o.at = "raised" /\ ~Fitting(s, o.levels)
  /\ IsSequence(o.frames) /\ \A i \in 1..Len(o.frames) : OnGrid(o.levels, o.frames[i])
CycleInv(s, o) ==
  /\ o = CycleState(o.at, o.n, o.faces, o.levels, o.grid, o.sweeps, o.frames)
  /\ Hierarchy(o.levels) /\ o.grid \in 0..(Len(o.levels) - 1) /\ o.sweeps \in Nat
  /\ \/ o.at = "begin" /\ o.grid = 0 /\ o.frames = <<>>
     \/ GoesDown(s, o) \/ AtResidual(s, o) \/ GoesUp(s, o) \/ IsDone(s, o) \/ HasRaised(s, o)

(* A grid with a level to the next, and its size.                           *)
LEMMA GridIs ==
  ASSUME NEW levels, Hierarchy(levels), NEW g, g \in 0..(Len(levels) - 1)
  PROVE  /\ Len(levels) \in Nat /\ Len(levels) > 0 /\ g \in Nat
         /\ levels[g + 1].nc > 0 <=> g + 1 < Len(levels)
         /\ levels[g + 1].nc = 0 <=> g + 1 = Len(levels)
         /\ g + 1 < Len(levels) => levels[g + 1].n = SizeAt(levels, g)
         /\ levels[1].n = SizeAt(levels, 0)
         /\ levels[g + 1].nc = SizeAt(levels, g + 1)
<1>1. Len(levels) \in Nat /\ Len(levels) > 0 /\ g \in Nat BY DEF Hierarchy
<1>2. ASSUME g + 1 < Len(levels) PROVE levels[g + 1].nc > 0 /\ levels[g + 1].nc # 0
  <2>1. g + 1 \in 1..(Len(levels) - 1) BY <1>1, <1>2
  <2>2. IsLevel(levels[g + 1]) BY <2>1 DEF Hierarchy
  <2>3. levels[g + 1].nc \in Nat /\ levels[g + 1].nc > 0 BY <2>2 DEF IsLevel, IsMap
  <2> QED BY <2>3
<1>3. ASSUME ~(g + 1 < Len(levels)) PROVE g + 1 = Len(levels) /\ levels[g + 1].nc = 0
  <2>1. g + 1 = Len(levels) BY <1>1, <1>3
  <2> QED BY <2>1 DEF Hierarchy
<1>4. ASSUME g + 1 < Len(levels) PROVE levels[g + 1].n = SizeAt(levels, g)
  <2>1. CASE g = 0 BY <2>1 DEF SizeAt
  <2>2. CASE g # 0
    <3>1. g \in 1..(Len(levels) - 2) BY <1>1, <1>4, <2>2
    <3>2. MadeOf(levels[g + 1], levels[g]) BY <3>1 DEF Hierarchy
    <3> QED BY <2>2, <3>2 DEF MadeOf, SizeAt
  <2> QED BY <2>1, <2>2
<1>5. levels[1].n = SizeAt(levels, 0) BY DEF SizeAt
<1>6. levels[g + 1].nc = SizeAt(levels, g + 1) BY <1>1 DEF SizeAt
<1>7. (levels[g + 1].nc > 0 <=> g + 1 < Len(levels)) /\ (levels[g + 1].nc = 0 <=> g + 1 = Len(levels))
  BY <1>1, <1>2, <1>3
<1> QED BY <1>1, <1>4, <1>5, <1>6, <1>7

(* What a frame does to the state.                                          *)
LEMMA Emitted ==
  ASSUME NEW phase, NEW g, NEW k, NEW at, NEW sweeps, Emit(phase, g, k, at, sweeps),
         out = CycleState(out.at, out.n, out.faces, out.levels, out.grid, out.sweeps, out.frames)
  PROVE  /\ out' = CycleState(at, out.n, out.faces, out.levels, g, sweeps,
                              Extended(out.frames, Frame(phase, g, k)))
         /\ in' = in
BY DEF Emit, CycleState, Extended

LEMMA FieldsOf ==
  ASSUME NEW at, NEW n, NEW faces, NEW levels, NEW grid, NEW sweeps, NEW frames,
         NEW o, o = CycleState(at, n, faces, levels, grid, sweeps, frames)
  PROVE  /\ o = CycleState(o.at, o.n, o.faces, o.levels, o.grid, o.sweeps, o.frames)
         /\ o.at = at /\ o.levels = levels /\ o.grid = grid /\ o.sweeps = sweeps /\ o.frames = frames
         /\ o.n = n /\ o.faces = faces
BY DEF CycleState
LEMMA FrameIs ==
  ASSUME NEW phase, NEW g, NEW k
  PROVE  /\ Frame(phase, g, k).phase = phase /\ Frame(phase, g, k).grid = g
         /\ Frame(phase, g, k).ngrid = k
BY DEF Frame

LEMMA SolverCounts ==
  ASSUME NEW s, s \in Solvers
  PROVE  /\ NPRE[s] \in Nat /\ NPOST[s] \in Nat /\ \A g : PostSweeps(s, g) \in Nat
         /\ s = "of_gamg" => NPRE[s] = 0
         /\ s # "of_gamg" => NPRE[s] + PostSweeps(s, 0) = SweepsCharged[s]
BY DEF Solvers, NPRE, NPOST, PostSweeps, NFINEST_OF, SweepsCharged

(* The frame that the next state adds, when it is on a grid there is and    *)
(* the marker goes on.                                                      *)
MarkAt(levels, phase, g) == IF phase \in Descending THEN g ELSE 2 * Len(levels) - 2 - g
GoesOn(m, k) == k - m \in {0, 1}
LEMMA FrameAdded ==
  ASSUME NEW s, CycleInv(s, out), NEW m, Walk(out.levels, out.frames, m),
         NEW phase, NEW g, NEW k, NEW at, NEW sweeps, Emit(phase, g, k, at, sweeps),
         g \in 0..(Len(out.levels) - 1), k = SizeAt(out.levels, g), sweeps \in Nat,
         GoesOn(m, MarkAt(out.levels, phase, g))
  PROVE  /\ out' = CycleState(out'.at, out'.n, out'.faces, out'.levels, out'.grid, out'.sweeps, out'.frames)
         /\ out'.at = at /\ out'.levels = out.levels /\ out'.grid = g /\ out'.sweeps = sweeps
         /\ Hierarchy(out'.levels) /\ out'.grid \in 0..(Len(out'.levels) - 1) /\ out'.sweeps \in Nat
         /\ Walk(out'.levels, out'.frames, MarkAt(out.levels, phase, g)) /\ FineSweeps(out.frames) \in Nat
         /\ FineSweeps(out'.frames)
              = FineSweeps(out.frames)
                + (IF g = 0 /\ phase \in {"presmooth", "postsmooth"} THEN 1 ELSE 0)
         /\ Deepest(out.levels, out.frames) \/ g = Len(out.levels) - 1
              => Deepest(out'.levels, out'.frames)
         /\ in' = in
<1> DEFINE f == Frame(phase, g, k)
           r == Extended(out.frames, f)
           j == MarkAt(out.levels, phase, g)
<1>1. f.phase = phase /\ f.grid = g /\ f.ngrid = k BY FrameIs
<1>2. out = CycleState(out.at, out.n, out.faces, out.levels, out.grid, out.sweeps, out.frames)
  BY DEF CycleInv
<1>3. out' = CycleState(at, out.n, out.faces, out.levels, g, sweeps, r) /\ in' = in
  BY <1>2, Emitted
<1>4. OnGrid(out.levels, f) /\ Marker(Len(out.levels), f) = j
      /\ (IsFineSweep(f) <=> g = 0 /\ phase \in {"presmooth", "postsmooth"})
  <2> HIDE DEF f
  <2> QED BY <1>1 DEF OnGrid, Marker, IsFineSweep, MarkAt
<1> HIDE DEF f
<1>5. Walk(out.levels, r, j) BY <1>4, WalkGrows DEF GoesOn
<1>6. IsSequence(out.frames) BY DEF Walk
<1>7. /\ FineSweeps(out.frames) \in Nat
      /\ FineSweeps(r) = FineSweeps(out.frames) + (IF IsFineSweep(f) THEN 1 ELSE 0)
  BY <1>6, SweepsCounted
<1>8. Deepest(out.levels, out.frames) \/ g = Len(out.levels) - 1 => Deepest(out.levels, r)
  BY <1>1, <1>6, DeepestGrows
<1> HIDE DEF r
<1>9. /\ out' = CycleState(out'.at, out'.n, out'.faces, out'.levels, out'.grid, out'.sweeps, out'.frames)
      /\ out'.at = at /\ out'.levels = out.levels /\ out'.grid = g /\ out'.sweeps = sweeps
      /\ out'.frames = r
  BY <1>3, FieldsOf
<1>10. Hierarchy(out.levels) BY DEF CycleInv
<1> QED BY <1>3, <1>4, <1>5, <1>7, <1>8, <1>9, <1>10

LEMMA KrylovStarts ==
  ASSUME Solver \in Solvers, CycleInv(Solver, out), KrylovStart
  PROVE  CycleInv(Solver, out') /\ in' = in
<1> DEFINE s == Solver
           f == Frame("krylov_start", 0, out.levels[1].n)
           r == Extended(<<>>, f)
<1> HIDE DEF s
<1>1. out.at = "begin" /\ Emit("krylov_start", 0, out.levels[1].n, "down", NPRE[s])
  BY DEF KrylovStart, At, s
<1>2. out.frames = <<>> /\ Hierarchy(out.levels)
      /\ out = CycleState(out.at, out.n, out.faces, out.levels, out.grid, out.sweeps, out.frames)
  BY <1>1 DEF CycleInv, GoesDown, AtResidual, GoesUp, IsDone, HasRaised
<1>3. out' = CycleState("down", out.n, out.faces, out.levels, 0, NPRE[s], Extended(out.frames, f)) /\ in' = in
  BY <1>1, <1>2, Emitted
<1>4. f.phase = "krylov_start" /\ f.grid = 0 /\ f.ngrid = out.levels[1].n BY FrameIs
<1> HIDE DEF f
<1>5. Len(out.levels) \in Nat /\ Len(out.levels) > 0 /\ 0 \in 0..(Len(out.levels) - 1)
  BY <1>2 DEF Hierarchy
<1>6. OnGrid(out.levels, f) /\ Marker(Len(out.levels), f) = 0 /\ ~IsFineSweep(f)
  BY <1>4, <1>5 DEF OnGrid, Marker, IsFineSweep, Descending, SizeAt
<1>7. Walk(out.levels, r, 0) /\ FineSweeps(<<>>) = 0 /\ IsSequence(<<>>) BY <1>6, WalkStarts
<1>8. FineSweeps(r) = 0 + 0 BY <1>6, <1>7, SweepsCounted
<1>9. NPRE[s] \in Nat BY SolverCounts DEF s
<1> HIDE DEF r
<1>10. /\ out' = CycleState(out'.at, out'.n, out'.faces, out'.levels, out'.grid, out'.sweeps, out'.frames)
       /\ out'.at = "down" /\ out'.levels = out.levels /\ out'.grid = 0 /\ out'.sweeps = NPRE[s]
       /\ out'.frames = r
  <2>1. Extended(out.frames, f) = r BY <1>2 DEF r
  <2> QED BY <1>3, <2>1, FieldsOf
<1>11. FineSweeps(r) = NPRE[s] - NPRE[s] BY <1>8, <1>9
<1>12. GoesDown(s, out') BY <1>7, <1>10, <1>11 DEF GoesDown
<1>13. CycleInv(s, out') BY <1>2, <1>5, <1>9, <1>10, <1>12 DEF CycleInv
<1> QED BY <1>3, <1>13 DEF s

(* At a place of the cycle only what is said of that place holds.           *)
LEMMA Placed ==
  ASSUME NEW s, CycleInv(s, out)
  PROVE  /\ out.at = "down" => GoesDown(s, out)
         /\ out.at = "residual" => AtResidual(s, out)
         /\ out.at = "up" => GoesUp(s, out)
         /\ Hierarchy(out.levels) /\ out.grid \in 0..(Len(out.levels) - 1) /\ out.sweeps \in Nat
BY DEF CycleInv, GoesDown, AtResidual, GoesUp, IsDone, HasRaised

LEMMA PreSmooths ==
  ASSUME Solver \in Solvers, CycleInv(Solver, out), PreSmooth
  PROVE  CycleInv(Solver, out') /\ in' = in
<1> DEFINE s == Solver
           g == out.grid
<1> HIDE DEF s
<1>1. out.at = "down" /\ out.levels[g + 1].nc > 0 /\ out.sweeps > 0
      /\ Emit("presmooth", g, out.levels[g + 1].n, "down", out.sweeps - 1)
  BY DEF PreSmooth, At, Here
<1>2. CycleInv(s, out) /\ s \in Solvers BY DEF s
<1>3. /\ GoesDown(s, out) /\ Hierarchy(out.levels) /\ g \in 0..(Len(out.levels) - 1) /\ out.sweeps \in Nat
  BY <1>1, <1>2, Placed
<1>4. out.levels[g + 1].n = SizeAt(out.levels, g) /\ g \in Nat BY <1>1, <1>3, GridIs
<1>5. out.sweeps - 1 \in Nat BY <1>1, <1>3
<1>6. Walk(out.levels, out.frames, g) BY <1>3 DEF GoesDown
<1>7. MarkAt(out.levels, "presmooth", g) = g /\ GoesOn(g, g) BY <1>4 DEF MarkAt, Descending, GoesOn
<1> HIDE DEF g
<1>8. /\ out' = CycleState(out'.at, out'.n, out'.faces, out'.levels, out'.grid, out'.sweeps, out'.frames)
      /\ out'.at = "down" /\ out'.levels = out.levels /\ out'.grid = g /\ out'.sweeps = out.sweeps - 1
      /\ Hierarchy(out'.levels) /\ out'.grid \in 0..(Len(out'.levels) - 1) /\ out'.sweeps \in Nat
      /\ Walk(out'.levels, out'.frames, g) /\ FineSweeps(out.frames) \in Nat
      /\ FineSweeps(out'.frames) = FineSweeps(out.frames)
           + (IF g = 0 /\ "presmooth" \in {"presmooth", "postsmooth"} THEN 1 ELSE 0)
      /\ in' = in
  BY <1>1, <1>2, <1>3, <1>4, <1>5, <1>6, <1>7, FrameAdded
<1>9. FineSweeps(out.frames) = IF g = 0 THEN NPRE[s] - out.sweeps ELSE NPRE[s] BY <1>3 DEF GoesDown, g
<1>10. NPRE[s] \in Nat BY <1>2, SolverCounts
<1>11. FineSweeps(out'.frames) = IF g = 0 THEN NPRE[s] - (out.sweeps - 1) ELSE NPRE[s]
  BY <1>3, <1>8, <1>9, <1>10
<1>12. GoesDown(s, out') BY <1>8, <1>11 DEF GoesDown
<1>13. CycleInv(s, out') BY <1>8, <1>12 DEF CycleInv
<1> QED BY <1>8, <1>13 DEF s

LEMMA Residuals ==
  ASSUME Solver \in Solvers, CycleInv(Solver, out), Residual
  PROVE  CycleInv(Solver, out') /\ in' = in
<1> DEFINE s == Solver
           g == out.grid
<1> HIDE DEF s
<1>1. out.at = "down" /\ out.levels[g + 1].nc > 0 /\ out.sweeps = 0
      /\ Emit("residual", g, out.levels[g + 1].n, "residual", 0)
  BY DEF Residual, At, Here
<1>2. CycleInv(s, out) /\ s \in Solvers BY DEF s
<1>3. /\ GoesDown(s, out) /\ Hierarchy(out.levels) /\ g \in 0..(Len(out.levels) - 1) /\ out.sweeps \in Nat
  BY <1>1, <1>2, Placed
<1>4. out.levels[g + 1].n = SizeAt(out.levels, g) /\ g \in Nat BY <1>1, <1>3, GridIs
<1>6. Walk(out.levels, out.frames, g) BY <1>3 DEF GoesDown
<1>7. MarkAt(out.levels, "residual", g) = g /\ GoesOn(g, g) BY <1>4 DEF MarkAt, Descending, GoesOn
<1> HIDE DEF g
<1>8. /\ out' = CycleState(out'.at, out'.n, out'.faces, out'.levels, out'.grid, out'.sweeps, out'.frames)
      /\ out'.at = "residual" /\ out'.levels = out.levels /\ out'.grid = g /\ out'.sweeps = 0
      /\ Hierarchy(out'.levels) /\ out'.grid \in 0..(Len(out'.levels) - 1) /\ out'.sweeps \in Nat
      /\ Walk(out'.levels, out'.frames, g) /\ FineSweeps(out.frames) \in Nat
      /\ FineSweeps(out'.frames) = FineSweeps(out.frames)
           + (IF g = 0 /\ "residual" \in {"presmooth", "postsmooth"} THEN 1 ELSE 0)
      /\ in' = in
  BY <1>1, <1>2, <1>3, <1>4, <1>6, <1>7, FrameAdded
<1>9. FineSweeps(out.frames) = IF g = 0 THEN NPRE[s] - out.sweeps ELSE NPRE[s] BY <1>3 DEF GoesDown, g
<1>10. NPRE[s] \in Nat BY <1>2, SolverCounts
<1>11. FineSweeps(out'.frames) = NPRE[s] BY <1>1, <1>8, <1>9, <1>10
<1>12. AtResidual(s, out') BY <1>1, <1>8, <1>11 DEF AtResidual
<1>13. CycleInv(s, out') BY <1>8, <1>12 DEF CycleInv
<1> QED BY <1>8, <1>13 DEF s

LEMMA LastGrid ==
  ASSUME NEW g, NEW l, g \in Nat, l \in Nat, g + 1 = l
  PROVE  g = l - 1 /\ (g = 0 <=> l = 1) /\ 2 * l - 2 - g = g
OBVIOUS

LEMMA Restricts ==
  ASSUME Solver \in Solvers, CycleInv(Solver, out), RestrictResidual
  PROVE  CycleInv(Solver, out') /\ in' = in
<1> DEFINE s == Solver
           g == out.grid
           h == g + 1
<1> HIDE DEF s
<1>1. /\ out.at = IF s = "of_gamg" THEN "down" ELSE "residual"
      /\ out.levels[g + 1].nc > 0
      /\ Emit("restrict", h, out.levels[g + 1].nc, "down", NPRE[s])
  BY DEF RestrictResidual, At, Here, s
<1>2. CycleInv(s, out) /\ s \in Solvers BY DEF s
<1>3. /\ Hierarchy(out.levels) /\ g \in 0..(Len(out.levels) - 1) /\ out.sweeps \in Nat
      /\ (GoesDown(s, out) /\ s = "of_gamg") \/ AtResidual(s, out)
  BY <1>1, <1>2, Placed
<1>4. /\ out.levels[g + 1].nc = SizeAt(out.levels, h) /\ g \in Nat /\ h \in 0..(Len(out.levels) - 1)
      /\ Len(out.levels) \in Nat
  <2>1. /\ out.levels[g + 1].nc = SizeAt(out.levels, g + 1) /\ g \in Nat /\ g + 1 < Len(out.levels)
        /\ Len(out.levels) \in Nat
    BY <1>1, <1>3, GridIs
  <2> QED BY <2>1
<1>5. NPRE[s] \in Nat /\ (s = "of_gamg" => NPRE[s] = 0) BY <1>2, SolverCounts
<1>6. Walk(out.levels, out.frames, g) BY <1>3 DEF GoesDown, AtResidual
<1>7. MarkAt(out.levels, "restrict", h) = h /\ GoesOn(g, h) BY <1>4 DEF MarkAt, Descending, GoesOn
<1> HIDE DEF g, h
<1>8. /\ out' = CycleState(out'.at, out'.n, out'.faces, out'.levels, out'.grid, out'.sweeps, out'.frames)
      /\ out'.at = "down" /\ out'.levels = out.levels /\ out'.grid = h /\ out'.sweeps = NPRE[s]
      /\ Hierarchy(out'.levels) /\ out'.grid \in 0..(Len(out'.levels) - 1) /\ out'.sweeps \in Nat
      /\ Walk(out'.levels, out'.frames, h) /\ FineSweeps(out.frames) \in Nat
      /\ FineSweeps(out'.frames) = FineSweeps(out.frames)
           + (IF h = 0 /\ "restrict" \in {"presmooth", "postsmooth"} THEN 1 ELSE 0)
      /\ in' = in
  BY <1>1, <1>2, <1>4, <1>5, <1>6, <1>7, FrameAdded
<1>9. FineSweeps(out.frames) = NPRE[s]
  <2>1. CASE GoesDown(s, out) /\ s = "of_gamg"
    <3>1. FineSweeps(out.frames) = IF g = 0 THEN 0 - out.sweeps ELSE 0
      BY <1>5, <2>1 DEF GoesDown, g
    <3> QED BY <1>3, <1>5, <1>8, <2>1, <3>1
  <2>2. CASE AtResidual(s, out) BY <2>2 DEF AtResidual
  <2> QED BY <1>3, <2>1, <2>2
<1>10. h # 0 BY <1>4 DEF h
<1>11. FineSweeps(out'.frames) = NPRE[s] BY <1>5, <1>8, <1>9
<1>12. GoesDown(s, out') BY <1>8, <1>10, <1>11 DEF GoesDown
<1>13. CycleInv(s, out') BY <1>8, <1>12 DEF CycleInv
<1> QED BY <1>8, <1>13 DEF s

(* At the bottom the product of coarse vector and operator has to fit.      *)
LEMMA BottomFits ==
  ASSUME CycleInv(Solver, out), out.at = "down", Here.nc = 0
  PROVE  /\ out.grid + 1 = Len(out.levels) /\ Len(out.levels) \in Nat /\ out.grid \in Nat
         /\ Fits <=> Fitting(Solver, out.levels)
<1>1. Hierarchy(out.levels) /\ out.grid \in 0..(Len(out.levels) - 1)
  BY DEF CycleInv
<1>2. out.grid + 1 = Len(out.levels) /\ Len(out.levels) \in Nat /\ out.grid \in Nat
  BY <1>1, GridIs DEF Here
<1>3. out.grid = Len(out.levels) - 1 /\ (out.grid = 0 <=> Len(out.levels) = 1) BY ONLY <1>2, LastGrid
<1>4. Here = out.levels[Len(out.levels)] BY <1>2 DEF Here
<1> QED BY <1>2, <1>3, <1>4 DEF Fits, Fitting

LEMMA CoarseSolves ==
  ASSUME Solver \in Solvers, CycleInv(Solver, out), CoarseSolve
  PROVE  CycleInv(Solver, out') /\ in' = in
<1> DEFINE s == Solver
           g == out.grid
           L == Len(out.levels)
<1> HIDE DEF s
<1>1. /\ out.at = "down" /\ Here.nc = 0 /\ Fits
      /\ Emit("coarse_solve", g, out.levels[g + 1].n, "up", 0)
  BY DEF CoarseSolve, At, Here
<1>2. CycleInv(s, out) /\ s \in Solvers BY DEF s
<1>3. GoesDown(s, out) /\ Hierarchy(out.levels) /\ g \in 0..(L - 1) /\ out.sweeps \in Nat
  BY <1>1, <1>2, Placed
<1>4. g + 1 = L /\ L \in Nat /\ g \in Nat /\ Fitting(s, out.levels)
  <2>1. /\ out.grid + 1 = Len(out.levels) /\ Len(out.levels) \in Nat /\ out.grid \in Nat
        /\ Fits <=> Fitting(Solver, out.levels)
    BY <1>1, BottomFits
  <2> QED BY <1>1, <2>1 DEF s
<1>5. out.levels[g + 1].n = SizeAt(out.levels, g)
  <2>1. CASE L = 1
    <3>1. g = 0 BY <1>4, <2>1
    <3> QED BY <3>1 DEF SizeAt
  <2>2. CASE L # 1
    <3>1. g # 0 /\ L - 1 = g BY <1>4, <2>2, LastGrid
    <3> QED BY <1>4, <2>2, <3>1 DEF SizeAt, Fitting
  <2> QED BY <2>1, <2>2
<1>6. Walk(out.levels, out.frames, g) BY <1>3 DEF GoesDown
<1> DEFINE j == 2 * L - 2 - g
<1>7. MarkAt(out.levels, "coarse_solve", g) = j /\ GoesOn(g, j)
  <2>1. j = g BY <1>4, LastGrid
  <2> QED BY <1>4, <2>1 DEF MarkAt, Descending, GoesOn
<1> HIDE DEF g, j, L
<1>8. /\ out' = CycleState(out'.at, out'.n, out'.faces, out'.levels, out'.grid, out'.sweeps, out'.frames)
      /\ out'.at = "up" /\ out'.levels = out.levels /\ out'.grid = g /\ out'.sweeps = 0
      /\ Hierarchy(out'.levels) /\ out'.grid \in 0..(Len(out'.levels) - 1) /\ out'.sweeps \in Nat
      /\ Walk(out'.levels, out'.frames, j) /\ FineSweeps(out.frames) \in Nat
      /\ FineSweeps(out'.frames) = FineSweeps(out.frames)
           + (IF g = 0 /\ "coarse_solve" \in {"presmooth", "postsmooth"} THEN 1 ELSE 0)
      /\ Deepest(out.levels, out.frames) \/ g = Len(out.levels) - 1 => Deepest(out'.levels, out'.frames)
      /\ in' = in
  <2>1. g \in 0..(Len(out.levels) - 1) /\ 0 \in Nat BY <1>3 DEF L
  <2> QED BY <1>1, <1>2, <1>5, <1>6, <1>7, <2>1, FrameAdded
<1>9. FineSweeps(out.frames) = IF g = 0 THEN NPRE[s] - out.sweeps ELSE NPRE[s] BY <1>3 DEF GoesDown, g
<1>10. NPRE[s] \in Nat BY <1>2, SolverCounts
<1>11. L > 1 => g > 0 BY <1>4
<1>12. L > 1 => FineSweeps(out'.frames) = NPRE[s] BY <1>4, <1>8, <1>9, <1>10, <1>11
<1>13. Deepest(out'.levels, out'.frames)
  <2>1. g = L - 1 BY <1>4
  <2> QED BY <1>8, <2>1 DEF L
<1>14. Len(out'.levels) = L /\ out'.levels = out.levels BY <1>8 DEF L
<1>15. Walk(out'.levels, out'.frames, 2 * Len(out'.levels) - 2 - out'.grid)
  BY <1>8, <1>14 DEF j
<1>16. Returns(s, out') BY <1>4, <1>8, <1>11, <1>12, <1>13, <1>14, <1>15 DEF Returns
<1>17. GoesUp(s, out') BY <1>8, <1>16 DEF GoesUp
<1>18. CycleInv(s, out') BY <1>8, <1>17 DEF CycleInv
<1> QED BY <1>8, <1>18 DEF s

LEMMA Raises ==
  ASSUME Solver \in Solvers, CycleInv(Solver, out), RaiseShapes
  PROVE  CycleInv(Solver, out') /\ in' = in
<1> DEFINE s == Solver
<1> HIDE DEF s
<1>1. out.at = "down" /\ Here.nc = 0 /\ ~Fits /\ out' = [out EXCEPT !.at = "raised"] /\ in' = in
  BY DEF RaiseShapes, At
<1>2. CycleInv(s, out) /\ s \in Solvers BY DEF s
<1>3. /\ GoesDown(s, out) /\ Hierarchy(out.levels) /\ out.grid \in 0..(Len(out.levels) - 1)
      /\ out.sweeps \in Nat
  BY <1>1, <1>2, Placed
<1>4. ~Fitting(s, out.levels)
  <2>1. Fits <=> Fitting(Solver, out.levels) BY <1>1, BottomFits
  <2> QED BY <1>1, <2>1 DEF s
<1>5. out = CycleState(out.at, out.n, out.faces, out.levels, out.grid, out.sweeps, out.frames)
  BY <1>2 DEF CycleInv
<1>6. out' = CycleState("raised", out.n, out.faces, out.levels, out.grid, out.sweeps, out.frames)
  BY <1>1, <1>5 DEF CycleState
<1>7. /\ out' = CycleState(out'.at, out'.n, out'.faces, out'.levels, out'.grid, out'.sweeps, out'.frames)
      /\ out'.at = "raised" /\ out'.levels = out.levels /\ out'.grid = out.grid
      /\ out'.sweeps = out.sweeps /\ out'.frames = out.frames
  BY <1>6, FieldsOf
<1>8. HasRaised(s, out') BY <1>3, <1>4, <1>7 DEF HasRaised, GoesDown, Walk
<1>9. CycleInv(s, out') BY <1>3, <1>7, <1>8 DEF CycleInv
<1> QED BY <1>1, <1>9 DEF s

LEMMA Prolongs ==
  ASSUME Solver \in Solvers, CycleInv(Solver, out), Prolong
  PROVE  CycleInv(Solver, out') /\ in' = in
<1> DEFINE s == Solver
           g == out.grid
           h == g - 1
           L == Len(out.levels)
           j == 2 * L - 2 - h
<1> HIDE DEF s
<1>1. /\ out.at = "up" /\ out.sweeps = 0 /\ g > 0
      /\ Emit("prolong", h, out.levels[g].n, "up", PostSweeps(s, h))
  BY DEF Prolong, At, s
<1>2. CycleInv(s, out) /\ s \in Solvers BY DEF s
<1>3. GoesUp(s, out) /\ Hierarchy(out.levels) /\ g \in 0..(L - 1) BY <1>1, <1>2, Placed
<1>4. L \in Nat /\ g \in Nat /\ h \in 0..(L - 1) /\ h + 1 = g /\ h + 1 < L /\ h \in Nat
  <2>1. L \in Nat /\ g \in Nat BY <1>3, GridIs
  <2> QED BY <1>1, <1>3, <2>1
<1>5. out.levels[g].n = SizeAt(out.levels, h)
  <2>1. h + 1 < L => out.levels[h + 1].n = SizeAt(out.levels, h) BY <1>3, <1>4, GridIs
  <2> QED BY <1>4, <2>1
<1>6. Walk(out.levels, out.frames, 2 * L - 2 - g) BY <1>3 DEF GoesUp, Returns
<1>7. MarkAt(out.levels, "prolong", h) = j /\ GoesOn(2 * L - 2 - g, j)
  BY <1>4 DEF MarkAt, Descending, GoesOn
<1>8. PostSweeps(s, h) \in Nat /\ PostSweeps(s, 0) \in Nat /\ NPRE[s] \in Nat BY <1>2, SolverCounts
<1> HIDE DEF g, h, j, L
<1>9. /\ out' = CycleState(out'.at, out'.n, out'.faces, out'.levels, out'.grid, out'.sweeps, out'.frames)
      /\ out'.at = "up" /\ out'.levels = out.levels /\ out'.grid = h /\ out'.sweeps = PostSweeps(s, h)
      /\ Hierarchy(out'.levels) /\ out'.grid \in 0..(Len(out'.levels) - 1) /\ out'.sweeps \in Nat
      /\ Walk(out'.levels, out'.frames, j) /\ FineSweeps(out.frames) \in Nat
      /\ FineSweeps(out'.frames) = FineSweeps(out.frames)
           + (IF h = 0 /\ "prolong" \in {"presmooth", "postsmooth"} THEN 1 ELSE 0)
      /\ Deepest(out.levels, out.frames) \/ h = Len(out.levels) - 1 => Deepest(out'.levels, out'.frames)
      /\ in' = in
  <2>1. h \in 0..(Len(out.levels) - 1) BY <1>4 DEF L
  <2> QED BY <1>1, <1>2, <1>5, <1>6, <1>7, <1>8, <2>1, FrameAdded, SMTT(60)
<1>10. /\ Fitting(s, out.levels) /\ Deepest(out.levels, out.frames)
       /\ L > 1 => FineSweeps(out.frames) = NPRE[s]
  <2>1. out.grid > 0 BY <1>1 DEF g
  <2> QED BY <1>3, <2>1 DEF GoesUp, Returns, L
<1>11. L > 1 => FineSweeps(out'.frames) = IF h > 0 THEN NPRE[s] ELSE NPRE[s] + PostSweeps(s, 0) - PostSweeps(s, h)
  <2>1. CASE h > 0 BY <1>8, <1>9, <1>10, <2>1
  <2>2. CASE ~(h > 0)
    <3>1. h = 0 BY <1>4, <2>2
    <3> QED BY <1>8, <1>9, <1>10, <3>1
  <2> QED BY <2>1, <2>2
<1>12. Len(out'.levels) = L /\ Deepest(out'.levels, out'.frames) /\ Fitting(s, out'.levels)
  BY <1>9, <1>10 DEF L
<1>13. Walk(out'.levels, out'.frames, 2 * Len(out'.levels) - 2 - out'.grid) BY <1>9, <1>12 DEF j
<1>14. Returns(s, out') BY <1>9, <1>11, <1>12, <1>13 DEF Returns
<1>15. GoesUp(s, out') BY <1>4, <1>9, <1>12, <1>14 DEF GoesUp
<1>16. CycleInv(s, out') BY <1>9, <1>15 DEF CycleInv
<1> QED BY <1>9, <1>16 DEF s

LEMMA PostSmooths ==
  ASSUME Solver \in Solvers, CycleInv(Solver, out), PostSmooth
  PROVE  CycleInv(Solver, out') /\ in' = in
<1> DEFINE s == Solver
           g == out.grid
           L == Len(out.levels)
           j == 2 * L - 2 - g
<1> HIDE DEF s
<1>1. /\ out.at = "up" /\ out.sweeps > 0
      /\ Emit("postsmooth", g, out.levels[g + 1].n, "up", out.sweeps - 1)
  BY DEF PostSmooth, At, Here
<1>2. CycleInv(s, out) /\ s \in Solvers BY DEF s
<1>3. GoesUp(s, out) /\ Hierarchy(out.levels) /\ g \in 0..(L - 1) /\ out.sweeps \in Nat
  BY <1>1, <1>2, Placed
<1>4. L \in Nat /\ g \in Nat /\ g + 1 < L
  <2>1. L \in Nat /\ g \in Nat BY <1>3, GridIs
  <2> QED BY <1>1, <1>3, <2>1 DEF GoesUp
<1>5. out.levels[g + 1].n = SizeAt(out.levels, g) BY <1>3, <1>4, GridIs
<1>6. Walk(out.levels, out.frames, j) BY <1>3 DEF GoesUp, Returns
<1>7. MarkAt(out.levels, "postsmooth", g) = j /\ GoesOn(j, j)
  BY <1>4 DEF MarkAt, Descending, GoesOn
<1>8. PostSweeps(s, 0) \in Nat /\ NPRE[s] \in Nat /\ out.sweeps - 1 \in Nat
  <2>1. PostSweeps(s, 0) \in Nat /\ NPRE[s] \in Nat BY <1>2, SolverCounts
  <2> QED BY <1>1, <1>3, <2>1
<1> HIDE DEF g, j, L
<1>9. /\ out' = CycleState(out'.at, out'.n, out'.faces, out'.levels, out'.grid, out'.sweeps, out'.frames)
      /\ out'.at = "up" /\ out'.levels = out.levels /\ out'.grid = g /\ out'.sweeps = out.sweeps - 1
      /\ Hierarchy(out'.levels) /\ out'.grid \in 0..(Len(out'.levels) - 1) /\ out'.sweeps \in Nat
      /\ Walk(out'.levels, out'.frames, j) /\ FineSweeps(out.frames) \in Nat
      /\ FineSweeps(out'.frames) = FineSweeps(out.frames)
           + (IF g = 0 /\ "postsmooth" \in {"presmooth", "postsmooth"} THEN 1 ELSE 0)
      /\ Deepest(out.levels, out.frames) \/ g = Len(out.levels) - 1 => Deepest(out'.levels, out'.frames)
      /\ in' = in
  <2>1. g \in 0..(Len(out.levels) - 1) BY <1>3 DEF L
  <2> QED BY <1>1, <1>2, <1>5, <1>6, <1>7, <1>8, <2>1, FrameAdded
<1>10. /\ Fitting(s, out.levels) /\ Deepest(out.levels, out.frames)
       /\ L > 1 => FineSweeps(out.frames)
                     = IF g > 0 THEN NPRE[s] ELSE NPRE[s] + PostSweeps(s, 0) - out.sweeps
  BY <1>3 DEF GoesUp, Returns, L, g
<1>11. L > 1 => FineSweeps(out'.frames)
                  = IF g > 0 THEN NPRE[s] ELSE NPRE[s] + PostSweeps(s, 0) - (out.sweeps - 1)
  <2>1. CASE g > 0
    <3>1. g # 0 BY <1>4, <2>1
    <3> QED BY <1>8, <1>9, <1>10, <2>1, <3>1
  <2>2. CASE ~(g > 0)
    <3>1. g = 0 BY <1>4, <2>2
    <3> QED BY <1>3, <1>8, <1>9, <1>10, <3>1
  <2> QED BY <2>1, <2>2
<1>12. Len(out'.levels) = L /\ Deepest(out'.levels, out'.frames) /\ Fitting(s, out'.levels)
  BY <1>9, <1>10 DEF L
<1>13. Walk(out'.levels, out'.frames, 2 * Len(out'.levels) - 2 - out'.grid) BY <1>9, <1>12 DEF j
<1>14. Returns(s, out') BY <1>9, <1>11, <1>12, <1>13 DEF Returns
<1>15. GoesUp(s, out') BY <1>4, <1>9, <1>12, <1>14 DEF GoesUp
<1>16. CycleInv(s, out') BY <1>9, <1>15 DEF CycleInv
<1> QED BY <1>9, <1>16 DEF s

LEMMA KrylovUpdates ==
  ASSUME Solver \in Solvers, CycleInv(Solver, out), KrylovUpdate
  PROVE  CycleInv(Solver, out') /\ in' = in
<1> DEFINE s == Solver
           g == out.grid
           L == Len(out.levels)
           j == 2 * L - 2 - g
<1> HIDE DEF s
<1>1. /\ out.at = "up" /\ out.sweeps = 0 /\ g = 0
      /\ Emit("krylov_update", g, out.levels[g + 1].n, "done", 0)
  <2>1. out.grid = 0 BY DEF KrylovUpdate
  <2>2. Emit("krylov_update", 0, out.levels[out.grid + 1].n, "done", 0) BY DEF KrylovUpdate, Here
  <2>3. Emit("krylov_update", out.grid, out.levels[out.grid + 1].n, "done", 0) BY <2>1, <2>2
  <2> QED BY <2>1, <2>3 DEF KrylovUpdate, At
<1>2. CycleInv(s, out) /\ s \in Solvers BY DEF s
<1>3. GoesUp(s, out) /\ Hierarchy(out.levels) /\ g \in 0..(L - 1)
  BY <1>1, <1>2, Placed
<1>4. L \in Nat /\ out.levels[g + 1].n = SizeAt(out.levels, g)
  <2>1. g + 1 = 1 BY <1>1
  <2>2. L \in Nat /\ out.levels[1].n = SizeAt(out.levels, 0) BY <1>3, GridIs
  <2> QED BY <1>1, <2>1, <2>2
<1>6. Walk(out.levels, out.frames, j) BY <1>1, <1>3 DEF GoesUp, Returns
<1>7. MarkAt(out.levels, "krylov_update", g) = j /\ GoesOn(j, j)
  BY <1>1, <1>4 DEF MarkAt, Descending, GoesOn
<1>8. PostSweeps(s, 0) \in Nat /\ NPRE[s] \in Nat BY <1>2, SolverCounts
<1> HIDE DEF g, j, L
<1>9. /\ out' = CycleState(out'.at, out'.n, out'.faces, out'.levels, out'.grid, out'.sweeps, out'.frames)
      /\ out'.at = "done" /\ out'.levels = out.levels /\ out'.grid = g /\ out'.sweeps = 0
      /\ Hierarchy(out'.levels) /\ out'.grid \in 0..(Len(out'.levels) - 1) /\ out'.sweeps \in Nat
      /\ Walk(out'.levels, out'.frames, j) /\ FineSweeps(out.frames) \in Nat
      /\ FineSweeps(out'.frames) = FineSweeps(out.frames)
           + (IF g = 0 /\ "krylov_update" \in {"presmooth", "postsmooth"} THEN 1 ELSE 0)
      /\ Deepest(out.levels, out.frames) \/ g = Len(out.levels) - 1 => Deepest(out'.levels, out'.frames)
      /\ in' = in
  <2>1. g \in 0..(Len(out.levels) - 1) /\ 0 \in Nat BY <1>3 DEF L
  <2>2. Emit("krylov_update", g, out.levels[g + 1].n, "done", 0) BY <1>1
  <2> QED BY <1>2, <1>4, <1>6, <1>7, <2>1, <2>2, FrameAdded
<1>10. /\ Fitting(s, out.levels) /\ Deepest(out.levels, out.frames)
       /\ L > 1 => FineSweeps(out.frames) = NPRE[s] + PostSweeps(s, 0) - 0
  <2>1. out.sweeps = 0 /\ ~(out.grid > 0) BY <1>1 DEF g
  <2> QED BY <1>3, <2>1 DEF GoesUp, Returns, L
<1>11. L > 1 => FineSweeps(out'.frames) = NPRE[s] + PostSweeps(s, 0) - 0
  BY <1>8, <1>9, <1>10
<1>12. Len(out'.levels) = L /\ Deepest(out'.levels, out'.frames) /\ Fitting(s, out'.levels)
  BY <1>9, <1>10 DEF L
<1>13. Walk(out'.levels, out'.frames, 2 * Len(out'.levels) - 2 - out'.grid) BY <1>9, <1>12 DEF j
<1>14. Returns(s, out') BY <1>1, <1>9, <1>11, <1>12, <1>13 DEF Returns
<1>15. IsDone(s, out') BY <1>1, <1>9, <1>14 DEF IsDone
<1>16. CycleInv(s, out') BY <1>9, <1>15 DEF CycleInv
<1> QED BY <1>9, <1>16 DEF s

TraceInv(t, o) == t \in Traces /\ (BuildInv(t, o) \/ CycleInv(t.solver, o))

LEMMA TraceLoaded ==
  ASSUME LoadTrace
  PROVE  in' = [tool |-> "trace", trace |-> in'.trace] /\ TraceInv(in'.trace, out')
<1>1. PICK t \in Traces :
        /\ in' = [tool |-> "trace", trace |-> t]
        /\ out' = [at |-> "build", n |-> t.mesh.n, faces |-> t.mesh.faces, levels |-> <<>>,
                   grid |-> 0, sweeps |-> 0, frames |-> <<>>]
  BY DEF LoadTrace
<1>2. out' = BuildState("build", t.mesh.n, t.mesh.faces, <<>>) BY <1>1 DEF BuildState
<1>3. BuildInv(t, out') BY <1>2, BuildStarts
<1> QED BY <1>1, <1>3 DEF TraceInv

(* A hierarchy to start on.                                                 *)
LEMMA HierarchyBegins ==
  ASSUME NEW s, NEW o, NEW n, NEW faces, NEW levels, Hierarchy(levels),
         o = BuildState("begin", n, faces, levels)
  PROVE  CycleInv(s, o)
<1>1. o = CycleState("begin", n, faces, levels, 0, 0, <<>>) BY DEF BuildState, CycleState
<1>2. /\ o = CycleState(o.at, o.n, o.faces, o.levels, o.grid, o.sweeps, o.frames)
      /\ o.at = "begin" /\ o.levels = levels /\ o.grid = 0 /\ o.sweeps = 0 /\ o.frames = <<>>
  BY <1>1, FieldsOf
<1>3. 0 \in 0..(Len(levels) - 1) BY DEF Hierarchy
<1> QED BY <1>2, <1>3 DEF CycleInv

WithLast(o, r) == [o EXCEPT !.levels = r, !.at = "begin"]
Grown(o, r, n, faces) == [o EXCEPT !.levels = r, !.n = n, !.faces = faces]
LEMMA Rebuilt ==
  ASSUME NEW o, NEW r, NEW n, NEW faces,
         o = CycleState(o.at, o.n, o.faces, o.levels, o.grid, o.sweeps, o.frames)
  PROVE  /\ WithLast(o, r) = CycleState("begin", o.n, o.faces, r, o.grid, o.sweeps, o.frames)
         /\ Grown(o, r, n, faces) = CycleState(o.at, n, faces, r, o.grid, o.sweeps, o.frames)
<1>1. ASSUME NEW p, p = [o EXCEPT !.levels = r, !.at = "begin"]
      PROVE  p = CycleState("begin", o.n, o.faces, r, o.grid, o.sweeps, o.frames)
  BY <1>1 DEF CycleState
<1>2. ASSUME NEW p, p = [o EXCEPT !.levels = r, !.n = n, !.faces = faces]
      PROVE  p = CycleState(o.at, n, faces, r, o.grid, o.sweeps, o.frames)
  BY <1>2 DEF CycleState
<1> QED BY <1>1, <1>2 DEF WithLast, Grown

LEMMA BuildStep ==
  ASSUME NEW t, t \in Traces, in.trace = t, BuildInv(t, out), AddLevel \/ FlatLevel \/ LastLevel
  PROVE  TraceInv(t, out') /\ in' = in
<1> DEFINE g == Len(out.levels) + 1
           agg == Aggregated(t, g, out.faces, out.n)
           l == Level(out.n, out.faces, agg)
           c == Coarsest(out.n, out.faces)
<1>1. out = [at |-> "build", n |-> out.n, faces |-> out.faces, levels |-> out.levels,
             grid |-> 0, sweeps |-> 0, frames |-> <<>>]
  BY DEF BuildInv
<1>0. /\ out = CycleState(out.at, out.n, out.faces, out.levels, out.grid, out.sweeps, out.frames)
      /\ out.grid = 0 /\ out.sweeps = 0 /\ out.at = "build" /\ out.frames = <<>>
  <2>1. out = CycleState("build", out.n, out.faces, out.levels, 0, 0, <<>>) BY <1>1 DEF CycleState
  <2> QED BY <2>1, FieldsOf
<1>2. CASE AddLevel
  <2>1. /\ Coarsens(t, g, out.faces, out.n) /\ CoarsePairs(out.faces, agg.map) # {}
        /\ out' = [out EXCEPT !.levels = Append(out.levels, l), !.n = agg.nc,
                              !.faces = CoarseFaces(out.faces, agg.map)]
        /\ in' = in
    BY <1>2 DEF AddLevel, Building, NextMap, ThisLevel
  <2> HIDE DEF l
  <2>2. out' = BuildState("build", agg.nc, CoarseFaces(out.faces, agg.map), Extended(out.levels, l))
    <3> DEFINE r == Append(out.levels, l)
               faces == CoarseFaces(out.faces, agg.map)
    <3>1. out' = Grown(out, r, agg.nc, faces) BY <2>1 DEF Grown
    <3>2. BuildState("build", agg.nc, faces, r) = CycleState("build", agg.nc, faces, r, 0, 0, <<>>)
      BY DEF BuildState, CycleState
    <3> HIDE DEF r, agg, faces
    <3>3. out' = CycleState("build", agg.nc, faces, r, 0, 0, <<>>) BY <1>0, <3>1, Rebuilt
    <3>4. r = Extended(out.levels, l) BY DEF r, Extended
    <3> QED BY <3>2, <3>3, <3>4 DEF faces
  <2>3. out' = BuildState("build", agg.nc, CoarseFaces(out.faces, agg.map),
                          Extended(out.levels, Level(out.n, out.faces, agg)))
    BY <2>2 DEF l
  <2>4. BuildInv(t, out')
    <3> HIDE DEF agg
    <3>1. agg = Aggregated(t, Len(out.levels) + 1, out.faces, out.n) BY DEF agg
    <3> QED BY <2>1, <2>3, <3>1, LevelAdded
  <2> QED BY <2>1, <2>4 DEF TraceInv
<1>3. CASE FlatLevel
  <2>1. /\ Coarsens(t, g, out.faces, out.n) /\ CoarsePairs(out.faces, agg.map) = {}
        /\ out' = [out EXCEPT !.levels = Append(Append(out.levels, l), c), !.at = "begin"]
        /\ in' = in
    BY <1>3 DEF FlatLevel, Building, NextMap, ThisLevel
  <2> DEFINE levels == Extended(Extended(out.levels, l), c)
  <2>2. out' = BuildState("begin", out.n, out.faces, levels)
    <3> DEFINE r == Append(Append(out.levels, l), c)
    <3>1. out' = WithLast(out, r) BY <2>1 DEF WithLast
    <3>2. BuildState("begin", out.n, out.faces, r) = CycleState("begin", out.n, out.faces, r, 0, 0, <<>>)
      BY DEF BuildState, CycleState
    <3> HIDE DEF r
    <3>3. out' = CycleState("begin", out.n, out.faces, r, 0, 0, <<>>) BY <1>0, <3>1, Rebuilt
    <3>4. r = levels BY DEF r, Extended
    <3> QED BY <3>2, <3>3, <3>4
  <2>3. Hierarchy(levels)
    <3>1. agg = Aggregated(t, Len(out.levels) + 1, out.faces, out.n) OBVIOUS
    <3> HIDE DEF agg
    <3> QED BY <2>1, <3>1, LevelsFlat
  <2> HIDE DEF levels
  <2>4. CycleInv(t.solver, out') BY <2>2, <2>3, HierarchyBegins
  <2> QED BY <2>1, <2>4 DEF TraceInv
<1>4. CASE LastLevel
  <2>1. out' = [out EXCEPT !.levels = Append(out.levels, c), !.at = "begin"] /\ in' = in
    BY <1>4 DEF LastLevel
  <2> DEFINE levels == Extended(out.levels, c)
  <2>2. out' = BuildState("begin", out.n, out.faces, levels)
    <3> DEFINE r == Append(out.levels, c)
    <3>1. out' = WithLast(out, r) BY <2>1 DEF WithLast
    <3>2. BuildState("begin", out.n, out.faces, r) = CycleState("begin", out.n, out.faces, r, 0, 0, <<>>)
      BY DEF BuildState, CycleState
    <3> HIDE DEF r
    <3>3. out' = CycleState("begin", out.n, out.faces, r, 0, 0, <<>>) BY <1>0, <3>1, Rebuilt
    <3>4. r = levels BY DEF r, Extended
    <3> QED BY <3>2, <3>3, <3>4
  <2>3. Hierarchy(levels) BY LevelsEnded
  <2> HIDE DEF levels
  <2>4. CycleInv(t.solver, out') BY <2>2, <2>3, HierarchyBegins
  <2> QED BY <2>1, <2>4 DEF TraceInv
<1> QED BY <1>2, <1>3, <1>4

LEMMA TraceStep ==
  ASSUME in.tool = "trace", TraceInv(in.trace, out), TraceSolver
  PROVE  TraceInv(in.trace, out') /\ in' = in
<1> DEFINE t == in.trace
<1>1. t \in Traces /\ Solver = t.solver /\ Solver \in Solvers BY TracesAssumption DEF TraceInv, Solver
<1>2. ~LoadTrace
  <2>1. in # Idle BY DEF Idle
  <2> QED BY <2>1 DEF LoadTrace
<1>3. CASE AddLevel \/ FlatLevel \/ LastLevel
  <2>1. out.at = "build" BY <1>3 DEF AddLevel, FlatLevel, LastLevel, Building, At
  <2>2. ~CycleInv(t.solver, out)
    BY <2>1 DEF CycleInv, GoesDown, AtResidual, GoesUp, IsDone, HasRaised
  <2>3. BuildInv(t, out) BY <2>2 DEF TraceInv
  <2> QED BY <1>1, <1>3, <2>3, BuildStep
<1>4. CASE KrylovStart \/ PreSmooth \/ Residual \/ RestrictResidual \/ CoarseSolve \/ RaiseShapes
           \/ Prolong \/ PostSmooth \/ KrylovUpdate
  <2>1. out.at # "build"
    BY <1>4 DEF KrylovStart, PreSmooth, Residual, RestrictResidual, CoarseSolve, RaiseShapes,
                Prolong, PostSmooth, KrylovUpdate, At
  <2>2. ~BuildInv(t, out) BY <2>1 DEF BuildInv
  <2>3. CycleInv(Solver, out) BY <1>1, <2>2 DEF TraceInv
  <2>4. CycleInv(Solver, out') /\ in' = in
    BY <1>1, <1>4, <2>3, KrylovStarts, PreSmooths, Residuals, Restricts, CoarseSolves, Raises,
       Prolongs, PostSmooths, KrylovUpdates
  <2> QED BY <1>1, <2>4 DEF TraceInv
<1> QED BY <1>2, <1>3, <1>4 DEF TraceSolver

(* The levels on the screen are those of the hierarchy.                     *)
LEMMA LevelsShown ==
  ASSUME NEW levels, NEW frames, Hierarchy(levels), IsSequence(frames),
         \A i \in 1..Len(frames) : OnGrid(levels, frames[i]), Deepest(levels, frames)
  PROVE  n_levels(frames) = Len(levels)
<1> DEFINE S == {frames[i].grid : i \in DOMAIN frames}
           L == Len(levels)
<1>1. DOMAIN frames = 1..Len(frames) BY DEF IsSequence
<1>2. L \in Nat /\ L > 0 BY DEF Hierarchy
<1>3. \A x \in S : x \in 0..(L - 1) BY <1>1 DEF OnGrid
<1>4. L - 1 \in S BY <1>1 DEF Deepest
<1> HIDE DEF S
<1>5. L - 1 \in S /\ \A x \in S : L - 1 >= x BY <1>2, <1>3, <1>4
<1>6. Max(S) \in S /\ \A x \in S : Max(S) >= x BY <1>5 DEF Max
<1>7. Max(S) = L - 1
  <2>1. Max(S) \in 0..(L - 1) /\ Max(S) >= L - 1 BY <1>3, <1>4, <1>6
  <2> QED BY <1>2, <2>1
<1>8. Max(S) + 1 = L BY <1>2, <1>7
<1> QED BY <1>8 DEF n_levels, S

Lost(levels) ==
  \E g \in 1..(Len(levels) - 1) : ~LeavesFace(levels[g]) /\ levels[g].nc # levels[g].n
LEMMA FittingIs ==
  ASSUME NEW s, NEW levels, Hierarchy(levels)
  PROVE  Fitting(s, levels) <=> ~(Lost(levels) \/ (s = "of_gamg" /\ Len(levels) = 1))
<1> DEFINE L == Len(levels)
<1>1. L \in Nat /\ L > 0 BY DEF Hierarchy
<1>2. CASE L = 1
  <2>1. 1..(L - 1) = {} BY <1>2
  <2>2. ~Lost(levels) BY <2>1 DEF Lost
  <2> QED BY <1>2, <2>2 DEF Fitting
<1>3. CASE L # 1
  <2>1. L > 1 /\ L - 1 \in 1..(L - 1) /\ \A g \in 1..(L - 1) : g \in 1..(L - 2) \/ g = L - 1
    <3> HIDE DEF L
    <3>1. L > 1 BY <1>1, <1>3
    <3> QED BY <1>1, <3>1
  <2>2. Lost(levels) <=> ~LeavesFace(levels[L - 1]) /\ levels[L - 1].nc # levels[L - 1].n
    <3>1. \A g \in 1..(L - 2) : LeavesFace(levels[g]) BY DEF Hierarchy
    <3> HIDE DEF L
    <3>2. Lost(levels) <=> \E g \in 1..(L - 1) : ~LeavesFace(levels[g]) /\ levels[g].nc # levels[g].n
      BY DEF Lost, L
    <3> QED BY <2>1, <3>1, <3>2
  <2>3. Fitting(s, levels) <=> levels[L - 1].nc = levels[L].n BY <1>3 DEF Fitting
  <2>4. IF LeavesFace(levels[L - 1]) THEN MadeOf(levels[L], levels[L - 1]) ELSE levels[L].n = levels[L - 1].n
    BY <2>1 DEF Hierarchy
  <2>5. LeavesFace(levels[L - 1]) => levels[L].n = levels[L - 1].nc BY <2>4 DEF MadeOf
  <2> HIDE DEF L
  <2>6. Fitting(s, levels) <=> ~Lost(levels) BY <2>2, <2>3, <2>4, <2>5
  <2> QED BY <1>3, <2>6 DEF L
<1> QED BY <1>2, <1>3

LEMMA TraceExact ==
  ASSUME in.tool = "trace", TraceInv(in.trace, out)
  PROVE  ReplayFollowsCycle
<1> DEFINE levels == out.levels
           frames == out.frames
           s == Solver
           L == Len(levels)
<1>1. in.trace \in Traces /\ s = in.trace.solver /\ s \in Solvers BY TracesAssumption DEF TraceInv, Solver
<1>2. CASE BuildInv(in.trace, out)
  <2>1. out = CycleState("build", out.n, out.faces, out.levels, 0, 0, <<>>) BY <1>2 DEF BuildInv, CycleState
  <2>2. out.at = "build" /\ out.frames = <<>> BY <2>1, FieldsOf
  <2>3. DOMAIN out.frames = {} BY <2>2
  <2> QED BY <2>2, <2>3 DEF ReplayFollowsCycle
<1>3. CASE CycleInv(s, out)
  <2>1. Hierarchy(levels) /\ L \in Nat /\ L > 0 BY <1>3 DEF CycleInv, Hierarchy
  <2>2. IsSequence(frames) /\ \A i \in 1..Len(frames) : OnGrid(levels, frames[i])
    <3>1. CASE out.at = "begin" /\ frames = <<>>
      <4>1. <<>> \in Seq({}) /\ Len(<<>>) = 0 OBVIOUS
      <4>2. IsSequence(<<>>) BY <4>1 DEF IsSequence
      <4>3. 1..Len(<<>>) = {} BY <4>1
      <4> QED BY <3>1, <4>2, <4>3
    <3>2. CASE GoesDown(s, out) \/ AtResidual(s, out) \/ GoesUp(s, out) \/ IsDone(s, out)
      BY <3>2 DEF GoesDown, AtResidual, GoesUp, IsDone, Returns, Walk
    <3>3. CASE HasRaised(s, out) BY <3>3 DEF HasRaised
    <3> QED BY <1>3, <3>1, <3>2, <3>3 DEF CycleInv
  <2>3. DOMAIN frames = 1..Len(frames) BY <2>2 DEF IsSequence
  <2>4. \A i \in DOMAIN frames : Painted(levels, frames[i]) BY <2>1, <2>2, <2>3, PaintedOnGrid
  <2>5. out.at = "raised" => Lost(levels) \/ (s = "of_gamg" /\ L = 1)
    <3>1. out.at = "raised" => ~Fitting(s, levels)
      BY <1>3 DEF CycleInv, GoesDown, AtResidual, GoesUp, IsDone, HasRaised
    <3> QED BY <2>1, <3>1, FittingIs
  <2>6. ASSUME out.at = "done"
        PROVE  /\ ~(Lost(levels) \/ (s = "of_gamg" /\ L = 1)) /\ WalksTheV(levels, frames, s)
               /\ \A g \in 1..(L - 1) : LeavesFace(levels[g]) => MadeOf(levels[g + 1], levels[g])
    <3>1. IsDone(s, out) BY <1>3, <2>6 DEF CycleInv, GoesDown, AtResidual, GoesUp, IsDone, HasRaised
    <3>2. /\ Fitting(s, levels) /\ Deepest(levels, frames) /\ Walk(levels, frames, 2 * L - 2 - 0)
          /\ L > 1 => FineSweeps(frames) = NPRE[s] + PostSweeps(s, 0) - 0
      <4>1. out.grid = 0 /\ out.sweeps = 0 /\ ~(0 > 0) BY <3>1 DEF IsDone
      <4> QED BY <3>1, <4>1 DEF IsDone, Returns
    <3>3. ~(Lost(levels) \/ (s = "of_gamg" /\ L = 1)) BY <2>1, <3>2, FittingIs
    <3>4. n_levels(frames) = L BY <2>1, <2>2, <3>2, LevelsShown
    <3>5. WalksTheV(levels, frames, s)
      <4> DEFINE mark == [i \in DOMAIN frames |-> Marker(L, frames[i])]
      <4>1. /\ Len(frames) \in Nat /\ Len(frames) > 0
            /\ Marker(L, frames[1]) = 0 /\ Marker(L, frames[Len(frames)]) = 2 * L - 2 - 0
            /\ \A i \in 1..(Len(frames) - 1) : Marker(L, frames[i + 1]) - Marker(L, frames[i]) \in {0, 1}
        BY <3>2 DEF Walk
      <4>2. /\ 1 \in DOMAIN frames /\ Len(frames) \in DOMAIN frames
            /\ \A i \in 1..(Len(frames) - 1) : i \in DOMAIN frames /\ i + 1 \in DOMAIN frames
        BY <2>3, <4>1
      <4>3. mark[1] = 0 /\ mark[Len(frames)] = 2 * L - 2 BY <2>1, <4>1, <4>2
      <4>4. \A i \in 1..(Len(frames) - 1) : mark[i + 1] - mark[i] \in {0, 1} BY <4>1, <4>2
      <4>5. s # "of_gamg" /\ L > 1 => FineSweeps(frames) = SweepsCharged[s]
        <5>1. /\ NPRE[s] \in Nat /\ PostSweeps(s, 0) \in Nat
              /\ s # "of_gamg" => NPRE[s] + PostSweeps(s, 0) = SweepsCharged[s]
          BY <1>1, SolverCounts
        <5>2. NPRE[s] + PostSweeps(s, 0) - 0 = NPRE[s] + PostSweeps(s, 0) BY <5>1
        <5> QED BY <3>2, <5>1, <5>2
      <4> HIDE DEF s, levels, frames, L
      <4>6. /\ L = Len(levels) /\ mark[1] = 0 /\ mark[Len(frames)] = 2 * L - 2
            /\ \A i \in 1..(Len(frames) - 1) : mark[i + 1] - mark[i] \in {0, 1}
            /\ s # "of_gamg" /\ L > 1 => FineSweeps(frames) = SweepsCharged[s]
        BY <4>3, <4>4, <4>5 DEF L
      <4> QED BY ONLY <3>4, <4>6 DEF WalksTheV, mark
    <3>6. ASSUME NEW g \in 1..(L - 1), LeavesFace(levels[g]) PROVE MadeOf(levels[g + 1], levels[g])
      <4>1. g \in 1..(L - 2) \/ (g = L - 1 /\ L > 1 /\ g + 1 = L) BY <2>1
      <4> QED BY <2>1, <3>6, <4>1 DEF Hierarchy
    <3> QED BY <3>3, <3>5, <3>6
  <2> QED BY <2>4, <2>5, <2>6 DEF ReplayFollowsCycle, Lost
<1> QED BY <1>1, <1>2, <1>3 DEF TraceInv
-----------------------------------------------------------------------------
(* The rules are computed from a counter and a size that are naturals, from *)
(* two texts, from a mesh, from a scalar or from what --check is run on; an *)
(* audit from a struct or a guard, from a header it reads along, or from a  *)
(* unit whose functions are run beside it; the frames of a cycle one by one *)
(* from a hierarchy that is built level by level.                           *)
Audited(p, o) ==
  /\ o = [filled |-> o.filled, omissions |-> o.omissions, exit |-> o.exit, done |-> o.done]
  /\ Crediting(p.fns, o.filled) /\ o.done \in BOOLEAN
  /\ o.done => /\ \A f, g \in DOMAIN p.fns : ~Adds(p.fns, o.filled, f, g)
               /\ o.omissions = Omissions(p, o.filled) /\ o.exit = Exit(p, o.filled, p.allow)

Argument == \/ /\ in.tool = "backoff" /\ in = [tool |-> "backoff", attempts |-> in.attempts]
               /\ in.attempts \in Nat
            \/ /\ in.tool = "size" /\ in = [tool |-> "size", bytes |-> in.bytes]
               /\ in.bytes \in Nat /\ in.bytes > 0 /\ out = classOf(in.bytes)
            \/ /\ in.tool = "copy"
               /\ in.copy \in Seq(Characters) /\ in.donor \in Seq(Characters)
               /\ out = Identical(in.copy, in.donor)
            \/ /\ in.tool = "coarsen" /\ in.mesh \in Meshes
               /\ out = pairwise_aggregate(in.mesh.faces, in.mesh.n)
            \/ in.tool = "scalar" /\ in.s \in Scalars /\ out = y(in.s)
            \/ in.tool = "manifest" /\ in.run \in ManifestRuns /\ out = CheckOf(in.run)
            \/ in.tool = "defaults" /\ in.struct \in Structs /\ Audited(in.struct, out)
            \/ in.tool = "header" /\ HeaderInv(in, out) /\ Linkage(in)
            \/ in.tool = "guard" /\ in.guard \in Guards /\ out = PointerOnly(in.guard)
            \/ in.tool = "resize" /\ in.unit \in Units /\ RunInv(in.unit, out)
            \/ in.tool = "trace" /\ TraceInv(in.trace, out)
IInv == Argument /\ (in.tool = "backoff" => out = resultBackoffSeconds(in.attempts))

LEMMA InitInvariant == Init => IInv
<1> SUFFICES ASSUME Init PROVE IInv
  OBVIOUS
<1>1. in.tool = "backoff" /\ in.attempts = 0 /\ out = 2
  BY DEF Init, Idle, kResultBackoffBaseSeconds
<1>2. resultBackoffSeconds(0) = 2
  BY DoubledIs DEF Delays, resultBackoffSeconds, kResultBackoffCapSeconds
<1>3. in = [tool |-> "backoff", attempts |-> in.attempts] BY <1>1 DEF Init, Idle
<1> QED BY <1>1, <1>2, <1>3 DEF IInv, Argument

LEMMA StepInvariant == IInv /\ [Apply]_vars => IInv'
<1> SUFFICES ASSUME IInv, [Apply]_vars PROVE IInv'
  OBVIOUS
<1>1. CASE FailedReport
  <2>1. in.tool = "backoff" /\ in.attempts \in Nat
        /\ in = [tool |-> "backoff", attempts |-> in.attempts]
        /\ out = resultBackoffSeconds(in.attempts)
    BY <1>1 DEF FailedReport, IInv, Argument
  <2>2. in' = [tool |-> "backoff", attempts |-> in.attempts + 1]
    BY <1>1, <2>1 DEF FailedReport
  <2>3. out' = resultBackoffSeconds(in.attempts + 1)
    BY <1>1, <2>1, DelayGrows DEF FailedReport
  <2>4. in'.tool = "backoff" /\ in'.attempts = in.attempts + 1 BY <2>2
  <2>5. in'.attempts \in Nat BY <2>1, <2>4
  <2> QED BY <2>2, <2>3, <2>4, <2>5 DEF IInv, Argument
<1>2. CASE SettledReport
  <2>1. Init' BY <1>2 DEF SettledReport, Init
  <2>2. in'.tool = "backoff" /\ in'.attempts = 0 /\ out' = 2
    BY <2>1 DEF Init, Idle, kResultBackoffBaseSeconds
  <2>3. resultBackoffSeconds(0) = 2
    BY DoubledIs DEF Delays, resultBackoffSeconds, kResultBackoffCapSeconds
  <2>4. in' = [tool |-> "backoff", attempts |-> in'.attempts]
    BY <2>1, <2>2 DEF Init, Idle
  <2> QED BY <2>2, <2>3, <2>4 DEF IInv, Argument
<1>3. CASE FirstSize
  <2>1. in' = [tool |-> "size", bytes |-> 1] /\ out' = classOf(1)
    BY <1>3 DEF FirstSize
  <2>2. in'.tool = "size" /\ in'.bytes = 1 BY <2>1
  <2> QED BY <2>1, <2>2 DEF IInv, Argument
<1>4. CASE NextSize
  <2>1. in.tool = "size" /\ in.bytes \in Nat
        /\ in = [tool |-> "size", bytes |-> in.bytes]
    BY <1>4 DEF NextSize, IInv, Argument
  <2>2. in' = [tool |-> "size", bytes |-> in.bytes + 1]
    BY <1>4, <2>1 DEF NextSize
  <2>3. in'.tool = "size" /\ in'.bytes = in.bytes + 1
        /\ out' = classOf(in.bytes + 1)
    BY <1>4, <2>2 DEF NextSize
  <2>4. in'.bytes \in Nat /\ in'.bytes > 0 BY <2>1, <2>3
  <2> QED BY <2>2, <2>3, <2>4 DEF IInv, Argument
<1>5. CASE CheckCopy
  <2>1. PICK c \in Texts(MaxCopy), e \in Texts(MaxDonor) :
          in' = [tool |-> "copy", copy |-> c, donor |-> e] /\ out' = Identical(c, e)
    BY <1>5 DEF CheckCopy
  <2>2. c \in Seq(Characters) /\ e \in Seq(Characters) BY TextsAreSequences
  <2>3. in'.tool = "copy" /\ in'.copy = c /\ in'.donor = e BY <2>1
  <2> QED BY <2>1, <2>2, <2>3 DEF IInv, Argument
<1>6. CASE CoarsenMesh
  <2>1. PICK m \in Meshes : /\ in' = [tool |-> "coarsen", mesh |-> m]
                            /\ out' = pairwise_aggregate(m.faces, m.n)
    BY <1>6 DEF CoarsenMesh
  <2>2. in'.tool = "coarsen" /\ in'.mesh = m BY <2>1
  <2> QED BY <2>1, <2>2 DEF IInv, Argument
<1>7. CASE QuoteScalar
  <2>1. PICK s \in Scalars : in' = [tool |-> "scalar", s |-> s] /\ out' = y(s)
    BY <1>7 DEF QuoteScalar
  <2>2. in'.tool = "scalar" /\ in'.s = s BY <2>1
  <2> QED BY <2>1, <2>2 DEF IInv, Argument
<1>8. CASE CheckManifest
  <2>1. PICK r \in ManifestRuns : in' = [tool |-> "manifest", run |-> r] /\ out' = CheckOf(r)
    BY <1>8 DEF CheckManifest
  <2>2. in'.tool = "manifest" /\ in'.run = r BY <2>1
  <2> QED BY <2>1, <2>2 DEF IInv, Argument
<1>9. CASE ReadStruct
  <2>1. PICK p \in Structs : /\ in' = [tool |-> "defaults", struct |-> p]
                             /\ out' = [filled |-> OwnAssignments(p.fns), omissions |-> {},
                                        exit |-> 0, done |-> FALSE]
    BY <1>9 DEF ReadStruct
  <2>2. in'.tool = "defaults" /\ in'.struct = p BY <2>1
  <2>3. Crediting(p.fns, OwnAssignments(p.fns)) BY CreditStart
  <2>4. Audited(p, out') BY <2>1, <2>3 DEF Audited
  <2> QED BY <2>2, <2>4 DEF IInv, Argument
<1>10. CASE CreditReader
  <2>1. /\ in.tool = "defaults" /\ in.struct \in Structs /\ Audited(in.struct, out)
        /\ ~out.done /\ in' = in
    BY <1>10 DEF CreditReader, IInv, Argument
  <2>2. PICK f, g \in DOMAIN in.struct.fns :
          /\ Adds(in.struct.fns, out.filled, f, g)
          /\ out' = [out EXCEPT !.filled = Credited(@, f, g)]
    BY <1>10 DEF CreditReader
  <2>3. Crediting(in.struct.fns, Credited(out.filled, f, g))
    BY <2>1, <2>2, CreditKeeps DEF Audited
  <2>4. out' = [filled |-> Credited(out.filled, f, g), omissions |-> out.omissions,
                exit |-> out.exit, done |-> out.done]
    BY <2>1, <2>2 DEF Audited
  <2>5. out.done = FALSE BY <2>1 DEF Audited
  <2>6. Audited(in.struct, out') BY <2>3, <2>4, <2>5 DEF Audited
  <2> QED BY <2>1, <2>6 DEF IInv, Argument
<1>11. CASE ReportOmissions
  <2>1. /\ in.tool = "defaults" /\ in.struct \in Structs /\ Audited(in.struct, out) /\ in' = in
        /\ \A f, g \in DOMAIN in.struct.fns : ~Adds(in.struct.fns, out.filled, f, g)
    BY <1>11 DEF ReportOmissions, IInv, Argument
  <2>2. out' = [filled |-> out.filled, omissions |-> Omissions(in.struct, out.filled),
                exit |-> Exit(in.struct, out.filled, in.struct.allow), done |-> TRUE]
    BY <1>11, <2>1 DEF ReportOmissions, Audited
  <2>3. Audited(in.struct, out') BY <2>1, <2>2 DEF Audited
  <2> QED BY <2>1, <2>3 DEF IInv, Argument
<1>12. CASE OpenHeader
  <2>1. HeaderInv(in', out') BY <1>12, HeaderOpened
  <2>2. in'.tool = "header" BY <2>1, HeaderExact
  <2>3. Linkage(in') BY <1>12, LinkageOpened
  <2> QED BY <2>1, <2>2, <2>3 DEF IInv, Argument
<1>13. CASE WriteHeader
  <2>1. in.tool = "header"
    BY <1>13 DEF WriteHeader, WriteBetween, WriteNamespace, WriteStruct, WriteHead, WriteParams,
                 WriteInitialiser, WriteSignature, WriteBody, Writing
  <2>2. HeaderInv(in, out) /\ Linkage(in) BY <2>1 DEF IInv, Argument
  <2>3. HeaderInv(in', out') BY <1>13, <2>2, HeaderStep
  <2>4. in'.tool = "header" BY <2>3, HeaderExact
  <2>5. Linkage(in') BY <1>13, <2>2, LinkageStep
  <2> QED BY <2>3, <2>4, <2>5 DEF IInv, Argument
<1>14. CASE AuditGuard
  <2>1. PICK g \in Guards : in' = [tool |-> "guard", guard |-> g] /\ out' = PointerOnly(g)
    BY <1>14 DEF AuditGuard
  <2>2. in'.tool = "guard" /\ in'.guard = g BY <2>1
  <2> QED BY <2>1, <2>2 DEF IInv, Argument
<1>15. CASE LoadUnit
  <2>1. PICK u \in Units : /\ in' = [tool |-> "resize", unit |-> u]
                           /\ out' = [left |-> u.fns, fn |-> None, at |-> 0, inner |-> 0,
                                      stale |-> {}, bad |-> {}]
    BY <1>15 DEF LoadUnit
  <2>2. in'.tool = "resize" /\ in'.unit = u BY <2>1
  <2>3. RunInv(u, out') BY <2>1, UnitLoaded
  <2> QED BY <2>2, <2>3 DEF IInv, Argument
<1>16. CASE RunUnit
  <2>1. in.tool = "resize"
    BY <1>16 DEF RunUnit, BeginFunction, EndFunction, RunStatement, EnterHelper, RunInner,
                 LeaveHelper, Running
  <2>2. in.unit \in Units /\ RunInv(in.unit, out) BY <2>1 DEF IInv, Argument
  <2>3. in' = in /\ RunInv(in.unit, out') BY <1>16, <2>1, <2>2, UnitStep
  <2> QED BY <2>1, <2>2, <2>3 DEF IInv, Argument
<1>17. CASE TraceSolver
  <2>1. CASE LoadTrace
    <3>1. in' = [tool |-> "trace", trace |-> in'.trace] /\ TraceInv(in'.trace, out')
      BY <2>1, TraceLoaded
    <3>2. in'.tool = "trace" BY <3>1
    <3> QED BY <3>1, <3>2 DEF IInv, Argument
  <2>2. CASE ~LoadTrace
    <3>1. in.tool = "trace"
      BY <1>17, <2>2 DEF TraceSolver, AddLevel, FlatLevel, LastLevel, Building, KrylovStart,
         PreSmooth, Residual, RestrictResidual, CoarseSolve, RaiseShapes, Prolong, PostSmooth,
         KrylovUpdate, At
    <3>2. TraceInv(in.trace, out) BY <3>1 DEF IInv, Argument
    <3>3. TraceInv(in.trace, out') /\ in' = in BY <1>17, <3>1, <3>2, TraceStep
    <3> QED BY <3>1, <3>3 DEF IInv, Argument
  <2> QED BY <2>1, <2>2
<1>18. CASE UNCHANGED vars BY <1>18 DEF vars, IInv, Argument
<1> QED BY <1>1, <1>2, <1>3, <1>4, <1>5, <1>6, <1>7, <1>8, <1>9, <1>10, <1>11, <1>12, <1>13,
           <1>14, <1>15, <1>16, <1>17, <1>18 DEF Apply

(* The delays up to a counter are not longer than its own.                  *)
LEMMA DelayOrdered ==
  ASSUME NEW a \in Nat
  PROVE  \A n \in 0..a : resultBackoffSeconds(n) <= resultBackoffSeconds(a)
<1> DEFINE Bad == {m \in Nat : \E n \in 0..m :
                     ~(resultBackoffSeconds(n) <= resultBackoffSeconds(m))}
<1> SUFFICES ASSUME Bad # {} PROVE FALSE
  OBVIOUS
<1>1. PICK m \in Bad : \A k \in Bad : m <= k
  <2>1. Bad \in SUBSET Nat OBVIOUS
  <2> HIDE DEF Bad
  <2> QED BY <2>1, LeastNatural
<1>2. m \in Nat OBVIOUS
<1>3. PICK n \in 0..m : ~(resultBackoffSeconds(n) <= resultBackoffSeconds(m))
  OBVIOUS
<1>4. n \in Nat /\ n <= m BY <1>2
<1>5. resultBackoffSeconds(n) \in 2..60 /\ resultBackoffSeconds(m) \in 2..60
  BY <1>2, <1>4, DelayGrows
<1>6. n # m
  <2> DEFINE v == resultBackoffSeconds(m)
  <2>1. v \in 2..60 BY <1>5
  <2> HIDE DEF v
  <2>2. v <= v BY <2>1
  <2> QED BY <1>3, <2>2 DEF v
<1>7. m - 1 \in Nat /\ n \in 0..(m - 1) /\ ~(m <= m - 1) /\ (m - 1) + 1 = m
  BY <1>2, <1>4, <1>6
<1>8. resultBackoffSeconds(n) <= resultBackoffSeconds(m - 1) BY <1>1, <1>7
<1>9. /\ resultBackoffSeconds(m - 1) \in 2..60
      /\ resultBackoffSeconds(m - 1) <= resultBackoffSeconds(m)
  BY <1>7, DelayGrows
<1> QED BY <1>3, <1>5, <1>8, <1>9
-----------------------------------------------------------------------------
(* backoff.h: after any number of failures and resets the delay carried     *)
(* from one failure to the next is the one resultBackoffSeconds computes    *)
(* from the counter, and no smaller counter has a longer one.               *)
THEOREM DelayFollowsCounterHolds == RulesSpec => []DelayFollowsCounter
<1>1. IInv => DelayFollowsCounter
  BY DelayOrdered DEF IInv, Argument, DelayFollowsCounter
<1> QED BY <1>1, InitInvariant, StepInvariant, PTL DEF RulesSpec

(* device_buffer.cuh: the class of a request of any size is tight, its own  *)
(* class, and no larger than that of a larger request.                      *)
THEOREM ClassIsTightHolds == RulesSpec => []ClassIsTight
<1>1. IInv => ClassIsTight
  BY ClassTight DEF IInv, Argument, ClassIsTight
<1> QED BY <1>1, InitInvariant, StepInvariant, PTL DEF RulesSpec

(* slice_provenance.py: of texts of any length in any characters, no copy   *)
(* passes that does not end with the whole donor, and every one that does   *)
(* passes if the donor's first line does not occur before it.               *)
THEOREM CopiesAreExactHolds == RulesSpec => []CopiesAreExact
<1>1. IInv => CopiesAreExact
  BY IdenticalIs DEF IInv, Argument, CopiesAreExact
<1> QED BY <1>1, InitInvariant, StepInvariant, PTL DEF RulesSpec

(* make_steps.py: of every mesh, pairwise_aggregate leaves connected        *)
(* aggregates, numbered without a gap, that contain every cell, and no cell *)
(* alone that has a neighbour.                                              *)
THEOREM AggregatesAreSoundHolds == RulesSpec => []AggregatesAreSound
<1>1. IInv => AggregatesAreSound
  <2> SUFFICES ASSUME IInv, in.tool = "coarsen" PROVE AggregatesAreSound
    BY DEF AggregatesAreSound
  <2>1. in.mesh \in Meshes /\ out = pairwise_aggregate(in.mesh.faces, in.mesh.n)
    BY DEF IInv, Argument
  <2>2. Mesh(in.mesh.faces, in.mesh.n) BY <2>1, MeshesAssumption DEF Mesh
  <2> QED BY <2>1, <2>2, AggregateSound DEF AggregatesAreSound
<1> QED BY <1>1, InitInvariant, StepInvariant, PTL DEF RulesSpec

(* of_manifest.py: whatever table, index and cases a manifest was recorded  *)
(* from and is checked against, --check exits 0 exactly when it says what   *)
(* would be generated now, and every scalar is read back with the           *)
(* characters it had.                                                       *)
THEOREM DriftIsSeenHolds == RulesSpec => []DriftIsSeen
<1>1. IInv => DriftIsSeen
  <2> SUFFICES ASSUME IInv PROVE DriftIsSeen
    OBVIOUS
  <2>1. ASSUME in.tool = "manifest" PROVE in.run \in ManifestRuns /\ out = CheckOf(in.run)
    BY <2>1 DEF IInv, Argument
  <2>2. ASSUME in.tool = "scalar" PROVE Loaded(out) = <<in.s>>
    <3>1. in.s \in Scalars /\ out = y(in.s) BY <2>2 DEF IInv, Argument
    <3>2. in.s \in Text BY <3>1, ManifestAssumption DEF Text
    <3> QED BY <3>1, <3>2, ScalarReadsBack
  <2> QED BY <2>1, <2>2, ManifestChecked DEF DriftIsSeen
<1> QED BY <1>1, InitInvariant, StepInvariant, PTL DEF RulesSpec

(* default_audit.py: of every program that compiles, in whatever order its  *)
(* functions are credited, every field that one site of a struct sets and   *)
(* another leaves is reported if the namespaces were read right; nothing    *)
(* else is where sites are told apart, and then the run passes exactly when *)
(* the ledger is as it should be; and following the report once is enough.  *)
THEOREM OmissionsAreTrueHolds == RulesSpec => []OmissionsAreTrue
<1>1. IInv => OmissionsAreTrue
  <2> SUFFICES ASSUME IInv, in.tool = "defaults", out.done PROVE OmissionsAreTrue
    BY DEF OmissionsAreTrue
  <2> DEFINE p == in.struct
             after == Followed(p, out.filled)
  <2>1. p \in Structs /\ Audited(p, out) BY DEF IInv, Argument
  <2>2. /\ Crediting(p.fns, out.filled)
        /\ \A f, g \in DOMAIN p.fns : ~Adds(p.fns, out.filled, f, g)
        /\ out.omissions = Omissions(p, out.filled)
        /\ out.exit = Exit(p, out.filled, p.allow)
    BY <2>1 DEF Audited
  <2> HIDE DEF p, after
  <2>3. Exact(p, out.filled) BY <2>1, <2>2, ReadToTheEnd
  <2>4. NamespacesRead(p) => LeftOut(p) \subseteq out.omissions
    BY <2>1, <2>2, <2>3, OmissionsHold
  <2>5. ASSUME NamespacesRead(p), ToldApart(p)
        PROVE  /\ out.omissions \subseteq LeftOut(p)
               /\ (out.exit = 0) = Clean(p, p.allow)
               /\ (Exit(p, out.filled, after) = 0) = Clean(p, after)
    <3>1. Omissions(p, out.filled) = LeftOut(p) BY <2>1, <2>3, <2>5, OmissionsAre
    <3>2. \A allow : Exit(p, out.filled, allow) = 0 <=> Clean(p, allow)
      BY <2>1, <2>3, <2>5, ExitIs
    <3>3. \A allow : Clean(p, allow) \in BOOLEAN BY DEF Clean
    <3> QED BY <2>2, <3>1, <3>2, <3>3
  <2>6. Nameable(p) => Exit(p, out.filled, after) = 0
    BY <2>1, LedgerFollowed DEF after
  <2> QED BY <2>4, <2>5, <2>6 DEF OmissionsAreTrue, p, after
<1> QED BY <1>1, InitInvariant, StepInvariant, PTL DEF RulesSpec

(* header_odr_audit.py and cache_key_audit.py: at every point of a header   *)
(* of any length the functions found are those defined so far without a     *)
(* word that keeps them out of other objects, so all that have external     *)
(* linkage, and those of unnamed namespaces too; and of all guards exactly  *)
(* those that some rebuild passes unnoticed are reported.                   *)
THEOREM SourceAuditsAreExactHolds == RulesSpec => []SourceAuditsAreExact
<1>1. IInv => SourceAuditsAreExact
  <2> SUFFICES ASSUME IInv PROVE SourceAuditsAreExact
    OBVIOUS
  <2>1. ASSUME in.tool = "header"
        PROVE  /\ out.found = in.unmarked
               /\ in.external \subseteq {out.found[i] : i \in DOMAIN out.found}
    <3>1. HeaderInv(in, out) /\ Linkage(in) BY <2>1 DEF IInv, Argument
    <3>2. out.found = in.unmarked BY <3>1, HeaderExact
    <3> QED BY <3>1, <3>2 DEF Linkage
  <2>2. ASSUME in.tool = "guard" PROVE out = PointerOnly(in.guard) BY <2>2 DEF IInv, Argument
  <2>3. PointerOnly(in.guard) \in BOOLEAN BY DEF PointerOnly
  <2> QED BY <2>1, <2>2, <2>3, GuardExact DEF SourceAuditsAreExact
<1> QED BY <1>1, InitInvariant, StepInvariant, PTL DEF RulesSpec

(* resize_audit.py: of every unit, with any functions and kernels and       *)
(* whatever names are found in others, every accumulation into what the     *)
(* pool left is reported, in the function or through its helper, unless the *)
(* text hides it in one of the ways of Overlooked; and where resizes are    *)
(* spelled apart and helpers do not initialise, nothing else is, so that    *)
(* the run passes exactly when the ledger is what the functions do wrong,   *)
(* if nothing hides.                                                        *)
THEOREM ResizeAuditIsExactHolds == RulesSpec => []ResizeAuditIsExact
<1>1. IInv => ResizeAuditIsExact
  <2> SUFFICES ASSUME IInv, in.tool = "resize" PROVE ResizeAuditIsExact
    BY DEF ResizeAuditIsExact
  <2> DEFINE u == in.unit
  <2>1. u \in Units /\ RunInv(u, out) BY DEF IInv, Argument
  <2> HIDE DEF u
  <2>2. /\ \A e \in out.bad : KeyOfBad(e) \in ReportedKeys(u) \/ Overlooked(u, e)
        /\ Trusted(u) /\ out.left = {} /\ out.at = 0 => ReportedKeys(u) \subseteq Wrong(out.bad)
    BY <2>1, UnitExact DEF Told
  <2>3. ExitCode(u) = 0 <=> ReportedKeys(u) = u.allow
    BY DEF ExitCode
  <2>4. (\A e \in out.bad : ~Overlooked(u, e)) => Wrong(out.bad) \subseteq ReportedKeys(u)
    BY <2>2 DEF Wrong
  <2>5. ASSUME Trusted(u), out.left = {}, out.at = 0, \A e \in out.bad : ~Overlooked(u, e)
        PROVE  (ExitCode(u) = 0) = (Wrong(out.bad) = u.allow)
    <3>1. Wrong(out.bad) = ReportedKeys(u) BY <2>2, <2>4, <2>5
    <3> QED BY <2>3, <3>1
  <2> QED BY <2>2, <2>5 DEF ResizeAuditIsExact, Wrong, u
<1> QED BY <1>1, InitInvariant, StepInvariant, PTL DEF RulesSpec

(* make_steps.py and replay.py: of every mesh and every hierarchy, dumped   *)
(* or built, each frame is painted with values there are, a cycle raises    *)
(* exactly when the coarse vector does not fit its operator, and otherwise  *)
(* each grid is made of the one above and the marker walks the V, with the  *)
(* sweeps that are charged to AmgX and brae.                                *)
THEOREM ReplayFollowsCycleHolds == RulesSpec => []ReplayFollowsCycle
<1>1. IInv => ReplayFollowsCycle
  <2> SUFFICES ASSUME IInv, in.tool = "trace" PROVE ReplayFollowsCycle
    BY DEF ReplayFollowsCycle
  <2>1. TraceInv(in.trace, out) BY DEF IInv, Argument
  <2> QED BY <2>1, TraceExact
<1> QED BY <1>1, InitInvariant, StepInvariant, PTL DEF RulesSpec
=============================================================================
