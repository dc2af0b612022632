----------------------------- MODULE Induction -----------------------------
(***************************************************************************)
(* What the proofs use in place of the induction principles, which take an *)
(* operator: a non-empty set of naturals has a least element, a non-empty  *)
(* set of finite sets has a minimal one.  A claim holds of every natural   *)
(* because the set of those it fails of has no least element.  With them,  *)
(* what SumFunction of module Functions computes, and that a loop written  *)
(* as a recursive function has a state after each round.                   *)
(***************************************************************************)
EXTENDS Integers, FiniteSets, Functions, FiniteSetTheorems, TLAPS

(* Every non-empty set of naturals has a least element.                     *)
LEMMA LeastNatural ==
  ASSUME NEW T \in SUBSET Nat, T # {}
  PROVE  \E x \in T : \A y \in T : x <= y
<1> DEFINE R == OpToRel(<, Nat)
<1>1. IsWellFoundedOn(R, Nat) BY NatLessThanWellFounded
<1>2. \A x, y \in Nat : x < y => <<x, y>> \in R BY DEF OpToRel
<1> HIDE DEF R
<1>3. PICK x \in T : \A y \in T : ~(<<y, x>> \in R) BY <1>1, WFMin
<1>4. \A y \in T : ~(y < x) BY <1>2, <1>3
<1>5. \A y \in T : x <= y
  <2> TAKE y \in T
  <2>1. x \in Nat /\ y \in Nat /\ ~(y < x) BY <1>4
  <2> QED BY <2>1
<1> QED BY <1>5

(* Every non-empty set of subsets of a finite set has a minimal element.    *)
LEMMA MinimalSubset ==
  ASSUME NEW S, IsFiniteSet(S), NEW T \in SUBSET SUBSET S, T # {}
  PROVE  \E x \in T : \A y \in T : y \subseteq x => y = x
<1> DEFINE R == StrictSubsetOrdering(S)
<1>1. IsWellFoundedOn(R, SUBSET S)
  BY FS_StrictSubsetOrderingWellFounded, FS_FiniteSubsetsOfFinite
<1>2. \A x, y \in SUBSET S : x \subseteq y /\ x # y => <<x, y>> \in R
  BY DEF StrictSubsetOrdering
<1> HIDE DEF R
<1>3. PICK x \in T : \A y \in T : ~(<<y, x>> \in R) BY <1>1, WFMin
<1> QED BY <1>2, <1>3
-----------------------------------------------------------------------------
(* The table SumFunction is read from: the sum over each subset of U, by    *)
(* the element a CHOOSE takes first.                                        *)
Pick(s) == CHOOSE x \in s : TRUE
Table(h, f, U) ==
  h = [s \in SUBSET U |-> IF s = {} THEN 0 ELSE f[Pick(s)] + h[s \ {Pick(s)}]]

LEMMA PickIn == ASSUME NEW s, s # {} PROVE Pick(s) \in s
BY DEF Pick

(* Two tables agree where both have an entry.                               *)
LEMMA TablesAgree ==
  ASSUME NEW S, IsFiniteSet(S), NEW U \in SUBSET S, NEW V \in SUBSET S, NEW f,
         NEW h, NEW k, Table(h, f, U), Table(k, f, V)
  PROVE  \A s \in SUBSET (U \cap V) : h[s] = k[s]
<1> DEFINE Bad == {s \in SUBSET (U \cap V) : h[s] # k[s]}
<1> SUFFICES ASSUME Bad # {} PROVE FALSE
  OBVIOUS
<1>1. PICK s \in Bad : \A t \in Bad : t \subseteq s => t = s
  <2>1. Bad \in SUBSET SUBSET S OBVIOUS
  <2> HIDE DEF Bad
  <2> QED BY <2>1, MinimalSubset
<1>2. s # {} BY <1>1 DEF Table
<1>3. Pick(s) \in s BY <1>2, PickIn
<1>4. s \ {Pick(s)} \notin Bad BY <1>1, <1>3
<1>5. h[s \ {Pick(s)}] = k[s \ {Pick(s)}] BY <1>1, <1>4
<1>6. h[s] = f[Pick(s)] + h[s \ {Pick(s)}] BY <1>1, <1>2 DEF Table
<1>7. k[s] = f[Pick(s)] + k[s \ {Pick(s)}] BY <1>1, <1>2 DEF Table
<1> QED BY <1>1, <1>5, <1>6, <1>7

(* There is a table over every finite set.                                  *)
LEMMA TableExists ==
  ASSUME NEW S, IsFiniteSet(S), NEW f
  PROVE  \E h : Table(h, f, S)
<1> DEFINE Bad == {U \in SUBSET S : ~ \E h : Table(h, f, U)}
<1> SUFFICES ASSUME Bad # {} PROVE FALSE
  OBVIOUS
<1>1. PICK U \in Bad : \A t \in Bad : t \subseteq U => t = U
  <2>1. Bad \in SUBSET SUBSET S OBVIOUS
  <2> HIDE DEF Bad
  <2> QED BY <2>1, MinimalSubset
<1> DEFINE H(V) == CHOOSE h : Table(h, f, V)
           g == [s \in SUBSET U |-> IF s = {} THEN 0
                                    ELSE f[Pick(s)] + H(s \ {Pick(s)})[s \ {Pick(s)}]]
<1>2. ASSUME NEW V \in SUBSET U, V # U PROVE Table(H(V), f, V)
  <2>1. \E h : Table(h, f, V) BY <1>1, <1>2
  <2> QED BY <2>1
<1> HIDE DEF H
<1>3. ASSUME NEW s \in SUBSET U, s # {} PROVE g[s \ {Pick(s)}] = H(s \ {Pick(s)})[s \ {Pick(s)}]
  <2> DEFINE t == s \ {Pick(s)}
  <2>1. t \in SUBSET U /\ t # U BY <1>3, PickIn
  <2>2. Table(H(t), f, t) BY <1>2, <2>1
  <2> HIDE DEF t
  <2>3. CASE t = {}
    <3>1. g[t] = 0 BY <2>1, <2>3
    <3>2. H(t)[t] = 0 BY <2>2, <2>3 DEF Table
    <3> QED BY <3>1, <3>2 DEF t
  <2>4. CASE t # {}
    <3> DEFINE r == t \ {Pick(t)}
    <3>1. Pick(t) \in t BY <2>4, PickIn
    <3>2. r \in SUBSET U /\ r # U /\ r \in SUBSET t BY <2>1, <3>1
    <3>3. Table(H(r), f, r) BY <1>2, <3>2
    <3>4. H(t)[r] = H(r)[r]
      <4>1. t \in SUBSET S /\ r \in SUBSET S /\ r \in SUBSET (t \cap r)
        BY <1>1, <2>1, <3>2
      <4> HIDE DEF r
      <4> QED BY <4>1, <2>2, <3>3, TablesAgree
    <3>5. H(t)[t] = f[Pick(t)] + H(t)[r] BY <2>2, <2>4 DEF Table
    <3>6. g[t] = f[Pick(t)] + H(r)[r] BY <2>1, <2>4
    <3> QED BY <3>4, <3>5, <3>6 DEF t
  <2> QED BY <2>3, <2>4
<1>4. Table(g, f, U)
  <2>1. \A s \in SUBSET U : g[s] = IF s = {} THEN 0 ELSE f[Pick(s)] + g[s \ {Pick(s)}]
    BY <1>3
  <2>2. g = [s \in SUBSET U |-> g[s]] OBVIOUS
  <2> HIDE DEF g
  <2> QED BY <2>1, <2>2 DEF Table
<1> QED BY <1>1, <1>4

(* The entries of a table of integers are integers, and of naturals         *)
(* naturals; the sum over T is that of any element and that of the rest.    *)
LEMMA TableRemoves ==
  ASSUME NEW S, IsFiniteSet(S), NEW f \in [S -> Int], NEW h, Table(h, f, S)
  PROVE  \A T \in SUBSET S : /\ h[T] \in Int
                             /\ \A x \in T : h[T] = f[x] + h[T \ {x}]
<1> DEFINE Good(T) == h[T] \in Int /\ \A x \in T : h[T] = f[x] + h[T \ {x}]
           Bad == {T \in SUBSET S : ~Good(T)}
<1> SUFFICES ASSUME Bad # {} PROVE FALSE
  OBVIOUS
<1>1. PICK T \in Bad : \A t \in Bad : t \subseteq T => t = T
  <2>1. Bad \in SUBSET SUBSET S OBVIOUS
  <2> HIDE DEF Bad
  <2> QED BY <2>1, MinimalSubset
<1>2. T # {}
  <2> SUFFICES ASSUME T = {} PROVE Good(T)
    BY <1>1
  <2> QED BY DEF Table
<1> DEFINE y == Pick(T)
<1>3. y \in T BY <1>2, PickIn
<1>4. h[T] = f[y] + h[T \ {y}] BY <1>1, <1>2 DEF Table
<1> HIDE DEF y
<1>5. ASSUME NEW x \in T PROVE Good(T \ {x})
  <2>1. T \in SUBSET S BY <1>1
  <2>2. T \ {x} \in SUBSET S /\ T \ {x} \subseteq T /\ T \ {x} # T BY <2>1, <1>5
  <2>3. T \ {x} \notin Bad BY <1>1, <2>2
  <2> HIDE DEF Good
  <2> QED BY <2>2, <2>3
<1>6. h[T] \in Int BY <1>1, <1>3, <1>4, <1>5
<1>7. ASSUME NEW x \in T PROVE h[T] = f[x] + h[T \ {x}]
  <2>1. CASE x = y BY <1>4, <2>1
  <2>2. CASE x # y
    <3>1. h[T \ {y}] = f[x] + h[(T \ {y}) \ {x}] BY <1>3, <1>5, <2>2
    <3>2. h[T \ {x}] = f[y] + h[(T \ {x}) \ {y}] BY <1>3, <1>5, <2>2
    <3> DEFINE r == (T \ {x}) \ {y}
    <3>3. r = (T \ {y}) \ {x} OBVIOUS
    <3>4. h[r] \in Int
      <4>1. r \in SUBSET S /\ r \subseteq T /\ r # T BY <1>1
      <4> QED BY <1>1, <4>1
    <3>5. f[x] \in Int /\ f[y] \in Int BY <1>1, <1>3
    <3> HIDE DEF r
    <3>6. h[T \ {y}] = f[x] + h[r] /\ h[T \ {x}] = f[y] + h[r] BY <3>1, <3>2, <3>3 DEF r
    <3> QED BY <1>4, <3>4, <3>5, <3>6
  <2> QED BY <2>1, <2>2
<1> QED BY <1>1, <1>6, <1>7

LEMMA SumIsTable ==
  ASSUME NEW S, IsFiniteSet(S), NEW f, S = DOMAIN f
  PROVE  \E h : Table(h, f, S) /\ SumFunction(f) = h[S]
<1> DEFINE it == CHOOSE h : h = [s \in SUBSET S |->
                    IF s = {} THEN 0
                    ELSE LET x == CHOOSE x \in s : TRUE IN f[x] + h[s \ {x}]]
<1>1. SumFunction(f) = it[S]
  BY Zenon DEF SumFunction, SumFunctionOnSet, FoldFunctionOnSet, MapThenFoldSet
<1>2. Table(it, f, S)
  <2>1. \E h : Table(h, f, S) BY TableExists
  <2> QED BY <2>1 DEF Table, Pick
<1> QED BY <1>1, <1>2

(* The sum of integers is an integer.                                       *)
LEMMA SumType ==
  ASSUME NEW S, IsFiniteSet(S), NEW f \in [S -> Int]
  PROVE  SumFunction(f) \in Int
<1>1. PICK h : Table(h, f, S) /\ SumFunction(f) = h[S] BY SumIsTable
<1> QED BY <1>1, TableRemoves

(* The sum of naturals is a natural and no less than any of them.           *)
LEMMA SumOfNaturals ==
  ASSUME NEW S, IsFiniteSet(S), NEW f \in [S -> Nat]
  PROVE  SumFunction(f) \in Nat /\ \A x \in S : f[x] <= SumFunction(f)
<1>1. PICK h : Table(h, f, S) /\ SumFunction(f) = h[S] BY SumIsTable
<1>2. \A T \in SUBSET S : h[T] \in Int /\ \A x \in T : h[T] = f[x] + h[T \ {x}]
  BY <1>1, TableRemoves
<1>3. \A T \in SUBSET S : h[T] \in Nat
  <2> DEFINE Bad == {T \in SUBSET S : h[T] \notin Nat}
  <2> SUFFICES ASSUME Bad # {} PROVE FALSE
    OBVIOUS
  <2>1. PICK T \in Bad : \A t \in Bad : t \subseteq T => t = T
    <3>1. Bad \in SUBSET SUBSET S OBVIOUS
    <3> HIDE DEF Bad
    <3> QED BY <3>1, MinimalSubset
  <2>2. T # {} BY <1>1, <2>1 DEF Table
  <2>3. PICK x \in T : TRUE BY <2>2
  <2>4. h[T] = f[x] + h[T \ {x}] BY <1>2, <2>1
  <2>5. T \ {x} \in SUBSET S /\ T \ {x} \subseteq T /\ T \ {x} # T BY <2>1
  <2>6. h[T \ {x}] \in Nat /\ f[x] \in Nat BY <2>1, <2>5
  <2> QED BY <2>1, <2>4, <2>6
<1>4. ASSUME NEW x \in S PROVE f[x] <= h[S]
  <2>1. h[S] = f[x] + h[S \ {x}] BY <1>2
  <2>2. h[S \ {x}] \in Nat BY <1>3
  <2> QED BY <2>1, <2>2
<1> QED BY <1>1, <1>3, <1>4

(* The sum of the sums is the sum of both.                                  *)
LEMMA SumAdds ==
  ASSUME NEW S, IsFiniteSet(S), NEW f \in [S -> Int], NEW g \in [S -> Int],
         NEW k \in [S -> Int], \A x \in S : k[x] = f[x] + g[x]
  PROVE  SumFunction(k) = SumFunction(f) + SumFunction(g)
<1>1. PICK hf : Table(hf, f, S) /\ SumFunction(f) = hf[S] BY SumIsTable
<1>2. PICK hg : Table(hg, g, S) /\ SumFunction(g) = hg[S] BY SumIsTable
<1>3. PICK hk : Table(hk, k, S) /\ SumFunction(k) = hk[S] BY SumIsTable
<1>4. \A T \in SUBSET S : hf[T] \in Int /\ \A x \in T : hf[T] = f[x] + hf[T \ {x}]
  BY <1>1, TableRemoves
<1>5. \A T \in SUBSET S : hg[T] \in Int /\ \A x \in T : hg[T] = g[x] + hg[T \ {x}]
  BY <1>2, TableRemoves
<1>6. \A T \in SUBSET S : hk[T] \in Int /\ \A x \in T : hk[T] = k[x] + hk[T \ {x}]
  BY <1>3, TableRemoves
<1>7. \A T \in SUBSET S : hk[T] = hf[T] + hg[T]
  <2> DEFINE Bad == {T \in SUBSET S : hk[T] # hf[T] + hg[T]}
  <2> SUFFICES ASSUME Bad # {} PROVE FALSE
    OBVIOUS
  <2>1. PICK T \in Bad : \A t \in Bad : t \subseteq T => t = T
    <3>1. Bad \in SUBSET SUBSET S OBVIOUS
    <3> HIDE DEF Bad
    <3> QED BY <3>1, MinimalSubset
  <2>2. T # {} BY <1>1, <1>2, <1>3, <2>1 DEF Table
  <2>3. PICK x \in T : TRUE BY <2>2
  <2> DEFINE r == T \ {x}
  <2>4. T \in SUBSET S /\ r \in SUBSET S /\ r \subseteq T /\ r # T BY <2>1
  <2>5. hk[r] = hf[r] + hg[r] BY <2>1, <2>4
  <2>6. hk[T] = k[x] + hk[r] /\ hf[T] = f[x] + hf[r] /\ hg[T] = g[x] + hg[r]
    BY <1>4, <1>5, <1>6, <2>4
  <2>7. /\ hf[r] \in Int /\ hg[r] \in Int /\ f[x] \in Int /\ g[x] \in Int
        /\ k[x] = f[x] + g[x]
    BY <1>4, <1>5, <2>4
  <2>8. hk[T] = hf[T] + hg[T] BY <2>5, <2>6, <2>7
  <2> QED BY <2>1, <2>8
<1> QED BY <1>1, <1>2, <1>3, <1>7

(* A function that is zero but at one point sums to its value there.        *)
LEMMA SumOfPoint ==
  ASSUME NEW S, IsFiniteSet(S), NEW x \in S, NEW v \in Int, NEW f \in [S -> Int],
         f[x] = v, \A y \in S : y # x => f[y] = 0
  PROVE  SumFunction(f) = v
<1>1. PICK h : Table(h, f, S) /\ SumFunction(f) = h[S] BY SumIsTable
<1>2. \A T \in SUBSET S : h[T] \in Int /\ \A y \in T : h[T] = f[y] + h[T \ {y}]
  BY <1>1, TableRemoves
<1>3. \A T \in SUBSET S : x \notin T => h[T] = 0
  <2> DEFINE Bad == {T \in SUBSET S : x \notin T /\ h[T] # 0}
  <2> SUFFICES ASSUME Bad # {} PROVE FALSE
    OBVIOUS
  <2>1. PICK T \in Bad : \A t \in Bad : t \subseteq T => t = T
    <3>1. Bad \in SUBSET SUBSET S OBVIOUS
    <3> HIDE DEF Bad
    <3> QED BY <3>1, MinimalSubset
  <2>2. T # {} BY <1>1, <2>1 DEF Table
  <2>3. PICK y \in T : TRUE BY <2>2
  <2>4. h[T] = f[y] + h[T \ {y}] /\ f[y] = 0 BY <1>2, <2>1
  <2>5. T \ {y} \in SUBSET S /\ x \notin T \ {y} /\ T \ {y} \subseteq T /\ T \ {y} # T
    BY <2>1
  <2>6. h[T \ {y}] = 0 BY <2>1, <2>5
  <2> QED BY <2>1, <2>4, <2>6
<1>4. h[S] = f[x] + h[S \ {x}] /\ h[S \ {x}] = 0 BY <1>2, <1>3
<1> QED BY <1>1, <1>4

(* Changing one value changes the sum by as much.                           *)
LEMMA SumChanges ==
  ASSUME NEW S, IsFiniteSet(S), NEW f \in [S -> Int], NEW g \in [S -> Int], NEW x \in S,
         \A y \in S : y # x => g[y] = f[y]
  PROVE  SumFunction(g) = SumFunction(f) + (g[x] - f[x])
<1> DEFINE v == g[x] - f[x]
           p == [y \in S |-> IF y = x THEN v ELSE 0]
<1>1. v \in Int /\ p \in [S -> Int] /\ p[x] = v /\ \A y \in S : y # x => p[y] = 0 OBVIOUS
<1>2. \A y \in S : g[y] = f[y] + p[y] OBVIOUS
<1> HIDE DEF p, v
<1>3. SumFunction(g) = SumFunction(f) + SumFunction(p) BY <1>1, <1>2, SumAdds
<1>4. SumFunction(p) = v BY <1>1, SumOfPoint
<1> QED BY <1>3, <1>4 DEF v

(* What holds of 0 and of each number after one it holds of, up to n, holds *)
(* of all of them.                                                          *)
LEMMA Upwards ==
  ASSUME NEW n \in Nat, NEW P, 0 \in P, \A c \in 1..n : c - 1 \in P => c \in P
  PROVE  \A c \in 0..n : c \in P
<1> DEFINE Bad == (0..n) \ P
<1> SUFFICES ASSUME Bad # {} PROVE FALSE
  OBVIOUS
<1>1. PICK c \in Bad : \A d \in Bad : c <= d
  <2>1. Bad \in SUBSET Nat OBVIOUS
  <2> HIDE DEF Bad
  <2> QED BY <2>1, LeastNatural
<1>2. c \in 0..n /\ c \notin P /\ c # 0 OBVIOUS
<1>3. c \in 1..n /\ c - 1 \in 0..n /\ ~(c <= c - 1) BY <1>2
<1>4. c - 1 \in P BY <1>1, <1>3
<1> QED BY <1>2, <1>3, <1>4

(* A loop over 1..n that stays among the states S has a state after every   *)
(* number of rounds.                                                        *)
IsLoop(g, n, S) == g \in [1..n -> [S -> S]]
LoopOf(f, g, n, S, s) ==
  f \in [0..n -> S] /\ f[0] = s /\ \A c \in 1..n : f[c] = g[c][f[c - 1]]

LEMMA LoopExists ==
  ASSUME NEW n \in Nat, NEW S, NEW s \in S, NEW g, IsLoop(g, n, S)
  PROVE  \E f : LoopOf(f, g, n, S, s)
<1>0. g \in [1..n -> [S -> S]] BY DEF IsLoop
<1> DEFINE To(m, f) == f[0] = s /\ \A c \in 1..m : f[c] = g[c][f[c - 1]]
           P == {m \in 0..n : \E f \in [0..m -> S] : To(m, f)}
<1>1. 0 \in P
  <2> DEFINE h == [c \in 0..0 |-> s]
  <2>1. h \in [0..0 -> S] /\ To(0, h) /\ 0 \in 0..n OBVIOUS
  <2> HIDE DEF h, To
  <2> QED BY <2>1
<1>2. ASSUME NEW m \in 1..n, m - 1 \in P PROVE m \in P
  <2>1. PICK f \in [0..(m - 1) -> S] : To(m - 1, f) BY <1>2
  <2> DEFINE h == [c \in 0..m |-> IF c = m THEN g[m][f[m - 1]] ELSE f[c]]
  <2>2. f[m - 1] \in S BY <2>1
  <2>3. h \in [0..m -> S]
    <3>1. g[m][f[m - 1]] \in S BY <1>0, <2>2
    <3>2. \A c \in 0..m : c # m => c \in 0..(m - 1) OBVIOUS
    <3> QED BY <2>1, <3>1, <3>2
  <2>4. h[0] = s BY <2>1
  <2>5. ASSUME NEW c \in 1..m PROVE h[c] = g[c][h[c - 1]]
    <3>1. c - 1 \in 0..m /\ c - 1 # m /\ h[c - 1] = f[c - 1] OBVIOUS
    <3>2. CASE c = m BY <3>1, <3>2
    <3>3. CASE c # m
      <4>1. c \in 1..(m - 1) /\ h[c] = f[c] BY <3>3
      <4> QED BY <2>1, <3>1, <4>1
    <3> QED BY <3>2, <3>3
  <2>6. To(m, h) /\ m \in 0..n
    <3> HIDE DEF h
    <3> QED BY <2>4, <2>5
  <2> HIDE DEF h, To
  <2> QED BY <2>3, <2>6
<1>3. n \in P
  <2>1. n \in 0..n OBVIOUS
  <2> HIDE DEF P
  <2> QED BY <1>1, <1>2, <2>1, Upwards
<1>4. PICK f \in [0..n -> S] : To(n, f) BY <1>3
<1> QED BY <1>4 DEF LoopOf
=============================================================================
