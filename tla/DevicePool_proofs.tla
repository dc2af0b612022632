-------------------------- MODULE DevicePool_proofs --------------------------
(***************************************************************************)
(* The properties of DevicePool, for any buffers, addresses, size classes  *)
(* and number of steps.  resize and the moves hand a block back and then   *)
(* take or receive another, so the invariant Good is about the arguments:  *)
(* buffers D with sizes N, free lists F, H bytes held, blocks Z, at step t.*)
(* It holds between the two halves as well.                                *)
(***************************************************************************)
EXTENDS DevicePool, Induction, SequenceTheorems, TLAPS

Typed(D, N, F, Z, t) ==
  /\ D \in [Buffers -> Addr \cup {Null}]
  /\ N \in [Buffers -> Sizes \cup {0}]
  /\ F \in [Classes -> Seq(Idle)]
  /\ Z \in [Addr -> Classes \cup {0}]
  /\ t \in 0..MaxStep

(* NoSharing: among the buffers, between buffers and lists, in the lists.   *)
Apart(D) == \A b, o \in Buffers : D[b] = D[o] /\ D[b] # Null => b = o
Away(D, F) == \A b \in Buffers, c \in Classes : \A i \in 1..Len(F[c]) : F[c][i].p # D[b]
Once(F) == \A c, k \in Classes : \A i \in 1..Len(F[c]), j \in 1..Len(F[k]) :
             F[c][i].p = F[k][j].p => c = k /\ i = j

(* BigEnough, of the buffers and of the lists.                              *)
Fits(D, N, Z) == \A b \in Buffers : D[b] # Null =>
                   N[b] \in Sizes /\ Z[D[b]] = Class[N[b]] /\ Z[D[b]] >= N[b]
Filed(F, Z) == \A c \in Classes : \A i \in 1..Len(F[c]) : Z[F[c][i].p] = c

(* TrimComplete.  That no idle block is from the future keeps the lists in  *)
(* order when a block is handed back.                                       *)
Ordered(F) == \A c \in Classes : \A i, j \in 1..Len(F[c]) :
                i <= j => F[c][i].step <= F[c][j].step
Past(F, t) == \A c \in Classes : \A i \in 1..Len(F[c]) : F[c][i].step <= t
Recent(F, t) == on /\ ~Exact =>
  \A c \in Classes : \A i \in 1..Len(F[c]) : F[c][i].step + Keep >= t

(* Accounted.                                                               *)
Bytes(F) == [c \in Classes |-> Len(F[c]) * c]
Owned(D, F, Z) == \A a \in Addr : Z[a] # 0 =>
  \/ \E b \in Buffers : D[b] = a
  \/ \E c \in Classes : \E i \in 1..Len(F[c]) : F[c][i].p = a

Good(D, N, F, H, Z, t) ==
  /\ Typed(D, N, F, Z, t)
  /\ Apart(D) /\ Away(D, F) /\ Once(F)
  /\ Fits(D, N, Z) /\ Filed(F, Z)
  /\ Ordered(F) /\ Past(F, t) /\ Recent(F, t)
  /\ H = SumFunction(Bytes(F)) /\ Owned(D, F, Z)

IInv == on \in BOOLEAN /\ Good(d, n, free, heldBytes, size, step)
-----------------------------------------------------------------------------
(* The size classes are finitely many and positive.                         *)
LEMMA ClassesFinite == IsFiniteSet(Classes)
<1>1. Class \in Surjection(Sizes, Classes)
  BY DevicePoolAssumption DEF Surjection, Classes
<1> QED BY <1>1, FS_Surjection, DevicePoolAssumption

LEMMA ClassesPositive == Classes \subseteq Nat \ {0}
BY DevicePoolAssumption DEF Classes

LEMMA ClassIn == ASSUME NEW s \in Sizes PROVE Class[s] \in Classes /\ Class[s] \in Nat \ {0}
BY DevicePoolAssumption DEF Classes

LEMMA IdleEntry ==
  ASSUME NEW F \in [Classes -> Seq(Idle)], NEW c \in Classes
  PROVE  /\ Len(F[c]) \in Nat
         /\ \A i \in 1..Len(F[c]) : /\ F[c][i] \in Idle /\ F[c][i].p \in Addr
                                    /\ F[c][i].step \in Nat
<1>1. F[c] \in Seq(Idle) OBVIOUS
<1>2. \A i \in 1..Len(F[c]) : F[c][i] \in Idle BY <1>1, ElementOfSeq
<1>3. \A e \in Idle : e.p \in Addr /\ e.step \in Nat BY DevicePoolAssumption DEF Idle
<1> QED BY <1>1, <1>2, <1>3

LEMMA BytesType ==
  ASSUME NEW F \in [Classes -> Seq(Idle)]
  PROVE  Bytes(F) \in [Classes -> Nat] /\ Bytes(F) \in [Classes -> Int]
<1>1. \A c \in Classes : Len(F[c]) \in Nat /\ c \in Nat BY ClassesPositive
<1>2. \A x, y \in Nat : x * y \in Nat OBVIOUS
<1> QED BY <1>1, <1>2 DEF Bytes

LEMMA ClassSum ==
  ASSUME NEW f \in [Classes -> Int], NEW g \in [Classes -> Int], NEW c \in Classes,
         \A k \in Classes : k # c => g[k] = f[k]
  PROVE  SumFunction(g) = SumFunction(f) + (g[c] - f[c])
BY ClassesFinite, SumChanges

LEMMA ClassSums ==
  ASSUME NEW f \in [Classes -> Int], NEW g \in [Classes -> Int], NEW h \in [Classes -> Int],
         \A k \in Classes : f[k] = g[k] + h[k]
  PROVE  SumFunction(f) = SumFunction(g) + SumFunction(h)
BY ClassesFinite, SumAdds

(* A list longer by one block counts that many bytes more.                  *)
LEMMA BytesGrow ==
  ASSUME NEW F \in [Classes -> Seq(Idle)], NEW G \in [Classes -> Seq(Idle)],
         NEW c \in Classes, Len(G[c]) = Len(F[c]) + 1,
         \A k \in Classes : k # c => G[k] = F[k]
  PROVE  SumFunction(Bytes(G)) = SumFunction(Bytes(F)) + c
<1>1. Bytes(F) \in [Classes -> Int] /\ Bytes(G) \in [Classes -> Int] BY BytesType
<1>2. \A k \in Classes : k # c => Bytes(G)[k] = Bytes(F)[k] BY DEF Bytes
<1>3. SumFunction(Bytes(G)) = SumFunction(Bytes(F)) + (Bytes(G)[c] - Bytes(F)[c])
  BY <1>1, <1>2, ClassSum
<1>4. Bytes(G)[c] = (Len(F[c]) + 1) * c /\ Bytes(F)[c] = Len(F[c]) * c BY DEF Bytes
<1>5. Len(F[c]) \in Int /\ c \in Int BY ClassesPositive
<1>6. \A x, z \in Int : (x + 1) * z - x * z = z OBVIOUS
<1>7. Bytes(G)[c] - Bytes(F)[c] = c BY <1>4, <1>5, <1>6
<1> QED BY <1>3, <1>7

(* give with the pool on: the block goes to the end of the list of its      *)
(* class.                                                                   *)
LEMMA AppendEntries ==
  ASSUME NEW F \in [Classes -> Seq(Idle)], NEW c \in Classes, NEW e \in Idle,
         NEW G, G = [F EXCEPT ![c] = Append(@, e)]
  PROVE  /\ G \in [Classes -> Seq(Idle)]
         /\ \A k \in Classes : k # c => G[k] = F[k]
         /\ Len(G[c]) = Len(F[c]) + 1
         /\ G[c][Len(F[c]) + 1] = e
         /\ \A k \in Classes : \A i \in 1..Len(F[k]) : i \in 1..Len(G[k]) /\ G[k][i] = F[k][i]
         /\ \A k \in Classes : \A i \in 1..Len(G[k]) :
              \/ i \in 1..Len(F[k]) /\ G[k][i] = F[k][i]
              \/ k = c /\ i = Len(F[c]) + 1 /\ G[k][i] = e
<1>1. F[c] \in Seq(Idle) /\ G[c] = Append(F[c], e) OBVIOUS
<1>2. /\ G[c] \in Seq(Idle) /\ Len(G[c]) = Len(F[c]) + 1 /\ G[c][Len(F[c]) + 1] = e
      /\ \A i \in 1..Len(F[c]) : G[c][i] = F[c][i]
  BY <1>1, AppendProperties
<1>3. \A k \in Classes : k # c => G[k] = F[k] OBVIOUS
<1>4. G \in [Classes -> Seq(Idle)] BY <1>2
<1>5. Len(F[c]) \in Nat BY <1>1
<1>6. \A k \in Classes : \A i \in 1..Len(F[k]) : i \in 1..Len(G[k]) /\ G[k][i] = F[k][i]
  BY <1>2, <1>3, <1>5
<1>7. ASSUME NEW k \in Classes, NEW i \in 1..Len(G[k])
      PROVE  \/ i \in 1..Len(F[k]) /\ G[k][i] = F[k][i]
             \/ k = c /\ i = Len(F[c]) + 1 /\ G[k][i] = e
  <2>1. CASE k # c BY <1>3, <2>1
  <2>2. CASE k = c
    <3>1. i \in 1..Len(F[c]) \/ i = Len(F[c]) + 1 BY <1>2, <1>5, <2>2
    <3> QED BY <1>2, <2>2, <3>1
  <2> QED BY <2>1, <2>2
<1> QED BY <1>2, <1>3, <1>4, <1>6, <1>7
-----------------------------------------------------------------------------
(* The first half: b hands its block back; N1 is n but for b.               *)

(* b has no block.                                                          *)
LEMMA GiveNothing ==
  ASSUME NEW D, NEW N, NEW F, NEW H, NEW Z, NEW t, Good(D, N, F, H, Z, t),
         NEW b \in Buffers, D[b] = Null,
         NEW N1 \in [Buffers -> Sizes \cup {0}], \A o \in Buffers : o # b => N1[o] = N[o]
  PROVE  Good([D EXCEPT ![b] = Null], N1, F, H, Z, t)
<1>1. [D EXCEPT ![b] = Null] = D BY DEF Good, Typed
<1>2. Fits(D, N1, Z) BY DEF Good, Fits
<1>3. Typed(D, N1, F, Z, t) BY DEF Good, Typed
<1> QED BY <1>1, <1>2, <1>3 DEF Good

(* The pool is on.                                                          *)
LEMMA GiveToPool ==
  ASSUME NEW D, NEW N, NEW F, NEW H, NEW Z, NEW t, Good(D, N, F, H, Z, t),
         NEW b \in Buffers, D[b] # Null,
         NEW N1 \in [Buffers -> Sizes \cup {0}], \A o \in Buffers : o # b => N1[o] = N[o],
         NEW G, G = [F EXCEPT ![Class[N[b]]] = Append(@, [p |-> D[b], step |-> t])]
  PROVE  Good([D EXCEPT ![b] = Null], N1, G, H + Class[N[b]], Z, t)
<1> DEFINE c == Class[N[b]]
           e == [p |-> D[b], step |-> t]
           D1 == [D EXCEPT ![b] = Null]
<1>1. /\ D \in [Buffers -> Addr \cup {Null}] /\ F \in [Classes -> Seq(Idle)]
      /\ Z \in [Addr -> Classes \cup {0}] /\ t \in 0..MaxStep
  BY DEF Good, Typed
<1>2. N[b] \in Sizes /\ Z[D[b]] = c BY DEF Good, Fits
<1>3. c \in Classes /\ c \in Nat \ {0} BY <1>2, ClassIn
<1>4. e \in Idle /\ e.p = D[b] /\ e.step = t BY <1>1 DEF Idle
<1>5. D1 \in [Buffers -> Addr \cup {Null}] /\ D1[b] = Null
      /\ \A o \in Buffers : o # b => D1[o] = D[o]
  BY <1>1
<1>6. /\ G \in [Classes -> Seq(Idle)]
      /\ \A k \in Classes : k # c => G[k] = F[k]
      /\ Len(G[c]) = Len(F[c]) + 1
      /\ G[c][Len(F[c]) + 1] = e
      /\ \A k \in Classes : \A i \in 1..Len(F[k]) : i \in 1..Len(G[k]) /\ G[k][i] = F[k][i]
      /\ \A k \in Classes : \A i \in 1..Len(G[k]) :
           \/ i \in 1..Len(F[k]) /\ G[k][i] = F[k][i]
           \/ k = c /\ i = Len(F[c]) + 1 /\ G[k][i] = e
  <2>1. G = [F EXCEPT ![c] = Append(@, e)] OBVIOUS
  <2> HIDE DEF c, e
  <2> QED BY <1>1, <1>3, <1>4, <2>1, AppendEntries, SMTT(30)
<1>7. \A k \in Classes : Len(F[k]) \in Nat /\ \A i \in 1..Len(F[k]) :
        F[k][i].p \in Addr /\ F[k][i].step \in Nat
  BY <1>1, IdleEntry
<1>8. H = SumFunction(Bytes(F)) BY DEF Good
<1> HIDE DEF c, e, D1
<1>9. Typed(D1, N1, G, Z, t) BY <1>1, <1>5, <1>6 DEF Typed
<1>10. Apart(D1) BY <1>5 DEF Good, Apart
<1>11. Away(D1, G)
  <2> SUFFICES ASSUME NEW o \in Buffers, NEW k \in Classes, NEW i \in 1..Len(G[k])
               PROVE  G[k][i].p # D1[o]
    BY DEF Away
  <2>1. CASE i \in 1..Len(F[k]) /\ G[k][i] = F[k][i]
    <3>1. F[k][i].p # D[o] /\ F[k][i].p \in Addr BY <1>7, <2>1 DEF Good, Away
    <3> QED BY <1>5, <2>1, <3>1, DevicePoolAssumption
  <2>2. CASE G[k][i] = e BY <1>1, <1>4, <1>5, <2>2 DEF Good, Apart
  <2> QED BY <1>6, <2>1, <2>2
<1>12. Once(G)
  <2> SUFFICES ASSUME NEW j \in Classes, NEW k \in Classes,
                      NEW x \in 1..Len(G[j]), NEW y \in 1..Len(G[k]),
                      G[j][x].p = G[k][y].p
               PROVE  j = k /\ x = y
    BY DEF Once
  <2>1. CASE /\ x \in 1..Len(F[j]) /\ G[j][x] = F[j][x]
             /\ y \in 1..Len(F[k]) /\ G[k][y] = F[k][y]
    BY <2>1 DEF Good, Once
  <2>2. CASE x \in 1..Len(F[j]) /\ G[j][x] = F[j][x] /\ G[k][y] = e
    BY <1>4, <2>2 DEF Good, Away
  <2>3. CASE G[j][x] = e /\ y \in 1..Len(F[k]) /\ G[k][y] = F[k][y]
    BY <1>4, <2>3 DEF Good, Away
  <2>4. CASE j = c /\ x = Len(F[c]) + 1 /\ k = c /\ y = Len(F[c]) + 1
    BY <2>4
  <2>5. /\ \/ x \in 1..Len(F[j]) /\ G[j][x] = F[j][x]
           \/ j = c /\ x = Len(F[c]) + 1 /\ G[j][x] = e
        /\ \/ y \in 1..Len(F[k]) /\ G[k][y] = F[k][y]
           \/ k = c /\ y = Len(F[c]) + 1 /\ G[k][y] = e
    BY ONLY <1>6, j \in Classes, k \in Classes, x \in 1..Len(G[j]), y \in 1..Len(G[k])
  <2> QED BY ONLY <2>1, <2>2, <2>3, <2>4, <2>5
<1>13. Fits(D1, N1, Z) BY <1>5 DEF Good, Fits
<1>14. Filed(G, Z) BY <1>2, <1>4, <1>6 DEF Good, Filed
<1>15. Ordered(G)
  <2> SUFFICES ASSUME NEW k \in Classes, NEW x \in 1..Len(G[k]), NEW y \in 1..Len(G[k]),
                      x <= y
               PROVE  G[k][x].step <= G[k][y].step
    BY DEF Ordered
  <2>1. CASE /\ x \in 1..Len(F[k]) /\ G[k][x] = F[k][x]
             /\ y \in 1..Len(F[k]) /\ G[k][y] = F[k][y]
    BY <2>1 DEF Good, Ordered
  <2>2. CASE x \in 1..Len(F[k]) /\ G[k][x] = F[k][x] /\ G[k][y] = e
    BY <1>4, <2>2 DEF Good, Past
  <2>3. CASE k = c /\ x = Len(F[c]) + 1 /\ y \in 1..Len(F[k])
    BY <1>3, <1>7, <2>3
  <2>4. CASE G[k][x] = e /\ G[k][y] = e
    BY <1>1, <1>4, <2>4
  <2>5. /\ \/ x \in 1..Len(F[k]) /\ G[k][x] = F[k][x]
           \/ k = c /\ x = Len(F[c]) + 1 /\ G[k][x] = e
        /\ \/ y \in 1..Len(F[k]) /\ G[k][y] = F[k][y]
           \/ k = c /\ y = Len(F[c]) + 1 /\ G[k][y] = e
    BY ONLY <1>6, k \in Classes, x \in 1..Len(G[k]), y \in 1..Len(G[k])
  <2> QED BY ONLY <2>1, <2>2, <2>3, <2>4, <2>5
<1>16. Past(G, t)
  <2>1. t <= t BY <1>1
  <2> QED BY <1>4, <1>6, <2>1 DEF Good, Past
<1>17. Recent(G, t)
  <2>1. t + Keep >= t BY <1>1, DevicePoolAssumption
  <2> QED BY <1>4, <1>6, <2>1 DEF Good, Recent
<1>18. H + c = SumFunction(Bytes(G))
  <2>1. /\ F \in [Classes -> Seq(Idle)] /\ G \in [Classes -> Seq(Idle)] /\ c \in Classes
        /\ Len(G[c]) = Len(F[c]) + 1 /\ \A k \in Classes : k # c => G[k] = F[k]
    BY <1>1, <1>3, <1>6
  <2>2. SumFunction(Bytes(G)) = SumFunction(Bytes(F)) + c BY ONLY <2>1, BytesGrow
  <2> QED BY <1>8, <2>2
<1>19. Owned(D1, G, Z)
  <2> SUFFICES ASSUME NEW a \in Addr, Z[a] # 0
               PROVE  \/ \E o \in Buffers : D1[o] = a
                      \/ \E k \in Classes : \E i \in 1..Len(G[k]) : G[k][i].p = a
    BY DEF Owned
  <2>1. CASE a = D[b]
    <3>1. Len(F[c]) + 1 \in 1..Len(G[c]) /\ G[c][Len(F[c]) + 1].p = a
      BY <1>3, <1>4, <1>6, <1>7, <2>1
    <3> QED BY <1>3, <3>1
  <2>2. CASE \E o \in Buffers : D[o] = a /\ o # b BY <1>5, <2>2
  <2>3. CASE \E k \in Classes : \E i \in 1..Len(F[k]) : F[k][i].p = a BY <1>6, <2>3
  <2> QED BY <2>1, <2>2, <2>3 DEF Good, Owned
<1> QED BY <1>9, <1>10, <1>11, <1>12, <1>13, <1>14, <1>15, <1>16, <1>17, <1>18, <1>19
        DEF Good, c, D1

(* The pool is off: the block goes back to the driver.                      *)
LEMMA GiveToDriver ==
  ASSUME NEW D, NEW N, NEW F, NEW H, NEW Z, NEW t, Good(D, N, F, H, Z, t),
         NEW b \in Buffers, D[b] # Null,
         NEW N1 \in [Buffers -> Sizes \cup {0}], \A o \in Buffers : o # b => N1[o] = N[o]
  PROVE  Good([D EXCEPT ![b] = Null], N1, F, H, [Z EXCEPT ![D[b]] = 0], t)
<1> DEFINE D1 == [D EXCEPT ![b] = Null]
           Z1 == [Z EXCEPT ![D[b]] = 0]
<1>1. /\ D \in [Buffers -> Addr \cup {Null}] /\ F \in [Classes -> Seq(Idle)]
      /\ Z \in [Addr -> Classes \cup {0}] /\ t \in 0..MaxStep
  BY DEF Good, Typed
<1>2. D1 \in [Buffers -> Addr \cup {Null}] /\ D1[b] = Null
      /\ \A o \in Buffers : o # b => D1[o] = D[o]
  BY <1>1
<1>3. Z1 \in [Addr -> Classes \cup {0}] /\ Z1[D[b]] = 0
      /\ \A a \in Addr : a # D[b] => Z1[a] = Z[a]
  BY <1>1
<1>4. \A k \in Classes : \A i \in 1..Len(F[k]) : F[k][i].p \in Addr
  BY <1>1, IdleEntry
<1> HIDE DEF D1, Z1
<1>5. Typed(D1, N1, F, Z1, t) BY <1>1, <1>2, <1>3 DEF Typed
<1>6. Apart(D1) BY <1>2 DEF Good, Apart
<1>7. Away(D1, F) BY <1>2, <1>4, DevicePoolAssumption DEF Good, Away
<1>8. Fits(D1, N1, Z1)
  <2> SUFFICES ASSUME NEW o \in Buffers, D1[o] # Null
               PROVE  N1[o] \in Sizes /\ Z1[D1[o]] = Class[N1[o]] /\ Z1[D1[o]] >= N1[o]
    BY DEF Fits
  <2>1. o # b /\ D1[o] = D[o] /\ D[o] # D[b] /\ D[o] \in Addr BY <1>1, <1>2 DEF Good, Apart
  <2> QED BY <1>3, <2>1 DEF Good, Fits
<1>9. Filed(F, Z1) BY <1>3, <1>4 DEF Good, Filed, Away
<1>10. Owned(D1, F, Z1)
  <2> SUFFICES ASSUME NEW a \in Addr, Z1[a] # 0
               PROVE  \/ \E o \in Buffers : D1[o] = a
                      \/ \E k \in Classes : \E i \in 1..Len(F[k]) : F[k][i].p = a
    BY DEF Owned
  <2>1. a # D[b] /\ Z[a] # 0 BY <1>3
  <2> QED BY <1>2, <2>1 DEF Good, Owned
<1> QED BY <1>5, <1>6, <1>7, <1>8, <1>9, <1>10 DEF Good, D1, Z1

LEMMA GiveKeeps ==
  ASSUME IInv, NEW b \in Buffers,
         NEW N1 \in [Buffers -> Sizes \cup {0}], \A o \in Buffers : o # b => N1[o] = n[o]
  PROVE  Good([d EXCEPT ![b] = Null], N1, freeAfterGive(b), heldAfterGive(b),
              sizeAfterGive(b), step)
<1>1. Good(d, n, free, heldBytes, size, step) BY DEF IInv
<1>2. CASE d[b] = Null
  BY <1>1, <1>2, GiveNothing DEF freeAfterGive, heldAfterGive, sizeAfterGive
<1>3. CASE d[b] # Null /\ on
  BY <1>1, <1>3, GiveToPool DEF freeAfterGive, heldAfterGive, sizeAfterGive
<1>4. CASE d[b] # Null /\ ~on
  BY <1>1, <1>4, GiveToDriver DEF freeAfterGive, heldAfterGive, sizeAfterGive
<1> QED BY <1>2, <1>3, <1>4
-----------------------------------------------------------------------------
(* The second half: b, which has no block, takes or receives one.           *)

(* G is F without the last block of list c.                                 *)
Shorter(F, G, c) ==
  /\ G \in [Classes -> Seq(Idle)]
  /\ \A k \in Classes : k # c => G[k] = F[k]
  /\ Len(F[c]) = Len(G[c]) + 1
  /\ Len(F[c]) \in 1..Len(F[c])
  /\ \A k \in Classes : \A i \in 1..Len(G[k]) :
       /\ i \in 1..Len(F[k]) /\ G[k][i] = F[k][i]
       /\ ~(k = c /\ i = Len(F[c]))
  /\ \A k \in Classes : \A i \in 1..Len(F[k]) :
       \/ i \in 1..Len(G[k]) /\ G[k][i] = F[k][i]
       \/ k = c /\ i = Len(F[c])

LEMMA DropLast ==
  ASSUME NEW F \in [Classes -> Seq(Idle)], NEW c \in Classes, F[c] # <<>>,
         NEW G, G = [F EXCEPT ![c] = SubSeq(F[c], 1, Len(F[c]) - 1)]
  PROVE  Shorter(F, G, c)
<1> DEFINE s == F[c]
<1>1. s \in Seq(Idle) /\ Len(s) \in Nat /\ Len(s) # 0 BY EmptySeq
<1>2. \A i \in 1..Len(s) - 1 : s[i] \in Idle
  <2>1. \A i \in 1..Len(s) : s[i] \in Idle BY <1>1, ElementOfSeq
  <2> QED BY <1>1, <2>1
<1>3. G[c] = SubSeq(s, 1, Len(s) - 1) OBVIOUS
<1> HIDE DEF s
<1>4. /\ G[c] \in Seq(Idle) /\ Len(G[c]) = Len(s) - 1
      /\ \A i \in 1..Len(s) - 1 : G[c][i] = s[i]
  <2>1. /\ SubSeq(s, 1, Len(s) - 1) \in Seq(Idle)
        /\ Len(SubSeq(s, 1, Len(s) - 1)) = IF 1 <= Len(s) - 1 THEN Len(s) - 1 - 1 + 1 ELSE 0
        /\ \A i \in 1..Len(s) - 1 - 1 + 1 : SubSeq(s, 1, Len(s) - 1)[i] = s[1 + i - 1]
    BY ONLY <1>1, <1>2, SubSeqProperties
  <2>2. Len(s) - 1 - 1 + 1 = Len(s) - 1 /\ \A i \in Int : 1 + i - 1 = i BY <1>1
  <2> QED BY <1>1, <1>3, <2>1, <2>2
<1>5. \A k \in Classes : k # c => G[k] = F[k] OBVIOUS
<1>6. G \in [Classes -> Seq(Idle)] BY <1>4
<1>7. Len(F[c]) = Len(G[c]) + 1 /\ Len(F[c]) \in 1..Len(F[c]) BY <1>1, <1>4 DEF s
<1>8. ASSUME NEW k \in Classes, NEW i \in 1..Len(G[k])
      PROVE  i \in 1..Len(F[k]) /\ G[k][i] = F[k][i] /\ ~(k = c /\ i = Len(F[c]))
  <2>1. CASE k # c BY <1>5, <2>1
  <2>2. CASE k = c BY <1>1, <1>4, <2>2 DEF s
  <2> QED BY <2>1, <2>2
<1>9. ASSUME NEW k \in Classes, NEW i \in 1..Len(F[k])
      PROVE  \/ i \in 1..Len(G[k]) /\ G[k][i] = F[k][i]
             \/ k = c /\ i = Len(F[c])
  <2>1. CASE k # c BY <1>5, <2>1
  <2>2. CASE k = c BY <1>1, <1>4, <2>2 DEF s
  <2> QED BY <2>1, <2>2
<1> QED BY <1>5, <1>6, <1>7, <1>8, <1>9 DEF Shorter

LEMMA TakeIdle ==
  ASSUME NEW D, NEW N, NEW F, NEW H, NEW Z, NEW t, Good(D, N, F, H, Z, t),
         NEW b \in Buffers, D[b] = Null,
         NEW s \in Sizes, Class[s] >= s, F[Class[s]] # <<>>,
         NEW q, q = F[Class[s]][Len(F[Class[s]])].p,
         NEW G, G = [F EXCEPT ![Class[s]] = SubSeq(F[Class[s]], 1, Len(F[Class[s]]) - 1)]
  PROVE  Good([D EXCEPT ![b] = q], [N EXCEPT ![b] = s], G, H - Class[s], Z, t)
<1> DEFINE c == Class[s]
           D1 == [D EXCEPT ![b] = q]
           N1 == [N EXCEPT ![b] = s]
           l == Len(F[c])
<1>1. /\ D \in [Buffers -> Addr \cup {Null}] /\ F \in [Classes -> Seq(Idle)]
      /\ N \in [Buffers -> Sizes \cup {0}]
      /\ Z \in [Addr -> Classes \cup {0}] /\ t \in 0..MaxStep
  BY DEF Good, Typed
<1>2. c \in Classes /\ c \in Nat \ {0} BY ClassIn
<1>3. D1[b] = q /\ \A o \in Buffers : o # b => D1[o] = D[o] BY <1>1
<1>4. N1 \in [Buffers -> Sizes \cup {0}] /\ N1[b] = s
      /\ \A o \in Buffers : o # b => N1[o] = N[o]
  BY <1>1
<1>5. F[c] # <<>> /\ q = F[c][l].p OBVIOUS
<1>6. /\ G \in [Classes -> Seq(Idle)]
      /\ \A k \in Classes : k # c => G[k] = F[k]
      /\ Len(F[c]) = Len(G[c]) + 1
      /\ l \in 1..Len(F[c])
      /\ \A k \in Classes : \A i \in 1..Len(G[k]) :
           /\ i \in 1..Len(F[k]) /\ G[k][i] = F[k][i]
           /\ ~(k = c /\ i = l)
      /\ \A k \in Classes : \A i \in 1..Len(F[k]) :
           \/ i \in 1..Len(G[k]) /\ G[k][i] = F[k][i]
           \/ k = c /\ i = l
  <2>1. G = [F EXCEPT ![c] = SubSeq(F[c], 1, Len(F[c]) - 1)] OBVIOUS
  <2> HIDE DEF c
  <2>2. F \in [Classes -> Seq(Idle)] /\ c \in Classes /\ F[c] # <<>> BY <1>1, <1>2, <1>5
  <2>3. Shorter(F, G, c) BY ONLY <2>1, <2>2, DropLast
  <2> QED BY ONLY <2>3 DEF Shorter, l
<1>7. q \in Addr /\ q # Null
  <2>1. F[c][l].p \in Addr
    <3>1. F \in [Classes -> Seq(Idle)] /\ c \in Classes /\ l \in 1..Len(F[c])
      BY <1>1, <1>2, <1>6
    <3> HIDE DEF c, l
    <3> QED BY ONLY <3>1, IdleEntry
  <2> QED BY <1>5, <2>1, DevicePoolAssumption
<1>8. D1 \in [Buffers -> Addr \cup {Null}] BY <1>1, <1>7
<1>9. H = SumFunction(Bytes(F)) /\ c >= s BY DEF Good
<1> HIDE DEF c, D1, N1, l
<1>10. Typed(D1, N1, G, Z, t) BY <1>1, <1>4, <1>6, <1>8 DEF Typed
<1>11. \A o \in Buffers : D[o] # q BY <1>2, <1>5, <1>6 DEF Good, Away
<1>12. Apart(D1) BY <1>3, <1>11 DEF Good, Apart
<1>13. Away(D1, G)
  <2> SUFFICES ASSUME NEW o \in Buffers, NEW k \in Classes, NEW i \in 1..Len(G[k])
               PROVE  G[k][i].p # D1[o]
    BY DEF Away
  <2>1. i \in 1..Len(F[k]) /\ G[k][i] = F[k][i] /\ ~(k = c /\ i = l) BY <1>6
  <2>2. CASE o # b BY <1>3, <2>1, <2>2 DEF Good, Away
  <2>3. CASE o = b
    <3>1. l \in 1..Len(F[c]) /\ F[c][l].p = q BY <1>5, <1>6
    <3>2. Once(F) BY DEF Good
    <3>3. F[k][i].p # F[c][l].p BY <1>2, <2>1, <3>1, <3>2 DEF Once
    <3> QED BY <1>3, <2>1, <2>3, <3>1, <3>3
  <2> QED BY <2>2, <2>3
<1>14. Once(G)
  <2> SUFFICES ASSUME NEW j \in Classes, NEW k \in Classes,
                      NEW x \in 1..Len(G[j]), NEW y \in 1..Len(G[k]),
                      G[j][x].p = G[k][y].p
               PROVE  j = k /\ x = y
    BY DEF Once
  <2>1. /\ x \in 1..Len(F[j]) /\ G[j][x] = F[j][x]
        /\ y \in 1..Len(F[k]) /\ G[k][y] = F[k][y]
    BY <1>6, ZenonT(60)
  <2> QED BY <2>1 DEF Good, Once
<1>15. Z[q] = c BY <1>2, <1>5, <1>6 DEF Good, Filed
<1>16. Fits(D1, N1, Z)
  <2> SUFFICES ASSUME NEW o \in Buffers, D1[o] # Null
               PROVE  N1[o] \in Sizes /\ Z[D1[o]] = Class[N1[o]] /\ Z[D1[o]] >= N1[o]
    BY DEF Fits
  <2>1. CASE o # b BY <1>3, <1>4, <2>1 DEF Good, Fits
  <2>2. CASE o = b BY <1>3, <1>4, <1>9, <1>15, <2>2 DEF c
  <2> QED BY <2>1, <2>2
<1>17. Filed(G, Z) BY <1>6 DEF Good, Filed
<1>18. Ordered(G) /\ Past(G, t) /\ Recent(G, t)
  BY <1>6, SMTT(60) DEF Good, Ordered, Past, Recent
<1>19. H - c = SumFunction(Bytes(G))
  <2>1. /\ F \in [Classes -> Seq(Idle)] /\ G \in [Classes -> Seq(Idle)] /\ c \in Classes
        /\ Len(F[c]) = Len(G[c]) + 1 /\ \A k \in Classes : k # c => F[k] = G[k]
    BY <1>1, <1>2, <1>6
  <2>2. SumFunction(Bytes(F)) = SumFunction(Bytes(G)) + c BY ONLY <2>1, BytesGrow
  <2>3. SumFunction(Bytes(G)) \in Nat BY ONLY <2>1, BytesType, ClassesFinite, SumOfNaturals
  <2> QED BY <1>2, <1>9, <2>2, <2>3
<1>20. Owned(D1, G, Z)
  <2> SUFFICES ASSUME NEW a \in Addr, Z[a] # 0
               PROVE  \/ \E o \in Buffers : D1[o] = a
                      \/ \E k \in Classes : \E i \in 1..Len(G[k]) : G[k][i].p = a
    BY DEF Owned
  <2>1. CASE a = q BY <1>3, <2>1
  <2>2. CASE \E o \in Buffers : D[o] = a
    <3>1. PICK o \in Buffers : D[o] = a BY <2>2
    <3>2. a # Null /\ o # b BY <3>1, DevicePoolAssumption
    <3> QED BY <1>3, <3>1, <3>2
  <2>3. CASE \E k \in Classes : \E i \in 1..Len(F[k]) : F[k][i].p = a /\ a # q
    BY <1>5, <1>6, <2>3, SMTT(60)
  <2> QED BY <2>1, <2>2, <2>3 DEF Good, Owned
<1> QED BY <1>10, <1>12, <1>13, <1>14, <1>16, <1>17, <1>18, <1>19, <1>20
        DEF Good, c, D1, N1

(* The driver hands out a block of the class.                               *)
LEMMA TakeNew ==
  ASSUME NEW D, NEW N, NEW F, NEW H, NEW Z, NEW t, Good(D, N, F, H, Z, t),
         NEW b \in Buffers, D[b] = Null,
         NEW s \in Sizes, Class[s] >= s, NEW a \in Addr, Z[a] = 0
  PROVE  Good([D EXCEPT ![b] = a], [N EXCEPT ![b] = s], F, H, [Z EXCEPT ![a] = Class[s]], t)
<1> DEFINE D1 == [D EXCEPT ![b] = a]
           N1 == [N EXCEPT ![b] = s]
           Z1 == [Z EXCEPT ![a] = Class[s]]
<1>1. /\ D \in [Buffers -> Addr \cup {Null}] /\ F \in [Classes -> Seq(Idle)]
      /\ N \in [Buffers -> Sizes \cup {0}]
      /\ Z \in [Addr -> Classes \cup {0}] /\ t \in 0..MaxStep
  BY DEF Good, Typed
<1>2. Class[s] \in Classes BY ClassIn
<1>3. D1 \in [Buffers -> Addr \cup {Null}] /\ D1[b] = a
      /\ \A o \in Buffers : o # b => D1[o] = D[o]
  BY <1>1
<1>4. N1 \in [Buffers -> Sizes \cup {0}] /\ N1[b] = s
      /\ \A o \in Buffers : o # b => N1[o] = N[o]
  BY <1>1
<1>5. Z1 \in [Addr -> Classes \cup {0}] /\ Z1[a] = Class[s]
      /\ \A x \in Addr : x # a => Z1[x] = Z[x]
  BY <1>1, <1>2
<1>6. a # Null BY DevicePoolAssumption
<1>7. \A o \in Buffers : D[o] # a
  <2> SUFFICES ASSUME NEW o \in Buffers, D[o] = a PROVE FALSE
    OBVIOUS
  <2>1. N[o] \in Sizes /\ Z[a] = Class[N[o]] BY <1>6 DEF Good, Fits
  <2> QED BY <2>1, ClassIn
<1>8. \A k \in Classes : \A i \in 1..Len(F[k]) : F[k][i].p # a /\ F[k][i].p \in Addr
  <2> SUFFICES ASSUME NEW k \in Classes, NEW i \in 1..Len(F[k])
               PROVE  F[k][i].p # a /\ F[k][i].p \in Addr
    OBVIOUS
  <2>1. Z[F[k][i].p] = k /\ k # 0 BY ClassesPositive DEF Good, Filed
  <2>2. F[k][i].p \in Addr BY <1>1, IdleEntry
  <2> QED BY <2>1, <2>2
<1> HIDE DEF D1, N1, Z1
<1>9. Typed(D1, N1, F, Z1, t) BY <1>1, <1>3, <1>4, <1>5 DEF Typed
<1>10. Apart(D1) BY <1>3, <1>7 DEF Good, Apart
<1>11. Away(D1, F) BY <1>3, <1>8 DEF Good, Away
<1>12. Fits(D1, N1, Z1)
  <2> SUFFICES ASSUME NEW o \in Buffers, D1[o] # Null
               PROVE  N1[o] \in Sizes /\ Z1[D1[o]] = Class[N1[o]] /\ Z1[D1[o]] >= N1[o]
    BY DEF Fits
  <2>1. CASE o # b
    <3>1. D1[o] = D[o] /\ D[o] # a /\ D[o] \in Addr /\ N1[o] = N[o]
      BY <1>1, <1>3, <1>4, <1>7, <2>1
    <3> QED BY <1>5, <3>1 DEF Good, Fits
  <2>2. CASE o = b BY <1>3, <1>4, <1>5, <2>2
  <2> QED BY <2>1, <2>2
<1>13. Filed(F, Z1) BY <1>5, <1>8 DEF Good, Filed
<1>14. Owned(D1, F, Z1)
  <2> SUFFICES ASSUME NEW x \in Addr, Z1[x] # 0
               PROVE  \/ \E o \in Buffers : D1[o] = x
                      \/ \E k \in Classes : \E i \in 1..Len(F[k]) : F[k][i].p = x
    BY DEF Owned
  <2>1. CASE x = a BY <1>3, <2>1
  <2>2. CASE x # a
    <3>1. Z[x] # 0 BY <1>5, <2>2
    <3>2. \A o \in Buffers : D[o] = x => o # b BY DevicePoolAssumption
    <3> QED BY <1>3, <3>1, <3>2 DEF Good, Owned
  <2> QED BY <2>1, <2>2
<1> QED BY <1>9, <1>10, <1>11, <1>12, <1>13, <1>14 DEF Good, D1, N1, Z1

(* b receives the block of o.                                               *)
LEMMA MoveKeeps ==
  ASSUME NEW D, NEW N, NEW F, NEW H, NEW Z, NEW t, Good(D, N, F, H, Z, t),
         NEW b \in Buffers, D[b] = Null, NEW o \in Buffers, o # b
  PROVE  Good([D EXCEPT ![b] = D[o], ![o] = Null], [N EXCEPT ![b] = N[o], ![o] = 0],
              F, H, Z, t)
<1> DEFINE D1 == [D EXCEPT ![b] = D[o], ![o] = Null]
           N1 == [N EXCEPT ![b] = N[o], ![o] = 0]
<1>1. /\ D \in [Buffers -> Addr \cup {Null}] /\ F \in [Classes -> Seq(Idle)]
      /\ N \in [Buffers -> Sizes \cup {0}]
  BY DEF Good, Typed
<1>2. D1 \in [Buffers -> Addr \cup {Null}] /\ D1[b] = D[o] /\ D1[o] = Null
      /\ \A x \in Buffers : x # b /\ x # o => D1[x] = D[x]
  BY <1>1
<1>3. N1 \in [Buffers -> Sizes \cup {0}] /\ N1[b] = N[o]
      /\ \A x \in Buffers : x # b /\ x # o => N1[x] = N[x]
  BY <1>1
<1>4. \A k \in Classes : \A i \in 1..Len(F[k]) : F[k][i].p \in Addr BY <1>1, IdleEntry
<1> HIDE DEF D1, N1
<1>5. Typed(D1, N1, F, Z, t) BY <1>2, <1>3 DEF Good, Typed
<1>6. Apart(D1) BY <1>2 DEF Good, Apart
<1>7. Away(D1, F) BY <1>2, <1>4, DevicePoolAssumption DEF Good, Away
<1>8. Fits(D1, N1, Z) BY <1>2, <1>3 DEF Good, Fits
<1>9. Owned(D1, F, Z)
  <2>1. \A a \in Addr : (\E x \in Buffers : D[x] = a) => \E x \in Buffers : D1[x] = a
    BY <1>2, DevicePoolAssumption
  <2> QED BY <2>1 DEF Good, Owned
<1> QED BY <1>5, <1>6, <1>7, <1>8, <1>9 DEF Good, D1, N1
-----------------------------------------------------------------------------
(* endOfStep.                                                               *)

(* The stale blocks at the front of a list, and no more, are trimmed.       *)
LEMMA TrimmedFront ==
  ASSUME NEW S, NEW s \in Seq(S)
  PROVE  /\ trimmed(s) \in 0..Len(s)
         /\ \A i \in 1..trimmed(s) : stale(s[i])
         /\ trimmed(s) < Len(s) => ~stale(s[trimmed(s) + 1])
<1> DEFINE T == {i \in 1..Len(s) : ~stale(s[i])}
           Is(k) == (\A i \in 1..k : stale(s[i])) /\ (k < Len(s) => ~stale(s[k + 1]))
<1>1. Len(s) \in Nat OBVIOUS
<1>2. \E k \in 0..Len(s) : Is(k)
  <2>1. CASE T = {}
    <3>1. Is(Len(s)) BY <1>1, <2>1
    <3> QED BY <1>1, <3>1
  <2>2. CASE T # {}
    <3>1. PICK x \in T : \A y \in T : x <= y
      <4>1. T \in SUBSET Nat BY <1>1
      <4> HIDE DEF T
      <4> QED BY <2>2, <4>1, LeastNatural
    <3>2. x \in 1..Len(s) /\ ~stale(s[x]) BY <3>1
    <3>3. x - 1 \in 0..Len(s) /\ (x - 1) + 1 = x BY <1>1, <3>2
    <3>4. ASSUME NEW i \in 1..x - 1 PROVE stale(s[i])
      <4>1. i \in 1..Len(s) /\ ~(x <= i) BY <1>1, <3>2
      <4> QED BY <3>1, <4>1
    <3>5. Is(x - 1) BY <3>2, <3>3, <3>4
    <3> QED BY <3>3, <3>5
  <2> QED BY <2>1, <2>2
<1>3. trimmed(s) = CHOOSE k \in 0..Len(s) : Is(k) BY DEF trimmed
<1> HIDE DEF Is
<1>4. trimmed(s) \in 0..Len(s) /\ Is(trimmed(s)) BY <1>2, <1>3
<1> QED BY <1>4 DEF Is

(* What is left of the lists, block by block.                               *)
Trimmed(F, G) ==
  \A c \in Classes :
    /\ G[c] \in Seq(Idle) /\ Len(G[c]) = Len(F[c]) - trimmed(F[c])
    /\ \A i \in 1..Len(G[c]) : /\ trimmed(F[c]) + i \in 1..Len(F[c])
                                /\ G[c][i] = F[c][trimmed(F[c]) + i]

LEMMA TrimEntries ==
  ASSUME NEW F \in [Classes -> Seq(Idle)],
         NEW G, G = [c \in Classes |-> SubSeq(F[c], trimmed(F[c]) + 1, Len(F[c]))]
  PROVE  Trimmed(F, G)
<1> SUFFICES ASSUME NEW c \in Classes
             PROVE  /\ G[c] \in Seq(Idle) /\ Len(G[c]) = Len(F[c]) - trimmed(F[c])
                    /\ \A i \in 1..Len(G[c]) : /\ trimmed(F[c]) + i \in 1..Len(F[c])
                                                /\ G[c][i] = F[c][trimmed(F[c]) + i]
  BY DEF Trimmed
<1> DEFINE s == F[c]
           k == trimmed(s)
           l == Len(s)
<1>1. s \in Seq(Idle) /\ l \in Nat OBVIOUS
<1>2. k \in 0..l BY <1>1, TrimmedFront
<1>3. G[c] = SubSeq(s, k + 1, l) OBVIOUS
<1>4. \A i \in 1..l : s[i] \in Idle BY <1>1, ElementOfSeq
<1> HIDE DEF s, k, l
<1>5. k + 1 \in Int /\ l \in Int /\ \A i \in k + 1..l : s[i] \in Idle BY <1>1, <1>2, <1>4
<1>6. /\ SubSeq(s, k + 1, l) \in Seq(Idle)
      /\ Len(SubSeq(s, k + 1, l)) = IF k + 1 <= l THEN l - (k + 1) + 1 ELSE 0
      /\ \A i \in 1..l - (k + 1) + 1 : SubSeq(s, k + 1, l)[i] = s[k + 1 + i - 1]
  BY ONLY <1>5, SubSeqProperties
<1>7. Len(G[c]) = l - k /\ l - (k + 1) + 1 = l - k
  <2>1. l - (k + 1) + 1 = l - k /\ (IF k + 1 <= l THEN l - (k + 1) + 1 ELSE 0) = l - k
    BY ONLY <1>1, <1>2
  <2>2. Len(SubSeq(s, k + 1, l)) = l - k BY ONLY <1>6, <2>1
  <2> QED BY ONLY <1>3, <2>1, <2>2
<1>8. ASSUME NEW i \in 1..l - k PROVE k + i \in 1..l /\ G[c][i] = s[k + i]
  <2>1. k + 1 + i - 1 = k + i /\ k + i \in 1..l BY <1>1, <1>2
  <2>2. SubSeq(s, k + 1, l)[i] = s[k + 1 + i - 1] BY <1>6, <1>7
  <2> QED BY <1>3, <2>1, <2>2
<1>9. G[c] \in Seq(Idle) BY <1>3, <1>6
<1> QED BY <1>7, <1>8, <1>9 DEF s, k, l

(* The bytes of what is trimmed are the difference.                         *)
LEMMA TrimBytes ==
  ASSUME NEW F \in [Classes -> Seq(Idle)], NEW G \in [Classes -> Seq(Idle)], Trimmed(F, G)
  PROVE  SumFunction(Bytes(G)) =
           SumFunction(Bytes(F)) - SumFunction([c \in Classes |-> trimmed(F[c]) * c])
<1> DEFINE T == [c \in Classes |-> trimmed(F[c]) * c]
           f == Bytes(F)
           g == Bytes(G)
<1>1. f \in [Classes -> Int] /\ g \in [Classes -> Int] BY BytesType
<1>2. ASSUME NEW c \in Classes
      PROVE  /\ trimmed(F[c]) \in Int /\ c \in Int /\ Len(F[c]) \in Int
             /\ Len(G[c]) = Len(F[c]) - trimmed(F[c])
  <2>1. F[c] \in Seq(Idle) OBVIOUS
  <2>2. trimmed(F[c]) \in 0..Len(F[c]) BY <2>1, TrimmedFront
  <2> QED BY <2>1, <2>2, ClassesPositive DEF Trimmed
<1>3. \A x, y \in Int : x * y \in Int OBVIOUS
<1>4. T \in [Classes -> Int] BY <1>2, <1>3
<1>5. \A x, y, z \in Int : x * z = (x - y) * z + y * z OBVIOUS
<1>6. \A c \in Classes : f[c] = g[c] + T[c]
  <2> TAKE c \in Classes
  <2>1. f[c] = Len(F[c]) * c /\ g[c] = Len(G[c]) * c /\ T[c] = trimmed(F[c]) * c
    BY DEF Bytes
  <2> QED BY <1>2, <1>5, <2>1
<1> HIDE DEF T, f, g
<1>7. SumFunction(f) = SumFunction(g) + SumFunction(T)
  BY ONLY <1>1, <1>4, <1>6, ClassSums
<1>8. SumFunction(f) \in Int /\ SumFunction(g) \in Int /\ SumFunction(T) \in Int
  BY ONLY <1>1, <1>4, ClassesFinite, SumType
<1>9. SumFunction(g) = SumFunction(f) - SumFunction(T) BY <1>7, <1>8
<1> QED BY <1>9 DEF T, f, g

LEMMA EndOfStepKeeps == ASSUME IInv, EndOfStep PROVE IInv'
<1> DEFINE k(c) == trimmed(free[c])
<1>1. Good(d, n, free, heldBytes, size, step) BY DEF IInv
<1>2. /\ d \in [Buffers -> Addr \cup {Null}] /\ free \in [Classes -> Seq(Idle)]
      /\ n \in [Buffers -> Sizes \cup {0}]
      /\ size \in [Addr -> Classes \cup {0}] /\ step \in 0..MaxStep
  BY <1>1 DEF Good, Typed
<1>3. /\ step < MaxStep /\ step' = step + 1 /\ on' = on /\ d' = d /\ n' = n
      /\ free' = [c \in Classes |-> SubSeq(free[c], trimmed(free[c]) + 1, Len(free[c]))]
      /\ heldBytes' = heldBytes - SumFunction([c \in Classes |-> trimmed(free[c]) * c])
  BY DEF EndOfStep, freedBytes
<1>4. /\ size' \in [Addr -> Classes \cup {0}]
      /\ \A a \in Addr :
           size'[a] = IF \E c \in Classes : \E i \in 1..k(c) : free[c][i].p = a
                      THEN 0 ELSE size[a]
  BY <1>2 DEF EndOfStep
<1>5. Trimmed(free, free') BY <1>2, <1>3, TrimEntries
<1>6. ASSUME NEW c \in Classes
      PROVE  /\ Len(free[c]) \in Nat /\ k(c) \in 0..Len(free[c])
             /\ k(c) < Len(free[c]) => ~stale(free[c][k(c) + 1])
             /\ \A i \in 1..Len(free[c]) : free[c][i].p \in Addr /\ free[c][i].step \in Nat
  <2>1. free[c] \in Seq(Idle) BY <1>2
  <2> QED BY <1>2, <2>1, TrimmedFront, IdleEntry
<1>7. ASSUME NEW c \in Classes, NEW i \in 1..Len(free'[c])
      PROVE  k(c) + i \in 1..Len(free[c]) /\ free'[c][i] = free[c][k(c) + i]
  BY <1>5 DEF Trimmed
<1>8. free' \in [Classes -> Seq(Idle)]
  <2>1. \A c \in Classes : free'[c] \in Seq(Idle) BY <1>5 DEF Trimmed
  <2>2. free' = [c \in Classes |-> free'[c]] BY <1>3
  <2> HIDE DEF k
  <2> QED BY ONLY <2>1, <2>2
<1> HIDE DEF k
<1>9. Typed(d', n', free', size', step')
  <2>1. step' \in 0..MaxStep BY <1>2, <1>3, DevicePoolAssumption
  <2> QED BY <1>2, <1>3, <1>4, <1>8, <2>1 DEF Typed
<1>10. Apart(d') BY <1>1, <1>3 DEF Good
<1>11. Away(d', free')
  <2> SUFFICES ASSUME NEW b \in Buffers, NEW c \in Classes, NEW i \in 1..Len(free'[c])
               PROVE  free'[c][i].p # d[b]
    BY <1>3 DEF Away
  <2>1. k(c) + i \in 1..Len(free[c]) /\ free'[c][i] = free[c][k(c) + i] BY <1>7
  <2>2. Away(d, free) BY <1>1 DEF Good
  <2> QED BY ONLY <2>1, <2>2 DEF Away
<1>12. Once(free')
  <2> SUFFICES ASSUME NEW j \in Classes, NEW c \in Classes,
                      NEW x \in 1..Len(free'[j]), NEW y \in 1..Len(free'[c]),
                      free'[j][x].p = free'[c][y].p
               PROVE  j = c /\ x = y
    BY DEF Once
  <2>1. j = c /\ k(j) + x = k(c) + y
    <3>1. k(j) + x \in 1..Len(free[j]) /\ free'[j][x] = free[j][k(j) + x] BY <1>7
    <3>2. k(c) + y \in 1..Len(free[c]) /\ free'[c][y] = free[c][k(c) + y] BY <1>7
    <3>3. Once(free) BY <1>1 DEF Good
    <3>4. free[j][k(j) + x].p = free[c][k(c) + y].p BY <3>1, <3>2
    <3> QED BY ONLY <3>1, <3>2, <3>3, <3>4 DEF Once
  <2>2. k(c) \in Int BY <1>6
  <2> QED BY <2>1, <2>2
<1>13. Fits(d', n', size')
  <2> SUFFICES ASSUME NEW b \in Buffers, d[b] # Null
               PROVE  size'[d[b]] = size[d[b]]
    BY <1>1, <1>3 DEF Good, Fits
  <2>1. d[b] \in Addr BY <1>2
  <2>2. ASSUME NEW c \in Classes, NEW i \in 1..k(c) PROVE free[c][i].p # d[b]
    <3>1. i \in 1..Len(free[c]) BY <1>6
    <3> QED BY <1>1, <3>1 DEF Good, Away
  <2> QED BY <1>4, <2>1, <2>2
<1>14. Filed(free', size')
  <2> SUFFICES ASSUME NEW c \in Classes, NEW i \in 1..Len(free'[c])
               PROVE  size'[free'[c][i].p] = c
    BY DEF Filed
  <2> DEFINE x == k(c) + i
             a == free[c][x].p
  <2>1. x \in 1..Len(free[c]) /\ free'[c][i].p = a BY <1>7
  <2>2. a \in Addr /\ size[a] = c BY <1>1, <1>6, <2>1 DEF Good, Filed
  <2>3. ASSUME NEW j \in Classes, NEW y \in 1..k(j) PROVE free[j][y].p # a
    <3>1. y \in 1..Len(free[j]) BY <1>6
    <3>2. ~(j = c /\ y = x)
      <4>1. k(j) \in Nat /\ k(c) \in Nat BY <1>6
      <4>2. Len(free'[c]) \in Nat BY <1>8
      <4> QED BY <4>1, <4>2
    <3> QED BY <1>1, <2>1, <3>1, <3>2 DEF Good, Once
  <2> HIDE DEF a
  <2> QED BY <1>4, <2>1, <2>2, <2>3
<1>15. Ordered(free')
  <2> SUFFICES ASSUME NEW c \in Classes, NEW x \in 1..Len(free'[c]),
                      NEW y \in 1..Len(free'[c]), x <= y
               PROVE  free'[c][x].step <= free'[c][y].step
    BY DEF Ordered
  <2>1. k(c) + x <= k(c) + y BY <1>6, <1>8
  <2> QED BY <1>1, <1>7, <2>1 DEF Good, Ordered
<1>16. Past(free', step')
  <2> SUFFICES ASSUME NEW c \in Classes, NEW i \in 1..Len(free'[c])
               PROVE  free'[c][i].step <= step'
    BY DEF Past
  <2>1. free'[c][i].step \in Nat /\ free'[c][i].step <= step
    BY <1>1, <1>6, <1>7 DEF Good, Past
  <2>2. step \in Nat /\ step' = step + 1 BY <1>2, <1>3
  <2> QED BY ONLY <2>1, <2>2
<1>17. Recent(free', step')
  <2> SUFFICES ASSUME NEW c \in Classes, NEW i \in 1..Len(free'[c])
               PROVE  free'[c][i].step + Keep >= step'
    BY DEF Recent
  <2> DEFINE x == free[c][k(c) + 1].step
             y == free[c][k(c) + i].step
  <2>1. k(c) + i \in 1..Len(free[c]) /\ free'[c][i].step = y BY <1>7
  <2>2. k(c) \in Nat /\ i \in Nat \ {0} BY <1>6, <1>8
  <2>3. k(c) + 1 \in 1..Len(free[c]) /\ k(c) < Len(free[c]) /\ k(c) + 1 <= k(c) + i
    BY <1>6, <2>1, <2>2
  <2>4. x <= y BY <1>1, <2>1, <2>3 DEF Good, Ordered
  <2>5. ~(x + Keep < step + 1) BY <1>6, <2>3 DEF stale
  <2>6. x \in Nat /\ y \in Nat BY <1>6, <2>1, <2>3
  <2>7. step \in Nat /\ step' = step + 1 BY <1>2, <1>3
  <2> HIDE DEF x, y
  <2> QED BY ONLY <2>1, <2>4, <2>5, <2>6, <2>7, DevicePoolAssumption
<1>18. heldBytes' = SumFunction(Bytes(free'))
  <2>1. heldBytes = SumFunction(Bytes(free)) BY <1>1 DEF Good
  <2>2. SumFunction(Bytes(free')) =
          SumFunction(Bytes(free)) - SumFunction([c \in Classes |-> trimmed(free[c]) * c])
    BY <1>2, <1>5, <1>8, TrimBytes
  <2> QED BY <1>3, <2>1, <2>2
<1>19. Owned(d', free', size')
  <2> SUFFICES ASSUME NEW a \in Addr, size'[a] # 0
               PROVE  \/ \E b \in Buffers : d[b] = a
                      \/ \E c \in Classes : \E i \in 1..Len(free'[c]) : free'[c][i].p = a
    BY <1>3 DEF Owned
  <2>1. size[a] # 0 /\ ~ \E c \in Classes : \E i \in 1..k(c) : free[c][i].p = a BY <1>4
  <2>2. CASE \E c \in Classes : \E i \in 1..Len(free[c]) : free[c][i].p = a
    <3>0. PICK c \in Classes : \E i \in 1..Len(free[c]) : free[c][i].p = a BY <2>2
    <3>1. PICK x \in 1..Len(free[c]) : free[c][x].p = a BY <3>0
    <3>2. x \notin 1..k(c) BY <2>1, <3>1
    <3>3. Len(free'[c]) = Len(free[c]) - k(c) BY <1>5 DEF Trimmed, k
    <3>4. x - k(c) \in 1..Len(free'[c]) /\ k(c) + (x - k(c)) = x BY <1>6, <3>2, <3>3
    <3>5. free'[c][x - k(c)] = free[c][x] BY <1>7, <3>4
    <3> QED BY <3>1, <3>4, <3>5
  <2> QED BY <1>1, <2>1, <2>2 DEF Good, Owned
<1> QED BY <1>3, <1>9, <1>10, <1>11, <1>12, <1>13, <1>14, <1>15, <1>16, <1>17, <1>18, <1>19
        DEF IInv, Good, Recent

LEMMA EndOfStepQuietlyKeeps == ASSUME IInv, EndOfStepQuietly PROVE IInv'
<1>1. Good(d, n, free, heldBytes, size, step) BY DEF IInv
<1>2. /\ step < MaxStep /\ step' = step + 1 /\ on' = on /\ d' = d /\ n' = n
      /\ free' = free /\ heldBytes' = heldBytes /\ size' = size
  BY DEF EndOfStepQuietly
<1>3. step \in Nat /\ step' \in 0..MaxStep
  BY <1>1, <1>2, DevicePoolAssumption DEF Good, Typed
<1>4. ASSUME NEW c \in Classes, NEW i \in 1..Len(free[c])
      PROVE  free[c][i].step \in Nat /\ free[c][i].step <= step
  BY <1>1, IdleEntry DEF Good, Typed, Past
<1>5. Typed(d', n', free', size', step') BY <1>1, <1>2, <1>3 DEF Good, Typed
<1>6. Past(free', step')
  <2> SUFFICES ASSUME NEW c \in Classes, NEW i \in 1..Len(free[c])
               PROVE  free[c][i].step <= step'
    BY <1>2 DEF Past
  <2>1. free[c][i].step \in Nat /\ free[c][i].step <= step BY <1>4
  <2> QED BY <1>2, <1>3, <2>1
<1>7. Recent(free', step')
  <2> SUFFICES ASSUME on, ~Exact, NEW c \in Classes, NEW i \in 1..Len(free[c])
               PROVE  free[c][i].step + Keep >= step'
    BY <1>2 DEF Recent
  <2>1. ~(step + 1 > Keep) BY DEF EndOfStepQuietly, Trims
  <2>2. free[c][i].step \in Nat BY <1>4
  <2> QED BY <1>2, <1>3, <2>1, <2>2, DevicePoolAssumption
<1> QED BY <1>1, <1>2, <1>5, <1>6, <1>7 DEF IInv, Good, Recent
-----------------------------------------------------------------------------
(* The operations on buffers: a first half, and for some a second.          *)

LEMMA SameStep ==
  ASSUME IInv, UNCHANGED <<step, on>>, Good(d', n', free', heldBytes', size', step)
  PROVE  IInv'
BY DEF IInv, Good, Recent

LEMMA DestroyKeeps == ASSUME IInv, NEW b \in Buffers, Destroy(b) PROVE IInv'
<1>1. n' = [n EXCEPT ![b] = 0] /\ d' = [d EXCEPT ![b] = Null]
      /\ free' = freeAfterGive(b) /\ heldBytes' = heldAfterGive(b) /\ size' = sizeAfterGive(b)
      /\ UNCHANGED <<step, on>>
  BY DEF Destroy, Holds
<1>2. n \in [Buffers -> Sizes \cup {0}] BY DEF IInv, Good, Typed
<1>3. n' \in [Buffers -> Sizes \cup {0}] /\ \A o \in Buffers : o # b => n'[o] = n[o]
  BY <1>1, <1>2
<1>4. Good([d EXCEPT ![b] = Null], n', freeAfterGive(b), heldAfterGive(b), sizeAfterGive(b), step)
  BY <1>3, GiveKeeps
<1> QED BY <1>1, <1>4, SameStep

LEMMA ResizeThrowsKeeps ==
  ASSUME IInv, NEW b \in Buffers, NEW s \in Sizes, ResizeThrows(b, s) PROVE IInv'
<1>1. n' = [n EXCEPT ![b] = s] /\ d' = [d EXCEPT ![b] = Null]
      /\ free' = freeAfterGive(b) /\ heldBytes' = heldAfterGive(b) /\ size' = sizeAfterGive(b)
      /\ UNCHANGED <<step, on>>
  BY DEF ResizeThrows, Holds
<1>2. n \in [Buffers -> Sizes \cup {0}] BY DEF IInv, Good, Typed
<1>3. n' \in [Buffers -> Sizes \cup {0}] /\ \A o \in Buffers : o # b => n'[o] = n[o]
  BY <1>1, <1>2
<1>4. Good([d EXCEPT ![b] = Null], n', freeAfterGive(b), heldAfterGive(b), sizeAfterGive(b), step)
  BY <1>3, GiveKeeps
<1> QED BY <1>1, <1>4, SameStep

(* The state between the halves.                                            *)
LEMMA Between ==
  ASSUME IInv, NEW b \in Buffers
  PROVE  /\ Good([d EXCEPT ![b] = Null], n, freeAfterGive(b), heldAfterGive(b),
                 sizeAfterGive(b), step)
         /\ [d EXCEPT ![b] = Null][b] = Null
         /\ \A x : [[d EXCEPT ![b] = Null] EXCEPT ![b] = x] = [d EXCEPT ![b] = x]
<1>1. d \in [Buffers -> Addr \cup {Null}] /\ n \in [Buffers -> Sizes \cup {0}]
  BY DEF IInv, Good, Typed
<1> QED BY <1>1, GiveKeeps

LEMMA ResizeReusingKeeps ==
  ASSUME IInv, NEW b \in Buffers, NEW s \in Sizes, ResizeReusing(b, s) PROVE IInv'
<1> DEFINE c == Class[s]
           F == freeAfterGive(b)
           D == [d EXCEPT ![b] = Null]
           q == F[c][Len(F[c])].p
           G == [F EXCEPT ![c] = SubSeq(F[c], 1, Len(F[c]) - 1)]
<1>1. /\ c >= s /\ F[c] # <<>>
      /\ d' = [d EXCEPT ![b] = q] /\ n' = [n EXCEPT ![b] = s] /\ free' = G
      /\ heldBytes' = heldAfterGive(b) - c /\ size' = sizeAfterGive(b)
      /\ UNCHANGED <<step, on>>
  BY DEF ResizeReusing, Reuses, Holds
<1>2. Good(D, n, F, heldAfterGive(b), sizeAfterGive(b), step) /\ D[b] = Null BY Between
<1>3. [D EXCEPT ![b] = q] = d' BY <1>1, Between
<1> HIDE DEF F, D
<1>4. Good([D EXCEPT ![b] = q], [n EXCEPT ![b] = s], G, heldAfterGive(b) - c,
           sizeAfterGive(b), step)
  BY <1>1, <1>2, TakeIdle
<1> QED BY <1>1, <1>3, <1>4, SameStep

LEMMA ResizeAllocatingKeeps ==
  ASSUME IInv, NEW b \in Buffers, NEW s \in Sizes, NEW a \in Addr, ResizeAllocating(b, s, a)
  PROVE  IInv'
<1> DEFINE F == freeAfterGive(b)
           D == [d EXCEPT ![b] = Null]
           Z == sizeAfterGive(b)
<1>1. /\ Class[s] >= s /\ Z[a] = 0
      /\ d' = [d EXCEPT ![b] = a] /\ n' = [n EXCEPT ![b] = s] /\ free' = F
      /\ heldBytes' = heldAfterGive(b) /\ size' = [Z EXCEPT ![a] = Class[s]]
      /\ UNCHANGED <<step, on>>
  BY DEF ResizeAllocating, Holds
<1>2. Good(D, n, F, heldAfterGive(b), Z, step) /\ D[b] = Null BY Between
<1>3. [D EXCEPT ![b] = a] = d' BY <1>1, Between
<1> HIDE DEF F, D, Z
<1>4. Good([D EXCEPT ![b] = a], [n EXCEPT ![b] = s], F, heldAfterGive(b),
           [Z EXCEPT ![a] = Class[s]], step)
  BY <1>1, <1>2, TakeNew
<1> QED BY <1>1, <1>3, <1>4, SameStep

LEMMA MoveAssignKeeps ==
  ASSUME IInv, NEW b \in Buffers, NEW o \in Buffers, MoveAssign(b, o) PROVE IInv'
<1> DEFINE D == [d EXCEPT ![b] = Null]
<1>1. /\ b # o /\ d' = [d EXCEPT ![b] = d[o], ![o] = Null]
      /\ n' = [n EXCEPT ![b] = n[o], ![o] = 0] /\ free' = freeAfterGive(b)
      /\ heldBytes' = heldAfterGive(b) /\ size' = sizeAfterGive(b) /\ UNCHANGED <<step, on>>
  BY DEF MoveAssign
<1>2. Good(D, n, freeAfterGive(b), heldAfterGive(b), sizeAfterGive(b), step) /\ D[b] = Null
  BY Between
<1>3. d \in [Buffers -> Addr \cup {Null}] BY DEF IInv, Good, Typed
<1>4. [D EXCEPT ![b] = D[o], ![o] = Null] = d' BY <1>1, <1>3
<1> HIDE DEF D
<1>5. Good([D EXCEPT ![b] = D[o], ![o] = Null], [n EXCEPT ![b] = n[o], ![o] = 0],
           freeAfterGive(b), heldAfterGive(b), sizeAfterGive(b), step)
  BY <1>1, <1>2, MoveKeeps
<1> QED BY <1>1, <1>4, <1>5, SameStep
-----------------------------------------------------------------------------
LEMMA InitGood == Init => IInv
<1> SUFFICES ASSUME Init PROVE IInv
  OBVIOUS
<1>1. /\ d = [b \in Buffers |-> Null] /\ n = [b \in Buffers |-> 0]
      /\ free = [c \in Classes |-> <<>>] /\ heldBytes = 0 /\ step = 0 /\ on \in BOOLEAN
      /\ size = [a \in Addr |-> 0]
  BY DEF Init
<1>2. \A c \in Classes : free[c] = <<>> /\ Len(free[c]) = 0 BY <1>1
<1>3. Typed(d, n, free, size, step)
  <2>1. free \in [Classes -> Seq(Idle)] BY <1>1
  <2> QED BY <1>1, <2>1, DevicePoolAssumption DEF Typed
<1>4. Apart(d) /\ Fits(d, n, size) BY <1>1 DEF Apart, Fits
<1>5. \A c \in Classes : \A i \in 1..Len(free[c]) : FALSE BY <1>2
<1>6. Away(d, free) /\ Once(free) /\ Filed(free, size) BY <1>5 DEF Away, Once, Filed
<1>7. Ordered(free) /\ Past(free, step) /\ Recent(free, step)
  BY <1>5 DEF Ordered, Past, Recent
<1>8. Owned(d, free, size) BY <1>1 DEF Owned
<1>9. SumFunction(Bytes(free)) = 0
  <2>1. ASSUME NEW c \in Classes PROVE Bytes(free)[c] = 0
    <3>1. c \in Int BY ClassesPositive
    <3>2. 0 * c = 0 BY <3>1
    <3>3. Bytes(free)[c] = Len(free[c]) * c BY DEF Bytes
    <3>4. Len(free[c]) = 0 BY <1>2
    <3> QED BY ONLY <3>2, <3>3, <3>4
  <2>2. Bytes(free) \in [Classes -> Int] BY <1>3, BytesType DEF Typed
  <2> DEFINE z == Bytes(free)
  <2> HIDE DEF z
  <2>3. z \in [Classes -> Int] /\ \A c \in Classes : z[c] = z[c] + z[c] BY <2>1, <2>2 DEF z
  <2>4. SumFunction(z) = SumFunction(z) + SumFunction(z) BY ONLY <2>3, ClassSums
  <2>5. SumFunction(z) \in Int BY ONLY <2>3, ClassesFinite, SumType
  <2>6. \A s \in Int : s = s + s => s = 0 OBVIOUS
  <2>7. SumFunction(z) = 0 BY ONLY <2>4, <2>5, <2>6, Zenon
  <2> QED BY <2>7 DEF z
<1> QED BY <1>1, <1>3, <1>4, <1>6, <1>7, <1>8, <1>9 DEF IInv, Good

LEMMA NextGood == IInv /\ [Next]_vars => IInv'
<1> SUFFICES ASSUME IInv, [Next]_vars PROVE IInv'
  OBVIOUS
<1>1. ASSUME NEW b \in Buffers, Destroy(b) PROVE IInv' BY <1>1, DestroyKeeps
<1>2. ASSUME NEW b \in Buffers, NEW s \in Sizes, ResizeReusing(b, s) PROVE IInv'
  BY <1>2, ResizeReusingKeeps
<1>3. ASSUME NEW b \in Buffers, NEW s \in Sizes, ResizeThrows(b, s) PROVE IInv'
  BY <1>3, ResizeThrowsKeeps
<1>4. ASSUME NEW b \in Buffers, NEW s \in Sizes, NEW a \in Addr, ResizeAllocating(b, s, a)
      PROVE  IInv'
  BY <1>4, ResizeAllocatingKeeps
<1>5. ASSUME NEW b \in Buffers, NEW o \in Buffers, MoveAssign(b, o) PROVE IInv'
  BY <1>5, MoveAssignKeeps
<1>6. CASE EndOfStepQuietly BY <1>6, EndOfStepQuietlyKeeps
<1>7. CASE EndOfStep BY <1>7, EndOfStepKeeps
<1>8. CASE UNCHANGED vars BY <1>8 DEF vars, IInv, Good, Recent
<1> QED BY <1>1, <1>2, <1>3, <1>4, <1>5, <1>6, <1>7, <1>8 DEF Next

LEMMA IInvHolds == Spec => []IInv
BY InitGood, NextGood, PTL DEF Spec

(* Every reachable state of the pool is well typed; in particular the count *)
(* of held bytes never goes below zero.                                     *)
THEOREM TypeCorrect == Spec => []TypeOK
<1>1. IInv => TypeOK
  <2> SUFFICES ASSUME IInv PROVE TypeOK
    OBVIOUS
  <2>1. Typed(d, n, free, size, step) /\ heldBytes = SumFunction(Bytes(free)) /\ on \in BOOLEAN
    BY DEF IInv, Good
  <2>2. Bytes(free) \in [Classes -> Nat] BY <2>1, BytesType DEF Typed
  <2>3. SumFunction(Bytes(free)) \in Nat BY ONLY <2>2, ClassesFinite, SumOfNaturals
  <2> QED BY <2>1, <2>3 DEF Typed, TypeOK
<1> QED BY <1>1, IInvHolds, PTL

(* No block ever has two owners, whatever is destroyed, resized, moved or   *)
(* trimmed and whatever take throws (DevicePool::take, give, endOfStep).    *)
THEOREM NoSharingHolds == Spec => []NoSharing
<1>1. IInv => NoSharing BY DEF IInv, Good, Apart, Away, Once, NoSharing
<1> QED BY <1>1, IInvHolds, PTL

(* The block of a buffer is allocated and long enough, and an idle block    *)
(* has the size of its list (DevicePool::take and classOf).                 *)
THEOREM BigEnoughHolds == Spec => []BigEnough
<1>1. IInv => BigEnough BY DEF IInv, Good, Fits, Filed, BigEnough
<1> QED BY <1>1, IInvHolds, PTL

(* The lists stay in order of age and endOfStep leaves no block that has    *)
(* been idle for more than Keep steps.                                      *)
THEOREM TrimCompleteHolds == Spec => []TrimComplete
<1>1. IInv => TrimComplete BY DEF IInv, Good, Ordered, Recent, TrimComplete
<1> QED BY <1>1, IInvHolds, PTL

(* heldBytes_ is the sum of the idle blocks and no block is lost by the     *)
(* pool (give, take, endOfStep).                                            *)
THEOREM AccountedHolds == Spec => []Accounted
<1>1. IInv => Accounted BY DEF IInv, Good, Bytes, Owned, Accounted
<1> QED BY <1>1, IInvHolds, PTL
=============================================================================
