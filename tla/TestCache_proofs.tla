-------------------------- MODULE TestCache_proofs --------------------------
(***************************************************************************)
(* MemoIsTrue and HeldIsEarned of TestCache, for any files, tests,         *)
(* invocations and bounds.  The first part is about what is remembered.    *)
(* Its strengthening is time: no digest is remembered under a stamp        *)
(* that lies in the future, and no invocation is about to do so.  A file   *)
(* that is rewritten gets a stamp of its own, so what was remembered of it *)
(* is not what its stamp is looked up for.                                 *)
(***************************************************************************)
EXTENDS TestCache, Induction

(* The fields of an invocation that the argument is about.                  *)
Shape(r) == {"pc", "known", "fresh", "at", "left"} \subseteq DOMAIN r

DiskOK ==
  /\ clock \in Nat
  /\ stamp \in [Files -> Nat]
  /\ \A f \in Files : stamp[f] <= clock
  /\ bytes = [f \in Files |-> bytes[f]]

(* Remembered under a stamp of the past, and truly if it is today's.        *)
Entry(e, f) ==
  /\ e.stamp \in Nat /\ e.stamp <= clock
  /\ e.stamp = stamp[f] => e.digest = DigestOf(f, bytes[f])
Dated(m) == \A f \in Files : f \in DOMAIN m => Entry(m[f], f)

(* The file an invocation takes of those left (NextFile).                   *)
FirstOf(S) == CHOOSE f \in S : TRUE

InvocationOK(r) ==
  /\ Shape(r)
  /\ Dated(r.known) /\ Dated(r.fresh)
  /\ r.pc = "read" /\ FirstOf(r.left) \in Files
       => r.at \in Nat /\ r.at <= clock

StoreOK == /\ memo \in {None, Torn} \/ Dated(memo)
           /\ tmp \in {None, Torn} \/ Dated(tmp)

IInv == /\ DiskOK
        /\ StoreOK
        /\ inv = [p \in Procs |-> inv[p]]
        /\ \A p \in Procs : InvocationOK(inv[p])
-----------------------------------------------------------------------------
(* Combining what is remembered.                                            *)

LEMMA ExtendDated ==
  ASSUME NEW m, NEW x, NEW v, Dated(m), x \in Files => Entry(v, x)
  PROVE  Dated(Extend(m, x, v))
BY DEF Dated, Extend

LEMMA OverrideDated ==
  ASSUME NEW m, NEW n, Dated(m), Dated(n)
  PROVE  Dated(Override(m, n))
BY DEF Dated, Override

LEMMA NothingDated == Dated(Nothing)
BY DEF Dated, Nothing

LEMMA FreshOK == InvocationOK(Fresh)
<1>1. Shape(Fresh) BY DEF Shape, Fresh
<1>2. Dated(Fresh.known) /\ Dated(Fresh.fresh)
  BY NothingDated DEF Fresh
<1>3. Fresh.pc # "read" BY DEF Fresh
<1> QED BY <1>1, <1>2, <1>3 DEF InvocationOK

(* A rewrite of the files of W makes nothing that is remembered false.      *)
LEMMA RewriteKeeps ==
  ASSUME DiskOK, NEW W,
         clock' = IF W = {} THEN clock ELSE clock + 1,
         \A f \in Files : stamp'[f] = IF f \in W THEN clock + 1 ELSE stamp[f],
         \A f \in Files : f \notin W => bytes'[f] = bytes[f],
         NEW m, Dated(m)
  PROVE  Dated(m)'
<1> SUFFICES ASSUME NEW f \in Files, f \in DOMAIN m
             PROVE  Entry(m[f], f)'
  BY DEF Dated
<1>1. Entry(m[f], f) BY DEF Dated
<1>2. CASE f \in W BY <1>1, <1>2 DEF Entry, DiskOK
<1>3. CASE f \notin W
  <2>1. stamp'[f] = stamp[f] /\ bytes'[f] = bytes[f] BY <1>3
  <2> QED BY <1>1, <2>1 DEF Entry, DiskOK
<1> QED BY <1>2, <1>3

(* Where no file is rewritten, what was dated stays dated.                  *)
LEMMA SameDisk ==
  ASSUME UNCHANGED disk, NEW m
  PROVE  Dated(m)' <=> Dated(m)
BY DEF disk, Dated, Entry, Files

(* A step of one invocation that rewrites no file.                          *)
LEMMA OneMoves ==
  ASSUME IInv, UNCHANGED disk, NEW p \in Procs,
         inv' = [q \in Procs |-> inv'[q]],
         \A q \in Procs : q # p => inv'[q] = inv[q],
         InvocationOK(inv'[p]),
         memo' \in {None, Torn} \/ Dated(memo'),
         tmp' \in {None, Torn} \/ Dated(tmp')
  PROVE  IInv'
<1>1. DiskOK' BY DEF IInv, DiskOK, disk, Files
<1>2. StoreOK' BY SameDisk DEF StoreOK
<1>3. \A q \in Procs : InvocationOK(inv'[q]) BY DEF IInv
<1>4. \A q \in Procs : InvocationOK(inv[q])'
  <2> SUFFICES ASSUME NEW q \in Procs PROVE InvocationOK(inv[q])'
    OBVIOUS
  <2>1. InvocationOK(inv'[q]) BY <1>3
  <2>2. Dated(inv[q].known)' /\ Dated(inv[q].fresh)'
    BY <2>1, SameDisk DEF InvocationOK
  <2>3. clock' = clock BY DEF disk
  <2> QED BY <2>1, <2>2, <2>3 DEF InvocationOK, Shape
<1> QED BY <1>1, <1>2, <1>4 DEF IInv
-----------------------------------------------------------------------------
(* The steps of an invocation, one by one.                                  *)

(* Steps that touch neither what is remembered nor the stamp just taken.    *)
LEMMA KeepsMemory ==
  ASSUME IInv, UNCHANGED <<disk, memo, tmp>>, NEW p \in Procs,
         inv' = [q \in Procs |-> inv'[q]],
         \A q \in Procs : q # p => inv'[q] = inv[q],
         Shape(inv'[p]),
         inv'[p].known = inv[p].known, inv'[p].fresh = inv[p].fresh,
         inv'[p].pc # "read"
  PROVE  IInv'
<1>1. InvocationOK(inv'[p]) BY DEF IInv, InvocationOK
<1> QED BY <1>1, OneMoves DEF IInv, StoreOK

(* Steps that end an invocation.                                            *)
LEMMA EndsInvocation ==
  ASSUME IInv, UNCHANGED <<disk, memo, tmp>>, NEW p \in Procs,
         inv' = [inv EXCEPT ![p] = Fresh]
  PROVE  IInv'
<1>1. inv'[p] = Fresh /\ inv' = [q \in Procs |-> inv'[q]]
      /\ \A q \in Procs : q # p => inv'[q] = inv[q]
  BY DEF IInv
<1>2. InvocationOK(inv'[p]) BY <1>1, FreshOK
<1> QED BY <1>1, <1>2, OneMoves DEF IInv, StoreOK

LEMMA StartKeeps == ASSUME IInv, NEW p \in Procs, Start(p) PROVE IInv'
<1> DEFINE m == IF memo \in {None, Torn} THEN Nothing ELSE memo
<1>1. PICK o \in Requests :
        inv' = [inv EXCEPT ![p] = [Fresh EXCEPT !.pc = "key", !.opts = o, !.todo = o.sel,
                                   !.known = m, !.left = Exes(BuildOf[p])]]
  BY DEF Start
<1>2. Dated(m) BY NothingDated DEF IInv, StoreOK
<1> HIDE DEF m
<1>3. inv' = [q \in Procs |-> inv'[q]] /\ \A q \in Procs : q # p => inv'[q] = inv[q]
  BY <1>1 DEF IInv
<1>4. inv'[p] = [Fresh EXCEPT !.pc = "key", !.opts = o, !.todo = o.sel,
                              !.known = m, !.left = Exes(BuildOf[p])]
  BY <1>1 DEF IInv
<1>5. Shape(inv'[p]) BY <1>4 DEF Fresh, Shape
<1>6. inv'[p].known = m /\ inv'[p].fresh = Nothing /\ inv'[p].pc = "key"
  BY <1>4 DEF Fresh
<1>7. InvocationOK(inv'[p]) BY <1>2, <1>5, <1>6, NothingDated DEF InvocationOK
<1> QED BY <1>3, <1>7, OneMoves DEF Start, IInv, StoreOK

LEMMA BeginKeyKeeps == ASSUME IInv, NEW p \in Procs, BeginKey(p) PROVE IInv'
<1>1. PICK t \in inv[p].todo :
        LET r == Reach(t, BuildOf[p], TextNow(p))
        IN inv' = [inv EXCEPT ![p].cur = t, ![p].todo = @ \ {t}, ![p].left = r,
                             ![p].rows = Nothing,
                             ![p].texts = Override([s \in r \cap Scripts |-> TextNow(p)[s]], @)]
  BY DEF BeginKey
<1>2. inv' = [q \in Procs |-> inv'[q]] /\ \A q \in Procs : q # p => inv'[q] = inv[q]
  BY <1>1 DEF IInv
<1>3. /\ Shape(inv'[p])
      /\ inv'[p].known = inv[p].known /\ inv'[p].fresh = inv[p].fresh
      /\ inv'[p].pc = inv[p].pc
  BY <1>1 DEF IInv, InvocationOK, Shape
<1>4. inv[p].pc = "key" BY DEF BeginKey
<1> QED BY <1>2, <1>3, <1>4, KeepsMemory DEF BeginKey

(* A row is added, with what is remembered from then on.                    *)
LEMMA RowKeeps ==
  ASSUME IInv, UNCHANGED <<disk, memo, tmp>>, NEW p \in Procs, NEW f, NEW v, NEW m,
         Dated(m), inv' = AddRow(p, f, v, m)
  PROVE  IInv'
<1>1. inv' = [q \in Procs |-> inv'[q]] /\ \A q \in Procs : q # p => inv'[q] = inv[q]
  BY DEF IInv, AddRow
<1>2. /\ Shape(inv'[p])
      /\ inv'[p].known = inv[p].known /\ inv'[p].fresh = m
      /\ inv'[p].pc = "key"
  BY DEF IInv, InvocationOK, Shape, AddRow
<1>3. InvocationOK(inv'[p]) BY <1>2 DEF IInv, InvocationOK
<1> QED BY <1>1, <1>3, OneMoves DEF IInv, StoreOK

LEMMA TakeRowKeeps == ASSUME IInv, NEW p \in Procs, TakeRow(p) PROVE IInv'
<1> DEFINE f == NextFile(p)
           r == Remembered(p, f)
<1>1. Dated(inv[p].fresh) /\ Dated(inv[p].known) BY DEF IInv, InvocationOK
<1>2. UNCHANGED <<disk, memo, tmp>> BY DEF TakeRow
<1>3. CASE inv' = AddRow(p, f, inv[p].trees[f], inv[p].fresh)
  BY <1>1, <1>2, <1>3, RowKeeps
<1>4. CASE inv' = AddRow(p, f, stamp[f], inv[p].fresh)
  BY <1>1, <1>2, <1>4, RowKeeps
<1>5. CASE r # None /\ inv' = AddRow(p, f, r.digest, Extend(inv[p].fresh, f, r))
  <2>1. f \in Files => Entry(r, f)
    BY <1>1, <1>5 DEF Remembered, Dated
  <2>2. Dated(Extend(inv[p].fresh, f, r)) BY <1>1, <2>1, ExtendDated
  <2> QED BY <1>2, <1>5, <2>2, RowKeeps
<1> QED BY <1>3, <1>4, <1>5 DEF TakeRow

LEMMA StatFileKeeps == ASSUME IInv, NEW p \in Procs, StatFile(p) PROVE IInv'
<1>1. inv' = [inv EXCEPT ![p].at = stamp[NextFile(p)], ![p].pc = "read"]
  BY DEF StatFile
<1>2. inv' = [q \in Procs |-> inv'[q]] /\ \A q \in Procs : q # p => inv'[q] = inv[q]
  BY <1>1 DEF IInv
<1>3. /\ Shape(inv'[p])
      /\ inv'[p].known = inv[p].known /\ inv'[p].fresh = inv[p].fresh
      /\ inv'[p].left = inv[p].left /\ inv'[p].at = stamp[NextFile(p)]
  BY <1>1 DEF IInv, InvocationOK, Shape
<1>4. NextFile(p) \in Files => stamp[NextFile(p)] \in Nat /\ stamp[NextFile(p)] <= clock
  BY DEF IInv, DiskOK
<1>5. NextFile(p) = FirstOf(inv'[p].left) BY <1>3 DEF NextFile, FirstOf
<1>6. Dated(inv'[p].known) /\ Dated(inv'[p].fresh) BY <1>3 DEF IInv, InvocationOK
<1>7. InvocationOK(inv'[p]) BY <1>3, <1>4, <1>5, <1>6 DEF InvocationOK
<1> QED BY <1>2, <1>7, OneMoves DEF StatFile, IInv, StoreOK

LEMMA ReadFileKeeps == ASSUME IInv, NEW p \in Procs, ReadFile(p) PROVE IInv'
<1> DEFINE f == NextFile(p)
           e == HashedUnder(p, f)
<1>1. inv[p].pc = "read" /\ UNCHANGED <<disk, memo, tmp>>
      /\ inv' = AddRow(p, f, DigestOf(f, bytes[f]), Extend(inv[p].fresh, f, e))
  BY DEF ReadFile
<1>2. f = FirstOf(inv[p].left) BY DEF NextFile, FirstOf
<1>3. f \in Files => inv[p].at \in Nat /\ inv[p].at <= clock
  BY <1>1, <1>2 DEF IInv, InvocationOK
<1>4. f \in Files => Entry(e, f) BY <1>3 DEF Entry, HashedUnder
<1>5. Dated(Extend(inv[p].fresh, f, e))
  BY <1>4, ExtendDated DEF IInv, InvocationOK
<1> QED BY <1>1, <1>5, RowKeeps

LEMMA EndKeyKeeps == ASSUME IInv, NEW p \in Procs, EndKey(p) PROVE IInv'
<1> DEFINE k == Fingerprint(inv[p].cur, BuildOf[p], inv[p].opts.env, inv[p].rows)
<1>1. \/ inv' = [inv EXCEPT ![p].cur = None, ![p].keys = Extend(@, inv[p].cur, k)]
      \/ inv' = [inv EXCEPT ![p].cur = None, ![p].after = Extend(@, inv[p].cur, k)]
  BY DEF EndKey
<1> HIDE DEF k
<1>2. inv' = [q \in Procs |-> inv'[q]] /\ \A q \in Procs : q # p => inv'[q] = inv[q]
  BY <1>1 DEF IInv
<1>3. /\ Shape(inv'[p])
      /\ inv'[p].known = inv[p].known /\ inv'[p].fresh = inv[p].fresh
      /\ inv'[p].pc = inv[p].pc
  BY <1>1 DEF IInv, InvocationOK, Shape
<1>4. inv[p].pc = "key" BY DEF EndKey
<1> QED BY <1>2, <1>3, <1>4, KeepsMemory DEF EndKey

LEMMA WriteTmpKeeps == ASSUME IInv, NEW p \in Procs, WriteTmp(p) PROVE IInv'
<1>1. Dated(SavedMemo(p)) BY OverrideDated DEF IInv, InvocationOK, SavedMemo
<1>2. inv' = [inv EXCEPT ![p].pc = "replace", ![p].known = SavedMemo(p)]
  BY DEF WriteTmp
<1>3. inv' = [q \in Procs |-> inv'[q]] /\ \A q \in Procs : q # p => inv'[q] = inv[q]
  BY <1>2 DEF IInv
<1>4. /\ Shape(inv'[p])
      /\ inv'[p].known = SavedMemo(p) /\ inv'[p].fresh = inv[p].fresh
      /\ inv'[p].pc = "replace"
  BY <1>2 DEF IInv, InvocationOK, Shape
<1>5. InvocationOK(inv'[p]) BY <1>1, <1>4 DEF IInv, InvocationOK
<1>6. tmp' = SavedMemo(p) \/ tmp' = Torn BY DEF WriteTmp
<1> QED BY <1>1, <1>3, <1>5, <1>6, OneMoves DEF WriteTmp, IInv, StoreOK

LEMMA ReplaceMemoKeeps == ASSUME IInv, NEW p \in Procs, ReplaceMemo(p) PROVE IInv'
<1>1. CASE inv' = [inv EXCEPT ![p] = Fresh] /\ UNCHANGED <<memo, tmp>>
  BY <1>1, EndsInvocation DEF ReplaceMemo
<1>2. CASE /\ memo' = tmp /\ tmp' = None
           /\ Step(p, IF inv[p].phase = "before" THEN "decide" ELSE "record")
  <2>1. inv' = [q \in Procs |-> inv'[q]] /\ \A q \in Procs : q # p => inv'[q] = inv[q]
    BY <1>2 DEF IInv, Step
  <2>2. /\ Shape(inv'[p])
        /\ inv'[p].known = inv[p].known /\ inv'[p].fresh = inv[p].fresh
        /\ inv'[p].pc # "read"
    BY <1>2 DEF IInv, InvocationOK, Shape, Step
  <2>3. InvocationOK(inv'[p]) BY <2>2 DEF IInv, InvocationOK
  <2> QED BY <1>2, <2>1, <2>3, OneMoves DEF ReplaceMemo, IInv, StoreOK
<1> QED BY <1>1, <1>2 DEF ReplaceMemo

LEMMA DecideKeeps == ASSUME IInv, NEW p \in Procs, Decide(p) PROVE IInv'
<1> DEFINE toRun == inv[p].opts.sel \ Held(p)
<1>1. CASE inv' = [inv EXCEPT ![p] = Fresh]
  BY <1>1, EndsInvocation DEF Decide
<1>2. CASE inv' = [inv EXCEPT ![p].pc = "run", ![p].todo = toRun]
  <2> HIDE DEF toRun
  <2>1. inv' = [q \in Procs |-> inv'[q]] /\ \A q \in Procs : q # p => inv'[q] = inv[q]
    BY <1>2 DEF IInv
  <2>2. /\ Shape(inv'[p])
        /\ inv'[p].known = inv[p].known /\ inv'[p].fresh = inv[p].fresh
        /\ inv'[p].pc = "run"
    BY <1>2 DEF IInv, InvocationOK, Shape
  <2> QED BY <2>1, <2>2, KeepsMemory DEF Decide
<1> QED BY <1>1, <1>2 DEF Decide

LEMMA EndCtestKeeps == ASSUME IInv, NEW p \in Procs, EndCtest(p) PROVE IInv'
<1>1. inv' = [inv EXCEPT ![p].pc = "parse"] BY DEF EndCtest, Step
<1>2. inv' = [q \in Procs |-> inv'[q]] /\ \A q \in Procs : q # p => inv'[q] = inv[q]
  BY <1>1 DEF IInv
<1>3. /\ Shape(inv'[p])
      /\ inv'[p].known = inv[p].known /\ inv'[p].fresh = inv[p].fresh
      /\ inv'[p].pc = "parse"
  BY <1>1 DEF IInv, InvocationOK, Shape
<1> QED BY <1>2, <1>3, KeepsMemory DEF EndCtest

LEMMA ParseKeeps == ASSUME IInv, NEW p \in Procs, Parse(p) PROVE IInv'
<1> DEFINE j == junit[BuildOf[p]]
           passes == {t \in DOMAIN j : j[t]} \cap inv[p].opts.sel
<1>1. CASE inv' = [inv EXCEPT ![p] = Fresh]
  BY <1>1, EndsInvocation DEF Parse
<1>2. CASE inv' = [inv EXCEPT ![p].pc = "key", ![p].phase = "after", ![p].todo = passes,
                     ![p].trees = ClearedTrees(p).trees,
                     ![p].texts = ClearedTrees(p).texts]
  <2> HIDE DEF passes
  <2>1. inv' = [q \in Procs |-> inv'[q]] /\ \A q \in Procs : q # p => inv'[q] = inv[q]
    BY <1>2 DEF IInv
  <2>2. /\ Shape(inv'[p])
        /\ inv'[p].known = inv[p].known /\ inv'[p].fresh = inv[p].fresh
        /\ inv'[p].pc = "key"
    BY <1>2 DEF IInv, InvocationOK, Shape
  <2> QED BY <2>1, <2>2, KeepsMemory DEF Parse
<1> QED BY <1>1, <1>2 DEF Parse

LEMMA RecordKeeps == ASSUME IInv, NEW p \in Procs, Record(p) PROVE IInv'
<1>1. CASE inv' = [inv EXCEPT ![p] = Fresh]
  BY <1>1, EndsInvocation DEF Record
<1>2. CASE inv' = inv
  <2>1. InvocationOK(inv'[p]) /\ inv' = [q \in Procs |-> inv'[q]] BY <1>2 DEF IInv
  <2> QED BY <1>2, <2>1, OneMoves DEF Record, IInv, StoreOK
<1> QED BY <1>1, <1>2 DEF Record
-----------------------------------------------------------------------------
(* The steps that rewrite files.                                            *)

(* The files of W are rewritten and no invocation learns of it.             *)
LEMMA DiskMoves ==
  ASSUME IInv, NEW W,
         clock' = IF W = {} THEN clock ELSE clock + 1,
         stamp' = [f \in Files |-> IF f \in W THEN clock + 1 ELSE stamp[f]],
         bytes' = [f \in Files |-> bytes'[f]],
         \A f \in Files : f \notin W => bytes'[f] = bytes[f],
         UNCHANGED <<memo, tmp>>,
         inv' = [q \in Procs |-> inv'[q]],
         \A q \in Procs : /\ Shape(inv'[q])
                          /\ inv'[q].known = inv[q].known /\ inv'[q].fresh = inv[q].fresh
                          /\ inv'[q].pc = inv[q].pc
                          /\ inv'[q].at = inv[q].at /\ inv'[q].left = inv[q].left
  PROVE  IInv'
<1>1. DiskOK /\ clock \in Nat /\ stamp \in [Files -> Nat] /\ \A f \in Files : stamp[f] <= clock
  BY DEF IInv, DiskOK
<1>2. \A f \in Files : stamp'[f] = IF f \in W THEN clock + 1 ELSE stamp[f] OBVIOUS
<1>3. clock' \in Nat /\ clock <= clock' BY <1>1
<1>4. DiskOK'
  <2>1. stamp' \in [Files -> Nat] BY <1>1
  <2>2. \A f \in Files : stamp'[f] <= clock' BY <1>1, <1>2
  <2> QED BY <1>3, <2>1, <2>2 DEF DiskOK, Files
<1>5. ASSUME NEW m, Dated(m) PROVE Dated(m)'
  BY <1>1, <1>2, <1>5, RewriteKeeps
<1>6. StoreOK' BY <1>5 DEF IInv, StoreOK
<1>7. ASSUME NEW q \in Procs PROVE InvocationOK(inv[q])'
  <2>1. InvocationOK(inv[q]) BY DEF IInv
  <2>2. Dated(inv[q].known)' /\ Dated(inv[q].fresh)' BY <2>1, <1>5 DEF InvocationOK
  <2>3. inv'[q].pc = "read" /\ FirstOf(inv'[q].left) \in Files
          => inv'[q].at \in Nat /\ inv'[q].at <= clock'
    <3>1. inv[q].pc = "read" /\ FirstOf(inv[q].left) \in Files
            => inv[q].at \in Nat /\ inv[q].at <= clock
      BY <2>1 DEF InvocationOK
    <3> QED BY <3>1, <1>1, <1>3
  <2> QED BY <2>2, <2>3 DEF InvocationOK, Shape
<1> QED BY <1>4, <1>6, <1>7 DEF IInv

LEMMA RunTestKeeps == ASSUME IInv, NEW p \in Procs, RunTest(p) PROVE IInv'
<1>1. PICK t :
        /\ inv' = [inv EXCEPT ![p].todo = @ \ {t},
                    ![p].results = Extend(@, t, Passes(t, BuildOf[p], inv[p].opts.env))]
        /\ bytes' = [f \in Files |-> IF f \in Writes[t] /\ bytes[f] < MaxVersion[f]
                                     THEN bytes[f] + 1 ELSE bytes[f]]
        /\ stamp' = [f \in Files |-> IF f \in Writes[t] THEN clock + 1 ELSE stamp[f]]
        /\ clock' = IF Writes[t] = {} THEN clock ELSE clock + 1
  BY DEF RunTest
<1>2. inv' = [q \in Procs |-> inv'[q]] /\ \A q \in Procs : q # p => inv'[q] = inv[q]
  BY <1>1 DEF IInv
<1>3. \A q \in Procs : Shape(inv[q]) BY DEF IInv, InvocationOK
<1>4. /\ Shape(inv'[p])
      /\ inv'[p].known = inv[p].known /\ inv'[p].fresh = inv[p].fresh
      /\ inv'[p].pc = inv[p].pc
      /\ inv'[p].at = inv[p].at /\ inv'[p].left = inv[p].left
  BY <1>1, <1>3 DEF IInv, Shape
<1>5. bytes' = [f \in Files |-> bytes'[f]]
      /\ \A f \in Files : f \notin Writes[t] => bytes'[f] = bytes[f]
  BY <1>1
<1>6. UNCHANGED <<memo, tmp>> BY DEF RunTest
<1>7. \A q \in Procs : /\ Shape(inv'[q])
                       /\ inv'[q].known = inv[q].known /\ inv'[q].fresh = inv[q].fresh
                       /\ inv'[q].pc = inv[q].pc
                       /\ inv'[q].at = inv[q].at /\ inv'[q].left = inv[q].left
  BY <1>2, <1>3, <1>4
<1> QED BY <1>1, <1>2, <1>5, <1>6, <1>7, DiskMoves

LEMMA EditKeeps == ASSUME IInv, NEW f \in Files, Edit(f) PROVE IInv'
<1>1. DiskOK BY DEF IInv
<1>2. clock' = clock + 1 /\ stamp' = [stamp EXCEPT ![f] = clock + 1]
      /\ UNCHANGED <<memo, tmp, inv>>
  BY DEF Edit
<1>3. PICK v : bytes' = [bytes EXCEPT ![f] = v] BY DEF Edit
<1>4. bytes' = [g \in Files |-> bytes'[g]]
      /\ \A g \in Files : g \notin {f} => bytes'[g] = bytes[g]
  BY <1>1, <1>3 DEF DiskOK
<1>5. stamp' = [g \in Files |-> IF g \in {f} THEN clock + 1 ELSE stamp[g]]
  BY <1>1, <1>2 DEF DiskOK
<1>6. clock' = IF {f} = {} THEN clock ELSE clock + 1 BY <1>2
<1>7. \A q \in Procs : Shape(inv'[q]) BY <1>2 DEF IInv, InvocationOK
<1>8. inv' = [q \in Procs |-> inv'[q]] BY <1>2 DEF IInv
<1> QED BY <1>2, <1>4, <1>5, <1>6, <1>7, <1>8, DiskMoves
-----------------------------------------------------------------------------
LEMMA InitOK == Init => IInv
<1> SUFFICES ASSUME Init PROVE IInv
  OBVIOUS
<1>1. DiskOK BY DEF Init, DiskOK
<1>2. StoreOK BY DEF Init, StoreOK
<1>3. inv = [p \in Procs |-> Fresh] BY DEF Init
<1>4. \A p \in Procs : InvocationOK(inv[p]) BY <1>3, FreshOK
<1> QED BY <1>1, <1>2, <1>3, <1>4 DEF IInv

LEMMA NextKeeps == IInv /\ [Next]_vars => IInv'
<1> SUFFICES ASSUME IInv, [Next]_vars PROVE IInv'
  OBVIOUS
<1>1. ASSUME NEW p \in Procs, Work(p) PROVE IInv'
  <2>1. CASE Start(p) BY <2>1, StartKeeps
  <2>2. CASE BeginKey(p) BY <2>2, BeginKeyKeeps
  <2>3. CASE TakeRow(p) BY <2>3, TakeRowKeeps
  <2>4. CASE StatFile(p) BY <2>4, StatFileKeeps
  <2>5. CASE ReadFile(p) BY <2>5, ReadFileKeeps
  <2>6. CASE EndKey(p) BY <2>6, EndKeyKeeps
  <2>7. CASE WriteTmp(p) BY <2>7, WriteTmpKeeps
  <2>8. CASE ReplaceMemo(p) BY <2>8, ReplaceMemoKeeps
  <2>9. CASE Decide(p) BY <2>9, DecideKeeps
  <2>10. CASE RunTest(p) BY <2>10, RunTestKeeps
  <2>11. CASE EndCtest(p) BY <2>11, EndCtestKeeps
  <2>12. CASE Parse(p) BY <2>12, ParseKeeps
  <2>13. CASE Record(p) BY <2>13, RecordKeeps
  <2>14. CASE Crash(p) BY <2>14, EndsInvocation DEF Crash
  <2> QED BY <1>1, <2>1, <2>2, <2>3, <2>4, <2>5, <2>6, <2>7, <2>8, <2>9, <2>10,
             <2>11, <2>12, <2>13, <2>14 DEF Work
<1>2. ASSUME NEW f \in Files, Edit(f) PROVE IInv' BY <1>2, EditKeeps
<1>3. CASE UNCHANGED vars
  <2>1. UNCHANGED disk /\ UNCHANGED <<memo, tmp, inv>> BY <1>3 DEF vars
  <2>2. ASSUME NEW m PROVE Dated(m)' <=> Dated(m) BY <2>1, SameDisk
  <2>3. DiskOK' BY <2>1 DEF IInv, DiskOK, disk, Files
  <2>4. StoreOK' BY <2>1, <2>2 DEF IInv, StoreOK
  <2>5. clock' = clock BY <2>1 DEF disk
  <2>6. ASSUME NEW p \in Procs PROVE InvocationOK(inv[p])'
    <3>1. InvocationOK(inv[p]) BY DEF IInv
    <3>2. Dated(inv[p].known)' /\ Dated(inv[p].fresh)'
      BY <2>1, <2>2, <3>1 DEF InvocationOK
    <3> QED BY <2>1, <2>5, <3>1, <3>2 DEF InvocationOK, Shape
  <2> QED BY <2>1, <2>3, <2>4, <2>6 DEF IInv
<1> QED BY <1>1, <1>2, <1>3 DEF Next

LEMMA DatedIsTrue == ASSUME NEW m, Dated(m) PROVE TrueOf(m)
BY DEF Dated, Entry, TrueOf

LEMMA IInvIsEnough == IInv => MemoIsTrue
BY DatedIsTrue DEF IInv, StoreOK, InvocationOK, MemoIsTrue

(* Whatever invocations hash, save, crash and collide on file-memo.json,    *)
(* and whatever is rewritten meanwhile, a digest remembered under the stamp *)
(* a file has now is the digest of the bytes it has now: Inputs.fileHash    *)
(* takes the stamp before the bytes, and a rewrite leaves a new stamp.      *)
THEOREM MemoIsTrueHolds == Spec => []MemoIsTrue
BY InitOK, NextKeeps, IInvIsEnough, PTL DEF Spec
-----------------------------------------------------------------------------
(* What a test reaches, on a tree whose files have the versions B.          *)
Tree(B) == B \in [Files -> Nat] /\ \A f \in Files : B[f] \in Versions(f)
TextOf(B) == [s \in Scripts |-> Named(s, B[s])]
InputsOf(t, b, B) ==
  LET S == Closed(Direct(t, b), TextOf(B))
  IN S \cup UNION {Named(x, B[x]) : x \in S \cap Binaries}

StepOf(T, text) == T \cup UNION {text[s] : s \in T \cap Scripts}
Rounds(c, m, S, text) ==
  /\ c[0] = StepOf(S, text)
  /\ \A n \in Nat : n # 0 /\ n <= m => c[n] = StepOf(c[n - 1], text)

(* Closure.ofScript ends for any scripts: the rounds Closed is defined by   *)
(* exist, one after another.                                                *)
LEMMA RoundsExist ==
  ASSUME NEW S, NEW text, NEW m \in Nat
  PROVE  \E c : Rounds(c, m, S, text)
<1> DEFINE Bad == {k \in Nat : ~ \E c : Rounds(c, k, S, text)}
<1> SUFFICES ASSUME Bad # {} PROVE FALSE
  OBVIOUS
<1>1. PICK k \in Bad : \A j \in Bad : k <= j
  <2>1. Bad \in SUBSET Nat OBVIOUS
  <2> HIDE DEF Bad
  <2> QED BY <2>1, LeastNatural
<1>2. k \in Nat /\ ~ \E c : Rounds(c, k, S, text) OBVIOUS
<1>3. CASE k = 0
  <2> DEFINE c == [n \in Nat |-> StepOf(S, text)]
  <2>1. c[0] = StepOf(S, text) OBVIOUS
  <2> HIDE DEF c
  <2>2. \A n \in Nat : ~(n # 0 /\ n <= 0) OBVIOUS
  <2>3. Rounds(c, k, S, text) BY <1>3, <2>1, <2>2 DEF Rounds
  <2> QED BY <1>2, <2>3
<1>4. CASE k # 0
  <2>1. k - 1 \in Nat /\ ~(k <= k - 1) BY <1>2, <1>4
  <2>2. PICK c : Rounds(c, k - 1, S, text) BY <1>1, <2>1
  <2> DEFINE d == [n \in Nat |-> IF n = k THEN StepOf(c[k - 1], text) ELSE c[n]]
  <2>3. d[0] = StepOf(S, text) BY <1>2, <1>4, <2>2 DEF Rounds
  <2>4. ASSUME NEW n \in Nat, n # 0, n <= k
        PROVE  d[n] = StepOf(d[n - 1], text)
    <3>1. n - 1 \in Nat /\ n - 1 # k BY <1>2, <2>4
    <3>2. d[n - 1] = c[n - 1] BY <3>1
    <3>3. CASE n = k BY <3>2, <3>3
    <3>4. CASE n # k
      <4>1. n <= k - 1 BY <1>2, <2>4, <3>4
      <4>2. c[n] = StepOf(c[n - 1], text) BY <2>2, <2>4, <4>1 DEF Rounds
      <4> QED BY <3>2, <3>4, <4>2
    <3> QED BY <3>3, <3>4
  <2> HIDE DEF d
  <2>5. Rounds(d, k, S, text) BY <2>3, <2>4 DEF Rounds
  <2> QED BY <1>2, <2>5
<1> QED BY <1>3, <1>4

LEMMA ClosedIsRounds ==
  ASSUME NEW S, NEW text
  PROVE  LET N == Cardinality(Scripts)
         IN N \in Nat /\ \E c : Rounds(c, N, S, text) /\ Closed(S, text) = c[N]
<1> DEFINE N == Cardinality(Scripts)
           Eq(c) == c = [n \in 0..N |-> IF n = 0 THEN StepOf(S, text)
                                        ELSE StepOf(c[n - 1], text)]
           C == CHOOSE c : Eq(c)
<1>1. N \in Nat BY FS_CardinalityType, KindsAssumption
<1>2. Closed(S, text) = C[N] BY DEF Closed, StepOf
<1> HIDE DEF N
<1>3. \E c : Eq(c)
  <2>1. PICK d : Rounds(d, N, S, text) BY <1>1, RoundsExist
  <2> DEFINE c == [n \in 0..N |-> d[n]]
  <2>2. ASSUME NEW n \in 0..N
        PROVE  c[n] = IF n = 0 THEN StepOf(S, text) ELSE StepOf(c[n - 1], text)
    <3>1. CASE n = 0 BY <2>1, <3>1 DEF Rounds
    <3>2. CASE n # 0
      <4>1. n \in Nat /\ n <= N /\ n - 1 \in 0..N BY <1>1, <3>2
      <4>2. c[n - 1] = d[n - 1] /\ c[n] = d[n] BY <4>1
      <4> QED BY <2>1, <3>2, <4>1, <4>2 DEF Rounds
    <3> QED BY <3>1, <3>2
  <2>3. c = [n \in 0..N |-> c[n]] OBVIOUS
  <2> HIDE DEF c
  <2>4. Eq(c) BY <2>2, <2>3
  <2> QED BY <2>4
<1>4. Eq(C)
  <2> HIDE DEF Eq
  <2> QED BY <1>3
<1> HIDE DEF C
<1>5. Rounds(C, N, S, text)
  <2>1. C[0] = StepOf(S, text)
    <3>1. 0 \in 0..N BY <1>1
    <3> QED BY <1>4, <3>1
  <2>2. ASSUME NEW n \in Nat, n # 0, n <= N PROVE C[n] = StepOf(C[n - 1], text)
    <3>1. n \in 0..N BY <1>1, <2>2
    <3> QED BY <1>4, <2>2, <3>1
  <2> QED BY <2>1, <2>2 DEF Rounds
<1> QED BY <1>1, <1>2, <1>5 DEF N

(* No round takes a file away.                                              *)
LEMMA RoundsGrow ==
  ASSUME NEW S, NEW text, NEW N \in Nat, NEW c, Rounds(c, N, S, text)
  PROVE  S \subseteq c[N] /\ \A n \in 0..N : c[n] \subseteq c[N]
<1> DEFINE Bad == {k \in Nat : k <= N /\ ~(c[N - k] \subseteq c[N])}
<1>1. ASSUME Bad # {} PROVE FALSE
  <2>1. PICK k \in Bad : \A j \in Bad : k <= j
    <3>1. Bad \in SUBSET Nat OBVIOUS
    <3> HIDE DEF Bad
    <3> QED BY <1>1, <3>1, LeastNatural
  <2>2. k \in Nat /\ k <= N /\ ~(c[N - k] \subseteq c[N]) OBVIOUS
  <2>3. CASE k = 0
    <3>1. N - k = N BY <2>3
    <3> QED BY <2>2, <3>1
  <2>4. CASE k # 0
    <3>1. k - 1 \in Nat /\ k - 1 <= N /\ ~(k <= k - 1) BY <2>2, <2>4
    <3>2. c[N - (k - 1)] \subseteq c[N] BY <2>1, <3>1
    <3> DEFINE n == N - (k - 1)
    <3>3. n \in Nat /\ n # 0 /\ n <= N /\ n - 1 = N - k BY <2>2, <2>4
    <3>4. c[n] = StepOf(c[n - 1], text) BY <3>3 DEF Rounds
    <3>5. c[N - k] \subseteq c[n] BY <3>3, <3>4 DEF StepOf
    <3> QED BY <2>2, <3>2, <3>5
  <2> QED BY <2>3, <2>4
<1>2. ASSUME NEW n \in 0..N PROVE c[n] \subseteq c[N]
  <2>1. N - n \in Nat /\ N - n <= N /\ N - (N - n) = n OBVIOUS
  <2> QED BY <1>1, <2>1
<1>3. S \subseteq c[0] BY DEF Rounds, StepOf
<1>4. 0 \in 0..N OBVIOUS
<1> QED BY <1>2, <1>3, <1>4

(* The closure depends only on the texts of the scripts in it.              *)
LEMMA ClosedAgrees ==
  ASSUME NEW S, NEW text, NEW other,
         \A s \in Closed(S, text) \cap Scripts : other[s] = text[s]
  PROVE  Closed(S, other) = Closed(S, text)
<1> DEFINE N == Cardinality(Scripts)
<1>1. N \in Nat BY ClosedIsRounds
<1>2. PICK c : Rounds(c, N, S, text) /\ Closed(S, text) = c[N] BY ClosedIsRounds
<1>3. PICK d : Rounds(d, N, S, other) /\ Closed(S, other) = d[N] BY ClosedIsRounds
<1> HIDE DEF N
<1>4. S \subseteq c[N] /\ \A n \in 0..N : c[n] \subseteq c[N] BY <1>1, <1>2, RoundsGrow
<1>5. ASSUME NEW T, T \subseteq c[N] PROVE StepOf(T, other) = StepOf(T, text)
  <2>1. \A s \in T \cap Scripts : other[s] = text[s] BY <1>2, <1>5
  <2> QED BY <2>1 DEF StepOf
<1> DEFINE Bad == {n \in Nat : n <= N /\ d[n] # c[n]}
<1>6. ASSUME Bad # {} PROVE FALSE
  <2>1. PICK n \in Bad : \A j \in Bad : n <= j
    <3>1. Bad \in SUBSET Nat OBVIOUS
    <3> HIDE DEF Bad
    <3> QED BY <1>6, <3>1, LeastNatural
  <2>2. n \in Nat /\ n <= N /\ d[n] # c[n] OBVIOUS
  <2>3. CASE n = 0 BY <1>2, <1>3, <1>4, <1>5, <2>2, <2>3 DEF Rounds
  <2>4. CASE n # 0
    <3>1. n - 1 \in Nat /\ n - 1 <= N /\ ~(n <= n - 1) /\ n - 1 \in 0..N
      BY <1>1, <2>2, <2>4
    <3>2. d[n - 1] = c[n - 1] BY <2>1, <3>1
    <3>3. c[n] = StepOf(c[n - 1], text) /\ d[n] = StepOf(d[n - 1], other)
      BY <1>2, <1>3, <2>2, <2>4 DEF Rounds
    <3>4. StepOf(c[n - 1], other) = StepOf(c[n - 1], text) BY <1>4, <1>5, <3>1
    <3> QED BY <2>2, <3>2, <3>3, <3>4
  <2> QED BY <2>3, <2>4
<1>7. N <= N BY <1>1
<1>8. d[N] = c[N] BY <1>1, <1>6, <1>7
<1> QED BY <1>2, <1>3, <1>8

(* It stays within the files.                                               *)
LEMMA ClosedInFiles ==
  ASSUME NEW S, NEW text, S \subseteq Files,
         \A s \in Scripts : text[s] \subseteq Files
  PROVE  Closed(S, text) \subseteq Files
<1> DEFINE N == Cardinality(Scripts)
<1>1. N \in Nat BY ClosedIsRounds
<1>2. PICK c : Rounds(c, N, S, text) /\ Closed(S, text) = c[N] BY ClosedIsRounds
<1> HIDE DEF N
<1>3. ASSUME NEW T, T \subseteq Files PROVE StepOf(T, text) \subseteq Files
  BY <1>3 DEF StepOf
<1> DEFINE Bad == {n \in Nat : n <= N /\ ~(c[n] \subseteq Files)}
<1>4. ASSUME Bad # {} PROVE FALSE
  <2>1. PICK n \in Bad : \A j \in Bad : n <= j
    <3>1. Bad \in SUBSET Nat OBVIOUS
    <3> HIDE DEF Bad
    <3> QED BY <1>4, <3>1, LeastNatural
  <2>2. n \in Nat /\ n <= N /\ ~(c[n] \subseteq Files) OBVIOUS
  <2>3. CASE n = 0
    <3>1. c[0] = StepOf(S, text) BY <1>2 DEF Rounds
    <3> QED BY <1>3, <2>2, <2>3, <3>1
  <2>4. CASE n # 0
    <3>1. n - 1 \in Nat /\ n - 1 <= N /\ ~(n <= n - 1) BY <1>1, <2>2, <2>4
    <3>2. c[n - 1] \subseteq Files BY <2>1, <3>1
    <3>3. c[n] = StepOf(c[n - 1], text) BY <1>2, <2>2, <2>4 DEF Rounds
    <3> QED BY <1>3, <2>2, <3>2, <3>3
  <2> QED BY <2>3, <2>4
<1>5. N <= N BY <1>1
<1> QED BY <1>1, <1>2, <1>4, <1>5

LEMMA InputsAgree ==
  ASSUME NEW t, NEW b, NEW B, NEW W,
         \A f \in InputsOf(t, b, W) \cap (Scripts \cup Binaries) :
           Named(f, B[f]) = Named(f, W[f])
  PROVE  InputsOf(t, b, B) = InputsOf(t, b, W)
<1> DEFINE S == Closed(Direct(t, b), TextOf(W))
<1>1. \A f \in S \cap (Scripts \cup Binaries) : Named(f, B[f]) = Named(f, W[f])
  BY DEF InputsOf
<1>2. \A s \in S \cap Scripts : TextOf(B)[s] = TextOf(W)[s] BY <1>1 DEF TextOf
<1>3. Closed(Direct(t, b), TextOf(B)) = S BY <1>2, ClosedAgrees
<1> HIDE DEF S
<1>4. \A x \in S \cap Binaries : Named(x, B[x]) = Named(x, W[x]) BY <1>1
<1>5. {Named(x, B[x]) : x \in S \cap Binaries} = {Named(x, W[x]) : x \in S \cap Binaries}
  BY <1>4
<1> QED BY <1>3, <1>5 DEF InputsOf, S

LEMMA InputsInFiles ==
  ASSUME NEW t \in Tests, NEW b \in Builds, NEW B, Tree(B)
  PROVE  InputsOf(t, b, B) \subseteq Files
<1>1. \A f \in Scripts \cup Binaries : Named(f, B[f]) \subseteq Files
  BY KindsAssumption DEF Tree, Files
<1>2. Direct(t, b) \subseteq Files BY KindsAssumption
<1>3. Closed(Direct(t, b), TextOf(B)) \subseteq Files
  <2>1. \A s \in Scripts : TextOf(B)[s] \subseteq Files BY <1>1 DEF TextOf
  <2> QED BY <1>2, <2>1, ClosedInFiles
<1> QED BY <1>1, <1>3 DEF InputsOf
-----------------------------------------------------------------------------
(* HeldIsEarned.  A pass is recorded under a fingerprint whose rows were    *)
(* taken before the run and found again after it; where bytes have not gone *)
(* back while an invocation was under way, the rows are those of the tree   *)
(* the test ran on.                                                         *)

(* A tree (B, S) of versions and stamps that has become (C, Z).             *)
Grew(B, S, C, Z) ==
  \A f \in Files : B[f] <= C[f] /\ S[f] <= Z[f] /\ (S[f] = Z[f] => B[f] = C[f])

(* A row v of f that is not later, or not earlier, than the tree (B, S).    *)
Before(f, v, B, S) ==
  IF f \in Outside THEN v \in Nat /\ v <= S[f]
  ELSE \E u \in Versions(f) : u <= B[f] /\ v = DigestOf(f, u)
After(f, v, B, S) ==
  IF f \in Outside THEN v \in Nat /\ S[f] <= v
  ELSE \E w \in Versions(f) : B[f] <= w /\ v = DigestOf(f, w)
RowsBefore(r, B, S) == \A f \in DOMAIN r : f \in Files /\ Before(f, r[f], B, S)

DigestsOf(t, b, B) == [f \in InputsOf(t, b, B) |-> DigestOf(f, B[f])]

(* The second fingerprint of t: D are the files it is taken of, as the      *)
(* scripts and executables of W name them, and r the rows so far.           *)
Covers(r, D, t, b, W, B, S, C) ==
  /\ Tree(W)
  /\ \A f \in Files : B[f] <= W[f] /\ W[f] <= C[f] /\ (f \in InTree => W[f] = B[f])
  /\ D = InputsOf(t, b, W)
  /\ \A f \in DOMAIN r : After(f, r[f], W, S)

(* t was run by p on the tree (B, S), which is now (C, Z).                  *)
RanOn(R, p, t, B, S, C, Z) ==
  /\ Tree(B) /\ S \in [Files -> Nat] /\ Grew(B, S, C, Z)
  /\ R.results[t] => Outcome(t, R.opts.env, DigestsOf(t, BuildOf[p], B))
  /\ t \in DOMAIN R.keys /\ RowsBefore(R.keys[t][4], B, S)
  /\ R.phase = "after" =>
       /\ \A f \in DOMAIN R.trees : After(f, R.trees[f], B, S)
       /\ \A s \in DOMAIN R.texts : \E w \in Versions(s) :
            B[s] <= w /\ w <= C[s] /\ R.texts[s] = Named(s, w)
       /\ R.cur = t => \E W : Covers(R.rows, DOMAIN R.rows \cup R.left, t, BuildOf[p], W, B, S, C)
       /\ t \in DOMAIN R.after =>
            /\ R.after[t] = <<t, BuildOf[p], R.opts.env, R.after[t][4]>>
            /\ \E W : Covers(R.after[t][4], DOMAIN R.after[t][4], t, BuildOf[p], W, B, S, C)
Ran(R, p, t, C, Z) == \E B, S : RanOn(R, p, t, B, S, C, Z)

Fields == {"pc", "phase", "opts", "keys", "after", "known", "fresh", "trees", "texts",
           "todo", "cur", "left", "rows", "at", "results"}

(* Where an invocation under way stands.                                    *)
PlaceOK(R) ==
  /\ Fields \subseteq DOMAIN R
  /\ R.phase \in {"before", "after"}
  /\ R.opts \in Requests
  /\ R.todo \subseteq R.opts.sel
  /\ R.cur = None \/ R.cur \in R.opts.sel
  /\ R.left \subseteq Files
  /\ R.pc = "read" => R.left # {} /\ FirstOf(R.left) \notin Outside
  /\ DOMAIN R.trees \subseteq InTree \cup Outside
  /\ DOMAIN R.texts \subseteq Scripts
  /\ \A s \in DOMAIN R.texts : R.texts[s] \subseteq Files

(* The first fingerprints, of the tree as it has been up to (C, Z).         *)
KeysOK(R, p, C, Z) ==
  /\ DOMAIN R.keys \subseteq R.opts.sel
  /\ \A t \in DOMAIN R.keys :
       /\ R.keys[t] = <<t, BuildOf[p], R.opts.env, R.keys[t][4]>>
       /\ RowsBefore(R.keys[t][4], C, Z)
  /\ R.opts.sel \subseteq DOMAIN R.keys
     \/ /\ R.phase = "before" /\ R.pc \in {"key", "read"}
        /\ R.opts.sel \subseteq DOMAIN R.keys \cup R.todo \cup {R.cur}
  /\ R.phase = "before" =>
       /\ \A f \in DOMAIN R.trees : Before(f, R.trees[f], C, Z)
       /\ RowsBefore(R.rows, C, Z)

(* What of the run has come about by now; j is ctest's result file.         *)
RunOK(R, j) ==
  /\ R.phase = "before" => /\ DOMAIN R.after = {}
                           /\ R.pc \notin {"run", "parse"} => DOMAIN R.results = {}
                           /\ R.pc \notin {"key", "read"} => R.cur = None
                           /\ R.pc # "record"
  /\ R.phase = "after" =>
       /\ R.pc \in {"key", "read", "replace", "record"}
       /\ \A t \in R.todo \cup DOMAIN R.after : t \in DOMAIN R.results /\ R.results[t]
       /\ R.cur # None => R.cur \in DOMAIN R.results /\ R.results[R.cur]
  /\ R.pc = "run" => j = None
  /\ R.pc = "parse" => j = None \/ j = R.results

UnderWay(R, p, C, Z, j) ==
  /\ PlaceOK(R) /\ KeysOK(R, p, C, Z) /\ RunOK(R, j)
  /\ \A t \in DOMAIN R.results : Ran(R, p, t, C, Z)

(* What a recorded pass stands for: t passed on files with the digests d,   *)
(* and they are the ones its rows are of.                                   *)
EarnedOn(k, t, b, e, r, d, C, Z) ==
  /\ k = <<t, b, e, r>>
  /\ DOMAIN r \subseteq Files
  /\ d = [f \in DOMAIN r |-> d[f]]
  /\ Outcome(t, e, d)
  /\ \A f \in DOMAIN r :
       IF f \in Outside
       THEN r[f] \in Nat /\ r[f] <= Z[f] /\ (r[f] = Z[f] => d[f] = DigestOf(f, C[f]))
       ELSE r[f] = d[f]
Earned(k, C, Z) == \E t, b, e, r, d : EarnedOn(k, t, b, e, r, d, C, Z)

HInv ==
  /\ OwnBuilds
  /\ Tree(bytes)
  /\ junit = [b \in Builds |-> junit[b]]
  /\ \A k \in passed : Earned(k, bytes, stamp)
  /\ \A p \in Procs : /\ Fields \subseteq DOMAIN inv[p]
                      /\ inv[p].pc = "idle"
                         \/ UnderWay(inv[p], p, bytes, stamp, junit[BuildOf[p]])
-----------------------------------------------------------------------------
(* What is recorded for the tree as it stands is earned on it.              *)
LEMMA EarnedIsHeld == HInv => OnlyEarned
<1> SUFFICES ASSUME HInv, NEW t \in Tests, NEW b \in Builds, NEW e \in Envs,
                    TrueKey(t, b, e) \in passed
             PROVE  Passes(t, b, e)
  BY DEF OnlyEarned
<1> DEFINE q == [f \in TrueInputs(t, b) |-> RowOf(f)]
<1>1. Earned(<<t, b, e, q>>, bytes, stamp) BY DEF HInv, TrueKey, Fingerprint
<1>2. PICK t1, b1, e1, r, d : EarnedOn(<<t, b, e, q>>, t1, b1, e1, r, d, bytes, stamp)
  BY <1>1 DEF Earned
<1>3. t1 = t /\ e1 = e /\ r = q BY <1>2 DEF EarnedOn
<1>4. DOMAIN r = TrueInputs(t, b) BY <1>3
<1>5. ASSUME NEW f \in DOMAIN r PROVE d[f] = DigestOf(f, bytes[f])
  <2>1. r[f] = RowOf(f) BY <1>3, <1>4
  <2> QED BY <1>2, <2>1 DEF EarnedOn, RowOf
<1>6. d = [f \in TrueInputs(t, b) |-> DigestOf(f, bytes[f])]
  BY <1>2, <1>4, <1>5 DEF EarnedOn
<1>7. Outcome(t, e, d) BY <1>2, <1>3 DEF EarnedOn
<1> QED BY <1>6, <1>7 DEF Passes

(* A recorded pass stays earned when files are rewritten, forwards or back, *)
(* since a rewritten file has a stamp of its own.                           *)
LEMMA EarnedStays ==
  ASSUME NEW C, NEW Z \in [Files -> Nat], NEW C2, NEW Z2 \in [Files -> Nat],
         \A f \in Files : Z[f] <= Z2[f] /\ (Z[f] = Z2[f] => C[f] = C2[f]),
         NEW k, Earned(k, C, Z)
  PROVE  Earned(k, C2, Z2)
<1>1. PICK t, b, e, r, d : EarnedOn(k, t, b, e, r, d, C, Z) BY DEF Earned
<1>2. ASSUME NEW f \in DOMAIN r, f \in Outside
      PROVE  r[f] \in Nat /\ r[f] <= Z2[f] /\ (r[f] = Z2[f] => d[f] = DigestOf(f, C2[f]))
  <2>1. f \in Files BY <1>1, <1>2 DEF EarnedOn
  <2>2. r[f] \in Nat /\ r[f] <= Z[f] /\ (r[f] = Z[f] => d[f] = DigestOf(f, C[f]))
    BY <1>1, <1>2 DEF EarnedOn
  <2>3. Z[f] \in Nat /\ Z2[f] \in Nat /\ Z[f] <= Z2[f] /\ (Z[f] = Z2[f] => C[f] = C2[f])
    BY <2>1
  <2> QED BY <2>2, <2>3
<1>3. EarnedOn(k, t, b, e, r, d, C2, Z2) BY <1>1, <1>2 DEF EarnedOn
<1> QED BY <1>3 DEF Earned
-----------------------------------------------------------------------------
(* Trees that grow.                                                         *)

LEMMA GrewFurther ==
  ASSUME NEW B \in [Files -> Nat], NEW S \in [Files -> Nat],
         NEW C \in [Files -> Nat], NEW Z \in [Files -> Nat],
         NEW C2 \in [Files -> Nat], NEW Z2 \in [Files -> Nat],
         Grew(B, S, C, Z), Grew(C, Z, C2, Z2)
  PROVE  Grew(B, S, C2, Z2)
<1> SUFFICES ASSUME NEW f \in Files
             PROVE  B[f] <= C2[f] /\ S[f] <= Z2[f] /\ (S[f] = Z2[f] => B[f] = C2[f])
  BY DEF Grew
<1>1. /\ B[f] \in Nat /\ C[f] \in Nat /\ C2[f] \in Nat
      /\ S[f] \in Nat /\ Z[f] \in Nat /\ Z2[f] \in Nat
  OBVIOUS
<1>2. /\ B[f] <= C[f] /\ S[f] <= Z[f] /\ (S[f] = Z[f] => B[f] = C[f])
      /\ C[f] <= C2[f] /\ Z[f] <= Z2[f] /\ (Z[f] = Z2[f] => C[f] = C2[f])
  BY DEF Grew
<1> QED BY <1>1, <1>2

LEMMA BeforeGrows ==
  ASSUME NEW C, Tree(C), NEW Z \in [Files -> Nat],
         NEW C2, Tree(C2), NEW Z2 \in [Files -> Nat], Grew(C, Z, C2, Z2),
         NEW f \in Files, NEW v, Before(f, v, C, Z)
  PROVE  Before(f, v, C2, Z2)
<1>1. C[f] \in Nat /\ C2[f] \in Nat /\ Z[f] \in Nat /\ Z2[f] \in Nat BY DEF Tree
<1>2. C[f] <= C2[f] /\ Z[f] <= Z2[f] BY DEF Grew
<1>3. CASE f \in Outside BY <1>1, <1>2, <1>3 DEF Before
<1>4. CASE f \notin Outside
  <2>1. PICK u \in Versions(f) : u <= C[f] /\ v = DigestOf(f, u) BY <1>4 DEF Before
  <2>2. u \in Nat
    <3>1. MaxVersion[f] \in Nat BY KindsAssumption
    <3> QED BY <3>1 DEF Versions
  <2>3. u <= C2[f] BY <1>1, <1>2, <2>1, <2>2
  <2> QED BY <1>4, <2>1, <2>3 DEF Before
<1> QED BY <1>3, <1>4

LEMMA VersionsAreNat == ASSUME NEW f \in Files PROVE Versions(f) \subseteq Nat
<1>1. MaxVersion[f] \in Nat BY KindsAssumption
<1> QED BY <1>1 DEF Versions

LEMMA RanGrows ==
  ASSUME NEW C, Tree(C), NEW Z \in [Files -> Nat],
         NEW C2, Tree(C2), NEW Z2 \in [Files -> Nat], Grew(C, Z, C2, Z2),
         NEW R, NEW p, NEW t, DOMAIN R.texts \subseteq Scripts, Ran(R, p, t, C, Z)
  PROVE  Ran(R, p, t, C2, Z2)
<1>1. PICK B, S : RanOn(R, p, t, B, S, C, Z) BY DEF Ran
<1>2. B \in [Files -> Nat] /\ C \in [Files -> Nat] /\ C2 \in [Files -> Nat]
      /\ S \in [Files -> Nat]
  BY <1>1 DEF RanOn, Tree
<1>3. Grew(B, S, C2, Z2)
  <2>1. Grew(B, S, C, Z) BY <1>1 DEF RanOn
  <2> QED BY <1>2, <2>1, GrewFurther
<1>4. \A f \in Files : C[f] \in Nat /\ C2[f] \in Nat /\ C[f] <= C2[f]
  BY <1>2 DEF Grew
<1>5. ASSUME NEW s \in DOMAIN R.texts, NEW w \in Versions(s), w <= C[s]
      PROVE  w <= C2[s]
  <2>1. s \in Files BY DEF Files
  <2>2. w \in Nat BY <2>1, VersionsAreNat
  <2> QED BY <1>4, <1>5, <2>1, <2>2
<1>6. ASSUME NEW r, NEW D, NEW W, Covers(r, D, t, BuildOf[p], W, B, S, C)
      PROVE  Covers(r, D, t, BuildOf[p], W, B, S, C2)
  <2>1. \A f \in Files : W[f] \in Nat /\ W[f] <= C[f] BY <1>6 DEF Covers, Tree
  <2>2. \A f \in Files : W[f] <= C2[f] BY <1>4, <2>1
  <2> QED BY <1>6, <2>2 DEF Covers
<1>7. RanOn(R, p, t, B, S, C2, Z2)
  BY <1>1, <1>3, <1>5, <1>6 DEF RanOn
<1> QED BY <1>7 DEF Ran

LEMMA UnderWayGrows ==
  ASSUME NEW C, Tree(C), NEW Z \in [Files -> Nat],
         NEW C2, Tree(C2), NEW Z2 \in [Files -> Nat], Grew(C, Z, C2, Z2),
         NEW R, NEW p, NEW j, UnderWay(R, p, C, Z, j)
  PROVE  UnderWay(R, p, C2, Z2, j)
<1>1. PlaceOK(R) /\ KeysOK(R, p, C, Z) /\ RunOK(R, j) BY DEF UnderWay
<1>2. ASSUME NEW r, RowsBefore(r, C, Z) PROVE RowsBefore(r, C2, Z2)
  BY <1>2, BeforeGrows DEF RowsBefore
<1>3. ASSUME NEW f \in DOMAIN R.trees, Before(f, R.trees[f], C, Z)
      PROVE  Before(f, R.trees[f], C2, Z2)
  <2>1. f \in Files BY <1>1 DEF PlaceOK, Files
  <2> QED BY <1>3, <2>1, BeforeGrows
<1>4. KeysOK(R, p, C2, Z2) BY <1>1, <1>2, <1>3 DEF KeysOK
<1>5. \A t \in DOMAIN R.results : Ran(R, p, t, C2, Z2)
  BY <1>1, RanGrows DEF UnderWay, PlaceOK
<1> QED BY <1>1, <1>4, <1>5 DEF UnderWay
-----------------------------------------------------------------------------
(* A pass whose fingerprint the run has left standing is earned.            *)

(* The rows of both fingerprints are those of the tree the test ran on.     *)
LEMMA RowsOfRun ==
  ASSUME NEW B, Tree(B), NEW W, Tree(W), NEW S \in [Files -> Nat],
         NEW f \in Files, B[f] <= W[f], NEW v,
         Before(f, v, B, S), After(f, v, W, S)
  PROVE  /\ f \in Outside => v = S[f]
         /\ f \notin Outside => v = DigestOf(f, B[f]) /\ v = DigestOf(f, W[f])
<1>1. S[f] \in Nat /\ B[f] \in Versions(f) /\ W[f] \in Versions(f) BY DEF Tree
<1>2. CASE f \in Outside
  <2>1. v \in Nat /\ v <= S[f] /\ S[f] <= v BY <1>2 DEF Before, After
  <2> QED BY <1>1, <1>2, <2>1
<1>3. CASE f \notin Outside
  <2>1. PICK u \in Versions(f) : u <= B[f] /\ v = DigestOf(f, u) BY <1>3 DEF Before
  <2>2. PICK w \in Versions(f) : W[f] <= w /\ v = DigestOf(f, w) BY <1>3 DEF After
  <2>3. u \in Nat /\ w \in Nat /\ B[f] \in Nat /\ W[f] \in Nat
    BY <1>1, VersionsAreNat
  <2>4. u <= B[f] /\ B[f] <= w /\ u <= W[f] /\ W[f] <= w BY <2>1, <2>2, <2>3
  <2>5. DigestOf(f, u) = DigestOf(f, w) BY <2>1, <2>2
  <2>6. DigestOf(f, B[f]) = DigestOf(f, u) BY <1>1, <2>4, <2>5, ContentAssumption
  <2>7. DigestOf(f, W[f]) = DigestOf(f, u) BY <1>1, <2>4, <2>5, ContentAssumption
  <2> QED BY <1>3, <2>1, <2>6, <2>7
<1> QED BY <1>2, <1>3

LEMMA UnmovedIsEarned ==
  ASSUME NEW C, Tree(C), NEW Z \in [Files -> Nat], NEW j, NEW p \in Procs,
         NEW R, UnderWay(R, p, C, Z, j), R.pc = "record",
         NEW t \in DOMAIN R.after, R.after[t] = R.keys[t]
  PROVE  Earned(R.keys[t], C, Z)
<1>1. R.phase = "after" BY DEF UnderWay, PlaceOK, RunOK
<1>2. t \in DOMAIN R.results /\ R.results[t] BY <1>1 DEF UnderWay, RunOK
<1>3. PICK B, S : RanOn(R, p, t, B, S, C, Z) BY <1>2 DEF UnderWay, Ran
<1> DEFINE r == R.keys[t][4]
           b == BuildOf[p]
           d == [f \in DOMAIN r |-> DigestOf(f, B[f])]
<1>4. PICK W : Covers(r, DOMAIN r, t, b, W, B, S, C) BY <1>1, <1>3 DEF RanOn
<1>5. /\ Tree(B) /\ S \in [Files -> Nat] /\ Grew(B, S, C, Z)
      /\ RowsBefore(r, B, S)
      /\ Outcome(t, R.opts.env, DigestsOf(t, b, B))
  BY <1>2, <1>3 DEF RanOn
<1>6. R.keys[t] = <<t, b, R.opts.env, r>> BY <1>1, <1>3 DEF RanOn
<1> HIDE DEF r, b
<1>7. /\ Tree(W) /\ DOMAIN r = InputsOf(t, b, W)
      /\ \A f \in Files : B[f] <= W[f]
      /\ \A f \in DOMAIN r : After(f, r[f], W, S)
  BY <1>4 DEF Covers
<1>8. DOMAIN r \subseteq Files BY <1>5 DEF RowsBefore
<1>9. ASSUME NEW f \in DOMAIN r
      PROVE  /\ f \in Outside => r[f] = S[f]
             /\ f \notin Outside => r[f] = DigestOf(f, B[f]) /\ r[f] = DigestOf(f, W[f])
  BY <1>5, <1>7, <1>8, RowsOfRun DEF RowsBefore
<1>10. InputsOf(t, b, B) = DOMAIN r
  <2>1. ASSUME NEW f \in DOMAIN r \cap (Scripts \cup Binaries)
        PROVE  Named(f, B[f]) = Named(f, W[f])
    <3>1. f \notin Outside BY KindsAssumption
    <3>2. DigestOf(f, B[f]) = DigestOf(f, W[f]) BY <1>9, <3>1
    <3>3. B[f] \in Versions(f) /\ W[f] \in Versions(f) BY <1>5, <1>7, <1>8 DEF Tree
    <3> QED BY <3>2, <3>3, ContentAssumption
  <2> QED BY <1>7, <2>1, InputsAgree
<1>11. Outcome(t, R.opts.env, d) BY <1>5, <1>10 DEF DigestsOf
<1>12. ASSUME NEW f \in DOMAIN r
       PROVE  IF f \in Outside
              THEN r[f] \in Nat /\ r[f] <= Z[f] /\ (r[f] = Z[f] => d[f] = DigestOf(f, C[f]))
              ELSE r[f] = d[f]
  <2>1. f \in Files BY <1>8
  <2>2. S[f] \in Nat /\ S[f] <= Z[f] /\ (S[f] = Z[f] => B[f] = C[f])
    BY <1>5, <2>1 DEF Grew
  <2>3. d[f] = DigestOf(f, B[f]) OBVIOUS
  <2> HIDE DEF d
  <2> QED BY <1>9, <2>2, <2>3
<1>13. d = [f \in DOMAIN r |-> d[f]] OBVIOUS
<1> HIDE DEF d
<1>14. EarnedOn(R.keys[t], t, b, R.opts.env, r, d, C, Z)
  BY <1>6, <1>8, <1>11, <1>12, <1>13 DEF EarnedOn
<1> QED BY <1>14 DEF Earned
-----------------------------------------------------------------------------
(* The steps of an invocation, on its own record R.                         *)

LEMMA SelIsTests == ASSUME NEW o \in Requests PROVE o.sel \subseteq Tests /\ None \notin o.sel
BY KindsAssumption

(* Started: nothing is known yet.                                           *)
LEMMA StartUnderWay ==
  ASSUME NEW p \in Procs, NEW C, NEW Z, NEW j, NEW o \in Requests, NEW m, NEW R,
         R = [Fresh EXCEPT !.pc = "key", !.opts = o, !.todo = o.sel, !.known = m,
                           !.left = Exes(BuildOf[p])]
  PROVE  Fields \subseteq DOMAIN R /\ UnderWay(R, p, C, Z, j)
<1>1. /\ Fields \subseteq DOMAIN R
      /\ R.pc = "key" /\ R.phase = "before" /\ R.opts = o /\ R.todo = o.sel
      /\ R.left = Exes(BuildOf[p]) /\ R.cur = None
      /\ R.keys = Nothing /\ R.after = Nothing /\ R.trees = Nothing
      /\ R.texts = Nothing /\ R.rows = Nothing /\ R.results = Nothing
  BY DEF Fresh, Fields
<1>2. DOMAIN Nothing = {} BY DEF Nothing
<1>3. R.left \subseteq Files BY <1>1, KindsAssumption DEF Builds
<1>4. PlaceOK(R) BY <1>1, <1>2, <1>3 DEF PlaceOK
<1>5. KeysOK(R, p, C, Z) BY <1>1, <1>2 DEF KeysOK, RowsBefore
<1>6. RunOK(R, j) BY <1>1, <1>2 DEF RunOK
<1> QED BY <1>1, <1>2, <1>4, <1>5, <1>6 DEF UnderWay

(* A step that leaves alone what the fingerprints and results are.          *)
Carried(R2, R) ==
  /\ Fields \subseteq DOMAIN R2
  /\ R2.phase = R.phase /\ R2.opts = R.opts
  /\ R2.keys = R.keys /\ R2.after = R.after /\ R2.results = R.results
  /\ R2.trees = R.trees /\ R2.texts = R.texts
  /\ R2.cur = R.cur /\ R2.rows = R.rows /\ R2.left = R.left

LEMMA CarriedRuns ==
  ASSUME NEW p, NEW C, NEW Z, NEW j, NEW R, UnderWay(R, p, C, Z, j),
         NEW R2, Carried(R2, R)
  PROVE  \A t \in DOMAIN R2.results : Ran(R2, p, t, C, Z)
<1> SUFFICES ASSUME NEW t \in DOMAIN R2.results PROVE Ran(R2, p, t, C, Z)
  OBVIOUS
<1>1. PICK B, S : RanOn(R, p, t, B, S, C, Z) BY DEF Ran, UnderWay, Carried
<1>2. RanOn(R2, p, t, B, S, C, Z) BY <1>1 DEF RanOn, Carried
<1> QED BY <1>2 DEF Ran

LEMMA StatUnderWay ==
  ASSUME NEW p \in Procs, NEW C, NEW Z, NEW j, NEW R, UnderWay(R, p, C, Z, j),
         R.pc = "key", R.left # {}, FirstOf(R.left) \notin Outside, NEW a, NEW R2,
         R2 = [R EXCEPT !.at = a, !.pc = "read"]
  PROVE  Fields \subseteq DOMAIN R2 /\ UnderWay(R2, p, C, Z, j)
<1>1. PlaceOK(R) /\ KeysOK(R, p, C, Z) /\ RunOK(R, j) BY DEF UnderWay
<1>2. Fields \subseteq DOMAIN R BY <1>1 DEF PlaceOK
<1>3. Carried(R2, R) /\ R2.pc = "read" /\ R2.todo = R.todo
  BY <1>2 DEF Fields, Carried
<1>4. PlaceOK(R2) BY <1>1, <1>3 DEF Carried, PlaceOK
<1>5. KeysOK(R2, p, C, Z) BY <1>1, <1>3 DEF Carried, KeysOK
<1>6. RunOK(R2, j) BY <1>1, <1>3 DEF Carried, RunOK
<1>7. \A t \in DOMAIN R2.results : Ran(R2, p, t, C, Z) BY <1>3, CarriedRuns
<1> QED BY <1>3, <1>4, <1>5, <1>6, <1>7 DEF UnderWay, Carried

LEMMA SaveUnderWay ==
  ASSUME NEW p \in Procs, NEW C, NEW Z, NEW j, NEW R, UnderWay(R, p, C, Z, j),
         R.pc = "key", R.cur = None, R.todo = {}, NEW m, NEW R2,
         R2 = [R EXCEPT !.pc = "replace", !.known = m]
  PROVE  Fields \subseteq DOMAIN R2 /\ UnderWay(R2, p, C, Z, j)
<1>1. PlaceOK(R) /\ KeysOK(R, p, C, Z) /\ RunOK(R, j) BY DEF UnderWay
<1>2. Fields \subseteq DOMAIN R BY <1>1 DEF PlaceOK
<1>3. Carried(R2, R) /\ R2.pc = "replace" /\ R2.todo = R.todo
  BY <1>2 DEF Fields, Carried
<1>4. PlaceOK(R2) BY <1>1, <1>3 DEF Carried, PlaceOK
<1>5. R.opts.sel \subseteq DOMAIN R.keys
  <2>1. None \notin R.opts.sel BY <1>1, SelIsTests DEF PlaceOK
  <2> QED BY <1>1, <2>1 DEF KeysOK
<1>6. KeysOK(R2, p, C, Z) BY <1>1, <1>3, <1>5 DEF Carried, KeysOK
<1>7. RunOK(R2, j) BY <1>1, <1>3 DEF Carried, RunOK
<1>8. \A t \in DOMAIN R2.results : Ran(R2, p, t, C, Z) BY <1>3, CarriedRuns
<1> QED BY <1>3, <1>4, <1>6, <1>7, <1>8 DEF UnderWay, Carried

LEMMA SavedUnderWay ==
  ASSUME NEW p \in Procs, NEW C, NEW Z, NEW j, NEW R, UnderWay(R, p, C, Z, j),
         R.pc = "replace", NEW R2,
         R2 = [R EXCEPT !.pc = IF R.phase = "before" THEN "decide" ELSE "record"]
  PROVE  Fields \subseteq DOMAIN R2 /\ UnderWay(R2, p, C, Z, j)
<1>1. PlaceOK(R) /\ KeysOK(R, p, C, Z) /\ RunOK(R, j) BY DEF UnderWay
<1>2. Fields \subseteq DOMAIN R BY <1>1 DEF PlaceOK
<1>3. Carried(R2, R) /\ R2.todo = R.todo
      /\ R2.pc = IF R.phase = "before" THEN "decide" ELSE "record"
  BY <1>2 DEF Fields, Carried
<1>4. PlaceOK(R2) BY <1>1, <1>3 DEF Carried, PlaceOK
<1>5. KeysOK(R2, p, C, Z) BY <1>1, <1>3 DEF Carried, KeysOK
<1>6. RunOK(R2, j) BY <1>1, <1>3 DEF Carried, RunOK, PlaceOK
<1>7. \A t \in DOMAIN R2.results : Ran(R2, p, t, C, Z) BY <1>3, CarriedRuns
<1> QED BY <1>3, <1>4, <1>5, <1>6, <1>7 DEF UnderWay, Carried

(* ctest is started with the result file removed.                           *)
LEMMA DecideUnderWay ==
  ASSUME NEW p \in Procs, NEW C, NEW Z, NEW j, NEW R, UnderWay(R, p, C, Z, j),
         R.pc = "decide", NEW T, T \subseteq R.opts.sel, NEW R2,
         R2 = [R EXCEPT !.pc = "run", !.todo = T]
  PROVE  Fields \subseteq DOMAIN R2 /\ UnderWay(R2, p, C, Z, None)
<1>1. PlaceOK(R) /\ KeysOK(R, p, C, Z) /\ RunOK(R, j) BY DEF UnderWay
<1>2. Fields \subseteq DOMAIN R BY <1>1 DEF PlaceOK
<1>3. Carried(R2, R) /\ R2.pc = "run" /\ R2.todo = T
  BY <1>2 DEF Fields, Carried
<1>4. R.phase = "before" BY <1>1 DEF RunOK, PlaceOK
<1>5. PlaceOK(R2) BY <1>1, <1>3 DEF Carried, PlaceOK
<1>6. KeysOK(R2, p, C, Z) BY <1>1, <1>3 DEF Carried, KeysOK
<1>7. RunOK(R2, None) BY <1>1, <1>3, <1>4 DEF Carried, RunOK
<1>8. \A t \in DOMAIN R2.results : Ran(R2, p, t, C, Z) BY <1>3, CarriedRuns
<1> QED BY <1>3, <1>5, <1>6, <1>7, <1>8 DEF UnderWay, Carried

(* ctest has ended, and left the results or nothing.                        *)
LEMMA EndUnderWay ==
  ASSUME NEW p \in Procs, NEW C, NEW Z, NEW j, NEW R, UnderWay(R, p, C, Z, j),
         R.pc = "run", NEW i, i = j \/ i = R.results, NEW R2,
         R2 = [R EXCEPT !.pc = "parse"]
  PROVE  Fields \subseteq DOMAIN R2 /\ UnderWay(R2, p, C, Z, i)
<1>1. PlaceOK(R) /\ KeysOK(R, p, C, Z) /\ RunOK(R, j) BY DEF UnderWay
<1>2. Fields \subseteq DOMAIN R BY <1>1 DEF PlaceOK
<1>3. Carried(R2, R) /\ R2.pc = "parse" /\ R2.todo = R.todo
  BY <1>2 DEF Fields, Carried
<1>4. R.phase = "before" BY <1>1 DEF RunOK, PlaceOK
<1>5. PlaceOK(R2) BY <1>1, <1>3 DEF Carried, PlaceOK
<1>6. KeysOK(R2, p, C, Z) BY <1>1, <1>3 DEF Carried, KeysOK
<1>7. RunOK(R2, i) BY <1>1, <1>3, <1>4 DEF Carried, RunOK
<1>8. \A t \in DOMAIN R2.results : Ran(R2, p, t, C, Z) BY <1>3, CarriedRuns
<1> QED BY <1>3, <1>5, <1>6, <1>7, <1>8 DEF UnderWay, Carried

(* The second phase begins with nothing remembered of the first.            *)
LEMMA ParseUnderWay ==
  ASSUME NEW p \in Procs, NEW C, NEW Z, NEW j, NEW R, UnderWay(R, p, C, Z, j),
         R.pc = "parse", j # None, NEW R2,
         R2 = [R EXCEPT !.pc = "key", !.phase = "after",
                        !.todo = {t \in DOMAIN j : j[t]} \cap R.opts.sel,
                        !.trees = Nothing, !.texts = Nothing]
  PROVE  Fields \subseteq DOMAIN R2 /\ UnderWay(R2, p, C, Z, j)
<1>1. PlaceOK(R) /\ KeysOK(R, p, C, Z) /\ RunOK(R, j) BY DEF UnderWay
<1>2. Fields \subseteq DOMAIN R BY <1>1 DEF PlaceOK
<1> DEFINE T == {t \in DOMAIN j : j[t]} \cap R.opts.sel
<1>3. /\ Fields \subseteq DOMAIN R2
      /\ R2.pc = "key" /\ R2.phase = "after" /\ R2.opts = R.opts /\ R2.todo = T
      /\ R2.left = R.left /\ R2.cur = R.cur /\ R2.keys = R.keys /\ R2.after = R.after
      /\ R2.trees = Nothing /\ R2.texts = Nothing /\ R2.rows = R.rows
      /\ R2.results = R.results
  <2> HIDE DEF T
  <2>1. R2 = [R EXCEPT !.pc = "key", !.phase = "after", !.todo = T,
                       !.trees = Nothing, !.texts = Nothing] BY DEF T
  <2> QED BY <1>2, <2>1 DEF Fields
<1>4. R.phase = "before" /\ j = R.results BY <1>1 DEF RunOK, PlaceOK
<1>5. R.cur = None /\ DOMAIN R.after = {} BY <1>1, <1>4 DEF RunOK
<1>6. DOMAIN Nothing = {} BY DEF Nothing
<1>7. T \subseteq R.opts.sel /\ \A t \in T : t \in DOMAIN R.results /\ R.results[t]
  BY <1>4
<1> HIDE DEF T
<1>8. PlaceOK(R2) BY <1>1, <1>3, <1>6, <1>7 DEF PlaceOK
<1>9. KeysOK(R2, p, C, Z) BY <1>1, <1>3, <1>4 DEF KeysOK
<1>10. RunOK(R2, j) BY <1>3, <1>5, <1>7 DEF RunOK
<1>11. ASSUME NEW t \in DOMAIN R2.results PROVE Ran(R2, p, t, C, Z)
  <2>1. PICK B, S : RanOn(R, p, t, B, S, C, Z) BY <1>3 DEF UnderWay, Ran
  <2>2. t # None
    <3>1. t \in R.opts.sel BY <1>1, <2>1 DEF RanOn, KeysOK
    <3> QED BY <1>1, <3>1, SelIsTests DEF PlaceOK
  <2>3. RanOn(R2, p, t, B, S, C, Z) BY <1>3, <1>5, <1>6, <2>1, <2>2 DEF RanOn
  <2> QED BY <2>3 DEF Ran
<1> QED BY <1>3, <1>8, <1>9, <1>10, <1>11 DEF UnderWay

(* A test is run on the tree as it stands.                                  *)
LEMMA RunUnderWay ==
  ASSUME NEW p \in Procs, NEW C, Tree(C), NEW Z \in [Files -> Nat], NEW j,
         NEW R, UnderWay(R, p, C, Z, j), R.pc = "run", NEW t \in R.todo, NEW v,
         v => Outcome(t, R.opts.env, DigestsOf(t, BuildOf[p], C)), NEW R2,
         R2 = [R EXCEPT !.todo = @ \ {t}, !.results = Extend(@, t, v)]
  PROVE  Fields \subseteq DOMAIN R2 /\ UnderWay(R2, p, C, Z, j)
<1>1. PlaceOK(R) /\ KeysOK(R, p, C, Z) /\ RunOK(R, j) BY DEF UnderWay
<1>2. Fields \subseteq DOMAIN R BY <1>1 DEF PlaceOK
<1> DEFINE rs == Extend(R.results, t, v)
<1>3. /\ Fields \subseteq DOMAIN R2
      /\ R2.pc = "run" /\ R2.phase = R.phase /\ R2.opts = R.opts /\ R2.todo = R.todo \ {t}
      /\ R2.left = R.left /\ R2.cur = R.cur /\ R2.keys = R.keys /\ R2.after = R.after
      /\ R2.trees = R.trees /\ R2.texts = R.texts /\ R2.rows = R.rows
      /\ R2.results = rs
  <2>1. R2 = [R EXCEPT !.todo = R.todo \ {t}, !.results = rs] BY <1>2 DEF Fields
  <2> HIDE DEF rs
  <2> QED BY <1>2, <2>1 DEF Fields
<1>4. R.phase = "before" BY <1>1 DEF RunOK, PlaceOK
<1>5. PlaceOK(R2) BY <1>1, <1>3 DEF PlaceOK
<1>6. KeysOK(R2, p, C, Z) BY <1>1, <1>3 DEF KeysOK
<1>7. RunOK(R2, j) BY <1>1, <1>3, <1>4 DEF RunOK
<1>8. DOMAIN rs = DOMAIN R.results \cup {t} /\ rs[t] = v
      /\ \A x \in DOMAIN R.results : x # t => rs[x] = R.results[x]
  BY DEF Extend
<1> HIDE DEF rs
<1>9. ASSUME NEW x \in DOMAIN R2.results, x # t PROVE Ran(R2, p, x, C, Z)
  <2>1. x \in DOMAIN R.results /\ R2.results[x] = R.results[x] BY <1>3, <1>8, <1>9
  <2>2. PICK B, S : RanOn(R, p, x, B, S, C, Z) BY <2>1 DEF UnderWay, Ran
  <2>3. RanOn(R2, p, x, B, S, C, Z) BY <1>3, <1>4, <2>1, <2>2 DEF RanOn
  <2> QED BY <2>3 DEF Ran
<1>10. Ran(R2, p, t, C, Z)
  <2>1. Grew(C, Z, C, Z) BY DEF Grew, Tree
  <2>2. t \in DOMAIN R.keys /\ RowsBefore(R.keys[t][4], C, Z)
    BY <1>1 DEF PlaceOK, KeysOK
  <2>3. R2.results[t] = v BY <1>3, <1>8
  <2>4. RanOn(R2, p, t, C, Z, C, Z) BY <1>3, <1>4, <2>1, <2>2, <2>3 DEF RanOn
  <2> QED BY <2>4 DEF Ran
<1> QED BY <1>3, <1>5, <1>6, <1>7, <1>9, <1>10 DEF UnderWay

(* A fingerprint is complete.                                               *)
LEMMA FirstKeyUnderWay ==
  ASSUME NEW p \in Procs, NEW C, NEW Z, NEW j, NEW R, UnderWay(R, p, C, Z, j),
         R.pc = "key", R.cur # None, R.phase = "before", NEW k,
         k = <<R.cur, BuildOf[p], R.opts.env, R.rows>>, NEW R2,
         R2 = [R EXCEPT !.cur = None, !.keys = Extend(@, R.cur, k)]
  PROVE  Fields \subseteq DOMAIN R2 /\ UnderWay(R2, p, C, Z, j)
<1>1. PlaceOK(R) /\ KeysOK(R, p, C, Z) /\ RunOK(R, j) BY DEF UnderWay
<1>2. Fields \subseteq DOMAIN R BY <1>1 DEF PlaceOK
<1> DEFINE ks == Extend(R.keys, R.cur, k)
<1>3. /\ Fields \subseteq DOMAIN R2
      /\ R2.pc = "key" /\ R2.phase = "before" /\ R2.opts = R.opts /\ R2.todo = R.todo
      /\ R2.left = R.left /\ R2.cur = None /\ R2.keys = ks /\ R2.after = R.after
      /\ R2.trees = R.trees /\ R2.texts = R.texts /\ R2.rows = R.rows
      /\ R2.results = R.results
  <2>1. R2 = [R EXCEPT !.cur = None, !.keys = ks] BY <1>2 DEF Fields
  <2> HIDE DEF ks
  <2> QED BY <1>2, <2>1 DEF Fields
<1>4. DOMAIN ks = DOMAIN R.keys \cup {R.cur} /\ ks[R.cur] = k
      /\ \A x \in DOMAIN R.keys : x # R.cur => ks[x] = R.keys[x]
  BY DEF Extend
<1> HIDE DEF ks
<1>5. PlaceOK(R2) BY <1>1, <1>3 DEF PlaceOK
<1>6. KeysOK(R2, p, C, Z)
  <2>1. RowsBefore(R.rows, C, Z) /\ R.cur \in R.opts.sel BY <1>1 DEF KeysOK, PlaceOK
  <2>2. k[4] = R.rows OBVIOUS
  <2>3. ASSUME NEW x \in DOMAIN ks
        PROVE  ks[x] = <<x, BuildOf[p], R.opts.env, ks[x][4]>> /\ RowsBefore(ks[x][4], C, Z)
    <3>1. CASE x = R.cur BY <1>4, <2>1, <2>2, <3>1
    <3>2. CASE x # R.cur
      <4>1. x \in DOMAIN R.keys /\ ks[x] = R.keys[x] BY <1>4, <3>2
      <4> QED BY <1>1, <4>1 DEF KeysOK
    <3> QED BY <3>1, <3>2
  <2>4. DOMAIN ks \subseteq R.opts.sel BY <1>1, <1>4, <2>1 DEF KeysOK
  <2>5. R.opts.sel \subseteq DOMAIN ks \cup R.todo \cup {None} BY <1>1, <1>4 DEF KeysOK
  <2>6. \A f \in DOMAIN R.trees : Before(f, R.trees[f], C, Z) BY <1>1 DEF KeysOK
  <2> QED BY <1>3, <2>1, <2>3, <2>4, <2>5, <2>6 DEF KeysOK
<1>7. RunOK(R2, j) BY <1>1, <1>3 DEF RunOK
<1>8. DOMAIN R2.results = {} BY <1>1, <1>3 DEF RunOK
<1> QED BY <1>3, <1>5, <1>6, <1>7, <1>8 DEF UnderWay

LEMMA SecondKeyUnderWay ==
  ASSUME NEW p \in Procs, NEW C, NEW Z, NEW j, NEW R, UnderWay(R, p, C, Z, j),
         R.pc = "key", R.cur # None, R.left = {}, R.phase = "after", NEW k,
         k = <<R.cur, BuildOf[p], R.opts.env, R.rows>>, NEW R2,
         R2 = [R EXCEPT !.cur = None, !.after = Extend(@, R.cur, k)]
  PROVE  Fields \subseteq DOMAIN R2 /\ UnderWay(R2, p, C, Z, j)
<1>1. PlaceOK(R) /\ KeysOK(R, p, C, Z) /\ RunOK(R, j) BY DEF UnderWay
<1>2. Fields \subseteq DOMAIN R BY <1>1 DEF PlaceOK
<1> DEFINE ks == Extend(R.after, R.cur, k)
<1>3. /\ Fields \subseteq DOMAIN R2
      /\ R2.pc = "key" /\ R2.phase = "after" /\ R2.opts = R.opts /\ R2.todo = R.todo
      /\ R2.left = R.left /\ R2.cur = None /\ R2.keys = R.keys /\ R2.after = ks
      /\ R2.trees = R.trees /\ R2.texts = R.texts /\ R2.rows = R.rows
      /\ R2.results = R.results
  <2>1. R2 = [R EXCEPT !.cur = None, !.after = ks] BY <1>2 DEF Fields
  <2> HIDE DEF ks
  <2> QED BY <1>2, <2>1 DEF Fields
<1>4. DOMAIN ks = DOMAIN R.after \cup {R.cur} /\ ks[R.cur] = k
      /\ \A x \in DOMAIN R.after : x # R.cur => ks[x] = R.after[x]
  BY DEF Extend
<1> HIDE DEF ks
<1>5. PlaceOK(R2) BY <1>1, <1>3 DEF PlaceOK
<1>6. KeysOK(R2, p, C, Z) BY <1>1, <1>3 DEF KeysOK
<1>7. RunOK(R2, j) BY <1>1, <1>3, <1>4 DEF RunOK
<1>8. ASSUME NEW t \in DOMAIN R2.results PROVE Ran(R2, p, t, C, Z)
  <2>1. PICK B, S : RanOn(R, p, t, B, S, C, Z) BY <1>3 DEF UnderWay, Ran
  <2>2. t # None
    <3>1. t \in R.opts.sel BY <1>1, <2>1 DEF RanOn, KeysOK
    <3> QED BY <1>1, <3>1, SelIsTests DEF PlaceOK
  <2>3. ASSUME t \in DOMAIN ks
        PROVE  /\ ks[t] = <<t, BuildOf[p], R.opts.env, ks[t][4]>>
               /\ \E W : Covers(ks[t][4], DOMAIN ks[t][4], t, BuildOf[p], W, B, S, C)
    <3>1. CASE t = R.cur
      <4>1. ks[t] = k /\ k[4] = R.rows BY <1>4, <3>1
      <4>2. DOMAIN R.rows \cup R.left = DOMAIN R.rows OBVIOUS
      <4>3. \E W : Covers(R.rows, DOMAIN R.rows, t, BuildOf[p], W, B, S, C)
        BY <2>1, <3>1, <4>2 DEF RanOn
      <4> QED BY <3>1, <4>1, <4>3
    <3>2. CASE t # R.cur
      <4>1. t \in DOMAIN R.after /\ ks[t] = R.after[t] BY <1>4, <2>3, <3>2
      <4> QED BY <2>1, <4>1 DEF RanOn
    <3> QED BY <3>1, <3>2
  <2>4. RanOn(R2, p, t, B, S, C, Z) BY <1>3, <2>1, <2>2, <2>3 DEF RanOn
  <2> QED BY <2>4 DEF Ran
<1> QED BY <1>3, <1>5, <1>6, <1>7, <1>8 DEF UnderWay

(* A row: remembered of a directory in this phase, or of the tree as it is. *)
RowNow(f, v, R, C, Z) ==
  \/ f \in DOMAIN R.trees /\ v = R.trees[f]
  \/ f \in Outside /\ v = Z[f]
  \/ f \notin Outside /\ v = DigestOf(f, C[f])

LEMMA RowUnderWay ==
  ASSUME NEW p \in Procs, NEW C, Tree(C), NEW Z \in [Files -> Nat], NEW j,
         NEW R, UnderWay(R, p, C, Z, j), R.pc \in {"key", "read"},
         NEW f \in R.left, NEW v, RowNow(f, v, R, C, Z), NEW m, NEW R2,
         R2 = [R EXCEPT !.rows = Extend(@, f, v), !.left = @ \ {f}, !.pc = "key",
                        !.at = None, !.fresh = m,
                        !.trees = IF f \in InTree \cup Outside THEN Extend(@, f, v) ELSE @]
  PROVE  Fields \subseteq DOMAIN R2 /\ UnderWay(R2, p, C, Z, j)
<1>1. PlaceOK(R) /\ KeysOK(R, p, C, Z) /\ RunOK(R, j) BY DEF UnderWay
<1>2. Fields \subseteq DOMAIN R BY <1>1 DEF PlaceOK
<1> DEFINE rw == Extend(R.rows, f, v)
           tr == IF f \in InTree \cup Outside THEN Extend(R.trees, f, v) ELSE R.trees
<1>3. /\ Fields \subseteq DOMAIN R2
      /\ R2.pc = "key" /\ R2.phase = R.phase /\ R2.opts = R.opts /\ R2.todo = R.todo
      /\ R2.left = R.left \ {f} /\ R2.cur = R.cur /\ R2.keys = R.keys
      /\ R2.after = R.after /\ R2.trees = tr /\ R2.texts = R.texts /\ R2.rows = rw
      /\ R2.results = R.results
  <2>1. R2 = [R EXCEPT !.rows = rw, !.left = R.left \ {f}, !.pc = "key",
                       !.at = None, !.fresh = m, !.trees = tr]
    BY <1>2 DEF Fields
  <2> HIDE DEF rw, tr
  <2> QED BY <1>2, <2>1, ZenonT(60) DEF Fields
<1>4. DOMAIN rw = DOMAIN R.rows \cup {f} /\ rw[f] = v
      /\ \A x \in DOMAIN R.rows : x # f => rw[x] = R.rows[x]
  BY DEF Extend
<1>5. /\ DOMAIN tr \subseteq DOMAIN R.trees \cup ({f} \cap (InTree \cup Outside))
      /\ \A x \in DOMAIN tr : \/ x = f /\ tr[x] = v
                              \/ x \in DOMAIN R.trees /\ tr[x] = R.trees[x]
  BY DEF Extend
<1> HIDE DEF rw, tr
<1>6. f \in Files /\ C[f] \in Versions(f) /\ C[f] \in Nat /\ Z[f] \in Nat
  <2>1. f \in Files BY <1>1 DEF PlaceOK
  <2> QED BY <2>1 DEF Tree
<1>7. PlaceOK(R2) BY <1>1, <1>3, <1>5 DEF PlaceOK
<1>8. KeysOK(R2, p, C, Z)
  <2>1. ASSUME R.phase = "before" PROVE Before(f, v, C, Z)
    <3>1. CASE f \in DOMAIN R.trees /\ v = R.trees[f] BY <1>1, <2>1, <3>1 DEF KeysOK
    <3>2. CASE f \in Outside /\ v = Z[f] BY <1>6, <3>2 DEF Before
    <3>3. CASE f \notin Outside /\ v = DigestOf(f, C[f])
      <4>1. C[f] <= C[f] BY <1>6
      <4> QED BY <1>6, <3>3, <4>1 DEF Before
    <3> QED BY <3>1, <3>2, <3>3 DEF RowNow
  <2>2. ASSUME R.phase = "before"
        PROVE  /\ \A x \in DOMAIN tr : Before(x, tr[x], C, Z)
               /\ RowsBefore(rw, C, Z)
    <3>1. \A x \in DOMAIN tr : Before(x, tr[x], C, Z)
      BY <1>1, <1>5, <2>1, <2>2 DEF KeysOK
    <3>2. RowsBefore(R.rows, C, Z) BY <1>1, <2>2 DEF KeysOK
    <3>3. ASSUME NEW x \in DOMAIN rw PROVE x \in Files /\ Before(x, rw[x], C, Z)
      BY <1>4, <1>6, <2>1, <2>2, <3>2 DEF RowsBefore
    <3> QED BY <3>1, <3>3 DEF RowsBefore
  <2> QED BY <1>1, <1>3, <2>2 DEF KeysOK
<1>9. RunOK(R2, j) BY <1>1, <1>3 DEF RunOK
<1>10. ASSUME NEW t \in DOMAIN R2.results PROVE Ran(R2, p, t, C, Z)
  <2>1. PICK B, S : RanOn(R, p, t, B, S, C, Z) BY <1>3 DEF UnderWay, Ran
  <2>2. B[f] \in Nat /\ S[f] \in Nat /\ B[f] <= C[f] /\ S[f] <= Z[f]
    BY <1>6, <2>1 DEF RanOn, Grew, Tree
  <2>3. ASSUME R.phase = "after" PROVE After(f, v, B, S)
    <3>1. CASE f \in DOMAIN R.trees /\ v = R.trees[f] BY <2>1, <2>3, <3>1 DEF RanOn
    <3>2. CASE f \in Outside /\ v = Z[f] BY <1>6, <2>2, <3>2 DEF After
    <3>3. CASE f \notin Outside /\ v = DigestOf(f, C[f])
      BY <1>6, <2>2, <3>3 DEF After
    <3> QED BY <3>1, <3>2, <3>3 DEF RowNow
  <2>4. ASSUME R.phase = "after"
        PROVE  \A x \in DOMAIN tr : After(x, tr[x], B, S)
    BY <1>5, <2>1, <2>3, <2>4 DEF RanOn
  <2>5. ASSUME R.phase = "after", R.cur = t
        PROVE  \E W : Covers(rw, DOMAIN rw \cup (R.left \ {f}), t, BuildOf[p], W, B, S, C)
    <3>1. PICK W : Covers(R.rows, DOMAIN R.rows \cup R.left, t, BuildOf[p], W, B, S, C)
      BY <2>1, <2>5 DEF RanOn
    <3>2. DOMAIN rw \cup (R.left \ {f}) = DOMAIN R.rows \cup R.left BY <1>4
    <3>3. After(f, v, W, S)
      <4>1. W[f] <= C[f] /\ (f \in InTree => W[f] = B[f]) BY <1>6, <3>1 DEF Covers
      <4>2. CASE f \in DOMAIN R.trees
        <5>1. f \in InTree \cup Outside BY <1>1, <4>2 DEF PlaceOK
        <5>2. After(f, v, B, S) BY <2>3, <2>5
        <5>3. f \notin Outside => W[f] = B[f] BY <4>1, <5>1
        <5> QED BY <5>2, <5>3 DEF After
      <4>3. CASE f \in Outside /\ v = Z[f] BY <1>6, <2>2, <4>3 DEF After
      <4>4. CASE f \notin Outside /\ v = DigestOf(f, C[f])
        BY <1>6, <4>1, <4>4 DEF After
      <4> QED BY <4>2, <4>3, <4>4 DEF RowNow
    <3>4. \A x \in DOMAIN rw : After(x, rw[x], W, S) BY <1>4, <3>1, <3>3 DEF Covers
    <3>5. Covers(rw, DOMAIN rw \cup (R.left \ {f}), t, BuildOf[p], W, B, S, C)
      BY <3>1, <3>2, <3>4 DEF Covers
    <3> QED BY <3>5
  <2>6. R2.phase = "after" /\ R2.cur = t
          => \E W : Covers(R2.rows, DOMAIN R2.rows \cup R2.left, t, BuildOf[p], W, B, S, C)
    BY <1>3, <2>5
  <2>7. R2.phase = "after" => \A x \in DOMAIN R2.trees : After(x, R2.trees[x], B, S)
    BY <1>3, <2>4
  <2>8. RanOn(R2, p, t, B, S, C, Z) BY <1>3, <2>1, <2>6, <2>7, SMTT(30) DEF RanOn
  <2> QED BY <2>8 DEF Ran
<1> QED BY <1>3, <1>7, <1>8, <1>9, <1>10 DEF UnderWay

(* A fingerprint is begun: the scripts say what it is taken of, each as it  *)
(* was first read in this phase.                                            *)
TextsIn(R, C) == Override(TextOf(C), R.texts)
ReachIn(t, b, R, C) ==
  LET S == Closed(Direct(t, b), TextsIn(R, C))
  IN S \cup UNION {Named(x, C[x]) : x \in S \cap Binaries}

LEMMA TextsInDomain ==
  ASSUME NEW R, NEW C, DOMAIN R.texts \subseteq Scripts
  PROVE  TextsIn(R, C) = [s \in Scripts |-> IF s \in DOMAIN R.texts THEN R.texts[s]
                                            ELSE Named(s, C[s])]
<1>1. DOMAIN TextOf(C) = Scripts /\ \A s \in Scripts : TextOf(C)[s] = Named(s, C[s])
  BY DEF TextOf
<1>2. Scripts \cup DOMAIN R.texts = Scripts OBVIOUS
<1>3. TextsIn(R, C) = [s \in Scripts |-> IF s \in DOMAIN R.texts THEN R.texts[s]
                                         ELSE TextOf(C)[s]]
  BY <1>1, <1>2 DEF TextsIn, Override
<1> QED BY <1>1, <1>3

LEMMA ReachInFiles ==
  ASSUME NEW t \in Tests, NEW b \in Builds, NEW C, Tree(C), NEW R, PlaceOK(R)
  PROVE  ReachIn(t, b, R, C) \subseteq Files
<1>1. \A f \in Scripts \cup Binaries : Named(f, C[f]) \subseteq Files
  BY KindsAssumption DEF Tree, Files
<1>2. Direct(t, b) \subseteq Files BY KindsAssumption
<1>3. \A s \in Scripts : TextsIn(R, C)[s] \subseteq Files
  BY <1>1, TextsInDomain DEF PlaceOK
<1>4. Closed(Direct(t, b), TextsIn(R, C)) \subseteq Files BY <1>2, <1>3, ClosedInFiles
<1> QED BY <1>1, <1>4 DEF ReachIn

(* What is reached in the second phase is what the files name in versions   *)
(* not older than the tree the test ran on.                                 *)
LEMMA ReachIsInputs ==
  ASSUME NEW p \in Procs, NEW C, Tree(C), NEW Z \in [Files -> Nat], NEW R, PlaceOK(R),
         NEW x, NEW B, NEW S, RanOn(R, p, x, B, S, C, Z), R.phase = "after",
         NEW t, NEW b
  PROVE  \E W : Covers(Nothing, ReachIn(t, b, R, C), t, b, W, B, S, C)
<1> DEFINE From(s, w) == B[s] <= w /\ w <= C[s] /\ R.texts[s] = Named(s, w)
           Read(s) == CHOOSE w \in Versions(s) : From(s, w)
           W == [f \in Files |-> IF f \in DOMAIN R.texts THEN Read(f)
                                 ELSE IF f \in Scripts \cup Binaries THEN C[f] ELSE B[f]]
<1>1. \A s \in DOMAIN R.texts : Read(s) \in Versions(s) /\ From(s, Read(s))
  <2> SUFFICES ASSUME NEW s \in DOMAIN R.texts
               PROVE  Read(s) \in Versions(s) /\ From(s, Read(s))
    OBVIOUS
  <2>1. \E w \in Versions(s) : From(s, w) BY DEF RanOn
  <2> HIDE DEF From
  <2> QED BY <2>1
<1> HIDE DEF Read
<1>2. DOMAIN R.texts \subseteq Scripts BY DEF PlaceOK
<1>3. Tree(B) /\ Grew(B, S, C, Z) BY DEF RanOn
<1>4. ASSUME NEW f \in Files
      PROVE  /\ W[f] \in Versions(f) /\ W[f] \in Nat
             /\ B[f] <= W[f] /\ W[f] <= C[f] /\ (f \in InTree => W[f] = B[f])
  <2>1. /\ B[f] \in Versions(f) /\ C[f] \in Versions(f) /\ B[f] <= C[f]
        /\ B[f] \in Nat /\ C[f] \in Nat
    BY <1>3 DEF Tree, Grew
  <2>2. CASE f \in DOMAIN R.texts
    <3>1. W[f] = Read(f) BY <2>2
    <3>2. W[f] \in Versions(f) /\ B[f] <= W[f] /\ W[f] <= C[f] BY <1>1, <2>2, <3>1
    <3>3. f \notin InTree BY <1>2, <2>2, KindsAssumption
    <3>4. W[f] \in Nat BY <3>2, VersionsAreNat
    <3> QED BY <3>2, <3>3, <3>4
  <2>3. CASE f \notin DOMAIN R.texts /\ f \in Scripts \cup Binaries
    <3>1. W[f] = C[f] BY <2>3
    <3>2. f \notin InTree BY <2>3, KindsAssumption
    <3>3. C[f] <= C[f] BY <2>1
    <3> QED BY <2>1, <3>1, <3>2, <3>3
  <2>4. CASE f \notin DOMAIN R.texts /\ f \notin Scripts \cup Binaries
    <3>1. W[f] = B[f] BY <2>4
    <3>2. B[f] <= B[f] BY <2>1
    <3> QED BY <2>1, <3>1, <3>2
  <2> QED BY <2>2, <2>3, <2>4
<1>5. \A s \in Scripts : Named(s, W[s]) = IF s \in DOMAIN R.texts THEN R.texts[s]
                                          ELSE Named(s, C[s])
  BY <1>1 DEF Files
<1>6. \A s \in Binaries : W[s] = C[s]
  BY <1>2, KindsAssumption DEF Files
<1>7. W = [f \in Files |-> W[f]] OBVIOUS
<1> HIDE DEF W
<1>8. Tree(W) BY <1>4, <1>7 DEF Tree
<1>9. TextOf(W) = TextsIn(R, C) BY <1>2, <1>5, TextsInDomain DEF TextOf
<1>10. InputsOf(t, b, W) = ReachIn(t, b, R, C)
  <2> DEFINE K == Closed(Direct(t, b), TextOf(W))
  <2>1. {Named(s, W[s]) : s \in K \cap Binaries} = {Named(s, C[s]) : s \in K \cap Binaries}
    <3> HIDE DEF K
    <3> QED BY <1>6
  <2> QED BY <1>9, <2>1 DEF InputsOf, ReachIn
<1>11. DOMAIN Nothing = {} BY DEF Nothing
<1>12. Covers(Nothing, ReachIn(t, b, R, C), t, b, W, B, S, C)
  BY <1>4, <1>8, <1>10, <1>11 DEF Covers
<1> QED BY <1>12

LEMMA BeginUnderWay ==
  ASSUME NEW p \in Procs, NEW C, Tree(C), NEW Z \in [Files -> Nat], NEW j,
         NEW R, UnderWay(R, p, C, Z, j), R.pc = "key", R.left = {}, R.cur = None,
         NEW t \in R.todo, NEW r, r = ReachIn(t, BuildOf[p], R, C), NEW R2,
         R2 = [R EXCEPT !.cur = t, !.todo = @ \ {t}, !.left = r, !.rows = Nothing,
                        !.texts = Override([s \in r \cap Scripts |-> TextsIn(R, C)[s]], @)]
  PROVE  Fields \subseteq DOMAIN R2 /\ UnderWay(R2, p, C, Z, j)
<1>1. PlaceOK(R) /\ KeysOK(R, p, C, Z) /\ RunOK(R, j) BY DEF UnderWay
<1>2. Fields \subseteq DOMAIN R BY <1>1 DEF PlaceOK
<1> DEFINE read == [s \in r \cap Scripts |-> TextsIn(R, C)[s]]
           tx == Override(read, R.texts)
<1>3. /\ Fields \subseteq DOMAIN R2
      /\ R2.pc = "key" /\ R2.phase = R.phase /\ R2.opts = R.opts /\ R2.todo = R.todo \ {t}
      /\ R2.left = r /\ R2.cur = t /\ R2.keys = R.keys
      /\ R2.after = R.after /\ R2.trees = R.trees /\ R2.texts = tx /\ R2.rows = Nothing
      /\ R2.results = R.results
  <2>1. R2 = [R EXCEPT !.cur = t, !.todo = R.todo \ {t}, !.left = r, !.rows = Nothing,
                       !.texts = tx]
    BY <1>2 DEF Fields
  <2> HIDE DEF tx
  <2> QED BY <1>2, <2>1 DEF Fields
<1>4. t \in R.opts.sel /\ t \in Tests /\ t # None /\ None \notin R.opts.sel
  BY <1>1, SelIsTests DEF PlaceOK
<1>5. BuildOf[p] \in Builds BY DEF Builds
<1>6. r \subseteq Files BY <1>1, <1>4, <1>5, ReachInFiles
<1>7. DOMAIN R.texts \subseteq Scripts BY <1>1 DEF PlaceOK
<1>8. /\ DOMAIN tx \subseteq Scripts
      /\ \A s \in DOMAIN tx : \/ s \in DOMAIN R.texts /\ tx[s] = R.texts[s]
                              \/ s \in Scripts /\ tx[s] = Named(s, C[s])
  <2>1. \A s \in Scripts : TextsIn(R, C)[s] = IF s \in DOMAIN R.texts THEN R.texts[s]
                                              ELSE Named(s, C[s])
    BY <1>7, TextsInDomain
  <2>2. DOMAIN read = r \cap Scripts
        /\ \A s \in r \cap Scripts : read[s] = TextsIn(R, C)[s]
    OBVIOUS
  <2> HIDE DEF read
  <2> QED BY <1>7, <2>1, <2>2 DEF Override
<1> HIDE DEF tx
<1>9. \A s \in DOMAIN tx : tx[s] \subseteq Files
  <2>1. \A s \in Scripts : Named(s, C[s]) \subseteq Files
    BY KindsAssumption DEF Tree, Files
  <2> QED BY <1>1, <1>8, <2>1 DEF PlaceOK
<1>10. PlaceOK(R2) BY <1>1, <1>3, <1>4, <1>6, <1>8, <1>9 DEF PlaceOK
<1>11. DOMAIN Nothing = {} BY DEF Nothing
<1>12. KeysOK(R2, p, C, Z)
  <2>1. RowsBefore(Nothing, C, Z) BY <1>11 DEF RowsBefore
  <2>2. R.opts.sel \subseteq DOMAIN R.keys
        \/ R.opts.sel \subseteq DOMAIN R.keys \cup (R.todo \ {t}) \cup {t}
    BY <1>1, <1>4 DEF KeysOK
  <2> QED BY <1>1, <1>3, <2>1, <2>2 DEF KeysOK
<1>13. RunOK(R2, j) BY <1>1, <1>3 DEF RunOK
<1>14. ASSUME NEW x \in DOMAIN R2.results PROVE Ran(R2, p, x, C, Z)
  <2>1. PICK B, S : RanOn(R, p, x, B, S, C, Z) BY <1>3 DEF UnderWay, Ran
  <2>2. ASSUME R.phase = "after"
        PROVE  \A s \in DOMAIN tx : \E w \in Versions(s) :
                 B[s] <= w /\ w <= C[s] /\ tx[s] = Named(s, w)
    <3> SUFFICES ASSUME NEW s \in DOMAIN tx
                 PROVE  \E w \in Versions(s) : B[s] <= w /\ w <= C[s] /\ tx[s] = Named(s, w)
      OBVIOUS
    <3>1. CASE s \in DOMAIN R.texts /\ tx[s] = R.texts[s] BY <2>1, <2>2, <3>1 DEF RanOn
    <3>2. CASE s \in Scripts /\ tx[s] = Named(s, C[s])
      <4>1. s \in Files BY <3>2 DEF Files
      <4>2. C[s] \in Versions(s) /\ C[s] \in Nat /\ B[s] <= C[s]
        BY <2>1, <4>1 DEF RanOn, Grew, Tree
      <4>3. C[s] <= C[s] BY <4>2
      <4> QED BY <3>2, <4>2, <4>3
    <3> QED BY <1>8, <3>1, <3>2
  <2>3. ASSUME R.phase = "after", x = t
        PROVE  \E W : Covers(Nothing, DOMAIN Nothing \cup r, x, BuildOf[p], W, B, S, C)
    <3>1. DOMAIN Nothing \cup r = ReachIn(t, BuildOf[p], R, C) BY <1>11
    <3>2. \E W : Covers(Nothing, ReachIn(t, BuildOf[p], R, C), t, BuildOf[p], W, B, S, C)
      BY <1>1, <2>1, <2>3, ReachIsInputs
    <3> QED BY <2>3, <3>1, <3>2
  <2>4. RanOn(R2, p, x, B, S, C, Z) BY <1>3, <2>1, <2>2, <2>3 DEF RanOn
  <2> QED BY <2>4 DEF Ran
<1> QED BY <1>3, <1>10, <1>12, <1>13, <1>14 DEF UnderWay
-----------------------------------------------------------------------------
(* The same steps, in the system.                                           *)

LEMMA BuildsDiffer ==
  ASSUME HInv, NEW p \in Procs, NEW q \in Procs, q # p
  PROVE  BuildOf[q] # BuildOf[p]
BY DEF HInv, OwnBuilds

(* A step of one invocation that rewrites no file.                          *)
LEMMA OneStep ==
  ASSUME HInv, UNCHANGED disk, NEW p \in Procs,
         \A q \in Procs : q # p => inv'[q] = inv[q],
         junit' = [b \in Builds |-> junit'[b]],
         \A q \in Procs : q # p => junit'[BuildOf[q]] = junit[BuildOf[q]],
         \A k \in passed' : k \in passed \/ Earned(k, bytes, stamp),
         Fields \subseteq DOMAIN inv'[p],
         inv'[p].pc = "idle" \/ UnderWay(inv'[p], p, bytes, stamp, junit'[BuildOf[p]])
  PROVE  HInv'
<1>1. bytes' = bytes /\ stamp' = stamp BY DEF disk
<1>2. Tree(bytes') BY <1>1 DEF HInv
<1>3. \A k \in passed' : Earned(k, bytes', stamp') BY <1>1 DEF HInv
<1>4. \A q \in Procs : /\ Fields \subseteq DOMAIN inv'[q]
                       /\ inv'[q].pc = "idle"
                          \/ UnderWay(inv'[q], q, bytes', stamp', junit'[BuildOf[q]])
  <2> SUFFICES ASSUME NEW q \in Procs
               PROVE  /\ Fields \subseteq DOMAIN inv'[q]
                      /\ inv'[q].pc = "idle"
                         \/ UnderWay(inv'[q], q, bytes', stamp', junit'[BuildOf[q]])
    OBVIOUS
  <2>1. CASE q = p BY <1>1, <2>1
  <2>2. CASE q # p BY <1>1, <2>2 DEF HInv
  <2> QED BY <2>1, <2>2
<1> QED BY <1>2, <1>3, <1>4 DEF HInv

(* A step that changes nothing but the record of the invocation.            *)
LEMMA RecordStep ==
  ASSUME IInv, HInv, UNCHANGED <<disk, passed, junit>>, NEW p \in Procs, NEW R2,
         inv' = [inv EXCEPT ![p] = R2], Fields \subseteq DOMAIN R2,
         R2.pc = "idle" \/ UnderWay(R2, p, bytes, stamp, junit[BuildOf[p]])
  PROVE  HInv'
<1>1. inv'[p] = R2 /\ \A q \in Procs : q # p => inv'[q] = inv[q] BY DEF IInv
<1>2. junit' = [b \in Builds |-> junit'[b]] BY DEF HInv
<1> QED BY <1>1, <1>2, OneStep

LEMMA FreshFields == Fields \subseteq DOMAIN Fresh /\ Fresh.pc = "idle"
BY DEF Fields, Fresh

LEMMA EndStep ==
  ASSUME IInv, HInv, UNCHANGED <<disk, passed, junit>>, NEW p \in Procs,
         inv' = [inv EXCEPT ![p] = Fresh]
  PROVE  HInv'
BY FreshFields, RecordStep

(* An invocation that is at some point of its work is under way.            *)
LEMMA Working ==
  ASSUME HInv, NEW p \in Procs, inv[p].pc # "idle"
  PROVE  UnderWay(inv[p], p, bytes, stamp, junit[BuildOf[p]])
BY DEF HInv

LEMMA DiskTypes == ASSUME IInv, HInv PROVE Tree(bytes) /\ stamp \in [Files -> Nat]
BY DEF IInv, DiskOK, HInv

LEMMA StartHolds == ASSUME IInv, HInv, NEW p \in Procs, Start(p) PROVE HInv'
<1> DEFINE m == IF memo \in {None, Torn} THEN Nothing ELSE memo
<1>1. PICK o \in Requests :
        inv' = [inv EXCEPT ![p] = [Fresh EXCEPT !.pc = "key", !.opts = o, !.todo = o.sel,
                                   !.known = m, !.left = Exes(BuildOf[p])]]
  BY DEF Start
<1> HIDE DEF m
<1> DEFINE R2 == [Fresh EXCEPT !.pc = "key", !.opts = o, !.todo = o.sel,
                               !.known = m, !.left = Exes(BuildOf[p])]
<1>2. Fields \subseteq DOMAIN R2 /\ UnderWay(R2, p, bytes, stamp, junit[BuildOf[p]])
  BY StartUnderWay
<1>3. inv' = [inv EXCEPT ![p] = R2] BY <1>1
<1> HIDE DEF R2
<1> QED BY <1>2, <1>3, RecordStep DEF Start

LEMMA BeginKeyHolds == ASSUME IInv, HInv, NEW p \in Procs, BeginKey(p) PROVE HInv'
<1> DEFINE R == inv[p]
<1>1. PICK t \in R.todo :
        LET r == Reach(t, BuildOf[p], TextNow(p))
        IN inv' = [inv EXCEPT ![p].cur = t, ![p].todo = @ \ {t}, ![p].left = r,
                             ![p].rows = Nothing,
                             ![p].texts = Override([s \in r \cap Scripts |-> TextNow(p)[s]], @)]
  BY DEF BeginKey
<1> DEFINE r == Reach(t, BuildOf[p], TextNow(p))
           R2 == [R EXCEPT !.cur = t, !.todo = @ \ {t}, !.left = r, !.rows = Nothing,
                        !.texts = Override([s \in r \cap Scripts |-> TextsIn(R, bytes)[s]], @)]
<1>2. TextNow(p) = TextsIn(R, bytes) BY DEF TextNow, TrueText, TextsIn, TextOf
<1>3. r = ReachIn(t, BuildOf[p], R, bytes) BY <1>2 DEF Reach, ReachIn
<1>4. inv' = [inv EXCEPT ![p] = R2]
  <2> HIDE DEF r
  <2>1. inv' = [inv EXCEPT ![p].cur = t, ![p].todo = @ \ {t}, ![p].left = r,
                           ![p].rows = Nothing,
                           ![p].texts = Override([s \in r \cap Scripts |-> TextsIn(R, bytes)[s]], @)]
    BY <1>1, <1>2 DEF r
  <2> QED BY <2>1
<1>5. R.pc = "key" /\ R.left = {} /\ R.cur = None BY DEF BeginKey
<1>6. UnderWay(R, p, bytes, stamp, junit[BuildOf[p]]) BY <1>5, Working
<1> HIDE DEF r, R
<1>7. Fields \subseteq DOMAIN R2 /\ UnderWay(R2, p, bytes, stamp, junit[BuildOf[p]])
  BY <1>3, <1>5, <1>6, DiskTypes, BeginUnderWay
<1> HIDE DEF R2
<1> QED BY <1>4, <1>7, RecordStep DEF BeginKey

LEMMA AddRowHolds ==
  ASSUME IInv, HInv, UNCHANGED <<disk, passed, junit>>, NEW p \in Procs,
         inv[p].pc \in {"key", "read"}, NEW f \in inv[p].left, NEW v, NEW m,
         RowNow(f, v, inv[p], bytes, stamp), inv' = AddRow(p, f, v, m)
  PROVE  HInv'
<1> DEFINE R == inv[p]
           R2 == [R EXCEPT !.rows = Extend(@, f, v), !.left = @ \ {f}, !.pc = "key",
                        !.at = None, !.fresh = m,
                        !.trees = IF f \in InTree \cup Outside THEN Extend(@, f, v) ELSE @]
<1>1. inv' = [inv EXCEPT ![p] = R2] BY DEF AddRow
<1>2. UnderWay(R, p, bytes, stamp, junit[BuildOf[p]]) BY Working
<1> HIDE DEF R
<1>3. R.pc \in {"key", "read"} /\ f \in R.left /\ RowNow(f, v, R, bytes, stamp) BY DEF R
<1> HIDE DEF R2
<1>4. R2 = [R EXCEPT !.rows = Extend(@, f, v), !.left = @ \ {f}, !.pc = "key",
                     !.at = None, !.fresh = m,
                     !.trees = IF f \in InTree \cup Outside THEN Extend(@, f, v) ELSE @]
  BY DEF R2
<1>5. Tree(bytes) /\ stamp \in [Files -> Nat] BY DiskTypes
<1>6. Fields \subseteq DOMAIN R2 /\ UnderWay(R2, p, bytes, stamp, junit[BuildOf[p]])
  BY ONLY <1>2, <1>3, <1>4, <1>5, RowUnderWay, p \in Procs, ZenonT(120)
<1> QED BY <1>1, <1>6, RecordStep

LEMMA TakeRowHolds == ASSUME IInv, HInv, NEW p \in Procs, TakeRow(p) PROVE HInv'
<1> DEFINE f == NextFile(p)
           r == Remembered(p, f)
<1>1. inv[p].pc = "key" /\ inv[p].left # {} /\ UNCHANGED <<disk, passed, junit>>
  BY DEF TakeRow
<1>2. f \in inv[p].left BY <1>1 DEF NextFile
<1>3. f \in Files BY <1>1, <1>2, Working DEF UnderWay, PlaceOK
<1>4. CASE f \in DOMAIN inv[p].trees /\ inv' = AddRow(p, f, inv[p].trees[f], inv[p].fresh)
  <2>1. RowNow(f, inv[p].trees[f], inv[p], bytes, stamp) BY <1>4 DEF RowNow
  <2> HIDE DEF f
  <2> QED BY <1>1, <1>2, <1>4, <2>1, AddRowHolds
<1>5. CASE f \in Outside /\ inv' = AddRow(p, f, stamp[f], inv[p].fresh)
  <2>1. RowNow(f, stamp[f], inv[p], bytes, stamp) BY <1>5 DEF RowNow
  <2> HIDE DEF f
  <2> QED BY <1>1, <1>2, <1>5, <2>1, AddRowHolds
<1>6. CASE /\ f \notin Outside /\ r # None
           /\ inv' = AddRow(p, f, r.digest, Extend(inv[p].fresh, f, r))
  <2>1. Dated(inv[p].fresh) /\ Dated(inv[p].known) BY DEF IInv, InvocationOK
  <2>2. r.stamp = stamp[f] /\ Entry(r, f)
    BY <1>3, <1>6, <2>1 DEF Remembered, Dated
  <2>3. r.digest = DigestOf(f, bytes[f]) BY <2>2 DEF Entry
  <2>4. RowNow(f, r.digest, inv[p], bytes, stamp) BY <1>6, <2>3 DEF RowNow
  <2> HIDE DEF f, r
  <2> QED BY <1>1, <1>2, <1>6, <2>4, AddRowHolds
<1> QED BY <1>4, <1>5, <1>6 DEF TakeRow

LEMMA StatFileHolds == ASSUME IInv, HInv, NEW p \in Procs, StatFile(p) PROVE HInv'
<1> DEFINE R == inv[p]
           R2 == [R EXCEPT !.at = stamp[NextFile(p)], !.pc = "read"]
<1>1. inv' = [inv EXCEPT ![p] = R2] BY DEF StatFile
<1>2. R.pc = "key" /\ R.left # {} /\ FirstOf(R.left) \notin Outside
  BY DEF StatFile, FirstOf, NextFile
<1>3. UnderWay(R, p, bytes, stamp, junit[BuildOf[p]]) BY <1>2, Working
<1> HIDE DEF R
<1>4. Fields \subseteq DOMAIN R2 /\ UnderWay(R2, p, bytes, stamp, junit[BuildOf[p]])
  BY <1>2, <1>3, StatUnderWay
<1> HIDE DEF R2
<1> QED BY <1>1, <1>4, RecordStep DEF StatFile

LEMMA ReadFileHolds == ASSUME IInv, HInv, NEW p \in Procs, ReadFile(p) PROVE HInv'
<1> DEFINE f == NextFile(p)
           v == DigestOf(f, bytes[f])
           m == Extend(inv[p].fresh, f, HashedUnder(p, f))
<1>1. inv[p].pc = "read" /\ UNCHANGED <<disk, passed, junit>> /\ inv' = AddRow(p, f, v, m)
  BY DEF ReadFile
<1>2. inv[p].left # {} /\ FirstOf(inv[p].left) \notin Outside
  BY <1>1, Working DEF UnderWay, PlaceOK
<1>3. f \in inv[p].left /\ f \notin Outside BY <1>2 DEF NextFile, FirstOf
<1>4. RowNow(f, v, inv[p], bytes, stamp) BY <1>3 DEF RowNow
<1> HIDE DEF f, v, m
<1> QED BY <1>1, <1>3, <1>4, AddRowHolds

LEMMA EndKeyHolds == ASSUME IInv, HInv, NEW p \in Procs, EndKey(p) PROVE HInv'
<1> DEFINE R == inv[p]
           k == Fingerprint(R.cur, BuildOf[p], R.opts.env, R.rows)
           A2 == [R EXCEPT !.cur = None, !.keys = Extend(@, R.cur, k)]
           B2 == [R EXCEPT !.cur = None, !.after = Extend(@, R.cur, k)]
<1>1. R.pc = "key" /\ R.left = {} /\ R.cur # None BY DEF EndKey
<1>2. UnderWay(R, p, bytes, stamp, junit[BuildOf[p]]) BY <1>1, Working
<1>3. k = <<R.cur, BuildOf[p], R.opts.env, R.rows>> BY DEF Fingerprint
<1>4. CASE R.phase = "before"
  <2>1. inv' = [inv EXCEPT ![p].cur = None, ![p].keys = Extend(@, inv[p].cur, k)]
    BY <1>4 DEF EndKey
  <2> HIDE DEF k
  <2>2. inv' = [inv EXCEPT ![p] = A2] BY <2>1
  <2> HIDE DEF R
  <2>3. Fields \subseteq DOMAIN A2 /\ UnderWay(A2, p, bytes, stamp, junit[BuildOf[p]])
    BY <1>1, <1>2, <1>3, <1>4, FirstKeyUnderWay
  <2> HIDE DEF A2
  <2> QED BY <2>2, <2>3, RecordStep DEF EndKey
<1>5. CASE R.phase # "before"
  <2>1. R.phase = "after" BY <1>2, <1>5 DEF UnderWay, PlaceOK
  <2>2. inv' = [inv EXCEPT ![p].cur = None, ![p].after = Extend(@, inv[p].cur, k)]
    BY <1>5 DEF EndKey
  <2> HIDE DEF k
  <2>3. inv' = [inv EXCEPT ![p] = B2] BY <2>2
  <2> HIDE DEF R
  <2>4. Fields \subseteq DOMAIN B2 /\ UnderWay(B2, p, bytes, stamp, junit[BuildOf[p]])
    BY <1>1, <1>2, <1>3, <2>1, SecondKeyUnderWay
  <2> HIDE DEF B2
  <2> QED BY <2>3, <2>4, RecordStep DEF EndKey
<1> QED BY <1>4, <1>5

LEMMA WriteTmpHolds == ASSUME IInv, HInv, NEW p \in Procs, WriteTmp(p) PROVE HInv'
<1> DEFINE R == inv[p]
           R2 == [R EXCEPT !.pc = "replace", !.known = SavedMemo(p)]
<1>1. inv' = [inv EXCEPT ![p] = R2] BY DEF WriteTmp
<1>2. R.pc = "key" /\ R.cur = None /\ R.todo = {} BY DEF WriteTmp
<1>3. UnderWay(R, p, bytes, stamp, junit[BuildOf[p]]) BY <1>2, Working
<1> HIDE DEF R
<1>4. Fields \subseteq DOMAIN R2 /\ UnderWay(R2, p, bytes, stamp, junit[BuildOf[p]])
  BY <1>2, <1>3, SaveUnderWay
<1> HIDE DEF R2
<1> QED BY <1>1, <1>4, RecordStep DEF WriteTmp

LEMMA ReplaceMemoHolds == ASSUME IInv, HInv, NEW p \in Procs, ReplaceMemo(p) PROVE HInv'
<1>1. CASE inv' = [inv EXCEPT ![p] = Fresh] BY <1>1, EndStep DEF ReplaceMemo
<1>2. CASE Step(p, IF inv[p].phase = "before" THEN "decide" ELSE "record")
  <2> DEFINE R == inv[p]
             R2 == [R EXCEPT !.pc = IF R.phase = "before" THEN "decide" ELSE "record"]
  <2>1. inv' = [inv EXCEPT ![p] = R2] BY <1>2 DEF Step
  <2>2. R.pc = "replace" BY DEF ReplaceMemo
  <2>3. UnderWay(R, p, bytes, stamp, junit[BuildOf[p]]) BY <2>2, Working
  <2> HIDE DEF R
  <2>4. Fields \subseteq DOMAIN R2 /\ UnderWay(R2, p, bytes, stamp, junit[BuildOf[p]])
    BY <2>2, <2>3, SavedUnderWay
  <2> HIDE DEF R2
  <2> QED BY <2>1, <2>4, RecordStep DEF ReplaceMemo
<1> QED BY <1>1, <1>2 DEF ReplaceMemo

(* A step that also replaces the result file of the invocation's build.     *)
LEMMA ResultStep ==
  ASSUME IInv, HInv, UNCHANGED <<disk, passed>>, NEW p \in Procs, NEW R2, NEW i,
         inv' = [inv EXCEPT ![p] = R2], junit' = [junit EXCEPT ![BuildOf[p]] = i],
         Fields \subseteq DOMAIN R2, UnderWay(R2, p, bytes, stamp, i)
  PROVE  HInv'
<1>1. inv'[p] = R2 /\ \A q \in Procs : q # p => inv'[q] = inv[q] BY DEF IInv
<1>2. BuildOf[p] \in Builds BY DEF Builds
<1>3. junit' = [b \in Builds |-> junit'[b]] /\ junit'[BuildOf[p]] = i
      /\ \A b \in Builds : b # BuildOf[p] => junit'[b] = junit[b]
  BY <1>2 DEF HInv
<1>4. \A q \in Procs : q # p => junit'[BuildOf[q]] = junit[BuildOf[q]]
  BY <1>3, BuildsDiffer DEF Builds
<1> QED BY <1>1, <1>3, <1>4, OneStep

LEMMA DecideHolds == ASSUME IInv, HInv, NEW p \in Procs, Decide(p) PROVE HInv'
<1> DEFINE R == inv[p]
           T == R.opts.sel \ Held(p)
           R2 == [R EXCEPT !.pc = "run", !.todo = T]
<1>1. CASE inv' = [inv EXCEPT ![p] = Fresh] /\ UNCHANGED junit
  BY <1>1, EndStep DEF Decide
<1>2. CASE /\ junit' = [junit EXCEPT ![BuildOf[p]] = None]
           /\ inv' = [inv EXCEPT ![p].pc = "run", ![p].todo = T]
  <2>1. R.pc = "decide" /\ T \subseteq R.opts.sel BY DEF Decide
  <2>2. UnderWay(R, p, bytes, stamp, junit[BuildOf[p]]) BY <2>1, Working
  <2> HIDE DEF T
  <2>3. inv' = [inv EXCEPT ![p] = R2] BY <1>2
  <2> HIDE DEF R
  <2>4. Fields \subseteq DOMAIN R2 /\ UnderWay(R2, p, bytes, stamp, None)
    BY <2>1, <2>2, DecideUnderWay
  <2> HIDE DEF R2
  <2> QED BY <1>2, <2>3, <2>4, ResultStep DEF Decide
<1> QED BY <1>1, <1>2 DEF Decide

LEMMA EndCtestHolds == ASSUME IInv, HInv, NEW p \in Procs, EndCtest(p) PROVE HInv'
<1> DEFINE R == inv[p]
           R2 == [R EXCEPT !.pc = "parse"]
<1>1. R.pc = "run" BY DEF EndCtest
<1>2. UnderWay(R, p, bytes, stamp, junit[BuildOf[p]]) BY <1>1, Working
<1>3. inv' = [inv EXCEPT ![p] = R2] BY DEF EndCtest, Step
<1>4. \/ junit' = [junit EXCEPT ![BuildOf[p]] = R.results]
      \/ UNCHANGED junit
  BY DEF EndCtest
<1> HIDE DEF R
<1>5. CASE junit' = [junit EXCEPT ![BuildOf[p]] = R.results]
  <2>1. Fields \subseteq DOMAIN R2 /\ UnderWay(R2, p, bytes, stamp, R.results)
    BY <1>1, <1>2, EndUnderWay
  <2> HIDE DEF R2
  <2> QED BY <1>3, <1>5, <2>1, ResultStep DEF EndCtest
<1>6. CASE UNCHANGED junit
  <2>1. Fields \subseteq DOMAIN R2 /\ UnderWay(R2, p, bytes, stamp, junit[BuildOf[p]])
    BY <1>1, <1>2, EndUnderWay
  <2> HIDE DEF R2
  <2> QED BY <1>3, <1>6, <2>1, RecordStep DEF EndCtest
<1> QED BY <1>4, <1>5, <1>6

LEMMA ParseHolds == ASSUME IInv, HInv, NEW p \in Procs, Parse(p) PROVE HInv'
<1> DEFINE R == inv[p]
           j == junit[BuildOf[p]]
           R2 == [R EXCEPT !.pc = "key", !.phase = "after",
                           !.todo = {t \in DOMAIN j : j[t]} \cap R.opts.sel,
                           !.trees = Nothing, !.texts = Nothing]
<1>1. CASE inv' = [inv EXCEPT ![p] = Fresh] BY <1>1, EndStep DEF Parse
<1>2. CASE j # None
  <2>1. R.pc = "parse" BY DEF Parse
  <2>2. UnderWay(R, p, bytes, stamp, j) BY <2>1, Working
  <2>3. inv' = [inv EXCEPT ![p] = R2]
    <3> DEFINE T == {t \in DOMAIN j : j[t]} \cap inv[p].opts.sel
    <3>1. inv' = [inv EXCEPT ![p].pc = "key", ![p].phase = "after", ![p].todo = T,
                             ![p].trees = Nothing, ![p].texts = Nothing]
      BY <1>2 DEF Parse, ClearedTrees
    <3>2. R2 = [R EXCEPT !.pc = "key", !.phase = "after", !.todo = T,
                         !.trees = Nothing, !.texts = Nothing]
      OBVIOUS
    <3> HIDE DEF T, R2
    <3> QED BY <3>1, <3>2
  <2> HIDE DEF R, j
  <2>4. Fields \subseteq DOMAIN R2 /\ UnderWay(R2, p, bytes, stamp, j)
    BY <1>2, <2>1, <2>2, ParseUnderWay
  <2> HIDE DEF R2
  <2>5. UnderWay(R2, p, bytes, stamp, junit[BuildOf[p]]) BY <2>4 DEF j
  <2> QED BY <2>3, <2>4, <2>5, RecordStep DEF Parse
<1> QED BY <1>1, <1>2 DEF Parse

LEMMA RecordHolds == ASSUME IInv, HInv, NEW p \in Procs, Record(p) PROVE HInv'
<1>1. CASE inv' = [inv EXCEPT ![p] = Fresh] /\ UNCHANGED passed
  BY <1>1, EndStep DEF Record
<1>2. CASE \E t \in Unmoved(p) :
             passed' = passed \cup {inv[p].keys[t]} /\ UNCHANGED inv
  <2>1. PICK t \in Unmoved(p) : passed' = passed \cup {inv[p].keys[t]} /\ UNCHANGED inv
    BY <1>2
  <2> DEFINE R == inv[p]
  <2>2. R.pc = "record" BY DEF Record
  <2>3. UnderWay(R, p, bytes, stamp, junit[BuildOf[p]]) BY <2>2, Working
  <2>4. t \in DOMAIN R.after /\ R.after[t] = R.keys[t] BY DEF Unmoved
  <2> HIDE DEF R
  <2>5. Earned(R.keys[t], bytes, stamp) BY <2>2, <2>3, <2>4, DiskTypes, UnmovedIsEarned
  <2>6. \A k \in passed' : k \in passed \/ Earned(k, bytes, stamp)
    BY <2>1, <2>5 DEF R
  <2>7. Fields \subseteq DOMAIN inv'[p]
        /\ UnderWay(inv'[p], p, bytes, stamp, junit'[BuildOf[p]])
    BY <2>1, <2>3 DEF Record, HInv, R
  <2>8. \A q \in Procs : q # p => inv'[q] = inv[q] BY <2>1
  <2>9. UNCHANGED disk /\ junit' = junit BY DEF Record
  <2>10. junit' = [b \in Builds |-> junit'[b]] BY <2>9 DEF HInv
  <2> QED BY <2>6, <2>7, <2>8, <2>9, <2>10, OneStep
<1> QED BY <1>1, <1>2 DEF Record

(* A rewrite leaves a new stamp on what it rewrites.                        *)
LEMMA RewriteStamps ==
  ASSUME IInv, NEW W,
         stamp' = [f \in Files |-> IF f \in W THEN clock + 1 ELSE stamp[f]],
         \A f \in Files : f \notin W => bytes'[f] = bytes[f]
  PROVE  /\ stamp' \in [Files -> Nat]
         /\ \A f \in Files : stamp[f] <= stamp'[f] /\ (stamp[f] = stamp'[f] => bytes[f] = bytes'[f])
<1>1. clock \in Nat /\ stamp \in [Files -> Nat] /\ \A f \in Files : stamp[f] <= clock
  BY DEF IInv, DiskOK
<1>2. stamp' \in [Files -> Nat] BY <1>1
<1>3. ASSUME NEW f \in Files
      PROVE  stamp[f] <= stamp'[f] /\ (stamp[f] = stamp'[f] => bytes[f] = bytes'[f])
  <2>1. stamp[f] \in Nat /\ stamp[f] <= clock BY <1>1
  <2>2. CASE f \in W
    <3>1. stamp'[f] = clock + 1 BY <2>2
    <3> QED BY <1>1, <2>1, <3>1
  <2>3. CASE f \notin W
    <3>1. stamp'[f] = stamp[f] /\ bytes'[f] = bytes[f] BY <2>3
    <3> QED BY <2>1, <3>1
  <2> QED BY <2>2, <2>3
<1> QED BY <1>2, <1>3

(* A step that rewrites files: what is under way sees the tree grow.        *)
LEMMA RewriteStep ==
  ASSUME IInv, HInv, Tree(bytes'), stamp' \in [Files -> Nat], UNCHANGED <<passed, junit>>,
         \A f \in Files : stamp[f] <= stamp'[f] /\ (stamp[f] = stamp'[f] => bytes[f] = bytes'[f]),
         \A q \in Procs :
           /\ Fields \subseteq DOMAIN inv'[q]
           /\ \/ inv'[q].pc = "idle"
              \/ /\ UnderWay(inv'[q], q, bytes, stamp, junit[BuildOf[q]])
                 /\ \A f \in Files : bytes[f] <= bytes'[f]
  PROVE  HInv'
<1>1. Tree(bytes) /\ stamp \in [Files -> Nat] BY DiskTypes
<1>2. \A k \in passed : Earned(k, bytes', stamp')
  BY <1>1, EarnedStays DEF HInv
<1>3. ASSUME NEW q \in Procs, UnderWay(inv'[q], q, bytes, stamp, junit[BuildOf[q]]),
             \A f \in Files : bytes[f] <= bytes'[f]
      PROVE  UnderWay(inv'[q], q, bytes', stamp', junit[BuildOf[q]])
  <2>1. Grew(bytes, stamp, bytes', stamp') BY <1>3 DEF Grew
  <2> QED BY <1>1, <1>3, <2>1, UnderWayGrows
<1>4. junit' = [b \in Builds |-> junit'[b]] BY DEF HInv
<1>5. \A q \in Procs : /\ Fields \subseteq DOMAIN inv'[q]
                       /\ inv'[q].pc = "idle"
                          \/ UnderWay(inv'[q], q, bytes', stamp', junit'[BuildOf[q]])
  BY <1>3
<1> QED BY <1>2, <1>4, <1>5 DEF HInv

LEMMA RunTestHolds == ASSUME IInv, HInv, NEW p \in Procs, RunTest(p) PROVE HInv'
<1> DEFINE R == inv[p]
<1>1. PICK t \in R.todo :
        /\ inv' = [inv EXCEPT ![p].todo = @ \ {t},
                    ![p].results = Extend(@, t, Passes(t, BuildOf[p], inv[p].opts.env))]
        /\ bytes' = [f \in Files |-> IF f \in Writes[t] /\ bytes[f] < MaxVersion[f]
                                     THEN bytes[f] + 1 ELSE bytes[f]]
        /\ stamp' = [f \in Files |-> IF f \in Writes[t] THEN clock + 1 ELSE stamp[f]]
  BY DEF RunTest
<1> DEFINE v == Passes(t, BuildOf[p], R.opts.env)
           R2 == [R EXCEPT !.todo = @ \ {t}, !.results = Extend(@, t, v)]
<1>2. R.pc = "run" BY DEF RunTest
<1>3. UnderWay(R, p, bytes, stamp, junit[BuildOf[p]]) BY <1>2, Working
<1>4. v => Outcome(t, R.opts.env, DigestsOf(t, BuildOf[p], bytes))
  BY DEF Passes, DigestsOf, TrueInputs, TrueText, InputsOf, TextOf
<1>5. inv' = [inv EXCEPT ![p] = R2]
  <2>1. inv' = [inv EXCEPT ![p].todo = @ \ {t}, ![p].results = Extend(@, t, v)] BY <1>1
  <2> HIDE DEF v
  <2> QED BY <2>1
<1>6. Tree(bytes) /\ stamp \in [Files -> Nat] BY DiskTypes
<1> HIDE DEF R, v
<1>7. Fields \subseteq DOMAIN R2 /\ UnderWay(R2, p, bytes, stamp, junit[BuildOf[p]])
  BY <1>1, <1>2, <1>3, <1>4, <1>6, RunUnderWay
<1> HIDE DEF R2
<1>8. inv'[p] = R2 /\ \A q \in Procs : q # p => inv'[q] = inv[q] BY <1>5 DEF IInv
<1>9. ASSUME NEW f \in Files
      PROVE  bytes[f] <= bytes'[f] /\ bytes'[f] \in Nat /\ bytes'[f] \in Versions(f)
  <2>1. MaxVersion[f] \in Nat /\ bytes[f] \in Nat /\ bytes[f] <= MaxVersion[f]
    <3>1. MaxVersion[f] \in Nat BY KindsAssumption
    <3> QED BY <1>6, <3>1 DEF Tree, Versions
  <2>2. bytes'[f] = IF f \in Writes[t] /\ bytes[f] < MaxVersion[f]
                    THEN bytes[f] + 1 ELSE bytes[f]
    BY <1>1
  <2>3. CASE f \in Writes[t] /\ bytes[f] < MaxVersion[f] BY <2>1, <2>2, <2>3 DEF Versions
  <2>4. CASE ~(f \in Writes[t] /\ bytes[f] < MaxVersion[f])
    BY <2>1, <2>2, <2>4 DEF Versions
  <2> QED BY <2>3, <2>4
<1>10. Tree(bytes')
  <2>1. bytes' = [f \in Files |-> bytes'[f]] BY <1>1
  <2> QED BY <1>9, <2>1 DEF Tree
<1>11. \A f \in Files : f \notin Writes[t] => bytes'[f] = bytes[f] BY <1>1
<1>12. /\ stamp' \in [Files -> Nat]
       /\ \A f \in Files : stamp[f] <= stamp'[f] /\ (stamp[f] = stamp'[f] => bytes[f] = bytes'[f])
  <2>1. stamp' = [f \in Files |-> IF f \in Writes[t] THEN clock + 1 ELSE stamp[f]] BY <1>1
  <2> QED BY <1>11, <2>1, RewriteStamps
<1>13. ASSUME NEW q \in Procs
       PROVE  /\ Fields \subseteq DOMAIN inv'[q]
              /\ \/ inv'[q].pc = "idle"
                 \/ /\ UnderWay(inv'[q], q, bytes, stamp, junit[BuildOf[q]])
                    /\ \A f \in Files : bytes[f] <= bytes'[f]
  <2>1. CASE q = p BY <1>7, <1>8, <1>9, <2>1
  <2>2. CASE q # p
    <3>1. inv'[q] = inv[q] BY <1>8, <2>2
    <3> QED BY <1>9, <3>1 DEF HInv
  <2> QED BY <2>1, <2>2
<1>14. UNCHANGED <<passed, junit>> BY DEF RunTest
<1> QED BY <1>10, <1>12, <1>13, <1>14, RewriteStep

LEMMA EditHolds == ASSUME IInv, HInv, NEW f \in Files, Edit(f), ~undone' PROVE HInv'
<1>1. PICK v \in 0..MaxVersion[f] :
        /\ bytes' = [bytes EXCEPT ![f] = v]
        /\ undone' = (undone \/ (v < bytes[f] /\ \E p \in Procs : inv[p].pc # "idle"))
  BY DEF Edit
<1>2. Tree(bytes) /\ stamp \in [Files -> Nat] BY DiskTypes
<1>3. bytes'[f] = v /\ (\A g \in Files : g # f => bytes'[g] = bytes[g])
      /\ bytes' = [g \in Files |-> bytes'[g]]
  BY <1>1, <1>2 DEF Tree
<1>4. v \in Nat /\ v \in Versions(f)
  <2>1. MaxVersion[f] \in Nat BY KindsAssumption
  <2> QED BY <2>1 DEF Versions
<1>5. \A g \in Files : bytes'[g] \in Nat /\ bytes'[g] \in Versions(g)
  BY <1>2, <1>3, <1>4 DEF Tree
<1>6. Tree(bytes') BY <1>3, <1>5 DEF Tree
<1>7. /\ stamp' \in [Files -> Nat]
      /\ \A g \in Files : stamp[g] <= stamp'[g] /\ (stamp[g] = stamp'[g] => bytes[g] = bytes'[g])
  <2>1. stamp' = [g \in Files |-> IF g \in {f} THEN clock + 1 ELSE stamp[g]]
    BY <1>2 DEF Edit
  <2>2. \A g \in Files : g \notin {f} => bytes'[g] = bytes[g] BY <1>3
  <2> QED BY <2>1, <2>2, RewriteStamps
<1>8. UNCHANGED <<passed, junit, inv>> BY DEF Edit
<1>9. ASSUME NEW q \in Procs
      PROVE  /\ Fields \subseteq DOMAIN inv'[q]
             /\ \/ inv'[q].pc = "idle"
                \/ /\ UnderWay(inv'[q], q, bytes, stamp, junit[BuildOf[q]])
                   /\ \A g \in Files : bytes[g] <= bytes'[g]
  <2>1. CASE inv[q].pc = "idle" BY <1>8, <2>1 DEF HInv
  <2>2. CASE inv[q].pc # "idle"
    <3>1. ~(v < bytes[f]) BY <1>1, <2>2
    <3>2. ASSUME NEW g \in Files PROVE bytes[g] <= bytes'[g]
      <4>1. bytes[g] \in Nat BY <1>2 DEF Tree
      <4>2. CASE g = f BY <1>3, <1>4, <3>1, <4>1, <4>2
      <4>3. CASE g # f
        <5>1. bytes'[g] = bytes[g] BY <1>3, <4>3
        <5> QED BY <4>1, <5>1
      <4> QED BY <4>2, <4>3
    <3> QED BY <1>8, <2>2, <3>2 DEF HInv
  <2> QED BY <2>1, <2>2
<1> QED BY <1>6, <1>7, <1>8, <1>9, RewriteStep
-----------------------------------------------------------------------------
LEMMA InitHolds == Init /\ OwnBuilds => HInv
<1> SUFFICES ASSUME Init, OwnBuilds PROVE HInv
  OBVIOUS
<1>1. Tree(bytes)
  <2>1. \A f \in Files : 0 \in Versions(f)
    <3> SUFFICES ASSUME NEW f \in Files PROVE 0 \in Versions(f)
      OBVIOUS
    <3>1. MaxVersion[f] \in Nat BY KindsAssumption
    <3> QED BY <3>1 DEF Versions
  <2>2. bytes = [f \in Files |-> 0] BY DEF Init
  <2> QED BY <2>1, <2>2 DEF Tree
<1>2. inv = [p \in Procs |-> Fresh] /\ passed = {} /\ junit = [b \in Builds |-> None]
  BY DEF Init
<1>3. \A p \in Procs : Fields \subseteq DOMAIN inv[p] /\ inv[p].pc = "idle"
  BY <1>2, FreshFields
<1>4. junit = [b \in Builds |-> junit[b]] BY <1>2
<1> QED BY <1>1, <1>2, <1>3, <1>4 DEF HInv

LEMMA NextHolds == IInv /\ HInv /\ [Next]_vars /\ ~undone' => HInv'
<1> SUFFICES ASSUME IInv, HInv, [Next]_vars, ~undone' PROVE HInv'
  OBVIOUS
<1>1. ASSUME NEW p \in Procs, Work(p) PROVE HInv'
  <2>1. CASE Start(p) BY <2>1, StartHolds
  <2>2. CASE BeginKey(p) BY <2>2, BeginKeyHolds
  <2>3. CASE TakeRow(p) BY <2>3, TakeRowHolds
  <2>4. CASE StatFile(p) BY <2>4, StatFileHolds
  <2>5. CASE ReadFile(p) BY <2>5, ReadFileHolds
  <2>6. CASE EndKey(p) BY <2>6, EndKeyHolds
  <2>7. CASE WriteTmp(p) BY <2>7, WriteTmpHolds
  <2>8. CASE ReplaceMemo(p) BY <2>8, ReplaceMemoHolds
  <2>9. CASE Decide(p) BY <2>9, DecideHolds
  <2>10. CASE RunTest(p) BY <2>10, RunTestHolds
  <2>11. CASE EndCtest(p) BY <2>11, EndCtestHolds
  <2>12. CASE Parse(p) BY <2>12, ParseHolds
  <2>13. CASE Record(p) BY <2>13, RecordHolds
  <2>14. CASE Crash(p) BY <2>14, EndStep DEF Crash
  <2> QED BY <1>1, <2>1, <2>2, <2>3, <2>4, <2>5, <2>6, <2>7, <2>8, <2>9, <2>10,
             <2>11, <2>12, <2>13, <2>14 DEF Work
<1>2. ASSUME NEW f \in Files, Edit(f) PROVE HInv' BY <1>2, EditHolds
<1>3. CASE UNCHANGED vars
  <2>1. bytes' = bytes /\ stamp' = stamp /\ passed' = passed /\ junit' = junit /\ inv' = inv
    BY <1>3 DEF vars, disk
  <2> QED BY <2>1 DEF HInv
<1> QED BY <1>1, <1>2, <1>3 DEF Next

(* What a file went back on is not forgotten.                               *)
LEMMA UndoneStays == [Next]_vars /\ undone => undone'
<1> SUFFICES ASSUME [Next]_vars, undone PROVE undone'
  OBVIOUS
<1>1. ASSUME NEW p \in Procs, Work(p) PROVE undone'
  BY <1>1 DEF Work, Start, BeginKey, TakeRow, StatFile, ReadFile, EndKey, WriteTmp,
       ReplaceMemo, Decide, RunTest, EndCtest, Parse, Record, Crash, disk
<1>2. ASSUME NEW f \in Files, Edit(f) PROVE undone' BY <1>2 DEF Edit
<1>3. CASE UNCHANGED vars BY <1>3 DEF vars, disk
<1> QED BY <1>1, <1>2, <1>3 DEF Next

(* The invariant, where the promise is made.                                *)
GInv == OwnBuilds /\ ~undone => HInv

LEMMA NextGuards == IInv /\ GInv /\ [Next]_vars => GInv'
<1> SUFFICES ASSUME IInv, GInv, [Next]_vars, OwnBuilds, ~undone' PROVE HInv'
  BY DEF GInv, OwnBuilds
<1>1. HInv BY UndoneStays DEF GInv
<1> QED BY <1>1, NextHolds

LEMMA GInvIsEnough == GInv => HeldIsEarned
BY EarnedIsHeld DEF GInv, HeldIsEarned

(* A pass recorded for the tree as it stands is one the test would earn on  *)
(* it, for any scripts, executables, data, tests and builds: a fingerprint  *)
(* found again after the run is the fingerprint of the files the test ran   *)
(* on, whatever is rewritten meanwhile - so long as no file went back to    *)
(* earlier bytes while an invocation was under way and no two invocations   *)
(* share a build directory (ctest_cached.py, recorded).                     *)
THEOREM HeldIsEarnedHolds == Spec => []HeldIsEarned
<1>1. Init => GInv BY InitHolds DEF GInv
<1> QED BY <1>1, InitOK, NextKeeps, NextGuards, GInvIsEnough, PTL DEF Spec
=============================================================================
