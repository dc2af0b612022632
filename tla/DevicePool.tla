----------------------------- MODULE DevicePool -----------------------------
(***************************************************************************)
(* The device memory pool and the buffers that use it (device_buffer.cuh). *)
(*                                                                         *)
(* A block is an address the driver has allocated with a size.  It is held *)
(* by one DeviceBuffer or sits idle in the free list of its class.  The    *)
(* driver may hand out an address again once it has been freed.            *)
(***************************************************************************)
EXTENDS Naturals, Sequences, FiniteSets, Functions

CONSTANTS
  Buffers,     \* DeviceBuffer objects
  Addr,        \* device addresses
  Null,        \* nullptr
  Sizes,       \* byte counts asked for
  Class,       \* classOf on Sizes
  Keep,        \* keep_ (BRAE_POOL_KEEP_STEPS)
  Exact,       \* BRAE_CONTROL_POOL_EXACT
  MaxStep      \* bound on the steps of the caller's loop

ASSUME DevicePoolAssumption ==
  /\ Null \notin Addr
  /\ Sizes \subseteq Nat \ {0} /\ IsFiniteSet(Sizes)
  /\ Class \in [Sizes -> Nat \ {0}]
  /\ Keep \in Nat \ {0} /\ MaxStep \in Nat
  /\ Exact \in BOOLEAN

VARIABLES
  d,           \* DeviceBuffer::d_
  n,           \* DeviceBuffer::n_, in bytes
  free,        \* DevicePool::free_
  heldBytes,   \* DevicePool::heldBytes_
  step,        \* DevicePool::step_
  on,          \* DevicePool::on_: not BRAE_NO_DEVICE_POOL
  size         \* the driver: the size of the block at an address, 0 if none

vars == <<d, n, free, heldBytes, step, on, size>>

Classes == {Class[s] : s \in Sizes}
Idle == [p : Addr, step : 0..MaxStep]

Init ==
  /\ d = [b \in Buffers |-> Null]
  /\ n = [b \in Buffers |-> 0]
  /\ free = [c \in Classes |-> <<>>]
  /\ heldBytes = 0
  /\ step = 0
  /\ on \in BOOLEAN
  /\ size = [a \in Addr |-> 0]

-----------------------------------------------------------------------------
(* Seeded defect: the list is a queue, so the newest are at the front.       *)
freeAfterGiveFront(b) ==
  IF d[b] # Null /\ on
  THEN [free EXCEPT ![Class[n[b]]] = <<[p |-> d[b], step |-> step]>> \o @]
  ELSE free

(* Seeded defect: the bytes of the buffer are counted, not its class.        *)
heldAfterGiveBytes(b) ==
  IF d[b] # Null /\ on THEN heldBytes + n[b] ELSE heldBytes

(* give(d_, n_): what the free list, heldBytes_ and the driver's blocks are  *)
(* after buffer b has handed its block back; d_ = nullptr gives nothing.     *)
freeAfterGive(b) ==
  IF d[b] # Null /\ on
  THEN [free EXCEPT ![Class[n[b]]] = Append(@, [p |-> d[b], step |-> step])]
  ELSE free

heldAfterGive(b) ==
  IF d[b] # Null /\ on THEN heldBytes + Class[n[b]] ELSE heldBytes

sizeAfterGive(b) ==
  IF d[b] # Null /\ ~on THEN [size EXCEPT ![d[b]] = 0] ELSE size

Holds(b, p, s) == d' = [d EXCEPT ![b] = p] /\ n' = [n EXCEPT ![b] = s]

(* The destructor (the place may be used by another object), and resize(0).  *)
Destroy(b) ==
  /\ Holds(b, Null, 0)
  /\ free' = freeAfterGive(b)
  /\ heldBytes' = heldAfterGive(b)
  /\ size' = sizeAfterGive(b)
  /\ UNCHANGED <<step, on>>

(* resize(s) hands the old block back and takes a new one: the last idle     *)
(* block of the class ...                                                    *)
Reuses(b, s) == on /\ freeAfterGive(b)[Class[s]] # <<>>

ResizeReusing(b, s) ==
  LET c == Class[s]
      idle == freeAfterGive(b)[c]
  IN /\ s # n[b] /\ c >= s /\ Reuses(b, s)
     /\ Holds(b, idle[Len(idle)].p, s)
     /\ free' = [freeAfterGive(b) EXCEPT ![c] = SubSeq(idle, 1, Len(idle) - 1)]
     /\ heldBytes' = heldAfterGive(b) - c
     /\ size' = sizeAfterGive(b)
     /\ UNCHANGED <<step, on>>

(* ... or a block of the driver's ...                                        *)
ResizeAllocating(b, s, a) ==
  /\ s # n[b] /\ Class[s] >= s /\ ~Reuses(b, s)
  /\ sizeAfterGive(b)[a] = 0
  /\ Holds(b, a, s)
  /\ free' = freeAfterGive(b)
  /\ heldBytes' = heldAfterGive(b)
  /\ size' = [sizeAfterGive(b) EXCEPT ![a] = Class[s]]
  /\ UNCHANGED <<step, on>>

(* Seeded defect: d_ still points to the block that was given back when      *)
(* take throws.                                                              *)
ResizeThrowsDangling(b, s) ==
  /\ s # n[b]
  /\ ~(Class[s] >= s /\ Reuses(b, s))
  /\ n' = [n EXCEPT ![b] = s]
  /\ free' = freeAfterGive(b)
  /\ heldBytes' = heldAfterGive(b)
  /\ size' = sizeAfterGive(b)
  /\ UNCHANGED <<d, step, on>>

(* ... or take throws: the class is too short, or cudaMalloc fails.          *)
ResizeThrows(b, s) ==
  /\ s # n[b]
  /\ ~(Class[s] >= s /\ Reuses(b, s))
  /\ Holds(b, Null, s)
  /\ free' = freeAfterGive(b)
  /\ heldBytes' = heldAfterGive(b)
  /\ size' = sizeAfterGive(b)
  /\ UNCHANGED <<step, on>>

(* Seeded defect: the size does not move with the block.                     *)
MoveAssignPointerOnly(b, o) ==
  /\ b # o
  /\ d' = [d EXCEPT ![b] = d[o], ![o] = Null]
  /\ n' = [n EXCEPT ![o] = 0]
  /\ free' = freeAfterGive(b)
  /\ heldBytes' = heldAfterGive(b)
  /\ size' = sizeAfterGive(b)
  /\ UNCHANGED <<step, on>>

(* operator=(DeviceBuffer&&), and with an empty b the move constructor.      *)
MoveAssign(b, o) ==
  /\ b # o
  /\ d' = [d EXCEPT ![b] = d[o], ![o] = Null]
  /\ n' = [n EXCEPT ![b] = n[o], ![o] = 0]
  /\ free' = freeAfterGive(b)
  /\ heldBytes' = heldAfterGive(b)
  /\ size' = sizeAfterGive(b)
  /\ UNCHANGED <<step, on>>

-----------------------------------------------------------------------------
(* endOfStep: the leading blocks of every list that have been idle too long. *)
stale(e) == e.step + Keep < step + 1

trimmed(s) ==
  CHOOSE k \in 0..Len(s) : /\ \A i \in 1..k : stale(s[i])
                           /\ k < Len(s) => ~stale(s[k + 1])

Trims == on /\ ~Exact /\ step + 1 > Keep

EndOfStepQuietly ==
  /\ step < MaxStep /\ ~Trims
  /\ step' = step + 1
  /\ UNCHANGED <<d, n, free, heldBytes, on, size>>

(* The bytes of the trimmed blocks, list by list.                            *)
freedBytes == SumFunction([c \in Classes |-> trimmed(free[c]) * c])

EndOfStep ==
  /\ step < MaxStep /\ Trims
  /\ step' = step + 1
  /\ free' = [c \in Classes |-> SubSeq(free[c], trimmed(free[c]) + 1, Len(free[c]))]
  /\ heldBytes' = heldBytes - freedBytes
  /\ size' = [a \in Addr |->
               IF \E c \in Classes : \E i \in 1..trimmed(free[c]) : free[c][i].p = a
               THEN 0 ELSE size[a]]
  /\ UNCHANGED <<d, n, on>>

Next ==
  \/ \E b \in Buffers :
       \/ Destroy(b)
       \/ \E s \in Sizes :
            \/ ResizeReusing(b, s) \/ ResizeThrows(b, s)
            \/ \E a \in Addr : ResizeAllocating(b, s, a)
       \/ \E o \in Buffers : MoveAssign(b, o)
  \/ EndOfStepQuietly \/ EndOfStep

Spec == Init /\ [][Next]_vars

-----------------------------------------------------------------------------
(* The types.                                                                *)
TypeOK ==
  /\ d \in [Buffers -> Addr \cup {Null}]
  /\ n \in [Buffers -> Sizes \cup {0}]
  /\ free \in [Classes -> Seq(Idle)]
  /\ heldBytes \in Nat
  /\ step \in 0..MaxStep /\ on \in BOOLEAN
  /\ size \in [Addr -> Classes \cup {0}]

(* No block has two owners: not two buffers, not a buffer and a free list,   *)
(* not two places of the free lists - whatever was moved, resized, trimmed,  *)
(* or abandoned by an exception, and although addresses come back.           *)
NoSharing ==
  /\ \A b, o \in Buffers : d[b] = d[o] /\ d[b] # Null => b = o
  /\ \A b \in Buffers, c \in Classes : \A i \in 1..Len(free[c]) : free[c][i].p # d[b]
  /\ \A c, k \in Classes : \A i \in 1..Len(free[c]), j \in 1..Len(free[k]) :
       free[c][i].p = free[k][j].p => c = k /\ i = j

(* The block a buffer uses is allocated and as long as the buffer, and an    *)
(* idle block is allocated with the size of the list it sits in.             *)
BigEnough ==
  /\ \A b \in Buffers : d[b] # Null => n[b] \in Sizes /\ size[d[b]] = Class[n[b]]
                                       /\ size[d[b]] >= n[b]
  /\ \A c \in Classes : \A i \in 1..Len(free[c]) : size[free[c][i].p] = c

(* Every list is in order of age, so trimming its front is enough: after a   *)
(* step has ended, no idle block has been idle for more than Keep steps.     *)
TrimComplete ==
  /\ \A c \in Classes : \A i, j \in 1..Len(free[c]) :
       i <= j => free[c][i].step <= free[c][j].step
  /\ on /\ ~Exact =>
       \A c \in Classes : \A i \in 1..Len(free[c]) : free[c][i].step + Keep >= step

(* Nothing is leaked or counted twice: heldBytes_ is the size of the idle    *)
(* blocks, and every block the driver has allocated is held by a buffer or   *)
(* idle.                                                                     *)
Accounted ==
  /\ heldBytes = SumFunction([c \in Classes |-> Len(free[c]) * c])
  /\ \A a \in Addr : size[a] # 0 =>
       \/ \E b \in Buffers : d[b] = a
       \/ \E c \in Classes : \E i \in 1..Len(free[c]) : free[c][i].p = a
=============================================================================
