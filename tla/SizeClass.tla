----------------------------- MODULE SizeClass -----------------------------
(***************************************************************************)
(* DevicePool::classOf (device_buffer.cuh): the size class a request is    *)
(* rounded up to.                                                          *)
(***************************************************************************)
EXTENDS Naturals

(* The largest 64 * 2^k that is not doubled any more.                       *)
baseOf(bytes) ==
  LET grow[b \in Nat] == IF 2 * b < bytes THEN grow[2 * b] ELSE b IN grow[64]

(* Seeded defect: rounded to the nearest step instead of up.                *)
classOfNearest(bytes) ==
  LET base == baseOf(bytes)
      step == base \div 8
  IN IF bytes <= base THEN base
     ELSE IF base < 1024 THEN 2 * base
     ELSE base + ((bytes - base + step \div 2) \div step) * step

classOf(bytes) ==
  LET base == baseOf(bytes)
      step == base \div 8
  IN IF bytes <= base THEN base
     ELSE IF base < 1024 THEN 2 * base
     ELSE base + ((bytes - base + step - 1) \div step) * step
=============================================================================
