---------------------------- MODULE MCDevicePool ----------------------------
(***************************************************************************)
(* DevicePool with the code's size classes.                                *)
(***************************************************************************)
EXTENDS DevicePool, SizeClass, TLC

RoundedClass == [s \in Sizes |-> classOf(s)]
PoolSymmetry == Permutations(Buffers) \cup Permutations(Addr)
=============================================================================
