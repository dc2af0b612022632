---------------------------- MODULE MCTestCache ----------------------------
(***************************************************************************)
(* Two invocations on two builds over one source tree.  Test "gate" is a   *)
(* script that reads a data directory, which an edit makes it stop doing;  *)
(* test "unit" is a binary with the path of that directory compiled in,    *)
(* which reads and writes there.                                           *)
(***************************************************************************)
EXTENDS TestCache, TLC

(* Two invocations at most, each on a build of its own.                    *)
MCBuildOf == [p \in Procs |-> p]
MCExes(b) == Binaries
MCDirect(t, b) == IF t = "gate" THEN {"gate.sh"} ELSE {"bin", "tutorials"}
MCWrites == [t \in Tests |-> IF t = "unit" THEN {"data"} ELSE {}]

MCNamed(f, v) ==
  CASE f = "gate.sh" -> IF v = 0 THEN {"data"} ELSE {}
    [] f = "bin" -> {"data"}
    [] OTHER -> {}

MCMaxVersion == [f \in Files |-> 1]

(* Rewriting the executable changes its symbol table only.                 *)
MCDigestOf(f, v) == IF f \in Binaries THEN 0 ELSE v

(* One test from the cache, the other without, and a listing.              *)
MCRequests ==
  {[sel |-> {"gate"}, env |-> "off", noCache |-> FALSE, list |-> FALSE],
   [sel |-> {"unit"}, env |-> "on", noCache |-> TRUE, list |-> FALSE],
   [sel |-> {"unit"}, env |-> "off", noCache |-> FALSE, list |-> TRUE]}
MCSymmetry == Permutations(Procs)

(* A test that reads the data fails on the first version.                  *)
MCOutcome(t, e, d) ==
  ("data" \in DOMAIN d) => d["data"] # 0
=============================================================================
