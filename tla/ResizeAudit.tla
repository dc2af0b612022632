---------------------------- MODULE ResizeAudit ----------------------------
(***************************************************************************)
(* tools/resize_audit.py: which launches accumulate into a device buffer   *)
(* that was resized and not zeroed.  A unit u is abstracted to             *)
(*   fns    its functions, [name, params, body]; a statement is            *)
(*          [op |-> "resize" | "zero" | "copyFrom", name |-> "",           *)
(*           args |-> <<buffer>>] or                                       *)
(*          [op |-> "launch" | "call", name |-> callee,                    *)
(*           args |-> <<buffer, ...>>]                                     *)
(*   table  for each kernel its pointer parameters, the ones it            *)
(*          accumulates into and the ones it assigns (kernels_of)          *)
(*   found  the names that the search for a buffer stops at: <<n, b>> is   *)
(*          in found[op] when the pattern for b matches a statement        *)
(*          written with n.  b.resize( and b.copyFrom( match every name    *)
(*          that ends in b, a launch every argument that contains b, the   *)
(*          other ZEROERS b itself and b.member                            *)
(*   allow  the ledger                                                     *)
(* Comments and strings are gone (strip_comments); "zero" is any of the    *)
(* ZEROERS but copyFrom.                                                   *)
(***************************************************************************)
EXTENDS Naturals, Sequences

Mentions(u, s, buf) == \E k \in DOMAIN s.args : <<s.args[k], buf>> \in u.found[s.op]

(* One of the zeroers, anywhere between the function's opening brace and    *)
(* position i: the text is searched, not its order.                         *)
ZeroedIn(u, fn, i, buf) ==
  \E j \in 1..(i - 1) : fn.body[j].op \in {"zero", "copyFrom"} /\ Mentions(u, fn.body[j], buf)
ResizedIn(u, fn, i, buf) ==
  \E j \in 1..(i - 1) : fn.body[j].op = "resize" /\ Mentions(u, fn.body[j], buf)

(* An earlier launch that names the buffer, of a kernel that assigns        *)
(* something: the assign2 walk.                                             *)
AssignedIn(u, fn, i, buf) ==
  \E j \in 1..(i - 1) :
    /\ fn.body[j].op = "launch" /\ fn.body[j].name \in DOMAIN u.table
    /\ Mentions(u, fn.body[j], buf) /\ u.table[fn.body[j].name].assign # {}

(* Seeded defect: only the names of the zeroers count, a launch that        *)
(* assigns does not.                                                        *)
ZeroersOnly(u, fn, i, buf) == ZeroedIn(u, fn, i, buf)

Initialised(u, fn, i, buf) == ZeroedIn(u, fn, i, buf) \/ AssignedIn(u, fn, i, buf)

(* The places <<i, k>> where statement i of fn names a buffer, its k-th     *)
(* argument; those where a launch accumulates into one that nothing before  *)
(* it initialises.                                                          *)
Arguments(fn) == UNION {{<<i, k>> : k \in DOMAIN fn.body[i].args} : i \in DOMAIN fn.body}
BufferAt(fn, s) == fn.body[s[1]].args[s[2]]
Suspects(u, fn) ==
  {s \in Arguments(fn) :
     LET st == fn.body[s[1]]
     IN /\ st.op = "launch" /\ st.name \in DOMAIN u.table
        /\ s[2] \in DOMAIN u.table[st.name].names
        /\ u.table[st.name].names[s[2]] \in u.table[st.name].acc
        /\ ~Initialised(u, fn, s[1], BufferAt(fn, s))}

(* Resized in this function: a hit.  Else whoever owns the buffer decides:  *)
(* it is carried, and when it is a parameter every caller is asked.         *)
Hits(u, fn) == {s \in Suspects(u, fn) : ResizedIn(u, fn, s[1], BufferAt(fn, s))}
Carried(u, fn) == Suspects(u, fn) \ Hits(u, fn)
Risky(u, name, k) ==
  \E fn \in u.fns : /\ fn.name = name /\ k \in DOMAIN fn.params
                    /\ \E s \in Carried(u, fn) : BufferAt(fn, s) = fn.params[k]

(* The cross-function half: a caller that resizes what it hands to such a   *)
(* parameter and initialises it nowhere before the call.                    *)
Crossed(u, fn) ==
  {s \in Arguments(fn) :
     /\ fn.body[s[1]].op = "call" /\ Risky(u, fn.body[s[1]].name, s[2])
     /\ ResizedIn(u, fn, s[1], BufferAt(fn, s))
     /\ ~Initialised(u, fn, s[1], BufferAt(fn, s))}

(* A site is known to the ledger by its callee and its buffer.              *)
SiteKey(fn, s) == <<fn.body[s[1]].name, BufferAt(fn, s)>>
KeysOf(u, fn) == {SiteKey(fn, s) : s \in Hits(u, fn) \cup Crossed(u, fn)}
ReportedKeys(u) == UNION {KeysOf(u, fn) : fn \in u.fns}

(* An unlisted site fails, and so does a ledger entry with no site.         *)
ExitCode(u) == IF ReportedKeys(u) \subseteq u.allow /\ u.allow \subseteq ReportedKeys(u) THEN 0 ELSE 1
=============================================================================
