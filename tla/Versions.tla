----------------------------- MODULE Versions -----------------------------
(***************************************************************************)
(* The registry of tested functions (function.h, CheckasmFunc and          *)
(* CheckasmFuncVersion) as plain data, and the decisions that              *)
(* checkasm_check_key() takes by walking it.  The red-black tree that       *)
(* looks a function up by its name is abstracted to a function of the name. *)
(***************************************************************************)
EXTENDS Integers, Sequences, FiniteSetsExt

CONSTANTS
    Names,   \* names of functions under test
    Keys,    \* implementations: what the function pointers (CheckasmKey) name
    NoFunc,  \* a NULL CheckasmFunc pointer
    NoKey    \* a zero CheckasmKey

ASSUME NamesAssumption == NoFunc \notin Names
ASSUME KeysAssumption == NoKey \notin Keys

Labels == {"unnamed", "named"}

(* One implementation of a function: which CPU it was first seen under (0 is *)
(* the C pass, current.cpu = NULL), whether it carries a custom suffix, and  *)
(* how often its benchmark was recorded.                                     *)
Version ==
    [ key : Keys, cpu : Nat, variant : BOOLEAN,
      state : {"ok", "failed", "crashed"}, nb_measurements : Nat ]

(* A node of the tree.  prev chains the functions of one report group.       *)
Func ==
    [ versions : Seq(Version), prev : Names \cup {NoFunc},
      report_idx : Nat, report_name : Labels ]

(* A name nobody asked for yet: checkasm_func_get() returns a zeroed node.   *)
NewFunc ==
    [ versions |-> <<>>, prev |-> NoFunc, report_idx |-> 0, report_name |-> "unnamed" ]

NewVersion(key, cpu, variant) ==
    [ key |-> key, cpu |-> cpu, variant |-> variant,
      state |-> "ok", nb_measurements |-> 0 ]

-----------------------------------------------------------------------------
(* The walk of checkasm_check_key() over the versions of a function.         *)

(* The walk gives up at v: a C version that does not work, or the very key   *)
(* that is being asked for.  A crashed version counts as failed here, since  *)
(* the walk has just turned it into one.                                     *)
StopsAt(v, key) == (v.cpu = 0 /\ v.state # "ok") \/ v.key = key

Skipped(vs, key) == \E i \in DOMAIN vs : StopsAt(vs[i], key)

(* The positions the walk looks at, the one it stops at included.            *)
Walked(vs, key) ==
    { i \in DOMAIN vs : \A j \in 1 .. i - 1 : ~ StopsAt(vs[j], key) }

(* The crashed versions it passes, whose report is restored on the way.      *)
RecoveredBeforeStop(vs, key) ==  \* faulty: the stop is taken before the recovery
    { i \in Walked(vs, key) : vs[i].state = "crashed" /\ ~ StopsAt(vs[i], key) }
Recovered(vs, key) == { i \in Walked(vs, key) : vs[i].state = "crashed" }

(* What the walk leaves of the list.                                         *)
Settle(vs, key) ==
    [ i \in DOMAIN vs |->
        IF i \in Recovered(vs, key) THEN [vs[i] EXCEPT !.state = "failed"] ELSE vs[i] ]

(* The key to compare against: the last version that still works and is no   *)
(* variant, or the new version itself when there is none.                    *)
ReferenceAny(vs, key) ==  \* faulty: broken versions serve as reference
    LET plain == { i \in DOMAIN vs : ~ vs[i].variant }
    IN  IF plain = {} THEN key ELSE vs[Max(plain)].key
Reference(vs, key) ==
    LET working == { i \in DOMAIN vs : vs[i].state = "ok" /\ ~ vs[i].variant }
    IN  IF working = {} THEN key ELSE vs[Max(working)].key

-----------------------------------------------------------------------------
(* The chain of functions linked by prev from f: the smallest set that holds *)
(* f and the prev of its members.                                            *)
ClosedUnderPrev(tree, S) ==
    \A g \in S : tree[g].prev \in S \cup {NoFunc}

Chain(tree, f) ==
    { g \in Names : \A S \in SUBSET Names :
                        f \in S /\ ClosedUnderPrev(tree, S) => g \in S }

(* A walk along prev from f reaches NULL.                                    *)
ChainEnds(tree, f) ==
    f = NoFunc \/ \E g \in Chain(tree, f) : tree[g].prev = NoFunc
=============================================================================
