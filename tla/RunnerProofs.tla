---------------------------- MODULE RunnerProofs ----------------------------
(***************************************************************************)
(* What holds of the registry, of the runner and of its sums for every       *)
(* configuration, every set of tests and implementations and every behaviour *)
(* of theirs: however many functions crash, and however often a test is run   *)
(* again, one crash is dealt with before the next, and every version is      *)
(* counted once.                                                            *)
(***************************************************************************)
EXTENDS Runner, FiniteSetTheorems, WellFoundedInduction, TLAPS

-----------------------------------------------------------------------------
(* The registry and the decisions of the walk over the versions of a function. *)

(* Max picks a greatest element of a set of positions of a list: the largest  *)
(* position is the one for which n - p is least, and < is well-founded.      *)
Before == { p \in Nat \X Nat : p[1] < p[2] }

(* There is no endless descent through the positions of a list.              *)
LEMMA BeforeIsWellFounded == IsWellFoundedOn(Before, Nat)
<1>1. Before = OpToRel(<, Nat)
  BY DEF Before, OpToRel
<1> QED
  BY <1>1, NatLessThanWellFounded

LEMMA MaxOfPositions ==
    ASSUME NEW n \in Nat, NEW S \in SUBSET (1 .. n), S # {}
    PROVE  Max(S) \in S /\ \A y \in S : y <= Max(S)
<1> DEFINE T == { k \in Nat : n - k \in S }
<1>1. \A x \in S : n - x \in T /\ x \in Int
  <2> TAKE x \in S
  <2>1. x \in 1 .. n
    OBVIOUS
  <2>2. n - x \in Nat /\ n - (n - x) = x
    BY <2>1
  <2> QED
    BY <2>2, <2>1
<1>2. PICK t \in T : \A u \in T : ~ (<<u, t>> \in Before)
  <2>1. T # {} /\ T \subseteq Nat
    BY <1>1
  <2> QED
    BY <2>1, BeforeIsWellFounded, WFMin
<1>3. \A u \in T : t <= u
  <2> TAKE u \in T
  <2>1. <<u, t>> \in Nat \X Nat
    OBVIOUS
  <2>2. ~ (u < t)
    BY <1>2, <2>1 DEF Before
  <2> QED
    BY <2>1, <2>2
<1>4. n - t \in S /\ t \in Nat
  OBVIOUS
<1>5. \A y \in S : y <= n - t
  <2> TAKE y \in S
  <2>1. n - y \in T /\ y \in Int
    BY <1>1
  <2>2. t <= n - y
    BY <2>1, <1>3
  <2> HIDE DEF T
  <2> QED
    BY <2>1, <2>2, <1>4
<1>6. \E x \in S : \A y \in S : x >= y
  <2> WITNESS n - t \in S
  <2> QED
    BY <1>5, <1>1, <1>4
<1>7. Max(S) \in S /\ \A y \in S : Max(S) >= y
  BY <1>6 DEF Max
<1> QED
  BY <1>7, <1>1

-----------------------------------------------------------------------------
(* The walk leaves every version in its place and changes nothing but the    *)
(* state of crashed ones (checkasm.c:955-958).                               *)
LEMMA SettleKeepsPlaces ==
    ASSUME NEW vs \in Seq(Version), NEW key
    PROVE  /\ Settle(vs, key) \in Seq(Version)
           /\ Len(Settle(vs, key)) = Len(vs)
           /\ DOMAIN Settle(vs, key) = DOMAIN vs
           /\ \A i \in DOMAIN vs :
                 /\ Settle(vs, key)[i].key = vs[i].key
                 /\ Settle(vs, key)[i].cpu = vs[i].cpu
                 /\ vs[i].state # "crashed" => Settle(vs, key)[i] = vs[i]
<1> DEFINE S == Settle(vs, key)
<1>1. DOMAIN vs = 1 .. Len(vs) /\ Len(vs) \in Nat
  OBVIOUS
<1>2. \A i \in DOMAIN vs : vs[i] \in Version
  OBVIOUS
<1>3. DOMAIN S = DOMAIN vs
  BY DEF Settle
<1>4. \A i \in DOMAIN vs : S[i] \in Version
  BY <1>2 DEF Settle, Version
<1>5. S \in Seq(Version) /\ Len(S) = Len(vs)
  <2>1. S \in [1 .. Len(vs) -> Version]
    BY <1>1, <1>3, <1>4 DEF Settle
  <2> QED
    BY <2>1, <1>1
<1>6. \A i \in DOMAIN vs :
        /\ S[i].key = vs[i].key /\ S[i].cpu = vs[i].cpu
        /\ vs[i].state # "crashed" => S[i] = vs[i]
  BY <1>2 DEF Settle, Version, Recovered
<1> QED
  BY <1>3, <1>5, <1>6

(* When the walk does not stop, every crashed version has been restored.     *)
LEMMA SettleRestoresAll ==
    ASSUME NEW vs \in Seq(Version), NEW key, ~ Skipped(Settle(vs, key), key)
    PROVE  \A i \in DOMAIN vs : Settle(vs, key)[i].state # "crashed"
<1> DEFINE S == Settle(vs, key)
<1>1. DOMAIN S = DOMAIN vs /\ DOMAIN vs = 1 .. Len(vs) /\ Len(vs) \in Nat
  BY SettleKeepsPlaces
<1>2. \A i \in DOMAIN vs : vs[i] \in Version
  OBVIOUS
<1>3. \A i \in DOMAIN vs : ~ StopsAt(vs[i], key)
  <2> TAKE i \in DOMAIN vs
  <2>1. ~ StopsAt(S[i], key)
    BY <1>1 DEF Skipped
  <2>2. S[i].key = vs[i].key /\ S[i].cpu = vs[i].cpu
    BY SettleKeepsPlaces
  <2>3. vs[i].state # "ok" => S[i].state # "ok"
    BY <1>2 DEF Settle, Version
  <2> QED
    BY <2>1, <2>2, <2>3 DEF StopsAt
<1>4. Walked(vs, key) = DOMAIN vs
  BY <1>1, <1>3 DEF Walked
<1> QED
  BY <1>2, <1>4 DEF Settle, Recovered, Version

(* The reference is the new implementation itself, or a version that still   *)
(* works and is no variant (checkasm.c:977-979).                             *)
LEMMA ReferenceWorks ==
    ASSUME NEW vs \in Seq(Version), NEW key \in Keys
    PROVE  /\ Reference(vs, key) \in Keys
           /\ \/ Reference(vs, key) = key
              \/ \E i \in DOMAIN vs : /\ Reference(vs, key) = vs[i].key
                                      /\ vs[i].state = "ok" /\ ~ vs[i].variant
<1> DEFINE W == { i \in DOMAIN vs : vs[i].state = "ok" /\ ~ vs[i].variant }
<1>1. DOMAIN vs = 1 .. Len(vs) /\ Len(vs) \in Nat
  OBVIOUS
<1>2. CASE W = {}
  BY <1>2 DEF Reference
<1>3. CASE W # {}
  <2>1. Max(W) \in W
    BY <1>1, <1>3, MaxOfPositions
  <2>2. Reference(vs, key) = vs[Max(W)].key
    BY <1>3 DEF Reference
  <2>3. PICK i \in DOMAIN vs : i = Max(W) /\ vs[i].state = "ok" /\ ~ vs[i].variant
    BY <2>1, Zenon
  <2>4. vs[i].key \in Keys
    <3>1. vs[i] \in Version
      OBVIOUS
    <3> QED
      BY <3>1 DEF Version
  <2> QED
    BY <2>2, <2>3, <2>4, Zenon
<1> QED
  BY <1>2, <1>3, Zenon

(* A version list with a new version at its end.                             *)
LEMMA AppendedVersion ==
    ASSUME NEW vs \in Seq(Version), NEW v \in Version
    PROVE  /\ Append(vs, v) \in Seq(Version)
           /\ DOMAIN vs \subseteq DOMAIN Append(vs, v)
           /\ Len(vs) + 1 \in DOMAIN Append(vs, v)
           /\ DOMAIN vs \subseteq Nat \ {0}
OBVIOUS

-----------------------------------------------------------------------------
(* The control state that the signal handling relies on: the frame to jump   *)
(* to exists wherever a function is called, the handler is armed and         *)
(* installed, and there is a version the crash can be blamed on.             *)
ControlInv ==
    /\ cfg \in Configs
    /\ ~ cfg.skip_tests => Fault \in handlers
    /\ cfg.skip_tests => key_ref = NoKey
    /\ pc \in InTest => context = "live"
    /\ pc \in InTest => test \in 1 .. Len(Tests) \/ (pc = "recover" /\ interrupted # None)
    /\ pc \in Calls => sig = Armed /\ callee \in Keys
    /\ pc \in {"arm"} \cup Calls => key_ref # NoKey
    /\ pc \in {"body", "arm"} \cup Calls /\ key_ref # NoKey =>
           func_ver # NoVersion /\ key_new \in Keys

IInv == TypeOK /\ ControlInv /\ FlagsSupported

-----------------------------------------------------------------------------
(* The registry.                                                             *)

(* What it means to be a version of the registry.                            *)
LEMMA MemberOfAllVersions ==
    ASSUME NEW t, NEW fv
    PROVE  fv \in AllVersions(t) <=>
               \E n \in Names : \E i \in DOMAIN t[n].versions : fv = <<n, i>>
BY DEF AllVersions

(* A tree whose lists only grew still has every version.                     *)
LEMMA VersionsStay ==
    \A t, u \in [Names -> Func] :
        (\A n \in Names : DOMAIN t[n].versions \subseteq DOMAIN u[n].versions)
            => AllVersions(t) \subseteq AllVersions(u)
BY MemberOfAllVersions

(* func_ver's two parts: a function, and a place in its list (function.h:41-59).*)
LEMMA PlacesArePositive ==
    ASSUME NEW t \in [Names -> Func], NEW fv \in AllVersions(t)
    PROVE  /\ fv \in Names \X (Nat \ {0})
           /\ fv = <<fv[1], fv[2]>>
           /\ fv[2] \in DOMAIN t[fv[1]].versions
           /\ t[fv[1]].versions \in Seq(Version)
<1>0. PICK n \in Names : \E i \in DOMAIN t[n].versions : fv = <<n, i>>
  BY MemberOfAllVersions
<1>1. PICK i \in DOMAIN t[n].versions : fv = <<n, i>>
  BY <1>0
<1>2. t[n].versions \in Seq(Version)
  BY DEF Func
<1>3. i \in Nat \ {0}
  BY <1>2
<1> QED
  BY <1>1, <1>2, <1>3

(* Replacing one version by another leaves a tree with the same versions.    *)
Replaced(t, fv, v) ==
    [t EXCEPT ![fv[1]] =
        [t[fv[1]] EXCEPT !.versions = [t[fv[1]].versions EXCEPT ![fv[2]] = v]]]

(* Changing one version in place keeps the registry's type and its versions. *)
LEMMA ReplaceVersion ==
    ASSUME NEW t \in [Names -> Func], NEW fv \in AllVersions(t), NEW v \in Version
    PROVE  /\ Replaced(t, fv, v) \in [Names -> Func]
           /\ AllVersions(t) \subseteq AllVersions(Replaced(t, fv, v))
<1> DEFINE u == Replaced(t, fv, v)
           n == fv[1]
           vs == t[n].versions
           ws == [vs EXCEPT ![fv[2]] = v]
<1>1. n \in Names /\ fv[2] \in DOMAIN vs /\ vs \in Seq(Version)
  BY PlacesArePositive
<1>2. ws \in Seq(Version) /\ DOMAIN ws = DOMAIN vs
  BY <1>1
<1>3. u = [t EXCEPT ![n] = [t[n] EXCEPT !.versions = ws]]
  BY <1>1 DEF Replaced
<1>4. [t[n] EXCEPT !.versions = ws] \in Func
  BY <1>1, <1>2 DEF Func
<1>5. u \in [Names -> Func]
  BY <1>1, <1>3, <1>4
<1>6. \A m \in Names : DOMAIN t[m].versions \subseteq DOMAIN u[m].versions
  <2>1. u[n].versions = ws
    BY <1>1, <1>3 DEF Func
  <2> QED
    BY <1>1, <1>2, <1>3, <2>1
<1>7. AllVersions(t) \subseteq AllVersions(u)
  <2> HIDE DEF u, n, vs, ws
  <2> QED
    BY <1>5, <1>6, VersionsStay
<1> QED
  BY <1>5, <1>7

(* Changing one version's state keeps the registry's type and its versions   *)
(* (checkasm.c:590, 1062).                                                   *)
LEMMA SetStateTypes ==
    ASSUME NEW t \in [Names -> Func], NEW fv \in AllVersions(t),
           NEW s \in {"ok", "failed", "crashed"}
    PROVE  /\ SetState(t, fv, s) \in [Names -> Func]
           /\ AllVersions(t) \subseteq AllVersions(SetState(t, fv, s))
<1> DEFINE v == t[fv[1]].versions[fv[2]]
           w == [v EXCEPT !.state = s]
<1>1. fv[1] \in Names /\ fv[2] \in DOMAIN t[fv[1]].versions
      /\ t[fv[1]].versions \in Seq(Version)
  BY PlacesArePositive
<1>2. v \in Version
  BY <1>1
<1>3. w \in Version
  BY <1>2 DEF Version
<1>4. SetState(t, fv, s) = Replaced(t, fv, w)
  BY <1>1 DEF SetState, Func, Replaced
<1> HIDE DEF v, w
<1> QED
  BY <1>3, <1>4, ReplaceVersion

(* Settling a function's versions and moving its chain to the open report    *)
(* group leaves every version in its place.                                  *)
LEMMA SettledTreeTypes ==
    ASSUME tree \in [Names -> Func], report_idx \in Nat, NEW f \in Names, NEW key
    PROVE  /\ SettledTree(f, key) \in [Names -> Func]
           /\ SettledTree(f, key)[f].versions = Settle(tree[f].versions, key)
           /\ AllVersions(tree) \subseteq AllVersions(SettledTree(f, key))
<1> DEFINE moved == IF Restored(f, key) THEN Chain(tree, f) ELSE {}
           t == [n \in Names |->
                   IF n \in moved THEN [tree[n] EXCEPT !.report_idx = report_idx] ELSE tree[n]]
           vs == Settle(tree[f].versions, key)
           u == SettledTree(f, key)
<1>1. \A n \in Names : t[n] \in Func /\ t[n].versions = tree[n].versions
  <2> TAKE n \in Names
  <2>1. tree[n] \in Func
    OBVIOUS
  <2>2. [tree[n] EXCEPT !.report_idx = report_idx] \in Func
        /\ [tree[n] EXCEPT !.report_idx = report_idx].versions = tree[n].versions
    BY <2>1 DEF Func
  <2> HIDE DEF moved
  <2> QED
    BY <2>1, <2>2
<1>2. tree[f].versions \in Seq(Version)
  BY DEF Func
<1>3. vs \in Seq(Version) /\ DOMAIN vs = DOMAIN tree[f].versions
  BY <1>2, SettleKeepsPlaces
<1>4. u = [t EXCEPT ![f] = [t[f] EXCEPT !.versions = vs]]
  BY DEF SettledTree
<1> HIDE DEF t, vs, u
<1>5. [t[f] EXCEPT !.versions = vs] \in Func /\ [t[f] EXCEPT !.versions = vs].versions = vs
  BY <1>1, <1>3 DEF Func
<1>6. t \in [Names -> Func]
  BY <1>1 DEF t
<1>7. u \in [Names -> Func] /\ u[f].versions = vs
  BY <1>4, <1>5, <1>6
<1>8. \A n \in Names : DOMAIN tree[n].versions \subseteq DOMAIN u[n].versions
  BY <1>1, <1>3, <1>4, <1>6, <1>7
<1>9. AllVersions(tree) \subseteq AllVersions(u)
  BY <1>7, <1>8, VersionsStay
<1> QED
  BY <1>7, <1>9 DEF u, vs

(* Appending a version to one function's list keeps all others.              *)
LEMMA AppendVersion ==
    ASSUME NEW t \in [Names -> Func], NEW f \in Names, NEW v \in Version,
           NEW g \in Func, g.versions = Append(t[f].versions, v)
    PROVE  /\ [t EXCEPT ![f] = g] \in [Names -> Func]
           /\ AllVersions(t) \subseteq AllVersions([t EXCEPT ![f] = g])
           /\ <<f, Len(t[f].versions) + 1>> \in AllVersions([t EXCEPT ![f] = g])
<1> DEFINE u == [t EXCEPT ![f] = g]
<1>1. t[f].versions \in Seq(Version)
  BY DEF Func
<1>2. u \in [Names -> Func] /\ u[f] = g
  OBVIOUS
<1>3. DOMAIN t[f].versions \subseteq DOMAIN g.versions
      /\ Len(t[f].versions) + 1 \in DOMAIN g.versions
  BY <1>1, AppendedVersion
<1>4. \A n \in Names : DOMAIN t[n].versions \subseteq DOMAIN u[n].versions
  BY <1>2, <1>3
<1>5. <<f, Len(t[f].versions) + 1>> \in AllVersions(u)
  <2>1. Len(t[f].versions) + 1 \in DOMAIN u[f].versions
    BY <1>2, <1>3
  <2> HIDE DEF u
  <2> QED
    BY <2>1, MemberOfAllVersions
<1>6. AllVersions(t) \subseteq AllVersions(u)
  <2> HIDE DEF u
  <2> QED
    BY <1>2, <1>4, VersionsStay
<1> QED
  BY <1>2, <1>5, <1>6

(* What checkasm_check_key() is asked for.                                   *)
LEMMA CheckOp ==
    ASSUME TypeOK, test \in 1 .. Len(Tests), InOp("check")
    PROVE  /\ Op.name \in Names /\ Op.variant \in BOOLEAN
           /\ Op.impl[cpu_flags] \in Keys \cup {NoKey}
<1>1. Tests \in Seq(Test)
  BY DEF TypeOK, Config, Tests
<1>2. Tests[test] \in Test
  BY <1>1
<1>3. Tests[test].ops \in Seq(Ops)
  BY <1>2 DEF Test
<1>4. Op \in Ops /\ Op.kind = "check"
  BY <1>3 DEF InOp, Op, TypeOK
<1>5. Op \in [ kind : {"check"}, name : Names, variant : BOOLEAN,
               impl : [SUBSET Flags -> Keys \cup {NoKey}] ]
  BY <1>4 DEF Ops
<1>6. cpu_flags \in SUBSET Flags
  BY DEF TypeOK
<1> QED
  BY <1>5, <1>6

-----------------------------------------------------------------------------
(* The invariant.                                                            *)

(* checkasm_run() starts with everything in place (checkasm.c:857-883).      *)
LEMMA InitIInv == Init => IInv
<1> SUFFICES ASSUME Init PROVE IInv
  OBVIOUS
<1> USE DEF Init, Cleared
<1>1. TypeOK
  <2>1. cfg \in Config
    BY ConfigsAssumption, Zenon
  <2>2. tree \in [Names -> Func]
    <3>1. NewFunc \in Func
      BY DEF NewFunc, Func, Labels
    <3> QED
      BY <3>1
  <2>3. should_fail \in BOOLEAN
    BY Zenon
  <2> QED
    BY <2>1, <2>2, <2>3 DEF TypeOK, Locations, InTest, Calls, Final
<1>2. ControlInv
  BY DEF ControlInv, InTest, Calls
<1>3. FlagsSupported
  BY DEF FlagsSupported
<1> QED
  BY <1>1, <1>2, <1>3 DEF IInv

(* The walk over CPUs and tests: the frame it saves is there while a test runs*)
(* (checkasm.c:549-614, 724-741).                                            *)
LEMMA RunTestsKeepsIInv ==
    ASSUME IInv, RunTests
    PROVE  IInv'
<1> USE DEF signalVars, loopVars, cpuVars, keyVars, sumVars, savedVars, statVars,
            currentVars, dataVars, Locations, InTest, Calls, Final, Tests, IInv
<1>1. CASE InitHooks
  BY <1>1 DEF InitHooks, TypeOK, ControlInv, FlagsSupported
<1>2. CASE SkipCpu
  BY <1>2 DEF SkipCpu, TypeOK, ControlInv, FlagsSupported
<1>3. CASE EnterCpu
  <2>1. FlagsFor(info) \subseteq cfg.cpu /\ cfg.cpu \subseteq Flags
    BY DEF FlagsFor, FlagsSupported, TypeOK, Config
  <2> QED
    BY <1>3, <2>1 DEF EnterCpu, TypeOK, ControlInv, FlagsSupported
<1>4. CASE SkipTest
  BY <1>4 DEF SkipTest, TypeOK, ControlInv, FlagsSupported
<1>5. CASE SaveContext
  BY <1>5 DEF SaveContext, TypeOK, ControlInv, FlagsSupported, Config
<1>6. CASE EnterTest
  <2>1. should_fail' \in BOOLEAN
    BY <1>6, Zenon DEF EnterTest
  <2> QED
    BY <1>6, <2>1 DEF EnterTest, TypeOK, ControlInv, FlagsSupported
<1>7. CASE Measure
  BY <1>7 DEF Measure, HandleInterrupt, Exit, TypeOK, ControlInv, FlagsSupported
<1>8. CASE LeaveCpu
  BY <1>8 DEF LeaveCpu, TypeOK, ControlInv, FlagsSupported
<1>9. CASE UninitHooks
  BY <1>9 DEF UninitHooks, TypeOK, ControlInv, FlagsSupported
<1> QED
  BY <1>1, <1>2, <1>3, <1>4, <1>5, <1>6, <1>7, <1>8, <1>9 DEF RunTests

(* A crash is blamed on a version of the registry, which stays one.          *)
LEMMA RecoverKeepsIInv ==
    ASSUME IInv, Recover
    PROVE  IInv'
<1> USE DEF signalVars, loopVars, cpuVars, keyVars, sumVars, savedVars, statVars,
            Locations, InTest, Calls, Final, Tests, IInv
<1>1. CASE interrupted # None
  BY <1>1 DEF Recover, HandleInterrupt, Exit, TypeOK, ControlInv, FlagsSupported
<1>2. CASE interrupted = None
  <2>1. func_ver \in AllVersions(tree) /\ tree' = SetState(tree, func_ver, "crashed")
        /\ func_ver' = func_ver
    BY <1>2 DEF Recover, TypeOK
  <2>2. tree' \in [Names -> Func] /\ func_ver' \in AllVersions(tree')
    BY <2>1, SetStateTypes DEF TypeOK
  <2>3. Crashes \in Int
    BY DEF Crashes, TypeOK
  <2> QED
    BY <1>2, <2>2, <2>3 DEF Recover, SetAside, HandleInterrupt, TypeOK, ControlInv, FlagsSupported
<1> QED
  BY <1>1, <1>2

(* checkasm_check_key(): a block is entered only with a version to blame     *)
(* (checkasm.c:932-1034).                                                    *)
LEMMA CheckFuncKeepsIInv ==
    ASSUME IInv, CheckFunc
    PROVE  IInv'
<1> USE DEF signalVars, loopVars, cpuVars, keyVars, sumVars, savedVars, statVars,
            currentVars, Locations, InTest, Calls, Final, Tests, IInv
<1> DEFINE f == Op.name
           key == Op.impl[cpu_flags]
           t == SettledTree(f, key)
           vs == t[f].versions
<1>1. test \in 1 .. Len(Tests) /\ InOp("check")
  BY DEF CheckFunc, IgnoreKey, SkipKey, NewKey, LoopInCheck, ControlInv, InOp
<1>2. f \in Names /\ Op.variant \in BOOLEAN /\ key \in Keys \cup {NoKey}
  BY <1>1, CheckOp
<1>3. /\ t \in [Names -> Func] /\ AllVersions(tree) \subseteq AllVersions(t)
      /\ vs = Settle(tree[f].versions, key)
  BY <1>2, SettledTreeTypes DEF TypeOK
<1>4. tree[f].versions \in Seq(Version)
  BY <1>2 DEF TypeOK, Func
<1>5. vs \in Seq(Version) /\ DOMAIN vs = DOMAIN tree[f].versions /\ Len(vs) \in Nat
  BY <1>3, <1>4, SettleKeepsPlaces
<1>6. SavedChecked(f, key) \in Int /\ SavedFailed(f, key) \in Int
  BY DEF SavedChecked, SavedFailed, TypeOK
<1>7. saved_checked' \in Int /\ saved_failed' \in Int
  <2>1. SkipKey \/ NewKey => RestoreSaved(f, key)
    BY DEF SkipKey, NewKey
  <2>2. IgnoreKey \/ LoopInCheck => UNCHANGED savedVars
    BY DEF IgnoreKey, LoopInCheck, LoopForever, dataVars
  <2>3. RestoreSaved(f, key) \/ UNCHANGED savedVars
    BY <2>1, <2>2 DEF CheckFunc
  <2> QED
    BY <2>3 DEF RestoreSaved, TypeOK
<1> HIDE DEF f, key, t, vs
<1>8. CASE IgnoreKey
  BY <1>2, <1>8 DEF IgnoreKey, key, InOp, TypeOK, ControlInv, FlagsSupported
<1>9. CASE SkipKey
  <2>1. /\ tree' = t /\ key_new' = key /\ key_ref' = NoKey /\ ip' = ip + 1
        /\ num_checked' = num_checked + SavedChecked(f, key)
        /\ num_failed' = num_failed + SavedFailed(f, key)
        /\ IF Restored(f, key)
           THEN func' = f /\ func_ver' = <<f, Max(Recovered(tree[f].versions, key))>>
           ELSE UNCHANGED <<func, func_ver>>
        /\ UNCHANGED <<cfg, signalVars, pc, loopVars, callee, exit_code, cpuVars, should_fail,
                       report_idx, prev_checked, prev_failed, statVars, samples>>
    BY <1>9 DEF SkipKey, f, key, t
  <2>2. CASE ~ Restored(f, key)
    <3>1. /\ func_ver' = func_ver /\ func' = func
          /\ func_ver = NoVersion \/ func_ver \in AllVersions(t)
      BY <1>3, <2>1, <2>2 DEF TypeOK
    <3>2. TypeOK'
      BY <1>2, <1>3, <1>6, <1>7, <2>1, <3>1 DEF TypeOK
    <3>3. ControlInv'
      BY <1>1, <2>1 DEF InOp, ControlInv
    <3>4. FlagsSupported'
      BY <2>1 DEF FlagsSupported
    <3> QED
      BY <3>2, <3>3, <3>4
  <2>3. CASE Restored(f, key)
    <3> DEFINE R == Recovered(tree[f].versions, key)
    <3>1. R # {} /\ R \subseteq 1 .. Len(tree[f].versions) /\ Len(tree[f].versions) \in Nat
      BY <1>4, <2>3 DEF Restored, Recovered, Walked
    <3>2. Max(R) \in DOMAIN vs
      BY <3>1, <1>4, <1>5, MaxOfPositions
    <3>3. <<f, Max(R)>> \in AllVersions(t)
      BY <3>2, <1>2, MemberOfAllVersions DEF vs
    <3>4. func' = f /\ func_ver' \in AllVersions(t)
      BY <2>1, <2>3, <3>3
    <3>5. TypeOK'
      BY <1>2, <1>3, <1>6, <1>7, <2>1, <3>4 DEF TypeOK
    <3>6. ControlInv'
      BY <1>1, <2>1 DEF InOp, ControlInv
    <3>7. FlagsSupported'
      BY <2>1 DEF FlagsSupported
    <3> QED
      BY <3>5, <3>6, <3>7
  <2> QED
    BY <2>2, <2>3
<1>10. CASE LoopInCheck
  BY <1>10 DEF LoopInCheck, LoopForever, dataVars, TypeOK, ControlInv, FlagsSupported
<1>11. CASE NewKey
  <2> DEFINE g == [t[f] EXCEPT !.versions = Append(vs, NewVersion(key, cpu, Op.variant))]
             joins == ~ cfg.skip_tests /\ g.report_idx < report_idx
             h == IF joins THEN [g EXCEPT !.report_idx = report_idx, !.prev = func] ELSE g
             ref == Reference(vs, key)
  <2>1. key \in Keys
    BY <1>2, <1>11 DEF NewKey, Ignored, key
  <2>2. NewVersion(key, cpu, Op.variant) \in Version
    BY <1>2, <2>1 DEF NewVersion, Version, TypeOK
  <2>3. vs \in Seq(Version) /\ Append(vs, NewVersion(key, cpu, Op.variant)) \in Seq(Version)
    BY <1>5, <2>2, AppendedVersion
  <2>4. t[f] \in Func
    BY <1>2, <1>3
  <2>5. g \in Func /\ g.versions = Append(vs, NewVersion(key, cpu, Op.variant))
    BY <2>3, <2>4 DEF Func
  <2> HIDE DEF g
  <2>6. h \in Func /\ h.versions = g.versions
    BY <2>5 DEF Func, TypeOK
  <2>7. ref \in Keys
    BY <1>5, <2>1, ReferenceWorks
  <2>8. /\ tree' = [t EXCEPT ![f] = h]
        /\ num_failed' = num_failed + SavedFailed(f, key)
        /\ num_funcs' = num_funcs + IF ref = key THEN 1 ELSE 0
        /\ IF cfg.skip_tests
           THEN key_ref' = NoKey /\ UNCHANGED <<num_checked, func, func_ver>>
           ELSE /\ key_ref' = ref /\ num_checked' = num_checked + SavedChecked(f, key) + 1
                /\ func' = f /\ func_ver' = <<f, Len(vs) + 1>>
        /\ key_new' = key /\ ip' = ip + 1
        /\ UNCHANGED <<cfg, signalVars, pc, loopVars, callee, exit_code, cpuVars, should_fail,
                       report_idx, prev_checked, prev_failed, num_benched, samples>>
    BY <1>11 DEF NewKey, f, key, t, vs, g
  <2>9. /\ tree' \in [Names -> Func] /\ AllVersions(t) \subseteq AllVersions(tree')
        /\ <<f, Len(vs) + 1>> \in AllVersions(tree')
    BY <1>2, <1>3, <2>2, <2>5, <2>6, <2>8, AppendVersion DEF vs
  <2> HIDE DEF h, ref
  <2>10. TypeOK'
    <3>1. func_ver' = NoVersion \/ func_ver' \in AllVersions(tree')
      BY <1>3, <2>8, <2>9 DEF TypeOK
    <3>2. func' \in Names \cup {NoFunc} /\ num_checked' \in Int
          /\ num_funcs' \in Int /\ key_ref' \in Keys \cup {NoKey}
      BY <1>2, <1>6, <2>7, <2>8 DEF TypeOK
    <3> QED
      BY <1>2, <1>6, <1>7, <2>8, <2>9, <3>1, <3>2 DEF TypeOK
  <2>11. ControlInv'
    <3>1. pc = "body" /\ pc' = "body"
      BY <1>1, <2>8 DEF InOp
    <3>2. key_new' \in Keys
      BY <2>1, <2>8
    <3>3. key_ref' # NoKey => ~ cfg.skip_tests /\ func_ver' = <<f, Len(vs) + 1>>
      BY <2>8
    <3>4. <<f, Len(vs) + 1>> # NoVersion
      BY DEF NoVersion
    <3> QED
      BY <2>8, <3>1, <3>2, <3>3, <3>4 DEF ControlInv
  <2>12. FlagsSupported'
    BY <2>8 DEF FlagsSupported
  <2> QED
    BY <2>10, <2>11, <2>12
<1> QED
  BY <1>8, <1>9, <1>10, <1>11 DEF CheckFunc

(* checkasm_fail() and checkasm_fail_abort() keep the registry's shape.      *)
LEMMA FailInternalTypes ==
    ASSUME TypeOK, FailInternal
    PROVE  /\ tree' \in [Names -> Func] /\ num_failed' \in Int
           /\ func_ver = NoVersion \/ func_ver \in AllVersions(tree')
<1>1. CASE Fails
  <2>1. func_ver \in AllVersions(tree) /\ tree' = SetState(tree, func_ver, "failed")
    BY <1>1 DEF Fails, FailInternal, TypeOK
  <2>2. tree' \in [Names -> Func] /\ func_ver \in AllVersions(tree')
    BY <2>1, SetStateTypes DEF TypeOK
  <2> QED
    BY <1>1, <2>2 DEF FailInternal, TypeOK
<1>2. CASE ~ Fails
  BY <1>2 DEF FailInternal, TypeOK
<1> QED
  BY <1>1, <1>2

(* The calls and comparisons of a block: every call is armed (test.h:252-382).*)
LEMMA TestBlockKeepsIInv ==
    ASSUME IInv, TestBlock
    PROVE  IInv'
<1> USE DEF signalVars, loopVars, cpuVars, keyVars, sumVars, savedVars, statVars,
            currentVars, dataVars, Locations, InTest, Calls, Final, Tests, IInv
<1>1. CASE SkipBlock
  <2>1. TypeOK'
    BY <1>1 DEF SkipBlock, TypeOK
  <2>2. ControlInv'
    BY <1>1 DEF SkipBlock, ControlInv
  <2> QED
    BY <1>1, <2>1, <2>2 DEF SkipBlock, FlagsSupported
<1>2. CASE CallRef
  BY <1>2 DEF CallRef, Call, InBlock, InOp, TypeOK, ControlInv, FlagsSupported
<1>3. CASE CallNew
  BY <1>3 DEF CallNew, Call, InBlock, InOp, TypeOK, ControlInv, FlagsSupported
<1>4. CASE CallInsteadOfBench
  BY <1>4 DEF CallInsteadOfBench, Call, InBlock, InOp, TypeOK, ControlInv, FlagsSupported
<1>5. CASE Compare
  <2>1. /\ tree' \in [Names -> Func] /\ num_failed' \in Int
        /\ func_ver = NoVersion \/ func_ver \in AllVersions(tree')
    <3>1. CASE FailInternal
      BY <3>1, FailInternalTypes
    <3>2. CASE UNCHANGED <<tree, num_failed>>
      BY <3>2 DEF TypeOK
    <3> QED
      BY <1>5, <3>1, <3>2 DEF Compare
  <2> QED
    BY <1>5, <2>1 DEF Compare, InBlock, InOp, TypeOK, ControlInv, FlagsSupported
<1> QED
  BY <1>1, <1>2, <1>3, <1>4, <1>5 DEF TestBlock

(* checkasm_bench(): armed from the first sample to the last (test.h:403-421).*)
LEMMA BenchKeepsIInv ==
    ASSUME IInv, Bench
    PROVE  IInv'
<1> USE DEF signalVars, loopVars, cpuVars, keyVars, sumVars, savedVars, statVars,
            currentVars, dataVars, Locations, InTest, Calls, Final, Tests, IInv
<1>1. CASE BenchStart
  BY <1>1, SMTT(30) DEF BenchStart, InBlock, InOp, TypeOK, ControlInv, FlagsSupported
<1>2. CASE BenchArm
  BY <1>2 DEF BenchArm, Call, TypeOK, ControlInv, FlagsSupported
<1>3. CASE BenchSample
  <2>1. func_ver \in AllVersions(tree)
    BY <1>3 DEF BenchSample, TypeOK, ControlInv
  <2>2. samples' \in Seq(Names \X (Nat \ {0}))
    BY <1>3, <2>1, PlacesArePositive, SMTT(30) DEF BenchSample, TypeOK
  <2> QED
    BY <1>3, <2>2 DEF BenchSample, TypeOK, ControlInv, FlagsSupported
<1>4. CASE BenchFinish
  <2> DEFINE v == tree[func_ver[1]].versions[func_ver[2]]
             w == [v EXCEPT !.nb_measurements = @ + 1]
  <2>1. func_ver \in AllVersions(tree) /\ tree \in [Names -> Func]
    BY <1>4 DEF BenchFinish, TypeOK, ControlInv
  <2>2. func_ver[1] \in Names /\ func_ver[2] \in DOMAIN tree[func_ver[1]].versions
        /\ tree[func_ver[1]].versions \in Seq(Version)
    BY <2>1, PlacesArePositive
  <2>3. w \in Version
    <3>1. v \in Version
      BY <2>2
    <3> QED
      BY <3>1 DEF Version
  <2>4. CASE samples # <<>>
    <3>1. tree' = Replaced(tree, func_ver, w)
      BY <1>4, <2>1, <2>2, <2>4 DEF BenchFinish, Replaced, Func
    <3> HIDE DEF v, w
    <3>2. tree' \in [Names -> Func] /\ AllVersions(tree) \subseteq AllVersions(tree')
      BY <2>1, <2>3, <3>1, ReplaceVersion
    <3>3. TypeOK'
      <4>1. func_ver' \in AllVersions(tree') /\ num_benched' \in Int
        BY <1>4, <2>1, <2>4, <3>2, SMTT(30) DEF BenchFinish, TypeOK
      <4>2. samples' \in Seq(Names \X (Nat \ {0}))
        BY <1>4 DEF BenchFinish
      <4> QED
        BY <1>4, <3>2, <4>1, <4>2, SMTT(30) DEF BenchFinish, TypeOK
    <3>4. ControlInv'
      BY <1>4 DEF BenchFinish, ControlInv
    <3> QED
      BY <1>4, <3>3, <3>4 DEF BenchFinish, FlagsSupported
  <2>5. CASE samples = <<>>
    BY <1>4, <2>5, SMTT(30) DEF BenchFinish, TypeOK, ControlInv, FlagsSupported
  <2> QED
    BY <2>4, <2>5
<1> QED
  BY <1>1, <1>2, <1>3, <1>4 DEF Bench

(* What an implementation does to the process (test.h:252-279, signal.c:112-119).*)
LEMMA CalleeKeepsIInv ==
    ASSUME IInv, Callee
    PROVE  IInv'
<1> USE DEF signalVars, loopVars, cpuVars, keyVars, sumVars, savedVars, statVars,
            currentVars, dataVars, Locations, InTest, Calls, Final, Tests, IInv
<1>1. CASE Return
  BY <1>1 DEF Return, TypeOK, ControlInv, FlagsSupported
<1>2. CASE Crash
  BY <1>2 DEF Crash, Executing, Calling, JumpOut, LoadContext, Delivered,
              TypeOK, ControlInv, FlagsSupported
<1>3. CASE FailAbort
  <2>1. /\ tree' \in [Names -> Func] /\ num_failed' \in Int
        /\ func_ver = NoVersion \/ func_ver \in AllVersions(tree')
    BY <1>3, FailInternalTypes DEF FailAbort
  <2> QED
    BY <1>3, <2>1 DEF FailAbort, LoadContext, TypeOK, ControlInv, FlagsSupported
<1> QED
  BY <1>1, <1>2, <1>3 DEF Callee

(* checkasm_should_fail() and checkasm_report() (checkasm.c:1085-1163).      *)
LEMMA ReportsKeepIInv ==
    ASSUME IInv, Reports
    PROVE  IInv'
<1> USE DEF signalVars, loopVars, cpuVars, keyVars, sumVars, savedVars, statVars,
            currentVars, Locations, InTest, Calls, Final, Tests, IInv
<1>1. CASE ShouldFail
  <2>1. should_fail' \in BOOLEAN
    BY <1>1, Zenon DEF ShouldFail
  <2> QED
    BY <1>1, <2>1 DEF ShouldFail, InOp, TypeOK, ControlInv, FlagsSupported
<1>2. ASSUME NEW label, NEW next \in {"body", "measure"}, Report(label, next), pc = "body",
             ip' \in {ip, ip + 1}
      PROVE  IInv'
  <2>1. \A n \in Names : tree[n] \in Func /\ [tree[n] EXCEPT !.report_name = "named"] \in Func
                         /\ [tree[n] EXCEPT !.report_name = "named"].versions = tree[n].versions
    BY DEF TypeOK, Func, Labels
  <2>2. tree' \in [Names -> Func]
    BY <1>2, <2>1 DEF Report
  <2>3. \A n \in Names : DOMAIN tree[n].versions \subseteq DOMAIN tree'[n].versions
    BY <1>2, <2>1 DEF Report
  <2>4. AllVersions(tree) \subseteq AllVersions(tree')
    BY <2>2, <2>3, VersionsStay DEF TypeOK
  <2>5. num_failed' \in Int /\ prev_failed' \in Int /\ prev_checked' \in Int
    BY <1>2, SMTT(30) DEF Report, GroupFailures, NewChecked, NewFailed, TypeOK
  <2>6. func_ver' = NoVersion \/ func_ver' \in AllVersions(tree')
    BY <1>2, <2>4 DEF Report, TypeOK
  <2>7. pc' \in {"body", "measure", "done"} /\ exit_code' \in {"running", "0", "1", "signal"}
    BY <1>2 DEF Report, HandleInterrupt, Exit, TypeOK
  <2>8. TypeOK'
    BY <1>2, <2>2, <2>5, <2>6, <2>7, SMTT(30) DEF Report, TypeOK
  <2>9. ControlInv'
    BY <1>2, <2>7 DEF Report, ControlInv
  <2> QED
    BY <1>2, <2>8, <2>9 DEF Report, FlagsSupported
<1>3. CASE ReportGroup
  BY <1>2, <1>3 DEF ReportGroup, InOp
<1>4. CASE ReportRest
  BY <1>2, <1>4 DEF ReportRest
<1>5. CASE LoopInReport
  BY <1>5 DEF LoopInReport, LoopForever, dataVars, TypeOK, ControlInv, FlagsSupported
<1> QED
  BY <1>1, <1>3, <1>4, <1>5 DEF Reports

(* Between two iterations nothing points into the freed registry any more    *)
(* (checkasm.c:914-924).                                                     *)
LEMMA SummaryKeepsIInv ==
    ASSUME IInv, Summary
    PROVE  IInv'
<1> USE DEF signalVars, loopVars, cpuVars, keyVars, sumVars, savedVars, statVars,
            currentVars, Locations, InTest, Calls, Final, Tests, IInv
<1>1. CASE Finish
  BY <1>1 DEF Finish, Exit, dataVars, TypeOK, ControlInv, FlagsSupported
<1>2. CASE NextIteration
  <2>1. tree' \in [Names -> Func]
    <3>1. NewFunc \in Func
      BY DEF NewFunc, Func, Labels
    <3> QED
      BY <1>2, <3>1 DEF NextIteration, ClearPointers
  <2>2. should_fail' \in BOOLEAN
    BY <1>2, Zenon DEF NextIteration
  <2>3. TypeOK'
    BY <1>2, <2>1, <2>2 DEF NextIteration, ClearPointers, ClearSums, NextIter, TypeOK
  <2>4. ControlInv'
    BY <1>2 DEF NextIteration, ControlInv
  <2> QED
    BY <1>2, <2>3, <2>4 DEF NextIteration, FlagsSupported
<1> QED
  BY <1>1, <1>2 DEF Summary

(* A user's signal, whenever it arrives (signal.c:57-70).                    *)
LEMMA InterruptKeepsIInv ==
    ASSUME IInv, NEW s \in Interrupts, Interrupt(s)
    PROVE  IInv'
<1> USE DEF signalVars, loopVars, cpuVars, keyVars, sumVars, savedVars, statVars,
            currentVars, dataVars, Locations, InTest, Calls, Final, Tests, IInv
<1>1. s # None /\ s # Fault
  BY InterruptsAssumption DEF Fault
<1>2. CASE s \in handlers
  <2>1. interrupted' = s /\ handlers' = handlers \ {s} /\ InterruptJump(s)
    BY <1>1, <1>2 DEF Interrupt, Delivered
  <2>2. CASE sig = Armed
    BY <1>1, <2>1, <2>2
       DEF Interrupt, InterruptJump, JumpOut, LoadContext, TypeOK, ControlInv, FlagsSupported
  <2>3. CASE sig # Armed
    BY <1>1, <2>1, <2>3 DEF Interrupt, InterruptJump, TypeOK, ControlInv, FlagsSupported
  <2> QED
    BY <2>2, <2>3
<1>3. CASE s \notin handlers
  BY <1>3 DEF Interrupt, TypeOK, ControlInv, FlagsSupported
<1> QED
  BY <1>2, <1>3

(* Every step keeps the invariant.                                           *)
LEMMA StepKeepsIInv ==
    ASSUME IInv, [Next]_vars
    PROVE  IInv'
<1>1. CASE UNCHANGED vars
  BY <1>1 DEF IInv, TypeOK, ControlInv, FlagsSupported, Tests, vars, signalVars, loopVars,
              cpuVars, keyVars, sumVars, savedVars, statVars, currentVars, dataVars
<1>2. CASE Step
  BY <1>2, RunTestsKeepsIInv, RecoverKeepsIInv, CheckFuncKeepsIInv, TestBlockKeepsIInv,
     BenchKeepsIInv, CalleeKeepsIInv, ReportsKeepIInv, SummaryKeepsIInv DEF Step
<1>3. CASE \E s \in Interrupts : Interrupt(s)
  BY <1>3, InterruptKeepsIInv
<1> QED
  BY <1>1, <1>2, <1>3 DEF Next, Hang, Terminated

(* So it always holds.                                                       *)
LEMMA Invariance == Spec => []IInv
BY InitIInv, StepKeepsIInv, PTL DEF Spec

(* Nothing but an interrupt sets checkasm_interrupted.                       *)
LEMMA OnlyUsersInterrupt ==
    ASSUME [Next]_vars, interrupted' # interrupted
    PROVE  \E s \in Interrupts : Interrupt(s)
<1> USE DEF signalVars, dataVars
<1>1. ~ UNCHANGED vars
  BY DEF vars
<1>2. ~ RunTests
  BY DEF RunTests, InitHooks, SkipCpu, EnterCpu, SkipTest, SaveContext, EnterTest, Measure,
         LeaveCpu, UninitHooks
<1>3. ~ Recover /\ ~ CheckFunc
  BY DEF Recover, CheckFunc, IgnoreKey, SkipKey, NewKey, LoopInCheck, LoopForever
<1>4. ~ TestBlock /\ ~ Bench
  BY DEF TestBlock, SkipBlock, CallRef, CallNew, CallInsteadOfBench, Call, Compare, Bench,
         BenchStart, BenchArm, BenchSample, BenchFinish
<1>5. ~ Callee
  BY DEF Callee, Return, Crash, FailAbort
<1>6. ~ Reports /\ ~ Summary
  BY DEF Reports, ShouldFail, ReportGroup, ReportRest, Report, LoopInReport, LoopForever,
         Summary, Finish, NextIteration
<1> QED
  BY <1>1, <1>2, <1>3, <1>4, <1>5, <1>6 DEF Next, Step, Hang, Terminated

-----------------------------------------------------------------------------
(* The theorems.                                                             *)

(* Every variable keeps its type, and func_ver never dangles: whatever a     *)
(* test does, it points to a version of the registry (checkasm.c:69-120).    *)
THEOREM TypeCorrect == Spec => []TypeOK
BY Invariance, PTL DEF IInv

(* However flags, masks and unsupported CPUs follow each other in the list,  *)
(* no flag is ever in force that the host lacks (checkasm.c:554-563).        *)
THEOREM OnlyHostFlags == Spec => []FlagsSupported
BY Invariance, PTL DEF IInv

(* Every fatal signal of a function under test brings the process back to    *)
(* check_cpu_flag(): the handler is installed and armed whenever a function  *)
(* is called, and the frame it jumps to is there (signal.c:112-119).         *)
THEOREM EveryCrashIsCaught == Spec => CrashesAreCaught
<1>1. ASSUME IInv, Crash PROVE pc' = "recover"
  BY <1>1 DEF IInv, ControlInv, Crash, Executing, Calling, InTest, Calls, JumpOut, LoadContext,
              Op, Tests
<1>2. IInv /\ [Next]_vars => [Crash => pc' = "recover"]_vars
  BY <1>1
<1> QED
  BY <1>2, Invariance, PTL DEF Spec, CrashesAreCaught

(* The first interrupt that arrives during a call leaves it, even one that   *)
(* would never return (signal.c:57-66).                                      *)
THEOREM EveryCallIsInterruptible == Spec => InterruptLeavesCall
<1>1. ASSUME IInv, [Next]_vars, Calling, interrupted' # interrupted
      PROVE  pc' = "recover"
  <2>1. PICK s \in Interrupts : Interrupt(s)
    BY <1>1, OnlyUsersInterrupt
  <2> QED
    BY <1>1, <2>1 DEF IInv, ControlInv, Interrupt, InterruptJump, JumpOut, LoadContext, Calling,
                     InTest, Calls
<1>2. IInv /\ [Next]_vars => [Calling /\ interrupted' # interrupted => pc' = "recover"]_vars
  BY <1>1
<1> QED
  BY <1>2, Invariance, PTL DEF Spec, InterruptLeavesCall

-----------------------------------------------------------------------------
(* The sums.                                                                 *)

BlockKinds == {"ref", "new", "compare", "bench"}

(* The operations of the test at hand, and what a check asks for.            *)
OpsNow == Tests[test].ops
KeyAt(p) == OpsNow[p].impl[cpu_flags]
Asks(p) ==
    /\ OpsNow[p].kind = "check"
    /\ KeyAt(p) # NoKey /\ OpsNow[p].name \in cfg.functions

(* A check the test is past: whoever asks again will be turned away.         *)
Visited(p) == Asks(p) => Skipped(tree[OpsNow[p].name].versions, KeyAt(p))

(* The check at c recorded fv, and its walk will meet fv again.              *)
Culprit(c, fv) ==
    /\ c \in DOMAIN OpsNow /\ Asks(c)
    /\ fv[1] = OpsNow[c].name
    /\ VersionAt(fv).key = KeyAt(c)
    /\ \A j \in 1 .. fv[2] - 1 : ~ StopsAt(tree[fv[1]].versions[j], KeyAt(c))

(* Between a check and the next one, or in a call made there.                *)
Guarded == pc \in {"body", "arm"} \cup Calls \/ (pc = "recover" /\ interrupted = None)

(* The group that is open, and the sums set aside.                           *)
SumsInv ==
    /\ \A v, w \in CrashedVersions : v = w
    /\ saved_checked > 0 <=> CrashedVersions # {}
    /\ saved_failed \in 0 .. saved_checked
    /\ NewFailed \in 0 .. NewChecked

(* Calls are made in a block.                                                *)
CallsInv ==
    Guarded /\ pc # "body" =>
        key_ref # NoKey /\ ip \in DOMAIN OpsNow /\ Op.kind \in BlockKinds

(* In a block, nothing is set aside; func_ver is what the last check         *)
(* recorded, and it is counted in the open group until that is reported.     *)
Waiting(c) == \A p \in c + 1 .. ip - 1 : OpsNow[p].kind # "report"
Counted == NewChecked > 0 /\ (VersionAt(func_ver).state = "ok" => NewFailed < NewChecked)
BlockInv ==
    Guarded /\ key_ref # NoKey =>
        /\ CrashedVersions = {}
        /\ \E c \in 1 .. ip - 1 :
              /\ Culprit(c, func_ver)
              /\ \A p \in c + 1 .. ip - 1 : OpsNow[p].kind # "check"
              /\ Waiting(c) => Counted

VisitedInv == Guarded /\ interrupted = None => \A p \in 1 .. ip - 1 : Visited(p)

(* While a version is crashed the test is on its way to the check that       *)
(* recorded it, or nobody will check anything any more.                      *)
RerunInv ==
    \A fv \in CrashedVersions :
        /\ pc \in {"enter", "body", "recover"} \cup Final
        /\ pc \in {"enter", "body"} /\ interrupted = None =>
              \E c \in DOMAIN OpsNow :
                  /\ Culprit(c, fv)
                  /\ \A p \in 1 .. c - 1 : Visited(p)
                  /\ pc = "body" => ip <= c

CountInv ==
    ~ cfg.skip_tests =>
        /\ IsFiniteSet(AllVersions(tree))
        /\ num_checked + saved_checked = Cardinality(AllVersions(tree))

KInv == SumsInv /\ CallsInv /\ BlockInv /\ VisitedInv /\ RerunInv

-----------------------------------------------------------------------------
(* The registry: what becomes of crashed versions, of checks the test is past*)
(* and of the one that recorded a crash, as the tree changes.                *)

(* The same versions in the same states.                                     *)
SameStates(t, u) ==
    \A n \in Names :
        /\ DOMAIN u[n].versions = DOMAIN t[n].versions
        /\ \A i \in DOMAIN t[n].versions :
              /\ u[n].versions[i].key = t[n].versions[i].key
              /\ u[n].versions[i].cpu = t[n].versions[i].cpu
              /\ u[n].versions[i].state = t[n].versions[i].state

(* At least the same versions, and what did not work does not work now.      *)
Extends(t, u) ==
    \A n \in Names :
        /\ DOMAIN t[n].versions \subseteq DOMAIN u[n].versions
        /\ \A i \in DOMAIN t[n].versions :
              /\ u[n].versions[i].key = t[n].versions[i].key
              /\ u[n].versions[i].cpu = t[n].versions[i].cpu
              /\ t[n].versions[i].state # "ok" => u[n].versions[i].state # "ok"

(* The operations are the same while the test and the flags are.             *)
SameTest == UNCHANGED <<cfg, test, cpu_flags>>

(* The same test asks for the same.                                          *)
LEMMA SameTestFacts ==
    ASSUME SameTest
    PROVE  /\ OpsNow' = OpsNow
           /\ \A p : KeyAt(p)' = KeyAt(p) /\ (Asks(p)' <=> Asks(p))
BY DEF SameTest, OpsNow, KeyAt, Asks, Tests

(* What a check asks for is a function's name.                               *)
LEMMA AskedNames ==
    ASSUME TypeOK, NEW p, Asks(p)
    PROVE  OpsNow[p].name \in Names
BY DEF TypeOK, Config, Asks

(* The places of the registry.                                               *)
LEMMA PlaceFacts ==
    ASSUME TypeOK, NEW fv \in AllVersions(tree)
    PROVE  /\ fv[1] \in Names /\ fv[2] \in Nat \ {0} /\ fv = <<fv[1], fv[2]>>
           /\ fv[2] \in DOMAIN tree[fv[1]].versions
           /\ DOMAIN tree[fv[1]].versions = 1 .. Len(tree[fv[1]].versions)
           /\ Len(tree[fv[1]].versions) \in Nat
           /\ VersionAt(fv) \in Version
<1>1. fv \in Names \X (Nat \ {0}) /\ fv = <<fv[1], fv[2]>>
      /\ fv[2] \in DOMAIN tree[fv[1]].versions /\ tree[fv[1]].versions \in Seq(Version)
  BY PlacesArePositive DEF TypeOK
<1> QED
  BY <1>1 DEF VersionAt

(* Whoever was turned away will be again.                                    *)
LEMMA VisitedStays ==
    ASSUME TypeOK, SameTest, Extends(tree, tree'), NEW p, Visited(p)
    PROVE  Visited(p)'
<1> SUFFICES ASSUME Asks(p) PROVE Skipped(tree'[OpsNow[p].name].versions, KeyAt(p))
  BY SameTestFacts DEF Visited
<1>1. OpsNow[p].name \in Names
  BY AskedNames
<1> DEFINE n == OpsNow[p].name
<1>2. PICK i \in DOMAIN tree[n].versions : StopsAt(tree[n].versions[i], KeyAt(p))
  BY DEF Visited, Skipped
<1>3. i \in DOMAIN tree'[n].versions /\ StopsAt(tree'[n].versions[i], KeyAt(p))
  BY <1>1, <1>2 DEF Extends, StopsAt
<1> QED
  BY <1>3 DEF Skipped

(* Leaving every state alone is a way to keep what is there.                 *)
LEMMA SameStatesExtend ==
    ASSUME NEW t, NEW u, SameStates(t, u)
    PROVE  Extends(t, u)
BY DEF SameStates, Extends

(* Nothing that matters changed in the registry.                             *)
LEMMA SameVersions ==
    ASSUME SameStates(tree, tree')
    PROVE  /\ AllVersions(tree') = AllVersions(tree)
           /\ CrashedVersions' = CrashedVersions
           /\ \A fv \in AllVersions(tree) : VersionAt(fv)'.state = VersionAt(fv).state
<1>1. AllVersions(tree') = AllVersions(tree)
  BY DEF SameStates, AllVersions
<1>2. ASSUME NEW fv \in AllVersions(tree) PROVE VersionAt(fv)'.state = VersionAt(fv).state
  <2>1. PICK n \in Names : \E i \in DOMAIN tree[n].versions : fv = <<n, i>>
    BY MemberOfAllVersions
  <2>2. PICK i \in DOMAIN tree[n].versions : fv = <<n, i>>
    BY <2>1
  <2> QED
    BY <2>2 DEF SameStates, VersionAt
<1>3. CrashedVersions' = CrashedVersions
  BY <1>1, <1>2 DEF CrashedVersions
<1> QED
  BY <1>1, <1>2, <1>3

(* The check that recorded a version is found as long as no earlier version  *)
(* of the function changes.                                                  *)
LEMMA CulpritStays ==
    ASSUME TypeOK, SameTest, NEW c, NEW fv \in AllVersions(tree), Culprit(c, fv),
           VersionAt(fv)'.key = VersionAt(fv).key,
           \A j \in 1 .. fv[2] - 1 :
              /\ tree'[fv[1]].versions[j].key = tree[fv[1]].versions[j].key
              /\ tree'[fv[1]].versions[j].cpu = tree[fv[1]].versions[j].cpu
              /\ tree'[fv[1]].versions[j].state = tree[fv[1]].versions[j].state
    PROVE  Culprit(c, fv)'
<1>1. OpsNow' = OpsNow /\ KeyAt(c)' = KeyAt(c) /\ (Asks(c)' <=> Asks(c))
  BY SameTestFacts
<1>2. \A j \in 1 .. fv[2] - 1 : ~ StopsAt(tree'[fv[1]].versions[j], KeyAt(c))
  BY DEF Culprit, StopsAt
<1> QED
  BY <1>1, <1>2 DEF Culprit

(* A check keeps the version it recorded when no state changes.              *)
LEMMA SameCulprit ==
    ASSUME TypeOK, SameTest, SameStates(tree, tree'), NEW c, NEW fv \in AllVersions(tree),
           Culprit(c, fv)
    PROVE  Culprit(c, fv)'
<1>1. fv[1] \in Names /\ fv[2] \in DOMAIN tree[fv[1]].versions
      /\ DOMAIN tree[fv[1]].versions = 1 .. Len(tree[fv[1]].versions)
      /\ Len(tree[fv[1]].versions) \in Nat
  BY PlaceFacts
<1>2. VersionAt(fv)'.key = VersionAt(fv).key
  BY <1>1 DEF SameStates, VersionAt
<1>3. \A j \in 1 .. fv[2] - 1 : j \in DOMAIN tree[fv[1]].versions
  BY <1>1
<1> QED
  BY <1>1, <1>2, <1>3, CulpritStays DEF SameStates

(* What becomes of the registry when one version's state is set.             *)
LEMMA SetStateFacts ==
    ASSUME TypeOK, NEW fv \in AllVersions(tree), NEW s \in {"failed", "crashed"},
           tree' = SetState(tree, fv, s)
    PROVE  /\ Extends(tree, tree') /\ AllVersions(tree') = AllVersions(tree)
           /\ VersionAt(fv)'.state = s
           /\ VersionAt(fv)'.key = VersionAt(fv).key
           /\ \A w \in AllVersions(tree) : w # fv => VersionAt(w)' = VersionAt(w)
           /\ \A j \in 1 .. fv[2] - 1 : tree'[fv[1]].versions[j] = tree[fv[1]].versions[j]
<1> DEFINE n == fv[1]
           i == fv[2]
           vs == tree[n].versions
           v == [vs[i] EXCEPT !.state = s]
           ws == [vs EXCEPT ![i] = v]
<1>1. /\ n \in Names /\ i \in DOMAIN vs /\ fv = <<n, i>> /\ vs \in Seq(Version)
      /\ DOMAIN vs = 1 .. Len(vs) /\ Len(vs) \in Nat /\ vs[i] \in Version
  BY PlaceFacts, PlacesArePositive DEF TypeOK, VersionAt
<1>2. /\ tree \in [Names -> Func]
      /\ tree' = [tree EXCEPT ![n] = [tree[n] EXCEPT !.versions = ws]]
  BY <1>1 DEF SetState, TypeOK, Func
<1>3. v.state = s /\ v.key = vs[i].key /\ v.cpu = vs[i].cpu
  BY <1>1 DEF Version
<1>4. DOMAIN ws = DOMAIN vs /\ ws[i] = v /\ \A j \in DOMAIN vs : j # i => ws[j] = vs[j]
  BY <1>1
<1>5. tree'[n].versions = ws /\ \A m \in Names : m # n => tree'[m] = tree[m]
  BY <1>1, <1>2 DEF Func
<1> HIDE DEF ws, v
<1>6. Extends(tree, tree')
  <2>1. s # "ok"
    OBVIOUS
  <2> QED
    BY <1>1, <1>3, <1>4, <1>5, <2>1 DEF Extends
<1>7. AllVersions(tree') = AllVersions(tree)
  <2>1. \A m \in Names : DOMAIN tree'[m].versions = DOMAIN tree[m].versions
    BY <1>4, <1>5
  <2> QED
    BY <2>1 DEF AllVersions
<1>8. VersionAt(fv)' = v /\ VersionAt(fv) = vs[i]
  BY <1>4, <1>5 DEF VersionAt
<1>9. ASSUME NEW w \in AllVersions(tree), w # fv PROVE VersionAt(w)' = VersionAt(w)
  <2>1. w[1] \in Names /\ w[2] \in DOMAIN tree[w[1]].versions /\ w = <<w[1], w[2]>>
    BY PlaceFacts
  <2>2. CASE w[1] = n
    BY <1>1, <1>4, <1>5, <1>9, <2>1, <2>2 DEF VersionAt
  <2>3. CASE w[1] # n
    BY <1>5, <2>1, <2>3 DEF VersionAt
  <2> QED
    BY <2>2, <2>3
<1>10. \A j \in 1 .. i - 1 : tree'[n].versions[j] = vs[j]
  BY <1>1, <1>4, <1>5
<1> QED
  BY <1>3, <1>6, <1>7, <1>8, <1>9, <1>10

(* The walk over f's versions: crashed ones become failed, nothing else.     *)
LEMMA SettledFacts ==
    ASSUME TypeOK, NEW f \in Names, NEW key
    PROVE  /\ Extends(tree, SettledTree(f, key))
           /\ AllVersions(SettledTree(f, key)) = AllVersions(tree)
           /\ \A n \in Names : n # f => SettledTree(f, key)[n].versions = tree[n].versions
           /\ SettledTree(f, key)[f].versions = Settle(tree[f].versions, key)
           /\ SettledTree(f, key) \in [Names -> Func]
           /\ ~ Restored(f, key) => Settle(tree[f].versions, key) = tree[f].versions
<1> DEFINE t == SettledTree(f, key)
           vs == tree[f].versions
<1>1. vs \in Seq(Version)
  BY DEF TypeOK, Func
<1>2. t \in [Names -> Func] /\ t[f].versions = Settle(vs, key)
  BY SettledTreeTypes DEF TypeOK
<1>3. ASSUME NEW n \in Names, n # f PROVE t[n].versions = tree[n].versions
  <2> DEFINE moved == IF Restored(f, key) THEN Chain(tree, f) ELSE {}
             u == [m \in Names |->
                     IF m \in moved THEN [tree[m] EXCEPT !.report_idx = report_idx] ELSE tree[m]]
  <2>1. t = [u EXCEPT ![f].versions = Settle(vs, key)]
    BY DEF SettledTree
  <2>2. u[n].versions = tree[n].versions
    BY DEF TypeOK, Func
  <2> HIDE DEF u
  <2>3. t[n] = u[n]
    BY <1>3, <2>1 DEF u
  <2> QED
    BY <2>2, <2>3
<1>4. /\ DOMAIN Settle(vs, key) = DOMAIN vs
      /\ \A i \in DOMAIN vs :
            /\ Settle(vs, key)[i].key = vs[i].key
            /\ Settle(vs, key)[i].cpu = vs[i].cpu
            /\ vs[i].state # "crashed" => Settle(vs, key)[i] = vs[i]
  BY <1>1, SettleKeepsPlaces
<1>5. \A i \in DOMAIN vs : vs[i].state # "ok" => Settle(vs, key)[i].state # "ok"
  <2>1. \A i \in DOMAIN vs : vs[i] \in Version
    BY <1>1
  <2>2. \A v \in Version : [v EXCEPT !.state = "failed"].state = "failed"
    BY DEF Version
  <2> QED
    BY <2>1, <2>2 DEF Settle
<1>6. ~ Restored(f, key) => Settle(vs, key) = vs
  <2> SUFFICES ASSUME ~ Restored(f, key) PROVE Settle(vs, key) = [i \in DOMAIN vs |-> vs[i]]
    BY <1>1
  <2>1. Recovered(vs, key) = {}
    BY DEF Restored
  <2> QED
    BY <2>1 DEF Settle
<1> HIDE DEF t, vs
<1>7. Extends(tree, t)
  BY <1>2, <1>3, <1>4, <1>5 DEF Extends, vs
<1>8. AllVersions(t) = AllVersions(tree)
  <2>1. \A n \in Names : DOMAIN t[n].versions = DOMAIN tree[n].versions
    BY <1>2, <1>3, <1>4 DEF vs
  <2> QED
    BY <2>1 DEF AllVersions
<1> QED
  BY <1>2, <1>3, <1>6, <1>7, <1>8 DEF t, vs

(* A version that the walk over its function's versions restores.            *)
LEMMA RecoveredFacts ==
    ASSUME TypeOK, NEW f \in Names, NEW key, NEW i \in Recovered(tree[f].versions, key)
    PROVE  <<f, i>> \in CrashedVersions /\ Settle(tree[f].versions, key)[i].state = "failed"
<1>1. tree[f].versions \in Seq(Version)
  BY DEF TypeOK, Func
<1>2. i \in DOMAIN tree[f].versions /\ tree[f].versions[i].state = "crashed"
  BY DEF Recovered, Walked
<1>3. <<f, i>> \in AllVersions(tree)
  BY <1>2, MemberOfAllVersions
<1>4. <<f, i>> \in CrashedVersions
  BY <1>2, <1>3 DEF CrashedVersions, VersionAt
<1>5. tree[f].versions[i] \in Version
  BY <1>1, <1>2
<1>6. Settle(tree[f].versions, key)[i].state = "failed"
  BY <1>2, <1>5 DEF Settle, Version
<1> QED
  BY <1>4, <1>6

-----------------------------------------------------------------------------
(* Where the process is in a test.                                           *)

(* The operations of a test that is running are a sequence.                  *)
LEMMA OpsFacts ==
    ASSUME IInv, pc \in InTest, pc = "recover" => interrupted = None
    PROVE  /\ test \in DOMAIN Tests /\ Op = OpsNow[ip]
           /\ DOMAIN OpsNow = 1 .. Len(OpsNow) /\ Len(OpsNow) \in Nat
           /\ ip \in Nat \ {0} /\ InTest \cap Final = {}
<1>1. test \in 1 .. Len(Tests) /\ Tests \in Seq(Test)
  BY DEF IInv, ControlInv, TypeOK, Config, Tests
<1>2. Tests[test].ops \in Seq(Ops)
  <2>1. Tests[test] \in Test
    BY <1>1
  <2> QED
    BY <2>1 DEF Test
<1>3. InTest \cap Final = {}
  BY DEF InTest, Final, Calls
<1> QED
  BY <1>1, <1>2, <1>3 DEF OpsNow, Op, IInv, TypeOK

(* In a block, the group of its check is still open (test.h:157-178).        *)
LEMMA GroupStillOpen ==
    ASSUME IInv, pc \in InTest, pc = "recover" => interrupted = None,
           ip \in DOMAIN OpsNow, Op.kind \in BlockKinds,
           NEW c \in 1 .. ip - 1, \A p \in c + 1 .. ip - 1 : OpsNow[p].kind # "check"
    PROVE  Waiting(c)
<1>1. /\ test \in DOMAIN Tests /\ Op = OpsNow[ip]
      /\ DOMAIN OpsNow = 1 .. Len(OpsNow) /\ Len(OpsNow) \in Nat /\ ip \in Nat \ {0}
  BY OpsFacts
<1>2. ReportsEndBlocks(OpsNow)
  BY <1>1, BlocksAssumption DEF IInv, ControlInv, OpsNow, Tests
<1> SUFFICES ASSUME NEW p \in c + 1 .. ip - 1, OpsNow[p].kind = "report" PROVE FALSE
  BY DEF Waiting
<1>3. p \in DOMAIN OpsNow /\ p < ip
  BY <1>1
<1>4. PICK k \in p + 1 .. ip - 1 : OpsNow[k].kind = "check"
  BY <1>1, <1>2, <1>3 DEF ReportsEndBlocks, BlockKinds
<1>5. k \in c + 1 .. ip - 1
  BY <1>1, <1>3
<1> QED
  BY <1>4, <1>5

(* What a block operation, or a call it makes, may rely on.                  *)
LEMMA BlockFacts ==
    ASSUME IInv, KInv, Guarded, key_ref # NoKey, ip \in DOMAIN OpsNow, Op.kind \in BlockKinds
    PROVE  /\ CrashedVersions = {} /\ Counted
           /\ \E c \in 1 .. ip - 1 :
                 /\ Culprit(c, func_ver)
                 /\ \A p \in c + 1 .. ip - 1 : OpsNow[p].kind # "check"
<1>1. pc \in InTest /\ (pc = "recover" => interrupted = None)
  BY DEF Guarded, InTest, Calls
<1>2. CrashedVersions = {}
  BY DEF KInv, BlockInv
<1>3. PICK c \in 1 .. ip - 1 :
        /\ Culprit(c, func_ver)
        /\ \A p \in c + 1 .. ip - 1 : OpsNow[p].kind # "check"
        /\ Waiting(c) => Counted
  BY DEF KInv, BlockInv
<1>4. Counted
  BY <1>1, <1>3, GroupStillOpen
<1> QED
  BY <1>2, <1>3, <1>4

(* Where the process has ended, the sums are all that is left to say.        *)
LEMMA EndKeepsKInv ==
    ASSUME SumsInv', pc' \in Final
    PROVE  KInv'
BY DEF KInv, CallsInv, BlockInv, VisitedInv, RerunInv, Guarded, Final, Calls

(* Nor is there more to say between two tests.                               *)
LEMMA OutsideKeepsKInv ==
    ASSUME SumsInv', CrashedVersions' = {}, ~ Guarded'
    PROVE  KInv'
BY DEF KInv, CallsInv, BlockInv, VisitedInv, RerunInv

(* A step that changes no version's state and no sum leaves the sums alone.  *)
SameSums ==
    /\ SameStates(tree, tree')
    /\ UNCHANGED <<num_checked, num_failed, prev_checked, prev_failed, saved_checked, saved_failed>>

(* Sums that stay, over versions that stay, stay right.                      *)
LEMMA SumsInvStays ==
    ASSUME SumsInv, SameSums
    PROVE  /\ SumsInv' /\ CrashedVersions' = CrashedVersions
           /\ NewChecked' = NewChecked /\ NewFailed' = NewFailed
<1>1. CrashedVersions' = CrashedVersions
  BY SameVersions DEF SameSums
<1>2. NewChecked' = NewChecked /\ NewFailed' = NewFailed
  BY DEF SameSums, NewChecked, NewFailed
<1> QED
  BY <1>1, <1>2 DEF SumsInv, SameSums

(* The places before the next operation.                                     *)
LEMMA NextPlace ==
    ASSUME NEW i \in Nat, NEW j \in {i, i + 1}
    PROVE  /\ \A p \in 1 .. i - 1 : p \in 1 .. j - 1
           /\ \A p \in 1 .. j - 1 : p \in 1 .. i - 1 \/ p = i
           /\ \A c \in Nat : \A p \in c + 1 .. i - 1 : p \in c + 1 .. j - 1
           /\ \A c \in Nat : \A p \in c + 1 .. j - 1 : p \in c + 1 .. i - 1 \/ p = i
<1>1. j \in Nat /\ (j = i \/ j = i + 1)
  OBVIOUS
<1> QED
  BY <1>1

(* A registry that is not touched has the same states.                       *)
LEMMA SameTreeSameStates ==
    ASSUME tree' = tree
    PROVE  SameStates(tree, tree')
BY DEF SameStates

(* A step within a test that checks nothing and reports nothing.             *)
LEMMA MoveKeepsKInv ==
    ASSUME IInv, KInv, SameTest, SameSums, pc \in {"body", "arm"} \cup Calls,
           UNCHANGED <<interrupted, func_ver, key_ref>>,
           \/ /\ pc' = "body" /\ ip' = ip + 1 /\ ip \in DOMAIN OpsNow
              /\ Op.kind \notin {"check", "report"}
           \/ /\ pc' \in {"arm", "recover"} \cup Calls /\ ip' = ip /\ key_ref # NoKey
              /\ ip \in DOMAIN OpsNow /\ Op.kind \in BlockKinds
           \/ pc' \in Final
    PROVE  KInv'
<1>1. /\ SumsInv' /\ CrashedVersions' = CrashedVersions
      /\ NewChecked' = NewChecked /\ NewFailed' = NewFailed
  BY SumsInvStays DEF KInv
<1>2. CASE pc' \in Final
  BY <1>1, <1>2, EndKeepsKInv
<1>3. CASE pc' \notin Final
  <2>0. pc \in InTest /\ pc # "recover" /\ Guarded
    BY DEF InTest, Calls, Guarded
  <2>1. /\ Op = OpsNow[ip] /\ DOMAIN OpsNow = 1 .. Len(OpsNow)
        /\ Len(OpsNow) \in Nat /\ ip \in Nat \ {0}
    BY <2>0, OpsFacts
  <2>2. OpsNow' = OpsNow /\ \A p : KeyAt(p)' = KeyAt(p) /\ (Asks(p)' <=> Asks(p))
    BY SameTestFacts
  <2>3. /\ ip' \in {ip, ip + 1} /\ ip \in DOMAIN OpsNow /\ OpsNow[ip].kind \notin {"check", "report"}
        /\ (ip' = ip => key_ref # NoKey /\ Op.kind \in BlockKinds)
        /\ (pc' # "body" => ip' = ip)
    BY <1>3, <2>1 DEF BlockKinds
  <2>4. /\ \A p \in 1 .. ip - 1 : p \in 1 .. ip' - 1
        /\ \A p \in 1 .. ip' - 1 : p \in 1 .. ip - 1 \/ p = ip
        /\ \A c \in Nat : \A p \in c + 1 .. ip - 1 : p \in c + 1 .. ip' - 1
        /\ \A c \in Nat : \A p \in c + 1 .. ip' - 1 : p \in c + 1 .. ip - 1 \/ p = ip
    BY <2>1, <2>3, NextPlace
  <2>8. CallsInv'
    BY <2>1, <2>2, <2>3 DEF CallsInv, OpsNow, Op, Tests, SameTest
  <2>5. BlockInv'
    <3> SUFFICES ASSUME key_ref # NoKey PROVE BlockInv'
      BY DEF BlockInv
    <3>1. CrashedVersions = {} /\ func_ver \in AllVersions(tree)
      BY <2>0 DEF KInv, BlockInv, IInv, TypeOK, ControlInv
    <3>2. PICK c \in 1 .. ip - 1 :
            /\ Culprit(c, func_ver)
            /\ \A p \in c + 1 .. ip - 1 : OpsNow[p].kind # "check"
            /\ Waiting(c) => Counted
      BY <2>0 DEF KInv, BlockInv
    <3>3. Culprit(c, func_ver)'
      BY <3>1, <3>2, SameCulprit DEF IInv, SameSums
    <3>4. c \in 1 .. ip' - 1 /\ \A p \in c + 1 .. ip' - 1 : OpsNow'[p].kind # "check"
      <4>1. c \in Nat
        BY <2>1
      <4> QED
        BY <2>2, <2>3, <2>4, <3>2, <4>1
    <3>5. Waiting(c)' => Waiting(c)
      <4>1. c \in Nat
        BY <2>1
      <4> QED
        BY <2>2, <2>4, <4>1 DEF Waiting
    <3>6. Counted' <=> Counted
      <4>1. VersionAt(func_ver)'.state = VersionAt(func_ver).state
        BY <3>1, SameVersions DEF SameSums
      <4> QED
        BY <1>1, <4>1 DEF Counted, VersionAt
    <3> QED
      BY <1>1, <3>1, <3>2, <3>3, <3>4, <3>5, <3>6 DEF BlockInv
  <2>6. VisitedInv'
    <3> SUFFICES ASSUME interrupted = None, NEW p \in 1 .. ip' - 1 PROVE Visited(p)'
      BY DEF VisitedInv
    <3>1. Visited(p)
      <4>1. CASE p \in 1 .. ip - 1
        BY <2>0, <4>1 DEF KInv, VisitedInv
      <4>2. CASE p = ip
        BY <2>3, <4>2 DEF Visited, Asks
      <4> QED
        BY <2>4, <4>1, <4>2
    <3> QED
      BY <3>1, VisitedStays, SameStatesExtend DEF IInv, SameSums
  <2>7. RerunInv'
    <3> SUFFICES ASSUME NEW fv \in CrashedVersions
                 PROVE  /\ pc' \in {"enter", "body", "recover"}
                        /\ pc' \in {"enter", "body"} /\ interrupted = None =>
                              \E c \in DOMAIN OpsNow' :
                                  /\ Culprit(c, fv)'
                                  /\ \A p \in 1 .. c - 1 : Visited(p)'
                                  /\ pc' = "body" => ip' <= c
      BY <1>1 DEF RerunInv
    <3>1. pc = "body" /\ key_ref = NoKey
      BY <2>0 DEF KInv, BlockInv, RerunInv, Final, Calls
    <3>2. pc' = "body" /\ ip' = ip + 1
      BY <1>3, <3>1
    <3>3. CASE interrupted = None
      <4>1. PICK c \in DOMAIN OpsNow :
              Culprit(c, fv) /\ (\A p \in 1 .. c - 1 : Visited(p)) /\ ip <= c
        BY <3>1, <3>3 DEF KInv, RerunInv
      <4>2. c # ip
        BY <2>3, <4>1 DEF Culprit, Asks
      <4>3. fv \in AllVersions(tree)
        BY DEF CrashedVersions
      <4>4. Culprit(c, fv)'
        BY <4>1, <4>3, SameCulprit DEF IInv, SameSums
      <4>5. \A p \in 1 .. c - 1 : Visited(p)'
        BY <4>1, VisitedStays, SameStatesExtend DEF IInv, SameSums
      <4> QED
        BY <2>1, <2>2, <3>2, <4>1, <4>2, <4>4, <4>5
    <3> QED
      BY <3>2, <3>3
  <2> QED
    BY <1>1, <2>5, <2>6, <2>7, <2>8 DEF KInv
<1> QED
  BY <1>2, <1>3

-----------------------------------------------------------------------------
(* The steps, one by one.                                                    *)

(* A call is made by a block's operation.                                    *)
LEMMA CallFacts ==
    ASSUME KInv, pc \in {"arm"} \cup Calls
    PROVE  key_ref # NoKey /\ ip \in DOMAIN OpsNow /\ Op.kind \in BlockKinds
BY DEF KInv, CallsInv, Guarded, Calls

(* The walk over CPUs and tests finds nothing set aside (checkasm.c:549-614).*)
LEMMA RunTestsKeepsKInv ==
    ASSUME IInv, KInv, RunTests
    PROVE  KInv'
<1> USE DEF signalVars, loopVars, cpuVars, keyVars, sumVars, savedVars, statVars,
            currentVars, dataVars
<1>1. SameSums /\ SumsInv' /\ CrashedVersions' = CrashedVersions
  <2>1. SameSums
    BY SameTreeSameStates
       DEF RunTests, InitHooks, SkipCpu, EnterCpu, SkipTest, SaveContext, EnterTest, Measure,
           LeaveCpu, UninitHooks, SameSums
  <2> QED
    BY <2>1, SumsInvStays DEF KInv
<1>2. CASE EnterTest
  <2>1. /\ pc = "enter" /\ pc' = "body" /\ key_ref' = NoKey /\ ip' = 1
        /\ UNCHANGED <<tree, interrupted>> /\ SameTest
    BY <1>2 DEF EnterTest, SameTest
  <2>2. DOMAIN OpsNow = 1 .. Len(OpsNow) /\ Len(OpsNow) \in Nat
    BY <2>1, OpsFacts DEF InTest
  <2>3. OpsNow' = OpsNow
    BY <2>1, SameTestFacts
  <2>4. CallsInv' /\ BlockInv' /\ VisitedInv'
    BY <2>1 DEF CallsInv, BlockInv, VisitedInv
  <2>5. RerunInv'
    <3> SUFFICES ASSUME NEW fv \in CrashedVersions, interrupted = None
                 PROVE  \E c \in DOMAIN OpsNow' :
                            /\ Culprit(c, fv)'
                            /\ \A p \in 1 .. c - 1 : Visited(p)'
                            /\ ip' <= c
      BY <1>1, <2>1 DEF RerunInv
    <3>1. PICK c \in DOMAIN OpsNow : Culprit(c, fv) /\ \A p \in 1 .. c - 1 : Visited(p)
      BY <2>1 DEF KInv, RerunInv
    <3>2. fv \in AllVersions(tree)
      BY DEF CrashedVersions
    <3>3. Culprit(c, fv)' /\ \A p \in 1 .. c - 1 : Visited(p)'
      BY <2>1, <3>1, <3>2, SameCulprit, VisitedStays, SameTreeSameStates, SameStatesExtend
         DEF IInv
    <3> QED
      BY <2>1, <2>2, <2>3, <3>1, <3>3
  <2> QED
    BY <1>1, <2>4, <2>5 DEF KInv
<1>3. CASE ~ EnterTest
  <2>1. pc \in {"init", "flag", "test", "measure"}
    BY <1>3 DEF RunTests, InitHooks, SkipCpu, EnterCpu, SkipTest, SaveContext, Measure,
                LeaveCpu, UninitHooks
  <2>2. CrashedVersions = {}
    BY <2>1 DEF KInv, RerunInv, Final
  <2>3. pc' \in {"flag", "test", "enter", "summary", "done"}
    BY <1>3 DEF RunTests, InitHooks, SkipCpu, EnterCpu, SkipTest, SaveContext, Measure,
                LeaveCpu, UninitHooks, HandleInterrupt, Exit
  <2>4. ~ Guarded'
    BY <2>3 DEF Guarded, Calls
  <2> QED
    BY <1>1, <2>2, <2>4, OutsideKeepsKInv
<1> QED
  BY <1>2, <1>3

(* A crash is set aside for the version the last check recorded; the rerun   *)
(* will come to that check again (checkasm.c:583-602).                       *)
LEMMA RecoverKeepsKInv ==
    ASSUME IInv, KInv, Recover
    PROVE  KInv'
<1>0. pc = "recover" /\ SameTest /\ UNCHANGED interrupted
  BY DEF Recover, SameTest, cpuVars, loopVars, signalVars
<1>1. CASE interrupted # None
  <2>1. SameSums /\ pc' = "done"
    BY <1>1, SameTreeSameStates DEF Recover, HandleInterrupt, Exit, SameSums, savedVars
  <2>2. SumsInv'
    BY <2>1, SumsInvStays DEF KInv
  <2> QED
    BY <2>1, <2>2, EndKeepsKInv DEF Final
<1>2. CASE interrupted = None
  <2>0. Guarded /\ pc \in InTest
    BY <1>0, <1>2 DEF Guarded, InTest
  <2>1. /\ pc' = "enter" /\ func_ver # NoVersion
        /\ tree' = SetState(tree, func_ver, "crashed")
        /\ SetAside /\ UNCHANGED <<prev_checked, prev_failed, func_ver>>
    BY <1>2 DEF Recover, HandleInterrupt
  <2>2. func_ver \in AllVersions(tree)
    BY <2>1 DEF IInv, TypeOK
  <2>3. key_ref # NoKey /\ ip \in DOMAIN OpsNow /\ Op.kind \in BlockKinds
    BY <1>0, <2>0 DEF KInv, CallsInv
  <2>4. CrashedVersions = {} /\ Counted /\ \E c \in 1 .. ip - 1 : Culprit(c, func_ver)
    BY <2>0, <2>3, BlockFacts
  <2>5. /\ Extends(tree, tree') /\ AllVersions(tree') = AllVersions(tree)
        /\ VersionAt(func_ver)'.state = "crashed"
        /\ VersionAt(func_ver)'.key = VersionAt(func_ver).key
        /\ \A w \in AllVersions(tree) : w # func_ver => VersionAt(w)' = VersionAt(w)
        /\ \A j \in 1 .. func_ver[2] - 1 :
              tree'[func_ver[1]].versions[j] = tree[func_ver[1]].versions[j]
    BY <2>1, <2>2, SetStateFacts DEF IInv
  <2>6. CrashedVersions' = {func_ver}
    <3>1. \A w \in AllVersions(tree) : VersionAt(w).state # "crashed"
      BY <2>4 DEF CrashedVersions
    <3>2. \A w \in AllVersions(tree') : VersionAt(w)'.state = "crashed" <=> w = func_ver
      <4> SUFFICES ASSUME NEW w \in AllVersions(tree)
                   PROVE  VersionAt(w)'.state = "crashed" <=> w = func_ver
        BY <2>5
      <4>1. CASE w = func_ver
        BY <2>1, <2>5, <4>1 DEF VersionAt
      <4>2. CASE w # func_ver
        BY <2>5, <3>1, <4>2 DEF VersionAt
      <4> QED
        BY <4>1, <4>2
    <3>3. CrashedVersions' = { w \in AllVersions(tree') : VersionAt(w)'.state = "crashed" }
      BY DEF CrashedVersions
    <3> QED
      BY <2>2, <2>5, <3>2, <3>3
  <2>7. SumsInv'
    <3>1. NewChecked' = 0 /\ NewFailed' = 0
      BY <2>1 DEF SetAside, NewChecked, NewFailed, IInv, TypeOK
    <3>2. saved_checked' = NewChecked /\ saved_failed' = NewFailed + IF Fails THEN 1 ELSE 0
      BY <2>1 DEF SetAside, NewChecked, NewFailed, Crashes, IInv, TypeOK
    <3>3. NewChecked \in Int /\ NewFailed \in 0 .. NewChecked /\ NewChecked > 0
      BY <2>4 DEF KInv, SumsInv, Counted, NewChecked, IInv, TypeOK
    <3>4. Fails => NewFailed < NewChecked
      BY <2>4 DEF Counted, Fails
    <3>5. saved_checked' > 0 /\ saved_failed' \in 0 .. saved_checked'
      BY <3>2, <3>3, <3>4
    <3> QED
      BY <2>6, <3>1, <3>5 DEF SumsInv
  <2>8. CallsInv' /\ BlockInv' /\ VisitedInv'
    BY <2>1 DEF CallsInv, BlockInv, VisitedInv, Guarded, Calls
  <2>9. RerunInv'
    <3>1. PICK c \in 1 .. ip - 1 : Culprit(c, func_ver)
      BY <2>4
    <3>2. Culprit(c, func_ver)'
      BY <1>0, <2>1, <2>2, <2>5, <3>1, CulpritStays DEF IInv
    <3>3. DOMAIN OpsNow = 1 .. Len(OpsNow) /\ Len(OpsNow) \in Nat /\ ip \in Nat \ {0}
      BY <1>2, <2>0, OpsFacts
    <3>4. \A p \in 1 .. c - 1 : Visited(p)
      BY <1>2, <2>0, <3>3 DEF KInv, VisitedInv
    <3>5. \A p \in 1 .. c - 1 : Visited(p)'
      BY <1>0, <2>5, <3>4, VisitedStays DEF IInv
    <3>6. c \in DOMAIN OpsNow'
      BY <1>0, <3>1, <3>2 DEF Culprit
    <3> QED
      BY <2>1, <2>6, <3>2, <3>5, <3>6 DEF RerunInv
  <2> QED
    BY <2>7, <2>8, <2>9 DEF KInv
<1> QED
  BY <1>1, <1>2

(* A recorded measurement changes no version's state (test.h:403-421).       *)
LEMMA BenchSameStates ==
    ASSUME IInv, Bench
    PROVE  SameStates(tree, tree')
<1> USE DEF signalVars, loopVars, cpuVars, keyVars, sumVars, savedVars, statVars,
            currentVars, dataVars
<1>1. CASE tree' = tree
  BY <1>1, SameTreeSameStates
<1>2. CASE tree' # tree
  <2> DEFINE n == func_ver[1]
             i == func_ver[2]
             vs == tree[n].versions
             v == [vs[i] EXCEPT !.nb_measurements = @ + 1]
             ws == [vs EXCEPT ![i] = v]
  <2>1. BenchFinish /\ samples # <<>>
    BY <1>2 DEF Bench, BenchStart, BenchArm, BenchSample, BenchFinish, Call
  <2>2. func_ver \in AllVersions(tree)
    BY <2>1 DEF BenchFinish, IInv, TypeOK, ControlInv, Calls
  <2>3. /\ n \in Names /\ i \in DOMAIN vs /\ vs \in Seq(Version) /\ vs[i] \in Version
        /\ tree \in [Names -> Func]
    BY <2>2, PlaceFacts, PlacesArePositive DEF IInv, TypeOK, VersionAt
  <2>4. tree' = [tree EXCEPT ![n] = [tree[n] EXCEPT !.versions = ws]]
    BY <2>1, <2>3 DEF BenchFinish, Func
  <2>5. v.key = vs[i].key /\ v.cpu = vs[i].cpu /\ v.state = vs[i].state
    BY <2>3 DEF Version
  <2>6. DOMAIN ws = DOMAIN vs /\ ws[i] = v /\ \A j \in DOMAIN vs : j # i => ws[j] = vs[j]
    BY <2>3
  <2>7. tree'[n].versions = ws /\ \A m \in Names : m # n => tree'[m] = tree[m]
    BY <2>3, <2>4 DEF Func
  <2> HIDE DEF ws, v
  <2> QED
    BY <2>5, <2>6, <2>7 DEF SameStates
<1> QED
  BY <1>1, <1>2

(* Calls and measurements of a block (test.h:252-421).                       *)
LEMMA BenchKeepsKInv ==
    ASSUME IInv, KInv, Bench
    PROVE  KInv'
<1> USE DEF signalVars, loopVars, cpuVars, keyVars, sumVars, savedVars, statVars,
            currentVars, dataVars
<1>1. SameStates(tree, tree')
  BY BenchSameStates
<1>2. SameSums /\ SameTest /\ UNCHANGED <<interrupted, func_ver, key_ref>>
  BY <1>1 DEF Bench, BenchStart, BenchArm, BenchSample, BenchFinish, Call, SameSums, SameTest
<1>3. CASE BenchStart
  <2>1. /\ pc = "body" /\ key_ref # NoKey /\ ip \in DOMAIN OpsNow /\ Op.kind \in BlockKinds
        /\ pc' = "arm" /\ ip' = ip
    <3>1. pc = "body" /\ ip <= Len(OpsNow) /\ Op.kind = "bench" /\ key_ref # NoKey
      BY <1>3 DEF BenchStart, InBlock, InOp, OpsNow
    <3>2. ip \in DOMAIN OpsNow
      BY <3>1, OpsFacts DEF InTest
    <3> QED
      BY <1>3, <3>1, <3>2 DEF BenchStart, BlockKinds
  <2> QED
    BY <1>2, <2>1, MoveKeepsKInv
<1>4. CASE ~ BenchStart
  <2>1. pc \in {"arm", "bench"} /\ pc \in {"arm"} \cup Calls
    BY <1>4 DEF Bench, BenchArm, BenchSample, BenchFinish, Calls
  <2>2. \/ pc' \in Calls /\ ip' = ip
        \/ pc' = "body" /\ ip' = ip + 1
    BY <1>4, <2>1 DEF Bench, BenchArm, BenchSample, BenchFinish, Call, Calls
  <2>3. key_ref # NoKey /\ ip \in DOMAIN OpsNow /\ Op.kind \in BlockKinds
    BY <2>1, CallFacts
  <2>4. Op.kind \notin {"check", "report"}
    BY <2>3 DEF BlockKinds
  <2> QED
    BY <1>2, <2>1, <2>2, <2>3, <2>4, MoveKeepsKInv
<1> QED
  BY <1>3, <1>4

(* checkasm_fail() and checkasm_fail_abort(): the version that fails is the  *)
(* one the block's check counted, and fails but once (checkasm.c:1052-1083). *)
LEMMA FailureKeepsKInv ==
    ASSUME IInv, KInv, FailInternal, SameTest, pc \in {"body", "checked"},
           key_ref # NoKey, ip \in DOMAIN OpsNow, Op.kind \in BlockKinds,
           UNCHANGED <<interrupted, func_ver, key_ref, num_checked, prev_checked, prev_failed,
                       saved_checked, saved_failed>>,
           \/ pc' = "body" /\ ip' = ip + 1
           \/ pc' = "recover" /\ ip' = ip
           \/ pc' = "undefined"
    PROVE  KInv'
<1>0. pc \in {"body", "arm"} \cup Calls /\ pc \in InTest /\ pc # "recover" /\ Guarded
  BY DEF Calls, InTest, Guarded
<1>00. Op.kind \notin {"check", "report"} /\ "undefined" \in Final
  BY DEF BlockKinds, Final
<1>1. CASE ~ Fails
  <2>1. tree' = tree /\ num_failed' = num_failed
    BY <1>1 DEF FailInternal, IInv, TypeOK
  <2>2. SameSums
    BY <2>1, SameTreeSameStates DEF SameSums
  <2> QED
    BY <1>0, <1>00, <2>2, MoveKeepsKInv
<1>2. CASE Fails
  <2>1. /\ func_ver \in AllVersions(tree) /\ VersionAt(func_ver).state = "ok"
        /\ tree' = SetState(tree, func_ver, "failed") /\ num_failed' = num_failed + 1
    BY <1>2 DEF FailInternal, Fails, IInv, TypeOK
  <2>2. /\ Extends(tree, tree') /\ AllVersions(tree') = AllVersions(tree)
        /\ VersionAt(func_ver)'.state = "failed"
        /\ VersionAt(func_ver)'.key = VersionAt(func_ver).key
        /\ \A w \in AllVersions(tree) : w # func_ver => VersionAt(w)' = VersionAt(w)
        /\ \A j \in 1 .. func_ver[2] - 1 :
              tree'[func_ver[1]].versions[j] = tree[func_ver[1]].versions[j]
    BY <2>1, SetStateFacts DEF IInv
  <2>3. CrashedVersions = {} /\ Counted
    BY <1>0, BlockFacts
  <2>4. PICK c \in 1 .. ip - 1 :
          Culprit(c, func_ver) /\ \A p \in c + 1 .. ip - 1 : OpsNow[p].kind # "check"
    BY <1>0, BlockFacts
  <2>5. CrashedVersions' = {}
    <3>1. \A w \in AllVersions(tree) : VersionAt(w).state # "crashed"
      BY <2>3 DEF CrashedVersions
    <3>2. ASSUME NEW w \in AllVersions(tree) PROVE VersionAt(w)'.state # "crashed"
      <4>1. CASE w = func_ver
        BY <2>2, <4>1 DEF VersionAt
      <4>2. CASE w # func_ver
        BY <2>2, <3>1, <4>2 DEF VersionAt
      <4> QED
        BY <4>1, <4>2
    <3>3. CrashedVersions' = { w \in AllVersions(tree') : VersionAt(w)'.state = "crashed" }
      BY DEF CrashedVersions
    <3> QED
      BY <2>2, <3>2, <3>3
  <2>6. NewChecked' = NewChecked /\ NewFailed' = NewFailed + 1
    BY <2>1 DEF NewChecked, NewFailed, IInv, TypeOK
  <2>7. SumsInv'
    <3>1. NewChecked \in Int /\ NewFailed \in 0 .. NewChecked /\ NewFailed < NewChecked
      BY <2>1, <2>3 DEF KInv, SumsInv, Counted, NewChecked, IInv, TypeOK
    <3>2. NewFailed' \in 0 .. NewChecked'
      BY <2>6, <3>1
    <3> QED
      BY <2>3, <2>5, <3>2 DEF KInv, SumsInv
  <2>8. CASE pc' = "undefined"
    BY <1>00, <2>7, <2>8, EndKeepsKInv
  <2>9. CASE pc' # "undefined"
    <3>1. /\ Op = OpsNow[ip] /\ DOMAIN OpsNow = 1 .. Len(OpsNow)
          /\ Len(OpsNow) \in Nat /\ ip \in Nat \ {0}
      BY <1>0, OpsFacts
    <3>2. OpsNow' = OpsNow
      BY SameTestFacts
    <3>3. ip' \in {ip, ip + 1} /\ (pc' # "body" => ip' = ip)
      BY <2>9
    <3>4. /\ \A p \in 1 .. ip - 1 : p \in 1 .. ip' - 1
          /\ \A p \in 1 .. ip' - 1 : p \in 1 .. ip - 1 \/ p = ip
          /\ \A k \in Nat : \A p \in k + 1 .. ip - 1 : p \in k + 1 .. ip' - 1
          /\ \A k \in Nat : \A p \in k + 1 .. ip' - 1 : p \in k + 1 .. ip - 1 \/ p = ip
      BY <3>1, <3>3, NextPlace
    <3>5. CallsInv'
      BY <3>2, <3>3 DEF CallsInv, OpsNow, Op, Tests, SameTest
    <3>6. BlockInv'
      <4>1. Culprit(c, func_ver)'
        BY <2>1, <2>2, <2>4, CulpritStays DEF IInv
      <4>2. c \in Nat
        BY <3>1
      <4>3. c \in 1 .. ip' - 1 /\ \A p \in c + 1 .. ip' - 1 : OpsNow'[p].kind # "check"
        BY <1>00, <2>4, <3>1, <3>2, <3>4, <4>2
      <4>4. Counted'
        BY <2>2, <2>3, <2>6 DEF Counted
      <4> QED
        BY <2>5, <4>1, <4>3, <4>4 DEF BlockInv
    <3>7. VisitedInv'
      <4> SUFFICES ASSUME interrupted = None, NEW p \in 1 .. ip' - 1 PROVE Visited(p)'
        BY DEF VisitedInv
      <4>1. Visited(p)
        <5>1. CASE p \in 1 .. ip - 1
          BY <1>0, <5>1 DEF KInv, VisitedInv
        <5>2. CASE p = ip
          BY <1>00, <3>1, <5>2 DEF Visited, Asks
        <5> QED
          BY <3>4, <5>1, <5>2
      <4> QED
        BY <2>2, <4>1, VisitedStays DEF IInv
    <3> QED
      BY <2>5, <2>7, <3>5, <3>6, <3>7 DEF KInv, RerunInv
  <2> QED
    BY <2>8, <2>9
<1> QED
  BY <1>1, <1>2

(* The operation of the block at hand.                                       *)
LEMMA BlockOp ==
    ASSUME IInv, NEW kind, InOp(kind)
    PROVE  pc = "body" /\ ip \in DOMAIN OpsNow /\ Op.kind = kind /\ pc \in InTest /\ Op = OpsNow[ip]
<1>1. pc = "body" /\ ip <= Len(OpsNow) /\ Op.kind = kind
  BY DEF InOp, OpsNow
<1>2. pc \in InTest
  BY <1>1 DEF InTest
<1> QED
  BY <1>1, <1>2, OpsFacts

(* The operations of a block (test.h:252-382).                               *)
LEMMA TestBlockKeepsKInv ==
    ASSUME IInv, KInv, TestBlock
    PROVE  KInv'
<1> USE DEF signalVars, loopVars, cpuVars, keyVars, sumVars, savedVars, statVars,
            currentVars, dataVars
<1>1. CASE Compare
  <2>1. pc = "body" /\ ip \in DOMAIN OpsNow /\ Op.kind = "compare" /\ key_ref # NoKey
    BY <1>1, BlockOp DEF Compare, InBlock
  <2>2. /\ SameTest /\ pc' = "body" /\ ip' = ip + 1
        /\ UNCHANGED <<interrupted, func_ver, key_ref, num_checked, prev_checked, prev_failed,
                       saved_checked, saved_failed>>
    BY <1>1, <2>1 DEF Compare, SameTest
  <2>3. CASE FailInternal
    BY <2>1, <2>2, <2>3, FailureKeepsKInv DEF BlockKinds
  <2>4. CASE UNCHANGED <<tree, num_failed>>
    <3>1. SameSums
      BY <2>2, <2>4, SameTreeSameStates DEF SameSums
    <3> QED
      BY <2>1, <2>2, <3>1, MoveKeepsKInv
  <2> QED
    BY <1>1, <2>3, <2>4 DEF Compare
<1>2. CASE ~ Compare
  <2>1. SameSums /\ SameTest /\ UNCHANGED <<interrupted, func_ver, key_ref>>
    BY <1>2, SameTreeSameStates
       DEF TestBlock, SkipBlock, CallRef, CallNew, CallInsteadOfBench, Call, SameSums, SameTest
  <2>2. CASE SkipBlock
    <3>1. InOp(Op.kind) /\ Op.kind \notin {"check", "report"}
      BY <2>2 DEF SkipBlock, InOp
    <3>2. pc = "body" /\ ip \in DOMAIN OpsNow
      BY <3>1, BlockOp
    <3> QED
      BY <2>1, <2>2, <3>1, <3>2, MoveKeepsKInv DEF SkipBlock
  <2>3. CASE CallRef \/ CallNew \/ CallInsteadOfBench
    <3>1. \E kind \in {"ref", "new", "bench"} : InOp(kind)
      BY <2>3 DEF CallRef, CallNew, CallInsteadOfBench, InBlock
    <3>2. pc = "body" /\ ip \in DOMAIN OpsNow /\ Op.kind \in BlockKinds
      BY <3>1, BlockOp DEF BlockKinds
    <3>3. key_ref # NoKey /\ pc' \in Calls /\ ip' = ip
      BY <2>3 DEF CallRef, CallNew, CallInsteadOfBench, InBlock, Call, Calls
    <3> QED
      BY <2>1, <3>2, <3>3, MoveKeepsKInv
  <2> QED
    BY <1>2, <2>2, <2>3 DEF TestBlock
<1> QED
  BY <1>1, <1>2

(* What a called function does: come back, raise a signal, clobber the stack.*)
LEMMA CalleeKeepsKInv ==
    ASSUME IInv, KInv, Callee
    PROVE  KInv'
<1> USE DEF signalVars, loopVars, cpuVars, keyVars, sumVars, savedVars, statVars,
            currentVars, dataVars
<1>0. pc \in {"arm"} \cup Calls /\ pc \in {"body", "arm"} \cup Calls
  BY DEF Callee, Return, Crash, FailAbort, Executing, Calling, Calls
<1>1. key_ref # NoKey /\ ip \in DOMAIN OpsNow /\ Op.kind \in BlockKinds
  BY <1>0, CallFacts
<1>2. CASE FailAbort
  <2>1. FailInternal /\ SameTest /\ pc = "checked" /\ ip' = ip
        /\ pc' \in {"recover", "undefined"}
        /\ UNCHANGED <<interrupted, func_ver, key_ref, num_checked, prev_checked, prev_failed,
                       saved_checked, saved_failed>>
    BY <1>2 DEF FailAbort, LoadContext, SameTest
  <2> QED
    BY <1>1, <2>1, FailureKeepsKInv
<1>3. CASE ~ FailAbort
  <2>1. SameSums /\ SameTest /\ UNCHANGED <<interrupted, func_ver, key_ref>>
    BY <1>3, SameTreeSameStates DEF Callee, Return, Crash, SameSums, SameTest
  <2>2. \/ pc' = "body" /\ ip' = ip + 1
        \/ pc' \in {"recover", "undefined", "killed"} /\ ip' = ip
    BY <1>3 DEF Callee, Return, Crash, JumpOut, LoadContext
  <2>3. Op.kind \notin {"check", "report"} /\ {"undefined", "killed"} \subseteq Final
    BY <1>1 DEF BlockKinds, Final
  <2> QED
    BY <1>0, <1>1, <2>1, <2>2, <2>3, MoveKeepsKInv
<1> QED
  BY <1>2, <1>3

(* A walk along prev that does not end changes nothing any more.             *)
LEMMA LoopKeepsKInv ==
    ASSUME KInv, LoopForever
    PROVE  KInv'
<1>1. SameSums /\ pc' = "looping"
  BY SameTreeSameStates DEF LoopForever, SameSums, dataVars, currentVars, sumVars, savedVars
<1>2. SumsInv'
  BY <1>1, SumsInvStays DEF KInv
<1> QED
  BY <1>1, <1>2, EndKeepsKInv DEF Final

(* What every check does that does not open a block: past it, whoever asks   *)
(* the same again is turned away, and what is set aside stays so for later.  *)
LEMMA NoBlockKeepsKInv ==
    ASSUME IInv, KInv, InOp("check"), SameTest, SumsInv', Extends(tree, tree'),
           key_ref' = NoKey, pc' = "body", ip' = ip + 1, interrupted' = interrupted,
           interrupted = None => \A p \in {ip} : Visited(p)',
           CrashedVersions' # {} =>
               SameStates(tree, tree') /\ \A fv \in CrashedVersions : ~ Culprit(ip, fv)
    PROVE  KInv'
<1>1. /\ pc = "body" /\ pc \in InTest /\ Guarded /\ ip \in DOMAIN OpsNow
      /\ DOMAIN OpsNow = 1 .. Len(OpsNow) /\ Len(OpsNow) \in Nat /\ ip \in Nat \ {0}
  BY BlockOp, OpsFacts DEF Guarded
<1>2. OpsNow' = OpsNow
  BY SameTestFacts
<1>3. CallsInv' /\ BlockInv'
  BY DEF CallsInv, BlockInv
<1>4. VisitedInv'
  <2> SUFFICES ASSUME interrupted = None, NEW p \in 1 .. ip' - 1 PROVE Visited(p)'
    BY DEF VisitedInv
  <2>1. CASE p \in 1 .. ip - 1
    <3>1. Visited(p)
      BY <1>1, <2>1 DEF KInv, VisitedInv
    <3> QED
      BY <3>1, VisitedStays DEF IInv
  <2>2. CASE p = ip
    BY <2>2
  <2> QED
    BY <1>1, <2>1, <2>2
<1>5. RerunInv'
  <2> SUFFICES ASSUME NEW fv \in CrashedVersions', interrupted = None
               PROVE  \E c \in DOMAIN OpsNow' :
                          /\ Culprit(c, fv)'
                          /\ \A p \in 1 .. c - 1 : Visited(p)'
                          /\ ip' <= c
    BY DEF RerunInv
  <2>1. SameStates(tree, tree') /\ ~ Culprit(ip, fv) /\ fv \in CrashedVersions
    BY SameVersions
  <2>2. PICK c \in DOMAIN OpsNow :
          Culprit(c, fv) /\ (\A p \in 1 .. c - 1 : Visited(p)) /\ ip <= c
    BY <1>1, <2>1 DEF KInv, RerunInv
  <2>3. fv \in AllVersions(tree)
    BY <2>1 DEF CrashedVersions
  <2>4. Culprit(c, fv)' /\ (\A p \in 1 .. c - 1 : Visited(p)')
    BY <2>1, <2>2, <2>3, SameCulprit, VisitedStays DEF IInv
  <2>5. c # ip
    BY <2>1, <2>2
  <2> QED
    BY <1>1, <1>2, <2>2, <2>4, <2>5
<1> QED
  BY <1>3, <1>4, <1>5 DEF KInv

(* A walk that restores nothing leaves the list as it was.                   *)
LEMMA NotRestored ==
    ASSUME TypeOK, NEW f \in Names, NEW key, ~ Restored(f, key)
    PROVE  SameStates(tree, SettledTree(f, key))
<1>1. /\ \A n \in Names : n # f => SettledTree(f, key)[n].versions = tree[n].versions
      /\ SettledTree(f, key)[f].versions = tree[f].versions
  BY SettledFacts
<1> QED
  BY <1>1 DEF SameStates

(* What is restored is the one version that crashed: then there is none.     *)
LEMMA RestoredAll ==
    ASSUME TypeOK, SumsInv, NEW f \in Names, NEW key, Restored(f, key),
           tree' = SettledTree(f, key)
    PROVE  CrashedVersions' = {} /\ CrashedVersions # {}
<1>1. PICK i \in Recovered(tree[f].versions, key) : TRUE
  BY DEF Restored
<1>2. <<f, i>> \in CrashedVersions /\ Settle(tree[f].versions, key)[i].state = "failed"
  BY RecoveredFacts
<1>3. /\ AllVersions(tree') = AllVersions(tree)
      /\ \A n \in Names : n # f => tree'[n].versions = tree[n].versions
      /\ tree'[f].versions = Settle(tree[f].versions, key)
  BY SettledFacts
<1>4. tree[f].versions \in Seq(Version)
  BY DEF TypeOK, Func
<1>5. ASSUME NEW w \in AllVersions(tree) PROVE VersionAt(w)'.state # "crashed"
  <2>1. /\ w[1] \in Names /\ w[2] \in DOMAIN tree[w[1]].versions /\ w = <<w[1], w[2]>>
    BY PlaceFacts
  <2>2. CASE VersionAt(w).state = "crashed"
    <3>1. w = <<f, i>>
      BY <1>2, <2>2 DEF SumsInv, CrashedVersions
    <3> QED
      BY <1>2, <1>3, <3>1 DEF VersionAt
  <2>3. CASE VersionAt(w).state # "crashed"
    <3>1. CASE w[1] = f
      <4>1. tree'[f].versions[w[2]] = tree[f].versions[w[2]]
        BY <1>3, <1>4, <2>1, <2>3, <3>1, SettleKeepsPlaces DEF VersionAt
      <4> QED
        BY <2>3, <3>1, <4>1 DEF VersionAt
    <3>2. CASE w[1] # f
      BY <1>3, <2>1, <2>3, <3>2 DEF VersionAt
    <3> QED
      BY <3>1, <3>2
  <2> QED
    BY <2>2, <2>3
<1>6. CrashedVersions' = { w \in AllVersions(tree') : VersionAt(w)'.state = "crashed" }
  BY DEF CrashedVersions
<1> QED
  BY <1>2, <1>3, <1>5, <1>6

(* The check that recorded the crashed version restores it.                  *)
LEMMA CulpritRestores ==
    ASSUME TypeOK, NEW fv \in CrashedVersions, NEW c, Culprit(c, fv)
    PROVE  Restored(OpsNow[c].name, KeyAt(c))
<1>1. fv \in AllVersions(tree) /\ VersionAt(fv).state = "crashed"
  BY DEF CrashedVersions
<1>2. fv[1] = OpsNow[c].name /\ fv[2] \in DOMAIN tree[fv[1]].versions
  BY <1>1, PlaceFacts DEF Culprit
<1>3. fv[2] \in Recovered(tree[fv[1]].versions, KeyAt(c))
  BY <1>1, <1>2 DEF Culprit, Recovered, Walked, VersionAt
<1> QED
  BY <1>2, <1>3 DEF Restored

(* Whoever is turned away before the walk restores anything is so after it.  *)
LEMMA SkippedStays ==
    ASSUME NEW t, NEW u, Extends(t, u), NEW n \in Names, NEW key, Skipped(t[n].versions, key)
    PROVE  Skipped(u[n].versions, key)
<1>1. PICK i \in DOMAIN t[n].versions : StopsAt(t[n].versions[i], key)
  BY DEF Skipped
<1>2. i \in DOMAIN u[n].versions /\ StopsAt(u[n].versions[i], key)
  BY <1>1 DEF Extends, StopsAt
<1> QED
  BY <1>2 DEF Skipped

(* A check that turns the test away, and may restore what was set aside      *)
(*   (checkasm.c:958-1006).                                                  *)
LEMMA SkipKeyKeepsKInv ==
    ASSUME IInv, KInv, SkipKey
    PROVE  KInv'
<1> USE DEF signalVars, loopVars, cpuVars, keyVars, sumVars, savedVars, statVars,
            currentVars
<1> DEFINE f == Op.name
           key == Op.impl[cpu_flags]
<1>1. /\ InOp("check") /\ ~ Ignored(Op) /\ Skipped(tree[f].versions, key)
      /\ tree' = SettledTree(f, key) /\ RestoreSaved(f, key)
      /\ num_checked' = num_checked + SavedChecked(f, key)
      /\ num_failed' = num_failed + SavedFailed(f, key)
      /\ key_ref' = NoKey /\ ip' = ip + 1
      /\ UNCHANGED <<cfg, test, cpu_flags, interrupted, pc, prev_checked, prev_failed>>
  BY DEF SkipKey
<1>2. /\ pc = "body" /\ ip \in DOMAIN OpsNow /\ Op = OpsNow[ip] /\ pc \in InTest
      /\ test \in DOMAIN Tests /\ DOMAIN Tests = 1 .. Len(Tests) /\ Op.kind = "check"
  <2>1. Tests \in Seq(Test)
    BY DEF IInv, TypeOK, Config, Tests
  <2> QED
    BY <1>1, <2>1, BlockOp, OpsFacts
<1>3. f \in Names /\ Asks(ip) /\ f = OpsNow[ip].name /\ key = KeyAt(ip) /\ interrupted = None
  BY <1>1, <1>2, CheckOp DEF IInv, Ignored, Asks, KeyAt
<1> HIDE DEF f, key
<1>4. SameTest
  BY <1>1 DEF SameTest
<1>5. Extends(tree, tree')
  BY <1>1, <1>3, SettledFacts DEF IInv
<1>6. \A p \in {ip} : Visited(p)'
  <2> SUFFICES ASSUME NEW p, p = ip PROVE Visited(p)'
    OBVIOUS
  <2>1. Visited(p)
    BY <1>1, <1>3 DEF Visited
  <2> QED
    BY <1>4, <1>5, <2>1, VisitedStays DEF IInv
<1>7. CASE Restored(f, key)
  <2>1. CrashedVersions' = {} /\ CrashedVersions # {}
    BY <1>1, <1>3, <1>7, RestoredAll DEF IInv, KInv
  <2>2. /\ saved_checked' = 0 /\ saved_failed' = 0
        /\ num_checked' = num_checked + saved_checked
        /\ num_failed' = num_failed + saved_failed
    BY <1>1, <1>7 DEF RestoreSaved, SavedChecked, SavedFailed
  <2>3. SumsInv'
    <3>1. NewChecked' = NewChecked + saved_checked /\ NewFailed' = NewFailed + saved_failed
      BY <1>1, <2>2 DEF NewChecked, NewFailed, IInv, TypeOK
    <3>2. NewFailed' \in 0 .. NewChecked'
      BY <3>1 DEF KInv, SumsInv, NewChecked, IInv, TypeOK
    <3> QED
      BY <2>1, <2>2, <3>2 DEF SumsInv
  <2> QED
    BY <1>1, <1>2, <1>4, <1>5, <1>6, <2>1, <2>3, NoBlockKeepsKInv
<1>8. CASE ~ Restored(f, key)
  <2>1. SameStates(tree, tree')
    BY <1>1, <1>3, <1>8, NotRestored DEF IInv
  <2>2. SameSums
    BY <1>1, <1>8, <2>1 DEF RestoreSaved, SavedChecked, SavedFailed, SameSums, IInv, TypeOK
  <2>3. SumsInv'
    BY <2>2, SumsInvStays DEF KInv
  <2>4. \A fv \in CrashedVersions : ~ Culprit(ip, fv)
    BY <1>3, <1>8, CulpritRestores DEF IInv
  <2> QED
    BY <1>1, <1>2, <1>4, <1>5, <1>6, <2>1, <2>3, <2>4, NoBlockKeepsKInv
<1> QED
  BY <1>7, <1>8

(* A check that is not looked at (checkasm.c:935-941).                       *)
LEMMA IgnoreKeyKeepsKInv ==
    ASSUME IInv, KInv, IgnoreKey
    PROVE  KInv'
<1> USE DEF signalVars, loopVars, cpuVars, keyVars, sumVars, savedVars, statVars,
            currentVars
<1>1. /\ InOp("check") /\ Ignored(Op) /\ key_ref' = NoKey /\ ip' = ip + 1
      /\ UNCHANGED <<interrupted, pc, tree>> /\ SameTest
  BY DEF IgnoreKey, SameTest
<1>2. pc = "body" /\ Op = OpsNow[ip]
  BY <1>1, BlockOp
<1>3. SameSums
  BY SameTreeSameStates DEF IgnoreKey, SameSums
<1>4. SumsInv' /\ SameStates(tree, tree') /\ Extends(tree, tree')
  BY <1>3, SumsInvStays, SameStatesExtend DEF KInv, SameSums
<1>5. CASE interrupted = None
  <2>1. ~ Asks(ip)
    BY <1>1, <1>2, <1>5 DEF Ignored, Asks, KeyAt
  <2>2. \A p \in {ip} : Visited(p)'
    <3> SUFFICES ASSUME NEW p, p = ip PROVE Visited(p)'
      OBVIOUS
    <3>1. Visited(p)
      BY <2>1 DEF Visited
    <3> QED
      BY <1>1, <1>4, <3>1, VisitedStays DEF IInv
  <2>3. \A fv : ~ Culprit(ip, fv)
    BY <2>1 DEF Culprit
  <2> QED
    BY <1>1, <1>2, <1>4, <2>2, <2>3, NoBlockKeepsKInv
<1>6. CASE interrupted # None
  BY <1>1, <1>2, <1>4, <1>6 DEF KInv, CallsInv, BlockInv, VisitedInv, RerunInv
<1> QED
  BY <1>5, <1>6

(* A check finds something new only when nothing is set aside: the crashed   *)
(* version's own check, and every one before it, is turned away.             *)
LEMMA NewAfterCrash ==
    ASSUME IInv, KInv, pc = "body", interrupted = None, Asks(ip),
           NEW f, f = OpsNow[ip].name, NEW key, key = KeyAt(ip),
           ~ Skipped(SettledTree(f, key)[f].versions, key)
    PROVE  CrashedVersions = {}
<1> SUFFICES ASSUME NEW fv \in CrashedVersions PROVE FALSE
  OBVIOUS
<1>1. f \in Names
  BY AskedNames DEF IInv
<1>2. Extends(tree, SettledTree(f, key))
  BY <1>1, SettledFacts DEF IInv
<1>3. ~ Skipped(tree[f].versions, key)
  BY <1>1, <1>2, SkippedStays
<1>4. DOMAIN OpsNow = 1 .. Len(OpsNow) /\ Len(OpsNow) \in Nat /\ ip \in Nat \ {0}
  BY OpsFacts DEF InTest
<1>5. PICK c \in DOMAIN OpsNow :
        Culprit(c, fv) /\ (\A p \in 1 .. c - 1 : Visited(p)) /\ ip <= c
  BY DEF KInv, RerunInv
<1>6. CASE c = ip
  <2>1. fv[1] = f /\ fv[2] \in DOMAIN tree[f].versions
    BY <1>5, <1>6, PlaceFacts DEF IInv, Culprit, CrashedVersions
  <2>2. StopsAt(tree[f].versions[fv[2]], key)
    BY <1>5, <1>6, <2>1 DEF Culprit, VersionAt, StopsAt
  <2> QED
    BY <1>3, <2>1, <2>2 DEF Skipped
<1>7. CASE c # ip
  <2>1. Visited(ip)
    BY <1>4, <1>5, <1>7
  <2> QED
    BY <1>3, <2>1 DEF Visited
<1> QED
  BY <1>6, <1>7

(* A check adds fv, which works so far, and leaves all others as they are.   *)
AddsVersion(fv) ==
    /\ AllVersions(tree') = AllVersions(tree) \cup {fv}
    /\ fv[1] = OpsNow[ip].name /\ fv[2] = Len(tree[fv[1]].versions) + 1
    /\ \A w \in AllVersions(tree) : w[1] = fv[1] => VersionAt(w).key # KeyAt(ip)
    /\ tree'[fv[1]].versions[fv[2]].key = KeyAt(ip)
    /\ tree'[fv[1]].versions[fv[2]].state = "ok"
    /\ \A w \in AllVersions(tree) :
          tree'[w[1]].versions[w[2]] = tree[w[1]].versions[w[2]]
    /\ ~ cfg.skip_tests => func_ver' = fv
    /\ key_new' = KeyAt(ip)
    /\ \/ key_ref' \in {NoKey, KeyAt(ip)}
       \/ \E w \in AllVersions(tree) :
             w[1] = fv[1] /\ VersionAt(w).state = "ok" /\ key_ref' = VersionAt(w).key

(* A version nobody tested yet (checkasm.c:1008-1033).                       *)
LEMMA NewKeyKeepsKInv ==
    ASSUME IInv, KInv, NewKey
    PROVE  /\ KInv' /\ CrashedVersions = {}
           /\ UNCHANGED <<num_failed, saved_checked, saved_failed>>
           /\ ~ cfg.skip_tests => num_checked' = num_checked + 1
           /\ cfg.skip_tests => num_checked' = num_checked
           /\ \E fv : fv \notin AllVersions(tree) /\ AddsVersion(fv)
<1> USE DEF signalVars, loopVars, cpuVars, keyVars, sumVars, savedVars, statVars,
            currentVars
<1> DEFINE f == Op.name
           key == Op.impl[cpu_flags]
           t == SettledTree(f, key)
           vs == t[f].versions
           new == NewVersion(key, cpu, Op.variant)
           g == [t[f] EXCEPT !.versions = Append(vs, new)]
           joins == ~ cfg.skip_tests /\ g.report_idx < report_idx
           h == IF joins THEN [g EXCEPT !.report_idx = report_idx, !.prev = func] ELSE g
<1>1. /\ InOp("check") /\ ~ Ignored(Op) /\ ~ Skipped(vs, key)
      /\ tree' = [t EXCEPT ![f] = h] /\ RestoreSaved(f, key)
      /\ num_failed' = num_failed + SavedFailed(f, key)
      /\ IF cfg.skip_tests
         THEN key_ref' = NoKey /\ UNCHANGED <<num_checked, func, func_ver>>
         ELSE /\ num_checked' = num_checked + SavedChecked(f, key) + 1
              /\ func_ver' = <<f, Len(vs) + 1>>
      /\ ip' = ip + 1
      /\ UNCHANGED <<cfg, test, cpu_flags, interrupted, pc, prev_checked, prev_failed>>
  BY DEF NewKey
<1>2. /\ pc = "body" /\ ip \in DOMAIN OpsNow /\ Op = OpsNow[ip] /\ pc \in InTest
      /\ test \in DOMAIN Tests /\ DOMAIN Tests = 1 .. Len(Tests) /\ Op.kind = "check"
      /\ DOMAIN OpsNow = 1 .. Len(OpsNow) /\ Len(OpsNow) \in Nat /\ ip \in Nat \ {0}
  <2>1. Tests \in Seq(Test)
    BY DEF IInv, TypeOK, Config, Tests
  <2> QED
    BY <1>1, <2>1, BlockOp, OpsFacts
<1>3. /\ f \in Names /\ Asks(ip) /\ f = OpsNow[ip].name /\ key = KeyAt(ip) /\ key # NoKey
      /\ interrupted = None
  BY <1>1, <1>2, CheckOp DEF IInv, Ignored, Asks, KeyAt
<1>4. /\ new \in Version /\ new.key = key /\ new.state = "ok"
  <2>1. key \in Keys /\ Op.variant \in BOOLEAN
    BY <1>1, <1>2, <1>3, CheckOp DEF IInv
  <2> QED
    BY <2>1 DEF NewVersion, Version, IInv, TypeOK
<1> HIDE DEF new
<1>5. CrashedVersions = {}
  BY <1>1, <1>2, <1>3, NewAfterCrash
<1>6. ~ Restored(f, key)
  <2> SUFFICES ASSUME NEW i \in Recovered(tree[f].versions, key) PROVE FALSE
    BY DEF Restored
  <2> QED
    BY <1>3, <1>5, RecoveredFacts DEF IInv
<1>7. /\ vs = tree[f].versions /\ vs \in Seq(Version) /\ t \in [Names -> Func]
      /\ \A n \in Names : n # f => t[n].versions = tree[n].versions
  <2>1. tree[f].versions \in Seq(Version)
    BY <1>3 DEF IInv, TypeOK, Func
  <2> QED
    BY <1>3, <1>6, <2>1, SettledFacts DEF IInv
<1>8. h.versions = Append(vs, new)
  <2>1. t[f] \in Func
    BY <1>3, <1>7
  <2>2. g.versions = Append(vs, new) /\ g \in Func
    <3>1. Append(vs, new) \in Seq(Version)
      BY <1>4, <1>7, AppendedVersion
    <3> HIDE DEF vs, t
    <3> QED
      BY <2>1, <3>1 DEF Func
  <2> HIDE DEF g
  <2> QED
    BY <2>2 DEF Func, IInv, TypeOK
<1> HIDE DEF h
<1>9. /\ tree'[f].versions = Append(tree[f].versions, new)
      /\ \A n \in Names : n # f => tree'[n].versions = tree[n].versions
      /\ tree[f].versions \in Seq(Version)
  <2> HIDE DEF t
  <2> QED
    BY <1>1, <1>3, <1>7, <1>8
<1>10. ~ Skipped(tree[f].versions, key)
  BY <1>1, <1>7
<1>11. /\ cfg.skip_tests => key_ref' = NoKey /\ num_checked' = num_checked
       /\ ~ cfg.skip_tests =>
             num_checked' = num_checked + 1 /\ func_ver' = <<f, Len(tree[f].versions) + 1>>
       /\ num_failed' = num_failed /\ UNCHANGED <<saved_checked, saved_failed>>
  BY <1>1, <1>6, <1>7 DEF RestoreSaved, SavedChecked, SavedFailed, IInv, TypeOK
<1> HIDE DEF f, key, t, vs
<1> DEFINE l == Len(tree[f].versions) + 1
<1>12. /\ DOMAIN tree[f].versions = 1 .. l - 1 /\ l \in Nat \ {0}
       /\ DOMAIN tree'[f].versions = 1 .. l
       /\ \A i \in 1 .. l - 1 : tree'[f].versions[i] = tree[f].versions[i]
       /\ tree'[f].versions[l] = new
  BY <1>4, <1>9
<1> HIDE DEF l
<1>13. Extends(tree, tree')
  <2>1. \A i \in DOMAIN tree[f].versions :
            i \in DOMAIN tree'[f].versions /\ tree'[f].versions[i] = tree[f].versions[i]
    BY <1>12
  <2> QED
    BY <1>9, <2>1 DEF Extends
<1>14. AllVersions(tree') = AllVersions(tree) \cup {<<f, l>>} /\ <<f, l>> \notin AllVersions(tree)
  <2>1. 1 .. l = (1 .. l - 1) \cup {l} /\ l \notin 1 .. l - 1
    BY <1>12
  <2>2. ASSUME NEW fv \in AllVersions(tree') PROVE fv \in AllVersions(tree) \cup {<<f, l>>}
    <3>1. PICK n \in Names : \E i \in DOMAIN tree'[n].versions : fv = <<n, i>>
      BY <2>2, MemberOfAllVersions
    <3>2. PICK i \in DOMAIN tree'[n].versions : fv = <<n, i>>
      BY <3>1
    <3>3. CASE n = f /\ i = l
      BY <3>2, <3>3
    <3>4. CASE ~ (n = f /\ i = l)
      <4>1. i \in DOMAIN tree[n].versions
        BY <1>9, <1>12, <2>1, <3>4
      <4> QED
        BY <3>2, <4>1, MemberOfAllVersions
    <3> QED
      BY <3>3, <3>4
  <2>3. ASSUME NEW fv \in AllVersions(tree) PROVE fv \in AllVersions(tree')
    <3>1. PICK n \in Names : \E i \in DOMAIN tree[n].versions : fv = <<n, i>>
      BY <2>3, MemberOfAllVersions
    <3>2. PICK i \in DOMAIN tree[n].versions : fv = <<n, i>>
      BY <3>1
    <3>3. i \in DOMAIN tree'[n].versions
      BY <1>13 DEF Extends
    <3> QED
      BY <3>2, <3>3, MemberOfAllVersions
  <2>4. <<f, l>> \in AllVersions(tree')
    <3>1. l \in DOMAIN tree'[f].versions
      BY <1>12
    <3> QED
      BY <1>3, <3>1, MemberOfAllVersions
  <2>5. <<f, l>> \notin AllVersions(tree)
    <3> SUFFICES ASSUME <<f, l>> \in AllVersions(tree) PROVE FALSE
      OBVIOUS
    <3>1. l \in DOMAIN tree[f].versions
      BY MemberOfAllVersions
    <3> QED
      BY <1>12, <2>1, <3>1
  <2> QED
    BY <2>2, <2>3, <2>4, <2>5
<1>15. CrashedVersions' = {}
  <2>1. ASSUME NEW fv \in AllVersions(tree) PROVE VersionAt(fv)'.state # "crashed"
    <3>1. fv[1] \in Names /\ fv[2] \in DOMAIN tree[fv[1]].versions
          /\ VersionAt(fv).state # "crashed"
      BY <1>5, PlaceFacts DEF IInv, CrashedVersions
    <3>2. CASE fv[1] = f
      BY <1>12, <3>1, <3>2 DEF VersionAt
    <3>3. CASE fv[1] # f
      BY <1>9, <3>1, <3>3 DEF VersionAt
    <3> QED
      BY <3>2, <3>3
  <2>2. ASSUME NEW fv, fv = <<f, l>> PROVE VersionAt(fv)'.state # "crashed"
    BY <1>4, <1>12, <2>2 DEF VersionAt
  <2>3. CrashedVersions' = { w \in AllVersions(tree') : VersionAt(w)'.state = "crashed" }
    BY DEF CrashedVersions
  <2> QED
    BY <1>14, <2>1, <2>2, <2>3
<1>16. SumsInv'
  <2>1. /\ NewFailed' = NewFailed
        /\ NewChecked' = NewChecked + IF cfg.skip_tests THEN 0 ELSE 1
    BY <1>1, <1>11 DEF NewChecked, NewFailed, IInv, TypeOK
  <2>2. NewFailed' \in 0 .. NewChecked'
    BY <2>1 DEF KInv, SumsInv, NewChecked, IInv, TypeOK
  <2> QED
    BY <1>5, <1>11, <1>15, <2>2 DEF KInv, SumsInv
<1>17. SameTest /\ OpsNow' = OpsNow /\ \A p : KeyAt(p)' = KeyAt(p) /\ (Asks(p)' <=> Asks(p))
  <2>1. SameTest
    BY <1>1 DEF SameTest
  <2> QED
    BY <2>1, SameTestFacts
<1>18. CallsInv'
  BY <1>1, <1>2 DEF CallsInv
<1>19. BlockInv'
  <2> SUFFICES ASSUME key_ref' # NoKey PROVE BlockInv'
    BY DEF BlockInv
  <2>1. /\ ~ cfg.skip_tests /\ num_checked' = num_checked + 1 /\ func_ver' = <<f, l>>
        /\ num_failed' = num_failed
    BY <1>11 DEF l
  <2>2. Counted'
    <3>1. NewFailed' < NewChecked' /\ NewChecked' > 0
      BY <1>1, <2>1 DEF NewChecked, NewFailed, KInv, SumsInv, IInv, TypeOK
    <3> QED
      BY <3>1 DEF Counted
  <2>3. ASSUME NEW c, c = ip PROVE Culprit(c, func_ver)'
    <3>1. \A j \in 1 .. l - 1 : ~ StopsAt(tree'[f].versions[j], key)
      BY <1>10, <1>12 DEF Skipped
    <3>2. VersionAt(func_ver)'.key = key
      BY <1>4, <1>12, <2>1 DEF VersionAt
    <3>3. c \in DOMAIN OpsNow' /\ Asks(c)' /\ OpsNow'[c].name = f /\ KeyAt(c)' = key
      BY <1>2, <1>3, <1>17, <2>3
    <3> QED
      BY <2>1, <3>1, <3>2, <3>3 DEF Culprit
  <2>4. /\ ip \in 1 .. ip' - 1
        /\ \A p \in ip + 1 .. ip' - 1 : FALSE
    BY <1>1, <1>2
  <2> QED
    BY <1>15, <2>2, <2>3, <2>4 DEF BlockInv
<1>20. VisitedInv'
  <2> SUFFICES ASSUME NEW p \in 1 .. ip' - 1 PROVE Visited(p)'
    BY DEF VisitedInv
  <2>1. CASE p \in 1 .. ip - 1
    <3>1. Guarded
      BY <1>2 DEF Guarded
    <3>2. Visited(p)
      BY <1>3, <2>1, <3>1 DEF KInv, VisitedInv
    <3> QED
      BY <1>13, <1>17, <3>2, VisitedStays DEF IInv
  <2>2. CASE p = ip
    <3>1. Skipped(tree'[f].versions, key)
      <4>1. l \in DOMAIN tree'[f].versions /\ StopsAt(tree'[f].versions[l], key)
        BY <1>4, <1>12 DEF StopsAt
      <4> QED
        BY <4>1 DEF Skipped
    <3>2. OpsNow'[p].name = f /\ KeyAt(p)' = key
      BY <1>3, <1>17, <2>2
    <3> QED
      BY <3>1, <3>2 DEF Visited
  <2> QED
    BY <1>1, <1>2, <2>1, <2>2
<1>21. RerunInv'
  BY <1>15 DEF RerunInv
<1>22. AddsVersion(<<f, l>>)
  <2>1. ASSUME NEW w \in AllVersions(tree)
        PROVE  tree'[w[1]].versions[w[2]] = tree[w[1]].versions[w[2]]
    <3>1. w[1] \in Names /\ w[2] \in DOMAIN tree[w[1]].versions
      BY PlaceFacts DEF IInv
    <3>2. CASE w[1] = f
      BY <1>12, <3>1, <3>2
    <3>3. CASE w[1] # f
      BY <1>9, <3>1, <3>3
    <3> QED
      BY <3>2, <3>3
  <2>2. ASSUME NEW w \in AllVersions(tree), w[1] = f PROVE VersionAt(w).key # key
    <3>1. w[2] \in DOMAIN tree[f].versions
      BY <2>2, PlaceFacts DEF IInv
    <3> QED
      BY <1>10, <2>2, <3>1 DEF Skipped, StopsAt, VersionAt
  <2>3. \/ key_ref' \in {NoKey, key}
        \/ \E w \in AllVersions(tree) :
              w[1] = f /\ VersionAt(w).state = "ok" /\ key_ref' = VersionAt(w).key
    <3>1. CASE cfg.skip_tests
      BY <1>11, <3>1
    <3>2. CASE ~ cfg.skip_tests
      <4>1. key_ref' = Reference(tree[f].versions, key)
        BY <1>7, <3>2 DEF NewKey, f, key, t, vs
      <4>2. key \in Keys
        BY <1>1, <1>2, <1>3, CheckOp DEF IInv, f, key
      <4>3. CASE key_ref' = key
        BY <4>3
      <4>4. CASE key_ref' # key
        <5>1. PICK i \in DOMAIN tree[f].versions :
                key_ref' = tree[f].versions[i].key /\ tree[f].versions[i].state = "ok"
          BY <1>9, <4>1, <4>2, <4>4, ReferenceWorks
        <5>2. <<f, i>> \in AllVersions(tree)
          BY <1>3, <5>1, MemberOfAllVersions
        <5> QED
          BY <5>1, <5>2 DEF VersionAt
      <4> QED
        BY <4>3, <4>4
    <3> QED
      BY <3>1, <3>2
  <2>4. key_new' = key
    BY DEF NewKey, f, key
  <2> QED
    BY <1>3, <1>4, <1>11, <1>12, <1>14, <2>1, <2>2, <2>3, <2>4 DEF AddsVersion, l
<1> QED
  BY <1>5, <1>11, <1>14, <1>16, <1>18, <1>19, <1>20, <1>21, <1>22 DEF KInv

(* So every check keeps the invariant.                                       *)
LEMMA CheckFuncKeepsKInv ==
    ASSUME IInv, KInv, CheckFunc
    PROVE  KInv'
BY IgnoreKeyKeepsKInv, SkipKeyKeepsKInv, NewKeyKeepsKInv, LoopKeepsKInv DEF CheckFunc, LoopInCheck

(* A report names the functions of a group and touches no version.           *)
LEMMA ReportSameStates ==
    ASSUME IInv, NEW label, NEW next, Report(label, next)
    PROVE  SameStates(tree, tree')
<1>1. \A n \in Names : tree[n] \in Func
                       /\ [tree[n] EXCEPT !.report_name = "named"].versions = tree[n].versions
  BY DEF IInv, TypeOK, Func
<1>2. \A n \in Names : tree'[n].versions = tree[n].versions
  BY <1>1 DEF Report
<1> QED
  BY <1>2 DEF SameStates

(* checkasm_report() closes the group, and the sums start anew with the next;*)
(* after it a test leaves nothing set aside (checkasm.c:1093-1163).          *)
LEMMA ReportsKeepKInv ==
    ASSUME IInv, KInv, Reports
    PROVE  KInv'
<1> USE DEF signalVars, loopVars, cpuVars, keyVars, sumVars, savedVars, statVars,
            currentVars
<1>1. CASE ShouldFail
  <2>1. pc = "body" /\ ip \in DOMAIN OpsNow /\ Op.kind = "should_fail"
    BY <1>1, BlockOp DEF ShouldFail
  <2>2. SameSums /\ SameTest
    BY <1>1, SameTreeSameStates DEF ShouldFail, SameSums, SameTest
  <2>3. UNCHANGED <<interrupted, func_ver, key_ref, pc>> /\ ip' = ip + 1
    BY <1>1 DEF ShouldFail
  <2> QED
    BY <2>1, <2>2, <2>3, MoveKeepsKInv
<1>2. CASE LoopInReport
  BY <1>2, LoopKeepsKInv DEF LoopInReport
<1>3. ASSUME NEW label, NEW next \in {"body", "measure"}, Report(label, next)
      PROVE  /\ SumsInv' /\ SameStates(tree, tree') /\ CrashedVersions' = CrashedVersions
             /\ SameTest /\ UNCHANGED <<interrupted, func_ver, key_ref>>
             /\ interrupted = None => pc' = next
             /\ interrupted # None => pc' = "done"
  <2>1. /\ num_failed' = prev_failed + GroupFailures
        /\ prev_checked' = num_checked
        /\ prev_failed' = IF NewChecked # 0 THEN num_failed' ELSE prev_failed
        /\ SameTest /\ UNCHANGED <<interrupted, func_ver, key_ref, num_checked, savedVars>>
    BY <1>3 DEF Report, SameTest
  <2>2. SameStates(tree, tree')
    BY <1>3, ReportSameStates
  <2>3. NewChecked' = 0
    BY <2>1 DEF NewChecked, IInv, TypeOK
  <2>4. NewFailed' = 0
    <3>1. CASE NewChecked # 0
      <4>1. num_failed' \in Int
        <5>1. /\ num_failed \in Int /\ prev_failed \in Int
              /\ num_checked \in Int /\ prev_checked \in Int
          BY DEF IInv, TypeOK
        <5>2. GroupFailures \in Int
          BY <5>1 DEF GroupFailures, NewChecked, NewFailed
        <5> QED
          BY <2>1, <5>1, <5>2
      <4> QED
        BY <2>1, <3>1, <4>1 DEF NewFailed
    <3>2. CASE NewChecked = 0
      <4>1. GroupFailures = NewFailed
        BY <3>2, Zenon DEF GroupFailures
      <4>2. NewFailed = 0
        BY <3>2 DEF KInv, SumsInv
      <4> QED
        BY <2>1, <3>2, <4>1, <4>2 DEF NewFailed, IInv, TypeOK
    <3> QED
      BY <3>1, <3>2
  <2>5. CrashedVersions' = CrashedVersions
    BY <2>2, SameVersions
  <2>6. SumsInv'
    BY <2>1, <2>3, <2>4, <2>5 DEF KInv, SumsInv
  <2> QED
    BY <1>3, <2>1, <2>2, <2>5, <2>6 DEF Report, HandleInterrupt, Exit
<1>4. CASE ReportGroup
  <2>1. /\ pc = "body" /\ ip \in DOMAIN OpsNow /\ Op.kind = "report" /\ Op = OpsNow[ip]
        /\ pc \in InTest /\ Guarded
    BY <1>4, BlockOp DEF ReportGroup, Guarded
  <2>2. /\ SumsInv' /\ SameStates(tree, tree') /\ CrashedVersions' = CrashedVersions
        /\ SameTest /\ UNCHANGED <<interrupted, func_ver, key_ref>>
        /\ interrupted = None => pc' = "body"
        /\ interrupted # None => pc' = "done"
    BY <1>3, <1>4 DEF ReportGroup
  <2>3. ip' = ip + 1
    BY <1>4 DEF ReportGroup
  <2>4. CASE interrupted # None
    BY <2>2, <2>4, EndKeepsKInv DEF Final
  <2>5. CASE interrupted = None
    <3>1. DOMAIN OpsNow = 1 .. Len(OpsNow) /\ Len(OpsNow) \in Nat /\ ip \in Nat \ {0}
      BY <2>1, OpsFacts
    <3>2. OpsNow' = OpsNow
      BY <2>2, SameTestFacts
    <3>3. CallsInv'
      BY <2>2, <2>5 DEF CallsInv
    <3>4. /\ \A p \in 1 .. ip - 1 : p \in 1 .. ip' - 1
          /\ \A p \in 1 .. ip' - 1 : p \in 1 .. ip - 1 \/ p = ip
          /\ \A k \in Nat : \A p \in k + 1 .. ip - 1 : p \in k + 1 .. ip' - 1
          /\ \A k \in Nat : \A p \in k + 1 .. ip' - 1 : p \in k + 1 .. ip - 1 \/ p = ip
      BY <2>3, <3>1, NextPlace
    <3>5. BlockInv'
      <4> SUFFICES ASSUME key_ref # NoKey PROVE BlockInv'
        BY <2>2 DEF BlockInv
      <4>1. CrashedVersions = {} /\ func_ver \in AllVersions(tree)
        BY <2>1 DEF KInv, BlockInv, IInv, TypeOK, ControlInv
      <4>2. PICK c \in 1 .. ip - 1 :
              Culprit(c, func_ver) /\ \A p \in c + 1 .. ip - 1 : OpsNow[p].kind # "check"
        BY <2>1 DEF KInv, BlockInv
      <4>3. Culprit(c, func_ver)'
        BY <2>2, <4>1, <4>2, SameCulprit DEF IInv
      <4>4. c \in Nat
        BY <3>1
      <4>5. c \in 1 .. ip' - 1 /\ \A p \in c + 1 .. ip' - 1 : OpsNow'[p].kind # "check"
        BY <2>1, <3>1, <3>2, <3>4, <4>2, <4>4
      <4>6. ~ Waiting(c)'
        <5>1. ip \in c + 1 .. ip' - 1
          BY <2>3, <3>1
        <5> QED
          BY <2>1, <3>2, <5>1 DEF Waiting
      <4> QED
        BY <2>2, <4>1, <4>3, <4>5, <4>6 DEF BlockInv
    <3>6. VisitedInv'
      <4> SUFFICES ASSUME NEW p \in 1 .. ip' - 1 PROVE Visited(p)'
        BY DEF VisitedInv
      <4>1. Visited(p)
        <5>1. CASE p \in 1 .. ip - 1
          BY <2>1, <2>5, <5>1 DEF KInv, VisitedInv
        <5>2. CASE p = ip
          BY <2>1, <5>2 DEF Visited, Asks
        <5> QED
          BY <3>4, <5>1, <5>2
      <4> QED
        BY <2>2, <4>1, VisitedStays, SameStatesExtend DEF IInv
    <3>7. RerunInv'
      <4> SUFFICES ASSUME NEW fv \in CrashedVersions
                   PROVE  \E c \in DOMAIN OpsNow' :
                              /\ Culprit(c, fv)'
                              /\ \A p \in 1 .. c - 1 : Visited(p)'
                              /\ ip' <= c
        BY <2>2, <2>5 DEF RerunInv
      <4>1. PICK c \in DOMAIN OpsNow :
              Culprit(c, fv) /\ (\A p \in 1 .. c - 1 : Visited(p)) /\ ip <= c
        BY <2>1, <2>5 DEF KInv, RerunInv
      <4>2. c # ip
        BY <2>1, <4>1 DEF Culprit, Asks
      <4>3. fv \in AllVersions(tree)
        BY DEF CrashedVersions
      <4>4. Culprit(c, fv)' /\ (\A p \in 1 .. c - 1 : Visited(p)')
        BY <2>2, <4>1, <4>3, SameCulprit, VisitedStays, SameStatesExtend DEF IInv
      <4> QED
        BY <2>3, <3>1, <3>2, <4>1, <4>2, <4>4
    <3> QED
      BY <2>2, <3>3, <3>5, <3>6, <3>7 DEF KInv
  <2> QED
    BY <2>4, <2>5
<1>5. CASE ReportRest
  <2>1. pc = "body" /\ ip > Len(OpsNow)
    BY <1>5 DEF ReportRest, OpsNow
  <2>2. /\ SumsInv' /\ CrashedVersions' = CrashedVersions
        /\ interrupted = None => pc' = "measure"
        /\ interrupted # None => pc' = "done"
    BY <1>3, <1>5 DEF ReportRest
  <2>3. CASE interrupted # None
    BY <2>2, <2>3, EndKeepsKInv DEF Final
  <2>4. CASE interrupted = None
    <3>1. DOMAIN OpsNow = 1 .. Len(OpsNow) /\ Len(OpsNow) \in Nat /\ ip \in Nat \ {0}
      BY <2>1, OpsFacts DEF InTest
    <3>2. CrashedVersions = {}
      <4> SUFFICES ASSUME NEW fv \in CrashedVersions PROVE FALSE
        OBVIOUS
      <4>1. PICK c \in DOMAIN OpsNow : ip <= c
        BY <2>1, <2>4 DEF KInv, RerunInv
      <4> QED
        BY <2>1, <3>1, <4>1
    <3>3. ~ Guarded'
      BY <2>2, <2>4 DEF Guarded, Calls
    <3> QED
      BY <2>2, <3>2, <3>3, OutsideKeepsKInv
  <2> QED
    BY <2>3, <2>4
<1> QED
  BY <1>1, <1>2, <1>4, <1>5 DEF Reports

(* The summary, and the next iteration that starts from nothing.             *)
LEMMA EmptyRegistry ==
    AllVersions([n \in Names |-> NewFunc]) = {}
<1> SUFFICES ASSUME NEW fv \in AllVersions([n \in Names |-> NewFunc]) PROVE FALSE
  OBVIOUS
<1>1. PICK n \in Names : \E i \in DOMAIN [m \in Names |-> NewFunc][n].versions : fv = <<n, i>>
  BY MemberOfAllVersions
<1>2. DOMAIN NewFunc.versions = {}
  BY DEF NewFunc
<1> QED
  BY <1>1, <1>2

(* The end of the run, or of an iteration (checkasm.c:898-924).              *)
LEMMA SummaryKeepsKInv ==
    ASSUME IInv, KInv, Summary
    PROVE  KInv'
<1>1. CASE Finish
  <2>1. SameSums /\ pc' = "done"
    BY <1>1, SameTreeSameStates
       DEF Finish, Exit, SameSums, dataVars, currentVars, sumVars, savedVars
  <2>2. SumsInv'
    BY <2>1, SumsInvStays DEF KInv
  <2> QED
    BY <2>1, <2>2, EndKeepsKInv DEF Final
<1>2. CASE NextIteration
  <2>1. tree' = [n \in Names |-> NewFunc] /\ pc' = "init" /\ ClearSums
    BY <1>2 DEF NextIteration, ClearPointers
  <2>2. CrashedVersions' = {}
    BY <2>1, EmptyRegistry DEF CrashedVersions
  <2>3. SumsInv'
    BY <2>1, <2>2 DEF SumsInv, ClearSums, NewChecked, NewFailed
  <2>4. ~ Guarded'
    BY <2>1 DEF Guarded, Calls
  <2> QED
    BY <2>2, <2>3, <2>4, OutsideKeepsKInv
<1> QED
  BY <1>1, <1>2 DEF Summary

(* A user's signal leaves the sums alone, and nobody checks anything then.   *)
LEMMA InterruptKeepsKInv ==
    ASSUME IInv, KInv, NEW s \in Interrupts, Interrupt(s)
    PROVE  KInv'
<1>0. /\ UNCHANGED <<cfg, test, ip, tree, func_ver, key_ref, cpu_flags, num_checked, num_failed,
                     prev_checked, prev_failed, saved_checked, saved_failed>>
  BY DEF Interrupt, dataVars, currentVars, sumVars, savedVars, keyVars, cpuVars, loopVars
<1>1. SameSums
  BY <1>0, SameTreeSameStates DEF SameSums
<1>2. SumsInv' /\ CrashedVersions' = CrashedVersions
  BY <1>1, SumsInvStays DEF KInv
<1>3. CASE s \notin handlers
  BY <1>2, <1>3, EndKeepsKInv DEF Interrupt, Final
<1>4. CASE s \in handlers
  <2>1. interrupted' # None /\ pc' \in {pc, "recover", "undefined"} /\ "undefined" \in Final
    BY <1>4, InterruptsAssumption
       DEF Interrupt, InterruptJump, JumpOut, LoadContext, Final
  <2>2. Guarded' => Guarded /\ pc' = pc
    BY <2>1 DEF Guarded, Calls, Final
  <2>3. CallsInv'
    BY <1>0, <2>2 DEF CallsInv, KInv, OpsNow, Op, Tests
  <2>4. BlockInv'
    <3> SUFFICES ASSUME Guarded, key_ref # NoKey PROVE BlockInv'
      BY <1>0, <2>2 DEF BlockInv
    <3>1. BlockInv /\ UNCHANGED <<key_ref, CrashedVersions, ip, func_ver, tree, OpsNow>>
      BY <1>0, <1>2 DEF KInv, OpsNow, Tests
    <3>2. Counted' <=> Counted
      BY <1>0 DEF Counted, NewChecked, NewFailed, VersionAt
    <3>3. \A c : Culprit(c, func_ver)' <=> Culprit(c, func_ver)
      BY <1>0, <3>1 DEF Culprit, Asks, KeyAt, VersionAt
    <3>4. \A c : Waiting(c)' <=> Waiting(c)
      BY <3>1 DEF Waiting
    <3> QED
      BY <3>1, <3>2, <3>3, <3>4 DEF BlockInv
  <2>5. VisitedInv' /\ RerunInv'
    BY <1>2, <2>1 DEF VisitedInv, RerunInv, KInv
  <2> QED
    BY <1>2, <2>3, <2>4, <2>5 DEF KInv
<1> QED
  BY <1>3, <1>4

-----------------------------------------------------------------------------
(* A process that starts has nothing to count.                               *)
LEMMA InitKInv == Init => KInv
<1> SUFFICES ASSUME Init PROVE KInv
  OBVIOUS
<1>1. tree = [n \in Names |-> NewFunc]
  BY DEF Init, Cleared
<1>2. CrashedVersions = {}
  BY <1>1, EmptyRegistry DEF CrashedVersions
<1>3. SumsInv
  BY <1>2 DEF Init, Cleared, SumsInv, NewChecked, NewFailed
<1>4. ~ Guarded
  BY DEF Init, Guarded, Calls
<1> QED
  BY <1>2, <1>3, <1>4 DEF KInv, CallsInv, BlockInv, VisitedInv, RerunInv

(* Every step keeps the invariant, one that changes nothing included.        *)
LEMMA StutterKeepsKInv ==
    ASSUME KInv, UNCHANGED vars
    PROVE  KInv'
<1>1. UNCHANGED <<cfg, interrupted, pc, test, ip, cpu_flags, func_ver, key_ref, tree,
                  num_checked, num_failed, prev_checked, prev_failed, saved_checked, saved_failed>>
  BY DEF vars, signalVars, loopVars, cpuVars, keyVars, sumVars, savedVars, statVars,
         currentVars, dataVars
<1>2. UNCHANGED <<AllVersions(tree), OpsNow, Guarded>>
  BY <1>1 DEF OpsNow, Tests, Guarded
<1>3. UNCHANGED <<CrashedVersions, NewChecked, NewFailed, Counted, Op>>
  BY <1>1, <1>2 DEF CrashedVersions, VersionAt, NewChecked, NewFailed, Counted, Op, Tests
<1>4. \A c, fv : Culprit(c, fv)' <=> Culprit(c, fv)
  BY <1>1, <1>2 DEF Culprit, Asks, KeyAt, VersionAt
<1>5. \A p : Visited(p)' <=> Visited(p)
  BY <1>1, <1>2 DEF Visited, Asks, KeyAt
<1>6. \A c : Waiting(c)' <=> Waiting(c)
  BY <1>1, <1>2 DEF Waiting
<1>7. SumsInv' /\ CallsInv'
  BY <1>1, <1>2, <1>3 DEF KInv, SumsInv, CallsInv
<1>8. BlockInv'
  BY <1>1, <1>2, <1>3, <1>4, <1>6 DEF KInv, BlockInv
<1>9. VisitedInv' /\ RerunInv'
  BY <1>1, <1>2, <1>3, <1>4, <1>5 DEF KInv, VisitedInv, RerunInv
<1> QED
  BY <1>7, <1>8, <1>9 DEF KInv

(* So does every step of the runner.                                         *)
LEMMA StepKeepsKInv ==
    ASSUME IInv, KInv, [Next]_vars
    PROVE  KInv'
<1>1. CASE Step
  BY <1>1, RunTestsKeepsKInv, RecoverKeepsKInv, CheckFuncKeepsKInv, TestBlockKeepsKInv,
     BenchKeepsKInv, CalleeKeepsKInv, ReportsKeepKInv, SummaryKeepsKInv DEF Step
<1>2. CASE \E s \in Interrupts : Interrupt(s)
  BY <1>2, InterruptKeepsKInv
<1>3. CASE UNCHANGED vars
  BY <1>3, StutterKeepsKInv
<1> QED
  BY <1>1, <1>2, <1>3 DEF Next, Hang, Terminated

(* So it always holds, with the invariant of the control.                    *)
LEMMA SumsInvariance == Spec => [](IInv /\ KInv)
BY InitIInv, StepKeepsIInv, InitKInv, StepKeepsKInv, PTL DEF Spec

-----------------------------------------------------------------------------
(* Counting versions.                                                        *)

(* No version is added, and none counted or forgotten.                       *)
SameCount ==
    /\ cfg' = cfg /\ AllVersions(tree') = AllVersions(tree)
    /\ num_checked' + saved_checked' = num_checked + saved_checked

(* Setting one version's state adds none.                                    *)
LEMMA FailureAddsNone ==
    ASSUME TypeOK, FailInternal
    PROVE  AllVersions(tree') = AllVersions(tree)
<1>1. CASE Fails
  <2>1. func_ver \in AllVersions(tree) /\ tree' = SetState(tree, func_ver, "failed")
    BY <1>1 DEF FailInternal, Fails, TypeOK
  <2> QED
    BY <2>1, SetStateFacts
<1>2. CASE ~ Fails
  BY <1>2 DEF FailInternal
<1> QED
  BY <1>1, <1>2

(* Nothing but a check that finds a version nobody tested yet adds one, and  *)
(* nothing but the next iteration forgets them.                              *)
LEMMA OnlyNewKeyCounts ==
    ASSUME IInv, KInv, [Next]_vars, ~ NewKey, ~ NextIteration
    PROVE  SameCount
<1> USE DEF signalVars, loopVars, cpuVars, keyVars, sumVars, savedVars, statVars,
            currentVars, dataVars
<1>0. CASE cfg' = cfg /\ tree' = tree /\ num_checked' = num_checked /\ saved_checked' = saved_checked
  BY <1>0 DEF SameCount
<1>1. CASE UNCHANGED vars \/ Hang \/ Terminated \/ \E s \in Interrupts : Interrupt(s)
  BY <1>0, <1>1 DEF Hang, Terminated, Interrupt, vars
<1>2. CASE RunTests
  BY <1>0, <1>2 DEF RunTests, InitHooks, SkipCpu, EnterCpu, SkipTest, SaveContext, EnterTest,
                    Measure, LeaveCpu, UninitHooks
<1>3. CASE Recover
  <2>1. CASE interrupted # None
    BY <1>0, <1>3, <2>1 DEF Recover
  <2>2. CASE interrupted = None
    <3>1. /\ pc = "recover" /\ cfg' = cfg /\ SetAside
          /\ func_ver \in AllVersions(tree) /\ tree' = SetState(tree, func_ver, "crashed")
      BY <1>3, <2>2 DEF Recover, IInv, TypeOK
    <3>2. AllVersions(tree') = AllVersions(tree)
      BY <3>1, SetStateFacts DEF IInv
    <3>3. Guarded /\ key_ref # NoKey
      BY <2>2, <3>1 DEF Guarded, KInv, CallsInv
    <3>4. saved_checked = 0
      BY <3>3 DEF KInv, BlockInv, SumsInv, IInv, TypeOK
    <3> QED
      BY <3>1, <3>2, <3>4 DEF SetAside, SameCount, IInv, TypeOK
  <2> QED
    BY <2>1, <2>2
<1>4. CASE IgnoreKey \/ LoopInCheck
  BY <1>0, <1>4 DEF IgnoreKey, LoopInCheck, LoopForever
<1>5. CASE SkipKey
  <2> DEFINE f == Op.name
             key == Op.impl[cpu_flags]
  <2>1. /\ tree' = SettledTree(f, key) /\ RestoreSaved(f, key) /\ cfg' = cfg
        /\ num_checked' = num_checked + SavedChecked(f, key)
    BY <1>5 DEF SkipKey
  <2>2. f \in Names
    <3>1. InOp("check")
      BY <1>5 DEF SkipKey
    <3>2. test \in 1 .. Len(Tests)
      BY <3>1 DEF InOp, InTest, IInv, ControlInv
    <3> QED
      BY <3>1, <3>2, CheckOp DEF IInv
  <2>3. AllVersions(tree') = AllVersions(tree)
    BY <2>1, <2>2, SettledFacts DEF IInv
  <2> QED
    BY <2>1, <2>3 DEF SameCount, RestoreSaved, SavedChecked, IInv, TypeOK
<1>6. CASE TestBlock
  <2>1. CASE Compare
    BY <1>0, <2>1, FailureAddsNone DEF Compare, SameCount, IInv
  <2> QED
    BY <1>0, <1>6, <2>1 DEF TestBlock, SkipBlock, CallRef, CallNew, CallInsteadOfBench, Call
<1>7. CASE Bench
  <2>1. AllVersions(tree') = AllVersions(tree)
    BY <1>7, BenchSameStates, SameVersions
  <2> QED
    BY <1>7, <2>1 DEF Bench, BenchStart, BenchArm, BenchSample, BenchFinish, Call, SameCount
<1>8. CASE Callee
  <2>1. CASE FailAbort
    BY <2>1, FailureAddsNone DEF FailAbort, SameCount, IInv
  <2> QED
    BY <1>0, <1>8, <2>1 DEF Callee, Return, Crash
<1>9. CASE Reports
  <2>1. CASE ReportGroup \/ ReportRest
    <3>1. \E label, next : Report(label, next)
      BY <2>1 DEF ReportGroup, ReportRest
    <3>2. AllVersions(tree') = AllVersions(tree)
      BY <3>1, ReportSameStates, SameVersions
    <3> QED
      BY <3>1, <3>2 DEF Report, SameCount
  <2> QED
    BY <1>0, <1>9, <2>1 DEF Reports, ShouldFail, LoopInReport, LoopForever
<1>10. CASE Finish
  BY <1>0, <1>10 DEF Finish
<1> QED
  BY <1>1, <1>2, <1>3, <1>4, <1>5, <1>6, <1>7, <1>8, <1>9, <1>10
     DEF Next, Step, CheckFunc, Summary

(* A new version is counted once, and the next iteration starts from none.   *)
LEMMA StepKeepsCount ==
    ASSUME IInv, KInv, CountInv, [Next]_vars
    PROVE  CountInv'
<1>1. CASE NewKey
  <2>0. cfg' = cfg
    BY <1>1 DEF NewKey
  <2>1. CASE cfg.skip_tests
    BY <2>0, <2>1 DEF CountInv
  <2>2. CASE ~ cfg.skip_tests
    <3>1. /\ num_checked' = num_checked + 1 /\ saved_checked' = saved_checked
      BY <1>1, <2>2, NewKeyKeepsKInv
    <3>2. PICK fv : fv \notin AllVersions(tree) /\ AllVersions(tree') = AllVersions(tree) \cup {fv}
      BY <1>1, NewKeyKeepsKInv DEF AddsVersion
    <3>3. /\ IsFiniteSet(AllVersions(tree'))
          /\ Cardinality(AllVersions(tree')) = Cardinality(AllVersions(tree)) + 1
      BY <2>2, <3>2, FS_AddElement DEF CountInv
    <3> QED
      BY <2>2, <3>1, <3>3 DEF CountInv, IInv, TypeOK
  <2> QED
    BY <2>1, <2>2
<1>2. CASE NextIteration
  <2>1. /\ AllVersions(tree') = {} /\ num_checked' = 0 /\ saved_checked' = 0
    BY <1>2, EmptyRegistry DEF NextIteration, ClearPointers, ClearSums
  <2> QED
    BY <2>1, FS_EmptySet DEF CountInv
<1>3. CASE ~ NewKey /\ ~ NextIteration
  BY <1>3, OnlyNewKeyCounts DEF SameCount, CountInv
<1> QED
  BY <1>1, <1>2, <1>3

-----------------------------------------------------------------------------
(* The theorems.                                                             *)

(* However many functions crash, one crash is dealt with before the next:    *)
(* no second one can overwrite what was set aside for the first              *)
(* (checkasm.c:587-595, 958-970).                                            *)
THEOREM CrashesComeOneByOne == Spec => []OneCrashAtATime
<1>1. ASSUME KInv PROVE OneCrashAtATime
  <2>1. Cardinality(CrashedVersions) <= 1
    <3>1. CASE CrashedVersions = {}
      BY <3>1, FS_EmptySet
    <3>2. CASE CrashedVersions # {}
      <4>1. PICK fv : CrashedVersions = {fv}
        BY <1>1, <3>2 DEF KInv, SumsInv
      <4> QED
        BY <4>1, FS_Singleton
    <3> QED
      BY <3>1, <3>2
  <2> QED
    BY <1>1, <2>1 DEF KInv, SumsInv, OneCrashAtATime
<1> QED
  BY <1>1, SumsInvariance, PTL

(* Whatever crashes, and however often its test is run again: by the time a  *)
(* test is left for good its rerun has reached the function that crashed, and*)
(* nothing stays set aside (checkasm.c:587-601).                             *)
THEOREM NothingStaysAside == Spec => []NothingSetAside
<1>1. ASSUME IInv, KInv PROVE NothingSetAside
  <2> SUFFICES ASSUME pc \in {"measure", "test", "flag", "summary"}
               PROVE  saved_checked = 0 /\ saved_failed = 0 /\ CrashedVersions = {}
    BY DEF NothingSetAside
  <2>1. CrashedVersions = {}
    BY <1>1 DEF KInv, RerunInv, Final
  <2> QED
    BY <1>1, <2>1 DEF KInv, SumsInv, IInv, TypeOK
<1> QED
  BY <1>1, SumsInvariance, PTL

(* Every version that was ever recorded is counted once, in the open group,  *)
(* in a reported one or among what is set aside (checkasm.c:587-595, 1031).  *)
THEOREM AllVersionsCounted == Spec => []EveryVersionCounted
<1>1. Init => CountInv
  <2> SUFFICES ASSUME Init PROVE CountInv
    OBVIOUS
  <2>1. AllVersions(tree) = {} /\ num_checked = 0 /\ saved_checked = 0
    BY EmptyRegistry DEF Init, Cleared
  <2> QED
    BY <2>1, FS_EmptySet DEF CountInv
<1>2. IInv /\ KInv /\ CountInv /\ [Next]_vars => CountInv'
  BY StepKeepsCount
<1>3. CountInv => EveryVersionCounted
  BY DEF CountInv, EveryVersionCounted
<1> QED
  BY <1>1, <1>2, <1>3, SumsInvariance, PTL DEF Spec
=============================================================================
