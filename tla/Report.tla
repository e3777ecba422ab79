------------------------------- MODULE Report -------------------------------
(***************************************************************************)
(* The report of the benchmarks as JSON, alone or within HTML (checkasm.c):   *)
(* the calls of the JSON writer that print_benchmarks() makes, one by one.    *)
(*                                                                         *)
(* What is reported is a record: the functions as the walk of the tree meets  *)
(* them, each with its versions, and what of the configuration was set.       *)
(***************************************************************************)
EXTENDS Json

CONSTANTS
    Reports,  \* the reports
    Labels    \* the names of functions, and the suffixes of flags and versions

ASSUME LabelsAssumption == NoKey \notin Labels

FlagInfo == [suffix : Labels, mask : BOOLEAN, masks : Nat]
FunctionVersion == [suffix : Labels, measured : BOOLEAN, samples : Int]
ReportedFunction == [name : Labels, reported : BOOLEAN, versions : Seq(FunctionVersion)]
ASSUME ReportsAssumption ==
    \A r \in Reports :
        /\ r.infos \in Nat /\ r.tests \in Nat /\ r.nop_samples \in Int /\ r.scale_samples \in Int
        /\ r.flags \in Seq(FlagInfo) /\ r.functions \in Seq(ReportedFunction)
(* The tree has a function of a name once, and flags have suffixes of their    *)
(* own.  A test that checks two functions of one name for one CPU makes two    *)
(* versions with the same suffix, and two equal keys; such tests are left out. *)
ASSUME KeysDiffer ==
    \A r \in Reports :
        /\ \A a, b \in DOMAIN r.flags : r.flags[a].suffix = r.flags[b].suffix => a = b
        /\ \A a, b \in DOMAIN r.functions : r.functions[a].name = r.functions[b].name => a = b
        /\ \A i \in DOMAIN r.functions :
              LET vs == r.functions[i].versions
              IN  \A a, b \in DOMAIN vs : vs[a].suffix = vs[b].suffix => a = b

VARIABLES
    report,  \* what is reported
    calls,   \* how many calls of the writer were made
    json,    \* the writer
    reader,  \* the reader
    found    \* the benchmarks it read: <<function, version>>

reportVars == <<report, calls, json, reader, found>>

-----------------------------------------------------------------------------
Keyed(key, body) == IF key = NoKey THEN body ELSE << Push(key, "object") >> \o body \o << Pop("object") >>
Optional(condition, body) == IF condition THEN body ELSE << >>
Items(keys) == [i \in DOMAIN keys |-> Item(keys[i])]
Array(key, n) == << Push(key, "array") >> \o [i \in 1 .. n |-> Item(NoKey)] \o << Pop("array") >>
ForEach(seq, Op(_)) == FlattenSeq([i \in DOMAIN seq |-> Op(seq[i])])

(* json_var() and json_measurement()                                         *)
VarKeys == << "mode", "median", "mean", "lowerCI", "upperCI", "stdDev", "logMean", "logVar" >>
Var(key, unit) == Keyed(key, Optional(unit, << Item("unit") >>) \o Items(VarKeys))
Measurement(key, samples) ==
    Keyed(key,
        Var(NoKey, TRUE) \o << Item("numMeasurements") >>
        \o Optional(samples > 0,
               Var("regressionSlope", TRUE) \o Array("rawData", samples)))

(* cpu_mask_json()                                                           *)
CpuMask(info) == Optional(info.mask, Array("mask", info.masks))
CpuFlag(info) == Keyed(info.suffix, Items(<<"name", "available">>) \o CpuMask(info))

(* print_bench_header()                                                      *)
Settings(r) ==
    Items(<<"checkasmVersion", "numChecked", "numFailed", "targetCycles", "numBenchmarks">>)
    \o Keyed("config",
           Optional(r.test_pattern, << Item("testPattern") >>)
           \o Optional(r.function_pattern, << Item("functionPattern") >>)
           \o Items(<<"benchUsec", "seed", "repeat">>)
           \o Optional(r.affinity, << Item("cpuAffinity") >>))
    \o Array("cpuInfo", r.infos) \o Keyed("cpuFlags", ForEach(r.flags, CpuFlag))
    \o Array("tests", r.tests)
    \o Measurement("nopCycles", r.nop_samples) \o Measurement("timerScale", r.scale_samples)
    \o Var("nopTime", TRUE) \o << Item("numFunctions") >>
Header(r) == << Push(NoKey, "object") >> \o Settings(r) \o << Push("functions", "object") >>

(* print_bench_iter(), for one function: nothing at all unless one of its     *)
(* versions was measured, and a ratio where the first one was as well.       *)
Ratio(f, v) == v.suffix # f.versions[1].suffix /\ f.versions[1].measured
Version(f, v) ==
    Keyed(v.suffix,
        Measurement("rawCycles", v.samples)
        \o Var("rawTime", TRUE) \o Var("adjustedCycles", TRUE) \o Var("adjustedTime", TRUE)
        \o Optional(Ratio(f, v), Var("ratio", FALSE)))
FunctionAtOnce(f, versions) ==  \* faulty: the header is not put off
    Keyed(f.name, << Item("testName") >> \o Keyed("versions", versions))
FunctionVersions(f, versions) ==
    Optional(versions # << >>,
        Keyed(f.name,
            << Item("testName") >> \o Optional(f.reported, << Item("reportName") >>)
            \o Keyed("versions", versions)))
VersionIfMeasured(f, v) == Optional(v.measured, Version(f, v))
Function(f) == FunctionVersions(f, ForEach(f.versions, LAMBDA v : VersionIfMeasured(f, v)))

(* print_bench_footer()                                                      *)
Footer == << Pop("object") >> \o Items(<<"averageError", "maximumError">>) \o << Pop("object") >>

Script == [r \in Reports |-> Header(r) \o ForEach(r.functions, Function) \o Footer]

-----------------------------------------------------------------------------
NoReport == [functions |-> << >>]
ReportInit ==
    /\ report = NoReport /\ calls = 0
    /\ json = Empty /\ reader = NewReader /\ found = {}

PrintBenchmarks ==
    /\ report = NoReport
    /\ report' \in Reports
    /\ UNCHANGED <<calls, json, reader, found>>

(* Where in the document a version of a function stands.                     *)
IsVersion(path) == Len(path) >= 6 /\ path[2] = "functions" /\ path[4] = "versions"

Write ==
    /\ report # NoReport /\ calls < Len(Script[report])
    /\ LET c == Script[report][calls + 1]
       IN  /\ Asserted(json, c)
           /\ json' = Written(json, c)
           /\ reader' = ReadAll(reader, Tokens(json, c))
           /\ found' = IF reader'.ok /\ IsVersion(Where(reader'))
                       THEN found \cup {<<Where(reader')[3], Where(reader')[5]>>} ELSE found
    /\ calls' = calls + 1
    /\ UNCHANGED report

ReportDone ==
    /\ report # NoReport /\ calls = Len(Script[report])
    /\ UNCHANGED reportVars

ReportNext == PrintBenchmarks \/ Write
ReportSpec == ReportInit /\ [][ReportNext \/ ReportDone]_reportVars

-----------------------------------------------------------------------------
(* Whatever was benchmarked and configured, what comes out is one document of *)
(* JSON: nested and separated correctly, in an object every value with a key  *)
(* of its own, although the writer remembers no more than one bit; and it is  *)
(* back at level 0 (utils.c:570-638, checkasm.c:462).                        *)
WellFormedJson ==
    /\ reader.ok
    /\ json.level = 2 * (Len(reader.open) - 1)
    /\ report # NoReport /\ calls = Len(Script[report]) => ReadDocument(reader)

(* The benchmarks are all in the report, and a function none of whose versions *)
(* was measured is not: the reader finds exactly the versions that were, each *)
(* under its function, and never a function without any (checkasm.c:383-451). *)
Benchmarked(r) ==
    UNION { { <<f.name, v.suffix>> : v \in { v \in ToSet(f.versions) : v.measured } } :
            f \in ToSet(r.functions) }
FunctionKeys ==
    IF Len(reader.open) = 3 /\ reader.open[2].key = "functions" THEN reader.open[3].keys ELSE {}
ReportsBenchmarks ==
    /\ found \subseteq Benchmarked(report)
    /\ FunctionKeys \subseteq { b[1] : b \in found }
    /\ report # NoReport /\ calls = Len(Script[report]) => found = Benchmarked(report)
=============================================================================
