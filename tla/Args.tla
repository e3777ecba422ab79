-------------------------------- MODULE Args --------------------------------
(***************************************************************************)
(* checkasm_main() (checkasm.c): the command line, one argument at a time,   *)
(* written over the configuration the program was built with.               *)
(*                                                                         *)
(* An argument is [opt, text]: opt is an option, or "text" for an argument    *)
(* that is none, and text is what follows the "=", or the argument itself.   *)
(* A text is [name, negative, dec, hex]: dec and hex are its magnitude when   *)
(* it is read as a number in these bases, or NaN.                            *)
(***************************************************************************)
EXTENDS Integers, Sequences

CONSTANTS
    Texts,      \* the texts a command line may contain
    CmdLines,   \* command lines: sequences of arguments
    UIntMax,    \* (unsigned) -1
    ULongMax,   \* (unsigned long) -1
    HtmlData    \* HAVE_HTML_DATA

NaN == -1
Null == "null"

ASSUME ArgsWidths == UIntMax \in Nat /\ ULongMax \in Nat /\ UIntMax <= ULongMax
ASSUME ArgsHtml == HtmlData \in BOOLEAN
ASSUME ArgsLines ==
    /\ CmdLines \subseteq Seq([opt : STRING, text : Texts])
    /\ \A t \in Texts : t.negative \in BOOLEAN /\ {t.dec, t.hex} \subseteq Nat \cup {NaN}

VARIABLES
    argv,      \* the command line, without the program's name
    argi,      \* the argument that is argv[1] in the code
    argConfig, \* what the arguments so far made of *config
    main       \* what checkasm_main() came to: "parsing", "run" or what it returned

argsVars == <<argv, argi, argConfig, main>>

(* The configuration before the first argument: all zero.                    *)
DefaultConfig ==
    [ bench |-> FALSE, format |-> "pretty", verbose |-> FALSE, bench_usec |-> 0, repeat |-> 0,
      test_pattern |-> Null, function_pattern |-> Null,
      cpu_affinity_set |-> FALSE, cpu_affinity |-> 0, seed_set |-> FALSE, seed |-> 0 ]

(* parseu(): strtoul() negates modulo 2^n what has a minus sign.             *)
StrToUL(text, m) == IF text.negative THEN (ULongMax + 1 - m) % (ULongMax + 1) ELSE m
ParseU(text, base) ==
    LET m == IF base = 16 THEN text.hex ELSE text.dec
    IN  IF m = NaN \/ m > ULongMax \/ StrToUL(text, m) > UIntMax THEN NaN ELSE StrToUL(text, m)

-----------------------------------------------------------------------------
ArgsInit == argv = << >> /\ argi = 0 /\ argConfig = DefaultConfig /\ main = "idle"

MainBegin ==
    /\ main = "idle"
    /\ argv' \in CmdLines /\ argi' = 1 /\ main' = "parsing"
    /\ UNCHANGED argConfig

Arg == argv[argi]
At(options) == main = "parsing" /\ argi <= Len(argv) /\ Arg.opt \in options
Set(config) == argConfig' = config /\ argi' = argi + 1 /\ UNCHANGED <<argv, main>>
Return(result, config) == main' = result /\ argConfig' = config /\ UNCHANGED <<argv, argi>>

(* --help and the lists: nothing that comes after them is looked at.         *)
Information == {"--help", "-h", "--list-cpu-flags", "--list-tests", "--list-functions"}
Inform == At(Information) /\ Return(IF Arg.opt \in {"--help", "-h"} THEN "usage" ELSE Arg.opt, argConfig)

SetBench == At({"--bench", "-b"}) /\ Set([argConfig EXCEPT !.bench = TRUE])
SetBenchOf ==
    /\ At({"--bench="})
    /\ Set([argConfig EXCEPT !.bench = TRUE, !.function_pattern = Arg.text.name])
SetVerbose == At({"--verbose", "-v"}) /\ Set([argConfig EXCEPT !.verbose = TRUE])
SetTests == At({"--test="}) /\ Set([argConfig EXCEPT !.test_pattern = Arg.text.name])
SetFunctions == At({"--function="}) /\ Set([argConfig EXCEPT !.function_pattern = Arg.text.name])

(* -t and -f: the next argument is the pattern, whatever it looks like; after *)
(* the last one argv[] holds a null pointer.                                 *)
OperandAsOption == argi + 1  \* faulty: the pattern is looked at once more
AfterOperand == argi + 2
Operand == IF argi < Len(argv) THEN argv[argi + 1].text.name ELSE Null
SetPattern ==
    /\ At({"-t", "-f"})
    /\ argConfig' = IF Arg.opt = "-t" THEN [argConfig EXCEPT !.test_pattern = Operand]
                    ELSE [argConfig EXCEPT !.function_pattern = Operand]
    /\ argi' = AfterOperand
    /\ UNCHANGED <<argv, main>>

Formats == [o \in {"--csv", "--tsv", "--json"} |->
                IF o = "--csv" THEN "csv" ELSE IF o = "--tsv" THEN "tsv" ELSE "json"]
SetFormat == At(DOMAIN Formats) /\ Set([argConfig EXCEPT !.format = Formats[Arg.opt]])
SetHtml ==
    /\ At({"--html"})
    /\ IF HtmlData THEN Set([argConfig EXCEPT !.format = "html"]) ELSE Return("error", argConfig)

(* The numbers: affinity in base 16.  Whether there is an affinity or a seed   *)
(* is noted before it is read.                                               *)
SetNumber(config, number, next) ==
    IF number = NaN THEN Return("error", config) ELSE Set(next)

SetDuration ==
    /\ At({"--duration="})
    /\ LET n == ParseU(Arg.text, 10)
       IN  SetNumber(argConfig, n, [argConfig EXCEPT !.bench_usec = n])
SetAffinity ==
    /\ At({"--affinity="})
    /\ LET n == ParseU(Arg.text, 16)
           c == [argConfig EXCEPT !.cpu_affinity_set = TRUE]
       IN  SetNumber(c, n, [c EXCEPT !.cpu_affinity = n])
SetRepeat ==
    /\ At({"--repeat="})
    /\ LET n == ParseU(Arg.text, 10)
       IN  SetNumber(argConfig, n, [argConfig EXCEPT !.repeat = n])
SetForever == At({"--repeat"}) /\ Set([argConfig EXCEPT !.repeat = UIntMax])
SetSeed ==
    /\ At({"text"})
    /\ LET n == ParseU(Arg.text, 10)
           c == [argConfig EXCEPT !.seed_set = TRUE]
       IN  SetNumber(c, n, [c EXCEPT !.seed = n])

RunTests == main = "parsing" /\ argi > Len(argv) /\ Return("run", argConfig)

MainDone == main \notin {"idle", "parsing"} /\ UNCHANGED argsVars

ArgsNext ==
    \/ MainBegin \/ Inform \/ SetBench \/ SetBenchOf \/ SetVerbose \/ SetTests \/ SetFunctions \/ SetPattern
    \/ SetFormat \/ SetHtml \/ SetDuration \/ SetAffinity \/ SetRepeat \/ SetForever \/ SetSeed
    \/ RunTests

ArgsSpec == ArgsInit /\ [][ArgsNext \/ MainDone]_argsVars

-----------------------------------------------------------------------------
(* Reading a command line as a user does.  An argument is an option unless    *)
(* the option before it takes it as its operand: in a row of -t and -f every  *)
(* other one is an operand, and the argument after the row is, if the row is   *)
(* odd.                                                                      *)
Takers == {"-t", "-f"}
RowBefore(line, k, i) ==  \* the row k + 1 .. i - 1 that ends before i
    (k = 0 \/ line[k].opt \notin Takers) /\ \A j \in k + 1 .. i - 1 : line[j].opt \in Takers
Options(line) ==
    { i \in 1 .. Len(line) : \E k \in 0 .. i - 1 : RowBefore(line, k, i) /\ (i - 1 - k) % 2 = 0 }

Numeric == {"--duration=", "--affinity=", "--repeat=", "text"}
Bad(a) ==
    \/ a.opt = "--html" /\ ~ HtmlData
    \/ a.opt \in Numeric /\ ParseU(a.text, IF a.opt = "--affinity=" THEN 16 ELSE 10) = NaN

(* The first option that ends the reading, or the end of the line.           *)
Stops(line) == { i \in Options(line) : line[i].opt \in Information \/ Bad(line[i]) }
FirstOr(S, otherwise) == IF S = {} THEN otherwise ELSE CHOOSE i \in S : \A j \in S : i <= j
LastOf(S) == CHOOSE i \in S : \A j \in S : j <= i
End(line) == FirstOr(Stops(line), Len(line) + 1)

(* What a line means as far as its n-th argument: the last of the options      *)
(* before it that say something of a field.                                  *)
Says(line, n, opts) == { i \in Options(line) : i < n /\ line[i].opt \in opts }
Pattern(line, n, opts) ==
    LET S == Says(line, n, opts)
        i == LastOf(S)
    IN  IF S = {} THEN Null
        ELSE IF line[i].opt \notin {"-t", "-f"} THEN line[i].text.name
        ELSE IF i = Len(line) THEN Null ELSE line[i + 1].text.name
Number(line, n, opt, base) ==
    LET S == Says(line, n, {opt})
    IN  IF S = {} THEN 0 ELSE ParseU(line[LastOf(S)].text, base)

Meaning(line, n) ==
    LET formats == Says(line, n, {"--csv", "--tsv", "--json", "--html"})
        repeats == Says(line, n, {"--repeat", "--repeat="})
    IN  [ bench            |-> Says(line, n, {"--bench", "-b", "--bench="}) # {},
          verbose          |-> Says(line, n, {"--verbose", "-v"}) # {},
          format           |-> IF formats = {} THEN "pretty"
                               ELSE IF line[LastOf(formats)].opt = "--html" THEN "html"
                               ELSE Formats[line[LastOf(formats)].opt],
          bench_usec       |-> Number(line, n, "--duration=", 10),
          repeat           |-> IF repeats = {} THEN 0
                               ELSE IF line[LastOf(repeats)].opt = "--repeat" THEN UIntMax
                               ELSE ParseU(line[LastOf(repeats)].text, 10),
          test_pattern     |-> Pattern(line, n, {"-t", "--test="}),
          function_pattern |-> Pattern(line, n, {"-f", "--function=", "--bench="}),
          cpu_affinity_set |-> Says(line, n, {"--affinity="}) # {},
          cpu_affinity     |-> Number(line, n, "--affinity=", 16),
          seed_set         |-> Says(line, n, {"text"}) # {},
          seed             |-> Number(line, n, "text", 10) ]

(* The tests run with the configuration that the whole line means, and a list *)
(* shows what the options before it mean: the last option about a field wins, *)
(* an operand is never an option, and a seed is taken as it stands or refused, *)
(* never cut to an unsigned int; a negative one is refused as long as its      *)
(* negation modulo the width of long does not fit (checkasm.c:1190-1295).     *)
SeedAsWritten(n) ==
    argConfig.seed_set =>
        LET text == argv[LastOf(Says(argv, n, {"text"}))].text
        IN  IF text.negative THEN text.dec \notin 1 .. ULongMax - UIntMax
            ELSE argConfig.seed = text.dec
ConfigAsMeant ==
    main \notin {"idle", "parsing", "error"} =>
        /\ argConfig = Meaning(argv, End(argv))
        /\ SeedAsWritten(End(argv))
        /\ main = IF End(argv) > Len(argv) THEN "run"
                  ELSE IF argv[End(argv)].opt \in {"--help", "-h"} THEN "usage" ELSE argv[End(argv)].opt
=============================================================================
