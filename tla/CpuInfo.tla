------------------------------ MODULE CpuInfo ------------------------------
(***************************************************************************)
(* The name of an ARM CPU (arm/cpu.c): the distinct cores of a machine, read  *)
(* from the blocks of /proc/cpuinfo or the keys of the Windows registry, and   *)
(* printed into a buffer together with the model.                           *)
(*                                                                         *)
(* A line is what one fgets() returns: [key, value], where key is "empty" for *)
(* an empty line, "unended" for one without a newline and "other" for one     *)
(* that says nothing of interest.  A subkey is [processor, midr, name].       *)
(***************************************************************************)
EXTENDS Integers, FiniteSets, Sequences

CONSTANTS
    CpuFiles,     \* contents of /proc/cpuinfo
    Registries,   \* subkeys of CentralProcessor, in order
    Affinities,   \* the --affinity of a run, None without one
    MaxCores,     \* ARRAY_SIZE(cores)
    Implementers, \* arm_implementers[]: sequences of [id, name, parts]
    NameLen,      \* the length of each name
    BufLen,       \* buflen
    SizeMax       \* the largest size_t

None == -1
ASSUME CpuInfoAssumption ==
    /\ MaxCores \in Nat \ {0} /\ BufLen \in Nat \ {0} /\ SizeMax \in Nat /\ BufLen < SizeMax
    /\ Affinities \subseteq Nat \cup {None}
Names ==
    {"Implementer", "Part"} \cup
    UNION { {e.name} \cup { p.name : p \in {e.parts[j] : j \in DOMAIN e.parts} } :
            e \in {Implementers[i] : i \in DOMAIN Implementers} }
ASSUME NamesAssumption ==
    /\ DOMAIN Implementers \subseteq Nat
    /\ \A i \in DOMAIN Implementers : DOMAIN Implementers[i].parts \subseteq Nat
    /\ \A n \in Names : NameLen[n] \in Nat

Subkey == [processor : Nat, midr : Int, name : STRING]
ASSUME InputsAssumption ==
    /\ \A f \in CpuFiles :
           Len(f) \in Nat /\ DOMAIN f = 1 .. Len(f) /\ \A i \in 1 .. Len(f) : DOMAIN f[i] = {"key", "value"}
    /\ \A r \in Registries : Len(r) \in Nat /\ \A i \in 1 .. Len(r) : r[i] \in Subkey

VARIABLES
    input,    \* the lines or the subkeys
    affinityArg, \* affinity
    lineno,   \* the next one
    processor,   \* [implementer, part, processor] of the current block
    model,    \* model or cpu_name
    cores,    \* cores[0 .. nb_cores - 1]
    cpuStage, \* "idle", "file", "registry", "cores", "model", "done" or "null"
    printed,  \* what was printed
    pos,      \* pos
    room      \* the size that the last snprintf() was given

cpuInfoVars == <<input, affinityArg, lineno, processor, model, cores, cpuStage, printed, pos, room>>

NoProcessor == [implementer |-> None, part |-> None, processor |-> None]

CpuInfoInit ==
    /\ input = << >> /\ affinityArg = None /\ lineno = 1
    /\ processor = NoProcessor /\ model = "" /\ cores = << >>
    /\ cpuStage = "idle" /\ printed = << >> /\ pos = 0 /\ room = BufLen

OpenInput(kind, contents) ==
    /\ cpuStage = "idle"
    /\ input' \in contents /\ affinityArg' \in Affinities /\ cpuStage' = kind
    /\ UNCHANGED <<lineno, processor, model, cores, printed, pos, room>>

(* A core that differs from all seen before it is kept, if there is room.     *)
AddCore(core) ==
    IF Len(cores) = MaxCores \/ \E i \in DOMAIN cores : cores[i] = core THEN cores
    ELSE Append(cores, core)

(* An empty line ends a processor: the lines "CPU implementer", "CPU part" and *)
(* "processor" since the last one are about the same core.                   *)
Forget == NoProcessor
ForgetProcessorOnly == [processor EXCEPT !.processor = None]  \* faulty: the core stays
AfterBlock == Forget

Line == input[lineno]
ReadKey ==
    /\ cpuStage = "file" /\ lineno <= Len(input) /\ Line.key # "empty"
    /\ lineno' = lineno + 1
    /\ processor' = IF Line.key \in DOMAIN processor
                    THEN [processor EXCEPT ![Line.key] = Line.value] ELSE processor
    /\ model' = IF Line.key = "model" THEN Line.value ELSE model
    /\ UNCHANGED <<input, affinityArg, cores, cpuStage, printed, pos, room>>

ReadEmpty ==
    /\ cpuStage = "file" /\ lineno <= Len(input) /\ Line.key = "empty"
    /\ lineno' = lineno + 1
    /\ cores' = IF /\ processor.implementer # None /\ processor.part # None
                   /\ affinityArg \in {None, processor.processor}
                THEN AddCore([implementer |-> processor.implementer, part |-> processor.part])
                ELSE cores
    /\ processor' = AfterBlock
    /\ UNCHANGED <<input, affinityArg, model, cpuStage, printed, pos, room>>

(* The core that the bits of MIDR_EL1 name.                                   *)
CoreOf(midr) ==
    [implementer |-> (midr \div 2 ^ 24) % 2 ^ 8, part |-> (midr \div 2 ^ 4) % 2 ^ 12]

(* RegEnumKeyExA(): one subkey per processor.  A processor without a name      *)
(* erases the one found before it.                                           *)
ReadSubkey ==
    /\ cpuStage = "registry" /\ lineno <= Len(input)
    /\ lineno' = lineno + 1
    /\ IF affinityArg \in {None, Line.processor}
       THEN /\ cores' = IF Line.midr = None THEN cores
                        ELSE AddCore(CoreOf(Line.midr))
            /\ model' = Line.name
       ELSE UNCHANGED <<cores, model>>
    /\ UNCHANGED <<input, affinityArg, processor, cpuStage, printed, pos, room>>

(* The end: nothing is known, or only the model is, or there are cores.       *)
EndOfInput ==
    /\ cpuStage \in {"file", "registry"} /\ lineno > Len(input)
    /\ cpuStage' = IF cores # << >> THEN "cores" ELSE IF model = "" THEN "null" ELSE "model"
    /\ UNCHANGED <<input, affinityArg, lineno, processor, model, cores, printed, pos, room>>

-----------------------------------------------------------------------------
(* find_implementer_part(): the first entry of the table, and of its parts,   *)
(* with the number; without one the number itself is printed.                *)
Entry(table, id) ==
    LET S == { i \in DOMAIN table : table[i].id = id }
    IN  IF S = {} THEN None ELSE CHOOSE i \in S : \A j \in S : i <= j
ImplementerName(core) ==
    LET i == Entry(Implementers, core.implementer)
    IN  IF i = None THEN "Implementer" ELSE Implementers[i].name
PartName(core) ==
    LET i == Entry(Implementers, core.implementer)
        j == IF i = None THEN None ELSE Entry(Implementers[i].parts, core.part)
    IN  IF j = None THEN "Part" ELSE Implementers[i].parts[j].name

(* snprintf() returns the length of what it would have printed.              *)
Printed(what, length) ==
    /\ printed' = Append(printed, what)
    /\ room' = (BufLen - pos) % (SizeMax + 1)
    /\ pos' = pos + length

HasRoomAlways == TRUE  \* faulty: the loop goes on when the buffer is full
HasRoom == pos < BufLen

PrintCore ==
    /\ cpuStage = "cores" /\ Len(printed) < Len(cores) /\ HasRoom
    /\ LET i == Len(printed) + 1
           separator == IF i > 1 THEN 2 ELSE 0
           names == <<ImplementerName(cores[i]), PartName(cores[i])>>
       IN  Printed(names, separator + NameLen[names[1]] + 1 + NameLen[names[2]])
    /\ UNCHANGED <<input, affinityArg, lineno, processor, model, cores, cpuStage>>

CoresPrinted ==
    /\ cpuStage = "cores" /\ (Len(printed) = Len(cores) \/ ~ HasRoom)
    /\ cpuStage' = IF HasRoom /\ model # "" THEN "model" ELSE "done"
    /\ UNCHANGED <<input, affinityArg, lineno, processor, model, cores, printed, pos, room>>

PrintModel ==
    /\ cpuStage = "model" /\ Printed(<<model>>, NameLen[model] + 3)
    /\ cpuStage' = "done"
    /\ UNCHANGED <<input, affinityArg, lineno, processor, model, cores>>

CpuInfoDone == cpuStage \in {"done", "null"} /\ UNCHANGED cpuInfoVars

CpuInfoNext ==
    \/ OpenInput("file", CpuFiles) \/ OpenInput("registry", Registries)
    \/ ReadKey \/ ReadEmpty \/ ReadSubkey \/ EndOfInput \/ PrintCore \/ CoresPrinted \/ PrintModel

CpuInfoSpec == CpuInfoInit /\ [][CpuInfoNext \/ CpuInfoDone]_cpuInfoVars

-----------------------------------------------------------------------------
(* A block of a file: the lines between two empty lines, ended by the second. *)
BlockStart(file, e) ==
    LET S == { i \in 1 .. e - 1 : file[i].key = "empty" }
    IN  IF S = {} THEN 1 ELSE 1 + CHOOSE i \in S : \A j \in S : j <= i
InBlock(file, e, key) ==
    LET S == { i \in BlockStart(file, e) .. e - 1 : file[i].key = key }
    IN  IF S = {} THEN None ELSE file[CHOOSE i \in S : \A j \in S : j <= i].value

(* The cores that the input names where a line or subkey ends them, with a    *)
(* processor number that the affinity admits.                               *)
CoreAt(i) ==
    IF input[i] \in Subkey THEN CoreOf(input[i].midr)
    ELSE [ implementer |-> InBlock(input, i, "implementer"), part |-> InBlock(input, i, "part") ]
NamesCore(i) ==
    IF input[i] \in Subkey
    THEN input[i].midr # None /\ affinityArg \in {None, input[i].processor}
    ELSE /\ input[i].key = "empty" /\ None \notin {CoreAt(i).implementer, CoreAt(i).part}
         /\ affinityArg \in {None, InBlock(input, i, "processor")}

FirstOfItsKind(i) ==
    NamesCore(i) /\ \A j \in 1 .. i - 1 : NamesCore(j) => CoreAt(j) # CoreAt(i)
Rank(i) == Cardinality({ j \in 1 .. i : FirstOfItsKind(j) })

(* What is listed are the first cores of each kind, in the order of the        *)
(* machine: never one twice, never one made of the lines of two processors,   *)
(* never one the thread is not pinned to (arm/cpu.c:264-281, 330-351).        *)
CoresListed ==
    cpuStage \notin {"idle", "file", "registry"} =>
        LET kept == { i \in 1 .. Len(input) : FirstOfItsKind(i) /\ Rank(i) <= MaxCores }
        IN  /\ \A i \in kept : Rank(i) <= Len(cores) /\ cores[Rank(i)] = CoreAt(i)
            /\ \A n \in 1 .. Len(cores) : \E i \in kept : Rank(i) = n

(* No snprintf() is told of more room than the buffer has left: pos, which     *)
(* counts what was cut off too, never passes the end where it is subtracted   *)
(* (arm/cpu.c:206-217, 296).                                                 *)
PrintsInBuffer == cpuStage = "idle" \/ room <= BufLen
=============================================================================
