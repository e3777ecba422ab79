----------------------------- MODULE StatusLine -----------------------------
(***************************************************************************)
(* The line at the bottom of the terminal that shows what is being tested     *)
(* (utils.c), and the calls of the runner that write above it (checkasm.c):   *)
(* LOG() knows of the line, plain fprintf() does not.  Standard output and     *)
(* standard error may be the same terminal.                                  *)
(***************************************************************************)
EXTENDS Naturals, Sequences

CONSTANTS
    Reported,   \* names of reports, which the line shows once they are known
    MaxPrints   \* bound on the functions that are checked

VARIABLES
    use_color,  \* use_printf_color[1], standard error is a terminal
    out_color,  \* use_printf_color[0], standard output is the same one
    statusline, \* the text of the line, "" for none
    visible,    \* statusline_visible
    screen,     \* the last line of the terminal: "clear", "status", "text", or "mixed"
    shown,      \* the text of the status line on the screen
    verbose,    \* cfg.verbose
    phase,      \* "start", "tests", "test", "check", "summary" or "end"
    failed,     \* the function that is checked has failed already
    prints      \* functions checked so far

statusVars == <<use_color, out_color, statusline, visible, screen, shown, verbose, phase, failed, prints>>
modes == <<use_color, out_color, verbose>>
NoName == ""

(* The terminal and the line as they are or will be, and what a call makes of *)
(* them.  Text after the status line on the same line of the screen is mixed. *)
Terminal == [statusline |-> statusline, visible |-> visible, screen |-> screen, shown |-> shown]

Put(t, newline) ==
    [t EXCEPT !.screen = IF @ \in {"status", "mixed"} THEN "mixed" ELSE IF newline THEN "clear" ELSE "text"]
Clear(t) == [t EXCEPT !.screen = "clear", !.visible = FALSE]
Show(t) ==
    [t EXCEPT !.screen = IF @ = "clear" THEN "status" ELSE "mixed", !.shown = t.statusline, !.visible = TRUE]

(* checkasm_vfprintf(stderr, ...) = LOG(): without color like fprintf().      *)
Log(t, newline) ==
    LET put == Put(IF t.visible THEN Clear(t) ELSE t, newline)
    IN  IF ~ use_color THEN Put(t, newline)
        ELSE IF newline /\ t.statusline # NoName THEN Show(put) ELSE put

(* checkasm_statusline()                                                     *)
ClearBlindly(t) == t  \* faulty: the new text is put after the old one
ClearOld(t) == IF t.visible THEN Clear(t) ELSE t
SetStatus(t, text) ==
    IF ~ use_color \/ t.statusline = text THEN t
    ELSE LET new == ClearOld([t EXCEPT !.statusline = text])
         IN  IF text # NoName THEN Show(new) ELSE new

Becomes(t) ==
    /\ statusline' = t.statusline /\ visible' = t.visible
    /\ screen' = t.screen /\ shown' = t.shown

-----------------------------------------------------------------------------
StatusInit ==
    /\ use_color \in BOOLEAN /\ out_color \in BOOLEAN /\ verbose \in BOOLEAN
    /\ statusline = NoName /\ visible = FALSE /\ screen = "clear" /\ shown = NoName
    /\ phase = "start" /\ failed = FALSE /\ prints = 0

(* print_info(): lines by LOG(), and the CPU's name by fprintf().            *)
PrintInfo ==
    /\ phase = "start" /\ phase' = "tests"
    /\ Becomes(Log(Put(Log(Terminal, TRUE), TRUE), TRUE))
    /\ UNCHANGED <<modes, failed, prints>>

(* update_statusline() as a test begins, and as the next function is checked; *)
(* the function has a name there if an earlier report named it.              *)
EnterTest ==
    /\ phase = "tests" /\ phase' = "test"
    /\ Becomes(SetStatus(Terminal, "test"))
    /\ UNCHANGED <<modes, failed, prints>>
CheckFunction(name) ==
    /\ phase \in {"test", "check"} /\ phase' = "check"
    /\ prints < MaxPrints /\ prints' = prints + 1
    /\ Becomes(SetStatus(Terminal, name))
    /\ failed' = FALSE
    /\ UNCHANGED modes

(* fail_internal(): print_cpu_name() if it is new, then the first failure of a *)
(* version in pieces of which the last are plain text.  With verbose, what     *)
(* differs is printed each time, by plain text and by checkasm_fprintf().    *)
Announce(t, cpu) ==
    Put(Put(Log(Log(IF cpu THEN Log(t, TRUE) ELSE t, FALSE), FALSE), FALSE), TRUE)
Dump(t) == Put(Log(Put(t, TRUE), FALSE), TRUE)
FailCheck ==
    /\ phase = "check"
    /\ \E cpu, dump \in BOOLEAN :
          LET told == IF failed THEN Terminal ELSE Announce(Terminal, cpu)
          IN  Becomes(IF verbose /\ dump THEN Dump(told) ELSE told)
    /\ failed' = TRUE
    /\ UNCHANGED <<modes, phase, prints>>

(* checkasm_report(): the name, padding, the verdict, and a newline.          *)
PrintReport ==
    /\ phase = "check" /\ phase' = "test"
    /\ Becomes(Log(Log(Log(Log(Terminal, FALSE), FALSE), FALSE), TRUE))
    /\ UNCHANGED <<modes, failed, prints>>
LeaveTest ==
    /\ phase = "test" /\ phase' = "tests"
    /\ UNCHANGED <<modes, statusline, visible, screen, shown, failed, prints>>

(* print_summary(), after the tests or an interrupt, which may also have left a *)
(* check by a jump (handle_interrupt()): the line goes, the result is told,    *)
(* and benchmarks follow on standard output, where nothing looks for a status *)
(* line.                                                                     *)
PrintSummary ==
    /\ phase \in {"tests", "test", "check"} /\ phase' = "summary"
    /\ Becomes(Log(Log(SetStatus(Terminal, NoName), FALSE), TRUE))
    /\ UNCHANGED <<modes, failed, prints>>
PrintBenchmark ==
    /\ phase = "summary" /\ phase' \in {"tests", "end"}
    /\ Becomes(IF out_color THEN Put(Put(Terminal, FALSE), TRUE) ELSE Terminal)
    /\ UNCHANGED <<modes, failed, prints>>

StatusNext ==
    \/ PrintInfo \/ EnterTest \/ (\E n \in Reported \cup {"test"} : CheckFunction(n))
    \/ FailCheck \/ PrintReport \/ LeaveTest \/ PrintSummary \/ PrintBenchmark
StatusDone == phase = "end" /\ UNCHANGED statusVars
StatusSpec == StatusInit /\ [][StatusNext \/ StatusDone]_statusVars

-----------------------------------------------------------------------------
(* No message is written behind the status line, and no status line behind a  *)
(* message: not by what knows nothing of the line, and not on standard        *)
(* output.  And what the program believes of the screen is true: the line is   *)
(* there exactly where it is noted, with its present text, and never without  *)
(* a terminal (utils.c:473-520, checkasm.c:1047-1063, 816-844).               *)
ScreenIsAsNoted ==
    /\ screen # "mixed"
    /\ visible <=> screen = "status"
    /\ visible => use_color /\ shown = statusline /\ statusline # NoName
=============================================================================
