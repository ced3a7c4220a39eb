------------------------------- MODULE CppJudge -------------------------------
(***************************************************************************)
(* How a C++ submission gets its verdict: the scripts of binary_builder.py *)
(* compile it in a worker and run judgelet, judgelet runs every test under *)
(* runprog and prints a line of JSON for each, tee copies the lines to the *)
(* file the worker captures, result_parser.py and solutions.py make a      *)
(* verdict of what was captured.  The compiler, runprog, the submission    *)
(* and the machine do as they like; judgelet may be killed at any point.   *)
(***************************************************************************)
EXTENDS Integers, Sequences, FiniteSets

CONSTANTS
    Problems,   \* what may be asked for: kind, number of tests, whether a
                \* test comes with a time limit
    Nil

(* What runprog says of a run. *)
Statuses == {"Normal", "Invalid", "Runtime Error", "Memory Limit Exceeded",
             "Time Limit Exceeded", "Output Limit Exceeded", "Disallowed Syscall",
             "Fatal Error", "Unknown"}

(* The OJStatus of one result, and what the caller may get. *)
Rejections == {"SE", "TLE", "MLE", "RE", "WA"}
Verdicts == Rejections \cup {"AC", "CE", "binary", "exception"}

ASSUME ProblemsAssumption ==
    /\ \A p \in Problems : /\ p.kind \in {"cpp_oj", "compile_cpp"}
                           /\ p.tests \in Nat
                           /\ p.limited \in BOOLEAN
    /\ Nil \notin Statuses \cup Verdicts

VARIABLES
    problem,
    pc,         \* where the job is
    files,      \* the files in its directory that the pattern captures
    lines,      \* judge_result.jsonl: the lines judgelet has printed
    resultOut,  \* the status result.out has, Nil if none can be read of it
    passed,     \* history: per test, whether its run succeeded with the right output
    died,       \* history: whether judgelet was killed
    exit,       \* exit code of the job's script
    verdict     \* what the caller of Executor.execute gets

vars == <<problem, pc, files, lines, resultOut, passed, died, exit, verdict>>

Init ==
    /\ problem \in Problems
    /\ pc = "build"
    /\ files = {} /\ lines = <<>> /\ resultOut = Nil
    /\ passed = <<>> /\ died = FALSE
    /\ exit = 0
    /\ verdict = Nil

Ends(code) == pc' = "captured" /\ exit' = code

-----------------------------------------------------------------------------
(* build.sh: the messages of the compiler are kept only if it fails. *)
Compile ==
    /\ pc = "build"
    /\ IF problem.kind = "cpp_oj"
       THEN pc' = "load" /\ UNCHANGED <<problem, files, exit>>
       ELSE files' = {"solution"} /\ Ends(0)
    /\ UNCHANGED <<problem, lines, resultOut, passed, died, verdict>>

(* A mistake: the script goes on to judge what was not built. *)
CompileFailureIgnored ==
    /\ pc = "build"
    /\ files' = {"compile_errors"}
    /\ IF problem.kind = "cpp_oj" THEN pc' = "load" /\ UNCHANGED exit ELSE Ends(0)
    /\ UNCHANGED <<problem, lines, resultOut, passed, died, verdict>>

(* main.sh of a CppOJ hides the failure, build.sh of a CompileCPP does not.*)
CompileFails ==
    /\ pc = "build"
    /\ files' = {"compile_errors"}
    /\ Ends(IF problem.kind = "cpp_oj" THEN 0 ELSE 1)
    /\ UNCHANGED <<problem, lines, resultOut, passed, died, verdict>>

-----------------------------------------------------------------------------
(* The script goes on after `judgelet | tee`, whose exit code is tee's. *)
AfterJudge == files' = {"judge_result"} /\ Ends(0)

(* loadTests: a time limit is written as a string and does not decode into *)
(* a time.Duration; no tests at all is an error, too.                      *)
Loads == ~problem.limited /\ problem.tests > 0

LoadFails ==
    /\ pc = "load" /\ ~Loads
    /\ AfterJudge
    /\ UNCHANGED <<problem, lines, resultOut, passed, died, verdict>>

Load ==
    /\ pc = "load" /\ Loads
    /\ pc' = "test"
    /\ UNCHANGED <<problem, files, lines, resultOut, passed, died, exit, verdict>>

Next1 == Len(lines) + 1    \* the test judgelet is at
PrintLine(error, details) == lines' = Append(lines, [name |-> Next1, error |-> error, details |-> details])

(* runprog leaves its status in result.out, unless it fails before it has  *)
(* opened the file, or is killed before it has written all of it.          *)
Leaves == \E s \in Statuses \cup {resultOut, Nil} : resultOut' = s

(* The context's timeout: no details, and the file is not looked at. *)
TestTimesOut ==
    /\ pc = "test" /\ Len(lines) < problem.tests
    /\ Leaves
    /\ PrintLine(TRUE, Nil)
    /\ passed' = Append(passed, FALSE)
    /\ UNCHANGED <<problem, pc, files, died, exit, verdict>>

(* A mistake: the exit code of runprog is not looked at when the output is  *)
(* the expected one.                                                       *)
RunTestByOutput(succeeds, matches) ==
    /\ pc = "test" /\ Len(lines) < problem.tests
    /\ Leaves
    /\ PrintLine(~matches, resultOut')
    /\ passed' = Append(passed, succeeds /\ matches)
    /\ UNCHANGED <<problem, pc, files, died, exit, verdict>>

(* runSingleTest: an error if runprog exits with one or cannot be started, *)
(* or if the output is not the expected one.  The details are whatever     *)
(* result.out says by now, be it of an earlier test.                       *)
RunTest(succeeds, matches) ==
    /\ pc = "test" /\ Len(lines) < problem.tests
    /\ Leaves
    /\ PrintLine(~succeeds \/ ~matches, resultOut')
    /\ passed' = Append(passed, succeeds /\ matches)
    /\ UNCHANGED <<problem, pc, files, died, exit, verdict>>

JudgeletEnds ==
    /\ pc = "test" /\ Len(lines) = problem.tests
    /\ AfterJudge
    /\ UNCHANGED <<problem, lines, resultOut, passed, died, verdict>>

(* judgelet is killed: the lines it has printed stay. *)
JudgeletDies ==
    /\ pc \in {"load", "test"}
    /\ AfterJudge
    /\ died' = TRUE
    /\ UNCHANGED <<problem, lines, resultOut, passed, verdict>>

(* The whole job is killed: the worker reports the exit code and captures  *)
(* what is there; tee has created its file with judgelet's start.          *)
JobDies ==
    /\ pc \in {"build", "load", "test"}
    /\ files' \in IF pc = "build" THEN {{}, {"compile_errors"}} ELSE {{"judge_result"}}
    /\ Ends(-1)
    /\ UNCHANGED <<problem, lines, resultOut, passed, died, verdict>>

-----------------------------------------------------------------------------
(* OJResult.from_json: the status of one line.  A line without details     *)
(* counts as a fatal error; a line without an error is accepted.           *)
StatusOf(l) ==
    IF ~l.error THEN "AC"
    ELSE CASE l.details \in {Nil, "Fatal Error", "Disallowed Syscall", "Invalid", "Unknown"} -> "SE"
           [] l.details = "Time Limit Exceeded" -> "TLE"
           [] l.details = "Memory Limit Exceeded" -> "MLE"
           [] l.details = "Runtime Error" -> "RE"
           [] l.details \in {"Normal", "Output Limit Exceeded"} -> "WA"

Rejected == {i \in DOMAIN lines : StatusOf(lines[i]) # "AC"}

(* A mistake: the last rejected result decides. *)
StatusOfLast == IF Rejected = {} THEN "AC"
                ELSE StatusOf(lines[CHOOSE i \in Rejected : \A k \in Rejected : k <= i])

(* CppOJSolution.status: the first result that is not accepted decides. *)
Status == IF Rejected = {} THEN "AC"
          ELSE StatusOf(lines[CHOOSE i \in Rejected : \A k \in Rejected : i <= k])

(* parse_result. *)
Parsed ==
    CASE exit # 0 -> "exception"
      [] exit = 0 /\ problem.kind = "compile_cpp" ->
            IF "compile_errors" \in files THEN "CE" ELSE "binary"
      [] exit = 0 /\ problem.kind = "cpp_oj" ->
            IF "compile_errors" \in files THEN "CE"
            ELSE IF "judge_result" \in files THEN Status
            ELSE "exception"

Parse ==
    /\ pc = "captured" /\ verdict = Nil
    /\ verdict' = Parsed
    /\ UNCHANGED <<problem, pc, files, lines, resultOut, passed, died, exit>>

Next ==
    \/ Compile \/ CompileFails
    \/ LoadFails \/ Load
    \/ TestTimesOut
    \/ \E succeeds, matches \in BOOLEAN : RunTest(succeeds, matches)
    \/ JudgeletEnds \/ JudgeletDies \/ JobDies
    \/ Parse

Spec == Init /\ [][Next]_vars

-----------------------------------------------------------------------------
(* A submission is not accepted although a test of it was run and did not  *)
(* pass, however judgelet ended and whatever result.out said; nor although *)
(* a test was not run, unless judgelet was killed or could not load them   *)
(* (a time limit, or no tests), which the pipeline into tee hides.         *)
NoFailureAccepted ==
    verdict = "AC" =>
        /\ \A i \in DOMAIN passed : passed[i]
        /\ Len(passed) = problem.tests \/ died \/ ~Loads

(* A submission is rejected only if a test of it failed, and with exactly  *)
(* the status of the line printed for the first one that did: no test      *)
(* after it has a say, nor has one before it whose result.out says that it *)
(* was rejected.  That the line may speak of an earlier run, because its   *)
(* own left result.out as it was, is the code's: see StatusOf and Leaves.  *)
FirstFailureDecides ==
    verdict \in Rejections =>
        \E i \in DOMAIN passed : /\ ~passed[i]
                                 /\ \A k \in 1..(i - 1) : passed[k]
                                 /\ verdict = StatusOf(lines[i])

(* A submission that did not compile is told so and nothing else: none of  *)
(* its tests is run, and neither a verdict nor a binary comes back.        *)
CompileErrorTold ==
    "compile_errors" \in files =>
        /\ lines = <<>>
        /\ verdict \in {Nil, "exception"} \cup (IF exit = 0 THEN {"CE"} ELSE {})

-----------------------------------------------------------------------------
(* What the steps keep: of every test its line and its outcome are written *)
(* together, what did not compile is captured at once and has no lines,    *)
(* and a verdict is given of what was captured, which stays as it is.  What *)
(* is captured of a judgelet that loaded its tests and went through has a  *)
(* line for each.                                                          *)
Line == [name : Nat, error : BOOLEAN, details : Statuses \cup {Nil}]

TypeOK ==
    /\ problem \in Problems
    /\ pc \in {"build", "load", "test", "captured"}
    /\ files \subseteq {"compile_errors", "judge_result", "solution"}
    /\ lines \in Seq(Line)
    /\ resultOut \in Statuses \cup {Nil}
    /\ passed \in Seq(BOOLEAN) /\ died \in BOOLEAN
    /\ exit \in {-1, 0, 1}
    /\ verdict \in Verdicts \cup {Nil}

LinesTrue ==
    /\ Len(lines) = Len(passed)
    /\ \A i \in 1..Len(lines) : lines[i].error <=> ~passed[i]

UncompiledUnjudged ==
    /\ pc = "build" => lines = <<>>
    /\ "compile_errors" \in files => pc = "captured" /\ lines = <<>>

JudgedWhole ==
    "judge_result" \in files =>
        /\ pc = "captured"
        /\ exit = 0 => Len(lines) = problem.tests \/ died \/ ~Loads

VerdictOfCaptured == verdict # Nil => pc = "captured" /\ verdict = Parsed

JudgeInv == TypeOK /\ LinesTrue /\ UncompiledUnjudged /\ JudgedWhole /\ VerdictOfCaptured
=============================================================================
