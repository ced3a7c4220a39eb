---------------------------- MODULE CppJudgeProofs ----------------------------
(***************************************************************************)
(* The verdict on a C++ submission is the right one for every set of       *)
(* problems, however many tests they have and wherever judgelet or the job *)
(* is killed: proofs of the invariants that the run of MCCppJudge checks   *)
(* on submissions with up to three tests.                                  *)
(***************************************************************************)
EXTENDS CppJudge, CountingLemmas, SequenceTheorems

(* The status of one line is a verdict, and "accepted" only if the line    *)
(* bears no error.                                                         *)
LEMMA StatusOfLine ==
    ASSUME NEW l \in Line
    PROVE  /\ l.error => StatusOf(l) \in Rejections
           /\ ~l.error => StatusOf(l) = "AC"
  BY DEF Line, Statuses, StatusOf, Rejections

(* What decides is the first line with an error. *)
LEMMA FirstDecides ==
    ASSUME lines \in Seq(Line)
    PROVE  \/ /\ Status = "AC"
              /\ \A i \in 1..Len(lines) : ~lines[i].error
           \/ \E i \in 1..Len(lines) :
                 /\ lines[i].error
                 /\ \A k \in 1..(i - 1) : ~lines[k].error
                 /\ Status = StatusOf(lines[i])
                 /\ Status \in Rejections
  <1>1. \A i \in 1..Len(lines) : lines[i] \in Line
    BY ElementOfSeq
  <1>2. Rejected = {i \in 1..Len(lines) : lines[i].error}
    BY <1>1, StatusOfLine DEF Rejected, Rejections
  <1>3. CASE Rejected = {}
    BY <1>2, <1>3 DEF Status
  <1>4. CASE Rejected # {}
    <2> DEFINE first == CHOOSE i \in Rejected : \A k \in Rejected : i <= k
    <2>1. first \in Rejected /\ \A k \in Rejected : first <= k
      <3>1. Rejected \subseteq Nat
        BY <1>2
      <3>2. \E i \in Rejected : \A k \in Rejected : i <= k
        BY <1>4, <3>1, LeastNumber
      <3>3. QED
        BY <3>2
    <2>2. Status = StatusOf(lines[first])
      BY <1>4 DEF Status
    <2> HIDE DEF first
    <2>3. \A k \in 1..(first - 1) : k \notin Rejected /\ k \in 1..Len(lines)
      BY <1>2, <2>1
    <2>4. QED
      BY <1>1, <1>2, <2>1, <2>2, <2>3, StatusOfLine
  <1>5. QED
    BY <1>3, <1>4

(* parse_result ends in one of the verdicts. *)
LEMMA ParsedType == ASSUME TypeOK PROVE Parsed \in Verdicts
  <1>1. Status \in Verdicts
    BY FirstDecides DEF TypeOK, Verdicts
  <1>2. problem.kind \in {"cpp_oj", "compile_cpp"}
    BY ProblemsAssumption DEF TypeOK
  <1>3. QED
    BY <1>1, <1>2 DEF TypeOK, Parsed, Verdicts
-----------------------------------------------------------------------------
(* No line is written at first. *)
LEMMA JudgeInit == Init => JudgeInv
  <1> SUFFICES ASSUME Init PROVE JudgeInv
    OBVIOUS
  <1>1. TypeOK
    BY EmptySeq DEF Init, TypeOK
  <1>2. QED
    BY <1>1 DEF Init, JudgeInv, LinesTrue, UncompiledUnjudged, JudgedWhole, VerdictOfCaptured

(* A test adds its line and its outcome, whatever runprog left. *)
LEMMA TestKeeps ==
    ASSUME JudgeInv, pc = "test", Leaves,
           NEW ok \in BOOLEAN, NEW details \in Statuses \cup {Nil},
           PrintLine(~ok, details), passed' = Append(passed, ok),
           UNCHANGED <<problem, pc, files, died, exit, verdict>>
    PROVE  JudgeInv'
  <1>1. Len(lines) \in Nat /\ Next1 \in Nat
    BY LenProperties DEF JudgeInv, TypeOK, Next1
  <1> DEFINE line == [name |-> Next1, error |-> ~ok, details |-> details]
  <1>2. line \in Line
    BY <1>1 DEF Line
  <1>3. line.error <=> ~ok
    OBVIOUS
  <1>4. lines' = Append(lines, line)
    BY DEF PrintLine
  <1> HIDE DEF line
  <1>5. resultOut' \in Statuses \cup {Nil}
    BY DEF JudgeInv, TypeOK, Leaves
  <1>6. /\ lines' \in Seq(Line) /\ Len(lines') = Len(lines) + 1
        /\ passed' \in Seq(BOOLEAN) /\ Len(passed') = Len(passed) + 1
        /\ \A i \in 1..Len(lines) : lines'[i] = lines[i]
        /\ \A i \in 1..Len(passed) : passed'[i] = passed[i]
        /\ lines'[Len(lines) + 1] = line
        /\ passed'[Len(passed) + 1] = ok
    BY <1>2, <1>4, AppendProperties DEF JudgeInv, TypeOK
  <1>7. TypeOK'
    BY <1>5, <1>6 DEF JudgeInv, TypeOK
  <1>8. LinesTrue'
    <2>1. Len(lines') = Len(passed')
      BY <1>6 DEF JudgeInv, LinesTrue
    <2>2. ASSUME NEW i \in 1..Len(lines') PROVE lines'[i].error <=> ~passed'[i]
      <3>1. CASE i \in 1..Len(lines)
        BY <1>6, <3>1 DEF JudgeInv, LinesTrue
      <3>2. CASE i = Len(lines) + 1
        BY <1>3, <1>6, <3>2 DEF JudgeInv, LinesTrue
      <3>3. i \in 1..Len(lines) \/ i = Len(lines) + 1
        BY <1>1, <1>6
      <3>4. QED
        BY <3>1, <3>2, <3>3
    <2>3. QED
      BY <2>1, <2>2 DEF LinesTrue
  <1>9. UncompiledUnjudged' /\ JudgedWhole' /\ VerdictOfCaptured'
    BY DEF JudgeInv, UncompiledUnjudged, JudgedWhole, VerdictOfCaptured
  <1>10. QED
    BY <1>7, <1>8, <1>9 DEF JudgeInv

(* A job that is not parsed yet goes on without a new line. *)
LEMMA JobKeeps ==
    ASSUME JudgeInv, pc # "captured",
           pc' \in {"load", "test", "captured"}, exit' \in {-1, 0, 1},
           files' \subseteq {"compile_errors", "judge_result", "solution"},
           "compile_errors" \in files' => pc' = "captured" /\ pc = "build",
           died' \in BOOLEAN,
           "judge_result" \in files' /\ exit' = 0 =>
               Len(lines) = problem.tests \/ died' \/ ~Loads,
           "judge_result" \in files' => pc' = "captured",
           UNCHANGED <<problem, lines, resultOut, passed, verdict>>
    PROVE  JudgeInv'
  <1>1. TypeOK'
    BY DEF JudgeInv, TypeOK
  <1>2. LinesTrue'
    BY DEF JudgeInv, LinesTrue
  <1>3. UncompiledUnjudged'
    BY DEF JudgeInv, UncompiledUnjudged
  <1>4. VerdictOfCaptured'
    BY DEF JudgeInv, VerdictOfCaptured
  <1>5. JudgedWhole'
    BY DEF JudgedWhole, Loads
  <1>6. QED
    BY <1>1, <1>2, <1>3, <1>4, <1>5 DEF JudgeInv

(* The verdict is what parse_result makes of the captured files. *)
LEMMA ParseKeeps == ASSUME JudgeInv, Parse PROVE JudgeInv'
  <1>1. UNCHANGED <<problem, pc, files, lines, resultOut, passed, died, exit>>
    BY DEF Parse
  <1>2. Parsed' = Parsed
    BY <1>1 DEF Parsed, Status, Rejected
  <1>3. TypeOK'
    BY <1>1, ParsedType DEF Parse, JudgeInv, TypeOK
  <1>4. LinesTrue' /\ UncompiledUnjudged' /\ JudgedWhole'
    BY <1>1 DEF JudgeInv, LinesTrue, UncompiledUnjudged, JudgedWhole, Loads
  <1>5. VerdictOfCaptured'
    BY <1>1, <1>2 DEF Parse, VerdictOfCaptured
  <1>6. QED
    BY <1>3, <1>4, <1>5 DEF JudgeInv

(* Every step of the job keeps the invariant. *)
LEMMA JudgeNext == ASSUME JudgeInv, [Next]_vars PROVE JudgeInv'
  <1>1. CASE Compile
    BY <1>1, JobKeeps DEF Compile, Ends, JudgeInv, TypeOK, UncompiledUnjudged, JudgedWhole
  <1>2. CASE CompileFails
    BY <1>2, JobKeeps DEF CompileFails, Ends, JudgeInv, TypeOK
  <1>3. CASE LoadFails
    BY <1>3, JobKeeps DEF LoadFails, AfterJudge, Ends, JudgeInv, TypeOK
  <1>4. CASE Load
    BY <1>4, JobKeeps DEF Load, JudgeInv, TypeOK, UncompiledUnjudged, JudgedWhole
  <1>5. CASE TestTimesOut
    <2>1. PrintLine(~FALSE, Nil)
      BY <1>5 DEF TestTimesOut, PrintLine
    <2>2. QED
      BY <1>5, <2>1, TestKeeps DEF TestTimesOut
  <1>6. CASE \E succeeds, matches \in BOOLEAN : RunTest(succeeds, matches)
    <2>1. PICK succeeds \in BOOLEAN, matches \in BOOLEAN : RunTest(succeeds, matches)
      BY <1>6
    <2>2. PICK status \in Statuses \cup {Nil} : resultOut' = status
      BY <2>1 DEF RunTest, Leaves, JudgeInv, TypeOK
    <2>3. PrintLine(~(succeeds /\ matches), status)
      <3>1. (~succeeds \/ ~matches) = ~(succeeds /\ matches)
        OBVIOUS
      <3>2. QED
        BY <2>1, <2>2, <3>1 DEF RunTest, PrintLine
    <2>4. QED
      BY <2>1, <2>3, TestKeeps DEF RunTest
  <1>7. CASE JudgeletEnds
    BY <1>7, JobKeeps DEF JudgeletEnds, AfterJudge, Ends, JudgeInv, TypeOK
  <1>8. CASE JudgeletDies
    BY <1>8, JobKeeps DEF JudgeletDies, AfterJudge, Ends
  <1>9. CASE JobDies
    BY <1>9, JobKeeps DEF JobDies, Ends, JudgeInv, TypeOK
  <1>10. CASE Parse
    BY <1>10, ParseKeeps
  <1>11. CASE UNCHANGED vars
    <2>1. Parsed' = Parsed
      BY <1>11 DEF vars, Parsed, Status, Rejected
    <2>2. QED
      BY <1>11, <2>1 DEF vars, JudgeInv, TypeOK, LinesTrue, UncompiledUnjudged,
                         JudgedWhole, Loads, VerdictOfCaptured
  <1>12. QED
    BY <1>1, <1>2, <1>3, <1>4, <1>5, <1>6, <1>7, <1>8, <1>9, <1>10, <1>11 DEF Next

(* Lines and outcomes stay in step, what does not compile is not judged,   *)
(* and a verdict is that of the captured files: main.go of judgelet, the   *)
(* scripts of binary_builder.py and parse_result, together.                *)
THEOREM JudgeSafe == Spec => []JudgeInv
  <1>1. QED
    BY JudgeInit, JudgeNext, PTL DEF Spec
-----------------------------------------------------------------------------
(* A verdict of the tests is that of the first line with an error. *)
LEMMA JudgedByTests ==
    ASSUME JudgeInv, verdict \in Rejections \cup {"AC"}
    PROVE  verdict = Status
  <1>1. verdict = Parsed
    BY ProblemsAssumption DEF JudgeInv, VerdictOfCaptured, Verdicts
  <1>2. problem.kind \in {"cpp_oj", "compile_cpp"}
    BY ProblemsAssumption DEF JudgeInv, TypeOK
  <1>3. QED
    BY <1>1, <1>2 DEF Parsed, Rejections, JudgeInv, TypeOK

(* CppOJSolution.status does not accept a submission one of whose tests    *)
(* was run and failed, or not run by a judgelet that loaded its tests and  *)
(* was not killed.                                                         *)
THEOREM AcceptedPassed == Spec => []NoFailureAccepted
  <1>1. JudgeInv => NoFailureAccepted
    <2> SUFFICES ASSUME JudgeInv, verdict = "AC"
                 PROVE  /\ \A i \in DOMAIN passed : passed[i]
                        /\ Len(passed) = problem.tests \/ died \/ ~Loads
      BY DEF NoFailureAccepted
    <2>1. ASSUME NEW i \in DOMAIN passed PROVE passed[i]
      <3>1. Status = "AC"
        BY JudgedByTests
      <3>2. \A k \in 1..Len(lines) : ~lines[k].error
        BY <3>1, FirstDecides DEF JudgeInv, TypeOK, Rejections
      <3>3. i \in 1..Len(lines) /\ passed[i] \in BOOLEAN
        BY LenProperties, ElementOfSeq DEF JudgeInv, TypeOK, LinesTrue
      <3>4. QED
        BY <3>2, <3>3 DEF JudgeInv, LinesTrue
    <2>2. "judge_result" \in files /\ exit = 0
      <3>1. verdict = Parsed
        BY ProblemsAssumption DEF JudgeInv, VerdictOfCaptured, Verdicts
      <3>2. problem.kind \in {"cpp_oj", "compile_cpp"}
        BY ProblemsAssumption DEF JudgeInv, TypeOK
      <3>3. QED
        BY <3>1, <3>2 DEF Parsed
    <2>3. Len(passed) = problem.tests \/ died \/ ~Loads
      BY <2>2 DEF JudgeInv, JudgedWhole, LinesTrue
    <2>4. QED
      BY <2>1, <2>3
  <1>2. QED
    BY <1>1, JudgeSafe, PTL

(* CppOJSolution.status rejects with the status from_json gives the line    *)
(* judgelet printed for the first test that failed, whichever status it is.*)
THEOREM RejectedByFirst == Spec => []FirstFailureDecides
  <1>1. JudgeInv => FirstFailureDecides
    <2> SUFFICES ASSUME JudgeInv, verdict \in Rejections
                 PROVE  \E i \in DOMAIN passed :
                            /\ ~passed[i]
                            /\ \A k \in 1..(i - 1) : passed[k]
                            /\ verdict = StatusOf(lines[i])
      BY DEF FirstFailureDecides
    <2>1. verdict = Status /\ Status # "AC"
      BY JudgedByTests DEF Rejections
    <2>2. PICK i \in 1..Len(lines) : /\ lines[i].error
                                     /\ \A k \in 1..(i - 1) : ~lines[k].error
                                     /\ verdict = StatusOf(lines[i])
      BY <2>1, FirstDecides DEF JudgeInv, TypeOK
    <2>3. Len(lines) \in Nat /\ i \in DOMAIN passed
      BY LenProperties DEF JudgeInv, TypeOK, LinesTrue
    <2>4. ~passed[i] /\ \A k \in 1..(i - 1) : passed[k]
      <3>1. \A k \in 1..Len(lines) : lines[k].error <=> ~passed[k]
        BY DEF JudgeInv, LinesTrue
      <3>2. \A k \in 1..(i - 1) : k \in 1..Len(lines)
        BY <2>3
      <3>3. QED
        BY <2>2, <3>1, <3>2
    <2>5. QED
      BY <2>2, <2>3, <2>4
  <1>2. QED
    BY <1>1, JudgeSafe, PTL

(* The scripts leave no line of a test beside the messages of a compiler   *)
(* that failed, and parse_result makes nothing else of them.               *)
THEOREM UncompiledTold == Spec => []CompileErrorTold
  <1>1. JudgeInv => CompileErrorTold
    <2> SUFFICES ASSUME JudgeInv, "compile_errors" \in files, verdict # Nil
                 PROVE  verdict \in {"exception"} \cup (IF exit = 0 THEN {"CE"} ELSE {})
      BY DEF CompileErrorTold, JudgeInv, UncompiledUnjudged
    <2>1. problem.kind \in {"cpp_oj", "compile_cpp"} /\ verdict = Parsed
      BY ProblemsAssumption DEF JudgeInv, TypeOK, VerdictOfCaptured
    <2>2. QED
      BY <2>1 DEF Parsed
  <1>2. QED
    BY <1>1, JudgeSafe, PTL
=============================================================================
