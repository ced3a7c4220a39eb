------------------------------ MODULE IOIRunner ------------------------------
(***************************************************************************)
(* The IOI batch judge (pysdk cmd/ioi_runner.py): an asyncio program that  *)
(* reads problems line by line, compiles each remotely, runs its solution  *)
(* on every test case remotely, adds up the scores and exits with 1 if some*)
(* line did not get full marks.  One semaphore bounds the lines in work,   *)
(* another the runs.  A step is what the event loop does between two       *)
(* awaits; remote executions end in any order and in any way.              *)
(***************************************************************************)
EXTENDS Integers, Sequences, SequencesExt, FiniteSets

CONSTANTS
    Payloads,         \* batches of lines, each [kind, programs, special, subTasks]
    LineConcurrency,  \* --line-concurrency
    Concurrency,      \* --concurrency
    Printed,          \* what a judged program may leave as its score
    Value,            \* the numbers among them, in parts of a full score of 1.0
    Unit,             \* how many of these parts a full score has
    Scale             \* into how many shares the mean of a sub-task divides a part

Programs == {"solution", "checker", "manager"}

(* kind: "blank", "bad" (does not parse) or "problem"; programs: what its  *)
(* sources ask to compile; special: judged by a script of its own; subTasks*)
(* the name, points and test cases of each sub-task.                       *)
ASSUME PayloadAssumption ==
    Payloads \subseteq Seq([kind : {"blank", "bad", "problem"},
                           programs : SUBSET Programs, special : BOOLEAN,
                           subTasks : Seq([name : STRING, points : Nat, cases : Seq(STRING)])])

(* Printed: numbers of any size and sign, what float() takes besides, what *)
(* it does not, and a score with bytes on stderr that are no text.         *)
NoNumber == {"nan", "inf", "-inf"}
ASSUME PrintedAssumption ==
    /\ Printed \subseteq STRING \ {"none", "running", "raised", "zero"}
    /\ Value \in [Printed \ (NoNumber \cup {"text", "bytes"}) -> Int]
    /\ Unit \in Nat \ {0}

(* The shares are so small that every mean is a whole number of them. *)
ASSUME ScaleAssumption ==
    /\ Scale \in Nat \ {0}
    /\ \A p \in Payloads : \A l \in DOMAIN p : \A s \in DOMAIN p[l].subTasks :
          p[l].subTasks[s].cases # <<>> => Scale % Len(p[l].subTasks[s].cases) = 0
ASSUME ConcurrencyAssumption == LineConcurrency \in Nat \ {0} /\ Concurrency \in Nat \ {0}

VARIABLES
    payload,  \* the batch this process was given
    main,     \* pc, the next line to read and the exit code
    line,     \* per line: its _process_line task
    run,      \* per line and test case: its task
    permits,  \* value of the semaphore of runs
    slots,    \* value of the semaphore of lines
    pending,  \* finished tasks whose done callback has not run
    errors    \* the lines written to ioi_judge_errors.jsonl, in order

vars == <<payload, main, line, run, permits, slots, pending, errors>>

Lines == UNION {DOMAIN p : p \in Payloads}
SubTasks(l) == payload[l].subTasks

(* The test cases to run: one task for each distinct case of the problem,  *)
(* however many sub-tasks name it, in the order of first appearance.       *)
Places(subTasks) == UNION {{s} \X DOMAIN subTasks[s].cases : s \in DOMAIN subTasks}
CaseOf(subTasks, p) == subTasks[p[1]].cases[p[2]]
Before(p, q) == p[1] < q[1] \/ (p[1] = q[1] /\ p[2] < q[2])
First(subTasks) ==
    {p \in Places(subTasks) :
        \A q \in Places(subTasks) : Before(q, p) => CaseOf(subTasks, q) # CaseOf(subTasks, p)}
Rank(P, p) == Cardinality({q \in P : ~Before(p, q)})
Distinct(subTasks) ==
    [n \in 1..Cardinality(First(subTasks)) |->
        CaseOf(subTasks, CHOOSE p \in First(subTasks) : Rank(First(subTasks), p) = n)]
CasesOf == [p \in Payloads |-> [l \in DOMAIN p |-> Distinct(p[l].subTasks)]]
TestCases == CasesOf[payload]

Cases == UNION {UNION {ToSet(CasesOf[p][l]) : l \in DOMAIN p} : p \in Payloads}

Init ==
    /\ payload \in Payloads
    /\ main = [pc |-> "reading", next |-> 1, code |-> 0]
    /\ line = [l \in Lines |->
                 [pc |-> "none", binaries |-> {}, at |-> 1, got |-> <<>>, result |-> "none"]]
    /\ run = [l \in Lines |-> [c \in Cases |-> "none"]]
    /\ permits = Concurrency
    /\ slots = LineConcurrency
    /\ pending = {}
    /\ errors = <<>>

-----------------------------------------------------------------------------
(* amain: one task per line, as many at a time as the semaphore allows. *)
StartLine ==
    /\ main.pc = "reading" /\ main.next \in DOMAIN payload
    /\ slots > 0
    /\ slots' = slots - 1
    /\ line' = [line EXCEPT ![main.next].pc = "load"]
    /\ main' = [main EXCEPT !.next = @ + 1]
    /\ UNCHANGED <<payload, run, permits, pending, errors>>

EndOfLines ==
    /\ main.pc = "reading" /\ main.next \notin DOMAIN payload
    /\ main' = [main EXCEPT !.pc = "gathering"]
    /\ UNCHANGED <<payload, line, run, permits, slots, pending, errors>>

(* The line's task is over: with None, True, False or an exception. *)
Over(l) == line[l].pc = "over"
Finished(l, result) ==
    /\ line' = [line EXCEPT ![l].pc = "over", ![l].result = result]
    /\ pending' = pending \cup {<<l>>}

(* judge() raises: the exception is caught, written down, and False comes  *)
(* back.  The tasks of the line that are still running go on.              *)
Raise(l) ==
    /\ Finished(l, "False")
    /\ errors' = Append(errors, l)

SkipBlank(l) ==
    /\ line[l].pc = "load" /\ payload[l].kind = "blank"
    /\ Finished(l, "None")
    /\ UNCHANGED <<payload, main, run, permits, slots, errors>>

LoadFails(l) ==
    /\ line[l].pc = "load" /\ payload[l].kind = "bad"
    /\ Raise(l)
    /\ UNCHANGED <<payload, main, run, permits, slots>>

Load(l) ==
    /\ line[l].pc = "load" /\ payload[l].kind = "problem"
    /\ line' = [line EXCEPT ![l].pc = "compile"]
    /\ UNCHANGED <<payload, main, run, permits, slots, pending, errors>>

-----------------------------------------------------------------------------
(* The compile script starts one g++ per program in the background and     *)
(* waits for them all without looking at how they ended: what is captured  *)
(* is any part of what was asked for.                                      *)
Compiled(l) == SUBSET payload[l].programs

(* The remote execution raises - no grader files, a broken connection -    *)
(* or, after an ordinary compilation error, the assertion that there is a  *)
(* solution does.                                                          *)
CompileRaises(l) ==
    /\ line[l].pc = "compile"
    /\ Raise(l)
    /\ UNCHANGED <<payload, main, run, permits, slots>>

Compile(l) ==
    /\ line[l].pc = "compile"
    /\ \E b \in Compiled(l) : /\ "solution" \in b
                              /\ line' = [line EXCEPT ![l].pc = "create", ![l].binaries = b]
    /\ UNCHANGED <<payload, main, run, permits, slots, pending, errors>>

-----------------------------------------------------------------------------
(* RunProgramWithoutBinary.build knows what to do with these binaries. *)
Buildable(l) == payload[l].special \/ line[l].binaries \cap {"checker", "manager"} # {}

(* The case _judge is at, while it creates tasks and while it awaits them. *)
HasCase(l) == line[l].at \in DOMAIN TestCases[l]
CaseAt(l) == TestCases[l][line[l].at]

(* A mistake: the permit is taken before the build. *)
BuildAfterAcquire(l) ==
    /\ line[l].pc = "create" /\ HasCase(l) /\ ~Buildable(l)
    /\ permits > 0
    /\ permits' = permits - 1
    /\ Raise(l)
    /\ UNCHANGED <<payload, main, run, slots>>

BuildRaises(l) ==
    /\ line[l].pc = "create" /\ HasCase(l) /\ ~Buildable(l)
    /\ Raise(l)
    /\ UNCHANGED <<payload, main, run, permits, slots>>

(* _create_task: the permit is taken before the task exists. *)
CreateTask(l) ==
    /\ line[l].pc = "create" /\ HasCase(l) /\ Buildable(l)
    /\ permits > 0
    /\ permits' = permits - 1
    /\ run' = [run EXCEPT ![l][CaseAt(l)] = "running"]
    /\ line' = [line EXCEPT ![l].at = @ + 1]
    /\ UNCHANGED <<payload, main, slots, pending, errors>>

AllCreated(l) ==
    /\ line[l].pc = "create" /\ ~HasCase(l)
    /\ line' = [line EXCEPT ![l].pc = "await", ![l].at = 1]
    /\ UNCHANGED <<payload, main, run, permits, slots, pending, errors>>

(* The result of a run: what runprog.result says - there may be none, and  *)
(* a malformed one raises - and what the checker printed.  Only a normal   *)
(* run scores, and only what float() takes; its stderr is read, and that of*)
(* a run without a status.                                                 *)
Verdict(status, printed) ==
    CASE status = "malformed" -> "raised"
      [] status \in {"Normal", "missing"} /\ printed = "bytes" -> "bytes"
      [] status = "Normal" /\ printed # "text" -> printed
      [] OTHER -> "zero"

(* A run ends, with a result or with an exception of the client's. *)
RunEnds(l, c) ==
    /\ main.pc # "exited"
    /\ run[l][c] = "running"
    /\ \/ \E status \in {"Normal", "TLE", "MLE", "other", "missing", "malformed"} :
             \E printed \in Printed :
                run' = [run EXCEPT ![l][c] = Verdict(status, printed)]
       \/ run' = [run EXCEPT ![l][c] = "raised"]
    /\ pending' = pending \cup {<<l, c>>}
    /\ UNCHANGED <<payload, main, line, permits, slots, errors>>

(* Mistakes: only a run that has a result gives its permit back; a slot is *)
(* given back again and again.                                             *)
ReleaseOnSuccess(l, c) ==
    /\ main.pc # "exited"
    /\ <<l, c>> \in pending
    /\ pending' = pending \ {<<l, c>>}
    /\ permits' = IF run[l][c] = "raised" THEN permits ELSE permits + 1
    /\ UNCHANGED <<payload, main, line, run, slots, errors>>

ReleaseSlotAgain(l) ==
    /\ main.pc # "exited"
    /\ <<l>> \in pending
    /\ slots' = slots + 1
    /\ UNCHANGED <<payload, main, line, run, permits, pending, errors>>

(* The done callbacks: a run gives its permit back, a line its slot. *)
ReleasePermit(l, c) ==
    /\ main.pc # "exited"
    /\ <<l, c>> \in pending
    /\ pending' = pending \ {<<l, c>>}
    /\ permits' = permits + 1
    /\ UNCHANGED <<payload, main, line, run, slots, errors>>

ReleaseSlot(l) ==
    /\ main.pc # "exited"
    /\ <<l>> \in pending
    /\ pending' = pending \ {<<l>>}
    /\ slots' = slots + 1
    /\ UNCHANGED <<payload, main, line, run, permits, errors>>

-----------------------------------------------------------------------------
(* _judge awaits its tasks in order; the first that raised ends it, and the*)
(* later ones are nobody's.                                                *)
AwaitRun(l) ==
    /\ line[l].pc = "await" /\ HasCase(l)
    /\ run[l][CaseAt(l)] \notin {"running", "raised"}
    /\ line' = [line EXCEPT ![l].at = @ + 1, ![l].got = Append(@, run[l][CaseAt(l)])]
    /\ UNCHANGED <<payload, main, run, permits, slots, pending, errors>>

AwaitRaises(l) ==
    /\ line[l].pc = "await" /\ HasCase(l)
    /\ run[l][CaseAt(l)] = "raised"
    /\ Raise(l)
    /\ UNCHANGED <<payload, main, run, permits, slots>>

(* All results are there.  _parse_result does not expect stderr to be      *)
(* anything but text.                                                      *)
Collected(l) == line[l].pc = "await" /\ ~HasCase(l)
Parses(l) == "bytes" \notin ToSet(line[l].got)

ParseRaises(l) ==
    /\ Collected(l) /\ ~Parses(l)
    /\ Raise(l)
    /\ UNCHANGED <<payload, main, run, permits, slots>>

-----------------------------------------------------------------------------
(* get_score: a result is worth the number it holds, any number, or 0.     *)
Worth(result) == IF result \in DOMAIN Value THEN Value[result] ELSE 0
Sort(result) == IF result \in NoNumber THEN result ELSE "number"

(* What is added up: a number, an infinity, or what is none of these. *)
SumSort(S) ==
    CASE "nan" \in S \/ {"inf", "-inf"} \subseteq S -> "nan"
      [] "inf" \in S /\ S \cap {"nan", "-inf"} = {} -> "inf"
      [] "-inf" \in S /\ S \cap {"nan", "inf"} = {} -> "-inf"
      [] OTHER -> "number"

SumOf(v) ==
    LET sum[n \in 0..Len(v)] == IF n = 0 THEN 0 ELSE sum[n - 1] + v[n]
    IN  sum[Len(v)]

(* score() makes a dict of the sub-tasks by name: of those with one name   *)
(* the last is kept.  Those kept that have points count.                   *)
Kept(subTasks) ==
    {s \in DOMAIN subTasks : \A t \in DOMAIN subTasks : subTasks[t].name = subTasks[s].name => t <= s}
Counting(subTasks) == {s \in Kept(subTasks) : subTasks[s].points > 0}

(* ScoreDetail: the mean of the cases, a case counted as often as it is    *)
(* named, times the points; an infinity times no points is not a number.   *)
TestScore(subTask, results) ==
    SumOf([k \in DOMAIN subTask.cases |-> Worth(results[subTask.cases[k]])])
TaskScore(subTask, results) ==
    subTask.points * ((Scale \div Len(subTask.cases)) * TestScore(subTask, results))
TaskSort(subTask, results) ==
    LET sum == SumSort({Sort(results[c]) : c \in ToSet(subTask.cases)})
    IN  IF sum # "number" /\ subTask.points = 0 THEN "nan" ELSE sum

(* IOIJudgeResult.score, in shares of a part. *)
Score(subTasks, results) ==
    SumOf([s \in DOMAIN subTasks |->
              IF s \in Kept(subTasks) THEN TaskScore(subTasks[s], results) ELSE 0])
ScoreSort(subTasks, results) ==
    SumSort({TaskSort(subTasks[s], results) : s \in Kept(subTasks)})
Hundred == 100 * (Unit * Scale)

(* The property is asked for outside the try: a sub-task without cases     *)
(* divides by zero there.                                                  *)
Divides(l) == \A s \in Kept(SubTasks(l)) : SubTasks(l)[s].cases # <<>>

(* check_results: the result of each case. *)
Results(l) ==
    [c \in ToSet(TestCases[l]) |->
        line[l].got[CHOOSE n \in DOMAIN TestCases[l] : TestCases[l][n] = c]]

(* A mistake: score - 100 without abs. *)
NoMoreThanHundred(l) ==
    \/ ScoreSort(SubTasks(l), Results(l)) \in {"nan", "-inf"}
    \/ /\ ScoreSort(SubTasks(l), Results(l)) = "number"
       /\ Score(SubTasks(l), Results(l)) <= Hundred

(* abs(score - 100) is not more than 1e-6, which is also said of "nan". *)
IsHundred(subTasks, results) ==
    \/ ScoreSort(subTasks, results) = "nan"
    \/ ScoreSort(subTasks, results) = "number" /\ Score(subTasks, results) = Hundred

FullMarks(l) == IsHundred(SubTasks(l), Results(l))

ScoreDivides0(l) ==
    /\ Collected(l) /\ Parses(l) /\ ~Divides(l)
    /\ Finished(l, "exception")
    /\ UNCHANGED <<payload, main, run, permits, slots, errors>>

ScoreFull(l) ==
    /\ Collected(l) /\ Parses(l) /\ Divides(l) /\ FullMarks(l)
    /\ Finished(l, "True")
    /\ UNCHANGED <<payload, main, run, permits, slots, errors>>

ScoreLess(l) ==
    /\ Collected(l) /\ Parses(l) /\ Divides(l) /\ ~FullMarks(l)
    /\ Finished(l, "False")
    /\ errors' = Append(errors, l)
    /\ UNCHANGED <<payload, main, run, permits, slots>>

(* gather has the result of every line: the exit code is decided, the      *)
(* client closed, and what still runs cancelled with the event loop.       *)
FailedFalse(l) == line[l].result = "False"   \* a mistake
Failed(l) == line[l].result \in {"False", "exception"}
Exit ==
    /\ main.pc = "gathering"
    /\ \A l \in DOMAIN payload : Over(l)
    /\ main' = [main EXCEPT !.pc = "exited",
                            !.code = IF \E l \in DOMAIN payload : Failed(l) THEN 1 ELSE 0]
    /\ UNCHANGED <<payload, line, run, permits, slots, pending, errors>>

ProcessLine(l) ==
    \/ SkipBlank(l) \/ LoadFails(l) \/ Load(l)
    \/ CompileRaises(l) \/ Compile(l)
    \/ BuildRaises(l) \/ CreateTask(l) \/ AllCreated(l)
    \/ AwaitRun(l) \/ AwaitRaises(l)
    \/ ParseRaises(l) \/ ScoreDivides0(l) \/ ScoreFull(l) \/ ScoreLess(l)

Next ==
    \/ StartLine \/ EndOfLines \/ Exit
    \/ \E l \in Lines : ProcessLine(l) \/ ReleaseSlot(l)
    \/ \E l \in Lines, c \in Cases : RunEnds(l, c) \/ ReleasePermit(l, c)

Spec == Init /\ [][Next]_vars

(* The event loop runs what is ready, remote executions end, and a         *)
(* semaphore serves its waiters first come, first served.                  *)
Fairness ==
    /\ WF_vars(StartLine) /\ WF_vars(EndOfLines) /\ WF_vars(Exit)
    /\ \A l \in Lines :
          /\ WF_vars(ProcessLine(l)) /\ WF_vars(ReleaseSlot(l))
          /\ SF_vars(CreateTask(l))
    /\ \A l \in Lines, c \in Cases : WF_vars(RunEnds(l, c)) /\ WF_vars(ReleasePermit(l, c))

FairSpec == Spec /\ Fairness

-----------------------------------------------------------------------------
Running == {t \in Lines \X Cases : run[t[1]][t[2]] = "running"}
InWork == {l \in Lines : line[l].pc \notin {"none", "over"}}
RunsDue == pending \cap (Lines \X Cases)
LinesDue == {l \in Lines : <<l>> \in pending}

Ended == (Printed \ {"text"}) \cup {"zero", "bytes", "raised"}
Task == [pc : {"none", "load", "compile", "create", "await", "over"},
         binaries : SUBSET Programs, at : Nat \ {0}, got : Seq(Ended),
         result : {"none", "None", "True", "False", "exception"}]

TypeOK ==
    /\ payload \in Payloads
    /\ main \in [pc : {"reading", "gathering", "exited"}, next : 1..(Len(payload) + 1), code : 0..1]
    /\ line \in [Lines -> Task]
    /\ \A l \in DOMAIN payload : line[l].at <= Len(TestCases[l]) + 1
    /\ run \in [Lines -> [Cases -> {"none", "running"} \cup Ended]]
    /\ permits \in 0..Concurrency /\ slots \in 0..LineConcurrency
    /\ errors \in Seq(Lines)

(* No permit and no slot is ever lost or made up: each is free, held by a  *)
(* task or about to be given back, whichever way lines and runs ended.     *)
PermitsConserved ==
    /\ permits + Cardinality(Running) + Cardinality(RunsDue) = Concurrency
    /\ slots + Cardinality(InWork) + Cardinality(LinesDue) = LineConcurrency

(* Scores and points are as they should be: no case has more than a full   *)
(* score, and the points that are kept add up to 100.                      *)
AsItShould(l) ==
    /\ \A c \in ToSet(TestCases[l]) : Sort(run[l][c]) = "number" /\ Worth(run[l][c]) <= Unit
    /\ SumOf([s \in DOMAIN SubTasks(l) |->
                 IF s \in Kept(SubTasks(l)) THEN SubTasks(l)[s].points ELSE 0]) = 100

AllFull(l) ==
    \A s \in Counting(SubTasks(l)) : \A c \in ToSet(SubTasks(l)[s].cases) : Worth(run[l][c]) = Unit

Earned(l) ==
    /\ "solution" \in line[l].binaries
    /\ \A c \in ToSet(TestCases[l]) : run[l][c] \in Ended
    /\ IsHundred(SubTasks(l), run[l])
    /\ AsItShould(l) => AllFull(l)

(* True is only ever said of a line that compiled, that has no run left and*)
(* whose own runs, among those of other lines and of lines that failed     *)
(* before, score 100 (or no number); and then every case of every sub-task *)
(* that counts has its full score - unless a case scored more than 1 or the*)
(* points do not add up to 100, for then 100 can be had with a case that   *)
(* scored nothing.                                                         *)
TrueIsEarned == \A l \in Lines : line[l].result = "True" => Earned(l)

ErrorsOf(l) == {k \in DOMAIN errors : errors[k] = l}

(* The process says 0 exactly when every line that was not blank got full  *)
(* marks, and every False has one line in the error file.                  *)
ExitCodeTrue ==
    /\ main.pc = "exited" =>
          (main.code = 0 <=> \A l \in DOMAIN payload : line[l].result \in {"None", "True"})
    /\ \A l \in Lines :
          Cardinality(ErrorsOf(l)) = (IF line[l].result = "False" THEN 1 ELSE 0)

(* "Max concurrent compile/run tasks.": the executions the runner has in   *)
(* flight, compilations and runs, are never more than --concurrency.       *)
ConcurrencyRespected ==
    Cardinality(Running) + Cardinality({l \in Lines : line[l].pc = "compile"}) <= Concurrency

(* "Expected score 100, got ...": a line that is not written down as a     *)
(* failure scored 100.                                                     *)
TrueMeansHundred ==
    \A l \in Lines :
        line[l].result = "True" =>
            /\ ScoreSort(SubTasks(l), run[l]) = "number"
            /\ Score(SubTasks(l), run[l]) = Hundred

(* The runner ends: lines that fail with runs in flight, or that wait for  *)
(* permits others hold, block nobody for ever.                             *)
RunnerEnds == <>(main.pc = "exited")

-----------------------------------------------------------------------------
(* What the steps keep.  Only finitely many tasks exist. *)
Finite == /\ IsFiniteSet(Running) /\ IsFiniteSet(RunsDue)
          /\ IsFiniteSet(InWork) /\ IsFiniteSet(LinesDue)

(* A done callback is due only for a task that is over. *)
PendingEnded ==
    /\ pending \subseteq (Lines \X Cases) \cup {<<l>> : l \in Lines}
    /\ \A l \in Lines : <<l>> \in pending => Over(l)
    /\ \A l \in Lines, c \in Cases : <<l, c>> \in pending => run[l][c] \in Ended

(* A line that was not read has no task, one that is over has a result,    *)
(* and what is built and run was compiled.                                 *)
Progress(l) ==
    /\ l >= main.next => line[l].pc = "none"
    /\ Over(l) <=> line[l].result # "none"
    /\ line[l].pc \in {"create", "await"} => "solution" \in line[l].binaries

(* Before a case has its task nothing of it runs; the results a line has   *)
(* got are those of its runs.                                              *)
RunsInOrder(l) ==
    /\ line[l].pc \in {"none", "load", "compile"} =>
          line[l].at = 1 /\ \A c \in Cases : run[l][c] = "none"
    /\ line[l].pc \in {"none", "load", "compile", "create"} => line[l].got = <<>>
    /\ line[l].pc = "create" =>
          \A n \in DOMAIN TestCases[l] : n >= line[l].at <=> run[l][TestCases[l][n]] = "none"
    /\ line[l].pc = "await" =>
          /\ \A n \in DOMAIN TestCases[l] : run[l][TestCases[l][n]] # "none"
          /\ Len(line[l].got) = line[l].at - 1
          /\ \A n \in DOMAIN line[l].got : line[l].got[n] = run[l][TestCases[l][n]]

ExitedOver == main.pc = "exited" => \A l \in DOMAIN payload : Over(l)

RunnerInv ==
    /\ TypeOK /\ Finite /\ PermitsConserved /\ PendingEnded /\ ExitedOver
    /\ \A l \in Lines : Progress(l) /\ RunsInOrder(l)
    /\ TrueIsEarned /\ ExitCodeTrue
=============================================================================
