# Models of agent-envs

agent-envs runs programs remotely and judges them. This directory holds TLA+ models of it, TLC runs that check them on small instances, and TLAPS proofs. `PROJECT.json` maps every definition to the lines of `src/` it stands for, lists the hazards of the code, and gives for each property of a run a mutated definition that breaks it.

    tlc -config PipelineFaults.cfg MCExecPipeline     # a run; PROJECT.json has the module of each
    tlapm EnvletProofs.tla                            # the proofs of a component: each ...Proofs module, and CountingLemmas

## The system

```
 IOI runner ── Executor ── gRPC client ══ proxy ── RPUSH ──► Redis list ── BLPOP ──► envlet
 (lines,        (scripts,   (attempts,     Exec handler                              (runs the
  semaphores)    parsers)    channel)      response store ◄── callback server ◄──────  binary)
                                                                                        │
 cf_bin_builder, importers: build the test data                      judgelet, runprog ─┘
```

| component | code | state it keeps | operations | what makes it correct |
|---|---|---|---|---|
| response store | proxy/pkg/response_store | a map from job id to a waiter's channel or a stored response with its expiry | Waiter, Wait, Close of a waiter, Deliver, the cleanup goroutine, Close | no waiter is forgotten, no response lost, swapped, or dropped before its time |
| Exec API, callback server, publisher | proxy/pkg/{api,callback,publisher} | one handler per request | register, push, wait, reply; deliver a posted payload | a call gets the result of its own job |
| proxy process | proxy/main.go | all of the above, in memory | start, end | what was forgotten in a restart does no harm |
| envlet: list, executor, reporter, main loop | envlet/ | the job in hand, `stop`, the fetch context | fetch, execute, report, SIGTERM | every job pushed is accounted for; a stopped worker ends, unless BLPOP has it |
| gRPC client | pysdk proxy_client.py | the shared channel, the attempts of each call | send, retry with a reconnect, close | calls end; one call's reconnects do not fail another |
| HTTP clients: single, batch, unordered batch | pysdk proxy_client.py | the queue, batches and futures | batch, match answers by position or id | each call gets its own answer, and fails only for a cause that is its own or its batch's |
| Executor, builders, parsers, solutions | pysdk | queue names | build a script, parse what it left | the verdict is that of the run |
| judgelet | envlet/cmd/judgelet | result.out, the printed lines | load the tests, run each | a line per test, with its own status |
| IOI runner | pysdk cmd/ioi_runner.py | two semaphores, tasks, the error file | lines, compilations, runs, scores, exit code | earned marks only; permits conserved; the runner ends |
| Codeforces binary | tools/codeforces_bin | a file: header, data, index | build, look up | what was built reads back, what was not is refused |
| IOI importer and look-up | tools/ioi_json_to_sql, ioi_db_lookup | a SQLite file, its vacuumed copy | import in batches, vacuum, remove and rename; resolve, then fetch | problems are whole; what was committed is in the database or its copy; an answer is true of the problem asked for |
| Codeforces importer | tools/codeforces_jsonl_to_sqlite | a SQLite file | drop, upsert in batches | a problem has all and only the cases of its last line |
| dataset scripts, images, charts, generated stubs | tools, yamls, proto | none | | |

What is hard here: callbacks that race handlers, cancellations and the sweep of the store; processes that die with a job in their hands, in a system that keeps nothing on disk but the Redis list; pushes and posts that fail after they were carried out; calls that share a channel and cut each other; semaphores whose permits come back through callbacks whatever happened; exit codes that shell scripts lose; importers that die between two steps over a database that the next run, or a reader, takes as it is. PROJECT.json lists each hazard at its line.

## The modules

| module | models | composed of |
|---|---|---|
| ResponseStore | the store with its cleanup goroutine | |
| Envlet | the workers, the Redis list, an environment that pushes jobs | |
| ProxyClient | the gRPC client, an environment that answers and breaks streams | |
| HttpClient | the three HTTP clients, an environment that batches and answers as it likes | |
| Clients | create_proxy_client: the url decides which client there is | extends ProxyClient, an instance of HttpClient |
| ExecService | abstract: what a caller of `execute` is promised | |
| ExecPipeline | client, handlers, store, list, workers, crashes and restarts; implements ExecService | instances of ResponseStore, Envlet, ProxyClient and ExecService |
| IOIRunner | the runner's event loop | |
| CppJudge | a C++ submission from its script to its verdict, judgelet included | |
| CfBin | cf_bin_builder, step by step, and the reader | |
| CodeforcesImport | codeforces_jsonl_to_sqlite over the runs before it | |
| IoiImport | ioi_json_to_sql over the runs before it, and ioi_db_lookup beside it | |
| TestData | the tools that make the stores of test data; one of them at work | extends CfBin, instances of the two importers |
| MC... | instances for TLC | |
| CountingLemmas | least elements, counts of finite sets, places in a queue: what several proofs need | |
| ResponseStoreProofs, EnvletProofs, CppJudgeProofs, IOIRunnerProofs, ClientsProofs, TestDataProofs | the theorems about a module and their proofs | extend the module, all but the first CountingLemmas |
| ExecPipelineProofs | the theorems about ExecPipeline | extends it, instances of EnvletProofs and ResponseStoreProofs |

How state and actions correspond to the code:

- **ResponseStore.** Every method holds the mutex from its first to its last access and is one action (a method with several outcomes: one action each, joined under the method's name). The cleanup loop reads the clock before it locks and is two actions, CleanupTick and CleanupSweep. A handle is a `waiter` object together with its channel of capacity 1, `buf`. A closed waiter is kept as a record, so a late Close is possible.
- **Envlet.** `env[e].pc` is the place in `main`'s loop. Fetch, Execute and Report are the three calls. Fetch is `Blpop`, which looks at the context, and `Fetch`, which waits in the call without a timeout and does not look again; SIGTERM is two steps, as in the goroutine, which stores `stop` and then cancels the fetch. The outcome of Execute is whether there is a result and whether there is an error, because the deferred capture can give both. `tally` and `produced` are history.
- **ProxyClient.** A step is what runs between two awaits. `Retry` is the whole except clause up to the sleep, since nothing in it yields and the lock of `_reconnect` is never held across an await. Closing the channel breaks the streams of every other call.
- **ExecPipeline.** Composes the actions of the four modules and adds the handler's (`Register` to `Finish`, the deferred Close included), the callback, and the end and start of the proxy. An attempt is a job is a waiter: ids are fresh uuids.
- **IOIRunner.** `payload` is the batch of lines the process was given. A step is what the event loop does between two awaits; permits are given back in done callbacks, which run as steps of their own after the task has ended. Runs of a line that has failed go on. A score is what float() makes of what was printed: any number, in parts of a full score, or nan, inf, -inf; the points of sub-tasks are any natural numbers, and sub-tasks of one name collapse into the last, as in the code's dict. Numbers add up exactly: two sums within 1e-6, and the rounding and overflow of floats, are not told apart.
- **CppJudge.** The lines of the scripts that decide something, then judgelet per test, then the parsers. Whether a test passed is history; what is printed depends on runprog's exit, on the output, and on what result.out happens to say: the status of this run, of an earlier one, or nothing that can be read. `died` is history.
- **CfBin.** A file is a header and a body of fields; data bytes and index fields count one position each. The buffered writer may spill at any time. The reader's loop takes an entry of the index per turn (`ReadEntry`).
- **HttpClient.** A batch keeps the lines read of its answer. Reading a line is one action for the ordered and one for the unordered client; an error line ends an ordered batch, because the code goes on to look for its result. A line has an id and the request whose result the server put in it, which need not be the one the id stands for; an id may be negative, which Python counts from the end of the list, or out of range, and an answer may have more lines than the batch has calls. A single call is a batch of one. What the batching library does - cut its queue anywhere, give an exception of a batch to the futures that are not set - is taken from how the clients use it.
- **CodeforcesImport.** `db` is what is committed, `tx` what the open transaction sees; a death forgets `tx`. One action inserts a line: upsert, delete of the old cases, insert of the new ones, and the commit of a full batch. `base` (what the run started from) and `cutDrop` are history.
- **IoiImport.** The tables are sequences whose positions are the ids, because `nextID` counts on from the greatest one. `db` and `vac` are the files by name; a look-up that has opened a file which is then removed keeps it in `held`. `committed` and `rescue` are history.

Operators whose comment calls them a mistake are not part of any specification: each is a plausible bug, put in the place of a definition to see that a property notices it.

## The runs

Runs with a liveness property use `FairSpec` (`ClientsFairSpec` for `Client`), the others `Spec` (`TestDataSpec` for `CfBinBuild`).

| run | question | result |
|---|---|---|
| Store | Waiters over two ids, in every order: is a waiter forgotten, a response dropped, swapped, swept early or kept without an expiry? Are orphaned responses collected, also when they are refreshed? | no; yes |
| Workers | Is every pushed job accounted for under crashes, failures and SIGTERM anywhere? Does a stopped worker end, and does every job? | yes; a stopped worker unless it is blocked in BLPOP, a job unless all workers were stopped |
| Client | gRPC: can the reconnects of others fail a healthy call? HTTP: can a line serve a call it does not stand for, or two calls, or a call fail for what is no concern of its batch? Do all calls end? | only with as many reconnects as it has attempts; no; yes, unless the endpoint leaves an answer out of an unordered batch that ends well |
| PipelineFaults | With two failures of any kind: does the system implement ExecService, is a waiting handler's job still somewhere, and is a channel left in the store's map? | yes, unless a failure destroyed the job; no channel is |
| PipelineMixed | Two calls of which one always fails, while the store sweeps: do abandoned attempts stay apart, and does the sweep take anything a handler waits for? | they do; no |
| PipelineLiveness | Does every attempt end? | yes, unless a failure destroyed its job |
| Runner | Are permits conserved and marks earned, is the exit code right, and does the runner end with a single permit - with shared test cases, blank and broken lines, sub-tasks without points or cases, points that do not add up to 100, failing runs, scores above 1 and scores that are not numbers? | yes; a score that is not a number counts as 100, and a score above 1 or odd points can make up for a case that scored nothing |
| JudgeVerdict | Which verdicts can a submission get? | never AC after a failed test; AC without every test only if judgelet was killed or could not load them; the line printed for the first failure decides |
| CfBinBuild | Does the binary file read back, over an older file and through a failure at any step? Do the SQLite databases hold whole problems only, and all that was committed, over three runs that fail, die or finish anywhere? Is a look-up's answer true while the file is replaced? | yes, except that a death between remove and rename leaves the copy alone, which the next complete run removes, and that a death between the two drops leaves cases without a problem |

Three runs state what the repository says of itself, and TLC finds it violated; PROJECT.json quotes the lines under "findings".

| run | what it shows |
|---|---|
| RunnerConcurrency | `--concurrency` is documented to bound compilations and runs; compilations take no permit. |
| RunnerNaN | A score that is not a number is not more than 1e-6 away from 100: the line counts as full marks. |
| WorkersSigterm | `received SIGTERM, shutting down` is logged by a worker that then waits on: BLPOP is called without a timeout, on a client that does not watch the context of a call it has sent. |

More disagreements met on the way, without a run of their own:

- A sub-task without cases divides by zero outside the try (ioi_runner.py:348, 592): the runner says to look into ioi_judge_errors.jsonl (702), which has nothing on that line. In IOIRunner this is ScoreDivides0.
- `wait` in the compile script hides a failed g++ (binary_builder.py:317): the assertion on the solution (ioi_runner.py:557) fails where judge() would handle a CompileError (512). In IOIRunner this is part of CompileRaises.
- A test may have a time limit (judgelet main.go:23). The SDK writes it as a string (binary_builder.py:153), which does not decode into time.Duration: judgelet ends with an error, the pipeline into tee hides it (139), and the submission is Accepted without a run. NoFailureAccepted names this case (`~Loads`) and the death of judgelet as the only ones.
- The SDK writes a test's memory limit as `memory_limit_in_mb` (binary_builder.py:155), judgelet reads `memory_limit_mb` (main.go:22): the limit is ignored, and 256 holds. No verdict of CppJudge depends on limits.
- result.out is not removed between tests (judgelet main.go:226), so a runprog that fails before it writes gives a test the status of an earlier one; and a test that hits judgelet's own timeout is printed without details (main.go:222-225) and becomes a system error. Both are in CppJudge, and FirstFailureDecides says that such a line's status is the verdict; nothing in the repository says what it should be.
- A CompileCPP that does not compile raises instead of returning the compile_error that result_parser.py:62 reads, because its script exits with 1. CompileErrorTold says so.
- A negative id in an unordered answer sets the future of another call (proxy_client.py:291). OwnAnswer counts it as that call's.
- One error line in an ordered batch makes every call of the batch raise KeyError: a `continue` is missing (proxy_client.py:217; the unordered client has it, 295). FailureHasCause says so.
- codeforces_jsonl_to_sqlite declares ON DELETE CASCADE (143) and never turns foreign keys on, as ioi_json_to_sql does (299): OrphansOnlyAfterCutDrop says when that matters.
- `--solution-file` is parsed and never used (ioi_runner.py:642, 577), and the default of `--threads` is the number of CPUs, not `--concurrency` as its help says (639, 661).

### Bounds

| bound | where | why it is enough |
|---|---|---|
| MaxTime | ResponseStore | the clock stops there; deliveries end early enough (`WithinHorizon`) for expiry and one more tick to be seen |
| MaxPushes = 2 | Envlet | a duplicate of a job while the first is in any place |
| MaxFaults | Envlet, ProxyClient, ExecPipeline | two failures meet in one attempt, e.g. a repeated push and a crash of one of its workers |
| RetryLimit = 2 in ExecPipeline, 3 in ProxyClient | | the source has 3; a second attempt is the one that meets leftovers of the first. PipelineLiveness has 1: its property is about single attempts, and a broken stream leaves the same leftovers as a reconnect |
| WordSize, ByteSize, HeaderSize | ExecPipeline, CfBin | stand-ins for 2^32, 2^8 and 48: TLC's integers have 32 bits. Only -1 and its image need to differ from 0; names reach the limit of a byte; in CfBin words stay below the limit |
| Printed, Value | IOIRunner | a full score, twice as much, no score, no number: what makes a sum 100 with and without every case full. The proofs allow any numbers and outputs |
| three batches of two or three lines, two lines at a time, one permit | IOIRunner | two lines compete for the permit, a run of a failed line still holds it, and each shape of line and of sub-task occurs |
| two waiters, two ids | ResponseStore | a waiter closed late next to its successor for the same id, or one for another id; each is made once, and a handler in the code makes only one. The proofs cover any number |
| three calls | ProxyClient | healthy calls cut each other, too |
| two calls, one worker in PipelineMixed; one call, two workers in PipelineFaults | ExecPipeline | one call's reconnects under another's attempts; a job that runs twice at once |
| three tests | CppJudge | a failure before, after and between others |
| two calls | HttpClient | one batch of two or two batches of one, in either order; a repeated, an unusable, a negative, an out-of-range and a missing id in each, and a line more than there are calls (`MayReadMore`, `Ids`) |
| MaxRuns = 3, BatchSize = 2 | CodeforcesImport, IoiImport | a run cut short, one over what it left, one more; up to three lines are a full batch and a rest |
| six lines for each importer | CodeforcesImport, IoiImport | a line per case: repeated, colliding, skipped, without cases, malformed; fields at the top, in the metadata, on both levels |
| one look-up | IoiImport | it changes nothing, so look-ups do not meet |
| inputs of up to two lines | CfBin | a repeated key, and an older file that is longer or shorter |

`CHECK_DEADLOCK FALSE` is set throughout, because every one of these systems may stop: a clock that has reached its bound, workers told to exit, calls that have all returned, a builder that is done. That nothing waits for ever is checked by the liveness properties instead.

### Fairness and assumptions

- Processes that can go on do, a ticker fires, a crashed process is started again by its supervisor (the chart's Deployments). No failure, cancellation or signal is ever fair.
- A binary ends: nothing in `Execute` limits it (hazard temp_dir_executor.go:97). `AttemptsEnd` is only true of binaries that end.
- Cancelling its context does not end a BLPOP that was sent: go-redis v9 looks at the context before it sends, and the options (redis_job_queue.go:90-99) do not enable ContextTimeoutEnabled. A BLPOP on a list with a job in it returns.
- A request over HTTP ends: the endpoint answers or httpx's timeouts (proxy_client.py:154) do it.
- SQLite commits a transaction wholly or not at all, and a removed file lives on for who has it open; a commit or query that finds the database locked is one of the failures.
- One importer runs at a time on a database.
- Job ids are fresh (uuid). The Redis list survives; what is in it is lost by nobody but a worker.
- `asyncio.Semaphore` serves its waiters in order, hence strong fairness of `CreateTask`.
- `AttemptsEnd` excludes jobs a failure destroyed: the proxy has no timeout of its own, and the handler then waits for as long as the client's stream lives.

## The proofs

Every safety invariant of a passing run is proved of the specification for all values of the constants, and so are the refinement and the action property of the store. TLC checked each inductive invariant on the instances of the runs before it was proved.

| module | inductive invariant | theorem: what it states |
|---|---|---|
| ResponseStoreProofs | StoreInv (StoreSafe) | TypeCorrect: TypeOK and EntryShape; NeverDrops: DeliverNeverDrops; NeverLost: WaiterNotLost; OwnAnswerOnly: NoCrossTalk; KeptForTTLHolds: KeptForTTL |
| EnvletProofs | WorkInv (WorkInvariant) | WorkersTyped: TypeOK; NoJobVanishes: JobsConserved; NoCopyRunsTwice: RunOncePerPush |
| ExecPipelineProofs | PipelineInv (PipelineSafe) | NobodyWaitsForNothing: WaitingJobAlive; OnlyOrphansStored: StoredIsOrphan; ChannelsAreClosed: NoChannelLeft; NeverNilResult: NoNilResult; PipelineImplementsService: ImplementsService; OwnResultReturned: what a call returns, a run of its own request produced |
| ClientsProofs | ClientsInv (ClientsSafe) | ClientsTyped: ClientsTypeOK; HealthySurvives: HealthyCallSurvives; OwnAnswerOnly: OwnAnswer; FailuresCaused: FailureHasCause |
| CppJudgeProofs | JudgeInv (JudgeSafe) | AcceptedPassed: NoFailureAccepted; RejectedByFirst: FirstFailureDecides; UncompiledTold: CompileErrorTold |
| IOIRunnerProofs | RunnerInv (RunnerSafe) | RunnerTyped: TypeOK; NoPermitLost: PermitsConserved; TrueWasEarned: TrueIsEarned; ExitCodeRight: ExitCodeTrue |
| TestDataProofs | ImportInv of CodeforcesImport (ImportSafe) | ProblemsStayWhole: ProblemsWhole; NoOtherOrphans: OrphansOnlyAfterCutDrop; RunThroughComplete: ImportComplete |
| | ImportInv of IoiImport (IoiSafe) | ImportedStaysWhole: ImportedWhole; CommittedNotLost: NothingLost; LookupTellsTrue: LookupTrue |
| | BuildInv of CfBin (BuildSafe) | BuiltIsRead: BuiltReadsBack; HalfWrittenIsRefused: HalfWrittenRefused; ToolsTyped: TestDataTypeOK, with the two above |

### Why the invariants are what they are

Hardly any property is inductive by itself.

- **ResponseStore.** WaiterNotLost needs to know that a registered channel is empty and that its waiter has the id it is registered under (DeliverNeverDrops), or a delivery could free an entry and leave nothing in the buffer; that in turn needs EntryShape for the sweep to delete only entries without a channel, and WaiterKnowsId for a waiter that is being made. KeptForTTL needs SweepClock: the clock value a sweep works with was read earlier and is not in the future, so that `sweepNow > expiry` gives `now > expiry`. The argument goes by frame lemmas: a step changes one waiter and one id (`WaiterStep`), or only the map (`MapStep`), or only the clock (`ClockStepInv`), and each action shows no more than what it does to the one it touches.
- **Envlet.** JobsConserved adds up, per job, its places in the list, the workers that hold it and what was counted. That a job runs once per push needs RunsLeft: every copy in the list or held by a worker that has not run it is a run still to come, and what ran at most is what was pushed. One lemma says what a step that moves one worker and one copy does to both sums; each action shows which copies it moves.
- **ExecPipeline.** The types, WorkInv and StoreInv of the parts, calls that use their requests in order, and RequestInv, which ties a request's stream, handler, waiter, job and reply: a handler registers before it pushes and pushes before it waits; what is reported is in the waiter's hands or the store's; nothing stored or replied was not produced by a run of the request. The parts' lemmas are used through instances of their proof modules: the constants of the pipeline satisfy the parts' assumptions, and a step of the pipeline is a step of each part or none of its. The refinement maps the reply of a call and what its runs produced, and shows each step of PipelineInv to be one of ExecService or a stutter.
- **Clients.** HealthyCallSurvives counts reconnects over all calls. SetbacksPaid says that, as long as nothing fails outside, a healthy call owes each attempt it has lost to a reconnect of another call; the sum over the calls is shown to be a count of reconnects by the least set of calls for which it is not. OwnAnswer says that a call got the first line that stands for it; it needs each call to be in one batch at one place (QueuedOnce, BatchedOnce), or a line would serve two, and UnderWay, which says which futures of a batch are set after the lines read so far, with negative ids in their places; RaisedFor gives every call that raised its cause.
- **CppJudge.** LinesTrue keeps the printed lines in step with the outcomes of the tests, so that the first line with an error is that of the first failing test, whatever its details are; JudgedWhole says that what was captured of a judgelet that loaded its tests and was not killed has all their lines; UncompiledUnjudged keeps a failed compilation apart from them; VerdictOfCaptured says that the verdict is that of the captured files.
- **IOIRunner.** PermitsConserved needs PendingEnded: a done callback is due only of a task that has ended, and gives back what that task held. TrueIsEarned needs Progress, what a line that is over has, and RunsInOrder: the results a line has got are those of its runs, in their order. That a score of 100 means full marks is arithmetic: as long as no case has more than a full score and the points add up to 100, a sum of 100 leaves no room for a case that has less (HundredIsFull, from lemmas on SumOf that compare two sums summand by summand). ExitCodeTrue needs ExitedOver: the runner exits only after every line.
- **CodeforcesImport.** What the open transaction has is what the fold of the lines so far makes of what the run started from (SoFar); rows committed or not are whole, and no two problems have one id, for else an upsert of the one would take the cases of the other (RowsWhole).
- **IoiImport.** A database is whole if its ids refer to rows there are and each problem joins back to one record (Whole); all of them are, under either name, in the transaction or held by a reader (TablesWhole). Where the committed problems are follows the importer's step (CommittedKept). A look-up holds a file that has its problem at the id it resolved (LookKept): an import only adds to a file (Continues), and a replacement leaves the reader its own.

- **CfBin.** Data and index are what the loop over the lines has made of the lines so far, and the file has no header from Create until everything else is in it (BuildInv); HalfWrittenRefused follows at once. BuiltReadsBack is then a statement about two loops: a line that is written appends an index entry whose offsets find its cases in the data (ProblemWritten), what was written stays where it stands when more is appended (StandsOn), the reader's turn at such an entry gives back its key and offsets and ends at the next one (EntryRead), and after the entries of the first i lines it has, for each key, the cases of the last of them (Tells). A file of an earlier run answers for that run's input by the same lemma (ReadsBack).

### What the proofs assume

Each module names its assumptions, TLC evaluates them on every run, and the code justifies them.

| assumption | says | because |
|---|---|---|
| StoreAssumption, PipelineAssumption | times are natural numbers, Minute is positive; Nil is no value of the others; RetryLimit and WordSize are positive | constants of the source; a nil is no value |
| EnvletAssumption, ClientAssumption | finitely many workers and calls; bounds are natural numbers; every job has a kind | processes and calls there are |
| ProblemsAssumption, PayloadAssumption, PrintedAssumption, ScaleAssumption, ConcurrencyAssumption | the types of submissions, lines and outputs; a full score has Unit parts, and the mean of any sub-task is a whole number of shares, Scale to a part; both semaphores have a permit | the classes of the SDK; finitely many scores have a common denominator, and points are whole numbers; argparse's defaults, and a runner without a permit does nothing |
| SizeAssumption, InputAssumption | header, byte and word are not empty; lines of the type the decoder gives | format.go; the builder's structs |
| WordAssumption | a contest id, a number of cases and a length are below WordSize | the file has words of 32 bits and the builder converts without a check (main.go:165, 170): ids are positive and small and a case is a string in memory. It does not hold of every JSON number: an id beyond a word is looked up under its remainder |
| NoneAssumption | Nil is no file, header or slice | how the model says "none" |
| ImportAssumption | a positive batch size, a number of runs, lines of the types the decoders give | newBatchWriter replaces a batch size that is not positive (codeforces main.go:161), the IOI importer demands one; the structs of both |
| NilAssumption | Nil and Partial are two values and no databases | how the model says "no file" and "half a file" |

No assumption bounds a number of calls, workers, tests, lines, records, runs or failures beyond being finite.

### Loops without induction

The loops over lines, cases, index entries and records are recursive functions, of the modules or, as folds, of the community modules. What they give is proved without induction on a property: a function that satisfies the recursion's equation is written down or shown to be there, and the least argument at which what is claimed of it fails is a contradiction (`LeastNumber` and `LeastSet` of CountingLemmas, from the library's facts on well-founded relations; `EveryNumber`).

### What stays with TLC

The liveness properties (OrphansCollected, StoppedEnds, JobsFinish, AllCallsEnd, AttemptsEnd, RunnerEnds): fairness and ENABLED are out of the prover's reach.

## What is not modelled

- The contents of binaries, files and messages, except where a verdict depends on them.
- A crash of the machine, or a Redis that loses its list; in CfBin, writes that were made but not synced, and offsets past 64 bits.
- A line of judgelet's that is cut in the middle when it is killed (a line is shorter than a pipe's atomic write unless runprog's messages are long).
- The contents of the run scripts of IOIRunner: which script is chosen matters only in that there is one.
- Callers that are cancelled while their HTTP request waits in a batch, and the settings of the batching library (delays, batch size): any prefix of the queue may become a batch.
- How ioi_db_lookup and cf_case write what they found (input.txt, then output.txt), and ioi_db_lookup's column names for databases of older versions.
- Reads of an importer's input that fail: ioi_json_to_sql would then not end (hazard main.go:325).
- Locks between a look-up and an importer: they make one of them fail, which both may do anyway.
- Start-up code, flags, DSN parsing, 4xx answers to malformed callbacks.
- The dataset scripts (filters from file to file), the generated stubs, the images and charts: no state and no protocol of their own.

## Plan

Done: all modules of the table above, the runs, and the theorems listed.

| next | what |
|---|---|
| ResponseStoreProofs, IOIRunnerProofs | steps of a waiter and of a permit as action properties of the specification, beside the invariants |
| EnvletProofs, ClientsProofs | the action lemmas of a single worker and a single call, stated as properties of every step |
