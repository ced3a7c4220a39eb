------------------------------- MODULE IoiImport -------------------------------
(***************************************************************************)
(* The IOI database: ioi_json_to_sql imports lines into it, batch by       *)
(* batch, and then puts a vacuumed copy in its place; ioi_db_lookup reads  *)
(* it meanwhile, in two queries on one connection.  Importers may fail or  *)
(* be killed at any step and run again with other lines.  The file system  *)
(* and SQLite are external: a removed file lives on for who has it open.   *)
(***************************************************************************)
EXTENDS Integers, Sequences, SequencesExt, FiniteSets

CONSTANTS
    Files,      \* the lines a run of the importer may be given
    BatchSize,  \* -batch-size, which the importer demands to be positive
    MaxRuns,    \* bound: runs of the importer
    Queries,    \* what is looked up
    Nil,
    Partial     \* a database that VACUUM INTO has not finished

VARIABLES
    pc, at,       \* the importer: its step, the line it is at
    runs,
    lines,        \* what this run imports
    db,           \* the database under its name, Nil if there is none
    vac,          \* the file .vacuum, Nil if there is none
    tx,           \* the tables as the open transaction sees them
    cnt,          \* problems in it
    look,         \* a look-up: its step, its query, the removed file it holds
    committed,    \* history: the problems committed
    rescue        \* history: whether a run ended with the data in .vacuum alone,
                  \* "needed", and whether another one has removed that, "removed"

importerVars == <<pc, at, runs, lines, tx, cnt>>
ioiVars == <<importerVars, db, vac, look, committed, rescue>>

(* nextID reads the greatest id of a table, and only this run inserts: a   *)
(* table is a sequence, a row's id its place.                              *)
Tables == [problems |-> <<>>, cases |-> <<>>, files |-> <<>>, subTasks |-> <<>>, links |-> <<>>]

NoLook == [st |-> "idle", q |-> Nil, held |-> Nil, id |-> 0, answer |-> Nil]

Init ==
    /\ pc = "idle" /\ at = 1 /\ runs = 0 /\ lines = <<>>
    /\ db = Nil /\ vac = Nil /\ tx = Nil /\ cnt = 0
    /\ look = NoLook
    /\ committed = {} /\ rescue = "none"

-----------------------------------------------------------------------------
(* A line's fields may be at its top or in its metadata: id and year go    *)
(* together, the others each for itself.                                   *)
normalizeRecord(l) ==
    LET m == l.metadata
        head == IF m.id = "" /\ l.id # "" THEN l ELSE m
        given(top, inner) == IF DOMAIN top = {} THEN inner ELSE top
    IN  [name |-> head.id, year |-> head.year,
         subTasks |-> given(l.subTasks, m.subTasks),
         cases |-> given(l.cases, m.cases),
         files |-> given(l.files, m.files)]

Key(r) == <<r.year, r.name>>

(* What panics: an id or year that is missing, a row a unique index        *)
(* refuses, a sub-task that names a test case the problem does not have.   *)
Refused(l) ==
    LET r == normalizeRecord(l)
    IN  \/ ~l.parses \/ r.name = "" \/ r.year = 0
        \/ \E i \in DOMAIN tx.problems : Key(tx.problems[i]) = Key(r)
        \/ \E i, j \in DOMAIN r.subTasks : i # j /\ r.subTasks[i].name = r.subTasks[j].name
        \/ \E i \in DOMAIN r.subTasks : ~ToSet(r.subTasks[i].tests) \subseteq DOMAIN r.cases

(* The rows of a named map, inserted in the order of names. *)
Rows(problem, map, names) ==
    [i \in DOMAIN names |-> [problem |-> problem, name |-> names[i], data |-> map[names[i]]]]

(* The links of sub-task s, the i-th of its record. *)
LinksOf(r, s, subTaskIds, caseIds) ==
    [n \in DOMAIN r.subTasks[s].tests |->
       [subTask |-> subTaskIds[s], case |-> caseIds[r.subTasks[s].tests[n]]]]

(* The tables with the rows of record r: the test cases in the order of a  *)
(* Go map, which is any, the files sorted by name.                         *)
WithRecord(t, r, caseNames, fileNames) ==
    LET p == Len(t.problems) + 1
        caseIds == [n \in DOMAIN r.cases |->
                      Len(t.cases) + CHOOSE i \in DOMAIN caseNames : caseNames[i] = n]
        subTaskIds == [s \in DOMAIN r.subTasks |-> Len(t.subTasks) + s]
    IN  [problems |-> Append(t.problems, [name |-> r.name, year |-> r.year]),
         cases |-> t.cases \o Rows(p, r.cases, caseNames),
         files |-> t.files \o Rows(p, r.files, fileNames),
         subTasks |-> t.subTasks \o [s \in DOMAIN r.subTasks |->
                                       [problem |-> p, name |-> r.subTasks[s].name]],
         links |-> t.links \o FlattenSeq([s \in DOMAIN r.subTasks |-> LinksOf(r, s, subTaskIds, caseIds)])]

-----------------------------------------------------------------------------
(* A batch begins: a transaction that sees these tables. *)
newBatchWriter(t) == tx' = t /\ cnt' = 0

(* The importer opens the database, creates what is missing of it and      *)
(* begins the first batch.                                                 *)
Start ==
    /\ pc = "idle" /\ runs < MaxRuns
    /\ runs' = runs + 1
    /\ lines' \in Files
    /\ db' = IF db = Nil THEN Tables ELSE db
    /\ newBatchWriter(db')
    /\ at' = 1
    /\ pc' = "import"
    /\ UNCHANGED <<vac, look, committed, rescue>>

ProblemsOf(t) == IF t \in {Nil, Partial} THEN {} ELSE {Key(t.problems[i]) : i \in DOMAIN t.problems}

Commit(t) ==
    /\ db' = t
    /\ committed' = committed \cup ProblemsOf(t)

(* A record is inserted; a full batch is committed and the next begins. *)
ImportLine ==
    /\ pc = "import" /\ at <= Len(lines)
    /\ ~Refused(lines[at])
    /\ LET r == normalizeRecord(lines[at])
       IN  \E caseNames \in SetToSeqs(DOMAIN r.cases) :
              tx' = WithRecord(tx, r, caseNames, CHOOSE o \in SetToSeqs(DOMAIN r.files) : TRUE)
    /\ at' = at + 1
    /\ IF cnt + 1 >= BatchSize THEN Commit(tx') /\ cnt' = 0
       ELSE cnt' = cnt + 1 /\ UNCHANGED <<db, committed>>
    /\ UNCHANGED <<pc, runs, lines, vac, look, rescue>>

(* Whatever ends the process: the open transaction is gone. *)
Ends ==
    /\ pc' = "idle" /\ at' = 1 /\ lines' = <<>>
    /\ tx' = Nil /\ cnt' = 0
    /\ UNCHANGED <<runs, vac, look>>

(* A mistake: the deferred call commits the batch. *)
LineFailsCommitting ==
    /\ pc = "import" /\ at <= Len(lines)
    /\ Refused(lines[at])
    /\ Ends
    /\ Commit([tx EXCEPT !.problems = Append(@, [name |-> normalizeRecord(lines[at]).name,
                                                 year |-> normalizeRecord(lines[at]).year])])
    /\ UNCHANGED rescue

(* The panic runs the deferred rollback. *)
LineFails ==
    /\ pc = "import" /\ at <= Len(lines)
    /\ Refused(lines[at])
    /\ Ends
    /\ UNCHANGED <<db, committed, rescue>>

(* The process is killed, or an operation fails. *)
Dies ==
    /\ pc # "idle"
    /\ Ends
    /\ rescue' = IF pc = "rename" /\ rescue = "none" THEN "needed" ELSE rescue
    /\ UNCHANGED <<db, committed>>

(* The importer goes on to the next step of its end. *)
Goes(step) ==
    /\ pc' = step
    /\ UNCHANGED <<at, runs, lines, tx, cnt, look>>

LastCommit ==
    /\ pc = "import" /\ at > Len(lines)
    /\ Commit(tx)
    /\ Goes("removeVacuum")
    /\ UNCHANGED <<vac, rescue>>

(* The .vacuum file of an earlier run goes; then VACUUM INTO begins. *)
RemoveVacuum ==
    /\ pc = "removeVacuum"
    /\ vac' = Nil
    /\ rescue' = IF rescue = "needed" THEN "removed" ELSE rescue
    /\ Goes("vacuumInto")
    /\ UNCHANGED <<db, committed>>

VacuumBegins ==
    /\ pc = "vacuumInto" /\ vac = Nil
    /\ vac' = Partial
    /\ Goes("vacuum")
    /\ UNCHANGED <<db, committed, rescue>>

(* A mistake: the error of VACUUM INTO is not looked at. *)
VacuumUnchecked ==
    /\ pc = "vacuum"
    /\ vac' \in {Partial, db}
    /\ Goes("remove")
    /\ UNCHANGED <<db, committed, rescue>>

VacuumEnds ==
    /\ pc = "vacuum"
    /\ vac' = db
    /\ Goes("remove")
    /\ UNCHANGED <<db, committed, rescue>>

(* A removed file stays with the look-up that has it open. *)
Unlinked == [look EXCEPT !.held = IF look.st = "resolved" /\ @ = Nil THEN db ELSE @]

RemoveDatabase ==
    /\ pc = "remove"
    /\ db' = Nil
    /\ look' = Unlinked
    /\ pc' = "rename"
    /\ UNCHANGED <<at, runs, lines, vac, tx, cnt, committed, rescue>>

(* The copy takes the name, and main is over: at is beyond the end. *)
Rename ==
    /\ pc = "rename"
    /\ db' = vac /\ vac' = Nil
    /\ pc' = "idle" /\ at' = Len(lines) + 2
    /\ tx' = Nil /\ cnt' = 0
    /\ UNCHANGED <<runs, lines, look, committed, rescue>>

Import ==
    \/ Start \/ ImportLine \/ LineFails \/ LastCommit
    \/ RemoveVacuum \/ VacuumBegins \/ VacuumEnds \/ RemoveDatabase \/ Rename
    \/ Dies

-----------------------------------------------------------------------------
(* openReadonly finds the file; the connection opens it at its first query. *)
openReadonly ==
    /\ look.st = "idle" /\ db # Nil
    /\ \E q \in Queries : look' = [NoLook EXCEPT !.st = "asked", !.q = q]
    /\ UNCHANGED <<importerVars, db, vac, committed, rescue>>

(* The problems of a database that a query can mean: by id, by name and    *)
(* year, or by name alone when the year is not positive.                   *)
Meant(t, q) ==
    {i \in DOMAIN t.problems :
       IF q.id # 0 THEN i = q.id
       ELSE t.problems[i].name = q.name /\ (q.year > 0 => t.problems[i].year = q.year)}

(* The first query: none and more than one problem are errors. *)
resolveProblemID ==
    /\ look.st = "asked" /\ db # Nil
    /\ LET found == Meant(db, look.q)
       IN  look' = IF Cardinality(found) = 1
                   THEN [look EXCEPT !.st = "resolved", !.id = CHOOSE i \in found : TRUE]
                   ELSE [look EXCEPT !.st = "failed"]
    /\ UNCHANGED <<importerVars, db, vac, committed, rescue>>

(* The file went away before it was opened. *)
OpenFails ==
    /\ look.st = "asked" /\ db = Nil
    /\ look' = [look EXCEPT !.st = "failed"]
    /\ UNCHANGED <<importerVars, db, vac, committed, rescue>>

OfProblem(rows, p) == {i \in DOMAIN rows : rows[i].problem = p}

(* A mistake: each query opens the path anew. *)
OpenedAnew == IF db = Nil THEN Tables ELSE db

(* The tables of the file the connection has open. *)
Opened == IF look.held # Nil THEN look.held ELSE db

(* What the second query finds: one test case, or all grader files. *)
Fetched(t) ==
    IF look.q.case # ""
    THEN {t.cases[i].data : i \in {i \in OfProblem(t.cases, look.id) : t.cases[i].name = look.q.case}}
    ELSE {<<t.files[i].name, t.files[i].data>> : i \in OfProblem(t.files, look.id)}

(* fetchTestCase or fetchGraderFiles; nothing found is an error. *)
fetch ==
    /\ look.st = "resolved"
    /\ look' = IF Fetched(Opened) = {} THEN [look EXCEPT !.st = "failed", !.held = Nil]
               ELSE [look EXCEPT !.st = "done", !.held = Nil, !.answer = Fetched(Opened)]
    /\ UNCHANGED <<importerVars, db, vac, committed, rescue>>

Look == openReadonly \/ resolveProblemID \/ OpenFails \/ fetch

Next == Import \/ Look

-----------------------------------------------------------------------------
Records == {normalizeRecord(l) : l \in UNION {ToSet(f) : f \in Files}}

TypeOK ==
    /\ pc \in {"idle", "import", "removeVacuum", "vacuumInto", "vacuum", "remove", "rename"}
    /\ runs \in 0..MaxRuns /\ cnt \in 0..(BatchSize - 1)
    /\ db # Partial /\ tx # Partial
    /\ look.st \in {"idle", "asked", "resolved", "done", "failed"}

(* The whole of problem p as the tables have it, joined back to names. *)
ReadBack(t, p) ==
    LET map(rows) == {<<rows[i].name, rows[i].data>> : i \in OfProblem(rows, p)}
        tasks == OfProblem(t.subTasks, p)
    IN  [cases |-> map(t.cases), files |-> map(t.files),
         subTasks |-> {<<t.subTasks[s].name,
                         {t.cases[t.links[i].case].name :
                            i \in {i \in DOMAIN t.links : t.links[i].subTask = s}}>> : s \in tasks}]

Wanted(r) ==
    LET map(f) == {<<n, f[n]>> : n \in DOMAIN f}
    IN  [cases |-> map(r.cases), files |-> map(r.files),
         subTasks |-> {<<r.subTasks[i].name, ToSet(r.subTasks[i].tests)>> : i \in DOMAIN r.subTasks}]

(* Problem p of the tables is one record, by its key and with all its rows. *)
ProblemWhole(t, p) ==
    \E r \in Records : Key(r) = Key(t.problems[p]) /\ ReadBack(t, p) = Wanted(r)

(* Every problem a reader can find is whole - its cases, its files, its    *)
(* sub-tasks and their cases, joined through ids that count on over        *)
(* batches, runs and failures - and a run that went through left all its   *)
(* lines.                                                                  *)
ImportedWhole ==
    /\ db # Nil => \A p \in DOMAIN db.problems : ProblemWhole(db, p)
    /\ pc = "idle" /\ at = Len(lines) + 2 =>
          \A i \in DOMAIN lines : Key(normalizeRecord(lines[i])) \in ProblemsOf(db)

(* What was committed is in the database or in its finished copy, through  *)
(* every failure.  A run that ends between the remove and the rename       *)
(* leaves the copy alone, which stays until the end of another run; that   *)
(* one started from nothing and removes it.                                *)
NothingLost == rescue = "removed" \/ committed \subseteq ProblemsOf(db) \cup ProblemsOf(vac)

(* A look-up that answers gives what some line says of the problem it was  *)
(* asked for, and all of it, although the importer may have replaced the   *)
(* file, and the ids in it, between its two queries.                       *)
LookupTrue ==
    look.st = "done" =>
       \E r \in Records :
          /\ look.q.id = 0 => r.name = look.q.name /\ (look.q.year > 0 => r.year = look.q.year)
          /\ look.answer = IF look.q.case # ""
                           THEN {r.cases[n] : n \in {look.q.case} \cap DOMAIN r.cases}
                           ELSE {<<n, r.files[n]>> : n \in DOMAIN r.files}

-----------------------------------------------------------------------------
(* What the steps keep. *)
NamedRow(Data) == [problem : Nat, name : STRING, data : Data]

CaseData == UNION {{r.cases[n] : n \in DOMAIN r.cases} : r \in Records}
FileData == UNION {{r.files[n] : n \in DOMAIN r.files} : r \in Records}

AllTables ==
    [problems : Seq([name : STRING, year : Int]),
     cases : Seq(NamedRow(CaseData)), files : Seq(NamedRow(FileData)),
     subTasks : Seq([problem : Nat, name : STRING]), links : Seq([subTask : Nat, case : Nat])]

(* The references of the rows have their targets. *)
Linked(t) ==
    /\ \A rows \in {t.cases, t.files, t.subTasks} :
          \A i \in DOMAIN rows : rows[i].problem \in DOMAIN t.problems
    /\ \A i \in DOMAIN t.links :
          t.links[i].subTask \in DOMAIN t.subTasks /\ t.links[i].case \in DOMAIN t.cases

Whole(t) == t \in AllTables /\ Linked(t) /\ \A p \in DOMAIN t.problems : ProblemWhole(t, p)

(* Every database is whole, at every step. *)
TablesWhole ==
    /\ db = Nil \/ Whole(db)
    /\ vac \in {Nil, Partial} \/ Whole(vac)
    /\ look.held = Nil \/ Whole(look.held)
    /\ pc = "import" => Whole(tx)
    /\ pc \in {"import", "removeVacuum", "vacuumInto", "vacuum", "remove"} => db # Nil
    /\ pc = "remove" => vac = db
    /\ pc = "rename" => db = Nil /\ vac \notin {Nil, Partial}

(* The problems of t are the first of u. *)
Continues(t, u) == Len(t.problems) <= Len(u.problems)
                     /\ \A p \in DOMAIN t.problems : t.problems[p] = u.problems[p]

LinesIn(t, n) == \A i \in 1..n : Key(normalizeRecord(lines[i])) \in ProblemsOf(t)

(* Where the lines that a run is through with are. *)
LinesKept ==
    /\ lines \in Files \cup {<<>>} /\ at \in 1..(Len(lines) + 2)
    /\ pc # "idle" => lines \in Files /\ at <= Len(lines) + 1
    /\ pc \notin {"idle", "import"} => at = Len(lines) + 1
    /\ pc = "import" => Continues(db, tx) /\ LinesIn(tx, at - 1)
    /\ pc \in {"removeVacuum", "vacuumInto", "vacuum", "remove"} => LinesIn(db, Len(lines))
    /\ pc = "rename" => LinesIn(vac, Len(lines))
    /\ pc = "idle" /\ at = Len(lines) + 2 => LinesIn(db, Len(lines))

(* Where the problems committed by all runs are. *)
CommittedKept ==
    /\ rescue \in {"none", "needed", "removed"}
    /\ rescue = "none" => committed \subseteq IF pc = "rename" THEN ProblemsOf(vac) ELSE ProblemsOf(db)
    /\ rescue = "needed" => /\ pc \in {"idle", "import", "removeVacuum"}
                            /\ committed \subseteq ProblemsOf(db) \cup ProblemsOf(vac)

(* The file a look-up has open has the problem it resolved, at its id. *)
LookKept ==
    /\ look = [st |-> look.st, q |-> look.q, held |-> look.held, id |-> look.id, answer |-> look.answer]
    /\ look.st # "resolved" => look.held = Nil
    /\ look.st = "resolved" => Opened # Nil /\ look.id \in Meant(Opened, look.q)

ImportInv == TypeOK /\ TablesWhole /\ LinesKept /\ CommittedKept /\ LookKept /\ LookupTrue
=============================================================================
