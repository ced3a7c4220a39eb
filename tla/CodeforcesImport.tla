--------------------------- MODULE CodeforcesImport ---------------------------
(***************************************************************************)
(* codeforces_jsonl_to_sqlite: imports lines into a SQLite database, one   *)
(* transaction per BatchSize problems, over what earlier runs - finished,  *)
(* failed or killed - left there.  The two tables are dropped one after    *)
(* the other; foreign keys are declared and not enforced.                  *)
(***************************************************************************)
EXTENDS Integers, Sequences, SequencesExt, FiniteSets, TLC

CONSTANTS
    Files,            \* the lines a run may be given, all its files in a row
    ProblemId(_, _),  \* the hash of contest and index that is a problem's id
    BatchSize,        \* -batch-size
    MaxRuns,          \* bound: runs of the importer
    Nil               \* SQL's NULL

VARIABLES
    pc, at,   \* the importer: its step, the line it is at
    runs,
    lines,    \* what this run imports
    drop,     \* its -drop
    db,       \* committed rows: problems by contest and index, cases by id
    tx,       \* the rows as the open transaction sees them
    cnt,      \* problems in it
    base,     \* history: the contents this run started from, empty with -drop
    cutDrop   \* history: a run ended between its two drops

importVars == <<pc, at, runs, lines, drop, db, tx, cnt, base, cutDrop>>

Empty == [problems |-> <<>>, cases |-> <<>>]

Init ==
    /\ pc = "idle" /\ at = 1 /\ runs = 0
    /\ lines = <<>> /\ drop = FALSE
    /\ db = Empty /\ tx = Empty /\ cnt = 0
    /\ base = <<>> /\ cutDrop = FALSE

-----------------------------------------------------------------------------
Key(l) == <<l.contest, l.index>>
Usable(l) == l.parses /\ l.contest # 0 /\ l.index # ""

nullIfEmpty(v) == IF v = "" THEN Nil ELSE v

(* What the two tables say of a line. *)
Stored(l) ==
    [title |-> nullIfEmpty(l.title),
     cases |-> [i \in DOMAIN l.cases |-> [input |-> nullIfEmpty(l.cases[i].input),
                                          output |-> nullIfEmpty(l.cases[i].output)]]]

(* The table t with row v under k, in the place of an older one. *)
Put(t, k, v) == [x \in DOMAIN t \cup {k} |-> IF x = k THEN v ELSE t[x]]

CasesOf(rows, id) == IF id \in DOMAIN rows.cases THEN rows.cases[id] ELSE <<>>

(* A reader joins the tables: per problem its row and its cases. *)
Contents(rows) ==
    [k \in DOMAIN rows.problems |->
       [title |-> rows.problems[k].title, cases |-> CasesOf(rows, rows.problems[k].id)]]

(* A batch begins: a transaction that sees these rows. *)
reset(rows) == tx' = rows /\ cnt' = 0

(* A run on a database that is there; it may name other lines, and -drop. *)
Start ==
    /\ pc = "idle" /\ runs < MaxRuns
    /\ runs' = runs + 1
    /\ lines' \in Files
    /\ drop' \in BOOLEAN
    /\ pc' = IF drop' THEN "dropProblems" ELSE "import"
    /\ base' = IF drop' THEN <<>> ELSE Contents(db)
    /\ at' = 1
    /\ reset(db)
    /\ UNCHANGED <<db, cutDrop>>

DropProblems ==
    /\ pc = "dropProblems"
    /\ db' = [db EXCEPT !.problems = <<>>]
    /\ pc' = "dropCases"
    /\ UNCHANGED <<at, runs, lines, drop, tx, cnt, base, cutDrop>>

(* A mistake: the foreign key is trusted to drop the cases. *)
DropCasesByForeignKey ==
    /\ pc = "dropCases"
    /\ tx' = db
    /\ pc' = "import"
    /\ UNCHANGED <<at, runs, lines, drop, db, cnt, base, cutDrop>>

(* The second drop; the tables are created anew and the batch begins. *)
DropCases ==
    /\ pc = "dropCases"
    /\ db' = [db EXCEPT !.cases = <<>>]
    /\ reset(db')
    /\ pc' = "import"
    /\ UNCHANGED <<at, runs, lines, drop, base, cutDrop>>

SkipLine ==
    /\ pc = "import" /\ at <= Len(lines)
    /\ lines[at].parses /\ ~Usable(lines[at])
    /\ at' = at + 1
    /\ UNCHANGED <<pc, runs, lines, drop, db, tx, cnt, base, cutDrop>>

(* ON CONFLICT is on contest and index: an id that another problem has     *)
(* fails the insert.                                                       *)
Collides(l) ==
    \E k \in DOMAIN tx.problems : k # Key(l) /\ tx.problems[k].id = ProblemId(l.contest, l.index)

(* A mistake: INSERT OR REPLACE alone, without the delete before it. *)
WithLineOverOldCases(l) ==
    LET id == ProblemId(l.contest, l.index)
    IN  [problems |-> Put(tx.problems, Key(l), [id |-> id, title |-> Stored(l).title]),
         cases |-> Put(tx.cases, id, Stored(l).cases @@ CasesOf(tx, id))]

(* The upsert of the problem, the delete of the cases its id has, and the  *)
(* insert of the new ones.                                                 *)
WithLine(l) ==
    LET id == ProblemId(l.contest, l.index)
    IN  [problems |-> Put(tx.problems, Key(l), [id |-> id, title |-> Stored(l).title]),
         cases |-> Put(tx.cases, id, Stored(l).cases)]

(* A full batch is committed and the next one begins. *)
Insert ==
    /\ pc = "import" /\ at <= Len(lines)
    /\ Usable(lines[at]) /\ ~Collides(lines[at])
    /\ tx' = WithLine(lines[at])
    /\ IF cnt + 1 >= BatchSize THEN db' = tx' /\ cnt' = 0 ELSE cnt' = cnt + 1 /\ UNCHANGED db
    /\ at' = at + 1
    /\ UNCHANGED <<pc, runs, lines, drop, base, cutDrop>>

(* Whatever ends the process: the open transaction is gone. *)
Ends ==
    /\ pc' = "idle" /\ at' = 1
    /\ lines' = <<>> /\ drop' = FALSE /\ base' = <<>>
    /\ tx' = Empty /\ cnt' = 0
    /\ UNCHANGED <<runs, db>>

(* A line that does not parse or cannot be inserted is fatal. *)
LineFails ==
    /\ pc = "import" /\ at <= Len(lines)
    /\ ~lines[at].parses \/ (Usable(lines[at]) /\ Collides(lines[at]))
    /\ Ends
    /\ UNCHANGED cutDrop

(* The process is killed, or SQLite fails it. *)
Dies ==
    /\ pc # "idle"
    /\ Ends
    /\ cutDrop' = (cutDrop \/ pc = "dropCases")

(* A mistake: only full batches are committed. *)
FlushForgotten ==
    /\ pc = "import" /\ at = Len(lines) + 1
    /\ pc' = "idle" /\ at' = at + 1
    /\ tx' = Empty /\ cnt' = 0
    /\ UNCHANGED <<runs, lines, drop, db, base, cutDrop>>

(* The last flush, and main is over: at is beyond the end. *)
Flush ==
    /\ pc = "import" /\ at = Len(lines) + 1
    /\ db' = tx
    /\ pc' = "idle" /\ at' = at + 1
    /\ tx' = Empty /\ cnt' = 0
    /\ UNCHANGED <<runs, lines, drop, base, cutDrop>>

Next ==
    \/ Start \/ DropProblems \/ DropCases
    \/ SkipLine \/ Insert \/ LineFails \/ Flush
    \/ Dies

-----------------------------------------------------------------------------
TypeOK ==
    /\ pc \in {"idle", "dropProblems", "dropCases", "import"}
    /\ runs \in 0..MaxRuns /\ at \in 1..(Len(lines) + 2)
    /\ cnt \in 0..(BatchSize - 1)
    /\ pc = "idle" => tx = Empty
    /\ \A k \in DOMAIN db.problems : db.problems[k].id = ProblemId(k[1], k[2])

InputLines == UNION {ToSet(f) : f \in Files}

(* However runs failed, were killed or overwrote each other, and whatever  *)
(* cases an earlier problem had left under its id: a problem in the file   *)
(* is one line of an input, its row and all and only its cases.            *)
ProblemsWhole ==
    \A k \in DOMAIN db.problems :
       \E l \in InputLines :
          Usable(l) /\ Key(l) = k /\ Contents(db)[k] = Stored(l)

(* Cases without a problem are left only by a run that ended between its   *)
(* two drops: nothing else relies on the foreign key that is not enforced. *)
OrphansOnlyAfterCutDrop ==
    pc # "dropCases" =>
       \/ cutDrop
       \/ DOMAIN db.cases = {db.problems[k].id : k \in DOMAIN db.problems}

(* The last line of each problem, over what was there before. *)
Imported(fs, before) ==
    FoldLeft(LAMBDA c, l : IF Usable(l) THEN Put(c, Key(l), Stored(l)) ELSE c, before, fs)

(* A run that went through leaves the problems it started from with the    *)
(* last line of each problem over them, however the lines fell into        *)
(* batches and however often a problem came.                               *)
ImportComplete ==
    pc = "idle" /\ at = Len(lines) + 2 => Contents(db) = Imported(lines, base)

-----------------------------------------------------------------------------
(* What the steps keep.  Rows, committed or not: no two problems have one  *)
(* id, and each is one line of an input.                                   *)
RowsWhole(rows) ==
    /\ rows = [problems |-> rows.problems, cases |-> rows.cases]
    /\ \A k \in DOMAIN rows.problems :
          /\ rows.problems[k].id = ProblemId(k[1], k[2])
          /\ \A m \in DOMAIN rows.problems : rows.problems[k].id = rows.problems[m].id => k = m
          /\ \E l \in InputLines :
                Usable(l) /\ Key(l) = k /\ Contents(rows)[k] = Stored(l)

NoOrphans(rows) == DOMAIN rows.cases = {rows.problems[k].id : k \in DOMAIN rows.problems}

(* How far a run has come: the lines before at are in the transaction.     *)
SoFar ==
    /\ base = [k \in DOMAIN base |-> base[k]] /\ cutDrop \in BOOLEAN
    /\ pc = "dropCases" => db.problems = <<>>
    /\ pc \in {"dropProblems", "dropCases"} => base = <<>> /\ at = 1
    /\ pc = "import" => Contents(tx) = Imported(SubSeq(lines, 1, at - 1), base)

ImportInv ==
    /\ TypeOK
    /\ lines \in Files \cup {<<>>} /\ (pc # "idle" => lines \in Files /\ at <= Len(lines) + 1)
    /\ RowsWhole(db) /\ RowsWhole(tx)
    /\ cutDrop \/ (/\ pc # "dropCases" => NoOrphans(db)
                   /\ pc = "import" => NoOrphans(tx))
    /\ SoFar /\ ImportComplete
=============================================================================
