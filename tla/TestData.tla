------------------------------- MODULE TestData -------------------------------
(***************************************************************************)
(* The tools that make and read the stores of test data: the binary file   *)
(* of CfBin, the SQLite database of CodeforcesImport and the one of        *)
(* IoiImport with its look-up.  They share no file: a behaviour is one of  *)
(* them at work, and variables of one name serve whichever it is.          *)
(***************************************************************************)
EXTENDS CfBin

CONSTANTS
    CfFiles,           \* lines for codeforces_jsonl_to_sqlite
    ProblemId(_, _),   \* its hash
    IoiFiles,          \* lines for ioi_json_to_sql
    Queries,           \* queries for ioi_db_lookup
    BatchSize, MaxRuns, Partial

VARIABLES
    tool,                              \* the tool at work
    runs, lines, db, tx, cnt,          \* of both importers
    drop, base, cutDrop,               \* of CodeforcesImport
    vac, look, committed, rescue       \* of IoiImport

Cf == INSTANCE CodeforcesImport WITH Files <- CfFiles
Ioi == INSTANCE IoiImport WITH Files <- IoiFiles

(* The lines as their decoders can give them. *)
CfLine == [parses : BOOLEAN, contest : Int, index : STRING, title : STRING,
           cases : Seq([input : STRING, output : STRING])]

IsNamedMap(map) == IsFiniteSet(DOMAIN map) /\ DOMAIN map \subseteq STRING
IsRecord(r) == /\ r.id \in STRING /\ r.year \in Int
               /\ r.subTasks \in Seq([name : STRING, tests : Seq(STRING)])
               /\ IsNamedMap(r.cases) /\ IsNamedMap(r.files)

ASSUME ImportAssumption ==
    /\ BatchSize \in Nat \ {0} /\ MaxRuns \in Nat
    /\ CfFiles \subseteq Seq(CfLine)
    /\ \A f \in IoiFiles : f \in Seq(ToSet(f)) /\ \A i \in DOMAIN f : IsRecord(f[i]) /\ IsRecord(f[i].metadata)

(* No database is of the two values that are not one. *)
ASSUME NilAssumption == Nil # Partial /\ Nil \notin Ioi!AllTables /\ Partial \notin Ioi!AllTables

sharedVars == <<runs, lines, db, tx, cnt>>
cfVars == <<drop, base, cutDrop>>
ioiVars == <<vac, look, committed, rescue>>
fileVars == <<input, file, data, dataPos, index>>
testDataVars == <<tool, pc, at, sharedVars, cfVars, ioiVars, fileVars>>

(* What a tool that is not at work has: nothing. *)
NoFile == input = <<>> /\ file = Nil /\ data = <<>> /\ dataPos = 0 /\ index = <<>>
NoShared == runs = 0 /\ lines = <<>> /\ db = Nil /\ tx = Nil /\ cnt = 0
NoCf == drop = FALSE /\ base = <<>> /\ cutDrop = FALSE
NoIoi == vac = Nil /\ look = Nil /\ committed = {} /\ rescue = Nil

TestDataInit ==
    \/ tool = "cf_bin_builder" /\ Init /\ NoShared /\ NoCf /\ NoIoi
    \/ tool = "codeforces_jsonl_to_sqlite" /\ Cf!Init /\ NoFile /\ NoIoi
    \/ tool = "ioi_json_to_sql" /\ Ioi!Init /\ NoFile /\ NoCf

Builds ==
    /\ tool = "cf_bin_builder"
    /\ Next
    /\ UNCHANGED <<tool, sharedVars, cfVars, ioiVars>>

ImportsCodeforces ==
    /\ tool = "codeforces_jsonl_to_sqlite"
    /\ Cf!Next
    /\ UNCHANGED <<tool, ioiVars, fileVars>>

ImportsIoi ==
    /\ tool = "ioi_json_to_sql"
    /\ Ioi!Next
    /\ UNCHANGED <<tool, cfVars, fileVars>>

TestDataNext == Builds \/ ImportsCodeforces \/ ImportsIoi

TestDataSpec == TestDataInit /\ [][TestDataNext]_testDataVars

-----------------------------------------------------------------------------
OfCodeforces(property) == tool = "codeforces_jsonl_to_sqlite" => property
OfIoi(property) == tool = "ioi_json_to_sql" => property

TestDataTypeOK ==
    /\ tool = "cf_bin_builder" => TypeOK
    /\ OfCodeforces(Cf!TypeOK)
    /\ OfIoi(Ioi!TypeOK)

(* A problem in the Codeforces database is one line of an input: its row   *)
(* and all and only its cases, whatever failed or came before.             *)
ProblemsWhole == OfCodeforces(Cf!ProblemsWhole)

(* Cases without a problem come only from a run cut between its two drops. *)
OrphansOnlyAfterCutDrop == OfCodeforces(Cf!OrphansOnlyAfterCutDrop)

(* A Codeforces import that went through leaves the last line of each      *)
(* problem over what it started from.                                      *)
ImportComplete == OfCodeforces(Cf!ImportComplete)

(* Every problem a reader of the IOI database can find is whole, and a run *)
(* that went through left all its lines.                                   *)
ImportedWhole == OfIoi(Ioi!ImportedWhole)

(* Committed IOI problems are in the database or its finished copy until a *)
(* run that follows one cut between remove and rename removes the copy.    *)
NothingLost == OfIoi(Ioi!NothingLost)

(* An IOI look-up that answers gives all that some line says of the        *)
(* problem asked for, although the file may change between its queries.    *)
LookupTrue == OfIoi(Ioi!LookupTrue)
=============================================================================
