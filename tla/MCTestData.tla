------------------------------ MODULE MCTestData ------------------------------
(* Inputs of the tools; the bytes of the binary file are numbers. *)
EXTENDS TestData

(* The binary file: inputs of up to two lines. *)
Case(i, o) == [in |-> i, out |-> o]
Line(c, name, cases) == [parses |-> TRUE, contest |-> c, name |-> name, cases |-> cases]
A == <<1>>
MCLines == {Line(1, A, <<>>),
            Line(1, A, <<Case(<<1>>, <<2, 3>>)>>),
            Line(1, A, <<Case(<<>>, <<2>>), Case(<<1, 3>>, <<>>)>>),
            Line(2, <<1, 2, 3>>, <<Case(<<3>>, <<1>>)>>),
            Line(2, <<1, 2, 3, 1>>, <<Case(<<3>>, <<1>>)>>),
            Line(0, A, <<Case(<<3>>, <<1>>)>>),
            [Line(1, A, <<>>) EXCEPT !.parses = FALSE]}
MCInputs == UNION {[1..n -> MCLines] : n \in 0..2}

(* The Codeforces database: three lines make a full batch and a rest; two  *)
(* problems have one id.                                                   *)
SqlCase(i, o) == [input |-> i, output |-> o]
SqlLine(c, name, title, cases) ==
    [parses |-> TRUE, contest |-> c, index |-> name, title |-> title, cases |-> cases]
MCSqlLines == {SqlLine(1, "A", "t", <<SqlCase("a", "b"), SqlCase("", "c")>>),
               SqlLine(1, "A", "u", <<SqlCase("d", "b")>>),
               SqlLine(1, "B", "", <<SqlCase("e", "")>>),
               SqlLine(2, "A", "t", <<>>),
               SqlLine(0, "A", "t", <<>>),
               [SqlLine(1, "A", "t", <<>>) EXCEPT !.parses = FALSE]}
MCCfFiles == UNION {[1..n -> MCSqlLines] : n \in 0..3}
MCProblemId(contest, name) == IF contest = 2 \/ name = "B" THEN 2 ELSE 1

(* The IOI database: records with their fields at the top, in the metadata *)
(* and on both levels; two that panic.                                     *)
Record(id, year, cases, files, subTasks) ==
    [id |-> id, year |-> year, cases |-> cases, files |-> files, subTasks |-> subTasks]
NoRecord == Record("", 0, <<>>, <<>>, <<>>)
IoiLine(top, metadata) == top @@ [metadata |-> metadata, parses |-> TRUE]
Task(name, tests) == [name |-> name, tests |-> tests]
TwoCases(d) == "1" :> <<d, 1>> @@ "2" :> <<d, 2>>

P1 == IoiLine(Record("p", 1, TwoCases(1), "g" :> 1, <<Task("s", <<"1", "2">>), Task("t", <<"2">>)>>),
              NoRecord)
P2 == IoiLine(NoRecord, Record("p", 2, "1" :> <<2, 1>>, <<>>, <<Task("s", <<"1">>)>>))
Q1 == IoiLine(Record("", 3, "1" :> <<3, 1>>, "g" :> 3 @@ "h" :> 4, <<>>),
              Record("q", 1, TwoCases(4), <<>>, <<Task("s", <<"1">>)>>))
MissingCase == IoiLine(Record("q", 1, "1" :> <<5, 1>>, <<>>, <<Task("s", <<"2">>)>>), NoRecord)
MissingYear == IoiLine(Record("q", 1, <<>>, <<>>, <<>>), Record("q", 0, <<>>, <<>>, <<>>))
MCIoiFiles == {<<P1>>, <<P2, Q1>>, <<Q1, P1>>, <<P1, MissingCase>>, <<Q1, P2, P1>>, <<P2, MissingYear>>}

Query(id, name, year, case) == [id |-> id, name |-> name, year |-> year, case |-> case]
MCQueries == {Query(0, "p", 0, "1"), Query(0, "p", 1, ""), Query(0, "q", 1, "2"), Query(1, "", 0, "1")}
=============================================================================
