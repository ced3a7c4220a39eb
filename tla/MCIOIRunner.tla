---------------------------- MODULE MCIOIRunner ----------------------------
(* A batch of lines. *)
EXTENDS IOIRunner, TLC

Blank == [kind |-> "blank", programs |-> {}, special |-> FALSE, subTasks |-> <<>>]
Bad == [Blank EXCEPT !.kind = "bad"]
Problem(p, sp, subs) == [kind |-> "problem", programs |-> p, special |-> sp, subTasks |-> subs]
Sub(name, points, cases) == [name |-> name, points |-> points, cases |-> cases]

Special == Problem({"solution"}, TRUE, << Sub("s", 100, <<"a">>) >>)

(* A problem whose sub-tasks share cases, one of them without points and   *)
(* one that a later one of its name replaces; a blank line; a problem with *)
(* a script of its own.                                                    *)
MCGood == << Problem({"solution", "checker"}, FALSE,
                     << Sub("s", 50, <<"b">>), Sub("s", 40, <<"a">>), Sub("t", 60, <<"a", "b">>),
                        Sub("u", 0, <<"b">>) >>),
             Blank,
             Special >>

(* Besides, a line that does not parse and a problem with a sub-task       *)
(* without cases: a batch that can only fail, and one that fails with      *)
(* nothing but an exception.                                               *)
MCBad == << Bad, Problem({"solution", "manager"}, FALSE, << Sub("s", 50, <<"a", "b">>) >>) >>
MCUncaught == << Special, Problem({"solution"}, TRUE, << Sub("s", 100, <<"a">>), Sub("t", 0, <<>>) >>) >>

MCPayloads == {MCGood, MCBad, MCUncaught}

(* What is printed: full marks, twice as much, and what is no number. *)
MCValue == "1" :> 1 @@ "2" :> 2
MCWithZero == "1" :> 1 @@ "0" :> 0
=============================================================================
