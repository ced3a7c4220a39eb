----------------------------- MODULE MCCppJudge -----------------------------
(* Problems of every kind. *)
EXTENDS CppJudge, TLC

OJ(n, limited) == [kind |-> "cpp_oj", tests |-> n, limited |-> limited]
MCProblems == {OJ(3, FALSE), OJ(2, TRUE), OJ(0, FALSE),
               [kind |-> "compile_cpp", tests |-> 0, limited |-> FALSE]}
=============================================================================
