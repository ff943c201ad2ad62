------------------------------- MODULE MCShell -------------------------------
(* Three words of six bytes.  Lines with one to five words, with two blanks, *)
(* without a '\n' and without anything, with words longer than a row, and    *)
(* two with the tail of an older line behind the '\n'; memory that is zero   *)
(* at the start, memory that is not, and memory without a '\0'.  There is a  *)
(* file 2 and no file 1.                                                     *)
EXTENDS Shell

Z == "nul"
N == "newline"
B == "blank"
MCChar == {Z, N, B, "e", "s", "c", "p", "x", "k", "1", "2"}
MCLines == {<<>>, <<N>>, <<"e", N>>, <<"s", N>>, <<"c", N>>, <<"p", N>>,
            <<"e", B, "1", N>>, <<"s", B, "1", "2", N>>, <<"c", B, "2", N>>,
            <<"c", B, "1", N>>, <<"s", B, "1">>, <<"p", B, "1", N>>,
            <<"s", B, "1", B, "2", N>>, <<"x", B, "1", B, "2", N>>,
            <<"s", B, B, "1", N>>, <<"e", B, "1", N, "2", N>>,
            <<"c", N, B, "2", N>>, <<"e", B, "1", B, "2", B, "2", N>>,
            <<"s", B, "1", B, "2", B, "2", B, "1", N>>,
            <<"e", "1", "2", "1", "2", "1", "2", "1", N>>,
            <<"c", "1", "2", "1", "2", "1", "2", "1", B, "2", N>>,
            <<"s", B, "1", "2", "1", "2", "1", "2", "1", N, B, "1">>}
MCImages == {[a \in Cells |-> Z], [a \in Cells |-> "k"],
             [a \in Cells |-> IF a % Room \in {0, 1, 3} THEN "k"
                              ELSE IF a % Room = 2 THEN B ELSE Z]}
MCOpenable == {<<"2">>, <<>>}
==============================================================================
