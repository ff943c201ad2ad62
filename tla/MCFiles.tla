------------------------------- MODULE MCFiles -------------------------------
(* Blocks of three bytes.  The names of the second and the third file begin  *)
(* alike, the text of the second fills its last block, and the text of the   *)
(* first has a block that begins like the name of the third.                 *)
EXTENDS Files

Z == "nul"
MCArchive == <<"d", Z, Z,   "x", "a", "c",  "a", "c", Z,
               "a", "b", Z,   "x", "y", "x",
               "a", "c", Z,   "y", Z, Z,
               Z, Z, Z>>
MCContents == <<[at |-> 0, name |-> <<"d">>,
                 text |-> <<"x", "a", "c", "a", "c">>],
                [at |-> 9, name |-> <<"a", "b">>, text |-> <<"x", "y", "x">>],
                [at |-> 15, name |-> <<"a", "c">>, text |-> <<"y">>]>>
MCNames == {<<"d">>, <<"a", "b">>, <<"a", "c">>, <<"a">>, <<"z">>}
==============================================================================
