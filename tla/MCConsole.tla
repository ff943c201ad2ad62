------------------------------ MODULE MCConsole ------------------------------
(* Two rows of two characters above the row of the clock.                    *)
EXTENDS Console
==============================================================================
