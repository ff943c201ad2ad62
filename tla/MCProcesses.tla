----------------------------- MODULE MCProcesses -----------------------------
(* The kernel with the sizes of the built one. *)
EXTENDS Processes
===============================================================================
