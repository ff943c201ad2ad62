---------------------------- MODULE MCProcessTable ----------------------------
(* The kernel with the sizes of the built one, and texts within the limit. *)
EXTENDS ProcessFrames
===============================================================================
