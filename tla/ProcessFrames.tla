---------------------------- MODULE ProcessFrames ----------------------------
(***************************************************************************)
(* What the sizes of the compiled kernel come to: the frames written below *)
(* a kernel stack do not meet the fields of the PCBs that are still read,  *)
(* as long as no text is longer than some limit.                           *)
(***************************************************************************)
EXTENDS Processes

(* Offset in the PCB of what the stack pointer is in a system call. *)
Depth == KStackAt + 501 - TestWords - Len(SyscallSaves)

(* In this order: sizes; the slots hold two levels and a switch frame; below *)
(* a stack pointer there is room for an interrupt and its calls in the PCB   *)
(* itself; finalArray of an echo begins in the PCB before, below next, as    *)
(* does that of a print, whose text ends there; a print that is interrupted  *)
(* by an echo does not reach pid of the PCB before; there are enough ids.    *)
(* The compiled kernel meets the condition on texts up to 150 words, 1200    *)
(* characters.                                                               *)
ASSUME FramesFit ==
    /\ KStackAt > AtRsp2
    /\ {PrintWords, CallWords, IntWords, ListPages, ProgramPages, ForkPages,
        MaxForks} \subseteq Nat
    /\ TestWords \in 1 .. 501 - Len(SyscallSaves) - Len(SwitchSaves) - 2
    /\ IntWords + 2 * CallWords + 2 < Depth
    /\ KStackAt + 501 + 2 < IntWords + CallWords + PrintWords
    /\ \A n \in WriteWords : Depth + n + 1 < CallWords + PrintWords
    /\ 2 * PrintWords + 4 * CallWords + IntWords < PcbWords + Depth
    /\ 2 + MaxForks < MAX_PROCESS
===============================================================================
