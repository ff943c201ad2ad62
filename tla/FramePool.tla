----------------------------- MODULE FramePool -----------------------------
(***************************************************************************)
(* What the physical page allocator of sys/memoryAllocator.c promises to   *)
(* its callers (kmalloc, the page-fault handler, fork, the ELF loader): a  *)
(* pool of page frames, filled during boot, from which every request takes *)
(* a run of adjacent frames nobody else holds.  Frames never come back:    *)
(* the kernel has no operation that frees a page.                          *)
(***************************************************************************)
EXTENDS Integers, Sequences

CONSTANTS PageSize,      \* distance between the addresses of adjacent frames
          Lengths        \* the numbers of pages a request can ask for

VARIABLES free,          \* addresses of the frames that can still be granted
          granted        \* the requests served so far, oldest first

(* The frames of a run of n pages that starts at head. *)
Run(head, n) == {head + k * PageSize : k \in 0 .. n - 1}

Init == free = {} /\ granted = <<>>

(* Boot puts one more frame into the pool; no request has been served yet. *)
Donate(f) ==
    /\ granted = <<>>
    /\ f \notin free
    /\ free' = free \cup {f}
    /\ UNCHANGED granted

(* Serve a request for n pages with the run that starts at head. *)
Grant(head, n) ==
    /\ Run(head, n) \subseteq free
    /\ free' = free \ Run(head, n)
    /\ granted' = Append(granted, [head |-> head, pages |-> n])

Next == \/ \E f \in free' : Donate(f)
        \/ \E head \in free, n \in Lengths : Grant(head, n)

Spec == Init /\ [][Next]_<<free, granted>>
=============================================================================
