---------------------------- MODULE VirtualMemory ----------------------------
(***************************************************************************)
(* What a program may expect of its memory: every address holds what was   *)
(* stored there last, and zero before that, whatever the kernel maps       *)
(* behind its back.  One thing is left open: a page that the kernel moved  *)
(* while the processor kept its old translation is doubtful, and a         *)
(* doubtful page may once go back to what it held when it was moved.       *)
(***************************************************************************)
EXTENDS Integers, Sequences

CONSTANTS Addresses,     \* the addresses a program may use
          PageSize,
          Zero,          \* what memory holds before the first store
          Idle           \* no access is under way

VARIABLES access,        \* the access under way: where, and the values that
                         \* go to consecutive addresses (none for a load)
          mem,           \* contents of every address
          moved          \* doubtful page -> what it held when it was moved

PageOf(a) == a \div PageSize

Init == /\ access = Idle
        /\ mem = [a \in Addresses |-> Zero]
        /\ moved = <<>>

Request == access = Idle /\ access' # Idle /\ UNCHANGED <<mem, moved>>

(* An access takes effect, once and as a whole. *)
Serve ==
    /\ access # Idle /\ access' = Idle
    /\ mem' = [a \in Addresses |->
                 IF a - access.addr \in 0 .. Len(access.cells) - 1
                 THEN access.cells[a - access.addr + 1] ELSE mem[a]]
    /\ UNCHANGED moved

(* The page of the access under way is moved. *)
Move ==
    LET p == PageOf(access.addr)
    IN  /\ access # Idle
        /\ moved' = [q \in DOMAIN moved \cup {p} |->
                        IF q = p THEN [a \in {b \in Addresses : PageOf(b) = p} |-> mem[a]]
                                 ELSE moved[q]]
        /\ UNCHANGED <<access, mem>>

(* A doubtful page loses what was stored since it was moved. *)
Forget(p) ==
    /\ p \in DOMAIN moved
    /\ mem' = [a \in Addresses |-> IF PageOf(a) = p THEN moved[p][a] ELSE mem[a]]
    /\ moved' = [q \in DOMAIN moved \ {p} |-> moved[q]]
    /\ UNCHANGED access

Next == Request \/ Serve \/ Move \/ \E p \in DOMAIN moved : Forget(p)

Spec == Init /\ [][Next]_<<access, mem, moved>>
==============================================================================
