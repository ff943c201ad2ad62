---------------------------- MODULE MCAddressSpace ----------------------------
(* Two levels of three entries, pages of four bytes, words of two.  The      *)
(* first program header ends in the middle of a word, the second is empty    *)
(* (as GNU_STACK is); the stack has two pages under a table of its own.      *)
EXTENDS AddressSpace

MCStack == [addr |-> 12, size |-> 8]

MCSegments == <<[addr |-> 4, size |-> 7, bytes |-> <<2, 3, 2, 3, 2, 3, 2>>],
                [addr |-> 0, size |-> 0, bytes |-> <<>>]>>

(* Stores to the stack, first at an offset that looks marked for copying or  *)
(* not, and beside the program header; loads; and one address in no VMA.     *)
MCAccesses == {[addr |-> a, cells |-> <<1>>] : a \in {10, 12, 15}}
         \cup {[addr |-> a, cells |-> <<>>] : a \in {19, 20}}
===============================================================================
