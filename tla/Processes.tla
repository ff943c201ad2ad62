------------------------------ MODULE Processes ------------------------------
(***************************************************************************)
(* The process table, the one context switch the kernel makes, and the     *)
(* kernel stack a system call runs on (sys/scheduler.c, sys/cs.c,          *)
(* sys/contextSwitch.s, sys/switch_Ring3.s, syscallHandler and sys_fork of *)
(* sys/syscalls.c).                                                        *)
(*                                                                         *)
(* A PCB holds its kernel stack, and the PCBs lie one behind the other, so *)
(* memory matters: addresses count 8-byte words from pcbList on.  Two      *)
(* functions keep more on the stack than it has room for: addPCB a struct  *)
(* task_struct and kprintf char finalArray[5000].  What they and an        *)
(* interrupt on top of them write below the kernel stack is modelled by    *)
(* the fields of the PCBs it hits.                                         *)
(*                                                                         *)
(* A word on a stack is a pair of what it is and whose it is.  The values  *)
(* a program has in its registers at a system call are one of Contexts.    *)
(***************************************************************************)
EXTENDS Integers, Sequences, FiniteSets

CONSTANTS PcbWords,      \* words of struct task_struct, 1423
          KStackAt,      \* offset of kstack in it, 5
          PageWords,     \* 512
          ListPages,     \* pages kmalloc gives pcbList, 10
          MAX_PROCESS,   \* 100
          PrintWords,    \* words of finalArray, 625
          TestWords,     \* frame of test3, with the return address, 4
          CallWords,     \* return addresses, saved registers and locals of
                         \* a few nested calls, 16
          IntWords,      \* what an interrupt and its handler push, 32
          ProgramPages,  \* page tables parseElf takes for the program
          ForkPages,     \* page tables copyPageTableStructure takes
          Contexts,      \* register contents of the program
          WriteWords,    \* lengths of the texts it writes, in words
          MaxForks       \* bound on its forks

ASSUME LayoutOK ==
    /\ PcbWords \in Nat /\ KStackAt \in Nat /\ PageWords \in Nat \ {0}
    /\ ListPages \in Nat /\ MAX_PROCESS \in Nat
    /\ KStackAt + 512 + 2 < PcbWords
    /\ WriteWords \subseteq 1 .. PrintWords

VARIABLES
    pc,
    pcbs,          \* pcbList: the PCBs created so far
    pages,         \* what each page from pcbList on is used for
    processID,     \* process ids given out
    pid,           \* where getProcessID goes on
    currentTask,   \* index of a PCB
    gs, kernelGs,  \* GS base and KERNEL_GS_BASE: index of a PCB, 0 if other
    rsp,           \* stack pointer while the kernel runs
    r15,           \* stack pointer syscallHandler leaves for copyKernelStack
    user,          \* registers and stack pointer of the program
    ctx, call,     \* history: its registers at the system call, and the call
    length,        \* words of the text it writes
    forkedIn,      \* history: ctx of the fork that made each PCB
    lost,          \* history: uses of the pages a PCB was laid over
    belowList      \* history: something below pcbList was written

vars == <<pc, pcbs, pages, processID, pid, currentTask, gs, kernelGs, rsp,
          r15, user, ctx, call, length, forkedIn, lost, belowList>>

Junk == -1000000         \* a word nobody meant to store

Nobody == "nobody"

Base(i) == (i - 1) * PcbWords
Slot(i, n) == Base(i) + KStackAt + n       \* address of kstack[n] of PCB i

(* init runs on the boot loader's stack, far from the PCBs. *)
BootStack == Junk + 1

(* Fields of a PCB and their offsets; kstack is a function of the slots in   *)
(* use.  (isParent and isChild lie behind next: no text reaches them without *)
(* it.)                                                                      *)
AtPid == 0
AtRsp == 1
AtRsp2 == 2
AtNext == PcbWords - 2

-----------------------------------------------------------------------------
(* Stack frames                                                              *)

Word(what, whose) == <<what, whose>>
Zero == Word("zero", Nobody)
JunkWord == Word("junk", Nobody)

SyscallSaves == <<"rbx", "rcx", "rdx", "rdi", "rsi", "r8", "r9", "r10", "r11",
                  "r12", "r13", "r14", "r15">>

SwitchSaves == <<"rax", "rbx", "rcx", "rdx", "rdi", "rsi", "r8", "r9", "r10",
                 "r11", "r12", "r13", "r14", "r15">>

(* The program's registers while it runs as c, and those words as pushed.    *)
Registers(c) == [r \in {SyscallSaves[k] : k \in DOMAIN SyscallSaves} |->
                   Word(r, c)]
Saved(c) == [k \in DOMAIN SyscallSaves |-> Word(SyscallSaves[k], c)]

(* The words in use on a stack once ws are pushed, the first of them highest,*)
(* with the stack pointer at slot top before.                                *)
Pushed(stack, top, ws) ==
    [n \in {m \in DOMAIN stack : m >= top} \cup top - Len(ws) .. top - 1 |->
        IF n < top THEN ws[top - n] ELSE stack[n]]

(* What context_switch expects on a stack: the address to go on at, the      *)
(* flags and its registers.                                                  *)
SwitchFrame(address) ==
    <<address, Zero>> \o [k \in DOMAIN SwitchSaves |-> Zero]

(* What it loads from slot n on: registers, address and stack pointer.       *)
Switched(stack, n) ==
    LET last == Len(SwitchSaves)
    IN  [regs |-> [r \in {SwitchSaves[k] : k \in 1 .. last} |->
                     stack[n + last - CHOOSE k \in 1 .. last :
                                         SwitchSaves[k] = r]],
         address |-> stack[n + last + 1],
         top |-> n + last + 2]

(* What syscallHandler pops into each register, from slot n on. *)
Popped(stack, n) ==
    LET last == Len(SyscallSaves)
    IN  [r \in {SyscallSaves[k] : k \in 1 .. last} |->
            stack[n + last - CHOOSE k \in 1 .. last : SyscallSaves[k] = r]]

-----------------------------------------------------------------------------
(* Writes below the kernel stack                                             *)

(* The PCBs after the words in hit were overwritten. *)
Overwritten(ps, hit) ==
    [i \in DOMAIN ps |->
        LET Keep(at, v) == IF Base(i) + at \in hit THEN Junk ELSE v
        IN  [pid |-> Keep(AtPid, ps[i].pid),
             rsp |-> Keep(AtRsp, ps[i].rsp),
             rsp2 |-> IF Base(i) + AtRsp2 \in hit THEN JunkWord
                      ELSE ps[i].rsp2,
             next |-> Keep(AtNext, ps[i].next),
             isParent |-> ps[i].isParent,
             isChild |-> ps[i].isChild,
             kstack |-> [n \in DOMAIN ps[i].kstack |->
                            IF Slot(i, n) \in hit THEN JunkWord
                            ELSE ps[i].kstack[n]]]]

(* Mutant: an array of twice the size. *)
FinalArrayWide(top) == top - CallWords - 2 * PrintWords

(* Where finalArray begins when kprintf is called with stack pointer top,    *)
(* and what a text of n words makes kprintf write.                           *)
FinalArray(top) == top - CallWords - PrintWords
Printed(top, n) ==
    top - CallWords .. top - 1
      \cup FinalArray(top) - CallWords .. FinalArray(top) + n - 1

(* Where addPCB's task_struct begins, and what addPCB writes on the stack:   *)
(* it copies the struct without ever having set it.                          *)
LocalPcb(top) == top - CallWords - PcbWords
Adding(top) ==
    top - CallWords .. top - 1 \cup LocalPcb(top) - CallWords .. LocalPcb(top) - 1

Below(hit) == belowList' = (belowList \/ \E a \in hit : a < 0)

-----------------------------------------------------------------------------
(* The table                                                                 *)

(* kmalloc and getFreePage give one page behind the other. *)
Take(use, n) == [k \in 1 .. n |-> use]

(* getProcessID: the first id that is not in use from pid on, -1 if none. *)
FreeIds == {p \in pid .. MAX_PROCESS - 1 : p \notin processID}
getProcessID ==
    IF FreeIds = {} THEN -1
    ELSE CHOOSE p \in FreeIds : \A q \in FreeIds : p <= q

(* Pages the i-th PCB lies on. *)
Covers(i) == Base(i) \div PageWords + 1 .. (Base(i + 1) - 1) \div PageWords + 1

(* Mutant: the new PCB is linked to itself. *)
LinkedToItself(ps) ==
    LET n == Len(ps) + 1
    IN  Append([i \in DOMAIN ps |-> IF i = n - 1 THEN [ps[i] EXCEPT !.next = n]
                                    ELSE ps[i]],
               [pid |-> getProcessID, rsp |-> Junk, rsp2 |-> JunkWord, next |-> n,
                isParent |-> FALSE, isChild |-> FALSE,
                kstack |-> [s \in {} |-> Zero]])

(* Mutant: the last PCB is linked past the new one. *)
LinkedTooFar(ps) ==
    LET n == Len(ps) + 1
    IN  Append([i \in DOMAIN ps |-> IF i = n - 1
                                    THEN [ps[i] EXCEPT !.next = n + 1]
                                    ELSE ps[i]],
               [pid |-> getProcessID, rsp |-> Junk, rsp2 |-> JunkWord, next |-> 1,
                isParent |-> FALSE, isChild |-> FALSE,
                kstack |-> [s \in {} |-> Zero]])

(* The table ps with one more PCB behind the last, linked from it and back   *)
(* to the first.                                                             *)
Linked(ps) ==
    LET n == Len(ps) + 1
    IN  Append([i \in DOMAIN ps |-> IF i = n - 1 THEN [ps[i] EXCEPT !.next = n]
                                    ELSE ps[i]],
               [pid |-> getProcessID, rsp |-> Junk, rsp2 |-> JunkWord, next |-> 1,
                isParent |-> FALSE, isChild |-> FALSE,
                kstack |-> [s \in {} |-> Zero]])

(* addPCB, for the fork of a program with registers c. *)
addPCB(ps, c) ==
    /\ pcbs' = Linked(ps)
    /\ pid' = IF FreeIds = {} THEN MAX_PROCESS ELSE getProcessID
    /\ processID' = processID \cup ({getProcessID} \ {-1})
    /\ forkedIn' = Append(forkedIn, c)
    /\ lost' = lost \cup {pages[p] : p \in Covers(Len(ps) + 1) \cap
                                           ListPages + 1 .. Len(pages)}

-----------------------------------------------------------------------------
(* Boot, up to the program                                                   *)

Init ==
    /\ pc = "initializePCBList"
    /\ pcbs = <<>> /\ pages = <<>>
    /\ processID = {} /\ pid = 1
    /\ currentTask = 0
    /\ gs = 0 /\ kernelGs = 0
    /\ rsp = BootStack /\ r15 = Junk
    /\ user = [regs |-> Registers(Nobody), rsp |-> Zero]
    /\ ctx = Nobody /\ call = "none" /\ length = 0
    /\ forkedIn = <<>> /\ lost = {} /\ belowList = FALSE

registers == <<gs, kernelGs, rsp, r15>>
program == <<user, ctx, call, length>>
table == <<pcbs, processID, pid, forkedIn, lost>>

initializePCBList ==
    /\ pc = "initializePCBList"
    /\ pages' = pages \o Take("pcbList", ListPages)
    /\ pc' = "setupMSRs"
    /\ UNCHANGED <<table, currentTask, registers, program, belowList>>

setupMSRs ==
    /\ pc = "setupMSRs"
    /\ pages' = pages \o Take("msr", 3)
    /\ pc' = "contextSwitch"
    /\ UNCHANGED <<table, currentTask, registers, program, belowList>>

(* contextSwitch: a PCB for init, then one for the program... *)
contextSwitch ==
    /\ pc = "contextSwitch"
    /\ addPCB(pcbs, Nobody)
    /\ IF pcbs = <<>> THEN currentTask' = 1 /\ UNCHANGED pc
                      ELSE pc' = "init_process2" /\ UNCHANGED currentTask
    /\ UNCHANGED <<pages, registers, program, belowList>>

(* ... which gets a stack to enter test3 with, and a page for its VMAs. *)
init_process2 ==
    /\ pc = "init_process2"
    /\ pcbs' = [pcbs EXCEPT
                  ![2].kstack = Pushed(@, 501, SwitchFrame(Word("test3", Nobody))),
                  ![2].rsp = Slot(2, 485)]
    /\ pages' = Append(pages, "vma")
    /\ pc' = "yield2"
    /\ UNCHANGED <<processID, pid, forkedIn, lost, currentTask, registers,
                   program, belowList>>

(* yield2, called by init and by nobody else. *)
yield2 ==
    /\ pc = "yield2"
    /\ currentTask' = pcbs[currentTask].next
    /\ pc' = "setProcessSpecificMSRs"
    /\ UNCHANGED <<table, pages, registers, program, belowList>>

(* Mutant: the base is set for the task that gives way. *)
setMSRsOfPrevious ==
    /\ pc = "setProcessSpecificMSRs"
    /\ pages' = pages \o Take("msr", 2)
    /\ kernelGs' = 1
    /\ pc' = "context_switch"
    /\ UNCHANGED <<table, currentTask, gs, rsp, r15, program, belowList>>

setProcessSpecificMSRs ==
    /\ pc = "setProcessSpecificMSRs"
    /\ pages' = pages \o Take("msr", 2)
    /\ kernelGs' = currentTask
    /\ pc' = "context_switch"
    /\ UNCHANGED <<table, currentTask, gs, rsp, r15, program, belowList>>

(* The rest of yield2: swapgs for a child that is no parent, and the switch  *)
(* itself.                                                                   *)
context_switch ==
    LET t == pcbs[currentTask]
        new == Switched(t.kstack, t.rsp - Slot(currentTask, 0))
        swap == t.isChild /\ ~t.isParent
    IN  /\ pc = "context_switch"
        /\ gs' = IF swap THEN kernelGs ELSE gs
        /\ kernelGs' = IF swap THEN gs ELSE kernelGs
        /\ pcbs' = [pcbs EXCEPT ![1].rsp = BootStack,
                                ![currentTask].kstack = Pushed(@, new.top, <<>>)]
        /\ rsp' = Slot(currentTask, new.top)
        /\ pc' = new.address[1]
        /\ UNCHANGED <<processID, pid, forkedIn, lost, currentTask, pages, r15,
                       program, belowList>>

(* test3: the program is loaded, a call into switchToRing3 is pushed. *)
test3 ==
    LET top == rsp - Slot(currentTask, 0)
    IN  /\ pc = "test3"
        /\ pages' = pages \o Take("table", ProgramPages)
        /\ rsp' = rsp - TestWords
        /\ pcbs' = [pcbs EXCEPT
                      ![currentTask].rsp2 = Word("rsp", Nobody),
                      ![currentTask].kstack =
                          Pushed(@, top, [k \in 1 .. TestWords |->
                                            Word("test3", Nobody)])]
        /\ pc' = "switchToRing3"
        /\ UNCHANGED <<processID, pid, forkedIn, lost, currentTask, gs,
                       kernelGs, r15, program, belowList>>

switchToRing3 ==
    /\ pc = "switchToRing3"
    /\ pcbs' = [pcbs EXCEPT ![currentTask].rsp = rsp]
    /\ user' = [user EXCEPT !.rsp = pcbs[currentTask].rsp2]
    /\ rsp' = Junk
    /\ pc' = "user"
    /\ UNCHANGED <<processID, pid, forkedIn, lost, pages, currentTask, gs,
                   kernelGs, r15, ctx, call, length, belowList>>

-----------------------------------------------------------------------------
(* System calls of the program                                               *)

(* syscallHandler: the PCB of the process is found through the GS base and   *)
(* keeps the program's stack pointer.  An interrupt from here to LoadRsp, or *)
(* from RestoreRsp to SyscallExit, finds the kernel on the program's stack.  *)
SyscallEntry(c, f, n) ==
    /\ pc = "user"
    /\ f = "fork" => Len(pcbs) < 2 + MaxForks
    /\ ctx' = c /\ call' = f /\ length' = n
    /\ user' = [regs |-> Registers(c), rsp |-> Word("rsp", c)]
    /\ gs' = kernelGs /\ kernelGs' = gs
    /\ pcbs' = [pcbs EXCEPT ![kernelGs].rsp2 = Word("rsp", c)]
    /\ pc' = "entering"
    /\ UNCHANGED <<processID, pid, forkedIn, lost, pages, currentTask, rsp, r15,
                   belowList>>

(* A stack pointer that a text ran over leads out of the model. *)
LoadRsp ==
    /\ pc = "entering"
    /\ pcbs[gs].rsp # Junk
    /\ rsp' = pcbs[gs].rsp
    /\ pc' = "saving"
    /\ UNCHANGED <<table, pages, currentTask, gs, kernelGs, r15, program,
                   belowList>>

(* The program's registers go on the kernel stack. *)
PushRegisters ==
    LET top == rsp - Slot(gs, 0)
        down == Len(SyscallSaves)
    IN  /\ pc = "saving"
        /\ pcbs' = [pcbs EXCEPT ![gs].kstack = Pushed(@, top, Saved(ctx))]
        /\ rsp' = rsp - down /\ r15' = rsp - down
        /\ pc' = "body"
        /\ UNCHANGED <<processID, pid, forkedIn, lost, pages, currentTask, gs,
                       kernelGs, program, belowList>>

(* Mutant: rax is popped, too, though no longer pushed. *)
PopRegistersAndRax ==
    LET n == rsp - Slot(gs, 0)
        up == Len(SyscallSaves) + 1
    IN  /\ pc = "leave"
        /\ user' = [user EXCEPT !.regs = Popped(pcbs[gs].kstack, n)]
        /\ pcbs' = [pcbs EXCEPT ![gs].kstack = Pushed(@, n + up, <<>>)]
        /\ rsp' = rsp + up /\ r15' = Junk
        /\ pc' = "restored"
        /\ UNCHANGED <<processID, pid, forkedIn, lost, pages, currentTask, gs,
                       kernelGs, ctx, call, length, belowList>>

(* Behind the call they are popped... *)
PopRegisters ==
    LET n == rsp - Slot(gs, 0)
        up == Len(SyscallSaves)
    IN  /\ pc = "leave"
        /\ user' = [user EXCEPT !.regs = Popped(pcbs[gs].kstack, n)]
        /\ pcbs' = [pcbs EXCEPT ![gs].kstack = Pushed(@, n + up, <<>>)]
        /\ rsp' = rsp + up /\ r15' = Junk
        /\ pc' = "restored"
        /\ UNCHANGED <<processID, pid, forkedIn, lost, pages, currentTask, gs,
                       kernelGs, ctx, call, length, belowList>>

(* ... the stack pointers change places again... *)
RestoreRsp ==
    /\ pc = "restored"
    /\ pcbs' = [pcbs EXCEPT ![gs].rsp = rsp]
    /\ user' = [user EXCEPT !.rsp = pcbs[gs].rsp2]
    /\ rsp' = Junk
    /\ pc' = "leaving"
    /\ UNCHANGED <<processID, pid, forkedIn, lost, pages, currentTask, gs,
                   kernelGs, r15, ctx, call, length, belowList>>

(* ... and swapgs and sysret lead back to the program. *)
SyscallExit ==
    /\ pc = "leaving"
    /\ gs' = kernelGs /\ kernelGs' = gs
    /\ pc' = "user" /\ call' = "none" /\ length' = 0
    /\ UNCHANGED <<table, pages, currentTask, rsp, r15, user, ctx, belowList>>

(* read, open, close and sleep leave the processes alone. *)
Serve ==
    /\ pc = "body" /\ call = "other"
    /\ pc' = "leave"
    /\ UNCHANGED <<table, pages, currentTask, registers, program, belowList>>

(* sys_write, and sys_ps with a short text: kprintf copies the text to       *)
(* finalArray...                                                             *)
kprintf ==
    /\ pc = "body" /\ call = "write"
    /\ pcbs' = Overwritten(pcbs, Printed(rsp, length))
    /\ Below(Printed(rsp, length))
    /\ rsp' = FinalArray(rsp) - CallWords
    /\ pc' = "printing"
    /\ UNCHANGED <<processID, pid, forkedIn, lost, pages, currentTask, gs,
                   kernelGs, r15, program>>

(* ... and returns. *)
Printing ==
    /\ pc = "printing"
    /\ rsp' = r15
    /\ pc' = "leave"
    /\ UNCHANGED <<table, pages, currentTask, gs, kernelGs, r15, program,
                   belowList>>

(* Words a keyboard interrupt writes when it finds the kernel running: its   *)
(* own frame, and kprintf's for the echo.                                    *)
Interrupting(top) == top - IntWords .. top - 1 \cup Printed(top - IntWords, 1)

(* On the boot stack, in user mode (the TSS) and on the program's stack,      *)
(* which has no red zone, it writes elsewhere.                               *)
KeyboardInterrupt ==
    /\ rsp \notin {Junk, BootStack}
    /\ pcbs' = Overwritten(pcbs, Interrupting(rsp))
    /\ Below(Interrupting(rsp))
    /\ UNCHANGED <<pc, processID, pid, forkedIn, lost, pages, currentTask,
                   registers, program>>

-----------------------------------------------------------------------------
(* fork                                                                      *)

childTask == Len(pcbs)

(* copyCurrentProcessIntoAnother adds a PCB... *)
ForkAdds ==
    /\ pc = "body" /\ call = "fork"
    /\ addPCB(Overwritten(pcbs, Adding(rsp)), ctx)
    /\ Below(Adding(rsp))
    /\ rsp' = LocalPcb(rsp) - 1
    /\ pc' = "adding"
    /\ UNCHANGED <<pages, currentTask, gs, kernelGs, r15, program>>

(* ... takes a page for its VMAs and the pages of its page tables... *)
ForkTakesPages ==
    /\ pc = "adding"
    /\ pages' = Append(pages, "vma") \o Take("table", ForkPages)
    /\ pcbs' = [pcbs EXCEPT ![currentTask].isParent = TRUE,
                            ![childTask].isChild = TRUE]
    /\ rsp' = r15
    /\ pc' = "copyParentStacks"
    /\ UNCHANGED <<processID, pid, forkedIn, lost, currentTask, gs, kernelGs,
                   r15, program, belowList>>

(* Slot of the stack word updateRAX writes, for a stack that is used down to *)
(* slot n: 13 above.                                                         *)
RaxSlot(n) == n + 13

(* Mutant: the frame is built on top of the last saved register. *)
copyParentStacksOver ==
    LET n == r15 - Slot(currentTask, 0)
        own == [pcbs[currentTask].kstack EXCEPT
                  ![RaxSlot(n)] = Word("pid", pcbs[childTask].pid)]
        copy == [pcbs[currentTask].kstack EXCEPT ![RaxSlot(n)] = Zero]
        frame == SwitchFrame(Word("syscallHandler+53", Nobody))
    IN  /\ pc = "copyParentStacks"
        /\ pcbs' = [pcbs EXCEPT
                      ![currentTask].kstack = own,
                      ![childTask].kstack = Pushed(copy, n + 1, frame),
                      ![childTask].rsp = Slot(childTask, n + 1 - Len(frame)),
                      ![childTask].rsp2 = pcbs[currentTask].rsp2]
        /\ pc' = "leave"
        /\ UNCHANGED <<processID, pid, forkedIn, lost, pages, currentTask,
                       registers, program, belowList>>

(* ... and gets a copy of the kernel stack, with a frame below it to enter   *)
(* syscallHandler behind the call.  updateRAX stores the two return values.  *)
copyParentStacks ==
    LET n == r15 - Slot(currentTask, 0)
        own == [pcbs[currentTask].kstack EXCEPT
                  ![RaxSlot(n)] = Word("pid", pcbs[childTask].pid)]
        copy == [pcbs[currentTask].kstack EXCEPT ![RaxSlot(n)] = Zero]
        frame == SwitchFrame(Word("syscallHandler+53", Nobody))
    IN  /\ pc = "copyParentStacks"
        /\ pcbs' = [pcbs EXCEPT
                      ![currentTask].kstack = own,
                      ![childTask].kstack = Pushed(copy, n, frame),
                      ![childTask].rsp = Slot(childTask, n - Len(frame)),
                      ![childTask].rsp2 = pcbs[currentTask].rsp2]
        /\ pc' = "leave"
        /\ UNCHANGED <<processID, pid, forkedIn, lost, pages, currentTask,
                       registers, program, belowList>>

Boot ==
    \/ initializePCBList \/ setupMSRs \/ contextSwitch \/ init_process2
    \/ yield2 \/ setProcessSpecificMSRs \/ context_switch
    \/ test3 \/ switchToRing3

Next ==
    \/ Boot
    \/ \E c \in Contexts :
          \/ SyscallEntry(c, "other", 0)
          \/ SyscallEntry(c, "fork", 0)
          \/ \E n \in WriteWords : SyscallEntry(c, "write", n)
    \/ LoadRsp \/ PushRegisters
    \/ Serve \/ kprintf \/ Printing
    \/ ForkAdds \/ ForkTakesPages \/ copyParentStacks
    \/ PopRegisters \/ RestoreRsp \/ SyscallExit
    \/ KeyboardInterrupt

Spec == Init /\ [][Next]_vars

-----------------------------------------------------------------------------
(* Properties                                                                *)

StackWord == {"zero", "junk", "test3", "syscallHandler+53", "pid", "rsp"}
               \cup {SwitchSaves[k] : k \in DOMAIN SwitchSaves}

TypeOK ==
    /\ \A i \in DOMAIN pcbs :
          /\ pcbs[i].pid \in Int /\ pcbs[i].rsp \in Int /\ pcbs[i].next \in Int
          /\ pcbs[i].rsp2 \in {"junk", "zero", "rsp"} \X (Contexts \cup {Nobody})
          /\ DOMAIN pcbs[i].kstack \subseteq 0 .. 511
          /\ \A n \in DOMAIN pcbs[i].kstack : pcbs[i].kstack[n][1] \in StackWord
    /\ pages \in Seq({"pcbList", "msr", "vma", "table"})
    /\ processID \subseteq 1 .. MAX_PROCESS - 1 /\ pid \in 1 .. MAX_PROCESS
    /\ currentTask \in 0 .. Len(pcbs)
    /\ gs \in 0 .. Len(pcbs) /\ kernelGs \in 0 .. Len(pcbs)
    /\ rsp \in Int /\ r15 \in Int
    /\ Len(forkedIn) = Len(pcbs)

(* Going from next to next, as yield2 does, one comes by every process once, *)
(* in the order in which sys_ps lists the array, and no id is given twice -  *)
(* whatever system calls and interrupts write below their stack.             *)
RingVisitsAll ==
    /\ \A i \in DOMAIN pcbs :
          pcbs[i].next = IF i = Len(pcbs) THEN 1 ELSE i + 1
    /\ \A i, j \in DOMAIN pcbs : i # j => pcbs[i].pid # pcbs[j].pid

InSyscall == {"entering", "saving", "body", "printing", "adding",
              "copyParentStacks", "leave", "restored", "leaving"}

(* swapgs is balanced: a system call has the PCB of the process that runs    *)
(* from its first instruction to its last, and the program never runs with   *)
(* the kernel's GS base.                                                     *)
GsIsCurrentTask ==
    /\ pc = "user" => kernelGs = currentTask /\ gs = 0
    /\ pc \in InSyscall => gs = currentTask /\ kernelGs = 0

(* A system call gives the program back its registers and its stack, and     *)
(* leaves the kernel stack where it was when the program was entered, though *)
(* printing reaches below the PCB and interrupts print in between, on the    *)
(* kernel stack or on the program's.                                         *)
SyscallIsTransparent ==
    pc = "user" =>
        /\ user.regs = Registers(ctx)
        /\ user.rsp = Word("rsp", ctx)
        /\ pcbs[currentTask].rsp = Slot(currentTask, 501 - TestWords)

(* Address syscallHandler + 53 is the second byte of the pop of r15 (52      *)
(* bytes precede it), which by itself pops rdi: r15 stays what               *)
(* context_switch loaded, rdi is popped again later.                         *)
Resumed(stack, n) ==
    LET new == Switched(stack, n)
    IN  [r \in DOMAIN new.regs |-> IF r \in {"rax", "r15"} THEN new.regs[r]
                                   ELSE Popped(stack, new.top)[r]]

(* A forked child is ready to run: switched to, it would leave the system    *)
(* call with the parent's registers and stack pointer of that fork, 0 in rax *)
(* (the result of fork) and r15, and its kernel stack at the parent's level. *)
ChildReturnsLikeParent ==
    \A i \in DOMAIN pcbs :
        LET n == pcbs[i].rsp - Slot(i, 0)
            c == forkedIn[i]
        IN  pcbs[i].isChild /\ pcbs[i].rsp # Junk =>
                /\ Switched(pcbs[i].kstack, n).address[1] = "syscallHandler+53"
                /\ \A r \in DOMAIN Registers(c) \ {"r15"} :
                      Resumed(pcbs[i].kstack, n)[r] = Word(r, c)
                /\ Resumed(pcbs[i].kstack, n)["rax"] = Zero
                /\ pcbs[i].rsp2 = Word("rsp", c)
                /\ Switched(pcbs[i].kstack, n).top + Len(SyscallSaves)
                     = 501 - TestWords

(* As long as nobody forks, whatever is written below a stack is within the  *)
(* list.  (An interrupt during addPCB's big frame reaches the page before.)  *)
StaysInListUntilFork == Len(pcbs) <= 2 => ~belowList

(* "get the available process ID" (the comment at line 120 of sys/cs.c, with *)
(* MAX_PROCESS 100): a new process gets a PCB of its own.  Ten pages hold    *)
(* three; the fifth PCB lies on the page of the first program's VMA list.    *)
TableHoldsItsProcesses == lost \cap {"vma", "table"} = {}
===============================================================================
