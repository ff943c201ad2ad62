--------------------------- MODULE Processes_proofs ---------------------------
(***************************************************************************)
(* For every size of the PCB and its stack, of the frames written below    *)
(* it, and of the texts printed that FramesFit admits: all properties of   *)
(* the process table that the runs check.                                  *)
(*                                                                         *)
(* The invariant says at each pc how much of the program's kernel stack is *)
(* in use and what lies there.  What is written below the stack (Harmless) *)
(* never meets a word in use or a field that is read again; that is the    *)
(* arithmetic of FramesFit, drawn out once for each of the five places     *)
(* where something is written.                                             *)
(***************************************************************************)
EXTENDS ProcessFrames, SequenceTheorems, TLAPS

(* Kernel stack levels of the program's process: entered from user mode, and *)
(* in a system call.                                                         *)
U == 501 - TestWords
S == U - 13

(* Registers contents, words of a stack, stacks and PCBs. *)
Whose == Contexts \cup {Nobody}
Words == StackWord \X (Whose \cup Int)
Stacks == UNION {[D -> Words] : D \in SUBSET (0 .. 511)}
Pcb == [pid : Int, rsp : Int, rsp2 : {"junk", "zero", "rsp"} \X Whose,
        next : Int, isParent : BOOLEAN, isChild : BOOLEAN, kstack : Stacks]

Size == Len(pcbs)

(* Where pc can be in boot, in a system call, and after boot. *)
BootPc == {"initializePCBList", "setupMSRs", "contextSwitch", "init_process2",
           "yield2", "setProcessSpecificMSRs", "context_switch"}
SysPc == {"body", "printing", "leave", "adding", "copyParentStacks"}
EdgePc == {"entering", "saving", "restored", "leaving"}
TaskPc == {"test3", "switchToRing3", "user"} \cup EdgePc \cup SysPc

(* Lowest slot in use on the stack of the program's process. *)
Level == IF pc = "test3" THEN 501
         ELSE IF pc \in {"switchToRing3", "user"} \cup EdgePc THEN U ELSE S

(* Ids and links are in order; neither init nor the program is a child, and  *)
(* init has no stack of its own.                                             *)
Table(ps, n) ==
    /\ ps \in [1 .. n -> Pcb]
    /\ \A i \in 1 .. n :
          /\ ps[i].pid = i /\ ps[i].next = IF i = n THEN 1 ELSE i + 1
          /\ i <= 2 => ~ps[i].isChild
          /\ i = 1 => DOMAIN ps[i].kstack = {}

(* The slots of PCB i in use. *)
Uses(ps, i, n) == DOMAIN ps[i].kstack = n .. 500

(* What pages are used for. *)
PageUses == {"pcbList", "msr", "vma", "table"}

(* Ring, ids and history go together. *)
TableInv ==
    /\ pc \in BootPc \cup TaskPc
    /\ Size \in Nat /\ Table(pcbs, Size)
    /\ pages \in Seq(PageUses)
    /\ processID = 1 .. Size /\ pid = IF Size = 0 THEN 1 ELSE Size
    /\ Len(forkedIn) = Size /\ forkedIn \in Seq(Whose)
    /\ Size <= 2 + MaxForks
    /\ ctx \in Whose

(* Boot, step by step, up to the frame context_switch finds. *)
BootInv ==
    pc \in BootPc =>
        /\ gs = 0 /\ rsp = BootStack /\ r15 = Junk /\ ctx = Nobody
        /\ user = [regs |-> Registers(Nobody), rsp |-> Zero]
        /\ kernelGs = IF pc = "context_switch" THEN 2 ELSE 0
        /\ pc \in {"initializePCBList", "setupMSRs"} => Size = 0
        /\ pc \in {"initializePCBList", "setupMSRs", "contextSwitch"} =>
              Size <= 1 /\ currentTask = Size
        /\ pc \in {"init_process2", "yield2"} => Size = 2 /\ currentTask = 1
        /\ pc \in {"setProcessSpecificMSRs", "context_switch"} =>
              Size = 2 /\ currentTask = 2
        /\ pc = "init_process2" => Uses(pcbs, 2, 501)
        /\ pc \in {"yield2", "setProcessSpecificMSRs", "context_switch"} =>
              /\ pcbs[2].rsp = Slot(2, 485)
              /\ Uses(pcbs, 2, 485)
              /\ pcbs[2].kstack[500] = Word("test3", Nobody)

(* The program's stack is in use down to Level, and rsp is there. *)
TaskInv ==
    pc \in TaskPc =>
        /\ Size >= 2 /\ currentTask = 2
        /\ Uses(pcbs, 2, Level)
        /\ pc \in {"test3", "switchToRing3"} =>
              /\ rsp = Slot(2, Level) /\ ctx = Nobody
              /\ user = [regs |-> Registers(Nobody), rsp |-> Zero]
        /\ pc = "switchToRing3" => pcbs[2].rsp2 = Word("rsp", Nobody)
        /\ pc \in {"test3", "switchToRing3", "user"} => gs = 0 /\ kernelGs = 2
        /\ pc \notin SysPc => r15 = Junk
        /\ pc = "user" => rsp = Junk
        /\ pc \notin {"test3", "switchToRing3"} =>
              /\ pcbs[2].rsp = Slot(2, U)
              /\ user = [regs |-> Registers(ctx), rsp |-> Word("rsp", ctx)]

(* Between swapgs and the call, and between the call and swapgs, rsp is the  *)
(* program's or the level system calls begin at.                             *)
EdgeInv ==
    pc \in EdgePc =>
        /\ gs = 2 /\ kernelGs = 0
        /\ rsp = IF pc \in {"saving", "restored"} THEN Slot(2, U) ELSE Junk
        /\ pc # "leaving" => pcbs[2].rsp2 = Word("rsp", ctx)
        /\ pc \in {"entering", "saving"} =>
              /\ call = "write" => length \in WriteWords
              /\ call = "fork" => Size < 2 + MaxForks

(* In a system call its registers lie on it, and rsp is one of three. *)
CallInv ==
    pc \in SysPc =>
        /\ gs = 2 /\ kernelGs = 0 /\ r15 = Slot(2, S)
        /\ pcbs[2].rsp2 = Word("rsp", ctx)
        /\ \A j \in 1 .. 13 :
              pcbs[2].kstack[U - j] = Word(SyscallSaves[j], ctx)
        /\ pc \in {"body", "leave", "copyParentStacks"} => rsp = Slot(2, S)
        /\ pc = "printing" => rsp = FinalArray(Slot(2, S)) - CallWords
        /\ pc = "adding" => rsp = LocalPcb(Slot(2, S)) - 1
        /\ pc = "printing" \/ (pc = "body" /\ call = "write") =>
              length \in WriteWords
        /\ pc = "body" /\ call = "fork" => Size < 2 + MaxForks
        /\ pc \in {"adding", "copyParentStacks"} =>
              Size >= 3 /\ forkedIn[Size] = ctx
        /\ pc = "adding" => pcbs[Size].rsp = Junk

(* PCB i of ps can be switched to and goes on as the program did with c. *)
Ready(ps, i, c) ==
    /\ ps[i].rsp = Slot(i, S - 16) /\ ps[i].rsp2 = Word("rsp", c)
    /\ Uses(ps, i, S - 16)
    /\ ps[i].kstack[S - 1] = Word("syscallHandler+53", Nobody)
    /\ \A m \in S - 16 .. S - 2 : ps[i].kstack[m] = Zero
    /\ \A j \in 1 .. 13 : ps[i].kstack[U - j] = Word(SyscallSaves[j], c)

(* A child that was given a stack stays ready. *)
ChildInv ==
    \A i \in 1 .. Size :
        pcbs[i].isChild /\ pcbs[i].rsp # Junk => Ready(pcbs, i, forkedIn[i])

(* Before the first fork nothing below pcbList is written. *)
ListInv == Size <= 2 => ~belowList

(* Inductive, see NextKeeps. *)
ProcessInv ==
    TableInv /\ BootInv /\ TaskInv /\ EdgeInv /\ CallInv /\ ChildInv /\ ListInv

-----------------------------------------------------------------------------
(* Stacks                                                                    *)

(* A stack is a function from its slots to words. *)
LEMMA StackIs ==
    ASSUME NEW k \in Stacks
    PROVE  /\ k = [n \in DOMAIN k |-> k[n]]
           /\ DOMAIN k \subseteq 0 .. 511
           /\ \A n \in DOMAIN k : k[n] \in Words
<1>1. PICK D \in SUBSET (0 .. 511) : k \in [D -> Words]
  BY DEF Stacks
<1> QED BY <1>1

(* A function from some of the slots to words is a stack. *)
LEMMA StackMade ==
    ASSUME NEW D \in SUBSET (0 .. 511), NEW k \in [D -> Words]
    PROVE  k \in Stacks
BY DEF Stacks

(* A PCB is its seven fields. *)
LEMMA RecordIs ==
    ASSUME NEW p \in Pcb
    PROVE  p = [pid |-> p.pid, rsp |-> p.rsp, rsp2 |-> p.rsp2, next |-> p.next,
                isParent |-> p.isParent, isChild |-> p.isChild, kstack |-> p.kstack]
BY DEF Pcb

(* syscallHandler saves 13 registers, no one twice. *)
LEMMA SyscallSavesDiffer ==
    ASSUME NEW k \in 1 .. 13
    PROVE  /\ DOMAIN SyscallSaves = 1 .. 13 /\ Len(SyscallSaves) = 13
           /\ (CHOOSE j \in 1 .. 13 : SyscallSaves[j] = SyscallSaves[k]) = k
           /\ SyscallSaves[k] \in StackWord
<1>1. DOMAIN SyscallSaves = 1 .. 13 /\ Len(SyscallSaves) = 13
  BY DEF SyscallSaves
<1>2. \A i, j \in 1 .. 13 : SyscallSaves[i] = SyscallSaves[j] => i = j
  BY DEF SyscallSaves
<1>3. SyscallSaves[k] \in StackWord
  BY DEF SyscallSaves, StackWord, SwitchSaves
<1> QED BY <1>1, <1>2, <1>3

(* context_switch saves 14 registers, no one twice. *)
LEMMA SwitchSavesDiffer ==
    ASSUME NEW k \in 1 .. 14
    PROVE  /\ DOMAIN SwitchSaves = 1 .. 14 /\ Len(SwitchSaves) = 14
           /\ (CHOOSE j \in 1 .. 14 : SwitchSaves[j] = SwitchSaves[k]) = k
<1>1. DOMAIN SwitchSaves = 1 .. 14 /\ Len(SwitchSaves) = 14
  BY DEF SwitchSaves
<1>2. \A i, j \in 1 .. 14 : SwitchSaves[i] = SwitchSaves[j] => i = j
  BY DEF SwitchSaves
<1> QED BY <1>1, <1>2

(* A function from 1 to n is a sequence. *)
LEMMA SeqIs ==
    ASSUME NEW n \in Nat, NEW R, NEW s \in [1 .. n -> R]
    PROVE  s \in Seq(R) /\ Len(s) = n
BY SeqDef, LenProperties

(* The words the kernel builds its frames of are words of a stack. *)
LEMMA StackWordsAre ==
    /\ JunkWord \in Words /\ Zero \in Words
    /\ \A c \in Whose : /\ Word("test3", c) \in Words
                        /\ Word("syscallHandler+53", c) \in Words
    /\ \A c \in Int : Word("pid", c) \in Words
BY DEF JunkWord, Zero, Word, Words, Whose, StackWord

(* syscallHandler pushes the program's 13 words in its order. *)
LEMMA SavedIs ==
    ASSUME NEW c \in Whose
    PROVE  /\ Len(Saved(c)) = 13
           /\ \A k \in 1 .. 13 : Saved(c)[k] = Word(SyscallSaves[k], c) /\ Saved(c)[k] \in Words
<1>1. \A k \in 1 .. 13 : Word(SyscallSaves[k], c) \in Words
  BY SyscallSavesDiffer DEF Word, Words
<1>2. Saved(c) = [k \in 1 .. 13 |-> Word(SyscallSaves[k], c)]
  BY SyscallSavesDiffer DEF Saved
<1>3. Saved(c) \in [1 .. 13 -> Words]
  BY <1>1, <1>2
<1>4. Len(Saved(c)) = 13
  BY <1>3, SeqIs
<1> QED BY <1>1, <1>2, <1>4

(* An address and flags before 14 registers are a frame of 16 words. *)
LEMMA ConcatIs ==
    ASSUME NEW R, NEW s \in Seq(R), NEW t \in Seq(R), Len(s) = 2, Len(t) = 14
    PROVE  /\ Len(s \o t) = 16
           /\ \A k \in 1 .. 16 : (s \o t)[k] = IF k <= 2 THEN s[k] ELSE t[k - 2]
<1> DEFINE c == s \o t
<1>1. /\ Len(c) = Len(s) + Len(t)
      /\ \A k \in 1 .. Len(s) + Len(t) :
            c[k] = IF k <= Len(s) THEN s[k] ELSE t[k - Len(s)]
  BY ConcatProperties, Zenon
<1> HIDE DEF c
<1>2. Len(c) = 16 /\ \A k \in 1 .. 16 : c[k] = IF k <= 2 THEN s[k] ELSE t[k - 2]
  BY <1>1
<1> QED BY <1>2, Zenon DEF c

(* The frame for context_switch: the address first, then zeros. *)
LEMMA FrameIs ==
    ASSUME NEW a \in Words
    PROVE  /\ Len(SwitchFrame(a)) = 16
           /\ SwitchFrame(a)[1] = a
           /\ \A k \in 2 .. 16 : SwitchFrame(a)[k] = Zero
           /\ \A k \in 1 .. 16 : SwitchFrame(a)[k] \in Words
<1> DEFINE zeros == [k \in DOMAIN SwitchSaves |-> Zero]
<1>1. zeros \in [1 .. 14 -> Words] /\ zeros = [k \in 1 .. 14 |-> Zero]
  BY SwitchSavesDiffer, StackWordsAre
<1>2. zeros \in Seq(Words) /\ Len(zeros) = 14
  BY <1>1, SeqIs
<1>3. \A k \in 1 .. 14 : zeros[k] = Zero
  BY <1>1
<1> DEFINE head == <<a, Zero>>
<1>4. head \in Seq(Words) /\ Len(head) = 2 /\ head[1] = a /\ head[2] = Zero
  BY StackWordsAre
<1>5. SwitchFrame(a) = head \o zeros
  BY DEF SwitchFrame
<1> HIDE DEF zeros, head
<1> DEFINE both == head \o zeros
<1>6. /\ Len(both) = 16
      /\ \A k \in 1 .. 16 : both[k] = IF k <= 2 THEN head[k] ELSE zeros[k - 2]
  BY <1>2, <1>4, ConcatIs, ZenonT(30)
<1>7. SwitchFrame(a) = both
  BY <1>5
<1> HIDE DEF both
<1>8. SwitchFrame(a)[1] = a /\ SwitchFrame(a)[2] = Zero
  BY <1>4, <1>6, <1>7
<1>9. \A k \in 3 .. 16 : SwitchFrame(a)[k] = Zero
  BY <1>3, <1>6, <1>7
<1>10. \A k \in 1 .. 16 : k = 1 \/ k = 2 \/ k \in 3 .. 16
  OBVIOUS
<1> QED BY <1>6, <1>7, <1>8, <1>9, <1>10, StackWordsAre

(* Pushing n words ws on a stack in use from slot lo on, or popping up to    *)
(* top if n is 0.                                                            *)
CanPush(k, lo, top, ws, n) ==
    /\ k \in Stacks /\ lo \in 0 .. 501 /\ DOMAIN k = lo .. 500
    /\ top \in lo .. 501 /\ n \in 0 .. top
    /\ Len(ws) = n /\ \A j \in 1 .. n : ws[j] \in Words
IsPush(p, k, top, ws, n) ==
    /\ p \in Stacks /\ DOMAIN p = top - n .. 500
    /\ \A j \in 1 .. n : p[top - j] = ws[j]
    /\ \A m \in top .. 500 : p[m] = k[m]

(* Pushing leaves the words above alone and puts ws below, first word on      *)
(* top.                                                                       *)
LEMMA Pushes ==
    ASSUME NEW k, NEW lo, NEW top, NEW ws, NEW n, CanPush(k, lo, top, ws, n)
    PROVE  IsPush(Pushed(k, top, ws), k, top, ws, n)
<1> DEFINE p == Pushed(k, top, ws)
<1>0. /\ k \in Stacks /\ lo \in 0 .. 501 /\ DOMAIN k = lo .. 500
      /\ top \in lo .. 501 /\ n \in 0 .. top
      /\ Len(ws) = n /\ \A j \in 1 .. n : ws[j] \in Words
  BY DEF CanPush
<1>1. {m \in DOMAIN k : m >= top} \cup top - n .. top - 1 = top - n .. 500
  BY <1>0
<1>2. p = [m \in top - n .. 500 |-> IF m < top THEN ws[top - m] ELSE k[m]]
  BY <1>0, <1>1 DEF Pushed
<1> HIDE DEF p
<1>3. DOMAIN p = top - n .. 500
  BY <1>2
<1>4. \A j \in 1 .. n : p[top - j] = ws[j]
  BY <1>0, <1>2
<1>5. \A m \in top .. 500 : p[m] = k[m]
  BY <1>0, <1>2
<1>6. \A m \in DOMAIN p : p[m] \in Words
  <2> TAKE m \in DOMAIN p
  <2>1. CASE m < top
    <3>1. top - m \in 1 .. n
      BY <1>0, <1>3, <2>1
    <3> QED BY <1>0, <1>2, <1>3, <2>1, <3>1
  <2>2. CASE m >= top
    <3>1. m \in top .. 500 /\ m \in DOMAIN k
      BY <1>0, <1>3, <2>2
    <3>2. k[m] \in Words
      BY <1>0, <3>1, StackIs
    <3> QED BY <1>5, <3>1, <3>2
  <2> QED BY <1>0, <1>3, <2>1, <2>2
<1>7. p \in Stacks
  <2>1. DOMAIN p \in SUBSET (0 .. 511)
    BY <1>0, <1>3
  <2>2. p = [m \in DOMAIN p |-> p[m]]
    BY <1>2
  <2>3. p \in [DOMAIN p -> Words]
    BY <1>6, <2>2
  <2> QED BY <2>1, <2>3, StackMade
<1> QED BY <1>3, <1>4, <1>5, <1>7 DEF p, IsPush

(* What syscallHandler saved for c it pops into the same registers. *)
LEMMA PoppedIs ==
    ASSUME NEW k, NEW n \in Int, NEW c \in Whose,
           \A j \in 1 .. 13 : k[n + 13 - j] = Word(SyscallSaves[j], c)
    PROVE  Popped(k, n) = Registers(c)
<1> DEFINE names == {SyscallSaves[j] : j \in 1 .. 13}
<1>1. \A r \in names : k[n + 13 - CHOOSE j \in 1 .. 13 : SyscallSaves[j] = r] = Word(r, c)
  BY SyscallSavesDiffer
<1>4. Len(SyscallSaves) = 13
  BY SyscallSavesDiffer, 1 \in 1 .. 13
<1>2. Popped(k, n) = [r \in names |-> k[n + 13 - CHOOSE j \in 1 .. 13 : SyscallSaves[j] = r]]
  BY <1>4 DEF Popped
<1>3. Registers(c) = [r \in names |-> Word(r, c)]
  BY SyscallSavesDiffer DEF Registers
<1> QED BY <1>1, <1>2, <1>3

-----------------------------------------------------------------------------
(* Writes below the stack                                                    *)

(* Below slot n of the program's stack, and not a field that is read again:   *)
(* pid and next of init, pid, rsp and rsp2 of the program.                    *)
Harmless(hit, n) ==
    \A a \in hit : /\ a \in Int /\ a < Slot(2, n)
                   /\ a \notin {0, PcbWords - 2, PcbWords, PcbWords + 1, PcbWords + 2}

(* The constants and the two stack levels are numbers in these ranges. *)
LEMMA Sizes ==
    /\ TestWords \in 1 .. 472 /\ U \in 29 .. 500 /\ S \in 16 .. 487 /\ U = S + 13
    /\ PrintWords \in Nat /\ CallWords \in Nat /\ IntWords \in Nat
    /\ ListPages \in Nat /\ ProgramPages \in Nat /\ ForkPages \in Nat
    /\ MaxForks \in Nat /\ PcbWords \in Nat /\ KStackAt \in Nat /\ KStackAt > 2
    /\ Depth = KStackAt + S /\ Slot(2, S) = PcbWords + Depth
<1>1. Len(SyscallSaves) = 13 /\ Len(SwitchSaves) = 14
  BY SyscallSavesDiffer, SwitchSavesDiffer, 1 \in 1 .. 13, 1 \in 1 .. 14
<1>2. TestWords \in 1 .. 472
  BY <1>1, FramesFit
<1> QED BY <1>1, <1>2, FramesFit, LayoutOK DEF U, S, Depth, Slot, Base, AtRsp2

(* The PCBs of init and of the program, and the program's slots. *)
LEMMA BaseIs ==
    /\ Base(1) = 0 /\ Base(2) = PcbWords
    /\ \A n \in Int : Slot(2, n) = PcbWords + KStackAt + n
BY Sizes DEF Base, Slot

(* Slots are counted from the beginning of their PCB. *)
LEMMA SlotIs ==
    ASSUME NEW i \in Nat, NEW n \in Int
    PROVE  /\ Slot(i, n) \in Int /\ Slot(i, 0) \in Int
           /\ Slot(i, n) - Slot(i, 0) = n
           /\ \A m \in Int : Slot(i, n) + m = Slot(i, n + m)
           /\ \A m \in Int : Slot(i, n) - m = Slot(i, n - m)
<1>1. Base(i) \in Int
  BY Sizes DEF Base
<1> QED BY <1>1, Sizes DEF Slot

(* The PCBs behind the program's begin behind its end. *)
LEMMA BaseFar ==
    ASSUME NEW i \in Nat, i >= 3
    PROVE  Base(i) \in Int /\ Base(i) >= 2 * PcbWords
<1>1. PICK d \in Nat : i = 3 + d
  <2>1. i - 3 \in Nat /\ i = 3 + (i - 3)
    OBVIOUS
  <2> QED BY <2>1
<1>2. (i - 1) * PcbWords = 2 * PcbWords + d * PcbWords /\ d * PcbWords >= 0
  BY <1>1, Sizes
<1> QED BY <1>2, Sizes DEF Base

(* A harmless hit spares the fields and the used slots of PCB i. *)
LEMMA Apart ==
    ASSUME NEW n \in 0 .. 501, NEW hit, Harmless(hit, n), NEW i \in Nat, i >= 2
    PROVE  /\ Base(i) + AtPid \notin hit /\ Base(i) + AtRsp \notin hit
           /\ Base(i) + AtRsp2 \notin hit /\ Base(i) + AtNext \notin hit
           /\ \A m \in IF i = 2 THEN n .. 500 ELSE 0 .. 511 : Slot(i, m) \notin hit
<1>1. \A a \in hit : /\ a \in Int /\ a < PcbWords + KStackAt + n
                    /\ a \notin {0, PcbWords - 2, PcbWords, PcbWords + 1, PcbWords + 2}
  BY BaseIs DEF Harmless
<1>2. CASE i = 2
  BY <1>1, <1>2, BaseIs, Sizes, LayoutOK DEF AtPid, AtRsp, AtRsp2, AtNext
<1>3. CASE i >= 3
  <2>1. Base(i) \in Int /\ Base(i) >= 2 * PcbWords
    BY <1>3, BaseFar
  <2>2. \A a \in hit : a \in Int /\ a < Base(i)
    BY <1>1, <2>1, Sizes, LayoutOK
  <2>3. \A m \in 0 .. 511 : Slot(i, m) \in Int /\ Slot(i, m) >= Base(i)
    BY <2>1, Sizes DEF Slot
  <2>4. \A m \in {AtPid, AtRsp, AtRsp2, AtNext} : Base(i) + m \in Int /\ Base(i) + m >= Base(i)
    BY <2>1, Sizes, LayoutOK DEF AtPid, AtRsp, AtRsp2, AtNext
  <2>5. \A m \in {AtPid, AtRsp, AtRsp2, AtNext} : Base(i) + m \notin hit
    BY <2>1, <2>2, <2>4
  <2>6. \A m \in 0 .. 511 : Slot(i, m) \notin hit
    BY <2>1, <2>2, <2>3
  <2> QED BY <2>5, <2>6
<1> QED BY <1>2, <1>3

(* It spares pid and next of init's PCB. *)
LEMMA ApartFromFirst ==
    ASSUME NEW n \in 0 .. 501, NEW hit, Harmless(hit, n)
    PROVE  Base(1) + AtPid \notin hit /\ Base(1) + AtNext \notin hit
BY BaseIs, Sizes DEF Harmless, AtPid, AtNext

(* The PCBs behind init's are the same. *)
Untouched(qs, ps, n) == \A i \in 2 .. n : qs[i] = ps[i]

(* A harmless hit leaves the table in order and all PCBs but init's the       *)
(* same.                                                                      *)
LEMMA OverwrittenIs ==
    ASSUME NEW N \in Nat, N >= 2, NEW ps, Table(ps, N),
           NEW n \in 0 .. 501, Uses(ps, 2, n),
           NEW hit, Harmless(hit, n)
    PROVE  /\ Table(Overwritten(ps, hit), N)
           /\ Untouched(Overwritten(ps, hit), ps, N)
<1> DEFINE qs == Overwritten(ps, hit)
<1>1. DOMAIN ps = 1 .. N /\ \A i \in 1 .. N : ps[i] \in Pcb
  BY DEF Table
<1>2. DOMAIN qs = 1 .. N
  BY <1>1 DEF Overwritten
<1>3. ASSUME NEW i \in 2 .. N
      PROVE  qs[i] = ps[i]
  <2>0. i \in Nat /\ i >= 2 /\ i \in 1 .. N
    OBVIOUS
  <2>1. /\ Base(i) + AtPid \notin hit /\ Base(i) + AtRsp \notin hit
        /\ Base(i) + AtRsp2 \notin hit /\ Base(i) + AtNext \notin hit
        /\ \A m \in IF i = 2 THEN n .. 500 ELSE 0 .. 511 : Slot(i, m) \notin hit
    BY <2>0, Apart, ZenonT(30)
  <2>2. ps[i].kstack \in Stacks
    BY <1>1, <2>0 DEF Pcb
  <2>3. \A m \in DOMAIN ps[i].kstack : Slot(i, m) \notin hit
    <3>1. DOMAIN ps[i].kstack \subseteq 0 .. 511
      BY <2>2, StackIs
    <3>2. i = 2 => DOMAIN ps[i].kstack = n .. 500
      BY DEF Uses
    <3>3. i = 2 \/ i > 2
      BY <2>0
    <3>4. CASE i = 2
      BY <2>1, <3>1, <3>2, <3>4
    <3>5. CASE i > 2
      BY <2>1, <3>1, <3>5
    <3> QED BY <3>3, <3>4, <3>5
  <2>4. [m \in DOMAIN ps[i].kstack |-> IF Slot(i, m) \in hit THEN JunkWord ELSE ps[i].kstack[m]]
          = ps[i].kstack
    BY <2>2, <2>3, StackIs
  <2>5. qs[i] = [pid |-> ps[i].pid, rsp |-> ps[i].rsp, rsp2 |-> ps[i].rsp2,
                 next |-> ps[i].next, isParent |-> ps[i].isParent,
                 isChild |-> ps[i].isChild, kstack |-> ps[i].kstack]
    BY <1>1, <2>0, <2>1, <2>4 DEF Overwritten
  <2> QED BY <1>1, <2>0, <2>5, RecordIs
<1>4. /\ qs[1] \in Pcb /\ qs[1].pid = ps[1].pid /\ qs[1].next = ps[1].next
      /\ qs[1].isChild = ps[1].isChild /\ DOMAIN qs[1].kstack = DOMAIN ps[1].kstack
  <2>0. 1 \in 1 .. N
    OBVIOUS
  <2>1. Base(1) + AtPid \notin hit /\ Base(1) + AtNext \notin hit
    BY ApartFromFirst
  <2>2. DOMAIN ps[1].kstack = {}
    BY <2>0 DEF Table
  <2> DEFINE k == [m \in DOMAIN ps[1].kstack |->
                     IF Slot(1, m) \in hit THEN JunkWord ELSE ps[1].kstack[m]]
             r == IF Base(1) + AtRsp \in hit THEN Junk ELSE ps[1].rsp
             w == IF Base(1) + AtRsp2 \in hit THEN JunkWord ELSE ps[1].rsp2
  <2>3. DOMAIN k = {} /\ k \in Stacks
    <3>1. {} \in SUBSET (0 .. 511) /\ k \in [{} -> Words]
      BY <2>2
    <3> QED BY <3>1, <2>2, StackMade
  <2>6. ps[1] \in Pcb
    BY <1>1, <2>0
  <2>4. r \in Int /\ w \in {"junk", "zero", "rsp"} \X Whose
    BY <2>6 DEF Pcb, Junk, JunkWord, Word, Whose
  <2>5. qs[1] = [pid |-> ps[1].pid, rsp |-> r, rsp2 |-> w, next |-> ps[1].next,
                 isParent |-> ps[1].isParent, isChild |-> ps[1].isChild, kstack |-> k]
    BY <1>1, <2>0, <2>1 DEF Overwritten
  <2> HIDE DEF k, r, w, qs
  <2> QED BY <2>2, <2>3, <2>4, <2>5, <2>6 DEF Pcb
<1>5. \A i \in 1 .. N : i = 1 \/ i \in 2 .. N
  OBVIOUS
<1>6. qs \in [1 .. N -> Pcb]
  <2>1. \A i \in 1 .. N : qs[i] \in Pcb
    BY <1>1, <1>3, <1>4, <1>5
  <2>2. qs = [i \in 1 .. N |-> qs[i]]
    BY <1>1 DEF Overwritten
  <2> QED BY <2>1, <2>2
<1> HIDE DEF qs
<1>7. ASSUME NEW i \in 1 .. N
      PROVE  /\ qs[i].pid = i /\ qs[i].next = IF i = N THEN 1 ELSE i + 1
             /\ i <= 2 => ~qs[i].isChild
             /\ i = 1 => DOMAIN qs[i].kstack = {}
  <2>1. CASE i = 1
    BY <1>4, <2>1 DEF Table
  <2>2. CASE i \in 2 .. N
    BY <1>3, <2>2 DEF Table
  <2> QED BY <1>5, <2>1, <2>2
<1>8. Table(qs, N)
  BY <1>6, <1>7 DEF Table
<1> QED BY <1>3, <1>8 DEF qs, Untouched

(* What the sizes come to, one inequality for each use. *)
LEMMA Room ==
    /\ Depth \in Nat /\ IntWords + 2 * CallWords + 2 < Depth
    /\ Depth + 14 <= KStackAt + 501 /\ KStackAt + 501 + 2 < IntWords + CallWords + PrintWords
    /\ \A n \in WriteWords : n \in Nat /\ n >= 1 /\ Depth + n + 1 < CallWords + PrintWords
    /\ 2 * PrintWords + 4 * CallWords + IntWords < PcbWords + Depth
    /\ Depth + 20 < PcbWords
BY FramesFit, LayoutOK, Sizes

(* What kprintf writes for a text of n words is harmless and within the       *)
(* list.                                                                      *)
LEMMA PrintHarmless ==
    ASSUME NEW n \in WriteWords
    PROVE  /\ Harmless(Printed(Slot(2, S), n), S)
           /\ \A a \in Printed(Slot(2, S), n) : a >= 0
<1> DEFINE T == Slot(2, S)
<1>1. T \in Nat /\ T = PcbWords + Depth /\ FinalArray(T) = T - CallWords - PrintWords
  BY Sizes, Room DEF FinalArray
<1> HIDE DEF T
<1>2. \A a \in T - CallWords .. T - 1 : a > PcbWords + 2 /\ a < T
  BY <1>1, Sizes, Room
<1>3. \A a \in T - CallWords - PrintWords - CallWords .. T - CallWords - PrintWords + n - 1 :
        a > 0 /\ a < PcbWords - 2
  BY <1>1, Sizes, Room
<1>4. \A a \in Printed(T, n) : /\ a \in Int /\ a > 0 /\ a < T
                               /\ a > PcbWords + 2 \/ a < PcbWords - 2
  BY <1>1, <1>2, <1>3, Sizes, Room DEF Printed
<1>5. Harmless(Printed(T, n), S)
  <2>1. ASSUME NEW a \in Printed(T, n)
        PROVE  a \in Int /\ a < T
               /\ a # 0 /\ a # PcbWords - 2 /\ a # PcbWords /\ a # PcbWords + 1 /\ a # PcbWords + 2
    <3>1. a \in Int /\ a > 0 /\ a < T /\ (a > PcbWords + 2 \/ a < PcbWords - 2)
      BY <1>4
    <3> QED BY <3>1, Sizes
  <2> QED BY <2>1 DEF Harmless, T
<1> QED BY <1>1, <1>4, <1>5 DEF T

(* What addPCB writes below its caller is harmless. *)
LEMMA AddingHarmless == Harmless(Adding(Slot(2, S)), S)
<1> DEFINE T == Slot(2, S)
<1>1. T \in Nat /\ T = PcbWords + Depth /\ LocalPcb(T) = Depth - CallWords
  BY Sizes, Room DEF LocalPcb
<1> HIDE DEF T
<1>2. \A a \in T - CallWords .. T - 1 : a > PcbWords + 2 /\ a < T
  BY <1>1, Sizes, Room
<1>3. \A a \in Depth - CallWords - CallWords .. Depth - CallWords - 1 : a > 0 /\ a < PcbWords - 2
  BY <1>1, Sizes, Room
<1>4. \A a \in Adding(T) : /\ a \in Int /\ a > 0 /\ a < T
                           /\ a > PcbWords + 2 \/ a < PcbWords - 2
  BY <1>1, <1>2, <1>3, Sizes, Room DEF Adding
<1>5. Harmless(Adding(T), S)
  <2>1. ASSUME NEW a \in Adding(T)
        PROVE  a \in Int /\ a < T
               /\ a # 0 /\ a # PcbWords - 2 /\ a # PcbWords /\ a # PcbWords + 1 /\ a # PcbWords + 2
    <3>1. a \in Int /\ a > 0 /\ a < T /\ (a > PcbWords + 2 \/ a < PcbWords - 2)
      BY <1>4
    <3> QED BY <3>1, Sizes
  <2> QED BY <2>1 DEF Harmless, T
<1> QED BY <1>1, <1>4, <1>5 DEF T

(* Interrupts: on a stack used down to slot n ... *)
LEMMA InterruptOnStack ==
    ASSUME NEW n \in S .. 501
    PROVE  /\ Harmless(Interrupting(Slot(2, n)), n)
           /\ \A a \in Interrupting(Slot(2, n)) : a >= 0
<1> DEFINE T == Slot(2, n)
<1>1. T \in Nat /\ T = PcbWords + KStackAt + n /\ T >= PcbWords + Depth /\ T <= PcbWords + KStackAt + 501
  BY Sizes, BaseIs
<1> HIDE DEF T
<1>2. \A a \in T - IntWords .. T - 1 : a > PcbWords + 2 /\ a < T
  BY <1>1, Sizes, Room
<1>3. \A a \in T - IntWords - CallWords .. T - IntWords - 1 : a > PcbWords + 2 /\ a < T
  BY <1>1, Sizes, Room
<1>4. \A a \in T - IntWords - CallWords - PrintWords - CallWords
              .. T - IntWords - CallWords - PrintWords + 1 - 1 : a > 0 /\ a < PcbWords - 2
  BY <1>1, Sizes, Room
<1>5. \A a \in Interrupting(T) : /\ a \in Int /\ a > 0 /\ a < T
                                 /\ a > PcbWords + 2 \/ a < PcbWords - 2
  BY <1>1, <1>2, <1>3, <1>4, Sizes DEF Interrupting, Printed, FinalArray
<1>6. Harmless(Interrupting(T), n)
  <2>1. ASSUME NEW a \in Interrupting(T)
        PROVE  a \in Int /\ a < T
               /\ a # 0 /\ a # PcbWords - 2 /\ a # PcbWords /\ a # PcbWords + 1 /\ a # PcbWords + 2
    <3>1. a \in Int /\ a > 0 /\ a < T /\ (a > PcbWords + 2 \/ a < PcbWords - 2)
      BY <1>5
    <3> QED BY <3>1, Sizes
  <2> QED BY <2>1 DEF Harmless, T
<1> QED BY <1>1, <1>5, <1>6 DEF T

(* ... below the array of a print ... *)
LEMMA InterruptInPrint ==
    ASSUME WriteWords # {}
    PROVE  /\ Harmless(Interrupting(FinalArray(Slot(2, S)) - CallWords), S)
           /\ \A a \in Interrupting(FinalArray(Slot(2, S)) - CallWords) : a >= 0
<1> DEFINE T == PcbWords + Depth - CallWords - PrintWords - CallWords
<1>0. PICK m \in WriteWords : TRUE
  OBVIOUS
<1>1. T \in Int /\ T = FinalArray(Slot(2, S)) - CallWords /\ T < PcbWords - 2 /\ T < Slot(2, S)
      /\ T > PrintWords + 2 * CallWords + IntWords
  BY <1>0, Sizes, Room DEF FinalArray
<1> HIDE DEF T
<1>2. \A a \in T - IntWords .. T - 1 : a > 0 /\ a < T
  BY <1>1, Sizes, Room
<1>3. \A a \in T - IntWords - CallWords .. T - IntWords - 1 : a > 0 /\ a < T
  BY <1>1, Sizes, Room
<1>4. \A a \in T - IntWords - CallWords - PrintWords - CallWords
              .. T - IntWords - CallWords - PrintWords + 1 - 1 : a > 0 /\ a < T + 1
  BY <1>1, Sizes, Room
<1>5. \A a \in Interrupting(T) : a \in Int /\ a > 0 /\ a < T + 1
  BY <1>1, <1>2, <1>3, <1>4, Sizes DEF Interrupting, Printed, FinalArray
<1> QED BY <1>1, <1>5, Sizes, BaseIs DEF Harmless

(* ... and below the PCB that addPCB has on its stack. *)
LEMMA InterruptInAdding ==
    Harmless(Interrupting(LocalPcb(Slot(2, S)) - 1), S)
<1> DEFINE T == Depth - CallWords - 1
<1>1. T \in Int /\ T = LocalPcb(Slot(2, S)) - 1 /\ T < PcbWords - 2 /\ T < Slot(2, S)
      /\ T > CallWords + IntWords
      /\ T < IntWords + CallWords + PrintWords
  BY Sizes, Room DEF LocalPcb
<1> HIDE DEF T
<1>2. \A a \in T - IntWords .. T - 1 : a > 0 /\ a < T
  BY <1>1, Sizes, Room
<1>3. \A a \in T - IntWords - CallWords .. T - IntWords - 1 : a > 0 /\ a < T
  BY <1>1, Sizes, Room
<1>4. \A a \in T - IntWords - CallWords - PrintWords - CallWords
              .. T - IntWords - CallWords - PrintWords + 1 - 1 : a < 0 /\ a < T
  BY <1>1, Sizes, Room
<1>5. \A a \in Interrupting(T) : a \in Int /\ a # 0 /\ a < T
  BY <1>1, <1>2, <1>3, <1>4, Sizes DEF Interrupting, Printed, FinalArray
<1> QED BY <1>1, <1>5, Sizes, BaseIs DEF Harmless

-----------------------------------------------------------------------------
(* The table grows                                                           *)

(* A table of n PCBs is a sequence of length n. *)
LEMMA TableSize ==
    ASSUME NEW n \in Nat, NEW ps, Table(ps, n)
    PROVE  ps \in Seq(Pcb) /\ Len(ps) = n
<1>1. ps \in [1 .. n -> Pcb]
  BY DEF Table
<1> QED BY <1>1, SeqIs

(* Appending adds one entry and keeps the others. *)
LEMMA Extended ==
    ASSUME NEW R, NEW n \in Nat, NEW s \in [1 .. n -> R], NEW e \in R
    PROVE  /\ Append(s, e) \in [1 .. n + 1 -> R]
           /\ \A i \in 1 .. n : Append(s, e)[i] = s[i]
           /\ Append(s, e)[n + 1] = e
<1>0. PICK t : t = Append(s, e)
  OBVIOUS
<1>1. s \in Seq(R) /\ Len(s) = n
  BY SeqIs
<1>2. Append(s, e) \in Seq(R) /\ Len(Append(s, e)) = Len(s) + 1
  BY <1>1, AppendProperties
<1>3. /\ \A i \in 1 .. Len(s) : Append(s, e)[i] = s[i]
      /\ Append(s, e)[Len(s) + 1] = e
  BY <1>1, AppendProperties
<1>4. t \in Seq(R) /\ Len(t) = n + 1
  BY <1>0, <1>1, <1>2
<1>5. t \in [1 .. Len(t) -> R]
  BY <1>4, LenProperties
<1>6. t \in [1 .. n + 1 -> R]
  BY <1>4, <1>5
<1>7. \A i \in 1 .. n : Append(s, e)[i] = s[i]
  BY <1>1, <1>3
<1>8. Append(s, e)[n + 1] = e
  BY <1>1, <1>3
<1> QED BY <1>0, <1>6, <1>7, <1>8

(* Taking pages keeps pages a sequence of uses. *)
LEMMA PagesGrow ==
    ASSUME NEW use \in PageUses, NEW n \in Nat, NEW s \in Seq(PageUses)
    PROVE  s \o Take(use, n) \in Seq(PageUses) /\ Append(s, use) \in Seq(PageUses)
<1>1. Take(use, n) \in [1 .. n -> PageUses]
  BY DEF Take
<1>2. Take(use, n) \in Seq(PageUses)
  BY <1>1, SeqIs
<1>3. s \o Take(use, n) \in Seq(PageUses)
  BY <1>2, ConcatProperties, Zenon
<1>4. Append(s, use) \in Seq(PageUses)
  BY AppendProperties, Zenon
<1> QED BY <1>3, <1>4

(* With ids 1 to n given out, getProcessID finds n + 1. *)
LEMMA FreshId ==
    ASSUME NEW n \in Nat, n + 1 < MAX_PROCESS,
           processID = 1 .. n, pid = IF n = 0 THEN 1 ELSE n
    PROVE  FreeIds # {} /\ getProcessID = n + 1
<1>1. MAX_PROCESS \in Nat /\ pid \in Nat
  BY LayoutOK
<1>2. n + 1 \in FreeIds
  BY <1>1 DEF FreeIds
<1>3. \A p \in FreeIds : p \in Int /\ n + 1 <= p
  BY <1>1 DEF FreeIds
<1>4. \A p \in FreeIds : (\A q \in FreeIds : p <= q) => p = n + 1
  BY <1>2, <1>3
<1>5. (CHOOSE p \in FreeIds : \A q \in FreeIds : p <= q) = n + 1
  BY <1>2, <1>3, <1>4
<1> QED BY <1>2, <1>5 DEF getProcessID

(* What a step may not change of a PCB when it links another one behind it. *)
Kept(p, q) ==
    /\ p.rsp = q.rsp /\ p.rsp2 = q.rsp2 /\ p.isChild = q.isChild
    /\ p.isParent = q.isParent /\ p.kstack = q.kstack

(* Linking a PCB behind the last keeps the ring and what the others hold. *)
LEMMA LinkedIs ==
    ASSUME NEW n \in Nat, NEW ps, Table(ps, n), getProcessID = n + 1
    PROVE  /\ Table(Linked(ps), n + 1)
           /\ \A i \in 1 .. n : Kept(Linked(ps)[i], ps[i])
           /\ Linked(ps)[n + 1].rsp = Junk /\ ~Linked(ps)[n + 1].isChild
           /\ Uses(Linked(ps), n + 1, 501)
<1> DEFINE old == [i \in DOMAIN ps |-> IF i = n THEN [ps[i] EXCEPT !.next = n + 1] ELSE ps[i]]
           new == [pid |-> getProcessID, rsp |-> Junk, rsp2 |-> JunkWord, next |-> 1,
                   isParent |-> FALSE, isChild |-> FALSE, kstack |-> [s \in {} |-> Zero]]
           qs == Linked(ps)
<1>1. Len(ps) = n
  BY TableSize
<1>2. ps \in [1 .. n -> Pcb] /\ DOMAIN ps = 1 .. n
  BY DEF Table
<1>3. qs = Append(old, new)
  BY <1>1 DEF Linked
<1>4. ASSUME NEW p \in Pcb, NEW m \in Int
      PROVE  /\ [p EXCEPT !.next = m] \in Pcb /\ [p EXCEPT !.next = m].next = m
             /\ [p EXCEPT !.next = m].pid = p.pid /\ Kept([p EXCEPT !.next = m], p)
  BY DEF Pcb, Kept
<1>5. \A i \in 1 .. n : /\ old[i] \in Pcb /\ Kept(old[i], ps[i]) /\ old[i].pid = ps[i].pid
                       /\ old[i].next = IF i = n THEN n + 1 ELSE ps[i].next
  <2> TAKE i \in 1 .. n
  <2>1. ps[i] \in Pcb /\ n + 1 \in Int
    BY <1>2
  <2>2. CASE i = n
    <3>1. old[i] = [ps[i] EXCEPT !.next = n + 1]
      BY <1>2, <2>2
    <3>2. /\ [ps[i] EXCEPT !.next = n + 1] \in Pcb
          /\ [ps[i] EXCEPT !.next = n + 1].next = n + 1
          /\ [ps[i] EXCEPT !.next = n + 1].pid = ps[i].pid
          /\ Kept([ps[i] EXCEPT !.next = n + 1], ps[i])
      BY <1>4, <2>1
    <3> HIDE DEF old
    <3> QED BY <2>2, <3>1, <3>2
  <2>3. CASE i # n
    <3>1. old[i] = ps[i]
      BY <1>2, <2>3
    <3> QED BY <2>1, <2>3, <3>1 DEF Kept
  <2> QED BY <2>2, <2>3
<1>6. old \in [1 .. n -> Pcb]
  BY <1>2, <1>5
<1>7. /\ new \in Pcb /\ new.pid = n + 1 /\ new.next = 1 /\ new.rsp = Junk
      /\ ~new.isChild /\ DOMAIN new.kstack = {}
  <2>1. [s \in {} |-> Zero] \in Stacks
    <3>1. {} \in SUBSET (0 .. 511) /\ [s \in {} |-> Zero] \in [{} -> Words]
      OBVIOUS
    <3> QED BY <3>1, StackMade
  <2>2. JunkWord \in {"junk", "zero", "rsp"} \X Whose
    BY DEF JunkWord, Word, Whose
  <2> QED BY <2>1, <2>2 DEF Pcb, Junk
<1> HIDE DEF old, new, qs
<1>8. /\ qs \in [1 .. n + 1 -> Pcb] /\ qs[n + 1] = new
      /\ \A i \in 1 .. n : qs[i] = old[i]
  <2> DEFINE ap == Append(old, new)
  <2>1. new \in Pcb
    BY <1>7
  <2>2. ap \in [1 .. n + 1 -> Pcb] /\ ap[n + 1] = new /\ \A i \in 1 .. n : ap[i] = old[i]
    <3>1. ap \in [1 .. n + 1 -> Pcb]
      BY <1>6, <2>1, Extended
    <3>2. ap[n + 1] = new
      BY <1>6, <2>1, Extended
    <3>3. \A i \in 1 .. n : ap[i] = old[i]
      BY <1>6, <2>1, Extended
    <3> QED BY <3>1, <3>2, <3>3
  <2>3. qs = ap
    BY <1>3
  <2> HIDE DEF ap
  <2> QED BY <2>2, <2>3
<1>9. \A i \in 1 .. n + 1 : i \in 1 .. n \/ i = n + 1
  OBVIOUS
<1>10. ASSUME NEW i \in 1 .. n + 1
       PROVE  /\ qs[i].pid = i /\ qs[i].next = IF i = n + 1 THEN 1 ELSE i + 1
              /\ i <= 2 => ~qs[i].isChild
              /\ i = 1 => DOMAIN qs[i].kstack = {}
  <2>1. CASE i \in 1 .. n
    <3>1. /\ ps[i].pid = i /\ ps[i].next = IF i = n THEN 1 ELSE i + 1
          /\ i <= 2 => ~ps[i].isChild
          /\ i = 1 => DOMAIN ps[i].kstack = {}
      BY <2>1 DEF Table
    <3>2. qs[i] = old[i] /\ i # n + 1
      BY <1>8, <2>1
    <3> QED BY <1>5, <2>1, <3>1, <3>2 DEF Kept
  <2>2. CASE i = n + 1
    BY <1>7, <1>8, <2>2
  <2> QED BY <1>9, <2>1, <2>2
<1>11. Table(qs, n + 1)
  BY <1>8, <1>10 DEF Table
<1>12. \A i \in 1 .. n : Kept(qs[i], ps[i])
  BY <1>5, <1>8
<1>13. qs[n + 1].rsp = Junk /\ ~qs[n + 1].isChild /\ DOMAIN qs[n + 1].kstack = {}
  BY <1>7, <1>8
<1>14. Uses(qs, n + 1, 501)
  <2>1. 501 .. 500 = {}
    OBVIOUS
  <2> QED BY <1>13, <2>1 DEF Uses
<1> QED BY <1>11, <1>12, <1>13, <1>14 DEF qs

(* addPCB extends the table ps by one process and forkedIn with it. *)
LEMMA PcbAdded ==
    ASSUME TableInv, Size + 1 < MAX_PROCESS,
           NEW ps, Table(ps, Size), NEW c \in Whose, addPCB(ps, c)
    PROVE  /\ Size' = Size + 1 /\ Table(pcbs', Size + 1)
           /\ processID' = 1 .. Size + 1 /\ pid' = Size + 1
           /\ forkedIn' \in Seq(Whose) /\ Len(forkedIn') = Size + 1
           /\ forkedIn'[Size + 1] = c
           /\ \A i \in 1 .. Size : forkedIn'[i] = forkedIn[i] /\ Kept(pcbs'[i], ps[i])
           /\ pcbs'[Size + 1].rsp = Junk /\ ~pcbs'[Size + 1].isChild
           /\ Uses(pcbs', Size + 1, 501)
<1>1. PICK n \in Nat : n = Size
  BY DEF TableInv
<1>2. /\ processID = 1 .. n /\ pid = IF n = 0 THEN 1 ELSE n
      /\ forkedIn \in Seq(Whose) /\ Len(forkedIn) = n /\ n + 1 < MAX_PROCESS
  BY <1>1 DEF TableInv
<1>3. FreeIds # {} /\ getProcessID = n + 1
  BY <1>2, FreshId
<1>4. /\ pcbs' = Linked(ps) /\ pid' = n + 1 /\ processID' = processID \cup ({n + 1} \ {-1})
      /\ forkedIn' = Append(forkedIn, c)
  BY <1>3 DEF addPCB
<1>5. /\ Table(pcbs', n + 1) /\ \A i \in 1 .. n : Kept(pcbs'[i], ps[i])
      /\ pcbs'[n + 1].rsp = Junk /\ ~pcbs'[n + 1].isChild /\ Uses(pcbs', n + 1, 501)
  BY <1>1, <1>3, <1>4, LinkedIs
<1>6. Size' = n + 1
  <2>1. n + 1 \in Nat
    OBVIOUS
  <2> QED BY <1>5, <2>1, TableSize DEF Size
<1>7. processID' = 1 .. n + 1
  BY <1>2, <1>4
<1>8. forkedIn \in [1 .. n -> Whose]
  BY <1>2, LenProperties
<1>9. /\ forkedIn' \in [1 .. n + 1 -> Whose] /\ forkedIn'[n + 1] = c
      /\ \A i \in 1 .. n : forkedIn'[i] = forkedIn[i]
  <2> DEFINE ap == Append(forkedIn, c)
  <2>1. ap \in [1 .. n + 1 -> Whose] /\ ap[n + 1] = c /\ \A i \in 1 .. n : ap[i] = forkedIn[i]
    <3>1. ap \in [1 .. n + 1 -> Whose]
      BY <1>1, <1>8, Extended
    <3>2. ap[n + 1] = c
      BY <1>1, <1>8, Extended
    <3>3. \A i \in 1 .. n : ap[i] = forkedIn[i]
      BY <1>1, <1>8, Extended
    <3> QED BY <3>1, <3>2, <3>3
  <2>2. forkedIn' = ap
    BY <1>4
  <2> HIDE DEF ap
  <2> QED BY <2>1, <2>2
<1>10. forkedIn' \in Seq(Whose) /\ Len(forkedIn') = n + 1
  <2>1. n + 1 \in Nat
    OBVIOUS
  <2> QED BY <1>9, <2>1, SeqIs
<1> QED BY <1>1, <1>4, <1>5, <1>6, <1>7, <1>9, <1>10

-----------------------------------------------------------------------------
(* Boot                                                                      *)

(* Boot, the program and its system calls are told apart by pc. *)
LEMMA PcsDiffer ==
    /\ \A p \in BootPc : p \notin TaskPc /\ p \notin SysPc /\ p \notin EdgePc
    /\ \A p \in SysPc : p \in TaskPc /\ p \notin EdgePc
    /\ \A p \in EdgePc : p \in TaskPc /\ p \notin SysPc
BY DEF BootPc, TaskPc, SysPc, EdgePc

(* A step that stays in boot owes the table and BootInv only. *)
LEMMA BootStep ==
    ASSUME pc' \in BootPc, TableInv', Size' <= 2, BootInv', ~belowList'
    PROVE  ProcessInv'
<1>1. pc' \notin TaskPc /\ pc' \notin SysPc /\ pc' \notin EdgePc
  BY PcsDiffer
<1>2. TaskInv' /\ CallInv' /\ EdgeInv'
  <2>1. EdgePc' = EdgePc
    BY DEF EdgePc
  <2> QED BY <1>1, <2>1 DEF TaskInv, CallInv, EdgeInv, TaskPc, SysPc
<1>3. ChildInv'
  <2>1. Table(pcbs', Size') /\ Size' \in Nat
    BY DEF TableInv
  <2>2. \A i \in 1 .. Size' : ~pcbs'[i].isChild
    BY <2>1 DEF Table
  <2> QED BY <2>2 DEF ChildInv
<1> QED BY <1>2, <1>3 DEF ProcessInv, ListInv

(* The invariant holds at first. *)
LEMMA InitHolds == Init => ProcessInv
<1> SUFFICES ASSUME Init PROVE ProcessInv
  OBVIOUS
<1>1. Size = 0 /\ pc = "initializePCBList" /\ pc \in BootPc /\ pc \notin TaskPc /\ pc \notin SysPc
  BY DEF Init, Size, BootPc, TaskPc, SysPc, EdgePc
<1>2. Table(pcbs, Size)
  <2>1. pcbs = <<>> /\ Size = 0
    BY <1>1 DEF Init
  <2>2. pcbs \in [1 .. 0 -> Pcb]
    BY <2>1
  <2> QED BY <2>1, <2>2 DEF Table
<1>3. TableInv
  BY <1>1, <1>2, Sizes DEF Init, TableInv, Whose
<1>4. BootInv
  BY <1>1 DEF Init, BootInv
<1>5. TaskInv /\ CallInv /\ EdgeInv
  BY <1>1, PcsDiffer DEF TaskInv, CallInv, EdgeInv
<1>6. ChildInv /\ ListInv
  BY <1>1 DEF ChildInv, ListInv, Init
<1> QED BY <1>3, <1>4, <1>5, <1>6 DEF ProcessInv

(* Boot, one lemma for each step: the page lists. *)
LEMMA BootLists ==
    ASSUME ProcessInv, initializePCBList \/ setupMSRs
    PROVE  ProcessInv'
<1>1. /\ pc \in {"initializePCBList", "setupMSRs"} /\ pc \in BootPc
      /\ pc' \in {"setupMSRs", "contextSwitch"} /\ pc' \in BootPc
      /\ pcbs' = pcbs /\ processID' = processID /\ pid' = pid /\ forkedIn' = forkedIn
      /\ currentTask' = currentTask /\ gs' = gs /\ kernelGs' = kernelGs /\ rsp' = rsp
      /\ r15' = r15 /\ user' = user /\ ctx' = ctx /\ belowList' = belowList
  BY DEF initializePCBList, setupMSRs, table, registers, program, BootPc
<1>2. pages' \in Seq(PageUses)
  <2>1. pages \in Seq(PageUses) /\ "pcbList" \in PageUses /\ "msr" \in PageUses
    BY DEF ProcessInv, TableInv, PageUses
  <2>2. ListPages \in Nat /\ 3 \in Nat
    BY Sizes
  <2>3. pages' = pages \o Take("pcbList", ListPages) \/ pages' = pages \o Take("msr", 3)
    BY DEF initializePCBList, setupMSRs
  <2> QED BY <2>1, <2>2, <2>3, PagesGrow, Zenon
<1>3. Size' = Size /\ Size = 0
  BY <1>1 DEF Size, ProcessInv, BootInv
<1>4. TableInv'
  BY <1>1, <1>2, <1>3 DEF ProcessInv, TableInv
<1>5. BootInv'
  BY <1>1, <1>3 DEF ProcessInv, BootInv
<1>6. ~belowList'
  BY <1>1, <1>3 DEF ProcessInv, ListInv
<1> QED BY <1>1, <1>3, <1>4, <1>5, <1>6, BootStep

(* The PCBs of init and of the program. *)
LEMMA BootPcbs ==
    ASSUME ProcessInv, contextSwitch
    PROVE  ProcessInv'
<1>1. /\ pc = "contextSwitch" /\ pc \in BootPc
      /\ addPCB(pcbs, Nobody)
      /\ pages' = pages /\ gs' = gs /\ kernelGs' = kernelGs /\ rsp' = rsp
      /\ r15' = r15 /\ user' = user /\ ctx' = ctx /\ belowList' = belowList
  BY DEF contextSwitch, registers, program, BootPc
<1>2. TableInv /\ Size \in Nat /\ Size <= 1 /\ currentTask = Size /\ Table(pcbs, Size)
  BY <1>1 DEF ProcessInv, BootInv, TableInv
<1>3. Size + 1 < MAX_PROCESS /\ Nobody \in Whose /\ Size + 1 <= 2 + MaxForks
  BY <1>2, Sizes, FramesFit, LayoutOK DEF Whose
<1>4. /\ Size' = Size + 1 /\ Table(pcbs', Size + 1)
      /\ processID' = 1 .. Size + 1 /\ pid' = Size + 1
      /\ forkedIn' \in Seq(Whose) /\ Len(forkedIn') = Size + 1
      /\ Uses(pcbs', Size + 1, 501)
  BY <1>1, <1>2, <1>3, PcbAdded
<1>5. pcbs = <<>> <=> Size = 0
  <2>1. pcbs \in Seq(Pcb)
    BY <1>2, TableSize
  <2> QED BY <2>1 DEF Size
<1>6. /\ pc' \in BootPc
      /\ Size = 0 => pc' = "contextSwitch" /\ currentTask' = 1
      /\ Size = 1 => pc' = "init_process2" /\ currentTask' = 1
  BY <1>1, <1>2, <1>5 DEF contextSwitch, BootPc
<1>7. Size = 0 \/ Size = 1
  BY <1>2
<1>8. TableInv'
  <2>1. pc' \in BootPc \cup TaskPc /\ pages' \in Seq(PageUses) /\ ctx' \in Whose
    BY <1>1, <1>2, <1>6 DEF TableInv
  <2>2. Size' \in Nat /\ Table(pcbs', Size') /\ processID' = 1 .. Size' /\ Len(forkedIn') = Size'
        /\ pid' = (IF Size' = 0 THEN 1 ELSE Size') /\ Size' <= 2 + MaxForks
    BY <1>2, <1>3, <1>4
  <2> QED BY <1>4, <2>1, <2>2 DEF TableInv
<1>9. BootInv'
  <2>1. /\ gs' = 0 /\ rsp' = BootStack /\ r15' = Junk /\ ctx' = Nobody /\ kernelGs' = 0
        /\ user' = [regs |-> Registers(Nobody), rsp |-> Zero]
    BY <1>1 DEF ProcessInv, BootInv
  <2>2. CASE Size = 0
    <3>1. Size' = 1 /\ pc' = "contextSwitch" /\ currentTask' = 1
      BY <1>4, <1>6, <2>2
    <3> QED BY <2>1, <3>1 DEF BootInv
  <2>3. CASE Size = 1
    <3>1. Size' = 2 /\ pc' = "init_process2" /\ currentTask' = 1 /\ Uses(pcbs', 2, 501)
      BY <1>4, <1>6, <2>3
    <3> QED BY <2>1, <3>1 DEF BootInv
  <2> QED BY <1>7, <2>2, <2>3
<1>10. ~belowList'
  BY <1>1, <1>2 DEF ProcessInv, ListInv
<1> QED BY <1>2, <1>4, <1>6, <1>8, <1>9, <1>10, BootStep

(* What the handlers store into one PCB, in the order in which they do.       *)
Stores(qs, ps, i, k, r, w) ==
    \/ qs = [ps EXCEPT ![i].kstack = k, ![i].rsp = r] /\ w = ps[i].rsp2
    \/ qs = [ps EXCEPT ![i].rsp = r, ![i].kstack = k] /\ w = ps[i].rsp2
    \/ qs = [ps EXCEPT ![i].rsp2 = w, ![i].kstack = k] /\ r = ps[i].rsp
    \/ qs = [ps EXCEPT ![i].kstack = k, ![i].rsp = r, ![i].rsp2 = w]
    \/ qs = [ps EXCEPT ![i].kstack = k] /\ r = ps[i].rsp /\ w = ps[i].rsp2
    \/ qs = [ps EXCEPT ![i].rsp = r] /\ k = ps[i].kstack /\ w = ps[i].rsp2

(* What rsp2 can be. *)
Rsp2s == {"junk", "zero", "rsp"} \X Whose

(* Replacing one PCB keeps the others. *)
LEMMA OnePcb ==
    ASSUME NEW n \in Nat, NEW ps \in [1 .. n -> Pcb], NEW i \in 1 .. n, NEW p \in Pcb,
           NEW qs, qs = [ps EXCEPT ![i] = p]
    PROVE  /\ qs \in [1 .. n -> Pcb] /\ qs[i] = p
           /\ \A j \in 1 .. n : j # i => qs[j] = ps[j]
<1>1. qs \in [1 .. n -> Pcb]
  OBVIOUS
<1>2. qs[i] = p
  OBVIOUS
<1> QED BY <1>1, <1>2

(* Stores into one PCB keep the table and the other PCBs. *)
LEMMA StoredIs ==
    ASSUME NEW n \in Nat, NEW ps, Table(ps, n), NEW i \in 2 .. n, NEW k \in Stacks,
           NEW r \in Int, NEW w \in Rsp2s, NEW qs, Stores(qs, ps, i, k, r, w)
    PROVE  /\ Table(qs, n)
           /\ \A j \in 1 .. n : j # i => qs[j] = ps[j]
           /\ qs[i].kstack = k /\ qs[i].rsp = r /\ qs[i].rsp2 = w
           /\ qs[i].isChild = ps[i].isChild
<1> DEFINE p == [ps[i] EXCEPT !.kstack = k, !.rsp = r, !.rsp2 = w]
<1>1. ps \in [1 .. n -> Pcb] /\ i \in 1 .. n /\ ps[i] \in Pcb
  BY DEF Table
<1>2. qs = [ps EXCEPT ![i] = p]
  <2>1. CASE qs = [ps EXCEPT ![i].kstack = k, ![i].rsp = r] /\ w = ps[i].rsp2
    BY <1>1, <2>1 DEF Pcb
  <2>2. CASE qs = [ps EXCEPT ![i].rsp = r, ![i].kstack = k] /\ w = ps[i].rsp2
    BY <1>1, <2>2 DEF Pcb
  <2>3. CASE qs = [ps EXCEPT ![i].rsp2 = w, ![i].kstack = k] /\ r = ps[i].rsp
    BY <1>1, <2>3 DEF Pcb
  <2>4. CASE qs = [ps EXCEPT ![i].kstack = k, ![i].rsp = r, ![i].rsp2 = w]
    BY <1>1, <2>4
  <2>5. CASE qs = [ps EXCEPT ![i].kstack = k] /\ r = ps[i].rsp /\ w = ps[i].rsp2
    BY <1>1, <2>5 DEF Pcb
  <2>6. CASE qs = [ps EXCEPT ![i].rsp = r] /\ k = ps[i].kstack /\ w = ps[i].rsp2
    BY <1>1, <2>6 DEF Pcb
  <2> QED BY <2>1, <2>2, <2>3, <2>4, <2>5, <2>6 DEF Stores
<1>3. /\ p \in Pcb /\ p.pid = ps[i].pid /\ p.next = ps[i].next
      /\ p.isChild = ps[i].isChild /\ p.kstack = k /\ p.rsp = r /\ p.rsp2 = w
  BY <1>1 DEF Pcb, Rsp2s
<1> HIDE DEF p
<1>4. qs \in [1 .. n -> Pcb] /\ qs[i] = p /\ \A j \in 1 .. n : j # i => qs[j] = ps[j]
  BY <1>1, <1>2, <1>3, OnePcb
<1>5. ASSUME NEW j \in 1 .. n
      PROVE  /\ qs[j].pid = j /\ qs[j].next = IF j = n THEN 1 ELSE j + 1
             /\ j <= 2 => ~qs[j].isChild
             /\ j = 1 => DOMAIN qs[j].kstack = {}
  <2>1. /\ ps[j].pid = j /\ ps[j].next = IF j = n THEN 1 ELSE j + 1
        /\ j <= 2 => ~ps[j].isChild
        /\ j = 1 => DOMAIN ps[j].kstack = {}
    BY DEF Table
  <2>2. CASE j = i
    <3>1. qs[j] = p /\ j # 1
      BY <1>4, <2>2
    <3> QED BY <1>3, <2>1, <2>2, <3>1
  <2>3. CASE j # i
    <3>1. qs[j] = ps[j]
      BY <1>4, <2>3
    <3> QED BY <2>1, <3>1
  <2> QED BY <2>2, <2>3
<1>6. Table(qs, n)
  BY <1>4, <1>5 DEF Table
<1> QED BY <1>3, <1>4, <1>6

(* The program's first stack frame. *)
LEMMA InitProcess ==
    ASSUME ProcessInv, init_process2
    PROVE  ProcessInv'
<1> DEFINE frame == SwitchFrame(Word("test3", Nobody))
<1>1. /\ pc = "init_process2" /\ pc \in BootPc /\ pc' = "yield2" /\ pc' \in BootPc
      /\ pages' = Append(pages, "vma")
      /\ processID' = processID /\ pid' = pid /\ forkedIn' = forkedIn
      /\ currentTask' = currentTask /\ gs' = gs /\ kernelGs' = kernelGs /\ rsp' = rsp
      /\ r15' = r15 /\ user' = user /\ ctx' = ctx /\ belowList' = belowList
  BY DEF init_process2, registers, program, BootPc
<1>2. TableInv /\ Size = 2 /\ Table(pcbs, 2) /\ Uses(pcbs, 2, 501)
  BY <1>1 DEF ProcessInv, BootInv, TableInv
<1>3. PICK st \in Stacks : st = pcbs[2].kstack
  BY <1>2 DEF Table, Pcb
<1>4. pcbs[2].rsp2 \in Rsp2s
  BY <1>2 DEF Table, Pcb, Rsp2s
<1> DEFINE k == Pushed(st, 501, frame)
<1>5. k \in Stacks /\ DOMAIN k = 485 .. 500 /\ k[500] = Word("test3", Nobody)
  <2>1. Word("test3", Nobody) \in Words
    BY StackWordsAre DEF Whose
  <2>2. Len(frame) = 16 /\ frame[1] = Word("test3", Nobody) /\ \A j \in 1 .. 16 : frame[j] \in Words
    BY <2>1, FrameIs
  <2>3. CanPush(st, 501, 501, frame, 16)
    BY <1>2, <1>3, <2>2 DEF Uses, CanPush
  <2> HIDE DEF frame
  <2>4. IsPush(k, st, 501, frame, 16)
    BY <2>3, Pushes
  <2> HIDE DEF k
  <2>5. k \in Stacks /\ DOMAIN k = 501 - 16 .. 500 /\ k[501 - 1] = frame[1]
    BY <2>4 DEF IsPush
  <2> QED BY <2>2, <2>5
<1>6. Stores(pcbs', pcbs, 2, k, Slot(2, 485), pcbs[2].rsp2)
  BY <1>3 DEF init_process2, Stores
<1> HIDE DEF k
<1>7. Table(pcbs', 2) /\ pcbs'[2].kstack = k /\ pcbs'[2].rsp = Slot(2, 485)
  <2>1. Slot(2, 485) \in Int /\ 2 \in 2 .. 2
    BY SlotIs, 2 \in Nat
  <2> QED BY <1>2, <1>4, <1>5, <1>6, <2>1, StoredIs
<1>8. Size' = 2
  BY <1>7, TableSize DEF Size
<1>9. pages' \in Seq(PageUses)
  BY <1>1, <1>2, PagesGrow, 1 \in Nat DEF TableInv, PageUses
<1>10. TableInv'
  BY <1>1, <1>2, <1>7, <1>8, <1>9 DEF TableInv
<1>11. BootInv'
  <2>1. Uses(pcbs', 2, 485) /\ pcbs'[2].kstack[500] = Word("test3", Nobody)
    BY <1>5, <1>7 DEF Uses
  <2> QED BY <1>1, <1>7, <1>8, <2>1 DEF ProcessInv, BootInv
<1>12. ~belowList'
  BY <1>1, <1>2 DEF ProcessInv, ListInv
<1> QED BY <1>1, <1>8, <1>10, <1>11, <1>12, BootStep

(* yield2 goes on to the program's PCB. *)
LEMMA SwitchChosen ==
    ASSUME ProcessInv, yield2
    PROVE  ProcessInv'
<1>1. /\ pc = "yield2" /\ pc \in BootPc
      /\ pc' = "setProcessSpecificMSRs" /\ pc' \in BootPc
      /\ currentTask' = pcbs[currentTask].next
      /\ pcbs' = pcbs /\ pages' = pages /\ processID' = processID /\ pid' = pid
      /\ forkedIn' = forkedIn /\ gs' = gs /\ kernelGs' = kernelGs /\ rsp' = rsp
      /\ r15' = r15 /\ user' = user /\ ctx' = ctx /\ belowList' = belowList
  BY DEF yield2, table, registers, program, BootPc
<1>2. TableInv /\ Size = 2 /\ Table(pcbs, 2) /\ currentTask = 1
  BY <1>1 DEF ProcessInv, BootInv, TableInv
<1>3. currentTask' = 2 /\ Size' = 2
  BY <1>1, <1>2 DEF Table, Size
<1>4. TableInv'
  BY <1>1, <1>2, <1>3 DEF TableInv
<1>5. BootInv'
  BY <1>1, <1>3 DEF ProcessInv, BootInv
<1>6. ~belowList'
  BY <1>1, <1>2 DEF ProcessInv, ListInv
<1> QED BY <1>1, <1>3, <1>4, <1>5, <1>6, BootStep

(* KERNEL_GS_BASE is set for it. *)
LEMMA MSRsSet ==
    ASSUME ProcessInv, setProcessSpecificMSRs
    PROVE  ProcessInv'
<1>1. /\ pc = "setProcessSpecificMSRs" /\ pc \in BootPc
      /\ pc' = "context_switch" /\ pc' \in BootPc
      /\ pages' = pages \o Take("msr", 2) /\ kernelGs' = currentTask
      /\ pcbs' = pcbs /\ processID' = processID /\ pid' = pid
      /\ forkedIn' = forkedIn /\ currentTask' = currentTask /\ gs' = gs /\ rsp' = rsp
      /\ r15' = r15 /\ user' = user /\ ctx' = ctx /\ belowList' = belowList
  BY DEF setProcessSpecificMSRs, table, program, BootPc
<1>2. TableInv /\ Size = 2 /\ Size' = 2 /\ currentTask = 2
  BY <1>1 DEF ProcessInv, BootInv, Size
<1>3. pages' \in Seq(PageUses)
  BY <1>1, <1>2, PagesGrow, 2 \in Nat DEF TableInv, PageUses
<1>4. TableInv'
  BY <1>1, <1>2, <1>3 DEF TableInv
<1>5. BootInv'
  BY <1>1, <1>2 DEF ProcessInv, BootInv
<1>6. ~belowList'
  BY <1>1, <1>2 DEF ProcessInv, ListInv
<1> QED BY <1>1, <1>2, <1>4, <1>5, <1>6, BootStep

-----------------------------------------------------------------------------
(* The program runs                                                          *)

(* A step after boot does not owe BootInv. *)
LEMMA TaskStep ==
    ASSUME pc' \in TaskPc, TableInv', TaskInv', EdgeInv', CallInv', ChildInv', ListInv'
    PROVE  ProcessInv'
<1>1. pc' \notin BootPc
  BY PcsDiffer
<1>2. BootInv'
  BY <1>1 DEF BootInv
<1> QED BY <1>2 DEF ProcessInv

(* Off the edges of a system call there is nothing to show for them. *)
LEMMA OffEdge ==
    ASSUME pc' \notin EdgePc
    PROVE  EdgeInv'
BY DEF EdgeInv

(* A step that adds no PCB keeps TableInv if the table is in order. *)
LEMMA TableKeeps ==
    ASSUME TableInv, pc' \in TaskPc, Size' = Size, Table(pcbs', Size),
           pages' \in Seq(PageUses), processID' = processID, pid' = pid,
           forkedIn' = forkedIn, ctx' \in Whose
    PROVE  TableInv'
<1>1. Table(pcbs', Size')
  OBVIOUS
<1> QED BY <1>1 DEF TableInv

(* A step that leaves the children's PCBs alone keeps them ready. *)
LEMMA ChildKeeps ==
    ASSUME ChildInv, Size \in Nat, Size' = Size, Table(pcbs', Size),
           forkedIn' = forkedIn, \A i \in 3 .. Size : pcbs'[i] = pcbs[i]
    PROVE  ChildInv'
<1> SUFFICES ASSUME NEW i \in 1 .. Size, pcbs'[i].isChild, pcbs'[i].rsp # Junk
             PROVE  Ready(pcbs', i, forkedIn[i])
  BY DEF ChildInv
<1>1. i >= 3
  BY DEF Table
<1>2. pcbs'[i] = pcbs[i]
  <2>1. i \in 3 .. Size
    BY <1>1
  <2> QED BY <2>1
<1>3. Ready(pcbs, i, forkedIn[i])
  BY <1>2 DEF ChildInv
<1> QED BY <1>2, <1>3 DEF Ready, Uses

(* context_switch finds the frame of init_process2 and enters test3 with it. *)
LEMMA SwitchedTo ==
    ASSUME ProcessInv, context_switch
    PROVE  ProcessInv'
<1>1. /\ pc = "context_switch" /\ pc \in BootPc
      /\ pages' = pages /\ processID' = processID /\ pid' = pid
      /\ forkedIn' = forkedIn /\ currentTask' = currentTask
      /\ r15' = r15 /\ user' = user /\ ctx' = ctx /\ belowList' = belowList
  BY DEF context_switch, program, BootPc
<1>2. /\ TableInv /\ Size = 2 /\ Table(pcbs, 2) /\ currentTask = 2
      /\ kernelGs = 2 /\ gs = 0 /\ r15 = Junk /\ ctx = Nobody
      /\ user = [regs |-> Registers(Nobody), rsp |-> Zero]
      /\ pcbs[2].rsp = Slot(2, 485) /\ Uses(pcbs, 2, 485)
      /\ pcbs[2].kstack[500] = Word("test3", Nobody)
  BY <1>1 DEF ProcessInv, BootInv, TableInv
<1>3. PICK st \in Stacks : st = pcbs[2].kstack
  BY <1>2 DEF Table, Pcb
<1>4. pcbs[2] \in Pcb /\ pcbs[1] \in Pcb /\ ~pcbs[2].isChild
  BY <1>2 DEF Table
<1> DEFINE new == Switched(st, 485)
<1>5. new.top = 501 /\ new.address = Word("test3", Nobody) /\ new.address[1] = "test3"
  <2>1. Len(SwitchSaves) = 14
    BY SwitchSavesDiffer, 1 \in 1 .. 14
  <2> QED BY <1>2, <1>3, <2>1 DEF Switched, Word
<1>6. pcbs[2].rsp - Slot(2, 0) = 485
  BY <1>2, SlotIs
<1> DEFINE q == [pcbs EXCEPT ![1].rsp = BootStack]
           k == Pushed(st, 501, <<>>)
<1>7. Table(q, 2) /\ q[2] = pcbs[2]
  <2> DEFINE p == [pcbs[1] EXCEPT !.rsp = BootStack]
  <2>1. /\ p \in Pcb /\ p.pid = pcbs[1].pid /\ p.next = pcbs[1].next
        /\ p.isChild = pcbs[1].isChild /\ p.kstack = pcbs[1].kstack
    BY <1>4 DEF Pcb, BootStack, Junk
  <2>2. q = [pcbs EXCEPT ![1] = p]
    BY <1>2 DEF Table
  <2> HIDE DEF p, q
  <2>3. q \in [1 .. 2 -> Pcb] /\ q[1] = p /\ q[2] = pcbs[2]
    BY <1>2, <2>1, <2>2 DEF Table
  <2> QED BY <1>2, <2>1, <2>3 DEF Table
<1>8. pcbs' = [q EXCEPT ![2].kstack = k]
  <2>1. pcbs' = [pcbs EXCEPT ![1].rsp = BootStack, ![2].kstack = Pushed(@, 501, <<>>)]
    BY <1>2, <1>3, <1>5, <1>6, ZenonT(30) DEF context_switch
  <2>2. [q EXCEPT ![2].kstack = Pushed(@, 501, <<>>)] = [q EXCEPT ![2].kstack = k]
    BY <1>3, <1>7
  <2> QED BY <2>1, <2>2
<1>9. rsp' = Slot(2, 501) /\ gs' = 0 /\ kernelGs' = 2 /\ pc' = "test3"
  BY <1>2, <1>3, <1>4, <1>5, <1>6 DEF context_switch
<1> HIDE DEF q, new
<1>10. k \in Stacks /\ DOMAIN k = 501 .. 500
  <2> DEFINE none == <<>>
  <2>1. Len(none) = 0
    OBVIOUS
  <2>2. DOMAIN st = 485 .. 500
    BY <1>2, <1>3 DEF Uses
  <2> HIDE DEF none
  <2>3. CanPush(st, 485, 501, none, 0)
    BY <2>1, <2>2 DEF CanPush
  <2>4. IsPush(Pushed(st, 501, none), st, 501, none, 0)
    BY <2>3, Pushes
  <2>5. Pushed(st, 501, none) \in Stacks /\ DOMAIN Pushed(st, 501, none) = 501 - 0 .. 500
    BY <2>4 DEF IsPush
  <2> QED BY <2>5 DEF none
<1> HIDE DEF k
<1>11. Stores(pcbs', q, 2, k, q[2].rsp, q[2].rsp2)
  BY <1>8 DEF Stores
<1>12. Table(pcbs', 2) /\ pcbs'[2].kstack = k
  <2>1. q[2].rsp \in Int /\ q[2].rsp2 \in Rsp2s
    BY <1>4, <1>7 DEF Pcb, Rsp2s
  <2> QED BY <1>7, <1>10, <1>11, <2>1, StoredIs, 2 \in 2 .. 2, 2 \in Nat
<1>13. Size' = 2
  BY <1>12, TableSize DEF Size
<1>14. pc' \in TaskPc /\ pc' \notin SysPc
  BY <1>9 DEF TaskPc, SysPc
<1>15. TableInv'
  BY <1>1, <1>2, <1>12, <1>13, <1>14, TableKeeps DEF TableInv
<1>16. TaskInv'
  <2>1. Level' = 501
    BY <1>9 DEF Level
  <2>2. Uses(pcbs', 2, 501)
    BY <1>10, <1>12 DEF Uses
  <2> QED BY <1>1, <1>2, <1>9, <1>13, <1>14, <2>1, <2>2 DEF TaskInv
<1>17. CallInv' /\ ListInv'
  BY <1>1, <1>2, <1>13, <1>14 DEF CallInv, ListInv, ProcessInv
<1>18. ChildInv'
  BY <1>1, <1>2, <1>12, <1>13, ChildKeeps DEF ProcessInv
<1>19. EdgeInv'
  <2>1. pc' \notin EdgePc
    BY <1>9 DEF EdgePc
  <2> QED BY <2>1, OffEdge
<1> QED BY <1>14, <1>15, <1>16, <1>17, <1>18, <1>19, TaskStep

(* test3 pushes its frame. *)
LEMMA ProgramLoaded ==
    ASSUME ProcessInv, test3
    PROVE  ProcessInv'
<1>1. /\ pc = "test3" /\ pc \in TaskPc /\ pc \notin SysPc
      /\ pages' = pages \o Take("table", ProgramPages)
      /\ rsp' = rsp - TestWords /\ pc' = "switchToRing3"
      /\ processID' = processID /\ pid' = pid
      /\ forkedIn' = forkedIn /\ currentTask' = currentTask
      /\ gs' = gs /\ kernelGs' = kernelGs
      /\ r15' = r15 /\ user' = user /\ ctx' = ctx /\ belowList' = belowList
  BY DEF test3, program, TaskPc, SysPc
<1>2. /\ TableInv /\ Table(pcbs, Size) /\ currentTask = 2
      /\ kernelGs = 2 /\ gs = 0 /\ r15 = Junk /\ ctx = Nobody
      /\ user = [regs |-> Registers(Nobody), rsp |-> Zero]
      /\ rsp = Slot(2, 501) /\ Uses(pcbs, 2, 501)
  BY <1>1 DEF ProcessInv, TaskInv, TableInv, Level
<1>3. PICK n \in Nat : n = Size /\ n >= 2
  BY <1>1 DEF ProcessInv, TaskInv, TableInv
<1>4. 2 \in 1 .. n /\ 2 \in 2 .. n
  BY <1>3
<1>5. pcbs \in [1 .. n -> Pcb] /\ pcbs[2] \in Pcb
  BY <1>2, <1>3, <1>4 DEF Table
<1>6. PICK st \in Stacks : st = pcbs[2].kstack
  BY <1>5 DEF Pcb
<1> DEFINE ws == [j \in 1 .. TestWords |-> Word("test3", Nobody)]
           k == Pushed(st, 501, ws)
<1>7. k \in Stacks /\ DOMAIN k = U .. 500
  <2>1. ws \in [1 .. TestWords -> Words] /\ TestWords \in Nat
    BY StackWordsAre, Sizes DEF Whose
  <2>2. Len(ws) = TestWords /\ \A j \in 1 .. TestWords : ws[j] \in Words
    BY <2>1, SeqIs
  <2> HIDE DEF ws
  <2>3. CanPush(st, 501, 501, ws, TestWords)
    <3>1. DOMAIN st = 501 .. 500
      BY <1>2, <1>6 DEF Uses
    <3>2. 501 \in 0 .. 501 /\ 501 \in 501 .. 501 /\ TestWords \in 0 .. 501
      BY Sizes
    <3> QED BY <1>6, <2>2, <3>1, <3>2 DEF CanPush
  <2>4. IsPush(k, st, 501, ws, TestWords)
    BY <2>3, Pushes
  <2> HIDE DEF k
  <2> QED BY <2>4 DEF IsPush, U
<1>8. Stores(pcbs', pcbs, 2, k, pcbs[2].rsp, Word("rsp", Nobody))
  <2>1. rsp - Slot(2, 0) = 501
    BY <1>2, SlotIs
  <2> QED BY <1>2, <1>6, <2>1, ZenonT(30) DEF test3, Stores
<1> HIDE DEF k
<1>9. /\ Table(pcbs', n) /\ pcbs'[2].kstack = k
      /\ pcbs'[2].rsp2 = Word("rsp", Nobody)
      /\ \A j \in 1 .. n : j # 2 => pcbs'[j] = pcbs[j]
  <2>1. pcbs[2].rsp \in Int /\ Word("rsp", Nobody) \in Rsp2s
    BY <1>5 DEF Pcb, Rsp2s, Word, Whose
  <2> QED BY <1>2, <1>3, <1>4, <1>7, <1>8, <2>1, StoredIs
<1>10. Size' = Size
  BY <1>3, <1>9, TableSize DEF Size
<1>11. pc' \in TaskPc /\ pc' \notin SysPc
  BY <1>1 DEF TaskPc, SysPc
<1>12. pages' \in Seq(PageUses)
  BY <1>1, <1>2, PagesGrow, Sizes DEF TableInv, PageUses
<1>13. TableInv'
  BY <1>1, <1>2, <1>3, <1>9, <1>10, <1>11, <1>12, TableKeeps DEF TableInv
<1>14. TaskInv'
  <2>1. Level' = U
    BY <1>1 DEF Level
  <2>2. Uses(pcbs', 2, U)
    BY <1>7, <1>9 DEF Uses
  <2>3. rsp' = Slot(2, U)
    BY <1>1, <1>2, SlotIs, Sizes DEF U
  <2> QED BY <1>1, <1>2, <1>3, <1>9, <1>10, <1>11, <2>1, <2>2, <2>3 DEF TaskInv
<1>15. CallInv' /\ ListInv'
  BY <1>1, <1>10, <1>11 DEF CallInv, ListInv, ProcessInv
<1>16. ChildInv'
  <2>1. \A i \in 3 .. n : pcbs'[i] = pcbs[i]
    BY <1>9
  <2> QED BY <1>1, <1>3, <1>9, <1>10, <2>1, ChildKeeps DEF ProcessInv
<1>17. EdgeInv'
  <2>1. pc' \notin EdgePc
    BY <1>1 DEF EdgePc
  <2> QED BY <2>1, OffEdge
<1> QED BY <1>11, <1>13, <1>14, <1>15, <1>16, <1>17, TaskStep

(* switchToRing3 stores the stack level that system calls begin at. *)
LEMMA ProgramEntered ==
    ASSUME ProcessInv, switchToRing3
    PROVE  ProcessInv'
<1>1. /\ pc = "switchToRing3" /\ pc \in TaskPc /\ pc \notin SysPc
      /\ pages' = pages /\ rsp' = Junk /\ pc' = "user"
      /\ user' = [user EXCEPT !.rsp = pcbs[currentTask].rsp2]
      /\ processID' = processID /\ pid' = pid
      /\ forkedIn' = forkedIn /\ currentTask' = currentTask
      /\ gs' = gs /\ kernelGs' = kernelGs
      /\ r15' = r15 /\ ctx' = ctx /\ belowList' = belowList
  BY DEF switchToRing3, TaskPc, SysPc
<1>2. /\ TableInv /\ Table(pcbs, Size) /\ currentTask = 2
      /\ kernelGs = 2 /\ gs = 0 /\ r15 = Junk /\ ctx = Nobody
      /\ user = [regs |-> Registers(Nobody), rsp |-> Zero]
      /\ rsp = Slot(2, U) /\ Uses(pcbs, 2, U)
      /\ pcbs[2].rsp2 = Word("rsp", Nobody)
  BY <1>1 DEF ProcessInv, TaskInv, TableInv, Level
<1>3. PICK n \in Nat : n = Size /\ n >= 2
  BY <1>1 DEF ProcessInv, TaskInv, TableInv
<1>4. 2 \in 1 .. n /\ 2 \in 2 .. n
  BY <1>3
<1>5. pcbs \in [1 .. n -> Pcb] /\ pcbs[2] \in Pcb
  BY <1>2, <1>3, <1>4 DEF Table
<1>6. PICK st \in Stacks : st = pcbs[2].kstack
  BY <1>5 DEF Pcb
<1>7. Stores(pcbs', pcbs, 2, st, Slot(2, U), pcbs[2].rsp2)
  BY <1>2, <1>6 DEF switchToRing3, Stores
<1>8. /\ Table(pcbs', n) /\ pcbs'[2].kstack = st /\ pcbs'[2].rsp = Slot(2, U)
      /\ \A j \in 1 .. n : j # 2 => pcbs'[j] = pcbs[j]
  <2>1. Slot(2, U) \in Int /\ pcbs[2].rsp2 \in Rsp2s
    <3>1. U \in Int /\ 2 \in Nat
      BY Sizes
    <3>2. Slot(2, U) \in Int
      BY <3>1, SlotIs
    <3> QED BY <1>5, <3>2 DEF Pcb, Rsp2s
  <2> QED BY <1>2, <1>3, <1>4, <1>7, <2>1, StoredIs
<1>9. Size' = Size
  BY <1>3, <1>8, TableSize DEF Size
<1>10. pc' \in TaskPc /\ pc' \notin SysPc
  BY <1>1 DEF TaskPc, SysPc
<1>11. TableInv'
  BY <1>1, <1>2, <1>3, <1>8, <1>9, <1>10, TableKeeps DEF TableInv
<1>12. TaskInv'
  <2>1. Level' = U
    BY <1>1 DEF Level
  <2>2. Uses(pcbs', 2, U)
    BY <1>2, <1>6, <1>8 DEF Uses
  <2>3. user' = [regs |-> Registers(Nobody), rsp |-> Word("rsp", Nobody)]
    BY <1>1, <1>2
  <2> QED BY <1>1, <1>2, <1>3, <1>8, <1>9, <1>10, <2>1, <2>2, <2>3 DEF TaskInv
<1>13. CallInv' /\ ListInv'
  BY <1>1, <1>9, <1>10 DEF CallInv, ListInv, ProcessInv
<1>14. ChildInv'
  <2>1. \A i \in 3 .. n : pcbs'[i] = pcbs[i]
    BY <1>8
  <2> QED BY <1>1, <1>3, <1>8, <1>9, <2>1, ChildKeeps DEF ProcessInv
<1>15. EdgeInv'
  <2>1. pc' \notin EdgePc
    BY <1>1 DEF EdgePc
  <2> QED BY <2>1, OffEdge
<1> QED BY <1>10, <1>11, <1>12, <1>13, <1>14, <1>15, TaskStep

(* What is known at the edges of a system call. *)
LEMMA AtEdge ==
    ASSUME ProcessInv, pc \in EdgePc
    PROVE  /\ pc \in TaskPc /\ pc \notin SysPc
           /\ TableInv /\ Table(pcbs, Size) /\ Size \in Nat /\ Size >= 2
           /\ currentTask = 2 /\ gs = 2 /\ kernelGs = 0 /\ r15 = Junk
           /\ Uses(pcbs, 2, U) /\ pcbs[2].rsp = Slot(2, U) /\ ctx \in Whose
           /\ user = [regs |-> Registers(ctx), rsp |-> Word("rsp", ctx)]
<1>1. pc \in TaskPc /\ pc \notin SysPc /\ pc \notin {"test3", "switchToRing3"}
  BY DEF TaskPc, SysPc, EdgePc
<1>2. Level = U
  BY <1>1 DEF Level
<1> QED BY <1>1, <1>2 DEF ProcessInv, TableInv, TaskInv, EdgeInv

(* A step between the edges, or from one to the program or back, that stores *)
(* at most into the program's PCB and leaves its stack alone.                *)
LEMMA EdgeStep ==
    ASSUME ProcessInv, Table(pcbs, Size), Size \in Nat, Size >= 2,
           Uses(pcbs, 2, U), pc' \in EdgePc \cup {"user"},
           NEW r \in Int, NEW w \in Rsp2s, pcbs[2].kstack \in Stacks,
           Stores(pcbs', pcbs, 2, pcbs[2].kstack, r, w),
           r = Slot(2, U), currentTask' = 2, ctx' \in Whose, r15' = Junk,
           pc' = "user" => gs' = 0 /\ kernelGs' = 2 /\ rsp' = Junk,
           user' = [regs |-> Registers(ctx'), rsp |-> Word("rsp", ctx')],
           UNCHANGED <<pages, processID, pid, forkedIn, belowList>>
    PROVE  /\ pc' \in TaskPc /\ TableInv' /\ TaskInv' /\ CallInv' /\ ChildInv' /\ ListInv'
           /\ Size' = Size /\ pcbs'[2].rsp2 = w
<1>1. PICK n \in Nat : n = Size /\ n >= 2
  OBVIOUS
<1>2. 2 \in 2 .. n /\ 2 \in 1 .. n /\ Table(pcbs, n)
  BY <1>1
<1>3. PICK k \in Stacks : k = pcbs[2].kstack
  OBVIOUS
<1>4. /\ Table(pcbs', n) /\ pcbs'[2].kstack = k /\ pcbs'[2].rsp = r /\ pcbs'[2].rsp2 = w
      /\ \A j \in 1 .. n : j # 2 => pcbs'[j] = pcbs[j]
  BY <1>2, <1>3, StoredIs
<1>5. Size' = Size
  BY <1>1, <1>4, TableSize DEF Size
<1>6. pc' \in TaskPc /\ pc' \notin SysPc /\ pc' \notin {"test3", "switchToRing3"}
  BY DEF TaskPc, SysPc, EdgePc
<1>7. TableInv /\ ChildInv /\ ListInv
  BY DEF ProcessInv
<1>8. TableInv'
  BY <1>1, <1>4, <1>5, <1>6, <1>7, TableKeeps DEF TableInv
<1>9. TaskInv'
  <2>1. Level' = U
    BY <1>6 DEF Level
  <2>2. Uses(pcbs', 2, U) /\ pcbs'[2].rsp = Slot(2, U)
    BY <1>3, <1>4 DEF Uses
  <2>3. Size' >= 2
    BY <1>5
  <2> QED BY <1>6, <2>1, <2>2, <2>3 DEF TaskInv
<1>10. CallInv'
  BY <1>6 DEF CallInv
<1>11. ListInv'
  BY <1>5, <1>7 DEF ListInv
<1>12. ChildInv'
  <2>1. \A i \in 3 .. n : pcbs'[i] = pcbs[i]
    BY <1>4
  <2> QED BY <1>1, <1>4, <1>5, <1>7, <2>1, ChildKeeps
<1> QED BY <1>4, <1>5, <1>6, <1>8, <1>9, <1>10, <1>11, <1>12

(* A system call finds the program's PCB and keeps the stack pointer there. *)
LEMMA CallEntered ==
    ASSUME ProcessInv, NEW c \in Contexts, NEW f \in {"other", "fork", "write"}, NEW l,
           f = "write" => l \in WriteWords, SyscallEntry(c, f, l)
    PROVE  ProcessInv'
<1>1. /\ pc = "user" /\ pc \in TaskPc /\ pc \notin SysPc
      /\ pages' = pages /\ pc' = "entering" /\ pc' \in EdgePc
      /\ ctx' = c /\ call' = f /\ length' = l
      /\ f = "fork" => Size < 2 + MaxForks
      /\ gs' = kernelGs /\ kernelGs' = gs /\ rsp' = rsp /\ r15' = r15
      /\ user' = [regs |-> Registers(c), rsp |-> Word("rsp", c)]
      /\ processID' = processID /\ pid' = pid
      /\ forkedIn' = forkedIn /\ currentTask' = currentTask
      /\ belowList' = belowList
  BY DEF SyscallEntry, TaskPc, SysPc, EdgePc, Size
<1>2. /\ TableInv /\ Table(pcbs, Size) /\ currentTask = 2 /\ Size \in Nat /\ Size >= 2
      /\ kernelGs = 2 /\ gs = 0 /\ Uses(pcbs, 2, U) /\ pcbs[2].rsp = Slot(2, U)
      /\ rsp = Junk /\ r15 = Junk
  BY <1>1 DEF ProcessInv, TaskInv, TableInv, Level
<1>3. pcbs[2] \in Pcb /\ c \in Whose
  BY <1>2 DEF Table, Whose
<1>4. pcbs[2].rsp \in Int /\ pcbs[2].kstack \in Stacks /\ Word("rsp", c) \in Rsp2s
  BY <1>3 DEF Pcb, Rsp2s, Word
<1>5. Stores(pcbs', pcbs, 2, pcbs[2].kstack, pcbs[2].rsp, Word("rsp", c))
  BY <1>2 DEF SyscallEntry, Stores
<1>6. /\ pc' \in TaskPc /\ TableInv' /\ TaskInv' /\ CallInv' /\ ChildInv' /\ ListInv'
      /\ Size' = Size /\ pcbs'[2].rsp2 = Word("rsp", c)
  BY <1>1, <1>2, <1>3, <1>4, <1>5, EdgeStep
<1>7. EdgeInv'
  BY <1>1, <1>2, <1>6 DEF EdgeInv
<1> QED BY <1>6, <1>7, TaskStep

(* The level that switchToRing3 stored is loaded. *)
LEMMA RspLoaded ==
    ASSUME ProcessInv, LoadRsp
    PROVE  ProcessInv'
<1>1. /\ pc = "entering" /\ pc \in EdgePc /\ pc' = "saving" /\ pc' \in EdgePc
      /\ pcbs' = pcbs /\ pages' = pages /\ processID' = processID /\ pid' = pid
      /\ forkedIn' = forkedIn /\ currentTask' = currentTask
      /\ ctx' = ctx /\ call' = call /\ length' = length /\ user' = user
      /\ gs' = gs /\ kernelGs' = kernelGs /\ rsp' = pcbs[gs].rsp /\ r15' = r15
      /\ belowList' = belowList
  BY DEF LoadRsp, table, program, EdgePc
<1>2. /\ TableInv /\ Table(pcbs, Size) /\ Size \in Nat /\ Size >= 2
      /\ currentTask = 2 /\ gs = 2 /\ kernelGs = 0 /\ r15 = Junk
      /\ Uses(pcbs, 2, U) /\ pcbs[2].rsp = Slot(2, U) /\ ctx \in Whose
      /\ user = [regs |-> Registers(ctx), rsp |-> Word("rsp", ctx)]
  BY <1>1, AtEdge
<1>3. pcbs[2] \in Pcb
  BY <1>2 DEF Table
<1>4. pcbs[2].rsp \in Int /\ pcbs[2].kstack \in Stacks /\ pcbs[2].rsp2 \in Rsp2s
  BY <1>3 DEF Pcb, Rsp2s
<1>5. Stores(pcbs', pcbs, 2, pcbs[2].kstack, pcbs[2].rsp, pcbs[2].rsp2)
  <2>1. [pcbs EXCEPT ![2].kstack = pcbs[2].kstack] = pcbs
    BY <1>2, <1>3 DEF Table, Pcb
  <2> QED BY <1>1, <2>1 DEF Stores
<1>6. /\ pc' \in TaskPc /\ TableInv' /\ TaskInv' /\ CallInv' /\ ChildInv' /\ ListInv'
      /\ Size' = Size /\ pcbs'[2].rsp2 = pcbs[2].rsp2
  BY <1>1, <1>2, <1>4, <1>5, EdgeStep
<1>7. EdgeInv'
  BY <1>1, <1>2, <1>6 DEF EdgeInv, ProcessInv
<1> QED BY <1>6, <1>7, TaskStep

(* The registers are saved on the program's kernel stack. *)
LEMMA RegistersPushed ==
    ASSUME ProcessInv, PushRegisters
    PROVE  ProcessInv'
<1>1. /\ pc = "saving" /\ pc \in EdgePc /\ pc' = "body" /\ pc' \in SysPc /\ pc' \in TaskPc
      /\ pages' = pages /\ processID' = processID /\ pid' = pid
      /\ forkedIn' = forkedIn /\ currentTask' = currentTask
      /\ ctx' = ctx /\ call' = call /\ length' = length /\ user' = user
      /\ gs' = gs /\ kernelGs' = kernelGs /\ belowList' = belowList
  BY DEF PushRegisters, program, SysPc, TaskPc, EdgePc
<1>2. /\ TableInv /\ Table(pcbs, Size) /\ currentTask = 2 /\ gs = 2 /\ kernelGs = 0
      /\ Uses(pcbs, 2, U) /\ pcbs[2].rsp = Slot(2, U) /\ ctx \in Whose
      /\ user = [regs |-> Registers(ctx), rsp |-> Word("rsp", ctx)]
  BY <1>1, AtEdge
<1>3. PICK n \in Nat : n = Size /\ n >= 2
  BY <1>1, AtEdge
<1>4. 2 \in 1 .. n /\ 2 \in 2 .. n
  BY <1>3
<1>5. pcbs \in [1 .. n -> Pcb] /\ pcbs[2] \in Pcb
  BY <1>2, <1>3, <1>4 DEF Table
<1>6. PICK st \in Stacks : st = pcbs[2].kstack
  BY <1>5 DEF Pcb
<1>7. /\ rsp = Slot(2, U) /\ pcbs[2].rsp2 = Word("rsp", ctx)
      /\ call = "write" => length \in WriteWords
      /\ call = "fork" => Size < 2 + MaxForks
  BY <1>1 DEF ProcessInv, EdgeInv
<1> DEFINE ws == Saved(ctx)
           k == Pushed(st, U, ws)
<1>8. /\ k \in Stacks /\ DOMAIN k = S .. 500
      /\ \A j \in 1 .. 13 : k[U - j] = Word(SyscallSaves[j], ctx)
  <2>1. Len(ws) = 13 /\ \A j \in 1 .. 13 : ws[j] = Word(SyscallSaves[j], ctx) /\ ws[j] \in Words
    BY <1>2, SavedIs
  <2> HIDE DEF ws
  <2>2. CanPush(st, U, U, ws, 13)
    BY <1>2, <1>6, <2>1, Sizes DEF Uses, CanPush
  <2>3. IsPush(k, st, U, ws, 13)
    BY <2>2, Pushes
  <2> HIDE DEF k
  <2> QED BY <2>1, <2>3 DEF IsPush, S
<1>9. rsp - Slot(2, 0) = U /\ rsp - 13 = Slot(2, S) /\ Len(SyscallSaves) = 13
  <2>1. Len(SyscallSaves) = 13
    BY SyscallSavesDiffer, 1 \in 1 .. 13
  <2>2. U \in Int /\ 2 \in Nat /\ S = U - 13 /\ 13 \in Int
    BY Sizes DEF S
  <2>3. Slot(2, U) - Slot(2, 0) = U
    BY <2>2, SlotIs
  <2>4. Slot(2, U) - 13 = Slot(2, U - 13)
    BY <2>2, SlotIs
  <2> QED BY <1>7, <2>1, <2>2, <2>3, <2>4
<1>10. Stores(pcbs', pcbs, 2, k, pcbs[2].rsp, pcbs[2].rsp2)
  BY <1>2, <1>6, <1>9 DEF PushRegisters, Stores
<1>11. rsp' = Slot(2, S) /\ r15' = Slot(2, S)
  BY <1>9 DEF PushRegisters
<1> HIDE DEF k
<1>12. /\ Table(pcbs', n) /\ pcbs'[2].kstack = k /\ pcbs'[2].rsp = Slot(2, U)
       /\ pcbs'[2].rsp2 = Word("rsp", ctx)
       /\ \A j \in 1 .. n : j # 2 => pcbs'[j] = pcbs[j]
  <2>1. pcbs[2].rsp \in Int /\ pcbs[2].rsp2 \in Rsp2s /\ k \in Stacks /\ Table(pcbs, n)
    BY <1>2, <1>3, <1>5, <1>8 DEF Pcb, Rsp2s
  <2>2. /\ Table(pcbs', n) /\ pcbs'[2].kstack = k /\ pcbs'[2].rsp = pcbs[2].rsp
        /\ pcbs'[2].rsp2 = pcbs[2].rsp2
        /\ \A j \in 1 .. n : j # 2 => pcbs'[j] = pcbs[j]
    BY <1>4, <1>10, <2>1, StoredIs
  <2> QED BY <1>2, <1>7, <2>2
<1>13. Size' = Size
  BY <1>3, <1>12, TableSize DEF Size
<1>14. TableInv'
  BY <1>1, <1>2, <1>3, <1>12, <1>13, TableKeeps DEF TableInv
<1>15. TaskInv'
  <2>1. Level' = S
    BY <1>1 DEF Level, EdgePc
  <2>2. Uses(pcbs', 2, S)
    BY <1>8, <1>12 DEF Uses
  <2> QED BY <1>1, <1>2, <1>3, <1>12, <1>13, <2>1, <2>2 DEF TaskInv
<1>16. CallInv'
  BY <1>1, <1>2, <1>3, <1>7, <1>8, <1>11, <1>12, <1>13 DEF CallInv
<1>17. ListInv'
  BY <1>1, <1>13 DEF ListInv, ProcessInv
<1>18. ChildInv'
  <2>1. \A i \in 3 .. n : pcbs'[i] = pcbs[i]
    BY <1>12
  <2> QED BY <1>1, <1>3, <1>12, <1>13, <2>1, ChildKeeps DEF ProcessInv
<1>19. EdgeInv'
  BY <1>1, PcsDiffer, OffEdge
<1> QED BY <1>1, <1>14, <1>15, <1>16, <1>17, <1>18, <1>19, TaskStep

(* What is known in a system call. *)
LEMMA InCall ==
    ASSUME ProcessInv, pc \in SysPc
    PROVE  /\ pc \in TaskPc /\ TableInv /\ Table(pcbs, Size) /\ Size \in Nat /\ Size >= 2
           /\ currentTask = 2 /\ gs = 2 /\ kernelGs = 0 /\ r15 = Slot(2, S)
           /\ Uses(pcbs, 2, S) /\ pcbs[2].rsp = Slot(2, U)
           /\ pcbs[2].rsp2 = Word("rsp", ctx) /\ ctx \in Whose
           /\ \A j \in 1 .. 13 : pcbs[2].kstack[U - j] = Word(SyscallSaves[j], ctx)
           /\ user = [regs |-> Registers(ctx), rsp |-> Word("rsp", ctx)]
<1>1. pc \in TaskPc /\ pc \notin {"test3", "switchToRing3", "user"} /\ pc \notin EdgePc
  BY DEF TaskPc, SysPc, EdgePc
<1>2. Level = S
  BY <1>1 DEF Level
<1> QED BY <1>1, <1>2 DEF ProcessInv, TableInv, TaskInv, CallInv

(* A step within a system call that leaves the PCBs from the program's on    *)
(* alone.                                                                    *)
LEMMA CallStep ==
    ASSUME ProcessInv, pc \in SysPc, pc' \in SysPc,
           Table(pcbs', Size), \A i \in 2 .. Size : pcbs'[i] = pcbs[i],
           pages' = pages, processID' = processID, pid' = pid, forkedIn' = forkedIn,
           ctx' = ctx, currentTask' = currentTask, gs' = gs, kernelGs' = kernelGs,
           r15' = r15, user' = user, ListInv'
    PROVE  /\ TableInv' /\ TaskInv' /\ EdgeInv' /\ ChildInv' /\ Size' = Size
           /\ pcbs'[2] = pcbs[2]
<1>1. /\ pc \in TaskPc /\ TableInv /\ Table(pcbs, Size) /\ Size \in Nat /\ Size >= 2
      /\ currentTask = 2 /\ gs = 2 /\ kernelGs = 0 /\ r15 = Slot(2, S)
      /\ Uses(pcbs, 2, S) /\ pcbs[2].rsp = Slot(2, U)
      /\ pcbs[2].rsp2 = Word("rsp", ctx) /\ ctx \in Whose
      /\ user = [regs |-> Registers(ctx), rsp |-> Word("rsp", ctx)]
  BY InCall
<1>2. PICK n \in Nat : n = Size /\ n >= 2
  BY <1>1
<1>3. Size' = Size
  BY <1>2, TableSize DEF Size
<1>4. pc' \in TaskPc /\ pc' \notin {"test3", "switchToRing3", "user"} /\ pc' \notin EdgePc
  BY DEF TaskPc, SysPc, EdgePc
<1>5. pcbs'[2] = pcbs[2]
  BY <1>2
<1>6. TableInv'
  BY <1>1, <1>3, <1>4, TableKeeps DEF TableInv
<1>7. TaskInv'
  <2>1. Level' = S
    BY <1>4 DEF Level
  <2>2. Uses(pcbs', 2, S)
    BY <1>1, <1>5 DEF Uses
  <2> QED BY <1>1, <1>2, <1>3, <1>4, <1>5, <2>1, <2>2 DEF TaskInv
<1>8. ChildInv'
  <2>1. \A i \in 3 .. n : pcbs'[i] = pcbs[i]
    BY <1>2
  <2> QED BY <1>1, <1>2, <1>3, <2>1, ChildKeeps DEF ProcessInv
<1>9. EdgeInv'
  BY <1>4, OffEdge
<1> QED BY <1>3, <1>5, <1>6, <1>7, <1>8, <1>9

(* It pops the registers it saved, and ends at the level it began at. *)
LEMMA RegistersPopped ==
    ASSUME ProcessInv, PopRegisters
    PROVE  ProcessInv'
<1>1. /\ pc = "leave" /\ pc \in SysPc /\ pc' = "restored" /\ pc' \in EdgePc
      /\ pages' = pages /\ rsp' = rsp + Len(SyscallSaves) /\ r15' = Junk
      /\ gs' = gs /\ kernelGs' = kernelGs
      /\ processID' = processID /\ pid' = pid
      /\ forkedIn' = forkedIn /\ currentTask' = currentTask
      /\ ctx' = ctx /\ belowList' = belowList
  BY DEF PopRegisters, SysPc, EdgePc
<1>2. /\ pc \in TaskPc /\ TableInv /\ Table(pcbs, Size) /\ Size \in Nat /\ Size >= 2
      /\ currentTask = 2 /\ gs = 2 /\ kernelGs = 0
      /\ Uses(pcbs, 2, S) /\ pcbs[2].rsp = Slot(2, U)
      /\ pcbs[2].rsp2 = Word("rsp", ctx) /\ ctx \in Whose
      /\ \A j \in 1 .. 13 : pcbs[2].kstack[U - j] = Word(SyscallSaves[j], ctx)
      /\ user = [regs |-> Registers(ctx), rsp |-> Word("rsp", ctx)]
  BY <1>1, InCall
<1>3. rsp = Slot(2, S)
  BY <1>1 DEF ProcessInv, CallInv
<1>4. PICK n \in Nat : n = Size /\ n >= 2
  BY <1>2
<1>5. 2 \in 1 .. n /\ 2 \in 2 .. n
  BY <1>4
<1>6. pcbs \in [1 .. n -> Pcb] /\ pcbs[2] \in Pcb
  BY <1>2, <1>4, <1>5 DEF Table
<1>7. PICK st \in Stacks : st = pcbs[2].kstack
  BY <1>6 DEF Pcb
<1>8. /\ rsp - Slot(2, 0) = S /\ rsp + 13 = Slot(2, U) /\ S + 13 = U
      /\ Slot(2, U) \in Int /\ Len(SyscallSaves) = 13
  <2>1. Len(SyscallSaves) = 13
    BY SyscallSavesDiffer, 1 \in 1 .. 13
  <2>2. S \in Int /\ U \in Int /\ 2 \in Nat /\ U = S + 13 /\ 13 \in Int
    BY Sizes
  <2>3. Slot(2, S) - Slot(2, 0) = S
    BY <2>2, SlotIs
  <2>4. Slot(2, S) + 13 = Slot(2, S + 13)
    BY <2>2, SlotIs
  <2>5. Slot(2, U) \in Int
    BY <2>2, SlotIs
  <2> QED BY <1>3, <2>1, <2>2, <2>3, <2>4, <2>5
<1> DEFINE k == Pushed(st, U, <<>>)
<1>9. Stores(pcbs', pcbs, 2, k, pcbs[2].rsp, pcbs[2].rsp2)
  BY <1>2, <1>6, <1>7, <1>8 DEF PopRegisters, Stores
<1>10. user' = [regs |-> Registers(ctx), rsp |-> Word("rsp", ctx)]
  <2>1. \A j \in 1 .. 13 : U - j = S + 13 - j
    BY Sizes
  <2>2. \A j \in 1 .. 13 : st[S + 13 - j] = Word(SyscallSaves[j], ctx)
    BY <1>2, <1>7, <2>1
  <2>3. Popped(st, S) = Registers(ctx)
    BY <1>2, <2>2, PoppedIs, Sizes
  <2> QED BY <1>2, <1>7, <1>8, <2>3 DEF PopRegisters
<1>11. k \in Stacks /\ DOMAIN k = U .. 500
  <2> DEFINE none == <<>>
  <2>1. Len(none) = 0
    OBVIOUS
  <2>2. DOMAIN st = S .. 500
    BY <1>2, <1>7 DEF Uses
  <2> HIDE DEF none
  <2>3. CanPush(st, S, U, none, 0)
    BY <2>1, <2>2, Sizes DEF CanPush
  <2>4. IsPush(Pushed(st, U, none), st, U, none, 0)
    BY <2>3, Pushes
  <2>5. Pushed(st, U, none) \in Stacks /\ DOMAIN Pushed(st, U, none) = U - 0 .. 500
    BY <2>4 DEF IsPush
  <2>6. U - 0 = U
    BY Sizes
  <2> QED BY <2>5, <2>6 DEF none
<1> HIDE DEF k
<1>12. /\ Table(pcbs', n) /\ pcbs'[2].kstack = k /\ pcbs'[2].rsp = Slot(2, U)
       /\ pcbs'[2].rsp2 = pcbs[2].rsp2
       /\ \A j \in 1 .. n : j # 2 => pcbs'[j] = pcbs[j]
  <2>1. pcbs[2].rsp2 \in Rsp2s
    BY <1>6 DEF Pcb, Rsp2s
  <2> QED BY <1>2, <1>4, <1>5, <1>8, <1>9, <1>11, <2>1, StoredIs
<1>13. Size' = Size
  BY <1>4, <1>12, TableSize DEF Size
<1>14. pc' \in TaskPc /\ pc' \notin SysPc
  BY <1>1, PcsDiffer
<1>15. TableInv'
  BY <1>1, <1>2, <1>4, <1>12, <1>13, <1>14, TableKeeps DEF TableInv
<1>16. TaskInv'
  <2>1. Level' = U
    BY <1>1 DEF Level, EdgePc
  <2>2. Uses(pcbs', 2, U)
    BY <1>11, <1>12 DEF Uses
  <2> QED BY <1>1, <1>2, <1>4, <1>10, <1>12, <1>13, <1>14, <2>1, <2>2 DEF TaskInv
<1>17. CallInv' /\ ListInv'
  BY <1>1, <1>13, <1>14 DEF CallInv, ListInv, ProcessInv
<1>18. ChildInv'
  <2>1. \A i \in 3 .. n : pcbs'[i] = pcbs[i]
    BY <1>12
  <2> QED BY <1>1, <1>4, <1>12, <1>13, <2>1, ChildKeeps DEF ProcessInv
<1>19. EdgeInv'
  BY <1>1, <1>2, <1>3, <1>8, <1>12 DEF EdgeInv
<1> QED BY <1>14, <1>15, <1>16, <1>17, <1>18, <1>19, TaskStep

(* The stack pointers change places. *)
LEMMA RspRestored ==
    ASSUME ProcessInv, RestoreRsp
    PROVE  ProcessInv'
<1>1. /\ pc = "restored" /\ pc \in EdgePc /\ pc' = "leaving" /\ pc' \in EdgePc
      /\ pages' = pages /\ processID' = processID /\ pid' = pid
      /\ forkedIn' = forkedIn /\ currentTask' = currentTask
      /\ ctx' = ctx /\ gs' = gs /\ kernelGs' = kernelGs /\ rsp' = Junk /\ r15' = r15
      /\ user' = [user EXCEPT !.rsp = pcbs[gs].rsp2]
      /\ belowList' = belowList
  BY DEF RestoreRsp, EdgePc
<1>2. /\ TableInv /\ Table(pcbs, Size) /\ Size \in Nat /\ Size >= 2
      /\ currentTask = 2 /\ gs = 2 /\ kernelGs = 0 /\ r15 = Junk
      /\ Uses(pcbs, 2, U) /\ pcbs[2].rsp = Slot(2, U) /\ ctx \in Whose
      /\ user = [regs |-> Registers(ctx), rsp |-> Word("rsp", ctx)]
  BY <1>1, AtEdge
<1>3. pcbs[2] \in Pcb
  BY <1>2 DEF Table
<1>4. pcbs[2].rsp \in Int /\ pcbs[2].kstack \in Stacks /\ pcbs[2].rsp2 \in Rsp2s
  BY <1>3 DEF Pcb, Rsp2s
<1>5. rsp = Slot(2, U) /\ pcbs[2].rsp2 = Word("rsp", ctx)
  BY <1>1 DEF ProcessInv, EdgeInv
<1>6. Stores(pcbs', pcbs, 2, pcbs[2].kstack, pcbs[2].rsp, pcbs[2].rsp2)
  BY <1>2, <1>5 DEF RestoreRsp, Stores
<1>7. user' = [regs |-> Registers(ctx), rsp |-> Word("rsp", ctx)]
  BY <1>1, <1>2, <1>5
<1>8. /\ pc' \in TaskPc /\ TableInv' /\ TaskInv' /\ CallInv' /\ ChildInv' /\ ListInv'
  BY <1>1, <1>2, <1>4, <1>6, <1>7, EdgeStep
<1>9. EdgeInv'
  BY <1>1, <1>2 DEF EdgeInv
<1> QED BY <1>8, <1>9, TaskStep

(* swapgs and sysret. *)
LEMMA CallLeft ==
    ASSUME ProcessInv, SyscallExit
    PROVE  ProcessInv'
<1>1. /\ pc = "leaving" /\ pc \in EdgePc /\ pc' = "user"
      /\ pcbs' = pcbs /\ pages' = pages /\ processID' = processID /\ pid' = pid
      /\ forkedIn' = forkedIn /\ currentTask' = currentTask
      /\ ctx' = ctx /\ gs' = kernelGs /\ kernelGs' = gs /\ rsp' = rsp /\ r15' = r15
      /\ user' = user /\ belowList' = belowList
  BY DEF SyscallExit, table, EdgePc
<1>2. /\ TableInv /\ Table(pcbs, Size) /\ Size \in Nat /\ Size >= 2
      /\ currentTask = 2 /\ gs = 2 /\ kernelGs = 0 /\ r15 = Junk
      /\ Uses(pcbs, 2, U) /\ pcbs[2].rsp = Slot(2, U) /\ ctx \in Whose
      /\ user = [regs |-> Registers(ctx), rsp |-> Word("rsp", ctx)]
  BY <1>1, AtEdge
<1>3. pcbs[2] \in Pcb /\ rsp = Junk
  BY <1>1, <1>2 DEF Table, ProcessInv, EdgeInv
<1>4. pcbs[2].rsp \in Int /\ pcbs[2].kstack \in Stacks /\ pcbs[2].rsp2 \in Rsp2s
  BY <1>3 DEF Pcb, Rsp2s
<1>5. Stores(pcbs', pcbs, 2, pcbs[2].kstack, pcbs[2].rsp, pcbs[2].rsp2)
  <2>1. [pcbs EXCEPT ![2].kstack = pcbs[2].kstack] = pcbs
    BY <1>2, <1>3 DEF Table, Pcb
  <2> QED BY <1>1, <2>1 DEF Stores
<1>6. /\ pc' \in TaskPc /\ TableInv' /\ TaskInv' /\ CallInv' /\ ChildInv' /\ ListInv'
  BY <1>1, <1>2, <1>3, <1>4, <1>5, EdgeStep
<1>7. EdgeInv'
  <2>1. pc' \notin EdgePc
    BY <1>1 DEF EdgePc
  <2> QED BY <2>1, OffEdge
<1> QED BY <1>6, <1>7, TaskStep

(* Calls that leave the processes alone, and the return from kprintf. *)
LEMMA CallServed ==
    ASSUME ProcessInv, Serve \/ Printing
    PROVE  ProcessInv'
<1>1. /\ pc \in {"body", "printing"} /\ pc \in SysPc /\ pc' = "leave" /\ pc' \in SysPc
      /\ pcbs' = pcbs /\ pages' = pages /\ processID' = processID /\ pid' = pid
      /\ forkedIn' = forkedIn /\ ctx' = ctx /\ currentTask' = currentTask
      /\ gs' = gs /\ kernelGs' = kernelGs /\ r15' = r15 /\ belowList' = belowList
      /\ user' = user
  BY DEF Serve, Printing, table, registers, program, SysPc
<1>2. Table(pcbs, Size) /\ r15 = Slot(2, S)
  BY <1>1, InCall
<1>3. Table(pcbs', Size) /\ \A i \in 2 .. Size : pcbs'[i] = pcbs[i]
  BY <1>1, <1>2
<1>4. Size' = Size
  BY <1>1 DEF Size
<1>5. ListInv'
  BY <1>1, <1>4 DEF ListInv, ProcessInv
<1>6. TableInv' /\ TaskInv' /\ EdgeInv' /\ ChildInv' /\ pcbs'[2] = pcbs[2]
  BY <1>1, <1>3, <1>5, CallStep
<1>7. rsp' = Slot(2, S)
  <2>1. CASE Serve
    BY <2>1 DEF Serve, registers, ProcessInv, CallInv, SysPc
  <2>2. CASE Printing
    BY <1>2, <2>2 DEF Printing
  <2> QED BY <2>1, <2>2
<1>8. CallInv'
  BY <1>1, <1>6, <1>7 DEF ProcessInv, CallInv
<1>9. pc' \in TaskPc
  BY <1>1, PcsDiffer
<1> QED BY <1>5, <1>6, <1>8, <1>9, TaskStep

(* A harmless hit on the table as it is; in the list if that is claimed. *)
LEMMA OverwrittenBelow ==
    ASSUME TableInv, Size >= 2, NEW n \in 0 .. 501, Uses(pcbs, 2, n),
           NEW hit, Harmless(hit, n), pcbs' = Overwritten(pcbs, hit), Below(hit),
           ListInv, Size <= 2 => \A a \in hit : a >= 0
    PROVE  /\ Table(pcbs', Size) /\ Size' = Size /\ ListInv'
           /\ \A i \in 2 .. Size : pcbs'[i] = pcbs[i]
<1>1. PICK N \in Nat : N = Size /\ N >= 2
  BY DEF TableInv
<1>2. Table(pcbs, N)
  BY <1>1 DEF TableInv
<1>3. Table(Overwritten(pcbs, hit), N) /\ \A i \in 2 .. N : Overwritten(pcbs, hit)[i] = pcbs[i]
  <2>1. N \in Nat /\ N >= 2 /\ Table(pcbs, N)
    BY <1>1, <1>2
  <2> DEFINE qs == Overwritten(pcbs, hit)
  <2>2. Table(qs, N)
    BY <2>1, OverwrittenIs, Zenon
  <2>3. Untouched(qs, pcbs, N)
    BY <2>1, OverwrittenIs, Zenon
  <2> QED BY <2>2, <2>3 DEF Untouched
<1>4. Size' = N
  BY <1>3, TableSize DEF Size
<1>5. ListInv'
  <2>1. ASSUME N <= 2 PROVE ~belowList'
    <3>1. ~belowList /\ \A a \in hit : a >= 0
      BY <1>1, <2>1 DEF ListInv
    <3>2. \A a \in hit : a \in Int
      BY DEF Harmless
    <3>3. ~ \E a \in hit : a < 0
      BY <3>1, <3>2
    <3> QED BY <3>1, <3>3, Zenon DEF Below
  <2> QED BY <1>4, <2>1 DEF ListInv
<1> QED BY <1>1, <1>3, <1>4, <1>5

(* kprintf in a system call. *)
LEMMA TextPrinted ==
    ASSUME ProcessInv, kprintf
    PROVE  ProcessInv'
<1>1. /\ pc = "body" /\ call = "write" /\ pc \in SysPc /\ pc' = "printing" /\ pc' \in SysPc
      /\ pcbs' = Overwritten(pcbs, Printed(rsp, length)) /\ Below(Printed(rsp, length))
      /\ pages' = pages /\ processID' = processID /\ pid' = pid
      /\ forkedIn' = forkedIn /\ ctx' = ctx /\ currentTask' = currentTask
      /\ gs' = gs /\ kernelGs' = kernelGs /\ r15' = r15 /\ call' = call /\ length' = length
      /\ rsp' = FinalArray(rsp) - CallWords /\ user' = user
  BY DEF kprintf, program, SysPc
<1>2. TableInv /\ Table(pcbs, Size) /\ Size >= 2 /\ Uses(pcbs, 2, S)
  BY <1>1, InCall
<1>3. rsp = Slot(2, S) /\ length \in WriteWords
  BY <1>1 DEF ProcessInv, CallInv
<1>4. Harmless(Printed(rsp, length), S) /\ \A a \in Printed(rsp, length) : a >= 0
  BY <1>3, PrintHarmless
<1>5. S \in 0 .. 501 /\ ListInv
  BY Sizes DEF ProcessInv
<1>6. Table(pcbs', Size) /\ Size' = Size /\ ListInv' /\ \A i \in 2 .. Size : pcbs'[i] = pcbs[i]
  BY <1>1, <1>2, <1>4, <1>5, OverwrittenBelow
<1>7. TableInv' /\ TaskInv' /\ EdgeInv' /\ ChildInv' /\ pcbs'[2] = pcbs[2]
  BY <1>1, <1>6, CallStep
<1>8. CallInv'
  BY <1>1, <1>3, <1>7 DEF ProcessInv, CallInv
<1>9. pc' \in TaskPc
  BY <1>1, PcsDiffer
<1> QED BY <1>6, <1>7, <1>8, <1>9, TaskStep

(* Where an interrupt can find the kernel on a kernel stack.                 *)
LEMMA InterruptHits ==
    ASSUME ProcessInv, rsp \notin {Junk, BootStack}
    PROVE  /\ pc \in TaskPc /\ pc # "user" /\ Level \in 0 .. 501
           /\ Uses(pcbs, 2, Level) /\ Harmless(Interrupting(rsp), Level)
           /\ Size <= 2 => \A a \in Interrupting(rsp) : a >= 0
<1>1. pc \in TaskPc
  BY DEF ProcessInv, TableInv, BootInv
<1>2. pc # "user" /\ Uses(pcbs, 2, Level)
  BY <1>1 DEF ProcessInv, TaskInv
<1>3. U \in S .. 501 /\ S \in S .. 501 /\ 501 \in S .. 501
  BY Sizes
<1>4. CASE pc \in {"test3", "switchToRing3", "body", "leave", "copyParentStacks"}
  <2>1. Level \in S .. 501 /\ Level \in 0 .. 501
    BY <1>3, <1>4, Sizes DEF Level, EdgePc
  <2>2. rsp = Slot(2, Level)
    BY <1>1, <1>4 DEF ProcessInv, TaskInv, CallInv, Level, SysPc, EdgePc
  <2> QED BY <1>1, <1>2, <2>1, <2>2, InterruptOnStack
<1>5. CASE pc = "printing"
  <2>1. Level = S /\ Level \in 0 .. 501
    BY <1>5, Sizes DEF Level, EdgePc
  <2>2. rsp = FinalArray(Slot(2, S)) - CallWords /\ WriteWords # {}
    BY <1>5 DEF ProcessInv, CallInv, SysPc
  <2> QED BY <1>1, <1>2, <2>1, <2>2, InterruptInPrint
<1>6. CASE pc = "adding"
  <2>1. Level = S /\ Level \in 0 .. 501
    BY <1>6, Sizes DEF Level, EdgePc
  <2>2. rsp = LocalPcb(Slot(2, S)) - 1 /\ Size >= 3 /\ Size \in Nat
    BY <1>6 DEF ProcessInv, CallInv, SysPc, TableInv
  <2>3. ~(Size <= 2)
    BY <2>2
  <2> QED BY <1>1, <1>2, <2>1, <2>2, <2>3, InterruptInAdding
<1>7. CASE pc \in {"saving", "restored"}
  <2>1. pc \in EdgePc /\ Level = U
    BY <1>7 DEF Level, EdgePc
  <2>2. U \in S .. 501 /\ Level \in 0 .. 501
    BY <1>3, <2>1, Sizes
  <2>3. rsp = Slot(2, U)
    BY <1>7, <2>1 DEF ProcessInv, EdgeInv
  <2> QED BY <1>1, <1>2, <2>1, <2>2, <2>3, InterruptOnStack
<1>8. pc \notin {"entering", "leaving"}
  BY DEF ProcessInv, EdgeInv, EdgePc
<1> QED BY <1>1, <1>2, <1>4, <1>5, <1>6, <1>7, <1>8 DEF TaskPc, SysPc, EdgePc

(* An interrupt at any of these points. *)
LEMMA KeyPressed ==
    ASSUME ProcessInv, KeyboardInterrupt
    PROVE  ProcessInv'
<1>1. /\ rsp \notin {Junk, BootStack}
      /\ pcbs' = Overwritten(pcbs, Interrupting(rsp)) /\ Below(Interrupting(rsp))
      /\ pc' = pc /\ pages' = pages /\ processID' = processID /\ pid' = pid
      /\ forkedIn' = forkedIn /\ ctx' = ctx /\ currentTask' = currentTask
      /\ gs' = gs /\ kernelGs' = kernelGs /\ r15' = r15 /\ rsp' = rsp
      /\ call' = call /\ length' = length /\ user' = user
  BY DEF KeyboardInterrupt, registers, program
<1>2. /\ pc \in TaskPc /\ pc # "user" /\ Level \in 0 .. 501
      /\ Uses(pcbs, 2, Level) /\ Harmless(Interrupting(rsp), Level)
      /\ Size <= 2 => \A a \in Interrupting(rsp) : a >= 0
  BY <1>1, InterruptHits
<1>3. TableInv /\ Size >= 2 /\ ListInv
  BY <1>2 DEF ProcessInv, TaskInv
<1>4. Table(pcbs', Size) /\ Size' = Size /\ ListInv' /\ \A i \in 2 .. Size : pcbs'[i] = pcbs[i]
  BY <1>1, <1>2, <1>3, OverwrittenBelow
<1>5. PICK n \in Nat : n = Size /\ n >= 2
  BY <1>3 DEF TableInv
<1>6. pcbs'[2] = pcbs[2] /\ pcbs'[Size] = pcbs[Size] /\ \A i \in 3 .. n : pcbs'[i] = pcbs[i]
  BY <1>4, <1>5
<1>7. TableInv'
  BY <1>1, <1>2, <1>3, <1>4, TableKeeps DEF TableInv
<1>8. TaskInv'
  <2>1. Level' = Level
    BY <1>1 DEF Level
  <2>2. Uses(pcbs', 2, Level)
    BY <1>2, <1>6 DEF Uses
  <2> QED BY <1>1, <1>4, <1>6, <2>1, <2>2 DEF ProcessInv, TaskInv
<1>9. CallInv'
  BY <1>1, <1>4, <1>6 DEF ProcessInv, CallInv
<1>10. ChildInv'
  BY <1>1, <1>4, <1>5, <1>6, ChildKeeps DEF ProcessInv
<1>11. pc' \in TaskPc
  BY <1>1, <1>2
<1>12. EdgeInv'
  BY <1>1, <1>4, <1>6 DEF ProcessInv, EdgeInv
<1> QED BY <1>4, <1>7, <1>8, <1>9, <1>10, <1>11, <1>12, TaskStep

(* fork adds a PCB, whose frame on the stack does no harm; no child is ready  *)
(* yet.                                                                       *)
LEMMA ForkAdded ==
    ASSUME ProcessInv, ForkAdds
    PROVE  ProcessInv'
<1> DEFINE ps == Overwritten(pcbs, Adding(rsp))
<1>1. /\ pc = "body" /\ call = "fork" /\ pc \in SysPc /\ pc' = "adding" /\ pc' \in SysPc
      /\ pc' \in TaskPc
      /\ addPCB(ps, ctx) /\ rsp' = LocalPcb(rsp) - 1
      /\ pages' = pages /\ ctx' = ctx /\ currentTask' = currentTask
      /\ gs' = gs /\ kernelGs' = kernelGs /\ r15' = r15
      /\ user' = user
  BY DEF ForkAdds, program, SysPc, TaskPc
<1>2. /\ TableInv /\ Table(pcbs, Size) /\ Size >= 2 /\ Uses(pcbs, 2, S)
      /\ currentTask = 2 /\ gs = 2 /\ kernelGs = 0 /\ r15 = Slot(2, S)
      /\ pcbs[2].rsp = Slot(2, U)
      /\ pcbs[2].rsp2 = Word("rsp", ctx) /\ ctx \in Whose
      /\ \A j \in 1 .. 13 : pcbs[2].kstack[U - j] = Word(SyscallSaves[j], ctx)
      /\ user = [regs |-> Registers(ctx), rsp |-> Word("rsp", ctx)]
  BY <1>1, InCall
<1>3. rsp = Slot(2, S) /\ Size < 2 + MaxForks
  BY <1>1 DEF ProcessInv, CallInv
<1>4. PICK n \in Nat : n = Size /\ n >= 2
  BY <1>2 DEF TableInv
<1>5. n + 1 < MAX_PROCESS /\ n + 1 <= 2 + MaxForks
  BY <1>3, <1>4, Sizes, LayoutOK, FramesFit
<1>6. Table(ps, n) /\ Untouched(ps, pcbs, n)
  <2> DEFINE hit == Adding(rsp)
  <2>1. Harmless(hit, S) /\ S \in 0 .. 501
    BY <1>3, AddingHarmless, Sizes
  <2>2. Table(pcbs, n)
    BY <1>2, <1>4
  <2> HIDE DEF hit
  <2>3. Table(Overwritten(pcbs, hit), n)
    BY <1>2, <1>4, <2>1, <2>2, OverwrittenIs, Zenon
  <2>4. Untouched(Overwritten(pcbs, hit), pcbs, n)
    BY <1>2, <1>4, <2>1, <2>2, OverwrittenIs, Zenon
  <2> QED BY <2>3, <2>4 DEF hit
<1> HIDE DEF ps
<1>7. /\ Size' = n + 1 /\ Table(pcbs', n + 1)
      /\ processID' = 1 .. n + 1 /\ pid' = n + 1
      /\ forkedIn' \in Seq(Whose) /\ Len(forkedIn') = n + 1
      /\ forkedIn'[n + 1] = ctx
      /\ \A i \in 1 .. n : forkedIn'[i] = forkedIn[i] /\ Kept(pcbs'[i], ps[i])
      /\ pcbs'[n + 1].rsp = Junk /\ ~pcbs'[n + 1].isChild
  BY <1>1, <1>2, <1>4, <1>5, <1>6, PcbAdded
<1>8. \A i \in 2 .. n : Kept(pcbs'[i], pcbs[i])
  BY <1>6, <1>7 DEF Untouched
<1>9. TableInv'
  <2>1. pc' \in BootPc \cup TaskPc /\ pages' \in Seq(PageUses) /\ ctx' \in Whose
    BY <1>1, <1>2 DEF TableInv
  <2>2. Size' \in Nat /\ Table(pcbs', Size') /\ processID' = 1 .. Size' /\ Len(forkedIn') = Size'
        /\ pid' = (IF Size' = 0 THEN 1 ELSE Size') /\ Size' <= 2 + MaxForks
    BY <1>4, <1>5, <1>7
  <2> QED BY <1>7, <2>1, <2>2 DEF TableInv
<1>10. Kept(pcbs'[2], pcbs[2])
  BY <1>4, <1>8
<1>11. TaskInv'
  <2>1. Level' = S
    BY <1>1 DEF Level, EdgePc
  <2>2. Uses(pcbs', 2, S) /\ pcbs'[2].rsp = Slot(2, U)
    BY <1>2, <1>10 DEF Uses, Kept
  <2>3. pc' \notin {"test3", "switchToRing3", "user"} /\ Size' >= 2 /\ currentTask' = 2
        /\ user' = [regs |-> Registers(ctx'), rsp |-> Word("rsp", ctx')]
    BY <1>1, <1>2, <1>4, <1>7
  <2> QED BY <1>1, <2>1, <2>2, <2>3 DEF TaskInv
<1>12. CallInv'
  <2>1. pcbs'[2].rsp2 = pcbs[2].rsp2 /\ pcbs'[2].kstack = pcbs[2].kstack
    BY <1>10 DEF Kept
  <2>2. Size' >= 3 /\ pcbs'[Size'].rsp = Junk /\ forkedIn'[Size'] = ctx'
    BY <1>1, <1>4, <1>7
  <2> QED BY <1>1, <1>2, <1>3, <2>1, <2>2 DEF CallInv
<1>13. ChildInv'
  <2> SUFFICES ASSUME NEW i \in 1 .. n + 1, pcbs'[i].isChild, pcbs'[i].rsp # Junk
               PROVE  Ready(pcbs', i, forkedIn'[i])
    BY <1>7 DEF ChildInv
  <2>1. i >= 3 /\ i # n + 1
    BY <1>7 DEF Table
  <2>2. i \in 2 .. n /\ i \in 1 .. n
    BY <2>1
  <2>3. Kept(pcbs'[i], pcbs[i]) /\ forkedIn'[i] = forkedIn[i]
    BY <1>7, <1>8, <2>2
  <2>4. pcbs[i].isChild /\ pcbs[i].rsp # Junk
    BY <2>3 DEF Kept
  <2>5. Ready(pcbs, i, forkedIn[i])
    BY <1>4, <2>2, <2>4 DEF ProcessInv, ChildInv
  <2> QED BY <2>3, <2>5 DEF Ready, Uses, Kept
<1>14. ListInv'
  BY <1>4, <1>7 DEF ListInv
<1>15. EdgeInv'
  BY <1>1, PcsDiffer, OffEdge
<1> QED BY <1>1, <1>9, <1>11, <1>12, <1>13, <1>14, <1>15, TaskStep

(* Changing one word of a stack in use. *)
LEMMA StackChanged ==
    ASSUME NEW k \in Stacks, NEW m \in DOMAIN k, NEW w \in Words, NEW q,
           q = [k EXCEPT ![m] = w]
    PROVE  /\ q \in Stacks /\ DOMAIN q = DOMAIN k /\ q[m] = w
           /\ \A j \in DOMAIN k : j # m => q[j] = k[j]
<1>1. DOMAIN k \in SUBSET (0 .. 511) /\ k \in [DOMAIN k -> Words]
  BY StackIs
<1>2. q \in [DOMAIN k -> Words]
  BY <1>1
<1>3. q \in Stacks
  BY <1>1, <1>2, StackMade
<1> QED BY <1>1, <1>2, <1>3

(* fork marks parent and child. *)
LEMMA ForkMarked ==
    ASSUME ProcessInv, ForkTakesPages
    PROVE  ProcessInv'
<1>1. /\ pc = "adding" /\ pc \in SysPc /\ pc' = "copyParentStacks" /\ pc' \in SysPc
      /\ pc' \in TaskPc
      /\ pages' = Append(pages, "vma") \o Take("table", ForkPages) /\ rsp' = r15
      /\ processID' = processID /\ pid' = pid /\ forkedIn' = forkedIn
      /\ ctx' = ctx /\ currentTask' = currentTask
      /\ gs' = gs /\ kernelGs' = kernelGs /\ r15' = r15 /\ belowList' = belowList
      /\ user' = user
  BY DEF ForkTakesPages, program, SysPc, TaskPc
<1>2. /\ TableInv /\ Table(pcbs, Size) /\ Size >= 2 /\ Uses(pcbs, 2, S)
      /\ currentTask = 2 /\ gs = 2 /\ kernelGs = 0 /\ r15 = Slot(2, S)
      /\ pcbs[2].rsp = Slot(2, U)
      /\ pcbs[2].rsp2 = Word("rsp", ctx) /\ ctx \in Whose
      /\ \A j \in 1 .. 13 : pcbs[2].kstack[U - j] = Word(SyscallSaves[j], ctx)
      /\ user = [regs |-> Registers(ctx), rsp |-> Word("rsp", ctx)]
  BY <1>1, InCall
<1>3. Size >= 3 /\ forkedIn[Size] = ctx /\ pcbs[Size].rsp = Junk
  BY <1>1 DEF ProcessInv, CallInv
<1>4. PICK n \in Nat : n = Size /\ n >= 3
  BY <1>2, <1>3 DEF TableInv
<1>5. 2 \in 1 .. n /\ n \in 1 .. n /\ n # 2
  BY <1>4
<1>6. pcbs \in [1 .. n -> Pcb] /\ pcbs[2] \in Pcb /\ pcbs[n] \in Pcb
  BY <1>2, <1>4, <1>5 DEF Table
<1> DEFINE p == [pcbs[2] EXCEPT !.isParent = TRUE]
           c == [pcbs[n] EXCEPT !.isChild = TRUE]
           q == [pcbs EXCEPT ![2] = p]
<1>7. /\ p \in Pcb /\ p.pid = pcbs[2].pid /\ p.next = pcbs[2].next /\ p.rsp = pcbs[2].rsp
      /\ p.rsp2 = pcbs[2].rsp2 /\ p.kstack = pcbs[2].kstack /\ p.isChild = pcbs[2].isChild
  BY <1>6 DEF Pcb
<1>8. c \in Pcb /\ c.pid = pcbs[n].pid /\ c.next = pcbs[n].next /\ c.rsp = pcbs[n].rsp
  BY <1>6 DEF Pcb
<1>9. pcbs' = [q EXCEPT ![n] = c]
  <2>1. pcbs' = [pcbs EXCEPT ![2].isParent = TRUE, ![n].isChild = TRUE]
    BY <1>2, <1>4 DEF ForkTakesPages, childTask, Size
  <2> QED BY <1>5, <1>6, <2>1
<1> HIDE DEF p, c
<1>10. q \in [1 .. n -> Pcb] /\ q[2] = p /\ \A j \in 1 .. n : j # 2 => q[j] = pcbs[j]
  BY <1>5, <1>6, <1>7, OnePcb
<1> HIDE DEF q
<1>11. pcbs' \in [1 .. n -> Pcb] /\ pcbs'[n] = c /\ \A j \in 1 .. n : j # n => pcbs'[j] = q[j]
  BY <1>5, <1>8, <1>9, <1>10, OnePcb
<1>12. pcbs'[2] = p /\ \A j \in 1 .. n : j # 2 /\ j # n => pcbs'[j] = pcbs[j]
  BY <1>5, <1>10, <1>11
<1>13. Table(pcbs', n)
  <2>1. ASSUME NEW i \in 1 .. n
        PROVE  /\ pcbs'[i].pid = i /\ pcbs'[i].next = IF i = n THEN 1 ELSE i + 1
               /\ i <= 2 => ~pcbs'[i].isChild
               /\ i = 1 => DOMAIN pcbs'[i].kstack = {}
    <3>1. /\ pcbs[i].pid = i /\ pcbs[i].next = IF i = n THEN 1 ELSE i + 1
          /\ i <= 2 => ~pcbs[i].isChild
          /\ i = 1 => DOMAIN pcbs[i].kstack = {}
      BY <1>2, <1>4 DEF Table
    <3>2. CASE i = 2
      BY <1>7, <1>12, <3>1, <3>2
    <3>3. CASE i = n
      BY <1>4, <1>8, <1>11, <3>1, <3>3
    <3>4. CASE i # 2 /\ i # n
      BY <1>12, <3>1, <3>4
    <3> QED BY <3>2, <3>3, <3>4
  <2> QED BY <1>11, <2>1 DEF Table
<1>14. Size' = Size
  BY <1>4, <1>13, TableSize DEF Size
<1>15. pages' \in Seq(PageUses)
  <2>1. pages \in Seq(PageUses) /\ "vma" \in PageUses /\ "table" \in PageUses
    BY <1>2 DEF TableInv, PageUses
  <2>2. Append(pages, "vma") \in Seq(PageUses)
    BY <2>1, PagesGrow, 1 \in Nat
  <2>3. Append(pages, "vma") \o Take("table", ForkPages) \in Seq(PageUses)
    BY <2>1, <2>2, PagesGrow, Sizes
  <2> QED BY <1>1, <2>3
<1>16. TableInv'
  BY <1>1, <1>2, <1>4, <1>13, <1>14, <1>15, TableKeeps
<1>17. TaskInv'
  <2>1. Level' = S
    BY <1>1 DEF Level, EdgePc
  <2>2. Uses(pcbs', 2, S) /\ pcbs'[2].rsp = Slot(2, U)
    BY <1>2, <1>7, <1>12 DEF Uses
  <2>3. pc' \notin {"test3", "switchToRing3", "user"} /\ Size' >= 2 /\ currentTask' = 2
        /\ user' = [regs |-> Registers(ctx'), rsp |-> Word("rsp", ctx')]
    BY <1>1, <1>2, <1>14
  <2> QED BY <1>1, <2>1, <2>2, <2>3 DEF TaskInv
<1>18. CallInv'
  BY <1>1, <1>2, <1>3, <1>7, <1>12, <1>14 DEF CallInv
<1>19. ChildInv'
  <2> SUFFICES ASSUME NEW i \in 1 .. n, pcbs'[i].isChild, pcbs'[i].rsp # Junk
               PROVE  Ready(pcbs', i, forkedIn[i])
    BY <1>1, <1>4, <1>14 DEF ChildInv
  <2>1. i # 2 /\ i # n
    BY <1>3, <1>4, <1>8, <1>11, <1>13 DEF Table
  <2>2. pcbs'[i] = pcbs[i]
    BY <1>12, <2>1
  <2>3. Ready(pcbs, i, forkedIn[i])
    BY <1>4, <2>2 DEF ProcessInv, ChildInv
  <2> QED BY <2>2, <2>3 DEF Ready, Uses
<1>20. ListInv'
  BY <1>1, <1>14 DEF ListInv, ProcessInv
<1>21. EdgeInv'
  BY <1>1, PcsDiffer, OffEdge
<1> QED BY <1>1, <1>16, <1>17, <1>18, <1>19, <1>20, <1>21, TaskStep

(* fork copies the stack and makes the child ready. *)
LEMMA StacksCopied ==
    ASSUME ProcessInv, copyParentStacks
    PROVE  ProcessInv'
<1>1. /\ pc = "copyParentStacks" /\ pc \in SysPc /\ pc' = "leave" /\ pc' \in SysPc
      /\ pc' \in TaskPc
      /\ pages' = pages /\ rsp' = rsp /\ call' = call
      /\ processID' = processID /\ pid' = pid /\ forkedIn' = forkedIn
      /\ ctx' = ctx /\ currentTask' = currentTask
      /\ gs' = gs /\ kernelGs' = kernelGs /\ r15' = r15 /\ belowList' = belowList
      /\ user' = user
  BY DEF copyParentStacks, program, registers, SysPc, TaskPc
<1>2. /\ TableInv /\ Table(pcbs, Size) /\ Size >= 2 /\ Uses(pcbs, 2, S)
      /\ currentTask = 2 /\ gs = 2 /\ kernelGs = 0 /\ r15 = Slot(2, S)
      /\ pcbs[2].rsp = Slot(2, U)
      /\ pcbs[2].rsp2 = Word("rsp", ctx) /\ ctx \in Whose
      /\ \A j \in 1 .. 13 : pcbs[2].kstack[U - j] = Word(SyscallSaves[j], ctx)
      /\ user = [regs |-> Registers(ctx), rsp |-> Word("rsp", ctx)]
  BY <1>1, InCall
<1>3. Size >= 3 /\ forkedIn[Size] = ctx /\ rsp = Slot(2, S)
  BY <1>1 DEF ProcessInv, CallInv
<1>4. PICK n \in Nat : n = Size /\ n >= 3
  BY <1>2, <1>3 DEF TableInv
<1>5. 2 \in 1 .. n /\ 2 \in 2 .. n /\ n \in 2 .. n /\ n \in 1 .. n /\ n # 2
  BY <1>4
<1>6. pcbs \in [1 .. n -> Pcb] /\ pcbs[2] \in Pcb /\ pcbs[n].pid = n
  BY <1>2, <1>4, <1>5 DEF Table
<1>7. PICK st \in Stacks : st = pcbs[2].kstack
  BY <1>6 DEF Pcb
<1>8. DOMAIN st = S .. 500 /\ U \in DOMAIN st
  BY <1>2, <1>7, Sizes DEF Uses
<1> DEFINE own == [st EXCEPT ![U] = Word("pid", n)]
           copy == [st EXCEPT ![U] = Zero]
           frame == SwitchFrame(Word("syscallHandler+53", Nobody))
           q == [pcbs EXCEPT ![2].kstack = own]
           k == Pushed(copy, S, frame)
           r == Slot(n, S - 16)
           w == Word("rsp", ctx)
<1>9. own \in Stacks /\ DOMAIN own = S .. 500
      /\ \A j \in 1 .. 13 : own[U - j] = Word(SyscallSaves[j], ctx)
  <2>1. Word("pid", n) \in Words
    BY StackWordsAre
  <2>2. /\ own \in Stacks /\ DOMAIN own = DOMAIN st
        /\ \A j \in DOMAIN st : j # U => own[j] = st[j]
    BY <1>8, <2>1, StackChanged
  <2>3. \A j \in 1 .. 13 : U - j \in S .. 500 /\ U - j # U
    BY Sizes
  <2>4. \A j \in 1 .. 13 : st[U - j] = Word(SyscallSaves[j], ctx)
    BY <1>2, <1>7
  <2> HIDE DEF own
  <2> QED BY <1>8, <2>2, <2>3, <2>4
<1>10. copy \in Stacks /\ DOMAIN copy = S .. 500
       /\ \A j \in 1 .. 13 : copy[U - j] = Word(SyscallSaves[j], ctx)
  <2>1. Zero \in Words
    BY StackWordsAre
  <2>2. /\ copy \in Stacks /\ DOMAIN copy = DOMAIN st
        /\ \A j \in DOMAIN st : j # U => copy[j] = st[j]
    BY <1>8, <2>1, StackChanged
  <2>3. \A j \in 1 .. 13 : U - j \in S .. 500 /\ U - j # U
    BY Sizes
  <2>4. \A j \in 1 .. 13 : st[U - j] = Word(SyscallSaves[j], ctx)
    BY <1>2, <1>7
  <2> HIDE DEF copy
  <2> QED BY <1>8, <2>2, <2>3, <2>4
<1>11. /\ r15 - Slot(2, 0) = S /\ RaxSlot(S) = U /\ Len(frame) = 16
       /\ Word("syscallHandler+53", Nobody) \in Words
  <2>1. S \in Int /\ 2 \in Nat /\ U = S + 13
    BY Sizes
  <2>2. Slot(2, S) - Slot(2, 0) = S
    BY <2>1, SlotIs
  <2>3. Word("syscallHandler+53", Nobody) \in Words
    BY StackWordsAre DEF Whose
  <2>4. Len(frame) = 16
    BY <2>3, FrameIs
  <2> QED BY <1>2, <2>1, <2>2, <2>3, <2>4 DEF RaxSlot
<1>12. /\ k \in Stacks /\ DOMAIN k = S - 16 .. 500
       /\ k[S - 1] = Word("syscallHandler+53", Nobody)
       /\ \A m \in S - 16 .. S - 2 : k[m] = Zero
       /\ \A j \in 1 .. 13 : k[U - j] = Word(SyscallSaves[j], ctx)
  <2> HIDE DEF copy
  <2>1. /\ Len(frame) = 16 /\ frame[1] = Word("syscallHandler+53", Nobody)
        /\ \A j \in 2 .. 16 : frame[j] = Zero
        /\ \A j \in 1 .. 16 : frame[j] \in Words
    BY <1>11, FrameIs
  <2> HIDE DEF frame
  <2>2. CanPush(copy, S, S, frame, 16)
    <3>1. S \in 0 .. 501 /\ S \in S .. 501 /\ 16 \in 0 .. S
      BY Sizes
    <3>2. copy \in Stacks /\ DOMAIN copy = S .. 500
      BY <1>10
    <3> QED BY <2>1, <3>1, <3>2 DEF CanPush
  <2>3. IsPush(k, copy, S, frame, 16)
    BY <2>2, Pushes
  <2> HIDE DEF k
  <2>4. /\ k \in Stacks /\ DOMAIN k = S - 16 .. 500
        /\ \A j \in 1 .. 16 : k[S - j] = frame[j]
        /\ \A m \in S .. 500 : k[m] = copy[m]
    BY <2>3 DEF IsPush
  <2>5. k[S - 1] = Word("syscallHandler+53", Nobody)
    BY <2>1, <2>4
  <2>6. ASSUME NEW m \in S - 16 .. S - 2 PROVE k[m] = Zero
    <3>1. S - m \in 2 .. 16 /\ S - m \in 1 .. 16 /\ S - (S - m) = m
      BY Sizes
    <3>2. k[S - (S - m)] = frame[S - m]
      BY <2>4, <3>1
    <3> QED BY <2>1, <3>1, <3>2
  <2>7. ASSUME NEW j \in 1 .. 13 PROVE k[U - j] = Word(SyscallSaves[j], ctx)
    <3>1. U - j \in S .. 500
      BY Sizes
    <3> QED BY <1>10, <2>4, <3>1
  <2> QED BY <2>4, <2>5, <2>6, <2>7
<1>13. Stores(q, pcbs, 2, own, pcbs[2].rsp, pcbs[2].rsp2)
  BY DEF Stores
<1>14. pcbs' = [q EXCEPT ![n].kstack = k, ![n].rsp = r, ![n].rsp2 = w]
  <2>1. pcbs' = [pcbs EXCEPT ![2].kstack = own, ![n].kstack = k, ![n].rsp = r, ![n].rsp2 = w]
    BY <1>2, <1>4, <1>6, <1>7, <1>11 DEF copyParentStacks, childTask, Size
  <2> HIDE DEF own, k, r, w
  <2> QED BY <2>1
<1> HIDE DEF own, copy, frame, q, k, r, w
<1>15. /\ Table(q, n) /\ q[2].kstack = own /\ q[2].rsp = pcbs[2].rsp /\ q[2].rsp2 = pcbs[2].rsp2
       /\ \A j \in 1 .. n : j # 2 => q[j] = pcbs[j]
  <2>1. pcbs[2].rsp \in Int /\ pcbs[2].rsp2 \in Rsp2s
    BY <1>6 DEF Pcb, Rsp2s
  <2> QED BY <1>2, <1>4, <1>5, <1>9, <1>13, <2>1, StoredIs
<1>16. Stores(pcbs', q, n, k, r, w)
  BY <1>14 DEF Stores
<1>17. r \in Int /\ w \in Rsp2s
  <2>1. S - 16 \in Int
    BY Sizes
  <2> QED BY <1>2, <2>1, SlotIs DEF r, w, Rsp2s, Word
<1>18. /\ Table(pcbs', n) /\ pcbs'[n].kstack = k /\ pcbs'[n].rsp = r /\ pcbs'[n].rsp2 = w
       /\ \A j \in 1 .. n : j # n => pcbs'[j] = q[j]
  BY <1>5, <1>12, <1>15, <1>16, <1>17, StoredIs
<1>19. pcbs'[2] = q[2] /\ \A j \in 1 .. n : j # 2 /\ j # n => pcbs'[j] = pcbs[j]
  BY <1>5, <1>15, <1>18
<1>20. Size' = Size
  BY <1>4, <1>18, TableSize DEF Size
<1>21. TableInv'
  BY <1>1, <1>2, <1>4, <1>18, <1>20, TableKeeps DEF TableInv
<1>22. TaskInv'
  <2>1. Level' = S
    BY <1>1 DEF Level, EdgePc
  <2>2. Uses(pcbs', 2, S) /\ pcbs'[2].rsp = Slot(2, U)
    BY <1>2, <1>9, <1>15, <1>19 DEF Uses
  <2>3. pc' \notin {"test3", "switchToRing3", "user"} /\ Size' >= 2 /\ currentTask' = 2
        /\ user' = [regs |-> Registers(ctx'), rsp |-> Word("rsp", ctx')]
    BY <1>1, <1>2, <1>20
  <2> QED BY <1>1, <2>1, <2>2, <2>3 DEF TaskInv
<1>23. CallInv'
  BY <1>1, <1>2, <1>3, <1>9, <1>15, <1>19, <1>20 DEF CallInv
<1>24. ChildInv'
  <2> SUFFICES ASSUME NEW i \in 1 .. n, pcbs'[i].isChild, pcbs'[i].rsp # Junk
               PROVE  Ready(pcbs', i, forkedIn[i])
    BY <1>1, <1>4, <1>20 DEF ChildInv
  <2>1. i # 2
    BY <1>18 DEF Table
  <2>2. CASE i = n
    <3>1. pcbs'[n].kstack = k /\ pcbs'[n].rsp = r /\ pcbs'[n].rsp2 = w
      BY <1>18
    <3>2. forkedIn[n] = ctx
      BY <1>3, <1>4
    <3> QED BY <1>12, <2>2, <3>1, <3>2 DEF Ready, Uses, r, w
  <2>3. CASE i # n
    <3>1. pcbs'[i] = pcbs[i]
      BY <1>19, <2>1, <2>3
    <3>2. Ready(pcbs, i, forkedIn[i])
      BY <1>4, <3>1 DEF ProcessInv, ChildInv
    <3> QED BY <3>1, <3>2 DEF Ready, Uses
  <2> QED BY <2>2, <2>3
<1>25. ListInv'
  BY <1>1, <1>20 DEF ListInv, ProcessInv
<1>26. EdgeInv'
  BY <1>1, PcsDiffer, OffEdge
<1> QED BY <1>1, <1>21, <1>22, <1>23, <1>24, <1>25, <1>26, TaskStep

(* Nothing happens. *)
LEMMA Idle ==
    ASSUME ProcessInv, UNCHANGED vars
    PROVE  ProcessInv'
<1>1. /\ pc' = pc /\ pcbs' = pcbs /\ pages' = pages /\ processID' = processID /\ pid' = pid
      /\ currentTask' = currentTask /\ gs' = gs /\ kernelGs' = kernelGs /\ rsp' = rsp
      /\ r15' = r15 /\ user' = user /\ ctx' = ctx /\ call' = call /\ length' = length
      /\ forkedIn' = forkedIn /\ belowList' = belowList
  BY DEF vars
<1>2. TableInv' /\ BootInv'
  BY <1>1 DEF ProcessInv, TableInv, BootInv, Size
<1>3. TaskInv'
  BY <1>1 DEF ProcessInv, TaskInv, Level, Size
<1>4. CallInv'
  BY <1>1 DEF ProcessInv, CallInv, Size
<1>5. ChildInv' /\ ListInv'
  <2>1. Size' = Size
    BY <1>1 DEF Size
  <2>2. ListInv'
    BY <1>1, <2>1 DEF ProcessInv, ListInv
  <2>3. ChildInv'
    BY <1>1, <2>1 DEF ProcessInv, ChildInv, Ready, Uses
  <2> QED BY <2>2, <2>3
<1>6. EdgeInv'
  BY <1>1 DEF ProcessInv, EdgeInv, Size
<1> QED BY <1>2, <1>3, <1>4, <1>5, <1>6 DEF ProcessInv

(* ProcessInv is inductive. *)
LEMMA NextKeeps == ProcessInv /\ [Next]_vars => ProcessInv'
<1> SUFFICES ASSUME ProcessInv, [Next]_vars PROVE ProcessInv'
  OBVIOUS
<1>1. CASE Boot
  BY <1>1, BootLists, BootPcbs, InitProcess, SwitchChosen, MSRsSet, SwitchedTo,
     ProgramLoaded, ProgramEntered DEF Boot
<1>2. ASSUME NEW c \in Contexts,
             \/ SyscallEntry(c, "other", 0)
             \/ SyscallEntry(c, "fork", 0)
             \/ \E n \in WriteWords : SyscallEntry(c, "write", n)
      PROVE  ProcessInv'
  <2>1. CASE SyscallEntry(c, "other", 0)
    BY <2>1, CallEntered
  <2>2. CASE SyscallEntry(c, "fork", 0)
    BY <2>2, CallEntered
  <2>3. ASSUME NEW n \in WriteWords, SyscallEntry(c, "write", n)
        PROVE  ProcessInv'
    BY <2>3, CallEntered
  <2> QED BY <1>2, <2>1, <2>2, <2>3
<1>3. CASE Serve \/ Printing
  BY <1>3, CallServed
<1>4. CASE kprintf
  BY <1>4, TextPrinted
<1>5. CASE ForkAdds
  BY <1>5, ForkAdded
<1>6. CASE ForkTakesPages
  BY <1>6, ForkMarked
<1>7. CASE copyParentStacks
  BY <1>7, StacksCopied
<1>8. CASE LoadRsp
  BY <1>8, RspLoaded
<1>9. CASE PushRegisters
  BY <1>9, RegistersPushed
<1>10. CASE PopRegisters
  BY <1>10, RegistersPopped
<1>11. CASE RestoreRsp
  BY <1>11, RspRestored
<1>12. CASE SyscallExit
  BY <1>12, CallLeft
<1>13. CASE KeyboardInterrupt
  BY <1>13, KeyPressed
<1>14. CASE UNCHANGED vars
  BY <1>14, Idle
<1> QED BY <1>1, <1>2, <1>3, <1>4, <1>5, <1>6, <1>7, <1>8, <1>9, <1>10, <1>11,
           <1>12, <1>13, <1>14 DEF Next

(* It holds in every behaviour. *)
LEMMA AlwaysProcessInv == Spec => []ProcessInv
BY InitHolds, NextKeeps, PTL DEF Spec

-----------------------------------------------------------------------------
(* The properties                                                            *)

(* The stack pointers are addresses. *)
LEMMA PointersAre ==
    ASSUME ProcessInv
    PROVE  rsp \in Int /\ r15 \in Int
<1>1. pc \in BootPc \/ pc \in TaskPc
  BY DEF ProcessInv, TableInv
<1>2. BootStack \in Int /\ Junk \in Int
  BY DEF BootStack, Junk
<1>3. CASE pc \in BootPc
  BY <1>2, <1>3 DEF ProcessInv, BootInv
<1>4. S \in Int /\ 501 \in Int /\ U \in Int /\ 2 \in Nat /\ CallWords \in Int
      /\ PrintWords \in Int /\ PcbWords \in Int
  BY Sizes
<1>5. Slot(2, S) \in Int /\ Slot(2, U) \in Int /\ Slot(2, 501) \in Int
  <2>1. ASSUME NEW m \in Int PROVE Slot(2, m) \in Int
    BY <1>4, SlotIs
  <2> QED BY <1>4, <2>1
<1>6. FinalArray(Slot(2, S)) - CallWords \in Int /\ LocalPcb(Slot(2, S)) - 1 \in Int
  BY <1>4, <1>5 DEF FinalArray, LocalPcb
<1>7. CASE pc \in {"test3", "switchToRing3"}
  <2>1. rsp \in {Slot(2, 501), Slot(2, U)} /\ r15 = Junk
    BY <1>7 DEF ProcessInv, TaskInv, TaskPc, SysPc, Level, EdgePc
  <2> QED BY <1>2, <1>5, <2>1
<1>8. CASE pc = "user"
  BY <1>2, <1>8 DEF ProcessInv, TaskInv, TaskPc, SysPc
<1>9. CASE pc \in SysPc
  <2>1. /\ r15 = Slot(2, S)
        /\ rsp \in {Slot(2, S), FinalArray(Slot(2, S)) - CallWords, LocalPcb(Slot(2, S)) - 1}
    BY <1>9 DEF ProcessInv, CallInv, SysPc
  <2> QED BY <1>5, <1>6, <2>1
<1>10. CASE pc \in EdgePc
  <2>1. r15 = Junk /\ rsp \in {Slot(2, U), Junk}
    BY <1>10, AtEdge DEF ProcessInv, EdgeInv, EdgePc
  <2> QED BY <1>2, <1>5, <2>1
<1> QED BY <1>1, <1>3, <1>7, <1>8, <1>9, <1>10 DEF TaskPc

(* The invariant implies TypeOK. *)
LEMMA TypeHolds ==
    ASSUME ProcessInv
    PROVE  TypeOK
<1>1. PICK n \in Nat : n = Size
  BY DEF ProcessInv, TableInv
<1>2. /\ Table(pcbs, n) /\ pages \in Seq(PageUses)
      /\ processID = 1 .. n /\ pid = IF n = 0 THEN 1 ELSE n
      /\ Len(forkedIn) = n /\ n <= 2 + MaxForks
  BY <1>1 DEF ProcessInv, TableInv
<1>3. pcbs \in [1 .. n -> Pcb] /\ Len(pcbs) = n /\ DOMAIN pcbs = 1 .. n
  BY <1>1, <1>2 DEF Table, Size
<1>4. ASSUME NEW i \in 1 .. n
      PROVE  /\ pcbs[i].pid \in Int /\ pcbs[i].rsp \in Int /\ pcbs[i].next \in Int
             /\ pcbs[i].rsp2 \in {"junk", "zero", "rsp"} \X (Contexts \cup {Nobody})
             /\ DOMAIN pcbs[i].kstack \subseteq 0 .. 511
             /\ \A m \in DOMAIN pcbs[i].kstack : pcbs[i].kstack[m][1] \in StackWord
  <2>1. pcbs[i] \in Pcb
    BY <1>3
  <2>2. PICK st \in Stacks : st = pcbs[i].kstack
    BY <2>1 DEF Pcb
  <2>3. DOMAIN st \subseteq 0 .. 511 /\ \A m \in DOMAIN st : st[m] \in Words
    BY StackIs
  <2>4. \A m \in DOMAIN st : st[m][1] \in StackWord
    BY <2>3 DEF Words
  <2> QED BY <2>1, <2>2, <2>3, <2>4 DEF Pcb, Whose
<1>5. processID \subseteq 1 .. MAX_PROCESS - 1 /\ pid \in 1 .. MAX_PROCESS
  BY <1>2, Sizes, LayoutOK, FramesFit
<1>6. currentTask \in 0 .. n /\ gs \in 0 .. n /\ kernelGs \in 0 .. n
  <2>1. CASE pc \in TaskPc
    <3>1. Size >= 2 /\ currentTask = 2
      BY <2>1 DEF ProcessInv, TaskInv
    <3>2. gs \in {0, 2} /\ kernelGs \in {0, 2}
      <4>1. CASE pc \in EdgePc
        BY <4>1, AtEdge
      <4>2. CASE pc \in SysPc
        BY <4>2, InCall
      <4>3. CASE pc \in {"test3", "switchToRing3", "user"}
        BY <2>1, <4>3 DEF ProcessInv, TaskInv
      <4> QED BY <2>1, <4>1, <4>2, <4>3 DEF TaskPc
    <3> QED BY <1>1, <3>1, <3>2
  <2>2. CASE pc \in BootPc
    <3>1. gs = 0 /\ kernelGs \in {0, 2} /\ (kernelGs = 2 => Size = 2)
      BY <2>2 DEF ProcessInv, BootInv
    <3>2. \/ currentTask = Size
          \/ Size = 2 /\ currentTask = 1
      BY <2>2 DEF ProcessInv, BootInv, BootPc
    <3> QED BY <1>1, <3>1, <3>2
  <2> QED BY <2>1, <2>2 DEF ProcessInv, TableInv
<1>7. rsp \in Int /\ r15 \in Int
  BY PointersAre
<1>8. \A i \in DOMAIN pcbs :
         /\ pcbs[i].pid \in Int /\ pcbs[i].rsp \in Int /\ pcbs[i].next \in Int
         /\ pcbs[i].rsp2 \in {"junk", "zero", "rsp"} \X (Contexts \cup {Nobody})
         /\ DOMAIN pcbs[i].kstack \subseteq 0 .. 511
         /\ \A m \in DOMAIN pcbs[i].kstack : pcbs[i].kstack[m][1] \in StackWord
  BY <1>3, <1>4, ZenonT(30)
<1>9. /\ currentTask \in 0 .. Len(pcbs) /\ gs \in 0 .. Len(pcbs)
      /\ kernelGs \in 0 .. Len(pcbs) /\ Len(forkedIn) = Len(pcbs)
  BY <1>2, <1>3, <1>6
<1> QED BY <1>2, <1>5, <1>7, <1>8, <1>9 DEF TypeOK, PageUses

(* The kernel stays well typed through boot, system calls, interrupts and     *)
(* forks.                                                                     *)
THEOREM TypeCorrect == Spec => []TypeOK
BY AlwaysProcessInv, TypeHolds, PTL

(* yield2 comes by every process and no id is given twice (addPCB,            *)
(* getProcessID), whatever kprintf, addPCB and interrupts write below the     *)
(* kernel stack.                                                              *)
THEOREM RingCorrect == Spec => []RingVisitsAll
<1>1. ASSUME ProcessInv PROVE RingVisitsAll
  <2>1. PICK n \in Nat : n = Size
    BY <1>1 DEF ProcessInv, TableInv
  <2>2. Table(pcbs, n) /\ Len(pcbs) = n
    BY <1>1, <2>1 DEF ProcessInv, TableInv, Size
  <2> QED BY <2>2 DEF Table, RingVisitsAll
<1> QED BY <1>1, AlwaysProcessInv, PTL

(* swapgs in syscallHandler and yield2 is balanced: gs is the PCB of the      *)
(* running process in every system call and the program never has it.         *)
THEOREM GsCorrect == Spec => []GsIsCurrentTask
<1>1. ASSUME ProcessInv PROVE GsIsCurrentTask
  <2>1. pc = "user" => pc \in TaskPc /\ pc \notin SysPc /\ pc \notin EdgePc
    BY DEF TaskPc, SysPc, EdgePc
  <2>2. pc = "user" => kernelGs = currentTask /\ gs = 0
    BY <1>1, <2>1 DEF ProcessInv, TaskInv
  <2>3. pc \in SysPc => gs = currentTask /\ kernelGs = 0
    BY <1>1, InCall
  <2>4. pc \in EdgePc => gs = currentTask /\ kernelGs = 0
    BY <1>1, AtEdge
  <2>5. pc \in InSyscall => pc \in SysPc \/ pc \in EdgePc
    BY DEF InSyscall, SysPc, EdgePc
  <2> QED BY <2>2, <2>3, <2>4, <2>5 DEF GsIsCurrentTask
<1> QED BY <1>1, AlwaysProcessInv, PTL

(* syscallHandler gives the program back its registers, its stack pointer     *)
(* and its kernel stack level, with interrupts at every point between.        *)
THEOREM SyscallCorrect == Spec => []SyscallIsTransparent
<1>1. ASSUME ProcessInv, pc = "user"
      PROVE  /\ user.regs = Registers(ctx) /\ user.rsp = Word("rsp", ctx)
             /\ pcbs[currentTask].rsp = Slot(currentTask, 501 - TestWords)
  <2>1. pc \in TaskPc
    BY <1>1 DEF TaskPc
  <2>2. /\ user = [regs |-> Registers(ctx), rsp |-> Word("rsp", ctx)]
        /\ currentTask = 2 /\ pcbs[2].rsp = Slot(2, U)
    BY <1>1, <2>1 DEF ProcessInv, TaskInv
  <2> QED BY <2>2 DEF U
<1>2. ProcessInv => SyscallIsTransparent
  BY <1>1 DEF SyscallIsTransparent
<1> QED BY <1>2, AlwaysProcessInv, PTL

(* context_switch loads all registers of a system call, and rax. *)
LEMMA RegistersAre ==
    ASSUME NEW c
    PROVE  /\ DOMAIN Registers(c) \subseteq {SwitchSaves[j] : j \in 1 .. 14}
           /\ "rax" \notin DOMAIN Registers(c)
           /\ "rax" \in {SwitchSaves[j] : j \in 1 .. 14}
           /\ \A r \in DOMAIN Registers(c) : Registers(c)[r] = Word(r, c)
<1>1. DOMAIN Registers(c) = {SyscallSaves[j] : j \in 1 .. 13}
  BY SyscallSavesDiffer, 1 \in 1 .. 13 DEF Registers
<1>2. {SyscallSaves[j] : j \in 1 .. 13} \subseteq {SwitchSaves[j] : j \in 1 .. 14}
  <2>1. \A j \in 1 .. 13 : SyscallSaves[j] = SwitchSaves[j + 1] /\ j + 1 \in 1 .. 14
    BY DEF SyscallSaves, SwitchSaves
  <2> QED BY <2>1
<1>3. \A j \in 1 .. 13 : SyscallSaves[j] # "rax"
  BY DEF SyscallSaves
<1>4. SwitchSaves[1] = "rax" /\ 1 \in 1 .. 14
  BY DEF SwitchSaves
<1> QED BY <1>1, <1>2, <1>3, <1>4 DEF Registers

(* What Ready says of a stack is what a switch to it needs. *)
LEMMA ReadyChild ==
    ASSUME NEW i \in Nat, NEW c \in Whose, Ready(pcbs, i, c)
    PROVE  LET n == pcbs[i].rsp - Slot(i, 0)
           IN  /\ Switched(pcbs[i].kstack, n).address[1] = "syscallHandler+53"
               /\ \A r \in DOMAIN Registers(c) \ {"r15"} :
                     Resumed(pcbs[i].kstack, n)[r] = Word(r, c)
               /\ Resumed(pcbs[i].kstack, n)["rax"] = Zero
               /\ pcbs[i].rsp2 = Word("rsp", c)
               /\ Switched(pcbs[i].kstack, n).top + Len(SyscallSaves)
                    = 501 - TestWords
<1>1. PICK k : k = pcbs[i].kstack
  OBVIOUS
<1>2. /\ k[S - 1] = Word("syscallHandler+53", Nobody)
      /\ \A m \in S - 16 .. S - 2 : k[m] = Zero
      /\ \A j \in 1 .. 13 : k[U - j] = Word(SyscallSaves[j], c)
      /\ pcbs[i].rsp = Slot(i, S - 16) /\ pcbs[i].rsp2 = Word("rsp", c)
  BY <1>1 DEF Ready
<1>3. /\ S \in Int /\ S - 16 \in Int /\ U = S + 13 /\ S - 16 + 15 = S - 1
      /\ S - 16 + 16 = S /\ U = 501 - TestWords
  BY Sizes DEF U
<1>4. pcbs[i].rsp - Slot(i, 0) = S - 16
  <2>1. Slot(i, S - 16) - Slot(i, 0) = S - 16
    BY <1>3, SlotIs
  <2> QED BY <1>2, <2>1
<1>5. Len(SyscallSaves) = 13 /\ Len(SwitchSaves) = 14
  BY SyscallSavesDiffer, SwitchSavesDiffer, 1 \in 1 .. 13, 1 \in 1 .. 14
<1> DEFINE names == {SwitchSaves[j] : j \in 1 .. 14}
           new == Switched(k, S - 16)
           res == Resumed(k, S - 16)
<1>6. new.address = Word("syscallHandler+53", Nobody) /\ new.top = S
  BY <1>2, <1>3, <1>5 DEF Switched
<1>7. DOMAIN new.regs = names /\ \A r \in names : new.regs[r] = Zero
  <2> DEFINE at(r) == CHOOSE j \in 1 .. 14 : SwitchSaves[j] = r
  <2>1. new.regs = [r \in names |-> k[S - 16 + 14 - at(r)]]
    BY <1>5 DEF Switched
  <2>2. \A j \in 1 .. 14 : at(SwitchSaves[j]) = j
    BY SwitchSavesDiffer
  <2> HIDE DEF new, at
  <2>3. ASSUME NEW r \in names PROVE new.regs[r] = Zero
    <3>1. PICK j \in 1 .. 14 : r = SwitchSaves[j]
      OBVIOUS
    <3>2. at(r) = j
      BY <2>2, <3>1
    <3>3. S - 16 + 14 - j \in S - 16 .. S - 2
      BY <1>3
    <3>4. new.regs[r] = k[S - 16 + 14 - at(r)]
      BY <2>1
    <3> QED BY <1>2, <3>2, <3>3, <3>4
  <2> QED BY <2>1, <2>3
<1>8. Popped(k, S) = Registers(c)
  <2>1. \A j \in 1 .. 13 : S + 13 - j = U - j
    BY <1>3
  <2>2. \A j \in 1 .. 13 : k[S + 13 - j] = Word(SyscallSaves[j], c)
    BY <1>2, <2>1
  <2> QED BY <1>3, <2>2, PoppedIs
<1>9. res = [r \in names |-> IF r \in {"rax", "r15"} THEN new.regs[r]
                             ELSE Registers(c)[r]]
  BY <1>6, <1>7, <1>8 DEF Resumed
<1> HIDE DEF names, new, res
<1>10. ASSUME NEW r \in DOMAIN Registers(c) \ {"r15"}
       PROVE  res[r] = Word(r, c)
  <2>1. r \in names /\ r # "rax" /\ Registers(c)[r] = Word(r, c)
    BY RegistersAre DEF names
  <2> QED BY <1>9, <2>1
<1>11. res["rax"] = Zero
  <2>1. "rax" \in names
    BY RegistersAre DEF names
  <2> QED BY <1>7, <1>9, <2>1
<1>12. new.address[1] = "syscallHandler+53" /\ new.top + Len(SyscallSaves) = 501 - TestWords
  BY <1>3, <1>5, <1>6 DEF Word
<1> QED BY <1>1, <1>2, <1>4, <1>10, <1>11, <1>12 DEF new, res

(* A child that copyParentStacks made can be switched to and goes on as its   *)
(* parent did at that fork, with 0 from fork; also while further system       *)
(* calls, forks and interrupts come.                                          *)
THEOREM ChildCorrect == Spec => []ChildReturnsLikeParent
<1>1. ASSUME ProcessInv PROVE ChildReturnsLikeParent
  <2>1. PICK n \in Nat : n = Size
    BY <1>1 DEF ProcessInv, TableInv
  <2>2. DOMAIN pcbs = 1 .. n /\ forkedIn \in Seq(Whose) /\ Len(forkedIn) = n
    BY <1>1, <2>1 DEF ProcessInv, TableInv, Table
  <2>3. \A i \in 1 .. n : i \in Nat /\ forkedIn[i] \in Whose
    BY <2>2, LenProperties
  <2>4. \A i \in 1 .. n : pcbs[i].isChild /\ pcbs[i].rsp # Junk => Ready(pcbs, i, forkedIn[i])
    BY <1>1, <2>1 DEF ProcessInv, ChildInv
  <2> QED BY <2>2, <2>3, <2>4, ReadyChild DEF ChildReturnsLikeParent
<1> QED BY <1>1, AlwaysProcessInv, PTL

(* Before the first fork no print and no interrupt writes below pcbList. *)
THEOREM ListCorrect == Spec => []StaysInListUntilFork
<1>1. ProcessInv => StaysInListUntilFork
  BY DEF ProcessInv, ListInv, StaysInListUntilFork, Size
<1> QED BY <1>1, AlwaysProcessInv, PTL
===============================================================================
