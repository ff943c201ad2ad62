# A verification project for the SBUNIX kernel

The repository holds a small 64-bit teaching kernel (`sys/`, `include/`), its
shell (`bin/sbush/`), and a vendored gdb that nothing here concerns. The modules
in this directory are TLA+ specifications translated from the kernel's sources,
TLC configurations that check them on small instances, and proofs for TLAPS.
Paths below are relative to `src/`.

Contents: [the system](#the-system) · [modules](#the-modules-and-the-code) ·
[runs](#the-runs) · [proofs](#the-proofs) · [only model-checked](#only-model-checked) ·
[findings](#where-code-and-documentation-disagree) ·
[not modelled](#what-is-not-modelled) · [further work](#further-work).

## The system

The kernel boots from the boot loader's memory map (`sys/main.c`), builds a
page-descriptor table and its own page tables, creates two PCBs, and enters the
shell as the one program. From then on the kernel runs only in system calls and
interrupts.

### Inventory

| component | state | operations | talks to |
|---|---|---|---|
| **Physical page allocator** `sys/memoryAllocator.c`, `sys/main.c` | descriptor table, `freeListHead`, `firstFreeLocation`, `newPhysfree`, kernel page tables | `populatePageDescriptor`, `excludeUnavailableMemory`, `pagingSetup`, `mapKernel`, `mapEntireMemory`, `remapNextPointers`, `getFreePage`, `getFreePages`, `kmalloc` | called by everything that needs a page; a fault on a kernel address ends in the page fault handler |
| **Terminal** `sys/term.c`, `sys/isr.c`, `sys/kbInt.s`, `sys_read` | `sys_buffer_write[10][128]`, `valid[10]`, `soffset`, `sbuffer`, `read_ptr`, shift and control flags | `kbInt_handler` → `term_write` (interrupt), `sys_read` → `term_read` (system call) | shares the ring between interrupt and system call, without a lock |
| **Processes** `sys/scheduler.c`, `sys/cs.c`, `sys/contextSwitch.s`, `sys/switch_Ring3.s` | `pcbList`, `currentTask`, `processID[]`, GS base and KERNEL_GS_BASE | `addPCB`, `getProcessID`, `init_process2`, `yield2`, `context_switch`, `switchToRing3` | PCBs hold the kernel stacks on which system calls and interrupts run |
| **System calls, fork** `sys/syscalls.c` | registers, kernel stack | `syscallHandler`, `sys_write`, `sys_fork` with `copyParentStacks`, `updateRAX` | console, terminal, processes, address spaces, files |
| **Address spaces** `sys/pageFaultHandler.c`, `sys/processLoader.c`, `sys/memoryAllocator.c`, `sys/syscalls.c` | VMA list, four levels of page tables | `handlePageFault`, `mapVirtualAddress`, `enterVMAdetails`, `copyPageTableStructure` | allocator, loader, fork |
| **Program loader** `sys/elfParser.c`, `sys/processLoader.c` | – | `parseElf`, `processPreloading`, `copyToPrcMem`, `assignUserStack` | tarfs, address spaces |
| **Console** `sys/kprintf.c` | `video`, `line`, `count` | `kprintf`, `scrolldown`, `clearLine` | written by system calls and by the keyboard and timer interrupts |
| **Files** `sys/tarfsOps.c`, `sys/fileDescriptor.c` | descriptor slots, offsets | `sys_open`, `sys_read`, `sys_close`, `searchTarfs` | archive linked into the kernel image |
| **AHCI driver** `sys/ahci.c` | port registers, command slots | `find_cmdslot`, `read2`, `write2`, `port_rebase` | nothing calls it |
| **Timer** `sys/timer.c`, `sys_sleep` | tick and second counters | `tick_timer`, `sys_sleep` | draws the clock on the console |
| **Shell** `bin/sbush/sbush.c` | `inputBuffer`, argument buffers | `splitString`, built-in commands | system calls |
| **Hardware tables** `sys/gdt.c`, `sys/isr.c`, `sys/io.c`, PIC and PIT | – | straight-line set-up | – |

### What is hard in it

- *Interrupts everywhere.* `SFMASK` is never written, so a system call runs with
  interrupts enabled: the keyboard interrupt comes between any two instructions
  of `sys_read`, `kprintf` and `sys_fork`. An interrupt itself runs to its end
  (interrupt gates).
- *One region for stacks and control data.* Kernel stacks of 4096 bytes lie in
  the PCBs, the PCBs lie one behind the other, and two functions (`kprintf`
  with its 5000-byte array, `addPCB` with a whole `struct task_struct`) need
  more than that stack has.
- *Bootstrapping.* The allocator writes the page tables that will map the very
  table it walks, takes pages for that from the list it is mapping, and then
  swaps all pointers to virtual ones. Several loops must agree on one bound.
- *Hand-built stack frames.* `init_process2` and `copyParentStacks` lay out
  words by hand that `context_switch` and `syscallHandler` pop.
- *Fixed limits nobody checks*: rows of the terminal, pages of the PCB list, the
  end of the free list, the end of a page table, words of a command line.
- *A handler that faults itself.* The copying branch of `handlePageFault` reads
  the page whose absence it was called for; and it moves a page under the TLB,
  which nothing flushes once the program runs.
- *One cursor for two writers.* `kprintf` of a system call and the keyboard's echo
  change `video`, `line` and `count` without a lock.
- *C strings without a bound.* The shell looks for a `'\n'` or a `'\0'` wherever
  the next one is, in words that earlier commands and the loader have filled.

What makes each component correct: the allocator must hand out real memory, each
frame once, and clear that and nothing else; the terminal must be a queue of
lines; the process ring must visit every process and a system call must be
transparent to its caller; a forked child must be resumable; an address space
must contain what its VMAs promise and share nothing writable after a fork; the
console cursor must stay on the screen; descriptors and archive searches must
stay within their tables. `PROJECT.json` lists the hazards with their lines.

## The modules and the code

| module | stands for |
|---|---|
| `FramePool` | abstract: a pool of frames, runs of adjacent frames leave it, none comes back |
| `PageAllocator` | `start`'s memory map, `initializeMemory`, the kernel page tables, `getFreePage(s)`, `kmalloc` |
| `PageAllocator_proofs` | type correctness and the safety properties of `PageAllocator`; it implements `FramePool` |
| `LineQueue` | abstract: what a program may expect of `read(0, ...)` |
| `Terminal` | keyboard interrupt, line ring, `sys_read` on descriptor 0, `term_read` |
| `Terminal_proofs` | type correctness, `BacklogIsValid` and `FirstRoundIsExact` of `Terminal`; it implements `LineQueue` |
| `Processes` | process table, the boot to user mode, system calls, printing, fork |
| `ProcessFrames` | what the sizes of the compiled kernel have to be for `Processes`' stacks to work |
| `Processes_proofs` | all properties of `Processes` that hold, for every size that `ProcessFrames` admits |
| `VirtualMemory` | abstract: the flat memory a program may expect |
| `AddressSpace` | ELF loader, page tables, VMAs, the page-fault handler, fork's copies, the TLB |
| `AddressSpace_proofs` | the shape of the page tables: types, `FramesAreTrees`, `ChildSharesPages` |
| `AddressSpace_memory` | `AddressSpace` implements `VirtualMemory`; `LoadedExactly` |
| `Console` | `kprintf` and `scrolldown` with the echo inside of them; `tick_timer` and `sys_sleep` |
| `Console_proofs` | type correctness, cursor, screen and sleep of `Console` |
| `Files` | `searchTarfs`, `open`, `close`, `fileRead` and the descriptor slots |
| `Files_proofs` | all properties of `Files` that hold |
| `Shell` | sbush: `readInput`, `splitString` and the commands over their fixed words |
| `Shell_proofs` | all properties of `Shell` |
| `MC…` | values of the constants for TLC |

### PageAllocator

*Units.* Every address is counted in page descriptors (32 bytes), because the
table lies in the same memory as everything it describes: descriptor `i` is at
address `Slot(i)`. `PageSize` is 128 in the kernel. A kernel virtual address is
its offset from `kernmem`; `kpt` is the mapping the kernel page tables give.

*Actions.* `PopulatePageDescriptor` is one iteration of that function's loop,
`NextCall` the loops of `initializeMemory` that call it for a region, the hole
behind it, and the last region; `ExcludeUnavailableMemory` is the whole second
pass. `PagingSetup` takes the four paging pages, `MapKernel`, `NewPageTable` and
`MapFrame` are iterations, `RemapNextPointers` is `enablePaging` with the pass
over the table. Afterwards `GetFreePageCall` and `Kmalloc`, `GetFreePagesWalk`,
`GetFreePagesReturn` serve requests. A dereference of an address that is not
mapped is the action that faults: `handlePageFault` finds no VMA and loops, so
`pc = "hang"` and `HangForever` is the loop. There is no free operation in the
kernel. `granted` is history: each answer and the frames `memset` really cleared
through `kpt`.

*Why `LayoutOK`.* The kernel makes assumptions about the machine it never
checks. `LayoutOK` names them (regions in order, the image in the last region,
one page table up to `newPhysfree`, enough mapped frames for the boot itself).
It is assumed of every boot layout, and TLC evaluates it for each it runs.
`AlignmentOK` adds that the image is linked at a page boundary (`physbase` of
`sys/linker.script`) and that the memory map counts addresses from 0; only the
safety proofs need it, where the image's last page decides which frame comes first.

### Terminal

The ring is one function from addresses to characters, so that a long line runs
into the next row as it does in memory. `kbInt_handler` is one action, since the
interrupt is atomic; `sys_read` is four: the call, the poll that sees a valid
row (`Poll`), one `CopyByte` per iteration, and `Release`. `typed`, `line`,
`reads` are history variables, `overrun` and `wide` record that a row was
written before it was read, or that a line was longer than a row. Nothing calls
`initialize()` of `term.c`; the zeros of the BSS are `Init`.

### Processes

Memory from `pcbList` on is counted in 8-byte words, with the kernel's true sizes: the
PCB has 1423 words, `finalArray` 625, so every print from a system call really writes
below its kernel stack. `Printed`, `Adding` and `Interrupting` are the sets of words
those frames write, `Overwritten` is what becomes of the fields hit. `pages` records
what each page behind `pcbList` is used for. Stack words are pairs `<<what, whose>>`;
`Pushed`, `Switched` and `Popped` are the pushes and pops of `sys/contextSwitch.s` and
`syscallHandler` in order. `syscallHandler` is taken step by step on both sides of the
call: the swap of the GS bases (`SyscallEntry`), the load of the kernel's stack pointer
(`LoadRsp`), the pushes, the pops, the stack pointers' change back (`RestoreRsp`), and
`swapgs` with `sysret` (`SyscallExit`). Interrupts come between any two of them; from
`SyscallEntry` to `LoadRsp` and from `RestoreRsp` to `SyscallExit` they find the kernel
on the program's stack, and write there (`rsp` is `Junk`, which keeps them off the
PCBs). Nothing of the program is in use below its stack pointer: the `Makefile` compiles
kernel and programs alike with `-mno-red-zone`. `kprintf` and `Printing` separate the
copy from the return, so that an interrupt comes while the long frame is on the stack;
fork is three steps (`ForkAdds`, `ForkTakesPages`, `copyParentStacks`). `BootStack` and
`Junk` are markers: init runs on the boot loader's stack, far away, and interrupts in
user mode use the TSS's; neither writes what is modelled here. One thing is left out of
the two windows: if the page below the program's stack pointer is not mapped yet, the
interrupt's frame faults, the gate of the fault has no stack of its own, and the machine
resets. That is a matter of the program's stack pages, which are `AddressSpace`'s. The
timer interrupt needs less stack than the keyboard's and is left out.

*`ProcessFrames`.* Nothing in the code keeps what is written below a stack away from
fields that are read again; that it mostly works is a matter of sizes. `FramesFit`
says of which: the next lower PCB's unused part must take `finalArray`, its text must
end before that PCB's `next`, and so on. The compiled kernel meets it for texts up to
150 words (1200 characters); `long_write` shows what a longer one does.

Only init calls `yield2`, once, with two PCBs in the table, and the call in
`sys_fork` is commented out: the model has one switch because the kernel has.

### AddressSpace

A page table is named by its level and the part of the page number that leads to
it, so that `tables` is one function for all four levels: `<<0, 0>>` is the PML4 and
`<<Levels, p>>` the entry of page `p`. `data` are the contents of frames, `free` the
next frame of `getFreePage` (in order and without an end but the last frame: what
`PageAllocator` shows). `NextSegment` is an iteration of `parseElf`, `CopyWord` one
of `copyBytes`, `EnterProgram` is `switchToRing3`. An access of the loader or the
program is `access`; the processor performs it (`Perform`) or faults (`Fault`),
which begins an activation of `handlePageFault` in `faults`. `MapPage` is the plain
branch; the copying branch is `BeginCopy`, perhaps a nested `Fault` and `MapPage`,
and `FinishCopy`. `RejectAddress` is the handler's endless loop, `RunOut` an
exhausted allocator. `Evict` is the processor dropping a translation, `Fork` is
`copyPageTableStructure` with the VMAs. `tlb` and `Evict` are external: they are the
x86's rules, as far as the code depends on them. `snapshot` is history for the
refinement. `Pages[n]` are the pages below a table `n` levels above them.

*Assumptions.* `VmasFit`: segments and stack lie inside the address space, as a linked
program does; the handler takes the indices of a faulting address modulo the table's
size, so that beyond it two addresses would name one page. `AccessesFit`: a program header
starts at a multiple of a word, so that no word `copyBytes` stores crosses a page or has the
bits `cowBitSet` tests (the programs of `rootfs/bin` are linked at 0x400000, 0x601000 and
0), and an access of the program lies in one page (the processor splits those that do not).

`Flat == INSTANCE VirtualMemory` maps the flat memory to what the program would load
from each address: through the TLB, else through the tables, else zero.
`VirtualMemory` allows one thing a flat memory does not have, and names it: a page
that was moved may once fall back to its contents at the move.

### Console

`kprintf`'s loop is modelled load by load and store by store, as the compiler
orders them (`-O1`; `count` and `line` are compared in a register after the
increment), because `Echo` - the keyboard interrupt's own `kprintf` - comes between
any two of them. `'\r'` loads `count`, then `video` (`StepBack`), and shares its store
with `'\n'` (`StoreStart`). `pc` names the next load or store, `reg` is the register. `text` is
what a terminal with a cursor of its own would show (`Typed`); `raced`, `touched`
and `skewed` remember that an echo came inside of a character. `slept` counts timer
ticks since `sys_sleep` began. A sleep loads `currentTime` alone, so `sys_sleep` and
`Wake` are one action each. The formatting before the loop and the row of the
clock, which has columns of its own, are left out.

### Files

`searchTarfs` is the function `Visit`: where the loop is after `k` iterations, in
arithmetic modulo `Wrap` (2^64 in the kernel), since the step starts at -1 and only
the wrap makes it one block. `fdArr[-1]` is the end of `ustack`, what the code reads
for a failed open, and a read through it (`fileReadAstray`) moves the offset there, too,
to a value the model does not follow (`Unset`), as it is in a slot no open has set.
`initializeFd` leaves a slot free as the code does. `got` is
history: what was read through a slot since an open set it.

*Assumptions.* `ArchiveOK`: the archive is whole blocks, and `Wrap` is a multiple of a
block that the archive is below, as 2^64 is. `ContentsOK` is what `tar` writes: headers
at blocks in the order of the files, a `'\0'` behind a name, `'\0'`s from the end of a
text to the end of its last block. `NamesOK`: a name is a C string no longer than a
block, so the comparison stays within a header's block.

### Shell

`buffer` is one array of `Words * Room` characters and a word is a C string in it.
`WordEnd` and `WordStart` are the positions at which the loop of `splitString` calls
`copyString`: before the `w`-th blank and behind the one before it. A word has no bound, so it
may run into the next row, which the next word then overwrites; and a word behind the array
leaves it and may cover `prompt`, the pointer behind it (`prompt` becomes FALSE, and
then `displayPrompt` may fault). `bufptr[count] = NULL` goes past that array from ten
words on: in the binary kept in `rootfs/` it hits padding or the line just split, so that
nobody reads it. The `'\n'` that `sleep` and `cat` look for is found anywhere from the
second word on (`WithArgument`), or not before the end of the page (`RunOff`; no byte of
the page behind the array is a `'\n'` in that binary). `cat` does not test what `open`
returned, so that for a name that is not `Openable` the command comes back or hangs in the
kernel (`NotFound`; `files_missing` shows the read). `Images` is what the words hold at the
start: the loader copies `p_memsz` bytes of the file, so `.bss` is not zero. A line is
what `read` leaves in `inputBuffer` up to the first `'\0'`: stale tails as `Terminal`
shows them, and lines cut by a key without a character, which types a `'\0'`
(`isr.c:188-197`), are among the `Lines`. `left` is history: the second word that the
lines so far have left.

*Assumptions.* `ShellOK` gives the array at least two words and a row at least one cell,
and keeps the command names apart from each other and from `'\0'`, blank and `'\n'`.
Lines are any strings without a `'\0'`, images any bytes.

### How they fit together

The modules share no variable. Each takes of another what that one's properties
give it: `AddressSpace` and `Processes` take fresh, adjacent frames
(`ImplementsFramePool`); `Console` and `Terminal` run in a program that is the only
one running and that system calls give back its registers (`SyscallIsTransparent`);
`Shell` reads lines that may have stale tails (`FirstRoundIsExact` says when) in a
memory that behaves like `VirtualMemory`, and calls `Files` with names that need not
exist.

## The runs

| run | module | expects | question |
|---|---|---|---|
| `page_allocator` | `MCPageAllocator` | pass | from the memory map to exhaustion: is every answer fresh, adjacent, cleared memory; does the list survive the clearing; is it a `FramePool`? |
| `descriptor_table` | `MCPageAllocator` | violation | is the descriptor table in front of what is handed out, as its comments say? |
| `terminal` | `MCTerminal` | pass | is the ring a queue of lines at every interleaving, and does a waiting read return? |
| `process_table` | `MCProcessTable` | pass | do ring, GS base, registers, kernel stacks and forked children survive system calls and interrupts? |
| `long_write` | `MCProcesses` | violation | does the program survive a print of 5000 characters? |
| `pcb_capacity` | `MCProcesses` | violation | does a third fork get a PCB of its own? |
| `address_space` | `MCAddressSpace` | pass | do loading, demand faults, copies inside faults, evictions and forks leave the program one flat memory? |
| `cow_marks` | `MCAddressSpace` | violation | does the handler copy the pages that fork marked? |
| `console` | `MCConsole` | pass | does the cursor survive echoes inside of `kprintf`, is the screen right without them, does sleep keep its time? |
| `files` | `MCFiles` | pass | does open find the file, and do reads return it in order? |
| `files_missing` | `MCFiles` | violation | are only files read that open has found? |
| `shell` | `MCShell` | pass | what argument does a command get, whatever is left in the words, and on which lines does the shell hang? |

### Properties

*`page_allocator`.* `NoDoubleGrant`: no two answers overlap. `GrantsAreMemory`:
each answer is in one available region, not in the image and not in video memory.
`ClearsWhatItGrants`: `memset` of `count` pages from the first one clears exactly
the `count` frames unlinked. `FreeListIntact`: although the table's tail lies in
frames that are handed out and zeroed, no descriptor still to be delivered is
wiped. `HangsOnlyWhenExhausted`: the kernel hangs only when fewer mapped frames
are left than asked for. `ImplementsFramePool`: refinement with the mapping
`free <- FreeFrames`.

*`terminal`.* `BacklogIsValid`: `valid[]` marks precisely the rows of the unread
lines, and an overrun needs a full ring. `FirstRoundIsExact`: until a row is used
again, the string the shell parses is the typed line (later a row holds the tail
of a longer line, because rows are never cleared). `ImplementsLineQueue`:
refinement; no interleaving gives a torn, repeated or skipped line until an
overrun or a line longer than a row. `LineIsRead`: a read that polls while a line
is unread returns.

*`process_table`.* `RingVisitsAll`: following `next` passes every PCB once and ids are
unique, whatever is written below a stack (as the array order is the one of `sys_ps`,
that is `next = i + 1`, and 1 for the last). `GsIsCurrentTask`: `swapgs` is balanced.
`SyscallIsTransparent`: registers, stack pointer and kernel stack level are as before,
whatever interrupts came at any step of the call. `ChildReturnsLikeParent`: the
hand-built frame of a forked child resumes with the parent's registers and 0 in `rax`.
`StaysInListUntilFork`: with two processes nothing below `pcbList` is written. With a
fork an interrupt during `addPCB`'s frame does reach the page in front of it: that is
outside of this property, and no property forbids it, as it is what the code does.

*`address_space`.* `FramesAreTrees`: every mapped page is reached through present
tables, and no frame has two uses but for the pages a child shares with its parent.
`ChildSharesPages`: no later fault or copy maps a page anew that a child was given.
`LoadedExactly`: after the last word, memory holds the whole words of the program
headers, and zeros where `copyBytes` leaves a header's last bytes out. It takes
`p_memsz` bytes of the file for what a header holds, as `copyToPrcMem` does; that the
file has only `p_filesz` of them is not something it could catch.
`ImplementsVirtualMemory`: the refinement above, of the one program that runs; a child's
memory is the subject of the two properties before, as no child ever accesses it.
`AccessCompletes`: no access faults for ever.

*`console`.* `CursorOnScreen`: between characters, `line` and `count` are on the
screen, although echoes may skip past a comparison. `NewlineRepairs`: an
undisturbed `'\n'` makes `video` agree with them again. `ScreenShowsText`: until an
echo falls inside of a character, the screen shows the text and the row of the
clock is left alone. `SleepsLongEnough`: `sleep(n)` takes more than `n - 1` seconds
if `n` fits an `int`; of an argument that does not, for which `atoi` may give a negative
number, it says nothing. `SleepEnds`.

*`files`.* `OpenFindsFile`: the block-by-block search finds the first file whose
name begins with the one asked for, and none if there is none, unless a block of
some text looks like its header. `ReadsFileInOrder`: pieces of any sizes are the
text in order, and come up short only at its end - for texts without `'\0'` that
do not fill their last block, read through the newest descriptor. (All opens share one
slot, so an older descriptor reads on in the newer file; and a text that fills its
block is read on into the next header. The property says nothing of these.)

*`shell`.* `ArgumentIsWord`: a command with an argument shorter than a row gets exactly
the second word of its own line, `sleep` and `cat` without its `'\n'` - however many words
the line has, whatever is in the words, and although a blank in a stale tail counts.
`ArgumentIsLeft`: a command without one gets what the lines before have left:
nothing after an `echo`, `sleep` or `cat`, but after `ps`, an unknown command and at the
start the second word of the last line that had one since, or of the loaded image.
`HangsOnlyOnBadLine`: while the prompt is whole, the shell hangs in no command but
`sleep` and `cat`, and in these only on a line without a `'\n'` behind a blank, on one with
a second or later word too long for its row, or on a `cat` of a file that is not there.

### Bounds, and why they suffice

- `page_allocator`: pages of 4 descriptors and machines of about 40 pages, four
  maps: a table end inside a page and at a page start, one region, and unaligned
  bases with an empty entry and holes with and without a descriptor of their own.
  Page tables of 16 entries, so that `mapEntireMemory` has to start further
  tables. Requests of one page and of three pages, the latter for a size that is
  a multiple of the page size and for one that is not, run to exhaustion: the
  only counter, the number of requests, is bounded by the memory itself.
- `terminal`: `Rows = 2`, `Width = 3`, `MaxKeys = 5`. Lines of one to four
  characters, a full ring, an overrun, a line that spills out of the last row
  and a row used twice all occur. `Lengths = {2, 4}` is shorter and longer than a
  row. `MaxKeys` bounds the characters typed; the liveness property is not
  affected, since the reader's steps are not bounded.
- `process_table`: real sizes throughout. `MaxForks = 2` because the third fork
  is the subject of `pcb_capacity` (`MaxForks = 3`). `WriteWords = {1, 125}` (up
  to 1000 bytes) stays below the limit of about 1200 characters, which
  `long_write` (`WriteWords = {625}`, `MaxForks = 0`) passes. Two `Contexts`
  tell one call's registers from the next's. `ProgramPages` and `ForkPages`
  are the page tables taken in between; only their order matters.
- `address_space`, `cow_marks`: two levels of three entries suffice for a missing
  table, a present one, and two pages under one table; `CowOffsets = {3}` makes one
  offset of four look marked. `Frames = 12` lets the loader and one fork finish and
  a second one run out. The first program header ends inside a word and does not
  begin at the start of its table, the second is empty as `GNU_STACK` is.
  `MaxChildren = 2`.
- `console`: two rows of three columns reach a full row and a scroll with each
  character; `MaxKeys = 2` echoes at any two places, which is what a lost and a
  doubled increment need. `Second = 2`, `MaxTime = 2`: a sleep can begin in either
  half of a second and be over inside of the bound; `MaxInt = 3999` makes one of the
  two `Times` overflow.
- `files`: blocks of three bytes; a name that is a prefix of two others, a block of
  text that looks like a header, a text that fills its last block, counts below, at
  and above a block. `MaxOpens = 3`; reads are bounded by the archive's end.
- `shell`: three words of six characters. 22 lines: of one to five words (the fourth is
  behind the array), with two blanks, with stale tails, without a `'\n'`, empty, and with
  words longer than a row; at the start zeros, other bytes with and without a `'\0'` in
  each row; one file to open. Sequences of `MaxLines = 3` lines are long enough for a word
  left by the first to reach the third past a command that clears nothing. Some 23,000
  states.
- States: `console` has some 832,000, in less than a minute; `files` 10,000;
  `process_table` 650, as its real sizes and fixed boot leave only calls, forks and
  interrupts to choose.
- Deadlock is checked where the system cannot stop. It is off where it can: the
  loop for an address in no VMA (`address_space`), a hung read or the last of
  `MaxOpens` (`files`), a hung shell or the last of `MaxLines` (`shell`).

### Fairness

`Terminal` has `WF_vars(ReadStep)`: the program that reads is the only one that ever
runs, interrupts return to it, and its three steps are code without another wait;
a step of the read that stays possible is taken. Nothing is assumed of the
keyboard: a line need not ever come. `AddressSpace` has weak fairness of the loader,
the handler and the access (`Load \/ Handle \/ Perform \/ Fault`), for the same
reason, and none of the program's requests, forks or evictions. `Console` has weak
fairness of `Advance \/ Wake`, again as interrupts return, and of `tick_timer`: the
PIT is programmed at boot and system calls leave interrupts enabled.

## The proofs

### `PageAllocator_proofs`: `TypeCorrect == Spec => []TypeOK`

For all constants that meet `ConstantsOK` and `LayoutsOK`. The content is that
the boot loops stay inside their tables: `descs[ptr]` is a descriptor wherever
it is read, and `pteOff` never passes `PtEntries`. `TypeOK` alone is not
inductive; the invariant is `BootInv == TypeOK /\ PopulateInv /\ TableInv`:

- `PopulateInv` counts: while the table is populated, the descriptors made so far
  cover all memory from the first region to the cursor, but for at most one
  descriptor for each ragged end (`Lost`), and the first free descriptor is met
  before the last region ends;
- `TableInv`: after populating, the table reaches past the descriptor at
  `newPhysfree` (hence the loops of `mapEntireMemory` and `remapNextPointers`
  stay within), `mapKernel`'s cursor and `pteOff` advance together, and so
  `pteOff` stays below `PtEntries` by `LayoutOK`'s bound on the image.

One lemma per action; the arithmetic of the populating loop is split off in
lemmas about `RoundUp` and `\div`.

### Answers of the allocator (`PageAllocator_proofs`): five safety properties

`GrantsAreDisjoint` (`Spec => []NoDoubleGrant`), `GrantsAreAvailable`
(`GrantsAreMemory`), `ClearedAreGranted` (`ClearsWhatItGrants`), `ListStaysIntact`
(`FreeListIntact`) and `HangsAreExhaustion` (`HangsOnlyWhenExhausted`), from
`ConstantsOK`, `LayoutsOK` and `AlignmentOK`. None of the five is inductive: each
follows from `SafeInv`, which is inductive together with `BootInv`. Its five parts
follow the free list from the loops that make it to the requests that use it up:

- `CursorInv`: while the table is populated the cursor stays in its region or hole,
  no page is counted twice, and the first free descriptor is that of the one page
  that starts in `(newPhysfree, newPhysfree + PageSize]`;
- `BuildInv` and `ListInv`: descriptor `i` from there on has the address
  `Frame(i)`, is available and leads to `i + 1`, so the list is an arithmetic
  progression. It stays so although the table's own end is handed out and
  cleared, because each descriptor of the list lies before every frame of it
  (`Slot(i) < Frame(F)` for `i` up to the last mapped descriptor);
- `MapInv`: the kernel's page tables map the offset `o` to `PhysBase + o` for all
  offsets below `va`, and frame after frame of the list as `mapEntireMemory`
  proceeds. With it a `memset` of adjacent frames clears those frames and no others;
- `AnswerInv`: the answers are consecutive runs of the list, without a gap, up to
  the descriptor `e` at the head. Where boot still needs frames, `HeadAt(e)` counts
  them: a page table is taken at most every `PtEntries` mapped frames (two is all
  the proof uses), so that the head stays behind the cursor. A walk of
  `kmalloc` that asks for more than is left is `Doomed(e)`: whatever it reads behind
  the list, `memset` would have to clear a frame that is not mapped, so no answer
  can come of it.

One lemma per action; what they share is split off: frames (`FrameIs`), one answer
more (`NextAnswer`), which descriptors a cleared run can touch (`ClearingKeeps`,
`TableStays`), what is writable (`Reach`).

### The pool of frames (`PageAllocator_proofs`): `FramePoolImplemented == Spec => ImplementsFramePool`

`FreeFrames`, the refinement mapping, is defined by descriptors. `FreeIs` rewrites
it as the frames of the list that are in no answer, `AnswersAre` says that answers
are runs of them, one behind the other; both follow from `SafeInv`. Then each step
is mapped: `PopulatePageDescriptor` on or behind the first free descriptor is
`Donate`, a step that appends an answer is `Grant` (its run is free, and what
becomes unfree is the run), and all others leave both variables alone. That
`n` is one of the `Lengths` is `CountStays`: the walk never changes the count that
`kmalloc` computed.

### `Terminal_proofs`: `TypeCorrect` and `BacklogCorrect == Spec => []BacklogIsValid`

For every number and width of rows (`RingOK`, `CharactersOK`). Two strengthenings:
`BufferIsEmpty` (between reads nothing is left of the last one; without it a new,
shorter `length` would break `TypeOK`) and `CopiesValid` (a row being copied is
valid, and no interrupt takes that back): `Release` needs it to know that there
is an unread line to give back. The proof replaces the quantifiers of
`BacklogIsValid` by the set `RowsOf(R, T, n)` of rows of the lines from `R` to
`T - 1`, and shows that a line more adds exactly its own row (`RowTaken`), a line
less removes exactly its own (`RowGivenBack`, where the ring's size enters: two
lines fewer than `n` apart have different rows), and that a free row for the
next line means the ring is not full (`RoomForNext`). These rest on lemmas about
remainders by an unknown `n`.

### The queue of lines (`Terminal_proofs`): `FirstRoundCorrect` and `LineQueueImplemented == Spec => ImplementsLineQueue`

From the same two assumptions. `BacklogIsValid` says which rows are waiting; here
the invariant is about what is in them. `QueueInv` adds to it, as long as no row was
overrun and no line was wider than a row:

- `Lines`: the characters of the line being typed and of each unread line are in the
  cells of their own row, from the first column on;
- `Blanks`: in the first round of the ring the cell behind an unread line, and all
  cells the keyboard has not reached, are `'\0'`;
- `Copied`: the bytes a read has copied so far begin as the oldest unread line does,
  and end with its `'\0'` in the first round; so do the bytes of the reads done.

The hard step is the interrupt between two `CopyByte`s (`WriteKeepsQueue`). It
writes one byte of the row `soffset`, which is not marked; by `BacklogIsValid` the
rows of unread lines are, so the row is another one, and cells of different rows
are different bytes (`CellsDiffer`, where rows are multiplied by an unknown width).
`FirstRoundIsExact` follows from `Copied` alone. For the refinement, the keyboard's
newline is `Enter` (`NewlineEnters`), `Release` is `Read` (`ReleaseReads`: the oldest
line is the head of the queue, its copy a cut of the length asked for), the step
that first overruns a row or widens a line is `Overflow`, and all others stutter
(`StepOfTheQueue`).

### `Processes_proofs`: the six properties of `process_table`

`TypeCorrect`, `RingCorrect` (`RingVisitsAll`), `GsCorrect` (`GsIsCurrentTask`),
`SyscallCorrect` (`SyscallIsTransparent`), `ChildCorrect` (`ChildReturnsLikeParent`)
and `ListCorrect` (`StaysInListUntilFork`), for all sizes that meet `LayoutOK` and
`FramesFit`, all texts within it, any contents of registers and any number of forks
below `MAX_PROCESS`. (That the PCB list has room for so many is another matter, see
`pcb_capacity`.) None is inductive: that a call returns the registers depends on what
lies on the kernel stack, and that on what prints, interrupts and forks write over
PCBs. `ProcessInv` has six parts:

- `TableInv`: PCB `i` has id `i` and leads to `i + 1`, the last to the first; ids, the
  search position and the fork history agree with the number of PCBs;
- `BootInv`: what boot has done at each `pc`, up to the frame that `context_switch`
  will find on the program's stack;
- `TaskInv`: the program's kernel stack is in use exactly down to `Level`, and GS base
  and stack pointers are right for the `pc`, also where only some of them are changed yet;
- `CallInv`: in a system call, the 13 saved registers lie below level `U`, and `rsp` is
  in one of three places: at the stack's end, below `finalArray`, below `addPCB`'s
  struct;
- `ChildInv`: a child that was given a stack is `Ready`, with a switch frame of 16
  words, the registers of its fork, and `rsp`, `rsp2` that fit them;
- `ListInv`: before the first fork nothing below the list was written.

The argument is in two halves. The arithmetic shows that each of the five kinds of
write (`PrintHarmless`, `AddingHarmless`, `InterruptOnStack`, `InterruptInPrint`,
`InterruptInAdding`) is `Harmless`: below the stack pointer, and not on `pid` and `next`
of init's PCB or on `pid`, `rsp` and `rsp2` of the program's. `OverwrittenIs` turns that into
"no PCB but init's is changed". The rest is about words: `Pushes` and `PoppedIs` say
what pushing and popping do, and with them each action has one lemma, by the parts it
disturbs.

### `Console_proofs`: `TypeCorrect`, `CursorCorrect`, `NewlineCorrect`, `SleepCorrect`, `ScreenCorrect`

For all screens and clocks that meet `ScreenOK`. The invariant has five parts; the
first four are each kept by every action on its own, the last uses the first, second and
fourth:

- `Bounds`: at each `pc`, how far `line` and `count` may be beyond the screen. The
  point is that an echo's own test resets them and that `kprintf` compares its
  register, so that between characters both are inside (`CursorOnScreen`), and
  within `MaxKeys` of it at any other time;
- `Pointing`: while no echo has come inside of a character since an undisturbed
  `'\n'`, where `video` and `reg` are at each `pc` in terms of `line` and `count`
  (`Undisturbed`); and while an undisturbed `'\n'` is under way, what it has repaired
  so far (`Repaired`). This gives `NewlineRepairs`;
- `Timed`: a sleep under way fell asleep in the second `due - asked \div 1000`, so
  `slept` is at least the ticks since the end of that second. This gives
  `SleepsLongEnough`, for arguments up to `MaxInt`;
- `Bytes`: what is on the screen and in the register;
- `ScreenInv`: until a handler first prints inside of `kprintf`, the screen is on its way
  from one sheet of text to the next (`Showing`). The sheet `t` it was drawn from and the
  history `text` are both there at each `pc`: the glyph is to be put (`Putting`), it is on
  the screen and to be counted (`Counting`), its row is full or ended (`Feeding`), rows
  are being moved (`Moving`). `Picture(t)` is the screen of a sheet, and `Scrolling(t, k)`
  the one of which the first `k` rows have moved; `ScrollingGoesOn` and `ScrollingEnds`
  show that `scrolldown`'s loop, row by row, ends in the picture of the sheet fed by one
  row. This gives `ScreenShowsText` (`ScreenCorrect`).

A place of the screen is an address, so the proof is about quotients and remainders by
the length of a row: `AtIs` and `AreaIs` translate between addresses and places, and
`SamePlaces` lets all else speak of rows and columns.

### `AddressSpace_proofs`: `AddressSpaceTypes`, `TreesNeverMix`, `SharedPagesStay`

`TypeOK`, `FramesAreTrees` and `ChildSharesPages`, for every number of levels, size of
tables and pages, amount of memory, program, and order of accesses, nested faults,
evictions and forks (`ShapeOK`, `VmasFit`). The powers of `Fanout` are the function
`Pages`; what it needs of induction is `SuccessorsReachAll` (a set that holds 0 and
the successor of each of its numbers holds all of them), applied to a set, so no
operator is instantiated. The inductive invariant is `IInv`:

- `TreesOK`: the tables of the program and of every child are a `Tree` (with an entry,
  all tables above it are there, up to the PML4), no two entries have the same frame
  (`Own`), all frames are below `free` (`Below`), the trees of two processes have no
  table in common (`Apart`), and a frame that a child's *page* has is the one the program
  has for it (`SharedIn`). The last two are what makes `ChildSharesPages` inductive;
- `FaultsOK`: at most two activations of the handler are open, a nested one is about the
  first's page with offset 0, and the frame of an unfinished copy is in no table.
  While a page is copied no child has it: this is why `FinishCopy` may change the entry
  of a page without breaking `SharedIn`;
- `StateOK` and `LoaderOK`: the types of the rest, and which word of which segment an
  access of the loader is.

The heart is one call of `mapVirtualAddress`: `Extends` says that the tables missing on the
way to a page are all the ones below some level, that they get consecutive new frames,
and that nothing was mapped below them. `InstallExtends` proves it of `Install`;
`FrameOf` gives for each entry of the new tree where its frame came from, and
the parts of `TreesOK` follow one by one. Fork is the other hard step:
`copyPageTableStructure` takes one frame for each table of the parent, counted by
`Rank`, and shares the frames of the pages.

### `AddressSpace_memory`: `VirtualMemoryImplemented == Spec => ImplementsVirtualMemory`, `LoaderIsExact`

With `AccessesFit` in addition, for the one program that runs: loads, demand faults,
nested faults, moves and evictions, with any forks in between. What a child would find
in its own address space is not part of it (no child runs). The refinement maps each
address to what the program would load from it. The invariant `MInv` adds to `IInv`:

- `BlankOK`: frames not yet granted hold zeroes (the allocator clears them; in the model
  that is `data`'s start), hence a page mapped late still reads as zero;
- `CacheOK`: the TLB has the translation of the tables, or the page was moved by
  the copying branch; then its old frame is in no table, and its new one holds exactly
  `snapshot`. The last is the important part: between the move and the eviction the
  program writes to the old frame, and nothing to the new one;
- `FaultingOK` and `AccessOK`: a fault under way is about the page of the access, which is
  neither cached nor, unless it is being copied, mapped; an access lies in one page.

Steps map as follows: `CopyWord` and the program's request are `Request`, `Perform` is `Serve`,
`FinishCopy` is `Move`, `Evict` of a moved page is `Forget`, every other step stutters:
`MapPage` because the new frame is blank, `Fork` because the parent's translations
stay. `LoadedExactly` (`LoaderIsExact`) needs a second invariant, `LoadingOK`:
the bytes up to the word under way are as the segments loaded so far say, the later
segment first, and no page of the loader was ever moved, since the addresses of words
lack the bits that `cowBitSet` tests. It is a statement about whole words of `p_memsz`
bytes while the loader is at work; afterwards the program's own stores are allowed to
change them.

### `Files_proofs`: `FilesTypes`, `OpenIsCorrect`, `ReadIsCorrect`

`TypeOK`, `OpenFindsFile` and `ReadsFileInOrder`, for every archive, block size and set
of names that meet the three assumptions, all counts and every order of opens, reads
and closes.

*The search.* `searchTarfs` adds a rounded size to its position, starting with -1, in
arithmetic modulo `Wrap`. `RoundsToZero`: the first size rounds up to `Wrap`, that is 0,
and so the loop makes steps of one block from its start (`VisitIs`, by an explicit
function that satisfies the recursive equation). It therefore meets every header
(`SearchIs`) and takes the first block that starts with the name; by `HeaderStarts` a
header does exactly if its file's name does, and the order of the headers makes it
the first such file (`SearchFinds`).

*The descriptors.* `FilesInv` has, next to the types, three parts:

- `OneSlot`: `initializeFd` leaves the slot it sets free, so the first free slot is
  slot 3 for ever: all opens share it, and no other slot is ever set;
- `Reading`: what was read since the slot was set are the bytes of the archive from its
  start to its place, and a read came up short only at a `'\0'` or the end (`CopyIs`,
  `PiecesJoin`);
- `HandleOK`: a descriptor is -1 or 3 as the search says, and the newest that found a
  file has set the slot's start. Only for the newest: with `OneSlot` this is exactly how far
  the property can go.

`ReadIsCorrect` is thus about the newest descriptor and about texts that leave room in
their last block, no more. `ReadsFileInOrder` then follows from what the archive has at
a file's start (`TextIs`).

### `Shell_proofs`: `ShellTypes`, `ArgumentCorrect`, `LeftoverCorrect`, `HangsCorrect`

All four properties of `shell`, for every number of words from two on and every width,
all sets of lines without a `'\0'`, any bytes in the words at the start, and any files.
What a command finds in its words depends on the lines before it, so that `ShellInv`
adds to the properties what lies in the rows:

- `Kept`: between commands the string in the second row is `left`, or nothing when the last
  command cleared it;
- `Ready`: when a line was split, the second row's string is `left` (the line's own second
  word, if it has one that fits), the first byte is the line's, and a `'\n'` behind a
  blank is in the array, if no later word is too long and the prompt is whole;
- `MayRead`: bookkeeping of lines and their count.

Four groups of lemmas carry it. *Words*: a word is found by counting blanks; `EndExists`
shows that each number of blanks has a place, `NextWord` that words follow one another
with one blank between them, `InAWord` that every other character is in a word. *The array*:
words may overlap, so `SplitIs` gives the array after the fold over the words as the last
word laid on each byte (`LaidNext` is one step of it). `OneWord` and `TwoWords` say which
string that leaves in row 1: the second word covers what the first may have laid there,
and words behind the second begin beyond it. *Strings*: `StringIs` says when row 1
holds a given string and `StringHolds` the converse, `ClearedIs` and `BothCleared` that
clearing up to the first `'\0'`, which may lie in a later row or nowhere, leaves the
empty string. *Newlines*: `CutIs` says what string is left when the first `'\n'` from row
1 on is replaced: if it is in the string it ends it; if not, the string stays.

`HangsOnlyOnBadLine` is the subtle one: a command runs off its memory if there is no
`'\n'` from row 1 on. If the line had one behind its first blank, it would be in a word
other than the first (`InAWord`); that word is in the array, as the prompt is whole; and
the words behind it cannot cover it when each is shorter than a row (`NewlineStays`).

## Only model-checked

Liveness (`LineIsRead`, `AccessCompletes`, `SleepEnds`): the prover has no rule for
fairness (ENABLED). Every other property of the passing runs is a theorem. The five
runs that expect a violation show their counterexamples on one instance each.

Induction over data is out of the prover's reach as a rule with an operator, and is
done here over sets instead: by `SuccessorsReachAll` (a set with 0 and the successor of
each of its members has every natural), also for the fold of `Split`.

## Where code and documentation disagree

- `descriptor_table`: `memoryAllocator.c:209,220` say `newPhysfree` is found by
  adding the table's size to `physfree`; the code adds it to `physbase`, so the
  end of the table lies in memory that is handed out. `page_allocator` shows
  that this never destroys a descriptor that is still needed under `LayoutOK`
  (the image is larger than the descriptors beyond), but it is by luck.
- `long_write`: `kprintf`'s array is larger than the kernel stack. Every print
  scribbles on the PCB's unused fields; a print of more than about 1200
  characters (the shell's `cat` prints up to 5000 at once) overwrites `pid`,
  `rsp` and `rsp2` of the running process.
- `pcb_capacity`: the PCB list has room for three PCBs, `MAX_PROCESS` is 100,
  and nothing checks. The fourth PCB overlaps pages nobody reads again, the
  fifth the VMA list of the first program.
- `cow_marks`: the comment at `pageFaultHandler.c:27` means bits of the page's
  entry, which fork sets; `cowBitSet` is given the faulting address and tests bits
  of its offset. A page first touched at such an offset is copied for nothing, and
  without a TLB flush the stores that follow are lost at the next eviction
  (`ImplementsVirtualMemory` says exactly that and no more happens).
- `files_missing`: `open` returns -1, `cat` tests for 1 only, and reads through
  `fdArr[-1]`.

## What is not modelled

- *The AHCI driver* (`sys/ahci.c`): nothing in the kernel calls it, so no state of
  the running system depends on it.
- *Hardware set-up* (`gdt.c`, `isr.c`'s tables, PIC, PIT, `io.c`): straight-line code
  without state that is read back.
- *Formatting*: `kprintf`'s conversions of arguments, the digits of the clock and
  the row it stands in.
- *Widths and places*: the allocator's numbers are unbounded (the `int` overflow of
  the table's size at 2 GB is listed as a hazard); what the boot stack's overflow
  hits is decided by the linker; what lies in the program's memory behind the
  buffer of a read; what `bufptr[count] = NULL` hits beyond its array, and what words laid
  behind the shell's array leave there (`prompt` may be overwritten, a search may end
  or not).
- *A second running process*: only init calls `yield2`, and the call in `sys_fork` is
  commented out, so that a forked child never runs. `Processes` shows that it could
  be resumed and `AddressSpace` that its pages stay; what it would do afterwards,
  `yield2` from a program included, is not behaviour of this kernel.
- *The reset in the windows of a system call*: an interrupt while `syscallHandler` is on
  the program's stack, at the end of the pages that are mapped.
- *Hazards that no property catches*: the models do what the code does there, and nothing
  in the repository promises anything else, so a property would only repeat the code. These
  are the page in front of `pcbList` under a fork and an interrupt (`scheduler.c:40`), the
  last bytes of a program header (`processLoader.c:94`), `p_memsz` for `p_filesz`
  (`elfParser.c:28`), `atoi` beyond an `int` (`syscalls.c:319`) and the slot all opens share
  (`fileDescriptor.c:20`). `PROJECT.json` has a note at each.
- *Dead code*: `keyboard_handler` of `sys/kb.c`, `create_process`, `switch2`,
  `parseTarfs`, `removePCB`, the stale `term.c` at the top.
- *Everything else in the repository*: `gdb-7.11/` (nearly all of its lines),
  `rootfs/`, the kernel binary and other build products. The modules cover the
  kernel and the shell; a share of all lines in the repository says nothing of them.

## Further work

Every component that runs is modelled (the console without its conversions of numbers),
and each of its safety properties proved. Left are: numbers of fixed width in
`PageAllocator` (a machine of 2 GB and more, where the size of its table overflows an
`int`); abstract specifications of `Files` and `Shell` in the way of `LineQueue`; and
proofs that the assumptions on sizes are tight, such as that `FramesFit` is necessary
for the stacks of `Processes`.
